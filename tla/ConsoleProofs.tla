--------------------------- MODULE ConsoleProofs ----------------------------
(***************************************************************************)
(* What FirmwareView.efi shows and reports of any system it may be started *)
(* on, proved part by part: the two lookups of ACPI tables, the walk over  *)
(* the MADT, the scan of PCI, the walk over SMBIOS, the readers of the     *)
(* memory map.  Each part has an inductive invariant of its own; at the    *)
(* end the program as a whole is shown to start in all of them and to      *)
(* leave each by the part's own steps only, so that they hold of every     *)
(* run of it.                                                              *)
(***************************************************************************)
EXTENDS Console, NumberInduction, SequenceTheorems

\* The least element of a set of numbers, by its name.
LEMMA LeastNumber ==
    ASSUME NEW S, S \subseteq Nat, S # {}
    PROVE  Min(S) \in S /\ \A y \in S : Min(S) <= y
BY LeastElement DEF Min

-----------------------------------------------------------------------------
\* An entry each of the two searches takes for a table of the name, and the
\* positions of these in a root.
Strict(a, signature) == ValidateAcpiTable(a, "any") /\ memory[a].signature = signature
Lax(a, signature) == /\ a # 0
                     /\ memory[a].length >= HeaderSize
                     /\ memory[a].signature = signature

StrictHits(entries, signature) == {i \in DOMAIN entries : Strict(entries[i], signature)}
LaxHits(entries, signature) == {i \in DOMAIN entries : Lax(entries[i], signature)}

\* What the console and the report make of the memory they are given.
ConsoleSays == IF rsdp = NULL THEN [tables |-> <<>>, madt |-> 0, mcfg |-> 0]
               ELSE ShownFrom(RootOf, RootName, RootEntrySize)
JsonSays == [tables |-> JsonAcpiTables,
             madt   |-> FindAcpiTableForJson("APIC"),
             mcfg   |-> FindAcpiTableForJson("MCFG")]

\* The invariant of the lookups: what was shown and what was reported is what
\* the memory says, and memory is of its type.
AInv == /\ AcpiMemory(rsdp, memory)
        /\ acpiConsole # NULL => acpiConsole = ConsoleSays
        /\ acpiJson # NULL => acpiJson = JsonSays

\* What a root lists, if the search is right to look into it.
LEMMA EntriesAreAddresses ==
    ASSUME AcpiMemory(rsdp, memory), rsdp # NULL,
           NEW root \in DOMAIN memory, NEW size \in {XsdtEntrySize, RsdtEntrySize},
           \/ root = rsdp.xsdt /\ size = XsdtEntrySize
           \/ root = rsdp.rsdt /\ size = RsdtEntrySize,
           memory[root].length >= HeaderSize
    PROVE  /\ Entries(memory[root], size) \in Seq(DOMAIN memory)
           /\ \A a \in DOMAIN memory : memory[a].length \in Nat
           /\ DOMAIN Entries(memory[root], size) = 1 .. Len(Entries(memory[root], size))
           /\ Len(Entries(memory[root], size)) \in Nat
<1>1. memory[root].length \in Nat /\ memory[root].entries \in Seq(DOMAIN memory)
  BY DEF AcpiMemory
<1>2. /\ EntryCount(memory[root], size) \in Nat
      /\ EntryCount(memory[root], size) <= Len(memory[root].entries)
  <2>1. CASE root = rsdp.xsdt /\ size = XsdtEntrySize
    BY <1>1, <2>1, SMTT(30) DEF AcpiMemory, EntryCount, HeaderSize, XsdtEntrySize
  <2>2. CASE root = rsdp.rsdt /\ size = RsdtEntrySize
    BY <1>1, <2>2, SMTT(30) DEF AcpiMemory, EntryCount, HeaderSize, RsdtEntrySize
  <2>3. QED  BY <2>1, <2>2
<1>3. Entries(memory[root], size) \in Seq(DOMAIN memory)
  BY <1>1, <1>2, SubSeqProperties DEF Entries
<1>4. QED  BY <1>3, LenProperties DEF AcpiMemory

\* The first of some positions of a sequence is the least of them.
LEMMA FirstPosition ==
    ASSUME NEW n \in Nat, NEW hits, hits \subseteq 1 .. n
    PROVE  /\ 0 \notin hits
           /\ hits # {} => Min(hits) \in hits /\ \A i \in hits : Min(hits) <= i
<1>1. 0 \notin hits /\ hits \subseteq Nat
  OBVIOUS
<1>2. hits # {} => Min(hits) \in hits /\ \A i \in hits : Min(hits) <= i
  BY <1>1, LeastNumber
<1>3. QED  BY <1>1, <1>2

\* The console's search returns the first entry it trusts, else 0.
LEMMA StrictSearch ==
    ASSUME NEW entries, NEW signature, Len(entries) \in Nat,
           DOMAIN entries = 1 .. Len(entries),
           NEW root, NEW name, NEW size,
           ValidateAcpiTable(root, name), Entries(memory[root], size) = entries
    PROVE  LET hits == StrictHits(entries, signature)
               it == FindAcpiTable(root, name, size, signature)
           IN  /\ hits = {} => it = 0
               /\ hits # {} => /\ it = entries[Min(hits)] /\ it # 0
                               /\ Min(hits) \in hits
                               /\ \A i \in hits : Min(hits) <= i
<1> DEFINE hits == StrictHits(entries, signature)
           first == SelectInSeq(entries, LAMBDA a : /\ ValidateAcpiTable(a, "any")
                                                      /\ memory[a].signature = signature)
<1>1. first = IF hits # {} THEN Min(hits) ELSE 0
  <2>1. hits = {i \in 1 .. Len(entries) : /\ ValidateAcpiTable(entries[i], "any")
                                          /\ memory[entries[i]].signature = signature}
    BY DEF Strict, StrictHits
  <2> HIDE DEF hits
  <2>2. QED  BY <2>1 DEF SelectInSeq
<1>2. 0 \notin hits /\ (hits # {} => Min(hits) \in hits /\ \A i \in hits : Min(hits) <= i)
  <2>1. hits \subseteq 1 .. Len(entries)
    BY DEF StrictHits
  <2> HIDE DEF hits
  <2>2. QED  BY <2>1, FirstPosition
<1>3. FindAcpiTable(root, name, size, signature) = IF first = 0 THEN 0 ELSE entries[first]
  BY DEF FindAcpiTable
<1>4. \A i \in hits : entries[i] # 0
  BY DEF Strict, StrictHits, ValidateAcpiTable
<1> HIDE DEF first, hits
<1>5. QED  BY <1>1, <1>2, <1>3, <1>4 DEF hits

\* The report's search returns the first entry of the name, else 0.
LEMMA LaxSearch ==
    ASSUME NEW entries, NEW signature, Len(entries) \in Nat,
           DOMAIN entries = 1 .. Len(entries),
           NEW root, NEW size, Entries(memory[root], size) = entries
    PROVE  LET hits == LaxHits(entries, signature)
               it == FoundIn(root, size, signature)
           IN  /\ hits = {} => it = 0
               /\ hits # {} => /\ it = entries[Min(hits)] /\ it # 0
                               /\ Min(hits) \in hits
                               /\ \A i \in hits : Min(hits) <= i
<1> DEFINE hits == LaxHits(entries, signature)
           first == SelectInSeq(entries, LAMBDA a : /\ a # 0
                                                      /\ memory[a].length >= HeaderSize
                                                      /\ memory[a].signature = signature)
<1>1. first = IF hits # {} THEN Min(hits) ELSE 0
  <2>1. hits = {i \in 1 .. Len(entries) : /\ entries[i] # 0
                                          /\ memory[entries[i]].length >= HeaderSize
                                          /\ memory[entries[i]].signature = signature}
    BY DEF Lax, LaxHits
  <2> HIDE DEF hits
  <2>2. QED  BY <2>1 DEF SelectInSeq
<1>2. 0 \notin hits /\ (hits # {} => Min(hits) \in hits /\ \A i \in hits : Min(hits) <= i)
  <2>1. hits \subseteq 1 .. Len(entries)
    BY DEF LaxHits
  <2> HIDE DEF hits
  <2>2. QED  BY <2>1, FirstPosition
<1>3. FoundIn(root, size, signature) = IF first = 0 THEN 0 ELSE entries[first]
  BY DEF FoundIn
<1>4. \A i \in hits : entries[i] # 0
  BY DEF Lax, LaxHits
<1> HIDE DEF first, hits
<1>5. QED  BY <1>1, <1>2, <1>3, <1>4 DEF hits

\* What the console trusts, the report takes too.
LEMMA StrictIsLax ==
    ASSUME NEW entries, NEW signature
    PROVE  StrictHits(entries, signature) \subseteq LaxHits(entries, signature)
BY DEF StrictHits, LaxHits, Strict, Lax, ValidateAcpiTable

\* The root the console trusts is one the report looks into, with the same
\* entries; the report goes on to the RSDT only if it has none of the name.
LEMMA SameRoot ==
    ASSUME AcpiMemory(rsdp, memory), rsdp # NULL, ValidateAcpiTable(RootOf, RootName),
           NEW signature
    PROVE  LET entries == Entries(memory[RootOf], RootEntrySize)
               inRoot == FoundIn(RootOf, RootEntrySize, signature)
           IN  /\ entries \in Seq(DOMAIN memory)
               /\ DOMAIN entries = 1 .. Len(entries) /\ Len(entries) \in Nat
               /\ inRoot # 0 => FindAcpiTableForJson(signature) = inRoot
               /\ inRoot = 0 => \/ FindAcpiTableForJson(signature) = 0
                                \/ /\ rsdp.rsdt # 0 /\ ProperRoot(rsdp.rsdt, "RSDT")
                                   /\ FindAcpiTableForJson(signature)
                                        = FoundIn(rsdp.rsdt, RsdtEntrySize, signature)
<1>1. RootOf # 0 /\ memory[RootOf].length >= HeaderSize /\ RootOf \in DOMAIN memory
  BY DEF ValidateAcpiTable, AcpiMemory, RootOf
<1>2. ProperRoot(RootOf, RootName)
  <2>1. memory[RootOf].signature = RootName
    BY DEF ValidateAcpiTable, RootName
  <2>2. QED  BY <1>1, <2>1 DEF ProperRoot
<1>3. CASE rsdp.revision >= 2
  <2>1. RootOf = rsdp.xsdt /\ RootName = "XSDT" /\ RootEntrySize = XsdtEntrySize
    BY <1>3 DEF RootOf, RootName, RootEntrySize
  <2>2. UsesXsdt /\ ProperRoot(rsdp.xsdt, "XSDT")
    BY <1>1, <1>2, <1>3, <2>1 DEF UsesXsdt
  <2>3. /\ FoundIn(rsdp.xsdt, XsdtEntrySize, signature) # 0
             => FindAcpiTableForJson(signature) = FoundIn(rsdp.xsdt, XsdtEntrySize, signature)
        /\ FoundIn(rsdp.xsdt, XsdtEntrySize, signature) = 0
             => FindAcpiTableForJson(signature) = InRsdt(signature)
    BY <2>2 DEF FindAcpiTableForJson
  <2>4. QED  BY <1>1, <2>1, <2>3, EntriesAreAddresses DEF InRsdt
<1>4. CASE ~(rsdp.revision >= 2)
  <2>1. RootOf = rsdp.rsdt /\ RootName = "RSDT" /\ RootEntrySize = RsdtEntrySize
    BY <1>4 DEF RootOf, RootName, RootEntrySize
  <2>2. FindAcpiTableForJson(signature) = FoundIn(rsdp.rsdt, RsdtEntrySize, signature)
    BY <1>1, <1>2, <1>4, <2>1 DEF UsesXsdt, FindAcpiTableForJson, InRsdt
  <2>3. QED  BY <1>1, <2>1, <2>2, EntriesAreAddresses
<1>5. QED  BY <1>3, <1>4
-----------------------------------------------------------------------------
\* What the console says of the two tables it hands on.
LEMMA ConsoleFinds ==
    ASSUME rsdp # NULL
    PROVE  /\ ConsoleSays.madt = FindAcpiTable(RootOf, RootName, RootEntrySize, "APIC")
           /\ ConsoleSays.mcfg = FindAcpiTable(RootOf, RootName, RootEntrySize, "MCFG")
           /\ ConsoleSays.tables = PrintRootTables(RootOf, RootName, RootEntrySize)
BY DEF ConsoleSays, ShownFrom

\* What was shown and what was reported of a table, by its name.
LEMMA ByName ==
    ASSUME AInv, NEW name \in DOMAIN Signatures
    PROVE  /\ rsdp = NULL /\ acpiConsole # NULL => acpiConsole[name] = 0
           /\ rsdp # NULL /\ acpiConsole # NULL =>
                acpiConsole[name] = FindAcpiTable(RootOf, RootName, RootEntrySize, Signatures[name])
           /\ acpiJson # NULL => acpiJson[name] = FindAcpiTableForJson(Signatures[name])
<1>1. name \in {"madt", "mcfg"}
  BY DEF Signatures
<1>2. CASE name = "madt"
  BY <1>2, ConsoleFinds DEF AInv, ConsoleSays, JsonSays, Signatures
<1>3. CASE name = "mcfg"
  BY <1>3, ConsoleFinds DEF AInv, ConsoleSays, JsonSays, Signatures
<1>4. QED  BY <1>1, <1>2, <1>3

\* A trusted table in a valid root is found, whatever lies in front of it, and
\* what is found is one.
LEMMA AnyValidIsFound == AInv => ValidOneIsFound
<1> SUFFICES ASSUME AInv, acpiConsole # NULL, NEW name \in DOMAIN Signatures
             PROVE  /\ \A a \in DOMAIN memory :
                         TrustedTable(a) /\ memory[a].signature = Signatures[name]
                           => acpiConsole[name] # 0
                    /\ acpiConsole[name] # 0 =>
                         /\ TrustedTable(acpiConsole[name])
                         /\ memory[acpiConsole[name]].signature = Signatures[name]
  BY DEF ValidOneIsFound
<1> DEFINE entries == Entries(memory[RootOf], RootEntrySize)
           signature == Signatures[name]
           hits == StrictHits(entries, signature)
<1>1. ASSUME rsdp # NULL, ValidateAcpiTable(RootOf, RootName)
      PROVE  /\ DOMAIN entries = 1 .. Len(entries) /\ Len(entries) \in Nat
             /\ acpiConsole[name] = FindAcpiTable(RootOf, RootName, RootEntrySize, signature)
             /\ hits = {} => acpiConsole[name] = 0
             /\ hits # {} => /\ acpiConsole[name] = entries[Min(hits)]
                             /\ acpiConsole[name] # 0 /\ Min(hits) \in hits
  <2>1. DOMAIN entries = 1 .. Len(entries) /\ Len(entries) \in Nat
    BY <1>1, SameRoot DEF AInv
  <2>2. acpiConsole[name] = FindAcpiTable(RootOf, RootName, RootEntrySize, signature)
    BY <1>1, ByName
  <2> HIDE DEF signature
  <2>3. QED  BY <1>1, <2>1, <2>2, StrictSearch
<1>2. ASSUME NEW a \in DOMAIN memory, TrustedTable(a), memory[a].signature = signature
      PROVE  acpiConsole[name] # 0
  <2>1. /\ rsdp # NULL /\ ValidateAcpiTable(RootOf, RootName)
        /\ a \in Range(entries) /\ ValidateAcpiTable(a, "any")
    BY <1>2 DEF TrustedTable
  <2>2. PICK i \in DOMAIN entries : entries[i] = a
    BY <2>1 DEF Range
  <2>3. i \in hits
    BY <1>2, <2>1, <2>2 DEF StrictHits, Strict
  <2>4. QED  BY <1>1, <2>1, <2>3
<1>3. ASSUME acpiConsole[name] # 0
      PROVE  /\ TrustedTable(acpiConsole[name])
             /\ memory[acpiConsole[name]].signature = signature
  <2>1. rsdp # NULL
    BY <1>3, ByName
  <2>2. ValidateAcpiTable(RootOf, RootName)
    BY <1>3, <2>1, ByName DEF FindAcpiTable
  <2>3. acpiConsole[name] = entries[Min(hits)] /\ Min(hits) \in hits
    BY <1>1, <1>3, <2>1, <2>2
  <2>4. Min(hits) \in DOMAIN entries /\ Strict(entries[Min(hits)], signature)
    BY <2>3 DEF StrictHits
  <2>5. acpiConsole[name] \in Range(entries)
    BY <2>3, <2>4 DEF Range
  <2>6. QED  BY <2>1, <2>2, <2>3, <2>4, <2>5 DEF Strict, TrustedTable
<1>4. QED  BY <1>2, <1>3

\* The first place of what stands at the least of some positions, if those are
\* told apart by what stands there.
LEMMA FirstPlace ==
    ASSUME NEW entries, NEW hits, hits \subseteq DOMAIN entries, hits # {},
           DOMAIN entries \subseteq Nat,
           NEW m \in hits, \A i \in hits : m <= i,
           \A i \in hits, j \in DOMAIN entries : entries[j] = entries[i] => j \in hits
    PROVE  (CHOOSE i \in DOMAIN entries :
               /\ entries[i] = entries[m]
               /\ \A j \in DOMAIN entries : entries[j] = entries[m] => i <= j) = m
<1> DEFINE First(i) == /\ entries[i] = entries[m]
                       /\ \A j \in DOMAIN entries : entries[j] = entries[m] => i <= j
<1>1. m \in DOMAIN entries /\ First(m)
  OBVIOUS
<1>2. \A i \in DOMAIN entries : First(i) => i = m
  BY <1>1
<1> HIDE DEF First
<1>3. (CHOOSE i \in DOMAIN entries : First(i)) = m
  BY <1>1, <1>2
<1>4. QED  BY <1>3 DEF First

\* The report finds what the console finds, or something before it.
LEMMA LaxFindsToo ==
    ASSUME AcpiMemory(rsdp, memory), rsdp # NULL, ValidateAcpiTable(RootOf, RootName),
           NEW signature,
           FindAcpiTable(RootOf, RootName, RootEntrySize, signature) # 0
    PROVE  LET entries == Entries(memory[RootOf], RootEntrySize)
               strict  == StrictHits(entries, signature)
               lax     == LaxHits(entries, signature)
           IN  /\ strict # {} /\ Min(strict) \in strict /\ \A i \in strict : Min(strict) <= i
               /\ FindAcpiTable(RootOf, RootName, RootEntrySize, signature) = entries[Min(strict)]
               /\ lax # {} /\ Min(lax) \in lax /\ \A i \in lax : Min(lax) <= i
               /\ FindAcpiTableForJson(signature) = entries[Min(lax)]
<1> DEFINE entries == Entries(memory[RootOf], RootEntrySize)
<1>1. DOMAIN entries = 1 .. Len(entries) /\ Len(entries) \in Nat
  BY SameRoot
<1>2. LET strict == StrictHits(entries, signature)
      IN  /\ strict # {} /\ Min(strict) \in strict /\ \A i \in strict : Min(strict) <= i
          /\ FindAcpiTable(RootOf, RootName, RootEntrySize, signature) = entries[Min(strict)]
  BY <1>1, StrictSearch
<1>3. LaxHits(entries, signature) # {}
  BY <1>2, StrictIsLax
<1>4. LET lax == LaxHits(entries, signature)
      IN  /\ Min(lax) \in lax /\ \A i \in lax : Min(lax) <= i
          /\ FoundIn(RootOf, RootEntrySize, signature) = entries[Min(lax)]
          /\ FoundIn(RootOf, RootEntrySize, signature) # 0
  BY <1>1, <1>3, LaxSearch
<1>5. FindAcpiTableForJson(signature) = FoundIn(RootOf, RootEntrySize, signature)
  BY <1>4, SameRoot
<1> HIDE DEF entries
<1>6. QED  BY <1>2, <1>3, <1>4, <1>5 DEF entries

\* What the report finds has the name it looked for.
LEMMA FoundHasName ==
    ASSUME AcpiMemory(rsdp, memory), rsdp # NULL, ValidateAcpiTable(RootOf, RootName),
           NEW signature, FindAcpiTableForJson(signature) # 0
    PROVE  memory[FindAcpiTableForJson(signature)].signature = signature
<1> DEFINE entries == Entries(memory[RootOf], RootEntrySize)
           old == Entries(memory[rsdp.rsdt], RsdtEntrySize)
<1>1. CASE FoundIn(RootOf, RootEntrySize, signature) # 0
  <2>1. DOMAIN entries = 1 .. Len(entries) /\ Len(entries) \in Nat
    BY SameRoot
  <2>2. LET hits == LaxHits(entries, signature)
        IN  Min(hits) \in hits /\ FoundIn(RootOf, RootEntrySize, signature) = entries[Min(hits)]
    BY <1>1, <2>1, LaxSearch
  <2>3. memory[FoundIn(RootOf, RootEntrySize, signature)].signature = signature
    BY <2>2 DEF LaxHits, Lax
  <2>4. QED  BY <1>1, <2>3, SameRoot
<1>2. CASE FoundIn(RootOf, RootEntrySize, signature) = 0
  <2>1. /\ rsdp.rsdt # 0 /\ ProperRoot(rsdp.rsdt, "RSDT")
        /\ FindAcpiTableForJson(signature) = FoundIn(rsdp.rsdt, RsdtEntrySize, signature)
    BY <1>2, SameRoot
  <2>2. DOMAIN old = 1 .. Len(old) /\ Len(old) \in Nat
    BY <2>1, EntriesAreAddresses DEF ProperRoot, AcpiMemory
  <2>3. LET hits == LaxHits(old, signature)
        IN  Min(hits) \in hits /\ FoundIn(rsdp.rsdt, RsdtEntrySize, signature) = old[Min(hits)]
    BY <2>1, <2>2, LaxSearch
  <2>4. QED  BY <2>1, <2>3 DEF LaxHits, Lax
<1>3. QED  BY <1>1, <1>2

\* The report finds what the console finds, or something in front of it; and
\* it finds something else only where that is not to be trusted.
LEMMA NothingMissed == AInv => ReportMissesNothing
<1> SUFFICES ASSUME AInv, acpiConsole # NULL, acpiJson # NULL,
                    NEW name \in DOMAIN Signatures
             PROVE  /\ acpiConsole[name] # 0 =>
                         LET entries == Entries(memory[RootOf], RootEntrySize)
                             first(a) == CHOOSE i \in DOMAIN entries :
                                           /\ entries[i] = a
                                           /\ \A j \in DOMAIN entries : entries[j] = a => i <= j
                         IN  /\ acpiJson[name] # 0 /\ acpiJson[name] \in Range(entries)
                             /\ memory[acpiJson[name]].signature = Signatures[name]
                             /\ first(acpiJson[name]) <= first(acpiConsole[name])
                    /\ acpiJson[name] # acpiConsole[name] => ~TrustedTable(acpiJson[name])
  BY DEF ReportMissesNothing
<1> DEFINE entries == Entries(memory[RootOf], RootEntrySize)
           signature == Signatures[name]
           strict == StrictHits(entries, signature)
           lax == LaxHits(entries, signature)
<1>1. AcpiMemory(rsdp, memory)
  BY DEF AInv
<1>2. acpiJson[name] = FindAcpiTableForJson(signature)
  BY ByName
<1>3. ASSUME acpiConsole[name] # 0
      PROVE  /\ strict # {} /\ Min(strict) \in strict /\ \A i \in strict : Min(strict) <= i
             /\ acpiConsole[name] = entries[Min(strict)]
             /\ lax # {} /\ Min(lax) \in lax /\ \A i \in lax : Min(lax) <= i
             /\ acpiJson[name] = entries[Min(lax)]
             /\ DOMAIN entries = 1 .. Len(entries) /\ Len(entries) \in Nat
  <2>1. rsdp # NULL
    BY <1>3, ByName
  <2>2. acpiConsole[name] = FindAcpiTable(RootOf, RootName, RootEntrySize, signature)
    BY <2>1, ByName
  <2>3. ValidateAcpiTable(RootOf, RootName)
    BY <1>3, <2>2 DEF FindAcpiTable
  <2>4. DOMAIN entries = 1 .. Len(entries) /\ Len(entries) \in Nat
    BY <1>1, <2>1, <2>3, SameRoot
  <2> HIDE DEF signature
  <2>5. QED  BY <1>1, <1>2, <1>3, <2>1, <2>2, <2>3, <2>4, LaxFindsToo
<1>4. /\ strict \subseteq DOMAIN entries /\ lax \subseteq DOMAIN entries
      /\ strict \subseteq lax
      /\ \A i \in strict, j \in DOMAIN entries : entries[j] = entries[i] => j \in strict
      /\ \A i \in lax, j \in DOMAIN entries : entries[j] = entries[i] => j \in lax
      /\ \A i \in lax : Lax(entries[i], signature)
  <2>1. strict \subseteq lax
    BY StrictIsLax
  <2>2. QED  BY <2>1 DEF StrictHits, LaxHits
<1> DEFINE first(a) == CHOOSE i \in DOMAIN entries :
                         /\ entries[i] = a
                         /\ \A j \in DOMAIN entries : entries[j] = a => i <= j
<1>5. ASSUME acpiConsole[name] # 0
      PROVE  /\ acpiJson[name] # 0 /\ acpiJson[name] \in Range(entries)
             /\ memory[acpiJson[name]].signature = signature
             /\ first(acpiJson[name]) <= first(acpiConsole[name])
  <2>1. /\ strict # {} /\ Min(strict) \in strict /\ \A i \in strict : Min(strict) <= i
        /\ acpiConsole[name] = entries[Min(strict)]
        /\ lax # {} /\ Min(lax) \in lax /\ \A i \in lax : Min(lax) <= i
        /\ acpiJson[name] = entries[Min(lax)]
        /\ DOMAIN entries \subseteq Nat
    BY <1>3, <1>5
  <2>2. Lax(acpiJson[name], signature)
    BY <1>4, <2>1
  <2> HIDE DEF strict, lax, entries
  <2>3. first(acpiConsole[name]) = Min(strict)
    BY <1>4, <2>1, FirstPlace
  <2>4. first(acpiJson[name]) = Min(lax)
    BY <1>4, <2>1, FirstPlace
  <2>5. Min(lax) <= Min(strict)
    BY <1>4, <2>1
  <2>6. acpiJson[name] \in Range(entries)
    BY <1>4, <2>1 DEF Range
  <2>7. QED  BY <2>2, <2>3, <2>4, <2>5, <2>6 DEF Lax
<1>6. ASSUME TrustedTable(acpiJson[name])
      PROVE  acpiJson[name] = acpiConsole[name]
  <2>1. /\ rsdp # NULL /\ ValidateAcpiTable(RootOf, RootName)
        /\ acpiJson[name] \in Range(entries) /\ ValidateAcpiTable(acpiJson[name], "any")
    BY <1>6 DEF TrustedTable
  <2>2. acpiJson[name] # 0
    BY <2>1 DEF ValidateAcpiTable
  <2>3. memory[acpiJson[name]].signature = signature
    <3> HIDE DEF signature
    <3>1. QED  BY <1>1, <1>2, <2>1, <2>2, FoundHasName
  <2>4. PICK i \in DOMAIN entries : entries[i] = acpiJson[name]
    BY <2>1 DEF Range
  <2>5. Strict(acpiJson[name], signature)
    BY <2>1, <2>3 DEF Strict
  <2>6. acpiJson[name] \in DOMAIN memory
    <3>1. entries \in Seq(DOMAIN memory)
      BY <1>1, <2>1, SameRoot
    <3> HIDE DEF entries
    <3>2. QED  BY <2>4, <3>1, ElementOfSeq
  <2>7. acpiConsole[name] # 0
    BY <1>6, <2>3, <2>6, AnyValidIsFound DEF ValidOneIsFound
  <2>8. Min(lax) \in strict
    BY <1>3, <1>4, <2>5, <2>7 DEF StrictHits
  <2>9. Min(strict) = Min(lax)
    <3>1. /\ Min(strict) \in lax /\ Min(strict) <= Min(lax) /\ Min(lax) <= Min(strict)
          /\ Min(strict) \in Nat /\ Min(lax) \in Nat
      BY <1>3, <1>4, <2>7, <2>8
    <3> HIDE DEF strict, lax
    <3>2. QED  BY <3>1
  <2>10. QED  BY <1>3, <2>7, <2>9
<1>7. QED  BY <1>5, <1>6

\* On sound firmware an entry is of the name exactly if it is validly so.
LEMMA SoundSearches ==
    ASSUME AcpiMemory(rsdp, memory), SoundFirmware, NEW signature
    PROVE  FindAcpiTable(RootOf, RootName, RootEntrySize, signature)
             = FindAcpiTableForJson(signature)
<1> DEFINE entries == Entries(memory[RootOf], RootEntrySize)
           old == Entries(memory[rsdp.rsdt], RsdtEntrySize)
<1>1. /\ rsdp # NULL /\ ValidateAcpiTable(RootOf, RootName)
      /\ \A i \in DOMAIN entries : ValidateAcpiTable(entries[i], "any")
      /\ rsdp.rsdt # 0 => /\ ValidateAcpiTable(rsdp.rsdt, "RSDT")
                         /\ Range(old) \subseteq Range(entries)
  BY DEF SoundFirmware, Range
<1>2. DOMAIN entries = 1 .. Len(entries) /\ Len(entries) \in Nat
  BY <1>1, SameRoot
<1>3. CASE FindAcpiTable(RootOf, RootName, RootEntrySize, signature) # 0
  <2>1. LaxHits(entries, signature) = StrictHits(entries, signature)
    <3>1. \A i \in DOMAIN entries : Lax(entries[i], signature) => Strict(entries[i], signature)
      BY <1>1 DEF Strict, Lax
    <3> HIDE DEF entries
    <3>2. QED  BY <3>1, StrictIsLax DEF LaxHits, StrictHits
  <2>2. QED  BY <1>1, <1>3, <2>1, LaxFindsToo
<1>4. CASE FindAcpiTable(RootOf, RootName, RootEntrySize, signature) = 0
  <2>1. StrictHits(entries, signature) = {}
    BY <1>1, <1>2, <1>4, StrictSearch
  <2>2. \A i \in DOMAIN entries : memory[entries[i]].signature # signature
    BY <1>1, <2>1 DEF StrictHits, Strict
  <2>3. LaxHits(entries, signature) = {}
    BY <2>2 DEF LaxHits, Lax
  <2>4. FoundIn(RootOf, RootEntrySize, signature) = 0
    BY <1>2, <2>3, LaxSearch
  <2>5. CASE /\ rsdp.rsdt # 0 /\ ProperRoot(rsdp.rsdt, "RSDT")
             /\ FindAcpiTableForJson(signature) = FoundIn(rsdp.rsdt, RsdtEntrySize, signature)
    <3>1. DOMAIN old = 1 .. Len(old) /\ Len(old) \in Nat
      BY <1>1, <2>5, EntriesAreAddresses DEF ProperRoot, AcpiMemory
    <3>2. \A j \in DOMAIN old : \E i \in DOMAIN entries : old[j] = entries[i]
      BY <1>1, <2>5 DEF Range
    <3>3. LaxHits(old, signature) = {}
      BY <2>2, <3>2 DEF LaxHits, Lax
    <3>4. FoundIn(rsdp.rsdt, RsdtEntrySize, signature) = 0
      BY <3>1, <3>3, LaxSearch
    <3>5. QED  BY <1>4, <2>5, <3>4
  <2>6. QED  BY <1>1, <1>4, <2>4, <2>5, SameRoot
<1>5. QED  BY <1>3, <1>4

\* On sound firmware the two listings of a root are the same.
LEMMA SoundListings ==
    ASSUME AcpiMemory(rsdp, memory), SoundFirmware
    PROVE  PrintRootTables(RootOf, RootName, RootEntrySize) = JsonAcpiTables
<1> DEFINE entries == Entries(memory[RootOf], RootEntrySize)
<1>1. /\ rsdp # NULL /\ ValidateAcpiTable(RootOf, RootName)
      /\ \A i \in DOMAIN entries : ValidateAcpiTable(entries[i], "any")
  BY DEF SoundFirmware, Range
<1>2. PrintRootTables(RootOf, RootName, RootEntrySize)
        = [i \in DOMAIN entries |-> memory[entries[i]].signature]
  <2>1. PrintRootTables(RootOf, RootName, RootEntrySize)
          = [i \in DOMAIN entries |->
                CASE ValidateAcpiTable(entries[i], "any")       -> memory[entries[i]].signature
                  [] entries[i] = 0                             -> "null"
                  [] OTHER                                      -> "invalid"]
    BY <1>1 DEF PrintRootTables
  <2>2. \A i \in DOMAIN entries : ~(entries[i] = 0)
    BY <1>1 DEF ValidateAcpiTable
  <2> HIDE DEF entries
  <2>3. QED  BY <1>1, <2>1, <2>2
<1>3. ~(memory[RootOf].length < HeaderSize) /\ RootOf # 0
  <2>1. RootOf \in DOMAIN memory
    BY <1>1 DEF AcpiMemory, RootOf
  <2>2. QED  BY <1>1, <2>1 DEF ValidateAcpiTable, AcpiMemory, HeaderSize
<1>4. JsonAcpiTables = ListedFrom(RootOf, RootEntrySize)
  BY <1>1, <1>3 DEF JsonAcpiTables, UsesXsdt, RootOf, RootEntrySize
<1>5. ListedFrom(RootOf, RootEntrySize) = [i \in DOMAIN entries |-> memory[entries[i]].signature]
  BY <1>3 DEF ListedFrom
<1>6. QED  BY <1>2, <1>4, <1>5

\* On sound firmware the two searches see one root and trust all of it.
LEMMA SoundViewsAgree == AInv => ViewsAgree
<1> SUFFICES ASSUME AInv, acpiConsole # NULL, acpiJson # NULL, SoundFirmware
             PROVE  acpiConsole = acpiJson
  BY DEF ViewsAgree
<1>1. rsdp # NULL
  BY DEF SoundFirmware
<1>2. /\ acpiConsole = ShownFrom(RootOf, RootName, RootEntrySize)
      /\ acpiJson = JsonSays
  BY <1>1 DEF AInv, ConsoleSays
<1>3. QED  BY <1>2, SoundSearches, SoundListings DEF AInv, ShownFrom, JsonSays

\* A step leaves memory as it is, and so what either search makes of it.
LEMMA SameMemory ==
    ASSUME rsdp' = rsdp, memory' = memory
    PROVE  ConsoleSays' = ConsoleSays /\ JsonSays' = JsonSays
<1>1. ASSUME NEW a, NEW name
      PROVE  ValidateAcpiTable(a, name)' <=> ValidateAcpiTable(a, name)
  BY DEF ValidateAcpiTable
<1>2. ASSUME NEW root, NEW name, NEW size, NEW signature
      PROVE  FindAcpiTable(root, name, size, signature)' = FindAcpiTable(root, name, size, signature)
  BY DEF FindAcpiTable, ValidateAcpiTable, SelectInSeq
<1>3. ASSUME NEW root, NEW size, NEW signature
      PROVE  FoundIn(root, size, signature)' = FoundIn(root, size, signature)
  BY DEF FoundIn, SelectInSeq
<1>4. ASSUME NEW root, NEW name, NEW size
      PROVE  PrintRootTables(root, name, size)' = PrintRootTables(root, name, size)
  BY DEF PrintRootTables, ValidateAcpiTable
<1>5. RootOf' = RootOf /\ RootName' = RootName /\ RootEntrySize' = RootEntrySize
  BY DEF RootOf, RootName, RootEntrySize
<1>6. ConsoleSays' = ConsoleSays
  BY <1>2, <1>4, <1>5 DEF ConsoleSays, ShownFrom
<1>7. JsonAcpiTables' = JsonAcpiTables
  BY DEF JsonAcpiTables, ListedFrom, UsesXsdt
<1>8. ASSUME NEW signature
      PROVE  FindAcpiTableForJson(signature)' = FindAcpiTableForJson(signature)
  BY <1>3 DEF FindAcpiTableForJson, InRsdt, ProperRoot, UsesXsdt
<1>9. QED  BY <1>6, <1>7, <1>8 DEF JsonSays

\* Either lookup, or another part's turn.
LEMMA AcpiStepPreserves ==
    ASSUME AInv, PrintAcpiTables \/ ReportAcpi \/ UNCHANGED avars
    PROVE  AInv'
<1>1. rsdp' = rsdp /\ memory' = memory
  BY DEF PrintAcpiTables, ReportAcpi, avars
<1>2. ConsoleSays' = ConsoleSays /\ JsonSays' = JsonSays
  BY <1>1, SameMemory
<1>3. AcpiMemory(rsdp', memory')
  BY <1>1 DEF AInv
<1>4. acpiConsole' = acpiConsole \/ acpiConsole' = ConsoleSays
  BY DEF PrintAcpiTables, ReportAcpi, avars, ConsoleSays
<1>5. acpiJson' = acpiJson \/ acpiJson' = JsonSays
  BY DEF PrintAcpiTables, ReportAcpi, avars, JsonSays
<1>6. QED  BY <1>2, <1>3, <1>4, <1>5 DEF AInv

-----------------------------------------------------------------------------
(***************************************************************************)
(* The walk over the MADT.                                                 *)
(***************************************************************************)

\* What was printed is a front part of what the firmware wrote, and the walk
\* is at the record behind it.
FollowsRecords ==
    WellFormedMadt(table) =>
        /\ madtReach <= entry
        /\ Len(shown) <= Len(table.records)
        /\ entry = RecordAt(table, Len(shown) + 1)
        /\ \A i \in 1 .. Len(shown) :
              shown[i] = <<table.records[i].at, table.records[i].type>>
        /\ mpc = "done" /\ table.found /\ table.signed => Len(shown) = Len(table.records)

MadtInv == /\ table \in Tables
           /\ MadtTypeOK
           /\ RoundsBounded
           /\ OverreadBounded
           /\ FollowsRecords

\* A record the loop looks at lies in memory with both bytes of its header.
LEMMA HeaderReadable ==
    ASSUME MadtInv, entry < table.end
    PROVE  /\ EntryType \in 0 .. 255 /\ EntryLength \in 0 .. 255
           /\ entry \in Nat /\ table.end \in Int
<1>1. table.bytes \in Seq(0 .. 255) /\ table.end \in Int /\ table.end < Len(table.bytes)
  BY TablesAssumption DEF MadtInv
<1>2. entry \in Nat
  BY DEF MadtInv, MadtTypeOK
<1>3. entry + 1 \in 1 .. Len(table.bytes) /\ entry + 2 \in 1 .. Len(table.bytes)
  BY <1>1, <1>2
<1>4. table.bytes[entry + 1] \in 0 .. 255 /\ table.bytes[entry + 2] \in 0 .. 255
  BY <1>1, <1>3, ElementOfSeq
<1>5. QED  BY <1>1, <1>2, <1>4 DEF EntryType, EntryLength

\* No printer reads more of a record than that of the x2APIC.
LEMMA LongestStructure ==
    ASSUME NEW type \in 0 .. 255
    PROVE  ReadBy(type) \in SizeOfHeader .. ReadBy(LocalX2Apic)
BY DEF ReadBy, SizeOfHeader, LocalApic, IoApic, InterruptSourceOverride, LocalApicNmi, LocalX2Apic

\* The longest structure is that of the x2APIC.
LEMMA LongestIs16 == ReadBy(LocalX2Apic) = 16
BY DEF ReadBy, LocalApic, IoApic, InterruptSourceOverride, LocalApicNmi, LocalX2Apic

\* In a well-formed table every record begins below the end of the table.
LEMMA RecordsBelowEnd ==
    ASSUME NEW t \in Tables, WellFormedMadt(t)
    PROVE  /\ Len(t.records) \in Nat /\ t.end \in Nat
           /\ \A i \in 1 .. Len(t.records) :
                 /\ t.records[i] \in [at : Nat, type : 0 .. 255, length : 0 .. 255]
                 /\ RecordAt(t, i) = t.records[i].at /\ t.records[i].at < t.end
                 /\ t.records[i].length >= ReadBy(t.records[i].type)
                 /\ RecordAt(t, i + 1) = t.records[i].at + t.records[i].length
                 /\ t.bytes[t.records[i].at + 1] = t.records[i].type
                 /\ t.bytes[t.records[i].at + 2] = t.records[i].length
           /\ RecordAt(t, Len(t.records) + 1) = t.end
<1>1. /\ t.records \in Seq([at : Nat, type : 0 .. 255, length : 0 .. 255])
      /\ t.end \in Int
  BY TablesAssumption
<1>2. PICK n \in Nat : n = Len(t.records)
  BY <1>1, LenProperties
<1>3. ASSUME NEW i \in 1 .. n
      PROVE  /\ t.records[i] \in [at : Nat, type : 0 .. 255, length : 0 .. 255]
             /\ RecordAt(t, i) = t.records[i].at
             /\ t.records[i].length >= ReadBy(t.records[i].type)
             /\ ReadBy(t.records[i].type) \in 2 .. 16
             /\ RecordAt(t, i + 1) = t.records[i].at + t.records[i].length
             /\ t.bytes[t.records[i].at + 1] = t.records[i].type
             /\ t.bytes[t.records[i].at + 2] = t.records[i].length
  <2>1. t.records[i] \in [at : Nat, type : 0 .. 255, length : 0 .. 255]
    <3>1. i \in 1 .. Len(t.records)
      BY <1>2
    <3>2. QED  BY <1>1, <3>1, ElementOfSeq
  <2>2. RecordAt(t, i) = t.records[i].at
    BY <1>2 DEF RecordAt
  <2>3. ReadBy(t.records[i].type) \in 2 .. 16
    BY <2>1, LongestStructure, LongestIs16 DEF SizeOfHeader
  <2>4. QED  BY <1>2, <2>1, <2>2, <2>3 DEF WellFormedMadt
<1>4. RecordAt(t, n + 1) = t.end
  BY <1>2 DEF RecordAt
\* Else there is a last record that does not: the one behind it does not either.
<1>5. ASSUME NEW i \in 1 .. n, ~(t.records[i].at < t.end)
      PROVE  FALSE
  <2> DEFINE Late == { k \in 0 .. n - 1 : RecordAt(t, n - k) >= t.end }
  <2>1. n - i \in Late
    <3>1. n - i \in 0 .. n - 1 /\ n - (n - i) = i
      OBVIOUS
    <3>2. t.records[i].at >= t.end
      <4>1. t.records[i].at \in Nat
        BY <1>3
      <4>2. QED  BY <1>1, <1>5, <4>1
    <3>3. RecordAt(t, n - (n - i)) >= t.end
      BY <1>3, <3>1, <3>2
    <3>4. QED  BY <3>1, <3>3
  <2>2. PICK k \in Late : \A y \in Late : k <= y
    <3>1. Late \subseteq Nat
      BY <1>2
    <3>2. Late # {}
      BY <2>1
    <3> HIDE DEF Late
    <3>3. QED  BY <3>1, <3>2, LeastNumber
  <2>3. PICK j \in 1 .. n : j = n - k
    BY <1>2
  <2>4. PICK r \in [at : Nat, type : 0 .. 255, length : 0 .. 255] :
           /\ r = t.records[j] /\ RecordAt(t, j) = r.at /\ RecordAt(t, j) >= t.end
           /\ RecordAt(t, j + 1) = r.at + r.length /\ r.length >= ReadBy(r.type)
           /\ ReadBy(r.type) \in 2 .. 16
    BY <1>3, <2>2, <2>3
  <2>5. RecordAt(t, j + 1) > t.end /\ RecordAt(t, j + 1) \in Nat
    <3>1. PICK size \in 2 .. 16 : size = ReadBy(r.type)
      BY <2>4
    <3>2. PICK a \in Nat : a = r.at
      BY <2>4
    <3>3. PICK l \in 0 .. 255 : l = r.length
      BY <2>4
    <3>4. PICK e \in Int : e = t.end
      BY <1>1
    <3>5. l >= size /\ a >= e
      BY <2>4, <3>1, <3>2, <3>3, <3>4
    <3>6. a + l > e /\ a + l \in Nat
      BY <3>5
    <3>7. QED  BY <2>4, <3>2, <3>3, <3>4, <3>6
  <2>6. CASE k = 0
    BY <1>1, <1>2, <1>4, <2>3, <2>5, <2>6
  <2>7. CASE k # 0
    <3>1. k - 1 \in 0 .. n - 1 /\ n - (k - 1) = j + 1
      BY <1>2, <2>3, <2>7
    <3>2. RecordAt(t, n - (k - 1)) >= t.end
      BY <1>1, <2>5, <3>1
    <3>3. k - 1 \in Late
      BY <3>1, <3>2
    <3>4. QED  BY <2>2, <3>3
  <2>8. QED  BY <2>6, <2>7
<1>6. t.end \in Nat
  <2>1. CASE n = 0
    BY <1>4, <2>1 DEF WellFormedMadt
  <2>2. CASE n > 0
    <3>1. 1 \in 1 .. n
      BY <1>2, <2>2
    <3>2. t.records[1].at \in Nat /\ t.records[1].at < t.end
      BY <1>3, <1>5, <3>1
    <3>3. QED  BY <1>1, <3>2
  <2>3. QED  BY <1>2, <2>1, <2>2
<1>7. QED  BY <1>2, <1>3, <1>4, <1>5, <1>6, SMTT(30)

\* The walk over any of the tables starts in the invariant.
LEMMA MadtStarts == table \in Tables /\ MadtCalled => MadtInv
<1> SUFFICES ASSUME table \in Tables, MadtCalled PROVE MadtInv
  OBVIOUS
<1>1. /\ mpc = "entry" /\ entry = 0 /\ madtIndex = 0 /\ shown = <<>> /\ madtReach = 0
  BY DEF MadtCalled
<1>2. FollowsRecords
  BY <1>1, RecordsBelowEnd DEF FollowsRecords, WellFormedMadt
<1>3. QED
  BY <1>1, <1>2 DEF MadtInv, MadtTypeOK, RoundsBounded, OverreadBounded, SizeOfHeader

\* A record is printed: the walk moves on by two bytes at least and by 255 at
\* most, and its printer reads 16 bytes at most from where it began.
LEMMA ShowRecordPreserves ==
    ASSUME MadtInv, ShowRecord
    PROVE  MadtInv'
<1>1. /\ entry < table.end /\ EntryLength >= 2
      /\ shown' = Append(shown, <<entry, EntryType>>)
      /\ madtReach' = Further(madtReach, entry + ReadBy(EntryType))
      /\ entry' = entry + EntryLength /\ madtIndex' = madtIndex + 1
      /\ table' = table /\ mpc' = mpc /\ mpc = "walk"
  BY DEF ShowRecord, SizeOfHeader
<1>2. /\ EntryType \in 0 .. 255 /\ EntryLength \in 0 .. 255
      /\ entry \in Nat /\ table.end \in Int
  BY <1>1, HeaderReadable
<1>3. madtIndex \in Nat /\ madtReach \in Nat /\ shown \in Seq(Nat \X (0 .. 255))
  BY DEF MadtInv, MadtTypeOK
<1>4. ReadBy(EntryType) \in 2 .. 16
  BY <1>2, LongestStructure, LongestIs16 DEF SizeOfHeader
<1>5. madtReach' \in Nat /\ (madtReach' = madtReach \/ madtReach' = entry + ReadBy(EntryType))
  BY <1>1, <1>2, <1>3, <1>4 DEF Further
<1>6. /\ shown' \in Seq(Nat \X (0 .. 255)) /\ Len(shown') = Len(shown) + 1
      /\ shown'[Len(shown) + 1] = <<entry, EntryType>>
      /\ \A i \in 1 .. Len(shown) : shown'[i] = shown[i]
      /\ Len(shown) \in Nat
  <2>1. <<entry, EntryType>> \in Nat \X (0 .. 255)
    BY <1>2
  <2>2. QED  BY <1>1, <1>3, <2>1, AppendProperties, LenProperties
<1>7. MadtTypeOK'
  <2>1. entry' \in Nat /\ madtIndex' \in Nat
    BY <1>1, <1>2, <1>3
  <2>2. QED  BY <1>1, <1>5, <1>6, <2>1 DEF MadtInv, MadtTypeOK
<1>8. RoundsBounded'
  BY <1>1, <1>2, <1>3 DEF MadtInv, RoundsBounded, SizeOfHeader
<1>9. OverreadBounded'
  <2>1. CASE madtReach' = madtReach
    <3>1. madtReach > 0 => madtReach < table.end + 16
      BY LongestIs16 DEF MadtInv, OverreadBounded
    <3>2. QED  BY <1>1, <2>1, <3>1, LongestIs16 DEF OverreadBounded
  <2>2. CASE madtReach' = entry + ReadBy(EntryType)
    <3>1. entry < table.end /\ entry \in Int /\ table.end \in Int
      BY <1>1, <1>2
    <3>2. PICK n \in 2 .. 16 : ReadBy(EntryType) = n
      BY <1>4
    <3>3. madtReach' = entry + n
      BY <2>2, <3>2
    <3>4. madtReach' < table.end + 16
      BY <3>1, <3>3
    <3>5. QED  BY <1>1, <3>4, LongestIs16 DEF OverreadBounded
  <2>3. QED  BY <1>5, <2>1, <2>2
<1>10. FollowsRecords'
  <2>1. SUFFICES ASSUME WellFormedMadt(table)
                 PROVE  /\ madtReach' <= entry'
                        /\ Len(shown') <= Len(table.records)
                        /\ entry' = RecordAt(table, Len(shown') + 1)
                        /\ \A i \in 1 .. Len(shown') :
                              shown'[i] = <<table.records[i].at, table.records[i].type>>
    BY <1>1 DEF FollowsRecords
  <2>2. /\ madtReach <= entry /\ Len(shown) <= Len(table.records)
        /\ entry = RecordAt(table, Len(shown) + 1)
        /\ \A i \in 1 .. Len(shown) :
              shown[i] = <<table.records[i].at, table.records[i].type>>
    BY <2>1 DEF MadtInv, FollowsRecords
  <2>3. PICK m \in 1 .. Len(table.records) : m = Len(shown) + 1
    <3>1. Len(table.records) \in Nat /\ RecordAt(table, Len(table.records) + 1) = table.end
      BY <2>1, RecordsBelowEnd DEF MadtInv
    <3>2. Len(shown) # Len(table.records)
      BY <1>1, <1>2, <2>2, <3>1
    <3>3. QED  BY <1>6, <2>2, <3>1, <3>2
  <2>4. PICK r \in [at : Nat, type : 0 .. 255, length : 0 .. 255] :
           /\ r = table.records[m]
           /\ entry = r.at /\ r.length >= ReadBy(r.type)
           /\ RecordAt(table, m + 1) = r.at + r.length
           /\ table.bytes[r.at + 1] = r.type /\ table.bytes[r.at + 2] = r.length
    <3>1. /\ table.records[m] \in [at : Nat, type : 0 .. 255, length : 0 .. 255]
          /\ RecordAt(table, m) = table.records[m].at
          /\ table.records[m].length >= ReadBy(table.records[m].type)
          /\ RecordAt(table, m + 1) = table.records[m].at + table.records[m].length
          /\ table.bytes[table.records[m].at + 1] = table.records[m].type
          /\ table.bytes[table.records[m].at + 2] = table.records[m].length
      BY <2>1, RecordsBelowEnd, SMTT(30) DEF MadtInv
    <3>2. entry = RecordAt(table, m)
      BY <2>2, <2>3
    <3>3. QED  BY <3>1, <3>2
  <2>5. EntryType = r.type /\ EntryLength = r.length
    BY <2>4 DEF EntryType, EntryLength
  <2>6. entry' = RecordAt(table, m + 1)
    BY <1>1, <2>4, <2>5
  <2>7. madtReach' <= entry'
    <3>1. PICK n \in 2 .. 16 : n = ReadBy(EntryType) /\ n <= EntryLength
      BY <1>4, <2>4, <2>5
    <3>2. PICK l \in 0 .. 255 : l = EntryLength /\ n <= l
      BY <1>2, <3>1
    <3>3. QED  BY <1>1, <1>2, <1>3, <1>5, <2>2, <3>1, <3>2, SMTT(30)
  <2>8. ASSUME NEW i \in 1 .. Len(shown')
        PROVE  shown'[i] = <<table.records[i].at, table.records[i].type>>
    <3>1. CASE i = m
      BY <1>6, <2>3, <2>4, <2>5, <3>1
    <3>2. CASE i # m
      BY <1>6, <2>2, <2>3, <3>2, SMTT(30)
    <3>3. QED  BY <3>1, <3>2
  <2>9. QED  BY <1>6, <2>3, <2>6, <2>7, <2>8
<1>11. QED  BY <1>1, <1>7, <1>8, <1>9, <1>10 DEF MadtInv

\* A record too short to be one ends the walk; its two bytes were read.  A
\* well-formed table has none.
LEMMA InvalidRecordPreserves ==
    ASSUME MadtInv, InvalidRecord
    PROVE  MadtInv'
<1>1. /\ entry < table.end /\ EntryLength < 2
      /\ madtReach' = Further(madtReach, entry + 2) /\ mpc' = "done"
      /\ UNCHANGED <<table, entry, madtIndex, shown>>
  BY DEF InvalidRecord, SizeOfHeader
<1>2. entry \in Nat /\ table.end \in Int /\ madtReach \in Nat
  BY <1>1, HeaderReadable DEF MadtInv, MadtTypeOK
<1>3. madtReach' \in Nat /\ (madtReach' = madtReach \/ madtReach' = entry + 2)
  BY <1>1, <1>2 DEF Further
<1>4. MadtTypeOK' /\ RoundsBounded'
  BY <1>1, <1>3 DEF MadtInv, MadtTypeOK, RoundsBounded
<1>5. OverreadBounded'
  BY <1>1, <1>2, <1>3, LongestIs16 DEF MadtInv, OverreadBounded
<1>6. ~WellFormedMadt(table)
  <2>1. SUFFICES ASSUME WellFormedMadt(table) PROVE FALSE
    OBVIOUS
  <2>2. /\ Len(shown) <= Len(table.records) /\ Len(shown) \in Nat
        /\ entry = RecordAt(table, Len(shown) + 1)
    BY <2>1, LenProperties DEF MadtInv, FollowsRecords, MadtTypeOK
  <2>3. PICK m \in 1 .. Len(table.records) : m = Len(shown) + 1
    <3>1. Len(table.records) \in Nat /\ RecordAt(table, Len(table.records) + 1) = table.end
      BY <2>1, RecordsBelowEnd DEF MadtInv
    <3>2. Len(shown) # Len(table.records)
      BY <1>1, <1>2, <2>2, <3>1
    <3>3. QED  BY <2>2, <3>1, <3>2
  <2>4. PICK r \in [at : Nat, type : 0 .. 255, length : 0 .. 255] :
           entry = r.at /\ r.length >= ReadBy(r.type) /\ table.bytes[r.at + 2] = r.length
    BY <2>1, <2>2, <2>3, RecordsBelowEnd DEF MadtInv
  <2>5. PICK n \in 2 .. 16 : n = ReadBy(r.type)
    BY LongestStructure, LongestIs16 DEF SizeOfHeader
  <2>6. EntryLength = r.length
    BY <2>4 DEF EntryLength
  <2>7. r.length >= n /\ r.length < 2 /\ r.length \in Nat
    BY <1>1, <2>4, <2>5, <2>6, SMTT(30)
  <2>8. QED  BY <2>7
<1>7. FollowsRecords'
  BY <1>1, <1>6 DEF FollowsRecords
<1>8. QED  BY <1>1, <1>4, <1>5, <1>7 DEF MadtInv

\* The end of the table: a well-formed one has no record left.
LEMMA EndOfTablePreserves ==
    ASSUME MadtInv, EndOfTable
    PROVE  MadtInv'
<1>1. /\ entry >= table.end /\ mpc' = "done"
      /\ UNCHANGED <<table, entry, madtIndex, shown, madtReach>>
  BY DEF EndOfTable
<1>2. MadtTypeOK' /\ RoundsBounded' /\ OverreadBounded'
  BY <1>1 DEF MadtInv, MadtTypeOK, RoundsBounded, OverreadBounded
<1>3. ASSUME WellFormedMadt(table) PROVE Len(shown) = Len(table.records)
  <2>1. /\ Len(shown) <= Len(table.records) /\ Len(shown) \in Nat
        /\ entry = RecordAt(table, Len(shown) + 1)
    BY <1>3, LenProperties DEF MadtInv, FollowsRecords, MadtTypeOK
  <2>2. SUFFICES ASSUME Len(shown) # Len(table.records) PROVE FALSE
    OBVIOUS
  <2>3. PICK m \in 1 .. Len(table.records) : m = Len(shown) + 1
    BY <1>3, <2>1, <2>2, RecordsBelowEnd DEF MadtInv
  <2>4. entry < table.end /\ entry \in Nat /\ table.end \in Nat
    BY <1>3, <2>1, <2>3, RecordsBelowEnd DEF MadtInv
  <2>5. QED  BY <1>1, <2>4
<1>4. FollowsRecords'
  BY <1>1, <1>3 DEF MadtInv, FollowsRecords
<1>5. QED  BY <1>1, <1>2, <1>4 DEF MadtInv

\* A step of the walk, or another part's turn.
LEMMA MadtStepPreserves == MadtInv /\ [PrintMadt]_madtvars => MadtInv'
<1> SUFFICES ASSUME MadtInv, [PrintMadt]_madtvars PROVE MadtInv'
  OBVIOUS
<1>1. CASE EnterTable
  BY <1>1 DEF EnterTable, MadtInv, MadtTypeOK, RoundsBounded, OverreadBounded, FollowsRecords
<1>2. CASE UNCHANGED madtvars
  BY <1>2 DEF madtvars, MadtInv, MadtTypeOK, RoundsBounded, OverreadBounded, FollowsRecords
<1>3. QED
  BY <1>1, <1>2, ShowRecordPreserves, InvalidRecordPreserves, EndOfTablePreserves DEF PrintMadt

\* What the walk over a well-formed table promises.
LEMMA RecordsAreListed == MadtInv => ListsEveryRecord
<1> SUFFICES ASSUME MadtInv, WellFormedMadt(table)
             PROVE  madtReach <= table.end
  BY DEF MadtInv, FollowsRecords, ListsEveryRecord
<1>1. /\ madtReach <= entry /\ Len(shown) <= Len(table.records) /\ Len(shown) \in Nat
      /\ entry = RecordAt(table, Len(shown) + 1) /\ madtReach \in Nat /\ entry \in Nat
  BY LenProperties DEF MadtInv, FollowsRecords, MadtTypeOK
<1>2. entry <= table.end /\ table.end \in Nat
  <2>1. CASE Len(shown) = Len(table.records)
    BY <1>1, <2>1, RecordsBelowEnd DEF MadtInv
  <2>2. CASE Len(shown) # Len(table.records)
    <3>1. PICK m \in 1 .. Len(table.records) : m = Len(shown) + 1
      BY <1>1, <2>2, RecordsBelowEnd DEF MadtInv
    <3>2. QED  BY <1>1, <3>1, RecordsBelowEnd DEF MadtInv
  <2>3. QED  BY <2>1, <2>2
<1>3. QED  BY <1>1, <1>2

\* The invariant of the walk, for every table.
LEMMA MadtInvariant == MadtSpec => []MadtInv
<1>1. MadtInit => MadtInv
  BY MadtStarts DEF MadtInit
<1>2. QED  BY <1>1, MadtStepPreserves, PTL DEF MadtSpec

\* PrintMadt keeps its types over any table: no EntryLength carries Entry to an
\* address in front of the table.
THEOREM MadtTypeCorrect == MadtSpec => []MadtTypeOK
<1>1. MadtInv => MadtTypeOK  BY DEF MadtInv
<1>2. QED  BY <1>1, MadtInvariant, PTL

\* The loop of PrintMadt goes round at most once per two bytes of the table.
THEOREM MadtRounds == MadtSpec => []RoundsBounded
<1>1. MadtInv => RoundsBounded  BY DEF MadtInv
<1>2. QED  BY <1>1, MadtInvariant, PTL

\* The printers of PrintMadt read at most 15 bytes past the end of a table,
\* whatever its last record is.
THEOREM MadtOverread == MadtSpec => []OverreadBounded
<1>1. MadtInv => OverreadBounded  BY DEF MadtInv
<1>2. QED  BY <1>1, MadtInvariant, PTL

\* PrintMadt is a walk over a table: it looks at a record only if the record
\* begins in the table, and every record lies behind the one before.
THEOREM MadtWalks == MadtSpec => MadtStaysInTable
<1>1. MadtInit => MadtWalk!WalkInit
  BY TablesAssumption DEF MadtInit, MadtCalled, MadtWalk!WalkInit
<1>2. MadtInv /\ [PrintMadt]_madtvars => [MadtWalk!WalkNext]_MadtWalk!walkvars
  <2> SUFFICES ASSUME MadtInv, [PrintMadt]_madtvars
               PROVE  [MadtWalk!WalkNext]_MadtWalk!walkvars
    OBVIOUS
  <2>1. CASE EnterTable
    BY <2>1 DEF EnterTable, MadtWalk!WalkNext, MadtWalk!Stop, MadtWalk!walkvars
  <2>2. CASE ShowRecord
    <3>1. entry < table.end /\ EntryLength >= 2 /\ entry' = entry + EntryLength
          /\ table' = table /\ mpc' = mpc /\ mpc = "walk"
      BY <2>2 DEF ShowRecord, SizeOfHeader
    <3>2. EntryLength \in 0 .. 255 /\ entry \in Nat /\ table.end \in Int
      BY <3>1, HeaderReadable
    <3>3. MadtWalk!Visit
      BY <3>1, <3>2 DEF MadtWalk!Visit
    <3>4. QED  BY <3>3 DEF MadtWalk!WalkNext
  <2>3. CASE InvalidRecord
    BY <2>3 DEF InvalidRecord, MadtWalk!WalkNext, MadtWalk!Stop
  <2>4. CASE EndOfTable
    BY <2>4 DEF EndOfTable, MadtWalk!WalkNext, MadtWalk!Stop
  <2>5. CASE UNCHANGED madtvars
    BY <2>5 DEF madtvars, MadtWalk!walkvars
  <2>6. QED  BY <2>1, <2>2, <2>3, <2>4, <2>5 DEF PrintMadt
<1>3. QED  BY <1>1, <1>2, MadtInvariant, PTL DEF MadtSpec, MadtStaysInTable, MadtWalk!WalkSpec

-----------------------------------------------------------------------------
(***************************************************************************)
(* The windows of the MCFG and the scan of PCI.  The invariant says how    *)
(* far the scan is, as a pair of a window and a page: the lists hold what  *)
(* lies behind that point and nothing else, and the line at hand holds     *)
(* what is declared below the register the loop is at.                     *)
(***************************************************************************)

\* A line of PrintPciFunction.
Lines == [window : Nat, segment : Nat, bus : Nat, device : 0 .. 31, function : 0 .. 7,
          bars : Seq(Nat \X Nat)]

\* The listing calls window k valid.
Valid(k) == ~InvalidForListing(machine.windows[k + 1])

\* The types, and what it takes to be at a function.
PciTypes ==
    /\ WellFormedMachine(machine)
    /\ pcipc \in {"list", "window", "function", "bars", "done"}
    /\ windowIndex \in 0 .. WindowCount
    /\ device \in 0 .. 31 /\ function \in 0 .. 7 /\ bar \in Nat
    /\ listed \in Seq(Nat) /\ scanned \in Seq(Nat) /\ functionLines \in Seq(Lines)
    /\ pcipc \in {"function", "bars"} => windowIndex < WindowCount /\ Valid(windowIndex)
    /\ pcipc = "bars" => Present
    /\ pcipc = "done" => windowIndex = WindowCount

\* The windows the listing has been at, and the scan.
ListedUpTo == IF pcipc = "list" THEN windowIndex ELSE WindowCount
ScannedUpTo == IF pcipc \in {"function", "bars"} THEN windowIndex + 1 ELSE windowIndex

\* Every valid window the listing has been at is listed once, in order; what
\* was scanned is the front part of that, up to where the scan is.
WindowsInv ==
    /\ \A i \in 1 .. Len(listed) : listed[i] < ListedUpTo /\ Valid(listed[i])
    /\ \A i, j \in 1 .. Len(listed) : i < j => listed[i] < listed[j]
    /\ \A k \in 0 .. ListedUpTo - 1 : Valid(k) => \E i \in 1 .. Len(listed) : listed[i] = k
    /\ pcipc = "list" => scanned = <<>>
    /\ pcipc # "list" =>
          /\ Len(scanned) <= Len(listed)
          /\ \A i \in 1 .. Len(scanned) : scanned[i] = listed[i] /\ listed[i] < ScannedUpTo
          /\ \A i \in Len(scanned) + 1 .. Len(listed) : listed[i] >= ScannedUpTo

\* The functions the scan has been at: window k, page p.
Passed(k, p) == \/ k < windowIndex
                \/ pcipc = "function" /\ k = windowIndex /\ p < ConfigBase
                \/ pcipc = "bars" /\ k = windowIndex /\ p <= ConfigBase

\* A line is about a function that answers on the first bus of a valid window.
LineOfFunction(l) ==
    LET w == machine.windows[l.window + 1]
    IN  /\ l.window < WindowCount /\ Valid(l.window)
        /\ l.segment = w.segment /\ l.bus = w.start
        /\ PageOf(l) \in OnFirstBus(w)

\* Every function passed has its line, every line is of a function passed, and
\* they come in the order of the scan.
LinesInv ==
    /\ pcipc = "list" => functionLines = <<>>
    /\ pcipc # "list" =>
          /\ \A i \in 1 .. Len(functionLines) :
                /\ LineOfFunction(functionLines[i])
                /\ Passed(functionLines[i].window, PageOf(functionLines[i]))
          /\ \A i, j \in 1 .. Len(functionLines) :
                i < j => Before(functionLines[i], functionLines[j])
          /\ \A k \in 0 .. WindowCount - 1 : Valid(k) =>
                \A p \in OnFirstBus(machine.windows[k + 1]) : Passed(k, p) =>
                   \E i \in 1 .. Len(functionLines) :
                      functionLines[i].window = k /\ PageOf(functionLines[i]) = p

\* The line at hand has the declared BARs below the register, and none of the
\* others; the register is not an upper half.
BarsInv ==
    pcipc = "bars" =>
        LET own      == functionLines[Len(functionLines)].bars
            declared == Answering.declared
        IN  /\ Len(functionLines) > 0
            /\ Len(own) <= Len(declared)
            /\ \A i \in 1 .. Len(own) : own[i] = declared[i] /\ declared[i][1] < bar
            /\ \A i \in Len(own) + 1 .. Len(declared) : declared[i][1] >= bar
            /\ \A i \in 1 .. Len(declared) :
                  Answering.bars[declared[i][1] + 1] % 8 = 4 => declared[i][1] + 1 # bar

\* The inductive invariant of the three.
PciInv == PciTypes /\ WindowsInv /\ LinesInv /\ BarsInv

\* The windows counted are in the table, with fields that are numbers.
LEMMA WindowsThere ==
    ASSUME WellFormedMachine(machine)
    PROVE  /\ WindowCount \in Nat /\ WindowCount <= Len(machine.windows)
           /\ \A k \in 0 .. WindowCount - 1 :
                 LET w == machine.windows[k + 1]
                 IN  /\ w.base \in Nat /\ w.segment \in Nat /\ w.start \in Nat /\ w.end \in Nat
                     /\ Valid(k) => w.start <= w.end
                     /\ Valid(k) <=> ValidateMcfgEntry(w)
<1>1. /\ machine.length \in Nat
      /\ machine.signed => (machine.length - McfgSize) \div WindowSize <= Len(machine.windows)
      /\ Len(machine.windows) \in Nat
      /\ machine.windows \in Seq([base : Nat, segment : Nat, start : Nat, end : Nat])
  BY LenProperties DEF WellFormedMachine
<1>2. WindowCount \in Nat /\ WindowCount <= Len(machine.windows)
  BY <1>1, SMTT(30) DEF WindowCount, Usable, McfgSize, WindowSize
<1>3. ASSUME NEW k \in 0 .. WindowCount - 1
      PROVE  LET w == machine.windows[k + 1]
             IN  /\ w.base \in Nat /\ w.segment \in Nat /\ w.start \in Nat /\ w.end \in Nat
                 /\ Valid(k) => w.start <= w.end
                 /\ Valid(k) <=> ValidateMcfgEntry(w)
  <2>1. k + 1 \in 1 .. Len(machine.windows)
    BY <1>2
  <2>2. machine.windows[k + 1] \in [base : Nat, segment : Nat, start : Nat, end : Nat]
    BY <1>1, <2>1, ElementOfSeq
  <2>3. QED  BY <2>2 DEF Valid, InvalidForListing, ValidateMcfgEntry
<1>4. QED  BY <1>2, <1>3

\* What every state of the scan gives the lemmas about its steps.
LEMMA PciTyped ==
    ASSUME PciTypes
    PROVE  /\ WindowCount \in Nat /\ windowIndex \in Nat /\ windowIndex <= WindowCount
           /\ Len(listed) \in Nat /\ Len(scanned) \in Nat /\ Len(functionLines) \in Nat
           /\ \A i \in 1 .. Len(listed) : listed[i] \in Nat
           /\ \A i \in 1 .. Len(scanned) : scanned[i] \in Nat
           /\ \A i \in 1 .. Len(functionLines) : functionLines[i] \in Lines
           /\ DOMAIN functionLines = 1 .. Len(functionLines)
           /\ device \in Int /\ function \in Int
BY WindowsThere, ElementOfSeq, LenProperties DEF PciTypes

\* At a function, its page lies on the first bus of the window.
LEMMA AtFunction ==
    ASSUME PciTypes, pcipc \in {"function", "bars"}
    PROVE  /\ Window.base \in Nat /\ Window.start \in Nat /\ Window.end \in Nat
           /\ Window.segment \in Nat /\ Window.start <= Window.end
           /\ ConfigBase = Window.base + 8 * device + function
           /\ ConfigBase \in Window.base .. Window.base + 255
<1>1. windowIndex \in 0 .. WindowCount - 1 /\ Valid(windowIndex)
  BY PciTyped DEF PciTypes
<1>2. /\ Window.base \in Nat /\ Window.start \in Nat /\ Window.end \in Nat
      /\ Window.segment \in Nat /\ Window.start <= Window.end
  BY <1>1, WindowsThere DEF PciTypes, Window
<1>3. device \in 0 .. 31 /\ function \in 0 .. 7
  BY DEF PciTypes
<1>4. ConfigBase = Window.base + 8 * device + function
  BY <1>2, <1>3 DEF ConfigBase, PciEcamAddress, Bus
<1>5. QED  BY <1>2, <1>3, <1>4

\* Where nothing of the machine changes, neither do the notions about it.
LEMMA SameMachine ==
    ASSUME machine' = machine
    PROVE  /\ WindowCount' = WindowCount
           /\ WellFormedMachine(machine)' <=> WellFormedMachine(machine)
           /\ \A k : Valid(k)' <=> Valid(k)
           /\ \A l : PageOf(l)' = PageOf(l)
           /\ \A l : LineOfFunction(l)' <=> LineOfFunction(l)
           /\ \A l, m : Before(l, m)' <=> Before(l, m)
           /\ \A w : OnFirstBus(w)' = OnFirstBus(w)
<1>1. WindowCount' = WindowCount
  BY DEF WindowCount, Usable
<1>2. WellFormedMachine(machine)' <=> WellFormedMachine(machine)
  OBVIOUS
<1>3. \A k : Valid(k)' <=> Valid(k)
  BY DEF Valid
<1>4. \A l : PageOf(l)' = PageOf(l)
  BY DEF PageOf
<1>5. \A w : OnFirstBus(w)' = OnFirstBus(w)
  BY DEF OnFirstBus
<1>6. \A l : LineOfFunction(l)' <=> LineOfFunction(l)
  BY <1>1, <1>3, <1>4, <1>5 DEF LineOfFunction
<1>7. \A l, m : Before(l, m)' <=> Before(l, m)
  BY <1>4 DEF Before
<1>8. QED  BY <1>1, <1>2, <1>3, <1>4, <1>5, <1>6, <1>7

\* Lines are neither added nor taken away, and the scan passes nothing that
\* answers.
LEMMA KeepsLines ==
    ASSUME PciTypes, PciTypes', LinesInv, machine' = machine,
           pcipc # "list", pcipc' # "list",
           Len(functionLines') = Len(functionLines),
           \A i \in 1 .. Len(functionLines) :
              LET l == functionLines[i]
                  m == functionLines'[i]
              IN  /\ m.window = l.window /\ m.segment = l.segment /\ m.bus = l.bus
                  /\ m.device = l.device /\ m.function = l.function,
           \A k \in 0 .. WindowCount - 1 : Valid(k) =>
              \A p \in OnFirstBus(machine.windows[k + 1]) : Passed(k, p)' <=> Passed(k, p)
    PROVE  LinesInv'
<1> DEFINE n == Len(functionLines)
<1>1. ASSUME NEW i \in 1 .. n
      PROVE  /\ PageOf(functionLines[i])' = PageOf(functionLines[i])
             /\ LineOfFunction(functionLines[i])' <=> LineOfFunction(functionLines[i])
             /\ (functionLines[i].window)' = functionLines[i].window
             /\ functionLines[i] \in Lines
  <2>1. /\ (functionLines[i].window)' = functionLines[i].window
        /\ (functionLines[i].segment)' = functionLines[i].segment
        /\ (functionLines[i].bus)' = functionLines[i].bus
        /\ (functionLines[i].device)' = functionLines[i].device
        /\ (functionLines[i].function)' = functionLines[i].function
    OBVIOUS
  <2>2. PageOf(functionLines[i])' = PageOf(functionLines[i])
    BY <2>1 DEF PageOf
  <2>3. LineOfFunction(functionLines[i])' <=> LineOfFunction(functionLines[i])
    BY <2>1, <2>2, SameMachine DEF LineOfFunction, Valid, OnFirstBus
  <2>4. QED  BY <2>1, <2>2, <2>3, PciTyped
<1>2. ASSUME NEW i \in 1 .. n
      PROVE  /\ LineOfFunction(functionLines[i])
             /\ Passed(functionLines[i].window, PageOf(functionLines[i]))
             /\ functionLines[i].window \in 0 .. WindowCount - 1
             /\ Valid(functionLines[i].window)
             /\ PageOf(functionLines[i]) \in OnFirstBus(machine.windows[functionLines[i].window + 1])
  BY <1>1, PciTyped DEF LinesInv, LineOfFunction, Lines
<1>3. ASSUME NEW i \in 1 .. n
      PROVE  Passed(functionLines[i].window, PageOf(functionLines[i]))'
  <2>1. PICK k \in 0 .. WindowCount - 1 : k = functionLines[i].window
    BY <1>2
  <2>2. PICK p \in OnFirstBus(machine.windows[k + 1]) : p = PageOf(functionLines[i])
    BY <1>2, <2>1
  <2>3. Passed(k, p) /\ Valid(k)
    BY <1>2, <2>1, <2>2
  <2>4. Passed(k, p)'
    BY <2>3
  <2>5. k = (functionLines[i].window)' /\ p = PageOf(functionLines[i])'
    BY <1>1, <2>1, <2>2
  <2>6. QED  BY <2>4, <2>5 DEF Passed
<1>4. \A i \in 1 .. n : LineOfFunction(functionLines[i])'
  BY <1>1, <1>2
<1>5. \A i, j \in 1 .. n : i < j => Before(functionLines[i], functionLines[j])'
  <2> SUFFICES ASSUME NEW i \in 1 .. n, NEW j \in 1 .. n, i < j
               PROVE  Before(functionLines[i], functionLines[j])'
    OBVIOUS
  <2>1. Before(functionLines[i], functionLines[j])
    BY DEF LinesInv
  <2>2. QED  BY <1>1, <2>1 DEF Before
<1>6. ASSUME NEW k \in 0 .. WindowCount - 1, Valid(k),
             NEW p \in OnFirstBus(machine.windows[k + 1]), Passed(k, p)'
      PROVE  \E i \in 1 .. n : (functionLines[i].window)' = k /\ PageOf(functionLines[i])' = p
  <2>1. Passed(k, p)
    BY <1>6
  <2>2. PICK i \in 1 .. n : functionLines[i].window = k /\ PageOf(functionLines[i]) = p
    BY <1>6, <2>1 DEF LinesInv
  <2>3. QED  BY <1>1, <2>2
<1>7. /\ WindowCount' = WindowCount
      /\ \A k : Valid(k)' <=> Valid(k)
      /\ \A k : OnFirstBus(machine.windows[k + 1])' = OnFirstBus(machine.windows[k + 1])
  BY SameMachine DEF OnFirstBus
<1>8. Len(functionLines)' = n
  OBVIOUS
<1> HIDE DEF n
<1>9. (\A i \in 1 .. Len(functionLines) :
          /\ LineOfFunction(functionLines[i])
          /\ Passed(functionLines[i].window, PageOf(functionLines[i])))'
  BY <1>3, <1>4, <1>8
<1>10. (\A i, j \in 1 .. Len(functionLines) :
          i < j => Before(functionLines[i], functionLines[j]))'
  BY <1>5, <1>8
<1>11. (\A k \in 0 .. WindowCount - 1 : Valid(k) =>
          \A p \in OnFirstBus(machine.windows[k + 1]) : Passed(k, p) =>
             \E i \in 1 .. Len(functionLines) :
                functionLines[i].window = k /\ PageOf(functionLines[i]) = p)'
  BY <1>6, <1>7, <1>8
<1>12. QED  BY <1>9, <1>10, <1>11 DEF LinesInv

\* The next round of the loops: the scan is behind the page it was at.
LEMMA NextFunctionMoves ==
    ASSUME PciTypes, pcipc \in {"function", "bars"}, machine' = machine, NextFunction
    PROVE  /\ windowIndex' \in 0 .. WindowCount /\ device' \in 0 .. 31 /\ function' \in 0 .. 7
           /\ \/ pcipc' = "function" /\ windowIndex' = windowIndex
              \/ pcipc' = "window" /\ windowIndex' = windowIndex + 1
           /\ ScannedUpTo' = ScannedUpTo
           /\ \A k \in 0 .. WindowCount - 1 :
                 \A p \in OnFirstBus(machine.windows[k + 1]) :
                    Passed(k, p)' <=> (k < windowIndex \/ (k = windowIndex /\ p <= ConfigBase))
<1>1. /\ windowIndex \in 0 .. WindowCount - 1 /\ WindowCount \in Nat
      /\ device \in 0 .. 31 /\ function \in 0 .. 7
  BY PciTyped DEF PciTypes
<1>2. /\ Window.base \in Nat /\ Window.start \in Nat
      /\ ConfigBase = Window.base + 8 * device + function
  BY AtFunction
<1>3. ASSUME NEW k \in 0 .. WindowCount - 1, NEW p \in OnFirstBus(machine.windows[k + 1])
      PROVE  p \in Nat /\ (k = windowIndex => p < Window.base + 256)
  BY <1>3 DEF PciTypes, WellFormedMachine, OnFirstBus, Window
<1>4. CASE pcipc' = "function" /\ windowIndex' = windowIndex
           /\ \/ device' = device /\ function' = function + 1 /\ function < 7
              \/ device' = device + 1 /\ function' = 0 /\ function = 7 /\ device < 31
  <2>1. ConfigBase' = ConfigBase + 1
    <3>1. Window' = Window
      BY <1>4 DEF Window
    <3>2. ConfigBase' = Window.base + 256 * (Window.start - Window.start) + 8 * device' + function'
      BY <3>1 DEF ConfigBase, PciEcamAddress, Bus
    <3>3. CASE device' = device /\ function' = function + 1
      BY <1>1, <1>2, <3>2, <3>3
    <3>4. CASE device' = device + 1 /\ function' = 0 /\ function = 7
      BY <1>1, <1>2, <3>2, <3>4
    <3>5. QED  BY <1>4, <3>3, <3>4
  <2>2. ConfigBase \in Int
    BY <1>1, <1>2
  <2>3. ASSUME NEW k \in 0 .. WindowCount - 1, NEW p \in OnFirstBus(machine.windows[k + 1])
        PROVE  Passed(k, p)' <=> (k < windowIndex \/ (k = windowIndex /\ p <= ConfigBase))
    BY <1>1, <1>3, <1>4, <2>1, <2>2, <2>3 DEF Passed
  <2>4. ScannedUpTo' = ScannedUpTo
    BY <1>4 DEF ScannedUpTo
  <2>5. device' \in 0 .. 31 /\ function' \in 0 .. 7
    BY <1>1, <1>4
  <2>6. QED  BY <1>1, <1>4, <2>3, <2>4, <2>5
<1>5. CASE /\ pcipc' = "window" /\ windowIndex' = windowIndex + 1
           /\ device' = device /\ function' = function /\ device = 31 /\ function = 7
  <2>1. ConfigBase = Window.base + 255
    BY <1>2, <1>5
  <2>2. ASSUME NEW k \in 0 .. WindowCount - 1, NEW p \in OnFirstBus(machine.windows[k + 1])
        PROVE  Passed(k, p)' <=> (k < windowIndex \/ (k = windowIndex /\ p <= ConfigBase))
    BY <1>1, <1>2, <1>3, <1>5, <2>1, <2>2 DEF Passed
  <2>3. ScannedUpTo' = ScannedUpTo
    BY <1>5 DEF ScannedUpTo
  <2>4. QED  BY <1>1, <1>5, <2>2, <2>3
<1>6. CASE function + 1 < 8
  BY <1>1, <1>4, <1>6 DEF NextFunction, Functions
<1>7. CASE ~(function + 1 < 8) /\ device + 1 < 32
  <2>1. function + 1 = 8
    BY <1>1, <1>7
  <2>2. function' = 0 /\ device' = device + 1 /\ pcipc' = "function" /\ windowIndex' = windowIndex
    BY <1>1, <1>7, <2>1 DEF NextFunction, Functions, Devices
  <2>3. QED  BY <1>1, <1>4, <1>7, <2>1, <2>2
<1>8. CASE ~(function + 1 < 8) /\ ~(device + 1 < 32)
  <2>1. function + 1 = 8 /\ ~(device + 1 < 32)
    BY <1>1, <1>8
  <2>2. /\ windowIndex' = windowIndex + 1 /\ pcipc' = "window"
        /\ device' = device /\ function' = function
    BY <2>1 DEF NextFunction, Functions, Devices
  <2>3. QED  BY <1>1, <1>5, <1>8, <2>2
<1>9. QED  BY <1>6, <1>7, <1>8

-----------------------------------------------------------------------------
\* Where the windows listed and scanned stay and the scan is not on in another
\* one, WindowsInv is kept.
LEMMA KeepsWindows ==
    ASSUME PciTypes, WindowsInv, machine' = machine, pcipc # "list", pcipc' # "list",
           listed' = listed, scanned' = scanned, ScannedUpTo' = ScannedUpTo
    PROVE  WindowsInv'
<1>1. ListedUpTo' = ListedUpTo /\ WindowCount' = WindowCount
  BY SameMachine DEF ListedUpTo
<1>2. \A k : Valid(k)' <=> Valid(k)
  BY SameMachine
<1>3. QED  BY <1>1, <1>2 DEF WindowsInv, Valid

\* PrintMcfg: a window is added to the listing if it is valid.
LEMMA ListWindowPreserves == PciInv /\ ListWindow => PciInv'
<1> SUFFICES ASSUME PciInv, ListWindow PROVE PciInv'
  OBVIOUS
<1>1. /\ pcipc = "list" /\ pcipc' = "list" /\ windowIndex < WindowCount
      /\ windowIndex' = windowIndex + 1
      /\ listed' = IF Valid(windowIndex) THEN Append(listed, windowIndex) ELSE listed
      /\ UNCHANGED <<machine, device, function, bar, scanned, functionLines>>
  BY DEF ListWindow, Valid, Window
<1>2. /\ WindowCount' = WindowCount /\ \A k : Valid(k)' <=> Valid(k)
      /\ WellFormedMachine(machine)' <=> WellFormedMachine(machine)
  BY <1>1, SameMachine
<1>3. PciTypes
  BY DEF PciInv
<1>4. /\ windowIndex \in Nat /\ WindowCount \in Nat /\ Len(listed) \in Nat
      /\ \A i \in 1 .. Len(listed) : listed[i] \in Nat
  BY <1>3, PciTyped
<1>5. listed' \in Seq(Nat)
  BY <1>1, <1>3, <1>4, AppendProperties DEF PciTypes
<1>6. PciTypes'
  BY <1>1, <1>2, <1>3, <1>4, <1>5 DEF PciTypes
<1>7. WindowsInv'
  <2>1. /\ \A i \in 1 .. Len(listed) : listed[i] < windowIndex /\ Valid(listed[i])
        /\ \A i, j \in 1 .. Len(listed) : i < j => listed[i] < listed[j]
        /\ \A k \in 0 .. windowIndex - 1 : Valid(k) => \E i \in 1 .. Len(listed) : listed[i] = k
        /\ scanned = <<>>
    BY <1>1 DEF PciInv, WindowsInv, ListedUpTo
  <2>2. ListedUpTo' = windowIndex + 1
    BY <1>1 DEF ListedUpTo
  <2>3. CASE ~Valid(windowIndex)
    <3>1. \A k \in 0 .. windowIndex : Valid(k) => k \in 0 .. windowIndex - 1
      BY <1>4, <2>3
    <3>2. listed' = listed
      BY <1>1, <2>3
    <3>3. QED  BY <1>1, <1>2, <1>4, <2>1, <2>2, <3>1, <3>2 DEF WindowsInv
  <2>4. CASE Valid(windowIndex)
    <3>1. /\ Len(listed') = Len(listed) + 1 /\ listed'[Len(listed) + 1] = windowIndex
          /\ \A i \in 1 .. Len(listed) : listed'[i] = listed[i]
      BY <1>1, <1>3, <1>4, <2>4, AppendProperties DEF PciTypes
    <3>2. ASSUME NEW i \in 1 .. Len(listed')
          PROVE  listed'[i] < windowIndex + 1 /\ Valid(listed'[i])
      BY <1>4, <2>1, <2>4, <3>1
    <3>3. ASSUME NEW i \in 1 .. Len(listed'), NEW j \in 1 .. Len(listed'), i < j
          PROVE  listed'[i] < listed'[j]
      BY <1>4, <2>1, <3>1, <3>3
    <3>4. ASSUME NEW k \in 0 .. windowIndex, Valid(k)
          PROVE  \E i \in 1 .. Len(listed') : listed'[i] = k
      <4>1. CASE k = windowIndex
        BY <1>4, <3>1, <4>1
      <4>2. CASE k # windowIndex
        <5>1. PICK i \in 1 .. Len(listed) : listed[i] = k
          BY <1>4, <2>1, <3>4, <4>2
        <5>2. QED  BY <1>4, <3>1, <5>1
      <4>3. QED  BY <4>1, <4>2
    <3>5. QED  BY <1>1, <1>2, <1>4, <2>1, <2>2, <3>2, <3>3, <3>4 DEF WindowsInv
  <2>5. QED  BY <2>3, <2>4
<1>8. LinesInv' /\ BarsInv'
  BY <1>1 DEF PciInv, LinesInv, BarsInv
<1>9. QED  BY <1>6, <1>7, <1>8 DEF PciInv

\* The listing is complete when the scan begins.
LEMMA EndWindowsPreserves == PciInv /\ EndWindows => PciInv'
<1> SUFFICES ASSUME PciInv, EndWindows PROVE PciInv'
  OBVIOUS
<1>1. /\ pcipc = "list" /\ pcipc' = "window" /\ windowIndex = WindowCount /\ windowIndex' = 0
      /\ UNCHANGED <<machine, device, function, bar, listed, scanned, functionLines>>
  BY DEF EndWindows
<1>2. /\ WindowCount' = WindowCount /\ \A k : Valid(k)' <=> Valid(k)
      /\ WellFormedMachine(machine)' <=> WellFormedMachine(machine)
  BY <1>1, SameMachine
<1>3. PciTypes /\ WindowCount \in Nat /\ Len(listed) \in Nat
      /\ \A i \in 1 .. Len(listed) : listed[i] \in Nat
  BY PciTyped DEF PciInv
<1>4. PciTypes'
  BY <1>1, <1>2, <1>3 DEF PciTypes
<1>5. scanned' = <<>> /\ functionLines' = <<>>
  BY <1>1 DEF PciInv, WindowsInv, LinesInv
<1>6. WindowsInv'
  <2>1. ListedUpTo' = ListedUpTo /\ ScannedUpTo' = 0
    BY <1>1, <1>2 DEF ListedUpTo, ScannedUpTo
  <2>2. QED  BY <1>1, <1>2, <1>3, <1>5, <2>1 DEF PciInv, WindowsInv
<1>7. LinesInv' /\ BarsInv'
  <2>1. \A k \in 0 .. WindowCount - 1 : \A p : ~Passed(k, p)'
    BY <1>1, <1>3 DEF Passed
  <2>2. QED  BY <1>1, <1>2, <1>5, <2>1 DEF LinesInv, BarsInv
<1>8. QED  BY <1>4, <1>6, <1>7 DEF PciInv

\* The window at hand is the next the listing has.
LEMMA BeginScanPreserves == PciInv /\ BeginScan => PciInv'
<1> SUFFICES ASSUME PciInv, BeginScan PROVE PciInv'
  OBVIOUS
<1>1. /\ pcipc = "window" /\ pcipc' = "function" /\ windowIndex < WindowCount
      /\ ValidateMcfgEntry(machine.windows[windowIndex + 1])
      /\ scanned' = Append(scanned, windowIndex)
      /\ device' = 0 /\ function' = 0
      /\ UNCHANGED <<machine, windowIndex, bar, listed, functionLines>>
  BY DEF BeginScan, Window
<1>2. /\ WindowCount' = WindowCount /\ \A k : Valid(k)' <=> Valid(k)
      /\ WellFormedMachine(machine)' <=> WellFormedMachine(machine)
  BY <1>1, SameMachine
<1>3. /\ PciTypes /\ WindowCount \in Nat /\ Len(listed) \in Nat /\ Len(scanned) \in Nat
      /\ windowIndex \in 0 .. WindowCount - 1
      /\ \A i \in 1 .. Len(listed) : listed[i] \in Nat
  BY <1>1, PciTyped DEF PciInv
<1>4. Valid(windowIndex)
  BY <1>1, <1>3, WindowsThere DEF PciTypes
<1>5. /\ scanned' \in Seq(Nat) /\ Len(scanned') = Len(scanned) + 1
      /\ scanned'[Len(scanned) + 1] = windowIndex
      /\ \A i \in 1 .. Len(scanned) : scanned'[i] = scanned[i]
  BY <1>1, <1>3, AppendProperties DEF PciTypes
<1>6. PciTypes'
  BY <1>1, <1>2, <1>3, <1>4, <1>5 DEF PciTypes
<1>7. WindowsInv'
  <2>1. /\ \A i, j \in 1 .. Len(listed) : i < j => listed[i] < listed[j]
        /\ \A k \in 0 .. WindowCount - 1 : Valid(k) => \E i \in 1 .. Len(listed) : listed[i] = k
        /\ Len(scanned) <= Len(listed)
        /\ \A i \in 1 .. Len(scanned) : scanned[i] = listed[i] /\ listed[i] < windowIndex
        /\ \A i \in Len(scanned) + 1 .. Len(listed) : listed[i] >= windowIndex
    BY <1>1 DEF PciInv, WindowsInv, ListedUpTo, ScannedUpTo
  <2>2. PICK i \in 1 .. Len(listed) : listed[i] = windowIndex
    BY <1>3, <1>4, <2>1
  <2>3. i = Len(scanned) + 1
    <3>1. i > Len(scanned)
      BY <1>3, <2>1, <2>2
    <3>2. CASE i > Len(scanned) + 1
      <4>1. Len(scanned) + 1 \in 1 .. Len(listed) /\ listed[Len(scanned) + 1] < listed[i]
        BY <1>3, <2>1, <2>2, <3>2
      <4>2. listed[Len(scanned) + 1] >= windowIndex /\ listed[Len(scanned) + 1] \in Nat
        BY <1>3, <2>1, <4>1
      <4>3. QED  BY <1>3, <2>2, <4>1, <4>2
    <3>3. QED  BY <1>3, <2>2, <3>1, <3>2
  <2>4. \A j \in Len(scanned) + 2 .. Len(listed) : listed[j] >= windowIndex + 1
    <3> SUFFICES ASSUME NEW j \in Len(scanned) + 2 .. Len(listed)
                 PROVE  listed[j] >= windowIndex + 1
      OBVIOUS
    <3>1. j \in 1 .. Len(listed) /\ i < j
      BY <1>3, <2>3
    <3>2. listed[i] < listed[j] /\ listed[j] \in Nat
      BY <1>3, <2>1, <2>2, <3>1
    <3>3. QED  BY <1>3, <2>2, <3>2
  <2>5. \A j \in 1 .. Len(scanned) + 1 : scanned'[j] = listed[j] /\ listed[j] < windowIndex + 1
    <3> SUFFICES ASSUME NEW j \in 1 .. Len(scanned) + 1
                 PROVE  scanned'[j] = listed[j] /\ listed[j] < windowIndex + 1
      OBVIOUS
    <3>1. CASE j = Len(scanned) + 1
      BY <1>3, <1>5, <2>2, <2>3, <3>1
    <3>2. CASE j \in 1 .. Len(scanned)
      <4>1. j \in 1 .. Len(listed) /\ scanned[j] = listed[j] /\ listed[j] < windowIndex
        BY <1>3, <2>1, <3>2
      <4>2. QED  BY <1>3, <1>5, <3>2, <4>1
    <3>3. QED  BY <1>3, <3>1, <3>2
  <2>6. ListedUpTo' = ListedUpTo /\ ScannedUpTo' = windowIndex + 1 /\ ListedUpTo = WindowCount
    BY <1>1, <1>2 DEF ListedUpTo, ScannedUpTo
  <2>7. Len(scanned) + 1 <= Len(listed)
    BY <1>3, <2>2, <2>3
  <2>8. \A j \in 1 .. Len(listed) : listed[j] < WindowCount /\ Valid(listed[j])
    BY <1>1, <2>6 DEF PciInv, WindowsInv
  <2>9. Len(scanned') + 1 = Len(scanned) + 2 /\ listed' = listed /\ pcipc' # "list"
    BY <1>1, <1>3, <1>5
  <2>10. QED  BY <1>2, <1>5, <2>1, <2>4, <2>5, <2>6, <2>7, <2>8, <2>9 DEF WindowsInv
<1>8. LinesInv'
  <2>1. ConfigBase' = machine.windows[windowIndex + 1].base
    <3>1. Window' = machine.windows[windowIndex + 1]
      BY <1>1 DEF Window
    <3>2. machine.windows[windowIndex + 1].base \in Nat /\ machine.windows[windowIndex + 1].start \in Nat
      BY <1>3, WindowsThere DEF PciTypes
    <3>3. QED  BY <1>1, <3>1, <3>2 DEF ConfigBase, PciEcamAddress, Bus
  <2>2. ASSUME NEW k \in 0 .. WindowCount - 1, NEW p \in OnFirstBus(machine.windows[k + 1])
        PROVE  Passed(k, p)' <=> Passed(k, p)
    <3>1. p \in Nat /\ p >= machine.windows[k + 1].base /\ machine.windows[k + 1].base \in Nat
      BY <1>3, <2>2, WindowsThere DEF OnFirstBus, PciTypes, WellFormedMachine
    <3>2. QED  BY <1>1, <1>3, <2>1, <3>1 DEF Passed
  <2>3. QED  BY <1>1, <1>3, <1>6, <2>2, KeepsLines DEF PciInv
<1>9. BarsInv'
  BY <1>1 DEF BarsInv
<1>10. QED  BY <1>6, <1>7, <1>8, <1>9 DEF PciInv

\* A window that is not valid is in no list.
LEMMA SkipWindowPreserves == PciInv /\ SkipWindow => PciInv'
<1> SUFFICES ASSUME PciInv, SkipWindow PROVE PciInv'
  OBVIOUS
<1>1. /\ pcipc = "window" /\ pcipc' = "window" /\ windowIndex < WindowCount
      /\ ~ValidateMcfgEntry(machine.windows[windowIndex + 1])
      /\ windowIndex' = windowIndex + 1
      /\ UNCHANGED <<machine, device, function, bar, listed, scanned, functionLines>>
  BY DEF SkipWindow, Window
<1>2. /\ WindowCount' = WindowCount /\ \A k : Valid(k)' <=> Valid(k)
      /\ WellFormedMachine(machine)' <=> WellFormedMachine(machine)
  BY <1>1, SameMachine
<1>3. /\ PciTypes /\ WindowCount \in Nat /\ Len(listed) \in Nat /\ Len(scanned) \in Nat
      /\ windowIndex \in 0 .. WindowCount - 1
      /\ \A i \in 1 .. Len(listed) : listed[i] \in Nat
  BY <1>1, PciTyped DEF PciInv
<1>4. ~Valid(windowIndex)
  BY <1>1, <1>3, WindowsThere DEF PciTypes
<1>5. PciTypes'
  BY <1>1, <1>2, <1>3 DEF PciTypes
<1>6. WindowsInv'
  <2>1. \A i \in 1 .. Len(listed) : Valid(listed[i])
    BY DEF PciInv, WindowsInv
  <2>2. \A i \in 1 .. Len(listed) : listed[i] >= windowIndex => listed[i] >= windowIndex + 1
    BY <1>3, <1>4, <2>1
  <2>3. /\ Len(scanned) <= Len(listed)
        /\ \A i \in 1 .. Len(scanned) : scanned[i] = listed[i] /\ listed[i] < windowIndex
        /\ \A i \in Len(scanned) + 1 .. Len(listed) : listed[i] >= windowIndex
    BY <1>1 DEF PciInv, WindowsInv, ScannedUpTo
  <2>4. \A i \in 1 .. Len(scanned) : scanned[i] = listed[i] /\ listed[i] < windowIndex + 1
    BY <1>3, <2>3
  <2>5. \A i \in Len(scanned) + 1 .. Len(listed) : listed[i] >= windowIndex + 1
    BY <1>3, <2>2, <2>3
  <2>6. ListedUpTo' = ListedUpTo /\ ScannedUpTo' = windowIndex + 1
    BY <1>1, <1>2 DEF ListedUpTo, ScannedUpTo
  <2>7. QED  BY <1>1, <1>2, <2>3, <2>4, <2>5, <2>6 DEF PciInv, WindowsInv
<1>7. LinesInv'
  <2>1. ASSUME NEW k \in 0 .. WindowCount - 1, Valid(k), NEW p \in OnFirstBus(machine.windows[k + 1])
        PROVE  Passed(k, p)' <=> Passed(k, p)
    BY <1>1, <1>3, <1>4, <2>1 DEF Passed
  <2>2. QED  BY <1>1, <1>3, <1>5, <2>1, KeepsLines DEF PciInv
<1>8. BarsInv'
  BY <1>1 DEF BarsInv
<1>9. QED  BY <1>5, <1>6, <1>7, <1>8 DEF PciInv

\* The scan is behind the last window.
LEMMA EndScanPreserves == PciInv /\ EndScan => PciInv'
<1> SUFFICES ASSUME PciInv, EndScan PROVE PciInv'
  OBVIOUS
<1>1. /\ pcipc = "window" /\ pcipc' = "done" /\ windowIndex = WindowCount
      /\ UNCHANGED <<machine, windowIndex, device, function, bar, listed, scanned, functionLines>>
  BY DEF EndScan
<1>2. PciTypes /\ WindowCount' = WindowCount
  BY <1>1, SameMachine DEF PciInv
<1>3. PciTypes'
  BY <1>1, <1>2, SameMachine DEF PciTypes
<1>4. ScannedUpTo' = ScannedUpTo
  BY <1>1 DEF ScannedUpTo
<1>5. WindowsInv'
  BY <1>1, <1>2, <1>4, KeepsWindows DEF PciInv
<1>6. \A k, p : Passed(k, p)' <=> Passed(k, p)
  BY <1>1 DEF Passed
<1>7. LinesInv'
  BY <1>1, <1>2, <1>3, <1>6, KeepsLines DEF PciInv
<1>8. QED  BY <1>1, <1>3, <1>5, <1>7 DEF PciInv, BarsInv

\* Nothing answers: the scan passes a page that is no function.
LEMMA NoFunctionPreserves == PciInv /\ NoFunction => PciInv'
<1> SUFFICES ASSUME PciInv, NoFunction PROVE PciInv'
  OBVIOUS
<1>1. /\ pcipc = "function" /\ ~Present /\ NextFunction
      /\ UNCHANGED <<machine, bar, listed, scanned, functionLines>>
  BY DEF NoFunction
<1>2. PciTypes /\ WindowCount' = WindowCount
  BY <1>1, SameMachine DEF PciInv
<1>3. /\ windowIndex' \in 0 .. WindowCount /\ device' \in 0 .. 31 /\ function' \in 0 .. 7
      /\ \/ pcipc' = "function" /\ windowIndex' = windowIndex
         \/ pcipc' = "window" /\ windowIndex' = windowIndex + 1
      /\ ScannedUpTo' = ScannedUpTo
      /\ \A k \in 0 .. WindowCount - 1 :
            \A p \in OnFirstBus(machine.windows[k + 1]) :
               Passed(k, p)' <=> (k < windowIndex \/ (k = windowIndex /\ p <= ConfigBase))
  BY <1>1, <1>2, NextFunctionMoves
<1>4. PciTypes'
  BY <1>1, <1>2, <1>3, SameMachine DEF PciTypes
<1>5. WindowsInv'
  BY <1>1, <1>2, <1>3, KeepsWindows DEF PciInv
<1>6. ASSUME NEW k \in 0 .. WindowCount - 1, NEW p \in OnFirstBus(machine.windows[k + 1])
      PROVE  Passed(k, p)' <=> Passed(k, p)
  <2>1. p # ConfigBase
    BY <1>1 DEF Present, OnFirstBus
  <2>2. p \in Nat
    BY <1>2 DEF OnFirstBus, PciTypes, WellFormedMachine
  <2>3. ConfigBase \in Int
    BY <1>1, <1>2, AtFunction
  <2>4. Passed(k, p)' <=> (k < windowIndex \/ (k = windowIndex /\ p <= ConfigBase))
    BY <1>3
  <2>5. p <= ConfigBase <=> p < ConfigBase
    BY <2>1, <2>2, <2>3
  <2>6. Passed(k, p) <=> (k < windowIndex \/ (k = windowIndex /\ p < ConfigBase))
    BY <1>1 DEF Passed
  <2>7. QED  BY <2>4, <2>5, <2>6
<1>7. LinesInv'
  BY <1>1, <1>2, <1>3, <1>4, <1>6, KeepsLines DEF PciInv
<1>8. QED  BY <1>3, <1>4, <1>5, <1>7 DEF PciInv, BarsInv

\* The BARs are through: the function was passed when its line was begun.
LEMMA EndBarsPreserves == PciInv /\ EndBars => PciInv'
<1> SUFFICES ASSUME PciInv, EndBars PROVE PciInv'
  OBVIOUS
<1>1. /\ pcipc = "bars" /\ NextFunction
      /\ UNCHANGED <<machine, bar, listed, scanned, functionLines>>
  BY DEF EndBars
<1>2. PciTypes /\ WindowCount' = WindowCount
  BY <1>1, SameMachine DEF PciInv
<1>3. /\ windowIndex' \in 0 .. WindowCount /\ device' \in 0 .. 31 /\ function' \in 0 .. 7
      /\ \/ pcipc' = "function" /\ windowIndex' = windowIndex
         \/ pcipc' = "window" /\ windowIndex' = windowIndex + 1
      /\ ScannedUpTo' = ScannedUpTo
      /\ \A k \in 0 .. WindowCount - 1 :
            \A p \in OnFirstBus(machine.windows[k + 1]) :
               Passed(k, p)' <=> (k < windowIndex \/ (k = windowIndex /\ p <= ConfigBase))
  BY <1>1, <1>2, NextFunctionMoves
<1>4. PciTypes'
  BY <1>1, <1>2, <1>3, SameMachine DEF PciTypes
<1>5. WindowsInv'
  BY <1>1, <1>2, <1>3, KeepsWindows DEF PciInv
<1>6. ASSUME NEW k \in 0 .. WindowCount - 1, NEW p \in OnFirstBus(machine.windows[k + 1])
      PROVE  Passed(k, p)' <=> Passed(k, p)
  BY <1>1, <1>3 DEF Passed
<1>7. LinesInv'
  BY <1>1, <1>2, <1>3, <1>4, <1>6, KeepsLines DEF PciInv
<1>8. QED  BY <1>3, <1>4, <1>5, <1>7 DEF PciInv, BarsInv

\* A function answers: its line is appended, and the scan has passed it.
LEMMA PrintPciFunctionPreserves == PciInv /\ PrintPciFunction => PciInv'
<1> SUFFICES ASSUME PciInv, PrintPciFunction PROVE PciInv'
  OBVIOUS
<1>1. /\ pcipc = "function" /\ pcipc' = "bars" /\ Present /\ bar' = 0
      /\ UNCHANGED <<machine, windowIndex, device, function, listed, scanned>>
  BY DEF PrintPciFunction
<1>2. PciTypes /\ LinesInv /\ functionLines \in Seq(Lines)
  BY DEF PciInv, PciTypes
<1>3. /\ Window.base \in Nat /\ Window.start \in Nat /\ Window.segment \in Nat
      /\ ConfigBase = Window.base + 8 * device + function
      /\ ConfigBase \in Window.base .. Window.base + 255
      /\ windowIndex \in 0 .. WindowCount - 1 /\ Valid(windowIndex)
  BY <1>1, <1>2, AtFunction, PciTyped DEF PciTypes
<1>4. PICK l \in Lines :
         l = [window |-> windowIndex, segment |-> Window.segment, bus |-> Bus,
              device |-> device, function |-> function, bars |-> <<>>]
  <2>1. windowIndex \in Nat /\ device \in 0 .. 31 /\ function \in 0 .. 7 /\ Bus \in Nat
    BY <1>2, <1>3, PciTyped DEF Bus, PciTypes
  <2>2. <<>> \in Seq(Nat \X Nat)
    OBVIOUS
  <2>3. [window |-> windowIndex, segment |-> Window.segment, bus |-> Bus,
         device |-> device, function |-> function, bars |-> <<>>] \in Lines
    BY <1>3, <2>1, <2>2 DEF Lines
  <2>4. QED  BY <2>3
<1>5. PICK n \in Nat :
         /\ n = Len(functionLines) /\ Len(functionLines') = n + 1
         /\ functionLines' \in Seq(Lines)
         /\ \A i \in 1 .. n : functionLines'[i] = functionLines[i]
         /\ functionLines'[n + 1] = l
  <2>1. functionLines' = Append(functionLines, l)
    BY <1>4 DEF PrintPciFunction
  <2>2. Len(functionLines) \in Nat
    BY <1>2, PciTyped
  <2>3. /\ functionLines' \in Seq(Lines) /\ Len(functionLines') = Len(functionLines) + 1
        /\ \A i \in 1 .. Len(functionLines) : functionLines'[i] = functionLines[i]
        /\ functionLines'[Len(functionLines) + 1] = l
    BY <1>2, <1>4, <2>1, AppendProperties
  <2>4. QED  BY <2>2, <2>3
<1>6. /\ WindowCount' = WindowCount /\ ConfigBase' = ConfigBase /\ Present'
      /\ \A k : Valid(k)' <=> Valid(k)
      /\ \A k : OnFirstBus(machine.windows[k + 1])' = OnFirstBus(machine.windows[k + 1])
  BY <1>1, SameMachine DEF Present, ConfigBase, Window, Bus, OnFirstBus
<1>7. PciTypes'
  BY <1>1, <1>2, <1>3, <1>5, <1>6, SameMachine DEF PciTypes
<1>8. WindowsInv'
  <2>1. ScannedUpTo' = ScannedUpTo
    BY <1>1 DEF ScannedUpTo
  <2>2. QED  BY <1>1, <1>2, <2>1, KeepsWindows DEF PciInv
<1>9. l.window = windowIndex
  BY <1>4
<1>10. /\ LineOfFunction(l)' /\ l.window = windowIndex
      /\ PageOf(l) = ConfigBase /\ PageOf(l)' = ConfigBase
  <2>1. PageOf(l) = ConfigBase
    BY <1>4 DEF PageOf, ConfigBase, Window, Bus
  <2>2. PageOf(l)' = ConfigBase
    BY <1>1, <1>6, <2>1 DEF PageOf
  <2>3. ConfigBase \in OnFirstBus(Window)
    BY <1>1, <1>3 DEF OnFirstBus, Present
  <2>4. (l.window < WindowCount)'
    BY <1>2, <1>3, <1>6, <1>9, PciTyped
  <2>5. (Valid(l.window))'
    BY <1>1, <1>3, <1>9 DEF Valid
  <2>6. (l.segment = machine.windows[l.window + 1].segment)'
    BY <1>1, <1>4 DEF Window
  <2>7. (l.bus = machine.windows[l.window + 1].start)'
    BY <1>1, <1>4 DEF Window, Bus
  <2>8. (PageOf(l) \in OnFirstBus(machine.windows[l.window + 1]))'
    BY <1>1, <1>4, <1>6, <2>2, <2>3 DEF Window, OnFirstBus
  <2>9. QED  BY <1>4, <2>1, <2>2, <2>5, <2>4, <2>6, <2>7, <2>8 DEF LineOfFunction
<1>11. ASSUME NEW k \in 0 .. WindowCount - 1, NEW p \in OnFirstBus(machine.windows[k + 1])
       PROVE  Passed(k, p)' <=> (Passed(k, p) \/ (k = windowIndex /\ p = ConfigBase))
  <2>1. p \in Nat
    BY <1>2 DEF OnFirstBus, PciTypes, WellFormedMachine
  <2>2. QED  BY <1>1, <1>3, <1>6, <2>1 DEF Passed
<1>12. ASSUME NEW i \in 1 .. n
       PROVE  /\ LineOfFunction(functionLines[i])
              /\ Passed(functionLines[i].window, PageOf(functionLines[i]))
              /\ functionLines[i].window \in 0 .. WindowCount - 1
              /\ PageOf(functionLines[i]) \in OnFirstBus(machine.windows[functionLines[i].window + 1])
              /\ functionLines'[i] = functionLines[i]
  <2>1. /\ LineOfFunction(functionLines[i]) /\ functionLines'[i] = functionLines[i]
        /\ Passed(functionLines[i].window, PageOf(functionLines[i]))
    BY <1>1, <1>2, <1>5 DEF LinesInv
  <2>2. functionLines[i].window \in Nat
    BY <1>2, <1>5, PciTyped DEF Lines
  <2>3. QED  BY <1>2, <2>1, <2>2, PciTyped DEF LineOfFunction
<1>13. ASSUME NEW i \in 1 .. n
       PROVE  /\ LineOfFunction(functionLines[i])'
              /\ PageOf(functionLines[i])' = PageOf(functionLines[i])
              /\ (functionLines[i].window)' = functionLines[i].window
  <2>1. PageOf(functionLines[i])' = PageOf(functionLines[i])
    BY <1>1, <1>12 DEF PageOf
  <2>2. (functionLines[i].window)' = functionLines[i].window
    BY <1>12
  <2>3. LineOfFunction(functionLines[i])'
    BY <1>1, <1>6, <1>12, <2>1 DEF LineOfFunction, Valid, OnFirstBus
  <2>4. QED  BY <2>1, <2>2, <2>3
<1>14. ASSUME NEW i \in 1 .. n
       PROVE  Passed(functionLines[i].window, PageOf(functionLines[i]))'
  <2>1. PICK k \in 0 .. WindowCount - 1 : k = functionLines[i].window
    BY <1>12
  <2>2. PICK p \in OnFirstBus(machine.windows[k + 1]) : p = PageOf(functionLines[i])
    BY <1>12, <2>1
  <2>3. Passed(k, p)'
    BY <1>11, <1>12, <2>1, <2>2
  <2>4. k = (functionLines[i].window)' /\ p = PageOf(functionLines[i])'
    BY <1>13, <2>1, <2>2
  <2>5. QED  BY <2>3, <2>4 DEF Passed
<1>15. ASSUME NEW i \in 1 .. n
       PROVE  /\ functionLines[i].window \in Nat /\ PageOf(functionLines[i]) \in Nat
              /\ \/ functionLines[i].window < windowIndex
                 \/ functionLines[i].window = windowIndex /\ PageOf(functionLines[i]) < ConfigBase
  <2>1. PageOf(functionLines[i]) \in Nat
    BY <1>2, <1>12 DEF OnFirstBus, PciTypes, WellFormedMachine
  <2>2. QED  BY <1>1, <1>12, <2>1 DEF Passed
<1>16. (\A i \in 1 .. Len(functionLines) :
          /\ LineOfFunction(functionLines[i])
          /\ Passed(functionLines[i].window, PageOf(functionLines[i])))'
  <2>1. SUFFICES ASSUME NEW i \in 1 .. n + 1
                 PROVE  /\ LineOfFunction(functionLines[i])'
                        /\ Passed(functionLines[i].window, PageOf(functionLines[i]))'
    BY <1>5
  <2>2. CASE i \in 1 .. n
    BY <1>13, <1>14, <2>2
  <2>3. CASE i = n + 1
    <3>1. functionLines'[i] = l
      BY <1>5, <2>3
    <3>2. LineOfFunction(functionLines[i])' <=> LineOfFunction(l)'
      BY <3>1 DEF LineOfFunction, PageOf
    <3>3. (functionLines[i].window)' = windowIndex /\ PageOf(functionLines[i])' = ConfigBase
      BY <1>10, <3>1 DEF PageOf
    <3>4. Passed(functionLines[i].window, PageOf(functionLines[i]))'
      BY <1>1, <1>3, <1>6, <3>3 DEF Passed
    <3>5. QED  BY <1>10, <3>2, <3>4
  <2>4. QED  BY <1>2, <2>2, <2>3
<1>17. (\A i, j \in 1 .. Len(functionLines) :
          i < j => Before(functionLines[i], functionLines[j]))'
  <2>1. SUFFICES ASSUME NEW i \in 1 .. n + 1, NEW j \in 1 .. n + 1, i < j
                 PROVE  Before(functionLines[i], functionLines[j])'
    BY <1>5
  <2>2. CASE j \in 1 .. n
    <3>1. i \in 1 .. n
      BY <1>2, <2>1, <2>2
    <3>2. Before(functionLines[i], functionLines[j])
      BY <1>1, <1>2, <1>5, <2>1, <2>2, <3>1 DEF LinesInv
    <3>3. QED  BY <1>13, <2>2, <3>1, <3>2 DEF Before
  <2>3. CASE j = n + 1
    <3>1. i \in 1 .. n
      BY <1>2, <2>1, <2>3
    <3>2. functionLines'[j] = l
      BY <1>5, <2>3
    <3>3. (functionLines[j].window)' = windowIndex /\ PageOf(functionLines[j])' = ConfigBase
      BY <1>10, <3>2 DEF PageOf
    <3>4. QED  BY <1>13, <1>15, <3>1, <3>3 DEF Before
  <2>4. QED  BY <1>2, <2>1, <2>2, <2>3
<1>18. (\A k \in 0 .. WindowCount - 1 : Valid(k) =>
          \A p \in OnFirstBus(machine.windows[k + 1]) : Passed(k, p) =>
             \E i \in 1 .. Len(functionLines) :
                functionLines[i].window = k /\ PageOf(functionLines[i]) = p)'
  <2>1. SUFFICES ASSUME NEW k \in 0 .. WindowCount - 1, Valid(k),
                        NEW p \in OnFirstBus(machine.windows[k + 1]), Passed(k, p)'
                 PROVE  \E i \in 1 .. n + 1 :
                           (functionLines[i].window)' = k /\ PageOf(functionLines[i])' = p
    BY <1>5, <1>6
  <2>2. CASE Passed(k, p)
    <3>1. PICK i \in 1 .. n : functionLines[i].window = k /\ PageOf(functionLines[i]) = p
      BY <1>1, <1>2, <1>5, <2>1, <2>2 DEF LinesInv
    <3>2. i \in 1 .. n + 1
      BY <1>2
    <3>3. QED  BY <1>13, <3>1, <3>2
  <2>3. CASE k = windowIndex /\ p = ConfigBase
    <3>1. functionLines'[n + 1] = l /\ n + 1 \in 1 .. n + 1
      BY <1>2, <1>5
    <3>2. (functionLines[n + 1].window)' = windowIndex /\ PageOf(functionLines[n + 1])' = ConfigBase
      BY <1>10, <3>1 DEF PageOf
    <3>3. QED  BY <2>3, <3>1, <3>2
  <2>4. QED  BY <1>11, <2>1, <2>2, <2>3
<1>19. LinesInv'
  BY <1>1, <1>16, <1>17, <1>18 DEF LinesInv
<1>20. BarsInv'
  <2>1. /\ Len(functionLines') = n + 1 /\ functionLines'[n + 1].bars = <<>>
    BY <1>4, <1>5
  <2>2. /\ Answering' = Answering /\ Len(Answering.declared) \in Nat
        /\ Answering.declared \in Seq(Nat \X Nat)
    BY <1>1, <1>2, <1>6 DEF Answering, PciTypes, WellFormedMachine, Present
  <2>3. ASSUME NEW i \in 1 .. Len(Answering.declared)
        PROVE  Answering.declared[i][1] \in Nat
    <3>1. Answering.declared[i] \in Nat \X Nat
      BY <2>2, ElementOfSeq
    <3>2. QED  BY <3>1
  <2>4. /\ Len(functionLines') > 0 /\ bar' = 0
        /\ functionLines'[Len(functionLines')].bars = <<>>
    BY <1>1, <1>5, <2>1
  <2>5. (Len(functionLines[Len(functionLines)].bars))' = 0
    BY <2>4
  <2>6. \A i \in 1 .. Len(Answering.declared) :
           /\ (Answering.declared[i][1] >= bar)'
           /\ (Answering.declared[i][1] + 1 # bar)'
    BY <2>2, <2>3, <2>4
  <2>7. (\A i \in 1 .. Len(functionLines[Len(functionLines)].bars) :
           /\ functionLines[Len(functionLines)].bars[i] = Answering.declared[i]
           /\ Answering.declared[i][1] < bar)'
    BY <2>5
  <2>8. (\A i \in Len(functionLines[Len(functionLines)].bars) + 1 .. Len(Answering.declared) :
           Answering.declared[i][1] >= bar)'
    BY <2>2, <2>5, <2>6
  <2>9. (\A i \in 1 .. Len(Answering.declared) : Answering.declared[i][1] + 1 # bar)'
    BY <2>2, <2>6
  <2>10. (Len(functionLines) > 0)'
         /\ (Len(functionLines[Len(functionLines)].bars) <= Len(Answering.declared))'
    BY <2>2, <2>4, <2>5
  <2>11. QED  BY <2>7, <2>8, <2>9, <2>10, Zenon DEF BarsInv
<1>21. QED  BY <1>7, <1>8, <1>19, <1>20 DEF PciInv

\* Bits 2 to 0 of a 64-bit memory BAR are 100.
LEMMA Bits64 ==
    ASSUME NEW v \in Nat
    PROVE  Is64(v) <=> v % 8 = 4
BY DEF Is64, IsIo

\* What is declared, as the rounds of PrintPciBars meet it.
LEMMA DeclaredBars ==
    ASSUME NEW f, f.header \in Nat, f.bars \in [1 .. 6 -> Nat],
           f.declared \in Seq(Nat \X Nat), WellDeclared(f)
    PROVE  LET d == f.declared
               is64(i) == f.bars[d[i][1] + 1] % 8 = 4
           IN  /\ BarsIn(f) \in 0 .. 6 /\ Len(d) \in Nat
               /\ \A i \in 1 .. Len(d) :
                     /\ d[i][1] \in 0 .. BarsIn(f) - 1
                     /\ d[i] = <<d[i][1], f.bars[d[i][1] + 1]>>
                     /\ d[i][2] # 0
               /\ \A i, j \in 1 .. Len(d) : i < j => d[i][1] < d[j][1]
               /\ \A r \in 0 .. BarsIn(f) - 1 :
                     f.bars[r + 1] # 0 /\ (\A i \in 1 .. Len(d) : is64(i) => d[i][1] + 1 # r) =>
                        \E i \in 1 .. Len(d) : d[i][1] = r
               /\ \A i, j \in 1 .. Len(d) : is64(i) => d[j][1] # d[i][1] + 1
<1> DEFINE d == f.declared
           is64(i) == f.bars[d[i][1] + 1] % 8 = 4
           registers == { d[i][1] : i \in DOMAIN d }
           uppers == { r + 1 : r \in { q \in registers : f.bars[q + 1] % 8 = 4 } }
<1>1. BarsIn(f) \in 0 .. 6
  BY DEF BarsIn
<1>2. Len(d) \in Nat /\ DOMAIN d = 1 .. Len(d)
  BY LenProperties
<1>3. \A i \in 1 .. Len(d) :
         /\ d[i][1] \in 0 .. BarsIn(f) - 1
         /\ d[i] = <<d[i][1], f.bars[d[i][1] + 1]>>
         /\ d[i][2] # 0
         /\ \A j \in 1 .. Len(d) : i < j => d[i][1] < d[j][1]
  BY <1>2 DEF WellDeclared
<1>4. \A r \in 0 .. BarsIn(f) - 1 :
         \/ r \in registers \ uppers
         \/ r \in uppers \ registers
         \/ r \notin registers /\ f.bars[r + 1] = 0
  BY DEF WellDeclared
<1>5. ASSUME NEW i \in 1 .. Len(d)
      PROVE  d[i][1] \in registers /\ (is64(i) => d[i][1] + 1 \in uppers)
  BY <1>2
<1>6. ASSUME NEW r \in 0 .. BarsIn(f) - 1, f.bars[r + 1] # 0,
             \A i \in 1 .. Len(d) : is64(i) => d[i][1] + 1 # r
      PROVE  \E i \in 1 .. Len(d) : d[i][1] = r
  <2>1. r \notin uppers
    <3>1. SUFFICES ASSUME r \in uppers PROVE FALSE
      OBVIOUS
    <3>2. PICK i \in 1 .. Len(d) : r = d[i][1] + 1 /\ is64(i)
      BY <1>2, <3>1
    <3>3. QED  BY <1>6, <3>2
  <2>2. r \in registers
    BY <1>4, <1>6, <2>1
  <2>3. QED  BY <1>2, <2>2
<1>7. ASSUME NEW i \in 1 .. Len(d), NEW j \in 1 .. Len(d), is64(i), d[j][1] = d[i][1] + 1
      PROVE  FALSE
  <2>1. d[j][1] \in registers /\ d[j][1] \in uppers
    BY <1>5, <1>7
  <2>2. d[j][1] \in 0 .. BarsIn(f) - 1
    BY <1>3
  <2>3. QED  BY <1>4, <2>1, <2>2
<1>8. QED  BY <1>1, <1>2, <1>3, <1>6, <1>7

\* A round of PrintPciBars leaves the line at hand with the BARs declared up to
\* the next register.
LEMMA PrintPciBarsPreserves == PciInv /\ PrintPciBars => PciInv'
<1> SUFFICES ASSUME PciInv, PrintPciBars PROVE PciInv'
  OBVIOUS
<1>1. /\ pcipc = "bars" /\ pcipc' = "bars" /\ bar < BarCount /\ Present
      /\ UNCHANGED <<machine, windowIndex, device, function, listed, scanned>>
      /\ PciTypes /\ LinesInv /\ BarsInv
  BY DEF PrintPciBars, PciInv, PciTypes
<1>2. PICK f : f = Answering /\ f = machine.functions[ConfigBase]
  BY DEF Answering
<1>3. /\ f.header \in Nat /\ f.bars \in [1 .. 6 -> Nat]
      /\ f.declared \in Seq(Nat \X Nat) /\ WellDeclared(f)
  BY <1>1, <1>2 DEF PciTypes, WellFormedMachine, Present
<1>4. PICK d : d = f.declared
  OBVIOUS
<1>5. /\ Len(d) \in Nat
      /\ \A i \in 1 .. Len(d) :
            /\ d[i][1] \in 0 .. BarsIn(f) - 1
            /\ d[i] = <<d[i][1], f.bars[d[i][1] + 1]>>
            /\ d[i][2] # 0
      /\ \A i, j \in 1 .. Len(d) : i < j => d[i][1] < d[j][1]
      /\ \A r \in 0 .. BarsIn(f) - 1 :
            f.bars[r + 1] # 0
            /\ (\A i \in 1 .. Len(d) : f.bars[d[i][1] + 1] % 8 = 4 => d[i][1] + 1 # r) =>
               \E i \in 1 .. Len(d) : d[i][1] = r
      /\ \A i, j \in 1 .. Len(d) : f.bars[d[i][1] + 1] % 8 = 4 => d[j][1] # d[i][1] + 1
  BY <1>3, <1>4, DeclaredBars
<1>6. BarsIn(f) \in 0 .. 6
  BY <1>3, DeclaredBars
<1>7. PICK b \in 0 .. 5 : b = bar /\ b \in 0 .. BarsIn(f) - 1
  BY <1>1, <1>2, <1>6 DEF BarCount, PciTypes
<1>8. PICK v \in Nat : v = BarValue /\ v = f.bars[b + 1]
  <2>1. BarValue = f.bars[b + 1] /\ b + 1 \in 1 .. 6
    BY <1>2, <1>7 DEF BarValue
  <2>2. QED  BY <1>3, <2>1
<1>9. PICK n \in Nat : n = Len(functionLines) /\ n > 0
  BY <1>1, PciTyped DEF BarsInv
<1>10. PICK own \in Seq(Nat \X Nat) : own = functionLines[n].bars
  BY <1>1, <1>9, PciTyped DEF Lines
<1>11. PICK m \in Nat : m = Len(own) /\ m <= Len(d)
  BY <1>1, <1>2, <1>4, <1>9, <1>10, LenProperties DEF BarsInv
<1>12. /\ \A i \in 1 .. m : own[i] = d[i] /\ d[i][1] < b
       /\ \A i \in m + 1 .. Len(d) : d[i][1] >= b
       /\ \A i \in 1 .. Len(d) : f.bars[d[i][1] + 1] % 8 = 4 => d[i][1] + 1 # b
  BY <1>1, <1>2, <1>4, <1>7, <1>9, <1>10, <1>11 DEF BarsInv
<1>13. Is64(v) <=> v % 8 = 4
  BY Bits64
<1>14. bar' = IF v % 8 = 4 THEN b + 2 ELSE b + 1
  BY <1>7, <1>8, <1>13 DEF PrintPciBars
\* What the line becomes: the same, or one BAR longer.
<1>15. PICK more \in Seq(Nat \X Nat) :
          /\ more = IF v = 0 THEN own ELSE Append(own, <<b, v>>)
          /\ functionLines' = [functionLines EXCEPT ![n] = [functionLines[n] EXCEPT !.bars = more]]
  <2>1. CASE v = 0
    <3>1. functionLines' = functionLines
      BY <1>8, <2>1 DEF PrintPciBars
    <3>2. functionLines[n] \in Lines /\ n \in DOMAIN functionLines
      BY <1>1, <1>9, PciTyped
    <3>3. [functionLines[n] EXCEPT !.bars = own] = functionLines[n]
      BY <1>10, <3>2 DEF Lines
    <3>4. [functionLines EXCEPT ![n] = functionLines[n]] = functionLines
      BY <1>1, <3>2 DEF PciTypes
    <3>5. QED  BY <2>1, <3>1, <3>3, <3>4
  <2>2. CASE v # 0
    <3>1. Append(own, <<b, v>>) \in Seq(Nat \X Nat)
      BY <1>10, AppendProperties
    <3>2. functionLines' = [functionLines EXCEPT ![n].bars = Append(@, <<b, v>>)]
      BY <1>7, <1>8, <1>9, <2>2 DEF PrintPciBars
    <3>3. functionLines' = [functionLines EXCEPT ![n] = [functionLines[n] EXCEPT !.bars = Append(own, <<b, v>>)]]
      BY <1>10, <3>2
    <3>4. QED  BY <2>2, <3>1, <3>3
  <2>3. QED  BY <2>1, <2>2
<1>16. /\ functionLines' \in Seq(Lines) /\ Len(functionLines') = n
       /\ functionLines'[n].bars = more
       /\ \A i \in 1 .. n :
             LET x == functionLines[i]
                 y == functionLines'[i]
             IN  /\ y.window = x.window /\ y.segment = x.segment /\ y.bus = x.bus
                 /\ y.device = x.device /\ y.function = x.function
  <2>1. PICK line \in Lines : line = [functionLines[n] EXCEPT !.bars = more]
    <3>1. functionLines[n] \in Lines
      BY <1>1, <1>9, PciTyped
    <3>2. [functionLines[n] EXCEPT !.bars = more] \in Lines
      BY <1>15, <3>1 DEF Lines
    <3>3. QED  BY <3>2
  <2>2. functionLines' = [functionLines EXCEPT ![n] = line]
    BY <1>15, <2>1
  <2>3. functionLines \in Seq(Lines) /\ n \in 1 .. Len(functionLines)
    BY <1>1, <1>9 DEF PciTypes
  <2>4. /\ functionLines' \in Seq(Lines) /\ Len(functionLines') = n
        /\ \A i \in 1 .. n : functionLines'[i] = IF i = n THEN line ELSE functionLines[i]
    BY <1>9, <2>2, <2>3, ExceptSeq
  <2>5. functionLines[n] \in Lines
    BY <1>1, <1>9, PciTyped
  <2>6. /\ line.bars = more /\ line.window = functionLines[n].window
        /\ line.segment = functionLines[n].segment /\ line.bus = functionLines[n].bus
        /\ line.device = functionLines[n].device /\ line.function = functionLines[n].function
    BY <2>1, <2>5 DEF Lines
  <2>7. functionLines'[n] = line /\ \A i \in 1 .. n : i # n => functionLines'[i] = functionLines[i]
    BY <1>9, <2>4, SMTT(30)
  <2>8. QED  BY <2>4, <2>6, <2>7
<1>17. /\ WindowCount' = WindowCount /\ ConfigBase' = ConfigBase /\ Present' /\ Answering' = f
       /\ \A k : Valid(k)' <=> Valid(k)
  BY <1>1, <1>2, SameMachine DEF Present, ConfigBase, Window, Bus, Answering
<1>18. PciTypes'
  BY <1>1, <1>7, <1>14, <1>16, <1>17, SameMachine DEF PciTypes
<1>19. WindowsInv'
  <2>1. ScannedUpTo' = ScannedUpTo
    BY <1>1 DEF ScannedUpTo
  <2>2. QED  BY <1>1, <2>1, KeepsWindows DEF PciInv
<1>20. LinesInv'
  <2>1. \A k \in 0 .. WindowCount - 1 :
           \A p \in OnFirstBus(machine.windows[k + 1]) : Passed(k, p)' <=> Passed(k, p)
    BY <1>1, <1>17 DEF Passed
  <2>2. QED  BY <1>1, <1>9, <1>16, <1>18, <2>1, KeepsLines
\* The BARs: three cases by the value of the register.
<1>21. PICK b2 \in Nat : b2 = bar'
  BY <1>7, <1>14
<1>22. /\ Len(more) \in Nat /\ Len(more) <= Len(d)
       /\ \A i \in 1 .. Len(more) : more[i] = d[i] /\ d[i][1] < b2
       /\ \A i \in Len(more) + 1 .. Len(d) : d[i][1] >= b2
       /\ \A i \in 1 .. Len(d) : f.bars[d[i][1] + 1] % 8 = 4 => d[i][1] + 1 # b2
  <2>0. \A i \in 1 .. Len(d) : d[i][1] \in Nat /\ d[i][2] = f.bars[d[i][1] + 1]
    BY <1>5, <1>6
  <2>1. CASE v = 0
    <3>1. more = own /\ b2 = b + 1
      BY <1>14, <1>15, <1>21, <2>1
    <3>2. ASSUME NEW i \in 1 .. Len(d) PROVE d[i][1] # b /\ d[i][1] \in Nat
      <4>1. d[i][2] # 0 /\ d[i][2] = f.bars[d[i][1] + 1] /\ d[i][1] \in Nat
        BY <1>5, <2>0
      <4>2. QED  BY <1>8, <2>1, <4>1
    <3>3. /\ Len(more) = m
          /\ \A i \in 1 .. m : i \in 1 .. Len(d)
          /\ \A i \in m + 1 .. Len(d) : i \in 1 .. Len(d)
      BY <1>5, <1>11, <3>1
    <3>4. \A i \in 1 .. m : more[i] = d[i] /\ d[i][1] < b2
      BY <1>7, <1>12, <3>1, <3>2, <3>3
    <3>5. \A i \in m + 1 .. Len(d) : d[i][1] >= b2
      BY <1>7, <1>12, <3>1, <3>2, <3>3
    <3>6. \A i \in 1 .. Len(d) : d[i][1] + 1 # b2
      BY <1>7, <3>1, <3>2
    <3>7. QED  BY <1>11, <3>3, <3>4, <3>5, <3>6
  <2>2. CASE v # 0
    <3>1. PICK i \in 1 .. Len(d) : d[i][1] = b
      BY <1>5, <1>7, <1>8, <1>12, <2>2
    <3>2. i = m + 1
      <4>1. ~(i <= m)
        BY <1>7, <1>11, <1>12, <3>1
      <4>2. ~(m + 1 < i)
        <5>1. SUFFICES ASSUME m + 1 < i PROVE FALSE
          OBVIOUS
        <5>2. m + 1 \in 1 .. Len(d) /\ m + 1 \in m + 1 .. Len(d)
          BY <1>5, <1>11, <3>1, <5>1
        <5>3. d[m + 1][1] < d[i][1] /\ d[m + 1][1] >= b
          BY <1>5, <1>12, <5>1, <5>2
        <5>4. QED  BY <1>7, <2>0, <3>1, <5>2, <5>3
      <4>3. QED  BY <1>5, <1>11, <4>1, <4>2
    <3>3. d[i] = <<b, v>>
      BY <1>5, <1>8, <3>1
    <3>4. /\ Len(more) = m + 1 /\ more[m + 1] = <<b, v>>
          /\ \A j \in 1 .. m : more[j] = own[j]
      BY <1>10, <1>11, <1>15, <2>2, AppendProperties
    <3>5. ASSUME NEW j \in 1 .. Len(more) PROVE more[j] = d[j] /\ d[j][1] < b + 1
      <4>1. CASE j \in 1 .. m
        <5>1. j \in 1 .. Len(d)
          BY <1>5, <1>11, <4>1
        <5>2. more[j] = d[j] /\ d[j][1] < b /\ d[j][1] \in Nat
          BY <1>12, <2>0, <3>4, <4>1, <5>1
        <5>3. QED  BY <1>7, <5>2, SMTT(30)
      <4>2. CASE j = m + 1
        <5>1. j = i /\ more[j] = <<b, v>>
          BY <3>2, <3>4, <4>2
        <5>2. more[j] = d[j] /\ d[j][1] = b
          BY <3>1, <3>3, <5>1
        <5>3. QED  BY <1>7, <5>2
      <4>3. QED  BY <1>11, <3>4, <4>1, <4>2
    <3>6. ASSUME NEW j \in m + 2 .. Len(d) PROVE d[j][1] > b
      BY <1>5, <1>11, <3>1, <3>2, SMTT(30)
    <3>7. CASE v % 8 = 4
      <4>1. b2 = b + 2
        BY <1>14, <1>21, <3>7
      <4>2. \A j \in 1 .. Len(d) : d[j][1] # b + 1
        BY <1>5, <1>8, <3>1, <3>7
      <4>3. ASSUME NEW j \in 1 .. Len(more) PROVE d[j][1] < b2
        <5>1. j \in 1 .. Len(d)
          BY <1>5, <1>11, <3>2, <3>4
        <5>2. PICK x \in Nat : x = d[j][1] /\ x < b + 1
          BY <2>0, <3>5, <5>1
        <5>3. x < b + 2
          <6>1. b \in Nat /\ x < b + 1
            BY <5>2
          <6>2. QED  BY <6>1
        <5>4. QED  BY <4>1, <5>2, <5>3
      <4>4. ASSUME NEW j \in Len(more) + 1 .. Len(d) PROVE d[j][1] >= b2
        <5>1. j \in m + 2 .. Len(d) /\ j \in 1 .. Len(d)
          BY <1>5, <3>4
        <5>2. d[j][1] > b /\ d[j][1] # b + 1 /\ d[j][1] \in Nat
          BY <2>0, <3>6, <4>2, <5>1
        <5>3. QED  BY <1>7, <4>1, <5>2
      <4>5. ASSUME NEW j \in 1 .. Len(d) PROVE d[j][1] + 1 # b2
        <5>1. d[j][1] \in Nat /\ d[j][1] # b + 1
          BY <2>0, <4>2
        <5>2. QED  BY <1>7, <4>1, <5>1
      <4>6. QED  BY <1>5, <1>11, <3>2, <3>4, <3>5, <4>3, <4>4, <4>5
    <3>8. CASE v % 8 # 4
      <4>1. b2 = b + 1
        BY <1>14, <1>21, <3>8
      <4>2. ASSUME NEW j \in 1 .. Len(more) PROVE d[j][1] < b2
        BY <3>5, <4>1
      <4>3. ASSUME NEW j \in Len(more) + 1 .. Len(d) PROVE d[j][1] >= b2
        <5>1. j \in m + 2 .. Len(d) /\ j \in 1 .. Len(d)
          BY <1>5, <3>4
        <5>2. d[j][1] > b /\ d[j][1] \in Nat
          BY <2>0, <3>6, <5>1
        <5>3. QED  BY <1>7, <4>1, <5>2
      <4>4. ASSUME NEW j \in 1 .. Len(d), f.bars[d[j][1] + 1] % 8 = 4 PROVE d[j][1] + 1 # b2
        <5>1. d[j][1] # b
          BY <1>8, <3>8, <4>4
        <5>2. QED  BY <1>7, <2>0, <4>1, <5>1
      <4>5. QED  BY <1>5, <1>11, <3>2, <3>4, <3>5, <4>2, <4>3, <4>4
    <3>9. QED  BY <3>7, <3>8
  <2>3. QED  BY <2>1, <2>2
<1>23. BarsInv'
  <2>1. /\ (functionLines[Len(functionLines)].bars)' = more
        /\ (Answering.declared)' = d /\ (Answering.bars)' = f.bars /\ bar' = b2
        /\ Len(functionLines)' > 0
    BY <1>4, <1>9, <1>16, <1>17, <1>21
  <2>2. (/\ Len(functionLines[Len(functionLines)].bars) <= Len(Answering.declared)
         /\ \A i \in 1 .. Len(functionLines[Len(functionLines)].bars) :
              /\ functionLines[Len(functionLines)].bars[i] = Answering.declared[i]
              /\ Answering.declared[i][1] < bar
         /\ \A i \in Len(functionLines[Len(functionLines)].bars) + 1 .. Len(Answering.declared) :
              Answering.declared[i][1] >= bar
         /\ \A i \in 1 .. Len(Answering.declared) :
              Answering.bars[Answering.declared[i][1] + 1] % 8 = 4 =>
                 Answering.declared[i][1] + 1 # bar)'
    BY <1>22, <2>1
  <2>3. QED  BY <2>1, <2>2, Zenon DEF BarsInv
<1>24. QED  BY <1>18, <1>19, <1>20, <1>23 DEF PciInv

\* Part of the scan, or another walk's turn.
LEMMA PciStepPreserves == PciInv /\ [PciNext]_pcivars => PciInv'
<1> SUFFICES ASSUME PciInv, [PciNext]_pcivars PROVE PciInv'
  OBVIOUS
<1>1. CASE UNCHANGED pcivars
  <2> USE <1>1 DEF pcivars
  <2>1. /\ WindowCount' = WindowCount /\ ConfigBase' = ConfigBase
        /\ (Present' <=> Present) /\ Answering' = Answering
        /\ ListedUpTo' = ListedUpTo /\ ScannedUpTo' = ScannedUpTo
    BY SameMachine DEF ConfigBase, Window, Bus, Present, Answering, ListedUpTo, ScannedUpTo
  <2>2. PciTypes'
    BY <2>1, SameMachine DEF PciInv, PciTypes
  <2>3. WindowsInv'
    BY <2>1, SameMachine DEF PciInv, WindowsInv
  <2>4. \A k, p : Passed(k, p)' <=> Passed(k, p)
    BY <2>1 DEF Passed
  <2>5. LinesInv'
    <3>1. CASE pcipc = "list"
      BY <3>1 DEF PciInv, LinesInv
    <3>2. CASE pcipc # "list"
      BY <2>2, <2>4, <3>2, KeepsLines DEF PciInv
    <3>3. QED  BY <3>1, <3>2
  <2>6. BarsInv'
    BY <2>1 DEF PciInv, BarsInv
  <2>7. QED  BY <2>2, <2>3, <2>5, <2>6 DEF PciInv
<1>2. QED
  BY <1>1, ListWindowPreserves, EndWindowsPreserves, BeginScanPreserves, SkipWindowPreserves,
     EndScanPreserves, NoFunctionPreserves, PrintPciFunctionPreserves, PrintPciBarsPreserves,
     EndBarsPreserves DEF PciNext

\* The scan of any machine starts in the invariant.
LEMMA PciStarts == WellFormedMachine(machine) /\ PciInit => PciInv
<1> SUFFICES ASSUME WellFormedMachine(machine), PciInit PROVE PciInv
  OBVIOUS
<1>1. WindowCount \in Nat /\ 0 \in 0 .. WindowCount
  BY WindowsThere
<1>2. PciTypes
  BY <1>1 DEF PciInit, PciTypes
<1>3. WindowsInv
  BY <1>1 DEF PciInit, WindowsInv, ListedUpTo
<1>4. QED  BY <1>2, <1>3 DEF PciInit, PciInv, LinesInv, BarsInv

\* What is scanned is a front part of what is listed.
LEMMA ScannedWereListed ==
    ASSUME PciInv, pcipc # "list"
    PROVE  IsPrefix(scanned, listed)
<1>1. Len(listed) \in Nat /\ Len(scanned) \in Nat /\ listed \in Seq(Nat) /\ scanned \in Seq(Nat)
  BY PciTyped DEF PciInv, PciTypes
<1>2. Len(scanned) <= Len(listed) /\ \A i \in 1 .. Len(scanned) : scanned[i] = listed[i]
  BY DEF PciInv, WindowsInv
<1>3. QED  BY <1>1, <1>2 DEF IsPrefix

\* When the scan is over, a report of the same MCFG lists the windows scanned,
\* and others only if they are invalid.
LEMMA ScannedAreReported ==
    ASSUME PciInv, pcipc = "done", machine.found => machine.signed
    PROVE  LET reported == ReportedWindows(machine)
           IN  /\ scanned = listed
               /\ \A i \in DOMAIN scanned :
                     /\ scanned[i] + 1 \in DOMAIN reported
                     /\ reported[scanned[i] + 1] = machine.windows[scanned[i] + 1]
               /\ \A i \in DOMAIN reported :
                     i - 1 \notin Range(scanned) => InvalidForListing(reported[i])
<1> DEFINE reported == ReportedWindows(machine)
<1> USE DEF PciInv
<1>1. /\ WindowCount \in Nat /\ Len(listed) \in Nat /\ Len(scanned) \in Nat
      /\ \A i \in 1 .. Len(listed) : listed[i] \in Nat
      /\ listed \in Seq(Nat) /\ scanned \in Seq(Nat)
      /\ DOMAIN scanned = 1 .. Len(scanned)
  BY PciTyped, LenProperties DEF PciTypes
<1>2. ScannedUpTo = WindowCount /\ ListedUpTo = WindowCount
  BY DEF PciTypes, ScannedUpTo, ListedUpTo
<1>3. /\ \A i \in 1 .. Len(listed) : listed[i] < WindowCount
      /\ \A k \in 0 .. WindowCount - 1 : Valid(k) => \E i \in 1 .. Len(listed) : listed[i] = k
      /\ Len(scanned) <= Len(listed)
      /\ \A i \in 1 .. Len(scanned) : scanned[i] = listed[i]
      /\ \A i \in Len(scanned) + 1 .. Len(listed) : listed[i] >= WindowCount
  BY <1>2 DEF WindowsInv
<1>4. Len(scanned) = Len(listed)
  <2>1. SUFFICES ASSUME Len(scanned) < Len(listed) PROVE FALSE
    BY <1>1, <1>3
  <2>2. Len(listed) \in 1 .. Len(listed) /\ Len(listed) \in Len(scanned) + 1 .. Len(listed)
    BY <1>1, <2>1
  <2>3. QED  BY <1>1, <1>3, <2>2, SMTT(30)
<1>5. scanned = listed
  BY <1>1, <1>3, <1>4, SeqEqual
<1>6. reported = IF Usable THEN SubSeq(machine.windows, 1, WindowCount) ELSE <<>>
  BY DEF ReportedWindows, WindowCount, Usable
<1>7. WindowCount <= Len(machine.windows)
      /\ machine.windows \in Seq([base : Nat, segment : Nat, start : Nat, end : Nat])
  BY WindowsThere DEF PciTypes, WellFormedMachine
<1> HIDE DEF reported
<1>8. /\ Usable => DOMAIN reported = 1 .. WindowCount
      /\ \A i \in 1 .. WindowCount : Usable => reported[i] = machine.windows[i]
  <2>1. SUFFICES ASSUME Usable
                 PROVE  /\ DOMAIN reported = 1 .. WindowCount
                        /\ \A i \in 1 .. WindowCount : reported[i] = machine.windows[i]
    OBVIOUS
  <2>2. reported = SubSeq(machine.windows, 1, WindowCount)
    BY <1>6, <2>1
  <2>3. QED
    BY ONLY <1>1, <1>7, <2>2, SubSeqProperties
<1>9. ~Usable => WindowCount = 0 /\ DOMAIN reported = {}
  BY <1>6 DEF WindowCount
<1>10. ASSUME NEW i \in 1 .. Len(scanned)
       PROVE  /\ scanned[i] + 1 \in DOMAIN reported
              /\ reported[scanned[i] + 1] = machine.windows[scanned[i] + 1]
  <2>1. scanned[i] \in Nat /\ scanned[i] < WindowCount
    BY <1>1, <1>3, <1>5
  <2>2. Usable /\ scanned[i] + 1 \in 1 .. WindowCount
    BY <1>1, <1>9, <2>1
  <2>3. QED  BY <1>8, <2>2
<1>11. ASSUME NEW i \in DOMAIN reported, i - 1 \notin Range(scanned)
       PROVE  InvalidForListing(reported[i])
  <2>1. Usable /\ i \in 1 .. WindowCount /\ reported[i] = machine.windows[i]
    BY <1>8, <1>9
  <2>2. ~Valid(i - 1)
    <3>1. SUFFICES ASSUME Valid(i - 1) PROVE FALSE
      OBVIOUS
    <3>2. PICK k \in 0 .. WindowCount - 1 : k = i - 1
      BY <1>1, <2>1
    <3>3. PICK j \in 1 .. Len(listed) : listed[j] = k
      BY <1>3, <3>1, <3>2
    <3>4. i - 1 \in Range(scanned)
      BY <1>1, <1>5, <3>2, <3>3 DEF Range
    <3>5. QED  BY <1>11, <3>4
  <2>3. (i - 1) + 1 = i
    BY <1>1, <2>1
  <2>4. QED  BY <2>1, <2>2, <2>3 DEF Valid
<1>12. QED  BY <1>1, <1>5, <1>10, <1>11 DEF reported

\* The lines are those of the functions.
LEMMA EveryFunctionIsListed == PciInv => ListsEveryFunction
<1> SUFFICES ASSUME PciInv PROVE ListsEveryFunction
  OBVIOUS
<1> USE DEF PciInv
<1>1. ASSUME pcipc \in {"function", "bars"}
      PROVE  ConfigBase \in Window.base .. Window.base + 256 * (Window.end - Window.start + 1) - 1
  BY <1>1, AtFunction
<1>2. /\ DOMAIN functionLines = 1 .. Len(functionLines)
      /\ \A i \in 1 .. Len(functionLines) : functionLines[i] \in Lines
      /\ windowIndex \in Nat /\ WindowCount \in Nat /\ windowIndex <= WindowCount
  BY PciTyped
<1>3. ASSUME pcipc # "list", NEW i \in 1 .. Len(functionLines)
      PROVE  LET l == functionLines[i]
                 w == machine.windows[l.window + 1]
             IN  /\ l.window < WindowCount /\ ~InvalidForListing(w)
                 /\ l.segment = w.segment /\ l.bus = w.start
                 /\ l.device \in 0 .. 31 /\ l.function \in 0 .. 7
                 /\ PageOf(l) \in OnFirstBus(w)
  <2>1. functionLines[i] \in Lines /\ LineOfFunction(functionLines[i])
    BY <1>2, <1>3 DEF LinesInv
  <2>2. QED  BY <2>1 DEF Lines, LineOfFunction, Valid
<1>4. pcipc # "list" =>
         \A i, j \in 1 .. Len(functionLines) : i < j => Before(functionLines[i], functionLines[j])
  BY DEF LinesInv
<1>5. ASSUME pcipc \in {"window", "done"}, NEW k \in 0 .. windowIndex - 1,
             ~InvalidForListing(machine.windows[k + 1]),
             NEW p \in OnFirstBus(machine.windows[k + 1])
      PROVE  \E l \in Range(functionLines) : l.window = k /\ PageOf(l) = p
  <2>1. Passed(k, p) /\ Valid(k) /\ k \in 0 .. WindowCount - 1
    BY <1>2, <1>5 DEF Passed, Valid
  <2>2. PICK i \in 1 .. Len(functionLines) :
           functionLines[i].window = k /\ PageOf(functionLines[i]) = p
    BY <1>5, <2>1 DEF LinesInv
  <2>3. functionLines[i] \in Range(functionLines)
    BY <1>2 DEF Range
  <2>4. QED  BY <2>2, <2>3
<1>6. pcipc = "list" => Len(functionLines) = 0
  BY DEF LinesInv
<1>7. QED  BY <1>1, <1>2, <1>3, <1>4, <1>5, <1>6 DEF ListsEveryFunction

\* Behind the last register no declared BAR is left, so the line has them all.
LEMMA BarsAreDeclared == PciInv => BarsAsDeclared
<1> SUFFICES ASSUME PciInv, pcipc = "bars", bar >= BarCount
             PROVE  Last(functionLines).bars = Answering.declared
  BY DEF BarsAsDeclared
<1> USE DEF PciInv
<1>1. PICK f : f = Answering /\ f = machine.functions[ConfigBase]
  BY DEF Answering
<1>2. /\ f.header \in Nat /\ f.bars \in [1 .. 6 -> Nat]
      /\ f.declared \in Seq(Nat \X Nat) /\ WellDeclared(f)
  BY <1>1 DEF PciTypes, WellFormedMachine, Present
<1>3. /\ BarsIn(f) \in 0 .. 6 /\ Len(f.declared) \in Nat
      /\ \A i \in 1 .. Len(f.declared) : f.declared[i][1] \in 0 .. BarsIn(f) - 1
  BY <1>2, DeclaredBars
<1>4. PICK own \in Seq(Nat \X Nat) : own = functionLines[Len(functionLines)].bars
  <2>1. Len(functionLines) \in 1 .. Len(functionLines)
    BY PciTyped DEF BarsInv
  <2>2. QED  BY <2>1, PciTyped DEF Lines
<1>5. /\ Len(own) <= Len(f.declared)
      /\ \A i \in 1 .. Len(own) : own[i] = f.declared[i]
      /\ \A i \in Len(own) + 1 .. Len(f.declared) : f.declared[i][1] >= bar
  BY <1>1, <1>4 DEF BarsInv
<1>6. bar \in Nat /\ bar >= BarsIn(f) /\ Len(own) \in Nat
  BY <1>1, <1>4, LenProperties DEF BarCount, PciTypes
<1>7. Len(own) = Len(f.declared)
  <2>1. SUFFICES ASSUME Len(own) < Len(f.declared) PROVE FALSE
    BY <1>3, <1>5, <1>6
  <2>2. Len(f.declared) \in 1 .. Len(f.declared)
        /\ Len(f.declared) \in Len(own) + 1 .. Len(f.declared)
    BY <1>3, <1>6, <2>1
  <2>3. PICK x \in 0 .. BarsIn(f) - 1 : x = f.declared[Len(f.declared)][1] /\ x >= bar
    BY <1>3, <1>5, <2>2
  <2>4. x >= bar /\ x < BarsIn(f)
    BY <1>3, <2>3
  <2>5. QED  BY <1>3, <1>6, <2>4
<1>8. own = f.declared
  BY <1>2, <1>4, <1>5, <1>7, SeqEqual
<1>9. QED  BY <1>1, <1>4, <1>8 DEF Last

-----------------------------------------------------------------------------
(***************************************************************************)
(* The walk over the SMBIOS table.                                         *)
(***************************************************************************)

\* What SmbiosString may return.
Strings == [what : {"empty", "string", "truncated", "missing"}, at : Nat]

(***************************************************************************)
(* The inductive invariant.  As long as the walk is inside a structure,    *)
(* the four bytes it began with lie in the table, which is what makes its  *)
(* Length a number; once it looks for the next one, it is behind it.       *)
(***************************************************************************)
SmbiosInv ==
    /\ firmware \in Firmwares
    /\ SmbiosTypeOK
    /\ found \in Seq(Strings)
    /\ PointersInside
    /\ pc \in {"string", "skip", "next"} => header + SizeOfStructure <= TableEnd
    /\ pc = "next" => walker >= header + Length
    /\ pc = "enter" => fieldReach = 0

\* The table the walk is in, if any, is all in memory.
LEMMA TableInMemory ==
    ASSUME firmware \in Firmwares
    PROVE  /\ Table.bytes \in Seq(0 .. 255)
           /\ TableEnd \in Nat /\ TableEnd <= Len(Table.bytes)
<1>1. CASE firmware.entry64 # <<>>
  <2>1. Table = firmware.entry64[1]
    BY <1>1 DEF Table
  <2>2. /\ Table.bytes \in Seq(0 .. 255)
        /\ Table.size \in Nat /\ Table.size + Overread <= Len(Table.bytes)
    BY <1>1, <2>1, FirmwaresAssumption
  <2>3. QED  BY <2>2, LenProperties DEF TableEnd, Overread
<1>2. CASE firmware.entry64 = <<>> /\ firmware.entry32 # <<>>
  <2>1. Table = firmware.entry32[1]
    BY <1>2 DEF Table
  <2>2. /\ Table.bytes \in Seq(0 .. 255)
        /\ Table.size \in Nat /\ Table.size + Overread <= Len(Table.bytes)
    BY <1>2, <2>1, FirmwaresAssumption
  <2>3. QED  BY <2>2, LenProperties DEF TableEnd, Overread
<1>3. CASE firmware.entry64 = <<>> /\ firmware.entry32 = <<>>
  <2>1. Table = NoTable
    BY <1>3 DEF Table
  <2>2. Table.bytes = <<>> /\ TableEnd = 0
    BY <2>1 DEF NoTable, TableEnd
  <2>3. QED  BY <2>2
<1>4. QED  BY <1>1, <1>2, <1>3

\* What Append does, by the domain of a sequence.
LEMMA AppendedSequence ==
    ASSUME NEW S, NEW s \in Seq(S), NEW e \in S
    PROVE  /\ Append(s, e) \in Seq(S)
           /\ DOMAIN Append(s, e) = 1 .. Len(s) + 1
           /\ Append(s, e)[Len(s) + 1] = e
           /\ \A i \in DOMAIN s : Append(s, e)[i] = s[i]
           /\ DOMAIN s = 1 .. Len(s) /\ Len(s) \in Nat
OBVIOUS

\* A structure whose first bytes lie in the table has a length.
LEMMA LengthReadable ==
    ASSUME SmbiosInv, header + SizeOfStructure <= TableEnd
    PROVE  Length \in Nat /\ header \in Nat /\ header + SizeOfStructure \in Nat
<1>1. /\ Table.bytes \in Seq(0 .. 255)
      /\ TableEnd \in Nat /\ TableEnd <= Len(Table.bytes)
  BY TableInMemory DEF SmbiosInv
<1>2. header \in Nat
  BY <1>1 DEF SmbiosInv, SmbiosTypeOK
<1>3. header + 2 \in 1 .. Len(Table.bytes)
  BY <1>1, <1>2 DEF SizeOfStructure
<1>4. Table.bytes[header + 2] \in 0 .. 255
  BY <1>1, <1>3, ElementOfSeq
<1>5. Length \in Nat
  <2>1. header + 1 + 1 = header + 2
    BY <1>2
  <2>2. Length = Table.bytes[header + 2]
    BY <2>1 DEF Length, Byte
  <2>3. QED  BY <1>4, <2>2
<1>6. QED  BY <1>2, <1>5 DEF SizeOfStructure

\* What every state of the walk gives the lemmas about its steps.
LEMMA Typed ==
    ASSUME SmbiosInv
    PROVE  /\ TableEnd \in Nat /\ header \in Nat /\ header <= TableEnd
           /\ index \in Nat /\ string \in Nat /\ number \in Nat /\ walker \in Nat
           /\ reach \in Nat /\ reach <= TableEnd
           /\ fieldReach \in Nat /\ fieldReach <= TableEnd + Overread
           /\ found \in Seq(Strings)
<1>1. TableEnd \in Nat
  BY TableInMemory DEF SmbiosInv
<1>2. QED  BY <1>1 DEF SmbiosInv, SmbiosTypeOK, PointersInside, FieldsInside

\* The pointers have been no farther than before, or up to b.
LEMMA ReadUpTo ==
    ASSUME SmbiosInv, NEW b \in Nat, b <= TableEnd
    PROVE  Farther(reach, b) \in Nat /\ Farther(reach, b) <= TableEnd
BY Typed DEF Farther

\* A step leaves the table where it is.
LEMMA SameTable == ASSUME firmware' = firmware PROVE TableEnd' = TableEnd
BY DEF TableEnd, Table

\* A step that stays at its structure keeps that structure's Length.
LEMMA SameLength ==
    ASSUME firmware' = firmware, header' = header
    PROVE  Length' = Length /\ (InTable' <=> InTable)
<1>1. TableEnd' = TableEnd /\ Table' = Table
  BY DEF TableEnd, Table
<1>2. QED  BY <1>1 DEF Length, Byte, InTable

\* The fields of a line lie in the 48 bytes of the longest, and go no farther
\* than four bytes past the Length.
LEMMA FieldsOfLine ==
    ASSUME Printed, Length \in Nat
    PROVE  /\ FieldsEnd \in Nat /\ FieldsEnd <= Overread + SizeOfStructure
           /\ FieldsEnd <= Length + CountsBeyond
<1>1. Type \in {0, 1, 2, 3, 4, 17} /\ Length >= FormattedSize(Type)
  BY DEF Printed
<1>2. CASE Type = 4 /\ HasCoreCount2
  <2>1. FieldsEnd = 48
    BY <1>2 DEF FieldsEnd, CoreCount2
  <2>2. Length >= 44
    BY <1>2 DEF HasCoreCount2, FieldPresent, CoreCount2
  <2>3. QED  BY <2>1, <2>2 DEF Overread, SizeOfStructure, CountsBeyond
<1>3. CASE Type = 4 /\ ~HasCoreCount2 /\ FieldPresent(CoreCount, 1)
  <2>1. FieldsEnd = 38
    BY <1>3 DEF FieldsEnd, CoreCount
  <2>2. Length >= 36
    BY <1>3 DEF FieldPresent, CoreCount
  <2>3. QED  BY <2>1, <2>2 DEF Overread, SizeOfStructure, CountsBeyond
<1>4. CASE ~(Type = 4 /\ HasCoreCount2) /\ ~(Type = 4 /\ ~HasCoreCount2 /\ FieldPresent(CoreCount, 1))
  <2>1. FieldsEnd = FormattedSize(Type)
    BY <1>4 DEF FieldsEnd
  <2>2. FormattedSize(Type) \in {8, 9, 24, 27}
    BY <1>1 DEF FormattedSize
  <2>3. QED  BY <1>1, <2>1, <2>2 DEF Overread, SizeOfStructure, CountsBeyond
<1>5. QED  BY <1>2, <1>3, <1>4

\* At a structure, fields are read that end at an offset e of it.
LEMMA FieldsRead ==
    ASSUME SmbiosInv, pc = "structure", InTable, Length \in Nat,
           firmware' = firmware, header' = header, pc' \in {"string", "next"},
           NEW e \in Nat, e <= Overread + SizeOfStructure, e <= Length + CountsBeyond,
           fieldReach' = Farther(fieldReach, header + e)
    PROVE  fieldReach' \in Nat /\ FieldsInside'
<1>1. /\ TableEnd \in Nat /\ header \in Nat /\ header + SizeOfStructure <= TableEnd
      /\ fieldReach \in Nat /\ fieldReach <= TableEnd
  BY Typed DEF SmbiosInv, PointersInside, FieldsInside, InTable
<1>2. TableEnd' = TableEnd /\ Length' = Length
  BY SameTable, SameLength
<1>3. fieldReach' \in Nat /\ fieldReach' <= TableEnd + Overread
  BY <1>1 DEF Farther, Overread, SizeOfStructure
<1>4. fieldReach' <= Farther(TableEnd, header + Length + CountsBeyond)
  BY <1>1 DEF Farther, CountsBeyond
<1>5. Farther(TableEnd, header + Length + CountsBeyond)'
        = Farther(TableEnd, header + Length + CountsBeyond)
  BY <1>2 DEF Farther
<1>6. QED  BY <1>2, <1>3, <1>4, <1>5 DEF FieldsInside

\* No field is read, and the walk stays at its structure, or is over.
LEMMA FieldsKept ==
    ASSUME SmbiosInv, UNCHANGED <<firmware, header, fieldReach>>,
           \/ pc \in {"string", "skip", "next"} /\ pc' \in {"string", "skip", "next"}
           \/ pc' = "done" \/ pc' = pc
    PROVE  FieldsInside'
<1>1. TableEnd' = TableEnd /\ Length' = Length /\ (InTable' <=> InTable)
  BY SameTable, SameLength
<1>2. Farther(TableEnd, header + Length + CountsBeyond)'
        = Farther(TableEnd, header + Length + CountsBeyond)
  BY <1>1 DEF Farther
<1>3. QED  BY <1>1, <1>2 DEF SmbiosInv, PointersInside, FieldsInside

\* The walk of any firmware starts in the invariant.
LEMMA SmbiosInitEstablishes == SmbiosInit => SmbiosInv
<1> SUFFICES ASSUME SmbiosInit PROVE SmbiosInv
  OBVIOUS
<1>1. TableEnd \in Nat
  BY TableInMemory DEF SmbiosInit, SmbiosCalled
<1>2. FieldsInside
  BY <1>1 DEF SmbiosInit, SmbiosCalled, FieldsInside, Overread
<1>3. QED  BY <1>1, <1>2 DEF SmbiosInit, SmbiosCalled, SmbiosInv, SmbiosTypeOK, PointersInside

\* A step that touches neither structure nor strings.
LEMMA QuietStepPreserves ==
    ASSUME SmbiosInv,
           UNCHANGED <<firmware, header, index, string, number, found>>,
           pc' \in {"enter", "structure", "string", "skip", "next", "done"},
           pc' \in {"string", "skip", "next"} => header + SizeOfStructure <= TableEnd,
           walker' \in Nat, pc' = "next" => walker' >= header + Length,
           reach' \in Nat, reach' <= TableEnd,
           pc' # "enter", fieldReach' \in Nat, FieldsInside'
    PROVE  SmbiosInv'
<1>1. TableEnd' = TableEnd /\ Length' = Length
  BY SameTable, SameLength
<1>2. SmbiosTypeOK' /\ PointersInside'
  BY <1>1 DEF SmbiosInv, SmbiosTypeOK, PointersInside
<1>3. QED  BY <1>1, <1>2 DEF SmbiosInv

LEMMA PrintSmbiosBasicInfoPreserves == SmbiosInv /\ PrintSmbiosBasicInfo => SmbiosInv'
<1> SUFFICES ASSUME SmbiosInv, PrintSmbiosBasicInfo PROVE SmbiosInv'
  OBVIOUS
<1>1. /\ UNCHANGED <<firmware, header, index, string, number, found, walker, reach, fieldReach>>
      /\ pc = "enter" /\ pc' \in {"done", "structure"}
  BY DEF PrintSmbiosBasicInfo, stringvars
<1>2. FieldsInside'
  <2>1. fieldReach' = 0 /\ TableEnd' = TableEnd /\ TableEnd \in Nat
    BY <1>1, SameTable, Typed DEF SmbiosInv
  <2>2. QED  BY <1>1, <2>1 DEF FieldsInside, Overread
<1>3. QED  BY <1>1, <1>2, Typed, QuietStepPreserves

LEMMA PassStructurePreserves == SmbiosInv /\ PassStructure => SmbiosInv'
<1> SUFFICES ASSUME SmbiosInv, PassStructure PROVE SmbiosInv'
  OBVIOUS
<1>1. /\ UNCHANGED <<firmware, header, index, string, number, found>>
      /\ header + SizeOfStructure <= TableEnd
      /\ walker' = header + Length /\ pc' = "next"
      /\ reach' = Farther(reach, header + SizeOfStructure)
  BY DEF PassStructure, stringvars, InTable
<1>2. Length \in Nat /\ header \in Nat /\ header + SizeOfStructure \in Nat
  BY <1>1, LengthReadable
<1>3. reach' \in Nat /\ reach' <= TableEnd
  BY <1>1, <1>2, ReadUpTo
<1>4. walker' \in Nat /\ walker' >= header + Length
  BY <1>1, <1>2
<1>5. fieldReach' \in Nat /\ FieldsInside'
  <2>1. CASE Type = 17 /\ Length >= FormattedSize(17)
    <3>1. fieldReach' = Farther(fieldReach, header + 14)
      <4>1. header + Size + 2 = header + 14
        BY <1>2 DEF Size
      <4>2. QED  BY <2>1, <4>1 DEF PassStructure
    <3>2. 14 <= Length + CountsBeyond /\ 14 <= Overread + SizeOfStructure
      BY <1>2, <2>1 DEF FormattedSize, CountsBeyond, Overread, SizeOfStructure
    <3>3. pc = "structure" /\ InTable
      BY DEF PassStructure
    <3>4. QED  BY <1>1, <1>2, <3>1, <3>2, <3>3, FieldsRead
  <2>2. CASE ~(Type = 17 /\ Length >= FormattedSize(17))
    <3>1. fieldReach' = fieldReach /\ pc = "structure" /\ InTable
      BY <2>2 DEF PassStructure
    <3>2. /\ fieldReach <= TableEnd /\ fieldReach \in Nat /\ TableEnd \in Nat
          /\ fieldReach <= TableEnd + Overread
      BY <3>1, Typed DEF SmbiosInv, PointersInside, FieldsInside
    <3>3. TableEnd' = TableEnd /\ Length' = Length
      BY <1>1, SameTable, SameLength
    <3>4. fieldReach' <= Farther(TableEnd, header + Length + CountsBeyond)'
      BY <1>1, <1>2, <3>1, <3>2, <3>3 DEF Farther, CountsBeyond
    <3>5. QED  BY <1>1, <3>1, <3>2, <3>3, <3>4 DEF FieldsInside
  <2>3. QED  BY <2>1, <2>2
<1>6. QED  BY <1>1, <1>3, <1>4, <1>5, QuietStepPreserves

LEMMA BeginLinePreserves == SmbiosInv /\ BeginLine => SmbiosInv'
<1> SUFFICES ASSUME SmbiosInv, BeginLine PROVE SmbiosInv'
  OBVIOUS
<1>1. /\ UNCHANGED <<firmware, header, index, walker>>
      /\ header + SizeOfStructure <= TableEnd
      /\ found' = <<>> /\ string' = header + Length /\ number' = 1
      /\ pc' = "string"
      /\ reach' = Farther(reach, header + SizeOfStructure)
  BY DEF BeginLine, InTable
<1>2. Length \in Nat /\ header \in Nat /\ header + SizeOfStructure \in Nat
  BY <1>1, LengthReadable
<1>3. reach' \in Nat /\ reach' <= TableEnd
  BY <1>1, <1>2, ReadUpTo
<1>4. TableEnd' = TableEnd
  BY <1>1, SameTable
<1>5. fieldReach' \in Nat /\ FieldsInside'
  <2>1. /\ FieldsEnd \in Nat /\ FieldsEnd <= Overread + SizeOfStructure
        /\ FieldsEnd <= Length + CountsBeyond
    BY <1>2, FieldsOfLine DEF BeginLine
  <2>2. fieldReach' = Farther(fieldReach, header + FieldsEnd) /\ pc = "structure" /\ InTable
    BY DEF BeginLine
  <2>3. QED  BY <1>1, <1>2, <2>1, <2>2, FieldsRead
<1>6. SmbiosTypeOK'
  BY <1>1, <1>2, <1>3, <1>4, <1>5 DEF SmbiosInv, SmbiosTypeOK
<1>7. found' \in Seq(Strings) /\ PointersInside'
  BY <1>1, <1>3, <1>4, <1>5 DEF PointersInside
<1>8. QED  BY <1>1, <1>4, <1>6, <1>7 DEF SmbiosInv

LEMMA EndWalkPreserves == SmbiosInv /\ EndWalk => SmbiosInv'
<1> SUFFICES ASSUME SmbiosInv, EndWalk PROVE SmbiosInv'
  OBVIOUS
<1>1. /\ UNCHANGED <<firmware, header, index, string, number, found, walker, fieldReach>>
      /\ pc' = "done"
      /\ reach' = IF InTable THEN Farther(reach, header + SizeOfStructure) ELSE reach
  BY DEF EndWalk, stringvars
<1>2. reach' \in Nat /\ reach' <= TableEnd
  <2>1. CASE InTable
    <3>1. header + SizeOfStructure \in Nat /\ header + SizeOfStructure <= TableEnd
      BY <2>1, LengthReadable DEF InTable
    <3>2. QED  BY <1>1, <2>1, <3>1, ReadUpTo
  <2>2. CASE ~InTable
    BY <1>1, <2>2, Typed
  <2>3. QED  BY <2>1, <2>2
<1>3. FieldsInside'
  BY <1>1, FieldsKept
<1>4. QED  BY <1>1, <1>2, <1>3, Typed, QuietStepPreserves

\* What SmbiosString returns is a string of the table, or says that there is
\* none.
LEMMA AnswerInside ==
    ASSUME SmbiosInv
    PROVE  /\ Answer \in Strings
           /\ Answer.what = "string" => Answer.at < TableEnd
<1>1. string \in Nat
  BY Typed
<1>2. CASE Head(wanted) = 0
  BY <1>2 DEF Answer, Strings
<1>3. CASE Head(wanted) # 0 /\ AtString
  <2>1. Answer = [what |-> "string", at |-> string]
    BY <1>3 DEF Answer
  <2>2. string < TableEnd
    BY <1>3 DEF AtString
  <2>3. QED  BY <1>1, <2>1, <2>2 DEF Strings
<1>4. CASE Head(wanted) # 0 /\ ~AtString /\ string >= TableEnd
  BY <1>4 DEF Answer, Strings
<1>5. CASE Head(wanted) # 0 /\ ~AtString /\ ~(string >= TableEnd)
  BY <1>5 DEF Answer, Strings
<1>6. QED  BY <1>2, <1>3, <1>4, <1>5

LEMMA SmbiosStringPreserves == SmbiosInv /\ SmbiosString => SmbiosInv'
<1> SUFFICES ASSUME SmbiosInv, SmbiosString PROVE SmbiosInv'
  OBVIOUS
<1>1. /\ UNCHANGED <<firmware, pc, header, index, walker, fieldReach>>
      /\ pc = "string"
      /\ found' = Append(found, Answer)
      /\ string' = header + Length /\ number' = 1
      /\ reach' = IF Head(wanted) # 0 /\ string < TableEnd
                  THEN Farther(reach, string + 1) ELSE reach
  BY DEF SmbiosString
<1>2. header + SizeOfStructure <= TableEnd
  BY <1>1 DEF SmbiosInv
<1>3. Length \in Nat /\ header \in Nat
  BY <1>2, LengthReadable
<1>4. reach' \in Nat /\ reach' <= TableEnd
  <2>1. CASE Head(wanted) # 0 /\ string < TableEnd
    <3>1. string + 1 \in Nat /\ string + 1 <= TableEnd
      BY <2>1, Typed
    <3>2. QED  BY <1>1, <2>1, <3>1, ReadUpTo
  <2>2. CASE ~(Head(wanted) # 0 /\ string < TableEnd)
    BY <1>1, <2>2, Typed
  <2>3. QED  BY <2>1, <2>2
<1>5. TableEnd' = TableEnd
  BY <1>1, SameTable
<1>6. SmbiosTypeOK'
  BY <1>1, <1>3, <1>4, <1>5 DEF SmbiosInv, SmbiosTypeOK
<1>7. found' \in Seq(Strings)
  BY <1>1, Typed, AnswerInside, AppendedSequence
<1>8. PointersInside'
  <2> SUFFICES ASSUME NEW i \in DOMAIN found', found'[i].what = "string"
               PROVE  found'[i].at < TableEnd
    BY <1>1, <1>4, <1>5, FieldsKept DEF PointersInside
  <2>1. /\ DOMAIN found' = 1 .. Len(found) + 1
        /\ found'[Len(found) + 1] = Answer
        /\ \A j \in DOMAIN found : found'[j] = found[j]
        /\ DOMAIN found = 1 .. Len(found) /\ Len(found) \in Nat
    BY <1>1, Typed, AnswerInside, AppendedSequence
  <2>2. CASE i = Len(found) + 1
    BY <2>1, <2>2, AnswerInside
  <2>3. CASE i \in DOMAIN found
    BY <2>1, <2>3 DEF SmbiosInv, PointersInside
  <2>4. QED  BY <2>1, <2>2, <2>3
<1>9. QED  BY <1>1, <1>2, <1>5, <1>6, <1>7, <1>8 DEF SmbiosInv

LEMMA PassStringPreserves == SmbiosInv /\ PassString => SmbiosInv'
<1> SUFFICES ASSUME SmbiosInv, PassString PROVE SmbiosInv'
  OBVIOUS
<1>1. /\ UNCHANGED <<firmware, header, index, string, number, found, walker, fieldReach>>
      /\ pc = "string" /\ pc' = "skip" /\ string < TableEnd
      /\ reach' = Farther(reach, string + 1)
  BY DEF PassString, stringvars, AtString
<1>2. reach' \in Nat /\ reach' <= TableEnd
  <2>1. string + 1 \in Nat /\ string + 1 <= TableEnd
    BY <1>1, Typed
  <2>2. QED  BY <1>1, <2>1, ReadUpTo
<1>3. header + SizeOfStructure <= TableEnd
  BY <1>1 DEF SmbiosInv
<1>4. FieldsInside'
  BY <1>1, FieldsKept
<1>5. QED  BY <1>1, <1>2, <1>3, <1>4, Typed, QuietStepPreserves

\* A pointer moves on inside the strings.
LEMMA StringStepPreserves ==
    ASSUME SmbiosInv, UNCHANGED <<firmware, header, index, found, walker, fieldReach>>,
           pc \in {"string", "skip"}, pc' \in {"string", "skip"},
           string' \in Nat, number' \in Nat, reach' \in Nat, reach' <= TableEnd
    PROVE  SmbiosInv'
<1>1. TableEnd' = TableEnd /\ FieldsInside'
  BY SameTable, FieldsKept
<1>2. SmbiosTypeOK' /\ PointersInside'
  BY <1>1 DEF SmbiosInv, SmbiosTypeOK, PointersInside
<1>3. QED  BY <1>1, <1>2 DEF SmbiosInv

LEMMA PassBytePreserves == SmbiosInv /\ PassByte => SmbiosInv'
<1> SUFFICES ASSUME SmbiosInv, PassByte PROVE SmbiosInv'
  OBVIOUS
<1>1. /\ UNCHANGED <<firmware, pc, header, index, number, found, walker, fieldReach>>
      /\ pc = "skip" /\ string < TableEnd /\ string' = string + 1
      /\ reach' = Farther(reach, string + 1)
  BY DEF PassByte, AtString
<1>2. reach' \in Nat /\ reach' <= TableEnd /\ string' \in Nat /\ number' \in Nat
  <2>1. string + 1 \in Nat /\ string + 1 <= TableEnd
    BY <1>1, Typed
  <2>2. QED  BY <1>1, <2>1, Typed, ReadUpTo
<1>3. QED  BY <1>1, <1>2, StringStepPreserves

LEMMA PassTerminatorPreserves == SmbiosInv /\ PassTerminator => SmbiosInv'
<1> SUFFICES ASSUME SmbiosInv, PassTerminator PROVE SmbiosInv'
  OBVIOUS
<1>1. /\ UNCHANGED <<firmware, header, index, found, walker, fieldReach>>
      /\ pc = "skip" /\ pc' = "string" /\ number' = number + 1
      /\ string' = IF string < TableEnd THEN string + 1 ELSE string
      /\ reach' = IF string < TableEnd THEN Farther(reach, string + 1) ELSE reach
  BY DEF PassTerminator
<1>2. reach' \in Nat /\ reach' <= TableEnd
  <2>1. CASE string < TableEnd
    <3>1. string + 1 \in Nat /\ string + 1 <= TableEnd
      BY <2>1, Typed
    <3>2. QED  BY <1>1, <2>1, <3>1, ReadUpTo
  <2>2. CASE ~(string < TableEnd)
    BY <1>1, <2>2, Typed
  <2>3. QED  BY <2>1, <2>2
<1>3. string' \in Nat /\ number' \in Nat
  BY <1>1, Typed
<1>4. QED  BY <1>1, <1>2, <1>3, StringStepPreserves

LEMMA PrintLinePreserves == SmbiosInv /\ PrintLine => SmbiosInv'
<1> SUFFICES ASSUME SmbiosInv, PrintLine PROVE SmbiosInv'
  OBVIOUS
<1>1. /\ UNCHANGED <<firmware, header, index, string, number, found, reach, fieldReach>>
      /\ pc = "string" /\ pc' = "next" /\ walker' = header + Length
  BY DEF PrintLine, stringvars
<1>2. header + SizeOfStructure <= TableEnd
  BY <1>1 DEF SmbiosInv
<1>3. Length \in Nat /\ header \in Nat
  BY <1>2, LengthReadable
<1>4. walker' \in Nat /\ walker' >= header + Length
  BY <1>1, <1>3
<1>5. FieldsInside'
  BY <1>1, FieldsKept
<1>6. QED  BY <1>1, <1>2, <1>4, <1>5, Typed, QuietStepPreserves

LEMMA WalkOnPreserves == SmbiosInv /\ WalkOn => SmbiosInv'
<1> SUFFICES ASSUME SmbiosInv, WalkOn PROVE SmbiosInv'
  OBVIOUS
<1>1. /\ UNCHANGED <<firmware, pc, header, index, string, number, found, fieldReach>>
      /\ pc = "next" /\ walker + 1 < TableEnd /\ walker' = walker + 1
      /\ reach' = Farther(reach, walker + 2)
  BY DEF WalkOn, stringvars
<1>2. /\ header + SizeOfStructure <= TableEnd /\ walker >= header + Length
      /\ Length \in Nat /\ header \in Nat
  BY <1>1, LengthReadable DEF SmbiosInv
<1>3. reach' \in Nat /\ reach' <= TableEnd
  <2>1. walker + 2 \in Nat /\ walker + 2 <= TableEnd
    BY <1>1, Typed
  <2>2. QED  BY <1>1, <2>1, ReadUpTo
<1>4. walker' \in Nat /\ walker' >= header + Length
  BY <1>1, <1>2, Typed
<1>5. FieldsInside'
  BY <1>1, FieldsKept
<1>6. QED  BY <1>1, <1>2, <1>3, <1>4, <1>5, Typed, QuietStepPreserves

\* The next structure begins behind this one, in the table or at its end.
LEMMA NextStructureIsFarther ==
    ASSUME SmbiosInv, NextSmbiosStructure
    PROVE  /\ header' \in 0 .. TableEnd /\ header' > header
           /\ header + SizeOfStructure <= TableEnd
<1>1. /\ pc = "next"
      /\ header' = IF walker + 1 < TableEnd THEN walker + 2 ELSE TableEnd
  BY DEF NextSmbiosStructure
<1>2. /\ header + SizeOfStructure <= TableEnd /\ walker >= header + Length
      /\ Length \in Nat /\ header \in Nat
  BY <1>1, LengthReadable DEF SmbiosInv
<1>3. QED  BY <1>1, <1>2, Typed DEF SizeOfStructure

LEMMA NextSmbiosStructurePreserves == SmbiosInv /\ NextSmbiosStructure => SmbiosInv'
<1> SUFFICES ASSUME SmbiosInv, NextSmbiosStructure PROVE SmbiosInv'
  OBVIOUS
<1>1. /\ UNCHANGED <<firmware, string, number, found, walker, fieldReach>>
      /\ pc = "next" /\ pc' = "structure" /\ index' = index + 1
      /\ reach' = Farther(reach, IF walker + 1 < TableEnd THEN walker + 2 ELSE 0)
  BY DEF NextSmbiosStructure, stringvars
<1>2. reach' \in Nat /\ reach' <= TableEnd
  <2>1. CASE walker + 1 < TableEnd
    <3>1. walker + 2 \in Nat /\ walker + 2 <= TableEnd
      BY <2>1, Typed
    <3>2. QED  BY <1>1, <2>1, <3>1, ReadUpTo
  <2>2. CASE ~(walker + 1 < TableEnd)
    <3>1. 0 \in Nat /\ 0 <= TableEnd
      BY Typed
    <3>2. QED  BY <1>1, <2>2, <3>1, ReadUpTo
  <2>3. QED  BY <2>1, <2>2
<1>3. TableEnd' = TableEnd
  BY <1>1, SameTable
<1>4. SmbiosTypeOK'
  BY <1>1, <1>2, <1>3, NextStructureIsFarther DEF SmbiosInv, SmbiosTypeOK
<1>5. FieldsInside'
  <2>1. fieldReach' \in Nat /\ fieldReach' <= TableEnd + Overread /\ TableEnd \in Nat
    BY <1>1, Typed
  <2>2. InTable' => fieldReach' <= TableEnd
    <3> SUFFICES ASSUME header' + SizeOfStructure <= TableEnd PROVE fieldReach' <= TableEnd
      BY <1>3 DEF InTable
    <3>1. /\ header' = IF walker + 1 < TableEnd THEN walker + 2 ELSE TableEnd
          /\ fieldReach <= Farther(TableEnd, header + Length + CountsBeyond)
          /\ walker >= header + Length /\ header + SizeOfStructure <= TableEnd
      BY <1>1 DEF NextSmbiosStructure, SmbiosInv, PointersInside, FieldsInside
    <3>2. Length \in Nat /\ header \in Nat
      BY <3>1, LengthReadable
    <3>3. header' = walker + 2
      BY <2>1, <3>1 DEF SizeOfStructure
    <3>4. header + Length + CountsBeyond <= TableEnd
      BY <2>1, <3>1, <3>2, <3>3, Typed DEF SizeOfStructure, CountsBeyond
    <3>5. fieldReach <= TableEnd
      BY <2>1, <3>1, <3>2, <3>4, Typed DEF Farther, CountsBeyond
    <3>6. QED  BY <1>1, <3>5
  <2>3. QED  BY <1>1, <1>3, <2>1, <2>2 DEF FieldsInside
<1>6. PointersInside'
  BY <1>1, <1>2, <1>3, <1>5 DEF SmbiosInv, PointersInside
<1>7. QED  BY <1>1, <1>3, <1>4, <1>6 DEF SmbiosInv

\* A step of the walk, or another part's turn.
LEMMA SmbiosNextPreserves == SmbiosInv /\ [SmbiosNext]_svars => SmbiosInv'
<1> SUFFICES ASSUME SmbiosInv, [SmbiosNext]_svars PROVE SmbiosInv'
  OBVIOUS
<1>1. CASE UNCHANGED svars
  <2>1. UNCHANGED <<firmware, pc, header, index, string, number, found, walker, reach, fieldReach>>
    BY <1>1 DEF svars, stringvars
  <2>2. TableEnd' = TableEnd /\ Length' = Length /\ FieldsInside'
    BY <2>1, SameTable, SameLength, FieldsKept
  <2>3. SmbiosTypeOK' /\ PointersInside'
    BY <2>1, <2>2 DEF SmbiosInv, SmbiosTypeOK, PointersInside
  <2>4. QED  BY <2>1, <2>2, <2>3 DEF SmbiosInv
<1>2. QED
  BY <1>1, PrintSmbiosBasicInfoPreserves, PassStructurePreserves, BeginLinePreserves,
     EndWalkPreserves, SmbiosStringPreserves, PassStringPreserves, PassBytePreserves,
     PassTerminatorPreserves, PrintLinePreserves, WalkOnPreserves,
     NextSmbiosStructurePreserves DEF SmbiosNext

\* The invariant of the walk, for every firmware.
LEMMA SmbiosInvariant == SmbiosSpec => []SmbiosInv
BY SmbiosInitEstablishes, SmbiosNextPreserves, PTL DEF SmbiosSpec

\* The walk keeps its types over any table: Header never leaves it.
THEOREM SmbiosTypeCorrect == SmbiosSpec => []SmbiosTypeOK
<1>1. SmbiosInv => SmbiosTypeOK  BY DEF SmbiosInv
<1>2. QED  BY <1>1, SmbiosInvariant, PTL

\* Whatever bytes the firmware left in the table, truncated or unterminated,
\* no pointer of the walk reads past its end and every string begins inside;
\* of the fields of the last structure, which Smbios.c holds against Length
\* only, at most 44 bytes behind the table are read.
THEOREM SmbiosPointersInside == SmbiosSpec => []PointersInside
<1>1. SmbiosInv => PointersInside  BY DEF SmbiosInv
<1>2. QED  BY <1>1, SmbiosInvariant, PTL

\* PrintSmbiosTable is a walk over a table: it looks at a structure only if
\* the four bytes every structure begins with lie in the table, and every
\* structure lies behind the one before.
THEOREM SmbiosStaysInTable == SmbiosSpec => StaysInTable
<1>1. SmbiosInit => Walk!WalkInit
  <2> SUFFICES ASSUME SmbiosInit PROVE Walk!WalkInit
    OBVIOUS
  <2>1. TableEnd \in Nat
    BY TableInMemory DEF SmbiosInit, SmbiosCalled
  <2>2. QED  BY <2>1 DEF SmbiosInit, SmbiosCalled, Walk!WalkInit
<1>2. SmbiosInv /\ [SmbiosNext]_svars => [Walk!WalkNext]_Walk!walkvars
  <2> SUFFICES ASSUME SmbiosInv, [SmbiosNext]_svars
               PROVE  [Walk!WalkNext]_Walk!walkvars
    OBVIOUS
  <2>1. firmware' = firmware /\ TableEnd' = TableEnd
    <3>1. firmware' = firmware
      BY DEF SmbiosNext, svars, PrintSmbiosBasicInfo, PassStructure, BeginLine, EndWalk,
         SmbiosString, PassString, PassByte, PassTerminator, PrintLine, WalkOn,
         NextSmbiosStructure
    <3>2. QED  BY <3>1, SameTable
  <2>2. CASE NextSmbiosStructure
    <3>1. pc = "next" /\ pc' = "structure"
      BY <2>2 DEF NextSmbiosStructure
    <3>2. Walk!Visit
      BY <2>1, <2>2, <3>1, NextStructureIsFarther DEF Walk!Visit
    <3>3. QED  BY <3>2 DEF Walk!WalkNext
  <2>3. CASE EndWalk \/ PrintSmbiosBasicInfo
    <3>1. header' = header /\ pc # "done"
      BY <2>3 DEF EndWalk, PrintSmbiosBasicInfo
    <3>2. QED  BY <2>1, <3>1 DEF Walk!WalkNext, Walk!Stop, Walk!walkvars
  <2>4. CASE \/ PassStructure \/ BeginLine \/ SmbiosString \/ PassString \/ PassByte
             \/ PassTerminator \/ PrintLine \/ WalkOn
    <3>1. header' = header /\ pc # "done" /\ pc' # "done"
      BY <2>4 DEF PassStructure, BeginLine, SmbiosString, PassString, PassByte,
         PassTerminator, PrintLine, WalkOn
    <3>2. QED  BY <2>1, <3>1 DEF Walk!walkvars
  <2>5. CASE UNCHANGED svars
    BY <2>1, <2>5 DEF svars, Walk!walkvars
  <2>6. QED  BY <2>2, <2>3, <2>4, <2>5 DEF SmbiosNext
<1>3. QED  BY <1>1, <1>2, SmbiosInvariant, PTL DEF SmbiosSpec, StaysInTable, Walk!WalkSpec

(***************************************************************************)
(* What is printed of a table the firmware wrote: where the terminators    *)
(* of its strings are, what the walk reads at a structure, and that each   *)
(* step keeps the place of the walk, the lines and the line at hand.       *)
(***************************************************************************)

\* A sequence of numbers that never falls rises from any place to any later.
LEMMA NeverFalls ==
    ASSUME NEW f, NEW n \in Nat, \A k \in 0 .. n : f[k] \in Nat,
           \A k \in 0 .. n - 1 : f[k] <= f[k + 1]
    PROVE  \A k, l \in 0 .. n : k <= l => f[k] <= f[l]
<1> DEFINE Far == {d \in Nat : \A k \in 0 .. n : k + d <= n => f[k] <= f[k + d]}
<1>1. 0 \in Far
  <2>1. \A k \in 0 .. n : k + 0 = k /\ f[k] <= f[k]  OBVIOUS
  <2>2. QED  BY <2>1
<1>2. ASSUME NEW d \in Nat, d \in Far PROVE d + 1 \in Far
  <2> SUFFICES ASSUME NEW k \in 0 .. n, k + (d + 1) <= n PROVE f[k] <= f[k + (d + 1)]
    OBVIOUS
  <2>1. f[k] <= f[k + d]
    BY <1>2
  <2>2. k + d \in 0 .. n - 1 /\ (k + d) + 1 = k + (d + 1) /\ k + (d + 1) \in 0 .. n /\ k + d \in 0 .. n
    OBVIOUS
  <2>3. f[k + d] <= f[k + (d + 1)]
    BY <2>2
  <2>4. QED  BY <2>1, <2>2, <2>3
<1>3. Nat \subseteq Far
  <2> HIDE DEF Far
  <2>1. QED  BY <1>1, <1>2, Induction
<1>4. SUFFICES ASSUME NEW k \in 0 .. n, NEW l \in 0 .. n, k <= l PROVE f[k] <= f[l]
  OBVIOUS
<1>5. l - k \in Nat /\ k + (l - k) = l
  BY <1>4
<1>6. l - k \in Far
  <2> HIDE DEF Far
  <2>1. QED  BY <1>3, <1>5
<1>7. k + (l - k) <= n => f[k] <= f[k + (l - k)]
  BY <1>6
<1>8. QED  BY <1>4, <1>5, <1>7

\* A table of which the memory holds what the firmware wrote.
SoundTable(t, count) ==
    /\ t.bytes \in Seq(0 .. 255)
    /\ t.size \in Nat /\ t.size <= Len(t.bytes)
    /\ WrittenTable(t, count)

\* What is written of structure i of a table.
IsStructure(t, i, s) == i \in DOMAIN t.structures /\ s = t.structures[i]

\* The fields of a structure, as numbers and sequences of them.
LEMMA StructureTyped ==
    ASSUME NEW t, NEW count, NEW i, NEW s, SoundTable(t, count), IsStructure(t, i, s)
    PROVE  /\ i \in Nat \ {0} /\ i <= Len(t.structures) /\ Len(t.structures) \in Nat
           /\ s.at \in Nat /\ s.type \in 0 .. 255 /\ s.length \in Nat /\ s.length >= 4
           /\ Len(s.texts) \in Nat /\ DOMAIN s.texts = 1 .. Len(s.texts)
           /\ Len(s.strings) = Len(s.texts) + 1
           /\ \A k \in 1 .. Len(s.texts) + 1 : s.strings[k] \in Nat
           /\ \A k \in DOMAIN s.texts :
                 /\ s.texts[k] \in Seq(1 .. 255) /\ Len(s.texts[k]) \in Nat \ {0}
                 /\ s.strings[k + 1] = s.strings[k] + Len(s.texts[k]) + 1
           /\ s.at = EndOfStructure(t, i - 1)
           /\ s.strings[1] = s.at + s.length
           /\ EndOfStructure(t, i) = s.strings[Len(s.texts) + 1] + IF s.texts = <<>> THEN 2 ELSE 1
           /\ EndOfStructure(t, i) \in Nat
           /\ ByteOf(t, s.at) = s.type /\ ByteOf(t, s.at + 1) = s.length
           /\ StringsWritten(t, s)
<1>1. /\ t.structures \in Seq(WrittenStructures) /\ i \in DOMAIN t.structures
      /\ s = t.structures[i]
      /\ s.at = EndOfStructure(t, i - 1)
      /\ ByteOf(t, s.at) = s.type /\ ByteOf(t, s.at + 1) = s.length
      /\ s.length >= 4
      /\ StringsWritten(t, s)
  BY DEF SoundTable, WrittenTable, IsStructure, SizeOfStructure
<1>2. i \in Nat \ {0} /\ i <= Len(t.structures) /\ Len(t.structures) \in Nat /\ s \in WrittenStructures
  BY <1>1
<1>3. /\ s.at \in Nat /\ s.type \in 0 .. 255 /\ s.length \in Nat /\ s.length >= 4
      /\ s.texts \in Seq(Seq(1 .. 255) \ {<<>>}) /\ s.strings \in Seq(Nat)
  <2>1. s.at \in Nat /\ s.type \in 0 .. 255 /\ s.length \in 0 .. 255
    BY <1>2 DEF WrittenStructures
  <2>2. s.texts \in Seq(Seq(1 .. 255) \ {<<>>})
    BY <1>2, Zenon DEF WrittenStructures
  <2>3. s.strings \in Seq(Nat)
    BY <1>2, Zenon DEF WrittenStructures
  <2>4. s.length >= 4
    BY <1>1
  <2>5. s.length \in Nat
    BY <2>1
  <2>6. QED  BY <2>1, <2>2, <2>3, <2>4, <2>5
<1>4. Len(s.texts) \in Nat /\ DOMAIN s.texts = 1 .. Len(s.texts)
  BY <1>3
<1>5. /\ Len(s.strings) = Len(s.texts) + 1
      /\ s.strings[1] = s.at + s.length
      /\ \A k \in DOMAIN s.texts : s.strings[k + 1] = s.strings[k] + Len(s.texts[k]) + 1
  BY <1>1 DEF StringsWritten
<1>6. \A k \in 1 .. Len(s.texts) + 1 : s.strings[k] \in Nat
  <2> SUFFICES ASSUME NEW k \in 1 .. Len(s.texts) + 1 PROVE s.strings[k] \in Nat
    OBVIOUS
  <2>1. k \in 1 .. Len(s.strings)
    BY <1>5
  <2>2. QED  BY <1>3, <2>1, ElementOfSeq
<1>7. ASSUME NEW k \in DOMAIN s.texts
      PROVE  s.texts[k] \in Seq(1 .. 255) /\ Len(s.texts[k]) \in Nat \ {0}
  <2>1. s.texts[k] \in Seq(1 .. 255) \ {<<>>}
    BY <1>3
  <2>2. QED  BY <2>1, EmptySeq
<1>8. EndOfStructure(t, i) = s.strings[Len(s.texts) + 1] + IF s.texts = <<>> THEN 2 ELSE 1
  BY <1>1, <1>2 DEF EndOfStructure
<1>9. EndOfStructure(t, i) \in Nat
  BY <1>4, <1>6, <1>8
<1>10. QED  BY <1>1, <1>2, <1>3, <1>4, <1>5, <1>6, <1>7, <1>8, <1>9

\* The strings of a structure lie one behind the other.
LEMMA StringsRise ==
    ASSUME NEW t, NEW count, NEW i, NEW s, SoundTable(t, count), IsStructure(t, i, s)
    PROVE  \A k, l \in 1 .. Len(s.texts) + 1 : k <= l => s.strings[k] <= s.strings[l]
<1> DEFINE n == Len(s.texts)
           f == [k \in 0 .. n |-> s.strings[k + 1]]
<1>1. /\ n \in Nat /\ DOMAIN s.texts = 1 .. n
      /\ \A k \in 1 .. n + 1 : s.strings[k] \in Nat
      /\ \A k \in 1 .. n : /\ Len(s.texts[k]) \in Nat
                           /\ s.strings[k + 1] = s.strings[k] + Len(s.texts[k]) + 1
  BY StructureTyped
<1>2. \A k \in 0 .. n : f[k] \in Nat
  BY <1>1
<1>3. ASSUME NEW k \in 0 .. n - 1 PROVE f[k] <= f[k + 1]
  <2>1. k + 1 \in 1 .. n /\ k + 1 \in 0 .. n /\ k \in 0 .. n
    BY <1>1
  <2>2. /\ s.strings[k + 1] \in Nat /\ Len(s.texts[k + 1]) \in Nat
        /\ s.strings[(k + 1) + 1] = s.strings[k + 1] + Len(s.texts[k + 1]) + 1
    BY <1>1, <2>1
  <2>3. f[k] = s.strings[k + 1] /\ f[k + 1] = s.strings[(k + 1) + 1]
    BY <2>1
  <2>4. QED  BY <2>2, <2>3
<1>4. \A k, l \in 0 .. n : k <= l => f[k] <= f[l]
  <2> HIDE DEF f
  <2>1. QED  BY <1>1, <1>2, <1>3, NeverFalls
<1>5. ASSUME NEW k \in 1 .. n + 1, NEW l \in 1 .. n + 1, k <= l
      PROVE  s.strings[k] <= s.strings[l]
  <2>1. k - 1 \in 0 .. n /\ l - 1 \in 0 .. n /\ k - 1 <= l - 1 /\ (k - 1) + 1 = k /\ (l - 1) + 1 = l
    BY <1>1, <1>5
  <2>2. f[k - 1] = s.strings[k] /\ f[l - 1] = s.strings[l]
    BY <2>1
  <2>3. QED  BY <1>4, <2>1, <2>2
<1>6. QED  BY <1>5

\* Behind the formatted area there are two bytes at least.
LEMMA StructureHasRoom ==
    ASSUME NEW t, NEW count, NEW i, NEW s, SoundTable(t, count), IsStructure(t, i, s)
    PROVE  s.at + s.length + 2 <= EndOfStructure(t, i)
<1>1. CASE s.texts = <<>>
  <2>1. Len(s.texts) + 1 = 1
    BY <1>1
  <2>2. QED  BY <1>1, <2>1, StructureTyped
<1>2. CASE s.texts # <<>>
  <2> DEFINE n == Len(s.texts)
  <2>1. n \in Nat \ {0}
    BY <1>2, StructureTyped, EmptySeq
  <2>2. s.strings[1] <= s.strings[n] /\ s.strings[n] \in Nat /\ s.strings[1] \in Nat
    BY <2>1, StringsRise, StructureTyped
  <2>3. n \in DOMAIN s.texts
    BY <2>1, StructureTyped
  <2>4. s.strings[n + 1] = s.strings[n] + Len(s.texts[n]) + 1 /\ Len(s.texts[n]) \in Nat \ {0}
    BY <2>3, StructureTyped
  <2>5. EndOfStructure(t, i) = s.strings[n + 1] + 1 /\ s.strings[1] = s.at + s.length
    BY <1>2, StructureTyped
  <2>6. s.at \in Nat /\ s.length \in Nat
    BY StructureTyped
  <2> DEFINE first == s.strings[1]
             last == s.strings[n]
             m == Len(s.texts[n])
             end == EndOfStructure(t, i)
  <2>7. /\ first <= last /\ last \in Nat /\ m \in Nat \ {0} /\ first = s.at + s.length
        /\ end = (last + m + 1) + 1
    BY <2>2, <2>4, <2>5
  <2> HIDE DEF n, first, last, m, end
  <2>8. s.at + s.length + 2 <= end
    BY <2>6, <2>7
  <2>9. QED  BY <2>8 DEF end
<1>3. QED  BY <1>1, <1>2

\* The structures lie one behind the other, the last at the end of the table.
LEMMA StructuresRise ==
    ASSUME NEW t, NEW count, SoundTable(t, count)
    PROVE  /\ Len(t.structures) \in Nat /\ DOMAIN t.structures = 1 .. Len(t.structures)
           /\ \A i \in 0 .. Len(t.structures) :
                 EndOfStructure(t, i) \in Nat /\ EndOfStructure(t, i) <= t.size
<1> DEFINE n == Len(t.structures)
           f == [i \in 0 .. n |-> EndOfStructure(t, i)]
<1>1. n \in Nat /\ DOMAIN t.structures = 1 .. n /\ t.size = EndOfStructure(t, n)
  BY DEF SoundTable, WrittenTable
<1>2. ASSUME NEW i \in 0 .. n PROVE f[i] \in Nat
  <2>1. CASE i = 0
    BY <2>1 DEF EndOfStructure
  <2>2. CASE i # 0
    <3>1. IsStructure(t, i, t.structures[i])
      BY <1>1, <2>2 DEF IsStructure
    <3>2. QED  BY <3>1, StructureTyped
  <2>3. QED  BY <2>1, <2>2
<1>3. ASSUME NEW i \in 0 .. n - 1 PROVE f[i] <= f[i + 1]
  <2> DEFINE s == t.structures[i + 1]
  <2>1. IsStructure(t, i + 1, s) /\ (i + 1) - 1 = i
    BY <1>1 DEF IsStructure
  <2>2. s.at + s.length + 2 <= EndOfStructure(t, i + 1)
    BY <2>1, StructureHasRoom
  <2>3. /\ s.at \in Nat /\ s.length \in Nat /\ s.at = EndOfStructure(t, (i + 1) - 1)
        /\ EndOfStructure(t, i + 1) \in Nat
    <3> HIDE DEF s, f
    <3>1. QED  BY <2>1, StructureTyped
  <2>4. f[i] = EndOfStructure(t, i) /\ f[i + 1] = EndOfStructure(t, i + 1)
    BY <1>1
  <2> HIDE DEF s, f
  <2>5. QED  BY <2>1, <2>2, <2>3, <2>4
<1>4. \A i, j \in 0 .. n : i <= j => f[i] <= f[j]
  <2> HIDE DEF f
  <2>1. QED  BY <1>1, <1>2, <1>3, NeverFalls
<1>5. ASSUME NEW i \in 0 .. n PROVE EndOfStructure(t, i) \in Nat /\ EndOfStructure(t, i) <= t.size
  <2>1. n \in 0 .. n /\ i <= n
    BY <1>1
  <2>2. f[i] <= f[n] /\ f[i] \in Nat
    <3> HIDE DEF f
    <3>1. QED  BY <1>2, <1>4, <2>1
  <2>3. f[i] = EndOfStructure(t, i) /\ f[n] = EndOfStructure(t, n)
    BY <2>1
  <2>4. QED  BY <1>1, <2>2, <2>3
<1>6. QED  BY <1>1, <1>5

\* The bytes of a string, of its terminator and of the terminator of the set.
LEMMA StringBytes ==
    ASSUME NEW t, NEW count, NEW i, NEW s, SoundTable(t, count), IsStructure(t, i, s)
    PROVE  /\ \A k \in DOMAIN s.texts :
                 /\ \A p \in s.strings[k] .. s.strings[k + 1] - 2 : ByteOf(t, p) # 0
                 /\ ByteOf(t, s.strings[k + 1] - 1) = 0
           /\ ByteOf(t, s.strings[Len(s.texts) + 1]) = 0
           /\ s.texts = <<>> => ByteOf(t, s.strings[1] + 1) = 0
<1>1. StringsWritten(t, s) /\ Len(s.strings) = Len(s.texts) + 1
  BY StructureTyped
<1>2. ASSUME NEW k \in DOMAIN s.texts, NEW p \in s.strings[k] .. s.strings[k + 1] - 2
      PROVE  ByteOf(t, p) # 0
  <2>1. Len(s.texts[k]) \in Nat /\ s.strings[k + 1] = s.strings[k] + Len(s.texts[k]) + 1
    BY StructureTyped
  <2>2. k \in 1 .. Len(s.texts) + 1 /\ s.strings[k] \in Nat
    <3>1. Len(s.texts) \in Nat /\ DOMAIN s.texts = 1 .. Len(s.texts)
      BY StructureTyped
    <3>2. k \in 1 .. Len(s.texts) + 1
      BY <3>1
    <3>3. QED  BY <3>2, StructureTyped
  <2> DEFINE j == p - s.strings[k] + 1
  <2>3. p \in Nat /\ s.strings[k] <= p /\ p <= s.strings[k] + Len(s.texts[k]) - 1
    <3> DEFINE a == s.strings[k]
               m == Len(s.texts[k])
    <3>1. a \in Nat /\ m \in Nat /\ p \in a .. (a + m + 1) - 2
      BY <2>1, <2>2
    <3> HIDE DEF a, m
    <3>2. p \in Nat /\ a <= p /\ p <= a + m - 1
      BY <3>1
    <3>3. QED  BY <3>2 DEF a, m
  <2>4. j \in 1 .. Len(s.texts[k]) /\ s.strings[k] + j - 1 = p
    <3> DEFINE a == s.strings[k]
               m == Len(s.texts[k])
    <3>1. a \in Nat /\ m \in Nat /\ a <= p /\ p <= a + m - 1 /\ p \in Nat
      BY <2>1, <2>2, <2>3
    <3> HIDE DEF a, m
    <3>2. p - a + 1 \in 1 .. m /\ a + (p - a + 1) - 1 = p
      BY <3>1
    <3>3. QED  BY <3>2 DEF a, m
  <2> HIDE DEF j
  <2>5. s.texts[k] \in Seq(1 .. 255)
    BY StructureTyped
  <2>6. j \in DOMAIN s.texts[k] /\ s.texts[k][j] \in 1 .. 255
    BY <2>4, <2>5, ElementOfSeq
  <2>7. ByteOf(t, s.strings[k] + j - 1) = s.texts[k][j]
    BY <1>1, <2>6 DEF StringsWritten
  <2>8. ByteOf(t, p) \in 1 .. 255
    BY <2>4, <2>6, <2>7
  <2>9. QED  BY <2>8
<1>3. QED  BY <1>1, <1>2 DEF StringsWritten

\* A place among the strings is in one of them.
LEMMA InSomeString ==
    ASSUME NEW t, NEW count, NEW i, NEW s, SoundTable(t, count), IsStructure(t, i, s),
           NEW p \in Nat, s.strings[1] <= p, p < s.strings[Len(s.texts) + 1]
    PROVE  \E k \in DOMAIN s.texts : s.strings[k] <= p /\ p <= s.strings[k + 1] - 1
<1> DEFINE n == Len(s.texts)
           Behind == {k \in 1 .. n + 1 : p < s.strings[k]}
<1>1. n \in Nat /\ DOMAIN s.texts = 1 .. n /\ \A k \in 1 .. n + 1 : s.strings[k] \in Nat
  BY StructureTyped
<1>2. Behind \subseteq Nat /\ n + 1 \in Behind
  BY <1>1
<1>3. PICK k \in Behind : \A l \in Behind : k <= l
  <2> HIDE DEF Behind
  <2>1. QED  BY <1>2, LeastElement
<1>4. k # 1
  BY <1>1, <1>3
<1>5. k - 1 \in 1 .. n /\ (k - 1) + 1 = k /\ k - 1 \in 1 .. n + 1 /\ ~(k <= k - 1)
  BY <1>1, <1>3, <1>4
<1>6. ~(p < s.strings[k - 1])
  BY <1>3, <1>5
<1>7. p < s.strings[k] /\ s.strings[k] \in Nat /\ s.strings[k - 1] \in Nat
  BY <1>1, <1>3, <1>5
<1>8. s.strings[k - 1] <= p /\ p <= s.strings[k] - 1
  BY <1>6, <1>7
<1>9. k - 1 \in DOMAIN s.texts /\ s.strings[(k - 1) + 1] = s.strings[k]
  BY <1>1, <1>5
<1>10. QED  BY <1>8, <1>9

\* NextSmbiosStructure stops at the two terminators that end the structure and
\* nowhere before.
LEMMA OnlyOneDoubleTerminator ==
    ASSUME NEW t, NEW count, NEW i, NEW s, SoundTable(t, count), IsStructure(t, i, s),
           NEW p \in Nat, s.at + s.length <= p, p <= EndOfStructure(t, i) - 2
    PROVE  ByteOf(t, p) = 0 /\ ByteOf(t, p + 1) = 0 <=> p = EndOfStructure(t, i) - 2
<1> DEFINE n == Len(s.texts)
           end == EndOfStructure(t, i)
<1>1. /\ n \in Nat /\ DOMAIN s.texts = 1 .. n /\ \A k \in 1 .. n + 1 : s.strings[k] \in Nat
      /\ s.strings[1] = s.at + s.length
      /\ end = s.strings[n + 1] + IF s.texts = <<>> THEN 2 ELSE 1
      /\ end \in Nat
  BY StructureTyped
<1>2. CASE s.texts = <<>>
  <2>1. n + 1 = 1
    BY <1>2
  <2>2. p = s.strings[1] /\ p = end - 2
    <3> DEFINE a == s.strings[1]
    <3>1. a = s.strings[n + 1] /\ n + 1 \in 1 .. n + 1
      BY <1>1, <2>1
    <3>2. a \in Nat /\ end = a + 2 /\ a <= p /\ p <= end - 2
      BY <1>1, <1>2, <3>1
    <3> HIDE DEF a, n, end
    <3>3. p = a /\ p = end - 2
      BY <3>2
    <3>4. QED  BY <3>3 DEF a
  <2>3. ByteOf(t, p) = 0 /\ ByteOf(t, p + 1) = 0
    <3>1. ByteOf(t, s.strings[n + 1]) = 0 /\ ByteOf(t, s.strings[1] + 1) = 0
      BY <1>2, StringBytes
    <3> HIDE DEF n
    <3>2. QED  BY <2>1, <2>2, <3>1
  <2>4. QED  BY <2>2, <2>3
<1>3. CASE s.texts # <<>> /\ p = end - 2
  <2>1. n \in 1 .. n
    <3>1. n # 0
      BY <1>3, StructureTyped, EmptySeq
    <3>2. QED  BY <1>1, <3>1
  <2>2. end - 2 = s.strings[n + 1] - 1 /\ (end - 2) + 1 = s.strings[n + 1]
    <3>1. end = s.strings[n + 1] + 1 /\ n + 1 \in 1 .. n + 1
      BY <1>1, <1>3
    <3>2. s.strings[n + 1] \in Nat
      BY <1>1, <3>1
    <3> HIDE DEF n, end
    <3>3. QED  BY <3>1, <3>2
  <2>3. ByteOf(t, s.strings[n + 1] - 1) = 0 /\ ByteOf(t, s.strings[n + 1]) = 0
    BY <1>1, <2>1, StringBytes
  <2>4. QED  BY <1>3, <2>2, <2>3
<1>4. CASE s.texts # <<>> /\ p # end - 2
  <2>1. /\ p < s.strings[n + 1] - 1 /\ s.strings[n + 1] \in Nat
        /\ p < s.strings[n + 1] /\ s.strings[1] <= p
    <3>1. end = s.strings[n + 1] + 1 /\ n + 1 \in 1 .. n + 1 /\ p <= end - 2 /\ s.strings[1] <= p
      BY <1>1, <1>4
    <3>2. s.strings[n + 1] \in Nat
      BY <1>1, <3>1
    <3> HIDE DEF n, end
    <3>3. QED  BY <1>4, <3>1, <3>2
  <2>2. PICK k \in DOMAIN s.texts : s.strings[k] <= p /\ p <= s.strings[k + 1] - 1
    BY <2>1, InSomeString
  <2>3. k \in 1 .. n /\ k \in 1 .. n + 1 /\ k + 1 \in 1 .. n + 1
    BY <1>1
  <2>4. s.strings[k] \in Nat /\ s.strings[k + 1] \in Nat
    BY <1>1, <2>3
  <2>5. CASE p <= s.strings[k + 1] - 2
    <3>1. p \in s.strings[k] .. s.strings[k + 1] - 2
      BY <2>2, <2>4, <2>5
    <3>2. ByteOf(t, p) # 0
      BY <3>1, StringBytes
    <3>3. QED  BY <1>4, <3>2
  <2>6. CASE p = s.strings[k + 1] - 1
    <3>1. k # n
      BY <2>1, <2>6
    <3>2. k + 1 \in DOMAIN s.texts /\ k + 1 \in 1 .. n
      BY <1>1, <2>3, <3>1
    <3>3. /\ s.strings[(k + 1) + 1] = s.strings[k + 1] + Len(s.texts[k + 1]) + 1
          /\ Len(s.texts[k + 1]) \in Nat \ {0}
      <4> DEFINE l == k + 1
      <4>1. l \in DOMAIN s.texts
        BY <3>2
      <4> HIDE DEF l
      <4>2. s.strings[l + 1] = s.strings[l] + Len(s.texts[l]) + 1 /\ Len(s.texts[l]) \in Nat \ {0}
        BY <4>1, StructureTyped
      <4>3. QED  BY <4>2 DEF l
    <3>4. p + 1 \in s.strings[k + 1] .. s.strings[(k + 1) + 1] - 2
      <4> DEFINE a == s.strings[k + 1]
                 b == s.strings[(k + 1) + 1]
                 m == Len(s.texts[k + 1])
      <4>1. a \in Nat /\ p = a - 1 /\ b = a + m + 1 /\ m \in Nat \ {0}
        BY <2>4, <2>6, <3>3
      <4> HIDE DEF a, b, m
      <4>2. p + 1 \in a .. b - 2
        BY <4>1
      <4>3. QED  BY <4>2 DEF a, b
    <3>5. ByteOf(t, p + 1) # 0
      BY <3>2, <3>4, StringBytes
    <3>6. QED  BY <1>4, <3>5
  <2>7. QED  BY <2>2, <2>4, <2>5, <2>6
<1>5. QED  BY <1>2, <1>3, <1>4

\* Where the strings of a structure lie.
LEMMA StringsInTable ==
    ASSUME NEW t, NEW count, NEW i, NEW s, SoundTable(t, count), IsStructure(t, i, s)
    PROVE  /\ \A k \in 1 .. Len(s.texts) + 1 :
                 /\ s.strings[k] \in Nat
                 /\ s.at + s.length <= s.strings[k]
                 /\ s.strings[k] < EndOfStructure(t, i)
           /\ EndOfStructure(t, i) \in Nat /\ EndOfStructure(t, i) <= t.size
           /\ t.size \in Nat /\ t.size <= Len(t.bytes)
<1>1. EndOfStructure(t, i) \in Nat /\ EndOfStructure(t, i) <= t.size
  <2>1. i \in 0 .. Len(t.structures)
    BY StructureTyped
  <2>2. QED  BY <2>1, StructuresRise
<1>2. ASSUME NEW k \in 1 .. Len(s.texts) + 1
      PROVE  /\ s.strings[k] \in Nat
             /\ s.at + s.length <= s.strings[k]
             /\ s.strings[k] < EndOfStructure(t, i)
  <2> DEFINE n == Len(s.texts)
  <2>1. n \in Nat /\ 1 \in 1 .. n + 1 /\ n + 1 \in 1 .. n + 1 /\ 1 <= k /\ k <= n + 1
    BY StructureTyped
  <2>2. s.strings[1] <= s.strings[k] /\ s.strings[k] <= s.strings[n + 1]
    BY <2>1, StringsRise
  <2>3. s.strings[k] \in Nat /\ s.strings[n + 1] \in Nat /\ s.strings[1] \in Nat
    BY <2>1, StructureTyped
  <2>4. /\ s.strings[1] = s.at + s.length
        /\ EndOfStructure(t, i) = s.strings[n + 1] + IF s.texts = <<>> THEN 2 ELSE 1
    BY StructureTyped
  <2>5. s.strings[n + 1] < EndOfStructure(t, i)
    BY <2>3, <2>4
  <2> HIDE DEF n
  <2>6. QED  BY <1>1, <2>2, <2>3, <2>4, <2>5
<1>3. QED  BY <1>1, <1>2 DEF SoundTable

\* Print finds at the place of a string its text.
LEMMA TextFound ==
    ASSUME NEW t, NEW count, NEW i, NEW s, SoundTable(t, count), IsStructure(t, i, s),
           NEW k \in DOMAIN s.texts
    PROVE  TextAt(t, s.strings[k]) = s.texts[k]
<1> DEFINE a == s.strings[k]
           m == Len(s.texts[k])
           Ends(e) == /\ e = Len(t.bytes) \/ ByteOf(t, e) = 0
                      /\ \A b \in a .. e - 1 : ByteOf(t, b) # 0
<1>1. /\ s.texts[k] \in Seq(1 .. 255) /\ m \in Nat
      /\ s.strings[k + 1] = a + m + 1
  BY StructureTyped
<1>2. k \in 1 .. Len(s.texts) + 1 /\ k + 1 \in 1 .. Len(s.texts) + 1
  <2>1. Len(s.texts) \in Nat /\ DOMAIN s.texts = 1 .. Len(s.texts)
    BY StructureTyped
  <2>2. QED  BY <2>1
<1>3. a \in Nat /\ a + m + 1 <= Len(t.bytes) /\ Len(t.bytes) \in Nat
  <2>1. a \in Nat /\ s.strings[k + 1] < EndOfStructure(t, i)
    BY <1>2, StringsInTable
  <2>2. EndOfStructure(t, i) \in Nat /\ EndOfStructure(t, i) <= t.size /\ t.size <= Len(t.bytes) /\ t.size \in Nat
    BY StringsInTable
  <2>3. Len(t.bytes) \in Nat
    BY DEF SoundTable
  <2>4. QED  BY <1>1, <2>1, <2>2, <2>3
<1>4. /\ \A b \in a .. (a + m) - 1 : ByteOf(t, b) # 0
      /\ ByteOf(t, a + m) = 0
  <2>1. /\ \A b \in a .. s.strings[k + 1] - 2 : ByteOf(t, b) # 0
        /\ ByteOf(t, s.strings[k + 1] - 1) = 0
    BY StringBytes
  <2>2. s.strings[k + 1] - 2 = (a + m) - 1 /\ s.strings[k + 1] - 1 = a + m
    BY <1>1, <1>3
  <2>3. QED  BY <2>1, <2>2
<1>5. \A e \in a .. Len(t.bytes) : Ends(e) <=> e = a + m
  <2> SUFFICES ASSUME NEW e \in a .. Len(t.bytes) PROVE Ends(e) <=> e = a + m
    OBVIOUS
  <2>1. CASE e = a + m
    BY <1>4, <2>1
  <2>2. CASE e < a + m
    <3>1. e \in a .. (a + m) - 1 /\ e # Len(t.bytes)
      BY <1>1, <1>3, <2>2
    <3>2. QED  BY <1>4, <2>2, <3>1
  <2>3. CASE e > a + m
    <3>1. a + m \in a .. e - 1
      BY <1>1, <1>3, <2>3
    <3>2. QED  BY <1>4, <2>3, <3>1
  <2>4. QED  BY <1>1, <1>3, <2>1, <2>2, <2>3
<1>6. a + m \in a .. Len(t.bytes)
  BY <1>1, <1>3
<1>7. (CHOOSE e \in a .. Len(t.bytes) : Ends(e)) = a + m
  BY <1>5, <1>6
<1>8. TextAt(t, a) = SubSeq(t.bytes, a + 1, a + m)
  BY <1>7 DEF TextAt
<1>9. SubSeq(t.bytes, a + 1, a + m) = s.texts[k]
  <2> DEFINE u == SubSeq(t.bytes, a + 1, a + m)
  <2>1. t.bytes \in Seq(0 .. 255)
    BY DEF SoundTable
  <2>2. /\ u \in Seq(0 .. 255) /\ Len(u) = m
        /\ \A j \in 1 .. m : u[j] = t.bytes[a + j]
    <3> DEFINE b == a + 1
               c == a + m
    <3>1. b \in Int /\ c \in Int /\ b \in Nat \ {0} /\ c <= Len(t.bytes) /\ c - b + 1 = m
      <4>1. a \in Nat /\ m \in Nat /\ a + m + 1 <= Len(t.bytes) /\ Len(t.bytes) \in Nat
        BY <1>1, <1>3
      <4> HIDE DEF a, m
      <4>2. QED  BY <4>1
    <3>2. \A j \in b .. c : j \in 1 .. Len(t.bytes)
      <4> HIDE DEF b, c
      <4>1. QED  BY <1>3, <3>1
    <3>3. \A j \in b .. c : t.bytes[j] \in 0 .. 255
      <4> HIDE DEF b, c
      <4>1. QED  BY <2>1, <3>2, ElementOfSeq
    <3>4. /\ SubSeq(t.bytes, b, c) \in Seq(0 .. 255)
          /\ Len(SubSeq(t.bytes, b, c)) = IF b <= c THEN c - b + 1 ELSE 0
          /\ \A j \in 1 .. c - b + 1 : SubSeq(t.bytes, b, c)[j] = t.bytes[b + j - 1]
      <4> HIDE DEF b, c
      <4>1. QED  BY <3>1, <3>3, SubSeqProperties
    <3>5. (IF b <= c THEN c - b + 1 ELSE 0) = m
      <4>1. a \in Nat /\ m \in Nat
        BY <1>1, <1>3
      <4> HIDE DEF a, m
      <4>2. QED  BY <4>1
    <3>6. \A j \in 1 .. m : b + j - 1 = a + j
      <4>1. a \in Nat /\ m \in Nat
        BY <1>1, <1>3
      <4> HIDE DEF a, m
      <4>2. QED  BY <4>1
    <3>7. u = SubSeq(t.bytes, b, c)
      OBVIOUS
    <3> HIDE DEF b, c, u, a, m
    <3>8. QED  BY <3>1, <3>4, <3>5, <3>6, <3>7
  <2>3. ASSUME NEW j \in 1 .. m PROVE u[j] = s.texts[k][j]
    <3>1. ByteOf(t, s.strings[k] + j - 1) = s.texts[k][j]
      BY <1>1, StructureTyped DEF StringsWritten
    <3>2. s.strings[k] + j - 1 + 1 = a + j
      BY <1>1, <1>3
    <3> HIDE DEF u
    <3>3. QED  BY <2>2, <3>1, <3>2 DEF ByteOf
  <2>4. s.texts[k] \in Seq(0 .. 255)
    BY <1>1
  <2> HIDE DEF u
  <2>5. u = s.texts[k]
    BY <2>2, <2>3, <2>4, SeqEqual
  <2>6. QED  BY <2>5 DEF u
<1>10. QED  BY <1>8, <1>9

\* A number of KB makes its number of MB.
LEMMA KbToMb ==
    ASSUME NEW x \in Nat, NEW m \in Nat, 1024 * m <= x, x < 1024 * (m + 1)
    PROVE  x \div 1024 = m
OBVIOUS

\* The formatted area is in memory.
LEMMA BytesInMemory ==
    ASSUME NEW t, NEW count, NEW i, NEW s, SoundTable(t, count), IsStructure(t, i, s),
           NEW n \in Nat, n < s.length
    PROVE  ByteOf(t, s.at + n) \in 0 .. 255
<1>1. /\ s.at \in Nat /\ s.length \in Nat
      /\ s.at + s.length + 2 <= EndOfStructure(t, i)
      /\ EndOfStructure(t, i) \in Nat /\ EndOfStructure(t, i) <= t.size
      /\ t.size \in Nat /\ t.size <= Len(t.bytes)
  <2>1. s.at \in Nat /\ s.length \in Nat
    BY StructureTyped
  <2>2. /\ EndOfStructure(t, i) \in Nat /\ EndOfStructure(t, i) <= t.size
        /\ t.size \in Nat /\ t.size <= Len(t.bytes)
    BY StringsInTable
  <2>3. QED  BY <2>1, <2>2, StructureHasRoom
<1>2. t.bytes \in Seq(0 .. 255) /\ Len(t.bytes) \in Nat
  BY DEF SoundTable
<1>3. s.at + n + 1 \in 1 .. Len(t.bytes)
  BY <1>1, <1>2
<1>4. t.bytes[s.at + n + 1] \in 0 .. 255
  BY <1>2, <1>3, ElementOfSeq
<1>5. QED  BY <1>4 DEF ByteOf

\* A line shows the numbers the firmware wrote.
LEMMA CountsRead ==
    ASSUME NEW t, NEW count, NEW i, NEW s, SoundTable(t, count), IsStructure(t, i, s),
           Table = t, header = s.at, s.type = 4, CountsWritten(t, s)
    PROVE  ProcessorCounts = s.numbers
<1>1. Length = s.length /\ s.length \in Nat /\ s.at \in Nat
  <2>1. ByteOf(t, s.at + 1) = s.length /\ s.length \in Nat /\ s.at \in Nat
    BY StructureTyped
  <2>2. QED  BY <2>1 DEF Length, Byte, ByteOf
<1>2. /\ s.numbers \in Seq(Nat) /\ Len(s.numbers) = 3
      /\ s.numbers[1] \in Nat
      /\ s.numbers = [j \in 1 .. 3 |-> s.numbers[j]]
  <2>1. s.numbers \in Seq(Nat) /\ Len(s.numbers) = 3
    <3>1. s \in WrittenStructures
      BY DEF SoundTable, WrittenTable, IsStructure
    <3>2. s.numbers \in Seq(Nat)
      BY <3>1, Zenon DEF WrittenStructures
    <3>3. QED  BY <3>2 DEF CountsWritten
  <2>2. \A f \in Seq(Nat) : Len(f) = 3 => f[1] \in Nat /\ f = [j \in 1 .. 3 |-> f[j]]
    <3> SUFFICES ASSUME NEW f \in Seq(Nat), Len(f) = 3
                 PROVE  f[1] \in Nat /\ f = [j \in 1 .. 3 |-> f[j]]
      OBVIOUS
    <3>1. f[1] \in Nat
      <4>1. 1 \in 1 .. Len(f)
        OBVIOUS
      <4>2. QED  BY <4>1, ElementOfSeq
    <3>2. f \in [1 .. Len(f) -> Nat]
      BY LenProperties
    <3>3. QED  BY <3>1, <3>2
  <2>3. QED  BY <2>1, <2>2, Zenon
<1>3. CASE s.length < 36
  <2>1. ~FieldPresent(CoreCount, 1)
    BY <1>1, <1>3 DEF FieldPresent, CoreCount
  <2>2. QED  BY <1>3, <2>1 DEF ProcessorCounts, CountsWritten
<1>4. CASE s.length >= 36 /\ (s.length < 44 \/ s.numbers[1] < 255)
  <2>1. FieldPresent(CoreCount, 1)
    BY <1>1, <1>4 DEF FieldPresent, CoreCount
  <2>2. \A j \in 1 .. 3 : Byte(header + CoreCount + j - 1) = s.numbers[j]
    BY <1>4 DEF CountsWritten, Byte, ByteOf
  <2>3. ~HasCoreCount2
    <3>1. CASE s.length < 44
      BY <1>1, <3>1 DEF HasCoreCount2, FieldPresent, CoreCount2
    <3>2. CASE s.numbers[1] < 255
      <4>1. Byte(header + CoreCount + 1 - 1) = s.numbers[1]
        BY <2>2
      <4>2. header + CoreCount + 1 - 1 = header + CoreCount
        BY <1>1 DEF CoreCount
      <4>3. QED  BY <1>2, <3>2, <4>1, <4>2 DEF HasCoreCount2
    <3>3. QED  BY <1>4, <3>1, <3>2
  <2>4. ProcessorCounts = [j \in 1 .. 3 |-> Byte(header + CoreCount + j - 1)]
    BY <2>1, <2>3 DEF ProcessorCounts
  <2>5. QED  BY <1>2, <2>2, <2>4
<1>5. CASE s.length >= 44 /\ s.numbers[1] >= 255
  <2>1. FieldPresent(CoreCount, 1) /\ FieldPresent(CoreCount2, 2)
    BY <1>1, <1>5 DEF FieldPresent, CoreCount, CoreCount2
  <2>2. /\ Byte(header + CoreCount) = 255
        /\ \A j \in 1 .. 3 : Word(header + CoreCount2 + 2 * (j - 1)) = s.numbers[j]
    BY <1>5 DEF CountsWritten, Byte, Word, ByteOf, WordOf
  <2>3. ProcessorCounts = [j \in 1 .. 3 |-> Word(header + CoreCount2 + 2 * (j - 1))]
    BY <2>1, <2>2 DEF ProcessorCounts, HasCoreCount2
  <2>4. QED  BY <1>2, <2>2, <2>3
<1>6. QED  BY <1>1, <1>2, <1>3, <1>4, <1>5

\* The size of a memory device is read as it was written.
LEMMA SizeRead ==
    ASSUME NEW t, NEW count, NEW i, NEW s, SoundTable(t, count), IsStructure(t, i, s),
           Table = t, header = s.at, s.length >= 27, SizeWritten(t, s)
    PROVE  s.numbers = <<MemoryDeviceSizeMb>>
<1> DEFINE w == WordOf(t, s.at + Size)
           m == s.numbers[1]
<1>1. /\ Len(s.numbers) = 1
      /\ w < 32768 \/ w = 65535 => m = w
      /\ w >= 32768 /\ w # 65535 => 1024 * m <= w - 32768 /\ w - 32768 < 1024 * (m + 1)
  BY DEF SizeWritten
<1>2. m \in Nat /\ s.numbers = <<m>>
  <2>1. s \in WrittenStructures
    BY DEF SoundTable, WrittenTable, IsStructure
  <2>2. s.numbers \in Seq(Nat)
    BY <2>1, Zenon DEF WrittenStructures
  <2>3. QED  BY <1>1, <2>2
<1>3. w \in Nat
  <2> DEFINE low == ByteOf(t, s.at + Size)
             high == ByteOf(t, s.at + (Size + 1))
  <2>1. s.length \in Nat /\ s.at \in Nat
    BY StructureTyped
  <2>2. Size \in Nat /\ Size + 1 \in Nat /\ Size < s.length /\ Size + 1 < s.length
    BY <2>1 DEF Size
  <2>3. low \in 0 .. 255 /\ high \in 0 .. 255
    <3>1. low \in 0 .. 255
      BY <2>2, BytesInMemory
    <3>2. high \in 0 .. 255
      BY <2>2, BytesInMemory
    <3>3. QED  BY <3>1, <3>2
  <2>4. s.at + (Size + 1) = (s.at + Size) + 1
    BY <2>1, <2>2
  <2>5. w = low + 256 * high
    BY <2>4 DEF WordOf
  <2> HIDE DEF low, high, w
  <2>6. QED  BY <2>3, <2>5
<1>4. Word(header + Size) = w
  BY DEF Word, Byte, WordOf, ByteOf
<1>5. MemoryDeviceSizeMb = IF w # 65535 /\ w >= 32768 THEN (w - 32768) \div 1024 ELSE w
  <2> HIDE DEF w
  <2>1. QED  BY <1>4 DEF MemoryDeviceSizeMb
<1> HIDE DEF w, m
<1>6. CASE w < 32768 \/ w = 65535
  <2>1. ~(w # 65535 /\ w >= 32768)
    BY <1>3, <1>6
  <2>2. MemoryDeviceSizeMb = w
    BY <1>5, <2>1
  <2>3. QED  BY <1>1, <1>2, <1>6, <2>2
<1>7. CASE ~(w < 32768 \/ w = 65535)
  <2>1. w - 32768 \in Nat /\ w >= 32768 /\ w # 65535
    BY <1>3, <1>7
  <2>2. 1024 * m <= w - 32768 /\ w - 32768 < 1024 * (m + 1)
    BY <1>1, <2>1
  <2>3. (w - 32768) \div 1024 = m
    BY <1>2, <2>1, <2>2, KbToMb
  <2>4. MemoryDeviceSizeMb = (w - 32768) \div 1024
    BY <1>5, <2>1
  <2>5. QED  BY <1>2, <2>3, <2>4
<1>8. QED  BY <1>6, <1>7

\* What the walk reads at a structure is what the firmware wrote there.
LEMMA StructureRead ==
    ASSUME NEW t, NEW count, NEW i, NEW s, SoundTable(t, count), IsStructure(t, i, s),
           Table = t, header = s.at
    PROVE  /\ Type = s.type /\ Length = s.length
           /\ Printed <=> Shown(s) /\ (s.type = 17 => s.numbers # <<0>>)
           /\ Shown(s) => /\ Numbers = s.numbers
                          /\ [j \in DOMAIN StringFields(Type) |->
                                Byte(header + StringFields(Type)[j])] = s.names
<1>1. /\ Type = s.type /\ Length = s.length /\ s.at \in Nat
      /\ s.type \in 0 .. 255 /\ s.length \in Nat
  <2>1. /\ ByteOf(t, s.at) = s.type /\ ByteOf(t, s.at + 1) = s.length
        /\ s.at \in Nat /\ s.type \in 0 .. 255 /\ s.length \in Nat
    BY StructureTyped
  <2>2. QED  BY <2>1 DEF Type, Length, Byte, ByteOf
<1>2. CASE ~Shown(s)
  BY <1>1, <1>2 DEF Printed, Shown
<1>3. CASE Shown(s)
  <2>1. FieldsWritten(t, s)
    BY <1>3 DEF SoundTable, WrittenTable, IsStructure
  <2>2. s.names \in Seq(0 .. 255)
    <3>1. s \in WrittenStructures
      BY DEF SoundTable, WrittenTable, IsStructure
    <3>2. QED  BY <3>1, Zenon DEF WrittenStructures
  <2>3. [j \in DOMAIN StringFields(Type) |-> Byte(header + StringFields(Type)[j])] = s.names
    <3>1. /\ DOMAIN s.names = DOMAIN StringFields(s.type)
          /\ \A j \in DOMAIN s.names : Byte(header + StringFields(s.type)[j]) = s.names[j]
      BY <2>1 DEF FieldsWritten, Byte, ByteOf
    <3>2. s.names = [j \in DOMAIN s.names |-> s.names[j]]
      BY <2>2
    <3>3. QED  BY <1>1, <3>1, <3>2
  <2>4. CASE s.type = 4
    <3>1. CountsWritten(t, s)
      BY <2>1, <2>4 DEF FieldsWritten
    <3>2. Numbers = s.numbers
      BY <1>1, <2>4, <3>1, CountsRead DEF Numbers
    <3>3. QED  BY <1>1, <1>3, <2>3, <2>4, <3>2 DEF Printed, Shown
  <2>5. CASE s.type = 17
    <3>1. SizeWritten(t, s) /\ s.length >= 27
      BY <1>3, <2>1, <2>5 DEF FieldsWritten, Shown, FormattedSize
    <3>2. s.numbers = <<MemoryDeviceSizeMb>>
      BY <3>1, SizeRead
    <3>3. Numbers = s.numbers
      BY <1>1, <2>5, <3>2 DEF Numbers
    <3>4. MemoryDeviceSizeMb # 0 <=> s.numbers # <<0>>
      BY <3>2
    <3>5. QED  BY <1>1, <1>3, <2>3, <2>5, <3>3, <3>4 DEF Printed, Shown
  <2>6. CASE s.type \notin {4, 17}
    <3>1. s.numbers = <<>>
      BY <2>1, <2>6 DEF FieldsWritten
    <3>2. Numbers = s.numbers
      BY <1>1, <2>6, <3>1 DEF Numbers
    <3>3. QED  BY <1>1, <1>3, <2>3, <2>6, <3>2 DEF Printed, Shown
  <2>7. QED  BY <2>4, <2>5, <2>6
<1>4. QED  BY <1>2, <1>3

\* The lines of the listing.
PrintedLines == [type : 0 .. 255, strings : Seq(Strings), numbers : Seq(Nat)]

\* The number of structures the walk has dealt with, and the one it is at.
PassedBy == IF pc = "next" THEN index + 1 ELSE index
AtHand == Table.structures[index + 1]

\* Over a table the firmware wrote, the walk stands at the beginning of a
\* structure or behind its formatted area, and has met no reason to stop.
PlaceInv ==
    /\ index \in 0 .. Len(Table.structures)
    /\ header = EndOfStructure(Table, index)
    /\ pc \in {"string", "skip", "next"} => index < Len(Table.structures)
    /\ \A j \in 1 .. PassedBy : /\ Table.structures[j].type # EndOfTableMark
                                /\ StructureCount = 0 \/ j <= StructureCount
    /\ pc = "next" => /\ AtHand.at + AtHand.length <= walker
                      /\ walker <= EndOfStructure(Table, index + 1) - 2

\* What has been printed is what the firmware wrote of those passed.
PrintedInv ==
    /\ lines \in Seq(PrintedLines)
    /\ Len(lines) <= Len(Table.printed)
    /\ \A k \in DOMAIN Table.printed : Table.printed[k] <= PassedBy <=> k <= Len(lines)
    /\ \A k \in 1 .. Len(lines) : Says(Table, lines[k], Table.structures[Table.printed[k]])
    /\ pc = "done" => Len(lines) = Len(Table.printed)

\* The line at hand has the first of its strings, and the search for the next
\* one is at the string its number says.
LineInv ==
    LET s == AtHand
    IN  /\ \E k \in DOMAIN Table.printed : Table.printed[k] = index + 1
        /\ wanted \in Seq(0 .. 255)
        /\ Len(found) + Len(wanted) = Len(s.names)
        /\ \A i \in 1 .. Len(wanted) : wanted[i] = s.names[Len(found) + i]
        /\ \A i \in 1 .. Len(found) : Reading(Table, found[i]) = Named(s, s.names[i])
        /\ number \in 1 .. Len(s.texts) + 1
        /\ wanted # <<>> /\ wanted[1] # 0 => number <= wanted[1]
        /\ pc = "string" => string = s.strings[number]
        /\ pc = "skip" => /\ wanted # <<>> /\ number < wanted[1] /\ number <= Len(s.texts)
                          /\ s.strings[number] <= string
                          /\ string <= s.strings[number + 1] - 1

\* The strengthening of PrintsWhatWasWritten.
WrittenInv ==
    Table.formed => /\ PlaceInv /\ PrintedInv
                    /\ pc \in {"string", "skip"} => LineInv

\* What a table that is called well formed holds.
LEMMA FormedIsSound ==
    ASSUME firmware \in Firmwares, Table.formed
    PROVE  SoundTable(Table, StructureCount)
<1>1. /\ Table.bytes \in Seq(0 .. 255)
      /\ Table.size \in Nat /\ Table.size <= Len(Table.bytes)
  BY TableInMemory DEF TableEnd
<1>2. WrittenTable(Table, StructureCount)
  <2>1. CASE firmware.entry64 # <<>>
    <3>1. Table = firmware.entry64[1] /\ StructureCount = 0
      BY <2>1 DEF Table, StructureCount
    <3>2. QED  BY <2>1, <3>1, WrittenAssumption
  <2>2. CASE firmware.entry64 = <<>> /\ firmware.entry32 # <<>>
    <3>1. Table = firmware.entry32[1] /\ StructureCount = firmware.entry32[1].count
      BY <2>2 DEF Table, StructureCount
    <3>2. QED  BY <2>2, <3>1, WrittenAssumption
  <2>3. CASE firmware.entry64 = <<>> /\ firmware.entry32 = <<>>
    <3>1. Table = NoTable
      BY <2>3 DEF Table
    <3>2. QED  BY <3>1 DEF NoTable
  <2>4. QED  BY <2>1, <2>2, <2>3
<1>3. QED  BY <1>1, <1>2 DEF SoundTable

\* The table is where firmware says.
LEMMA TableStays ==
    ASSUME firmware' = firmware
    PROVE  Table' = Table /\ StructureCount' = StructureCount /\ TableEnd' = TableEnd
BY DEF Table, StructureCount, TableEnd

\* The structure at hand.
LEMMA HereItIs ==
    ASSUME SmbiosInv, Table.formed, PlaceInv, index < Len(Table.structures)
    PROVE  /\ SoundTable(Table, StructureCount)
           /\ IsStructure(Table, index + 1, AtHand)
           /\ header = AtHand.at /\ AtHand.at \in Nat
           /\ Type = AtHand.type /\ Length = AtHand.length
           /\ AtHand.length \in Nat /\ AtHand.length >= 4
           /\ AtHand.at + AtHand.length + 2 <= EndOfStructure(Table, index + 1)
           /\ EndOfStructure(Table, index + 1) <= TableEnd
           /\ EndOfStructure(Table, index + 1) \in Nat /\ TableEnd \in Nat
           /\ Printed <=> Shown(AtHand) /\ (AtHand.type = 17 => AtHand.numbers # <<0>>)
<1>1. SoundTable(Table, StructureCount)
  BY FormedIsSound DEF SmbiosInv
<1>2. index \in Nat /\ index + 1 \in 1 .. Len(Table.structures) /\ (index + 1) - 1 = index
  <2>1. Len(Table.structures) \in Nat
    BY <1>1, StructuresRise
  <2>2. QED  BY <2>1 DEF PlaceInv
<1>3. IsStructure(Table, index + 1, AtHand)
  <2>1. DOMAIN Table.structures = 1 .. Len(Table.structures)
    BY <1>1, StructuresRise
  <2>2. QED  BY <1>2, <2>1 DEF IsStructure, AtHand
<1>4. /\ AtHand.at = EndOfStructure(Table, (index + 1) - 1) /\ AtHand.at \in Nat
      /\ AtHand.length \in Nat /\ AtHand.length >= 4
  BY <1>1, <1>3, StructureTyped
<1>5. header = AtHand.at
  BY <1>2, <1>4 DEF PlaceInv
<1>6. AtHand.at + AtHand.length + 2 <= EndOfStructure(Table, index + 1)
  BY <1>1, <1>3, StructureHasRoom
<1>7. /\ EndOfStructure(Table, index + 1) <= TableEnd
      /\ EndOfStructure(Table, index + 1) \in Nat /\ TableEnd \in Nat
  BY <1>1, <1>3, StringsInTable DEF TableEnd
<1>8. /\ Type = AtHand.type /\ Length = AtHand.length
      /\ Printed <=> Shown(AtHand) /\ (AtHand.type = 17 => AtHand.numbers # <<0>>)
  BY <1>1, <1>3, <1>5, StructureRead
<1>9. QED  BY <1>1, <1>3, <1>4, <1>5, <1>6, <1>7, <1>8

\* A header in the table is a structure's.
LEMMA InTableIsAtOne ==
    ASSUME SmbiosInv, Table.formed, PlaceInv
    PROVE  InTable <=> index < Len(Table.structures)
<1>1. SoundTable(Table, StructureCount)
  BY FormedIsSound DEF SmbiosInv
<1>2. CASE index < Len(Table.structures)
  <2>1. header + 4 <= TableEnd
    BY <1>2, HereItIs
  <2>2. QED  BY <1>2, <2>1 DEF InTable, SizeOfStructure
<1>3. CASE ~(index < Len(Table.structures))
  <2>1. index = Len(Table.structures)
    <3>1. Len(Table.structures) \in Nat
      BY <1>1, StructuresRise
    <3>2. QED  BY <1>3, <3>1 DEF PlaceInv
  <2>2. header = TableEnd /\ TableEnd \in Nat
    BY <1>1, <2>1 DEF PlaceInv, SoundTable, WrittenTable, TableEnd
  <2>3. QED  BY <1>3, <2>2 DEF InTable, SizeOfStructure
<1>4. QED  BY <1>2, <1>3

\* Which structures are to be printed.
LEMMA ToBePrinted ==
    ASSUME NEW t, NEW count, SoundTable(t, count)
    PROVE  /\ t.printed \in Seq(DOMAIN t.structures)
           /\ Len(t.printed) \in Nat /\ DOMAIN t.printed = 1 .. Len(t.printed)
           /\ \A k \in DOMAIN t.printed : t.printed[k] \in Nat /\ t.printed[k] \in DOMAIN t.structures
           /\ \A k, l \in DOMAIN t.printed : k < l => t.printed[k] < t.printed[l]
           /\ \A i \in DOMAIN t.structures :
                 (\E k \in DOMAIN t.printed : t.printed[k] = i) <=>
                   /\ count = 0 \/ i <= count
                   /\ \A j \in 1 .. i : t.structures[j].type # EndOfTableMark
                   /\ Shown(t.structures[i])
                   /\ t.structures[i].type = 17 => t.structures[i].numbers # <<0>>
<1>1. /\ t.printed \in Seq(DOMAIN t.structures)
      /\ \A k, l \in DOMAIN t.printed : k < l => t.printed[k] < t.printed[l]
  BY DEF SoundTable, WrittenTable
<1>2. \A i \in DOMAIN t.structures :
         (\E k \in DOMAIN t.printed : t.printed[k] = i) <=>
           /\ count = 0 \/ i <= count
           /\ \A j \in 1 .. i : t.structures[j].type # EndOfTableMark
           /\ Shown(t.structures[i])
           /\ t.structures[i].type = 17 => t.structures[i].numbers # <<0>>
  BY DEF SoundTable, WrittenTable
<1>3. DOMAIN t.structures \subseteq Nat
  BY StructuresRise
<1>4. Len(t.printed) \in Nat /\ DOMAIN t.printed = 1 .. Len(t.printed)
  BY <1>1
<1>5. \A k \in DOMAIN t.printed : t.printed[k] \in Nat /\ t.printed[k] \in DOMAIN t.structures
  BY <1>1, <1>3, <1>4, ElementOfSeq
<1>6. QED  BY <1>1, <1>2, <1>4, <1>5

\* The parts of the invariant that a step leaves alone.
LEMMA PlaceKept ==
    ASSUME PlaceInv, UNCHANGED <<firmware, header, index>>,
           \/ pc \in {"structure", "string", "skip", "enter"} /\ pc' # "next"
           \/ pc' = pc,
           pc' \in {"string", "skip"} => pc = pc' \/ index < Len(Table.structures),
           walker' = walker
    PROVE  PlaceInv'
<1>1. Table' = Table /\ StructureCount' = StructureCount
  BY TableStays
<1>2. AtHand' = AtHand
  BY <1>1 DEF AtHand
<1>3. PassedBy' = PassedBy
  BY DEF PassedBy
<1>4. QED  BY <1>1, <1>2, <1>3 DEF PlaceInv

LEMMA PrintedKept ==
    ASSUME PrintedInv, UNCHANGED <<firmware, lines>>, PassedBy' = PassedBy, pc' # "done"
    PROVE  PrintedInv'
<1>1. Table' = Table
  BY TableStays
<1>2. QED  BY <1>1 DEF PrintedInv

\* The loop at a structure that has no line.
LEMMA PassKeepsWritten ==
    ASSUME SmbiosInv, WrittenInv, Table.formed, PassStructure
    PROVE  WrittenInv'
<1>1. /\ UNCHANGED <<firmware, header, index, lines>>
      /\ pc = "structure" /\ pc' = "next" /\ walker' = header + Length
      /\ InTable /\ Counted /\ Trusted /\ ~Printed
  BY DEF PassStructure
<1>2. PlaceInv /\ PrintedInv
  BY DEF WrittenInv
<1>3. Table' = Table /\ StructureCount' = StructureCount
  BY <1>1, TableStays
<1>4. index < Len(Table.structures) /\ index \in Nat
  BY <1>1, <1>2, InTableIsAtOne DEF PlaceInv
<1>5. AtHand' = AtHand /\ PassedBy = index /\ PassedBy' = index + 1
  BY <1>1, <1>3 DEF AtHand, PassedBy
<1>6. /\ AtHand.type # EndOfTableMark
      /\ StructureCount = 0 \/ index + 1 <= StructureCount
  <2>1. Type = AtHand.type
    BY <1>2, <1>4, HereItIs
  <2>2. StructureCount = 0 \/ index < StructureCount
    BY <1>1 DEF Counted
  <2>3. StructureCount \in Nat
    BY FirmwaresAssumption DEF SmbiosInv, StructureCount, Table, NoTable
  <2>4. QED  BY <1>1, <1>4, <2>1, <2>2, <2>3 DEF Trusted
<1>7. \A j \in 1 .. index + 1 : /\ Table.structures[j].type # EndOfTableMark
                                /\ StructureCount = 0 \/ j <= StructureCount
  <2> SUFFICES ASSUME NEW j \in 1 .. index + 1
               PROVE  /\ Table.structures[j].type # EndOfTableMark
                      /\ StructureCount = 0 \/ j <= StructureCount
    OBVIOUS
  <2>1. CASE j = index + 1
    BY <1>6, <2>1 DEF AtHand
  <2>2. CASE j # index + 1
    <3>1. j \in 1 .. index
      BY <1>4, <2>2
    <3>2. QED  BY <1>2, <1>5, <3>1 DEF PlaceInv
  <2>3. QED  BY <2>1, <2>2
<1>8. PlaceInv'
  <2>1. /\ walker' = AtHand.at + AtHand.length
        /\ AtHand.at + AtHand.length <= EndOfStructure(Table, index + 1) - 2
        /\ AtHand.at + AtHand.length \in Nat
    <3>1. /\ header = AtHand.at /\ Length = AtHand.length /\ AtHand.at \in Nat /\ AtHand.length \in Nat
          /\ AtHand.at + AtHand.length + 2 <= EndOfStructure(Table, index + 1)
          /\ EndOfStructure(Table, index + 1) \in Nat
      BY <1>2, <1>4, HereItIs
    <3>2. QED  BY <1>1, <3>1
  <2>2. QED  BY <1>1, <1>2, <1>3, <1>4, <1>5, <1>7, <2>1 DEF PlaceInv
<1>9. PrintedInv'
  <2>1. \A k \in DOMAIN Table.printed : Table.printed[k] # index + 1
    <3>1. SoundTable(Table, StructureCount) /\ index + 1 \in DOMAIN Table.structures
      <4>1. IsStructure(Table, index + 1, AtHand)
        BY <1>2, <1>4, HereItIs
      <4>2. QED  BY <1>2, <1>4, <4>1, HereItIs DEF IsStructure
    <3>2. ~(Shown(AtHand) /\ (AtHand.type = 17 => AtHand.numbers # <<0>>))
      BY <1>1, <1>2, <1>4, HereItIs
    <3>3. QED  BY <3>1, <3>2, ToBePrinted DEF AtHand
  <2>2. \A k \in DOMAIN Table.printed : Table.printed[k] \in Nat
    BY FormedIsSound, ToBePrinted DEF SmbiosInv
  <2>3. \A k \in DOMAIN Table.printed : Table.printed[k] <= index + 1 <=> Table.printed[k] <= index
    BY <1>4, <2>1, <2>2
  <2>4. QED  BY <1>1, <1>2, <1>3, <1>5, <2>3 DEF PrintedInv
<1>10. QED  BY <1>1, <1>8, <1>9 DEF WrittenInv

\* A structure that has a line: none of its strings is found yet.
LEMMA BeginKeepsWritten ==
    ASSUME SmbiosInv, WrittenInv, Table.formed, BeginLine
    PROVE  WrittenInv'
<1>1. /\ UNCHANGED <<firmware, header, index, walker, lines>>
      /\ pc = "structure" /\ pc' = "string"
      /\ InTable /\ Counted /\ Trusted /\ Printed
      /\ wanted' = [i \in DOMAIN StringFields(Type) |-> Byte(header + StringFields(Type)[i])]
      /\ found' = <<>> /\ string' = header + Length /\ number' = 1
  BY DEF BeginLine
<1>2. PlaceInv /\ PrintedInv
  BY DEF WrittenInv
<1>3. Table' = Table /\ StructureCount' = StructureCount
  BY <1>1, TableStays
<1>4. index < Len(Table.structures) /\ index \in Nat
  BY <1>1, <1>2, InTableIsAtOne DEF PlaceInv
<1>5. AtHand' = AtHand /\ PassedBy' = PassedBy /\ PassedBy = index
  BY <1>1, <1>3 DEF AtHand, PassedBy
<1>6. PlaceInv' /\ PrintedInv'
  BY <1>1, <1>2, <1>4, <1>5, PlaceKept, PrintedKept
<1>7. /\ SoundTable(Table, StructureCount) /\ IsStructure(Table, index + 1, AtHand)
      /\ header = AtHand.at /\ Length = AtHand.length /\ Type = AtHand.type
      /\ Shown(AtHand) /\ (AtHand.type = 17 => AtHand.numbers # <<0>>)
  BY <1>1, <1>2, <1>4, HereItIs
<1>8. wanted' = AtHand.names
  BY <1>1, <1>7, StructureRead
<1>9. /\ AtHand.names \in Seq(0 .. 255) /\ Len(AtHand.names) \in Nat
      /\ Len(AtHand.texts) \in Nat /\ AtHand.strings[1] = AtHand.at + AtHand.length
  <2>1. AtHand \in WrittenStructures
    BY <1>7 DEF SoundTable, WrittenTable, IsStructure
  <2>2. AtHand.names \in Seq(0 .. 255)
    BY <2>1, Zenon DEF WrittenStructures
  <2>3. Len(AtHand.texts) \in Nat /\ AtHand.strings[1] = AtHand.at + AtHand.length
    BY <1>7, StructureTyped
  <2>4. QED  BY <2>2, <2>3
<1>10. \E k \in DOMAIN Table.printed : Table.printed[k] = index + 1
  <2>1. /\ StructureCount = 0 \/ index + 1 <= StructureCount
        /\ AtHand.type # EndOfTableMark
    <3>1. StructureCount = 0 \/ index < StructureCount
      BY <1>1 DEF Counted
    <3>2. StructureCount \in Nat
      BY FirmwaresAssumption DEF SmbiosInv, StructureCount, Table, NoTable
    <3>3. QED  BY <1>1, <1>4, <1>7, <3>1, <3>2 DEF Trusted
  <2>2. \A j \in 1 .. index + 1 : Table.structures[j].type # EndOfTableMark
    <3> SUFFICES ASSUME NEW j \in 1 .. index + 1 PROVE Table.structures[j].type # EndOfTableMark
      OBVIOUS
    <3>1. CASE j = index + 1
      BY <2>1, <3>1 DEF AtHand
    <3>2. CASE j # index + 1
      <4>1. j \in 1 .. index
        BY <1>4, <3>2
      <4>2. QED  BY <1>2, <1>5, <4>1 DEF PlaceInv
    <3>3. QED  BY <3>1, <3>2
  <2>3. index + 1 \in DOMAIN Table.structures
    BY <1>7 DEF IsStructure
  <2>4. QED  BY <1>7, <2>1, <2>2, <2>3, ToBePrinted DEF AtHand
<1>11. LineInv'
  <2>1. /\ Len(found') = 0 /\ found' = <<>> /\ number' = 1 /\ string' = AtHand.strings[1]
        /\ pc' = "string"
    BY <1>1, <1>7, <1>9
  <2>3. \A i \in 1 .. Len(wanted') : 0 + i = i
    BY <1>8, <1>9
  <2>4. wanted' # <<>> /\ wanted'[1] # 0 => 1 <= wanted'[1]
    <3> DEFINE w == AtHand.names
    <3>1. ASSUME w # <<>>, w[1] # 0 PROVE 1 <= w[1]
      <4>1. 1 \in 1 .. Len(w) /\ w \in Seq(0 .. 255)
        BY <1>9, <3>1, EmptySeq
      <4>2. w[1] \in 0 .. 255
        BY <4>1, ElementOfSeq
      <4>3. \A x \in 0 .. 255 : x # 0 => 1 <= x
        OBVIOUS
      <4>4. QED  BY <3>1, <4>2, <4>3, Zenon
    <3> HIDE DEF w
    <3>2. wanted' = w
      BY <1>8 DEF w
    <3>3. QED  BY <3>1, <3>2
  <2>5. \A i \in 1 .. Len(wanted') : wanted'[i] = AtHand.names[Len(found') + i]
    BY <1>8, <2>1, <2>3
  <2>6. Len(found') + Len(wanted') = Len(AtHand.names) /\ 1 \in 1 .. Len(AtHand.texts) + 1
    BY <1>8, <1>9, <2>1
  <2>7. \A i \in 1 .. Len(found') : FALSE
    BY <2>1
  <2>8. wanted' \in Seq(0 .. 255)
    BY <1>8, <1>9
  <2>9. QED  BY <1>1, <1>3, <1>5, <1>10, <2>1, <2>4, <2>5, <2>6, <2>7, <2>8 DEF LineInv
<1>12. QED  BY <1>1, <1>6, <1>11 DEF WrittenInv

\* The end of the listing: no structure behind it is to be printed.
LEMMA EndKeepsWritten ==
    ASSUME SmbiosInv, WrittenInv, Table.formed, EndWalk
    PROVE  WrittenInv'
<1>1. /\ UNCHANGED <<firmware, header, index, walker, lines>>
      /\ pc = "structure" /\ pc' = "done" /\ ~(InTable /\ Counted /\ Trusted)
  BY DEF EndWalk
<1>2. PlaceInv /\ PrintedInv
  BY DEF WrittenInv
<1>3. Table' = Table /\ StructureCount' = StructureCount
  BY <1>1, TableStays
<1>4. AtHand' = AtHand /\ PassedBy' = PassedBy /\ PassedBy = index /\ index \in Nat
  BY <1>1, <1>2, <1>3 DEF AtHand, PassedBy, PlaceInv
<1>5. PlaceInv'
  BY <1>1, <1>2, PlaceKept
<1>6. SoundTable(Table, StructureCount)
  BY FormedIsSound DEF SmbiosInv
<1>7. ASSUME NEW k \in DOMAIN Table.printed, ~(Table.printed[k] <= index)
      PROVE  FALSE
  <2> DEFINE i == Table.printed[k]
  <2>1. i \in Nat /\ i \in DOMAIN Table.structures /\ i <= Len(Table.structures)
    BY <1>6, ToBePrinted, StructuresRise
  <2>2. index + 1 <= i /\ index < Len(Table.structures) /\ index + 1 \in 1 .. i
    <3>1. Len(Table.structures) \in Nat
      BY <1>6, StructuresRise
    <3>2. QED  BY <1>4, <1>7, <2>1, <3>1
  <2>3. /\ StructureCount = 0 \/ i <= StructureCount
        /\ \A j \in 1 .. i : Table.structures[j].type # EndOfTableMark
    <3>1. \E l \in DOMAIN Table.printed : Table.printed[l] = i
      OBVIOUS
    <3> HIDE DEF i
    <3>2. QED  BY <1>6, <2>1, <3>1, ToBePrinted
  <2>4. InTable
    BY <1>2, <2>2, InTableIsAtOne
  <2>5. Trusted
    <3>1. AtHand.type # EndOfTableMark
      BY <2>2, <2>3 DEF AtHand
    <3>2. Type = AtHand.type /\ Length = AtHand.length /\ AtHand.length \in Nat /\ AtHand.length >= 4
      BY <1>2, <2>2, HereItIs
    <3>3. QED  BY <3>1, <3>2 DEF Trusted, SizeOfStructure
  <2>6. Counted
    <3>1. StructureCount \in Nat
      BY FirmwaresAssumption DEF SmbiosInv, StructureCount, Table, NoTable
    <3>2. QED  BY <1>4, <2>1, <2>2, <2>3, <3>1 DEF Counted
  <2>7. QED  BY <1>1, <2>4, <2>5, <2>6
<1>8. Len(lines) = Len(Table.printed)
  <2>1. Len(Table.printed) \in Nat /\ DOMAIN Table.printed = 1 .. Len(Table.printed)
    BY <1>6, ToBePrinted
  <2>2. Len(lines) \in Nat /\ Len(lines) <= Len(Table.printed)
    BY <1>2 DEF PrintedInv
  <2>3. \A k \in DOMAIN Table.printed : k <= Len(lines)
    BY <1>2, <1>4, <1>7 DEF PrintedInv
  <2>4. CASE Len(Table.printed) # 0
    <3>1. Len(Table.printed) \in DOMAIN Table.printed
      BY <2>1, <2>4
    <3>2. Len(Table.printed) <= Len(lines)
      BY <2>3, <3>1
    <3>3. QED  BY <2>1, <2>2, <3>2
  <2>5. CASE Len(Table.printed) = 0
    BY <2>2, <2>5
  <2>6. QED  BY <2>4, <2>5
<1>9. PrintedInv'
  BY <1>1, <1>2, <1>3, <1>4, <1>8 DEF PrintedInv
<1>10. QED  BY <1>1, <1>5, <1>9 DEF WrittenInv

\* PrintSmbiosBasicInfo goes to the first structure of a table there is.
LEMMA BasicInfoKeepsWritten ==
    ASSUME SmbiosInv, WrittenInv, Table.formed, PrintSmbiosBasicInfo
    PROVE  WrittenInv'
<1>1. /\ UNCHANGED <<firmware, header, index, walker, lines>>
      /\ pc = "enter" /\ pc' \in {"done", "structure"}
      /\ pc' = "done" => firmware.entry64 = <<>> /\ firmware.entry32 = <<>>
  BY DEF PrintSmbiosBasicInfo
<1>2. pc' = "structure"
  <2>1. firmware.entry64 = <<>> /\ firmware.entry32 = <<>> => Table = NoTable
    BY DEF Table
  <2>2. QED  BY <1>1, <2>1 DEF NoTable
<1>3. PlaceInv /\ PrintedInv /\ PassedBy' = PassedBy
  BY <1>1, <1>2 DEF WrittenInv, PassedBy
<1>4. QED  BY <1>1, <1>2, <1>3, PlaceKept, PrintedKept DEF WrittenInv

\* The steps of SmbiosString leave all but the line at hand alone.
LEMMA StringStep ==
    ASSUME SmbiosInv, WrittenInv, Table.formed,
           UNCHANGED <<firmware, header, index, walker, lines>>,
           pc \in {"string", "skip"}, pc' \in {"string", "skip"}
    PROVE  /\ Table' = Table /\ AtHand' = AtHand /\ index' = index
           /\ LineInv /\ (LineInv' => WrittenInv')
           /\ SoundTable(Table, StructureCount) /\ IsStructure(Table, index + 1, AtHand)
           /\ EndOfStructure(Table, index + 1) <= TableEnd /\ TableEnd \in Nat
           /\ EndOfStructure(Table, index + 1) \in Nat
           /\ Len(AtHand.texts) \in Nat /\ DOMAIN AtHand.texts = 1 .. Len(AtHand.texts)
           /\ \A k \in 1 .. Len(AtHand.texts) + 1 :
                 /\ AtHand.strings[k] \in Nat
                 /\ AtHand.strings[k] < EndOfStructure(Table, index + 1)
<1>1. PlaceInv /\ PrintedInv /\ LineInv /\ index < Len(Table.structures)
  BY DEF WrittenInv, PlaceInv
<1>2. Table' = Table /\ AtHand' = AtHand /\ PassedBy' = PassedBy
  BY TableStays DEF AtHand, PassedBy
<1>3. PlaceInv' /\ PrintedInv'
  BY <1>1, <1>2, PlaceKept, PrintedKept
<1>4. /\ SoundTable(Table, StructureCount) /\ IsStructure(Table, index + 1, AtHand)
      /\ EndOfStructure(Table, index + 1) <= TableEnd /\ TableEnd \in Nat
      /\ EndOfStructure(Table, index + 1) \in Nat
  BY <1>1, HereItIs
<1>5. /\ Len(AtHand.texts) \in Nat /\ DOMAIN AtHand.texts = 1 .. Len(AtHand.texts)
      /\ \A k \in 1 .. Len(AtHand.texts) + 1 :
            /\ AtHand.strings[k] \in Nat
            /\ AtHand.strings[k] < EndOfStructure(Table, index + 1)
  BY <1>4, StructureTyped, StringsInTable
<1>6. QED  BY <1>1, <1>2, <1>3, <1>4, <1>5 DEF WrittenInv

\* SmbiosString finds a byte that is not zero where a text begins, and a zero
\* behind the last one.
LEMMA AtStringMeansText ==
    ASSUME SmbiosInv, WrittenInv, Table.formed, pc = "string"
    PROVE  /\ string < TableEnd
           /\ AtString <=> number \in DOMAIN AtHand.texts
           /\ number \notin DOMAIN AtHand.texts => number = Len(AtHand.texts) + 1
<1> DEFINE s == AtHand
           n == Len(s.texts)
<1>1. LineInv /\ PlaceInv /\ index < Len(Table.structures)
  BY DEF WrittenInv, PlaceInv
<1>2. /\ SoundTable(Table, StructureCount) /\ IsStructure(Table, index + 1, s)
      /\ EndOfStructure(Table, index + 1) <= TableEnd /\ TableEnd \in Nat
      /\ EndOfStructure(Table, index + 1) \in Nat
  BY <1>1, HereItIs
<1>3. number \in 1 .. n + 1 /\ string = s.strings[number]
  BY <1>1 DEF LineInv
<1>4. n \in Nat /\ DOMAIN s.texts = 1 .. n
  BY <1>2, StructureTyped
<1>5. /\ string \in Nat /\ string < EndOfStructure(Table, index + 1)
  BY <1>2, <1>3, StringsInTable
<1>6. string < TableEnd
  BY <1>2, <1>5
<1>7. AtString <=> ByteOf(Table, string) # 0
  BY <1>6 DEF AtString, Byte, ByteOf
<1>8. CASE number \in DOMAIN s.texts
  <2>1. /\ Len(s.texts[number]) \in Nat \ {0}
        /\ s.strings[number + 1] = string + Len(s.texts[number]) + 1
    <3>1. SoundTable(Table, StructureCount) /\ IsStructure(Table, index + 1, s)
      BY <1>2
    <3>2. /\ Len(s.texts[number]) \in Nat \ {0}
          /\ s.strings[number + 1] = s.strings[number] + Len(s.texts[number]) + 1
      BY <1>8, <3>1, StructureTyped
    <3>3. QED  BY <1>3, <3>2
  <2>2. string \in string .. s.strings[number + 1] - 2
    BY <1>5, <2>1
  <2>3. ByteOf(Table, string) # 0
    BY <1>2, <1>3, <1>8, <2>2, StringBytes
  <2>4. QED  BY <1>6, <1>7, <1>8, <2>3
<1>9. CASE number \notin DOMAIN s.texts
  <2>1. number = n + 1
    BY <1>3, <1>4, <1>9
  <2>2. ByteOf(Table, string) = 0
    BY <1>2, <1>3, <2>1, StringBytes
  <2>3. QED  BY <1>6, <1>7, <1>9, <2>1, <2>2
<1>10. QED  BY <1>8, <1>9

\* What SmbiosString returns reads like the string that was asked for.
LEMMA AnswerIsNamed ==
    ASSUME SmbiosInv, WrittenInv, Table.formed, pc = "string", wanted # <<>>,
           wanted[1] = 0 \/ ~AtString \/ number = wanted[1]
    PROVE  Reading(Table, Answer) = Named(AtHand, wanted[1])
<1> DEFINE s == AtHand
           n == wanted[1]
<1>1. LineInv /\ PlaceInv /\ index < Len(Table.structures)
  BY DEF WrittenInv, PlaceInv
<1>2. SoundTable(Table, StructureCount) /\ IsStructure(Table, index + 1, s)
  BY <1>1, HereItIs
<1>3. /\ Head(wanted) = n
      /\ n \in 0 .. 255
      /\ n # 0 => number <= n
  <2>1. wanted \in Seq(0 .. 255) /\ (n # 0 => number <= n)
    BY <1>1 DEF LineInv
  <2>2. Len(wanted) \in Nat /\ 1 \in 1 .. Len(wanted)
    BY <2>1, EmptySeq
  <2>3. n \in 0 .. 255
    BY <2>1, <2>2, ElementOfSeq
  <2>4. QED  BY <2>1, <2>3
<1>4. /\ string < TableEnd /\ TableEnd \in Nat /\ string \in Nat
      /\ AtString <=> number \in DOMAIN s.texts
      /\ number \notin DOMAIN s.texts => number = Len(s.texts) + 1
  BY AtStringMeansText, Typed
<1>5. DOMAIN s.texts = 1 .. Len(s.texts) /\ Len(s.texts) \in Nat
  BY <1>2, StructureTyped
<1>6. CASE n = 0
  <2>1. Answer = [what |-> "empty", at |-> 0]
    BY <1>3, <1>6 DEF Answer
  <2>2. Named(s, n) = [what |-> "empty", text |-> <<>>]
    BY <1>5, <1>6 DEF Named
  <2>3. QED  BY <2>1, <2>2 DEF Reading
<1>7. CASE n # 0 /\ AtString
  <2>1. number = n /\ n \in DOMAIN s.texts
    BY <1>4, <1>7
  <2>2. Answer = [what |-> "string", at |-> string]
    BY <1>3, <1>7 DEF Answer
  <2>3. Named(s, n) = [what |-> "string", text |-> s.texts[n]]
    BY <1>7, <2>1 DEF Named
  <2>4. TextAt(Table, string) = s.texts[n]
    <3>1. string = s.strings[number]
      BY <1>1 DEF LineInv
    <3>2. TextAt(Table, s.strings[n]) = s.texts[n]
      BY <1>2, <2>1, TextFound
    <3>3. QED  BY <2>1, <3>1, <3>2
  <2>5. QED  BY <2>2, <2>3, <2>4 DEF Reading
<1>8. CASE n # 0 /\ ~AtString
  <2>1. n \notin DOMAIN s.texts
    <3>1. number = Len(s.texts) + 1 /\ number <= n
      BY <1>3, <1>4, <1>8
    <3> HIDE DEF n, s
    <3>2. QED  BY <1>3, <1>5, <3>1
  <2>2. Answer = [what |-> "missing", at |-> 0]
    <3>1. ~(string >= TableEnd)
      BY <1>4
    <3>2. QED  BY <1>3, <1>8, <3>1 DEF Answer
  <2>3. Named(s, n) = [what |-> "missing", text |-> <<>>]
    BY <1>8, <2>1 DEF Named
  <2>4. QED  BY <2>2, <2>3 DEF Reading
<1>9. QED  BY <1>6, <1>7, <1>8

\* A string for the line.
LEMMA StringKeepsWritten ==
    ASSUME SmbiosInv, WrittenInv, Table.formed, SmbiosString
    PROVE  WrittenInv'
<1> DEFINE s == AtHand
<1>1. /\ UNCHANGED <<firmware, pc, header, index, walker, lines>>
      /\ pc = "string" /\ pc' = "string" /\ wanted # <<>>
      /\ Head(wanted) = 0 \/ ~AtString \/ number = Head(wanted)
      /\ found' = Append(found, Answer) /\ wanted' = Tail(wanted)
      /\ string' = header + Length /\ number' = 1
  BY DEF SmbiosString
<1>2. /\ Table' = Table /\ AtHand' = AtHand /\ index' = index
      /\ LineInv /\ (LineInv' => WrittenInv')
      /\ SoundTable(Table, StructureCount) /\ IsStructure(Table, index + 1, s)
      /\ Len(s.texts) \in Nat
  BY <1>1, StringStep
<1>3. /\ wanted \in Seq(0 .. 255) /\ Len(wanted) \in Nat /\ Len(wanted) >= 1
      /\ found \in Seq(Strings) /\ Len(found) \in Nat
      /\ Len(found) + Len(wanted) = Len(s.names)
      /\ \A i \in 1 .. Len(wanted) : wanted[i] = s.names[Len(found) + i]
      /\ \A i \in 1 .. Len(found) : Reading(Table, found[i]) = Named(s, s.names[i])
  <2>1. /\ wanted \in Seq(0 .. 255)
        /\ Len(found) + Len(wanted) = Len(s.names)
        /\ \A i \in 1 .. Len(wanted) : wanted[i] = s.names[Len(found) + i]
        /\ \A i \in 1 .. Len(found) : Reading(Table, found[i]) = Named(s, s.names[i])
    BY <1>2 DEF LineInv
  <2>2. Len(wanted) \in Nat /\ Len(wanted) >= 1
    BY <1>1, <2>1, EmptySeq
  <2>3. found \in Seq(Strings) /\ Len(found) \in Nat
    BY Typed
  <2>4. QED  BY <2>1, <2>2, <2>3
<1>4. Reading(Table, Answer) = Named(s, wanted[1])
  BY <1>1, AnswerIsNamed
<1>5. /\ Tail(wanted) \in Seq(0 .. 255) /\ Len(Tail(wanted)) = Len(wanted) - 1
      /\ \A i \in 1 .. Len(wanted) - 1 : Tail(wanted)[i] = wanted[i + 1]
  BY <1>1, <1>3, HeadTailProperties
<1>6. /\ Len(found') = Len(found) + 1
      /\ \A i \in 1 .. Len(found) : found'[i] = found[i]
      /\ found'[Len(found) + 1] = Answer
  <2>1. \A f, e : f \in Seq(Strings) /\ e \in Strings =>
            /\ Len(Append(f, e)) = Len(f) + 1
            /\ \A i \in 1 .. Len(f) : Append(f, e)[i] = f[i]
            /\ Append(f, e)[Len(f) + 1] = e
    BY AppendProperties
  <2>2. Answer \in Strings
    BY AnswerInside
  <2>3. QED  BY <1>1, <1>3, <2>1, <2>2
<1>7. \A i \in 1 .. Len(found') : Reading(Table, found'[i]) = Named(s, s.names[i])
  <2> SUFFICES ASSUME NEW i \in 1 .. Len(found')
               PROVE  Reading(Table, found'[i]) = Named(s, s.names[i])
    OBVIOUS
  <2>1. CASE i = Len(found) + 1
    <3>1. wanted[1] = s.names[Len(found) + 1]
      BY <1>3
    <3>2. QED  BY <1>4, <1>6, <2>1, <3>1
  <2>2. CASE i # Len(found) + 1
    <3>1. i \in 1 .. Len(found)
      BY <1>3, <1>6, <2>2
    <3>2. QED  BY <1>3, <1>6, <3>1
  <2>3. QED  BY <2>1, <2>2
<1>8. /\ Len(found') + Len(wanted') = Len(s.names)
      /\ \A i \in 1 .. Len(wanted') : wanted'[i] = s.names[Len(found') + i]
  <2>1. Len(wanted') = Len(wanted) - 1
    BY <1>1, <1>5
  <2>2. ASSUME NEW i \in 1 .. Len(wanted) - 1
        PROVE  wanted'[i] = s.names[Len(found') + i]
    <3>1. wanted'[i] = wanted[i + 1] /\ i + 1 \in 1 .. Len(wanted)
      BY <1>1, <1>3, <1>5
    <3>2. Len(found') + i = Len(found) + (i + 1)
      BY <1>3, <1>6
    <3>3. QED  BY <1>3, <3>1, <3>2
  <2>3. 1 .. Len(wanted') = 1 .. Len(wanted) - 1
    BY <2>1
  <2>4. Len(found') + Len(wanted') = Len(s.names)
    <3>1. /\ Len(found') = Len(found) + 1 /\ Len(found) \in Nat
          /\ Len(wanted) \in Nat /\ Len(found) + Len(wanted) = Len(s.names)
      BY <1>3, <1>6
    <3>2. \A a, b \in Nat : (a + 1) + (b - 1) = a + b
      OBVIOUS
    <3>3. Len(found') + Len(wanted') = (Len(found) + 1) + (Len(wanted) - 1)
      BY <2>1, <3>1
    <3>4. QED  BY <3>1, <3>2, <3>3
  <2>5. QED  BY <2>2, <2>3, <2>4
<1>9. wanted' # <<>> /\ wanted'[1] # 0 => number' <= wanted'[1]
  <2>1. wanted' \in Seq(0 .. 255)
    BY <1>1, <1>5
  <2>2. \A f \in Seq(0 .. 255) : f # <<>> => f[1] \in 0 .. 255
    <3> SUFFICES ASSUME NEW f \in Seq(0 .. 255), f # <<>> PROVE f[1] \in 0 .. 255
      OBVIOUS
    <3>1. 1 \in 1 .. Len(f)
      BY EmptySeq
    <3>2. QED  BY <3>1, ElementOfSeq
  <2>3. \A x \in 0 .. 255 : x # 0 => 1 <= x
    OBVIOUS
  <2>4. QED  BY <1>1, <2>1, <2>2, <2>3, Zenon
<1>10. string' = s.strings[number'] /\ number' \in 1 .. Len(s.texts) + 1
  <2>1. PlaceInv /\ index < Len(Table.structures)
    BY <1>1 DEF WrittenInv, PlaceInv
  <2>2. header = s.at /\ Length = s.length
    BY <2>1, HereItIs
  <2>3. s.strings[1] = s.at + s.length
    BY <1>2, StructureTyped
  <2>4. QED  BY <1>1, <1>2, <2>2, <2>3
<1>11. wanted' \in Seq(0 .. 255)
  BY <1>1, <1>5
<1>12. LineInv'
  BY <1>1, <1>2, <1>7, <1>8, <1>9, <1>10, <1>11 DEF LineInv
<1>13. QED  BY <1>2, <1>12

\* A string that is not the wanted one is passed: there is one more of them.
LEMMA PassStringKeepsWritten ==
    ASSUME SmbiosInv, WrittenInv, Table.formed, PassString
    PROVE  WrittenInv'
<1> DEFINE s == AtHand
           n == Len(s.texts)
<1>1. /\ UNCHANGED <<firmware, header, index, walker, lines, wanted, string, number, found>>
      /\ pc = "string" /\ pc' = "skip" /\ wanted # <<>>
      /\ Head(wanted) # 0 /\ AtString /\ number # Head(wanted)
  BY DEF PassString, stringvars
<1>2. /\ Table' = Table /\ AtHand' = AtHand /\ index' = index
      /\ LineInv /\ (LineInv' => WrittenInv')
      /\ SoundTable(Table, StructureCount) /\ IsStructure(Table, index + 1, s)
      /\ n \in Nat /\ DOMAIN s.texts = 1 .. n
  BY <1>1, StringStep
<1>3. number \in DOMAIN s.texts /\ number \in Nat /\ number <= n
  <2>1. number \in DOMAIN s.texts
    BY <1>1, AtStringMeansText
  <2>2. QED  BY <1>2, <2>1
<1>4. string = s.strings[number] /\ string \in Nat
  BY <1>1, <1>2, Typed DEF LineInv
<1>5. string <= s.strings[number + 1] - 1
  <2>1. SoundTable(Table, StructureCount) /\ IsStructure(Table, index + 1, s)
    BY <1>2
  <2>2. /\ Len(s.texts[number]) \in Nat
        /\ s.strings[number + 1] = s.strings[number] + Len(s.texts[number]) + 1
    BY <1>3, <2>1, StructureTyped
  <2>3. QED  BY <1>4, <2>2
<1>6. number < wanted[1]
  <2>1. Head(wanted) = wanted[1] /\ wanted[1] \in 0 .. 255
    <3>1. wanted \in Seq(0 .. 255)
      BY <1>2 DEF LineInv
    <3>2. 1 \in 1 .. Len(wanted)
      BY <1>1, <3>1, EmptySeq
    <3>3. QED  BY <3>1, <3>2, ElementOfSeq
  <2>2. number <= wanted[1] /\ number # wanted[1]
    BY <1>1, <1>2, <2>1 DEF LineInv
  <2>3. \A w \in 0 .. 255 : number <= w /\ number # w => number < w
    BY <1>3
  <2>4. QED  BY <2>1, <2>2, <2>3, Zenon
<1>7. LineInv'
  <2>1. s.strings[number] <= string
    BY <1>4
  <2> HIDE DEF s, n
  <2>2. QED  BY <1>1, <1>2, <1>3, <1>5, <1>6, <2>1 DEF LineInv, s, n
<1>8. QED  BY <1>2, <1>7

\* What a string that is passed consists of.
LEMMA InsideText ==
    ASSUME SmbiosInv, WrittenInv, Table.formed, pc = "skip"
    PROVE  /\ string < TableEnd /\ string \in Nat /\ number \in Nat
           /\ AtHand.strings[number + 1] \in Nat
           /\ AtString <=> string # AtHand.strings[number + 1] - 1
<1> DEFINE s == AtHand
           n == Len(s.texts)
<1>1. LineInv /\ PlaceInv /\ index < Len(Table.structures)
  BY DEF WrittenInv, PlaceInv
<1>2. /\ SoundTable(Table, StructureCount) /\ IsStructure(Table, index + 1, s)
      /\ EndOfStructure(Table, index + 1) <= TableEnd /\ TableEnd \in Nat
      /\ EndOfStructure(Table, index + 1) \in Nat
  BY <1>1, HereItIs
<1>3. /\ number \in 1 .. n + 1 /\ number <= n
      /\ s.strings[number] <= string /\ string <= s.strings[number + 1] - 1
      /\ string \in Nat
  BY <1>1, Typed DEF LineInv
<1>4. n \in Nat /\ DOMAIN s.texts = 1 .. n
  BY <1>2, StructureTyped
<1>5. number \in DOMAIN s.texts /\ number \in Nat /\ number + 1 \in 1 .. n + 1
  BY <1>3, <1>4
<1>6. /\ s.strings[number] \in Nat /\ s.strings[number + 1] \in Nat
      /\ s.strings[number + 1] < EndOfStructure(Table, index + 1)
  BY <1>2, <1>3, <1>5, StringsInTable
<1>7. string < TableEnd
  BY <1>2, <1>3, <1>6
<1>8. AtString <=> ByteOf(Table, string) # 0
  BY <1>7 DEF AtString, Byte, ByteOf
<1>9. CASE string = s.strings[number + 1] - 1
  <2>1. ByteOf(Table, s.strings[number + 1] - 1) = 0
    BY <1>2, <1>5, StringBytes
  <2>2. QED  BY <1>3, <1>5, <1>6, <1>7, <1>8, <1>9, <2>1
<1>10. CASE string # s.strings[number + 1] - 1
  <2>1. string \in s.strings[number] .. s.strings[number + 1] - 2
    BY <1>3, <1>6, <1>10
  <2>2. ByteOf(Table, string) # 0
    BY <1>2, <1>5, <2>1, StringBytes
  <2>3. QED  BY <1>3, <1>5, <1>6, <1>7, <1>8, <1>10, <2>2
<1>11. QED  BY <1>9, <1>10

\* A byte of a string that is passed is not its terminator.
LEMMA PassByteKeepsWritten ==
    ASSUME SmbiosInv, WrittenInv, Table.formed, PassByte
    PROVE  WrittenInv'
<1> DEFINE s == AtHand
           n == Len(s.texts)
<1>1. /\ UNCHANGED <<firmware, pc, header, index, walker, lines, wanted, number, found>>
      /\ pc = "skip" /\ pc' = "skip" /\ AtString /\ string' = string + 1
  BY DEF PassByte
<1>2. /\ Table' = Table /\ AtHand' = AtHand /\ index' = index
      /\ LineInv /\ (LineInv' => WrittenInv')
      /\ SoundTable(Table, StructureCount) /\ IsStructure(Table, index + 1, s)
      /\ n \in Nat
      /\ \A k \in 1 .. n + 1 : s.strings[k] \in Nat
  BY <1>1, StringStep
<1>3. /\ string \in Nat /\ s.strings[number + 1] \in Nat
      /\ string # s.strings[number + 1] - 1
  BY <1>1, InsideText
<1>4. /\ s.strings[number] <= string /\ string <= s.strings[number + 1] - 1
      /\ number \in 1 .. n + 1
  BY <1>1, <1>2 DEF LineInv
<1>5. s.strings[number] <= string + 1 /\ string + 1 <= s.strings[number + 1] - 1
  <2>1. s.strings[number] \in Nat
    BY <1>2, <1>4
  <2>2. QED  BY <1>3, <1>4, <2>1
<1>6. LineInv'
  <2> HIDE DEF s, n
  <2>1. QED  BY <1>1, <1>2, <1>5 DEF LineInv, s, n
<1>7. QED  BY <1>2, <1>6

\* The terminator of a string that is passed: the next text begins behind it.
LEMMA TerminatorKeepsWritten ==
    ASSUME SmbiosInv, WrittenInv, Table.formed, PassTerminator
    PROVE  WrittenInv'
<1> DEFINE s == AtHand
           n == Len(s.texts)
<1>1. /\ UNCHANGED <<firmware, header, index, walker, lines, wanted, found>>
      /\ pc = "skip" /\ pc' = "string" /\ ~AtString
      /\ string' = IF string < TableEnd THEN string + 1 ELSE string
      /\ number' = number + 1
  BY DEF PassTerminator
<1>2. /\ Table' = Table /\ AtHand' = AtHand /\ index' = index
      /\ LineInv /\ (LineInv' => WrittenInv')
      /\ n \in Nat
  BY <1>1, StringStep
<1>3. /\ string < TableEnd /\ string \in Nat /\ number \in Nat
      /\ s.strings[number + 1] \in Nat
      /\ string = s.strings[number + 1] - 1
  BY <1>1, InsideText
<1>4. string' = s.strings[number + 1] /\ number' = number + 1
  BY <1>1, <1>3
<1>5. /\ wanted # <<>> /\ number < wanted[1] /\ number <= n
      /\ number + 1 \in 1 .. n + 1
  <2>1. wanted # <<>> /\ number < wanted[1] /\ number <= n
    BY <1>1, <1>2 DEF LineInv
  <2>2. QED  BY <1>2, <1>3, <2>1
<1>6. number + 1 <= wanted[1]
  <2>1. wanted[1] \in 0 .. 255
    <3>1. wanted \in Seq(0 .. 255)
      BY <1>2 DEF LineInv
    <3>2. 1 \in 1 .. Len(wanted)
      BY <1>5, <3>1, EmptySeq
    <3>3. QED  BY <3>1, <3>2, ElementOfSeq
  <2>2. \A w \in 0 .. 255 : number < w => number + 1 <= w
    BY <1>3
  <2>3. QED  BY <1>5, <2>1, <2>2, Zenon
<1>7. LineInv'
  <2> HIDE DEF s, n
  <2>1. QED  BY <1>1, <1>2, <1>4, <1>5, <1>6 DEF LineInv, s, n
<1>8. QED  BY <1>2, <1>7

\* NextSmbiosStructure, short of the double terminator.
LEMMA WalkOnKeepsWritten ==
    ASSUME SmbiosInv, WrittenInv, Table.formed, WalkOn
    PROVE  WrittenInv'
<1>1. /\ UNCHANGED <<firmware, pc, header, index, lines>>
      /\ pc = "next" /\ walker' = walker + 1
      /\ ~(Byte(walker) = 0 /\ Byte(walker + 1) = 0)
  BY DEF WalkOn
<1>2. PlaceInv /\ PrintedInv /\ index < Len(Table.structures)
  BY <1>1 DEF WrittenInv, PlaceInv
<1>3. Table' = Table /\ StructureCount' = StructureCount
  BY <1>1, TableStays
<1>4. AtHand' = AtHand /\ PassedBy' = PassedBy
  BY <1>1, <1>3 DEF AtHand, PassedBy
<1>5. /\ AtHand.at + AtHand.length <= walker + 1
      /\ walker + 1 <= EndOfStructure(Table, index + 1) - 2
  <2>1. /\ AtHand.at \in Nat /\ AtHand.length \in Nat /\ EndOfStructure(Table, index + 1) \in Nat
        /\ SoundTable(Table, StructureCount) /\ IsStructure(Table, index + 1, AtHand)
    BY <1>2, HereItIs
  <2>2. /\ AtHand.at + AtHand.length <= walker
        /\ walker <= EndOfStructure(Table, index + 1) - 2
        /\ walker \in Nat
    BY <1>1, <1>2, Typed DEF PlaceInv
  <2>3. ~(ByteOf(Table, walker) = 0 /\ ByteOf(Table, walker + 1) = 0)
    BY <1>1 DEF Byte, ByteOf
  <2>4. walker # EndOfStructure(Table, index + 1) - 2
    BY <2>1, <2>2, <2>3, OnlyOneDoubleTerminator
  <2>5. QED  BY <2>1, <2>2, <2>4
<1>6. PlaceInv'
  BY <1>1, <1>2, <1>3, <1>4, <1>5 DEF PlaceInv
<1>7. PrintedInv'
  BY <1>1, <1>2, <1>4, PrintedKept
<1>8. QED  BY <1>1, <1>6, <1>7 DEF WrittenInv

\* The double terminator: the next structure begins behind it.
LEMMA NextKeepsWritten ==
    ASSUME SmbiosInv, WrittenInv, Table.formed, NextSmbiosStructure
    PROVE  WrittenInv'
<1> DEFINE end == EndOfStructure(Table, index + 1)
<1>1. /\ UNCHANGED <<firmware, lines, walker>>
      /\ pc = "next" /\ pc' = "structure" /\ index' = index + 1
      /\ walker + 1 < TableEnd => Byte(walker) = 0 /\ Byte(walker + 1) = 0
      /\ header' = IF walker + 1 < TableEnd THEN walker + 2 ELSE TableEnd
  BY DEF NextSmbiosStructure
<1>2. PlaceInv /\ PrintedInv /\ index < Len(Table.structures)
  BY <1>1 DEF WrittenInv, PlaceInv
<1>3. Table' = Table /\ StructureCount' = StructureCount
  BY <1>1, TableStays
<1>4. PassedBy' = index + 1 /\ PassedBy = index + 1
  BY <1>1 DEF PassedBy
<1>5. header' = end
  <2>1. /\ AtHand.at \in Nat /\ AtHand.length \in Nat /\ end \in Nat
        /\ end <= TableEnd /\ TableEnd \in Nat
        /\ SoundTable(Table, StructureCount) /\ IsStructure(Table, index + 1, AtHand)
    BY <1>2, HereItIs
  <2>2. /\ AtHand.at + AtHand.length <= walker /\ walker <= end - 2 /\ walker \in Nat
    BY <1>1, <1>2, Typed DEF PlaceInv
  <2>3. walker + 1 < TableEnd
    <3> HIDE DEF end
    <3>1. QED  BY <2>1, <2>2
  <2>4. ByteOf(Table, walker) = 0 /\ ByteOf(Table, walker + 1) = 0
    BY <1>1, <2>3 DEF Byte, ByteOf
  <2>5. walker = end - 2
    BY <2>1, <2>2, <2>4, OnlyOneDoubleTerminator
  <2> HIDE DEF end
  <2>6. QED  BY <1>1, <2>1, <2>3, <2>5
<1>6. index + 1 \in 0 .. Len(Table.structures)
  <2>1. Len(Table.structures) \in Nat
    BY FormedIsSound, StructuresRise DEF SmbiosInv
  <2>2. QED  BY <1>2, <2>1 DEF PlaceInv
<1>7. PlaceInv'
  BY <1>1, <1>2, <1>3, <1>4, <1>5, <1>6 DEF PlaceInv
<1>8. PrintedInv'
  BY <1>1, <1>2, <1>4, PrintedKept
<1>9. QED  BY <1>1, <1>7, <1>8 DEF WrittenInv

\* The line of the structure at hand is the next of those to be printed.
LEMMA NextToPrint ==
    ASSUME SmbiosInv, PrintedInv, Table.formed, index \in Nat, PassedBy = index,
           NEW k \in DOMAIN Table.printed, Table.printed[k] = index + 1
    PROVE  /\ k = Len(lines) + 1 /\ Len(lines) \in Nat
           /\ Len(lines) + 1 <= Len(Table.printed)
           /\ \A l \in DOMAIN Table.printed :
                 Table.printed[l] <= index + 1 <=> l <= Len(lines) + 1
<1> DEFINE p == Table.printed
           n == Len(lines)
<1>1. /\ Len(p) \in Nat /\ DOMAIN p = 1 .. Len(p)
      /\ \A l \in DOMAIN p : p[l] \in Nat
      /\ \A l, m \in DOMAIN p : l < m => p[l] < p[m]
  BY FormedIsSound, ToBePrinted DEF SmbiosInv
<1>2. n \in Nat /\ n <= Len(p) /\ \A l \in DOMAIN p : p[l] <= index <=> l <= n
  BY DEF PrintedInv
<1>3. k \in Nat /\ k <= Len(p) /\ p[k] = index + 1
  BY <1>1
<1>4. k > n
  <2>1. ~(p[k] <= index)
    BY <1>3
  <2> HIDE DEF p, n
  <2>2. ~(k <= n)
    BY <1>2, <2>1 DEF p
  <2>3. QED  BY <1>2, <1>3, <2>2
<1>5. ASSUME NEW l \in DOMAIN p
      PROVE  /\ l < k => p[l] <= index
             /\ l > k => p[l] > index + 1
  <2>1. p[l] \in Nat /\ l \in Nat
    BY <1>1
  <2>2. l < k => p[l] < p[k]
    BY <1>1
  <2>3. l > k => p[k] < p[l]
    BY <1>1, <1>3, <2>1
  <2> HIDE DEF p
  <2>4. QED  BY <1>3, <2>1, <2>2, <2>3
<1>6. k = n + 1
  <2>1. CASE k > n + 1
    <3>1. n + 1 \in DOMAIN p /\ n + 1 < k
      BY <1>1, <1>2, <1>3, <2>1
    <3>2. p[n + 1] <= index
      BY <1>5, <3>1
    <3>3. n + 1 <= n
      BY <1>2, <3>1, <3>2
    <3>4. QED  BY <1>2, <3>3
  <2>2. QED  BY <1>2, <1>3, <1>4, <2>1
<1>7. ASSUME NEW l \in DOMAIN p PROVE p[l] <= index + 1 <=> l <= n + 1
  <2>1. p[l] \in Nat /\ l \in Nat
    BY <1>1
  <2>2. CASE l < k
    BY <1>2, <1>5, <1>6, <2>1, <2>2
  <2>3. CASE l = k
    BY <1>2, <1>3, <1>6, <2>1, <2>3
  <2>4. CASE l > k
    BY <1>2, <1>5, <1>6, <2>1, <2>4
  <2>5. QED  BY <1>3, <2>1, <2>2, <2>3, <2>4
<1>8. QED  BY <1>2, <1>3, <1>6, <1>7

\* The line says what the firmware wrote.
LEMMA LineKeepsWritten ==
    ASSUME SmbiosInv, WrittenInv, Table.formed, PrintLine
    PROVE  WrittenInv'
<1> DEFINE s == AtHand
           line == [type |-> Type, strings |-> found, numbers |-> Numbers]
           end == EndOfStructure(Table, index + 1)
<1>1. /\ UNCHANGED <<firmware, header, index>>
      /\ pc = "string" /\ pc' = "next" /\ wanted = <<>>
      /\ lines' = Append(lines, line) /\ walker' = header + Length
  BY DEF PrintLine
<1>2. PlaceInv /\ PrintedInv /\ LineInv /\ index < Len(Table.structures) /\ index \in Nat
  BY <1>1 DEF WrittenInv, PlaceInv
<1>3. Table' = Table /\ StructureCount' = StructureCount
  BY <1>1, TableStays
<1>4. AtHand' = AtHand /\ PassedBy' = index + 1 /\ PassedBy = index
  BY <1>1, <1>3 DEF AtHand, PassedBy
<1>5. /\ SoundTable(Table, StructureCount) /\ IsStructure(Table, index + 1, s)
      /\ header = s.at /\ s.at \in Nat
      /\ Type = s.type /\ Length = s.length /\ s.length \in Nat
      /\ s.at + s.length + 2 <= end /\ end \in Nat
  BY <1>2, HereItIs
<1>6. PICK k \in DOMAIN Table.printed : Table.printed[k] = index + 1
  BY <1>2 DEF LineInv
<1>7. /\ k = Len(lines) + 1 /\ Len(lines) \in Nat
      /\ Len(lines) + 1 <= Len(Table.printed)
      /\ \A l \in DOMAIN Table.printed :
            Table.printed[l] <= index + 1 <=> l <= Len(lines) + 1
  BY <1>2, <1>4, <1>6, NextToPrint
<1>8. /\ StructureCount = 0 \/ index + 1 <= StructureCount
      /\ \A j \in 1 .. index + 1 : Table.structures[j].type # EndOfTableMark
      /\ Shown(s)
  <2>1. index + 1 \in DOMAIN Table.structures
    BY <1>5 DEF IsStructure
  <2>2. \E l \in DOMAIN Table.printed : Table.printed[l] = index + 1
    BY <1>6
  <2>3. QED  BY <1>5, <2>1, <2>2, ToBePrinted DEF AtHand
<1>9. Numbers = s.numbers
  <2>1. SoundTable(Table, StructureCount) /\ IsStructure(Table, index + 1, s) /\ header = s.at
    BY <1>5
  <2>2. \A t, count, i, r : /\ SoundTable(t, count) /\ IsStructure(t, i, r)
                            /\ Table = t /\ header = r.at /\ Shown(r)
                            => Numbers = r.numbers
    BY StructureRead
  <2> HIDE DEF s
  <2>3. QED  BY <1>8, <2>1, <2>2
<1>10. \A j \in 1 .. index + 1 : /\ Table.structures[j].type # EndOfTableMark
                                 /\ StructureCount = 0 \/ j <= StructureCount
  <2>1. StructureCount \in Nat
    BY FirmwaresAssumption DEF SmbiosInv, StructureCount, Table, NoTable
  <2>2. QED  BY <1>2, <1>8, <2>1
<1>11. PlaceInv'
  <2>1. walker' = s.at + s.length /\ s.at + s.length <= end - 2
    BY <1>1, <1>5
  <2>2. /\ AtHand.at + AtHand.length <= walker'
        /\ walker' <= EndOfStructure(Table, index + 1) - 2
    BY <1>5, <2>1
  <2>3. /\ index' \in 0 .. Len(Table'.structures) /\ header' = EndOfStructure(Table', index')
        /\ index' < Len(Table'.structures)
    BY <1>1, <1>2, <1>3 DEF PlaceInv
  <2> HIDE DEF s, end, line
  <2>4. QED  BY <1>1, <1>3, <1>4, <1>10, <2>2, <2>3 DEF PlaceInv
<1>12. Says(Table, line, s)
  <2>1. Numbers = s.numbers
    BY <1>9
  <2>2. /\ Len(found) = Len(s.names)
        /\ \A i \in 1 .. Len(found) : Reading(Table, found[i]) = Named(s, s.names[i])
    <3>1. /\ Len(found) + Len(wanted) = Len(s.names)
          /\ \A i \in 1 .. Len(found) : Reading(Table, found[i]) = Named(s, s.names[i])
      BY <1>2 DEF LineInv
    <3>2. Len(wanted) = 0 /\ Len(found) \in Nat
      BY <1>1, Typed
    <3>3. QED  BY <3>1, <3>2
  <2>3. DOMAIN s.names = 1 .. Len(s.names)
    <3>1. s \in WrittenStructures
      BY <1>5 DEF SoundTable, WrittenTable, IsStructure
    <3>2. s.names \in Seq(0 .. 255)
      BY <3>1, Zenon DEF WrittenStructures
    <3>3. QED  BY <3>2
  <2>4. line.type = s.type /\ line.numbers = s.numbers /\ line.strings = found
    BY <1>5, <2>1
  <2> HIDE DEF line, s
  <2>5. QED  BY <2>2, <2>3, <2>4 DEF Says
<1>13. line \in PrintedLines
  <2>1. s \in WrittenStructures
    BY <1>5 DEF SoundTable, WrittenTable, IsStructure
  <2>2. s.numbers \in Seq(Nat)
    BY <2>1, Zenon DEF WrittenStructures
  <2>3. Numbers \in Seq(Nat)
    BY <1>9, <2>2
  <2>4. Type \in 0 .. 255
    BY <1>5, StructureTyped
  <2>5. found \in Seq(Strings)
    BY Typed
  <2>6. QED  BY <2>3, <2>4, <2>5 DEF PrintedLines
<1>14. /\ lines' \in Seq(PrintedLines) /\ Len(lines') = Len(lines) + 1
       /\ \A i \in 1 .. Len(lines) : lines'[i] = lines[i]
       /\ lines'[Len(lines) + 1] = line
  <2>1. lines \in Seq(PrintedLines)
    BY <1>2 DEF PrintedInv
  <2> HIDE DEF line
  <2>2. QED  BY <1>1, <1>13, <2>1, AppendProperties
<1>15. \A i \in 1 .. Len(lines') : Says(Table, lines'[i], Table.structures[Table.printed[i]])
  <2> SUFFICES ASSUME NEW i \in 1 .. Len(lines')
               PROVE  Says(Table, lines'[i], Table.structures[Table.printed[i]])
    OBVIOUS
  <2>1. CASE i = Len(lines) + 1
    <3>1. Table.structures[Table.printed[i]] = s
      BY <1>6, <1>7, <2>1 DEF AtHand
    <3> HIDE DEF line, s
    <3>2. QED  BY <1>12, <1>14, <2>1, <3>1
  <2>2. CASE i # Len(lines) + 1
    <3>1. i \in 1 .. Len(lines)
      BY <1>7, <1>14, <2>2
    <3>2. QED  BY <1>2, <1>14, <3>1 DEF PrintedInv
  <2>3. QED  BY <2>1, <2>2
<1>16. PrintedInv'
  <2> HIDE DEF line
  <2>1. QED  BY <1>1, <1>3, <1>4, <1>7, <1>14, <1>15 DEF PrintedInv
<1>17. QED  BY <1>1, <1>11, <1>16 DEF WrittenInv

\* Nothing is printed before the first structure.
LEMMA InitIsWritten == SmbiosInit => WrittenInv
<1> SUFFICES ASSUME SmbiosInit, Table.formed PROVE WrittenInv
  BY DEF WrittenInv
<1>1. /\ firmware \in Firmwares /\ pc = "enter" /\ header = 0 /\ index = 0 /\ lines = <<>>
  BY DEF SmbiosInit, SmbiosCalled
<1>2. SoundTable(Table, StructureCount)
  BY <1>1, FormedIsSound
<1>3. PassedBy = 0
  BY <1>1 DEF PassedBy
<1>4. PlaceInv
  <2>1. Len(Table.structures) \in Nat
    BY <1>2, StructuresRise
  <2>2. EndOfStructure(Table, 0) = 0
    BY DEF EndOfStructure
  <2>3. \A j \in 1 .. 0 : FALSE
    OBVIOUS
  <2>4. QED  BY <1>1, <1>3, <2>1, <2>2, <2>3 DEF PlaceInv
<1>5. PrintedInv
  <2>1. /\ Len(Table.printed) \in Nat /\ DOMAIN Table.printed = 1 .. Len(Table.printed)
        /\ \A k \in DOMAIN Table.printed : Table.printed[k] \in DOMAIN Table.structures
    BY <1>2, ToBePrinted
  <2>2. DOMAIN Table.structures = 1 .. Len(Table.structures) /\ Len(Table.structures) \in Nat
    BY <1>2, StructuresRise
  <2>3. \A k \in DOMAIN Table.printed : ~(Table.printed[k] <= 0) /\ ~(k <= 0)
    BY <2>1, <2>2
  <2>4. Len(lines) = 0 /\ lines \in Seq(PrintedLines) /\ \A k \in 1 .. 0 : FALSE
    BY <1>1
  <2>5. QED  BY <1>1, <1>3, <2>1, <2>3, <2>4 DEF PrintedInv
<1>6. QED  BY <1>1, <1>4, <1>5 DEF WrittenInv

\* A step of the walk leads from what is written to what is written.
LEMMA WalkKeepsWritten == SmbiosInv /\ WrittenInv /\ [SmbiosNext]_svars => WrittenInv'
<1> SUFFICES ASSUME SmbiosInv, WrittenInv, [SmbiosNext]_svars PROVE WrittenInv'
  OBVIOUS
<1>1. CASE ~Table.formed
  <2>1. firmware' = firmware
    BY DEF SmbiosNext, svars, stringvars, PrintSmbiosBasicInfo, PassStructure, BeginLine,
           EndWalk, SmbiosString, PassString, PassByte, PassTerminator, PrintLine,
           WalkOn, NextSmbiosStructure
  <2>2. Table' = Table
    BY <2>1, TableStays
  <2>3. QED  BY <1>1, <2>2 DEF WrittenInv
<1>2. CASE Table.formed /\ SmbiosNext
  <2>1. Table.formed
    BY <1>2
  <2>2. CASE PrintSmbiosBasicInfo  BY <2>1, <2>2, BasicInfoKeepsWritten
  <2>3. CASE PassStructure         BY <2>1, <2>3, PassKeepsWritten
  <2>4. CASE BeginLine             BY <2>1, <2>4, BeginKeepsWritten
  <2>5. CASE EndWalk               BY <2>1, <2>5, EndKeepsWritten
  <2>6. CASE SmbiosString          BY <2>1, <2>6, StringKeepsWritten
  <2>7. CASE PassString            BY <2>1, <2>7, PassStringKeepsWritten
  <2>8. CASE PassByte              BY <2>1, <2>8, PassByteKeepsWritten
  <2>9. CASE PassTerminator        BY <2>1, <2>9, TerminatorKeepsWritten
  <2>10. CASE PrintLine            BY <2>1, <2>10, LineKeepsWritten
  <2>11. CASE WalkOn               BY <2>1, <2>11, WalkOnKeepsWritten
  <2>12. CASE NextSmbiosStructure  BY <2>1, <2>12, NextKeepsWritten
  <2>13. QED
    BY <1>2, <2>2, <2>3, <2>4, <2>5, <2>6, <2>7, <2>8, <2>9, <2>10, <2>11, <2>12
    DEF SmbiosNext
<1>3. CASE UNCHANGED svars
  <2>1. Table' = Table /\ StructureCount' = StructureCount
    BY <1>3, TableStays DEF svars
  <2>2. AtHand' = AtHand /\ PassedBy' = PassedBy
    BY <1>3, <2>1 DEF svars, AtHand, PassedBy
  <2>3. PlaceInv => PlaceInv'
    BY <1>3, <2>1, <2>2 DEF svars, PlaceInv
  <2>4. PrintedInv => PrintedInv'
    BY <1>3, <2>1, <2>2 DEF svars, PrintedInv
  <2>5. LineInv => LineInv'
    BY <1>3, <2>1, <2>2 DEF svars, LineInv
  <2>6. QED  BY <1>3, <2>1, <2>3, <2>4, <2>5 DEF svars, WrittenInv
<1>4. QED  BY <1>1, <1>2, <1>3

\* Whatever structures a firmware wrote, one behind the other, the listing has
\* a line for each that has one, with the strings and the numbers it wrote.
THEOREM SmbiosPrintsWritten == SmbiosSpec => []PrintsWhatWasWritten
<1>1. SmbiosInit => SmbiosInv /\ WrittenInv
  BY SmbiosInitEstablishes, InitIsWritten
<1>2. SmbiosInv /\ WrittenInv /\ [SmbiosNext]_svars => SmbiosInv' /\ WrittenInv'
  BY SmbiosNextPreserves, WalkKeepsWritten
<1>3. WrittenInv => PrintsWhatWasWritten
  BY DEF WrittenInv, PrintedInv, PrintsWhatWasWritten
<1>4. QED  BY <1>1, <1>2, <1>3, PTL DEF SmbiosSpec

-----------------------------------------------------------------------------
(***************************************************************************)
(* The memory map: three walks over one buffer, of which the first two sum *)
(* up its pages.                                                           *)
(***************************************************************************)
\* SumUpTo satisfies the equations it is defined by: there is such a function
\* for every list of numbers, or a shortest front of one without.
LEMMA SumsExist ==
    ASSUME NEW list, NEW k \in Nat, \A i \in 1 .. k : list[i] \in Nat
    PROVE  \E g \in [0 .. k -> Nat] :
              g = [i \in 0 .. k |-> IF i = 0 THEN 0 ELSE g[i - 1] + list[i]]
<1> DEFINE Sums(n, g) == g = [i \in 0 .. n |-> IF i = 0 THEN 0 ELSE g[i - 1] + list[i]]
           None == {n \in 0 .. k : ~ \E g \in [0 .. n -> Nat] : Sums(n, g)}
<1>1. SUFFICES ASSUME None # {} PROVE FALSE
  <2>1. k \notin None
    BY <1>1
  <2>2. k \in 0 .. k
    OBVIOUS
  <2>3. \E g \in [0 .. k -> Nat] : Sums(k, g)
    BY <2>1, <2>2
  <2>4. QED  BY <2>3
<1>2. PICK m \in None : \A y \in None : m <= y
  <2>1. None \subseteq Nat
    OBVIOUS
  <2> HIDE DEF None
  <2>2. Min(None) \in None /\ \A y \in None : Min(None) <= y
    BY <1>1, <2>1, LeastNumber
  <2>3. QED  BY <2>2
<1>3. m \in 0 .. k /\ ~ \E g \in [0 .. m -> Nat] : Sums(m, g)
  OBVIOUS
<1>4. CASE m = 0
  <2> DEFINE g == [i \in 0 .. 0 |-> 0]
  <2>1. g \in [0 .. 0 -> Nat] /\ Sums(0, g)
    OBVIOUS
  <2>2. QED  BY <1>3, <1>4, <2>1
<1>5. CASE m # 0
  <2>1. m - 1 \in 0 .. k /\ m - 1 \notin None
    <3>1. m \in Nat /\ m - 1 \in 0 .. k
      BY <1>3, <1>5
    <3> HIDE DEF None
    <3>2. m - 1 \notin None
      BY <1>2, <3>1
    <3>3. QED  BY <3>1, <3>2
  <2>2. PICK f \in [0 .. m - 1 -> Nat] : Sums(m - 1, f)
    BY <2>1
  <2>3. f[m - 1] \in Nat /\ list[m] \in Nat
    BY <1>3, <1>5
  <2> DEFINE g == [i \in 0 .. m |-> IF i = m THEN f[m - 1] + list[m] ELSE f[i]]
  <2>4. g \in [0 .. m -> Nat]
    <3>1. ASSUME NEW i \in 0 .. m PROVE g[i] \in Nat
      BY <1>3, <1>5, <2>3
    <3>2. QED  BY <3>1
  <2>5. ASSUME NEW i \in 0 .. m
        PROVE  g[i] = IF i = 0 THEN 0 ELSE g[i - 1] + list[i]
    <3>1. CASE i = m
      BY <1>3, <1>5, <3>1
    <3>2. CASE i # m
      <4>1. i \in 0 .. m - 1
        BY <1>3, <3>2
      <4>2. f[i] = IF i = 0 THEN 0 ELSE f[i - 1] + list[i]
        BY <2>2, <4>1
      <4>3. i # 0 => i - 1 \in 0 .. m /\ i - 1 # m
        BY <1>3, <4>1
      <4>4. QED  BY <3>2, <4>2, <4>3
    <3>3. QED  BY <3>1, <3>2
  <2>6. Sums(m, g)
    BY <2>5
  <2>7. QED  BY <1>3, <2>4, <2>6
<1>6. QED  BY <1>4, <1>5

\* The sum of no numbers is 0, and each number counts once.
LEMMA SumUpToNext ==
    ASSUME NEW list, Len(list) \in Nat, \A i \in 1 .. Len(list) : list[i] \in Nat
    PROVE  /\ SumUpTo(list, 0) = 0
           /\ \A n \in 0 .. Len(list) : SumUpTo(list, n) \in Nat
           /\ \A n \in 0 .. Len(list) : n # Len(list) =>
                 SumUpTo(list, n + 1) = SumUpTo(list, n) + list[n + 1]
<1> DEFINE k == Len(list)
           Sums(g) == g = [i \in 0 .. k |-> IF i = 0 THEN 0 ELSE g[i - 1] + list[i]]
           s == CHOOSE g : Sums(g)
<1>1. \E g \in [0 .. k -> Nat] : Sums(g)
  BY SumsExist
<1>2. Sums(s)
  BY <1>1
<1>3. \A n : SumUpTo(list, n) = s[n]
  BY DEF SumUpTo
<1>4. \A n \in 0 .. k : s[n] = IF n = 0 THEN 0 ELSE s[n - 1] + list[n]
  BY <1>2
<1> HIDE DEF s, Sums
<1> DEFINE Bad == {n \in 0 .. k : s[n] \notin Nat}
<1>5. Bad = {}
  <2>1. SUFFICES ASSUME Bad # {} PROVE FALSE
    OBVIOUS
  <2>2. PICK m \in Bad : \A y \in Bad : m <= y
    <3>1. Bad \subseteq Nat
      OBVIOUS
    <3> HIDE DEF Bad
    <3>2. Min(Bad) \in Bad /\ \A y \in Bad : Min(Bad) <= y
      BY <2>1, <3>1, LeastNumber
    <3>3. QED  BY <3>2
  <2>3. m # 0 /\ s[m] = s[m - 1] + list[m]
    BY <1>4
  <2>4. m - 1 \in 0 .. k /\ m - 1 \notin Bad
    BY <2>2, <2>3
  <2>5. QED  BY <2>3, <2>4
<1>6. SumUpTo(list, 0) = 0
  BY <1>3, <1>4
<1>7. \A n \in 0 .. k : SumUpTo(list, n) \in Nat
  BY <1>3, <1>5
<1>8. ASSUME NEW n \in 0 .. k, n # k
      PROVE  SumUpTo(list, n + 1) = SumUpTo(list, n) + list[n + 1]
  <2>1. n + 1 \in 0 .. k /\ n + 1 # 0 /\ (n + 1) - 1 = n
    BY <1>8
  <2>2. s[n + 1] = s[n] + list[n + 1]
    BY <1>4, <2>1
  <2>3. QED  BY <1>3, <2>2
<1>9. QED  BY <1>6, <1>7, <1>8

\* Reducing before an addition changes nothing modulo M.
LEMMA AddModulo ==
    ASSUME NEW M \in Nat \ {0}, NEW a \in Int, NEW b \in Int
    PROVE  ((a % M) + b) % M = (a + b) % M
<1>1. PICK q \in Int : q = a \div M
  OBVIOUS
<1>2. a % M = a - M * q /\ a % M \in 0 .. M - 1
  BY <1>1
<1>3. PICK r \in Int : r = a % M
  BY <1>2
<1>4. PICK p \in Int : p = (r + b) \div M
  BY <1>3
<1>5. PICK t \in Int : t = (r + b) % M /\ t \in 0 .. M - 1 /\ t = (r + b) - M * p
  BY <1>3, <1>4
<1>6. a + b = M * (q + p) + t
  BY <1>2, <1>3, <1>5
<1>7. (M * (q + p) + t) % M = t
  <2>1. PICK z \in Int : z = q + p
    OBVIOUS
  <2>2. (M * z + t) % M = t
    BY <1>5
  <2>3. QED  BY <2>1, <2>2
<1>8. QED  BY <1>3, <1>5, <1>6, <1>7

\* A category's pages as its counter has them at the end of the walk.
Wrap(c) == SumUpTo(PagesIn(c), DescriptorCount) % Modulus

\* In the two summing walks the counters have what the descriptors behind the
\* pointer add up to; from then on the report, and then the console, has the
\* sums of the whole map, and the listing is the front of it that was passed.
\* The total is kept beside the categories: no single counter says that no
\* page was counted twice.
MapInv ==
    /\ WellFormedMap(bootInfo)
    /\ walk \in {"json", "summary", "listing", "over"}
    /\ descriptorIndex \in 0 .. DescriptorCount
    /\ at = descriptorIndex * bootInfo.MemoryMapDescriptorSize
    /\ pages \in [Categories -> 0 .. Modulus - 1]
    /\ walk \in {"json", "summary"} =>
          /\ \A c \in Categories : pages[c] = SumUpTo(PagesIn(c), descriptorIndex) % Modulus
          /\ AllOf(pages) % Modulus = SumUpTo(PagesAtAll, descriptorIndex) % Modulus
          /\ listing = <<>>
    /\ walk # "json" =>
          report = [DescriptorCount |-> DescriptorCount, Pages |-> [c \in Categories |-> Wrap(c)]]
    /\ walk \in {"listing", "over"} /\ ~Empty =>
          /\ console = report
          /\ listing = [i \in 1 .. descriptorIndex |-> Written[i]]
    /\ walk = "listing" => ~Empty
    /\ walk = "over" /\ ~Empty => descriptorIndex = DescriptorCount

\* The number of descriptors is a number, for an empty map too.
LEMMA CountTyped ==
    ASSUME WellFormedMap(bootInfo)
    PROVE  DescriptorCount \in Nat
<1>1. CASE Empty
  BY <1>1 DEF DescriptorCount
<1>2. CASE ~Empty
  <2>1. PICK d \in Nat : d = bootInfo.MemoryMapDescriptorSize
    BY DEF WellFormedMap
  <2>2. PICK s \in Nat : s = bootInfo.MemoryMapSize
    BY DEF WellFormedMap
  <2>3. d # 0
    BY <1>2, <2>1 DEF Empty
  <2>4. s \div d \in Nat
    BY <2>3
  <2>5. QED  BY <1>2, <2>1, <2>2, <2>4 DEF DescriptorCount
<1>3. QED  BY <1>1, <1>2

\* Where a descriptor is: all of it in the buffer, with a number of pages.
LEMMA DescriptorThere ==
    ASSUME WellFormedMap(bootInfo), NEW i \in Nat, i < DescriptorCount
    PROVE  /\ i * bootInfo.MemoryMapDescriptorSize \in Nat
           /\ i * bootInfo.MemoryMapDescriptorSize + 2 <= Len(bootInfo.MemoryMap)
           /\ bootInfo.MemoryMap[i * bootInfo.MemoryMapDescriptorSize + 2] \in Nat
           /\ (i + 1) * bootInfo.MemoryMapDescriptorSize
                = i * bootInfo.MemoryMapDescriptorSize + bootInfo.MemoryMapDescriptorSize
<1>1. PICK d \in Nat : d = bootInfo.MemoryMapDescriptorSize
  BY DEF WellFormedMap
<1>2. PICK s \in Nat : s = bootInfo.MemoryMapSize
  BY DEF WellFormedMap
<1>3. ~Empty /\ DescriptorCount = s \div d
  BY <1>1, <1>2 DEF DescriptorCount
<1>4. d # 0 /\ d >= 2
  BY <1>1, <1>3 DEF Empty, WellFormedMap
<1>5. PICK q \in Nat : q = s \div d
  BY <1>4
<1>6. PICK w \in Nat : w = d * q
  OBVIOUS
<1>7. w <= s
  BY <1>4, <1>5, <1>6
<1>8. PICK k \in Nat : k = q - (i + 1)
  BY <1>3, <1>5
<1>9. PICK x \in Nat : x = i * d
  OBVIOUS
<1>10. (i + 1) * d = x + d
  BY <1>9
<1>11. PICK y \in Nat : y = k * d
  OBVIOUS
<1>12. w = x + d + y
  BY <1>6, <1>8, <1>9, <1>11
<1>13. x + 2 <= s
  BY <1>4, <1>7, <1>12
<1>14. (x + 1) % d = 1
  <2>1. x + 1 = d * i + 1
    BY <1>9
  <2>2. PICK r \in 0 .. d - 1 : r = 1
    BY <1>4
  <2>3. (d * i + r) % d = r
    BY <1>4
  <2>4. QED  BY <2>1, <2>2, <2>3
<1>15. bootInfo.MemoryMap[x + 2] \in Nat
  <2>1. Len(bootInfo.MemoryMap) = s
    BY <1>2 DEF WellFormedMap
  <2>2. x + 2 \in 1 .. Len(bootInfo.MemoryMap) /\ ((x + 2) - 1) % d = 1
    BY <1>13, <1>14, <2>1
  <2>3. QED  BY <1>1, <1>4, <2>2 DEF WellFormedMap
<1>16. Len(bootInfo.MemoryMap) = s
  BY <1>2 DEF WellFormedMap
<1>17. QED  BY <1>1, <1>9, <1>10, <1>13, <1>15, <1>16

\* Every type has a category, the ones no switch names too.
LEMMA OnlyOnce == \A type : CategoryOf(type) \in Categories
  BY DEF CategoryOf, Categories

\* What one descriptor adds to the sums.
LEMMA SumsGrow ==
    ASSUME WellFormedMap(bootInfo)
    PROVE  /\ SumUpTo(PagesAtAll, 0) = 0
           /\ \A c : SumUpTo(PagesIn(c), 0) = 0
           /\ \A c : \A i \in 0 .. DescriptorCount : SumUpTo(PagesIn(c), i) \in Nat
           /\ \A i \in 0 .. DescriptorCount : SumUpTo(PagesAtAll, i) \in Nat
           /\ \A i \in 0 .. DescriptorCount : i < DescriptorCount =>
                 /\ Written[i + 1] = <<bootInfo.MemoryMap[i * bootInfo.MemoryMapDescriptorSize + 1],
                                       bootInfo.MemoryMap[i * bootInfo.MemoryMapDescriptorSize + 2]>>
                 /\ SumUpTo(PagesAtAll, i + 1) = SumUpTo(PagesAtAll, i) + Written[i + 1][2]
                 /\ \A c : SumUpTo(PagesIn(c), i + 1) = SumUpTo(PagesIn(c), i)
                             + IF CategoryOf(Written[i + 1][1]) = c THEN Written[i + 1][2] ELSE 0
<1>1. DescriptorCount \in Nat
  BY CountTyped
<1>2. ASSUME NEW i \in 1 .. DescriptorCount
      PROVE  /\ Written[i] = <<bootInfo.MemoryMap[(i - 1) * bootInfo.MemoryMapDescriptorSize + 1],
                               bootInfo.MemoryMap[(i - 1) * bootInfo.MemoryMapDescriptorSize + 2]>>
             /\ Written[i][2] \in Nat
  <2>1. i - 1 \in Nat /\ i - 1 < DescriptorCount
    BY <1>1
  <2>2. bootInfo.MemoryMap[(i - 1) * bootInfo.MemoryMapDescriptorSize + 2] \in Nat
    BY <2>1, DescriptorThere
  <2>3. QED  BY <2>2 DEF Written
<1>3. /\ Len(PagesAtAll) = DescriptorCount
      /\ \A i \in 1 .. DescriptorCount : PagesAtAll[i] = Written[i][2] /\ PagesAtAll[i] \in Nat
  BY <1>1, <1>2 DEF PagesAtAll
<1>4. ASSUME NEW c
      PROVE  /\ Len(PagesIn(c)) = DescriptorCount
             /\ \A i \in 1 .. DescriptorCount :
                   /\ PagesIn(c)[i] = IF CategoryOf(Written[i][1]) = c THEN Written[i][2] ELSE 0
                   /\ PagesIn(c)[i] \in Nat
  BY <1>1, <1>2 DEF PagesIn
<1>5. /\ SumUpTo(PagesAtAll, 0) = 0
      /\ \A i \in 0 .. DescriptorCount : SumUpTo(PagesAtAll, i) \in Nat
      /\ \A i \in 0 .. DescriptorCount : i # DescriptorCount =>
            SumUpTo(PagesAtAll, i + 1) = SumUpTo(PagesAtAll, i) + PagesAtAll[i + 1]
  BY <1>1, <1>3, SumUpToNext
<1>6. ASSUME NEW c
      PROVE  /\ SumUpTo(PagesIn(c), 0) = 0
             /\ \A i \in 0 .. DescriptorCount : SumUpTo(PagesIn(c), i) \in Nat
             /\ \A i \in 0 .. DescriptorCount : i # DescriptorCount =>
                   SumUpTo(PagesIn(c), i + 1) = SumUpTo(PagesIn(c), i) + PagesIn(c)[i + 1]
  BY <1>1, <1>4, SumUpToNext
<1>7. ASSUME NEW i \in 0 .. DescriptorCount, i < DescriptorCount
      PROVE  /\ Written[i + 1] = <<bootInfo.MemoryMap[i * bootInfo.MemoryMapDescriptorSize + 1],
                                   bootInfo.MemoryMap[i * bootInfo.MemoryMapDescriptorSize + 2]>>
             /\ SumUpTo(PagesAtAll, i + 1) = SumUpTo(PagesAtAll, i) + Written[i + 1][2]
             /\ \A c : SumUpTo(PagesIn(c), i + 1) = SumUpTo(PagesIn(c), i)
                         + IF CategoryOf(Written[i + 1][1]) = c THEN Written[i + 1][2] ELSE 0
  <2>1. i + 1 \in 1 .. DescriptorCount /\ (i + 1) - 1 = i /\ i # DescriptorCount
    BY <1>1, <1>7
  <2>2. Written[i + 1] = <<bootInfo.MemoryMap[i * bootInfo.MemoryMapDescriptorSize + 1],
                           bootInfo.MemoryMap[i * bootInfo.MemoryMapDescriptorSize + 2]>>
    BY <1>2, <2>1
  <2>3. SumUpTo(PagesAtAll, i + 1) = SumUpTo(PagesAtAll, i) + Written[i + 1][2]
    BY <1>3, <1>5, <2>1
  <2>4. ASSUME NEW c
        PROVE  SumUpTo(PagesIn(c), i + 1) = SumUpTo(PagesIn(c), i)
                 + IF CategoryOf(Written[i + 1][1]) = c THEN Written[i + 1][2] ELSE 0
    BY <1>4, <1>6, <2>1
  <2>5. QED  BY <2>2, <2>3, <2>4
<1>8. QED  BY <1>5, <1>6, <1>7

\* What depends on the captured map alone stays as it is.
LEMMA SameMap ==
    ASSUME bootInfo' = bootInfo
    PROVE  /\ Empty' = Empty /\ DescriptorCount' = DescriptorCount
           /\ Written' = Written /\ PagesAtAll' = PagesAtAll
           /\ \A c : PagesIn(c)' = PagesIn(c)
           /\ \A c : Wrap(c)' = Wrap(c)
           /\ WellFormedMap(bootInfo)' = WellFormedMap(bootInfo)
<1>1. Empty' = Empty
  BY DEF Empty
<1>2. DescriptorCount' = DescriptorCount
  BY <1>1 DEF DescriptorCount
<1>3. Written' = Written
  BY <1>2 DEF Written
<1>4. PagesAtAll' = PagesAtAll
  BY <1>2, <1>3 DEF PagesAtAll
<1>5. \A c : PagesIn(c)' = PagesIn(c)
  BY <1>2, <1>3 DEF PagesIn
<1>6. \A c : Wrap(c)' = Wrap(c)
  BY <1>2, <1>5 DEF Wrap
<1>7. WellFormedMap(bootInfo)' = WellFormedMap(bootInfo)
  BY DEF WellFormedMap
<1>8. QED  BY <1>1, <1>2, <1>3, <1>4, <1>5, <1>6, <1>7

\* A counter takes its own pages only, and what it loses is a multiple of the
\* modulus.
LEMMA OneCounterGrows ==
    ASSUME NEW p \in [Categories -> 0 .. Modulus - 1], NEW k \in Categories, NEW n \in Nat,
           NEW q \in [Categories -> 0 .. Modulus - 1], q[k] = (p[k] + n) % Modulus,
           \A c \in Categories : c # k => q[c] = p[c]
    PROVE  AllOf(q) % Modulus = ((AllOf(p) % Modulus) + n) % Modulus
<1>1. Modulus \in Nat /\ Modulus # 0
  BY ModulusAssumption
<1>2. PICK a \in Nat : a = p[k]
  OBVIOUS
<1>3. PICK z \in Nat : z = (a + n) \div Modulus
  BY <1>1
<1>4. (a + n) % Modulus \in 0 .. Modulus - 1 /\ (a + n) % Modulus = (a + n) - Modulus * z
  BY <1>1, <1>3
<1>6. AllOf(p) \in Nat /\ AllOf(q) \in Nat
  BY <1>1 DEF AllOf, Categories
<1>7. PICK w \in Nat : w = Modulus * z
  BY <1>1
<1>8. q[k] = p[k] + n - w /\ \A c \in Categories : c # k => q[c] = p[c]
  BY <1>2, <1>4, <1>7
<1>9. AllOf(q) = AllOf(p) + n - w
  <2>1. \A c \in Categories : p[c] \in Nat
    BY <1>1
  <2>2. k \in {"Usable", "BootSvc", "Runtime", "ACPI", "Reserved", "MMIO"}
    BY DEF Categories
  <2>3. QED  BY <1>8, <2>1, <2>2 DEF AllOf, Categories
<1>10. PICK x \in Nat : x = AllOf(p)
  BY <1>6
<1>11. AllOf(q) % Modulus = (x + n) % Modulus
  <2>0. PICK y \in Nat : y = AllOf(q)
    BY <1>6
  <2>1. y % Modulus = y - Modulus * (y \div Modulus) /\ y \div Modulus \in Nat
        /\ y % Modulus \in 0 .. Modulus - 1
    BY <1>1
  <2>2. PICK d \in Nat : d = y \div Modulus
    BY <2>1
  <2>3. PICK r \in 0 .. Modulus - 1 : r = y % Modulus
    BY <2>1
  <2>4. x + n = y + w
    BY <1>9, <1>10, <2>0
  <2>5. x + n = Modulus * (d + z) + r
    <3>1. PICK e \in Nat : e = Modulus * d
      BY <1>1
    <3>2. y = e + r
      BY <2>1, <2>2, <2>3, <3>1
    <3>3. Modulus * (d + z) = e + w
      BY <1>1, <1>7, <3>1
    <3>4. QED  BY <1>1, <2>4, <3>2, <3>3
  <2>6. PICK t \in Nat : t = d + z
    OBVIOUS
  <2>7. (Modulus * t + r) % Modulus = r
    BY <1>1
  <2>8. QED  BY <2>0, <2>3, <2>5, <2>6, <2>7
<1>12. ((x % Modulus) + n) % Modulus = (x + n) % Modulus
  <2>1. Modulus \in Nat \ {0} /\ x \in Int /\ n \in Int
    BY <1>1
  <2>2. QED  BY <2>1, AddModulo
<1>13. QED  BY <1>10, <1>11, <1>12

\* A round of a summing loop.
LEMMA SumPreserves == MapInv /\ Sum => MapInv'
<1> SUFFICES ASSUME MapInv, Sum PROVE MapInv'
  OBVIOUS
<1>1. /\ Empty' = Empty /\ DescriptorCount' = DescriptorCount
      /\ Written' = Written /\ PagesAtAll' = PagesAtAll
      /\ \A c : PagesIn(c)' = PagesIn(c)
      /\ \A c : Wrap(c)' = Wrap(c)
      /\ WellFormedMap(bootInfo)' = WellFormedMap(bootInfo)
      /\ bootInfo' = bootInfo
  BY SameMap DEF Sum
<1>2. PICK i \in Nat : i = descriptorIndex
  BY CountTyped DEF MapInv
<1>3. PICK d \in Nat : d = bootInfo.MemoryMapDescriptorSize
  BY DEF MapInv, WellFormedMap
<1>4. i < DescriptorCount /\ DescriptorCount \in Nat /\ i + 1 \in 0 .. DescriptorCount
  BY <1>2, CountTyped DEF Sum, MapInv
<1>5. i * d \in Nat /\ (i + 1) * d = i * d + d /\ bootInfo.MemoryMap[i * d + 2] \in Nat
  BY <1>3, <1>4, DescriptorThere DEF MapInv
<1>6. at = i * d /\ at' = (i + 1) * d /\ descriptorIndex' = i + 1
  BY <1>2, <1>3, <1>5 DEF Sum, MapInv, NextDescriptor
<1>7. /\ Written[i + 1] = <<bootInfo.MemoryMap[i * d + 1], bootInfo.MemoryMap[i * d + 2]>>
      /\ SumUpTo(PagesAtAll, i + 1) = SumUpTo(PagesAtAll, i) + Written[i + 1][2]
      /\ \A c : SumUpTo(PagesIn(c), i + 1) = SumUpTo(PagesIn(c), i)
                  + IF CategoryOf(Written[i + 1][1]) = c THEN Written[i + 1][2] ELSE 0
      /\ SumUpTo(PagesAtAll, i) \in Nat
      /\ \A c : SumUpTo(PagesIn(c), i) \in Nat
  <2>1. WellFormedMap(bootInfo) /\ i \in 0 .. DescriptorCount
    BY <1>2 DEF MapInv
  <2>2. QED  BY <1>3, <1>4, <2>1, SumsGrow
<1>8. PICK n \in Nat : n = NumberOfPages
  <2>1. bootInfo.MemoryMap[at + 2] \in Nat
    BY <1>5, <1>6
  <2>2. QED  BY <2>1 DEF NumberOfPages
<1>9. PICK k \in Categories : k = CategoryOf(DescriptorType)
  BY OnlyOnce
<1>10. n = Written[i + 1][2] /\ k = CategoryOf(Written[i + 1][1])
  BY <1>6, <1>7, <1>8, <1>9 DEF NumberOfPages, DescriptorType
<1>11. pages' = [pages EXCEPT ![k] = (@ + n) % Modulus] /\ pages \in [Categories -> 0 .. Modulus - 1]
  BY <1>8, <1>9 DEF Sum, AddPagesByCategory, MapInv
<1>12. Modulus \in Nat \ {0}
  BY ModulusAssumption
<1>13. /\ pages' \in [Categories -> 0 .. Modulus - 1]
       /\ AllOf(pages') % Modulus = ((AllOf(pages) % Modulus) + n) % Modulus
  <2>1. PICK p \in [Categories -> 0 .. Modulus - 1] : p = pages
    BY <1>11
  <2>2. (p[k] + n) % Modulus \in 0 .. Modulus - 1
    <3>1. PICK a \in Nat : a = p[k] + n
      BY <1>12
    <3>2. a % Modulus \in 0 .. Modulus - 1
      BY <1>12
    <3>3. QED  BY <3>1, <3>2
  <2>3. PICK q \in [Categories -> 0 .. Modulus - 1] : q = pages'
    BY <1>11, <2>1, <2>2
  <2>4. q[k] = (p[k] + n) % Modulus /\ \A c \in Categories : c # k => q[c] = p[c]
    BY <1>11, <2>1, <2>3
  <2>5. AllOf(q) % Modulus = ((AllOf(p) % Modulus) + n) % Modulus
    BY <2>4, OneCounterGrows
  <2>6. QED  BY <2>1, <2>3, <2>5
<1>14. AllOf(pages') % Modulus = SumUpTo(PagesAtAll, i + 1) % Modulus
  <2>1. AllOf(pages) % Modulus = SumUpTo(PagesAtAll, i) % Modulus
    BY <1>2 DEF MapInv, Sum
  <2>2. ((SumUpTo(PagesAtAll, i) % Modulus) + n) % Modulus = (SumUpTo(PagesAtAll, i) + n) % Modulus
    BY <1>7, <1>12, AddModulo
  <2>3. QED  BY <1>7, <1>10, <1>13, <2>1, <2>2
<1>15. ASSUME NEW c \in Categories
       PROVE  pages'[c] = SumUpTo(PagesIn(c), i + 1) % Modulus
  <2>1. pages[c] = SumUpTo(PagesIn(c), i) % Modulus
    BY <1>2 DEF MapInv, Sum
  <2>2. CASE c # k
    <3>1. SumUpTo(PagesIn(c), i + 1) = SumUpTo(PagesIn(c), i) + 0
      BY <1>7, <1>10, <2>2
    <3>2. pages'[c] = pages[c]
      BY <1>11, <2>2
    <3>3. QED  BY <1>7, <2>1, <3>1, <3>2
  <2>3. CASE c = k
    <3>1. SumUpTo(PagesIn(c), i + 1) = SumUpTo(PagesIn(c), i) + n
      BY <1>7, <1>10, <2>3
    <3>2. pages'[c] = (pages[c] + n) % Modulus
      BY <1>11, <2>3
    <3>3. ((SumUpTo(PagesIn(c), i) % Modulus) + n) % Modulus = (SumUpTo(PagesIn(c), i) + n) % Modulus
      <4>1. SumUpTo(PagesIn(c), i) \in Int /\ n \in Int
        BY <1>7
      <4>2. QED  BY <1>12, <4>1, AddModulo
    <3>4. QED  BY <2>1, <3>1, <3>2, <3>3
  <2>4. QED  BY <2>2, <2>3
<1>16. /\ walk \in {"json", "summary"} /\ walk' = walk
       /\ report' = report /\ console' = console /\ listing' = listing /\ listing = <<>>
  BY DEF Sum, MapInv
<1>17. /\ \A c \in Categories : pages'[c] = SumUpTo(PagesIn(c)', descriptorIndex') % Modulus
       /\ AllOf(pages') % Modulus = SumUpTo(PagesAtAll', descriptorIndex') % Modulus
  BY <1>1, <1>6, <1>14, <1>15
<1>18. /\ WellFormedMap(bootInfo)' /\ walk' \in {"json", "summary"}
       /\ descriptorIndex' \in 0 .. DescriptorCount'
       /\ at' = descriptorIndex' * bootInfo'.MemoryMapDescriptorSize
  BY <1>1, <1>3, <1>4, <1>6, <1>16 DEF MapInv
<1>19. walk' # "json" =>
          report' = [DescriptorCount |-> DescriptorCount', Pages |-> [c \in Categories |-> Wrap(c)']]
  BY <1>1, <1>16 DEF MapInv
<1>20. QED  BY <1>13, <1>16, <1>17, <1>18, <1>19 DEF MapInv

\* The report takes the counters, which begin again.
LEMMA JsonSummaryPreserves == MapInv /\ JsonAppendMemorySummary => MapInv'
<1> SUFFICES ASSUME MapInv, JsonAppendMemorySummary PROVE MapInv'
  OBVIOUS
<1>1. /\ Empty' = Empty /\ DescriptorCount' = DescriptorCount
      /\ PagesAtAll' = PagesAtAll /\ \A c : PagesIn(c)' = PagesIn(c)
      /\ \A c : Wrap(c)' = Wrap(c)
      /\ WellFormedMap(bootInfo)' = WellFormedMap(bootInfo) /\ bootInfo' = bootInfo
  BY SameMap DEF JsonAppendMemorySummary
<1>2. DescriptorCount \in Nat /\ WellFormedMap(bootInfo)
  BY CountTyped DEF MapInv
<1>3. Modulus \in Nat \ {0}
  BY ModulusAssumption
<1>4. NoPages \in [Categories -> 0 .. Modulus - 1] /\ AllOf(NoPages) = 0
  BY <1>3 DEF NoPages, AllOf, Categories
<1>5. /\ SumUpTo(PagesAtAll, 0) = 0
      /\ \A c : SumUpTo(PagesIn(c), 0) = 0
  BY <1>2, SumsGrow
<1>6. pages = [c \in Categories |-> Wrap(c)]
  BY DEF MapInv, JsonAppendMemorySummary, Wrap
<1>7. /\ walk' = "summary" /\ descriptorIndex' = 0 /\ at' = 0 /\ pages' = NoPages
      /\ listing' = <<>>
      /\ report' = [DescriptorCount |-> DescriptorCount, Pages |-> pages]
  BY DEF JsonAppendMemorySummary, MapInv
<1>8. 0 % Modulus = 0
  BY <1>3
<1>9. \A c \in Categories : pages'[c] = SumUpTo(PagesIn(c)', 0) % Modulus
  BY <1>1, <1>5, <1>7, <1>8 DEF NoPages
<1>10. AllOf(pages') % Modulus = SumUpTo(PagesAtAll', 0) % Modulus
  BY <1>1, <1>4, <1>5, <1>7
<1>11. report' = [DescriptorCount |-> DescriptorCount', Pages |-> [c \in Categories |-> Wrap(c)']]
  BY <1>1, <1>6, <1>7
<1>12. 0 * bootInfo'.MemoryMapDescriptorSize = 0
  BY <1>1, <1>2 DEF WellFormedMap
<1>13. QED  BY <1>1, <1>2, <1>4, <1>7, <1>9, <1>10, <1>11, <1>12 DEF MapInv

\* So does the console, and the listing begins.
LEMMA SummaryPreserves == MapInv /\ PrintSummary => MapInv'
<1> SUFFICES ASSUME MapInv, PrintSummary PROVE MapInv'
  OBVIOUS
<1>1. /\ Empty' = Empty /\ DescriptorCount' = DescriptorCount
      /\ \A c : Wrap(c)' = Wrap(c)
      /\ WellFormedMap(bootInfo)' = WellFormedMap(bootInfo) /\ bootInfo' = bootInfo
  BY SameMap DEF PrintSummary
<1>2. DescriptorCount \in Nat /\ WellFormedMap(bootInfo)
  BY CountTyped DEF MapInv
<1>3. pages = [c \in Categories |-> Wrap(c)]
  BY DEF MapInv, PrintSummary, Wrap
<1>4. /\ walk' = "listing" /\ descriptorIndex' = 0 /\ at' = 0 /\ pages' = pages
      /\ listing' = <<>> /\ report' = report
      /\ console' = [DescriptorCount |-> DescriptorCount, Pages |-> pages] /\ ~Empty'
  BY <1>1 DEF PrintSummary, MapInv
<1>5. report = [DescriptorCount |-> DescriptorCount, Pages |-> [c \in Categories |-> Wrap(c)]]
  BY DEF MapInv, PrintSummary
<1>6. report' = [DescriptorCount |-> DescriptorCount', Pages |-> [c \in Categories |-> Wrap(c)']]
  BY <1>1, <1>4, <1>5
<1>7. console' = report'
  BY <1>3, <1>4, <1>5
<1>8. listing' = [i \in 1 .. descriptorIndex' |-> Written'[i]]
  BY <1>4
<1>9. 0 * bootInfo'.MemoryMapDescriptorSize = 0
  BY <1>1, <1>2 DEF WellFormedMap
<1>10. pages' \in [Categories -> 0 .. Modulus - 1]
  BY <1>4 DEF MapInv
<1>11. QED  BY <1>1, <1>2, <1>4, <1>6, <1>7, <1>8, <1>9, <1>10 DEF MapInv

\* A line of the listing.
LEMMA ListPreserves == MapInv /\ PrintDescriptor => MapInv'
<1> SUFFICES ASSUME MapInv, PrintDescriptor PROVE MapInv'
  OBVIOUS
<1>1. /\ Empty' = Empty /\ DescriptorCount' = DescriptorCount /\ Written' = Written
      /\ \A c : Wrap(c)' = Wrap(c)
      /\ WellFormedMap(bootInfo)' = WellFormedMap(bootInfo) /\ bootInfo' = bootInfo
  BY SameMap DEF PrintDescriptor
<1>2. PICK i \in Nat : i = descriptorIndex
  BY CountTyped DEF MapInv
<1>3. PICK d \in Nat : d = bootInfo.MemoryMapDescriptorSize
  BY DEF MapInv, WellFormedMap
<1>4. /\ i < DescriptorCount /\ DescriptorCount \in Nat /\ i + 1 \in 0 .. DescriptorCount
      /\ i \in 0 .. DescriptorCount /\ WellFormedMap(bootInfo)
  BY <1>2, CountTyped DEF PrintDescriptor, MapInv
<1>5. i * d \in Nat /\ (i + 1) * d = i * d + d
  BY <1>3, <1>4, DescriptorThere
<1>6. at = i * d /\ at' = (i + 1) * d /\ descriptorIndex' = i + 1
  BY <1>2, <1>3, <1>5 DEF PrintDescriptor, MapInv, NextDescriptor
<1>7. Written[i + 1] = <<bootInfo.MemoryMap[i * d + 1], bootInfo.MemoryMap[i * d + 2]>>
  BY <1>3, <1>4, SumsGrow
<1>8. PICK line : line = <<DescriptorType, NumberOfPages>>
  OBVIOUS
<1>9. line = Written[i + 1] /\ listing' = Append(listing, line)
  BY <1>6, <1>7, <1>8 DEF PrintDescriptor, DescriptorType, NumberOfPages
<1>10. listing = [j \in 1 .. i |-> Written[j]] /\ ~Empty /\ console = report
  BY <1>2 DEF MapInv, PrintDescriptor
<1>11. listing' = [j \in 1 .. i + 1 |-> Written[j]]
  <2>1. PICK f : f = [j \in 1 .. i |-> Written[j]]
    OBVIOUS
  <2>2. Len(f) = i /\ f \in Seq({line} \cup {Written[j] : j \in 1 .. i})
    BY <2>1
  <2>3. PICK g : g = Append(f, line)
    OBVIOUS
  <2>4. /\ g \in Seq({line} \cup {Written[j] : j \in 1 .. i})
        /\ DOMAIN g = 1 .. i + 1 /\ g[i + 1] = line
        /\ \A j \in 1 .. i : g[j] = f[j]
    BY <2>2, <2>3, AppendedSequence
  <2>5. g = [j \in 1 .. i + 1 |-> Written[j]]
    <3>1. g = [j \in 1 .. i + 1 |-> g[j]]
      BY <2>4
    <3>2. \A j \in 1 .. i + 1 : g[j] = Written[j]
      BY <1>9, <2>1, <2>4
    <3>3. QED  BY <3>1, <3>2
  <2>6. QED  BY <1>9, <1>10, <2>1, <2>3, <2>5
<1>12. /\ walk = "listing" /\ walk' = walk /\ pages' = pages /\ report' = report /\ console' = console
  BY DEF PrintDescriptor
<1>13. report' = [DescriptorCount |-> DescriptorCount', Pages |-> [c \in Categories |-> Wrap(c)']]
  BY <1>1, <1>12 DEF MapInv
<1>14. listing' = [j \in 1 .. descriptorIndex' |-> Written'[j]]
  BY <1>1, <1>6, <1>11
<1>15. /\ descriptorIndex' \in 0 .. DescriptorCount'
       /\ at' = descriptorIndex' * bootInfo'.MemoryMapDescriptorSize
       /\ pages' \in [Categories -> 0 .. Modulus - 1]
  BY <1>1, <1>3, <1>4, <1>6, <1>12 DEF MapInv
<1>16. QED  BY <1>1, <1>4, <1>10, <1>12, <1>13, <1>14, <1>15 DEF MapInv

\* An empty map is refused, and the listing ends.
LEMMA EndPreserves == MapInv /\ (RefuseEmpty \/ EndListing \/ UNCHANGED mapvars) => MapInv'
<1> SUFFICES ASSUME MapInv, RefuseEmpty \/ EndListing \/ UNCHANGED mapvars PROVE MapInv'
  OBVIOUS
<1>1. /\ UNCHANGED <<bootInfo, descriptorIndex, at, pages, report, console, listing>>
      /\ \/ walk' = walk
         \/ walk = "summary" /\ Empty /\ walk' = "over"
         \/ walk = "listing" /\ descriptorIndex = DescriptorCount /\ walk' = "over"
  BY DEF RefuseEmpty, EndListing, mapvars
<1>2. /\ Empty' = Empty /\ DescriptorCount' = DescriptorCount
      /\ Written' = Written /\ PagesAtAll' = PagesAtAll
      /\ \A c : PagesIn(c)' = PagesIn(c)
      /\ \A c : Wrap(c)' = Wrap(c)
      /\ WellFormedMap(bootInfo)' = WellFormedMap(bootInfo)
  BY <1>1, SameMap
<1>3. QED  BY <1>1, <1>2 DEF MapInv

\* No step of the readers breaks their invariant.
LEMMA MapStepPreserves == MapInv /\ [MNext]_mapvars => MapInv'
  BY SumPreserves, JsonSummaryPreserves, SummaryPreserves, ListPreserves, EndPreserves DEF MNext

\* It holds of a map before it is read.
LEMMA MapStarts == WellFormedMap(bootInfo) /\ MInit => MapInv
<1> SUFFICES ASSUME WellFormedMap(bootInfo), MInit PROVE MapInv
  OBVIOUS
<1>1. DescriptorCount \in Nat
  BY CountTyped
<1>2. Modulus \in Nat \ {0}
  BY ModulusAssumption
<1>3. NoPages \in [Categories -> 0 .. Modulus - 1] /\ AllOf(NoPages) = 0
  BY <1>2 DEF NoPages, AllOf, Categories
<1>4. /\ SumUpTo(PagesAtAll, 0) = 0
      /\ \A c : SumUpTo(PagesIn(c), 0) = 0
  BY SumsGrow
<1>5. 0 % Modulus = 0
  BY <1>2
<1>6. 0 * bootInfo.MemoryMapDescriptorSize = 0
  BY DEF WellFormedMap
<1>7. \A c \in Categories : NoPages[c] = SumUpTo(PagesIn(c), 0) % Modulus
  BY <1>4, <1>5 DEF NoPages
<1>8. QED  BY <1>1, <1>3, <1>4, <1>6, <1>7 DEF MapInv, MInit

\* It says that no page is lost and none counted twice.
LEMMA EveryPageIsCounted == MapInv => EveryPageInOneCategory
<1> SUFFICES ASSUME MapInv PROVE EveryPageInOneCategory
  OBVIOUS
<1>1. PICK i \in Nat : i = descriptorIndex
  BY CountTyped DEF MapInv
<1>2. i < DescriptorCount => i * bootInfo.MemoryMapDescriptorSize + 2 <= Len(bootInfo.MemoryMap)
  BY DescriptorThere DEF MapInv
<1>3. QED  BY <1>1, <1>2 DEF MapInv, EveryPageInOneCategory

\* At the end it says that report, console and listing agree.
LEMMA ListingsAgree == MapInv => ConsoleMatchesReport
<1> SUFFICES ASSUME MapInv, walk = "over", ~Empty
             PROVE  /\ console = report /\ listing = Written
                    /\ \A c \in Categories :
                          console.Pages[c] = SumUpTo(PagesIn(c), Len(listing)) % Modulus
  BY DEF ConsoleMatchesReport
<1>1. DescriptorCount \in Nat
  BY CountTyped DEF MapInv
<1>2. console = report /\ listing = [i \in 1 .. DescriptorCount |-> Written[i]]
  BY DEF MapInv
<1>3. listing = Written /\ Len(listing) = DescriptorCount
  BY <1>1, <1>2 DEF Written
<1>4. report.Pages = [c \in Categories |-> Wrap(c)]
  BY DEF MapInv
<1>5. QED  BY <1>2, <1>3, <1>4 DEF Wrap

-----------------------------------------------------------------------------
(***************************************************************************)
(* The program: whatever system it is started on, it hands each walk what  *)
(* that walk's invariant asks for, and no other part writes its state.     *)
(***************************************************************************)
\* How far the parts are when: the scan gets what the console's lookup found,
\* and is over before the report is begun; without an RSDP there is none.
TurnInv ==
    /\ machine = McfgAt(memory, LookedUp("MCFG"), machine.functions)
    /\ turn \in {"acpi", "madt", "pci", "handoff", "smbios", "report", "memory", "done"}
    /\ acpiJson # NULL => acpiConsole # NULL /\ turn \in {"report", "memory", "done"}
    /\ rsdp = NULL => /\ turn \notin {"madt", "pci"}
                      /\ pcipc = "list" /\ listed = <<>> /\ scanned = <<>>
    /\ rsdp # NULL /\ turn \in {"handoff", "smbios", "report", "memory", "done"} => pcipc = "done"

ConsoleInv == AInv /\ MadtInv /\ PciInv /\ SmbiosInv /\ MapInv /\ TurnInv

\* A lookup ends at an address there is a table at, or at 0.
LEMMA LookupInMemory ==
    ASSUME AcpiMemory(rsdp, memory), NEW signature
    PROVE  LookedUp(signature) \in DOMAIN memory
<1> DEFINE entries == Entries(memory[RootOf], RootEntrySize)
           hits == StrictHits(entries, signature)
<1>1. 0 \in DOMAIN memory
  BY DEF AcpiMemory
<1>2. CASE rsdp # NULL /\ LookedUp(signature) # 0
  <2>1. LookedUp(signature) = FindAcpiTable(RootOf, RootName, RootEntrySize, signature)
    BY <1>2 DEF LookedUp
  <2>2. ValidateAcpiTable(RootOf, RootName)
    BY <1>2, <2>1 DEF FindAcpiTable
  <2>3. /\ entries \in Seq(DOMAIN memory)
        /\ DOMAIN entries = 1 .. Len(entries) /\ Len(entries) \in Nat
    BY <1>2, <2>2, SameRoot
  <2>4. Min(hits) \in hits /\ LookedUp(signature) = entries[Min(hits)]
    BY <1>2, <2>1, <2>2, <2>3, StrictSearch
  <2>5. Min(hits) \in DOMAIN entries
    BY <2>4 DEF StrictHits
  <2> HIDE DEF entries, hits
  <2>6. QED  BY <2>3, <2>4, <2>5, ElementOfSeq
<1>3. CASE ~(rsdp # NULL /\ LookedUp(signature) # 0)
  BY <1>1, <1>3 DEF LookedUp
<1>4. QED  BY <1>2, <1>3

\* The program starts in all of the invariants.
LEMMA ConsoleStarts == CInit => ConsoleInv
<1> SUFFICES ASSUME CInit PROVE ConsoleInv
  OBVIOUS
<1>1. /\ AInit /\ MadtCalled /\ PciInit /\ SmbiosCalled /\ MInit
      /\ AcpiMemory(rsdp, memory) /\ table \in Tables
      /\ WellFormedMachine(machine) /\ firmware \in Firmwares
      /\ WellFormedMap(bootInfo)
      /\ machine = McfgAt(memory, LookedUp("MCFG"), machine.functions)
  <2>0. PICK family \in Systems : \E s \in family :
           /\ rsdp = s.rsdp /\ memory = s.memory
           /\ table = IF LookedUp("APIC") # 0 THEN s.table ELSE NoMadt
           /\ machine = McfgAt(memory, LookedUp("MCFG"), s.functions)
           /\ firmware = s.firmware /\ bootInfo = s.map
    BY DEF CInit
  <2>1. PICK s \in family :
           /\ rsdp = s.rsdp /\ memory = s.memory
           /\ table = IF LookedUp("APIC") # 0 THEN s.table ELSE NoMadt
           /\ machine = McfgAt(memory, LookedUp("MCFG"), s.functions)
           /\ firmware = s.firmware /\ bootInfo = s.map
    BY <2>0
  <2>2. /\ s.table \in Tables /\ s.firmware \in Firmwares
        /\ AcpiMemory(s.rsdp, s.memory) /\ WellFormedMap(s.map)
        /\ \A a \in DOMAIN s.memory : WellFormedMachine(McfgAt(s.memory, a, s.functions))
    BY SystemsAssumption
  <2>3. table \in Tables
    BY <2>1, <2>2, NothingAssumption
  <2>4. WellFormedMachine(machine)
    BY <2>1, <2>2, LookupInMemory
  <2>5. machine.functions = s.functions
    BY <2>1 DEF McfgAt
  <2>6. machine = McfgAt(memory, LookedUp("MCFG"), machine.functions)
    BY <2>1, <2>5
  <2>7. QED  BY <2>1, <2>2, <2>3, <2>4, <2>6 DEF CInit
<1>2. AInv
  BY <1>1 DEF AInv, AInit
<1>3. MadtInv /\ PciInv
  BY <1>1, MadtStarts, PciStarts
<1>4. SmbiosInv
  BY <1>1, SmbiosInitEstablishes DEF SmbiosInit
<1>5. MapInv
  BY <1>1, MapStarts
<1>6. TurnInv
  BY <1>1 DEF CInit, AInit, PciInit, TurnInv
<1>7. QED  BY <1>2, <1>3, <1>4, <1>5, <1>6 DEF ConsoleInv

\* A step of the program is, for each walk, one of its own or none.
LEMMA EachWalkOnItsOwn ==
    ASSUME [CNext]_consolevars
    PROVE  /\ PrintAcpiTables \/ ReportAcpi \/ UNCHANGED avars
           /\ [PrintMadt]_madtvars
           /\ [PciNext]_pcivars
           /\ [SmbiosNext]_svars
           /\ [MNext]_mapvars
<1>1. CASE UNCHANGED consolevars
  BY <1>1 DEF consolevars
<1>2. CASE ShowAcpi
  BY <1>2 DEF ShowAcpi
<1>3. CASE ShowMadt
  BY <1>3 DEF ShowMadt
<1>4. CASE ShowPci
  BY <1>4 DEF ShowPci
<1>5. CASE BuildHandoff \/ ReportFails
  BY <1>5 DEF BuildHandoff, ReportFails
<1>6. CASE ShowSmbios
  BY <1>6 DEF ShowSmbios
<1>7. CASE ReportTables
  BY <1>7 DEF ReportTables
<1>8. CASE ReportMemory \/ ShowMemory
  BY <1>8 DEF ReportMemory, ShowMemory
<1>9. QED  BY <1>1, <1>2, <1>3, <1>4, <1>5, <1>6, <1>7, <1>8 DEF CNext

\* No part writes what the program was given, so a lookup would find the same
\* again.
LEMMA SameLookup ==
    ASSUME [CNext]_consolevars
    PROVE  /\ rsdp' = rsdp /\ memory' = memory /\ machine' = machine
           /\ LookedUp("MCFG")' = LookedUp("MCFG")
<1>1. rsdp' = rsdp /\ memory' = memory
  BY EachWalkOnItsOwn DEF PrintAcpiTables, ReportAcpi, avars
<1>2. machine' = machine
  BY EachWalkOnItsOwn DEF PciNext, pcivars, ListWindow, EndWindows, BeginScan, SkipWindow,
     EndScan, NoFunction, PrintPciFunction, PrintPciBars, EndBars
<1>3. LookedUp("MCFG")' = LookedUp("MCFG")
  BY <1>1 DEF LookedUp, FindAcpiTable, ValidateAcpiTable, SelectInSeq, RootOf, RootName,
     RootEntrySize
<1>4. QED  BY <1>1, <1>2, <1>3

\* The turn goes on to the report only when the scan is over.
LEMMA TurnKept == TurnInv /\ [CNext]_consolevars => TurnInv'
<1> SUFFICES ASSUME TurnInv, [CNext]_consolevars PROVE TurnInv'
  OBVIOUS
<1>1. /\ rsdp' = rsdp /\ memory' = memory /\ machine' = machine
      /\ machine' = McfgAt(memory, LookedUp("MCFG"), machine.functions)'
  BY SameLookup DEF TurnInv, McfgAt
<1>2. CASE UNCHANGED consolevars \/ BuildHandoff \/ ReportFails
  <2>1. UNCHANGED <<acpiConsole, acpiJson, pcipc, listed, scanned>>
    BY <1>2 DEF consolevars, avars, pcivars, BuildHandoff, ReportFails
  <2>2. \/ turn' = turn
        \/ turn = "handoff" /\ turn' \in {"smbios", "done"} /\ acpiJson = NULL
        \/ turn = "report" /\ turn' = "done"
    BY <1>2 DEF consolevars, BuildHandoff, ReportFails, TurnInv
  <2>3. QED  BY <1>1, <2>1, <2>2 DEF TurnInv
<1>3. CASE ShowAcpi
  <2>1. /\ turn = "acpi" /\ turn' = IF rsdp = NULL THEN "handoff" ELSE "madt"
        /\ UNCHANGED <<acpiJson, pcipc, listed, scanned>>
    BY <1>3 DEF ShowAcpi, PrintAcpiTables, pcivars
  <2>2. QED  BY <1>1, <2>1 DEF TurnInv
<1>4. CASE ShowMadt
  <2>1. /\ turn = "madt" /\ turn' \in {"madt", "pci"}
        /\ UNCHANGED <<acpiConsole, acpiJson, pcipc, listed, scanned>>
    BY <1>4 DEF ShowMadt, avars, pcivars
  <2>2. QED  BY <1>1, <2>1 DEF TurnInv
<1>5. CASE ShowPci
  <2>1. /\ turn = "pci" /\ turn' = IF pcipc' = "done" THEN "handoff" ELSE "pci"
        /\ UNCHANGED <<acpiConsole, acpiJson>>
    BY <1>5 DEF ShowPci, avars
  <2>2. QED  BY <1>1, <2>1 DEF TurnInv
<1>6. CASE ShowSmbios \/ ReportMemory \/ ShowMemory
  <2>1. UNCHANGED <<acpiConsole, acpiJson, pcipc, listed, scanned>>
    BY <1>6 DEF ShowSmbios, ReportMemory, ShowMemory, avars, pcivars
  <2>2. \/ turn = "smbios" /\ turn' \in {"smbios", "report"}
        \/ turn = "report" /\ turn' \in {"report", "memory", "done"}
        \/ turn = "memory" /\ turn' \in {"memory", "done"}
    BY <1>6 DEF ShowSmbios, ReportMemory, ShowMemory
  <2>3. QED  BY <1>1, <2>1, <2>2 DEF TurnInv
<1>7. CASE ReportTables
  <2>1. /\ turn = "report" /\ turn' = turn /\ acpiConsole # NULL
        /\ UNCHANGED <<acpiConsole, pcipc, listed, scanned>>
    BY <1>7 DEF ReportTables, ReportAcpi, pcivars
  <2>2. QED  BY <1>1, <2>1 DEF TurnInv
<1>8. QED  BY <1>2, <1>3, <1>4, <1>5, <1>6, <1>7 DEF CNext

\* All of the invariants hold of every run of the program.
LEMMA ConsoleInvariant == CSpec => []ConsoleInv
<1>1. ConsoleInv /\ [CNext]_consolevars => ConsoleInv'
  BY EachWalkOnItsOwn, AcpiStepPreserves, MadtStepPreserves, PciStepPreserves,
     SmbiosNextPreserves, MapStepPreserves, TurnKept DEF ConsoleInv
<1>2. QED  BY <1>1, ConsoleStarts, PTL DEF CSpec

\* PrintMadt is called with a table of the firmware or with NULL, and what the
\* program does between its calls is nothing to it: all that is proved of the
\* walk holds of the program.
THEOREM ProgramWalksMadt == CSpec => MadtSpec
<1>1. CInit => MadtInit
  BY ConsoleStarts DEF CInit, MadtInit, ConsoleInv, MadtInv
<1>2. [CNext]_consolevars => [PrintMadt]_madtvars
  BY EachWalkOnItsOwn
<1>3. QED  BY <1>1, <1>2, PTL DEF CSpec, MadtSpec

\* The same of PrintSmbiosBasicInfo and the entry points UefiMain found.
THEOREM ProgramWalksSmbios == CSpec => SmbiosSpec
<1>1. CInit => SmbiosInit
  BY ConsoleStarts DEF CInit, SmbiosInit, ConsoleInv, SmbiosInv
<1>2. [CNext]_consolevars => [SmbiosNext]_svars
  BY EachWalkOnItsOwn
<1>3. QED  BY <1>1, <1>2, PTL DEF CSpec, SmbiosSpec

\* FirmwareView.efi prints what the firmware wrote in its SMBIOS table.
THEOREM ProgramPrintsWritten == CSpec => []PrintsWhatWasWritten
BY ProgramWalksSmbios, SmbiosPrintsWritten, PTL

\* For any firmware memory: the console's search finds a table to be trusted if
\* its root lists one, and nothing else; the report's has a table of that name
\* too, no later in the root, and another one only if that is not to be
\* trusted; and on sound firmware FirmwareView.json tells of ACPI what the
\* console shows.
THEOREM LookupsDoAgree == CSpec => []LookupsAgree
<1>1. ConsoleInv => LookupsAgree
  BY AnyValidIsFound, NothingMissed, SoundViewsAgree DEF ConsoleInv, LookupsAgree
<1>2. QED  BY <1>1, ConsoleInvariant, PTL

\* PrintMadt lists a well-formed table record by record, to its last, and
\* reads nothing behind it; over any other it reads 15 bytes too many at most.
THEOREM MadtIsListed == CSpec => [](ListsEveryRecord /\ OverreadBounded)
<1>1. ConsoleInv => ListsEveryRecord /\ OverreadBounded
  BY RecordsAreListed DEF ConsoleInv, MadtInv
<1>2. QED  BY <1>1, ConsoleInvariant, PTL

\* ScanPciBus gives a line to every function that answers on the first bus of
\* a valid window, for any number of windows wherever they lie, and to nothing
\* else, and reads configuration space inside its window only.
THEOREM FunctionsAreListed == CSpec => []ListsEveryFunction
<1>1. ConsoleInv => ListsEveryFunction
  BY EveryFunctionIsListed DEF ConsoleInv
<1>2. QED  BY <1>1, ConsoleInvariant, PTL

\* PrintPciBars prints the BARs a function has, for any mixture of 32-bit and
\* 64-bit ones and any addresses in them, and no upper half as one.
THEOREM BarsArePrinted == CSpec => []BarsAsDeclared
<1>1. ConsoleInv => BarsAsDeclared
  BY BarsAreDeclared DEF ConsoleInv
<1>2. QED  BY <1>1, ConsoleInvariant, PTL

\* What the readers are told of a lookup.
LEMMA FieldsOfMcfg ==
    ASSUME NEW m, NEW a, NEW functions, NEW r, r = McfgAt(m, a, functions)
    PROVE  r.found = (a # 0) /\ r.signed = (m[a].signature = "MCFG")
BY Zenon DEF McfgAt

\* The windows of the report and those that were scanned, when the report has
\* looked for the MCFG too.
LEMMA WindowsDoAgree == ConsoleInv => WindowsAgree
<1> SUFFICES ASSUME ConsoleInv PROVE WindowsAgree
  OBVIOUS
<1> DEFINE same == McfgAt(memory, acpiJson.mcfg, machine.functions)
<1>1. AInv /\ PciInv /\ TurnInv
  BY DEF ConsoleInv
<1>2. pcipc # "list" => IsPrefix(scanned, listed)
  BY <1>1, ScannedWereListed
<1>3. ASSUME acpiJson # NULL
      PROVE  /\ acpiConsole # NULL
             /\ LookedUp("MCFG") = acpiConsole["mcfg"]
             /\ rsdp # NULL => pcipc = "done"
             /\ rsdp = NULL => listed = <<>> /\ scanned = <<>> /\ acpiConsole["mcfg"] = 0
             /\ machine.found => machine.signed
  <2>1. "mcfg" \in DOMAIN Signatures /\ Signatures["mcfg"] = "MCFG"
    BY DEF Signatures
  <2>2. acpiConsole # NULL /\ turn \in {"report", "memory", "done"}
    BY <1>1, <1>3 DEF TurnInv
  <2>3. /\ LookedUp("MCFG") = acpiConsole["mcfg"]
        /\ rsdp = NULL => acpiConsole["mcfg"] = 0
    BY <1>1, <2>1, <2>2, ByName DEF LookedUp
  <2>4. acpiConsole["mcfg"] # 0 => memory[acpiConsole["mcfg"]].signature = "MCFG"
    BY <1>1, <2>1, <2>2, AnyValidIsFound DEF ValidOneIsFound
  <2>5. machine.found => machine.signed
    <3>1. machine = McfgAt(memory, acpiConsole["mcfg"], machine.functions)
      BY <1>1, <2>3 DEF TurnInv
    <3>2. /\ machine.found = (acpiConsole["mcfg"] # 0)
          /\ machine.signed = (memory[acpiConsole["mcfg"]].signature = "MCFG")
      BY <3>1, FieldsOfMcfg
    <3>3. QED  BY <2>4, <3>2
  <2>6. QED  BY <1>1, <2>2, <2>3, <2>5 DEF TurnInv
<1>4. ASSUME acpiJson # NULL
      PROVE  scanned = listed
  <2>1. CASE rsdp = NULL
    BY <1>3, <1>4, <2>1
  <2>2. CASE rsdp # NULL
    BY <1>1, <1>3, <1>4, <2>2, ScannedAreReported
  <2>3. QED  BY <2>1, <2>2
<1>5. ASSUME acpiJson # NULL, acpiJson.mcfg = acpiConsole.mcfg
      PROVE  LET reported == ReportedWindows(same)
             IN  /\ \A i \in DOMAIN scanned :
                       /\ scanned[i] + 1 \in DOMAIN reported
                       /\ reported[scanned[i] + 1] = machine.windows[scanned[i] + 1]
                 /\ \A i \in DOMAIN reported :
                       i - 1 \notin Range(scanned) => InvalidForListing(reported[i])
  <2>1. same = machine
    BY <1>1, <1>3, <1>5 DEF TurnInv
  <2>2. CASE rsdp = NULL
    <3>1. scanned = <<>> /\ ~machine.found
      <4>1. acpiJson.mcfg = 0 /\ machine = McfgAt(memory, acpiJson.mcfg, machine.functions)
        BY <1>3, <1>5, <2>1, <2>2
      <4>2. machine.found = (acpiJson.mcfg # 0)
        BY <4>1, FieldsOfMcfg
      <4>3. QED  BY <1>3, <1>5, <2>2, <4>1, <4>2
    <3>2. ReportedWindows(machine) = <<>>
      BY <3>1 DEF ReportedWindows
    <3>3. QED  BY <2>1, <3>1, <3>2
  <2>3. CASE rsdp # NULL
    BY <1>1, <1>3, <1>5, <2>1, <2>3, ScannedAreReported
  <2>4. QED  BY <2>2, <2>3
<1>6. ASSUME acpiJson # NULL, acpiJson.mcfg # acpiConsole.mcfg
      PROVE  acpiJson.mcfg # 0 /\ ~TrustedTable(acpiJson.mcfg)
  <2>1. "mcfg" \in DOMAIN Signatures
    BY DEF Signatures
  <2>2. /\ acpiConsole["mcfg"] # 0 => acpiJson["mcfg"] # 0
        /\ acpiJson["mcfg"] # acpiConsole["mcfg"] => ~TrustedTable(acpiJson["mcfg"])
    BY <1>1, <1>3, <1>6, <2>1, NothingMissed DEF ReportMissesNothing
  <2>3. QED  BY <1>6, <2>2
<1> HIDE DEF same
<1>7. QED  BY <1>2, <1>4, <1>5, <1>6 DEF WindowsAgree, same

\* The three lists of ECAM windows, made by PrintMcfg, by the scan and by the
\* report, whose lookup is another, agree on which windows there are; where
\* the report has an MCFG the console has not, that one is not to be trusted.
THEOREM WindowListsAgree == CSpec => []WindowsAgree
<1>1. ConsoleInv => WindowsAgree
  BY WindowsDoAgree
<1>2. QED  BY <1>1, ConsoleInvariant, PTL

\* Whatever map the firmware leaves, the counters of report and console have
\* every page of every descriptor once, in its category, but for multiples of
\* the modulus, and nothing is read outside a descriptor.
THEOREM PagesAreCounted == CSpec => []EveryPageInOneCategory
<1>1. ConsoleInv => EveryPageInOneCategory
  BY EveryPageIsCounted DEF ConsoleInv
<1>2. QED  BY <1>1, ConsoleInvariant, PTL

\* The memory summary on the console is the one of the report, and the list
\* under it is the map the firmware wrote, line by line.
THEOREM MemorySummariesAgree == CSpec => []ConsoleMatchesReport
<1>1. ConsoleInv => ConsoleMatchesReport
  BY ListingsAgree DEF ConsoleInv
<1>2. QED  BY <1>1, ConsoleInvariant, PTL
=============================================================================
