----------------------------- MODULE AcpiTables -----------------------------
(***************************************************************************)
(* How the program finds ACPI tables, twice: PrintAcpiTables of            *)
(* Acpi/AcpiTables.c for the console, and the lookups of                   *)
(* Report/FirmwareJson.c for the report.  The two are separate code over   *)
(* the same memory, and only the first validates what it finds.            *)
(*                                                                         *)
(* Firmware memory maps an address to the table there; address 0 is no     *)
(* table to the console, and to an unchecked reader whatever lies on page  *)
(* zero.  A table is its signature, its Length, whether its bytes sum to   *)
(* zero, and for a root its entries, for the MCFG its ECAM windows.        *)
(***************************************************************************)
EXTENDS Integers, Sequences, SequencesExt

CONSTANT NULL          \* no RSDP, nothing shown yet

VARIABLES rsdp,        \* the root pointer UefiMain found, or NULL
          memory,      \* firmware memory
          acpiConsole, \* what PrintAcpiTables showed, NULL before
          acpiJson     \* what the report says of ACPI, NULL before

avars == <<rsdp, memory, acpiConsole, acpiJson>>

HeaderSize == 36       \* sizeof(EFI_ACPI_DESCRIPTION_HEADER)

XsdtEntrySize == 8
RsdtEntrySize == 4

\* Memory as the program may find it: every address it is led to, from an RSDP
\* or from a root, holds a table, and a root has the entries its Length speaks
\* of in entries of its own size.  Nothing is said of what the tables are.
AcpiMemory(p, m) ==
    /\ 0 \in DOMAIN m
    /\ \A a \in DOMAIN m : m[a].length \in Nat /\ m[a].entries \in Seq(DOMAIN m)
    /\ p # NULL =>
          /\ p.revision \in Nat /\ p.xsdt \in DOMAIN m /\ p.rsdt \in DOMAIN m
          /\ (m[p.xsdt].length - HeaderSize) \div XsdtEntrySize <= Len(m[p.xsdt].entries)
          /\ (m[p.rsdt].length - HeaderSize) \div RsdtEntrySize <= Len(m[p.rsdt].entries)

\* The number of whole entries behind the header of a root.
EntryCount(root, entrySize) == (root.length - HeaderSize) \div entrySize

Entries(root, entrySize) == SubSeq(root.entries, 1, EntryCount(root, entrySize))

-----------------------------------------------------------------------------
(* The console: Acpi/AcpiTables.c.                                         *)

\* ValidateAcpiTable; "any" for an ExpectedSignature of 0.
ValidateAcpiTable(address, signature) ==
    /\ address # 0
    /\ memory[address].length >= HeaderSize
    /\ signature \in {"any", memory[address].signature}
    /\ memory[address].checksum = 0

\* Defect: the search stops at the first table of the name, valid or not.
FindAcpiTableFirstNamed(root, rootName, entrySize, signature) ==
    IF ~ValidateAcpiTable(root, rootName) THEN 0
    ELSE LET entries == Entries(memory[root], entrySize)
             first == SelectInSeq(entries, LAMBDA a : a # 0 /\ memory[a].signature = signature)
         IN  IF first # 0 /\ ValidateAcpiTable(entries[first], signature) THEN entries[first] ELSE 0

\* FindAcpiTableInXsdt and FindAcpiTableInRsdt: the first valid table of the
\* name in a valid root, else 0.
FindAcpiTable(root, rootName, entrySize, signature) ==
    IF ~ValidateAcpiTable(root, rootName) THEN 0
    ELSE LET entries == Entries(memory[root], entrySize)
             first == SelectInSeq(entries, LAMBDA a : /\ ValidateAcpiTable(a, "any")
                                                      /\ memory[a].signature = signature)
         IN  IF first = 0 THEN 0 ELSE entries[first]

\* PrintXsdtTables and PrintRsdtTables: a line per entry of a valid root.
PrintRootTables(root, rootName, entrySize) ==
    IF ~ValidateAcpiTable(root, rootName) THEN <<>>
    ELSE LET entries == Entries(memory[root], entrySize)
         IN  [i \in DOMAIN entries |->
                CASE ValidateAcpiTable(entries[i], "any")       -> memory[entries[i]].signature
                  [] entries[i] = 0                             -> "null"
                  [] OTHER                                      -> "invalid"]

\* What PrintAcpiTables shows with one root.
ShownFrom(root, rootName, entrySize) ==
    [tables |-> PrintRootTables(root, rootName, entrySize),
     madt   |-> FindAcpiTable(root, rootName, entrySize, "APIC"),
     mcfg   |-> FindAcpiTable(root, rootName, entrySize, "MCFG")]

\* The root an RSDP of this revision leads the console to.
RootOf == IF rsdp.revision >= 2 THEN rsdp.xsdt ELSE rsdp.rsdt
RootEntrySize == IF rsdp.revision >= 2 THEN XsdtEntrySize ELSE RsdtEntrySize
RootName == IF rsdp.revision >= 2 THEN "XSDT" ELSE "RSDT"

\* PrintAcpiTables: revision 2 means the XSDT and nothing else.
PrintAcpiTables ==
    /\ acpiConsole = NULL
    /\ acpiConsole' = IF rsdp = NULL THEN [tables |-> <<>>, madt |-> 0, mcfg |-> 0]
                      ELSE ShownFrom(RootOf, RootName, RootEntrySize)
    /\ UNCHANGED <<rsdp, memory, acpiJson>>

-----------------------------------------------------------------------------
(* The report: Report/FirmwareJson.c.                                      *)

\* The signatures JsonAppendAcpiTables lists from a root it does not validate.
\* A Length below the header wraps around to an entry count without end.
ListedFrom(root, entrySize) ==
    IF memory[root].length < HeaderSize THEN <<"runaway">>
    ELSE LET entries == Entries(memory[root], entrySize)
         IN  [i \in DOMAIN entries |-> memory[entries[i]].signature]

UsesXsdt == rsdp.revision >= 2 /\ rsdp.xsdt # 0

\* JsonAppendAcpiTables: the XSDT if there is one, else the RSDT.
JsonAcpiTables ==
    IF rsdp = NULL THEN <<>>
    ELSE CASE UsesXsdt                      -> ListedFrom(rsdp.xsdt, XsdtEntrySize)
           [] ~UsesXsdt /\ rsdp.rsdt # 0    -> ListedFrom(rsdp.rsdt, RsdtEntrySize)
           [] ~UsesXsdt /\ rsdp.rsdt = 0    -> <<>>

\* Defect: a NULL entry ends the search.
FoundInToNull(root, entrySize, signature) ==
    LET entries == Entries(memory[root], entrySize)
        first == SelectInSeq(entries, LAMBDA a : \/ a = 0
                                                 \/ /\ memory[a].length >= HeaderSize
                                                    /\ memory[a].signature = signature)
    IN  IF first = 0 THEN 0 ELSE entries[first]

\* The first table of the name in a root, by Length and Signature alone.
FoundIn(root, entrySize, signature) ==
    LET entries == Entries(memory[root], entrySize)
        first == SelectInSeq(entries, LAMBDA a : /\ a # 0
                                                 /\ memory[a].length >= HeaderSize
                                                 /\ memory[a].signature = signature)
    IN  IF first = 0 THEN 0 ELSE entries[first]

ProperRoot(root, rootName) ==
    memory[root].length >= HeaderSize /\ memory[root].signature = rootName

InRsdt(signature) ==
    IF rsdp.rsdt # 0 /\ ProperRoot(rsdp.rsdt, "RSDT")
    THEN FoundIn(rsdp.rsdt, RsdtEntrySize, signature) ELSE 0

\* FindAcpiTableForJson: the XSDT first; an improper XSDT ends the search, one
\* without the table falls through to the RSDT.
FindAcpiTableForJson(signature) ==
    IF rsdp = NULL THEN 0
    ELSE LET proper == UsesXsdt /\ ProperRoot(rsdp.xsdt, "XSDT")
             inXsdt == FoundIn(rsdp.xsdt, XsdtEntrySize, signature)
         IN  CASE UsesXsdt /\ ~proper      -> 0
               [] proper /\ inXsdt # 0     -> inXsdt
               [] OTHER                    -> InRsdt(signature)

\* The ACPI part of the report, after the console was written.
ReportAcpi ==
    /\ acpiConsole # NULL
    /\ acpiJson = NULL
    /\ acpiJson' = [tables |-> JsonAcpiTables,
                    madt   |-> FindAcpiTableForJson("APIC"),
                    mcfg   |-> FindAcpiTableForJson("MCFG")]
    /\ UNCHANGED <<rsdp, memory, acpiConsole>>

AInit == acpiConsole = NULL /\ acpiJson = NULL

-----------------------------------------------------------------------------
\* Firmware as the ACPI specification wants it: the root its revision calls
\* for is valid, every table in it is, and an RSDT lists nothing else.
SoundFirmware ==
    /\ rsdp # NULL
    /\ ValidateAcpiTable(RootOf, RootName)
    /\ \A a \in Range(Entries(memory[RootOf], RootEntrySize)) : ValidateAcpiTable(a, "any")
    /\ rsdp.rsdt # 0 =>
          /\ ValidateAcpiTable(rsdp.rsdt, "RSDT")
          /\ Range(Entries(memory[rsdp.rsdt], RsdtEntrySize))
               \subseteq Range(Entries(memory[RootOf], RootEntrySize))

\* On sound firmware the console and the report tell the same of ACPI, though
\* they choose the root and search it with different code.
ViewsAgree == acpiConsole # NULL /\ acpiJson # NULL /\ SoundFirmware => acpiConsole = acpiJson

\* The two tables that are looked up by name, and a table that is to be trusted:
\* valid, and listed in a valid root.
Signatures == [madt |-> "APIC", mcfg |-> "MCFG"]

TrustedTable(a) ==
    /\ rsdp # NULL
    /\ ValidateAcpiTable(RootOf, RootName)
    /\ a \in Range(Entries(memory[RootOf], RootEntrySize))
    /\ ValidateAcpiTable(a, "any")

\* A corrupt table of the same name does not hide a trusted one behind it, nor
\* does a NULL entry end the search; and the console finds nothing else.
ValidOneIsFound ==
    acpiConsole # NULL =>
        \A name \in DOMAIN Signatures :
            /\ \A a \in DOMAIN memory :
                  TrustedTable(a) /\ memory[a].signature = Signatures[name] => acpiConsole[name] # 0
            /\ acpiConsole[name] # 0 =>
                  /\ TrustedTable(acpiConsole[name])
                  /\ memory[acpiConsole[name]].signature = Signatures[name]

\* Whatever table the console's strict search finds, the report's lax one has
\* a table of that name too, no later in the list.  It is another one only if
\* it is not to be trusted.
ReportMissesNothing ==
    acpiConsole # NULL /\ acpiJson # NULL =>
        \A name \in DOMAIN Signatures :
            /\ acpiConsole[name] # 0 =>
                  LET entries == Entries(memory[RootOf], RootEntrySize)
                      first(a) == CHOOSE i \in DOMAIN entries :
                                    /\ entries[i] = a
                                    /\ \A j \in DOMAIN entries : entries[j] = a => i <= j
                  IN  /\ acpiJson[name] # 0 /\ acpiJson[name] \in Range(entries)
                      /\ memory[acpiJson[name]].signature = Signatures[name]
                      /\ first(acpiJson[name]) <= first(acpiConsole[name])
            /\ acpiJson[name] # acpiConsole[name] => ~TrustedTable(acpiJson[name])

\* The console's search and the report's, written twice over the same memory,
\* lose no table that the program may trust, and tell the same of it.
LookupsAgree == ValidOneIsFound /\ ReportMissesNothing /\ ViewsAgree
=============================================================================
