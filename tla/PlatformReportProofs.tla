------------------------ MODULE PlatformReportProofs ------------------------
(***************************************************************************)
(* The report on a platform, for contracts of any length and any content:  *)
(* the reader of the contract has at every line what the lines before it   *)
(* say, so that an accepted contract is what its file says; the checks of  *)
(* the diagnostics are the verdicts on the demands of that file, one each; *)
(* and what the command writes and exits with follows from both.           *)
(***************************************************************************)
EXTENDS PlatformReport, FiniteSetTheorems, SequenceTheorems, TLAPS

Fields == {"loaded", "platform_id", "expected_firmware_vendor", "expected_firmware_vendors",
           "required_acpi_tables", "required_linux_artifacts", "min_memory_mib", "require_smbios"}

\* i is the last entry of a key before line n.
LastBefore(key, n, i) == /\ i \in EntriesOf(key) /\ i < n
                         /\ \A j \in EntriesOf(key) : j < n => j <= i

TextsUpTo(key, n) == {file[i].value : i \in ItemsUpTo(key, n)}

ListSoFar(n, key, list) ==
    /\ list \in Seq(TextsUpTo(key, n - 1))
    /\ Len(list) = Cardinality(ItemsUpTo(key, n - 1))
    /\ \A i \in ItemsUpTo(key, n - 1) :
          /\ Cardinality(ItemsUpTo(key, i)) \in 1 .. Len(list)
          /\ list[Cardinality(ItemsUpTo(key, i))] = file[i].value

TextSoFar(n, key, text) ==
    \/ text = Absent /\ \A i \in EntriesOf(key) : i >= n
    \/ \E i \in EntriesOf(key) : LastBefore(key, n, i) /\ text = file[i].value

NumberSoFar(n, number) ==
    \/ number = Unknown /\ \A i \in EntriesOf("min_memory_mib") : i >= n
    \/ \E i \in EntriesOf("min_memory_mib") :
          LastBefore("min_memory_mib", n, i) /\ number = file[i].number /\ number # Unknown

FlagSoFar(n, flag) ==
    \/ flag = FALSE /\ \A i \in EntriesOf("require_smbios") : i >= n
    \/ \E i \in EntriesOf("require_smbios") :
          LastBefore("require_smbios", n, i) /\ flag \in BOOLEAN /\ (flag <=> file[i].value \in True)

ScalarsSoFar(n, e) ==
    /\ TextSoFar(n, "platform_id", e.platform_id)
    /\ TextSoFar(n, "expected_firmware_vendor", e.expected_firmware_vendor)
    /\ NumberSoFar(n, e.min_memory_mib)
    /\ FlagSoFar(n, e.require_smbios)

\* current_list is the list an item in line n would belong to.
ListIsOn(n, c) ==
    \/ c = Absent /\ \A key \in ListKeys : ~Under(n, key)
    \/ c \in ListKeys /\ Under(n, c)

ReadSoFar(n, c, e) ==
    /\ \A i \in 1 .. n - 1 : WellFormedLine(i)
    /\ n > 1 => file # NoFile
    /\ ListIsOn(n, c)
    /\ DOMAIN e = Fields /\ e.loaded = TRUE
    /\ \A key \in ListKeys : ListSoFar(n, key, e[key])
    /\ ScalarsSoFar(n, e)

ReaderInv ==
    /\ ContractFile(file)
    /\ at \in 1 .. Len(file) + 1
    /\ \/ expected = NotLoaded /\ at = Len(file) + 1 /\ ~WellFormed
       \/ ReadSoFar(at, current, expected)

-----------------------------------------------------------------------------
\* A line that is neither blank nor an item is a head for the lines after it.
LEMMA HeadsNext ==
    ASSUME NEW n \in DOMAIN file, ContractFile(file)
    PROVE  Heads(n + 1) = IF file[n].kind \in {"blank", "item"} THEN Heads(n) ELSE Heads(n) \cup {n}
<1>1. n \in Nat /\ n >= 1
  BY DEF ContractFile
<1>2. QED  BY <1>1 DEF Heads

\* What the next line is below: the same as this one, unless this one is
\* a head itself.
LEMMA UnderNext ==
    ASSUME NEW n \in DOMAIN file, ContractFile(file), NEW key
    PROVE  Under(n + 1, key) <=> IF file[n].kind \in {"blank", "item"} THEN Under(n, key)
                                 ELSE n \in EntriesOf(key)
<1>1. n \in Nat /\ n >= 1
  BY DEF ContractFile
<1>2. CASE file[n].kind \in {"blank", "item"}
  BY <1>2, HeadsNext DEF Under
<1>3. CASE file[n].kind \notin {"blank", "item"}
  <2>1. Heads(n + 1) = Heads(n) \cup {n}
    BY <1>3, HeadsNext
  <2>2. \A k \in Heads(n) : k \in Nat /\ k < n
    BY <1>1 DEF Heads
  <2>3. n \in EntriesOf(key) => Under(n + 1, key)
    BY <1>1, <2>1, <2>2 DEF Under
  <2>4. Under(n + 1, key) => n \in EntriesOf(key)
    <3>1. SUFFICES ASSUME NEW j \in Heads(n + 1) \cap EntriesOf(key), n <= j PROVE n \in EntriesOf(key)
      BY <2>1 DEF Under
    <3>2. j = n
      BY <1>1, <2>1, <2>2, <3>1
    <3>3. QED  BY <3>1, <3>2
  <2>5. QED  BY <1>3, <2>3, <2>4
<1>4. QED  BY <1>2, <1>3

\* A line is below one key at most: no item is in two lists.
LEMMA UnderOne ==
    ASSUME NEW n \in Nat, NEW key, NEW other, Under(n, key), Under(n, other)
    PROVE  key = other
<1>1. PICK i \in Heads(n) \cap EntriesOf(key) : \A k \in Heads(n) : k <= i
  BY DEF Under
<1>2. PICK j \in Heads(n) \cap EntriesOf(other) : \A k \in Heads(n) : k <= j
  BY DEF Under
<1>3. i \in Nat /\ j \in Nat /\ i <= j /\ j <= i
  BY <1>1, <1>2 DEF Heads
<1>4. i = j
  BY <1>3
<1>5. QED  BY <1>4 DEF EntriesOf

\* One line more is one item more of the key it belongs to, of no other.
LEMMA ItemsNext ==
    ASSUME NEW n \in DOMAIN file, ContractFile(file), NEW key
    PROVE  /\ IsFiniteSet(ItemsUpTo(key, n - 1)) /\ IsFiniteSet(ItemsUpTo(key, n))
           /\ ItemsUpTo(key, n) = IF BelongsTo(n, key) THEN ItemsUpTo(key, n - 1) \cup {n}
                                  ELSE ItemsUpTo(key, n - 1)
           /\ n \notin ItemsUpTo(key, n - 1)
           /\ Cardinality(ItemsUpTo(key, n - 1)) \in Nat
           /\ Cardinality(ItemsUpTo(key, n)) = Cardinality(ItemsUpTo(key, n - 1))
                                               + IF BelongsTo(n, key) THEN 1 ELSE 0
<1>1. n \in Nat /\ n >= 1
  BY DEF ContractFile
<1>2. \A i \in DOMAIN file : i \in Nat
  BY DEF ContractFile
<1>3. IsFiniteSet(ItemsUpTo(key, n - 1)) /\ IsFiniteSet(ItemsUpTo(key, n))
  <2>1. IsFiniteSet(1 .. Len(file))
    BY FS_Interval DEF ContractFile
  <2>2. \A k : ItemsUpTo(key, k) \subseteq 1 .. Len(file)
    BY DEF ItemsUpTo, ItemsOf, ContractFile
  <2>3. QED  BY <2>1, <2>2, FS_Subset
<1>4. n \notin ItemsUpTo(key, n - 1)
  BY <1>1 DEF ItemsUpTo
<1>5. ItemsUpTo(key, n) = IF BelongsTo(n, key) THEN ItemsUpTo(key, n - 1) \cup {n}
                          ELSE ItemsUpTo(key, n - 1)
  BY <1>1, <1>2 DEF ItemsUpTo, ItemsOf
<1>6. Cardinality(ItemsUpTo(key, n - 1)) \in Nat
  BY <1>3, FS_CardinalityType
<1>7. BelongsTo(n, key) => Cardinality(ItemsUpTo(key, n)) = Cardinality(ItemsUpTo(key, n - 1)) + 1
  <2>1. Cardinality(ItemsUpTo(key, n - 1) \cup {n}) = Cardinality(ItemsUpTo(key, n - 1)) + 1
    BY <1>3, <1>4, FS_AddElement
  <2>2. QED  BY <1>5, <2>1
<1>8. QED  BY <1>3, <1>4, <1>5, <1>6, <1>7

\* Positions are numbers from 1 on.
LEMMA Position ==
    ASSUME ContractFile(file), NEW n \in DOMAIN file
    PROVE  n \in Nat /\ n >= 1 /\ (n + 1) - 1 = n
  BY DEF ContractFile

\* The missing file is one line of a kind of its own.
LEMMA KindIsNoFile ==
    ASSUME ContractFile(file), file = NoFile, NEW n \in DOMAIN file
    PROVE  file[n].kind = "no file"
<1>1. PICK r : r = [kind |-> "no file", key |-> NoText, value |-> NoText, number |-> Unknown]
  OBVIOUS
<1>2. r.kind = "no file"
  BY <1>1
<1>3. NoFile = <<r>>
  BY <1>1 DEF NoFile
<1>4. Len(NoFile) = 1 /\ NoFile[1] = r
  BY <1>3
<1>5. n = 1
  BY <1>4 DEF ContractFile
<1>6. QED  BY <1>2, <1>4, <1>5

\* A line that is no item of a key leaves that key's list as it is.
LEMMA ListKept ==
    ASSUME NEW n \in DOMAIN file, ContractFile(file), NEW key, NEW list,
           ListSoFar(n, key, list), ~BelongsTo(n, key)
    PROVE  ListSoFar(n + 1, key, list)
<1>1. n \in Nat /\ (n + 1) - 1 = n
  BY DEF ContractFile
<1>2. ItemsUpTo(key, n) = ItemsUpTo(key, n - 1)
  BY ItemsNext
<1>3. QED  BY <1>1, <1>2 DEF ListSoFar, TextsUpTo

\* An appended item stands at the place it has among the items of its key.
LEMMA ListGrows ==
    ASSUME NEW n \in DOMAIN file, ContractFile(file), NEW key, NEW list,
           ListSoFar(n, key, list), BelongsTo(n, key)
    PROVE  ListSoFar(n + 1, key, Append(list, file[n].value))
<1>1. n \in Nat /\ n >= 1 /\ (n + 1) - 1 = n
  BY DEF ContractFile
<1>2. PICK k \in Nat : k = Cardinality(ItemsUpTo(key, n - 1))
  BY ItemsNext
<1>3. /\ ItemsUpTo(key, n) = ItemsUpTo(key, n - 1) \cup {n}
      /\ Cardinality(ItemsUpTo(key, n)) = k + 1
  BY <1>2, ItemsNext
<1>4. list \in Seq(TextsUpTo(key, n)) /\ Len(list) = k /\ file[n].value \in TextsUpTo(key, n)
  <2>1. TextsUpTo(key, n - 1) \subseteq TextsUpTo(key, n) /\ file[n].value \in TextsUpTo(key, n)
    BY <1>3 DEF TextsUpTo
  <2>2. list \in Seq(TextsUpTo(key, n - 1)) /\ Len(list) = k
    BY <1>2 DEF ListSoFar
  <2>3. QED  BY <2>1, <2>2
<1>5. PICK longer : longer = Append(list, file[n].value)
  OBVIOUS
<1>6. /\ longer \in Seq(TextsUpTo(key, n)) /\ Len(longer) = k + 1
      /\ \A i \in 1 .. k : longer[i] = list[i]
      /\ longer[k + 1] = file[n].value
  BY <1>2, <1>4, <1>5, AppendProperties
<1>7. ASSUME NEW i \in ItemsUpTo(key, n)
      PROVE  /\ Cardinality(ItemsUpTo(key, i)) \in 1 .. Len(longer)
             /\ longer[Cardinality(ItemsUpTo(key, i))] = file[i].value
  <2>1. CASE i = n
    <3>1. Cardinality(ItemsUpTo(key, i)) = k + 1
      BY <1>3, <2>1
    <3>2. k + 1 \in 1 .. Len(longer)
      BY <1>2, <1>6
    <3>3. QED  BY <1>6, <2>1, <3>1, <3>2
  <2>2. CASE i # n
    <3>1. i \in ItemsUpTo(key, n - 1)
      BY <1>3, <2>2
    <3>2. /\ Cardinality(ItemsUpTo(key, i)) \in 1 .. k
          /\ list[Cardinality(ItemsUpTo(key, i))] = file[i].value
      BY <1>4, <3>1 DEF ListSoFar
    <3>3. QED  BY <1>2, <1>6, <3>2
  <2>3. QED  BY <2>1, <2>2
<1>8. ListSoFar(n + 1, key, longer)
  BY <1>1, <1>3, <1>6, <1>7 DEF ListSoFar
<1>9. QED  BY <1>5, <1>8

\* The entries of a key are lines of the file.
LEMMA PositionsAreNumbers ==
    ASSUME ContractFile(file), NEW key
    PROVE  \A i \in EntriesOf(key) : i \in Nat /\ i \in DOMAIN file
  BY DEF EntriesOf, ContractFile

\* Lines without a scalar key leave the scalars as they are.
LEMMA ScalarsKept ==
    ASSUME NEW n \in DOMAIN file, ContractFile(file), NEW e, ScalarsSoFar(n, e),
           \A key \in {"platform_id", "expected_firmware_vendor", "min_memory_mib", "require_smbios"} :
              n \notin EntriesOf(key)
    PROVE  ScalarsSoFar(n + 1, e)
<1>1. n \in Nat
  BY DEF ContractFile
<1>2. \A key, i : LastBefore(key, n, i) /\ n \notin EntriesOf(key) => LastBefore(key, n + 1, i)
  BY <1>1, PositionsAreNumbers DEF LastBefore
<1>3. \A key : n \notin EntriesOf(key) /\ (\A i \in EntriesOf(key) : i >= n)
                 => \A i \in EntriesOf(key) : i >= n + 1
  BY <1>1, PositionsAreNumbers
<1>4. TextSoFar(n + 1, "platform_id", e.platform_id)
  BY <1>2, <1>3 DEF ScalarsSoFar, TextSoFar
<1>5. TextSoFar(n + 1, "expected_firmware_vendor", e.expected_firmware_vendor)
  BY <1>2, <1>3 DEF ScalarsSoFar, TextSoFar
<1>6. NumberSoFar(n + 1, e.min_memory_mib)
  BY <1>2, <1>3 DEF ScalarsSoFar, NumberSoFar
<1>7. FlagSoFar(n + 1, e.require_smbios)
  BY <1>2, <1>3 DEF ScalarsSoFar, FlagSoFar
<1>8. QED  BY <1>4, <1>5, <1>6, <1>7 DEF ScalarsSoFar

\* A line that is no item takes no list further.
LEMMA ListsKept ==
    ASSUME NEW n \in DOMAIN file, ContractFile(file), NEW e, file[n].kind # "item",
           \A key \in ListKeys : ListSoFar(n, key, e[key])
    PROVE  \A key \in ListKeys : ListSoFar(n + 1, key, e[key])
  BY ListKept DEF BelongsTo

\* A blank line: no list ends, nothing is read.
LEMMA BlankRead ==
    ASSUME NEW n \in DOMAIN file, ContractFile(file), NEW c, NEW e, ReadSoFar(n, c, e),
           file[n].kind = "blank"
    PROVE  ReadSoFar(n + 1, c, e)
<1>1. n \in Nat /\ (n + 1) - 1 = n /\ n >= 1
  BY Position
<1>2. file # NoFile
  BY KindIsNoFile
<1>3. \A i \in 1 .. n : WellFormedLine(i)
  <2>1. WellFormedLine(n)
    BY DEF WellFormedLine
  <2>2. QED  BY <1>1, <2>1 DEF ReadSoFar
<1>4. ListIsOn(n + 1, c)
  BY UnderNext DEF ListIsOn, ReadSoFar
<1>5. \A key \in ListKeys : ListSoFar(n + 1, key, e[key])
  BY ListsKept DEF ReadSoFar
<1>6. ScalarsSoFar(n + 1, e)
  BY ScalarsKept DEF ReadSoFar, EntriesOf
<1>7. QED  BY <1>1, <1>2, <1>3, <1>4, <1>5, <1>6 DEF ReadSoFar

\* An item below a key that is a list.
LEMMA ItemRead ==
    ASSUME NEW n \in DOMAIN file, ContractFile(file), NEW c, NEW e, ReadSoFar(n, c, e),
           file[n].kind = "item", c # Absent,
           NEW f, f = [e EXCEPT ![c] = Append(@, file[n].value)]
    PROVE  ReadSoFar(n + 1, c, f)
<1>1. n \in Nat /\ (n + 1) - 1 = n /\ n >= 1
  BY Position
<1>2. file # NoFile
  BY KindIsNoFile
<1>3. c \in ListKeys /\ Under(n, c) /\ BelongsTo(n, c)
  BY DEF ReadSoFar, ListIsOn, BelongsTo
<1>4. \A i \in 1 .. n : WellFormedLine(i)
  <2>1. WellFormedLine(n)
    BY <1>3 DEF WellFormedLine
  <2>2. QED  BY <1>1, <2>1 DEF ReadSoFar
<1>5. ListIsOn(n + 1, c)
  BY <1>3, UnderNext DEF ListIsOn
<1>6. DOMAIN e = Fields /\ ListKeys \subseteq Fields
  BY DEF ReadSoFar, Fields, ListKeys
<1>7. DOMAIN f = Fields /\ \A x \in Fields : x # c => f[x] = e[x]
  BY <1>6
<1>8. f[c] = Append(e[c], file[n].value)
  BY <1>3, <1>6
<1>9. ASSUME NEW key \in ListKeys
      PROVE  ListSoFar(n + 1, key, f[key])
  <2>1. ListSoFar(n, key, e[key])
    BY DEF ReadSoFar
  <2>2. CASE key = c
    BY <1>3, <1>8, <2>1, <2>2, ListGrows
  <2>3. CASE key # c
    <3>1. ~BelongsTo(n, key)
      BY <1>1, <1>3, <2>3, UnderOne DEF BelongsTo
    <3>2. f[key] = e[key]
      BY <1>6, <1>7, <2>3
    <3>3. QED  BY <2>1, <3>1, <3>2, ListKept
  <2>4. QED  BY <2>2, <2>3
<1>10. /\ f.loaded = TRUE /\ f.platform_id = e.platform_id
       /\ f.expected_firmware_vendor = e.expected_firmware_vendor
       /\ f.min_memory_mib = e.min_memory_mib /\ f.require_smbios = e.require_smbios
  BY <1>3, <1>7 DEF Fields, ListKeys, ReadSoFar
<1>11. ScalarsSoFar(n + 1, f)
  <2>1. ScalarsSoFar(n + 1, e)
    BY ScalarsKept DEF ReadSoFar, EntriesOf
  <2>2. QED  BY <1>10, <2>1 DEF ScalarsSoFar
<1>12. QED  BY <1>1, <1>2, <1>4, <1>5, <1>7, <1>9, <1>10, <1>11 DEF ReadSoFar

\* The key of a list: the items that follow are its own.
LEMMA ListKeyRead ==
    ASSUME NEW n \in DOMAIN file, ContractFile(file), NEW c, NEW e, ReadSoFar(n, c, e),
           file[n].kind = "entry", file[n].key \in ListKeys, file[n].value = NoText
    PROVE  ReadSoFar(n + 1, file[n].key, e)
<1>1. n \in Nat /\ (n + 1) - 1 = n /\ n >= 1
  BY Position
<1>2. file # NoFile
  BY KindIsNoFile
<1>3. \A i \in 1 .. n : WellFormedLine(i)
  <2>1. WellFormedLine(n)
    BY DEF WellFormedLine, ListKeys
  <2>2. \A i \in 1 .. n - 1 : WellFormedLine(i)
    BY DEF ReadSoFar
  <2>3. QED  BY <1>1, <2>1, <2>2
<1>4. ListIsOn(n + 1, file[n].key)
  BY UnderNext DEF ListIsOn, EntriesOf
<1>5. \A key \in ListKeys : ListSoFar(n + 1, key, e[key])
  BY ListsKept DEF ReadSoFar
<1>6. ScalarsSoFar(n + 1, e)
  BY ScalarsKept DEF ReadSoFar, EntriesOf, ListKeys
<1>7. QED  BY <1>1, <1>2, <1>3, <1>4, <1>5, <1>6 DEF ReadSoFar

\* A key with a value of its own: it is the last of its kind so far.
LEMMA ScalarRead ==
    ASSUME NEW n \in DOMAIN file, ContractFile(file), NEW c, NEW e, ReadSoFar(n, c, e),
           file[n].kind = "entry", file[n].key \notin ListKeys, WellFormedLine(n), NEW f,
           \/ /\ file[n].key \in {"platform_id", "expected_firmware_vendor"}
              /\ f = [e EXCEPT ![file[n].key] = file[n].value]
           \/ /\ file[n].key = "min_memory_mib"
              /\ f = [e EXCEPT !.min_memory_mib = file[n].number]
           \/ /\ file[n].key = "require_smbios"
              /\ f = [e EXCEPT !.require_smbios = file[n].value \in True]
    PROVE  ReadSoFar(n + 1, Absent, f)
<1>1. n \in Nat /\ (n + 1) - 1 = n /\ n >= 1
  BY Position
<1>2. file # NoFile
  BY KindIsNoFile
<1>3. \A i \in 1 .. n : WellFormedLine(i)
  BY <1>1 DEF ReadSoFar
<1>4. ListIsOn(n + 1, Absent)
  BY UnderNext DEF ListIsOn, EntriesOf
<1>5. DOMAIN e = Fields /\ e.loaded = TRUE
  BY DEF ReadSoFar
<1>6. PICK own : own = file[n].key
  OBVIOUS
<1>7. own \in {"platform_id", "expected_firmware_vendor", "min_memory_mib", "require_smbios"}
  BY <1>6
<1>8. DOMAIN f = Fields /\ \A x \in Fields : x # own => f[x] = e[x]
  BY <1>5, <1>6 DEF Fields
<1>9. f.loaded = TRUE /\ \A key \in ListKeys : f[key] = e[key]
  BY <1>5, <1>7, <1>8 DEF Fields, ListKeys
<1>10. \A key \in ListKeys : ListSoFar(n + 1, key, f[key])
  <2>1. \A key \in ListKeys : ListSoFar(n + 1, key, e[key])
    BY ListsKept DEF ReadSoFar
  <2>2. QED  BY <1>9, <2>1
<1>11. LastBefore(own, n + 1, n) /\ n \in EntriesOf(own)
  BY <1>1, <1>6, PositionsAreNumbers DEF LastBefore, EntriesOf
<1>12. \A key : key # own => n \notin EntriesOf(key)
  BY <1>6 DEF EntriesOf
<1>13. \A key, i : LastBefore(key, n, i) /\ n \notin EntriesOf(key) => LastBefore(key, n + 1, i)
  BY <1>1, PositionsAreNumbers DEF LastBefore
<1>14. \A key : n \notin EntriesOf(key) /\ (\A i \in EntriesOf(key) : i >= n)
                  => \A i \in EntriesOf(key) : i >= n + 1
  BY <1>1, PositionsAreNumbers
<1>15. TextSoFar(n + 1, "platform_id", f.platform_id)
  <2>1. CASE own = "platform_id"
    BY <1>5, <1>6, <1>11, <2>1 DEF TextSoFar, Fields
  <2>2. CASE own # "platform_id"
    <3>1. f.platform_id = e.platform_id
      BY <1>8, <2>2 DEF Fields
    <3>2. TextSoFar(n, "platform_id", e.platform_id)
      BY DEF ReadSoFar, ScalarsSoFar
    <3>3. QED  BY <1>12, <1>13, <1>14, <2>2, <3>1, <3>2 DEF TextSoFar
  <2>3. QED  BY <2>1, <2>2
<1>16. TextSoFar(n + 1, "expected_firmware_vendor", f.expected_firmware_vendor)
  <2>1. CASE own = "expected_firmware_vendor"
    BY <1>5, <1>6, <1>11, <2>1 DEF TextSoFar, Fields
  <2>2. CASE own # "expected_firmware_vendor"
    <3>1. f.expected_firmware_vendor = e.expected_firmware_vendor
      BY <1>8, <2>2 DEF Fields
    <3>2. TextSoFar(n, "expected_firmware_vendor", e.expected_firmware_vendor)
      BY DEF ReadSoFar, ScalarsSoFar
    <3>3. QED  BY <1>12, <1>13, <1>14, <2>2, <3>1, <3>2 DEF TextSoFar
  <2>3. QED  BY <2>1, <2>2
<1>17. NumberSoFar(n + 1, f.min_memory_mib)
  <2>1. CASE own = "min_memory_mib"
    <3>1. f.min_memory_mib = file[n].number
      BY <1>5, <1>6, <2>1 DEF Fields
    <3>2. file[n].number # Unknown
      BY <1>6, <2>1 DEF WellFormedLine
    <3>3. QED  BY <1>11, <2>1, <3>1, <3>2 DEF NumberSoFar
  <2>2. CASE own # "min_memory_mib"
    <3>1. f.min_memory_mib = e.min_memory_mib
      BY <1>8, <2>2 DEF Fields
    <3>2. NumberSoFar(n, e.min_memory_mib)
      BY DEF ReadSoFar, ScalarsSoFar
    <3>3. QED  BY <1>12, <1>13, <1>14, <2>2, <3>1, <3>2 DEF NumberSoFar
  <2>3. QED  BY <2>1, <2>2
<1>18. FlagSoFar(n + 1, f.require_smbios)
  <2>1. CASE own = "require_smbios"
    <3>1. f.require_smbios \in BOOLEAN /\ (f.require_smbios <=> file[n].value \in True)
      <4>1. PICK b \in BOOLEAN : b = (file[n].value \in True)
        <5>1. CASE file[n].value \in True
          <6>1. TRUE = (file[n].value \in True)
            BY <5>1
          <6>2. QED  BY <6>1
        <5>2. CASE file[n].value \notin True
          <6>1. FALSE = (file[n].value \in True)
            BY <5>2
          <6>2. QED  BY <6>1
        <5>3. QED  BY <5>1, <5>2
      <4>2. f = [e EXCEPT !.require_smbios = b]
        BY <1>6, <2>1, <4>1
      <4>3. f.require_smbios = b
        BY <1>5, <4>2 DEF Fields
      <4>4. QED  BY <4>1, <4>3
    <3>2. QED  BY <1>11, <2>1, <3>1 DEF FlagSoFar
  <2>2. CASE own # "require_smbios"
    <3>1. f.require_smbios = e.require_smbios
      BY <1>8, <2>2 DEF Fields
    <3>2. FlagSoFar(n, e.require_smbios)
      BY DEF ReadSoFar, ScalarsSoFar
    <3>3. QED  BY <1>12, <1>13, <1>14, <2>2, <3>1, <3>2 DEF FlagSoFar
  <2>3. QED  BY <2>1, <2>2
<1>19. ScalarsSoFar(n + 1, f)
  BY <1>15, <1>16, <1>17, <1>18 DEF ScalarsSoFar
<1>20. QED  BY <1>1, <1>2, <1>3, <1>4, <1>8, <1>9, <1>10, <1>19 DEF ReadSoFar

-----------------------------------------------------------------------------
\* What depends on the file alone stays as it is.
LEMMA SameContract ==
    ASSUME file' = file, ReaderInv
    PROVE  /\ ContractFile(file)' /\ WellFormed' = WellFormed
           /\ ReadSoFar(at', current', expected') => ReadSoFar(at, current, expected)'
           /\ Len(file)' = Len(file)
<1>1. \A n, key : Under(n, key)' = Under(n, key)
  BY DEF Under, Heads, EntriesOf
<1>2. \A n, key : BelongsTo(n, key)' = BelongsTo(n, key)
  BY <1>1 DEF BelongsTo
<1>3. \A n : WellFormedLine(n)' = WellFormedLine(n)
  BY <1>2 DEF WellFormedLine
<1>4. WellFormed' = WellFormed /\ ContractFile(file)' /\ Len(file)' = Len(file)
  BY <1>3 DEF WellFormed, ContractFile, ReaderInv
<1>5. \A n, key : ItemsUpTo(key, n)' = ItemsUpTo(key, n)
  BY <1>2 DEF ItemsUpTo, ItemsOf
<1>6. \A n, c : ListIsOn(n, c)' = ListIsOn(n, c)
  BY <1>1 DEF ListIsOn
<1>7. \A n, key, list : ListSoFar(n, key, list)' = ListSoFar(n, key, list)
  BY <1>5 DEF ListSoFar, TextsUpTo
<1>8. \A n, e : ScalarsSoFar(n, e)' = ScalarsSoFar(n, e)
  BY DEF ScalarsSoFar, TextSoFar, NumberSoFar, FlagSoFar, LastBefore, EntriesOf
<1>9. \A n, c, e : ReadSoFar(n, c, e)' = ReadSoFar(n, c, e)
  BY <1>3, <1>6, <1>7, <1>8 DEF ReadSoFar
<1>10. QED  BY <1>4, <1>9

\* No step of the reader breaks its invariant.
LEMMA ReaderPreserves ==
    ASSUME ReaderInv, ReadLine, file' = file
    PROVE  ReaderInv'
<1>1. ContractFile(file) /\ ContractFile(file)' /\ Len(file)' = Len(file) /\ Len(file) \in Nat
  BY SameContract DEF ReaderInv, ContractFile
<1>2. PICK n \in Nat : n = at
  BY DEF ReaderInv, ContractFile
<1>3. at \in DOMAIN file /\ n \in DOMAIN file /\ ReadSoFar(n, current, expected)
  <2>1. ~Parsed
    BY DEF ReadLine, FileIsMissing, Blank, ListItem, NoColon, ListKey, ScalarKey
  <2>2. at <= Len(file)
    BY <1>1, <1>2, <2>1 DEF Parsed
  <2>3. QED  BY <1>1, <1>2, <2>2 DEF ReaderInv, ContractFile
<1>4. PICK c, e : c = current /\ e = expected
  OBVIOUS
<1>5. ReadSoFar(n, c, e)
  BY <1>3, <1>4
<1>6. ASSUME Advance, ReadSoFar(n + 1, current', expected')
      PROVE  ReaderInv'
  <2>1. at' = n + 1
    BY <1>2, <1>6 DEF Advance
  <2>2. ReadSoFar(at, current, expected)'
    BY <1>6, <2>1, SameContract
  <2>3. at' \in 1 .. Len(file)' + 1
    BY <1>1, <1>2, <1>3, <2>1 DEF ContractFile
  <2>4. QED  BY <1>1, <2>2, <2>3 DEF ReaderInv
<1>7. ASSUME Reject, ~WellFormedLine(n) \/ file = NoFile
      PROVE  ReaderInv'
  <2>1. ~WellFormed
    BY <1>3, <1>7 DEF WellFormed
  <2>2. ~WellFormed'
    BY <2>1, SameContract
  <2>3. expected' = NotLoaded' /\ at' = Len(file)' + 1
    BY <1>1, <1>7 DEF Reject, NotLoaded, Empty
  <2>4. QED  BY <1>1, <2>2, <2>3 DEF ReaderInv
<1>8. CASE FileIsMissing
  BY <1>7, <1>8 DEF FileIsMissing
<1>9. CASE Blank
  <2>1. file[n].kind = "blank" /\ Advance /\ current' = c /\ expected' = e
    BY <1>2, <1>4, <1>9 DEF Blank, line
  <2>2. ReadSoFar(n + 1, c, e)
    BY <1>1, <1>3, <1>5, <2>1, BlankRead
  <2>3. QED  BY <1>6, <2>1, <2>2
<1>10. CASE ListItem
  <2>1. file[n].kind = "item" /\ current' = c
    BY <1>2, <1>4, <1>10 DEF ListItem, line
  <2>2. CASE c = Absent
    <3>1. ~WellFormedLine(n)
      <4>1. \A key \in ListKeys : ~Under(n, key)
        BY <1>5, <2>2 DEF ReadSoFar, ListIsOn, ListKeys, Absent
      <4>2. QED  BY <2>1, <4>1 DEF WellFormedLine, BelongsTo
    <3>2. Reject
      BY <1>4, <1>10, <2>2 DEF ListItem
    <3>3. QED  BY <1>7, <3>1, <3>2
  <2>3. CASE c # Absent
    <3>1. PICK f : f = [e EXCEPT ![c] = Append(@, file[n].value)]
      OBVIOUS
    <3>2. Advance /\ expected' = f
      BY <1>2, <1>4, <1>10, <2>3, <3>1 DEF ListItem, line
    <3>3. ReadSoFar(n + 1, c, f)
      BY <1>1, <1>3, <1>5, <2>1, <2>3, <3>1, ItemRead
    <3>4. QED  BY <1>6, <2>1, <3>2, <3>3
  <2>4. QED  BY <2>2, <2>3
<1>11. CASE NoColon
  <2>1. file[n].kind = "plain" /\ Reject
    BY <1>2, <1>11 DEF NoColon, line
  <2>2. ~WellFormedLine(n)
    BY <2>1 DEF WellFormedLine
  <2>3. QED  BY <1>7, <2>1, <2>2
<1>12. CASE ListKey
  <2>1. file[n].kind = "entry" /\ file[n].key \in ListKeys
    BY <1>2, <1>12 DEF ListKey, line
  <2>2. CASE file[n].value = NoText
    <3>1. Advance /\ current' = file[n].key /\ expected' = e
      BY <1>2, <1>4, <1>12, <2>2 DEF ListKey, line
    <3>2. ReadSoFar(n + 1, file[n].key, e)
      BY <1>1, <1>3, <1>5, <2>1, <2>2, ListKeyRead
    <3>3. QED  BY <1>6, <3>1, <3>2
  <2>3. CASE file[n].value # NoText
    <3>1. Reject
      BY <1>2, <1>12, <2>3 DEF ListKey, line
    <3>2. ~WellFormedLine(n)
      BY <2>1, <2>3 DEF WellFormedLine, ListKeys
    <3>3. QED  BY <1>7, <3>1, <3>2
  <2>4. QED  BY <2>2, <2>3
<1>13. CASE ScalarKey
  <2>1. file[n].kind = "entry" /\ file[n].key \notin ListKeys /\ current' = Absent
    BY <1>2, <1>13 DEF ScalarKey, line, Absent
  <2>2. PICK k : k = file[n].key
    OBVIOUS
  <2>3. CASE Reject /\ ~WellFormedLine(n)
    BY <1>7, <2>3
  <2>4. ASSUME NEW f, expected' = f, Advance, WellFormedLine(n),
               \/ /\ k \in {"platform_id", "expected_firmware_vendor"}
                  /\ f = [e EXCEPT ![k] = file[n].value]
               \/ /\ k = "min_memory_mib"
                  /\ f = [e EXCEPT !.min_memory_mib = file[n].number]
               \/ /\ k = "require_smbios"
                  /\ f = [e EXCEPT !.require_smbios = file[n].value \in True]
        PROVE  ReaderInv'
    <3>1. ReadSoFar(n + 1, Absent, f)
      BY <1>1, <1>3, <1>5, <2>1, <2>2, <2>4, ScalarRead
    <3>2. QED  BY <1>6, <2>1, <2>4, <3>1
  <2>5. CASE k \in {"platform_id", "expected_firmware_vendor"}
    <3>1. Advance /\ expected' = [e EXCEPT ![k] = file[n].value]
      BY <1>2, <1>4, <1>13, <2>2, <2>5 DEF ScalarKey, line
    <3>2. WellFormedLine(n)
      BY <2>1, <2>2, <2>5 DEF WellFormedLine, ListKeys
    <3>3. QED  BY <2>4, <2>5, <3>1, <3>2
  <2>6. CASE k = "min_memory_mib"
    <3>1. CASE file[n].number # Unknown
      <4>1. Advance /\ expected' = [e EXCEPT !.min_memory_mib = file[n].number]
        BY <1>2, <1>4, <1>13, <2>2, <2>6, <3>1 DEF ScalarKey, line
      <4>2. WellFormedLine(n)
        BY <2>1, <2>2, <2>6, <3>1 DEF WellFormedLine, ListKeys
      <4>3. QED  BY <2>4, <2>6, <4>1, <4>2
    <3>2. CASE file[n].number = Unknown
      <4>1. Reject
        BY <1>2, <1>13, <2>2, <2>6, <3>2 DEF ScalarKey, line
      <4>2. ~WellFormedLine(n)
        BY <2>1, <2>2, <2>6, <3>2 DEF WellFormedLine, ListKeys
      <4>3. QED  BY <2>3, <4>1, <4>2
    <3>3. QED  BY <3>1, <3>2
  <2>7. CASE k = "require_smbios"
    <3>1. CASE file[n].value \in True \cup False
      <4>1. Advance /\ expected' = [e EXCEPT !.require_smbios = file[n].value \in True]
        BY <1>2, <1>4, <1>13, <2>2, <2>7, <3>1 DEF ScalarKey, line
      <4>2. WellFormedLine(n)
        BY <2>1, <2>2, <2>7, <3>1 DEF WellFormedLine, ListKeys
      <4>3. QED  BY <2>4, <2>7, <4>1, <4>2
    <3>2. CASE file[n].value \notin True \cup False
      <4>1. Reject
        BY <1>2, <1>13, <2>2, <2>7, <3>2 DEF ScalarKey, line
      <4>2. ~WellFormedLine(n)
        BY <2>1, <2>2, <2>7, <3>2 DEF WellFormedLine, ListKeys
      <4>3. QED  BY <2>3, <4>1, <4>2
    <3>3. QED  BY <3>1, <3>2
  <2>8. CASE k \notin {"platform_id", "expected_firmware_vendor", "min_memory_mib", "require_smbios"}
    <3>1. Reject
      BY <1>2, <1>13, <2>2, <2>8 DEF ScalarKey, line
    <3>2. ~WellFormedLine(n)
      BY <2>1, <2>2, <2>8 DEF WellFormedLine, ListKeys
    <3>3. QED  BY <2>3, <3>1, <3>2
  <2>9. QED  BY <2>5, <2>6, <2>7, <2>8
<1>14. QED  BY <1>8, <1>9, <1>10, <1>11, <1>12, <1>13 DEF ReadLine

\* A contract that is read to its end is what the file says.
LEMMA ContractRead == ReaderInv => ContractIsWhatFileSays
<1> SUFFICES ASSUME ReaderInv, Parsed PROVE ContractIsWhatFileSays
  BY DEF ContractIsWhatFileSays
<1>1. Len(file) \in Nat /\ at = Len(file) + 1 /\ at - 1 = Len(file) /\ DOMAIN file = 1 .. Len(file)
  BY DEF ReaderInv, ContractFile, Parsed
<1>2. CASE expected = NotLoaded /\ ~WellFormed
  <2>1. NotLoaded.loaded = FALSE
    BY DEF NotLoaded, Empty
  <2>2. QED  BY <1>2, <2>1 DEF ContractIsWhatFileSays
<1>3. CASE ReadSoFar(at, current, expected)
  <2>1. expected.loaded = TRUE
    BY <1>3 DEF ReadSoFar
  <2>2. WellFormed
    <3>1. file # NoFile
      <4>1. SUFFICES ASSUME file = NoFile PROVE Len(file) = 1
        BY <1>1, <1>3 DEF ReadSoFar
      <4>2. QED  BY <4>1 DEF NoFile
    <3>2. QED  BY <1>1, <1>3, <3>1 DEF WellFormed, ReadSoFar
  <2>3. ASSUME NEW key \in ListKeys
        PROVE  /\ Len(expected[key]) = Cardinality(ItemsOf(key))
               /\ \A i \in ItemsOf(key) :
                     expected[key][Cardinality(ItemsUpTo(key, i))] = file[i].value
    <3>1. ItemsUpTo(key, at - 1) = ItemsOf(key)
      BY <1>1 DEF ItemsUpTo, ItemsOf
    <3>2. ListSoFar(at, key, expected[key])
      BY <1>3 DEF ReadSoFar
    <3>3. QED  BY <3>1, <3>2 DEF ListSoFar
  <2>4. QED  BY <2>1, <2>2, <2>3 DEF ContractIsWhatFileSays
<1>4. QED  BY <1>2, <1>3 DEF ReaderInv

-----------------------------------------------------------------------------
Members(s) == {s[i] : i \in DOMAIN s}

\* What is in two lists put one behind the other.
LEMMA MembersOfBoth ==
    ASSUME NEW S, NEW s \in Seq(S), NEW t \in Seq(S)
    PROVE  s \o t \in Seq(S) /\ Members(s \o t) = Members(s) \cup Members(t)
<1>1. s \o t \in Seq(S) /\ Len(s \o t) = Len(s) + Len(t)
  BY ConcatProperties
<1>2. /\ \A i \in 1 .. Len(s) : (s \o t)[i] = s[i]
      /\ \A i \in 1 .. Len(t) : (s \o t)[Len(s) + i] = t[i]
  OBVIOUS
<1>3. Len(s) \in Nat /\ Len(t) \in Nat /\ DOMAIN s = 1 .. Len(s) /\ DOMAIN t = 1 .. Len(t)
      /\ DOMAIN (s \o t) = 1 .. Len(s) + Len(t)
  BY <1>1
<1>4. ASSUME NEW i \in DOMAIN (s \o t) PROVE (s \o t)[i] \in Members(s) \cup Members(t)
  <2>1. CASE i <= Len(s)
    BY <1>2, <1>3, <2>1 DEF Members
  <2>2. CASE i > Len(s)
    <3>1. PICK j \in 1 .. Len(t) : i = Len(s) + j
      <4>1. i - Len(s) \in 1 .. Len(t) /\ i = Len(s) + (i - Len(s))
        BY <1>3, <2>2
      <4>2. QED  BY <4>1
    <3>2. (s \o t)[i] = t[j]
      BY <1>2, <3>1
    <3>3. QED  BY <1>3, <3>2 DEF Members
  <2>3. QED  BY <1>3, <2>1, <2>2
<1>5. ASSUME NEW i \in DOMAIN s PROVE s[i] \in Members(s \o t)
  BY <1>2, <1>3 DEF Members
<1>6. ASSUME NEW i \in DOMAIN t PROVE t[i] \in Members(s \o t)
  <2>1. Len(s) + i \in DOMAIN (s \o t) /\ (s \o t)[Len(s) + i] = t[i]
    BY <1>2, <1>3
  <2>2. QED  BY <2>1 DEF Members
<1>7. QED  BY <1>1, <1>4, <1>5, <1>6 DEF Members

\* The contract as it is at the end of the file.
ReadToEnd == ContractFile(file) /\ ReadSoFar(Len(file) + 1, current, expected)

\* A list of an accepted contract holds the values of its items and no others.
LEMMA ListRead ==
    ASSUME ReadToEnd, NEW key \in ListKeys
    PROVE  /\ expected[key] \in Seq(Members(expected[key]))
           /\ Members(expected[key]) = {file[i].value : i \in ItemsOf(key)}
           /\ expected[key] = <<>> <=> ItemsOf(key) = {}
<1>1. Len(file) \in Nat /\ DOMAIN file = 1 .. Len(file) /\ (Len(file) + 1) - 1 = Len(file)
  BY DEF ReadToEnd, ContractFile
<1>2. ItemsUpTo(key, Len(file)) = ItemsOf(key)
  BY <1>1 DEF ItemsUpTo, ItemsOf
<1>3. PICK list : list = expected[key]
  OBVIOUS
<1>4. ListSoFar(Len(file) + 1, key, list)
  BY <1>3 DEF ReadToEnd, ReadSoFar
<1>5. /\ list \in Seq({file[i].value : i \in ItemsOf(key)})
      /\ Len(list) = Cardinality(ItemsOf(key))
      /\ \A i \in ItemsOf(key) : /\ Cardinality(ItemsUpTo(key, i)) \in 1 .. Len(list)
                                 /\ list[Cardinality(ItemsUpTo(key, i))] = file[i].value
  BY <1>1, <1>2, <1>4 DEF ListSoFar, TextsUpTo
<1>6. Len(list) \in Nat /\ DOMAIN list = 1 .. Len(list)
  BY <1>5
<1>7. ASSUME NEW i \in ItemsOf(key) PROVE file[i].value \in Members(list)
  BY <1>5, <1>6 DEF Members
<1>8. ASSUME NEW p \in DOMAIN list PROVE list[p] \in {file[i].value : i \in ItemsOf(key)}
  BY <1>5, <1>6
<1>9. Members(list) = {file[i].value : i \in ItemsOf(key)}
  BY <1>7, <1>8 DEF Members
<1>10. list = <<>> <=> ItemsOf(key) = {}
  <2>1. ASSUME list = <<>>, NEW i \in ItemsOf(key) PROVE FALSE
    BY <1>5, <2>1
  <2>2. ASSUME list # <<>> PROVE ItemsOf(key) # {}
    <3>1. Len(list) # 0
      BY <1>5, <2>2
    <3>2. 1 \in DOMAIN list
      BY <1>6, <3>1
    <3>3. QED  BY <1>8, <3>2
  <2>3. QED  BY <2>1, <2>2
<1>11. list \in Seq(Members(list))
  BY <1>5, <1>9
<1>12. QED  BY <1>3, <1>9, <1>10, <1>11

\* An entry that no other of its key follows is the one LastOf names.
LEMMA LastIs ==
    ASSUME ContractFile(file), NEW key, NEW i, LastBefore(key, Len(file) + 1, i)
    PROVE  LastOf(key) = i /\ EntriesOf(key) # {}
<1>1. \A j \in EntriesOf(key) : j \in Nat /\ j <= Len(file) /\ j < Len(file) + 1
  BY DEF EntriesOf, ContractFile
<1>2. i \in EntriesOf(key) /\ \A j \in EntriesOf(key) : j <= i
  BY <1>1 DEF LastBefore
<1>3. ASSUME NEW k \in EntriesOf(key), \A j \in EntriesOf(key) : j <= k PROVE k = i
  BY <1>1, <1>2, <1>3
<1>4. QED  BY <1>2, <1>3 DEF LastOf

\* A scalar of an accepted contract is the value of its last entry, or its
\* default if there is none.
LEMMA ScalarsRead ==
    ASSUME ReadToEnd
    PROVE  /\ \A key \in {"platform_id", "expected_firmware_vendor"} :
                 \/ expected[key] = Absent /\ EntriesOf(key) = {}
                 \/ /\ expected[key] # Absent /\ EntriesOf(key) # {}
                    /\ expected[key] = file[LastOf(key)].value
           /\ \/ expected.min_memory_mib = Unknown /\ EntriesOf("min_memory_mib") = {}
              \/ /\ expected.min_memory_mib # Unknown /\ EntriesOf("min_memory_mib") # {}
                 /\ expected.min_memory_mib = file[LastOf("min_memory_mib")].number
                 /\ expected.min_memory_mib \in Int
           /\ \/ expected.require_smbios = FALSE /\ EntriesOf("require_smbios") = {}
              \/ /\ EntriesOf("require_smbios") # {}
                 /\ LastOf("require_smbios") \in EntriesOf("require_smbios")
                 /\ expected.require_smbios \in BOOLEAN
                 /\ expected.require_smbios <=> file[LastOf("require_smbios")].value \in True
<1>1. ContractFile(file) /\ ScalarsSoFar(Len(file) + 1, expected)
  BY DEF ReadToEnd, ReadSoFar
<1>2. ASSUME NEW key, \A i \in EntriesOf(key) : i >= Len(file) + 1 PROVE EntriesOf(key) = {}
  <2>1. \A i \in EntriesOf(key) : i \in Nat /\ i <= Len(file)
    BY <1>1 DEF EntriesOf, ContractFile
  <2>2. Len(file) \in Nat
    BY <1>1 DEF ContractFile
  <2>3. QED  BY <1>2, <2>1, <2>2
<1>3. ASSUME NEW key \in {"platform_id", "expected_firmware_vendor"}, NEW text,
             TextSoFar(Len(file) + 1, key, text)
      PROVE  \/ text = Absent /\ EntriesOf(key) = {}
             \/ text # Absent /\ EntriesOf(key) # {} /\ text = file[LastOf(key)].value
  <2>1. CASE text = Absent /\ \A i \in EntriesOf(key) : i >= Len(file) + 1
    BY <1>2, <2>1
  <2>2. ASSUME NEW i \in EntriesOf(key), LastBefore(key, Len(file) + 1, i), text = file[i].value
        PROVE  text # Absent /\ EntriesOf(key) # {} /\ text = file[LastOf(key)].value
    <3>1. LastOf(key) = i
      BY <1>1, <2>2, LastIs
    <3>2. file[i].value # Absent
      BY <1>1 DEF EntriesOf, ContractFile
    <3>3. QED  BY <2>2, <3>1, <3>2
  <2>3. QED  BY <1>3, <2>1, <2>2 DEF TextSoFar
<1>4. \A key \in {"platform_id", "expected_firmware_vendor"} :
         \/ expected[key] = Absent /\ EntriesOf(key) = {}
         \/ /\ expected[key] # Absent /\ EntriesOf(key) # {}
            /\ expected[key] = file[LastOf(key)].value
  BY <1>1, <1>3 DEF ScalarsSoFar
<1>5. \/ expected.min_memory_mib = Unknown /\ EntriesOf("min_memory_mib") = {}
      \/ /\ expected.min_memory_mib # Unknown /\ EntriesOf("min_memory_mib") # {}
         /\ expected.min_memory_mib = file[LastOf("min_memory_mib")].number
         /\ expected.min_memory_mib \in Int
  <2>1. CASE \A i \in EntriesOf("min_memory_mib") : i >= Len(file) + 1
    <3>1. EntriesOf("min_memory_mib") = {}
      BY <1>2, <2>1
    <3>2. QED  BY <1>1, <3>1 DEF ScalarsSoFar, NumberSoFar
  <2>2. CASE \E i \in EntriesOf("min_memory_mib") :
                /\ LastBefore("min_memory_mib", Len(file) + 1, i)
                /\ expected.min_memory_mib = file[i].number /\ expected.min_memory_mib # Unknown
    <3>1. PICK i \in EntriesOf("min_memory_mib") :
                /\ LastBefore("min_memory_mib", Len(file) + 1, i)
                /\ expected.min_memory_mib = file[i].number /\ expected.min_memory_mib # Unknown
      BY <2>2
    <3>2. LastOf("min_memory_mib") = i
      BY <1>1, <3>1, LastIs
    <3>3. file[i].number \in Int
      BY <1>1 DEF EntriesOf, ContractFile
    <3>4. QED  BY <3>1, <3>2, <3>3
  <2>3. QED  BY <1>1, <2>1, <2>2 DEF ScalarsSoFar, NumberSoFar
<1>6. \/ expected.require_smbios = FALSE /\ EntriesOf("require_smbios") = {}
      \/ /\ EntriesOf("require_smbios") # {}
         /\ LastOf("require_smbios") \in EntriesOf("require_smbios")
         /\ expected.require_smbios \in BOOLEAN
         /\ expected.require_smbios <=> file[LastOf("require_smbios")].value \in True
  <2>1. CASE expected.require_smbios = FALSE /\ \A i \in EntriesOf("require_smbios") : i >= Len(file) + 1
    BY <1>2, <2>1
  <2>2. CASE \E i \in EntriesOf("require_smbios") :
                /\ LastBefore("require_smbios", Len(file) + 1, i)
                /\ expected.require_smbios \in BOOLEAN
                /\ expected.require_smbios <=> file[i].value \in True
    <3>1. PICK i \in EntriesOf("require_smbios") :
                /\ LastBefore("require_smbios", Len(file) + 1, i)
                /\ expected.require_smbios \in BOOLEAN
                /\ expected.require_smbios <=> file[i].value \in True
      BY <2>2
    <3>2. LastOf("require_smbios") = i
      BY <1>1, <3>1, LastIs
    <3>3. QED  BY <3>1, <3>2
  <2>3. QED  BY <1>1, <2>1, <2>2 DEF ScalarsSoFar, FlagSoFar
<1>7. QED  BY <1>4, <1>5, <1>6

-----------------------------------------------------------------------------
Verdict(d) ==
    IF d[1] \in {"required_linux_artifact", "require_smbios"} THEN Judged(Met(d))
    ELSE OfFirmware(firmware, Met(d))
Verdicts(D) == {Check(Verdict(d), d) : d \in D}

\* The views as the files have them.
Evidence ==
    /\ ReadToEnd
    /\ firmware = BuildFirmwareView(firmwareFile) /\ FirmwareFile(firmwareFile)
    /\ linux.identity \in BOOLEAN

\* What the checks look at is what the firmware's file has, and nothing of a
\* file that was not read.
LEMMA FirmwareIs ==
    ASSUME Evidence
    PROVE  /\ firmware.platformId = firmwareFile.platformId
           /\ firmware.vendor = firmwareFile.vendor
           /\ firmware.tables = firmwareFile.tables
           /\ firmware.usablePages = firmwareFile.usablePages /\ firmware.usablePages \in Int
           /\ firmware.loaded = (firmwareFile.kind \notin Unreadable)
<1>1. CASE firmwareFile.kind \in Unreadable
  <2>1. firmware = NoFirmware
    BY <1>1 DEF Evidence, BuildFirmwareView
  <2>2. /\ firmware.platformId = Absent /\ firmware.vendor = Absent /\ firmware.tables = {}
        /\ firmware.usablePages = Unknown /\ firmware.loaded = FALSE
    BY <2>1 DEF NoFirmware
  <2>3. /\ firmwareFile.platformId = Absent /\ firmwareFile.vendor = Absent
        /\ firmwareFile.tables = {} /\ firmwareFile.usablePages = Unknown
        /\ firmwareFile.usablePages \in Int
    BY <1>1 DEF Evidence, FirmwareFile
  <2>4. (firmwareFile.kind \notin Unreadable) = FALSE
    BY <1>1
  <2>5. QED  BY <2>2, <2>3, <2>4
<1>2. CASE firmwareFile.kind \notin Unreadable
  BY <1>2 DEF Evidence, BuildFirmwareView, FirmwareFile
<1>3. QED  BY <1>1, <1>2

\* A sequence of at most one check.
LEMMA OneCheck ==
    ASSUME NEW c
    PROVE  /\ <<c>> \in Seq({c}) /\ Members(<<c>>) = {c}
           /\ \A S : <<>> \in Seq(S) /\ Members(<<>>) = {}
<1>1. <<c>> \in Seq({c}) /\ DOMAIN <<c>> = {1} /\ <<c>>[1] = c
  OBVIOUS
<1>2. DOMAIN <<>> = {}
  OBVIOUS
<1>3. QED  BY <1>1, <1>2 DEF Members

\* Part by part, the checks are the verdicts on that part's demands: the
\* platform's name;
LEMMA PlatformIdVerdicts ==
    ASSUME Evidence
    PROVE  LET D == {<<"platform_id">> : i \in EntriesOf("platform_id")}
               c == PlatformIdCheck(firmware, expected)
           IN  c \in Seq(Verdicts(D)) /\ Members(c) = Verdicts(D)
<1> DEFINE D == {<<"platform_id">> : i \in EntriesOf("platform_id")}
           c == PlatformIdCheck(firmware, expected)
           d == <<"platform_id">>
<1>1. CASE expected.platform_id = Absent /\ EntriesOf("platform_id") = {}
  <2>1. c = <<>> /\ Verdicts(D) = {}
    BY <1>1 DEF PlatformIdCheck, Verdicts
  <2>2. QED  BY <2>1, OneCheck
<1>2. CASE /\ expected.platform_id # Absent /\ EntriesOf("platform_id") # {}
           /\ expected.platform_id = file[LastOf("platform_id")].value
  <2>1. d[1] = "platform_id"
    OBVIOUS
  <2>2. Met(d) = (firmware.platformId = expected.platform_id)
    BY <1>2, <2>1, FirmwareIs DEF Met
  <2>3. Verdict(d) = OfFirmware(firmware, firmware.platformId = expected.platform_id)
    BY <2>1, <2>2 DEF Verdict
  <2>4. c = <<Check(Verdict(d), d)>>
    BY <1>2, <2>3 DEF PlatformIdCheck
  <2>5. Verdicts(D) = {Check(Verdict(d), d)}
    BY <1>2 DEF Verdicts
  <2>6. QED  BY <2>4, <2>5, OneCheck
<1>3. QED  BY <1>1, <1>2, ScalarsRead DEF Evidence

\* the identity that SMBIOS gives, demanded by the last entry only;
LEMMA SmbiosVerdicts ==
    ASSUME Evidence
    PROVE  LET D == {<<"require_smbios">> :
                       i \in {j \in EntriesOf("require_smbios") :
                                j = LastOf("require_smbios") /\ file[j].value \in True}}
               c == SmbiosCheck(linux, expected)
           IN  c \in Seq(Verdicts(D)) /\ Members(c) = Verdicts(D)
<1> DEFINE D == {<<"require_smbios">> :
                   i \in {j \in EntriesOf("require_smbios") :
                            j = LastOf("require_smbios") /\ file[j].value \in True}}
           c == SmbiosCheck(linux, expected)
           d == <<"require_smbios">>
<1>1. CASE expected.require_smbios = FALSE
  <2>1. D = {}
    BY <1>1, ScalarsRead DEF Evidence
  <2>2. c = <<>> /\ Verdicts(D) = {}
    BY <1>1, <2>1 DEF SmbiosCheck, Verdicts
  <2>3. QED  BY <2>2, OneCheck
<1>2. CASE expected.require_smbios = TRUE
  <2>1. d[1] = "require_smbios"
    OBVIOUS
  <2>2. Met(d) = linux.identity
    BY <2>1 DEF Met, Evidence
  <2>3. Verdict(d) = Judged(linux.identity)
    BY <2>1, <2>2 DEF Verdict
  <2>4. c = <<Check(Verdict(d), d)>>
    BY <1>2, <2>3 DEF SmbiosCheck
  <2>5. D = {d}
    <3>1. /\ LastOf("require_smbios") \in EntriesOf("require_smbios")
          /\ file[LastOf("require_smbios")].value \in True
      BY <1>2, ScalarsRead DEF Evidence
    <3>2. QED  BY <3>1
  <2>6. Verdicts(D) = {Check(Verdict(d), d)}
    BY <2>5 DEF Verdicts
  <2>7. QED  BY <2>4, <2>6, OneCheck
<1>3. expected.require_smbios \in BOOLEAN
  BY ScalarsRead DEF Evidence
<1>4. QED  BY <1>1, <1>2, <1>3

\* the memory, where 4 KiB pages rounded down to MiB decide as exact ones do;
LEMMA MemoryVerdicts ==
    ASSUME Evidence
    PROVE  LET D == {<<"min_memory_mib">> : i \in EntriesOf("min_memory_mib")}
               c == MemoryCheck(firmware, expected)
           IN  c \in Seq(Verdicts(D)) /\ Members(c) = Verdicts(D)
<1> DEFINE D == {<<"min_memory_mib">> : i \in EntriesOf("min_memory_mib")}
           c == MemoryCheck(firmware, expected)
           d == <<"min_memory_mib">>
<1>1. CASE expected.min_memory_mib = Unknown /\ EntriesOf("min_memory_mib") = {}
  <2>1. c = <<>> /\ Verdicts(D) = {}
    BY <1>1 DEF MemoryCheck, Verdicts
  <2>2. QED  BY <2>1, OneCheck
<1>2. CASE /\ expected.min_memory_mib # Unknown /\ EntriesOf("min_memory_mib") # {}
           /\ expected.min_memory_mib = file[LastOf("min_memory_mib")].number
           /\ expected.min_memory_mib \in Int
  <2> DEFINE enough == /\ firmware.usablePages # Unknown
                       /\ MemoryMib(firmware) >= expected.min_memory_mib
  <2>1. d[1] = "min_memory_mib"
    OBVIOUS
  <2>2. PICK p \in Int : p = firmware.usablePages
    BY FirmwareIs
  <2>3. PICK n \in Int : n = expected.min_memory_mib
    BY <1>2
  <2>4. (p * 4096) \div (1024 * 1024) >= n <=> p * 4 >= 1024 * n
    OBVIOUS
  <2>5. Met(d) = enough
    <3>1. Met(d) = (/\ firmwareFile.usablePages # Unknown
                    /\ firmwareFile.usablePages * 4 >= 1024 * file[LastOf("min_memory_mib")].number)
      BY <2>1 DEF Met
    <3>2. firmwareFile.usablePages = p /\ file[LastOf("min_memory_mib")].number = n
      BY <1>2, <2>2, <2>3, FirmwareIs
    <3>3. QED  BY <2>2, <2>3, <2>4, <3>1, <3>2 DEF MemoryMib
  <2>6. Verdict(d) = OfFirmware(firmware, enough)
    BY <2>1, <2>5 DEF Verdict
  <2>7. c = <<Check(Verdict(d), d)>>
    BY <1>2, <2>6 DEF MemoryCheck
  <2>8. Verdicts(D) = {Check(Verdict(d), d)}
    BY <1>2 DEF Verdicts
  <2>9. QED  BY <2>7, <2>8, OneCheck
<1>3. QED  BY <1>1, <1>2, ScalarsRead DEF Evidence

\* one check for every ACPI table named;
LEMMA AcpiVerdicts ==
    ASSUME Evidence
    PROVE  LET D == {<<"required_acpi_table", file[i].value>> :
                       i \in ItemsOf("required_acpi_tables")}
               c == AcpiTableChecks(firmware, expected)
           IN  c \in Seq(Verdicts(D)) /\ Members(c) = Verdicts(D)
<1> DEFINE D == {<<"required_acpi_table", file[i].value>> :
                   i \in ItemsOf("required_acpi_tables")}
           c == AcpiTableChecks(firmware, expected)
<1>1. PICK list : list = expected.required_acpi_tables
  OBVIOUS
<1>2. /\ list \in Seq(Members(list))
      /\ Members(list) = {file[i].value : i \in ItemsOf("required_acpi_tables")}
  BY <1>1, ListRead DEF Evidence, ListKeys
<1> DEFINE name(v) == <<"required_acpi_table", v>>
           f == [v \in Members(list) |-> Check(Verdict(name(v)), name(v))]
<1>3. Verdicts(D) = {f[v] : v \in Members(list)}
  BY <1>2 DEF Verdicts
<1>4. f \in [Members(list) -> Verdicts(D)]
  BY <1>3
<1>5. ASSUME NEW v PROVE Verdict(name(v)) = OfFirmware(firmware, v \in firmware.tables)
  <2>1. name(v)[1] = "required_acpi_table" /\ name(v)[2] = v
    OBVIOUS
  <2>2. Met(name(v)) = (v \in firmware.tables)
    BY <2>1, FirmwareIs DEF Met
  <2>3. QED  BY <2>1, <2>2 DEF Verdict
<1>6. \A i \in DOMAIN list : c[i] = f[list[i]]
  BY <1>1, <1>5 DEF AcpiTableChecks, Members
<1>7. c \in [DOMAIN list -> Verdicts(D)]
  <2>1. c = [i \in DOMAIN list |-> c[i]]
    BY <1>1 DEF AcpiTableChecks
  <2>2. \A i \in DOMAIN list : c[i] \in Verdicts(D)
    BY <1>4, <1>6 DEF Members
  <2> HIDE DEF c, D
  <2>3. QED  BY <2>1, <2>2
<1> HIDE DEF c, f, D
<1>8. /\ c \in Seq(Verdicts(D))
      /\ \A v \in Members(list) : f[v] \in Members(c)
      /\ \A x \in Members(c) : x \in Verdicts(D)
  <2>1. PICK T : T = Verdicts(D)
    OBVIOUS
  <2>2. PICK g \in [DOMAIN list -> T] : g = c
    BY <1>7, <2>1
  <2>3. PICK h : h = f
    OBVIOUS
  <2>4. \A i \in DOMAIN list : g[i] = h[list[i]]
    BY <1>6, <2>2, <2>3
  <2>5. /\ g \in Seq(T)
        /\ \A v \in Members(list) : h[v] \in Members(g)
        /\ \A x \in Members(g) : x \in T
    <3>1. Len(list) \in Nat /\ DOMAIN list = 1 .. Len(list)
      BY <1>2
    <3>2. g \in Seq(T) /\ DOMAIN g = DOMAIN list
      BY <3>1
    <3>3. ASSUME NEW v \in Members(list) PROVE h[v] \in Members(g)
      <4>1. PICK i \in DOMAIN list : v = list[i]
        BY DEF Members
      <4>2. h[v] = g[i] /\ i \in DOMAIN g
        BY <2>4, <3>2, <4>1
      <4>3. QED  BY <4>2 DEF Members
    <3>4. ASSUME NEW x \in Members(g) PROVE x \in T
      BY DEF Members
    <3>5. QED  BY <3>2, <3>3, <3>4
  <2>6. QED  BY <2>1, <2>2, <2>3, <2>5
<1>9. QED  BY <1>3, <1>8 DEF c, D

\* one check for every artifact named;
LEMMA ArtifactVerdicts ==
    ASSUME Evidence
    PROVE  LET D == {<<"required_linux_artifact", file[i].value>> :
                       i \in ItemsOf("required_linux_artifacts")}
               c == ArtifactChecks(linux, expected)
           IN  c \in Seq(Verdicts(D)) /\ Members(c) = Verdicts(D)
<1> DEFINE D == {<<"required_linux_artifact", file[i].value>> :
                   i \in ItemsOf("required_linux_artifacts")}
           c == ArtifactChecks(linux, expected)
<1>1. PICK list : list = expected.required_linux_artifacts
  OBVIOUS
<1>2. /\ list \in Seq(Members(list))
      /\ Members(list) = {file[i].value : i \in ItemsOf("required_linux_artifacts")}
  BY <1>1, ListRead DEF Evidence, ListKeys
<1> DEFINE name(v) == <<"required_linux_artifact", v>>
           f == [v \in Members(list) |-> Check(Verdict(name(v)), name(v))]
<1>3. Verdicts(D) = {f[v] : v \in Members(list)}
  BY <1>2 DEF Verdicts
<1>4. f \in [Members(list) -> Verdicts(D)]
  BY <1>3
<1>5. ASSUME NEW v
      PROVE  Verdict(name(v)) = Judged(v \in DOMAIN linux.statuses /\ linux.statuses[v] = "ok")
  <2>1. name(v)[1] = "required_linux_artifact" /\ name(v)[2] = v
    OBVIOUS
  <2>2. Met(name(v)) = (v \in DOMAIN linux.statuses /\ linux.statuses[v] = "ok")
    BY <2>1 DEF Met
  <2>3. QED  BY <2>1, <2>2 DEF Verdict
<1>6. \A i \in DOMAIN list : c[i] = f[list[i]]
  BY <1>1, <1>5 DEF ArtifactChecks, Members
<1>7. c \in [DOMAIN list -> Verdicts(D)]
  <2>1. c = [i \in DOMAIN list |-> c[i]]
    BY <1>1 DEF ArtifactChecks
  <2>2. \A i \in DOMAIN list : c[i] \in Verdicts(D)
    BY <1>4, <1>6 DEF Members
  <2> HIDE DEF c, D
  <2>3. QED  BY <2>1, <2>2
<1> HIDE DEF c, f, D
<1>8. /\ c \in Seq(Verdicts(D))
      /\ \A v \in Members(list) : f[v] \in Members(c)
      /\ \A x \in Members(c) : x \in Verdicts(D)
  <2>1. PICK T : T = Verdicts(D)
    OBVIOUS
  <2>2. PICK g \in [DOMAIN list -> T] : g = c
    BY <1>7, <2>1
  <2>3. PICK h : h = f
    OBVIOUS
  <2>4. \A i \in DOMAIN list : g[i] = h[list[i]]
    BY <1>6, <2>2, <2>3
  <2>5. /\ g \in Seq(T)
        /\ \A v \in Members(list) : h[v] \in Members(g)
        /\ \A x \in Members(g) : x \in T
    <3>1. Len(list) \in Nat /\ DOMAIN list = 1 .. Len(list)
      BY <1>2
    <3>2. g \in Seq(T) /\ DOMAIN g = DOMAIN list
      BY <3>1
    <3>3. ASSUME NEW v \in Members(list) PROVE h[v] \in Members(g)
      <4>1. PICK i \in DOMAIN list : v = list[i]
        BY DEF Members
      <4>2. h[v] = g[i] /\ i \in DOMAIN g
        BY <2>4, <3>2, <4>1
      <4>3. QED  BY <4>2 DEF Members
    <3>4. ASSUME NEW x \in Members(g) PROVE x \in T
      BY DEF Members
    <3>5. QED  BY <3>2, <3>3, <3>4
  <2>6. QED  BY <2>1, <2>2, <2>3, <2>5
<1>9. QED  BY <1>3, <1>8 DEF c, D

\* one check for all vendors together, from both keys.
LEMMA VendorVerdicts ==
    ASSUME Evidence
    PROVE  LET D == {<<"expected_firmware_vendor">> :
                       i \in EntriesOf("expected_firmware_vendor") \cup ItemsOf("expected_firmware_vendors")}
               c == VendorCheck(firmware, expected)
           IN  c \in Seq(Verdicts(D)) /\ Members(c) = Verdicts(D)
<1> DEFINE D == {<<"expected_firmware_vendor">> :
                   i \in EntriesOf("expected_firmware_vendor") \cup ItemsOf("expected_firmware_vendors")}
           c == VendorCheck(firmware, expected)
           d == <<"expected_firmware_vendor">>
           single == IF expected.expected_firmware_vendor = Absent THEN <<>>
                     ELSE <<expected.expected_firmware_vendor>>
<1>1. PICK list : list = expected.expected_firmware_vendors
  OBVIOUS
<1>2. /\ list \in Seq(Members(list))
      /\ Members(list) = {file[i].value : i \in ItemsOf("expected_firmware_vendors")}
      /\ list = <<>> <=> ItemsOf("expected_firmware_vendors") = {}
  BY <1>1, ListRead DEF Evidence, ListKeys
<1>3. \/ expected.expected_firmware_vendor = Absent /\ EntriesOf("expected_firmware_vendor") = {}
      \/ /\ expected.expected_firmware_vendor # Absent /\ EntriesOf("expected_firmware_vendor") # {}
         /\ expected.expected_firmware_vendor = file[LastOf("expected_firmware_vendor")].value
  BY ScalarsRead DEF Evidence
<1>4. PICK all : all = Vendors(expected)
  OBVIOUS
<1>5. PICK one : one = single
  OBVIOUS
<1>6. /\ one \in Seq({expected.expected_firmware_vendor})
      /\ Members(one) = IF EntriesOf("expected_firmware_vendor") = {} THEN {}
                        ELSE {file[LastOf("expected_firmware_vendor")].value}
      /\ one = <<>> <=> EntriesOf("expected_firmware_vendor") = {}
  <2>1. CASE expected.expected_firmware_vendor = Absent /\ EntriesOf("expected_firmware_vendor") = {}
    <3>1. one = <<>>
      BY <1>5, <2>1
    <3>2. QED  BY <2>1, <3>1, OneCheck
  <2>2. CASE /\ expected.expected_firmware_vendor # Absent /\ EntriesOf("expected_firmware_vendor") # {}
             /\ expected.expected_firmware_vendor = file[LastOf("expected_firmware_vendor")].value
    <3>1. one = <<expected.expected_firmware_vendor>>
      BY <1>5, <2>2
    <3>2. one # <<>>
      BY <3>1
    <3>3. QED  BY <2>2, <3>1, <3>2, OneCheck
  <2>3. QED  BY <1>3, <2>1, <2>2
<1>7. all = list \o one
  BY <1>1, <1>4, <1>5 DEF Vendors
<1>8. PICK S : S = Members(list) \cup {expected.expected_firmware_vendor}
  OBVIOUS
<1>9. list \in Seq(S) /\ one \in Seq(S)
  BY <1>2, <1>6, <1>8
<1>10. all \in Seq(S) /\ Members(all) = Members(list) \cup Members(one)
  BY <1>7, <1>9, MembersOfBoth
<1>11. all = <<>> <=> D = {}
  <2>1. all = <<>> <=> list = <<>> /\ one = <<>>
    BY <1>7, <1>9
  <2>2. QED  BY <1>2, <1>6, <2>1
<1>12. CASE D = {}
  <2>1. c = <<>> /\ Verdicts(D) = {}
    BY <1>4, <1>11, <1>12 DEF VendorCheck, Verdicts
  <2>2. QED  BY <2>1, OneCheck
<1>13. CASE D # {}
  <2>1. d[1] = "expected_firmware_vendor"
    OBVIOUS
  <2>2. Met(d) = (firmwareFile.vendor \in Members(all))
    <3>1. Met(d) = (\/ \E i \in ItemsOf("expected_firmware_vendors") : file[i].value = firmwareFile.vendor
                    \/ /\ EntriesOf("expected_firmware_vendor") # {}
                       /\ file[LastOf("expected_firmware_vendor")].value = firmwareFile.vendor)
      BY <2>1 DEF Met
    <3>2. PICK v : v = firmwareFile.vendor
      OBVIOUS
    <3>3. v \in Members(list) <=> \E i \in ItemsOf("expected_firmware_vendors") : file[i].value = v
      BY <1>2
    <3>4. v \in Members(one) <=> /\ EntriesOf("expected_firmware_vendor") # {}
                               /\ file[LastOf("expected_firmware_vendor")].value = v
      BY <1>6
    <3>5. v \in Members(all) <=> v \in Members(list) \/ v \in Members(one)
      BY <1>10
    <3>6. Met(d) <=> firmwareFile.vendor \in Members(all)
      BY <3>1, <3>2, <3>3, <3>4, <3>5
    <3>7. Met(d) \in BOOLEAN
      BY <3>1
    <3>8. QED  BY <3>6, <3>7
  <2>3. Contains(all, firmware.vendor) = (firmwareFile.vendor \in Members(all))
    <3>1. DOMAIN all = 1 .. Len(all)
      BY <1>10
    <3>2. firmware.vendor = firmwareFile.vendor
      BY FirmwareIs
    <3>3. \A v : Contains(all, v) <=> v \in Members(all)
      BY <3>1 DEF Contains, Members
    <3>4. \A v : Contains(all, v) \in BOOLEAN
      BY DEF Contains
    <3>5. QED  BY <3>2, <3>3, <3>4
  <2>4. Verdict(d) = OfFirmware(firmware, Contains(all, firmware.vendor))
    BY <2>1, <2>2, <2>3 DEF Verdict
  <2>5. c = <<Check(Verdict(d), d)>>
    BY <1>4, <1>11, <1>13, <2>4 DEF VendorCheck
  <2>6. D = {d}
    BY <1>13
  <2>7. Verdicts(D) = {Check(Verdict(d), d)}
    BY <2>6 DEF Verdicts
  <2>8. QED  BY <2>5, <2>7, OneCheck
<1>14. QED  BY <1>12, <1>13


\* The checks are the verdicts on the demands.
LEMMA ChecksAreVerdicts ==
    ASSUME Evidence, expected.loaded,
           diagnostics = BuildDiagnostics(linux, firmware, expected)
    PROVE  diagnostics.checks \in Seq(Verdicts(Demands)) /\ Judgements = Verdicts(Demands)
<1> DEFINE D1 == {<<"platform_id">> : i \in EntriesOf("platform_id")}
           D2 == {<<"expected_firmware_vendor">> :
                    i \in EntriesOf("expected_firmware_vendor") \cup ItemsOf("expected_firmware_vendors")}
           D3 == {<<"required_acpi_table", file[i].value>> :
                    i \in ItemsOf("required_acpi_tables")}
           D4 == {<<"required_linux_artifact", file[i].value>> :
                    i \in ItemsOf("required_linux_artifacts")}
           D5 == {<<"min_memory_mib">> : i \in EntriesOf("min_memory_mib")}
           D6 == {<<"require_smbios">> :
                    i \in {j \in EntriesOf("require_smbios") :
                             j = LastOf("require_smbios") /\ file[j].value \in True}}
<1>1. PICK c1 : c1 = PlatformIdCheck(firmware, expected)
  OBVIOUS
<1>2. PICK c2 : c2 = VendorCheck(firmware, expected)
  OBVIOUS
<1>3. PICK c3 : c3 = AcpiTableChecks(firmware, expected)
  OBVIOUS
<1>4. PICK c4 : c4 = ArtifactChecks(linux, expected)
  OBVIOUS
<1>5. PICK c5 : c5 = MemoryCheck(firmware, expected)
  OBVIOUS
<1>6. PICK c6 : c6 = SmbiosCheck(linux, expected)
  OBVIOUS
<1>7. diagnostics.checks = c1 \o c2 \o c3 \o c4 \o c5 \o c6
  BY <1>1, <1>2, <1>3, <1>4, <1>5, <1>6 DEF BuildDiagnostics, ExpectedChecks
<1>8. Demands = D1 \cup D2 \cup D3 \cup D4 \cup D5 \cup D6
  BY DEF Demands
<1>11. c1 \in Seq(Verdicts(D1)) /\ Members(c1) = Verdicts(D1)
  BY <1>1, PlatformIdVerdicts
<1>12. c2 \in Seq(Verdicts(D2)) /\ Members(c2) = Verdicts(D2)
  BY <1>2, VendorVerdicts
<1>13. c3 \in Seq(Verdicts(D3)) /\ Members(c3) = Verdicts(D3)
  BY <1>3, AcpiVerdicts
<1>14. c4 \in Seq(Verdicts(D4)) /\ Members(c4) = Verdicts(D4)
  BY <1>4, ArtifactVerdicts
<1>15. c5 \in Seq(Verdicts(D5)) /\ Members(c5) = Verdicts(D5)
  BY <1>5, MemoryVerdicts
<1>16. c6 \in Seq(Verdicts(D6)) /\ Members(c6) = Verdicts(D6)
  BY <1>6, SmbiosVerdicts
<1> HIDE DEF D1, D2, D3, D4, D5, D6
<1>17. PICK V1, V2, V3, V4, V5, V6 :
         /\ V1 = Verdicts(D1) /\ V2 = Verdicts(D2) /\ V3 = Verdicts(D3)
         /\ V4 = Verdicts(D4) /\ V5 = Verdicts(D5) /\ V6 = Verdicts(D6)
  OBVIOUS
<1>18. PICK S : S = V1 \cup V2 \cup V3 \cup V4 \cup V5 \cup V6
  OBVIOUS
<1>19. S = Verdicts(Demands)
  BY <1>8, <1>17, <1>18 DEF Verdicts
<1>20. ASSUME NEW V, NEW c \in Seq(V), V \subseteq S PROVE c \in Seq(S)
  BY <1>20
<1>21. c1 \in Seq(S) /\ c2 \in Seq(S) /\ c3 \in Seq(S)
  BY <1>11, <1>12, <1>13, <1>17, <1>18, <1>20
<1>22. c4 \in Seq(S) /\ c5 \in Seq(S) /\ c6 \in Seq(S)
  BY <1>14, <1>15, <1>16, <1>17, <1>18, <1>20
<1>23. PICK s2 : s2 = c1 \o c2
  OBVIOUS
<1>24. s2 \in Seq(S) /\ Members(s2) = V1 \cup V2
  BY <1>11, <1>12, <1>17, <1>21, <1>23, MembersOfBoth
<1>25. PICK s3 : s3 = s2 \o c3
  OBVIOUS
<1>26. s3 \in Seq(S) /\ Members(s3) = V1 \cup V2 \cup V3
  BY <1>13, <1>17, <1>21, <1>24, <1>25, MembersOfBoth
<1>27. PICK s4 : s4 = s3 \o c4
  OBVIOUS
<1>28. s4 \in Seq(S) /\ Members(s4) = V1 \cup V2 \cup V3 \cup V4
  BY <1>14, <1>17, <1>22, <1>26, <1>27, MembersOfBoth
<1>29. PICK s5 : s5 = s4 \o c5
  OBVIOUS
<1>30. s5 \in Seq(S) /\ Members(s5) = V1 \cup V2 \cup V3 \cup V4 \cup V5
  BY <1>15, <1>17, <1>22, <1>28, <1>29, MembersOfBoth
<1>31. PICK s6 : s6 = s5 \o c6
  OBVIOUS
<1>32. s6 \in Seq(S) /\ Members(s6) = S
  BY <1>16, <1>17, <1>18, <1>22, <1>30, <1>31, MembersOfBoth
<1>33. diagnostics.checks = s6
  BY <1>7, <1>23, <1>25, <1>27, <1>29, <1>31
<1>34. QED  BY <1>19, <1>32, <1>33 DEF Judgements, Members

\* The kinds of demands, and what the file says to make one.
LEMMA DemandKinds ==
    ASSUME NEW d \in Demands
    PROVE  \/ d[1] = "platform_id" /\ EntriesOf("platform_id") # {}
           \/ d[1] = "expected_firmware_vendor"
           \/ d[1] = "required_acpi_table"
           \/ d[1] = "required_linux_artifact"
           \/ d[1] = "min_memory_mib" /\ EntriesOf("min_memory_mib") # {}
           \/ d[1] = "require_smbios"
  BY DEF Demands

\* A firmware view that was not read meets no demand on the firmware.
LEMMA UnreadMeetsNothing ==
    ASSUME Evidence, firmwareFile.kind \in Unreadable, NEW d \in Demands,
           d[1] \notin {"required_linux_artifact", "require_smbios"}
    PROVE  ~Met(d)
<1>1. /\ firmwareFile.platformId = Absent /\ firmwareFile.vendor = Absent
      /\ firmwareFile.tables = {} /\ firmwareFile.usablePages = Unknown
  BY DEF Evidence, FirmwareFile
<1>2. CASE d[1] = "platform_id" /\ EntriesOf("platform_id") # {}
  <2>1. file[LastOf("platform_id")].value # Absent
    BY <1>2, ScalarsRead DEF Evidence
  <2>2. Met(d) = (firmwareFile.platformId = file[LastOf("platform_id")].value)
    BY <1>2 DEF Met
  <2>3. QED  BY <1>1, <2>1, <2>2
<1>3. CASE d[1] = "expected_firmware_vendor"
  <2>1. ASSUME NEW i \in ItemsOf("expected_firmware_vendors") PROVE file[i].value # Absent
    BY DEF ItemsOf, Evidence, ReadToEnd, ContractFile
  <2>2. EntriesOf("expected_firmware_vendor") # {} =>
           file[LastOf("expected_firmware_vendor")].value # Absent
    BY ScalarsRead DEF Evidence
  <2>3. Met(d) = (\/ \E i \in ItemsOf("expected_firmware_vendors") : file[i].value = firmwareFile.vendor
                  \/ /\ EntriesOf("expected_firmware_vendor") # {}
                     /\ file[LastOf("expected_firmware_vendor")].value = firmwareFile.vendor)
    BY <1>3 DEF Met
  <2>4. QED  BY <1>1, <2>1, <2>2, <2>3
<1>4. CASE d[1] = "required_acpi_table"
  BY <1>1, <1>4 DEF Met
<1>5. CASE d[1] = "min_memory_mib"
  BY <1>1, <1>5 DEF Met
<1>6. QED  BY <1>2, <1>3, <1>4, <1>5, DemandKinds

\* What the three words say.
LEMMA VerdictSays ==
    ASSUME Evidence, NEW d \in Demands
    PROVE  /\ Verdict(d) = "PASS" <=> Met(d)
           /\ Verdict(d) = "WARN" => firmwareFile.kind \in Unreadable
           /\ Verdict(d) = "FAIL" <=>
                /\ ~Met(d)
                /\ firmware.loaded \/ d[1] \in {"required_linux_artifact", "require_smbios"}
<1>1. firmware.loaded = (firmwareFile.kind \notin Unreadable)
  BY FirmwareIs
<1>2. CASE d[1] \in {"required_linux_artifact", "require_smbios"}
  <2>1. Verdict(d) = IF Met(d) THEN "PASS" ELSE "FAIL"
    BY <1>2 DEF Verdict, Judged
  <2>2. QED  BY <1>2, <2>1
<1>3. CASE d[1] \notin {"required_linux_artifact", "require_smbios"} /\ firmware.loaded
  <2>1. Verdict(d) = IF Met(d) THEN "PASS" ELSE "FAIL"
    BY <1>3 DEF Verdict, OfFirmware, Judged
  <2>2. QED  BY <1>3, <2>1
<1>4. CASE d[1] \notin {"required_linux_artifact", "require_smbios"} /\ ~firmware.loaded
  <2>1. Verdict(d) = "WARN"
    BY <1>4 DEF Verdict, OfFirmware
  <2>2. firmwareFile.kind \in Unreadable
    BY <1>1, <1>4
  <2>3. ~Met(d)
    BY <1>4, <2>2, UnreadMeetsNothing
  <2>4. QED  BY <1>4, <2>1, <2>2, <2>3
<1>5. QED  BY <1>2, <1>3, <1>4

\* One check for each demand: a name tells its check.
LEMMA OneCheckEach ==
    ASSUME Evidence, expected.loaded,
           diagnostics = BuildDiagnostics(linux, firmware, expected)
    PROVE  Cardinality(Judgements) = Cardinality(Demands)
<1>1. PICK c : c = diagnostics.checks
  OBVIOUS
<1>2. PICK J : J = Judgements
  OBVIOUS
<1>3. PICK D : D = Demands
  OBVIOUS
<1>4. c \in Seq(Verdicts(D)) /\ J = Verdicts(D)
  BY <1>1, <1>2, <1>3, ChecksAreVerdicts
<1>5. J = {c[i] : i \in DOMAIN c} /\ c \in Seq(J)
  BY <1>1, <1>2, <1>4 DEF Judgements
<1>6. Len(c) \in Nat /\ DOMAIN c = 1 .. Len(c)
  BY <1>4
<1>7. IsFiniteSet(1 .. Len(c))
  BY <1>6, FS_Interval
<1>8. c \in Surjection(1 .. Len(c), J)
  BY <1>5, <1>6 DEF Surjection
<1>9. IsFiniteSet(J)
  BY <1>7, <1>8, FS_Surjection
<1>10. \A d \in D : Check(Verdict(d), d) \in J /\ Check(Verdict(d), d).name = d
  BY <1>4 DEF Verdicts, Check
<1>11. \A x \in J : x.name \in D /\ x = Check(Verdict(x.name), x.name)
  BY <1>4 DEF Verdicts, Check
<1>12. PICK name \in [J -> D] : \A x \in J : name[x] = x.name
  <2>1. [x \in J |-> x.name] \in [J -> D]
    BY <1>11
  <2>2. QED  BY <2>1
<1>13. name \in Injection(J, D)
  <2>1. ASSUME NEW x \in J, NEW y \in J, name[x] = name[y] PROVE x = y
    BY <1>11, <1>12, <2>1
  <2>2. QED  BY <1>12, <2>1 DEF Injection, IsInjective
<1>14. name \in Surjection(J, D)
  <2>1. ASSUME NEW d \in D PROVE \E x \in J : name[x] = d
    BY <1>10, <1>12
  <2>2. QED  BY <1>12, <2>1 DEF Surjection
<1>15. ExistsBijection(J, D)
  BY <1>13, <1>14 DEF Bijection, ExistsBijection
<1>16. QED  BY <1>2, <1>3, <1>9, <1>15, FS_Bijection

-----------------------------------------------------------------------------
(* The invariant of the command.                                           *)

\* The diagnostics were built of what was read.
Built == /\ Parsed
         /\ firmware = BuildFirmwareView(firmwareFile)
         /\ diagnostics = BuildDiagnostics(linux, firmware, expected)

FilesSoFar ==
    /\ pc \in {"firmware", "contract", "json"} => json = "old" /\ markdown = "old"
    /\ pc = "markdown" => json = "new" /\ markdown = "old"
    /\ pc = "main" => json = "new" /\ markdown = "new"
    /\ ReportsComeInPairs

PInv ==
    /\ ReaderInv
    /\ FirmwareFile(firmwareFile) /\ linux.identity \in BOOLEAN /\ failOnError \in BOOLEAN
    /\ pc # "exited" => status = Running
    /\ pc \notin {"firmware", "exited"} => firmware = BuildFirmwareView(firmwareFile)
    /\ Diagnosed \/ markdown = "new" => Built
    /\ FilesSoFar
    /\ status \in {0, 1} /\ markdown = "new" =>
          (status = 1 <=> failOnError /\ ReportHasFailures(diagnostics))

\* Before the first line nothing is read and no list is on.
LEMMA ReaderStarts ==
    ASSUME ContractFile(file), EInit
    PROVE  ReaderInv
<1>1. at = 1 /\ current = Absent /\ expected = Empty
  BY DEF EInit
<1>2. Len(file) \in Nat /\ DOMAIN file = 1 .. Len(file)
  BY DEF ContractFile
<1>3. \A key : ItemsUpTo(key, 1 - 1) = {}
  BY <1>2 DEF ItemsUpTo, ItemsOf
<1>4. ASSUME NEW key PROVE ListSoFar(1, key, <<>>)
  BY <1>3, FS_EmptySet DEF ListSoFar
<1>5. /\ DOMAIN Empty = Fields /\ Empty.loaded = TRUE
      /\ \A key \in ListKeys : Empty[key] = <<>>
      /\ Empty.platform_id = Absent /\ Empty.expected_firmware_vendor = Absent
      /\ Empty.min_memory_mib = Unknown /\ Empty.require_smbios = FALSE
  BY DEF Empty, Fields, ListKeys
<1>6. \A key : \A i \in EntriesOf(key) : i >= 1
  BY <1>2 DEF EntriesOf
<1>7. ScalarsSoFar(1, Empty)
  BY <1>5, <1>6 DEF ScalarsSoFar, TextSoFar, NumberSoFar, FlagSoFar
<1>8. ListIsOn(1, Absent)
  <2>1. Heads(1) = {}
    BY DEF Heads
  <2>2. QED  BY <2>1 DEF ListIsOn, Under
<1>9. ReadSoFar(1, Absent, Empty)
  BY <1>4, <1>5, <1>7, <1>8 DEF ReadSoFar
<1>10. QED  BY <1>1, <1>2, <1>9 DEF ReaderInv

\* At the end of an accepted file the views are the files'.
LEMMA EvidenceAtEnd ==
    ASSUME PInv, Built, expected.loaded
    PROVE  Evidence /\ WellFormed
<1>1. expected # NotLoaded
  BY DEF NotLoaded, Empty
<1>2. ReaderInv
  BY DEF PInv
<1>3. Len(file) \in Nat /\ at = Len(file) + 1
  BY <1>2 DEF ReaderInv, ContractFile, Built, Parsed
<1>4. ReadToEnd
  BY <1>1, <1>2, <1>3 DEF ReaderInv, ReadToEnd
<1>5. WellFormed
  BY <1>2, ContractRead DEF ContractIsWhatFileSays, Built
<1>6. QED  BY <1>4, <1>5 DEF Evidence, PInv, Built

\* The verdicts of a report are those its files call for.
LEMMA Judging ==
    ASSUME PInv
    PROVE  VerdictsMatchEvidence
<1> SUFFICES ASSUME Diagnosed, expected.loaded PROVE VerdictsMatchEvidence
  BY DEF VerdictsMatchEvidence
<1>1. Built
  BY DEF PInv
<1>2. Evidence /\ diagnostics = BuildDiagnostics(linux, firmware, expected)
  BY <1>1, EvidenceAtEnd DEF Built
<1>3. Judgements = Verdicts(Demands)
  BY <1>2, ChecksAreVerdicts
<1>4. \A check \in Judgements : check.name \in Demands /\ check.status = Verdict(check.name)
  BY <1>3 DEF Verdicts, Check
<1>5. \A d \in Demands : Check(Verdict(d), d) \in Judgements /\ Check(Verdict(d), d).name = d
  BY <1>3 DEF Verdicts, Check
<1>6. {check.name : check \in Judgements} = Demands
  BY <1>4, <1>5
<1>7. Cardinality(Judgements) = Cardinality(Demands)
  BY <1>2, OneCheckEach
<1>8. ASSUME NEW check \in Judgements
      PROVE  /\ check.status = "PASS" <=> Met(check.name)
             /\ check.status = "WARN" => firmwareFile.kind \in Unreadable
  BY <1>2, <1>4, VerdictSays
<1>9. QED  BY <1>6, <1>7, <1>8 DEF VerdictsMatchEvidence

\* An exit status of Main tells whether there is an unmet demand.
LEMMA Exiting ==
    ASSUME PInv
    PROVE  ExitTellsWhetherMet
<1> DEFINE unmet == \E demand \in Demands :
                       /\ ~Met(demand)
                       /\ firmware.loaded \/ demand[1] \in {"required_linux_artifact", "require_smbios"}
<1> SUFFICES ASSUME status \in {0, 1}, markdown = "new"
             PROVE  status = 1 <=> failOnError /\ WellFormed /\ unmet
  BY DEF ExitTellsWhetherMet
<1>1. Built /\ (status = 1 <=> failOnError /\ ReportHasFailures(diagnostics))
  BY DEF PInv
<1>2. CASE expected.loaded
  <2>1. Evidence /\ WellFormed /\ diagnostics = BuildDiagnostics(linux, firmware, expected)
    BY <1>1, <1>2, EvidenceAtEnd DEF Built
  <2>2. Judgements = Verdicts(Demands)
    BY <1>2, <2>1, ChecksAreVerdicts
  <2>3. ReportHasFailures(diagnostics) <=> \E check \in Judgements : check.status = "FAIL"
    BY DEF ReportHasFailures, Judgements
  <2>4. (\E check \in Judgements : check.status = "FAIL") <=> \E d \in Demands : Verdict(d) = "FAIL"
    <3>1. \A check \in Judgements : check.name \in Demands /\ check.status = Verdict(check.name)
      BY <2>2 DEF Verdicts, Check
    <3>2. \A d \in Demands : Check(Verdict(d), d) \in Judgements
                           /\ Check(Verdict(d), d).status = Verdict(d)
      BY <2>2 DEF Verdicts, Check
    <3>3. QED  BY <3>1, <3>2
  <2>5. (\E d \in Demands : Verdict(d) = "FAIL") <=> unmet
    BY <2>1, VerdictSays
  <2>6. QED  BY <1>1, <2>1, <2>3, <2>4, <2>5
<1>3. CASE ~expected.loaded
  <2>1. ~WellFormed
    BY <1>1, <1>3, ContractRead DEF ContractIsWhatFileSays, Built, PInv
  <2>2. diagnostics.checks = <<Check("WARN", <<"expected_platform_loaded">>)>>
    BY <1>1, <1>3 DEF Built, BuildDiagnostics, ExpectedChecks
  <2>3. ~ReportHasFailures(diagnostics)
    BY <2>2 DEF ReportHasFailures, Check
  <2>4. QED  BY <1>1, <2>1, <2>3
<1>4. QED  BY <1>2, <1>3

-----------------------------------------------------------------------------
\* The command starts as its invariant has it.
LEMMA PStarts == PInit => PInv
<1> SUFFICES ASSUME PInit PROVE PInv
  OBVIOUS
<1>1. PICK s \in Settings : file \in s.files /\ linux \in s.linux /\ firmwareFile \in s.firmware
  BY DEF PInit
<1>2. ContractFile(file) /\ linux.identity \in BOOLEAN /\ FirmwareFile(firmwareFile)
  BY <1>1, SettingsAssumption
<1>3. ReaderInv
  BY <1>2, ReaderStarts DEF PInit
<1>4. FilesSoFar
  BY DEF PInit, FilesSoFar, ReportsComeInPairs, Running
<1>5. QED  BY <1>2, <1>3, <1>4 DEF PInit, PInv, Diagnosed, Running

\* The reader's invariant rests on four variables.
LEMMA SameReader ==
    ASSUME UNCHANGED <<file, at, current, expected>>
    PROVE  ReaderInv' <=> ReaderInv
  BY DEF ReaderInv, ReadSoFar, ListSoFar, ListIsOn, ScalarsSoFar, TextSoFar, NumberSoFar,
         FlagSoFar, LastBefore, TextsUpTo, ItemsUpTo, ItemsOf, BelongsTo, Under, Heads,
         EntriesOf, ContractFile, WellFormed, WellFormedLine

\* Built, and what the reader knows, rest on the files and what was read.
LEMMA NothingReadChanges ==
    ASSUME UNCHANGED <<given, at, current, expected, firmware>>
    PROVE  /\ ReaderInv' <=> ReaderInv
           /\ (FirmwareFile(firmwareFile) /\ linux.identity \in BOOLEAN /\ failOnError \in BOOLEAN)'
                <=> (FirmwareFile(firmwareFile) /\ linux.identity \in BOOLEAN /\ failOnError \in BOOLEAN)
           /\ (firmware = BuildFirmwareView(firmwareFile))' <=> firmware = BuildFirmwareView(firmwareFile)
           /\ Parsed' <=> Parsed
           /\ diagnostics' = diagnostics => (Built' <=> Built)
<1> USE DEF given
<1>1. ReaderInv' <=> ReaderInv
  BY SameReader
<1>2. Parsed' <=> Parsed
  BY DEF Parsed
<1>3. (firmware = BuildFirmwareView(firmwareFile))' <=> firmware = BuildFirmwareView(firmwareFile)
  BY DEF BuildFirmwareView
<1>4. diagnostics' = diagnostics => (Built' <=> Built)
  BY <1>2, <1>3 DEF Built
<1>5. QED  BY <1>1, <1>2, <1>3, <1>4 DEF FirmwareFile

\* Every step of the command keeps the invariant.
LEMMA PPreserves == PInv /\ [PNext]_pvars => PInv'
<1> SUFFICES ASSUME PInv, [PNext]_pvars PROVE PInv'
  OBVIOUS
<1> USE DEF given
<1>1. CASE ReadFirmware
  <2>1. pc = "firmware" /\ UNCHANGED <<given, at, current, expected, diagnostics, json, markdown>>
    BY <1>1 DEF ReadFirmware
  <2>2. json = "old" /\ markdown = "old" /\ status = Running
    BY <2>1 DEF PInv, FilesSoFar
  <2>3. \/ pc' = "exited" /\ status' = 1
        \/ pc' = "contract" /\ status' = status /\ firmware' = BuildFirmwareView(firmwareFile)
    BY <1>1 DEF ReadFirmware, Raise
  <2>4. ReaderInv'
    BY <2>1, SameReader DEF PInv
  <2>5. FirmwareFile(firmwareFile)' /\ (linux.identity \in BOOLEAN)' /\ failOnError' \in BOOLEAN
    BY <2>1 DEF PInv, FirmwareFile
  <2>6. FilesSoFar'
    BY <2>1, <2>2, <2>3 DEF FilesSoFar, ReportsComeInPairs, Running
  <2>7. ~(Diagnosed' \/ markdown' = "new")
    BY <2>1, <2>2, <2>3 DEF Diagnosed, Running
  <2>8. (pc \notin {"firmware", "exited"} => firmware = BuildFirmwareView(firmwareFile))'
    BY <2>1, <2>3 DEF BuildFirmwareView
  <2>9. (pc # "exited" => status = Running)'
    BY <2>2, <2>3
  <2>10. QED  BY <2>1, <2>2, <2>4, <2>5, <2>6, <2>7, <2>8, <2>9 DEF PInv
<1>2. CASE LoadExpectedPlatform
  <2>1. /\ pc = "contract" /\ ReadLine
        /\ UNCHANGED <<given, pc, firmware, diagnostics, json, markdown, status>>
    BY <1>2 DEF LoadExpectedPlatform
  <2>2. json = "old" /\ markdown = "old" /\ status = Running
    BY <2>1 DEF PInv, FilesSoFar
  <2>3. ReaderInv'
    BY <2>1, ReaderPreserves DEF PInv
  <2>4. FirmwareFile(firmwareFile)' /\ (linux.identity \in BOOLEAN)' /\ failOnError' \in BOOLEAN
    BY <2>1 DEF PInv, FirmwareFile
  <2>5. FilesSoFar'
    BY <2>1, <2>2 DEF FilesSoFar, ReportsComeInPairs, Running
  <2>6. ~(Diagnosed' \/ markdown' = "new")
    BY <2>1, <2>2 DEF Diagnosed, Running
  <2>7. (pc \notin {"firmware", "exited"} => firmware = BuildFirmwareView(firmwareFile))'
    BY <2>1 DEF PInv, BuildFirmwareView
  <2>8. QED  BY <2>1, <2>2, <2>3, <2>4, <2>5, <2>6, <2>7 DEF PInv
<1>3. CASE Diagnose
  <2>1. /\ pc = "contract" /\ Parsed
        /\ UNCHANGED <<given, at, current, expected, firmware, json, markdown>>
    BY <1>3 DEF Diagnose
  <2>2. json = "old" /\ markdown = "old" /\ status = Running
    BY <2>1 DEF PInv, FilesSoFar
  <2>3. \/ pc' = "exited" /\ status' = 1
        \/ /\ pc' = "json" /\ status' = status
           /\ diagnostics' = BuildDiagnostics(linux, firmware, expected)
    BY <1>3 DEF Diagnose, Raise
  <2>4. FilesSoFar'
    BY <2>1, <2>2, <2>3 DEF FilesSoFar, ReportsComeInPairs, Running
  <2>5. firmware = BuildFirmwareView(firmwareFile)
    BY <2>1 DEF PInv
  <2>6. pc' = "json" => Built'
    <3>1. SUFFICES ASSUME pc' = "json" PROVE Built'
      OBVIOUS
    <3>2. diagnostics' = BuildDiagnostics(linux, firmware, expected)
      BY <2>3, <3>1
    <3>3. (diagnostics = BuildDiagnostics(linux, firmware, expected))'
      BY <2>1, <3>2
    <3>4. QED  BY <2>1, <2>5, <3>3, NothingReadChanges DEF Built
  <2>7. Diagnosed' \/ markdown' = "new" => Built'
    BY <2>1, <2>2, <2>3, <2>6 DEF Diagnosed, Running
  <2>8. QED  BY <2>1, <2>2, <2>3, <2>4, <2>5, <2>7, NothingReadChanges DEF PInv, Running
<1>4. CASE WriteJson
  <2>1. /\ pc = "json" /\ json' = "new" /\ pc' = "markdown"
        /\ UNCHANGED <<given, at, current, expected, firmware, diagnostics, markdown, status>>
    BY <1>4 DEF WriteJson
  <2>2. markdown = "old" /\ status = Running /\ Built /\ firmware = BuildFirmwareView(firmwareFile)
    BY <2>1 DEF PInv, FilesSoFar, Diagnosed
  <2>3. FilesSoFar'
    BY <2>1, <2>2 DEF FilesSoFar, ReportsComeInPairs, Running
  <2>4. QED  BY <2>1, <2>2, <2>3, NothingReadChanges DEF PInv, Running
<1>5. CASE WriteMarkdown
  <2>1. /\ pc = "markdown" /\ markdown' = "new" /\ pc' = "main"
        /\ UNCHANGED <<given, at, current, expected, firmware, diagnostics, json, status>>
    BY <1>5 DEF WriteMarkdown
  <2>2. json = "new" /\ status = Running /\ Built /\ firmware = BuildFirmwareView(firmwareFile)
    BY <2>1 DEF PInv, FilesSoFar, Diagnosed
  <2>3. FilesSoFar'
    BY <2>1, <2>2 DEF FilesSoFar, ReportsComeInPairs, Running
  <2>4. QED  BY <2>1, <2>2, <2>3, NothingReadChanges DEF PInv, Running
<1>6. CASE MarkdownRaises
  <2>1. /\ pc = "markdown" /\ firmware.summary # "text" /\ pc' = "exited" /\ status' = 1
        /\ UNCHANGED <<given, at, current, expected, firmware, diagnostics, json>>
    BY <1>6 DEF MarkdownRaises, Raise
  <2>2. markdown = "old" /\ json = "new"
    BY <2>1 DEF PInv, FilesSoFar
  <2>3. markdown' \in {"old", "partial"}
    BY <1>6, <2>2 DEF MarkdownRaises
  <2>4. FilesSoFar'
    BY <2>1, <2>2, <2>3 DEF FilesSoFar, ReportsComeInPairs
  <2>5. ~(Diagnosed' \/ markdown' = "new")
    BY <2>1, <2>3 DEF Diagnosed
  <2>6. QED  BY <2>1, <2>3, <2>4, <2>5, NothingReadChanges DEF PInv
<1>7. CASE Main
  <2>1. /\ pc = "main" /\ pc' = "exited"
        /\ status' = IF failOnError /\ ReportHasFailures(diagnostics) THEN 1 ELSE 0
        /\ UNCHANGED <<given, at, current, expected, firmware, diagnostics, json, markdown>>
    BY <1>7 DEF Main
  <2>2. json = "new" /\ markdown = "new" /\ Built
    BY <2>1 DEF PInv, FilesSoFar, Diagnosed
  <2>3. FilesSoFar'
    BY <2>1, <2>2 DEF FilesSoFar, ReportsComeInPairs
  <2>4. status' = 1 <=> failOnError /\ ReportHasFailures(diagnostics)
    BY <2>1
  <2>5. (ReportHasFailures(diagnostics))' = ReportHasFailures(diagnostics)
    BY <2>1 DEF ReportHasFailures
  <2>6. QED  BY <2>1, <2>2, <2>3, <2>4, <2>5, NothingReadChanges DEF PInv
<1>8. CASE Stopped
  <2>1. /\ pc # "exited" /\ pc' = "exited" /\ status' = Killed137
        /\ UNCHANGED <<given, at, current, expected, firmware, diagnostics>>
    BY <1>8 DEF Stopped
  <2>2. /\ json' = json \/ (pc = "json" /\ json' = "partial")
        /\ markdown' = markdown \/ (pc = "markdown" /\ markdown' = "partial")
    BY <1>8 DEF Stopped
  <2>3. FilesSoFar'
    BY <2>1, <2>2 DEF FilesSoFar, ReportsComeInPairs, Killed137, PInv
  <2>4. Diagnosed' \/ markdown' = "new" => Built'
    BY <2>1, <2>2, NothingReadChanges DEF Diagnosed, PInv, Killed137
  <2>5. QED  BY <2>1, <2>3, <2>4, NothingReadChanges DEF PInv, Killed137
<1>9. CASE UNCHANGED pvars
  <2>1. UNCHANGED <<given, at, current, expected, pc, firmware, diagnostics, json, markdown, status>>
    BY <1>9 DEF pvars
  <2>2. FilesSoFar'
    BY <2>1 DEF FilesSoFar, ReportsComeInPairs, PInv
  <2>3. Diagnosed' \/ markdown' = "new" => Built'
    BY <2>1, NothingReadChanges DEF Diagnosed, PInv
  <2>4. (ReportHasFailures(diagnostics))' = ReportHasFailures(diagnostics)
    BY <2>1 DEF ReportHasFailures
  <2>5. QED  BY <2>1, <2>2, <2>3, <2>4, NothingReadChanges DEF PInv
<1>10. QED
  BY <1>1, <1>2, <1>3, <1>4, <1>5, <1>6, <1>7, <1>8, <1>9 DEF PNext

\* The invariant holds of every run of the command.
LEMMA PAlways == PSpec => []PInv
<1>1. QED  BY PStarts, PPreserves, PTL DEF PSpec

\* load_expected_platform accepts a file, of any length and with any lines,
\* exactly if all its lines are well formed, and has then read what they say.
THEOREM ContractIsRead == PSpec => []ContractIsWhatFileSays
<1>1. PInv => ContractIsWhatFileSays
  BY ContractRead DEF PInv
<1>2. QED  BY <1>1, PAlways, PTL

\* build_diagnostics judges every demand of an accepted contract once, by what
\* the files on disk hold, whatever they hold.
THEOREM VerdictsDoMatch == PSpec => []VerdictsMatchEvidence
<1>1. QED  BY Judging, PAlways, PTL

\* The exit status of a command that wrote its report tells whether the
\* contract is met, with the exceptions the property names.
THEOREM ExitTells == PSpec => []ExitTellsWhetherMet
<1>1. QED  BY Exiting, PAlways, PTL

\* generate_report leaves both reports or neither, but for the summaries that
\* raise between the two and for a program stopped between them.
THEOREM ReportsDoComeInPairs == PSpec => []ReportsComeInPairs
<1>1. PInv => ReportsComeInPairs
  BY DEF PInv, FilesSoFar
<1>2. QED  BY <1>1, PAlways, PTL
=============================================================================
