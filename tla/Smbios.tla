------------------------------- MODULE Smbios -------------------------------
(***************************************************************************)
(* Smbios/Smbios.c: the walk over the structures of the SMBIOS table and   *)
(* the strings behind each of them.  A structure is a formatted area of    *)
(* Length bytes, its strings each with a terminator, and one terminator    *)
(* more.  Addresses are offsets from the first structure; memory goes on   *)
(* behind the table.  Every pointer moves as in the code, byte by byte.    *)
(***************************************************************************)
EXTENDS Integers, Sequences

SizeOfStructure == 4   \* sizeof (SMBIOS_STRUCTURE)
EndOfTableMark == 127  \* SMBIOS_TYPE_END_OF_TABLE

\* A line is made of up to 48 bytes of a structure that has 4 of them in the
\* table, and of up to 4 more than its Length.
Overread == 44
CountsBeyond == 4

CONSTANTS Firmwares    \* what the entry points lead to: records of entry64 and
                       \* entry32, each a sequence of no table or of one:
                       \*   bytes    the memory from the first structure on
                       \*   size     TableMaximumSize or TableLength
                       \*   count    NumberOfSmbiosStructures
                       \*   structures  what the firmware wrote there
                       \*   printed     which of them get a line
                       \*   formed      the bytes are that and nothing else

ASSUME FirmwaresAssumption ==
    \A f \in Firmwares : \A entry \in {f.entry64, f.entry32} :
        \/ entry = <<>>
        \/ /\ DOMAIN entry = {1}
           /\ entry[1].bytes \in Seq(0 .. 255)
           /\ entry[1].size \in Nat
           /\ entry[1].size + Overread <= Len(entry[1].bytes)
           /\ entry[1].count \in Nat

VARIABLES firmware,    \* the entry points, not written by the walk
          pc,          \* "enter", "structure", "string", "skip", "next" or "done"
          header,      \* Header
          index,       \* Index of PrintSmbiosTable
          wanted,      \* the string numbers the line still needs
          string,      \* String of SmbiosString
          number,      \* its Index
          found,       \* the strings the line has
          walker,      \* Walker of NextSmbiosStructure
          lines,       \* the lines printed
          reach,       \* history: one more than the last byte the pointers read,
          fieldReach   \* and than the last byte of a field that was read

svars == <<firmware, pc, header, index, wanted, string, number, found, walker, lines, reach, fieldReach>>
stringvars == <<wanted, string, number, found>>

-----------------------------------------------------------------------------
NoTable == [bytes |-> <<>>, size |-> 0, count |-> 0,
            structures |-> <<>>, printed |-> <<>>, formed |-> FALSE]

\* PrintSmbiosBasicInfo: the 64-bit entry point is preferred; it has no count
\* of structures.
Table == CASE firmware.entry64 # <<>> -> firmware.entry64[1]
           [] firmware.entry64 = <<>> /\ firmware.entry32 # <<>> -> firmware.entry32[1]
           [] OTHER -> NoTable

StructureCount == IF firmware.entry64 # <<>> THEN 0 ELSE Table.count

TableEnd == Table.size

Byte(a) == Table.bytes[a + 1]
Word(a) == Byte(a) + 256 * Byte(a + 1)

Type == Byte(header)
Length == Byte(header + 1)

\* The string fields of a printed structure, and how long it has to be.
StringFields(type) == CASE type = 0        -> <<4, 5, 8>>
                        [] type \in {1, 2} -> <<4, 5, 6, 7>>
                        [] type = 3        -> <<4, 6, 7>>
                        [] type = 4        -> <<4, 7, 16>>
                        [] type = 17       -> <<16, 17, 23, 24, 26>>

FormattedSize(type) == CASE type = 0           -> 9
                         [] type \in {1, 2, 3} -> 8
                         [] type = 4           -> 24
                         [] type = 17          -> 27

\* Fields of SMBIOS_TABLE_TYPE4 and SMBIOS_TABLE_TYPE17.
CoreCount == 35
CoreCount2 == 42
Size == 12

FieldPresent(offset, size) == Length >= offset + size

\* Defect: the 16-bit count is read wherever the 8-bit one says 255.
HasCoreCount2Unasked == FieldPresent(CoreCount, 1) /\ Byte(header + CoreCount) = 255

\* The 16-bit count is there and the 8-bit one says 255.
HasCoreCount2 == FieldPresent(CoreCount2, 2) /\ Byte(header + CoreCount) = 255

\* CoreCount, EnabledCoreCount and ThreadCount as PrintType4Processor ends up
\* with them.
ProcessorCounts ==
    CASE ~FieldPresent(CoreCount, 1) -> <<0, 0, 0>>
      [] FieldPresent(CoreCount, 1) /\ ~HasCoreCount2 ->
           [i \in 1 .. 3 |-> Byte(header + CoreCount + i - 1)]
      [] FieldPresent(CoreCount, 1) /\ HasCoreCount2 ->
           [i \in 1 .. 3 |-> Word(header + CoreCount2 + 2 * (i - 1))]

\* Zero, 0xFFFF, a number of KB (bit 15) or a number of MB.
MemoryDeviceSizeMb ==
    LET size == Word(header + Size)
    IN  IF size # 65535 /\ size >= 32768 THEN (size - 32768) \div 1024 ELSE size

\* The numbers of a line.
Numbers == CASE Type = 4  -> ProcessorCounts
             [] Type = 17 -> <<MemoryDeviceSizeMb>>
             [] OTHER     -> <<>>

\* A structure that gets a line: of a type with a printer, long enough for it,
\* and not an empty memory slot.
Printed == /\ Type \in {0, 1, 2, 3, 4, 17}
           /\ Length >= FormattedSize(Type)
           /\ Type = 17 => MemoryDeviceSizeMb # 0

\* Where the fields end that the line of a printed structure is made of.  The
\* three counts are read when the first of them is there.
FieldsEnd ==
    CASE Type = 4 /\ HasCoreCount2                                  -> CoreCount2 + 6
      [] Type = 4 /\ ~HasCoreCount2 /\ FieldPresent(CoreCount, 1)   -> CoreCount + 3
      [] OTHER                                                      -> FormattedSize(Type)

Farther(a, b) == IF a > b THEN a ELSE b

-----------------------------------------------------------------------------
\* PrintSmbiosBasicInfo is called.
SmbiosCalled == /\ pc = "enter"
                /\ header = 0 /\ index = 0
                /\ wanted = <<>> /\ string = 0 /\ number = 1 /\ found = <<>>
                /\ walker = 0
                /\ lines = <<>>
                /\ reach = 0 /\ fieldReach = 0

SmbiosInit == firmware \in Firmwares /\ SmbiosCalled

PrintSmbiosBasicInfo ==
    /\ pc = "enter"
    /\ pc' = IF firmware.entry64 = <<>> /\ firmware.entry32 = <<>> THEN "done" ELSE "structure"
    /\ UNCHANGED <<firmware, header, index, stringvars, walker, lines, reach, fieldReach>>

InTable == header + SizeOfStructure <= TableEnd
Counted == StructureCount = 0 \/ index < StructureCount
Trusted == Type # EndOfTableMark /\ Length >= SizeOfStructure

\* The loop of PrintSmbiosTable, at a structure that has no line.
PassStructure ==
    /\ pc = "structure"
    /\ InTable /\ Counted /\ Trusted /\ ~Printed
    /\ walker' = header + Length
    /\ pc' = "next"
    /\ reach' = Farther(reach, header + SizeOfStructure)
    /\ fieldReach' = IF Type = 17 /\ Length >= FormattedSize(17)
                    THEN Farther(fieldReach, header + Size + 2) ELSE fieldReach
    /\ UNCHANGED <<firmware, header, index, stringvars, lines>>

\* The same at one that has: its string numbers and its other fields are read,
\* and the strings looked for.
BeginLine ==
    /\ pc = "structure"
    /\ InTable /\ Counted /\ Trusted /\ Printed
    /\ wanted' = [i \in DOMAIN StringFields(Type) |-> Byte(header + StringFields(Type)[i])]
    /\ found' = <<>>
    /\ string' = header + Length
    /\ number' = 1
    /\ pc' = "string"
    /\ reach' = Farther(reach, header + SizeOfStructure)
    /\ fieldReach' = Farther(fieldReach, header + FieldsEnd)
    /\ UNCHANGED <<firmware, header, index, walker, lines>>

EndWalk ==
    /\ pc = "structure"
    /\ ~(InTable /\ Counted /\ Trusted)
    /\ pc' = "done"
    /\ reach' = IF InTable THEN Farther(reach, header + SizeOfStructure) ELSE reach
    /\ UNCHANGED <<firmware, header, index, stringvars, walker, lines, fieldReach>>

\* Defect: off by one at the end of the table.
AtStringOneMore == string <= TableEnd /\ Byte(string) # 0

\* SmbiosString is at a string: inside the table, and not the empty one that
\* ends the set.
AtString == string < TableEnd /\ Byte(string) # 0

\* What SmbiosString returns for the string it was asked for.
Answer == CASE Head(wanted) = 0                      -> [what |-> "empty", at |-> 0]
            [] Head(wanted) # 0 /\ AtString          -> [what |-> "string", at |-> string]
            [] Head(wanted) # 0 /\ ~AtString /\ string >= TableEnd
                                                     -> [what |-> "truncated", at |-> 0]
            [] OTHER                                 -> [what |-> "missing", at |-> 0]

\* SmbiosString returns, and is called for the next field.
SmbiosString ==
    /\ pc = "string"
    /\ wanted # <<>>
    /\ Head(wanted) = 0 \/ ~AtString \/ number = Head(wanted)
    /\ found' = Append(found, Answer)
    /\ wanted' = Tail(wanted)
    /\ string' = header + Length
    /\ number' = 1
    /\ reach' = IF Head(wanted) # 0 /\ string < TableEnd THEN Farther(reach, string + 1) ELSE reach
    /\ UNCHANGED <<firmware, pc, header, index, walker, lines, fieldReach>>

\* Another string is wanted: this one is passed, byte by byte.
PassString ==
    /\ pc = "string"
    /\ wanted # <<>>
    /\ Head(wanted) # 0 /\ AtString /\ number # Head(wanted)
    /\ pc' = "skip"
    /\ reach' = Farther(reach, string + 1)
    /\ UNCHANGED <<firmware, header, index, stringvars, walker, lines, fieldReach>>

PassByte ==
    /\ pc = "skip"
    /\ AtString
    /\ string' = string + 1
    /\ reach' = Farther(reach, string + 1)
    /\ UNCHANGED <<firmware, pc, header, index, wanted, number, found, walker, lines, fieldReach>>

\* Defect: the terminator of a string passed is taken for the next string.
PassTerminatorNot ==
    /\ pc = "skip"
    /\ ~AtString
    /\ number' = number + 1
    /\ pc' = "string"
    /\ UNCHANGED <<firmware, header, index, wanted, string, found, walker, lines, reach, fieldReach>>

PassTerminator ==
    /\ pc = "skip"
    /\ ~AtString
    /\ string' = IF string < TableEnd THEN string + 1 ELSE string
    /\ number' = number + 1
    /\ pc' = "string"
    /\ reach' = IF string < TableEnd THEN Farther(reach, string + 1) ELSE reach
    /\ UNCHANGED <<firmware, header, index, wanted, found, walker, lines, fieldReach>>

\* The line has all its strings.
PrintLine ==
    /\ pc = "string"
    /\ wanted = <<>>
    /\ lines' = Append(lines, [type |-> Type, strings |-> found, numbers |-> Numbers])
    /\ walker' = header + Length
    /\ pc' = "next"
    /\ UNCHANGED <<firmware, header, index, stringvars, reach, fieldReach>>

\* NextSmbiosStructure, a byte further.
WalkOn ==
    /\ pc = "next"
    /\ walker + 1 < TableEnd
    /\ ~(Byte(walker) = 0 /\ Byte(walker + 1) = 0)
    /\ walker' = walker + 1
    /\ reach' = Farther(reach, walker + 2)
    /\ UNCHANGED <<firmware, pc, header, index, stringvars, lines, fieldReach>>

\* Defect: a table without the double terminator is walked again and again.
NextSmbiosStructureStuck ==
    /\ pc = "next"
    /\ walker + 1 < TableEnd => Byte(walker) = 0 /\ Byte(walker + 1) = 0
    /\ header' = IF walker + 1 < TableEnd THEN walker + 2 ELSE header
    /\ pc' = "structure"
    /\ reach' = Farther(reach, IF walker + 1 < TableEnd THEN walker + 2 ELSE 0)
    /\ UNCHANGED <<firmware, index, stringvars, walker, lines, fieldReach>>

\* The double terminator, or the end of the table; Index goes up.
NextSmbiosStructure ==
    /\ pc = "next"
    /\ walker + 1 < TableEnd => Byte(walker) = 0 /\ Byte(walker + 1) = 0
    /\ header' = IF walker + 1 < TableEnd THEN walker + 2 ELSE TableEnd
    /\ index' = index + 1
    /\ pc' = "structure"
    /\ reach' = Farther(reach, IF walker + 1 < TableEnd THEN walker + 2 ELSE 0)
    /\ UNCHANGED <<firmware, stringvars, walker, lines, fieldReach>>

SmbiosNext ==
    \/ PrintSmbiosBasicInfo \/ PassStructure \/ BeginLine \/ EndWalk
    \/ SmbiosString \/ PassString \/ PassByte \/ PassTerminator \/ PrintLine
    \/ WalkOn \/ NextSmbiosStructure

SmbiosSpec == SmbiosInit /\ [][SmbiosNext]_svars

-----------------------------------------------------------------------------
\* Type invariant of the walk.
SmbiosTypeOK ==
    /\ pc \in {"enter", "structure", "string", "skip", "next", "done"}
    /\ header \in 0 .. TableEnd
    /\ index \in Nat /\ string \in Nat /\ number \in Nat /\ walker \in Nat
    /\ reach \in Nat /\ fieldReach \in Nat

\* The fields of a structure are held against its Length alone.  They are read
\* past the table only where that Length reaches past it, or all but does, and
\* by fewer bytes than the longest line needs; and then the walk finds no other
\* structure.
FieldsInside ==
    /\ fieldReach <= TableEnd + Overread
    /\ pc \in {"string", "skip", "next"} =>
          fieldReach <= Farther(TableEnd, header + Length + CountsBeyond)
    /\ pc = "structure" /\ InTable => fieldReach <= TableEnd

\* Whatever the bytes, no pointer of the walk reads past the table, and every
\* string it hands to Print begins in the table; what is read past it, of the
\* fields of its last structure, is bounded.
PointersInside ==
    /\ reach <= TableEnd
    /\ \A i \in DOMAIN found : found[i].what = "string" => found[i].at < TableEnd
    /\ FieldsInside

(***************************************************************************)
(* What a firmware writes: a structure with its strings, the numbers of    *)
(* the strings its line shows, and the other numbers the line shows.       *)
(***************************************************************************)
WrittenStructures == [at : Nat,                \* where it begins
                      type : 0 .. 255, length : 0 .. 255,
                      texts : Seq(Seq(1 .. 255) \ {<<>>}),
                      strings : Seq(Nat),      \* where each text begins, and last the
                                               \* terminator of the set
                      names : Seq(0 .. 255),
                      numbers : Seq(Nat)]

ByteOf(t, a) == t.bytes[a + 1]
WordOf(t, a) == ByteOf(t, a) + 256 * ByteOf(t, a + 1)

\* Where structure i of t ends: the set of its strings has a terminator, and
\* an empty one has two.
EndOfStructure(t, i) ==
    IF i = 0 THEN 0
    ELSE LET s == t.structures[i]
         IN  s.strings[Len(s.texts) + 1] + IF s.texts = <<>> THEN 2 ELSE 1

StringsWritten(t, s) ==
    /\ Len(s.strings) = Len(s.texts) + 1
    /\ s.strings[1] = s.at + s.length
    /\ \A k \in DOMAIN s.texts :
          /\ s.strings[k + 1] = s.strings[k] + Len(s.texts[k]) + 1
          /\ \A j \in DOMAIN s.texts[k] : ByteOf(t, s.strings[k] + j - 1) = s.texts[k][j]
          /\ ByteOf(t, s.strings[k + 1] - 1) = 0
    /\ ByteOf(t, s.strings[Len(s.strings)]) = 0
    /\ s.texts = <<>> => ByteOf(t, s.strings[1] + 1) = 0

\* The counts of a processor have a byte each from SMBIOS 2.5 on, and a word
\* each from 3.0 on, which counts if there are 255 cores or more.
CountsWritten(t, s) ==
    /\ Len(s.numbers) = 3
    /\ s.length \notin 36 .. 37 /\ s.length \notin 44 .. 47
    /\ s.length < 36 => s.numbers = <<0, 0, 0>>
    /\ s.length >= 36 /\ (s.length < 44 \/ s.numbers[1] < 255) =>
          \A i \in 1 .. 3 : ByteOf(t, s.at + CoreCount + i - 1) = s.numbers[i]
    /\ s.length >= 44 /\ s.numbers[1] >= 255 =>
          /\ ByteOf(t, s.at + CoreCount) = 255
          /\ \A i \in 1 .. 3 : WordOf(t, s.at + CoreCount2 + 2 * (i - 1)) = s.numbers[i]

\* The size of a memory device: in MB, unknown, or in KB with bit 15 set.
SizeWritten(t, s) ==
    LET size == WordOf(t, s.at + Size)
    IN  /\ Len(s.numbers) = 1
        /\ size < 32768 \/ size = 65535 => s.numbers[1] = size
        /\ size >= 32768 /\ size # 65535 =>
              /\ 1024 * s.numbers[1] <= size - 32768
              /\ size - 32768 < 1024 * (s.numbers[1] + 1)

\* A structure of a type there is a line for, as long as the line needs.
Shown(s) == s.type \in {0, 1, 2, 3, 4, 17} /\ s.length >= FormattedSize(s.type)

FieldsWritten(t, s) ==
    /\ DOMAIN s.names = DOMAIN StringFields(s.type)
    /\ \A i \in DOMAIN s.names : ByteOf(t, s.at + StringFields(s.type)[i]) = s.names[i]
    /\ CASE s.type = 4             -> CountsWritten(t, s)
         [] s.type = 17            -> SizeWritten(t, s)
         [] s.type \notin {4, 17}  -> s.numbers = <<>>

\* A table of structures one behind the other, and nothing else.  Those that
\* have a line, up to the end mark or the count, are the ones to be printed;
\* an empty memory slot has none.
WrittenTable(t, count) ==
    /\ t.structures \in Seq(WrittenStructures)
    /\ \A i \in DOMAIN t.structures :
          LET s == t.structures[i]
          IN  /\ s.at = EndOfStructure(t, i - 1)
              /\ ByteOf(t, s.at) = s.type /\ ByteOf(t, s.at + 1) = s.length
              /\ s.length >= SizeOfStructure
              /\ StringsWritten(t, s)
              /\ Shown(s) => FieldsWritten(t, s)
    /\ t.size = EndOfStructure(t, Len(t.structures))
    /\ t.printed \in Seq(DOMAIN t.structures)
    /\ \A k, l \in DOMAIN t.printed : k < l => t.printed[k] < t.printed[l]
    /\ \A i \in DOMAIN t.structures :
          (\E k \in DOMAIN t.printed : t.printed[k] = i) <=>
            /\ count = 0 \/ i <= count
            /\ \A j \in 1 .. i : t.structures[j].type # EndOfTableMark
            /\ Shown(t.structures[i])
            /\ t.structures[i].type = 17 => t.structures[i].numbers # <<0>>

\* A table that is called well formed is what the firmware wrote; the count
\* goes with the 32-bit entry point.
ASSUME WrittenAssumption ==
    \A f \in Firmwares :
        /\ f.entry64 # <<>> /\ f.entry64[1].formed => WrittenTable(f.entry64[1], 0)
        /\ f.entry32 # <<>> /\ f.entry32[1].formed =>
              WrittenTable(f.entry32[1], f.entry32[1].count)

\* The text Print finds at a place of t.
TextAt(t, a) ==
    LET end == CHOOSE e \in a .. Len(t.bytes) :
                  /\ e = Len(t.bytes) \/ ByteOf(t, e) = 0
                  /\ \A b \in a .. e - 1 : ByteOf(t, b) # 0
    IN  SubSeq(t.bytes, a + 1, end)

\* What the answers of SmbiosString read like, and what string n of s does.
Reading(t, answer) ==
    [what |-> answer.what,
     text |-> IF answer.what = "string" THEN TextAt(t, answer.at) ELSE <<>>]

Named(s, n) == CASE n = 0                            -> [what |-> "empty", text |-> <<>>]
                 [] n \in DOMAIN s.texts             -> [what |-> "string", text |-> s.texts[n]]
                 [] n # 0 /\ n \notin DOMAIN s.texts -> [what |-> "missing", text |-> <<>>]

Says(t, line, s) ==
    /\ line.type = s.type
    /\ line.numbers = s.numbers
    /\ Len(line.strings) = Len(s.names)
    /\ \A i \in DOMAIN s.names : Reading(t, line.strings[i]) = Named(s, s.names[i])

\* A table the firmware formed well is printed as it was written: a line for
\* each structure that has one up to the end mark or the count, with the
\* strings its fields name and the numbers its length allows.
PrintsWhatWasWritten ==
    Table.formed =>
        /\ Len(lines) <= Len(Table.printed)
        /\ \A i \in 1 .. Len(lines) : Says(Table, lines[i], Table.structures[Table.printed[i]])
        /\ pc = "done" => Len(lines) = Len(Table.printed)

\* The walk over the structures is a walk over a table, of which it wants to
\* see the four bytes every structure begins with.
Walk == INSTANCE TableWalk WITH Room <- SizeOfStructure, at <- header,
                                size <- TableEnd, over <- pc = "done"

StaysInTable == Walk!WalkSpec

=============================================================================
