------------------------------ MODULE MCSmbios ------------------------------
(***************************************************************************)
(* Tables of up to three structures the firmware wrote, behind either      *)
(* entry point, with and without an end mark; the same cut at any byte or  *)
(* with one byte changed.                                                  *)
(***************************************************************************)
EXTENDS Smbios, SequencesExt, FiniteSetsExt

A == 65
B == 66

\* The formatted area as the standard describes it: fields is a sequence of
\* pairs of an offset and a byte.
Formatted(type, length, fields) ==
    [i \in 1 .. length |->
        CASE i = 1 -> type
          [] i = 2 -> length
          [] OTHER -> IF \E k \in DOMAIN fields : fields[k][1] = i - 1
                      THEN fields[CHOOSE k \in DOMAIN fields : fields[k][1] = i - 1][2]
                      ELSE 0]

StringSet(texts) == IF texts = <<>> THEN <<0, 0>>
                    ELSE FlattenSeq([i \in 1 .. Len(texts) |-> texts[i] \o <<0>>]) \o <<0>>

\* A structure that can stand anywhere, and whether it gets a line.
Structure(type, length, fields, texts, names, numbers, line) ==
    [bytes |-> Formatted(type, length, fields) \o StringSet(texts),
     type |-> type, length |-> length, texts |-> texts,
     names |-> names, numbers |-> numbers, line |-> line]

Unprinted(type, length, fields, texts) ==
    Structure(type, length, fields, texts, <<>>, <<>>, FALSE)

\* A structure with string fields at offsets, naming strings.
Inventory(type, length, offsets, names, texts) ==
    Structure(type, length, [i \in DOMAIN names |-> <<offsets[i], names[i]>>], texts,
              names, <<>>, TRUE)

Bios == Inventory(0, 24, <<4, 5, 8>>, <<1, 2, 3>>, << <<A>>, <<B, B>>, <<A, B>> >>)
BiosShort == Unprinted(0, 8, << <<4, 1>> >>, << <<A>> >>)
System == Inventory(1, 27, <<4, 5, 6, 7>>, <<2, 0, 1, 3>>, << <<A, A>>, <<B>> >>)
Baseboard == Inventory(2, 8, <<4, 5, 6, 7>>, <<1, 1, 2, 9>>, << <<B>>, <<A>> >>)
Chassis == Inventory(3, 13, <<4, 6, 7>>, <<0, 0, 0>>, <<>>)

\* Processors of SMBIOS 2.0, 2.3, 2.5, 2.6 and 3.0, with the counts each has.
Processor(length, counts, fields) ==
    Structure(4, length, << <<4, 1>>, <<7, 2>>, <<16, 0>> >> \o fields, << <<A>>, <<B>> >>,
              <<1, 2, 0>>, counts, TRUE)

Counts8 == << <<35, 8>>, <<36, 6>>, <<37, 16>> >>
Counts8Full == << <<35, 255>>, <<36, 255>>, <<37, 255>> >>
Counts16 == << <<42, 44>>, <<43, 1>>, <<44, 0>>, <<45, 1>>, <<46, 88>>, <<47, 2>> >>

Processors == {Processor(26, <<0, 0, 0>>, <<>>), Processor(35, <<0, 0, 0>>, <<>>),
               Processor(40, <<8, 6, 16>>, Counts8),
               Processor(42, <<255, 255, 255>>, Counts8Full),
               Processor(48, <<8, 6, 16>>, Counts8),
               Processor(48, <<300, 256, 600>>, Counts8Full \o Counts16)}

\* A memory slot with the two bytes of its size, and what that says.
MemorySlot(low, high, mb) ==
    Structure(17, 34, << <<12, low>>, <<13, high>>, <<16, 1>>, <<17, 2>> >>, << <<A>>, <<B>> >>,
              <<1, 2, 0, 0, 0>>, <<mb>>, mb # 0)

\* Empty, 2048 MB, 2048 KB, 512 KB (which no line is printed for), unknown.
MemorySlots == {MemorySlot(0, 0, 0), MemorySlot(0, 8, 2048), MemorySlot(0, 136, 2),
                MemorySlot(0, 130, 0), MemorySlot(255, 255, 65535)}

OemStrings == Unprinted(11, 5, << <<4, 2>> >>, << <<A>>, <<B, A>> >>)
End == Unprinted(EndOfTableMark, 4, <<>>, <<>>)

Structures == {Bios, BiosShort, System, Baseboard, Chassis, OemStrings} \cup Processors \cup MemorySlots

\* Bytes behind the table: never a terminator.
Behind == [i \in 1 .. Overread |-> A]

LengthOf(parts) == FoldLeft(LAMBDA n, part : n + Len(part), 0, parts)

\* The structure at a place, with the places of its strings.
At(s, place) ==
    [at |-> place, type |-> s.type, length |-> s.length, texts |-> s.texts,
     strings |-> [k \in 1 .. Len(s.texts) + 1 |->
                    place + s.length + LengthOf(SubSeq(s.texts, 1, k - 1)) + k - 1],
     names |-> s.names, numbers |-> s.numbers]

\* A table of structures, told to be count structures long; an end mark that
\* is not the last ends the listing behind the first printed.
TableOf(ss, count, printed) ==
    LET parts == [i \in 1 .. Len(ss) |-> ss[i].bytes]
    IN  [bytes |-> FlattenSeq(parts) \o Behind, size |-> LengthOf(parts), count |-> count,
         structures |-> [i \in 1 .. Len(ss) |-> At(ss[i], LengthOf(SubSeq(parts, 1, i - 1)))],
         printed |-> SelectSeq([i \in 1 .. printed |-> i], LAMBDA i : ss[i].line),
         formed |-> TRUE]

Whole(ss, count) == TableOf(ss, count, IF count = 0 THEN Len(ss) ELSE count)

By64(t) == [entry64 |-> <<t>>, entry32 |-> << >>]
By32(t) == [entry64 |-> << >>, entry32 |-> <<t>>]

Sound ==
    { By64(Whole(<<s, u>>, 0)) : s \in Structures, u \in Structures }
    \cup { By64(TableOf(<<s, End, u>>, 0, 1)) : s \in Structures, u \in {Bios, Chassis} }
    \cup { By32(Whole(<<s, Bios, u>>, n)) : s \in {System, OemStrings}, u \in MemorySlots, n \in 1 .. 3 }
    \* The 32-bit count of another table has no say in the 64-bit walk.
    \cup { [entry64 |-> <<[Whole(<<Bios, System>>, 0) EXCEPT !.count = 1]>>, entry32 |-> <<Whole(<<Bios>>, 1)>>] }

Unsound(t) == [t EXCEPT !.formed = FALSE]

Cuts(t) == { [Unsound(t) EXCEPT !.size = n] : n \in 0 .. t.size }

Changes(t) == { [Unsound(t) EXCEPT !.bytes[i] = b] : i \in 1 .. t.size, b \in {0, A, 255} }

Broken == { By64(t) : t \in UNION { Cuts(Whole(<<s, Chassis>>, 0)) : s \in Structures } }
          \cup { By64(t) : t \in Changes(Whole(<<Bios, Chassis>>, 0)) }
          \cup { By32(t) : t \in Changes(Whole(<<Chassis, OemStrings>>, 2)) }

NoSmbios == [entry64 |-> << >>, entry32 |-> << >>]

MCFirmwares == {NoSmbios} \cup Sound \cup Broken

=============================================================================
