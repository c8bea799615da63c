-------------------------------- MODULE Madt --------------------------------
(***************************************************************************)
(* PrintMadt of Acpi/Madt.c: the walk over the variable-length records of  *)
(* the MADT.  Addresses are offsets from the first record, behind the 44   *)
(* bytes of the table's header; a table whose Length is smaller than that  *)
(* ends before it begins.  Memory goes on behind the table, with bytes     *)
(* that are none of its own.                                               *)
(***************************************************************************)
EXTENDS Integers, Sequences

CONSTANTS Tables       \* the tables the firmware may pass: records of
                       \*   found      FALSE for a NULL pointer
                       \*   signed     its signature is "APIC"
                       \*   bytes      the memory behind the header
                       \*   end        Length less the header
                       \*   records    what the firmware wrote there: records
                       \*              of at, type and length

ASSUME TablesAssumption ==
    \A t \in Tables : /\ t.found \in BOOLEAN /\ t.signed \in BOOLEAN
                      /\ t.bytes \in Seq(0 .. 255)
                      /\ t.end \in Int /\ t.end < Len(t.bytes)
                      /\ t.records \in Seq([at : Nat, type : 0 .. 255, length : 0 .. 255])

VARIABLES table,       \* the table passed, not written by the walk
          mpc,         \* "entry", "walk" or "done"
          entry,       \* Entry
          madtIndex,   \* Index
          shown,       \* the records printed: where, and of which type
          madtReach    \* history: one more than the last byte read

madtvars == <<table, mpc, entry, madtIndex, shown, madtReach>>

SizeOfHeader == 2      \* sizeof (MADT_ENTRY_HEADER)

\* The structures the printers read, by type, with their sizes.
LocalApic == 0
IoApic == 1
InterruptSourceOverride == 2
LocalApicNmi == 4
LocalX2Apic == 9

\* How much of a record its printer reads; of an unknown one, the header.
ReadBy(type) == CASE type = LocalApic               -> 8
                  [] type = IoApic                  -> 12
                  [] type = InterruptSourceOverride -> 10
                  [] type = LocalApicNmi            -> 6
                  [] type = LocalX2Apic             -> 16
                  [] OTHER                          -> SizeOfHeader

EntryType == table.bytes[entry + 1]
EntryLength == table.bytes[entry + 2]

Further(a, b) == IF a > b THEN a ELSE b

-----------------------------------------------------------------------------
\* PrintMadt is called.
MadtCalled == /\ mpc = "entry"
              /\ entry = 0
              /\ madtIndex = 0
              /\ shown = <<>>
              /\ madtReach = 0

MadtInit == table \in Tables /\ MadtCalled

\* PrintMadt: the two refusals, then the fields of the header.
EnterTable ==
    /\ mpc = "entry"
    /\ mpc' = IF table.found /\ table.signed THEN "walk" ELSE "done"
    /\ UNCHANGED <<table, entry, madtIndex, shown, madtReach>>

\* Defect: records of a type that is not known are passed over in silence.
ShowRecordKnown ==
    /\ mpc = "walk"
    /\ entry < table.end
    /\ EntryLength >= SizeOfHeader
    /\ shown' = IF ReadBy(EntryType) = SizeOfHeader THEN shown ELSE Append(shown, <<entry, EntryType>>)
    /\ madtReach' = Further(madtReach, entry + ReadBy(EntryType))
    /\ entry' = entry + EntryLength
    /\ madtIndex' = madtIndex + 1
    /\ UNCHANGED <<table, mpc>>

\* Defect: the loop looks at Length only, not at the end of the table.
ShowRecordUnbounded ==
    /\ mpc = "walk"
    /\ entry + 2 <= Len(table.bytes)
    /\ EntryLength >= SizeOfHeader
    /\ shown' = Append(shown, <<entry, EntryType>>)
    /\ madtReach' = Further(madtReach, entry + ReadBy(EntryType))
    /\ entry' = entry + EntryLength
    /\ madtIndex' = madtIndex + 1
    /\ UNCHANGED <<table, mpc>>

\* One round of the loop: the record is printed by its type, whatever its
\* Length says, and the walk advances by Length.
ShowRecord ==
    /\ mpc = "walk"
    /\ entry < table.end
    /\ EntryLength >= SizeOfHeader
    /\ shown' = Append(shown, <<entry, EntryType>>)
    /\ madtReach' = Further(madtReach, entry + ReadBy(EntryType))
    /\ entry' = entry + EntryLength
    /\ madtIndex' = madtIndex + 1
    /\ UNCHANGED <<table, mpc>>

\* A Length that does not even cover the header ends the listing.
InvalidRecord ==
    /\ mpc = "walk"
    /\ entry < table.end
    /\ EntryLength < SizeOfHeader
    /\ madtReach' = Further(madtReach, entry + SizeOfHeader)
    /\ mpc' = "done"
    /\ UNCHANGED <<table, entry, madtIndex, shown>>

EndOfTable ==
    /\ mpc = "walk"
    /\ entry >= table.end
    /\ mpc' = "done"
    /\ UNCHANGED <<table, entry, madtIndex, shown, madtReach>>

PrintMadt == EnterTable \/ ShowRecord \/ InvalidRecord \/ EndOfTable

MadtSpec == MadtInit /\ [][PrintMadt]_madtvars

-----------------------------------------------------------------------------
\* Type invariant of the walk.
MadtTypeOK == /\ mpc \in {"entry", "walk", "done"}
              /\ entry \in Nat /\ madtIndex \in Nat /\ madtReach \in Nat
              /\ shown \in Seq(Nat \X (0 .. 255))

\* Whatever the bytes, the rounds of the loop are bounded by the table, and
\* the walk never is further behind its end than one Length can carry it.
RoundsBounded == /\ SizeOfHeader * madtIndex <= entry
                 /\ madtIndex > 0 => entry < table.end + 255

\* Whatever the bytes, no read goes further past the table than the longest
\* structure less one byte: the code checks that a record begins in the table,
\* and never that it ends there.
OverreadBounded == madtReach > 0 => madtReach < table.end + ReadBy(LocalX2Apic)

\* Where record i of a table begins, or where the table ends.
RecordAt(t, i) == IF i <= Len(t.records) THEN t.records[i].at ELSE t.end

\* The table is its records and nothing else, one behind the other, each as
\* long as its type demands.
WellFormedMadt(t) ==
    /\ RecordAt(t, 1) = 0
    /\ \A i \in 1 .. Len(t.records) :
          LET r == t.records[i]
          IN  /\ r.length >= ReadBy(r.type)
              /\ RecordAt(t, i + 1) = r.at + r.length
              /\ t.bytes[r.at + 1] = r.type
              /\ t.bytes[r.at + 2] = r.length

\* A table that holds records as long as their types demand is listed record
\* by record, the unknown types too, and nothing behind its end is read.
ListsEveryRecord ==
    WellFormedMadt(table) =>
        /\ madtReach > 0 => madtReach <= table.end
        /\ Len(shown) <= Len(table.records)
        /\ \A i \in 1 .. Len(shown) :
              shown[i] = <<table.records[i].at, table.records[i].type>>
        /\ mpc = "done" /\ table.found /\ table.signed => Len(shown) = Len(table.records)

\* The walk over the MADT is a walk over a table, of which it wants to see the
\* first byte of each record.
MadtWalk == INSTANCE TableWalk WITH Room <- 1, at <- entry, size <- table.end,
                                over <- mpc = "done"

MadtStaysInTable == MadtWalk!WalkSpec

=============================================================================
