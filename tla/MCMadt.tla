------------------------------- MODULE MCMadt -------------------------------
(***************************************************************************)
(* Tables the firmware wrote record by record, the same cut short, and     *)
(* tables of any bytes at all.                                             *)
(***************************************************************************)
EXTENDS Madt, SequencesExt, FiniteSetsExt

\* What lies behind a table looks like one more record.
BehindMadt == <<9, 16>>

RecordBytes(r) == <<r[1], r[2]>> \o [i \in 1 .. r[2] - 2 |-> 0]

BytesOf(rs) == FlattenSeq([i \in 1 .. Len(rs) |-> RecordBytes(rs[i])])

\* Records as long as their type demands, longer, and of a type not known.
MCRecords == {<<0, 8>>, <<1, 12>>, <<2, 10>>, <<4, 6>>, <<9, 16>>, <<0, 9>>,
              <<10, 12>>, <<127, 2>>}

RecordsOf(rs) ==
    LET ends[i \in 0 .. Len(rs)] == IF i = 0 THEN 0 ELSE ends[i - 1] + rs[i][2]
    IN  [i \in 1 .. Len(rs) |-> [at |-> ends[i - 1], type |-> rs[i][1], length |-> rs[i][2]]]

MadtOf(rs) == [found |-> TRUE, signed |-> TRUE, bytes |-> BytesOf(rs) \o BehindMadt,
                end |-> Len(BytesOf(rs)), records |-> RecordsOf(rs)]

\* The same table with a Length that leaves out its last n bytes.
CutMadt(t, n) == [t EXCEPT !.end = @ - n]

\* A table of arbitrary bytes.
RawMadt(bytes) == [found |-> TRUE, signed |-> TRUE, bytes |-> bytes \o BehindMadt,
               end |-> Len(bytes), records |-> <<>>]

MadtsWritten == { MadtOf(rs) : rs \in BoundedSeq(MCRecords, 3) }

\* No MADT: PrintMadt is passed NULL.
MCNoMadt == [MadtOf(<<>>) EXCEPT !.found = FALSE]

MCTables ==
    MadtsWritten
    \cup { CutMadt(MadtOf(rs), n) : rs \in BoundedSeq(MCRecords, 2), n \in 1 .. 9 }
    \cup { RawMadt(bytes) : bytes \in BoundedSeq({0, 1, 2, 3, 9, 200}, 5) }
    \cup {MCNoMadt}
=============================================================================
