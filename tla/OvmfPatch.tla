------------------------------ MODULE OvmfPatch ------------------------------
(***************************************************************************)
(* scripts/build-ovmf-with-producer.sh: the two build files of OVMF are    *)
(* patched in place and the image is built.  The script may be run any     *)
(* number of times and stopped between any two writes.  A file is the      *)
(* sequence of its lines, a line is what the script looks for in it:       *)
(*   "upstream"   any other line                                           *)
(*   "dxefv"      [FV.DXEFV]             "fv"   the head of another FV     *)
(*   "inf"        INF at the beginning of the line                         *)
(*   "producer"   the line with the path of FirmwareProducerDxe.inf        *)
(***************************************************************************)
EXTENDS Integers, Sequences, SequencesExt

CONSTANTS Fdfs,        \* the FDFs the script may be given
          MaxRuns      \* bound: runs of the script

Lines == {"upstream", "dxefv", "fv", "inf"}

\* An FDF of OVMF does not name the producer.
ASSUME FdfsAssumption == Fdfs \subseteq Seq(Lines) /\ MaxRuns \in Nat

VARIABLES original,    \* history: the FDF before the first run
          dsc, fdf,    \* the files of the platform
          dscBak,      \* their backups, NoFile before they are made
          fdfBak,
          tmp,         \* what awk has written
          pc,          \* the next command, "idle" between runs
          runs,
          stopped,     \* history: a run was stopped
          built        \* history: a run has come to the build

ovars == <<original, dsc, fdf, dscBak, fdfBak, tmp, pc, runs, stopped, built>>

NoFile == <<"none">>
Dsc == <<"upstream", "upstream">>

ProducerBlock == <<"blank", "producer note", "[Components]", "producer">>
WarningBlock == <<"blank", "warning note", "[BuildOptions]", "flags">>

\* The awk program: the line goes before the first INF of DXEFV, or before
\* the next volume if DXEFV has none.
Line(s, l) ==
    LET insert == /\ s.inDxefv /\ ~s.inserted /\ l \in {"inf", "fv"}
    IN  [out      |-> IF insert THEN s.out \o <<"producer", l>> ELSE Append(s.out, l),
         inDxefv  |-> l = "dxefv" \/ (s.inDxefv /\ l # "fv"),
         inserted |-> s.inserted \/ insert]

\* Where it is after n lines.
Awked(lines) ==
    LET after[n \in 0 .. Len(lines)] ==
            IF n = 0 THEN [out |-> <<>>, inDxefv |-> FALSE, inserted |-> FALSE]
            ELSE Line(after[n - 1], lines[n])
    IN  after

Awk(lines) == Awked(lines)[Len(lines)]

-----------------------------------------------------------------------------
OInit == /\ original \in Fdfs
         /\ dsc = Dsc /\ fdf = original
         /\ dscBak = NoFile /\ fdfBak = NoFile /\ tmp = NoFile
         /\ pc = "idle" /\ runs = 0
         /\ stopped = FALSE /\ built = FALSE

Start == /\ pc = "idle" /\ runs < MaxRuns
         /\ runs' = runs + 1 /\ pc' = "grep producer"
         /\ UNCHANGED <<original, dsc, fdf, dscBak, fdfBak, tmp, stopped, built>>

\* Defect: the path looked for is not the one the script writes.
GrepDscOther ==
    /\ \/ pc = "grep producer" /\ pc' = "backup for producer"
       \/ /\ pc = "grep warning"
          /\ pc' = IF Contains(dsc, "warning note") THEN "grep fdf" ELSE "backup for warning"
    /\ UNCHANGED <<original, dsc, fdf, dscBak, fdfBak, tmp, runs, stopped, built>>

\* A block is left out if its line is there: of the second block that is the
\* comment at its head.
GrepDsc ==
    /\ \/ /\ pc = "grep producer"
          /\ pc' = IF Contains(dsc, "producer") THEN "grep warning" ELSE "backup for producer"
       \/ /\ pc = "grep warning"
          /\ pc' = IF Contains(dsc, "warning note") THEN "grep fdf" ELSE "backup for warning"
    /\ UNCHANGED <<original, dsc, fdf, dscBak, fdfBak, tmp, runs, stopped, built>>

\* Defect: the backup is made again.
BackupDscAlways ==
    /\ \/ pc = "backup for producer" /\ pc' = "producer 1"
       \/ pc = "backup for warning" /\ pc' = "warning 1"
    /\ dscBak' = dsc
    /\ UNCHANGED <<original, dsc, fdf, fdfBak, tmp, runs, stopped, built>>

BackupDsc ==
    /\ \/ pc = "backup for producer" /\ pc' = "producer 1"
       \/ pc = "backup for warning" /\ pc' = "warning 1"
    /\ dscBak' = IF dscBak = NoFile THEN dsc ELSE dscBak
    /\ UNCHANGED <<original, dsc, fdf, fdfBak, tmp, runs, stopped, built>>

\* The echoes of a block, each a write of its own.
Echo(block, name, i, next) ==
    /\ pc = name[i]
    /\ dsc' = Append(dsc, block[i])
    /\ pc' = IF i < Len(block) THEN name[i + 1] ELSE next
    /\ UNCHANGED <<original, fdf, dscBak, fdfBak, tmp, runs, stopped, built>>

ProducerSteps == <<"producer 1", "producer 2", "producer 3", "producer 4">>
WarningSteps == <<"warning 1", "warning 2", "warning 3", "warning 4">>

AppendDsc ==
    \E i \in 1 .. 4 : \/ Echo(ProducerBlock, ProducerSteps, i, "grep warning")
                      \/ Echo(WarningBlock, WarningSteps, i, "grep fdf")

\* Defect: the line is put into the FDF at every run.
GrepFdfNever ==
    /\ pc = "grep fdf"
    /\ pc' = "backup fdf"
    /\ UNCHANGED <<original, dsc, fdf, dscBak, fdfBak, tmp, runs, stopped, built>>

GrepFdf ==
    /\ pc = "grep fdf"
    /\ pc' = IF Contains(fdf, "producer") THEN "build" ELSE "backup fdf"
    /\ built' = (built \/ pc' = "build")
    /\ UNCHANGED <<original, dsc, fdf, dscBak, fdfBak, tmp, runs, stopped>>

BackupFdf ==
    /\ pc = "backup fdf"
    /\ fdfBak' = IF fdfBak = NoFile THEN fdf ELSE fdfBak
    /\ pc' = "awk"
    /\ UNCHANGED <<original, dsc, fdf, dscBak, tmp, runs, stopped, built>>

\* awk writes beside the file; without a place for the line the script fails
\* and takes back what it wrote.
RunAwk ==
    /\ pc = "awk"
    /\ IF Awk(fdf).inserted
       THEN tmp' = Awk(fdf).out /\ pc' = "mv"
       ELSE tmp' = NoFile /\ pc' = "idle"
    /\ UNCHANGED <<original, dsc, fdf, dscBak, fdfBak, runs, stopped, built>>

MoveFdf ==
    /\ pc = "mv"
    /\ fdf' = tmp /\ tmp' = NoFile
    /\ pc' = "build" /\ built' = TRUE
    /\ UNCHANGED <<original, dsc, dscBak, fdfBak, runs, stopped>>

\* The build reads the files; it ends well or not.
Build == /\ pc = "build"
         /\ pc' = "idle"
         /\ UNCHANGED <<original, dsc, fdf, dscBak, fdfBak, tmp, runs, stopped, built>>

\* The script is stopped.  A copy may have created its file and written
\* nothing; awk may have come to any line.
StopRun ==
    /\ pc # "idle"
    /\ pc' = "idle" /\ stopped' = TRUE
    /\ dscBak' \in {dscBak} \cup
         (IF pc \in {"backup for producer", "backup for warning"} /\ dscBak = NoFile
          THEN {<<>>} ELSE {})
    /\ fdfBak' \in {fdfBak} \cup
         (IF pc = "backup fdf" /\ fdfBak = NoFile THEN {<<>>} ELSE {})
    /\ tmp' \in {tmp} \cup
         (IF pc = "awk" THEN {SubSeq(Awk(fdf).out, 1, n) : n \in 0 .. Len(fdf)} ELSE {})
    /\ UNCHANGED <<original, dsc, fdf, runs, built>>

ONext == \/ Start \/ GrepDsc \/ BackupDsc \/ AppendDsc \/ GrepFdf
         \/ BackupFdf \/ RunAwk \/ MoveFdf \/ Build \/ StopRun

OSpec == OInit /\ [][ONext]_ovars

-----------------------------------------------------------------------------
(* Properties.                                                             *)

\* There is one such line and no other.
Once(lines, l) == \E p \in DOMAIN lines : \A i \in DOMAIN lines : lines[i] = l <=> i = p

\* Whatever was stopped before, the build sees the producer once in the DSC,
\* under a [Components] of its own, and once in the FDF, in DXEFV; nothing of
\* upstream is lost or moved.  The relaxed warning is in it as well, once,
\* unless a run was stopped behind the comment that announces it: then no later
\* run adds it.
BuildsWithProducer ==
    pc = "build" =>
      /\ Once(dsc, "producer")
      /\ \E i \in 1 .. Len(dsc) - 1 : dsc[i] = "[Components]" /\ dsc[i + 1] = "producer"
      /\ SubSeq(dsc, 1, Len(Dsc)) = Dsc
      /\ Once(dsc, "warning note")
      /\ Once(dsc, "flags") \/ (stopped /\ ~Contains(dsc, "flags"))
      /\ Once(fdf, "producer")
      /\ \E i, j \in DOMAIN fdf :
           /\ i < j /\ fdf[i] = "dxefv" /\ fdf[j] = "producer"
           /\ \A k \in i + 1 .. j - 1 : fdf[k] # "fv"
           /\ RemoveAt(fdf, j) = original

\* Once a run has come to the build, no later run changes the files.
PatchIsIdempotent == [][built => UNCHANGED <<dsc, fdf>>]_ovars

\* A backup is the file as it was before the first run, unless the copy was
\* stopped; the FDF itself is at any time the original or the whole patched one.
NothingIsLost ==
    /\ dscBak \in {NoFile, Dsc} \cup IF stopped THEN {<<>>} ELSE {}
    /\ fdfBak \in {NoFile, original} \cup IF stopped THEN {<<>>} ELSE {}
    /\ fdf \in {original, Awk(original).out}
    /\ fdf # original => pc \notin {"awk", "mv"}
=============================================================================
