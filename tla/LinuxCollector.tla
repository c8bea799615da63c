--------------------------- MODULE LinuxCollector ---------------------------
(***************************************************************************)
(* collector.py: collections into one artifact directory.  Each artifact   *)
(* has an output file <name>.txt and a status file <name>.status, written  *)
(* one after the other; a collection may be stopped between any two steps, *)
(* and the next one finds what is left, on a machine whose tools may have  *)
(* come or gone.  A report may be made of the directory at any time, also  *)
(* of one a stopped collection left.                                       *)
(* sudo changes only which commands fail; the manifest and the .err files  *)
(* are never read back.                                                    *)
(***************************************************************************)
EXTENDS Integers, Sequences

CONSTANTS Order,       \* the artifacts in the order they are captured; the
                       \*   first is a file, the others are commands
          MaxRounds    \* bound: collections into the directory

Captured == {Order[i] : i \in DOMAIN Order}
E820 == "e820"
Artifacts == Captured \cup {E820}

ASSUME OrderAssumption ==
    /\ Order \in Seq(STRING) /\ E820 \notin Captured
    /\ "dmesg" \in Captured /\ Order[1] # "dmesg"
    /\ \A i, j \in DOMAIN Order : Order[i] = Order[j] => i = j
    /\ MaxRounds \in Nat

VARIABLES text,        \* <name>.txt of each artifact
          status,      \* <name>.status of each artifact
          round,       \* the collection going on, or the last one
          pc,          \* "idle", or what the collection does next
          at,          \* the artifact it is at, a position of Order
          word,        \* the status word about to be written
          stopped      \* history: the collections that were stopped

lvars == <<text, status, round, pc, at, word, stopped>>

\* What tells output files apart: the collection that wrote them, whether
\* they hold anything, and whether their writer came to its end.  Of e820.txt,
\* round is the collection that ran the dmesg it is derived from.
Texts == [round : 0 .. MaxRounds, some : BOOLEAN, ended : BOOLEAN]
NoText == [round |-> 0, some |-> FALSE, ended |-> FALSE]
Output(n, some, ended) == [round |-> n, some |-> some, ended |-> ended]

Words == {"ok", "missing", "failed", "unknown"}
Statuses == [round : 0 .. MaxRounds, word : Words \cup {"none"}]
NoStatus == [round |-> 0, word |-> "none"]

\* build_linux_view reads the output files whatever the status files say; an
\* empty status file gives the word "unknown".
BuildLinuxView ==
    [words |-> [a \in {b \in Artifacts : status[b] # NoStatus} |-> status[a].word],
     shown |-> {a \in Artifacts : text[a].some}]

name == Order[at]

-----------------------------------------------------------------------------
LInit == /\ text = [a \in Artifacts |-> NoText]
         /\ status = [a \in Artifacts |-> NoStatus]
         /\ round = 0
         /\ pc = "idle" /\ at = 1 /\ word = "none"
         /\ stopped = {}

Collect == /\ pc = "idle" /\ round < MaxRounds
           /\ round' = round + 1
           /\ pc' = "capture" /\ at' = 1
           /\ UNCHANGED <<text, status, word, stopped>>

\* Defect: the old output of a tool that is gone is taken for its own.
NotCapturedButThere ==
    /\ pc = "capture"
    /\ word' = IF text[name] # NoText THEN "ok" ELSE "missing"
    /\ pc' = "status"
    /\ UNCHANGED <<text, status, round, at, stopped>>

\* Nothing is captured: there is no such file or command, or the file cannot
\* be read.  The output file of an earlier collection stays.
NotCaptured ==
    /\ pc = "capture"
    /\ word' \in IF at = 1 THEN {"missing", "failed"} ELSE {"missing"}
    /\ pc' = "status"
    /\ UNCHANGED <<text, status, round, at, stopped>>

\* Opening the output file for writing empties it.
OpenOutput ==
    /\ pc = "capture"
    /\ text' = [text EXCEPT ![name] = Output(round, FALSE, FALSE)]
    /\ pc' = "run"
    /\ UNCHANGED <<status, round, at, word, stopped>>

\* The copy, or the command, comes to its end; what a failing command has
\* printed stays in the file.
CaptureEnds ==
    /\ pc = "run"
    /\ \E some \in BOOLEAN : text' = [text EXCEPT ![name] = Output(round, some, TRUE)]
    /\ word' \in IF at = 1 THEN {"ok"} ELSE {"ok", "failed"}
    /\ pc' = "status"
    /\ UNCHANGED <<status, round, at, stopped>>

Following == IF at < Len(Order) THEN "capture" ELSE "derive"

\* Defect: a status file that is there is not written again.
WriteStatusOnce ==
    /\ pc = "status"
    /\ status' = IF status[name] # NoStatus /\ word = "missing" THEN status
                 ELSE [status EXCEPT ![name] = [round |-> round, word |-> word]]
    /\ pc' = Following /\ at' = IF at < Len(Order) THEN at + 1 ELSE at
    /\ word' = "none"
    /\ UNCHANGED <<text, round, stopped>>

WriteStatus ==
    /\ pc = "status"
    /\ status' = [status EXCEPT ![name] = [round |-> round, word |-> word]]
    /\ pc' = Following /\ at' = IF at < Len(Order) THEN at + 1 ELSE at
    /\ word' = "none"
    /\ UNCHANGED <<text, round, stopped>>

\* Defect: an e820.txt that is there is not derived again.
DeriveE820Once ==
    /\ pc = "derive"
    /\ IF text["dmesg"].some
       THEN /\ word' = "ok"
            /\ text' = IF text[E820].some THEN text
                       ELSE [text EXCEPT ![E820] = Output(text["dmesg"].round, TRUE, TRUE)]
       ELSE word' = "failed" /\ UNCHANGED text
    /\ pc' = "e820"
    /\ UNCHANGED <<status, round, at, stopped>>

\* e820.txt is cut out of dmesg.txt, whoever wrote that.
DeriveE820 ==
    /\ pc = "derive"
    /\ IF text["dmesg"].some
       THEN /\ \E some \in BOOLEAN :
                 text' = [text EXCEPT ![E820] = Output(text["dmesg"].round, some, TRUE)]
            /\ word' = "ok"
       ELSE word' = "failed" /\ UNCHANGED text
    /\ pc' = "e820"
    /\ UNCHANGED <<status, round, at, stopped>>

WriteE820Status ==
    /\ pc = "e820"
    /\ status' = [status EXCEPT ![E820] = [round |-> round, word |-> word]]
    /\ pc' = "collected" /\ word' = "none"
    /\ UNCHANGED <<text, round, at, stopped>>

\* The collection is stopped, by a signal, an exception or a power cut.  A
\* file being written keeps a part, or nothing.
Stop ==
    /\ pc \notin {"idle", "collected"}
    /\ stopped' = stopped \cup {round}
    /\ pc' = "idle" /\ word' = "none"
    /\ IF pc = "run"
       THEN \E some \in BOOLEAN : text' = [text EXCEPT ![name] = Output(round, some, FALSE)]
       ELSE IF pc = "derive" /\ text["dmesg"].some
       THEN \E t \in {text[E820], Output(text["dmesg"].round, FALSE, FALSE)} :
              text' = [text EXCEPT ![E820] = t]
       ELSE UNCHANGED text
    /\ IF pc \in {"status", "e820"}
       THEN LET a == IF pc = "e820" THEN E820 ELSE name
            IN  \E s \in {status[a], [round |-> round, word |-> "unknown"]} :
                  status' = [status EXCEPT ![a] = s]
       ELSE UNCHANGED status
    /\ UNCHANGED <<round, at>>

\* A report is made of the directory as it is: it changes nothing here.
Return == /\ pc = "collected"
          /\ pc' = "idle"
          /\ UNCHANGED <<text, status, round, at, word, stopped>>

LNext == \/ Collect \/ NotCaptured \/ OpenOutput \/ CaptureEnds \/ WriteStatus
         \/ DeriveE820 \/ WriteE820Status \/ Stop \/ Return

LSpec == LInit /\ [][LNext]_lvars

-----------------------------------------------------------------------------
(* Properties.                                                             *)

Collected == pc = "collected"
Dmesg == text["dmesg"]

\* The type invariant of the collector.
LTypeOK ==
    /\ text \in [Artifacts -> Texts]
    /\ status \in [Artifacts -> Statuses]
    /\ round \in 0 .. MaxRounds
    /\ pc \in {"idle", "capture", "run", "status", "derive", "e820", "collected"}
    /\ at \in DOMAIN Order
    /\ word \in {"ok", "missing", "failed", "none"}
    /\ stopped \subseteq 1 .. round

\* After a collection that came to its end every status file is its own,
\* whatever earlier ones left behind, and an artifact it calls ok is output
\* that it captured to the end.
CompletedIsCoherent ==
    Collected =>
      /\ \A a \in Artifacts : /\ status[a].round = round
                              /\ status[a].word \in {"ok", "missing", "failed"}
      /\ \A a \in Captured : status[a].word = "ok" =>
                               text[a].round = round /\ text[a].ended

\* What an earlier collection left is shown only under an artifact called
\* missing or failed; e820 alone is called ok on old data, and only when there
\* was no dmesg to run.
StaleOnlyWhereSaid ==
    Collected =>
      \A a \in BuildLinuxView.shown :
        text[a].round < round =>
          \/ BuildLinuxView.words[a] \in {"missing", "failed"}
          \/ a = E820 /\ BuildLinuxView.words["dmesg"] = "missing"

\* At any time, whatever was stopped: an artifact called ok has the whole
\* output of the collection that says so, unless a later collection is
\* capturing it or was stopped while it did.
OkMeansItsOwnText ==
    \A a \in Captured :
      status[a].word = "ok" =>
        \/ text[a].round = status[a].round /\ text[a].ended
        \/ /\ text[a].round > status[a].round
           /\ \/ text[a].round \in stopped
              \/ text[a].round = round /\ pc \in {"run", "status"} /\ a = name

\* In a directory nobody collected into before, the report shows nothing of a
\* tool that is not there, nor what would be derived from its output.
FreshShowsOnlyCollected ==
    Collected /\ round = 1 =>
      /\ \A a \in Captured \cap BuildLinuxView.shown :
            BuildLinuxView.words[a] \in {"ok", "failed"}
      /\ BuildLinuxView.words[E820] = "ok" => BuildLinuxView.words["dmesg"] # "missing"
=============================================================================
