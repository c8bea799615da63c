------------------------ MODULE LinuxCollectorProofs ------------------------
(***************************************************************************)
(* The collector for any artifacts and any number of collections into one  *)
(* directory, each of them stopped anywhere: what a status file says of    *)
(* its output file, and where the output of an earlier collection shows.   *)
(***************************************************************************)
EXTENDS LinuxCollector, TLAPS

USE OrderAssumption

Capturing == pc \in {"capture", "run", "status"}
Deriving == pc \in {"derive", "e820", "collected"}

\* What the word w claims of the output of artifact a.
Supports(a, w) ==
    /\ w \in {"ok", "missing", "failed"}
    /\ w = "ok" => text[a].round = round /\ text[a].ended
    /\ w = "failed" /\ a # Order[1] => text[a].round = round
    /\ w = "missing" => text[a].round < round

\* What it claims of e820.txt.
Derived(w) == /\ w \in {"ok", "failed"}
              /\ w = "ok" => /\ text["dmesg"].some
                             /\ text[E820].round = text["dmesg"].round

(***************************************************************************)
(* The inductive invariant.  No file is younger than the collection going  *)
(* on.  The artifacts it has passed have its status, and their output      *)
(* supports it; those ahead of it are older than it.                       *)
(***************************************************************************)
NoneYounger == \A a \in Artifacts : /\ text[a].round <= round
                                    /\ status[a].round <= round
                                    /\ text[a].some => text[a].round > 0

Passed == \A i \in DOMAIN Order :
            Deriving \/ (Capturing /\ i < at) =>
              status[Order[i]].round = round /\ Supports(Order[i], status[Order[i]].word)

Ahead == \A i \in DOMAIN Order :
           /\ Capturing /\ i >= at => status[Order[i]].round < round
           /\ Capturing /\ i > at => text[Order[i]].round < round
           /\ pc = "capture" /\ i = at => text[Order[i]].round < round

Here == /\ pc = "run" => text[name].round = round
        /\ pc = "status" => Supports(name, word)
        /\ pc = "e820" => Derived(word)
        /\ pc = "collected" => status[E820].round = round /\ Derived(status[E820].word)

Begun == pc # "idle" => round > 0

LInv == LTypeOK /\ Begun /\ NoneYounger /\ Passed /\ Ahead /\ Here /\ OkMeansItsOwnText

-----------------------------------------------------------------------------
LEMMA Positions ==
    /\ Len(Order) \in Nat /\ DOMAIN Order = 1 .. Len(Order)
    /\ 1 \in DOMAIN Order
    /\ \A i \in DOMAIN Order : /\ Order[i] \in Captured /\ Order[i] \in Artifacts
                              /\ Order[i] # E820
    /\ \A i, j \in DOMAIN Order : i # j => Order[i] # Order[j]
    /\ \A a \in Captured : \E i \in DOMAIN Order : a = Order[i]
    /\ Captured \subseteq Artifacts
    /\ E820 \in Artifacts /\ "dmesg" \in Artifacts /\ E820 # "dmesg"
<1>1. Len(Order) \in Nat /\ DOMAIN Order = 1 .. Len(Order)
  OBVIOUS
<1>2. PICK k \in DOMAIN Order : Order[k] = "dmesg"
  BY DEF Captured
<1>3. 1 \in DOMAIN Order
  BY <1>1, <1>2
<1>4. \A i \in DOMAIN Order : Order[i] \in Captured
  BY DEF Captured
<1>5. QED  BY <1>1, <1>3, <1>4 DEF Captured, Artifacts

\* What a step does to one output file, point by point.
LEMMA TextUpdated ==
    ASSUME LTypeOK, NEW a \in Artifacts, NEW t \in Texts,
           text' = [text EXCEPT ![a] = t]
    PROVE  /\ text' \in [Artifacts -> Texts] /\ text'[a] = t
           /\ \A b \in Artifacts : b # a => text'[b] = text[b]
BY DEF LTypeOK

LEMMA StatusUpdated ==
    ASSUME LTypeOK, NEW a \in Artifacts, NEW s \in Statuses,
           status' = [status EXCEPT ![a] = s]
    PROVE  /\ status' \in [Artifacts -> Statuses] /\ status'[a] = s
           /\ \A b \in Artifacts : b # a => status'[b] = status[b]
BY DEF LTypeOK

LEMMA FieldsTyped ==
    ASSUME LTypeOK
    PROVE  /\ round \in 0 .. MaxRounds /\ round \in Nat
           /\ at \in DOMAIN Order /\ at \in Nat
           /\ name \in Captured /\ name \in Artifacts /\ name # E820
           /\ \A a \in Artifacts : /\ text[a] \in Texts /\ text[a].round \in Nat
                                   /\ status[a] \in Statuses /\ status[a].round \in Nat
<1>1. at \in DOMAIN Order /\ round \in 0 .. MaxRounds
  BY DEF LTypeOK
<1>2. \A a \in Artifacts : text[a] \in Texts /\ status[a] \in Statuses
  BY DEF LTypeOK
<1>3. \A a \in Artifacts : text[a].round \in Nat /\ status[a].round \in Nat
  BY <1>2 DEF Texts, Statuses
<1>4. name \in Captured /\ name \in Artifacts /\ name # E820
  BY <1>1, Positions DEF name
<1>5. at \in Nat /\ round \in Nat
  BY <1>1, Positions
<1>6. QED  BY <1>1, <1>2, <1>3, <1>4, <1>5

LEMMA OutputTyped ==
    ASSUME NEW n \in 0 .. MaxRounds, NEW some \in BOOLEAN, NEW ended \in BOOLEAN
    PROVE  /\ Output(n, some, ended) \in Texts
           /\ Output(n, some, ended).round = n
           /\ Output(n, some, ended).some = some
           /\ Output(n, some, ended).ended = ended
BY DEF Output, Texts

LEMMA InitEstablishes == LInit => LInv
<1> SUFFICES ASSUME LInit PROVE LInv
  OBVIOUS
<1>1. NoText \in Texts /\ NoStatus \in Statuses
  BY DEF NoText, NoStatus, Texts, Statuses
<1>2. \A a \in Artifacts : text[a] = NoText /\ status[a] = NoStatus
  BY DEF LInit
<1>3. LTypeOK
  BY <1>1, Positions DEF LInit, LTypeOK
<1>4. NoneYounger /\ Begun
  BY <1>2 DEF LInit, NoneYounger, Begun, NoText, NoStatus
<1>5. Passed /\ Ahead /\ Here
  BY DEF LInit, Passed, Ahead, Here, Deriving, Capturing
<1>6. OkMeansItsOwnText
  BY <1>2, Positions DEF OkMeansItsOwnText, NoStatus
<1>7. QED  BY <1>3, <1>4, <1>5, <1>6 DEF LInv

-----------------------------------------------------------------------------
LEMMA CollectPreserves ==
    ASSUME LInv, Collect
    PROVE  LInv'
<1> USE DEF LInv
<1>1. /\ pc = "idle" /\ round < MaxRounds /\ round' = round + 1
      /\ pc' = "capture" /\ at' = 1
      /\ UNCHANGED <<text, status, word, stopped>>
  BY DEF Collect
<1>2. LTypeOK'
  BY <1>1, Positions DEF LTypeOK
<1>3. \A a \in Artifacts : text[a].round < round' /\ status[a].round < round'
  BY <1>1, FieldsTyped DEF NoneYounger
<1>4. NoneYounger' /\ Begun'
  BY <1>1, FieldsTyped DEF NoneYounger, Begun
<1>5. Ahead'
  BY <1>1, <1>3, Positions DEF Ahead, Capturing
<1>6. Passed'
  BY <1>1, Positions DEF Passed, Capturing, Deriving
<1>7. Here'
  BY <1>1 DEF Here
<1>8. OkMeansItsOwnText'
  BY <1>1 DEF OkMeansItsOwnText
<1>9. QED  BY <1>2, <1>4, <1>5, <1>6, <1>7, <1>8

LEMMA NotCapturedPreserves ==
    ASSUME LInv, NotCaptured
    PROVE  LInv'
<1> USE DEF LInv
<1>1. /\ pc = "capture" /\ pc' = "status"
      /\ word' \in {"missing", "failed"} /\ (word' = "failed" => at = 1)
      /\ UNCHANGED <<text, status, round, at, stopped>>
  BY DEF NotCaptured
<1>2. LTypeOK' /\ NoneYounger' /\ Begun'
  BY <1>1 DEF LTypeOK, NoneYounger, Begun
<1>3. Passed' /\ Ahead'
  BY <1>1 DEF Passed, Ahead, Capturing, Deriving, Supports
<1>4. text[name].round < round
  BY <1>1, FieldsTyped DEF Ahead, name
<1>5. Here'
  BY <1>1, <1>4 DEF Here, Supports, name
<1>6. OkMeansItsOwnText'
  BY <1>1 DEF OkMeansItsOwnText
<1>7. QED  BY <1>2, <1>3, <1>5, <1>6

\* Opening an output file, running its writer: both touch only the file of
\* the artifact the collection is at, whose status is an older one.
LEMMA HereOnly ==
    ASSUME LInv, Capturing, NEW t \in Texts, t.round = round,
           text' = [text EXCEPT ![name] = t],
           pc' \in {"run", "status"},
           UNCHANGED <<status, round, at, stopped>>
    PROVE  /\ text' \in [Artifacts -> Texts] /\ text'[name] = t
           /\ NoneYounger' /\ Begun' /\ Passed' /\ Ahead' /\ OkMeansItsOwnText'
<1> USE DEF LInv
<1>1. /\ text' \in [Artifacts -> Texts] /\ text'[name] = t
      /\ \A b \in Artifacts : b # name => text'[b] = text[b]
  BY FieldsTyped, TextUpdated
<1>2. round > 0
  BY DEF Begun, Capturing
<1>3. NoneYounger' /\ Begun'
  BY <1>1, <1>2, FieldsTyped DEF NoneYounger, Begun
<1>4. \A i \in DOMAIN Order : i # at => /\ Order[i] # name /\ Order[i] \in Artifacts
                                        /\ text'[Order[i]] = text[Order[i]]
  BY <1>1, FieldsTyped, Positions DEF name
<1>5. Passed'
  <2> SUFFICES ASSUME NEW i \in DOMAIN Order, i < at
               PROVE  (status[Order[i]].round = round /\ Supports(Order[i], status[Order[i]].word))'
    BY DEF Passed, Deriving, Capturing
  <2>1. i # at
    BY FieldsTyped, Positions
  <2>2. status[Order[i]].round = round /\ Supports(Order[i], status[Order[i]].word)
    BY DEF Passed
  <2>3. QED  BY <2>1, <2>2, <1>4 DEF Supports
<1>6. Ahead'
  <2>1. \A i \in DOMAIN Order : i >= at => status[Order[i]].round < round
    BY DEF Ahead
  <2>2. \A i \in DOMAIN Order : i > at => text[Order[i]].round < round /\ i # at
    BY FieldsTyped, Positions DEF Ahead
  <2>3. \A i \in DOMAIN Order : i > at => text'[Order[i]].round < round
    BY <2>2, <1>4
  <2>4. QED  BY <2>1, <2>3 DEF Ahead
<1>7. status[name].round < round
  BY FieldsTyped DEF Ahead, name
<1>8. OkMeansItsOwnText'
  <2> SUFFICES ASSUME NEW a \in Captured, status[a].word = "ok"
               PROVE  (\/ text[a].round = status[a].round /\ text[a].ended
                       \/ /\ text[a].round > status[a].round
                          /\ \/ text[a].round \in stopped
                             \/ text[a].round = round /\ pc \in {"run", "status"} /\ a = name)'
    BY DEF OkMeansItsOwnText
  <2>1. a \in Artifacts /\ name' = name
    BY Positions DEF name
  <2>2. CASE a = name
    BY <2>1, <2>2, <1>1, <1>7, FieldsTyped
  <2>3. CASE a # name
    BY <2>1, <2>3, <1>1 DEF OkMeansItsOwnText
  <2>4. QED  BY <2>2, <2>3
<1>9. QED  BY <1>1, <1>3, <1>5, <1>6, <1>8

LEMMA OpenOutputPreserves ==
    ASSUME LInv, OpenOutput
    PROVE  LInv'
<1> USE DEF LInv
<1>1. /\ pc = "capture" /\ pc' = "run"
      /\ text' = [text EXCEPT ![name] = Output(round, FALSE, FALSE)]
      /\ UNCHANGED <<status, round, at, word, stopped>>
  BY DEF OpenOutput
<1>2. Output(round, FALSE, FALSE) \in Texts /\ Output(round, FALSE, FALSE).round = round
  BY FieldsTyped, OutputTyped
<1>3. Capturing /\ name' = name
  BY <1>1 DEF Capturing, name
<1>4. /\ text' \in [Artifacts -> Texts] /\ text'[name] = Output(round, FALSE, FALSE)
      /\ NoneYounger' /\ Begun' /\ Passed' /\ Ahead' /\ OkMeansItsOwnText'
  BY <1>1, <1>2, <1>3, HereOnly
<1>5. LTypeOK'
  BY <1>1, <1>4 DEF LTypeOK
<1>6. Here'
  BY <1>1, <1>2, <1>3, <1>4 DEF Here
<1>7. QED  BY <1>4, <1>5, <1>6

LEMMA CaptureEndsPreserves ==
    ASSUME LInv, CaptureEnds
    PROVE  LInv'
<1> USE DEF LInv
<1>1. PICK some \in BOOLEAN : text' = [text EXCEPT ![name] = Output(round, some, TRUE)]
  BY DEF CaptureEnds
<1>2. /\ pc = "run" /\ pc' = "status" /\ word' \in {"ok", "failed"}
      /\ UNCHANGED <<status, round, at, stopped>>
  BY DEF CaptureEnds
<1>3. /\ Output(round, some, TRUE) \in Texts
      /\ Output(round, some, TRUE).round = round /\ Output(round, some, TRUE).ended
  BY FieldsTyped, OutputTyped
<1>4. Capturing /\ name' = name
  BY <1>2 DEF Capturing, name
<1>5. /\ text' \in [Artifacts -> Texts] /\ text'[name] = Output(round, some, TRUE)
      /\ NoneYounger' /\ Begun' /\ Passed' /\ Ahead' /\ OkMeansItsOwnText'
  BY <1>1, <1>2, <1>3, <1>4, HereOnly
<1>6. LTypeOK'
  BY <1>2, <1>5 DEF LTypeOK
<1>7. Here'
  BY <1>2, <1>3, <1>4, <1>5 DEF Here, Supports
<1>8. QED  BY <1>5, <1>6, <1>7
\* The collection moves on: to the next artifact, or to e820.
LEMMA WriteStatusPreserves ==
    ASSUME LInv, WriteStatus
    PROVE  LInv'
<1> DEFINE s == [round |-> round, word |-> word]
<1> USE DEF LInv
<1>1. /\ pc = "status" /\ pc' = Following
      /\ status' = [status EXCEPT ![name] = s]
      /\ at' = (IF at < Len(Order) THEN at + 1 ELSE at) /\ word' = "none"
      /\ UNCHANGED <<text, round, stopped>>
  BY DEF WriteStatus
<1>2. Supports(name, word) /\ word \in {"ok", "missing", "failed"}
  BY <1>1 DEF Here, Supports
<1>3. s \in Statuses /\ s.round = round /\ s.word = word
  BY <1>2, FieldsTyped DEF Statuses, Words
<1>4. /\ status' \in [Artifacts -> Statuses] /\ status'[name] = s
      /\ \A b \in Artifacts : b # name => status'[b] = status[b]
  BY <1>1, <1>3, FieldsTyped, StatusUpdated
<1>5. at \in 1 .. Len(Order) /\ DOMAIN Order = 1 .. Len(Order) /\ Len(Order) \in Nat
  BY FieldsTyped, Positions
<1>6. /\ at \in Nat /\ at <= Len(Order)
      /\ \A i \in DOMAIN Order : i \in Nat /\ i <= Len(Order)
  BY <1>5
<1>7. \/ /\ pc' = "capture" /\ Capturing' /\ ~Deriving'
         /\ at < Len(Order) /\ at' = at + 1
      \/ /\ pc' = "derive" /\ ~Capturing' /\ Deriving'
         /\ at = Len(Order) /\ at' = at
  BY <1>1, <1>6 DEF Following, Capturing, Deriving
<1>8. LTypeOK'
  <2>1. at' \in 1 .. Len(Order)
    BY <1>1, <1>5
  <2>2. at' \in DOMAIN Order
    BY <1>5, <2>1
  <2>3. QED  BY <1>1, <1>4, <1>7, <2>2 DEF LTypeOK
<1>9. NoneYounger' /\ Begun'
  BY <1>1, <1>3, <1>4, <1>7, FieldsTyped DEF NoneYounger, Begun
<1>10. \A i \in DOMAIN Order : i # at => status'[Order[i]] = status[Order[i]]
  BY <1>4, FieldsTyped, Positions DEF name
<1>11. Passed'
  <2> SUFFICES ASSUME NEW i \in DOMAIN Order, Deriving' \/ (Capturing' /\ i < at')
               PROVE  (status[Order[i]].round = round /\ Supports(Order[i], status[Order[i]].word))'
    BY DEF Passed
  <2>1. i = at \/ i < at
    BY <1>6, <1>7
  <2>2. CASE i = at
    BY <2>2, <1>1, <1>2, <1>3, <1>4 DEF name, Supports
  <2>3. CASE i < at
    <3>1. status[Order[i]].round = round /\ Supports(Order[i], status[Order[i]].word)
      BY <2>3, <1>1 DEF Passed, Capturing
    <3>2. i # at
      BY <2>3, <1>6
    <3>3. QED  BY <3>1, <3>2, <1>1, <1>10 DEF Supports
  <2>4. QED  BY <2>1, <2>2, <2>3
<1>12. Ahead'
  <2> SUFFICES ASSUME NEW i \in DOMAIN Order, Capturing', i >= at'
               PROVE  status'[Order[i]].round < round /\ text[Order[i]].round < round
    <3>1. \A i \in DOMAIN Order : (i > at' => i >= at') /\ (i = at' => i >= at')
      BY <1>6, <1>7
    <3>2. pc' = "capture" => Capturing'
      BY DEF Capturing
    <3>3. QED  BY <1>1, <3>1, <3>2 DEF Ahead
  <2>1. i > at
    BY <1>6, <1>7
  <2>2. status[Order[i]].round < round /\ text[Order[i]].round < round
    BY <2>1, <1>1, <1>6 DEF Ahead, Capturing
  <2>3. QED  BY <2>1, <2>2, <1>6, <1>10
<1>13. Here'
  BY <1>7 DEF Here
<1>14. OkMeansItsOwnText'
  <2> SUFFICES ASSUME NEW a \in Captured, status'[a].word = "ok"
               PROVE  \/ text[a].round = status'[a].round /\ text[a].ended
                      \/ text[a].round > status'[a].round /\ text[a].round \in stopped
    BY <1>1 DEF OkMeansItsOwnText
  <2>1. a \in Artifacts
    BY Positions
  <2>2. CASE a = name
    BY <2>2, <1>2, <1>3, <1>4 DEF Supports
  <2>3. CASE a # name
    BY <2>1, <2>3, <1>4 DEF OkMeansItsOwnText
  <2>4. QED  BY <2>2, <2>3
<1>15. QED  BY <1>8, <1>9, <1>11, <1>12, <1>13, <1>14

\* Writing e820.txt or its status leaves the captured artifacts alone.
LEMMA E820Only ==
    ASSUME LInv, Deriving, Deriving',
           text' \in [Artifacts -> Texts], status' \in [Artifacts -> Statuses],
           \A a \in Captured : text'[a] = text[a] /\ status'[a] = status[a],
           text'[E820].round <= round, status'[E820].round <= round,
           text'[E820].some => text'[E820].round > 0,
           UNCHANGED <<round, at, stopped>>
    PROVE  NoneYounger' /\ Begun' /\ Passed' /\ Ahead' /\ OkMeansItsOwnText'
<1> USE DEF LInv
<1>1. NoneYounger' /\ Begun'
  BY Positions DEF NoneYounger, Begun, Deriving, Artifacts
<1>2. \A i \in DOMAIN Order : Order[i] \in Captured
  BY Positions
<1>3. Passed'
  BY <1>2 DEF Passed, Deriving, Capturing, Supports
<1>4. Ahead'
  BY DEF Ahead, Deriving, Capturing
<1>5. OkMeansItsOwnText'
  BY DEF OkMeansItsOwnText, Deriving
<1>6. QED  BY <1>1, <1>3, <1>4, <1>5

LEMMA DeriveE820Preserves ==
    ASSUME LInv, DeriveE820
    PROVE  LInv'
<1> USE DEF LInv
<1>1. /\ pc = "derive" /\ pc' = "e820"
      /\ UNCHANGED <<status, round, at, stopped>>
  BY DEF DeriveE820
<1>2. Deriving /\ Deriving'
  BY <1>1 DEF Deriving
<1>3. status' \in [Artifacts -> Statuses] /\ status'[E820].round <= round
  BY <1>1, Positions DEF LTypeOK, NoneYounger
<1>4. CASE text["dmesg"].some
  <2>1. PICK some \in BOOLEAN :
          text' = [text EXCEPT ![E820] = Output(text["dmesg"].round, some, TRUE)]
    BY <1>4 DEF DeriveE820
  <2>2. word' = "ok"
    BY <1>4 DEF DeriveE820
  <2> DEFINE n == text["dmesg"].round
  <2>3. n \in 0 .. MaxRounds /\ n <= round /\ n > 0
    BY <1>4, Positions, FieldsTyped DEF NoneYounger, Texts
  <2>4. /\ Output(n, some, TRUE) \in Texts
        /\ Output(n, some, TRUE).round = n /\ Output(n, some, TRUE).some = some
    BY <2>3, OutputTyped
  <2>5. /\ text' \in [Artifacts -> Texts] /\ text'[E820] = Output(n, some, TRUE)
        /\ \A b \in Artifacts : b # E820 => text'[b] = text[b]
    <3> HIDE DEF n
    <3>1. text' = [text EXCEPT ![E820] = Output(n, some, TRUE)]
      BY <2>1 DEF n
    <3>2. E820 \in Artifacts
      BY Positions
    <3>3. QED  BY <2>4, <3>1, <3>2, TextUpdated
  <2>6. \A a \in Captured : text'[a] = text[a]
    BY <2>5, Positions
  <2>7. NoneYounger' /\ Begun' /\ Passed' /\ Ahead' /\ OkMeansItsOwnText'
    BY <1>1, <1>2, <1>3, <2>3, <2>4, <2>5, <2>6, E820Only
  <2>8. LTypeOK'
    BY <1>1, <2>2, <2>5 DEF LTypeOK
  <2>9. Here'
    BY <1>1, <1>4, <2>2, <2>4, <2>5, Positions DEF Here, Derived
  <2>10. QED  BY <2>7, <2>8, <2>9
<1>5. CASE ~text["dmesg"].some
  <2>1. word' = "failed" /\ UNCHANGED text
    BY <1>5 DEF DeriveE820
  <2>2. text' \in [Artifacts -> Texts]
    BY <2>1 DEF LTypeOK
  <2>3. /\ text'[E820].round <= round
        /\ text'[E820].some => text'[E820].round > 0
    BY <2>1, Positions DEF NoneYounger
  <2>4. NoneYounger' /\ Begun' /\ Passed' /\ Ahead' /\ OkMeansItsOwnText'
    BY <1>1, <1>2, <1>3, <2>1, <2>2, <2>3, E820Only
  <2>5. LTypeOK' /\ Here'
    BY <1>1, <2>1 DEF LTypeOK, Here, Derived
  <2>6. QED  BY <2>4, <2>5
<1>6. QED  BY <1>4, <1>5

LEMMA WriteE820StatusPreserves ==
    ASSUME LInv, WriteE820Status
    PROVE  LInv'
<1> DEFINE s == [round |-> round, word |-> word]
<1> USE DEF LInv
<1>1. /\ pc = "e820" /\ pc' = "collected" /\ word' = "none"
      /\ status' = [status EXCEPT ![E820] = s]
      /\ UNCHANGED <<text, round, at, stopped>>
  BY DEF WriteE820Status
<1>2. Derived(word) /\ word \in {"ok", "failed"}
  BY <1>1 DEF Here, Derived
<1>3. s \in Statuses /\ s.round = round /\ s.word = word
  BY <1>2, FieldsTyped DEF Statuses, Words
<1>4. /\ status' \in [Artifacts -> Statuses] /\ status'[E820] = s
      /\ \A b \in Artifacts : b # E820 => status'[b] = status[b]
  BY <1>1, <1>3, Positions, StatusUpdated
<1>5. \A a \in Captured : status'[a] = status[a]
  BY <1>4, Positions
<1>6. Deriving /\ Deriving'
  BY <1>1 DEF Deriving
<1>7. text' \in [Artifacts -> Texts] /\ status'[E820].round <= round
  BY <1>1, <1>3, <1>4, FieldsTyped DEF LTypeOK
<1>8. /\ text'[E820].round <= round
      /\ text'[E820].some => text'[E820].round > 0
  BY <1>1, Positions DEF NoneYounger
<1>9. NoneYounger' /\ Begun' /\ Passed' /\ Ahead' /\ OkMeansItsOwnText'
  BY <1>1, <1>4, <1>5, <1>6, <1>7, <1>8, E820Only
<1>10. LTypeOK' /\ Here'
  BY <1>1, <1>2, <1>3, <1>4 DEF LTypeOK, Here, Derived
<1>11. QED  BY <1>9, <1>10

LEMMA ReturnPreserves ==
    ASSUME LInv, Return
    PROVE  LInv'
BY DEF LInv, Return, LTypeOK, Begun, NoneYounger, Passed, Ahead, Here,
       OkMeansItsOwnText, Capturing, Deriving

\* A collection stopped while it writes the output of an artifact.
LEMMA StopWritingOutput ==
    ASSUME LInv, Stop, pc = "run"
    PROVE  LInv'
<1> USE DEF LInv
<1>1. /\ stopped' = stopped \cup {round} /\ pc' = "idle" /\ word' = "none"
      /\ UNCHANGED <<status, round, at>>
  BY DEF Stop
<1>2. PICK some \in BOOLEAN : text' = [text EXCEPT ![name] = Output(round, some, FALSE)]
  BY DEF Stop
<1>3. /\ Output(round, some, FALSE) \in Texts
      /\ Output(round, some, FALSE).round = round
  BY FieldsTyped, OutputTyped
<1>4. /\ text' \in [Artifacts -> Texts] /\ text'[name] = Output(round, some, FALSE)
      /\ \A b \in Artifacts : b # name => text'[b] = text[b]
  BY <1>2, <1>3, FieldsTyped, TextUpdated
<1>5. round > 0
  BY DEF Begun
<1>6. LTypeOK'
  BY <1>1, <1>4, <1>5, FieldsTyped DEF LTypeOK
<1>7. NoneYounger' /\ Begun'
  <2>1. text'[name].round = round /\ round \in Nat
    BY <1>3, <1>4, FieldsTyped
  <2>2. ASSUME NEW a \in Artifacts
        PROVE  /\ text'[a].round <= round /\ status[a].round <= round
               /\ text'[a].some => text'[a].round > 0
    <3>1. CASE a = name
      BY <3>1, <2>1, <1>5 DEF NoneYounger
    <3>2. CASE a # name
      BY <3>2, <1>4 DEF NoneYounger
    <3>3. QED  BY <3>1, <3>2
  <2>3. QED  BY <2>2, <1>1 DEF NoneYounger, Begun
<1>8. Passed' /\ Ahead' /\ Here'
  BY <1>1 DEF Passed, Ahead, Here, Capturing, Deriving
<1>9. status[name].round < round
  BY FieldsTyped DEF Ahead, Capturing, name
<1>10. OkMeansItsOwnText'
  <2> SUFFICES ASSUME NEW a \in Captured, status[a].word = "ok"
               PROVE  \/ text'[a].round = status[a].round /\ text'[a].ended
                      \/ text'[a].round > status[a].round /\ text'[a].round \in stopped'
    BY <1>1 DEF OkMeansItsOwnText
  <2>1. a \in Artifacts
    BY Positions
  <2>2. CASE a = name
    BY <2>2, <1>1, <1>3, <1>4, <1>9, FieldsTyped
  <2>3. CASE a # name
    BY <2>1, <2>3, <1>1, <1>4 DEF OkMeansItsOwnText
  <2>4. QED  BY <2>2, <2>3
<1>11. QED  BY <1>6, <1>7, <1>8, <1>10

\* A collection stopped at any other step: the output files of the artifacts
\* are as they were, and a status file that changes says nothing.
LEMMA StopElsewhere ==
    ASSUME LInv, Stop, pc # "run"
    PROVE  LInv'
<1> USE DEF LInv
<1>1. /\ stopped' = stopped \cup {round} /\ pc' = "idle" /\ word' = "none"
      /\ pc \in {"capture", "status", "derive", "e820"}
      /\ UNCHANGED <<round, at>>
  BY DEF Stop, LTypeOK
<1>2. round > 0 /\ round \in Nat
  BY <1>1, FieldsTyped DEF Begun
<1>3. /\ text' \in [Artifacts -> Texts]
      /\ \A a \in Captured : text'[a] = text[a]
      /\ \A a \in Artifacts : /\ text'[a].round <= round
                              /\ text'[a].some => text'[a].round > 0
  <2>1. CASE text' = text
    BY <2>1, Positions DEF LTypeOK, NoneYounger
  <2>2. CASE /\ text["dmesg"].some
             /\ text' = [text EXCEPT ![E820] = Output(text["dmesg"].round, FALSE, FALSE)]
    <3> DEFINE n == text["dmesg"].round
    <3>1. n \in 0 .. MaxRounds /\ n <= round
      BY Positions, FieldsTyped DEF NoneYounger, Texts
    <3> HIDE DEF n
    <3>2. text' = [text EXCEPT ![E820] = Output(n, FALSE, FALSE)]
      BY <2>2 DEF n
    <3>3. /\ Output(n, FALSE, FALSE) \in Texts
          /\ Output(n, FALSE, FALSE).round = n /\ ~Output(n, FALSE, FALSE).some
      BY <3>1, OutputTyped
    <3>4. E820 \in Artifacts
      BY Positions
    <3>5. /\ text' \in [Artifacts -> Texts] /\ text'[E820] = Output(n, FALSE, FALSE)
          /\ \A b \in Artifacts : b # E820 => text'[b] = text[b]
      BY <3>2, <3>3, <3>4, TextUpdated
    <3>6. text'[E820].round <= round /\ ~text'[E820].some
      BY <3>1, <3>3, <3>5
    <3>7. \A a \in Artifacts :
            a # E820 => /\ text'[a].round <= round
                        /\ text'[a].some => text'[a].round > 0
      BY <3>5 DEF NoneYounger
    <3>8. \A a \in Captured : text'[a] = text[a]
      BY <3>5, Positions
    <3>9. ASSUME NEW a \in Artifacts
          PROVE  text'[a].round <= round /\ (text'[a].some => text'[a].round > 0)
      <4>1. CASE a = E820   BY <4>1, <3>6
      <4>2. CASE a # E820   BY <4>2, <3>7
      <4>3. QED  BY <4>1, <4>2
    <3>10. QED  BY <3>5, <3>8, <3>9
  <2>3. text' = text \/ (/\ text["dmesg"].some
                         /\ text' = [text EXCEPT ![E820] = Output(text["dmesg"].round, FALSE, FALSE)])
    <3>1. CASE pc = "derive" /\ text["dmesg"].some
      <4>1. PICK t \in {text[E820], Output(text["dmesg"].round, FALSE, FALSE)} :
              text' = [text EXCEPT ![E820] = t]
        BY <3>1 DEF Stop
      <4>2. [text EXCEPT ![E820] = text[E820]] = text
        BY DEF LTypeOK
      <4>3. QED  BY <3>1, <4>1, <4>2
    <3>2. CASE ~(pc = "derive" /\ text["dmesg"].some)
      BY <3>2 DEF Stop
    <3>3. QED  BY <3>1, <3>2
  <2>4. QED  BY <2>1, <2>2, <2>3
<1>4. /\ status' \in [Artifacts -> Statuses]
      /\ \A a \in Artifacts : \/ status'[a] = status[a]
                              \/ status'[a].round = round /\ status'[a].word = "unknown"
  <2>1. CASE pc \in {"status", "e820"}
    <3> DEFINE a == IF pc = "e820" THEN E820 ELSE name
               u == [round |-> round, word |-> "unknown"]
    <3>1. a \in Artifacts
      BY Positions, FieldsTyped
    <3>2. PICK s \in {status[a], u} : status' = [status EXCEPT ![a] = s]
      BY <2>1 DEF Stop
    <3>3. u \in Statuses /\ u.round = round /\ u.word = "unknown"
      BY FieldsTyped DEF Statuses, Words
    <3>4. s \in Statuses
      BY <3>1, <3>2, <3>3, FieldsTyped
    <3> HIDE DEF a, u
    <3>5. /\ status' \in [Artifacts -> Statuses] /\ status'[a] = s
          /\ \A b \in Artifacts : b # a => status'[b] = status[b]
      BY <3>1, <3>2, <3>4, StatusUpdated
    <3>6. QED  BY <3>2, <3>3, <3>5
  <2>2. CASE pc \notin {"status", "e820"}
    BY <2>2 DEF Stop, LTypeOK
  <2>3. QED  BY <2>1, <2>2
<1>5. LTypeOK'
  BY <1>1, <1>2, <1>3, <1>4 DEF LTypeOK
<1>6. NoneYounger' /\ Begun'
  BY <1>1, <1>2, <1>3, <1>4, FieldsTyped DEF NoneYounger, Begun
<1>7. Passed' /\ Ahead' /\ Here'
  BY <1>1 DEF Passed, Ahead, Here, Capturing, Deriving
<1>8. OkMeansItsOwnText'
  <2> SUFFICES ASSUME NEW a \in Captured, status'[a].word = "ok"
               PROVE  \/ text'[a].round = status'[a].round /\ text'[a].ended
                      \/ text'[a].round > status'[a].round /\ text'[a].round \in stopped'
    BY <1>1 DEF OkMeansItsOwnText
  <2>1. a \in Artifacts
    BY Positions
  <2>2. status'[a] = status[a] /\ text'[a] = text[a]
    BY <2>1, <1>3, <1>4
  <2>3. QED  BY <2>2, <1>1 DEF OkMeansItsOwnText
<1>9. QED  BY <1>5, <1>6, <1>7, <1>8

LEMMA StepPreserves == LInv /\ [LNext]_lvars => LInv'
<1> SUFFICES ASSUME LInv, [LNext]_lvars PROVE LInv'
  OBVIOUS
<1>1. CASE Collect            BY <1>1, CollectPreserves
<1>2. CASE NotCaptured        BY <1>2, NotCapturedPreserves
<1>3. CASE OpenOutput         BY <1>3, OpenOutputPreserves
<1>4. CASE CaptureEnds        BY <1>4, CaptureEndsPreserves
<1>5. CASE WriteStatus        BY <1>5, WriteStatusPreserves
<1>6. CASE DeriveE820         BY <1>6, DeriveE820Preserves
<1>7. CASE WriteE820Status    BY <1>7, WriteE820StatusPreserves
<1>8. CASE Stop               BY <1>8, StopWritingOutput, StopElsewhere
<1>9. CASE Return             BY <1>9, ReturnPreserves
<1>10. CASE UNCHANGED lvars
  BY <1>10 DEF lvars, LInv, LTypeOK, Begun, NoneYounger, Passed, Ahead, Here,
               OkMeansItsOwnText, Capturing, Deriving, Supports, Derived, name
<1>11. QED
  BY <1>1, <1>2, <1>3, <1>4, <1>5, <1>6, <1>7, <1>8, <1>9, <1>10 DEF LNext

LEMMA Invariance == LSpec => []LInv
BY InitEstablishes, StepPreserves, PTL DEF LSpec

-----------------------------------------------------------------------------
LEMMA CoherentByInv == LInv => CompletedIsCoherent
<1> SUFFICES ASSUME LInv, Collected PROVE CompletedIsCoherent
  BY DEF CompletedIsCoherent
<1> USE DEF LInv
<1>1. \A a \in Captured : status[a].round = round /\ Supports(a, status[a].word)
  BY Positions DEF Passed, Deriving, Collected
<1>2. status[E820].round = round /\ Derived(status[E820].word)
  BY DEF Here, Collected
<1>3. QED  BY <1>1, <1>2 DEF CompletedIsCoherent, Supports, Derived, Artifacts

LEMMA StaleByInv == LInv => StaleOnlyWhereSaid
<1> SUFFICES ASSUME LInv, Collected,
                    NEW a \in BuildLinuxView.shown, text[a].round < round
             PROVE  \/ BuildLinuxView.words[a] \in {"missing", "failed"}
                    \/ a = E820 /\ BuildLinuxView.words["dmesg"] = "missing"
  BY DEF StaleOnlyWhereSaid
<1> USE DEF LInv
<1>1. \A b \in Captured : status[b].round = round /\ Supports(b, status[b].word)
  BY Positions DEF Passed, Deriving, Collected
<1>2. status[E820].round = round /\ Derived(status[E820].word)
  BY DEF Here, Collected
<1>3. round > 0 /\ round \in Nat
  BY FieldsTyped DEF Begun, Collected
<1>4. \A b \in Artifacts : status[b] # NoStatus
  BY <1>1, <1>2, <1>3 DEF NoStatus, Artifacts
<1>5. a \in Artifacts /\ \A b \in Artifacts : BuildLinuxView.words[b] = status[b].word
  BY <1>4 DEF BuildLinuxView
<1>6. CASE a \in Captured
  BY <1>1, <1>3, <1>5, <1>6, FieldsTyped DEF Supports
<1>7. CASE a = E820 /\ status[E820].word = "ok"
  <2>1. text["dmesg"].round < round
    BY <1>2, <1>7 DEF Derived
  <2>2. Supports("dmesg", status["dmesg"].word) /\ "dmesg" # Order[1]
    BY <1>1
  <2>3. status["dmesg"].word = "missing"
    BY <2>1, <2>2, <1>3 DEF Supports
  <2>4. QED  BY <2>3, <1>5, <1>7, Positions
<1>8. CASE a = E820 /\ status[E820].word # "ok"
  BY <1>2, <1>5, <1>8 DEF Derived
<1>9. QED  BY <1>5, <1>6, <1>7, <1>8 DEF Artifacts

LEMMA FreshByInv == LInv => FreshShowsOnlyCollected
<1> SUFFICES ASSUME LInv, Collected, round = 1 PROVE FreshShowsOnlyCollected
  BY DEF FreshShowsOnlyCollected
<1> USE DEF LInv
<1>1. \A a \in Captured : status[a].round = round /\ Supports(a, status[a].word)
  BY Positions DEF Passed, Deriving, Collected
<1>2. status[E820].round = round /\ Derived(status[E820].word)
  BY DEF Here, Collected
<1>3. \A a \in Artifacts : status[a] # NoStatus
  BY <1>1, <1>2 DEF NoStatus, Artifacts
<1>4. \A a \in Artifacts : BuildLinuxView.words[a] = status[a].word
  BY <1>3 DEF BuildLinuxView
<1>5. ASSUME NEW a \in Captured, text[a].some
      PROVE  status[a].word \in {"ok", "failed"}
  <2>1. a \in Artifacts /\ text[a].round \in Nat
    BY Positions, FieldsTyped
  <2>2. text[a].round > 0
    BY <1>5, <2>1 DEF NoneYounger
  <2>3. QED  BY <1>1, <2>1, <2>2 DEF Supports
<1>6. \A a \in Captured \cap BuildLinuxView.shown :
        BuildLinuxView.words[a] \in {"ok", "failed"}
  BY <1>4, <1>5, Positions DEF BuildLinuxView
<1>7. ASSUME status[E820].word = "ok"
      PROVE  status["dmesg"].word # "missing"
  <2>1. text["dmesg"].some
    BY <1>2, <1>7 DEF Derived
  <2>2. QED  BY <1>5, <2>1
<1>8. BuildLinuxView.words[E820] = "ok" => BuildLinuxView.words["dmesg"] # "missing"
  BY <1>4, <1>7, Positions
<1>9. QED  BY <1>6, <1>8 DEF FreshShowsOnlyCollected

\* The collector's state keeps its type, for any artifacts and any number of
\* collections.
THEOREM CollectorTypeCorrect == LSpec => []LTypeOK
BY Invariance, PTL DEF LInv

\* However earlier collections were stopped, after one that came to its end
\* every status is its own and what it calls ok is its own whole output.
THEOREM CollectionsComplete == LSpec => []CompletedIsCoherent
BY Invariance, CoherentByInv, PTL

\* Old output shows only under an artifact called missing or failed, or as
\* the e820 of a machine without dmesg.
THEOREM StaleIsMarked == LSpec => []StaleOnlyWhereSaid
BY Invariance, StaleByInv, PTL

\* An artifact called ok has the whole output of the collection that says so,
\* unless a later one is at it or was stopped.
THEOREM OkIsOwn == LSpec => []OkMeansItsOwnText
BY Invariance, PTL DEF LInv

\* In a fresh directory nothing shows that its one collection did not capture.
THEOREM FreshIsFresh == LSpec => []FreshShowsOnlyCollected
BY Invariance, FreshByInv, PTL
=============================================================================
