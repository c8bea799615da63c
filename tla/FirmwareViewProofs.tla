------------------------- MODULE FirmwareViewProofs -------------------------
(***************************************************************************)
(* The boot application for any number of starts, of driver images, of     *)
(* changes of the firmware's map and of kills, and any sizes of report.    *)
(* First its parts, each on its own: the boot handoff, the report file,    *)
(* the producer.  Then the composition, where the report file is shown to  *)
(* be ReportFile's, and the invariants of the three parts are carried      *)
(* through the steps of UefiMain together with what its locals know of     *)
(* them.                                                                   *)
(***************************************************************************)
EXTENDS FirmwareView, FiniteSetTheorems, TLAPS

(***************************************************************************)
(* The boot handoff, for any slack, any growth of the firmware's memory map *)
(* and any number of its changes: the snapshot is coherent, its buffer has *)
(* one owner, an error leaves a zeroed object, and the second GetMemoryMap *)
(* finds its buffer too small only if the map outgrew the slack.           *)
(***************************************************************************)
USE BootInfoAssumption

\* What the size query and the changes since then say of the map of now: it
\* grew at most MaxGrowth descriptors per change.
Outgrown == (Current - mapKey) * MaxGrowth

(***************************************************************************)
(* The inductive invariant, but for the buffer.  Coherent needs to know    *)
(* where the object may hold a map at all; SlackAbsorbs needs room to be   *)
(* the queried size plus the slack, with a bound on what the map has       *)
(* become; and a program that goes by the status, that it tells a failure. *)
(* It does not speak of the pool, which a program shares with its other    *)
(* allocations.                                                            *)
(***************************************************************************)
HTypeOK == /\ maps \in Seq(1 .. MaxDescriptors) /\ maps # <<>>
           /\ room \in Nat
           /\ mapKey \in 0 .. Current
           /\ DOMAIN bootInfo = DOMAIN ZeroInfo
           /\ bootInfo.MemoryMap \in BOOLEAN
           /\ bootInfo.Descriptors \in 0 .. MaxDescriptors
           /\ bootInfo.MemoryMapKey \in 0 .. Current
           /\ bpc \in {"start", "query", "allocate", "capture", "built", "failed", "freed"}
           /\ bstatus \in {"EFI_SUCCESS", "EFI_INVALID_PARAMETER", "EFI_OUT_OF_RESOURCES",
                           "EFI_BUFFER_TOO_SMALL"}

HInv == /\ HTypeOK
        /\ Coherent
        /\ ErrorMeansZero
        /\ bpc = "failed" <=> bstatus # "EFI_SUCCESS"
        /\ bpc \in {"start", "query", "allocate", "capture"} => ~bootInfo.MemoryMap
        /\ bpc = "built" => bootInfo.MemoryMap
        /\ bpc \in {"allocate", "capture"} =>
              /\ mapKey \in 1 .. Current
              /\ room = maps[mapKey] + Slack
              /\ Descriptors <= maps[mapKey] + Outgrown

\* The buffer, where nothing else is allocated.
BInv == HInv /\ pool \subseteq {"MemoryMap"} /\ BufferOwned

\* The map of now is a map, and its size a number of descriptors.
LEMMA CurrentMap ==
    ASSUME HTypeOK
    PROVE  /\ Current \in Nat \ {0}
           /\ Descriptors \in 1 .. MaxDescriptors
           /\ \A k \in 1 .. Current : maps[k] \in 1 .. MaxDescriptors
BY DEF HTypeOK, Current, Descriptors

\* One more change moves the bound on the map by MaxGrowth.
LEMMA OneMoreChange ==
    ASSUME NEW k \in Nat, NEW g \in Nat
    PROVE  /\ k * g \in Nat
           /\ (k + 1) * g = k * g + g
OBVIOUS

\* A change of the firmware's map, on its own or by an allocation, appends to
\* the history and leaves its past alone.
LEMMA ChangeAppends ==
    ASSUME HTypeOK, maps' \in Changed
    PROVE  /\ maps' \in Seq(1 .. MaxDescriptors) /\ maps' # <<>>
           /\ Current' = Current + 1
           /\ \A k \in 1 .. Current : maps'[k] = maps[k]
           /\ Descriptors' \in 1 .. MaxDescriptors
           /\ Descriptors' <= Descriptors + MaxGrowth
<1>1. PICK n \in 1 .. MaxDescriptors : n <= Descriptors + MaxGrowth /\ maps' = Append(maps, n)
  BY DEF Changed
<1>2. maps \in Seq(1 .. MaxDescriptors)  BY DEF HTypeOK
<1>3. Len(maps') = Len(maps) + 1 /\ maps'[Len(maps) + 1] = n
  BY <1>1, <1>2
<1>4. \A k \in 1 .. Len(maps) : maps'[k] = maps[k]
  BY <1>1, <1>2
<1>5. QED  BY <1>1, <1>2, <1>3, <1>4 DEF Current, Descriptors

\* What such a change does to the bound of the inductive invariant.
LEMMA ChangeKeepsBound ==
    ASSUME HTypeOK, maps' \in Changed, mapKey' = mapKey, mapKey \in 1 .. Current,
           Descriptors <= maps[mapKey] + Outgrown
    PROVE  /\ mapKey \in 1 .. Current'
           /\ maps'[mapKey] = maps[mapKey]
           /\ Descriptors' <= maps[mapKey] + Outgrown'
<1>1. Current \in Nat /\ Current - mapKey \in Nat /\ maps[mapKey] \in Nat /\ Descriptors \in Nat
  BY CurrentMap
<1>2. Current' = Current + 1 /\ maps'[mapKey] = maps[mapKey] /\ Descriptors' \in Nat
      /\ Descriptors' <= Descriptors + MaxGrowth
  BY ChangeAppends
<1>3. Outgrown \in Nat /\ ((Current - mapKey) + 1) * MaxGrowth = Outgrown + MaxGrowth
  BY <1>1, OneMoreChange DEF Outgrown
<1>4. Current' - mapKey' = (Current - mapKey) + 1
  BY <1>1, <1>2
<1>5. Outgrown' = Outgrown + MaxGrowth
  BY <1>3, <1>4 DEF Outgrown
<1>6. QED  BY <1>1, <1>2, <1>3, <1>5

-----------------------------------------------------------------------------
LEMMA HInitEstablishes == BInit => HInv
<1> SUFFICES ASSUME BInit PROVE HInv
  OBVIOUS
<1>1. PICK n \in 1 .. MaxDescriptors : maps = <<n>>
  BY DEF BInit
<1>2. maps \in Seq(1 .. MaxDescriptors) /\ maps # <<>> /\ Current = 1
  BY <1>1 DEF Current
<1>3. QED
  BY <1>2 DEF BInit, HInv, HTypeOK, Coherent, ErrorMeansZero, ZeroInfo

\* The firmware changes its map behind the program's back.
LEMMA ActivityPreserves ==
    ASSUME HInv, FirmwareActivity
    PROVE  HInv'
<1>1. HTypeOK /\ maps' \in Changed
      /\ UNCHANGED <<directory, pool, room, mapKey, bootInfo, bpc, bstatus>>
  BY DEF HInv, FirmwareActivity, locals
<1>2. /\ maps' \in Seq(1 .. MaxDescriptors) /\ maps' # <<>>
      /\ Current' = Current + 1 /\ Current \in Nat
      /\ \A k \in 1 .. Current : maps'[k] = maps[k]
  BY <1>1, ChangeAppends, CurrentMap
<1>3. HTypeOK'
  BY <1>1, <1>2 DEF HTypeOK
<1>4. Coherent'
  <2>1. DOMAIN maps = 1 .. Current /\ DOMAIN maps' = 1 .. Current'
    BY <1>1, <1>2 DEF HTypeOK, Current
  <2>2. QED  BY <1>1, <1>2, <2>1 DEF HInv, Coherent
<1>5. (bpc \in {"allocate", "capture"} =>
          /\ mapKey \in 1 .. Current
          /\ room = maps[mapKey] + Slack
          /\ Descriptors <= maps[mapKey] + Outgrown)'
  BY <1>1, ChangeKeepsBound DEF HInv
<1>6. QED
  BY <1>1, <1>3, <1>4, <1>5 DEF HInv, ErrorMeansZero, ZeroInfo

\* The roots are stored in a cleared object.
LEMMA RootsPreserve ==
    ASSUME HInv, StoreRoots
    PROVE  HInv'
<1>1. /\ DOMAIN bootInfo' = DOMAIN ZeroInfo
      /\ bootInfo'.MemoryMap = FALSE /\ bootInfo'.Descriptors = 0 /\ bootInfo'.MemoryMapKey = 0
  BY DEF StoreRoots, ZeroInfo
<1>2. /\ bpc = "start" /\ bpc' = "query"
      /\ UNCHANGED <<maps, directory, pool, room, mapKey, bstatus>>
  BY DEF StoreRoots, locals
<1>3. Current' = Current /\ Current \in Nat
  BY <1>2, CurrentMap DEF HInv, Current
<1>4. HTypeOK'
  <2>1. bootInfo'.MemoryMap \in BOOLEAN
    BY <1>1, Zenon
  <2>2. bootInfo'.Descriptors \in 0 .. MaxDescriptors
    BY <1>1
  <2>3. bootInfo'.MemoryMapKey \in 0 .. Current'
    BY <1>1, <1>3
  <2>4. QED  BY <1>1, <1>2, <1>3, <2>1, <2>2, <2>3 DEF HInv, HTypeOK, ZeroInfo
<1>5. Coherent' /\ ErrorMeansZero'
  BY <1>1, <1>2 DEF HInv, Coherent, ErrorMeansZero
<1>6. (DOMAIN bootInfo = DOMAIN ZeroInfo)'
  BY <1>1 DEF ZeroInfo
<1>7. QED
  BY <1>1, <1>2, <1>4, <1>5, <1>6 DEF HInv

\* The size query asks for room on top of the map of this moment.
LEMMA QueryPreserves ==
    ASSUME HInv, SizeQuery
    PROVE  HInv'
<1>1. bpc = "query" /\ UNCHANGED <<maps, directory, pool>>
  BY DEF SizeQuery
<1>2. Current' = Current /\ Current \in Nat \ {0} /\ Descriptors' = Descriptors /\ Descriptors \in Nat
  BY <1>1, CurrentMap DEF HInv, Current, Descriptors
<1>3. CASE Fail("EFI_INVALID_PARAMETER") /\ UNCHANGED locals
  BY <1>1, <1>2, <1>3
     DEF HInv, Fail, locals, ZeroInfo, HTypeOK, Coherent, ErrorMeansZero
<1>4. CASE /\ room' = Descriptors + Slack
           /\ mapKey' = Current
           /\ bpc' = "allocate"
           /\ UNCHANGED <<bootInfo, bstatus>>
  <2>1. HTypeOK'
    BY <1>1, <1>2, <1>4 DEF HInv, HTypeOK
  <2>2. Coherent' /\ ErrorMeansZero'
    BY <1>1, <1>4 DEF HInv, Coherent, ErrorMeansZero
  <2>3. Outgrown' = 0
    BY <1>2, <1>4 DEF Outgrown
  <2>4. room' = maps'[mapKey'] + Slack /\ Descriptors' <= maps'[mapKey'] + Outgrown'
    BY <1>1, <1>2, <1>4, <2>3 DEF Descriptors
  <2>5. mapKey' \in 1 .. Current'
    BY <1>2, <1>4
  <2>6. QED  BY <1>1, <1>4, <2>1, <2>2, <2>4, <2>5 DEF HInv, ZeroInfo
<1>5. QED  BY <1>3, <1>4 DEF SizeQuery

\* AllocatePool fails, or gives a buffer and may change the map with it.
LEMMA AllocatePreserves ==
    ASSUME HInv, AllocateMap
    PROVE  HInv'
<1>1. bpc = "allocate" /\ UNCHANGED <<directory, room, mapKey>>
  BY DEF AllocateMap, locals
<1>2. Current \in Nat \ {0}
  BY CurrentMap DEF HInv
<1>3. CASE Fail("EFI_OUT_OF_RESOURCES") /\ UNCHANGED <<maps, pool>>
  <2>1. Current' = Current  BY <1>3 DEF Current
  <2>2. QED
    BY <1>1, <1>2, <1>3, <2>1
       DEF HInv, Fail, ZeroInfo, HTypeOK, Coherent, ErrorMeansZero
<1>4. CASE /\ pool' = pool \cup {"MemoryMap"}
           /\ Touched
           /\ bpc' = "capture"
           /\ UNCHANGED <<bootInfo, bstatus>>
  <2>1. /\ maps' \in Seq(1 .. MaxDescriptors) /\ maps' # <<>>
        /\ Current' \in Nat /\ Current <= Current'
    <3>1. CASE maps' = maps
      BY <1>2, <3>1 DEF HInv, HTypeOK, Current
    <3>2. CASE maps' \in Changed
      BY <1>2, <3>2, ChangeAppends DEF HInv
    <3>3. QED  BY <1>4, <3>1, <3>2 DEF Touched
  <2>2. HTypeOK'
    BY <1>1, <1>2, <1>4, <2>1 DEF HInv, HTypeOK
  <2>3. /\ mapKey' \in 1 .. Current'
        /\ room' = maps'[mapKey'] + Slack
        /\ Descriptors' <= maps'[mapKey'] + Outgrown'
    <3>1. CASE maps' = maps
      BY <1>1, <3>1 DEF HInv, Current, Descriptors, Outgrown
    <3>2. CASE maps' \in Changed
      BY <1>1, <3>2, ChangeKeepsBound DEF HInv
    <3>3. QED  BY <1>4, <3>1, <3>2 DEF Touched
  <2>4. Coherent' /\ ErrorMeansZero'
    BY <1>1, <1>4 DEF HInv, Coherent, ErrorMeansZero
  <2>5. QED  BY <1>1, <1>4, <2>2, <2>3, <2>4 DEF HInv, ZeroInfo
<1>5. QED  BY <1>3, <1>4 DEF AllocateMap

\* The second GetMemoryMap stores what it captured, or frees the buffer.
LEMMA CapturePreserves ==
    ASSUME HInv, Capture
    PROVE  HInv'
<1>1. bpc = "capture" /\ UNCHANGED <<maps, directory, room, mapKey>>
  BY DEF Capture, locals
<1>2. Current' = Current /\ Current \in Nat \ {0} /\ Descriptors \in 1 .. MaxDescriptors
  BY <1>1, CurrentMap DEF HInv, Current
<1>3. CASE /\ Fail("EFI_BUFFER_TOO_SMALL")
           /\ pool' = pool \ {"MemoryMap"}
  BY <1>1, <1>2, <1>3
     DEF HInv, Fail, ZeroInfo, HTypeOK, Coherent, ErrorMeansZero
<1>4. CASE /\ bootInfo' = [bootInfo EXCEPT !.MemoryMap = TRUE,
                                           !.Descriptors = Descriptors,
                                           !.MemoryMapKey = Current]
           /\ bpc' = "built"
           /\ UNCHANGED <<pool, bstatus>>
  <2>1. /\ DOMAIN bootInfo' = DOMAIN ZeroInfo
        /\ bootInfo'.MemoryMap = TRUE
        /\ bootInfo'.Descriptors = Descriptors
        /\ bootInfo'.MemoryMapKey = Current
    BY <1>4 DEF HInv, HTypeOK, ZeroInfo
  <2>2. Coherent'
    <3>1. Current \in DOMAIN maps'
      BY <1>1, <1>2 DEF HInv, HTypeOK, Current
    <3>2. QED  BY <1>1, <2>1, <3>1 DEF Coherent, Descriptors
  <2>3. HTypeOK'
    BY <1>1, <1>2, <1>4, <2>1 DEF HInv, HTypeOK
  <2>4. QED
    BY <1>1, <1>4, <2>1, <2>2, <2>3 DEF HInv, ErrorMeansZero
<1>5. QED  BY <1>3, <1>4 DEF Capture

\* The release frees the buffer and clears the object.
LEMMA FreePreserves ==
    ASSUME HInv, FreeBootHandoffInfo
    PROVE  HInv'
<1>1. /\ bpc = "built" /\ bpc' = "freed" /\ bootInfo' = ZeroInfo
      /\ pool' = pool \ {"MemoryMap"}
      /\ UNCHANGED <<maps, directory, room, mapKey, bstatus>>
  BY DEF FreeBootHandoffInfo, locals, HInv
<1>2. Current' = Current /\ Current \in Nat
  BY <1>1, CurrentMap DEF HInv, Current
<1>3. QED
  BY <1>1, <1>2 DEF HInv, ZeroInfo, HTypeOK, Coherent, ErrorMeansZero

LEMMA HBuildPreserves == HInv /\ Build => HInv'
BY RootsPreserve, QueryPreserves, AllocatePreserves, CapturePreserves DEF Build

LEMMA BStepPreserves == BInv /\ [BNext]_bvars => BInv'
<1> SUFFICES ASSUME BInv, [BNext]_bvars PROVE BInv'
  OBVIOUS
<1>1. HInv'
  <2>1. CASE UNCHANGED bvars
    BY <2>1 DEF bvars, BInv, HInv, HTypeOK, Coherent, ErrorMeansZero, Current,
                Descriptors, Outgrown, ZeroInfo
  <2>2. QED  BY <2>1, ActivityPreserves, HBuildPreserves, FreePreserves DEF BNext, BInv
<1>2. (pool \subseteq {"MemoryMap"} /\ BufferOwned)'
  <2> USE DEF BInv, HInv, BufferOwned, ZeroInfo
  <2>1. CASE FirmwareActivity  BY <2>1 DEF FirmwareActivity
  <2>2. CASE StoreRoots  BY <2>2 DEF StoreRoots
  <2>3. CASE SizeQuery  BY <2>3 DEF SizeQuery, Fail
  <2>4. CASE AllocateMap
    <3>1. bpc = "allocate" /\ "MemoryMap" \notin pool
      BY <2>4 DEF AllocateMap
    <3>2. CASE Fail("EFI_OUT_OF_RESOURCES") /\ UNCHANGED pool
      BY <3>1, <3>2 DEF Fail
    <3>3. CASE pool' = pool \cup {"MemoryMap"} /\ bpc' = "capture"
      BY <3>1, <3>3
    <3>4. QED  BY <2>4, <3>2, <3>3 DEF AllocateMap
  <2>5. CASE Capture
    <3>1. bpc = "capture" /\ "MemoryMap" \in pool
      BY <2>5 DEF Capture
    <3>2. CASE Fail("EFI_BUFFER_TOO_SMALL") /\ pool' = pool \ {"MemoryMap"}
      BY <3>1, <3>2 DEF Fail
    <3>3. CASE UNCHANGED pool /\ bpc' = "built"
      <4>1. bootInfo'.MemoryMap  BY <1>1, <3>3
      <4>2. QED  BY <3>1, <3>3, <4>1
    <3>4. QED  BY <2>5, <3>2, <3>3 DEF Capture
  <2>6. CASE FreeBootHandoffInfo  BY <2>6 DEF FreeBootHandoffInfo
  <2>7. CASE UNCHANGED bvars  BY <2>7 DEF bvars
  <2>8. QED  BY <2>1, <2>2, <2>3, <2>4, <2>5, <2>6, <2>7 DEF BNext, Build
<1>3. QED  BY <1>1, <1>2 DEF BInv

LEMMA BInitEstablishes == BInit => BInv
BY HInitEstablishes DEF BInit, BInv, BufferOwned, ZeroInfo

LEMMA BInductive == BSpec => []BInv
BY BInitEstablishes, BStepPreserves, PTL DEF BSpec

-----------------------------------------------------------------------------
\* The state keeps its shape for every slack and every history of the map.
THEOREM HandoffTypeCorrect == BSpec => []BTypeOK
<1>1. BInv => BTypeOK  BY DEF BInv, HInv, HTypeOK, BTypeOK
<1>2. QED  BY <1>1, BInductive, PTL

\* The handoff object describes one moment of the firmware, however often its
\* map changes between the calls of GetMemoryMap.
THEOREM SnapshotCoherent == BSpec => []Coherent
<1>1. BInv => Coherent  BY DEF BInv, HInv
<1>2. QED  BY <1>1, BInductive, PTL

\* No path of the capture leaks its buffer or leaves a pointer to a freed one.
THEOREM OneOwner == BSpec => []BufferOwned
<1>1. BInv => BufferOwned  BY DEF BInv
<1>2. QED  BY <1>1, BInductive, PTL

\* A failed handoff is a zeroed one.
THEOREM FailedIsZero == BSpec => []ErrorMeansZero
<1>1. BInv => ErrorMeansZero  BY DEF BInv, HInv
<1>2. QED  BY <1>1, BInductive, PTL

\* A second GetMemoryMap that finds its buffer too small finds that the map
\* has outgrown the slack.
Refused == bstatus' = "EFI_BUFFER_TOO_SMALL" /\ bstatus # "EFI_BUFFER_TOO_SMALL"
Earned  == Refused => (Current - mapKey) * MaxGrowth > Slack

LEMMA RefusalEarned == HInv /\ BNext => Earned
<1> SUFFICES ASSUME HInv, BNext, Refused PROVE (Current - mapKey) * MaxGrowth > Slack
  BY DEF Earned
<1>1. Capture /\ Descriptors > room
  BY DEF BNext, Build, FirmwareActivity, StoreRoots, SizeQuery, AllocateMap, Capture,
         FreeBootHandoffInfo, Fail, Refused
<1>2. /\ room = maps[mapKey] + Slack
      /\ Descriptors <= maps[mapKey] + (Current - mapKey) * MaxGrowth
      /\ mapKey \in 1 .. Current
  BY <1>1 DEF Capture, HInv, Outgrown
<1>3. /\ maps[mapKey] \in Nat /\ Descriptors \in Nat
      /\ (Current - mapKey) * MaxGrowth \in Nat
  BY <1>2, CurrentMap, OneMoreChange DEF HInv
<1>4. QED  BY <1>1, <1>2, <1>3

\* The slack does its work: whatever its size, EFI_BUFFER_TOO_SMALL means that
\* the map changed often enough since the size query to outgrow it.
THEOREM SlackSuffices == BSpec => SlackAbsorbs
<1>1. BInv /\ [BNext]_bvars => [Earned]_bvars
  BY RefusalEarned DEF BInv
<1>2. QED  BY <1>1, BInductive, PTL DEF BSpec, SlackAbsorbs, Earned, Refused

-----------------------------------------------------------------------------
(***************************************************************************)
(* The report file, for any number of runs and any sizes of report, with   *)
(* the machine killed anywhere: handles are opened and closed in order, a  *)
(* success means that the run's report is there, and where the cleanup of  *)
(* the previous report cannot fail, that nothing else is.                  *)
(***************************************************************************)
USE ReportFileAssumption

\* This run's report is at the beginning of the file.
Begins == /\ volume.exists
          /\ Len(volume.data) >= size[run]
          /\ \A i \in 1 .. size[run] : volume.data[i] = run

(***************************************************************************)
(* The inductive invariant.  HandleDiscipline leaves open whether          *)
(* OpenReportDirectory succeeded, which CloseRoot reads from the status;   *)
(* SuccessMeansPrefix has to hold from the write on, not only at the end.  *)
(***************************************************************************)
WInv == /\ WTypeOK
        /\ HandleDiscipline
        /\ wpc = "close_root" => (wstatus \in Errors <=> "ReportDir" \notin handles)
        /\ wpc # "idle" => run \in 1 .. MaxRuns
        /\ wpc \in {"write", "close_file"} => volume.exists
        /\ wpc \in {"close_file", "close_dir", "done"} /\ wstatus = "EFI_SUCCESS" =>
              run \in 1 .. MaxRuns /\ Begins

\* What a write from position 0 leaves in the file.
LEMMA OverwrittenData ==
    ASSUME NEW n \in Nat, run \in Run, volume.data \in Seq(Run)
    PROVE  /\ Overwritten(n) \in Seq(Run)
           /\ Len(Overwritten(n)) >= n
           /\ \A i \in 1 .. n : Overwritten(n)[i] = run
           /\ volume.data = <<>> => Overwritten(n) = [i \in 1 .. n |-> run]
<1>1. Len(volume.data) \in Nat  OBVIOUS
<1> DEFINE m == IF n > Len(volume.data) THEN n ELSE Len(volume.data)
<1>2. m \in Nat /\ m >= n /\ m >= Len(volume.data)
  BY <1>1
<1>3. \A i \in 1 .. m : (IF i <= n THEN run ELSE volume.data[i]) \in Run
  BY <1>1
<1>4. Overwritten(n) = [i \in 1 .. m |-> IF i <= n THEN run ELSE volume.data[i]]
  BY DEF Overwritten
<1> HIDE DEF m
<1>5. Overwritten(n) \in Seq(Run) /\ Len(Overwritten(n)) = m
  BY <1>2, <1>3, <1>4
<1>6. \A i \in 1 .. n : Overwritten(n)[i] = run
  BY <1>2, <1>4
<1>7. ASSUME volume.data = <<>> PROVE Overwritten(n) = [i \in 1 .. n |-> run]
  <2>1. m = n  BY <1>7 DEF m
  <2>2. QED  BY <1>4, <2>1
<1>8. QED  BY <1>2, <1>5, <1>6, <1>7

\* The report of a run is as long as its size says, and a file holds it.
LEMMA SizeOfRun ==
    ASSUME WTypeOK, run \in 1 .. MaxRuns
    PROVE  size[run] \in Nat \ {0} /\ run \in Run
<1>1. size \in Seq(Sizes) /\ Len(size) = run
  BY DEF WTypeOK
<1>2. size[run] \in Sizes
  BY <1>1
<1>3. QED  BY <1>2 DEF Run

\* What the write leaves when it was complete, and when it failed.
LEMMA WritePreserves ==
    ASSUME WInv, WriteReport
    PROVE  WInv'
<1>1. /\ wpc = "write" /\ wpc' = "close_file"
      /\ UNCHANGED <<handles, run, size>>
  BY DEF WriteReport, Goto
<1>2. /\ run \in Run /\ run \in 1 .. MaxRuns /\ size[run] \in Nat \ {0}
      /\ volume.data \in Seq(Run) /\ volume.exists
  BY <1>1, SizeOfRun DEF WInv, WTypeOK
<1>3. PICK n \in 0 .. size[run] :
         /\ volume' = [volume EXCEPT !.data = Overwritten(n)]
         /\ wstatus' \in Errors \cup {"EFI_SUCCESS"}
         /\ wstatus' = "EFI_SUCCESS" => n = size[run]
  <2>1. CASE /\ volume' = [volume EXCEPT !.data = Overwritten(size[run])]
             /\ Goto("close_file", "EFI_SUCCESS")
    <3>1. size[run] \in 0 .. size[run] /\ wstatus' = "EFI_SUCCESS"
      BY <1>2, <2>1 DEF Goto
    <3>2. QED  BY <2>1, <3>1
  <2>2. CASE \E n \in 0 .. size[run] - 1 :
                /\ volume' = [volume EXCEPT !.data = Overwritten(n)]
                /\ Goto("close_file", "EFI_DEVICE_ERROR")
    BY <1>2, <2>2 DEF Goto, Errors
  <2>3. QED  BY <2>1, <2>2 DEF WriteReport
<1>4. n \in Nat /\ Overwritten(n) \in Seq(Run) /\ Len(Overwritten(n)) >= n
      /\ \A i \in 1 .. n : Overwritten(n)[i] = run
  BY <1>2, <1>3, OverwrittenData
<1>5. /\ volume' \in [efi : BOOLEAN, lab : BOOLEAN, exists : BOOLEAN, data : Seq(Run)]
      /\ volume'.data = Overwritten(n) /\ volume'.exists = volume.exists
  BY <1>3, <1>4 DEF WInv, WTypeOK
<1>6. WTypeOK'
  BY <1>1, <1>3, <1>5 DEF WInv, WTypeOK, Labels
<1>7. HandleDiscipline'
  BY <1>1 DEF WInv, HandleDiscipline, Needed
<1>8. wstatus' = "EFI_SUCCESS" => Begins'
  BY <1>1, <1>2, <1>3, <1>4, <1>5 DEF Begins
<1>9. QED
  BY <1>1, <1>2, <1>5, <1>6, <1>7, <1>8 DEF WInv

\* A kill closes every handle by losing it; the file keeps a part.
LEMMA KillPreserves ==
    ASSUME WInv, Killed
    PROVE  WInv'
<1>1. /\ handles' = {} /\ wpc' = "idle" /\ wstatus' = "killed" /\ UNCHANGED <<run, size>>
      /\ wpc # "idle"
  BY DEF Killed, Goto
<1>2. /\ run \in Run /\ size[run] \in Nat \ {0} /\ volume.data \in Seq(Run)
  BY <1>1, SizeOfRun DEF WInv, WTypeOK
<1>3. volume' \in [efi : BOOLEAN, lab : BOOLEAN, exists : BOOLEAN, data : Seq(Run)]
  <2>1. CASE UNCHANGED volume
    BY <2>1 DEF WInv, WTypeOK
  <2>2. ASSUME NEW n \in 0 .. size[run], volume' = [volume EXCEPT !.data = Overwritten(n)]
        PROVE  volume' \in [efi : BOOLEAN, lab : BOOLEAN, exists : BOOLEAN, data : Seq(Run)]
    <3>1. Overwritten(n) \in Seq(Run)  BY <1>2, OverwrittenData
    <3>2. QED  BY <2>2, <3>1 DEF WInv, WTypeOK
  <2>3. ASSUME NEW n \in 0 .. Len(volume.data),
               volume' = [volume EXCEPT !.data = SubSeq(@, 1, n)]
        PROVE  volume' \in [efi : BOOLEAN, lab : BOOLEAN, exists : BOOLEAN, data : Seq(Run)]
    <3>1. SubSeq(volume.data, 1, n) \in Seq(Run)  BY <1>2
    <3>2. QED  BY <2>3, <3>1 DEF WInv, WTypeOK
  <2>4. QED  BY <2>1, <2>2, <2>3 DEF Killed
<1>4. QED
  BY <1>1, <1>3 DEF WInv, WTypeOK, HandleDiscipline, Needed, Labels

LEMMA WInitEstablishes == WInit => WInv
<1> SUFFICES ASSUME WInit PROVE WInv
  OBVIOUS
<1>1. volume \in [efi : BOOLEAN, lab : BOOLEAN, exists : BOOLEAN, data : Seq(Run)]
  <2>1. <<>> \in Seq(Run)  OBVIOUS
  <2>2. FALSE \in BOOLEAN  OBVIOUS
  <2>3. {FALSE} \subseteq BOOLEAN /\ {<<>>} \subseteq Seq(Run)  BY <2>1, <2>2
  <2>4. volume \in [efi : BOOLEAN, lab : {FALSE}, exists : {FALSE}, data : {<<>>}]  BY DEF WInit
  <2>5. QED  BY <2>3, <2>4
<1>2. WTypeOK
  BY <1>1 DEF WInit, WTypeOK, Labels
<1>3. QED  BY <1>2 DEF WInit, WInv, HandleDiscipline, Needed

\* The program is started with a report of its own.
LEMMA BeginPreserves ==
    ASSUME WInv, BeginWrite
    PROVE  WInv'
<1>1. PICK n \in Sizes : size' = Append(size, n)
  BY DEF BeginWrite
<1>2. /\ wpc = "idle" /\ wpc' = "locate" /\ wstatus' = "EFI_SUCCESS"
      /\ run \in 0 .. MaxRuns /\ run < MaxRuns /\ run' = run + 1
      /\ size \in Seq(Sizes) /\ Len(size) = run
      /\ UNCHANGED <<volume, handles>>
  BY DEF BeginWrite, Goto, WInv, WTypeOK
<1>3. size' \in Seq(Sizes) /\ Len(size') = run'
  BY <1>1, <1>2
<1>4. WTypeOK'
  BY <1>2, <1>3 DEF WInv, WTypeOK, Labels
<1>5. QED
  BY <1>2, <1>4 DEF WInv, HandleDiscipline, Needed

\* The calls that open and close, and leave the file's data alone.
LEMMA OpensPreserve ==
    ASSUME WInv, LocateVolume \/ OpenEfi \/ OpenLab \/ CloseRoot \/ OpenExisting
    PROVE  WInv'
<1>1. UNCHANGED <<run, size>> /\ wpc \notin {"idle", "done"}
  BY DEF LocateVolume, OpenEfi, OpenLab, CloseRoot, OpenExisting
<1> USE <1>1 DEF WInv, HandleDiscipline, Needed, WTypeOK, Labels, Goto, Errors
<1>2. CASE LocateVolume  BY <1>2 DEF LocateVolume
<1>3. CASE OpenEfi  BY <1>3 DEF OpenEfi
<1>4. CASE OpenLab  BY <1>4 DEF OpenLab
<1>5. CASE CloseRoot  BY <1>5 DEF CloseRoot
<1>6. CASE OpenExisting  BY <1>6 DEF OpenExisting
<1>7. QED  BY <1>2, <1>3, <1>4, <1>5, <1>6

\* The calls around the write.
LEMMA ClosesPreserve ==
    ASSUME WInv, DeleteExisting \/ CreateReport \/ CloseFile \/ CloseDir
    PROVE  WInv'
<1>1. UNCHANGED <<run, size>> /\ wpc \notin {"idle", "done"}
  BY DEF DeleteExisting, CreateReport, CloseFile, CloseDir
<1> USE <1>1 DEF WInv, HandleDiscipline, Needed, WTypeOK, Labels, Goto, Errors
<1>2. CASE DeleteExisting
  <2>1. <<>> \in Seq(Run)  OBVIOUS
  <2>2. QED  BY <1>2, <2>1 DEF DeleteExisting
<1>3. CASE CreateReport  BY <1>3 DEF CreateReport
<1>4. CASE CloseFile  BY <1>4 DEF CloseFile, Begins
<1>5. CASE CloseDir  BY <1>5 DEF CloseDir, Begins
<1>6. QED  BY <1>2, <1>3, <1>4, <1>5

LEMMA WStepPreserves == WInv /\ [WNext]_wvars => WInv'
<1> SUFFICES ASSUME WInv, [WNext]_wvars PROVE WInv'
  OBVIOUS
<1>1. CASE BeginWrite  BY <1>1, BeginPreserves
<1>2. CASE WriteStep
  BY <1>2, OpensPreserve, ClosesPreserve, WritePreserves DEF WriteStep
<1>3. CASE ReturnToFirmware
  BY <1>3 DEF ReturnToFirmware, Goto, WInv, WTypeOK, HandleDiscipline, Needed, Labels
<1>4. CASE Killed  BY <1>4, KillPreserves
<1>5. CASE Exhausted \/ UNCHANGED wvars
  BY <1>5 DEF Exhausted, wvars, WInv, WTypeOK, HandleDiscipline, Begins
<1>6. QED  BY <1>1, <1>2, <1>3, <1>4, <1>5 DEF WNext

LEMMA WInductive == WSpec => []WInv
BY WInitEstablishes, WStepPreserves, PTL DEF WSpec

-----------------------------------------------------------------------------
\* The state keeps its shape for any number of runs and any sizes.
THEOREM FileTypeCorrect == WSpec => []WTypeOK
<1>1. WInv => WTypeOK  BY DEF WInv
<1>2. QED  BY <1>1, WInductive, PTL

\* WriteJsonToLoadedImageVolume uses no handle that is not open and leaves none
\* open, on any of its ways out.
THEOREM HandlesBalanced == WSpec => []HandleDiscipline
<1>1. WInv => HandleDiscipline  BY DEF WInv
<1>2. QED  BY <1>1, WInductive, PTL

\* A report declared written is at the beginning of the file, even where the
\* previous one could not be deleted.
THEOREM SuccessIsThere == WSpec => []SuccessMeansPrefix
<1>1. WInv => SuccessMeansPrefix  BY DEF WInv, SuccessMeansPrefix, Begins
<1>2. QED  BY <1>1, WInductive, PTL

-----------------------------------------------------------------------------
\* Where the cleanup cannot fail, a report is written into an empty file.
CleanInv == /\ WInv
            /\ ~volume.exists => volume.data = <<>>
            /\ wpc = "create" => ~volume.exists
            /\ wpc = "write" => volume.data = <<>>
            /\ wpc \in {"close_file", "close_dir", "done"} /\ wstatus = "EFI_SUCCESS" =>
                  volume.data = Report(run)

LEMMA CleanStep ==
    ASSUME ~CleanupMayFail
    PROVE  CleanInv /\ [WNext]_wvars => CleanInv'
<1> SUFFICES ASSUME CleanInv, [WNext]_wvars PROVE CleanInv'
  OBVIOUS
<1>1. WInv'  BY WStepPreserves DEF CleanInv
<1> USE DEF CleanInv, Goto, Errors
<1>2. CASE BeginWrite  BY <1>1, <1>2 DEF BeginWrite
<1>3. CASE LocateVolume \/ OpenEfi \/ CloseRoot
  BY <1>1, <1>3 DEF LocateVolume, OpenEfi, CloseRoot
<1>4. CASE OpenLab  BY <1>1, <1>4 DEF OpenLab, WInv, WTypeOK
<1>5. CASE OpenExisting  BY <1>1, <1>5 DEF OpenExisting
<1>6. CASE DeleteExisting  BY <1>1, <1>6 DEF DeleteExisting, WInv, WTypeOK
<1>7. CASE CreateReport  BY <1>1, <1>7 DEF CreateReport, WInv, WTypeOK
<1>8. CASE WriteReport
  <2>1. /\ wpc = "write" /\ wpc' = "close_file" /\ UNCHANGED <<run, size>>
        /\ volume.data = <<>> /\ volume.exists /\ volume'.exists
    BY <1>1, <1>8 DEF WriteReport, WInv
  <2>2. run \in Run /\ size[run] \in Nat /\ volume.data \in Seq(Run)
    BY <2>1, SizeOfRun DEF WInv, WTypeOK
  <2>3. wstatus' = "EFI_SUCCESS" => volume'.data = Overwritten(size[run])
    BY <1>8 DEF WriteReport, WInv, WTypeOK
  <2>4. Overwritten(size[run]) = [i \in 1 .. size[run] |-> run]
    BY <2>1, <2>2, OverwrittenData
  <2>5. Report(run)' = [i \in 1 .. size[run] |-> run]
    BY <2>1 DEF Report
  <2>6. QED  BY <1>1, <2>1, <2>3, <2>4, <2>5
<1>9. CASE CloseFile \/ CloseDir \/ ReturnToFirmware
  BY <1>1, <1>9 DEF CloseFile, CloseDir, ReturnToFirmware, Report
<1>10. CASE Killed
  <2>1. wpc' = "idle"  BY <1>10 DEF Killed
  <2>2. volume'.exists = volume.exists /\ (~volume.exists => volume' = volume)
    BY <1>10 DEF Killed, WInv, WTypeOK
  <2>3. QED  BY <1>1, <2>1, <2>2
<1>11. CASE Exhausted \/ UNCHANGED wvars
  BY <1>1, <1>11 DEF Exhausted, wvars, Report
<1>12. QED
  BY <1>2, <1>3, <1>4, <1>5, <1>6, <1>7, <1>8, <1>9, <1>10, <1>11 DEF WNext, WriteStep

\* Where the previous report can be deleted, a report declared written is the
\* whole file, whatever earlier runs, failed or killed, had left.
THEOREM SuccessIsWhole ==
    ASSUME ~CleanupMayFail
    PROVE  WSpec => []SuccessMeansWhole
<1>1. WInit => CleanInv
  <2>1. WInit => WInv  BY WInitEstablishes
  <2>2. QED  BY <2>1 DEF WInit, CleanInv
<1>2. CleanInv => SuccessMeansWhole
  BY DEF CleanInv, WInv, Begins, SuccessMeansWhole
<1>3. QED  BY <1>1, <1>2, CleanStep, PTL DEF WSpec

-----------------------------------------------------------------------------
\* The file is the first n cells of run r's report.
PartOf(data, r) == /\ r \in Run
                   /\ \A i \in 1 .. Len(data) :
                         data[i] = r /\ r <= run /\ Len(data) <= size[r]

LEMMA PartIsNoMixture == NoMixture <=> \E r \in Run : PartOf(volume.data, r)
BY DEF NoMixture, PartOf

\* Writing n cells into an empty file leaves a part of this run's report.
LEMMA PartWritten ==
    ASSUME CleanInv, run \in Run, volume.data = <<>>,
           NEW n \in 0 .. size[run], size[run] \in Nat,
           UNCHANGED <<run, size>>, volume'.data = Overwritten(n)
    PROVE  NoMixture'
<1>1. Overwritten(n) = [i \in 1 .. n |-> run]
  BY OverwrittenData
<1>2. Len(volume'.data) = n /\ \A i \in 1 .. n : volume'.data[i] = run
  BY <1>1
<1>3. run \in Nat
  BY DEF Run
<1>4. \A i \in 1 .. Len(volume'.data) :
        volume'.data[i] = run /\ run <= run' /\ Len(volume'.data) <= size'[run]
  BY <1>2, <1>3
<1>5. QED  BY <1>4 DEF NoMixture

\* What is left of a part is a part.
LEMMA PartShortened ==
    ASSUME WTypeOK, NoMixture, NEW n \in 0 .. Len(volume.data),
           UNCHANGED <<run, size>>, volume'.data = SubSeq(volume.data, 1, n)
    PROVE  NoMixture'
<1>1. PICK r \in Run : PartOf(volume.data, r)
  BY PartIsNoMixture
<1>2. volume.data \in Seq(Run)
  BY DEF WTypeOK
<1>3. Len(volume'.data) = n /\ \A i \in 1 .. n : volume'.data[i] = volume.data[i]
  BY <1>2
<1>4. \A i \in 1 .. n : volume.data[i] = r /\ r <= run /\ Len(volume.data) <= size[r]
  BY <1>1, <1>2 DEF PartOf
<1>5. CASE n = 0
  BY <1>3, <1>5 DEF NoMixture
<1>6. CASE n # 0
  <2>1. r <= run /\ Len(volume.data) <= size[r]
    BY <1>4, <1>6
  <2>2. size[r] \in Nat
    <3>1. size \in Seq(Sizes) /\ Len(size) = run /\ run \in Nat
      BY DEF WTypeOK
    <3>2. r \in 1 .. Len(size)
      BY <2>1, <3>1 DEF Run
    <3>3. size[r] \in Sizes
      BY <3>1, <3>2
    <3>4. QED  BY <3>3
  <2>3. n <= size[r]
    BY <1>2, <2>1, <2>2
  <2>4. QED  BY <1>3, <1>4, <2>1, <2>3 DEF NoMixture
<1>7. QED  BY <1>5, <1>6

LEMMA MixtureStep ==
    ASSUME ~CleanupMayFail, MaxRuns # 0, CleanInv, NoMixture, [WNext]_wvars
    PROVE  NoMixture'
<1>1. PICK r \in Run : PartOf(volume.data, r)
  BY PartIsNoMixture
<1>2. /\ volume.data \in Seq(Run) /\ run \in 0 .. MaxRuns
      /\ size \in Seq(Sizes) /\ Len(size) = run
  BY DEF CleanInv, WInv, WTypeOK
<1>3. CASE UNCHANGED <<volume.data, run, size>>
  BY <1>3 DEF NoMixture
<1>4. CASE BeginWrite
  <2>1. PICK n \in Sizes : size' = Append(size, n)
    BY <1>4 DEF BeginWrite
  <2>2. run' = run + 1 /\ volume' = volume
    BY <1>4 DEF BeginWrite
  <2>3. CASE volume.data = <<>>
    BY <2>2, <2>3 DEF NoMixture
  <2>4. CASE volume.data # <<>>
    <3>1. 1 \in 1 .. Len(volume.data)
      BY <1>2, <2>4
    <3>2. r <= run /\ Len(volume.data) <= size[r]
      BY <1>1, <3>1 DEF PartOf
    <3>3. size'[r] = size[r] /\ r <= run'
      BY <1>2, <2>1, <2>2, <3>2 DEF Run
    <3>4. QED  BY <1>1, <2>2, <3>2, <3>3 DEF PartOf, NoMixture
  <2>5. QED  BY <2>3, <2>4
<1>5. CASE DeleteExisting
  <2>1. UNCHANGED <<run, size>> /\ (volume'.data = <<>> \/ volume' = volume)
    BY <1>5 DEF DeleteExisting, CleanInv, WInv, WTypeOK
  <2>2. CASE volume'.data = <<>>
    BY <1>1, <2>2 DEF NoMixture
  <2>3. QED  BY <1>3, <2>1, <2>2
<1>6. CASE WriteReport
  <2>1. /\ volume.data = <<>> /\ UNCHANGED <<run, size>>
        /\ run \in Run /\ size[run] \in Nat
    BY <1>6, SizeOfRun DEF WriteReport, CleanInv, WInv
  <2>2. PICK n \in 0 .. size[run] : volume'.data = Overwritten(n)
    BY <1>6, <2>1 DEF WriteReport, CleanInv, WInv, WTypeOK
  <2>3. QED  BY <2>1, <2>2, PartWritten
<1>7. CASE Killed
  <2>1. UNCHANGED <<run, size>> /\ wpc # "idle"
    BY <1>7 DEF Killed
  <2>2. CASE UNCHANGED volume
    BY <1>3, <2>1, <2>2
  <2>3. ASSUME wpc = "write", NEW n \in 0 .. size[run],
               volume' = [volume EXCEPT !.data = Overwritten(n)]
        PROVE  NoMixture'
    <3>1. volume.data = <<>> /\ run \in Run /\ size[run] \in Nat
      BY <2>1, <2>3, SizeOfRun DEF CleanInv, WInv
    <3>2. volume'.data = Overwritten(n)
      BY <2>3 DEF CleanInv, WInv, WTypeOK
    <3>3. QED  BY <2>1, <3>1, <3>2, PartWritten
  <2>4. ASSUME NEW n \in 0 .. Len(volume.data),
               volume' = [volume EXCEPT !.data = SubSeq(@, 1, n)]
        PROVE  NoMixture'
    <3>1. volume'.data = SubSeq(volume.data, 1, n)
      BY <2>4 DEF CleanInv, WInv, WTypeOK
    <3>2. WTypeOK
      BY DEF CleanInv, WInv
    <3>3. QED  BY <2>1, <3>1, <3>2, PartShortened
  <2>5. QED  BY <1>7, <2>2, <2>3, <2>4 DEF Killed
<1>8. CASE LocateVolume \/ OpenEfi \/ OpenLab \/ CloseRoot \/ OpenExisting \/ CreateReport
  <2>1. UNCHANGED <<volume.data, run, size>>
    BY <1>8 DEF LocateVolume, OpenEfi, OpenLab, CloseRoot, OpenExisting, CreateReport,
       CleanInv, WInv, WTypeOK
  <2>2. QED  BY <1>3, <2>1
<1>9. CASE CloseFile \/ CloseDir \/ ReturnToFirmware \/ Exhausted \/ UNCHANGED wvars
  <2>1. UNCHANGED <<volume.data, run, size>>
    BY <1>9 DEF CloseFile, CloseDir, ReturnToFirmware, Exhausted, wvars
  <2>2. QED  BY <1>3, <2>1
<1>10. QED
  BY <1>4, <1>5, <1>6, <1>7, <1>8, <1>9 DEF WNext, WriteStep

\* Where the previous report can be deleted, the file is at any time nothing,
\* or the beginning or the whole of one run's report, whatever is killed when.
THEOREM FileOfOneRun ==
    ASSUME ~CleanupMayFail, MaxRuns # 0
    PROVE  WSpec => []NoMixture
<1>1. WInit => CleanInv /\ NoMixture
  <2> SUFFICES ASSUME WInit PROVE CleanInv /\ NoMixture
    OBVIOUS
  <2>1. CleanInv
    BY WInitEstablishes DEF WInit, CleanInv
  <2>2. 1 \in Run /\ volume.data = <<>>
    BY DEF WInit, Run
  <2>3. QED  BY <2>1, <2>2 DEF NoMixture
<1>2. CleanInv /\ NoMixture /\ [WNext]_wvars => (CleanInv /\ NoMixture)'
  BY CleanStep, MixtureStep
<1>3. QED  BY <1>1, <1>2, PTL DEF WSpec

\* The file on the volume is one run's, and after a success it is that run's.
THEOREM OneRunsFile ==
    ASSUME ~CleanupMayFail, MaxRuns # 0
    PROVE  WSpec => []FileIsOneRuns
<1>1. SuccessMeansWhole /\ NoMixture => FileIsOneRuns
  BY DEF FileIsOneRuns
<1>2. QED  BY <1>1, SuccessIsWhole, FileOfOneRun, PTL

-----------------------------------------------------------------------------
(***************************************************************************)
(* The producer: one table, published once, in an image that stays.        *)
(***************************************************************************)
USE ProducerAssumption

Acpi == [guid |-> Acpi20, table |-> 0]
Entry(n) == [guid |-> Lab, table |-> n]

\* The directories there can be: without the lab's table, and with the one of
\* image n.
Unpublished(d) == d \in {<<>>, <<Acpi>>}
Published(d, n) == d \in {<<Entry(n)>>, <<Acpi, Entry(n)>>}

Loading == {"locate", "load", "start"}

(***************************************************************************)
(* The inductive invariant: either nobody has published, and an image is   *)
(* resident only while it is being started; or one image has, it is the    *)
(* only one resident, and nothing is being loaded.                         *)
(***************************************************************************)
PInv ==
    /\ PTypeOK
    /\ PathBalanced
    /\ \/ /\ Unpublished(directory)
          /\ images = IF ppc = "start" THEN {image} ELSE {}
          /\ ppc = "start" => image \in 1 .. loaded
          /\ ppc = "ready" => pstatus # "EFI_SUCCESS"
       \/ \E n \in 1 .. loaded : /\ Published(directory, n)
                                 /\ images = {n}
                                 /\ ppc \in {"boot", "ready"}

\* What the lookup finds at a place that is the only one, or at none.
LEMMA Lookup ==
    ASSUME NEW d, NEW i, Len(d) \in Nat,
           { j \in 1 .. Len(d) : d[j].guid = Lab } = {i}
    PROVE  SelectInSeq(d, LAMBDA entry : entry.guid = Lab) = i
<1>1. i \in 1 .. Len(d)
  OBVIOUS
<1>2. Min({i}) = i
  BY <1>1 DEF Min
<1>3. QED  BY <1>2 DEF SelectInSeq

LEMMA LookupNone ==
    ASSUME NEW d, Len(d) \in Nat, \A j \in 1 .. Len(d) : d[j].guid # Lab
    PROVE  SelectInSeq(d, LAMBDA entry : entry.guid = Lab) = 0
BY DEF SelectInSeq

LEMMA SameSequence ==
    ASSUME NEW S, NEW s \in Seq(S), NEW t \in Seq(S), Len(s) = 2, Len(t) = 2,
           s[1] = t[1], s[2] = t[2]
    PROVE  s = t
<1>1. DOMAIN s = 1 .. 2 /\ DOMAIN t = 1 .. 2
  OBVIOUS
<1>2. \A i \in 1 .. 2 : s[i] = t[i]
  OBVIOUS
<1>3. QED  BY <1>1, <1>2

LEMMA NothingPublished ==
    ASSUME Unpublished(directory)
    PROVE  /\ LabTable = NULL
           /\ \A n : LET d == Installed(directory, Lab, n) IN d \in {<<Entry(n)>>, <<Acpi, Entry(n)>>}
<1>1. /\ Len(directory) \in Nat
      /\ \A j \in 1 .. Len(directory) : directory[j].guid # Lab
  BY DEF Unpublished, Acpi, Acpi20, Lab
<1>2. SelectInSeq(directory, LAMBDA entry : entry.guid = Lab) = 0
  BY <1>1, LookupNone
<1>3. LabTable = NULL
  BY <1>2 DEF LabTable, FindConfigurationTable
<1>4. \A n : Installed(directory, Lab, n) = Append(directory, Entry(n))
  BY <1>2 DEF Installed, Entry
<1>5. \A n : Append(directory, Entry(n)) \in {<<Entry(n)>>, <<Acpi, Entry(n)>>}
  <2>1. ASSUME NEW e PROVE Append(<<>>, e) = <<e>>
    <3>1. <<>> \in Seq({e}) /\ Len(<<>>) = 0
      OBVIOUS
    <3>2. QED  BY <3>1, SMT
  <2>2. ASSUME NEW e PROVE Append(<<Acpi>>, e) = <<Acpi, e>>
    <3>1. <<Acpi>> \in Seq({Acpi, e}) /\ Len(<<Acpi>>) = 1 /\ <<Acpi>>[1] = Acpi
      OBVIOUS
    <3>2. <<Acpi, e>> \in Seq({Acpi, e}) /\ Len(<<Acpi, e>>) = 2
          /\ <<Acpi, e>>[1] = Acpi /\ <<Acpi, e>>[2] = e
      OBVIOUS
    <3>3. /\ Append(<<Acpi>>, e) \in Seq({Acpi, e}) /\ Len(Append(<<Acpi>>, e)) = 2
          /\ Append(<<Acpi>>, e)[1] = Acpi /\ Append(<<Acpi>>, e)[2] = e
      BY <3>1
    <3>4. QED  BY <3>2, <3>3, SameSequence
  <2>3. QED  BY <2>1, <2>2 DEF Unpublished
<1>6. QED  BY <1>3, <1>4, <1>5

LEMMA TableOfImage ==
    ASSUME NEW n \in Nat, Published(directory, n)
    PROVE  LabTable = n /\ LabTable # NULL
<1>1. CASE directory = <<Entry(n)>>
  <2>1. Len(directory) \in Nat /\ { j \in 1 .. Len(directory) : directory[j].guid = Lab } = {1}
    BY <1>1 DEF Entry
  <2>2. SelectInSeq(directory, LAMBDA entry : entry.guid = Lab) = 1
    BY <2>1, Lookup
  <2>3. QED  BY <1>1, <2>2 DEF LabTable, FindConfigurationTable, Entry
<1>2. CASE directory = <<Acpi, Entry(n)>>
  <2>1. Len(directory) \in Nat /\ { j \in 1 .. Len(directory) : directory[j].guid = Lab } = {2}
    BY <1>2 DEF Entry, Acpi, Acpi20, Lab
  <2>2. SelectInSeq(directory, LAMBDA entry : entry.guid = Lab) = 2
    BY <2>1, Lookup
  <2>3. QED  BY <1>2, <2>2 DEF LabTable, FindConfigurationTable, Entry
<1>3. QED  BY <1>1, <1>2 DEF Published

\* The entries of every directory there can be.
LEMMA DirectoryTyped ==
    ASSUME NEW d, NEW n \in 0 .. MaxImages,
           d \in {<<>>, <<Acpi>>, <<Entry(n)>>, <<Acpi, Entry(n)>>}
    PROVE  \A i \in DOMAIN d : d[i] \in [guid : {Acpi20, Lab}, table : 0 .. MaxImages]
<1>1. Acpi \in [guid : {Acpi20, Lab}, table : 0 .. MaxImages]
  BY DEF Acpi
<1>2. Entry(n) \in [guid : {Acpi20, Lab}, table : 0 .. MaxImages]
  BY DEF Entry
<1> HIDE DEF Acpi, Entry
<1>3. QED  BY <1>1, <1>2

\* What running the entry point of image n leaves, if it succeeds and if not.
LEMMA EntryPointPublishes ==
    ASSUME PTypeOK, Unpublished(directory), NEW n \in 1 .. MaxImages, NEW st,
           FirmwareProducerDxeEntryPoint(n, st)
    PROVE  /\ IF st = "EFI_SUCCESS" THEN Published(directory', n) ELSE Unpublished(directory')
           /\ \A i \in DOMAIN directory' :
                 directory'[i] \in [guid : {Acpi20, Lab}, table : 0 .. MaxImages]
<1>1. CASE st = "EFI_SUCCESS"
  <2>1. directory' \in {<<Entry(n)>>, <<Acpi, Entry(n)>>}
    BY <1>1, NothingPublished DEF FirmwareProducerDxeEntryPoint
  <2>2. QED  BY <1>1, <2>1, DirectoryTyped DEF Published
<1>2. CASE st # "EFI_SUCCESS"
  <2>1. directory' = directory
    BY <1>2 DEF FirmwareProducerDxeEntryPoint
  <2>2. QED  BY <1>2, <2>1 DEF Unpublished, PTypeOK
<1>3. QED  BY <1>1, <1>2

LEMMA PInitEstablishes == PInit => PInv
<1> SUFFICES ASSUME PInit PROVE PInv
  OBVIOUS
<1>1. Unpublished(directory)
  BY DEF PInit, Unpublished, Acpi
<1>2. \A i \in DOMAIN directory :
        directory[i] \in [guid : {Acpi20, Lab}, table : 0 .. MaxImages]
  <2>1. directory \in {<<>>, <<Acpi>>, <<Entry(0)>>, <<Acpi, Entry(0)>>} /\ 0 \in 0 .. MaxImages
    BY <1>1 DEF Unpublished
  <2>2. QED  BY <2>1, DirectoryTyped
<1>3. PTypeOK
  <2>1. 0 \in 0 .. MaxImages /\ 0 \in 0 .. MaxStarts
    OBVIOUS
  <2>2. QED  BY <1>2, <2>1 DEF PInit, PTypeOK
<1>4. QED  BY <1>1, <1>3 DEF PInit, PInv, PathBalanced

LEMMA DispatchDxePreserves == PInv /\ DispatchDxe => PInv'
<1> SUFFICES ASSUME PInv, DispatchDxe PROVE PInv'
  OBVIOUS
<1>1. /\ ppc = "dxe" /\ ppc' = "boot" /\ UNCHANGED <<starts, pstatus, image, devicePath>>
      /\ PTypeOK /\ PathBalanced /\ Unpublished(directory) /\ images = {}
  BY DEF DispatchDxe, PInv
<1>2. CASE UNCHANGED <<directory, images, loaded>>
  BY <1>1, <1>2 DEF PInv, PTypeOK, PathBalanced, Unpublished
<1>3. CASE /\ loaded < MaxImages /\ loaded' = loaded + 1
           /\ \E st \in StartResults :
                 /\ FirmwareProducerDxeEntryPoint(loaded', st)
                 /\ images' = IF st = "EFI_SUCCESS" THEN images \cup {loaded'} ELSE images
  <2>1. PICK st \in StartResults :
          /\ FirmwareProducerDxeEntryPoint(loaded', st)
          /\ images' = IF st = "EFI_SUCCESS" THEN images \cup {loaded'} ELSE images
    BY <1>3
  <2>2. loaded' \in 1 .. MaxImages /\ loaded' = loaded + 1 /\ loaded \in Nat
    BY <1>1, <1>3 DEF PTypeOK
  <2>3. /\ IF st = "EFI_SUCCESS" THEN Published(directory', loaded') ELSE Unpublished(directory')
        /\ \A i \in DOMAIN directory' :
              directory'[i] \in [guid : {Acpi20, Lab}, table : 0 .. MaxImages]
    BY <1>1, <2>1, <2>2, EntryPointPublishes DEF Published
  <2>4. PTypeOK' /\ PathBalanced'
    BY <1>1, <2>1, <2>2, <2>3 DEF PTypeOK, PathBalanced
  <2>5. CASE st = "EFI_SUCCESS"
    <3>1. Published(directory', loaded') /\ images' = {loaded'} /\ loaded' \in 1 .. loaded'
      BY <1>1, <2>1, <2>2, <2>3, <2>5
    <3>2. QED  BY <1>1, <2>4, <3>1 DEF PInv, Published
  <2>6. CASE st # "EFI_SUCCESS"
    BY <1>1, <2>1, <2>3, <2>4, <2>6 DEF PInv
  <2>7. QED  BY <2>5, <2>6
<1>4. QED  BY <1>2, <1>3 DEF DispatchDxe

\* The program loads the driver only if nobody has published.
LEMMA StartProgramPreserves == PInv /\ StartProgram => PInv'
<1> SUFFICES ASSUME PInv, StartProgram PROVE PInv'
  OBVIOUS
<1>1. /\ ppc = "boot" /\ ppc' = (IF LabTable # NULL THEN "ready" ELSE "locate")
      /\ starts < MaxStarts /\ starts' = starts + 1 /\ pstatus' = "EFI_SUCCESS"
      /\ UNCHANGED <<directory, images, loaded, image, devicePath>>
      /\ PTypeOK /\ PathBalanced
  BY DEF StartProgram, PInv
<1>2. PTypeOK' /\ PathBalanced'
  BY <1>1 DEF PTypeOK, PathBalanced
<1>3. CASE Unpublished(directory) /\ images = {}
  <2>1. ppc' = "locate"
    BY <1>1, <1>3, NothingPublished
  <2>2. QED  BY <1>1, <1>2, <1>3, <2>1 DEF PInv, Unpublished
<1>4. CASE \E n \in 1 .. loaded : Published(directory, n) /\ images = {n}
  <2>1. PICK n \in 1 .. loaded : Published(directory, n) /\ images = {n}
    BY <1>4
  <2>2. n \in Nat
    BY <1>1 DEF PTypeOK
  <2>3. ppc' = "ready"
    BY <1>1, <2>1, <2>2, TableOfImage
  <2>4. n \in 1 .. loaded' /\ Published(directory', n) /\ images' = {n}
    BY <1>1, <2>1 DEF Published
  <2>5. QED  BY <1>2, <2>3, <2>4 DEF PInv
<1>5. QED  BY <1>1, <1>3, <1>4 DEF PInv

LEMMA LoadStepPreserves == PInv /\ LoadStep => PInv'
<1> SUFFICES ASSUME PInv, LoadStep PROVE PInv'
  OBVIOUS
<1>1. /\ ppc \in Loading /\ PTypeOK /\ PathBalanced /\ Unpublished(directory)
      /\ images = IF ppc = "start" THEN {image} ELSE {}
      /\ ppc = "start" => image \in 1 .. loaded
      /\ starts' = starts
  BY DEF PInv, LoadStep, BuildDevicePath, LoadImage, StartProducer, Loading
<1>2. loaded \in Nat /\ loaded <= MaxImages
  BY <1>1 DEF PTypeOK
<1>3. CASE BuildDevicePath
  <2>1. /\ ppc = "locate" /\ UNCHANGED <<directory, images, loaded, starts, image>>
        /\ \/ ppc' = "ready" /\ pstatus' # "EFI_SUCCESS" /\ devicePath' = FALSE
           \/ ppc' = "load" /\ pstatus' = pstatus /\ devicePath' = TRUE
    BY <1>3 DEF BuildDevicePath
  <2>2. PTypeOK' /\ PathBalanced'
    BY <1>1, <2>1 DEF PTypeOK, PathBalanced
  <2>3. QED  BY <1>1, <2>1, <2>2 DEF PInv, Unpublished
<1>4. CASE LoadImage
  <2>1. ppc = "load" /\ UNCHANGED <<directory, starts>>
    BY <1>4 DEF LoadImage
  <2>2. CASE /\ pstatus' # "EFI_SUCCESS" /\ ppc' = "ready" /\ devicePath' = FALSE
             /\ UNCHANGED <<images, loaded, image>>
    <3>1. PTypeOK' /\ PathBalanced'
      BY <1>1, <2>1, <2>2 DEF PTypeOK, PathBalanced
    <3>2. QED  BY <1>1, <2>1, <2>2, <3>1 DEF PInv, Unpublished
  <2>3. CASE /\ loaded < MaxImages /\ loaded' = loaded + 1
             /\ images' = images \cup {loaded'} /\ image' = loaded' /\ ppc' = "start"
             /\ UNCHANGED <<pstatus, devicePath>>
    <3>1. images' = {loaded'} /\ image' \in 1 .. loaded' /\ loaded' \in 0 .. MaxImages
      BY <1>1, <1>2, <2>1, <2>3
    <3>2. PTypeOK' /\ PathBalanced'
      BY <1>1, <2>1, <2>3, <3>1 DEF PTypeOK, PathBalanced
    <3>3. QED  BY <1>1, <2>1, <2>3, <3>1, <3>2 DEF PInv, Unpublished
  <2>4. QED  BY <1>4, <2>2, <2>3 DEF LoadImage
<1>5. CASE StartProducer
  <2>1. PICK st \in StartResults : StartImage(image, st) /\ pstatus' = st
    BY <1>5 DEF StartProducer
  <2>2. /\ ppc = "start" /\ ppc' = "ready" /\ image' = NULL /\ devicePath' = FALSE
        /\ loaded' = loaded /\ starts' = starts
        /\ image \in 1 .. loaded /\ image \in 1 .. MaxImages /\ images = {image}
    BY <1>1, <1>2, <1>5 DEF StartProducer
  <2>3. /\ IF st = "EFI_SUCCESS" THEN Published(directory', image) ELSE Unpublished(directory')
        /\ \A i \in DOMAIN directory' :
              directory'[i] \in [guid : {Acpi20, Lab}, table : 0 .. MaxImages]
    BY <1>1, <2>1, <2>2, EntryPointPublishes DEF StartImage
  <2>4. images' = IF st = "EFI_SUCCESS" THEN {image} ELSE {}
    BY <2>1, <2>2 DEF StartImage
  <2>5. PTypeOK' /\ PathBalanced'
    BY <1>1, <2>2, <2>3, <2>4 DEF PTypeOK, PathBalanced
  <2>6. QED  BY <2>1, <2>2, <2>3, <2>4, <2>5 DEF PInv
<1>6. QED  BY <1>3, <1>4, <1>5 DEF LoadStep

LEMMA PNextPreserves == PInv /\ [PNext]_pvars => PInv'
<1> SUFFICES ASSUME PInv, [PNext]_pvars PROVE PInv'
  OBVIOUS
<1>1. CASE ReturnToBoot
  BY <1>1 DEF ReturnToBoot, PInv, PTypeOK, PathBalanced, Unpublished, Published
<1>2. CASE Finished \/ UNCHANGED pvars
  <2>1. UNCHANGED <<directory, images, loaded, starts, ppc, pstatus, image, devicePath>>
    BY <1>2 DEF Finished, pvars
  <2>2. PTypeOK' /\ PathBalanced'
    BY <2>1 DEF PInv, PTypeOK, PathBalanced
  <2>3. QED  BY <2>1, <2>2 DEF PInv
<1>3. QED
  BY <1>1, <1>2, DispatchDxePreserves, StartProgramPreserves, LoadStepPreserves DEF PNext

LEMMA PInvariant == PSpec => []PInv
BY PInitEstablishes, PNextPreserves, PTL DEF PSpec

\* Who has published, seen by the lookup.
LEMMA PublishedIsFound ==
    ASSUME PInv
    PROVE  \/ /\ LabTable = NULL
              /\ images = IF ppc = "start" THEN {image} ELSE {}
              /\ ppc = "ready" => pstatus # "EFI_SUCCESS"
           \/ LabTable # NULL /\ images = {LabTable} /\ ppc \in {"boot", "ready"}
<1>1. CASE Unpublished(directory)
  BY <1>1, NothingPublished, TableOfImage DEF PInv, PTypeOK
<1>2. CASE \E n \in 1 .. loaded : /\ Published(directory, n) /\ images = {n}
                                 /\ ppc \in {"boot", "ready"}
  BY <1>2, TableOfImage DEF PInv, PTypeOK
<1>3. QED  BY <1>1, <1>2 DEF PInv

\* What consumers find lies in an image that is resident; the table has one
\* producer; the loader tells the truth, and frees the device path.
LEMMA ProducerInvariants == PInv => OneLiveProducer
<1> SUFFICES ASSUME PInv PROVE OneLiveProducer
  OBVIOUS
<1>1. NoDanglingTable
  BY PublishedIsFound DEF NoDanglingTable
<1>2. OneProducer
  <2>1. \A x : Cardinality({x}) = 1
    BY FS_Singleton
  <2>2. Cardinality({}) = 0
    BY FS_EmptySet
  <2>3. QED  BY <2>1, <2>2, PublishedIsFound DEF OneProducer
<1>3. SuccessMeansPublished
  BY PublishedIsFound DEF SuccessMeansPublished
<1>4. PathBalanced
  BY DEF PInv
<1>5. QED  BY <1>1, <1>2, <1>3, <1>4 DEF OneLiveProducer

-----------------------------------------------------------------------------
\* The directory, the images and the loader's locals keep their types for any
\* number of starts.
THEOREM ProducerTypeCorrect == PSpec => []PTypeOK
<1>1. PInv => PTypeOK  BY DEF PInv
<1>2. QED  BY <1>1, PInvariant, PTL

\* However often the program is started, the table of the lab has one producer,
\* and it is in memory; what the loader returns is so.
THEOREM ProducerLives == PSpec => []OneLiveProducer
BY ProducerInvariants, PInvariant, PTL

-----------------------------------------------------------------------------
(***************************************************************************)
(* The composition.                                                        *)
(***************************************************************************)

\* UefiMain is where its parts are: the producer's loader runs before anything
\* else, a document is composed and written from a handoff that was built, and
\* the volume is busy only while a document is being written.
Placed ==
    /\ pc \in {"firmware", "producer", "handoff", "json", "compose", "write", "snapshot",
              "release", "return"}
    /\ CASE pc = "firmware" -> ppc \in {"dxe", "boot"}
         [] pc = "producer" -> ppc \in Loading \cup {"ready"}
         [] OTHER           -> ppc = "ready"
    /\ pc \in {"firmware", "producer"} => bpc = "start"
    /\ pc = "handoff" => bpc \in {"query", "allocate", "capture"}
    /\ pc \in {"json", "compose", "write"} => bpc = "built"
    /\ pc \in {"snapshot", "release"} =>
          bpc = "built" \/ (bpc = "failed" /\ status # "EFI_SUCCESS")
    /\ pc = "return" =>
          IF status = "EFI_SUCCESS" THEN bpc = "freed" ELSE bpc \in {"built", "failed"}
    /\ wpc # "idle" <=> pc = "write"

\* The pool of this start: a captured map until it is freed, and the JSON buffer
\* exactly while the document is composed and written.
Pooled == /\ pool \subseteq {"MemoryMap", "Json"}
          /\ "MemoryMap" \in pool <=> bpc \in {"capture", "built"}
          /\ "Json" \in pool <=> pc \in {"compose", "write"}

\* What was reported: one entry for each run of the writer, and while it writes,
\* the entry says what the handoff and the directory say.
Reported == /\ reports \in Seq([map : Nat, lab : Nat \cup {NULL}]) /\ Len(reports) = run
            /\ pc = "write" => reports[run] = View

FInv == PInv /\ HInv /\ WInv /\ Placed /\ Pooled /\ Reported

-----------------------------------------------------------------------------
\* What a step of the composition is to the report file: a step of ReportFile,
\* or nothing.
LEMMA FileStep == [Next]_vars => [WNext]_wvars
<1> SUFFICES ASSUME [Next]_vars PROVE [WNext]_wvars
  OBVIOUS
<1> USE DEF WNext, wvars, report
<1>1. CASE Dispatch \/ Start \/ EventNotified
  BY <1>1 DEF Dispatch, Start, EventNotified
<1>2. CASE LoadProducer \/ BuildHandoff \/ PrintSnapshot \/ Release \/ Return
  BY <1>2 DEF LoadProducer, BuildHandoff, PrintSnapshot, Release, Return
<1>3. CASE AllocateJson \/ ComposeJson  BY <1>3 DEF AllocateJson, ComposeJson
<1>4. CASE WriteJson  BY <1>4 DEF WriteJson
<1>5. CASE FinishJson  BY <1>5 DEF FinishJson
<1>6. CASE MachineKilled  BY <1>6 DEF MachineKilled
<1>7. CASE UNCHANGED vars  BY <1>7 DEF vars
<1>8. QED
  BY <1>1, <1>2, <1>3, <1>4, <1>5, <1>6, <1>7 DEF Next, UefiMain

\* A kill leaves the producer as the machine found it, but for the counters.
LEMMA KillRestartsProducer ==
    ASSUME PInv, MachineKilled
    PROVE  PInv'
<1>1. /\ directory' = <<Acpi>> /\ images' = {} /\ ppc' = "dxe" /\ image' = NULL
      /\ devicePath' = FALSE /\ UNCHANGED <<loaded, starts>>
  BY DEF MachineKilled, StockDirectory, Acpi
<1>2. \A i \in DOMAIN directory' :
        directory'[i] \in [guid : {Acpi20, Lab}, table : 0 .. MaxImages]
  <2>1. 0 \in 0 .. MaxImages
    OBVIOUS
  <2>2. QED  BY <1>1, <2>1, DirectoryTyped
<1>3. Unpublished(directory')
  BY <1>1 DEF Unpublished
<1>4. QED  BY <1>1, <1>2, <1>3 DEF PInv, PTypeOK, PathBalanced

\* What a step of the composition is to the producer: a step of Producer, a
\* restart from the stock state, or nothing.
LEMMA ProducerStep == PInv /\ [Next]_vars => PInv'
<1> SUFFICES ASSUME PInv, [Next]_vars PROVE PInv'
  OBVIOUS
<1>1. CASE MachineKilled
  BY <1>1, KillRestartsProducer
<1>2. CASE [PNext]_pvars
  BY <1>2, PNextPreserves
<1> USE DEF PNext, pvars, producer
<1>3. CASE Dispatch \/ Start \/ LoadProducer \/ Return
  <2>1. PNext
    BY <1>3 DEF Dispatch, Start, LoadProducer, Return
  <2>2. QED  BY <1>2, <2>1
<1>4. CASE EventNotified \/ BuildHandoff \/ Release
  <2>1. UNCHANGED pvars
    BY <1>4 DEF EventNotified, FirmwareActivity, BuildHandoff, Build, StoreRoots, SizeQuery,
       AllocateMap, Capture, Release, FreeBootHandoffInfo
  <2>2. QED  BY <1>2, <2>1
<1>5. CASE AllocateJson \/ ComposeJson \/ WriteJson \/ FinishJson \/ PrintSnapshot
           \/ UNCHANGED vars
  <2>1. UNCHANGED pvars
    BY <1>5 DEF AllocateJson, ComposeJson, WriteJson, FinishJson, PrintSnapshot, vars
  <2>2. QED  BY <1>2, <2>1
<1>6. QED  BY <1>1, <1>3, <1>4, <1>5 DEF Next, UefiMain

\* A handoff object that is cleared, over whatever map the firmware has.
LEMMA ClearedHandoff ==
    ASSUME maps' \in Seq(1 .. MaxDescriptors), maps' # <<>>, room' \in Nat,
           mapKey' \in 0 .. Len(maps'),
           bootInfo' = ZeroInfo, bpc' = "start", bstatus' = "EFI_SUCCESS"
    PROVE  HInv'
<1>1. Len(maps') \in Nat /\ MaxDescriptors \in Nat
  OBVIOUS
<1>2. QED  BY <1>1 DEF HInv, HTypeOK, Coherent, ErrorMeansZero, ZeroInfo, Current

\* The first map after a start of the machine.
LEMMA FirstMap ==
    ASSUME NEW n \in 1 .. MaxDescriptors, NEW history, history = <<n>>
    PROVE  history \in Seq(1 .. MaxDescriptors) /\ history # <<>> /\ Len(history) = 1
OBVIOUS

\* What a step of the composition is to the handoff, but for its buffer.
LEMMA HandoffStep == HInv /\ [Next]_vars => HInv'
<1> SUFFICES ASSUME HInv, [Next]_vars PROVE HInv'
  OBVIOUS
<1>1. CASE UNCHANGED <<maps, room, mapKey, bootInfo, bpc, bstatus>>
  BY <1>1 DEF HInv, HTypeOK, Coherent, ErrorMeansZero, Current, Descriptors, Outgrown, ZeroInfo
<1>2. CASE EventNotified
  BY <1>2, ActivityPreserves DEF EventNotified
<1>3. CASE BuildHandoff
  BY <1>3, HBuildPreserves DEF BuildHandoff
<1>4. CASE Release
  <2>1. FreeBootHandoffInfo \/ UNCHANGED handoff
    BY <1>4 DEF Release
  <2>2. QED  BY <1>1, <2>1, FreePreserves DEF handoff
<1>5. CASE Return
  <2>1. /\ (bootInfo = ZeroInfo /\ bpc = "start" /\ bstatus = "EFI_SUCCESS")'
        /\ UNCHANGED <<maps, room, mapKey>>
    BY <1>5 DEF Return
  <2>2. /\ maps' \in Seq(1 .. MaxDescriptors) /\ maps' # <<>> /\ room' \in Nat
        /\ mapKey' \in 0 .. Len(maps')
    BY <2>1 DEF HInv, HTypeOK, Current
  <2>3. QED  BY <2>1, <2>2, ClearedHandoff
<1>6. CASE MachineKilled
  <2>1. PICK n \in 1 .. MaxDescriptors : maps' = <<n>>
    BY <1>6 DEF MachineKilled
  <2>2. (room = 0 /\ mapKey = 0 /\ bootInfo = ZeroInfo /\ bpc = "start"
         /\ bstatus = "EFI_SUCCESS")'
    BY <1>6 DEF MachineKilled
  <2>3. /\ maps' \in Seq(1 .. MaxDescriptors) /\ maps' # <<>> /\ room' \in Nat
        /\ mapKey' \in 0 .. Len(maps')
    BY <2>1, <2>2, FirstMap
  <2>4. QED  BY <2>2, <2>3, ClearedHandoff
<1>7. CASE \/ Dispatch \/ Start \/ LoadProducer \/ WriteJson \/ PrintSnapshot
           \/ AllocateJson \/ ComposeJson \/ FinishJson \/ UNCHANGED vars
  BY <1>1, <1>7 DEF Dispatch, Start, LoadProducer, WriteJson, PrintSnapshot, AllocateJson,
     ComposeJson, FinishJson, vars, handoff
<1>8. QED
  BY <1>2, <1>3, <1>4, <1>5, <1>6, <1>7 DEF Next, UefiMain

\* Where UefiMain goes, and what its parts do meanwhile.
LEMMA PlacedStep == Placed /\ HInv /\ [Next]_vars => Placed'
<1> SUFFICES ASSUME Placed, HInv, HInv', [Next]_vars PROVE Placed'
  BY HandoffStep
<1> USE DEF Placed, Loading
<1>1. CASE Dispatch
  BY <1>1 DEF Dispatch, DispatchDxe, handoff, report, main
<1>2. CASE Start
  BY <1>2 DEF Start, StartProgram, handoff, report
<1>3. CASE EventNotified
  BY <1>3 DEF EventNotified, FirmwareActivity, producer, report, main
<1>4. CASE LoadProducer
  BY <1>4 DEF LoadProducer, LoadStep, BuildDevicePath, LoadImage, StartProducer, handoff,
     report, main
<1>5. CASE BuildHandoff
  <2>1. /\ pc \in {"producer", "handoff"} /\ ppc = "ready" /\ wpc = "idle"
        /\ ppc' = ppc /\ wpc' = wpc /\ status' = bstatus'
        /\ pc' = CASE bpc' = "built"  -> "json"
                   [] bpc' = "failed" -> "snapshot"
                   [] OTHER           -> "handoff"
    BY <1>5 DEF BuildHandoff, producer, report
  <2>2. bpc' \in {"query", "allocate", "capture", "built", "failed"}
    BY <1>5 DEF BuildHandoff, Build, StoreRoots, SizeQuery, AllocateMap, Capture, Fail
  <2>3. bpc' = "failed" => status' # "EFI_SUCCESS"
    BY <2>1 DEF HInv
  <2>4. QED  BY <2>1, <2>2, <2>3
<1>6. CASE AllocateJson \/ ComposeJson
  BY <1>6 DEF AllocateJson, ComposeJson, BeginWrite, Goto, producer, report
<1>7. CASE WriteJson
  <2>1. wpc' # "idle"
    BY <1>7 DEF WriteJson, WriteStep, Goto, LocateVolume, OpenEfi, OpenLab, CloseRoot,
       OpenExisting, DeleteExisting, CreateReport, WriteReport, CloseFile, CloseDir
  <2>2. QED  BY <1>7, <2>1 DEF WriteJson, producer, handoff, main
<1>8. CASE FinishJson
  BY <1>8 DEF FinishJson, ReturnToFirmware, Goto, producer
<1>9. CASE PrintSnapshot
  BY <1>9 DEF PrintSnapshot, producer, handoff, report
<1>10. CASE Release
  BY <1>10 DEF Release, FreeBootHandoffInfo, producer, handoff, report
<1>11. CASE Return
  BY <1>11 DEF Return, ReturnToBoot, report
<1>12. CASE MachineKilled
  <2>1. wpc' = "idle"
    BY <1>12 DEF MachineKilled, Killed, Goto, report
  <2>2. QED  BY <1>12, <2>1 DEF MachineKilled
<1>13. CASE UNCHANGED vars
  BY <1>13 DEF vars, producer, handoff, report, main
<1>14. QED
  BY <1>1, <1>2, <1>3, <1>4, <1>5, <1>6, <1>7, <1>8, <1>9, <1>10, <1>11, <1>12, <1>13
     DEF Next, UefiMain

\* Who is in the pool.
LEMMA PooledStep == HInv /\ Placed /\ Pooled /\ [Next]_vars => Pooled'
<1> SUFFICES ASSUME HInv, Placed, Pooled, [Next]_vars PROVE Pooled'
  OBVIOUS
<1>11. bpc = "built" => bootInfo.MemoryMap
  BY DEF HInv
<1> USE DEF Pooled
<1>1. CASE UNCHANGED <<pool, bpc, pc>>
  BY <1>1
<1>2. CASE Dispatch \/ WriteJson \/ LoadProducer \/ EventNotified \/ UNCHANGED vars
  BY <1>1, <1>2 DEF Dispatch, WriteJson, LoadProducer, EventNotified, FirmwareActivity,
     vars, handoff, main
<1>3. CASE Start \/ PrintSnapshot
  BY <1>3 DEF Start, PrintSnapshot, handoff, Placed
<1>4. CASE BuildHandoff
  <2>1. pc \notin {"compose", "write"} /\ pc' \notin {"compose", "write"}
    BY <1>4 DEF BuildHandoff
  <2>2. CASE StoreRoots \/ SizeQuery
    BY <2>1, <2>2 DEF StoreRoots, SizeQuery, Fail
  <2>3. CASE AllocateMap
    BY <2>1, <2>3 DEF AllocateMap, Fail
  <2>4. CASE Capture
    BY <2>1, <2>4 DEF Capture, Fail
  <2>5. QED  BY <1>4, <2>2, <2>3, <2>4 DEF BuildHandoff, Build
<1>5. CASE AllocateJson \/ ComposeJson
  BY <1>5 DEF AllocateJson, ComposeJson
<1>6. CASE FinishJson
  BY <1>6 DEF FinishJson
<1>7. CASE Release
  BY <1>7, <1>11 DEF Release, FreeBootHandoffInfo, handoff, Placed
<1>8. CASE Return
  BY <1>8 DEF Return
<1>9. CASE MachineKilled
  BY <1>9 DEF MachineKilled
<1>10. QED
  BY <1>2, <1>3, <1>4, <1>5, <1>6, <1>7, <1>8, <1>9 DEF Next, UefiMain

\* What View is made of.
LEMMA ViewTyped == PInv /\ HInv => View \in [map : Nat, lab : Nat \cup {NULL}]
<1> SUFFICES ASSUME PInv, HInv PROVE View \in [map : Nat, lab : Nat \cup {NULL}]
  OBVIOUS
<1>1. bootInfo.MemoryMapKey \in Nat
  <2>1. Len(maps) \in Nat
    BY DEF HInv, HTypeOK
  <2>2. QED  BY <2>1 DEF HInv, HTypeOK, Current
<1>2. images \subseteq Nat
  BY DEF PInv, PTypeOK
<1>3. LabTable \in Nat \cup {NULL}
  BY <1>2, PublishedIsFound
<1>4. QED  BY <1>1, <1>3 DEF View, LabTable

\* The report of a run says what is in the handoff and the directory while it
\* is written.
LEMMA ReportedStep ==
    ASSUME PInv, HInv, WInv, Placed, Reported, [Next]_vars
    PROVE  Reported'
<1>1. /\ reports \in Seq([map : Nat, lab : Nat \cup {NULL}]) /\ Len(reports) = run
      /\ run \in Nat
  BY DEF Reported, WInv, WTypeOK
<1>2. CASE UNCHANGED <<reports, run>> /\ pc' # "write"
  BY <1>2 DEF Reported
<1>3. CASE UNCHANGED <<reports, run, directory, bootInfo, pc>>
  BY <1>3 DEF Reported, View
<1>4. CASE ComposeJson
  <2>1. CASE pc' = "snapshot" /\ UNCHANGED <<report, reports>>
    BY <1>2, <2>1 DEF report
  <2>2. CASE BeginWrite /\ reports' = Append(reports, View)
    <3>1. run' = run + 1 /\ UNCHANGED <<directory, bootInfo>>
      BY <1>4, <2>2 DEF BeginWrite, ComposeJson
    <3>2. View \in [map : Nat, lab : Nat \cup {NULL}] /\ View' = View
      BY <3>1, ViewTyped DEF View
    <3>3. /\ reports' \in Seq([map : Nat, lab : Nat \cup {NULL}]) /\ Len(reports') = run'
          /\ reports'[run'] = View
      BY <1>1, <2>2, <3>1, <3>2
    <3>4. QED  BY <3>2, <3>3 DEF Reported
  <2>3. QED  BY <1>4, <2>1, <2>2 DEF ComposeJson
<1>5. CASE WriteJson
  <2>1. UNCHANGED <<reports, directory, bootInfo, pc>>
    BY <1>5 DEF WriteJson, handoff, main
  <2>2. run' = run
    BY <1>5 DEF WriteJson, WriteStep, LocateVolume, OpenEfi, OpenLab, CloseRoot,
       OpenExisting, DeleteExisting, CreateReport, WriteReport, CloseFile, CloseDir
  <2>3. QED  BY <1>3, <2>1, <2>2
<1>6. CASE EventNotified \/ UNCHANGED vars
  BY <1>3, <1>6 DEF EventNotified, FirmwareActivity, report, main, vars, handoff
<1>7. CASE Dispatch \/ Start \/ LoadProducer \/ BuildHandoff \/ PrintSnapshot
           \/ Release \/ Return
  BY <1>2, <1>7 DEF Dispatch, Start, LoadProducer, BuildHandoff, PrintSnapshot, Release,
     Return, report, main, Placed
<1>8. CASE FinishJson
  BY <1>2, <1>8 DEF FinishJson, ReturnToFirmware
<1>9. CASE MachineKilled
  BY <1>2, <1>9 DEF MachineKilled, Killed, report
<1>10. CASE AllocateJson
  BY <1>2, <1>10 DEF AllocateJson, report
<1>11. QED
  BY <1>4, <1>5, <1>6, <1>7, <1>8, <1>9, <1>10 DEF Next, UefiMain

LEMMA InitEstablishes == Init => FInv
<1> SUFFICES ASSUME Init PROVE FInv
  OBVIOUS
<1>1. PInv
  <2>1. PInit  BY DEF Init, PInit, StockDirectory
  <2>2. QED  BY <2>1, PInitEstablishes
<1>2. HInv
  <2>1. PICK n \in 1 .. MaxDescriptors : maps = <<n>>
    BY DEF Init
  <2>2. maps \in Seq(1 .. MaxDescriptors) /\ maps # <<>> /\ Current = 1
    BY <2>1, FirstMap DEF Current
  <2>3. MaxDescriptors \in Nat
    OBVIOUS
  <2>4. QED
    BY <2>2, <2>3 DEF Init, HInv, HTypeOK, Coherent, ErrorMeansZero, ZeroInfo
<1>3. WInv
  BY WInitEstablishes DEF Init
<1>4. Placed /\ Pooled
  BY DEF Init, WInit, Placed, Pooled
<1>5. Reported
  BY DEF Init, WInit, Reported
<1>6. QED  BY <1>1, <1>2, <1>3, <1>4, <1>5 DEF FInv

LEMMA FStepPreserves == FInv /\ [Next]_vars => FInv'
<1> SUFFICES ASSUME FInv, [Next]_vars PROVE FInv'
  OBVIOUS
<1>1. PInv' /\ HInv' /\ Placed' /\ Pooled'
  BY ProducerStep, HandoffStep, PlacedStep, PooledStep DEF FInv
<1>2. WInv'
  BY FileStep, WStepPreserves DEF FInv
<1>3. Reported'
  BY ReportedStep DEF FInv
<1>4. QED  BY <1>1, <1>2, <1>3 DEF FInv

LEMMA FInvariant == Spec => []FInv
BY InitEstablishes, FStepPreserves, PTL DEF Spec

-----------------------------------------------------------------------------
\* The boot application writes its report as ReportFile does: one call after the
\* other, whatever the firmware and the other parts of the program do.
THEOREM WritesAsReportFile == Spec => WSpec
<1>1. Init => WInit  BY DEF Init
<1>2. QED  BY <1>1, FileStep, PTL DEF Spec, WSpec

\* So the handles of the boot volume are balanced in the whole program.
THEOREM ProgramBalancesHandles == Spec => []HandleDiscipline
BY WritesAsReportFile, HandlesBalanced, PTL

\* And the file on the volume is one run's, whatever was killed when.
THEOREM ProgramsFileIsOneRuns ==
    ASSUME ~CleanupMayFail, MaxRuns # 0
    PROVE  Spec => []FileIsOneRuns
BY WritesAsReportFile, OneRunsFile, PTL

\* Through kills, restarts of the machine and repeated starts of the program, the
\* lab's table has one producer, in memory, and the loader says so.
THEOREM ProducerLivesThroughout == Spec => []OneLiveProducer
<1>1. FInv => OneLiveProducer
  BY ProducerInvariants DEF FInv
<1>2. QED  BY <1>1, FInvariant, PTL

\* The handoff describes one moment of the firmware in every start.
THEOREM ProgramsSnapshotCoherent == Spec => []Coherent
<1>1. FInv => Coherent  BY DEF FInv, HInv
<1>2. QED  BY <1>1, FInvariant, PTL

\* The captured map is there whenever the console or the report reads it; that an
\* earlier start of the program left a buffer of its own behind does not count.
THEOREM NothingFreedIsUsed == Spec => []NoUseAfterFree
<1>1. FInv => NoUseAfterFree
  BY DEF FInv, HInv, Placed, Pooled, NoUseAfterFree
<1>2. QED  BY <1>1, FInvariant, PTL

\* UefiMain gives back what it took, on every one of its ways to the return: the
\* pool is empty and no pointer is left, but for the map of a handoff whose report
\* failed.
THEOREM EverythingGivenBack == Spec => []GivesBack
<1>1. FInv => GivesBack
  BY DEF FInv, HInv, ErrorMeansZero, WInv, HandleDiscipline, Needed, PInv, PathBalanced,
     Placed, Pooled, GivesBack
<1>2. QED  BY <1>1, FInvariant, PTL

\* What a report says of the lab's table is true of the images in memory.
THEOREM ReportedProducerLives == Spec => []ReportShowsProducer
<1>1. FInv => ReportShowsProducer
  <2> SUFFICES ASSUME FInv, pc = "write"
               PROVE  /\ reports[run].lab # NULL => reports[run].lab \in images
                      /\ pstatus = "EFI_SUCCESS" => reports[run].lab # NULL
    BY DEF ReportShowsProducer
  <2>1. reports[run].lab = LabTable /\ ppc = "ready"
    BY DEF FInv, Reported, Placed, View, LabTable
  <2>2. QED  BY <2>1, PublishedIsFound DEF FInv
<1>2. QED  BY <1>1, FInvariant, PTL

\* The slack does its work in the program too: a start is refused its map only
\* if the firmware's map outgrew the slack between the two calls of that start.
THEOREM SlackSufficesThroughout == Spec => SlackAbsorbs
<1>1. FInv /\ [Next]_vars => [Earned]_bvars
  <2> SUFFICES ASSUME FInv, [Next]_vars, Refused PROVE [Earned]_bvars
    BY DEF Earned
  <2>1. CASE BNext
    BY <2>1, RefusalEarned DEF FInv
  <2>2. BuildHandoff
    BY DEF Refused, Next, UefiMain, vars, Dispatch, Start, EventNotified, FirmwareActivity,
       LoadProducer, AllocateJson, ComposeJson, WriteJson, FinishJson, PrintSnapshot, Release, Return,
       FreeBootHandoffInfo, MachineKilled, handoff
  <2>3. QED  BY <2>1, <2>2 DEF BuildHandoff, BNext
<1>2. QED  BY <1>1, FInvariant, PTL DEF Spec, SlackAbsorbs, Earned, Refused

-----------------------------------------------------------------------------
(***************************************************************************)
(* The two views of the handoff.  Where the cleanup of an earlier report   *)
(* cannot fail, a status of EFI_SUCCESS at the end of the write stands for *)
(* a whole report of the captured map; the console shows that map or none, *)
(* and neither the file nor what it says changes until the program is      *)
(* started again.                                                          *)
(***************************************************************************)
Shown == console = Nothing \/ pc \in {"release", "return", "firmware"}

Matched == pc = "snapshot" /\ status = "EFI_SUCCESS" =>
              volume.data = Report(run) /\ reports[run].map = bootInfo.MemoryMapKey

SInv == FInv /\ CleanInv /\ Shown /\ Matched /\ SnapshotAgrees

\* A step that leaves the volume, the reports and the console alone, or clears
\* the console, keeps what the console and the report have in common.
LEMMA ViewsKept ==
    ASSUME SnapshotAgrees,
           console' = Nothing \/ UNCHANGED <<console, volume, size, run, reports>>
    PROVE  SnapshotAgrees'
BY DEF SnapshotAgrees, Nothing, Report

LEMMA SnapshotStep ==
    ASSUME ~CleanupMayFail
    PROVE  SInv /\ [Next]_vars => SInv'
<1> SUFFICES ASSUME SInv, [Next]_vars PROVE SInv'
  OBVIOUS
<1>1. FInv' /\ CleanInv'
  BY FStepPreserves, FileStep, CleanStep DEF SInv
<1>2. SnapshotAgrees /\ Placed
  BY DEF SInv, FInv
<1>3. ASSUME Shown', Matched', SnapshotAgrees' PROVE SInv'
  BY <1>1, <1>3 DEF SInv
<1> USE DEF Shown, Matched
<1>4. CASE Dispatch \/ EventNotified \/ LoadProducer \/ UNCHANGED vars
  <2>1. /\ UNCHANGED <<console, volume, size, run, reports, status, pc>>
        /\ bootInfo' = bootInfo
    BY <1>4 DEF Dispatch, EventNotified, FirmwareActivity, LoadProducer, vars, handoff, report, main
  <2>2. Shown' /\ Matched'
    BY <2>1 DEF SInv, Report
  <2>3. QED  BY <1>2, <1>3, <2>1, <2>2, ViewsKept
<1>5. CASE Start
  BY <1>2, <1>3, <1>5, ViewsKept DEF Start
<1>6. CASE BuildHandoff
  <2>1. console = Nothing /\ UNCHANGED console
    BY <1>6 DEF BuildHandoff, SInv
  <2>2. pc' = "snapshot" => status' # "EFI_SUCCESS"
    BY <1>1, <1>6 DEF BuildHandoff, FInv, HInv
  <2>3. QED  BY <1>2, <1>3, <2>1, <2>2, ViewsKept
<1>7. CASE AllocateJson \/ ComposeJson
  <2>1. console = Nothing /\ UNCHANGED console
    BY <1>7 DEF AllocateJson, ComposeJson, SInv
  <2>2. pc' = "snapshot" => status' # "EFI_SUCCESS"
    BY <1>7 DEF AllocateJson, ComposeJson
  <2>3. QED  BY <1>2, <1>3, <2>1, <2>2, ViewsKept
<1>8. CASE WriteJson
  <2>1. console = Nothing /\ UNCHANGED <<console, pc>> /\ pc = "write"
    BY <1>8 DEF WriteJson, SInv, main
  <2>2. QED  BY <1>2, <1>3, <2>1, ViewsKept
<1>9. CASE FinishJson
  <2>1. /\ pc = "write" /\ wpc = "done" /\ status' = wstatus
        /\ UNCHANGED <<volume, size, run, reports, console, bootInfo, directory>>
    BY <1>9 DEF FinishJson, ReturnToFirmware
  <2>2. console = Nothing
    BY <2>1 DEF SInv
  <2>3. wstatus = "EFI_SUCCESS" => volume.data = Report(run)
    BY <2>1 DEF SInv, CleanInv
  <2>4. reports[run].map = bootInfo.MemoryMapKey
    BY <2>1 DEF SInv, FInv, Reported, View
  <2>5. Matched'
    BY <2>1, <2>3, <2>4 DEF Report
  <2>6. QED  BY <1>2, <1>3, <2>1, <2>2, <2>5, ViewsKept
<1>10. CASE PrintSnapshot
  <2>1. /\ pc = "snapshot" /\ pc' = "release"
        /\ console' = IF status = "EFI_SUCCESS" /\ bootInfo.MemoryMap
                      THEN {bootInfo.MemoryMapKey} ELSE Nothing
        /\ UNCHANGED <<volume, size, run, reports>>
    BY <1>10 DEF PrintSnapshot, report
  <2>2. CASE status = "EFI_SUCCESS" /\ bootInfo.MemoryMap
    <3>1. volume.data = Report(run) /\ reports[run].map = bootInfo.MemoryMapKey
      BY <2>1, <2>2 DEF SInv
    <3>2. SnapshotAgrees'
      BY <2>1, <2>2, <3>1 DEF SnapshotAgrees, Report
    <3>3. QED  BY <1>3, <2>1, <3>2
  <2>3. CASE ~(status = "EFI_SUCCESS" /\ bootInfo.MemoryMap)
    BY <1>2, <1>3, <2>1, <2>3, ViewsKept
  <2>4. QED  BY <2>2, <2>3
<1>11. CASE Release \/ Return
  <2>1. /\ pc' \in {"return", "firmware"}
        /\ UNCHANGED <<console, volume, size, run, reports>>
    BY <1>11 DEF Release, Return, report
  <2>2. QED  BY <1>2, <1>3, <2>1, ViewsKept
<1>12. CASE MachineKilled
  <2>1. console' = Nothing /\ pc' = "firmware"
    BY <1>12 DEF MachineKilled
  <2>2. QED  BY <1>2, <1>3, <2>1, ViewsKept
<1>13. QED
  BY <1>4, <1>5, <1>6, <1>7, <1>8, <1>9, <1>10, <1>11, <1>12 DEF Next, UefiMain

\* The map on the console and the map in the report on the volume are one,
\* whatever was written, changed or killed between the capture and the end.
THEOREM ViewsAgree ==
    ASSUME ~CleanupMayFail
    PROVE  Spec => []SnapshotAgrees
<1>1. Init => SInv
  <2> SUFFICES ASSUME Init PROVE SInv
    OBVIOUS
  <2>1. CleanInv
    BY WInitEstablishes DEF Init, WInit, CleanInv
  <2>2. QED
    BY <2>1, InitEstablishes DEF Init, SInv, Shown, Matched, SnapshotAgrees, Nothing
<1>2. SInv => SnapshotAgrees
  BY DEF SInv
<1>3. QED  BY <1>1, <1>2, SnapshotStep, PTL DEF Spec
=============================================================================
