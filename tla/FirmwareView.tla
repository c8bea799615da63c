---------------------------- MODULE FirmwareView ----------------------------
(***************************************************************************)
(* One boot application and everything it goes through: UefiMain of        *)
(* FirmwareView.c composed with the producer of the lab table (Producer),  *)
(* the boot handoff (BootInfo) and the report on the boot volume           *)
(* (ReportFile).  WriteFirmwareViewJson enters with what JsonWriter shows  *)
(* of it: a whole document is handed on, or the call fails.                *)
(*                                                                         *)
(* The firmware's events run between any two steps, the virtual machine    *)
(* may be killed at any of them, and the program may be started again.     *)
(***************************************************************************)
EXTENDS Producer, BootInfo, ReportFile

\* The report is written at most once in a start.
ASSUME StartsAssumption == MaxRuns >= MaxStarts

VARIABLES pc,        \* where UefiMain is
          status,    \* Status of UefiMain
          console,   \* the map UefiMain printed in this start, if any
          reports    \* what the report of each run of the writer says

producer == <<images, loaded, starts, ppc, pstatus, image, devicePath>>
handoff  == <<maps, pool, room, mapKey, bootInfo, bpc, bstatus>>
report   == <<volume, handles, wpc, wstatus, run, size>>
main     == <<pc, status, console, reports>>
vars     == <<directory, producer, handoff, report, main>>

\* The memory maps printed on the console: none, or one.
Nothing == {}

StockDirectory == <<[guid |-> Acpi20, table |-> 0]>>

Init == /\ directory = StockDirectory
        /\ images = {} /\ loaded = 0 /\ starts = 0 /\ ppc = "dxe"
        /\ pstatus = "EFI_SUCCESS" /\ image = NULL /\ devicePath = FALSE
        /\ \E n \in 1 .. MaxDescriptors : maps = <<n>>
        /\ pool = {} /\ room = 0 /\ mapKey = 0
        /\ bootInfo = ZeroInfo /\ bpc = "start" /\ bstatus = "EFI_SUCCESS"
        /\ WInit /\ volume.efi
        /\ pc = "firmware" /\ status = "EFI_SUCCESS"
        /\ console = Nothing /\ reports = <<>>

-----------------------------------------------------------------------------
\* The firmware: DXE dispatch, then the boot manager starts the program, as
\* often as MaxStarts; event notifications at any time.
Dispatch == /\ pc = "firmware"
            /\ DispatchDxe
            /\ UNCHANGED <<handoff, report, main>>

Start == /\ pc = "firmware"
         /\ StartProgram
         /\ pc' = "producer"
         /\ console' = Nothing
         /\ UNCHANGED <<handoff, report, status, reports>>

EventNotified == /\ FirmwareActivity
                 /\ UNCHANGED <<producer, report, main>>

-----------------------------------------------------------------------------
\* LoadFirmwareProducerDriver, when the table was missing; UefiMain goes on
\* whatever its status.
LoadProducer == /\ pc = "producer"
                /\ LoadStep
                /\ UNCHANGED <<handoff, report, main>>

\* Defect: the report is written whatever the status of the handoff.
BuildHandoffUnchecked ==
    /\ pc \in {"producer", "handoff"} /\ ppc = "ready"
    /\ Build
    /\ status' = bstatus'
    /\ pc' = IF bpc' \in {"built", "failed"} THEN "json" ELSE "handoff"
    /\ UNCHANGED <<producer, report, console, reports>>

\* The tables are printed, the RSDP is looked up and BuildBootHandoffInfo runs;
\* its status is UefiMain's.
BuildHandoff ==
    /\ pc \in {"producer", "handoff"} /\ ppc = "ready"
    /\ Build
    /\ status' = bstatus'
    /\ pc' = CASE bpc' = "built"  -> "json"
               [] bpc' = "failed" -> "snapshot"
               [] OTHER           -> "handoff"
    /\ UNCHANGED <<producer, report, console, reports>>

\* What BuildFirmwareJson takes from the directory and the captured map.
View == [map |-> bootInfo.MemoryMapKey,
         lab |-> FindConfigurationTable(directory, Lab)]

\* WriteFirmwareViewJson: the buffer of the document is allocated or not.
AllocateJson ==
    /\ pc = "json"
    /\ \/ /\ status' = "EFI_OUT_OF_RESOURCES"
          /\ pc' = "snapshot"
          /\ UNCHANGED pool
       \/ /\ pool' = pool \cup {"Json"}
          /\ pc' = "compose"
          /\ UNCHANGED status
    /\ UNCHANGED <<directory, producer, maps, room, mapKey, bootInfo, bpc, bstatus,
                   report, console, reports>>

\* BuildFirmwareJson: a truncated document is given up with its buffer, a whole
\* one goes to the volume.
ComposeJson ==
    /\ pc = "compose"
    /\ \/ /\ status' = "EFI_BUFFER_TOO_SMALL"
          /\ pool' = pool \ {"Json"}
          /\ pc' = "snapshot"
          /\ UNCHANGED <<report, reports>>
       \/ /\ BeginWrite
          /\ reports' = Append(reports, View)
          /\ pc' = "write"
          /\ UNCHANGED <<pool, status>>
    /\ UNCHANGED <<directory, producer, maps, room, mapKey, bootInfo, bpc, bstatus, console>>

WriteJson == /\ pc = "write"
             /\ WriteStep
             /\ UNCHANGED <<directory, producer, handoff, main>>

\* WriteFirmwareViewJson frees its buffer and returns the volume's status,
\* which overwrites the status of the handoff.
FinishJson ==
    /\ pc = "write"
    /\ ReturnToFirmware
    /\ pool' = pool \ {"Json"}
    /\ status' = wstatus
    /\ pc' = "snapshot"
    /\ UNCHANGED <<directory, producer, maps, room, mapKey, bootInfo, bpc, bstatus,
                   console, reports>>

\* Defect: the console queries the firmware again (PrintMemoryMap).
PrintFreshMap ==
    /\ pc = "snapshot"
    /\ console' = IF status = "EFI_SUCCESS" THEN {Len(maps)} ELSE Nothing
    /\ pc' = "release"
    /\ UNCHANGED <<directory, producer, handoff, report, status, reports>>

\* PrintMemoryMapSnapshot of the captured buffer, after a success only.
PrintSnapshot ==
    /\ pc = "snapshot"
    /\ console' = IF status = "EFI_SUCCESS" /\ bootInfo.MemoryMap
                  THEN {bootInfo.MemoryMapKey} ELSE Nothing
    /\ pc' = "release"
    /\ UNCHANGED <<directory, producer, handoff, report, status, reports>>

\* Defect: a failed report is tried again until it is written.
ReleaseOrRetry ==
    /\ pc = "release"
    /\ IF status = "EFI_SUCCESS"
       THEN FreeBootHandoffInfo /\ pc' = "return"
       ELSE UNCHANGED <<directory, handoff>> /\ pc' = "json"
    /\ UNCHANGED <<producer, report, status, console, reports>>

\* FreeBootHandoffInfo, after a success only.
Release ==
    /\ pc = "release"
    /\ IF status = "EFI_SUCCESS"
       THEN FreeBootHandoffInfo
       ELSE UNCHANGED <<directory, handoff>>
    /\ pc' = "return"
    /\ UNCHANGED <<producer, report, status, console, reports>>

\* UefiMain returns EFI_SUCCESS in any case; BootInfo was a local of it.  The
\* pool is this start's: the firmware frees nothing, but what the start has not
\* freed by now no pointer of a later one leads to.
Return ==
    /\ pc = "return"
    /\ ReturnToBoot
    /\ pc' = "firmware"
    /\ bootInfo' = ZeroInfo
    /\ bpc' = "start"
    /\ bstatus' = "EFI_SUCCESS"
    /\ pool' = {}
    /\ UNCHANGED <<maps, room, mapKey, report, status, console, reports>>

\* The virtual machine is killed and started again: memory is gone, the volume
\* stays.
MachineKilled ==
    /\ pc # "firmware"
    /\ \/ Killed
       \/ wpc = "idle" /\ UNCHANGED report
    /\ directory' = StockDirectory
    /\ images' = {} /\ ppc' = "dxe" /\ pstatus' = "EFI_SUCCESS"
    /\ image' = NULL /\ devicePath' = FALSE
    /\ \E n \in 1 .. MaxDescriptors : maps' = <<n>>
    /\ pool' = {} /\ room' = 0 /\ mapKey' = 0
    /\ bootInfo' = ZeroInfo /\ bpc' = "start" /\ bstatus' = "EFI_SUCCESS"
    /\ pc' = "firmware" /\ status' = "EFI_SUCCESS" /\ console' = Nothing
    /\ UNCHANGED <<loaded, starts, reports>>

UefiMain == \/ LoadProducer \/ BuildHandoff
            \/ AllocateJson \/ ComposeJson \/ WriteJson \/ FinishJson
            \/ PrintSnapshot \/ Release \/ Return

Next == Dispatch \/ Start \/ EventNotified \/ UefiMain \/ MachineKilled

Spec == Init /\ [][Next]_vars

\* The processor runs the program; nothing obliges the firmware to start it,
\* to signal events, or the virtual machine to be killed.
FairSpec == Spec /\ WF_vars(UefiMain)

-----------------------------------------------------------------------------

\* Two views of one moment: a map on the console is the map of this start's
\* report, and that report is whole on the volume, although files were written
\* and the firmware's map changed between the two.
SnapshotAgrees ==
    \A map \in console : /\ volume.data = Report(run)
                         /\ reports[run].map = map

\* The buffer is there when the console and the report read it.
NoUseAfterFree ==
    pc \in {"json", "compose", "write"} \/ (pc \in {"snapshot", "release"} /\ status = "EFI_SUCCESS")
        => "MemoryMap" \in pool /\ bootInfo.MemoryMap

\* A start gives back all it took, on every way to its return: file handles,
\* device path, the JSON buffer, the captured map and the pointer to it.  One
\* way leaves something, and no more than the map: a handoff was built and its
\* report failed.
GivesBack ==
    pc = "return" =>
        /\ handles = {} /\ ~devicePath
        /\ IF bstatus = "EFI_SUCCESS" /\ status # "EFI_SUCCESS"
           THEN pool = {"MemoryMap"} /\ bootInfo.MemoryMap
           ELSE pool = {} /\ bootInfo = ZeroInfo

\* A report that shows the lab's table is composed while the table's producer
\* is resident, and a start whose loader succeeded never reports it missing.
ReportShowsProducer ==
    pc = "write" =>
        /\ reports[run].lab # NULL => reports[run].lab \in images
        /\ pstatus = "EFI_SUCCESS" => reports[run].lab # NULL

\* A started program comes back to the firmware, with a result or killed.
ComesBack == pc = "producer" ~> pc = "firmware"

\* What a comment says of the handoff buffer: "This lab returns to firmware
\* after printing, so release the buffer."  So no return leaves one behind.
ReleasedOnReturn == pc = "return" => "MemoryMap" \notin pool
=============================================================================
