----------------------------- MODULE ReportFile -----------------------------
(***************************************************************************)
(* WriteJsonToLoadedImageVolume and OpenReportDirectory of                 *)
(* Report/FirmwareJson.c against the EFI file protocol of the boot volume. *)
(*                                                                         *)
(* One action per protocol call, because the virtual machine may be killed *)
(* between any two of them (scripts/smoke-ovmf.sh runs QEMU under a        *)
(* timeout and accepts its expiry) and the program may be started again on *)
(* what is left.  Every call may fail.  A file's data is a sequence of     *)
(* cells, each labelled with the run that wrote it: what tells a report of *)
(* this run from a stale one is all the properties need.                   *)
(***************************************************************************)
EXTENDS Naturals, Sequences, FiniteSets

CONSTANTS MaxRuns,         \* bound: how often FirmwareView.efi is started
          Sizes,           \* the sizes a report may have, in cells
          CleanupMayFail   \* may opening or deleting a previous report fail?

ASSUME ReportFileAssumption == /\ MaxRuns \in Nat
                               /\ Sizes \subseteq Nat \ {0}
                               /\ CleanupMayFail \in BOOLEAN

VARIABLES volume,     \* the boot volume: its directories and the report file
          handles,    \* the EFI_FILE_PROTOCOL instances that are open
          wpc,        \* the call that comes next
          wstatus,    \* Status
          run,        \* the current run, or the last one
          size        \* JsonLength of each run so far

wvars == <<volume, handles, wpc, wstatus, run, size>>

Run == 1 .. MaxRuns

\* firmware-view.json of run r, complete.
Report(r) == [i \in 1 .. size[r] |-> r]

Errors == {"EFI_NOT_FOUND", "EFI_DEVICE_ERROR"}

\* The volume holds EFI/BOOT/BOOTX64.EFI, so EFI exists when the program was
\* started from its default path; the lab directory may or may not exist.
WInit == /\ volume \in [efi : BOOLEAN, lab : {FALSE}, exists : {FALSE}, data : {<<>>}]
         /\ handles = {}
         /\ wpc = "idle"
         /\ wstatus = "EFI_SUCCESS"
         /\ run = 0
         /\ size = <<>>

-----------------------------------------------------------------------------
\* The steps of the call.  Goto(label, st) is the control flow of a step;
\* a failed call leaves through the label the code jumps to.
Goto(label, st) == wpc' = label /\ wstatus' = st

\* The program is started and calls WriteJsonToLoadedImageVolume with a
\* report of its own.
BeginWrite ==
    /\ wpc = "idle"
    /\ run < MaxRuns
    /\ run' = run + 1
    /\ \E n \in Sizes : size' = Append(size, n)
    /\ Goto("locate", "EFI_SUCCESS")
    /\ UNCHANGED <<volume, handles>>

\* HandleProtocol for the loaded image, HandleProtocol for its device's file
\* system, OpenVolume: the first to fail ends the call.
LocateVolume ==
    /\ wpc = "locate"
    /\ \/ \E st \in Errors : Goto("done", st) /\ UNCHANGED handles
       \/ handles' = handles \cup {"Root"} /\ Goto("open_efi", wstatus)
    /\ UNCHANGED <<volume, run, size>>

\* OpenReportDirectory: open EFI, which has to exist.
OpenEfi ==
    /\ wpc = "open_efi"
    /\ \/ \E st \in Errors : Goto("close_root", st) /\ UNCHANGED handles
       \/ /\ volume.efi
          /\ handles' = handles \cup {"EfiDir"}
          /\ Goto("open_lab", "EFI_SUCCESS")
    /\ UNCHANGED <<volume, run, size>>

\* OpenReportDirectory: open or create UEFI-BOOT-LAB; EFI is closed on either
\* outcome.
OpenLab ==
    /\ wpc = "open_lab"
    /\ \/ /\ \E st \in Errors : Goto("close_root", st)
          /\ handles' = handles \ {"EfiDir"}
          /\ UNCHANGED volume
       \/ /\ volume' = [volume EXCEPT !.lab = TRUE]
          /\ handles' = (handles \ {"EfiDir"}) \cup {"ReportDir"}
          /\ Goto("close_root", "EFI_SUCCESS")
    /\ UNCHANGED <<run, size>>

\* Defect: the status of OpenReportDirectory is not looked at.
CloseRootUnchecked ==
    /\ wpc = "close_root"
    /\ handles' = handles \ {"Root"}
    /\ Goto("open_existing", wstatus)
    /\ UNCHANGED <<volume, run, size>>

\* Root is closed before the status of OpenReportDirectory is looked at.
CloseRoot ==
    /\ wpc = "close_root"
    /\ handles' = handles \ {"Root"}
    /\ Goto(IF wstatus \in Errors THEN "done" ELSE "open_existing", wstatus)
    /\ UNCHANGED <<volume, run, size>>

\* Open the previous report without CREATE.  Any error means "nothing to
\* delete" to the code.
OpenExisting ==
    /\ wpc = "open_existing"
    /\ \/ /\ ~volume.exists \/ CleanupMayFail
          /\ \E st \in Errors : Goto("create", st)
          /\ UNCHANGED handles
       \/ /\ volume.exists
          /\ handles' = handles \cup {"ExistingFile"}
          /\ Goto("delete", "EFI_SUCCESS")
    /\ UNCHANGED <<volume, run, size>>

\* Delete closes the handle whether or not it removes the file; its status is
\* not looked at.
DeleteExisting ==
    /\ wpc = "delete"
    /\ \/ volume' = [volume EXCEPT !.exists = FALSE, !.data = <<>>]
       \/ CleanupMayFail /\ UNCHANGED volume
    /\ handles' = handles \ {"ExistingFile"}
    /\ Goto("create", wstatus)
    /\ UNCHANGED <<run, size>>

\* Open or create the report.  CREATE does not truncate a file that exists.
CreateReport ==
    /\ wpc = "create"
    /\ \/ /\ \E st \in Errors : Goto("close_dir", st)
          /\ UNCHANGED <<volume, handles>>
       \/ /\ volume' = [volume EXCEPT !.exists = TRUE]
          /\ handles' = handles \cup {"File"}
          /\ Goto("write", "EFI_SUCCESS")
    /\ UNCHANGED <<run, size>>

\* The file's data after n cells of this run were written over it from
\* position 0; what lies beyond them stays.
Overwritten(n) ==
    [i \in 1 .. (IF n > Len(volume.data) THEN n ELSE Len(volume.data)) |->
        IF i <= n THEN run ELSE volume.data[i]]

\* Defect: the status of Write is lost to that of a later call.
WriteReportUnchecked ==
    /\ wpc = "write"
    /\ \E n \in 0 .. size[run] :
          volume' = [volume EXCEPT !.data = Overwritten(n)]
    /\ Goto("close_file", "EFI_SUCCESS")
    /\ UNCHANGED <<handles, run, size>>

\* SetPosition(0) and Write: all of it, or an error after part of it.
WriteReport ==
    /\ wpc = "write"
    /\ \/ /\ volume' = [volume EXCEPT !.data = Overwritten(size[run])]
          /\ Goto("close_file", "EFI_SUCCESS")
       \/ \E n \in 0 .. size[run] - 1 :
             /\ volume' = [volume EXCEPT !.data = Overwritten(n)]
             /\ Goto("close_file", "EFI_DEVICE_ERROR")
    /\ UNCHANGED <<handles, run, size>>

\* Flush, whose status is not looked at, and Close.
CloseFile ==
    /\ wpc = "close_file"
    /\ handles' = handles \ {"File"}
    /\ Goto("close_dir", wstatus)
    /\ UNCHANGED <<volume, run, size>>

CloseDir ==
    /\ wpc = "close_dir"
    /\ handles' = handles \ {"ReportDir"}
    /\ Goto("done", wstatus)
    /\ UNCHANGED <<volume, run, size>>

\* The program has its status and returns to the firmware, which may start it
\* again.
ReturnToFirmware ==
    /\ wpc = "done"
    /\ Goto("idle", wstatus)
    /\ UNCHANGED <<volume, handles, run, size>>

\* The virtual machine is killed; a write in progress leaves a part of itself,
\* and so may one that returned but was not flushed.
Killed ==
    /\ wpc # "idle"
    /\ handles' = {}
    /\ Goto("idle", "killed")
    /\ \/ wpc \notin {"write", "close_file"} /\ UNCHANGED volume
       \/ wpc = "write" /\ \E n \in 0 .. size[run] : volume' = [volume EXCEPT !.data = Overwritten(n)]
       \/ wpc = "close_file" /\ \E n \in 0 .. Len(volume.data) :
                volume' = [volume EXCEPT !.data = SubSeq(@, 1, n)]
    /\ UNCHANGED <<run, size>>

Exhausted == wpc = "idle" /\ run = MaxRuns /\ UNCHANGED wvars

WriteStep == \/ LocateVolume \/ OpenEfi \/ OpenLab \/ CloseRoot
             \/ OpenExisting \/ DeleteExisting \/ CreateReport
             \/ WriteReport \/ CloseFile \/ CloseDir

WNext == BeginWrite \/ WriteStep \/ ReturnToFirmware \/ Killed \/ Exhausted

WSpec == WInit /\ [][WNext]_wvars

-----------------------------------------------------------------------------
Labels == {"idle", "locate", "open_efi", "open_lab", "close_root", "open_existing",
           "delete", "create", "write", "close_file", "close_dir", "done"}

\* The shape of the state.
WTypeOK ==
    /\ volume \in [efi : BOOLEAN, lab : BOOLEAN, exists : BOOLEAN, data : Seq(Run)]
    /\ handles \subseteq {"Root", "EfiDir", "ReportDir", "ExistingFile", "File"}
    /\ wpc \in Labels
    /\ wstatus \in Errors \cup {"EFI_SUCCESS", "killed"}
    /\ run \in 0 .. MaxRuns
    /\ size \in Seq(Sizes) /\ Len(size) = run

\* The handles each remaining call of the function goes through or closes.
Needed(label) ==
    CASE label = "open_efi"                       -> {"Root"}
      [] label = "open_lab"                       -> {"Root", "EfiDir"}
      [] label = "close_root"                     -> {"Root"}
      [] label \in {"open_existing", "create", "close_dir"} -> {"ReportDir"}
      [] label = "delete"                         -> {"ReportDir", "ExistingFile"}
      [] label \in {"write", "close_file"}        -> {"ReportDir", "File"}
      [] OTHER                                    -> {}

\* No call goes through a handle that is not open (a deleted file's handle is
\* closed by Delete), and no early return leaves one open.  ReportDir is the
\* one handle that is open across the close of Root.
HandleDiscipline ==
    /\ Needed(wpc) \subseteq handles
    /\ handles \subseteq Needed(wpc) \cup (IF wpc = "close_root" THEN {"ReportDir"} ELSE {})

\* A run that reports success leaves exactly its own report behind, whatever
\* an earlier run, failed or killed, had left in its place.
SuccessMeansWhole ==
    wpc = "done" /\ wstatus = "EFI_SUCCESS" =>
        volume.exists /\ volume.data = Report(run)

\* The file never mixes runs: it holds nothing, or the beginning of one run's
\* report (which no JSON parser takes for a report) or all of it.
NoMixture ==
    \E r \in Run : \A i \in 1 .. Len(volume.data) :
        volume.data[i] = r /\ r <= run /\ Len(volume.data) <= size[r]

\* Even when the cleanup of an earlier report fails, a run that reports
\* success has put its own report at the beginning of the file.
SuccessMeansPrefix ==
    wpc = "done" /\ wstatus = "EFI_SUCCESS" =>
        /\ volume.exists
        /\ Len(volume.data) >= size[run]
        /\ \A i \in 1 .. size[run] : volume.data[i] = run

\* What a comment says of the delete: "Delete any previous report first.
\* EFI_FILE_PROTOCOL does not guarantee truncation when an existing file is
\* opened with CREATE, and stale JSON bytes at the end would make the report
\* invalid."  So no report a run declares written has stale bytes at its end.
NoStaleTail ==
    wpc = "done" /\ wstatus = "EFI_SUCCESS" => Len(volume.data) <= size[run]

\* Where nothing keeps a previous report from being deleted, every file is of
\* one run, and that of a run which reports success is all of its report.
FileIsOneRuns == SuccessMeansWhole /\ NoMixture
=============================================================================
