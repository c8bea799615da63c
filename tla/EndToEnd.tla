------------------------------ MODULE EndToEnd ------------------------------
(***************************************************************************)
(* scripts/run-e2e-linux.sh with scripts/smoke-ovmf.sh: runs of the whole  *)
(* laboratory in one work directory.  The host boots the firmware program, *)
(* checks its JSON, makes a disk image of the ESP, boots the Linux guest   *)
(* from it under a timeout, and copies the report out of the image.  The   *)
(* guest runs the script of its user-data, writing the image through its   *)
(* page cache.  Both scripts stop at the first command that fails.         *)
(***************************************************************************)
EXTENDS Integers

CONSTANT MaxRuns       \* bound: runs in the work directory

ASSUME MaxRunsAssumption == MaxRuns \in Nat

Files == {"firmware", "json", "markdown"}   \* firmware-view.json, platform-report.*
Reports == {"json", "markdown"}

VARIABLES run,         \* the run going on, or the last one
          pc,          \* the host's next command, "idle" between runs
          rc,          \* how the last run ended: "running", "ok" or "error"
          host,        \* the files in esp_dir/EFI/UEFI-BOOT-LAB
          img,         \* the same files in esp.img
          base, tmp,   \* the cloud image and its .tmp: "none", "partial", "whole"
          guest,       \* where the guest's script is; "off", "stopped"
          cache,       \* the ESP as the guest sees it
          online,      \* apt-get could install the tools
          tools,       \* the tools the contract asks for are there
          verdict,     \* of the report the guest has: "none", "passing", "failing"
          timedOut     \* timeout stopped the guest

hostVars == <<run, pc, rc, host, base, tmp, timedOut>>
guestVars == <<guest, cache, online, tools, verdict>>
vars == <<hostVars, img, guestVars>>

\* A file: the run that wrote it, and how much of it is there.
States == {"none", "partial", "whole"}
Absent == [run |-> 0, state |-> "none"]
Written(state) == [run |-> run, state |-> state]

-----------------------------------------------------------------------------
EEInit == /\ run = 0 /\ pc = "idle" /\ rc = "ok"
          /\ host = [f \in Files |-> Absent]
          /\ img = [f \in Files |-> Absent]
          /\ base = "none" /\ tmp = "none"
          /\ guest = "off" /\ cache = [f \in Files |-> Absent]
          /\ online = FALSE /\ tools = FALSE
          /\ verdict = "none" /\ timedOut = FALSE

\* set -e: the script ends here.  QEMU, if it runs, is stopped with it.
Fail == pc' = "idle" /\ rc' = "error"

\* Any command may fail, or the user may stop the script; a download is left
\* in part.
Abort == /\ pc # "idle"
         /\ Fail
         /\ tmp' \in IF pc = "wget" THEN {tmp, "partial"} ELSE {tmp}
         /\ guest' = "off"
         /\ UNCHANGED <<run, host, base, timedOut, img, cache, online, tools, verdict>>

\* The directory of the laboratory is removed from the ESP and made anew.
StartRun ==
    /\ pc = "idle" /\ run < MaxRuns
    /\ run' = run + 1
    /\ pc' = "stage1" /\ rc' = "running"
    /\ host' = [f \in Files |-> Absent]
    /\ verdict' = "none" /\ timedOut' = FALSE
    /\ UNCHANGED <<base, tmp, img, guest, cache, online, tools>>

\* The firmware boots for as long as its timeout lets it, and may have come
\* to any point of its report; the smoke test looks for its console output
\* only.
StageOne ==
    /\ pc = "stage1"
    /\ \E state \in States :
         host' = [host EXCEPT !["firmware"] =
                    IF state = "none" THEN @ ELSE Written(state)]
    /\ \/ pc' = "check" /\ UNCHANGED rc
       \/ Fail
    /\ UNCHANGED <<run, base, tmp, timedOut, img, guestVars>>

\* Defect: a file is enough.
CheckFirmwareExists ==
    /\ pc = "check"
    /\ IF host["firmware"].state # "none"
       THEN pc' = "wget" /\ UNCHANGED rc
       ELSE Fail
    /\ UNCHANGED <<run, host, base, tmp, timedOut, img, guestVars>>

\* The JSON is there, and json.tool reads it to its end.
CheckFirmware ==
    /\ pc = "check"
    /\ IF host["firmware"].state = "whole"
       THEN pc' = "wget" /\ UNCHANGED rc
       ELSE Fail
    /\ UNCHANGED <<run, host, base, tmp, timedOut, img, guestVars>>

\* The cloud image is downloaded once, beside its place.
Download ==
    /\ pc = "wget"
    /\ IF base = "none"
       THEN tmp' = "whole" /\ pc' = "mv"
       ELSE UNCHANGED tmp /\ pc' = "images"
    /\ UNCHANGED <<run, rc, host, base, timedOut, img, guestVars>>

MoveImage ==
    /\ pc = "mv"
    /\ base' = tmp /\ tmp' = "none"
    /\ pc' = "images"
    /\ UNCHANGED <<run, rc, host, timedOut, img, guestVars>>

\* New images: a guest disk on the cloud image, and the ESP with what the
\* host's directory holds.
MakeImages ==
    /\ pc = "images"
    /\ img' = host /\ cache' = host
    /\ guest' = "boot"
    /\ pc' = "qemu"
    /\ UNCHANGED <<run, rc, host, base, tmp, timedOut, online, tools, verdict>>

-----------------------------------------------------------------------------
(* The guest, as long as QEMU runs.                                        *)

GuestAt(step) == pc = "qemu" /\ guest = step

InstallTools ==
    /\ GuestAt("boot")
    /\ online' \in BOOLEAN
    /\ tools' \in IF online' THEN {TRUE} ELSE BOOLEAN
    /\ guest' = "esp"
    /\ UNCHANGED <<hostVars, img, cache, verdict>>

\* The repository and the ESP are mounted, and the ESP has the JSON.
MountEsp ==
    /\ GuestAt("esp")
    /\ guest' \in IF cache["firmware"].state = "none" THEN {"stopped"}
                  ELSE {"report", "stopped"}
    /\ UNCHANGED <<hostVars, img, cache, online, tools, verdict>>

\* Defect: the script goes on whatever platform_report says.
RunReportTolerant ==
    /\ GuestAt("report")
    /\ verdict' \in {"none", "failing"} \cup (IF tools THEN {"passing"} ELSE {})
    /\ guest' = IF verdict' = "none" THEN "stopped" ELSE "remove"
    /\ UNCHANGED <<hostVars, img, cache, online, tools>>

\* platform_report.py all --fail-on-error: it may raise, and what the
\* contract asks for and is not there fails.
RunReport ==
    /\ GuestAt("report")
    /\ verdict' \in {"none", "failing"} \cup (IF tools THEN {"passing"} ELSE {})
    /\ guest' = IF verdict' = "passing" THEN "remove" ELSE "stopped"
    /\ UNCHANGED <<hostVars, img, cache, online, tools>>

RemoveOldReport ==
    /\ GuestAt("remove")
    /\ cache' = [f \in Files |-> IF f \in Reports THEN Absent ELSE cache[f]]
    /\ guest' = "copy"
    /\ UNCHANGED <<hostVars, img, online, tools, verdict>>

CopyReport ==
    /\ GuestAt("copy")
    /\ \E f \in Reports :
         /\ cache[f] = Absent
         /\ cache' = [cache EXCEPT ![f] = Written("whole")]
         /\ guest' = IF \A g \in Reports : cache'[g] # Absent THEN "sync" ELSE "copy"
    /\ UNCHANGED <<hostVars, img, online, tools, verdict>>

\* The guest's kernel writes a file back when it likes, in parts.
WriteBack ==
    /\ pc = "qemu" /\ guest # "off"
    /\ \E f \in Files :
         /\ img[f] # cache[f]
         /\ img' \in {[img EXCEPT ![f] = cache[f]],
                      [img EXCEPT ![f] = [cache[f] EXCEPT !.state =
                                            IF @ = "none" THEN @ ELSE "partial"]]}
    /\ UNCHANGED <<hostVars, guestVars>>

Sync == /\ GuestAt("sync")
        /\ img' = cache
        /\ guest' = "poweroff"
        /\ UNCHANGED <<hostVars, cache, online, tools, verdict>>

GuestNext == \/ InstallTools \/ MountEsp \/ RunReport \/ RemoveOldReport
             \/ CopyReport \/ WriteBack \/ Sync

-----------------------------------------------------------------------------
\* QEMU exits with 0 when the guest powers off.
PowerOff ==
    /\ GuestAt("poweroff")
    /\ guest' = "off" /\ pc' = "mcopy firmware"
    /\ UNCHANGED <<run, rc, host, base, tmp, timedOut, img, cache, online, tools, verdict>>

\* Defect: a guest whose script has stopped is waited for.
TimeoutWhileWorking ==
    /\ pc = "qemu" /\ guest # "stopped"
    /\ timedOut' = TRUE
    /\ guest' = "off" /\ pc' = "mcopy firmware"
    /\ UNCHANGED <<run, rc, host, base, tmp, img, cache, online, tools, verdict>>

\* timeout ends it with 124, which is as good as 0.
Timeout ==
    /\ pc = "qemu"
    /\ timedOut' = TRUE
    /\ guest' = "off" /\ pc' = "mcopy firmware"
    /\ UNCHANGED <<run, rc, host, base, tmp, img, cache, online, tools, verdict>>

\* mcopy takes a file out of the image, or fails if there is none.
TakeOut(here, f, there) ==
    /\ pc = here
    /\ IF img[f].state = "none"
       THEN Fail /\ UNCHANGED host
       ELSE /\ host' = [host EXCEPT ![f] = img[f]]
            /\ pc' = there
            /\ rc' = IF there = "idle" THEN "ok" ELSE rc
    /\ UNCHANGED <<run, base, tmp, timedOut, img, guestVars>>

TakeReport == \/ TakeOut("mcopy firmware", "firmware", "mcopy json")
              \/ TakeOut("mcopy json", "json", "mcopy markdown")
              \/ TakeOut("mcopy markdown", "markdown", "idle")

HostNext == \/ StartRun \/ StageOne \/ CheckFirmware \/ Download \/ MoveImage
            \/ MakeImages \/ PowerOff \/ Timeout \/ TakeReport

EENext == HostNext \/ Abort \/ GuestNext

EESpec == EEInit /\ [][EENext]_vars

\* The host's commands come to an end, QEMU by its timeout at the latest; the
\* guest may stay where it is.
EEFairSpec == EESpec /\ WF_vars(HostNext)

-----------------------------------------------------------------------------
(* Properties.                                                             *)

\* The type invariant of the end-to-end run.
EETypeOK ==
    /\ run \in 0 .. MaxRuns
    /\ pc \in {"idle", "stage1", "check", "wget", "mv", "images", "qemu",
               "mcopy firmware", "mcopy json", "mcopy markdown"}
    /\ rc \in {"running", "ok", "error"}
    /\ {base, tmp} \subseteq States
    /\ guest \in {"off", "boot", "esp", "report", "remove", "copy", "sync",
                  "poweroff", "stopped"}
    /\ guest # "off" => pc = "qemu"
    /\ \A f \in Files : \A file \in {host[f], img[f], cache[f]} :
         file.run \in 0 .. run /\ file.state \in States
    /\ online \in BOOLEAN /\ tools \in BOOLEAN /\ timedOut \in BOOLEAN
    /\ verdict \in {"none", "passing", "failing"}

Succeeded == rc = "ok" /\ run > 0

\* A run that ends well leaves the three files of its own, whatever earlier
\* runs, failed or stopped anywhere, left in the work directory.
SuccessIsThisRuns ==
    Succeeded => \A f \in Files : host[f].run = run /\ host[f].state # "none"

\* It ends well only if the guest's report passed the contract: a report with
\* a failing check never reaches the host, nor does one beside a guest that
\* made none.
SuccessMeansPassed == Succeeded => verdict = "passing"

\* The report it leaves may be cut off, but only if the timeout struck; the
\* firmware's JSON never is.
HalfOnlyOnTimeout ==
    Succeeded => /\ host["firmware"].state = "whole"
                 /\ (\E f \in Reports : host[f].state = "partial") => timedOut

\* What the guest compares Linux with is the whole JSON of the firmware that
\* booted in this run, and the host keeps the same.
GuestSeesThisFirmware ==
    guest \in {"report", "remove", "copy", "sync", "poweroff"} =>
      /\ cache["firmware"] = [run |-> run, state |-> "whole"]
      /\ cache["firmware"] = host["firmware"]

\* The guest's disk is never made on a cloud image that was downloaded in part.
ImageWhole == pc \in {"images", "qemu"} => base = "whole"

\* What a run that ends well leaves on the host: its own files, behind a guest
\* whose report passed, cut off only where the timeout struck.
GoodRunLeavesItsOwn == SuccessIsThisRuns /\ SuccessMeansPassed /\ HalfOnlyOnTimeout

\* What the guest of a run is given: a whole cloud image to start from, and the
\* whole JSON of the firmware of the same run.
GuestIsGivenWhole == ImageWhole /\ GuestSeesThisFirmware

\* Every run ends, wherever the guest's script stops.
RunEnds == pc # "idle" ~> pc = "idle"
=============================================================================
