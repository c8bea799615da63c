--------------------------- MODULE EndToEndProofs ---------------------------
(***************************************************************************)
(* The end-to-end run for any number of runs in one work directory, each   *)
(* of them failing or stopped anywhere: what the host holds after one that *)
(* ended well.                                                             *)
(***************************************************************************)
EXTENDS EndToEnd, TLAPS

USE MaxRunsAssumption

FileRecords == [run : Nat, state : States]
ThisRuns == [run |-> run, state |-> "whole"]
Fetching == {"wget", "mv", "images"}
Copying == {"mcopy firmware", "mcopy json", "mcopy markdown"}

Typed == /\ host \in [Files -> FileRecords]
         /\ img \in [Files -> FileRecords]
         /\ cache \in [Files -> FileRecords]
         /\ pc # "idle" => rc = "running"
         /\ rc = "running" => pc # "idle"

\* Before the virtual machine starts: nothing of an earlier run is left where
\* this one looks.
Prepared ==
    /\ pc = "stage1" => \A f \in Files : host[f] = Absent
    /\ pc \in {"check"} \cup Fetching => \A f \in Reports : host[f] = Absent
    /\ pc = "check" => host["firmware"] = Absent \/ host["firmware"].run = run
    /\ pc \in Fetching \cup {"qemu"} \cup Copying => host["firmware"] = ThisRuns

ImagesReady ==
    /\ base # "partial"
    /\ pc = "mv" => tmp = "whole"
    /\ pc \in {"images", "qemu"} \cup Copying => base = "whole"

\* A report the guest or the image holds is of this run, and passed.
OwnReport(file) == file = Absent \/ (file = ThisRuns /\ verdict = "passing")
OwnImage(file) == file.state = "none" \/ (file.run = run /\ verdict = "passing")

Handed ==
    /\ pc = "qemu" => /\ cache["firmware"] = ThisRuns
                      /\ \A f \in Reports : OwnReport(cache[f])
    /\ pc \in {"qemu"} \cup Copying =>
         /\ img["firmware"] = ThisRuns
         /\ \A f \in Reports : OwnImage(img[f])

GuestDone ==
    /\ guest \in {"boot", "esp", "report", "remove"} =>
         \A f \in Reports : cache[f] = Absent /\ img[f] = Absent
    /\ guest \in {"remove", "copy", "sync", "poweroff"} => verdict = "passing"
    /\ guest \in {"sync", "poweroff"} => \A f \in Reports : cache[f] = ThisRuns
    /\ guest = "poweroff" => img = cache
    /\ pc \in Copying /\ ~timedOut => \A f \in Reports : img[f] = ThisRuns

Taken ==
    /\ pc = "mcopy markdown" => host["json"] = img["json"] /\ img["json"].state # "none"
    /\ Succeeded => /\ \A f \in Files : host[f].run = run /\ host[f].state # "none"
                    /\ verdict = "passing"
                    /\ host["firmware"].state = "whole"
                    /\ ~timedOut => \A f \in Reports : host[f].state = "whole"

(***************************************************************************)
(* The inductive invariant: what each command of the host finds, with what *)
(* the guest has come to, and where the files it takes out come from.      *)
(***************************************************************************)
EEInv == EETypeOK /\ Typed /\ Prepared /\ ImagesReady /\ Handed /\ GuestDone /\ Taken

LEMMA InitEstablishes == EEInit => EEInv
<1> SUFFICES ASSUME EEInit PROVE EEInv
  OBVIOUS
<1>1. EETypeOK
  <2>1. \A f \in Files : host[f] = Absent /\ img[f] = Absent /\ cache[f] = Absent
    BY DEF EEInit
  <2>2. Absent.run = 0 /\ Absent.state = "none"
    BY DEF Absent
  <2>3. \A f \in Files : \A file \in {host[f], img[f], cache[f]} :
          file.run \in 0 .. run /\ file.state \in States
    BY <2>1, <2>2 DEF EEInit, States
  <2>4. run \in 0 .. MaxRuns
    BY DEF EEInit
  <2>5. {base, tmp} \subseteq States
    BY DEF EEInit, States
  <2>6. QED  BY <2>3, <2>4, <2>5 DEF EEInit, EETypeOK
<1>2. Typed
  BY DEF EEInit, Typed, FileRecords, Absent, States
<1>3. Prepared
  BY DEF EEInit, Prepared, Fetching, Copying
<1>4. ImagesReady
  BY DEF EEInit, ImagesReady, Copying
<1>5. Handed
  BY DEF EEInit, Handed, Copying
<1>6. GuestDone
  BY DEF EEInit, GuestDone, Copying
<1>7. Taken
  BY DEF EEInit, Taken, Succeeded
<1>8. QED  BY <1>1, <1>2, <1>3, <1>4, <1>5, <1>6, <1>7 DEF EEInv

LEMMA AbortPreserves == EEInv /\ Abort => EEInv'
<1> SUFFICES ASSUME EEInv, Abort PROVE EEInv'
  OBVIOUS
<1> USE DEF EEInv, Abort, Fail
<1>1. EETypeOK'
  BY DEF EETypeOK, States
<1>2. Typed'
  BY DEF Typed
<1>3. Prepared'
  BY DEF Prepared, Fetching, Copying
<1>4. ImagesReady'
  BY DEF ImagesReady, Copying
<1>5. Handed'
  BY DEF Handed, Copying
<1>6. GuestDone'
  BY DEF GuestDone, Copying
<1>7. Taken'
  BY DEF Taken, Succeeded
<1>8. QED  BY <1>1, <1>2, <1>3, <1>4, <1>5, <1>6, <1>7

LEMMA StartRunPreserves == EEInv /\ StartRun => EEInv'
<1> SUFFICES ASSUME EEInv, StartRun PROVE EEInv'
  OBVIOUS
<1> USE DEF EEInv, StartRun
<1>1. EETypeOK'
  <2>1. run \in Nat /\ run + 1 \in 0 .. MaxRuns /\ run' = run + 1
    BY DEF EETypeOK
  <2>2. \A f \in Files : host'[f] = Absent
    OBVIOUS
  <2>3. \A f \in Files : \A file \in {host[f], img[f], cache[f]}' :
          file.run \in 0 .. run' /\ file.state \in States
    BY <2>1, <2>2 DEF EETypeOK, Absent, States
  <2>4. guest = "off"
    BY DEF EETypeOK
  <2>5. QED  BY <2>1, <2>3, <2>4 DEF EETypeOK
<1>2. Typed'
  BY DEF Typed, FileRecords, Absent, States
<1>3. Prepared'
  BY DEF Prepared, Fetching, Copying
<1>4. ImagesReady'
  BY DEF ImagesReady, Copying
<1>5. Handed'
  BY DEF Handed, Copying
<1>6. GuestDone'
  <2>1. guest = "off"
    BY DEF EETypeOK
  <2>2. QED  BY <2>1 DEF GuestDone, Copying
<1>7. Taken'
  BY DEF Taken, Succeeded
<1>8. QED  BY <1>1, <1>2, <1>3, <1>4, <1>5, <1>6, <1>7

LEMMA StageOnePreserves == EEInv /\ StageOne => EEInv'
<1> SUFFICES ASSUME EEInv, StageOne PROVE EEInv'
  OBVIOUS
<1> USE DEF EEInv, StageOne, guestVars, Fail, Written
<1>h. PICK firmware \in FileRecords :
         /\ firmware = Absent \/ firmware.run = run
         /\ firmware.run \in 0 .. run
         /\ host' = [host EXCEPT !["firmware"] = firmware]
  <2>1. PICK state \in States :
          host' = [host EXCEPT !["firmware"] = IF state = "none" THEN @ ELSE Written(state)]
    OBVIOUS
  <2>2. host["firmware"] = Absent /\ host["firmware"] \in FileRecords
    BY DEF Prepared, Typed, Files
  <2>3. run \in Nat
    BY DEF EETypeOK
  <2>4. CASE state = "none"
    <3>1. Absent \in FileRecords /\ Absent.run = 0
      BY <2>2 DEF Absent
    <3>2. host' = [host EXCEPT !["firmware"] = Absent]
      BY <2>1, <2>2, <2>4
    <3>3. Absent.run \in 0 .. run
      BY <2>3, <3>1
    <3> USE <3>1
    <3>4. WITNESS Absent \in FileRecords
    <3>5. QED  BY <3>2, <3>3
  <2>5. CASE state # "none"
    <3>1. Written(state) \in FileRecords /\ Written(state).run = run
      BY <2>1, <2>3 DEF FileRecords
    <3>2. host' = [host EXCEPT !["firmware"] = Written(state)]
      BY <2>1, <2>5
    <3>3. Written(state).run \in 0 .. run
      BY <2>3, <3>1
    <3> USE <3>1
    <3>4. WITNESS Written(state) \in FileRecords
    <3>5. QED  BY <3>1, <3>2, <3>3
  <2>6. QED  BY <2>4, <2>5
<1>i. /\ host' \in [Files -> FileRecords]
      /\ host'["firmware"] = firmware
      /\ \A f \in Reports : host'[f] = Absent
      /\ pc = "stage1" /\ ((pc' = "check" /\ rc' = rc) \/ (pc' = "idle" /\ rc' = "error"))
  <2>1. pc = "stage1" /\ ((pc' = "check" /\ rc' = rc) \/ (pc' = "idle" /\ rc' = "error"))
    OBVIOUS
  <2>2. \A f \in Files : host[f] = Absent
    BY <2>1 DEF Prepared
  <2>3. /\ host' \in [Files -> FileRecords]
        /\ host'["firmware"] = firmware
        /\ \A f \in Reports : host'[f] = host[f]
    BY <1>h DEF Typed, Files, Reports
  <2>4. QED  BY <2>1, <2>2, <2>3 DEF Files, Reports
<1>1. EETypeOK'
  <2>1. \A f \in Files : \A file \in {host[f], img[f], cache[f]}' :
          file.run \in 0 .. run /\ file.state \in States
    BY <1>h, <1>i DEF EETypeOK, Files, Reports, Absent, FileRecords, States
  <2>2. guest = "off"
    BY <1>i DEF EETypeOK
  <2>3. QED  BY <1>i, <2>1, <2>2 DEF EETypeOK
<1>2. Typed'
  BY <1>i DEF Typed
<1>3. Prepared'
  BY <1>h, <1>i DEF Prepared, Fetching, Copying
<1>4. ImagesReady'
  BY DEF ImagesReady, Copying
<1>5. Handed'
  BY DEF Handed, Copying
<1>6. GuestDone'
  BY DEF GuestDone, ThisRuns, Copying
<1>7. Taken'
  BY <1>i DEF Taken, Succeeded, Typed
<1>8. QED  BY <1>1, <1>2, <1>3, <1>4, <1>5, <1>6, <1>7

LEMMA CheckFirmwarePreserves == EEInv /\ CheckFirmware => EEInv'
<1> SUFFICES ASSUME EEInv, CheckFirmware PROVE EEInv'
  OBVIOUS
<1> USE DEF EEInv, CheckFirmware, guestVars, Fail
<1>1. EETypeOK'
  BY DEF EETypeOK
<1>2. Typed'
  BY DEF Typed
<1>3. Prepared'
  <2>1. host["firmware"] \in FileRecords /\ (host["firmware"] = Absent \/ host["firmware"].run = run)
    BY DEF Typed, Prepared, Files
  <2>2. pc' = "wget" => host["firmware"] = ThisRuns
    BY <2>1 DEF Absent, FileRecords, ThisRuns
  <2>3. QED  BY <2>2 DEF Prepared, Fetching, Copying, ThisRuns
<1>4. ImagesReady'
  BY DEF ImagesReady, Copying
<1>5. Handed'
  BY DEF Handed, Copying
<1>6. GuestDone'
  BY DEF GuestDone, ThisRuns, Copying
<1>7. Taken'
  BY DEF Taken, Succeeded
<1>8. QED  BY <1>1, <1>2, <1>3, <1>4, <1>5, <1>6, <1>7

LEMMA DownloadPreserves == EEInv /\ Download => EEInv'
<1> SUFFICES ASSUME EEInv, Download PROVE EEInv'
  OBVIOUS
<1> USE DEF EEInv, Download, guestVars
<1>1. EETypeOK'
  BY DEF EETypeOK, States
<1>2. Typed'
  BY DEF Typed
<1>3. Prepared'
  BY DEF Prepared, ThisRuns, Fetching
<1>4. ImagesReady'
  <2>1. base \in {"none", "whole"}
    BY DEF ImagesReady, EETypeOK, States
  <2>2. QED  BY <2>1 DEF ImagesReady, Copying
<1>5. Handed'
  BY DEF Handed, Copying
<1>6. GuestDone'
  BY DEF GuestDone, ThisRuns, Copying
<1>7. Taken'
  BY DEF Taken, Succeeded
<1>8. QED  BY <1>1, <1>2, <1>3, <1>4, <1>5, <1>6, <1>7

LEMMA MoveImagePreserves == EEInv /\ MoveImage => EEInv'
<1> SUFFICES ASSUME EEInv, MoveImage PROVE EEInv'
  OBVIOUS
<1> USE DEF EEInv, MoveImage, guestVars
<1>1. EETypeOK'
  BY DEF EETypeOK, States
<1>2. Typed'
  BY DEF Typed
<1>3. Prepared'
  BY DEF Prepared, ThisRuns, Fetching
<1>4. ImagesReady'
  BY DEF ImagesReady
<1>5. Handed'
  BY DEF Handed, Copying
<1>6. GuestDone'
  BY DEF GuestDone, ThisRuns, Copying
<1>7. Taken'
  BY DEF Taken, Succeeded
<1>8. QED  BY <1>1, <1>2, <1>3, <1>4, <1>5, <1>6, <1>7

LEMMA MakeImagesPreserves == EEInv /\ MakeImages => EEInv'
<1> SUFFICES ASSUME EEInv, MakeImages PROVE EEInv'
  OBVIOUS
<1> USE DEF EEInv, MakeImages
<1>1. EETypeOK'
  BY DEF EETypeOK
<1>2. Typed'
  BY DEF Typed
<1>3. Prepared'
  BY DEF Prepared, ThisRuns, Fetching
<1>4. ImagesReady'
  BY DEF ImagesReady
<1>5. Handed'
  <2>1. host["firmware"] = ThisRuns /\ \A f \in Reports : host[f] = Absent
    BY DEF Prepared, Fetching
  <2>2. QED  BY <2>1 DEF Handed, OwnReport, OwnImage, ThisRuns, Absent, Copying
<1>6. GuestDone'
  <2>1. \A f \in Reports : host[f] = Absent
    BY DEF Prepared, Fetching
  <2>2. QED  BY <2>1 DEF GuestDone, Absent, Copying
<1>7. Taken'
  BY DEF Taken, Succeeded
<1>8. QED  BY <1>1, <1>2, <1>3, <1>4, <1>5, <1>6, <1>7

LEMMA InstallToolsPreserves == EEInv /\ InstallTools => EEInv'
<1> SUFFICES ASSUME EEInv, InstallTools PROVE EEInv'
  OBVIOUS
<1> USE DEF EEInv, InstallTools, hostVars, GuestAt
<1>1. EETypeOK'
  BY DEF EETypeOK
<1>2. Typed'
  BY DEF Typed
<1>3. Prepared'
  BY DEF Prepared, ThisRuns
<1>4. ImagesReady'
  BY DEF ImagesReady
<1>5. Handed'
  BY DEF Handed, OwnReport, OwnImage, ThisRuns
<1>6. GuestDone'
  BY DEF GuestDone, ThisRuns
<1>7. Taken'
  BY DEF Taken, Succeeded
<1>8. QED  BY <1>1, <1>2, <1>3, <1>4, <1>5, <1>6, <1>7

LEMMA MountEspPreserves == EEInv /\ MountEsp => EEInv'
<1> SUFFICES ASSUME EEInv, MountEsp PROVE EEInv'
  OBVIOUS
<1> USE DEF EEInv, MountEsp, hostVars, GuestAt
<1>1. EETypeOK'
  BY DEF EETypeOK
<1>2. Typed'
  BY DEF Typed
<1>3. Prepared'
  BY DEF Prepared, ThisRuns
<1>4. ImagesReady'
  BY DEF ImagesReady
<1>5. Handed'
  BY DEF Handed, OwnReport, OwnImage, ThisRuns
<1>6. GuestDone'
  BY DEF GuestDone, ThisRuns
<1>7. Taken'
  BY DEF Taken, Succeeded
<1>8. QED  BY <1>1, <1>2, <1>3, <1>4, <1>5, <1>6, <1>7

LEMMA RunReportPreserves == EEInv /\ RunReport => EEInv'
<1> SUFFICES ASSUME EEInv, RunReport PROVE EEInv'
  OBVIOUS
<1> USE DEF EEInv, RunReport, hostVars, GuestAt
<1>1. EETypeOK'
  BY DEF EETypeOK
<1>2. Typed'
  BY DEF Typed
<1>3. Prepared'
  BY DEF Prepared, ThisRuns
<1>4. ImagesReady'
  BY DEF ImagesReady
<1>5. Handed'
  <2>1. /\ pc = "qemu" /\ guest = "report"
        /\ UNCHANGED <<run, pc, cache, img>>
    OBVIOUS
  <2>2. \A f \in Reports : cache[f] = Absent /\ img[f] = Absent
    BY <2>1 DEF GuestDone
  <2>3. QED  BY <2>1, <2>2 DEF Handed, OwnReport, OwnImage, ThisRuns, Absent
<1>6. GuestDone'
  BY DEF GuestDone, ThisRuns
<1>7. Taken'
  BY DEF Taken, Succeeded, Typed
<1>8. QED  BY <1>1, <1>2, <1>3, <1>4, <1>5, <1>6, <1>7

LEMMA RemoveOldReportPreserves == EEInv /\ RemoveOldReport => EEInv'
<1> SUFFICES ASSUME EEInv, RemoveOldReport PROVE EEInv'
  OBVIOUS
<1> USE DEF EEInv, RemoveOldReport, hostVars, GuestAt
<1>1. EETypeOK'
  BY DEF EETypeOK, States, Absent
<1>2. Typed'
  BY DEF Typed, FileRecords, Absent, States
<1>3. Prepared'
  BY DEF Prepared, ThisRuns
<1>4. ImagesReady'
  BY DEF ImagesReady
<1>5. Handed'
  BY DEF Handed, OwnReport, OwnImage, ThisRuns, Files, Reports
<1>6. GuestDone'
  BY DEF GuestDone, ThisRuns
<1>7. Taken'
  BY DEF Taken, Succeeded
<1>8. QED  BY <1>1, <1>2, <1>3, <1>4, <1>5, <1>6, <1>7

LEMMA CopyReportPreserves == EEInv /\ CopyReport => EEInv'
<1> SUFFICES ASSUME EEInv, CopyReport PROVE EEInv'
  OBVIOUS
<1> USE DEF EEInv, CopyReport, hostVars, GuestAt, Written
<1>h. PICK g \in Reports :
         /\ cache' = [cache EXCEPT ![g] = ThisRuns]
         /\ guest' = IF \A f \in Reports : cache'[f] # Absent THEN "sync" ELSE "copy"
  BY DEF ThisRuns
<1>i. /\ pc = "qemu" /\ guest = "copy" /\ verdict = "passing"
      /\ UNCHANGED <<run, pc, rc, img, verdict, host, timedOut>>
      /\ cache'["firmware"] = cache["firmware"]
      /\ cache' \in [Files -> FileRecords]
      /\ (\A f \in Reports : OwnReport(cache[f]))'
  <2>1. pc = "qemu" /\ guest = "copy" /\ verdict = "passing"
        /\ UNCHANGED <<run, pc, rc, img, verdict, host, timedOut>>
    BY DEF GuestDone
  <2>2. ThisRuns \in FileRecords
    BY DEF ThisRuns, FileRecords, States, EETypeOK
  <2>3. cache' \in [Files -> FileRecords] /\ cache'["firmware"] = cache["firmware"]
        /\ \A f \in Reports : cache'[f] = ThisRuns \/ cache'[f] = cache[f]
    BY <1>h, <2>2 DEF Typed, Files, Reports
  <2>4. \A f \in Reports : cache[f] = Absent \/ cache[f] = ThisRuns
    BY <2>1 DEF Handed, OwnReport
  <2>5. (\A f \in Reports : OwnReport(cache[f]))'
    BY <2>1, <2>3, <2>4 DEF OwnReport, ThisRuns, Absent
  <2>6. QED  BY <2>1, <2>3, <2>5
<1>1. EETypeOK'
  <2>1. \A f \in Files : cache'[f].run \in 0 .. run /\ cache'[f].state \in States
    BY <1>h, <1>i DEF EETypeOK, Typed, ThisRuns, Files, Reports, States
  <2>2. QED  BY <1>h, <1>i, <2>1 DEF EETypeOK
<1>2. Typed'
  BY <1>i DEF Typed
<1>3. Prepared'
  BY DEF Prepared, ThisRuns
<1>4. ImagesReady'
  BY DEF ImagesReady
<1>5. Handed'
  BY <1>i DEF Handed, OwnReport, OwnImage, ThisRuns, Copying
<1>6. GuestDone'
  <2>1. guest' = "sync" => (\A f \in Reports : cache[f] = ThisRuns)'
    BY <1>h, <1>i DEF OwnReport, Absent, ThisRuns
  <2>2. QED  BY <1>h, <1>i, <2>1 DEF GuestDone, Copying
<1>7. Taken'
  BY DEF Taken, Succeeded
<1>8. QED  BY <1>1, <1>2, <1>3, <1>4, <1>5, <1>6, <1>7

LEMMA WriteBackPreserves == EEInv /\ WriteBack => EEInv'
<1> SUFFICES ASSUME EEInv, WriteBack PROVE EEInv'
  OBVIOUS
<1> USE DEF EEInv, WriteBack, hostVars, guestVars
<1>h. PICK g \in Files, back \in FileRecords :
         /\ img[g] # cache[g]
         /\ img' = [img EXCEPT ![g] = back]
         /\ back.run = cache[g].run
         /\ cache[g].state = "none" => back.state = "none"
  <2>1. PICK g \in Files :
          /\ img[g] # cache[g]
          /\ img' \in {[img EXCEPT ![g] = cache[g]],
                       [img EXCEPT ![g] = [cache[g] EXCEPT !.state =
                                             IF @ = "none" THEN @ ELSE "partial"]]}
    OBVIOUS
  <2>2. cache[g] \in FileRecords
    BY <2>1 DEF Typed
  <2>3. CASE img' = [img EXCEPT ![g] = cache[g]]
    BY <2>1, <2>2, <2>3
  <2>4. CASE img' = [img EXCEPT ![g] = [cache[g] EXCEPT !.state =
                                          IF @ = "none" THEN @ ELSE "partial"]]
    <3>1. [cache[g] EXCEPT !.state = IF @ = "none" THEN @ ELSE "partial"] \in FileRecords
      BY <2>2 DEF FileRecords, States
    <3>2. QED  BY <2>1, <2>2, <2>4, <3>1 DEF FileRecords
  <2>5. QED  BY <2>1, <2>3, <2>4
<1>i. /\ pc = "qemu" /\ img["firmware"] = ThisRuns /\ cache["firmware"] = ThisRuns
      /\ g \in Reports
      /\ UNCHANGED <<run, pc, rc, host, base, tmp, timedOut, guest, cache, online, tools, verdict>>
  <2>1. pc = "qemu"
        /\ UNCHANGED <<run, pc, rc, host, base, tmp, timedOut, guest, cache, online, tools, verdict>>
    OBVIOUS
  <2>2. img["firmware"] = ThisRuns /\ cache["firmware"] = ThisRuns
    BY <2>1 DEF Handed
  <2>3. g \in Reports
    BY <1>h, <2>2 DEF Files, Reports
  <2>4. QED  BY <2>1, <2>2, <2>3
<1>j. /\ img' \in [Files -> FileRecords] /\ img'[g] = back
      /\ \A f \in Files : f # g => img'[f] = img[f]
  BY <1>h DEF Typed
<1>1. EETypeOK'
  <2>1. \A f \in Files : \A file \in {host[f], img[f], cache[f]}' :
          file.run \in 0 .. run /\ file.state \in States
    BY <1>h, <1>i, <1>j DEF EETypeOK, FileRecords
  <2>2. QED  BY <1>i, <2>1 DEF EETypeOK
<1>2. Typed'
  BY <1>i, <1>j DEF Typed
<1>3. Prepared'
  BY DEF Prepared, ThisRuns
<1>4. ImagesReady'
  BY DEF ImagesReady
<1>5. Handed'
  <2>1. img'["firmware"] = ThisRuns
    BY <1>i, <1>j DEF Files, Reports
  <2>2. OwnImage(back)
    <3>1. OwnReport(cache[g])
      BY <1>i DEF Handed
    <3>2. CASE cache[g] = Absent
      BY <1>h, <3>2 DEF Absent, OwnImage
    <3>3. CASE cache[g] = ThisRuns /\ verdict = "passing"
      BY <1>h, <3>3 DEF ThisRuns, OwnImage
    <3>4. QED  BY <3>1, <3>2, <3>3 DEF OwnReport
  <2>3. \A f \in Reports : OwnImage(img'[f])
    BY <1>i, <1>j, <2>2 DEF Handed, Files, Reports
  <2>4. QED  BY <1>i, <2>1, <2>3 DEF Handed, OwnReport, OwnImage, ThisRuns, Copying
<1>6. GuestDone'
  <2>1. guest # "poweroff"
    BY <1>h DEF GuestDone
  <2>2. guest \notin {"boot", "esp", "report", "remove"}
    BY <1>h, <1>i DEF GuestDone
  <2>3. QED  BY <1>i, <2>1, <2>2 DEF GuestDone, Copying, ThisRuns
<1>7. Taken'
  BY DEF Taken, Succeeded
<1>8. QED  BY <1>1, <1>2, <1>3, <1>4, <1>5, <1>6, <1>7

LEMMA SyncPreserves == EEInv /\ Sync => EEInv'
<1> SUFFICES ASSUME EEInv, Sync PROVE EEInv'
  OBVIOUS
<1> USE DEF EEInv, Sync, hostVars, GuestAt
<1>1. EETypeOK'
  BY DEF EETypeOK
<1>2. Typed'
  BY DEF Typed
<1>3. Prepared'
  BY DEF Prepared, ThisRuns
<1>4. ImagesReady'
  BY DEF ImagesReady
<1>5. Handed'
  BY DEF Handed, OwnReport, OwnImage, ThisRuns, Absent
<1>6. GuestDone'
  BY DEF GuestDone, ThisRuns
<1>7. Taken'
  BY DEF Taken, Succeeded
<1>8. QED  BY <1>1, <1>2, <1>3, <1>4, <1>5, <1>6, <1>7

LEMMA PowerOffPreserves == EEInv /\ PowerOff => EEInv'
<1> SUFFICES ASSUME EEInv, PowerOff PROVE EEInv'
  OBVIOUS
<1> USE DEF EEInv, PowerOff, GuestAt
<1>1. EETypeOK'
  BY DEF EETypeOK
<1>2. Typed'
  BY DEF Typed
<1>3. Prepared'
  BY DEF Prepared, ThisRuns, Fetching
<1>4. ImagesReady'
  BY DEF ImagesReady
<1>5. Handed'
  BY DEF Handed, OwnImage, ThisRuns
<1>6. GuestDone'
  BY DEF GuestDone, ThisRuns
<1>7. Taken'
  BY DEF Taken, Succeeded
<1>8. QED  BY <1>1, <1>2, <1>3, <1>4, <1>5, <1>6, <1>7

LEMMA TimeoutPreserves == EEInv /\ Timeout => EEInv'
<1> SUFFICES ASSUME EEInv, Timeout PROVE EEInv'
  OBVIOUS
<1> USE DEF EEInv, Timeout
<1>1. EETypeOK'
  BY DEF EETypeOK
<1>2. Typed'
  BY DEF Typed
<1>3. Prepared'
  BY DEF Prepared, ThisRuns, Fetching
<1>4. ImagesReady'
  BY DEF ImagesReady
<1>5. Handed'
  BY DEF Handed, OwnImage, ThisRuns
<1>6. GuestDone'
  BY DEF GuestDone
<1>7. Taken'
  BY DEF Taken, Succeeded
<1>8. QED  BY <1>1, <1>2, <1>3, <1>4, <1>5, <1>6, <1>7

\* The file is taken out of the image, or there is none and the script ends.
LEMMA TakeReportPreserves == EEInv /\ TakeReport => EEInv'
<1> SUFFICES ASSUME EEInv, TakeReport PROVE EEInv'
  OBVIOUS
<1> USE DEF EEInv
<1>1. PICK f \in Files :
        /\ \/ pc = "mcopy firmware" /\ f = "firmware" /\ TakeOut(pc, f, "mcopy json")
           \/ pc = "mcopy json" /\ f = "json" /\ TakeOut(pc, f, "mcopy markdown")
           \/ pc = "mcopy markdown" /\ f = "markdown" /\ TakeOut(pc, f, "idle")
  <2>1. CASE TakeOut("mcopy firmware", "firmware", "mcopy json")
    BY <2>1 DEF TakeOut, Files
  <2>2. CASE TakeOut("mcopy json", "json", "mcopy markdown")
    BY <2>2 DEF TakeOut, Files
  <2>3. CASE TakeOut("mcopy markdown", "markdown", "idle")
    BY <2>3 DEF TakeOut, Files
  <2>4. QED  BY <2>1, <2>2, <2>3 DEF TakeReport
<1>2. /\ pc \in Copying /\ guest = "off"
      /\ UNCHANGED <<run, base, tmp, timedOut, img, guest, cache, online, tools, verdict>>
  BY <1>1 DEF TakeOut, guestVars, Copying, EETypeOK
<1>3. /\ img["firmware"] = ThisRuns /\ host["firmware"] = ThisRuns
      /\ \A g \in Reports : OwnImage(img[g])
      /\ ~timedOut => \A g \in Reports : img[g] = ThisRuns
  BY <1>2 DEF Handed, Prepared, GuestDone, Copying
<1>4. CASE img[f].state = "none"
  <2>1. pc' = "idle" /\ rc' = "error" /\ host' = host
    BY <1>1, <1>4 DEF TakeOut, Fail
  <2>2. EETypeOK'
    BY <1>2, <2>1 DEF EETypeOK
  <2>3. Typed' /\ Taken'
    BY <1>2, <2>1 DEF Typed, Taken, Succeeded
  <2>4. Prepared' /\ ImagesReady' /\ Handed'
    BY <2>1, <1>2 DEF Prepared, ImagesReady, Handed, Fetching, Copying
  <2>5. GuestDone'
    BY <1>2, <2>1 DEF GuestDone, Copying
  <2>6. QED  BY <2>2, <2>3, <2>4, <2>5
<1>5. CASE img[f].state # "none"
  <2>1. /\ host' = [host EXCEPT ![f] = img[f]]
        /\ \/ pc = "mcopy firmware" /\ f = "firmware" /\ pc' = "mcopy json" /\ rc' = rc
           \/ pc = "mcopy json" /\ f = "json" /\ pc' = "mcopy markdown" /\ rc' = rc
           \/ pc = "mcopy markdown" /\ f = "markdown" /\ pc' = "idle" /\ rc' = "ok"
    BY <1>1, <1>5 DEF TakeOut
  <2>2. /\ host' \in [Files -> FileRecords]
        /\ host'[f] = img[f] /\ \A g \in Files : g # f => host'[g] = host[g]
    BY <2>1 DEF Typed
  <2>3. f # "firmware" => img[f].run = run /\ verdict = "passing"
    BY <1>3, <1>5 DEF OwnImage, Files, Reports
  <2>4. host'["firmware"] = ThisRuns
    BY <1>3, <2>2 DEF Files
  <2>5. EETypeOK'
    <3>1. \A g \in Files : \A file \in {host[g], img[g], cache[g]}' :
            file.run \in 0 .. run /\ file.state \in States
      BY <1>2, <2>2 DEF EETypeOK
    <3>2. QED  BY <1>2, <2>1, <3>1 DEF EETypeOK
  <2>6. Typed'
    BY <1>2, <2>1, <2>2 DEF Typed
  <2>7. Prepared'
    BY <1>2, <2>1, <2>4 DEF Prepared, Fetching, Copying, ThisRuns
  <2>8. ImagesReady' /\ GuestDone'
    BY <1>2, <2>1 DEF ImagesReady, GuestDone, Copying, ThisRuns
  <2>9. Handed'
    BY <1>2, <1>3, <2>1 DEF Handed, OwnImage, ThisRuns, Copying
  <2>10. Taken'
    <3>1. CASE pc = "mcopy markdown"
      <4>1. f = "markdown" /\ pc' = "idle" /\ host["json"] = img["json"]
            /\ img["json"].state # "none"
        BY <2>1, <3>1 DEF Taken
      <4>2. /\ host'["markdown"] = img["markdown"] /\ host'["json"] = img["json"]
            /\ img["json"].run = run /\ img["markdown"].run = run
            /\ verdict = "passing"
        BY <1>3, <1>5, <2>2, <4>1 DEF OwnImage, Files, Reports
      <4>3. \A g \in Files : host'[g].run = run /\ host'[g].state # "none"
        BY <1>5, <2>4, <4>1, <4>2 DEF Files, ThisRuns
      <4>4. ~timedOut => \A g \in Reports : host'[g].state = "whole"
        BY <1>3, <4>2 DEF Reports, ThisRuns
      <4>5. host'["firmware"].state = "whole"
        BY <2>4 DEF ThisRuns
      <4>6. QED  BY <1>2, <4>1, <4>2, <4>3, <4>4, <4>5 DEF Taken, Succeeded
    <3>2. CASE pc = "mcopy json"
      <4>1. f = "json" /\ rc' = rc /\ rc = "running"
        BY <2>1, <3>2 DEF Typed
      <4>2. QED  BY <1>2, <1>5, <2>2, <4>1 DEF Taken, Succeeded
    <3>3. CASE pc = "mcopy firmware"
      <4>1. pc' = "mcopy json" /\ rc' = rc /\ rc = "running"
        BY <2>1, <3>3 DEF Typed
      <4>2. QED  BY <4>1 DEF Taken, Succeeded
    <3>4. QED  BY <2>1, <3>1, <3>2, <3>3
  <2>11. QED  BY <2>5, <2>6, <2>7, <2>8, <2>9, <2>10
<1>6. QED  BY <1>4, <1>5

LEMMA NextPreserves == EEInv /\ [EENext]_vars => EEInv'
<1> SUFFICES ASSUME EEInv, [EENext]_vars PROVE EEInv'
  OBVIOUS
<1>1. CASE UNCHANGED vars
  <2>1. UNCHANGED <<run, pc, rc, host, img, base, tmp, guest, cache, online, tools, verdict, timedOut>>
    BY <1>1 DEF vars, hostVars, guestVars
  <2>2. EETypeOK'
    BY <2>1 DEF EEInv, EETypeOK
  <2>3. Typed' /\ Prepared' /\ ImagesReady'
    BY <2>1 DEF EEInv, Typed, Prepared, ImagesReady, ThisRuns
  <2>4. Handed' /\ GuestDone' /\ Taken'
    BY <2>1 DEF EEInv, Handed, GuestDone, Taken, ThisRuns, OwnReport, OwnImage, Succeeded
  <2>5. QED  BY <2>2, <2>3, <2>4 DEF EEInv
<1>2. CASE HostNext
  BY <1>2, StartRunPreserves, StageOnePreserves, CheckFirmwarePreserves, DownloadPreserves,
     MoveImagePreserves, MakeImagesPreserves, PowerOffPreserves, TimeoutPreserves,
     TakeReportPreserves DEF HostNext
<1>3. CASE Abort
  BY <1>3, AbortPreserves
<1>4. CASE GuestNext
  BY <1>4, InstallToolsPreserves, MountEspPreserves, RunReportPreserves,
     RemoveOldReportPreserves, CopyReportPreserves, WriteBackPreserves, SyncPreserves
     DEF GuestNext
<1>5. QED  BY <1>1, <1>2, <1>3, <1>4 DEF EENext

LEMMA RunInvariant == EESpec => []EEInv
BY InitEstablishes, NextPreserves, PTL DEF EESpec

-----------------------------------------------------------------------------
\* The scripts of host and guest keep their types for any number of runs, and
\* the guest's never works while the host does.
THEOREM RunTypeCorrect == EESpec => []EETypeOK
<1>1. EEInv => EETypeOK  BY DEF EEInv
<1>2. QED  BY <1>1, RunInvariant, PTL

\* The files run-e2e-linux.sh leaves when it ends well are those of that run,
\* whatever any number of earlier ones left behind.
THEOREM RunLeavesItsOwn == EESpec => []SuccessIsThisRuns
<1>1. EEInv => SuccessIsThisRuns  BY DEF EEInv, Taken, SuccessIsThisRuns
<1>2. QED  BY <1>1, RunInvariant, PTL

\* It ends well only behind a guest whose report passed the contract.
THEOREM RunPassed == EESpec => []SuccessMeansPassed
<1>1. EEInv => SuccessMeansPassed  BY DEF EEInv, Taken, SuccessMeansPassed
<1>2. QED  BY <1>1, RunInvariant, PTL

\* Only the timeout can leave half a report behind a run that ended well; the
\* firmware's JSON is whole.
THEOREM RunIsWhole == EESpec => []HalfOnlyOnTimeout
<1>1. EEInv => HalfOnlyOnTimeout
  <2> SUFFICES ASSUME EEInv, Succeeded PROVE HalfOnlyOnTimeout
    BY DEF HalfOnlyOnTimeout
  <2>1. /\ host["firmware"].state = "whole"
        /\ ~timedOut => \A f \in Reports : host[f].state = "whole"
    BY DEF EEInv, Taken
  <2>2. QED  BY <2>1 DEF HalfOnlyOnTimeout
<1>2. QED  BY <1>1, RunInvariant, PTL

\* From platform_report to the end of its script, the guest has the whole JSON
\* of the firmware that booted in this run, and the host the same.
THEOREM GuestCompares == EESpec => []GuestSeesThisFirmware
<1>1. EEInv => GuestSeesThisFirmware
  <2> SUFFICES ASSUME EEInv, guest # "off"
               PROVE  cache["firmware"] = ThisRuns /\ host["firmware"] = ThisRuns
    BY DEF GuestSeesThisFirmware, ThisRuns
  <2>1. pc = "qemu"
    BY DEF EEInv, EETypeOK
  <2>2. QED  BY <2>1 DEF EEInv, Handed, Prepared
<1>2. QED  BY <1>1, RunInvariant, PTL

\* The guest's disk stands on a whole cloud image, however often a download
\* was broken off.
THEOREM RunImageWhole == EESpec => []ImageWhole
<1>1. EEInv => ImageWhole  BY DEF EEInv, ImagesReady, ImageWhole
<1>2. QED  BY <1>1, RunInvariant, PTL

\* A run that ends well leaves its own, passed and whole unless it timed out.
THEOREM GoodRun == EESpec => []GoodRunLeavesItsOwn
<1>1. SuccessIsThisRuns /\ SuccessMeansPassed /\ HalfOnlyOnTimeout => GoodRunLeavesItsOwn
  BY DEF GoodRunLeavesItsOwn
<1>2. QED  BY <1>1, RunLeavesItsOwn, RunPassed, RunIsWhole, PTL

\* The guest of any run is given whole files, and this run's firmware.
THEOREM GuestGiven == EESpec => []GuestIsGivenWhole
<1>1. ImageWhole /\ GuestSeesThisFirmware => GuestIsGivenWhole
  BY DEF GuestIsGivenWhole
<1>2. QED  BY <1>1, RunImageWhole, GuestCompares, PTL
=============================================================================
