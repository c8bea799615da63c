--------------------------- MODULE PlatformReport ---------------------------
(***************************************************************************)
(* platform_report.py report: generate_report of writer.py and main of     *)
(* cli.py.  The Linux artifacts are read, then the firmware's JSON, then   *)
(* the contract line by line; the report is composed and written twice, as *)
(* JSON and as Markdown, and the exit status tells what it says.           *)
(***************************************************************************)
EXTENDS ExpectedPlatform, FiniteSets

CONSTANT Settings          \* what the command may meet: records of
                           \*   files      contract files
                           \*   linux      what the artifact directory may hold
                           \*   firmware   what --firmware-json may name

\* The ways build_firmware_view ends: not loaded, loaded, or an exception
\* nobody catches (a UnicodeDecodeError is no JSONDecodeError).
Unreadable == {"not given", "absent", "not JSON"}
Undecodable == "not UTF-8"

\* What the files may be, whatever they say: no text is None, a number is one
\* or Unknown, and a firmware file that is not read has no members.
ContractFile(f) ==
    /\ Len(f) \in Nat /\ DOMAIN f = 1 .. Len(f)
    /\ \A i \in DOMAIN f : f[i].value # Absent /\ f[i].number \in Int
FirmwareFile(f) ==
    /\ f.usablePages \in Int
    /\ f.kind \in Unreadable =>
          f.platformId = Absent /\ f.vendor = Absent /\ f.tables = {} /\ f.usablePages = Unknown

ASSUME SettingsAssumption ==
    \A s \in Settings : /\ \A f \in s.files : ContractFile(f)
                        /\ \A l \in s.linux : l.identity \in BOOLEAN
                        /\ \A f \in s.firmware : FirmwareFile(f)

VARIABLES linux,           \* the artifact directory
          firmwareFile,    \* the file, never written
          failOnError,     \* --fail-on-error
          pc,              \* the next call of generate_report and main
          firmware,        \* firmware_view
          diagnostics,     \* None before they are built
          json, markdown,  \* the files: "old", "partial" or "new"
          status           \* the exit status, Running before

given == <<linux, firmwareFile, failOnError, file>>
pvars == <<given, at, current, expected, pc, firmware, diagnostics, json,
           markdown, status>>

Running == -1
Killed137 == 137
NoDiagnostics == [missing |-> {}, failed |-> {}, missingAcpi |-> {}, checks |-> <<>>]

BuildFirmwareView(f) ==
    IF f.kind \in Unreadable THEN NoFirmware
    ELSE [loaded      |-> TRUE,
          object      |-> f.kind = "object",
          platformId  |-> f.platformId,
          vendor      |-> f.vendor,
          tables      |-> f.tables,
          usablePages |-> f.usablePages,
          summary     |-> f.summary]

-----------------------------------------------------------------------------
PInit == /\ \E s \in Settings : /\ file \in s.files
                                /\ linux \in s.linux
                                /\ firmwareFile \in s.firmware
         /\ EInit
         /\ failOnError \in BOOLEAN
         /\ pc = "firmware"
         /\ firmware = NoFirmware
         /\ diagnostics = NoDiagnostics
         /\ json = "old" /\ markdown = "old"
         /\ status = Running

\* An exception leaves main: the interpreter exits with 1.
Raise == /\ pc' = "exited"
         /\ status' = 1

ReadFirmware ==
    /\ pc = "firmware"
    /\ IF firmwareFile.kind = Undecodable
       THEN Raise /\ UNCHANGED firmware
       ELSE /\ firmware' = BuildFirmwareView(firmwareFile)
            /\ pc' = "contract"
            /\ UNCHANGED status
    /\ UNCHANGED <<given, at, current, expected, diagnostics, json, markdown>>

LoadExpectedPlatform ==
    /\ pc = "contract" /\ ReadLine
    /\ UNCHANGED <<given, pc, firmware, diagnostics, json, markdown, status>>

Diagnose ==
    /\ pc = "contract" /\ Parsed
    /\ IF Raises(firmware)
       THEN Raise /\ UNCHANGED diagnostics
       ELSE /\ diagnostics' = BuildDiagnostics(linux, firmware, expected)
            /\ pc' = "json"
            /\ UNCHANGED status
    /\ UNCHANGED <<given, at, current, expected, firmware, json, markdown>>

\* Defect: the Markdown report goes first.
WriteJsonLast ==
    /\ pc = "json"
    /\ markdown' = "new"
    /\ pc' = "markdown"
    /\ UNCHANGED <<given, at, current, expected, firmware, diagnostics, json, status>>

WriteJson ==
    /\ pc = "json"
    /\ json' = "new"
    /\ pc' = "markdown"
    /\ UNCHANGED <<given, at, current, expected, firmware, diagnostics, markdown, status>>

WriteMarkdown ==
    /\ pc = "markdown" /\ firmware.summary = "text"
    /\ markdown' = "new"
    /\ pc' = "main"
    /\ UNCHANGED <<given, at, current, expected, firmware, diagnostics, json, status>>

\* write_markdown takes the members it sums up for objects and lists of texts,
\* which no check before it insists on: another kind raises before the file is
\* opened.  A text that UTF-8 cannot encode raises when it is written.
MarkdownRaises ==
    /\ pc = "markdown" /\ firmware.summary # "text"
    /\ markdown' = IF firmware.summary = "not encodable" THEN "partial" ELSE markdown
    /\ Raise
    /\ UNCHANGED <<given, at, current, expected, firmware, diagnostics, json>>

Main ==
    /\ pc = "main"
    /\ status' = IF failOnError /\ ReportHasFailures(diagnostics) THEN 1 ELSE 0
    /\ pc' = "exited"
    /\ UNCHANGED <<given, at, current, expected, firmware, diagnostics, json, markdown>>

\* The program may be stopped at any step; write_text truncates its file
\* before it writes, and may have come no further.
Stopped ==
    /\ pc # "exited"
    /\ json' \in IF pc = "json" THEN {json, "partial"} ELSE {json}
    /\ markdown' \in IF pc = "markdown" THEN {markdown, "partial"} ELSE {markdown}
    /\ pc' = "exited" /\ status' = Killed137
    /\ UNCHANGED <<given, at, current, expected, firmware, diagnostics>>

PNext == \/ ReadFirmware \/ LoadExpectedPlatform \/ Diagnose
         \/ WriteJson \/ WriteMarkdown \/ MarkdownRaises \/ Main \/ Stopped

PSpec == PInit /\ [][PNext]_pvars

-----------------------------------------------------------------------------
(* What the contract's file says, by the positions of its lines.           *)

EntriesOf(key) == {i \in DOMAIN file : file[i].kind = "entry" /\ file[i].key = key}

\* The line an item belongs to: the last one before it that is no item.
Heads(i) == {j \in 1 .. i - 1 : file[j].kind \notin {"blank", "item"}}
Under(i, key) == \E j \in Heads(i) \cap EntriesOf(key) : \A k \in Heads(i) : k <= j
BelongsTo(i, key) == file[i].kind = "item" /\ Under(i, key)

ItemsOf(key) == {i \in DOMAIN file : BelongsTo(i, key)}
ItemsUpTo(key, n) == {i \in ItemsOf(key) : i <= n}

WellFormedLine(i) ==
    \/ file[i].kind = "blank"
    \/ file[i].kind = "item" /\ \E key \in ListKeys : BelongsTo(i, key)
    \/ /\ file[i].kind = "entry"
       /\ CASE file[i].key \in ListKeys         -> file[i].value = NoText
            [] file[i].key = "min_memory_mib"   -> file[i].number # Unknown
            [] file[i].key = "require_smbios"   -> file[i].value \in True \cup False
            [] OTHER -> file[i].key \in {"platform_id", "expected_firmware_vendor"}

WellFormed == file # NoFile /\ \A i \in DOMAIN file : WellFormedLine(i)

LastOf(key) == CHOOSE i \in EntriesOf(key) : \A j \in EntriesOf(key) : j <= i

\* What a well-formed file demands, each demand once.
Demands ==
    {<<"platform_id">> : i \in EntriesOf("platform_id")}
      \cup {<<"expected_firmware_vendor">> :
              i \in EntriesOf("expected_firmware_vendor") \cup ItemsOf("expected_firmware_vendors")}
      \cup {<<"required_acpi_table", file[i].value>> : i \in ItemsOf("required_acpi_tables")}
      \cup {<<"required_linux_artifact", file[i].value>> : i \in ItemsOf("required_linux_artifacts")}
      \cup {<<"min_memory_mib">> : i \in EntriesOf("min_memory_mib")}
      \cup {<<"require_smbios">> :
              i \in {j \in EntriesOf("require_smbios") :
                       j = LastOf("require_smbios") /\ file[j].value \in True}}

\* Whether the files on disk meet a demand.
Met(demand) ==
    CASE demand[1] = "platform_id" ->
           firmwareFile.platformId = file[LastOf("platform_id")].value
      [] demand[1] = "expected_firmware_vendor" ->
           \/ \E i \in ItemsOf("expected_firmware_vendors") : file[i].value = firmwareFile.vendor
           \/ /\ EntriesOf("expected_firmware_vendor") # {}
              /\ file[LastOf("expected_firmware_vendor")].value = firmwareFile.vendor
      [] demand[1] = "required_acpi_table" -> demand[2] \in firmwareFile.tables
      [] demand[1] = "required_linux_artifact" ->
           demand[2] \in DOMAIN linux.statuses /\ linux.statuses[demand[2]] = "ok"
      [] demand[1] = "min_memory_mib" ->
           /\ firmwareFile.usablePages # Unknown
           /\ firmwareFile.usablePages * 4 >= 1024 * file[LastOf("min_memory_mib")].number
      [] OTHER -> linux.identity

Judgements == {diagnostics.checks[i] : i \in DOMAIN diagnostics.checks}
Diagnosed == pc \in {"json", "markdown", "main"} \/ status = 0

-----------------------------------------------------------------------------
(* Properties.                                                             *)

\* A file is accepted exactly when every line of it is well formed, and what
\* was read of it then is what it says: the items of a list are the items
\* below its key, each at the place it has among them, however lists, blank
\* lines and other entries alternate.  A rejected file leaves nothing behind.
ContractIsWhatFileSays ==
    Parsed =>
      /\ expected.loaded <=> WellFormed
      /\ ~expected.loaded => expected = NotLoaded
      /\ expected.loaded =>
           \A key \in ListKeys :
             /\ Len(expected[key]) = Cardinality(ItemsOf(key))
             /\ \A i \in ItemsOf(key) :
                   expected[key][Cardinality(ItemsUpTo(key, i))] = file[i].value

\* Every demand of an accepted contract is judged, nothing else is, and no
\* demand gets two verdicts.  A check passes exactly if the files on disk meet
\* its demand: what was not loaded passes nothing, and is no failure either.
VerdictsMatchEvidence ==
    Diagnosed /\ expected.loaded =>
      /\ {check.name : check \in Judgements} = Demands
      /\ Cardinality(Judgements) = Cardinality(Demands)
      /\ \A check \in Judgements :
        /\ check.status = "PASS" <=> Met(check.name)
        /\ check.status = "WARN" => firmwareFile.kind \in Unreadable

\* A command that wrote its report exits with 1 exactly if --fail-on-error
\* was given and an accepted contract demands what the files on disk do not
\* meet; only what it demands of the firmware is let go when no firmware view
\* was loaded.
ExitTellsWhetherMet ==
    status \in {0, 1} /\ markdown = "new" =>
      (status = 1 <=>
         /\ failOnError /\ WellFormed
         /\ \E demand \in Demands :
              /\ ~Met(demand)
              /\ firmware.loaded \/ demand[1] \in {"required_linux_artifact", "require_smbios"})

\* A program that was not stopped either wrote both reports or, raising an
\* exception, left both as they were, unless it was the summary of the firmware
\* view that raised it, with the JSON report written; a new Markdown report
\* never stands beside an old JSON report.
ReportsComeInPairs ==
    /\ markdown # "old" => json = "new"
    /\ status = 0 => markdown = "new"
    /\ status = 1 => json = markdown \/ (json = "new" /\ firmware.summary # "text")
=============================================================================
