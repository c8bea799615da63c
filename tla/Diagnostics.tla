----------------------------- MODULE Diagnostics -----------------------------
(***************************************************************************)
(* diagnostics.py: what the report makes of the three views it is given.   *)
(*   linux      statuses   status word of each artifact with a status file *)
(*              identity   something was parsed from dmidecode.txt         *)
(*   firmware   loaded, and the members of the JSON the checks look at,    *)
(*              Absent or Unknown where the document has none of them;     *)
(*              summary, what the Markdown's summary of it comes to        *)
(*   expected   the contract, as expected.py hands it over                 *)
(* The wording of the details is left out.                                 *)
(***************************************************************************)
EXTENDS Integers, Sequences, SequencesExt

Absent == "none"       \* None, for a text
Unknown == -1          \* None, for a number

\* A view that was not loaded holds no data.
NoFirmware == [loaded |-> FALSE, object |-> TRUE, platformId |-> Absent,
               vendor |-> Absent, tables |-> {}, usablePages |-> Unknown,
               summary |-> "text"]

Check(word, name) == [status |-> word, name |-> name]

\* What a clause about Linux says; one about the firmware says it only of a
\* firmware view that was loaded.
Judged(met) == IF met THEN "PASS" ELSE "FAIL"

\* Defect: a view that was not loaded is judged all the same.
OfFirmwareUnloaded(firmware, met) == Judged(met)

OfFirmware(firmware, met) == IF firmware.loaded THEN Judged(met) ELSE "WARN"

-----------------------------------------------------------------------------
PlatformIdCheck(firmware, expected) ==
    IF expected.platform_id = Absent THEN <<>>
    ELSE <<Check(OfFirmware(firmware, firmware.platformId = expected.platform_id),
                 <<"platform_id">>)>>

\* The single vendor joins the list: any one of them will do.
Vendors(expected) ==
    expected.expected_firmware_vendors
        \o (IF expected.expected_firmware_vendor = Absent THEN <<>>
            ELSE <<expected.expected_firmware_vendor>>)

VendorCheck(firmware, expected) ==
    IF Vendors(expected) = <<>> THEN <<>>
    ELSE <<Check(OfFirmware(firmware, Contains(Vendors(expected), firmware.vendor)),
                 <<"expected_firmware_vendor">>)>>

AcpiTableChecks(firmware, expected) ==
    [i \in DOMAIN expected.required_acpi_tables |->
        LET wanted == expected.required_acpi_tables[i]
        IN  Check(OfFirmware(firmware, wanted \in firmware.tables),
                  <<"required_acpi_table", wanted>>)]

ArtifactChecks(linux, expected) ==
    [i \in DOMAIN expected.required_linux_artifacts |->
        LET wanted == expected.required_linux_artifacts[i]
        IN  Check(Judged(/\ wanted \in DOMAIN linux.statuses
                         /\ linux.statuses[wanted] = "ok"),
                  <<"required_linux_artifact", wanted>>)]

\* Defect: megabytes instead of mebibytes.
MemoryMb(firmware) == (firmware.usablePages * 4096) \div (1000 * 1000)

\* 4 KiB pages to MiB, rounded down.
MemoryMib(firmware) == (firmware.usablePages * 4096) \div (1024 * 1024)

MemoryCheck(firmware, expected) ==
    IF expected.min_memory_mib = Unknown THEN <<>>
    ELSE <<Check(OfFirmware(firmware,
                            /\ firmware.usablePages # Unknown
                            /\ MemoryMib(firmware) >= expected.min_memory_mib),
                 <<"min_memory_mib">>)>>

SmbiosCheck(linux, expected) ==
    IF ~expected.require_smbios THEN <<>>
    ELSE <<Check(Judged(linux.identity), <<"require_smbios">>)>>

ExpectedChecks(linux, firmware, expected) ==
    IF ~expected.loaded THEN <<Check("WARN", <<"expected_platform_loaded">>)>>
    ELSE PlatformIdCheck(firmware, expected)
           \o VendorCheck(firmware, expected)
           \o AcpiTableChecks(firmware, expected)
           \o ArtifactChecks(linux, expected)
           \o MemoryCheck(firmware, expected)
           \o SmbiosCheck(linux, expected)

\* The artifacts listed under a status word.
Listed(linux, word) == {a \in DOMAIN linux.statuses : linux.statuses[a] = word}

MissingAcpi(firmware) ==
    IF firmware.loaded THEN {"FACP", "APIC", "MCFG"} \ firmware.tables ELSE {}

\* A document that is not an object has no get: the report is not made.
Raises(firmware) == firmware.loaded /\ ~firmware.object

BuildDiagnostics(linux, firmware, expected) ==
    [missing     |-> Listed(linux, "missing"),
     failed      |-> Listed(linux, "failed"),
     missingAcpi |-> MissingAcpi(firmware),
     checks      |-> ExpectedChecks(linux, firmware, expected)]

ReportHasFailures(diagnostics) ==
    \E i \in DOMAIN diagnostics.checks : diagnostics.checks[i].status = "FAIL"
=============================================================================
