-------------------------- MODULE MCPlatformReport --------------------------
(***************************************************************************)
(* Contracts of up to four lines for the reader, of up to three and the    *)
(* one of the repository for the checks.                                   *)
(***************************************************************************)
EXTENDS PlatformReport

L(kind, key, value, number) ==
    [kind |-> kind, key |-> key, value |-> value, number |-> number]
Key(key) == L("entry", key, "", Unknown)
Entry(key, value) == L("entry", key, value, Unknown)
Item(value) == L("item", "", value, Unknown)
AtLeast(n) == L("entry", "min_memory_mib", "number", n)

MCLines ==
    {L("blank", "", "", Unknown), L("plain", "", "", Unknown),
     Item("x"), Item("FACP"),
     Key("expected_firmware_vendors"), Key("required_acpi_tables"),
     Key("required_linux_artifacts"), Entry("required_acpi_tables", "x"),
     Entry("platform_id", "x"), Entry("expected_firmware_vendor", "y"),
     AtLeast(2), AtLeast(Unknown),
     Entry("require_smbios", "yes"), Entry("require_smbios", "maybe"),
     Entry("require_smbios", "no"), Entry("colour", "red")}

MCLongFiles == {NoFile} \cup BoundedSeq(MCLines, 4)

\* expected-platform.yaml, with a floor a small machine can miss.
MCContract ==
    <<Entry("platform_id", "lab"), Key("expected_firmware_vendors"),
      Item("x"), Item("y"), Key("required_acpi_tables"), Item("FACP"),
      Item("APIC"), AtLeast(2), Entry("require_smbios", "true"),
      Key("required_linux_artifacts"), Item("dmidecode"), Item("lscpu")>>

MCFiles == {NoFile, MCContract, MCContract \o <<AtLeast(1)>>}
             \cup BoundedSeq({Item("x"), Item("FACP"), Key("expected_firmware_vendors"),
                              Key("required_acpi_tables"), Key("required_linux_artifacts"),
                              Entry("expected_firmware_vendor", "y"),
                              Entry("platform_id", "lab"), AtLeast(2),
                              Entry("require_smbios", "yes"), Entry("require_smbios", "no")}, 3)

F(kind, id, vendor, tables, pages) ==
    [kind |-> kind, platformId |-> id, vendor |-> vendor, tables |-> tables,
     usablePages |-> pages, summary |-> "text"]
Nothing(kind) == F(kind, Absent, Absent, {}, Unknown)

MCFirmwareFiles ==
    {Nothing(kind) : kind \in {"not given", "not JSON", "not UTF-8", "array", "object"}}
      \cup {F("object", "lab", "x", {"FACP", "APIC"}, 512),
            F("object", "other", "y", {"FACP"}, 511),
            [F("object", "lab", Absent, {"APIC"}, 512) EXCEPT !.summary = "another kind"],
            [F("object", "lab", "y", {"FACP"}, Unknown) EXCEPT !.summary = "not encodable"]}

MCLinuxViews ==
    {[statuses |-> ("dmidecode" :> "ok" @@ "lscpu" :> "ok"), identity |-> TRUE],
     [statuses |-> ("dmidecode" :> "missing" @@ "lscpu" :> "ok" @@ "x" :> "ok"),
      identity |-> TRUE],
     [statuses |-> ("dmidecode" :> "failed"), identity |-> FALSE]}

MCOneFirmware == {F("object", "lab", "x", {"FACP"}, 512)}
MCOneLinux == {[statuses |-> ("x" :> "ok"), identity |-> TRUE]}

\* Every long contract before one machine, shorter ones before all of them.
MCSettings ==
    {[files |-> MCFiles, linux |-> MCLinuxViews, firmware |-> MCFirmwareFiles],
     [files |-> MCLongFiles, linux |-> MCOneLinux, firmware |-> MCOneFirmware]}
=============================================================================
