------------------------------- MODULE Console ------------------------------
(***************************************************************************)
(* What FirmwareView.efi shows of a system and what it reports of it, in   *)
(* the order of UefiMain: PrintAcpiTables looks up the MADT and the MCFG   *)
(* and hands them to PrintMadt, PrintMcfg and PrintPciDevicesFromMcfg;     *)
(* the handoff is built; PrintSmbiosBasicInfo; the report looks the tables *)
(* up again and sums up the memory map; PrintMemoryMapSnapshot.  Each part *)
(* has its own module and its own variables; the lookup decides what the   *)
(* walks are given, a failing handoff or report what is shown at all.      *)
(***************************************************************************)
EXTENDS AcpiTables, Madt, PciConfig, Smbios, MemoryMap

CONSTANTS Systems,     \* families of systems the program may be started on:
                       \* sets of records of rsdp, memory, table, functions,
                       \* firmware and map
          NoMadt       \* the table of a lookup that found nothing

ASSUME NothingAssumption == NoMadt \in Tables /\ ~NoMadt.found

\* What a lookup that returned address a of memory m, or 0 for NULL, hands to
\* the readers of the MCFG, on a machine where these functions answer.
McfgAt(m, a, functions) ==
    [found |-> a # 0, signed |-> m[a].signature = "MCFG", length |-> m[a].length,
     windows |-> m[a].windows, functions |-> functions]

\* What firmware may leave in memory is of these types; whether it is sound is
\* left open.
ASSUME SystemsAssumption ==
    \A family \in Systems :
        /\ {s.table : s \in family} \subseteq Tables
        /\ {s.firmware : s \in family} \subseteq Firmwares
        /\ \A s \in family : /\ AcpiMemory(s.rsdp, s.memory)
                             /\ \A a \in DOMAIN s.memory :
                                   WellFormedMachine(McfgAt(s.memory, a, s.functions))
                             /\ WellFormedMap(s.map)

VARIABLE turn          \* the part of UefiMain that is on

consolevars == <<avars, madtvars, pcivars, svars, mapvars, turn>>

\* PrintAcpiTables passes on the table its search finds, else NULL.
LookedUp(name) ==
    IF rsdp = NULL THEN 0 ELSE FindAcpiTable(RootOf, RootName, RootEntrySize, name)

-----------------------------------------------------------------------------
CInit ==
    /\ \E family \in Systems : \E s \in family :
          /\ rsdp = s.rsdp
          /\ memory = s.memory
          /\ table = IF LookedUp("APIC") # 0 THEN s.table ELSE NoMadt
          /\ machine = McfgAt(memory, LookedUp("MCFG"), s.functions)
          /\ firmware = s.firmware
          /\ bootInfo = s.map
    /\ AInit /\ MadtCalled /\ PciInit /\ SmbiosCalled /\ MInit
    /\ turn = "acpi"

\* Without an RSDP, PrintAcpiTables returns before it calls a parser.
ShowAcpi ==
    /\ turn = "acpi"
    /\ PrintAcpiTables
    /\ turn' = IF rsdp = NULL THEN "handoff" ELSE "madt"
    /\ UNCHANGED <<madtvars, pcivars, svars, mapvars>>

ShowMadt ==
    /\ turn = "madt"
    /\ PrintMadt
    /\ turn' = IF mpc' = "done" THEN "pci" ELSE "madt"
    /\ UNCHANGED <<avars, pcivars, svars, mapvars>>

ShowPci ==
    /\ turn = "pci"
    /\ PciNext
    /\ turn' = IF pcipc' = "done" THEN "handoff" ELSE "pci"
    /\ UNCHANGED <<avars, madtvars, svars, mapvars>>

\* BuildBootHandoffInfo: if it fails, nothing more is shown or reported.
BuildHandoff ==
    /\ turn = "handoff"
    /\ turn' \in {"smbios", "done"}
    /\ UNCHANGED <<avars, madtvars, pcivars, svars, mapvars>>

ShowSmbios ==
    /\ turn = "smbios"
    /\ SmbiosNext
    /\ turn' = IF pc' = "done" THEN "report" ELSE "smbios"
    /\ UNCHANGED <<avars, madtvars, pcivars, mapvars>>

\* WriteFirmwareViewJson gets no buffer: the map is not shown either.
ReportFails ==
    /\ turn = "report"
    /\ acpiJson = NULL
    /\ turn' = "done"
    /\ UNCHANGED <<avars, madtvars, pcivars, svars, mapvars>>

ReportTables ==
    /\ turn = "report"
    /\ ReportAcpi
    /\ UNCHANGED <<madtvars, pcivars, svars, mapvars, turn>>

\* The report is composed to its end; whether it is written decides about the
\* console's map.
ReportMemory ==
    /\ turn = "report"
    /\ acpiJson # NULL
    /\ MNext
    /\ turn' \in IF walk' = "json" THEN {"report"} ELSE {"memory", "done"}
    /\ UNCHANGED <<avars, madtvars, pcivars, svars>>

ShowMemory ==
    /\ turn = "memory"
    /\ MNext
    /\ turn' = IF walk' = "over" THEN "done" ELSE "memory"
    /\ UNCHANGED <<avars, madtvars, pcivars, svars>>

CNext == \/ ShowAcpi \/ ShowMadt \/ ShowPci \/ BuildHandoff \/ ShowSmbios
         \/ ReportFails \/ ReportTables \/ ReportMemory \/ ShowMemory

\* One thread, and no call in it waits for anything: it goes on as long as
\* there is a next step.
CSpec == CInit /\ [][CNext]_consolevars
CFairSpec == CSpec /\ WF_consolevars(CNext)

-----------------------------------------------------------------------------
\* The windows that are scanned are those the listing above them calls valid.
\* The report looks its MCFG up again.  If it has the console's, every scanned
\* window is in the report, in its place, and what the report has beside them
\* the console calls invalid.  It has another only where that one is not to be
\* trusted: the windows of the report that were not scanned are then those of
\* a corrupt table, of a corrupt root, or of the RSDT a newer RSDP passes over.
WindowsAgree ==
    /\ pcipc # "list" => IsPrefix(scanned, listed)
    /\ acpiJson # NULL =>
        LET reported == ReportedWindows(McfgAt(memory, acpiJson.mcfg, machine.functions))
        IN  /\ scanned = listed
            /\ acpiJson.mcfg = acpiConsole.mcfg =>
                  /\ \A i \in DOMAIN scanned :
                        /\ scanned[i] + 1 \in DOMAIN reported
                        /\ reported[scanned[i] + 1] = machine.windows[scanned[i] + 1]
                  /\ \A i \in DOMAIN reported :
                        i - 1 \notin Range(scanned) => InvalidForListing(reported[i])
            /\ acpiJson.mcfg # acpiConsole.mcfg =>
                  acpiJson.mcfg # 0 /\ ~TrustedTable(acpiJson.mcfg)

\* Whatever the firmware left in its tables, sound or not, every walk over them
\* ends, and the program comes to the end of its listing.
ConsoleEnds == <>(turn = "done")
=============================================================================
