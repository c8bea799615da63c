---------------------------- MODULE ConfigTables ----------------------------
(***************************************************************************)
(* The GUID-tagged directory EFI_SYSTEM_TABLE.ConfigurationTable and the   *)
(* lookup of Firmware/ConfigTables.c.  A directory is a sequence of        *)
(* entries [guid, table]; a table is whatever the entry points to.         *)
(***************************************************************************)
EXTENDS Naturals, Sequences, SequencesExt

CONSTANTS NULL    \* the NULL pointer

VARIABLES directory    \* EFI_SYSTEM_TABLE.ConfigurationTable

\* The GUIDs the program looks for, and those it only knows a name for.
Acpi20  == "gEfiAcpi20TableGuid"
Acpi10  == "gEfiAcpi10TableGuid"
Smbios3 == "gEfiSmbios3TableGuid"
Smbios  == "gEfiSmbiosTableGuid"
Lab     == "gUefiBootLabPlatformTableGuid"

\* FindConfigurationTable: the table of the first entry with the GUID.
FindConfigurationTable(entries, guid) ==
    LET i == SelectInSeq(entries, LAMBDA entry : entry.guid = guid)
    IN  IF i = 0 THEN NULL ELSE entries[i].table

\* The RSDP UefiMain hands to every ACPI consumer: the 2.0 root, else the 1.0
\* root, else none.
FindRsdp(entries) ==
    IF FindConfigurationTable(entries, Acpi20) # NULL
    THEN FindConfigurationTable(entries, Acpi20)
    ELSE FindConfigurationTable(entries, Acpi10)

\* The boot service InstallConfigurationTable: replace the pointer of an entry
\* that is there, add an entry that is not.
Installed(entries, guid, table) ==
    LET i == SelectInSeq(entries, LAMBDA entry : entry.guid = guid)
    IN  IF i = 0 THEN Append(entries, [guid |-> guid, table |-> table])
        ELSE [entries EXCEPT ![i].table = table]
=============================================================================
