----------------------------- MODULE MCConsole ------------------------------
(***************************************************************************)
(* The systems of a run: every table, MCFG, SMBIOS and map of the parts    *)
(* behind a sound pair of roots that list it, with the other parts empty;  *)
(* every state of the ACPI memory before empty parts; and two MCFGs, each  *)
(* corrupt or not, in roots that list both, one or none of them.           *)
(***************************************************************************)
EXTENDS Console, MCAcpiTables, MCMadt, MCPciConfig, MCSmbios, MCMemoryMap

McfgTable(checksum, h) ==
    [AcpiTable("MCFG", checksum, h.length, <<>>) EXCEPT !.windows = h.windows]

\* Sound firmware with a MADT of this length and this MCFG.
SoundMemory(madtLength, h) ==
    [a \in 0 .. 5 |-> CASE a = 0      -> AcpiTable("JUNK", 1, 0, <<>>)
                        [] a = 1      -> AcpiTable("XSDT", 0, HeaderSize + 16, <<3, 5>>)
                        [] a = 2      -> AcpiTable("RSDT", 0, HeaderSize + 8, <<3, 5>>)
                        [] a \in 3..4 -> AcpiTable("APIC", 0, madtLength, <<>>)
                        [] a = 5      -> McfgTable(0, h)]

\* An XSDT of this checksum with these entries, an RSDT with the first MCFG.
TwoMcfgs(root, entries, first, second) ==
    [a \in 0 .. 6 |->
        CASE a = 0      -> AcpiTable("JUNK", 1, 0, <<>>)
          [] a = 1      -> AcpiTable("XSDT", root, HeaderSize + 8 * Len(entries), entries)
          [] a = 2      -> AcpiTable("RSDT", 0, HeaderSize + 4, <<5>>)
          [] a \in 3..4 -> AcpiTable("APIC", 0, 44, <<>>)
          [] a = 5      -> McfgTable(first, Full(<<W(512, 0, 0, 1)>>))
          [] a = 6      -> McfgTable(second, Full(<<W(0, 0, 0, 255), W(2048, 1, 64, 64)>>))]

\* A MADT behind its header of 44 bytes, and an MCFG.
Quiet == [rsdp |-> [revision |-> 2, xsdt |-> 1, rsdt |-> 2], memory |-> SoundMemory(44, Full(<<>>)),
          table |-> MadtOf(<<>>), functions |-> Populated, firmware |-> NoSmbios, map |-> NoMap]

MCSystems ==
    { { [Quiet EXCEPT !.rsdp = a[1], !.memory = a[2]] : a \in MCAcpi },
      { [Quiet EXCEPT !.table = t, !.memory = SoundMemory(44 + t.end, Full(<<>>))] :
          t \in MCTables \ {MCNoMadt} },
      { [Quiet EXCEPT !.memory = SoundMemory(44, h)] : h \in MCMcfgs },
      { [Quiet EXCEPT !.rsdp = Rsdp(revision, 1, 2), !.memory = TwoMcfgs(root, l, first, second)] :
          revision \in {0, 2}, root \in {0, 1}, first \in {0, 1}, second \in {0, 1},
          l \in {<<5, 6>>, <<0, 5, 6>>, <<6, 5>>, <<3>>} },
      { [Quiet EXCEPT !.firmware = f] : f \in MCFirmwares },
      { [Quiet EXCEPT !.map = b] : b \in MCMaps } }
=============================================================================
