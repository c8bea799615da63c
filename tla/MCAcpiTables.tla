---------------------------- MODULE MCAcpiTables ----------------------------
(***************************************************************************)
(* Firmware with an XSDT at 1, an RSDT at 2, MADTs at 3 and 4, an MCFG at  *)
(* 5, and on page zero what no firmware put there.  A root lists up to two *)
(* entries, among them NULL ones, twice the same, and the two roots need   *)
(* not agree; a root may be shorter than its header or end in half an      *)
(* entry, and any checksum may be wrong.                                   *)
(***************************************************************************)
EXTENDS AcpiTables

AcpiTable(signature, checksum, length, entries) ==
    [signature |-> signature, checksum |-> checksum, length |-> length, entries |-> entries,
     windows |-> <<>>]

Lists == {<<>>, <<4>>, <<0, 4>>, <<3, 4>>, <<4, 3>>, <<3, 5>>, <<5, 0>>}

Roots(name, entrySize) ==
    { AcpiTable(name, checksum, HeaderSize + entrySize * Len(l) + tail, l) :
        checksum \in {0, 1}, tail \in {0, 3}, l \in Lists }
      \cup { AcpiTable(name, 0, HeaderSize - 1, <<>>), AcpiTable("OTHR", 0, HeaderSize, <<>>) }

\* Firmware memory with these roots, checksums of one MADT and of the MCFG.
MemoryWith(xsdt, rsdt, madt, mcfg) ==
    [a \in 0 .. 5 |-> CASE a = 0 -> AcpiTable("JUNK", 1, 0, <<>>)
                        [] a = 1 -> xsdt
                        [] a = 2 -> rsdt
                        [] a = 3 -> AcpiTable("APIC", madt, HeaderSize + 8, <<>>)
                        [] a = 4 -> AcpiTable("APIC", 0, HeaderSize + 8, <<>>)
                        [] a = 5 -> AcpiTable("MCFG", mcfg, HeaderSize + 8, <<>>)]

Xsdts == Roots("XSDT", XsdtEntrySize)
Rsdts == Roots("RSDT", RsdtEntrySize)
NoRoot == AcpiTable("OTHR", 0, HeaderSize, <<>>)

Rsdp(revision, xsdt, rsdt) == [revision |-> revision, xsdt |-> xsdt, rsdt |-> rsdt]

\* An RSDP and the memory behind it; a root varies where the RSDP leads to it.
MCAcpi ==
    { <<Rsdp(2, 1, 2), MemoryWith(x, r, madt, mcfg)>> :
        x \in Xsdts, r \in Rsdts, madt \in {0, 1}, mcfg \in {0, 1} }
    \cup { <<Rsdp(2, 1, 0), MemoryWith(x, NoRoot, madt, 0)>> : x \in Xsdts, madt \in {0, 1} }
    \cup { <<Rsdp(revision, 0, 2), MemoryWith(NoRoot, r, madt, 0)>> :
              revision \in {0, 2}, r \in Rsdts, madt \in {0, 1} }
    \cup { <<p, MemoryWith(NoRoot, NoRoot, 0, 0)>> :
              p \in {NULL, Rsdp(0, 0, 0), Rsdp(0, 1, 0), Rsdp(2, 0, 0)} }
=============================================================================
