---------------------------- MODULE MCPciConfig ----------------------------
(***************************************************************************)
(* MCFGs of up to two windows and a rest, valid and not, over a machine    *)
(* with devices at both ends of a bus and every kind of BAR.               *)
(***************************************************************************)
EXTENDS PciConfig

Io(v) == 16 * v + 1
Mem32(v) == 16 * v
Mem64(v) == 16 * v + 4
Below1M(v) == 16 * v + 2

\* A function with its registers and the BARs that are in them.
Function(header, bars, declared) == [header |-> header, bars |-> bars, declared |-> declared]

\* Upper halves that look like an I/O BAR, a 64-bit BAR, and zero.
Disk == Function(0, <<Mem64(3), Io(1), Mem64(5), Mem64(1), Io(9), 0>>,
                 << <<0, Mem64(3)>>, <<2, Mem64(5)>>, <<4, Io(9)>> >>)
Network == Function(128, <<Mem32(2), Mem64(7), 0, 0, 0, Below1M(2)>>,
                    << <<0, Mem32(2)>>, <<1, Mem64(7)>>, <<5, Below1M(2)>> >>)
\* The I/O address has the bits of a 64-bit type.
Serial == Function(0, <<Io(4) + 4, Io(2), 0, Mem32(8), 0, 0>>,
                   << <<0, Io(4) + 4>>, <<1, Io(2)>>, <<3, Mem32(8)>> >>)
\* A 64-bit BAR where no register is left for its upper half.
Odd == Function(0, <<0, 0, 0, 0, 0, Mem64(6)>>, << <<5, Mem64(6)>> >>)
\* Behind the two BARs of a bridge come its bus numbers.
Bridge == Function(129, <<Mem64(4), 2, Io(1), 16, 64, 4>>, << <<0, Mem64(4)>> >>)
BridgeOdd == Function(1, <<0, Mem64(4), Io(1), 16, 64, 4>>, << <<1, Mem64(4)>> >>)
CardBus == Function(2, <<16, 16, 16, 16, 16, 16>>, <<>>)

\* Segment 0 answers from page 512, segment 1 from page 2048: buses 0 and 1 of
\* the former, and a bus of the latter.
Populated == 512 :> Bridge @@ 513 :> Disk @@ 520 :> Serial @@ 539 :> Disk @@ 767 :> Network
             @@ 768 :> Odd @@ 2048 :> CardBus @@ 2056 :> Network @@ 2303 :> BridgeOdd

W(base, segment, start, end) == [base |-> base, segment |-> segment, start |-> start, end |-> end]

MCWindows == {W(512, 0, 0, 1), W(512, 0, 4, 5), W(2048, 1, 64, 64), W(0, 0, 0, 255),
              W(4096, 2, 9, 8), W(4096, 3, 255, 255)}

McfgOf(windows, length) == [length |-> length, windows |-> windows]

Full(windows) == McfgOf(windows, McfgSize + WindowSize * Len(windows))

MCMcfgs ==
    { Full(<<>>), McfgOf(<<W(512, 0, 0, 1)>>, McfgSize - 1), McfgOf(<<W(512, 0, 0, 1)>>, 36),
      McfgOf(<<W(512, 0, 0, 1), W(2048, 1, 64, 64)>>, McfgSize + WindowSize + 15) }
    \cup { Full(<<w>>) : w \in MCWindows }
    \cup { Full(<<w, u>>) : w \in MCWindows, u \in MCWindows }
    \cup { Full(<<W(0, 0, 0, 255), w, W(4096, 2, 9, 8)>>) : w \in MCWindows }
=============================================================================
