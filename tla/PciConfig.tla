----------------------------- MODULE PciConfig -----------------------------
(***************************************************************************)
(* The ECAM windows of the MCFG: PrintMcfg of Acpi/Mcfg.c lists them on    *)
(* the console, PrintPciDevicesFromMcfg of Pci/PciConfig.c scans the first *)
(* bus of each, and JsonAppendPciSummary of Report/FirmwareJson.c lists    *)
(* them in the report.  A function of a device is known by its page of     *)
(* configuration space, 4 KiB, in the window; where nothing answers, all   *)
(* reads give ones.                                                        *)
(***************************************************************************)
EXTENDS Integers, Sequences, SequencesExt, FiniteSetsExt

VARIABLES machine,     \* not written by the scan: a record of
                       \*   found      FALSE if there is no MCFG
                       \*   signed     its signature is "MCFG"
                       \*   length     its Length
                       \*   windows    its records of base, segment, start, end
                       \*   functions  from pages to what answers there: a
                       \*              record of header, bars (six registers)
                       \*              and declared (the BARs it has)
          pcipc,       \* "list", "window", "function", "bars" or "done"
          windowIndex, \* Index of the two loops over the windows
          device,      \* Device of ScanPciBus
          function,    \* Function
          bar,         \* BarIndex of PrintPciBars
          listed,      \* the windows PrintMcfg calls valid
          scanned,     \* the windows that were scanned
          functionLines \* the functions printed, each with its BARs; history:
                       \* each with the index of the window it is of

pcivars == <<machine, pcipc, windowIndex, device, function, bar, listed, scanned, functionLines>>

McfgSize == 44         \* the fixed part of the table
WindowSize == 16       \* one allocation structure
Devices == 32
Functions == 8

-----------------------------------------------------------------------------
\* The three refusals, made by PrintMcfg and PrintPciDevicesFromMcfg alike.
Usable == machine.found /\ machine.signed /\ machine.length >= McfgSize

WindowCount == IF Usable THEN (machine.length - McfgSize) \div WindowSize ELSE 0

\* Defect: the last window is left out if nothing follows it.
ReportedWindowsLess(mcfg) ==
    IF mcfg.found /\ mcfg.length > McfgSize
    THEN SubSeq(mcfg.windows, 1, (mcfg.length - McfgSize - 1) \div WindowSize)
    ELSE <<>>

\* JsonAppendPciSummary lists all windows of the MCFG it is given by a lookup
\* of its own, which need not be the one that is scanned.
ReportedWindows(mcfg) ==
    IF mcfg.found /\ mcfg.length >= McfgSize
    THEN SubSeq(mcfg.windows, 1, (mcfg.length - McfgSize) \div WindowSize)
    ELSE <<>>

Window == machine.windows[windowIndex + 1]

\* PrintMcfg has the check of ValidateMcfgEntry in words of its own.
InvalidForListing(w) == w.base = 0 \/ w.start > w.end

ValidateMcfgEntry(w) ==
    /\ w.base # 0
    /\ ~(w.start > w.end)

\* The page of a function: shifts by 20, 15 and 12 bits, in pages.
PciEcamAddress(w, bus, dev, fun) == w.base + 256 * (bus - w.start) + 8 * dev + fun

Bus == Window.start
ConfigBase == PciEcamAddress(Window, Bus, device, function)

Present == ConfigBase \in DOMAIN machine.functions
Answering == machine.functions[ConfigBase]

\* PCI_HEADER_TYPE_MASK takes off the bit of a multi-function device.
HeaderLayout(f) == f.header % 128

BarsIn(f) == CASE HeaderLayout(f) = 0 -> 6
               [] HeaderLayout(f) = 1 -> 2
               [] OTHER               -> 0

BarCount == BarsIn(Answering)

BarValue == Answering.bars[bar + 1]
IsIo(value) == value % 2 = 1

\* Defect: the type of a memory BAR is looked for in an I/O BAR too.
Is64Bare(value) == (value \div 2) % 4 = 2

Is64(value) == ~IsIo(value) /\ (value \div 2) % 4 = 2

-----------------------------------------------------------------------------
PciInit == /\ pcipc = "list"
           /\ windowIndex = 0 /\ device = 0 /\ function = 0 /\ bar = 0
           /\ listed = <<>> /\ scanned = <<>> /\ functionLines = <<>>

\* PrintMcfg: one line per window.
ListWindow ==
    /\ pcipc = "list"
    /\ windowIndex < WindowCount
    /\ listed' = IF InvalidForListing(Window) THEN listed ELSE Append(listed, windowIndex)
    /\ windowIndex' = windowIndex + 1
    /\ UNCHANGED <<machine, pcipc, device, function, bar, scanned, functionLines>>

EndWindows ==
    /\ pcipc = "list"
    /\ windowIndex = WindowCount
    /\ pcipc' = "window"
    /\ windowIndex' = 0
    /\ UNCHANGED <<machine, device, function, bar, listed, scanned, functionLines>>

\* PrintPciDevicesFromMcfg: a window that passes is scanned.
BeginScan ==
    /\ pcipc = "window"
    /\ windowIndex < WindowCount
    /\ ValidateMcfgEntry(Window)
    /\ scanned' = Append(scanned, windowIndex)
    /\ device' = 0 /\ function' = 0
    /\ pcipc' = "function"
    /\ UNCHANGED <<machine, windowIndex, bar, listed, functionLines>>

SkipWindow ==
    /\ pcipc = "window"
    /\ windowIndex < WindowCount
    /\ ~ValidateMcfgEntry(Window)
    /\ windowIndex' = windowIndex + 1
    /\ UNCHANGED <<machine, pcipc, device, function, bar, listed, scanned, functionLines>>

EndScan ==
    /\ pcipc = "window"
    /\ windowIndex = WindowCount
    /\ pcipc' = "done"
    /\ UNCHANGED <<machine, windowIndex, device, function, bar, listed, scanned, functionLines>>

\* The next round of the two loops of ScanPciBus, or the next window.
NextFunction ==
    CASE function + 1 < Functions ->
           /\ function' = function + 1
           /\ pcipc' = "function"
           /\ UNCHANGED <<device, windowIndex>>
      [] function + 1 = Functions /\ device + 1 < Devices ->
           /\ function' = 0
           /\ device' = device + 1
           /\ pcipc' = "function"
           /\ UNCHANGED windowIndex
      [] OTHER ->
           /\ windowIndex' = windowIndex + 1
           /\ pcipc' = "window"
           /\ UNCHANGED <<device, function>>

\* Defect: a device whose function 0 does not answer is passed over.
NoFunctionNoDevice ==
    /\ pcipc = "function"
    /\ ~Present
    /\ IF function = 0 /\ device + 1 < Devices
       THEN device' = device + 1 /\ UNCHANGED <<pcipc, windowIndex, function>>
       ELSE NextFunction
    /\ UNCHANGED <<machine, bar, listed, scanned, functionLines>>

\* PrintPciFunction where the vendor reads 0xFFFF.
NoFunction ==
    /\ pcipc = "function"
    /\ ~Present
    /\ NextFunction
    /\ UNCHANGED <<machine, bar, listed, scanned, functionLines>>

PrintPciFunction ==
    /\ pcipc = "function"
    /\ Present
    /\ functionLines' = Append(functionLines,
                              [window |-> windowIndex, segment |-> Window.segment,
                               bus |-> Bus, device |-> device, function |-> function,
                               bars |-> <<>>])
    /\ bar' = 0
    /\ pcipc' = "bars"
    /\ UNCHANGED <<machine, windowIndex, device, function, listed, scanned>>

\* A round of PrintPciBars: a register that is not zero is printed, and that
\* behind a 64-bit BAR is skipped.
PrintPciBars ==
    /\ pcipc = "bars"
    /\ bar < BarCount
    /\ functionLines' = IF BarValue = 0 THEN functionLines
                        ELSE [functionLines EXCEPT ![Len(functionLines)].bars = Append(@, <<bar, BarValue>>)]
    /\ bar' = IF Is64(BarValue) THEN bar + 2 ELSE bar + 1
    /\ UNCHANGED <<machine, pcipc, windowIndex, device, function, listed, scanned>>

EndBars ==
    /\ pcipc = "bars"
    /\ bar >= BarCount
    /\ NextFunction
    /\ UNCHANGED <<machine, bar, listed, scanned, functionLines>>

PciNext == \/ ListWindow \/ EndWindows \/ BeginScan \/ SkipWindow \/ EndScan
           \/ NoFunction \/ PrintPciFunction \/ PrintPciBars \/ EndBars

-----------------------------------------------------------------------------
\* Each register of a function is declared a BAR, with the value it holds, or
\* is the upper half of a 64-bit BAR (bits 2 to 0 are 100), or holds nothing.
WellDeclared(f) ==
    LET registers == { f.declared[i][1] : i \in DOMAIN f.declared }
        uppers    == { r + 1 : r \in { q \in registers : f.bars[q + 1] % 8 = 4 } }
    IN  /\ \A i \in DOMAIN f.declared :
              /\ f.declared[i][1] \in 0 .. BarsIn(f) - 1
              /\ f.declared[i] = <<f.declared[i][1], f.bars[f.declared[i][1] + 1]>>
              /\ f.declared[i][2] # 0
              /\ \A j \in DOMAIN f.declared : i < j => f.declared[i][1] < f.declared[j][1]
        /\ \A r \in 0 .. BarsIn(f) - 1 :
              \/ r \in registers \ uppers
              \/ r \in uppers \ registers
              \/ r \notin registers /\ f.bars[r + 1] = 0

\* What a machine may hold: the MCFG has the windows its Length speaks of, with
\* any fields, valid or not, and any functions answer.
WellFormedMachine(m) ==
    /\ m.found \in BOOLEAN /\ m.signed \in BOOLEAN /\ m.length \in Nat
    /\ m.windows \in Seq([base : Nat, segment : Nat, start : Nat, end : Nat])
    /\ m.signed => (m.length - McfgSize) \div WindowSize <= Len(m.windows)
    /\ \A p \in DOMAIN m.functions :
          LET f == m.functions[p]
          IN  /\ p \in Nat /\ f.header \in Nat
              /\ f.bars \in [1 .. 6 -> Nat]
              /\ f.declared \in Seq(Nat \X Nat)
              /\ WellDeclared(f)

\* What answers on the first bus of a valid window.
OnFirstBus(w) == { p \in DOMAIN machine.functions : p >= w.base /\ p < w.base + 256 }

\* The page a line is about, and the order in which lines come.
PageOf(l) == PciEcamAddress(machine.windows[l.window + 1], l.bus, l.device, l.function)
Before(l, m) == l.window < m.window \/ (l.window = m.window /\ PageOf(l) < PageOf(m))

\* Every function that answers on the first bus of a valid window gets one
\* line, in the order of windows and pages and under its own number, and
\* nothing else does; configuration space is read only inside the window the
\* firmware gave for it.
ListsEveryFunction ==
    /\ pcipc \in {"function", "bars"} =>
          ConfigBase \in Window.base .. Window.base + 256 * (Window.end - Window.start + 1) - 1
    /\ \A i \in DOMAIN functionLines :
          LET l == functionLines[i]
              w == machine.windows[l.window + 1]
          IN  /\ l.window < WindowCount /\ ~InvalidForListing(w)
              /\ l.segment = w.segment /\ l.bus = w.start
              /\ l.device \in 0 .. 31 /\ l.function \in 0 .. 7
              /\ PageOf(l) \in OnFirstBus(w)
    /\ \A i, j \in DOMAIN functionLines : i < j => Before(functionLines[i], functionLines[j])
    /\ pcipc \in {"window", "done"} =>
          \A k \in 0 .. windowIndex - 1 :
             ~InvalidForListing(machine.windows[k + 1]) =>
                \A p \in OnFirstBus(machine.windows[k + 1]) :
                   \E l \in Range(functionLines) : l.window = k /\ PageOf(l) = p

\* A BAR is printed under the number of its register, and the upper half of a
\* 64-bit BAR is never taken for a BAR, whatever address bits it holds.
BarsAsDeclared ==
    pcipc = "bars" /\ bar >= BarCount => Last(functionLines).bars = Answering.declared
=============================================================================
