----------------------------- MODULE MemoryMap -----------------------------
(***************************************************************************)
(* The captured memory map as its readers walk it: JsonAppendMemorySummary *)
(* of Report/FirmwareJson.c, then PrintMemoryMapSnapshot of                *)
(* Memory/MemoryMap.c, which walks twice.  The firmware decides how far    *)
(* apart its descriptors are (DescriptorSize); what it puts behind the     *)
(* fields the program knows is its own affair, and is read by mistake only.*)
(*                                                                         *)
(* The buffer is a sequence of units: a descriptor begins with its Type     *)
(* and its NumberOfPages, and is DescriptorSize units long.  Pages are     *)
(* counted modulo Modulus, as a UINT64 counts them modulo 2^64.            *)
(***************************************************************************)
EXTENDS Integers, Sequences

CONSTANT Modulus       \* one more than the greatest page count

ASSUME ModulusAssumption == Modulus \in Nat \ {0}

VARIABLES bootInfo,    \* the captured map, not written by any of the walks:
                       \* MemoryMap, MemoryMapSize, MemoryMapDescriptorSize
          walk,        \* the walk that is on: "json", "summary", "listing", "over"
          descriptorIndex, \* Index
          at,          \* Descriptor, as an offset into the buffer
          pages,       \* the six page counters of the walk
          report,      \* the memory summary in the report
          console,     \* the memory summary on the console
          listing      \* the descriptors listed on the console

mapvars == <<bootInfo, walk, descriptorIndex, at, pages, report, console, listing>>

Categories == {"Usable", "BootSvc", "Runtime", "ACPI", "Reserved", "MMIO"}

NoPages == [c \in Categories |-> 0]

\* The switch of AddPagesByCategory, which is written twice in the program.
CategoryOf(type) ==
    CASE type = "EfiConventionalMemory"                                      -> "Usable"
      [] type \in {"EfiBootServicesCode", "EfiBootServicesData"}             -> "BootSvc"
      [] type \in {"EfiRuntimeServicesCode", "EfiRuntimeServicesData"}       -> "Runtime"
      [] type \in {"EfiACPIReclaimMemory", "EfiACPIMemoryNVS"}               -> "ACPI"
      [] type \in {"EfiMemoryMappedIO", "EfiMemoryMappedIOPortSpace"}        -> "MMIO"
      [] OTHER                                                               -> "Reserved"

\* The Descriptor the pointer is at.
DescriptorType == bootInfo.MemoryMap[at + 1]
NumberOfPages == bootInfo.MemoryMap[at + 2]

\* Defect: a descriptor with none of the named types is not counted.
AddPagesByNameOnly(sums) ==
    IF CategoryOf(DescriptorType) = "Reserved" /\ DescriptorType # "EfiReservedMemoryType" THEN sums
    ELSE [sums EXCEPT ![CategoryOf(DescriptorType)] = (@ + NumberOfPages) % Modulus]

\* Defect: one of the two copies of the switch no longer knows a type.
AddPagesByDriftedCopies(sums) ==
    LET category == IF walk = "json" /\ DescriptorType = "EfiMemoryMappedIO"
                    THEN "Reserved" ELSE CategoryOf(DescriptorType)
    IN  [sums EXCEPT ![category] = (@ + NumberOfPages) % Modulus]

AddPagesByCategory(sums) ==
    [sums EXCEPT ![CategoryOf(DescriptorType)] = (@ + NumberOfPages) % Modulus]

Empty == bootInfo.MemoryMap = <<>> \/ bootInfo.MemoryMapDescriptorSize = 0

DescriptorCount ==
    IF Empty THEN 0 ELSE bootInfo.MemoryMapSize \div bootInfo.MemoryMapDescriptorSize

NextDescriptor == at + bootInfo.MemoryMapDescriptorSize

\* What GetMemoryMap may leave: the buffer holds as many units as it says, a
\* descriptor at each multiple of the stride, and a stride that holds both fields.
WellFormedMap(b) ==
    /\ b.MemoryMapSize \in Nat /\ b.MemoryMapDescriptorSize \in Nat
    /\ Len(b.MemoryMap) = b.MemoryMapSize
    /\ \/ b.MemoryMapDescriptorSize = 0
       \/ /\ b.MemoryMapDescriptorSize >= 2
          /\ \A u \in 1 .. Len(b.MemoryMap) :
                (u - 1) % b.MemoryMapDescriptorSize = 1 => b.MemoryMap[u] \in Nat

-----------------------------------------------------------------------------
MInit ==
    /\ walk = "json"
    /\ descriptorIndex = 0
    /\ at = 0
    /\ pages = NoPages
    /\ report = [DescriptorCount |-> 0, Pages |-> NoPages]
    /\ console = [DescriptorCount |-> 0, Pages |-> NoPages]
    /\ listing = <<>>

\* One round of a summing loop.
Sum ==
    /\ walk \in {"json", "summary"}
    /\ descriptorIndex < DescriptorCount
    /\ pages' = AddPagesByCategory(pages)
    /\ at' = NextDescriptor
    /\ descriptorIndex' = descriptorIndex + 1
    /\ UNCHANGED <<bootInfo, walk, report, console, listing>>

\* JsonAppendMemorySummary writes what its loop summed, for an empty map too.
JsonAppendMemorySummary ==
    /\ walk = "json"
    /\ descriptorIndex = DescriptorCount
    /\ report' = [DescriptorCount |-> DescriptorCount, Pages |-> pages]
    /\ walk' = "summary"
    /\ descriptorIndex' = 0 /\ at' = 0 /\ pages' = NoPages
    /\ UNCHANGED <<bootInfo, console, listing>>

\* PrintMemoryMapSnapshot, its summary.
PrintSummary ==
    /\ walk = "summary"
    /\ ~Empty
    /\ descriptorIndex = DescriptorCount
    /\ console' = [DescriptorCount |-> DescriptorCount, Pages |-> pages]
    /\ walk' = "listing"
    /\ descriptorIndex' = 0 /\ at' = 0
    /\ UNCHANGED <<bootInfo, pages, report, listing>>

\* PrintMemoryMapSnapshot of no map: EFI_INVALID_PARAMETER.
RefuseEmpty ==
    /\ walk = "summary"
    /\ Empty
    /\ walk' = "over"
    /\ UNCHANGED <<bootInfo, descriptorIndex, at, pages, report, console, listing>>

\* A line of the listing.
PrintDescriptor ==
    /\ walk = "listing"
    /\ descriptorIndex < DescriptorCount
    /\ listing' = Append(listing, <<DescriptorType, NumberOfPages>>)
    /\ at' = NextDescriptor
    /\ descriptorIndex' = descriptorIndex + 1
    /\ UNCHANGED <<bootInfo, walk, pages, report, console>>

EndListing ==
    /\ walk = "listing"
    /\ descriptorIndex = DescriptorCount
    /\ walk' = "over"
    /\ UNCHANGED <<bootInfo, descriptorIndex, at, pages, report, console, listing>>

MNext == \/ Sum \/ JsonAppendMemorySummary \/ PrintSummary \/ RefuseEmpty
         \/ PrintDescriptor \/ EndListing

-----------------------------------------------------------------------------
\* The descriptors the firmware wrote, one every DescriptorSize units.
Written == [i \in 1 .. DescriptorCount |->
              <<bootInfo.MemoryMap[(i - 1) * bootInfo.MemoryMapDescriptorSize + 1],
                bootInfo.MemoryMap[(i - 1) * bootInfo.MemoryMapDescriptorSize + 2]>>]

\* What the first n descriptors have to add to a category, and to all of them.
PagesIn(c) == [i \in 1 .. DescriptorCount |->
                 IF CategoryOf(Written[i][1]) = c THEN Written[i][2] ELSE 0]
PagesAtAll == [i \in 1 .. DescriptorCount |-> Written[i][2]]

\* The sum of the first n numbers of a list.
SumUpTo(list, n) ==
    LET sum[i \in 0 .. Len(list)] == IF i = 0 THEN 0 ELSE sum[i - 1] + list[i]
    IN  sum[n]

AllOf(sums) == sums["Usable"] + sums["BootSvc"] + sums["Runtime"]
                 + sums["ACPI"] + sums["Reserved"] + sums["MMIO"]

\* Every page counted so far is in its category, whatever the type, and the six
\* together have every page once and nothing else: what the counters lose is
\* multiples of the modulus.  A descriptor is read only where the firmware
\* wrote one, all of it in the buffer.
EveryPageInOneCategory ==
    /\ walk \in {"json", "summary"} =>
          /\ \A c \in Categories : pages[c] = SumUpTo(PagesIn(c), descriptorIndex) % Modulus
          /\ AllOf(pages) % Modulus = SumUpTo(PagesAtAll, descriptorIndex) % Modulus
    /\ walk # "over" /\ descriptorIndex < DescriptorCount =>
          /\ at = descriptorIndex * bootInfo.MemoryMapDescriptorSize
          /\ at + 2 <= Len(bootInfo.MemoryMap)

\* The console shows the numbers of the report, and the listing under them is
\* what the firmware wrote, in its order, and adds up to each of them.
ConsoleMatchesReport ==
    walk = "over" /\ ~Empty =>
        /\ console = report
        /\ listing = Written
        /\ \A c \in Categories :
              console.Pages[c] = SumUpTo(PagesIn(c), Len(listing)) % Modulus

=============================================================================
