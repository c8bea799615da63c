------------------------------ MODULE BootInfo ------------------------------
(***************************************************************************)
(* The boot handoff object of Firmware/BootInfo.c: the ACPI and SMBIOS     *)
(* roots and a snapshot of the firmware's memory map, captured by the two  *)
(* calls of GetMemoryMap the UEFI specification asks for, and released     *)
(* again.                                                                  *)
(*                                                                         *)
(* The firmware's map is not the program's: event notifications, and the   *)
(* program's own allocation, change it between any two steps.  maps is its *)
(* history.  A map is known by its number of descriptors, and its MapKey   *)
(* is its place in the history: the key changes whenever the map does.     *)
(* Sizes are counted in descriptors, which is what the code divides by.    *)
(***************************************************************************)
EXTENDS ConfigTables, Integers

CONSTANTS Slack,           \* 8: descriptors added to the size the query asked for
          MaxGrowth,       \* most descriptors one change of the map can add
          MaxDescriptors,  \* bound on the size of a map
          MaxChanges       \* bound on the changes of the map

ASSUME BootInfoAssumption == /\ Slack \in Nat
                             /\ MaxGrowth \in Nat
                             /\ MaxDescriptors \in Nat \ {0}
                             /\ MaxChanges \in Nat

VARIABLES maps,        \* history of the firmware's memory map
          pool,        \* the live pool allocations of this start
          room,        \* MemoryMapSize as passed to the second GetMemoryMap
          mapKey,      \* MapKey as the first call left it
          bootInfo,    \* UEFI_BOOT_LAB_BOOT_INFO of UefiMain
          bpc,         \* where BuildBootHandoffInfo is
          bstatus      \* Status

locals == <<room, mapKey>>
bvars  == <<maps, directory, pool, room, mapKey, bootInfo, bpc, bstatus>>

\* ZeroMem(BootInfo): no roots, no buffer.  MemoryMap is TRUE for a pointer to
\* the captured buffer, whose contents are the descriptors of map MemoryMapKey.
ZeroInfo == [AcpiRsdp           |-> NULL,
             SmbiosEntryPoint32 |-> NULL,
             SmbiosEntryPoint64 |-> NULL,
             MemoryMap          |-> FALSE,
             Descriptors        |-> 0,
             MemoryMapKey       |-> 0]

Current == Len(maps)
Descriptors == maps[Current]

Directories == {<<>>,
                <<[guid |-> Acpi20, table |-> "rsdp2"]>>,
                <<[guid |-> Smbios, table |-> "smbios"],
                  [guid |-> Acpi10, table |-> "rsdp1"],
                  [guid |-> Acpi20, table |-> "rsdp2"],
                  [guid |-> Smbios3, table |-> "smbios3"]>>,
                <<[guid |-> Acpi10, table |-> "rsdp1"]>>}

BInit == /\ \E n \in 1 .. MaxDescriptors : maps = <<n>>
         /\ directory \in Directories
         /\ pool = {}
         /\ room = 0 /\ mapKey = 0
         /\ bootInfo = ZeroInfo
         /\ bpc = "start"
         /\ bstatus = "EFI_SUCCESS"

-----------------------------------------------------------------------------
\* The maps one change can make of the current one.
Changed == {Append(maps, n) : n \in {m \in 1 .. MaxDescriptors : m <= Descriptors + MaxGrowth}}

\* An event notification allocates or frees pages behind the program's back.
FirmwareActivity ==
    /\ Len(maps) <= MaxChanges
    /\ maps' \in Changed
    /\ UNCHANGED <<directory, pool, locals, bootInfo, bpc, bstatus>>

\* A pool allocation of the program itself: it changes the map when the pool
\* has to take pages for it.
Touched == maps' = maps \/ (Len(maps) <= MaxChanges /\ maps' \in Changed)

\* An error return: CaptureMemoryMapForHandoff gives up, and its caller clears
\* the roots it had stored.
Fail(st) == /\ bstatus' = st
            /\ bpc' = "failed"
            /\ bootInfo' = ZeroInfo

\* BuildBootHandoffInfo: clear, store the roots.
StoreRoots ==
    /\ bpc = "start"
    /\ bootInfo' = [ZeroInfo EXCEPT
                      !.AcpiRsdp = FindRsdp(directory),
                      !.SmbiosEntryPoint32 = FindConfigurationTable(directory, Smbios),
                      !.SmbiosEntryPoint64 = FindConfigurationTable(directory, Smbios3)]
    /\ bpc' = "query"
    /\ UNCHANGED <<maps, directory, pool, locals, bstatus>>

\* Defect: the buffer is allocated at the size the query returned.
SizeQueryExact ==
    /\ bpc = "query"
    /\ room' = Descriptors
    /\ mapKey' = Current
    /\ bpc' = "allocate"
    /\ UNCHANGED <<maps, directory, pool, bootInfo, bstatus>>

\* First GetMemoryMap: size and key of the map of this moment, plus slack.
SizeQuery ==
    /\ bpc = "query"
    /\ \/ /\ Fail("EFI_INVALID_PARAMETER")
          /\ UNCHANGED locals
       \/ /\ room' = Descriptors + Slack
          /\ mapKey' = Current
          /\ bpc' = "allocate"
          /\ UNCHANGED <<bootInfo, bstatus>>
    /\ UNCHANGED <<maps, directory, pool>>

\* AllocatePool(MemoryMapSize).
AllocateMap ==
    /\ bpc = "allocate"
    /\ \/ /\ Fail("EFI_OUT_OF_RESOURCES")
          /\ UNCHANGED <<maps, pool>>
       \/ /\ pool' = pool \cup {"MemoryMap"}
          /\ Touched
          /\ bpc' = "capture"
          /\ UNCHANGED <<bootInfo, bstatus>>
    /\ UNCHANGED <<directory, locals>>

\* Defect: the key of the size query is stored with the captured map.
CaptureStaleKey ==
    /\ bpc = "capture"
    /\ Descriptors <= room
    /\ bootInfo' = [bootInfo EXCEPT !.MemoryMap = TRUE,
                                    !.Descriptors = Descriptors,
                                    !.MemoryMapKey = mapKey]
    /\ bpc' = "built"
    /\ UNCHANGED <<maps, directory, pool, locals, bstatus>>

\* Defect: the buffer is not freed when the second call fails.
CaptureLeaks ==
    /\ bpc = "capture"
    /\ Descriptors > room
    /\ Fail("EFI_BUFFER_TOO_SMALL")
    /\ UNCHANGED <<maps, directory, pool, locals>>

\* Second GetMemoryMap: it fits, or the buffer is freed and there is no retry.
Capture ==
    /\ bpc = "capture"
    /\ \/ /\ Descriptors > room
          /\ Fail("EFI_BUFFER_TOO_SMALL")
          /\ pool' = pool \ {"MemoryMap"}
       \/ /\ Descriptors <= room
          /\ bootInfo' = [bootInfo EXCEPT !.MemoryMap = TRUE,
                                          !.Descriptors = Descriptors,
                                          !.MemoryMapKey = Current]
          /\ bpc' = "built"
          /\ UNCHANGED <<pool, bstatus>>
    /\ UNCHANGED <<maps, directory, locals>>

\* Defect: the object is cleared and its buffer forgotten.
FreeBootHandoffInfoLeaking ==
    /\ bpc = "built"
    /\ bootInfo' = ZeroInfo
    /\ bpc' = "freed"
    /\ UNCHANGED <<maps, directory, pool, locals, bstatus>>

\* FreeBootHandoffInfo: free the buffer, clear the object.
FreeBootHandoffInfo ==
    /\ bpc = "built"
    /\ pool' = IF bootInfo.MemoryMap THEN pool \ {"MemoryMap"} ELSE pool
    /\ bootInfo' = ZeroInfo
    /\ bpc' = "freed"
    /\ UNCHANGED <<maps, directory, locals, bstatus>>

Build == StoreRoots \/ SizeQuery \/ AllocateMap \/ Capture

BNext == FirmwareActivity \/ Build \/ FreeBootHandoffInfo

BSpec == BInit /\ [][BNext]_bvars

-----------------------------------------------------------------------------
\* The shape of the state.
BTypeOK ==
    /\ maps \in Seq(1 .. MaxDescriptors) /\ maps # <<>>
    /\ pool \subseteq {"MemoryMap"}
    /\ room \in Nat
    /\ mapKey \in 0 .. Current
    /\ bootInfo.MemoryMap \in BOOLEAN
    /\ bootInfo.Descriptors \in 0 .. MaxDescriptors
    /\ bootInfo.MemoryMapKey \in 0 .. Current
    /\ bpc \in {"start", "query", "allocate", "capture", "built", "failed", "freed"}
    /\ bstatus \in {"EFI_SUCCESS", "EFI_INVALID_PARAMETER", "EFI_OUT_OF_RESOURCES",
                    "EFI_BUFFER_TOO_SMALL"}

\* A handoff object describes one moment of the firmware: its descriptors are
\* those of the map its key stands for, even when the map changed between the
\* two calls or has changed since.
Coherent ==
    bootInfo.MemoryMap =>
        /\ bootInfo.MemoryMapKey \in DOMAIN maps
        /\ bootInfo.Descriptors = maps[bootInfo.MemoryMapKey]

\* The buffer is owned by exactly one holder: the capture in progress, or the
\* handoff object.  No path leaks it and no object points to freed memory.
BufferOwned == "MemoryMap" \in pool <=> bpc = "capture" \/ bootInfo.MemoryMap

\* An error leaves a zeroed object, and only a built one carries anything.
ErrorMeansZero == bpc \in {"failed", "freed"} => bootInfo = ZeroInfo

\* What the slack is for: a capture can only come out too small after so many
\* changes of the map that together they can outgrow it.  The program's own
\* allocation, one change, never can while MaxGrowth <= Slack.
SlackAbsorbs ==
    [][bstatus' = "EFI_BUFFER_TOO_SMALL" /\ bstatus # "EFI_BUFFER_TOO_SMALL" =>
          (Current - mapKey) * MaxGrowth > Slack]_bvars
=============================================================================
