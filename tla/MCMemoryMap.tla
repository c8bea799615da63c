----------------------------- MODULE MCMemoryMap ----------------------------
(***************************************************************************)
(* Maps of up to three descriptors, each two to four units apart, of a     *)
(* type per category and one the program does not name; what the firmware  *)
(* keeps behind the known fields looks like a descriptor.  Counters wrap   *)
(* at four.                                                                *)
(***************************************************************************)
EXTENDS MemoryMap, SequencesExt

MCTypes == {"EfiConventionalMemory", "EfiBootServicesData", "EfiRuntimeServicesCode",
            "EfiACPIMemoryNVS", "EfiMemoryMappedIO", "EfiReservedMemoryType",
            "EfiPersistentMemory"}

\* A map of the descriptors ds with stride units from one to the next.
MapOf(ds, stride) ==
    [MemoryMap |->
        [u \in 1 .. Len(ds) * stride |->
            LET d == ds[(u - 1) \div stride + 1]
                k == (u - 1) % stride
            IN  CASE k = 0 -> d[1]
                  [] k = 1 -> d[2]
                  [] k = 2 -> "EfiConventionalMemory"
                  [] k = 3 -> 1],
     MemoryMapSize |-> Len(ds) * stride,
     MemoryMapDescriptorSize |-> stride]

Descriptors == MCTypes \X {1, 3}

\* No map was captured.
NoMap == [MemoryMap |-> <<>>, MemoryMapSize |-> 0, MemoryMapDescriptorSize |-> 0]

MCMaps ==
    { MapOf(ds, stride) : ds \in BoundedSeq(Descriptors, 2), stride \in 2 .. 4 }
    \cup
    { MapOf(<<d, e, d>>, 3) : d \in Descriptors, e \in Descriptors }
    \cup
    {NoMap}
=============================================================================
