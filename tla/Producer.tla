------------------------------ MODULE Producer ------------------------------
(***************************************************************************)
(* The producer of the lab's platform table and its two ways into the      *)
(* system: FirmwareProducerDxe inside a custom OVMF image, dispatched in   *)
(* the DXE phase, or the same driver on the boot volume, loaded by         *)
(* FirmwareView (Firmware/ProducerLoader.c) when UefiMain finds no table.  *)
(*                                                                         *)
(* The table is a static variable of the driver's image, so an entry of    *)
(* the directory points into an image, here the image's number.            *)
(***************************************************************************)
EXTENDS ConfigTables, FiniteSets

CONSTANTS MaxImages,    \* bound: how often a producer image is loaded
          MaxStarts     \* bound: how often FirmwareView.efi is started

ASSUME ProducerAssumption == /\ MaxImages \in Nat
                             /\ MaxStarts \in Nat
                             /\ NULL \notin Nat

VARIABLES images,       \* producer images resident in memory
          loaded,       \* producer images ever loaded
          starts,       \* times FirmwareView.efi was started
          ppc,          \* where the platform is
          pstatus,      \* Status of LoadFirmwareProducerDriver
          image,        \* DriverImageHandle
          devicePath    \* TRUE while DriverDevicePath is allocated

pvars == <<directory, images, loaded, starts, ppc, pstatus, image, devicePath>>

LabTable == FindConfigurationTable(directory, Lab)

PInit == /\ directory \in {<<>>, <<[guid |-> Acpi20, table |-> 0]>>}
         /\ images = {} /\ loaded = 0 /\ starts = 0
         /\ ppc = "dxe"
         /\ pstatus = "EFI_SUCCESS"
         /\ image = NULL
         /\ devicePath = FALSE

-----------------------------------------------------------------------------
\* Defect: the driver publishes its table and fails afterwards.
FirmwareProducerDxeEntryPointLate(n, st) ==
    directory' = Installed(directory, Lab, n)

\* FirmwareProducerDxeEntryPoint of image n returns the status of
\* InstallConfigurationTable, which fails without changing the directory.
FirmwareProducerDxeEntryPoint(n, st) ==
    directory' = IF st = "EFI_SUCCESS" THEN Installed(directory, Lab, n) ELSE directory

\* StartImage runs the entry point of a driver; a driver that returns an error
\* is unloaded by the firmware.
StartImage(n, st) ==
    /\ FirmwareProducerDxeEntryPoint(n, st)
    /\ images' = IF st = "EFI_SUCCESS" THEN images ELSE images \ {n}

StartResults == {"EFI_SUCCESS", "EFI_OUT_OF_RESOURCES"}

\* DXE phase: an OVMF image built with the producer dispatches it, a stock one
\* does not.
DispatchDxe ==
    /\ ppc = "dxe"
    /\ ppc' = "boot"
    /\ \/ /\ loaded < MaxImages
          /\ loaded' = loaded + 1
          /\ \E st \in StartResults :
                /\ FirmwareProducerDxeEntryPoint(loaded', st)
                /\ images' = IF st = "EFI_SUCCESS" THEN images \cup {loaded'} ELSE images
       \/ UNCHANGED <<directory, images, loaded>>
    /\ UNCHANGED <<starts, pstatus, image, devicePath>>

\* UefiMain: the driver is loaded only if nobody has published the table.
StartProgram ==
    /\ ppc = "boot"
    /\ starts < MaxStarts
    /\ starts' = starts + 1
    /\ ppc' = IF LabTable # NULL THEN "ready" ELSE "locate"
    /\ pstatus' = "EFI_SUCCESS"
    /\ UNCHANGED <<directory, images, loaded, image, devicePath>>

\* HandleProtocol(LoadedImage), then FileDevicePath, which returns NULL when
\* it cannot allocate the path.
BuildDevicePath ==
    /\ ppc = "locate"
    /\ \/ \E st \in {"EFI_UNSUPPORTED", "EFI_OUT_OF_RESOURCES"} :
             pstatus' = st /\ ppc' = "ready" /\ devicePath' = FALSE
       \/ devicePath' = TRUE /\ ppc' = "load" /\ UNCHANGED pstatus
    /\ UNCHANGED <<directory, images, loaded, starts, image>>

\* LoadImage: the file is missing or no valid image, or it becomes resident.
LoadImage ==
    /\ ppc = "load"
    /\ \/ /\ \E st \in {"EFI_NOT_FOUND", "EFI_LOAD_ERROR"} : pstatus' = st
          /\ ppc' = "ready"
          /\ devicePath' = FALSE
          /\ UNCHANGED <<images, loaded, image>>
       \/ /\ loaded < MaxImages
          /\ loaded' = loaded + 1
          /\ images' = images \cup {loaded'}
          /\ image' = loaded'
          /\ ppc' = "start"
          /\ UNCHANGED <<pstatus, devicePath>>
    /\ UNCHANGED <<directory, starts>>

\* Defect: the status of StartImage is printed but not kept.
StartProducerUnreported ==
    /\ ppc = "start"
    /\ \E st \in StartResults : StartImage(image, st)
    /\ pstatus' = "EFI_SUCCESS"
    /\ image' = NULL
    /\ devicePath' = FALSE
    /\ ppc' = "ready"
    /\ UNCHANGED <<loaded, starts>>

\* StartImage, whose status is printed and returned; the path is freed.
StartProducer ==
    /\ ppc = "start"
    /\ \E st \in StartResults : StartImage(image, st) /\ pstatus' = st
    /\ image' = NULL
    /\ devicePath' = FALSE
    /\ ppc' = "ready"
    /\ UNCHANGED <<loaded, starts>>

\* The rest of UefiMain reads the directory and returns to the firmware.
ReturnToBoot ==
    /\ ppc = "ready"
    /\ ppc' = "boot"
    /\ UNCHANGED <<directory, images, loaded, starts, pstatus, image, devicePath>>

Finished == ppc = "boot" /\ starts = MaxStarts /\ UNCHANGED pvars

LoadStep == BuildDevicePath \/ LoadImage \/ StartProducer

PNext == DispatchDxe \/ StartProgram \/ LoadStep \/ ReturnToBoot \/ Finished

PSpec == PInit /\ [][PNext]_pvars

-----------------------------------------------------------------------------
\* The shape of the state.
PTypeOK ==
    /\ \A i \in DOMAIN directory : directory[i] \in [guid : {Acpi20, Lab}, table : 0 .. MaxImages]
    /\ images \subseteq 1 .. loaded
    /\ loaded \in 0 .. MaxImages
    /\ starts \in 0 .. MaxStarts
    /\ ppc \in {"dxe", "boot", "locate", "load", "start", "ready"}
    /\ image \in 1 .. loaded \cup {NULL}
    /\ devicePath \in BOOLEAN

\* What consumers find under the lab's GUID lies in an image that is still
\* resident, though failed drivers are unloaded and the program may run again.
NoDanglingTable == LabTable # NULL => LabTable \in images

\* The table has one producer: a driver in the firmware image, or the first
\* one that was loaded; it is never published over.
OneProducer ==
    /\ ppc # "start" => Cardinality(images) <= 1
    /\ ppc = "start" => images = {image}

\* A success of the loader means that there is a table to consume, and only
\* then is a driver left in memory by it.
SuccessMeansPublished ==
    /\ ppc = "ready" /\ pstatus = "EFI_SUCCESS" => LabTable # NULL
    /\ ppc \in {"boot", "ready"} => (images # {} <=> LabTable # NULL)

\* Every way out of the loader has freed the device path.
PathBalanced == devicePath <=> ppc \in {"load", "start"}

\* However often the program is started and wherever a call fails, the lab's
\* table has one live producer, and the loader tells the truth and keeps nothing.
OneLiveProducer == NoDanglingTable /\ OneProducer /\ SuccessMeansPublished /\ PathBalanced
=============================================================================
