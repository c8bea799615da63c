# uefi-boot-lab: the verification project

`uefi-boot-lab` boots a small UEFI application, `FirmwareView.efi`, which reads
what the firmware says of the machine, prints it, and writes it as
`firmware-view.json` to the boot volume. A Linux side collects what the kernel
says of the same machine, and Python tools compare both with an expected
platform. The modules here model the parts of it that can be checked, state what
makes them correct, and prove what everything downstream rests on: the report is
whole, or there is none; the walks over foreign tables stay where they should and
show what is there; what a run leaves on disk is its own; and the verdicts on a
platform are those its files call for.

Paths below are those of the repository (`src/FirmwareView/...`,
`scripts/...`, `tools/...`). `PROJECT.json` names, for every definition, the
lines it models.

## 1. Inventory

### Components

| Component | State | Operations | Correct when |
|---|---|---|---|
| JSON writer (`Report/FirmwareJson.c` 48-80, 804-831) | Buffer, Length, Truncated; one pool allocation | JsonAppend, WriteFirmwareViewJson | no index leaves the buffer; a lost byte is noticed; a document leaves whole or not at all; the buffer is freed on every path |
| Report file (`FirmwareJson.c` 685-802) | boot volume, open file handles, Status | a chain of open, delete, create, write, flush, close | every handle closed once; success means this run's report and nothing else is in the file |
| Report document (`FirmwareJson.c` 82-683) | none of its own | BuildFirmwareJson, nine section writers, escapes | a JSON reader takes it and reads back what the firmware said |
| Configuration tables (`Firmware/ConfigTables.c`) | the firmware's directory | FindConfigurationTable | finds the entry of a GUID, or NULL |
| Producer and loader (`FirmwareProducerDxe.c`, `Firmware/ProducerLoader.c`) | directory, resident images, device path | entry point, LoadFirmwareProducerDriver | one producer; no table in freed memory; success means published |
| Boot handoff (`Firmware/BootInfo.c`) | UEFI_BOOT_LAB_BOOT_INFO, memory-map buffer | BuildBootHandoffInfo, FreeBootHandoffInfo | size, key and descriptors of one moment; the buffer has one owner; an error leaves a zeroed object |
| `FirmwareView.c` | Status, BootInfo, order of the steps | UefiMain | console and report show one snapshot; nothing used after it is freed; everything given back; the program returns |
| ACPI lookup (`Acpi/AcpiTables.c`, `FirmwareJson.c` 264-381) | firmware memory (read only) | ValidateAcpiTable, FindAcpiTable, the report's own lookups | only valid tables are parsed; the report misses none the console shows |
| Memory map readers (`Memory/MemoryMap.c`, `FirmwareJson.c` 226-262, 550-616) | index, pointer, six counters | three walks of one buffer | walks in the firmware's stride; every page in one category; the console agrees with the report |
| MADT walk (`Acpi/Madt.c`) | pointer into the table, number of the record | PrintMadt, one printer per record type | every record listed; ends; what it reads past the table is bounded |
| MCFG and PCI scan (`Acpi/Mcfg.c`, `Pci/PciConfig.c`) | window, device, function, BAR index | listing of the windows, scan of each, BAR walk | configuration space read inside its window; every function and BAR once; listing, scan and report agree |
| SMBIOS walk (`Smbios/Smbios.c`) | Header, Walker, String | structure walk, string search, printers of six types | pointers inside the table, and what its fields are read from bounded; prints what was written; ends |
| Linux collector (`tools/platform_report_lib/collector.py`) | a directory of artifacts and status files | collect, write_artifacts | a status belongs to its collection, and to the output beside it |
| Artifact parsers (`parsers.py`) | views | read files, parse lines | what is absent stays absent |
| Contract (`expected.py`) | the list being filled, the contract so far | one line at a time | accepted exactly if well formed, and then what the file says |
| Diagnostics and report (`diagnostics.py`, `writer.py`, `cli.py`) | a list of PASS, WARN and FAIL, two files, the exit status | the checks, two writes, main | absent data gives WARN or FAIL, never PASS; the exit status says what the files on disk say |
| End-to-end run (`scripts/run-e2e-linux.sh`, `smoke-ovmf.sh`, `run-ovmf.sh`) | work directory, ESP image, the guest's page cache | host script, QEMU under a timeout, guest script | success of the host means a report of this guest |
| OVMF build (`scripts/build-ovmf-with-producer.sh`) | a patched EDK II tree | patch, build | applied once however often it is run |

### How they interact

- `UefiMain` calls, in order: the producer's loader (only if the table is
  missing), the handoff, the report writer, the snapshot printer, the release.
  One variable, `Status`, carries the result of the handoff and then that of the
  report. This is where `FirmwareView.tla` composes the modules.
- The producer and its consumers share the firmware's configuration table. The
  firmware unloads a driver whose entry point fails, and keeps its table entry.
- The handoff reads a memory map the firmware goes on changing. Its buffer is
  shared by the report and the console, and freed by `UefiMain`.
- The report's sections pass through the writer piece by piece; the writer's
  buffer goes to the volume in one write.
- The console and the report read ACPI and the memory map with separate code.
- The volume survives a virtual machine killed by a timeout
  (`scripts/smoke-ovmf.sh` accepts status 124), and the next run meets what is
  left on it.
- The Linux side meets the firmware side only in files: `firmware-view.json` and
  the artifacts of the collector, compared by `diagnostics.py`. What the collector
  left is read whatever its status files say (`BuildLinuxView`).
- The end-to-end script carries these files from one virtual machine to the next
  through a disk image, which the guest writes by its page cache; both scripts
  run under `set -e` and only the guest's exit, never its status, is seen by the
  host.

### What is hard

There is no thread in the program. What makes it hard is that it is not alone:
the firmware's events change the memory map between any two calls, every
protocol call can fail on its own and leave things half done, the machine can be
stopped anywhere, and the program can be started again on what is left. To this
come the usual edges of C over foreign data: capacities, strides, lengths
smaller than their header, names without terminators, counters that wrap; and
two copies of the same idea (lookup, classification, validity of a window) that
may drift apart. The scripts and the Python tools have no thread either, but they
are run again and again on directories that earlier runs, stopped anywhere, left.
`PROJECT.json` lists these hazards one by one, at their lines, with the
properties that would catch each.

## 2. Modules

| Module | Models | Composed of |
|---|---|---|
| `WholeReport` | abstract promise: a document is delivered whole, or refused | |
| `JsonWriter` | the bounded writer and WriteFirmwareViewJson | refines `WholeReport` |
| `ReportFile` | OpenReportDirectory, WriteJsonToLoadedImageVolume, the volume across runs and kills | |
| `ConfigTables` | lookup of a GUID in the configuration table | |
| `Producer` | the DXE driver, its dispatch by the firmware, its loader | extends `ConfigTables` |
| `BootInfo` | BuildBootHandoffInfo, FreeBootHandoffInfo, a changing memory map | extends `ConfigTables` |
| `FirmwareView` | UefiMain as a user of resources: what it allocates, opens, publishes and gives back, over several starts and kills | extends `Producer`, `BootInfo`, `ReportFile` |
| `Console` | UefiMain as a reader: every walk over firmware data in its order, with what one decides about the next | extends `AcpiTables`, `Madt`, `PciConfig`, `Smbios`, `MemoryMap` |
| `AcpiTables` | the console's and the report's lookups over the same memory | |
| `MemoryMap` | the three walks of the captured map | |
| `JsonReader` | a strict JSON reader, token by token (external: Python's `json`) | |
| `FirmwareJson` | the text BuildFirmwareJson writes | extends `JsonReader` |
| `FirmwareJsonProofs` | theorems about the report's text and about the writer | extends `FirmwareJson`, `JsonWriter`, `NumberInduction` |
| `TableWalk` | abstract promise of a walk: looks only at what lies in the table, goes only forward | |
| `Madt` | PrintMadt | refines `TableWalk` |
| `Smbios` | PrintSmbiosBasicInfo and all it calls | refines `TableWalk` |
| `PciConfig` | PrintMcfg, PrintPciDevicesFromMcfg, and the report's list of windows | |
| `LinuxCollector` | collections into one directory | |
| `ExpectedPlatform` | the contract read line by line | extends `Diagnostics` |
| `Diagnostics` | the checks, as functions of the three views | |
| `PlatformReport` | generate_report and main, from the files to the exit status | extends `ExpectedPlatform` |
| `EndToEnd` | run-e2e-linux.sh, the machine under its timeout, the guest's script | |
| `OvmfPatch` | build-ovmf-with-producer.sh | |
| `NumberInduction` | induction and recursion over numbers, with sets in the place of predicates | |
| `FirmwareViewProofs` | theorems about handoff, report file and producer, each alone, and about the program as a user of resources | extends `FirmwareView` |
| `ConsoleProofs` | theorems about every walk, alone and in the program | extends `Console`, `NumberInduction` |
| `OvmfPatchProofs` | theorems about the patch of the OVMF build | extends `OvmfPatch`, `NumberInduction` |
| `PlatformReportProofs`, `LinuxCollectorProofs`, `EndToEndProofs` | theorems | extend the module they are named after |
| `MC...` | instances for TLC; `MCConsole` extends `MCAcpiTables`, `MCMadt`, `MCPciConfig`, `MCSmbios` and `MCMemoryMap`, which hold the systems of their part | |

Correspondence, module by module:

**JsonWriter.** `buffer`, `length`, `truncated` are the three fields of
`JSON_WRITER`. `JsonAppend(text)` is the function of that name, with its three
cases: buffer already full, text clipped to what leaves room for the terminator,
text that fits. Any piece may follow any other: what holds here holds for
whatever BuildFirmwareJson appends. `document` and `delivered` are history:
all that was appended, and what the volume was given. `Finish` is the check of
`Truncated` with its two ways on, `Return` the free and the return.

**ReportFile.** One action per protocol call, in the code's order, each with its
failures, because the machine can be killed between any two. Data is a sequence
of cells labelled by the run that wrote them. What Write returned is kept as
data of the file but a kill before Close may still lose the end of it, since
nothing is on disk until Flush and Close. `CleanupMayFail` separates two worlds:
one in which a previous report can always be opened and deleted, and one in
which those calls fail (a read-only file, a damaged volume).

**Producer.** `directory` is the firmware's configuration table, `images` the
drivers in memory. A driver's entry point publishes its table as its last step;
the firmware unloads a driver that fails. The program loads the driver only when
the lookup finds nothing; several starts in one boot.

**BootInfo.** `maps` is the history of the firmware's memory map; a map is known
by its number of descriptors, and its key is its place in the history, so two
different maps never share a key. `FirmwareActivity` changes it at any time, and
so may the program's own AllocatePool (`Touched`). `room` and `mapKey` are the
locals filled by the first GetMemoryMap.

**FirmwareView.** `pc` walks through UefiMain. The actions of the three parts
are used as they are. `AllocateJson` is the writer's AllocateZeroPool, which may fail;
`ComposeJson` stands for what is written into that buffer, with what `JsonWriter` shows of
it. `pool` holds what the start going on has allocated and not freed: it is empty when a
start begins, so what an earlier one left (finding 2) is not counted against it.
`MachineKilled` loses memory and keeps the volume.

**Console.** `turn` is the part of UefiMain that is on. A part takes its own steps
and leaves the others alone. What joins them is in the actions: the MADT and MCFG walks
run over the tables the console's lookup returns, and over nothing if it returns
NULL (`LookedUp`); without an RSDP neither is called; a handoff that fails skips
SMBIOS, report and map; a report that fails skips the map. A system is one ACPI memory
with all its tables. The readers of the MCFG get `McfgAt` the address that the console's
lookup returns in it; the report looks its MCFG up again, with its own search, which
compares no checksum, and lists the windows of what that finds. So with a corrupt MCFG
the report may have windows that the console neither lists nor scans. `CSpec` is the
program without fairness, `CFairSpec` with it.

**AcpiTables.** Two families of operators over one `memory`: those named after the
console's functions validate (length, signature, checksum), those of the report
do not. The console uses the XSDT if and only if the revision is at least 2; the
report prefers whichever root is there. `TrustedTable` says what the console may use at
all, from the memory and not from the search: it lies in a valid root, and is valid.

**MemoryMap.** The buffer is a sequence of units; the descriptors begin every
`MemoryMapDescriptorSize` units, and what follows the known fields looks like
a descriptor, so a walk in the wrong stride reads something plausible. Counters
wrap at `Modulus`, as the 64-bit ones of the code do at 2^64.

**FirmwareJson, JsonReader.** The text is a sequence of tokens, strings
character by character, because escapes are where it can go wrong. The reader
was written from the JSON grammar and knows nothing of the report. It reads along,
one token per step (`ReadToken`), and the next section waits for it: that it is
caught up costs nothing and lets TLC look at the text at every seam. The facts it
has read in the end are compared with the facts of the firmware. What firmware can say
is an assumption on `Firmwares`: each field is there or `NULL`, a text is a sequence of
the kinds of characters escapes tell apart, and behind the fixed part of an MCFG there
lie all the whole windows its Length announces, since the code trusts that Length.

**TableWalk, Madt, Smbios.** A walk has a place, a size and an end; that is all
`TableWalk` knows. `Madt` has one action per way a round of the loop goes; `madtReach` is
history, the byte last read, because the code checks where a record begins and
never where it ends. `Smbios` moves every pointer of the code byte by byte:
`walker` for the next structure, `string` for a string by its number (a line asks
for several in turn), so a terminator that is missing is met where the code meets
it. Bytes behind the table are part of the memory. `reach` is the history of what these
pointers were dereferenced at, which the code compares with the end of the table;
`fieldReach` that of the fields a line is made of (`FieldsEnd`), which the code compares
with the structure's Length only. A MADT comes with the records its
firmware meant to write (`records`); `WellFormedMadt` says whether its bytes hold
them, and only then does a property ask for them. The walk never looks at it.
In the same way an SMBIOS table comes with the `structures` its firmware wrote and
with those of them there should be a line for (`printed`); for one that is called
well formed (`formed`) `WrittenAssumption` says that the bytes hold these structures one
behind the other, and nothing else, and TLC evaluates it for every table of the
instance. `WrittenTable` is written from the layout of the standard. Of the counts of a
processor it asks that its Length is one the standard has, where they
are all there or none is (section 4 says what happens at 36 and 37 bytes, and at
44 to 47), and that 255 or more cores are told by the 16-bit fields.

**PciConfig.** A machine has an MCFG and a memory of configuration pages; where no
function answers the vendor reads 0xFFFF. The listing, the scan and the report
each judge the windows with their own code, and each has its own operator;
`ReportedWindows(mcfg)` is of the table the report has found, whatever was scanned. The
BARs a function should show (`declared`) are given with it, not computed by the
code under test.

**LinuxCollector.** A file is the collection that wrote it, whether it holds
anything and whether its writer came to the end; `Stop` cuts any step, between
output and status too. `BuildLinuxView` is what a report would read now.

**Diagnostics, ExpectedPlatform, PlatformReport.** Checks are operators over views,
composed in the order of `build_diagnostics`. The contract is read one line per
step; `WellFormed` and `ItemsOf` say independently, over the whole file, what it
means. `PlatformReport` adds the order of the calls: artifacts, firmware JSON,
contract, then the two files, with exceptions that nobody catches and a stop at
any point. `summary` is what the Markdown's few lines about the firmware come to: text,
an exception over a member of another kind (`MarkdownRaises`, before the file is
opened), or text that UTF-8 cannot encode, which raises with the file truncated.

**EndToEnd.** `pc` is the host's next command, `guest` the place of the guest's script;
`host` and `img` are the same three files on the host and in the image, `cache` as
the guest sees them. `WriteBack` moves any file from cache to image at any time,
whole or in part, until `Sync`. Any command fails (`Abort` on the host, `stopped` in the guest), the timeout
strikes only while QEMU runs.

**OvmfPatch.** A file is a sequence of lines by what the script looks for. Every
write is a step, each `echo` of a block one of its own, so a stop leaves a beginning
of the block; `mv` is atomic, and the copy that makes a backup is not.

## 3. Runs

| Run | Instance | What it shows |
|---|---|---|
| `json_writer` | buffer of 5, documents up to 7 over two characters | pieces that just fit, just do not, or meet a full buffer: terminator and truncation, and the refinement of `WholeReport` |
| `boot_info` | maps up to 6, slack 3, growth 2, three changes | one change is absorbed and two may not be, on both sides of the slack; a coherent snapshot and one owner of the buffer |
| `firmware_view` | two starts, one change of the map, two images, reports of one or two cells, cleanup works | the second start meets what the first left on the volume, in the directory and in memory; every call fails, and the machine is killed, wherever it can be; without slack one change of the map between the two calls leaves a capture half done |
| `firmware_view_leak` | one start | **violation**, finding 2 |
| `report_file_stale` | two runs, cleanup may fail | **violation**, finding 1 |
| `firmware_json` | every combination of present and absent parts and odd texts | a strict reader takes the report and reads back what the firmware said |
| `firmware_json_null_entry` | the same with a NULL entry in the root | **violation**, finding 3 |
| `console` | six families of systems, see below | sound data is shown completely and once; report and console agree; no pointer leaves its table by more than is bounded; the listing ends |
| `platform_report` | every contract of up to four of sixteen lines before one machine; the repository's contract and all of up to three of ten lines before seven firmware files and three artifact directories | the contract is accepted exactly if well formed and means what it says; verdicts, exit status and the pair of files |
| `linux_collector` | three collections of a file and two commands | what a status says of its output, and where old output shows |
| `end_to_end` | three runs in one work directory | what a run that ends well leaves and what its guest was given; every run ends |
| `ovmf_patch` | every FDF of up to four lines, three runs | what the build sees; backups; idempotence |

The families of `console`. Each varies one part and keeps the others small; every part
is lived through in every system, so what one part decides about the next is met
in each.

- ACPI: two roots of up to two entries, two MADTs, one MCFG, every combination of
  wrong checksum, wrong name, length below the header or ending in half an entry,
  NULL entry, missing root and revision.
- Two MCFGs, each with or without a wrong checksum, with different windows, behind an
  XSDT, sound or not, that lists both in either order, behind a NULL entry, or neither,
  and an RSDT that lists the first.
- MADT: sound tables of up to three of eight records, the same cut by 1 to 9 bytes, and
  five arbitrary bytes.
- PCI: up to three windows, valid and not, and nine functions with every kind of
  BAR, a 64-bit one in the last register among them.
- SMBIOS: sound tables of up to three structures behind either entry point, the
  same cut at any byte, and with any byte changed; 44 bytes of memory behind each, as
  far as a field is read.
- Memory map: up to three descriptors, strides 2 to 4, counters modulo 4, a type per
  category and one no case names.

Bounds, and why they are enough:

- `MaxDocument` is two more than the buffer holds, so a document can end in every
  relation to it, also with a piece wholly past it. The theorems have no bound.
- `MaxStarts = MaxRuns = 2` in `firmware_view`: what a run meets on the volume is whole,
  cut or absent, shorter or longer, and in the directory nothing, or a table of the
  firmware's or of an earlier start. Two runs reach all of these, and the theorems of
  `FirmwareViewProofs` have no bound.
- `MaxImages = 2`: an image that fails to start, and one that works.
- `MaxChanges`, `MaxGrowth`, `Slack`: only their relation matters. In `boot_info`
  `MaxGrowth <= Slack < 2 * MaxGrowth` puts both outcomes in reach, the growth that is
  absorbed and the one that is not. `firmware_view` has no slack and one change, so the
  second GetMemoryMap fails on a buffer already allocated, and the whole program is seen
  after that. The program has 8 descriptors of slack; the theorems hold for any.
- `Modulus = 4` with pages 1 and 3: a sum that fits and one that wraps.
- Tables of up to three records or structures: what a round does depends on the
  record and on what follows it, another record, the end, or a cut. The theorems of
  `ConsoleProofs` have no bound.
- Three collections (`MaxRounds`), and `MaxRuns = 3` of `EndToEnd` and `OvmfPatch`: one run leaves a
  directory half done, a second overwrites part of it, the third reads both.
  Their theorems have no bound.
- Contracts of four lines: a key, an item, something that ends the list or does
  not, and another item. The theorems of `PlatformReportProofs` have no bound.
- FDFs of four lines: a volume before DXEFV, DXEFV, with or without an INF, and a
  volume behind it. The theorems of `OvmfPatchProofs` hold for FDFs of any length.

Deadlock is checked in `json_writer` and `report_file_stale`, whose modules say
what their end is. The other configurations say `CHECK_DEADLOCK FALSE` because the
system they describe stops: a walk ends, the starts or the changes of the map are
used up. Where that could hide a program that hangs, a liveness property is
checked instead (`ComesBack`, `ConsoleEnds`, `RunEnds`).

Fairness: `FairSpec` asks weak fairness of `UefiMain`, `CFairSpec` of the whole
listing: the processor goes on executing the program, whose calls of the firmware
return. UEFI boot services are synchronous, and event notifications are finite
interruptions. Nothing is asked of the firmware's events, of the boot manager
that starts the program, or of the kill: none of them has to happen.
`EEFairSpec` asks it of the host's commands only, QEMU among them, which `timeout`
stops at the latest; the guest may stay where it is for ever, so `RunEnds` shows
that the timeout is enough. `wget` is taken to return.

## 4. Findings

1. **A shorter report over a longer one** (`report_file_stale`, `NoStaleTail`).
   `FirmwareJson.c:782` ignores the status of Delete, and any error of Open is
   taken for "no previous report". The comment above it says why the report has
   to be deleted: CREATE does not truncate. When the delete fails, the write
   succeeds, and the file ends in bytes of the previous report.
2. **The handoff buffer on a failed report** (`firmware_view_leak`,
   `ReleasedOnReturn`). `Status` of the handoff is overwritten by that of the
   report; the release at `FirmwareView.c:124` looks at it. A report that cannot
   be written leaves the buffer allocated.
3. **A NULL entry in the root** (`firmware_json_null_entry`, `AlwaysReadable`).
   The console and both lookups skip NULL entries; the list of tables in the
   report does not, and writes four bytes of page zero into a string unescaped.
   Zeroes there end the C string before the closing quote. The instance assumes
   that page zero is readable and holds zeroes; a platform that protects it takes
   an exception instead.

Five more places met while modelling where the code does other than one expects; no
run is spent on them.

- `Smbios.c:209` looks for CoreCount and then reads EnabledCoreCount and ThreadCount
  with it; the comment above says that the length is checked before a field is
  touched. A structure of 36 or 37 bytes gets counts made of its strings; the
  lengths the standard has do not.
- `Smbios.c:309` and the printers look at fields behind the four bytes of a structure's
  header. They compare the structure's Length with what they need, and nothing with the
  end of the table, so the last structure of a table cut short is read up to 44 bytes
  past it. `PointersInside` bounds what is read (`FieldsInside`), and the walk ends there.
- `FirmwareJson.c:460` finds the MCFG without its checksum. A report can list ECAM windows
  of a table that the console refuses; `WindowsAgree` says that it happens only then.
- `run-e2e-linux.sh:122` promises a report in offline environments; the guest runs
  the report with `--fail-on-error` under `set -e` (line 157), so a missing tool the
  contract asks for ends the script before the copy.
- `writer.py:27-34` takes `firmware`, `acpi` and `memoryMap` of the JSON for objects and
  the tables for texts. Where they are not, `write_markdown` raises after the JSON report
  was written, so a new `platform-report.json` stands beside the old
  `platform-report.md` (`MarkdownRaises`). No text of the repository promises otherwise;
  `ReportsComeInPairs` names the exception.

## 5. Proofs

`FirmwareJsonProofs` holds of the writer, for every `Capacity`, alphabet, set of pieces
and document bound:

| Theorem | States |
|---|---|
| `TypeCorrect` | `Spec => []TypeOK`: no index leaves the buffer |
| `AlwaysTerminated` | `Spec => []Terminated` |
| `AlwaysPrefix` | `Spec => []HoldsPrefix` |
| `TruncationExact` | `Spec => []TruncatedIsExact` |
| `WholeOrNothing` | `Spec => []OnlyWholeDelivered` |
| `NoPoolLeak` | `Spec => []PoolBalanced` |
| `Implements` | `Spec => KeepsPromise`: the refinement of `WholeReport` |

Assumptions: `CapacityAssumption` (a positive capacity: it is 32768) and
`TextsAssumption` (pieces are sequences of characters, none of them the
terminator: they are C strings). TLC evaluates both on every run.

The argument. None of the invariants is inductive alone. `TypeOK` is not, for the
copy stays in the buffer only because room for the terminator was kept
(`Terminated`). `HoldsPrefix` is not: in a state where a piece was clipped but
the buffer had room, a later piece would fit in behind the gap. No such state is
reachable, since clipping fills the buffer to the last byte before the
terminator; so `IInv` adds `truncated => length = Capacity - 1`, and for each
`pc` what has been delivered so far. Three lemmas state what an append does
(`AppendedDocument`, `CopyLengthBounds`, `CopiedBuffer`), one lemma per action
that `IInv` survives it, and the theorems follow. The refinement maps each step
to a step of `WholeReport` or a stutter, from `IInv` before and after it.

Of the report's text it holds, for every set of firmwares, with any number of ACPI
tables and ECAM windows, numbers of any size and texts of any length:

| Theorem | States |
|---|---|
| `ReportReadsBack` | `JSpec => []ReadsBack` |

Assumptions: `NullAssumption` (`NULL` is no text) and `FirmwaresAssumption` (the fields
have their types; the vendor is a terminated string, as the code takes it to be; the
windows an MCFG announces are there). TLC evaluates both for every firmware of its two
runs. That signatures are proper is no assumption but the condition inside `ReadsBack`; without it
the report need not be JSON (finding 3).

The argument. `ReadsBack` speaks of the last state only, so the inductive invariant
`ReaderInv` has to say what the text written so far means. It says, for each `section` that
may come next, where a reader of that text stands in the grammar, with which containers
open and which path, and which facts it has learned (`Written`); and that the reader is
where the tokens it has taken lead (`Followed`). The proof is about texts, not steps:
`Yields(x, s, y, F)` says that over `s` a reader goes from `x` to `y` and learns `F`,
whatever it knew before, and `YieldsOn` joins two such texts. One lemma per kind of token
comes from the reader (`ReadsKey`, `ReadsComma`, `ReadsClose`, ...); from these, one per value
(`SaysNumber`, `SaysEscaped`, `SaysHex`, `SaysSignature`), one for a list of any length (`ReadsItems`,
`AddsList`), and one per function of the source (`ReadsMadt`, `ReadsPci`, ...). A number ends
only where the token behind it begins, so `Goes` compares readers up to `EndNumber`. Two
functions are recursive, the digits of a number and the reader's value of them; `DigitsStep`
and `NumberIs` show by induction over numbers that each is what its equation says, and
`DigitsCount` that the one undoes the other and that only 0 begins with a 0. At last `FactsSaid`
shows that what the sections say is the set `Facts`, none missing and none more, and
`ReadsAlike` that the reader can have come nowhere else.

`FirmwareViewProofs` first takes the parts of the program one by one. Of the boot
handoff it holds, for every `Slack`, `MaxGrowth`, bound on maps and number of
changes:

| Theorem | States |
|---|---|
| `HandoffTypeCorrect` | `BSpec => []BTypeOK` |
| `SnapshotCoherent` | `BSpec => []Coherent`: key and descriptors of one map |
| `OneOwner` | `BSpec => []BufferOwned`: no leak, no pointer to freed memory |
| `FailedIsZero` | `BSpec => []ErrorMeansZero` |
| `SlackSuffices` | `BSpec => SlackAbsorbs`: too small a buffer means that the map changed often enough to outgrow the slack |

Assumption: `BootInfoAssumption` (the four constants are natural numbers).

The argument. `BInv` adds to the invariants in which phases the object may hold a
buffer, and what the two locals of the capture mean: `room` is the queried map plus
the slack, and the map of now is at most the queried one plus `MaxGrowth` for
every change since (`Outgrown`). A change moves that bound by exactly `MaxGrowth`
(`ChangeKeepsBound`); the second GetMemoryMap fails only when the map passes
`room`, so `Outgrown` must have passed the slack. In particular the program's own
allocation, a single change, never makes the capture fail while
`MaxGrowth <= Slack`.

Of the report file it holds, for any number of runs and any sizes of report:

| Theorem | States |
|---|---|
| `FileTypeCorrect` | `WSpec => []WTypeOK` |
| `HandlesBalanced` | `WSpec => []HandleDiscipline` |
| `SuccessIsThere` | `WSpec => []SuccessMeansPrefix`: also where the cleanup fails |
| `SuccessIsWhole` | `~CleanupMayFail` implies `WSpec => []SuccessMeansWhole` |
| `FileOfOneRun` | `~CleanupMayFail` and `MaxRuns # 0` imply `WSpec => []NoMixture` |
| `OneRunsFile` | and with the one before `WSpec => []FileIsOneRuns` |

Assumptions: `ReportFileAssumption` (runs and sizes are numbers, a report is not
empty), and for the last three theorems that a previous report can be opened and
deleted.
Finding 1 shows that it cannot do without.

The argument. `HandleDiscipline` is inductive once the status at `CloseRoot` is
tied to whether the report directory is open: the code decides by the status.
`SuccessMeansPrefix` speaks of the end, so `WInv` has it from the write on
(`Begins`); `OverwrittenData` is what a write from position 0 leaves. `CleanInv`
adds that the file a run creates is empty, which is where the delete is needed.

Then it composes these two with the producer. Of the producer alone, for
any number of images, starts and firmware with or without the producer built in, and
then of the whole program, for any number of starts, failures and kills:

| Theorem | States |
|---|---|
| `ProducerTypeCorrect` | `PSpec => []PTypeOK` |
| `ProducerLives` | `PSpec => []OneLiveProducer`: one producer at most, its table in memory, success means published |
| `WritesAsReportFile` | `Spec => WSpec`: for the volume the program is `ReportFile` |
| `ProgramBalancesHandles` | `Spec => []HandleDiscipline` |
| `ProgramsFileIsOneRuns` | `~CleanupMayFail` and `MaxRuns # 0` imply `Spec => []FileIsOneRuns` |
| `ProducerLivesThroughout` | `Spec => []OneLiveProducer` |
| `ProgramsSnapshotCoherent` | `Spec => []Coherent` |
| `NothingFreedIsUsed` | `Spec => []NoUseAfterFree` |
| `EverythingGivenBack` | `Spec => []GivesBack` |
| `ReportedProducerLives` | `Spec => []ReportShowsProducer` |
| `SlackSufficesThroughout` | `Spec => SlackAbsorbs` |
| `ViewsAgree` | `~CleanupMayFail` implies `Spec => []SnapshotAgrees` |

Assumptions: those of the parts, `ProducerAssumption` (the bounds are numbers), and
`StartsAssumption` (a start has a run of the writer left to it).

The argument. Of the producer: either nobody has published, and an image is resident only
while its entry point runs, or exactly one has and is the only one resident (`PInv`); the
lookup is a search through a sequence, and four lemmas say what it finds in the
directories that occur. Of the program: for the volume it is a run of `ReportFile`
(`WritesAsReportFile`), so two of its properties are those of `ReportFile`. For
the handoff it is not a run of `BootInfo`: the program builds one handoff per start, has the
JSON buffer in the same pool, and may return without releasing the map (finding 2), so
`BInv` is not kept. What is left of it, `HInv`, still says what the captured map means. `Pooled`
says exactly what the start going on has allocated at each place: the map while the
capture or a built handoff holds it, the JSON buffer while a report is composed and
written. That is what `EverythingGivenBack` needs: at the return no file handle, no device
path, no allocation and no pointer is left, but for the map of a handoff that was built and
whose report failed (finding 2), which is still owned by its pointer. `Placed` ties
the program's place to the places of its three parts, which is why no two of them are on
at once, and `Reported` ties what was composed to the handoff and the directory of that
moment. `FInv` is all of these with `PInv` and `WInv`. `ViewsAgree` needs more (`SInv`): that
the file is this run's whole report from its success on (`CleanInv`, `Matched`), through
the changes of the map that come between the report and the console.

`NumberInduction` has no theorem about the code. The library's theorems of induction take
the predicate as a parameter, which the provers here cannot give a value. What they say
can be said with a set in its place: a set of numbers that holds 0, and n + 1 with every n, is
all of them (`Induction`), and a function may be defined by recursion (`Recursion`). Both
come from `LeastElement`: a set of numbers without a least one would put n + 2 numbers into
n + 1 places, against the pigeonhole theorem of the library.

`ConsoleProofs` holds for every memory, table, machine and memory map, of any size. Of the
two walks that refine `TableWalk`, each alone:

| Theorem | States |
|---|---|
| `MadtTypeCorrect` | `MadtSpec => []MadtTypeOK` |
| `MadtRounds` | `MadtSpec => []RoundsBounded`: at most half as many rounds as bytes walked |
| `MadtOverread` | `MadtSpec => []OverreadBounded`: at most 15 bytes past the end |
| `MadtWalks` | `MadtSpec => MadtStaysInTable`: the refinement of `TableWalk` |
| `SmbiosTypeCorrect` | `SmbiosSpec => []SmbiosTypeOK` |
| `SmbiosPointersInside` | `SmbiosSpec => []PointersInside`: pointers inside, and fields read at most 44 bytes past the end |
| `SmbiosStaysInTable` | `SmbiosSpec => StaysInTable`: the refinement of `TableWalk` |
| `SmbiosPrintsWritten` | `SmbiosSpec => []PrintsWhatWasWritten`: a table the firmware wrote is printed as it was written |

and of the program that runs them all:

| Theorem | States |
|---|---|
| `ProgramWalksMadt`, `ProgramWalksSmbios` | `CSpec => MadtSpec`, `CSpec => SmbiosSpec`: so all of the above holds of the program |
| `ProgramPrintsWritten` | `CSpec => []PrintsWhatWasWritten`, the last of them |
| `LookupsDoAgree` | `CSpec => []LookupsAgree`: neither lookup loses a table to be trusted |
| `MadtIsListed` | `CSpec => [](ListsEveryRecord /\ OverreadBounded)` |
| `FunctionsAreListed` | `CSpec => []ListsEveryFunction` |
| `BarsArePrinted` | `CSpec => []BarsAsDeclared` |
| `WindowListsAgree` | `CSpec => []WindowsAgree`: whichever MCFG the report has found |
| `PagesAreCounted` | `CSpec => []EveryPageInOneCategory` |
| `MemorySummariesAgree` | `CSpec => []ConsoleMatchesReport` |

Assumptions, all but one about the shape of foreign data and none about its soundness:
`TablesAssumption`, `FirmwaresAssumption` (memory is bytes, and there is memory where a table
says it lies, and 44 bytes on behind an SMBIOS table), `SystemsAssumption` (a system is made
of an ACPI memory, a MADT's bytes, functions, SMBIOS entry points and a map of their types,
and a table named MCFG in it, valid or not, has the windows its Length speaks of),
`NothingAssumption` (the MADT walk's NULL argument is among the tables) and
`ModulusAssumption`. The one is `WrittenAssumption`: a
table called well formed is well formed. It restricts no other, and the theorems about
pointers do not use it. `AcpiMemory`,
`WellFormedMachine` and `WellFormedMap` say what these types are: a length that is a
number, windows where the MCFG's Length puts them, a stride that holds a descriptor.

The argument, part by part, `ConsoleInv` being the conjunction.

- Lookups (`AInv`): what was shown and what was reported is what the memory says. The
  rest is about operators: a search through a root's entries finds the first that fits,
  and what the strict one accepts the lax one accepts, so the lax one finds that table or
  an earlier one of the same name, which the strict one then refused.
- MADT (`MadtInv`): a Length below the header ends the loop, so every round advances, and
  a read begins before the end. Over a well-formed table, what was printed is a front
  part of its records and the walk stands at the record behind it (`FollowsRecords`).
- PCI (`PciInv`): every valid window the listing has passed is listed once, in order, and the
  scan follows that list (`WindowsInv`); every function passed has its line and every
  line is of a function passed, in the order of the scan (`LinesInv`); the line at hand has
  the declared BARs below the register, which is no upper half (`BarsInv`). What the
  report has is another lookup's result: `TurnInv` keeps that the machine scanned is the MCFG
  the console found; if the report found the same, both judge the same windows, and
  if not, `LookupsDoAgree` says what its table is.
- SMBIOS (`SmbiosInv`): while the walk is inside a structure, the four bytes it begins
  with lie in the table, which makes its Length a number and bounds where the strings
  may begin; each pointer is compared with the end before each byte. The fields are not:
  a line is made of what its structure's Length covers, or four bytes more (the three
  counts read for one), and of no more than 48 bytes. If that passes the table the
  strings begin behind its end, so the next step leaves the walk; hence where a
  structure begins inside, nothing past the table has been read (`FieldsInside`).
- What SMBIOS prints (`WrittenInv`): the walk looks for terminators, and the firmware wrote
  texts. Lemmas about a table alone put the one where the other says: a byte
  of a text is not zero, every place among the strings is in one of them (`InSomeString`, by
  the first string that begins behind it), so the first double terminator is the end of the structure
  (`OnlyOneDoubleTerminator`) and the text `Print` finds is the one written (`TextFound`).
  Structures and strings rise (`NeverFalls`, an induction), so all of them are in the table.
  Then each step keeps three things: the walk is at structure `index`, no end mark behind
  it (`PlaceInv`); the lines are those of the printed structures passed, which the next one
  joins in order (`PrintedInv`, `NextToPrint`); and the line at hand has the strings its
  fields name so far, with the search at string `number` (`LineInv`).
- Memory map (`MapInv`): the counters are the sums over the descriptors passed, modulo
  the counter's width, and the total is kept beside the categories, since no single
  counter says that no page was counted twice; the pointer is the index times the
  firmware's stride.

The sums and the searches are recursive or take a least element; `NumberInduction` is
what they rest on.

At the end the program is shown to start in `ConsoleInv` and to leave each part's state
by that part's steps only (`EachWalkOnItsOwn`).

`PlatformReportProofs` holds for contracts of any length and content, and for whatever the
firmware's file and the artifact directory hold:

| Theorem | States |
|---|---|
| `ContractIsRead` | `PSpec => []ContractIsWhatFileSays` |
| `VerdictsDoMatch` | `PSpec => []VerdictsMatchEvidence` |
| `ExitTells` | `PSpec => []ExitTellsWhetherMet` |
| `ReportsDoComeInPairs` | `PSpec => []ReportsComeInPairs` |

Assumption: `SettingsAssumption` (no text is None, a number is one, a file that is not
read has no members).

The argument. After each line the reader has what the lines before it say (`ReadSoFar`):
each of them well formed, each list with the items below its key so far, each at its
rank among them, each scalar with its last entry (`LastBefore`), and `current_list` the
key an item of the next line would be below (`ListIsOn`). Ranks are cardinalities of sets of
positions, which grow by one with an item (`ItemsNext`); so no list has to be computed
twice. At the end that is `WellFormed` and `ItemsOf`. Six lemmas, one for each part of
`build_diagnostics`, show that its checks are the verdicts on that part's demands;
together they are in one-to-one correspondence with `Demands` (`OneCheckEach`), and what
they say follows from what the files hold (`VerdictSays`). `PInv` carries both through
the calls of `generate_report`, with what is on disk at each.

`LinuxCollectorProofs` holds for any list of artifacts and any number of
collections, each stopped anywhere:

| Theorem | States |
|---|---|
| `CollectorTypeCorrect` | `LSpec => []LTypeOK` |
| `CollectionsComplete` | `LSpec => []CompletedIsCoherent` |
| `StaleIsMarked` | `LSpec => []StaleOnlyWhereSaid` |
| `OkIsOwn` | `LSpec => []OkMeansItsOwnText` |
| `FreshIsFresh` | `LSpec => []FreshShowsOnlyCollected` |

Assumption: `OrderAssumption` (artifacts have distinct names, dmesg is among the
commands, e820 is derived). The argument splits the list at the artifact the
collection is at (`LInv`): those passed have its status and an output that supports
it (`Passed`), those ahead are older (`Ahead`), the one at hand is between the two
(`Here`), and nothing is younger than the collection (`NoneYounger`).

`EndToEndProofs` holds for any number of runs:

| Theorem | States |
|---|---|
| `RunTypeCorrect` | `EESpec => []EETypeOK` |
| `RunLeavesItsOwn` | `EESpec => []SuccessIsThisRuns` |
| `RunPassed` | `EESpec => []SuccessMeansPassed` |
| `RunIsWhole` | `EESpec => []HalfOnlyOnTimeout` |
| `GuestCompares` | `EESpec => []GuestSeesThisFirmware` |
| `RunImageWhole` | `EESpec => []ImageWhole` |
| `GoodRun` | `EESpec => []GoodRunLeavesItsOwn` |
| `GuestGiven` | `EESpec => []GuestIsGivenWhole` |

Assumption: `MaxRunsAssumption`. None of these is inductive: what the host holds at
the end follows from what each command found. `EEInv` has one conjunct per hand-over:
the cleaned directory (`Prepared`), the guest's disk (`ImagesReady`), the files in the
image and the cache (`Handed`), where the guest's script is (`GuestDone`), and what has
been taken out (`Taken`).

`OvmfPatchProofs` holds for FDFs of any length with any lines, and for any number of runs,
each stopped anywhere:

| Theorem | States |
|---|---|
| `BuildSeesProducer` | `OSpec => []BuildsWithProducer` |
| `NothingDoesGetLost` | `OSpec => []NothingIsLost` |
| `PatchedIsLeftAlone` | `OSpec => PatchIsIdempotent` |

Assumption: `FdfsAssumption` (FDFs are sequences of lines, the number of runs is one).

The argument. awk is a recursive function of the lines; by induction over their number it has
copied them, with the producer behind one in DXEFV if it has met a place for it
(`Copied`). So the FDF is at any time the original or what awk makes of it, never a
mixture, since `mv` replaces it at once (`FdfInv`). The DSC is written line by line: `DscInv`
says for each place in the script which of its blocks are there, what a stopped block leaves, and
that none comes twice; a backup is of the original, or an empty one of a copy that was
stopped (`BackupInv`). A tree that has been built holds all the script greps for
(`BuiltInv`), and no later run writes.

Checked by TLC only:

- Liveness (`ComesBack`, `ConsoleEnds`, `RunEnds`): fairness and ENABLED are out of the
  prover's reach.

## 6. Not modelled

- Formatting: GUIDs, headings, column layout, wording on the console, `Print`.
- `PrintMemoryMap` of `MemoryMap.c`, which nothing calls.
- What a status of Flush or Close would say, and a short count from Write: the code
  looks at none of them, and the modelled volume stores what Write accepted
  unless the machine is killed.
- A root whose Length is smaller than its header, in the report: the subtraction
  wraps and the list has no end. `AcpiTables` marks it as endless and states
  nothing of what is printed.
- The RSDP is taken as given; its checksum is not looked at by the code either.
- SMBIOS: an extended memory size (0x7FFF) is printed as it is, and a device given in
  KB below 1 MB is dropped; both are modelled as done, with no property that asks for
  more. Names of device classes and form factors are wording.
- PCI: names of classes, and what is behind a bridge; the code scans the first bus of
  a window only, and so does the model.
- The line parsers of `parsers.py` for lspci, lscpu, dmidecode and dmesg: each is a
  pattern over the layout of a tool's output. What they return is an input of
  `PlatformReport`.
- The contract: text behind a `#` inside a value is cut off by the code as a comment,
  and a negative floor is accepted; lines are taken after that cut.
- Diagnostics: the notes about identity and the wording of the Markdown.
- The collector's manifest, its `.err` files and `sudo`: nothing reads them back, and
  sudo changes only which commands fail. Commands are taken to return, since the
  code gives them no timeout.
- OVMF: `!if` blocks and APRIORI lists inside an FDF, and an EDK II tree updated
  between two runs, which would leave backups of another version.
- What the guest does beside its script, and a `wget` that never returns.
- `Makefile`, `Vagrantfile`, `.dsc`, `.dec`, `.inf`: build recipes.

## 7. Plan

Done: the firmware program from the append to the volume, its producer, its
handoff and all its walks over firmware tables; the Linux side from the collector
to the exit status; the scripts around both; and the proofs listed above.

What is left, in the order of what it would add:

1. The files of `LinuxCollector` as the input of `PlatformReport`: one module that
   makes a report between two steps of a collection. `BuildLinuxView` is the seam;
   the two are checked on their sides of it.
2. The lines of `parsers.py` that decide whether a view is empty.
