---------------------------- MODULE FirmwareJson ----------------------------
(***************************************************************************)
(* The text of the report: BuildFirmwareJson of Report/FirmwareJson.c and  *)
(* the functions it calls, section by section, over what the firmware      *)
(* says.  The text is a sequence of tokens of JsonReader; a string is      *)
(* written character by character, for its escapes, and a number digit by  *)
(* digit.  That the whole text reaches the file, or none of it, is         *)
(* JsonWriter's business.                                                  *)
(*                                                                         *)
(* A character is a printable one ("p" stands for them), a quote, a        *)
(* backslash, one outside the printable ASCII range ("other"), or "NUL".   *)
(***************************************************************************)
EXTENDS Naturals, Sequences, SequencesExt, JsonReader

CONSTANTS NULL,
          Firmwares    \* what the firmware says, in the runs

McfgSize == 44        \* the fixed part of an MCFG
WindowSize == 16      \* an allocation structure

\* The eight numbers of JsonAppendMemorySummary, in its order.
MemoryKeys == <<"descriptorCount", "descriptorSize", "usablePages", "bootServicesPages",
                "runtimePages", "acpiPages", "reservedPages", "mmioPages">>

Characters == {"p", "quote", "backslash", "other", "NUL"}

ASSUME NullAssumption == NULL \notin Seq(Characters)

Window == [base : Nat, segment : Nat, startBus : Nat, endBus : Nat]

\* What firmware can say.  A vendor is terminated; what lies behind the fixed
\* part of an MCFG is at least as long as the MCFG says.
ASSUME FirmwaresAssumption ==
    \A f \in Firmwares :
        /\ f.vendor \in {NULL} \cup Seq(Characters \ {"NUL"})
        /\ f.major \in Nat /\ f.minor \in Nat
        /\ f.rsdp \in {NULL} \cup [address : Nat, revision : Nat, rsdt : Nat, xsdt : Nat]
        /\ f.tables \in Seq(Seq(Characters))
        /\ f.madt \in {NULL} \cup [length : Nat, localApicAddress : Nat, flags : Nat]
        /\ f.mcfg \in {NULL} \cup [length : Nat, windows : Seq(Window)]
        /\ f.mcfg # NULL => f.mcfg.length < McfgSize + WindowSize * (Len(f.mcfg.windows) + 1)
        /\ f.lab \in {NULL} \cup [magic : BOOLEAN, whole : BOOLEAN, version : Nat,
                                  platformId : Seq(Characters), buildMarker : Seq(Characters)]
        /\ f.smbios32 \in Nat /\ f.smbios64 \in Nat
        /\ f.memory \in [DOMAIN MemoryKeys -> Nat]

VARIABLES firmware,    \* what the firmware says; read only
          text,        \* the report so far
          section,     \* the section that comes next
          reader,      \* a JSON reader of the text
          taken        \* how many tokens it has read

jvars == <<firmware, text, section, reader, taken>>

Key(k) == <<<<"key", k>>>>
Quote == <<<<"quote">>>>
Comma == <<<<"comma">>>>
Open == <<<<"object">>>>
Close == <<<<"endObject">>>>
OpenList == <<<<"array">>>>
CloseList == <<<<"endArray">>>>
Boolean(b) == <<<<"literal", b>>>>

-----------------------------------------------------------------------------
(* The scalars.                                                            *)

Digits[v \in Nat] == IF v < 10 THEN <<v>> ELSE Append(Digits[v \div 10], v % 10)

\* JsonAppendUint64.
JsonAppendUint64(v) == [i \in DOMAIN Digits[v] |-> <<"digit", Digits[v][i]>>]

\* JsonAppendHex between quotes: as many digits as its field is wide.
JsonAppendQuotedHex(v) == Quote \o <<<<"hex", v>>>> \o Quote

Upto(s, c) == IF c \in Range(s) THEN SubSeq(s, 1, SelectInSeq(s, LAMBDA x : x = c) - 1) ELSE s

\* Defect: a backslash is printable.
EscapedBarely(c) ==
    CASE c = "quote"     -> <<<<"backslash">>, <<"quote">>>>
      [] c = "backslash" -> <<<<"backslash">>>>
      [] c = "other"     -> <<<<"char", "questionMark">>>>
      [] OTHER           -> <<<<"char", c>>>>

\* What both escaping functions write for a character.
Escaped(c) ==
    CASE c = "quote"     -> <<<<"backslash">>, <<"quote">>>>
      [] c = "backslash" -> <<<<"backslash">>, <<"backslash">>>>
      [] c = "other"     -> <<<<"char", "questionMark">>>>
      [] OTHER           -> <<<<"char", c>>>>

\* JsonAppendEscapedChar16 of a terminated text, or of NULL.
JsonAppendEscapedChar16(s) ==
    Quote \o (IF s = NULL THEN <<>> ELSE FlattenSeq([i \in DOMAIN s |-> Escaped(s[i])])) \o Quote

\* JsonAppendEscapedAsciiFixed of a field of MaxBytes, which need not hold a NUL.
JsonAppendEscapedAsciiFixed(field) == JsonAppendEscapedChar16(Upto(field, "NUL"))

\* A character that is not escaped.
Raw(c) == IF c \in {"quote", "backslash"} THEN <<c>> ELSE IF c = "other" THEN <<"control">> ELSE <<"char", c>>

\* JsonAppendAcpiSignature: quote, the bytes, quote, all of one string of C;
\* a NUL among the bytes ends it, before the closing quote.
JsonAppendAcpiSignature(signature) ==
    LET bytes == Upto(signature, "NUL")
        raw   == [i \in DOMAIN bytes |-> Raw(bytes[i])]
    IN  Quote \o raw \o (IF "NUL" \in Range(signature) THEN <<>> ELSE Quote)

-----------------------------------------------------------------------------
(* The sections.                                                           *)

Separated(items) ==
    FlattenSeq([i \in DOMAIN items |-> (IF i = 1 THEN <<>> ELSE Comma) \o items[i]])

\* JsonAppendAcpiTables; which signatures are listed, AcpiTables says.
JsonAppendAcpiTables ==
    Key("tables") \o OpenList
    \o Separated([i \in DOMAIN firmware.tables |-> JsonAppendAcpiSignature(firmware.tables[i])])
    \o CloseList

JsonAppendMadtSummary ==
    Key("madt") \o Open \o Key("present") \o Boolean(firmware.madt # NULL)
    \o (IF firmware.madt = NULL THEN <<>>
        ELSE Comma \o Key("length") \o JsonAppendUint64(firmware.madt.length)
             \o Comma \o Key("localApicAddress") \o JsonAppendQuotedHex(firmware.madt.localApicAddress)
             \o Comma \o Key("flags") \o JsonAppendQuotedHex(firmware.madt.flags))
    \o Close

\* The whole windows behind the fixed part; none if there is no MCFG or it is
\* shorter than that.
Windows ==
    IF firmware.mcfg = NULL \/ firmware.mcfg.length < McfgSize THEN <<>>
    ELSE SubSeq(firmware.mcfg.windows, 1, (firmware.mcfg.length - McfgSize) \div WindowSize)

JsonAppendMcfgSummary ==
    Key("mcfg") \o Open \o Key("present") \o Boolean(firmware.mcfg # NULL)
    \o Comma \o Key("entryCount") \o JsonAppendUint64(Len(Windows)) \o Close

JsonAppendPciSummary ==
    Key("pci") \o Open \o Key("ecamWindows") \o OpenList
    \o Separated([i \in DOMAIN Windows |->
          Open \o Key("base") \o JsonAppendQuotedHex(Windows[i].base)
          \o Comma \o Key("segment") \o JsonAppendUint64(Windows[i].segment)
          \o Comma \o Key("startBus") \o JsonAppendUint64(Windows[i].startBus)
          \o Comma \o Key("endBus") \o JsonAppendUint64(Windows[i].endBus) \o Close])
    \o CloseList \o Close

\* The table of the lab counts only with its magic and its size.
LabValid == firmware.lab # NULL /\ firmware.lab.magic /\ firmware.lab.whole

JsonAppendUefiBootLabTable ==
    Key("uefiBootLab") \o Open \o Key("present") \o Boolean(LabValid)
    \o (IF ~LabValid THEN <<>>
        ELSE Comma \o Key("version") \o JsonAppendUint64(firmware.lab.version)
             \o Comma \o Key("platformId") \o JsonAppendEscapedAsciiFixed(firmware.lab.platformId)
             \o Comma \o Key("buildMarker") \o JsonAppendEscapedAsciiFixed(firmware.lab.buildMarker))
    \o Close

JsonAppendMemorySummary ==
    Separated([i \in DOMAIN MemoryKeys |->
                  Key(MemoryKeys[i]) \o JsonAppendUint64(firmware.memory[i])])

FirmwareSection ==
    Open \o Key("schemaVersion") \o JsonAppendUint64(1) \o Comma
    \o Key("firmware") \o Open \o Key("vendor") \o JsonAppendEscapedChar16(firmware.vendor)
    \o Comma \o Key("uefiRevision") \o Quote \o JsonAppendUint64(firmware.major)
    \o <<<<"char", "dot">>>> \o JsonAppendUint64(firmware.minor) \o Quote \o Close

RsdpSection ==
    Comma \o Key("acpi") \o Open
    \o Key("rsdp") \o JsonAppendQuotedHex(IF firmware.rsdp = NULL THEN 0 ELSE firmware.rsdp.address)
    \o Comma
    \o (IF firmware.rsdp = NULL THEN <<>>
        ELSE Key("revision") \o JsonAppendUint64(firmware.rsdp.revision)
             \o Comma \o Key("rsdt") \o JsonAppendQuotedHex(firmware.rsdp.rsdt)
             \o Comma \o Key("xsdt") \o JsonAppendQuotedHex(firmware.rsdp.xsdt) \o Comma)
    \o JsonAppendAcpiTables

\* The rest of the object that RsdpSection opened.
AcpiSection == Comma \o JsonAppendMadtSummary \o Comma \o JsonAppendMcfgSummary \o Close

LabSection == Comma \o JsonAppendUefiBootLabTable

PciSection == Comma \o JsonAppendPciSummary

SmbiosSection ==
    Comma \o Key("smbios") \o Open
    \o Key("entryPoint32") \o JsonAppendQuotedHex(firmware.smbios32)
    \o Comma \o Key("entryPoint64") \o JsonAppendQuotedHex(firmware.smbios64) \o Close

MemorySection ==
    Comma \o Key("memoryMap") \o Open \o JsonAppendMemorySummary \o Close \o Close

JInit == /\ firmware \in Firmwares
         /\ text = <<>>
         /\ section = "firmware"
         /\ reader = Reader0
         /\ taken = 0

\* The reader has read what there is of the text.
CaughtUp == taken = Len(text)

\* BuildFirmwareJson, a section at a time; the reader reads along, and the
\* next section waits for it.
AppendSection(from, what, to) ==
    /\ section = from
    /\ CaughtUp
    /\ text' = text \o what
    /\ section' = to
    /\ UNCHANGED <<firmware, reader, taken>>

BuildFirmwareJson ==
    \/ AppendSection("firmware", FirmwareSection, "rsdp")
    \/ AppendSection("rsdp", RsdpSection, "acpi")
    \/ AppendSection("acpi", AcpiSection, "lab")
    \/ AppendSection("lab", LabSection, "pci")
    \/ AppendSection("pci", PciSection, "smbios")
    \/ AppendSection("smbios", SmbiosSection, "memory")
    \/ AppendSection("memory", MemorySection, "over")

\* The reader takes the next token.
ReadToken ==
    /\ ~CaughtUp
    /\ reader' = Read(reader, text[taken + 1])
    /\ taken' = taken + 1
    /\ UNCHANGED <<firmware, text, section>>

JNext == BuildFirmwareJson \/ ReadToken
JSpec == JInit /\ [][JNext]_jvars

-----------------------------------------------------------------------------
(* What the report should say.                                             *)

NumberFact(path, v) == <<path, <<"number", v>>>>
HexFact(path, v) == <<path, <<"string", <<<<"hex", v>>>>>>>>
TruthFact(path, b) == <<path, <<"literal", b>>>>

\* What is left of a text in the report: a question mark where it was not
\* printable, and nothing else lost.
Legible(s) ==
    [i \in DOMAIN s |-> CASE s[i] = "other" -> <<"char", "questionMark">>
                          [] s[i] \in {"quote", "backslash"} -> <<s[i]>>
                          [] OTHER -> <<"char", s[i]>>]

TextFact(path, s) == <<path, <<"string", Legible(IF s = NULL THEN <<>> ELSE Upto(s, "NUL"))>>>>

AcpiFacts ==
    { HexFact(<<"acpi", "rsdp">>, IF firmware.rsdp = NULL THEN 0 ELSE firmware.rsdp.address),
      TruthFact(<<"acpi", "madt", "present">>, firmware.madt # NULL),
      TruthFact(<<"acpi", "mcfg", "present">>, firmware.mcfg # NULL),
      NumberFact(<<"acpi", "mcfg", "entryCount">>, Len(Windows)) }
    \cup { TextFact(<<"acpi", "tables", i>>, firmware.tables[i]) : i \in DOMAIN firmware.tables }
    \cup (IF firmware.rsdp = NULL THEN {}
          ELSE { NumberFact(<<"acpi", "revision">>, firmware.rsdp.revision),
                 HexFact(<<"acpi", "rsdt">>, firmware.rsdp.rsdt),
                 HexFact(<<"acpi", "xsdt">>, firmware.rsdp.xsdt) })
    \cup (IF firmware.madt = NULL THEN {}
          ELSE { NumberFact(<<"acpi", "madt", "length">>, firmware.madt.length),
                 HexFact(<<"acpi", "madt", "localApicAddress">>, firmware.madt.localApicAddress),
                 HexFact(<<"acpi", "madt", "flags">>, firmware.madt.flags) })

LabFacts ==
    { TruthFact(<<"uefiBootLab", "present">>, LabValid) }
    \cup (IF ~LabValid THEN {}
          ELSE { NumberFact(<<"uefiBootLab", "version">>, firmware.lab.version),
                 TextFact(<<"uefiBootLab", "platformId">>, firmware.lab.platformId),
                 TextFact(<<"uefiBootLab", "buildMarker">>, firmware.lab.buildMarker) })

PciFacts ==
    UNION { { HexFact(<<"pci", "ecamWindows", i, "base">>, Windows[i].base),
              NumberFact(<<"pci", "ecamWindows", i, "segment">>, Windows[i].segment),
              NumberFact(<<"pci", "ecamWindows", i, "startBus">>, Windows[i].startBus),
              NumberFact(<<"pci", "ecamWindows", i, "endBus">>, Windows[i].endBus) } :
            i \in DOMAIN Windows }

Facts ==
    { NumberFact(<<"schemaVersion">>, 1),
      TextFact(<<"firmware", "vendor">>, firmware.vendor),
      <<<<"firmware", "uefiRevision">>,
        <<"string", JsonAppendUint64(firmware.major) \o <<<<"char", "dot">>>>
                    \o JsonAppendUint64(firmware.minor)>>>>,
      HexFact(<<"smbios", "entryPoint32">>, firmware.smbios32),
      HexFact(<<"smbios", "entryPoint64">>, firmware.smbios64) }
    \cup { NumberFact(<<"memoryMap", MemoryKeys[i]>>, firmware.memory[i]) : i \in DOMAIN MemoryKeys }
    \cup AcpiFacts \cup LabFacts \cup PciFacts

\* ACPI names are four printable characters, none a quote or a backslash.
ProperSignatures == \A s \in Range(firmware.tables) : Range(s) \subseteq {"p"}

\* From firmware with proper signatures comes a report that a strict reader
\* takes, and that says of the firmware what there was to say, every fact at
\* its path and no other: whatever is missing from the firmware and whatever
\* its texts contain.
ReadsBack ==
    section = "over" /\ CaughtUp /\ ProperSignatures =>
        reader.at = "end" /\ reader.facts = Facts

\* "Produce a machine-readable firmware view that Phase 2/3 Python tooling can
\* compare with Linux": the tooling can read every report.
AlwaysReadable == section = "over" /\ CaughtUp => reader.at = "end"
=============================================================================
