-------------------------- MODULE ExpectedPlatform --------------------------
(***************************************************************************)
(* expected.py: the contract is read line by line.  A line is what is left *)
(* of it before a "#": blank, an item ("  - value"), a line without a      *)
(* colon, or an entry with a key and a value.  number is what int() makes  *)
(* of the value.                                                           *)
(***************************************************************************)
EXTENDS Diagnostics

VARIABLES file,        \* the file on disk, never written: a sequence of lines,
                       \* or NoFile
          at,          \* the line being read
          current,     \* current_list
          expected     \* the contract so far; the result once at is past the end

NoText == ""

evars == <<file, at, current, expected>>

NoFile == <<[kind |-> "no file", key |-> NoText, value |-> NoText, number |-> Unknown]>>

ListKeys == {"expected_firmware_vendors", "required_acpi_tables",
             "required_linux_artifacts"}

Empty == [loaded |-> TRUE, platform_id |-> Absent,
          expected_firmware_vendor |-> Absent, expected_firmware_vendors |-> <<>>,
          required_acpi_tables |-> <<>>, required_linux_artifacts |-> <<>>,
          min_memory_mib |-> Unknown, require_smbios |-> FALSE]

NotLoaded == [Empty EXCEPT !.loaded = FALSE]

True == {"true", "yes", "1"}
False == {"false", "no", "0"}

\* Where the reader stops: behind the last line, or at an error.
Parsed == at > Len(file)
line == file[at]

\* An error forgets what was read before it.
Reject == /\ expected' = NotLoaded
          /\ at' = Len(file) + 1

Advance == at' = at + 1

-----------------------------------------------------------------------------
EInit == /\ at = 1
         /\ current = Absent
         /\ expected = Empty

\* path is None, does not exist or cannot be read as UTF-8.
FileIsMissing == /\ file = NoFile /\ ~Parsed
                 /\ Reject
                 /\ UNCHANGED current

Blank == /\ ~Parsed /\ line.kind = "blank"
         /\ Advance
         /\ UNCHANGED <<current, expected>>

ListItem == /\ ~Parsed /\ line.kind = "item"
            /\ IF current = Absent
               THEN Reject
               ELSE /\ expected' = [expected EXCEPT ![current] = Append(@, line.value)]
                    /\ Advance
            /\ UNCHANGED current

NoColon == /\ ~Parsed /\ line.kind = "plain"
           /\ current' = Absent
           /\ Reject

ListKey == /\ ~Parsed /\ line.kind = "entry" /\ line.key \in ListKeys
           /\ IF line.value = NoText
              THEN current' = line.key /\ Advance /\ UNCHANGED expected
              ELSE current' = Absent /\ Reject

\* Defect: the list goes on behind an entry.
ScalarKeyInList ==
    /\ ~Parsed /\ line.kind = "entry" /\ line.key \notin ListKeys
    /\ UNCHANGED current
    /\ IF line.key \in {"platform_id", "expected_firmware_vendor"}
       THEN expected' = [expected EXCEPT ![line.key] = line.value] /\ Advance
       ELSE Reject

\* A key with a value of its own ends the list before it.
ScalarKey ==
    /\ ~Parsed /\ line.kind = "entry" /\ line.key \notin ListKeys
    /\ current' = Absent
    /\ \/ /\ line.key \in {"platform_id", "expected_firmware_vendor"}
          /\ expected' = [expected EXCEPT ![line.key] = line.value]
          /\ Advance
       \/ /\ line.key = "min_memory_mib" /\ line.number # Unknown
          /\ expected' = [expected EXCEPT !.min_memory_mib = line.number]
          /\ Advance
       \/ /\ line.key = "require_smbios" /\ line.value \in True \cup False
          /\ expected' = [expected EXCEPT !.require_smbios = line.value \in True]
          /\ Advance
       \/ /\ \/ line.key \notin {"platform_id", "expected_firmware_vendor",
                                 "min_memory_mib", "require_smbios"}
             \/ line.key = "min_memory_mib" /\ line.number = Unknown
             \/ line.key = "require_smbios" /\ line.value \notin True \cup False
          /\ Reject

ReadLine == \/ FileIsMissing \/ Blank \/ ListItem
            \/ NoColon \/ ListKey \/ ScalarKey

ENext == ReadLine /\ UNCHANGED file
=============================================================================
