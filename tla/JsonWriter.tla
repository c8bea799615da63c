----------------------------- MODULE JsonWriter -----------------------------
(***************************************************************************)
(* The fixed-capacity JSON writer of Report/FirmwareJson.c and the call    *)
(* that owns it, WriteFirmwareViewJson: allocate a zeroed buffer, append   *)
(* the pieces of the document, refuse a truncated document, hand a whole   *)
(* one to the boot volume, free the buffer.                                *)
(*                                                                         *)
(* A piece of text is a sequence over Char; which pieces BuildFirmwareJson *)
(* appends is left open here, so what holds for any pieces in any order    *)
(* holds for the report.                                                   *)
(***************************************************************************)
EXTENDS Naturals, Sequences

CONSTANTS Char,         \* the bytes a piece of text may hold
          NUL,          \* the terminator, never part of a text
          Texts,        \* the pieces of text that may be appended
          Capacity,     \* FIRMWARE_JSON_CAPACITY
          MaxDocument   \* bound of the runs on the length of a document

ASSUME CapacityAssumption == Capacity \in Nat \ {0}

ASSUME TextsAssumption == NUL \notin Char /\ Texts \subseteq Seq(Char)

VARIABLES buffer,       \* Writer.Buffer
          length,       \* Writer.Length
          truncated,    \* Writer.Truncated
          pool,         \* TRUE while the call holds its pool allocation
          pc,           \* where WriteFirmwareViewJson is
          status,       \* the status it returned, "running" before that
          document,     \* history: all that was appended, kept or not
          delivered     \* what WriteJsonToLoadedImageVolume was given

writer == <<buffer, length, truncated>>
vars   == <<buffer, length, truncated, pool, pc, status, document, delivered>>

Offset == 0 .. Capacity - 1

Init == /\ buffer = [i \in Offset |-> NUL]
        /\ length = 0
        /\ truncated = FALSE
        /\ pool = FALSE
        /\ pc = "allocate"
        /\ status = "running"
        /\ document = <<>>
        /\ delivered = {}

-----------------------------------------------------------------------------
\* ZeroMem(&Writer), then AllocateZeroPool(Capacity), which may return NULL.
Allocate ==
    /\ pc = "allocate"
    /\ \/ pool' = TRUE /\ pc' = "build" /\ UNCHANGED status
       \/ pool' = FALSE /\ pc' = "done" /\ status' = "EFI_OUT_OF_RESOURCES"
    /\ UNCHANGED <<writer, document, delivered>>

\* Defect: no room is kept for the terminator.
CopyLengthNoTerminator(text) ==
    IF length + Len(text) > Capacity THEN Capacity - length ELSE Len(text)

\* CopyLength of JsonAppend: all of the text, or what still leaves room for
\* the terminator.
CopyLength(text) ==
    IF length + Len(text) + 1 > Capacity
    THEN Capacity - length - 1
    ELSE Len(text)

\* Buffer after n bytes of text were copied at Length and terminated.
Copied(text, n) ==
    [i \in Offset |-> CASE i \in length .. length + n - 1 -> text[i - length + 1]
                        [] i = length + n -> NUL
                        [] OTHER -> buffer[i]]

\* Defect: Truncated tells only of the last piece.
ClippedLast(text) == length + Len(text) + 1 > Capacity

\* Truncated after an append: once raised it stays.
Clipped(text) == truncated \/ length + Len(text) + 1 > Capacity

\* JsonAppend(Writer, Text), called by BuildFirmwareJson and its helpers.
JsonAppend(text) ==
    /\ pc = "build"
    /\ Len(document) + Len(text) <= MaxDocument
    /\ document' = document \o text
    /\ IF length >= Capacity
       THEN truncated' = TRUE /\ UNCHANGED <<buffer, length>>
       ELSE /\ buffer' = Copied(text, CopyLength(text))
            /\ length' = length + CopyLength(text)
            /\ truncated' = Clipped(text)
    /\ UNCHANGED <<pool, pc, status, delivered>>

\* Defect: a truncated document is written all the same.
FinishUnchecked ==
    /\ pc = "build"
    /\ delivered' = {[i \in 1 .. length |-> buffer[i - 1]]}
    /\ pc' = "write"
    /\ UNCHANGED <<pool, status, writer, document>>

\* The document is complete: a truncated one is refused, a whole one goes to
\* WriteJsonToLoadedImageVolume as Buffer and Length.
Finish ==
    /\ pc = "build"
    /\ \/ /\ truncated
          /\ pool' = FALSE
          /\ pc' = "done"
          /\ status' = "EFI_BUFFER_TOO_SMALL"
          /\ UNCHANGED delivered
       \/ /\ ~truncated
          /\ delivered' = {[i \in 1 .. length |-> buffer[i - 1]]}
          /\ pc' = "write"
          /\ UNCHANGED <<pool, status>>
    /\ UNCHANGED <<writer, document>>

\* The volume answers; the buffer is freed and the answer passed on.
Return ==
    /\ pc = "write"
    /\ status' \in {"EFI_SUCCESS", "EFI_DEVICE_ERROR"}
    /\ pool' = FALSE
    /\ pc' = "done"
    /\ UNCHANGED <<writer, document, delivered>>

\* The call has returned.
Done == pc = "done" /\ UNCHANGED vars

Next == \/ Allocate
        \/ \E text \in Texts : JsonAppend(text)
        \/ Finish
        \/ Return
        \/ Done

Spec == Init /\ [][Next]_vars

-----------------------------------------------------------------------------
\* The shape of the state.
TypeOK ==
    /\ buffer \in [Offset -> Char \cup {NUL}]
    /\ length \in 0 .. Capacity
    /\ truncated \in BOOLEAN
    /\ pool \in BOOLEAN
    /\ pc \in {"allocate", "build", "write", "done"}
    /\ status \in {"running", "EFI_SUCCESS", "EFI_DEVICE_ERROR",
                   "EFI_BUFFER_TOO_SMALL", "EFI_OUT_OF_RESOURCES"}
    /\ document \in Seq(Char)

\* The writer never indexes past its buffer, however the pieces fall on its
\* end: there is always room for the terminator, and the terminator is there.
Terminated == length < Capacity /\ buffer[length] = NUL

\* The buffer holds a prefix of the document: once a piece was clipped no
\* later, shorter piece slips in behind the gap.
HoldsPrefix ==
    /\ length <= Len(document)
    /\ \A i \in 0 .. length - 1 : buffer[i] = document[i + 1]

\* Truncated says exactly whether a byte of the document was lost; it is not
\* raised by a document that just fits, nor cleared by a later append.
TruncatedIsExact ==
    /\ truncated <=> Len(document) > Capacity - 1
    /\ truncated \/ length = Len(document)

\* Only a whole document reaches the boot volume.
OnlyWholeDelivered == delivered \subseteq {document}

\* Every return path of WriteFirmwareViewJson frees the buffer, and the
\* buffer is still owned while the volume reads it.
PoolBalanced == pool <=> pc \in {"build", "write"}

\* The writer implements the promise with no buffer in it.
Promise == INSTANCE WholeReport WITH Limit <- Capacity - 1

KeepsPromise == Promise!WSpec
=============================================================================
