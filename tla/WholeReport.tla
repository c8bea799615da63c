---------------------------- MODULE WholeReport ----------------------------
(***************************************************************************)
(* What WriteFirmwareViewJson promises its caller, with no buffer in       *)
(* sight: a document is composed piece by piece, and what reaches the boot *)
(* volume is that document, whole, or nothing at all.                      *)
(***************************************************************************)
EXTENDS Naturals, Sequences

CONSTANTS Texts,       \* the pieces a document is composed of
          Limit        \* the longest document that can be delivered

VARIABLES document,    \* the document composed so far
          delivered,   \* the documents handed to the boot volume: none, or one
          status       \* "running", or the status the call returned

wvars == <<document, delivered, status>>

WInit == document = <<>> /\ delivered = {} /\ status = "running"

\* One more piece joins the document.
Compose(text) == /\ status = "running"
                 /\ delivered = {}
                 /\ document' = document \o text
                 /\ UNCHANGED <<delivered, status>>

\* The finished document is handed over only if it fits.
Deliver == /\ status = "running"
           /\ delivered = {}
           /\ Len(document) <= Limit
           /\ delivered' = {document}
           /\ UNCHANGED <<document, status>>

\* A document that does not fit is refused; nothing has been handed over.
Refuse == /\ status = "running"
          /\ delivered = {}
          /\ Len(document) > Limit
          /\ status' = "EFI_BUFFER_TOO_SMALL"
          /\ UNCHANGED <<document, delivered>>

\* No memory for a buffer: the call ends before the first piece.
NoMemory == /\ status = "running"
            /\ document = <<>>
            /\ delivered = {}
            /\ status' = "EFI_OUT_OF_RESOURCES"
            /\ UNCHANGED <<document, delivered>>

\* The volume's own answer becomes the answer of the call.
Answer == /\ status = "running"
          /\ delivered # {}
          /\ status' \in {"EFI_SUCCESS", "EFI_DEVICE_ERROR"}
          /\ UNCHANGED <<document, delivered>>

WNext == \/ \E text \in Texts : Compose(text)
         \/ Deliver \/ Refuse \/ NoMemory \/ Answer

WSpec == WInit /\ [][WNext]_wvars
=============================================================================
