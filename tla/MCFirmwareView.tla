--------------------------- MODULE MCFirmwareView ---------------------------
(***************************************************************************)
(* FirmwareView started twice, with reports of one or two cells, so that   *)
(* the second start meets what the first one left on the volume, in the    *)
(* directory and in memory.                                                *)
(***************************************************************************)
EXTENDS FirmwareView
=============================================================================
