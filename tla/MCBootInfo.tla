----------------------------- MODULE MCBootInfo -----------------------------
(***************************************************************************)
(* BootInfo with maps of up to six descriptors, a slack of three and       *)
(* changes that add at most two descriptors: one change is absorbed, two   *)
(* may not be.                                                             *)
(***************************************************************************)
EXTENDS BootInfo
=============================================================================
