----------------------------- MODULE MCOvmfPatch -----------------------------
(***************************************************************************)
(* FDFs of up to four lines; three runs.                                   *)
(***************************************************************************)
EXTENDS OvmfPatch

MCFdfs == BoundedSeq(Lines, 4)
=============================================================================
