----------------------------- MODULE MCEndToEnd -----------------------------
(* Up to three runs in one work directory, bounded in the configurations.  *)
EXTENDS EndToEnd
=============================================================================
