---------------------------- MODULE MCReportFile ----------------------------
(***************************************************************************)
(* ReportFile over several starts, with reports of one to three cells: a   *)
(* longer report can follow a shorter one and the other way round, and a   *)
(* run can be killed before the next one completes.                        *)
(***************************************************************************)
EXTENDS ReportFile

MCSizes == 1 .. 3
=============================================================================
