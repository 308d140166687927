-------------------------- MODULE MCReportEngine --------------------------
(***************************************************************************)
(* Small instances of ReportEngine for TLC.                                *)
(***************************************************************************)
EXTENDS ReportEngine, TLC

CONSTANTS r1, r2, repo, main, release

\* Two reports of one repository, on two branches.
OneRepo == [r \in Reports |-> repo]
TwoRefs == (r1 :> main) @@ (r2 :> release)
=============================================================================
