---------------------------- MODULE MCJobScheduler ----------------------------
(***************************************************************************)
(* JobScheduler for TLC: the jobs that are asynchronous, per run.          *)
(***************************************************************************)
EXTENDS JobScheduler

NoAsync    == {}
FirstAsync == {1}

=============================================================================
