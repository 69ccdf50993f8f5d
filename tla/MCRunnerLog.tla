---------------------------- MODULE MCRunnerLog -----------------------------
(* RunnerLog for TLC: lines of two units, a buffer of two and a half lines *)
(* and a backoff bound small enough to be reached.                         *)
EXTENDS RunnerLog
=============================================================================
