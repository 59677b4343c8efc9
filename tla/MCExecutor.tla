----------------------------- MODULE MCExecutor -----------------------------
(* An instance of Executor for TLC: three tasks besides the main future.    *)
EXTENDS Executor

CONSTANTS t1, t2, t3
ThreeTasks == {t1, t2, t3}

=============================================================================
