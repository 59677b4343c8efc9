------------------------------- MODULE MCTask -------------------------------
(* An instance of Task for TLC: two wakers that may await the task.         *)
EXTENDS Task

CONSTANTS w1, w2
MCJoinWakers == {w1, w2}

=============================================================================
