----------------------------- MODULE MCSimpleFS -----------------------------
(* An instance of SimpleFS for TLC: two names, which are interchangeable.   *)
EXTENDS SimpleFS, TLC

CONSTANTS name1, name2
MCNames == {name1, name2}

(* Three files without crashes; two with two crashes; two that are both    *)
(* open, with one.                                                         *)
MCLimits == {[inodes |-> 4, crashes |-> 0, handles |-> 0],
             [inodes |-> 3, crashes |-> 2, handles |-> 1],
             [inodes |-> 3, crashes |-> 1, handles |-> 2]}
Symm == Permutations(MCNames)

=============================================================================
