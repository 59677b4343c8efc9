------------------------------ MODULE MCFuseMT ------------------------------
(* An instance of FuseMT for TLC: two names at the top, one of which may    *)
(* occur one level below as well.                                           *)
EXTENDS FuseMT

CONSTANTS a, b
MCNames == {a, b}
MCPaths == {<<>>, <<a>>, <<b>>, <<a, a>>, <<b, a>>}

(* Inodes that are reused, directories that are listed, files that are     *)
(* open, with none, one or two threads, or some of each when lstat fails.   *)
Limit(n, reuse, keys, handles, threads) ==
  [inodes |-> n, reuse |-> reuse, keys |-> keys, handles |-> handles,
   threads |-> threads, stat_fails |-> FALSE]
MCLimits ==
  {Limit(3, 2, 0, 0, 0), Limit(3, 0, 1, 0, 0), Limit(2, 1, 2, 0, 0)}
    \cup {Limit(2, 0, 0, 2, threads) : threads \in 0 .. 2}
    \cup {[Limit(2, 1, 1, 1, 0) EXCEPT !.stat_fails = TRUE]}

=============================================================================
