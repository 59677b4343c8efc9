------------------------------ MODULE MCUringFs ------------------------------
(* An instance of UringFs for TLC: four files, one of them with a longer    *)
(* entry, and a name that is not UTF-8.  The buffers hold one entry, a few, *)
(* or the whole directory.                                                  *)
EXTENDS UringFs

CONSTANTS a, b, c, d, bad
MCNames == {a, b, c, d, bad}
MCNotUtf8 == {bad}
MCEntrySize == [n \in MCNames \cup {"."} |-> IF n = b THEN 2 ELSE 1]
=============================================================================
