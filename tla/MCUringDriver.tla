--------------------------- MODULE MCUringDriver ---------------------------
(* Instances of UringDriver for TLC.                                       *)
EXTENDS UringDriver, TLC

CONSTANTS o1, o2, o3, o4, k1, k2, k3, k4

ThreeOps == {o1, o2, o3}
FourOps == {o1, o2, o3, o4}
ThreeKeys == {k1, k2, k3}
FourKeys == {k1, k2, k3, k4}

(* Operations are interchangeable.                                         *)
Symm4 == Permutations(FourOps)

=============================================================================
