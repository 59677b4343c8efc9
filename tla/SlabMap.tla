------------------------------- MODULE SlabMap -------------------------------
(***************************************************************************)
(* What the slab promises its user (the driver's Ops): a finite map from   *)
(* keys to values whose insert chooses a key that is not in use and whose  *)
(* remove takes out exactly the key it is given.                           *)
(***************************************************************************)
CONSTANTS
  Keys,
  Vals,
  NoVal   \* what a key that is not in use is mapped to

VARIABLE map

Init == map = [k \in Keys |-> NoVal]

Insert(k, v) ==
  /\ map[k] = NoVal
  /\ map' = [map EXCEPT ![k] = v]

Remove(k) ==
  /\ map[k] # NoVal
  /\ map' = [map EXCEPT ![k] = NoVal]

Next == \E k \in Keys : Remove(k) \/ \E v \in Vals : Insert(k, v)

Spec == Init /\ [][Next]_map

=============================================================================
