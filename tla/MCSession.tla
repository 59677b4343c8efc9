------------------------------ MODULE MCSession ------------------------------
(* An instance of Session for TLC: two requests at a time, every kind of   *)
(* operation, three users.                                                 *)
EXTENDS Session

CONSTANTS alice, bob
MCUsers == {root, alice, bob}
MCOperations == {"Lookup", "Read", "Forget", "Poll", "Unknown"}
MCMounts ==
  [owner : {alice}, options : {{}, {"AutoUnmount"}, {"AutoUnmount", "AllowRoot"}}]
    \cup [owner : {root}, options : {{"AllowOther"}}]
    \cup [owner : {bob}, options : {{"AllowOther", "AllowRoot"}}]

=============================================================================
