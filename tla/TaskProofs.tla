----------------------------- MODULE TaskProofs -----------------------------
(***************************************************************************)
(* Proofs about Task for every number of wakers, as long as the JoinHandle *)
(* is not dropped unpolled on a thread other than the owner's.             *)
(***************************************************************************)
EXTENDS Task, TLAPS

(* How the lifecycle bits follow the executor.                             *)
ExecInv ==
  /\ ~("RUNNING" \in bits /\ "COMPLETE" \in bits)
  /\ exec \in {"run", "renotify"} => "NOTIFIED" \in bits /\ Idle
  /\ exec \in {"poll", "pending", "ready"} => "RUNNING" \in bits
  /\ exec \in {"drop_output", "wake_join"} => "COMPLETE" \in bits
  /\ exec = "drop_output" => "JOIN_INTEREST" \notin bits
  /\ exec = "wake_join" => "JOIN_WAKER" \in bits

(* How the JOIN bits and trailer.waker follow the JoinHandle.              *)
JoinInv ==
  /\ "JOIN_INTEREST" \notin bits => join \in {"release", "gone"}
  /\ join \in {"release", "gone"} /\ "JOIN_INTEREST" \in bits =>
       "COMPLETE" \in bits
  /\ join \in {"waiting", "unset"} => "JOIN_WAKER" \in bits
  /\ join \in {"held", "set", "cas", "clear"} => "JOIN_WAKER" \notin bits
  /\ join \in {"clear", "take", "taken", "output"} => "COMPLETE" \in bits
  /\ join \in JoinInPoll => pollWaker \in JoinWakers
  /\ join = "cas" => trailer = pollWaker
  /\ "JOIN_WAKER" \in bits => trailer \in JoinWakers

(* Who owns the output at each moment.                                     *)
StageInv ==
  /\ exec = "ready" => stage = "Finished"
  /\ exec # "ready" /\ "COMPLETE" \notin bits => stage = "Running"
  /\ exec = "drop_output" => stage = "Finished"
  /\ "COMPLETE" \in bits => stage # "Running"
  /\ "COMPLETE" \in bits /\ join \in (JoinRest \cup JoinInPoll) \ {"taken"} =>
       stage = "Finished"
  /\ stage = "Finished" =>
       \/ exec \in {"ready", "drop_output"}
       \/ join \in (JoinRest \cup JoinInPoll \cup {"slow", "output"}) \ {"taken"}

(* The fast drop only runs where nothing else can touch the state word.    *)
FastDropInv ==
  /\ joinUse = "owner" /\ exec = "drain" => join = "gone"
  /\ join = "store" =>
       /\ joinUse = "owner"
       /\ bits = InitialBits
       /\ refs = InitialRefs
       /\ queue = 1
       /\ exec \in {"out", "idle"}

IInv ==
  /\ TypeOK
  /\ RefsExact
  /\ QueueMatchesNotified
  /\ ExecInv
  /\ JoinInv
  /\ StageInv
  /\ FastDropInv

(* A freshly spawned task (new_task and the push onto the run queue)       *)
(* satisfies the inductive invariant.                                      *)
LEMMA InitIInv == Init => IInv
BY TaskAssumption DEF Init, IInv, TypeOK, Flags, InitialBits, InitialRefs,
   ExecStates, Running, JoinStates, JoinRest, JoinInPoll, JoinInDrop,
   RefsExact, ExecRef, JoinRef, WakerCount, QueueMatchesNotified, Submitted,
   Idle, ExecInv, JoinInv, StageInv, FastDropInv

(* Every step of the executor, of a waker on any thread and of the         *)
(* JoinHandle preserves the inductive invariant.                           *)
LEMMA StepIInv ==
  ASSUME "any" \notin JoinUses, IInv, [Next]_vars
  PROVE  IInv'
<1>a. joinUse' = joinUse
  BY DEF Next, vars
<1>b. joinUse = "owner" \/ joinUse = "awaited"
  BY TaskAssumption DEF IInv, TypeOK, AllJoinUses
<1> USE TaskAssumption, <1>a, <1>b DEF IInv, TypeOK, Flags, InitialBits, InitialRefs,
      ExecStates, Running, JoinStates, JoinRest, JoinInPoll, JoinInDrop,
      RefsExact, ExecRef, JoinRef, WakerCount, QueueMatchesNotified,
      Submitted, Idle, ExecInv, JoinInv, StageInv, FastDropInv,
      OwnerFree, JoinMayStart, UserCode, InContext, word, cell, wakers,
      drop_reference, JoinStep, Submit
<1>1. CASE Pop
  BY <1>1 DEF Pop
<1>2. CASE transition_to_running
  BY <1>2 DEF transition_to_running
<1>3. CASE PollPending
  BY <1>3 DEF PollPending
<1>4. CASE PollReady
  BY <1>4 DEF PollReady
<1>5. CASE transition_to_idle
  BY <1>5 DEF transition_to_idle
<1>6. CASE Renotify
  BY <1>6 DEF Renotify
<1>7. CASE transition_to_complete
  BY <1>7 DEF transition_to_complete
<1>8. CASE CompleteDropOutput
  BY <1>8 DEF CompleteDropOutput
<1>9. CASE wake_join
  BY <1>9 DEF wake_join
<1>10. CASE TaskDrop
  BY <1>10 DEF TaskDrop
<1>11. CASE PollPanic
  BY <1>11 DEF PollPanic
<1>12. CASE LeaveOrEnterBlockOn
  BY <1>12 DEF LeaveOrEnterBlockOn
<1>13. CASE DropRuntime
  BY <1>13 DEF DropRuntime
<1>14. CASE DrainQueue
  BY <1>14 DEF DrainQueue
<1>15. CASE CloneLocal
  BY <1>15 DEF CloneLocal
<1>16. CASE CloneRemote
  BY <1>16 DEF CloneRemote
<1>17. CASE MoveWaker
  BY <1>17 DEF MoveWaker
<1>18. CASE DropLocal
  BY <1>18 DEF DropLocal
<1>19. CASE DropRemote
  <2> USE <1>19 DEF DropRemote
  <2>1. TypeOK'
    OBVIOUS
  <2>2. RefsExact'
    OBVIOUS
  <2>3. QueueMatchesNotified'
    OBVIOUS
  <2>4. ExecInv'
    OBVIOUS
  <2>5. JoinInv'
    OBVIOUS
  <2>6. StageInv'
    OBVIOUS
  <2>7. FastDropInv'
    OBVIOUS
  <2> QED
    BY <2>1, <2>2, <2>3, <2>4, <2>5, <2>6, <2>7
<1>20. CASE wake_by_val
  <2> USE <1>20 DEF wake_by_val, transition_to_notified
  <2>1. TypeOK'
    OBVIOUS
  <2>2. RefsExact'
    OBVIOUS
  <2>3. QueueMatchesNotified'
    OBVIOUS
  <2>4. ExecInv'
    OBVIOUS
  <2>5. JoinInv'
    OBVIOUS
  <2>6. StageInv'
    OBVIOUS
  <2>7. FastDropInv'
    OBVIOUS
  <2> QED
    BY <2>1, <2>2, <2>3, <2>4, <2>5, <2>6, <2>7
<1>21. CASE wake_by_ref
  BY <1>21 DEF wake_by_ref, transition_to_notified
<1>22. CASE wake_by_val_remote
  BY <1>22 DEF wake_by_val_remote, notified_without_submit
<1>23. CASE wake_by_ref_remote
  BY <1>23 DEF wake_by_ref_remote, notified_without_submit
<1>24. CASE unset_waker
  BY <1>24 DEF unset_waker
<1>25. CASE set_waker
  BY <1>25 DEF set_waker
<1>26. CASE set_join_waker
  <2> USE <1>26 DEF set_join_waker
  <2>1. TypeOK'
    OBVIOUS
  <2>2. RefsExact'
    OBVIOUS
  <2>3. QueueMatchesNotified'
    OBVIOUS
  <2>4. ExecInv'
    OBVIOUS
  <2>5. JoinInv'
    OBVIOUS
  <2>6. StageInv'
    OBVIOUS
  <2>7. FastDropInv'
    OBVIOUS
  <2> QED
    BY <2>1, <2>2, <2>3, <2>4, <2>5, <2>6, <2>7
<1>27. CASE clear_waker
  BY <1>27 DEF clear_waker
<1>28. CASE take_output
  BY <1>28 DEF take_output
<1>29. CASE drop_join_handle_fast
  BY <1>29 DEF drop_join_handle_fast
<1>30. CASE unset_join_interested
  <2> USE <1>30 DEF unset_join_interested
  <2>1. TypeOK'
    OBVIOUS
  <2>2. RefsExact'
    OBVIOUS
  <2>3. QueueMatchesNotified'
    OBVIOUS
  <2>4. ExecInv'
    OBVIOUS
  <2>5. JoinInv'
    OBVIOUS
  <2>6. StageInv'
    OBVIOUS
  <2>7. FastDropInv'
    OBVIOUS
  <2> QED
    BY <2>1, <2>2, <2>3, <2>4, <2>5, <2>6, <2>7
<1>31. CASE JoinDropOutput
  BY <1>31 DEF JoinDropOutput
<1>32. CASE JoinRelease
  BY <1>32 DEF JoinRelease
<1>33. CASE JoinDrop
  BY <1>33 DEF JoinDrop
<1>34. CASE \E w \in JoinWakers : JoinPoll(w)
  BY <1>34 DEF JoinPoll
<1>35. CASE UNCHANGED vars
  BY <1>35 DEF vars
<1> QED
  BY <1>1, <1>2, <1>3, <1>4, <1>5, <1>6, <1>7, <1>8, <1>9, <1>10, <1>11, <1>12, <1>13, <1>14, <1>15, <1>16, <1>17, <1>18, <1>19, <1>20, <1>21, <1>22, <1>23, <1>24, <1>25, <1>26, <1>27, <1>28, <1>29, <1>30, <1>31, <1>32, <1>33, <1>34, <1>35 DEF Next,
     ExecNext, ExecInside, RuntimeNext, WakerNext, JoinNext, JoinInside

(* The inductive invariant implies that no assertion of the task code      *)
(* fails, that the cells are not raced for, and that the output is gone    *)
(* before the cell is deallocated.                                         *)
LEMMA IInvImplies ==
  ASSUME IInv
  PROVE  /\ ExecutorAsserts
         /\ JoinAsserts
         /\ CellsSafe
<1> USE TaskAssumption DEF IInv, TypeOK, JoinRest, JoinInPoll, JoinInDrop,
      ExecInv, JoinInv, StageInv, FastDropInv, Idle, InitialBits
<1>1. ExecutorAsserts
  BY DEF ExecutorAsserts
<1>2. JoinAsserts
  BY DEF JoinAsserts
<1>3. CellsSafe
  BY DEF CellsSafe, RefsExact, ExecRef, JoinRef, WakerCount, Running
<1> QED
  BY <1>1, <1>2, <1>3

(* The inductive invariant holds in every reachable state, for any number  *)
(* of wakers and any set of join wakers, unless another thread drops a     *)
(* JoinHandle that it has not polled (use "any").                          *)
THEOREM Inductive ==
  ASSUME "any" \notin JoinUses
  PROVE  Spec => []IInv
<1>1. IInv /\ [Next]_vars => IInv'
  BY StepIInv
<1> QED
  BY InitIInv, <1>1, PTL DEF Spec

(* Type correctness of the task cell and of its holders.                   *)
THEOREM TypeCorrect ==
  ASSUME "any" \notin JoinUses
  PROVE  Spec => []TypeOK
<1>1. IInv => TypeOK
  BY DEF IInv
<1> QED
  BY Inductive, <1>1, PTL

(* The reference count is exact: the cell is freed when, and only when, no *)
(* queue entry, executor, JoinHandle or Waker refers to it any more.       *)
THEOREM ReferenceCounting ==
  ASSUME "any" \notin JoinUses
  PROVE  Spec => []RefsExact
<1>1. IInv => RefsExact
  BY DEF IInv
<1> QED
  BY Inductive, <1>1, PTL

(* A notified idle task is in the run queue exactly once: neither lost nor *)
(* queued twice, whatever the order of wakes, polls and drops.             *)
THEOREM NoLostNotification ==
  ASSUME "any" \notin JoinUses
  PROVE  Spec => []QueueMatchesNotified
<1>1. IInv => QueueMatchesNotified
  BY DEF IInv
<1> QED
  BY Inductive, <1>1, PTL

(* No assertion of the task code fails, as long as a JoinHandle on another *)
(* thread is polled there before it is dropped.  Without this assumption   *)
(* the load and the store of drop_join_handle_fast can bracket a           *)
(* transition of the executor, and an assertion does fail.                 *)
THEOREM TaskSafety ==
  ASSUME "any" \notin JoinUses
  PROVE  Spec => []AssertsHold
<1>1. IInv => AssertsHold
  BY IInvImplies DEF AssertsHold
<1> QED
  BY Inductive, <1>1, PTL

(* No cell is accessed by two threads at once, and no output is left for   *)
(* an arbitrary Waker to drop.                                             *)
THEOREM CellSafety ==
  ASSUME "any" \notin JoinUses
  PROVE  Spec => []CellsSafe
<1>1. IInv => CellsSafe
  BY IInvImplies
<1> QED
  BY Inductive, <1>1, PTL

(* The stage goes from the future to its output to nothing, once.          *)
THEOREM OutputOnce ==
  ASSUME "any" \notin JoinUses
  PROVE  Spec => StageAdvances
<1> DEFINE Advance ==
      \/ stage = "Running" /\ stage' = "Finished"
      \/ stage = "Finished" /\ stage' = "Consumed"
<1>1. IInv /\ [Next]_vars => [Advance]_stage
  <2> SUFFICES ASSUME IInv, [Next]_vars, stage' # stage
               PROVE  Advance
    OBVIOUS
  <2>1. CASE PollReady
    BY <2>1 DEF PollReady, IInv, StageInv, ExecInv
  <2>2. CASE CompleteDropOutput
    BY <2>2 DEF CompleteDropOutput, IInv, StageInv
  <2>3. CASE take_output
    BY <2>3 DEF take_output, JoinStep, IInv, StageInv, JoinInv, JoinInPoll,
         JoinRest
  <2>4. CASE JoinDropOutput
    BY <2>4 DEF JoinDropOutput, JoinStep, IInv, TypeOK, StageInv, JoinInv
  <2>5. \/ PollReady \/ CompleteDropOutput \/ take_output \/ JoinDropOutput
    BY DEF Next, ExecNext, ExecInside, RuntimeNext, WakerNext, JoinNext, JoinInside, vars,
         word, cell, Pop, transition_to_running, PollPending, PollPanic,
         transition_to_idle, Renotify, transition_to_complete, wake_join,
         TaskDrop, LeaveOrEnterBlockOn, DropRuntime, DrainQueue, CloneLocal,
         CloneRemote, MoveWaker, DropLocal, DropRemote, wake_by_val,
         wake_by_ref, wake_by_val_remote, wake_by_ref_remote, unset_waker,
         set_waker, set_join_waker, clear_waker, drop_join_handle_fast,
         unset_join_interested, JoinRelease, JoinDrop, JoinPoll
  <2> QED
    BY <2>1, <2>2, <2>3, <2>4, <2>5
<1> QED
  BY Inductive, <1>1, PTL DEF Spec, StageAdvances

=============================================================================
