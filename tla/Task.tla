-------------------------------- MODULE Task --------------------------------
(***************************************************************************)
(* One spawned task of the runtime: the cell of task/core.rs, the atomic   *)
(* state word of task/state.rs, and everything that holds a reference to   *)
(* the cell (task/harness.rs, join.rs, waker.rs, mod.rs):                  *)
(*                                                                         *)
(*   - the executor thread that runs block_on, and its local run queue;    *)
(*   - the JoinHandle, which is Send + Sync and may live on another thread;*)
(*   - clones of the task's Waker, which may be sent to any thread.        *)
(*                                                                         *)
(* One step is one atomic access of the state word, or one access of the   *)
(* unsynchronised cells `stage' and `trailer.waker' between two of them.   *)
(* The state word is modelled as the set `bits' of flags that are 1 and    *)
(* the reference count `refs'.  Only the features declared in Cargo.toml   *)
(* exist: `sync' is never enabled.                                         *)
(***************************************************************************)
EXTENDS Integers

CONSTANTS
  MaxWakers,   \* bound on the Waker clones alive at once (leaked included)
  JoinWakers,  \* the wakers a JoinHandle may be polled with
  NoWaker,     \* trailer.waker = None
  JoinUses     \* the uses of the JoinHandle to consider, see AllJoinUses

(***************************************************************************)
(* "owner": on the thread that runs the task, dropped before the Runtime.  *)
(* "awaited": moved to another thread, polled there before it is dropped.  *)
(* "any": no restriction, which is what `impl Send' and `Sync' allow.      *)
(***************************************************************************)
AllJoinUses == {"owner", "awaited", "any"}

ASSUME TaskAssumption ==
  /\ MaxWakers \in Nat
  /\ NoWaker \notin JoinWakers
  /\ JoinUses \subseteq AllJoinUses

VARIABLES
  joinUse,       \* how the JoinHandle is used in this behaviour
  bits,          \* flags set in the state word
  refs,          \* reference count of the state word
  stage,         \* CoreStage: the future, its output, or nothing
  trailer,       \* Trailer.waker
  memory,        \* the cell's allocation: "live", or "freed" by dealloc
  queue,         \* entries of the run queue that are this task
  exec,          \* where the executor thread is
  join,          \* where the JoinHandle's thread is inside poll or drop
  pollWaker,     \* the waker the current JoinHandle::poll was given
  woken,         \* join wakers invoked since the last JoinHandle::poll
  localWakers,   \* clones used where CURRENT is the owner's context
  remoteWakers,  \* clones used anywhere else
  dyingWakers,   \* clones whose remote wake_by_val has only the decrement left
  leaked         \* references lost when a remote wake_by_val panicked

word == <<bits, refs>>
cell == <<stage, trailer>>
wakers == <<localWakers, remoteWakers, dyingWakers, leaked>>
vars == <<joinUse, bits, refs, stage, trailer, memory, queue, exec, join, pollWaker,
          woken, localWakers, remoteWakers, dyingWakers, leaked>>

Flags == {"RUNNING", "COMPLETE", "NOTIFIED", "JOIN_INTEREST", "JOIN_WAKER"}
InitialBits == {"JOIN_INTEREST", "NOTIFIED"}
InitialRefs == 2

(***************************************************************************)
(* Executor program counter.  "out": not inside block_on; "idle": in       *)
(* block_on but not running this task; "run" .. "release": inside          *)
(* Task::run; "drain": the Runtime, and with it the queue, was dropped.    *)
(***************************************************************************)
Running == {"run", "poll", "pending", "ready", "renotify", "drop_output",
            "wake_join", "release"}
ExecStates == Running \cup {"out", "idle", "drain"}

(* JoinHandle program counter: at rest, inside poll, inside drop.          *)
JoinRest == {"held", "waiting", "taken"}
JoinInPoll == {"unset", "set", "cas", "clear", "take"}
JoinInDrop == {"store", "slow", "output", "release"}
JoinStates == JoinRest \cup JoinInPoll \cup JoinInDrop \cup {"gone"}

(* States in which the owner thread may be executing user code.            *)
UserCode == {"out", "idle", "poll", "drop_output", "drain"}
(* ... and in which CURRENT is the owner's context.                        *)
InContext == {"idle", "poll", "drop_output"}

(* While a JoinHandle on the owner thread is inside poll or drop, that     *)
(* thread does nothing else.                                               *)
OwnerFree == joinUse = "owner" => join \in JoinRest \cup {"gone"}
JoinMayStart == joinUse = "owner" => exec \in UserCode

WakerCount == localWakers + remoteWakers + dyingWakers + leaked

Idle == bits \cap {"RUNNING", "COMPLETE"} = {}

(* Notified, idle, and not in the executor's hands.                        *)
Submitted == "NOTIFIED" \in bits /\ Idle /\ exec \notin {"run", "renotify"}

-----------------------------------------------------------------------------
(* spawn: new_task plus the push onto the run queue.                       *)
Init ==
  /\ joinUse \in JoinUses
  /\ bits = InitialBits
  /\ refs = InitialRefs
  /\ stage = "Running"
  /\ trailer = NoWaker
  /\ memory = "live"
  /\ queue = 1
  /\ exec = "idle"
  /\ join = "held"
  /\ pollWaker = NoWaker
  /\ woken = {}
  /\ localWakers = 0
  /\ remoteWakers = 0
  /\ dyingWakers = 0
  /\ leaked = 0

(* Mutant: dealloc one reference too early.                                *)
drop_reference_early ==
  /\ refs' = refs - 1
  /\ memory' = IF refs = 2 THEN "freed" ELSE memory

(* fetch_sub returning prev = 1 is followed by dealloc; no other holder is *)
(* left to interleave, so the two are one step.                            *)
drop_reference ==
  /\ refs' = refs - 1
  /\ memory' = IF refs = 1 THEN "freed" ELSE memory

-----------------------------------------------------------------------------
(* The executor.                                                           *)

(* TaskQueue::pop followed by Task::run.                                   *)
Pop ==
  /\ OwnerFree
  /\ exec = "idle"
  /\ queue > 0
  /\ queue' = queue - 1
  /\ exec' = "run"
  /\ UNCHANGED <<word, cell, memory, join, pollWaker, woken, wakers>>

transition_to_running ==
  /\ OwnerFree
  /\ exec = "run"
  /\ bits' = (bits \ {"NOTIFIED"}) \cup {"RUNNING"}
  /\ exec' = "poll"
  /\ UNCHANGED <<refs, cell, memory, queue, join, pollWaker, woken, wakers>>

PollPending ==
  /\ OwnerFree
  /\ exec = "poll"
  /\ exec' = "pending"
  /\ UNCHANGED <<word, cell, memory, queue, join, pollWaker, woken, wakers>>

(* The future is dropped and the output stored before the state changes.   *)
PollReady ==
  /\ OwnerFree
  /\ exec = "poll"
  /\ stage' = "Finished"
  /\ exec' = "ready"
  /\ UNCHANGED <<word, trailer, memory, queue, join, pollWaker, woken, wakers>>

(* The future's poll panics: nothing catches it, the Task is dropped while *)
(* unwinding out of block_on and the state word stays RUNNING.             *)
PollPanic ==
  /\ OwnerFree
  /\ exec = "poll"
  /\ drop_reference
  /\ exec' = "out"
  /\ UNCHANGED <<bits, cell, queue, join, pollWaker, woken, wakers>>

(* Mutant: OkNotified is never returned.                                   *)
transition_to_idle_deaf ==
  /\ OwnerFree
  /\ exec = "pending"
  /\ bits' = bits \ {"RUNNING"}
  /\ exec' = "release"
  /\ UNCHANGED <<refs, cell, memory, queue, join, pollWaker, woken, wakers>>

transition_to_idle ==
  /\ OwnerFree
  /\ exec = "pending"
  /\ bits' = bits \ {"RUNNING"}
  /\ exec' = IF "NOTIFIED" \in bits THEN "renotify" ELSE "release"
  /\ UNCHANGED <<refs, cell, memory, queue, join, pollWaker, woken, wakers>>

(* PollFuture::Notified: ref_inc and yield_now, which pushes to the front. *)
Renotify ==
  /\ OwnerFree
  /\ exec = "renotify"
  /\ refs' = refs + 1
  /\ queue' = queue + 1
  /\ exec' = "release"
  /\ UNCHANGED <<bits, cell, memory, join, pollWaker, woken, wakers>>

(* Mutant: the waker is used before COMPLETE is published.                 *)
transition_to_complete_late ==
  /\ OwnerFree
  /\ exec = "ready"
  /\ exec' = IF "JOIN_INTEREST" \notin bits THEN "drop_output"
             ELSE IF "JOIN_WAKER" \in bits THEN "wake_join"
             ELSE "release"
  /\ UNCHANGED <<word, cell, memory, queue, join, pollWaker, woken, wakers>>

(* fetch_xor of RUNNING and COMPLETE; the snapshot decides what follows.   *)
transition_to_complete ==
  /\ OwnerFree
  /\ exec = "ready"
  /\ LET delta == {"RUNNING", "COMPLETE"}
     IN  bits' = (bits \ delta) \cup (delta \ bits)
  /\ exec' = IF "JOIN_INTEREST" \notin bits THEN "drop_output"
             ELSE IF "JOIN_WAKER" \in bits THEN "wake_join"
             ELSE "release"
  /\ UNCHANGED <<refs, cell, memory, queue, join, pollWaker, woken, wakers>>

CompleteDropOutput ==
  /\ OwnerFree
  /\ exec = "drop_output"
  /\ stage' = "Consumed"
  /\ exec' = "release"
  /\ UNCHANGED <<word, trailer, memory, queue, join, pollWaker, woken, wakers>>

wake_join ==
  /\ OwnerFree
  /\ exec = "wake_join"
  /\ woken' = woken \cup {trailer}
  /\ exec' = "release"
  /\ UNCHANGED <<word, cell, memory, queue, join, pollWaker, wakers>>

(* Drop for Task, at the end of Task::run.                                 *)
TaskDrop ==
  /\ OwnerFree
  /\ exec = "release"
  /\ drop_reference
  /\ exec' = "idle"
  /\ UNCHANGED <<bits, cell, queue, join, pollWaker, woken, wakers>>

(* The main future is ready and block_on returns; a later call re-enters.  *)
LeaveOrEnterBlockOn ==
  /\ OwnerFree
  /\ \/ exec = "idle" /\ exec' = "out"
     \/ exec = "out" /\ exec' = "idle"
  /\ UNCHANGED <<word, cell, memory, queue, join, pollWaker, woken, wakers>>

DropRuntime ==
  /\ joinUse = "owner" => join = "gone"
  /\ exec = "out"
  /\ exec' = "drain"
  /\ UNCHANGED <<word, cell, memory, queue, join, pollWaker, woken, wakers>>

(* Drop for TaskQueue: queued tasks are dropped without being run.         *)
DrainQueue ==
  /\ exec = "drain"
  /\ queue > 0
  /\ queue' = queue - 1
  /\ drop_reference
  /\ UNCHANGED <<bits, cell, exec, join, pollWaker, woken, wakers>>

-----------------------------------------------------------------------------
(* Wakers.                                                                 *)

(* Cloning needs a waker to clone: during poll there is the WakerRef.      *)
CloneLocal ==
  /\ OwnerFree
  /\ exec = "poll" \/ (exec \in UserCode /\ localWakers > 0)
  /\ WakerCount < MaxWakers
  /\ localWakers' = localWakers + 1
  /\ refs' = refs + 1
  /\ UNCHANGED <<bits, cell, memory, queue, exec, join, pollWaker, woken,
                 remoteWakers, dyingWakers, leaked>>

CloneRemote ==
  /\ remoteWakers > 0
  /\ WakerCount < MaxWakers
  /\ remoteWakers' = remoteWakers + 1
  /\ refs' = refs + 1
  /\ UNCHANGED <<bits, cell, memory, queue, exec, join, pollWaker, woken,
                 localWakers, dyingWakers, leaked>>

(* A waker is sent to another thread, or used outside block_on; or back.   *)
MoveWaker ==
  /\ \/ /\ localWakers > 0
        /\ localWakers' = localWakers - 1
        /\ remoteWakers' = remoteWakers + 1
     \/ /\ remoteWakers > 0
        /\ remoteWakers' = remoteWakers - 1
        /\ localWakers' = localWakers + 1
  /\ UNCHANGED <<word, cell, memory, queue, exec, join, pollWaker, woken,
                 dyingWakers, leaked>>

DropLocal ==
  /\ OwnerFree
  /\ exec \in UserCode
  /\ localWakers > 0
  /\ localWakers' = localWakers - 1
  /\ drop_reference
  /\ UNCHANGED <<bits, cell, queue, exec, join, pollWaker, woken,
                 remoteWakers, dyingWakers, leaked>>

DropRemote ==
  /\ \/ /\ remoteWakers > 0
        /\ remoteWakers' = remoteWakers - 1
        /\ UNCHANGED dyingWakers
     \/ /\ dyingWakers > 0
        /\ dyingWakers' = dyingWakers - 1
        /\ UNCHANGED remoteWakers
  /\ drop_reference
  /\ UNCHANGED <<bits, cell, queue, exec, join, pollWaker, woken,
                 localWakers, leaked>>

(* Mutant: a task that is already notified is submitted again.             *)
Submit_again == Idle

(* transition_to_notified: whether the caller has to submit the task.      *)
Submit == Idle /\ "NOTIFIED" \notin bits
transition_to_notified ==
  bits' = IF "RUNNING" \in bits \/ Submit THEN bits \cup {"NOTIFIED"} ELSE bits

(* The waker's reference becomes the queue's, or is dropped.               *)
wake_by_val ==
  /\ OwnerFree
  /\ exec \in InContext
  /\ localWakers > 0
  /\ localWakers' = localWakers - 1
  /\ transition_to_notified
  /\ IF Submit THEN queue' = queue + 1 /\ UNCHANGED <<refs, memory>>
               ELSE drop_reference /\ UNCHANGED queue
  /\ UNCHANGED <<cell, exec, join, pollWaker, woken, remoteWakers,
                 dyingWakers, leaked>>

(* The WakerRef of the running poll can be woken by reference too.         *)
wake_by_ref ==
  /\ OwnerFree
  /\ exec = "poll" \/ (exec \in InContext /\ localWakers > 0)
  /\ transition_to_notified
  /\ IF Submit THEN queue' = queue + 1 /\ refs' = refs + 1
               ELSE UNCHANGED <<queue, refs>>
  /\ UNCHANGED <<cell, memory, exec, join, pollWaker, woken, wakers>>

(* transition_to_notified_without_submit: FALSE only when it had to submit.*)
notified_without_submit ==
  bits' = IF "RUNNING" \in bits THEN bits \cup {"NOTIFIED"} ELSE bits

(* On the panic the Harness has no destructor: its reference is lost.      *)
wake_by_val_remote ==
  /\ remoteWakers > 0
  /\ remoteWakers' = remoteWakers - 1
  /\ notified_without_submit
  /\ IF Submit THEN leaked' = leaked + 1 /\ UNCHANGED dyingWakers
               ELSE dyingWakers' = dyingWakers + 1 /\ UNCHANGED leaked
  /\ UNCHANGED <<refs, cell, memory, queue, exec, join, pollWaker, woken,
                 localWakers>>

(* On the panic the caller still owns the waker.                           *)
wake_by_ref_remote ==
  /\ remoteWakers > 0
  /\ notified_without_submit
  /\ UNCHANGED <<refs, cell, memory, queue, exec, join, pollWaker, woken,
                 wakers>>

-----------------------------------------------------------------------------
(* The JoinHandle.                                                         *)

JoinStep(from, to) == join = from /\ join' = to

(* can_read_output up to its first write: the snapshot decides.            *)
JoinPoll(w) ==
  /\ join \in {"held", "waiting"}
  /\ JoinMayStart
  /\ pollWaker' = w
  /\ woken' = {}
  /\ join' = IF "COMPLETE" \in bits THEN "take"
             ELSE IF "JOIN_WAKER" \notin bits THEN "set"
             ELSE IF trailer = w THEN "waiting"
             ELSE "unset"
  /\ UNCHANGED <<word, cell, memory, queue, exec, wakers>>

(* Mutant: JOIN_WAKER is not unset before the waker is replaced.           *)
unset_waker_kept ==
  /\ join = "unset"
  /\ join' = IF "COMPLETE" \in bits THEN "take" ELSE "set"
  /\ UNCHANGED <<word, cell, memory, queue, exec, pollWaker, woken, wakers>>

unset_waker ==
  /\ join = "unset"
  /\ IF "COMPLETE" \in bits
       THEN join' = "take" /\ UNCHANGED bits
       ELSE join' = "set" /\ bits' = bits \ {"JOIN_WAKER"}
  /\ UNCHANGED <<refs, cell, memory, queue, exec, pollWaker, woken, wakers>>

set_waker ==
  /\ JoinStep("set", "cas")
  /\ trailer' = pollWaker
  /\ UNCHANGED <<word, stage, memory, queue, exec, pollWaker, woken, wakers>>

(* Mutant: is_complete is not checked after the waker was stored.          *)
set_join_waker_unchecked ==
  /\ JoinStep("cas", "waiting")
  /\ bits' = bits \cup {"JOIN_WAKER"}
  /\ UNCHANGED <<refs, cell, memory, queue, exec, pollWaker, woken, wakers>>

set_join_waker ==
  /\ join = "cas"
  /\ IF "COMPLETE" \in bits
       THEN join' = "clear" /\ UNCHANGED bits
       ELSE join' = "waiting" /\ bits' = bits \cup {"JOIN_WAKER"}
  /\ UNCHANGED <<refs, cell, memory, queue, exec, pollWaker, woken, wakers>>

clear_waker ==
  /\ JoinStep("clear", "take")
  /\ trailer' = NoWaker
  /\ UNCHANGED <<word, stage, memory, queue, exec, pollWaker, woken, wakers>>

take_output ==
  /\ JoinStep("take", "taken")
  /\ stage' = "Consumed"
  /\ UNCHANGED <<word, trailer, memory, queue, exec, pollWaker, woken, wakers>>

(* Drop for JoinHandle: the load of drop_join_handle_fast.                 *)
JoinDrop ==
  /\ join \in JoinRest
  /\ joinUse = "awaited" => join # "held"
  /\ JoinMayStart
  /\ join' = IF bits = InitialBits /\ refs = InitialRefs THEN "store"
                                                        ELSE "slow"
  /\ UNCHANGED <<word, cell, memory, queue, exec, pollWaker, woken, wakers>>

(* ... and its store, which overwrites the word whatever it is by now.     *)
drop_join_handle_fast ==
  /\ JoinStep("store", "gone")
  /\ bits' = InitialBits \ {"JOIN_INTEREST"}
  /\ refs' = InitialRefs - 1
  /\ UNCHANGED <<cell, memory, queue, exec, pollWaker, woken, wakers>>

unset_join_interested ==
  /\ join = "slow"
  /\ IF "COMPLETE" \in bits
       THEN join' = "output" /\ UNCHANGED bits
       ELSE join' = "release" /\ bits' = bits \ {"JOIN_INTEREST"}
  /\ UNCHANGED <<refs, cell, memory, queue, exec, pollWaker, woken, wakers>>

JoinDropOutput ==
  /\ JoinStep("output", "release")
  /\ stage' = "Consumed"
  /\ UNCHANGED <<word, trailer, memory, queue, exec, pollWaker, woken, wakers>>

JoinRelease ==
  /\ JoinStep("release", "gone")
  /\ drop_reference
  /\ UNCHANGED <<bits, cell, queue, exec, pollWaker, woken, wakers>>

-----------------------------------------------------------------------------
ExecInside ==
  \/ transition_to_running \/ PollPending \/ PollReady
  \/ transition_to_idle \/ Renotify \/ transition_to_complete
  \/ CompleteDropOutput \/ wake_join \/ TaskDrop

ExecNext == Pop \/ ExecInside

RuntimeNext == PollPanic \/ LeaveOrEnterBlockOn \/ DropRuntime \/ DrainQueue

WakerNext ==
  \/ CloneLocal \/ CloneRemote \/ MoveWaker \/ DropLocal \/ DropRemote
  \/ wake_by_val \/ wake_by_ref \/ wake_by_val_remote \/ wake_by_ref_remote

JoinInside ==
  \/ unset_waker \/ set_waker \/ set_join_waker \/ clear_waker \/ take_output
  \/ drop_join_handle_fast \/ unset_join_interested \/ JoinDropOutput
  \/ JoinRelease

JoinNext == JoinInside \/ JoinDrop \/ \E w \in JoinWakers : JoinPoll(w)

Next ==
  /\ ExecNext \/ RuntimeNext \/ WakerNext \/ JoinNext
  /\ UNCHANGED joinUse

Spec == Init /\ [][Next]_vars

(***************************************************************************)
(* A thread that has entered a function keeps executing it: the executor   *)
(* once it is inside Task::run, and a JoinHandle once inside poll or drop. *)
(* Fairness of the executor is strong because the future may itself poll   *)
(* the JoinHandle in its poll, each time for finitely many steps.  Nothing *)
(* is assumed of Pop (when a queued task is popped depends on the other    *)
(* tasks and on the main future) and nothing of user code: wakers need not *)
(* be woken, the future need not finish, the JoinHandle need not be polled *)
(* again.                                                                  *)
(***************************************************************************)
FairSpec ==
  /\ Spec
  /\ SF_vars(ExecInside /\ UNCHANGED joinUse)
  /\ WF_vars(JoinInside /\ UNCHANGED joinUse)

-----------------------------------------------------------------------------
(* Properties.                                                             *)

(* Type correctness of the cell, its holders and their program counters.   *)
TypeOK ==
  /\ joinUse \in JoinUses
  /\ bits \subseteq Flags
  /\ refs \in Nat
  /\ stage \in {"Running", "Finished", "Consumed"}
  /\ trailer \in JoinWakers \cup {NoWaker}
  /\ memory \in {"live", "freed"}
  /\ queue \in Nat
  /\ exec \in ExecStates
  /\ join \in JoinStates
  /\ pollWaker \in JoinWakers \cup {NoWaker}
  /\ woken \subseteq JoinWakers
  /\ localWakers \in Nat
  /\ remoteWakers \in Nat
  /\ dyingWakers \in Nat
  /\ leaked \in Nat

ExecRef == IF exec \in Running THEN 1 ELSE 0
JoinRef == IF join = "gone" THEN 0 ELSE 1

(* The reference count of the state word is exactly the number of holders, *)
(* and the cell is deallocated exactly when there is none: no holder ever  *)
(* touches freed memory and no unleaked reference keeps the cell alive     *)
(* (ref_inc, ref_dec and drop_join_handle_fast agree with their callers).  *)
RefsExact ==
  /\ refs = queue + ExecRef + JoinRef + WakerCount
  /\ memory = "freed" <=> refs = 0

(* A task is in the run queue at most once, only while notified and idle;  *)
(* and an idle task whose NOTIFIED bit is set is in the queue or in the    *)
(* executor's hands (unless the queue itself was dropped), so a wake that  *)
(* finds the bit set and does nothing is not lost.                         *)
QueueMatchesNotified ==
  /\ queue <= 1
  /\ queue = 1 => Submitted
  /\ Submitted => queue = 1 \/ exec = "drain"

(* The debug_assert!s of the transitions the executor makes, the           *)
(* unreachable! of CoreStage::poll and the panic! of wake_join never fire.  *)
ExecutorAsserts ==
  /\ exec = "run" => "NOTIFIED" \in bits /\ Idle
  /\ exec \in {"poll", "pending", "ready"} =>
       "RUNNING" \in bits /\ "COMPLETE" \notin bits
  /\ exec = "poll" => stage = "Running"
  /\ exec = "wake_join" => trailer # NoWaker

(* Nor do the assert!s on the JoinHandle's side, nor its panic! "JoinHandle *)
(* polled after completion", however the task completes under its feet.    *)
JoinAsserts ==
  /\ join \in {"held", "waiting", "unset", "set", "cas", "slow"} =>
       "JOIN_INTEREST" \in bits
  /\ join = "unset" => "JOIN_WAKER" \in bits
  /\ join \in {"set", "cas"} => "JOIN_WAKER" \notin bits
  /\ join = "take" => stage = "Finished"

(* No assertion of the task code fails.                                    *)
AssertsHold == ExecutorAsserts /\ JoinAsserts

(* The unsynchronised cells are never accessed by two threads at once: the *)
(* executor does not read trailer.waker for wake_join while the JoinHandle *)
(* writes it, and only one of them is about to write the stage.  And "if   *)
(* the output remains in the task structure until the task is deallocated, *)
(* it may be dropped by a Waker on any arbitrary thread" (harness.rs): it  *)
(* has always been taken or dropped by then.                               *)
CellsSafe ==
  /\ ~(exec = "wake_join" /\ join \in {"set", "clear"})
  /\ ~( /\ exec \in {"poll", "drop_output"}
        /\ join \in {"take", "output"})
  /\ memory = "freed" => stage # "Finished"

(* The output is produced once and consumed once: the stage only advances. *)
StageAdvances ==
  [][ \/ stage = "Running" /\ stage' = "Finished"
      \/ stage = "Finished" /\ stage' = "Consumed" ]_stage

(* "The waker is stored and is notified once the task does complete"       *)
(* (join.rs): a JoinHandle whose last poll was Pending has the waker of    *)
(* that poll invoked after the task completes, unless it is used again.    *)
JoinWoken ==
  (join = "waiting" /\ "COMPLETE" \in bits)
    ~> (pollWaker \in woken \/ join # "waiting")

(* block_on pops the queue again and again and gets to this task.  Module  *)
(* Executor has when it does (QueuedIsRun) and when it need not: a task    *)
(* that is notified in its own poll goes to the front of the queue, and a  *)
(* main future that wakes itself is polled again before any task.          *)
PoppedWhenQueued == SF_vars(Pop /\ UNCHANGED joinUse)

Left == exec \in {"out", "drain"} \/ "COMPLETE" \in bits

(* A poll of this task panicked: block_on was left with RUNNING set.        *)
Abandoned == "RUNNING" \in bits /\ exec = "idle"

(* No wake-up is lost: a task that is notified, be it while it is being    *)
(* polled, gets into the run queue, unless it completes, its future        *)
(* panics, or block_on is left first; and if the queue is served, it is    *)
(* run again.                                                              *)
NotifiedIsRun ==
  /\ ("NOTIFIED" \in bits) ~> (queue > 0 \/ exec = "run" \/ Left \/ Abandoned)
  /\ PoppedWhenQueued =>
       (("NOTIFIED" \in bits) ~> (exec = "run" \/ Left \/ Abandoned))

=============================================================================
