------------------------------ MODULE Executor ------------------------------
(***************************************************************************)
(* Runtime::block_on of runtime.rs: the scheduling loop of one thread, with *)
(* the run queue of scheduler.rs, the SHOULD_POLL flag behind the dummy     *)
(* waker of the main future (task/waker.rs), and the driver's submit and    *)
(* park, reduced to which waiting futures they wake.  A task is reduced to  *)
(* what module Task shows of it: it is in the queue at most once, a wake    *)
(* while it runs sets NOTIFIED, a wake once complete does nothing.          *)
(***************************************************************************)
EXTENDS Naturals, Sequences, SequencesExt

CONSTANTS
  Tasks,       \* the tasks that may be spawned
  Main,        \* the future given to block_on
  NoTask       \* no task is being run

ASSUME ExecutorAssumption ==
  /\ Main \notin Tasks
  /\ NoTask \notin Tasks \cup {Main}

VARIABLES
  pc,           \* where block_on is
  queue,        \* TaskQueue: a VecDeque, popped at the front
  max_round,    \* tasks that may still be run in this round
  should_poll,  \* SHOULD_POLL
  running,      \* the task inside Task::run
  notified,     \* the running task's NOTIFIED bit
  spawned,      \* tasks spawned so far
  complete,     \* tasks whose future has returned Ready or panicked
  inflight,     \* futures with an operation in the kernel
  posted        \* futures whose completion the driver has not processed

executorVars == <<pc, queue, max_round, should_poll, running, notified, spawned,
                  complete, inflight, posted>>

Futures == Tasks \cup {Main}
Queued == ToSet(queue)

(* The future whose poll is on the stack, if any.                          *)
Current == IF pc = "run" THEN running
           ELSE IF pc = "poll_main" THEN Main ELSE NoTask

-----------------------------------------------------------------------------
ExecutorInit ==
  /\ pc = "round"
  /\ queue = <<>>
  /\ max_round = 0
  /\ should_poll = TRUE
  /\ running = NoTask
  /\ notified = FALSE
  /\ spawned = {}
  /\ complete = {}
  /\ inflight = {}
  /\ posted = {}

(* A new round: twice the length of the queue, so that tasks which wake    *)
(* themselves cannot keep the driver from being called.                    *)
BeginRound ==
  /\ pc = "round"
  /\ max_round' = Len(queue) * 2
  /\ pc' = "pop"
  /\ UNCHANGED <<queue, should_poll, running, notified, spawned, complete,
                 inflight, posted>>

(* Mutant: the queue is popped where tasks are pushed.                     *)
PopTask_last ==
  /\ pc = "pop"
  /\ queue # <<>>
  /\ running' = Last(queue)
  /\ queue' = Front(queue)
  /\ notified' = FALSE
  /\ pc' = "run"
  /\ UNCHANGED <<max_round, should_poll, spawned, complete, inflight, posted>>

PopTask ==
  /\ pc = "pop"
  /\ queue # <<>>
  /\ running' = Head(queue)
  /\ queue' = Tail(queue)
  /\ notified' = FALSE
  /\ pc' = "run"
  /\ UNCHANGED <<max_round, should_poll, spawned, complete, inflight, posted>>

PopNone ==
  /\ pc = "pop"
  /\ queue = <<>>
  /\ pc' = "main"
  /\ UNCHANGED <<queue, max_round, should_poll, running, notified, spawned,
                 complete, inflight, posted>>

(* Mutant: max_round is never decremented.                                 *)
EndRun_endless ==
  /\ running' = NoTask
  /\ notified' = FALSE
  /\ pc' = "pop"
  /\ UNCHANGED max_round

(* After t.run(): the round ends, or one more task may be run.             *)
EndRun ==
  /\ running' = NoTask
  /\ notified' = FALSE
  /\ IF max_round = 0
       THEN pc' = "main" /\ UNCHANGED max_round
       ELSE pc' = "pop" /\ max_round' = max_round - 1

(* A task notified during its poll goes back to the FRONT of the queue.    *)
RunPending ==
  /\ pc = "run"
  /\ queue' = IF notified THEN <<running>> \o queue ELSE queue
  /\ EndRun
  /\ UNCHANGED <<should_poll, spawned, complete, inflight, posted>>

RunReady ==
  /\ pc = "run"
  /\ complete' = complete \cup {running}
  /\ EndRun
  /\ UNCHANGED <<queue, should_poll, spawned, inflight, posted>>

(* The future panics: block_on unwinds, and the task, left RUNNING, is     *)
(* never queued again.                                                     *)
RunPanic ==
  /\ pc = "run"
  /\ complete' = complete \cup {running}
  /\ running' = NoTask
  /\ notified' = FALSE
  /\ pc' = "out"
  /\ UNCHANGED <<queue, max_round, should_poll, spawned, inflight, posted>>

(* while should_poll(): the flag is read and reset, then main is polled.   *)
CheckMain ==
  /\ pc = "main"
  /\ should_poll
  /\ should_poll' = FALSE
  /\ pc' = "poll_main"
  /\ UNCHANGED <<queue, max_round, running, notified, spawned, complete,
                 inflight, posted>>

MainPending ==
  /\ pc = "poll_main"
  /\ pc' = "main"
  /\ UNCHANGED <<queue, max_round, should_poll, running, notified, spawned,
                 complete, inflight, posted>>

(* ... or the main future panics: either way block_on is left.             *)
MainReady ==
  /\ pc = "poll_main"
  /\ pc' = "out"
  /\ UNCHANGED <<queue, max_round, should_poll, running, notified, spawned,
                 complete, inflight, posted>>

(* A later block_on: set_poll, and whatever is left in the queue.          *)
BlockOn ==
  /\ pc = "out"
  /\ should_poll' = TRUE
  /\ pc' = "round"
  /\ UNCHANGED <<queue, max_round, running, notified, spawned, complete,
                 inflight, posted>>

ChoosePath ==
  /\ pc = "main"
  /\ ~should_poll
  /\ pc' = IF queue = <<>> THEN "park" ELSE "submit"
  /\ UNCHANGED <<queue, max_round, should_poll, running, notified, spawned,
                 complete, inflight, posted>>

-----------------------------------------------------------------------------
(* Waking: push_back of an idle task, NOTIFIED of the running one, set_poll *)
(* of the main future; nothing for a queued or a complete task.             *)
Woken(ws) == {t \in ws \cap Tasks : t \notin Queued \cup complete \cup {running}}

WakeAll(order, ws) ==
  /\ queue' = queue \o order
  /\ should_poll' = (should_poll \/ Main \in ws)
  /\ notified' = (notified \/ (running \in ws))

(* The driver's tick wakes the futures whose completions are posted, in    *)
(* the order of the completion queue.                                      *)
Tick ==
  /\ \E order \in SetToSeqs(Woken(posted)) : WakeAll(order, posted)
  /\ posted' = {}
  /\ pc' = "round"

(* driver.submit(), the cold path: submit, then tick.                      *)
DriverSubmit ==
  /\ pc = "submit"
  /\ Tick
  /\ UNCHANGED <<max_round, running, spawned, complete, inflight>>

(* Its error is ignored, and then nothing is processed.                    *)
SubmitFails ==
  /\ pc = "submit"
  /\ pc' = "round"
  /\ UNCHANGED <<queue, max_round, should_poll, running, notified, spawned,
                 complete, inflight, posted>>

(* driver.park(): blocks until a completion is posted.                     *)
DriverPark ==
  /\ pc = "park"
  /\ posted # {}
  /\ Tick
  /\ UNCHANGED <<max_round, running, spawned, complete, inflight>>

(* submit_and_wait returns an error, which block_on ignores: park has      *)
(* returned before it processed completions.                               *)
ParkFails ==
  /\ pc = "park"
  /\ pc' = "round"
  /\ UNCHANGED <<queue, max_round, should_poll, running, notified, spawned,
                 complete, inflight, posted>>

(* Operations finish in any order, at any time.                            *)
KernelComplete(f) ==
  /\ f \in inflight
  /\ inflight' = inflight \ {f}
  /\ posted' = posted \cup {f}
  /\ UNCHANGED <<pc, queue, max_round, should_poll, running, notified,
                 spawned, complete>>

-----------------------------------------------------------------------------
(* What a future does while it is polled.                                  *)

spawn(t) ==
  /\ Current # NoTask
  /\ t \notin spawned
  /\ spawned' = spawned \cup {t}
  /\ queue' = Append(queue, t)
  /\ UNCHANGED <<pc, max_round, should_poll, running, notified, complete,
                 inflight, posted>>

Wake(f) ==
  /\ Current # NoTask
  /\ f \in spawned \cup {Main}
  /\ WakeAll(SetToSeq(Woken({f})), {f})
  /\ UNCHANGED <<pc, max_round, running, spawned, complete, inflight, posted>>

StartIO ==
  /\ Current # NoTask
  /\ Current \notin inflight \cup posted
  /\ inflight' = inflight \cup {Current}
  /\ UNCHANGED <<pc, queue, max_round, should_poll, running, notified,
                 spawned, complete, posted>>

-----------------------------------------------------------------------------
Loop ==
  \/ BeginRound \/ PopTask \/ PopNone \/ RunPending \/ RunReady \/ RunPanic
  \/ CheckMain \/ MainPending \/ MainReady \/ BlockOn \/ ChoosePath
  \/ DriverSubmit \/ SubmitFails \/ DriverPark \/ ParkFails

UserCode == StartIO \/ (\E t \in Tasks : spawn(t)) \/ (\E f \in Futures : Wake(f))

ExecutorNext == Loop \/ UserCode \/ \E f \in Futures : KernelComplete(f)

ExecutorSpec == ExecutorInit /\ [][ExecutorNext]_executorVars

(***************************************************************************)
(* The thread keeps executing block_on: the loop itself is deterministic   *)
(* code, and a poll returns after finitely many calls of user code (which  *)
(* is what Future::poll asks).  submit and park fail only for a while:     *)
(* submit processes completions and tries again when the kernel is busy.   *)
(* park does not, and with EBUSY can fail for ever; module UringDriver has *)
(* this case (its environment "busy").  The kernel completes what it was   *)
(* given.                                                                  *)
(***************************************************************************)
FairExecutorSpec ==
  /\ ExecutorSpec
  /\ WF_executorVars(Loop /\ pc # "out")
  /\ SF_executorVars(DriverSubmit)
  /\ SF_executorVars(DriverPark)
  /\ \A f \in Futures : WF_executorVars(KernelComplete(f))

-----------------------------------------------------------------------------
(* The main future has woken itself in its poll: `while should_poll()'     *)
(* polls it again before anything else.                                    *)
MainAgain == pc = "poll_main" /\ should_poll

(* A wake of the main future, by a task or by a completion, is not lost:   *)
(* it is polled again, however many tasks are spawned and however often    *)
(* they wake themselves (max_round, and the order of should_poll(), poll   *)
(* and is_empty before park).                                              *)
MainIsPolled == should_poll ~> (pc \in {"poll_main", "out"})

(* A completion that the kernel posts wakes its future, be it that block_on *)
(* is parked or is kept busy by tasks that wake themselves for ever; only  *)
(* a main future that wakes itself in each of its polls keeps block_on     *)
(* from the driver.                                                        *)
CompletionWakes ==
  <>[]~MainAgain =>
    \A f \in Futures : (f \in posted) ~> (f \notin posted \/ pc = "out")

(* A queued task is run in the end, however many tasks are spawned and     *)
(* woken, unless wakes from inside a poll never cease: yield_now puts a    *)
(* task that was notified in its own poll in front of the queue, and the   *)
(* main future is polled again at once.                                    *)
QueuedIsRun ==
  <>[](~notified /\ ~MainAgain) =>
    \A t \in Tasks : (t \in Queued) ~> (running = t \/ pc = "out")

=============================================================================
