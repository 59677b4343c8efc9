------------------------------ MODULE SharedFd ------------------------------
(***************************************************************************)
(* One file descriptor of the runtime: driver/shared_fd.rs, as driver/     *)
(* file.rs and the operations of driver/op use it.  A File owns one        *)
(* SharedFd and every operation on it a clone, so the descriptor is closed *)
(* when the last of them goes, or by File::close.                          *)
(*                                                                         *)
(* read_at and write_at borrow the File: it can be closed or dropped only  *)
(* when none of their futures exists.  A future that is dropped leaves its *)
(* operation, and with it a clone, with the driver until it completes.     *)
(***************************************************************************)
EXTENDS Integers

CONSTANTS
  Ops,           \* operations on the descriptor, each started at most once
  CloseMayFail   \* the values considered of closeMayFail

ASSUME SharedFdAssumption == CloseMayFail \subseteq BOOLEAN

VARIABLES
  file,     \* "open", "closing" (File::close is being awaited), "gone"
  op,       \* op[o]: "new", "alive" (a future), "ignored" (in the slab), "done"
  result,   \* result[o]: whether the kernel has completed it
  state,    \* UringState
  closeOp,  \* the close operation: "none", "submitted", "completed"
  closes,   \* how often close(2) was applied to the descriptor number
  closeMayFail  \* whether Op::close may return Err in this execution

vars == <<file, op, result, state, closeOp, closes, closeMayFail>>

Holders == {o \in Ops : op[o] \in {"alive", "ignored"}}
Borrowed == \E o \in Ops : op[o] = "alive"
InFlight == {o \in Holders : ~result[o]}

Init ==
  /\ file = "open"
  /\ op = [o \in Ops |-> "new"]
  /\ result = [o \in Ops |-> FALSE]
  /\ state = "Init"
  /\ closeOp = "none"
  /\ closes = 0
  /\ closeMayFail \in CloseMayFail

(* Op::close: submits a close, or returns Err and the caller closes the    *)
(* descriptor itself through File::from_raw_fd.                            *)
CloseOk == closeOp' = "submitted" /\ UNCHANGED closes
CloseErr == closeMayFail /\ closes' = closes + 1 /\ UNCHANGED closeOp

(* Mutant: the destructor closes whatever the state is.                    *)
InnerDrop_always(last) ==
  IF last THEN CloseOk \/ CloseErr ELSE UNCHANGED <<closeOp, closes>>

(* Drop for Inner, if this was the last reference.                         *)
InnerDrop(last) ==
  IF last /\ state \in {"Init", "Waiting"}
    THEN CloseOk \/ CloseErr
    ELSE UNCHANGED <<closeOp, closes>>

-----------------------------------------------------------------------------
(* read_at, write_at.                                                      *)
StartOp(o) ==
  /\ file = "open"
  /\ op[o] = "new"
  /\ op' = [op EXCEPT ![o] = "alive"]
  /\ UNCHANGED <<file, result, state, closeOp, closes>>

(* The future is polled after the completion: data and clone are dropped.  *)
OpReady(o) ==
  /\ op[o] = "alive" /\ result[o]
  /\ op' = [op EXCEPT ![o] = "done"]
  /\ UNCHANGED <<file, result, state, closeOp, closes>>

(* The future is dropped, e.g. by a select: Lifecycle::drop_op.            *)
OpDropped(o) ==
  /\ op[o] = "alive"
  /\ op' = [op EXCEPT ![o] = IF result[o] THEN "done" ELSE "ignored"]
  /\ UNCHANGED <<file, result, state, closeOp, closes>>

(* Mutant: the data of an ignored operation is forgotten, not dropped.     *)
OpCompletes_leak(o) ==
  /\ o \in InFlight
  /\ result' = [result EXCEPT ![o] = TRUE]
  /\ op' = [op EXCEPT ![o] = IF @ = "ignored" THEN "done" ELSE @]
  /\ UNCHANGED <<file, state, closeOp, closes>>

(* The completion arrives; an ignored operation is dropped with its clone. *)
OpCompletes(o) ==
  /\ o \in InFlight
  /\ result' = [result EXCEPT ![o] = TRUE]
  /\ IF op[o] = "ignored"
       THEN /\ op' = [op EXCEPT ![o] = "done"]
            /\ InnerDrop(file = "gone" /\ Holders = {o})
       ELSE UNCHANGED <<op, closeOp, closes>>
  /\ UNCHANGED <<file, state>>

(* File dropped without close().                                           *)
DropFile ==
  /\ file = "open" /\ ~Borrowed
  /\ file' = "gone"
  /\ InnerDrop(Holders = {})
  /\ UNCHANGED <<op, result, state>>

(* Mutant of close: it does not check that it is the only holder.          *)
CloseUnique_shared ==
  /\ file = "open" /\ ~Borrowed
  /\ file' = "closing"
  /\ state' = "Closing"
  /\ CloseOk
  /\ UNCHANGED <<op, result>>

(* SharedFd::close up to its first Pending.                                *)
CloseUnique ==
  /\ file = "open" /\ ~Borrowed
  /\ Holders = {}
  /\ file' = "closing"
  /\ state' = "Closing"
  /\ CloseOk
  /\ UNCHANGED <<op, result>>

(* Op::close failed: the descriptor is closed and the function returns,    *)
(* which drops Inner, still in the state Init.                             *)
CloseUniqueErr ==
  /\ file = "open" /\ ~Borrowed
  /\ Holders = {}
  /\ closeMayFail
  /\ file' = "gone"
  /\ \/ closes' = closes + 1 /\ closeOp' = "submitted"
     \/ closes' = closes + 2 /\ UNCHANGED closeOp
  /\ UNCHANGED <<op, result, state>>

CloseShared ==
  /\ file = "open" /\ ~Borrowed
  /\ Holders # {}
  /\ file' = "closing"
  /\ state' = "Waiting"
  /\ UNCHANGED <<op, result, closeOp, closes>>

(* closed() is polled again: only the state Closing makes progress.        *)
PollClosed ==
  /\ file = "closing"
  /\ state = "Closing"
  /\ closeOp = "completed"
  /\ state' = "Closed"
  /\ file' = "gone"
  /\ UNCHANGED <<op, result, closeOp, closes>>

(* The future of close() is dropped.                                       *)
CloseDropped ==
  /\ file = "closing"
  /\ file' = "gone"
  /\ InnerDrop(Holders = {})
  /\ UNCHANGED <<op, result, state>>

(* The kernel (external) executes the close.                               *)
KernelCloses ==
  /\ closeOp = "submitted"
  /\ closeOp' = "completed"
  /\ closes' = closes + 1
  /\ UNCHANGED <<file, op, result, state>>

Step ==
  \/ \E o \in Ops : StartOp(o) \/ OpReady(o) \/ OpDropped(o) \/ OpCompletes(o)
  \/ DropFile \/ CloseUnique \/ CloseUniqueErr \/ CloseShared \/ PollClosed
  \/ CloseDropped \/ KernelCloses

Next == Step /\ UNCHANGED closeMayFail

Spec == Init /\ [][Next]_vars

(* The kernel completes what was submitted to it and the task that awaits  *)
(* close() is polled when the close operation completes.                   *)
FairSpec ==
  /\ Spec
  /\ WF_vars((\E o \in Ops : OpCompletes(o)) /\ UNCHANGED closeMayFail)
  /\ WF_vars(KernelCloses /\ UNCHANGED closeMayFail)
  /\ WF_vars(PollClosed /\ UNCHANGED closeMayFail)

-----------------------------------------------------------------------------
(* Type correctness of the descriptor and its operations.                  *)
TypeOK ==
  /\ file \in {"open", "closing", "gone"}
  /\ op \in [Ops -> {"new", "alive", "ignored", "done"}]
  /\ result \in [Ops -> BOOLEAN]
  /\ state \in {"Init", "Waiting", "Closing", "Closed"}
  /\ closeOp \in {"none", "submitted", "completed"}
  /\ closes \in Nat
  /\ closeMayFail \in BOOLEAN

(* "An FD cannot be closed until all in-flight operation have completed":  *)
(* no operation is in flight once a close was submitted or done.           *)
CloseAfterOps == closeOp # "none" \/ closes > 0 => InFlight = {}

(* The descriptor number is closed at most once: a second close(2) would   *)
(* hit whatever file the number was reused for in the meantime.  This      *)
(* needs that Op::close succeeds: where it fails, SharedFd::close closes   *)
(* the descriptor and its destructor closes it again.                      *)
ClosedOnce ==
  ~closeMayFail => closes + (IF closeOp = "submitted" THEN 1 ELSE 0) <= 1

(* No descriptor leaks: once the File is gone it is closed in the end,     *)
(* whichever operations still held a clone.                                *)
ClosedEventually == file = "gone" ~> closes > 0

(* "Waiting for all in-flight operation to complete", "completes when the  *)
(* FD has been closed" (shared_fd.rs): a close() that found operations in  *)
(* flight returns too, after they have completed.                          *)
CloseReturns == file = "closing" ~> file = "gone"

=============================================================================
