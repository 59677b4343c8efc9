---------------------------- MODULE UringDriver ----------------------------
(***************************************************************************)
(* The io_uring driver: runtime/src/driver/uring/{mod,lifecycle}.rs and    *)
(* driver/op/mod.rs.  One thread runs user code and the driver; the kernel *)
(* (external) consumes submission queue entries and posts completions.     *)
(*                                                                         *)
(* The slab of lifecycles is used through its abstract interface, SlabMap: *)
(* insert picks a free key.  Driver functions that call each other, or   *)
(* re-enter the driver from a destructor, are frames of `stack'.           *)
(***************************************************************************)
EXTENDS Integers, Sequences, SequencesExt

CONSTANTS
  Ops,          \* operations, each started at most once
  Keys,         \* slab keys; without a free one insert panics
  SQSize,       \* submission queue entries
  CQSize,       \* completion queue entries
  Environments, \* the environments considered
  NoKey,        \* usize::MAX, the index of an Op that is finished
  NoOp          \* a driver frame that serves no operation

ASSUME DriverAssumption ==
  /\ SQSize \in Nat \ {0}
  /\ CQSize \in Nat \ {0}
  /\ Environments \subseteq {"plain", "busy", "close", "busy+close"}
  /\ NoKey \notin Keys
  /\ NoOp \notin Ops

VARIABLES
  handle,    \* handle[o]: what became of the Op future
  index,     \* index[o]: the Op's slab key
  data,      \* data[o]: who owns the buffers the kernel was pointed at
  slab,      \* slab[k]: lifecycle, and the operation it was inserted for
  sq,        \* entries pushed, not yet consumed by the kernel
  kernel,    \* entries being executed
  overflow,  \* executed, but the CQ was full
  posted,    \* every completion posted to the CQ so far
  cqHead,    \* how many of them the CQ head has been moved past
  stack,     \* active driver functions, innermost last
  woken,     \* operations whose waker was invoked
  inner,     \* "live", "orphan" (IoUringDriver dropped), "dropped"
  env        \* the environment of this execution

vars == <<handle, index, data, slab, sq, kernel, overflow, posted, cqHead,
          stack, woken, inner, env>>
ring == <<sq, kernel, overflow, posted, cqHead>>

Vacant == [life |-> "Vacant"]
Entry(life, o) == [life |-> life, op |-> o]

Frame(f, o, head, tail) == [fn |-> f, op |-> o, head |-> head, tail |-> tail]
Top == Last(stack)
In(f) == stack # << >> /\ Top.fn = f
Pop == Front(stack)
UserCode == stack = << >>

(* Whether io_uring_enter reports EBUSY while completions are backlogged,  *)
(* and whether an ignored operation may hold the last clone of a SharedFd. *)
KernelBusy == env \in {"busy", "busy+close"}
CloseOnDrop == env \in {"close", "busy+close"}

Unread == Len(posted) - cqHead
IsFull == Len(sq) >= SQSize
Busy == KernelBusy /\ Unread = CQSize /\ overflow # {}
TickFrame == Frame("tick", NoOp, cqHead, Len(posted))

InFlight == ToSet(sq) \cup kernel \cup overflow

-----------------------------------------------------------------------------
Init ==
  /\ handle = [o \in Ops |-> "new"]
  /\ index = [o \in Ops |-> NoKey]
  /\ data = [o \in Ops |-> "caller"]
  /\ slab = [k \in Keys |-> Vacant]
  /\ sq = << >>
  /\ kernel = {}
  /\ overflow = {}
  /\ posted = << >>
  /\ cqHead = 0
  /\ stack = << >>
  /\ woken = {}
  /\ inner = "live"
  /\ env \in Environments

(* new_op and the push of its SQE; the slab chooses some free key.  An Op  *)
(* that is not kept (the close of SharedFd's destructor) is dropped at     *)
(* once: its entry becomes Ignored.                                        *)
InsertAndPush(o, keep) ==
  \E k \in {free \in Keys : slab[free] = Vacant} :
    /\ slab' = [slab EXCEPT ![k] = Entry(IF keep THEN "Submitted" ELSE "Ignored", o)]
    /\ index' = [index EXCEPT ![o] = k]
    /\ handle' = [handle EXCEPT ![o] = IF keep THEN "alive" ELSE "dropped"]
    /\ sq' = Append(sq, [key |-> k, op |-> o])

submit_with_data(o) ==
  /\ UserCode
  /\ inner = "live"
  /\ handle[o] = "new"
  /\ IF IsFull
       THEN /\ stack' = <<Frame("with_data", o, 0, 0), Frame("submit", o, 0, 0)>>
            /\ UNCHANGED <<handle, index, data, slab, sq>>
       ELSE /\ InsertAndPush(o, TRUE)
            /\ data' = [data EXCEPT ![o] = "op"]
            /\ UNCHANGED stack
  /\ UNCHANGED <<kernel, overflow, posted, cqHead, woken, inner>>

(* ... continued once its UringInner::submit has returned Ok.              *)
PushAfterSubmit ==
  /\ In("with_data")
  /\ LET keep == Len(stack) = 1
     IN  /\ InsertAndPush(Top.op, keep)
         /\ data' = [data EXCEPT ![Top.op] = IF keep THEN "op" ELSE "slab"]
  /\ stack' = Pop
  /\ UNCHANGED <<kernel, overflow, posted, cqHead, woken, inner>>

(* UringInner::submit, Ok: the kernel consumes some of the queue.          *)
SubmitOk ==
  /\ In("submit")
  /\ ~Busy
  /\ \E n \in 0 .. Len(sq) :
       /\ sq # << >> => n > 0
       /\ kernel' = kernel \cup ToSet(SubSeq(sq, 1, n))
       /\ sq' = SubSeq(sq, n + 1, Len(sq))
  /\ stack' = Pop
  /\ UNCHANGED <<handle, index, data, slab, overflow, posted, cqHead, woken,
                 inner>>

(* EBUSY: process completions, then try again.                             *)
SubmitBusy ==
  /\ In("submit")
  /\ Busy
  /\ stack' = Append(stack, TickFrame)
  /\ UNCHANGED <<handle, index, data, slab, ring, woken, inner>>

(* Any other error is returned, and by the caller to its caller.           *)
SubmitErr ==
  /\ In("submit")
  /\ handle' = IF Top.op # NoOp THEN [handle EXCEPT ![Top.op] = "refused"]
                                ELSE handle
  /\ stack' = Front(Pop)
  /\ UNCHANGED <<index, data, slab, ring, woken, inner>>

(* IoUringDriver::submit, the cold path of block_on: submit, then tick.    *)
DriverSubmit ==
  /\ UserCode
  /\ inner = "live"
  /\ stack' = <<Frame("drive", NoOp, 0, 0), Frame("submit", NoOp, 0, 0)>>
  /\ UNCHANGED <<handle, index, data, slab, ring, woken, inner>>

TickAfterSubmit ==
  /\ In("drive")
  /\ stack' = Append(Pop, TickFrame)
  /\ UNCHANGED <<handle, index, data, slab, ring, woken, inner>>

(* IoUringDriver::park: submit_and_wait(1); block_on ignores an error.     *)
Park ==
  /\ UserCode
  /\ inner = "live"
  /\ IF Busy
       THEN UNCHANGED <<sq, kernel, stack>>
       ELSE /\ kernel' = kernel \cup ToSet(sq)
            /\ sq' = << >>
            /\ stack' = <<Frame("wait", NoOp, 0, 0)>>
  /\ UNCHANGED <<handle, index, data, slab, overflow, posted, cqHead, woken,
                 inner>>

ParkWakes ==
  /\ In("wait")
  /\ Unread > 0
  /\ stack' = <<TickFrame>>
  /\ UNCHANGED <<handle, index, data, slab, ring, woken, inner>>

-----------------------------------------------------------------------------
(* tick: one completion, handed to Lifecycle::complete.                    *)
Event == posted[Top.head + 1]
Advanced == Append(Pop, [Top EXCEPT !.head = @ + 1])

(* Mutant: the waker is not invoked.                                       *)
TickComplete_silent ==
  /\ In("tick")
  /\ Top.head < Top.tail
  /\ slab[Event.key].life \in {"Submitted", "Waiting"}
  /\ slab' = [slab EXCEPT ![Event.key] = Entry("Completed", @.op)]
  /\ stack' = Advanced
  /\ UNCHANGED <<handle, index, data, ring, woken, inner>>

TickComplete ==
  /\ In("tick")
  /\ Top.head < Top.tail
  /\ slab[Event.key].life \in {"Submitted", "Waiting"}
  /\ slab' = [slab EXCEPT ![Event.key] = Entry("Completed", @.op)]
  /\ woken' = IF slab[Event.key].life = "Waiting"
                THEN woken \cup {slab[Event.key].op} ELSE woken
  /\ stack' = Advanced
  /\ UNCHANGED <<handle, index, data, ring, inner>>

(* Mutant: the entry of an ignored operation is not removed.               *)
TickIgnored_kept ==
  /\ In("tick")
  /\ Top.head < Top.tail
  /\ slab[Event.key].life = "Ignored"
  /\ data' = [data EXCEPT ![slab[Event.key].op] = "freed"]
  /\ stack' = Advanced
  /\ UNCHANGED <<handle, index, slab, ring, woken, inner>>

(* An ignored operation is removed and its data dropped.  If that was the  *)
(* last SharedFd, the destructor submits a close from inside the tick.     *)
TickIgnored ==
  /\ In("tick")
  /\ Top.head < Top.tail
  /\ slab[Event.key].life = "Ignored"
  /\ slab' = [slab EXCEPT ![Event.key] = Vacant]
  /\ data' = [data EXCEPT ![slab[Event.key].op] = "freed"]
  /\ \/ stack' = Advanced
     \/ /\ CloseOnDrop
        /\ \E c \in {o \in Ops : handle[o] = "new"} :
             stack' = Advanced \o <<Frame("close", c, 0, 0)>>
  /\ UNCHANGED <<handle, index, ring, woken, inner>>

(* Op::close of SharedFd's destructor, started by TickIgnored.             *)
CloseInTick ==
  /\ In("close")
  /\ IF IsFull
       THEN /\ stack' = Pop \o <<Frame("with_data", Top.op, 0, 0),
                                 Frame("submit", Top.op, 0, 0)>>
            /\ UNCHANGED <<handle, index, data, slab, sq>>
       ELSE /\ InsertAndPush(Top.op, FALSE)
            /\ data' = [data EXCEPT ![Top.op] = "slab"]
            /\ stack' = Pop
  /\ UNCHANGED <<kernel, overflow, posted, cqHead, woken, inner>>

(* The CompletionQueue is dropped: its local head is published.            *)
TickEnd ==
  /\ In("tick")
  /\ Top.head = Top.tail
  /\ cqHead' = Top.head
  /\ stack' = Pop
  /\ UNCHANGED <<handle, index, data, slab, sq, kernel, overflow, posted,
                 woken, inner>>

-----------------------------------------------------------------------------
(* Op::poll and the drop of an Op, from user code.                         *)
poll_op(o) ==
  /\ UserCode
  /\ handle[o] = "alive"
  /\ LET k == index[o]
     IN  IF slab[k].life = "Completed"
           THEN /\ slab' = [slab EXCEPT ![k] = Vacant]
                /\ handle' = [handle EXCEPT ![o] = "ready"]
                /\ index' = [index EXCEPT ![o] = NoKey]
                /\ data' = [data EXCEPT ![o] = "caller"]
           ELSE /\ slab' = [slab EXCEPT ![k] = Entry("Waiting", o)]
                /\ UNCHANGED <<handle, index, data>>
  /\ UNCHANGED <<ring, stack, woken, inner>>

(* Mutants of drop_op: the entry is removed while the kernel still works   *)
(* on the operation; the data is dropped with the Op.                      *)
drop_op_removed(o) ==
  /\ UserCode
  /\ handle[o] = "alive"
  /\ handle' = [handle EXCEPT ![o] = "dropped"]
  /\ slab' = [slab EXCEPT ![index[o]] = Vacant]
  /\ data' = [data EXCEPT ![o] = "slab"]
  /\ UNCHANGED <<index, ring, stack, woken, inner>>
drop_op_freed(o) ==
  /\ UserCode
  /\ handle[o] = "alive"
  /\ handle' = [handle EXCEPT ![o] = "dropped"]
  /\ slab' = [slab EXCEPT ![index[o]] =
                IF @.life = "Completed" THEN Vacant ELSE Entry("Ignored", o)]
  /\ data' = [data EXCEPT ![o] = "freed"]
  /\ UNCHANGED <<index, ring, stack, woken, inner>>

drop_op(o) ==
  /\ UserCode
  /\ handle[o] = "alive"
  /\ handle' = [handle EXCEPT ![o] = "dropped"]
  /\ LET k == index[o]
     IN  IF slab[k].life = "Completed"
           THEN /\ slab' = [slab EXCEPT ![k] = Vacant]
                /\ data' = [data EXCEPT ![o] = "freed"]
           ELSE /\ slab' = [slab EXCEPT ![k] = Entry("Ignored", o)]
                /\ data' = [data EXCEPT ![o] = "slab"]
  /\ UNCHANGED <<index, ring, stack, woken, inner>>

DropDriver ==
  /\ UserCode
  /\ inner = "live"
  /\ inner' = "orphan"
  /\ UNCHANGED <<handle, index, data, slab, ring, stack, woken>>

(* The last Rc of UringInner goes: the ring is closed, the slab dropped.   *)
DropInner ==
  /\ inner = "orphan"
  /\ \A o \in Ops : handle[o] # "alive"
  /\ inner' = "dropped"
  /\ slab' = [k \in Keys |-> Vacant]
  /\ data' = [o \in Ops |-> IF data[o] = "slab" THEN "freed" ELSE data[o]]
  /\ UNCHANGED <<handle, index, ring, stack, woken>>

-----------------------------------------------------------------------------
(* The kernel (external).                                                  *)
KernelPost ==
  /\ Unread < CQSize
  /\ \E e \in kernel \cup overflow :
       /\ overflow # {} => e \in overflow
       /\ posted' = Append(posted, e)
       /\ kernel' = kernel \ {e}
       /\ overflow' = overflow \ {e}
  /\ UNCHANGED <<handle, index, data, slab, sq, cqHead, stack, woken, inner>>

KernelOverflow ==
  /\ Unread = CQSize
  /\ \E e \in kernel :
       /\ kernel' = kernel \ {e}
       /\ overflow' = overflow \cup {e}
  /\ UNCHANGED <<handle, index, data, slab, sq, posted, cqHead, stack, woken,
                 inner>>

DriverStep ==
  \/ PushAfterSubmit \/ SubmitOk \/ SubmitBusy \/ TickAfterSubmit
  \/ ParkWakes \/ TickComplete \/ TickIgnored \/ CloseInTick \/ TickEnd

UserStep == \E o \in Ops : submit_with_data(o) \/ poll_op(o) \/ drop_op(o)

Step ==
  \/ DriverStep \/ SubmitErr \/ Park \/ DriverSubmit \/ UserStep
  \/ DropDriver \/ DropInner \/ KernelPost \/ KernelOverflow

Next == Step /\ UNCHANGED env

Spec == Init /\ [][Next]_vars

(***************************************************************************)
(* The thread finishes what it is doing, block_on parks when it has        *)
(* nothing to run, the kernel executes what it accepted, and submissions   *)
(* do not fail for ever: one that is retried again and again is accepted   *)
(* in the end.  User code need not poll, and block_on need not take its    *)
(* cold path, which it only does while tasks are queued.                   *)
(***************************************************************************)
FairSpec ==
  /\ Spec
  /\ WF_vars(DriverStep /\ UNCHANGED env)
  /\ SF_vars(SubmitOk /\ UNCHANGED env)
  /\ WF_vars(Park /\ UNCHANGED env)
  /\ WF_vars(KernelPost /\ UNCHANGED env)
  /\ WF_vars(KernelOverflow /\ UNCHANGED env)

-----------------------------------------------------------------------------
(* The completion about to be processed finds the entry of its own         *)
(* operation, not completed before, although keys are reused.              *)
CompletionMatches ==
  In("tick") /\ Top.head < Top.tail =>
    /\ slab[Event.key] # Vacant
    /\ slab[Event.key].op = Event.op
    /\ slab[Event.key].life # "Completed"

(* An Op that is alive owns its slab entry, and that entry is not Ignored. *)
HandleOwnsEntry ==
  \A o \in Ops : handle[o] = "alive" =>
    /\ slab[index[o]] # Vacant
    /\ slab[index[o]].op = o
    /\ slab[index[o]].life # "Ignored"

(* Nothing that the driver takes for granted fails, however operations     *)
(* are submitted, dropped and completed: the unreachable_unchecked of      *)
(* Lifecycle::complete and unwrap_unchecked of Ops::complete, those of     *)
(* poll_op and drop_op, and unimplemented!("when is this hit?"), since the *)
(* push after a successful submit finds room.                              *)
UncheckedHolds ==
  /\ CompletionMatches
  /\ HandleOwnsEntry
  /\ In("with_data") => ~IsFull

(* "The state must be passed to the driver and held until the operation    *)
(* completes" (lifecycle.rs): while the kernel may still use the buffers   *)
(* of an operation, the Op or the slab owns them.  This is about a driver  *)
(* that is not dropped: UringInner::drop frees the slab with the buffers   *)
(* in it, whatever operations the kernel still has.                        *)
BuffersHeld ==
  inner # "dropped" =>
    \A e \in InFlight : data[e.op] \in {"op", "slab"}

(* No entry stays in the slab for ever: it is owned by an Op, or its       *)
(* completion is still to come.                                            *)
NoSlabLeak ==
  \A k \in Keys : slab[k] # Vacant =>
    \/ handle[slab[k].op] = "alive"
    \/ \E e \in InFlight : e.key = k /\ e.op = slab[k].op
    \/ \E i \in cqHead + 1 .. Len(posted) : posted[i].key = k

(* "Wait infinitely and process returned events" (driver/mod.rs, park): an *)
(* operation whose future waits for it is woken once its completion has    *)
(* been posted, unless the future or the driver is dropped, or the kernel  *)
(* refuses to be entered because completions are backlogged.               *)
CompletionDelivered ==
  \A o \in Ops :
    (\E i \in 1 .. Len(posted) : posted[i].op = o)
       /\ handle[o] = "alive" /\ slab[index[o]].life = "Waiting"
    ~> o \in woken \/ handle[o] # "alive" \/ inner # "live" \/ Busy

=============================================================================
