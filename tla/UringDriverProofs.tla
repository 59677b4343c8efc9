------------------------- MODULE UringDriverProofs -------------------------
(***************************************************************************)
(* What the io_uring driver takes for granted holds, for any number of     *)
(* operations and keys and any size of the queues, unless the kernel       *)
(* answers EBUSY and destructors close descriptors in one execution.  And  *)
(* the buffers that it hands to the kernel are initialized where programs  *)
(* read them, for any nesting of slices (second half).                     *)
(***************************************************************************)
EXTENDS UringDriver, Buffers, SequenceTheorems, InductionProofs, TLAPS

Sqes == [key : Keys, op : Ops]
Lives == {"Submitted", "Waiting", "Completed", "Ignored"}
SlabValues == {Vacant} \cup {Entry(l, o) : l \in Lives, o \in Ops}

TypeOK ==
  /\ handle \in [Ops -> {"new", "alive", "dropped", "ready", "refused"}]
  /\ index \in [Ops -> Keys \cup {NoKey}]
  /\ data \in [Ops -> {"caller", "op", "slab", "freed"}]
  /\ slab \in [Keys -> SlabValues]
  /\ sq \in Seq(Sqes) /\ Len(sq) <= SQSize
  /\ kernel \in SUBSET Sqes /\ overflow \in SUBSET Sqes
  /\ posted \in Seq(Sqes) /\ cqHead \in Nat
  /\ inner \in {"live", "orphan", "dropped"}
  /\ env \in Environments \ {"busy+close"}

-----------------------------------------------------------------------------
(* The driver functions that can be active at the same time.               *)
Frames == [fn : {"with_data", "submit", "drive", "wait", "tick", "close"},
           op : Ops \cup {NoOp}, head : Nat, tail : Nat]

Ticking(f) ==
  /\ f.fn = "tick"
  /\ cqHead <= f.head /\ f.head <= f.tail /\ f.tail <= Len(posted)
Serving(f, fn) == f.fn = fn /\ f.op \in Ops /\ handle[f.op] = "new"
Pushing(f) == Serving(f, "with_data") /\ Len(sq) < SQSize
Submitting(f, g) ==
  /\ g.fn = "submit"
  /\ \/ f.fn = "drive" /\ g.op = NoOp
     \/ Serving(f, "with_data") /\ g.op = f.op

StackInv ==
  /\ stack \in Seq(Frames) /\ Len(stack) \in 0 .. 3
  /\ inner # "live" => Len(stack) = 0
  /\ cqHead <= Len(posted)
  /\ Len(stack) = 1 =>
       Ticking(stack[1]) \/ stack[1].fn \in {"wait", "drive"} \/ Pushing(stack[1])
  /\ Len(stack) = 2 =>
       \/ Submitting(stack[1], stack[2])
       \/ /\ CloseOnDrop /\ Ticking(stack[1])
          /\ Serving(stack[2], "close") \/ Pushing(stack[2])
  /\ Len(stack) = 3 =>
       \/ KernelBusy /\ Submitting(stack[1], stack[2]) /\ Ticking(stack[3])
       \/ /\ CloseOnDrop /\ Ticking(stack[1])
          /\ Serving(stack[2], "with_data") /\ Submitting(stack[2], stack[3])

(* How many completions have been processed: the active tick's local head, *)
(* or the published one.                                                   *)
Processed ==
  IF Len(stack) > 0 /\ stack[1].fn = "tick" THEN stack[1].head
  ELSE IF Len(stack) = 3 THEN stack[3].head ELSE cqHead

(* The operations whose completion is still to be processed.               *)
Pending ==
  {sq[i] : i \in 1 .. Len(sq)} \cup kernel \cup overflow
    \cup {posted[i] : i \in Processed + 1 .. Len(posted)}

(* An operation is pushed once, and is in one place at a time.             *)
Pushed(h, o) == o \in Ops /\ h[o] \in {"alive", "dropped", "ready"}
RingInv ==
  /\ \A i, j \in 1 .. Len(sq) : sq[i].op = sq[j].op => i = j
  /\ \A i, j \in 1 .. Len(posted) : posted[i].op = posted[j].op => i = j
  /\ \A e, f \in kernel \cup overflow : e.op = f.op => e = f
  /\ \A i \in 1 .. Len(sq) : \A e \in kernel \cup overflow : sq[i].op # e.op
  /\ \A i \in 1 .. Len(sq) : \A j \in 1 .. Len(posted) : sq[i].op # posted[j].op
  /\ \A j \in 1 .. Len(posted) : \A e \in kernel \cup overflow :
       posted[j].op # e.op
  /\ \A i \in 1 .. Len(sq) : Pushed(handle, sq[i].op)
  /\ \A j \in 1 .. Len(posted) : Pushed(handle, posted[j].op)
  /\ \A e \in kernel \cup overflow : Pushed(handle, e.op)

(* Every pending operation has its entry, every entry its Op, or its       *)
(* completion to come, and every Op that is alive its entry.               *)
PendingInv ==
  inner # "dropped" =>
    \A e \in Pending :
      slab[e.key] # Vacant /\ slab[e.key].op = e.op
      /\ slab[e.key].life # "Completed"
EntryInv ==
  \A k \in Keys : slab[k] # Vacant =>
    /\ index[slab[k].op] = k
    /\ IF slab[k].life = "Ignored"
         THEN handle[slab[k].op] = "dropped" /\ data[slab[k].op] = "slab"
         ELSE handle[slab[k].op] = "alive"
    /\ slab[k].life # "Completed" =>
         \E e \in Pending : e.key = k /\ e.op = slab[k].op
AliveInv ==
  \A o \in Ops : handle[o] = "alive" =>
    /\ inner # "dropped" /\ index[o] \in Keys /\ data[o] = "op"
    /\ slab[index[o]] # Vacant /\ slab[index[o]].op = o

IInv ==
  TypeOK /\ StackInv /\ RingInv /\ PendingInv /\ EntryInv /\ AliveInv

-----------------------------------------------------------------------------
(* Sequences and records.                                                  *)
LEMMA PopIs ==
  ASSUME NEW S, NEW s \in Seq(S), s # << >>
  PROVE  /\ Len(s) \in Nat \ {0} /\ Last(s) = s[Len(s)] /\ Last(s) \in S
         /\ Front(s) \in Seq(S) /\ Len(Front(s)) = Len(s) - 1
         /\ \A i \in 1 .. Len(s) - 1 : Front(s)[i] = s[i]
  <1>1. Len(s) \in Nat /\ Len(s) # 0
    OBVIOUS
  <1>2. s[Len(s)] \in S
    BY <1>1
  <1>3. Front(s) = SubSeq(s, 1, Len(s) - 1)
    BY DEF Front
  <1>4. Front(s) \in Seq(S)
    BY <1>1, <1>3
  <1>5. Len(Front(s)) = Len(s) - 1
    <2>1. Len(s) - 1 \in Int /\ \A i \in 1 .. Len(s) - 1 : s[i] \in S
      BY <1>1
    <2>2. Len(SubSeq(s, 1, Len(s) - 1))
            = IF 1 <= Len(s) - 1 THEN (Len(s) - 1) - 1 + 1 ELSE 0
      BY <2>1, SubSeqProperties
    <2>3. Len(Front(s)) = Len(SubSeq(s, 1, Len(s) - 1))
      BY <1>3, Zenon
    <2>4. (IF 1 <= Len(s) - 1 THEN (Len(s) - 1) - 1 + 1 ELSE 0) = Len(s) - 1
      <3>1. \A n \in Nat \ {0} :
              (IF 1 <= n - 1 THEN (n - 1) - 1 + 1 ELSE 0) = n - 1
        OBVIOUS
      <3>2. Len(s) \in Nat \ {0}
        BY <1>1
      <3> QED BY <3>1, <3>2, Zenon
    <2> QED BY <2>2, <2>3, <2>4, Zenon
  <1>6. \A i \in 1 .. Len(s) - 1 : Front(s)[i] = s[i]
    BY <1>1, <1>3
  <1> QED BY <1>1, <1>2, <1>4, <1>5, <1>6 DEF Last

LEMMA AppendIs ==
  ASSUME NEW S, NEW s \in Seq(S), NEW x \in S
  PROVE  /\ Append(s, x) \in Seq(S) /\ Len(Append(s, x)) = Len(s) + 1
         /\ \A i \in 1 .. Len(s) : Append(s, x)[i] = s[i]
         /\ Append(s, x)[Len(s) + 1] = x
  OBVIOUS

LEMMA ConcatOne ==
  ASSUME NEW S, NEW s \in Seq(S), NEW x \in S
  PROVE  s \o <<x>> = Append(s, x)
  OBVIOUS

LEMMA ConcatTwo ==
  ASSUME NEW S, NEW s \in Seq(S), NEW x \in S, NEW y \in S
  PROVE  s \o <<x, y>> = Append(Append(s, x), y)
  OBVIOUS

LEMMA Tuples ==
  ASSUME NEW S, NEW x \in S, NEW y \in S
  PROVE  /\ <<x>> \in Seq(S) /\ Len(<<x>>) = 1 /\ <<x>>[1] = x
         /\ <<x, y>> \in Seq(S) /\ Len(<<x, y>>) = 2
         /\ <<x, y>>[1] = x /\ <<x, y>>[2] = y
         /\ << >> \in Seq(S) /\ Len(<< >>) = 0
  OBVIOUS

LEMMA FrameIs ==
  ASSUME NEW fn \in {"with_data", "submit", "drive", "wait", "tick", "close"},
         NEW o \in Ops \cup {NoOp}, NEW h \in Nat, NEW t \in Nat
  PROVE  /\ Frame(fn, o, h, t) \in Frames
         /\ Frame(fn, o, h, t).fn = fn /\ Frame(fn, o, h, t).op = o
         /\ Frame(fn, o, h, t).head = h /\ Frame(fn, o, h, t).tail = t
  BY DEF Frame, Frames

LEMMA FrameFields ==
  ASSUME NEW f \in Frames
  PROVE  /\ f.fn \in {"with_data", "submit", "drive", "wait", "tick", "close"}
         /\ f.op \in Ops \cup {NoOp} /\ f.head \in Nat /\ f.tail \in Nat
         /\ LET g == [f EXCEPT !.head = f.head + 1]
            IN  /\ g \in Frames /\ g.fn = f.fn /\ g.op = f.op
                /\ g.head = f.head + 1 /\ g.tail = f.tail
  BY DEF Frames

LEMMA SlabValuesAre ==
  /\ Vacant \in SlabValues
  /\ \A l \in Lives, o \in Ops :
       Entry(l, o) \in SlabValues /\ Entry(l, o) # Vacant
  /\ \A l, o : Entry(l, o).life = l /\ Entry(l, o).op = o
  /\ \A x \in SlabValues : x # Vacant => x.life \in Lives /\ x.op \in Ops
  /\ Vacant.life \notin Lives
  <1>1. \A l, o : Entry(l, o).life = l /\ Entry(l, o).op = o
    BY DEF Entry
  <1>2. Vacant.life = "Vacant"
    BY DEF Vacant
  <1>3. Vacant.life \notin Lives
    BY <1>2 DEF Lives
  <1>4. \A l \in Lives, o \in Ops : Entry(l, o) # Vacant
    BY <1>1, <1>3
  <1>5. \A x \in SlabValues : x # Vacant => x.life \in Lives /\ x.op \in Ops
    BY <1>1 DEF SlabValues
  <1> QED BY <1>1, <1>3, <1>4, <1>5 DEF SlabValues

LEMMA SqeIs ==
  ASSUME NEW k \in Keys, NEW o \in Ops
  PROVE  /\ [key |-> k, op |-> o] \in Sqes
         /\ [key |-> k, op |-> o].key = k /\ [key |-> k, op |-> o].op = o
  BY DEF Sqes

-----------------------------------------------------------------------------
(* The stack: which functions are below the one that runs.                 *)
LEMMA StackFacts ==
  ASSUME StackInv, stack # << >>
  PROVE  /\ Len(stack) \in 1 .. 3 /\ inner = "live"
         /\ Top = stack[Len(stack)] /\ Top \in Frames
         /\ \A i \in 1 .. Len(stack) : stack[i] \in Frames
         /\ Pop \in Seq(Frames) /\ Len(Pop) = Len(stack) - 1
         /\ \A i \in 1 .. Len(stack) - 1 : Pop[i] = stack[i]
  <1>1. stack \in Seq(Frames) /\ Len(stack) \in 0 .. 3
        /\ (inner # "live" => Len(stack) = 0)
    BY DEF StackInv
  <1>2. /\ Len(stack) \in Nat \ {0} /\ Last(stack) = stack[Len(stack)]
        /\ Last(stack) \in Frames
        /\ Front(stack) \in Seq(Frames) /\ Len(Front(stack)) = Len(stack) - 1
        /\ \A i \in 1 .. Len(stack) - 1 : Front(stack)[i] = stack[i]
    BY <1>1, PopIs
  <1>3. \A i \in 1 .. Len(stack) : stack[i] \in Frames
    BY <1>1
  <1> QED BY <1>1, <1>2, <1>3 DEF Top, Pop

LEMMA UserCodeStack ==
  ASSUME StackInv
  PROVE  UserCode <=> Len(stack) = 0
  BY DEF StackInv, UserCode

LEMMA InTick ==
  ASSUME StackInv, In("tick")
  PROVE  \/ Len(stack) = 1 /\ Ticking(stack[1])
         \/ /\ Len(stack) = 3 /\ KernelBusy /\ Submitting(stack[1], stack[2])
            /\ Ticking(stack[3]) /\ stack[1].fn # "tick"
  <1>1. stack # << >> /\ Top.fn = "tick"
    BY DEF In
  <1>2. Len(stack) \in 1 .. 3 /\ stack[Len(stack)].fn = "tick"
    BY <1>1, StackFacts
  <1>3. Len(stack) = 1 \/ Len(stack) = 2 \/ Len(stack) = 3
    BY <1>2
  <1> QED BY <1>2, <1>3 DEF StackInv, Ticking, Serving, Submitting, Pushing

LEMMA InSubmit ==
  ASSUME StackInv, In("submit")
  PROVE  \/ Len(stack) = 2 /\ Submitting(stack[1], stack[2])
         \/ /\ Len(stack) = 3 /\ CloseOnDrop /\ Ticking(stack[1])
            /\ Serving(stack[2], "with_data") /\ Submitting(stack[2], stack[3])
  <1>1. stack # << >> /\ Top.fn = "submit"
    BY DEF In
  <1>2. Len(stack) \in 1 .. 3 /\ stack[Len(stack)].fn = "submit"
    BY <1>1, StackFacts
  <1>3. Len(stack) = 1 \/ Len(stack) = 2 \/ Len(stack) = 3
    BY <1>2
  <1> QED BY <1>2, <1>3 DEF StackInv, Ticking, Serving, Submitting, Pushing

LEMMA InWithData ==
  ASSUME StackInv, In("with_data")
  PROVE  \/ Len(stack) = 1 /\ Pushing(stack[1])
         \/ /\ Len(stack) = 2 /\ CloseOnDrop /\ Ticking(stack[1])
            /\ Pushing(stack[2])
  <1>1. stack # << >> /\ Top.fn = "with_data"
    BY DEF In
  <1>2. Len(stack) \in 1 .. 3 /\ stack[Len(stack)].fn = "with_data"
    BY <1>1, StackFacts
  <1>3. Len(stack) = 1 \/ Len(stack) = 2 \/ Len(stack) = 3
    BY <1>2
  <1> QED BY <1>2, <1>3 DEF StackInv, Ticking, Serving, Submitting, Pushing

LEMMA InClose ==
  ASSUME StackInv, In("close")
  PROVE  /\ Len(stack) = 2 /\ CloseOnDrop /\ Ticking(stack[1])
         /\ Serving(stack[2], "close")
  <1>1. stack # << >> /\ Top.fn = "close"
    BY DEF In
  <1>2. Len(stack) \in 1 .. 3 /\ stack[Len(stack)].fn = "close"
    BY <1>1, StackFacts
  <1>3. Len(stack) = 1 \/ Len(stack) = 2 \/ Len(stack) = 3
    BY <1>2
  <1> QED BY <1>2, <1>3 DEF StackInv, Ticking, Serving, Submitting, Pushing

LEMMA InBottom ==
  ASSUME StackInv, In("drive") \/ In("wait")
  PROVE  Len(stack) = 1 /\ stack[1].fn \in {"drive", "wait"}
  <1>1. stack # << >> /\ Top.fn \in {"drive", "wait"}
    BY DEF In
  <1>2. Len(stack) \in 1 .. 3 /\ stack[Len(stack)].fn \in {"drive", "wait"}
    BY <1>1, StackFacts
  <1>3. Len(stack) = 1 \/ Len(stack) = 2 \/ Len(stack) = 3
    BY <1>2
  <1> QED BY <1>2, <1>3 DEF StackInv, Ticking, Serving, Submitting, Pushing

(* A new tick starts at the published head.                                *)
LEMMA NewTick ==
  ASSUME TypeOK, StackInv
  PROVE  /\ TickFrame \in Frames /\ Ticking(TickFrame)
         /\ TickFrame.fn = "tick" /\ TickFrame.head = cqHead
  <1>1. cqHead \in Nat /\ Len(posted) \in Nat /\ cqHead <= Len(posted)
    BY DEF TypeOK, StackInv
  <1>2. /\ TickFrame \in Frames /\ TickFrame.fn = "tick"
        /\ TickFrame.head = cqHead /\ TickFrame.tail = Len(posted)
    BY <1>1 DEF TickFrame, Frame, Frames
  <1> QED BY <1>1, <1>2 DEF Ticking

-----------------------------------------------------------------------------
(* Steps that leave the slab alone.                                        *)
HandlesKept ==
  /\ handle' \in [Ops -> {"new", "alive", "dropped", "ready", "refused"}]
  /\ \A o \in Ops : \/ handle'[o] = handle[o]
                    \/ handle[o] = "new" /\ handle'[o] = "refused"

LEMMA SlabSame ==
  ASSUME TypeOK, RingInv, PendingInv, EntryInv, AliveInv, HandlesKept,
         Pending' = Pending, UNCHANGED <<index, data, slab, inner>>
  PROVE  PendingInv' /\ EntryInv' /\ AliveInv'
  <1>1. PendingInv'
    BY DEF PendingInv
  <1>2. EntryInv'
    <2> SUFFICES ASSUME NEW k \in Keys, slab[k] # Vacant
                 PROVE  /\ index[slab[k].op] = k
                        /\ IF slab[k].life = "Ignored"
                             THEN /\ handle'[slab[k].op] = "dropped"
                                  /\ data[slab[k].op] = "slab"
                             ELSE handle'[slab[k].op] = "alive"
                        /\ slab[k].life # "Completed" =>
                             \E e \in Pending : e.key = k /\ e.op = slab[k].op
      BY DEF EntryInv
    <2>1. slab[k].op \in Ops
      BY SlabValuesAre DEF TypeOK
    <2>2. handle[slab[k].op] # "new"
      BY DEF EntryInv
    <2>3. handle'[slab[k].op] = handle[slab[k].op]
      BY <2>1, <2>2 DEF HandlesKept
    <2> QED BY <2>3 DEF EntryInv
  <1>3. AliveInv'
    BY DEF AliveInv, HandlesKept
  <1> QED BY <1>1, <1>2, <1>3

LEMMA RingSame ==
  ASSUME TypeOK, RingInv, HandlesKept, UNCHANGED <<sq, kernel, overflow, posted>>
  PROVE  RingInv'
  <1>1. \A o : Pushed(handle, o) => Pushed(handle', o)
    BY DEF Pushed, HandlesKept
  <1>2. /\ \A i \in 1 .. Len(sq) : Pushed(handle', sq[i].op)
        /\ \A j \in 1 .. Len(posted) : Pushed(handle', posted[j].op)
        /\ \A e \in kernel \cup overflow : Pushed(handle', e.op)
    BY <1>1 DEF RingInv
  <1> QED BY <1>2 DEF RingInv

LEMMA PendingSame ==
  ASSUME Processed' = Processed, UNCHANGED <<sq, kernel, overflow, posted>>
  PROVE  Pending' = Pending
  BY DEF Pending

(* A step of the stack alone.                                              *)
LEMMA StackStep ==
  ASSUME IInv, HandlesKept, StackInv', Processed' = Processed,
         UNCHANGED <<index, data, slab, sq, kernel, overflow, posted, inner, env>>,
         cqHead' \in Nat
  PROVE  IInv'
  <1>1. TypeOK'
    BY DEF IInv, TypeOK, HandlesKept
  <1>2. RingInv'
    BY RingSame DEF IInv
  <1>3. PendingInv' /\ EntryInv' /\ AliveInv'
    BY SlabSame, PendingSame DEF IInv
  <1> QED BY <1>1, <1>2, <1>3 DEF IInv

LEMMA SplitIs ==
  ASSUME NEW S, NEW s \in Seq(S), NEW n \in 0 .. Len(s)
  PROVE  /\ ToSet(SubSeq(s, 1, n)) = {s[i] : i \in 1 .. n}
         /\ SubSeq(s, n + 1, Len(s)) \in Seq(S)
         /\ Len(SubSeq(s, n + 1, Len(s))) = Len(s) - n
         /\ \A i \in 1 .. Len(s) - n : SubSeq(s, n + 1, Len(s))[i] = s[n + i]
  <1>1. Len(s) \in Nat /\ n \in Nat /\ n <= Len(s)
    OBVIOUS
  <1> DEFINE a == SubSeq(s, 1, n)
             b == SubSeq(s, n + 1, Len(s))
  <1>2. a \in Seq(S) /\ Len(a) = n /\ \A i \in 1 .. n : a[i] = s[i]
    <2>1. \A i \in 1 .. n : s[i] \in S
      BY <1>1
    <2>2. /\ a \in Seq(S) /\ Len(a) = (IF 1 <= n THEN n - 1 + 1 ELSE 0)
          /\ \A i \in 1 .. n - 1 + 1 : a[i] = s[1 + i - 1]
      BY <2>1, <1>1, SubSeqProperties
    <2>3. (IF 1 <= n THEN n - 1 + 1 ELSE 0) = n /\ n - 1 + 1 = n
      BY <1>1
    <2>4. \A i \in 1 .. n : 1 + i - 1 = i
      BY <1>1
    <2> HIDE DEF a
    <2> QED BY <2>2, <2>3, <2>4
  <1>3. ToSet(a) = {s[i] : i \in 1 .. n}
    <2>1. DOMAIN a = 1 .. n
      BY <1>2
    <2> HIDE DEF a
    <2> QED BY <1>2, <2>1 DEF ToSet
  <1>4. /\ b \in Seq(S) /\ Len(b) = Len(s) - n
        /\ \A i \in 1 .. Len(s) - n : b[i] = s[n + i]
    <2>1. \A i \in n + 1 .. Len(s) : s[i] \in S
      BY <1>1
    <2>2. /\ b \in Seq(S)
          /\ Len(b) = (IF n + 1 <= Len(s) THEN Len(s) - (n + 1) + 1 ELSE 0)
          /\ \A i \in 1 .. Len(s) - (n + 1) + 1 : b[i] = s[(n + 1) + i - 1]
      BY <2>1, <1>1, SubSeqProperties
    <2>3. \A l \in Nat : n <= l =>
            /\ (IF n + 1 <= l THEN l - (n + 1) + 1 ELSE 0) = l - n
            /\ l - (n + 1) + 1 = l - n
      BY <1>1
    <2>4. \A i \in Int : (n + 1) + i - 1 = n + i
      BY <1>1
    <2>5. /\ (IF n + 1 <= Len(s) THEN Len(s) - (n + 1) + 1 ELSE 0) = Len(s) - n
          /\ Len(s) - (n + 1) + 1 = Len(s) - n
      BY <1>1, <2>3
    <2> HIDE DEF b
    <2>6. Len(b) = Len(s) - n
      BY <2>2, <2>5
    <2>7. ASSUME NEW i \in 1 .. Len(s) - n PROVE b[i] = s[n + i]
      <3>1. i \in Int
        BY <1>1
      <3>2. i \in 1 .. Len(s) - (n + 1) + 1
        BY <2>5, Zenon
      <3> QED BY <2>2, <2>4, <3>1, <3>2, Zenon
    <2> QED BY <2>2, <2>6, <2>7
  <1> QED BY <1>3, <1>4

(* The kernel takes the first n entries of the submission queue.           *)
LEMMA Consume ==
  ASSUME IInv, NEW n \in 0 .. Len(sq),
         sq' \in Seq(Sqes), Len(sq') = Len(sq) - n,
         \A i \in 1 .. Len(sq) - n : sq'[i] = sq[n + i],
         kernel' = kernel \cup {sq[i] : i \in 1 .. n},
         StackInv', Processed' = Processed,
         UNCHANGED <<handle, index, data, slab, overflow, posted, cqHead,
                     inner, env>>
  PROVE  IInv'
  <1>1. Len(sq) \in Nat /\ n \in Nat /\ n <= Len(sq)
        /\ \A i \in 1 .. Len(sq) : sq[i] \in Sqes
    BY DEF IInv, TypeOK
  <1>2. TypeOK'
    <2>1. kernel' \in SUBSET Sqes
      BY <1>1 DEF IInv, TypeOK
    <2>2. Len(sq') <= SQSize
      BY <1>1, DriverAssumption DEF IInv, TypeOK
    <2> QED BY <2>1, <2>2 DEF IInv, TypeOK
  <1>3. \A i \in 1 .. Len(sq') : n + i \in 1 .. Len(sq) /\ sq'[i] = sq[n + i]
    BY <1>1
  <1>4. RingInv'
    <2>1. RingInv
      BY DEF IInv
    <2>2. \A i, j \in 1 .. Len(sq') : sq'[i].op = sq'[j].op => i = j
      <3> SUFFICES ASSUME NEW i \in 1 .. Len(sq'), NEW j \in 1 .. Len(sq'),
                          sq'[i].op = sq'[j].op
                   PROVE  i = j
        OBVIOUS
      <3>1. n + i = n + j
        BY <1>3, <2>1 DEF RingInv
      <3> QED BY <3>1, <1>1
    <2>3. \A e \in kernel' \cup overflow' :
            \/ e \in kernel \cup overflow
            \/ \E i \in 1 .. n : e = sq[i]
      OBVIOUS
    <2>4. \A i \in 1 .. n : i \in 1 .. Len(sq)
      BY <1>1
    <2>5. \A e, f \in kernel' \cup overflow' : e.op = f.op => e = f
      BY <2>1, <2>3, <2>4 DEF RingInv
    <2>6. \A i \in 1 .. Len(sq') : \A e \in kernel' \cup overflow' :
            sq'[i].op # e.op
      <3> SUFFICES ASSUME NEW i \in 1 .. Len(sq'),
                          NEW e \in kernel' \cup overflow', sq'[i].op = e.op
                   PROVE  FALSE
        OBVIOUS
      <3>1. PICK j \in 1 .. n : e = sq[j]
        BY <1>3, <2>1, <2>3 DEF RingInv
      <3>2. n + i = j
        BY <1>3, <2>1, <2>4, <3>1 DEF RingInv
      <3> QED BY <3>2, <1>1
    <2>7. \A i \in 1 .. Len(sq') : \A j \in 1 .. Len(posted') :
            sq'[i].op # posted'[j].op
      <3>1. \A i \in 1 .. Len(sq) : \A j \in 1 .. Len(posted) :
              sq[i].op # posted[j].op
        BY <2>1 DEF RingInv
      <3> QED BY <1>3, <3>1
    <2>8. \A j \in 1 .. Len(posted') : \A e \in kernel' \cup overflow' :
            posted'[j].op # e.op
      BY <2>1, <2>3, <2>4 DEF RingInv
    <2>9. /\ \A i \in 1 .. Len(sq') : Pushed(handle', sq'[i].op)
          /\ \A j \in 1 .. Len(posted') : Pushed(handle', posted'[j].op)
          /\ \A e \in kernel' \cup overflow' : Pushed(handle', e.op)
      BY <1>3, <2>1, <2>3, <2>4 DEF RingInv
    <2>10. \A i, j \in 1 .. Len(posted') : posted'[i].op = posted'[j].op => i = j
      BY <2>1 DEF RingInv
    <2> QED BY <2>2, <2>5, <2>6, <2>7, <2>8, <2>9, <2>10 DEF RingInv
  <1>5. Pending' = Pending
    <2>1. \A i \in 1 .. Len(sq) : i \in 1 .. n \/
            (i - n \in 1 .. Len(sq') /\ sq'[i - n] = sq[i])
      <3> SUFFICES ASSUME NEW i \in 1 .. Len(sq), i \notin 1 .. n
                   PROVE  i - n \in 1 .. Len(sq') /\ sq'[i - n] = sq[i]
        OBVIOUS
      <3>1. i - n \in 1 .. Len(sq') /\ n + (i - n) = i
        BY <1>1
      <3> QED BY <3>1, <1>3
    <2>2. {sq[i] : i \in 1 .. Len(sq)}
            = {sq'[i] : i \in 1 .. Len(sq')} \cup {sq[i] : i \in 1 .. n}
      <3>1. \A i \in 1 .. n : i \in 1 .. Len(sq)
        BY <1>1
      <3> QED BY <2>1, <1>3, <3>1
    <2> QED BY <2>2 DEF Pending
  <1>6. HandlesKept
    BY DEF HandlesKept, IInv, TypeOK
  <1>7. PendingInv' /\ EntryInv' /\ AliveInv'
    BY <1>5, <1>6, SlabSame DEF IInv
  <1> QED BY <1>2, <1>4, <1>7 DEF IInv

LEMMA ProcessedIs ==
  ASSUME TypeOK, StackInv
  PROVE  /\ Processed \in Nat /\ Len(posted) \in Nat
         /\ cqHead <= Processed /\ Processed <= Len(posted)
  <1>1. cqHead \in Nat /\ Len(posted) \in Nat /\ cqHead <= Len(posted)
    BY DEF TypeOK, StackInv
  <1>2. Len(stack) \in 0 .. 3 /\ \A i \in 1 .. Len(stack) : stack[i] \in Frames
    BY DEF StackInv
  <1>3. ASSUME NEW f \in Frames, Ticking(f)
        PROVE  f.head \in Nat /\ cqHead <= f.head /\ f.head <= Len(posted)
    <2>1. f.head \in Nat /\ f.tail \in Nat
      BY FrameFields
    <2> QED BY <1>1, <1>3, <2>1 DEF Ticking
  <1>4. CASE Len(stack) = 0
    BY <1>1, <1>4 DEF Processed
  <1>5. CASE Len(stack) = 1
    <2>1. stack[1].fn = "tick" => Ticking(stack[1])
      BY <1>5 DEF StackInv, Pushing, Serving
    <2>2. stack[1] \in Frames
      BY <1>2, <1>5
    <2> QED BY <1>1, <1>3, <1>5, <2>1, <2>2 DEF Processed
  <1>6. CASE Len(stack) = 2
    <2>1. stack[1].fn = "tick" => Ticking(stack[1])
      BY <1>6 DEF StackInv, Submitting, Serving
    <2>2. stack[1] \in Frames
      BY <1>2, <1>6
    <2> QED BY <1>1, <1>3, <1>6, <2>1, <2>2 DEF Processed
  <1>7. CASE Len(stack) = 3
    <2>1. /\ stack[1].fn = "tick" => Ticking(stack[1])
          /\ stack[1].fn # "tick" => Ticking(stack[3])
      BY <1>7 DEF StackInv, Submitting, Serving, Ticking
    <2>2. stack[1] \in Frames /\ stack[3] \in Frames
      BY <1>2, <1>7
    <2> QED BY <1>1, <1>3, <1>7, <2>1, <2>2 DEF Processed
  <1> QED BY <1>2, <1>4, <1>5, <1>6, <1>7

LEMMA PendingType ==
  ASSUME TypeOK, StackInv
  PROVE  Pending \subseteq Sqes
  <1>1. \A i \in 1 .. Len(sq) : sq[i] \in Sqes
    BY DEF TypeOK
  <1>2. \A i \in Processed + 1 .. Len(posted) : posted[i] \in Sqes
    <2>1. Processed \in Nat
      BY ProcessedIs
    <2> QED BY <2>1 DEF TypeOK
  <1> QED BY <1>1, <1>2 DEF Pending, TypeOK

(* The kernel works beside the driver, which it can only help.             *)
LEMMA StackBeside ==
  ASSUME TypeOK, StackInv, UNCHANGED <<stack, cqHead, inner, env, handle, sq>>,
         Len(posted') \in Nat, Len(posted) <= Len(posted')
  PROVE  StackInv' /\ Processed' = Processed
  <1>1. cqHead \in Nat /\ Len(posted) \in Nat /\ cqHead <= Len(posted)
    BY DEF TypeOK, StackInv
  <1>2. \A i \in 1 .. Len(stack) : stack[i] \in Frames
    BY DEF StackInv
  <1>3. ASSUME NEW f \in Frames PROVE Ticking(f) => Ticking(f)'
    <2>1. f.head \in Nat /\ f.tail \in Nat
      BY FrameFields
    <2> QED BY <1>1, <2>1 DEF Ticking
  <1>4. \A i \in 1 .. Len(stack) : Ticking(stack[i]) => Ticking(stack[i])'
    BY <1>2, <1>3
  <1>5. \A f, fn : Serving(f, fn) <=> Serving(f, fn)'
    BY DEF Serving
  <1>6. \A f : Pushing(f) <=> Pushing(f)'
    BY DEF Pushing, Serving
  <1>7. \A f, g : Submitting(f, g) <=> Submitting(f, g)'
    BY DEF Submitting, Serving
  <1>8. (KernelBusy <=> KernelBusy') /\ (CloseOnDrop <=> CloseOnDrop')
    BY DEF KernelBusy, CloseOnDrop
  <1>9. cqHead <= Len(posted')
    BY <1>1
  <1>10. Len(stack) \in 0 .. 3
    BY DEF StackInv
  <1>11. StackInv'
    <2>1. CASE Len(stack) = 0
      BY <2>1, <1>9 DEF StackInv
    <2>2. CASE Len(stack) = 1
      <3>1. 1 \in 1 .. Len(stack)
        BY <2>2
      <3> QED BY <2>2, <3>1, <1>4, <1>6, <1>9 DEF StackInv
    <2>3. CASE Len(stack) = 2
      <3>1. 1 \in 1 .. Len(stack) /\ 2 \in 1 .. Len(stack)
        BY <2>3
      <3> QED BY <2>3, <3>1, <1>4, <1>5, <1>6, <1>7, <1>8, <1>9 DEF StackInv
    <2>4. CASE Len(stack) = 3
      <3>1. 1 \in 1 .. Len(stack) /\ 2 \in 1 .. Len(stack) /\ 3 \in 1 .. Len(stack)
        BY <2>4
      <3> QED BY <2>4, <3>1, <1>4, <1>5, <1>7, <1>8, <1>9 DEF StackInv
    <2> QED BY <1>10, <2>1, <2>2, <2>3, <2>4
  <1>12. Processed' = Processed
    BY DEF Processed
  <1> QED BY <1>11, <1>12

LEMMA PostStep ==
  ASSUME IInv, KernelPost, UNCHANGED env
  PROVE  IInv'
  <1>1. PICK e \in kernel \cup overflow :
          /\ posted' = Append(posted, e)
          /\ kernel' = kernel \ {e}
          /\ overflow' = overflow \ {e}
    BY DEF KernelPost
  <1>2. UNCHANGED <<handle, index, data, slab, sq, cqHead, stack, inner>>
    BY DEF KernelPost
  <1>3. e \in Sqes /\ posted \in Seq(Sqes) /\ Len(posted) \in Nat
    BY DEF IInv, TypeOK
  <1>4. /\ posted' \in Seq(Sqes) /\ Len(posted') = Len(posted) + 1
        /\ \A j \in 1 .. Len(posted) : posted'[j] = posted[j]
        /\ posted'[Len(posted) + 1] = e
    BY <1>1, <1>3, AppendIs
  <1>5. TypeOK'
    BY <1>1, <1>2, <1>4 DEF IInv, TypeOK
  <1>6. StackInv' /\ Processed' = Processed
    <2>1. Len(posted') \in Nat /\ Len(posted) <= Len(posted')
      BY <1>3, <1>4
    <2> QED BY <1>2, <2>1, StackBeside DEF IInv
  <1>7. RingInv'
    <2>1. RingInv
      BY DEF IInv
    <2>2. \A f \in kernel' \cup overflow' : f \in kernel \cup overflow /\ f # e
      BY <1>1
    <2>3. \A j \in 1 .. Len(posted') :
            \/ j \in 1 .. Len(posted) /\ posted'[j] = posted[j]
            \/ j = Len(posted) + 1 /\ posted'[j] = e
      BY <1>3, <1>4
    <2>4. \A j \in 1 .. Len(posted) : posted[j].op # e.op
      BY <2>1 DEF RingInv
    <2>5. \A i, j \in 1 .. Len(posted') : posted'[i].op = posted'[j].op => i = j
      <3>1. \A i, j \in 1 .. Len(posted) : posted[i].op = posted[j].op => i = j
        BY <2>1 DEF RingInv
      <3> QED BY <2>3, <2>4, <3>1
    <2>6. \A j \in 1 .. Len(posted') : \A f \in kernel' \cup overflow' :
            posted'[j].op # f.op
      <3>1. \A f \in kernel' \cup overflow' : f.op # e.op
        BY <2>1, <2>2 DEF RingInv
      <3>2. \A j \in 1 .. Len(posted) : \A f \in kernel' \cup overflow' :
              posted[j].op # f.op
        BY <2>1, <2>2 DEF RingInv
      <3> QED BY <2>3, <3>1, <3>2
    <2>7. \A i \in 1 .. Len(sq) : \A j \in 1 .. Len(posted') :
            sq[i].op # posted'[j].op
      <3>1. \A i \in 1 .. Len(sq) : sq[i].op # e.op
        BY <2>1 DEF RingInv
      <3>2. \A i \in 1 .. Len(sq) : \A j \in 1 .. Len(posted) :
              sq[i].op # posted[j].op
        BY <2>1 DEF RingInv
      <3> QED BY <2>3, <3>1, <3>2
    <2>8. \A j \in 1 .. Len(posted') : Pushed(handle, posted'[j].op)
      <3>1. Pushed(handle, e.op)
        BY <2>1 DEF RingInv
      <3>2. \A j \in 1 .. Len(posted) : Pushed(handle, posted[j].op)
        BY <2>1 DEF RingInv
      <3> QED BY <2>3, <3>1, <3>2
    <2>9. /\ \A i, j \in 1 .. Len(sq) : sq[i].op = sq[j].op => i = j
          /\ \A f, g \in kernel' \cup overflow' : f.op = g.op => f = g
          /\ \A i \in 1 .. Len(sq) : \A f \in kernel' \cup overflow' :
               sq[i].op # f.op
          /\ \A i \in 1 .. Len(sq) : Pushed(handle, sq[i].op)
          /\ \A f \in kernel' \cup overflow' : Pushed(handle, f.op)
      BY <2>1, <2>2 DEF RingInv
    <2> QED BY <1>2, <2>5, <2>6, <2>7, <2>8, <2>9 DEF RingInv
  <1>8. Pending' = Pending
    <2>1. Processed \in Nat /\ Processed <= Len(posted)
      BY ProcessedIs DEF IInv
    <2>2. {posted'[i] : i \in Processed + 1 .. Len(posted')}
            = {posted[i] : i \in Processed + 1 .. Len(posted)} \cup {e}
      <3>1. \A i \in Processed + 1 .. Len(posted') :
              \/ i \in Processed + 1 .. Len(posted) /\ posted'[i] = posted[i]
              \/ posted'[i] = e
        BY <1>3, <1>4, <2>1
      <3>2. \A i \in Processed + 1 .. Len(posted) :
              i \in Processed + 1 .. Len(posted') /\ posted'[i] = posted[i]
        BY <1>3, <1>4, <2>1
      <3>3. /\ Len(posted) + 1 \in Processed + 1 .. Len(posted')
            /\ posted'[Len(posted) + 1] = e
        BY <1>3, <1>4, <2>1
      <3> QED BY <3>1, <3>2, <3>3
    <2>3. kernel' \cup overflow' \cup {e} = kernel \cup overflow
      BY <1>1
    <2> QED BY <1>2, <1>6, <2>2, <2>3 DEF Pending
  <1>9. HandlesKept
    BY <1>2 DEF HandlesKept, IInv, TypeOK
  <1>10. PendingInv' /\ EntryInv' /\ AliveInv'
    BY <1>2, <1>8, <1>9, SlabSame DEF IInv
  <1> QED BY <1>5, <1>6, <1>7, <1>10 DEF IInv

LEMMA OverflowStep ==
  ASSUME IInv, KernelOverflow, UNCHANGED env
  PROVE  IInv'
  <1>1. PICK e \in kernel :
          kernel' = kernel \ {e} /\ overflow' = overflow \cup {e}
    BY DEF KernelOverflow
  <1>2. UNCHANGED <<handle, index, data, slab, sq, posted, cqHead, stack, inner>>
    BY DEF KernelOverflow
  <1>3. kernel' \cup overflow' = kernel \cup overflow
    BY <1>1
  <1>4. TypeOK'
    BY <1>1, <1>2 DEF IInv, TypeOK
  <1>5. StackInv' /\ Processed' = Processed
    <2>1. Len(posted') \in Nat /\ Len(posted) <= Len(posted')
      BY <1>2 DEF IInv, TypeOK
    <2> QED BY <1>2, <2>1, StackBeside DEF IInv
  <1>6. RingInv'
    BY <1>2, <1>3 DEF IInv, RingInv
  <1>7. Pending' = Pending
    BY <1>2, <1>3, <1>5 DEF Pending
  <1>8. HandlesKept
    BY <1>2 DEF HandlesKept, IInv, TypeOK
  <1>9. PendingInv' /\ EntryInv' /\ AliveInv'
    BY <1>2, <1>7, <1>8, SlabSame DEF IInv
  <1> QED BY <1>4, <1>5, <1>6, <1>9 DEF IInv

-----------------------------------------------------------------------------
(* Calls and returns.                                                      *)
LEMMA OneHazard ==
  ASSUME TypeOK PROVE ~(KernelBusy /\ CloseOnDrop)
  BY DEF TypeOK, KernelBusy, CloseOnDrop

LEMMA SameHandles ==
  ASSUME TypeOK, UNCHANGED handle PROVE HandlesKept
  BY DEF TypeOK, HandlesKept

LEMMA SubmitBusyStep ==
  ASSUME IInv, SubmitBusy, UNCHANGED env
  PROVE  IInv'
  <1>1. TypeOK /\ StackInv
    BY DEF IInv
  <1>2. /\ In("submit") /\ KernelBusy /\ stack' = Append(stack, TickFrame)
        /\ UNCHANGED <<handle, index, data, slab, sq, kernel, overflow, posted,
                       cqHead, inner>>
    BY DEF SubmitBusy, Busy, ring
  <1>3. Len(stack) = 2 /\ Submitting(stack[1], stack[2])
    BY <1>1, <1>2, InSubmit, OneHazard
  <1>4. /\ TickFrame \in Frames /\ Ticking(TickFrame) /\ TickFrame.head = cqHead
    BY <1>1, NewTick
  <1>5. stack \in Seq(Frames) /\ inner = "live"
    BY <1>1, <1>2, StackFacts DEF StackInv, In
  <1>6. /\ stack' \in Seq(Frames) /\ Len(stack') = 3
        /\ stack'[1] = stack[1] /\ stack'[2] = stack[2] /\ stack'[3] = TickFrame
    <2>1. /\ stack' \in Seq(Frames) /\ Len(stack') = Len(stack) + 1
          /\ \A i \in 1 .. Len(stack) : stack'[i] = stack[i]
          /\ stack'[Len(stack) + 1] = TickFrame
      BY <1>2, <1>4, <1>5, AppendIs
    <2> QED BY <1>3, <2>1
  <1>7. Submitting(stack[1], stack[2])' /\ Ticking(stack[3])' /\ KernelBusy'
    BY <1>2, <1>3, <1>4, <1>6 DEF Submitting, Serving, Ticking, KernelBusy
  <1>8. StackInv'
    BY <1>1, <1>2, <1>5, <1>6, <1>7 DEF StackInv
  <1>9. Processed' = Processed
    BY <1>2, <1>3, <1>4, <1>6 DEF Processed, Submitting, Serving
  <1> QED BY <1>1, <1>2, <1>8, <1>9, SameHandles, StackStep DEF TypeOK

LEMMA SubmitErrStep ==
  ASSUME IInv, SubmitErr, UNCHANGED env
  PROVE  IInv'
  <1>1. TypeOK /\ StackInv
    BY DEF IInv
  <1>2. /\ In("submit") /\ stack' = Front(Pop)
        /\ handle' = IF Top.op # NoOp THEN [handle EXCEPT ![Top.op] = "refused"]
                                      ELSE handle
        /\ UNCHANGED <<index, data, slab, sq, kernel, overflow, posted, cqHead,
                       inner>>
    BY DEF SubmitErr, ring
  <1>3. /\ stack # << >> /\ Len(stack) \in 1 .. 3 /\ Top = stack[Len(stack)]
        /\ Pop \in Seq(Frames) /\ Len(Pop) = Len(stack) - 1
        /\ \A i \in 1 .. Len(stack) - 1 : Pop[i] = stack[i]
    BY <1>1, <1>2, StackFacts DEF In
  <1>4. /\ Len(stack) \in {2, 3}
        /\ Top.op = NoOp \/ (Top.op \in Ops /\ handle[Top.op] = "new")
        /\ Len(stack) = 2 => stack[1].fn # "tick"
        /\ Len(stack) = 3 => Ticking(stack[1])
    <2>1. CASE Len(stack) = 2 /\ Submitting(stack[1], stack[2])
      BY <1>3, <2>1 DEF Submitting, Serving
    <2>2. CASE /\ Len(stack) = 3 /\ Ticking(stack[1])
               /\ Serving(stack[2], "with_data")
               /\ Submitting(stack[2], stack[3])
      BY <1>3, <2>2 DEF Submitting, Serving
    <2> QED BY <1>1, <1>2, <2>1, <2>2, InSubmit
  <1>5. HandlesKept
    BY <1>1, <1>2, <1>4 DEF HandlesKept, TypeOK
  <1>6. /\ Front(Pop) \in Seq(Frames) /\ Len(Front(Pop)) = Len(Pop) - 1
        /\ \A i \in 1 .. Len(Pop) - 1 : Front(Pop)[i] = Pop[i]
    <2>1. Pop # << >>
      BY <1>3, <1>4
    <2> QED BY <1>3, <2>1, PopIs
  <1>7. /\ stack' \in Seq(Frames) /\ Len(stack') = Len(stack) - 2
        /\ Len(stack) = 3 => stack'[1] = stack[1]
    BY <1>2, <1>3, <1>4, <1>6
  <1>8. Len(stack) = 3 => Ticking(stack[1])'
    BY <1>2, <1>4, <1>7 DEF Ticking
  <1>9. StackInv'
    <2>1. Len(stack') \in {0, 1} /\ (Len(stack') = 1 => Len(stack) = 3)
      BY <1>4, <1>7
    <2>2. Len(stack') = 1 => Ticking(stack[1])'
      BY <2>1, <1>7, <1>8 DEF Ticking
    <2>3. inner' = "live" /\ cqHead' <= Len(posted')
      BY <1>1, <1>2, <1>4 DEF StackInv
    <2>4. Len(stack') \in 0 .. 3 /\ Len(stack') # 2 /\ Len(stack') # 3
      BY <2>1
    <2> QED BY <1>7, <2>2, <2>3, <2>4 DEF StackInv
  <1>10. Processed' = Processed
    BY <1>2, <1>4, <1>7 DEF Processed, Ticking
  <1> QED BY <1>1, <1>2, <1>5, <1>9, <1>10, StackStep DEF TypeOK

LEMMA CallStep ==
  ASSUME IInv, UserCode, inner = "live", NEW o \in Ops \cup {NoOp},
         NEW fn \in {"drive", "with_data"},
         fn = "drive" => o = NoOp,
         fn = "with_data" => o \in Ops /\ handle[o] = "new",
         stack' = <<Frame(fn, o, 0, 0), Frame("submit", o, 0, 0)>>,
         UNCHANGED <<handle, index, data, slab, sq, kernel, overflow, posted,
                     cqHead, inner, env>>
  PROVE  IInv'
  <1>1. TypeOK /\ StackInv
    BY DEF IInv
  <1> DEFINE a == Frame(fn, o, 0, 0)
             b == Frame("submit", o, 0, 0)
  <1>2. /\ a \in Frames /\ a.fn = fn /\ a.op = o
        /\ b \in Frames /\ b.fn = "submit" /\ b.op = o
    BY FrameIs
  <1> HIDE DEF a, b
  <1>3. stack' = <<a, b>>
    BY DEF a, b
  <1>4. /\ stack' \in Seq(Frames) /\ Len(stack') = 2
        /\ stack'[1] = a /\ stack'[2] = b
    BY <1>2, <1>3, Tuples
  <1>5. Submitting(stack[1], stack[2])'
    BY <1>2, <1>4 DEF Submitting, Serving
  <1>6. StackInv'
    BY <1>1, <1>4, <1>5 DEF StackInv
  <1>7. Processed' = Processed
    BY <1>1, <1>2, <1>4, UserCodeStack DEF Processed
  <1> QED BY <1>1, <1>6, <1>7, SameHandles, StackStep DEF TypeOK

(* The two ways into the tick from the bottom of the stack.                *)
LEMMA ToTick ==
  ASSUME IInv, In("drive") \/ In("wait"), stack' = <<TickFrame>>,
         UNCHANGED <<handle, index, data, slab, sq, kernel, overflow, posted,
                     cqHead, inner, env>>
  PROVE  IInv'
  <1>1. TypeOK /\ StackInv
    BY DEF IInv
  <1>2. Len(stack) = 1 /\ stack[1].fn # "tick" /\ inner = "live"
    BY <1>1, InBottom, StackFacts DEF In
  <1>3. TickFrame \in Frames /\ Ticking(TickFrame) /\ TickFrame.head = cqHead
    BY <1>1, NewTick
  <1>4. stack' \in Seq(Frames) /\ Len(stack') = 1 /\ stack'[1] = TickFrame
    BY <1>3, Tuples
  <1>5. Ticking(stack[1])'
    BY <1>3, <1>4 DEF Ticking
  <1>6. StackInv'
    BY <1>1, <1>2, <1>4, <1>5 DEF StackInv
  <1>7. Processed' = Processed
    BY <1>2, <1>3, <1>4, <1>5 DEF Processed, Ticking
  <1> QED BY <1>1, <1>6, <1>7, SameHandles, StackStep DEF TypeOK

LEMMA TickEndStep ==
  ASSUME IInv, TickEnd, UNCHANGED env
  PROVE  IInv'
  <1>1. TypeOK /\ StackInv
    BY DEF IInv
  <1>2. /\ In("tick") /\ cqHead' = Top.head /\ stack' = Pop
        /\ UNCHANGED <<handle, index, data, slab, sq, kernel, overflow, posted,
                       inner>>
    BY DEF TickEnd
  <1>3. /\ stack # << >> /\ Len(stack) \in 1 .. 3 /\ Top = stack[Len(stack)]
        /\ Top \in Frames /\ inner = "live"
        /\ Pop \in Seq(Frames) /\ Len(Pop) = Len(stack) - 1
        /\ \A i \in 1 .. Len(stack) - 1 : Pop[i] = stack[i]
    BY <1>1, <1>2, StackFacts DEF In
  <1>4. cqHead' \in Nat /\ Top.tail \in Nat /\ Len(posted) \in Nat
    <2>1. Top.head \in Nat /\ Top.tail \in Nat
      BY <1>3 DEF Frames
    <2> QED BY <1>1, <1>2, <2>1 DEF TypeOK
  <1>5. CASE Len(stack) = 1
    <2>1. Ticking(stack[1])
      BY <1>1, <1>2, <1>5, InTick
    <2>2. stack' \in Seq(Frames) /\ Len(stack') = 0
      BY <1>2, <1>3, <1>5
    <2>3. cqHead' <= Len(posted)
      BY <1>2, <1>3, <1>4, <1>5, <2>1 DEF Ticking
    <2>4. StackInv'
      BY <1>2, <2>2, <2>3 DEF StackInv
    <2>5. Processed' = Processed
      BY <1>2, <1>3, <1>5, <2>1, <2>2 DEF Processed, Ticking
    <2> QED BY <1>1, <1>2, <1>4, <2>4, <2>5, SameHandles, StackStep
  <1>6. CASE Len(stack) = 3
    <2>1. /\ Submitting(stack[1], stack[2]) /\ Ticking(stack[3])
          /\ stack[1].fn # "tick"
      BY <1>1, <1>2, <1>6, InTick
    <2>2. /\ stack' \in Seq(Frames) /\ Len(stack') = 2
          /\ stack'[1] = stack[1] /\ stack'[2] = stack[2]
      BY <1>2, <1>3, <1>6
    <2>3. cqHead' <= Len(posted)
      BY <1>2, <1>3, <1>4, <1>6, <2>1 DEF Ticking
    <2>4. Submitting(stack[1], stack[2])'
      BY <1>2, <2>1, <2>2 DEF Submitting, Serving
    <2>5. StackInv'
      <3>1. inner' = "live" /\ cqHead' <= Len(posted')
        BY <1>2, <1>3, <2>3
      <3>2. /\ stack' \in Seq(Frames) /\ Len(stack') \in 0 .. 3
            /\ Len(stack') # 1 /\ Len(stack') # 3
        BY <2>2
      <3> QED BY <2>4, <3>1, <3>2 DEF StackInv
    <2>6. Processed' = Processed
      BY <1>2, <1>3, <1>6, <2>1, <2>2 DEF Processed
    <2> QED BY <1>1, <1>2, <1>4, <2>5, <2>6, SameHandles, StackStep
  <1> QED BY <1>1, <1>2, <1>5, <1>6, InTick

LEMMA SubmitOkStep ==
  ASSUME IInv, SubmitOk, UNCHANGED env
  PROVE  IInv'
  <1>1. TypeOK /\ StackInv
    BY DEF IInv
  <1>2. PICK n \in 0 .. Len(sq) :
          /\ sq # << >> => n > 0
          /\ kernel' = kernel \cup ToSet(SubSeq(sq, 1, n))
          /\ sq' = SubSeq(sq, n + 1, Len(sq))
    BY DEF SubmitOk
  <1>3. /\ In("submit") /\ stack' = Pop
        /\ UNCHANGED <<handle, index, data, slab, overflow, posted, cqHead, inner>>
    BY DEF SubmitOk
  <1>4. sq \in Seq(Sqes) /\ Len(sq) \in Nat /\ SQSize \in Nat \ {0}
    BY <1>1, DriverAssumption DEF TypeOK
  <1>5. /\ kernel' = kernel \cup {sq[i] : i \in 1 .. n}
        /\ sq' \in Seq(Sqes) /\ Len(sq') = Len(sq) - n
        /\ \A i \in 1 .. Len(sq) - n : sq'[i] = sq[n + i]
    BY <1>2, <1>4, SplitIs
  <1>6. Len(sq') < SQSize
    <2>1. Len(sq) = 0 \/ n > 0
      BY <1>2, <1>4
    <2>2. Len(sq) <= SQSize
      BY <1>1 DEF TypeOK
    <2> QED BY <1>4, <1>5, <2>1, <2>2
  <1>7. /\ stack # << >> /\ Len(stack) \in 1 .. 3 /\ inner = "live"
        /\ Pop \in Seq(Frames) /\ Len(Pop) = Len(stack) - 1
        /\ \A i \in 1 .. Len(stack) - 1 : Pop[i] = stack[i]
    BY <1>1, <1>3, StackFacts DEF In
  <1>8. CASE Len(stack) = 2
    <2>1. Submitting(stack[1], stack[2])
      BY <1>1, <1>3, <1>8, InSubmit
    <2>2. stack' \in Seq(Frames) /\ Len(stack') = 1 /\ stack'[1] = stack[1]
      BY <1>3, <1>7, <1>8
    <2>3. stack'[1].fn = "drive" \/ Pushing(stack[1])'
      BY <1>1, <1>3, <1>6, <2>1, <2>2 DEF Submitting, Serving, Pushing, StackInv
    <2>4. StackInv'
      BY <1>1, <1>3, <2>2, <2>3, <1>7 DEF StackInv
    <2>5. Processed' = Processed
      BY <1>3, <1>8, <2>1, <2>2 DEF Processed, Submitting, Serving
    <2> QED BY <1>3, <1>5, <2>4, <2>5, Consume
  <1>9. CASE Len(stack) = 3
    <2>1. /\ CloseOnDrop /\ Ticking(stack[1])
          /\ Serving(stack[2], "with_data")
      BY <1>1, <1>3, <1>9, InSubmit
    <2>2. /\ stack' \in Seq(Frames) /\ Len(stack') = 2
          /\ stack'[1] = stack[1] /\ stack'[2] = stack[2]
      BY <1>3, <1>7, <1>9
    <2>3. Ticking(stack[1])' /\ CloseOnDrop' /\ Pushing(stack[2])'
      BY <1>1, <1>3, <1>6, <2>1, <2>2
         DEF Serving, Pushing, StackInv, Ticking, CloseOnDrop
    <2>4. StackInv'
      BY <1>1, <1>3, <2>2, <2>3, <1>7 DEF StackInv
    <2>5. Processed' = Processed
      BY <1>3, <1>9, <2>1, <2>2 DEF Processed, Ticking
    <2> QED BY <1>3, <1>5, <2>4, <2>5, Consume
  <1> QED BY <1>1, <1>3, <1>8, <1>9, InSubmit

LEMMA ParkStep ==
  ASSUME IInv, Park, UNCHANGED env
  PROVE  IInv'
  <1>1. TypeOK /\ StackInv
    BY DEF IInv
  <1>2. /\ UserCode /\ inner = "live"
        /\ UNCHANGED <<handle, index, data, slab, overflow, posted, cqHead, inner>>
    BY DEF Park
  <1>3. CASE Busy
    <2>1. UNCHANGED <<sq, kernel, stack>>
      BY <1>3 DEF Park
    <2>2. StackInv' /\ Processed' = Processed
      <3>1. Len(posted') \in Nat /\ Len(posted) <= Len(posted')
        BY <1>1, <1>2 DEF TypeOK
      <3> QED BY <1>1, <1>2, <2>1, <3>1, StackBeside
    <2> QED BY <1>1, <1>2, <2>1, <2>2, SameHandles, StackStep DEF TypeOK
  <1>4. CASE ~Busy
    <2> DEFINE w == Frame("wait", NoOp, 0, 0)
    <2>1. kernel' = kernel \cup ToSet(sq) /\ sq' = << >> /\ stack' = <<w>>
      BY <1>4 DEF Park
    <2>2. w \in Frames /\ w.fn = "wait"
      BY FrameIs
    <2> HIDE DEF w
    <2>3. stack' \in Seq(Frames) /\ Len(stack') = 1 /\ stack'[1] = w
      BY <2>1, <2>2, Tuples
    <2>4. StackInv'
      BY <1>1, <1>2, <2>2, <2>3 DEF StackInv
    <2>5. Processed' = Processed
      BY <1>1, <1>2, <2>2, <2>3, UserCodeStack DEF Processed
    <2>6. sq \in Seq(Sqes) /\ Len(sq) \in Nat /\ Len(sq) \in 0 .. Len(sq)
      BY <1>1 DEF TypeOK
    <2>7. /\ kernel' = kernel \cup {sq[i] : i \in 1 .. Len(sq)}
          /\ sq' \in Seq(Sqes) /\ Len(sq') = Len(sq) - Len(sq)
          /\ \A i \in 1 .. Len(sq) - Len(sq) : sq'[i] = sq[Len(sq) + i]
      <3>1. DOMAIN sq = 1 .. Len(sq)
        BY <2>6
      <3>2. ToSet(sq) = {sq[i] : i \in 1 .. Len(sq)}
        BY <3>1 DEF ToSet
      <3>3. << >> \in Seq(Sqes) /\ Len(<< >>) = 0
        OBVIOUS
      <3>4. Len(sq) - Len(sq) = 0
        BY <2>6
      <3>5. 1 .. 0 = {}
        OBVIOUS
      <3> QED BY <2>1, <3>2, <3>3, <3>4, <3>5
    <2> QED BY <1>2, <2>4, <2>5, <2>6, <2>7, Consume
  <1> QED BY <1>3, <1>4

-----------------------------------------------------------------------------
(* Submitting an operation: its entry is inserted, then pushed.            *)
LEMMA PushStep ==
  ASSUME IInv, NEW o \in Ops, handle[o] = "new", inner = "live",
         Len(sq) < SQSize, NEW keep \in BOOLEAN, InsertAndPush(o, keep),
         data' = [data EXCEPT ![o] = IF keep THEN "op" ELSE "slab"],
         StackInv', Processed' = Processed,
         UNCHANGED <<kernel, overflow, posted, cqHead, inner, env>>
  PROVE  IInv'
  <1> DEFINE life == IF keep THEN "Submitted" ELSE "Ignored"
             hand == IF keep THEN "alive" ELSE "dropped"
  <1>1. PICK k \in Keys :
          /\ slab[k] = Vacant
          /\ slab' = [slab EXCEPT ![k] = Entry(life, o)]
          /\ index' = [index EXCEPT ![o] = k]
          /\ handle' = [handle EXCEPT ![o] = hand]
          /\ sq' = Append(sq, [key |-> k, op |-> o])
    BY DEF InsertAndPush
  <1>2. /\ TypeOK /\ RingInv /\ PendingInv /\ EntryInv /\ AliveInv
        /\ life \in Lives /\ life # "Completed"
    BY DEF IInv, Lives
  <1> DEFINE e == [key |-> k, op |-> o]
  <1>3. e \in Sqes /\ e.key = k /\ e.op = o
    BY SqeIs
  <1> HIDE DEF e
  <1>4. /\ sq' \in Seq(Sqes) /\ Len(sq) \in Nat /\ Len(sq') = Len(sq) + 1
        /\ \A i \in 1 .. Len(sq) : sq'[i] = sq[i]
        /\ sq'[Len(sq) + 1] = e
    <2>1. sq' = Append(sq, e) /\ sq \in Seq(Sqes)
      BY <1>1, <1>2 DEF e, TypeOK
    <2> QED BY <1>3, <2>1, AppendIs
  <1>5. \A i \in 1 .. Len(sq') : \/ i \in 1 .. Len(sq) /\ sq'[i] = sq[i]
                                 \/ i = Len(sq) + 1 /\ sq'[i] = e
    BY <1>4
  <1>6. /\ slab' \in [Keys -> SlabValues] /\ slab'[k] = Entry(life, o)
        /\ \A j \in Keys : j # k => slab'[j] = slab[j]
        /\ slab'[k] # Vacant /\ slab'[k].op = o /\ slab'[k].life = life
    BY <1>1, <1>2, SlabValuesAre DEF TypeOK
  <1>7. /\ index'[o] = k /\ \A p \in Ops : p # o => index'[p] = index[p]
        /\ handle'[o] = hand /\ \A p \in Ops : p # o => handle'[p] = handle[p]
        /\ data'[o] = (IF keep THEN "op" ELSE "slab")
        /\ \A p \in Ops : p # o => data'[p] = data[p]
    BY <1>1, <1>2 DEF TypeOK
  <1> HIDE DEF life
  <1>8. TypeOK'
    <2>1. Len(sq') <= SQSize
      BY <1>4, DriverAssumption
    <2>2. index' \in [Ops -> Keys \cup {NoKey}]
      BY <1>1, <1>2 DEF TypeOK
    <2>3. handle' \in [Ops -> {"new", "alive", "dropped", "ready", "refused"}]
      BY <1>1, <1>2 DEF TypeOK
    <2>4. data' \in [Ops -> {"caller", "op", "slab", "freed"}]
      BY <1>2 DEF TypeOK
    <2> QED BY <1>2, <1>4, <1>6, <2>1, <2>2, <2>3, <2>4 DEF TypeOK
  <1>9. \A p : Pushed(handle, p) => p # o /\ Pushed(handle', p)
    BY <1>7 DEF Pushed
  <1>10. RingInv'
    <2>1. Pushed(handle', o)
      BY <1>7 DEF Pushed
    <2>2. /\ \A i \in 1 .. Len(sq) : sq[i].op # o
          /\ \A j \in 1 .. Len(posted) : posted[j].op # o
          /\ \A f \in kernel \cup overflow : f.op # o
      BY <1>2, <1>9 DEF RingInv
    <2>3. \A i, j \in 1 .. Len(sq') : sq'[i].op = sq'[j].op => i = j
      <3>1. \A i, j \in 1 .. Len(sq) : sq[i].op = sq[j].op => i = j
        BY <1>2 DEF RingInv
      <3> QED BY <1>3, <1>5, <2>2, <3>1
    <2>4. \A i \in 1 .. Len(sq') : \A f \in kernel \cup overflow : sq'[i].op # f.op
      <3>1. \A i \in 1 .. Len(sq) : \A f \in kernel \cup overflow : sq[i].op # f.op
        BY <1>2 DEF RingInv
      <3> QED BY <1>3, <1>5, <2>2, <3>1
    <2>5. \A i \in 1 .. Len(sq') : \A j \in 1 .. Len(posted) :
            sq'[i].op # posted[j].op
      <3>1. \A i \in 1 .. Len(sq) : \A j \in 1 .. Len(posted) :
              sq[i].op # posted[j].op
        BY <1>2 DEF RingInv
      <3> QED BY <1>3, <1>5, <2>2, <3>1
    <2>6. /\ \A i \in 1 .. Len(sq) : Pushed(handle', sq[i].op)
          /\ \A j \in 1 .. Len(posted) : Pushed(handle', posted[j].op)
          /\ \A f \in kernel \cup overflow : Pushed(handle', f.op)
      BY <1>2, <1>9 DEF RingInv
    <2>7. \A i \in 1 .. Len(sq') : Pushed(handle', sq'[i].op)
      BY <1>3, <1>5, <2>1, <2>6
    <2>8. /\ \A i, j \in 1 .. Len(posted) : posted[i].op = posted[j].op => i = j
          /\ \A f, g \in kernel \cup overflow : f.op = g.op => f = g
          /\ \A j \in 1 .. Len(posted) : \A f \in kernel \cup overflow :
               posted[j].op # f.op
      BY <1>2 DEF RingInv
    <2> QED BY <2>3, <2>4, <2>5, <2>6, <2>7, <2>8 DEF RingInv
  <1>11. Pending' = Pending \cup {e}
    <2>1. {sq'[i] : i \in 1 .. Len(sq')} = {sq[i] : i \in 1 .. Len(sq)} \cup {e}
      <3>1. \A i \in 1 .. Len(sq) : i \in 1 .. Len(sq') /\ sq'[i] = sq[i]
        BY <1>4
      <3>2. Len(sq) + 1 \in 1 .. Len(sq') /\ sq'[Len(sq) + 1] = e
        BY <1>4
      <3> QED BY <1>5, <3>1, <3>2
    <2> QED BY <2>1 DEF Pending
  <1>12. PendingInv'
    <2>1. \A f \in Pending : f.key # k /\ f.key \in Keys
      <3>1. \A f \in Pending : slab[f.key] # Vacant
        BY <1>2 DEF PendingInv
      <3>2. Pending \subseteq Sqes
        BY PendingType DEF IInv
      <3>3. \A f \in Sqes : f.key \in Keys
        BY DEF Sqes
      <3> QED BY <1>1, <3>1, <3>2, <3>3
    <2>2. \A f \in Pending : slab'[f.key] = slab[f.key]
      BY <1>6, <2>1
    <2> QED BY <1>2, <1>3, <1>6, <1>11, <2>2 DEF PendingInv
  <1>13. EntryInv'
    <2> SUFFICES ASSUME NEW j \in Keys, slab'[j] # Vacant
                 PROVE  /\ index'[slab'[j].op] = j
                        /\ IF slab'[j].life = "Ignored"
                             THEN /\ handle'[slab'[j].op] = "dropped"
                                  /\ data'[slab'[j].op] = "slab"
                             ELSE handle'[slab'[j].op] = "alive"
                        /\ slab'[j].life # "Completed" =>
                             \E f \in Pending' : f.key = j /\ f.op = slab'[j].op
      BY DEF EntryInv
    <2>1. CASE j = k
      BY <1>3, <1>6, <1>7, <1>11, <2>1 DEF life
    <2>2. CASE j # k
      <3>1. slab'[j] = slab[j]
        BY <1>6, <2>2
      <3>2. slab[j].op \in Ops /\ slab[j].op # o
        BY <1>2, <3>1, SlabValuesAre DEF TypeOK, EntryInv
      <3> QED BY <1>2, <1>7, <1>11, <3>1, <3>2 DEF EntryInv
    <2> QED BY <2>1, <2>2
  <1>14. AliveInv'
    <2> SUFFICES ASSUME NEW p \in Ops, handle'[p] = "alive"
                 PROVE  /\ inner # "dropped" /\ index'[p] \in Keys
                        /\ data'[p] = "op"
                        /\ slab'[index'[p]] # Vacant /\ slab'[index'[p]].op = p
      BY DEF AliveInv
    <2>1. CASE p = o
      BY <1>6, <1>7, <2>1
    <2>2. CASE p # o
      BY <1>1, <1>2, <1>6, <1>7, <2>2 DEF AliveInv
    <2> QED BY <2>1, <2>2
  <1> QED BY <1>8, <1>10, <1>12, <1>13, <1>14 DEF IInv

-----------------------------------------------------------------------------
(* tick: the completion it is about to process is the only pending one of  *)
(* its operation and of its key.                                           *)
LEMMA ThisEvent ==
  ASSUME IInv, In("tick"), Top.head < Top.tail
  PROVE  /\ Event \in Pending /\ Event \in Sqes /\ inner = "live"
         /\ Processed = Top.head /\ Processed + 1 \in 1 .. Len(posted)
         /\ Event = posted[Processed + 1]
         /\ slab[Event.key] # Vacant /\ slab[Event.key].op = Event.op
         /\ slab[Event.key].life # "Completed"
  <1>1. TypeOK /\ StackInv /\ PendingInv
    BY DEF IInv
  <1>2. /\ Len(stack) \in 1 .. 3 /\ inner = "live"
        /\ Top = stack[Len(stack)] /\ Top \in Frames
    BY <1>1, StackFacts DEF In
  <1>3. Processed = Top.head /\ Ticking(Top)
    BY <1>1, <1>2, InTick DEF Processed, Ticking
  <1>4. Top.head \in Nat /\ Top.tail \in Nat /\ Len(posted) \in Nat
    BY <1>1, <1>2 DEF Frames, TypeOK
  <1>5. Top.head + 1 \in 1 .. Len(posted)
        /\ Processed + 1 \in Processed + 1 .. Len(posted)
    BY <1>3, <1>4 DEF Ticking
  <1>6. Event = posted[Processed + 1]
    BY <1>3 DEF Event
  <1>7. Event \in Pending
    BY <1>5, <1>6 DEF Pending
  <1>8. Event \in Sqes
    BY <1>1, <1>7, PendingType
  <1> QED BY <1>1, <1>2, <1>3, <1>5, <1>6, <1>7, <1>8 DEF PendingInv

LEMMA EventDone ==
  ASSUME IInv, In("tick"), Top.head < Top.tail,
         Processed' = Processed + 1, UNCHANGED <<sq, kernel, overflow, posted>>
  PROVE  Pending' = Pending \ {Event}
  <1>1. TypeOK /\ StackInv /\ RingInv
    BY DEF IInv
  <1>2. /\ Processed + 1 \in 1 .. Len(posted) /\ Event = posted[Processed + 1]
    BY ThisEvent
  <1>3. Processed \in Nat /\ Len(posted) \in Nat
    BY <1>1, ProcessedIs
  <1>4. \A i \in 1 .. Len(sq) : sq[i] # Event
    BY <1>1, <1>2 DEF RingInv
  <1>5. \A f \in kernel \cup overflow : f # Event
    BY <1>1, <1>2 DEF RingInv
  <1>6. \A i \in (Processed + 1) + 1 .. Len(posted) :
          posted[i] # Event /\ i \in Processed + 1 .. Len(posted)
    <2> SUFFICES ASSUME NEW i \in (Processed + 1) + 1 .. Len(posted)
                 PROVE  posted[i] # Event /\ i \in Processed + 1 .. Len(posted)
      OBVIOUS
    <2>1. i \in 1 .. Len(posted) /\ i # Processed + 1
          /\ i \in Processed + 1 .. Len(posted)
      BY <1>3
    <2> QED BY <1>1, <1>2, <2>1 DEF RingInv
  <1>7. \A i \in Processed + 1 .. Len(posted) :
          posted[i] = Event \/ i \in (Processed + 1) + 1 .. Len(posted)
    <2> SUFFICES ASSUME NEW i \in Processed + 1 .. Len(posted), i # Processed + 1
                 PROVE  i \in (Processed + 1) + 1 .. Len(posted)
      BY <1>2
    <2> QED BY <1>3
  <1> DEFINE A == {sq[i] : i \in 1 .. Len(sq)} \cup kernel \cup overflow
  <1>8. Event \notin A
    BY <1>4, <1>5
  <1>9. {posted[i] : i \in (Processed + 1) + 1 .. Len(posted)}
          = {posted[i] : i \in Processed + 1 .. Len(posted)} \ {Event}
    BY <1>6, <1>7
  <1>10. Pending = A \cup {posted[i] : i \in Processed + 1 .. Len(posted)}
    BY DEF Pending
  <1>11. Pending' = A \cup {posted[i] : i \in (Processed + 1) + 1 .. Len(posted)}
    BY DEF Pending
  <1> HIDE DEF A
  <1> QED BY <1>8, <1>9, <1>10, <1>11

LEMMA PendingUnique ==
  ASSUME IInv, NEW f \in Pending, NEW g \in Pending, f.op = g.op
  PROVE  f = g
  <1>1. RingInv
    BY DEF IInv
  <1>2. Processed \in Nat /\ Len(posted) \in Nat
    BY ProcessedIs DEF IInv
  <1>3. \A i \in Processed + 1 .. Len(posted) : i \in 1 .. Len(posted)
    BY <1>2
  <1>4. \A h \in Pending :
          \/ \E i \in 1 .. Len(sq) : h = sq[i]
          \/ h \in kernel \cup overflow
          \/ \E j \in 1 .. Len(posted) : h = posted[j]
    BY <1>3 DEF Pending
  <1> QED BY <1>1, <1>4 DEF RingInv

LEMMA OnlyEventOfKey ==
  ASSUME IInv, In("tick"), Top.head < Top.tail, NEW f \in Pending,
         f.key = Event.key
  PROVE  f = Event
  <1>1. /\ Event \in Pending /\ slab[Event.key].op = Event.op /\ inner = "live"
    BY ThisEvent
  <1>2. slab[f.key].op = f.op
    BY <1>1 DEF IInv, PendingInv
  <1> QED BY <1>1, <1>2, PendingUnique

(* A completion that finds the Op waiting or not yet polled.               *)
LEMMA CompleteSlab ==
  ASSUME IInv, In("tick"), Top.head < Top.tail,
         slab[Event.key].life \in {"Submitted", "Waiting"},
         slab' = [slab EXCEPT ![Event.key] = Entry("Completed", @.op)],
         Pending' = Pending \ {Event},
         UNCHANGED <<handle, index, data, inner>>
  PROVE  slab' \in [Keys -> SlabValues] /\ PendingInv' /\ EntryInv' /\ AliveInv'
  <1> DEFINE k == Event.key
             o == Event.op
  <1>1. /\ TypeOK /\ StackInv /\ PendingInv /\ EntryInv /\ AliveInv
    BY DEF IInv
  <1>2. /\ k \in Keys /\ o \in Ops /\ slab[k] # Vacant /\ slab[k].op = o
        /\ Event \in Pending /\ inner = "live"
    BY ThisEvent DEF Sqes
  <1>3. \A f \in Pending' : f \in Pending /\ f.key \in Keys /\ f.key # k
    <2>1. \A f \in Pending : f.key \in Keys
      BY <1>1, PendingType DEF Sqes
    <2>2. \A f \in Pending : f.key = k => f = Event
      BY OnlyEventOfKey
    <2> QED BY <2>1, <2>2
  <1> HIDE DEF k, o
  <1>4. slab' = [slab EXCEPT ![k] = Entry("Completed", o)]
    <2>1. slab' = [slab EXCEPT ![k] = Entry("Completed", slab[k].op)]
      BY <1>1, <1>2 DEF k, TypeOK
    <2> QED BY <1>2, <2>1
  <1>5. /\ slab' \in [Keys -> SlabValues]
        /\ slab'[k] # Vacant /\ slab'[k].op = o /\ slab'[k].life = "Completed"
        /\ \A j \in Keys : j # k => slab'[j] = slab[j]
    <2>1. "Completed" \in Lives
      BY DEF Lives
    <2>2. /\ Entry("Completed", o) \in SlabValues
          /\ Entry("Completed", o) # Vacant
          /\ Entry("Completed", o).life = "Completed"
          /\ Entry("Completed", o).op = o
      BY <1>2, <2>1, SlabValuesAre
    <2>3. slab \in [Keys -> SlabValues]
      BY <1>1 DEF TypeOK
    <2> QED BY <1>2, <1>4, <2>2, <2>3
  <1>6. PendingInv'
    BY <1>1, <1>2, <1>3, <1>5 DEF PendingInv
  <1>7. EntryInv'
    <2> SUFFICES ASSUME NEW j \in Keys, slab'[j] # Vacant
                 PROVE  /\ index[slab'[j].op] = j
                        /\ IF slab'[j].life = "Ignored"
                             THEN /\ handle[slab'[j].op] = "dropped"
                                  /\ data[slab'[j].op] = "slab"
                             ELSE handle[slab'[j].op] = "alive"
                        /\ slab'[j].life # "Completed" =>
                             \E f \in Pending' : f.key = j /\ f.op = slab'[j].op
      BY DEF EntryInv
    <2>1. CASE j = k
      <3>1. index[o] = k /\ handle[o] = "alive"
        BY <1>1, <1>2 DEF EntryInv, k
      <3> QED BY <1>5, <2>1, <3>1
    <2>2. CASE j # k
      <3>1. slab'[j] = slab[j]
        BY <1>5, <2>2
      <3>2. slab[j].life # "Completed" =>
              \E f \in Pending' : f.key = j /\ f.op = slab[j].op
        BY <1>1, <2>2, <3>1 DEF EntryInv, k
      <3> QED BY <1>1, <3>1, <3>2 DEF EntryInv
    <2> QED BY <2>1, <2>2
  <1>8. AliveInv'
    <2> SUFFICES ASSUME NEW p \in Ops, handle[p] = "alive"
                 PROVE  /\ inner # "dropped" /\ index[p] \in Keys
                        /\ data[p] = "op"
                        /\ slab'[index[p]] # Vacant /\ slab'[index[p]].op = p
      BY DEF AliveInv
    <2>1. /\ inner # "dropped" /\ index[p] \in Keys /\ data[p] = "op"
          /\ slab[index[p]] # Vacant /\ slab[index[p]].op = p
      BY <1>1 DEF AliveInv
    <2> QED BY <1>2, <1>5, <2>1
  <1> QED BY <1>5, <1>6, <1>7, <1>8

(* A completion of an ignored operation: its entry goes.                   *)
LEMMA IgnoredSlab ==
  ASSUME IInv, In("tick"), Top.head < Top.tail,
         slab[Event.key].life = "Ignored",
         slab' = [slab EXCEPT ![Event.key] = Vacant],
         data' = [data EXCEPT ![slab[Event.key].op] = "freed"],
         Pending' = Pending \ {Event},
         UNCHANGED <<handle, index, inner>>
  PROVE  /\ slab' \in [Keys -> SlabValues]
         /\ data' \in [Ops -> {"caller", "op", "slab", "freed"}]
         /\ PendingInv' /\ EntryInv' /\ AliveInv'
  <1> DEFINE k == Event.key
             o == Event.op
  <1>1. /\ TypeOK /\ StackInv /\ PendingInv /\ EntryInv /\ AliveInv
    BY DEF IInv
  <1>2. /\ k \in Keys /\ o \in Ops /\ slab[k] # Vacant /\ slab[k].op = o
        /\ Event \in Pending /\ inner = "live"
    BY ThisEvent DEF Sqes
  <1>3. \A f \in Pending' : f \in Pending /\ f.key \in Keys /\ f.key # k
    <2>1. \A f \in Pending : f.key \in Keys
      BY <1>1, PendingType DEF Sqes
    <2>2. \A f \in Pending : f.key = k => f = Event
      BY OnlyEventOfKey
    <2> QED BY <2>1, <2>2
  <1>4. index[o] = k /\ handle[o] = "dropped"
    BY <1>1, <1>2 DEF EntryInv
  <1> HIDE DEF k, o
  <1>5. slab' = [slab EXCEPT ![k] = Vacant] /\ data' = [data EXCEPT ![o] = "freed"]
    BY <1>2 DEF k
  <1>6. /\ slab' \in [Keys -> SlabValues] /\ slab'[k] = Vacant
        /\ \A j \in Keys : j # k => slab'[j] = slab[j]
        /\ data' \in [Ops -> {"caller", "op", "slab", "freed"}]
        /\ \A p \in Ops : p # o => data'[p] = data[p]
    BY <1>1, <1>2, <1>5, SlabValuesAre DEF TypeOK
  <1>7. PendingInv'
    BY <1>1, <1>2, <1>3, <1>6 DEF PendingInv
  <1>8. EntryInv'
    <2> SUFFICES ASSUME NEW j \in Keys, slab'[j] # Vacant
                 PROVE  /\ index[slab'[j].op] = j
                        /\ IF slab'[j].life = "Ignored"
                             THEN /\ handle[slab'[j].op] = "dropped"
                                  /\ data'[slab'[j].op] = "slab"
                             ELSE handle[slab'[j].op] = "alive"
                        /\ slab'[j].life # "Completed" =>
                             \E f \in Pending' : f.key = j /\ f.op = slab'[j].op
      BY DEF EntryInv
    <2>1. j # k /\ slab'[j] = slab[j]
      BY <1>6
    <2>2. slab[j].op \in Ops /\ slab[j].op # o
      BY <1>1, <1>4, <2>1, SlabValuesAre DEF TypeOK, EntryInv
    <2>3. slab[j].life # "Completed" =>
            \E f \in Pending' : f.key = j /\ f.op = slab[j].op
      BY <1>1, <2>1 DEF EntryInv, k
    <2> QED BY <1>1, <1>6, <2>1, <2>2, <2>3 DEF EntryInv
  <1>9. AliveInv'
    <2> SUFFICES ASSUME NEW p \in Ops, handle[p] = "alive"
                 PROVE  /\ inner # "dropped" /\ index[p] \in Keys
                        /\ data'[p] = "op"
                        /\ slab'[index[p]] # Vacant /\ slab'[index[p]].op = p
      BY DEF AliveInv
    <2>1. /\ inner # "dropped" /\ index[p] \in Keys /\ data[p] = "op"
          /\ slab[index[p]] # Vacant /\ slab[index[p]].op = p
      BY <1>1 DEF AliveInv
    <2>2. p # o /\ index[p] # k
      BY <1>2, <1>4, <2>1
    <2> QED BY <1>6, <2>1, <2>2
  <1> QED BY <1>6, <1>7, <1>8, <1>9

LEMMA AdvancedIs ==
  ASSUME IInv, In("tick"), Top.head < Top.tail
  PROVE  LET n == Len(stack)
             g == Advanced[n]
         IN  /\ Advanced \in Seq(Frames) /\ Len(Advanced) = n /\ n \in {1, 3}
             /\ \A i \in 1 .. n - 1 : Advanced[i] = stack[i]
             /\ g.fn = "tick" /\ g.head = Processed + 1
             /\ Ticking(g)
  <1>1. TypeOK /\ StackInv
    BY DEF IInv
  <1> DEFINE n == Len(stack)
             f == Top
             g == [Top EXCEPT !.head = @ + 1]
  <1>2. /\ n \in 1 .. 3 /\ f = stack[n] /\ f \in Frames
        /\ Pop \in Seq(Frames) /\ Len(Pop) = n - 1
        /\ \A i \in 1 .. n - 1 : Pop[i] = stack[i]
    BY <1>1, StackFacts DEF In
  <1>3. n \in {1, 3} /\ Ticking(f) /\ f.head = Processed
    BY <1>1, <1>2, InTick, ThisEvent
  <1>4. f.head \in Nat /\ f.tail \in Nat /\ cqHead \in Nat
    BY <1>1, <1>2 DEF Frames, TypeOK
  <1>5. /\ g \in Frames /\ g.fn = f.fn /\ g.head = f.head + 1
        /\ g.tail = f.tail
    BY <1>2 DEF Frames
  <1> HIDE DEF f, g
  <1>6. Ticking(g) /\ g.fn = "tick" /\ g.head = Processed + 1
    <2>1. cqHead <= g.head /\ g.head <= g.tail
      BY <1>3, <1>4, <1>5 DEF Ticking, f
    <2> QED BY <1>3, <1>5, <2>1 DEF Ticking
  <1>7. Advanced = Append(Pop, g)
    BY DEF Advanced, g
  <1>8. /\ Advanced \in Seq(Frames) /\ Len(Advanced) = Len(Pop) + 1
        /\ \A i \in 1 .. Len(Pop) : Advanced[i] = Pop[i]
        /\ Advanced[Len(Pop) + 1] = g
    BY <1>2, <1>5, <1>7, AppendIs
  <1>9. Len(Pop) + 1 = n
    BY <1>2
  <1> QED BY <1>2, <1>3, <1>6, <1>8, <1>9

(* tick goes on to the next completion.                                    *)
LEMMA AdvanceStack ==
  ASSUME IInv, In("tick"), Top.head < Top.tail, stack' = Advanced,
         UNCHANGED <<handle, sq, posted, cqHead, inner, env>>
  PROVE  StackInv' /\ Processed' = Processed + 1
  <1>1. TypeOK /\ StackInv /\ inner = "live"
    BY ThisEvent DEF IInv
  <1>2. /\ stack' \in Seq(Frames) /\ Len(stack') = Len(stack)
        /\ Len(stack) \in {1, 3}
        /\ \A i \in 1 .. Len(stack) - 1 : stack'[i] = stack[i]
        /\ stack'[Len(stack)].fn = "tick"
        /\ stack'[Len(stack)].head = Processed + 1
        /\ Ticking(stack'[Len(stack)])
    BY AdvancedIs
  <1>3. CASE Len(stack) = 1
    <2>1. Ticking(stack[1])'
      BY <1>2, <1>3 DEF Ticking
    <2>2. StackInv'
      BY <1>1, <1>2, <1>3, <2>1 DEF StackInv
    <2> QED BY <1>2, <1>3, <2>2 DEF Processed
  <1>4. CASE Len(stack) = 3
    <2>1. /\ KernelBusy /\ Submitting(stack[1], stack[2]) /\ stack[1].fn # "tick"
      BY <1>1, <1>4, InTick
    <2>2. stack'[1] = stack[1] /\ stack'[2] = stack[2]
      BY <1>2, <1>4
    <2>3. Ticking(stack[3])' /\ KernelBusy' /\ Submitting(stack[1], stack[2])'
      BY <1>2, <1>4, <2>1, <2>2 DEF Ticking, KernelBusy, Submitting, Serving
    <2>4. StackInv'
      <3>1. /\ stack' \in Seq(Frames) /\ Len(stack') \in 0 .. 3
            /\ Len(stack') # 1 /\ Len(stack') # 2
        BY <1>2, <1>4
      <3>2. inner' = "live" /\ cqHead' <= Len(posted')
        BY <1>1 DEF StackInv
      <3> QED BY <2>3, <3>1, <3>2 DEF StackInv
    <2> QED BY <1>2, <1>4, <2>1, <2>2, <2>4 DEF Processed
  <1> QED BY <1>2, <1>3, <1>4

LEMMA TickCompleteStep ==
  ASSUME IInv, TickComplete, UNCHANGED env
  PROVE  IInv'
  <1>1. /\ In("tick") /\ Top.head < Top.tail
        /\ slab[Event.key].life \in {"Submitted", "Waiting"}
        /\ slab' = [slab EXCEPT ![Event.key] = Entry("Completed", @.op)]
        /\ stack' = Advanced
        /\ UNCHANGED <<handle, index, data, sq, kernel, overflow, posted, cqHead,
                       inner>>
    BY DEF TickComplete, ring
  <1>2. StackInv' /\ Processed' = Processed + 1
    BY <1>1, AdvanceStack
  <1>3. Pending' = Pending \ {Event}
    BY <1>1, <1>2, EventDone
  <1>4. slab' \in [Keys -> SlabValues] /\ PendingInv' /\ EntryInv' /\ AliveInv'
    BY <1>1, <1>3, CompleteSlab
  <1>5. TypeOK'
    BY <1>1, <1>4 DEF IInv, TypeOK
  <1>6. RingInv'
    BY <1>1, SameHandles, RingSame DEF IInv
  <1> QED BY <1>2, <1>4, <1>5, <1>6 DEF IInv

(* ... or the destructor of what it dropped closes a descriptor first.     *)
LEMMA CloseStack ==
  ASSUME IInv, In("tick"), Top.head < Top.tail, CloseOnDrop,
         NEW c \in Ops, handle[c] = "new",
         stack' = Advanced \o <<Frame("close", c, 0, 0)>>,
         UNCHANGED <<handle, sq, posted, cqHead, inner, env>>
  PROVE  StackInv' /\ Processed' = Processed + 1
  <1>1. TypeOK /\ StackInv /\ inner = "live"
    BY ThisEvent DEF IInv
  <1>2. Len(stack) = 1
    BY <1>1, InTick, OneHazard
  <1>3. /\ Advanced \in Seq(Frames) /\ Len(Advanced) = 1
        /\ Advanced[1].fn = "tick"
        /\ Advanced[1].head = Processed + 1
        /\ Ticking(Advanced[1])
    BY <1>2, AdvancedIs
  <1> DEFINE d == Frame("close", c, 0, 0)
  <1>4. d \in Frames /\ d.fn = "close" /\ d.op = c
    BY FrameIs
  <1> HIDE DEF d
  <1>5. stack' = Append(Advanced, d)
    BY <1>3, <1>4, ConcatOne DEF d
  <1>6. /\ stack' \in Seq(Frames) /\ Len(stack') = Len(Advanced) + 1
        /\ \A i \in 1 .. Len(Advanced) : stack'[i] = Advanced[i]
        /\ stack'[Len(Advanced) + 1] = d
    <2>1. Advanced \in Seq(Frames) /\ d \in Frames
      BY <1>3, <1>4
    <2> QED BY <1>5, <2>1, AppendIs
  <1>7. Len(stack') = 2 /\ stack'[1] = Advanced[1] /\ stack'[2] = d
    BY <1>3, <1>6
  <1>8. Ticking(stack[1])' /\ Serving(stack[2], "close")' /\ CloseOnDrop'
    BY <1>3, <1>4, <1>7 DEF Ticking, Serving, CloseOnDrop
  <1>9. StackInv'
    BY <1>1, <1>6, <1>7, <1>8 DEF StackInv
  <1> QED BY <1>3, <1>7, <1>9 DEF Processed

LEMMA TickIgnoredStep ==
  ASSUME IInv, TickIgnored, UNCHANGED env
  PROVE  IInv'
  <1>1. /\ In("tick") /\ Top.head < Top.tail
        /\ slab[Event.key].life = "Ignored"
        /\ slab' = [slab EXCEPT ![Event.key] = Vacant]
        /\ data' = [data EXCEPT ![slab[Event.key].op] = "freed"]
        /\ UNCHANGED <<handle, index, sq, kernel, overflow, posted, cqHead,
                       inner>>
    BY DEF TickIgnored, ring
  <1>2. StackInv' /\ Processed' = Processed + 1
    <2>1. CASE stack' = Advanced
      BY <1>1, <2>1, AdvanceStack
    <2>2. CASE CloseOnDrop /\ \E c \in {o \in Ops : handle[o] = "new"} :
                 stack' = Advanced \o <<Frame("close", c, 0, 0)>>
      BY <1>1, <2>2, CloseStack
    <2> QED BY <2>1, <2>2 DEF TickIgnored
  <1>3. Pending' = Pending \ {Event}
    BY <1>1, <1>2, EventDone
  <1>4. /\ slab' \in [Keys -> SlabValues]
        /\ data' \in [Ops -> {"caller", "op", "slab", "freed"}]
        /\ PendingInv' /\ EntryInv' /\ AliveInv'
    BY <1>1, <1>3, IgnoredSlab
  <1>5. TypeOK'
    BY <1>1, <1>4 DEF IInv, TypeOK
  <1>6. RingInv'
    BY <1>1, SameHandles, RingSame DEF IInv
  <1> QED BY <1>2, <1>4, <1>5, <1>6 DEF IInv

-----------------------------------------------------------------------------
LEMMA PushAfterSubmitStep ==
  ASSUME IInv, PushAfterSubmit, UNCHANGED env
  PROVE  IInv'
  <1> DEFINE o == Top.op
             keep == Len(stack) = 1
  <1>1. TypeOK /\ StackInv
    BY DEF IInv
  <1>2. /\ In("with_data") /\ InsertAndPush(o, keep)
        /\ data' = [data EXCEPT ![o] = IF keep THEN "op" ELSE "slab"]
        /\ stack' = Pop
        /\ UNCHANGED <<kernel, overflow, posted, cqHead, inner>>
    BY DEF PushAfterSubmit
  <1>3. /\ Len(stack) \in 1 .. 3 /\ Top = stack[Len(stack)] /\ inner = "live"
        /\ Pop \in Seq(Frames) /\ Len(Pop) = Len(stack) - 1
        /\ \A i \in 1 .. Len(stack) - 1 : Pop[i] = stack[i]
    BY <1>1, <1>2, StackFacts DEF In
  <1>4. /\ Pushing(Top) /\ Len(stack) \in {1, 2}
        /\ Len(stack) = 2 => Ticking(stack[1])
        /\ Len(stack) = 1 => stack[1].fn # "tick"
    BY <1>1, <1>2, <1>3, InWithData DEF Pushing, Serving
  <1>5. o \in Ops /\ handle[o] = "new" /\ Len(sq) < SQSize /\ keep \in BOOLEAN
    BY <1>4 DEF Pushing, Serving
  <1>6. /\ stack' \in Seq(Frames) /\ Len(stack') = Len(stack) - 1
        /\ Len(stack) = 2 => stack'[1] = stack[1]
    BY <1>2, <1>3
  <1>7. StackInv'
    <2>1. CASE Len(stack) = 1
      BY <1>1, <1>2, <1>6, <2>1 DEF StackInv
    <2>2. CASE Len(stack) = 2
      <3>1. Ticking(stack[1])'
        BY <1>2, <1>4, <1>6, <2>2 DEF Ticking
      <3>2. /\ stack' \in Seq(Frames) /\ Len(stack') = 1 /\ inner' = "live"
            /\ cqHead' <= Len(posted')
        BY <1>1, <1>2, <1>3, <1>6, <2>2 DEF StackInv
      <3> QED BY <3>1, <3>2 DEF StackInv
    <2> QED BY <1>4, <2>1, <2>2
  <1>8. Processed' = Processed
    BY <1>2, <1>4, <1>6 DEF Processed, Ticking
  <1> HIDE DEF o, keep
  <1> QED BY <1>2, <1>3, <1>5, <1>7, <1>8, PushStep

LEMMA CloseInTickStep ==
  ASSUME IInv, CloseInTick, UNCHANGED env
  PROVE  IInv'
  <1> DEFINE o == Top.op
  <1>1. TypeOK /\ StackInv
    BY DEF IInv
  <1>2. In("close") /\ UNCHANGED <<kernel, overflow, posted, cqHead, inner>>
    BY DEF CloseInTick
  <1>3. /\ Len(stack) = 2 /\ CloseOnDrop /\ Ticking(stack[1])
        /\ Serving(stack[2], "close")
    BY <1>1, <1>2, InClose
  <1>4. /\ Top = stack[2] /\ inner = "live"
        /\ Pop \in Seq(Frames) /\ Len(Pop) = 1 /\ Pop[1] = stack[1]
    BY <1>1, <1>2, <1>3, StackFacts DEF In
  <1>5. o \in Ops /\ handle[o] = "new" /\ stack[1].fn = "tick"
    BY <1>3, <1>4 DEF Serving, Ticking
  <1> HIDE DEF o
  <1>6. CASE IsFull
    <2> DEFINE a == Frame("with_data", o, 0, 0)
               b == Frame("submit", o, 0, 0)
    <2>1. /\ stack' = Pop \o <<a, b>>
          /\ UNCHANGED <<handle, index, data, slab, sq>>
      BY <1>6 DEF CloseInTick, o
    <2>2. /\ a \in Frames /\ a.fn = "with_data" /\ a.op = o
          /\ b \in Frames /\ b.fn = "submit" /\ b.op = o
      BY <1>5, FrameIs
    <2> HIDE DEF a, b
    <2>3. stack' = Append(Append(Pop, a), b)
      BY <1>4, <2>1, <2>2, ConcatTwo
    <2>4. /\ Append(Pop, a) \in Seq(Frames) /\ Len(Append(Pop, a)) = 2
          /\ Append(Pop, a)[1] = stack[1] /\ Append(Pop, a)[2] = a
      <3>1. /\ Append(Pop, a) \in Seq(Frames)
            /\ Len(Append(Pop, a)) = Len(Pop) + 1
            /\ \A i \in 1 .. Len(Pop) : Append(Pop, a)[i] = Pop[i]
            /\ Append(Pop, a)[Len(Pop) + 1] = a
        <4>1. Pop \in Seq(Frames) /\ a \in Frames
          BY <1>4, <2>2
        <4> QED BY <4>1, AppendIs
      <3> QED BY <1>4, <3>1
    <2>5. /\ stack' \in Seq(Frames) /\ Len(stack') = 3
          /\ stack'[1] = stack[1] /\ stack'[2] = a /\ stack'[3] = b
      <3> DEFINE s == Append(Pop, a)
      <3> HIDE DEF s
      <3>1. s \in Seq(Frames) /\ Len(s) = 2 /\ s[1] = stack[1] /\ s[2] = a
        BY <2>4 DEF s
      <3>2. /\ Append(s, b) \in Seq(Frames)
            /\ Len(Append(s, b)) = Len(s) + 1
            /\ \A i \in 1 .. Len(s) : Append(s, b)[i] = s[i]
            /\ Append(s, b)[Len(s) + 1] = b
        <4>1. s \in Seq(Frames) /\ b \in Frames
          BY <2>2, <3>1
        <4> QED BY <4>1, AppendIs
      <3>3. stack' = Append(s, b)
        BY <2>3 DEF s
      <3> QED BY <3>1, <3>2, <3>3
    <2>6. /\ Ticking(stack[1])' /\ CloseOnDrop'
          /\ Serving(stack[2], "with_data")' /\ Submitting(stack[2], stack[3])'
      BY <1>2, <1>3, <1>5, <2>1, <2>2, <2>5
         DEF Ticking, CloseOnDrop, Serving, Submitting
    <2>7. StackInv'
      <3>1. /\ stack' \in Seq(Frames) /\ Len(stack') \in 0 .. 3
            /\ Len(stack') # 1 /\ Len(stack') # 2
        BY <2>5
      <3>2. inner' = "live" /\ cqHead' <= Len(posted')
        BY <1>1, <1>2, <1>4 DEF StackInv
      <3> QED BY <2>6, <3>1, <3>2 DEF StackInv
    <2>8. Processed' = Processed
      BY <1>3, <1>5, <2>5 DEF Processed
    <2> QED BY <1>1, <1>2, <2>1, <2>7, <2>8, SameHandles, StackStep DEF TypeOK
  <1>7. CASE ~IsFull
    <2>1. /\ InsertAndPush(o, FALSE) /\ data' = [data EXCEPT ![o] = "slab"]
          /\ stack' = Pop
      BY <1>7 DEF CloseInTick, o
    <2>2. Ticking(stack[1])'
      BY <1>2, <1>3, <1>4, <2>1 DEF Ticking
    <2>3. StackInv'
      <3>1. stack' \in Seq(Frames) /\ Len(stack') = 1
        BY <1>4, <2>1
      <3>2. inner' = "live" /\ cqHead' <= Len(posted')
        BY <1>1, <1>2, <1>4 DEF StackInv
      <3> QED BY <2>2, <3>1, <3>2 DEF StackInv
    <2>4. Processed' = Processed
      <3>1. Processed = stack[1].head
        BY <1>3, <1>5 DEF Processed
      <3>2. stack'[1] = stack[1] /\ Len(stack') = 1
        BY <1>4, <2>1
      <3>3. Processed' = stack'[1].head
        BY <1>5, <3>2 DEF Processed
      <3> QED BY <3>1, <3>2, <3>3
    <2>5. Len(sq) < SQSize
      BY <1>1, <1>7, DriverAssumption DEF IsFull, TypeOK
    <2> QED BY <1>2, <1>4, <1>5, <2>1, <2>3, <2>4, <2>5, PushStep
  <1> QED BY <1>6, <1>7

LEMMA SubmitWithDataStep ==
  ASSUME IInv, NEW o \in Ops, submit_with_data(o), UNCHANGED env
  PROVE  IInv'
  <1>1. TypeOK /\ StackInv
    BY DEF IInv
  <1>2. /\ UserCode /\ inner = "live" /\ handle[o] = "new"
        /\ UNCHANGED <<kernel, overflow, posted, cqHead, inner>>
    BY DEF submit_with_data
  <1>3. CASE IsFull
    <2>1. /\ stack' = <<Frame("with_data", o, 0, 0), Frame("submit", o, 0, 0)>>
          /\ UNCHANGED <<handle, index, data, slab, sq>>
      BY <1>3 DEF submit_with_data
    <2> QED BY <1>2, <2>1, CallStep
  <1>4. CASE ~IsFull
    <2>1. /\ InsertAndPush(o, TRUE) /\ data' = [data EXCEPT ![o] = "op"]
          /\ stack' = stack
      BY <1>4 DEF submit_with_data
    <2>2. StackInv' /\ Processed' = Processed
      BY <1>1, <1>2, <2>1, UserCodeStack DEF StackInv, Processed
    <2>3. Len(sq) < SQSize
      BY <1>1, <1>4, DriverAssumption DEF IsFull, TypeOK
    <2> QED BY <1>2, <2>1, <2>2, <2>3, PushStep
  <1> QED BY <1>3, <1>4

-----------------------------------------------------------------------------
(* User code polls or drops an Op; the driver is not active.               *)
LEMMA UserStack ==
  ASSUME IInv, Len(stack) = 0, UNCHANGED <<stack, ring>>
  PROVE  StackInv' /\ Pending' = Pending
  <1>1. StackInv' /\ Processed' = Processed
    BY DEF IInv, StackInv, Processed, ring
  <1> QED BY <1>1, PendingSame DEF ring

LEMMA RingKept ==
  ASSUME RingInv, UNCHANGED ring,
         \A p : Pushed(handle, p) => Pushed(handle', p)
  PROVE  RingInv'
  <1>1. /\ \A i \in 1 .. Len(sq) : Pushed(handle', sq[i].op)
        /\ \A j \in 1 .. Len(posted) : Pushed(handle', posted[j].op)
        /\ \A e \in kernel \cup overflow : Pushed(handle', e.op)
    BY DEF RingInv
  <1> QED BY <1>1 DEF RingInv, ring

LEMMA AliveEntry ==
  ASSUME IInv, NEW o \in Ops, handle[o] = "alive"
  PROVE  /\ inner # "dropped" /\ index[o] \in Keys /\ data[o] = "op"
         /\ slab[index[o]] # Vacant /\ slab[index[o]].op = o
         /\ slab[index[o]].life \in {"Submitted", "Waiting", "Completed"}
         /\ \A k \in Keys : slab[k] # Vacant /\ slab[k].op = o => k = index[o]
         /\ \A f \in Pending : f.key \in Keys
  <1>1. /\ inner # "dropped" /\ index[o] \in Keys /\ data[o] = "op"
        /\ slab[index[o]] # Vacant /\ slab[index[o]].op = o
    BY DEF IInv, AliveInv
  <1>2. slab[index[o]].life \in Lives
    BY <1>1, SlabValuesAre DEF IInv, TypeOK
  <1>3. slab[index[o]].life # "Ignored"
    BY <1>1 DEF IInv, EntryInv
  <1>4. \A k \in Keys : slab[k] # Vacant /\ slab[k].op = o => k = index[o]
    BY DEF IInv, EntryInv
  <1>5. \A f \in Pending : f.key \in Keys
    BY PendingType DEF Sqes, IInv
  <1> QED BY <1>1, <1>2, <1>3, <1>4, <1>5 DEF Lives

(* The Op takes its completed entry out of the slab, or dies with it.      *)
LEMMA TakeOut ==
  ASSUME IInv, NEW o \in Ops, handle[o] = "alive", Len(stack) = 0,
         slab[index[o]].life = "Completed",
         slab' = [slab EXCEPT ![index[o]] = Vacant],
         NEW h \in {"ready", "dropped"}, NEW d \in {"caller", "freed"},
         handle' = [handle EXCEPT ![o] = h],
         data' = [data EXCEPT ![o] = d],
         \/ index' = index
         \/ index' = [index EXCEPT ![o] = NoKey],
         UNCHANGED <<stack, ring, inner, env>>
  PROVE  IInv'
  <1> DEFINE k == index[o]
  <1>1. TypeOK /\ RingInv /\ PendingInv /\ EntryInv /\ AliveInv
    BY DEF IInv
  <1>2. /\ inner # "dropped" /\ k \in Keys /\ slab[k] # Vacant /\ slab[k].op = o
        /\ \A j \in Keys : slab[j] # Vacant /\ slab[j].op = o => j = k
        /\ \A f \in Pending : f.key \in Keys
    BY AliveEntry
  <1>3. slab[k].life = "Completed" /\ slab' = [slab EXCEPT ![k] = Vacant]
    OBVIOUS
  <1> HIDE DEF k
  <1>4. StackInv' /\ Pending' = Pending
    BY UserStack
  <1>5. /\ slab' \in [Keys -> SlabValues] /\ slab'[k] = Vacant
        /\ \A j \in Keys : j # k => slab'[j] = slab[j]
    BY <1>1, <1>2, <1>3, SlabValuesAre DEF TypeOK
  <1>6. /\ handle' \in [Ops -> {"new", "alive", "dropped", "ready", "refused"}]
        /\ data' \in [Ops -> {"caller", "op", "slab", "freed"}]
        /\ index' \in [Ops -> Keys \cup {NoKey}]
        /\ handle'[o] = h
        /\ \A p \in Ops : p # o => /\ handle'[p] = handle[p]
                                   /\ data'[p] = data[p]
                                   /\ index'[p] = index[p]
    BY <1>1 DEF TypeOK
  <1>7. TypeOK'
    BY <1>1, <1>5, <1>6 DEF TypeOK, ring
  <1>8. RingInv'
    <2>1. \A p : Pushed(handle, p) => Pushed(handle', p)
      BY <1>6 DEF Pushed
    <2> QED BY <1>1, <2>1, RingKept
  <1>9. PendingInv'
    <2>1. \A f \in Pending : f.key # k
      BY <1>1, <1>2, <1>3 DEF PendingInv
    <2>2. \A f \in Pending : slab'[f.key] = slab[f.key]
      BY <1>2, <1>5, <2>1
    <2> QED BY <1>1, <1>2, <1>4, <2>2 DEF PendingInv
  <1>10. EntryInv'
    <2> SUFFICES ASSUME NEW j \in Keys, slab'[j] # Vacant
                 PROVE  /\ index'[slab'[j].op] = j
                        /\ IF slab'[j].life = "Ignored"
                             THEN /\ handle'[slab'[j].op] = "dropped"
                                  /\ data'[slab'[j].op] = "slab"
                             ELSE handle'[slab'[j].op] = "alive"
                        /\ slab'[j].life # "Completed" =>
                             \E f \in Pending' : f.key = j /\ f.op = slab'[j].op
      BY DEF EntryInv
    <2>1. slab'[j] = slab[j] /\ j # k
      BY <1>5
    <2>2. slab[j].op \in Ops
      BY <1>1, <2>1, SlabValuesAre DEF TypeOK
    <2>3. slab[j].op # o
      BY <1>2, <2>1
    <2> QED BY <1>1, <1>4, <1>6, <2>1, <2>2, <2>3 DEF EntryInv
  <1>11. AliveInv'
    <2> SUFFICES ASSUME NEW p \in Ops, handle'[p] = "alive"
                 PROVE  /\ inner # "dropped" /\ index'[p] \in Keys
                        /\ data'[p] = "op"
                        /\ slab'[index'[p]] # Vacant /\ slab'[index'[p]].op = p
      BY DEF AliveInv
    <2>1. p # o
      BY <1>6
    <2>2. /\ index[p] \in Keys /\ data[p] = "op"
          /\ slab[index[p]] # Vacant /\ slab[index[p]].op = p
      BY <1>1, <1>6, <2>1 DEF AliveInv
    <2>3. index[p] # k
      BY <1>2, <2>1, <2>2
    <2> QED BY <1>2, <1>5, <1>6, <2>1, <2>2, <2>3
  <1> QED BY <1>4, <1>7, <1>8, <1>9, <1>10, <1>11 DEF IInv

(* The Op waits for its completion, or leaves the entry to it.             *)
LEMMA Remark ==
  ASSUME IInv, NEW o \in Ops, handle[o] = "alive", Len(stack) = 0,
         slab[index[o]].life # "Completed", NEW keep \in BOOLEAN,
         slab' = [slab EXCEPT ![index[o]] =
                    Entry(IF keep THEN "Waiting" ELSE "Ignored", o)],
         handle' = (IF keep THEN handle ELSE [handle EXCEPT ![o] = "dropped"]),
         data' = (IF keep THEN data ELSE [data EXCEPT ![o] = "slab"]),
         UNCHANGED <<index, stack, ring, inner, env>>
  PROVE  IInv'
  <1> DEFINE k == index[o]
             life == IF keep THEN "Waiting" ELSE "Ignored"
  <1>1. TypeOK /\ RingInv /\ PendingInv /\ EntryInv /\ AliveInv
    BY DEF IInv
  <1>2. /\ inner # "dropped" /\ k \in Keys /\ slab[k] # Vacant /\ slab[k].op = o
        /\ \A j \in Keys : slab[j] # Vacant /\ slab[j].op = o => j = k
        /\ \A f \in Pending : f.key \in Keys
        /\ data[o] = "op"
    BY AliveEntry
  <1>3. /\ slab[k].life # "Completed" /\ slab' = [slab EXCEPT ![k] = Entry(life, o)]
        /\ life \in Lives
    BY DEF Lives
  <1> HIDE DEF k, life
  <1>4. StackInv' /\ Pending' = Pending
    BY UserStack
  <1>5. /\ slab' \in [Keys -> SlabValues]
        /\ slab'[k] # Vacant /\ slab'[k].op = o /\ slab'[k].life = life
        /\ \A j \in Keys : j # k => slab'[j] = slab[j]
    <2>1. /\ Entry(life, o) \in SlabValues /\ Entry(life, o) # Vacant
          /\ Entry(life, o).op = o /\ Entry(life, o).life = life
      BY <1>3, SlabValuesAre
    <2>2. slab \in [Keys -> SlabValues] /\ k \in Keys
      BY <1>1, <1>2 DEF TypeOK
    <2> DEFINE e == Entry(life, o)
    <2> HIDE DEF e
    <2>3. /\ slab' \in [Keys -> SlabValues] /\ slab'[k] = e
          /\ \A j \in Keys : j # k => slab'[j] = slab[j]
      BY <1>3, <2>1, <2>2 DEF e
    <2> QED BY <2>1, <2>3 DEF e
  <1>6. /\ handle' \in [Ops -> {"new", "alive", "dropped", "ready", "refused"}]
        /\ data' \in [Ops -> {"caller", "op", "slab", "freed"}]
        /\ handle'[o] = (IF keep THEN "alive" ELSE "dropped")
        /\ data'[o] = (IF keep THEN "op" ELSE "slab")
        /\ \A p \in Ops : p # o => handle'[p] = handle[p] /\ data'[p] = data[p]
    BY <1>1, <1>2 DEF TypeOK
  <1>7. TypeOK'
    BY <1>1, <1>5, <1>6 DEF TypeOK, ring
  <1>8. RingInv'
    <2>1. \A p : Pushed(handle, p) => Pushed(handle', p)
      BY <1>6 DEF Pushed
    <2> QED BY <1>1, <2>1, RingKept
  <1>9. life # "Completed" /\ (life = "Ignored" <=> ~keep)
    BY DEF life
  <1>10. PendingInv'
    <2>1. ASSUME NEW f \in Pending
          PROVE  /\ slab'[f.key] # Vacant /\ slab'[f.key].op = f.op
                 /\ slab'[f.key].life # "Completed"
      <3>1. /\ slab[f.key] # Vacant /\ slab[f.key].op = f.op
            /\ slab[f.key].life # "Completed"
        BY <1>1, <1>2 DEF PendingInv
      <3>2. CASE f.key = k
        BY <1>2, <1>5, <1>9, <3>1, <3>2
      <3>3. CASE f.key # k
        BY <1>2, <1>5, <3>1, <3>3
      <3> QED BY <3>2, <3>3
    <2> QED BY <1>4, <2>1 DEF PendingInv
  <1>11. EntryInv'
    <2> SUFFICES ASSUME NEW j \in Keys, slab'[j] # Vacant
                 PROVE  /\ index[slab'[j].op] = j
                        /\ IF slab'[j].life = "Ignored"
                             THEN /\ handle'[slab'[j].op] = "dropped"
                                  /\ data'[slab'[j].op] = "slab"
                             ELSE handle'[slab'[j].op] = "alive"
                        /\ slab'[j].life # "Completed" =>
                             \E f \in Pending : f.key = j /\ f.op = slab'[j].op
      BY <1>4 DEF EntryInv
    <2>1. CASE j = k
      <3>1. \E f \in Pending : f.key = k /\ f.op = o
        BY <1>1, <1>2, <1>3 DEF EntryInv
      <3> QED BY <1>5, <1>6, <1>9, <2>1, <3>1 DEF k
    <2>2. CASE j # k
      <3>1. slab'[j] = slab[j]
        BY <1>5, <2>2
      <3>2. slab[j].op \in Ops
        BY <1>1, <3>1, SlabValuesAre DEF TypeOK
      <3>3. slab[j].op # o
        BY <1>2, <2>2, <3>1
      <3> QED BY <1>1, <1>6, <3>1, <3>2, <3>3 DEF EntryInv
    <2> QED BY <2>1, <2>2
  <1>12. AliveInv'
    <2> SUFFICES ASSUME NEW p \in Ops, handle'[p] = "alive"
                 PROVE  /\ inner # "dropped" /\ index[p] \in Keys
                        /\ data'[p] = "op"
                        /\ slab'[index[p]] # Vacant /\ slab'[index[p]].op = p
      BY DEF AliveInv
    <2>1. CASE p = o
      <3>1. index[p] = k /\ keep
        BY <1>6, <2>1 DEF k
      <3> QED BY <1>2, <1>5, <1>6, <2>1, <3>1
    <2>2. CASE p # o
      <3>1. /\ index[p] \in Keys /\ data[p] = "op"
            /\ slab[index[p]] # Vacant /\ slab[index[p]].op = p
        BY <1>1, <1>6, <2>2 DEF AliveInv
      <3>2. index[p] # k
        BY <1>2, <2>2, <3>1
      <3> QED BY <1>2, <1>5, <1>6, <2>2, <3>1, <3>2
    <2> QED BY <2>1, <2>2
  <1> QED BY <1>4, <1>7, <1>8, <1>10, <1>11, <1>12 DEF IInv

LEMMA PollStep ==
  ASSUME IInv, NEW o \in Ops, poll_op(o), UNCHANGED env
  PROVE  IInv'
  <1>1. /\ Len(stack) = 0 /\ handle[o] = "alive"
        /\ UNCHANGED <<ring, stack, inner>>
    BY UserCodeStack DEF poll_op, IInv
  <1>2. CASE slab[index[o]].life = "Completed"
    <2>1. /\ slab' = [slab EXCEPT ![index[o]] = Vacant]
          /\ handle' = [handle EXCEPT ![o] = "ready"]
          /\ index' = [index EXCEPT ![o] = NoKey]
          /\ data' = [data EXCEPT ![o] = "caller"]
      BY <1>2 DEF poll_op
    <2> QED BY <1>1, <1>2, <2>1, TakeOut
  <1>3. CASE slab[index[o]].life # "Completed"
    <2>1. /\ slab' = [slab EXCEPT ![index[o]] =
                        Entry(IF TRUE THEN "Waiting" ELSE "Ignored", o)]
          /\ handle' = handle /\ index' = index /\ data' = data
      BY <1>3 DEF poll_op
    <2>2. /\ handle' = IF TRUE THEN handle ELSE [handle EXCEPT ![o] = "dropped"]
          /\ data' = IF TRUE THEN data ELSE [data EXCEPT ![o] = "slab"]
      BY <2>1
    <2> QED BY <1>1, <1>3, <2>1, <2>2, Remark
  <1> QED BY <1>2, <1>3

LEMMA DropStep ==
  ASSUME IInv, NEW o \in Ops, drop_op(o), UNCHANGED env
  PROVE  IInv'
  <1>1. /\ Len(stack) = 0 /\ handle[o] = "alive"
        /\ handle' = [handle EXCEPT ![o] = "dropped"]
        /\ UNCHANGED <<index, ring, stack, inner>>
    BY UserCodeStack DEF drop_op, IInv
  <1>2. CASE slab[index[o]].life = "Completed"
    <2>1. /\ slab' = [slab EXCEPT ![index[o]] = Vacant]
          /\ data' = [data EXCEPT ![o] = "freed"]
      BY <1>2 DEF drop_op
    <2> QED BY <1>1, <1>2, <2>1, TakeOut
  <1>3. CASE slab[index[o]].life # "Completed"
    <2>1. /\ slab' = [slab EXCEPT ![index[o]] =
                        Entry(IF FALSE THEN "Waiting" ELSE "Ignored", o)]
          /\ data' = [data EXCEPT ![o] = "slab"]
      BY <1>3 DEF drop_op
    <2>2. /\ handle' = IF FALSE THEN handle ELSE [handle EXCEPT ![o] = "dropped"]
          /\ data' = IF FALSE THEN data ELSE [data EXCEPT ![o] = "slab"]
      BY <1>1, <2>1
    <2> QED BY <1>1, <1>3, <2>1, <2>2, Remark
  <1> QED BY <1>2, <1>3

LEMMA DropDriverStep ==
  ASSUME IInv, DropDriver, UNCHANGED env
  PROVE  IInv'
  <1>1. /\ Len(stack) = 0 /\ inner = "live" /\ inner' = "orphan"
        /\ UNCHANGED <<handle, index, data, slab, ring, stack>>
    BY UserCodeStack DEF DropDriver, IInv
  <1>2. StackInv' /\ Pending' = Pending
    BY <1>1, UserStack
  <1>3. RingInv'
    BY <1>1, RingKept DEF IInv
  <1>4. TypeOK'
    BY <1>1 DEF IInv, TypeOK, ring
  <1>5. PendingInv' /\ EntryInv' /\ AliveInv'
    BY <1>1, <1>2 DEF IInv, PendingInv, EntryInv, AliveInv
  <1> QED BY <1>2, <1>3, <1>4, <1>5 DEF IInv

LEMMA DropInnerStep ==
  ASSUME IInv, DropInner, UNCHANGED env
  PROVE  IInv'
  <1>1. /\ inner = "orphan" /\ \A o \in Ops : handle[o] # "alive"
        /\ inner' = "dropped"
        /\ slab' = [k \in Keys |-> Vacant]
        /\ data' = [o \in Ops |-> IF data[o] = "slab" THEN "freed" ELSE data[o]]
        /\ UNCHANGED <<handle, index, ring, stack>>
    BY DEF DropInner
  <1>2. StackInv'
    BY <1>1, UserStack DEF IInv, StackInv
  <1>3. RingInv'
    BY <1>1, RingKept DEF IInv
  <1>4. TypeOK'
    <2>1. data' \in [Ops -> {"caller", "op", "slab", "freed"}]
      BY <1>1 DEF IInv, TypeOK
    <2>2. slab' \in [Keys -> SlabValues]
      BY <1>1, SlabValuesAre
    <2> QED BY <1>1, <2>1, <2>2 DEF IInv, TypeOK, ring
  <1>5. PendingInv' /\ EntryInv' /\ AliveInv'
    BY <1>1 DEF PendingInv, EntryInv, AliveInv
  <1> QED BY <1>2, <1>3, <1>4, <1>5 DEF IInv

-----------------------------------------------------------------------------
LEMMA InitIInv ==
  ASSUME Init, env # "busy+close"
  PROVE  IInv
  <1>1. /\ stack = << >> /\ Len(stack) = 0 /\ sq = << >> /\ Len(sq) = 0
        /\ posted = << >> /\ Len(posted) = 0 /\ kernel = {} /\ overflow = {}
        /\ cqHead = 0
    BY DEF Init
  <1>2. TypeOK
    BY <1>1, SlabValuesAre, DriverAssumption DEF Init, TypeOK
  <1>3. StackInv
    BY <1>1 DEF Init, StackInv
  <1>4. RingInv
    BY <1>1 DEF RingInv
  <1>5. Pending = {}
    BY <1>1 DEF Pending, Processed
  <1>6. PendingInv /\ EntryInv /\ AliveInv
    BY <1>5 DEF Init, PendingInv, EntryInv, AliveInv
  <1> QED BY <1>2, <1>3, <1>4, <1>6 DEF IInv

(* One step of the driver, of user code or of the kernel.                  *)
LEMMA NextIInv ==
  ASSUME IInv, [Next]_vars
  PROVE  IInv'
  <1>1. CASE UNCHANGED vars
    BY <1>1 DEF vars, IInv, TypeOK, StackInv, Ticking, Serving, Pushing,
       Submitting, KernelBusy, CloseOnDrop, RingInv, PendingInv, EntryInv,
       AliveInv, Pending, Processed
  <1>2. CASE Next
    <2>1. UNCHANGED env
      BY <1>2 DEF Next
    <2>2. CASE PushAfterSubmit
      BY <2>1, <2>2, PushAfterSubmitStep
    <2>3. CASE SubmitOk
      BY <2>1, <2>3, SubmitOkStep
    <2>4. CASE SubmitBusy
      BY <2>1, <2>4, SubmitBusyStep
    <2>5. CASE TickAfterSubmit
      <3>1. In("drive") /\ stack' = Append(Pop, TickFrame)
            /\ UNCHANGED <<handle, index, data, slab, sq, kernel, overflow,
                           posted, cqHead, inner>>
        BY <2>5 DEF TickAfterSubmit, ring
      <3>2. Pop \in Seq(Frames) /\ Len(Pop) = 0
        <4>1. Len(stack) = 1 /\ Pop \in Seq(Frames) /\ Len(Pop) = Len(stack) - 1
          BY <3>1, InBottom, StackFacts DEF IInv, In
        <4> QED BY <4>1
      <3>3. Pop = << >>
        BY <3>2
      <3>4. stack' = <<TickFrame>>
        BY <3>1, <3>3
      <3> QED BY <2>1, <3>1, <3>4, ToTick
    <2>6. CASE ParkWakes
      <3>1. In("wait") /\ stack' = <<TickFrame>>
            /\ UNCHANGED <<handle, index, data, slab, sq, kernel, overflow,
                           posted, cqHead, inner>>
        BY <2>6 DEF ParkWakes, ring
      <3> QED BY <2>1, <3>1, ToTick
    <2>7. CASE TickComplete
      BY <2>1, <2>7, TickCompleteStep
    <2>8. CASE TickIgnored
      BY <2>1, <2>8, TickIgnoredStep
    <2>9. CASE CloseInTick
      BY <2>1, <2>9, CloseInTickStep
    <2>10. CASE TickEnd
      BY <2>1, <2>10, TickEndStep
    <2>11. CASE SubmitErr
      BY <2>1, <2>11, SubmitErrStep
    <2>12. CASE Park
      BY <2>1, <2>12, ParkStep
    <2>13. CASE DriverSubmit
      <3>1. UserCode /\ inner = "live"
            /\ stack' = <<Frame("drive", NoOp, 0, 0), Frame("submit", NoOp, 0, 0)>>
            /\ UNCHANGED <<handle, index, data, slab, sq, kernel, overflow,
                           posted, cqHead, inner>>
        BY <2>13 DEF DriverSubmit, ring
      <3> QED BY <2>1, <3>1, CallStep
    <2>14. ASSUME NEW o \in Ops,
                  submit_with_data(o) \/ poll_op(o) \/ drop_op(o)
           PROVE  IInv'
      BY <2>1, <2>14, SubmitWithDataStep, PollStep, DropStep
    <2>15. CASE DropDriver
      BY <2>1, <2>15, DropDriverStep
    <2>16. CASE DropInner
      BY <2>1, <2>16, DropInnerStep
    <2>17. CASE KernelPost
      BY <2>1, <2>17, PostStep
    <2>18. CASE KernelOverflow
      BY <2>1, <2>18, OverflowStep
    <2> QED BY <1>2, <2>2, <2>3, <2>4, <2>5, <2>6, <2>7, <2>8, <2>9, <2>10,
               <2>11, <2>12, <2>13, <2>14, <2>15, <2>16, <2>17, <2>18
            DEF Next, Step, DriverStep, UserStep
  <1> QED BY <1>1, <1>2

(* The inductive invariant holds in every execution in which the kernel's  *)
(* EBUSY and closes from destructors do not come together.                 *)
THEOREM Inductive == (Spec /\ env # "busy+close") => []IInv
  <1>1. Init /\ env # "busy+close" => IInv
    BY InitIInv
  <1>2. IInv /\ [Next]_vars => IInv'
    BY NextIInv
  <1> QED BY <1>1, <1>2, PTL DEF Spec

(* Lifecycle::complete, Ops::complete, poll_op, drop_op and the push after *)
(* a submit never meet a state their unchecked assumptions exclude.        *)
THEOREM UncheckedSafety == (Spec /\ env # "busy+close") => []UncheckedHolds
  <1>1. IInv => UncheckedHolds
    <2> SUFFICES ASSUME IInv PROVE UncheckedHolds
      OBVIOUS
    <2>1. CompletionMatches
      BY ThisEvent DEF CompletionMatches
    <2>2. HandleOwnsEntry
      BY AliveEntry DEF HandleOwnsEntry
    <2>3. In("with_data") => ~IsFull
      <3> SUFFICES ASSUME In("with_data") PROVE ~IsFull
        OBVIOUS
      <3>1. Len(sq) < SQSize
        BY InWithData DEF IInv, Pushing
      <3>2. Len(sq) \in Nat /\ SQSize \in Nat
        BY DriverAssumption DEF IInv, TypeOK
      <3> QED BY <3>1, <3>2 DEF IsFull
    <2> QED BY <2>1, <2>2, <2>3 DEF UncheckedHolds
  <1> QED BY <1>1, Inductive, PTL

(* The buffers of an operation that the kernel has not finished belong to  *)
(* its Op or to the slab, whoever drops what and when.                     *)
THEOREM BuffersSafety == (Spec /\ env # "busy+close") => []BuffersHeld
  <1>1. IInv => BuffersHeld
    <2> SUFFICES ASSUME IInv, inner # "dropped", NEW e \in InFlight
                 PROVE  data[e.op] \in {"op", "slab"}
      BY DEF BuffersHeld
    <2>1. e \in Pending
      <3>1. DOMAIN sq = 1 .. Len(sq)
        BY DEF IInv, TypeOK
      <3> QED BY <3>1 DEF InFlight, ToSet, Pending
    <2>2. e.key \in Keys /\ e.op \in Ops
      BY <2>1, PendingType DEF IInv, Sqes
    <2>3. slab[e.key] # Vacant /\ slab[e.key].op = e.op
      BY <2>1 DEF IInv, PendingInv
    <2>4. handle[e.op] = "alive" \/ data[e.op] = "slab"
      BY <2>2, <2>3 DEF IInv, EntryInv
    <2> QED BY <2>2, <2>4, AliveEntry
  <1> QED BY <1>1, Inductive, PTL

(* An entry of the slab is owned by an Op, or its completion is to come.   *)
THEOREM NoLeak == (Spec /\ env # "busy+close") => []NoSlabLeak
  <1>1. IInv => NoSlabLeak
    <2> SUFFICES ASSUME IInv, NEW k \in Keys, slab[k] # Vacant,
                        handle[slab[k].op] # "alive"
                 PROVE  \/ \E e \in InFlight : e.key = k /\ e.op = slab[k].op
                        \/ \E i \in cqHead + 1 .. Len(posted) : posted[i].key = k
      BY DEF NoSlabLeak
    <2>1. PICK e \in Pending : e.key = k /\ e.op = slab[k].op
      BY DEF IInv, EntryInv
    <2>2. /\ Processed \in Nat /\ Len(posted) \in Nat /\ cqHead <= Processed
          /\ cqHead \in Nat
      BY ProcessedIs DEF IInv, TypeOK
    <2>3. DOMAIN sq = 1 .. Len(sq)
      BY DEF IInv, TypeOK
    <2>4. e \in InFlight \/ \E i \in Processed + 1 .. Len(posted) : e = posted[i]
      BY <2>3 DEF Pending, InFlight, ToSet
    <2>5. \A i \in Processed + 1 .. Len(posted) : i \in cqHead + 1 .. Len(posted)
      BY <2>2
    <2> QED BY <2>1, <2>4, <2>5
  <1> QED BY <1>1, Inductive, PTL

-----------------------------------------------------------------------------
(* Buffers.  The slices around a buffer are a sequence that grows without  *)
(* bound, so the facts about them are stated for every level of it.        *)

(* A slice: the part of the buffer below it from begin to end.             *)
View == [kind : {"Slice", "SliceMut"}, begin : Nat, end : Nat]

(* The folds of the model, evaluated by a function that says what has been *)
(* computed after each element: the pointer,                               *)
LEMMA PtrFold ==
  ASSUME NEW views \in Seq(View), NEW p, p[0] = 0,
         \A j \in 1 .. Len(views) : p[j] = p[j - 1] + views[j].begin
  PROVE  FoldLeft(LAMBDA q, view : q + view.begin, 0, views) = p[Len(views)]
  <1> DEFINE n == Len(views)
             Eq(it) == it = [s \in SUBSET DOMAIN views |->
                               IF s = {} THEN 0
                                 ELSE it[s \ {Max(s)}] + views[Max(s)].begin]
             it == CHOOSE it : Eq(it)
  <1>1. FoldLeft(LAMBDA q, view : q + view.begin, 0, views) = it[DOMAIN views]
    BY Zenon DEF FoldLeft, MapThenFoldSet
  <1>2. DOMAIN views = 1 .. n /\ n \in Nat /\ \A j \in 1 .. n : views[j] \in View
    OBVIOUS
  <1>3. \E g : Eq(g)
    <2> DEFINE F == [j \in 1 .. n |-> [x \in Int |-> x + views[j].begin]]
    <2>1. F \in [1 .. n -> [Int -> Int]]
      BY <1>2 DEF View
    <2>2. PICK g \in [SUBSET (1 .. n) -> Int] : Folding(n, 0, F, g)
      <3> HIDE DEF F, n
      <3> DEFINE V == Int
      <3>1. 0 \in V /\ F \in [1 .. n -> [V -> V]] /\ n \in Nat
        BY <1>2, <2>1
      <3>2. HasFold(n, V, 0, F)
        <4> HIDE DEF V
        <4> QED BY <3>1, FoldExists
      <3> QED BY <3>2 DEF HasFold
    <2>3. ASSUME NEW s \in SUBSET (1 .. n), s # {}
          PROVE  F[Max(s)][g[s \ {Max(s)}]] = g[s \ {Max(s)}] + views[Max(s)].begin
      <3>1. Max(s) \in s
        BY <1>2, <2>3, MaxIn
      <3>2. Max(s) \in 1 .. n
        BY <3>1
      <3>3. g[s \ {Max(s)}] \in Int
        OBVIOUS
      <3> HIDE DEF n
      <3> QED BY <3>2, <3>3
    <2>4. g = [s \in SUBSET (1 .. n) |->
                 IF s = {} THEN 0 ELSE F[Max(s)][g[s \ {Max(s)}]]]
      BY <2>2 DEF Folding
    <2>5. Eq(g)
      <3> HIDE DEF F, n
      <3> QED BY <1>2, <2>3, <2>4
    <2> QED BY <2>5
  <1>4. Eq(it)
    <2> HIDE DEF Eq
    <2> QED BY <1>3
  <1>5. /\ it[1 .. 0] = 0
        /\ \A j \in 1 .. n : it[1 .. j] = it[1 .. j - 1] + views[j].begin
    <2> HIDE DEF it, n
    <2>1. it[1 .. 0] = 0
      <3>1. 1 .. 0 = {}
        OBVIOUS
      <3> QED BY <1>2, <1>4, <3>1
    <2>2. ASSUME NEW j \in 1 .. n
          PROVE  it[1 .. j] = it[1 .. j - 1] + views[j].begin
      <3>1. /\ 1 .. j \in SUBSET (1 .. n) /\ 1 .. j # {} /\ Max(1 .. j) = j
            /\ (1 .. j) \ {j} = 1 .. j - 1
        BY <1>2, PrefixOf
      <3>2. it[1 .. j] = it[(1 .. j) \ {Max(1 .. j)}] + views[Max(1 .. j)].begin
        BY <1>2, <1>4, <3>1
      <3> QED BY <3>1, <3>2
    <2> QED BY <2>1, <2>2
  <1> HIDE DEF it
  <1> DEFINE S == {j \in Nat : j <= n => it[1 .. j] = p[j]}
  <1>6. \A j \in Nat : j \in S
    <2>1. 0 \in S
      BY <1>5
    <2>2. ASSUME NEW j \in Nat, j \in S PROVE j + 1 \in S
      BY <1>2, <1>5, <2>2
    <2> HIDE DEF S
    <2> QED BY <2>1, <2>2, Induction
  <1>7. it[1 .. n] = p[n]
    BY <1>2, <1>6
  <1> QED BY <1>1, <1>2, <1>7

(* the initialized length,                                                 *)
LEMMA InitFold ==
  ASSUME NEW views \in Seq(View), NEW len \in Int, NEW p, p[0] = len,
         \A j \in 1 .. Len(views) : p[j] = ViewInit(p[j - 1], views[j])
  PROVE  FoldLeft(ViewInit, len, views) = p[Len(views)]
  <1> DEFINE n == Len(views)
             Eq(it) == it = [s \in SUBSET DOMAIN views |->
                               IF s = {} THEN len
                                 ELSE ViewInit(it[s \ {Max(s)}], views[Max(s)])]
             it == CHOOSE it : Eq(it)
  <1>1. FoldLeft(ViewInit, len, views) = it[DOMAIN views]
    BY Zenon DEF FoldLeft, MapThenFoldSet
  <1>2. DOMAIN views = 1 .. n /\ n \in Nat /\ \A j \in 1 .. n : views[j] \in View
    OBVIOUS
  <1>3. \E g : Eq(g)
    <2> DEFINE F == [j \in 1 .. n |-> [x \in Int |-> ViewInit(x, views[j])]]
    <2>1. F \in [1 .. n -> [Int -> Int]]
      BY <1>2 DEF View, ViewInit, Smaller
    <2>2. PICK g \in [SUBSET (1 .. n) -> Int] : Folding(n, len, F, g)
      <3> HIDE DEF F, n
      <3> DEFINE V == Int
      <3>1. len \in V /\ F \in [1 .. n -> [V -> V]] /\ n \in Nat
        BY <1>2, <2>1
      <3>2. HasFold(n, V, len, F)
        <4> HIDE DEF V
        <4> QED BY <3>1, FoldExists
      <3> QED BY <3>2 DEF HasFold
    <2>3. ASSUME NEW s \in SUBSET (1 .. n), s # {}
          PROVE  F[Max(s)][g[s \ {Max(s)}]] = ViewInit(g[s \ {Max(s)}], views[Max(s)])
      <3>1. Max(s) \in s
        BY <1>2, <2>3, MaxIn
      <3>2. Max(s) \in 1 .. n
        BY <3>1
      <3>3. g[s \ {Max(s)}] \in Int
        OBVIOUS
      <3> HIDE DEF n
      <3> QED BY <3>2, <3>3
    <2>4. g = [s \in SUBSET (1 .. n) |->
                 IF s = {} THEN len ELSE F[Max(s)][g[s \ {Max(s)}]]]
      BY <2>2 DEF Folding
    <2>5. Eq(g)
      <3> HIDE DEF F, n
      <3> QED BY <1>2, <2>3, <2>4
    <2> QED BY <2>5
  <1>4. Eq(it)
    <2> HIDE DEF Eq
    <2> QED BY <1>3
  <1>5. /\ it[1 .. 0] = len
        /\ \A j \in 1 .. n : it[1 .. j] = ViewInit(it[1 .. j - 1], views[j])
    <2> HIDE DEF it, n
    <2>1. it[1 .. 0] = len
      <3>1. 1 .. 0 = {}
        OBVIOUS
      <3> QED BY <1>2, <1>4, <3>1
    <2>2. ASSUME NEW j \in 1 .. n
          PROVE  it[1 .. j] = ViewInit(it[1 .. j - 1], views[j])
      <3>1. /\ 1 .. j \in SUBSET (1 .. n) /\ 1 .. j # {} /\ Max(1 .. j) = j
            /\ (1 .. j) \ {j} = 1 .. j - 1
        BY <1>2, PrefixOf
      <3>2. it[1 .. j] = ViewInit(it[(1 .. j) \ {Max(1 .. j)}], views[Max(1 .. j)])
        BY <1>2, <1>4, <3>1
      <3> QED BY <3>1, <3>2
    <2> QED BY <2>1, <2>2
  <1> HIDE DEF it
  <1> DEFINE S == {j \in Nat : j <= n => it[1 .. j] = p[j]}
  <1>6. \A j \in Nat : j \in S
    <2>1. 0 \in S
      BY <1>5
    <2>2. ASSUME NEW j \in Nat, j \in S PROVE j + 1 \in S
      BY <1>2, <1>5, <2>2
    <2> HIDE DEF S
    <2> QED BY <2>1, <2>2, Induction
  <1>7. it[1 .. n] = p[n]
    BY <1>2, <1>6
  <1> QED BY <1>1, <1>2, <1>7

(* the total length,                                                       *)
LEMMA TotalFold ==
  ASSUME NEW views \in Seq(View), NEW len \in Int, NEW p, p[0] = len,
         \A j \in 1 .. Len(views) : p[j] = views[j].end - views[j].begin
  PROVE  FoldLeft(LAMBDA m, view : view.end - view.begin, len, views) = p[Len(views)]
  <1> DEFINE n == Len(views)
             Eq(it) == it = [s \in SUBSET DOMAIN views |->
                               IF s = {} THEN len
                                 ELSE views[Max(s)].end - views[Max(s)].begin]
             it == CHOOSE it : Eq(it)
  <1>1. FoldLeft(LAMBDA m, view : view.end - view.begin, len, views) = it[DOMAIN views]
    BY Zenon DEF FoldLeft, MapThenFoldSet
  <1>2. DOMAIN views = 1 .. n /\ n \in Nat /\ \A j \in 1 .. n : views[j] \in View
    OBVIOUS
  <1>3. \E g : Eq(g)
    <2> DEFINE F == [j \in 1 .. n |-> [x \in Int |-> views[j].end - views[j].begin]]
    <2>1. F \in [1 .. n -> [Int -> Int]]
      BY <1>2 DEF View
    <2>2. PICK g \in [SUBSET (1 .. n) -> Int] : Folding(n, len, F, g)
      <3> HIDE DEF F, n
      <3> DEFINE V == Int
      <3>1. len \in V /\ F \in [1 .. n -> [V -> V]] /\ n \in Nat
        BY <1>2, <2>1
      <3>2. HasFold(n, V, len, F)
        <4> HIDE DEF V
        <4> QED BY <3>1, FoldExists
      <3> QED BY <3>2 DEF HasFold
    <2>3. ASSUME NEW s \in SUBSET (1 .. n), s # {}
          PROVE  F[Max(s)][g[s \ {Max(s)}]] = views[Max(s)].end - views[Max(s)].begin
      <3>1. Max(s) \in s
        BY <1>2, <2>3, MaxIn
      <3>2. Max(s) \in 1 .. n
        BY <3>1
      <3>3. g[s \ {Max(s)}] \in Int
        OBVIOUS
      <3> HIDE DEF n
      <3> QED BY <3>2, <3>3
    <2>4. g = [s \in SUBSET (1 .. n) |->
                 IF s = {} THEN len ELSE F[Max(s)][g[s \ {Max(s)}]]]
      BY <2>2 DEF Folding
    <2>5. Eq(g)
      <3> HIDE DEF F, n
      <3> QED BY <1>2, <2>3, <2>4
    <2> QED BY <2>5
  <1>4. Eq(it)
    <2> HIDE DEF Eq
    <2> QED BY <1>3
  <1>5. /\ it[1 .. 0] = len
        /\ \A j \in 1 .. n : it[1 .. j] = views[j].end - views[j].begin
    <2> HIDE DEF it, n
    <2>1. it[1 .. 0] = len
      <3>1. 1 .. 0 = {}
        OBVIOUS
      <3> QED BY <1>2, <1>4, <3>1
    <2>2. ASSUME NEW j \in 1 .. n
          PROVE  it[1 .. j] = views[j].end - views[j].begin
      <3>1. /\ 1 .. j \in SUBSET (1 .. n) /\ 1 .. j # {} /\ Max(1 .. j) = j
            /\ (1 .. j) \ {j} = 1 .. j - 1
        BY <1>2, PrefixOf
      <3>2. it[1 .. j] = views[Max(1 .. j)].end - views[Max(1 .. j)].begin
        BY <1>2, <1>4, <3>1
      <3> QED BY <3>1, <3>2
    <2> QED BY <2>1, <2>2
  <1> HIDE DEF it
  <1> DEFINE S == {j \in Nat : j <= n => it[1 .. j] = p[j]}
  <1>6. \A j \in Nat : j \in S
    <2>1. 0 \in S
      BY <1>5
    <2>2. ASSUME NEW j \in Nat, j \in S PROVE j + 1 \in S
      BY <1>2, <1>5, <2>2
    <2> HIDE DEF S
    <2> QED BY <2>1, <2>2, Induction
  <1>7. it[1 .. n] = p[n]
    BY <1>2, <1>6
  <1> QED BY <1>1, <1>2, <1>7

(* and the sum of the lengths of iovecs.                                   *)
LEMMA SumFold ==
  ASSUME NEW seq \in Seq(Nat), NEW p, p[0] = 0,
         \A j \in 1 .. Len(seq) : p[j] = p[j - 1] + seq[j]
  PROVE  FoldLeft(+, 0, seq) = p[Len(seq)]
  <1> DEFINE n == Len(seq)
             Eq(it) == it = [s \in SUBSET DOMAIN seq |->
                               IF s = {} THEN 0
                                 ELSE it[s \ {Max(s)}] + seq[Max(s)]]
             it == CHOOSE it : Eq(it)
  <1>1. FoldLeft(+, 0, seq) = it[DOMAIN seq]
    BY Zenon DEF FoldLeft, MapThenFoldSet
  <1>2. DOMAIN seq = 1 .. n /\ n \in Nat /\ \A j \in 1 .. n : seq[j] \in Nat
    OBVIOUS
  <1>3. \E g : Eq(g)
    <2> DEFINE F == [j \in 1 .. n |-> [x \in Int |-> x + seq[j]]]
    <2>1. F \in [1 .. n -> [Int -> Int]]
      BY <1>2
    <2>2. PICK g \in [SUBSET (1 .. n) -> Int] : Folding(n, 0, F, g)
      <3> HIDE DEF F, n
      <3> DEFINE V == Int
      <3>1. 0 \in V /\ F \in [1 .. n -> [V -> V]] /\ n \in Nat
        BY <1>2, <2>1
      <3>2. HasFold(n, V, 0, F)
        <4> HIDE DEF V
        <4> QED BY <3>1, FoldExists
      <3> QED BY <3>2 DEF HasFold
    <2>3. ASSUME NEW s \in SUBSET (1 .. n), s # {}
          PROVE  F[Max(s)][g[s \ {Max(s)}]] = g[s \ {Max(s)}] + seq[Max(s)]
      <3>1. Max(s) \in s
        BY <1>2, <2>3, MaxIn
      <3>2. Max(s) \in 1 .. n
        BY <3>1
      <3>3. g[s \ {Max(s)}] \in Int
        OBVIOUS
      <3> HIDE DEF n
      <3> QED BY <3>2, <3>3
    <2>4. g = [s \in SUBSET (1 .. n) |->
                 IF s = {} THEN 0 ELSE F[Max(s)][g[s \ {Max(s)}]]]
      BY <2>2 DEF Folding
    <2>5. Eq(g)
      <3> HIDE DEF F, n
      <3> QED BY <1>2, <2>3, <2>4
    <2> QED BY <2>5
  <1>4. Eq(it)
    <2> HIDE DEF Eq
    <2> QED BY <1>3
  <1>5. /\ it[1 .. 0] = 0
        /\ \A j \in 1 .. n : it[1 .. j] = it[1 .. j - 1] + seq[j]
    <2> HIDE DEF it, n
    <2>1. it[1 .. 0] = 0
      <3>1. 1 .. 0 = {}
        OBVIOUS
      <3> QED BY <1>2, <1>4, <3>1
    <2>2. ASSUME NEW j \in 1 .. n
          PROVE  it[1 .. j] = it[1 .. j - 1] + seq[j]
      <3>1. /\ 1 .. j \in SUBSET (1 .. n) /\ 1 .. j # {} /\ Max(1 .. j) = j
            /\ (1 .. j) \ {j} = 1 .. j - 1
        BY <1>2, PrefixOf
      <3>2. it[1 .. j] = it[(1 .. j) \ {Max(1 .. j)}] + seq[Max(1 .. j)]
        BY <1>2, <1>4, <3>1
      <3> QED BY <3>1, <3>2
    <2> QED BY <2>1, <2>2
  <1> HIDE DEF it
  <1> DEFINE S == {j \in Nat : j <= n => it[1 .. j] = p[j]}
  <1>6. \A j \in Nat : j \in S
    <2>1. 0 \in S
      BY <1>5
    <2>2. ASSUME NEW j \in Nat, j \in S PROVE j + 1 \in S
      BY <1>2, <1>5, <2>2
    <2> HIDE DEF S
    <2> QED BY <2>1, <2>2, Induction
  <1>7. it[1 .. n] = p[n]
    BY <1>2, <1>6
  <1> QED BY <1>1, <1>2, <1>7

-----------------------------------------------------------------------------
(* The first len bytes of a memory are initialized.                        *)
LEMMA HoldsIs ==
  ASSUME NEW mem \in Memory, NEW len \in 0 .. Len(mem)
  PROVE  Holds(mem, len) <=> \A x \in 1 .. len : mem[x] # Uninit
  <1> DEFINE part == SubSeq(mem, 1, len)
  <1>1. /\ part \in Seq(Byte \cup {Uninit}) /\ Len(part) = len
        /\ \A x \in 1 .. len : part[x] = mem[x]
    <2>1. \A x \in 1 .. len : mem[x] \in Byte \cup {Uninit}
      BY DEF Memory
    <2> HIDE DEF part
    <2>2. len \in Int /\ 1 \in Int
      OBVIOUS
    <2>3. /\ part \in Seq(Byte \cup {Uninit})
          /\ Len(part) = IF 1 <= len THEN len - 1 + 1 ELSE 0
          /\ \A x \in 1 .. len - 1 + 1 : part[x] = mem[1 + x - 1]
      BY <2>1, <2>2, SubSeqProperties DEF part
    <2> QED BY <2>3
  <1>2. DOMAIN part = 1 .. len
    <2> HIDE DEF part
    <2> QED BY <1>1
  <1>3. Holds(mem, len) <=> Uninit \notin ToSet(part)
    BY DEF Holds, Initialized
  <1> HIDE DEF part
  <1> QED BY <1>1, <1>2, <1>3 DEF ToSet

(* The n elements after position i belong to A.                            *)
Within(from, i, n, A) == \A x \in i + 1 .. i + n : from[x] \in A

(* What the kernel has copied: n elements of `from' after position i are   *)
(* those after position j, and the rest is as it was.                      *)
CopyOf(copy, to, j, from, i, n) ==
  /\ Len(copy) = Len(to)
  /\ \A x \in 1 .. Len(to) :
       copy[x] = IF x \in j + 1 .. j + n THEN from[i + x - j] ELSE to[x]

(* Copied does what CopyOf says.                                           *)
LEMMA CopiedIs ==
  ASSUME NEW A, NEW to \in Seq(A), NEW j \in Nat, NEW from, NEW i \in Nat,
         NEW n \in Nat, Within(from, i, n, A)
  PROVE  /\ Copied(to, j, from, i, n) \in Seq(A)
         /\ CopyOf(Copied(to, j, from, i, n), to, j, from, i, n)
  <1>1. \A x \in j + 1 .. j + n : i + x - j \in i + 1 .. i + n
    OBVIOUS
  <1>2. \A x \in 1 .. Len(to) :
          (IF x \in j + 1 .. j + n THEN from[i + x - j] ELSE to[x]) \in A
    BY <1>1 DEF Within
  <1>3. Copied(to, j, from, i, n) \in [1 .. Len(to) -> A]
    BY <1>2 DEF Copied
  <1>4. Len(to) \in Nat
    OBVIOUS
  <1>5. /\ Copied(to, j, from, i, n) \in Seq(A)
        /\ Len(Copied(to, j, from, i, n)) = Len(to)
    BY <1>3, <1>4, IsASeq
  <1>6. \A x \in 1 .. Len(to) :
              Copied(to, j, from, i, n)[x] =
                IF x \in j + 1 .. j + n THEN from[i + x - j] ELSE to[x]
    BY DEF Copied
  <1> QED BY <1>5, <1>6 DEF CopyOf

-----------------------------------------------------------------------------
(* What a buffer with slices is at each level of nesting: after the first  *)
(* j slices, its pointer p[j], its initialized length i[j] and its total   *)
(* length t[j].  Every level is inside the ones below it, and all that it  *)
(* shows is initialized.                                                   *)
Levels(b, p, i, t) ==
  /\ p \in [0 .. Len(b.views) -> Nat]
  /\ i \in [0 .. Len(b.views) -> Nat]
  /\ t \in [0 .. Len(b.views) -> Nat]
  /\ p[0] = 0 /\ i[0] = b.len /\ t[0] = Len(b.mem)
  /\ \A j \in 1 .. Len(b.views) :
       /\ p[j] = p[j - 1] + b.views[j].begin
       /\ i[j] = ViewInit(i[j - 1], b.views[j])
       /\ t[j] = b.views[j].end - b.views[j].begin
  /\ \A j \in 0 .. Len(b.views) :
       p[j] + i[j] <= b.len /\ i[j] <= t[j] /\ (b.kind # "Vec" => i[j] = t[j])
  /\ \A j, l \in 0 .. Len(b.views) :
       j <= l => p[j] <= p[l] /\ p[l] + t[l] <= p[j] + t[j]

(* The buffers of one piece, with any slices.                              *)
OnePiece == [kind : Kinds, mem : Memory, len : Nat, views : Seq(View)]

(* The outermost level is what the buffer says of itself.                  *)
LEMMA LevelsGive ==
  ASSUME NEW b \in OnePiece, NEW p, NEW i, NEW t, Levels(b, p, i, t)
  PROVE  /\ Ptr(b) = p[Len(b.views)]
         /\ bytes_init(b) = i[Len(b.views)]
         /\ bytes_total(b) = t[Len(b.views)]
  <1>1. b.views \in Seq(View) /\ b.len \in Int /\ Len(b.mem) \in Int
    BY DEF OnePiece, Memory
  <1>2. Ptr(b) = p[Len(b.views)]
    BY <1>1, PtrFold DEF Ptr, Levels
  <1>3. bytes_init(b) = i[Len(b.views)]
    BY <1>1, InitFold DEF bytes_init, Levels
  <1>4. bytes_total(b) = t[Len(b.views)]
    BY <1>1, TotalFold DEF bytes_total, Levels
  <1> QED BY <1>2, <1>3, <1>4

(* The slices of the buffer are nested as they should be.                  *)
HasLevels(b) == \E p, i, t : Levels(b, p, i, t)

(* A slice whose range passed the asserts adds a level: the begin of a     *)
(* SliceMut is at most what is initialized, so that its bytes never have a *)
(* gap.                                                                    *)
LEMMA SlicePushed ==
  ASSUME NEW b \in OnePiece, NEW p, NEW i, NEW t, Levels(b, p, i, t),
         NEW v \in View, v.begin <= v.end,
         \/ v.kind = "SliceMut" /\ v.end <= t[Len(b.views)] /\ v.begin <= i[Len(b.views)]
         \/ v.kind = "Slice" /\ v.end <= i[Len(b.views)]
  PROVE  /\ [b EXCEPT !.views = Append(@, v)] \in OnePiece
         /\ HasLevels([b EXCEPT !.views = Append(@, v)])
  <1> DEFINE k == Len(b.views)
             c == [b EXCEPT !.views = Append(@, v)]
             p2 == [j \in 0 .. k + 1 |-> IF j = k + 1 THEN p[k] + v.begin ELSE p[j]]
             i2 == [j \in 0 .. k + 1 |-> IF j = k + 1 THEN ViewInit(i[k], v) ELSE i[j]]
             t2 == [j \in 0 .. k + 1 |-> IF j = k + 1 THEN v.end - v.begin ELSE t[j]]
  <1>1. /\ b.views \in Seq(View) /\ b.mem \in Memory /\ b.len \in Nat /\ b.kind \in Kinds
        /\ b = [kind |-> b.kind, mem |-> b.mem, len |-> b.len, views |-> b.views]
        /\ k \in Nat /\ Len(b.mem) \in Nat
    BY DEF OnePiece, Memory
  <1>2. /\ c.kind = b.kind /\ c.mem = b.mem /\ c.len = b.len
        /\ c.views = Append(b.views, v)
        /\ c = [kind |-> b.kind, mem |-> b.mem, len |-> b.len, views |-> Append(b.views, v)]
    <2> DEFINE all == Append(b.views, v)
    <2>1. c = [b EXCEPT !.views = all]
      OBVIOUS
    <2> HIDE DEF all, c
    <2>2. c = [kind |-> b.kind, mem |-> b.mem, len |-> b.len, views |-> all]
      BY <1>1, <2>1
    <2>3. c.kind = b.kind /\ c.mem = b.mem /\ c.len = b.len /\ c.views = all
      BY <2>2
    <2> QED BY <2>2, <2>3 DEF all
  <1>3. /\ Append(b.views, v) \in Seq(View) /\ Len(Append(b.views, v)) = k + 1
        /\ \A j \in 1 .. k : Append(b.views, v)[j] = b.views[j]
        /\ Append(b.views, v)[k + 1] = v
    BY <1>1, AppendProperties
  <1>4. c \in OnePiece
    BY <1>1, <1>2, <1>3 DEF OnePiece
  <1>5. v.begin \in Nat /\ v.end \in Nat /\ v.kind \in {"Slice", "SliceMut"}
    BY DEF View
  <1>6. p[k] \in Nat /\ i[k] \in Nat /\ t[k] \in Nat /\ i[k] <= t[k] /\ p[k] + i[k] <= b.len
        /\ (b.kind # "Vec" => i[k] = t[k])
    BY <1>1 DEF Levels
  <1> DEFINE e == ViewInit(i[k], v)
  <1>7. /\ e \in Nat /\ e <= v.end - v.begin /\ v.begin + e <= i[k]
        /\ (b.kind # "Vec" => e = v.end - v.begin)
    BY <1>5, <1>6 DEF ViewInit, Smaller
  <1>8. v.end <= t[k]
    BY <1>5, <1>6
  <1> HIDE DEF k, c, e
  <1>9. Levels(c, p2, i2, t2)
    <2>0. /\ \A j \in 0 .. k : p[j] \in Nat /\ i[j] \in Nat /\ t[j] \in Nat
          /\ \A j \in 0 .. k + 1 : j # k + 1 => j \in 0 .. k
      BY <1>1 DEF Levels, k
    <2>1. p2 \in [0 .. k + 1 -> Nat] /\ i2 \in [0 .. k + 1 -> Nat] /\ t2 \in [0 .. k + 1 -> Nat]
      <3>1. p[k] + v.begin \in Nat /\ ViewInit(i[k], v) \in Nat /\ v.end - v.begin \in Nat
        BY <1>5, <1>6, <1>7 DEF e
      <3> QED BY <2>0, <3>1
    <2>2. p2[0] = 0 /\ i2[0] = c.len /\ t2[0] = Len(c.mem)
      BY <1>1, <1>2 DEF Levels, k
    <2>3. ASSUME NEW j \in 1 .. k + 1
          PROVE  /\ p2[j] = p2[j - 1] + c.views[j].begin
                 /\ i2[j] = ViewInit(i2[j - 1], c.views[j])
                 /\ t2[j] = c.views[j].end - c.views[j].begin
      <3>1. CASE j = k + 1
        BY <1>1, <1>2, <1>3, <3>1
      <3>2. CASE j # k + 1
        <4>1. j \in 1 .. k /\ j - 1 \in 0 .. k /\ j \in 0 .. k + 1 /\ j - 1 \in 0 .. k + 1
          BY <1>1, <3>2
        <4>2. p2[j] = p[j] /\ p2[j - 1] = p[j - 1] /\ i2[j] = i[j]
              /\ i2[j - 1] = i[j - 1] /\ t2[j] = t[j]
          BY <1>1, <4>1
        <4> QED BY <1>2, <1>3, <4>1, <4>2 DEF Levels, k
      <3> QED BY <3>1, <3>2
    <2>4. ASSUME NEW j \in 0 .. k + 1
          PROVE  /\ p2[j] + i2[j] <= c.len /\ i2[j] <= t2[j]
                 /\ (c.kind # "Vec" => i2[j] = t2[j])
      <3>1. CASE j = k + 1
        <4>1. p2[j] = p[k] + v.begin /\ i2[j] = e /\ t2[j] = v.end - v.begin
          BY <3>1, <1>1 DEF e
        <4> DEFINE pk == p[k]
                   ik == i[k]
                   from == v.begin
                   size == v.end - v.begin
        <4>2. /\ pk \in Nat /\ ik \in Nat /\ e \in Nat /\ b.len \in Nat /\ from \in Nat
              /\ pk + ik <= b.len /\ from + e <= ik
          BY <1>1, <1>5, <1>6, <1>7
        <4>3. e <= size /\ (c.kind # "Vec" => e = size)
          BY <1>2, <1>7
        <4> HIDE DEF pk, ik, from, size, p2, i2, t2
        <4>4. pk + from + e <= b.len
          BY <4>2
        <4>5. p2[j] = pk + from /\ i2[j] = e /\ t2[j] = size
          BY <4>1 DEF pk, from, size
        <4> QED BY <1>2, <4>3, <4>4, <4>5
      <3>2. CASE j # k + 1
        <4>1. j \in 0 .. k /\ p2[j] = p[j] /\ i2[j] = i[j] /\ t2[j] = t[j]
          BY <1>1, <3>2
        <4> QED BY <1>2, <4>1 DEF Levels, k
      <3> QED BY <3>1, <3>2
    <2>5. ASSUME NEW j \in 0 .. k + 1, NEW l \in 0 .. k + 1, j <= l
          PROVE  p2[j] <= p2[l] /\ p2[l] + t2[l] <= p2[j] + t2[j]
      <3>1. CASE l # k + 1
        <4>1. /\ l \in 0 .. k /\ p2[l] = p[l] /\ t2[l] = t[l]
              /\ j \in 0 .. k /\ p2[j] = p[j] /\ t2[j] = t[j]
          BY <1>1, <2>5, <3>1
        <4> QED BY <2>5, <4>1 DEF Levels, k
      <3>2. CASE l = k + 1 /\ j = k + 1
        BY <2>1, <3>2
      <3>3. CASE l = k + 1 /\ j # k + 1
        <4>1. /\ p2[l] = p[k] + v.begin /\ t2[l] = v.end - v.begin
              /\ j \in 0 .. k /\ p2[j] = p[j] /\ t2[j] = t[j]
          BY <1>1, <3>3
        <4>2. p[j] <= p[k] /\ p[k] + t[k] <= p[j] + t[j] /\ p[j] \in Nat /\ t[j] \in Nat
          <5>1. j \in 0 .. k /\ k \in 0 .. k /\ j <= k
            BY <1>1, <4>1
          <5>2. p[j] <= p[k] /\ p[k] + t[k] <= p[j] + t[j]
            BY <5>1 DEF Levels, k
          <5> QED BY <2>0, <5>1, <5>2
        <4>3. /\ p[j] <= p[k] + v.begin
              /\ (p[k] + v.begin) + (v.end - v.begin) <= p[j] + t[j]
          <5> DEFINE pk == p[k]
                     tk == t[k]
                     pj == p[j]
                     tj == t[j]
                     from == v.begin
                     to == v.end
          <5>1. /\ pk \in Nat /\ tk \in Nat /\ pj \in Nat /\ tj \in Nat /\ from \in Nat
                /\ to \in Nat /\ to <= tk /\ pj <= pk /\ pk + tk <= pj + tj
            BY <1>5, <1>6, <1>8, <4>2
          <5> HIDE DEF pk, tk, pj, tj, from, to
          <5>2. pj <= pk + from /\ (pk + from) + (to - from) <= pj + tj
            BY <5>1
          <5> QED BY <5>2 DEF pk, tk, pj, tj, from, to
        <4> QED BY <4>1, <4>3
      <3> QED BY <3>1, <3>2, <3>3
    <2>6. Len(c.views) = k + 1
      BY <1>2, <1>3
    <2> HIDE DEF p2, i2, t2
    <2> QED BY <2>1, <2>2, <2>3, <2>4, <2>5, <2>6 DEF Levels
  <1>10. HasLevels(c)
    <2> HIDE DEF p2, i2, t2
    <2> QED BY <1>9 DEF HasLevels
  <1> QED BY <1>4, <1>10 DEF c

(* Taking a slice off leaves the levels below it.                          *)
LEMMA Popped ==
  ASSUME NEW b \in OnePiece, HasLevels(b), b.views # <<>>
  PROVE  /\ [b EXCEPT !.views = Front(@)] \in OnePiece
         /\ HasLevels([b EXCEPT !.views = Front(@)])
  <1>0. PICK p, i, t : Levels(b, p, i, t)
    BY DEF HasLevels
  <1> DEFINE k == Len(b.views) - 1
             c == [b EXCEPT !.views = Front(@)]
             p2 == [j \in 0 .. k |-> p[j]]
             i2 == [j \in 0 .. k |-> i[j]]
             t2 == [j \in 0 .. k |-> t[j]]
  <1>1. /\ b.views \in Seq(View) /\ b.mem \in Memory /\ b.len \in Nat /\ b.kind \in Kinds
        /\ b = [kind |-> b.kind, mem |-> b.mem, len |-> b.len, views |-> b.views]
        /\ k \in Nat /\ Len(b.mem) \in Nat
    <2>1. /\ b.views \in Seq(View) /\ b.mem \in Memory /\ b.len \in Nat /\ b.kind \in Kinds
          /\ b = [kind |-> b.kind, mem |-> b.mem, len |-> b.len, views |-> b.views]
          /\ Len(b.mem) \in Nat
      BY DEF OnePiece, Memory
    <2>2. Len(b.views) \in Nat /\ Len(b.views) # 0
      BY <2>1, EmptySeq
    <2> QED BY <2>1, <2>2
  <1>2. /\ c.kind = b.kind /\ c.mem = b.mem /\ c.len = b.len
        /\ c.views = Front(b.views)
        /\ c = [kind |-> b.kind, mem |-> b.mem, len |-> b.len, views |-> Front(b.views)]
    BY <1>1
  <1>3. /\ Front(b.views) \in Seq(View) /\ Len(Front(b.views)) = k
        /\ \A j \in 1 .. k : Front(b.views)[j] = b.views[j]
    <2>1. \A j \in 1 .. k : b.views[j] \in View
      BY <1>1
    <2>2. 1 \in Int /\ k \in Int
      BY <1>1
    <2>3. /\ SubSeq(b.views, 1, k) \in Seq(View)
          /\ Len(SubSeq(b.views, 1, k)) = IF 1 <= k THEN k - 1 + 1 ELSE 0
          /\ \A j \in 1 .. k - 1 + 1 : SubSeq(b.views, 1, k)[j] = b.views[1 + j - 1]
      <3> HIDE DEF k
      <3> QED BY <2>1, <2>2, SubSeqProperties
    <2>4. Front(b.views) = SubSeq(b.views, 1, k)
      BY DEF Front
    <2> HIDE DEF k
    <2> QED BY <1>1, <2>3, <2>4
  <1>4. c \in OnePiece
    BY <1>1, <1>2, <1>3 DEF OnePiece
  <1>5. /\ \A j \in 0 .. k : j \in 0 .. Len(b.views)
        /\ \A j \in 1 .. k : j \in 1 .. Len(b.views) /\ j - 1 \in 0 .. k
    BY <1>1
  <1>6. Levels(c, p2, i2, t2)
    <2> HIDE DEF k, c
    <2>1. p2 \in [0 .. k -> Nat] /\ i2 \in [0 .. k -> Nat] /\ t2 \in [0 .. k -> Nat]
      BY <1>0, <1>5 DEF Levels
    <2>2. p2[0] = 0 /\ i2[0] = c.len /\ t2[0] = Len(c.mem)
      BY <1>0, <1>1, <1>2 DEF Levels
    <2>3. ASSUME NEW j \in 1 .. k
          PROVE  /\ p2[j] = p2[j - 1] + c.views[j].begin
                 /\ i2[j] = ViewInit(i2[j - 1], c.views[j])
                 /\ t2[j] = c.views[j].end - c.views[j].begin
      <3>1. j \in 0 .. k
        BY <1>1
      <3>2. p2[j] = p[j] /\ p2[j - 1] = p[j - 1] /\ i2[j] = i[j]
              /\ i2[j - 1] = i[j - 1] /\ t2[j] = t[j]
        BY <1>5, <3>1
      <3> QED BY <1>0, <1>2, <1>3, <1>5, <3>2 DEF Levels
    <2>4. ASSUME NEW j \in 0 .. k
          PROVE  /\ p2[j] + i2[j] <= c.len /\ i2[j] <= t2[j]
                 /\ (c.kind # "Vec" => i2[j] = t2[j])
      BY <1>0, <1>2, <1>5 DEF Levels
    <2>5. ASSUME NEW j \in 0 .. k, NEW l \in 0 .. k, j <= l
          PROVE  p2[j] <= p2[l] /\ p2[l] + t2[l] <= p2[j] + t2[j]
      BY <1>0, <1>5, <2>5 DEF Levels
    <2>6. Len(c.views) = k
      BY <1>2, <1>3
    <2> HIDE DEF p2, i2, t2
    <2> QED BY <2>1, <2>2, <2>3, <2>4, <2>5, <2>6 DEF Levels
  <1>7. HasLevels(c)
    <2> HIDE DEF p2, i2, t2
    <2> QED BY <1>6 DEF HasLevels
  <1> HIDE DEF c
  <1> QED BY <1>4, <1>7 DEF c

(* The outermost level is inside all the others.                           *)
LEMMA LevelFacts ==
  ASSUME NEW b \in OnePiece, NEW p, NEW i, NEW t, Levels(b, p, i, t)
  PROVE  /\ Len(b.views) \in Nat /\ Len(b.views) \in 0 .. Len(b.views)
         /\ \A j \in 0 .. Len(b.views) :
              /\ p[j] \in Nat /\ i[j] \in Nat /\ t[j] \in Nat
              /\ p[j] <= p[Len(b.views)]
              /\ p[Len(b.views)] + t[Len(b.views)] <= p[j] + t[j]
  <1> DEFINE k == Len(b.views)
  <1>1. k \in Nat
    BY DEF OnePiece
  <1>2. /\ p \in [0 .. k -> Nat] /\ i \in [0 .. k -> Nat] /\ t \in [0 .. k -> Nat]
        /\ \A j, l \in 0 .. k : j <= l => p[j] <= p[l] /\ p[l] + t[l] <= p[j] + t[j]
    BY DEF Levels
  <1> HIDE DEF k
  <1>3. k \in 0 .. k /\ \A j \in 0 .. k : j <= k
    BY <1>1
  <1>4. \A j \in 0 .. k : p[j] \in Nat /\ i[j] \in Nat /\ t[j] \in Nat
    BY <1>2
  <1>5. \A j \in 0 .. k : p[j] <= p[k] /\ p[k] + t[k] <= p[j] + t[j]
    BY <1>2, <1>3
  <1> QED BY <1>1, <1>3, <1>4, <1>5 DEF k

(* Writing to the memory does not change the levels.                       *)
LEMMA Refilled ==
  ASSUME NEW b \in OnePiece, NEW p, NEW i, NEW t, Levels(b, p, i, t),
         NEW m \in Memory, Len(m) = Len(b.mem)
  PROVE  /\ [b EXCEPT !.mem = m] \in OnePiece
         /\ Levels([b EXCEPT !.mem = m], p, i, t)
  <1> DEFINE c == [b EXCEPT !.mem = m]
  <1>1. c.kind = b.kind /\ c.mem = m /\ c.len = b.len /\ c.views = b.views
        /\ c \in OnePiece
    BY DEF OnePiece
  <1> HIDE DEF c
  <1>2. Levels(c, p, i, t)
    BY <1>1 DEF Levels
  <1> QED BY <1>1, <1>2 DEF c

(* set_init after a read of n bytes into nested SliceMuts: the length of   *)
(* the Vec is set from the outermost slice, which may shorten what the     *)
(* levels below have, and they are still nested.                           *)
LEMMA Lengthened ==
  ASSUME NEW b \in OnePiece, NEW p, NEW i, NEW t, Levels(b, p, i, t),
         b.kind = "Vec",
         \A j \in 1 .. Len(b.views) : b.views[j].kind = "SliceMut",
         NEW n \in Nat, n <= t[Len(b.views)]
  PROVE  LET c == [b EXCEPT !.len = p[Len(b.views)] + n]
         IN  /\ c \in OnePiece
             /\ \E i2 : Levels(c, p, i2, t) /\ i2[Len(b.views)] = n
  <1> DEFINE k == Len(b.views)
             c == [b EXCEPT !.len = p[k] + n]
             i2 == [j \in 0 .. k |-> p[k] + n - p[j]]
  <1>0. k \in Nat /\ b.views \in Seq(View)
    BY DEF OnePiece
  <1>1. /\ \A j \in 0 .. k : p[j] \in Nat /\ i[j] \in Nat /\ t[j] \in Nat
        /\ k \in 0 .. k
    BY LevelFacts
  <1>2. \A j \in 0 .. k : p[j] <= p[k] /\ p[k] + t[k] <= p[j] + t[j]
    BY LevelFacts
  <1>3. c.kind = b.kind /\ c.mem = b.mem /\ c.len = p[k] + n /\ c.views = b.views
        /\ c \in OnePiece
    BY <1>1 DEF OnePiece
  <1> HIDE DEF k, c
  <1>4. \A j \in 0 .. k : /\ i2[j] = p[k] + n - p[j] /\ i2[j] \in Nat
                          /\ i2[j] <= t[j] /\ p[j] + i2[j] = c.len
    <2>1. n <= t[k]
      BY DEF k
    <2> SUFFICES ASSUME NEW j \in 0 .. k
                 PROVE  /\ i2[j] = p[k] + n - p[j] /\ i2[j] \in Nat
                        /\ i2[j] <= t[j] /\ p[j] + i2[j] = c.len
      OBVIOUS
    <2>2. i2[j] = p[k] + n - p[j]
      OBVIOUS
    <2>3. /\ p[j] \in Nat /\ t[j] \in Nat /\ p[k] \in Nat /\ t[k] \in Nat
          /\ p[j] <= p[k] /\ p[k] + t[k] <= p[j] + t[j] /\ c.len = p[k] + n
      BY <1>1, <1>2, <1>3
    <2> HIDE DEF i2
    <2> QED BY <2>1, <2>2, <2>3
  <1>5. i2 \in [0 .. k -> Nat]
    BY <1>4
  <1>6. p[0] = 0 /\ 0 \in 0 .. k /\ i2[0] = c.len
    <2>1. p[0] = 0 /\ 0 \in 0 .. k
      BY <1>0 DEF Levels, k
    <2> HIDE DEF i2
    <2> QED BY <1>1, <1>3, <1>4, <2>1
  <1>7. ASSUME NEW j \in 1 .. k
        PROVE  i2[j] = ViewInit(i2[j - 1], b.views[j])
    <2>1. j \in 0 .. k /\ j - 1 \in 0 .. k
      BY <1>0
    <2>2. p[j] = p[j - 1] + b.views[j].begin /\ t[j] = b.views[j].end - b.views[j].begin
      BY DEF Levels, k
    <2>3. b.views[j].begin \in Nat /\ b.views[j].end \in Nat /\ b.views[j].kind = "SliceMut"
      <3>1. b.views[j] \in View
        BY <1>0 DEF k
      <3>2. b.views[j].kind = "SliceMut"
        BY DEF k
      <3> QED BY <3>1, <3>2 DEF View
    <2>4. /\ i2[j] = p[k] + n - p[j] /\ i2[j] <= t[j]
          /\ i2[j - 1] = p[k] + n - p[j - 1] /\ i2[j] \in Nat /\ i2[j - 1] \in Nat
      BY <1>4, <2>1
    <2> HIDE DEF i2
    <2>5. i2[j - 1] <= b.views[j].end /\ i2[j] = i2[j - 1] - b.views[j].begin
      <3>1. p[j] \in Nat /\ p[j - 1] \in Nat /\ p[k] \in Nat /\ t[j] \in Nat
        BY <1>1, <2>1
      <3> DEFINE from == b.views[j].begin
                 to == b.views[j].end
      <3>2. /\ from \in Nat /\ to \in Nat /\ p[j] = p[j - 1] + from
            /\ t[j] = to - from
        BY <2>2, <2>3
      <3> HIDE DEF from, to
      <3>3. i2[j - 1] <= to /\ i2[j] = i2[j - 1] - from
        <4> DEFINE pj == p[j]
                   pi == p[j - 1]
                   pk == p[k]
                   tj == t[j]
        <4>1. /\ pj \in Nat /\ pi \in Nat /\ pk \in Nat /\ pj = pi + from /\ tj = to - from
              /\ i2[j] = pk + n - pj /\ i2[j - 1] = pk + n - pi /\ i2[j] <= tj
          BY <3>1, <3>2, <2>4
        <4> HIDE DEF pj, pi, pk, tj
        <4> QED BY <3>2, <4>1
      <3> QED BY <3>3 DEF from, to
    <2> QED BY <2>3, <2>4, <2>5 DEF ViewInit, Smaller
  <1>8. i2[k] = n
    BY <1>1, <1>4
  <1> HIDE DEF i2
  <1>9. Levels(c, p, i2, t)
    <2>1. c.views = b.views /\ Len(c.views) = k /\ c.kind = "Vec" /\ Len(c.mem) = Len(b.mem)
      BY <1>3 DEF k
    <2>2. /\ p \in [0 .. k -> Nat] /\ t \in [0 .. k -> Nat] /\ t[0] = Len(b.mem)
          /\ \A j \in 1 .. k : p[j] = p[j - 1] + b.views[j].begin
                               /\ t[j] = b.views[j].end - b.views[j].begin
          /\ \A j, l \in 0 .. k : j <= l => p[j] <= p[l] /\ p[l] + t[l] <= p[j] + t[j]
      BY DEF Levels, k
    <2>3. c.len \in Nat
      BY <1>1, <1>3
    <2>4. \A j \in 0 .. k : p[j] + i2[j] <= c.len /\ i2[j] <= t[j]
      BY <1>4, <2>3
    <2> QED BY <1>5, <1>6, <1>7, <2>1, <2>2, <2>4 DEF Levels
  <1> QED BY <1>3, <1>8, <1>9 DEF c, k

(* Sequences that agree position by position have equal parts.             *)
LEMMA Same ==
  ASSUME NEW A, NEW seen \in Seq(A), NEW f \in Seq(A), NEW pos \in Nat,
         NEW n \in Nat, n <= Len(seen), pos + n <= Len(f),
         \A x \in 1 .. n : seen[x] = f[pos + x]
  PROVE  SubSeq(seen, 1, n) = SubSeq(f, pos + 1, pos + n)
  <1>1. \A x \in 1 .. n : seen[x] \in A
    OBVIOUS
  <1>2. \A x \in pos + 1 .. pos + n : f[x] \in A
    OBVIOUS
  <1> DEFINE u == SubSeq(seen, 1, n)
             v == SubSeq(f, pos + 1, pos + n)
  <1>3. /\ u \in Seq(A) /\ Len(u) = n /\ \A x \in 1 .. n : u[x] = seen[x]
    <2>1. /\ u \in Seq(A) /\ Len(u) = IF 1 <= n THEN n - 1 + 1 ELSE 0
          /\ \A x \in 1 .. n - 1 + 1 : u[x] = seen[1 + x - 1]
      BY <1>1, SubSeqProperties
    <2> HIDE DEF u
    <2> QED BY <2>1
  <1>4. /\ v \in Seq(A) /\ Len(v) = n /\ \A x \in 1 .. n : v[x] = f[pos + x]
    <2> DEFINE a == pos + 1
               z == pos + n
    <2>1. a \in Int /\ z \in Int /\ \A x \in a .. z : f[x] \in A
      BY <1>2
    <2>2. z - a + 1 = n /\ (a <= z <=> n > 0) /\ \A x \in 1 .. n : a + x - 1 = pos + x
      OBVIOUS
    <2>3. v = SubSeq(f, a, z)
      OBVIOUS
    <2> HIDE DEF a, z, v
    <2>4. /\ v \in Seq(A) /\ Len(v) = IF a <= z THEN z - a + 1 ELSE 0
          /\ \A x \in 1 .. z - a + 1 : v[x] = f[a + x - 1]
      BY <2>1, <2>3, SubSeqProperties
    <2>5. Len(v) = n
      BY <2>2, <2>4
    <2>6. \A x \in 1 .. n : v[x] = f[pos + x]
      <3>1. \A x \in 1 .. n : v[x] = f[a + x - 1]
        BY <2>2, <2>4
      <3> QED BY <2>2, <3>1
    <2> QED BY <2>4, <2>5, <2>6
  <1> HIDE DEF u, v
  <1>5. u = v
    BY <1>3, <1>4, SeqEqual
  <1> QED BY <1>5 DEF u, v

-----------------------------------------------------------------------------
(* The vectors of a VecBuf, and VecBufs.                                   *)
Pieces == [mem : Memory, len : Nat]
VecBufs == [kind : {"VecBuf"}, raw : Seq(Pieces), iovecs : Seq(Nat)]

(* What holds of a buffer of one piece, and of a VecBuf: after a short     *)
(* read the iovecs still have the lengths from before, and what either     *)
(* describes is initialized.                                               *)
OnePieceSafe(b) == b \in OnePiece /\ Holds(b.mem, b.len) /\ HasLevels(b)
VecBufSafe(b) ==
  /\ b \in VecBufs /\ Len(b.iovecs) = Len(b.raw)
  /\ \A i \in 1 .. Len(b.raw) :
       Holds(b.raw[i].mem, b.raw[i].len) /\ Holds(b.raw[i].mem, b.iovecs[i])

(* The inductive invariant.                                                *)
BuffersInv ==
  /\ file \in Seq(Byte)
  /\ OnePieceSafe(buf) \/ VecBufSafe(buf)
  /\ TransfersExact

(* The two kinds of buffers are told apart by their kind.                  *)
LEMMA Kind ==
  ASSUME NEW b
  PROVE  /\ OnePieceSafe(b) => b.kind \in Kinds /\ b.kind # "VecBuf" /\ IsIoBuf(b)
         /\ VecBufSafe(b) => b.kind = "VecBuf" /\ ~IsIoBuf(b) /\ ~IsIoBufMut(b)
  BY DEF OnePieceSafe, VecBufSafe, OnePiece, VecBufs, Kinds, IsIoBuf, IsIoBufMut

(* Nothing is claimed of the transfer before last.                         *)
LEMMA NoTransfer == result' = NoResult => TransfersExact'
  BY DEF TransfersExact

(* What a buffer of one piece shows.                                       *)
LEMMA BytesIs ==
  ASSUME NEW b \in OnePiece, NEW p, NEW i, NEW t, Levels(b, p, i, t)
  PROVE  /\ Bytes(b) \in Memory /\ Len(Bytes(b)) = i[Len(b.views)]
         /\ \A x \in 1 .. i[Len(b.views)] : Bytes(b)[x] = b.mem[p[Len(b.views)] + x]
         /\ p[Len(b.views)] + i[Len(b.views)] <= b.len
  <1> DEFINE k == Len(b.views)
             a == p[k] + 1
             z == p[k] + i[k]
             A == Byte \cup {Uninit}
  <1>1. /\ p[k] \in Nat /\ i[k] \in Nat /\ t[k] \in Nat /\ k \in 0 .. k
    BY LevelFacts
  <1>2. p[k] + i[k] <= b.len /\ b.len <= Len(b.mem)
    <2>1. k \in 0 .. k /\ 0 \in 0 .. k
      BY LevelFacts
    <2>2. p[k] + i[k] <= b.len /\ i[0] <= t[0] /\ i[0] = b.len /\ t[0] = Len(b.mem)
      BY <2>1 DEF Levels
    <2> QED BY <2>2
  <1>3. b.mem \in Seq(A) /\ b.len \in Nat /\ Len(b.mem) \in Nat
    BY DEF OnePiece, Memory
  <1>4. Bytes(b) = SubSeq(b.mem, a, z)
    BY LevelsGive DEF Bytes
  <1>5. a \in Int /\ z \in Int /\ z - a + 1 = i[k] /\ (a <= z <=> i[k] > 0)
        /\ \A x \in 1 .. i[k] : a + x - 1 = p[k] + x
    <2> HIDE DEF k
    <2> QED BY <1>1
  <1>6. \A x \in a .. z : b.mem[x] \in A
    <2>1. \A x \in a .. z : x \in 1 .. Len(b.mem)
      <3> HIDE DEF k
      <3> QED BY <1>1, <1>2, <1>3
    <2> HIDE DEF a, z, A
    <2> QED BY <1>3, <2>1
  <1> HIDE DEF k, a, z, A
  <1>7. /\ Bytes(b) \in Seq(A) /\ Len(Bytes(b)) = IF a <= z THEN z - a + 1 ELSE 0
        /\ \A x \in 1 .. z - a + 1 : Bytes(b)[x] = b.mem[a + x - 1]
    BY <1>4, <1>5, <1>6, SubSeqProperties
  <1>8. Len(Bytes(b)) = i[k]
    BY <1>1, <1>5, <1>7
  <1>9. \A x \in 1 .. i[k] : Bytes(b)[x] = b.mem[p[k] + x]
    <2>1. \A x \in 1 .. i[k] : Bytes(b)[x] = b.mem[a + x - 1]
      BY <1>5, <1>7
    <2> QED BY <1>5, <2>1
  <1> QED BY <1>2, <1>7, <1>8, <1>9 DEF k, A, Memory

(* A range is a pair of numbers.                                           *)
LEMMA RangeIs ==
  ASSUME NEW start \in Bounds, NEW stop \in Bounds, NEW end \in Nat
  PROVE  /\ parse_range(start, stop, end).begin \in Nat
         /\ parse_range(start, stop, end).end \in Nat
  <1>1. /\ start.kind \in {"Included", "Excluded", "Unbounded"} /\ start.n \in Nat
        /\ stop.kind \in {"Included", "Excluded", "Unbounded"} /\ stop.n \in Nat
    BY BuffersAssumption DEF BuffersAssumption
  <1>2. CASE start.kind = "Included"
    BY <1>1, <1>2 DEF parse_range
  <1>3. CASE start.kind = "Excluded"
    BY <1>1, <1>3 DEF parse_range
  <1>4. CASE start.kind = "Unbounded"
    BY <1>1, <1>4 DEF parse_range
  <1> QED BY <1>1, <1>2, <1>3, <1>4

(* One lemma for each action: slice and slice_mut,                         *)
LEMMA SlicedStep ==
  ASSUME BuffersInv, NEW start \in Bounds, NEW stop \in Bounds,
         slice(start, stop) \/ slice_mut(start, stop)
  PROVE  BuffersInv'
  <1>1. IsIoBuf(buf)
    BY DEF slice, slice_mut, IsIoBuf, IsIoBufMut, Kinds
  <1>2. OnePieceSafe(buf)
    BY <1>1, Kind DEF BuffersInv
  <1>3. PICK p, i, t : Levels(buf, p, i, t)
    BY <1>2 DEF OnePieceSafe, HasLevels
  <1> DEFINE k == Len(buf.views)
  <1>4. /\ bytes_init(buf) = i[k] /\ bytes_total(buf) = t[k] /\ buf \in OnePiece
        /\ i[k] \in Nat /\ t[k] \in Nat
    BY <1>2, <1>3, LevelsGive, LevelFacts DEF OnePieceSafe
  <1> HIDE DEF k
  <1>5. PICK v \in View :
          /\ buf' = [buf EXCEPT !.views = Append(@, v)]
          /\ v.begin <= v.end
          /\ \/ v.kind = "SliceMut" /\ v.end <= t[k] /\ v.begin <= i[k]
             \/ v.kind = "Slice" /\ v.end <= i[k]
    <2>1. CASE slice(start, stop)
      <3> DEFINE range == parse_range(start, stop, bytes_init(buf))
                 v == [kind |-> "Slice", begin |-> range.begin, end |-> range.end]
      <3>1. range.begin \in Nat /\ range.end \in Nat
        BY <1>4, RangeIs
      <3>2. range.end <= i[k] /\ range.begin <= range.end
            /\ buf' = [buf EXCEPT !.views = Append(@, v)]
        BY <2>1, <1>4 DEF slice, Sliced
      <3> HIDE DEF range
      <3>3. v \in View /\ v.kind = "Slice" /\ v.begin = range.begin /\ v.end = range.end
        BY <3>1 DEF View
      <3> HIDE DEF v
      <3> QED BY <3>2, <3>3
    <2>2. CASE slice_mut(start, stop)
      <3> DEFINE range == parse_range(start, stop, bytes_total(buf))
                 v == [kind |-> "SliceMut", begin |-> range.begin, end |-> range.end]
      <3>1. range.begin \in Nat /\ range.end \in Nat
        BY <1>4, RangeIs
      <3>2. range.end <= t[k] /\ range.begin <= range.end /\ range.begin <= i[k]
            /\ buf' = [buf EXCEPT !.views = Append(@, v)]
        BY <2>2, <1>4 DEF slice_mut, Sliced
      <3> HIDE DEF range
      <3>3. v \in View /\ v.kind = "SliceMut" /\ v.begin = range.begin /\ v.end = range.end
        BY <3>1 DEF View
      <3> HIDE DEF v
      <3> QED BY <3>2, <3>3
    <2> QED BY <2>1, <2>2
  <1>6. buf' \in OnePiece /\ HasLevels(buf')
    BY <1>3, <1>4, <1>5, SlicePushed DEF k
  <1>7. buf'.mem = buf.mem /\ buf'.len = buf.len
    BY <1>4, <1>5 DEF OnePiece
  <1>8. OnePieceSafe(buf')
    BY <1>2, <1>6, <1>7 DEF OnePieceSafe
  <1>9. file' = file /\ result' = NoResult
    BY DEF slice, slice_mut, Sliced
  <1> QED BY <1>8, <1>9, NoTransfer DEF BuffersInv, OnePieceSafe, VecBufSafe

(* into_inner,                                                             *)
LEMMA PoppedStep ==
  ASSUME BuffersInv, into_inner
  PROVE  BuffersInv'
  <1>1. OnePieceSafe(buf)
    BY Kind DEF BuffersInv, into_inner
  <1>2. buf' \in OnePiece /\ HasLevels(buf')
    BY <1>1, Popped DEF into_inner, OnePieceSafe
  <1>3. buf'.mem = buf.mem /\ buf'.len = buf.len
    BY <1>1 DEF into_inner, OnePiece, OnePieceSafe
  <1>4. OnePieceSafe(buf')
    BY <1>1, <1>2, <1>3 DEF OnePieceSafe
  <1>5. file' = file /\ result' = NoResult
    BY DEF into_inner
  <1> QED BY <1>4, <1>5, NoTransfer DEF BuffersInv, OnePieceSafe, VecBufSafe

(* read_at, where short reads and failed ones leave the rest of the memory *)
(* as it was,                                                              *)
LEMMA ReadStep ==
  ASSUME BuffersInv, NEW pos \in Positions, NEW n \in Positions, NEW ok \in BOOLEAN,
         read_at(pos, n, ok)
  PROVE  BuffersInv'
  <1>1. /\ OnePieceSafe(buf) /\ buf.kind \in {"Vec", "Box"}
        /\ \A j \in DOMAIN buf.views : buf.views[j].kind = "SliceMut"
    BY Kind DEF BuffersInv, read_at, IsIoBufMut
  <1>2. PICK p, i, t : Levels(buf, p, i, t)
    BY <1>1 DEF OnePieceSafe, HasLevels
  <1> DEFINE k == Len(buf.views)
             A == Byte \cup {Uninit}
             mem == Copied(buf.mem, Ptr(buf), file, pos, n)
             read == [buf EXCEPT !.mem = mem]
  <1>3. /\ buf \in OnePiece /\ Ptr(buf) = p[k] /\ bytes_total(buf) = t[k]
        /\ p[k] \in Nat /\ i[k] \in Nat /\ t[k] \in Nat
        /\ buf.views \in Seq(View) /\ buf.len \in Nat /\ buf.mem \in Seq(A)
        /\ Len(buf.mem) \in Nat
    <2>1. buf \in OnePiece
      BY <1>1 DEF OnePieceSafe
    <2>2. /\ buf.views \in Seq(View) /\ buf.len \in Nat /\ buf.mem \in Seq(A)
          /\ Len(buf.mem) \in Nat
      BY <2>1 DEF OnePiece, Memory
    <2> QED BY <1>2, <2>1, <2>2, LevelsGive, LevelFacts
  <1>4. /\ pos \in Nat /\ n \in Nat /\ pos + n <= Len(file) /\ n <= t[k]
        /\ file \in Seq(Byte) /\ Len(file) \in Nat
    <2>1. file \in Seq(Byte) /\ Len(file) \in Nat /\ pos \in Nat /\ n \in Nat
      BY DEF BuffersInv, Positions
    <2>2. n <= Smaller(t[k], Len(file) - pos)
      BY <1>3 DEF read_at
    <2> HIDE DEF k
    <2> QED BY <1>3, <2>1, <2>2 DEF Smaller
  <1>5. \A x \in pos + 1 .. pos + n : file[x] \in Byte
    BY <1>4
  <1>6. /\ mem \in Seq(A) /\ Len(mem) = Len(buf.mem)
        /\ \A x \in 1 .. Len(buf.mem) :
             mem[x] = IF x \in p[k] + 1 .. p[k] + n THEN file[pos + x - p[k]] ELSE buf.mem[x]
    <2>1. Within(file, pos, n, A)
      BY <1>5 DEF Within
    <2>2. mem = Copied(buf.mem, p[k], file, pos, n)
      BY <1>3
    <2> HIDE DEF A, k, mem
    <2>3. buf.mem \in Seq(A) /\ p[k] \in Nat /\ pos \in Nat /\ n \in Nat
      BY <1>3, <1>4
    <2>4. mem \in Seq(A) /\ CopyOf(mem, buf.mem, p[k], file, pos, n)
      BY <2>1, <2>2, <2>3, CopiedIs
    <2> QED BY <2>4 DEF CopyOf
  <1>7. read \in OnePiece /\ Levels(read, p, i, t) /\ read.mem = mem /\ read.len = buf.len
        /\ read.views = buf.views /\ read.kind = buf.kind
    <2>1. mem \in Memory
      BY <1>6 DEF Memory
    <2>2. read.mem = mem /\ read.len = buf.len
          /\ read.views = buf.views /\ read.kind = buf.kind
      BY <1>3 DEF OnePiece
    <2> HIDE DEF mem, k
    <2> QED BY <1>2, <1>3, <1>6, <2>1, <2>2, Refilled
  <1>8. p[k] + i[k] <= buf.len /\ buf.len <= Len(buf.mem) /\ p[k] + t[k] <= Len(buf.mem)
        /\ (buf.kind # "Vec" => i[k] = t[k] /\ buf.len = Len(buf.mem))
    <2>1. k \in 0 .. k /\ 0 \in 0 .. k /\ 0 <= k
      BY <1>2, <1>3, LevelFacts
    <2>2. p[k] + i[k] <= buf.len /\ i[0] <= t[0] /\ i[0] = buf.len /\ t[0] = Len(buf.mem)
          /\ p[0] = 0 /\ p[k] + t[k] <= p[0] + t[0]
          /\ (buf.kind # "Vec" => i[k] = t[k] /\ i[0] = t[0])
      BY <1>2, <2>1 DEF Levels
    <2> QED BY <1>3, <2>2
  <1>9. \A x \in 1 .. buf.len : buf.mem[x] # Uninit
    <2>1. Holds(buf.mem, buf.len) /\ buf.mem \in Memory
      BY <1>1, <1>3 DEF OnePieceSafe, Memory
    <2>2. buf.len \in 0 .. Len(buf.mem)
      BY <1>3, <1>8
    <2> QED BY <2>1, <2>2, HoldsIs
  <1>10. Uninit \notin Byte
    BY BuffersAssumption DEF BuffersAssumption
  <1>11. /\ \A x \in 1 .. buf.len : mem[x] # Uninit
         /\ \A x \in 1 .. p[k] + n : mem[x] # Uninit
         /\ \A x \in 1 .. n : mem[p[k] + x] = file[pos + x]
    <2> HIDE DEF mem, k
    <2>1. ASSUME NEW x \in 1 .. Len(buf.mem), x \in p[k] + 1 .. p[k] + n
          PROVE  mem[x] = file[pos + x - p[k]] /\ mem[x] # Uninit
      <3>1. mem[x] = file[pos + x - p[k]]
        BY <1>6, <2>1
      <3>2. pos + x - p[k] \in pos + 1 .. pos + n
        BY <1>3, <1>4, <2>1
      <3> QED BY <1>5, <1>10, <3>1, <3>2
    <2>2. ASSUME NEW x \in 1 .. buf.len
          PROVE  mem[x] # Uninit
      <3>1. x \in 1 .. Len(buf.mem)
        BY <1>3, <1>8
      <3> QED BY <1>6, <1>9, <2>1, <3>1
    <2>3. ASSUME NEW x \in 1 .. p[k] + n
          PROVE  mem[x] # Uninit
      <3>1. x \in 1 .. Len(buf.mem)
        BY <1>3, <1>4, <1>8
      <3>2. x \in p[k] + 1 .. p[k] + n \/ x \in 1 .. buf.len
        BY <1>3, <1>4, <1>8
      <3> QED BY <2>1, <2>2, <3>1, <3>2
    <2>4. ASSUME NEW x \in 1 .. n
          PROVE  mem[p[k] + x] = file[pos + x]
      <3>1. p[k] + x \in 1 .. Len(buf.mem) /\ p[k] + x \in p[k] + 1 .. p[k] + n
            /\ pos + (p[k] + x) - p[k] = pos + x
        <4> DEFINE q == p[k]
                   tk == t[k]
                   size == Len(buf.mem)
        <4>1. /\ q \in Nat /\ tk \in Nat /\ n \in Nat /\ n <= tk /\ q + tk <= size
              /\ size \in Nat /\ pos \in Nat /\ x \in Nat /\ 1 <= x /\ x <= n
          BY <1>3, <1>4, <1>8
        <4> HIDE DEF q, tk, size
        <4>2. /\ q + x \in 1 .. size /\ q + x \in q + 1 .. q + n
              /\ pos + (q + x) - q = pos + x
          BY <4>1
        <4> QED BY <4>2 DEF q, size
      <3>2. mem[p[k] + x] = file[pos + (p[k] + x) - p[k]]
        BY <2>1, <3>1
      <3> QED BY <3>1, <3>2
    <2> QED BY <2>2, <2>3, <2>4
  <1>12. /\ buf' = IF ok THEN set_init(read, n) ELSE read
         /\ result' = IF ok THEN Transfer("read", pos, n) ELSE NoResult
         /\ file' = file
    BY DEF read_at
  <1> HIDE DEF mem, read, k, A
  <1>13. \E i2 : /\ buf' \in OnePiece /\ Levels(buf', p, i2, t) /\ buf'.mem = mem
                 /\ buf'.views = buf.views
                 /\ buf'.len \in {buf.len, p[k] + n}
                 /\ ok => n <= i2[k]
    <2>1. CASE ok /\ buf.kind = "Vec"
      <3>1. Ptr(read) = p[k]
        BY <1>3, <1>7 DEF Ptr
      <3>2. buf' = [read EXCEPT !.len = p[k] + n]
        BY <1>7, <1>12, <2>1, <3>1 DEF set_init
      <3>3. /\ buf' \in OnePiece
            /\ \E i2 : Levels(buf', p, i2, t) /\ i2[k] = n
        <4>1. /\ read.kind = "Vec" /\ Len(read.views) = k
              /\ \A j \in 1 .. Len(read.views) : read.views[j].kind = "SliceMut"
          BY <1>1, <1>3, <1>7, <2>1 DEF k
        <4> QED BY <1>4, <1>7, <3>2, <4>1, Lengthened
      <3>4. buf'.mem = mem /\ buf'.views = buf.views /\ buf'.len = p[k] + n
        BY <1>7, <3>2 DEF OnePiece
      <3>5. PICK i2 : Levels(buf', p, i2, t) /\ i2[k] = n
        BY <3>3
      <3> QED BY <1>4, <3>3, <3>4, <3>5
    <2>2. CASE ~ok \/ buf.kind # "Vec"
      <3>1. buf' = read
        BY <1>7, <1>12, <2>2 DEF set_init
      <3>2. ok => n <= i[k]
        BY <1>4, <1>8, <2>2
      <3> QED BY <1>7, <3>1, <3>2
    <2> QED BY <2>1, <2>2
  <1>14. PICK i2 : /\ buf' \in OnePiece /\ Levels(buf', p, i2, t) /\ buf'.mem = mem
                   /\ buf'.views = buf.views
                   /\ buf'.len \in {buf.len, p[k] + n}
                   /\ ok => n <= i2[k]
    BY <1>13
  <1>15. OnePieceSafe(buf')
    <2>1. HasLevels(buf')
      BY <1>14 DEF HasLevels
    <2>2. mem \in Memory
      BY <1>6 DEF Memory, A
    <2>3. buf'.len \in 0 .. Len(mem)
      <3> DEFINE pk == p[k]
                 tk == t[k]
                 size == Len(mem)
                 new == buf'.len
      <3>1. /\ pk \in Nat /\ tk \in Nat /\ n \in Nat /\ size \in Nat /\ buf.len \in Nat
            /\ n <= tk /\ pk + tk <= size /\ buf.len <= size
        BY <1>3, <1>4, <1>6, <1>8
      <3>2. new = buf.len \/ new = pk + n
        BY <1>14
      <3> HIDE DEF pk, tk, size, new
      <3>3. new \in 0 .. size
        BY <3>1, <3>2
      <3> QED BY <3>3 DEF size, new
    <2>4. \A x \in 1 .. buf'.len : mem[x] # Uninit
      BY <1>11, <1>14
    <2>5. Holds(mem, buf'.len)
      BY <2>2, <2>3, <2>4, HoldsIs
    <2> QED BY <1>14, <2>1, <2>5 DEF OnePieceSafe
  <1>16. TransfersExact'
    <2>1. CASE ~ok
      BY <1>12, <2>1, NoTransfer
    <2>2. CASE ok
      <3> DEFINE seen == Bytes(buf')
      <3>1. /\ seen \in Seq(A) /\ Len(seen) = i2[k]
            /\ \A x \in 1 .. i2[k] : seen[x] = mem[p[k] + x]
            /\ i2[k] \in Nat
        <4>1. Len(buf'.views) = k
          BY <1>14 DEF k
        <4>2. i2[k] \in Nat
          BY <1>14, <4>1, LevelFacts
        <4> QED BY <1>14, <4>1, <4>2, BytesIs DEF A, Memory
      <3> HIDE DEF seen
      <3>2. n <= Len(seen) /\ \A x \in 1 .. n : seen[x] = file[pos + x]
        <4>1. n <= i2[k]
          BY <1>14, <2>2
        <4>2. \A x \in 1 .. n : x \in 1 .. i2[k]
          BY <1>4, <3>1, <4>1
        <4> QED BY <1>11, <3>1, <4>1, <4>2
      <3>3. file \in Seq(A)
        BY <1>4 DEF A
      <3>4. SubSeq(seen, 1, n) = SubSeq(file, pos + 1, pos + n)
        BY <1>4, <3>1, <3>2, <3>3, Same
      <3>5. result' = Transfer("read", pos, n) /\ result'.n = n /\ result'.pos = pos
        BY <1>12, <2>2 DEF Transfer
      <3>6. buf'.kind # "VecBuf"
        BY <1>15, Kind
      <3>7. Len(seen) >= n
        BY <1>4, <3>1, <3>2
      <3> QED BY <1>12, <3>4, <3>5, <3>6, <3>7 DEF TransfersExact, seen
    <2> QED BY <2>1, <2>2
  <1> QED BY <1>4, <1>12, <1>15, <1>16 DEF BuffersInv, OnePieceSafe, VecBufSafe

(* and write_at.                                                           *)
LEMMA WriteStep ==
  ASSUME BuffersInv, NEW pos \in Positions, NEW n \in Positions, write_at(pos, n)
  PROVE  BuffersInv'
  <1>1. OnePieceSafe(buf)
    BY Kind DEF BuffersInv, write_at
  <1>2. PICK p, i, t : Levels(buf, p, i, t)
    BY <1>1 DEF OnePieceSafe, HasLevels
  <1> DEFINE k == Len(buf.views)
             A == Byte \cup {Uninit}
             seen == Bytes(buf)
  <1>3. /\ buf \in OnePiece /\ Ptr(buf) = p[k] /\ bytes_init(buf) = i[k]
        /\ p[k] \in Nat /\ i[k] \in Nat
        /\ buf.len \in Nat /\ buf.mem \in Seq(A) /\ Len(buf.mem) \in Nat
    <2>1. buf \in OnePiece
      BY <1>1 DEF OnePieceSafe
    <2>2. /\ buf.len \in Nat /\ buf.mem \in Seq(A) /\ Len(buf.mem) \in Nat
      BY <2>1 DEF OnePiece, Memory
    <2> QED BY <1>2, <2>1, <2>2, LevelsGive, LevelFacts
  <1>4. /\ seen \in Seq(A) /\ Len(seen) = i[k]
        /\ \A x \in 1 .. i[k] : seen[x] = buf.mem[p[k] + x]
        /\ p[k] + i[k] <= buf.len
    BY <1>2, <1>3, BytesIs DEF Memory
  <1>5. /\ pos \in Nat /\ n \in Nat /\ pos + n <= Len(file) /\ n <= i[k]
        /\ file \in Seq(Byte) /\ Len(file) \in Nat
    <2>1. file \in Seq(Byte) /\ Len(file) \in Nat /\ pos \in Nat /\ n \in Nat
      BY DEF BuffersInv, Positions
    <2>2. n <= Smaller(i[k], Len(file) - pos)
      BY <1>3 DEF write_at
    <2> HIDE DEF k
    <2> QED BY <1>3, <2>1, <2>2 DEF Smaller
  <1>6. /\ file' = Copied(file, pos, buf.mem, p[k], n)
        /\ result' = Transfer("write", pos, n)
        /\ buf' = buf
    BY <1>3 DEF write_at
  <1> HIDE DEF k, seen
  <1>7. Within(buf.mem, p[k], n, Byte)
    <2> SUFFICES ASSUME NEW x \in p[k] + 1 .. p[k] + n PROVE buf.mem[x] \in Byte
      BY DEF Within
    <2>1. Holds(buf.mem, buf.len) /\ buf.mem \in Memory /\ buf.len \in 0 .. Len(buf.mem)
      BY <1>1 DEF OnePieceSafe, Holds
    <2>2. x \in 1 .. buf.len
      BY <1>3, <1>4, <1>5
    <2>3. buf.mem[x] # Uninit
      BY <2>1, <2>2, HoldsIs
    <2>4. x \in 1 .. Len(buf.mem)
      BY <2>1, <2>2
    <2> QED BY <1>3, <2>3, <2>4
  <1>8. file' \in Seq(Byte) /\ CopyOf(file', file, pos, buf.mem, p[k], n)
    BY <1>3, <1>5, <1>6, <1>7, CopiedIs
  <1>9. \A x \in 1 .. n : seen[x] = file'[pos + x]
    <2> SUFFICES ASSUME NEW x \in 1 .. n PROVE seen[x] = file'[pos + x]
      OBVIOUS
    <2>1. seen[x] = buf.mem[p[k] + x]
      BY <1>3, <1>4, <1>5
    <2>2. pos + x \in 1 .. Len(file) /\ pos + x \in pos + 1 .. pos + n
          /\ p[k] + (pos + x) - pos = p[k] + x
      BY <1>3, <1>5
    <2>3. file'[pos + x] = buf.mem[p[k] + (pos + x) - pos]
      BY <1>8, <2>2 DEF CopyOf
    <2> QED BY <2>1, <2>2, <2>3
  <1>10. TransfersExact'
    <2>1. file' \in Seq(A) /\ Len(file') = Len(file)
      BY <1>8 DEF CopyOf
    <2>2. n <= Len(seen) /\ Len(seen) >= n
      BY <1>3, <1>4, <1>5
    <2>3. SubSeq(seen, 1, n) = SubSeq(file', pos + 1, pos + n)
      <3> HIDE DEF A
      <3> QED BY <1>4, <1>5, <1>9, <2>1, <2>2, Same
    <2>4. result'.n = n /\ result'.pos = pos
      BY <1>6 DEF Transfer
    <2>5. buf'.kind # "VecBuf" /\ Bytes(buf') = seen
      BY <1>1, <1>6, Kind DEF seen
    <2> QED BY <2>2, <2>3, <2>4, <2>5 DEF TransfersExact
  <1> QED BY <1>1, <1>6, <1>8, <1>10 DEF BuffersInv, OnePieceSafe, VecBufSafe

-----------------------------------------------------------------------------
(* f is the sums of the first n numbers of a sequence.                     *)
SumsOf(seq, n, f) ==
  /\ f \in [0 .. n -> Nat] /\ f[0] = 0
  /\ \A j \in 1 .. n : f[j] = f[j - 1] + seq[j]

(* They exist.                                                             *)
LEMMA HasSums ==
  ASSUME NEW seq \in Seq(Nat)
  PROVE  \E f : SumsOf(seq, Len(seq), f)
  <1> DEFINE P(m) == m <= Len(seq) => \E f : SumsOf(seq, m, f)
             S == {m \in Nat : P(m)}
  <1>1. P(0)
    <2>1. SumsOf(seq, 0, [j \in 0 .. 0 |-> 0])
      BY DEF SumsOf
    <2> QED BY <2>1
  <1>2. ASSUME NEW m \in Nat, P(m) PROVE P(m + 1)
    <2> SUFFICES ASSUME m + 1 <= Len(seq) PROVE \E f : SumsOf(seq, m + 1, f)
      OBVIOUS
    <2>1. PICK f : SumsOf(seq, m, f)
      BY <1>2
    <2> DEFINE g == [j \in 0 .. m + 1 |-> IF j = m + 1 THEN f[m] + seq[m + 1] ELSE f[j]]
    <2>2. seq[m + 1] \in Nat /\ m \in 0 .. m
      OBVIOUS
    <2>3. g \in [0 .. m + 1 -> Nat]
      BY <2>1, <2>2 DEF SumsOf
    <2>4. g[0] = 0
      BY <2>1 DEF SumsOf
    <2>5. ASSUME NEW j \in 1 .. m + 1 PROVE g[j] = g[j - 1] + seq[j]
      <3>1. CASE j = m + 1
        BY <3>1
      <3>2. CASE j # m + 1
        <4>1. j \in 1 .. m /\ g[j] = f[j] /\ g[j - 1] = f[j - 1]
          BY <3>2
        <4> QED BY <2>1, <4>1 DEF SumsOf
      <3> QED BY <3>1, <3>2
    <2> HIDE DEF g
    <2>6. SumsOf(seq, m + 1, g)
      BY <2>3, <2>4, <2>5 DEF SumsOf
    <2> QED BY <2>6
  <1> HIDE DEF P
  <1>3. \A m \in Nat : m \in S
    <2>1. 0 \in S /\ \A m \in Nat : m \in S => m + 1 \in S
      BY <1>1, <1>2
    <2> HIDE DEF S
    <2> QED BY <2>1, Induction
  <1>4. P(Len(seq))
    BY <1>3
  <1> QED BY <1>4 DEF P

(* What the iovecs before the i-th describe.                               *)
LEMMA BeforeIs ==
  ASSUME NEW b, b.iovecs \in Seq(Nat), NEW f, SumsOf(b.iovecs, Len(b.iovecs), f),
         NEW i \in 1 .. Len(b.iovecs) + 1
  PROVE  Before(b, i) = f[i - 1] /\ f[i - 1] \in Nat
  <1> DEFINE seq == b.iovecs
             part == SubSeq(b.iovecs, 1, i - 1)
             j == i - 1
  <1>1. seq \in Seq(Nat) /\ j \in Nat /\ j <= Len(seq) /\ Len(seq) \in Nat
    OBVIOUS
  <1>2. SumsOf(seq, Len(seq), f) /\ part = SubSeq(seq, 1, j)
    OBVIOUS
  <1>3. Before(b, i) = FoldLeft(+, 0, part)
    BY DEF Before
  <1> HIDE DEF seq, j, part
  <1>4. part \in Seq(Nat) /\ Len(part) = j /\ \A x \in 1 .. j : part[x] = seq[x]
    <2>1. \A x \in 1 .. j : seq[x] \in Nat
      BY <1>1
    <2>2. /\ part \in Seq(Nat) /\ Len(part) = IF 1 <= j THEN j - 1 + 1 ELSE 0
          /\ \A x \in 1 .. j - 1 + 1 : part[x] = seq[1 + x - 1]
      BY <1>1, <1>2, <2>1, SubSeqProperties
    <2> QED BY <1>1, <2>2
  <1>5. /\ f[0] = 0 /\ f[j] \in Nat
        /\ \A x \in 1 .. j : f[x] = f[x - 1] + seq[x]
    <2>1. j \in 0 .. Len(seq) /\ \A x \in 1 .. j : x \in 1 .. Len(seq)
      BY <1>1
    <2> QED BY <1>2, <2>1 DEF SumsOf
  <1>6. \A x \in 1 .. Len(part) : f[x] = f[x - 1] + part[x]
    BY <1>4, <1>5
  <1>7. FoldLeft(+, 0, part) = f[Len(part)]
    BY <1>4, <1>5, <1>6, SumFold
  <1>8. Before(b, i) = f[j]
    BY <1>3, <1>4, <1>7
  <1> QED BY <1>5, <1>8 DEF j

(* Each piece follows the one before it.                                   *)
LEMMA BeforeSteps ==
  ASSUME NEW b \in VecBufs
  PROVE  /\ Before(b, 1) = 0
         /\ \A i \in 1 .. Len(b.iovecs) :
              /\ b.iovecs[i] \in Nat /\ Before(b, i) \in Nat
              /\ Before(b, i + 1) = Before(b, i) + b.iovecs[i]
  <1>1. b.iovecs \in Seq(Nat) /\ Len(b.iovecs) \in Nat
    BY DEF VecBufs
  <1>2. PICK f : SumsOf(b.iovecs, Len(b.iovecs), f)
    BY <1>1, HasSums
  <1>3. \A i \in 1 .. Len(b.iovecs) + 1 : Before(b, i) = f[i - 1] /\ f[i - 1] \in Nat
    BY <1>1, <1>2, BeforeIs
  <1>4. Before(b, 1) = 0
    <2>1. 1 \in 1 .. Len(b.iovecs) + 1 /\ 1 - 1 = 0
      BY <1>1
    <2> QED BY <1>2, <1>3, <2>1 DEF SumsOf
  <1>5. ASSUME NEW i \in 1 .. Len(b.iovecs)
        PROVE  /\ b.iovecs[i] \in Nat /\ Before(b, i) \in Nat
               /\ Before(b, i + 1) = Before(b, i) + b.iovecs[i]
    <2>1. i \in 1 .. Len(b.iovecs) + 1 /\ i + 1 \in 1 .. Len(b.iovecs) + 1 /\ i + 1 - 1 = i
      BY <1>1
    <2>2. b.iovecs[i] \in Nat /\ f[i] = f[i - 1] + b.iovecs[i]
      BY <1>1, <1>2 DEF SumsOf
    <2>3. Before(b, i) = f[i - 1] /\ f[i - 1] \in Nat /\ Before(b, i + 1) = f[i]
      BY <1>3, <2>1
    <2> QED BY <2>2, <2>3
  <1> QED BY <1>4, <1>5

(* Only the iovecs count.                                                  *)
LEMMA BeforeSame ==
  ASSUME NEW b \in VecBufs, NEW c \in VecBufs, c.iovecs = b.iovecs,
         NEW i \in 1 .. Len(b.iovecs) + 1
  PROVE  Before(c, i) = Before(b, i)
  <1>1. b.iovecs \in Seq(Nat) /\ c.iovecs \in Seq(Nat)
    BY DEF VecBufs
  <1>2. PICK f : SumsOf(b.iovecs, Len(b.iovecs), f)
    BY <1>1, HasSums
  <1>3. Before(b, i) = f[i - 1]
    BY <1>1, <1>2, BeforeIs
  <1>4. SumsOf(c.iovecs, Len(c.iovecs), f) /\ i \in 1 .. Len(c.iovecs) + 1
    BY <1>2
  <1>5. Before(c, i) = f[i - 1]
    BY <1>1, <1>4, BeforeIs
  <1> QED BY <1>3, <1>5

(* What a transfer of n bytes puts into the i-th piece fits into it and    *)
(* ends before n.                                                          *)
LEMMA InPieceIs ==
  ASSUME NEW b \in VecBufs, NEW i \in 1 .. Len(b.iovecs), NEW n \in Nat
  PROVE  /\ InPiece(b, i, n) \in Nat
         /\ InPiece(b, i, n) <= b.iovecs[i]
         /\ InPiece(b, i, n) > 0 => Before(b, i) + InPiece(b, i, n) <= n
  <1>1. b.iovecs[i] \in Nat /\ Before(b, i) \in Nat
    BY BeforeSteps
  <1> QED BY <1>1 DEF InPiece, Smaller

(* What all iovecs describe is a number of bytes.                          *)
LEMMA DescribedNat ==
  ASSUME NEW b \in VecBufs
  PROVE  Described(b) \in Nat
  <1>1. b.iovecs \in Seq(Nat) /\ Len(b.iovecs) \in Nat
    BY DEF VecBufs
  <1>2. PICK f : SumsOf(b.iovecs, Len(b.iovecs), f)
    BY <1>1, HasSums
  <1>3. Len(b.iovecs) + 1 \in 1 .. Len(b.iovecs) + 1
    BY <1>1
  <1> QED BY <1>1, <1>2, <1>3, BeforeIs DEF Described

(* A copy of initialized bytes into a piece leaves it initialized.         *)
LEMMA PieceCopied ==
  ASSUME NEW mem, NEW len, Holds(mem, len), NEW f \in Seq(Byte),
         NEW i \in Nat, NEW n \in Nat, n > 0 => i + n <= Len(f)
  PROVE  /\ Copied(mem, 0, f, i, n) \in Memory
         /\ CopyOf(Copied(mem, 0, f, i, n), mem, 0, f, i, n)
         /\ Holds(Copied(mem, 0, f, i, n), len)
  <1> DEFINE A == Byte \cup {Uninit}
             c == Copied(mem, 0, f, i, n)
  <1>1. mem \in Seq(A) /\ mem \in Memory /\ len \in 0 .. Len(mem) /\ Len(mem) \in Nat
    BY DEF Holds, Memory
  <1>2. \A x \in i + 1 .. i + n : f[x] \in Byte
    BY SMT
  <1>3. Within(f, i, n, A)
    BY <1>2 DEF Within
  <1>4. c \in Seq(A) /\ CopyOf(c, mem, 0, f, i, n)
    <2> HIDE DEF A
    <2> QED BY <1>1, <1>3, CopiedIs
  <1> HIDE DEF c
  <1>5. \A x \in 1 .. len : mem[x] # Uninit
    BY <1>1, HoldsIs
  <1>6. ASSUME NEW x \in 1 .. len PROVE c[x] # Uninit
    <2>1. x \in 1 .. Len(mem)
      BY <1>1
    <2>2. CASE x \in 1 .. n
      <3>1. x \in 0 + 1 .. 0 + n /\ i + x - 0 \in i + 1 .. i + n
        BY <2>2
      <3>2. c[x] = f[i + x - 0]
        BY <1>4, <2>1, <3>1 DEF CopyOf
      <3>3. Uninit \notin Byte
        BY BuffersAssumption DEF BuffersAssumption
      <3> QED BY <1>2, <3>1, <3>2, <3>3
    <2>3. CASE x \notin 1 .. n
      <3>1. x \notin 0 + 1 .. 0 + n
        BY <2>3
      <3>2. c[x] = mem[x]
        BY <1>4, <2>1, <3>1 DEF CopyOf
      <3> QED BY <1>5, <3>2
    <2> QED BY <2>2, <2>3
  <1>7. c \in Memory /\ len \in 0 .. Len(c)
    BY <1>1, <1>4 DEF CopyOf, Memory
  <1>8. Holds(c, len)
    BY <1>6, <1>7, HoldsIs
  <1> QED BY <1>4, <1>7, <1>8 DEF c

-----------------------------------------------------------------------------
(* h is the concatenations of the first sequences.                         *)
JoinOf(seqs, h) ==
  /\ h[0] = <<>>
  /\ \A j \in 1 .. Len(seqs) : h[j] = h[j - 1] \o seqs[j]

(* FlattenSeq is the last of them.                                         *)
LEMMA FlattenIs ==
  ASSUME NEW A, NEW seqs \in Seq(Seq(A))
  PROVE  \E h \in [0 .. Len(seqs) -> Seq(A)] :
           JoinOf(seqs, h) /\ FlattenSeq(seqs) = h[Len(seqs)]
  <1> DEFINE n == Len(seqs)
             cat(x, y) == x \o y
             Good(m, h) ==
               /\ h \in [0 .. m -> Seq(A)] /\ h[0] = <<>>
               /\ \A j \in 1 .. m : h[j] = cat(h[j - 1], seqs[j])
             P(m) == m <= n => \E h : Good(m, h)
             S == {m \in Nat : P(m)}
  <1>0. n \in Nat /\ \A j \in 1 .. n : seqs[j] \in Seq(A)
    OBVIOUS
  <1> HIDE DEF cat
  <1>1. P(0)
    <2>1. Good(0, [j \in 0 .. 0 |-> <<>>])
      OBVIOUS
    <2> QED BY <2>1
  <1>2. ASSUME NEW m \in Nat, P(m) PROVE P(m + 1)
    <2> SUFFICES ASSUME m + 1 <= n PROVE \E h : Good(m + 1, h)
      OBVIOUS
    <2>1. PICK h : Good(m, h)
      <3>1. m <= n
        BY <1>0
      <3> HIDE DEF Good
      <3> QED BY <1>2, <3>1
    <2> DEFINE g == [j \in 0 .. m + 1 |-> IF j = m + 1 THEN cat(h[m], seqs[m + 1]) ELSE h[j]]
    <2>2. h[m] \in Seq(A) /\ seqs[m + 1] \in Seq(A)
      BY <1>0, <2>1
    <2>3. cat(h[m], seqs[m + 1]) \in Seq(A)
      BY <2>2, ConcatProperties DEF cat
    <2>4. g \in [0 .. m + 1 -> Seq(A)]
      BY <2>1, <2>3
    <2>5. g[0] = <<>>
      BY <2>1
    <2>6. ASSUME NEW j \in 1 .. m + 1 PROVE g[j] = cat(g[j - 1], seqs[j])
      <3>1. CASE j = m + 1
        <4>1. g[m + 1] = cat(h[m], seqs[m + 1]) /\ g[m] = h[m] /\ m + 1 - 1 = m
          OBVIOUS
        <4> QED BY <3>1, <4>1
      <3>2. CASE j # m + 1
        <4>1. j \in 1 .. m /\ g[j] = h[j] /\ g[j - 1] = h[j - 1]
          BY <3>2
        <4> QED BY <2>1, <4>1
      <3> QED BY <3>1, <3>2
    <2> HIDE DEF g
    <2>7. Good(m + 1, g)
      BY <2>4, <2>5, <2>6
    <2> HIDE DEF Good
    <2> QED BY <2>7
  <1>3. PICK h : Good(n, h)
    <2> HIDE DEF P
    <2>1. \A m \in Nat : m \in S
      <3>1. 0 \in S /\ \A m \in Nat : m \in S => m + 1 \in S
        BY <1>1, <1>2
      <3> HIDE DEF S
      <3> QED BY <3>1, Induction
    <2>2. P(n)
      BY <1>0, <2>1
    <2> HIDE DEF Good
    <2> QED BY <1>0, <2>2 DEF P
  <1>4. CASE n = 0
    <2>1. seqs = <<>>
      BY <1>4, EmptySeq
    <2>2. FlattenSeq(seqs) = h[n]
      BY <1>3, <1>4, <2>1 DEF FlattenSeq
    <2> QED BY <1>3, <2>2 DEF JoinOf, cat
  <1>5. CASE n # 0
    <2> DEFINE Eq(it) == it = [i \in 1 .. Len(seqs) |->
                                 IF i = 1 THEN seqs[i] ELSE cat(it[i - 1], seqs[i])]
               it == CHOOSE it : Eq(it)
    <2>1. FlattenSeq(seqs) = it[Len(seqs)]
      <3>1. Len(seqs) # 0
        BY <1>5
      <3> QED BY <3>1, Zenon DEF FlattenSeq, cat
    <2>2. Eq([i \in 1 .. n |-> h[i]])
      <3> DEFINE g == [i \in 1 .. n |-> h[i]]
      <3> SUFFICES ASSUME NEW i \in 1 .. n
                   PROVE  h[i] = IF i = 1 THEN seqs[i] ELSE cat(g[i - 1], seqs[i])
        OBVIOUS
      <3>1. h[i] = cat(h[i - 1], seqs[i])
        BY <1>3
      <3>2. CASE i = 1
        <4>1. h[i - 1] = <<>> /\ seqs[i] \in Seq(A)
          BY <1>0, <1>3, <3>2
        <4>2. cat(<<>>, seqs[i]) = seqs[i]
          BY <4>1, ConcatEmptySeq DEF cat
        <4> QED BY <3>1, <3>2, <4>1, <4>2
      <3>3. CASE i # 1
        <4>1. i - 1 \in 1 .. n
          BY <1>0, <3>3
        <4>2. g[i - 1] = h[i - 1]
          BY <4>1
        <4> QED BY <3>1, <3>3, <4>2
      <3> QED BY <3>2, <3>3
    <2>3. Eq(it)
      <3> HIDE DEF Eq
      <3> QED BY <2>2
    <2> HIDE DEF it
    <2>30. \A i \in 1 .. n :
             it[i] = IF i = 1 THEN seqs[i] ELSE cat(it[i - 1], seqs[i])
      BY <2>3
    <2> DEFINE T == {j \in Nat : j \in 1 .. n => it[j] = h[j]}
    <2>4. 0 \in T
      OBVIOUS
    <2>5. ASSUME NEW j \in Nat, j \in T PROVE j + 1 \in T
      <3> SUFFICES ASSUME j + 1 \in 1 .. n PROVE it[j + 1] = h[j + 1]
        OBVIOUS
      <3>1. h[j + 1] = cat(h[j], seqs[j + 1])
        <4>1. j + 1 - 1 = j
          OBVIOUS
        <4>2. h[j + 1] = cat(h[j + 1 - 1], seqs[j + 1])
          BY <1>3
        <4> QED BY <4>1, <4>2
      <3>2. CASE j = 0
        <4>1. h[j] = <<>> /\ seqs[j + 1] \in Seq(A) /\ it[j + 1] = seqs[j + 1]
          BY <1>0, <1>3, <2>3, <3>2
        <4>2. cat(<<>>, seqs[j + 1]) = seqs[j + 1]
          BY <4>1, ConcatEmptySeq DEF cat
        <4> QED BY <3>1, <4>1, <4>2
      <3>3. CASE j # 0
        <4>1. j \in 1 .. n /\ j + 1 # 1 /\ j + 1 - 1 = j
          BY <3>3, <1>0
        <4>2. it[j] = h[j]
          BY <2>5, <4>1
        <4>3. it[j + 1] = cat(it[j + 1 - 1], seqs[j + 1])
          <5> DEFINE i == j + 1
          <5>1. i \in 1 .. n /\ i # 1
            BY <4>1
          <5> HIDE DEF i, n
          <5>2. it[i] = cat(it[i - 1], seqs[i])
            BY <2>30, <5>1
          <5> QED BY <5>2 DEF i
        <4> QED BY <3>1, <4>1, <4>2, <4>3
      <3> QED BY <3>2, <3>3
    <2>6. \A j \in Nat : j \in T
      <3> HIDE DEF T
      <3> QED BY <2>4, <2>5, Induction
    <2>7. it[n] = h[n]
      BY <1>0, <1>5, <2>6
    <2> QED BY <1>3, <2>1, <2>7 DEF JoinOf, cat
  <1> QED BY <1>4, <1>5

-----------------------------------------------------------------------------
(* The first n bytes of what was joined are those of f, as far as there    *)
(* are any; full is the number of bytes that the iovecs so far describe.   *)
Matches(joined, f, full, n) ==
  IF full <= n
    THEN Len(joined) = full /\ \A x \in 1 .. full : joined[x] = f[x]
    ELSE Len(joined) >= n /\ \A x \in 1 .. n : joined[x] = f[x]

(* One more piece that has its part of f.                                  *)
LEMMA JoinedMatches ==
  ASSUME NEW A, NEW joined \in Seq(A), NEW piece \in Seq(A), NEW f,
         NEW full \in Nat, NEW size \in Nat, NEW n \in Nat,
         NEW part, part = Smaller(size, IF n > full THEN n - full ELSE 0),
         Matches(joined, f, full, n),
         full + size <= n \/ n > full => Len(piece) = part,
         \A x \in 1 .. part : x <= Len(piece) => piece[x] = f[full + x]
  PROVE  Matches(joined \o piece, f, full + size, n)
  <1> DEFINE both == joined \o piece
  <1>1. /\ Len(both) = Len(joined) + Len(piece)
        /\ \A x \in 1 .. Len(joined) + Len(piece) :
             both[x] = IF x <= Len(joined) THEN joined[x] ELSE piece[x - Len(joined)]
        /\ Len(joined) \in Nat /\ Len(piece) \in Nat
    BY ConcatProperties
  <1> HIDE DEF both
  <1>2. CASE full > n
    <2>1. Len(joined) >= n /\ \A x \in 1 .. n : joined[x] = f[x]
      BY <1>2 DEF Matches
    <2>2. \A x \in 1 .. n : x <= Len(joined) /\ x \in 1 .. Len(joined) + Len(piece)
      BY <1>1, <2>1
    <2>3. \A x \in 1 .. n : both[x] = f[x]
      BY <1>1, <2>1, <2>2
    <2>4. ~(full + size <= n) /\ Len(both) >= n
      BY <1>1, <1>2, <2>1
    <2> QED BY <2>3, <2>4 DEF Matches, both
  <1>3. CASE full <= n
    <2>1. Len(joined) = full /\ \A x \in 1 .. full : joined[x] = f[x]
      BY <1>3 DEF Matches
    <2>2. \A x \in 1 .. full : both[x] = f[x]
      <3>1. \A x \in 1 .. full : x <= Len(joined) /\ x \in 1 .. Len(joined) + Len(piece)
        BY <1>1, <2>1
      <3> QED BY <1>1, <2>1, <3>1
    <2>3. ASSUME full + size <= n \/ n > full,
                 NEW x \in 1 .. full + part
          PROVE  both[x] = f[x]
      <3>1. Len(piece) = part /\ part \in Nat
        BY <1>1, <2>3
      <3>2. CASE x <= full
        BY <2>2, <3>2
      <3>3. CASE x > full
        <4>1. x - full \in 1 .. part /\ full + (x - full) = x /\ ~(x <= Len(joined))
              /\ x \in 1 .. Len(joined) + Len(piece)
          BY <2>1, <3>1, <3>3
        <4>2. both[x] = piece[x - full]
          BY <1>1, <2>1, <4>1
        <4>3. x - full <= Len(piece)
          BY <3>1, <4>1
        <4>4. piece[x - full] = f[full + (x - full)]
          BY <4>1, <4>3
        <4> QED BY <4>1, <4>2, <4>4
      <3> QED BY <3>1, <3>2, <3>3
    <2>4. CASE full + size <= n
      <3>1. part = size /\ Len(piece) = part
        BY <2>4 DEF Smaller
      <3>2. Len(both) = full + size
        BY <1>1, <2>1, <3>1
      <3>3. \A x \in 1 .. full + size : both[x] = f[x]
        BY <2>3, <2>4, <3>1
      <3> QED BY <2>4, <3>2, <3>3 DEF Matches, both
    <2>5. CASE full + size > n
      <3>1. CASE n = full
        <4>1. Len(both) >= n
          BY <1>1, <2>1, <3>1
        <4> QED BY <2>2, <2>5, <3>1, <4>1 DEF Matches, both
      <3>2. CASE n # full
        <4>1. n > full /\ part = n - full /\ Len(piece) = part /\ full + part = n
          BY <1>3, <2>5, <3>2 DEF Smaller
        <4>2. Len(both) = n
          BY <1>1, <2>1, <4>1
        <4>3. \A x \in 1 .. n : both[x] = f[x]
          BY <2>3, <4>1
        <4> QED BY <2>5, <4>2, <4>3 DEF Matches, both
      <3> QED BY <3>1, <3>2
    <2> QED BY <2>4, <2>5
  <1> QED BY <1>2, <1>3

-----------------------------------------------------------------------------
(* What readv leaves in each vector.                                       *)
LEMMA ReadvEffect ==
  ASSUME BuffersInv, NEW n \in Positions, readv(n)
  PROVE  /\ buf \in VecBufs /\ buf' \in VecBufs /\ buf'.iovecs = buf.iovecs
         /\ Len(buf'.raw) = Len(buf.raw)
         /\ \A i \in 1 .. Len(buf.raw) :
              /\ buf'.raw[i].mem = Copied(buf.raw[i].mem, 0, file, Before(buf, i),
                                          InPiece(buf, i, n))
              /\ buf'.raw[i].len = IF \/ Before(buf, i) + buf.iovecs[i] <= n
                                      \/ n > Before(buf, i)
                                     THEN InPiece(buf, i, n) ELSE buf.raw[i].len
              /\ Holds(buf'.raw[i].mem, buf.raw[i].len)
              /\ Holds(buf'.raw[i].mem, buf.iovecs[i])
              /\ CopyOf(buf'.raw[i].mem, buf.raw[i].mem, 0, file, Before(buf, i),
                        InPiece(buf, i, n))
              /\ InPiece(buf, i, n) \in Nat /\ InPiece(buf, i, n) <= buf.iovecs[i]
  <1> DEFINE L == Len(buf.raw)
             q(i) == InPiece(buf, i, n)
             mem(i) == Copied(buf.raw[i].mem, 0, file, Before(buf, i), q(i))
             read == [buf EXCEPT !.raw = [i \in DOMAIN buf.raw |->
                        Piece(Copied(buf.raw[i].mem, 0, file, Before(buf, i), InPiece(buf, i, n)),
                              buf.raw[i].len)]]
             Full(b, i) == \/ Before(b, i) + b.iovecs[i] <= n
                           \/ n > Before(b, i)
  <1>1. VecBufSafe(buf)
    BY Kind DEF BuffersInv, readv
  <1>2. /\ buf \in VecBufs /\ L \in Nat /\ Len(buf.iovecs) = L /\ DOMAIN buf.raw = 1 .. L
        /\ buf.raw \in Seq(Pieces) /\ buf.iovecs \in Seq(Nat)
        /\ \A i \in 1 .. L : buf.raw[i] \in Pieces
        /\ file \in Seq(Byte) /\ n \in Nat /\ n <= Len(file) /\ Len(file) \in Nat
    <2>1. buf \in VecBufs /\ Len(buf.iovecs) = L
      BY <1>1 DEF VecBufSafe
    <2>2. buf.raw \in Seq(Pieces) /\ buf.iovecs \in Seq(Nat)
      BY <2>1 DEF VecBufs
    <2>3. file \in Seq(Byte) /\ n \in Nat /\ n <= Len(file) /\ Len(file) \in Nat
      BY DEF BuffersInv, Positions
    <2>4. L \in Nat /\ DOMAIN buf.raw = 1 .. L
          /\ \A i \in 1 .. L : buf.raw[i] \in Pieces
      BY <2>2
    <2> QED BY <2>1, <2>2, <2>3, <2>4
  <1>3. ASSUME NEW i \in 1 .. L
        PROVE  /\ q(i) \in Nat /\ q(i) <= buf.iovecs[i] /\ Before(buf, i) \in Nat
               /\ mem(i) \in Memory
               /\ CopyOf(mem(i), buf.raw[i].mem, 0, file, Before(buf, i), q(i))
               /\ Holds(mem(i), buf.raw[i].len) /\ Holds(mem(i), buf.iovecs[i])
    <2>1. i \in 1 .. Len(buf.iovecs)
      BY <1>2
    <2>2. q(i) \in Nat /\ q(i) <= buf.iovecs[i] /\ (q(i) > 0 => Before(buf, i) + q(i) <= n)
          /\ Before(buf, i) \in Nat
      BY <1>2, <2>1, InPieceIs, BeforeSteps
    <2> HIDE DEF q
    <2>3. q(i) > 0 => Before(buf, i) + q(i) <= Len(file)
      BY <1>2, <2>2
    <2>4. Holds(buf.raw[i].mem, buf.raw[i].len) /\ Holds(buf.raw[i].mem, buf.iovecs[i])
      BY <1>1 DEF VecBufSafe
    <2> QED BY <1>2, <2>2, <2>3, <2>4, PieceCopied
  <1> HIDE DEF q, mem
  <1>4. /\ read = [kind |-> "VecBuf", iovecs |-> buf.iovecs,
                   raw |-> [i \in 1 .. L |-> [mem |-> mem(i), len |-> buf.raw[i].len]]]
    <2>1. buf = [kind |-> "VecBuf", iovecs |-> buf.iovecs, raw |-> buf.raw]
      BY <1>2 DEF VecBufs
    <2>2. ASSUME NEW i \in 1 .. L
          PROVE  Piece(Copied(buf.raw[i].mem, 0, file, Before(buf, i), InPiece(buf, i, n)),
                       buf.raw[i].len)
                   = [mem |-> mem(i), len |-> buf.raw[i].len]
      BY <1>2 DEF mem, q, Pieces, Piece
    <2> DEFINE raw == [i \in DOMAIN buf.raw |->
                 Piece(Copied(buf.raw[i].mem, 0, file, Before(buf, i), InPiece(buf, i, n)),
                       buf.raw[i].len)]
    <2>0. read = [buf EXCEPT !.raw = raw]
      BY Zenon
    <2>3. raw = [i \in 1 .. L |-> [mem |-> mem(i), len |-> buf.raw[i].len]]
      BY <1>2, <2>2
    <2> HIDE DEF raw, read
    <2>4. read = [kind |-> "VecBuf", iovecs |-> buf.iovecs, raw |-> raw]
      BY <2>0, <2>1
    <2> QED BY <2>3, <2>4
  <1>5. /\ read.iovecs = buf.iovecs /\ read.kind = "VecBuf"
        /\ read.raw = [i \in 1 .. L |-> [mem |-> mem(i), len |-> buf.raw[i].len]]
        /\ read \in VecBufs
    <2>1. \A i \in 1 .. L : [mem |-> mem(i), len |-> buf.raw[i].len] \in Pieces
      BY <1>2, <1>3 DEF Pieces
    <2>2. read.raw \in Seq(Pieces)
      <3>1. read.raw \in [1 .. L -> Pieces]
        BY <1>4, <2>1
      <3> QED BY <1>2, <3>1, IsASeq
    <2> QED BY <1>2, <1>4, <2>2 DEF VecBufs
  <1> HIDE DEF read
  <1>6. \A i \in 1 .. L : /\ Full(read, i) <=> Full(buf, i)
                          /\ InPiece(read, i, n) = q(i)
    <2> SUFFICES ASSUME NEW i \in 1 .. L
                 PROVE  Before(read, i) = Before(buf, i)
      BY <1>5 DEF InPiece, q
    <2>1. i \in 1 .. Len(buf.iovecs) + 1
      BY <1>2
    <2> QED BY <1>2, <1>5, <2>1, BeforeSame
  <1>7. buf' = [read EXCEPT !.raw = [i \in DOMAIN read.raw |->
                  IF Full(read, i) THEN Piece(read.raw[i].mem, InPiece(read, i, n))
                    ELSE read.raw[i]]]
    BY DEF readv, VecBuf_set_init, read
  <1> DEFINE len(i) == IF Full(buf, i) THEN q(i) ELSE buf.raw[i].len
  <1>8. buf' = [kind |-> "VecBuf", iovecs |-> buf.iovecs,
                raw |-> [i \in 1 .. L |-> [mem |-> mem(i), len |-> len(i)]]]
    <2> HIDE DEF Full
    <2>1. ASSUME NEW i \in 1 .. L
          PROVE  (IF Full(read, i) THEN Piece(read.raw[i].mem, InPiece(read, i, n))
                    ELSE read.raw[i]) = [mem |-> mem(i), len |-> len(i)]
      <3>1. read.raw[i] = [mem |-> mem(i), len |-> buf.raw[i].len]
        BY <1>5
      <3>2. CASE Full(buf, i)
        <4>1. Full(read, i) /\ InPiece(read, i, n) = q(i) /\ len(i) = q(i)
          BY <1>6, <3>2
        <4>2. Piece(read.raw[i].mem, q(i)) = [mem |-> mem(i), len |-> q(i)]
          BY <3>1 DEF Piece
        <4> QED BY <4>1, <4>2
      <3>3. CASE ~Full(buf, i)
        BY <1>6, <3>1, <3>3
      <3> QED BY <3>2, <3>3
    <2> HIDE DEF len
    <2>2. DOMAIN read.raw = 1 .. L
      BY <1>5
    <2> DEFINE raw == [i \in DOMAIN read.raw |->
                 IF Full(read, i) THEN Piece(read.raw[i].mem, InPiece(read, i, n))
                   ELSE read.raw[i]]
    <2>3. raw = [i \in 1 .. L |-> [mem |-> mem(i), len |-> len(i)]]
      BY <2>1, <2>2
    <2>4. read = [kind |-> "VecBuf", iovecs |-> buf.iovecs, raw |-> read.raw]
      BY <1>5 DEF VecBufs
    <2>5. buf' = [read EXCEPT !.raw = raw]
      BY <1>7
    <2> HIDE DEF raw
    <2>6. buf' = [kind |-> "VecBuf", iovecs |-> buf.iovecs, raw |-> raw]
      BY <2>4, <2>5
    <2> QED BY <2>3, <2>6
  <1>9. /\ buf'.iovecs = buf.iovecs
        /\ buf'.raw = [i \in 1 .. L |-> [mem |-> mem(i), len |-> len(i)]]
    <2> HIDE DEF len
    <2> QED BY <1>8
  <1>10. \A i \in 1 .. L : len(i) \in Nat
    BY <1>2, <1>3 DEF Pieces
  <1> HIDE DEF len
  <1>11. buf'.raw \in [1 .. L -> Pieces]
    BY <1>3, <1>9, <1>10 DEF Pieces
  <1>12. buf'.raw \in Seq(Pieces) /\ Len(buf'.raw) = L
    <2> HIDE DEF L
    <2> DEFINE raw == buf'.raw
    <2>1. raw \in [1 .. L -> Pieces] /\ L \in Nat
      BY <1>2, <1>11
    <2> HIDE DEF raw
    <2>2. raw \in Seq(Pieces) /\ Len(raw) = L
      BY <2>1, IsASeq
    <2> QED BY <2>2 DEF raw
  <1>13. buf' \in VecBufs
    BY <1>2, <1>8, <1>9, <1>12 DEF VecBufs
  <1>14. \A i \in 1 .. L : buf'.raw[i].mem = mem(i) /\ buf'.raw[i].len = len(i)
    BY <1>9
  <1> QED BY <1>2, <1>3, <1>9, <1>12, <1>13, <1>14 DEF len, mem, q


(* Less of an initialized memory is initialized.                           *)
LEMMA HoldsLess ==
  ASSUME NEW mem, NEW len, Holds(mem, len), NEW m \in Nat, m <= len
  PROVE  Holds(mem, m)
  <1>1. mem \in Memory /\ len \in 0 .. Len(mem) /\ Len(mem) \in Nat
    BY DEF Holds, Memory
  <1>2. \A x \in 1 .. len : mem[x] # Uninit
    BY <1>1, HoldsIs
  <1>3. m \in 0 .. Len(mem) /\ \A x \in 1 .. m : mem[x] # Uninit
    BY <1>1, <1>2
  <1> QED BY <1>1, <1>3, HoldsIs

(* The bytes that a vector shows.                                          *)
LEMMA PartIs ==
  ASSUME NEW mem, NEW len, Holds(mem, len)
  PROVE  /\ SubSeq(mem, 1, len) \in Memory /\ Len(SubSeq(mem, 1, len)) = len
         /\ \A x \in 1 .. len : SubSeq(mem, 1, len)[x] = mem[x]
  <1> DEFINE A == Byte \cup {Uninit}
  <1>1. mem \in Seq(A) /\ len \in 0 .. Len(mem) /\ Len(mem) \in Nat
    BY DEF Holds, Memory
  <1>2. \A x \in 1 .. len : mem[x] \in A
    BY <1>1
  <1> HIDE DEF A
  <1>3. 1 \in Int /\ len \in Int
    BY <1>1
  <1>4. /\ SubSeq(mem, 1, len) \in Seq(A)
        /\ Len(SubSeq(mem, 1, len)) = IF 1 <= len THEN len - 1 + 1 ELSE 0
        /\ \A x \in 1 .. len : SubSeq(mem, 1, len)[x] = mem[1 + x - 1]
    BY <1>1, <1>2, <1>3, SubSeqProperties
  <1> QED BY <1>1, <1>4 DEF Memory, A

(* After a readv, lengths and iovecs describe initialized bytes,           *)
LEMMA ReadvSafe ==
  ASSUME BuffersInv, NEW n \in Positions, readv(n)
  PROVE  VecBufSafe(buf')
  <1>1. VecBufSafe(buf)
    BY Kind DEF BuffersInv, readv
  <1>2. /\ buf' \in VecBufs /\ Len(buf'.raw) = Len(buf.raw)
        /\ Len(buf'.iovecs) = Len(buf'.raw)
    BY <1>1, ReadvEffect DEF VecBufSafe
  <1>3. ASSUME NEW i \in 1 .. Len(buf'.raw)
        PROVE  Holds(buf'.raw[i].mem, buf'.raw[i].len) /\ Holds(buf'.raw[i].mem, buf'.iovecs[i])
    <2>1. i \in 1 .. Len(buf.raw)
      BY <1>2
    <2>2. /\ Holds(buf'.raw[i].mem, buf.raw[i].len)
          /\ Holds(buf'.raw[i].mem, buf.iovecs[i]) /\ buf'.iovecs = buf.iovecs
          /\ InPiece(buf, i, n) \in Nat /\ InPiece(buf, i, n) <= buf.iovecs[i]
          /\ buf'.raw[i].len \in {InPiece(buf, i, n), buf.raw[i].len}
      BY <2>1, ReadvEffect
    <2>3. Holds(buf'.raw[i].mem, InPiece(buf, i, n))
      BY <2>2, HoldsLess
    <2> QED BY <2>2, <2>3
  <1> QED BY <1>2, <1>3 DEF VecBufSafe

(* and the vectors show what was read.                                     *)
LEMMA ReadvStep ==
  ASSUME BuffersInv, NEW n \in Positions, readv(n)
  PROVE  BuffersInv'
  <1> DEFINE A == Byte \cup {Uninit}
             L == Len(buf.raw)
             part(i) == SubSeq(buf'.raw[i].mem, 1, buf'.raw[i].len)
             seqs == [i \in DOMAIN buf'.raw |-> part(i)]
  <1>1. VecBufSafe(buf') /\ VecBufSafe(buf)
    BY ReadvSafe, Kind DEF BuffersInv, readv
  <1>2. /\ file \in Seq(Byte) /\ file' = file /\ n \in Nat /\ n <= Len(file) /\ Len(file) \in Nat
        /\ n <= Described(buf) \/ ~(Described(buf) <= Len(file))
        /\ result' = Transfer("readv", 0, n)
    BY DEF BuffersInv, readv, Positions, Smaller
  <1>3. /\ L \in Nat /\ DOMAIN buf'.raw = 1 .. L /\ buf \in VecBufs
        /\ Len(buf.iovecs) = L /\ Len(buf'.raw) = L /\ buf'.kind = "VecBuf"
    <2>1. /\ buf'.raw \in Seq(Pieces) /\ Len(buf'.raw) = L /\ buf \in VecBufs
          /\ Len(buf.iovecs) = L /\ buf'.kind = "VecBuf" /\ buf.raw \in Seq(Pieces)
      BY <1>1, ReadvEffect DEF VecBufSafe, VecBufs
    <2> QED BY <2>1
  <1>4. ASSUME NEW i \in 1 .. L
        PROVE  /\ part(i) \in Seq(A) /\ Len(part(i)) = buf'.raw[i].len
               /\ \A x \in 1 .. buf'.raw[i].len : part(i)[x] = buf'.raw[i].mem[x]
    <2>1. Holds(buf'.raw[i].mem, buf'.raw[i].len)
      BY <1>1, <1>3 DEF VecBufSafe
    <2> QED BY <2>1, PartIs DEF Memory
  <1>5. seqs \in Seq(Seq(A)) /\ Len(seqs) = L /\ \A i \in 1 .. L : seqs[i] = part(i)
    <2> HIDE DEF part, A
    <2>1. seqs \in [1 .. L -> Seq(A)]
      BY <1>3, <1>4
    <2> HIDE DEF seqs
    <2>2. seqs \in Seq(Seq(A)) /\ Len(seqs) = L
      BY <1>3, <2>1, IsASeq
    <2> QED BY <1>3, <2>2 DEF seqs
  <1>6. PICK h \in [0 .. L -> Seq(A)] : JoinOf(seqs, h) /\ FlattenSeq(seqs) = h[L]
    <2> HIDE DEF seqs, A
    <2> QED BY <1>5, FlattenIs
  <1> HIDE DEF seqs
  <1> DEFINE P(j) == j <= L => Matches(h[j], file, Before(buf, j + 1), n)
             S == {j \in Nat : P(j)}
  <1>7. P(0)
    <2>1. Before(buf, 0 + 1) = 0
      BY <1>3, BeforeSteps
    <2>2. h[0] = <<>>
      BY <1>6 DEF JoinOf
    <2> QED BY <1>2, <2>1, <2>2 DEF Matches
  <1>8. ASSUME NEW j \in Nat, P(j) PROVE P(j + 1)
    <2> SUFFICES ASSUME j + 1 <= L PROVE Matches(h[j + 1], file, Before(buf, (j + 1) + 1), n)
      OBVIOUS
    <2> DEFINE i == j + 1
               full == Before(buf, i)
               size == buf.iovecs[i]
               q == InPiece(buf, i, n)
    <2>1. i \in 1 .. L /\ i - 1 = j /\ j \in 0 .. L
      BY <1>3
    <2>2. full \in Nat /\ size \in Nat /\ Before(buf, i + 1) = full + size
      BY <1>3, <2>1, BeforeSteps
    <2>3. q = Smaller(size, IF n > full THEN n - full ELSE 0)
      BY DEF InPiece
    <2>4. h[i] = h[j] \o part(i) /\ h[j] \in Seq(A)
      <3>1. h[i] = h[i - 1] \o seqs[i]
        BY <1>5, <1>6, <2>1 DEF JoinOf
      <3> QED BY <1>5, <1>6, <2>1, <3>1
    <2>5. Matches(h[j], file, full, n)
      BY <1>3, <1>8, <2>1
    <2>6. /\ buf'.raw[i].len = IF full + size <= n \/ n > full THEN q ELSE buf.raw[i].len
          /\ CopyOf(buf'.raw[i].mem, buf.raw[i].mem, 0, file, full, q)
          /\ q \in Nat /\ q <= size
          /\ Holds(buf'.raw[i].mem, size)
      BY <2>1, ReadvEffect
    <2> HIDE DEF full, size, q, i
    <2>7. full + size <= n \/ n > full => Len(part(i)) = q
      BY <1>4, <2>1, <2>6
    <2>8. \A x \in 1 .. q : x <= Len(part(i)) => part(i)[x] = file[full + x]
      <3> SUFFICES ASSUME NEW x \in 1 .. q, x <= Len(part(i)) PROVE part(i)[x] = file[full + x]
        OBVIOUS
      <3>1. Len(part(i)) = buf'.raw[i].len /\ Len(part(i)) \in Nat
        BY <1>4, <2>1
      <3>2. part(i)[x] = buf'.raw[i].mem[x]
        BY <1>4, <2>1, <2>6, <3>1
      <3>3. x \in 1 .. Len(buf.raw[i].mem)
        <4>1. size <= Len(buf'.raw[i].mem) /\ Len(buf'.raw[i].mem) = Len(buf.raw[i].mem)
              /\ Len(buf'.raw[i].mem) \in Nat
          BY <2>6 DEF Holds, CopyOf, Memory
        <4> QED BY <2>2, <2>6, <4>1
      <3>4. x \in 0 + 1 .. 0 + q /\ full + x - 0 = full + x
        BY <2>2, <2>6
      <3>5. buf'.raw[i].mem[x] = file[full + x]
        BY <2>6, <3>3, <3>4 DEF CopyOf
      <3> QED BY <3>2, <3>5
    <2>9. part(i) \in Seq(A)
      BY <1>4, <2>1
    <2> HIDE DEF part, A
    <2>10. Matches(h[j] \o part(i), file, full + size, n)
      BY <1>2, <2>2, <2>3, <2>4, <2>5, <2>7, <2>8, <2>9, JoinedMatches
    <2> QED BY <2>2, <2>4, <2>10 DEF i
  <1>9. Matches(h[L], file, Described(buf), n)
    <2>1. 0 \in S /\ \A j \in Nat : j \in S => j + 1 \in S
      BY <1>7, <1>8
    <2> HIDE DEF S
    <2>2. L \in S
      BY <1>3, <2>1, Induction
    <2> QED BY <1>3, <2>2 DEF S, Described
  <1>10. Len(h[L]) >= n /\ \A x \in 1 .. n : h[L][x] = file[0 + x]
    <2>1. Described(buf) \in Nat
      BY <1>3, DescribedNat
    <2>2. n <= Described(buf)
      BY <1>2, <2>1
    <2> QED BY <1>2, <1>9, <2>1, <2>2 DEF Matches
  <1>11. SubSeq(h[L], 1, n) = SubSeq(file, 0 + 1, 0 + n)
    <2>1. file \in Seq(A)
      BY <1>2
    <2>2. h[L] \in Seq(A)
      <3> HIDE DEF A, L
      <3> QED BY <1>3, <1>6
    <2>3. 0 + n <= Len(file) /\ n <= Len(h[L])
      <3> DEFINE size == Len(h[L])
      <3>1. size \in Nat /\ size >= n
        BY <1>10, <2>2
      <3> HIDE DEF size
      <3>2. n <= size
        BY <1>2, <3>1
      <3> QED BY <1>2, <3>2 DEF size
    <2> HIDE DEF A
    <2> QED BY <1>2, <1>10, <2>1, <2>2, <2>3, Same
  <1>12. TransfersExact'
    <2>1. result'.n = n /\ result'.pos = 0
      BY <1>2 DEF Transfer
    <2>2. FlattenSeq([i \in DOMAIN buf'.raw |-> SubSeq(buf'.raw[i].mem, 1, buf'.raw[i].len)])
            = h[L]
      BY <1>6 DEF seqs, part
    <2> QED BY <1>2, <1>3, <1>10, <1>11, <2>1, <2>2 DEF TransfersExact
  <1> QED BY <1>1, <1>2, <1>12 DEF BuffersInv

(* The vectors are wrapped again, with iovecs of their lengths now.        *)
LEMMA RewrapStep ==
  ASSUME BuffersInv, Rewrap
  PROVE  BuffersInv'
  <1>1. VecBufSafe(buf)
    BY Kind DEF BuffersInv, Rewrap
  <1>2. /\ buf.raw \in Seq(Pieces) /\ Len(buf.raw) \in Nat /\ DOMAIN buf.raw = 1 .. Len(buf.raw)
        /\ \A i \in 1 .. Len(buf.raw) : Holds(buf.raw[i].mem, buf.raw[i].len)
                                        /\ buf.raw[i].len \in Nat
    <2>1. buf.raw \in Seq(Pieces)
      BY <1>1 DEF VecBufSafe, VecBufs
    <2>2. \A i \in 1 .. Len(buf.raw) : buf.raw[i] \in Pieces
      BY <2>1
    <2> QED BY <1>1, <2>1, <2>2 DEF VecBufSafe, Pieces
  <1> DEFINE iovecs == [i \in DOMAIN buf.raw |-> buf.raw[i].len]
  <1>3. iovecs \in Seq(Nat) /\ Len(iovecs) = Len(buf.raw)
    <2>1. iovecs \in [1 .. Len(buf.raw) -> Nat]
      BY <1>2
    <2> HIDE DEF iovecs
    <2> QED BY <1>2, <2>1, IsASeq
  <1>4. \A i \in 1 .. Len(buf.raw) : iovecs[i] = buf.raw[i].len
    BY <1>2
  <1>5. buf' = [kind |-> "VecBuf", raw |-> buf.raw, iovecs |-> iovecs]
    BY DEF Rewrap, VecBuf
  <1> HIDE DEF iovecs
  <1>6. VecBufSafe(buf')
    BY <1>2, <1>3, <1>4, <1>5 DEF VecBufSafe, VecBufs
  <1> QED BY <1>6, NoTransfer DEF BuffersInv, Rewrap

(* The buffers of safe code have no slices yet.                            *)
LEMMA BuffersInitInv == BuffersInit => BuffersInv
  <1> SUFFICES ASSUME BuffersInit PROVE BuffersInv
    OBVIOUS
  <1>1. buf \in NewBuffers /\ file = NewFile /\ result = NoResult
    BY DEF BuffersInit
  <1>2. file \in Seq(Byte)
    BY <1>1, BuffersAssumption DEF BuffersAssumption
  <1>3. TransfersExact
    BY <1>1 DEF TransfersExact
  <1>4. CASE buf.kind = "VecBuf"
    <2>1. /\ buf = VecBuf(buf.raw) /\ buf.raw \in Seq(Pieces)
          /\ \A i \in DOMAIN buf.raw : Holds(buf.raw[i].mem, buf.raw[i].len)
      BY <1>1, <1>4, BuffersAssumption DEF BuffersAssumption, Pieces
    <2> DEFINE L == Len(buf.raw)
    <2>2. L \in Nat /\ DOMAIN buf.raw = 1 .. L /\ \A i \in 1 .. L : buf.raw[i].len \in Nat
      <3>1. \A i \in 1 .. L : buf.raw[i] \in Pieces
        BY <2>1
      <3> QED BY <2>1, <3>1 DEF Pieces
    <2>3. /\ buf.iovecs = [i \in DOMAIN buf.raw |-> buf.raw[i].len]
          /\ buf = [kind |-> "VecBuf", raw |-> buf.raw, iovecs |-> buf.iovecs]
      <3> DEFINE iovecs == [i \in DOMAIN buf.raw |-> buf.raw[i].len]
      <3>1. buf = [kind |-> "VecBuf", raw |-> buf.raw, iovecs |-> iovecs]
        BY <2>1 DEF VecBuf
      <3> HIDE DEF iovecs
      <3>2. buf.iovecs = iovecs
        BY <3>1
      <3> QED BY <3>1, <3>2 DEF iovecs
    <2>4. buf.iovecs \in [1 .. L -> Nat] /\ \A i \in 1 .. L : buf.iovecs[i] = buf.raw[i].len
      BY <2>2, <2>3
    <2>5. buf.iovecs \in Seq(Nat) /\ Len(buf.iovecs) = L
      <3> HIDE DEF L
      <3> DEFINE iovecs == buf.iovecs
      <3>1. iovecs \in [1 .. L -> Nat]
        BY <2>4
      <3> HIDE DEF iovecs
      <3>2. iovecs \in Seq(Nat) /\ Len(iovecs) = L
        BY <2>2, <3>1, IsASeq
      <3> QED BY <3>2 DEF iovecs
    <2>6. buf \in VecBufs
      BY <2>1, <2>3, <2>5 DEF VecBufs
    <2>7. VecBufSafe(buf)
      BY <2>1, <2>2, <2>4, <2>5, <2>6 DEF VecBufSafe
    <2> QED BY <1>2, <1>3, <2>7 DEF BuffersInv
  <1>5. CASE buf.kind # "VecBuf"
    <2>1. /\ buf = Buffer(buf.kind, buf.mem, buf.len) /\ buf.kind \in Kinds
          /\ Holds(buf.mem, buf.len) /\ (buf.kind # "Vec" => buf.len = Len(buf.mem))
      BY <1>1, <1>5, BuffersAssumption DEF BuffersAssumption
    <2>2. /\ buf = [kind |-> buf.kind, mem |-> buf.mem, len |-> buf.len, views |-> <<>>]
          /\ buf.views = <<>>
      BY <2>1 DEF Buffer
    <2>3. buf.mem \in Memory /\ buf.len \in Nat /\ buf.len <= Len(buf.mem) /\ Len(buf.mem) \in Nat
      BY <2>1 DEF Holds, Memory
    <2>4. <<>> \in Seq(View) /\ Len(buf.views) = 0
      BY <2>2
    <2>5. buf \in OnePiece
      BY <2>1, <2>2, <2>3, <2>4 DEF OnePiece
    <2>6. Levels(buf, [j \in 0 .. 0 |-> 0], [j \in 0 .. 0 |-> buf.len],
                 [j \in 0 .. 0 |-> Len(buf.mem)])
      <3>1. \A j \in 0 .. 0 : j = 0
        OBVIOUS
      <3>2. \A j \in 1 .. 0 : FALSE
        OBVIOUS
      <3> QED BY <2>1, <2>3, <2>4, <3>1, <3>2 DEF Levels
    <2>7. OnePieceSafe(buf)
      BY <2>1, <2>5, <2>6 DEF OnePieceSafe, HasLevels
    <2> QED BY <1>2, <1>3, <2>7 DEF BuffersInv
  <1> QED BY <1>4, <1>5

(* writev copies initialized bytes only, piece by piece.                   *)
LEMMA WritevFile ==
  ASSUME BuffersInv, NEW n \in Positions, writev(n)
  PROVE  file' \in Seq(Byte)
  <1> DEFINE L == Len(buf.raw)
             V == {f \in Seq(Byte) : Len(f) = Len(file)}
             op(f, i) == Copied(f, Before(buf, i), buf.raw[i].mem, 0, InPiece(buf, i, n))
             seq == [i \in DOMAIN buf.raw |-> i]
             Eq(it) == it = [s \in SUBSET DOMAIN seq |->
                               IF s = {} THEN file
                                 ELSE op(it[s \ {Max(s)}], seq[Max(s)])]
             it == CHOOSE it : Eq(it)
  <1>1. file' = it[DOMAIN seq]
    BY Zenon DEF FoldLeft, MapThenFoldSet, writev
  <1>2. VecBufSafe(buf)
    BY Kind DEF BuffersInv, writev
  <1>3. /\ buf \in VecBufs /\ L \in Nat /\ Len(buf.iovecs) = L /\ DOMAIN buf.raw = 1 .. L
        /\ file \in Seq(Byte) /\ n \in Nat /\ n <= Len(file) /\ Len(file) \in Nat
    <2>1. buf \in VecBufs /\ Len(buf.iovecs) = L /\ buf.raw \in Seq(Pieces)
      BY <1>2 DEF VecBufSafe, VecBufs
    <2>2. file \in Seq(Byte) /\ n \in Nat /\ n <= Len(file) /\ Len(file) \in Nat
      BY DEF BuffersInv, Positions
    <2> QED BY <2>1, <2>2
  <1>4. DOMAIN seq = 1 .. L /\ \A i \in 1 .. L : seq[i] = i
    BY <1>3
  <1>5. ASSUME NEW i \in 1 .. L, NEW f \in V
        PROVE  op(f, i) \in V
    <2> DEFINE q == InPiece(buf, i, n)
               mem == buf.raw[i].mem
    <2>1. q \in Nat /\ q <= buf.iovecs[i] /\ Before(buf, i) \in Nat
      BY <1>3, InPieceIs, BeforeSteps
    <2>2. mem \in Memory /\ buf.iovecs[i] \in 0 .. Len(mem)
          /\ \A x \in 1 .. buf.iovecs[i] : mem[x] # Uninit
      <3>1. Holds(mem, buf.iovecs[i])
        BY <1>2 DEF VecBufSafe
      <3>2. mem \in Memory /\ buf.iovecs[i] \in 0 .. Len(mem)
        BY <3>1 DEF Holds
      <3> HIDE DEF mem
      <3> QED BY <3>1, <3>2, HoldsIs
    <2> HIDE DEF q, mem
    <2>3. Within(mem, 0, q, Byte)
      <3> SUFFICES ASSUME NEW x \in 0 + 1 .. 0 + q PROVE mem[x] \in Byte
        BY DEF Within
      <3>1. x \in 1 .. buf.iovecs[i] /\ x \in 1 .. Len(mem)
        BY <2>1, <2>2
      <3>2. mem[x] \in Byte \cup {Uninit}
        BY <2>2, <3>1 DEF Memory
      <3> QED BY <2>2, <3>1, <3>2
    <2>4. f \in Seq(Byte) /\ Len(f) = Len(file)
      OBVIOUS
    <2>5. /\ Copied(f, Before(buf, i), mem, 0, q) \in Seq(Byte)
          /\ Len(Copied(f, Before(buf, i), mem, 0, q)) = Len(f)
      <3> HIDE DEF V
      <3>1. /\ Copied(f, Before(buf, i), mem, 0, q) \in Seq(Byte)
            /\ CopyOf(Copied(f, Before(buf, i), mem, 0, q), f, Before(buf, i), mem, 0, q)
        BY <2>1, <2>3, <2>4, CopiedIs
      <3> QED BY <3>1 DEF CopyOf
    <2> QED BY <2>4, <2>5 DEF q, mem
  <1> HIDE DEF op, seq
  <1>6. file \in V
    BY <1>3
  <1> HIDE DEF V
  <1>7. \E g : Eq(g)
    <2> DEFINE F == [j \in 1 .. L |-> [x \in V |-> op(x, j)]]
    <2>1. F \in [1 .. L -> [V -> V]]
      BY <1>5
    <2>2. PICK g \in [SUBSET (1 .. L) -> V] : Folding(L, file, F, g)
      <3> HIDE DEF F, L
      <3>1. HasFold(L, V, file, F)
        BY <1>3, <1>6, <2>1, FoldExists
      <3> QED BY <3>1 DEF HasFold
    <2>3. ASSUME NEW s \in SUBSET (1 .. L), s # {}
          PROVE  F[Max(s)][g[s \ {Max(s)}]] = op(g[s \ {Max(s)}], seq[Max(s)])
      <3>1. Max(s) \in s
        BY <1>3, <2>3, MaxIn
      <3>2. Max(s) \in 1 .. L
        BY <3>1
      <3>3. g[s \ {Max(s)}] \in V
        OBVIOUS
      <3>4. seq[Max(s)] = Max(s)
        BY <1>4, <3>2
      <3> HIDE DEF L
      <3> QED BY <3>2, <3>3, <3>4
    <2>4. g = [s \in SUBSET (1 .. L) |->
                 IF s = {} THEN file ELSE F[Max(s)][g[s \ {Max(s)}]]]
      BY <2>2 DEF Folding
    <2>5. Eq(g)
      <3> HIDE DEF F, L
      <3> QED BY <1>4, <2>3, <2>4
    <2> QED BY <2>5
  <1>8. Eq(it)
    <2> HIDE DEF Eq
    <2> QED BY <1>7
  <1>9. /\ it[1 .. 0] = file
        /\ \A j \in 1 .. L : it[1 .. j] = op(it[1 .. j - 1], j)
    <2> HIDE DEF it, L
    <2>1. it[1 .. 0] = file
      <3>1. 1 .. 0 = {}
        OBVIOUS
      <3> QED BY <1>4, <1>8, <3>1
    <2>2. ASSUME NEW j \in 1 .. L
          PROVE  it[1 .. j] = op(it[1 .. j - 1], j)
      <3>1. /\ 1 .. j \in SUBSET (1 .. L) /\ 1 .. j # {} /\ Max(1 .. j) = j
            /\ (1 .. j) \ {j} = 1 .. j - 1
        BY <1>3, PrefixOf
      <3>2. it[1 .. j] = op(it[(1 .. j) \ {Max(1 .. j)}], seq[Max(1 .. j)])
        BY <1>4, <1>8, <3>1
      <3> QED BY <1>4, <3>1, <3>2
    <2> QED BY <2>1, <2>2
  <1> HIDE DEF it
  <1> DEFINE S == {j \in Nat : j <= L => it[1 .. j] \in V}
  <1>10. \A j \in Nat : j \in S
    <2>1. 0 \in S
      BY <1>6, <1>9
    <2>2. ASSUME NEW j \in Nat, j \in S PROVE j + 1 \in S
      <3> SUFFICES ASSUME j + 1 <= L PROVE it[1 .. j + 1] \in V
        OBVIOUS
      <3>1. j <= L /\ j + 1 \in 1 .. L /\ (j + 1) - 1 = j
        BY <1>3
      <3>2. it[1 .. j + 1] = op(it[1 .. j], j + 1)
        BY <1>9, <3>1
      <3>3. it[1 .. j] \in V
        BY <2>2, <3>1
      <3> QED BY <1>5, <3>1, <3>2, <3>3
    <2> HIDE DEF S
    <2> QED BY <2>1, <2>2, Induction
  <1>11. it[1 .. L] \in V
    BY <1>3, <1>10
  <1> QED BY <1>1, <1>4, <1>11 DEF V

(* writev leaves the buffer alone.                                         *)
LEMMA WritevStep ==
  ASSUME BuffersInv, NEW n \in Positions, writev(n)
  PROVE  BuffersInv'
  <1>1. buf' = buf /\ result' = NoResult /\ file' \in Seq(Byte)
    BY WritevFile DEF writev
  <1> QED BY <1>1, NoTransfer DEF BuffersInv

(* Every step preserves the invariant.                                     *)
LEMMA BuffersStep == BuffersInv /\ [BuffersNext]_buffersVars => BuffersInv'
  <1> SUFFICES ASSUME BuffersInv, [BuffersNext]_buffersVars PROVE BuffersInv'
    OBVIOUS
  <1>1. CASE \E start, stop \in Bounds : slice(start, stop) \/ slice_mut(start, stop)
    BY <1>1, SlicedStep
  <1>2. CASE into_inner
    BY <1>2, PoppedStep
  <1>3. CASE \E pos, n \in Positions : write_at(pos, n)
    BY <1>3, WriteStep
  <1>4. CASE \E pos, n \in Positions : \E ok \in BOOLEAN : read_at(pos, n, ok)
    BY <1>4, ReadStep
  <1>5. CASE \E n \in Positions : readv(n)
    BY <1>5, ReadvStep
  <1>6. CASE \E n \in Positions : writev(n)
    BY <1>6, WritevStep
  <1>7. CASE Rewrap
    BY <1>7, RewrapStep
  <1>8. CASE UNCHANGED buffersVars
    BY <1>8 DEF buffersVars, BuffersInv, TransfersExact
  <1> QED BY <1>1, <1>2, <1>3, <1>4, <1>5, <1>6, <1>7, <1>8 DEF BuffersNext

(* The invariant says what MemorySafe does.                                *)
LEMMA BuffersSafe == BuffersInv => MemorySafe
  <1> SUFFICES ASSUME BuffersInv PROVE MemorySafe
    OBVIOUS
  <1>1. Initialized(file)
    <2>1. \A x \in DOMAIN file : file[x] \in Byte
      BY DEF BuffersInv
    <2>2. Uninit \notin Byte
      BY BuffersAssumption DEF BuffersAssumption
    <2> QED BY <2>1, <2>2 DEF Initialized, ToSet
  <1>2. CASE VecBufSafe(buf)
    <2>1. buf.kind = "VecBuf" /\ DOMAIN buf.raw = 1 .. Len(buf.raw)
      BY <1>2 DEF VecBufSafe, VecBufs
    <2>2. ASSUME NEW i \in DOMAIN buf.raw
          PROVE  /\ {buf.raw[i].len, buf.iovecs[i]} \subseteq 0 .. Len(buf.raw[i].mem)
                 /\ Initialized(SubSeq(buf.raw[i].mem, 1, buf.raw[i].len))
                 /\ Initialized(SubSeq(buf.raw[i].mem, 1, buf.iovecs[i]))
      BY <1>2, <2>1 DEF VecBufSafe, Holds
    <2> QED BY <1>1, <2>1, <2>2 DEF MemorySafe
  <1>3. CASE OnePieceSafe(buf)
    <2>1. PICK p, i, t : Levels(buf, p, i, t)
      BY <1>3 DEF OnePieceSafe, HasLevels
    <2> DEFINE k == Len(buf.views)
    <2>2. /\ bytes_init(buf) = i[k] /\ bytes_total(buf) = t[k] /\ Ptr(buf) = p[k]
          /\ p[k] \in Nat /\ i[k] \in Nat /\ t[k] \in Nat
          /\ p[k] + t[k] <= p[0] + t[0] /\ p[k] + i[k] <= buf.len
      <3>1. buf \in OnePiece
        BY <1>3 DEF OnePieceSafe
      <3>2. k \in Nat /\ 0 \in 0 .. k /\ k \in 0 .. k
        BY <3>1, <2>1, LevelFacts
      <3>3. bytes_init(buf) = i[k] /\ bytes_total(buf) = t[k] /\ Ptr(buf) = p[k]
        BY <2>1, <3>1, LevelsGive
      <3>4. /\ p[k] \in Nat /\ i[k] \in Nat /\ t[k] \in Nat
            /\ p[k] + t[k] <= p[0] + t[0]
        BY <2>1, <3>1, <3>2, LevelFacts
      <3>5. p[k] + i[k] <= buf.len
        BY <2>1, <3>2 DEF Levels
      <3> QED BY <3>3, <3>4, <3>5
    <2>3. p[0] = 0 /\ t[0] = Len(buf.mem)
      BY <2>1 DEF Levels
    <2>4. buf.kind # "VecBuf" /\ Holds(buf.mem, buf.len) /\ Len(buf.mem) \in Nat
      BY <1>3, Kind DEF OnePieceSafe, Holds, Memory
    <2>5. buf.len <= Len(buf.mem) /\ Initialized(SubSeq(buf.mem, 1, buf.len))
      BY <2>4 DEF Holds
    <2> HIDE DEF k
    <2> QED BY <1>1, <2>2, <2>3, <2>4, <2>5 DEF MemorySafe
  <1> QED BY <1>2, <1>3 DEF BuffersInv

(* However slices are nested and however short reads into them were, no    *)
(* uninitialized byte is seen by a program or written to a file, and the   *)
(* kernel is never pointed past the end of the memory: for buffers, files, *)
(* ranges and nestings of any size.                                        *)
THEOREM MemorySafety == BuffersSpec => []MemorySafe
  <1>1. BuffersSpec => []BuffersInv
    BY BuffersInitInv, BuffersStep, PTL DEF BuffersSpec
  <1> QED BY <1>1, BuffersSafe, PTL

(* After a read, into a slice or into the vectors of a VecBuf, the program *)
(* sees the bytes of the file that it asked for, and after a write the     *)
(* file has those of the slice.                                            *)
THEOREM TransferSafety == BuffersSpec => []TransfersExact
  <1>1. BuffersSpec => []BuffersInv
    BY BuffersInitInv, BuffersStep, PTL DEF BuffersSpec
  <1>2. BuffersInv => TransfersExact
    BY DEF BuffersInv
  <1> QED BY <1>1, <1>2, PTL
=============================================================================
