---------------------------- MODULE RuntimeProofs ----------------------------
(***************************************************************************)
(* Proofs about the smaller components of the runtime: SharedFd, whose     *)
(* descriptor is not closed under an operation that is in flight and, if   *)
(* Op::close does not fail, is closed at most once, for any set of         *)
(* operations; and the slab, which implements a map and whose free lists   *)
(* are exact, for any number of pages, any initial size and any compaction *)
(* interval.                                                               *)
(***************************************************************************)
EXTENDS SharedFd, Slab, FiniteSetTheorems, InductionProofs, TLAPS

-----------------------------------------------------------------------------
(* SharedFd.                                                               *)

(* A close was submitted or done.                                          *)
CloseBegun == closeOp # "none" \/ closes > 0

(***************************************************************************)
(* The inductive invariant.  A future borrows the File, so none is left    *)
(* when the File is; whoever begins to close was the last holder, and no   *)
(* operation can be started afterwards.                                    *)
(***************************************************************************)
BorrowsFile == Borrowed => file = "open"
LastHolder == CloseBegun => file # "open" /\ Holders = {}
ClosingState ==
  /\ file = "closing" => \/ state = "Waiting" /\ ~CloseBegun
                         \/ state = "Closing"
  /\ state \in {"Closing", "Closed"} => CloseBegun
OpenState == file = "open" => state = "Init"

(* The descriptor does not leak: once the File and every clone are gone, a *)
(* close was submitted or done.                                            *)
CloseNotForgotten == file = "gone" /\ Holders = {} => CloseBegun

Inv ==
  /\ TypeOK
  /\ BorrowsFile
  /\ LastHolder
  /\ ClosingState
  /\ OpenState
  /\ CloseNotForgotten
  /\ ClosedOnce

(* The new descriptor satisfies the invariant.                             *)
LEMMA InitInv == Init => Inv
BY SharedFdAssumption
   DEF Init, Inv, TypeOK, BorrowsFile, LastHolder, ClosingState, OpenState,
       CloseNotForgotten, ClosedOnce, CloseBegun, Holders, Borrowed

(* What Drop for Inner does to the close operation: nothing unless this    *)
(* was the last reference and no close() got as far as submitting.         *)
LEMMA InnerDropCases ==
  ASSUME NEW last \in BOOLEAN, InnerDrop(last)
  PROVE  \/ /\ last /\ state \in {"Init", "Waiting"}
            /\ \/ closeOp' = "submitted" /\ closes' = closes
               \/ closeMayFail /\ closes' = closes + 1 /\ closeOp' = closeOp
         \/ /\ ~(last /\ state \in {"Init", "Waiting"})
            /\ closeOp' = closeOp /\ closes' = closes
BY DEF InnerDrop, CloseOk, CloseErr

(* Every step of the runtime, the kernel or user code keeps the invariant. *)
LEMMA NextInv == Inv /\ [Next]_vars => Inv'
<1> SUFFICES ASSUME Inv, [Next]_vars PROVE Inv'
  OBVIOUS
<1> USE DEF Inv, TypeOK, BorrowsFile, LastHolder, ClosingState, OpenState,
            CloseNotForgotten, ClosedOnce, CloseBegun, Holders, Borrowed
<1>1. ASSUME NEW o \in Ops, StartOp(o), UNCHANGED closeMayFail PROVE Inv'
  BY <1>1 DEF StartOp
<1>2. ASSUME NEW o \in Ops, OpReady(o), UNCHANGED closeMayFail PROVE Inv'
  BY <1>2 DEF OpReady
<1>3. ASSUME NEW o \in Ops, OpDropped(o), UNCHANGED closeMayFail PROVE Inv'
  BY <1>3 DEF OpDropped
<1>4. ASSUME NEW o \in Ops, OpCompletes(o), UNCHANGED closeMayFail PROVE Inv'
  <2>1. CASE op[o] = "ignored"
    <3>1. InnerDrop(file = "gone" /\ Holders = {o})
      BY <1>4, <2>1 DEF OpCompletes
    <3>2. op' = [op EXCEPT ![o] = "done"] /\ result' = [result EXCEPT ![o] = TRUE]
          /\ file' = file /\ state' = state
      BY <1>4, <2>1 DEF OpCompletes
    <3>3. Holders' = Holders \ {o} /\ o \in Holders
      BY <3>2, <2>1
    <3>4. CASE file = "gone" /\ Holders = {o}
      <4>1. closeOp = "none" /\ closes = 0 /\ state \in {"Init", "Waiting"}
        BY <3>3, <3>4
      <4>2. \/ closeOp' = "submitted" /\ closes' = closes
            \/ closeMayFail /\ closes' = closes + 1 /\ closeOp' = closeOp
        BY <3>1, <3>4, <4>1, InnerDropCases
      <4> QED BY <1>4, <3>2, <3>3, <3>4, <4>1, <4>2
    <3>5. CASE ~(file = "gone" /\ Holders = {o})
      BY <1>4, <2>1, <3>1, <3>2, <3>3, <3>5, InnerDropCases
    <3> QED BY <3>4, <3>5
  <2>2. CASE op[o] # "ignored"
    BY <1>4, <2>2 DEF OpCompletes
  <2> QED BY <2>1, <2>2
<1>5. ASSUME DropFile, UNCHANGED closeMayFail PROVE Inv'
  <2>1. closeOp = "none" /\ closes = 0 /\ state = "Init"
    BY <1>5 DEF DropFile
  <2>2. CASE Holders = {}
    <3>1. \/ closeOp' = "submitted" /\ closes' = closes
          \/ closeMayFail /\ closes' = closes + 1 /\ closeOp' = closeOp
      BY <1>5, <2>1, <2>2, InnerDropCases DEF DropFile
    <3> QED BY <1>5, <2>1, <2>2, <3>1 DEF DropFile
  <2>3. CASE Holders # {}
    <3>1. closeOp' = closeOp /\ closes' = closes
      BY <1>5, <2>3, InnerDropCases DEF DropFile
    <3> QED BY <1>5, <2>1, <2>3, <3>1 DEF DropFile
  <2> QED BY <2>2, <2>3
<1>6. ASSUME CloseUnique, UNCHANGED closeMayFail PROVE Inv'
  BY <1>6 DEF CloseUnique, CloseOk
<1>7. ASSUME CloseUniqueErr, UNCHANGED closeMayFail PROVE Inv'
  BY <1>7 DEF CloseUniqueErr
<1>8. ASSUME CloseShared, UNCHANGED closeMayFail PROVE Inv'
  BY <1>8 DEF CloseShared
<1>9. ASSUME PollClosed, UNCHANGED closeMayFail PROVE Inv'
  BY <1>9 DEF PollClosed
<1>10. ASSUME CloseDropped, UNCHANGED closeMayFail PROVE Inv'
  <2>1. InnerDrop(Holders = {}) /\ file = "closing" /\ file' = "gone"
        /\ op' = op /\ result' = result /\ state' = state
    BY <1>10 DEF CloseDropped
  <2>2. Holders' = Holders
    BY <2>1
  <2>3. CASE Holders = {} /\ state = "Waiting"
    <3>1. closeOp = "none" /\ closes = 0
      BY <2>1, <2>3
    <3>2. \/ closeOp' = "submitted" /\ closes' = closes
          \/ closeMayFail /\ closes' = closes + 1 /\ closeOp' = closeOp
      BY <2>1, <2>3, InnerDropCases
    <3> QED BY <1>10, <2>1, <2>2, <2>3, <3>1, <3>2
  <2>4. CASE ~(Holders = {} /\ state = "Waiting")
    <3>1. closeOp' = closeOp /\ closes' = closes
      BY <2>1, <2>4, InnerDropCases
    <3> QED BY <1>10, <2>1, <2>2, <2>4, <3>1
  <2> QED BY <2>3, <2>4
<1>11. ASSUME KernelCloses, UNCHANGED closeMayFail PROVE Inv'
  BY <1>11 DEF KernelCloses
<1>12. CASE UNCHANGED vars
  BY <1>12 DEF vars
<1> QED
  BY <1>1, <1>2, <1>3, <1>4, <1>5, <1>6, <1>7, <1>8, <1>9, <1>10, <1>11, <1>12
     DEF Next, Step

(* The invariant holds throughout.                                         *)
THEOREM Inductive == Spec => []Inv
<1>1. Init => Inv
  BY InitInv
<1>2. Inv /\ [Next]_vars => Inv'
  BY NextInv
<1> QED BY <1>1, <1>2, PTL DEF Spec

(* "An FD cannot be closed until all in-flight operation have completed"   *)
(* (shared_fd.rs): whatever the operations and their futures do.           *)
THEOREM NotClosedUnderOps == Spec => []CloseAfterOps
<1>1. Inv => CloseAfterOps
  BY DEF Inv, LastHolder, CloseBegun, CloseAfterOps, InFlight
<1> QED BY <1>1, Inductive, PTL

(* The descriptor is closed at most once if Op::close does not fail.       *)
THEOREM NotClosedTwice == Spec => []ClosedOnce
<1>1. Inv => ClosedOnce
  BY DEF Inv
<1> QED BY <1>1, Inductive, PTL

(* The descriptor does not leak: the last holder to go begins a close.     *)
THEOREM NotForgotten == Spec => []CloseNotForgotten
<1>1. Inv => CloseNotForgotten
  BY DEF Inv
<1> QED BY <1>1, Inductive, PTL

-----------------------------------------------------------------------------
(* The slab.                                                               *)

(* Powers of two.  The recursive definition has a solution: its values up  *)
(* to n exist for every n and agree with each other.                       *)
Approx(n, g) ==
  /\ g \in [0 .. n -> Nat]
  /\ g[0] = 1
  /\ \A k \in 1 .. n : g[k] = 2 * g[k - 1]

LEMMA ApproxExists ==
  \A n \in Nat : \E g : Approx(n, g)
  <1> DEFINE S == {n \in Nat : \E g : Approx(n, g)}
  <1>1. 0 \in S
    <2>1. Approx(0, [k \in 0 .. 0 |-> 1])
      BY DEF Approx
    <2> QED BY <2>1
  <1>2. ASSUME NEW n \in Nat, n \in S PROVE n + 1 \in S
    <2>1. PICK g : Approx(n, g)
      BY <1>2
    <2> DEFINE h == [k \in 0 .. n + 1 |-> IF k = n + 1 THEN 2 * g[n] ELSE g[k]]
    <2>2. h \in [0 .. n + 1 -> Nat] /\ h[0] = 1
      BY <2>1 DEF Approx
    <2>3. \A k \in 1 .. n + 1 : h[k] = 2 * h[k - 1]
      BY <2>1 DEF Approx
    <2>4. Approx(n + 1, h)
      BY <2>2, <2>3 DEF Approx
    <2> QED BY <2>4
  <1> HIDE DEF S
  <1>3. \A n \in Nat : n \in S
    BY <1>1, <1>2, Induction
  <1> QED BY <1>3 DEF S

LEMMA ApproxAgree ==
  ASSUME NEW n \in Nat, NEW m \in Nat, n <= m, NEW g, NEW h,
         Approx(n, g), Approx(m, h)
  PROVE  \A k \in 0 .. n : g[k] = h[k]
  <1> DEFINE S == {k \in Nat : k <= n => g[k] = h[k]}
  <1>1. 0 \in S
    BY DEF Approx
  <1>2. ASSUME NEW k \in Nat, k \in S PROVE k + 1 \in S
    BY <1>2 DEF Approx
  <1> HIDE DEF S
  <1>3. \A k \in Nat : k \in S
    BY <1>1, <1>2, Induction
  <1> QED BY <1>3 DEF S

LEMMA Pow2 ==
  /\ pow2 \in [Nat -> Nat \ {0}]
  /\ pow2[0] = 1
  /\ \A n \in Nat : pow2[n + 1] = 2 * pow2[n]
  <1> DEFINE G(n) == CHOOSE g : Approx(n, g)
             f == [n \in Nat |-> G(n)[n]]
             Def(h) == [n \in Nat |-> IF n = 0 THEN 1 ELSE 2 * h[n - 1]]
  <1>1. \A n \in Nat : Approx(n, G(n))
    BY ApproxExists
  <1>2. \A n \in Nat : f[n] \in Nat
    BY <1>1 DEF Approx
  <1>3. f[0] = 1
    BY <1>1 DEF Approx
  <1>4. ASSUME NEW n \in Nat, n # 0 PROVE f[n] = 2 * f[n - 1]
    <2>1. n - 1 \in Nat /\ n - 1 <= n /\ n - 1 \in 0 .. n - 1 /\ n \in 1 .. n
      BY <1>4
    <2>2. Approx(n, G(n)) /\ Approx(n - 1, G(n - 1))
      BY <1>1, <2>1
    <2>3. G(n - 1)[n - 1] = G(n)[n - 1]
      <3> HIDE DEF G
      <3> QED BY <2>1, <2>2, ApproxAgree
    <2>4. G(n)[n] = 2 * G(n)[n - 1]
      BY <2>1, <2>2 DEF Approx
    <2> QED BY <2>1, <2>3, <2>4
  <1> HIDE DEF f, G
  <1>5. f = [n \in Nat |-> f[n]]
    BY DEF f
  <1>6. \A n \in Nat : f[n] = IF n = 0 THEN 1 ELSE 2 * f[n - 1]
    BY <1>3, <1>4
  <1>7. f = Def(f)
    BY <1>5, <1>6
  <1>8. pow2 = CHOOSE h : h = Def(h)
    BY DEF pow2
  <1>9. pow2 = Def(pow2)
    BY <1>7, <1>8
  <1>10. pow2[0] = 1
    BY <1>9
  <1>11. \A n \in Nat : pow2[n + 1] = 2 * pow2[n]
    BY <1>9
  <1> DEFINE S == {n \in Nat : pow2[n] \in Nat \ {0}}
  <1>12. 0 \in S
    BY <1>10
  <1>13. \A n \in Nat : n \in S => n + 1 \in S
    BY <1>11
  <1> HIDE DEF S
  <1>14. \A n \in Nat : n \in S
    BY <1>12, <1>13, Induction
  <1>15. \A n \in Nat : pow2[n] \in Nat \ {0}
    BY <1>14 DEF S
  <1> QED BY <1>9, <1>10, <1>11, <1>15

LEMMA Pow2Monotone ==
  ASSUME NEW m \in Nat, NEW n \in Nat, m <= n
  PROVE  pow2[m] <= pow2[n]
  <1> DEFINE S == {k \in Nat : pow2[m] <= pow2[m + k]}
  <1>1. 0 \in S
    BY Pow2
  <1>2. ASSUME NEW k \in Nat, k \in S PROVE k + 1 \in S
    <2>1. m + k \in Nat /\ m + (k + 1) = (m + k) + 1
      OBVIOUS
    <2>2. pow2[m + (k + 1)] = 2 * pow2[m + k] /\ pow2[m + k] \in Nat
      BY <2>1, Pow2
    <2>3. pow2[m] <= pow2[m + k] /\ pow2[m] \in Nat
      BY <1>2, Pow2
    <2> QED BY <2>2, <2>3
  <1> HIDE DEF S
  <1>3. \A k \in Nat : k \in S
    BY <1>1, <1>2, Induction
  <1>4. n - m \in Nat /\ m + (n - m) = n
    OBVIOUS
  <1> QED BY <1>3, <1>4 DEF S

LEMMA Pow2Large ==
  \A n \in Nat : n + 1 <= pow2[n]
  <1> DEFINE S == {n \in Nat : n + 1 <= pow2[n]}
  <1>1. 0 \in S
    BY Pow2
  <1>2. \A n \in Nat : n \in S => n + 1 \in S
    BY Pow2
  <1> HIDE DEF S
  <1>3. \A n \in Nat : n \in S
    BY <1>1, <1>2, Induction
  <1> QED BY <1>3 DEF S

(* Leading zeros count what they should.                                   *)
LEMMA BitLengthIs ==
  ASSUME NEW n \in Nat, NEW b \in Nat,
         n < pow2[b], b > 0 => pow2[b - 1] <= n
  PROVE  BitLength(n) = b
  <1> DEFINE Is(c) == n < pow2[c] /\ (c > 0 => pow2[c - 1] <= n)
  <1>1. b \in 0 .. n
    <2>1. CASE b = 0
      BY <2>1
    <2>2. CASE b # 0
      <3>1. b - 1 \in Nat
        BY <2>2
      <3>2. (b - 1) + 1 <= pow2[b - 1] /\ pow2[b - 1] \in Nat
        BY <3>1, Pow2Large, Pow2
      <3> QED BY <3>1, <3>2
    <2> QED BY <2>1, <2>2
  <1>2. ASSUME NEW c \in Nat, NEW d \in Nat, Is(c), Is(d), c < d PROVE FALSE
    <2>1. d - 1 \in Nat /\ c <= d - 1 /\ d > 0
      BY <1>2
    <2>2. pow2[c] <= pow2[d - 1]
      BY <2>1, Pow2Monotone
    <2>3. pow2[c] \in Nat /\ pow2[d - 1] \in Nat
      BY <2>1, Pow2
    <2> QED BY <1>2, <2>1, <2>2, <2>3
  <1>3. \A c \in 0 .. n : Is(c) => c = b
    <2> SUFFICES ASSUME NEW c \in 0 .. n, Is(c), c # b PROVE FALSE
      OBVIOUS
    <2>1. c \in Nat /\ Is(b)
      OBVIOUS
    <2>2. c < b \/ b < c
      OBVIOUS
    <2> HIDE DEF Is
    <2> QED BY <2>1, <2>2, <1>2
  <1>4. BitLength(n) = CHOOSE c \in 0 .. n : Is(c)
    BY DEF BitLength
  <1>5. Is(b)
    OBVIOUS
  <1> HIDE DEF Is
  <1> QED BY <1>1, <1>3, <1>4, <1>5

-----------------------------------------------------------------------------
(* Keys and slots.                                                         *)

LEMMA Constants ==
  /\ NUM_PAGES \in Nat \ {0} /\ NUM_PAGES - 1 \in Nat
  /\ PAGE_INITIAL_SIZE \in Nat \ {0}
  /\ NoVal \notin Vals
  BY SlabAssumption, Pow2

LEMMA MulLess ==
  ASSUME NEW d \in Nat \ {0}, NEW x \in Int, NEW y \in Int, d * x < d * y
  PROVE  x < y
  <1> SUFFICES ASSUME y <= x PROVE FALSE
    OBVIOUS
  <1>1. x - y \in Nat /\ d * (x - y) >= 0
    OBVIOUS
  <1>2. d * (x - y) = d * x - d * y
    OBVIOUS
  <1> QED BY <1>1, <1>2

LEMMA Quotient ==
  ASSUME NEW a \in Nat, NEW d \in Nat \ {0}
  PROVE  /\ a \div d \in Nat
         /\ d * (a \div d) <= a
         /\ a < d * ((a \div d) + 1)
  OBVIOUS

LEMMA PageSizes ==
  ASSUME NEW i \in Nat
  PROVE  /\ PageSize(i) \in Nat \ {0} /\ PrevLen(i) \in Nat
         /\ PageSize(i + 1) = 2 * PageSize(i)
         /\ PrevLen(i + 1) = PrevLen(i) + PageSize(i)
         /\ PrevLen(i) = PageSize(i) - PAGE_INITIAL_SIZE
         /\ PageSize(0) = PAGE_INITIAL_SIZE /\ PrevLen(0) = 0
  <1> USE Constants
  <1>1. pow2[i] \in Nat \ {0} /\ pow2[i + 1] = 2 * pow2[i] /\ pow2[0] = 1
    BY Pow2
  <1>2. PAGE_INITIAL_SIZE * pow2[i] >= PAGE_INITIAL_SIZE
    BY <1>1
  <1>3. PAGE_INITIAL_SIZE * (2 * pow2[i]) = 2 * (PAGE_INITIAL_SIZE * pow2[i])
    BY <1>1
  <1>4. PAGE_INITIAL_SIZE * pow2[i] \in Nat \ {0}
    BY <1>1, <1>2
  <1>5. PAGE_INITIAL_SIZE * pow2[0] = PAGE_INITIAL_SIZE
    BY <1>1
  <1> QED BY <1>1, <1>2, <1>3, <1>4, <1>5 DEF PageSize, PrevLen

LEMMA PrevLenMonotone ==
  ASSUME NEW i \in Nat, NEW j \in Nat, i <= j
  PROVE  PrevLen(i) <= PrevLen(j)
  <1>1. pow2[i] \in Nat /\ pow2[j] \in Nat /\ pow2[i] <= pow2[j]
    BY Pow2, Pow2Monotone
  <1>2. PAGE_INITIAL_SIZE * pow2[i] <= PAGE_INITIAL_SIZE * pow2[j]
    <2> SUFFICES ASSUME PAGE_INITIAL_SIZE * pow2[j] < PAGE_INITIAL_SIZE * pow2[i]
                 PROVE  FALSE
      BY <1>1, Constants
    <2> QED BY <1>1, Constants, MulLess
  <1> QED BY <1>1, <1>2, Constants DEF PrevLen, PageSize

(* A slot of a page has a key, and get_page_id finds the page again.       *)
LEMMA KeyOfSlot ==
  ASSUME NEW i \in PageIds, NEW s \in 0 .. PageSize(i) - 1
  PROVE  /\ PrevLen(i) + s \in Keys
         /\ get_page_id(PrevLen(i) + s) = i
  <1> DEFINE key == PrevLen(i) + s
             d == 2 * PAGE_INITIAL_SIZE
             q == (key + PAGE_INITIAL_SIZE) \div d
  <1>1. i \in Nat /\ i <= NUM_PAGES - 1 /\ i + 1 <= NUM_PAGES
    BY Constants DEF PageIds
  <1>2. /\ PageSize(i) \in Nat \ {0} /\ PrevLen(i) \in Nat
        /\ PrevLen(i + 1) = PrevLen(i) + PageSize(i)
        /\ PrevLen(i) = PageSize(i) - PAGE_INITIAL_SIZE
    BY <1>1, PageSizes
  <1>3. key \in Keys
    <2>1. PrevLen(i + 1) <= PrevLen(NUM_PAGES) /\ PrevLen(NUM_PAGES) \in Nat
      <3>1. NUM_PAGES \in Nat /\ i + 1 \in Nat
        BY <1>1, Constants
      <3>2. PrevLen(i + 1) <= PrevLen(NUM_PAGES)
        BY <1>1, <3>1, PrevLenMonotone
      <3>3. PrevLen(NUM_PAGES) \in Nat
        BY <3>1, PageSizes
      <3> QED BY <3>2, <3>3
    <2> QED BY <1>2, <2>1 DEF Keys
  <1>4. /\ d \in Nat \ {0} /\ key + PAGE_INITIAL_SIZE = PageSize(i) + s
        /\ key + PAGE_INITIAL_SIZE \in Nat
    BY <1>2, Constants
  <1>5. /\ q \in Nat /\ d * q <= PageSize(i) + s
        /\ PageSize(i) + s < d * (q + 1)
    BY <1>4, Quotient
  <1> HIDE DEF q
  <1>6. BitLength(q) = i
    <2>1. CASE i = 0
      <3>1. PageSize(i) + s < d * 1
        BY <1>1, <2>1, PageSizes, Constants
      <3>2. d * q < d * 1
        BY <1>2, <1>4, <1>5, <3>1
      <3>3. q = 0
        BY <1>4, <1>5, <3>2, MulLess
      <3>4. q < pow2[i]
        BY <3>3, <2>1, Pow2
      <3> QED BY <3>4, <2>1, <1>5, BitLengthIs
    <2>2. CASE i # 0
      <3> DEFINE A == pow2[i - 1]
      <3>1. i - 1 \in Nat /\ A \in Nat \ {0} /\ pow2[i] = 2 * A
        <4>1. i - 1 \in Nat /\ (i - 1) + 1 = i
          BY <2>2, <1>1
        <4> QED BY <4>1, Pow2
      <3>2. PageSize(i) = d * A
        <4>1. PAGE_INITIAL_SIZE * (2 * A) = (2 * PAGE_INITIAL_SIZE) * A
          BY <3>1, Constants
        <4> QED BY <3>1, <4>1 DEF PageSize
      <3> HIDE DEF A
      <3>3. d * A \in Nat /\ d * A + d * A = d * (2 * A)
        BY <3>1, <1>4
      <3> HIDE DEF d
      <3>4. d * q < d * (2 * A)
        <4>1. d * q \in Int /\ d * (2 * A) \in Int
          BY <1>4, <1>5, <3>1
        <4> QED BY <1>2, <1>5, <3>2, <3>3, <4>1
      <3>5. d * A < d * (q + 1)
        <4>1. d * (q + 1) \in Int
          BY <1>4, <1>5
        <4> QED BY <1>2, <1>5, <3>2, <3>3, <4>1
      <3>6. q < 2 * A
        BY <3>1, <3>4, <1>4, <1>5, MulLess
      <3>7. A <= q
        <4>1. A < q + 1
          BY <3>1, <3>5, <1>4, <1>5, MulLess
        <4> QED BY <4>1, <3>1, <1>5
      <3>8. q < pow2[i] /\ pow2[i - 1] <= q
        BY <3>1, <3>6, <3>7 DEF A
      <3> QED BY <3>8, <1>1, <1>5, BitLengthIs
    <2> QED BY <2>1, <2>2
  <1>7. get_page_id(key) = Min({i, NUM_PAGES - 1})
    BY <1>3, <1>6 DEF get_page_id, PageIdOf, q
  <1>8. Min({i, NUM_PAGES - 1}) = i
    BY <1>1, Constants DEF Min
  <1> QED BY <1>3, <1>7, <1>8

(* Every key is that of one slot.                                          *)
LEMMA SlotOfKey ==
  ASSUME NEW key \in Keys
  PROVE  /\ get_page_id(key) \in PageIds
         /\ key - PrevLen(get_page_id(key)) \in
              0 .. PageSize(get_page_id(key)) - 1
  <1> DEFINE T == {i \in Nat : key < PrevLen(i + 1)}
  <1>1. PrevLen(NUM_PAGES) \in Nat /\ key \in Nat /\ key < PrevLen(NUM_PAGES)
    BY Constants, PageSizes DEF Keys
  <1>2. NUM_PAGES - 1 \in T
    <2>1. (NUM_PAGES - 1) + 1 = NUM_PAGES
      BY Constants
    <2> QED BY <1>1, <2>1, Constants
  <1>3. PICK i \in T : \A j \in T : i <= j
    BY <1>2, SmallestIn
  <1>4. i \in Nat /\ i \in PageIds /\ key < PrevLen(i + 1)
    BY <1>2, <1>3, Constants DEF PageIds
  <1>5. PrevLen(i) <= key
    <2>1. CASE i = 0
      BY <2>1, <1>1, PageSizes
    <2>2. CASE i # 0
      <3>1. i - 1 \in Nat /\ ~(i <= i - 1) /\ (i - 1) + 1 = i
        BY <2>2, <1>4
      <3>2. ~(key < PrevLen(i))
        BY <1>3, <3>1
      <3>3. PrevLen(i) \in Nat
        BY <1>4, PageSizes
      <3> QED BY <1>1, <3>2, <3>3
    <2> QED BY <2>1, <2>2
  <1>6. key - PrevLen(i) \in 0 .. PageSize(i) - 1
    <2>1. /\ PrevLen(i) \in Nat /\ PageSize(i) \in Nat
          /\ PrevLen(i + 1) = PrevLen(i) + PageSize(i)
      BY <1>4, PageSizes
    <2> QED BY <1>1, <1>4, <1>5, <2>1
  <1>7. PrevLen(i) + (key - PrevLen(i)) = key
    BY <1>1, <1>4, PageSizes
  <1>8. get_page_id(key) = i
    BY <1>4, <1>6, <1>7, KeyOfSlot
  <1> QED BY <1>4, <1>6, <1>8

-----------------------------------------------------------------------------
(* One page.                                                               *)
SlotIds(i) == 0 .. PageSize(i) - 1
SlotValues ==
  {Uninit} \cup {Vacant(n) : n \in Nat} \cup {Occupied(v) : v \in Vals}
PageType(i) ==
  [slots : [SlotIds(i) -> SlotValues], used : Nat, initialized : Nat,
   next : Nat, allocated : {TRUE}]
OccupiedIn(i, p) == {s \in SlotIds(i) : p.slots[s].tag = "Occupied"}

(* L is the free list: m vacant slots, each linked to the next and the     *)
(* last one to the first uninitialized slot.                               *)
FreeList(i, p, m, L) ==
  /\ m \in Nat /\ L \in [0 .. m -> Nat]
  /\ L[0] = p.next /\ L[m] = p.initialized
  /\ \A k \in 0 .. m - 1 :
       L[k] \in SlotIds(i) /\ p.slots[L[k]] = Vacant(L[k + 1])
  /\ \A j, k \in 0 .. m - 1 : L[j] = L[k] => j = k
  /\ \A s \in SlotIds(i) :
       p.slots[s].tag = "Vacant" => \E k \in 0 .. m - 1 : L[k] = s
  /\ p.used + m = p.initialized

PageOK(i, p) ==
  /\ p \in PageType(i)
  /\ p.initialized <= PageSize(i)
  /\ \A s \in SlotIds(i) :
       p.slots[s].tag = "Uninit" <=> p.initialized <= s
  /\ \E m, L : FreeList(i, p, m, L)
  /\ p.used = Cardinality(OccupiedIn(i, p))

LEMMA SlotTags ==
  /\ \A x \in SlotValues : x.tag \in {"Uninit", "Vacant", "Occupied"}
  /\ \A x \in SlotValues : x.tag = "Occupied" => x.val \in Vals
  /\ \A x \in SlotValues : x.tag = "Vacant" => x.next \in Nat
  /\ \A n \in Nat : Vacant(n) \in SlotValues
  /\ \A n : Vacant(n).tag = "Vacant" /\ Vacant(n).next = n
  /\ \A v \in Vals : Occupied(v) \in SlotValues
  /\ \A v : Occupied(v).tag = "Occupied" /\ Occupied(v).val = v
  /\ Uninit \in SlotValues /\ Uninit.tag = "Uninit"
  <1>1. \A n : Vacant(n).tag = "Vacant" /\ Vacant(n).next = n
    BY DEF Vacant
  <1>2. \A v : Occupied(v).tag = "Occupied" /\ Occupied(v).val = v
    BY DEF Occupied
  <1>3. Uninit.tag = "Uninit"
    BY DEF Uninit
  <1>4. /\ Uninit \in SlotValues
        /\ \A n \in Nat : Vacant(n) \in SlotValues
        /\ \A v \in Vals : Occupied(v) \in SlotValues
    BY DEF SlotValues
  <1>5. ASSUME NEW x \in SlotValues
        PROVE  \/ x.tag = "Uninit"
               \/ x.tag = "Vacant" /\ x.next \in Nat
               \/ x.tag = "Occupied" /\ x.val \in Vals
    <2>1. \/ x = Uninit
          \/ \E n \in Nat : x = Vacant(n)
          \/ \E v \in Vals : x = Occupied(v)
      BY DEF SlotValues
    <2> QED BY <2>1, <1>1, <1>2, <1>3
  <1> QED BY <1>1, <1>2, <1>3, <1>4, <1>5

LEMMA OccupiedFinite ==
  ASSUME NEW i \in Nat, NEW p
  PROVE  IsFiniteSet(OccupiedIn(i, p))
  <1>1. IsFiniteSet(SlotIds(i))
    <2>1. 0 \in Int /\ PageSize(i) - 1 \in Int
      BY PageSizes
    <2> QED BY <2>1, FS_Interval DEF SlotIds
  <1>2. OccupiedIn(i, p) \in SUBSET SlotIds(i)
    BY DEF OccupiedIn
  <1> QED BY <1>1, <1>2, FS_Subset

(* A page that has just been allocated.                                    *)
LEMMA NewPageOK ==
  ASSUME NEW i \in Nat
  PROVE  /\ PageOK(i, NewPage(i))
         /\ NewPage(i).used # PageSize(i)
         /\ OccupiedIn(i, NewPage(i)) = {}
  <1> DEFINE p == NewPage(i)
  <1>1. PageSize(i) \in Nat \ {0}
    BY PageSizes
  <1>2. /\ p.slots = [s \in SlotIds(i) |-> Uninit]
        /\ p.used = 0 /\ p.initialized = 0 /\ p.next = 0
        /\ p \in PageType(i)
    BY SlotTags DEF NewPage, PageType, SlotIds
  <1> HIDE DEF p
  <1>3. OccupiedIn(i, p) = {}
    BY <1>2, SlotTags DEF OccupiedIn
  <1>4. FreeList(i, p, 0, [k \in 0 .. 0 |-> 0])
    BY <1>2, SlotTags DEF FreeList
  <1>5. Cardinality(OccupiedIn(i, p)) = 0
    BY <1>3, FS_EmptySet
  <1>6. \A s \in SlotIds(i) : p.slots[s].tag = "Uninit" <=> p.initialized <= s
    BY <1>2, SlotTags DEF SlotIds
  <1>7. PageOK(i, p)
    BY <1>1, <1>2, <1>4, <1>5, <1>6 DEF PageOK
  <1> QED BY <1>1, <1>2, <1>3, <1>7 DEF p

(* The next slot of a page that is not full is free: vacant, or the first  *)
(* one that is not initialized.                                            *)
LEMMA NextIsFree ==
  ASSUME NEW i \in Nat, NEW p, PageOK(i, p), p.used # PageSize(i),
         NEW m, NEW L, FreeList(i, p, m, L)
  PROVE  /\ p.next \in SlotIds(i)
         /\ \/ m = 0 /\ p.next = p.initialized
            \/ /\ m > 0 /\ p.next < p.initialized
               /\ p.slots[p.next] = Vacant(L[1])
         /\ p.slots[p.next].tag # "Occupied"
  <1>1. PageSize(i) \in Nat \ {0}
    BY PageSizes
  <1>2. p \in PageType(i) /\ p.initialized <= PageSize(i)
    BY DEF PageOK
  <1>3. /\ p.used \in Nat /\ p.initialized \in Nat
        /\ p.slots \in [SlotIds(i) -> SlotValues]
    BY <1>2 DEF PageType
  <1>4. CASE m = 0
    <2>1. p.next = p.initialized /\ p.used = p.initialized
      BY <1>3, <1>4 DEF FreeList
    <2>2. p.next \in SlotIds(i)
      BY <1>1, <1>2, <1>3, <2>1 DEF SlotIds
    <2>3. p.slots[p.next].tag = "Uninit"
      BY <1>3, <2>1, <2>2 DEF PageOK
    <2> QED BY <1>4, <2>1, <2>2, <2>3
  <1>5. CASE m # 0
    <2>1. m \in Nat /\ 0 \in 0 .. m - 1 /\ m > 0
      BY <1>5 DEF FreeList
    <2>2. p.next = L[0] /\ L[0] \in SlotIds(i) /\ p.slots[L[0]] = Vacant(L[1])
      BY <2>1 DEF FreeList
    <2>3. p.slots[p.next].tag = "Vacant"
      BY <2>2, SlotTags
    <2>4. ~(p.initialized <= p.next)
      BY <2>2, <2>3 DEF PageOK
    <2>5. p.next < p.initialized
      BY <2>2, <2>4, <1>1, <1>3 DEF SlotIds
    <2> QED BY <2>1, <2>2, <2>3, <2>5
  <1> QED BY <1>4, <1>5

(* What alloc and set do to the fields of a page.                          *)
LEMMA AllocSetFields ==
  ASSUME NEW i \in Nat, NEW p \in PageType(i), NEW v
  PROVE  LET q == AllocSet(p, v)
             fresh == p.next >= p.initialized
         IN  /\ q.slots = [p.slots EXCEPT ![p.next] = Occupied(v)]
             /\ q.used = p.used + 1
             /\ q.initialized = IF fresh THEN p.initialized + 1
                                         ELSE p.initialized
             /\ q.next = IF fresh THEN p.next + 1 ELSE p.slots[p.next].next
             /\ (/\ q.slots \in [SlotIds(i) -> SlotValues]
                 /\ q.used \in Nat /\ q.initialized \in Nat /\ q.next \in Nat)
                  => q \in PageType(i)
  <1> DEFINE fresh == p.next >= p.initialized
             sl == [p.slots EXCEPT ![p.next] = Occupied(v)]
             us == p.used + 1
             in == IF fresh THEN p.initialized + 1 ELSE p.initialized
             nx == IF fresh THEN p.next + 1 ELSE p.slots[p.next].next
  <1>1. AllocSet(p, v) = [p EXCEPT !.slots = sl, !.used = us,
                                   !.initialized = in, !.next = nx]
    BY DEF AllocSet
  <1>2. /\ AllocSet(p, v).slots = sl /\ AllocSet(p, v).used = us
        /\ AllocSet(p, v).initialized = in /\ AllocSet(p, v).next = nx
        /\ (/\ sl \in [SlotIds(i) -> SlotValues]
            /\ us \in Nat /\ in \in Nat /\ nx \in Nat)
             => AllocSet(p, v) \in PageType(i)
    <2> HIDE DEF sl, us, in, nx
    <2> QED BY <1>1 DEF PageType
  <1> QED BY <1>2

(* Page::alloc and Page::set take the head of the free list and keep the   *)
(* page exact.                                                             *)
LEMMA AllocSetOK ==
  ASSUME NEW i \in Nat, NEW p, PageOK(i, p), p.used # PageSize(i),
         NEW v \in Vals
  PROVE  /\ PageOK(i, AllocSet(p, v))
         /\ p.next \in SlotIds(i) /\ p.slots[p.next].tag # "Occupied"
         /\ AllocSet(p, v).slots = [p.slots EXCEPT ![p.next] = Occupied(v)]
  <1> DEFINE q == AllocSet(p, v)
  <1>1. PageSize(i) \in Nat \ {0}
    BY PageSizes
  <1>2. p \in PageType(i) /\ p.initialized <= PageSize(i)
    BY DEF PageOK
  <1>3. /\ p.used \in Nat /\ p.initialized \in Nat /\ p.next \in Nat
        /\ p.slots \in [SlotIds(i) -> SlotValues]
    BY <1>2 DEF PageType
  <1>4. PICK m, L : FreeList(i, p, m, L)
    BY DEF PageOK
  <1>5. /\ p.next \in SlotIds(i)
        /\ \/ m = 0 /\ p.next = p.initialized
           \/ /\ m > 0 /\ p.next < p.initialized
              /\ p.slots[p.next] = Vacant(L[1])
        /\ p.slots[p.next].tag # "Occupied"
    BY <1>4, NextIsFree
  <1>6. m \in Nat /\ L \in [0 .. m -> Nat] /\ L[0] = p.next
        /\ L[m] = p.initialized /\ p.used + m = p.initialized
    BY <1>4 DEF FreeList
  <1>7. /\ q.slots = [p.slots EXCEPT ![p.next] = Occupied(v)]
        /\ q.used = p.used + 1
        /\ q.initialized = IF p.next >= p.initialized THEN p.initialized + 1
                                                      ELSE p.initialized
        /\ q.next = IF p.next >= p.initialized THEN p.next + 1
                                               ELSE p.slots[p.next].next
        /\ (/\ q.slots \in [SlotIds(i) -> SlotValues]
            /\ q.used \in Nat /\ q.initialized \in Nat /\ q.next \in Nat)
             => q \in PageType(i)
    BY <1>2, AllocSetFields
  <1> HIDE DEF q
  <1>8. /\ q.slots \in [SlotIds(i) -> SlotValues]
        /\ q.slots[p.next] = Occupied(v)
        /\ \A s \in SlotIds(i) : s # p.next => q.slots[s] = p.slots[s]
    BY <1>3, <1>5, <1>7, SlotTags
  <1>9. OccupiedIn(i, q) = OccupiedIn(i, p) \cup {p.next}
    BY <1>5, <1>8, SlotTags DEF OccupiedIn
  <1>10. q.used = Cardinality(OccupiedIn(i, q))
    <2>1. p.next \notin OccupiedIn(i, p)
      BY <1>5 DEF OccupiedIn
    <2>2. Cardinality(OccupiedIn(i, p) \cup {p.next})
            = Cardinality(OccupiedIn(i, p)) + 1
      BY <2>1, OccupiedFinite, FS_AddElement
    <2> QED BY <1>7, <1>9, <2>2 DEF PageOK
  <1>11. CASE m = 0
    <2>1. /\ p.next = p.initialized /\ q.initialized = p.initialized + 1
          /\ q.next = p.initialized + 1
      BY <1>3, <1>5, <1>7, <1>11
    <2>2. q \in PageType(i)
      BY <1>3, <1>7, <1>8, <2>1
    <2>3. q.initialized <= PageSize(i)
      BY <1>1, <1>3, <1>5, <2>1 DEF SlotIds
    <2>4. \A s \in SlotIds(i) : q.slots[s].tag = "Uninit" <=> q.initialized <= s
      <3> SUFFICES ASSUME NEW s \in SlotIds(i)
                   PROVE  q.slots[s].tag = "Uninit" <=> q.initialized <= s
        OBVIOUS
      <3>1. s \in Int
        BY <1>1 DEF SlotIds
      <3>2. p.slots[s].tag = "Uninit" <=> p.initialized <= s
        BY DEF PageOK
      <3>3. CASE s = p.next
        BY <1>3, <1>8, <2>1, <3>1, <3>3, SlotTags
      <3>4. CASE s # p.next
        BY <1>3, <1>8, <2>1, <3>1, <3>2, <3>4
      <3> QED BY <3>3, <3>4
    <2>5. \A s \in SlotIds(i) : q.slots[s].tag # "Vacant"
      BY <1>4, <1>8, <1>11, SlotTags DEF FreeList
    <2>6. FreeList(i, q, 0, [k \in 0 .. 0 |-> q.initialized])
      BY <1>3, <1>6, <1>7, <1>11, <2>1, <2>5 DEF FreeList
    <2> QED BY <1>10, <2>2, <2>3, <2>4, <2>6, <1>5, <1>7 DEF PageOK, q
  <1>12. CASE m # 0
    <2> DEFINE H == [k \in 0 .. m - 1 |-> L[k + 1]]
    <2>1. /\ p.next < p.initialized /\ p.slots[p.next] = Vacant(L[1])
          /\ m - 1 \in Nat /\ 1 \in 0 .. m /\ 0 \in 0 .. m - 1
          /\ L[1] \in Nat
      BY <1>5, <1>6, <1>12
    <2>2. q.initialized = p.initialized /\ q.next = L[1]
      <3>1. ~(p.next >= p.initialized)
        BY <1>3, <2>1
      <3> QED BY <1>7, <2>1, <3>1, SlotTags
    <2>3. q \in PageType(i)
      BY <1>3, <1>7, <1>8, <2>1, <2>2
    <2>4. \A s \in SlotIds(i) : q.slots[s].tag = "Uninit" <=> q.initialized <= s
      <3> SUFFICES ASSUME NEW s \in SlotIds(i)
                   PROVE  q.slots[s].tag = "Uninit" <=> q.initialized <= s
        OBVIOUS
      <3>1. s \in Int
        BY <1>1 DEF SlotIds
      <3>2. p.slots[s].tag = "Uninit" <=> p.initialized <= s
        BY DEF PageOK
      <3>3. CASE s = p.next
        BY <1>3, <1>8, <2>1, <2>2, <3>1, <3>3, SlotTags
      <3>4. CASE s # p.next
        BY <1>8, <2>2, <3>2, <3>4
      <3> QED BY <3>3, <3>4
    <2>5. H \in [0 .. m - 1 -> Nat] /\ H[0] = q.next /\ H[m - 1] = q.initialized
      BY <1>6, <2>1, <2>2
    <2>6. \A k \in 0 .. m - 2 : H[k] = L[k + 1] /\ H[k + 1] = L[(k + 1) + 1]
                                /\ k + 1 \in 0 .. m - 1 /\ k + 1 # 0
      BY <1>6, <2>1
    <2> HIDE DEF H
    <2>7. \A k \in 0 .. m - 1 : L[k] = p.next => k = 0
      BY <1>4, <1>6, <2>1 DEF FreeList
    <2>8. \A k \in 0 .. m - 2 :
            H[k] \in SlotIds(i) /\ q.slots[H[k]] = Vacant(H[k + 1])
      <3> SUFFICES ASSUME NEW k \in 0 .. m - 2
                   PROVE  /\ H[k] \in SlotIds(i)
                          /\ q.slots[H[k]] = Vacant(H[k + 1])
        OBVIOUS
      <3>1. H[k] = L[k + 1] /\ H[k + 1] = L[(k + 1) + 1]
            /\ k + 1 \in 0 .. m - 1 /\ k + 1 # 0
        BY <2>6
      <3>2. H[k] \in SlotIds(i) /\ p.slots[H[k]] = Vacant(H[k + 1])
        BY <1>4, <3>1 DEF FreeList
      <3>3. H[k] # p.next
        BY <2>7, <3>1
      <3> QED BY <1>8, <3>2, <3>3
    <2>9. \A j, k \in 0 .. m - 2 : H[j] = H[k] => j = k
      <3> SUFFICES ASSUME NEW j \in 0 .. m - 2, NEW k \in 0 .. m - 2,
                          H[j] = H[k]
                   PROVE  j = k
        OBVIOUS
      <3>1. L[j + 1] = L[k + 1] /\ j + 1 \in 0 .. m - 1 /\ k + 1 \in 0 .. m - 1
        BY <2>6
      <3>2. j + 1 = k + 1
        BY <1>4, <3>1 DEF FreeList
      <3> QED BY <3>2
    <2>10. ASSUME NEW s \in SlotIds(i), q.slots[s].tag = "Vacant"
           PROVE  \E k \in 0 .. m - 2 : H[k] = s
      <3>1. s # p.next
        BY <2>10, <1>8, SlotTags
      <3>2. p.slots[s].tag = "Vacant"
        BY <2>10, <3>1, <1>8
      <3>3. PICK k \in 0 .. m - 1 : L[k] = s
        BY <1>4, <3>2 DEF FreeList
      <3>4. k # 0
        BY <3>1, <3>3, <1>6
      <3>5. k - 1 \in 0 .. m - 2 /\ (k - 1) + 1 = k
        BY <3>4, <1>6
      <3>6. H[k - 1] = s
        BY <3>3, <3>5, <2>6
      <3> QED BY <3>5, <3>6
    <2>11. q.used + (m - 1) = q.initialized
      <3>1. q.used = p.used + 1 /\ q.initialized = p.initialized
        BY <1>7, <2>2
      <3> DEFINE used == p.used
      <3>2. used \in Nat /\ m \in Nat /\ q.used = used + 1 /\ q.initialized = used + m
        BY <1>3, <1>6, <3>1
      <3> HIDE DEF used
      <3>3. (used + 1) + (m - 1) = used + m
        BY <3>2
      <3> QED BY <3>2, <3>3
    <2>12. (m - 1) - 1 = m - 2
      BY <1>6
    <2>13. FreeList(i, q, m - 1, H)
      BY <2>1, <2>5, <2>8, <2>9, <2>10, <2>11, <2>12 DEF FreeList
    <2> QED BY <1>2, <1>10, <2>2, <2>3, <2>4, <2>13, <1>5, <1>7 DEF PageOK, q
  <1> QED BY <1>11, <1>12

LEMMA PageRemoveFields ==
  ASSUME NEW i \in Nat, NEW p \in PageType(i), NEW s
  PROVE  LET q == PageRemove(p, s)
         IN  /\ q.slots = [p.slots EXCEPT ![s] = Vacant(p.next)]
             /\ q.used = p.used - 1
             /\ q.initialized = p.initialized
             /\ q.next = s
             /\ (/\ q.slots \in [SlotIds(i) -> SlotValues]
                 /\ q.used \in Nat /\ q.next \in Nat) => q \in PageType(i)
  <1> DEFINE sl == [p.slots EXCEPT ![s] = Vacant(p.next)]
             us == p.used - 1
  <1>1. PageRemove(p, s) = [p EXCEPT !.slots = sl, !.next = s, !.used = us]
    BY DEF PageRemove
  <1>2. LET q == PageRemove(p, s)
        IN  /\ q.slots = sl /\ q.used = us
            /\ q.initialized = p.initialized /\ q.next = s
            /\ (sl \in [SlotIds(i) -> SlotValues] /\ us \in Nat /\ s \in Nat)
                 => q \in PageType(i)
    <2> HIDE DEF sl, us
    <2> QED BY <1>1 DEF PageType
  <1> QED BY <1>2

(* Page::remove of an occupied slot puts it in front of the free list and  *)
(* keeps the page exact.                                                   *)
LEMMA PageRemoveOK ==
  ASSUME NEW i \in Nat, NEW p, PageOK(i, p),
         NEW s \in SlotIds(i), p.slots[s].tag = "Occupied"
  PROVE  /\ PageOK(i, PageRemove(p, s))
         /\ PageRemove(p, s).slots = [p.slots EXCEPT ![s] = Vacant(p.next)]
  <1> DEFINE q == PageRemove(p, s)
  <1>1. PageSize(i) \in Nat \ {0} /\ s \in Nat
    BY PageSizes DEF SlotIds
  <1>2. p \in PageType(i) /\ p.initialized <= PageSize(i)
    BY DEF PageOK
  <1>3. /\ p.used \in Nat /\ p.initialized \in Nat /\ p.next \in Nat
        /\ p.slots \in [SlotIds(i) -> SlotValues]
    BY <1>2 DEF PageType
  <1>4. PICK m, L : FreeList(i, p, m, L)
    BY DEF PageOK
  <1>5. m \in Nat /\ L \in [0 .. m -> Nat] /\ L[0] = p.next
        /\ L[m] = p.initialized /\ p.used + m = p.initialized
    BY <1>4 DEF FreeList
  <1>6. /\ q.slots = [p.slots EXCEPT ![s] = Vacant(p.next)]
        /\ q.used = p.used - 1
        /\ q.initialized = p.initialized
        /\ q.next = s
        /\ (/\ q.slots \in [SlotIds(i) -> SlotValues]
            /\ q.used \in Nat /\ q.next \in Nat) => q \in PageType(i)
    BY <1>2, PageRemoveFields
  <1> HIDE DEF q
  <1>7. /\ q.slots \in [SlotIds(i) -> SlotValues]
        /\ q.slots[s] = Vacant(p.next)
        /\ \A t \in SlotIds(i) : t # s => q.slots[t] = p.slots[t]
    BY <1>3, <1>6, SlotTags
  <1>8. OccupiedIn(i, q) = OccupiedIn(i, p) \ {s} /\ s \in OccupiedIn(i, p)
    BY <1>7, SlotTags DEF OccupiedIn
  <1>9. q.used = Cardinality(OccupiedIn(i, q)) /\ q.used \in Nat
    <2>1. Cardinality(OccupiedIn(i, p) \ {s})
            = Cardinality(OccupiedIn(i, p)) - 1
      BY <1>8, OccupiedFinite, FS_RemoveElement
    <2>2. Cardinality(OccupiedIn(i, q)) \in Nat
      BY OccupiedFinite, FS_CardinalityType
    <2> QED BY <1>6, <1>8, <2>1, <2>2 DEF PageOK
  <1>10. q \in PageType(i)
    BY <1>1, <1>6, <1>7, <1>9
  <1>11. \A t \in SlotIds(i) : q.slots[t].tag = "Uninit" <=> q.initialized <= t
    <2> SUFFICES ASSUME NEW t \in SlotIds(i)
                 PROVE  q.slots[t].tag = "Uninit" <=> q.initialized <= t
      OBVIOUS
    <2>1. p.slots[t].tag = "Uninit" <=> p.initialized <= t
      BY DEF PageOK
    <2>2. CASE t = s
      BY <2>1, <2>2, <1>6, <1>7, SlotTags
    <2>3. CASE t # s
      BY <2>1, <2>3, <1>6, <1>7
    <2> QED BY <2>2, <2>3
  <1> DEFINE H == [k \in 0 .. m + 1 |-> IF k = 0 THEN s ELSE L[k - 1]]
  <1>12. /\ H \in [0 .. m + 1 -> Nat] /\ H[0] = q.next
         /\ H[m + 1] = q.initialized
    BY <1>1, <1>5, <1>6
  <1>13. \A k \in 0 .. m : H[k + 1] = L[k]
    BY <1>5
  <1>14. \A k \in 1 .. m : H[k] = L[k - 1] /\ k - 1 \in 0 .. m - 1
    BY <1>5
  <1> HIDE DEF H
  <1>15. \A k \in 0 .. m - 1 : L[k] # s
    BY <1>4, SlotTags DEF FreeList
  <1>16. ASSUME NEW k \in 0 .. m
         PROVE  H[k] \in SlotIds(i) /\ q.slots[H[k]] = Vacant(H[k + 1])
    <2>1. CASE k = 0
      BY <2>1, <1>5, <1>6, <1>7, <1>12, <1>13
    <2>2. CASE k # 0
      <3>1. H[k] = L[k - 1] /\ k - 1 \in 0 .. m - 1 /\ (k - 1) + 1 = k
        BY <2>2, <1>5, <1>14
      <3>2. H[k] \in SlotIds(i) /\ p.slots[H[k]] = Vacant(L[k]) /\ H[k] # s
        BY <3>1, <1>4, <1>15 DEF FreeList
      <3> QED BY <3>2, <1>7, <1>13
    <2> QED BY <2>1, <2>2
  <1>17. ASSUME NEW j \in 0 .. m, NEW k \in 0 .. m, H[j] = H[k]
         PROVE  j = k
    <2>1. CASE j = 0 /\ k = 0
      BY <2>1
    <2>2. CASE j = 0 /\ k # 0
      <3>1. k \in 1 .. m
        BY <1>5, <2>2
      <3> QED BY <3>1, <2>2, <1>6, <1>12, <1>14, <1>15, <1>17
    <2>3. CASE j # 0 /\ k = 0
      <3>1. j \in 1 .. m
        BY <1>5, <2>3
      <3> QED BY <3>1, <2>3, <1>6, <1>12, <1>14, <1>15, <1>17
    <2>4. CASE j # 0 /\ k # 0
      <3>1. j \in 1 .. m /\ k \in 1 .. m
        BY <1>5, <2>4
      <3>2. L[j - 1] = L[k - 1] /\ j - 1 \in 0 .. m - 1 /\ k - 1 \in 0 .. m - 1
        BY <3>1, <1>14, <1>17
      <3>3. j - 1 = k - 1
        BY <3>2, <1>4 DEF FreeList
      <3> QED BY <3>3, <3>1
    <2> QED BY <2>1, <2>2, <2>3, <2>4
  <1>18. ASSUME NEW t \in SlotIds(i), q.slots[t].tag = "Vacant"
         PROVE  \E k \in 0 .. m : H[k] = t
    <2>1. CASE t = s
      <3>1. 0 \in 0 .. m /\ H[0] = t
        BY <2>1, <1>5, <1>6, <1>12
      <3> QED BY <3>1
    <2>2. CASE t # s
      <3>1. p.slots[t].tag = "Vacant"
        BY <1>18, <2>2, <1>7
      <3>2. PICK k \in 0 .. m - 1 : L[k] = t
        BY <3>1, <1>4 DEF FreeList
      <3>3. k + 1 \in 0 .. m /\ k \in 0 .. m
        BY <1>5
      <3> QED BY <3>2, <3>3, <1>13
    <2> QED BY <2>1, <2>2
  <1>19. q.used + (m + 1) = q.initialized
    <2>1. \A a, b, c \in Nat : a + b = c => (a - 1) + (b + 1) = c
      OBVIOUS
    <2>2. (p.used - 1) + (m + 1) = p.initialized
      <3>1. p.used + m = p.initialized /\ m \in Nat
        BY <1>5
      <3> QED BY <2>1, <3>1, <1>3
    <2> QED BY <2>2, <1>6
  <1>20. (m + 1) - 1 = m /\ m + 1 \in Nat
    BY <1>5
  <1>21. FreeList(i, q, m + 1, H)
    BY <1>12, <1>16, <1>17, <1>18, <1>19, <1>20 DEF FreeList
  <1> QED BY <1>2, <1>6, <1>9, <1>10, <1>11, <1>21 DEF PageOK, q

(* A page without used slots has none that is occupied.                    *)
LEMMA EmptyPage ==
  ASSUME NEW i \in Nat, NEW p, PageOK(i, p), p.used = 0
  PROVE  \A s \in SlotIds(i) : p.slots[s].tag # "Occupied"
  <1>1. Cardinality(OccupiedIn(i, p)) = 0
    BY DEF PageOK
  <1>2. OccupiedIn(i, p) = {}
    BY <1>1, OccupiedFinite, FS_EmptySet
  <1> QED BY <1>2 DEF OccupiedIn

-----------------------------------------------------------------------------
(* All pages, and the map they represent.                                  *)
PagesOK(ps) ==
  /\ ps = [i \in PageIds |-> ps[i]]
  /\ \A i \in PageIds : ps[i] = None \/ PageOK(i, ps[i])

(* The inductive invariant.                                                *)
SlabInv == PagesOK(pages) /\ w_page_id \in PageIds

ValueIn(p, s) ==
  IF p.allocated /\ p.slots[s].tag = "Occupied" THEN p.slots[s].val ELSE NoVal
MapOf(ps) ==
  [key \in Keys |-> LET i == get_page_id(key)
                    IN  ValueIn(ps[i], key - PrevLen(i))]

LEMMA Allocated ==
  /\ None.allocated = FALSE
  /\ \A i \in Nat : \A p : PageOK(i, p) => p.allocated = TRUE
  BY DEF None, PageOK, PageType

LEMMA PageIdsNat ==
  /\ 0 \in PageIds
  /\ \A i \in PageIds : i \in Nat /\ i \in 0 .. NUM_PAGES - 1
  BY Constants DEF PageIds

(* What get finds is what the page holds: an occupied slot is initialized. *)
EntryIn(ps, key) ==
  LET i == get_page_id(key)
      slot == key - PrevLen(i)
  IN  IF ps[i].allocated /\ slot < ps[i].initialized
        THEN ps[i].slots[slot] ELSE Uninit

LEMMA EntryIs ==
  ASSUME NEW ps, PagesOK(ps), NEW key \in Keys
  PROVE  LET i == get_page_id(key)
             s == key - PrevLen(i)
         IN  /\ EntryIn(ps, key).tag = "Occupied"
                  <=> ps[i].allocated /\ ps[i].slots[s].tag = "Occupied"
             /\ EntryIn(ps, key).tag = "Occupied"
                  => EntryIn(ps, key) = ps[i].slots[s]
  <1> DEFINE i == get_page_id(key)
             s == key - PrevLen(i)
  <1>1. i \in PageIds /\ s \in SlotIds(i)
    BY SlotOfKey DEF SlotIds
  <1>2. EntryIn(ps, key) = IF ps[i].allocated /\ s < ps[i].initialized
                             THEN ps[i].slots[s] ELSE Uninit
    BY DEF EntryIn
  <1> HIDE DEF i, s
  <1>3. CASE ps[i] = None
    BY <1>2, <1>3, Allocated, SlotTags DEF i, s
  <1>4. CASE PageOK(i, ps[i])
    <2>1. ps[i].slots[s].tag = "Uninit" <=> ps[i].initialized <= s
      BY <1>1, <1>4 DEF PageOK
    <2>2. ps[i].initialized \in Nat /\ s \in Int
      <3>1. ps[i] \in PageType(i)
        BY <1>4 DEF PageOK
      <3>2. ps[i].initialized \in Nat
        BY <3>1 DEF PageType
      <3>3. PageSize(i) \in Nat
        BY <1>1, PageIdsNat, PageSizes
      <3> QED BY <1>1, <3>2, <3>3 DEF SlotIds
    <2> QED BY <1>2, <2>1, <2>2, SlotTags DEF i, s
  <1> QED BY <1>1, <1>3, <1>4 DEF PagesOK

LEMMA AbstractMapIs ==
  /\ PagesOK(pages) => AbstractMap = MapOf(pages)
  /\ PagesOK(pages') => AbstractMap' = MapOf(pages')
  <1> DEFINE M(ps) == [key \in Keys |->
                         LET e == EntryIn(ps, key)
                         IN  IF e.tag = "Occupied" THEN e.val ELSE NoVal]
  <1>1. AbstractMap = M(pages) /\ AbstractMap' = M(pages')
    BY DEF AbstractMap, EntryOf, EntryIn
  <1>2. ASSUME NEW ps, PagesOK(ps) PROVE M(ps) = MapOf(ps)
    <2>1. \A key \in Keys :
            (IF EntryIn(ps, key).tag = "Occupied"
               THEN EntryIn(ps, key).val ELSE NoVal)
              = LET i == get_page_id(key)
                IN  ValueIn(ps[i], key - PrevLen(i))
      BY <1>2, EntryIs DEF ValueIn
    <2> QED BY <2>1 DEF MapOf
  <1> QED BY <1>1, <1>2

(* A step that changes one slot of one page changes one key of the map.    *)
LEMMA SetSlot ==
  ASSUME NEW ps, PagesOK(ps), NEW i \in PageIds, NEW q, PageOK(i, q),
         NEW s \in SlotIds(i),
         \A t \in SlotIds(i) : t # s => ValueIn(q, t) = ValueIn(ps[i], t)
  PROVE  LET new == [ps EXCEPT ![i] = q]
             key == PrevLen(i) + s
         IN  /\ PagesOK(new)
             /\ key \in Keys
             /\ MapOf(ps)[key] = ValueIn(ps[i], s)
             /\ MapOf(new) = [MapOf(ps) EXCEPT ![key] = ValueIn(q, s)]
  <1> DEFINE new == [ps EXCEPT ![i] = q]
             key == PrevLen(i) + s
  <1>1. /\ new[i] = q /\ new = [j \in PageIds |-> new[j]]
        /\ \A j \in PageIds : j # i => new[j] = ps[j]
    BY DEF PagesOK
  <1> HIDE DEF new
  <1>2. PagesOK(new)
    BY <1>1 DEF PagesOK
  <1>3. key \in Keys /\ get_page_id(key) = i
    BY KeyOfSlot DEF SlotIds
  <1>4. key - PrevLen(i) = s
    BY PageIdsNat, PageSizes DEF SlotIds
  <1>5. MapOf(ps)[key] = ValueIn(ps[i], s)
    BY <1>3, <1>4 DEF MapOf
  <1>6. ASSUME NEW k \in Keys
        PROVE  MapOf(new)[k] = IF k = key THEN ValueIn(q, s) ELSE MapOf(ps)[k]
    <2> DEFINE j == get_page_id(k)
               t == k - PrevLen(j)
    <2>1. j \in PageIds /\ t \in SlotIds(j)
      BY SlotOfKey DEF SlotIds
    <2>2. MapOf(new)[k] = ValueIn(new[j], t) /\ MapOf(ps)[k] = ValueIn(ps[j], t)
      BY DEF MapOf
    <2>3. CASE k = key
      BY <2>2, <2>3, <1>1, <1>3, <1>4
    <2>4. CASE k # key /\ j # i
      BY <2>1, <2>2, <2>4, <1>1
    <2>5. CASE k # key /\ j = i
      <3>1. PrevLen(i) \in Nat /\ k \in Int
        BY PageIdsNat, PageSizes, Constants DEF Keys
      <3>2. t # s
        BY <2>5, <3>1
      <3> QED BY <2>1, <2>2, <2>5, <3>2, <1>1
    <2> QED BY <2>3, <2>4, <2>5
  <1>7. MapOf(new) = [MapOf(ps) EXCEPT ![key] = ValueIn(q, s)]
    <2>1. DOMAIN MapOf(ps) = Keys /\ DOMAIN MapOf(new) = Keys
      BY DEF MapOf
    <2>2. MapOf(new) = [k \in Keys |-> MapOf(new)[k]]
      BY DEF MapOf
    <2>3. [MapOf(ps) EXCEPT ![key] = ValueIn(q, s)]
            = [k \in Keys |-> IF k = key THEN ValueIn(q, s) ELSE MapOf(ps)[k]]
      BY <2>1
    <2> QED BY <2>2, <2>3, <1>6
  <1> QED BY <1>2, <1>3, <1>5, <1>7 DEF new

(* Dropping a page without used slots, as compaction does, changes nothing.*)
LEMMA DropPage ==
  ASSUME NEW ps, PagesOK(ps), NEW last, ps[last].used = 0
  PROVE  LET new == [ps EXCEPT ![last] = None]
         IN  PagesOK(new) /\ MapOf(new) = MapOf(ps)
  <1> DEFINE new == [ps EXCEPT ![last] = None]
  <1>1. /\ new = [j \in PageIds |-> new[j]]
        /\ \A j \in PageIds : new[j] = IF j = last THEN None ELSE ps[j]
    BY DEF PagesOK
  <1> HIDE DEF new
  <1>2. PagesOK(new)
    BY <1>1 DEF PagesOK
  <1>3. ASSUME NEW j \in PageIds, NEW t \in SlotIds(j)
        PROVE  ValueIn(new[j], t) = ValueIn(ps[j], t)
    <2>1. CASE j # last
      BY <1>1, <2>1
    <2>2. CASE j = last /\ ps[j] = None
      BY <1>1, <2>2
    <2>3. CASE j = last /\ PageOK(j, ps[j])
      BY <1>1, <2>3, PageIdsNat, EmptyPage, Allocated DEF ValueIn
    <2> QED BY <2>1, <2>2, <2>3 DEF PagesOK
  <1>4. \A k \in Keys : LET j == get_page_id(k)
                        IN  j \in PageIds /\ k - PrevLen(j) \in SlotIds(j)
    BY SlotOfKey DEF SlotIds
  <1>5. MapOf(new) = MapOf(ps)
    BY <1>3, <1>4 DEF MapOf
  <1> QED BY <1>2, <1>5 DEF new

LEMMA SlabInitInv ==
  SlabInit => SlabInv /\ AbstractMap = [k \in Keys |-> NoVal]
  <1> SUFFICES ASSUME SlabInit PROVE SlabInv /\ AbstractMap = [k \in Keys |-> NoVal]
    OBVIOUS
  <1>1. pages = [i \in PageIds |-> None] /\ w_page_id = 0
    BY DEF SlabInit
  <1>2. PagesOK(pages)
    BY <1>1 DEF PagesOK
  <1>3. \A i \in PageIds : \A s : ValueIn(pages[i], s) = NoVal
    BY <1>1, Allocated DEF ValueIn
  <1>4. MapOf(pages) = [k \in Keys |-> NoVal]
    BY <1>3, SlotOfKey DEF MapOf
  <1> QED BY <1>1, <1>2, <1>4, AbstractMapIs, PageIdsNat DEF SlabInv

(* insert stores the value under a key that was not in use.                *)
LEMMA InsertStep ==
  ASSUME SlabInv, NEW v \in Vals, insert(v)
  PROVE  /\ SlabInv'
         /\ \E k \in Keys : AbstractMap[k] = NoVal
                            /\ AbstractMap' = [AbstractMap EXCEPT ![k] = v]
  <1> DEFINE i == Min(Candidates)
             p == IF pages[i].allocated THEN pages[i] ELSE NewPage(i)
             q == AllocSet(p, v)
             s == p.next
             k == PrevLen(i) + s
  <1>1. Candidates # {} /\ pages' = [pages EXCEPT ![i] = q] /\ w_page_id' = i
    BY DEF insert
  <1>2. Candidates \in SUBSET Nat
    BY PageIdsNat, Constants DEF Candidates, SlabInv
  <1>3. i \in Candidates
    BY <1>1, <1>2, SmallestIn DEF Min
  <1>4. i \in PageIds /\ ~IsFull(i)
    BY <1>3, PageIdsNat, Constants DEF Candidates, PageIds, SlabInv
  <1>5. i \in Nat /\ PagesOK(pages)
    BY <1>4, PageIdsNat DEF SlabInv
  <1> HIDE DEF i
  <1>6. /\ PageOK(i, p) /\ p.used # PageSize(i)
        /\ \A t \in SlotIds(i) : ValueIn(p, t) = ValueIn(pages[i], t)
    <2>1. CASE pages[i] = None
      <3>1. p = NewPage(i)
        BY <2>1, Allocated
      <3>2. \A t \in SlotIds(i) : NewPage(i).slots[t].tag # "Occupied"
        BY <1>5, NewPageOK DEF OccupiedIn
      <3>3. \A t \in SlotIds(i) : ValueIn(NewPage(i), t) = ValueIn(pages[i], t)
        BY <2>1, <3>2, Allocated DEF ValueIn
      <3> HIDE DEF p
      <3> QED BY <1>5, <3>1, <3>3, NewPageOK
    <2>2. CASE PageOK(i, pages[i])
      <3>1. pages[i].allocated
        BY <2>2, <1>5, Allocated
      <3> QED BY <2>2, <3>1, <1>4 DEF IsFull
    <2> QED BY <2>1, <2>2, <1>4, <1>5 DEF PagesOK
  <1> HIDE DEF p
  <1>7. /\ PageOK(i, q) /\ s \in SlotIds(i) /\ p.slots[s].tag # "Occupied"
        /\ q.slots = [p.slots EXCEPT ![s] = Occupied(v)]
    BY <1>5, <1>6, AllocSetOK
  <1> HIDE DEF q, s
  <1>8. p.slots \in [SlotIds(i) -> SlotValues]
    <2>1. p \in PageType(i)
      BY <1>6 DEF PageOK
    <2> QED BY <2>1 DEF PageType
  <1>9. /\ q.slots[s] = Occupied(v)
        /\ \A t \in SlotIds(i) : t # s => q.slots[t] = p.slots[t]
    BY <1>7, <1>8
  <1>10. p.allocated = TRUE /\ q.allocated = TRUE
    BY <1>5, <1>6, <1>7, Allocated
  <1>11. ValueIn(q, s) = v /\ ValueIn(pages[i], s) = NoVal
    BY <1>6, <1>7, <1>9, <1>10, SlotTags DEF ValueIn
  <1>12. \A t \in SlotIds(i) : t # s => ValueIn(q, t) = ValueIn(pages[i], t)
    BY <1>6, <1>9, <1>10 DEF ValueIn
  <1>13. /\ PagesOK(pages') /\ k \in Keys
         /\ MapOf(pages)[k] = NoVal
         /\ MapOf(pages') = [MapOf(pages) EXCEPT ![k] = v]
    <2>1. /\ PagesOK([pages EXCEPT ![i] = q])
          /\ PrevLen(i) + s \in Keys
          /\ MapOf(pages)[PrevLen(i) + s] = ValueIn(pages[i], s)
          /\ MapOf([pages EXCEPT ![i] = q])
               = [MapOf(pages) EXCEPT ![PrevLen(i) + s] = ValueIn(q, s)]
      BY <1>4, <1>5, <1>7, <1>12, SetSlot
    <2> QED BY <1>1, <1>11, <2>1
  <1>14. SlabInv'
    BY <1>1, <1>4, <1>13 DEF SlabInv
  <1> HIDE DEF k
  <1> QED BY <1>5, <1>13, <1>14, AbstractMapIs

(* mark_remove leaves the map alone.                                       *)
LEMMA MarkRemove ==
  ASSUME SlabInv, NEW ps, PagesOK(ps), mark_remove(ps)
  PROVE  SlabInv' /\ AbstractMap' = MapOf(ps)
  <1> DEFINE last == Max({i \in PageIds : ps[i].allocated} \cup {0})
  <1>1. /\ w_page_id' = 0 \/ w_page_id' = w_page_id
        /\ \/ pages' = ps
           \/ ps[last].used = 0 /\ pages' = [ps EXCEPT ![last] = None]
    BY DEF mark_remove
  <1> HIDE DEF last
  <1>2. PagesOK(pages') /\ MapOf(pages') = MapOf(ps)
    BY <1>1, DropPage
  <1> QED BY <1>1, <1>2, AbstractMapIs, PageIdsNat DEF SlabInv

(* Ref::remove takes out its own key.                                      *)
LEMMA RemoveStep ==
  ASSUME SlabInv, NEW key \in Keys, RefRemove(key)
  PROVE  /\ SlabInv'
         /\ AbstractMap[key] # NoVal
         /\ AbstractMap' = [AbstractMap EXCEPT ![key] = NoVal]
  <1> DEFINE i == get_page_id(key)
             s == key - PrevLen(i)
             p == pages[i]
             q == PageRemove(p, s)
             ps == [pages EXCEPT ![i] = q]
  <1>1. i \in PageIds /\ s \in SlotIds(i) /\ i \in Nat /\ PagesOK(pages)
    BY SlotOfKey, PageIdsNat DEF SlotIds, SlabInv
  <1>2. get(key) /\ mark_remove([pages EXCEPT ![i] = PageRemove(@, s)])
    BY DEF RefRemove
  <1>3. [pages EXCEPT ![i] = PageRemove(@, s)] = ps
    BY <1>1 DEF PagesOK
  <1>4. mark_remove(ps)
    BY <1>2, <1>3
  <1>5. PrevLen(i) + s = key
    <2>1. PrevLen(i) \in Nat
      BY <1>1, PageSizes
    <2>2. PrevLen(NUM_PAGES) \in Nat
      BY Constants, PageSizes
    <2>3. key \in Int
      BY <2>2 DEF Keys
    <2> QED BY <2>1, <2>3
  <1>6. p.allocated /\ p.slots[s].tag = "Occupied"
    <2>1. EntryIn(pages, key).tag = "Occupied"
      BY <1>2 DEF get, EntryOf, EntryIn
    <2> QED BY <2>1, <1>1, EntryIs
  <1>7. PageOK(i, p)
    BY <1>1, <1>6, Allocated DEF PagesOK
  <1> HIDE DEF i, s, p
  <1>8. PageOK(i, q) /\ q.slots = [p.slots EXCEPT ![s] = Vacant(p.next)]
    BY <1>1, <1>6, <1>7, PageRemoveOK
  <1> HIDE DEF q
  <1>9. p.slots \in [SlotIds(i) -> SlotValues]
    <2>1. p \in PageType(i)
      BY <1>7 DEF PageOK
    <2> QED BY <2>1 DEF PageType
  <1>10. /\ q.slots[s] = Vacant(p.next)
         /\ \A t \in SlotIds(i) : t # s => q.slots[t] = p.slots[t]
    BY <1>1, <1>8, <1>9
  <1>11. p.allocated = TRUE /\ q.allocated = TRUE
    BY <1>1, <1>7, <1>8, Allocated
  <1>12. ValueIn(q, s) = NoVal /\ ValueIn(p, s) # NoVal
    <2>1. p.slots[s].val \in Vals
      BY <1>1, <1>6, <1>9, SlotTags
    <2> QED BY <2>1, <1>6, <1>10, SlotTags, Constants DEF ValueIn
  <1>13. \A t \in SlotIds(i) : t # s => ValueIn(q, t) = ValueIn(p, t)
    BY <1>10, <1>11 DEF ValueIn
  <1>14. /\ PagesOK(ps) /\ MapOf(pages)[key] = ValueIn(p, s)
         /\ MapOf(ps) = [MapOf(pages) EXCEPT ![key] = NoVal]
    BY <1>1, <1>5, <1>8, <1>12, <1>13, SetSlot DEF p
  <1> HIDE DEF ps
  <1>15. SlabInv' /\ AbstractMap' = MapOf(ps)
    BY <1>4, <1>14, MarkRemove
  <1> QED BY <1>1, <1>12, <1>14, <1>15, AbstractMapIs

(* A removal of a missing key only counts.                                 *)
LEMMA MissingStep ==
  ASSUME SlabInv, NEW key \in Keys, RemoveMissing(key)
  PROVE  SlabInv' /\ AbstractMap' = AbstractMap
  <1>1. PagesOK(pages) /\ mark_remove(pages)
    BY DEF SlabInv, RemoveMissing
  <1>2. SlabInv' /\ AbstractMap' = MapOf(pages)
    BY <1>1, MarkRemove
  <1> QED BY <1>1, <1>2, AbstractMapIs

LEMMA SlabStep ==
  ASSUME SlabInv, [SlabNext]_slabVars
  PROVE  SlabInv' /\ [Abstract!Next]_AbstractMap
  <1>1. CASE UNCHANGED slabVars
    <2>1. AbstractMap' = AbstractMap
      BY <1>1 DEF slabVars, AbstractMap, EntryOf
    <2> QED BY <1>1, <2>1 DEF slabVars, SlabInv
  <1>2. ASSUME NEW v \in Vals, insert(v)
        PROVE  SlabInv' /\ [Abstract!Next]_AbstractMap
    BY <1>2, InsertStep DEF Abstract!Next, Abstract!Insert
  <1>3. ASSUME NEW key \in Keys, RefRemove(key)
        PROVE  SlabInv' /\ [Abstract!Next]_AbstractMap
    BY <1>3, RemoveStep DEF Abstract!Next, Abstract!Remove
  <1>4. ASSUME NEW key \in Keys, RemoveMissing(key)
        PROVE  SlabInv' /\ [Abstract!Next]_AbstractMap
    BY <1>4, MissingStep
  <1> QED BY <1>1, <1>2, <1>3, <1>4 DEF SlabNext

(* The walk along the free list of a page is its witness L, after which it *)
(* stays at the first uninitialized slot.                                  *)
LEMMA ChainIs ==
  ASSUME NEW i \in PageIds, PageOK(i, pages[i]),
         NEW m, NEW L, FreeList(i, pages[i], m, L)
  PROVE  /\ m \in 0 .. PageSize(i)
         /\ \A n \in 0 .. PageSize(i) :
              Chain(i)[n] = IF n <= m THEN L[n] ELSE L[m]
  <1> DEFINE p == pages[i]
             N == PageSize(i)
             W == [n \in 0 .. N |-> IF n <= m THEN L[n] ELSE L[m]]
             hopOf(s) == IF s \in SlotsWith(i, "Vacant") THEN p.slots[s].next
                                                        ELSE s
             Def(h) == [n \in 0 .. N |-> IF n = 0 THEN p.next
                                                  ELSE hopOf(h[n - 1])]
  <1>1. p \in PageType(i) /\ p.initialized <= N
    BY DEF PageOK
  <1>2. /\ p.used \in Nat /\ p.initialized \in Nat
        /\ p.slots \in [SlotIds(i) -> SlotValues] /\ N \in Nat
    BY <1>1, PageIdsNat, PageSizes DEF PageType
  <1>3. /\ m \in Nat /\ L[0] = p.next /\ L[m] = p.initialized
        /\ p.used + m = p.initialized
    BY DEF FreeList
  <1>4. m \in 0 .. N
    BY <1>1, <1>2, <1>3
  <1>5. SlotsWith(i, "Vacant") = {s \in SlotIds(i) : p.slots[s].tag = "Vacant"}
    BY <1>2 DEF SlotsWith
  <1>6. \A k \in 0 .. m - 1 : hopOf(L[k]) = L[k + 1]
    <2> SUFFICES ASSUME NEW k \in 0 .. m - 1 PROVE hopOf(L[k]) = L[k + 1]
      OBVIOUS
    <2>1. L[k] \in SlotIds(i) /\ p.slots[L[k]] = Vacant(L[k + 1])
      BY DEF FreeList
    <2> QED BY <2>1, <1>5, SlotTags
  <1>7. hopOf(L[m]) = L[m]
    <2>1. ASSUME L[m] \in SlotIds(i) PROVE p.slots[L[m]].tag = "Uninit"
      BY <2>1, <1>2, <1>3 DEF PageOK
    <2> QED BY <2>1, <1>5
  <1> HIDE DEF hopOf
  <1>8. W = Def(W)
    <2>1. ASSUME NEW n \in 0 .. N
          PROVE  W[n] = IF n = 0 THEN p.next ELSE hopOf(W[n - 1])
      <3>1. n \in Int /\ (n # 0 => n - 1 \in 0 .. N)
        BY <1>2
      <3>2. CASE n = 0
        BY <3>2, <1>2, <1>3
      <3>3. CASE n # 0 /\ n <= m
        <4>1. n - 1 \in 0 .. m - 1 /\ n - 1 \in 0 .. N /\ n - 1 <= m
              /\ (n - 1) + 1 = n
          BY <3>1, <3>3, <1>3
        <4>2. W[n - 1] = L[n - 1] /\ W[n] = L[n]
          BY <4>1, <3>3
        <4> QED BY <4>1, <4>2, <3>3, <1>6
      <3>4. CASE n # 0 /\ ~(n <= m)
        <4>1. W[n] = L[m] /\ W[n - 1] = L[m]
          <5>1. n - 1 <= m => n - 1 = m
            BY <3>1, <3>4, <1>3
          <5> QED BY <5>1, <3>1, <3>4
        <4> QED BY <4>1, <3>4, <1>7
      <3> QED BY <3>2, <3>3, <3>4
    <2> HIDE DEF W
    <2>2. W = [n \in 0 .. N |-> W[n]]
      BY DEF W
    <2> QED BY <2>1, <2>2
  <1> DEFINE C == Chain(i)
  <1>9. C = CHOOSE h : h = Def(h)
    BY DEF Chain, hopOf
  <1> HIDE DEF W, C
  <1>10. C = Def(C)
    BY <1>8, <1>9
  <1>11. \A n \in 0 .. N : C[n] = W[n]
    <2> DEFINE S == {n \in Nat : n \in 0 .. N => C[n] = W[n]}
    <2>1. 0 \in S
      BY <1>8, <1>10
    <2>2. ASSUME NEW n \in Nat, n \in S PROVE n + 1 \in S
      <3> SUFFICES ASSUME n + 1 \in 0 .. N PROVE C[n + 1] = W[n + 1]
        OBVIOUS
      <3>1. n \in 0 .. N /\ n + 1 # 0 /\ (n + 1) - 1 = n
        BY <1>2
      <3>2. C[n] = W[n]
        BY <2>2, <3>1
      <3>3. C[n + 1] = hopOf(C[n]) /\ W[n + 1] = hopOf(W[n])
        BY <3>1, <1>8, <1>10
      <3> QED BY <3>2, <3>3
    <2> HIDE DEF S
    <2>3. \A n \in Nat : n \in S
      BY <2>1, <2>2, Induction
    <2> QED BY <2>3, <1>2 DEF S
  <1> QED BY <1>4, <1>11 DEF C, W

LEMMA FreeListFromInv ==
  SlabInv => FreeListExact
  <1> SUFFICES ASSUME SlabInv, NEW i \in Live
               PROVE  LET p == pages[i]
                          visited == {Chain(i)[n] : n \in 0 .. PageSize(i)}
                      IN  /\ p.used = PageSize(i) => p.next = PageSize(i)
                          /\ p.next = p.initialized
                             \/ p.next \in SlotsWith(i, "Vacant")
                          /\ visited = SlotsWith(i, "Vacant") \cup {p.initialized}
                          /\ p.used = Cardinality(SlotsWith(i, "Occupied"))
                          /\ SlotsWith(i, "Uninit")
                               = p.initialized .. PageSize(i) - 1
    BY DEF FreeListExact
  <1> DEFINE p == pages[i]
             N == PageSize(i)
             vacant == {s \in SlotIds(i) : p.slots[s].tag = "Vacant"}
  <1>1. i \in PageIds /\ i \in Nat /\ PageOK(i, p)
    BY PageIdsNat, Allocated DEF Live, SlabInv, PagesOK
  <1>2. p \in PageType(i) /\ p.initialized <= N
    BY <1>1 DEF PageOK
  <1>3. /\ p.used \in Nat /\ p.initialized \in Nat
        /\ p.slots \in [SlotIds(i) -> SlotValues] /\ N \in Nat
    BY <1>1, <1>2, PageSizes DEF PageType
  <1>4. \A tag : SlotsWith(i, tag) = {s \in SlotIds(i) : p.slots[s].tag = tag}
    BY <1>3 DEF SlotsWith
  <1>5. PICK m, L : FreeList(i, p, m, L)
    BY <1>1 DEF PageOK
  <1>6. /\ m \in Nat /\ L[0] = p.next /\ L[m] = p.initialized
        /\ p.used + m = p.initialized
    BY <1>5 DEF FreeList
  <1>7. /\ m \in 0 .. N
        /\ \A n \in 0 .. N : Chain(i)[n] = IF n <= m THEN L[n] ELSE L[m]
    BY <1>1, <1>5, ChainIs
  <1> HIDE DEF p, N
  <1>8. p.used = N => p.next = N
    <2> SUFFICES ASSUME p.used = N PROVE p.next = N
      OBVIOUS
    <2>1. m = 0 /\ p.initialized = N
      BY <1>2, <1>3, <1>6
    <2> QED BY <2>1, <1>6
  <1>9. \A k \in 0 .. m : L[k] \in vacant \/ k = m
    <2> SUFFICES ASSUME NEW k \in 0 .. m, k # m PROVE L[k] \in vacant
      OBVIOUS
    <2>1. k \in 0 .. m - 1
      BY <1>6
    <2> QED BY <2>1, <1>5, SlotTags DEF FreeList
  <1>10. p.next = p.initialized \/ p.next \in vacant
    <2>1. 0 \in 0 .. m
      BY <1>6
    <2> QED BY <2>1, <1>6, <1>9
  <1>11. {Chain(i)[n] : n \in 0 .. N} = vacant \cup {p.initialized}
    <2>1. ASSUME NEW n \in 0 .. N
          PROVE  Chain(i)[n] \in vacant \cup {p.initialized}
      <3>1. CASE n <= m
        <4>1. n \in 0 .. m
          BY <3>1, <1>3, <1>6
        <4> QED BY <3>1, <4>1, <1>6, <1>7, <1>9
      <3>2. CASE ~(n <= m)
        BY <3>2, <1>6, <1>7
      <3> QED BY <3>1, <3>2
    <2>2. ASSUME NEW s \in vacant PROVE \E n \in 0 .. N : Chain(i)[n] = s
      <3>1. PICK k \in 0 .. m - 1 : L[k] = s
        BY <1>5 DEF FreeList
      <3>2. k \in 0 .. N /\ k <= m
        BY <1>3, <1>6, <1>7
      <3> QED BY <3>1, <3>2, <1>7
    <2>3. \E n \in 0 .. N : Chain(i)[n] = p.initialized
      <3>1. m \in 0 .. N /\ m <= m
        BY <1>6, <1>7
      <3> QED BY <3>1, <1>6, <1>7
    <2> HIDE DEF vacant
    <2> QED BY <2>1, <2>2, <2>3
  <1>12. p.used = Cardinality(SlotsWith(i, "Occupied"))
    <2>1. SlotsWith(i, "Occupied") = OccupiedIn(i, p)
      BY <1>4 DEF OccupiedIn
    <2> QED BY <2>1, <1>1 DEF PageOK, p
  <1>13. SlotsWith(i, "Uninit") = p.initialized .. N - 1
    <2>1. \A s \in SlotIds(i) : p.slots[s].tag = "Uninit" <=> p.initialized <= s
      BY <1>1 DEF PageOK, p
    <2>2. SlotIds(i) = 0 .. N - 1
      BY DEF SlotIds, N
    <2>3. SlotsWith(i, "Uninit") = {s \in SlotIds(i) : p.initialized <= s}
      BY <2>1, <1>4
    <2>4. \A s : s \in 0 .. N - 1 /\ p.initialized <= s
                   <=> s \in p.initialized .. N - 1
      BY <1>3
    <2> QED BY <2>2, <2>3, <2>4
  <1>14. SlotsWith(i, "Vacant") = vacant
    BY <1>4
  <1> QED BY <1>8, <1>10, <1>11, <1>12, <1>13, <1>14 DEF p, N

THEOREM SlabInductive == SlabSpec => []SlabInv
  <1>1. SlabInit => SlabInv
    BY SlabInitInv
  <1>2. SlabInv /\ [SlabNext]_slabVars => SlabInv'
    BY SlabStep
  <1> QED BY <1>1, <1>2, PTL DEF SlabSpec

(* However inserts and removes alternate, the free list of every page      *)
(* visits each vacant slot and then the first uninitialized one, so        *)
(* Page::alloc never hands out an occupied slot nor loses a free one.      *)
THEOREM FreeListSafety == SlabSpec => []FreeListExact
  BY SlabInductive, FreeListFromInv, PTL

(* The slab implements the map of SlabMap: an inserted key was not in use  *)
(* and keeps its value until Ref::remove takes out that key; compaction    *)
(* and the removal of a missing key change nothing the user sees.          *)
THEOREM Refinement == SlabSpec => ImplementsMap
  <1>1. SlabInit => Abstract!Init
    BY SlabInitInv DEF Abstract!Init
  <1>2. SlabInv /\ [SlabNext]_slabVars => [Abstract!Next]_AbstractMap
    BY SlabStep
  <1> QED BY <1>1, <1>2, SlabInductive, PTL DEF SlabSpec, ImplementsMap, Abstract!Spec

=============================================================================
