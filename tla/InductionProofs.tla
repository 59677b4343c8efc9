-------------------------- MODULE InductionProofs --------------------------
(***************************************************************************)
(* What the other proofs share: induction over the natural numbers, and    *)
(* that the recursive definition of a fold over a sequence has a solution. *)
(***************************************************************************)
EXTENDS Integers, FiniteSetsExt, WellFoundedInduction, TLAPS

(* The library's induction theorems take the property as an operator; here *)
(* it is a set, so that the provers can instantiate it.                    *)
LEMMA SmallestIn ==
  ASSUME NEW S \in SUBSET Nat, S # {}
  PROVE  \E n \in S : \A m \in S : n <= m
  <1> DEFINE R == {ss \in Nat \X Nat : ss[1] < ss[2]}
  <1>1. IsWellFoundedOn(R, Nat)
    BY NatLessThanWellFounded DEF OpToRel
  <1> HIDE DEF R
  <1>2. PICK x \in S : \A y \in S : ~ (<<y, x>> \in R)
    BY <1>1, WFMin
  <1>3. \A y \in S : x <= y
    <2> SUFFICES ASSUME NEW y \in S PROVE x <= y
      OBVIOUS
    <2>1. ~ (<<y, x>> \in R) /\ x \in Nat /\ y \in Nat
      BY <1>2
    <2> QED BY <2>1 DEF R
  <1> QED BY <1>3

(* Induction over the natural numbers.                                     *)
LEMMA Induction ==
  ASSUME NEW S, 0 \in S, \A n \in Nat : n \in S => n + 1 \in S
  PROVE  \A n \in Nat : n \in S
  <1> SUFFICES ASSUME NEW n \in Nat, n \notin S PROVE FALSE
    OBVIOUS
  <1> DEFINE T == {m \in Nat : m \notin S}
  <1>1. PICK x \in T : \A m \in T : x <= m
    BY SmallestIn
  <1>2. x \in Nat /\ x \notin S /\ x # 0
    BY <1>1
  <1>3. x - 1 \in Nat /\ ~(x <= x - 1)
    BY <1>2
  <1>4. x - 1 \in S
    BY <1>1, <1>3
  <1> QED BY <1>2, <1>3, <1>4

-----------------------------------------------------------------------------
(* The fold of a sequence goes through the sets of its indices, from the   *)
(* largest index down; the ones that it meets are 1 .. j.                  *)
LEMMA MaxOf ==
  ASSUME NEW n \in Nat, NEW s \in SUBSET (1 .. n), n \in s
  PROVE  Max(s) = n
  <1>1. n \in s /\ \A y \in s : n >= y
    OBVIOUS
  <1>2. Max(s) \in s /\ \A y \in s : Max(s) >= y
    BY <1>1 DEF Max
  <1>3. Max(s) \in 1 .. n /\ Max(s) >= n
    BY <1>2
  <1> QED BY <1>3

(* A set of indices that is not empty has a largest one.                   *)
LEMMA MaxIn ==
  ASSUME NEW n \in Nat
  PROVE  \A s \in SUBSET (1 .. n) : s # {} => Max(s) \in s
  <1> DEFINE P(m) == \A s \in SUBSET (1 .. m) : s # {} => Max(s) \in s
             S == {m \in Nat : P(m)}
  <1>1. P(0)
    <2>1. \A s \in SUBSET (1 .. 0) : s = {}
      OBVIOUS
    <2> QED BY <2>1
  <1>2. ASSUME NEW m \in Nat, P(m) PROVE P(m + 1)
    <2> SUFFICES ASSUME NEW s \in SUBSET (1 .. m + 1), s # {} PROVE Max(s) \in s
      OBVIOUS
    <2>1. CASE m + 1 \in s
      BY <2>1, MaxOf
    <2>2. CASE m + 1 \notin s
      <3>1. s \in SUBSET (1 .. m)
        BY <2>2
      <3> QED BY <3>1, <1>2
    <2> QED BY <2>1, <2>2
  <1> HIDE DEF P
  <1>3. \A m \in Nat : m \in S
    <2>1. 0 \in S /\ \A m \in Nat : m \in S => m + 1 \in S
      BY <1>1, <1>2
    <2> HIDE DEF S
    <2> QED BY <2>1, Induction
  <1>4. P(n)
    BY <1>3
  <1> QED BY <1>4 DEF P

(* Without its largest index, 1 .. j is 1 .. j - 1.                        *)
LEMMA PrefixOf ==
  ASSUME NEW n \in Nat, NEW j \in 1 .. n
  PROVE  /\ 1 .. j \in SUBSET (1 .. n) /\ 1 .. j # {}
         /\ Max(1 .. j) = j
         /\ (1 .. j) \ {j} = 1 .. j - 1
  <1>1. Max(1 .. j) = j
    BY MaxOf
  <1> QED BY <1>1

(* The equation by which the Folds module defines a fold, with the value   *)
(* of index j given by the function F[j].                                  *)
Folding(n, base, F, it) ==
  it = [s \in SUBSET (1 .. n) |->
          IF s = {} THEN base ELSE F[Max(s)][it[s \ {Max(s)}]]]

HasFold(n, V, base, F) ==
  \E it \in [SUBSET (1 .. n) -> V] : Folding(n, base, F, it)

(* The equation has a solution, for any number of indices.                 *)
LEMMA FoldExists ==
  ASSUME NEW n \in Nat, NEW V, NEW base \in V, NEW F \in [1 .. n -> [V -> V]]
  PROVE  HasFold(n, V, base, F)
  <1> DEFINE P(m) == m <= n => HasFold(m, V, base, F)
             S == {m \in Nat : P(m)}
  <1>1. P(0)
    <2> DEFINE it == [s \in SUBSET (1 .. 0) |-> base]
    <2>1. it \in [SUBSET (1 .. 0) -> V]
      OBVIOUS
    <2>2. Folding(0, base, F, it)
      BY DEF Folding
    <2> HIDE DEF it
    <2> QED BY <2>1, <2>2 DEF HasFold
  <1>2. ASSUME NEW m \in Nat, P(m) PROVE P(m + 1)
    <2> SUFFICES ASSUME m + 1 <= n PROVE HasFold(m + 1, V, base, F)
      OBVIOUS
    <2>0. HasFold(m, V, base, F)
      BY <1>2
    <2>1. PICK old \in [SUBSET (1 .. m) -> V] : Folding(m, base, F, old)
      BY <2>0 DEF HasFold
    <2> DEFINE it == [s \in SUBSET (1 .. m + 1) |->
                        IF m + 1 \in s THEN F[m + 1][old[s \ {m + 1}]] ELSE old[s]]
    <2>2. \A s \in SUBSET (1 .. m + 1) : s \ {m + 1} \in SUBSET (1 .. m)
      OBVIOUS
    <2>3. \A s \in SUBSET (1 .. m + 1) : m + 1 \notin s => s \in SUBSET (1 .. m)
      OBVIOUS
    <2>4. it \in [SUBSET (1 .. m + 1) -> V]
      <3>1. \A s \in SUBSET (1 .. m + 1) : it[s] \in V
        BY <2>2, <2>3
      <3> QED BY <3>1
    <2>5. ASSUME NEW s \in SUBSET (1 .. m + 1)
          PROVE  it[s] = IF s = {} THEN base ELSE F[Max(s)][it[s \ {Max(s)}]]
      <3>1. CASE m + 1 \in s
        <4>1. Max(s) = m + 1
          BY <3>1, MaxOf
        <4>2. it[s \ {m + 1}] = old[s \ {m + 1}]
          BY <2>2
        <4> QED BY <3>1, <4>1, <4>2
      <3>2. CASE m + 1 \notin s
        <4>1. s \in SUBSET (1 .. m)
          BY <2>3, <3>2
        <4>2. it[s] = old[s]
          BY <3>2
        <4>3. CASE s = {}
          BY <4>1, <4>2, <4>3, <2>1 DEF Folding
        <4>4. CASE s # {}
          <5>1. Max(s) \in s
            BY <4>1, <4>4, MaxIn
          <5>2. s \ {Max(s)} \in SUBSET (1 .. m)
            BY <4>1
          <5>3. it[s \ {Max(s)}] = old[s \ {Max(s)}]
            BY <5>2
          <5>4. old[s] = F[Max(s)][old[s \ {Max(s)}]]
            BY <4>1, <4>4, <2>1 DEF Folding
          <5> QED BY <4>2, <4>4, <5>3, <5>4
        <4> QED BY <4>3, <4>4
      <3> QED BY <3>1, <3>2
    <2>6. Folding(m + 1, base, F, it)
      <3> SUFFICES it = [s \in SUBSET (1 .. m + 1) |->
                           IF s = {} THEN base ELSE F[Max(s)][it[s \ {Max(s)}]]]
        BY DEF Folding
      <3> HIDE DEF it
      <3> QED BY <2>4, <2>5
    <2> HIDE DEF it
    <2> QED BY <2>4, <2>6 DEF HasFold
  <1> HIDE DEF P
  <1>3. \A m \in Nat : m \in S
    <2>1. 0 \in S /\ \A m \in Nat : m \in S => m + 1 \in S
      BY <1>1, <1>2
    <2> HIDE DEF S
    <2> QED BY <2>1, Induction
  <1>4. P(n)
    BY <1>3
  <1> QED BY <1>4 DEF P

=============================================================================
