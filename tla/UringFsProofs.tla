--------------------------- MODULE UringFsProofs ---------------------------
(***************************************************************************)
(* The tables of UringFilesystem agree, for any set of names, and a        *)
(* directory is listed in its order, however it is read (second half).     *)
(***************************************************************************)
EXTENDS UringFs, SequenceTheorems, InductionProofs, TLAPS

(* Every inode but the root is a file in the root: its path is its name.   *)
FilesInRoot ==
  /\ FUSE_ROOT_ID \in DOMAIN inodes
  /\ inodes[FUSE_ROOT_ID].full_path = RootPath
  /\ \A i \in DOMAIN inodes :
       i # FUSE_ROOT_ID => inodes[i].full_path = <<inodes[i].name>>

(* The kernel takes a name for absent only as long as it is: that create   *)
(* does not put a second inode at a path rests on it.                      *)
AbsentHasNoPath ==
  \A n \in absent : n \notin NotUtf8 => <<n>> \notin DOMAIN path_index

(* The inductive invariant.                                                *)
IInv ==
  /\ next_ino \in Nat /\ next_ino >= 2
  /\ FilesInRoot
  /\ AbsentHasNoPath
  /\ IndexExact

-----------------------------------------------------------------------------
(* The tables that new() makes agree.                                      *)
LEMMA InitHolds == Init => IInv
  <1> SUFFICES ASSUME Init PROVE IInv
    OBVIOUS
  <1> USE DEF FUSE_ROOT_ID, RootPath
  <1>1. /\ inodes = [i \in {1} |-> Inode(1, "", <<>>, "dir")]
        /\ path_index = [p \in {<<>>} |-> 1]
        /\ nodes = {1} /\ absent = {} /\ panicked = "no"
    BY DEF Init
  <1>n. next_ino = 2
    BY DEF Init
  <1>c. ls_cache = <<>>
    BY DEF Init
  <1>2. inodes[1].full_path = <<>> /\ DOMAIN inodes = {1}
    BY <1>1 DEF Inode
  <1>3. FilesInRoot /\ AbsentHasNoPath
    BY <1>1, <1>2 DEF FilesInRoot, AbsentHasNoPath
  <1>4. 1 .. next_ino - 1 = {1} /\ 1 .. next_ino - 2 = {}
    BY <1>n
  <1>5. Listed(<<>>) = [k \in 1 .. next_ino - 2 |-> inodes[k + 1].name]
    <2>1. Listed(<<>>) = <<>>
      BY <1>c DEF Listed
    <2>2. <<>> = [k \in {} |-> inodes[k + 1].name]
      OBVIOUS
    <2> QED BY <1>4, <2>1, <2>2
  <1>6. IndexExact
    BY <1>1, <1>2, <1>4, <1>5 DEF IndexExact, Has
  <1>7. next_ino \in Nat /\ next_ino >= 2
    BY <1>n
  <1> QED BY <1>3, <1>6, <1>7 DEF IInv

(* create gives a name that is absent and in UTF-8 the next number, enters *)
(* both tables and appends the name to the listing of the root.            *)
LEMMA CreateStep ==
  ASSUME IInv, NEW name \in Names, create(name)
  PROVE  IInv'
  <1> USE DEF FUSE_ROOT_ID, RootPath
  <1>1. CASE name \in NotUtf8
    BY <1>1 DEF create, IInv, FilesInRoot, AbsentHasNoPath, IndexExact, Has,
                Listed, filesystem, manager
  <1>2. CASE name \notin NotUtf8
    <2> DEFINE new == Inode(1, name, <<name>>, "file")
    <2>1. /\ name \in absent
          /\ inodes[1].full_path = <<>>
          /\ Join(1, name) = <<name>>
          /\ <<name>> \notin DOMAIN path_index
      BY <1>2 DEF create, IInv, FilesInRoot, AbsentHasNoPath, Join
    <2>2. /\ next_ino' = next_ino + 1
          /\ inodes' = insert(inodes, next_ino, new)
          /\ path_index' = insert(path_index, <<name>>, next_ino)
          /\ ls_cache' = insert(ls_cache, <<>>, Append(Listed(<<>>), name))
          /\ nodes' = nodes \cup {next_ino}
          /\ absent' = absent \ {name}
          /\ panicked' = panicked
      BY <1>2, <2>1 DEF create, manager_create, append
    <2>3. /\ next_ino \in Nat /\ next_ino >= 2
          /\ DOMAIN inodes = 1 .. next_ino - 1
          /\ next_ino \notin DOMAIN inodes
      BY DEF IInv, IndexExact
    <2>a. new.full_path = <<name>> /\ new.name = name
      BY DEF Inode
    <2> HIDE DEF new
    <2>4. /\ DOMAIN inodes' = DOMAIN inodes \cup {next_ino}
          /\ inodes'[next_ino] = new
          /\ \A i \in DOMAIN inodes : inodes'[i] = inodes[i]
      BY <2>2, <2>3 DEF insert
    <2>5. /\ DOMAIN path_index' = DOMAIN path_index \cup {<<name>>}
          /\ path_index'[<<name>>] = next_ino
          /\ \A p \in DOMAIN path_index : path_index'[p] = path_index[p]
      BY <2>1, <2>2 DEF insert
    <2>7. FilesInRoot'
      BY <2>3, <2>4, <2>a DEF IInv, FilesInRoot
    <2>8. AbsentHasNoPath'
      <3> SUFFICES ASSUME NEW n \in absent', n \notin NotUtf8
                   PROVE  <<n>> \notin DOMAIN path_index'
        BY DEF AbsentHasNoPath
      <3>1. n \in absent /\ n # name
        BY <2>2
      <3>2. <<n>> # <<name>>
        BY <3>1
      <3> QED BY <2>5, <3>1, <3>2 DEF IInv, AbsentHasNoPath
    <2>9. \A p \in DOMAIN path_index' :
            /\ path_index'[p] \in DOMAIN inodes'
            /\ inodes'[path_index'[p]].full_path = p
      BY <2>3, <2>4, <2>5, <2>a DEF IInv, IndexExact, Has
    <2>10. DOMAIN inodes' = 1 .. next_ino' - 1
      BY <2>2, <2>3, <2>4
    <2>11. \A i \in DOMAIN inodes' :
             /\ inodes'[i].full_path \in DOMAIN path_index'
             /\ path_index'[inodes'[i].full_path] = i
      BY <2>3, <2>4, <2>5, <2>a DEF IInv, IndexExact
    <2>12. Listed(<<>>)' = [k \in 1 .. next_ino' - 2 |-> inodes'[k + 1].name]
      <3>1. Listed(<<>>)' = Append(Listed(<<>>), name)
        BY <2>2 DEF Listed, insert
      <3>2. Listed(<<>>) = [k \in 1 .. next_ino - 2 |-> inodes[k + 1].name]
        BY DEF IInv, IndexExact
      <3>3. \A k \in 1 .. next_ino - 2 : inodes'[k + 1] = inodes[k + 1]
        BY <2>3, <2>4
      <3>4. inodes'[(next_ino - 1) + 1].name = name
        BY <2>3, <2>4, <2>a
      <3> DEFINE S == {inodes[i].name : i \in DOMAIN inodes} \cup {name}
                 old == Listed(<<>>)
                 new_list == [k \in 1 .. next_ino - 1 |-> inodes'[k + 1].name]
      <3>5. old \in Seq(S) /\ Len(old) = next_ino - 2
        <4>1. \A k \in 1 .. next_ino - 2 : inodes[k + 1].name \in S
          BY <2>3
        <4> HIDE DEF S
        <4>2. next_ino - 2 \in Nat
          BY <2>3
        <4>3. [k \in 1 .. next_ino - 2 |-> inodes[k + 1].name] \in Seq(S)
          BY <4>1, <4>2
        <4>4. Len([k \in 1 .. next_ino - 2 |-> inodes[k + 1].name]) = next_ino - 2
          BY <4>2
        <4> QED BY <3>2, <4>3, <4>4
      <3>6. name \in S
        OBVIOUS
      <3> HIDE DEF S, old
      <3>7. /\ Append(old, name) \in Seq(S)
            /\ Len(Append(old, name)) = Len(old) + 1
            /\ \A i \in 1 .. Len(old) : Append(old, name)[i] = old[i]
            /\ Append(old, name)[Len(old) + 1] = name
        BY <3>5, <3>6, AppendProperties
      <3>8. /\ DOMAIN Append(old, name) = 1 .. next_ino - 1
            /\ Append(old, name) =
                 [k \in DOMAIN Append(old, name) |-> Append(old, name)[k]]
        <4> DEFINE t == Append(old, name)
        <4>1. t \in Seq(S) /\ Len(t) = next_ino - 1
          BY <2>3, <3>5, <3>7
        <4> HIDE DEF t
        <4>2. DOMAIN t = 1 .. next_ino - 1 /\ t = [k \in DOMAIN t |-> t[k]]
          BY <4>1
        <4> QED BY <4>2 DEF t
      <3>9. \A k \in 1 .. next_ino - 1 :
              Append(old, name)[k] = inodes'[k + 1].name
        <4> SUFFICES ASSUME NEW k \in 1 .. next_ino - 1
                     PROVE  Append(old, name)[k] = inodes'[k + 1].name
          OBVIOUS
        <4>1. CASE k \in 1 .. next_ino - 2
          <5>1. Append(old, name)[k] = old[k]
            BY <4>1, <3>5, <3>7
          <5>2. old[k] = inodes[k + 1].name
            BY <4>1, <3>2 DEF old
          <5> QED BY <5>1, <5>2, <4>1, <3>3
        <4>2. CASE k = next_ino - 1
          <5>1. k = Len(old) + 1
            BY <4>2, <3>5, <2>3
          <5>2. Append(old, name)[k] = name
            BY <5>1, <3>7
          <5>3. inodes'[k + 1].name = name
            BY <4>2, <3>4
          <5> QED BY <5>2, <5>3
        <4>3. k \in 1 .. next_ino - 2 \/ k = next_ino - 1
          BY <2>3
        <4> QED BY <4>1, <4>2, <4>3
      <3>10. Append(old, name) = new_list
        BY <3>8, <3>9
      <3>11. next_ino' - 2 = next_ino - 1
        BY <2>2, <2>3
      <3> QED BY <3>1, <3>10, <3>11 DEF old
    <2>13. nodes' \subseteq DOMAIN inodes' /\ panicked' # "setattr"
      BY <2>2, <2>4 DEF IInv, IndexExact
    <2>14. IndexExact'
      BY <2>9, <2>10, <2>11, <2>12, <2>13, Zenon DEF IndexExact, Has
    <2>15. (next_ino \in Nat /\ next_ino >= 2)'
      BY <2>2, <2>3
    <2> QED BY <2>7, <2>8, <2>14, <2>15 DEF IInv
  <1> QED BY <1>1, <1>2

(* lookup tells the kernel of an inode that the index leads to, or that a  *)
(* path is not in the index.                                               *)
LEMMA LookupStep ==
  ASSUME IInv, NEW name \in Names, lookup(name)
  PROVE  IInv'
  <1> USE DEF FUSE_ROOT_ID, RootPath
  <1>1. UNCHANGED <<inodes, path_index, next_ino, ls_cache, panicked>>
    BY DEF lookup, filesystem, manager
  <1>2. Join(1, name) = <<name>> /\ Has(1)
    BY DEF IInv, FilesInRoot, Join, Has
  <1>3. \/ nodes' = nodes /\ absent' = absent \cup {name}
           /\ (name \notin NotUtf8 => <<name>> \notin DOMAIN path_index)
        \/ absent' = absent /\ <<name>> \in DOMAIN path_index
           /\ nodes' = nodes \cup {path_index[<<name>>]}
    <2>1. CASE name \in NotUtf8
      BY <2>1 DEF lookup
    <2>2. CASE name \notin NotUtf8 /\ <<name>> \notin DOMAIN path_index
      BY <2>2, <1>2 DEF lookup, lookup_ino
    <2>3. CASE name \notin NotUtf8 /\ <<name>> \in DOMAIN path_index
      <3>1. path_index[<<name>>] # 0
        BY <2>3 DEF IInv, IndexExact, Has
      <3> QED BY <2>3, <3>1, <1>2 DEF lookup, lookup_ino
    <2> QED BY <2>1, <2>2, <2>3
  <1>4. AbsentHasNoPath'
    BY <1>1, <1>3 DEF IInv, AbsentHasNoPath
  <1>5. nodes' \subseteq DOMAIN inodes
    <2>1. nodes \subseteq DOMAIN inodes
      BY DEF IInv, IndexExact
    <2>2. \A p \in DOMAIN path_index : path_index[p] \in DOMAIN inodes
      BY DEF IInv, IndexExact, Has
    <2> QED BY <1>3, <2>1, <2>2
  <1>6. FilesInRoot'
    BY <1>1 DEF IInv, FilesInRoot
  <1>7. IndexExact'
    <2>1. Listed(RootPath)' = Listed(RootPath)
      BY <1>1 DEF Listed
    <2>2. \A i : Has(i)' <=> Has(i)
      BY <1>1 DEF Has
    <2> QED BY <1>1, <1>5, <2>1, <2>2 DEF IInv, IndexExact
  <1> QED BY <1>1, <1>4, <1>6, <1>7 DEF IInv

(* Every step keeps the invariant.                                         *)
LEMMA StepHolds == IInv /\ [Next]_vars => IInv'
  <1> SUFFICES ASSUME IInv, [Next]_vars PROVE IInv'
    OBVIOUS
  <1>1. CASE \E name \in Names : lookup(name) \/ create(name)
    BY <1>1, CreateStep, LookupStep
  <1>2. CASE \E ino \in nodes : setattr(ino)
    <2>1. panicked' # "setattr"
      BY <1>2 DEF setattr, IInv, IndexExact, Has
    <2>2. UNCHANGED <<inodes, path_index, next_ino, ls_cache, nodes, absent>>
      BY <1>2 DEF setattr, filesystem, manager, kernel
    <2> QED
      BY <2>1, <2>2
      DEF IInv, FilesInRoot, AbsentHasNoPath, IndexExact, Has, Listed
  <1>3. CASE \/ opendir \/ releasedir
             \/ (\E size \in BufferSizes : readdir(size))
             \/ UNCHANGED vars
    <2>1. UNCHANGED <<inodes, path_index, next_ino, ls_cache, nodes, absent,
                      panicked>>
      BY <1>3 DEF opendir, releasedir, readdir, vars, filesystem, manager,
                  kernel
    <2> QED
      BY <2>1 DEF IInv, FilesInRoot, AbsentHasNoPath, IndexExact, Has, Listed
  <1> QED BY <1>1, <1>2, <1>3 DEF Next

(* The inode map, the path index and the listing of the root agree after   *)
(* any sequence of requests, and setattr never meets an unknown inode.     *)
THEOREM IndexSafety == Spec => []IndexExact
  <1>1. IInv => IndexExact
    BY DEF IInv
  <1> QED BY <1>1, InitHolds, StepHolds, PTL DEF Spec

-----------------------------------------------------------------------------
(* Names in a listing, and the entries of a reply.                         *)
Known == Names \cup {"."}
Entries == [name : Known, offset : Nat]

(* The reply of readdir: those of the offered entries that fit.            *)
Fitting(size, offered) ==
  FoldLeft(LAMBDA entries, e : add(size, entries, e), <<>>, offered)

(* It grows to that, entry by entry.                                       *)
Filled(size, offered, r) ==
  /\ r \in [0 .. Len(offered) -> Seq(Entries)]
  /\ r[0] = <<>>
  /\ \A j \in 1 .. Len(offered) : r[j] = add(size, r[j - 1], offered[j])
  /\ Fitting(size, offered) = r[Len(offered)]

(* The bytes of a list of entries are a sum.                               *)
LEMMA BytesFold ==
  ASSUME NEW n \in Nat, NEW s, DOMAIN s = 1 .. n,
         \A j \in 1 .. n : EntrySize[s[j].name] \in Nat
  PROVE  \E r \in [0 .. n -> Nat] :
           /\ r[0] = 0
           /\ \A j \in 1 .. n : r[j] = r[j - 1] + EntrySize[s[j].name]
           /\ Bytes(s) = r[n]
  <1> DEFINE op(x, e) == x + EntrySize[e.name]
             seq == s
             Eq(it) == it = [u \in SUBSET DOMAIN seq |->
                               IF u = {} THEN 0 ELSE op(it[u \ {Max(u)}], seq[Max(u)])]
             it == CHOOSE it : Eq(it)
             V == Nat
  <1>1. Bytes(s) = it[DOMAIN seq]
    BY Zenon DEF FoldLeft, MapThenFoldSet, Bytes
  <1>2. DOMAIN seq = 1 .. n
    OBVIOUS
  <1>3. 0 \in V /\ \A j \in 1 .. n, x \in V : op(x, seq[j]) \in V
    OBVIOUS
  <1> HIDE DEF op, seq, V
  <1>4. \E g : Eq(g)
    <2> DEFINE F == [j \in 1 .. n |-> [x \in V |-> op(x, seq[j])]]
    <2>1. F \in [1 .. n -> [V -> V]]
      BY <1>3
    <2>2. PICK g \in [SUBSET (1 .. n) -> V] : Folding(n, 0, F, g)
      <3> HIDE DEF F
      <3>1. HasFold(n, V, 0, F)
        BY <1>3, <2>1, FoldExists
      <3> QED BY <3>1 DEF HasFold
    <2>3. ASSUME NEW u \in SUBSET (1 .. n), u # {}
          PROVE  F[Max(u)][g[u \ {Max(u)}]] = op(g[u \ {Max(u)}], seq[Max(u)])
      <3>1. Max(u) \in 1 .. n
        BY <2>3, MaxIn
      <3>2. g[u \ {Max(u)}] \in V
        OBVIOUS
      <3> QED BY <3>1, <3>2
    <2>4. g = [u \in SUBSET (1 .. n) |->
                 IF u = {} THEN 0 ELSE F[Max(u)][g[u \ {Max(u)}]]]
      BY <2>2 DEF Folding
    <2>5. Eq(g)
      <3> HIDE DEF F
      <3> QED BY <1>2, <2>3, <2>4
    <2> QED BY <2>5
  <1>5. Eq(it)
    <2> HIDE DEF Eq
    <2> QED BY <1>4
  <1> HIDE DEF it
  <1>6. it[1 .. 0] = 0
    <2>1. 1 .. 0 = {}
      OBVIOUS
    <2> QED BY <1>2, <1>5, <2>1
  <1>7. ASSUME NEW j \in 1 .. n
        PROVE  it[1 .. j] = op(it[1 .. j - 1], seq[j])
    <2>1. /\ 1 .. j \in SUBSET (1 .. n) /\ 1 .. j # {} /\ Max(1 .. j) = j
          /\ (1 .. j) \ {j} = 1 .. j - 1
      BY PrefixOf
    <2>2. it[1 .. j] = op(it[(1 .. j) \ {Max(1 .. j)}], seq[Max(1 .. j)])
      BY <1>2, <1>5, <2>1
    <2> QED BY <2>1, <2>2
  <1> DEFINE S == {j \in Nat : j <= n => it[1 .. j] \in V}
  <1>8. \A j \in Nat : j \in S
    <2>1. 0 \in S
      BY <1>3, <1>6
    <2>2. ASSUME NEW j \in Nat, j \in S PROVE j + 1 \in S
      <3> SUFFICES ASSUME j + 1 <= n PROVE it[1 .. j + 1] \in V
        OBVIOUS
      <3>1. j <= n /\ j + 1 \in 1 .. n /\ (j + 1) - 1 = j
        OBVIOUS
      <3>2. it[1 .. j + 1] = op(it[1 .. j], seq[j + 1])
        BY <1>7, <3>1
      <3> QED BY <1>3, <2>2, <3>1, <3>2
    <2> HIDE DEF S
    <2> QED BY <2>1, <2>2, Induction
  <1> DEFINE r == [j \in 0 .. n |-> it[1 .. j]]
  <1>9. r \in [0 .. n -> V] /\ r[0] = 0 /\ r[n] = it[DOMAIN seq]
    BY <1>2, <1>6, <1>8
  <1>10. \A j \in 1 .. n : r[j] = op(r[j - 1], seq[j])
    <2>1. \A j \in 1 .. n : j \in 0 .. n /\ j - 1 \in 0 .. n
      OBVIOUS
    <2> QED BY <1>7, <2>1
  <1> HIDE DEF r
  <1> QED BY <1>1, <1>9, <1>10 DEF op, seq, V

(* What a reply has after each of the entries that are offered to it.      *)
LEMMA ReplyFold ==
  ASSUME NEW size, NEW n \in Nat, NEW offered \in Seq(Entries), Len(offered) = n
  PROVE  \E r : Filled(size, offered, r)
  <1> DEFINE op(x, e) == add(size, x, e)
             seq == offered
             Eq(it) == it = [s \in SUBSET DOMAIN seq |->
                               IF s = {} THEN <<>> ELSE op(it[s \ {Max(s)}], seq[Max(s)])]
             it == CHOOSE it : Eq(it)
             V == Seq(Entries)
  <1>1. Fitting(size, offered) = it[DOMAIN seq]
    BY Zenon DEF FoldLeft, MapThenFoldSet, Fitting
  <1>2. DOMAIN seq = 1 .. n
    OBVIOUS
  <1>3. <<>> \in V /\ \A j \in 1 .. n, x \in V : op(x, seq[j]) \in V
    <2> HIDE DEF op
    <2> DEFINE E == Entries
    <2>1. <<>> \in Seq(E) /\ \A j \in 1 .. n : offered[j] \in E
      OBVIOUS
    <2> HIDE DEF E
    <2>2. \A x \in Seq(E), e \in E : Append(x, e) \in Seq(E)
      BY AppendProperties
    <2> QED BY <2>1, <2>2 DEF op, add, E
  <1> HIDE DEF op, seq, V
  <1>4. \E g : Eq(g)
    <2> DEFINE F == [j \in 1 .. n |-> [x \in V |-> op(x, seq[j])]]
    <2>1. F \in [1 .. n -> [V -> V]]
      BY <1>3
    <2>2. PICK g \in [SUBSET (1 .. n) -> V] : Folding(n, <<>>, F, g)
      <3> HIDE DEF F
      <3>1. HasFold(n, V, <<>>, F)
        BY <1>3, <2>1, FoldExists
      <3> QED BY <3>1 DEF HasFold
    <2>3. ASSUME NEW s \in SUBSET (1 .. n), s # {}
          PROVE  F[Max(s)][g[s \ {Max(s)}]] = op(g[s \ {Max(s)}], seq[Max(s)])
      <3>1. Max(s) \in 1 .. n
        BY <2>3, MaxIn
      <3>2. g[s \ {Max(s)}] \in V
        OBVIOUS
      <3> QED BY <3>1, <3>2
    <2>4. g = [s \in SUBSET (1 .. n) |->
                 IF s = {} THEN <<>> ELSE F[Max(s)][g[s \ {Max(s)}]]]
      BY <2>2 DEF Folding
    <2>5. Eq(g)
      <3> HIDE DEF F
      <3> QED BY <1>2, <2>3, <2>4
    <2> QED BY <2>5
  <1>5. Eq(it)
    <2> HIDE DEF Eq
    <2> QED BY <1>4
  <1> HIDE DEF it
  <1>6. it[1 .. 0] = <<>>
    <2>1. 1 .. 0 = {}
      OBVIOUS
    <2> QED BY <1>2, <1>5, <2>1
  <1>7. ASSUME NEW j \in 1 .. n
        PROVE  it[1 .. j] = op(it[1 .. j - 1], seq[j])
    <2>1. /\ 1 .. j \in SUBSET (1 .. n) /\ 1 .. j # {} /\ Max(1 .. j) = j
          /\ (1 .. j) \ {j} = 1 .. j - 1
      BY PrefixOf
    <2>2. it[1 .. j] = op(it[(1 .. j) \ {Max(1 .. j)}], seq[Max(1 .. j)])
      BY <1>2, <1>5, <2>1
    <2> QED BY <2>1, <2>2
  <1> DEFINE S == {j \in Nat : j <= n => it[1 .. j] \in V}
  <1>8. \A j \in Nat : j \in S
    <2>1. 0 \in S
      BY <1>3, <1>6
    <2>2. ASSUME NEW j \in Nat, j \in S PROVE j + 1 \in S
      <3> SUFFICES ASSUME j + 1 <= n PROVE it[1 .. j + 1] \in V
        OBVIOUS
      <3>1. j <= n /\ j + 1 \in 1 .. n /\ (j + 1) - 1 = j
        OBVIOUS
      <3>2. it[1 .. j + 1] = op(it[1 .. j], seq[j + 1])
        BY <1>7, <3>1
      <3> QED BY <1>3, <2>2, <3>1, <3>2
    <2> HIDE DEF S
    <2> QED BY <2>1, <2>2, Induction
  <1> DEFINE r == [j \in 0 .. n |-> it[1 .. j]]
  <1>9. r \in [0 .. n -> V] /\ r[0] = <<>> /\ r[n] = it[DOMAIN seq]
    BY <1>2, <1>6, <1>8
  <1>10. \A j \in 1 .. n : r[j] = op(r[j - 1], seq[j])
    <2>1. \A j \in 1 .. n : j \in 0 .. n /\ j - 1 \in 0 .. n
      OBVIOUS
    <2> QED BY <1>7, <2>1
  <1> HIDE DEF r
  <1>11. Filled(size, offered, r)
    BY <1>1, <1>9, <1>10 DEF op, seq, V, Filled
  <1> QED BY <1>11

(* What the loop of readdir has found after each of the names.             *)
LEMMA FoundFold ==
  ASSUME NEW ino, NEW offset \in Nat, NEW n \in Nat,
         DOMAIN Listed(inodes[ino].full_path) = 1 .. n,
         \A i \in 1 .. n : Listed(inodes[ino].full_path)[i] \in Known
  PROVE  \E r \in [0 .. n -> Seq(Entries)] :
           /\ r[0] = <<>>
           /\ \A j \in 1 .. n : r[j] = LET names == Listed(inodes[ino].full_path)
                                    IN  IF j > offset /\ lookup_ino(ino, names[j]) # 0
                                          THEN Append(r[j - 1], Entry(names[j], j, offset))
                                          ELSE r[j - 1]
           /\ Found(ino, offset) = r[n]
  <1> DEFINE names == Listed(inodes[ino].full_path)
             op(x, e) == IF e > offset /\ lookup_ino(ino, names[e]) # 0
                           THEN Append(x, Entry(names[e], e, offset)) ELSE x
             seq == [i \in DOMAIN names |-> i]
             Eq(it) == it = [s \in SUBSET DOMAIN seq |->
                               IF s = {} THEN <<>> ELSE op(it[s \ {Max(s)}], seq[Max(s)])]
             it == CHOOSE it : Eq(it)
             V == Seq(Entries)
  <1>1. Found(ino, offset) = it[DOMAIN seq]
    BY Zenon DEF FoldLeft, MapThenFoldSet, Found
  <1>2. DOMAIN seq = 1 .. n
    OBVIOUS
  <1>3. <<>> \in V /\ \A j \in 1 .. n, x \in V : op(x, seq[j]) \in V
    <2> DEFINE E == Entries
    <2>1. <<>> \in Seq(E) /\ \A j \in 1 .. n : seq[j] = j /\ Entry(names[j], j, offset) \in E
      BY DEF Entry, Entries
    <2> HIDE DEF E
    <2>2. \A x \in Seq(E), e \in E : Append(x, e) \in Seq(E)
      BY AppendProperties
    <2> HIDE DEF names, seq
    <2> QED BY <2>1, <2>2 DEF E
  <1> HIDE DEF op, seq, V
  <1>4. \E g : Eq(g)
    <2> DEFINE F == [j \in 1 .. n |-> [x \in V |-> op(x, seq[j])]]
    <2>1. F \in [1 .. n -> [V -> V]]
      BY <1>3
    <2>2. PICK g \in [SUBSET (1 .. n) -> V] : Folding(n, <<>>, F, g)
      <3> HIDE DEF F
      <3>1. HasFold(n, V, <<>>, F)
        BY <1>3, <2>1, FoldExists
      <3> QED BY <3>1 DEF HasFold
    <2>3. ASSUME NEW s \in SUBSET (1 .. n), s # {}
          PROVE  F[Max(s)][g[s \ {Max(s)}]] = op(g[s \ {Max(s)}], seq[Max(s)])
      <3>1. Max(s) \in 1 .. n
        BY <2>3, MaxIn
      <3>2. g[s \ {Max(s)}] \in V
        OBVIOUS
      <3> QED BY <3>1, <3>2
    <2>4. g = [s \in SUBSET (1 .. n) |->
                 IF s = {} THEN <<>> ELSE F[Max(s)][g[s \ {Max(s)}]]]
      BY <2>2 DEF Folding
    <2>5. Eq(g)
      <3> HIDE DEF F
      <3> QED BY <1>2, <2>3, <2>4
    <2> QED BY <2>5
  <1>5. Eq(it)
    <2> HIDE DEF Eq
    <2> QED BY <1>4
  <1> HIDE DEF it
  <1>6. it[1 .. 0] = <<>>
    <2>1. 1 .. 0 = {}
      OBVIOUS
    <2> QED BY <1>2, <1>5, <2>1
  <1>7. ASSUME NEW j \in 1 .. n
        PROVE  it[1 .. j] = op(it[1 .. j - 1], seq[j])
    <2>1. /\ 1 .. j \in SUBSET (1 .. n) /\ 1 .. j # {} /\ Max(1 .. j) = j
          /\ (1 .. j) \ {j} = 1 .. j - 1
      BY PrefixOf
    <2>2. it[1 .. j] = op(it[(1 .. j) \ {Max(1 .. j)}], seq[Max(1 .. j)])
      BY <1>2, <1>5, <2>1
    <2> QED BY <2>1, <2>2
  <1> DEFINE S == {j \in Nat : j <= n => it[1 .. j] \in V}
  <1>8. \A j \in Nat : j \in S
    <2>1. 0 \in S
      BY <1>3, <1>6
    <2>2. ASSUME NEW j \in Nat, j \in S PROVE j + 1 \in S
      <3> SUFFICES ASSUME j + 1 <= n PROVE it[1 .. j + 1] \in V
        OBVIOUS
      <3>1. j <= n /\ j + 1 \in 1 .. n /\ (j + 1) - 1 = j
        OBVIOUS
      <3>2. it[1 .. j + 1] = op(it[1 .. j], seq[j + 1])
        BY <1>7, <3>1
      <3> QED BY <1>3, <2>2, <3>1, <3>2
    <2> HIDE DEF S
    <2> QED BY <2>1, <2>2, Induction
  <1> DEFINE r == [j \in 0 .. n |-> it[1 .. j]]
  <1>9. r \in [0 .. n -> V] /\ r[0] = <<>> /\ r[n] = it[DOMAIN seq]
    BY <1>2, <1>6, <1>8
  <1>10. \A j \in 1 .. n : r[j] = op(r[j - 1], seq[j])
    <2>1. \A j \in 1 .. n : j \in 0 .. n /\ j - 1 \in 0 .. n
      OBVIOUS
    <2> QED BY <1>7, <2>1
  <1> HIDE DEF r
  <1>11. \A j \in 1 .. n : seq[j] = j
    BY DEF seq
  <1> QED BY <1>1, <1>9, <1>10, <1>11 DEF op, V

(* The m entries of s have the names of the first of the n entries of t.   *)
SameNames(s, m, t, n) ==
  /\ m <= n /\ DOMAIN s = 1 .. m /\ DOMAIN t = 1 .. n
  /\ \A j \in 1 .. n : EntrySize[t[j].name] \in Nat
  /\ \A j \in 1 .. m : s[j].name = t[j].name

(* A part of a listing is no longer than all of it, with one entry more.   *)
LEMMA BytesPrefix ==
  ASSUME NEW m \in Nat, NEW n \in Nat, NEW s, NEW t, SameNames(s, m, t, n)
  PROVE  /\ Bytes(s) \in Nat /\ Bytes(t) \in Nat /\ Bytes(s) <= Bytes(t)
         /\ m < n => Bytes(s) + EntrySize[t[m + 1].name] <= Bytes(t)
         /\ m = n => Bytes(s) = Bytes(t)
  <1> USE DEF SameNames
  <1>1. PICK f \in [0 .. n -> Nat] :
          /\ f[0] = 0
          /\ \A j \in 1 .. n : f[j] = f[j - 1] + EntrySize[t[j].name]
          /\ Bytes(t) = f[n]
    BY BytesFold
  <1>2. PICK g \in [0 .. m -> Nat] :
          /\ g[0] = 0
          /\ \A j \in 1 .. m : g[j] = g[j - 1] + EntrySize[s[j].name]
          /\ Bytes(s) = g[m]
    <2>1. \A j \in 1 .. m : EntrySize[s[j].name] \in Nat
      OBVIOUS
    <2> QED BY <2>1, BytesFold
  <1> DEFINE S == {j \in Nat : j <= m => g[j] = f[j]}
             M(i) == {j \in Nat : i + j <= n => f[i] <= f[i + j]}
  <1>3. \A j \in Nat : j \in S
    <2>1. 0 \in S
      BY <1>1, <1>2
    <2>2. ASSUME NEW j \in Nat, j \in S PROVE j + 1 \in S
      <3> SUFFICES ASSUME j + 1 <= m PROVE g[j + 1] = f[j + 1]
        OBVIOUS
      <3>1. j + 1 \in 1 .. m /\ j + 1 \in 1 .. n /\ (j + 1) - 1 = j /\ g[j] = f[j]
        BY <2>2
      <3>2. g[j + 1] = g[j] + EntrySize[s[j + 1].name]
        BY <1>2, <3>1
      <3>3. f[j + 1] = f[j] + EntrySize[t[j + 1].name]
        BY <1>1, <3>1
      <3> QED BY <3>1, <3>2, <3>3
    <2> HIDE DEF S
    <2> QED BY <2>1, <2>2, Induction
  <1>4. ASSUME NEW i \in 0 .. n PROVE \A j \in Nat : j \in M(i)
    <2>1. 0 \in M(i)
      OBVIOUS
    <2>2. ASSUME NEW j \in Nat, j \in M(i) PROVE j + 1 \in M(i)
      <3> SUFFICES ASSUME i + (j + 1) <= n PROVE f[i] <= f[i + (j + 1)]
        OBVIOUS
      <3>1. i + j \in 0 .. n /\ i + (j + 1) \in 1 .. n /\ (i + (j + 1)) - 1 = i + j
        OBVIOUS
      <3>2. f[i + (j + 1)] = f[i + j] + EntrySize[t[i + (j + 1)].name]
        BY <1>1, <3>1
      <3>3. f[i] \in Nat /\ f[i + j] \in Nat /\ f[i] <= f[i + j]
        BY <2>2, <3>1
      <3>4. EntrySize[t[i + (j + 1)].name] \in Nat
        BY <3>1
      <3> DEFINE x == f[i + j]
                 y == f[i + (j + 1)]
                 d == EntrySize[t[i + (j + 1)].name]
      <3>5. x \in Nat /\ d \in Nat /\ y = x + d /\ f[i] <= x /\ f[i] \in Nat
        BY <3>2, <3>3, <3>4
      <3> HIDE DEF x, y, d
      <3>6. f[i] <= y
        BY <3>5
      <3> QED BY <3>6 DEF y
    <2> HIDE DEF M
    <2> QED BY <2>1, <2>2, Induction
  <1>5. Bytes(s) = f[m] /\ Bytes(t) = f[n] /\ f[m] \in Nat /\ f[n] \in Nat
    BY <1>1, <1>2, <1>3
  <1>6. f[m] <= f[n]
    <2>1. m \in 0 .. n /\ n - m \in Nat /\ m + (n - m) = n
      OBVIOUS
    <2>2. n - m \in M(m)
      BY <1>4, <2>1
    <2> QED BY <2>1, <2>2
  <1>7. ASSUME m < n PROVE f[m + 1] <= f[n] /\ f[m + 1] = f[m] + EntrySize[t[m + 1].name]
    <2>1. m + 1 \in 0 .. n /\ n - (m + 1) \in Nat /\ m + 1 \in 1 .. n /\ (m + 1) - 1 = m
      BY <1>7
    <2>2. n - (m + 1) \in M(m + 1)
      BY <1>4, <2>1
    <2>3. f[m + 1] <= f[n]
      BY <2>1, <2>2
    <2>4. f[m + 1] = f[m] + EntrySize[t[m + 1].name]
      BY <1>1, <2>1
    <2> QED BY <2>3, <2>4
  <1> QED BY <1>5, <1>6, <1>7

(* Entries that stand in a listing in its order, after the first o of its  *)
(* names: an entry with an offset is at the position offset - o.           *)
Placed(s, o, all) ==
  /\ s \in Seq(Entries)
  /\ \A k \in 1 .. Len(s) : /\ s[k].offset \in o + o + 1 .. o + Len(all)
                            /\ s[k].name = all[s[k].offset - o]
  /\ \A j, k \in 1 .. Len(s) : j < k => s[j].offset < s[k].offset

(* One more entry, behind the others.                                      *)
LEMMA PlacedAppend ==
  ASSUME NEW o \in Nat, NEW all \in Seq(Known), NEW s, Placed(s, o, all),
         NEW e \in Entries, e.offset \in o + o + 1 .. o + Len(all),
         e.name = all[e.offset - o],
         \A k \in 1 .. Len(s) : s[k].offset < e.offset
  PROVE  Placed(Append(s, e), o, all)
  <1> DEFINE a == Append(s, e)
  <1>1. s \in Seq(Entries) /\ Len(s) \in Nat
    BY DEF Placed
  <1>2. /\ a \in Seq(Entries) /\ Len(a) = Len(s) + 1
        /\ \A k \in 1 .. Len(s) : a[k] = s[k]
        /\ a[Len(s) + 1] = e
    BY <1>1, AppendProperties
  <1> HIDE DEF a
  <1>3. \A k \in 1 .. Len(a) : k \in 1 .. Len(s) \/ k = Len(s) + 1
    BY <1>1, <1>2
  <1>4. ASSUME NEW k \in 1 .. Len(a)
        PROVE  /\ a[k].offset \in o + o + 1 .. o + Len(all)
               /\ a[k].name = all[a[k].offset - o]
    BY <1>2, <1>3 DEF Placed
  <1>5. ASSUME NEW j \in 1 .. Len(a), NEW k \in 1 .. Len(a), j < k
        PROVE  a[j].offset < a[k].offset
    <2>1. j \in 1 .. Len(s)
      BY <1>1, <1>2, <1>5
    <2>2. CASE k \in 1 .. Len(s)
      BY <1>2, <1>5, <2>1, <2>2 DEF Placed
    <2>3. CASE k = Len(s) + 1
      BY <1>2, <2>1, <2>3
    <2> QED BY <1>3, <2>2, <2>3
  <1>6. Placed(a, o, all)
    BY <1>2, <1>4, <1>5 DEF Placed
  <1> QED BY <1>6 DEF a

(* The names of the root, in the order of their inodes.                    *)
NamesKnown == \A i \in DOMAIN inodes : i # FUSE_ROOT_ID => inodes[i].name \in Names
All == <<".">> \o Listed(RootPath)

(* The root lists names, and every name leads to an inode.                 *)
LEMMA ListedIs ==
  ASSUME IInv, NamesKnown
  PROVE  LET N == Listed(RootPath)
         IN  /\ N \in Seq(Names) /\ Len(N) = next_ino - 2 /\ Len(N) \in Nat
             /\ N = Listed(inodes[FUSE_ROOT_ID].full_path)
             /\ \A i \in 1 .. Len(N) : lookup_ino(FUSE_ROOT_ID, N[i]) = i + 1
  <1> USE DEF FUSE_ROOT_ID, RootPath
  <1> DEFINE N == Listed(<<>>)
             n == next_ino - 2
  <1>1. /\ n \in Nat /\ DOMAIN inodes = 1 .. n + 1
        /\ N = [k \in 1 .. n |-> inodes[k + 1].name]
    BY DEF IInv, IndexExact
  <1> HIDE DEF N, n
  <1>2. \A k \in 1 .. n : k + 1 \in DOMAIN inodes /\ k + 1 # 1
    BY <1>1
  <1>3. \A k \in 1 .. n : inodes[k + 1].name \in Names
    BY <1>2 DEF NamesKnown
  <1>4. N \in Seq(Names) /\ Len(N) = n
    BY <1>1, <1>3
  <1>5. Has(1) /\ inodes[1].full_path = <<>>
    BY DEF IInv, FilesInRoot, Has
  <1>6. ASSUME NEW i \in 1 .. n PROVE lookup_ino(1, N[i]) = i + 1
    <2>1. N[i] = inodes[i + 1].name
      BY <1>1
    <2>2. inodes[i + 1].full_path = <<N[i]>>
      BY <1>2, <2>1 DEF IInv, FilesInRoot
    <2>3. Join(1, N[i]) = <<N[i]>>
      BY <1>5 DEF Join
    <2>4. <<N[i]>> \in DOMAIN path_index /\ path_index[<<N[i]>>] = i + 1
      <3>1. i + 1 \in DOMAIN inodes
        BY <1>2
      <3> QED BY <2>2, <3>1 DEF IInv, IndexExact
    <2> QED BY <1>5, <2>3, <2>4 DEF lookup_ino
  <1>7. Listed(inodes[1].full_path) = N
    BY <1>5 DEF N
  <1> QED BY <1>1, <1>4, <1>6, <1>7 DEF N, n

(* The listing with its ".", in which no name is twice.                    *)
LEMMA AllIs ==
  ASSUME IInv, NamesKnown
  PROVE  /\ All \in Seq(Known) /\ Len(All) = Len(Listed(RootPath)) + 1
         /\ Len(Listed(RootPath)) \in Nat
         /\ All[1] = "."
         /\ \A i \in 1 .. Len(Listed(RootPath)) : All[i + 1] = Listed(RootPath)[i]
         /\ \A i, j \in 1 .. Len(All) : All[i] = All[j] => i = j
  <1> DEFINE N == Listed(RootPath)
  <1>1. /\ N \in Seq(Names) /\ Len(N) \in Nat
        /\ \A i \in 1 .. Len(N) : lookup_ino(FUSE_ROOT_ID, N[i]) = i + 1
    BY ListedIs
  <1>2. Names \subseteq Known /\ "." \in Known /\ "." \notin Names
    BY UringFsAssumption DEF Known
  <1> HIDE DEF N
  <1>3. N \in Seq(Known) /\ <<".">> \in Seq(Known) /\ Len(<<".">>) = 1
    BY <1>1, <1>2
  <1> DEFINE A == <<".">> \o N
  <1>4. /\ A \in Seq(Known) /\ Len(A) = Len(N) + 1
        /\ A[1] = "." /\ \A i \in 1 .. Len(N) : A[i + 1] = N[i]
    <2>1. /\ A \in Seq(Known) /\ Len(A) = Len(<<".">>) + Len(N)
          /\ \A i \in 1 .. Len(<<".">>) + Len(N) :
               A[i] = IF i <= Len(<<".">>) THEN <<".">>[i] ELSE N[i - Len(<<".">>)]
      BY <1>3, ConcatProperties
    <2> HIDE DEF A
    <2>2. \A i \in 1 .. Len(N) : i + 1 \in 1 .. 1 + Len(N) /\ ~(i + 1 <= 1) /\ (i + 1) - 1 = i
      BY <1>1
    <2>3. 1 \in 1 .. 1 + Len(N)
      BY <1>1
    <2> QED BY <1>1, <1>3, <2>1, <2>2, <2>3
  <1> HIDE DEF A
  <1>5. ASSUME NEW i \in 1 .. Len(A), NEW j \in 1 .. Len(A), A[i] = A[j] PROVE i = j
    <2>1. ASSUME NEW k \in 1 .. Len(A), k # 1
          PROVE  k - 1 \in 1 .. Len(N) /\ A[k] = N[k - 1] /\ A[k] \in Names
      <3>1. k - 1 \in 1 .. Len(N) /\ (k - 1) + 1 = k
        BY <1>1, <1>4, <2>1
      <3>2. A[k] = N[k - 1]
        BY <1>4, <3>1
      <3> QED BY <1>1, <3>1, <3>2
    <2>2. CASE i = 1 \/ j = 1
      BY <1>2, <1>4, <1>5, <2>1, <2>2
    <2>3. CASE i # 1 /\ j # 1
      <3>1. i - 1 \in 1 .. Len(N) /\ j - 1 \in 1 .. Len(N) /\ N[i - 1] = N[j - 1]
        BY <1>5, <2>1, <2>3
      <3>2. (i - 1) + 1 = (j - 1) + 1
        BY <1>1, <3>1
      <3> QED BY <3>2
    <2> QED BY <2>2, <2>3
  <1>6. All = A
    BY DEF All, A, N
  <1> QED BY <1>1, <1>4, <1>5, <1>6 DEF N

(* What the loop finds stands in the listing after offset, and from offset *)
(* 0 it finds all names.                                                   *)
LEMMA FoundIs ==
  ASSUME IInv, NamesKnown, NEW o \in Nat
  PROVE  LET N == Listed(RootPath)
             f == Found(FUSE_ROOT_ID, o)
         IN  /\ Placed(f, o, All)
             /\ \A k \in 1 .. Len(f) : f[k].offset >= 2
             /\ o = 0 => Len(f) = Len(N) /\ \A k \in 1 .. Len(N) : f[k].name = N[k]
  <1> DEFINE N == Listed(RootPath)
             n == Len(N)
  <1>1. /\ N \in Seq(Names) /\ n \in Nat
        /\ N = Listed(inodes[FUSE_ROOT_ID].full_path)
        /\ \A i \in 1 .. n : lookup_ino(FUSE_ROOT_ID, N[i]) = i + 1
    BY ListedIs
  <1>2. /\ All \in Seq(Known) /\ Len(All) = n + 1
        /\ \A i \in 1 .. n : All[i + 1] = N[i]
    BY AllIs
  <1> HIDE DEF N
  <1>3. DOMAIN N = 1 .. n /\ \A i \in 1 .. n : N[i] \in Known /\ N[i] \in Names
    BY <1>1 DEF Known
  <1> HIDE DEF n
  <1>4. PICK r \in [0 .. n -> Seq(Entries)] :
          /\ r[0] = <<>>
          /\ \A j \in 1 .. n : r[j] = IF j > o /\ lookup_ino(FUSE_ROOT_ID, N[j]) # 0
                                       THEN Append(r[j - 1], Entry(N[j], j, o))
                                       ELSE r[j - 1]
          /\ Found(FUSE_ROOT_ID, o) = r[n]
    <2> DEFINE L == Listed(inodes[FUSE_ROOT_ID].full_path)
    <2>1. L = N
      BY <1>1
    <2>2. n \in Nat /\ DOMAIN L = 1 .. n /\ \A i \in 1 .. n : L[i] \in Known
      BY <1>1, <1>3, <2>1
    <2>3. \E r \in [0 .. n -> Seq(Entries)] :
            /\ r[0] = <<>>
            /\ \A j \in 1 .. n : r[j] = IF j > o /\ lookup_ino(FUSE_ROOT_ID, L[j]) # 0
                                         THEN Append(r[j - 1], Entry(L[j], j, o))
                                         ELSE r[j - 1]
            /\ Found(FUSE_ROOT_ID, o) = r[n]
      BY <2>2, FoundFold, Zenon
    <2> HIDE DEF L
    <2> QED BY <2>1, <2>3
  <1>5. ASSUME NEW j \in 1 .. n
        PROVE  r[j] = IF j > o THEN Append(r[j - 1], Entry(N[j], j, o)) ELSE r[j - 1]
    BY <1>1, <1>4
  <1> DEFINE Q(j) == /\ Placed(r[j], o, All)
                     /\ \A k \in 1 .. Len(r[j]) : r[j][k].offset \in 2 .. j + o + 1
                     /\ o = 0 => /\ Len(r[j]) = j
                                 /\ \A k \in 1 .. j : r[j][k].name = N[k]
             S == {j \in Nat : j <= n => Q(j)}
  <1>6. Q(0)
    BY <1>4 DEF Placed
  <1>7. ASSUME NEW j \in Nat, j + 1 <= n, Q(j) PROVE Q(j + 1)
    <2> DEFINE e == Entry(N[j + 1], j + 1, o)
    <2>n. n \in Nat /\ j + 1 <= n
      BY <1>1, <1>7
    <2>1. j + 1 \in 1 .. n /\ (j + 1) - 1 = j /\ j \in 0 .. n
      BY <2>n
    <2>2. r[j + 1] = IF j + 1 > o THEN Append(r[j], e) ELSE r[j]
      BY <1>5, <2>1
    <2>3. e \in Entries /\ e.name = N[j + 1] /\ e.offset = j + o + 2
      BY <1>3, <2>1 DEF Entry, Entries
    <2> HIDE DEF e
    <2>4. CASE ~(j + 1 > o)
      <3>1. r[j + 1] = r[j]
        BY <2>2, <2>4
      <3>2. \A k \in 1 .. Len(r[j]) : r[j][k].offset \in 2 .. (j + 1) + o + 1
        BY <1>7
      <3>3. o # 0
        BY <2>4
      <3> QED BY <1>7, <3>1, <3>2, <3>3
    <2>5. CASE j + 1 > o
      <3>1. r[j] \in Seq(Entries) /\ Len(r[j]) \in Nat
        BY <1>4, <2>1
      <3>2. /\ r[j + 1] = Append(r[j], e) /\ Len(r[j + 1]) = Len(r[j]) + 1
            /\ \A k \in 1 .. Len(r[j]) : r[j + 1][k] = r[j][k]
            /\ r[j + 1][Len(r[j]) + 1] = e
        BY <2>2, <2>3, <2>5, <3>1, AppendProperties
      <3>3. e.offset \in o + o + 1 .. o + Len(All) /\ e.offset - o = (j + 1) + 1
        BY <1>1, <1>2, <2>1, <2>3, <2>5
      <3>4. e.name = All[e.offset - o]
        BY <1>2, <2>1, <2>3, <3>3
      <3>5. \A k \in 1 .. Len(r[j]) : r[j][k].offset < e.offset
        BY <1>7, <2>3
      <3>6. Placed(r[j + 1], o, All)
        BY <1>2, <1>7, <2>3, <3>2, <3>3, <3>4, <3>5, PlacedAppend
      <3>7. \A k \in 1 .. Len(r[j + 1]) : k \in 1 .. Len(r[j]) \/ k = Len(r[j]) + 1
        BY <3>1, <3>2
      <3>8. ASSUME NEW k \in 1 .. Len(r[j + 1])
            PROVE  r[j + 1][k].offset \in 2 .. (j + 1) + o + 1
        <4>1. CASE k \in 1 .. Len(r[j])
          BY <1>7, <3>2, <4>1
        <4>2. CASE k = Len(r[j]) + 1
          BY <2>3, <3>2, <4>2
        <4> QED BY <3>7, <4>1, <4>2
      <3>9. ASSUME o = 0
            PROVE  /\ Len(r[j + 1]) = j + 1
                   /\ \A k \in 1 .. j + 1 : r[j + 1][k].name = N[k]
        <4>1. Len(r[j]) = j
          BY <1>7, <3>9
        <4>2. ASSUME NEW k \in 1 .. j + 1 PROVE r[j + 1][k].name = N[k]
          <5>1. CASE k \in 1 .. j
            BY <1>7, <3>2, <3>9, <4>1, <5>1
          <5>2. CASE k = j + 1
            BY <2>3, <3>2, <4>1, <5>2
          <5> QED BY <5>1, <5>2
        <4> QED BY <3>2, <4>1, <4>2
      <3> QED BY <3>6, <3>8, <3>9
    <2> QED BY <2>4, <2>5
  <1> HIDE DEF Q
  <1>8. \A j \in Nat : j \in S
    <2>1. 0 \in S /\ \A j \in Nat : j \in S => j + 1 \in S
      BY <1>1, <1>6, <1>7
    <2> HIDE DEF S
    <2> QED BY <2>1, Induction
  <1>9. Q(n)
    BY <1>1, <1>8
  <1> QED BY <1>4, <1>9 DEF Q, N, n

(* What readdir offers to the reply; from offset 0 that begins with "."    *)
(* and is the whole listing.                                               *)
LEMMA AnsweredIs ==
  ASSUME IInv, NamesKnown, NEW o \in Nat
  PROVE  LET a == Answered(FUSE_ROOT_ID, o)
         IN  /\ Placed(a, o, All)
             /\ o = 0 => Len(a) = Len(All) /\ \A k \in 1 .. Len(All) : a[k].name = All[k]
  <1> DEFINE f == Found(FUSE_ROOT_ID, o)
             N == Listed(RootPath)
             a == Answered(FUSE_ROOT_ID, o)
  <1>1. /\ Placed(f, o, All)
        /\ \A k \in 1 .. Len(f) : f[k].offset >= 2
        /\ o = 0 => Len(f) = Len(N) /\ \A k \in 1 .. Len(N) : f[k].name = N[k]
    BY FoundIs
  <1>2. f \in Seq(Entries) /\ Len(f) \in Nat
    BY <1>1 DEF Placed
  <1>3. a = (IF o = 0 THEN <<Dot>> ELSE <<>>) \o f
    BY DEF Answered
  <1>4. /\ All \in Seq(Known) /\ Len(All) = Len(N) + 1 /\ Len(N) \in Nat /\ All[1] = "."
        /\ \A i \in 1 .. Len(N) : All[i + 1] = N[i]
    BY AllIs
  <1> HIDE DEF f, a, N
  <1>5. CASE o # 0
    <2> DEFINE E == Entries
    <2>1. f \in Seq(E)
      BY <1>2
    <2> HIDE DEF E
    <2>2. <<>> \o f = f
      BY <2>1, ConcatEmptySeq
    <2> QED BY <1>1, <1>3, <1>5, <2>2 DEF a
  <1>6. CASE o = 0
    <2>1. Dot \in Entries /\ Dot.name = "." /\ Dot.offset = 1
      BY DEF Dot, Entries, Known
    <2> DEFINE d == <<Dot>>
    <2>2. d \in Seq(Entries) /\ Len(d) = 1 /\ d[1] = Dot
      BY <2>1
    <2> HIDE DEF d
    <2>3. /\ a \in Seq(Entries) /\ Len(a) = 1 + Len(f)
          /\ \A i \in 1 .. 1 + Len(f) : a[i] = IF i <= 1 THEN d[i] ELSE f[i - 1]
      <3> DEFINE E == Entries
      <3>1. d \in Seq(E) /\ f \in Seq(E)
        BY <1>2, <2>2
      <3>2. a = d \o f
        BY <1>3, <1>6 DEF d
      <3> HIDE DEF E
      <3>3. /\ d \o f \in Seq(E) /\ Len(d \o f) = Len(d) + Len(f)
            /\ \A i \in 1 .. Len(d) + Len(f) :
                 (d \o f)[i] = IF i <= Len(d) THEN d[i] ELSE f[i - Len(d)]
        BY <3>1, ConcatProperties
      <3> QED BY <2>2, <3>2, <3>3 DEF E
    <2>4. a[1] = Dot /\ \A k \in 1 .. Len(f) : a[k + 1] = f[k]
      <3>1. 1 \in 1 .. 1 + Len(f) /\ 1 <= 1
        BY <1>2
      <3>2. a[1] = Dot
        BY <2>2, <2>3, <3>1
      <3>3. \A k \in 1 .. Len(f) : k + 1 \in 1 .. 1 + Len(f) /\ ~(k + 1 <= 1) /\ (k + 1) - 1 = k
        BY <1>2
      <3> QED BY <2>3, <3>2, <3>3
    <2>5. \A k \in 1 .. Len(a) : k = 1 \/ (k - 1 \in 1 .. Len(f) /\ (k - 1) + 1 = k)
      BY <1>2, <2>3
    <2>6. ASSUME NEW k \in 1 .. Len(a)
          PROVE  /\ a[k].offset \in o + o + 1 .. o + Len(All)
                 /\ a[k].name = All[a[k].offset - o]
      <3>1. CASE k = 1
        BY <1>4, <1>6, <2>1, <2>4, <3>1
      <3>2. CASE k - 1 \in 1 .. Len(f) /\ (k - 1) + 1 = k
        <4>1. a[k] = f[k - 1]
          BY <2>4, <3>2
        <4> QED BY <1>1, <3>2, <4>1 DEF Placed
      <3> QED BY <2>5, <3>1, <3>2
    <2>7. ASSUME NEW j \in 1 .. Len(a), NEW k \in 1 .. Len(a), j < k
          PROVE  a[j].offset < a[k].offset
      <3>1. k - 1 \in 1 .. Len(f) /\ a[k] = f[k - 1]
        <4>1. k - 1 \in 1 .. Len(f) /\ (k - 1) + 1 = k
          BY <2>5, <2>7
        <4> QED BY <2>4, <4>1
      <3>2. CASE j = 1
        <4>1. a[k].offset >= 2 /\ a[j].offset = 1 /\ a[k].offset \in Nat
          BY <1>1, <2>1, <2>4, <2>6, <3>1, <3>2
        <4> QED BY <4>1
      <3>3. CASE j # 1
        <4>1. j - 1 \in 1 .. Len(f) /\ (j - 1) + 1 = j
          BY <2>5, <3>3
        <4>2. a[j] = f[j - 1] /\ j - 1 < k - 1
          BY <2>4, <2>7, <4>1
        <4> QED BY <1>1, <3>1, <4>1, <4>2 DEF Placed
      <3> QED BY <3>2, <3>3
    <2>8. Placed(a, o, All)
      BY <2>3, <2>6, <2>7 DEF Placed
    <2>9. Len(a) = Len(All)
      BY <1>1, <1>4, <1>6, <2>3
    <2>10. ASSUME NEW k \in 1 .. Len(All) PROVE a[k].name = All[k]
      <3>1. CASE k = 1
        BY <1>4, <2>1, <2>4, <3>1
      <3>2. CASE k - 1 \in 1 .. Len(f) /\ (k - 1) + 1 = k
        <4>1. a[k] = f[k - 1] /\ f[k - 1].name = N[k - 1] /\ All[k] = N[k - 1]
          BY <1>1, <1>4, <1>6, <2>4, <3>2
        <4> QED BY <4>1
      <3> QED BY <2>5, <2>9, <3>1, <3>2
    <2> QED BY <2>8, <2>9, <2>10 DEF a
  <1> QED BY <1>5, <1>6

(* What of it fits into a reply of a size, in its order; the first entry   *)
(* does, and when all do, it is all.                                       *)
LEMMA ReplyIs ==
  ASSUME NEW o \in Nat, NEW all \in Seq(Known), NEW a, Placed(a, o, all),
         NEW size \in Nat, \A n \in Known : EntrySize[n] <= size
  PROVE  LET r == Fitting(size, a)
         IN  /\ Placed(r, o, all)
             /\ a # <<>> => r # <<>> /\ r[1] = a[1]
             /\ Bytes(a) <= size => r = a
  <1> DEFINE n == Len(a)
  <1>1. a \in Seq(Entries) /\ n \in Nat /\ DOMAIN a = 1 .. n
    BY DEF Placed
  <1>2. ASSUME NEW e \in Entries
        PROVE  EntrySize[e.name] \in Nat /\ e.name \in Known /\ EntrySize[e.name] <= size
    BY UringFsAssumption DEF Entries, Known
  <1> HIDE DEF n
  <1>3. PICK r \in [0 .. n -> Seq(Entries)] :
          /\ r[0] = <<>>
          /\ \A j \in 1 .. n : r[j] = add(size, r[j - 1], a[j])
          /\ Fitting(size, a) = r[n]
    <2>1. Len(a) = n
      BY DEF n
    <2>2. PICK r : Filled(size, a, r)
      BY <1>1, <2>1, ReplyFold
    <2> QED BY <2>1, <2>2 DEF Filled
  <1>4. \A j \in 1 .. n : a[j] \in Entries
    BY <1>1 DEF n
  <1> DEFINE Q(j) == /\ Placed(r[j], o, all)
                     /\ \A k \in 1 .. Len(r[j]) : j > 0 /\ r[j][k].offset <= a[j].offset
                     /\ j > 0 => Len(r[j]) > 0 /\ r[j][1] = a[1]
                     /\ Bytes(a) <= size =>
                          Len(r[j]) = j /\ \A k \in 1 .. j : r[j][k] = a[k]
             S == {j \in Nat : j <= n => Q(j)}
  <1>5. Q(0)
    BY <1>3 DEF Placed
  <1>6. ASSUME NEW j \in Nat, j + 1 <= n, Q(j) PROVE Q(j + 1)
    <2> DEFINE e == a[j + 1]
               s == r[j]
               t == r[j + 1]
    <2>n. n \in Nat /\ j + 1 <= n
      BY <1>1, <1>6
    <2>1. j + 1 \in 1 .. n /\ (j + 1) - 1 = j /\ j \in 0 .. n
      BY <2>n
    <2>2. /\ t = IF Bytes(s) + EntrySize[e.name] > size THEN s ELSE Append(s, e)
          /\ e \in Entries /\ s \in Seq(Entries) /\ Len(s) \in Nat
      <3>1. t = add(size, s, e)
        BY <1>3, <2>1
      <3>2. e \in Entries /\ s \in Seq(Entries)
        BY <1>3, <1>4, <2>1
      <3> HIDE DEF s, t, e
      <3> QED BY <3>1, <3>2 DEF add
    <2>3. /\ e.offset \in o + o + 1 .. o + Len(all)
          /\ e.name = all[e.offset - o]
          /\ j > 0 => a[j].offset < e.offset /\ a[j].offset \in Int
      <3>1. j + 1 \in 1 .. Len(a) /\ (j > 0 => j \in 1 .. Len(a) /\ j < j + 1)
        BY <2>1 DEF n
      <3>2. \A k \in 1 .. Len(a) : a[k].offset \in Int
        BY DEF Placed
      <3> QED BY <3>1, <3>2 DEF Placed
    <2>4. /\ Placed(s, o, all)
          /\ \A k \in 1 .. Len(s) : j > 0 /\ s[k].offset <= a[j].offset
          /\ j > 0 => Len(s) > 0 /\ s[1] = a[1]
          /\ Bytes(a) <= size => Len(s) = j /\ \A k \in 1 .. j : s[k] = a[k]
      BY <1>6
    <2>5. \A k \in 1 .. Len(s) : s[k].offset \in Int
      BY <2>4 DEF Placed
    <2>6. \A k \in 1 .. Len(s) : s[k].offset < e.offset
      <3> SUFFICES ASSUME NEW k \in 1 .. Len(s) PROVE s[k].offset < e.offset
        OBVIOUS
      <3>1. j > 0 /\ s[k].offset <= a[j].offset /\ s[k].offset \in Int
        BY <2>4, <2>5
      <3>2. a[j].offset < e.offset /\ a[j].offset \in Int /\ e.offset \in Int
        BY <2>3, <3>1
      <3> DEFINE x == s[k].offset
                 y == a[j].offset
                 z == e.offset
      <3>3. x \in Int /\ y \in Int /\ z \in Int /\ x <= y /\ y < z
        BY <3>1, <3>2
      <3> HIDE DEF x, y, z
      <3>4. x < z
        BY <3>3
      <3> QED BY <3>4 DEF x, z
    <2>7. CASE Bytes(s) + EntrySize[e.name] > size
      <3>1. t = s
        BY <2>2, <2>7
      <3>2. j > 0
        <4> SUFFICES ASSUME j = 0 PROVE FALSE
          OBVIOUS
        <4>1. s = <<>>
          BY <1>3
        <4>2. Bytes(s) = 0
          <5>1. DOMAIN s = 1 .. 0
            BY <4>1
          <5>2. \A k \in 1 .. 0 : EntrySize[s[k].name] \in Nat
            OBVIOUS
          <5>3. PICK f \in [0 .. 0 -> Nat] : f[0] = 0 /\ Bytes(s) = f[0]
            BY <5>1, <5>2, BytesFold, Zenon
          <5> QED BY <5>3
        <4> QED BY <1>2, <2>2, <2>7, <4>2
      <3>3. ~(Bytes(a) <= size)
        <4> SUFFICES ASSUME Bytes(a) <= size PROVE FALSE
          OBVIOUS
        <4>1. Len(s) = j /\ DOMAIN s = 1 .. j /\ \A k \in 1 .. j : s[k].name = a[k].name
          BY <2>2, <2>4
        <4>2. \A k \in 1 .. n : EntrySize[a[k].name] \in Nat
          BY <1>2, <1>4
        <4>3. j <= n /\ j < n
          BY <2>n
        <4>4. /\ Bytes(s) \in Nat /\ Bytes(a) \in Nat
              /\ Bytes(s) + EntrySize[e.name] <= Bytes(a)
          <5> HIDE DEF s
          <5>1. /\ Bytes(s) \in Nat /\ Bytes(a) \in Nat
                /\ j < n => Bytes(s) + EntrySize[a[j + 1].name] <= Bytes(a)
            <6>1. SameNames(s, j, a, n)
              BY <1>1, <4>1, <4>2, <4>3 DEF SameNames
            <6> QED BY <1>1, <6>1, BytesPrefix
          <5> QED BY <4>3, <5>1
        <4>5. EntrySize[e.name] \in Nat
          BY <1>2, <2>2
        <4> QED BY <2>7, <4>4, <4>5
      <3> HIDE DEF s, t
      <3>4. \A k \in 1 .. Len(t) : j + 1 > 0 /\ t[k].offset <= e.offset
        BY <2>3, <2>5, <2>6, <3>1
      <3> QED BY <2>4, <3>1, <3>2, <3>3, <3>4 DEF t
    <2>8. CASE ~(Bytes(s) + EntrySize[e.name] > size)
      <3>1. /\ t = Append(s, e) /\ Len(t) = Len(s) + 1
            /\ \A k \in 1 .. Len(s) : t[k] = s[k]
            /\ t[Len(s) + 1] = e
        BY <2>2, <2>8, AppendProperties
      <3>2. Placed(t, o, all)
        BY <2>2, <2>3, <2>4, <2>6, <3>1, PlacedAppend
      <3>3. \A k \in 1 .. Len(t) : k \in 1 .. Len(s) \/ k = Len(s) + 1
        BY <2>2, <3>1
      <3>4. \A k \in 1 .. Len(t) : j + 1 > 0 /\ t[k].offset <= e.offset
        BY <2>3, <2>5, <2>6, <3>1, <3>3
      <3>5. Len(t) > 0 /\ t[1] = a[1]
        <4>1. CASE j = 0
          <5>1. Len(s) = 0
            BY <1>3, <4>1
          <5> QED BY <3>1, <4>1, <5>1
        <4>2. CASE j > 0
          BY <2>2, <2>4, <3>1, <4>2
        <4> QED BY <4>1, <4>2
      <3>6. ASSUME Bytes(a) <= size
            PROVE  Len(t) = j + 1 /\ \A k \in 1 .. j + 1 : t[k] = a[k]
        <4>1. Len(s) = j /\ \A k \in 1 .. j : s[k] = a[k]
          BY <2>4, <3>6
        <4>2. \A k \in 1 .. j + 1 : k \in 1 .. j \/ k = j + 1
          OBVIOUS
        <4> QED BY <3>1, <4>1, <4>2
      <3> HIDE DEF s, t
      <3> QED BY <3>2, <3>4, <3>5, <3>6 DEF t
    <2> QED BY <2>7, <2>8
  <1> HIDE DEF Q
  <1>7. \A j \in Nat : j \in S
    <2>1. 0 \in S /\ \A j \in Nat : j \in S => j + 1 \in S
      BY <1>1, <1>5, <1>6
    <2> HIDE DEF S
    <2> QED BY <2>1, Induction
  <1>8. Q(n)
    BY <1>1, <1>7
  <1>9. r[n] \in Seq(Entries)
    BY <1>1, <1>3
  <1>10. Placed(r[n], o, all)
    BY <1>8 DEF Q
  <1>11. ASSUME a # <<>> PROVE r[n] # <<>> /\ r[n][1] = a[1]
    <2>1. n > 0
      BY <1>1, <1>11 DEF n
    <2>2. Len(r[n]) > 0 /\ r[n][1] = a[1]
      BY <1>8, <2>1 DEF Q
    <2> QED BY <2>2
  <1>12. ASSUME Bytes(a) <= size PROVE r[n] = a
    <2> DEFINE E == Entries
               z == r[n]
    <2>1. z \in Seq(E) /\ a \in Seq(E)
      BY <1>1, <1>9
    <2>2. Len(z) = Len(a) /\ \A k \in 1 .. Len(a) : z[k] = a[k]
      BY <1>8, <1>12 DEF Q, n
    <2> HIDE DEF E, z
    <2>3. z = a
      BY <2>1, <2>2, SeqEqual
    <2> QED BY <2>3 DEF z
  <1> QED BY <1>3, <1>10, <1>11, <1>12

-----------------------------------------------------------------------------
(* What the kernel has of a directory.                                     *)
Listings == [offset : Nat, seen : Seq(Known), replies : Nat, room : Nat,
             there : Seq(Names), end : {"no", "ENOENT"}]

(* What was seen stands at rising positions of a listing, none of them     *)
(* behind the offset: the next reply has only later ones.                  *)
InOrder(seen, pos, all, offset) ==
  /\ \A k \in 1 .. Len(seen) :
       /\ pos[k] \in 1 .. Len(all) /\ pos[k] <= offset
       /\ all[pos[k]] = seen[k]
  /\ \A j, k \in 1 .. Len(seen) : j < k => pos[j] < pos[k]

NamesOf(all) == [k \in DOMAIN all |-> [name |-> all[k]]]

(* A single reply that had room for the directory has all of it.           *)
Complete(l) ==
  l.replies = 1 /\ Bytes(NamesOf(<<".">> \o l.there)) <= l.room
    => l.seen = <<".">> \o l.there

ListingInv ==
  listing # NoListing =>
    /\ listing \in Listings
    /\ listing.replies = 0 => listing.seen = <<>>
    /\ IF listing.seen = <<>> THEN listing.offset = 0 ELSE listing.seen[1] = "."
    /\ \E pos : InOrder(listing.seen, pos, All, listing.offset)
    /\ Complete(listing)

(* The inductive invariant of the listing, over that of the tables.        *)
LInv == IInv /\ NamesKnown /\ ListingInv

(* A listing that was seen stays one when names are appended.              *)
LEMMA ListingKept ==
  ASSUME ListingInv, listing' = listing, Len(All) \in Nat, Len(All') \in Nat,
         Len(All) <= Len(All'), \A k \in 1 .. Len(All) : All'[k] = All[k]
  PROVE  ListingInv'
  <1> SUFFICES ASSUME listing # NoListing
               PROVE  \E pos : InOrder(listing.seen, pos, All', listing.offset)
    BY Zenon DEF ListingInv
  <1>1. PICK pos : InOrder(listing.seen, pos, All, listing.offset)
    BY DEF ListingInv
  <1>2. InOrder(listing.seen, pos, All', listing.offset)
    BY <1>1 DEF InOrder
  <1> QED BY <1>2

(* Nothing is listed of what was made before the first file.               *)
LEMMA InitListing == Init => LInv
  <1> SUFFICES ASSUME Init PROVE LInv
    OBVIOUS
  <1>1. NamesKnown
    BY DEF Init, NamesKnown
  <1>2. ListingInv
    BY DEF Init, ListingInv
  <1> QED BY <1>1, <1>2, InitHolds DEF LInv

(* create appends a name.                                                  *)
LEMMA CreateListing ==
  ASSUME LInv, NEW name \in Names, create(name)
  PROVE  NamesKnown' /\ ListingInv'
  <1>1. listing' = listing
    BY DEF create
  <1>2. IInv /\ NamesKnown /\ ListingInv
    BY DEF LInv
  <1>3. All \in Seq(Known) /\ Len(All) \in Nat
    BY <1>2, AllIs
  <1>4. CASE name \in NotUtf8
    <2>1. UNCHANGED <<inodes, ls_cache>>
      BY <1>4 DEF create, filesystem, manager
    <2>2. NamesKnown' /\ All' = All
      BY <1>2, <2>1 DEF NamesKnown, All, Listed
    <2> QED BY <1>1, <1>2, <1>3, <2>2, ListingKept
  <1>5. CASE name \notin NotUtf8
    <2>1. /\ inodes' = insert(inodes, next_ino,
                              Inode(FUSE_ROOT_ID, name, Join(FUSE_ROOT_ID, name), "file"))
          /\ ls_cache' = append(inodes[FUSE_ROOT_ID].full_path, name)
          /\ inodes[FUSE_ROOT_ID].full_path = RootPath
      BY <1>2, <1>5 DEF create, manager_create, IInv, FilesInRoot
    <2>2. NamesKnown'
      BY <1>2, <2>1 DEF NamesKnown, insert, Inode
    <2> DEFINE N == Listed(RootPath)
    <2>3. Listed(RootPath)' = Append(N, name)
      BY <2>1 DEF Listed, append, insert
    <2>4. N \in Seq(Names)
      BY <1>2, ListedIs
    <2> HIDE DEF N
    <2>5. /\ Append(N, name) \in Seq(Names) /\ Len(Append(N, name)) = Len(N) + 1
          /\ \A k \in 1 .. Len(N) : Append(N, name)[k] = N[k]
      BY <2>4, AppendProperties
    <2>6. Names \subseteq Known /\ "." \in Known
      BY DEF Known
    <2> DEFINE M == Append(N, name)
               d == <<".">>
    <2>7. N \in Seq(Known) /\ M \in Seq(Known) /\ d \in Seq(Known) /\ Len(d) = 1
      BY <2>4, <2>5, <2>6
    <2> HIDE DEF M, d
    <2>8. /\ Len(d \o N) = 1 + Len(N) /\ Len(d \o M) = 1 + Len(M)
          /\ \A i \in 1 .. 1 + Len(N) : (d \o N)[i] = IF i <= 1 THEN d[i] ELSE N[i - 1]
          /\ \A i \in 1 .. 1 + Len(M) : (d \o M)[i] = IF i <= 1 THEN d[i] ELSE M[i - 1]
      <3>1. ASSUME NEW s \in Seq(Known)
            PROVE  /\ Len(d \o s) = 1 + Len(s)
                   /\ \A i \in 1 .. 1 + Len(s) :
                        (d \o s)[i] = IF i <= 1 THEN d[i] ELSE s[i - 1]
        <4>1. /\ Len(d \o s) = Len(d) + Len(s)
              /\ \A i \in 1 .. Len(d) + Len(s) :
                   (d \o s)[i] = IF i <= Len(d) THEN d[i] ELSE s[i - Len(d)]
          BY <2>7, ConcatProperties
        <4> QED BY <2>7, <4>1
      <3> QED BY <2>7, <3>1
    <2>9. All = d \o N /\ All' = d \o M
      BY <2>3 DEF All, N, M, d
    <2>10. Len(N) \in Nat /\ Len(M) = Len(N) + 1 /\ \A k \in 1 .. Len(N) : M[k] = N[k]
      BY <2>4, <2>5 DEF M
    <2>11. \A i \in 1 .. 1 + Len(N) : (d \o M)[i] = (d \o N)[i]
      <3> SUFFICES ASSUME NEW i \in 1 .. 1 + Len(N) PROVE (d \o M)[i] = (d \o N)[i]
        OBVIOUS
      <3>1. i \in 1 .. 1 + Len(M) /\ (~(i <= 1) => i - 1 \in 1 .. Len(N))
        BY <2>10
      <3> QED BY <2>8, <2>10, <3>1
    <2>12. Len(All') \in Nat /\ Len(All) <= Len(All')
      BY <2>8, <2>9, <2>10
    <2>13. \A k \in 1 .. Len(All) : All'[k] = All[k]
      BY <2>8, <2>9, <2>11
    <2> QED BY <1>1, <1>2, <1>3, <2>2, <2>12, <2>13, ListingKept
  <1> QED BY <1>4, <1>5

(* opendir begins a listing.                                               *)
LEMMA OpendirListing ==
  ASSUME LInv, opendir
  PROVE  ListingInv'
  <1> DEFINE new == [offset |-> 0, seen |-> <<>>, replies |-> 0, room |-> 0,
                     there |-> <<>>, end |-> "no"]
  <1>1. listing' = new
    BY DEF opendir
  <1>2. /\ new.seen = <<>> /\ new.offset = 0 /\ new.replies = 0
        /\ new \in Listings
    BY DEF Listings
  <1> HIDE DEF new
  <1>3. \A pos, all : InOrder(new.seen, pos, all, new.offset)
    <2>1. 1 .. Len(new.seen) = {}
      BY <1>2
    <2> QED BY <2>1 DEF InOrder
  <1>4. Complete(new)
    BY <1>2 DEF Complete
  <1> QED BY <1>1, <1>2, <1>3, <1>4 DEF ListingInv

(* The names that the kernel takes from a reply, and what they make of the *)
(* names that it has seen.                                                 *)
Taken(r, m) == [k \in 1 .. m |-> r[k].name]

Extends(seen, more, m, all, offset) ==
  /\ more \in Seq(Known) /\ Len(more) = m
  /\ seen \o more \in Seq(Known) /\ Len(seen \o more) = Len(seen) + m
  /\ seen # <<>> => (seen \o more)[1] = seen[1]
  /\ seen = <<>> => seen \o more = more
  /\ offset \in Nat
  /\ \E pos : InOrder(seen \o more, pos, all, offset)

(* The entries that the kernel has consumed of a reply come after those it *)
(* has seen.                                                               *)
LEMMA SeenMore ==
  ASSUME NEW all \in Seq(Known), NEW o \in Nat, NEW seen \in Seq(Known), NEW pos,
         InOrder(seen, pos, all, o), NEW r, Placed(r, o, all), NEW m \in 1 .. Len(r)
  PROVE  Extends(seen, Taken(r, m), m, all, r[m].offset)
  <1> DEFINE more == [k \in 1 .. m |-> r[k].name]
             q == Len(seen)
             both == seen \o more
  <1>1. r \in Seq(Entries) /\ Len(r) \in Nat /\ m \in Nat
    BY DEF Placed
  <1>2. \A k \in 1 .. m : k \in 1 .. Len(r) /\ r[k] \in Entries
    BY <1>1
  <1>3. \A k \in 1 .. m : r[k].name \in Known /\ r[k].offset \in Nat
    BY <1>2 DEF Entries
  <1>4. more \in Seq(Known) /\ Len(more) = m /\ \A k \in 1 .. m : more[k] = r[k].name
    BY <1>1, <1>3
  <1>5. q \in Nat
    OBVIOUS
  <1> HIDE DEF more
  <1>6. /\ both \in Seq(Known) /\ Len(both) = q + m
        /\ \A k \in 1 .. q + m : both[k] = IF k <= q THEN seen[k] ELSE more[k - q]
    <2>1. /\ seen \o more \in Seq(Known) /\ Len(seen \o more) = Len(seen) + Len(more)
          /\ \A k \in 1 .. Len(seen) + Len(more) :
               (seen \o more)[k] = IF k <= Len(seen) THEN seen[k] ELSE more[k - Len(seen)]
      BY <1>4, ConcatProperties
    <2> QED BY <1>4, <2>1
  <1>7. seen = <<>> => both = more
    <2>1. <<>> \o more = more
      BY <1>4, ConcatEmptySeq
    <2> QED BY <2>1
  <1> HIDE DEF both, q
  <1>8. seen # <<>> => both[1] = seen[1]
    <2> SUFFICES ASSUME seen # <<>> PROVE both[1] = seen[1]
      OBVIOUS
    <2>1. q > 0
      BY DEF q
    <2>2. 1 \in 1 .. q + m /\ 1 <= q
      BY <1>1, <1>5, <2>1
    <2> QED BY <1>6, <2>2
  <1>9. \A k \in 1 .. m : /\ r[k].offset \in o + o + 1 .. o + Len(all)
                          /\ r[k].name = all[r[k].offset - o]
                          /\ r[k].offset \in Nat /\ r[k].offset <= r[m].offset
    <2> SUFFICES ASSUME NEW k \in 1 .. m
                 PROVE  /\ r[k].offset \in o + o + 1 .. o + Len(all)
                        /\ r[k].name = all[r[k].offset - o]
                        /\ r[k].offset \in Nat /\ r[k].offset <= r[m].offset
      OBVIOUS
    <2>1. k \in 1 .. Len(r) /\ m \in 1 .. Len(r) /\ m \in 1 .. m
      BY <1>1, <1>2
    <2>2. k = m \/ k < m
      BY <1>1
    <2>3. r[k].offset \in Nat /\ r[m].offset \in Nat
      BY <1>3, <2>1
    <2>4. r[k].offset <= r[m].offset
      <3>1. k < m => r[k].offset < r[m].offset
        BY <2>1 DEF Placed
      <3> QED BY <2>2, <2>3, <3>1
    <2> QED BY <2>1, <2>3, <2>4 DEF Placed
  <1>10. \A j, k \in 1 .. m : j < k => r[j].offset < r[k].offset
    BY <1>2 DEF Placed
  <1>m. r[m].offset \in Nat /\ o <= r[m].offset
    <2>1. m \in 1 .. m
      BY <1>1
    <2>2. r[m].offset \in o + o + 1 .. o + Len(all)
      BY <1>9, <2>1
    <2> QED BY <2>2
  <1>11. \A k \in 1 .. q : /\ pos[k] \in 1 .. Len(all) /\ pos[k] <= o /\ all[pos[k]] = seen[k]
    BY DEF InOrder, q
  <1>12. \A j, k \in 1 .. q : j < k => pos[j] < pos[k]
    BY DEF InOrder, q
  <1> DEFINE p == [k \in 1 .. q + m |-> IF k <= q THEN pos[k] ELSE r[k - q].offset - o]
  <1>13. ASSUME NEW k \in 1 .. q + m
         PROVE  \/ /\ k \in 1 .. q /\ p[k] = pos[k] /\ both[k] = seen[k]
                \/ /\ k - q \in 1 .. m /\ ~(k <= q) /\ p[k] = r[k - q].offset - o
                   /\ both[k] = r[k - q].name
    <2>1. CASE k <= q
      <3>1. both[k] = seen[k] /\ p[k] = pos[k] /\ k \in 1 .. q
        BY <1>5, <1>6, <2>1
      <3> QED BY <3>1
    <2>2. CASE ~(k <= q)
      <3>1. k - q \in 1 .. m
        BY <1>1, <1>5, <2>2
      <3>2. both[k] = more[k - q]
        BY <1>6, <2>2
      <3>3. both[k] = r[k - q].name
        BY <1>4, <3>1, <3>2
      <3>4. p[k] = r[k - q].offset - o
        BY <2>2
      <3> HIDE DEF p
      <3> QED BY <2>2, <3>1, <3>3, <3>4
    <2> QED BY <2>1, <2>2
  <1> HIDE DEF p
  <1>14. ASSUME NEW k \in 1 .. q + m
         PROVE  /\ p[k] \in 1 .. Len(all) /\ p[k] <= r[m].offset
                /\ all[p[k]] = both[k]
    <2>1. CASE k \in 1 .. q /\ p[k] = pos[k] /\ both[k] = seen[k]
      <3>1. pos[k] \in 1 .. Len(all) /\ pos[k] <= o /\ all[pos[k]] = seen[k]
        BY <1>11, <2>1
      <3> QED BY <1>m, <2>1, <3>1
    <2>2. CASE /\ k - q \in 1 .. m /\ ~(k <= q) /\ p[k] = r[k - q].offset - o
               /\ both[k] = r[k - q].name
      <3> DEFINE x == r[k - q].offset
      <3>1. /\ x \in o + o + 1 .. o + Len(all) /\ r[k - q].name = all[x - o]
            /\ x \in Nat /\ x <= r[m].offset
        BY <1>9, <2>2
      <3>2. p[k] = x - o /\ both[k] = all[x - o]
        BY <2>2, <3>1
      <3> HIDE DEF x
      <3>3. x - o \in 1 .. Len(all) /\ x - o <= r[m].offset
        BY <1>m, <3>1
      <3> QED BY <3>2, <3>3
    <2> QED BY <1>13, <2>1, <2>2
  <1>15. ASSUME NEW j \in 1 .. q + m, NEW k \in 1 .. q + m, j < k
         PROVE  p[j] < p[k]
    <2>1. CASE k \in 1 .. q
      <3>1. j \in 1 .. q
        BY <1>5, <1>15, <2>1
      <3>2. p[j] = pos[j] /\ p[k] = pos[k]
        BY <1>5, <1>13, <2>1, <3>1
      <3> QED BY <1>12, <1>15, <2>1, <3>1, <3>2
    <2>2. CASE k - q \in 1 .. m /\ ~(k <= q) /\ p[k] = r[k - q].offset - o
      <3> DEFINE x == r[k - q].offset
      <3>1. x \in o + o + 1 .. o + Len(all)
        BY <1>9, <2>2
      <3>2. p[k] = x - o
        BY <2>2
      <3>3. CASE j \in 1 .. q /\ p[j] = pos[j]
        <4>1. pos[j] \in 1 .. Len(all) /\ pos[j] <= o
          BY <1>11, <3>3
        <4> HIDE DEF x
        <4> QED BY <3>1, <3>2, <3>3, <4>1
      <3>4. CASE j - q \in 1 .. m /\ p[j] = r[j - q].offset - o
        <4> DEFINE y == r[j - q].offset
        <4>1. j - q < k - q
          BY <1>5, <1>15
        <4>2. y < x
          BY <1>10, <2>2, <3>4, <4>1
        <4>3. y \in o + o + 1 .. o + Len(all)
          BY <1>9, <3>4
        <4>4. p[j] = y - o
          BY <3>4
        <4> HIDE DEF x, y
        <4> QED BY <3>1, <3>2, <4>2, <4>3, <4>4
      <3> QED BY <1>13, <3>3, <3>4
    <2> QED BY <1>13, <2>1, <2>2
  <1>16. InOrder(both, p, all, r[m].offset)
    BY <1>6, <1>14, <1>15 DEF InOrder
  <1> QED BY <1>4, <1>6, <1>7, <1>8, <1>m, <1>16 DEF more, both, q, Taken, Extends

(* A single reply from offset 0 with room for all names has them all.      *)
LEMMA RepliedAll ==
  ASSUME IInv, NamesKnown, NEW size \in Nat, \A n \in Known : EntrySize[n] <= size,
         NEW a, a = Answered(FUSE_ROOT_ID, 0), NEW r, r = Fitting(size, a),
         NEW m \in 1 .. Len(r),
         Bytes(NamesOf(All)) <= IF m = Len(r) THEN size ELSE 0
  PROVE  [k \in 1 .. m |-> r[k].name] = All
  <1> DEFINE t == NamesOf(All)
             n == Len(All)
  <1>1. /\ All \in Seq(Known) /\ n \in Nat /\ n >= 1 /\ DOMAIN All = 1 .. n
        /\ All[1] = "."
    BY AllIs
  <1>2. /\ Placed(a, 0, All) /\ Len(a) = n
        /\ \A k \in 1 .. n : a[k].name = All[k]
    BY AnsweredIs
  <1>3. DOMAIN a = 1 .. n
    BY <1>2 DEF Placed
  <1>4. DOMAIN t = 1 .. n /\ \A k \in 1 .. n : t[k].name = All[k]
    BY <1>1 DEF NamesOf
  <1>5. \A k \in 1 .. n : EntrySize[All[k]] \in Nat \ {0}
    <2>1. \A k \in 1 .. n : All[k] \in Known
      BY <1>1
    <2> QED BY <2>1, UringFsAssumption DEF Known
  <1> HIDE DEF t, n
  <1>6. Bytes(a) = Bytes(t) /\ Bytes(t) \in Nat
    <2>1. SameNames(a, n, t, n)
      BY <1>1, <1>2, <1>3, <1>4, <1>5 DEF SameNames
    <2> QED BY <1>1, <2>1, BytesPrefix
  <1>7. Bytes(t) > 0
    <2> DEFINE none == <<>>
    <2>1. SameNames(none, 0, t, n)
      BY <1>1, <1>4, <1>5 DEF SameNames
    <2> HIDE DEF none
    <2>2. Bytes(none) \in Nat /\ Bytes(none) + EntrySize[t[0 + 1].name] <= Bytes(t)
      BY <1>1, <2>1, BytesPrefix
    <2>3. 0 + 1 \in 1 .. n
      BY <1>1
    <2>4. EntrySize[t[0 + 1].name] \in Nat \ {0}
      BY <1>4, <1>5, <2>3
    <2> DEFINE x == EntrySize[t[0 + 1].name]
    <2> HIDE DEF x
    <2>5. Bytes(none) \in Nat /\ x \in Nat \ {0} /\ Bytes(none) + x <= Bytes(t)
      BY <2>2, <2>4 DEF x
    <2> QED BY <1>6, <2>5
  <1>8. m = Len(r) /\ Bytes(a) <= size
    <2>1. Bytes(t) <= IF m = Len(r) THEN size ELSE 0
      BY DEF t
    <2> QED BY <1>6, <1>7, <2>1
  <1>9. r = a
    BY <1>1, <1>2, <1>8, ReplyIs
  <1>10. m = n /\ \A k \in 1 .. n : r[k].name = All[k]
    BY <1>2, <1>8, <1>9
  <1>11. All = [k \in 1 .. n |-> All[k]]
    BY <1>1
  <1>12. [k \in 1 .. m |-> r[k].name] = [k \in 1 .. n |-> All[k]]
    BY <1>10
  <1> QED BY <1>11, <1>12

(* readdir.                                                                *)
LEMMA ReaddirListing ==
  ASSUME LInv, NEW size \in BufferSizes, readdir(size)
  PROVE  ListingInv'
  <1> DEFINE l == listing
             a == Answered(FUSE_ROOT_ID, l.offset)
             r == Fitting(size, a)
  <1>1. IInv /\ NamesKnown /\ ListingInv
    BY DEF LInv
  <1>2. /\ l # NoListing /\ l \in Listings
        /\ l.replies = 0 => l.seen = <<>>
        /\ IF l.seen = <<>> THEN l.offset = 0 ELSE l.seen[1] = "."
        /\ Complete(l)
    <2>1. l # NoListing
      BY Zenon DEF readdir
    <2> QED BY <1>1, <2>1 DEF ListingInv
  <1>3. PICK pos : InOrder(l.seen, pos, All, l.offset)
    BY <1>1, <1>2 DEF ListingInv
  <1>4. All' = All
    <2>1. ls_cache' = ls_cache
      BY Zenon DEF readdir, filesystem
    <2> QED BY <2>1 DEF All, Listed
  <1>5. IF a = <<>>
          THEN listing' = [l EXCEPT !.end = "ENOENT"]
          ELSE \E m \in DOMAIN r :
                 listing' = [l EXCEPT !.offset = r[m].offset,
                                      !.seen = @ \o [k \in 1 .. m |-> r[k].name],
                                      !.replies = @ + 1,
                                      !.room = IF m = Len(r) THEN size ELSE 0,
                                      !.there = Listed(RootPath)]
    BY Zenon DEF readdir, Fitting
  <1>6. /\ size \in Nat /\ \A n \in Known : EntrySize[n] <= size
    BY UringFsAssumption DEF Known
  <1>7. /\ l.offset \in Nat /\ l.seen \in Seq(Known) /\ l.replies \in Nat
        /\ l.room \in Nat /\ l.there \in Seq(Names) /\ l.end \in {"no", "ENOENT"}
    BY <1>2 DEF Listings
  <1>8. All \in Seq(Known) /\ Placed(a, l.offset, All) /\ Len(All) \in Nat /\ All[1] = "."
    BY <1>1, <1>7, AllIs, AnsweredIs
  <1>9. Placed(r, l.offset, All) /\ (a # <<>> => r # <<>> /\ r[1] = a[1])
    BY <1>6, <1>7, <1>8, ReplyIs
  <1> HIDE DEF r, a
  <1>10. CASE a = <<>>
    <2> DEFINE new == [l EXCEPT !.end = "ENOENT"]
    <2>1. listing' = new
      BY <1>5, <1>10
    <2>2. /\ new.offset = l.offset /\ new.seen = l.seen /\ new.replies = l.replies
          /\ new.room = l.room /\ new.there = l.there /\ new \in Listings
      BY <1>2 DEF Listings
    <2> HIDE DEF new
    <2>3. Complete(new)
      BY <1>2, <2>2 DEF Complete
    <2>4. InOrder(new.seen, pos, All, new.offset)
      BY <1>3, <2>2
    <2> QED BY <1>2, <1>4, <2>1, <2>2, <2>3, <2>4 DEF ListingInv
  <1>11. CASE a # <<>>
    <2>1. PICK m \in DOMAIN r :
                 listing' = [l EXCEPT !.offset = r[m].offset,
                                      !.seen = @ \o [k \in 1 .. m |-> r[k].name],
                                      !.replies = @ + 1,
                                      !.room = IF m = Len(r) THEN size ELSE 0,
                                      !.there = Listed(RootPath)]
      BY <1>5, <1>11
    <2>2. r \in Seq(Entries) /\ m \in 1 .. Len(r)
      BY <1>9 DEF Placed
    <2> DEFINE more == [k \in 1 .. m |-> r[k].name]
               there == Listed(RootPath)
               room == IF m = Len(r) THEN size ELSE 0
               seen == l.seen \o more
               new == [offset |-> r[m].offset, seen |-> seen, replies |-> l.replies + 1,
                       room |-> room, there |-> there, end |-> l.end]
    <2>3. /\ seen \in Seq(Known)
          /\ more \in Seq(Known) /\ Len(more) = m /\ Len(seen) = Len(l.seen) + m
          /\ l.seen # <<>> => seen[1] = l.seen[1]
          /\ l.seen = <<>> => seen = more
          /\ r[m].offset \in Nat
          /\ \E p : InOrder(seen, p, All, r[m].offset)
      <3> DEFINE o == l.offset
                 old == l.seen
                 L == All
      <3>1. /\ L \in Seq(Known) /\ o \in Nat /\ old \in Seq(Known)
            /\ InOrder(old, pos, L, o) /\ Placed(r, o, L)
        BY <1>3, <1>7, <1>8, <1>9
      <3> HIDE DEF o, old, L, more
      <3>2. Extends(old, Taken(r, m), m, L, r[m].offset)
        BY <2>2, <3>1, SeenMore
      <3>3. more = Taken(r, m)
        BY DEF more, Taken
      <3> QED BY <3>2, <3>3, Zenon DEF old, L, Extends
    <2>4. there \in Seq(Names) /\ room \in Nat /\ All = <<".">> \o there
      BY <1>1, <1>6, ListedIs DEF All
    <2>5. more[1] = r[1].name
      BY <2>2
    <2>6. listing' = new
      BY <1>2, <2>1 DEF Listings
    <2> HIDE DEF more, seen, room, there
    <2>7. new \in Listings
      BY <1>7, <2>3, <2>4 DEF Listings
    <2>8. /\ new.offset = r[m].offset /\ new.seen = seen /\ new.replies = l.replies + 1
          /\ new.room = room /\ new.there = there
      OBVIOUS
    <2> HIDE DEF new
    <2>9. new.replies # 0
      BY <1>7, <2>8
    <2>10. new.seen # <<>> /\ new.seen[1] = "."
      <3>1. Len(seen) > 0
        BY <1>7, <2>2, <2>3
      <3>2. CASE l.seen # <<>>
        BY <1>2, <2>3, <2>8, <3>1, <3>2
      <3>3. CASE l.seen = <<>>
        <4>1. l.offset = 0 /\ seen[1] = r[1].name /\ r[1] = a[1]
          BY <1>2, <1>9, <1>11, <2>3, <2>5, <3>3
        <4>2. Len(All) >= 1 /\ a[1].name = All[1]
          <5>1. Len(All) >= 1
            BY <1>1, AllIs
          <5>2. \A k \in 1 .. Len(All) : a[k].name = All[k]
            BY <1>1, <4>1, AnsweredIs DEF a
          <5> QED BY <1>8, <5>1, <5>2
        <4> QED BY <1>8, <2>8, <3>1, <4>1, <4>2
      <3> QED BY <3>2, <3>3
    <2>11. Complete(new)
      <3> SUFFICES ASSUME new.replies = 1, Bytes(NamesOf(All)) <= room
                   PROVE  seen = All
        BY <2>4, <2>8 DEF Complete
      <3>1. l.seen = <<>> /\ l.offset = 0
        BY <1>2, <1>7, <2>8
      <3>2. a = Answered(FUSE_ROOT_ID, 0) /\ r = Fitting(size, a)
        BY <3>1 DEF a, r
      <3>3. Bytes(NamesOf(All)) <= IF m = Len(r) THEN size ELSE 0
        BY DEF room
      <3>4. more = All
        BY <1>1, <1>6, <2>2, <3>2, <3>3, RepliedAll DEF more
      <3> QED BY <2>3, <3>1, <3>4
    <2>12. \E p : InOrder(new.seen, p, All, new.offset)
      BY <2>3, <2>8
    <2> QED BY <1>4, <2>6, <2>7, <2>9, <2>10, <2>11, <2>12 DEF ListingInv
  <1> QED BY <1>10, <1>11

(* Every step keeps the invariant of the listing.                          *)
LEMMA StepListing == LInv /\ [Next]_vars => LInv'
  <1> SUFFICES ASSUME LInv, [Next]_vars PROVE LInv'
    OBVIOUS
  <1>1. IInv'
    BY StepHolds DEF LInv
  <1>2. All \in Seq(Known) /\ Len(All) \in Nat /\ NamesKnown /\ ListingInv
    BY AllIs DEF LInv
  <1>3. CASE \E name \in Names : create(name)
    BY <1>1, <1>3, CreateListing DEF LInv
  <1>4. CASE \/ (\E name \in Names : lookup(name)) \/ (\E ino \in nodes : setattr(ino))
             \/ opendir \/ releasedir \/ (\E size \in BufferSizes : readdir(size))
             \/ UNCHANGED vars
    <2>1. inodes' = inodes /\ ls_cache' = ls_cache
      BY <1>4, Zenon
      DEF lookup, setattr, opendir, releasedir, readdir, vars, filesystem, manager
    <2>2. NamesKnown' /\ All' = All
      BY <1>2, <2>1 DEF NamesKnown, All, Listed
    <2>3. CASE \E size \in BufferSizes : readdir(size)
      BY <1>1, <2>2, <2>3, ReaddirListing DEF LInv
    <2>4. CASE opendir
      BY <1>1, <2>2, <2>4, OpendirListing DEF LInv
    <2>5. CASE releasedir
      BY <1>1, <2>2, <2>5 DEF releasedir, ListingInv, LInv
    <2>6. CASE \/ (\E name \in Names : lookup(name)) \/ (\E ino \in nodes : setattr(ino))
               \/ UNCHANGED vars
      <3>1. listing' = listing
        BY <2>6 DEF lookup, setattr, vars, kernel
      <3>2. ListingInv'
        BY <1>2, <2>2, <3>1, ListingKept
      <3> QED BY <1>1, <2>2, <3>2 DEF LInv
    <2> QED BY <1>4, <2>3, <2>4, <2>5, <2>6
  <1> QED BY <1>3, <1>4 DEF Next

(* The invariant says what ListingSound does: positions rise, and no name  *)
(* has two.                                                                *)
LEMMA ListingHolds == LInv => ListingSound
  <1>0. LInv /\ listing # NoListing => Complete(listing)
    BY DEF LInv, ListingInv
  <1> SUFFICES ASSUME LInv, listing # NoListing, listing.seen # <<>>
               PROVE  LET At(n) == CHOOSE i \in DOMAIN All : All[i] = n
                          seen == listing.seen
                      IN  /\ Head(seen) = "."
                          /\ \A k \in 1 .. Len(seen) - 1 : At(seen[k]) < At(seen[k + 1])
    BY <1>0 DEF ListingSound, Complete, NamesOf, All
  <1> DEFINE At(n) == CHOOSE i \in DOMAIN All : All[i] = n
             seen == listing.seen
  <1>1. seen \in Seq(Known) /\ seen[1] = "." /\ Len(seen) \in Nat
    BY DEF LInv, ListingInv, Listings
  <1>2. PICK pos : InOrder(seen, pos, All, listing.offset)
    BY DEF LInv, ListingInv
  <1>3. All \in Seq(Known) /\ \A i, j \in 1 .. Len(All) : All[i] = All[j] => i = j
    BY AllIs DEF LInv
  <1> HIDE DEF seen
  <1>4. ASSUME NEW k \in 1 .. Len(seen) PROVE At(seen[k]) = pos[k]
    <2>1. pos[k] \in 1 .. Len(All) /\ All[pos[k]] = seen[k]
      BY <1>2 DEF InOrder
    <2>2. DOMAIN All = 1 .. Len(All)
      BY <1>3
    <2>3. /\ At(seen[k]) \in DOMAIN All
          /\ All[At(seen[k])] = seen[k]
      BY <2>1, <2>2, Zenon
    <2> HIDE DEF At
    <2> QED BY <1>3, <2>1, <2>2, <2>3
  <1>5. Head(seen) = "."
    BY <1>1 DEF seen
  <1> HIDE DEF At
  <1>6. ASSUME NEW k \in 1 .. Len(seen) - 1 PROVE At(seen[k]) < At(seen[k + 1])
    <2>1. k \in 1 .. Len(seen) /\ k + 1 \in 1 .. Len(seen) /\ k < k + 1
      BY <1>1
    <2>2. pos[k] < pos[k + 1]
      BY <1>2, <2>1 DEF InOrder
    <2> QED BY <1>4, <2>1, <2>2
  <1> QED BY <1>5, <1>6 DEF At, seen

(* Whatever part of each reply the kernel consumes and whatever is created *)
(* meanwhile, readdir lists "." and then names of the directory once each  *)
(* in its order, and all of them when one buffer had room, for any names,  *)
(* sizes of entries and of buffers.                                        *)
THEOREM ListingSafety == Spec => []ListingSound
  BY InitListing, StepListing, ListingHolds, PTL DEF Spec

=============================================================================
