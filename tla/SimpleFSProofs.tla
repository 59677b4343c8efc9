--------------------------- MODULE SimpleFSProofs ---------------------------
(***************************************************************************)
(* What survives in the store of SimpleFS, for any names, any number of    *)
(* inodes, handles and crashes.  A handler is a sequence of writes that    *)
(* may stop after any of them or in the middle of one, so the argument is  *)
(* about the prefixes of such sequences: conditions on the single writes   *)
(* (Valid) give what every prefix leaves alone, and the writes of each     *)
(* handler give what the whole of it does to the inodes that it is about.  *)
(* A handler that meets a torn or missing directory panics for certain; it *)
(* is shown to follow a safe one up to there (Cut).                        *)
(***************************************************************************)
EXTENDS SimpleFS, FiniteSetTheorems, SequenceTheorems, InductionProofs, TLAPS

-----------------------------------------------------------------------------
(* The recursive function of After: it exists for every n, and the         *)
(* functions for different n agree.                                        *)
Before == [superblock |-> superblock, inodes |-> inodes,
           contents |-> contents, handles |-> handles]
Chain(ws, n, g) ==
  g = [k \in 0 .. n |-> IF k = 0 THEN Before ELSE Apply(g[k - 1], ws[k])]

LEMMA ChainExists == ASSUME NEW ws PROVE \A n \in Nat : \E g : Chain(ws, n, g)
  <1> DEFINE S == {n \in Nat : \E g : Chain(ws, n, g)}
  <1>1. 0 \in S
    <2>1. Chain(ws, 0, [k \in 0 .. 0 |-> Before])
      BY DEF Chain
    <2> QED BY <2>1
  <1>2. ASSUME NEW n \in Nat, n \in S PROVE n + 1 \in S
    <2>1. PICK g : Chain(ws, n, g)
      BY <1>2
    <2> DEFINE h == [k \in 0 .. n + 1 |->
                       IF k = n + 1 THEN Apply(g[n], ws[n + 1]) ELSE g[k]]
    <2>2. \A k \in 0 .. n : g[k] = IF k = 0 THEN Before ELSE Apply(g[k - 1], ws[k])
      BY <2>1 DEF Chain
    <2>3. ASSUME NEW k \in 0 .. n + 1
          PROVE  h[k] = IF k = 0 THEN Before ELSE Apply(h[k - 1], ws[k])
      <3>1. CASE k = n + 1
        BY <3>1
      <3>2. CASE k \in 0 .. n
        BY <2>2, <3>2
      <3> QED BY <3>1, <3>2
    <2> HIDE DEF h
    <2>4. h = [k \in 0 .. n + 1 |-> h[k]]
      BY DEF h
    <2>5. Chain(ws, n + 1, h)
      BY <2>3, <2>4 DEF Chain
    <2> QED BY <2>5
  <1> HIDE DEF S
  <1>3. \A n \in Nat : n \in S
    BY <1>1, <1>2, Induction
  <1> QED BY <1>3 DEF S

LEMMA ChainAgree ==
  ASSUME NEW ws, NEW n \in Nat, NEW g, NEW h, Chain(ws, n, g), Chain(ws, n + 1, h)
  PROVE  \A k \in 0 .. n : g[k] = h[k]
  <1> DEFINE S == {k \in Nat : k <= n => g[k] = h[k]}
  <1>g. \A k \in 0 .. n : g[k] = IF k = 0 THEN Before ELSE Apply(g[k - 1], ws[k])
    BY DEF Chain
  <1>h. \A k \in 0 .. n + 1 : h[k] = IF k = 0 THEN Before ELSE Apply(h[k - 1], ws[k])
    BY DEF Chain
  <1>1. 0 \in S
    BY <1>g, <1>h
  <1>2. ASSUME NEW k \in Nat, k \in S PROVE k + 1 \in S
    <2> SUFFICES ASSUME k + 1 <= n PROVE g[k + 1] = h[k + 1]
      OBVIOUS
    <2>1. g[k + 1] = Apply(g[k], ws[k + 1]) /\ h[k + 1] = Apply(h[k], ws[k + 1])
      BY <1>g, <1>h
    <2> QED BY <1>2, <2>1
  <1> HIDE DEF S
  <1>3. \A k \in Nat : k \in S
    BY <1>1, <1>2, Induction
  <1> QED BY <1>3 DEF S

(* After no write the store is as it was, and after one more the last      *)
(* write is applied.                                                       *)
LEMMA AfterStep ==
  ASSUME NEW ws
  PROVE  /\ After(ws, 0) = Before
         /\ \A n \in Nat : After(ws, n + 1) = Apply(After(ws, n), ws[n + 1])
  <1> DEFINE G(n) == CHOOSE g : Chain(ws, n, g)
  <1>1. \A n \in Nat : Chain(ws, n, G(n))
    BY ChainExists
  <1>2. \A n \in Nat : After(ws, n) = G(n)[n]
    BY DEF After, Chain, Before
  <1> HIDE DEF G
  <1>3. G(0)[0] = Before
    BY <1>1 DEF Chain
  <1>4. ASSUME NEW n \in Nat PROVE G(n + 1)[n + 1] = Apply(G(n)[n], ws[n + 1])
    <2>1. Chain(ws, n, G(n)) /\ Chain(ws, n + 1, G(n + 1))
      BY <1>1
    <2>2. G(n + 1)[n] = G(n)[n]
      BY <2>1, ChainAgree
    <2>3. G(n + 1)[n + 1] = Apply(G(n + 1)[n], ws[n + 1])
      BY <2>1 DEF Chain
    <2> QED BY <2>2, <2>3
  <1> QED BY <1>2, <1>3, <1>4

-----------------------------------------------------------------------------
(* The values of the store.                                                *)
AllNames == Names \cup {".", ".."}
Attributes ==
  [kind : {"Directory", "File", "Symlink"}, hardlinks : Nat,
   open_file_handles : Nat, size : Nat]
Content ==
  [kind : {"Data"}, len : Nat] \cup [kind : {"Directory"}, entries : [AllNames -> Nat]]
Stores ==
  [superblock : Nat, inodes : [Inodes -> Attributes \cup {Missing}],
   contents : [Inodes -> Content \cup {Missing}], handles : [Inodes -> Nat]]
EntryIn(d, p, m) ==
  IF d.contents[p].kind = "Directory" THEN d.contents[p].entries[m] ELSE NoEntry

(* A write that panics by itself is no value of Apply.                     *)
Write(w) ==
  /\ w.to \in {"superblock", "inode", "rm_inode", "content", "rm_content", "handle"}
  /\ w.to = "superblock" => w.i \in Nat
  /\ w.to # "superblock" => w.i \in Inodes
  /\ w.to = "inode" => w.val \in Attributes
  /\ w.to = "content" => w.val \in Content

(* The store after one more write, inode by inode.                         *)
Written(d, w, e) ==
  /\ e \in Stores
  /\ e.superblock = IF w.to = "superblock" THEN w.i ELSE d.superblock
  /\ \A i \in Inodes :
       /\ e.inodes[i] = IF w.to = "inode" /\ w.i = i THEN w.val
                        ELSE IF w.to = "rm_inode" /\ w.i = i THEN Missing
                        ELSE d.inodes[i]
       /\ e.contents[i] = IF w.to = "content" /\ w.i = i THEN w.val
                          ELSE IF w.to = "rm_content" /\ w.i = i THEN Missing
                          ELSE d.contents[i]
       /\ e.handles[i] = d.handles[i] + IF w.to = "handle" /\ w.i = i THEN 1 ELSE 0

LEMMA ApplyWrites ==
  ASSUME NEW d \in Stores, NEW w, Write(w)
  PROVE  Written(d, w, Apply(d, w))
  <1> DEFINE A == Attributes \cup {Missing}
             C == Content \cup {Missing}
  <1> HIDE DEF A, C
  <1>0. /\ d.superblock \in Nat /\ d.inodes \in [Inodes -> A]
        /\ d.contents \in [Inodes -> C] /\ d.handles \in [Inodes -> Nat]
        /\ d = [superblock |-> d.superblock, inodes |-> d.inodes,
                contents |-> d.contents, handles |-> d.handles]
    BY DEF Stores, A, C
  <1>a. \A s \in Nat, f \in [Inodes -> A], g \in [Inodes -> C], h \in [Inodes -> Nat] :
          [superblock |-> s, inodes |-> f, contents |-> g, handles |-> h] \in Stores
    BY DEF Stores, A, C
  <1>b. Missing \in A /\ Missing \in C /\ Attributes \subseteq A /\ Content \subseteq C
    BY DEF A, C
  <1>1. CASE w.to = "superblock"
    <2>1. Apply(d, w) = [superblock |-> w.i, inodes |-> d.inodes,
                         contents |-> d.contents, handles |-> d.handles]
      BY <1>0, <1>1 DEF Apply
    <2> QED BY <1>0, <1>1, <1>a, <2>1 DEF Write, Written
  <1>2. CASE w.to = "inode"
    <2>1. Apply(d, w) = [superblock |-> d.superblock, inodes |-> [d.inodes EXCEPT ![w.i] = w.val],
                         contents |-> d.contents, handles |-> d.handles]
      BY <1>0, <1>2 DEF Apply
    <2>2. [d.inodes EXCEPT ![w.i] = w.val] \in [Inodes -> A]
      BY <1>0, <1>2, <1>b DEF Write
    <2> QED BY <1>0, <1>2, <1>a, <2>1, <2>2 DEF Write, Written
  <1>3. CASE w.to = "rm_inode"
    <2>1. Apply(d, w) = [superblock |-> d.superblock, inodes |-> [d.inodes EXCEPT ![w.i] = Missing],
                         contents |-> d.contents, handles |-> d.handles]
      BY <1>0, <1>3 DEF Apply
    <2>2. [d.inodes EXCEPT ![w.i] = Missing] \in [Inodes -> A]
      BY <1>0, <1>3, <1>b DEF Write
    <2> QED BY <1>0, <1>3, <1>a, <2>1, <2>2 DEF Write, Written
  <1>4. CASE w.to = "content"
    <2>1. Apply(d, w) = [superblock |-> d.superblock, inodes |-> d.inodes,
                         contents |-> [d.contents EXCEPT ![w.i] = w.val], handles |-> d.handles]
      BY <1>0, <1>4 DEF Apply
    <2>2. [d.contents EXCEPT ![w.i] = w.val] \in [Inodes -> C]
      BY <1>0, <1>4, <1>b DEF Write
    <2> QED BY <1>0, <1>4, <1>a, <2>1, <2>2 DEF Write, Written
  <1>5. CASE w.to = "rm_content"
    <2>1. Apply(d, w) = [superblock |-> d.superblock, inodes |-> d.inodes,
                         contents |-> [d.contents EXCEPT ![w.i] = Missing], handles |-> d.handles]
      BY <1>0, <1>5 DEF Apply
    <2>2. [d.contents EXCEPT ![w.i] = Missing] \in [Inodes -> C]
      BY <1>0, <1>5, <1>b DEF Write
    <2> QED BY <1>0, <1>5, <1>a, <2>1, <2>2 DEF Write, Written
  <1>6. CASE w.to = "handle"
    <2>1. Apply(d, w) = [superblock |-> d.superblock, inodes |-> d.inodes, contents |-> d.contents,
                         handles |-> [d.handles EXCEPT ![w.i] = @ + 1]]
      BY <1>0, <1>6 DEF Apply
    <2>2. [d.handles EXCEPT ![w.i] = @ + 1] \in [Inodes -> Nat]
      BY <1>0, <1>6 DEF Write
    <2> QED BY <1>0, <1>6, <1>a, <2>1, <2>2 DEF Write, Written
  <1> QED BY <1>1, <1>2, <1>3, <1>4, <1>5, <1>6 DEF Write

(* The first n writes are those of a handler up to where it stops.         *)
Writes(ws, n) == \A l \in 1 .. n : Write(ws[l])

LEMMA AfterWrites ==
  ASSUME NEW ws, Before \in Stores, NEW n \in Nat, Writes(ws, n)
  PROVE  /\ \A l \in 0 .. n : After(ws, l) \in Stores
         /\ \A l \in 1 .. n : Written(After(ws, l - 1), ws[l], After(ws, l))
  <1> DEFINE S == {l \in Nat : l <= n => After(ws, l) \in Stores}
  <1>0. ASSUME NEW l \in Nat, l + 1 <= n, After(ws, l) \in Stores
        PROVE  Written(After(ws, l), ws[l + 1], After(ws, l + 1))
    <2>1. l + 1 \in 1 .. n
      BY <1>0
    <2>2. Write(ws[l + 1])
      BY <2>1 DEF Writes
    <2> QED BY <1>0, <2>2, ApplyWrites, AfterStep
  <1>1. 0 \in S
    BY AfterStep
  <1>2. ASSUME NEW l \in Nat, l \in S PROVE l + 1 \in S
    <2> SUFFICES ASSUME l + 1 <= n PROVE After(ws, l + 1) \in Stores
      OBVIOUS
    <2> QED BY <1>0, <1>2 DEF Written
  <1> HIDE DEF S
  <1>3. \A l \in Nat : l \in S
    BY <1>1, <1>2, Induction
  <1>4. \A l \in 0 .. n : After(ws, l) \in Stores
    BY <1>3 DEF S
  <1>5. ASSUME NEW l \in 1 .. n PROVE Written(After(ws, l - 1), ws[l], After(ws, l))
    <2>1. l - 1 \in Nat /\ (l - 1) + 1 = l /\ l - 1 \in 0 .. n
      OBVIOUS
    <2>2. Written(After(ws, l - 1), ws[(l - 1) + 1], After(ws, (l - 1) + 1))
      BY <1>0, <1>4, <2>1
    <2> QED BY <2>1, <2>2
  <1> QED BY <1>4, <1>5

-----------------------------------------------------------------------------
(***************************************************************************)
(* What every state of the store satisfies, complete or cut short, as a    *)
(* predicate on a store, so that it can be stated for prefixes too.        *)
(***************************************************************************)

(* Numbers above the superblock are used nowhere.                          *)
Unused(d) ==
  /\ d.superblock \in 1 .. limit.inodes
  /\ \A i \in Inodes :
       i > d.superblock => d.inodes[i] = Missing /\ d.contents[i] = Missing
  /\ \A p \in Inodes, m \in AllNames : EntryIn(d, p, m) <= d.superblock

(* Directories, and only they, have a DirectoryDescriptor; the root is a   *)
(* directory.                                                              *)
KindsAgree(d) ==
  /\ \A i \in Inodes :
       d.inodes[i] # Missing /\ d.contents[i] # Missing =>
         (d.contents[i].kind = "Directory" <=> d.inodes[i].kind = "Directory")
  /\ d.inodes[FUSE_ROOT_ID] # Missing => d.inodes[FUSE_ROOT_ID].kind = "Directory"
  /\ d.inodes[FUSE_ROOT_ID] = Missing => d.contents[FUSE_ROOT_ID] = Missing

(* No name leads to the root or to the directory that it is in, nor to a   *)
(* file or directory without content.                                      *)
Bare(d, i) ==
  d.inodes[i] # Missing /\ d.contents[i] = Missing /\ d.inodes[i].kind # "Symlink"
NamesLead(d) ==
  \A p \in Inodes, m \in Names :
    /\ EntryIn(d, p, m) # p
    /\ EntryIn(d, p, m) # FUSE_ROOT_ID
    /\ EntryIn(d, p, m) \in Inodes => ~Bare(d, EntryIn(d, p, m))

StoreInv(d) == d \in Stores /\ Unused(d) /\ KindsAgree(d) /\ NamesLead(d)

(***************************************************************************)
(* The writes of a handler about the inodes `is', which may make one of    *)
(* kind k: a condition on each write.  An inode not in `is' is at most a   *)
(* directory in which names of those in `is' change.                       *)
(***************************************************************************)
Kind(k, i) == IF Exists(i) THEN inodes[i].kind ELSE k

(* The superblock after n writes: the number is allocated by the second.   *)
Bound(ws, n) ==
  IF n >= 2 /\ Len(ws) >= 2 /\ ws[2].to = "superblock" THEN superblock + 1 ELSE superblock

ValidInode(is, k, w) ==
  /\ w.val \in Attributes
  /\ w.val.kind = Kind(k, w.i)
  /\ w.i \notin is => Exists(w.i) /\ w.val = inodes[w.i]
  /\ ~Exists(w.i) => ~HasContent(w.i)

(* A name is given to an inode only if that has its content.               *)
MayName(is, k, ws, n, x) ==
  IF Exists(x) THEN HasContent(x) \/ inodes[x].kind = "Symlink"
  ELSE k = "Symlink" \/ \E l \in 1 .. n - 1 : ws[l].to = "content" /\ ws[l].i = x

ValidContent(is, k, ws, n) ==
  LET w == ws[n]
  IN  /\ w.val \in Content
      /\ w.val.kind = "Directory" <=> Kind(k, w.i) = "Directory"
      /\ w.i \notin is =>
           /\ Exists(w.i) /\ IsDir(w.i) /\ HasContent(w.i)
           /\ w.val.entries[".."] = Entry(w.i, "..")
      /\ ~Exists(w.i) =>
           ~HasContent(w.i) /\ \E l \in 1 .. n - 1 : ws[l].to = "inode" /\ ws[l].i = w.i
      /\ w.val.kind = "Directory" =>
           /\ \A m \in AllNames : w.val.entries[m] <= Bound(ws, n)
           /\ \A m \in Names : LET x == w.val.entries[m]
                               IN  /\ x # w.i /\ x # FUSE_ROOT_ID
                                   /\ x \in is => MayName(is, k, ws, n, x)
                                   /\ x \in Inodes \ is => Entry(w.i, m) = x
                                   /\ \A j \in Inodes \ (is \cup damaged) :
                                        Entry(w.i, m) = j => x = j

Removable(is, i) ==
  /\ i \in is /\ i # FUSE_ROOT_ID /\ Exists(i)
  /\ \A m \in Names : Entry(i, m) = NoEntry

ValidAt(is, k, ws, n) ==
  LET w == ws[n]
  IN  /\ w.to \in {"superblock", "inode", "rm_inode", "content", "rm_content", "handle", "panic"}
      /\ w.to = "superblock" => n = 2 /\ w = AllocateInode /\ MayAllocate
      /\ w.to \notin {"superblock", "panic"} => w.i \in Inodes /\ w.i <= Bound(ws, n)
      /\ w.to = "inode" => ValidInode(is, k, w)
      /\ w.to = "content" => ValidContent(is, k, ws, n)
      /\ w.to = "rm_inode" =>
           /\ Removable(is, w.i)
           /\ \A l \in n + 1 .. Len(ws) : ws[l].to = "inode" => ws[l].i # w.i
      /\ w.to = "rm_content" => Removable(is, w.i) /\ n > 1 /\ ws[n - 1] = RemoveInode(w.i)

Valid(is, k, ws) ==
  /\ is \subseteq Inodes
  /\ k \in {"Directory", "File", "Symlink"}
  /\ \A x \in is : ~Exists(x) => \A p \in Inodes, m \in Names : Entry(p, m) # x
  /\ FUSE_ROOT_ID \in is /\ ~Exists(FUSE_ROOT_ID) => k = "Directory"
  /\ Len(ws) \in Nat /\ DOMAIN ws = 1 .. Len(ws)
  /\ \A n \in 1 .. Len(ws) : ValidAt(is, k, ws, n)

(* What the constants give.                                                *)
LEMMA Constants ==
  /\ MaxInode \in Nat \ {0}
  /\ \A l \in Limits : l.inodes \in Nat \ {0} /\ l.inodes <= MaxInode
  /\ FUSE_ROOT_ID \in Inodes
  /\ "." \notin Names /\ ".." \notin Names
  <1>1. PICK most \in Limits : \A l \in Limits : l.inodes <= most.inodes
    BY SimpleFSAssumption
  <1>2. \A l \in Limits : l.inodes \in Nat \ {0}
    BY SimpleFSAssumption
  <1> DEFINE S == {l.inodes : l \in Limits}
  <1>3. most.inodes \in S /\ \A y \in S : most.inodes >= y
    BY <1>1, <1>2
  <1>4. Max(S) \in S /\ \A y \in S : Max(S) >= y
    BY <1>3 DEF Max
  <1>5. MaxInode \in Nat \ {0} /\ \A l \in Limits : l.inodes <= MaxInode
    BY <1>2, <1>4 DEF MaxInode
  <1> QED BY <1>2, <1>5, SimpleFSAssumption DEF FUSE_ROOT_ID, Inodes

-----------------------------------------------------------------------------
(* The prefixes of a valid handler.                                        *)
NoPanic(ws, n) == \A l \in 1 .. n : ws[l].to # "panic"
Prefix(is, k, ws, n) ==
  /\ limit \in Limits /\ StoreInv(Before)
  /\ Valid(is, k, ws) /\ n \in 0 .. Len(ws) /\ NoPanic(ws, n)

LEMMA PrefixWrites ==
  ASSUME NEW is, NEW k, NEW ws, NEW n, Prefix(is, k, ws, n)
  PROVE  /\ n \in Nat /\ Len(ws) \in Nat
         /\ \A l \in 0 .. n : After(ws, l) \in Stores
         /\ \A l \in 1 .. n : /\ l \in 1 .. Len(ws) /\ l - 1 \in 0 .. n
                              /\ Write(ws[l]) /\ ValidAt(is, k, ws, l)
                              /\ Written(After(ws, l - 1), ws[l], After(ws, l))
  <1>1. n \in Nat /\ Len(ws) \in Nat /\ n <= Len(ws) /\ superblock \in Nat /\ Before \in Stores
    BY DEF Prefix, Valid, StoreInv, Stores, Before
  <1>2. ASSUME NEW l \in 1 .. n PROVE Write(ws[l]) /\ ValidAt(is, k, ws, l) /\ l \in 1 .. Len(ws)
    <2>1. l \in 1 .. Len(ws)
      BY <1>1
    <2>2. ValidAt(is, k, ws, l) /\ ws[l].to # "panic"
      BY <2>1 DEF Prefix, Valid, NoPanic
    <2>3. AllocateInode.i \in Nat
      BY <1>1 DEF AllocateInode, NextInode
    <2> QED BY <2>1, <2>2, <2>3 DEF ValidAt, Write, ValidInode, ValidContent
  <1>3. Writes(ws, n)
    BY <1>2 DEF Writes
  <1>4. \A l \in 1 .. n : l - 1 \in 0 .. n
    BY <1>1
  <1> QED BY <1>1, <1>2, <1>3, <1>4, AfterWrites

(* Only the allocation changes the superblock.                             *)
LEMMA PrefixSuperblock ==
  ASSUME NEW is, NEW k, NEW ws, NEW n, Prefix(is, k, ws, n)
  PROVE  /\ \A l \in 0 .. n : After(ws, l).superblock = Bound(ws, l)
         /\ \A l \in 0 .. n : Bound(ws, l) \in 1 .. limit.inodes
         /\ \A l \in 1 .. n : Bound(ws, l - 1) <= Bound(ws, l)
  <1>0. /\ superblock \in 1 .. limit.inodes /\ limit.inodes \in Nat /\ n \in 0 .. Len(ws)
        /\ Len(ws) \in Nat
    BY Constants DEF Prefix, StoreInv, Unused, Before, Valid
  <1>1. ASSUME NEW l \in 1 .. Len(ws), ws[l].to = "superblock"
        PROVE  l = 2 /\ ws[l].i = superblock + 1 /\ superblock + 1 <= limit.inodes
    BY <1>0, <1>1 DEF Prefix, Valid, ValidAt, AllocateInode, MayAllocate, NextInode
  <1>2. \A l \in 0 .. n : Bound(ws, l) \in 1 .. limit.inodes
    <2> SUFFICES ASSUME NEW l \in 0 .. n PROVE Bound(ws, l) \in 1 .. limit.inodes
      OBVIOUS
    <2>1. CASE l >= 2 /\ Len(ws) >= 2 /\ ws[2].to = "superblock"
      <3>1. superblock + 1 <= limit.inodes
        BY <1>0, <1>1, <2>1
      <3> QED BY <1>0, <2>1, <3>1 DEF Bound
    <2> QED BY <1>0, <2>1 DEF Bound
  <1>3. \A l \in 1 .. n : Bound(ws, l - 1) <= Bound(ws, l)
    BY <1>0 DEF Bound
  <1> DEFINE S == {l \in Nat : l <= n => After(ws, l).superblock = Bound(ws, l)}
  <1>4. 0 \in S
    BY <1>0, AfterStep DEF Bound, Before
  <1>5. ASSUME NEW l \in Nat, l \in S PROVE l + 1 \in S
    <2> SUFFICES ASSUME l + 1 <= n PROVE After(ws, l + 1).superblock = Bound(ws, l + 1)
      OBVIOUS
    <2>1. l + 1 \in 1 .. n /\ l + 1 \in 1 .. Len(ws) /\ (l + 1) - 1 = l /\ l \in 0 .. n
      BY <1>0
    <2>2. Written(After(ws, l), ws[l + 1], After(ws, l + 1))
      BY <2>1, PrefixWrites
    <2>3. After(ws, l).superblock = Bound(ws, l)
      BY <1>5, <2>1
    <2>4. CASE ws[l + 1].to = "superblock"
      <3>1. l + 1 = 2 /\ ws[l + 1].i = superblock + 1
        BY <1>1, <2>1, <2>4
      <3> QED BY <1>0, <2>2, <2>4, <3>1 DEF Written, Bound
    <2>5. CASE ws[l + 1].to # "superblock"
      <3>1. Bound(ws, l + 1) = Bound(ws, l)
        <4>1. CASE l + 1 = 2
          <5>1. ws[2].to # "superblock" /\ l = 1
            BY <2>5, <4>1
          <5> QED BY <4>1, <5>1 DEF Bound
        <4>2. CASE l + 1 # 2
          <5>1. l >= 2 <=> l + 1 >= 2
            BY <4>2
          <5> QED BY <5>1 DEF Bound
        <4> QED BY <4>1, <4>2
      <3> QED BY <2>2, <2>3, <2>5, <3>1 DEF Written
    <2> QED BY <2>4, <2>5
  <1> HIDE DEF S
  <1>6. \A l \in Nat : l \in S
    BY <1>4, <1>5, Induction
  <1>7. \A l \in 0 .. n : After(ws, l).superblock = Bound(ws, l)
    BY <1>0, <1>6 DEF S
  <1> QED BY <1>2, <1>3, <1>7

(* Numbers, kinds and names along a handler.                               *)
Shape(k, b, d) ==
  /\ \A i \in Inodes :
       /\ i > b => d.inodes[i] = Missing /\ d.contents[i] = Missing
       /\ d.inodes[i] # Missing =>
            d.inodes[i].kind = Kind(k, i) /\ (Exists(i) \/ ~HasContent(i))
       /\ (Exists(i) \/ ~HasContent(i)) /\ d.contents[i] # Missing =>
            (d.contents[i].kind = "Directory" <=> Kind(k, i) = "Directory")
       /\ \A m \in AllNames : EntryIn(d, i, m) <= b
       /\ \A m \in Names : EntryIn(d, i, m) # i /\ EntryIn(d, i, m) # FUSE_ROOT_ID

LEMMA ShapeStep ==
  ASSUME NEW is, NEW k, NEW ws, NEW l \in 1 .. Len(ws), ValidAt(is, k, ws, l),
         NEW b \in Nat, Bound(ws, l) \in Nat, b <= Bound(ws, l),
         NEW d \in Stores, NEW e, Written(d, ws[l], e), Write(ws[l]), Shape(k, b, d)
  PROVE  Shape(k, Bound(ws, l), e)
  <1> DEFINE w == ws[l]
             c == Bound(ws, l)
  <1> SUFFICES ASSUME NEW i \in Inodes
               PROVE  /\ i > c => e.inodes[i] = Missing /\ e.contents[i] = Missing
                      /\ e.inodes[i] # Missing =>
                           e.inodes[i].kind = Kind(k, i) /\ (Exists(i) \/ ~HasContent(i))
                      /\ (Exists(i) \/ ~HasContent(i)) /\ e.contents[i] # Missing =>
                           (e.contents[i].kind = "Directory" <=> Kind(k, i) = "Directory")
                      /\ \A m \in AllNames : EntryIn(e, i, m) <= c
                      /\ \A m \in Names : EntryIn(e, i, m) # i /\ EntryIn(e, i, m) # FUSE_ROOT_ID
    BY DEF Shape
  <1>0. i \in Nat
    BY Constants DEF Inodes
  <1>d. /\ i > b => d.inodes[i] = Missing /\ d.contents[i] = Missing
        /\ d.inodes[i] # Missing =>
             d.inodes[i].kind = Kind(k, i) /\ (Exists(i) \/ ~HasContent(i))
        /\ (Exists(i) \/ ~HasContent(i)) /\ d.contents[i] # Missing =>
             (d.contents[i].kind = "Directory" <=> Kind(k, i) = "Directory")
        /\ \A m \in AllNames : EntryIn(d, i, m) <= b
        /\ \A m \in Names : EntryIn(d, i, m) # i /\ EntryIn(d, i, m) # FUSE_ROOT_ID
    BY DEF Shape
  <1>t. \A m \in AllNames : EntryIn(d, i, m) \in Nat
    <2>1. d.contents[i] \in Content \cup {Missing}
      BY DEF Stores
    <2> QED BY <2>1 DEF EntryIn, Content, NoEntry, Missing
  <1>m. \A f, m : f.contents[i] = Missing => EntryIn(f, i, m) = 0
    BY DEF EntryIn, Missing, NoEntry
  <1>n. w.to \notin {"superblock", "panic"} => w.i <= c
    BY DEF ValidAt
  <1>1. /\ i > c => e.inodes[i] = Missing
        /\ e.inodes[i] # Missing =>
             e.inodes[i].kind = Kind(k, i) /\ (Exists(i) \/ ~HasContent(i))
    <2>1. CASE w.to = "inode" /\ w.i = i
      <3>1. e.inodes[i] = w.val /\ w.i <= c /\ ValidInode(is, k, w)
        BY <1>n, <2>1 DEF Written, ValidAt
      <3> QED BY <1>0, <2>1, <3>1 DEF ValidInode
    <2>2. CASE ~(w.to = "inode" /\ w.i = i)
      <3>1. e.inodes[i] \in {d.inodes[i], Missing}
        BY <2>2 DEF Written
      <3> QED BY <1>0, <1>d, <3>1
    <2> QED BY <2>1, <2>2
  <1>2. /\ i > c => e.contents[i] = Missing
        /\ (Exists(i) \/ ~HasContent(i)) /\ e.contents[i] # Missing =>
             (e.contents[i].kind = "Directory" <=> Kind(k, i) = "Directory")
        /\ \A m \in AllNames : EntryIn(e, i, m) <= c
        /\ \A m \in Names : EntryIn(e, i, m) # i /\ EntryIn(e, i, m) # FUSE_ROOT_ID
    <2>1. CASE w.to = "content" /\ w.i = i
      <3>1. e.contents[i] = w.val /\ w.i <= c /\ ValidContent(is, k, ws, l)
        BY <1>n, <2>1 DEF Written, ValidAt
      <3>2. w.val.kind # "Directory" => \A m : EntryIn(e, i, m) = 0
        BY <3>1 DEF EntryIn, NoEntry
      <3>3. w.val.kind = "Directory" => \A m : EntryIn(e, i, m) = w.val.entries[m]
        BY <3>1 DEF EntryIn
      <3>4. w.val.kind = "Directory" =>
              /\ \A m \in AllNames : w.val.entries[m] <= c
              /\ \A m \in Names : w.val.entries[m] # i /\ w.val.entries[m] # FUSE_ROOT_ID
        BY <2>1, <3>1 DEF ValidContent
      <3>5. w.val.kind = "Directory" <=> Kind(k, i) = "Directory"
        BY <2>1, <3>1 DEF ValidContent
      <3>6. 0 # i /\ 0 # FUSE_ROOT_ID
        BY Constants DEF Inodes, FUSE_ROOT_ID
      <3> QED BY <1>0, <2>1, <3>1, <3>2, <3>3, <3>4, <3>5, <3>6
    <2>2. CASE w.to = "rm_content" /\ w.i = i
      <3>1. e.contents[i] = Missing
        BY <2>2 DEF Written
      <3>2. 0 # i /\ 0 # FUSE_ROOT_ID
        BY Constants DEF Inodes, FUSE_ROOT_ID
      <3> QED BY <1>m, <3>1, <3>2
    <2>3. CASE ~(w.to \in {"content", "rm_content"} /\ w.i = i)
      <3>1. e.contents[i] = d.contents[i]
        BY <2>3 DEF Written
      <3>2. \A m : EntryIn(e, i, m) = EntryIn(d, i, m)
        BY <3>1 DEF EntryIn
      <3> QED BY <1>0, <1>d, <1>t, <3>1, <3>2
    <2> QED BY <2>1, <2>2, <2>3
  <1> QED BY <1>1, <1>2

LEMMA PrefixShape ==
  ASSUME NEW is, NEW k, NEW ws, NEW n, Prefix(is, k, ws, n)
  PROVE  \A l \in 0 .. n : Shape(k, Bound(ws, l), After(ws, l))
  <1>0. n \in Nat /\ StoreInv(Before) /\ superblock \in Nat
    BY PrefixWrites DEF Prefix, StoreInv, Stores, Before
  <1>b. \A l \in 0 .. n : Bound(ws, l) \in Nat
    BY <1>0 DEF Bound
  <1> DEFINE S == {l \in Nat : l <= n => Shape(k, Bound(ws, l), After(ws, l))}
  <1>1. 0 \in S
    <2>1. Bound(ws, 0) = superblock
      BY DEF Bound
    <2>2. ASSUME NEW i \in Inodes
          PROVE  inodes[i] # Missing /\ contents[i] # Missing =>
                   (contents[i].kind = "Directory" <=> inodes[i].kind = "Directory")
      BY <1>0 DEF StoreInv, KindsAgree, Before
    <2>3. ASSUME NEW i \in Inodes
          PROVE  /\ i > superblock => inodes[i] = Missing /\ contents[i] = Missing
                 /\ \A m \in AllNames : EntryIn(Before, i, m) <= superblock
      BY <1>0 DEF StoreInv, Unused, Before
    <2>4. ASSUME NEW i \in Inodes
          PROVE  \A m \in Names : EntryIn(Before, i, m) # i /\ EntryIn(Before, i, m) # FUSE_ROOT_ID
      BY <1>0 DEF StoreInv, NamesLead
    <2>5. Before.inodes = inodes /\ Before.contents = contents
      BY DEF Before
    <2>6. Shape(k, superblock, Before)
      BY <2>2, <2>3, <2>4, <2>5 DEF Shape, Kind, Exists, HasContent
    <2> QED BY <2>1, <2>6, AfterStep
  <1>2. ASSUME NEW l \in Nat, l \in S PROVE l + 1 \in S
    <2> SUFFICES ASSUME l + 1 <= n PROVE Shape(k, Bound(ws, l + 1), After(ws, l + 1))
      OBVIOUS
    <2>1. l + 1 \in 1 .. n /\ (l + 1) - 1 = l /\ l \in 0 .. n /\ l + 1 \in 0 .. n
      BY <1>0
    <2>2. /\ l + 1 \in 1 .. Len(ws) /\ Write(ws[l + 1]) /\ ValidAt(is, k, ws, l + 1)
          /\ Written(After(ws, l), ws[l + 1], After(ws, l + 1)) /\ After(ws, l) \in Stores
      BY <2>1, PrefixWrites
    <2>3. Bound(ws, l) <= Bound(ws, l + 1)
      BY <2>1, PrefixSuperblock
    <2> QED BY <1>2, <1>b, <2>1, <2>2, <2>3, ShapeStep
  <1> HIDE DEF S
  <1>3. \A l \in Nat : l \in S
    BY <1>1, <1>2, Induction
  <1> QED BY <1>0, <1>3 DEF S

(* The inodes that a handler is not about, along the handler: their        *)
(* attributes stay, and so do their names and their parents, except for a  *)
(* name that a crash has left without an inode and that is given anew.     *)
OthersKept(is, d) ==
  /\ \A j \in Inodes \ is :
       /\ d.inodes[j] = inodes[j]
       /\ \/ d.contents[j] = contents[j]
          \/ /\ Exists(j) /\ IsDir(j) /\ HasContent(j)
             /\ d.contents[j] # Missing
             /\ EntryIn(d, j, "..") = Entry(j, "..")
  /\ \A p \in Inodes, m \in Names :
       /\ \A j \in Inodes \ is :
            /\ EntryIn(d, p, m) = j => Entry(p, m) = j
            /\ j \notin damaged /\ Entry(p, m) = j => EntryIn(d, p, m) = j
       /\ Entry(p, m) # NoEntry => (d.inodes[p] = Missing <=> inodes[p] = Missing)

LEMMA OthersStep ==
  ASSUME NEW is, NEW k, NEW ws, NEW l \in 1 .. Len(ws), ValidAt(is, k, ws, l),
         NEW d \in Stores, NEW e, Written(d, ws[l], e), Write(ws[l]), OthersKept(is, d),
         KindsAgree(Before)
  PROVE  OthersKept(is, e)
  <1> DEFINE w == ws[l]
  <1>1. ASSUME NEW j \in Inodes \ is
        PROVE  /\ e.inodes[j] = inodes[j]
               /\ \/ e.contents[j] = contents[j]
                  \/ /\ Exists(j) /\ IsDir(j) /\ HasContent(j)
                     /\ e.contents[j] # Missing
                     /\ EntryIn(e, j, "..") = Entry(j, "..")
    <2>1. e.inodes[j] = inodes[j]
      <3>1. d.inodes[j] = inodes[j]
        BY DEF OthersKept
      <3>2. w.to = "inode" /\ w.i = j => w.val = inodes[j]
        BY DEF ValidAt, ValidInode
      <3>3. ~(w.to = "rm_inode" /\ w.i = j)
        BY DEF ValidAt, Removable
      <3> QED BY <3>1, <3>2, <3>3 DEF Written
    <2>2. CASE w.to = "content" /\ w.i = j
      <3>1. e.contents[j] = w.val /\ ValidContent(is, k, ws, l)
        BY <2>2 DEF Written, ValidAt
      <3>2. Exists(j) /\ IsDir(j) /\ HasContent(j) /\ w.val.entries[".."] = Entry(j, "..")
        BY <2>2, <3>1 DEF ValidContent
      <3>3. w.val.kind = "Directory"
        BY <2>2, <3>1, <3>2 DEF ValidContent, Kind, IsDir
      <3> QED BY <2>1, <3>1, <3>2, <3>3 DEF EntryIn, Missing
    <2>3. CASE ~(w.to = "content" /\ w.i = j)
      <3>1. ~(w.to = "rm_content" /\ w.i = j)
        BY DEF ValidAt, Removable
      <3>2. e.contents[j] = d.contents[j]
        BY <2>3, <3>1 DEF Written
      <3>3. EntryIn(e, j, "..") = EntryIn(d, j, "..")
        BY <3>2 DEF EntryIn
      <3> QED BY <2>1, <3>2, <3>3 DEF OthersKept
    <2> QED BY <2>2, <2>3
  <1>2. ASSUME NEW p \in Inodes, NEW m \in Names, NEW j \in Inodes \ is
        PROVE  /\ EntryIn(e, p, m) = j => Entry(p, m) = j
               /\ j \notin damaged /\ Entry(p, m) = j => EntryIn(e, p, m) = j
    <2>0. /\ EntryIn(d, p, m) = j => Entry(p, m) = j
          /\ j \notin damaged /\ Entry(p, m) = j => EntryIn(d, p, m) = j
      BY DEF OthersKept
    <2>z. j # NoEntry
      BY Constants DEF Inodes, NoEntry
    <2>1. CASE w.to = "content" /\ w.i = p
      <3>1. e.contents[p] = w.val /\ ValidContent(is, k, ws, l) /\ w.val \in Content
        BY <2>1 DEF Written, ValidAt, ValidContent
      <3>2. CASE w.val.kind = "Directory"
        <4>1. EntryIn(e, p, m) = w.val.entries[m]
          BY <3>1, <3>2 DEF EntryIn
        <4> QED BY <2>1, <3>1, <3>2, <4>1 DEF ValidContent
      <3>3. CASE w.val.kind # "Directory"
        <4>1. EntryIn(e, p, m) = NoEntry
          BY <3>1, <3>3 DEF EntryIn
        <4>2. Kind(k, p) # "Directory"
          BY <2>1, <3>1, <3>3 DEF ValidContent
        <4>3. p \in is \/ (Exists(p) /\ IsDir(p))
          BY <2>1, <3>1 DEF ValidContent
        <4>4. Entry(p, m) = NoEntry
          <5>1. CASE Exists(p)
            <6>1. inodes[p].kind # "Directory"
              BY <4>2, <5>1 DEF Kind
            <6>2. contents[p] # Missing => contents[p].kind # "Directory"
              BY <5>1, <6>1 DEF KindsAgree, Before, Exists
            <6> QED BY <6>2 DEF Entry, Missing
          <5>2. CASE ~Exists(p)
            <6>1. contents[p] = Missing
              BY <5>2, <2>1, <3>1 DEF ValidContent, HasContent
            <6> QED BY <6>1 DEF Entry, Missing
          <5> QED BY <5>1, <5>2
        <4> QED BY <2>z, <4>1, <4>4
      <3> QED BY <3>2, <3>3
    <2>2. CASE w.to = "rm_content" /\ w.i = p
      <3>1. e.contents[p] = Missing /\ Entry(p, m) = NoEntry
        BY <2>2 DEF Written, ValidAt, Removable
      <3>2. EntryIn(e, p, m) = NoEntry
        BY <3>1 DEF EntryIn, Missing
      <3> QED BY <2>z, <3>1, <3>2
    <2>3. CASE ~(w.to \in {"content", "rm_content"} /\ w.i = p)
      <3>1. e.contents[p] = d.contents[p]
        BY <2>3 DEF Written
      <3> QED BY <2>0, <3>1 DEF EntryIn
    <2> QED BY <2>1, <2>2, <2>3
  <1>3. ASSUME NEW p \in Inodes, NEW m \in Names, Entry(p, m) # NoEntry
        PROVE  e.inodes[p] = Missing <=> inodes[p] = Missing
    <2>0. d.inodes[p] = Missing <=> inodes[p] = Missing
      BY <1>3 DEF OthersKept
    <2>1. CASE w.to = "inode" /\ w.i = p
      <3>1. e.inodes[p] = w.val /\ w.val \in Attributes /\ (~Exists(p) => ~HasContent(p))
        BY <2>1 DEF Written, ValidAt, ValidInode
      <3>2. e.inodes[p] # Missing
        BY <3>1 DEF Attributes, Missing
      <3>3. HasContent(p)
        BY <1>3 DEF HasContent, Entry, Missing
      <3> QED BY <3>1, <3>2, <3>3 DEF Exists
    <2>2. ~(w.to = "rm_inode" /\ w.i = p)
      BY <1>3 DEF ValidAt, Removable
    <2> QED BY <2>0, <2>1, <2>2 DEF Written
  <1> QED BY <1>1, <1>2, <1>3 DEF OthersKept

LEMMA PrefixOthers ==
  ASSUME NEW is, NEW k, NEW ws, NEW n, Prefix(is, k, ws, n)
  PROVE  \A l \in 0 .. n : OthersKept(is, After(ws, l))
  <1>0. n \in Nat /\ KindsAgree(Before)
    BY PrefixWrites DEF Prefix, StoreInv
  <1> DEFINE S == {l \in Nat : l <= n => OthersKept(is, After(ws, l))}
  <1>1. 0 \in S
    <2>1. OthersKept(is, Before)
      BY DEF OthersKept, Before, EntryIn, Entry, Entries
    <2> QED BY <2>1, AfterStep
  <1>2. ASSUME NEW l \in Nat, l \in S PROVE l + 1 \in S
    <2> SUFFICES ASSUME l + 1 <= n PROVE OthersKept(is, After(ws, l + 1))
      OBVIOUS
    <2>1. l + 1 \in 1 .. n /\ (l + 1) - 1 = l /\ l \in 0 .. n
      BY <1>0
    <2>2. /\ l + 1 \in 1 .. Len(ws) /\ Write(ws[l + 1]) /\ ValidAt(is, k, ws, l + 1)
          /\ Written(After(ws, l), ws[l + 1], After(ws, l + 1)) /\ After(ws, l) \in Stores
      BY <2>1, PrefixWrites
    <2> QED BY <1>0, <1>2, <2>1, <2>2, OthersStep
  <1> HIDE DEF S
  <1>3. \A l \in Nat : l \in S
    BY <1>1, <1>2, Induction
  <1> QED BY <1>0, <1>3 DEF S

(* What was written so far.                                                *)
Removed(ws, l, x) == \E r \in 1 .. l : ws[r].to = "rm_inode" /\ ws[r].i = x
Made(ws, l, x) == \E r \in 1 .. l : ws[r].to = "inode" /\ ws[r].i = x
Filled(ws, l, x) == \E r \in 1 .. l : ws[r].to = "content" /\ ws[r].i = x

(* What there is of an inode is what the handler found or wrote.           *)
History(is, k, ws, l, d) ==
  /\ \A x \in Inodes :
       IF Exists(x)
         THEN /\ d.inodes[x] = Missing <=> Removed(ws, l, x)
              /\ HasContent(x) /\ d.contents[x] = Missing => Removed(ws, l, x)
         ELSE /\ Made(ws, l, x) => d.inodes[x] # Missing
              /\ Filled(ws, l, x) => d.contents[x] # Missing /\ Made(ws, l, x)
              /\ d.contents[x] # contents[x] => Filled(ws, l, x)
  /\ \A p \in Inodes, m \in Names :
       LET x == EntryIn(d, p, m)
       IN  x \in is => Entry(p, m) = x \/ MayName(is, k, ws, l + 1, x)

LEMMA HistoryStep ==
  ASSUME NEW is, NEW k, NEW ws, Valid(is, k, ws), NEW l \in Nat, l + 1 \in 1 .. Len(ws),
         NEW d \in Stores, NEW e, Written(d, ws[l + 1], e), Write(ws[l + 1]),
         History(is, k, ws, l, d)
  PROVE  History(is, k, ws, l + 1, e)
  <1> DEFINE w == ws[l + 1]
  <1>0. ValidAt(is, k, ws, l + 1) /\ Len(ws) \in Nat
    BY DEF Valid
  <1>r. \A x : /\ Removed(ws, l + 1, x) <=> Removed(ws, l, x) \/ (w.to = "rm_inode" /\ w.i = x)
               /\ Made(ws, l + 1, x) <=> Made(ws, l, x) \/ (w.to = "inode" /\ w.i = x)
               /\ Filled(ws, l + 1, x) <=> Filled(ws, l, x) \/ (w.to = "content" /\ w.i = x)
    <2>1. 1 .. l + 1 = (1 .. l) \cup {l + 1}
      OBVIOUS
    <2> QED BY <2>1 DEF Removed, Made, Filled
  <1>1. ASSUME NEW x \in Inodes, Exists(x)
        PROVE  /\ e.inodes[x] = Missing <=> Removed(ws, l + 1, x)
               /\ HasContent(x) /\ e.contents[x] = Missing => Removed(ws, l + 1, x)
    <2>0. /\ d.inodes[x] = Missing <=> Removed(ws, l, x)
          /\ HasContent(x) /\ d.contents[x] = Missing => Removed(ws, l, x)
      BY <1>1 DEF History
    <2>1. CASE w.to = "inode" /\ w.i = x
      <3>1. w.val \in Attributes /\ e.inodes[x] = w.val /\ e.contents[x] = d.contents[x]
        BY <2>1 DEF Written, Write
      <3>2. e.inodes[x] # Missing
        BY <3>1 DEF Attributes, Missing
      <3>3. ~Removed(ws, l, x)
        <4> SUFFICES ASSUME NEW r \in 1 .. l, ws[r].to = "rm_inode", ws[r].i = x PROVE FALSE
          BY DEF Removed
        <4>1. r \in 1 .. Len(ws) /\ l + 1 \in r + 1 .. Len(ws)
          BY <1>0
        <4>2. ValidAt(is, k, ws, r)
          BY <4>1 DEF Valid
        <4> QED BY <2>1, <4>1, <4>2 DEF ValidAt
      <3> QED BY <1>r, <2>0, <2>1, <3>1, <3>2, <3>3
    <2>2. CASE w.to = "rm_inode" /\ w.i = x
      <3>1. e.inodes[x] = Missing
        BY <2>2 DEF Written
      <3> QED BY <1>r, <2>2, <3>1
    <2>3. CASE w.to = "rm_content" /\ w.i = x
      <3>1. e.inodes[x] = d.inodes[x]
        BY <2>3 DEF Written
      <3>2. l + 1 > 1 /\ ws[(l + 1) - 1] = RemoveInode(x)
        BY <1>0, <2>3 DEF ValidAt
      <3>3. l \in 1 .. l /\ ws[l] = RemoveInode(x)
        BY <3>2
      <3>4. Removed(ws, l, x)
        BY <3>3 DEF Removed, RemoveInode
      <3> QED BY <1>r, <2>0, <2>3, <3>1, <3>4
    <2>4. CASE w.to = "content" /\ w.i = x
      <3>1. w.val \in Content /\ e.contents[x] = w.val /\ e.inodes[x] = d.inodes[x]
        BY <2>4 DEF Written, Write
      <3>2. e.contents[x] # Missing
        BY <3>1 DEF Content, Missing
      <3> QED BY <1>r, <2>0, <2>4, <3>1, <3>2
    <2>5. CASE ~(w.to \in {"inode", "rm_inode", "content", "rm_content"} /\ w.i = x)
      <3>1. e.inodes[x] = d.inodes[x] /\ e.contents[x] = d.contents[x]
        BY <2>5 DEF Written
      <3> QED BY <1>r, <2>0, <2>5, <3>1
    <2> QED BY <2>1, <2>2, <2>3, <2>4, <2>5
  <1>2. ASSUME NEW x \in Inodes, ~Exists(x)
        PROVE  /\ Made(ws, l + 1, x) => e.inodes[x] # Missing
               /\ Filled(ws, l + 1, x) => e.contents[x] # Missing /\ Made(ws, l + 1, x)
               /\ e.contents[x] # contents[x] => Filled(ws, l + 1, x)
    <2>0. /\ Made(ws, l, x) => d.inodes[x] # Missing
          /\ Filled(ws, l, x) => d.contents[x] # Missing /\ Made(ws, l, x)
          /\ d.contents[x] # contents[x] => Filled(ws, l, x)
      BY <1>2 DEF History
    <2>1. ~(w.to \in {"rm_inode", "rm_content"} /\ w.i = x)
      BY <1>0, <1>2 DEF ValidAt, Removable
    <2>2. CASE w.to = "inode" /\ w.i = x
      <3>1. w.val \in Attributes /\ e.inodes[x] = w.val /\ e.contents[x] = d.contents[x]
        BY <2>2 DEF Written, Write
      <3>2. e.inodes[x] # Missing
        BY <3>1 DEF Attributes, Missing
      <3> QED BY <1>r, <2>0, <2>2, <3>1, <3>2
    <2>3. CASE w.to = "content" /\ w.i = x
      <3>1. w.val \in Content /\ e.contents[x] = w.val /\ e.inodes[x] = d.inodes[x]
        BY <2>3 DEF Written, Write
      <3>2. e.contents[x] # Missing
        BY <3>1 DEF Content, Missing
      <3>3. Made(ws, l, x)
        <4>1. \E r \in 1 .. (l + 1) - 1 : ws[r].to = "inode" /\ ws[r].i = x
          BY <1>0, <1>2, <2>3 DEF ValidAt, ValidContent
        <4>2. (l + 1) - 1 = l
          OBVIOUS
        <4> QED BY <4>1, <4>2 DEF Made
      <3> QED BY <1>r, <2>0, <2>3, <3>1, <3>2, <3>3
    <2>4. CASE ~(w.to \in {"inode", "content"} /\ w.i = x)
      <3>1. e.inodes[x] = d.inodes[x] /\ e.contents[x] = d.contents[x]
        BY <2>1, <2>4 DEF Written
      <3> QED BY <1>r, <2>0, <2>4, <3>1
    <2> QED BY <2>2, <2>3, <2>4
  <1>3. ASSUME NEW p \in Inodes, NEW m \in Names, EntryIn(e, p, m) \in is
        PROVE  Entry(p, m) = EntryIn(e, p, m) \/ MayName(is, k, ws, (l + 1) + 1, EntryIn(e, p, m))
    <2> DEFINE x == EntryIn(e, p, m)
    <2>i. is \subseteq Inodes
      BY DEF Valid
    <2>z. \A y \in Inodes : y # NoEntry
      BY Constants DEF Inodes, NoEntry
    <2>0. x \in Inodes /\ x # NoEntry
      BY <1>3, <2>i, <2>z
    <2>m. MayName(is, k, ws, l + 1, x) => MayName(is, k, ws, (l + 1) + 1, x)
      <3>1. 1 .. (l + 1) - 1 \subseteq 1 .. ((l + 1) + 1) - 1
        OBVIOUS
      <3> QED BY <3>1 DEF MayName
    <2>1. CASE w.to = "content" /\ w.i = p
      <3>1. e.contents[p] = w.val /\ ValidContent(is, k, ws, l + 1)
        BY <1>0, <2>1 DEF Written, ValidAt
      <3>2. w.val.kind = "Directory" /\ x = w.val.entries[m]
        BY <2>0, <3>1 DEF EntryIn
      <3>3. MayName(is, k, ws, l + 1, x)
        BY <1>3, <3>1, <3>2 DEF ValidContent
      <3> QED BY <2>m, <3>3
    <2>2. ~(w.to = "rm_content" /\ w.i = p)
      BY <2>0 DEF Written, EntryIn, Missing
    <2>3. CASE ~(w.to = "content" /\ w.i = p)
      <3>1. e.contents[p] = d.contents[p]
        BY <2>2, <2>3 DEF Written
      <3>2. EntryIn(d, p, m) = x
        BY <3>1 DEF EntryIn
      <3>3. Entry(p, m) = x \/ MayName(is, k, ws, l + 1, x)
        BY <1>3, <3>2 DEF History
      <3> QED BY <2>m, <3>3
    <2> QED BY <2>1, <2>3
  <1> QED BY <1>1, <1>2, <1>3 DEF History

LEMMA PrefixHistory ==
  ASSUME NEW is, NEW k, NEW ws, NEW n, Prefix(is, k, ws, n)
  PROVE  \A l \in 0 .. n : History(is, k, ws, l, After(ws, l))
  <1>0. n \in Nat /\ Valid(is, k, ws)
    BY PrefixWrites DEF Prefix
  <1> DEFINE S == {l \in Nat : l <= n => History(is, k, ws, l, After(ws, l))}
  <1>1. 0 \in S
    <2>1. \A x : ~Removed(ws, 0, x) /\ ~Made(ws, 0, x) /\ ~Filled(ws, 0, x)
      BY DEF Removed, Made, Filled
    <2>2. Before.inodes = inodes /\ Before.contents = contents
      BY DEF Before
    <2>3. \A p, m : EntryIn(Before, p, m) = Entry(p, m)
      BY <2>2 DEF EntryIn, Entry, Entries
    <2>4. History(is, k, ws, 0, Before)
      BY <2>1, <2>2, <2>3 DEF History, Exists, HasContent
    <2> QED BY <2>4, AfterStep
  <1>2. ASSUME NEW l \in Nat, l \in S PROVE l + 1 \in S
    <2> SUFFICES ASSUME l + 1 <= n PROVE History(is, k, ws, l + 1, After(ws, l + 1))
      OBVIOUS
    <2>1. l + 1 \in 1 .. n /\ (l + 1) - 1 = l /\ l \in 0 .. n
      BY <1>0
    <2>2. /\ l + 1 \in 1 .. Len(ws) /\ Write(ws[l + 1])
          /\ Written(After(ws, l), ws[l + 1], After(ws, l + 1)) /\ After(ws, l) \in Stores
      BY <2>1, PrefixWrites
    <2> QED BY <1>0, <1>2, <2>1, <2>2, HistoryStep
  <1> HIDE DEF S
  <1>3. \A l \in Nat : l \in S
    BY <1>1, <1>2, Induction
  <1> QED BY <1>0, <1>3 DEF S

(* Wherever a handler stops, the store is in order.                        *)
LEMMA PrefixInv ==
  ASSUME NEW is, NEW k, NEW ws, NEW n, Prefix(is, k, ws, n)
  PROVE  StoreInv(After(ws, n))
  <1> DEFINE d == After(ws, n)
  <1>0. /\ n \in 0 .. n /\ StoreInv(Before) /\ Valid(is, k, ws) /\ is \subseteq Inodes
        /\ FUSE_ROOT_ID \in Inodes
    BY PrefixWrites, Constants DEF Prefix, Valid
  <1>1. d \in Stores
    BY <1>0, PrefixWrites
  <1>2. d.superblock = Bound(ws, n) /\ Bound(ws, n) \in 1 .. limit.inodes
    BY <1>0, PrefixSuperblock
  <1>3. Shape(k, Bound(ws, n), d) /\ OthersKept(is, d) /\ History(is, k, ws, n, d)
    BY <1>0, PrefixShape, PrefixOthers, PrefixHistory
  <1>4. Unused(d)
    BY <1>2, <1>3 DEF Unused, Shape
  <1>5. KindsAgree(d)
    <2>1. ASSUME NEW i \in Inodes, d.inodes[i] # Missing, d.contents[i] # Missing
          PROVE  d.contents[i].kind = "Directory" <=> d.inodes[i].kind = "Directory"
      BY <1>3, <2>1 DEF Shape
    <2>2. ASSUME d.inodes[FUSE_ROOT_ID] # Missing
          PROVE  d.inodes[FUSE_ROOT_ID].kind = "Directory"
      <3>1. d.inodes[FUSE_ROOT_ID].kind = Kind(k, FUSE_ROOT_ID)
        BY <1>0, <1>3, <2>2 DEF Shape
      <3>2. CASE Exists(FUSE_ROOT_ID)
        BY <1>0, <3>1, <3>2 DEF Kind, StoreInv, KindsAgree, Before, Exists
      <3>3. CASE ~Exists(FUSE_ROOT_ID)
        <4>1. FUSE_ROOT_ID \in is
          BY <1>0, <1>3, <2>2, <3>3 DEF OthersKept, Exists
        <4> QED BY <1>0, <3>1, <3>3, <4>1 DEF Valid, Kind
      <3> QED BY <3>2, <3>3
    <2>3. ASSUME d.inodes[FUSE_ROOT_ID] = Missing
          PROVE  d.contents[FUSE_ROOT_ID] = Missing
      <3>1. CASE Exists(FUSE_ROOT_ID)
        <4>1. Removed(ws, n, FUSE_ROOT_ID)
          BY <1>0, <1>3, <2>3, <3>1 DEF History
        <4>2. PICK r \in 1 .. n : ws[r].to = "rm_inode" /\ ws[r].i = FUSE_ROOT_ID
          BY <4>1 DEF Removed
        <4>3. ValidAt(is, k, ws, r)
          BY PrefixWrites
        <4> QED BY <4>2, <4>3 DEF ValidAt, Removable
      <3>2. CASE ~Exists(FUSE_ROOT_ID)
        <4>1. contents[FUSE_ROOT_ID] = Missing
          BY <1>0, <3>2 DEF StoreInv, KindsAgree, Before, Exists
        <4>2. ~Made(ws, n, FUSE_ROOT_ID)
          BY <1>0, <1>3, <2>3, <3>2 DEF History
        <4> QED BY <1>0, <1>3, <3>2, <4>1, <4>2 DEF History
      <3> QED BY <3>1, <3>2
    <2> QED BY <2>1, <2>2, <2>3 DEF KindsAgree
  <1>6. NamesLead(d)
    <2> SUFFICES ASSUME NEW p \in Inodes, NEW m \in Names
                 PROVE  /\ EntryIn(d, p, m) # p /\ EntryIn(d, p, m) # FUSE_ROOT_ID
                        /\ EntryIn(d, p, m) \in Inodes => ~Bare(d, EntryIn(d, p, m))
      BY DEF NamesLead
    <2>1. EntryIn(d, p, m) # p /\ EntryIn(d, p, m) # FUSE_ROOT_ID
      BY <1>3 DEF Shape
    <2> SUFFICES ASSUME NEW x \in Inodes, x = EntryIn(d, p, m), Bare(d, x) PROVE FALSE
      BY <2>1
    <2>2. Entry(p, m) = x => ~Bare(Before, x)
      <3>1. EntryIn(Before, p, m) = Entry(p, m)
        BY DEF EntryIn, Entry, Entries, Before
      <3> QED BY <1>0, <3>1 DEF StoreInv, NamesLead
    <2>3. CASE x \notin is
      <3>1. Entry(p, m) = x /\ d.inodes[x] = inodes[x] /\ (d.contents[x] = Missing => contents[x] = Missing)
        BY <1>3, <2>3 DEF OthersKept
      <3> QED BY <2>2, <3>1 DEF Bare, Before
    <2>4. CASE x \in is
      <3>1. d.inodes[x].kind = Kind(k, x)
        BY <1>3 DEF Bare, Shape
      <3>2. Entry(p, m) = x \/ MayName(is, k, ws, n + 1, x)
        BY <1>3, <2>4 DEF History
      <3>3. CASE Exists(x)
        <4>1. ~HasContent(x)
          BY <1>3, <3>3 DEF History, Bare
        <4>2. inodes[x].kind # "Symlink"
          BY <3>1, <3>3 DEF Kind, Bare
        <4>3. Bare(Before, x)
          BY <3>3, <4>1, <4>2 DEF Bare, Before, Exists, HasContent
        <4> QED BY <2>2, <3>2, <3>3, <4>1, <4>2, <4>3 DEF MayName
      <3>4. CASE ~Exists(x)
        <4>1. Entry(p, m) # x
          BY <1>0, <2>4, <3>4 DEF Valid
        <4>2. k # "Symlink"
          BY <3>1, <3>4 DEF Kind, Bare
        <4>3. \E l \in 1 .. (n + 1) - 1 : ws[l].to = "content" /\ ws[l].i = x
          BY <3>2, <3>4, <4>1, <4>2 DEF MayName
        <4>4. (n + 1) - 1 = n
          BY PrefixWrites
        <4>5. Filled(ws, n, x)
          BY <4>3, <4>4 DEF Filled
        <4> QED BY <1>3, <3>4, <4>5 DEF History, Bare
      <3> QED BY <3>3, <3>4
    <2> QED BY <2>3, <2>4
  <1> QED BY <1>1, <1>4, <1>5, <1>6 DEF StoreInv

-----------------------------------------------------------------------------
(***************************************************************************)
(* The inductive invariant: the store is in order, open inodes are kept    *)
(* and counted, and what no request was cut short on is exact.             *)
(***************************************************************************)
PlacesIn(d, i) ==
  {pm \in Inodes \X Names : d.inodes[pm[1]] # Missing /\ EntryIn(d, pm[1], pm[2]) = i}
LinksExactIn(d, i) ==
  IF d.inodes[i] = Missing THEN PlacesIn(d, i) = {} /\ d.contents[i] = Missing
  ELSE /\ d.contents[i] # Missing
       /\ d.inodes[i].hardlinks = 0 => d.inodes[i].open_file_handles > 0
       /\ IF d.inodes[i].kind = "Directory"
            THEN \/ d.inodes[i].hardlinks = 0 /\ PlacesIn(d, i) = {}
                 \/ /\ d.inodes[i].hardlinks = 2
                    /\ \E pm \in PlacesIn(d, i) :
                         PlacesIn(d, i) = {pm} /\ EntryIn(d, i, "..") = pm[1]
            ELSE d.inodes[i].hardlinks = Cardinality(PlacesIn(d, i))
SizeExactIn(d, i) ==
  d.inodes[i] # Missing /\ d.inodes[i].kind = "File" =>
    d.contents[i] = Data(d.inodes[i].size)
ExactBut(ms, d, i) ==
  /\ i \notin ms => SizeExactIn(d, i)
  /\ IF i = FUSE_ROOT_ID THEN d.inodes[i] # Missing => d.contents[i] # Missing
     ELSE LinksExactIn(d, i)
Exact(d, i) == ExactBut(missized, d, i)

OpenKept(d) ==
  \A i \in Inodes : d.handles[i] > 0 =>
    /\ d.inodes[i] # Missing
    /\ d.contents[i] # Missing \/ i = FUSE_ROOT_ID
    /\ d.inodes[i].open_file_handles >= d.handles[i]

(* What a crash tore is damaged, with the names in a torn directory, and   *)
(* nobody has it open.                                                     *)
TornInv ==
  /\ \A i \in Inodes :
       /\ TornInode(i) => i \in damaged /\ i <= superblock /\ handles[i] = 0
       /\ TornContent(i) =>
            /\ i \in damaged /\ i <= superblock /\ contents[i].kind # "Data"
            /\ \A m \in Names : Entry(i, m) \in damaged \cup {NoEntry}
  /\ TornSuperblock => Superblock \in damaged
  /\ TornContent(FUSE_ROOT_ID) => Exists(FUSE_ROOT_ID)
  /\ session = "up" => ~TornInode(FUSE_ROOT_ID)

Inv ==
  /\ limit \in Limits
  /\ StoreInv(Before)
  /\ OpenKept(Before)
  /\ session = "down" => \A i \in Inodes : handles[i] = 0
  /\ \A i \in Inodes \ damaged : Exact(Before, i)
  /\ TornInv

(* A handler leaves the inodes exact that it is not about.                 *)
LEMMA PrefixExact ==
  ASSUME NEW is, NEW k, NEW ws, NEW n, Prefix(is, k, ws, n),
         NEW j \in Inodes \ is, j \notin damaged, Exact(Before, j)
  PROVE  Exact(After(ws, n), j)
  <1> DEFINE d == After(ws, n)
  <1>1. OthersKept(is, d)
    <2>1. n \in 0 .. n
      BY PrefixWrites
    <2> QED BY <2>1, PrefixOthers
  <1>2. j # NoEntry
    BY Constants DEF Inodes, NoEntry
  <1>3. Before.inodes = inodes /\ Before.contents = contents
    BY DEF Before
  <1>4. \A p, m : EntryIn(Before, p, m) = Entry(p, m)
    BY <1>3 DEF EntryIn, Entry, Entries
  <1>5. PlacesIn(d, j) = PlacesIn(Before, j)
    <2>1. ASSUME NEW pm \in Inodes \X Names
          PROVE  d.inodes[pm[1]] # Missing /\ EntryIn(d, pm[1], pm[2]) = j <=>
                 Before.inodes[pm[1]] # Missing /\ EntryIn(Before, pm[1], pm[2]) = j
      <3>1. pm[1] \in Inodes /\ pm[2] \in Names
        OBVIOUS
      <3>2. EntryIn(d, pm[1], pm[2]) = j <=> Entry(pm[1], pm[2]) = j
        BY <1>1, <3>1 DEF OthersKept
      <3>3. Entry(pm[1], pm[2]) = j => (d.inodes[pm[1]] = Missing <=> inodes[pm[1]] = Missing)
        BY <1>1, <1>2, <3>1 DEF OthersKept
      <3> QED BY <1>3, <1>4, <3>2, <3>3
    <2> QED BY <2>1 DEF PlacesIn
  <1>6. d.inodes[j] = Before.inodes[j]
    BY <1>1, <1>3 DEF OthersKept
  <1>7. \/ d.contents[j] = Before.contents[j]
        \/ /\ Before.inodes[j].kind = "Directory"
           /\ Before.contents[j] # Missing /\ d.contents[j] # Missing
           /\ EntryIn(d, j, "..") = EntryIn(Before, j, "..")
    BY <1>1, <1>3, <1>4 DEF OthersKept, IsDir, HasContent
  <1>8. d.contents[j] = Missing <=> Before.contents[j] = Missing
    BY <1>7
  <1>9. EntryIn(d, j, "..") = EntryIn(Before, j, "..")
    BY <1>7 DEF EntryIn
  <1>10. SizeExactIn(Before, j) => SizeExactIn(d, j)
    BY <1>6, <1>7 DEF SizeExactIn
  <1>11. LinksExactIn(Before, j) => LinksExactIn(d, j)
    BY <1>5, <1>6, <1>8, <1>9 DEF LinksExactIn
  <1> QED BY <1>6, <1>8, <1>10, <1>11 DEF Exact, ExactBut

(* Torn files are written neither again nor by accident: a handler writes  *)
(* no torn directory, and opens no torn inode.                             *)
Untorn(ws) ==
  \A l \in 1 .. Len(ws) :
    /\ ws[l].to = "content" => ~TornContent(ws[l].i)
    /\ ws[l].to = "handle" => ~TornInode(ws[l].i)

LEMMA PrefixTorn ==
  ASSUME NEW is, NEW k, NEW ws, NEW n, Prefix(is, k, ws, n), Untorn(ws), NEW i \in Inodes
  PROVE  /\ TornContent(i) => \A l \in 0 .. n : After(ws, l).contents[i] \in {contents[i], Missing}
         /\ TornInode(i) => \A l \in 0 .. n : After(ws, l).handles[i] = handles[i]
  <1> DEFINE S == {l \in Nat : l <= n =>
                     /\ TornContent(i) => After(ws, l).contents[i] \in {contents[i], Missing}
                     /\ TornInode(i) => After(ws, l).handles[i] = handles[i]}
  <1>0. n \in Nat /\ After(ws, 0) = Before
    BY PrefixWrites, AfterStep
  <1>1. 0 \in S
    BY <1>0 DEF Before
  <1>2. ASSUME NEW l \in Nat, l \in S PROVE l + 1 \in S
    <2> SUFFICES ASSUME l + 1 <= n
                 PROVE  /\ TornContent(i) => After(ws, l + 1).contents[i] \in {contents[i], Missing}
                        /\ TornInode(i) => After(ws, l + 1).handles[i] = handles[i]
      OBVIOUS
    <2>1. l + 1 \in 1 .. n /\ (l + 1) - 1 = l /\ l \in 0 .. n
      BY <1>0
    <2>2. /\ l + 1 \in 1 .. Len(ws) /\ After(ws, l) \in Stores
          /\ Written(After(ws, l), ws[l + 1], After(ws, l + 1))
      BY <2>1, PrefixWrites
    <2>3. /\ ws[l + 1].to = "content" => ~TornContent(ws[l + 1].i)
          /\ ws[l + 1].to = "handle" => ~TornInode(ws[l + 1].i)
      BY <2>2 DEF Untorn
    <2>4. /\ TornContent(i) => After(ws, l).contents[i] \in {contents[i], Missing}
          /\ TornInode(i) => After(ws, l).handles[i] = handles[i]
      BY <1>2, <2>1
    <2>5. ASSUME TornContent(i)
          PROVE  After(ws, l + 1).contents[i] \in {contents[i], Missing}
      <3>1. ~(ws[l + 1].to = "content" /\ ws[l + 1].i = i)
        BY <2>3, <2>5
      <3>2. After(ws, l + 1).contents[i] \in {After(ws, l).contents[i], Missing}
        BY <2>2, <3>1 DEF Written
      <3> QED BY <2>4, <2>5, <3>2
    <2>6. ASSUME TornInode(i)
          PROVE  After(ws, l + 1).handles[i] = handles[i]
      <3>1. ~(ws[l + 1].to = "handle" /\ ws[l + 1].i = i)
        BY <2>3, <2>6
      <3>2. After(ws, l).handles[i] \in Nat
        BY <2>2 DEF Stores
      <3>3. After(ws, l + 1).handles[i] = After(ws, l).handles[i]
        BY <2>2, <3>1, <3>2 DEF Written
      <3> QED BY <2>4, <2>6, <3>3
    <2> QED BY <2>5, <2>6
  <1> HIDE DEF S
  <1>3. \A l \in Nat : l \in S
    BY <1>1, <1>2, Induction
  <1>4. ASSUME NEW l \in 0 .. n PROVE l \in Nat /\ l <= n /\ l \in S
    BY <1>0, <1>3
  <1> QED BY <1>4 DEF S

(* The root stays.                                                         *)
LEMMA PrefixRoot ==
  ASSUME NEW is, NEW k, NEW ws, NEW n, Prefix(is, k, ws, n), Exists(FUSE_ROOT_ID)
  PROVE  After(ws, n).inodes[FUSE_ROOT_ID] # Missing
  <1>1. n \in 0 .. n /\ \A l \in 1 .. n : l \in 1 .. Len(ws)
    BY PrefixWrites
  <1>2. ~Removed(ws, n, FUSE_ROOT_ID)
    BY <1>1 DEF Removed, Prefix, Valid, ValidAt, Removable
  <1> QED BY <1>1, <1>2, PrefixHistory, Constants DEF History

(* A handler that panics for certain is studied by the writes v that it    *)
(* makes before.                                                           *)
Cut(ws, v) ==
  /\ Len(ws) \in Nat /\ DOMAIN ws = 1 .. Len(ws)
  /\ \E r \in 1 .. Len(ws) :
       /\ r - 1 <= Len(v)
       /\ \A l \in 1 .. r - 1 : ws[l] = v[l]
       /\ ws[r].to = "panic" /\ ws[r].i \in damaged
Follows(ws, v) == ws = v \/ Cut(ws, v)

LEMMA AfterAgree ==
  ASSUME NEW ws, NEW v, NEW n \in Nat, \A l \in 1 .. n : ws[l] = v[l]
  PROVE  \A l \in 0 .. n : After(ws, l) = After(v, l)
  <1> DEFINE S == {l \in Nat : l <= n => After(ws, l) = After(v, l)}
  <1>1. 0 \in S
    BY AfterStep
  <1>2. ASSUME NEW l \in Nat, l \in S PROVE l + 1 \in S
    <2> SUFFICES ASSUME l + 1 <= n PROVE After(ws, l + 1) = After(v, l + 1)
      OBVIOUS
    <2>1. l + 1 \in 1 .. n
      OBVIOUS
    <2>2. ws[l + 1] = v[l + 1] /\ After(ws, l) = After(v, l)
      BY <1>2, <2>1
    <2> QED BY <2>2, AfterStep
  <1> HIDE DEF S
  <1>3. \A l \in Nat : l \in S
    BY <1>1, <1>2, Induction
  <1> QED BY <1>3 DEF S

LEMMA FollowsUpTo ==
  ASSUME NEW is, NEW k, NEW ws, NEW v, Inv, Valid(is, k, v), Follows(ws, v)
  PROVE  /\ Len(ws) \in Nat /\ DOMAIN ws = 1 .. Len(ws)
         /\ \A n \in 0 .. Len(ws) : PanicAt(ws) \cap 1 .. n = {} =>
              /\ n \in 0 .. Len(v) /\ Prefix(is, k, v, n)
              /\ \A l \in 1 .. n : ws[l] = v[l]
              /\ \A l \in 0 .. n : After(ws, l) = After(v, l)
         /\ \A n \in 1 .. Len(ws) : n \in PanicAt(ws) /\ PanicAt(ws) \cap 1 .. n - 1 = {} =>
              ws[n].i \in damaged \/ (n \in PanicAt(v) /\ v[n] = ws[n])
  <1>v. Len(v) \in Nat /\ DOMAIN v = 1 .. Len(v)
    BY DEF Valid
  <1>0. Len(ws) \in Nat /\ DOMAIN ws = 1 .. Len(ws)
    BY <1>v DEF Follows, Cut
  <1>s. ASSUME NEW n \in 0 .. Len(ws), PanicAt(ws) \cap 1 .. n = {}
        PROVE  n \in 0 .. Len(v) /\ \A l \in 1 .. n : ws[l] = v[l]
    <2>1. CASE ws = v
      BY <1>v, <2>1
    <2>2. CASE Cut(ws, v)
      <3>1. PICK r \in 1 .. Len(ws) :
              /\ r - 1 <= Len(v) /\ ws[r].to = "panic"
              /\ \A l \in 1 .. r - 1 : ws[l] = v[l]
        BY <2>2 DEF Cut
      <3>2. r \in PanicAt(ws)
        BY <1>0, <3>1 DEF PanicAt, Panics
      <3>3. ~(r <= n)
        BY <1>0, <1>s, <3>2
      <3>4. n <= r - 1 /\ \A l \in 1 .. n : l \in 1 .. r - 1
        BY <1>0, <3>3
      <3> QED BY <1>0, <1>v, <3>1, <3>4
    <2> QED BY <2>1, <2>2 DEF Follows
  <1>1. ASSUME NEW n \in 0 .. Len(ws), PanicAt(ws) \cap 1 .. n = {}
        PROVE  /\ n \in 0 .. Len(v) /\ Prefix(is, k, v, n)
               /\ \A l \in 1 .. n : ws[l] = v[l]
               /\ \A l \in 0 .. n : After(ws, l) = After(v, l)
    <2>1. n \in Nat /\ n \in 0 .. Len(v) /\ \A l \in 1 .. n : ws[l] = v[l]
      BY <1>0, <1>1, <1>s
    <2>2. ASSUME NEW l \in 1 .. n PROVE v[l].to # "panic"
      <3>1. l \in DOMAIN ws /\ l \notin PanicAt(ws) /\ ws[l] = v[l]
        BY <1>0, <1>1, <2>1
      <3> QED BY <3>1 DEF PanicAt, Panics
    <2>3. Prefix(is, k, v, n)
      BY <2>1, <2>2 DEF Prefix, NoPanic, Inv
    <2> QED BY <2>1, <2>3, AfterAgree
  <1>2. ASSUME NEW n \in 1 .. Len(ws), n \in PanicAt(ws), PanicAt(ws) \cap 1 .. n - 1 = {}
        PROVE  ws[n].i \in damaged \/ (n \in PanicAt(v) /\ v[n] = ws[n])
    <2>0. n - 1 \in 0 .. Len(ws) /\ n - 1 \in 0 .. n - 1
      BY <1>0
    <2>1. After(ws, n - 1) = After(v, n - 1)
      BY <1>1, <1>2, <2>0
    <2>2. CASE ws = v
      BY <1>2, <2>2
    <2>3. CASE Cut(ws, v)
      <3>1. PICK r \in 1 .. Len(ws) :
              /\ r - 1 <= Len(v) /\ ws[r].to = "panic" /\ ws[r].i \in damaged
              /\ \A l \in 1 .. r - 1 : ws[l] = v[l]
        BY <2>3 DEF Cut
      <3>2. r \in PanicAt(ws)
        BY <1>0, <3>1 DEF PanicAt, Panics
      <3>3. n <= r
        BY <1>0, <1>2, <3>2
      <3>4. CASE n = r
        BY <3>1, <3>4
      <3>5. CASE n # r
        <4>1. n \in 1 .. r - 1 /\ n \in 1 .. Len(v)
          BY <1>0, <1>v, <3>1, <3>3, <3>5
        <4>2. ws[n] = v[n] /\ n \in DOMAIN v
          BY <1>v, <3>1, <4>1
        <4>3. Panics(After(ws, n - 1), ws[n])
          BY <1>2 DEF PanicAt
        <4> QED BY <2>1, <4>2, <4>3 DEF PanicAt
      <3> QED BY <3>4, <3>5
    <2> QED BY <2>2, <2>3 DEF Follows
  <1> QED BY <1>0, <1>1, <1>2

(* Where a handler panics first.                                           *)
LEMMA FirstPanic ==
  ASSUME NEW ws, Len(ws) \in Nat, DOMAIN ws = 1 .. Len(ws), PanicAt(ws) # {}
  PROVE  /\ Min(PanicAt(ws)) \in 1 .. Len(ws) /\ Min(PanicAt(ws)) \in PanicAt(ws)
         /\ PanicAt(ws) \cap 1 .. Min(PanicAt(ws)) - 1 = {}
  <1> DEFINE S == PanicAt(ws)
  <1>1. S # {} /\ S \subseteq 1 .. Len(ws)
    BY DEF PanicAt
  <1>2. \E x \in S : \A y \in S : x <= y
    <2> SUFFICES ASSUME \A x \in S : \E y \in S : ~(x <= y) PROVE FALSE
      OBVIOUS
    <2> DEFINE T == {m \in Nat : \A y \in S : ~(y <= m)}
    <2>1. 0 \in T
      BY <1>1
    <2>2. ASSUME NEW m \in Nat, m \in T PROVE m + 1 \in T
      <3> SUFFICES ASSUME NEW y \in S, y <= m + 1 PROVE FALSE
        OBVIOUS
      <3>1. y \in Nat /\ ~(y <= m)
        BY <1>1, <2>2
      <3>2. PICK z \in S : ~(y <= z)
        OBVIOUS
      <3>3. z \in Nat /\ ~(z <= m)
        BY <1>1, <2>2
      <3> QED BY <3>1, <3>2, <3>3
    <2> HIDE DEF T
    <2>3. \A m \in Nat : m \in T
      BY <2>1, <2>2, Induction
    <2>4. PICK x \in S : TRUE
      BY <1>1
    <2>5. x \in Nat
      BY <1>1
    <2> QED BY <2>3, <2>5 DEF T
  <1>3. Min(S) \in S /\ \A y \in S : Min(S) <= y
    BY <1>2 DEF Min
  <1> HIDE DEF S
  <1>4. Min(S) \in 1 .. Len(ws)
    BY <1>1, <1>3
  <1>5. S \cap 1 .. Min(S) - 1 = {}
    BY <1>3, <1>4
  <1> QED BY <1>3, <1>4, <1>5 DEF S

(* Where a handler is cut short: between two writes, or in one.            *)
Between(is, k, v) ==
  /\ \E n \in 0 .. Len(v) : Prefix(is, k, v, n) /\ Store(After(v, n))
  /\ damaged' = damaged \cup is /\ torn' = torn
Within(is, k, v) ==
  \E n \in 1 .. Len(v) :
    /\ Prefix(is, k, v, n) /\ Store(After(v, n - 1)) /\ Serialized(v[n])
    /\ damaged' = damaged \cup is \cup Lost(After(v, n - 1), v[n])
    /\ torn' = torn \cup {FileOf(v[n])}

LEMMA Stops ==
  ASSUME NEW is, NEW k, NEW ws, NEW v, Inv, Valid(is, k, v), Follows(ws, v), CutShort(is, ws)
  PROVE  /\ Between(is, k, v) \/ Within(is, k, v)
         /\ session' = "down" /\ handles' = [i \in Inodes |-> 0] /\ missized' = missized
         /\ (\A n \in PanicAt(v) : v[n].i \in damaged) => panicked' \subseteq damaged
  <1>0. /\ Len(ws) \in Nat /\ DOMAIN ws = 1 .. Len(ws)
        /\ Len(v) \in Nat /\ DOMAIN v = 1 .. Len(v)
    BY FollowsUpTo DEF Valid
  <1>1. CASE HandlerPanics(is, ws)
    <2> DEFINE n == Min(PanicAt(ws))
    <2>1. n \in 1 .. Len(ws) /\ n \in PanicAt(ws) /\ PanicAt(ws) \cap 1 .. n - 1 = {}
      BY <1>0, <1>1, FirstPanic DEF HandlerPanics
    <2>2. Store(After(ws, n - 1)) /\ panicked' = {ws[n].i}
      BY <1>1 DEF HandlerPanics
    <2> HIDE DEF n
    <2>3. n - 1 \in 0 .. Len(ws) /\ n - 1 \in 0 .. n - 1
      BY <1>0, <2>1
    <2>4. n - 1 \in 0 .. Len(v) /\ Prefix(is, k, v, n - 1) /\ After(ws, n - 1) = After(v, n - 1)
      BY <2>1, <2>3, FollowsUpTo
    <2>5. ws[n].i \in damaged \/ (n \in PanicAt(v) /\ v[n] = ws[n])
      BY <2>1, FollowsUpTo
    <2>6. (\A l \in PanicAt(v) : v[l].i \in damaged) => panicked' \subseteq damaged
      BY <2>2, <2>5
    <2>7. Between(is, k, v)
      BY <1>1, <2>2, <2>4 DEF Between, HandlerPanics
    <2> QED BY <1>1, <2>6, <2>7 DEF HandlerPanics, Down, CutShort
  <1>2. CASE Killed(is, ws)
    <2>1. PICK n \in 1 .. Len(ws) - 1 : PanicAt(ws) \cap 1 .. n = {} /\ Store(After(ws, n))
      BY <1>2 DEF Killed
    <2>2. n \in 0 .. Len(ws) /\ n \in 0 .. n
      BY <1>0
    <2>3. n \in 0 .. Len(v) /\ Prefix(is, k, v, n) /\ After(ws, n) = After(v, n)
      BY <2>1, <2>2, FollowsUpTo
    <2>4. Between(is, k, v)
      BY <1>2, <2>1, <2>3 DEF Between, Killed
    <2> QED BY <1>2, <2>4 DEF Killed, Down, CutShort
  <1>3. CASE Tears(is, ws)
    <2>1. PICK n \in 1 .. Len(ws) :
            /\ PanicAt(ws) \cap 1 .. n = {} /\ Serialized(ws[n]) /\ Store(After(ws, n - 1))
            /\ torn' = torn \cup {FileOf(ws[n])}
            /\ damaged' = damaged \cup is \cup Lost(After(ws, n - 1), ws[n])
      BY <1>0, <1>3 DEF Tears
    <2>2. n \in 0 .. Len(ws) /\ n - 1 \in 0 .. n /\ n \in 1 .. n
      BY <1>0
    <2>3. /\ n \in 0 .. Len(v) /\ Prefix(is, k, v, n)
          /\ After(ws, n - 1) = After(v, n - 1) /\ ws[n] = v[n]
      BY <2>1, <2>2, FollowsUpTo
    <2>4. n \in 1 .. Len(v)
      BY <1>0, <2>1, <2>3
    <2>5. Within(is, k, v)
      BY <2>1, <2>3, <2>4 DEF Within
    <2> QED BY <1>3, <2>5 DEF Tears, Down, CutShort
  <1> QED BY <1>1, <1>2, <1>3 DEF CutShort

(* What remains to be shown of a handler: that all of its writes together  *)
(* leave the inodes exact that it is about, and open ones in place.        *)
FinishesBut(ms, is, ws) ==
  LET d == After(ws, Len(ws))
  IN  OpenKept(d) /\ \A x \in is \ damaged : ExactBut(ms, d, x)
Finishes(is, ws) ==
  LET d == After(ws, Len(ws))
  IN  OpenKept(d) /\ \A x \in is \ damaged : Exact(d, x)

(* StoreInv, Exact and OpenKept look at the fields of the store only.      *)
LEMMA SameStore ==
  ASSUME NEW d, Store(d), d \in Stores, limit' = limit, handles' \in [Inodes -> Nat],
         NEW ms, ms \subseteq missized'
  PROVE  /\ StoreInv(d) => StoreInv(Before)'
         /\ \A j : ExactBut(ms, d, j) => Exact(Before, j)'
         /\ handles' = d.handles /\ OpenKept(d) => OpenKept(Before)'
         /\ \A p, m : Entry(p, m)' = EntryIn(d, p, m)
  <1>1. /\ Before'.superblock = d.superblock /\ Before'.inodes = d.inodes
        /\ Before'.contents = d.contents /\ Before'.handles = handles'
    BY DEF Before, Store
  <1>2. \A p, m : EntryIn(Before', p, m) = EntryIn(d, p, m)
    BY <1>1 DEF EntryIn
  <1>3. \A j : PlacesIn(Before', j) = PlacesIn(d, j)
    BY <1>1, <1>2 DEF PlacesIn
  <1>4. ASSUME NEW j, ExactBut(ms, d, j) PROVE Exact(Before, j)'
    <2>1. SizeExactIn(d, j) => SizeExactIn(Before', j)
      BY <1>1 DEF SizeExactIn
    <2>2. LinksExactIn(d, j) => LinksExactIn(Before', j)
      BY <1>1, <1>2, <1>3 DEF LinksExactIn
    <2> QED BY <1>1, <1>4, <2>1, <2>2 DEF Exact, ExactBut
  <1>5. Unused(d) => Unused(Before)'
    BY <1>1, <1>2 DEF Unused
  <1>6. KindsAgree(d) => KindsAgree(Before')
    BY <1>1 DEF KindsAgree
  <1>7. NamesLead(d) => NamesLead(Before')
    BY <1>1, <1>2 DEF NamesLead, Bare
  <1>8. Before' \in Stores
    BY <1>1 DEF Stores, Before
  <1>9. handles' = d.handles /\ OpenKept(d) => OpenKept(Before')
    BY <1>1 DEF OpenKept
  <1>10. \A p, m : Entry(p, m)' = EntryIn(d, p, m)
    BY DEF Entry, EntryIn, Store
  <1> QED BY <1>4, <1>5, <1>6, <1>7, <1>8, <1>9, <1>10 DEF StoreInv

(* What is torn stays as it was or goes.                                   *)
LEMMA TornKept ==
  ASSUME NEW d \in Stores, Store(d), TornInv, superblock \in Nat, superblock <= d.superblock,
         damaged \subseteq damaged',
         \A i \in Inodes : TornContent(i) => d.contents[i] \in {contents[i], Missing},
         NEW i \in Inodes
  PROVE  /\ TornInode(i) => i \in damaged' /\ i <= superblock'
         /\ TornContent(i) =>
              /\ i \in damaged' /\ i <= superblock' /\ contents'[i].kind # "Data"
              /\ \A m \in Names : Entry(i, m)' \in damaged' \cup {NoEntry}
  <1>0. i \in Nat /\ d.superblock \in Nat /\ superblock' = d.superblock /\ contents' = d.contents
    BY Constants DEF Inodes, Stores, Store
  <1>1. TornInode(i) => i \in damaged' /\ i <= superblock'
    BY <1>0 DEF TornInv
  <1>2. ASSUME TornContent(i)
        PROVE  /\ i \in damaged' /\ i <= superblock' /\ contents'[i].kind # "Data"
               /\ \A m \in Names : Entry(i, m)' \in damaged' \cup {NoEntry}
    <2>1. /\ i \in damaged /\ i <= superblock /\ contents[i].kind # "Data"
          /\ \A m \in Names : Entry(i, m) \in damaged \cup {NoEntry}
      BY <1>2 DEF TornInv
    <2>2. contents'[i] \in {contents[i], Missing}
      BY <1>0, <1>2
    <2>3. CASE contents'[i] = contents[i]
      <3>1. \A m : Entry(i, m)' = Entry(i, m)
        BY <2>3 DEF Entry
      <3>2. \A m \in Names : Entry(i, m)' \in damaged' \cup {NoEntry}
        BY <2>1, <3>1
      <3>3. i <= superblock'
        BY <1>0, <2>1
      <3> QED BY <2>1, <2>3, <3>2, <3>3
    <2>4. CASE contents'[i] = Missing
      <3>1. \A m : Entry(i, m)' = NoEntry
        BY <2>4 DEF Entry, Missing
      <3> QED BY <1>0, <2>1, <2>4, <3>1 DEF Missing
    <2> QED BY <2>2, <2>3, <2>4
  <1> QED BY <1>1, <1>2

(* A handler keeps the invariant, and panics only on damage, if its writes *)
(* are valid, finish what they begin and panic only on damage.             *)
Safe(is, k, ws) ==
  /\ Valid(is, k, ws) /\ Untorn(ws)
  /\ \A n \in PanicAt(ws) : ws[n].i \in damaged
SoundBut(ms, is, k, ws) ==
  Safe(is, k, ws) /\ (PanicAt(ws) = {} => FinishesBut(ms, is, ws))
Sound(is, k, ws) ==
  Safe(is, k, ws) /\ (PanicAt(ws) = {} => Finishes(is, ws))
Fine == Inv' /\ (panicked' # {} => panicked' \cap damaged # {})

LEMMA PrefixGives ==
  ASSUME NEW is, NEW k, NEW ws, NEW n, Inv, Prefix(is, k, ws, n)
  PROVE  /\ After(ws, n) \in Stores /\ StoreInv(After(ws, n))
         /\ \A j \in Inodes \ (is \cup damaged) : Exact(After(ws, n), j)
         /\ superblock \in Nat /\ superblock <= After(ws, n).superblock
  <1>1. After(ws, n) \in Stores /\ StoreInv(After(ws, n))
    BY PrefixInv DEF StoreInv
  <1>2. ASSUME NEW j \in Inodes \ (is \cup damaged) PROVE Exact(After(ws, n), j)
    <2>1. Exact(Before, j) /\ j \in Inodes \ is
      BY DEF Inv
    <2> QED BY <2>1, PrefixExact
  <1>3. superblock \in Nat /\ n \in 0 .. n
    BY PrefixWrites DEF Inv, StoreInv, Stores, Before
  <1>4. After(ws, n).superblock = Bound(ws, n)
    BY <1>3, PrefixSuperblock
  <1>5. superblock <= Bound(ws, n)
    BY <1>3 DEF Bound
  <1> QED BY <1>1, <1>2, <1>3, <1>4, <1>5

LEMMA DownStep ==
  ASSUME NEW is, NEW k, NEW ws, NEW v, Inv, Safe(is, k, v), Follows(ws, v),
         CutShort(is, ws), UNCHANGED limit
  PROVE  Fine
  <1>0. Valid(is, k, v) /\ Untorn(v) /\ Len(v) \in Nat
    BY DEF Safe, Valid
  <1>1. /\ Between(is, k, v) \/ Within(is, k, v)
        /\ session' = "down" /\ handles' = [i \in Inodes |-> 0] /\ missized' = missized
        /\ panicked' \subseteq damaged
    BY <1>0, Stops DEF Safe
  <1>2. panicked' # {} => panicked' \cap damaged # {}
    BY <1>1
  <1>3. ASSUME NEW n, Prefix(is, k, v, n), Store(After(v, n)), damaged \cup is \subseteq damaged'
        PROVE  /\ limit' \in Limits /\ StoreInv(Before)' /\ OpenKept(Before)'
               /\ (session = "down" => \A i \in Inodes : handles[i] = 0)'
               /\ \A j \in Inodes \ damaged' : Exact(Before, j)'
               /\ \A i \in Inodes :
                    /\ TornInode(i) => i \in damaged' /\ i <= superblock'
                    /\ TornContent(i) =>
                         /\ i \in damaged' /\ i <= superblock' /\ contents'[i].kind # "Data"
                         /\ \A m \in Names : Entry(i, m)' \in damaged' \cup {NoEntry}
               /\ \A p, m : Entry(p, m)' = EntryIn(After(v, n), p, m)
    <2> DEFINE d == After(v, n)
    <2>1. /\ d \in Stores /\ StoreInv(d) /\ superblock \in Nat /\ superblock <= d.superblock
          /\ \A j \in Inodes \ (is \cup damaged) : Exact(d, j)
      BY <1>3, PrefixGives
    <2>2. \A i \in Inodes : TornContent(i) => d.contents[i] \in {contents[i], Missing}
      <3>1. n \in 0 .. n
        BY <1>3, PrefixWrites
      <3> QED BY <1>0, <1>3, <3>1, PrefixTorn
    <2>3. Store(d) /\ handles' \in [Inodes -> Nat] /\ missized \subseteq missized'
      BY <1>1, <1>3
    <2> HIDE DEF d
    <2>4. /\ StoreInv(Before)' /\ \A j : ExactBut(missized, d, j) => Exact(Before, j)'
          /\ \A p, m : Entry(p, m)' = EntryIn(d, p, m)
      BY <2>1, <2>3, SameStore
    <2>5. \A j \in Inodes \ damaged' : Exact(Before, j)'
      BY <1>3, <2>1, <2>4 DEF Exact
    <2>6. OpenKept(Before)' /\ (session = "down" => \A i \in Inodes : handles[i] = 0)'
      BY <1>1 DEF OpenKept, Before
    <2>7. limit' \in Limits /\ TornInv
      BY DEF Inv
    <2>8. damaged \subseteq damaged'
      BY <1>3
    <2>9. ASSUME NEW i \in Inodes
          PROVE  /\ TornInode(i) => i \in damaged' /\ i <= superblock'
                 /\ TornContent(i) =>
                      /\ i \in damaged' /\ i <= superblock' /\ contents'[i].kind # "Data"
                      /\ \A m \in Names : Entry(i, m)' \in damaged' \cup {NoEntry}
      BY <2>1, <2>2, <2>3, <2>7, <2>8, TornKept
    <2> QED BY <2>4, <2>5, <2>6, <2>7, <2>9 DEF d
  <1>4. CASE Between(is, k, v)
    <2>1. PICK n \in 0 .. Len(v) : Prefix(is, k, v, n) /\ Store(After(v, n))
      BY <1>4 DEF Between
    <2>2. damaged \cup is \subseteq damaged' /\ torn' = torn /\ damaged \subseteq damaged'
      BY <1>4 DEF Between
    <2>3. TornInv'
      <3>1. \A i \in Inodes :
              /\ TornInode(i)' => i \in damaged' /\ i <= superblock' /\ handles'[i] = 0
              /\ TornContent(i)' =>
                   /\ i \in damaged' /\ i <= superblock' /\ contents'[i].kind # "Data"
                   /\ \A m \in Names : Entry(i, m)' \in damaged' \cup {NoEntry}
        BY <1>1, <1>3, <2>1, <2>2 DEF TornInode, TornContent
      <3>2. TornSuperblock' => Superblock \in damaged'
        BY <2>2 DEF TornSuperblock, Inv, TornInv
      <3>3. TornContent(FUSE_ROOT_ID)' => Exists(FUSE_ROOT_ID)'
        <4>1. TornContent(FUSE_ROOT_ID)' => Exists(FUSE_ROOT_ID)
          BY <2>2 DEF TornContent, Inv, TornInv, FUSE_ROOT_ID
        <4> QED BY <2>1, <4>1, PrefixRoot DEF Store, Exists, FUSE_ROOT_ID
      <3> QED BY <1>1, <3>1, <3>2, <3>3 DEF TornInv
    <2> QED BY <1>2, <1>3, <2>1, <2>2, <2>3 DEF Fine, Inv
  <1>5. CASE Within(is, k, v)
    <2>1. PICK n \in 1 .. Len(v) :
            /\ Prefix(is, k, v, n) /\ Store(After(v, n - 1)) /\ Serialized(v[n])
            /\ damaged' = damaged \cup is \cup Lost(After(v, n - 1), v[n])
            /\ torn' = torn \cup {FileOf(v[n])}
      BY <1>5 DEF Within
    <2> DEFINE d == After(v, n - 1)
               w == v[n]
    <2>2. /\ Prefix(is, k, v, n - 1) /\ n \in 1 .. n /\ n - 1 \in 0 .. n /\ n \in 0 .. n
          /\ n \in Nat /\ n - 1 \in 0 .. n - 1
      <3>1. n \in Nat /\ n - 1 \in 0 .. Len(v) /\ \A l \in 1 .. n - 1 : l \in 1 .. n
        BY <1>0
      <3> QED BY <2>1, <3>1 DEF Prefix, NoPanic
    <2>3. ValidAt(is, k, v, n) /\ Write(w) /\ d \in Stores
      BY <2>1, <2>2, PrefixWrites
    <2>4. damaged \cup is \subseteq damaged' /\ damaged \subseteq damaged'
      BY <2>1
    <2>5. superblock' = d.superblock /\ d.superblock = Bound(v, n - 1) /\ contents' = d.contents
      BY <2>1, <2>2, PrefixSuperblock DEF Store
    <2>6. w.to # "superblock" => w.i \in Inodes /\ w.i <= superblock' /\ FileOf(w) = <<w.to, w.i>>
      <3> SUFFICES ASSUME w.to # "superblock"
                   PROVE  w.i \in Inodes /\ w.i <= superblock' /\ FileOf(w) = <<w.to, w.i>>
        OBVIOUS
      <3>1. w.i \in Inodes /\ w.i <= Bound(v, n)
        BY <2>1, <2>3 DEF ValidAt, Serialized
      <3>2. Bound(v, n) = Bound(v, n - 1)
        <4>1. CASE n = 2
          BY <4>1 DEF Bound
        <4>2. CASE n # 2
          <5>1. n >= 2 <=> n - 1 >= 2
            BY <2>2, <4>2
          <5> QED BY <5>1 DEF Bound
        <4> QED BY <4>1, <4>2
      <3> QED BY <2>5, <3>1, <3>2 DEF FileOf
    <2>7. w.to = "content" =>
            /\ w.i \in damaged' /\ contents'[w.i].kind # "Data"
            /\ \A m \in Names : Entry(w.i, m)' \in damaged' \cup {NoEntry}
      <3> SUFFICES ASSUME w.to = "content"
                   PROVE  /\ w.i \in damaged' /\ contents'[w.i].kind # "Data"
                          /\ \A m \in Names : Entry(w.i, m)' \in damaged' \cup {NoEntry}
        OBVIOUS
      <3>0. w.i \in Inodes /\ FileOf(w) = <<w.to, w.i>>
        BY <2>6
      <3>1. w.val.kind = "Directory" /\ ValidContent(is, k, v, n)
        BY <2>1, <2>3 DEF Serialized, ValidAt
      <3>2. Kind(k, w.i) = "Directory" /\ (Exists(w.i) \/ ~HasContent(w.i))
        BY <3>1 DEF ValidContent
      <3>3. Shape(k, Bound(v, n - 1), d)
        BY <2>1, <2>2, PrefixShape
      <3>4. d.contents[w.i] # Missing => d.contents[w.i].kind = "Directory"
        BY <3>0, <3>2, <3>3 DEF Shape
      <3>5. CASE d.contents[w.i] = Missing
        <4>1. \A m : Entry(w.i, m)' = NoEntry
          BY <2>5, <3>5 DEF Entry, Missing
        <4>2. w.i \in Lost(d, w)
          BY <3>0, <3>5 DEF Lost, Missing
        <4> QED BY <2>1, <2>5, <3>5, <4>1, <4>2 DEF Missing
      <3>6. CASE d.contents[w.i].kind = "Directory"
        <4>1. \A m : Entry(w.i, m)' = d.contents[w.i].entries[m]
          BY <2>5, <3>6 DEF Entry
        <4>2. Lost(d, w) = {w.i} \cup ({d.contents[w.i].entries[m] : m \in Names} \ {NoEntry})
          BY <3>6 DEF Lost
        <4>3. w.i \in damaged'
          BY <2>1, <4>2
        <4>4. \A m \in Names : d.contents[w.i].entries[m] \in damaged' \cup {NoEntry}
          BY <2>1, <4>2
        <4> QED BY <2>5, <3>6, <4>1, <4>3, <4>4
      <3> QED BY <3>4, <3>5, <3>6
    <2>8. w.to = "inode" => w.i \in damaged'
      <3>1. w.to = "inode" => Lost(d, w) = {w.i}
        BY DEF Lost, FileOf
      <3> QED BY <2>1, <3>1
    <2>9. w.to = "superblock" => Superblock \in damaged'
      <3>1. w.to = "superblock" => Lost(d, w) = {Superblock}
        BY DEF Lost, FileOf
      <3> QED BY <2>1, <3>1
    <2>11. w.to = "content" /\ w.i = FUSE_ROOT_ID => d.inodes[FUSE_ROOT_ID] # Missing
      <3>1. StoreInv(After(v, n)) /\ Written(d, w, After(v, n))
        BY <2>1, <2>2, PrefixInv, PrefixWrites
      <3>2. w.to = "content" => w.val # Missing
        BY <2>3 DEF Write, Content, Missing
      <3> HIDE DEF w, d
      <3> QED BY <3>1, <3>2, Constants DEF StoreInv, KindsAgree, Written
    <2>10. TornInv'
      <3>0. w.to \in {"inode", "superblock", "content"}
        BY <2>1 DEF Serialized
      <3>1. \A i \in Inodes :
              /\ TornInode(i)' => TornInode(i) \/ (w.to = "inode" /\ w.i = i)
              /\ TornContent(i)' => TornContent(i) \/ (w.to = "content" /\ w.i = i)
        BY <2>1, <3>0 DEF TornInode, TornContent, FileOf
      <3>2. TornSuperblock' => TornSuperblock \/ w.to = "superblock"
        BY <2>1, <3>0 DEF TornSuperblock, FileOf
      <3> HIDE DEF d, w
      <3>3. \A i \in Inodes :
              /\ TornInode(i)' => i \in damaged' /\ i <= superblock' /\ handles'[i] = 0
              /\ TornContent(i)' =>
                   /\ i \in damaged' /\ i <= superblock' /\ contents'[i].kind # "Data"
                   /\ \A m \in Names : Entry(i, m)' \in damaged' \cup {NoEntry}
        <4> SUFFICES ASSUME NEW i \in Inodes
                     PROVE  /\ TornInode(i)' => i \in damaged' /\ i <= superblock' /\ handles'[i] = 0
                            /\ TornContent(i)' =>
                                 /\ i \in damaged' /\ i <= superblock' /\ contents'[i].kind # "Data"
                                 /\ \A m \in Names : Entry(i, m)' \in damaged' \cup {NoEntry}
          OBVIOUS
        <4>1. /\ TornInode(i) => i \in damaged' /\ i <= superblock'
              /\ TornContent(i) =>
                   /\ i \in damaged' /\ i <= superblock' /\ contents'[i].kind # "Data"
                   /\ \A m \in Names : Entry(i, m)' \in damaged' \cup {NoEntry}
          BY <1>3, <2>1, <2>2, <2>4
        <4>2. handles'[i] = 0
          BY <1>1
        <4> QED BY <2>6, <2>7, <2>8, <3>1, <4>1, <4>2
      <3>4. TornSuperblock' => Superblock \in damaged'
        BY <2>4, <2>9, <3>2 DEF Inv, TornInv
      <3>5. TornContent(FUSE_ROOT_ID)' => Exists(FUSE_ROOT_ID)'
        <4>1. TornContent(FUSE_ROOT_ID) => d.inodes[FUSE_ROOT_ID] # Missing
          BY <2>2, PrefixRoot DEF Inv, TornInv, d
        <4>2. w.to = "content" /\ w.i = FUSE_ROOT_ID => d.inodes[FUSE_ROOT_ID] # Missing
          BY <2>11
        <4>3. inodes' = d.inodes
          BY <2>1 DEF Store, d
        <4> QED BY <3>1, <4>1, <4>2, <4>3, Constants DEF Exists, TornContent, FUSE_ROOT_ID
      <3> QED BY <1>1, <3>3, <3>4, <3>5 DEF TornInv
    <2> QED BY <1>2, <1>3, <2>1, <2>2, <2>4, <2>10 DEF Fine, Inv
  <1> QED BY <1>1, <1>4, <1>5

LEMMA UpStep ==
  ASSUME NEW is, NEW k, NEW ws, Inv, NEW ms, SoundBut(ms, is, k, ws), missized \subseteq ms,
         ~TornInode(FUSE_ROOT_ID), Completes(ws), missized' = ms, UNCHANGED limit
  PROVE  Fine
  <1> DEFINE d == After(ws, Len(ws))
  <1>0. Valid(is, k, ws) /\ Untorn(ws) /\ Len(ws) \in Nat /\ DOMAIN ws = 1 .. Len(ws)
    BY DEF SoundBut, Safe, Valid
  <1>1. /\ PanicAt(ws) = {} /\ Store(d) /\ handles' = d.handles /\ session' = "up"
        /\ panicked' = {} /\ damaged' = damaged /\ torn' = torn
    BY DEF Completes
  <1>2. Prefix(is, k, ws, Len(ws)) /\ Len(ws) \in 0 .. Len(ws)
    <2>1. Len(ws) \in 0 .. Len(ws) /\ Follows(ws, ws)
      BY <1>0 DEF Follows
    <2> QED BY <1>0, <1>1, <2>1, FollowsUpTo
  <1>3. /\ d \in Stores /\ StoreInv(d) /\ superblock \in Nat /\ superblock <= d.superblock
        /\ \A j \in Inodes \ (is \cup damaged) : Exact(d, j)
    BY <1>2, PrefixGives
  <1>4. OpenKept(d) /\ \A j \in Inodes \ damaged : ExactBut(ms, d, j)
    <2>1. \A j : Exact(d, j) => ExactBut(ms, d, j)
      BY DEF Exact, ExactBut
    <2>2. OpenKept(d) /\ \A j \in is \ damaged : ExactBut(ms, d, j)
      BY <1>1 DEF SoundBut, FinishesBut
    <2> QED BY <1>3, <2>1, <2>2
  <1>5. \A i \in Inodes :
          /\ TornContent(i) => d.contents[i] \in {contents[i], Missing}
          /\ TornInode(i) => d.handles[i] = handles[i]
    BY <1>0, <1>2, PrefixTorn
  <1> HIDE DEF d
  <1>6. handles' \in [Inodes -> Nat]
    BY <1>1, <1>3 DEF Stores
  <1>7. /\ StoreInv(Before)' /\ OpenKept(Before)'
        /\ \A j \in Inodes \ damaged : Exact(Before, j)'
    BY <1>1, <1>3, <1>4, <1>6, SameStore
  <1>8. TornInv'
    <2>1. TornInv /\ damaged \subseteq damaged'
      BY <1>1 DEF Inv
    <2>2. ASSUME NEW i \in Inodes
          PROVE  /\ TornInode(i)' => i \in damaged' /\ i <= superblock' /\ handles'[i] = 0
                 /\ TornContent(i)' =>
                      /\ i \in damaged' /\ i <= superblock' /\ contents'[i].kind # "Data"
                      /\ \A m \in Names : Entry(i, m)' \in damaged' \cup {NoEntry}
      <3>1. /\ TornInode(i) => i \in damaged' /\ i <= superblock'
            /\ TornContent(i) =>
                 /\ i \in damaged' /\ i <= superblock' /\ contents'[i].kind # "Data"
                 /\ \A m \in Names : Entry(i, m)' \in damaged' \cup {NoEntry}
        BY <1>1, <1>3, <1>5, <2>1, TornKept
      <3>2. TornInode(i) => handles'[i] = 0
        BY <1>1, <1>5, <2>1 DEF TornInv
      <3>3. (TornInode(i)' <=> TornInode(i)) /\ (TornContent(i)' <=> TornContent(i))
        BY <1>1 DEF TornInode, TornContent
      <3> QED BY <3>1, <3>2, <3>3
    <2>3. TornSuperblock' => Superblock \in damaged'
      BY <1>1, <2>1 DEF TornInv, TornSuperblock
    <2>4. ~TornInode(FUSE_ROOT_ID)'
      BY <1>1 DEF TornInode, FUSE_ROOT_ID
    <2>5. TornContent(FUSE_ROOT_ID)' => Exists(FUSE_ROOT_ID)'
      <3>1. TornContent(FUSE_ROOT_ID)' => Exists(FUSE_ROOT_ID)
        BY <1>1, <2>1 DEF TornContent, TornInv, FUSE_ROOT_ID
      <3>2. Exists(FUSE_ROOT_ID) => d.inodes[FUSE_ROOT_ID] # Missing
        BY <1>2, PrefixRoot DEF d
      <3> QED BY <1>1, <3>1, <3>2 DEF Store, Exists, FUSE_ROOT_ID
    <2> QED BY <2>2, <2>3, <2>4, <2>5 DEF TornInv
  <1>9. limit' \in Limits
    BY DEF Inv
  <1> QED BY <1>1, <1>7, <1>8, <1>9 DEF Fine, Inv

LEMMA HandleStep ==
  ASSUME NEW is, NEW k, NEW ws, Inv, Sound(is, k, ws), Handle(is, ws), UNCHANGED limit,
         ~TornInode(FUSE_ROOT_ID)
  PROVE  Fine
  <1>1. Safe(is, k, ws) /\ SoundBut(missized, is, k, ws) /\ Follows(ws, ws)
    BY DEF Sound, SoundBut, Finishes, FinishesBut, Exact, Follows
  <1>2. CASE Completes(ws) /\ missized' = missized
    BY <1>1, <1>2, UpStep
  <1>3. CASE CutShort(is, ws)
    BY <1>1, <1>3, DownStep
  <1> QED BY <1>2, <1>3 DEF Handle

LEMMA MissizesStep ==
  ASSUME NEW i, NEW k, NEW ws, Inv, SoundBut(missized \cup {i}, {i}, k, ws), Missizes(i, ws),
         UNCHANGED limit, ~TornInode(FUSE_ROOT_ID)
  PROVE  Fine
  <1>1. Safe({i}, k, ws) /\ Follows(ws, ws)
    BY DEF SoundBut, Follows
  <1>2. CASE Completes(ws) /\ missized' = missized \cup {i}
    BY <1>2, UpStep
  <1>3. CASE CutShort({i}, ws)
    BY <1>1, <1>3, DownStep
  <1> QED BY <1>2, <1>3 DEF Missizes

LEMMA CutStep ==
  ASSUME NEW is, NEW k, NEW ws, NEW v, Inv, Safe(is, k, v), Cut(ws, v), Handle(is, ws),
         UNCHANGED limit
  PROVE  Fine
  <1>1. PICK r \in 1 .. Len(ws) : ws[r].to = "panic" /\ r \in DOMAIN ws
    BY DEF Cut
  <1>2. ~Completes(ws)
    BY <1>1 DEF Completes, PanicAt, Panics
  <1>3. CutShort(is, ws)
    BY <1>2 DEF Handle
  <1> QED BY <1>3, DownStep DEF Follows

-----------------------------------------------------------------------------
(* The writes that touch one part of one inode.                            *)
OnInode(w, x) == w.to \in {"inode", "rm_inode"} /\ w.i = x
OnContent(w, x) == w.to \in {"content", "rm_content"} /\ w.i = x
OnHandle(w, x) == w.to = "handle" /\ w.i = x

LEMMA Untouched ==
  ASSUME NEW is, NEW k, NEW ws, NEW n, Prefix(is, k, ws, n), NEW x \in Inodes,
         NEW a \in 0 .. n, NEW b \in a .. n
  PROVE  /\ (\A r \in a + 1 .. b : ~OnInode(ws[r], x)) =>
              After(ws, b).inodes[x] = After(ws, a).inodes[x]
         /\ (\A r \in a + 1 .. b : ~OnContent(ws[r], x)) =>
              After(ws, b).contents[x] = After(ws, a).contents[x]
         /\ (\A r \in a + 1 .. b : ~OnHandle(ws[r], x)) =>
              After(ws, b).handles[x] = After(ws, a).handles[x]
  <1>0. n \in Nat /\ a \in Nat /\ b \in Nat
    BY PrefixWrites
  <1> DEFINE I == \A r \in a + 1 .. b : ~OnInode(ws[r], x)
             C == \A r \in a + 1 .. b : ~OnContent(ws[r], x)
             H == \A r \in a + 1 .. b : ~OnHandle(ws[r], x)
             Q(c) == /\ I => After(ws, c).inodes[x] = After(ws, a).inodes[x]
                     /\ C => After(ws, c).contents[x] = After(ws, a).contents[x]
                     /\ H => After(ws, c).handles[x] = After(ws, a).handles[x]
             S == {c \in Nat : c \in a .. b => Q(c)}
  <1>1. 0 \in S
    BY <1>0
  <1>2. ASSUME NEW c \in Nat, c \in S PROVE c + 1 \in S
    <2> SUFFICES ASSUME c + 1 \in a .. b PROVE Q(c + 1)
      OBVIOUS
    <2>1. CASE c + 1 = a
      BY <2>1
    <2>2. CASE c + 1 # a
      <3>1. c \in a .. b /\ c + 1 \in a + 1 .. b /\ c + 1 \in 1 .. n /\ (c + 1) - 1 = c
            /\ c \in 0 .. n
        BY <1>0, <2>2
      <3>2. Q(c)
        BY <1>2, <3>1
      <3>3. Written(After(ws, c), ws[c + 1], After(ws, c + 1)) /\ After(ws, c) \in Stores
        BY <3>1, PrefixWrites
      <3>4. After(ws, c).handles[x] \in Nat
        BY <3>3 DEF Stores
      <3>5. I => After(ws, c + 1).inodes[x] = After(ws, c).inodes[x]
        BY <3>1, <3>3 DEF Written, OnInode
      <3>6. C => After(ws, c + 1).contents[x] = After(ws, c).contents[x]
        BY <3>1, <3>3 DEF Written, OnContent
      <3>7. H => After(ws, c + 1).handles[x] = After(ws, c).handles[x]
        BY <3>1, <3>3, <3>4 DEF Written, OnHandle
      <3> HIDE DEF I, C, H
      <3> QED BY <3>2, <3>5, <3>6, <3>7
    <2> QED BY <2>1, <2>2
  <1> HIDE DEF S
  <1>3. \A c \in Nat : c \in S
    BY <1>1, <1>2, Induction
  <1>4. b \in a .. b
    BY <1>0
  <1> QED BY <1>0, <1>3, <1>4 DEF S

(* What is not written stays, and the last write counts.                   *)
LEMMA NotWritten ==
  ASSUME NEW is, NEW k, NEW ws, NEW n, Prefix(is, k, ws, n), NEW x \in Inodes
  PROVE  /\ (\A r \in 1 .. n : ~OnInode(ws[r], x)) => After(ws, n).inodes[x] = inodes[x]
         /\ (\A r \in 1 .. n : ~OnContent(ws[r], x)) => After(ws, n).contents[x] = contents[x]
         /\ (\A r \in 1 .. n : ~OnHandle(ws[r], x)) => After(ws, n).handles[x] = handles[x]
  <1>0. n \in Nat /\ 0 \in 0 .. n /\ n \in 0 .. n /\ 0 + 1 = 1
    BY PrefixWrites
  <1>1. After(ws, 0).inodes = inodes /\ After(ws, 0).contents = contents /\ After(ws, 0).handles = handles
    BY AfterStep DEF Before
  <1> QED BY <1>0, <1>1, Untouched

LEMMA LastWrite ==
  ASSUME NEW is, NEW k, NEW ws, NEW n, Prefix(is, k, ws, n), NEW x \in Inodes,
         NEW l \in 1 .. n, ws[l].i = x
  PROVE  /\ (\A r \in l + 1 .. n : ~OnInode(ws[r], x)) =>
              /\ ws[l].to = "inode" => After(ws, n).inodes[x] = ws[l].val
              /\ ws[l].to = "rm_inode" => After(ws, n).inodes[x] = Missing
         /\ (\A r \in l + 1 .. n : ~OnContent(ws[r], x)) =>
              /\ ws[l].to = "content" => After(ws, n).contents[x] = ws[l].val
              /\ ws[l].to = "rm_content" => After(ws, n).contents[x] = Missing
  <1>0. n \in Nat /\ l \in 0 .. n /\ n \in l .. n
    BY PrefixWrites
  <1>1. Written(After(ws, l - 1), ws[l], After(ws, l))
    BY PrefixWrites
  <1>2. /\ ws[l].to = "inode" => After(ws, l).inodes[x] = ws[l].val
        /\ ws[l].to = "rm_inode" => After(ws, l).inodes[x] = Missing
        /\ ws[l].to = "content" => After(ws, l).contents[x] = ws[l].val
        /\ ws[l].to = "rm_content" => After(ws, l).contents[x] = Missing
    BY <1>1 DEF Written
  <1>3. /\ (\A r \in l + 1 .. n : ~OnInode(ws[r], x)) =>
              After(ws, n).inodes[x] = After(ws, l).inodes[x]
        /\ (\A r \in l + 1 .. n : ~OnContent(ws[r], x)) =>
              After(ws, n).contents[x] = After(ws, l).contents[x]
    BY <1>0, Untouched
  <1> QED BY <1>2, <1>3

(* The open inodes along a handler that keeps their counts.                *)
KeepsCounts(ws, n) ==
  \A l \in 1 .. n :
    /\ ws[l].to = "inode" => ws[l].val.open_file_handles >= handles[ws[l].i]
    /\ ws[l].to \in {"rm_inode", "rm_content"} => handles[ws[l].i] = 0
StillOpen(d) ==
  \A x \in Inodes : handles[x] > 0 =>
    /\ d.inodes[x] # Missing
    /\ d.contents[x] # Missing \/ x = FUSE_ROOT_ID
    /\ d.inodes[x].open_file_handles >= handles[x]

LEMMA PrefixOpen ==
  ASSUME NEW is, NEW k, NEW ws, NEW n, Prefix(is, k, ws, n), OpenKept(Before),
         KeepsCounts(ws, n)
  PROVE  StillOpen(After(ws, n))
  <1>0. n \in Nat
    BY PrefixWrites
  <1>h. handles \in [Inodes -> Nat]
    BY DEF Prefix, StoreInv, Stores, Before
  <1> DEFINE S == {l \in Nat : l <= n => StillOpen(After(ws, l))}
  <1>1. 0 \in S
    <2>1. StillOpen(Before)
      BY DEF OpenKept, StillOpen, Before
    <2> QED BY <2>1, AfterStep
  <1>2. ASSUME NEW l \in Nat, l \in S PROVE l + 1 \in S
    <2> SUFFICES ASSUME l + 1 <= n, NEW x \in Inodes, handles[x] > 0
                 PROVE  LET e == After(ws, l + 1)
                        IN  /\ e.inodes[x] # Missing
                            /\ e.contents[x] # Missing \/ x = FUSE_ROOT_ID
                            /\ e.inodes[x].open_file_handles >= handles[x]
      BY DEF StillOpen
    <2> DEFINE w == ws[l + 1]
               d == After(ws, l)
               e == After(ws, l + 1)
    <2>1. l + 1 \in 1 .. n /\ (l + 1) - 1 = l
      BY <1>0
    <2>2. Write(w) /\ Written(d, w, e)
      BY <2>1, PrefixWrites
    <2>3. /\ d.inodes[x] # Missing /\ (d.contents[x] # Missing \/ x = FUSE_ROOT_ID)
          /\ d.inodes[x].open_file_handles >= handles[x]
      BY <1>2, <1>0 DEF StillOpen
    <2>4. /\ w.to = "inode" => w.val \in Attributes /\ w.val.open_file_handles >= handles[w.i]
          /\ w.to = "content" => w.val \in Content
          /\ w.i = x => w.to \notin {"rm_inode", "rm_content"}
      BY <1>h, <2>1, <2>2 DEF KeepsCounts, Write
    <2>5. Missing \notin Attributes /\ Missing \notin Content
      BY DEF Missing, Attributes, Content
    <2>6. e.inodes[x] # Missing /\ e.inodes[x].open_file_handles >= handles[x]
      BY <2>2, <2>3, <2>4, <2>5 DEF Written
    <2>7. e.contents[x] # Missing \/ x = FUSE_ROOT_ID
      BY <2>2, <2>3, <2>4, <2>5 DEF Written
    <2> QED BY <2>6, <2>7
  <1> HIDE DEF S
  <1>3. \A l \in Nat : l \in S
    BY <1>1, <1>2, Induction
  <1> QED BY <1>0, <1>3 DEF S

(* If no handle is opened, that is all.                                    *)
LEMMA NoneOpened ==
  ASSUME NEW is, NEW k, NEW ws, NEW n, Prefix(is, k, ws, n), OpenKept(Before),
         KeepsCounts(ws, n), \A r \in 1 .. n : ws[r].to # "handle"
  PROVE  OpenKept(After(ws, n))
  <1>1. StillOpen(After(ws, n))
    BY PrefixOpen
  <1>2. \A x \in Inodes : After(ws, n).handles[x] = handles[x]
    BY NotWritten DEF OnHandle
  <1> QED BY <1>1, <1>2 DEF OpenKept, StillOpen

(* Only a removal can panic, or a failed subtraction.                      *)
LEMMA NeverPanics ==
  ASSUME NEW ws, DOMAIN ws = 1 .. Len(ws),
         \A r \in 1 .. Len(ws) : ws[r].to \notin {"panic", "rm_inode", "rm_content"}
  PROVE  PanicAt(ws) = {}
  BY DEF PanicAt, Panics

-----------------------------------------------------------------------------
(* What the invariant says of the variables.                               *)
LEMMA Facts ==
  ASSUME Inv
  PROVE  /\ superblock \in Nat /\ superblock >= 1 /\ superblock <= MaxInode
         /\ limit.inodes \in Nat /\ limit.inodes <= MaxInode
         /\ inodes \in [Inodes -> Attributes \cup {Missing}]
         /\ contents \in [Inodes -> Content \cup {Missing}]
         /\ handles \in [Inodes -> Nat]
         /\ \A i \in Inodes :
              /\ Exists(i) => inodes[i] \in Attributes /\ i <= superblock
              /\ HasContent(i) => contents[i] \in Content /\ i <= superblock
              /\ Exists(i) /\ HasContent(i) => (IsDir(i) <=> contents[i].kind = "Directory")
              /\ ~HasContent(i) => \A m : Entry(i, m) = NoEntry
              /\ handles[i] > 0 => /\ Exists(i) /\ (HasContent(i) \/ i = FUSE_ROOT_ID)
                                   /\ inodes[i].open_file_handles >= handles[i]
         /\ \A p \in Inodes, m \in AllNames : Entry(p, m) \in Nat /\ Entry(p, m) <= superblock
         /\ \A p \in Inodes, m \in Names :
              /\ Entry(p, m) # p /\ Entry(p, m) # FUSE_ROOT_ID
              /\ Exists(Entry(p, m)) /\ Entry(p, m) \in Inodes =>
                   HasContent(Entry(p, m)) \/ inodes[Entry(p, m)].kind = "Symlink"
         /\ Exists(FUSE_ROOT_ID) => IsDir(FUSE_ROOT_ID)
         /\ ~Exists(FUSE_ROOT_ID) => ~HasContent(FUSE_ROOT_ID)
  <1>b. /\ Before.inodes = inodes /\ Before.contents = contents /\ Before.handles = handles
        /\ Before.superblock = superblock
    BY DEF Before
  <1>e. \A p, m : EntryIn(Before, p, m) = Entry(p, m)
    BY <1>b DEF EntryIn, Entry, Entries
  <1>0. StoreInv(Before) /\ OpenKept(Before) /\ limit \in Limits
    BY DEF Inv
  <1>1. /\ inodes \in [Inodes -> Attributes \cup {Missing}]
        /\ contents \in [Inodes -> Content \cup {Missing}]
        /\ handles \in [Inodes -> Nat] /\ superblock \in Nat
    BY <1>0, <1>b DEF StoreInv, Stores
  <1>2. /\ superblock \in 1 .. limit.inodes
        /\ \A i \in Inodes : i > superblock => ~Exists(i) /\ ~HasContent(i)
        /\ \A p \in Inodes, m \in AllNames : Entry(p, m) <= superblock
    BY <1>0, <1>b, <1>e DEF StoreInv, Unused, Exists, HasContent
  <1>3. limit.inodes \in Nat /\ limit.inodes <= MaxInode /\ MaxInode \in Nat
    BY <1>0, Constants
  <1>4. \A p \in Inodes, m \in AllNames : Entry(p, m) \in Nat
    <2> SUFFICES ASSUME NEW p \in Inodes, NEW m \in AllNames PROVE Entry(p, m) \in Nat
      OBVIOUS
    <2>1. contents[p] \in Content \cup {Missing}
      BY <1>1
    <2> QED BY <2>1 DEF Entry, Entries, Content, Missing, NoEntry
  <1>5. ASSUME NEW i \in Inodes
        PROVE  /\ Exists(i) => inodes[i] \in Attributes /\ i <= superblock
               /\ HasContent(i) => contents[i] \in Content /\ i <= superblock
               /\ Exists(i) /\ HasContent(i) => (IsDir(i) <=> contents[i].kind = "Directory")
               /\ ~HasContent(i) => \A m : Entry(i, m) = NoEntry
               /\ handles[i] > 0 => /\ Exists(i) /\ (HasContent(i) \/ i = FUSE_ROOT_ID)
                                    /\ inodes[i].open_file_handles >= handles[i]
    <2>1. i \in Nat
      BY Constants DEF Inodes
    <2>2. Exists(i) => inodes[i] \in Attributes /\ i <= superblock
      BY <1>1, <1>2, <2>1 DEF Exists
    <2>3. HasContent(i) => contents[i] \in Content /\ i <= superblock
      BY <1>1, <1>2, <2>1 DEF HasContent
    <2>4. Exists(i) /\ HasContent(i) => (IsDir(i) <=> contents[i].kind = "Directory")
      BY <1>0, <1>b DEF StoreInv, KindsAgree, Exists, HasContent, IsDir
    <2>5. ~HasContent(i) => \A m : Entry(i, m) = NoEntry
      BY DEF HasContent, Entry, Missing
    <2>6. handles[i] > 0 => /\ Exists(i) /\ (HasContent(i) \/ i = FUSE_ROOT_ID)
                            /\ inodes[i].open_file_handles >= handles[i]
      BY <1>0, <1>b DEF OpenKept, Exists, HasContent
    <2> QED BY <2>2, <2>3, <2>4, <2>5, <2>6
  <1>6. ASSUME NEW p \in Inodes, NEW m \in Names
        PROVE  /\ Entry(p, m) # p /\ Entry(p, m) # FUSE_ROOT_ID
               /\ Exists(Entry(p, m)) /\ Entry(p, m) \in Inodes =>
                    HasContent(Entry(p, m)) \/ inodes[Entry(p, m)].kind = "Symlink"
    BY <1>0, <1>b, <1>e DEF StoreInv, NamesLead, Bare, Exists, HasContent
  <1>7. /\ Exists(FUSE_ROOT_ID) => IsDir(FUSE_ROOT_ID)
        /\ ~Exists(FUSE_ROOT_ID) => ~HasContent(FUSE_ROOT_ID)
    BY <1>0, <1>b DEF StoreInv, KindsAgree, Exists, IsDir, HasContent
  <1>8. superblock >= 1 /\ superblock <= MaxInode
    BY <1>2, <1>3
  <1> QED BY <1>1, <1>2, <1>3, <1>4, <1>5, <1>6, <1>7, <1>8

(* A directory's entries are those of its content.                         *)
LEMMA DirEntries ==
  ASSUME Inv, NEW p \in Inodes, Exists(p), IsDir(p), HasContent(p)
  PROVE  /\ Entries(p) \in [AllNames -> Nat]
         /\ \A m \in AllNames : Entries(p)[m] = Entry(p, m) /\ Entries(p)[m] <= superblock
         /\ contents[p] = Directory(Entries(p))
  <1>1. contents[p] \in Content /\ contents[p].kind = "Directory"
    BY Facts
  <1>2. contents[p] \in [kind : {"Directory"}, entries : [AllNames -> Nat]]
    BY <1>1 DEF Content
  <1>3. \A m \in AllNames : Entry(p, m) = contents[p].entries[m]
    BY <1>1 DEF Entry
  <1>4. Entries(p) = [m \in AllNames |-> Entry(p, m)]
    BY DEF Entries, AllNames
  <1>5. Entries(p) = contents[p].entries
    BY <1>2, <1>3, <1>4
  <1>6. Entries(p) \in [AllNames -> Nat] /\ contents[p] = Directory(Entries(p))
    BY <1>2, <1>5 DEF Directory
  <1>7. \A m \in AllNames : Entries(p)[m] = Entry(p, m)
    BY <1>4
  <1> QED BY <1>6, <1>7, Facts

(* The next number is free.                                                *)
LEMMA NextIsFree ==
  ASSUME Inv, MayAllocate
  PROVE  /\ NextInode \in Inodes /\ NextInode = superblock + 1 /\ NextInode # FUSE_ROOT_ID
         /\ ~Exists(NextInode) /\ ~HasContent(NextInode) /\ NextInode # NoEntry
         /\ \A p \in Inodes, m \in AllNames : Entry(p, m) # NextInode
         /\ handles[NextInode] = 0 /\ ~TornInode(NextInode) /\ ~TornContent(NextInode)
  <1>1. NextInode = superblock + 1 /\ NextInode <= limit.inodes
    BY DEF NextInode, MayAllocate
  <1>2. superblock \in Nat /\ superblock >= 1 /\ limit.inodes \in Nat /\ limit.inodes <= MaxInode
    BY Facts
  <1>3. NextInode \in Inodes /\ NextInode # FUSE_ROOT_ID /\ NextInode # NoEntry
    BY <1>1, <1>2, Constants DEF Inodes, FUSE_ROOT_ID, NoEntry
  <1>4. ~(NextInode <= superblock)
    BY <1>1, <1>2
  <1>5. ~Exists(NextInode) /\ ~HasContent(NextInode)
    BY <1>3, <1>4, Facts
  <1>6. \A p \in Inodes, m \in AllNames : Entry(p, m) # NextInode
    BY <1>4, Facts
  <1>7. handles[NextInode] = 0
    <2>1. handles[NextInode] \in Nat /\ ~(handles[NextInode] > 0)
      BY <1>3, <1>5, Facts
    <2> QED BY <2>1
  <1>8. ~TornInode(NextInode) /\ ~TornContent(NextInode)
    BY <1>3, <1>4 DEF Inv, TornInv
  <1> QED BY <1>1, <1>3, <1>5, <1>6, <1>7, <1>8

-----------------------------------------------------------------------------
(* The kernel's walk.  Below(i) holds i itself, and everything else in it  *)
(* has a name.                                                             *)
Wider(T) == T \cup Children(T)
Walk(i, n, g) == g = [k \in 0 .. n |-> IF k = 0 THEN {i} ELSE Wider(g[k - 1])]

LEMMA WalkExists == ASSUME NEW i PROVE \A n \in Nat : \E g : Walk(i, n, g)
  <1> DEFINE S == {n \in Nat : \E g : Walk(i, n, g)}
  <1>1. 0 \in S
    <2>1. Walk(i, 0, [k \in 0 .. 0 |-> {i}])
      BY DEF Walk
    <2> QED BY <2>1
  <1>2. ASSUME NEW n \in Nat, n \in S PROVE n + 1 \in S
    <2>1. PICK g : Walk(i, n, g)
      BY <1>2
    <2> DEFINE h == [k \in 0 .. n + 1 |->
                       IF k = n + 1 THEN Wider(g[n]) ELSE g[k]]
    <2>2. \A k \in 0 .. n : g[k] = IF k = 0 THEN {i} ELSE Wider(g[k - 1])
      BY <2>1 DEF Walk
    <2>3. ASSUME NEW k \in 0 .. n + 1
          PROVE  h[k] = IF k = 0 THEN {i} ELSE Wider(h[k - 1])
      <3>1. CASE k = n + 1
        BY <3>1
      <3>2. CASE k \in 0 .. n
        <4>1. k # n + 1 /\ (k # 0 => k - 1 \in 0 .. n + 1 /\ k - 1 # n + 1)
          BY <3>2
        <4>2. h[k] = g[k] /\ (k # 0 => h[k - 1] = g[k - 1])
          BY <4>1
        <4> QED BY <2>2, <3>2, <4>2
      <3> QED BY <3>1, <3>2
    <2> HIDE DEF h
    <2>4. h = [k \in 0 .. n + 1 |-> h[k]]
      BY DEF h
    <2>5. Walk(i, n + 1, h)
      BY <2>3, <2>4 DEF Walk
    <2> QED BY <2>5
  <1> HIDE DEF S
  <1>3. \A n \in Nat : n \in S
    BY <1>1, <1>2, Induction
  <1> QED BY <1>3 DEF S

Named(x) == \E p \in Inodes, m \in Names : Entry(p, m) = x

LEMMA BelowNamed ==
  ASSUME Inv, NEW i \in Inodes
  PROVE  i \in Below(i) /\ \A x \in Below(i) : x = i \/ (Named(x) /\ ~TornInode(x))
  <1> DEFINE g == CHOOSE g : Walk(i, MaxInode, g)
             Found(x) == x \in Inodes /\ Named(x) /\ ~TornInode(x)
  <1>0. MaxInode \in Nat
    BY Constants
  <1>1. Walk(i, MaxInode, g)
    BY <1>0, WalkExists
  <1>2. Below(i) = g[MaxInode]
    BY DEF Below, Walk, Wider
  <1> HIDE DEF g
  <1>3. \A k \in 0 .. MaxInode : g[k] = IF k = 0 THEN {i} ELSE Wider(g[k - 1])
    BY <1>1 DEF Walk
  <1> DEFINE S == {k \in Nat : k <= MaxInode =>
                     i \in g[k] /\ \A x \in g[k] : x = i \/ Found(x)}
  <1>4. 0 \in S
    <2>1. g[0] = {i}
      BY <1>0, <1>3
    <2> QED BY <2>1
  <1>5. ASSUME NEW k \in Nat, k \in S PROVE k + 1 \in S
    <2> SUFFICES ASSUME k + 1 <= MaxInode
                 PROVE  i \in g[k + 1] /\ \A x \in g[k + 1] : x = i \/ Found(x)
      OBVIOUS
    <2>1. g[k + 1] = g[k] \cup Children(g[k])
      <3>1. k + 1 \in 0 .. MaxInode /\ k + 1 # 0 /\ (k + 1) - 1 = k
        BY <1>0
      <3>2. g[k + 1] = Wider(g[k])
        BY <1>3, <3>1
      <3> QED BY <3>2 DEF Wider
    <2>2. i \in g[k] /\ \A x \in g[k] : x = i \/ Found(x)
      BY <1>0, <1>5
    <2>3. ASSUME NEW x \in Children(g[k]) PROVE Found(x)
      <3>1. PICK p \in g[k], m \in Names : x = lookup_name(p, m) /\ x # NoEntry /\ ~TornInode(x)
        BY DEF Children
      <3>2. p \in Inodes
        BY <2>2
      <3>3. x = Entry(p, m)
        BY <3>1 DEF lookup_name
      <3>4. m \in AllNames
        BY DEF AllNames
      <3>5. x \in Nat /\ x <= superblock /\ superblock \in Nat /\ superblock <= MaxInode
        BY <3>2, <3>3, <3>4, Facts
      <3>6. x \in Inodes
        BY <1>0, <3>1, <3>5 DEF Inodes, NoEntry
      <3> QED BY <3>1, <3>2, <3>3, <3>6 DEF Named
    <2> HIDE DEF Found
    <2> QED BY <2>1, <2>2, <2>3
  <1> HIDE DEF S
  <1>6. \A k \in Nat : k \in S
    BY <1>4, <1>5, Induction
  <1> QED BY <1>0, <1>2, <1>6 DEF S

(* Nothing is found in a root without its directory.                       *)
LEMMA BareAlone ==
  ASSUME Inv, ~HasContent(FUSE_ROOT_ID)
  PROVE  Linked \subseteq {FUSE_ROOT_ID}
  <1> DEFINE i == FUSE_ROOT_ID
             g == CHOOSE g : Walk(i, MaxInode, g)
  <1>0. MaxInode \in Nat /\ i \in Inodes
    BY Constants
  <1>1. Walk(i, MaxInode, g)
    BY <1>0, WalkExists
  <1>2. Below(i) = g[MaxInode]
    BY DEF Below, Walk, Wider
  <1> HIDE DEF g
  <1>3. \A k \in 0 .. MaxInode : g[k] = IF k = 0 THEN {i} ELSE Wider(g[k - 1])
    BY <1>1 DEF Walk
  <1>c. Children({i}) = {}
    <2>1. \A m \in Names : Entry(i, m) = NoEntry
      BY <1>0, Facts
    <2>2. \A m \in Names : lookup_name(i, m) = NoEntry
      BY <2>1 DEF lookup_name
    <2> QED BY <2>2 DEF Children
  <1> DEFINE S == {k \in Nat : k <= MaxInode => g[k] = {i}}
  <1>4. 0 \in S
    BY <1>0, <1>3
  <1>5. ASSUME NEW k \in Nat, k \in S PROVE k + 1 \in S
    <2> SUFFICES ASSUME k + 1 <= MaxInode PROVE g[k + 1] = {i}
      OBVIOUS
    <2>1. k + 1 \in 0 .. MaxInode /\ k + 1 # 0 /\ (k + 1) - 1 = k /\ k <= MaxInode
      BY <1>0
    <2>2. g[k + 1] = Wider(g[k]) /\ g[k] = {i}
      BY <1>3, <1>5, <2>1
    <2> QED BY <1>c, <2>2 DEF Wider
  <1> HIDE DEF S
  <1>6. \A k \in Nat : k \in S
    BY <1>4, <1>5, Induction
  <1>7. Below(i) = {i}
    BY <1>0, <1>2, <1>6 DEF S
  <1> QED BY <1>7 DEF Linked

(* What a request may be about.                                            *)
LEMMA LinkedFacts ==
  ASSUME Inv, ~TornInode(FUSE_ROOT_ID)
  PROVE  /\ \A p \in LinkedDirs : /\ p \in Inodes /\ Exists(p) /\ IsDir(p) /\ ~TornInode(p)
                                  /\ HasContent(p) \/ p = FUSE_ROOT_ID
         /\ \A i \in LinkedFiles : /\ i \in Inodes /\ Exists(i) /\ ~IsDir(i) /\ ~TornInode(i)
                                   /\ i # FUSE_ROOT_ID
                                   /\ HasContent(i) \/ inodes[i].kind = "Symlink"
  <1>1. ASSUME NEW i \in Linked
        PROVE  /\ i \in Inodes /\ Exists(i) /\ ~TornInode(i)
               /\ HasContent(i) \/ inodes[i].kind = "Symlink" \/ i = FUSE_ROOT_ID
    <2>1. i \in Inodes /\ i \in Below(FUSE_ROOT_ID) /\ Exists(i)
      BY DEF Linked
    <2>2. i # FUSE_ROOT_ID => Named(i) /\ ~TornInode(i)
      BY <2>1, BelowNamed, Constants
    <2> QED BY <2>1, <2>2, Facts DEF Named
  <1>2. ASSUME NEW p \in LinkedDirs
        PROVE  /\ p \in Inodes /\ Exists(p) /\ IsDir(p) /\ ~TornInode(p)
               /\ HasContent(p) \/ p = FUSE_ROOT_ID
    BY <1>1 DEF LinkedDirs, IsDir
  <1>3. ASSUME NEW i \in LinkedFiles
        PROVE  /\ i \in Inodes /\ Exists(i) /\ ~IsDir(i) /\ ~TornInode(i) /\ i # FUSE_ROOT_ID
               /\ HasContent(i) \/ inodes[i].kind = "Symlink"
    BY <1>1, Facts DEF LinkedFiles
  <1> QED BY <1>2, <1>3

(* A name that is found.                                                   *)
LEMMA LookupFacts ==
  ASSUME Inv, NEW p \in Inodes, NEW m \in Names
  PROVE  LET i == lookup_name(p, m)
         IN  /\ i # NoEntry => /\ i \in Inodes /\ Exists(i) /\ i = Entry(p, m)
                               /\ i # p /\ i # FUSE_ROOT_ID
                               /\ HasContent(i) \/ inodes[i].kind = "Symlink"
             /\ i = NoEntry => Entry(p, m) = NoEntry \/ ~Exists(Entry(p, m))
  <1> DEFINE i == lookup_name(p, m)
  <1>1. i # NoEntry => i = Entry(p, m) /\ Exists(i)
    BY DEF lookup_name
  <1>2. i = NoEntry => Entry(p, m) = NoEntry \/ ~Exists(Entry(p, m))
    BY DEF lookup_name
  <1>3. Entry(p, m) \in Nat /\ Entry(p, m) <= superblock /\ superblock \in Nat /\ superblock <= MaxInode
    BY Facts DEF AllNames
  <1>4. Entry(p, m) # NoEntry => Entry(p, m) \in Inodes
    BY <1>3, Constants DEF Inodes, NoEntry
  <1>5. Entry(p, m) # p /\ Entry(p, m) # FUSE_ROOT_ID
    BY Facts
  <1>6. Exists(Entry(p, m)) /\ Entry(p, m) \in Inodes =>
          HasContent(Entry(p, m)) \/ inodes[Entry(p, m)].kind = "Symlink"
    BY Facts
  <1> HIDE DEF i
  <1>7. i # NoEntry => /\ i \in Inodes /\ Exists(i) /\ i = Entry(p, m) /\ i # p /\ i # FUSE_ROOT_ID
                       /\ HasContent(i) \/ inodes[i].kind = "Symlink"
    BY <1>1, <1>4, <1>5, <1>6
  <1> QED BY <1>2, <1>7 DEF i

-----------------------------------------------------------------------------
(* Handlers of one inode: open, write, setattr and the like.               *)
LEMMA BoundSame ==
  ASSUME NEW ws, NEW n, Len(ws) \in Nat,
         \A r \in 1 .. Len(ws) : ws[r].to # "superblock"
  PROVE  Bound(ws, n) = superblock
  <1>1. CASE Len(ws) >= 2
    <2>1. 2 \in 1 .. Len(ws)
      BY <1>1
    <2> QED BY <2>1 DEF Bound
  <1>2. CASE ~(Len(ws) >= 2)
    BY <1>2 DEF Bound
  <1> QED BY <1>1, <1>2

LEMMA SamePlaces ==
  ASSUME NEW d, \A x \in Inodes : d.inodes[x] = Missing <=> inodes[x] = Missing,
         \A p \in Inodes, m \in Names : EntryIn(d, p, m) = Entry(p, m)
  PROVE  \A j : PlacesIn(d, j) = PlacesIn(Before, j)
  <1>1. \A p, m : EntryIn(Before, p, m) = Entry(p, m)
    BY DEF EntryIn, Entry, Entries, Before
  <1>2. Before.inodes = inodes
    BY DEF Before
  <1> SUFFICES ASSUME NEW j, NEW pm \in Inodes \X Names
               PROVE  d.inodes[pm[1]] # Missing /\ EntryIn(d, pm[1], pm[2]) = j <=>
                      Before.inodes[pm[1]] # Missing /\ EntryIn(Before, pm[1], pm[2]) = j
    BY DEF PlacesIn
  <1>3. pm[1] \in Inodes /\ pm[2] \in Names
    OBVIOUS
  <1> QED BY <1>1, <1>2, <1>3

(* The writes are to the attributes of i, at l for the last time, to its   *)
(* data, or open it.                                                       *)
Keeps(i, a) ==
  /\ a \in Attributes
  /\ a.kind = inodes[i].kind
  /\ a.hardlinks = inodes[i].hardlinks
  /\ a.open_file_handles >= inodes[i].open_file_handles
AboutFile(i, l, ws) ==
  /\ Len(ws) \in Nat /\ DOMAIN ws = 1 .. Len(ws) /\ l \in 1 .. Len(ws) /\ ws[l].to = "inode"
  /\ \A r \in 1 .. Len(ws) :
       /\ ws[r].to \in {"inode", "content", "handle"} /\ ws[r].i = i
       /\ ws[r].to = "inode" => r <= l /\ Keeps(i, ws[r].val)
       /\ ws[r].to = "content" =>
            ~IsDir(i) /\ ~TornContent(i) /\ ws[r].val \in [kind : {"Data"}, len : Nat]
       /\ ws[r].to = "handle" => ~TornInode(i)

(* The content of a file is never torn.                                    *)
LEMMA DataUntorn ==
  ASSUME Inv, NEW i \in Inodes, Exists(i), ~IsDir(i), HasContent(i)
  PROVE  ~TornContent(i)
  <1>1. contents[i] \in Content /\ contents[i].kind # "Directory"
    BY Facts
  <1>2. contents[i].kind = "Data"
    BY <1>1 DEF Content
  <1> QED BY <1>2 DEF Inv, TornInv

LEMMA AboutFileValid ==
  ASSUME Inv, NEW i \in Inodes, Exists(i), NEW ws, NEW l, AboutFile(i, l, ws)
  PROVE  /\ Safe({i}, "File", ws) /\ PanicAt(ws) = {}
         /\ Prefix({i}, "File", ws, Len(ws))
  <1>0. /\ Len(ws) \in Nat /\ DOMAIN ws = 1 .. Len(ws)
        /\ \A r \in 1 .. Len(ws) : ws[r].to \in {"inode", "content", "handle"} /\ ws[r].i = i
    BY DEF AboutFile
  <1>1. \A r : Bound(ws, r) = superblock
    BY <1>0, BoundSame
  <1>2. i <= superblock /\ inodes[i].kind # "Missing"
    BY Facts DEF Attributes
  <1>3. ASSUME NEW r \in 1 .. Len(ws) PROVE ValidAt({i}, "File", ws, r)
    <2>1. ws[r].to = "inode" => ValidInode({i}, "File", ws[r])
      BY <1>0 DEF AboutFile, Keeps, ValidInode, Kind
    <2>2. ws[r].to = "content" => ValidContent({i}, "File", ws, r)
      <3>1. ws[r].to = "content" => ws[r].val \in Content /\ ws[r].val.kind = "Data" /\ ~IsDir(i)
        BY DEF AboutFile, Content
      <3> QED BY <1>0, <3>1 DEF ValidContent, Kind, IsDir
    <2> QED BY <1>0, <1>1, <1>2, <2>1, <2>2 DEF ValidAt
  <1>4. Valid({i}, "File", ws)
    <2>1. FUSE_ROOT_ID \in {i} => Exists(FUSE_ROOT_ID)
      OBVIOUS
    <2> QED BY <1>0, <1>3, <2>1 DEF Valid
  <1>5. PanicAt(ws) = {}
    BY <1>0, NeverPanics
  <1>6. Prefix({i}, "File", ws, Len(ws))
    BY <1>0, <1>4 DEF Prefix, NoPanic, Inv
  <1>7. Untorn(ws)
    BY DEF Untorn, AboutFile
  <1> QED BY <1>4, <1>5, <1>6, <1>7 DEF Safe

FileFinal(i, l, ws, d) ==
  /\ d.inodes[i] = ws[l].val
  /\ HasContent(i) => d.contents[i] # Missing
  /\ \A x \in Inodes \ {i} : d.inodes[x] = inodes[x] /\ d.contents[x] = contents[x]
  /\ (\A r \in 1 .. Len(ws) : ws[r].to # "content") => d.contents[i] = contents[i]
  /\ \A ms : Exact(Before, i) /\ (i \notin ms => SizeExactIn(d, i)) => ExactBut(ms, d, i)
  /\ StillOpen(d)

LEMMA AboutFileFinal ==
  ASSUME Inv, NEW i \in Inodes, Exists(i), NEW ws, NEW l, AboutFile(i, l, ws)
  PROVE  FileFinal(i, l, ws, After(ws, Len(ws)))
  <1> DEFINE n == Len(ws)
             d == After(ws, n)
  <1>0. /\ n \in Nat /\ l \in 1 .. n /\ ws[l].to = "inode" /\ Keeps(i, ws[l].val)
        /\ \A r \in 1 .. n : /\ ws[r].to \in {"inode", "content", "handle"} /\ ws[r].i = i
                             /\ ws[r].to = "inode" => r <= l /\ Keeps(i, ws[r].val)
    BY DEF AboutFile
  <1>1. Prefix({i}, "File", ws, n)
    BY AboutFileValid
  <1>2. d \in Stores /\ StoreInv(d)
    BY <1>1, PrefixInv DEF StoreInv
  <1>3. d.inodes[i] = ws[l].val
    <2>1. ws[l].i = i /\ ws[l].to = "inode"
      BY <1>0
    <2>2. \A r \in l + 1 .. n : ~OnInode(ws[r], i)
      <3> SUFFICES ASSUME NEW r \in l + 1 .. n PROVE ~OnInode(ws[r], i)
        OBVIOUS
      <3>1. r \in 1 .. n /\ ~(r <= l)
        BY <1>0
      <3> QED BY <1>0, <3>1 DEF OnInode
    <2> QED BY <1>0, <1>1, <2>1, <2>2, LastWrite
  <1>4. ASSUME NEW x \in Inodes, x # i
        PROVE  d.inodes[x] = inodes[x] /\ d.contents[x] = contents[x]
    <2>1. \A r \in 1 .. n : ~OnInode(ws[r], x) /\ ~OnContent(ws[r], x)
      BY <1>0, <1>4 DEF OnInode, OnContent
    <2> QED BY <1>1, <2>1, NotWritten
  <1>5. (\A r \in 1 .. n : ws[r].to # "content") => d.contents[i] = contents[i]
    <2> SUFFICES ASSUME \A r \in 1 .. n : ws[r].to # "content" PROVE d.contents[i] = contents[i]
      OBVIOUS
    <2>1. \A r \in 1 .. n : ~OnContent(ws[r], i)
      BY <1>0 DEF OnContent
    <2> QED BY <1>1, <2>1, NotWritten
  <1>6. HasContent(i) => d.contents[i] # Missing
    <2>1. History({i}, "File", ws, n, d)
      BY <1>0, <1>1, PrefixHistory
    <2>2. ~Removed(ws, n, i)
      BY <1>0 DEF Removed
    <2> QED BY <2>1, <2>2 DEF History
  <1>7. ASSUME NEW p \in Inodes, NEW m \in AllNames PROVE EntryIn(d, p, m) = Entry(p, m)
    <2>1. d.contents[p] = contents[p] => EntryIn(d, p, m) = Entry(p, m)
      BY DEF EntryIn, Entry
    <2>2. CASE p # i
      BY <1>4, <2>1, <2>2
    <2>3. CASE p = i /\ IsDir(i)
      <3>1. \A r \in 1 .. n : ws[r].to # "content"
        BY <2>3 DEF AboutFile
      <3> QED BY <1>5, <2>1, <2>3, <3>1
    <2>4. CASE p = i /\ ~IsDir(i)
      <3>1. d.inodes[i] # Missing /\ d.inodes[i].kind # "Directory"
        BY <1>0, <1>3, <2>4 DEF Keeps, IsDir, Attributes, Missing
      <3>2. d.contents[i].kind # "Directory"
        BY <1>2, <3>1 DEF StoreInv, KindsAgree, Missing
      <3>3. contents[i].kind # "Directory"
        BY <2>4, Facts DEF HasContent, Missing
      <3> QED BY <2>4, <3>2, <3>3 DEF EntryIn, Entry
    <2> QED BY <2>2, <2>3, <2>4
  <1>8. PlacesIn(d, i) = PlacesIn(Before, i)
    <2>1. \A x \in Inodes : d.inodes[x] = Missing <=> inodes[x] = Missing
      BY <1>0, <1>3, <1>4 DEF Keeps, Attributes, Missing, Exists
    <2>2. \A p \in Inodes, m \in Names : EntryIn(d, p, m) = Entry(p, m)
      BY <1>7 DEF AllNames
    <2> HIDE DEF d
    <2> QED BY <2>1, <2>2, SamePlaces
  <1>9. ASSUME NEW ms, Exact(Before, i), i \notin ms => SizeExactIn(d, i)
        PROVE  ExactBut(ms, d, i)
    <2>1. Before.inodes[i] = inodes[i] /\ Before.contents[i] = contents[i] /\ inodes[i] # Missing
      BY DEF Before, Exists
    <2>2. EntryIn(d, i, "..") = EntryIn(Before, i, "..")
      BY <1>7 DEF AllNames, Before, EntryIn, Entry
    <2>3. inodes[i] \in Attributes
      BY Facts
    <2>4. /\ d.inodes[i] # Missing /\ d.inodes[i].kind = inodes[i].kind
          /\ d.inodes[i].hardlinks = inodes[i].hardlinks
          /\ inodes[i].open_file_handles > 0 => d.inodes[i].open_file_handles > 0
      BY <1>0, <1>3, <2>3 DEF Keeps, Attributes, Missing
    <2>5. d.contents[i] # Missing
      BY <1>6, <1>9, <2>1 DEF Exact, ExactBut, LinksExactIn, HasContent
    <2> HIDE DEF d
    <2>6. LinksExactIn(Before, i) => LinksExactIn(d, i)
      BY <1>8, <2>1, <2>2, <2>4, <2>5 DEF LinksExactIn
    <2> QED BY <1>9, <2>5, <2>6 DEF Exact, ExactBut
  <1>10. StillOpen(d)
    <2>1. KeepsCounts(ws, n)
      <3>1. ASSUME NEW r \in 1 .. n, ws[r].to = "inode"
            PROVE  ws[r].val.open_file_handles >= handles[ws[r].i]
        <4>1. /\ inodes[i].open_file_handles \in Nat /\ handles[i] \in Nat
              /\ handles[i] > 0 => inodes[i].open_file_handles >= handles[i]
          BY Facts DEF Attributes
        <4>2. /\ ws[r].val.open_file_handles >= inodes[i].open_file_handles
              /\ ws[r].val.open_file_handles \in Nat /\ ws[r].i = i
          BY <1>0, <3>1 DEF Keeps, Attributes
        <4> QED BY <4>1, <4>2
      <3> QED BY <1>0, <3>1 DEF KeepsCounts
    <2> QED BY <1>1, <2>1, PrefixOpen DEF Inv
  <1> HIDE DEF d
  <1>11. FileFinal(i, l, ws, d)
    BY <1>3, <1>4, <1>5, <1>6, <1>9, <1>10 DEF FileFinal
  <1> QED BY <1>11 DEF d

(* All but open.                                                           *)
LEMMA SoundAbout ==
  ASSUME Inv, NEW i \in Inodes, Exists(i), NEW ws, NEW l, AboutFile(i, l, ws),
         \A r \in 1 .. Len(ws) : ws[r].to # "handle",
         NEW ms, i \notin damaged \cup ms => SizeExactIn(After(ws, Len(ws)), i)
  PROVE  SoundBut(ms, {i}, "File", ws)
  <1> DEFINE d == After(ws, Len(ws))
  <1>1. Safe({i}, "File", ws) /\ PanicAt(ws) = {} /\ Prefix({i}, "File", ws, Len(ws))
    BY AboutFileValid
  <1>2. /\ StillOpen(d)
        /\ Exact(Before, i) /\ (i \notin ms => SizeExactIn(d, i)) => ExactBut(ms, d, i)
    <2>1. FileFinal(i, l, ws, d)
      BY AboutFileFinal
    <2> HIDE DEF d
    <2> QED BY <2>1 DEF FileFinal
  <1>3. \A x \in Inodes : d.handles[x] = handles[x]
    BY <1>1, NotWritten DEF OnHandle
  <1>4. OpenKept(d)
    BY <1>2, <1>3 DEF OpenKept, StillOpen
  <1>5. i \notin damaged => Exact(Before, i)
    BY DEF Inv
  <1> QED BY <1>1, <1>2, <1>4, <1>5 DEF SoundBut, FinishesBut

LEMMA SoundIs ==
  ASSUME NEW is, NEW k, NEW ws
  PROVE  SoundBut(missized, is, k, ws) <=> Sound(is, k, ws)
  BY DEF SoundBut, Sound, FinishesBut, Finishes, Exact

(* The attributes are written back as they were read.                      *)
LEMMA SoundTouch ==
  ASSUME Inv, NEW i \in Inodes, Exists(i)
  PROVE  Sound({i}, "File", <<Touch(i)>>)
  <1> DEFINE ws == <<Touch(i)>>
             d == After(ws, Len(ws))
  <1>0. inodes[i] \in Attributes /\ inodes[i].open_file_handles \in Nat
    BY Facts DEF Attributes
  <1>w. /\ Len(ws) = 1 /\ DOMAIN ws = 1 .. 1
        /\ ws[1].to = "inode" /\ ws[1].i = i /\ ws[1].val = inodes[i]
    BY DEF Touch, WriteInode
  <1> HIDE DEF ws
  <1>1. AboutFile(i, 1, ws)
    BY <1>0, <1>w DEF AboutFile, Keeps
  <1>2. d.inodes[i] = inodes[i] /\ d.contents[i] = contents[i]
    <2>1. FileFinal(i, 1, ws, d)
      BY <1>1, AboutFileFinal
    <2> HIDE DEF d
    <2> QED BY <1>w, <2>1 DEF FileFinal
  <1>3. i \notin damaged \cup missized => SizeExactIn(d, i)
    <2>1. i \notin damaged \cup missized => SizeExactIn(Before, i)
      BY DEF Inv, Exact, ExactBut
    <2> QED BY <1>2, <2>1 DEF SizeExactIn, Before
  <1>4. \A r \in 1 .. Len(ws) : ws[r].to # "handle"
    BY <1>w
  <1>5. SoundBut(missized, {i}, "File", ws)
    BY <1>1, <1>3, <1>4, SoundAbout
  <1> QED BY <1>5, SoundIs DEF ws

(* The count is written before the handle is handed out.                   *)
LEMMA SoundOpen ==
  ASSUME Inv, NEW i \in Inodes, Exists(i), HasContent(i) \/ i = FUSE_ROOT_ID, ~TornInode(i)
  PROVE  Sound({i}, "File", <<WriteInode(i, [inodes[i] EXCEPT !.open_file_handles = @ + 1]), Opened(i)>>)
  <1> DEFINE a == [inodes[i] EXCEPT !.open_file_handles = @ + 1]
             ws == <<WriteInode(i, a), Opened(i)>>
             d == After(ws, Len(ws))
  <1>0. inodes[i] \in Attributes /\ handles[i] \in Nat
        /\ (handles[i] > 0 => inodes[i].open_file_handles >= handles[i])
    BY Facts
  <1>a. /\ a \in Attributes /\ a.kind = inodes[i].kind /\ a.hardlinks = inodes[i].hardlinks
        /\ a.size = inodes[i].size /\ a.open_file_handles = inodes[i].open_file_handles + 1
        /\ inodes[i].open_file_handles \in Nat
    BY <1>0 DEF Attributes
  <1> HIDE DEF a
  <1>w. /\ Len(ws) = 2 /\ DOMAIN ws = 1 .. 2
        /\ ws[1].to = "inode" /\ ws[1].i = i /\ ws[1].val = a
        /\ ws[2].to = "handle" /\ ws[2].i = i
    BY DEF WriteInode, Opened
  <1> HIDE DEF ws
  <1>1. AboutFile(i, 1, ws)
    <2>1. Keeps(i, a)
      BY <1>a DEF Keeps
    <2> QED BY <1>w, <2>1 DEF AboutFile
  <1>2. Safe({i}, "File", ws) /\ PanicAt(ws) = {} /\ Prefix({i}, "File", ws, Len(ws))
    BY <1>1, AboutFileValid
  <1>3. /\ d.inodes[i] = a /\ d.contents[i] = contents[i] /\ StillOpen(d)
        /\ Exact(Before, i) /\ (i \notin missized => SizeExactIn(d, i)) => Exact(d, i)
    <2>1. FileFinal(i, 1, ws, d)
      BY <1>1, AboutFileFinal
    <2> HIDE DEF d
    <2> QED BY <1>w, <2>1 DEF FileFinal, Exact
  <1>4. Exact(Before, i) => Exact(d, i)
    <2>1. a # Missing
      BY <1>a DEF Attributes, Missing
    <2>2. SizeExactIn(Before, i) => SizeExactIn(d, i)
      BY <1>3, <1>a, <2>1 DEF SizeExactIn, Before, Exists
    <2> QED BY <1>3, <2>2 DEF Exact, ExactBut
  <1>5. \A x \in Inodes \ {i} : d.handles[x] = handles[x]
    <2>1. \A x \in Inodes \ {i}, r \in 1 .. 2 : ~OnHandle(ws[r], x)
      BY <1>w DEF OnHandle
    <2> QED BY <1>2, <1>w, <2>1, NotWritten
  <1>6. d.handles[i] = handles[i] + 1
    <2>1. Written(After(ws, 1), ws[2], After(ws, 2)) /\ Written(After(ws, 0), ws[1], After(ws, 1))
      <3>1. 1 \in 1 .. 2 /\ 2 \in 1 .. 2 /\ 1 - 1 = 0 /\ 2 - 1 = 1
        OBVIOUS
      <3> QED BY <1>2, <1>w, <3>1, PrefixWrites
    <2>2. After(ws, 0).handles = handles
      BY AfterStep DEF Before
    <2>3. After(ws, 1).handles[i] = handles[i]
      BY <1>0, <1>w, <2>1, <2>2 DEF Written
    <2> QED BY <1>0, <1>w, <2>1, <2>3 DEF Written
  <1>7. OpenKept(d)
    <2> SUFFICES ASSUME NEW x \in Inodes, d.handles[x] > 0
                 PROVE  /\ d.inodes[x] # Missing
                        /\ d.contents[x] # Missing \/ x = FUSE_ROOT_ID
                        /\ d.inodes[x].open_file_handles >= d.handles[x]
      BY DEF OpenKept
    <2>1. CASE x = i
      <3>1. a # Missing
        BY <1>a DEF Attributes, Missing
      <3>2. a.open_file_handles >= handles[i] + 1
        BY <1>0, <1>a
      <3>3. contents[i] # Missing \/ i = FUSE_ROOT_ID
        BY DEF HasContent
      <3> QED BY <1>3, <1>6, <2>1, <3>1, <3>2, <3>3
    <2>2. CASE x # i
      BY <1>3, <1>5, <2>2 DEF StillOpen
    <2> QED BY <2>1, <2>2
  <1>8. i \notin damaged => Exact(Before, i)
    BY DEF Inv
  <1> QED BY <1>2, <1>4, <1>7, <1>8 DEF Sound, Finishes, ws, a

(* The length of the content and then the size, and maybe the attributes   *)
(* once more as they were.                                                 *)
LEMMA SoundResize ==
  ASSUME Inv, NEW i \in Inodes, Exists(i), HasContent(i), IsFile(i), NEW len \in Nat, NEW size \in Nat,
         i \notin damaged \cup missized => len = size
  PROVE  Sound({i}, "File", <<WriteContent(i, Data(len)),
                              WriteInode(i, [inodes[i] EXCEPT !.size = size])>>)
  <1> DEFINE a == [inodes[i] EXCEPT !.size = size]
             ws == <<WriteContent(i, Data(len)), WriteInode(i, a)>>
             d == After(ws, Len(ws))
  <1>0. inodes[i] \in Attributes
    BY Facts
  <1>a. /\ a \in Attributes /\ a.kind = inodes[i].kind /\ a.hardlinks = inodes[i].hardlinks
        /\ a.size = size /\ a.open_file_handles = inodes[i].open_file_handles
        /\ inodes[i].open_file_handles \in Nat
    BY <1>0 DEF Attributes
  <1> HIDE DEF a
  <1>w. /\ Len(ws) = 2 /\ DOMAIN ws = 1 .. 2
        /\ ws[1].to = "content" /\ ws[1].i = i /\ ws[1].val = Data(len)
        /\ ws[2].to = "inode" /\ ws[2].i = i /\ ws[2].val = a
    BY DEF WriteInode, WriteContent
  <1> HIDE DEF ws
  <1>1. AboutFile(i, 2, ws)
    <2>1. Data(len) \in [kind : {"Data"}, len : Nat] /\ ~IsDir(i) /\ ~TornContent(i)
      BY DataUntorn DEF Data, IsFile, IsDir
    <2>2. Keeps(i, a)
      BY <1>a DEF Keeps
    <2> QED BY <1>w, <2>1, <2>2 DEF AboutFile
  <1>2. Prefix({i}, "File", ws, Len(ws))
    BY <1>1, AboutFileValid
  <1>3. d.inodes[i] = a
    <2>1. FileFinal(i, 2, ws, d)
      BY <1>1, AboutFileFinal
    <2> HIDE DEF d
    <2> QED BY <1>w, <2>1 DEF FileFinal
  <1>4. d.contents[i] = Data(len)
    <2>1. 1 \in 1 .. 2 /\ \A r \in 1 + 1 .. 2 : ~OnContent(ws[r], i)
      BY <1>w DEF OnContent
    <2> QED BY <1>2, <1>w, <2>1, LastWrite
  <1>5. i \notin damaged \cup missized => SizeExactIn(d, i)
    BY <1>3, <1>4, <1>a DEF SizeExactIn
  <1>6. \A r \in 1 .. Len(ws) : ws[r].to # "handle"
    BY <1>w
  <1>7. SoundBut(missized, {i}, "File", ws)
    BY <1>1, <1>5, <1>6, SoundAbout
  <1> QED BY <1>7, SoundIs DEF ws, a

LEMMA SoundTimes ==
  ASSUME Inv, NEW i \in Inodes, Exists(i), HasContent(i), IsFile(i), NEW len \in Nat, NEW ms,
         i \notin damaged \cup ms => len = inodes[i].size
  PROVE  SoundBut(ms, {i}, "File", (Truncate(i, len) \o <<Touch(i)>>))
  <1> DEFINE a == [inodes[i] EXCEPT !.size = len]
             data == WriteContent(i, Data(len))
             ws == <<data, WriteInode(i, a), Touch(i)>>
             d == After(ws, Len(ws))
  <1>0. inodes[i] \in Attributes
    BY Facts
  <1>a. /\ a \in Attributes /\ a.kind = inodes[i].kind /\ a.hardlinks = inodes[i].hardlinks
        /\ a.open_file_handles = inodes[i].open_file_handles
        /\ inodes[i].open_file_handles \in Nat
    BY <1>0 DEF Attributes
  <1> HIDE DEF a, data
  <1>v. ws = Truncate(i, len) \o <<Touch(i)>>
    BY DEF Truncate, a, data
  <1>u. Len(ws) = 3 /\ DOMAIN ws = 1 .. 3 /\ ws[1] = data /\ ws[2] = WriteInode(i, a) /\ ws[3] = Touch(i)
    OBVIOUS
  <1> HIDE DEF ws
  <1>w. /\ Len(ws) = 3 /\ DOMAIN ws = 1 .. 3
        /\ ws[1].to = "content" /\ ws[1].i = i /\ ws[1].val = Data(len)
        /\ ws[2].to = "inode" /\ ws[2].i = i /\ ws[2].val = a
        /\ ws[3].to = "inode" /\ ws[3].i = i /\ ws[3].val = inodes[i]
    BY <1>u DEF WriteInode, WriteContent, Touch, data
  <1> HIDE DEF ws
  <1>1. AboutFile(i, 3, ws)
    <2>1. Data(len) \in [kind : {"Data"}, len : Nat] /\ ~IsDir(i) /\ ~TornContent(i)
      BY DataUntorn DEF Data, IsFile, IsDir
    <2>2. Keeps(i, a) /\ Keeps(i, inodes[i])
      BY <1>0, <1>a DEF Keeps
    <2> QED BY <1>w, <2>1, <2>2 DEF AboutFile
  <1>2. Prefix({i}, "File", ws, Len(ws))
    BY <1>1, AboutFileValid
  <1>3. d.inodes[i] = inodes[i]
    <2>1. FileFinal(i, 3, ws, d)
      BY <1>1, AboutFileFinal
    <2> HIDE DEF d
    <2> QED BY <1>w, <2>1 DEF FileFinal
  <1>4. d.contents[i] = Data(len)
    <2>1. 1 \in 1 .. 3 /\ \A r \in 1 + 1 .. 3 : ~OnContent(ws[r], i)
      BY <1>w DEF OnContent
    <2> QED BY <1>2, <1>w, <2>1, LastWrite
  <1>5. i \notin damaged \cup ms => SizeExactIn(d, i)
    BY <1>3, <1>4 DEF SizeExactIn
  <1>6. \A r \in 1 .. Len(ws) : ws[r].to # "handle"
    BY <1>w
  <1>7. SoundBut(ms, {i}, "File", ws)
    BY <1>1, <1>5, <1>6, SoundAbout
  <1> QED BY <1>7, <1>v

(* The size alone.                                                         *)
LEMMA SoundSize ==
  ASSUME Inv, NEW i \in Inodes, Exists(i), NEW end \in Nat
  PROVE  /\ end > inodes[i].size => SoundBut(missized \cup {i}, {i}, "File", <<Resize(i, end)>>)
         /\ ~(end > inodes[i].size) => Sound({i}, "File", <<Resize(i, end)>>)
  <1> DEFINE a == [inodes[i] EXCEPT !.size = Longer(@, end)]
             ws == <<Resize(i, end)>>
  <1>0. inodes[i] \in Attributes /\ inodes[i].size \in Nat /\ Longer(inodes[i].size, end) \in Nat
    BY Facts DEF Attributes, Longer
  <1>1. ASSUME ~(end > inodes[i].size) PROVE ws = <<Touch(i)>>
    <2>1. Longer(inodes[i].size, end) = inodes[i].size
      BY <1>0, <1>1 DEF Longer
    <2>2. a = inodes[i]
      BY <1>0, <2>1 DEF Attributes
    <2> QED BY <2>2 DEF Resize, Touch
  <1>2. SoundBut(missized \cup {i}, {i}, "File", ws)
    <2>a. /\ a \in Attributes /\ a.kind = inodes[i].kind /\ a.hardlinks = inodes[i].hardlinks
          /\ a.open_file_handles = inodes[i].open_file_handles
          /\ inodes[i].open_file_handles \in Nat
      BY <1>0 DEF Attributes
    <2>w. /\ Len(ws) = 1 /\ DOMAIN ws = 1 .. 1
          /\ ws[1].to = "inode" /\ ws[1].i = i /\ ws[1].val = a
      BY DEF Resize, WriteInode
    <2> HIDE DEF a, ws
    <2>1. AboutFile(i, 1, ws)
      <3>1. Keeps(i, a)
        BY <2>a DEF Keeps
      <3> QED BY <2>w, <3>1 DEF AboutFile
    <2>2. \A r \in 1 .. Len(ws) : ws[r].to # "handle"
      BY <2>w
    <2> QED BY <2>1, <2>2, SoundAbout
  <1> QED BY <1>1, <1>2, SoundTouch

LEMMA SoundExtend ==
  ASSUME Inv, NEW i \in Inodes, handles[i] > 0, IsFile(i), NEW end \in Nat
  PROVE  Sound({i}, "File", Extend(i, end))
  <1>0. Exists(i) /\ (HasContent(i) \/ i = FUSE_ROOT_ID)
    BY Facts
  <1>r. i # FUSE_ROOT_ID
    BY <1>0, Facts DEF IsFile, IsDir
  <1>1. Exists(i) /\ HasContent(i) /\ inodes[i] \in Attributes /\ contents[i] \in Content
    BY <1>0, <1>r, Facts
  <1>2. contents[i].kind # "Directory"
    BY <1>1, Facts DEF IsFile, IsDir
  <1>3. contents[i].len \in Nat /\ inodes[i].size \in Nat
    BY <1>1, <1>2 DEF Content, Attributes
  <1>4. i \notin damaged \cup missized => contents[i].len = inodes[i].size
    <2>1. i \notin damaged \cup missized => SizeExactIn(Before, i)
      BY DEF Inv, Exact, ExactBut
    <2> QED BY <1>1, <2>1 DEF SizeExactIn, Before, IsFile, Data, Exists
  <1>5. Longer(contents[i].len, end) \in Nat /\ Longer(inodes[i].size, end) \in Nat
    BY <1>3 DEF Longer
  <1>6. Extend(i, end) = <<WriteContent(i, Data(Longer(contents[i].len, end))),
                           WriteInode(i, [inodes[i] EXCEPT !.size = Longer(inodes[i].size, end)])>>
    BY DEF Extend, Resize
  <1> QED BY <1>1, <1>4, <1>5, <1>6, SoundResize

-----------------------------------------------------------------------------
(* Handlers that make an inode.  After the parent was touched and the      *)
(* number allocated, the attributes a, the content c and the name are      *)
(* written, at la, lc and le; a symlink has been truncated before, and a   *)
(* file may be opened at the end.  There is no name, and le is zero, if    *)
(* the parent is the root without its directory.                           *)
NewName(parent, m) == [Entries(parent) EXCEPT ![m] = NextInode]
IsTruncation(k, ws, la, lc, r) ==
  /\ k = "Symlink" /\ la < r /\ r < lc
  /\ ws[r].to = "content" /\ ws[r].i = NextInode /\ ws[r].val = Data(0)
Makes(parent, m, k, a, c, ws, la, lc, le) ==
  /\ Len(ws) \in Nat /\ DOMAIN ws = 1 .. Len(ws)
  /\ la \in 3 .. Len(ws) /\ lc \in 3 .. Len(ws) /\ (le = 0 \/ le \in 3 .. Len(ws))
  /\ la < lc /\ la # le /\ lc # le /\ (k = "Symlink" \/ le = 0 \/ lc < le)
  /\ ws[1] = Touch(parent) /\ ws[2] = AllocateInode
  /\ ws[la] = WriteInode(NextInode, a)
  /\ ws[lc] = WriteContent(NextInode, c)
  /\ le # 0 => HasContent(parent) /\ ws[le] = WriteDir(parent, NewName(parent, m))
  /\ \A r \in 3 .. Len(ws) : \/ r \in {la, lc, le} \/ ws[r] = Touch(parent)
                             \/ ws[r] = Opened(NextInode) /\ r = Len(ws)
                             \/ IsTruncation(k, ws, la, lc, r)
  /\ ws[Len(ws)] = Opened(NextInode) => a.open_file_handles >= 1

NewValues(parent, k, a, c) ==
  /\ k \in {"Directory", "File", "Symlink"}
  /\ a \in Attributes /\ a.kind = k
  /\ IF k = "Directory" THEN a.hardlinks = 2 /\ c = Directory(NewEntries(NextInode, parent))
     ELSE a.hardlinks = 1 /\ c = Data(a.size)

(* The name is free, and the number too.                                   *)
MayMake(parent, m) ==
  /\ parent \in Inodes /\ Exists(parent) /\ IsDir(parent) /\ ~TornContent(parent)
  /\ m \in Names /\ lookup_name(parent, m) = NoEntry /\ MayAllocate

(* A name that is not found is at most one that a crash has left behind.   *)
LEMMA FreeName ==
  ASSUME Inv, NEW p \in Inodes, Exists(p), NEW m \in Names, lookup_name(p, m) = NoEntry
  PROVE  \A j \in Inodes : Exists(j) \/ j \notin damaged => Entry(p, m) # j
  <1> SUFFICES ASSUME NEW j \in Inodes, Exists(j) \/ j \notin damaged, Entry(p, m) = j PROVE FALSE
    OBVIOUS
  <1>1. ~Exists(j) /\ j # FUSE_ROOT_ID
    <2>1. j # NoEntry
      BY Constants DEF Inodes, NoEntry
    <2> QED BY <2>1, LookupFacts, Facts
  <1>2. LinksExactIn(Before, j)
    BY <1>1 DEF Inv, Exact, ExactBut
  <1>3. PlacesIn(Before, j) = {}
    BY <1>1, <1>2 DEF LinksExactIn, Exists, Before
  <1>4. EntryIn(Before, p, m) = j /\ Before.inodes[p] # Missing
    BY DEF EntryIn, Entry, Entries, Before, Exists
  <1>5. <<p, m>> \in PlacesIn(Before, j)
    BY <1>4 DEF PlacesIn
  <1> QED BY <1>3, <1>5

LEMMA NewFacts ==
  ASSUME Inv, NEW parent, NEW m, MayMake(parent, m), NEW k, NEW a, NEW c,
         NewValues(parent, k, a, c)
  PROVE  /\ parent # NextInode /\ parent <= superblock /\ parent \in Nat
         /\ NewName(parent, m) \in [AllNames -> Nat]
         /\ \A x \in AllNames : NewName(parent, m)[x] = IF x = m THEN NextInode ELSE Entry(parent, x)
         /\ NewEntries(NextInode, parent) \in [AllNames -> Nat]
         /\ \A x \in Names : NewEntries(NextInode, parent)[x] = NoEntry
         /\ NewEntries(NextInode, parent)["."] = NextInode
         /\ NewEntries(NextInode, parent)[".."] = parent
         /\ c \in Content /\ (c.kind = "Directory" <=> k = "Directory")
         /\ k = "Directory" => c.entries = NewEntries(NextInode, parent)
         /\ m \in AllNames /\ ".." # m
         /\ \A j \in Inodes \ damaged : Entry(parent, m) # j
  <1>1. parent \in Inodes /\ Exists(parent) /\ IsDir(parent) /\ m \in Names
    BY DEF MayMake
  <1>2. ~Exists(NextInode) /\ NextInode \in Nat
    BY NextIsFree, Facts DEF MayMake
  <1>3. parent # NextInode /\ parent <= superblock /\ parent \in Nat
    BY <1>1, <1>2, Facts, Constants DEF Inodes
  <1>4. m \in AllNames /\ ".." # m /\ "." # m /\ Names \subseteq AllNames /\ {".", ".."} \subseteq AllNames
    BY <1>1, Constants DEF AllNames
  <1>5. /\ Entries(parent) \in [AllNames -> Nat]
        /\ \A x \in AllNames : Entries(parent)[x] = Entry(parent, x)
    <2>1. \A x \in AllNames : Entry(parent, x) \in Nat
      BY <1>1, Facts
    <2>2. Entries(parent) = [x \in AllNames |-> Entry(parent, x)]
      BY DEF Entries, AllNames
    <2> QED BY <2>1, <2>2
  <1>6. /\ NewName(parent, m) \in [AllNames -> Nat]
        /\ \A x \in AllNames : NewName(parent, m)[x] = IF x = m THEN NextInode ELSE Entry(parent, x)
    BY <1>2, <1>4, <1>5 DEF NewName
  <1>7. NoEntries \in [AllNames -> Nat] /\ \A x \in AllNames : NoEntries[x] = NoEntry
    BY DEF NoEntries, AllNames, NoEntry
  <1>8. /\ NewEntries(NextInode, parent) \in [AllNames -> Nat]
        /\ NewEntries(NextInode, parent)["."] = NextInode
        /\ NewEntries(NextInode, parent)[".."] = parent
    BY <1>2, <1>3, <1>4, <1>7 DEF NewEntries
  <1>9. \A x \in Names : NewEntries(NextInode, parent)[x] = NoEntry
    <2> SUFFICES ASSUME NEW x \in Names PROVE NewEntries(NextInode, parent)[x] = NoEntry
      OBVIOUS
    <2>1. x \in AllNames /\ x # "." /\ x # ".."
      BY Constants DEF AllNames
    <2> QED BY <1>7, <2>1 DEF NewEntries
  <1>10. c \in Content /\ (c.kind = "Directory" <=> k = "Directory")
         /\ (k = "Directory" => c.entries = NewEntries(NextInode, parent))
    <2>1. CASE k = "Directory"
      BY <1>8, <2>1 DEF NewValues, Directory, Content
    <2>2. CASE k # "Directory"
      <3>1. a.size \in Nat /\ c = Data(a.size)
        BY <2>2 DEF NewValues, Attributes
      <3> QED BY <2>2, <3>1 DEF Data, Content
    <2> QED BY <2>1, <2>2
  <1>11. \A j \in Inodes \ damaged : Entry(parent, m) # j
    BY <1>1, FreeName DEF MayMake
  <1> QED BY <1>3, <1>4, <1>6, <1>8, <1>9, <1>10, <1>11

(* The same, write by write.                                               *)
LEMMA MakesWrites ==
  ASSUME NEW parent, NEW m, NEW k, NEW a, NEW c, NEW ws, NEW la, NEW lc, NEW le,
         Makes(parent, m, k, a, c, ws, la, lc, le)
  PROVE  /\ Len(ws) \in Nat /\ DOMAIN ws = 1 .. Len(ws) /\ Len(ws) >= 3
         /\ la \in 3 .. Len(ws) /\ lc \in 3 .. Len(ws) /\ (le = 0 \/ le \in 3 .. Len(ws))
         /\ la < lc /\ la # le /\ lc # le /\ (k = "Symlink" \/ le = 0 \/ lc < le)
         /\ ws[1].to = "inode" /\ ws[1] = Touch(parent)
         /\ ws[2].to = "superblock" /\ ws[2] = AllocateInode
         /\ ws[la].to = "inode" /\ ws[la].i = NextInode /\ ws[la].val = a
         /\ ws[lc].to = "content" /\ ws[lc].i = NextInode /\ ws[lc].val = c
         /\ le # 0 => /\ HasContent(parent) /\ ws[le].to = "content" /\ ws[le].i = parent
                      /\ ws[le].val = Directory(NewName(parent, m))
         /\ \A r \in 3 .. Len(ws) : \/ r = la \/ r = lc \/ r = le
                                    \/ ws[r] = Touch(parent) /\ ws[r].to = "inode"
                                    \/ ws[r] = Opened(NextInode) /\ r = Len(ws) /\ ws[r].to = "handle"
                                    \/ IsTruncation(k, ws, la, lc, r)
         /\ ws[Len(ws)] = Opened(NextInode) => a.open_file_handles >= 1
  <1>1. /\ Len(ws) \in Nat /\ DOMAIN ws = 1 .. Len(ws)
        /\ la \in 3 .. Len(ws) /\ lc \in 3 .. Len(ws) /\ (le = 0 \/ le \in 3 .. Len(ws))
        /\ la < lc /\ la # le /\ lc # le /\ (k = "Symlink" \/ le = 0 \/ lc < le)
    BY Zenon DEF Makes
  <1>2. /\ ws[1] = Touch(parent) /\ ws[2] = AllocateInode /\ ws[la] = WriteInode(NextInode, a)
        /\ ws[lc] = WriteContent(NextInode, c)
        /\ le # 0 => HasContent(parent) /\ ws[le] = WriteDir(parent, NewName(parent, m))
        /\ ws[Len(ws)] = Opened(NextInode) => a.open_file_handles >= 1
    BY Zenon DEF Makes
  <1>3. \A r \in 3 .. Len(ws) : \/ r \in {la, lc, le} \/ ws[r] = Touch(parent)
                                \/ ws[r] = Opened(NextInode) /\ r = Len(ws)
                                \/ IsTruncation(k, ws, la, lc, r)
    BY Zenon DEF Makes
  <1>4. /\ Touch(parent).to = "inode" /\ AllocateInode.to = "superblock"
        /\ Opened(NextInode).to = "handle"
    BY DEF Touch, WriteInode, AllocateInode, Opened
  <1>5. /\ ws[la].to = "inode" /\ ws[la].i = NextInode /\ ws[la].val = a
        /\ ws[lc].to = "content" /\ ws[lc].i = NextInode /\ ws[lc].val = c
        /\ le # 0 => /\ HasContent(parent) /\ ws[le].to = "content" /\ ws[le].i = parent
                     /\ ws[le].val = Directory(NewName(parent, m))
    BY <1>2 DEF WriteInode, WriteDir, WriteContent
  <1>6. Len(ws) >= 3
    BY <1>1
  <1>7. \A r \in 3 .. Len(ws) : \/ r = la \/ r = lc \/ r = le
                                \/ ws[r] = Touch(parent) /\ ws[r].to = "inode"
                                \/ ws[r] = Opened(NextInode) /\ r = Len(ws) /\ ws[r].to = "handle"
                                \/ IsTruncation(k, ws, la, lc, r)
    BY <1>3, <1>4
  <1> QED BY <1>1, <1>2, <1>4, <1>5, <1>6, <1>7

LEMMA MakesValid ==
  ASSUME Inv, NEW parent, NEW m, MayMake(parent, m), NEW k, NEW a, NEW c,
         NewValues(parent, k, a, c), NEW ws, NEW la, NEW lc, NEW le,
         Makes(parent, m, k, a, c, ws, la, lc, le)
  PROVE  /\ Safe({NextInode}, k, ws) /\ PanicAt(ws) = {}
         /\ Prefix({NextInode}, k, ws, Len(ws))
  <1> DEFINE i == NextInode
             is == {NextInode}
  <1>0. /\ Len(ws) \in Nat /\ DOMAIN ws = 1 .. Len(ws) /\ la \in 3 .. Len(ws) /\ lc \in 3 .. Len(ws)
        /\ (le = 0 \/ le \in 3 .. Len(ws)) /\ la < lc /\ Len(ws) >= 3
    BY MakesWrites
  <1>w. /\ ws[1].to = "inode" /\ ws[1] = Touch(parent)
        /\ ws[2].to = "superblock" /\ ws[2] = AllocateInode
        /\ ws[la].to = "inode" /\ ws[la].i = i /\ ws[la].val = a
        /\ ws[lc].to = "content" /\ ws[lc].i = i /\ ws[lc].val = c
        /\ le # 0 => /\ HasContent(parent) /\ ws[le].to = "content" /\ ws[le].i = parent
                     /\ ws[le].val = Directory(NewName(parent, m))
    BY MakesWrites
  <1>r. \A r \in 3 .. Len(ws) : \/ r = la \/ r = lc \/ r = le
                                \/ ws[r] = Touch(parent) /\ ws[r].to = "inode"
                                \/ ws[r] = Opened(NextInode) /\ r = Len(ws) /\ ws[r].to = "handle"
                                \/ IsTruncation(k, ws, la, lc, r)
    BY MakesWrites
  <1>1. /\ i \in Inodes /\ i = superblock + 1 /\ i # FUSE_ROOT_ID /\ ~Exists(i) /\ ~HasContent(i)
        /\ i # NoEntry /\ (\A p \in Inodes, x \in AllNames : Entry(p, x) # i)
        /\ ~TornInode(i) /\ ~TornContent(i)
    BY NextIsFree DEF MayMake
  <1>2. parent \in Inodes /\ Exists(parent) /\ IsDir(parent) /\ ~TornContent(parent) /\ m \in Names
    BY DEF MayMake
  <1>3. /\ parent # i /\ parent <= superblock /\ parent \in Nat /\ superblock \in Nat
        /\ inodes[parent] \in Attributes /\ inodes[parent].kind = "Directory"
        /\ m \in AllNames /\ ".." # m
    BY <1>2, NewFacts, Facts DEF IsDir
  <1>b. \A r \in 2 .. Len(ws) : Bound(ws, r) = superblock + 1
    BY <1>0, <1>w DEF Bound, AllocateInode, NextInode
  <1>b1. Bound(ws, 1) = superblock
    BY DEF Bound
  <1>t. ASSUME NEW r \in 1 .. Len(ws), ws[r] = Touch(parent) PROVE ValidAt(is, k, ws, r)
    <2>1. ws[r].to = "inode" /\ ws[r].i = parent /\ ws[r].val = inodes[parent]
      BY <1>t DEF Touch, WriteInode
    <2>2. ValidInode(is, k, ws[r])
      BY <1>2, <1>3, <2>1 DEF ValidInode, Kind
    <2>3. parent <= Bound(ws, r)
      BY <1>0, <1>3, <1>b, <1>b1
    <2> QED BY <1>2, <2>1, <2>2, <2>3 DEF ValidAt
  <1>4. ValidAt(is, k, ws, 2)
    <2>1. ws[2].to = "superblock" /\ ws[2] = AllocateInode /\ MayAllocate
      BY <1>w DEF MayMake
    <2> QED BY <2>1 DEF ValidAt
  <1>5. ValidAt(is, k, ws, la)
    <2>1. ws[la].to = "inode" /\ ws[la].i = i /\ ws[la].val = a
      BY <1>w
    <2>2. ValidInode(is, k, ws[la])
      BY <1>1, <2>1 DEF ValidInode, Kind, NewValues
    <2>3. i <= Bound(ws, la)
      BY <1>0, <1>1, <1>3, <1>b
    <2> QED BY <1>1, <2>1, <2>2, <2>3 DEF ValidAt
  <1>6. ValidAt(is, k, ws, lc)
    <2>1. ws[lc].to = "content" /\ ws[lc].i = i /\ ws[lc].val = c
      BY <1>w
    <2>2. c \in Content /\ (c.kind = "Directory" <=> k = "Directory")
          /\ (k = "Directory" => c.entries = NewEntries(NextInode, parent))
      BY NewFacts
    <2>3. \E r \in 1 .. lc - 1 : ws[r].to = "inode" /\ ws[r].i = i
      <3>1. ws[la].to = "inode" /\ ws[la].i = i /\ la \in 1 .. lc - 1
        BY <1>0, <1>w
      <3> QED BY <3>1
    <2>4. ASSUME k = "Directory"
          PROVE  /\ \A x \in AllNames : c.entries[x] <= Bound(ws, lc)
                 /\ \A x \in Names : c.entries[x] = NoEntry
      <3>1. \A x \in Names : c.entries[x] = NoEntry
        BY <2>2, <2>4, NewFacts
      <3>2. c.entries["."] = i /\ c.entries[".."] = parent
        BY <2>2, <2>4, NewFacts
      <3>3. Bound(ws, lc) = superblock + 1
        BY <1>0, <1>b
      <3> QED BY <1>1, <1>3, <3>1, <3>2, <3>3 DEF AllNames, NoEntry
    <2>5. \A x \in Names : Entry(i, x) = NoEntry
      BY <1>1, Facts
    <2>6. NoEntry \notin Inodes /\ FUSE_ROOT_ID \in Inodes
      BY Constants DEF Inodes, NoEntry
    <2>7. ValidContent(is, k, ws, lc)
      BY <1>1, <2>1, <2>2, <2>3, <2>4, <2>5, <2>6 DEF ValidContent, Kind
    <2>8. i <= Bound(ws, lc)
      BY <1>0, <1>1, <1>3, <1>b
    <2> QED BY <1>1, <2>1, <2>7, <2>8 DEF ValidAt
  <1>d. ASSUME NEW r \in 1 .. Len(ws), IsTruncation(k, ws, la, lc, r) PROVE ValidAt(is, k, ws, r)
    <2>1. /\ k = "Symlink" /\ la < r /\ ws[r].to = "content" /\ ws[r].i = i /\ ws[r].val = Data(0)
      BY <1>d DEF IsTruncation
    <2>2. Data(0) \in Content /\ Data(0).kind = "Data"
      BY DEF Data, Content
    <2>3. la \in 1 .. r - 1 /\ r \in 2 .. Len(ws)
      BY <1>0, <2>1
    <2>4. ValidContent(is, k, ws, r)
      BY <1>1, <1>w, <2>1, <2>2, <2>3 DEF ValidContent, Kind
    <2>5. i <= Bound(ws, r)
      BY <1>1, <1>3, <1>b, <2>3
    <2> QED BY <1>1, <2>1, <2>4, <2>5 DEF ValidAt
  <1>7. ASSUME le # 0 PROVE ValidAt(is, k, ws, le)
    <2> DEFINE e == NewName(parent, m)
    <2>0. le \in 3 .. Len(ws) /\ HasContent(parent)
      BY <1>0, <1>7, <1>w
    <2>1. ws[le].to = "content" /\ ws[le].i = parent /\ ws[le].val = Directory(e)
      BY <1>7, <1>w
    <2>2. e \in [AllNames -> Nat] /\ \A x \in AllNames : e[x] = IF x = m THEN i ELSE Entry(parent, x)
      BY NewFacts
    <2> HIDE DEF e
    <2>3. Directory(e) \in Content /\ Directory(e).kind = "Directory" /\ Directory(e).entries = e
      BY <2>2 DEF Content, Directory
    <2>4. e[".."] = Entry(parent, "..")
      BY <1>3, <2>2 DEF AllNames
    <2>5. \A x \in AllNames : e[x] <= Bound(ws, le)
      <3>1. Bound(ws, le) = superblock + 1
        BY <1>0, <1>b, <2>0
      <3>2. \A x \in AllNames : Entry(parent, x) \in Nat /\ Entry(parent, x) <= superblock
        BY <1>2, Facts
      <3> QED BY <1>1, <1>3, <2>2, <3>1, <3>2
    <2>6. MayName(is, k, ws, le, i)
      <3>1. k # "Symlink" => lc < le
        BY <1>7, MakesWrites
      <3>2. k # "Symlink" => lc \in 1 .. le - 1 /\ ws[lc].to = "content" /\ ws[lc].i = i
        BY <1>0, <1>w, <2>0, <3>1
      <3> QED BY <1>1, <3>2 DEF MayName
    <2>7. ASSUME NEW x \in Names
          PROVE  /\ e[x] # parent /\ e[x] # FUSE_ROOT_ID
                 /\ e[x] \in is => MayName(is, k, ws, le, e[x])
                 /\ e[x] \in Inodes \ is => Entry(parent, x) = e[x]
                 /\ \A j \in Inodes \ (is \cup damaged) : Entry(parent, x) = j => e[x] = j
      <3>1. x \in AllNames
        BY DEF AllNames
      <3>2. CASE x = m
        <4>1. e[x] = i
          BY <2>2, <3>1, <3>2
        <4>2. \A j \in Inodes \ damaged : Entry(parent, x) # j
          BY <3>2, NewFacts
        <4> QED BY <1>1, <1>3, <2>6, <4>1, <4>2
      <3>3. CASE x # m
        <4>1. e[x] = Entry(parent, x) /\ Entry(parent, x) # i
          BY <1>1, <1>2, <2>2, <3>1, <3>3
        <4>2. Entry(parent, x) # parent /\ Entry(parent, x) # FUSE_ROOT_ID
          BY <1>2, Facts
        <4> QED BY <4>1, <4>2
      <3> QED BY <3>2, <3>3
    <2>8. Kind(k, parent) = "Directory"
      BY <1>2 DEF Kind, IsDir
    <2>9. ValidContent(is, k, ws, le)
      BY <1>2, <2>0, <2>1, <2>3, <2>4, <2>5, <2>7, <2>8 DEF ValidContent
    <2>10. parent <= Bound(ws, le)
      BY <1>3, <1>b, <2>0
    <2> QED BY <1>2, <2>1, <2>9, <2>10 DEF ValidAt
  <1>8. ASSUME NEW r \in 1 .. Len(ws), ws[r] = Opened(NextInode), r >= 2 PROVE ValidAt(is, k, ws, r)
    <2>1. ws[r].to = "handle" /\ ws[r].i = i
      BY <1>8 DEF Opened
    <2>2. i <= Bound(ws, r)
      BY <1>1, <1>3, <1>8, <1>b
    <2> QED BY <1>1, <2>1, <2>2 DEF ValidAt
  <1>9. ASSUME NEW r \in 1 .. Len(ws)
        PROVE  /\ ValidAt(is, k, ws, r) /\ ws[r].to \notin {"panic", "rm_inode", "rm_content"}
               /\ ws[r].to = "content" => ~TornContent(ws[r].i)
               /\ ws[r].to = "handle" => ~TornInode(ws[r].i)
    <2>0. /\ Touch(parent).to = "inode" /\ Opened(NextInode).to = "handle"
          /\ Opened(NextInode).i = NextInode
      BY DEF Touch, WriteInode, Opened
    <2>1. CASE r = 1
      BY <1>t, <1>w, <2>1
    <2>2. CASE r = 2
      BY <1>4, <1>w, <2>2
    <2>3. CASE r = la \/ r = lc \/ r = le
      <3>1. r = le => le # 0
        OBVIOUS
      <3> QED BY <1>1, <1>2, <1>5, <1>6, <1>7, <1>w, <2>3, <3>1
    <2>7. CASE IsTruncation(k, ws, la, lc, r)
      BY <1>1, <1>d, <2>7 DEF IsTruncation
    <2>4. CASE ws[r] = Touch(parent)
      BY <1>t, <2>0, <2>4
    <2>5. CASE ws[r] = Opened(NextInode) /\ r >= 3
      <3>1. r >= 2
        BY <1>0, <2>5
      <3>2. ValidAt(is, k, ws, r)
        BY <1>8, <2>5, <3>1
      <3> QED BY <1>1, <2>0, <2>5, <3>2
    <2>6. r = 1 \/ r = 2 \/ r \in 3 .. Len(ws)
      BY <1>0
    <2> QED BY <1>r, <2>1, <2>2, <2>3, <2>4, <2>5, <2>6, <2>7
  <1>10. Valid(is, k, ws)
    <2>1. \A p \in Inodes, x \in Names : Entry(p, x) # i
      BY <1>1 DEF AllNames
    <2>2. k \in {"Directory", "File", "Symlink"}
      BY DEF NewValues
    <2> QED BY <1>0, <1>1, <1>9, <2>1, <2>2 DEF Valid
  <1>11. PanicAt(ws) = {}
    BY <1>0, <1>9, NeverPanics
  <1>12. Prefix(is, k, ws, Len(ws))
    BY <1>0, <1>9, <1>10 DEF Prefix, NoPanic, Inv
  <1>13. Untorn(ws)
    BY <1>9 DEF Untorn
  <1> QED BY <1>10, <1>11, <1>12, <1>13 DEF Safe

(* What a handler that makes an inode leaves.                              *)
LEMMA MakesStore ==
  ASSUME Inv, NEW parent, NEW m, MayMake(parent, m), NEW k, NEW a, NEW c,
         NewValues(parent, k, a, c), NEW ws, NEW la, NEW lc, NEW le,
         Makes(parent, m, k, a, c, ws, la, lc, le), le # 0, NEW d, d = After(ws, Len(ws))
  PROVE  /\ d.inodes[NextInode] = a /\ d.contents[NextInode] = c
         /\ d.contents[parent] = Directory(NewName(parent, m))
         /\ \A x \in Inodes \ {NextInode} : d.inodes[x] = inodes[x] /\ d.handles[x] = handles[x]
         /\ \A x \in Inodes \ {NextInode, parent} : d.contents[x] = contents[x]
         /\ \/ d.handles[NextInode] = 0
            \/ d.handles[NextInode] = 1 /\ a.open_file_handles >= 1
  <1> DEFINE i == NextInode
             is == {NextInode}
             N == Len(ws)
  <1>0. /\ N \in Nat /\ DOMAIN ws = 1 .. N /\ la \in 1 .. N /\ lc \in 1 .. N
        /\ le \in 1 .. N /\ la < lc /\ N >= 3 /\ la # le /\ lc # le
    BY MakesWrites
  <1>n. N \in Nat /\ N >= 3 /\ la \in Nat /\ lc \in Nat /\ le \in Nat /\ la >= 1 /\ lc >= 1 /\ le >= 1
    BY <1>0
  <1>1. Prefix(is, k, ws, N)
    BY MakesValid
  <1>2. i \in Inodes /\ handles[i] = 0 /\ parent \in Inodes /\ parent # i
    BY NextIsFree, NewFacts DEF MayMake
  <1>w. /\ ws[la].to = "inode" /\ ws[la].i = i /\ ws[la].val = a
        /\ ws[lc].to = "content" /\ ws[lc].i = i /\ ws[lc].val = c
        /\ le # 0 => /\ HasContent(parent) /\ ws[le].to = "content" /\ ws[le].i = parent
                     /\ ws[le].val = Directory(NewName(parent, m))
    BY MakesWrites
  <1>r. ASSUME NEW r \in 1 .. N
        PROVE  \/ r = la \/ r = lc \/ r = le
               \/ ws[r].to = "inode" /\ ws[r].i = parent
               \/ ws[r].to = "superblock"
               \/ ws[r].to = "handle" /\ ws[r].i = i /\ r = N /\ a.open_file_handles >= 1
               \/ ws[r].to = "content" /\ ws[r].i = i /\ r < lc
    <2>1. r = 1 \/ r = 2 \/ r \in 3 .. N
      BY <1>0
    <2>2. \A q \in 3 .. N : \/ q = la \/ q = lc \/ q = le
                            \/ ws[q] = Touch(parent) /\ ws[q].to = "inode"
                            \/ ws[q] = Opened(NextInode) /\ q = N /\ ws[q].to = "handle"
                            \/ IsTruncation(k, ws, la, lc, q)
      BY MakesWrites
    <2>3. ws[1] = Touch(parent) /\ ws[2].to = "superblock"
          /\ (ws[N] = Opened(NextInode) => a.open_file_handles >= 1)
      BY MakesWrites
    <2>4. Touch(parent).to = "inode" /\ Touch(parent).i = parent /\ Opened(NextInode).i = i
      BY DEF Touch, WriteInode, Opened
    <2>5. IsTruncation(k, ws, la, lc, r) => ws[r].to = "content" /\ ws[r].i = i /\ r < lc
      BY DEF IsTruncation
    <2> QED BY <2>1, <2>2, <2>3, <2>4, <2>5
  <1>3. d.inodes[i] = a
    <2>1. ASSUME NEW r \in la + 1 .. N PROVE ~OnInode(ws[r], i)
      <3>1. r \in 1 .. N /\ r # la
        BY <1>n
      <3> QED BY <1>2, <1>r, <1>w, <3>1 DEF OnInode
    <2> QED BY <1>0, <1>1, <1>2, <1>w, <2>1, LastWrite
  <1>4. d.contents[i] = c
    <2>1. ASSUME NEW r \in lc + 1 .. N PROVE ~OnContent(ws[r], i)
      <3>1. r \in 1 .. N /\ r # lc /\ ~(r < lc)
        BY <1>n
      <3> QED BY <1>2, <1>r, <1>w, <3>1 DEF OnContent
    <2> QED BY <1>0, <1>1, <1>2, <1>w, <2>1, LastWrite
  <1>5. d.contents[parent] = Directory(NewName(parent, m))
    <2>1. ASSUME NEW r \in le + 1 .. N PROVE ~OnContent(ws[r], parent)
      <3>1. r \in 1 .. N /\ r # le
        BY <1>n
      <3> QED BY <1>2, <1>r, <1>w, <3>1 DEF OnContent
    <2> QED BY <1>0, <1>1, <1>2, <1>w, <2>1, LastWrite
  <1>6. ASSUME NEW x \in Inodes \ {i} PROVE d.inodes[x] = inodes[x] /\ d.handles[x] = handles[x]
    <2>1. \A r \in 1 .. N : ~OnHandle(ws[r], x)
      BY <1>r, <1>w DEF OnHandle
    <2>2. OthersKept(is, d)
      BY <1>0, <1>1, PrefixOthers
    <2> QED BY <1>1, <2>1, <2>2, NotWritten DEF OthersKept
  <1>7. ASSUME NEW x \in Inodes \ {i, parent} PROVE d.contents[x] = contents[x]
    <2>1. \A r \in 1 .. N : ~OnContent(ws[r], x)
      BY <1>r, <1>w DEF OnContent
    <2> QED BY <1>1, <2>1, NotWritten
  <1>8. d.handles[i] = 0 \/ (d.handles[i] = 1 /\ a.open_file_handles >= 1)
    <2>1. \A r \in 0 + 1 .. N - 1 : ~OnHandle(ws[r], i)
      <3> SUFFICES ASSUME NEW r \in 0 + 1 .. N - 1 PROVE ~OnHandle(ws[r], i)
        OBVIOUS
      <3>1. r \in 1 .. N /\ r # N
        BY <1>n
      <3> QED BY <1>r, <1>w, <3>1 DEF OnHandle
    <2>2. After(ws, N - 1).handles[i] = After(ws, 0).handles[i]
      <3>1. 0 \in 0 .. N /\ N - 1 \in 0 .. N
        BY <1>0
      <3> QED BY <1>1, <1>2, <2>1, <3>1, Untouched
    <2>3. After(ws, 0).handles = handles
      BY AfterStep DEF Before
    <2>4. Written(After(ws, N - 1), ws[N], d)
      <3>1. N \in 1 .. N
        BY <1>0
      <3> QED BY <1>1, <3>1, PrefixWrites
    <2>5. d.handles[i] = 0 + IF ws[N].to = "handle" /\ ws[N].i = i THEN 1 ELSE 0
      BY <1>2, <2>2, <2>3, <2>4 DEF Written
    <2>6. N \in 1 .. N
      BY <1>0
    <2> QED BY <1>r, <1>w, <2>5, <2>6
  <1> QED BY <1>3, <1>4, <1>5, <1>6, <1>7, <1>8

LEMMA MakesSound ==
  ASSUME Inv, NEW parent, NEW m, MayMake(parent, m), NEW k, NEW a, NEW c,
         NewValues(parent, k, a, c), NEW ws, NEW la, NEW lc, NEW le,
         Makes(parent, m, k, a, c, ws, la, lc, le), le # 0
  PROVE  Sound({NextInode}, k, ws)
  <1> DEFINE i == NextInode
             is == {NextInode}
             d == After(ws, Len(ws))
  <1>1. Safe(is, k, ws) /\ PanicAt(ws) = {} /\ Prefix(is, k, ws, Len(ws))
    BY MakesValid
  <1>2. /\ i \in Inodes /\ handles[i] = 0 /\ parent \in Inodes /\ parent # i /\ m \in Names
        /\ \A p \in Inodes, x \in Names : Entry(p, x) # i
        /\ inodes[parent] \in Attributes /\ Exists(parent)
    BY NextIsFree, NewFacts, Facts DEF MayMake, AllNames
  <1>3. /\ d.inodes[i] = a /\ d.contents[i] = c
        /\ d.contents[parent] = Directory(NewName(parent, m))
        /\ \A x \in Inodes \ {i} : d.inodes[x] = inodes[x] /\ d.handles[x] = handles[x]
        /\ \A x \in Inodes \ {i, parent} : d.contents[x] = contents[x]
        /\ \/ d.handles[i] = 0
           \/ d.handles[i] = 1 /\ a.open_file_handles >= 1
    BY MakesStore
  <1>4. /\ a \in Attributes /\ a # Missing /\ a.open_file_handles \in Nat /\ a.kind = k
        /\ c \in Content /\ c # Missing /\ (c.kind = "Directory" <=> k = "Directory")
    <2>1. a \in Attributes /\ a.kind = k
      BY DEF NewValues
    <2>2. a # Missing /\ a.open_file_handles \in Nat
      BY <2>1 DEF Attributes, Missing
    <2>3. c \in Content /\ (c.kind = "Directory" <=> k = "Directory")
      BY NewFacts
    <2>4. c # Missing
      BY <2>3 DEF Content, Missing
    <2> QED BY <2>1, <2>2, <2>3, <2>4
  <1>5. OpenKept(d)
    <2>1. ASSUME NEW r \in 1 .. Len(ws)
          PROVE  /\ ws[r].to = "inode" => ws[r].val.open_file_handles >= handles[ws[r].i]
                 /\ ws[r].to \notin {"rm_inode", "rm_content"}
      <3>1. inodes[parent].open_file_handles \in Nat /\ handles[parent] \in Nat
            /\ (handles[parent] > 0 => inodes[parent].open_file_handles >= handles[parent])
        BY <1>2, Facts DEF Attributes
      <3>2. r = 1 \/ r = 2 \/ r \in 3 .. Len(ws)
        BY MakesWrites
      <3>3. Touch(parent).to = "inode" /\ Touch(parent).i = parent /\ Touch(parent).val = inodes[parent]
        BY DEF Touch, WriteInode
      <3>4. /\ ws[1] = Touch(parent) /\ ws[2].to = "superblock"
            /\ ws[la].to = "inode" /\ ws[la].i = i /\ ws[la].val = a
            /\ ws[lc].to = "content" /\ ws[le].to = "content"
            /\ (IsTruncation(k, ws, la, lc, r) => ws[r].to = "content")
        BY MakesWrites DEF IsTruncation
      <3>5. \A q \in 3 .. Len(ws) : \/ q = la \/ q = lc \/ q = le
                                    \/ ws[q] = Touch(parent) /\ ws[q].to = "inode"
                                    \/ ws[q] = Opened(NextInode) /\ q = Len(ws) /\ ws[q].to = "handle"
                                    \/ IsTruncation(k, ws, la, lc, q)
        BY MakesWrites
      <3> QED BY <1>2, <1>4, <3>1, <3>2, <3>3, <3>4, <3>5
    <2>2. KeepsCounts(ws, Len(ws))
      BY <2>1 DEF KeepsCounts
    <2>3. StillOpen(d)
      BY <1>1, <2>2, PrefixOpen DEF Inv
    <2> SUFFICES ASSUME NEW x \in Inodes, d.handles[x] > 0
                 PROVE  /\ d.inodes[x] # Missing /\ (d.contents[x] # Missing \/ x = FUSE_ROOT_ID)
                        /\ d.inodes[x].open_file_handles >= d.handles[x]
      BY DEF OpenKept
    <2>4. CASE x = i
      BY <1>3, <1>4, <2>4
    <2>5. CASE x # i
      BY <1>3, <2>3, <2>5 DEF StillOpen
    <2> HIDE DEF d
    <2> QED BY <2>4, <2>5
  <1>6. Exact(d, i)
    <2>1. EntryIn(d, parent, m) = i /\ \A y \in Names : y # m => EntryIn(d, parent, y) = Entry(parent, y)
      <3>1. \A x \in AllNames : NewName(parent, m)[x] = IF x = m THEN i ELSE Entry(parent, x)
        BY NewFacts
      <3> HIDE DEF d
      <3> QED BY <1>2, <1>3, <3>1 DEF EntryIn, Directory, AllNames
    <2>2. \A y \in Names : EntryIn(d, i, y) = NoEntry
      <3>1. k = "Directory" => /\ c.entries = NewEntries(i, parent)
                               /\ \A y \in Names : NewEntries(i, parent)[y] = NoEntry
        BY NewFacts
      <3> HIDE DEF d
      <3> QED BY <1>3, <1>4, <3>1 DEF EntryIn
    <2>3. \A x \in Inodes \ {i, parent}, y \in Names : EntryIn(d, x, y) = Entry(x, y)
      <3> HIDE DEF d
      <3> QED BY <1>3 DEF EntryIn, Entry, Entries
    <2>4. i # NoEntry
      BY NextIsFree DEF MayMake
    <2>9. i # FUSE_ROOT_ID
      BY NextIsFree DEF MayMake
    <2>5. d.inodes[parent] # Missing
      BY <1>2, <1>3 DEF Exists
    <2>6. PlacesIn(d, i) = {<<parent, m>>}
      <3> HIDE DEF d
      <3>1. ASSUME NEW x \in Inodes, NEW y \in Names, EntryIn(d, x, y) = i PROVE x = parent /\ y = m
        BY <1>2, <2>1, <2>2, <2>3, <2>4, <3>1
      <3>2. <<parent, m>> \in PlacesIn(d, i)
        BY <1>2, <2>1, <2>5 DEF PlacesIn
      <3>3. ASSUME NEW pm \in PlacesIn(d, i) PROVE pm = <<parent, m>>
        BY <3>1 DEF PlacesIn
      <3> QED BY <3>2, <3>3
    <2>7. CASE k = "Directory"
      <3>1. a.hardlinks = 2 /\ EntryIn(d, i, "..") = parent
        <4>1. c.entries = NewEntries(i, parent) /\ NewEntries(i, parent)[".."] = parent
          BY <2>7, NewFacts
        <4> HIDE DEF d
        <4> QED BY <1>3, <1>4, <2>7, <4>1 DEF EntryIn, NewValues
      <3>2. LinksExactIn(d, i)
        BY <1>3, <1>4, <2>6, <2>7, <3>1 DEF LinksExactIn
      <3>3. SizeExactIn(d, i)
        BY <1>3, <1>4, <2>7 DEF SizeExactIn
      <3> QED BY <2>9, <3>2, <3>3 DEF Exact, ExactBut
    <2>8. CASE k # "Directory"
      <3>1. a.hardlinks = 1 /\ c = Data(a.size)
        BY <2>8 DEF NewValues
      <3>2. Cardinality({<<parent, m>>}) = 1
        BY FS_Singleton
      <3>3. LinksExactIn(d, i)
        BY <1>3, <1>4, <2>6, <2>8, <3>1, <3>2 DEF LinksExactIn
      <3>4. SizeExactIn(d, i)
        BY <1>3, <3>1 DEF SizeExactIn
      <3> QED BY <2>9, <3>3, <3>4 DEF Exact, ExactBut
    <2> QED BY <2>7, <2>8
  <1>7. Finishes(is, ws)
    BY <1>5, <1>6 DEF Finishes
  <1> QED BY <1>1, <1>7 DEF Sound

(* A handler that is sound, or that panics for certain on damage.          *)
Sure(is, k, ws) == Sound(is, k, ws) \/ \E v : Safe(is, k, v) /\ Cut(ws, v)

LEMMA SureStep ==
  ASSUME NEW is, NEW k, NEW ws, Inv, Sure(is, k, ws), Handle(is, ws), UNCHANGED limit,
         ~TornInode(FUSE_ROOT_ID)
  PROVE  Fine
  <1>1. CASE Sound(is, k, ws)
    BY <1>1, HandleStep
  <1>2. ASSUME NEW v, Safe(is, k, v), Cut(ws, v) PROVE Fine
    BY <1>2, CutStep
  <1> QED BY <1>1, <1>2 DEF Sure

(* A directory without content is damaged.                                 *)
LEMMA BareDamaged ==
  ASSUME Inv, NEW p \in Inodes, Exists(p), ~HasContent(p)
  PROVE  p \in damaged
  <1> SUFFICES ASSUME p \notin damaged PROVE FALSE
    OBVIOUS
  <1>1. Exact(Before, p) /\ Before.inodes = inodes /\ Before.contents = contents
    BY DEF Inv, Before
  <1> QED BY <1>1 DEF Exact, ExactBut, LinksExactIn, Exists, HasContent

(* In the root without its directory the new inode gets no name.           *)
Nameless(parent, a, c, ws) ==
  /\ Len(ws) \in Nat /\ DOMAIN ws = 1 .. Len(ws)
  /\ \/ /\ Len(ws) >= 5 /\ ws[1] = Touch(parent) /\ ws[2] = AllocateInode
        /\ ws[3] = WriteInode(NextInode, a) /\ ws[4] = WriteContent(NextInode, c)
        /\ ws[5] = Panic(parent)
     \/ /\ Len(ws) >= 4 /\ ws[1] = Touch(parent) /\ ws[2] = AllocateInode
        /\ ws[3] = Touch(parent) /\ ws[4] = Panic(parent)

LEMMA BareMakes ==
  ASSUME Inv, NEW parent, NEW m, MayMake(parent, m), ~HasContent(parent), NEW k, NEW a, NEW c,
         NewValues(parent, k, a, c), NEW ws, Nameless(parent, a, c, ws)
  PROVE  Sure({NextInode}, k, ws)
  <1>l. Len(ws) \in Nat /\ DOMAIN ws = 1 .. Len(ws)
    BY DEF Nameless
  <1>1. parent \in damaged
    BY BareDamaged DEF MayMake
  <1>p. Panic(parent).to = "panic" /\ Panic(parent).i = parent
    BY DEF Panic
  <1> DEFINE wi == WriteInode(NextInode, a)
             wc == WriteContent(NextInode, c)
  <1>o. wc # Opened(NextInode)
    BY DEF WriteContent, Opened
  <1> HIDE DEF wi, wc
  <1>2. CASE /\ Len(ws) >= 5 /\ ws[1] = Touch(parent) /\ ws[2] = AllocateInode
             /\ ws[3] = wi /\ ws[4] = wc /\ ws[5] = Panic(parent)
    <2> DEFINE v == <<Touch(parent), AllocateInode, wi, wc>>
    <2>1. /\ Len(v) = 4 /\ DOMAIN v = 1 .. 4 /\ v[1] = Touch(parent) /\ v[2] = AllocateInode
          /\ v[3] = wi /\ v[4] = wc
      OBVIOUS
    <2> HIDE DEF v
    <2>2. \A r \in 3 .. 4 : r \in {3, 4, 0}
      OBVIOUS
    <2>3. Makes(parent, m, k, a, c, v, 3, 4, 0)
      BY <1>o, <2>1, <2>2 DEF Makes, wi, wc
    <2>4. Safe({NextInode}, k, v)
      BY <2>3, MakesValid
    <2>5. 5 \in 1 .. Len(ws) /\ 5 - 1 = 4 /\ \A l \in 1 .. 4 : l = 1 \/ l = 2 \/ l = 3 \/ l = 4
      BY <1>2, <1>l
    <2>6. \A l \in 1 .. 5 - 1 : ws[l] = v[l]
      BY <1>2, <2>1, <2>5
    <2>7. Cut(ws, v)
      BY <1>1, <1>2, <1>l, <1>p, <2>1, <2>5, <2>6 DEF Cut
    <2> QED BY <2>4, <2>7 DEF Sure
  <1>3. CASE /\ Len(ws) >= 4 /\ ws[1] = Touch(parent) /\ ws[2] = AllocateInode
             /\ ws[3] = Touch(parent) /\ ws[4] = Panic(parent)
    <2> DEFINE v == <<Touch(parent), AllocateInode, Touch(parent), wi, wc>>
    <2>1. /\ Len(v) = 5 /\ DOMAIN v = 1 .. 5 /\ v[1] = Touch(parent) /\ v[2] = AllocateInode
          /\ v[3] = Touch(parent) /\ v[4] = wi /\ v[5] = wc
      OBVIOUS
    <2> HIDE DEF v
    <2>2. \A r \in 3 .. 5 : r \in {4, 5, 0} \/ v[r] = Touch(parent)
      BY <2>1
    <2>3. Makes(parent, m, k, a, c, v, 4, 5, 0)
      BY <1>o, <2>1, <2>2 DEF Makes, wi, wc
    <2>4. Safe({NextInode}, k, v)
      BY <2>3, MakesValid
    <2>5. 4 \in 1 .. Len(ws) /\ 4 - 1 = 3 /\ \A l \in 1 .. 3 : l = 1 \/ l = 2 \/ l = 3
      BY <1>3, <1>l
    <2>6. \A l \in 1 .. 4 - 1 : ws[l] = v[l]
      BY <1>3, <2>1, <2>5
    <2>7. Cut(ws, v)
      BY <1>1, <1>3, <1>l, <1>p, <2>1, <2>5, <2>6 DEF Cut
    <2> QED BY <2>4, <2>7 DEF Sure
  <1> QED BY <1>2, <1>3 DEF wi, wc, Nameless

(* mknod, create, mkdir and symlink.                                       *)
LEMMA NamePut ==
  ASSUME NEW parent, NEW m, MayMake(parent, m)
  PROVE  LET name == UpdateDir(parent, [Entries(parent) EXCEPT ![m] = NextInode])
         IN  /\ HasContent(parent) => name = WriteDir(parent, NewName(parent, m))
             /\ ~HasContent(parent) => name = Panic(parent)
             /\ name # Opened(NextInode)
  BY DEF MayMake, UpdateDir, Readable, NewName, WriteDir, WriteContent, Panic, Opened

LEMMA SureNewFile ==
  ASSUME Inv, NEW parent, NEW m, MayMake(parent, m)
  PROVE  Sure({NextInode}, "File", NewFile(parent, m, 0))
  <1> DEFINE a == Attrs("File", 1, 0, 0)
             c == Data(0)
             name == UpdateDir(parent, [Entries(parent) EXCEPT ![m] = NextInode])
             ws == << Touch(parent), AllocateInode, WriteInode(NextInode, a),
                      WriteContent(NextInode, c), name >>
  <1>1. NewValues(parent, "File", a, c)
    BY DEF NewValues, Attrs, Attributes
  <1>n. /\ HasContent(parent) => name = WriteDir(parent, NewName(parent, m))
        /\ ~HasContent(parent) => name = Panic(parent)
        /\ name # Opened(NextInode)
    BY NamePut
  <1> HIDE DEF a, c, name
  <1>2. /\ Len(ws) = 5 /\ DOMAIN ws = 1 .. 5
        /\ ws[1] = Touch(parent) /\ ws[2] = AllocateInode
        /\ ws[3] = WriteInode(NextInode, a) /\ ws[4] = WriteContent(NextInode, c) /\ ws[5] = name
    OBVIOUS
  <1> HIDE DEF ws
  <1>4. \A r \in 3 .. 5 : r \in {3, 4, 5}
    OBVIOUS
  <1>5. CASE HasContent(parent)
    <2>1. Makes(parent, m, "File", a, c, ws, 3, 4, 5)
      BY <1>2, <1>4, <1>5, <1>n DEF Makes
    <2> QED BY <1>1, <2>1, MakesSound DEF Sure, ws, a, c, name, NewFile
  <1>6. CASE ~HasContent(parent)
    <2>1. Nameless(parent, a, c, ws)
      BY <1>2, <1>6, <1>n DEF Nameless
    <2>2. Sure({NextInode}, "File", ws)
      BY <1>1, <1>6, <2>1, BareMakes
    <2> QED BY <2>2 DEF ws, a, c, name, NewFile
  <1> QED BY <1>5, <1>6

LEMMA SureCreate ==
  ASSUME Inv, NEW parent, NEW m, MayMake(parent, m)
  PROVE  Sure({NextInode}, "File", NewFile(parent, m, 1) \o <<Opened(NextInode)>>)
  <1> DEFINE a == Attrs("File", 1, 1, 0)
             c == Data(0)
             name == UpdateDir(parent, [Entries(parent) EXCEPT ![m] = NextInode])
             ws == << Touch(parent), AllocateInode, WriteInode(NextInode, a),
                      WriteContent(NextInode, c), name, Opened(NextInode) >>
  <1>1. NewValues(parent, "File", a, c) /\ a.open_file_handles = 1
    BY DEF NewValues, Attrs, Attributes
  <1>n. /\ HasContent(parent) => name = WriteDir(parent, NewName(parent, m))
        /\ ~HasContent(parent) => name = Panic(parent)
    BY NamePut
  <1> HIDE DEF a, c, name
  <1>2. /\ Len(ws) = 6 /\ DOMAIN ws = 1 .. 6
        /\ ws[1] = Touch(parent) /\ ws[2] = AllocateInode
        /\ ws[3] = WriteInode(NextInode, a) /\ ws[4] = WriteContent(NextInode, c) /\ ws[5] = name
        /\ ws[6] = Opened(NextInode)
    OBVIOUS
  <1>7. ws = NewFile(parent, m, 1) \o <<Opened(NextInode)>>
    BY DEF NewFile, name, a, c
  <1> HIDE DEF ws
  <1>4. \A r \in 3 .. 6 : r \in {3, 4, 5} \/ (ws[r] = Opened(NextInode) /\ r = 6)
    BY <1>2
  <1>5. ASSUME HasContent(parent) PROVE Sure({NextInode}, "File", ws)
    <2>1. Makes(parent, m, "File", a, c, ws, 3, 4, 5)
      BY <1>1, <1>2, <1>4, <1>5, <1>n DEF Makes
    <2> QED BY <1>1, <2>1, MakesSound DEF Sure
  <1>6. ASSUME ~HasContent(parent) PROVE Sure({NextInode}, "File", ws)
    <2>1. Nameless(parent, a, c, ws)
      BY <1>2, <1>6, <1>n DEF Nameless
    <2> QED BY <1>1, <1>6, <2>1, BareMakes
  <1>8. Sure({NextInode}, "File", ws)
    BY <1>5, <1>6
  <1> QED BY <1>7, <1>8

LEMMA SureNewDir ==
  ASSUME Inv, NEW parent, NEW m, MayMake(parent, m)
  PROVE  Sure({NextInode}, "Directory",
           << Touch(parent), AllocateInode, WriteInode(NextInode, Attrs("Directory", 2, 0, 0)),
              WriteDir(NextInode, NewEntries(NextInode, parent)),
              UpdateDir(parent, [Entries(parent) EXCEPT ![m] = NextInode]) >>)
  <1> DEFINE a == Attrs("Directory", 2, 0, 0)
             c == Directory(NewEntries(NextInode, parent))
             name == UpdateDir(parent, [Entries(parent) EXCEPT ![m] = NextInode])
             ws == << Touch(parent), AllocateInode, WriteInode(NextInode, a),
                      WriteContent(NextInode, c), name >>
  <1>1. NewValues(parent, "Directory", a, c)
    BY DEF NewValues, Attrs, Attributes
  <1>n. /\ HasContent(parent) => name = WriteDir(parent, NewName(parent, m))
        /\ ~HasContent(parent) => name = Panic(parent)
        /\ name # Opened(NextInode)
    BY NamePut
  <1> HIDE DEF a, c, name
  <1>2. /\ Len(ws) = 5 /\ DOMAIN ws = 1 .. 5
        /\ ws[1] = Touch(parent) /\ ws[2] = AllocateInode
        /\ ws[3] = WriteInode(NextInode, a) /\ ws[4] = WriteContent(NextInode, c) /\ ws[5] = name
    OBVIOUS
  <1> HIDE DEF ws
  <1>4. \A r \in 3 .. 5 : r \in {3, 4, 5}
    OBVIOUS
  <1>5. Sure({NextInode}, "Directory", ws)
    <2>1. CASE HasContent(parent)
      <3>1. Makes(parent, m, "Directory", a, c, ws, 3, 4, 5)
        BY <1>2, <1>4, <1>n, <2>1 DEF Makes
      <3> QED BY <1>1, <3>1, MakesSound DEF Sure
    <2>2. CASE ~HasContent(parent)
      <3>1. Nameless(parent, a, c, ws)
        BY <1>2, <1>n, <2>2 DEF Nameless
      <3> QED BY <1>1, <2>2, <3>1, BareMakes
    <2> QED BY <2>1, <2>2
  <1> QED BY <1>5 DEF ws, a, c, name, WriteDir

LEMMA SureSymlink ==
  ASSUME Inv, NEW parent, NEW m, MayMake(parent, m)
  PROVE  Sure({NextInode}, "Symlink",
           <<Touch(parent), AllocateInode>> \o
           (InsertLink(parent, m, NextInode) \o
            <<WriteInode(NextInode, Attrs("Symlink", 1, 0, MaxLen)),
              WriteContent(NextInode, Data(0)), WriteContent(NextInode, Data(MaxLen))>>))
  <1> DEFINE a == Attrs("Symlink", 1, 0, MaxLen)
             c == Data(MaxLen)
             zero == WriteContent(NextInode, Data(0))
             name == UpdateDir(parent, [Entries(parent) EXCEPT ![m] = NextInode])
             ws == << Touch(parent), AllocateInode, Touch(parent), name,
                      WriteInode(NextInode, a), zero, WriteContent(NextInode, c) >>
  <1>1. NewValues(parent, "Symlink", a, c)
    BY SimpleFSAssumption DEF NewValues, Attrs, Attributes
  <1>n. /\ HasContent(parent) => name = WriteDir(parent, NewName(parent, m))
        /\ ~HasContent(parent) => name = Panic(parent)
    BY NamePut
  <1> HIDE DEF a, c, name, zero
  <1>2. /\ Len(ws) = 7 /\ DOMAIN ws = 1 .. 7
        /\ ws[1] = Touch(parent) /\ ws[2] = AllocateInode /\ ws[3] = Touch(parent) /\ ws[4] = name
        /\ ws[5] = WriteInode(NextInode, a) /\ ws[6] = zero /\ ws[7] = WriteContent(NextInode, c)
    OBVIOUS
  <1>7. ws = <<Touch(parent), AllocateInode>> \o
             (InsertLink(parent, m, NextInode) \o
              <<WriteInode(NextInode, a), zero, WriteContent(NextInode, c)>>)
    BY DEF InsertLink, name
  <1> HIDE DEF ws
  <1>3. ws[7] # Opened(NextInode)
    BY <1>2 DEF WriteContent, Opened
  <1>z. IsTruncation("Symlink", ws, 5, 7, 6)
    BY <1>2 DEF IsTruncation, zero, WriteContent
  <1>4. \A r \in 3 .. 7 : \/ r \in {5, 7, 4} \/ ws[r] = Touch(parent)
                          \/ IsTruncation("Symlink", ws, 5, 7, r)
    <2>1. \A r \in 3 .. 7 : r = 3 \/ r \in {5, 7, 4} \/ r = 6
      OBVIOUS
    <2> QED BY <1>2, <1>z, <2>1
  <1>5. Sure({NextInode}, "Symlink", ws)
    <2>1. CASE HasContent(parent)
      <3>1. Makes(parent, m, "Symlink", a, c, ws, 5, 7, 4)
        BY <1>2, <1>3, <1>4, <1>n, <2>1 DEF Makes
      <3> QED BY <1>1, <3>1, MakesSound DEF Sure
    <2>2. CASE ~HasContent(parent)
      <3>1. Nameless(parent, a, c, ws)
        BY <1>2, <1>n, <2>2 DEF Nameless
      <3> QED BY <1>1, <2>2, <3>1, BareMakes
    <2> QED BY <2>1, <2>2
  <1> QED BY <1>5, <1>7 DEF a, c, zero

(* The number is lost if the name is found to be taken.                    *)
LEMMA SoundTaken ==
  ASSUME Inv, NEW parent \in Inodes, Exists(parent), MayAllocate
  PROVE  Sound({NextInode}, "Symlink", <<Touch(parent), AllocateInode>>)
  <1> DEFINE i == NextInode
             is == {NextInode}
             ws == <<Touch(parent), AllocateInode>>
             d == After(ws, Len(ws))
  <1>0. /\ inodes[parent] \in Attributes /\ parent <= superblock /\ superblock \in Nat
        /\ (handles[parent] > 0 => inodes[parent].open_file_handles >= handles[parent])
        /\ handles[parent] \in Nat /\ inodes[parent].open_file_handles \in Nat
    BY Facts DEF Attributes
  <1>1. /\ i \in Inodes /\ i # FUSE_ROOT_ID /\ ~Exists(i) /\ ~HasContent(i)
        /\ \A p \in Inodes, x \in Names : Entry(p, x) # i
    BY NextIsFree DEF AllNames
  <1>w. /\ Len(ws) = 2 /\ DOMAIN ws = 1 .. 2 /\ ws[1].to = "inode" /\ ws[1].i = parent
        /\ ws[1].val = inodes[parent] /\ ws[2].to = "superblock" /\ ws[2] = AllocateInode
    BY DEF Touch, WriteInode, AllocateInode
  <1> HIDE DEF ws
  <1>2. ValidAt(is, "Symlink", ws, 1)
    <2>1. ValidInode(is, "Symlink", ws[1])
      BY <1>0, <1>1, <1>w DEF ValidInode, Kind
    <2>2. Bound(ws, 1) = superblock
      BY DEF Bound
    <2> QED BY <1>0, <1>w, <2>1, <2>2 DEF ValidAt
  <1>3. ValidAt(is, "Symlink", ws, 2)
    BY <1>w DEF ValidAt
  <1>4. Valid(is, "Symlink", ws)
    <2>1. \A n \in 1 .. 2 : n = 1 \/ n = 2
      OBVIOUS
    <2> QED BY <1>1, <1>2, <1>3, <1>w, <2>1 DEF Valid
  <1>5. PanicAt(ws) = {}
    BY <1>w, NeverPanics
  <1>6. Prefix(is, "Symlink", ws, Len(ws))
    BY <1>4, <1>w DEF Prefix, NoPanic, Inv
  <1>7. OpenKept(d)
    <2>1. KeepsCounts(ws, 2)
      BY <1>0, <1>w DEF KeepsCounts
    <2> QED BY <1>6, <1>w, <2>1, NoneOpened DEF Inv
  <1>8. Exact(d, i)
    <2>1. OthersKept(is, d)
      BY <1>6, <1>w, PrefixOthers
    <2>2. \A x \in Inodes, r \in 1 .. 2 : ~OnContent(ws[r], x)
      BY <1>w DEF OnContent
    <2>3. \A x \in Inodes : d.contents[x] = contents[x]
      BY <1>6, <1>w, <2>2, NotWritten
    <2>4. d.inodes[i] = Missing
      <3>1. \A r \in 1 .. 2 : ~OnInode(ws[r], i)
        BY <1>1, <1>w DEF OnInode
      <3> QED BY <1>1, <1>6, <1>w, <3>1, NotWritten DEF Exists
    <2> HIDE DEF d
    <2>5. PlacesIn(d, i) = {}
      BY <1>1, <2>3 DEF PlacesIn, EntryIn, Entry, Entries
    <2> QED BY <1>1, <2>3, <2>4, <2>5 DEF Exact, ExactBut, SizeExactIn, LinksExactIn, HasContent
  <1>9. Finishes(is, ws)
    BY <1>7, <1>8 DEF Finishes
  <1>10. Untorn(ws)
    BY <1>w DEF Untorn
  <1> QED BY <1>4, <1>5, <1>9, <1>10 DEF Sound, Safe, ws

-----------------------------------------------------------------------------
(* The root directory.                                                     *)
LEMMA SoundNothing ==
  ASSUME Inv PROVE Sound({FUSE_ROOT_ID}, "Directory", <<>>)
  <1> DEFINE ws == <<>>
  <1>1. Len(ws) = 0 /\ DOMAIN ws = 1 .. 0 /\ 1 .. 0 = {}
    OBVIOUS
  <1> HIDE DEF ws
  <1>2. \A p \in Inodes, m \in Names : Entry(p, m) # FUSE_ROOT_ID
    BY Facts
  <1>3. Valid({FUSE_ROOT_ID}, "Directory", ws)
    BY <1>1, <1>2, Constants DEF Valid
  <1>4. PanicAt(ws) = {}
    BY <1>1 DEF PanicAt
  <1>5. After(ws, Len(ws)) = Before
    BY <1>1, AfterStep
  <1>6. Finishes({FUSE_ROOT_ID}, ws)
    BY <1>5, Constants DEF Finishes, Inv
  <1>7. Untorn(ws)
    BY <1>1 DEF Untorn
  <1> QED BY <1>3, <1>4, <1>6, <1>7 DEF Sound, Safe, ws

LEMMA SoundRoot ==
  ASSUME Inv, ~Exists(FUSE_ROOT_ID)
  PROVE  Sound({FUSE_ROOT_ID}, "Directory",
           <<WriteInode(FUSE_ROOT_ID, Attrs("Directory", 2, 0, 0)),
             WriteDir(FUSE_ROOT_ID, [NoEntries EXCEPT !["."] = FUSE_ROOT_ID])>>)
  <1> DEFINE i == FUSE_ROOT_ID
             is == {i}
             a == Attrs("Directory", 2, 0, 0)
             e == [NoEntries EXCEPT !["."] = i]
             ws == <<WriteInode(i, a), WriteDir(i, e)>>
             d == After(ws, Len(ws))
  <1>0. /\ i \in Inodes /\ ~HasContent(i) /\ superblock \in Nat /\ superblock >= 1 /\ i <= superblock
        /\ \A p \in Inodes, x \in Names : Entry(p, x) # i
        /\ handles[i] = 0
    BY Facts, Constants DEF FUSE_ROOT_ID
  <1>a. a \in Attributes /\ a.kind = "Directory" /\ a.open_file_handles = 0 /\ a # Missing
    BY DEF Attrs, Attributes, Missing
  <1>e. /\ e \in [AllNames -> Nat] /\ \A x \in AllNames : e[x] = 1 \/ e[x] = NoEntry
        /\ \A x \in Names : e[x] = NoEntry
    BY Constants DEF NoEntries, AllNames, NoEntry, FUSE_ROOT_ID
  <1>c. Directory(e) \in Content /\ Directory(e).kind = "Directory" /\ Directory(e).entries = e
    BY <1>e DEF Directory, Content
  <1> HIDE DEF a, e
  <1>w. /\ Len(ws) = 2 /\ DOMAIN ws = 1 .. 2
        /\ ws[1].to = "inode" /\ ws[1].i = i /\ ws[1].val = a
        /\ ws[2].to = "content" /\ ws[2].i = i /\ ws[2].val = Directory(e)
    BY DEF WriteInode, WriteDir, WriteContent
  <1> HIDE DEF ws
  <1>b. \A r \in 1 .. 2 : Bound(ws, r) = superblock
    BY <1>w DEF Bound
  <1>1. ValidAt(is, "Directory", ws, 1)
    <2>1. ValidInode(is, "Directory", ws[1])
      BY <1>0, <1>a, <1>w DEF ValidInode, Kind
    <2> QED BY <1>0, <1>b, <1>w, <2>1 DEF ValidAt
  <1>2. ValidAt(is, "Directory", ws, 2)
    <2>1. \A x \in AllNames : e[x] <= superblock
      BY <1>0, <1>e DEF NoEntry
    <2>2. NoEntry \notin Inodes /\ NoEntry # i
      BY DEF Inodes, NoEntry, FUSE_ROOT_ID
    <2>3. \E l \in 1 .. 2 - 1 : ws[l].to = "inode" /\ ws[l].i = i
      BY <1>w
    <2>4. \A j \in Inodes, x \in Names : Entry(i, x) # j
      BY <1>0, <2>2, Facts
    <2>5. Bound(ws, 2) = superblock
      BY <1>b
    <2>6. ValidContent(is, "Directory", ws, 2)
      BY <1>0, <1>c, <1>e, <1>w, <2>1, <2>2, <2>3, <2>4, <2>5 DEF ValidContent, Kind
    <2> QED BY <1>0, <1>w, <2>5, <2>6 DEF ValidAt
  <1>3. Valid(is, "Directory", ws)
    <2>1. \A n \in 1 .. 2 : n = 1 \/ n = 2
      OBVIOUS
    <2> QED BY <1>0, <1>1, <1>2, <1>w, <2>1 DEF Valid
  <1>4. PanicAt(ws) = {}
    BY <1>w, NeverPanics
  <1>5. Prefix(is, "Directory", ws, Len(ws))
    BY <1>3, <1>w DEF Prefix, NoPanic, Inv
  <1>6. OpenKept(d)
    <2>1. KeepsCounts(ws, 2)
      BY <1>0, <1>a, <1>w DEF KeepsCounts
    <2> QED BY <1>5, <1>w, <2>1, NoneOpened DEF Inv
  <1>7. Exact(d, i)
    <2>1. 1 \in 1 .. 2 /\ \A r \in 1 + 1 .. 2 : ~OnInode(ws[r], i)
      BY <1>w DEF OnInode
    <2>2. d.inodes[i] = a
      BY <1>0, <1>5, <1>w, <2>1, LastWrite
    <2>3. 2 \in 1 .. 2 /\ \A r \in 2 + 1 .. 2 : ~OnContent(ws[r], i)
      OBVIOUS
    <2>4. d.contents[i] = Directory(e)
      BY <1>0, <1>5, <1>w, <2>3, LastWrite
    <2>5. Directory(e) # Missing
      BY <1>c DEF Missing
    <2> QED BY <1>a, <2>2, <2>4, <2>5 DEF Exact, ExactBut, SizeExactIn
  <1>8. Finishes(is, ws)
    BY <1>6, <1>7 DEF Finishes
  <1>9. Untorn(ws)
    <2>1. \A r \in 1 .. 2 : r = 1 \/ r = 2
      OBVIOUS
    <2>2. ~TornContent(FUSE_ROOT_ID)
      BY DEF Inv, TornInv
    <2> QED BY <1>w, <2>1, <2>2 DEF Untorn
  <1> QED BY <1>3, <1>4, <1>8, <1>9 DEF Sound, Safe, ws, a, e

-----------------------------------------------------------------------------
(***************************************************************************)
(* Handlers that give and take names.  Directories are rewritten and       *)
(* attributes touched; one inode x gets other attributes, at l, and may be *)
(* removed with the two writes that follow.  If there is none, x is no     *)
(* inode and l is zero.                                                    *)
(***************************************************************************)
DirWrite(is, y, e) ==
  /\ y \in Inodes /\ Exists(y) /\ IsDir(y) /\ HasContent(y) /\ ~TornContent(y)
  /\ e \in [AllNames -> Nat] /\ \A m \in AllNames : e[m] <= superblock
  /\ y \notin is => e[".."] = Entry(y, "..")
  /\ \A m \in Names :
       /\ e[m] # y /\ e[m] # FUSE_ROOT_ID
       /\ e[m] \in is => HasContent(e[m]) \/ inodes[e[m]].kind = "Symlink"
       /\ e[m] \in Inodes \ is => Entry(y, m) = e[m]
       /\ \A j \in Inodes \ (is \cup damaged) : Entry(y, m) = j => e[m] = j

Plain(is, x, w) ==
  /\ w.to \in {"inode", "content"} /\ w.i \in Inodes \ {x} /\ Exists(w.i)
  /\ w.to = "inode" => w.val = inodes[w.i]
  /\ w.to = "content" => w.val = Directory(w.val.entries) /\ DirWrite(is, w.i, w.val.entries)

Shuffle(is, x, a, gone, l, ws) ==
  /\ Len(ws) \in Nat /\ DOMAIN ws = 1 .. Len(ws) /\ l \in Nat /\ l <= Len(ws)
  /\ is \subseteq Inodes /\ \A y \in is : Exists(y) /\ y # FUSE_ROOT_ID
  /\ l = 0 => x \notin Inodes /\ ~gone
  /\ l # 0 => /\ x \in is /\ x \in Inodes
              /\ \/ /\ ws[l].to = "inode" /\ ws[l].i = x /\ ws[l].val = a
                    /\ a \in Attributes /\ a.kind = inodes[x].kind
                    /\ a.open_file_handles = inodes[x].open_file_handles
                 \/ ws[l] = Panic(x) /\ x \in damaged /\ ~gone
  /\ gone => /\ l # 0 /\ l + 2 <= Len(ws) /\ a.open_file_handles = 0
             /\ ws[l + 1] = RemoveInode(x) /\ ws[l + 1].to = "rm_inode" /\ ws[l + 1].i = x
             /\ ws[l + 2].to = "rm_content" /\ ws[l + 2].i = x
             /\ \A m \in Names : Entry(x, m) = NoEntry
  /\ \A r \in 1 .. Len(ws) : \/ r = l
                             \/ gone /\ r = l + 1
                             \/ gone /\ r = l + 2
                             \/ Plain(is, x, ws[r])

LEMMA ShuffleValid ==
  ASSUME Inv, NEW is, NEW x, NEW a, NEW gone, NEW l, NEW ws,
         Shuffle(is, x, a, gone, l, ws)
  PROVE  /\ Valid(is, "File", ws) /\ Untorn(ws)
         /\ \A r \in 1 .. Len(ws) : ws[r].to \notin {"superblock", "handle"}
  <1>0. /\ Len(ws) \in Nat /\ DOMAIN ws = 1 .. Len(ws) /\ l \in Nat /\ l <= Len(ws)
        /\ is \subseteq Inodes /\ \A y \in is : Exists(y) /\ y # FUSE_ROOT_ID
    BY Zenon DEF Shuffle
  <1>1. ASSUME NEW r \in 1 .. Len(ws)
        PROVE  r = l \/ (gone /\ r = l + 1) \/ (gone /\ r = l + 2) \/ Plain(is, x, ws[r])
    BY Zenon DEF Shuffle
  <1>2. l # 0 => /\ x \in is /\ x \in Inodes
                 /\ \/ /\ ws[l].to = "inode" /\ ws[l].i = x /\ ws[l].val = a
                       /\ a \in Attributes /\ a.kind = inodes[x].kind
                    \/ ws[l] = Panic(x)
    BY Zenon DEF Shuffle
  <1>p. Panic(x).to = "panic"
    BY DEF Panic
  <1>3. gone => /\ l # 0 /\ l + 2 <= Len(ws)
                /\ ws[l + 1] = RemoveInode(x) /\ ws[l + 1].to = "rm_inode" /\ ws[l + 1].i = x
                /\ ws[l + 2].to = "rm_content" /\ ws[l + 2].i = x
                /\ \A m \in Names : Entry(x, m) = NoEntry
    BY Zenon DEF Shuffle
  <1>4. \A r \in 1 .. Len(ws) : ws[r].to \notin {"superblock", "handle"}
    BY <1>0, <1>1, <1>2, <1>3, <1>p DEF Plain
  <1>5. \A r \in 1 .. Len(ws) : Bound(ws, r) = superblock
    BY <1>0, <1>4, BoundSame
  <1>6. ASSUME NEW r \in 1 .. Len(ws), Plain(is, x, ws[r]) PROVE ValidAt(is, "File", ws, r)
    <2> DEFINE y == ws[r].i
    <2>1. y \in Inodes /\ Exists(y) /\ y <= superblock /\ inodes[y] \in Attributes
      BY <1>6, Facts DEF Plain
    <2>2. CASE ws[r].to = "inode"
      <3>1. ValidInode(is, "File", ws[r])
        BY <1>6, <2>1, <2>2 DEF Plain, ValidInode, Kind
      <3> QED BY <1>5, <2>1, <2>2, <3>1 DEF ValidAt
    <2>3. CASE ws[r].to = "content"
      <3> DEFINE e == ws[r].val.entries
      <3>1. ws[r].val = Directory(e) /\ DirWrite(is, y, e)
        BY <1>6, <2>3 DEF Plain
      <3> HIDE DEF e
      <3>2. Directory(e) \in Content /\ Directory(e).kind = "Directory" /\ Directory(e).entries = e
        BY <3>1 DEF DirWrite, Directory, Content
      <3>3. ASSUME NEW m \in Names
            PROVE  /\ e[m] # y /\ e[m] # FUSE_ROOT_ID
                   /\ e[m] \in is => MayName(is, "File", ws, r, e[m])
                   /\ e[m] \in Inodes \ is => Entry(y, m) = e[m]
                   /\ \A j \in Inodes \ (is \cup damaged) : Entry(y, m) = j => e[m] = j
        BY <1>0, <3>1 DEF DirWrite, MayName
      <3>4. /\ \A m \in AllNames : e[m] <= Bound(ws, r)
            /\ y \notin is => Exists(y) /\ IsDir(y) /\ HasContent(y) /\ e[".."] = Entry(y, "..")
            /\ Kind("File", y) = "Directory" /\ Exists(y)
        BY <1>5, <3>1 DEF DirWrite, Kind, IsDir
      <3> HIDE DEF y
      <3>5. ValidContent(is, "File", ws, r)
        BY <3>1, <3>2, <3>3, <3>4 DEF ValidContent, y
      <3> QED BY <1>5, <2>1, <2>3, <3>5 DEF ValidAt, y
    <2> QED BY <1>6, <2>2, <2>3 DEF Plain
  <1>7. ASSUME l # 0 PROVE ValidAt(is, "File", ws, l)
    <2>0. l \in 1 .. Len(ws)
      BY <1>0, <1>7
    <2>1. x \in Inodes /\ Exists(x) /\ x <= superblock
      BY <1>0, <1>2, <1>7, Facts
    <2>2. CASE ws[l] = Panic(x)
      BY <1>p, <2>2 DEF ValidAt
    <2>3. CASE /\ ws[l].to = "inode" /\ ws[l].i = x /\ ws[l].val = a
               /\ a \in Attributes /\ a.kind = inodes[x].kind
      <3>1. ValidInode(is, "File", ws[l])
        BY <1>2, <1>7, <2>1, <2>3 DEF ValidInode, Kind
      <3> QED BY <1>5, <2>0, <2>1, <2>3, <3>1 DEF ValidAt
    <2> QED BY <1>2, <1>7, <2>2, <2>3
  <1>8. ASSUME gone PROVE ValidAt(is, "File", ws, l + 1) /\ ValidAt(is, "File", ws, l + 2)
    <2>1. l + 1 \in 1 .. Len(ws) /\ l + 2 \in 1 .. Len(ws)
      BY <1>0, <1>3, <1>8
    <2>2. x \in Inodes /\ Exists(x) /\ x <= superblock
      BY <1>0, <1>2, <1>3, <1>8, Facts
    <2>3. Removable(is, x)
      BY <1>0, <1>2, <1>3, <1>8 DEF Removable
    <2>4. ASSUME NEW r \in (l + 1) + 1 .. Len(ws), ws[r].to = "inode" PROVE ws[r].i # x
      <3>1. r \in 1 .. Len(ws) /\ r # l /\ r # l + 1
        BY <1>0
      <3>2. r # l + 2
        BY <1>3, <1>8, <2>4
      <3> QED BY <1>1, <3>1, <3>2 DEF Plain
    <2>5. ValidAt(is, "File", ws, l + 1)
      BY <1>3, <1>5, <1>8, <2>1, <2>2, <2>3, <2>4 DEF ValidAt
    <2>6. ws[(l + 2) - 1] = RemoveInode(x) /\ l + 2 > 1
      BY <1>0, <1>3, <1>8
    <2>7. ValidAt(is, "File", ws, l + 2)
      BY <1>3, <1>5, <1>8, <2>1, <2>2, <2>3, <2>6 DEF ValidAt
    <2> QED BY <2>5, <2>7
  <1>9. \A r \in 1 .. Len(ws) : ValidAt(is, "File", ws, r)
    <2> SUFFICES ASSUME NEW r \in 1 .. Len(ws) PROVE ValidAt(is, "File", ws, r)
      OBVIOUS
    <2>1. CASE r = l
      <3>1. l # 0
        BY <2>1
      <3> QED BY <1>7, <2>1, <3>1
    <2> QED BY <1>1, <1>6, <1>8, <2>1
  <1>10. Valid(is, "File", ws)
    BY <1>0, <1>9 DEF Valid
  <1>11. Untorn(ws)
    <2> SUFFICES ASSUME NEW r \in 1 .. Len(ws), ws[r].to = "content" PROVE ~TornContent(ws[r].i)
      BY <1>4 DEF Untorn
    <2>1. r # l
      BY <1>0, <1>2, <1>p
    <2>2. Plain(is, x, ws[r])
      BY <1>1, <1>3, <2>1
    <2> QED BY <2>2 DEF Plain, DirWrite
  <1> QED BY <1>4, <1>10, <1>11

(* Attributes that are only touched stay.                                  *)
LEMMA OnlyTouched ==
  ASSUME NEW is, NEW k, NEW ws, NEW n, Prefix(is, k, ws, n), NEW y \in Inodes,
         \A r \in 1 .. n : OnInode(ws[r], y) => ws[r].to = "inode" /\ ws[r].val = inodes[y]
  PROVE  After(ws, n).inodes[y] = inodes[y]
  <1>0. n \in Nat
    BY PrefixWrites
  <1> DEFINE S == {l \in Nat : l <= n => After(ws, l).inodes[y] = inodes[y]}
  <1>1. 0 \in S
    BY AfterStep DEF Before
  <1>2. ASSUME NEW l \in Nat, l \in S PROVE l + 1 \in S
    <2> SUFFICES ASSUME l + 1 <= n PROVE After(ws, l + 1).inodes[y] = inodes[y]
      OBVIOUS
    <2>1. l + 1 \in 1 .. n /\ (l + 1) - 1 = l /\ After(ws, l).inodes[y] = inodes[y]
      BY <1>0, <1>2
    <2>2. Written(After(ws, l), ws[l + 1], After(ws, l + 1))
      BY <2>1, PrefixWrites
    <2> QED BY <2>1, <2>2 DEF Written, OnInode
  <1> HIDE DEF S
  <1>3. \A l \in Nat : l \in S
    BY <1>1, <1>2, Induction
  <1> QED BY <1>0, <1>3 DEF S

LEMMA ShufflePanics ==
  ASSUME Inv, NEW is, NEW x, NEW a, NEW gone, NEW l, NEW ws, Shuffle(is, x, a, gone, l, ws)
  PROVE  /\ Safe(is, "File", ws)
         /\ PanicAt(ws) = {} => Prefix(is, "File", ws, Len(ws))
  <1>0. /\ Len(ws) \in Nat /\ DOMAIN ws = 1 .. Len(ws) /\ l \in Nat /\ l <= Len(ws)
        /\ is \subseteq Inodes /\ \A y \in is : Exists(y) /\ y # FUSE_ROOT_ID
    BY Zenon DEF Shuffle
  <1>1. ASSUME NEW r \in 1 .. Len(ws)
        PROVE  r = l \/ (gone /\ r = l + 1) \/ (gone /\ r = l + 2) \/ Plain(is, x, ws[r])
    BY Zenon DEF Shuffle
  <1>2. l # 0 => /\ x \in is /\ x \in Inodes
                 /\ \/ ws[l].to = "inode" /\ ws[l].i = x /\ ws[l].val = a /\ a \in Attributes
                    \/ ws[l] = Panic(x) /\ x \in damaged /\ ~gone
    BY Zenon DEF Shuffle
  <1>3. gone => /\ l # 0 /\ l + 2 <= Len(ws)
                /\ ws[l + 1].to = "rm_inode" /\ ws[l + 1].i = x
                /\ ws[l + 2].to = "rm_content" /\ ws[l + 2].i = x
    BY Zenon DEF Shuffle
  <1>v. Valid(is, "File", ws) /\ Untorn(ws)
    BY ShuffleValid
  <1>p. Panic(x).to = "panic" /\ Panic(x).i = x
    BY DEF Panic
  <1>4. CASE l # 0 /\ ws[l] = Panic(x)
    <2>1. l \in 1 .. Len(ws)
      BY <1>0, <1>4
    <2>2. l \in PanicAt(ws)
      BY <1>0, <1>4, <1>p, <2>1 DEF PanicAt, Panics
    <2>3. x \in damaged /\ ~gone
      <3>1. ws[l].to # "inode"
        BY <1>4, <1>p
      <3> QED BY <1>2, <1>4, <3>1
    <2>4. ASSUME NEW r \in PanicAt(ws) PROVE ws[r].i \in damaged
      <3>1. r \in 1 .. Len(ws) /\ Panics(After(ws, r - 1), ws[r])
        BY <1>0, <2>4 DEF PanicAt
      <3>2. ~Plain(is, x, ws[r])
        BY <3>1 DEF Plain, Panics
      <3> QED BY <1>1, <1>4, <1>p, <2>3, <3>1, <3>2
    <2> QED BY <1>v, <2>2, <2>4 DEF Safe
  <1>5. CASE l # 0 => ws[l].to = "inode" /\ ws[l].i = x /\ ws[l].val = a
    <2>1. \A r \in 1 .. Len(ws) : ws[r].to # "panic"
      <3> SUFFICES ASSUME NEW r \in 1 .. Len(ws) PROVE ws[r].to # "panic"
        OBVIOUS
      <3>1. CASE r = l
        <4>1. l # 0
          BY <3>1
        <4> QED BY <1>5, <3>1, <4>1
      <3>2. CASE gone /\ (r = l + 1 \/ r = l + 2)
        BY <1>3, <3>2
      <3>3. CASE Plain(is, x, ws[r])
        BY <3>3 DEF Plain
      <3> QED BY <1>1, <3>1, <3>2, <3>3
    <2>2. \A n \in 0 .. Len(ws) : Prefix(is, "File", ws, n)
      <3> SUFFICES ASSUME NEW n \in 0 .. Len(ws) PROVE Prefix(is, "File", ws, n)
        OBVIOUS
      <3>1. \A r \in 1 .. n : r \in 1 .. Len(ws)
        BY <1>0
      <3> QED BY <1>v, <2>1, <3>1 DEF Prefix, NoPanic, Inv
    <2>3. Len(ws) \in 0 .. Len(ws)
      BY <1>0
    <2>4. ASSUME NEW r \in PanicAt(ws) PROVE ws[r].i \in damaged
      <3>1. r \in 1 .. Len(ws) /\ Panics(After(ws, r - 1), ws[r])
        BY <1>0, <2>4 DEF PanicAt
      <3>2. CASE r = l
        <4>1. l # 0
          BY <3>1, <3>2
        <4> QED BY <1>5, <3>1, <3>2, <4>1 DEF Panics
      <3>3. CASE gone /\ r = l + 1
        <4>1. l \in 0 .. Len(ws) /\ l \in 1 .. l /\ r - 1 = l /\ l + 1 .. l = {}
          BY <1>0, <1>3, <3>3
        <4>2. After(ws, l).inodes[x] = a
          <5>1. Prefix(is, "File", ws, l)
            BY <2>2, <4>1
          <5> QED BY <1>2, <1>3, <1>5, <3>3, <4>1, <5>1, LastWrite
        <4>3. a # Missing
          BY <1>2, <1>3, <3>3 DEF Attributes, Missing
        <4>4. ws[r].to = "rm_inode" /\ ws[r].i = x
          BY <1>3, <3>3
        <4> QED BY <3>1, <4>1, <4>2, <4>3, <4>4 DEF Panics
      <3>4. CASE gone /\ r = l + 2
        <4> SUFFICES ASSUME x \notin damaged PROVE FALSE
          BY <1>3, <3>4
        <4>1. l + 1 \in 0 .. Len(ws) /\ r - 1 = l + 1
          BY <1>0, <1>3, <3>4
        <4>2. Prefix(is, "File", ws, l + 1)
          BY <2>2, <4>1
        <4>3. ASSUME NEW q \in 1 .. l + 1 PROVE ~OnContent(ws[q], x)
          <5>1. q \in 1 .. Len(ws) /\ q # l + 2
            BY <1>0, <4>1
          <5>2. CASE q = l
            BY <1>3, <1>5, <3>4, <5>2 DEF OnContent
          <5>3. CASE q = l + 1
            BY <1>3, <3>4, <5>3 DEF OnContent
          <5>4. CASE Plain(is, x, ws[q])
            BY <5>4 DEF Plain, OnContent
          <5> QED BY <1>1, <5>1, <5>2, <5>3, <5>4
        <4>4. After(ws, l + 1).contents[x] = contents[x]
          BY <1>2, <1>3, <3>4, <4>2, <4>3, NotWritten
        <4>5. contents[x] # Missing
          <5>1. Exact(Before, x) /\ Exists(x) /\ x # FUSE_ROOT_ID
            BY <1>0, <1>2, <1>3, <3>4 DEF Inv
          <5> QED BY <5>1 DEF Exact, ExactBut, LinksExactIn, Before, Exists
        <4>6. ws[r].to = "rm_content" /\ ws[r].i = x
          BY <1>3, <3>4
        <4> QED BY <3>1, <4>1, <4>4, <4>5, <4>6 DEF Panics
      <3>5. CASE Plain(is, x, ws[r])
        BY <3>1, <3>5 DEF Plain, Panics
      <3> QED BY <1>1, <3>1, <3>2, <3>3, <3>4, <3>5
    <2> QED BY <1>v, <2>2, <2>3, <2>4 DEF Safe
  <1> QED BY <1>2, <1>4, <1>5

(* What such a handler leaves.                                             *)
LEMMA ShuffleFinal ==
  ASSUME Inv, NEW is, NEW x, NEW a, NEW gone, NEW l, NEW ws, Shuffle(is, x, a, gone, l, ws),
         PanicAt(ws) = {}, NEW d, d = After(ws, Len(ws))
  PROVE  /\ OpenKept(d)
         /\ \A y \in Inodes \ {x} : d.inodes[y] = inodes[y]
         /\ l # 0 => /\ d.inodes[x] = IF gone THEN Missing ELSE a
                     /\ d.contents[x] = IF gone THEN Missing ELSE contents[x]
  <1>0. /\ Len(ws) \in Nat /\ DOMAIN ws = 1 .. Len(ws) /\ l \in Nat /\ l <= Len(ws)
        /\ is \subseteq Inodes /\ \A y \in is : Exists(y) /\ y # FUSE_ROOT_ID
    BY Zenon DEF Shuffle
  <1>1. ASSUME NEW r \in 1 .. Len(ws)
        PROVE  r = l \/ (gone /\ r = l + 1) \/ (gone /\ r = l + 2) \/ Plain(is, x, ws[r])
    BY Zenon DEF Shuffle
  <1>2. l # 0 => /\ x \in is /\ x \in Inodes
                 /\ \/ /\ ws[l].to = "inode" /\ ws[l].i = x /\ ws[l].val = a
                       /\ a.open_file_handles = inodes[x].open_file_handles
                    \/ ws[l] = Panic(x)
    BY Zenon DEF Shuffle
  <1>3. gone => /\ l # 0 /\ l + 2 <= Len(ws) /\ a.open_file_handles = 0
                /\ ws[l + 1].to = "rm_inode" /\ ws[l + 1].i = x
                /\ ws[l + 2].to = "rm_content" /\ ws[l + 2].i = x
    BY Zenon DEF Shuffle
  <1>4. Prefix(is, "File", ws, Len(ws))
    BY ShufflePanics
  <1>5. l # 0 => /\ l \in 1 .. Len(ws) /\ ws[l].to = "inode" /\ ws[l].i = x /\ ws[l].val = a
                 /\ a.open_file_handles = inodes[x].open_file_handles
    <2> SUFFICES ASSUME l # 0
                 PROVE  /\ l \in 1 .. Len(ws) /\ ws[l].to = "inode" /\ ws[l].i = x /\ ws[l].val = a
                        /\ a.open_file_handles = inodes[x].open_file_handles
      OBVIOUS
    <2>1. l \in 1 .. Len(ws)
      BY <1>0
    <2>2. ws[l].to # "panic" /\ Panic(x).to = "panic"
      BY <1>4, <2>1 DEF Prefix, NoPanic, Panic
    <2> QED BY <1>2, <2>1, <2>2
  <1>6. ASSUME NEW r \in 1 .. Len(ws)
        PROVE  \/ r = l /\ l # 0
               \/ gone /\ r = l + 1 /\ ws[r].to = "rm_inode" /\ ws[r].i = x
               \/ gone /\ r = l + 2 /\ ws[r].to = "rm_content" /\ ws[r].i = x
               \/ /\ ws[r].to \in {"inode", "content"} /\ ws[r].i \in Inodes \ {x}
                  /\ Exists(ws[r].i) /\ (ws[r].to = "inode" => ws[r].val = inodes[ws[r].i])
    BY <1>0, <1>1, <1>3 DEF Plain
  <1>7. OpenKept(d)
    <2>1. ASSUME NEW y \in Inodes, Exists(y)
          PROVE  inodes[y].open_file_handles >= handles[y] /\ handles[y] \in Nat
      BY <2>1, Facts DEF Attributes
    <2>2. l # 0 => a.open_file_handles >= handles[x] /\ handles[x] \in Nat
      BY <1>0, <1>2, <1>5, <2>1
    <2>3. gone => handles[x] = 0
      BY <1>3, <2>2
    <2>4. KeepsCounts(ws, Len(ws))
      <3> SUFFICES ASSUME NEW r \in 1 .. Len(ws)
                   PROVE  /\ ws[r].to = "inode" => ws[r].val.open_file_handles >= handles[ws[r].i]
                          /\ ws[r].to \in {"rm_inode", "rm_content"} => handles[ws[r].i] = 0
        BY DEF KeepsCounts
      <3> QED BY <1>5, <1>6, <2>1, <2>2, <2>3
    <2>5. \A r \in 1 .. Len(ws) : ws[r].to # "handle"
      BY ShuffleValid
    <2> QED BY <1>4, <2>4, <2>5, NoneOpened DEF Inv
  <1>8. ASSUME NEW y \in Inodes \ {x} PROVE d.inodes[y] = inodes[y]
    <2>1. \A r \in 1 .. Len(ws) : OnInode(ws[r], y) => ws[r].to = "inode" /\ ws[r].val = inodes[y]
      BY <1>5, <1>6 DEF OnInode
    <2> QED BY <1>4, <2>1, OnlyTouched
  <1>9. ASSUME l # 0, ~gone PROVE d.inodes[x] = a /\ d.contents[x] = contents[x]
    <2>1. ASSUME NEW r \in l + 1 .. Len(ws) PROVE ~OnInode(ws[r], x)
      <3>1. r \in 1 .. Len(ws) /\ r # l
        BY <1>0
      <3> QED BY <1>6, <1>9, <3>1 DEF OnInode
    <2>2. \A r \in 1 .. Len(ws) : ~OnContent(ws[r], x)
      BY <1>5, <1>6, <1>9 DEF OnContent
    <2>3. d.inodes[x] = a
      BY <1>2, <1>4, <1>5, <1>9, <2>1, LastWrite
    <2> QED BY <1>2, <1>4, <1>9, <2>2, <2>3, NotWritten
  <1>10. ASSUME gone PROVE d.inodes[x] = Missing /\ d.contents[x] = Missing
    <2>1. ASSUME NEW r \in (l + 1) + 1 .. Len(ws) PROVE ~OnInode(ws[r], x)
      <3>1. r \in 1 .. Len(ws) /\ r # l /\ r # l + 1
        BY <1>0
      <3> QED BY <1>6, <3>1 DEF OnInode
    <2>2. ASSUME NEW r \in (l + 2) + 1 .. Len(ws) PROVE ~OnContent(ws[r], x)
      <3>1. r \in 1 .. Len(ws) /\ r # l /\ r # l + 1 /\ r # l + 2
        BY <1>0
      <3> QED BY <1>6, <3>1 DEF OnContent
    <2>3. l + 1 \in 1 .. Len(ws) /\ l + 2 \in 1 .. Len(ws)
      BY <1>0, <1>3, <1>10
    <2>4. d.inodes[x] = Missing
      BY <1>2, <1>3, <1>4, <1>10, <2>1, <2>3, LastWrite
    <2>5. d.contents[x] = Missing
      BY <1>2, <1>3, <1>4, <1>10, <2>2, <2>3, LastWrite
    <2> QED BY <2>4, <2>5
  <1> QED BY <1>7, <1>8, <1>9, <1>10

(* One name less: the attributes that DropLink writes, and whether there   *)
(* is nothing left to keep the inode for.                                  *)
Dropped(i) == [inodes[i] EXCEPT !.hardlinks = IF IsDir(i) THEN 0 ELSE @ - 1]
Stuck(i) == ~IsDir(i) /\ inodes[i].hardlinks = 0
Gone(i) == ~Stuck(i) /\ Dropped(i).hardlinks = 0 /\ Dropped(i).open_file_handles = 0

LEMMA DropLinkWrites ==
  ASSUME NEW i, NEW S,
         {Panic(i), WriteInode(i, Dropped(i)), RemoveInode(i), RemoveContent(i)} \subseteq S
  PROVE  /\ DropLink(i) \in Seq(S)
         /\ Stuck(i) => Len(DropLink(i)) = 1 /\ DropLink(i)[1] = Panic(i)
         /\ ~Stuck(i) => /\ Len(DropLink(i)) = IF Gone(i) THEN 3 ELSE 1
                         /\ DropLink(i)[1] = WriteInode(i, Dropped(i))
         /\ Gone(i) => DropLink(i)[2] = RemoveInode(i) /\ DropLink(i)[3] = RemoveContent(i)
  <1> DEFINE a == Dropped(i)
             w == WriteInode(i, a)
  <1>1. DropLink(i) = IF Stuck(i) THEN <<Panic(i)>> ELSE <<w>> \o gc_inode(i, a)
    BY DEF DropLink, Stuck, Dropped
  <1>2. CASE Stuck(i)
    BY <1>1, <1>2 DEF Gone
  <1>3. CASE ~Stuck(i) /\ Gone(i)
    <2> DEFINE t == <<RemoveInode(i), RemoveContent(i)>>
               u == <<w>>
    <2>1. gc_inode(i, a) = t
      BY <1>3 DEF gc_inode, Gone
    <2> HIDE DEF a, w
    <2>2. /\ u \in Seq(S) /\ t \in Seq(S) /\ Len(u) = 1 /\ Len(t) = 2 /\ u[1] = w
          /\ t[1] = RemoveInode(i) /\ t[2] = RemoveContent(i)
      BY DEF w, a
    <2>3. DropLink(i) = u \o t
      BY <1>1, <1>3, <2>1
    <2> HIDE DEF t, u
    <2>4. /\ u \o t \in Seq(S) /\ Len(u \o t) = 3 /\ (u \o t)[1] = w
          /\ (u \o t)[1 + 1] = RemoveInode(i) /\ (u \o t)[1 + 2] = RemoveContent(i)
      <3>1. /\ u \o t \in Seq(S) /\ Len(u \o t) = Len(u) + Len(t)
            /\ \A r \in 1 .. Len(u) : (u \o t)[r] = u[r]
            /\ \A r \in 1 .. Len(t) : (u \o t)[Len(u) + r] = t[r]
        <4>1. u \in Seq(S) /\ t \in Seq(S)
          BY <2>2
        <4> QED BY <4>1
      <3>2. 1 \in 1 .. 1 /\ 1 \in 1 .. 2 /\ 2 \in 1 .. 2 /\ 1 + 2 = 3
        OBVIOUS
      <3> QED BY <2>2, <3>1, <3>2
    <2> QED BY <1>3, <2>3, <2>4 DEF w, a
  <1>4. CASE ~Stuck(i) /\ ~Gone(i)
    <2>1. gc_inode(i, a) = <<>>
      BY <1>4 DEF gc_inode, Gone
    <2> HIDE DEF a
    <2>2. <<w>> \o <<>> = <<w>> /\ w \in S
      BY DEF a
    <2>3. DropLink(i) = <<w>>
      BY <1>1, <1>4, <2>1, <2>2
    <2> HIDE DEF w
    <2>4. <<w>> \in Seq(S) /\ Len(<<w>>) = 1 /\ <<w>>[1] = w
      BY <2>2
    <2> QED BY <1>4, <2>3, <2>4 DEF a, w
  <1> QED BY <1>2, <1>3, <1>4

LEMMA PlacesFinite ==
  ASSUME NEW d, NEW i
  PROVE  /\ IsFiniteSet(PlacesIn(d, i)) /\ Cardinality(PlacesIn(d, i)) \in Nat
         /\ Cardinality(PlacesIn(d, i)) = 0 <=> PlacesIn(d, i) = {}
  <1>1. IsFiniteSet(Inodes) /\ IsFiniteSet(Names)
    BY FS_Interval, Constants, SimpleFSAssumption DEF Inodes
  <1>2. IsFiniteSet(Inodes \X Names)
    BY <1>1, FS_Product
  <1>3. PlacesIn(d, i) \subseteq Inodes \X Names
    BY DEF PlacesIn
  <1>4. IsFiniteSet(PlacesIn(d, i))
    BY <1>2, <1>3, FS_Subset
  <1> HIDE DEF PlacesIn
  <1> QED BY <1>4, FS_CardinalityType, FS_EmptySet

(* What an exact inode with a name looks like.                             *)
LEMMA NamedExact ==
  ASSUME Inv, NEW i \in Inodes, i \notin damaged, i # FUSE_ROOT_ID, Exists(i),
         NEW s, s \in PlacesIn(Before, i)
  PROVE  /\ HasContent(i) /\ inodes[i] \in Attributes
         /\ ~Stuck(i) /\ Dropped(i) \in Attributes
         /\ IsDir(i) => inodes[i].hardlinks = 2 /\ PlacesIn(Before, i) = {s}
         /\ ~IsDir(i) => inodes[i].hardlinks = Cardinality(PlacesIn(Before, i))
         /\ inodes[i].kind = "File" /\ i \notin missized => contents[i] = Data(inodes[i].size)
  <1>1. Exact(Before, i)
    BY DEF Inv
  <1>2. inodes[i] \in Attributes
    BY Facts
  <1>3. LinksExactIn(Before, i) /\ (i \notin missized => SizeExactIn(Before, i))
    BY <1>1 DEF Exact, ExactBut
  <1>4. Before.inodes = inodes /\ Before.contents = contents
    BY DEF Before
  <1>5. HasContent(i)
    BY <1>3, <1>4 DEF LinksExactIn, Exists, HasContent
  <1>6. IsDir(i) => inodes[i].hardlinks = 2 /\ PlacesIn(Before, i) = {s}
    BY <1>3, <1>4 DEF LinksExactIn, Exists, IsDir
  <1>7. ~IsDir(i) => inodes[i].hardlinks = Cardinality(PlacesIn(Before, i))
    BY <1>3, <1>4 DEF LinksExactIn, Exists, IsDir
  <1>8. ~IsDir(i) => inodes[i].hardlinks # 0
    BY <1>7, PlacesFinite
  <1>9. ~Stuck(i) /\ Dropped(i) \in Attributes
    BY <1>2, <1>8 DEF Stuck, Dropped, Attributes
  <1>10. inodes[i].kind = "File" /\ i \notin missized => contents[i] = Data(inodes[i].size)
    BY <1>3, <1>4 DEF SizeExactIn, Exists
  <1> QED BY <1>2, <1>5, <1>6, <1>7, <1>9, <1>10

(* It loses a name.                                                        *)
LEMMA DroppedExact ==
  ASSUME Inv, NEW i \in Inodes, i \notin damaged, i # FUSE_ROOT_ID, Exists(i),
         NEW s, s \in PlacesIn(Before, i), NEW d,
         d.inodes[i] = IF Gone(i) THEN Missing ELSE Dropped(i),
         d.contents[i] = IF Gone(i) THEN Missing ELSE contents[i],
         PlacesIn(d, i) = PlacesIn(Before, i) \ {s}
  PROVE  Exact(d, i)
  <1> DEFINE P == PlacesIn(Before, i)
             a == Dropped(i)
  <1>1. /\ HasContent(i) /\ inodes[i] \in Attributes /\ ~Stuck(i)
        /\ IsDir(i) => inodes[i].hardlinks = 2 /\ P = {s}
        /\ ~IsDir(i) => inodes[i].hardlinks = Cardinality(P)
        /\ inodes[i].kind = "File" /\ i \notin missized => contents[i] = Data(inodes[i].size)
    BY NamedExact
  <1>2. /\ a \in Attributes /\ a # Missing /\ a.kind = inodes[i].kind /\ a.size = inodes[i].size
        /\ a.open_file_handles \in Nat /\ a.hardlinks = IF IsDir(i) THEN 0 ELSE inodes[i].hardlinks - 1
    <2>1. a \in Attributes
      BY NamedExact
    <2>2. a # Missing
      BY <2>1 DEF Attributes, Missing
    <2>3. /\ a.kind = inodes[i].kind /\ a.size = inodes[i].size /\ a.open_file_handles \in Nat
          /\ a.hardlinks = IF IsDir(i) THEN 0 ELSE inodes[i].hardlinks - 1
      BY <1>1 DEF Dropped, Attributes
    <2> QED BY <2>1, <2>2, <2>3
  <1>3. IsFiniteSet(P)
    BY PlacesFinite
  <1>4. ~IsDir(i) => a.hardlinks = Cardinality(PlacesIn(d, i))
    BY <1>1, <1>2, <1>3, FS_RemoveElement
  <1>5. IsDir(i) => PlacesIn(d, i) = {}
    BY <1>1
  <1>6. Gone(i) <=> a.hardlinks = 0 /\ a.open_file_handles = 0
    BY <1>1 DEF Gone
  <1> HIDE DEF a, P
  <1>7. i \notin missized => SizeExactIn(d, i)
    BY <1>1, <1>2 DEF SizeExactIn, a
  <1>8. CASE Gone(i)
    <2>1. PlacesIn(d, i) = {}
      BY <1>4, <1>5, <1>6, <1>8, PlacesFinite
    <2> QED BY <1>7, <1>8, <2>1 DEF Exact, ExactBut, LinksExactIn
  <1>9. CASE ~Gone(i)
    <2>1. d.inodes[i] = a /\ d.contents[i] = contents[i]
      BY <1>9 DEF a
    <2>2. a.hardlinks = 0 => a.open_file_handles > 0
      <3>1. ~(a.hardlinks = 0 /\ a.open_file_handles = 0)
        BY <1>6, <1>9, Zenon
      <3>2. a.open_file_handles \in Nat
        BY <1>2
      <3> QED BY <3>1, <3>2
    <2>3. IsDir(i) <=> a.kind = "Directory"
      BY <1>2 DEF IsDir
    <2>4. contents[i] # Missing
      BY <1>1 DEF HasContent
    <2>5. IsDir(i) => a.hardlinks = 0
      BY <1>2
    <2>6. LinksExactIn(d, i)
      BY <1>2, <1>4, <1>5, <2>1, <2>2, <2>3, <2>4, <2>5 DEF LinksExactIn
    <2> QED BY <1>7, <2>6 DEF Exact, ExactBut
  <1> QED BY <1>8, <1>9

(* A name is moved.                                                        *)
LEMMA MovedExact ==
  ASSUME Inv, NEW i \in Inodes, i \notin damaged, i # FUSE_ROOT_ID, Exists(i),
         NEW s, s \in PlacesIn(Before, i), NEW t, t \notin PlacesIn(Before, i), NEW d,
         d.inodes[i] = inodes[i],
         IF IsDir(i) THEN d.contents[i] # Missing /\ EntryIn(d, i, "..") = t[1]
                     ELSE d.contents[i] = contents[i],
         PlacesIn(d, i) = (PlacesIn(Before, i) \ {s}) \cup {t}
  PROVE  Exact(d, i)
  <1> DEFINE P == PlacesIn(Before, i)
  <1>1. /\ HasContent(i) /\ inodes[i] \in Attributes /\ inodes[i].hardlinks \in Nat
        /\ IsDir(i) => inodes[i].hardlinks = 2 /\ P = {s}
        /\ ~IsDir(i) => inodes[i].hardlinks = Cardinality(P) /\ Cardinality(P) # 0
        /\ inodes[i].kind = "File" /\ i \notin missized => contents[i] = Data(inodes[i].size)
    BY NamedExact, PlacesFinite DEF Attributes
  <1>2. Cardinality(PlacesIn(d, i)) = Cardinality(P)
    <2>1. IsFiniteSet(P) /\ Cardinality(P) \in Nat
      BY PlacesFinite
    <2>2. IsFiniteSet(P \ {s}) /\ Cardinality(P \ {s}) = Cardinality(P) - 1
      BY <2>1, FS_RemoveElement
    <2>3. t \notin P \ {s}
      OBVIOUS
    <2>4. Cardinality((P \ {s}) \cup {t}) = Cardinality(P \ {s}) + 1
      BY <2>2, <2>3, FS_AddElement
    <2> QED BY <2>1, <2>2, <2>4
  <1> HIDE DEF P
  <1>3. IsDir(i) => PlacesIn(d, i) = {t}
    BY <1>1 DEF P
  <1>4. i \notin missized => SizeExactIn(d, i)
    BY <1>1 DEF SizeExactIn, IsDir
  <1>5. LinksExactIn(d, i)
    BY <1>1, <1>2, <1>3 DEF LinksExactIn, IsDir, HasContent, Exists
  <1> QED BY <1>4, <1>5 DEF Exact, ExactBut

(* A name can be taken from an inode, and from a directory that is empty.  *)
MayDrop(x) ==
  /\ x \in Inodes /\ Exists(x) /\ x # FUSE_ROOT_ID
  /\ HasContent(x) \/ inodes[x].kind = "Symlink"
  /\ IsDir(x) => ~NotEmpty(x)
  /\ PlacesIn(Before, x) # {}

LEMMA DropFacts ==
  ASSUME Inv, NEW x, MayDrop(x)
  PROVE  /\ inodes[x] \in Attributes
         /\ Stuck(x) => x \in damaged
         /\ ~Stuck(x) => Dropped(x) \in Attributes
         /\ Dropped(x).kind = inodes[x].kind
         /\ Dropped(x).open_file_handles = inodes[x].open_file_handles
         /\ \A m \in Names : Entry(x, m) = NoEntry
  <1>1. inodes[x] \in Attributes
    BY Facts DEF MayDrop
  <1>2. ~Stuck(x) => Dropped(x) \in Attributes
    <2>1. ~Stuck(x) => (IF IsDir(x) THEN 0 ELSE inodes[x].hardlinks - 1) \in Nat
      BY <1>1 DEF Stuck, Attributes
    <2> QED BY <1>1, <2>1 DEF Dropped, Attributes
  <1>3. /\ Dropped(x).kind = inodes[x].kind
        /\ Dropped(x).open_file_handles = inodes[x].open_file_handles
    BY <1>1 DEF Dropped, Attributes
  <1>4. Stuck(x) => x \in damaged
    BY NamedExact DEF MayDrop
  <1>5. ASSUME NEW m \in Names PROVE Entry(x, m) = NoEntry
    <2>0. x \in Inodes /\ Exists(x)
      BY DEF MayDrop
    <2>1. CASE IsDir(x)
      BY <2>1 DEF MayDrop, NotEmpty
    <2>2. CASE ~IsDir(x)
      <3>1. HasContent(x) => contents[x].kind # "Directory"
        BY <2>0, <2>2, Facts
      <3> QED BY <2>0, <3>1, Facts DEF Entry
    <2> QED BY <2>1, <2>2
  <1> QED BY <1>1, <1>2, <1>3, <1>4, <1>5

(* Handlers that begin with one write and DropLink.                        *)
Drops(is, x, S, w, suf, ws, K) ==
  /\ is \subseteq Inodes /\ \A y \in is : Exists(y) /\ y # FUSE_ROOT_ID
  /\ x \in is /\ MayDrop(x) /\ w \in S /\ suf \in Seq(S)
  /\ {Panic(x), WriteInode(x, Dropped(x)), RemoveInode(x), RemoveContent(x)} \subseteq S
  /\ Plain(is, x, w) /\ \A r \in 1 .. Len(suf) : Plain(is, x, suf[r])
  /\ ws = (<<w>> \o DropLink(x)) \o suf /\ K = 1 + Len(DropLink(x))
Around(x, w, suf, ws, K) ==
  /\ K \in Nat /\ K >= 2 /\ Len(ws) = K + Len(suf) /\ Len(suf) \in Nat
  /\ ws[1] = w /\ \A r \in 2 .. K : ws[r].to = "panic" \/ ws[r].i = x
  /\ \A r \in 1 .. Len(suf) : ws[K + r] = suf[r]

LEMMA DropShuffle ==
  ASSUME Inv, NEW is, NEW x, NEW S, NEW w, NEW suf, NEW ws, NEW K,
         Drops(is, x, S, w, suf, ws, K)
  PROVE  Shuffle(is, x, Dropped(x), Gone(x), 2, ws) /\ Around(x, w, suf, ws, K)
  <1> DEFINE D == DropLink(x)
             a == Dropped(x)
  <1>0. /\ is \subseteq Inodes /\ \A y \in is : Exists(y) /\ y # FUSE_ROOT_ID
        /\ x \in is /\ MayDrop(x) /\ w \in S /\ suf \in Seq(S)
        /\ {Panic(x), WriteInode(x, a), RemoveInode(x), RemoveContent(x)} \subseteq S
        /\ Plain(is, x, w) /\ \A r \in 1 .. Len(suf) : Plain(is, x, suf[r])
        /\ ws = (<<w>> \o D) \o suf /\ K = 1 + Len(D)
    BY Zenon DEF Drops
  <1>1. /\ D \in Seq(S)
        /\ Stuck(x) => Len(D) = 1 /\ D[1] = Panic(x)
        /\ ~Stuck(x) => /\ Len(D) = IF Gone(x) THEN 3 ELSE 1
                        /\ D[1] = WriteInode(x, a)
        /\ Gone(x) => D[2] = RemoveInode(x) /\ D[3] = RemoveContent(x)
    BY <1>0, DropLinkWrites
  <1>g. Gone(x) => ~Stuck(x) /\ a.open_file_handles = 0
    BY DEF Gone
  <1>l. Len(D) = IF Gone(x) THEN 3 ELSE 1
    BY <1>1, <1>g
  <1> HIDE DEF D, a
  <1>2. /\ <<w>> \o D \in Seq(S) /\ Len(<<w>> \o D) = 1 + Len(D)
        /\ (<<w>> \o D)[1] = w /\ \A r \in 1 .. Len(D) : (<<w>> \o D)[1 + r] = D[r]
    BY <1>0, <1>1
  <1> DEFINE pd == <<w>> \o D
  <1>3. /\ pd \in Seq(S) /\ Len(pd) = K /\ pd[1] = w /\ K \in Nat /\ K >= 2
        /\ \A r \in 1 .. Len(D) : pd[1 + r] = D[r]
    BY <1>0, <1>2, <1>l
  <1> HIDE DEF pd
  <1>4. /\ pd \o suf \in Seq(S) /\ Len(pd \o suf) = K + Len(suf) /\ Len(suf) \in Nat
        /\ \A r \in 1 .. K : (pd \o suf)[r] = pd[r]
        /\ \A r \in 1 .. Len(suf) : (pd \o suf)[K + r] = suf[r]
    <2>1. pd \in Seq(S)
      BY <1>3
    <2>2. /\ pd \o suf \in Seq(S) /\ Len(pd \o suf) = Len(pd) + Len(suf) /\ Len(suf) \in Nat
          /\ \A r \in 1 .. Len(pd) : (pd \o suf)[r] = pd[r]
          /\ \A r \in 1 .. Len(suf) : (pd \o suf)[Len(pd) + r] = suf[r]
      BY <1>0, <2>1
    <2>3. Len(pd) = K
      BY <1>3
    <2> QED BY <2>2, <2>3, Zenon
  <1>5. ws = pd \o suf
    BY <1>0 DEF pd
  <1>6. /\ ws \in Seq(S) /\ Len(ws) = K + Len(suf) /\ DOMAIN ws = 1 .. Len(ws)
        /\ \A r \in 1 .. Len(suf) : ws[K + r] = suf[r]
        /\ ws[1] = w /\ \A r \in 1 .. Len(D) : ws[1 + r] = D[r]
    <2>1. 1 \in 1 .. K /\ K = 1 + Len(D) /\ \A r \in 1 .. Len(D) : 1 + r \in 1 .. K
      BY <1>0, <1>3, <1>l
    <2>2. ws \in Seq(S)
      BY <1>4, <1>5
    <2>3. DOMAIN ws = 1 .. Len(ws)
      BY <2>2
    <2>4. \A r \in 1 .. K : ws[r] = pd[r]
      BY <1>4, <1>5, Zenon
    <2>5. Len(ws) = K + Len(suf) /\ \A r \in 1 .. Len(suf) : ws[K + r] = suf[r]
      BY <1>4, <1>5, Zenon
    <2>6. ws[1] = w /\ \A r \in 1 .. Len(D) : ws[1 + r] = D[r]
      <3>1. pd[1] = w /\ \A r \in 1 .. Len(D) : pd[1 + r] = D[r]
        BY <1>3
      <3> HIDE DEF pd, D
      <3> QED BY <2>1, <2>4, <3>1
    <2> QED BY <2>2, <2>3, <2>5, <2>6
  <1>7. K = 1 + Len(D)
    BY <1>0
  <1>8. /\ ws[2] = D[1] /\ (Gone(x) => ws[3] = D[2] /\ ws[4] = D[3])
    <2>1. 1 \in 1 .. Len(D) /\ (Gone(x) => 2 \in 1 .. Len(D) /\ 3 \in 1 .. Len(D))
      BY <1>l
    <2>2. 1 + 1 = 2 /\ 1 + 2 = 3 /\ 1 + 3 = 4
      OBVIOUS
    <2> QED BY <1>6, <2>1, <2>2
  <1>9. /\ WriteInode(x, a).to = "inode" /\ WriteInode(x, a).i = x /\ WriteInode(x, a).val = a
        /\ Panic(x).to = "panic" /\ RemoveInode(x).to = "rm_inode" /\ RemoveInode(x).i = x
        /\ RemoveContent(x).to = "rm_content" /\ RemoveContent(x).i = x
    BY DEF WriteInode, Panic, RemoveInode, RemoveContent
  <1>10. /\ Stuck(x) => ws[2] = Panic(x) /\ ~Gone(x)
         /\ ~Stuck(x) => ws[2].to = "inode" /\ ws[2].i = x /\ ws[2].val = a
         /\ Gone(x) => /\ ws[3] = RemoveInode(x) /\ ws[3].to = "rm_inode" /\ ws[3].i = x
                       /\ ws[4].to = "rm_content" /\ ws[4].i = x
    BY <1>1, <1>8, <1>9, <1>g
  <1>11. ASSUME NEW r \in 2 .. K PROVE ws[r].to = "panic" \/ ws[r].i = x
    <2>1. r = 2 \/ (Gone(x) /\ (r = 3 \/ r = 4))
      BY <1>7, <1>l
    <2> QED BY <1>9, <1>10, <2>1
  <1>12. ASSUME NEW r \in 1 .. Len(ws)
         PROVE  r = 2 \/ (Gone(x) /\ r = 3) \/ (Gone(x) /\ r = 4) \/ Plain(is, x, ws[r])
    <2>1. CASE r = 1
      BY <1>0, <1>6, <2>1
    <2>2. CASE r \in 2 .. K
      BY <1>7, <1>l, <2>2
    <2>3. CASE r > K
      <3>1. r - K \in 1 .. Len(suf) /\ K + (r - K) = r
        BY <1>3, <1>4, <1>6, <2>3
      <3> QED BY <1>0, <1>6, <3>1
    <2>4. r = 1 \/ r \in 2 .. K \/ r > K
      BY <1>3
    <2> QED BY <2>1, <2>2, <2>3, <2>4
  <1>13. Shuffle(is, x, a, Gone(x), 2, ws)
    <2>1. /\ Stuck(x) => x \in damaged
          /\ ~Stuck(x) => a \in Attributes
          /\ a.kind = inodes[x].kind /\ a.open_file_handles = inodes[x].open_file_handles
          /\ \A m \in Names : Entry(x, m) = NoEntry
      BY <1>0, DropFacts DEF a
    <2>2. Len(ws) \in Nat /\ 2 <= Len(ws) /\ (Gone(x) => 2 + 2 <= Len(ws))
      BY <1>3, <1>4, <1>6, <1>7, <1>l
    <2>3. 2 + 1 = 3 /\ 2 + 2 = 4 /\ 2 \in Nat /\ 2 # 0
      OBVIOUS
    <2>4. \/ /\ ws[2].to = "inode" /\ ws[2].i = x /\ ws[2].val = a
             /\ a \in Attributes /\ a.kind = inodes[x].kind
             /\ a.open_file_handles = inodes[x].open_file_handles
          \/ ws[2] = Panic(x) /\ x \in damaged /\ ~Gone(x)
      BY <1>10, <2>1
    <2>5. Gone(x) => /\ a.open_file_handles = 0
                     /\ ws[3] = RemoveInode(x) /\ ws[3].to = "rm_inode" /\ ws[3].i = x
                     /\ ws[4].to = "rm_content" /\ ws[4].i = x
      BY <1>10, <1>g
    <2>6. x \in is /\ x \in Inodes
      BY <1>0
    <2> HIDE DEF D, pd, a
    <2> QED BY <1>0, <1>6, <1>12, <2>1, <2>2, <2>3, <2>4, <2>5, <2>6 DEF Shuffle
  <1> QED BY <1>3, <1>4, <1>6, <1>11, <1>13 DEF a, Around

(* The entries that are written: those of the directory, except for some   *)
(* names that denote inodes the handler is about, or nothing.              *)
LEMMA DirSame ==
  ASSUME Inv, NEW is, is \subseteq Inodes, \A z \in is : Exists(z),
         NEW y \in Inodes, Exists(y), IsDir(y), HasContent(y), ~TornContent(y)
  PROVE  DirWrite(is, y, Entries(y))
  <1>1. /\ Entries(y) \in [AllNames -> Nat]
        /\ \A m \in AllNames : Entries(y)[m] = Entry(y, m) /\ Entries(y)[m] <= superblock
    BY DirEntries
  <1>2. ASSUME NEW m \in Names
        PROVE  /\ Entry(y, m) # y /\ Entry(y, m) # FUSE_ROOT_ID
               /\ Entry(y, m) \in Inodes /\ Entry(y, m) \in is =>
                    HasContent(Entry(y, m)) \/ inodes[Entry(y, m)].kind = "Symlink"
    BY Facts
  <1>3. ".." \in AllNames /\ \A m \in Names : m \in AllNames
    BY DEF AllNames
  <1>4. ASSUME NEW m \in Names, Entry(y, m) \in is PROVE Entry(y, m) \in Inodes
    BY <1>4
  <1> QED BY <1>1, <1>2, <1>3, <1>4 DEF DirWrite

Free(is, y, m) == \A j \in Inodes \ (is \cup damaged) : Entry(y, m) # j

LEMMA DirSet ==
  ASSUME Inv, NEW is, is \subseteq Inodes, NEW y, NEW e, DirWrite(is, y, e), NEW m \in Names, Free(is, y, m),
         NEW v, v = NoEntry \/ (v \in is /\ v \in Inodes /\ Exists(v) /\ v # y /\ v # FUSE_ROOT_ID
                                /\ (HasContent(v) \/ inodes[v].kind = "Symlink"))
  PROVE  /\ DirWrite(is, y, [e EXCEPT ![m] = v])
         /\ \A x \in AllNames : [e EXCEPT ![m] = v][x] = IF x = m THEN v ELSE e[x]
  <1> DEFINE f == [e EXCEPT ![m] = v]
  <1>1. /\ y \in Inodes /\ e \in [AllNames -> Nat] /\ \A x \in AllNames : e[x] <= superblock
        /\ m \in AllNames /\ m # ".." /\ ".." \in AllNames
    BY Constants DEF DirWrite, AllNames
  <1>2. v \in Nat /\ v <= superblock /\ v # y /\ v # FUSE_ROOT_ID /\ (v \in Inodes => v \in is)
        /\ (v \in is => HasContent(v) \/ inodes[v].kind = "Symlink")
    <2>1. CASE v = NoEntry
      BY <1>1, <2>1, Facts DEF Inodes, NoEntry, FUSE_ROOT_ID
    <2>2. CASE v # NoEntry
      BY <2>2, Facts DEF Inodes
    <2> QED BY <2>1, <2>2
  <1>3. f \in [AllNames -> Nat] /\ \A x \in AllNames : f[x] = IF x = m THEN v ELSE e[x]
    BY <1>1, <1>2
  <1> HIDE DEF f
  <1>4. (y \notin is => f[".."] = Entry(y, "..")) /\ \A x \in AllNames : f[x] <= superblock
    BY <1>1, <1>2, <1>3 DEF DirWrite
  <1>5. ASSUME NEW x \in Names
        PROVE  /\ f[x] # y /\ f[x] # FUSE_ROOT_ID
               /\ f[x] \in is => HasContent(f[x]) \/ inodes[f[x]].kind = "Symlink"
               /\ f[x] \in Inodes \ is => Entry(y, x) = f[x]
               /\ \A j \in Inodes \ (is \cup damaged) : Entry(y, x) = j => f[x] = j
    <2>0. x \in AllNames
      BY DEF AllNames
    <2>1. CASE x = m
      BY <1>2, <1>3, <2>0, <2>1 DEF Free
    <2>2. CASE x # m
      BY <1>3, <2>0, <2>2 DEF DirWrite
    <2> QED BY <2>1, <2>2
  <1>6. DirWrite(is, y, f)
    BY <1>3, <1>4, <1>5 DEF DirWrite
  <1> QED BY <1>3, <1>6 DEF f

LEMMA DirParent ==
  ASSUME Inv, NEW is, NEW y \in is, NEW e, DirWrite(is, y, e), NEW q \in Inodes, Exists(q)
  PROVE  /\ DirWrite(is, y, [e EXCEPT ![".."] = q])
         /\ [e EXCEPT ![".."] = q][".."] = q
         /\ \A x \in Names : [e EXCEPT ![".."] = q][x] = e[x]
  <1> DEFINE f == [e EXCEPT ![".."] = q]
  <1>1. /\ e \in [AllNames -> Nat] /\ \A x \in AllNames : e[x] <= superblock
        /\ \A x \in Names : x \in AllNames /\ x # ".."
        /\ ".." \in AllNames
    BY Constants DEF DirWrite, AllNames
  <1>2. q \in Nat /\ q <= superblock
    BY Facts DEF Inodes
  <1>3. f \in [AllNames -> Nat] /\ f[".."] = q /\ \A x \in AllNames : f[x] = IF x = ".." THEN q ELSE e[x]
    BY <1>1, <1>2
  <1> HIDE DEF f
  <1>4. (\A x \in Names : f[x] = e[x]) /\ \A x \in AllNames : f[x] <= superblock
    BY <1>1, <1>2, <1>3
  <1>5. DirWrite(is, y, f)
    BY <1>3, <1>4 DEF DirWrite
  <1> QED BY <1>3, <1>4, <1>5 DEF f

LEMMA PlainWrites ==
  ASSUME NEW is, NEW x
  PROVE  /\ \A y \in Inodes \ {x} : Exists(y) => Plain(is, x, Touch(y))
         /\ \A e : \A y \in Inodes \ {x} : DirWrite(is, y, e) => Plain(is, x, WriteDir(y, e))
         /\ \A y : Touch(y).to = "inode" /\ Touch(y).i = y
         /\ \A y, e : /\ WriteDir(y, e).to = "content" /\ WriteDir(y, e).i = y
                      /\ WriteDir(y, e).val = Directory(e)
  <1>1. \A y : Touch(y).to = "inode" /\ Touch(y).i = y /\ Touch(y).val = inodes[y]
    BY DEF Touch, WriteInode
  <1>2. \A y, e : /\ WriteDir(y, e).to = "content" /\ WriteDir(y, e).i = y
                  /\ WriteDir(y, e).val = Directory(e)
    BY DEF WriteDir, WriteContent
  <1>3. \A e : Directory(e).entries = e
    BY DEF Directory
  <1>4. ASSUME NEW y \in Inodes \ {x}, Exists(y) PROVE Plain(is, x, Touch(y))
    BY <1>1, <1>4 DEF Plain
  <1>5. ASSUME NEW y \in Inodes \ {x}, NEW e, DirWrite(is, y, e) PROVE Plain(is, x, WriteDir(y, e))
    <2>1. Exists(y)
      BY <1>5 DEF DirWrite
    <2> QED BY <1>2, <1>3, <1>5, <2>1 DEF Plain
  <1> QED BY <1>1, <1>2, <1>4, <1>5

(* Places, entry by entry.                                                 *)
LEMMA PlacesBefore ==
  ASSUME NEW i
  PROVE  /\ PlacesIn(Before, i) \subseteq Inodes \X Names
         /\ \A y \in Inodes, x \in Names : <<y, x>> \in PlacesIn(Before, i) <=> Exists(y) /\ Entry(y, x) = i
  BY DEF PlacesIn, Before, Exists, EntryIn, Entry, Entries

ArePlaces(d, i, T) ==
  /\ T \subseteq Inodes \X Names
  /\ \A y \in Inodes, x \in Names :
       d.inodes[y] # Missing /\ EntryIn(d, y, x) = i <=> <<y, x>> \in T

LEMMA PlacesAfter ==
  ASSUME NEW d, NEW i, NEW T, ArePlaces(d, i, T)
  PROVE  PlacesIn(d, i) = T
  <1>1. ASSUME NEW z \in Inodes \X Names PROVE z \in PlacesIn(d, i) <=> z \in T
    <2>1. PICK y \in Inodes, x \in Names : z = <<y, x>>
      OBVIOUS
    <2>2. z \in PlacesIn(d, i) <=> d.inodes[y] # Missing /\ EntryIn(d, y, x) = i
      BY <2>1 DEF PlacesIn
    <2> QED BY <2>1, <2>2 DEF ArePlaces
  <1>2. PlacesIn(d, i) \subseteq Inodes \X Names /\ T \subseteq Inodes \X Names
    BY DEF PlacesIn, ArePlaces
  <1> HIDE DEF PlacesIn
  <1> QED BY <1>1, <1>2

(* unlink and rmdir.                                                       *)
LEMMA SoundRemoveName ==
  ASSUME Inv, NEW p \in Inodes, Exists(p), IsDir(p), HasContent(p), ~TornContent(p), NEW m \in Names,
         NEW i, i = lookup_name(p, m), i # NoEntry, IsDir(i) => ~NotEmpty(i)
  PROVE  Sound({i}, "File", <<Touch(p)>> \o DropLink(i) \o
                            <<WriteDir(p, [Entries(p) EXCEPT ![m] = NoEntry])>>)
  <1> DEFINE is == {i}
             e == [Entries(p) EXCEPT ![m] = NoEntry]
             w == WriteDir(p, e)
             suf == <<w>>
             S == {Touch(p), w, Panic(i), WriteInode(i, Dropped(i)), RemoveInode(i), RemoveContent(i)}
             K == 1 + Len(DropLink(i))
             ws == (<<Touch(p)>> \o DropLink(i)) \o suf
             d == After(ws, Len(ws))
             P == PlacesIn(Before, i)
  <1>1. /\ i \in Inodes /\ Exists(i) /\ i = Entry(p, m) /\ i # p /\ i # FUSE_ROOT_ID
        /\ HasContent(i) \/ inodes[i].kind = "Symlink"
    BY LookupFacts
  <1>2. <<p, m>> \in P
    BY <1>1, PlacesBefore
  <1>3. MayDrop(i)
    BY <1>1, <1>2 DEF MayDrop
  <1>4. DirWrite(is, p, e) /\ \A x \in AllNames : e[x] = IF x = m THEN NoEntry ELSE Entries(p)[x]
    <2>1. DirWrite(is, p, Entries(p))
      BY <1>1, DirSame
    <2>2. Free(is, p, m)
      BY <1>1 DEF Free
    <2>3. is \subseteq Inodes
      BY <1>1
    <2> HIDE DEF is
    <2> QED BY <2>1, <2>2, <2>3, DirSet
  <1>5. \A x \in Names : e[x] = IF x = m THEN NoEntry ELSE Entry(p, x)
    BY <1>4, DirEntries DEF AllNames
  <1> HIDE DEF e
  <1>0. p \in Inodes \ {i} /\ DirWrite(is, p, e)
    BY <1>1, <1>4
  <1>6. Plain(is, i, Touch(p)) /\ Plain(is, i, w) /\ w.to = "content" /\ w.i = p /\ w.val = Directory(e)
        /\ Touch(p).to = "inode"
    BY <1>0, PlainWrites
  <1> HIDE DEF w, P
  <1>7. suf \in Seq(S) /\ Len(suf) = 1 /\ suf[1] = w /\ \A r \in 1 .. Len(suf) : Plain(is, i, suf[r])
    BY <1>6
  <1>8. Touch(p) \in S /\ {Panic(i), WriteInode(i, Dropped(i)), RemoveInode(i), RemoveContent(i)} \subseteq S
    OBVIOUS
  <1>9. is \subseteq Inodes /\ (\A y \in is : Exists(y) /\ y # FUSE_ROOT_ID) /\ i \in is
    BY <1>1
  <1> HIDE DEF is, S, suf
  <1>k. ws = (<<Touch(p)>> \o DropLink(i)) \o suf /\ K = 1 + Len(DropLink(i))
    OBVIOUS
  <1> HIDE DEF ws, K
  <1>10. /\ Shuffle(is, i, Dropped(i), Gone(i), 2, ws)
         /\ K \in Nat /\ K >= 2 /\ Len(ws) = K + 1
         /\ ws[1] = Touch(p) /\ \A r \in 2 .. K : ws[r].to = "panic" \/ ws[r].i = i
         /\ ws[K + 1] = w
    <2>1. suf \in Seq(S) /\ \A r \in 1 .. Len(suf) : Plain(is, i, suf[r])
      BY <1>7
    <2>2. Drops(is, i, S, Touch(p), suf, ws, K)
      BY <1>3, <1>6, <1>8, <1>9, <1>k, <2>1 DEF Drops
    <2>3. Shuffle(is, i, Dropped(i), Gone(i), 2, ws) /\ Around(i, Touch(p), suf, ws, K)
      BY <2>2, DropShuffle
    <2>4. 1 \in 1 .. Len(suf)
      BY <1>7
    <2> QED BY <1>7, <2>3, <2>4 DEF Around
  <1>11. Safe(is, "File", ws)
    BY <1>10, ShufflePanics
  <1>13. ASSUME PanicAt(ws) = {} PROVE Finishes(is, ws)
    <2>1. Prefix(is, "File", ws, Len(ws))
      BY <1>10, <1>13, ShufflePanics
    <2>2. /\ OpenKept(d) /\ \A y \in Inodes \ {i} : d.inodes[y] = inodes[y]
          /\ d.inodes[i] = IF Gone(i) THEN Missing ELSE Dropped(i)
          /\ d.contents[i] = IF Gone(i) THEN Missing ELSE contents[i]
      BY <1>10, <1>13, ShuffleFinal
    <2>3. d.contents[p] = Directory(e)
      <3>1. K + 1 \in 1 .. Len(ws) /\ (K + 1) + 1 .. Len(ws) = {}
        BY <1>10
      <3> QED BY <1>6, <1>10, <2>1, <3>1, LastWrite
    <2>4. ASSUME NEW y \in Inodes \ {i, p} PROVE d.contents[y] = contents[y]
      <3>1. ASSUME NEW r \in 1 .. Len(ws) PROVE ~OnContent(ws[r], y)
        <4>1. r = 1 \/ r \in 2 .. K \/ r = K + 1
          BY <1>10
        <4> QED BY <1>6, <1>10, <4>1 DEF OnContent
      <3> QED BY <2>1, <3>1, NotWritten
    <2> HIDE DEF d
    <2> DEFINE T == P \ {<<p, m>>}
    <2>5. PlacesIn(d, i) = T
      <3>1. P \subseteq Inodes \X Names
            /\ \A y \in Inodes, x \in Names : <<y, x>> \in P <=> Exists(y) /\ Entry(y, x) = i
        BY PlacesBefore DEF P
      <3>2. ASSUME NEW y \in Inodes, NEW x \in Names
            PROVE  d.inodes[y] # Missing /\ EntryIn(d, y, x) = i <=> <<y, x>> \in P \ {<<p, m>>}
        <4>1. CASE y = p
          <5>1. EntryIn(d, p, x) = e[x]
            BY <2>3 DEF EntryIn, Directory
          <5>2. d.inodes[p] = inodes[p]
            BY <1>1, <2>2
          <5> QED BY <1>5, <3>1, <4>1, <5>1, <5>2 DEF Exists
        <4>2. CASE y = i
          <5>1. Entry(i, x) = NoEntry
            BY <1>3, DropFacts
          <5>2. EntryIn(d, i, x) = NoEntry
            BY <2>2, <5>1 DEF EntryIn, Entry, Entries, Missing
          <5> QED BY <3>1, <4>2, <5>1, <5>2
        <4>3. CASE y # p /\ y # i
          <5>1. EntryIn(d, y, x) = Entry(y, x) /\ d.inodes[y] = inodes[y]
            BY <2>2, <2>4, <4>3 DEF EntryIn, Entry, Entries
          <5> QED BY <3>1, <4>3, <5>1 DEF Exists
        <4> QED BY <4>1, <4>2, <4>3
      <3>3. T \subseteq Inodes \X Names
        BY <3>1
      <3>4. ArePlaces(d, i, T)
        BY <3>2, <3>3 DEF ArePlaces
      <3> QED BY <3>4, PlacesAfter
    <2>6. i \notin damaged => Exact(d, i)
      BY <1>1, <1>2, <2>2, <2>5, DroppedExact DEF P
    <2> QED BY <2>2, <2>6 DEF Finishes, d, is
  <1> QED BY <1>11, <1>13 DEF Sound, ws, suf, w, e, is

(* It gets one more.                                                       *)
LEMMA SoundLink ==
  ASSUME Inv, NEW p \in Inodes, Exists(p), IsDir(p), HasContent(p), ~TornContent(p), NEW m \in Names,
         lookup_name(p, m) = NoEntry, NEW i \in Inodes, Exists(i), ~IsDir(i), i # FUSE_ROOT_ID,
         HasContent(i) \/ inodes[i].kind = "Symlink", inodes[i].hardlinks > 0
  PROVE  Sound({i}, "File", InsertLink(p, m, i) \o
                            <<WriteInode(i, [inodes[i] EXCEPT !.hardlinks = @ + 1])>>)
  <1> DEFINE is == {i}
             a == [inodes[i] EXCEPT !.hardlinks = @ + 1]
             e == [Entries(p) EXCEPT ![m] = i]
             w == WriteDir(p, e)
             v == WriteInode(i, a)
             S == {Touch(p), w, v}
             s == <<Touch(p), w>>
             t == <<v>>
             ws == s \o t
             d == After(ws, Len(ws))
             P == PlacesIn(Before, i)
             T == P \cup {<<p, m>>}
             gone == FALSE
  <1>g. ~gone
    OBVIOUS
  <1> HIDE DEF gone
  <1>0. i # p
    BY DEF IsDir
  <1>1. inodes[i] \in Attributes
    BY Facts
  <1>a. /\ a \in Attributes /\ a # Missing /\ a.kind = inodes[i].kind /\ a.size = inodes[i].size
        /\ a.open_file_handles = inodes[i].open_file_handles
        /\ a.hardlinks = inodes[i].hardlinks + 1 /\ inodes[i].hardlinks \in Nat
    BY <1>1 DEF Attributes, Missing
  <1> HIDE DEF a
  <1>2. is \subseteq Inodes /\ \A y \in is : Exists(y) /\ y # FUSE_ROOT_ID
    OBVIOUS
  <1>3. Free(is, p, m) /\ Entry(p, m) # i
    BY FreeName DEF Free
  <1>4. DirWrite(is, p, e) /\ \A x \in AllNames : e[x] = IF x = m THEN i ELSE Entries(p)[x]
    <2>1. DirWrite(is, p, Entries(p))
      BY <1>2, DirSame
    <2>2. i \in is
      OBVIOUS
    <2> HIDE DEF is
    <2> QED BY <1>0, <1>2, <1>3, <2>1, <2>2, DirSet
  <1>5. \A x \in Names : e[x] = IF x = m THEN i ELSE Entry(p, x)
    BY <1>4, DirEntries DEF AllNames
  <1> HIDE DEF e
  <1>6. Plain(is, i, Touch(p)) /\ Plain(is, i, w) /\ w.to = "content" /\ w.i = p /\ w.val = Directory(e)
        /\ Touch(p).to = "inode"
    BY <1>0, <1>4, PlainWrites
  <1>7. v.to = "inode" /\ v.i = i /\ v.val = a
    BY DEF WriteInode
  <1> HIDE DEF w, v, P
  <1>8. /\ Len(ws) = 3 /\ DOMAIN ws = 1 .. 3 /\ ws[1] = Touch(p) /\ ws[2] = w /\ ws[3] = v
    <2>1. s \in Seq(S) /\ t \in Seq(S) /\ Len(s) = 2 /\ Len(t) = 1 /\ s[1] = Touch(p) /\ s[2] = w /\ t[1] = v
      OBVIOUS
    <2> HIDE DEF S, s, t
    <2>2. s \in Seq(S) /\ t \in Seq(S)
      BY <2>1
    <2>3. /\ s \o t \in Seq(S) /\ Len(s \o t) = Len(s) + Len(t)
          /\ \A r \in 1 .. Len(s) : (s \o t)[r] = s[r]
          /\ \A r \in 1 .. Len(t) : (s \o t)[Len(s) + r] = t[r]
      BY <2>2
    <2>4. DOMAIN (s \o t) = 1 .. Len(s \o t)
      BY <2>3
    <2>5. 1 \in 1 .. 2 /\ 2 \in 1 .. 2 /\ 1 \in 1 .. 1 /\ 2 + 1 = 3
      OBVIOUS
    <2> QED BY <2>1, <2>3, <2>4, <2>5
  <1> HIDE DEF ws
  <1>9. Shuffle(is, i, a, gone, 3, ws)
    <2>1. \A r \in 1 .. 3 : r = 3 \/ Plain(is, i, ws[r])
      BY <1>6, <1>8
    <2>2. i \in is /\ i \in Inodes
      OBVIOUS
    <2> HIDE DEF is
    <2> QED BY <1>2, <1>7, <1>8, <1>a, <1>g, <2>1, <2>2 DEF Shuffle
  <1>10. Safe(is, "File", ws)
    BY <1>9, ShufflePanics
  <1>11. ASSUME PanicAt(ws) = {} PROVE Finishes(is, ws)
    <2>1. Prefix(is, "File", ws, Len(ws))
      BY <1>9, <1>11, ShufflePanics
    <2>2. /\ OpenKept(d) /\ \A y \in Inodes \ {i} : d.inodes[y] = inodes[y]
          /\ d.inodes[i] = a /\ d.contents[i] = contents[i]
      BY <1>9, <1>11, <1>g, ShuffleFinal
    <2>3. d.contents[p] = Directory(e)
      <3>1. 2 \in 1 .. Len(ws) /\ \A r \in 2 + 1 .. Len(ws) : ~OnContent(ws[r], p)
        BY <1>7, <1>8 DEF OnContent
      <3> QED BY <1>6, <1>8, <2>1, <3>1, LastWrite
    <2>4. ASSUME NEW y \in Inodes \ {p} PROVE d.contents[y] = contents[y]
      <3>1. \A r \in 1 .. Len(ws) : ~OnContent(ws[r], y)
        BY <1>6, <1>7, <1>8 DEF OnContent
      <3> QED BY <2>1, <3>1, NotWritten
    <2> HIDE DEF d
    <2>5. PlacesIn(d, i) = T
      <3>1. P \subseteq Inodes \X Names
            /\ \A y \in Inodes, x \in Names : <<y, x>> \in P <=> Exists(y) /\ Entry(y, x) = i
        BY PlacesBefore DEF P
      <3>2. ASSUME NEW y \in Inodes, NEW x \in Names
            PROVE  d.inodes[y] # Missing /\ EntryIn(d, y, x) = i <=> <<y, x>> \in T
        <4>0. d.inodes[y] # Missing <=> Exists(y)
          BY <1>a, <2>2 DEF Exists
        <4>1. CASE y = p
          <5>1. EntryIn(d, p, x) = e[x]
            BY <2>3 DEF EntryIn, Directory
          <5> QED BY <1>5, <3>1, <4>0, <4>1, <5>1
        <4>2. CASE y # p
          <5>1. EntryIn(d, y, x) = Entry(y, x)
            BY <2>4, <4>2 DEF EntryIn, Entry, Entries
          <5> QED BY <3>1, <4>0, <4>2, <5>1
        <4> QED BY <4>1, <4>2
      <3>3. T \subseteq Inodes \X Names
        BY <3>1
      <3>4. ArePlaces(d, i, T)
        BY <3>2, <3>3 DEF ArePlaces
      <3> QED BY <3>4, PlacesAfter
    <2>6. ASSUME i \notin damaged PROVE Exact(d, i)
      <3>1. Exact(Before, i) /\ Before.inodes = inodes /\ Before.contents = contents
        BY <2>6 DEF Inv, Before
      <3>2. LinksExactIn(Before, i) /\ (i \notin missized => SizeExactIn(Before, i))
        BY <3>1 DEF Exact, ExactBut
      <3>3. contents[i] # Missing /\ inodes[i].hardlinks = Cardinality(P)
        BY <3>1, <3>2 DEF LinksExactIn, Exists, IsDir, P
      <3>4. i \notin missized => SizeExactIn(d, i)
        BY <1>a, <2>2, <3>1, <3>2 DEF SizeExactIn, Exists
      <3>5. IsFiniteSet(P) /\ <<p, m>> \notin P
        BY <1>3, PlacesFinite, PlacesBefore DEF P
      <3>6. Cardinality(T) = Cardinality(P) + 1
        BY <3>5, FS_AddElement
      <3>7. LinksExactIn(d, i)
        BY <1>a, <2>2, <2>5, <3>3, <3>6 DEF LinksExactIn, IsDir
      <3> QED BY <3>4, <3>7 DEF Exact, ExactBut
    <2> QED BY <2>2, <2>6 DEF Finishes, d
  <1>12. InsertLink(p, m, i) = s
    BY DEF InsertLink, UpdateDir, Readable, w, e
  <1>13. Sound(is, "File", ws)
    BY <1>10, <1>11 DEF Sound
  <1> QED BY <1>12, <1>13 DEF ws, v, a

-----------------------------------------------------------------------------
(* rename and exchange.  The name m of p is given to n of q, for i, and in *)
(* its place there is v: nothing, or what n denoted before.                *)
Renamed(d, p, m, q, n, i, v) ==
  \A y \in Inodes, x \in Names :
    \/ /\ EntryIn(d, y, x) = IF y = q /\ x = n THEN i ELSE IF y = p /\ x = m THEN v ELSE Entry(y, x)
       /\ d.inodes[y] # Missing <=> Exists(y)
    \/ EntryIn(d, y, x) = NoEntry /\ Entry(y, x) = NoEntry /\ y # p /\ y # q

LEMMA PlacesMoved ==
  ASSUME NEW p \in Inodes, Exists(p), NEW m \in Names, NEW q \in Inodes, Exists(q), NEW n \in Names,
         p # q \/ m # n, NEW i, i # NoEntry, NEW v, v # i, Entry(q, n) # i, NEW d,
         Renamed(d, p, m, q, n, i, v)
  PROVE  PlacesIn(d, i) = (PlacesIn(Before, i) \ {<<p, m>>}) \cup {<<q, n>>}
  <1> DEFINE P == PlacesIn(Before, i)
             T == (P \ {<<p, m>>}) \cup {<<q, n>>}
  <1>1. P \subseteq Inodes \X Names
        /\ \A y \in Inodes, x \in Names : <<y, x>> \in P <=> Exists(y) /\ Entry(y, x) = i
    BY PlacesBefore
  <1> HIDE DEF P
  <1>2. ASSUME NEW y \in Inodes, NEW x \in Names
        PROVE  d.inodes[y] # Missing /\ EntryIn(d, y, x) = i <=> <<y, x>> \in T
    <2>1. CASE y = q /\ x = n
      BY <2>1 DEF Renamed
    <2>2. CASE y = p /\ x = m
      <3>1. EntryIn(d, y, x) = v /\ <<y, x>> # <<q, n>> /\ <<y, x>> = <<p, m>>
        BY <2>2 DEF Renamed
      <3> QED BY <3>1
    <2>3. CASE (y # q \/ x # n) /\ (y # p \/ x # m)
      <3>1. <<y, x>> # <<q, n>> /\ <<y, x>> # <<p, m>>
        BY <2>3
      <3>2. \/ EntryIn(d, y, x) = Entry(y, x) /\ (d.inodes[y] # Missing <=> Exists(y))
            \/ EntryIn(d, y, x) = NoEntry /\ Entry(y, x) = NoEntry
        BY <2>3 DEF Renamed
      <3> QED BY <1>1, <3>1, <3>2
    <2> QED BY <2>1, <2>2, <2>3
  <1>3. T \subseteq Inodes \X Names
    BY <1>1
  <1>4. ArePlaces(d, i, T)
    BY <1>2, <1>3 DEF ArePlaces
  <1> QED BY <1>4, PlacesAfter DEF P

LEMMA PlacesLost ==
  ASSUME NEW p \in Inodes, Exists(p), NEW m \in Names, NEW q \in Inodes, Exists(q), NEW n \in Names,
         p # q \/ m # n, NEW i, NEW old, old # NoEntry, old # i, Entry(p, m) # old, NEW d,
         Renamed(d, p, m, q, n, i, NoEntry)
  PROVE  PlacesIn(d, old) = PlacesIn(Before, old) \ {<<q, n>>}
  <1> DEFINE P == PlacesIn(Before, old)
             T == P \ {<<q, n>>}
  <1>1. P \subseteq Inodes \X Names
        /\ \A y \in Inodes, x \in Names : <<y, x>> \in P <=> Exists(y) /\ Entry(y, x) = old
    BY PlacesBefore
  <1> HIDE DEF P
  <1>2. ASSUME NEW y \in Inodes, NEW x \in Names
        PROVE  d.inodes[y] # Missing /\ EntryIn(d, y, x) = old <=> <<y, x>> \in T
    <2>1. CASE y = q /\ x = n
      BY <2>1 DEF Renamed
    <2>2. CASE y = p /\ x = m
      <3>1. EntryIn(d, y, x) = NoEntry
        BY <2>2 DEF Renamed
      <3> QED BY <1>1, <2>2, <3>1
    <2>3. CASE (y # q \/ x # n) /\ (y # p \/ x # m)
      <3>1. <<y, x>> # <<q, n>>
        BY <2>3
      <3>2. \/ EntryIn(d, y, x) = Entry(y, x) /\ (d.inodes[y] # Missing <=> Exists(y))
            \/ EntryIn(d, y, x) = NoEntry /\ Entry(y, x) = NoEntry
        BY <2>3 DEF Renamed
      <3> QED BY <1>1, <3>1, <3>2
    <2> QED BY <2>1, <2>2, <2>3
  <1>3. T \subseteq Inodes \X Names
    BY <1>1
  <1>4. ArePlaces(d, old, T)
    BY <1>2, <1>3 DEF ArePlaces
  <1> QED BY <1>4, PlacesAfter DEF P

(* What rename may be asked for.                                           *)
IsDirectory(p) == p \in Inodes /\ Exists(p) /\ IsDir(p) /\ HasContent(p) /\ ~TornContent(p)
IsMoved(i, p, m, q) ==
  /\ i \in Inodes /\ Exists(i) /\ i # FUSE_ROOT_ID /\ i = Entry(p, m) /\ i # p /\ i # q
  /\ HasContent(i) \/ inodes[i].kind = "Symlink"

LEMMA MovedFacts ==
  ASSUME Inv, NEW p, IsDirectory(p), NEW m \in Names, NEW q, IsDirectory(q), NEW i,
         i = lookup_name(p, m), i # NoEntry, IsDir(i) => q \notin Below(i)
  PROVE  IsMoved(i, p, m, q) /\ (IsDir(i) => HasContent(i))
  <1>1. /\ i \in Inodes /\ Exists(i) /\ i = Entry(p, m) /\ i # p /\ i # FUSE_ROOT_ID
        /\ HasContent(i) \/ inodes[i].kind = "Symlink"
    BY LookupFacts DEF IsDirectory
  <1>2. i # q
    <2>1. CASE IsDir(i)
      BY <1>1, <2>1, BelowNamed
    <2>2. CASE ~IsDir(i)
      BY <2>2 DEF IsDirectory
    <2> QED BY <2>1, <2>2
  <1>3. IsDir(i) => HasContent(i)
    BY <1>1 DEF IsDir
  <1> QED BY <1>1, <1>2, <1>3 DEF IsMoved

MayMove(p, m, q, n, i, old) ==
  /\ IsDirectory(p) /\ IsDirectory(q) /\ m \in Names /\ n \in Names /\ (p # q \/ m # n)
  /\ IsMoved(i, p, m, q) /\ (IsDir(i) => HasContent(i)) /\ Entry(q, n) # i
  /\ \/ old = NoEntry /\ lookup_name(q, n) = NoEntry
     \/ /\ MayDrop(old) /\ old = Entry(q, n) /\ old # i /\ old # p /\ old # q
        /\ <<q, n>> \in PlacesIn(Before, old)

LEMMA MayMoveFacts ==
  ASSUME Inv, NEW p, IsDirectory(p), NEW m \in Names, NEW q, IsDirectory(q), NEW n \in Names, NEW i,
         i = lookup_name(p, m), i # NoEntry, IsDir(i) => q \notin Below(i), NEW old,
         old = lookup_name(q, n), old # i,
         old # NoEntry => IsDir(i) = IsDir(old) /\ ~(IsDir(old) /\ NotEmpty(old))
  PROVE  MayMove(p, m, q, n, i, old)
  <1>1. IsMoved(i, p, m, q) /\ (IsDir(i) => HasContent(i))
    BY MovedFacts
  <1>2. p # q \/ m # n
    OBVIOUS
  <1>3. Entry(q, n) # i
    <2>1. CASE old = NoEntry
      BY <1>1, <2>1, FreeName DEF IsMoved, IsDirectory
    <2>2. CASE old # NoEntry
      BY <2>2, LookupFacts DEF IsDirectory
    <2> QED BY <2>1, <2>2
  <1>4. ASSUME old # NoEntry
        PROVE  /\ MayDrop(old) /\ old = Entry(q, n) /\ old # i /\ old # p /\ old # q
               /\ <<q, n>> \in PlacesIn(Before, old)
    <2>1. /\ old \in Inodes /\ Exists(old) /\ old = Entry(q, n) /\ old # q /\ old # FUSE_ROOT_ID
          /\ HasContent(old) \/ inodes[old].kind = "Symlink"
      BY <1>4, LookupFacts DEF IsDirectory
    <2>2. <<q, n>> \in PlacesIn(Before, old)
      BY <2>1, PlacesBefore DEF IsDirectory
    <2>3. IsDir(old) => ~NotEmpty(old)
      BY <1>4
    <2>4. old # p
      <3> SUFFICES ASSUME old = p PROVE FALSE
        OBVIOUS
      <3>1. ~NotEmpty(p)
        BY <2>3 DEF IsDirectory
      <3>2. Entries(p)[m] = Entry(p, m) /\ Entry(p, m) = i
        BY <1>1, DirEntries DEF IsDirectory, IsMoved, AllNames
      <3> QED BY <3>1, <3>2 DEF NotEmpty
    <2>5. MayDrop(old)
      BY <2>1, <2>2, <2>3 DEF MayDrop
    <2> QED BY <2>1, <2>2, <2>4, <2>5
  <1> QED BY <1>1, <1>2, <1>3, <1>4 DEF MayMove

(* The directories that Move writes.                                       *)
Cleared(q, n) == [Entries(q) EXCEPT ![n] = NoEntry]
From(p, m, q, n) == [(IF p = q THEN Cleared(q, n) ELSE Entries(p)) EXCEPT ![m] = NoEntry]
Into(p, m, q, n, i) == [(IF p = q THEN From(p, m, q, n) ELSE Cleared(q, n)) EXCEPT ![n] = i]
Up(i, q) == [Entries(i) EXCEPT ![".."] = q]
Moving(i, old) == {i, old} \ {NoEntry}
Told(i) == IsDir(i) => Readable(i)

LEMMA DotDotWrites ==
  ASSUME NEW i, NEW q
  PROVE  /\ ~IsDir(i) => DotDot(i, Entries(i), q) = <<>>
         /\ IsDir(i) /\ Told(i) => DotDot(i, Entries(i), q) = <<WriteDir(i, Up(i, q))>>
         /\ IsDir(i) /\ ~Told(i) => DotDot(i, Entries(i), q) = <<Panic(i)>>
  BY DEF DotDot, UpdateDir, Told, Up

LEMMA UntoldDamaged ==
  ASSUME Inv, NEW i \in Inodes, IsDir(i) => HasContent(i), ~Told(i)
  PROVE  i \in damaged /\ IsDir(i)
  <1>1. IsDir(i) /\ TornContent(i)
    BY DEF Told, Readable
  <1> QED BY <1>1 DEF Inv, TornInv

LEMMA MoveAbout ==
  ASSUME Inv, NEW p, NEW m, NEW q, NEW n, NEW i, NEW old, MayMove(p, m, q, n, i, old),
         NEW is, is = Moving(i, old)
  PROVE  /\ is \subseteq Inodes /\ \A z \in is : Exists(z) /\ z # FUSE_ROOT_ID
         /\ i \in is /\ (old # NoEntry => old \in is) /\ i # NoEntry
         /\ \A z \in is : z = i \/ (z = old /\ old # NoEntry)
         /\ Free(is, p, m) /\ Free(is, q, n)
  <1>1. i \in Inodes /\ Exists(i) /\ i # FUSE_ROOT_ID /\ i = Entry(p, m)
    BY DEF MayMove, IsMoved
  <1>2. i # NoEntry
    BY <1>1, Constants DEF Inodes, NoEntry
  <1>3. old # NoEntry => old \in Inodes /\ Exists(old) /\ old # FUSE_ROOT_ID /\ old = Entry(q, n)
    BY DEF MayMove, MayDrop
  <1>4. i \in is /\ (old # NoEntry => old \in is) /\ \A z \in is : z = i \/ (z = old /\ old # NoEntry)
    BY <1>2 DEF Moving
  <1>5. Free(is, p, m)
    BY <1>1, <1>4 DEF Free
  <1>6. Free(is, q, n)
    <2>1. CASE old = NoEntry
      <3>1. q \in Inodes /\ Exists(q) /\ n \in Names /\ lookup_name(q, n) = NoEntry
        BY <1>1, <2>1, Constants DEF MayMove, IsDirectory, MayDrop, Inodes, NoEntry
      <3> QED BY <3>1, FreeName DEF Free
    <2>2. CASE old # NoEntry
      BY <1>3, <1>4, <2>2 DEF Free
    <2> QED BY <2>1, <2>2
  <1> QED BY <1>1, <1>2, <1>3, <1>4, <1>5, <1>6

LEMMA MoveDirs ==
  ASSUME Inv, NEW p, NEW m, NEW q, NEW n, NEW i, NEW old, MayMove(p, m, q, n, i, old),
         NEW is, is = Moving(i, old)
  PROVE  /\ DirWrite(is, q, Cleared(q, n)) /\ DirWrite(is, p, From(p, m, q, n))
         /\ DirWrite(is, q, Into(p, m, q, n, i))
         /\ IsDir(i) /\ Told(i) => /\ DirWrite(is, i, Up(i, q)) /\ Up(i, q)[".."] = q
                                   /\ \A x \in Names : Up(i, q)[x] = Entry(i, x)
         /\ \A x \in Names :
              /\ Into(p, m, q, n, i)[x] =
                   IF x = n THEN i ELSE IF p = q /\ x = m THEN NoEntry ELSE Entry(q, x)
              /\ p # q => From(p, m, q, n)[x] = IF x = m THEN NoEntry ELSE Entry(p, x)
  <1>0. /\ is \subseteq Inodes /\ \A z \in is : Exists(z)
        /\ i \in is /\ Free(is, p, m) /\ Free(is, q, n)
    BY MoveAbout
  <1>1. /\ p \in Inodes /\ Exists(p) /\ IsDir(p) /\ HasContent(p) /\ ~TornContent(p)
        /\ q \in Inodes /\ Exists(q) /\ IsDir(q) /\ HasContent(q) /\ ~TornContent(q)
        /\ m \in Names /\ n \in Names /\ (p # q \/ m # n)
        /\ i \in Inodes /\ Exists(i) /\ i # FUSE_ROOT_ID /\ i # p /\ i # q
        /\ HasContent(i) \/ inodes[i].kind = "Symlink"
        /\ IsDir(i) => HasContent(i)
    BY DEF MayMove, IsMoved, IsDirectory
  <1>2. DirWrite(is, p, Entries(p)) /\ DirWrite(is, q, Entries(q))
    BY <1>0, <1>1, DirSame
  <1>3. /\ \A x \in Names : x \in AllNames
        /\ \A x \in Names : Entries(p)[x] = Entry(p, x) /\ Entries(q)[x] = Entry(q, x)
    BY <1>1, DirEntries DEF AllNames
  <1>4. /\ DirWrite(is, q, Cleared(q, n))
        /\ \A x \in AllNames : Cleared(q, n)[x] = IF x = n THEN NoEntry ELSE Entries(q)[x]
    BY <1>0, <1>1, <1>2, DirSet DEF Cleared
  <1> DEFINE b == IF p = q THEN Cleared(q, n) ELSE Entries(p)
             f == From(p, m, q, n)
             c == IF p = q THEN f ELSE Cleared(q, n)
  <1>5. DirWrite(is, p, b)
    BY <1>2, <1>4
  <1>6. f = [b EXCEPT ![m] = NoEntry]
    BY DEF From
  <1> HIDE DEF b, f
  <1>7. /\ DirWrite(is, p, f) /\ \A x \in AllNames : f[x] = IF x = m THEN NoEntry ELSE b[x]
    <2>1. /\ DirWrite(is, p, [b EXCEPT ![m] = NoEntry])
          /\ \A x \in AllNames : [b EXCEPT ![m] = NoEntry][x] = IF x = m THEN NoEntry ELSE b[x]
      <3>1. is \subseteq Inodes /\ DirWrite(is, p, b) /\ m \in Names /\ Free(is, p, m)
        BY <1>0, <1>1, <1>5
      <3> QED BY <3>1, DirSet
    <2> QED BY <1>6, <2>1
  <1>8. DirWrite(is, q, c)
    BY <1>4, <1>7
  <1>9. Into(p, m, q, n, i) = [c EXCEPT ![n] = i]
    BY DEF Into, f
  <1> HIDE DEF c
  <1> DEFINE g == [c EXCEPT ![n] = i]
  <1>10. DirWrite(is, q, g) /\ \A x \in AllNames : g[x] = IF x = n THEN i ELSE c[x]
    BY <1>0, <1>1, <1>8, DirSet
  <1> HIDE DEF g
  <1>11. ASSUME NEW x \in Names
         PROVE  /\ g[x] = IF x = n THEN i ELSE IF p = q /\ x = m THEN NoEntry ELSE Entry(q, x)
                /\ p # q => f[x] = IF x = m THEN NoEntry ELSE Entry(p, x)
    <2>1. CASE p = q
      <3>1. c = f /\ b = Cleared(q, n)
        BY <2>1 DEF c, b
      <3> QED BY <1>3, <1>4, <1>7, <1>10, <2>1, <3>1
    <2>2. CASE p # q
      <3>1. c = Cleared(q, n) /\ b = Entries(p)
        BY <2>2 DEF c, b
      <3> QED BY <1>3, <1>4, <1>7, <1>10, <2>2, <3>1
    <2> QED BY <2>1, <2>2
  <1>12. ASSUME IsDir(i), Told(i)
         PROVE  /\ DirWrite(is, i, Up(i, q)) /\ Up(i, q)[".."] = q
                /\ \A x \in Names : Up(i, q)[x] = Entry(i, x)
    <2>1. HasContent(i) /\ ~TornContent(i)
      BY <1>12 DEF Told, Readable
    <2>2. DirWrite(is, i, Entries(i))
      BY <1>0, <1>1, <1>12, <2>1, DirSame
    <2>3. \A x \in Names : Entries(i)[x] = Entry(i, x)
      BY <1>1, <1>3, <1>12, <2>1, DirEntries
    <2> QED BY <1>0, <1>1, <2>2, <2>3, DirParent DEF Up
  <1> QED BY <1>4, <1>7, <1>9, <1>10, <1>11, <1>12 DEF f, g

(* What they leave, when x is the inode that lost its name.                *)
MoveShape(p, q, i, x, from, into, up, ws, K) ==
  /\ K \in Nat /\ Len(ws) = K + (IF IsDir(i) THEN 6 ELSE 5)
  /\ ws[K + 1] = WriteDir(p, from) /\ ws[K + 2] = WriteDir(q, into)
  /\ \A r \in K + 3 .. K + 5 : ws[r].to = "inode"
  /\ IsDir(i) => ws[K + 6] = WriteDir(i, up)
  /\ \A r \in 1 .. K : ws[r].to = "panic" \/ ws[r].i = x \/ ws[r].i = q

LEMMA MoveContents ==
  ASSUME NEW p \in Inodes, NEW q \in Inodes, NEW i \in Inodes, i # p, i # q,
         NEW x, x # p, x # q, x # i, NEW from, NEW into, NEW up, NEW ws, NEW K,
         MoveShape(p, q, i, x, from, into, up, ws, K),
         NEW is, Prefix(is, "File", ws, Len(ws)), NEW d, d = After(ws, Len(ws))
  PROVE  /\ d.contents[q] = Directory(into)
         /\ p # q => d.contents[p] = Directory(from)
         /\ IsDir(i) => d.contents[i] = Directory(up)
         /\ \A y \in Inodes \ {p, q, x} : ~(y = i /\ IsDir(i)) => d.contents[y] = contents[y]
  <1>1. /\ K \in Nat /\ Len(ws) = K + (IF IsDir(i) THEN 6 ELSE 5)
        /\ ws[K + 1] = WriteDir(p, from) /\ ws[K + 2] = WriteDir(q, into)
        /\ \A r \in K + 3 .. K + 5 : ws[r].to = "inode"
        /\ IsDir(i) => ws[K + 6] = WriteDir(i, up)
        /\ \A r \in 1 .. K : ws[r].to = "panic" \/ ws[r].i = x \/ ws[r].i = q
    BY DEF MoveShape
  <1>2. \A y, e : WriteDir(y, e).to = "content" /\ WriteDir(y, e).i = y /\ WriteDir(y, e).val = Directory(e)
    BY PlainWrites
  <1>3. ASSUME NEW r \in 1 .. Len(ws), NEW y \in Inodes, OnContent(ws[r], y)
        PROVE  \/ r \in 1 .. K /\ (y = x \/ y = q)
               \/ r = K + 1 /\ y = p
               \/ r = K + 2 /\ y = q
               \/ IsDir(i) /\ r = K + 6 /\ y = i
    <2>1. \/ r \in 1 .. K \/ r = K + 1 \/ r = K + 2 \/ r \in K + 3 .. K + 5
          \/ (IsDir(i) /\ r = K + 6)
      BY <1>1
    <2>2. ws[r].to # "inode" /\ ws[r].to # "panic" /\ ws[r].i = y
      BY <1>3 DEF OnContent
    <2> QED BY <1>1, <1>2, <2>1, <2>2
  <1>4. d.contents[q] = Directory(into)
    <2>1. K + 2 \in 1 .. Len(ws) /\ \A r \in K + 2 + 1 .. Len(ws) : r \in 1 .. Len(ws) /\ r > K + 2
      BY <1>1
    <2>2. ASSUME NEW r \in K + 2 + 1 .. Len(ws) PROVE ~OnContent(ws[r], q)
      BY <1>1, <1>3, <2>1
    <2>3. ws[K + 2].to = "content" /\ ws[K + 2].i = q /\ ws[K + 2].val = Directory(into)
      BY <1>1, <1>2
    <2> QED BY <2>1, <2>2, <2>3, LastWrite
  <1>5. ASSUME p # q PROVE d.contents[p] = Directory(from)
    <2>1. K + 1 \in 1 .. Len(ws) /\ \A r \in K + 1 + 1 .. Len(ws) : r \in 1 .. Len(ws) /\ r > K + 1
      BY <1>1
    <2>2. ASSUME NEW r \in K + 1 + 1 .. Len(ws) PROVE ~OnContent(ws[r], p)
      BY <1>1, <1>3, <1>5, <2>1
    <2> QED BY <1>1, <1>2, <2>1, <2>2, LastWrite
  <1>6. ASSUME IsDir(i) PROVE d.contents[i] = Directory(up)
    <2>1. K + 6 \in 1 .. Len(ws) /\ K + 6 + 1 .. Len(ws) = {}
      BY <1>1, <1>6
    <2> QED BY <1>1, <1>2, <1>6, <2>1, LastWrite
  <1>7. ASSUME NEW y \in Inodes \ {p, q, x}, ~(y = i /\ IsDir(i)) PROVE d.contents[y] = contents[y]
    <2>1. ASSUME NEW r \in 1 .. Len(ws) PROVE ~OnContent(ws[r], y)
      BY <1>3, <1>7
    <2> QED BY <2>1, NotWritten
  <1> QED BY <1>4, <1>5, <1>6, <1>7

(* The name is moved and nothing else is, but that x may be gone, which    *)
(* held no names.                                                          *)
LEMMA MoveRenamed ==
  ASSUME Inv, NEW p, NEW m, NEW q, NEW n, NEW i, NEW old, MayMove(p, m, q, n, i, old),
         NEW d, NEW from, NEW into, NEW up,
         \A x \in Names :
           /\ into[x] = IF x = n THEN i ELSE IF p = q /\ x = m THEN NoEntry ELSE Entry(q, x)
           /\ p # q => from[x] = IF x = m THEN NoEntry ELSE Entry(p, x)
           /\ IsDir(i) => up[x] = Entry(i, x),
         d.contents[q] = Directory(into),
         p # q => d.contents[p] = Directory(from),
         IsDir(i) => d.contents[i] = Directory(up),
         \A y \in Inodes \ {p, q, old} : ~(y = i /\ IsDir(i)) => d.contents[y] = contents[y],
         \A y \in Inodes \ {old} : d.inodes[y] = inodes[y],
         old # NoEntry => d.contents[old] = Missing \/ d.contents[old] = contents[old]
  PROVE  Renamed(d, p, m, q, n, i, NoEntry)
  <1>1. /\ p \in Inodes /\ q \in Inodes /\ i \in Inodes /\ i # p /\ i # q /\ old # p /\ old # q
        /\ old # i /\ NoEntry \notin Inodes /\ (p # q \/ m # n)
    BY Constants DEF MayMove, IsMoved, IsDirectory, Inodes, NoEntry
  <1>2. \A e, y, x : d.contents[y] = Directory(e) => EntryIn(d, y, x) = e[x]
    BY DEF EntryIn, Directory
  <1>3. \A y, x : d.contents[y] = contents[y] => EntryIn(d, y, x) = Entry(y, x)
    BY DEF EntryIn, Entry, Entries
  <1>4. ASSUME NEW y \in Inodes, NEW x \in Names, y # old
        PROVE  /\ EntryIn(d, y, x) = IF y = q /\ x = n THEN i
                                     ELSE IF y = p /\ x = m THEN NoEntry ELSE Entry(y, x)
               /\ d.inodes[y] # Missing <=> Exists(y)
    <2>0. d.inodes[y] # Missing <=> Exists(y)
      BY <1>4 DEF Exists
    <2>1. CASE y = q
      <3>1. EntryIn(d, y, x) = into[x]
        BY <1>2, <2>1
      <3> QED BY <2>0, <2>1, <3>1
    <2>2. CASE y = p /\ p # q
      <3>1. EntryIn(d, y, x) = from[x]
        BY <1>2, <2>2
      <3> QED BY <2>0, <2>2, <3>1
    <2>3. CASE y = i /\ IsDir(i)
      <3>1. EntryIn(d, y, x) = up[x]
        BY <1>2, <2>3
      <3> QED BY <1>1, <2>0, <2>3, <3>1
    <2>4. CASE y # p /\ y # q /\ ~(y = i /\ IsDir(i))
      <3>1. EntryIn(d, y, x) = Entry(y, x)
        BY <1>3, <1>4, <2>4
      <3> QED BY <2>0, <2>4, <3>1
    <2> QED BY <2>1, <2>2, <2>3, <2>4
  <1>5. ASSUME NEW x \in Names, old \in Inodes
        PROVE  EntryIn(d, old, x) = NoEntry /\ Entry(old, x) = NoEntry /\ old # p /\ old # q
    <2>1. MayDrop(old) /\ old # NoEntry
      BY <1>1, <1>5 DEF MayMove
    <2>2. Entry(old, x) = NoEntry
      BY <2>1, DropFacts
    <2>3. EntryIn(d, old, x) = NoEntry
      <3>1. CASE d.contents[old] = contents[old]
        BY <1>3, <2>2, <3>1
      <3>2. CASE d.contents[old] = Missing
        BY <3>2 DEF EntryIn, Missing
      <3> QED BY <2>1, <3>1, <3>2
    <2> QED BY <1>1, <2>2, <2>3
  <1> QED BY <1>4, <1>5 DEF Renamed

(* What the writes of Move are, one by one.                                *)
MoveSet(p, m, q, n, i, old) ==
  {WriteDir(q, Cleared(q, n)), WriteDir(p, From(p, m, q, n)), WriteDir(q, Into(p, m, q, n, i)),
   Touch(p), Touch(q), Touch(i), WriteDir(i, Up(i, q)),
   Panic(old), WriteInode(old, Dropped(old)), RemoveInode(old), RemoveContent(old)}
MoveTail(p, m, q, n, i) ==
  << WriteDir(p, From(p, m, q, n)), WriteDir(q, Into(p, m, q, n, i)), Touch(p), Touch(q), Touch(i) >>
  \o DotDot(i, Entries(i), q)

LEMMA MoveTailWrites ==
  ASSUME NEW p, NEW m, NEW q, NEW n, NEW i, NEW old, NEW t, t = MoveTail(p, m, q, n, i), Told(i)
  PROVE  /\ t \in Seq(MoveSet(p, m, q, n, i, old)) /\ Len(t) = IF IsDir(i) THEN 6 ELSE 5
         /\ t[1] = WriteDir(p, From(p, m, q, n)) /\ t[2] = WriteDir(q, Into(p, m, q, n, i))
         /\ t[3] = Touch(p) /\ t[4] = Touch(q) /\ t[5] = Touch(i)
         /\ IsDir(i) => t[6] = WriteDir(i, Up(i, q))
  <1> DEFINE S == MoveSet(p, m, q, n, i, old)
             a == WriteDir(p, From(p, m, q, n))
             b == WriteDir(q, Into(p, m, q, n, i))
             c == WriteDir(i, Up(i, q))
             s == <<a, b, Touch(p), Touch(q), Touch(i)>>
             u == DotDot(i, Entries(i), q)
  <1>1. {a, b, Touch(p), Touch(q), Touch(i), c} \subseteq S
    BY DEF MoveSet
  <1>2. u = IF IsDir(i) THEN <<c>> ELSE <<>>
    BY DotDotWrites
  <1>3. t = s \o u
    BY DEF MoveTail
  <1> HIDE DEF S, a, b, c, u
  <1>4. /\ s \in Seq(S) /\ Len(s) = 5 /\ s[1] = a /\ s[2] = b /\ s[3] = Touch(p) /\ s[4] = Touch(q)
        /\ s[5] = Touch(i)
    BY <1>1
  <1>5. u \in Seq(S) /\ Len(u) = (IF IsDir(i) THEN 1 ELSE 0) /\ (IsDir(i) => u[1] = c)
    BY <1>1, <1>2
  <1> HIDE DEF s
  <1>6. s \in Seq(S) /\ u \in Seq(S)
    BY <1>4, <1>5
  <1>7. /\ s \o u \in Seq(S) /\ Len(s \o u) = Len(s) + Len(u)
        /\ \A r \in 1 .. Len(s) : (s \o u)[r] = s[r]
        /\ \A r \in 1 .. Len(u) : (s \o u)[Len(s) + r] = u[r]
    BY <1>6
  <1>8. t \in Seq(S) /\ Len(t) = IF IsDir(i) THEN 6 ELSE 5
    BY <1>3, <1>4, <1>5, <1>7
  <1>9. t[1] = a /\ t[2] = b /\ t[3] = Touch(p) /\ t[4] = Touch(q) /\ t[5] = Touch(i)
    BY <1>3, <1>4, <1>7
  <1>10. IsDir(i) => t[6] = c
    <2>1. IsDir(i) => 1 \in 1 .. Len(u) /\ Len(s) + 1 = 6
      BY <1>4, <1>5
    <2> QED BY <1>3, <1>5, <1>7, <2>1
  <1> QED BY <1>8, <1>9, <1>10 DEF S, a, b, c

LEMMA MoveTailPlain ==
  ASSUME Inv, NEW p, NEW m, NEW q, NEW n, NEW i, NEW old, MayMove(p, m, q, n, i, old),
         NEW is, is = Moving(i, old), NEW t, t = MoveTail(p, m, q, n, i), Told(i)
  PROVE  \A r \in 1 .. Len(t) : Plain(is, old, t[r])
  <1>1. /\ t \in Seq(MoveSet(p, m, q, n, i, old)) /\ Len(t) = IF IsDir(i) THEN 6 ELSE 5
        /\ t[1] = WriteDir(p, From(p, m, q, n)) /\ t[2] = WriteDir(q, Into(p, m, q, n, i))
        /\ t[3] = Touch(p) /\ t[4] = Touch(q) /\ t[5] = Touch(i)
        /\ IsDir(i) => t[6] = WriteDir(i, Up(i, q))
    BY MoveTailWrites
  <1>2. /\ p \in Inodes \ {old} /\ q \in Inodes \ {old} /\ i \in Inodes \ {old}
        /\ Exists(p) /\ Exists(q) /\ Exists(i)
    BY Constants DEF MayMove, IsMoved, IsDirectory, Inodes, NoEntry
  <1>3. /\ DirWrite(is, p, From(p, m, q, n)) /\ DirWrite(is, q, Into(p, m, q, n, i))
        /\ IsDir(i) => DirWrite(is, i, Up(i, q))
    BY MoveDirs
  <1>4. Plain(is, old, Touch(p)) /\ Plain(is, old, Touch(q)) /\ Plain(is, old, Touch(i))
    BY <1>2, PlainWrites
  <1>5. Plain(is, old, t[1]) /\ Plain(is, old, t[2]) /\ (IsDir(i) => Plain(is, old, t[6]))
    <2>1. \A e : \A y \in Inodes \ {old} : DirWrite(is, y, e) => Plain(is, old, WriteDir(y, e))
      BY PlainWrites
    <2>2. Plain(is, old, WriteDir(p, From(p, m, q, n))) /\ Plain(is, old, WriteDir(q, Into(p, m, q, n, i)))
      BY <1>2, <1>3, <2>1
    <2>3. IsDir(i) => Plain(is, old, WriteDir(i, Up(i, q)))
      BY <1>2, <1>3, <2>1
    <2> QED BY <1>1, <2>2, <2>3
  <1>6. ASSUME NEW r \in 1 .. Len(t) PROVE Plain(is, old, t[r])
    <2>1. r = 1 \/ r = 2 \/ r = 3 \/ r = 4 \/ r = 5 \/ (r = 6 /\ IsDir(i))
      BY <1>1
    <2> QED BY <1>1, <1>4, <1>5, <2>1
  <1> QED BY <1>6

(* Whether or not there was another inode at the new name.                 *)
MoveOf(p, m, q, n, i, old, ws, K) ==
  /\ \/ old # NoEntry /\ Shuffle(Moving(i, old), old, Dropped(old), Gone(old), 2, ws)
     \/ old = NoEntry /\ \E gone : ~gone /\ Shuffle(Moving(i, old), old, Dropped(old), gone, 0, ws)
  /\ MoveShape(p, q, i, old, From(p, m, q, n), Into(p, m, q, n, i), Up(i, q), ws, K)

LEMMA MoveWrites ==
  ASSUME Inv, NEW p, NEW m, NEW q, NEW n, NEW i, NEW old, MayMove(p, m, q, n, i, old), Told(i),
         NEW ws, ws = Move(p, m, q, n, i, old)
  PROVE  \E K : MoveOf(p, m, q, n, i, old, ws, K)
  <1> DEFINE is == Moving(i, old)
             S == MoveSet(p, m, q, n, i, old)
             w == WriteDir(q, Cleared(q, n))
             five == << WriteDir(p, From(p, m, q, n)), WriteDir(q, Into(p, m, q, n, i)),
                        Touch(p), Touch(q), Touch(i) >>
             dd == DotDot(i, Entries(i), q)
             t == MoveTail(p, m, q, n, i)
             D == DropLink(old)
             L == IF IsDir(i) THEN 6 ELSE 5
  <1>0. L \in Nat
    OBVIOUS
  <1>1. ws = ((IF old = NoEntry THEN <<>> ELSE <<w>> \o D) \o five) \o dd
    BY DEF Move, Cleared, From, Into
  <1>2. t = five \o dd
    BY DEF MoveTail
  <1>3. five \in Seq(S) /\ dd \in Seq(S)
    <2>1. {WriteDir(p, From(p, m, q, n)), WriteDir(q, Into(p, m, q, n, i)), Touch(p), Touch(q),
           Touch(i), WriteDir(i, Up(i, q))} \subseteq S
      BY DEF MoveSet
    <2>2. dd = IF IsDir(i) THEN <<WriteDir(i, Up(i, q))>> ELSE <<>>
      BY DotDotWrites
    <2> HIDE DEF S, dd
    <2>3. five \in Seq(S)
      BY <2>1
    <2> QED BY <2>1, <2>2, <2>3
  <1>4. w \in S /\ {Panic(old), WriteInode(old, Dropped(old)), RemoveInode(old), RemoveContent(old)} \subseteq S
    BY DEF MoveSet
  <1>5. /\ t \in Seq(S) /\ Len(t) = L
        /\ t[1] = WriteDir(p, From(p, m, q, n)) /\ t[2] = WriteDir(q, Into(p, m, q, n, i))
        /\ t[3].to = "inode" /\ t[4].to = "inode" /\ t[5].to = "inode"
        /\ IsDir(i) => t[6] = WriteDir(i, Up(i, q))
    <2>1. /\ t \in Seq(S) /\ Len(t) = IF IsDir(i) THEN 6 ELSE 5
          /\ t[1] = WriteDir(p, From(p, m, q, n)) /\ t[2] = WriteDir(q, Into(p, m, q, n, i))
          /\ t[3] = Touch(p) /\ t[4] = Touch(q) /\ t[5] = Touch(i)
          /\ IsDir(i) => t[6] = WriteDir(i, Up(i, q))
      BY MoveTailWrites
    <2>2. \A y : Touch(y).to = "inode"
      BY PlainWrites
    <2> HIDE DEF t, S
    <2> QED BY <2>1, <2>2
  <1>6. \A r \in 1 .. Len(t) : Plain(is, old, t[r])
    BY MoveTailPlain
  <1>7. /\ is \subseteq Inodes /\ \A z \in is : Exists(z) /\ z # FUSE_ROOT_ID
        /\ (old # NoEntry => old \in is)
    BY MoveAbout
  <1>8. ASSUME NEW K \in Nat, Len(ws) = K + L, \A r \in 1 .. Len(t) : ws[K + r] = t[r],
               \A r \in 1 .. K : ws[r].to = "panic" \/ ws[r].i = old \/ ws[r].i = q
        PROVE  MoveShape(p, q, i, old, From(p, m, q, n), Into(p, m, q, n, i), Up(i, q), ws, K)
    <2>1. /\ ws[K + 1] = t[1] /\ ws[K + 2] = t[2] /\ ws[K + 3] = t[3] /\ ws[K + 4] = t[4]
          /\ ws[K + 5] = t[5] /\ (IsDir(i) => ws[K + 6] = t[6])
      <3>1. /\ 1 \in 1 .. Len(t) /\ 2 \in 1 .. Len(t) /\ 3 \in 1 .. Len(t) /\ 4 \in 1 .. Len(t)
            /\ 5 \in 1 .. Len(t) /\ (IsDir(i) => 6 \in 1 .. Len(t))
        BY <1>5
      <3> HIDE DEF t
      <3> QED BY <1>8, <3>1
    <2>2. ASSUME NEW r \in K + 3 .. K + 5 PROVE ws[r].to = "inode"
      <3>1. r = K + 3 \/ r = K + 4 \/ r = K + 5
        OBVIOUS
      <3> QED BY <1>5, <2>1, <3>1
    <2> HIDE DEF t
    <2> QED BY <1>5, <1>8, <2>1, <2>2 DEF MoveShape
  <1>9. CASE old # NoEntry
    <2>1. D \in Seq(S)
      BY <1>4, DropLinkWrites
    <2>2. ws = (<<w>> \o D) \o t
      <3> HIDE DEF S, five, dd, D, w
      <3>1. <<w>> \in Seq(S)
        BY <1>4
      <3>2. <<w>> \o D \in Seq(S)
        BY <2>1, <3>1
      <3> DEFINE h == <<w>> \o D
      <3>3. ws = (h \o five) \o dd
        BY <1>1, <1>9
      <3>4. h \in Seq(S)
        BY <3>2
      <3> HIDE DEF h
      <3>5. (h \o five) \o dd = h \o (five \o dd)
        BY <1>3, <3>4, ConcatAssociative
      <3> QED BY <1>2, <3>3, <3>5 DEF h
    <2> DEFINE K == 1 + Len(D)
    <2>3. MayDrop(old) /\ Plain(is, old, w) /\ w.i = q
      <3>1. MayDrop(old) /\ q \in Inodes \ {old}
        BY <1>9 DEF MayMove, IsDirectory
      <3>2. DirWrite(is, q, Cleared(q, n))
        BY MoveDirs
      <3> QED BY <3>1, <3>2, PlainWrites
    <2>4. K = 1 + Len(D) /\ old \in is
      BY <1>7, <1>9
    <2> HIDE DEF K, is, S, w, t
    <2>5. Drops(is, old, S, w, t, ws, K)
      BY <1>4, <1>5, <1>6, <1>7, <2>2, <2>3, <2>4 DEF Drops
    <2>6. Shuffle(is, old, Dropped(old), Gone(old), 2, ws) /\ Around(old, w, t, ws, K)
      BY <2>5, DropShuffle
    <2>7. /\ K \in Nat /\ Len(ws) = K + Len(t) /\ ws[1] = w
          /\ \A r \in 2 .. K : ws[r].to = "panic" \/ ws[r].i = old
          /\ \A r \in 1 .. Len(t) : ws[K + r] = t[r]
      BY <2>6 DEF Around
    <2>8. ASSUME NEW r \in 1 .. K PROVE ws[r].to = "panic" \/ ws[r].i = old \/ ws[r].i = q
      <3>1. r = 1 \/ r \in 2 .. K
        BY <2>7
      <3> QED BY <2>3, <2>7, <3>1
    <2>9. MoveShape(p, q, i, old, From(p, m, q, n), Into(p, m, q, n, i), Up(i, q), ws, K)
      BY <1>5, <1>8, <2>7, <2>8
    <2> QED BY <1>9, <2>6, <2>9 DEF MoveOf, is
  <1>10. CASE old = NoEntry
    <2>1. ws = t
      <3> HIDE DEF S, five, dd
      <3>1. <<>> \o five = five
        BY <1>3, ConcatEmptySeq
      <3> QED BY <1>1, <1>2, <1>10, <3>1
    <2> DEFINE gone == FALSE
    <2>2. ~gone
      OBVIOUS
    <2>3. old \notin Inodes
      BY <1>10 DEF Inodes, NoEntry
    <2> HIDE DEF is, S, t, gone
    <2>4. Len(ws) \in Nat /\ DOMAIN ws = 1 .. Len(ws)
      BY <1>5, <2>1
    <2>5. 0 \in Nat /\ 0 <= Len(ws) /\ \A r \in 1 .. Len(ws) : Plain(is, old, ws[r])
      BY <1>6, <2>1, <2>4
    <2>6. Shuffle(is, old, Dropped(old), gone, 0, ws)
      BY <1>7, <2>2, <2>3, <2>4, <2>5 DEF Shuffle
    <2>7. Len(ws) = 0 + L /\ (\A r \in 1 .. Len(t) : ws[0 + r] = t[r])
          /\ (\A r \in 1 .. 0 : ws[r].to = "panic" \/ ws[r].i = old \/ ws[r].i = q)
      BY <1>5, <2>1
    <2>8. MoveShape(p, q, i, old, From(p, m, q, n), Into(p, m, q, n, i), Up(i, q), ws, 0)
      BY <1>8, <2>7
    <2> QED BY <1>10, <2>2, <2>6, <2>8 DEF MoveOf, is
  <1> QED BY <1>9, <1>10

(* rename.                                                                 *)
LEMMA SoundMove ==
  ASSUME Inv, NEW p, NEW m, NEW q, NEW n, NEW i, NEW old, MayMove(p, m, q, n, i, old), Told(i),
         NEW is, is = Moving(i, old)
  PROVE  Sound(is, "File", Move(p, m, q, n, i, old))
  <1> DEFINE ws == Move(p, m, q, n, i, old)
             d == After(ws, Len(ws))
             from == From(p, m, q, n)
             into == Into(p, m, q, n, i)
             up == Up(i, q)
             a == Dropped(old)
  <1>w. ws = Move(p, m, q, n, i, old)
    OBVIOUS
  <1> HIDE DEF ws
  <1>1. PICK K : MoveOf(p, m, q, n, i, old, ws, K)
    BY <1>w, MoveWrites
  <1>2. MoveShape(p, q, i, old, from, into, up, ws, K)
    BY <1>1 DEF MoveOf
  <1>3. \E gone, l : /\ Shuffle(is, old, a, gone, l, ws)
                     /\ old # NoEntry => l # 0 /\ gone = Gone(old)
    <2>1. CASE old # NoEntry
      <3>1. Shuffle(is, old, a, Gone(old), 2, ws) /\ 2 # 0
        BY <1>1, <2>1 DEF MoveOf
      <3> QED BY <2>1, <3>1
    <2>2. CASE old = NoEntry
      BY <1>1, <2>2 DEF MoveOf
    <2> QED BY <2>1, <2>2
  <1>4. PICK gone, l : /\ Shuffle(is, old, a, gone, l, ws)
                       /\ old # NoEntry => l # 0 /\ gone = Gone(old)
    BY <1>3
  <1>5. Safe(is, "File", ws)
    BY <1>4, ShufflePanics
  <1>6. ASSUME PanicAt(ws) = {} PROVE Finishes(is, ws)
    <2>1. Prefix(is, "File", ws, Len(ws))
      BY <1>4, <1>6, ShufflePanics
    <2>2. /\ OpenKept(d) /\ \A y \in Inodes \ {old} : d.inodes[y] = inodes[y]
          /\ l # 0 => /\ d.inodes[old] = IF gone THEN Missing ELSE a
                      /\ d.contents[old] = IF gone THEN Missing ELSE contents[old]
      BY <1>4, <1>6, ShuffleFinal
    <2>3. /\ p \in Inodes /\ q \in Inodes /\ i \in Inodes /\ i # p /\ i # q /\ old # p /\ old # q
          /\ old # i /\ Exists(p) /\ Exists(q) /\ m \in Names /\ n \in Names /\ (p # q \/ m # n)
          /\ i = Entry(p, m) /\ Entry(q, n) # i /\ Exists(i) /\ i # FUSE_ROOT_ID /\ i # NoEntry
      BY Constants DEF MayMove, IsMoved, IsDirectory, Inodes, NoEntry
    <2>4. /\ d.contents[q] = Directory(into)
          /\ p # q => d.contents[p] = Directory(from)
          /\ IsDir(i) => d.contents[i] = Directory(up)
          /\ \A y \in Inodes \ {p, q, old} : ~(y = i /\ IsDir(i)) => d.contents[y] = contents[y]
      BY <1>2, <2>1, <2>3, MoveContents
    <2>5. /\ IsDir(i) => up[".."] = q /\ \A x \in Names : up[x] = Entry(i, x)
          /\ \A x \in Names :
              /\ into[x] = IF x = n THEN i ELSE IF p = q /\ x = m THEN NoEntry ELSE Entry(q, x)
              /\ p # q => from[x] = IF x = m THEN NoEntry ELSE Entry(p, x)
      BY MoveDirs
    <2> HIDE DEF d, from, into, up, a
    <2>6. Renamed(d, p, m, q, n, i, NoEntry)
      <3>1. old # NoEntry => d.contents[old] = Missing \/ d.contents[old] = contents[old]
        BY <1>4, <2>2
      <3> QED BY <2>2, <2>4, <2>5, <3>1, MoveRenamed
    <2>7. ASSUME i \notin damaged PROVE Exact(d, i)
      <3>1. PlacesIn(d, i) = (PlacesIn(Before, i) \ {<<p, m>>}) \cup {<<q, n>>}
        <4>1. /\ p \in Inodes /\ Exists(p) /\ m \in Names /\ q \in Inodes /\ Exists(q) /\ n \in Names
              /\ (p # q \/ m # n) /\ i # NoEntry /\ NoEntry # i /\ Entry(q, n) # i
          BY <2>3
        <4> QED BY <2>6, <4>1, PlacesMoved
      <3>2. <<p, m>> \in PlacesIn(Before, i) /\ <<q, n>> \notin PlacesIn(Before, i)
        BY <2>3, PlacesBefore
      <3>3. d.inodes[i] = inodes[i]
        BY <2>2, <2>3
      <3>4. IF IsDir(i) THEN d.contents[i] # Missing /\ EntryIn(d, i, "..") = <<q, n>>[1]
                        ELSE d.contents[i] = contents[i]
        BY <2>3, <2>4, <2>5 DEF Directory, Missing, EntryIn
      <3> QED BY <2>3, <2>7, <3>1, <3>2, <3>3, <3>4, MovedExact
    <2>8. ASSUME old # NoEntry, old \notin damaged PROVE Exact(d, old)
      <3>1. /\ old \in Inodes /\ Exists(old) /\ old # FUSE_ROOT_ID
            /\ <<q, n>> \in PlacesIn(Before, old)
        BY <2>8 DEF MayMove, MayDrop
      <3>2. PlacesIn(d, old) = PlacesIn(Before, old) \ {<<q, n>>}
        BY <2>3, <2>6, <2>8, PlacesLost
      <3>3. /\ d.inodes[old] = IF Gone(old) THEN Missing ELSE Dropped(old)
            /\ d.contents[old] = IF Gone(old) THEN Missing ELSE contents[old]
        BY <1>4, <2>2, <2>8 DEF a
      <3> QED BY <2>8, <3>1, <3>2, <3>3, DroppedExact
    <2>9. \A z \in is : z = i \/ (z = old /\ old # NoEntry)
      BY MoveAbout
    <2> QED BY <2>2, <2>7, <2>8, <2>9 DEF Finishes, d
  <1> QED BY <1>5, <1>6 DEF Sound, ws

(* A moved directory that is torn is noticed only when its ".." is to be   *)
(* written: what was done before is safe.                                  *)
LEMMA PlainSafe ==
  ASSUME Inv, NEW is, is \subseteq Inodes, \A y \in is : Exists(y) /\ y # FUSE_ROOT_ID,
         NEW S, NEW v \in Seq(S), \A r \in 1 .. Len(v) : Plain(is, NoEntry, v[r])
  PROVE  Safe(is, "File", v)
  <1> DEFINE gone == FALSE
  <1>g. ~gone
    OBVIOUS
  <1> HIDE DEF gone
  <1>1. NoEntry \notin Inodes
    BY Constants DEF Inodes, NoEntry
  <1>2. Len(v) \in Nat /\ DOMAIN v = 1 .. Len(v) /\ 0 \in Nat /\ 0 <= Len(v)
    OBVIOUS
  <1>3. Shuffle(is, NoEntry, NoEntry, gone, 0, v)
    BY <1>1, <1>2, <1>g DEF Shuffle
  <1> QED BY <1>3, ShufflePanics

LEMMA CutAt ==
  ASSUME NEW S, NEW v \in Seq(S), NEW rest \in Seq(S), Len(rest) >= 1,
         NEW x \in damaged, rest[1] = Panic(x), NEW ws, ws = v \o rest
  PROVE  Cut(ws, v)
  <1>1. /\ ws \in Seq(S) /\ Len(ws) = Len(v) + Len(rest)
        /\ \A r \in 1 .. Len(v) : ws[r] = v[r]
        /\ \A r \in 1 .. Len(rest) : ws[Len(v) + r] = rest[r]
    OBVIOUS
  <1>2. Len(v) \in Nat /\ Len(rest) \in Nat /\ Len(ws) \in Nat /\ DOMAIN ws = 1 .. Len(ws)
    BY <1>1
  <1> DEFINE r == Len(v) + 1
  <1>3. r \in 1 .. Len(ws) /\ r - 1 = Len(v) /\ 1 \in 1 .. Len(rest)
    BY <1>1, <1>2
  <1>4. ws[r] = Panic(x)
    BY <1>1, <1>3
  <1>5. ws[r].to = "panic" /\ ws[r].i \in damaged
    BY <1>4 DEF Panic
  <1>6. r - 1 <= Len(v) /\ \A l \in 1 .. r - 1 : ws[l] = v[l]
    BY <1>1, <1>2, <1>3
  <1> HIDE DEF r
  <1> QED BY <1>2, <1>3, <1>5, <1>6 DEF Cut

LEMMA MoveTorn ==
  ASSUME Inv, NEW p, NEW m, NEW q, NEW n, NEW i, NEW old, MayMove(p, m, q, n, i, old), ~Told(i),
         NEW is, is = Moving(i, old)
  PROVE  Sure(is, "File", Move(p, m, q, n, i, old))
  <1> DEFINE w == WriteDir(q, Cleared(q, n))
             f == WriteDir(p, From(p, m, q, n))
             g == WriteDir(q, Into(p, m, q, n, i))
             five == <<f, g, Touch(p), Touch(q), Touch(i)>>
             dd == DotDot(i, Entries(i), q)
             D == DropLink(old)
             h == IF old = NoEntry THEN <<>> ELSE <<w>> \o D
             v == h \o five
             S == {w, f, g, Touch(p), Touch(q), Touch(i), Panic(i), Panic(old),
                   WriteInode(old, Dropped(old)), RemoveInode(old), RemoveContent(old)}
  <1>1. Move(p, m, q, n, i, old) = v \o dd
    BY DEF Move, Cleared, From, Into
  <1>2. /\ p \in Inodes \ {old} /\ q \in Inodes \ {old} /\ i \in Inodes \ {old}
        /\ Exists(p) /\ Exists(q) /\ Exists(i) /\ (IsDir(i) => HasContent(i))
    BY Constants DEF MayMove, IsMoved, IsDirectory, Inodes, NoEntry
  <1>3. i \in damaged /\ IsDir(i)
    BY <1>2, UntoldDamaged
  <1>4. dd = <<Panic(i)>>
    BY <1>3, DotDotWrites
  <1>5. Plain(is, old, w) /\ Plain(is, old, f) /\ Plain(is, old, g)
    <2>1. /\ DirWrite(is, q, Cleared(q, n)) /\ DirWrite(is, p, From(p, m, q, n))
          /\ DirWrite(is, q, Into(p, m, q, n, i))
      BY MoveDirs
    <2>2. \A e : \A y \in Inodes \ {old} : DirWrite(is, y, e) => Plain(is, old, WriteDir(y, e))
      BY PlainWrites
    <2> QED BY <1>2, <2>1, <2>2
  <1>6. Plain(is, old, Touch(p)) /\ Plain(is, old, Touch(q)) /\ Plain(is, old, Touch(i))
    BY <1>2, PlainWrites
  <1>7. /\ is \subseteq Inodes /\ \A z \in is : Exists(z) /\ z # FUSE_ROOT_ID
        /\ (old # NoEntry => old \in is)
    BY MoveAbout
  <1> HIDE DEF w, f, g, dd, D
  <1>8. /\ {Panic(old), WriteInode(old, Dropped(old)), RemoveInode(old), RemoveContent(old)} \subseteq S
        /\ w \in S /\ Panic(i) \in S /\ {f, g, Touch(p), Touch(q), Touch(i)} \subseteq S
    OBVIOUS
  <1> HIDE DEF S
  <1>9. /\ five \in Seq(S) /\ Len(five) = 5 /\ five[1] = f /\ five[2] = g /\ five[3] = Touch(p)
        /\ five[4] = Touch(q) /\ five[5] = Touch(i)
    BY <1>8
  <1>10. \A r \in 1 .. Len(five) : Plain(is, old, five[r])
    <2>1. \A r \in 1 .. 5 : r = 1 \/ r = 2 \/ r = 3 \/ r = 4 \/ r = 5
      OBVIOUS
    <2> HIDE DEF five
    <2> QED BY <1>5, <1>6, <1>9, <2>1
  <1> HIDE DEF five
  <1>11. dd \in Seq(S) /\ Len(dd) >= 1 /\ dd[1] = Panic(i)
    BY <1>4, <1>8
  <1>12. D \in Seq(S)
    BY <1>8, DropLinkWrites DEF D
  <1>13. h \in Seq(S)
    <2>1. <<w>> \in Seq(S) /\ <<>> \in Seq(S)
      BY <1>8
    <2>2. <<w>> \o D \in Seq(S)
      BY <1>12, <2>1
    <2> QED BY <2>1, <2>2
  <1> HIDE DEF h
  <1>14. v \in Seq(S)
    BY <1>9, <1>13
  <1>15. Safe(is, "File", v)
    <2>1. CASE old # NoEntry
      <3> DEFINE K == 1 + Len(DropLink(old))
      <3>1. v = (<<w>> \o DropLink(old)) \o five /\ K = 1 + Len(DropLink(old))
        BY <2>1 DEF h, D
      <3>2. MayDrop(old)
        BY <2>1 DEF MayMove
      <3> HIDE DEF v, K
      <3>3. Drops(is, old, S, w, five, v, K)
        BY <1>5, <1>7, <1>8, <1>9, <1>10, <2>1, <3>1, <3>2 DEF Drops
      <3>4. Shuffle(is, old, Dropped(old), Gone(old), 2, v)
        BY <3>3, DropShuffle
      <3> QED BY <3>4, ShufflePanics
    <2>2. CASE old = NoEntry
      <3>1. v = five
        BY <1>9, <2>2, ConcatEmptySeq DEF h
      <3> QED BY <1>7, <1>9, <1>10, <2>2, <3>1, PlainSafe
    <2> QED BY <2>1, <2>2
  <1> HIDE DEF v
  <1>16. Cut(Move(p, m, q, n, i, old), v)
    BY <1>1, <1>3, <1>11, <1>14, CutAt
  <1> QED BY <1>15, <1>16 DEF Sure

(* exchange.                                                               *)
MayExchange(p, m, q, n, i, j) ==
  /\ IsDirectory(p) /\ IsDirectory(q) /\ m \in Names /\ n \in Names /\ i # j
  /\ IsMoved(i, p, m, q) /\ (IsDir(i) => HasContent(i))
  /\ IsMoved(j, q, n, p) /\ (IsDir(j) => HasContent(j))
There(q, n, i) == [Entries(q) EXCEPT ![n] = i]
Back(p, m, q, n, i, j) == [(IF p = q THEN There(q, n, i) ELSE Entries(p)) EXCEPT ![m] = j]

LEMMA ExchangeDirs ==
  ASSUME Inv, NEW p, NEW m, NEW q, NEW n, NEW i, NEW j, MayExchange(p, m, q, n, i, j),
         NEW is, is = {i, j}
  PROVE  /\ DirWrite(is, q, There(q, n, i)) /\ DirWrite(is, p, Back(p, m, q, n, i, j))
         /\ IsDir(i) /\ Told(i) => /\ DirWrite(is, i, Up(i, q)) /\ Up(i, q)[".."] = q
                                   /\ \A x \in Names : Up(i, q)[x] = Entry(i, x)
         /\ IsDir(j) /\ Told(j) => /\ DirWrite(is, j, Up(j, p)) /\ Up(j, p)[".."] = p
                                   /\ \A x \in Names : Up(j, p)[x] = Entry(j, x)
         /\ \A x \in Names :
              /\ Back(p, m, q, n, i, j)[x] =
                   IF x = m THEN j ELSE IF p = q /\ x = n THEN i ELSE Entry(p, x)
              /\ p # q => There(q, n, i)[x] = IF x = n THEN i ELSE Entry(q, x)
  <1>1. /\ p \in Inodes /\ Exists(p) /\ IsDir(p) /\ HasContent(p) /\ ~TornContent(p)
        /\ q \in Inodes /\ Exists(q) /\ IsDir(q) /\ HasContent(q) /\ ~TornContent(q)
        /\ m \in Names /\ n \in Names
        /\ i \in Inodes /\ Exists(i) /\ i # FUSE_ROOT_ID /\ i # p /\ i # q /\ i = Entry(p, m)
        /\ j \in Inodes /\ Exists(j) /\ j # FUSE_ROOT_ID /\ j # p /\ j # q /\ j = Entry(q, n)
        /\ HasContent(i) \/ inodes[i].kind = "Symlink"
        /\ HasContent(j) \/ inodes[j].kind = "Symlink"
        /\ (IsDir(i) => HasContent(i)) /\ (IsDir(j) => HasContent(j))
    BY DEF MayExchange, IsMoved, IsDirectory
  <1>0. /\ is \subseteq Inodes /\ \A z \in is : Exists(z)
        /\ i \in is /\ j \in is
    BY <1>1
  <1>f. Free(is, p, m) /\ Free(is, q, n)
    BY <1>0, <1>1 DEF Free
  <1>2. DirWrite(is, p, Entries(p)) /\ DirWrite(is, q, Entries(q))
    BY <1>0, <1>1, DirSame
  <1>3. /\ \A x \in Names : x \in AllNames
        /\ \A x \in Names : Entries(p)[x] = Entry(p, x) /\ Entries(q)[x] = Entry(q, x)
    BY <1>1, DirEntries DEF AllNames
  <1> DEFINE h == There(q, n, i)
             b == IF p = q THEN h ELSE Entries(p)
             g == [b EXCEPT ![m] = j]
  <1>4. DirWrite(is, q, h) /\ \A x \in AllNames : h[x] = IF x = n THEN i ELSE Entries(q)[x]
    BY <1>0, <1>1, <1>2, <1>f, DirSet DEF There
  <1> HIDE DEF h
  <1>5. DirWrite(is, p, b)
    BY <1>2, <1>4
  <1>6. Back(p, m, q, n, i, j) = g
    BY DEF Back, h
  <1> HIDE DEF b
  <1>7. DirWrite(is, p, g) /\ \A x \in AllNames : g[x] = IF x = m THEN j ELSE b[x]
    <2>1. /\ is \subseteq Inodes /\ DirWrite(is, p, b) /\ m \in Names /\ Free(is, p, m)
          /\ j \in is /\ j \in Inodes /\ Exists(j) /\ j # p /\ j # FUSE_ROOT_ID
          /\ HasContent(j) \/ inodes[j].kind = "Symlink"
      BY <1>0, <1>1, <1>5, <1>f
    <2> QED BY <2>1, DirSet
  <1> HIDE DEF g
  <1>8. ASSUME NEW x \in Names
         PROVE  /\ g[x] = IF x = m THEN j ELSE IF p = q /\ x = n THEN i ELSE Entry(p, x)
                /\ p # q => h[x] = IF x = n THEN i ELSE Entry(q, x)
    <2>1. CASE p = q
      <3>1. b = h
        BY <2>1 DEF b
      <3> QED BY <1>3, <1>4, <1>7, <2>1, <3>1
    <2>2. CASE p # q
      <3>1. b = Entries(p)
        BY <2>2 DEF b
      <3> QED BY <1>3, <1>4, <1>7, <2>2, <3>1
    <2> QED BY <2>1, <2>2
  <1>9. ASSUME NEW y \in is, IsDir(y), Told(y), NEW z \in Inodes, Exists(z)
        PROVE  /\ DirWrite(is, y, Up(y, z)) /\ Up(y, z)[".."] = z
               /\ \A x \in Names : Up(y, z)[x] = Entry(y, x)
    <2>1. y \in Inodes /\ Exists(y) /\ HasContent(y) /\ ~TornContent(y)
      BY <1>0, <1>9 DEF Told, Readable
    <2>2. DirWrite(is, y, Entries(y))
      BY <1>0, <1>9, <2>1, DirSame
    <2>3. \A x \in Names : Entries(y)[x] = Entry(y, x)
      BY <1>3, <1>9, <2>1, DirEntries
    <2> QED BY <1>9, <2>2, <2>3, DirParent DEF Up
  <1>10. IsDir(i) /\ Told(i) =>
                     /\ DirWrite(is, i, Up(i, q)) /\ Up(i, q)[".."] = q
                     /\ \A x \in Names : Up(i, q)[x] = Entry(i, x)
    BY <1>0, <1>1, <1>9
  <1>11. IsDir(j) /\ Told(j) =>
                     /\ DirWrite(is, j, Up(j, p)) /\ Up(j, p)[".."] = p
                     /\ \A x \in Names : Up(j, p)[x] = Entry(j, x)
    BY <1>0, <1>1, <1>9
  <1> QED BY <1>4, <1>6, <1>7, <1>8, <1>10, <1>11 DEF h

ExchangeShape(p, q, i, j, into, from, ui, uj, ws) ==
  /\ Len(ws) = 6 + (IF IsDir(i) THEN 1 ELSE 0) + (IF IsDir(j) THEN 1 ELSE 0)
  /\ DOMAIN ws = 1 .. Len(ws)
  /\ ws[1] = WriteDir(q, into) /\ ws[2] = WriteDir(p, from)
  /\ ws[3] = Touch(p) /\ ws[4] = Touch(q) /\ ws[5] = Touch(i) /\ ws[6] = Touch(j)
  /\ IsDir(i) => ws[7] = WriteDir(i, ui)
  /\ IsDir(j) => ws[Len(ws)] = WriteDir(j, uj)

LEMMA ExchangeWrites ==
  ASSUME NEW p, NEW q, NEW i, NEW j, NEW into, NEW from, NEW ws, Told(i), Told(j),
         ws = << WriteDir(q, into), WriteDir(p, from), Touch(p), Touch(q), Touch(i), Touch(j) >>
              \o DotDot(i, Entries(i), q) \o DotDot(j, Entries(j), p)
  PROVE  ExchangeShape(p, q, i, j, into, from, Up(i, q), Up(j, p), ws)
  <1> DEFINE a == WriteDir(q, into)
             b == WriteDir(p, from)
             e == WriteDir(i, Up(i, q))
             f == WriteDir(j, Up(j, p))
             S == {a, b, Touch(p), Touch(q), Touch(i), Touch(j), e, f}
             s == <<a, b, Touch(p), Touch(q), Touch(i), Touch(j)>>
             t == DotDot(i, Entries(i), q)
             u == DotDot(j, Entries(j), p)
             lt == IF IsDir(i) THEN 1 ELSE 0
             lu == IF IsDir(j) THEN 1 ELSE 0
  <1>1. t = IF IsDir(i) THEN <<e>> ELSE <<>>
    BY DotDotWrites
  <1>2. u = IF IsDir(j) THEN <<f>> ELSE <<>>
    BY DotDotWrites
  <1>3. ws = (s \o t) \o u
    OBVIOUS
  <1> HIDE DEF a, b, e, f, t, u
  <1>4. /\ s \in Seq(S) /\ Len(s) = 6 /\ s[1] = a /\ s[2] = b /\ s[3] = Touch(p) /\ s[4] = Touch(q)
        /\ s[5] = Touch(i) /\ s[6] = Touch(j)
    OBVIOUS
  <1>s. e \in S /\ f \in S
    OBVIOUS
  <1> HIDE DEF S, s
  <1>5. t \in Seq(S) /\ Len(t) = lt /\ (IsDir(i) => t[1] = e)
    BY <1>1, <1>s
  <1>6. u \in Seq(S) /\ Len(u) = lu /\ (IsDir(j) => u[1] = f)
    BY <1>2, <1>s
  <1>7. s \in Seq(S) /\ t \in Seq(S) /\ u \in Seq(S)
    BY <1>4, <1>5, <1>6
  <1> DEFINE v == s \o t
  <1>8. /\ v \in Seq(S) /\ Len(v) = Len(s) + Len(t)
        /\ \A r \in 1 .. Len(s) : v[r] = s[r]
        /\ \A r \in 1 .. Len(t) : v[Len(s) + r] = t[r]
    BY <1>7
  <1> HIDE DEF v
  <1>9. v \in Seq(S) /\ u \in Seq(S)
    BY <1>7, <1>8
  <1>10. /\ v \o u \in Seq(S) /\ Len(v \o u) = Len(v) + Len(u)
         /\ \A r \in 1 .. Len(v) : (v \o u)[r] = v[r]
         /\ \A r \in 1 .. Len(u) : (v \o u)[Len(v) + r] = u[r]
    BY <1>9
  <1>11. ws = v \o u
    BY <1>3 DEF v
  <1>12. ws \in Seq(S) /\ Len(ws) = 6 + lt + lu
    BY <1>4, <1>5, <1>6, <1>8, <1>10, <1>11
  <1>13. DOMAIN ws = 1 .. Len(ws)
    BY <1>12
  <1>14. Len(v) = 6 + lt /\ lt \in {0, 1} /\ lu \in {0, 1}
    BY <1>4, <1>5, <1>8
  <1>15. \A r \in 1 .. 6 : ws[r] = s[r]
    BY <1>4, <1>8, <1>10, <1>11, <1>14
  <1>16. /\ ws[1] = a /\ ws[2] = b /\ ws[3] = Touch(p) /\ ws[4] = Touch(q)
         /\ ws[5] = Touch(i) /\ ws[6] = Touch(j)
    BY <1>4, <1>15
  <1>17. IsDir(i) => ws[7] = e
    <2>1. IsDir(i) => 1 \in 1 .. Len(t) /\ Len(s) + 1 = 7 /\ 7 \in 1 .. Len(v)
      BY <1>4, <1>5, <1>14
    <2> QED BY <1>5, <1>8, <1>10, <1>11, <2>1
  <1>18. IsDir(j) => ws[Len(ws)] = f
    <2>1. IsDir(j) => 1 \in 1 .. Len(u) /\ Len(v) + 1 = Len(ws)
      BY <1>6, <1>12, <1>14
    <2> QED BY <1>6, <1>10, <1>11, <2>1
  <1> QED BY <1>12, <1>13, <1>16, <1>17, <1>18 DEF ExchangeShape, a, b, e, f

LEMMA ExchangeContents ==
  ASSUME NEW p \in Inodes, NEW q \in Inodes, NEW i \in Inodes, i # p, i # q,
         NEW j \in Inodes, j # p, j # q, j # i, NEW into, NEW from, NEW ui, NEW uj, NEW ws,
         ExchangeShape(p, q, i, j, into, from, ui, uj, ws),
         NEW is, Prefix(is, "File", ws, Len(ws)), NEW d, d = After(ws, Len(ws))
  PROVE  /\ d.contents[p] = Directory(from)
         /\ p # q => d.contents[q] = Directory(into)
         /\ IsDir(i) => d.contents[i] = Directory(ui)
         /\ IsDir(j) => d.contents[j] = Directory(uj)
         /\ \A y \in Inodes \ {p, q} :
              ~(y = i /\ IsDir(i)) /\ ~(y = j /\ IsDir(j)) => d.contents[y] = contents[y]
  <1> DEFINE L == Len(ws)
  <1>1. /\ L = 6 + (IF IsDir(i) THEN 1 ELSE 0) + (IF IsDir(j) THEN 1 ELSE 0)
        /\ ws[1] = WriteDir(q, into) /\ ws[2] = WriteDir(p, from)
        /\ ws[3] = Touch(p) /\ ws[4] = Touch(q) /\ ws[5] = Touch(i) /\ ws[6] = Touch(j)
        /\ IsDir(i) => ws[7] = WriteDir(i, ui)
        /\ IsDir(j) => ws[L] = WriteDir(j, uj)
    BY DEF ExchangeShape
  <1>2. /\ \A y, e : WriteDir(y, e).to = "content" /\ WriteDir(y, e).i = y /\ WriteDir(y, e).val = Directory(e)
        /\ \A y : Touch(y).to = "inode"
    BY PlainWrites
  <1>l. L \in Nat /\ L >= 6 /\ (IsDir(i) => L >= 7) /\ (IsDir(j) => L >= 7) /\ (IsDir(i) /\ IsDir(j) => L = 8)
        /\ ~OnContent(ws[3], p)
    BY <1>1, <1>2 DEF OnContent
  <1>3. ASSUME NEW r \in 1 .. L, NEW y \in Inodes, OnContent(ws[r], y)
        PROVE  \/ r = 1 /\ y = q
               \/ r = 2 /\ y = p
               \/ IsDir(i) /\ r = 7 /\ y = i
               \/ IsDir(j) /\ r = L /\ y = j
    <2>1. \/ r = 1 \/ r = 2 \/ r = 3 \/ r = 4 \/ r = 5 \/ r = 6
          \/ (IsDir(i) /\ r = 7) \/ (IsDir(j) /\ r = L)
      BY <1>1
    <2>2. ws[r].to # "inode" /\ ws[r].i = y
      BY <1>3 DEF OnContent
    <2> QED BY <1>1, <1>2, <2>1, <2>2
  <1>4. d.contents[p] = Directory(from)
    <2>1. 2 \in 1 .. L /\ \A r \in 2 + 1 .. L : r \in 1 .. L /\ r > 2
      BY <1>l
    <2>2. ASSUME NEW r \in 2 + 1 .. L PROVE ~OnContent(ws[r], p)
      BY <1>3, <2>1
    <2>3. ws[2].to = "content" /\ ws[2].i = p /\ ws[2].val = Directory(from)
      BY <1>1, <1>2
    <2> QED BY <2>1, <2>2, <2>3, LastWrite
  <1>5. ASSUME p # q PROVE d.contents[q] = Directory(into)
    <2>1. 1 \in 1 .. L /\ \A r \in 1 + 1 .. L : r \in 1 .. L /\ r > 1
      BY <1>l
    <2>2. ASSUME NEW r \in 1 + 1 .. L PROVE ~OnContent(ws[r], q)
      BY <1>3, <1>5, <2>1
    <2>3. ws[1].to = "content" /\ ws[1].i = q /\ ws[1].val = Directory(into)
      BY <1>1, <1>2
    <2> QED BY <2>1, <2>2, <2>3, LastWrite
  <1>6. ASSUME IsDir(i) PROVE d.contents[i] = Directory(ui)
    <2>1. 7 \in 1 .. L /\ \A r \in 7 + 1 .. L : r \in 1 .. L /\ r > 7
      BY <1>6, <1>l
    <2>2. ASSUME NEW r \in 7 + 1 .. L PROVE ~OnContent(ws[r], i)
      BY <1>3, <2>1
    <2>3. ws[7].to = "content" /\ ws[7].i = i /\ ws[7].val = Directory(ui)
      BY <1>1, <1>2, <1>6
    <2> QED BY <2>1, <2>2, <2>3, LastWrite
  <1>7. ASSUME IsDir(j) PROVE d.contents[j] = Directory(uj)
    <2>1. L \in 1 .. L /\ L + 1 .. L = {}
      BY <1>7, <1>l
    <2>3. ws[L].to = "content" /\ ws[L].i = j /\ ws[L].val = Directory(uj)
      BY <1>1, <1>2, <1>7
    <2> QED BY <2>1, <2>3, LastWrite
  <1>8. ASSUME NEW y \in Inodes \ {p, q}, ~(y = i /\ IsDir(i)), ~(y = j /\ IsDir(j))
        PROVE  d.contents[y] = contents[y]
    <2>1. ASSUME NEW r \in 1 .. L PROVE ~OnContent(ws[r], y)
      BY <1>3, <1>8
    <2> QED BY <2>1, NotWritten
  <1> QED BY <1>4, <1>5, <1>6, <1>7, <1>8

LEMMA SoundExchange ==
  ASSUME Inv, NEW p, NEW m, NEW q, NEW n, NEW i, NEW j, MayExchange(p, m, q, n, i, j),
         NEW is, is = {i, j}, NEW ws, Told(i), Told(j),
         ExchangeShape(p, q, i, j, There(q, n, i), Back(p, m, q, n, i, j), Up(i, q), Up(j, p), ws)
  PROVE  Sound(is, "File", ws)
  <1> DEFINE d == After(ws, Len(ws))
             into == There(q, n, i)
             from == Back(p, m, q, n, i, j)
             ui == Up(i, q)
             uj == Up(j, p)
             gone == FALSE
             L == Len(ws)
  <1>g. ~gone
    OBVIOUS
  <1>1. /\ DirWrite(is, q, into) /\ DirWrite(is, p, from)
        /\ IsDir(i) => /\ DirWrite(is, i, ui) /\ ui[".."] = q
                       /\ \A x \in Names : ui[x] = Entry(i, x)
        /\ IsDir(j) => /\ DirWrite(is, j, uj) /\ uj[".."] = p
                       /\ \A x \in Names : uj[x] = Entry(j, x)
        /\ \A x \in Names :
             /\ from[x] = IF x = m THEN j ELSE IF p = q /\ x = n THEN i ELSE Entry(p, x)
             /\ p # q => into[x] = IF x = n THEN i ELSE Entry(q, x)
    BY ExchangeDirs
  <1>2. ExchangeShape(p, q, i, j, into, from, ui, uj, ws)
    OBVIOUS
  <1> HIDE DEF into, from, ui, uj, gone
  <1>3. /\ L = 6 + (IF IsDir(i) THEN 1 ELSE 0) + (IF IsDir(j) THEN 1 ELSE 0)
        /\ DOMAIN ws = 1 .. L
        /\ ws[1] = WriteDir(q, into) /\ ws[2] = WriteDir(p, from)
        /\ ws[3] = Touch(p) /\ ws[4] = Touch(q) /\ ws[5] = Touch(i) /\ ws[6] = Touch(j)
        /\ IsDir(i) => ws[7] = WriteDir(i, ui)
        /\ IsDir(j) => ws[L] = WriteDir(j, uj)
    BY <1>2 DEF ExchangeShape
  <1>4. /\ p \in Inodes /\ Exists(p) /\ q \in Inodes /\ Exists(q) /\ m \in Names /\ n \in Names
        /\ i \in Inodes /\ Exists(i) /\ i # FUSE_ROOT_ID /\ i # p /\ i # q /\ i = Entry(p, m)
        /\ j \in Inodes /\ Exists(j) /\ j # FUSE_ROOT_ID /\ j # p /\ j # q /\ j = Entry(q, n)
        /\ i # j /\ NoEntry \notin Inodes
    BY DEF MayExchange, IsMoved, IsDirectory, Inodes, NoEntry
  <1>5. is \subseteq Inodes /\ \A z \in is : Exists(z) /\ z # FUSE_ROOT_ID
    BY <1>4
  <1>6. ASSUME NEW r \in 1 .. L PROVE Plain(is, NoEntry, ws[r])
    <2>1. \/ r = 1 \/ r = 2 \/ r = 3 \/ r = 4 \/ r = 5 \/ r = 6
          \/ (IsDir(i) /\ r = 7) \/ (IsDir(j) /\ r = L)
      BY <1>3
    <2>2. \A y \in Inodes : Exists(y) => Plain(is, NoEntry, Touch(y))
      BY <1>4, PlainWrites
    <2>3. \A e : \A y \in Inodes : DirWrite(is, y, e) => Plain(is, NoEntry, WriteDir(y, e))
      BY <1>4, PlainWrites
    <2>4. /\ Plain(is, NoEntry, ws[3]) /\ Plain(is, NoEntry, ws[4]) /\ Plain(is, NoEntry, ws[5])
          /\ Plain(is, NoEntry, ws[6])
      BY <1>3, <1>4, <2>2
    <2>5. Plain(is, NoEntry, ws[1]) /\ Plain(is, NoEntry, ws[2])
      BY <1>1, <1>3, <1>4, <2>3
    <2>6. (IsDir(i) => Plain(is, NoEntry, ws[7])) /\ (IsDir(j) => Plain(is, NoEntry, ws[L]))
      BY <1>1, <1>3, <1>4, <2>3
    <2> HIDE DEF L
    <2> QED BY <2>1, <2>4, <2>5, <2>6
  <1>7. Shuffle(is, NoEntry, inodes[i], gone, 0, ws)
    <2>1. L \in Nat /\ 0 <= L /\ 0 \in Nat
      BY <1>3
    <2> QED BY <1>3, <1>4, <1>5, <1>6, <1>g, <2>1 DEF Shuffle
  <1>8. Safe(is, "File", ws)
    BY <1>7, ShufflePanics
  <1>9. ASSUME PanicAt(ws) = {} PROVE Finishes(is, ws)
    <2>1. Prefix(is, "File", ws, Len(ws))
      BY <1>7, <1>9, ShufflePanics
    <2>2. OpenKept(d) /\ \A y \in Inodes : d.inodes[y] = inodes[y]
      BY <1>4, <1>7, <1>9, ShuffleFinal
    <2>3. /\ d.contents[p] = Directory(from)
          /\ p # q => d.contents[q] = Directory(into)
          /\ IsDir(i) => d.contents[i] = Directory(ui)
          /\ IsDir(j) => d.contents[j] = Directory(uj)
          /\ \A y \in Inodes \ {p, q} :
               ~(y = i /\ IsDir(i)) /\ ~(y = j /\ IsDir(j)) => d.contents[y] = contents[y]
      BY <1>2, <1>4, <2>1, ExchangeContents
    <2> HIDE DEF d
    <2>4. ASSUME NEW y \in Inodes, NEW x \in Names
          PROVE  /\ EntryIn(d, y, x) = IF y = q /\ x = n THEN i
                                       ELSE IF y = p /\ x = m THEN j ELSE Entry(y, x)
                 /\ d.inodes[y] # Missing <=> Exists(y)
      <3>0. d.inodes[y] # Missing <=> Exists(y)
        BY <2>2 DEF Exists
      <3>a. \A e : d.contents[y] = Directory(e) => EntryIn(d, y, x) = e[x]
        BY DEF EntryIn, Directory
      <3>b. p # q \/ m # n
        BY <1>4
      <3>1. CASE y = p
        BY <1>1, <2>3, <3>0, <3>1, <3>a, <3>b
      <3>2. CASE y = q /\ p # q
        BY <1>1, <2>3, <3>0, <3>2, <3>a
      <3>3. CASE y = i /\ IsDir(i)
        BY <1>1, <1>4, <2>3, <3>0, <3>3, <3>a
      <3>4. CASE y = j /\ IsDir(j)
        BY <1>1, <1>4, <2>3, <3>0, <3>4, <3>a
      <3>5. CASE y # p /\ y # q /\ ~(y = i /\ IsDir(i)) /\ ~(y = j /\ IsDir(j))
        <4>1. d.contents[y] = contents[y]
          BY <2>3, <3>5
        <4>2. EntryIn(d, y, x) = Entry(y, x)
          BY <4>1 DEF EntryIn, Entry, Entries
        <4> QED BY <3>0, <3>5, <4>2
      <3> QED BY <3>1, <3>2, <3>3, <3>4, <3>5
    <2>5. Renamed(d, p, m, q, n, i, j)
      BY <2>4 DEF Renamed
    <2>6. Renamed(d, q, n, p, m, j, i)
      BY <1>4, <2>4 DEF Renamed
    <2>7. /\ PlacesIn(d, i) = (PlacesIn(Before, i) \ {<<p, m>>}) \cup {<<q, n>>}
          /\ PlacesIn(d, j) = (PlacesIn(Before, j) \ {<<q, n>>}) \cup {<<p, m>>}
      <3>1. /\ p \in Inodes /\ Exists(p) /\ m \in Names /\ q \in Inodes /\ Exists(q) /\ n \in Names
        BY <1>4
      <3>2. PlacesIn(d, i) = (PlacesIn(Before, i) \ {<<p, m>>}) \cup {<<q, n>>}
        <4>1. (p # q \/ m # n) /\ i # NoEntry /\ Entry(q, n) # i /\ j # i
          BY <1>4
        <4> QED BY <2>5, <3>1, <4>1, PlacesMoved
      <3>3. PlacesIn(d, j) = (PlacesIn(Before, j) \ {<<q, n>>}) \cup {<<p, m>>}
        <4>1. (q # p \/ n # m) /\ j # NoEntry /\ Entry(p, m) # j /\ i # j
          BY <1>4
        <4> QED BY <2>6, <3>1, <4>1, PlacesMoved
      <3> QED BY <3>2, <3>3
    <2>8. /\ <<p, m>> \in PlacesIn(Before, i) /\ <<q, n>> \notin PlacesIn(Before, i)
          /\ <<q, n>> \in PlacesIn(Before, j) /\ <<p, m>> \notin PlacesIn(Before, j)
      BY <1>4, PlacesBefore
    <2>9. IF IsDir(i) THEN d.contents[i] # Missing /\ EntryIn(d, i, "..") = <<q, n>>[1]
                      ELSE d.contents[i] = contents[i]
      BY <1>1, <1>4, <2>3 DEF Directory, Missing, EntryIn
    <2>10. IF IsDir(j) THEN d.contents[j] # Missing /\ EntryIn(d, j, "..") = <<p, m>>[1]
                       ELSE d.contents[j] = contents[j]
      BY <1>1, <1>4, <2>3 DEF Directory, Missing, EntryIn
    <2>11. i \notin damaged => Exact(d, i)
      <3>1. d.inodes[i] = inodes[i]
        BY <1>4, <2>2
      <3> QED BY <1>4, <2>7, <2>8, <2>9, <3>1, MovedExact
    <2>12. j \notin damaged => Exact(d, j)
      <3>1. d.inodes[j] = inodes[j]
        BY <1>4, <2>2
      <3> QED BY <1>4, <2>7, <2>8, <2>10, <3>1, MovedExact
    <2> QED BY <2>2, <2>11, <2>12 DEF Finishes, d
  <1> QED BY <1>8, <1>9 DEF Sound

LEMMA ExchangeTorn ==
  ASSUME Inv, NEW p, NEW m, NEW q, NEW n, NEW i, NEW j, MayExchange(p, m, q, n, i, j),
         NEW is, is = {i, j}, ~Told(i) \/ ~Told(j), NEW ws,
         ws = << WriteDir(q, There(q, n, i)), WriteDir(p, Back(p, m, q, n, i, j)),
                 Touch(p), Touch(q), Touch(i), Touch(j) >>
              \o DotDot(i, Entries(i), q) \o DotDot(j, Entries(j), p)
  PROVE  Sure(is, "File", ws)
  <1> DEFINE a == WriteDir(q, There(q, n, i))
             b == WriteDir(p, Back(p, m, q, n, i, j))
             e == WriteDir(i, Up(i, q))
             f == WriteDir(j, Up(j, p))
             six == <<a, b, Touch(p), Touch(q), Touch(i), Touch(j)>>
             t == DotDot(i, Entries(i), q)
             u == DotDot(j, Entries(j), p)
             S == {a, b, Touch(p), Touch(q), Touch(i), Touch(j), e, f, Panic(i), Panic(j)}
  <1>1. /\ p \in Inodes /\ q \in Inodes /\ i \in Inodes /\ j \in Inodes
        /\ Exists(p) /\ Exists(q) /\ Exists(i) /\ Exists(j) /\ i # FUSE_ROOT_ID /\ j # FUSE_ROOT_ID
        /\ (IsDir(i) => HasContent(i)) /\ (IsDir(j) => HasContent(j))
    BY DEF MayExchange, IsMoved, IsDirectory
  <1>2. is \subseteq Inodes /\ \A z \in is : Exists(z) /\ z # FUSE_ROOT_ID
    BY <1>1
  <1>3. /\ ~Told(i) => i \in damaged /\ t = <<Panic(i)>>
        /\ ~Told(j) => j \in damaged /\ u = <<Panic(j)>>
        /\ Told(i) => t = IF IsDir(i) THEN <<e>> ELSE <<>>
        /\ Told(j) => u = IF IsDir(j) THEN <<f>> ELSE <<>>
    <2>1. /\ ~Told(i) => i \in damaged /\ IsDir(i)
          /\ ~Told(j) => j \in damaged /\ IsDir(j)
      BY <1>1, UntoldDamaged
    <2> QED BY <2>1, DotDotWrites
  <1>0. \A y \in Inodes : y \in Inodes \ {NoEntry}
    BY Constants DEF Inodes, NoEntry
  <1>4. \A y \in Inodes : Exists(y) => Plain(is, NoEntry, Touch(y))
    BY <1>0, PlainWrites
  <1>5. \A z : \A y \in Inodes : DirWrite(is, y, z) => Plain(is, NoEntry, WriteDir(y, z))
    BY <1>0, PlainWrites
  <1>6. /\ Plain(is, NoEntry, a) /\ Plain(is, NoEntry, b)
        /\ IsDir(i) /\ Told(i) => Plain(is, NoEntry, e)
    <2>1. /\ DirWrite(is, q, There(q, n, i)) /\ DirWrite(is, p, Back(p, m, q, n, i, j))
          /\ IsDir(i) /\ Told(i) => DirWrite(is, i, Up(i, q))
      BY ExchangeDirs
    <2> QED BY <1>1, <1>5, <2>1
  <1>7. ws = (six \o t) \o u
    OBVIOUS
  <1> HIDE DEF a, b, e, f, t, u
  <1>8. {a, b, Touch(p), Touch(q), Touch(i), Touch(j), e, f, Panic(i), Panic(j)} \subseteq S
    OBVIOUS
  <1> HIDE DEF S
  <1>9. /\ six \in Seq(S) /\ Len(six) = 6 /\ six[1] = a /\ six[2] = b /\ six[3] = Touch(p)
        /\ six[4] = Touch(q) /\ six[5] = Touch(i) /\ six[6] = Touch(j)
    BY <1>8
  <1> HIDE DEF six
  <1>10. ASSUME NEW r \in 1 .. 6 PROVE Plain(is, NoEntry, six[r])
    <2>1. r = 1 \/ r = 2 \/ r = 3 \/ r = 4 \/ r = 5 \/ r = 6
      OBVIOUS
    <2> QED BY <1>1, <1>4, <1>6, <1>9, <2>1
  <1>11. t \in Seq(S) /\ u \in Seq(S)
    <2>1. /\ <<>> \in Seq(S) /\ <<e>> \in Seq(S) /\ <<f>> \in Seq(S)
          /\ <<Panic(i)>> \in Seq(S) /\ <<Panic(j)>> \in Seq(S)
      BY <1>8
    <2> QED BY <1>3, <2>1
  <1>12. CASE ~Told(i)
    <2> DEFINE rest == t \o u
    <2>1. t = <<Panic(i)>> /\ i \in damaged
      BY <1>3, <1>12
    <2>2. rest \in Seq(S) /\ Len(rest) = Len(t) + Len(u) /\ \A r \in 1 .. Len(t) : rest[r] = t[r]
      BY <1>11
    <2>3. Len(t) = 1 /\ t[1] = Panic(i) /\ Len(u) \in Nat /\ 1 \in 1 .. 1
      BY <1>11, <2>1
    <2>4. rest \in Seq(S) /\ Len(rest) >= 1 /\ rest[1] = Panic(i)
      BY <2>2, <2>3
    <2>5. ws = six \o rest
      <3>1. six \in Seq(S) /\ t \in Seq(S) /\ u \in Seq(S)
        BY <1>9, <1>11
      <3>2. (six \o t) \o u = six \o (t \o u)
        BY <3>1, ConcatAssociative
      <3> QED BY <1>7, <3>2
    <2> HIDE DEF rest
    <2>6. Cut(ws, six)
      BY <1>9, <2>1, <2>4, <2>5, CutAt
    <2>7. Safe(is, "File", six)
      BY <1>2, <1>9, <1>10, PlainSafe
    <2> QED BY <2>6, <2>7 DEF Sure
  <1>13. CASE Told(i)
    <2> DEFINE v == six \o t
    <2>1. u = <<Panic(j)>> /\ j \in damaged
      BY <1>3, <1>13
    <2>2. Len(u) = 1 /\ u[1] = Panic(j)
      BY <2>1
    <2>3. /\ v \in Seq(S) /\ Len(v) = Len(six) + Len(t)
          /\ \A r \in 1 .. Len(six) : v[r] = six[r]
          /\ \A r \in 1 .. Len(t) : v[Len(six) + r] = t[r]
      <3>1. six \in Seq(S) /\ t \in Seq(S)
        BY <1>9, <1>11
      <3> QED BY <3>1
    <2> HIDE DEF v
    <2>4. ASSUME NEW r \in 1 .. Len(v) PROVE Plain(is, NoEntry, v[r])
      <3>1. CASE r \in 1 .. 6
        <4>1. v[r] = six[r]
          BY <1>9, <2>3, <3>1
        <4> QED BY <1>10, <3>1, <4>1
      <3>2. CASE r \notin 1 .. 6
        <4>1. IsDir(i) /\ Len(t) = 1 /\ t[1] = e /\ r = 7
          <5>1. t = IF IsDir(i) THEN <<e>> ELSE <<>>
            BY <1>3, <1>13
          <5>2. CASE IsDir(i)
            <6>1. Len(t) = 1 /\ t[1] = e
              BY <5>1, <5>2
            <6> QED BY <1>9, <2>3, <3>2, <5>2, <6>1
          <5>3. CASE ~IsDir(i)
            <6>1. Len(t) = 0
              BY <5>1, <5>3
            <6> QED BY <1>9, <2>3, <3>2, <6>1
          <5> QED BY <5>2, <5>3
        <4>2. 1 \in 1 .. Len(t) /\ Len(six) + 1 = 7
          BY <1>9, <4>1
        <4>3. v[r] = e
          BY <2>3, <4>1, <4>2
        <4> QED BY <1>6, <1>13, <4>1, <4>3
      <3> QED BY <3>1, <3>2
    <2>5. Safe(is, "File", v)
      BY <1>2, <2>3, <2>4, PlainSafe
    <2>6. ws = v \o u
      BY <1>7 DEF v
    <2>7. Cut(ws, v)
      <3>1. v \in Seq(S) /\ u \in Seq(S) /\ Len(u) >= 1
        BY <1>11, <2>2, <2>3
      <3> QED BY <2>1, <2>2, <2>6, <3>1, CutAt
    <2> QED BY <2>5, <2>7 DEF Sure
  <1> QED BY <1>12, <1>13

-----------------------------------------------------------------------------
(* Every step keeps the invariant, and what it panics on was damaged.      *)
LEMMA Handled ==
  ASSUME NEW is, NEW k, NEW ws, Inv, Sound(is, k, ws), Handle(is, ws), UNCHANGED limit,
         ~TornInode(FUSE_ROOT_ID)
  PROVE  Fine
  BY HandleStep DEF Fine

LEMMA InitInv == ASSUME Init PROVE Inv
  <1>1. /\ limit \in Limits /\ damaged = {} /\ superblock = 1 /\ torn = {} /\ session = "down"
        /\ inodes = [i \in Inodes |-> Missing] /\ contents = [i \in Inodes |-> Missing]
        /\ handles = [i \in Inodes |-> 0]
    BY DEF Init, FUSE_ROOT_ID
  <1>2. /\ Before.superblock = 1 /\ Before.handles = handles
        /\ \A i \in Inodes : /\ Before.inodes[i] = Missing /\ Before.contents[i] = Missing
                             /\ Before.handles[i] = 0
    BY <1>1 DEF Before
  <1>3. Before \in Stores
    BY <1>1 DEF Before, Stores
  <1>4. \A p \in Inodes : \A m : EntryIn(Before, p, m) = NoEntry
    BY <1>2 DEF EntryIn, Missing
  <1>5. limit.inodes \in Nat \ {0} /\ FUSE_ROOT_ID \in Inodes
    BY <1>1, Constants
  <1>6. Unused(Before)
    BY <1>2, <1>4, <1>5 DEF Unused, NoEntry
  <1>7. KindsAgree(Before)
    BY <1>2, <1>5 DEF KindsAgree
  <1>8. NamesLead(Before)
    BY <1>2, <1>4 DEF NamesLead, Bare, NoEntry, Inodes, FUSE_ROOT_ID
  <1>9. OpenKept(Before)
    BY <1>2 DEF OpenKept
  <1>10. ASSUME NEW i \in Inodes PROVE Exact(Before, i)
    <2>1. PlacesIn(Before, i) = {}
      BY <1>2 DEF PlacesIn
    <2> QED BY <1>2, <2>1 DEF Exact, ExactBut, SizeExactIn, LinksExactIn
  <1>11. \A i : ~TornInode(i) /\ ~TornContent(i) /\ ~TornSuperblock
    BY <1>1 DEF TornInode, TornContent, TornSuperblock
  <1>12. TornInv
    BY <1>11 DEF TornInv
  <1>13. StoreInv(Before)
    BY <1>3, <1>6, <1>7, <1>8 DEF StoreInv
  <1> QED BY <1>1, <1>9, <1>10, <1>12, <1>13 DEF Inv

(* Steps that leave the store as it is.                                    *)
LEMMA SameInv ==
  ASSUME Inv, UNCHANGED <<superblock, inodes, contents, torn, damaged, missized, limit>>,
         handles' \in [Inodes -> Nat], \A x \in Inodes : handles'[x] <= handles[x],
         session' = "down" => \A x \in Inodes : handles'[x] = 0,
         session' = "up" => session = "up"
  PROVE  Inv'
  <1>1. /\ superblock' = superblock /\ inodes' = inodes /\ contents' = contents /\ torn' = torn
        /\ damaged' = damaged /\ missized' = missized /\ limit' = limit
    OBVIOUS
  <1>2. handles \in [Inodes -> Nat]
    BY Facts
  <1>3. Store(Before) /\ Before \in Stores /\ missized \subseteq missized'
    BY <1>1 DEF Store, Before, Inv, StoreInv
  <1>4. StoreInv(Before)' /\ \A j : Exact(Before, j) => Exact(Before, j)'
    BY <1>1, <1>3, SameStore DEF Inv, Exact
  <1>5. ASSUME NEW x \in Inodes, handles'[x] > 0
        PROVE  /\ inodes'[x] # Missing /\ (contents'[x] # Missing \/ x = FUSE_ROOT_ID)
               /\ inodes'[x].open_file_handles >= handles'[x]
    <2>1. handles[x] \in Nat /\ handles'[x] \in Nat /\ handles'[x] <= handles[x] /\ handles[x] > 0
      BY <1>2, <1>5
    <2>2. /\ Exists(x) /\ (HasContent(x) \/ x = FUSE_ROOT_ID)
          /\ inodes[x].open_file_handles >= handles[x]
      BY <2>1, Facts
    <2>3. inodes[x].open_file_handles \in Nat
      BY <2>2, Facts DEF Attributes
    <2> QED BY <1>1, <2>1, <2>2, <2>3 DEF Exists, HasContent
  <1>6. OpenKept(Before)'
    BY <1>5 DEF OpenKept, Before
  <1>7. TornInv'
    <2>1. TornInv
      BY DEF Inv
    <2>2. ASSUME NEW x \in Inodes, handles[x] = 0 PROVE handles'[x] = 0
      BY <2>2
    <2>3. /\ \A x : /\ TornInode(x)' = TornInode(x) /\ TornContent(x)' = TornContent(x)
                    /\ \A m : Entry(x, m)' = Entry(x, m)
          /\ TornSuperblock' = TornSuperblock
          /\ Exists(FUSE_ROOT_ID)' = Exists(FUSE_ROOT_ID)
      BY <1>1 DEF TornInode, TornContent, TornSuperblock, Entry, Exists, Superblock, FUSE_ROOT_ID, NoEntry
    <2>4. ASSUME NEW x \in Inodes
          PROVE  /\ TornInode(x)' => x \in damaged' /\ x <= superblock' /\ handles'[x] = 0
                 /\ TornContent(x)' =>
                      /\ x \in damaged' /\ x <= superblock' /\ contents'[x].kind # "Data"
                      /\ \A m \in Names : Entry(x, m)' \in damaged' \cup {NoEntry}
      BY <1>1, <2>1, <2>2, <2>3 DEF TornInv
    <2>5. /\ TornSuperblock' => Superblock \in damaged'
          /\ TornContent(FUSE_ROOT_ID)' => Exists(FUSE_ROOT_ID)'
          /\ session' = "up" => ~TornInode(FUSE_ROOT_ID)'
      BY <1>1, <2>1, <2>3 DEF TornInv
    <2> QED BY <2>4, <2>5 DEF TornInv
  <1>8. \A x \in Inodes \ damaged' : Exact(Before, x)'
    BY <1>1, <1>4 DEF Inv
  <1>9. limit' \in Limits
    BY <1>1 DEF Inv
  <1> QED BY <1>4, <1>6, <1>7, <1>8, <1>9 DEF Inv

LEMMA DoesInit == ASSUME Inv, init, UNCHANGED limit PROVE Fine
  <1>0. ~TornInode(FUSE_ROOT_ID)
    BY DEF init
  <1>1. CASE Exists(FUSE_ROOT_ID)
    <2>1. Handle({FUSE_ROOT_ID}, <<>>)
      BY <1>1 DEF init
    <2> QED BY <1>0, <2>1, SoundNothing, Handled
  <1>2. CASE ~Exists(FUSE_ROOT_ID)
    <2>1. Handle({FUSE_ROOT_ID},
            <<WriteInode(FUSE_ROOT_ID, Attrs("Directory", 2, 0, 0)),
              WriteDir(FUSE_ROOT_ID, [NoEntries EXCEPT !["."] = FUSE_ROOT_ID])>>)
      BY <1>2 DEF init
    <2> QED BY <1>0, <1>2, <2>1, SoundRoot, Handled
  <1> QED BY <1>1, <1>2

LEMMA DoesStop == ASSUME Inv, Stop, UNCHANGED limit PROVE Fine
  <1>1. /\ UNCHANGED <<superblock, inodes, contents, torn, damaged, missized, limit>>
        /\ panicked' = {} /\ session' = "down" /\ handles' = [i \in Inodes |-> 0]
    BY DEF Stop, Down, store
  <1>2. handles' \in [Inodes -> Nat] /\ \A x \in Inodes : handles'[x] = 0
    BY <1>1
  <1>3. \A x \in Inodes : handles'[x] <= handles[x]
    BY <1>2, Facts
  <1> QED BY <1>1, <1>2, <1>3, SameInv DEF Fine

(* What is read is damaged, if the handler panics.                         *)
LEMMA DoesReadPanic ==
  ASSUME Inv, NEW i \in damaged, ReadPanics(i), UNCHANGED limit
  PROVE  Fine
  <1>1. /\ UNCHANGED <<superblock, inodes, contents, torn, damaged, missized, limit>>
        /\ panicked' = {i} /\ session' = "down" /\ handles' = [x \in Inodes |-> 0]
    BY DEF ReadPanics, Down, store
  <1>2. handles' \in [Inodes -> Nat] /\ \A x \in Inodes : handles'[x] = 0
    BY <1>1
  <1>3. \A x \in Inodes : handles'[x] <= handles[x]
    BY <1>2, Facts
  <1>4. Inv'
    BY <1>1, <1>2, <1>3, SameInv
  <1> QED BY <1>1, <1>4 DEF Fine

LEMMA DoesInitPanic == ASSUME Inv, init_panics, UNCHANGED limit PROVE Fine
  <1>1. FUSE_ROOT_ID \in damaged
    BY Constants DEF Inv, TornInv, init_panics
  <1> QED BY <1>1, DoesReadPanic DEF init_panics

LEMMA DoesClose ==
  ASSUME Inv, NEW i \in Inodes, CloseHandle(i), session = "up", UNCHANGED limit
  PROVE  Fine
  <1>1. /\ UNCHANGED <<superblock, inodes, contents, torn, damaged, missized, limit>>
        /\ panicked' = {} /\ session' = "up"
        /\ handles' = [handles EXCEPT ![i] = @ - 1] /\ handles[i] > 0
    BY DEF CloseHandle, store
  <1>2. handles \in [Inodes -> Nat]
    BY Facts
  <1>3. handles' \in [Inodes -> Nat] /\ \A x \in Inodes : handles'[x] <= handles[x]
    BY <1>1, <1>2
  <1> QED BY <1>1, <1>3, SameInv DEF Fine

(* The size is written without the content.                                *)
LEMMA DoesResizeOnly ==
  ASSUME Inv, NEW i \in Inodes, Exists(i), NEW end \in Nat, ResizeOnly(i, end), UNCHANGED limit,
         ~TornInode(FUSE_ROOT_ID)
  PROVE  Fine
  <1> DEFINE ws == <<Resize(i, end)>>
  <1>1. CASE end > inodes[i].size
    <2>1. SoundBut(missized \cup {i}, {i}, "File", ws) /\ Missizes(i, ws)
      BY <1>1, SoundSize DEF ResizeOnly
    <2> HIDE DEF ws
    <2> QED BY <2>1, MissizesStep
  <1>2. CASE ~(end > inodes[i].size)
    <2>1. Sound({i}, "File", ws) /\ Handle({i}, ws)
      BY <1>2, SoundSize DEF ResizeOnly
    <2> HIDE DEF ws
    <2> QED BY <2>1, Handled
  <1> QED BY <1>1, <1>2

LEMMA DoesFile ==
  ASSUME Inv, NEW i \in Inodes, FileRequest(i), session = "up", UNCHANGED limit,
         ~TornInode(FUSE_ROOT_ID)
  PROVE  Fine
  <1>0. (\A n \in 1 .. MaxLen : n \in Nat) /\ \A n \in 0 .. MaxLen : n \in Nat
    OBVIOUS
  <1>w. Writable(i) => handles[i] > 0 /\ IsFile(i) /\ Exists(i)
    BY Facts DEF Writable
  <1>1. CASE release(i) \/ releasedir(i)
    BY <1>1, DoesClose DEF release, releasedir
  <1>2. ASSUME NEW n \in Nat, Writable(i), ResizeOnly(i, n) PROVE Fine
    BY <1>2, <1>w, DoesResizeOnly
  <1>3. ASSUME NEW n \in Nat, Writable(i), Handle({i}, Extend(i, n)) PROVE Fine
    <2>1. Sound({i}, "File", Extend(i, n))
      BY <1>3, <1>w, SoundExtend
    <2> QED BY <1>3, <2>1, Handled
  <1>4. ASSUME NEW n \in 1 .. MaxLen, write(i, n) \/ fallocate(i, n) \/ fallocate_fails(i, n) PROVE Fine
    BY <1>0, <1>2, <1>3, <1>4 DEF write, fallocate, fallocate_fails
  <1>5. ASSUME NEW j \in Inodes, NEW offset \in 0 .. MaxLen, NEW n \in 0 .. MaxLen,
               copy_file_range(j, i, offset, n)
        PROVE  Fine
    <2>1. offset \in Nat /\ offset + n \in Nat
      OBVIOUS
    <2>2. Writable(i) /\ (Handle({i}, Extend(i, offset + n)) \/ ResizeOnly(i, offset))
      BY <1>5 DEF copy_file_range
    <2> QED BY <1>2, <1>3, <2>1, <2>2
  <1> QED BY <1>1, <1>4, <1>5 DEF FileRequest

LEMMA DoesOpen ==
  ASSUME Inv, NEW i \in Inodes, Exists(i), HasContent(i) \/ i = FUSE_ROOT_ID, ~TornInode(i),
         OpenHandle(i), UNCHANGED limit, ~TornInode(FUSE_ROOT_ID)
  PROVE  Fine
  <1> DEFINE ws == <<WriteInode(i, [inodes[i] EXCEPT !.open_file_handles = @ + 1]), Opened(i)>>
  <1>1. Handle({i}, ws)
    BY DEF OpenHandle
  <1>2. Sound({i}, "File", ws)
    BY SoundOpen
  <1> HIDE DEF ws
  <1> QED BY <1>1, <1>2, Handled

LEMMA DoesSetattr ==
  ASSUME Inv, NEW i \in Inodes, Exists(i), HasContent(i) \/ inodes[i].kind = "Symlink",
         NEW len \in Nat, UNCHANGED limit, ~TornInode(FUSE_ROOT_ID),
         setattr(i, len) \/ setattr_times(i, len)
  PROVE  Fine
  <1>0. IsFile(i) /\ HasContent(i)
    BY DEF setattr, setattr_times, IsFile
  <1>1. CASE setattr(i, len)
    <2>1. Handle({i}, Truncate(i, len))
      BY <1>1 DEF setattr
    <2>2. Sound({i}, "File", Truncate(i, len))
      BY <1>0, SoundResize DEF Truncate
    <2> QED BY <2>1, <2>2, Handled
  <1>2. CASE setattr_times(i, len)
    <2> DEFINE ws == Truncate(i, len) \o <<Touch(i)>>
    <2>1. CASE len = inodes[i].size
      <3>1. Handle({i}, ws)
        BY <1>2, <2>1 DEF setattr_times
      <3>2. SoundBut(missized, {i}, "File", ws)
        BY <1>0, <2>1, SoundTimes
      <3> HIDE DEF ws
      <3>3. Sound({i}, "File", ws)
        BY <3>2, SoundIs
      <3> QED BY <3>1, <3>3, Handled
    <2>2. CASE len # inodes[i].size
      <3>1. Missizes(i, ws)
        BY <1>2, <2>2 DEF setattr_times
      <3>2. i \notin damaged \cup (missized \cup {i}) => len = inodes[i].size
        OBVIOUS
      <3>3. SoundBut(missized \cup {i}, {i}, "File", ws)
        BY <1>0, <3>2, SoundTimes
      <3> HIDE DEF ws
      <3> QED BY <3>1, <3>3, MissizesStep
    <2> QED BY <2>1, <2>2
  <1> QED BY <1>1, <1>2

(* A torn superblock is noticed after the first write.                     *)
MayMakeIn(p) == p \in Inodes /\ Exists(p) /\ IsDir(p)

LEMMA Making ==
  ASSUME Inv, NEW p, MayMakeIn(p), UNCHANGED limit, ~TornInode(FUSE_ROOT_ID),
         NEW k, NEW ws, Sure({NextInode}, k, ws), Make(p, ws)
  PROVE  Fine
  <1>1. CASE ~TornSuperblock
    <2>1. Handle({NextInode}, ws)
      BY <1>1 DEF Make
    <2> QED BY <2>1, SureStep
  <1>2. CASE TornSuperblock
    <2> DEFINE b == <<Touch(p), Panic(Superblock)>>
               v == <<Touch(p), AllocateInode>>
    <2>1. Handle({NextInode}, b) /\ MayAllocate
      BY <1>2 DEF Make
    <2>2. Safe({NextInode}, "Symlink", v)
      BY <2>1, SoundTaken DEF MayMakeIn, Sound
    <2>3. Superblock \in damaged
      BY <1>2 DEF Inv, TornInv
    <2>4. /\ Len(b) = 2 /\ DOMAIN b = 1 .. 2 /\ b[1] = Touch(p) /\ b[2] = Panic(Superblock)
          /\ Len(v) = 2 /\ v[1] = Touch(p)
      OBVIOUS
    <2>5. Panic(Superblock).to = "panic" /\ Panic(Superblock).i = Superblock
      BY DEF Panic
    <2> HIDE DEF b, v
    <2>6. 2 \in 1 .. Len(b) /\ 2 - 1 <= Len(v) /\ \A l \in 1 .. 2 - 1 : b[l] = v[l]
      BY <2>4
    <2>7. b[2].to = "panic" /\ b[2].i \in damaged
      BY <2>3, <2>4, <2>5
    <2>8. Len(b) \in Nat /\ DOMAIN b = 1 .. Len(b)
      BY <2>4
    <2>9. Cut(b, v)
      BY <2>6, <2>7, <2>8 DEF Cut
    <2> QED BY <2>1, <2>2, <2>9, CutStep
  <1> QED BY <1>1, <1>2

LEMMA DoesMake ==
  ASSUME Inv, NEW p, MayMakeIn(p), ~TornContent(p), NEW m \in Names, UNCHANGED limit,
         ~TornInode(FUSE_ROOT_ID), mknod(p, m) \/ create(p, m) \/ mkdir(p, m)
  PROVE  Fine
  <1>1. MayMake(p, m)
    BY DEF MayMake, MayMakeIn, mknod, create, mkdir, Make
  <1>2. CASE mknod(p, m)
    <2>1. Make(p, NewFile(p, m, 0))
      BY <1>2 DEF mknod
    <2>2. Sure({NextInode}, "File", NewFile(p, m, 0))
      BY <1>1, SureNewFile
    <2> QED BY <2>1, <2>2, Making
  <1>3. CASE create(p, m)
    <2>1. Make(p, NewFile(p, m, 1) \o <<Opened(NextInode)>>)
      BY <1>3 DEF create
    <2>2. Sure({NextInode}, "File", NewFile(p, m, 1) \o <<Opened(NextInode)>>)
      BY <1>1, SureCreate
    <2> QED BY <2>1, <2>2, Making
  <1>4. CASE mkdir(p, m)
    <2> DEFINE ws == << Touch(p), AllocateInode, WriteInode(NextInode, Attrs("Directory", 2, 0, 0)),
                        WriteDir(NextInode, NewEntries(NextInode, p)),
                        UpdateDir(p, [Entries(p) EXCEPT ![m] = NextInode]) >>
    <2>1. Make(p, ws)
      BY <1>4 DEF mkdir
    <2>2. Sure({NextInode}, "Directory", ws)
      BY <1>1, SureNewDir
    <2> HIDE DEF ws
    <2> QED BY <2>1, <2>2, Making
  <1> QED BY <1>2, <1>3, <1>4

(* What lookup_name panics on is damaged.                                  *)
LEMMA UnreadableFacts ==
  ASSUME Inv, NEW p \in Inodes, NEW m \in Names
  PROVE  /\ Unreadable(p, m) # NoEntry => Unreadable(p, m) \in damaged
         /\ Unreadable(p, m) = NoEntry => ~TornContent(p)
  <1>1. p # NoEntry
    BY Constants DEF Inodes, NoEntry
  <1>2. CASE TornContent(p)
    BY <1>1, <1>2 DEF Unreadable, Inv, TornInv
  <1>3. CASE ~TornContent(p) /\ TornInode(Entry(p, m)) /\ Entry(p, m) # NoEntry
    <2>1. m \in AllNames
      BY DEF AllNames
    <2>2. Entry(p, m) \in Nat /\ Entry(p, m) <= superblock /\ superblock \in Nat /\ superblock <= MaxInode
      BY <2>1, Facts
    <2>3. Entry(p, m) \in Inodes
      BY <1>3, <2>2, Constants DEF Inodes, NoEntry
    <2>4. Entry(p, m) \in damaged
      BY <1>3, <2>3 DEF Inv, TornInv
    <2> QED BY <1>3, <2>4 DEF Unreadable
  <1>4. CASE ~TornContent(p) /\ ~(TornInode(Entry(p, m)) /\ Entry(p, m) # NoEntry)
    BY <1>4 DEF Unreadable
  <1> QED BY <1>2, <1>3, <1>4

LEMMA DoesSymlink ==
  ASSUME Inv, NEW p, MayMakeIn(p), NEW m \in Names, UNCHANGED limit, ~TornInode(FUSE_ROOT_ID),
         symlink(p, m)
  PROVE  Fine
  <1> DEFINE b == <<Touch(p), AllocateInode>>
             x == Unreadable(p, m)
             c == InsertLink(p, m, NextInode) \o
                  <<WriteInode(NextInode, Attrs("Symlink", 1, 0, MaxLen)),
                    WriteContent(NextInode, Data(0)), WriteContent(NextInode, Data(MaxLen))>>
             rest == IF x # NoEntry THEN <<Panic(x)>>
                     ELSE IF lookup_name(p, m) # NoEntry THEN <<>> ELSE c
  <1>1. Make(p, b \o rest)
    BY DEF symlink
  <1>2. MayAllocate
    BY <1>1 DEF Make
  <1>s. Sound({NextInode}, "Symlink", b)
    BY <1>2, SoundTaken DEF MayMakeIn
  <1>b. b \in Seq({Touch(p), AllocateInode, Panic(x)}) /\ <<Panic(x)>> \in Seq({Touch(p), AllocateInode, Panic(x)})
    OBVIOUS
  <1>x. /\ x # NoEntry => x \in damaged
        /\ x = NoEntry => ~TornContent(p)
    BY UnreadableFacts DEF MayMakeIn
  <1>c. MayMake(p, m) => Sure({NextInode}, "Symlink", b \o c)
    BY SureSymlink
  <1> HIDE DEF b, c, x
  <1>3. Sure({NextInode}, "Symlink", b \o rest)
    <2>1. CASE x # NoEntry
      <3> DEFINE q == <<Panic(x)>>
      <3>1. Len(q) >= 1 /\ q[1] = Panic(x) /\ rest = q
        BY <2>1
      <3>2. q \in Seq({Touch(p), AllocateInode, Panic(x)}) /\ x \in damaged
        BY <1>b, <1>x, <2>1
      <3> HIDE DEF q, rest
      <3>3. Cut(b \o q, b)
        BY <1>b, <3>1, <3>2, CutAt
      <3>4. Safe({NextInode}, "Symlink", b)
        BY <1>s DEF Sound
      <3> QED BY <3>1, <3>3, <3>4 DEF Sure
    <2>2. CASE x = NoEntry /\ lookup_name(p, m) # NoEntry
      <3>1. b \o <<>> = b
        BY <1>b, ConcatEmptySeq
      <3>2. rest = <<>>
        BY <2>2
      <3> HIDE DEF rest
      <3> QED BY <1>s, <3>1, <3>2 DEF Sure
    <2>3. CASE x = NoEntry /\ lookup_name(p, m) = NoEntry
      <3>1. MayMake(p, m)
        BY <1>2, <1>x, <2>3 DEF MayMake, MayMakeIn
      <3>2. rest = c
        BY <2>3
      <3> HIDE DEF rest
      <3> QED BY <1>c, <3>1, <3>2
    <2> QED BY <2>1, <2>2, <2>3
  <1> HIDE DEF rest
  <1> QED BY <1>1, <1>3, Making

(* A directory that cannot be read is damaged.                             *)
LEMMA FoundUnread ==
  ASSUME Inv, NEW p \in Inodes, NEW m \in Names, NEW i, i = lookup_name(p, m), i # NoEntry
  PROVE  /\ HasContent(p)
         /\ IsDir(i) /\ ~Readable(i) => i \in damaged
  <1>1. /\ i \in Inodes /\ Exists(i) /\ i = Entry(p, m)
        /\ HasContent(i) \/ inodes[i].kind = "Symlink"
    BY LookupFacts
  <1>2. HasContent(p)
    BY <1>1, Facts
  <1>3. ASSUME IsDir(i), ~Readable(i) PROVE i \in damaged
    <2>1. TornContent(i)
      BY <1>1, <1>3 DEF Readable, IsDir
    <2> QED BY <1>1, <2>1 DEF Inv, TornInv
  <1> QED BY <1>2, <1>3

LEMMA DoesRemove ==
  ASSUME Inv, NEW p, MayMakeIn(p), ~TornContent(p), NEW m \in Names, UNCHANGED limit,
         ~TornInode(FUSE_ROOT_ID), unlink(p, m) \/ rmdir(p, m)
  PROVE  Fine
  <1> DEFINE i == lookup_name(p, m)
             ws == <<Touch(p)>> \o DropLink(i) \o <<WriteDir(p, [Entries(p) EXCEPT ![m] = NoEntry])>>
  <1>1. /\ i # NoEntry
        /\ \/ (IsDir(i) => ~NotEmpty(i)) /\ Handle({i}, ws)
           \/ IsDir(i) /\ ~Readable(i) /\ ReadPanics(i)
    BY DEF unlink, rmdir, RemoveName
  <1>2. HasContent(p) /\ (IsDir(i) /\ ~Readable(i) => i \in damaged)
    BY <1>1, FoundUnread DEF MayMakeIn
  <1>3. CASE (IsDir(i) => ~NotEmpty(i)) /\ Handle({i}, ws)
    <2>1. Sound({i}, "File", ws)
      BY <1>1, <1>2, <1>3, SoundRemoveName DEF MayMakeIn
    <2> HIDE DEF i, ws
    <2> QED BY <1>3, <2>1, Handled
  <1>4. CASE IsDir(i) /\ ~Readable(i) /\ ReadPanics(i)
    BY <1>2, <1>4, DoesReadPanic
  <1> QED BY <1>1, <1>3, <1>4

LEMMA DoesLink ==
  ASSUME Inv, NEW p, MayMakeIn(p), ~TornContent(p), p \in Linked, NEW m \in Names, UNCHANGED limit,
         ~TornInode(FUSE_ROOT_ID), NEW i \in LinkedFiles, link(i, p, m)
  PROVE  Fine
  <1> DEFINE ws == InsertLink(p, m, i) \o <<WriteInode(i, [inodes[i] EXCEPT !.hardlinks = @ + 1])>>
  <1>1. inodes[i].hardlinks > 0 /\ lookup_name(p, m) = NoEntry /\ Handle({i}, ws)
    BY DEF link
  <1>2. /\ i \in Inodes /\ Exists(i) /\ ~IsDir(i) /\ i # FUSE_ROOT_ID
        /\ HasContent(i) \/ inodes[i].kind = "Symlink"
    BY LinkedFacts
  <1>3. HasContent(p)
    <2>1. i \in Linked
      BY DEF LinkedFiles
    <2>2. HasContent(FUSE_ROOT_ID)
      BY <1>2, <2>1, BareAlone
    <2>3. p \in LinkedDirs
      BY DEF LinkedDirs, MayMakeIn
    <2> QED BY <2>2, <2>3, LinkedFacts
  <1>4. Sound({i}, "File", ws)
    BY <1>1, <1>2, <1>3, SoundLink DEF MayMakeIn
  <1> HIDE DEF ws
  <1> QED BY <1>1, <1>4, Handled

LEMMA DoesRename ==
  ASSUME Inv, NEW p, IsDirectory(p), NEW m \in Names, NEW q, IsDirectory(q), NEW n \in Names,
         UNCHANGED limit, ~TornInode(FUSE_ROOT_ID), rename(p, m, q, n)
  PROVE  Fine
  <1> DEFINE i == lookup_name(p, m)
             old == lookup_name(q, n)
             is == Moving(i, old)
             ws == Move(p, m, q, n, i, old)
             bad == old # NoEntry /\ IsDir(old) /\ ~Readable(old)
  <1>1. /\ i # NoEntry /\ old # i /\ (IsDir(i) => q \notin Below(i))
        /\ old # NoEntry => IsDir(i) = IsDir(old)
        /\ bad => ReadPanics(old)
        /\ ~bad => (old # NoEntry => ~(IsDir(old) /\ NotEmpty(old))) /\ Handle(is, ws)
    BY DEF rename, Moving
  <1>2. i = lookup_name(p, m) /\ old = lookup_name(q, n)
    OBVIOUS
  <1>b. bad => old \in damaged
    BY FoundUnread DEF IsDirectory
  <1> HIDE DEF i, old, is, ws
  <1>3. CASE bad
    BY <1>1, <1>3, <1>b, DoesReadPanic
  <1>4. CASE ~bad
    <2> HIDE DEF bad
    <2>1. old # NoEntry => IsDir(i) = IsDir(old) /\ ~(IsDir(old) /\ NotEmpty(old))
      BY <1>1, <1>4
    <2>2. MayMove(p, m, q, n, i, old)
      BY <1>1, <1>2, <2>1, MayMoveFacts
    <2>3. Sure(is, "File", ws)
      <3>1. CASE Told(i)
        BY <2>2, <3>1, SoundMove DEF Sure, is, ws
      <3>2. CASE ~Told(i)
        BY <2>2, <3>2, MoveTorn DEF is, ws
      <3> QED BY <3>1, <3>2
    <2> QED BY <1>1, <1>4, <2>3, SureStep
  <1> QED BY <1>3, <1>4

LEMMA DoesExchange ==
  ASSUME Inv, NEW p, IsDirectory(p), NEW m \in Names, NEW q, IsDirectory(q), NEW n \in Names,
         UNCHANGED limit, ~TornInode(FUSE_ROOT_ID), exchange(p, m, q, n)
  PROVE  Fine
  <1> DEFINE i == lookup_name(p, m)
             j == lookup_name(q, n)
             into == There(q, n, i)
             from == Back(p, m, q, n, i, j)
             is == {i, j}
             ws == << WriteDir(q, into), WriteDir(p, from), Touch(p), Touch(q), Touch(i), Touch(j) >>
                   \o DotDot(i, Entries(i), q) \o DotDot(j, Entries(j), p)
  <1>1. /\ i # NoEntry /\ j # NoEntry /\ i # j
        /\ (IsDir(i) => q \notin Below(i)) /\ (IsDir(j) => p \notin Below(j))
        /\ Handle(is, ws)
    BY DEF exchange, There, Back
  <1>2. i = lookup_name(p, m) /\ j = lookup_name(q, n)
    OBVIOUS
  <1> HIDE DEF i, j
  <1>3. IsMoved(i, p, m, q) /\ (IsDir(i) => HasContent(i))
    BY <1>1, <1>2, MovedFacts
  <1>4. IsMoved(j, q, n, p) /\ (IsDir(j) => HasContent(j))
    BY <1>1, <1>2, MovedFacts
  <1>5. MayExchange(p, m, q, n, i, j)
    BY <1>1, <1>3, <1>4 DEF MayExchange
  <1>6. Sure(is, "File", ws)
    <2>1. CASE Told(i) /\ Told(j)
      <3>1. ExchangeShape(p, q, i, j, into, from, Up(i, q), Up(j, p), ws)
        BY <2>1, ExchangeWrites
      <3>2. Sound(is, "File", ws)
        BY <1>5, <2>1, <3>1, SoundExchange
      <3> HIDE DEF is, ws
      <3> QED BY <3>2 DEF Sure
    <2>2. CASE ~(Told(i) /\ Told(j))
      BY <1>5, <2>2, ExchangeTorn
    <2> QED BY <2>1, <2>2
  <1> HIDE DEF is, ws
  <1> QED BY <1>1, <1>6, SureStep

(* The other directory has its content, if there is anything to be moved.  *)
LEMMA DoesMove ==
  ASSUME Inv, NEW p \in LinkedDirs, ~TornContent(p), NEW m \in Names,
         NEW q \in LinkedDirs, NEW n \in Names, Unreadable(q, n) = NoEntry,
         UNCHANGED limit, ~TornInode(FUSE_ROOT_ID), rename(p, m, q, n) \/ exchange(p, m, q, n)
  PROVE  Fine
  <1>1. /\ p \in Inodes /\ Exists(p) /\ IsDir(p) /\ q \in Inodes /\ Exists(q) /\ IsDir(q)
        /\ HasContent(q) \/ q = FUSE_ROOT_ID
    BY LinkedFacts
  <1>2. lookup_name(p, m) # NoEntry
    BY DEF rename, exchange
  <1>3. HasContent(p)
    BY <1>1, <1>2, FoundUnread
  <1>4. HasContent(q)
    <2>1. p \in Linked
      BY DEF LinkedDirs
    <2>2. HasContent(FUSE_ROOT_ID)
      BY <1>3, <2>1, BareAlone
    <2> QED BY <1>1, <2>2
  <1>5. ~TornContent(q)
    BY <1>1, UnreadableFacts
  <1>6. IsDirectory(p) /\ IsDirectory(q)
    BY <1>1, <1>3, <1>4, <1>5 DEF IsDirectory
  <1> QED BY <1>6, DoesRename, DoesExchange

LEMMA DoesRequest ==
  ASSUME Inv, session = "up", Request, UNCHANGED limit
  PROVE  Fine
  <1>r. ~TornInode(FUSE_ROOT_ID)
    BY DEF Inv, TornInv
  <1>0. \A p \in LinkedDirs : p \in Inodes /\ MayMakeIn(p) /\ p \in Linked
    BY <1>r, LinkedFacts DEF MayMakeIn, LinkedDirs
  <1>1. ASSUME NEW p \in LinkedDirs, NEW m \in Names, NameRequest(p, m), Unreadable(p, m) = NoEntry
        PROVE  Fine
    <2>0. MayMakeIn(p) /\ ~TornContent(p) /\ p \in Linked
      BY <1>0, <1>1, UnreadableFacts
    <2>1. CASE mknod(p, m) \/ create(p, m) \/ mkdir(p, m)
      BY <1>r, <2>0, <2>1, DoesMake
    <2>3. CASE unlink(p, m) \/ rmdir(p, m)
      BY <1>r, <2>0, <2>3, DoesRemove
    <2>4. ASSUME NEW i \in LinkedFiles, link(i, p, m) PROVE Fine
      BY <1>r, <2>0, <2>4, DoesLink
    <2>5. ASSUME NEW q \in LinkedDirs, NEW n \in Names, Unreadable(q, n) = NoEntry,
                 rename(p, m, q, n) \/ exchange(p, m, q, n)
          PROVE  Fine
      BY <1>r, <2>0, <2>5, DoesMove
    <2> QED BY <1>1, <2>1, <2>3, <2>4, <2>5 DEF NameRequest
  <1>s. ASSUME NEW p \in LinkedDirs, NEW m \in Names, symlink(p, m) PROVE Fine
    BY <1>0, <1>r, <1>s, DoesSymlink
  <1>l. ASSUME NEW p \in LinkedDirs, NEW m \in Names, lookup_panics(p, m) PROVE Fine
    <2>1. Unreadable(p, m) \in damaged /\ ReadPanics(Unreadable(p, m))
      BY <1>0, <1>l, UnreadableFacts DEF lookup_panics
    <2> QED BY <2>1, DoesReadPanic
  <1>2. ASSUME NEW i \in LinkedFiles, open(i) PROVE Fine
    <2>1. i \in Inodes /\ Exists(i) /\ HasContent(i) /\ ~TornInode(i)
      BY <1>2, <1>r, LinkedFacts DEF open, IsFile
    <2> QED BY <1>2, <1>r, <2>1, DoesOpen DEF open
  <1>3. ASSUME NEW i \in LinkedFiles, NEW n \in 0 .. MaxLen, setattr(i, n) \/ setattr_times(i, n)
        PROVE  Fine
    <2>1. n \in Nat /\ i \in Inodes /\ Exists(i) /\ (HasContent(i) \/ inodes[i].kind = "Symlink")
      BY <1>r, LinkedFacts
    <2> QED BY <1>3, <1>r, <2>1, DoesSetattr
  <1>4. ASSUME NEW i \in LinkedDirs, opendir(i) PROVE Fine
    <2>1. i \in Inodes /\ Exists(i) /\ (HasContent(i) \/ i = FUSE_ROOT_ID) /\ ~TornInode(i)
      BY <1>r, LinkedFacts
    <2> QED BY <1>4, <1>r, <2>1, DoesOpen DEF opendir
  <1>d. ASSUME NEW i \in LinkedDirs, readdir_panics(i) PROVE Fine
    <2>1. i \in damaged /\ ReadPanics(i)
      BY <1>0, <1>d DEF readdir_panics, Inv, TornInv
    <2> QED BY <2>1, DoesReadPanic
  <1>5. ASSUME NEW i \in LinkedDirs \cup LinkedFiles, setattr_other(i) PROVE Fine
    <2>1. i \in Inodes /\ Exists(i)
      BY <1>r, LinkedFacts
    <2>2. Handle({i}, <<Touch(i)>>)
      BY <1>5 DEF setattr_other
    <2> QED BY <1>r, <2>1, <2>2, SoundTouch, Handled
  <1>6. ASSUME NEW i \in Inodes, FileRequest(i) PROVE Fine
    BY <1>6, <1>r, DoesFile
  <1> QED BY <1>1, <1>s, <1>l, <1>2, <1>3, <1>4, <1>d, <1>5, <1>6 DEF Request

LEMMA StepFine ==
  ASSUME Inv, Next PROVE Fine
  <1>1. CASE init
    BY <1>1, DoesInit DEF Next
  <1>2. CASE Stop
    BY <1>2, DoesStop DEF Next
  <1>3. CASE session = "up" /\ Request
    BY <1>3, DoesRequest DEF Next
  <1>4. CASE init_panics
    BY <1>4, DoesInitPanic DEF Next
  <1> QED BY <1>1, <1>2, <1>3, <1>4 DEF Next

LEMMA StutterInv == ASSUME Inv, UNCHANGED vars PROVE Inv'
  <1>1. /\ UNCHANGED <<superblock, inodes, contents, torn, damaged, missized, limit>>
        /\ handles' = handles /\ session' = session
    BY DEF vars
  <1>2. handles' \in [Inodes -> Nat]
    BY <1>1, Facts
  <1>3. \A x \in Inodes : handles'[x] <= handles[x]
    BY <1>1, <1>2
  <1>4. session' = "down" => \A x \in Inodes : handles'[x] = 0
    BY <1>1 DEF Inv
  <1> QED BY <1>1, <1>2, <1>3, <1>4, SameInv

(* The invariant, in the words of SimpleFS.  The names in a torn directory *)
(* lead to damaged inodes only.                                            *)
LEMMA InvGives ==
  ASSUME Inv PROVE NumbersFresh /\ OpenFilesKept /\ SizeMatches /\ TreeExact
  <1>b. Before.inodes = inodes /\ Before.contents = contents
    BY DEF Before
  <1>e. \A p, m : EntryIn(Before, p, m) = Entry(p, m)
    BY <1>b DEF EntryIn, Entry
  <1>t. TornInv
    BY DEF Inv
  <1>p. ASSUME NEW i \in Inodes \ damaged PROVE PlacesIn(Before, i) = Places(i)
    <2>1. i # NoEntry
      BY Constants DEF Inodes, NoEntry
    <2>2. ASSUME NEW pm \in Inodes \X Names, Entry(pm[1], pm[2]) = i PROVE ~TornContent(pm[1])
      <3>1. pm[1] \in Inodes /\ pm[2] \in Names
        OBVIOUS
      <3> QED BY <1>t, <2>1, <2>2, <3>1 DEF TornInv
    <2> QED BY <1>b, <1>e, <2>2 DEF PlacesIn, Places, Exists
  <1>1. NumbersFresh
    <2> SUFFICES ASSUME NEW i \in superblock + 1 .. MaxInode
                 PROVE  /\ ~Exists(i) /\ ~HasContent(i) /\ ~TornInode(i) /\ ~TornContent(i)
                        /\ Places(i) = {}
      BY DEF NumbersFresh
    <2>1. superblock \in Nat /\ superblock >= 1 /\ MaxInode \in Nat
      BY Facts, Constants
    <2>2. i \in Inodes /\ i > superblock /\ ~(i <= superblock)
      BY <2>1 DEF Inodes
    <2>3. ~Exists(i) /\ ~HasContent(i)
      BY <2>1, <2>2, Facts DEF Inodes
    <2>4. ASSUME NEW pm \in Inodes \X Names PROVE Entry(pm[1], pm[2]) # i
      <3>1. pm[1] \in Inodes /\ pm[2] \in AllNames
        BY DEF AllNames
      <3> QED BY <2>1, <2>2, <3>1, Facts DEF Inodes
    <2>5. ~TornInode(i) /\ ~TornContent(i)
      BY <1>t, <2>2 DEF TornInv
    <2> QED BY <2>3, <2>4, <2>5 DEF Places
  <1>2. OpenFilesKept
    <2> SUFFICES ASSUME NEW i \in Inodes, handles[i] > 0
                 PROVE  Exists(i) /\ ~TornInode(i) /\ (HasContent(i) \/ i = FUSE_ROOT_ID)
      BY DEF OpenFilesKept
    <2>1. handles[i] # 0
      BY Facts
    <2>2. ~TornInode(i)
      BY <1>t, <2>1 DEF TornInv
    <2> QED BY <2>2, Facts
  <1>3. SizeMatches
    <2> SUFFICES ASSUME NEW i \in Inodes \ (damaged \cup missized), Exists(i), IsFile(i)
                 PROVE  inodes[i].size = contents[i].len
      BY DEF SizeMatches
    <2>1. SizeExactIn(Before, i)
      BY DEF Inv, Exact, ExactBut
    <2> QED BY <1>b, <2>1 DEF SizeExactIn, Exists, IsFile, Data
  <1>4. TreeExact
    <2> SUFFICES ASSUME NEW i \in Inodes \ (damaged \cup {FUSE_ROOT_ID}) PROVE LinksExact(i)
      BY DEF TreeExact
    <2>1. LinksExactIn(Before, i)
      BY DEF Inv, Exact, ExactBut
    <2>2. EntryIn(Before, i, "..") = Entry(i, "..") /\ PlacesIn(Before, i) = Places(i)
      BY <1>e, <1>p
    <2> QED BY <1>b, <2>1, <2>2 DEF LinksExactIn, LinksExact, Exists, HasContent, IsDir
  <1> QED BY <1>1, <1>2, <1>3, <1>4

LEMMA Invariant == Spec => []Inv
  <1>1. Inv /\ [Next]_vars => Inv'
    BY StepFine, StutterInv DEF Fine
  <1> QED BY InitInv, <1>1, PTL DEF Spec

-----------------------------------------------------------------------------
(* allocate_next_inode never gives out a number that is in use or that a   *)
(* readable directory mentions, however many handlers a crash or a panic   *)
(* has cut short and whichever files a crash has torn: for any number of   *)
(* inodes, names, handles and crashes.                                     *)
THEOREM FreshSafety == Spec => []NumbersFresh
  BY Invariant, InvGives, PTL

(* hardlinks is the number of names of every file, a directory has one     *)
(* name and its ".." is the place of it, no name is left without its inode *)
(* and no inode without a name unless it was open at some time.  Crashes   *)
(* come between the writes of filesystem.rs or tear one; excepted are the  *)
(* inodes of the handlers cut short, that of a torn file, and those named  *)
(* in a torn directory.                                                    *)
THEOREM TreeSafety == Spec => []TreeExact
  BY Invariant, InvGives, PTL

(* A file or directory that the kernel has open keeps its attributes,      *)
(* readable, and its content whatever unlink, rmdir and rename do to its   *)
(* names: gc_inode sees a count that is never below the number of open     *)
(* handles.  The root alone may be without content, if a crash cut the     *)
(* first init short.                                                       *)
THEOREM OpenSafety == Spec => []OpenFilesKept
  BY Invariant, InvGives, PTL

(* The size that getattr reports is the length of the file's content,      *)
(* unless a crash cut a handler of the file short or the code itself wrote *)
(* another size: setattr of size and times at once, fallocate64 failing,   *)
(* copy_file_range of nothing to beyond the end.                           *)
THEOREM SizeSafety == Spec => []SizeMatches
  BY Invariant, InvGives, PTL

(* The unwraps and the subtraction of hardlinks in the handlers fail only  *)
(* on a file of an inode that an earlier crash had damaged: one whose      *)
(* handler it cut short, whose file it tore, or that is named in a         *)
(* directory it tore.                                                      *)
THEOREM PanicSafety == Spec => PanicOnlyIfDamaged
  <1>1. Inv /\ [Next]_vars => [panicked' # {} => panicked' \cap damaged # {}]_vars
    BY StepFine DEF Fine
  <1> QED BY Invariant, <1>1, PTL DEF Spec, PanicOnlyIfDamaged
=============================================================================
