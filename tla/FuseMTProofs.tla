---------------------------- MODULE FuseMTProofs ----------------------------
(***************************************************************************)
(* What FuseMT keeps in every reachable state, whatever the names, the     *)
(* paths and the bounds are: the inode table agrees with the lookups of    *)
(* the kernel, generations are fresh, a directory is read exactly, handles *)
(* match, and a pool of one thread transfers in place.  The state falls in *)
(* three parts that do not depend on each other: the table, the            *)
(* directories that are open, and the files that are.                      *)
(***************************************************************************)
EXTENDS FuseMT, FiniteSetTheorems, SequenceTheorems, TLAPS

-----------------------------------------------------------------------------
(* The inode table T, when the kernel holds `held' lookups of each inode.  *)
Entries == [path : Paths \cup {NoPath}, lookups : Nat, generation : Nat]
Tables == [table : Seq(Entries), free_list : Seq(Nat), by_path : [Paths -> Nat]]

FreeListOK(T) ==
  /\ \A a, b \in 1 .. Len(T.free_list) : T.free_list[a] = T.free_list[b] => a = b
  /\ \A a \in 1 .. Len(T.free_list) :
       /\ T.free_list[a] \in 1 .. Len(T.table)
       /\ T.table[T.free_list[a]].path = NoPath
  /\ \A i \in 1 .. Len(T.table) : T.table[i].path = NoPath =>
       \E a \in 1 .. Len(T.free_list) : T.free_list[a] = i

LookupsOK(T, held) ==
  /\ \A i \in Inodes : i > Len(T.table) => held[i] = 0
  /\ \A i \in 1 .. Len(T.table) : i # Root =>
       /\ T.table[i].lookups = held[i]
       /\ T.table[i].path = NoPath <=> held[i] = 0

ByPathOK(T) ==
  \A p \in Paths : T.by_path[p] # NoInode =>
    /\ T.by_path[p] \in 1 .. Len(T.table)
    /\ T.table[T.by_path[p]].path = p

TableOK(T, held) ==
  /\ T \in Tables /\ held \in [Inodes -> Nat]
  /\ Len(T.table) >= 1 /\ 1 .. Len(T.table) \subseteq Inodes
  /\ T.table[Root].path = <<>>
  /\ FreeListOK(T)
  /\ LookupsOK(T, held)
  /\ ByPathOK(T)

TableInv == TableOK(inodes, nlookup) /\ panicked # "forget" /\ limit \in Limits

(* The directories that are open: each entry of the cache has a handle of  *)
(* the target for itself, and holds the list that the kernel is reading.   *)
ReadingOK(l) ==
  IF l.first = NoList
    THEN l.pos = 0 /\ l.seen = <<>> /\ ~l.atEnd
    ELSE /\ l.pos <= Len(l.first)
         /\ l.seen = SubSeq(l.first, 1, l.pos)
         /\ l.atEnd => l.pos = Len(l.first)

DirTypes ==
  /\ directory_cache \in Seq(CacheEntries \cup {Deleted})
  /\ listing \in Seq(Readings \cup {Deleted})
  /\ targetDirs \in Seq(Seq(Names) \cup {NoPath, Deleted})
  /\ Len(directory_cache) = Len(listing)

KeysOK ==
  \A k \in 1 .. Len(listing) : listing[k] = Deleted <=> directory_cache[k] = Deleted

CacheOK ==
  \A k \in 1 .. Len(listing) : listing[k] # Deleted =>
    /\ directory_cache[k].fh \in 1 .. Len(targetDirs)
    /\ targetDirs[directory_cache[k].fh] # Deleted
    /\ directory_cache[k].entries = listing[k].first
    /\ ReadingOK(listing[k])

HandlesOK ==
  /\ \A k, l \in 1 .. Len(listing) :
       /\ listing[k] # Deleted /\ listing[l] # Deleted
       /\ directory_cache[k].fh = directory_cache[l].fh
       => k = l
  /\ \A fh \in 1 .. Len(targetDirs) : targetDirs[fh] # Deleted =>
       \E k \in 1 .. Len(listing) : listing[k] # Deleted /\ directory_cache[k].fh = fh

DirInv == DirTypes /\ KeysOK /\ CacheOK /\ HandlesOK

(* The files that are open, and the requests on them.  With one thread at  *)
(* most, only the first request of the pool can be between its seek and    *)
(* its transfer.                                                           *)
Jobs == [op : {"read", "write", "flush", "fsync"}, fh : Nat, offset : Nat, sought : BOOLEAN]

FileTypes ==
  /\ fds \in Seq(Descriptors \cup {Closed})
  /\ files \in Seq(Nat \cup {Deleted})
  /\ jobs \in Seq(Jobs)
  /\ Len(fds) = Len(files)
  /\ limit \in Limits

FdsOK == \A fh \in 1 .. Len(fds) : fds[fh] = Closed <=> files[fh] = Deleted

JobsOK ==
  \A j \in 1 .. Len(jobs) : jobs[j].fh \in 1 .. Len(fds) /\ fds[jobs[j].fh] # Closed

InPlace ==
  /\ limit.threads = 0 => jobs = <<>>
  /\ limit.threads <= 1 => \A j \in 1 .. Len(jobs) : jobs[j].sought =>
       j = 1 /\ fds[jobs[j].fh].pos = jobs[j].offset

FileInv == FileTypes /\ FdsOK /\ JobsOK /\ InPlace

IInv == TableInv /\ DirInv /\ FileInv

-----------------------------------------------------------------------------
(* Operations of the inode table.                                          *)

LEMMA PathFacts ==
  /\ <<>> \in Paths /\ NoPath \notin Paths /\ Paths \subseteq Seq(Names)
  /\ \A s \in Seq(Names), n \in Names : Append(s, n) # <<>>
  BY InodeTableAssumption, FuseMTAssumption

LEMMA InodesAre == Inodes \subseteq Nat
  BY FuseMTAssumption DEF Inodes

(* The entry that is handed out: an unused one, and never that of the root. *)
LEMMA NextInodeIs ==
  ASSUME NEW T, NEW held, TableOK(T, held)
  PROVE  /\ NextInode(T) \in Nat \ {0, Root}
         /\ T.free_list = <<>> => NextInode(T) = Len(T.table) + 1
         /\ T.free_list # <<>> =>
              /\ NextInode(T) = T.free_list[1] /\ NextInode(T) = Head(T.free_list)
              /\ NextInode(T) \in 1 .. Len(T.table)
              /\ T.table[NextInode(T)].path = NoPath
              /\ T.table[NextInode(T)].lookups = 0
              /\ held[NextInode(T)] = 0
  <1>1. /\ T.free_list \in Seq(Nat) /\ Len(T.table) \in Nat /\ Len(T.table) >= 1
        /\ T.table[Root].path # NoPath
    BY PathFacts DEF TableOK, Tables
  <1>2. CASE T.free_list = <<>>
    BY <1>1, <1>2 DEF NextInode, Root
  <1>3. CASE T.free_list # <<>>
    <2>1. 1 \in 1 .. Len(T.free_list) /\ NextInode(T) = T.free_list[1]
      BY <1>1, <1>3 DEF NextInode
    <2>2. /\ T.free_list[1] \in 1 .. Len(T.table)
          /\ T.table[T.free_list[1]].path = NoPath
      BY <2>1 DEF TableOK, FreeListOK
    <2>3. T.free_list[1] # Root
      BY <1>1, <2>2
    <2>4. held[T.free_list[1]] = 0 /\ T.table[T.free_list[1]].lookups = 0
      BY <2>2, <2>3 DEF TableOK, LookupsOK
    <2> QED BY <1>1, <1>3, <2>1, <2>2, <2>3, <2>4 DEF NextInode, Root
  <1> QED BY <1>2, <1>3

(* A table with one entry changed.                                         *)
LEMMA EntryChanged ==
  ASSUME NEW T \in Tables, NEW i \in 1 .. Len(T.table), NEW e \in Entries
  PROVE  LET t == [T.table EXCEPT ![i] = e]
         IN  /\ t \in Seq(Entries) /\ Len(t) = Len(T.table) /\ t[i] = e
             /\ \A j \in 1 .. Len(T.table) : j # i => t[j] = T.table[j]
  BY DEF Tables

LEMMA EntryTyped ==
  ASSUME NEW T \in Tables, NEW i \in 1 .. Len(T.table)
  PROVE  /\ T.table[i] \in Entries
         /\ T.table[i].path \in Paths \cup {NoPath}
         /\ T.table[i].lookups \in Nat /\ T.table[i].generation \in Nat
  <1>1. T.table[i] \in Entries
    BY DEF Tables
  <1> QED BY <1>1 DEF Entries

LEMMA EntryIs ==
  ASSUME NEW p \in Paths \cup {NoPath}, NEW n \in Nat, NEW g \in Nat
  PROVE  LET e == [path |-> p, lookups |-> n, generation |-> g]
         IN  e \in Entries /\ e.path = p /\ e.lookups = n /\ e.generation = g
  BY DEF Entries

(* U is T with another entry for i.                                        *)
Changed(T, U, i, p, n, g) ==
  /\ U \in Tables /\ U.by_path = T.by_path /\ U.free_list = T.free_list
  /\ Len(U.table) = Len(T.table)
  /\ U.table[i].path = p /\ U.table[i].lookups = n /\ U.table[i].generation = g
  /\ \A j \in 1 .. Len(T.table) : j # i => U.table[j] = T.table[j]

LEMMA SetEntry ==
  ASSUME NEW T \in Tables, NEW i \in 1 .. Len(T.table), NEW e \in Entries
  PROVE  Changed(T, [T EXCEPT !.table = [T.table EXCEPT ![i] = e]], i,
                 e.path, e.lookups, e.generation)
  <1> DEFINE t == [T.table EXCEPT ![i] = e]
  <1>1. /\ t \in Seq(Entries) /\ Len(t) = Len(T.table) /\ t[i] = e
        /\ \A j \in 1 .. Len(T.table) : j # i => t[j] = T.table[j]
    BY EntryChanged
  <1> HIDE DEF t
  <1>2. LET U == [T EXCEPT !.table = t]
        IN  /\ U \in Tables /\ U.by_path = T.by_path /\ U.free_list = T.free_list
            /\ U.table = t
    BY <1>1 DEF Tables
  <1> QED BY <1>1, <1>2 DEF Changed, t

LEMMA SetPath ==
  ASSUME NEW T \in Tables, NEW i \in 1 .. Len(T.table), NEW p \in Paths \cup {NoPath}
  PROVE  Changed(T, [T EXCEPT !.table[i].path = p], i,
                 p, T.table[i].lookups, T.table[i].generation)
  <1> DEFINE e == [T.table[i] EXCEPT !.path = p]
  <1>1. /\ e \in Entries /\ e.path = p
        /\ e.lookups = T.table[i].lookups /\ e.generation = T.table[i].generation
    BY EntryTyped DEF Entries
  <1>2. [T EXCEPT !.table[i].path = p] = [T EXCEPT !.table = [T.table EXCEPT ![i] = e]]
    OBVIOUS
  <1> HIDE DEF e
  <1> QED BY <1>1, <1>2, SetEntry

LEMMA SetLookups ==
  ASSUME NEW T \in Tables, NEW i \in 1 .. Len(T.table), NEW n \in Nat
  PROVE  Changed(T, [T EXCEPT !.table[i].lookups = n], i,
                 T.table[i].path, n, T.table[i].generation)
  <1> DEFINE e == [T.table[i] EXCEPT !.lookups = n]
  <1>1. /\ e \in Entries /\ e.path = T.table[i].path
        /\ e.lookups = n /\ e.generation = T.table[i].generation
    BY EntryTyped DEF Entries
  <1>2. [T EXCEPT !.table[i].lookups = n] = [T EXCEPT !.table = [T.table EXCEPT ![i] = e]]
    OBVIOUS
  <1> HIDE DEF e
  <1> QED BY <1>1, <1>2, SetEntry

LEMMA SetGeneration ==
  ASSUME NEW T \in Tables, NEW i \in 1 .. Len(T.table), NEW n \in Nat
  PROVE  Changed(T, [T EXCEPT !.table[i].generation = n], i,
                 T.table[i].path, T.table[i].lookups, n)
  <1> DEFINE e == [T.table[i] EXCEPT !.generation = n]
  <1>1. /\ e \in Entries /\ e.path = T.table[i].path
        /\ e.lookups = T.table[i].lookups /\ e.generation = n
    BY EntryTyped DEF Entries
  <1>2. [T EXCEPT !.table[i].generation = n] = [T EXCEPT !.table = [T.table EXCEPT ![i] = e]]
    OBVIOUS
  <1> HIDE DEF e
  <1> QED BY <1>1, <1>2, SetEntry

LEMMA SetByPath ==
  ASSUME NEW T \in Tables, NEW p \in Paths, NEW n \in Nat
  PROVE  LET U == [T EXCEPT !.by_path[p] = n]
         IN  /\ U \in Tables /\ U.table = T.table /\ U.free_list = T.free_list
             /\ U.by_path = [T.by_path EXCEPT ![p] = n]
  BY DEF Tables

(* get_inode_entry makes room for NextInode.                               *)
LEMMA GetEntry ==
  ASSUME NEW T, NEW held, TableOK(T, held)
  PROVE  LET G == get_inode_entry(T)
             i == NextInode(T)
         IN  /\ G \in Tables /\ G.by_path = T.by_path
             /\ G.free_list = (IF T.free_list = <<>> THEN <<>> ELSE Tail(T.free_list))
             /\ Len(G.table) = (IF T.free_list = <<>> THEN Len(T.table) + 1
                                                      ELSE Len(T.table))
             /\ i \in 1 .. Len(G.table)
             /\ \A j \in 1 .. Len(T.table) : j # i => G.table[j] = T.table[j]
             /\ G.table[i].path = NoPath /\ G.table[i].lookups = 0
             /\ i \in 1 .. Len(T.table) =>
                  G.table[i].generation = T.table[i].generation + 1
  <1> DEFINE G == get_inode_entry(T)
             i == NextInode(T)
  <1>1. T \in Tables
    BY DEF TableOK
  <1>2. CASE T.free_list = <<>>
    <2> DEFINE e == [path |-> NoPath, lookups |-> 0, generation |-> 0]
    <2>1. e \in Entries /\ e.path = NoPath /\ e.lookups = 0
      BY DEF Entries
    <2>2. G = [T EXCEPT !.table = Append(T.table, e)] /\ i = Len(T.table) + 1
      BY <1>2 DEF get_inode_entry, NextInode
    <2> DEFINE t == Append(T.table, e)
    <2> HIDE DEF e, G, i
    <2>4. T.table \in Seq(Entries) /\ t \in Seq(Entries)
      BY <1>1, <2>1 DEF Tables
    <2> HIDE DEF t
    <2>5. G = [T EXCEPT !.table = t]
      BY <2>2 DEF t
    <2>3. /\ G \in Tables /\ G.by_path = T.by_path /\ G.free_list = <<>>
          /\ G.table = t
      BY <1>1, <1>2, <2>4, <2>5 DEF Tables
    <2> USE DEF t
    <2> QED BY <1>2, <2>1, <2>2, <2>3, <2>4 DEF G, i
  <1>3. CASE T.free_list # <<>>
    <2>1. i \in 1 .. Len(T.table) /\ T.table[i].path = NoPath /\ T.table[i].lookups = 0
      BY <1>3, NextInodeIs
    <2> DEFINE g == T.table[i].generation + 1
               A == [T EXCEPT !.table[i].generation = g]
    <2>2. G = [A EXCEPT !.free_list = Tail(T.free_list)]
      BY <1>1, <1>3 DEF get_inode_entry, NextInode, Tables
    <2> HIDE DEF G, i
    <2>6. g \in Nat
      BY <1>1, <2>1, EntryTyped
    <2> HIDE DEF g
    <2>3. Changed(T, A, i, NoPath, 0, g)
      BY <1>1, <2>1, <2>6, SetGeneration
    <2>4. Tail(T.free_list) \in Seq(Nat)
      BY <1>1, <1>3 DEF Tables
    <2> HIDE DEF A
    <2>5. /\ G \in Tables /\ G.by_path = A.by_path /\ G.table = A.table
          /\ G.free_list = Tail(T.free_list)
      BY <2>2, <2>3, <2>4 DEF Tables, Changed
    <2> QED BY <1>3, <2>1, <2>3, <2>5 DEF G, i, g, Changed
  <1> QED BY <1>2, <1>3

(* U is T after NextInode was handed out for p, with one lookup.           *)
Allocated(T, U, p) ==
  LET i == NextInode(T)
  IN  /\ U \in Tables
      /\ U.free_list = (IF T.free_list = <<>> THEN <<>> ELSE Tail(T.free_list))
      /\ Len(U.table) = (IF T.free_list = <<>> THEN Len(T.table) + 1 ELSE Len(T.table))
      /\ i \in 1 .. Len(U.table)
      /\ \A j \in 1 .. Len(T.table) : j # i => U.table[j] = T.table[j]
      /\ U.table[i].path = p /\ U.table[i].lookups = 1
      /\ i \in 1 .. Len(T.table) => U.table[i].generation = T.table[i].generation + 1
      /\ U.by_path = [T.by_path EXCEPT ![p] = i]

LEMMA AddIs ==
  ASSUME NEW T, NEW held, TableOK(T, held), NEW p \in Paths
  PROVE  Allocated(T, add(T, p), p)
  <1> DEFINE G == get_inode_entry(T)
             i == NextInode(T)
             A == [G EXCEPT !.table[i].path = p]
             B == [A EXCEPT !.table[i].lookups = 1]
             C == [B EXCEPT !.by_path[p] = i]
  <1>1. add(T, p) = C
    BY DEF add
  <1>2. G \in Tables /\ i \in 1 .. Len(G.table) /\ i \in Nat
    BY GetEntry, NextInodeIs
  <1>3. /\ G.by_path = T.by_path
        /\ G.free_list = (IF T.free_list = <<>> THEN <<>> ELSE Tail(T.free_list))
        /\ Len(G.table) = (IF T.free_list = <<>> THEN Len(T.table) + 1 ELSE Len(T.table))
        /\ \A j \in 1 .. Len(T.table) : j # i => G.table[j] = T.table[j]
        /\ i \in 1 .. Len(T.table) => G.table[i].generation = T.table[i].generation + 1
    BY GetEntry
  <1> HIDE DEF G, i
  <1>4. Changed(G, A, i, p, G.table[i].lookups, G.table[i].generation)
    BY <1>2, SetPath
  <1> HIDE DEF A
  <1>5. Changed(A, B, i, p, 1, G.table[i].generation)
    <2>1. /\ A \in Tables /\ i \in 1 .. Len(A.table) /\ A.table[i].path = p
          /\ A.table[i].generation = G.table[i].generation
      BY <1>2, <1>4 DEF Changed
    <2>2. Changed(A, B, i, A.table[i].path, 1, A.table[i].generation)
      BY <2>1, SetLookups
    <2> QED BY <2>1, <2>2
  <1> HIDE DEF B
  <1>6. /\ C \in Tables /\ C.table = B.table /\ C.free_list = B.free_list
        /\ C.by_path = [B.by_path EXCEPT ![p] = i]
    BY <1>2, <1>5, SetByPath DEF Changed
  <1> HIDE DEF C
  <1>7. Len(T.table) \in Nat
    BY DEF TableOK
  <1>8. \A j \in 1 .. Len(T.table) : j \in 1 .. Len(G.table)
    BY <1>3, <1>7
  <1>9. \A j \in 1 .. Len(T.table) : j # i => C.table[j] = T.table[j]
    BY <1>3, <1>4, <1>5, <1>6, <1>8 DEF Changed
  <1> QED BY <1>1, <1>2, <1>3, <1>4, <1>5, <1>6, <1>9 DEF Allocated, Changed, i

(* What a lookup of a path without inode does.                             *)
LEMMA LookupIs ==
  ASSUME NEW T, NEW held, TableOK(T, held), NEW p \in Paths,
         T.by_path[p] = NoInode
  PROVE  /\ add_or_get(T, p).by_path[p] = NextInode(T)
         /\ Allocated(T, lookup_inc(add_or_get(T, p), NextInode(T)), p)
  <1> DEFINE G == get_inode_entry(T)
             i == NextInode(T)
             A == [G EXCEPT !.table[i].path = p]
             B == [A EXCEPT !.by_path[p] = i]
             n == B.table[i].lookups + 1
             C == [B EXCEPT !.table[i].lookups = n]
  <1>1. add_or_get(T, p) = B
    BY DEF add_or_get
  <1>2. i # Root /\ lookup_inc(B, i) = C
    BY NextInodeIs DEF lookup_inc
  <1>3. G \in Tables /\ i \in 1 .. Len(G.table) /\ i \in Nat
    BY GetEntry, NextInodeIs
  <1>4. /\ G.by_path = T.by_path /\ G.table[i].lookups = 0
        /\ G.free_list = (IF T.free_list = <<>> THEN <<>> ELSE Tail(T.free_list))
        /\ Len(G.table) = (IF T.free_list = <<>> THEN Len(T.table) + 1 ELSE Len(T.table))
        /\ \A j \in 1 .. Len(T.table) : j # i => G.table[j] = T.table[j]
        /\ i \in 1 .. Len(T.table) => G.table[i].generation = T.table[i].generation + 1
    BY GetEntry
  <1> HIDE DEF G, i
  <1>5. Changed(G, A, i, p, 0, G.table[i].generation)
    BY <1>3, <1>4, SetPath
  <1> HIDE DEF A
  <1>6. /\ B \in Tables /\ B.table = A.table /\ B.free_list = A.free_list
        /\ B.by_path = [A.by_path EXCEPT ![p] = i] /\ B.by_path[p] = i
    <2>1. A \in Tables /\ A.by_path \in [Paths -> Nat]
      BY <1>5 DEF Changed, Tables
    <2> QED BY <1>3, <2>1, SetByPath
  <1> HIDE DEF B
  <1>7. Changed(B, C, i, p, 1, G.table[i].generation)
    <2>1. i \in 1 .. Len(B.table) /\ n = 1
          /\ B.table[i].path = p /\ B.table[i].generation = G.table[i].generation
      BY <1>3, <1>5, <1>6 DEF Changed
    <2> HIDE DEF n
    <2>2. Changed(B, C, i, B.table[i].path, n, B.table[i].generation)
      BY <1>6, <2>1, SetLookups
    <2> QED BY <2>1, <2>2
  <1> HIDE DEF C
  <1>8. Len(T.table) \in Nat
    BY DEF TableOK
  <1>9. \A j \in 1 .. Len(T.table) : j \in 1 .. Len(G.table)
    BY <1>4, <1>8
  <1>10. \A j \in 1 .. Len(T.table) : j # i => C.table[j] = T.table[j]
    BY <1>4, <1>5, <1>6, <1>7, <1>9 DEF Changed
  <1>11. Allocated(T, C, p)
    BY <1>3, <1>4, <1>5, <1>6, <1>7, <1>10 DEF Allocated, Changed, i
  <1> QED BY <1>1, <1>2, <1>6, <1>11 DEF i

(* Generations from one table to the next, when the lookups that the       *)
(* kernel holds change from `held' to `now'.                               *)
Fresh(T, held, U, now) ==
  \A j \in 1 .. Len(T.table) : j # Root =>
    U.table[j].generation =
      IF held[j] = 0 /\ now[j] > 0 THEN T.table[j].generation + 1
                                   ELSE T.table[j].generation

(* A new inode keeps the table exact, and gets a new generation if it was  *)
(* in use before.                                                          *)
LEMMA AllocatedOK ==
  ASSUME NEW T, NEW held, TableOK(T, held), NEW U, NEW p \in Paths,
         NextInode(T) \in Inodes, Allocated(T, U, p), NEW now,
         now = [held EXCEPT ![NextInode(T)] = @ + 1]
  PROVE  TableOK(U, now) /\ Fresh(T, held, U, now)
  <1> DEFINE i == NextInode(T)
             n == Len(T.table)
  <1>1. /\ n \in Nat /\ n >= 1 /\ 1 .. n \subseteq Inodes /\ held \in [Inodes -> Nat]
        /\ T.free_list \in Seq(Nat) /\ T.by_path \in [Paths -> Nat]
        /\ T.table[Root].path = <<>> /\ NoPath \notin Paths /\ p # NoPath
    BY PathFacts DEF TableOK, Tables
  <1>2. /\ i \in Nat \ {0, Root}
        /\ T.free_list = <<>> => i = n + 1
        /\ T.free_list # <<>> =>
             /\ i = T.free_list[1] /\ i \in 1 .. n
             /\ T.table[i].path = NoPath /\ T.table[i].lookups = 0 /\ held[i] = 0
    BY NextInodeIs
  <1>3. /\ U \in Tables /\ U.table[i].path = p /\ U.table[i].lookups = 1
        /\ U.free_list = (IF T.free_list = <<>> THEN <<>> ELSE Tail(T.free_list))
        /\ Len(U.table) = (IF T.free_list = <<>> THEN n + 1 ELSE n)
        /\ i \in 1 .. Len(U.table)
        /\ \A j \in 1 .. n : j # i => U.table[j] = T.table[j]
        /\ i \in 1 .. n => U.table[i].generation = T.table[i].generation + 1
        /\ U.by_path = [T.by_path EXCEPT ![p] = i]
    BY DEF Allocated
  <1>4. i \in Inodes /\ now = [held EXCEPT ![i] = @ + 1]
    OBVIOUS
  <1> HIDE DEF i
  <1>5. held[i] = 0
    BY <1>1, <1>2, <1>4 DEF TableOK, LookupsOK
  <1>6. /\ now \in [Inodes -> Nat] /\ now[i] = 1
        /\ \A j \in Inodes : j # i => now[j] = held[j]
    BY <1>1, <1>4, <1>5
  <1> HIDE DEF n
  <1>7. /\ 1 .. Len(U.table) = 1 .. n \cup {i} /\ Len(U.table) \in Nat
        /\ Len(U.table) >= 1
    BY <1>1, <1>2, <1>3
  <1>8. U.table[Root].path = <<>>
    <2>1. Root \in 1 .. n /\ Root # i
      BY <1>1, <1>2 DEF Root
    <2> QED BY <2>1, <1>1, <1>3
  <1>9. FreeListOK(U)
    <2>1. CASE T.free_list = <<>>
      <3>1. U.free_list = <<>> /\ Len(U.free_list) = 0
        BY <2>1, <1>3
      <3>2. \A j \in 1 .. n : T.table[j].path # NoPath
        BY <2>1 DEF TableOK, FreeListOK, n
      <3>3. \A j \in 1 .. Len(U.table) : U.table[j].path # NoPath
        BY <3>2, <1>1, <1>3, <1>7
      <3> QED BY <3>1, <3>3 DEF FreeListOK
    <2>2. CASE T.free_list # <<>>
      <3> DEFINE F == T.free_list
                 f == U.free_list
      <3>1. /\ Len(F) \in Nat /\ Len(F) >= 1 /\ Len(f) = Len(F) - 1
            /\ \A a \in 1 .. Len(f) : f[a] = F[a + 1]
            /\ i = F[1]
        BY <1>1, <1>2, <1>3, <2>2
      <3>2. /\ \A a, b \in 1 .. Len(F) : F[a] = F[b] => a = b
            /\ \A a \in 1 .. Len(F) : F[a] \in 1 .. n /\ T.table[F[a]].path = NoPath
            /\ \A j \in 1 .. n : T.table[j].path = NoPath =>
                 \E a \in 1 .. Len(F) : F[a] = j
        BY DEF TableOK, FreeListOK, n
      <3> HIDE DEF F, f
      <3>3. \A a \in 1 .. Len(f) : a + 1 \in 1 .. Len(F) /\ a + 1 # 1
        BY <3>1
      <3>4. \A a, b \in 1 .. Len(f) : f[a] = f[b] => a = b
        BY <3>1, <3>2, <3>3
      <3>5. \A a \in 1 .. Len(f) : f[a] \in 1 .. n /\ f[a] # i
                                   /\ U.table[f[a]].path = NoPath
        BY <3>1, <3>2, <3>3, <1>3
      <3>6. ASSUME NEW j \in 1 .. Len(U.table), U.table[j].path = NoPath
            PROVE  \E a \in 1 .. Len(f) : f[a] = j
        <4>1. j # i /\ j \in 1 .. n
          BY <3>6, <1>1, <1>3, <1>7
        <4>2. PICK a \in 1 .. Len(F) : F[a] = j
          BY <3>2, <3>6, <4>1, <1>3
        <4>3. a - 1 \in 1 .. Len(f) /\ (a - 1) + 1 = a
          BY <3>1, <4>1, <4>2
        <4> QED BY <3>1, <4>2, <4>3
      <3> QED BY <3>4, <3>5, <3>6, <1>7 DEF FreeListOK, f
    <2> QED BY <2>1, <2>2
  <1>10. LookupsOK(U, now)
    <2>1. \A j \in Inodes : j > Len(U.table) => now[j] = 0
      <3> SUFFICES ASSUME NEW j \in Inodes, j > Len(U.table) PROVE now[j] = 0
        OBVIOUS
      <3>1. j # i /\ j > n
        BY <1>1, <1>3, <1>7, InodesAre
      <3> QED BY <3>1, <1>6 DEF TableOK, LookupsOK, n
    <2>2. ASSUME NEW j \in 1 .. Len(U.table), j # Root
          PROVE  /\ U.table[j].lookups = now[j]
                 /\ U.table[j].path = NoPath <=> now[j] = 0
      <3>1. CASE j = i
        BY <3>1, <1>1, <1>3, <1>6
      <3>2. CASE j # i
        <4>1. j \in 1 .. n /\ U.table[j] = T.table[j] /\ now[j] = held[j]
          BY <3>2, <1>1, <1>3, <1>6, <1>7
        <4> QED BY <4>1, <2>2 DEF TableOK, LookupsOK, n
      <3> QED BY <3>1, <3>2
    <2> QED BY <2>1, <2>2 DEF LookupsOK
  <1>11. ByPathOK(U)
    <2> SUFFICES ASSUME NEW q \in Paths, U.by_path[q] # NoInode
                 PROVE  /\ U.by_path[q] \in 1 .. Len(U.table)
                        /\ U.table[U.by_path[q]].path = q
      BY DEF ByPathOK
    <2>1. CASE q = p
      BY <2>1, <1>1, <1>3
    <2>2. CASE q # p
      <3>1. U.by_path[q] = T.by_path[q]
        BY <2>2, <1>1, <1>3
      <3>2. T.by_path[q] \in 1 .. n /\ T.table[T.by_path[q]].path = q
        BY <3>1 DEF TableOK, ByPathOK, n
      <3>3. T.by_path[q] # i
        BY <3>2, <1>1, <1>2
      <3> QED BY <3>1, <3>2, <3>3, <1>3, <1>7
    <2> QED BY <2>1, <2>2
  <1>12. TableOK(U, now)
    BY <1>1, <1>3, <1>4, <1>6, <1>7, <1>8, <1>9, <1>10, <1>11 DEF TableOK
  <1>13. Fresh(T, held, U, now)
    <2> SUFFICES ASSUME NEW j \in 1 .. n
                 PROVE  U.table[j].generation =
                          IF held[j] = 0 /\ now[j] > 0 THEN T.table[j].generation + 1
                                                       ELSE T.table[j].generation
      BY DEF Fresh, n
    <2>1. CASE j = i
      BY <2>1, <1>3, <1>5, <1>6
    <2>2. CASE j # i
      <3>1. now[j] = held[j] /\ held[j] \in Nat /\ U.table[j] = T.table[j]
        BY <2>2, <1>1, <1>3, <1>6
      <3> QED BY <3>1
    <2> QED BY <2>1, <2>2
  <1> QED BY <1>12, <1>13

(* The free list is exact as long as the same entries have no path.        *)
LEMMA SameFree ==
  ASSUME NEW T, FreeListOK(T), NEW U, U.free_list = T.free_list,
         Len(U.table) = Len(T.table),
         \A j \in 1 .. Len(T.table) :
           U.table[j].path = NoPath <=> T.table[j].path = NoPath
  PROVE  FreeListOK(U)
  <1> DEFINE F == T.free_list
  <1>1. \A a, b \in 1 .. Len(F) : F[a] = F[b] => a = b
    BY DEF FreeListOK
  <1>2. \A a \in 1 .. Len(F) : F[a] \in 1 .. Len(T.table) /\ U.table[F[a]].path = NoPath
    BY DEF FreeListOK
  <1>3. \A j \in 1 .. Len(T.table) : U.table[j].path = NoPath =>
          \E a \in 1 .. Len(F) : F[a] = j
    BY DEF FreeListOK
  <1> QED BY <1>1, <1>2, <1>3 DEF FreeListOK

(* The number of lookups of an inode in use changes, and stays positive.   *)
LEMMA CountOK ==
  ASSUME NEW T, NEW held, TableOK(T, held), NEW U,
         NEW i \in 1 .. Len(T.table), i # Root, T.table[i].path # NoPath,
         NEW n \in Nat, n > 0, NEW now, now = [held EXCEPT ![i] = n],
         Changed(T, U, i, T.table[i].path, n, T.table[i].generation)
  PROVE  TableOK(U, now) /\ Fresh(T, held, U, now)
  <1>1. /\ T \in Tables /\ held \in [Inodes -> Nat] /\ Len(T.table) \in Nat
        /\ Len(T.table) >= 1 /\ 1 .. Len(T.table) \subseteq Inodes
        /\ T.table[Root].path = <<>>
    BY DEF TableOK, Tables
  <1>2. /\ U \in Tables /\ U.by_path = T.by_path /\ U.free_list = T.free_list
        /\ Len(U.table) = Len(T.table)
        /\ U.table[i].path = T.table[i].path /\ U.table[i].lookups = n
        /\ U.table[i].generation = T.table[i].generation
        /\ \A j \in 1 .. Len(T.table) : j # i => U.table[j] = T.table[j]
    BY DEF Changed
  <1>3. /\ now \in [Inodes -> Nat] /\ now[i] = n
        /\ \A j \in Inodes : j # i => now[j] = held[j]
    BY <1>1
  <1>4. \A j \in 1 .. Len(T.table) :
          U.table[j].path = T.table[j].path
          /\ U.table[j].generation = T.table[j].generation
    BY <1>2
  <1>5. U.table[Root].path = <<>>
    <2>1. Root \in 1 .. Len(T.table)
      BY <1>1 DEF Root
    <2> QED BY <2>1, <1>1, <1>4
  <1>6. FreeListOK(U)
    BY <1>2, <1>4, SameFree DEF TableOK
  <1>7. ByPathOK(U)
    BY <1>2, <1>4 DEF TableOK, ByPathOK
  <1>8. held[i] # 0
    BY DEF TableOK, LookupsOK
  <1>9. LookupsOK(U, now)
    <2>1. ASSUME NEW j \in Inodes, j > Len(U.table) PROVE now[j] = 0
      <3>1. j # i /\ j > Len(T.table)
        BY <1>1, <1>2, <2>1
      <3> QED BY <3>1, <1>3 DEF TableOK, LookupsOK
    <2>2. ASSUME NEW j \in 1 .. Len(U.table), j # Root
          PROVE  /\ U.table[j].lookups = now[j]
                 /\ U.table[j].path = NoPath <=> now[j] = 0
      <3>1. CASE j = i
        BY <3>1, <1>2, <1>3
      <3>2. CASE j # i
        <4>1. j \in 1 .. Len(T.table) /\ U.table[j] = T.table[j] /\ now[j] = held[j]
          BY <3>2, <1>1, <1>2, <1>3
        <4> QED BY <4>1, <2>2 DEF TableOK, LookupsOK
      <3> QED BY <3>1, <3>2
    <2> QED BY <2>1, <2>2 DEF LookupsOK
  <1>10. Fresh(T, held, U, now)
    <2> SUFFICES ASSUME NEW j \in 1 .. Len(T.table)
                 PROVE  ~ (held[j] = 0 /\ now[j] > 0)
      BY <1>4 DEF Fresh
    <2>1. CASE j = i
      BY <2>1, <1>8
    <2>2. CASE j # i
      <3>1. now[j] = held[j]
        BY <2>2, <1>1, <1>3
      <3> QED BY <3>1
    <2> QED BY <2>1, <2>2
  <1> QED BY <1>1, <1>2, <1>3, <1>5, <1>6, <1>7, <1>9, <1>10 DEF TableOK

(* lookup_inc of an inode that a path leads to.                            *)
LEMMA LookupIncOK ==
  ASSUME NEW T, NEW held, TableOK(T, held), NEW p \in Paths,
         T.by_path[p] # NoInode, p # <<>>, NEW now,
         now = [held EXCEPT ![T.by_path[p]] = @ + 1]
  PROVE  LET U == lookup_inc(T, T.by_path[p])
         IN  TableOK(U, now) /\ Fresh(T, held, U, now)
  <1> DEFINE i == T.by_path[p]
             n == T.table[i].lookups + 1
             U == [T EXCEPT !.table[i].lookups = n]
  <1>1. T \in Tables /\ T.table[Root].path = <<>> /\ p # NoPath
        /\ held \in [Inodes -> Nat] /\ 1 .. Len(T.table) \subseteq Inodes
    BY PathFacts DEF TableOK
  <1>2. i \in 1 .. Len(T.table) /\ T.table[i].path = p
    BY DEF TableOK, ByPathOK
  <1>3. i # Root
    BY <1>1, <1>2
  <1>4. lookup_inc(T, i) = U
    BY <1>3 DEF lookup_inc
  <1>5. now = [held EXCEPT ![i] = @ + 1]
    OBVIOUS
  <1> HIDE DEF i
  <1>6. n \in Nat /\ n > 0
    BY <1>1, <1>2, EntryTyped
  <1>7. n = held[i] + 1
    BY <1>2, <1>3 DEF TableOK, LookupsOK
  <1>8. now = [held EXCEPT ![i] = n]
    BY <1>1, <1>2, <1>5, <1>7
  <1> HIDE DEF n
  <1>9. Changed(T, U, i, T.table[i].path, n, T.table[i].generation)
    BY <1>1, <1>2, <1>6, SetLookups
  <1> HIDE DEF U
  <1>10. TableOK(U, now) /\ Fresh(T, held, U, now)
    BY <1>1, <1>2, <1>3, <1>6, <1>8, <1>9, CountOK
  <1> QED BY <1>4, <1>10 DEF i

(* Paths that lead nowhere any more.                                       *)
LEMMA UnlinkOK ==
  ASSUME NEW T, NEW held, TableOK(T, held), NEW p \in Paths
  PROVE  LET U == [T EXCEPT !.by_path[p] = NoInode]
         IN  /\ TableOK(U, held) /\ Fresh(T, held, U, held)
             /\ U.by_path[p] = NoInode /\ U.table = T.table
             /\ U.free_list = T.free_list
             /\ \A q \in Paths : q # p => U.by_path[q] = T.by_path[q]
  <1> DEFINE U == [T EXCEPT !.by_path[p] = NoInode]
  <1>1. T \in Tables /\ T.by_path \in [Paths -> Nat] /\ held \in [Inodes -> Nat]
        /\ 1 .. Len(T.table) \subseteq Inodes
    BY DEF TableOK, Tables
  <1>2. /\ U \in Tables /\ U.table = T.table /\ U.free_list = T.free_list
        /\ U.by_path = [T.by_path EXCEPT ![p] = NoInode]
    <2>1. NoInode \in Nat
      BY DEF NoInode
    <2> QED BY <2>1, <1>1, SetByPath
  <1> HIDE DEF U
  <1>3. /\ U.by_path[p] = NoInode
        /\ \A q \in Paths : q # p => U.by_path[q] = T.by_path[q]
    BY <1>1, <1>2
  <1>4. ByPathOK(U)
    BY <1>2, <1>3 DEF TableOK, ByPathOK
  <1>5. FreeListOK(U) /\ LookupsOK(U, held)
    BY <1>2 DEF TableOK, FreeListOK, LookupsOK
  <1>6. TableOK(U, held)
    BY <1>2, <1>4, <1>5 DEF TableOK
  <1>7. Fresh(T, held, U, held)
    <2>1. \A j \in 1 .. Len(T.table) : ~ (held[j] = 0 /\ held[j] > 0)
      BY <1>1
    <2> QED BY <2>1, <1>2 DEF Fresh
  <1> QED BY <1>2, <1>3, <1>6, <1>7 DEF U

(* forget_n of lookups that the kernel holds, some or all of them.         *)
LEMMA ForgetOK ==
  ASSUME NEW T, NEW held, TableOK(T, held), NEW i \in Inodes, i # Root,
         NEW n \in 1 .. held[i], NEW now, now = [held EXCEPT ![i] = @ - n]
  PROVE  /\ ~ForgetFails(T, i, n)
         /\ TableOK(forget_n(T, i, n), now) /\ Fresh(T, held, forget_n(T, i, n), now)
  <1>1. /\ T \in Tables /\ held \in [Inodes -> Nat] /\ Len(T.table) \in Nat
        /\ Len(T.table) >= 1 /\ 1 .. Len(T.table) \subseteq Inodes
        /\ T.table[Root].path = <<>> /\ i \in Nat
    BY InodesAre DEF TableOK, Tables
  <1>2. held[i] \in Nat /\ held[i] > 0 /\ n \in Nat /\ n > 0 /\ n <= held[i]
    BY <1>1
  <1>3. i \in 1 .. Len(T.table)
    <2>1. ~ (i > Len(T.table))
      BY <1>2 DEF TableOK, LookupsOK
    <2>2. i # 0
      BY FuseMTAssumption DEF Inodes
    <2> QED BY <2>1, <2>2, <1>1
  <1>4. T.table[i].lookups = held[i] /\ T.table[i].path # NoPath
    BY <1>2, <1>3 DEF TableOK, LookupsOK
  <1>5. ~ForgetFails(T, i, n)
    BY <1>2, <1>4 DEF ForgetFails
  <1>6. CASE n # held[i]
    <2> DEFINE m == T.table[i].lookups - n
               U == [T EXCEPT !.table[i].lookups = m]
    <2>1. forget_n(T, i, n) = U
      BY <1>4, <1>6 DEF forget_n
    <2>2. m \in Nat /\ m > 0 /\ now = [held EXCEPT ![i] = m]
      BY <1>1, <1>2, <1>4, <1>6
    <2> HIDE DEF m
    <2>3. Changed(T, U, i, T.table[i].path, m, T.table[i].generation)
      BY <1>1, <1>3, <2>2, SetLookups
    <2> HIDE DEF U
    <2>4. TableOK(U, now) /\ Fresh(T, held, U, now)
      BY <1>3, <1>4, <2>2, <2>3, CountOK
    <2> QED BY <1>5, <2>1, <2>4
  <1>7. CASE n = held[i]
    <2> DEFINE p == T.table[i].path
               A == [T EXCEPT !.by_path[p] = NoInode]
               B == [A EXCEPT !.table[i].lookups = 0]
               C == [B EXCEPT !.table[i].path = NoPath]
               f == Append(T.free_list, i)
               U == [C EXCEPT !.free_list = f]
    <2>1. p \in Paths
      BY <1>1, <1>3, <1>4, EntryTyped
    <2>2. TableOK(A, held) /\ A.table = T.table /\ A.free_list = T.free_list
          /\ A.by_path[p] = NoInode
          /\ \A q \in Paths : q # p => A.by_path[q] = T.by_path[q]
      BY <2>1, UnlinkOK
    <2>3. A \in Tables /\ i \in 1 .. Len(A.table)
      BY <2>2, <1>3 DEF TableOK
    <2>4. forget_n(T, i, n) = [C EXCEPT !.free_list = Append(C.free_list, i)]
      BY <1>4, <1>7 DEF forget_n
    <2> HIDE DEF A, p
    <2>5. Changed(A, B, i, A.table[i].path, 0, A.table[i].generation)
      BY <2>3, SetLookups
    <2> HIDE DEF B
    <2>6. Changed(B, C, i, NoPath, 0, A.table[i].generation)
      <3>1. /\ B \in Tables /\ i \in 1 .. Len(B.table)
            /\ B.table[i].lookups = 0 /\ B.table[i].generation = A.table[i].generation
        BY <2>3, <2>5 DEF Changed
      <3>2. Changed(B, C, i, NoPath, B.table[i].lookups, B.table[i].generation)
        BY <3>1, SetPath
      <3> QED BY <3>1, <3>2
    <2> HIDE DEF C
    <2>7. forget_n(T, i, n) = U
      BY <2>2, <2>4, <2>5, <2>6 DEF Changed
    <2>8. f \in Seq(Nat) /\ T.free_list \in Seq(Nat)
      BY <1>1 DEF Tables
    <2> HIDE DEF f
    <2>9. /\ U \in Tables /\ U.table = C.table /\ U.by_path = A.by_path
          /\ U.free_list = f
      BY <2>5, <2>6, <2>8 DEF Tables, Changed
    <2> HIDE DEF U
    <2>10. /\ Len(U.table) = Len(T.table)
           /\ U.table[i].path = NoPath /\ U.table[i].lookups = 0
           /\ U.table[i].generation = T.table[i].generation
           /\ \A j \in 1 .. Len(T.table) : j # i => U.table[j] = T.table[j]
      BY <2>2, <2>5, <2>6, <2>9 DEF Changed
    <2>11. /\ now \in [Inodes -> Nat] /\ now[i] = 0
           /\ \A j \in Inodes : j # i => now[j] = held[j]
      BY <1>1, <1>2, <1>7
    <2>12. U.table[Root].path = <<>>
      <3>1. Root \in 1 .. Len(T.table)
        BY <1>1 DEF Root
      <3> QED BY <3>1, <1>1, <2>10
    <2>13. FreeListOK(U)
      <3> DEFINE F == T.free_list
      <3>1. /\ Len(F) \in Nat /\ Len(f) = Len(F) + 1 /\ f[Len(F) + 1] = i
            /\ \A a \in 1 .. Len(F) : f[a] = F[a]
        BY <2>8 DEF f
      <3>2. /\ \A a, b \in 1 .. Len(F) : F[a] = F[b] => a = b
            /\ \A a \in 1 .. Len(F) :
                 F[a] \in 1 .. Len(T.table) /\ T.table[F[a]].path = NoPath
            /\ \A j \in 1 .. Len(T.table) : T.table[j].path = NoPath =>
                 \E a \in 1 .. Len(F) : F[a] = j
        BY DEF TableOK, FreeListOK
      <3> HIDE DEF F
      <3>3. \A a \in 1 .. Len(F) : f[a] # i
        BY <3>1, <3>2, <1>4
      <3>4. \A a \in 1 .. Len(f) : a \in 1 .. Len(F) \/ a = Len(F) + 1
        BY <3>1
      <3>5. \A a, b \in 1 .. Len(f) : f[a] = f[b] => a = b
        BY <3>1, <3>2, <3>3, <3>4
      <3>6. \A a \in 1 .. Len(f) :
              f[a] \in 1 .. Len(T.table) /\ U.table[f[a]].path = NoPath
        <4> SUFFICES ASSUME NEW a \in 1 .. Len(f)
                     PROVE  f[a] \in 1 .. Len(T.table) /\ U.table[f[a]].path = NoPath
          OBVIOUS
        <4>1. CASE a \in 1 .. Len(F)
          <5>1. f[a] = F[a] /\ F[a] # i
            BY <4>1, <3>1, <3>3
          <5> QED BY <4>1, <5>1, <3>2, <2>10
        <4>2. CASE a = Len(F) + 1
          BY <4>2, <3>1, <1>3, <2>10
        <4> QED BY <3>4, <4>1, <4>2
      <3>7. ASSUME NEW j \in 1 .. Len(T.table), U.table[j].path = NoPath
            PROVE  \E a \in 1 .. Len(f) : f[a] = j
        <4>1. CASE j = i
          <5>1. Len(F) + 1 \in 1 .. Len(f)
            BY <3>1
          <5> QED BY <5>1, <4>1, <3>1
        <4>2. CASE j # i
          <5>1. PICK a \in 1 .. Len(F) : F[a] = j
            BY <4>2, <3>2, <3>7, <2>10
          <5>2. a \in 1 .. Len(f)
            BY <3>1
          <5> QED BY <5>1, <5>2, <3>1
        <4> QED BY <4>1, <4>2
      <3> QED BY <3>5, <3>6, <3>7, <2>9, <2>10 DEF FreeListOK
    <2>14. LookupsOK(U, now)
      <3>1. ASSUME NEW j \in Inodes, j > Len(U.table) PROVE now[j] = 0
        <4>1. j # i /\ j > Len(T.table)
          BY <1>1, <1>3, <2>10, <3>1
        <4> QED BY <4>1, <2>11 DEF TableOK, LookupsOK
      <3>2. ASSUME NEW j \in 1 .. Len(U.table), j # Root
            PROVE  /\ U.table[j].lookups = now[j]
                   /\ U.table[j].path = NoPath <=> now[j] = 0
        <4>1. CASE j = i
          BY <4>1, <2>10, <2>11
        <4>2. CASE j # i
          <5>1. j \in 1 .. Len(T.table) /\ U.table[j] = T.table[j] /\ now[j] = held[j]
            BY <4>2, <1>1, <2>10, <2>11
          <5> QED BY <5>1, <3>2 DEF TableOK, LookupsOK
        <4> QED BY <4>1, <4>2
      <3> QED BY <3>1, <3>2 DEF LookupsOK
    <2>15. ByPathOK(U)
      <3> SUFFICES ASSUME NEW q \in Paths, U.by_path[q] # NoInode
                   PROVE  /\ U.by_path[q] \in 1 .. Len(U.table)
                          /\ U.table[U.by_path[q]].path = q
        BY DEF ByPathOK
      <3>1. q # p /\ U.by_path[q] = T.by_path[q]
        BY <2>2, <2>9
      <3>2. T.by_path[q] \in 1 .. Len(T.table) /\ T.table[T.by_path[q]].path = q
        BY <3>1 DEF TableOK, ByPathOK
      <3>3. T.by_path[q] # i
        BY <3>1, <3>2 DEF p
      <3> QED BY <3>1, <3>2, <3>3, <2>10
    <2>16. TableOK(U, now)
      BY <1>1, <2>9, <2>10, <2>11, <2>12, <2>13, <2>14, <2>15 DEF TableOK
    <2>17. Fresh(T, held, U, now)
      <3> SUFFICES ASSUME NEW j \in 1 .. Len(T.table)
                   PROVE  /\ ~ (held[j] = 0 /\ now[j] > 0)
                          /\ U.table[j].generation = T.table[j].generation
        BY DEF Fresh
      <3>1. CASE j = i
        BY <3>1, <1>2, <2>10
      <3>2. CASE j # i
        <4>1. now[j] = held[j] /\ U.table[j] = T.table[j]
          BY <3>2, <1>1, <2>10, <2>11
        <4> QED BY <4>1
      <3> QED BY <3>1, <3>2
    <2> QED BY <1>5, <2>7, <2>16, <2>17
  <1> QED BY <1>6, <1>7

(* rename_path of a path that leads to an inode.                           *)
LEMMA RenameOK ==
  ASSUME NEW T, NEW held, TableOK(T, held), NEW old \in Paths, NEW new \in Paths,
         old # new, old # <<>>, T.by_path[old] # NoInode
  PROVE  LET U == rename_path(T, old, new)
         IN  TableOK(U, held) /\ Fresh(T, held, U, held)
  <1> DEFINE i == T.by_path[old]
             A == [T EXCEPT !.by_path[old] = NoInode]
             B == [A EXCEPT !.table[i].path = new]
             U == [B EXCEPT !.by_path[new] = i]
  <1>1. /\ T \in Tables /\ held \in [Inodes -> Nat] /\ Len(T.table) \in Nat
        /\ Len(T.table) >= 1 /\ 1 .. Len(T.table) \subseteq Inodes
        /\ T.table[Root].path = <<>> /\ NoPath \notin Paths
    BY PathFacts DEF TableOK, Tables
  <1>2. i \in 1 .. Len(T.table) /\ T.table[i].path = old /\ i \in Nat /\ i # Root
    BY <1>1 DEF TableOK, ByPathOK
  <1>3. rename_path(T, old, new) = U
    BY DEF rename_path
  <1>4. /\ TableOK(A, held) /\ A.table = T.table /\ A.free_list = T.free_list
        /\ A.by_path[old] = NoInode
        /\ \A q \in Paths : q # old => A.by_path[q] = T.by_path[q]
    BY UnlinkOK
  <1> HIDE DEF i, A
  <1>5. A \in Tables
    BY <1>4 DEF TableOK
  <1>6. Changed(A, B, i, new, T.table[i].lookups, T.table[i].generation)
    BY <1>2, <1>4, <1>5, SetPath
  <1> HIDE DEF B
  <1>7. /\ U \in Tables /\ U.table = B.table /\ U.free_list = B.free_list
        /\ U.by_path = [B.by_path EXCEPT ![new] = i]
    BY <1>2, <1>6, SetByPath DEF Changed
  <1> HIDE DEF U
  <1>8. /\ Len(U.table) = Len(T.table) /\ U.free_list = T.free_list
        /\ U.table[i].path = new /\ U.table[i].lookups = T.table[i].lookups
        /\ U.table[i].generation = T.table[i].generation
        /\ \A j \in 1 .. Len(T.table) : j # i => U.table[j] = T.table[j]
    BY <1>4, <1>6, <1>7 DEF Changed
  <1>9. /\ U.by_path[new] = i /\ U.by_path[old] = NoInode
        /\ \A q \in Paths : q # old /\ q # new => U.by_path[q] = T.by_path[q]
    <2>1. B.by_path \in [Paths -> Nat] /\ B.by_path = A.by_path
      BY <1>6 DEF Changed, Tables
    <2> QED BY <2>1, <1>4, <1>7
  <1>10. \A j \in 1 .. Len(T.table) :
           /\ U.table[j].lookups = T.table[j].lookups
           /\ U.table[j].generation = T.table[j].generation
           /\ U.table[j].path = NoPath <=> T.table[j].path = NoPath
    BY <1>1, <1>2, <1>8
  <1>11. U.table[Root].path = <<>>
    <2>1. Root \in 1 .. Len(T.table)
      BY <1>1 DEF Root
    <2> QED BY <2>1, <1>1, <1>2, <1>8
  <1>12. FreeListOK(U)
    BY <1>8, <1>10, SameFree DEF TableOK
  <1>13. LookupsOK(U, held)
    BY <1>8, <1>10 DEF TableOK, LookupsOK
  <1>14. ByPathOK(U)
    <2> SUFFICES ASSUME NEW q \in Paths, U.by_path[q] # NoInode
                 PROVE  /\ U.by_path[q] \in 1 .. Len(U.table)
                        /\ U.table[U.by_path[q]].path = q
      BY DEF ByPathOK
    <2>1. CASE q = new
      BY <2>1, <1>2, <1>8, <1>9
    <2>2. CASE q # new
      <3>1. q # old /\ U.by_path[q] = T.by_path[q]
        BY <2>2, <1>9
      <3>2. T.by_path[q] \in 1 .. Len(T.table) /\ T.table[T.by_path[q]].path = q
        BY <3>1 DEF TableOK, ByPathOK
      <3>3. T.by_path[q] # i
        BY <3>1, <3>2, <1>2
      <3> QED BY <3>1, <3>2, <3>3, <1>8
    <2> QED BY <2>1, <2>2
  <1>15. TableOK(U, held)
    BY <1>1, <1>7, <1>8, <1>11, <1>12, <1>13, <1>14 DEF TableOK
  <1>16. Fresh(T, held, U, held)
    <2>1. \A j \in 1 .. Len(T.table) : ~ (held[j] = 0 /\ held[j] > 0)
      BY <1>1
    <2> QED BY <2>1, <1>10 DEF Fresh
  <1> QED BY <1>3, <1>15, <1>16

-----------------------------------------------------------------------------
(* The table in every step.                                                *)
TableStep == TableInv' /\ Fresh(inodes, nlookup, inodes', nlookup')

LEMMA TableKept ==
  ASSUME TableInv, inodes' = inodes, nlookup' = nlookup, limit' = limit,
         panicked' # "forget"
  PROVE  TableStep
  <1>1. nlookup \in [Inodes -> Nat] /\ 1 .. Len(inodes.table) \subseteq Inodes
    BY DEF TableInv, TableOK
  <1>2. \A j \in 1 .. Len(inodes.table) : ~ (nlookup[j] = 0 /\ nlookup[j] > 0)
    BY <1>1
  <1>3. Fresh(inodes, nlookup, inodes, nlookup)
    BY <1>2 DEF Fresh
  <1> QED BY <1>3 DEF TableStep, TableInv

LEMMA TableMoved ==
  ASSUME TableInv, limit' = limit, panicked' # "forget",
         TableOK(inodes', nlookup'), Fresh(inodes, nlookup, inodes', nlookup')
  PROVE  TableStep
  BY DEF TableStep, TableInv

(* The directory of a request is in use, so its path and that of the child *)
(* are paths, and the child is not the root.                               *)
LEMMA ChildIs ==
  ASSUME TableInv, NEW parent \in Inodes, NEW name \in Names, Request(parent, name)
  PROVE  /\ panicked = "no"
         /\ Child(parent, name) \in Paths /\ Child(parent, name) # <<>>
  <1>1. /\ inodes \in Tables /\ nlookup \in [Inodes -> Nat]
        /\ Len(inodes.table) \in Nat /\ Len(inodes.table) >= 1 /\ parent \in Nat
        /\ inodes.table[Root].path = <<>>
    BY InodesAre DEF TableInv, TableOK, Tables
  <1>2. panicked = "no" /\ Child(parent, name) \in Paths
        /\ (parent = Root \/ nlookup[parent] > 0)
    BY DEF Request, Held
  <1>3. inodes.table[parent].path \in Paths
    <2>1. CASE parent = Root
      BY <2>1, <1>1, PathFacts
    <2>2. CASE parent # Root
      <3>1. parent # 0
        BY FuseMTAssumption DEF Inodes
      <3>2. parent \in 1 .. Len(inodes.table)
        BY <3>1, <2>2, <1>1, <1>2 DEF TableInv, TableOK, LookupsOK
      <3>3. inodes.table[parent].path # NoPath
        BY <3>2, <2>2, <1>1, <1>2 DEF TableInv, TableOK, LookupsOK
      <3> QED BY <3>2, <3>3, <1>1, EntryTyped
    <2> QED BY <2>1, <2>2
  <1>4. Child(parent, name) # <<>>
    <2>1. Child(parent, name) = Append(inodes.table[parent].path, name)
      BY DEF Child, get_path
    <2> QED BY <2>1, <1>3, PathFacts
  <1> QED BY <1>2, <1>4

LEMMA AllocatedInode ==
  ASSUME TableInv, MayAllocate
  PROVE  NextInode(inodes) \in Inodes
  <1>1. NextInode(inodes) \in Nat \ {0}
    BY NextInodeIs DEF TableInv
  <1>2. limit \in Limits /\ limit.inodes \in Nat /\ NextInode(inodes) <= limit.inodes
    BY FuseMTAssumption DEF TableInv, MayAllocate
  <1>3. NextInode(inodes) \in 1 .. limit.inodes
    BY <1>1, <1>2
  <1> QED BY <1>2, <1>3 DEF Inodes

LEMMA LookupTable ==
  ASSUME TableInv, NEW parent \in Inodes, NEW name \in Names, lookup(parent, name),
         limit' = limit
  PROVE  TableStep
  <1> DEFINE path == Child(parent, name)
             T == add_or_get(inodes, path)
             i == T.by_path[path]
  <1>1. TableOK(inodes, nlookup) /\ panicked' # "forget"
    BY DEF lookup, TableInv
  <1>2. path \in Paths /\ path # <<>>
    BY ChildIs DEF lookup
  <1>3. CASE target[path] = "none"
    <2>1. inodes' = inodes /\ nlookup' = nlookup
      BY <1>3 DEF lookup
    <2> QED BY <2>1, <1>1, TableKept
  <1>4. CASE target[path] # "none"
    <2>1. /\ inodes.by_path[path] = NoInode => MayAllocate
          /\ inodes' = lookup_inc(T, i)
          /\ nlookup' = [nlookup EXCEPT ![i] = @ + 1]
      BY <1>4 DEF lookup, ReplyEntry
    <2> HIDE DEF path
    <2>2. CASE inodes.by_path[path] # NoInode
      <3>1. T = inodes
        BY <2>2 DEF add_or_get
      <3>2. /\ inodes' = lookup_inc(inodes, inodes.by_path[path])
            /\ nlookup' = [nlookup EXCEPT ![inodes.by_path[path]] = @ + 1]
        BY <3>1, <2>1
      <3>3. TableOK(inodes', nlookup') /\ Fresh(inodes, nlookup, inodes', nlookup')
        BY <3>2, <2>2, <1>1, <1>2, LookupIncOK
      <3> QED BY <3>3, <1>1, TableMoved
    <2>3. CASE inodes.by_path[path] = NoInode
      <3>1. i = NextInode(inodes) /\ NextInode(inodes) \in Inodes
        BY <2>1, <2>3, <1>1, <1>2, LookupIs, AllocatedInode
      <3>2. Allocated(inodes, lookup_inc(T, NextInode(inodes)), path)
        BY <2>3, <1>1, <1>2, LookupIs
      <3> HIDE DEF T, i
      <3>3. Allocated(inodes, inodes', path)
            /\ nlookup' = [nlookup EXCEPT ![NextInode(inodes)] = @ + 1]
        BY <3>1, <3>2, <2>1
      <3>4. TableOK(inodes', nlookup') /\ Fresh(inodes, nlookup, inodes', nlookup')
        BY <3>1, <3>3, <1>1, <1>2, AllocatedOK
      <3> QED BY <3>4, <1>1, TableMoved
    <2> QED BY <2>2, <2>3
  <1> QED BY <1>3, <1>4

LEMMA NewEntryTable ==
  ASSUME TableInv, NEW parent \in Inodes, NEW name \in Names, NEW kind,
         NewEntry(parent, name, kind), limit' = limit
  PROVE  TableStep
  <1> DEFINE path == Child(parent, name)
  <1>1. TableOK(inodes, nlookup) /\ panicked # "forget"
    BY DEF TableInv
  <1>2. path \in Paths
    BY ChildIs DEF NewEntry
  <1>3. Added(parent, name, kind) \/ StatFails(path, kind)
    BY DEF NewEntry
  <1>4. CASE StatFails(path, kind)
    <2>1. inodes' = inodes /\ nlookup' = nlookup /\ panicked' = panicked
      BY <1>4 DEF StatFails, kernel
    <2> QED BY <2>1, <1>1, TableKept
  <1>5. CASE Added(parent, name, kind)
    <2>1. CASE DuplicatePath(inodes, path)
      <3>1. inodes' = inodes /\ nlookup' = nlookup /\ panicked' = "duplicate path"
        BY <1>5, <2>1 DEF Added, kernel
      <3> QED BY <3>1, TableKept
    <2>2. CASE ~DuplicatePath(inodes, path)
      <3>1. /\ MayAllocate /\ inodes' = add(inodes, path) /\ panicked' = panicked
            /\ nlookup' = [nlookup EXCEPT ![NextInode(inodes)] = @ + 1]
        BY <1>5, <2>2 DEF Added, ReplyEntry
      <3> HIDE DEF path
      <3>2. Allocated(inodes, inodes', path) /\ NextInode(inodes) \in Inodes
        BY <3>1, <1>1, <1>2, AddIs, AllocatedInode
      <3>3. TableOK(inodes', nlookup') /\ Fresh(inodes, nlookup, inodes', nlookup')
        BY <3>1, <3>2, <1>1, <1>2, AllocatedOK
      <3> QED BY <3>1, <3>3, <1>1, TableMoved
    <2> QED BY <2>1, <2>2
  <1> QED BY <1>3, <1>4, <1>5

LEMMA ForgetTable ==
  ASSUME TableInv, NEW i \in Inodes, NEW n, forget(i, n), limit' = limit
  PROVE  TableStep
  <1>1. TableOK(inodes, nlookup) /\ panicked # "forget"
    BY DEF TableInv
  <1>2. i # Root /\ n \in 1 .. nlookup[i] /\ nlookup' = [nlookup EXCEPT ![i] = @ - n]
    BY DEF forget
  <1>3. /\ ~ForgetFails(inodes, i, n)
        /\ TableOK(forget_n(inodes, i, n), nlookup')
        /\ Fresh(inodes, nlookup, forget_n(inodes, i, n), nlookup')
    BY <1>1, <1>2, ForgetOK
  <1>4. inodes' = forget_n(inodes, i, n) /\ panicked' = panicked
    BY <1>3 DEF forget
  <1> QED BY <1>1, <1>3, <1>4, TableMoved

LEMMA UnlinkTable ==
  ASSUME TableInv, NEW parent \in Inodes, NEW name \in Names, unlink(parent, name),
         limit' = limit
  PROVE  TableStep
  <1> DEFINE path == Child(parent, name)
  <1>1. TableOK(inodes, nlookup) /\ panicked # "forget"
    BY DEF TableInv
  <1>2. path \in Paths
    BY ChildIs DEF unlink
  <1>3. /\ inodes' = [inodes EXCEPT !.by_path[path] = NoInode]
        /\ nlookup' = nlookup /\ panicked' = panicked
    BY DEF unlink, unlink_path
  <1> HIDE DEF path
  <1>4. TableOK(inodes', nlookup') /\ Fresh(inodes, nlookup, inodes', nlookup')
    BY <1>1, <1>2, <1>3, UnlinkOK
  <1> QED BY <1>1, <1>3, <1>4, TableMoved

LEMMA RenameTable ==
  ASSUME TableInv, NEW parent \in Inodes, NEW name \in Names,
         NEW newparent \in Inodes, NEW newname \in Names,
         rename(parent, name, newparent, newname), limit' = limit
  PROVE  TableStep
  <1> DEFINE old == Child(parent, name)
             new == Child(newparent, newname)
  <1>1. TableOK(inodes, nlookup) /\ panicked # "forget"
    BY DEF TableInv
  <1>2. old \in Paths /\ new \in Paths /\ old # <<>>
    BY ChildIs DEF rename
  <1>3. old # new
    <2>1. ~IsPrefix(old, new)
      BY DEF rename
    <2>2. \A s \in Seq(Names) : IsPrefix(s, s)
      BY DEF IsPrefix
    <2> HIDE DEF old, new
    <2> QED BY <2>1, <2>2, <1>2, PathFacts
  <1>4. CASE RenameFails(inodes, old)
    <2>1. inodes' = inodes /\ nlookup' = nlookup /\ panicked' = "rename"
      BY <1>4 DEF rename, kernel
    <2> QED BY <2>1, TableKept
  <1>5. CASE ~RenameFails(inodes, old)
    <2>1. /\ inodes' = rename_path(inodes, old, new)
          /\ nlookup' = nlookup /\ panicked' = panicked
      BY <1>5 DEF rename
    <2>2. inodes.by_path[old] # NoInode
      BY <1>5 DEF RenameFails
    <2> HIDE DEF old, new
    <2>3. TableOK(inodes', nlookup') /\ Fresh(inodes, nlookup, inodes', nlookup')
      BY <2>1, <2>2, <1>1, <1>2, <1>3, RenameOK
    <2> QED BY <2>1, <2>3, <1>1, TableMoved
  <1> QED BY <1>4, <1>5

LEMMA TableNext ==
  ASSUME TableInv, Next
  PROVE  TableStep
  <1>1. limit' = limit /\ Step
    BY DEF Next
  <1>2. panicked # "forget"
    BY DEF TableInv
  <1>3. ASSUME NEW i \in Inodes, NEW m \in Names, NameRequest(i, m)
        PROVE  TableStep
    <2>1. CASE lookup(i, m)
      BY <1>1, <2>1, LookupTable
    <2>2. CASE create(i, m) \/ mknod(i, m) \/ symlink(i, m) \/ mkdir(i, m)
      <3>1. NewEntry(i, m, "file") \/ NewEntry(i, m, "dir")
        BY <2>2 DEF create, mknod, symlink, mkdir
      <3> QED BY <3>1, <1>1, NewEntryTable
    <2>3. CASE unlink(i, m)
      BY <1>1, <2>3, UnlinkTable
    <2>4. CASE rmdir(i, m)
      <3>1. inodes' = inodes /\ nlookup' = nlookup /\ panicked' = panicked
        BY <2>4 DEF rmdir
      <3> QED BY <3>1, <1>1, <1>2, TableKept
    <2> QED BY <1>3, <2>1, <2>2, <2>3, <2>4 DEF NameRequest
  <1>4. ASSUME NEW i \in Inodes, NEW n \in 1 .. MaxLookups, forget(i, n)
        PROVE  TableStep
    BY <1>1, <1>4, ForgetTable
  <1>5. ASSUME NEW i \in Inodes, NEW j \in Inodes, NEW m \in Names, link(i, j, m)
        PROVE  TableStep
    <2>1. NewEntry(j, m, "file")
      BY <1>5 DEF link
    <2> QED BY <2>1, <1>1, NewEntryTable
  <1>6. ASSUME NEW i \in Inodes, NEW j \in Inodes, NEW m \in Names, NEW n \in Names,
               rename(i, m, j, n)
        PROVE  TableStep
    BY <1>1, <1>6, RenameTable
  <1>7. CASE DirectoryRequest
    <2>1. inodes' = inodes /\ nlookup' = nlookup /\ panicked' = panicked
      BY <1>7 DEF DirectoryRequest, opendir, readdir, readdir_fails, Rewind,
                  releasedir, kernel
    <2> QED BY <2>1, <1>1, <1>2, TableKept
  <1>8. CASE OpenFileRequest
    <2>1. inodes' = inodes /\ nlookup' = nlookup /\ panicked' = panicked
      BY <1>8 DEF OpenFileRequest, open, release, flush, fsync, read, write,
                  FileRequest, tree, kernel
    <2> QED BY <2>1, <1>1, <1>2, TableKept
  <1>9. CASE PoolStep
    <2>1. inodes' = inodes /\ nlookup' = nlookup /\ panicked' = panicked
      BY <1>9 DEF PoolStep, Seek, Finish, Transfer, tree, kernel
    <2> QED BY <2>1, <1>1, <1>2, TableKept
  <1> QED BY <1>1, <1>3, <1>4, <1>5, <1>6, <1>7, <1>8, <1>9 DEF Step

-----------------------------------------------------------------------------
(* Open files.                                                             *)
LEMMA DescriptorIs ==
  /\ \A p \in FileNames, n \in Nat :
       /\ [path |-> p, pos |-> n] \in Descriptors
       /\ [path |-> p, pos |-> n].pos = n
  /\ \A d \in Descriptors :
       /\ d # Closed /\ d.path \in FileNames /\ d.pos \in Nat
       /\ \A n \in Nat : [d EXCEPT !.pos = n] \in Descriptors /\ [d EXCEPT !.pos = n].pos = n
       /\ \A p \in FileNames :
            [d EXCEPT !.path = p] \in Descriptors /\ [d EXCEPT !.path = p].pos = d.pos
  BY MarkersAssumption DEF Descriptors, FileNames

(* The same descriptors are open in D and in E.                            *)
FdTables == Seq(Descriptors \cup {Closed})
SameOpen(D, E) ==
  /\ E \in FdTables /\ Len(E) = Len(D)
  /\ \A fh \in 1 .. Len(D) : E[fh] = Closed <=> D[fh] = Closed

LEMMA SetPos ==
  ASSUME NEW D \in FdTables, NEW fh \in 1 .. Len(D), D[fh] # Closed, NEW n \in Nat
  PROVE  LET E == [D EXCEPT ![fh].pos = n]
         IN  /\ SameOpen(D, E) /\ E[fh].pos = n
             /\ \A g \in 1 .. Len(D) : g # fh => E[g] = D[g]
  <1> DEFINE d == [D[fh] EXCEPT !.pos = n]
             E == [D EXCEPT ![fh] = d]
  <1>1. D[fh] \in Descriptors
    BY DEF FdTables
  <1>2. d \in Descriptors /\ d.pos = n /\ d # Closed
    BY <1>1, DescriptorIs
  <1> HIDE DEF d
  <1>3. /\ E \in FdTables /\ Len(E) = Len(D) /\ E[fh] = d
        /\ \A g \in 1 .. Len(D) : g # fh => E[g] = D[g]
    BY <1>2 DEF FdTables
  <1>4. [D EXCEPT ![fh].pos = n] = E
    BY DEF d
  <1> HIDE DEF E
  <1>5. SameOpen(D, E)
    BY <1>2, <1>3 DEF SameOpen
  <1> QED BY <1>2, <1>3, <1>4, <1>5

LEMMA AdvanceIs ==
  ASSUME NEW D \in FdTables, NEW fh \in 1 .. Len(D), D[fh] # Closed
  PROVE  SameOpen(D, Advance(D, fh))
  <1> DEFINE n == D[fh].pos + 1
  <1>1. n \in Nat
    <2>1. D[fh] \in Descriptors
      BY DEF FdTables
    <2> QED BY <2>1, DescriptorIs
  <1>2. Advance(D, fh) = [D EXCEPT ![fh].pos = n]
    BY DEF Advance
  <1> HIDE DEF n
  <1>3. SameOpen(D, [D EXCEPT ![fh].pos = n])
    BY <1>1, SetPos
  <1> QED BY <1>2, <1>3

(* A change of the tree keeps the positions.                               *)
LEMMA RenamedIs ==
  ASSUME NEW D \in FdTables, NEW N \in [FileNames -> FileNames]
  PROVE  /\ SameOpen(D, Renamed(D, N))
         /\ \A fh \in 1 .. Len(D) : D[fh] # Closed => Renamed(D, N)[fh].pos = D[fh].pos
  <1> DEFINE e(fh) == IF D[fh] = Closed THEN Closed ELSE [D[fh] EXCEPT !.path = N[@]]
             E == [fh \in DOMAIN D |-> e(fh)]
  <1>1. Renamed(D, N) = E
    BY DEF Renamed
  <1>2. ASSUME NEW fh \in 1 .. Len(D)
        PROVE  /\ e(fh) \in Descriptors \cup {Closed}
               /\ e(fh) = Closed <=> D[fh] = Closed
               /\ D[fh] # Closed => e(fh).pos = D[fh].pos
    <2>1. D[fh] \in Descriptors \cup {Closed}
      BY DEF FdTables
    <2>2. CASE D[fh] = Closed
      BY <2>2
    <2>3. CASE D[fh] # Closed
      <3>1. D[fh] \in Descriptors /\ N[D[fh].path] \in FileNames
        BY <2>1, <2>3, DescriptorIs
      <3>2. e(fh) = [D[fh] EXCEPT !.path = N[D[fh].path]]
        BY <2>3
      <3> HIDE DEF e
      <3> QED BY <2>3, <3>1, <3>2, DescriptorIs
    <2> QED BY <2>2, <2>3
  <1> HIDE DEF e
  <1>3. /\ E \in FdTables /\ Len(E) = Len(D)
        /\ \A fh \in 1 .. Len(D) : E[fh] = e(fh)
    BY <1>2 DEF FdTables
  <1> HIDE DEF E
  <1> QED BY <1>1, <1>2, <1>3 DEF SameOpen

LEMMA FilesKept ==
  ASSUME FileInv, UNCHANGED <<fds, files, jobs, limit>>
  PROVE  FileInv'
  BY DEF FileInv, FileTypes, FdsOK, JobsOK, InPlace

LEMMA FilesRenamed ==
  ASSUME FileInv, NEW N \in [FileNames -> FileNames], fds' = Renamed(fds, N),
         UNCHANGED <<files, jobs, limit>>
  PROVE  FileInv'
  <1>1. fds \in FdTables
    BY DEF FileInv, FileTypes, FdTables
  <1>2. /\ fds' \in FdTables /\ Len(fds') = Len(fds)
        /\ \A fh \in 1 .. Len(fds) : fds'[fh] = Closed <=> fds[fh] = Closed
        /\ \A fh \in 1 .. Len(fds) : fds[fh] # Closed => fds'[fh].pos = fds[fh].pos
    BY <1>1, RenamedIs DEF SameOpen
  <1>3. FileTypes' /\ FdsOK' /\ JobsOK'
    BY <1>2 DEF FileInv, FileTypes, FdsOK, JobsOK, FdTables
  <1>4. InPlace'
    BY <1>2 DEF FileInv, InPlace, JobsOK
  <1> QED BY <1>3, <1>4 DEF FileInv

LEMMA FileOpened ==
  ASSUME FileInv, NEW p \in FileNames, fds' = Append(fds, [path |-> p, pos |-> 0]),
         NEW i \in Nat, files' = Append(files, i), UNCHANGED <<jobs, limit>>
  PROVE  FileInv'
  <1> DEFINE d == [path |-> p, pos |-> 0]
  <1>1. d \in Descriptors /\ d # Closed
    BY DescriptorIs
  <1>2. i # Deleted
    BY MarkersAssumption
  <1> HIDE DEF d
  <1>3. fds' = Append(fds, d)
    BY DEF d
  <1>4. /\ fds' \in Seq(Descriptors \cup {Closed}) /\ files' \in Seq(Nat \cup {Deleted})
        /\ Len(fds') = Len(fds) + 1 /\ Len(files') = Len(files) + 1
        /\ Len(fds) \in Nat /\ Len(files) = Len(fds)
        /\ fds'[Len(fds) + 1] = d /\ files'[Len(fds) + 1] = i
        /\ \A fh \in 1 .. Len(fds) : fds'[fh] = fds[fh] /\ files'[fh] = files[fh]
    BY <1>1, <1>3 DEF FileInv, FileTypes
  <1>5. \A fh \in 1 .. Len(fds') : fh \in 1 .. Len(fds) \/ fh = Len(fds) + 1
    BY <1>4
  <1>6. FileTypes'
    BY <1>4 DEF FileInv, FileTypes
  <1>7. FdsOK'
    BY <1>1, <1>2, <1>4, <1>5 DEF FileInv, FdsOK
  <1>8. \A fh \in 1 .. Len(fds) : fh \in 1 .. Len(fds')
    BY <1>4
  <1>9. JobsOK'
    BY <1>4, <1>8 DEF FileInv, JobsOK
  <1>10. InPlace'
    BY <1>4 DEF FileInv, InPlace, JobsOK
  <1> QED BY <1>6, <1>7, <1>9, <1>10 DEF FileInv

(* release closes a descriptor that no request is on.                      *)
LEMMA FileReleased ==
  ASSUME FileInv, NEW fh \in HeldFiles, release(fh), limit' = limit
  PROVE  FileInv'
  <1>1. /\ fds' = [fds EXCEPT ![fh] = Closed] /\ files' = [files EXCEPT ![fh] = Deleted]
        /\ jobs' = jobs /\ \A j \in DOMAIN jobs : jobs[j].fh # fh
    BY DEF release, CloseFile, Quiet
  <1>2. /\ fds \in Seq(Descriptors \cup {Closed}) /\ files \in Seq(Nat \cup {Deleted})
        /\ Len(files) = Len(fds) /\ jobs \in Seq(Jobs)
    BY DEF FileInv, FileTypes
  <1>3. fh \in 1 .. Len(fds)
    BY <1>2 DEF HeldFiles
  <1>4. /\ fds' \in Seq(Descriptors \cup {Closed}) /\ files' \in Seq(Nat \cup {Deleted})
        /\ Len(fds') = Len(fds) /\ Len(files') = Len(files)
        /\ fds'[fh] = Closed /\ files'[fh] = Deleted
        /\ \A g \in 1 .. Len(fds) : g # fh => fds'[g] = fds[g] /\ files'[g] = files[g]
    BY <1>1, <1>2, <1>3
  <1>5. FileTypes'
    BY <1>1, <1>2, <1>4 DEF FileInv, FileTypes
  <1>6. FdsOK'
    BY <1>4 DEF FileInv, FdsOK
  <1>7. \A j \in 1 .. Len(jobs) :
          jobs[j].fh \in 1 .. Len(fds) /\ fds'[jobs[j].fh] = fds[jobs[j].fh]
    BY <1>1, <1>2, <1>4 DEF FileInv, JobsOK
  <1>8. JobsOK'
    BY <1>1, <1>4, <1>7 DEF FileInv, JobsOK
  <1>9. InPlace'
    BY <1>1, <1>7 DEF FileInv, InPlace
  <1> QED BY <1>5, <1>6, <1>8, <1>9 DEF FileInv

(* The same descriptors stay open, and the positions matter to no request  *)
(* between its seek and its transfer.                                      *)
LEMMA PositionMoved ==
  ASSUME FileInv, SameOpen(fds, fds'), jobs = <<>>, UNCHANGED <<files, jobs, limit>>
  PROVE  FileInv'
  <1>1. FileTypes'
    BY DEF FileInv, FileTypes, SameOpen, FdTables
  <1>2. FdsOK'
    BY DEF FileInv, FdsOK, SameOpen
  <1>3. JobsOK' /\ InPlace'
    BY DEF JobsOK, InPlace
  <1> QED BY <1>1, <1>2, <1>3 DEF FileInv

LEMMA JobIs ==
  ASSUME NEW op \in {"read", "write", "flush", "fsync"}, NEW fh \in Nat,
         NEW offset \in Nat
  PROVE  /\ Job(op, fh, offset) \in Jobs /\ Job(op, fh, offset).fh = fh
         /\ Job(op, fh, offset).offset = offset /\ ~Job(op, fh, offset).sought
         /\ Job(op, fh, offset).op = op
  BY DEF Job, Jobs

LEMMA FileRequested ==
  ASSUME FileInv, NEW fh \in HeldFiles, NEW offset \in Nat,
         NEW op \in {"read", "write", "flush", "fsync"}, FileRequest(op, fh, offset),
         limit' = limit
  PROVE  FileInv'
  <1> DEFINE job == Job(op, fh, offset)
  <1>1. /\ fds \in FdTables /\ files \in Seq(Nat \cup {Deleted}) /\ jobs \in Seq(Jobs)
        /\ Len(files) = Len(fds) /\ limit \in Limits /\ Len(fds) \in Nat
    BY DEF FileInv, FileTypes, FdTables
  <1>2. fh \in 1 .. Len(fds) /\ fds[fh] # Closed /\ fh \in Nat
    BY <1>1 DEF HeldFiles, FileInv, FdsOK
  <1>3. /\ job \in Jobs /\ job.fh = fh /\ job.offset = offset /\ ~job.sought
    BY <1>2, JobIs
  <1>4. threadpool_run(job) /\ files' = files
    BY DEF FileRequest
  <1> HIDE DEF job
  <1>5. CASE limit.threads = 0
    <2>1. jobs = <<>> /\ jobs' = jobs
      BY <1>4, <1>5 DEF threadpool_run, FileInv, InPlace
    <2>2. \/ fds' = fds
          \/ fds' = Advance(SeekTo(fds, fh, offset), fh)
      BY <1>3, <1>4, <1>5 DEF threadpool_run
    <2> DEFINE E == SeekTo(fds, fh, offset)
    <2>3. SameOpen(fds, E)
      BY <1>1, <1>2, SetPos DEF SeekTo
    <2> HIDE DEF E
    <2>4. SameOpen(E, Advance(E, fh))
      BY <2>3, <1>2, AdvanceIs DEF SameOpen
    <2>5. SameOpen(fds, fds) /\ SameOpen(fds, Advance(E, fh))
      BY <1>1, <2>3, <2>4 DEF SameOpen
    <2>6. SameOpen(fds, fds')
      BY <2>2, <2>5 DEF E
    <2> QED BY <2>1, <2>6, <1>4, PositionMoved
  <1>6. CASE limit.threads # 0
    <2>1. jobs' = Append(jobs, job) /\ fds' = fds
      BY <1>4, <1>6 DEF threadpool_run
    <2>2. /\ jobs' \in Seq(Jobs) /\ Len(jobs') = Len(jobs) + 1 /\ Len(jobs) \in Nat
          /\ jobs'[Len(jobs) + 1] = job
          /\ \A j \in 1 .. Len(jobs) : jobs'[j] = jobs[j]
      BY <1>1, <1>3, <2>1
    <2>3. \A j \in 1 .. Len(jobs') : j \in 1 .. Len(jobs) \/ jobs'[j] = job
      BY <2>2
    <2>4. FileTypes' /\ FdsOK'
      BY <1>1, <1>4, <2>1, <2>2 DEF FileInv, FileTypes, FdsOK, FdTables
    <2>5. JobsOK'
      BY <1>2, <1>3, <2>1, <2>2, <2>3 DEF FileInv, JobsOK
    <2>6. InPlace'
      BY <1>3, <1>6, <2>1, <2>2, <2>3 DEF FileInv, InPlace
    <2> QED BY <2>4, <2>5, <2>6 DEF FileInv
  <1> QED BY <1>5, <1>6

(* A pool of at most one thread starts a job when no other has started.    *)
LEMMA StartedNone ==
  ASSUME FileInv, Cardinality(Started) + 1 <= limit.threads
  PROVE  /\ limit.threads # 0 /\ limit.threads \in Nat
         /\ limit.threads <= 1 =>
              /\ Cardinality(Started) + 1 = 1
              /\ \A j \in 1 .. Len(jobs) : ~jobs[j].sought
  <1>1. jobs \in Seq(Jobs) /\ limit.threads \in Nat
    BY FuseMTAssumption DEF FileInv, FileTypes
  <1>2. Started \subseteq 1 .. Len(jobs) /\ Len(jobs) \in Nat
    BY <1>1 DEF Started
  <1>3. IsFiniteSet(1 .. Len(jobs))
    BY <1>2, FS_Interval
  <1>4. IsFiniteSet(Started)
    BY <1>2, <1>3, FS_Subset
  <1>5. Cardinality(Started) \in Nat
    BY <1>4, FS_CardinalityType
  <1>6. limit.threads # 0
    BY <1>1, <1>5
  <1>7. ASSUME limit.threads <= 1
        PROVE  /\ Cardinality(Started) + 1 = 1
               /\ \A j \in 1 .. Len(jobs) : ~jobs[j].sought
    <2>1. Cardinality(Started) = 0
      BY <1>1, <1>5, <1>7
    <2>2. Started = {}
      BY <2>1, <1>4, FS_EmptySet
    <2>3. \A j \in 1 .. Len(jobs) : ~jobs[j].sought
      BY <2>2, <1>1 DEF Started
    <2> QED BY <2>1, <2>3
  <1> QED BY <1>1, <1>6, <1>7

LEMMA SeekStep ==
  ASSUME FileInv, Seek, limit' = limit
  PROVE  FileInv'
  <1> DEFINE j == Cardinality(Started) + 1
             job == jobs[j]
             fh == job.fh
             offset == job.offset
             D == [fds EXCEPT ![fh].pos = offset]
             new == [job EXCEPT !.sought = TRUE]
  <1>1. /\ j \in DOMAIN jobs /\ j <= limit.threads
        /\ fds' = D /\ jobs' = [jobs EXCEPT ![j] = new] /\ files' = files
    BY DEF Seek, SeekTo
  <1>2. /\ fds \in FdTables /\ jobs \in Seq(Jobs) /\ Len(files) = Len(fds)
    BY DEF FileInv, FileTypes, FdTables
  <1>3. /\ limit.threads # 0 /\ limit.threads \in Nat
        /\ limit.threads <= 1 => j = 1 /\ \A k \in 1 .. Len(jobs) : ~jobs[k].sought
    BY <1>1, StartedNone
  <1> HIDE DEF j
  <1>4. j \in 1 .. Len(jobs) /\ job \in Jobs /\ offset \in Nat
        /\ fh \in 1 .. Len(fds) /\ fds[fh] # Closed
    <2>1. j \in 1 .. Len(jobs) /\ job \in Jobs
      BY <1>1, <1>2
    <2> QED BY <2>1 DEF Jobs, FileInv, JobsOK
  <1>5. new \in Jobs /\ new.fh = fh /\ new.offset = offset
    BY <1>4 DEF Jobs
  <1> HIDE DEF fh, offset
  <1>6. /\ SameOpen(fds, D) /\ D[fh].pos = offset
        /\ \A g \in 1 .. Len(fds) : g # fh => D[g] = fds[g]
    <2>1. /\ fds \in FdTables /\ fh \in 1 .. Len(fds) /\ fds[fh] # Closed
          /\ offset \in Nat
      BY <1>2, <1>4
    <2> QED BY <2>1, SetPos
  <1> HIDE DEF job, D, new
  <1>7. /\ jobs' \in Seq(Jobs) /\ Len(jobs') = Len(jobs) /\ jobs'[j] = new
        /\ \A k \in 1 .. Len(jobs) : k # j => jobs'[k] = jobs[k]
    BY <1>1, <1>2, <1>4, <1>5
  <1>8. \A k \in 1 .. Len(jobs) : jobs'[k].fh = jobs[k].fh
    BY <1>5, <1>7 DEF job, fh
  <1>9. FileTypes'
    BY <1>1, <1>6, <1>7 DEF FileInv, FileTypes, FdTables, SameOpen
  <1>10. FdsOK'
    BY <1>1, <1>6 DEF FileInv, FdsOK, SameOpen
  <1>11. JobsOK'
    BY <1>1, <1>6, <1>7, <1>8 DEF FileInv, JobsOK, SameOpen
  <1>12. InPlace'
    <2> SUFFICES ASSUME limit.threads <= 1, NEW k \in 1 .. Len(jobs), jobs'[k].sought
                 PROVE  k = 1 /\ fds'[jobs'[k].fh].pos = jobs'[k].offset
      BY <1>3, <1>7 DEF InPlace
    <2>1. k = j
      BY <1>3, <1>7
    <2> QED BY <2>1, <1>1, <1>3, <1>5, <1>6, <1>7
  <1> QED BY <1>9, <1>10, <1>11, <1>12 DEF FileInv

LEMMA RemoveAtIs ==
  ASSUME NEW S, NEW s \in Seq(S), NEW j \in 1 .. Len(s)
  PROVE  /\ RemoveAt(s, j) \in Seq(S) /\ Len(RemoveAt(s, j)) = Len(s) - 1
         /\ \A k \in 1 .. Len(s) - 1 :
              RemoveAt(s, j)[k] = IF k < j THEN s[k] ELSE s[k + 1]
  <1> DEFINE a == SubSeq(s, 1, j - 1)
             b == SubSeq(s, j + 1, Len(s))
  <1>1. Len(s) \in Nat /\ j \in Nat /\ j >= 1 /\ j <= Len(s)
    OBVIOUS
  <1>2. /\ a \in Seq(S) /\ Len(a) = j - 1
        /\ \A k \in 1 .. j - 1 : a[k] = s[k]
    BY <1>1
  <1>3. /\ b \in Seq(S) /\ Len(b) = Len(s) - j
        /\ \A k \in 1 .. Len(s) - j : b[k] = s[j + k]
    BY <1>1
  <1>4. RemoveAt(s, j) = a \o b
    BY DEF RemoveAt
  <1> HIDE DEF a, b
  <1>5. a \o b \in Seq(S) /\ Len(a \o b) = Len(s) - 1
    <2>3. a \in Seq(S) /\ b \in Seq(S)
      BY <1>2, <1>3
    <2>1. a \o b \in Seq(S) /\ Len(a \o b) = Len(a) + Len(b)
      BY <2>3
    <2>2. (j - 1) + (Len(s) - j) = Len(s) - 1
      BY <1>1
    <2> QED BY <2>1, <2>2, <1>2, <1>3
  <1>6. ASSUME NEW k \in 1 .. Len(s) - 1
        PROVE  (a \o b)[k] = IF k < j THEN s[k] ELSE s[k + 1]
    <2>1. CASE k < j
      <3>1. k \in 1 .. j - 1
        BY <2>1, <1>1
      <3> QED BY <2>1, <3>1, <1>1, <1>2, <1>3
    <2>2. CASE ~ (k < j)
      <3>1. k - (j - 1) \in 1 .. Len(s) - j /\ j + (k - (j - 1)) = k + 1
        BY <2>2, <1>1
      <3>2. (a \o b)[k] = b[k - (j - 1)]
        BY <2>2, <3>1, <1>1, <1>2, <1>3
      <3> QED BY <2>2, <3>1, <3>2, <1>3
    <2> QED BY <2>1, <2>2
  <1> QED BY <1>4, <1>5, <1>6

(* A job leaves the pool; with one thread none is left between its seek    *)
(* and its transfer.                                                       *)
LEMMA JobRemoved ==
  ASSUME FileInv, NEW j \in 1 .. Len(jobs), jobs' = RemoveAt(jobs, j),
         SameOpen(fds, fds'), UNCHANGED <<files, limit>>,
         limit.threads # 0,
         limit.threads <= 1 => \A k \in 1 .. Len(jobs) : k # j => ~jobs[k].sought
  PROVE  FileInv'
  <1>1. jobs \in Seq(Jobs)
    BY DEF FileInv, FileTypes
  <1>2. /\ jobs' \in Seq(Jobs) /\ Len(jobs') = Len(jobs) - 1 /\ Len(jobs) \in Nat
        /\ \A k \in 1 .. Len(jobs) - 1 :
             jobs'[k] = IF k < j THEN jobs[k] ELSE jobs[k + 1]
    <2> DEFINE s == RemoveAt(jobs, j)
    <2>1. /\ s \in Seq(Jobs) /\ Len(s) = Len(jobs) - 1
          /\ \A k \in 1 .. Len(jobs) - 1 :
               s[k] = IF k < j THEN jobs[k] ELSE jobs[k + 1]
      BY <1>1, RemoveAtIs
    <2>2. Len(jobs) \in Nat
      BY <1>1
    <2> HIDE DEF s
    <2>3. jobs' = s
      BY DEF s
    <2> QED BY <2>1, <2>2, <2>3
  <1>3. ASSUME NEW k \in 1 .. Len(jobs')
        PROVE  \E l \in 1 .. Len(jobs) : l # j /\ jobs'[k] = jobs[l]
    <2>k. k \in 1 .. Len(jobs) - 1 /\ k \in Nat /\ j \in Nat
      BY <1>2
    <2>1. CASE k < j
      <3>1. k \in 1 .. Len(jobs) /\ k # j
        BY <2>1, <2>k, <1>2
      <3>2. jobs'[k] = jobs[k]
        BY <2>1, <2>k, <1>2
      <3> QED BY <3>1, <3>2
    <2>2. CASE ~ (k < j)
      <3>1. k + 1 \in 1 .. Len(jobs) /\ k + 1 # j
        BY <2>2, <2>k, <1>2
      <3>2. jobs'[k] = jobs[k + 1]
        BY <2>2, <2>k, <1>2
      <3> QED BY <3>1, <3>2
    <2> QED BY <2>1, <2>2
  <1>4. FileTypes'
    BY <1>2 DEF FileInv, FileTypes, FdTables, SameOpen
  <1>5. FdsOK'
    BY DEF FileInv, FdsOK, SameOpen
  <1>6. JobsOK'
    BY <1>3 DEF FileInv, JobsOK, SameOpen
  <1>7. InPlace'
    BY <1>3 DEF InPlace
  <1> QED BY <1>4, <1>5, <1>6, <1>7 DEF FileInv

LEMMA TransferStep ==
  ASSUME FileInv, NEW j \in DOMAIN jobs, Transfer(j), limit' = limit
  PROVE  FileInv'
  <1>1. /\ jobs[j].sought /\ fds' = Advance(fds, jobs[j].fh)
        /\ jobs' = RemoveAt(jobs, j) /\ files' = files
    BY DEF Transfer
  <1>2. fds \in FdTables /\ jobs \in Seq(Jobs) /\ j \in 1 .. Len(jobs)
    BY DEF FileInv, FileTypes, FdTables
  <1>3. SameOpen(fds, fds')
    BY <1>1, <1>2, AdvanceIs DEF FileInv, JobsOK
  <1>4. limit.threads # 0
    BY <1>2 DEF FileInv, InPlace
  <1>5. limit.threads <= 1 => \A k \in 1 .. Len(jobs) : k # j => ~jobs[k].sought
    BY <1>1, <1>2 DEF FileInv, InPlace
  <1> QED BY <1>1, <1>2, <1>3, <1>4, <1>5, JobRemoved

LEMMA FinishStep ==
  ASSUME FileInv, Finish, limit' = limit
  PROVE  FileInv'
  <1> DEFINE j == Cardinality(Started) + 1
  <1>1. /\ j \in DOMAIN jobs /\ j <= limit.threads
        /\ jobs' = RemoveAt(jobs, j) /\ fds' = fds /\ files' = files
    BY DEF Finish
  <1>2. fds \in FdTables /\ jobs \in Seq(Jobs)
    BY DEF FileInv, FileTypes, FdTables
  <1>3. /\ limit.threads # 0
        /\ limit.threads <= 1 => \A k \in 1 .. Len(jobs) : ~jobs[k].sought
    BY <1>1, StartedNone
  <1> HIDE DEF j
  <1>4. j \in 1 .. Len(jobs) /\ SameOpen(fds, fds')
    BY <1>1, <1>2 DEF SameOpen
  <1> QED BY <1>1, <1>3, <1>4, JobRemoved

(* A path stays a path when the tree it is in is moved.                    *)
LEMMA MovedPath ==
  ASSUME NEW old \in Seq(Names), NEW new \in Seq(Names), NEW p \in Seq(Names),
         IsPrefix(old, p)
  PROVE  new \o Rest(old, p) \in Seq(Names)
  <1>1. Len(old) \in Nat /\ Len(p) \in Nat /\ Len(old) <= Len(p)
    BY DEF IsPrefix
  <1>2. SubSeq(p, Len(old) + 1, Len(p)) \in Seq(Names)
    BY <1>1
  <1>3. Rest(old, p) \in Seq(Names)
    BY <1>2 DEF Rest
  <1> QED BY <1>3

LEMMA FilesNext ==
  ASSUME TableInv, FileInv, Next
  PROVE  FileInv'
  <1>1. limit' = limit /\ Step
    BY DEF Next
  <1>2. TableOK(inodes, nlookup)
    BY DEF TableInv
  <1>3. ASSUME NEW i \in Inodes, NEW m \in Names, NameRequest(i, m)
        PROVE  FileInv'
    <2> DEFINE path == Child(i, m)
    <2>1. CASE lookup(i, m) \/ mknod(i, m) \/ symlink(i, m) \/ mkdir(i, m) \/ rmdir(i, m)
      <3>1. UNCHANGED <<fds, files, jobs>>
        BY <2>1 DEF lookup, mknod, symlink, mkdir, rmdir, openFiles
      <3> QED BY <1>1, <3>1, FilesKept
    <2>2. CASE create(i, m)
      <3>1. path \in FileNames
        BY <2>2, ChildIs, PathFacts DEF create, NewEntry, FileNames
      <3>2. NextInode(inodes) \in Nat /\ NoInode \in Nat
        BY <1>2, NextInodeIs DEF NoInode
      <3>3. /\ fds' = Append(fds, [path |-> path, pos |-> 0]) /\ jobs' = jobs
            /\ \/ files' = Append(files, NoInode)
               \/ files' = Append(files, NextInode(inodes))
        BY <2>2 DEF create, CreateFile, OpenFile
      <3> HIDE DEF path
      <3> QED BY <1>1, <3>1, <3>2, <3>3, FileOpened
    <2>3. CASE unlink(i, m)
      <3> DEFINE N == [p \in FileNames |-> IF p = path THEN NoName ELSE p]
      <3>1. fds' = Renamed(fds, N) /\ UNCHANGED <<files, jobs>>
        BY <2>3 DEF unlink
      <3>2. N \in [FileNames -> FileNames]
        BY DEF FileNames
      <3> HIDE DEF N
      <3> QED BY <1>1, <3>1, <3>2, FilesRenamed
    <2> QED BY <1>3, <2>1, <2>2, <2>3 DEF NameRequest
  <1>4. ASSUME NEW i \in Inodes, NEW n \in 1 .. MaxLookups, forget(i, n)
        PROVE  FileInv'
    <2>1. UNCHANGED <<fds, files, jobs>>
      BY <1>4 DEF forget, openFiles
    <2> QED BY <1>1, <2>1, FilesKept
  <1>5. ASSUME NEW i \in Inodes, NEW j \in Inodes, NEW m \in Names, link(i, j, m)
        PROVE  FileInv'
    <2>1. UNCHANGED <<fds, files, jobs>>
      BY <1>5 DEF link, openFiles
    <2> QED BY <1>1, <2>1, FilesKept
  <1>6. ASSUME NEW i \in Inodes, NEW j \in Inodes, NEW m \in Names, NEW n \in Names,
               rename(i, m, j, n)
        PROVE  FileInv'
    <2> DEFINE old == Child(i, m)
               new == Child(j, n)
               N == [p \in FileNames |-> MovedFile(old, new, p)]
    <2>1. old \in Seq(Names) /\ new \in Seq(Names)
      BY <1>6, ChildIs, PathFacts DEF rename
    <2>2. fds' = Renamed(fds, N) /\ UNCHANGED <<files, jobs>>
      BY <1>6 DEF rename
    <2> HIDE DEF old, new
    <2>3. \A p \in FileNames : MovedFile(old, new, p) \in FileNames
      BY <2>1, MovedPath DEF MovedFile, FileNames
    <2>4. N \in [FileNames -> FileNames]
      BY <2>3
    <2> HIDE DEF N
    <2> QED BY <1>1, <2>2, <2>4, FilesRenamed
  <1>7. CASE DirectoryRequest
    <2>1. UNCHANGED <<fds, files, jobs>>
      BY <1>7 DEF DirectoryRequest, opendir, readdir, readdir_fails, Rewind,
                  releasedir, openFiles
    <2> QED BY <1>1, <2>1, FilesKept
  <1>8. CASE OpenFileRequest
    <2>1. ASSUME NEW i \in Inodes, open(i) PROVE FileInv'
      <3> DEFINE path == get_path(inodes, i)
      <3>1. path \in FileNames /\ i \in Nat
        BY <2>1, PathFacts, InodesAre DEF open, FileNames
      <3>2. /\ fds' = Append(fds, [path |-> path, pos |-> 0]) /\ jobs' = jobs
            /\ files' = Append(files, i)
        BY <2>1 DEF open, OpenFile
      <3> HIDE DEF path
      <3> QED BY <1>1, <3>1, <3>2, FileOpened
    <2>2. ASSUME NEW fh \in HeldFiles,
                 \/ release(fh) \/ flush(fh) \/ fsync(fh)
                 \/ \E offset \in Offsets : read(fh, offset) \/ write(fh, offset)
          PROVE  FileInv'
      <3>1. CASE release(fh)
        BY <1>1, <3>1, FileReleased
      <3>2. CASE flush(fh) \/ fsync(fh)
        BY <1>1, <3>2, FileRequested DEF flush, fsync
      <3>3. ASSUME NEW offset \in Offsets, read(fh, offset) \/ write(fh, offset)
            PROVE  FileInv'
        <4>1. offset \in Nat
          BY FuseMTAssumption
        <4> QED BY <1>1, <3>3, <4>1, FileRequested DEF read, write
      <3> QED BY <2>2, <3>1, <3>2, <3>3
    <2> QED BY <1>8, <2>1, <2>2 DEF OpenFileRequest
  <1>9. CASE PoolStep
    BY <1>1, <1>9, SeekStep, FinishStep, TransferStep DEF PoolStep
  <1> QED BY <1>1, <1>3, <1>4, <1>5, <1>6, <1>7, <1>8, <1>9 DEF Step

-----------------------------------------------------------------------------
(* Open directories.                                                       *)

(* What was read, and the m entries that follow, are the first p + m.      *)
LEMMA ReadOn ==
  ASSUME NEW S, NEW list \in Seq(S), NEW p \in Nat, NEW m \in Nat, p + m <= Len(list)
  PROVE  SubSeq(list, 1, p) \o [j \in 1 .. m |-> list[p + j]] = SubSeq(list, 1, p + m)
  <1> DEFINE a == SubSeq(list, 1, p)
             b == [j \in 1 .. m |-> list[p + j]]
             c == SubSeq(list, 1, p + m)
  <1>1. Len(list) \in Nat
    OBVIOUS
  <1>2. a \in Seq(S) /\ Len(a) = p /\ \A k \in 1 .. p : a[k] = list[k]
    BY <1>1
  <1>3. c \in Seq(S) /\ Len(c) = p + m /\ \A k \in 1 .. p + m : c[k] = list[k]
    BY <1>1
  <1>4. b \in Seq(S) /\ Len(b) = m /\ \A k \in 1 .. m : b[k] = list[p + k]
    <2>1. \A j \in 1 .. m : list[p + j] \in S
      BY <1>1
    <2> QED BY <2>1
  <1> HIDE DEF a, b, c
  <1>5. /\ a \o b \in Seq(S) /\ Len(a \o b) = p + m
        /\ \A k \in 1 .. p + m : (a \o b)[k] = IF k <= p THEN a[k] ELSE b[k - p]
    BY <1>2, <1>4, ConcatProperties
  <1>6. ASSUME NEW k \in 1 .. p + m PROVE (a \o b)[k] = c[k]
    <2>1. CASE k <= p
      <3>1. k \in 1 .. p
        BY <2>1
      <3> QED BY <2>1, <3>1, <1>2, <1>3, <1>5
    <2>2. CASE ~ (k <= p)
      <3>1. k - p \in 1 .. m /\ p + (k - p) = k
        BY <2>2
      <3> QED BY <2>2, <3>1, <1>3, <1>4, <1>5
    <2> QED BY <2>1, <2>2
  <1>7. a \o b = c
    BY <1>3, <1>5, <1>6, SeqEqual
  <1> QED BY <1>7 DEF a, b, c

LEMMA MinIs ==
  ASSUME NEW a \in Nat, NEW b \in Nat
  PROVE  Min({a, b}) = IF a <= b THEN a ELSE b
  <1>1. \E x \in {a, b} : \A y \in {a, b} : x =< y
    OBVIOUS
  <1>2. Min({a, b}) \in {a, b} /\ \A y \in {a, b} : Min({a, b}) =< y
    BY <1>1 DEF Min
  <1> QED BY <1>2

(* A page is a part of the list, and is empty only at its end.             *)
LEMMA PageIs ==
  ASSUME NEW list \in Lists, NEW p \in Nat, p <= Len(list)
  PROVE  \E n \in Nat :
           /\ Page(list, p) = [i \in 1 .. n |-> [name |-> list[p + i], cookie |-> p + i]]
           /\ p + n <= Len(list) /\ (n = 0 => p = Len(list))
  <1> DEFINE n == Min({PageSize, Len(list) - p})
  <1>1. Len(list) \in Nat /\ Len(list) - p \in Nat /\ PageSize \in Nat \ {0}
    BY FuseMTAssumption DEF Lists
  <1>2. n = IF PageSize <= Len(list) - p THEN PageSize ELSE Len(list) - p
    BY <1>1, MinIs
  <1>3. Page(list, p) = [i \in 1 .. n |-> [name |-> list[p + i], cookie |-> p + i]]
    BY DEF Page
  <1> HIDE DEF n
  <1>4. n \in Nat /\ p + n <= Len(list) /\ (n = 0 => p = Len(list))
    BY <1>1, <1>2
  <1> QED BY <1>3, <1>4

LEMMA ReadingIs ==
  ASSUME NEW l \in Readings
  PROVE  /\ l # Deleted /\ l.ino \in Nat /\ l.pos \in Nat /\ l.seen \in Lists
         /\ l.atEnd \in BOOLEAN /\ l.first \in Lists \cup {NoList}
  BY MarkersAssumption DEF Readings

(* The part of a page that the kernel consumes.                            *)
LEMMA ConsumedOK ==
  ASSUME NEW l \in Readings, l.first \in Lists, ReadingOK(l),
         NEW new \in Consumed(l, Page(l.first, l.pos))
  PROVE  new \in Readings /\ new.first = l.first /\ ReadingOK(new)
  <1> DEFINE list == l.first
             p == l.pos
             page == Page(list, p)
  <1>1. /\ p \in Nat /\ l.seen \in Lists /\ l.ino \in Nat /\ l.atEnd \in BOOLEAN
        /\ list \in Lists /\ list # NoList /\ Len(list) \in Nat
    BY ReadingIs, MarkersAssumption DEF Lists
  <1>2. p <= Len(list) /\ l.seen = SubSeq(list, 1, p) /\ (l.atEnd => p = Len(list))
    BY <1>1 DEF ReadingOK
  <1>3. PICK n \in Nat :
          /\ page = [i \in 1 .. n |-> [name |-> list[p + i], cookie |-> p + i]]
          /\ p + n <= Len(list) /\ (n = 0 => p = Len(list))
    BY <1>1, <1>2, PageIs
  <1>4. DOMAIN page = 1 .. n
    BY <1>3
  <1>5. CASE page = <<>>
    <2>1. n = 0
      <3>1. 1 .. n = {}
        BY <1>4, <1>5
      <3> QED BY <3>1
    <2>2. new = [l EXCEPT !.atEnd = TRUE]
      BY <1>5 DEF Consumed
    <2>3. /\ new \in Readings /\ new.first = list /\ new.pos = p /\ new.seen = l.seen
          /\ new.atEnd
      BY <2>2 DEF Readings
    <2> QED BY <2>1, <2>3, <1>1, <1>2, <1>3 DEF ReadingOK
  <1>6. CASE page # <<>>
    <2>1. PICK m \in DOMAIN page :
            new = [l EXCEPT !.pos = page[m].cookie,
                            !.seen = l.seen \o [j \in 1 .. m |-> page[j].name]]
      BY <1>6 DEF Consumed
    <2>2. m \in 1 .. n /\ m \in Nat /\ p + m <= Len(list) /\ p + m \in Nat
      BY <1>1, <1>3, <1>4
    <2>3. page[m].cookie = p + m
      BY <1>3, <2>2
    <2>4. [j \in 1 .. m |-> page[j].name] = [j \in 1 .. m |-> list[p + j]]
      <3>1. \A j \in 1 .. m : j \in 1 .. n
        BY <2>2
      <3>2. \A j \in 1 .. m : page[j].name = list[p + j]
        BY <1>3, <3>1
      <3> QED BY <3>2
    <2>5. l.seen \o [j \in 1 .. m |-> page[j].name] = SubSeq(list, 1, p + m)
      <3> HIDE DEF list, p, page
      <3>1. list \in Seq(Names \cup {".", ".."})
        BY <1>1 DEF Lists
      <3>2. SubSeq(list, 1, p) \o [j \in 1 .. m |-> list[p + j]] = SubSeq(list, 1, p + m)
        BY <1>1, <2>2, <3>1, ReadOn
      <3> QED BY <1>2, <2>4, <3>2
    <2> DEFINE s == SubSeq(list, 1, p + m)
    <2>6. s \in Lists
      BY <1>1, <2>2 DEF Lists
    <2>7. new = [l EXCEPT !.pos = p + m, !.seen = s]
      BY <2>1, <2>3, <2>5
    <2> HIDE DEF s
    <2>8. /\ new \in Readings /\ new.first = list /\ new.pos = p + m /\ new.seen = s
          /\ new.atEnd = l.atEnd
      BY <2>2, <2>6, <2>7 DEF Readings
    <2>9. ~l.atEnd
      BY <1>1, <1>2, <2>2
    <2> QED BY <2>2, <2>8, <2>9, <1>1 DEF ReadingOK, s
  <1> QED BY <1>5, <1>6

LEMMA DirsKept ==
  ASSUME DirInv, UNCHANGED <<directory_cache, listing, targetDirs>>
  PROVE  DirInv'
  BY DEF DirInv, DirTypes, KeysOK, CacheOK, HandlesOK

(* The directories behind the handles move or are removed.                 *)
LEMMA DirsMoved ==
  ASSUME DirInv, UNCHANGED <<directory_cache, listing>>,
         targetDirs' \in Seq(Seq(Names) \cup {NoPath, Deleted}),
         Len(targetDirs') = Len(targetDirs),
         \A fh \in 1 .. Len(targetDirs) :
           targetDirs'[fh] = Deleted <=> targetDirs[fh] = Deleted
  PROVE  DirInv'
  <1>1. DirTypes' /\ KeysOK'
    BY DEF DirInv, DirTypes, KeysOK
  <1>2. CacheOK'
    BY DEF DirInv, CacheOK
  <1>3. HandlesOK'
    BY DEF DirInv, HandlesOK
  <1> QED BY <1>1, <1>2, <1>3 DEF DirInv

LEMMA OpendirStep ==
  ASSUME DirInv, NEW i \in Inodes, opendir(i)
  PROVE  DirInv'
  <1> DEFINE path == get_path(inodes, i)
             h == Len(targetDirs) + 1
             k == Len(listing) + 1
             e == [fh |-> h, entries |-> NoList]
             l == [ino |-> i, pos |-> 0, seen |-> <<>>, atEnd |-> FALSE, first |-> NoList]
  <1>1. /\ targetDirs' = Append(targetDirs, path)
        /\ directory_cache' = Append(directory_cache, e)
        /\ listing' = Append(listing, l) /\ path \in Paths
    BY DEF opendir, new_entry
  <1>2. path \in Seq(Names) /\ path # Deleted
    BY <1>1, PathFacts, MarkersAssumption
  <1>3. /\ directory_cache \in Seq(CacheEntries \cup {Deleted})
        /\ listing \in Seq(Readings \cup {Deleted})
        /\ targetDirs \in Seq(Seq(Names) \cup {NoPath, Deleted})
        /\ Len(directory_cache) = Len(listing) /\ Len(listing) \in Nat
        /\ Len(targetDirs) \in Nat
    BY DEF DirInv, DirTypes
  <1>4. /\ e \in CacheEntries /\ e # Deleted /\ e.fh = h /\ e.entries = NoList
    <2>1. e \in CacheEntries
      BY <1>3 DEF CacheEntries
    <2> QED BY <2>1, MarkersAssumption
  <1>5. l \in Readings /\ l # Deleted /\ l.first = NoList /\ ReadingOK(l)
    <2>1. <<>> \in Lists /\ i \in Nat
      BY InodesAre DEF Lists
    <2>2. l \in Readings
      BY <2>1 DEF Readings
    <2> QED BY <2>2, MarkersAssumption DEF ReadingOK
  <1> HIDE DEF path, e, l
  <1>6. /\ targetDirs' \in Seq(Seq(Names) \cup {NoPath, Deleted})
        /\ Len(targetDirs') = h /\ targetDirs'[h] = path
        /\ \A fh \in 1 .. Len(targetDirs) : targetDirs'[fh] = targetDirs[fh]
    BY <1>1, <1>2, <1>3
  <1>7. /\ directory_cache' \in Seq(CacheEntries \cup {Deleted})
        /\ Len(directory_cache') = k /\ directory_cache'[k] = e
        /\ \A j \in 1 .. Len(listing) : directory_cache'[j] = directory_cache[j]
    BY <1>1, <1>3, <1>4
  <1>8. /\ listing' \in Seq(Readings \cup {Deleted})
        /\ Len(listing') = k /\ listing'[k] = l
        /\ \A j \in 1 .. Len(listing) : listing'[j] = listing[j]
    BY <1>1, <1>3, <1>5
  <1>9. /\ \A j \in 1 .. k : j \in 1 .. Len(listing) \/ j = k
        /\ \A fh \in 1 .. h : fh \in 1 .. Len(targetDirs) \/ fh = h
        /\ h \notin 1 .. Len(targetDirs) /\ h \in 1 .. h /\ k \in 1 .. k
        /\ 1 .. Len(targetDirs) \subseteq 1 .. h /\ 1 .. Len(listing) \subseteq 1 .. k
    BY <1>3
  <1> HIDE DEF h, k
  <1>10. DirTypes'
    BY <1>6, <1>7, <1>8 DEF DirTypes
  <1>11. KeysOK'
    BY <1>4, <1>5, <1>7, <1>8, <1>9 DEF DirInv, KeysOK
  <1>12. CacheOK'
    <2> SUFFICES ASSUME NEW j \in 1 .. k, listing'[j] # Deleted
                 PROVE  /\ directory_cache'[j].fh \in 1 .. Len(targetDirs')
                        /\ targetDirs'[directory_cache'[j].fh] # Deleted
                        /\ directory_cache'[j].entries = listing'[j].first
                        /\ ReadingOK(listing'[j])
      BY <1>8 DEF CacheOK, ReadingOK
    <2>1. CASE j = k
      BY <2>1, <1>2, <1>4, <1>5, <1>6, <1>7, <1>8, <1>9
    <2>2. CASE j # k
      <3>1. j \in 1 .. Len(listing) /\ listing'[j] = listing[j]
            /\ directory_cache'[j] = directory_cache[j]
        BY <2>2, <1>7, <1>8, <1>9
      <3>2. /\ directory_cache[j].fh \in 1 .. Len(targetDirs)
            /\ targetDirs[directory_cache[j].fh] # Deleted
            /\ directory_cache[j].entries = listing[j].first
            /\ ReadingOK(listing[j])
        BY <3>1 DEF DirInv, CacheOK
      <3> QED BY <3>1, <3>2, <1>6, <1>9
    <2> QED BY <2>1, <2>2
  <1>13. HandlesOK'
    <2>1. \A j \in 1 .. Len(listing) :
            listing[j] # Deleted => directory_cache[j].fh \in 1 .. Len(targetDirs)
      BY DEF DirInv, CacheOK
    <2>2. ASSUME NEW j \in 1 .. k, NEW m \in 1 .. k, listing'[j] # Deleted,
                 listing'[m] # Deleted, directory_cache'[j].fh = directory_cache'[m].fh
          PROVE  j = m
      <3>1. CASE j # k /\ m # k
        <4>1. j \in 1 .. Len(listing) /\ m \in 1 .. Len(listing)
          BY <3>1, <1>9
        <4> QED BY <4>1, <2>2, <1>7, <1>8 DEF DirInv, HandlesOK
      <3>2. CASE j = k /\ m # k
        BY <3>2, <2>1, <2>2, <1>4, <1>7, <1>8, <1>9
      <3>3. CASE j # k /\ m = k
        BY <3>3, <2>1, <2>2, <1>4, <1>7, <1>8, <1>9
      <3> QED BY <3>1, <3>2, <3>3
    <2>3. ASSUME NEW fh \in 1 .. h, targetDirs'[fh] # Deleted
          PROVE  \E j \in 1 .. k : listing'[j] # Deleted /\ directory_cache'[j].fh = fh
      <3>1. CASE fh = h
        BY <3>1, <1>4, <1>5, <1>7, <1>8, <1>9
      <3>2. CASE fh # h
        <4>1. fh \in 1 .. Len(targetDirs) /\ targetDirs[fh] # Deleted
          BY <3>2, <2>3, <1>6, <1>9
        <4>2. PICK j \in 1 .. Len(listing) :
                listing[j] # Deleted /\ directory_cache[j].fh = fh
          BY <4>1 DEF DirInv, HandlesOK
        <4> QED BY <4>2, <1>7, <1>8, <1>9
      <3> QED BY <3>1, <3>2
    <2> QED BY <2>2, <2>3, <1>6, <1>8 DEF HandlesOK
  <1> QED BY <1>10, <1>11, <1>12, <1>13 DEF DirInv

(* What the kernel has read through one handle changes.                    *)
LEMMA ReadingStep ==
  ASSUME DirInv, NEW k \in OpenKeys, NEW new \in Readings, ReadingOK(new),
         listing' = [listing EXCEPT ![k] = new],
         directory_cache' = [directory_cache EXCEPT ![k].entries = new.first],
         targetDirs' = targetDirs
  PROVE  DirInv'
  <1> DEFINE e == [directory_cache[k] EXCEPT !.entries = new.first]
  <1>1. /\ directory_cache \in Seq(CacheEntries \cup {Deleted})
        /\ listing \in Seq(Readings \cup {Deleted})
        /\ Len(directory_cache) = Len(listing) /\ Len(listing) \in Nat
    BY DEF DirInv, DirTypes
  <1>2. k \in 1 .. Len(listing) /\ listing[k] # Deleted
    BY <1>1 DEF OpenKeys
  <1>3. directory_cache[k] \in CacheEntries
    BY <1>1, <1>2 DEF DirInv, KeysOK
  <1>4. /\ e \in CacheEntries /\ e # Deleted /\ e.fh = directory_cache[k].fh
        /\ e.entries = new.first
    <2>1. new.first \in Lists \cup {NoList}
      BY ReadingIs
    <2>2. e \in CacheEntries /\ e.fh = directory_cache[k].fh /\ e.entries = new.first
      BY <2>1, <1>3 DEF CacheEntries
    <2> QED BY <2>2, MarkersAssumption
  <1>5. directory_cache' = [directory_cache EXCEPT ![k] = e]
    OBVIOUS
  <1> HIDE DEF e
  <1>6. /\ directory_cache' \in Seq(CacheEntries \cup {Deleted})
        /\ Len(directory_cache') = Len(listing) /\ directory_cache'[k] = e
        /\ \A j \in 1 .. Len(listing) : j # k => directory_cache'[j] = directory_cache[j]
    BY <1>1, <1>2, <1>4, <1>5
  <1>7. /\ listing' \in Seq(Readings \cup {Deleted})
        /\ Len(listing') = Len(listing) /\ listing'[k] = new
        /\ \A j \in 1 .. Len(listing) : j # k => listing'[j] = listing[j]
    BY <1>1, <1>2
  <1>8. new # Deleted
    BY ReadingIs
  <1>9. \A j \in 1 .. Len(listing) :
          /\ listing'[j] = Deleted <=> listing[j] = Deleted
          /\ listing[j] # Deleted => directory_cache'[j].fh = directory_cache[j].fh
    BY <1>2, <1>4, <1>6, <1>7, <1>8
  <1>10. DirTypes'
    BY <1>6, <1>7 DEF DirInv, DirTypes
  <1>11. KeysOK'
    BY <1>4, <1>6, <1>7, <1>8 DEF DirInv, KeysOK
  <1>12. CacheOK'
    <2> SUFFICES ASSUME NEW j \in 1 .. Len(listing), listing'[j] # Deleted
                 PROVE  /\ directory_cache'[j].fh \in 1 .. Len(targetDirs)
                        /\ targetDirs[directory_cache'[j].fh] # Deleted
                        /\ directory_cache'[j].entries = listing'[j].first
                        /\ ReadingOK(listing'[j])
      BY <1>7 DEF CacheOK, ReadingOK
    <2>1. /\ directory_cache[j].fh \in 1 .. Len(targetDirs)
          /\ targetDirs[directory_cache[j].fh] # Deleted
          /\ directory_cache[j].entries = listing[j].first
          /\ ReadingOK(listing[j])
      BY <1>9 DEF DirInv, CacheOK
    <2>2. CASE j = k
      BY <2>1, <2>2, <1>4, <1>6, <1>7
    <2>3. CASE j # k
      BY <2>1, <2>3, <1>6, <1>7
    <2> QED BY <2>2, <2>3
  <1>13. HandlesOK'
    BY <1>7, <1>9 DEF DirInv, HandlesOK
  <1> QED BY <1>10, <1>11, <1>12, <1>13 DEF DirInv

(* The entries that readdir works on.                                      *)
LEMMA FetchedIs ==
  ASSUME DirInv, NEW k \in OpenKeys, NEW list \in Fetched(k)
  PROVE  /\ k \in 1 .. Len(listing) /\ listing[k] \in Readings
         /\ ReadingOK(listing[k]) /\ directory_cache[k].entries = listing[k].first
         /\ list \in Lists
         /\ listing[k].first # NoList => list = listing[k].first
  <1>1. /\ listing \in Seq(Readings \cup {Deleted}) /\ Len(directory_cache) = Len(listing)
        /\ targetDirs \in Seq(Seq(Names) \cup {NoPath, Deleted})
    BY DEF DirInv, DirTypes
  <1>2. k \in 1 .. Len(listing) /\ listing[k] # Deleted /\ listing[k] \in Readings
    BY <1>1 DEF OpenKeys
  <1>3. /\ directory_cache[k].entries = listing[k].first /\ ReadingOK(listing[k])
        /\ listing[k].first \in Lists \cup {NoList}
    BY <1>2, ReadingIs DEF DirInv, CacheOK
  <1>4. CASE directory_cache[k].entries # NoList
    BY <1>2, <1>3, <1>4 DEF Fetched
  <1>5. CASE directory_cache[k].entries = NoList
    <2> DEFINE fh == directory_cache[k].fh
               C == Children(targetDirs[fh])
    <2>1. list \in TargetLists(fh)
      BY <1>5 DEF Fetched, real_fh
    <2>2. CASE targetDirs[fh] = NoPath
      <3>1. list = <<>>
        BY <2>1, <2>2 DEF TargetLists
      <3> QED BY <3>1, <1>2, <1>3, <1>5 DEF Lists
    <2>3. CASE targetDirs[fh] # NoPath
      <3>1. PICK l \in SetToSeqs(C) : list = <<".", "..">> \o l
        BY <2>1, <2>3 DEF TargetLists
      <3>2. C \subseteq Names
        BY DEF Children
      <3>3. Cardinality(C) \in Nat
        BY <3>2, MarkersAssumption, FS_Subset, FS_CardinalityType
      <3> HIDE DEF C
      <3>4. l \in [1 .. Cardinality(C) -> C]
        BY DEF SetToSeqs
      <3>5. l \in Seq(Names \cup {".", ".."})
        BY <3>2, <3>3, <3>4
      <3>6. <<".", "..">> \in Seq(Names \cup {".", ".."})
        OBVIOUS
      <3>7. list \in Lists
        BY <3>1, <3>5, <3>6, ConcatProperties DEF Lists
      <3> QED BY <3>7, <1>2, <1>3, <1>5
    <2> QED BY <2>2, <2>3
  <1> QED BY <1>4, <1>5

LEMMA ReaddirStep ==
  ASSUME DirInv, NEW k \in OpenKeys, readdir(k)
  PROVE  DirInv'
  <1>1. PICK list \in Fetched(k) :
          LET l == [listing[k] EXCEPT !.first = IF @ = NoList THEN list ELSE @]
          IN  /\ directory_cache' = set_entries(directory_cache, k, list)
              /\ \/ listing' = [listing EXCEPT ![k] = l]
                 \/ \E new \in Consumed(l, Page(list, l.pos)) :
                      listing' = [listing EXCEPT ![k] = new]
    BY DEF readdir
  <1>2. targetDirs' = targetDirs
    BY DEF readdir
  <1> DEFINE old == listing[k]
             l == [listing[k] EXCEPT !.first = IF @ = NoList THEN list ELSE @]
  <1>3. /\ old \in Readings /\ ReadingOK(old) /\ list \in Lists
        /\ old.first # NoList => list = old.first
    BY FetchedIs
  <1>4. list # NoList /\ Len(list) \in Nat /\ <<>> = SubSeq(list, 1, 0)
    BY <1>3, MarkersAssumption DEF Lists
  <1>5. l = [old EXCEPT !.first = list]
    BY <1>3
  <1>6. /\ directory_cache' = [directory_cache EXCEPT ![k].entries = list]
        /\ \/ listing' = [listing EXCEPT ![k] = l]
           \/ \E new \in Consumed(l, Page(list, l.pos)) :
                listing' = [listing EXCEPT ![k] = new]
    BY <1>1 DEF set_entries
  <1> HIDE DEF old, l
  <1>7. /\ l \in Readings /\ l.first = list /\ l.pos = old.pos /\ l.seen = old.seen
        /\ l.atEnd = old.atEnd
    BY <1>3, <1>5 DEF Readings
  <1>8. ReadingOK(l)
    <2>1. CASE old.first = NoList
      <3>1. old.pos = 0 /\ old.seen = <<>> /\ ~old.atEnd
        BY <1>3, <2>1 DEF ReadingOK
      <3>2. l.pos = 0 /\ l.seen = SubSeq(list, 1, l.pos) /\ ~l.atEnd /\ 0 <= Len(list)
        BY <3>1, <1>4, <1>7
      <3> QED BY <3>2, <1>4, <1>7 DEF ReadingOK
    <2>2. CASE old.first # NoList
      BY <2>2, <1>3, <1>4, <1>7 DEF ReadingOK
    <2> QED BY <2>1, <2>2
  <1>9. ASSUME listing' = [listing EXCEPT ![k] = l]
        PROVE  DirInv'
    BY <1>2, <1>6, <1>7, <1>8, <1>9, ReadingStep
  <1>10. ASSUME NEW new \in Consumed(l, Page(list, l.pos)),
                listing' = [listing EXCEPT ![k] = new]
         PROVE  DirInv'
    <2>1. new \in Readings /\ new.first = list /\ ReadingOK(new)
      BY <1>3, <1>7, <1>8, ConsumedOK
    <2> QED BY <1>2, <1>6, <1>10, <2>1, ReadingStep
  <1> QED BY <1>6, <1>9, <1>10

LEMMA RewindStep ==
  ASSUME DirInv, NEW k \in OpenKeys, Rewind(k)
  PROVE  DirInv'
  <1> DEFINE old == listing[k]
             new == [old EXCEPT !.pos = 0, !.seen = <<>>, !.atEnd = FALSE]
  <1>1. /\ listing' = [listing EXCEPT ![k] = new]
        /\ directory_cache' = directory_cache /\ targetDirs' = targetDirs
    BY DEF Rewind
  <1>2. /\ directory_cache \in Seq(CacheEntries \cup {Deleted})
        /\ listing \in Seq(Readings \cup {Deleted})
        /\ Len(directory_cache) = Len(listing)
    BY DEF DirInv, DirTypes
  <1>3. k \in 1 .. Len(listing) /\ old # Deleted /\ old \in Readings
    BY <1>2 DEF OpenKeys
  <1>4. directory_cache[k].entries = old.first /\ directory_cache[k] \in CacheEntries
    BY <1>2, <1>3 DEF DirInv, CacheOK, KeysOK
  <1>5. <<>> \in Lists /\ \A s \in Lists : <<>> = SubSeq(s, 1, 0) /\ 0 <= Len(s)
    BY DEF Lists
  <1> HIDE DEF old
  <1>6. /\ new \in Readings /\ new.first = old.first /\ new.pos = 0 /\ new.seen = <<>>
        /\ ~new.atEnd
    BY <1>3, <1>5 DEF Readings
  <1> HIDE DEF new
  <1>7. ReadingOK(new)
    <2>1. new.first \in Lists \cup {NoList}
      BY <1>6, ReadingIs
    <2> QED BY <2>1, <1>5, <1>6 DEF ReadingOK
  <1>8. directory_cache' = [directory_cache EXCEPT ![k].entries = new.first]
    <2>1. [directory_cache[k] EXCEPT !.entries = new.first] = directory_cache[k]
      BY <1>4, <1>6 DEF CacheEntries
    <2>2. [directory_cache EXCEPT ![k] = directory_cache[k]] = directory_cache
      BY <1>2
    <2> QED BY <2>1, <2>2, <1>1
  <1> QED BY <1>1, <1>6, <1>7, <1>8, ReadingStep

LEMMA ReleasedirStep ==
  ASSUME DirInv, NEW k \in OpenKeys, releasedir(k)
  PROVE  DirInv'
  <1> DEFINE h == directory_cache[k].fh
  <1>1. /\ targetDirs' = [targetDirs EXCEPT ![h] = Deleted]
        /\ directory_cache' = [directory_cache EXCEPT ![k] = Deleted]
        /\ listing' = [listing EXCEPT ![k] = Deleted]
    BY DEF releasedir, real_fh, delete
  <1>2. /\ directory_cache \in Seq(CacheEntries \cup {Deleted})
        /\ listing \in Seq(Readings \cup {Deleted})
        /\ targetDirs \in Seq(Seq(Names) \cup {NoPath, Deleted})
        /\ Len(directory_cache) = Len(listing)
    BY DEF DirInv, DirTypes
  <1>3. k \in 1 .. Len(listing) /\ listing[k] # Deleted
    BY <1>2 DEF OpenKeys
  <1>4. h \in 1 .. Len(targetDirs)
    BY <1>3 DEF DirInv, CacheOK
  <1>5. \A j \in 1 .. Len(listing) :
          listing[j] # Deleted /\ j # k => directory_cache[j].fh # h
    BY <1>3 DEF DirInv, HandlesOK
  <1> HIDE DEF h
  <1>6. /\ targetDirs' \in Seq(Seq(Names) \cup {NoPath, Deleted})
        /\ Len(targetDirs') = Len(targetDirs) /\ targetDirs'[h] = Deleted
        /\ \A fh \in 1 .. Len(targetDirs) : fh # h => targetDirs'[fh] = targetDirs[fh]
    BY <1>1, <1>2, <1>4
  <1>7. /\ directory_cache' \in Seq(CacheEntries \cup {Deleted})
        /\ Len(directory_cache') = Len(listing) /\ directory_cache'[k] = Deleted
        /\ \A j \in 1 .. Len(listing) : j # k => directory_cache'[j] = directory_cache[j]
    BY <1>1, <1>2, <1>3
  <1>8. /\ listing' \in Seq(Readings \cup {Deleted})
        /\ Len(listing') = Len(listing) /\ listing'[k] = Deleted
        /\ \A j \in 1 .. Len(listing) : j # k => listing'[j] = listing[j]
    BY <1>1, <1>2, <1>3
  <1>9. DirTypes'
    BY <1>6, <1>7, <1>8 DEF DirTypes
  <1>10. KeysOK'
    BY <1>7, <1>8 DEF DirInv, KeysOK
  <1>11. CacheOK'
    <2> SUFFICES ASSUME NEW j \in 1 .. Len(listing), listing'[j] # Deleted
                 PROVE  /\ directory_cache'[j].fh \in 1 .. Len(targetDirs')
                        /\ targetDirs'[directory_cache'[j].fh] # Deleted
                        /\ directory_cache'[j].entries = listing'[j].first
                        /\ ReadingOK(listing'[j])
      BY <1>8 DEF CacheOK, ReadingOK
    <2>1. j # k /\ listing'[j] = listing[j] /\ directory_cache'[j] = directory_cache[j]
      BY <1>7, <1>8
    <2>2. /\ directory_cache[j].fh \in 1 .. Len(targetDirs)
          /\ targetDirs[directory_cache[j].fh] # Deleted
          /\ directory_cache[j].entries = listing[j].first
          /\ ReadingOK(listing[j])
      BY <2>1 DEF DirInv, CacheOK
    <2> QED BY <2>1, <2>2, <1>5, <1>6
  <1>12. HandlesOK'
    <2>1. ASSUME NEW j \in 1 .. Len(listing), NEW m \in 1 .. Len(listing),
                 listing'[j] # Deleted, listing'[m] # Deleted,
                 directory_cache'[j].fh = directory_cache'[m].fh
          PROVE  j = m
      <3>1. j # k /\ m # k
        BY <2>1, <1>8
      <3> QED BY <3>1, <2>1, <1>7, <1>8 DEF DirInv, HandlesOK
    <2>2. ASSUME NEW fh \in 1 .. Len(targetDirs), targetDirs'[fh] # Deleted
          PROVE  \E j \in 1 .. Len(listing) :
                   listing'[j] # Deleted /\ directory_cache'[j].fh = fh
      <3>1. fh # h /\ targetDirs[fh] # Deleted
        BY <2>2, <1>6
      <3>2. PICK j \in 1 .. Len(listing) : listing[j] # Deleted /\ directory_cache[j].fh = fh
        BY <3>1 DEF DirInv, HandlesOK
      <3>3. j # k
        BY <3>1, <3>2 DEF h
      <3> QED BY <3>2, <3>3, <1>7, <1>8
    <2> QED BY <2>1, <2>2, <1>6, <1>8 DEF HandlesOK
  <1> QED BY <1>9, <1>10, <1>11, <1>12 DEF DirInv


LEMMA DirsNext ==
  ASSUME TableInv, DirInv, Next
  PROVE  DirInv'
  <1>1. Step
    BY DEF Next
  <1>2. targetDirs \in Seq(Seq(Names) \cup {NoPath, Deleted})
    BY DEF DirInv, DirTypes
  <1>3. DOMAIN targetDirs = 1 .. Len(targetDirs) /\ Len(targetDirs) \in Nat
    BY <1>2
  <1>4. ASSUME NEW i \in Inodes, NEW m \in Names, NameRequest(i, m)
        PROVE  DirInv'
    <2>1. CASE \/ lookup(i, m) \/ create(i, m) \/ mknod(i, m) \/ symlink(i, m)
               \/ mkdir(i, m) \/ unlink(i, m)
      <3>1. UNCHANGED <<directory_cache, listing, targetDirs>>
        BY <2>1 DEF lookup, create, mknod, symlink, mkdir, unlink, NewEntry, listings
      <3> QED BY <3>1, DirsKept
    <2>2. CASE rmdir(i, m)
      <3> DEFINE path == Child(i, m)
                 D == [fh \in DOMAIN targetDirs |->
                         IF targetDirs[fh] = path THEN NoPath ELSE targetDirs[fh]]
      <3>1. path \in Seq(Names)
        BY <2>2, ChildIs, PathFacts DEF rmdir
      <3>2. targetDirs' = D /\ UNCHANGED <<directory_cache, listing>>
        BY <2>2 DEF rmdir, listings
      <3>3. path # Deleted /\ NoPath # Deleted
        BY <3>1, MarkersAssumption
      <3> HIDE DEF path
      <3>4. \A fh \in 1 .. Len(targetDirs) :
              /\ D[fh] \in Seq(Names) \cup {NoPath, Deleted}
              /\ D[fh] = Deleted <=> targetDirs[fh] = Deleted
        BY <1>2, <1>3, <3>3
      <3>5. D \in Seq(Seq(Names) \cup {NoPath, Deleted}) /\ Len(D) = Len(targetDirs)
        BY <1>3, <3>4
      <3> HIDE DEF D
      <3> QED BY <3>2, <3>4, <3>5, DirsMoved
    <2> QED BY <1>4, <2>1, <2>2 DEF NameRequest
  <1>5. ASSUME NEW i \in Inodes, NEW n \in 1 .. MaxLookups, forget(i, n)
        PROVE  DirInv'
    <2>1. UNCHANGED <<directory_cache, listing, targetDirs>>
      BY <1>5 DEF forget, listings
    <2> QED BY <2>1, DirsKept
  <1>6. ASSUME NEW i \in Inodes, NEW j \in Inodes, NEW m \in Names, link(i, j, m)
        PROVE  DirInv'
    <2>1. UNCHANGED <<directory_cache, listing, targetDirs>>
      BY <1>6 DEF link, NewEntry, listings
    <2> QED BY <2>1, DirsKept
  <1>7. ASSUME NEW i \in Inodes, NEW j \in Inodes, NEW m \in Names, NEW n \in Names,
               rename(i, m, j, n)
        PROVE  DirInv'
    <2> DEFINE old == Child(i, m)
               new == Child(j, n)
               D == [fh \in DOMAIN targetDirs |-> MovedDir(old, new, targetDirs[fh])]
    <2>1. old \in Seq(Names) /\ new \in Seq(Names)
      BY <1>7, ChildIs, PathFacts DEF rename
    <2>2. targetDirs' = D /\ UNCHANGED <<directory_cache, listing>>
      BY <1>7 DEF rename, listings
    <2> HIDE DEF old, new
    <2>3. ASSUME NEW p \in Seq(Names)
          PROVE  MovedDir(old, new, p) \in Seq(Names) \cup {NoPath}
      <3>1. p # NoPath /\ p # Deleted
        BY MarkersAssumption
      <3> QED BY <3>1, <2>1, MovedPath DEF MovedDir
    <2>4. MovedDir(old, new, NoPath) = NoPath /\ MovedDir(old, new, Deleted) = Deleted
      BY DEF MovedDir
    <2>5. \A fh \in 1 .. Len(targetDirs) :
            D[fh] = MovedDir(old, new, targetDirs[fh])
      BY <1>3
    <2>6. D \in [1 .. Len(targetDirs) -> Seq(Names) \cup {NoPath, Deleted}]
      <3>1. \A fh \in 1 .. Len(targetDirs) :
              MovedDir(old, new, targetDirs[fh]) \in Seq(Names) \cup {NoPath, Deleted}
        BY <1>2, <2>3, <2>4
      <3> QED BY <1>3, <3>1
    <2>7. D \in Seq(Seq(Names) \cup {NoPath, Deleted}) /\ Len(D) = Len(targetDirs)
      BY <1>3, <2>6
    <2> HIDE DEF D
    <2>8. \A fh \in 1 .. Len(targetDirs) : D[fh] = Deleted <=> targetDirs[fh] = Deleted
      BY <1>2, <2>3, <2>4, <2>5, MarkersAssumption
    <2> QED BY <2>2, <2>7, <2>8, DirsMoved
  <1>8. CASE DirectoryRequest
    <2>1. ASSUME NEW k \in OpenKeys, readdir_fails(k)
          PROVE  DirInv'
      BY <2>1, DirsKept DEF readdir_fails
    <2> QED
      BY <1>8, <2>1, OpendirStep, ReaddirStep, RewindStep, ReleasedirStep
      DEF DirectoryRequest
  <1>9. CASE OpenFileRequest
    <2>1. UNCHANGED <<directory_cache, listing, targetDirs>>
      BY <1>9 DEF OpenFileRequest, open, release, flush, fsync, read, write,
                  FileRequest, tree, listings
    <2> QED BY <2>1, DirsKept
  <1>10. CASE PoolStep
    <2>1. UNCHANGED <<directory_cache, listing, targetDirs>>
      BY <1>10 DEF PoolStep, Seek, Finish, Transfer, tree, listings
    <2> QED BY <2>1, DirsKept
  <1> QED BY <1>1, <1>4, <1>5, <1>6, <1>7, <1>8, <1>9, <1>10 DEF Step

-----------------------------------------------------------------------------
LEMMA InitIInv == Init => IInv
  <1> SUFFICES ASSUME Init PROVE IInv
    OBVIOUS
  <1>1. limit \in Limits /\ limit.inodes \in Nat \ {0}
    BY FuseMTAssumption DEF Init
  <1>2. Root \in Inodes
    <2>1. Root \in 1 .. limit.inodes
      BY <1>1 DEF Root
    <2> QED BY <1>1, <2>1 DEF Inodes
  <1>3. TableInv
    <2> DEFINE e == [path |-> <<>>, lookups |-> 0, generation |-> 0]
               B == [p \in Paths |-> IF p = <<>> THEN Root ELSE NoInode]
    <2>1. /\ inodes = [table |-> <<e>>, free_list |-> <<>>, by_path |-> B]
          /\ nlookup = [i \in Inodes |-> 0] /\ panicked = "no"
      BY DEF Init, NewTable
    <2>2. e \in Entries /\ e.path = <<>>
      BY PathFacts, EntryIs
    <2>3. B \in [Paths -> Nat] /\ \A p \in Paths : B[p] # NoInode => B[p] = 1 /\ p = <<>>
      BY DEF Root, NoInode
    <2> HIDE DEF e, B
    <2>4. /\ inodes.table = <<e>> /\ inodes.free_list = <<>> /\ inodes.by_path = B
          /\ inodes \in Tables
      BY <2>1, <2>2, <2>3 DEF Tables
    <2>5. Len(inodes.table) = 1 /\ inodes.table[1] = e /\ Len(inodes.free_list) = 0
      BY <2>4
    <2>6. 1 .. Len(inodes.table) = {1} /\ 1 .. Len(inodes.free_list) = {}
      BY <2>5
    <2>7. FreeListOK(inodes)
      BY <2>2, <2>5, <2>6, PathFacts DEF FreeListOK
    <2>8. nlookup \in [Inodes -> Nat] /\ \A i \in Inodes : nlookup[i] = 0
      BY <2>1
    <2>9. LookupsOK(inodes, nlookup)
      BY <2>6, <2>8 DEF LookupsOK, Root
    <2>10. ByPathOK(inodes)
      BY <2>2, <2>3, <2>4, <2>5, <2>6 DEF ByPathOK
    <2>11. Len(inodes.table) >= 1 /\ 1 .. Len(inodes.table) \subseteq Inodes
      BY <1>2, <2>5, <2>6 DEF Root
    <2>12. inodes.table[Root].path = <<>>
      BY <2>2, <2>5 DEF Root
    <2>13. TableOK(inodes, nlookup)
      BY <2>4, <2>7, <2>8, <2>9, <2>10, <2>11, <2>12 DEF TableOK
    <2> QED BY <1>1, <2>1, <2>13 DEF TableInv
  <1>4. DirInv
    <2>1. directory_cache = <<>> /\ listing = <<>> /\ targetDirs = <<Deleted>>
      BY DEF Init, NewCache
    <2>2. DirTypes /\ Len(listing) = 0 /\ Len(targetDirs) = 1 /\ targetDirs[1] = Deleted
      BY <2>1 DEF DirTypes
    <2>3. 1 .. Len(listing) = {} /\ 1 .. Len(targetDirs) = {1}
      BY <2>2
    <2> QED BY <2>2, <2>3 DEF DirInv, KeysOK, CacheOK, HandlesOK
  <1>5. FileInv
    <2>1. fds = <<>> /\ files = <<>> /\ jobs = <<>>
      BY DEF Init, NoDescriptors
    <2>2. FileTypes /\ Len(fds) = 0 /\ Len(jobs) = 0
      BY <1>1, <2>1 DEF FileTypes
    <2>3. 1 .. Len(fds) = {} /\ 1 .. Len(jobs) = {}
      BY <2>2
    <2> QED BY <2>1, <2>2, <2>3 DEF FileInv, FdsOK, JobsOK, InPlace
  <1> QED BY <1>3, <1>4, <1>5 DEF IInv

LEMMA StutterIInv ==
  ASSUME IInv, UNCHANGED vars
  PROVE  IInv'
  <1>1. DirInv'
    BY DirsKept DEF IInv, vars
  <1>2. FileInv'
    BY FilesKept DEF IInv, vars
  <1>3. TableInv'
    BY DEF IInv, TableInv, TableOK, FreeListOK, LookupsOK, ByPathOK, vars
  <1> QED BY <1>1, <1>2, <1>3 DEF IInv

(* The table, the open directories and the open files stay consistent      *)
(* whatever requests the kernel sends, in whatever order.                  *)
THEOREM Inductive == Spec => []IInv
  <1>1. ASSUME IInv, [Next]_vars
        PROVE  IInv'
    <2>1. CASE Next
      <3>1. TableInv /\ DirInv /\ FileInv
        BY <1>1 DEF IInv
      <3>2. TableInv'
        BY <2>1, <3>1, TableNext DEF TableStep
      <3>3. DirInv'
        BY <2>1, <3>1, DirsNext
      <3>4. FileInv'
        BY <2>1, <3>1, FilesNext
      <3> QED BY <3>2, <3>3, <3>4 DEF IInv
    <2>2. CASE UNCHANGED vars
      BY <1>1, <2>2, StutterIInv
    <2> QED BY <1>1, <2>1, <2>2
  <1> QED BY <1>1, InitIInv, PTL DEF Spec

LEMMA TableIsExact == TableInv => TableExact
  <1> SUFFICES ASSUME TableInv PROVE TableExact
    OBVIOUS
  <1>1. /\ inodes \in Tables /\ FreeListOK(inodes) /\ LookupsOK(inodes, nlookup)
        /\ ByPathOK(inodes) /\ panicked # "forget"
    BY DEF TableInv, TableOK
  <1>2. /\ inodes.free_list \in Seq(Nat)
        /\ DOMAIN inodes.free_list = 1 .. Len(inodes.free_list)
    BY <1>1 DEF Tables
  <1>3. IsInjective(inodes.free_list)
    BY <1>1, <1>2 DEF IsInjective, FreeListOK
  <1>4. Free = {i \in Known : inodes.table[i].path = NoPath}
    <2>1. Free = {inodes.free_list[a] : a \in 1 .. Len(inodes.free_list)}
      BY <1>2 DEF Free, ToSet
    <2>2. ASSUME NEW i \in Free
          PROVE  i \in Known /\ inodes.table[i].path = NoPath
      BY <2>1, <1>1 DEF FreeListOK, Known
    <2>3. ASSUME NEW i \in Known, inodes.table[i].path = NoPath
          PROVE  i \in Free
      BY <2>1, <2>3, <1>1 DEF FreeListOK, Known
    <2> QED BY <2>2, <2>3
  <1>5. \A i \in Known \ {Root} :
          /\ inodes.table[i].lookups = nlookup[i]
          /\ i \in Free <=> nlookup[i] = 0
    BY <1>1, <1>4 DEF LookupsOK, Known
  <1>6. \A p \in Paths : inodes.by_path[p] # NoInode =>
          /\ inodes.by_path[p] \notin Free
          /\ inodes.table[inodes.by_path[p]].path = p
    BY <1>1, <1>4, PathFacts DEF ByPathOK
  <1> QED BY <1>1, <1>3, <1>4, <1>5, <1>6 DEF TableExact

(* However creates, unlinks, renames over existing files and forgets       *)
(* alternate, the inode table agrees with itself and with the lookups the  *)
(* kernel holds: no inode in use is handed out, and no forget panics.      *)
THEOREM TableSafety == Spec => []TableExact
  <1>1. IInv => TableExact
    BY TableIsExact DEF IInv
  <1> QED BY <1>1, Inductive, PTL

(* An inode that the kernel has forgotten comes back with a generation it  *)
(* never had, and one that it holds keeps its own, for tables of any size  *)
(* and any number of reuses.                                               *)
THEOREM GenerationSafety == Spec => GenerationFresh
  <1> DEFINE A == \A i \in Known \ {Root} :
                    inodes'.table[i].generation =
                      IF nlookup[i] = 0 /\ nlookup'[i] > 0
                        THEN inodes.table[i].generation + 1
                        ELSE inodes.table[i].generation
  <1>1. ASSUME IInv, [Next]_vars
        PROVE  [A]_vars
    <2>1. CASE Next
      <3>1. Fresh(inodes, nlookup, inodes', nlookup')
        BY <1>1, <2>1, TableNext DEF IInv, TableStep
      <3>2. A
        BY <3>1 DEF Fresh, Known
      <3> QED BY <3>2
    <2>2. CASE UNCHANGED vars
      BY <2>2
    <2> QED BY <1>1, <2>1, <2>2
  <1>2. Spec => [][A]_vars
    BY <1>1, Inductive, PTL DEF Spec
  <1> QED BY <1>2 DEF GenerationFresh

(* A directory of any length, read in pages of any size of which the       *)
(* kernel consumes any part, is seen as it was when it was first read,     *)
(* each entry once, whatever is created, removed or renamed meanwhile.     *)
THEOREM PagesSafety == Spec => []PagesExact
  <1>1. IInv => PagesExact
    <2> SUFFICES ASSUME IInv, NEW k \in OpenKeys, listing[k].first # NoList
                 PROVE  /\ listing[k].seen = SubSeq(listing[k].first, 1, listing[k].pos)
                        /\ listing[k].atEnd => listing[k].seen = listing[k].first
      BY DEF PagesExact
    <2>1. listing \in Seq(Readings \cup {Deleted}) /\ CacheOK
      BY DEF IInv, DirInv, DirTypes
    <2>2. k \in 1 .. Len(listing) /\ listing[k] # Deleted /\ listing[k] \in Readings
      BY <2>1 DEF OpenKeys
    <2>3. ReadingOK(listing[k]) /\ listing[k].first \in Lists
      BY <2>1, <2>2, ReadingIs DEF CacheOK
    <2> DEFINE l == listing[k]
    <2>4. l.seen = SubSeq(l.first, 1, l.pos) /\ (l.atEnd => l.pos = Len(l.first))
      BY <2>3 DEF ReadingOK
    <2>5. SubSeq(l.first, 1, Len(l.first)) = l.first
      BY <2>3 DEF Lists
    <2> QED BY <2>4, <2>5
  <1> QED BY <1>1, Inductive, PTL

LEMMA HandlesAreMatched == DirInv /\ FileInv => HandlesMatch
  <1> SUFFICES ASSUME DirInv, FileInv PROVE HandlesMatch
    OBVIOUS
  <1> DEFINE keys == {k \in DOMAIN directory_cache : HasKey(directory_cache, k)}
             open_ == {fh \in DOMAIN targetDirs : targetDirs[fh] # Deleted}
  <1>1. /\ DOMAIN directory_cache = 1 .. Len(listing) /\ DOMAIN listing = 1 .. Len(listing)
        /\ DOMAIN targetDirs = 1 .. Len(targetDirs)
    BY DEF DirInv, DirTypes
  <1>2. keys = OpenKeys
    BY <1>1 DEF HasKey, OpenKeys, DirInv, KeysOK
  <1>3. \A k : k \in keys <=> k \in 1 .. Len(listing) /\ listing[k] # Deleted
    BY <1>1, <1>2 DEF OpenKeys
  <1> HIDE DEF keys
  <1>4. open_ = {real_fh(directory_cache, k) : k \in keys}
    <2>1. ASSUME NEW fh \in open_
          PROVE  \E k \in keys : fh = real_fh(directory_cache, k)
      BY <1>1, <1>3 DEF DirInv, HandlesOK, real_fh
    <2>2. ASSUME NEW k \in keys
          PROVE  real_fh(directory_cache, k) \in open_
      BY <1>1, <1>3 DEF DirInv, CacheOK, real_fh
    <2> QED BY <2>1, <2>2
  <1>5. \A k, l \in keys :
          real_fh(directory_cache, k) = real_fh(directory_cache, l) => k = l
    BY <1>3 DEF DirInv, HandlesOK, real_fh
  <1>6. /\ DOMAIN fds = 1 .. Len(fds) /\ DOMAIN files = 1 .. Len(fds)
        /\ DOMAIN jobs = 1 .. Len(jobs)
    BY DEF FileInv, FileTypes
  <1>7. {fh \in DOMAIN fds : IsOpen(fds, fh)} = {fh \in DOMAIN files : files[fh] # Deleted}
    BY <1>6 DEF FileInv, FdsOK, IsOpen
  <1>8. \A j \in DOMAIN jobs : IsOpen(fds, jobs[j].fh)
    BY <1>6 DEF FileInv, JobsOK, IsOpen
  <1> QED BY <1>2, <1>4, <1>5, <1>7, <1>8 DEF HandlesMatch, keys

(* No handle of the target leaks or is released twice, no key of the       *)
(* directory cache is missing when it is used, and no request of the pool  *)
(* uses a descriptor that is closed, for any number of handles and jobs.   *)
THEOREM HandlesSafety == Spec => []HandlesMatch
  <1>1. IInv => HandlesMatch
    BY HandlesAreMatched DEF IInv
  <1> QED BY <1>1, Inductive, PTL

(* With one thread at most, every read and write takes place at its own    *)
(* offset, for any number of requests on shared descriptors.               *)
THEOREM PlaceSafety == Spec => []TransfersInPlace
  <1>1. IInv => TransfersInPlace
    <2> SUFFICES ASSUME IInv, NEW j \in DOMAIN jobs, jobs[j].sought, limit.threads <= 1
                 PROVE  fds[jobs[j].fh].pos = jobs[j].offset
      BY DEF TransfersInPlace
    <2>1. DOMAIN jobs = 1 .. Len(jobs)
      BY DEF IInv, FileInv, FileTypes
    <2> QED BY <2>1 DEF IInv, FileInv, InPlace
  <1> QED BY <1>1, Inductive, PTL

=============================================================================
