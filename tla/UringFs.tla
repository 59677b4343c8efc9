------------------------------- MODULE UringFs -------------------------------
(***************************************************************************)
(* UringFilesystem, the filesystem that fairy mounts through uring_fuse:   *)
(* uring_fs/mod.rs over the InodeManager of inode.rs and the               *)
(* ListStatusCache of list_cache.rs.  A method takes &mut self, so each is *)
(* one step.  Nothing is ever removed, and `create' makes only files.      *)
(* write, and the methods that are not implemented, answer an error and    *)
(* change nothing.                                                         *)
(*                                                                         *)
(* The kernel (external) looks a name up before it creates it and creates  *)
(* only what was not found; it names only inodes it was told of.  It reads *)
(* a directory from offset 0 and goes on from the offset of the last entry *)
(* that it consumed; its buffers hold at least one entry.                  *)
(***************************************************************************)
EXTENDS Naturals, Sequences, FiniteSets, Functions, SequencesExt

CONSTANTS
  Names,        \* names of directory entries
  NotUtf8,      \* the names that are not UTF-8
  EntrySize,    \* the bytes of the directory entry of each name, and of "."
  BufferSizes,  \* sizes of the buffers that the kernel reads a directory with
  NoListing     \* the kernel has no directory open

FUSE_ROOT_ID == 1
RootPath == <<>>

ASSUME UringFsAssumption ==
  /\ NotUtf8 \subseteq Names /\ "." \notin Names
  /\ EntrySize \in [Names \cup {"."} -> Nat \ {0}]
  /\ BufferSizes \subseteq Nat
  /\ \A size \in BufferSizes, n \in Names \cup {"."} : EntrySize[n] <= size

VARIABLES
  inodes,      \* InodeManager.inodes
  path_index,  \* InodeManager.path_index
  next_ino,    \* InodeManager.next_ino
  ls_cache,    \* ListStatusCache.cache
  next_fh,     \* UringFilesystem.next_fh
  nodes,       \* kernel: the inodes it was told of
  absent,      \* kernel: names of the root that were not found
  listing,     \* kernel: what it has read of the directory it has open
  panicked     \* the unwrap that ended the session: "create", "setattr" or "no"

manager == <<inodes, path_index, next_ino>>
filesystem == <<manager, ls_cache, next_fh>>
kernel == <<nodes, absent, listing>>
vars == <<filesystem, kernel, panicked>>

Inode(parent, name, full_path, kind) ==
  [parent |-> parent, name |-> name, full_path |-> full_path, kind |-> kind]

(* InodeManager::new, ListStatusCache::new and UringFilesystem::new.       *)
Init ==
  /\ inodes = [i \in {FUSE_ROOT_ID} |-> Inode(FUSE_ROOT_ID, "", RootPath, "dir")]
  /\ path_index = [p \in {RootPath} |-> FUSE_ROOT_ID]
  /\ next_ino = 2
  /\ ls_cache = <<>> /\ next_fh = 1
  /\ nodes = {FUSE_ROOT_ID} /\ absent = {} /\ listing = NoListing
  /\ panicked = "no"

-----------------------------------------------------------------------------
(* InodeManager and ListStatusCache.                                       *)

(* HashMap::insert.                                                        *)
insert(map, k, v) == [x \in DOMAIN map \cup {k} |-> IF x = k THEN v ELSE map[x]]

Has(ino) == ino \in DOMAIN inodes
Join(parent, name) == Append(inodes[parent].full_path, name)

(* The inode that a lookup finds, or 0.                                    *)
lookup_ino(parent, name) ==
  IF Has(parent) /\ Join(parent, name) \in DOMAIN path_index
    THEN path_index[Join(parent, name)] ELSE 0

(* Mutant: the path is not entered into the index.                         *)
manager_create_unindexed(parent, name, kind) ==
  /\ next_ino' = next_ino + 1
  /\ inodes' = insert(inodes, next_ino, Inode(parent, name, Join(parent, name), kind))
  /\ UNCHANGED path_index

manager_create(parent, name, kind) ==
  /\ next_ino' = next_ino + 1
  /\ inodes' = insert(inodes, next_ino, Inode(parent, name, Join(parent, name), kind))
  /\ path_index' = insert(path_index, Join(parent, name), next_ino)

Listed(path) == IF path \in DOMAIN ls_cache THEN ls_cache[path] ELSE <<>>
append(path, new_file) == insert(ls_cache, path, Append(Listed(path), new_file))

-----------------------------------------------------------------------------
(* Methods of UringFilesystem.                                             *)

(* A name that is not UTF-8 is not found.                                  *)
lookup(name) ==
  /\ panicked = "no"
  /\ LET ino == IF name \in NotUtf8 THEN 0 ELSE lookup_ino(FUSE_ROOT_ID, name)
     IN  IF ino = 0
           THEN absent' = absent \cup {name} /\ UNCHANGED nodes
           ELSE nodes' = nodes \cup {ino} /\ UNCHANGED absent
  /\ UNCHANGED <<filesystem, listing, panicked>>

(* The changes asked for are ignored; the unwrap is of the inode.          *)
setattr(ino) ==
  /\ panicked = "no"
  /\ panicked' = IF Has(ino) THEN "no" ELSE "setattr"
  /\ UNCHANGED <<filesystem, kernel>>

(* The path of a name that is not UTF-8 does not unwrap.                   *)
create(name) ==
  /\ panicked = "no"
  /\ name \in absent
  /\ IF name \in NotUtf8
       THEN panicked' = "create" /\ UNCHANGED <<filesystem, nodes, absent>>
       ELSE /\ manager_create(FUSE_ROOT_ID, name, "file")
            /\ ls_cache' = append(inodes[FUSE_ROOT_ID].full_path, name)
            /\ next_fh' = next_fh + 1
            /\ nodes' = nodes \cup {next_ino}
            /\ absent' = absent \ {name}
            /\ UNCHANGED panicked
  /\ UNCHANGED listing

opendir ==
  /\ panicked = "no"
  /\ listing = NoListing
  /\ listing' = [offset |-> 0, seen |-> <<>>, replies |-> 0, room |-> 0,
                 there |-> <<>>, end |-> "no"]
  /\ UNCHANGED <<filesystem, nodes, absent, panicked>>

(* ReplyDirectory.add: an entry that does not fit is dropped, and a later  *)
(* one that does is added.                                                 *)
Bytes(entries) == FoldLeft(LAMBDA sum, e : sum + EntrySize[e.name], 0, entries)
add(size, entries, e) ==
  IF Bytes(entries) + EntrySize[e.name] > size THEN entries ELSE Append(entries, e)

Entry(name, i, offset) == [name |-> name, offset |-> (i - 1) + offset + 2]

(* Mutant: each request starts from the first entry again.                 *)
Found_all(ino, offset) ==
  LET names == Listed(inodes[ino].full_path)
  IN  FoldLeft(LAMBDA found, i :
                 IF lookup_ino(ino, names[i]) # 0
                   THEN Append(found, Entry(names[i], i, offset)) ELSE found,
               <<>>, [i \in DOMAIN names |-> i])

(* The entries that the loop of readdir finds: entries.iter().enumerate()  *)
(* .skip(offset), of which the i-th gets the offset i + offset + 2.  One   *)
(* whose inode is not found is left out.                                   *)
Found(ino, offset) ==
  LET names == Listed(inodes[ino].full_path)
  IN  FoldLeft(LAMBDA found, i :
                 IF i > offset /\ lookup_ino(ino, names[i]) # 0
                   THEN Append(found, Entry(names[i], i, offset)) ELSE found,
               <<>>, [i \in DOMAIN names |-> i])

Dot == [name |-> ".", offset |-> 1]
Answered(ino, offset) == (IF offset = 0 THEN <<Dot>> ELSE <<>>) \o Found(ino, offset)

(* Without any entry the answer is ENOENT.  The kernel consumes a part of  *)
(* the others.                                                             *)
readdir(size) ==
  LET l == listing
      answered == Answered(FUSE_ROOT_ID, l.offset)
      reply == FoldLeft(LAMBDA entries, e : add(size, entries, e), <<>>, answered)
  IN  /\ panicked = "no"
      /\ l # NoListing /\ l.end = "no"
      /\ IF answered = <<>>
           THEN listing' = [l EXCEPT !.end = "ENOENT"]
           ELSE \E m \in DOMAIN reply :
                  listing' =
                    [l EXCEPT !.offset = reply[m].offset,
                              !.seen = @ \o [k \in 1 .. m |-> reply[k].name],
                              !.replies = @ + 1,
                              !.room = IF m = Len(reply) THEN size ELSE 0,
                              !.there = Listed(RootPath)]
      /\ UNCHANGED <<filesystem, nodes, absent, panicked>>

releasedir ==
  /\ panicked = "no"
  /\ listing # NoListing
  /\ listing' = NoListing
  /\ UNCHANGED <<filesystem, nodes, absent, panicked>>

Next ==
  \/ \E name \in Names : lookup(name) \/ create(name)
  \/ \E ino \in nodes : setattr(ino)
  \/ opendir \/ releasedir
  \/ \E size \in BufferSizes : readdir(size)

Spec == Init /\ [][Next]_vars

-----------------------------------------------------------------------------
(* The three tables agree after any sequence of lookups and creates: a     *)
(* path leads to the inode that has it, every inode can be found by its    *)
(* path, a directory lists its files once each in the order in which they  *)
(* were made, and what the kernel was told of exists, so that the unwrap   *)
(* of setattr never panics.                                                *)
IndexExact ==
  /\ \A p \in DOMAIN path_index :
       Has(path_index[p]) /\ inodes[path_index[p]].full_path = p
  /\ DOMAIN inodes = 1 .. next_ino - 1
  /\ \A i \in DOMAIN inodes :
       /\ inodes[i].full_path \in DOMAIN path_index
       /\ path_index[inodes[i].full_path] = i
  /\ Listed(RootPath) = [k \in 1 .. next_ino - 2 |-> inodes[k + 1].name]
  /\ nodes \subseteq DOMAIN inodes
  /\ panicked # "setattr"

(* A listing begins with ".", and whatever part of each reply the kernel   *)
(* consumes and whatever is created meanwhile, it has no entry twice and   *)
(* those it has in the order of the directory.  When one buffer was enough *)
(* for the directory, none is missing.                                     *)
ListingSound ==
  listing # NoListing /\ listing.seen # <<>> =>
    LET names == <<".">> \o Listed(RootPath)
        At(n) == CHOOSE i \in DOMAIN names : names[i] = n
        seen == listing.seen
        all == <<".">> \o listing.there
    IN  /\ Head(seen) = "."
        /\ \A k \in 1 .. Len(seen) - 1 : At(seen[k]) < At(seen[k + 1])
        /\ listing.replies = 1
             /\ Bytes([k \in DOMAIN all |-> [name |-> all[k]]]) <= listing.room
             => seen = all

=============================================================================
