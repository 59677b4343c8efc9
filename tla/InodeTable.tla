----------------------------- MODULE InodeTable -----------------------------
(***************************************************************************)
(* The InodeTable of async_fuse/inode_table.rs, as a value: each operation *)
(* takes the table and returns the new one, so that a handler that makes   *)
(* two calls is one step.  The inode number of table[i] is i (the code     *)
(* keeps a zero-based index and adds 1); by_path maps a path to its inode, *)
(* or to NoInode when the HashMap has no such key.                         *)
(***************************************************************************)
EXTENDS Naturals, Sequences

CONSTANTS
  Paths,   \* the paths in use: sequences of names, <<>> is "/"
  NoPath   \* entry.path = None

Root == 1
NoInode == 0

ASSUME InodeTableAssumption == <<>> \in Paths /\ NoPath \notin Paths

NewTable ==
  [table     |-> << [path |-> <<>>, lookups |-> 0, generation |-> 0] >>,
   free_list |-> <<>>,
   by_path   |-> [p \in Paths |-> IF p = <<>> THEN Root ELSE NoInode]]

(* get_inode_entry: the oldest free entry, or a new one at the end.        *)
NextInode(T) ==
  IF T.free_list = <<>> THEN Len(T.table) + 1 ELSE Head(T.free_list)

(* Mutant: the generation of a reused entry is not incremented.            *)
get_inode_entry_stale(T) ==
  IF T.free_list = <<>>
    THEN [T EXCEPT !.table =
            Append(@, [path |-> NoPath, lookups |-> 0, generation |-> 0])]
    ELSE [T EXCEPT !.free_list = Tail(@)]

get_inode_entry(T) ==
  IF T.free_list = <<>>
    THEN [T EXCEPT !.table =
            Append(@, [path |-> NoPath, lookups |-> 0, generation |-> 0])]
    ELSE [T EXCEPT !.table[Head(T.free_list)].generation = @ + 1,
                   !.free_list = Tail(@)]

(* `add' panics, with the entry already replaced, if the path is mapped.   *)
DuplicatePath(T, p) == T.by_path[p] # NoInode

add(T, p) ==
  LET i == NextInode(T)
  IN  [get_inode_entry(T) EXCEPT !.table[i].path = p,
                                 !.table[i].lookups = 1,
                                 !.by_path[p] = i]

add_or_get(T, p) ==
  LET i == NextInode(T)
  IN  IF T.by_path[p] # NoInode
        THEN T
        ELSE [get_inode_entry(T) EXCEPT !.table[i].path = p,
                                        !.by_path[p] = i]

lookup_inc(T, i) ==
  IF i = Root THEN T ELSE [T EXCEPT !.table[i].lookups = @ + 1]

(* forget's assert!, and the unwrap of the path it removes.                *)
ForgetFails(T, i, n) ==
  \/ n > T.table[i].lookups
  \/ n = T.table[i].lookups /\ T.table[i].path = NoPath

(* At zero the entry's path is removed from by_path, whichever inode that  *)
(* path is mapped to by now, and the entry becomes reusable.               *)
forget_n(T, i, n) ==
  IF n = T.table[i].lookups
    THEN [T EXCEPT !.by_path[T.table[i].path] = NoInode,
                   !.table[i].lookups = 0,
                   !.table[i].path = NoPath,
                   !.free_list = Append(@, i)]
    ELSE [T EXCEPT !.table[i].lookups = @ - n]

(* The unwrap of by_path.remove(oldpath).                                  *)
RenameFails(T, old) == T.by_path[old] = NoInode

(* Mutant: the old path stays mapped.                                      *)
rename_path_kept(T, old, new) ==
  LET i == T.by_path[old]
  IN  [T EXCEPT !.table[i].path = new, !.by_path[new] = i]

rename_path(T, old, new) ==
  LET i == T.by_path[old]
  IN  [T EXCEPT !.by_path[old] = NoInode,
                !.table[i].path = new,
                !.by_path[new] = i]

unlink_path(T, p) == [T EXCEPT !.by_path[p] = NoInode]

get_path(T, i) == T.table[i].path

=============================================================================
