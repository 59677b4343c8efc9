--------------------------- MODULE DirectoryCache ---------------------------
(***************************************************************************)
(* The DirectoryCache of async_fuse/directory_cache.rs, as a value: the    *)
(* key of an entry is its index, keys start at 1 and are not reused.       *)
(***************************************************************************)
EXTENDS Naturals, Sequences

CONSTANTS
  NoList,  \* DirectoryCacheEntry.entries = None
  Deleted  \* the HashMap has no such key any more

NewCache == <<>>

NextKey(C) == Len(C) + 1
HasKey(C, k) == k \in DOMAIN C /\ C[k] # Deleted

new_entry(C, fh) == Append(C, [fh |-> fh, entries |-> NoList])
real_fh(C, k) == C[k].fh
set_entries(C, k, list) == [C EXCEPT ![k].entries = list]

(* Mutant: the entry stays.                                                *)
delete_none(C, k) == C

delete(C, k) == [C EXCEPT ![k] = Deleted]

=============================================================================
