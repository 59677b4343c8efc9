--------------------------- MODULE PassthroughFS ---------------------------
(***************************************************************************)
(* The descriptors of passthrough/passthrough_fs.rs, as a value: index fh  *)
(* is the descriptor that open returned as a file handle.  A descriptor is *)
(* the file it refers to, named by the path at which the file is now       *)
(* (NoName once it has none), and the position that all users of the       *)
(* descriptor share.                                                       *)
(***************************************************************************)
EXTENDS Naturals, Sequences

CONSTANTS
  NoName,  \* the file has been unlinked or replaced
  Closed   \* the descriptor has been closed

NoDescriptors == <<>>
IsOpen(D, fh) == fh \in DOMAIN D /\ D[fh] # Closed

OpenFile(D, path) == Append(D, [path |-> path, pos |-> 0])

(* open with O_CREAT and O_EXCL, and then lstat, which may fail.           *)
CreateFile(D, path) == OpenFile(D, path)

CloseFile(D, fh) == [D EXCEPT ![fh] = Closed]

(* Mutant: the transfer takes place wherever the descriptor is.            *)
SeekTo_none(D, fh, offset) == D

(* read and write move the shared position, then transfer from there on.   *)
SeekTo(D, fh, offset) == [D EXCEPT ![fh].pos = offset]
Advance(D, fh) == [D EXCEPT ![fh].pos = @ + 1]

(* What a change of the tree does to the files that are open: NewName maps *)
(* the path of a file to the one it has now.                               *)
Renamed(D, NewName) ==
  [fh \in DOMAIN D |->
     IF D[fh] = Closed THEN Closed ELSE [D[fh] EXCEPT !.path = NewName[@]]]

=============================================================================
