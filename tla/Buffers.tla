------------------------------- MODULE Buffers -------------------------------
(***************************************************************************)
(* Buffers that are handed to the kernel: runtime/src/buf/, and what       *)
(* driver/op/{read,write}.rs and driver/file.rs do with them.  A program   *)
(* owns a buffer, cuts slices out of it, reads a file into it, writes it   *)
(* to the file and takes the slices off again.  While an operation is in   *)
(* flight the buffer belongs to it (UringDriver), so an operation is one   *)
(* step here.                                                              *)
(*                                                                         *)
(* The memory of a buffer is a sequence of bytes, some of which may never  *)
(* have been initialized.  An address is an index: read_ptr and write_ptr  *)
(* are the number of bytes before the first one of the view.               *)
(*                                                                         *)
(* The kernel (external) transfers any number of bytes up to the length it *)
(* was given; when it reports an error it may have transferred some.  The  *)
(* program does not use the unsafe constructors, nor get_mut to change a   *)
(* buffer under a slice.                                                   *)
(***************************************************************************)
EXTENDS Integers, Sequences, FiniteSets, SequencesExt

CONSTANTS
  Byte,       \* the bytes
  Uninit,     \* a byte that was never initialized
  NewBuffers, \* buffers that a program starts with
  NewFile,    \* what is in the file, a sequence of bytes
  Bounds,     \* the bounds of the ranges that a program asks for
  MaxViews,   \* bound on the slices of slices
  NoResult    \* no operation has returned since the buffer was changed

VARIABLES
  buf,     \* the buffer
  file,    \* the file
  result   \* what the last operation on the buffer returned

buffersVars == <<buf, file, result>>

-----------------------------------------------------------------------------
(* A buffer of one piece: its memory, how much of it is initialized, and   *)
(* the slices around it, the outermost last.  Vec<u8> may have memory left *)
(* that is not initialized, Box<[u8]> and arrays have not, and &'static    *)
(* [u8] and str cannot be written to.                                      *)
Buffer(kind, mem, len) == [kind |-> kind, mem |-> mem, len |-> len, views |-> <<>>]
Kinds == {"Vec", "Box", "static"}

(* VecBuf: the vectors, and the iovecs made from them.                     *)
Piece(mem, len) == [mem |-> mem, len |-> len]
VecBuf(raw) == [kind |-> "VecBuf", raw |-> raw, iovecs |-> [i \in DOMAIN raw |-> raw[i].len]]

(* Memory, of which the first bytes are initialized.                       *)
Memory == Seq(Byte \cup {Uninit})
Initialized(bytes) == Uninit \notin ToSet(bytes)
Holds(mem, len) ==
  mem \in Memory /\ len \in 0 .. Len(mem) /\ Initialized(SubSeq(mem, 1, len))

(* What a program starts with, which safe code can only make initialized   *)
(* up to its length.                                                       *)
ASSUME BuffersAssumption ==
  /\ Uninit \notin Byte
  /\ \A b \in NewBuffers :
       IF b.kind = "VecBuf"
         THEN /\ b = VecBuf(b.raw)
              /\ b.raw \in Seq([mem : Memory, len : Nat])
              /\ \A i \in DOMAIN b.raw : Holds(b.raw[i].mem, b.raw[i].len)
         ELSE /\ b = Buffer(b.kind, b.mem, b.len) /\ b.kind \in Kinds
              /\ Holds(b.mem, b.len)
              /\ b.kind # "Vec" => b.len = Len(b.mem)
  /\ NewFile \in Seq(Byte)
  /\ Bounds \subseteq [kind : {"Included", "Excluded", "Unbounded"}, n : Nat]
  /\ MaxViews \in Nat

BuffersInit ==
  /\ buf \in NewBuffers
  /\ file = NewFile
  /\ result = NoResult

-----------------------------------------------------------------------------
(* IoBuf and IoBufMut of a buffer with slices.                             *)

Smaller(m, n) == IF m <= n THEN m ELSE n

(* SliceMut ends where the initialized part of its buffer does; Slice has  *)
(* checked that once and for all.                                          *)
ViewInit(n, view) ==
  (IF view.kind = "SliceMut" THEN Smaller(view.end, n) ELSE view.end) - view.begin
bytes_init(b) == FoldLeft(ViewInit, b.len, b.views)
bytes_total(b) == FoldLeft(LAMBDA n, view : view.end - view.begin, Len(b.mem), b.views)
Ptr(b) == FoldLeft(LAMBDA p, view : p + view.begin, 0, b.views)

IsIoBuf(b) == b.kind \in Kinds
IsIoBufMut(b) ==
  b.kind \in {"Vec", "Box"} /\ \A i \in DOMAIN b.views : b.views[i].kind = "SliceMut"

(* A slice passes begin + n on; in the end it is the length of a Vec.      *)
set_init(b, n) == IF b.kind = "Vec" THEN [b EXCEPT !.len = Ptr(b) + n] ELSE b

(* What a program sees of the buffer.                                      *)
Bytes(b) == SubSeq(b.mem, Ptr(b) + 1, Ptr(b) + bytes_init(b))

-----------------------------------------------------------------------------
(* Slices.  A range that fails an assert panics, and the buffer is gone.   *)

Bound(kind, n) == [kind |-> kind, n |-> n]

parse_range(start, stop, end) ==
  [begin |-> CASE start.kind = "Included" -> start.n
               [] start.kind = "Excluded" -> start.n + 1
               [] OTHER -> 0,
   end |-> CASE stop.kind = "Included" -> stop.n + 1
             [] stop.kind = "Excluded" -> stop.n
             [] OTHER -> end]

Sliced(kind, range) ==
  /\ Len(buf.views) < MaxViews
  /\ buf' = [buf EXCEPT !.views =
               Append(@, [kind |-> kind, begin |-> range.begin, end |-> range.end])]
  /\ result' = NoResult
  /\ UNCHANGED file

slice(start, stop) ==
  /\ IsIoBuf(buf)
  /\ LET range == parse_range(start, stop, bytes_init(buf))
     IN  /\ range.end <= bytes_init(buf)
         /\ range.begin <= range.end
         /\ Sliced("Slice", range)

(* Mutant: a slice may begin after what is initialized.                    *)
slice_mut_gap(start, stop) ==
  /\ IsIoBufMut(buf)
  /\ LET range == parse_range(start, stop, bytes_total(buf))
     IN  /\ range.end <= bytes_total(buf)
         /\ range.begin <= range.end
         /\ Sliced("SliceMut", range)

slice_mut(start, stop) ==
  /\ IsIoBufMut(buf)
  /\ LET range == parse_range(start, stop, bytes_total(buf))
     IN  /\ range.end <= bytes_total(buf)
         /\ range.begin <= bytes_init(buf)
         /\ range.begin <= range.end
         /\ Sliced("SliceMut", range)

into_inner ==
  /\ IsIoBuf(buf) /\ buf.views # <<>>
  /\ buf' = [buf EXCEPT !.views = Front(@)]
  /\ result' = NoResult
  /\ UNCHANGED file

-----------------------------------------------------------------------------
(* Operations.                                                             *)

(* The kernel copies n elements of `from' after position i to `to' after   *)
(* position j.                                                             *)
Copied(to, j, from, i, n) ==
  [k \in 1 .. Len(to) |-> IF k \in j + 1 .. j + n THEN from[i + k - j] ELSE to[k]]
Transfer(op, pos, n) == [op |-> op, pos |-> pos, n |-> n]

(* read: write_ptr and bytes_total go to the kernel; set_init if it is Ok. *)
read_at(pos, n, ok) ==
  /\ IsIoBufMut(buf)
  /\ n <= Smaller(bytes_total(buf), Len(file) - pos)
  /\ LET read == [buf EXCEPT !.mem = Copied(@, Ptr(buf), file, pos, n)]
     IN  buf' = IF ok THEN set_init(read, n) ELSE read
  /\ result' = IF ok THEN Transfer("read", pos, n) ELSE NoResult
  /\ UNCHANGED file

(* write: read_ptr and bytes_init go to the kernel.                        *)
write_at(pos, n) ==
  /\ IsIoBuf(buf)
  /\ n <= Smaller(bytes_init(buf), Len(file) - pos)
  /\ file' = Copied(file, pos, buf.mem, Ptr(buf), n)
  /\ result' = Transfer("write", pos, n)
  /\ UNCHANGED buf

(* The pieces that the iovecs describe, one after the other.               *)
Before(b, i) == FoldLeft(+, 0, SubSeq(b.iovecs, 1, i - 1))
Described(b) == Before(b, Len(b.iovecs) + 1)
InPiece(b, i, n) == Smaller(b.iovecs[i], IF n > Before(b, i) THEN n - Before(b, i) ELSE 0)

(* Mutant: a piece that was cut short before and is now full stays short.  *)
VecBuf_set_init_short(b, n) ==
  [b EXCEPT !.raw = [i \in DOMAIN b.raw |->
     IF /\ Before(b, i) + b.iovecs[i] > n
        /\ n > Before(b, i)
       THEN Piece(b.raw[i].mem, InPiece(b, i, n)) ELSE b.raw[i]]]

(* set_init of VecBuf: pieces that n covers have the length of their       *)
(* iovec, the next one what is left unless that is nothing, and the others *)
(* stay as they are.                                                       *)
VecBuf_set_init(b, n) ==
  [b EXCEPT !.raw = [i \in DOMAIN b.raw |->
     IF \/ Before(b, i) + b.iovecs[i] <= n
        \/ n > Before(b, i)
       THEN Piece(b.raw[i].mem, InPiece(b, i, n)) ELSE b.raw[i]]]

readv(n) ==
  /\ buf.kind = "VecBuf"
  /\ n <= Smaller(Described(buf), Len(file))
  /\ LET read == [buf EXCEPT !.raw = [i \in DOMAIN buf.raw |->
                   Piece(Copied(buf.raw[i].mem, 0, file, Before(buf, i), InPiece(buf, i, n)),
                         buf.raw[i].len)]]
     IN  buf' = VecBuf_set_init(read, n)
  /\ result' = Transfer("readv", 0, n)
  /\ UNCHANGED file

writev(n) ==
  /\ buf.kind = "VecBuf"
  /\ n <= Smaller(Described(buf), Len(file))
  /\ file' = FoldLeft(LAMBDA f, i : Copied(f, Before(buf, i), buf.raw[i].mem, 0, InPiece(buf, i, n)),
                      file, [i \in DOMAIN buf.raw |-> i])
  /\ result' = NoResult
  /\ UNCHANGED buf

(* The vectors are taken out of the VecBuf and made into one again.        *)
Rewrap ==
  /\ buf.kind = "VecBuf"
  /\ buf' = VecBuf(buf.raw)
  /\ result' = NoResult
  /\ UNCHANGED file

-----------------------------------------------------------------------------
Positions == 0 .. Len(file)

BuffersNext ==
  \/ \E start, stop \in Bounds : slice(start, stop) \/ slice_mut(start, stop)
  \/ into_inner
  \/ \E pos, n \in Positions : write_at(pos, n) \/ \E ok \in BOOLEAN : read_at(pos, n, ok)
  \/ \E n \in Positions : readv(n) \/ writev(n)
  \/ Rewrap

BuffersSpec == BuffersInit /\ [][BuffersNext]_buffersVars

-----------------------------------------------------------------------------
(* Nothing uninitialized is ever seen by the program or written to the     *)
(* file, and the kernel is never pointed past the end of the memory,       *)
(* however slices are nested and however short the reads into them were:   *)
(* the view of a slice has a length (Deref does not panic), its bytes are  *)
(* initialized, and so are those of every vector and every iovec.          *)
MemorySafe ==
  /\ Initialized(file)
  /\ IF buf.kind = "VecBuf"
       THEN \A i \in DOMAIN buf.raw :
              LET piece == buf.raw[i]
              IN  /\ {piece.len, buf.iovecs[i]} \subseteq 0 .. Len(piece.mem)
                  /\ Initialized(SubSeq(piece.mem, 1, piece.len))
                  /\ Initialized(SubSeq(piece.mem, 1, buf.iovecs[i]))
       ELSE /\ bytes_init(buf) >= 0
            /\ Ptr(buf) + bytes_init(buf) <= buf.len
            /\ buf.len <= Len(buf.mem)
            /\ Initialized(SubSeq(buf.mem, 1, buf.len))
            /\ IsIoBufMut(buf) =>
                 bytes_total(buf) >= 0 /\ Ptr(buf) + bytes_total(buf) <= Len(buf.mem)

(* After a read of n bytes the first n bytes that the program sees, in the *)
(* slice or in the vectors in order, are those of the file at the position *)
(* it asked for; after a write the file has the first n bytes of the       *)
(* slice.                                                                  *)
TransfersExact ==
  LET n == result.n
      InFile == SubSeq(file, result.pos + 1, result.pos + n)
      Seen == IF buf.kind = "VecBuf"
                THEN FlattenSeq([i \in DOMAIN buf.raw |->
                                   SubSeq(buf.raw[i].mem, 1, buf.raw[i].len)])
                ELSE Bytes(buf)
  IN  result # NoResult => Len(Seen) >= n /\ SubSeq(Seen, 1, n) = InFile

=============================================================================
