------------------------------ MODULE MCBuffers ------------------------------
(* An instance of Buffers for TLC: a vector with room for three bytes, one  *)
(* of them initialized, a box, a static slice, and two or three vectors of  *)
(* different lengths, one of them empty.  The file has two bytes.           *)
EXTENDS Buffers

CONSTANTS old, f1, f2
MCByte == {old, f1, f2}
Mem(n, capacity) == [i \in 1 .. capacity |-> IF i <= n THEN old ELSE Uninit]
MCNewBuffers ==
  {Buffer("Vec", Mem(1, 3), 1)}
    \cup {Buffer("Box", Mem(2, 2), 2), Buffer("static", Mem(2, 2), 2)}
    \cup {VecBuf(<<Piece(Mem(2, 3), 2), Piece(Mem(1, 1), 1)>>),
          VecBuf(<<Piece(Mem(1, 2), 1), Piece(<<>>, 0), Piece(Mem(2, 2), 2)>>)}
MCBounds ==
  {Bound("Unbounded", 0), Bound("Included", 0), Bound("Included", 1),
   Bound("Excluded", 1), Bound("Excluded", 2)}
MCNewFile == <<f1, f2>>
=============================================================================
