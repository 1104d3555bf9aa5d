---------------------------- MODULE MCLongWrite ----------------------------
(* Values of one to three pieces, one that just fits the buffer and one of *)
(* a byte more; the offset of a third piece needs both bytes of its field. *)
EXTENDS LongWrite

Counted(first, n) == [k \in 1 .. n |-> (first + k) % ByteSize]
ValuesDef == {Counted(0, 3), Counted(2, 5), Counted(5, 12), Counted(3, 13)}
=============================================================================
