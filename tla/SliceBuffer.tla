---------------------------- MODULE SliceBuffer ----------------------------
(***************************************************************************)
(* SliceBuffer (src/utils/slice_buffer.cc): a byte queue kept as a list of *)
(* slices, with the number of its bytes kept beside it.  A slice is the    *)
(* sequence of its bytes: a Slice shares its memory with its copies, but   *)
(* nobody writes to it once it is filled, and each copy has its own bounds.*)
(***************************************************************************)
EXTENDS Integers, Sequences, SequencesExt

\* The n bytes after the first a; a byte is its number among the bytes of a
\* direction.
Bytes(a, n) == [j \in 1 .. n |-> a + j]

EmptyBuffer == [vs |-> <<>>, length |-> 0]

\* Slice::PopFront and Slice::PopBack
DropFront(s, n) == SubSeq(s, n + 1, Len(s))
DropBack(s, n) == IF n > Len(s) THEN <<>> ELSE SubSeq(s, 1, Len(s) - n)

AddSlice(b, s) == [vs |-> Append(b.vs, s), length |-> b.length + Len(s)]

\* All the bytes as one slice.
Merge(b) == FlattenSeq(b.vs)

\* Slice s copied behind what is there, unless that makes len bytes.
CopySlice(there, s, len) ==
    LET left == len - Len(there)
    IN there \o SubSeq(s, 1, IF left < Len(s) THEN left ELSE Len(s))

\* The first len bytes, copied slice by slice: copied[i] is what is there after i
\* of them.
CopyToBuffer(b, len) ==
    LET copied[i \in 0 .. Len(b.vs)] ==
            IF i = 0 THEN <<>> ELSE CopySlice(copied[i - 1], b.vs[i], len)
    IN copied[Len(b.vs)]

\* The first len bytes, or nothing if there are not as many.
GetHeader(b, len) ==
    IF len = 0 \/ b.length < len THEN <<>> ELSE CopyToBuffer(b, len)

MoveHeaderFirstSlice(b, len) ==
    IF b.length < len \/ len = 0
    THEN b
    ELSE IF Len(b.vs[1]) > len
         THEN [vs |-> <<DropFront(b.vs[1], len)>> \o Tail(b.vs), length |-> b.length - len]
         ELSE [vs |-> Tail(b.vs), length |-> b.length - Len(b.vs[1])]

\* One call of MoveHeader with r.len bytes to remove: the first slice is erased,
\* or loses its first bytes when it has some to keep.
MoveFront(r) ==
    IF r.len = 0
    THEN r
    ELSE IF Len(Head(r.vs)) > r.len
         THEN [vs |-> <<DropFront(Head(r.vs), r.len)>> \o Tail(r.vs), len |-> 0]
         ELSE [vs |-> Tail(r.vs), len |-> r.len - Len(Head(r.vs))]

\* Remove the first len bytes, if there are as many: rest[n] is what is left, and
\* left to remove, after n calls.
MoveHeader(b, len) ==
    LET rest[n \in 0 .. Len(b.vs)] ==
            IF n = 0 THEN [vs |-> b.vs, len |-> len] ELSE MoveFront(rest[n - 1])
    IN IF b.length < len THEN b ELSE [vs |-> rest[Len(b.vs)].vs, length |-> b.length - len]

\* Remove the first, the last slice.
PopFront(b) ==
    IF b.vs = <<>> THEN b
    ELSE [vs |-> Tail(b.vs), length |-> b.length - Len(Head(b.vs))]
PopBack(b) ==
    IF b.vs = <<>> THEN b
    ELSE [vs |-> Front(b.vs), length |-> b.length - Len(Last(b.vs))]
=============================================================================
