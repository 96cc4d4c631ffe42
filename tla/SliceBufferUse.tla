--------------------------- MODULE SliceBufferUse ---------------------------
(***************************************************************************)
(* SliceBuffer used through its public operations in any order, and        *)
(* compared with the plain byte sequence it stands for.                    *)
(***************************************************************************)
EXTENDS SliceBuffer

CONSTANTS
    MaxBytes,   \* bound: bytes added in a behaviour
    MaxSlice    \* bound: size of a slice, 0 included

ASSUME BufferBoundsAssumption == MaxBytes \in Nat /\ MaxSlice \in Nat

VARIABLES
    buffer,  \* the SliceBuffer
    added,   \* bytes added so far; a byte is its number
    content, \* history: the bytes the buffer should hold
    header   \* the slice GetHeader last returned, and the one it should have

bufVars == <<buffer, added, content, header>>

BufInit ==
    /\ buffer = EmptyBuffer
    /\ added = 0
    /\ content = <<>>
    /\ header = << <<>>, <<>> >>

Add ==
    /\ \E n \in 0 .. MaxSlice :
          /\ added + n <= MaxBytes
          /\ Len(buffer.vs) < MaxBytes
          /\ added' = added + n
          /\ buffer' = AddSlice(buffer, Bytes(added, n))
          /\ content' = content \o Bytes(added, n)
    /\ UNCHANGED header

Move ==
    /\ \E n \in 0 .. MaxBytes :
          /\ buffer' = MoveHeader(buffer, n)
          /\ content' = IF n <= Len(content) THEN DropFront(content, n) ELSE content
    /\ UNCHANGED <<added, header>>

Get ==
    /\ \E n \in 0 .. MaxBytes :
          header' = << GetHeader(buffer, n),
                       IF n <= Len(content) THEN SubSeq(content, 1, n) ELSE <<>> >>
    /\ UNCHANGED <<buffer, added, content>>

DropFirst ==
    /\ buffer.vs # <<>>
    /\ buffer' = PopFront(buffer)
    /\ content' = DropFront(content, Len(Head(buffer.vs)))
    /\ UNCHANGED <<added, header>>

DropLast ==
    /\ buffer.vs # <<>>
    /\ buffer' = PopBack(buffer)
    /\ content' = DropBack(content, Len(Last(buffer.vs)))
    /\ UNCHANGED <<added, header>>

Clear ==
    /\ buffer' = EmptyBuffer
    /\ content' = <<>>
    /\ UNCHANGED <<added, header>>

BufNext == Add \/ Move \/ Get \/ DropFirst \/ DropLast \/ Clear

\* The slices are the bytes in order: MoveHeader, PopFront and PopBack remove
\* exactly their bytes, across slice boundaries and past empty slices.
HoldsContent == Merge(buffer) = content

\* _length, on which every guard of the buffer and of its users rests, is the
\* number of bytes held, whatever operations led here.
LengthExact == buffer.length = Len(content)

\* GetHeader returns the first bytes, or nothing when there are too few.
HeaderExact == header[1] = header[2]
=============================================================================
