-------------------------- MODULE UtilitiesProofs ---------------------------
(***************************************************************************)
(* Proofs about the slice buffer, the intrusive list and the counted       *)
(* references, the parts of Utilities whose state is changed step by step, *)
(* and about the addresses, which are functions of their inputs.           *)
(***************************************************************************)
EXTENDS Utilities, SliceBufferProofs, FiniteSetTheorems

-----------------------------------------------------------------------------
(* The slice buffer.                                                        *)

\* The buffer holds the bytes it should, and GetHeader returned what it should.
BufInv == Holds(buffer, content) /\ added \in Nat /\ HeaderExact

\* At first the buffer is empty.
LEMMA BufInitInv == BufInit => BufInv
  BY HoldsEmpty DEF BufInit, BufInv, HeaderExact

\* Every operation does to the slices what it does to the bytes.
LEMMA BufStep == ASSUME BufInv, [BufNext]_bufVars PROVE BufInv'
<1>1. /\ Holds(buffer, content) /\ added \in Nat /\ HeaderExact
      /\ content \in Slices /\ Len(content) \in Nat
  BY HoldsFacts DEF BufInv
<1>2. CASE Add
  <2>1. PICK n \in 0 .. MaxSlice :
          /\ added' = added + n
          /\ buffer' = AddSlice(buffer, Bytes(added, n))
          /\ content' = content \o Bytes(added, n)
    BY <1>2 DEF Add
  <2>2. n \in Nat
    BY BufferBoundsAssumption
  <2>3. Bytes(added, n) \in Slices
    BY <1>1, <2>2, BytesFacts DEF Numbers
  <2>4. Holds(buffer', Cat(content, Bytes(added, n)))
    BY <1>1, <2>1, <2>3, HoldsAdd
  <2>5. Holds(buffer', content')
    BY <2>1, <2>4 DEF Cat
  <2> QED BY <1>1, <1>2, <2>1, <2>2, <2>5 DEF Add, BufInv, HeaderExact
<1>3. CASE Move
  <2>1. PICK n \in 0 .. MaxBytes :
          /\ buffer' = MoveHeader(buffer, n)
          /\ content' = IF n <= Len(content) THEN DropFront(content, n) ELSE content
    BY <1>3 DEF Move
  <2>2. n \in Nat
    BY BufferBoundsAssumption
  <2>3. /\ n <= Len(content) => Holds(buffer', Drop(content, n))
        /\ n > Len(content) => buffer' = buffer
    BY <1>1, <2>1, <2>2, HoldsMove
  <2>4. Holds(buffer', content')
    BY <1>1, <2>1, <2>2, <2>3 DEF Drop, DropFront
  <2> QED BY <1>1, <1>3, <2>4 DEF Move, BufInv, HeaderExact
<1>4. CASE Get
  <2>1. PICK n \in 0 .. MaxBytes :
          header' = << GetHeader(buffer, n),
                       IF n <= Len(content) THEN SubSeq(content, 1, n) ELSE <<>> >>
    BY <1>4 DEF Get
  <2>2. n \in Nat
    BY BufferBoundsAssumption
  <2>3. GetHeader(buffer, n) = IF n <= Len(content) THEN SubSeq(content, 1, n) ELSE <<>>
    BY <1>1, <2>2, HoldsGet DEF Take
  <2>4. header'[1] = header'[2]
    BY <2>1, <2>3
  <2> QED BY <1>1, <1>4, <2>4 DEF Get, BufInv, HeaderExact
<1>5. CASE DropFirst
  <2>1. Holds(PopFront(buffer), Drop(content, Len(Head(buffer.vs))))
    BY <1>1, <1>5, HoldsPopFront DEF DropFirst
  <2>2. Holds(buffer', content')
    BY <1>5, <2>1 DEF DropFirst, Drop, DropFront
  <2> QED BY <1>1, <1>5, <2>2 DEF DropFirst, BufInv, HeaderExact
<1>6. CASE DropLast
  <2>1. PICK k : k = Len(Last(buffer.vs))
    OBVIOUS
  <2>2. k \in Nat /\ k <= Len(content) /\ Holds(PopBack(buffer), Take(content, Len(content) - k))
    BY <1>1, <1>6, <2>1, HoldsPopBack, SliceFacts DEF DropLast
  <2>3. content' = Take(content, Len(content) - k)
    BY <1>1, <1>6, <2>1, <2>2 DEF DropLast, DropBack, Take
  <2>4. Holds(buffer', content')
    BY <1>6, <2>2, <2>3 DEF DropLast
  <2> QED BY <1>1, <1>6, <2>4 DEF DropLast, BufInv, HeaderExact
<1>7. CASE Clear
  <2>1. Holds(buffer', content')
    BY <1>7, HoldsEmpty DEF Clear
  <2> QED BY <1>1, <1>7, <2>1 DEF Clear, BufInv, HeaderExact
<1>8. CASE UNCHANGED bufVars
  BY <1>1, <1>8 DEF bufVars, BufInv, HeaderExact
<1> QED BY <1>2, <1>3, <1>4, <1>5, <1>6, <1>7, <1>8 DEF BufNext

\* A buffer that holds its bytes is one byte sequence to its users.
LEMMA BufferExact == BufInv => BufferIsBytes
  BY HoldsFacts DEF BufInv, BufferIsBytes, HoldsContent, LengthExact

-----------------------------------------------------------------------------
(* The list.                                                                *)

Entries == {ListHead} \cup Items

\* The entry at place k of the ring through the sequence s: the head is at both
\* ends.
Place(s, k) == IF k \in 1 .. Len(s) THEN s[k] ELSE ListHead

\* Both chains of pointers of l run through s, whose items are different.
Ring(l, s) ==
    /\ s \in Seq(Items)
    /\ \A i, j \in 1 .. Len(s) : s[i] = s[j] => i = j
    /\ l = [next |-> l.next, prev |-> l.prev]
    /\ l.next \in [Entries -> Entries]
    /\ l.prev \in [Entries -> Entries]
    /\ \A k \in 0 .. Len(s) : /\ l.next[Place(s, k)] = Place(s, k + 1)
                              /\ l.prev[Place(s, k + 1)] = Place(s, k)

ListInv == Ring(links, items) /\ got[1] = got[2]

\* The places of a ring are entries, and only the ends are the head.
LEMMA Places ==
  ASSUME NEW s \in Seq(Items), \A i, j \in 1 .. Len(s) : s[i] = s[j] => i = j
  PROVE  /\ Len(s) \in Nat
         /\ \A k : Place(s, k) \in Entries
         /\ \A k : Place(s, k) = ListHead <=> k \notin 1 .. Len(s)
         /\ \A k \in 1 .. Len(s) : \A j : Place(s, k) = Place(s, j) => k = j
         /\ \A k \in 1 .. Len(s) : Place(s, k) = s[k]
<1>1. Len(s) \in Nat /\ \A k \in 1 .. Len(s) : s[k] \in Items
  BY LenProperties, ElementOfSeq
<1>2. ListHead \notin Items
  BY ListAssumption
<1>3. \A k \in 1 .. Len(s) : Place(s, k) = s[k]
  BY DEF Place
<1>4. \A k : k \notin 1 .. Len(s) => Place(s, k) = ListHead
  BY DEF Place
<1>5. \A k : Place(s, k) \in Entries
  BY <1>1, <1>3, <1>4 DEF Entries
<1>6. \A k : Place(s, k) = ListHead <=> k \notin 1 .. Len(s)
  BY <1>1, <1>2, <1>3, <1>4
<1>7. \A k \in 1 .. Len(s) : \A j : Place(s, k) = Place(s, j) => k = j
  BY <1>3, <1>6
<1> QED BY <1>1, <1>3, <1>5, <1>6, <1>7

\* The record n whose two chains are those of l after a link of a to b.
LinkedFrom(n, l, a, b) ==
  /\ n.next = [l.next EXCEPT ![a] = b]
  /\ n.prev = [l.prev EXCEPT ![b] = a]
  /\ n = [next |-> n.next, prev |-> n.prev]

\* The two chains after a link.
LEMMA LinkParts ==
  ASSUME NEW l, NEW a, NEW b
  PROVE  LinkedFrom(Link(l, a, b), l, a, b)
<1> DEFINE forth == [l.next EXCEPT ![a] = b]
           back  == [l.prev EXCEPT ![b] = a]
<1>1. Link(l, a, b) = [next |-> forth, prev |-> back]
  BY DEF Link
<1> HIDE DEF forth, back
<1>2. Link(l, a, b).next = forth /\ Link(l, a, b).prev = back
  BY <1>1
<1>3. Link(l, a, b) = [next |-> Link(l, a, b).next, prev |-> Link(l, a, b).prev]
  BY <1>1, <1>2
<1> QED BY <1>2, <1>3 DEF LinkedFrom, forth, back

\* Linking x between two neighbours makes the ring of the sequence with x between
\* them.
LEMMA InsertRing ==
  ASSUME NEW l, NEW s, Ring(l, s), NEW k \in 0 .. Len(s), NEW x \in Items,
         \A i \in 1 .. Len(s) : s[i] # x,
         NEW z \in Seq(Items), Len(z) = Len(s) + 1,
         \A i \in 1 .. Len(z) : z[i] = (IF i <= k THEN s[i] ELSE IF i = k + 1 THEN x ELSE s[i - 1])
  PROVE  Ring(Link(Link(l, Place(s, k), x), x, Place(s, k + 1)), z)
<1>1. /\ s \in Seq(Items) /\ \A i, j \in 1 .. Len(s) : s[i] = s[j] => i = j
      /\ l.next \in [Entries -> Entries] /\ l.prev \in [Entries -> Entries]
      /\ \A j \in 0 .. Len(s) : /\ l.next[Place(s, j)] = Place(s, j + 1)
                                /\ l.prev[Place(s, j + 1)] = Place(s, j)
  BY DEF Ring
<1>2. /\ Len(s) \in Nat /\ k \in Int
      /\ \A j : Place(s, j) \in Entries
      /\ \A j : Place(s, j) = ListHead <=> j \notin 1 .. Len(s)
      /\ \A j \in 1 .. Len(s) : \A i : Place(s, j) = Place(s, i) => j = i
      /\ \A j \in 1 .. Len(s) : Place(s, j) = s[j]
  BY <1>1, Places
<1>3. x \in Entries /\ x # ListHead
  BY ListAssumption DEF Entries
<1>4. \A i : Place(s, i) # x
  BY <1>2, <1>3
<1>5. \A i, j \in 1 .. Len(z) : z[i] = z[j] => i = j
  <2>1. \A i \in 1 .. Len(z) :
           /\ i <= k => i \in 1 .. Len(s) /\ z[i] = s[i]
           /\ i = k + 1 => z[i] = x
           /\ i > k + 1 => i - 1 \in 1 .. Len(s) /\ z[i] = s[i - 1]
    BY <1>2
  <2>2. ASSUME NEW i \in 1 .. Len(z), NEW j \in 1 .. Len(z), i < j PROVE z[i] # z[j]
    <3>1. CASE j <= k
      <4>1. i \in 1 .. Len(s) /\ z[i] = s[i] /\ j \in 1 .. Len(s) /\ z[j] = s[j]
        BY <1>2, <2>1, <2>2, <3>1
      <4> QED BY <1>1, <2>2, <4>1
    <3>2. CASE j = k + 1
      <4>1. i \in 1 .. Len(s) /\ z[i] = s[i] /\ z[j] = x
        BY <1>2, <2>1, <2>2, <3>2
      <4> QED BY <4>1
    <3>3. CASE j > k + 1
      <4>1. j - 1 \in 1 .. Len(s) /\ z[j] = s[j - 1]
        BY <2>1, <3>3
      <4>2. CASE i <= k
        <5>1. i \in 1 .. Len(s) /\ z[i] = s[i]
          BY <2>1, <4>2
        <5>2. i # j - 1
          BY <1>2, <3>3, <4>2
        <5> QED BY <1>1, <4>1, <5>1, <5>2
      <4>3. CASE i = k + 1
        BY <2>1, <4>1, <4>3
      <4>4. CASE i > k + 1
        <5>1. i - 1 \in 1 .. Len(s) /\ z[i] = s[i - 1]
          BY <2>1, <4>4
        <5>2. i - 1 # j - 1
          BY <2>2
        <5> QED BY <1>1, <4>1, <5>1, <5>2
      <4> QED BY <1>2, <4>2, <4>3, <4>4
    <3> QED BY <1>2, <3>1, <3>2, <3>3
  <2>3. \A i, j \in 1 .. Len(z) : i # j => i < j \/ j < i
    BY <1>2
  <2> QED BY <2>2, <2>3
<1>6. \A i \in 0 .. Len(z) + 1 :
         Place(z, i) = (IF i <= k THEN Place(s, i) ELSE IF i = k + 1 THEN x ELSE Place(s, i - 1))
  BY <1>2 DEF Place
<1> PICK p \in Entries, q \in Entries : p = Place(s, k) /\ q = Place(s, k + 1)
  BY <1>2
<1> PICK m : m = Link(l, p, x)
  OBVIOUS
<1> PICK n : n = Link(m, x, q)
  OBVIOUS
<1>7. /\ m.next \in [Entries -> Entries] /\ m.prev \in [Entries -> Entries]
      /\ \A e \in Entries : m.next[e] = (IF e = p THEN x ELSE l.next[e])
      /\ \A e \in Entries : m.prev[e] = (IF e = x THEN p ELSE l.prev[e])
  BY <1>1, <1>3 DEF Link
<1>8. /\ n = [next |-> n.next, prev |-> n.prev]
      /\ n.next \in [Entries -> Entries] /\ n.prev \in [Entries -> Entries]
      /\ \A e \in Entries : n.next[e] = (IF e = x THEN q ELSE m.next[e])
      /\ \A e \in Entries : n.prev[e] = (IF e = q THEN x ELSE m.prev[e])
  <2>1. /\ n.next = [m.next EXCEPT ![x] = q] /\ n.prev = [m.prev EXCEPT ![q] = x]
        /\ n = [next |-> n.next, prev |-> n.prev]
    <3>1. LinkedFrom(Link(m, x, q), m, x, q)
      BY LinkParts
    <3>2. LinkedFrom(n, m, x, q)
      BY <3>1
    <3> QED BY <3>2 DEF LinkedFrom
  <2> QED BY <1>3, <1>7, <2>1
<1>9. \A i \in 0 .. Len(z) : n.next[Place(z, i)] = Place(z, i + 1)
  <2> TAKE i \in 0 .. Len(z)
  <2>1. CASE i < k
    <3>1. Place(z, i) = Place(s, i) /\ Place(z, i + 1) = Place(s, i + 1) /\ i \in 0 .. Len(s)
      BY <1>2, <1>6, <2>1
    <3>2. Place(s, i) # p
      <4>1. CASE i = 0
        BY <1>2, <2>1, <4>1
      <4>2. CASE i # 0
        BY <1>2, <2>1, <4>2
      <4> QED BY <4>1, <4>2
    <3>3. l.next[Place(s, i)] = Place(s, i + 1)
      BY <1>1, <3>1
    <3> QED BY <1>2, <1>4, <1>7, <1>8, <3>1, <3>2, <3>3
  <2>2. CASE i = k
    <3>1. Place(z, i) = p /\ Place(z, i + 1) = x
      BY <1>2, <1>6, <2>2
    <3> QED BY <1>4, <1>7, <1>8, <3>1
  <2>3. CASE i = k + 1
    <3>1. Place(z, i) = x /\ Place(z, i + 1) = q
      BY <1>2, <1>6, <2>3
    <3> QED BY <1>3, <1>8, <3>1
  <2>4. CASE i > k + 1
    <3>1. Place(z, i) = Place(s, i - 1) /\ Place(z, i + 1) = Place(s, i) /\ i - 1 \in 1 .. Len(s)
      BY <1>2, <1>6, <2>4
    <3>2. Place(s, i - 1) # p
      <4>1. i - 1 # k
        BY <2>4
      <4> QED BY <1>2, <3>1, <4>1
    <3>3. l.next[Place(s, i - 1)] = Place(s, i)
      BY <1>1, <1>2, <3>1
    <3> QED BY <1>2, <1>4, <1>7, <1>8, <3>1, <3>2, <3>3
  <2> QED BY <1>2, <2>1, <2>2, <2>3, <2>4
<1>10. \A i \in 0 .. Len(z) : n.prev[Place(z, i + 1)] = Place(z, i)
  <2> TAKE i \in 0 .. Len(z)
  <2>1. CASE i < k
    <3>1. Place(z, i) = Place(s, i) /\ Place(z, i + 1) = Place(s, i + 1) /\ i + 1 \in 1 .. Len(s)
      BY <1>2, <1>6, <2>1
    <3>2. Place(s, i + 1) # q
      BY <1>2, <2>1, <3>1
    <3>3. l.prev[Place(s, i + 1)] = Place(s, i)
      BY <1>1, <1>2, <2>1
    <3> QED BY <1>2, <1>4, <1>7, <1>8, <3>1, <3>2, <3>3
  <2>2. CASE i = k
    <3>1. Place(z, i) = p /\ Place(z, i + 1) = x
      BY <1>2, <1>6, <2>2
    <3> QED BY <1>3, <1>4, <1>7, <1>8, <3>1
  <2>3. CASE i = k + 1
    <3>1. Place(z, i) = x /\ Place(z, i + 1) = q
      BY <1>2, <1>6, <2>3
    <3> QED BY <1>3, <1>8, <3>1
  <2>4. CASE i > k + 1
    <3>1. Place(z, i) = Place(s, i - 1) /\ Place(z, i + 1) = Place(s, i) /\ i - 1 \in 1 .. Len(s)
      BY <1>2, <1>6, <2>4
    <3>2. Place(s, i) # q
      <4>1. k + 1 \in 1 .. Len(s) /\ i # k + 1
        BY <1>2, <2>4, <3>1
      <4> QED BY <1>2, <4>1
    <3>3. l.prev[Place(s, i)] = Place(s, i - 1)
      BY <1>1, <1>2, <3>1
    <3> QED BY <1>2, <1>4, <1>7, <1>8, <3>1, <3>2, <3>3
  <2> QED BY <1>2, <2>1, <2>2, <2>3, <2>4
<1>11. Ring(n, z)
  BY <1>5, <1>8, <1>9, <1>10 DEF Ring
<1> QED BY <1>11

\* Linking the neighbours of the item at place k makes the ring of the sequence
\* without it.
LEMMA DeleteRing ==
  ASSUME NEW l, NEW s, Ring(l, s), NEW k \in 1 .. Len(s),
         NEW z \in Seq(Items), Len(z) = Len(s) - 1,
         \A i \in 1 .. Len(z) : z[i] = (IF i < k THEN s[i] ELSE s[i + 1])
  PROVE  Ring(Link(l, Place(s, k - 1), Place(s, k + 1)), z)
<1>1. /\ s \in Seq(Items) /\ \A i, j \in 1 .. Len(s) : s[i] = s[j] => i = j
      /\ l.next \in [Entries -> Entries] /\ l.prev \in [Entries -> Entries]
      /\ \A j \in 0 .. Len(s) : /\ l.next[Place(s, j)] = Place(s, j + 1)
                                /\ l.prev[Place(s, j + 1)] = Place(s, j)
  BY DEF Ring
<1>2. /\ Len(s) \in Nat /\ k \in Int
      /\ \A j : Place(s, j) \in Entries
      /\ \A j : Place(s, j) = ListHead <=> j \notin 1 .. Len(s)
      /\ \A j \in 1 .. Len(s) : \A i : Place(s, j) = Place(s, i) => j = i
      /\ \A j \in 1 .. Len(s) : Place(s, j) = s[j]
  BY <1>1, Places
<1>3. \A i, j \in 1 .. Len(z) : z[i] = z[j] => i = j
  <2>1. \A i \in 1 .. Len(z) : /\ i < k => i \in 1 .. Len(s) /\ z[i] = s[i]
                               /\ i >= k => i + 1 \in 1 .. Len(s) /\ z[i] = s[i + 1]
    BY <1>2
  <2>2. ASSUME NEW i \in 1 .. Len(z), NEW j \in 1 .. Len(z), i < j PROVE z[i] # z[j]
    <3>1. CASE j < k
      <4>1. i \in 1 .. Len(s) /\ z[i] = s[i] /\ j \in 1 .. Len(s) /\ z[j] = s[j]
        BY <1>2, <2>1, <2>2, <3>1
      <4> QED BY <1>1, <2>2, <4>1
    <3>2. CASE j >= k
      <4>1. j + 1 \in 1 .. Len(s) /\ z[j] = s[j + 1]
        BY <2>1, <3>2
      <4>2. CASE i < k
        <5>1. i \in 1 .. Len(s) /\ z[i] = s[i]
          BY <2>1, <4>2
        <5>2. i # j + 1
          BY <2>2
        <5> QED BY <1>1, <4>1, <5>1, <5>2
      <4>3. CASE i >= k
        <5>1. i + 1 \in 1 .. Len(s) /\ z[i] = s[i + 1]
          BY <2>1, <4>3
        <5>2. i + 1 # j + 1
          BY <2>2
        <5> QED BY <1>1, <4>1, <5>1, <5>2
      <4> QED BY <1>2, <4>2, <4>3
    <3> QED BY <1>2, <3>1, <3>2
  <2>3. \A i, j \in 1 .. Len(z) : i # j => i < j \/ j < i
    BY <1>2
  <2> QED BY <2>2, <2>3
<1>4. \A i \in 0 .. Len(z) + 1 : Place(z, i) = (IF i < k THEN Place(s, i) ELSE Place(s, i + 1))
  BY <1>2 DEF Place
<1> PICK p \in Entries, q \in Entries : p = Place(s, k - 1) /\ q = Place(s, k + 1)
  BY <1>2
<1> PICK n : n = Link(l, p, q)
  OBVIOUS
<1>5. /\ n = [next |-> n.next, prev |-> n.prev]
      /\ n.next \in [Entries -> Entries] /\ n.prev \in [Entries -> Entries]
      /\ \A e \in Entries : n.next[e] = (IF e = p THEN q ELSE l.next[e])
      /\ \A e \in Entries : n.prev[e] = (IF e = q THEN p ELSE l.prev[e])
  BY <1>1 DEF Link
<1>6. \A i \in 0 .. Len(z) : n.next[Place(z, i)] = Place(z, i + 1) /\ n.prev[Place(z, i + 1)] = Place(z, i)
  <2> TAKE i \in 0 .. Len(z)
  <2>1. CASE i = k - 1
    <3>1. Place(z, i) = p /\ Place(z, i + 1) = q
      BY <1>2, <1>4, <2>1
    <3> QED BY <1>5, <3>1
  <2>2. CASE i < k - 1
    <3>1. Place(z, i) = Place(s, i) /\ Place(z, i + 1) = Place(s, i + 1)
      BY <1>2, <1>4, <2>2
    <3>2. /\ i \in 0 .. Len(s) /\ i + 1 \in 1 .. Len(s) /\ i # k - 1 /\ i + 1 # k + 1
          /\ k - 1 \in 1 .. Len(s)
      BY <1>2, <2>2
    <3>3. Place(s, i) # p /\ Place(s, i + 1) # q
      BY <1>2, <3>2
    <3>4. l.next[Place(s, i)] = Place(s, i + 1) /\ l.prev[Place(s, i + 1)] = Place(s, i)
      BY <1>1, <3>2
    <3> QED BY <1>2, <1>5, <3>1, <3>3, <3>4
  <2>3. CASE i >= k
    <3>1. Place(z, i) = Place(s, i + 1) /\ Place(z, i + 1) = Place(s, i + 2)
      BY <1>2, <1>4, <2>3
    <3>2. /\ i + 1 \in 1 .. Len(s) /\ i + 1 \in 0 .. Len(s) /\ i + 1 # k - 1 /\ i + 2 # k + 1
          /\ k + 1 \in 1 .. Len(s) /\ i + 2 = (i + 1) + 1
      BY <1>2, <2>3
    <3>3. Place(s, i + 1) # p /\ Place(s, i + 2) # q
      BY <1>2, <3>2
    <3>4. l.next[Place(s, i + 1)] = Place(s, i + 2) /\ l.prev[Place(s, i + 2)] = Place(s, i + 1)
      BY <1>1, <3>2
    <3> QED BY <1>2, <1>5, <3>1, <3>3, <3>4
  <2> QED BY <1>2, <2>1, <2>2, <2>3
<1>7. Ring(n, z)
  BY <1>3, <1>5, <1>6 DEF Ring
<1> QED BY <1>7

\* RemoveFirst of the item at place k of a sequence of different items.
LEMMA RemoveFirstAt ==
  ASSUME NEW S, NEW s \in Seq(S), \A i, j \in 1 .. Len(s) : s[i] = s[j] => i = j,
         NEW k \in 1 .. Len(s)
  PROVE  LET z == RemoveFirst(s, s[k])
         IN /\ z \in Seq(S) /\ Len(z) = Len(s) - 1
            /\ \A i \in 1 .. Len(z) : z[i] = (IF i < k THEN s[i] ELSE s[i + 1])
<1>1. Len(s) \in Nat /\ k \in Nat
  BY LenProperties
<1> DEFINE I == {i \in 1 .. Len(s) : s[i] = s[k]}
<1>2. I = {k}
  OBVIOUS
<1>3. SelectInSeq(s, LAMBDA v : v = s[k]) = k
  <2>1. SelectInSeq(s, LAMBDA v : v = s[k]) = Min(I)
    BY <1>2 DEF SelectInSeq
  <2> HIDE DEF I
  <2>2. Min(I) = k
    BY <1>1, <1>2 DEF Min
  <2> QED BY <2>1, <2>2
<1>4. RemoveFirst(s, s[k]) = SubSeq(s, 1, k - 1) \o SubSeq(s, k + 1, Len(s))
  BY <1>1, <1>3 DEF RemoveFirst, RemoveAt
<1>5. SubSeq(s, 1, k - 1) \in Seq(S) /\ SubSeq(s, k + 1, Len(s)) \in Seq(S)
  BY <1>1, SubSeqProperties
<1>6. /\ Len(SubSeq(s, 1, k - 1)) = k - 1
      /\ \A i \in 1 .. k - 1 : SubSeq(s, 1, k - 1)[i] = s[i]
      /\ Len(SubSeq(s, k + 1, Len(s))) = Len(s) - k
      /\ \A i \in 1 .. Len(s) - k : SubSeq(s, k + 1, Len(s))[i] = s[k + i]
  <2>1. /\ {1, k - 1, k + 1, Len(s)} \subseteq Int
        /\ \A i \in 1 .. k - 1 : s[i] \in S
        /\ \A i \in k + 1 .. Len(s) : s[i] \in S
    BY <1>1, ElementOfSeq
  <2>2. /\ Len(SubSeq(s, 1, k - 1)) = (IF 1 <= k - 1 THEN (k - 1) - 1 + 1 ELSE 0)
        /\ \A i \in 1 .. (k - 1) - 1 + 1 : SubSeq(s, 1, k - 1)[i] = s[1 + i - 1]
    BY <2>1, SubSeqProperties
  <2>3. /\ Len(SubSeq(s, k + 1, Len(s))) = (IF k + 1 <= Len(s) THEN Len(s) - (k + 1) + 1 ELSE 0)
        /\ \A i \in 1 .. Len(s) - (k + 1) + 1 : SubSeq(s, k + 1, Len(s))[i] = s[(k + 1) + i - 1]
    BY <2>1, SubSeqProperties
  <2> QED BY <1>1, <2>2, <2>3
<1>7. PICK u \in Seq(S), v \in Seq(S) : u = SubSeq(s, 1, k - 1) /\ v = SubSeq(s, k + 1, Len(s))
  BY <1>5
<1>8. /\ Len(u) = k - 1 /\ Len(v) = Len(s) - k
      /\ \A i \in 1 .. k - 1 : u[i] = s[i]
      /\ \A i \in 1 .. Len(s) - k : v[i] = s[k + i]
  BY <1>6, <1>7
<1>9. PICK w : w = u \o v
  OBVIOUS
<1>10. /\ w \in Seq(S) /\ Len(w) = Len(u) + Len(v)
       /\ \A i \in 1 .. Len(u) + Len(v) : w[i] = IF i <= Len(u) THEN u[i] ELSE v[i - Len(u)]
  BY <1>9, ConcatProperties
<1>11. Len(u) + Len(v) = Len(s) - 1
  BY <1>1, <1>8
<1>12. ASSUME NEW i \in 1 .. Len(s) - 1 PROVE w[i] = (IF i < k THEN s[i] ELSE s[i + 1])
  <2>1. CASE i < k
    <3>1. i <= Len(u) /\ i \in 1 .. k - 1
      BY <1>1, <1>8, <2>1
    <3> QED BY <1>8, <1>10, <1>11, <2>1, <3>1
  <2>2. CASE i >= k
    <3>1. PICK j \in 1 .. Len(s) - k : j = i - Len(u) /\ k + j = i + 1
      BY <1>1, <1>8, <2>2
    <3>2. ~(i <= Len(u))
      BY <1>1, <1>8, <2>2
    <3>3. w[i] = v[j]
      BY <1>10, <1>11, <3>1, <3>2
    <3> QED BY <1>1, <1>8, <2>2, <3>1, <3>3
  <2> QED BY <1>1, <2>1, <2>2
<1> QED BY <1>4, <1>7, <1>9, <1>10, <1>11, <1>12

\* raptor_list_push_front and raptor_list_push_back.
LEMMA PushRing ==
  ASSUME NEW l, NEW s, Ring(l, s), NEW x \in Items, ~Contains(s, x)
  PROVE  /\ Ring(raptor_list_push_front(l, x), <<x>> \o s)
         /\ Ring(raptor_list_push_back(l, x), Append(s, x))
<1>1. /\ s \in Seq(Items) /\ Len(s) \in Nat
      /\ \A j \in 0 .. Len(s) : /\ l.next[Place(s, j)] = Place(s, j + 1)
                                /\ l.prev[Place(s, j + 1)] = Place(s, j)
  BY LenProperties DEF Ring
<1>2. \A i \in 1 .. Len(s) : s[i] # x
  BY DEF Contains
<1>3. Place(s, 0) = ListHead /\ Place(s, Len(s) + 1) = ListHead
  BY <1>1 DEF Place
<1>4. Ring(raptor_list_push_front(l, x), <<x>> \o s)
  <2>1. /\ <<x>> \o s \in Seq(Items) /\ Len(<<x>> \o s) = Len(s) + 1
        /\ \A i \in 1 .. Len(s) + 1 : (<<x>> \o s)[i] = IF i = 1 THEN x ELSE s[i - 1]
    <3>1. <<x>> \in Seq(Items) /\ Len(<<x>>) = 1 /\ <<x>>[1] = x
      OBVIOUS
    <3> QED BY <1>1, <3>1, ConcatProperties
  <2>2. l.next[ListHead] = Place(s, 0 + 1)
    BY <1>1, <1>3
  <2> PICK z \in Seq(Items) : z = <<x>> \o s
    BY <2>1
  <2>3. \A i \in 1 .. Len(z) : z[i] = (IF i <= 0 THEN s[i] ELSE IF i = 0 + 1 THEN x ELSE s[i - 1])
    BY <1>1, <2>1
  <2>4. 0 \in 0 .. Len(s) /\ Len(z) = Len(s) + 1
    BY <1>1, <2>1
  <2>5. Ring(Link(Link(l, Place(s, 0), x), x, Place(s, 0 + 1)), z)
    BY <1>2, <2>3, <2>4, InsertRing
  <2> QED BY <1>3, <2>2, <2>5 DEF raptor_list_push_front
<1>5. Ring(raptor_list_push_back(l, x), Append(s, x))
  <2> PICK z \in Seq(Items) : z = Append(s, x)
    BY <1>1, AppendProperties
  <2>1. Len(z) = Len(s) + 1 /\ Len(s) \in 0 .. Len(s)
    BY <1>1, AppendProperties
  <2>2. \A i \in 1 .. Len(z) :
           z[i] = (IF i <= Len(s) THEN s[i] ELSE IF i = Len(s) + 1 THEN x ELSE s[i - 1])
    BY <1>1, <2>1, AppendProperties
  <2>3. Ring(Link(Link(l, Place(s, Len(s)), x), x, Place(s, Len(s) + 1)), z)
    BY <1>2, <2>1, <2>2, InsertRing
  <2>4. l.prev[ListHead] = Place(s, Len(s))
    BY <1>1, <1>3
  <2> QED BY <1>3, <2>3, <2>4 DEF raptor_list_push_back
<1> QED BY <1>4, <1>5

\* What is between the neighbours of place k, seen from its own pointers.
LEMMA Neighbours ==
  ASSUME NEW l, NEW s, Ring(l, s), NEW k \in 1 .. Len(s)
  PROVE  /\ l.prev[s[k]] = Place(s, k - 1) /\ l.next[s[k]] = Place(s, k + 1)
         /\ s[k] # ListHead /\ l.next[s[k]] # s[k]
<1>1. /\ s \in Seq(Items) /\ Len(s) \in Nat /\ \A i, j \in 1 .. Len(s) : s[i] = s[j] => i = j
      /\ \A j \in 0 .. Len(s) : /\ l.next[Place(s, j)] = Place(s, j + 1)
                                /\ l.prev[Place(s, j + 1)] = Place(s, j)
  BY LenProperties DEF Ring
<1>2. /\ Place(s, k) = s[k] /\ s[k] # ListHead
      /\ Place(s, k) # Place(s, k + 1)
  <2>1. Place(s, k) = s[k] /\ Place(s, k) # ListHead
    BY <1>1, Places
  <2>2. k # k + 1
    BY <1>1
  <2>3. Place(s, k) # Place(s, k + 1)
    BY <1>1, <2>2, Places
  <2> QED BY <2>1, <2>3
<1>3. k \in 0 .. Len(s) /\ k - 1 \in 0 .. Len(s) /\ (k - 1) + 1 = k
  BY <1>1
<1> QED BY <1>1, <1>2, <1>3

\* raptor_list_pop_front, raptor_list_pop_back and raptor_list_remove_entry.
LEMMA PopRing ==
  ASSUME NEW l, NEW s, Ring(l, s)
  PROVE  /\ s = <<>> => /\ l.next[ListHead] = ListHead /\ l.prev[ListHead] = ListHead
                        /\ raptor_list_pop_front(l) = l /\ raptor_list_pop_back(l) = l
         /\ s # <<>> => /\ l.next[ListHead] = Head(s) /\ l.prev[ListHead] = Last(s)
                        /\ Ring(raptor_list_pop_front(l), Tail(s))
                        /\ Ring(raptor_list_pop_back(l), Front(s))
         /\ \A x \in Items : Contains(s, x) => Ring(raptor_list_remove_entry(l, x), RemoveFirst(s, x))
<1>1. /\ s \in Seq(Items) /\ Len(s) \in Nat /\ \A i, j \in 1 .. Len(s) : s[i] = s[j] => i = j
      /\ \A j \in 0 .. Len(s) : /\ l.next[Place(s, j)] = Place(s, j + 1)
                                /\ l.prev[Place(s, j + 1)] = Place(s, j)
  BY LenProperties DEF Ring
<1>2. /\ Place(s, 0) = ListHead /\ Place(s, Len(s) + 1) = ListHead
      /\ \A k \in 1 .. Len(s) : Place(s, k) = s[k]
  BY <1>1 DEF Place
<1>3. l.next[ListHead] = Place(s, 1) /\ l.prev[ListHead] = Place(s, Len(s))
  BY <1>1, <1>2
<1>4. ASSUME s = <<>>
      PROVE  /\ l.next[ListHead] = ListHead /\ l.prev[ListHead] = ListHead
             /\ raptor_list_pop_front(l) = l /\ raptor_list_pop_back(l) = l
  <2>1. Len(s) = 0
    BY <1>4
  <2>2. Place(s, 1) = ListHead /\ Place(s, Len(s)) = ListHead
    BY <2>1 DEF Place
  <2> QED BY <1>3, <2>2 DEF raptor_list_pop_front, raptor_list_pop_back
<1>5. ASSUME s # <<>>
      PROVE  /\ l.next[ListHead] = Head(s) /\ l.prev[ListHead] = Last(s)
             /\ Ring(raptor_list_pop_front(l), Tail(s))
             /\ Ring(raptor_list_pop_back(l), Front(s))
  <2>1. Len(s) \in 1 .. Len(s) /\ 1 \in 1 .. Len(s)
    BY <1>1, <1>5, EmptySeq
  <2>2. l.next[ListHead] = s[1] /\ l.prev[ListHead] = s[Len(s)] /\ Head(s) = s[1]
    BY <1>2, <1>3, <2>1
  <2>3. Ring(raptor_list_pop_front(l), Tail(s))
    <3> PICK z \in Seq(Items) : z = Tail(s)
      BY <1>1, <1>5, HeadTailProperties
    <3>1. Len(z) = Len(s) - 1
      BY <1>1, <1>5, HeadTailProperties
    <3>2. \A i \in 1 .. Len(z) : z[i] = (IF i < 1 THEN s[i] ELSE s[i + 1])
      BY <1>1, <1>5, <3>1, HeadTailProperties
    <3>3. Ring(Link(l, Place(s, 1 - 1), Place(s, 1 + 1)), z)
      BY <2>1, <3>1, <3>2, DeleteRing
    <3>4. 1 - 1 = 0 /\ l.next[s[1]] = Place(s, 1 + 1) /\ s[1] # ListHead
      BY <2>1, Neighbours
    <3> QED BY <1>2, <2>2, <3>3, <3>4 DEF raptor_list_pop_front
  <2>4. Ring(raptor_list_pop_back(l), Front(s))
    <3>0. PICK z : z = Front(s)
      OBVIOUS
    <3>1. z \in Seq(Items) /\ Len(z) = Len(s) - 1 /\ \A i \in 1 .. Len(z) : z[i] = s[i]
      <4>1. 1 \in Int /\ Len(s) - 1 \in Int /\ \A i \in 1 .. Len(s) - 1 : s[i] \in Items
        BY <1>1, ElementOfSeq
      <4>2. z = SubSeq(s, 1, Len(s) - 1)
        BY <3>0 DEF Front
      <4>3. /\ z \in Seq(Items) /\ Len(z) = (IF 1 <= Len(s) - 1 THEN (Len(s) - 1) - 1 + 1 ELSE 0)
            /\ \A i \in 1 .. (Len(s) - 1) - 1 + 1 : z[i] = s[1 + i - 1]
        BY <4>1, <4>2, SubSeqProperties
      <4>4. Len(s) \in Nat \ {0} /\ Len(z) = Len(s) - 1
        <5>1. PICK n \in Nat \ {0} : n = Len(s)
          BY <1>1, <2>1
        <5>2. Len(z) = (IF 1 <= n - 1 THEN (n - 1) - 1 + 1 ELSE 0)
          BY <4>3, <5>1
        <5>3. Len(z) = n - 1
          BY <5>2
        <5> QED BY <5>1, <5>3
      <4>5. ASSUME NEW i \in 1 .. Len(z) PROVE z[i] = s[i]
        <5>1. i \in 1 .. (Len(s) - 1) - 1 + 1 /\ 1 + i - 1 = i
          BY <4>4
        <5> QED BY <4>3, <5>1
      <4> QED BY <4>3, <4>4, <4>5
    <3>2. \A i \in 1 .. Len(z) : z[i] = (IF i < Len(s) THEN s[i] ELSE s[i + 1])
      BY <1>1, <3>1
    <3>3. Ring(Link(l, Place(s, Len(s) - 1), Place(s, Len(s) + 1)), z)
      BY <2>1, <3>1, <3>2, DeleteRing
    <3>4. l.prev[s[Len(s)]] = Place(s, Len(s) - 1) /\ s[Len(s)] # ListHead
      BY <2>1, Neighbours
    <3> QED BY <1>2, <2>2, <3>0, <3>3, <3>4 DEF raptor_list_pop_back
  <2> QED BY <2>2, <2>3, <2>4 DEF Last
<1>6. ASSUME NEW x \in Items, Contains(s, x)
      PROVE  Ring(raptor_list_remove_entry(l, x), RemoveFirst(s, x))
  <2> PICK k \in 1 .. Len(s) : s[k] = x
    BY <1>6 DEF Contains
  <2> PICK z : z = RemoveFirst(s, x)
    OBVIOUS
  <2>1. /\ z \in Seq(Items) /\ Len(z) = Len(s) - 1
        /\ \A i \in 1 .. Len(z) : z[i] = (IF i < k THEN s[i] ELSE s[i + 1])
    BY <1>1, RemoveFirstAt
  <2>2. Ring(Link(l, Place(s, k - 1), Place(s, k + 1)), z)
    BY <2>1, DeleteRing
  <2>3. l.prev[x] = Place(s, k - 1) /\ l.next[x] = Place(s, k + 1) /\ l.next[x] # x
    BY Neighbours
  <2> QED BY <2>2, <2>3 DEF raptor_list_remove_entry
<1> QED BY <1>4, <1>5, <1>6

\* The operations of the list keep the ring.
LEMMA ListStep == ASSUME ListInv, [ListNext]_listVars PROVE ListInv'
<1>1. Ring(links, items) /\ got[1] = got[2]
  BY DEF ListInv
<1>2. ASSUME NEW x \in Items, PushItem(x) PROVE ListInv'
  BY <1>1, <1>2, PushRing DEF PushItem, ListInv
<1>3. ASSUME NEW x \in Items, RemoveItem(x) PROVE ListInv'
  BY <1>1, <1>3, PopRing DEF RemoveItem, ListInv
<1>4. CASE PopFrontItem
  BY <1>1, <1>4, PopRing DEF PopFrontItem, ListInv
<1>5. CASE PopBackItem
  BY <1>1, <1>5, PopRing DEF PopBackItem, ListInv
<1>6. CASE UNCHANGED listVars
  BY <1>1, <1>6 DEF listVars, ListInv
<1> QED BY <1>2, <1>3, <1>4, <1>5, <1>6 DEF ListNext

\* RAPTOR_LIST_INIT makes the ring of the empty sequence.
LEMMA ListInitInv == ListInit => ListInv
<1> SUFFICES ASSUME ListInit PROVE ListInv
  OBVIOUS
<1>1. items = <<>> /\ Len(items) = 0 /\ items \in Seq(Items)
  BY DEF ListInit
<1>2. /\ links = [next |-> links.next, prev |-> links.prev]
      /\ links.next \in [Entries -> Entries] /\ links.prev \in [Entries -> Entries]
      /\ links.next[ListHead] = ListHead /\ links.prev[ListHead] = ListHead
  BY DEF ListInit, Entries
<1>3. \A k : Place(items, k) = ListHead
  BY <1>1 DEF Place
<1>4. Ring(links, items)
  BY <1>1, <1>2, <1>3 DEF Ring
<1>5. got[1] = got[2]
  BY DEF ListInit
<1> QED BY <1>4, <1>5 DEF ListInv

\* The ring, written as a sequence.
LEMMA RingIsSequence == ListInv => ListIsSequence
<1> SUFFICES ASSUME ListInv PROVE ListIsSequence
  OBVIOUS
<1>1. /\ items \in Seq(Items) /\ Len(items) \in Nat /\ got[1] = got[2]
      /\ \A k \in 0 .. Len(items) : /\ links.next[Place(items, k)] = Place(items, k + 1)
                                    /\ links.prev[Place(items, k + 1)] = Place(items, k)
  BY LenProperties DEF ListInv, Ring
<1> PICK ring : ring = <<ListHead>> \o items \o <<ListHead>>
  OBVIOUS
<1>2. Len(ring) = Len(items) + 2 /\ \A i \in 1 .. Len(ring) : ring[i] = Place(items, i - 1)
  <2>1. /\ <<ListHead>> \in Seq(Entries) /\ Len(<<ListHead>>) = 1 /\ <<ListHead>>[1] = ListHead
        /\ items \in Seq(Entries)
    BY <1>1 DEF Entries
  <2> PICK u : u = <<ListHead>> \o items
    OBVIOUS
  <2>2. /\ u \in Seq(Entries) /\ Len(u) = Len(items) + 1
        /\ \A i \in 1 .. Len(u) : u[i] = IF i = 1 THEN ListHead ELSE items[i - 1]
    BY <1>1, <2>1, ConcatProperties
  <2>3. /\ Len(ring) = Len(u) + 1
        /\ \A i \in 1 .. Len(ring) : ring[i] = IF i <= Len(u) THEN u[i] ELSE ListHead
    BY <1>1, <2>1, <2>2, ConcatProperties
  <2> QED BY <1>1, <2>2, <2>3 DEF Place
<1>3. \A i \in 1 .. Len(ring) - 1 : links.next[ring[i]] = ring[i + 1] /\ links.prev[ring[i + 1]] = ring[i]
  <2> TAKE i \in 1 .. Len(ring) - 1
  <2>1. /\ i - 1 \in 0 .. Len(items) /\ (i - 1) + 1 = (i + 1) - 1
        /\ i \in 1 .. Len(ring) /\ i + 1 \in 1 .. Len(ring)
    BY <1>1, <1>2
  <2>2. ring[i] = Place(items, i - 1) /\ ring[i + 1] = Place(items, (i + 1) - 1)
    BY <1>2, <2>1
  <2> QED BY <1>1, <2>1, <2>2
<1> QED BY <1>1, <1>3 DEF ListIsSequence
-----------------------------------------------------------------------------
(* The counted references.                                                  *)

Steps == [do : {"inc", "dec"}, block : Blocks] \cup
         [do : {"set"}, handle : Handles, block : Blocks \cup {NULL}]

\* The blocks that the rest p of an operation still has to count up or down.
Pending(p, what) == {b \in Blocks : \E i \in 1 .. Len(p) : p[i].do = what /\ p[i].block = b}

\* What the handle x, now r, is when p has been done: only the last two steps set
\* handles.
After(p, x, r) ==
    IF Len(p) >= 1 /\ p[Len(p)].handle = x THEN p[Len(p)].block
    ELSE IF Len(p) >= 2 /\ p[Len(p) - 1].do = "set" /\ p[Len(p) - 1].handle = x
         THEN p[Len(p) - 1].block
         ELSE r

\* The rest of an operation of thread t.  It sets handles of t, at its end; it
\* counts up and down once at most.  What it counts up is the block of the handle
\* it then sets, and something else keeps that block alive until then: the count
\* that is taken down later, or another handle of t.
Rest(p, t) ==
    /\ p \in Seq(Steps) /\ Len(p) \in 0 .. 3
    /\ Len(p) >= 1 => p[Len(p)].do = "set" /\ owner[p[Len(p)].handle] = t
    /\ Len(p) >= 2 /\ p[Len(p) - 1].do = "set" => owner[p[Len(p) - 1].handle] = t
    /\ Len(p) = 3 => p[1].do # "set"
    /\ \A i, j \in 1 .. Len(p) : p[i].do = p[j].do /\ p[i].do # "set" => i = j
    /\ \A i \in 1 .. Len(p) : p[i].do = "inc" =>
          /\ p[i].block = p[Len(p)].block
          /\ p[Len(p) - 1].do # "set"
          /\ \/ \E j \in i + 1 .. Len(p) : p[j].do = "dec" /\ p[j].block = p[i].block
             \/ \E g \in Handles : g # p[Len(p)].handle /\ owner[g] = t /\ ref[g] = p[i].block

\* Who is counted in the counter of b: the handles that will be on b when their
\* threads have done what they are doing, but for those not counted yet, and the
\* threads that have still to count it down.
Counted(x, b) ==
    LET p == prog[owner[x]]
    IN After(p, x, ref[x]) = b /\ ~(Pending(p, "inc") # {} /\ p[Len(p)].handle = x)
Claims(b) == {x \in Handles : Counted(x, b)} \cup {t \in Threads : b \in Pending(prog[t], "dec")}

RefInv ==
    /\ ref \in [Handles -> Blocks \cup {NULL}]
    /\ count \in [Blocks -> Nat]
    /\ owner \in [Handles -> Threads]
    /\ prog \in [Threads -> Seq(Steps)]
    /\ \A t \in Threads : Rest(prog[t], t)
    /\ \A b \in Blocks : count[b] = Cardinality(Claims(b))

\* A counter is at most the number of handles and threads.
LEMMA ClaimsFinite ==
  ASSUME NEW b
  PROVE  IsFiniteSet(Claims(b)) /\ Cardinality(Claims(b)) \in 0 .. Cardinality(Handles) + Cardinality(Threads)
<1>1. Claims(b) \in SUBSET (Handles \cup Threads)
  BY DEF Claims
<1>2. /\ IsFiniteSet(Handles) /\ IsFiniteSet(Threads) /\ Handles \cap Threads = {}
  BY RefsAssumption
<1>3. /\ IsFiniteSet(Handles \cup Threads)
      /\ Cardinality(Handles \cup Threads) = Cardinality(Handles) + Cardinality(Threads)
  <2>1. Cardinality(Handles \cap Threads) = 0
    BY <1>2, FS_EmptySet
  <2>2. Cardinality(Handles) \in Nat /\ Cardinality(Threads) \in Nat
    BY <1>2, FS_CardinalityType
  <2>3. /\ IsFiniteSet(Handles \cup Threads)
        /\ Cardinality(Handles \cup Threads) =
             Cardinality(Handles) + Cardinality(Threads) - Cardinality(Handles \cap Threads)
    BY <1>2, FS_Union
  <2> QED BY <2>1, <2>2, <2>3
<1>4. IsFiniteSet(Claims(b)) /\ Cardinality(Claims(b)) <= Cardinality(Handles \cup Threads)
  BY <1>1, <1>3, FS_Subset
<1>5. Cardinality(Claims(b)) \in Nat /\ Cardinality(Handles \cup Threads) \in Nat
  BY <1>3, <1>4, FS_CardinalityType
<1> QED BY <1>3, <1>4, <1>5

\* What a step of the program does, and what is known of it.
LEMMA StepKinds == \A s \in Steps : /\ s.do \in {"inc", "dec", "set"}
                                    /\ s.do # "set" => s.block \in Blocks
                                    /\ s.do = "set" => s.handle \in Handles /\ s.block \in Blocks \cup {NULL}
BY DEF Steps

\* Of a thread whose handles others leave alone, the rest of the operation stays.
LEMMA RestStays ==
  ASSUME NEW p, NEW t, Rest(p, t),
         \A g \in Handles : owner[g] = t => owner'[g] = t /\ ref'[g] = ref[g]
  PROVE  Rest(p, t)'
<1>1. p \in Seq(Steps) /\ Len(p) \in 0 .. 3
  BY DEF Rest
<1>2. \A i \in 1 .. Len(p) : p[i] \in Steps
  BY <1>1, ElementOfSeq
<1>3. Len(p) >= 1 => p[Len(p)].do = "set" /\ owner[p[Len(p)].handle] = t /\ p[Len(p)].handle \in Handles
  BY <1>1, <1>2, StepKinds DEF Rest
<1>4. Len(p) >= 2 /\ p[Len(p) - 1].do = "set" =>
        owner[p[Len(p) - 1].handle] = t /\ p[Len(p) - 1].handle \in Handles
  BY <1>1, <1>2, StepKinds DEF Rest
<1>5. /\ Len(p) >= 1 => p[Len(p)].do = "set" /\ owner'[p[Len(p)].handle] = t
      /\ Len(p) >= 2 /\ p[Len(p) - 1].do = "set" => owner'[p[Len(p) - 1].handle] = t
  BY <1>3, <1>4
<1>6. ASSUME NEW i \in 1 .. Len(p), p[i].do = "inc"
      PROVE  \/ \E j \in i + 1 .. Len(p) : p[j].do = "dec" /\ p[j].block = p[i].block
             \/ \E g \in Handles : g # p[Len(p)].handle /\ owner'[g] = t /\ ref'[g] = p[i].block
  BY <1>6 DEF Rest
<1>7. /\ Len(p) = 3 => p[1].do # "set"
      /\ \A i, j \in 1 .. Len(p) : p[i].do = p[j].do /\ p[i].do # "set" => i = j
      /\ \A i \in 1 .. Len(p) : p[i].do = "inc" =>
            p[i].block = p[Len(p)].block /\ p[Len(p) - 1].do # "set"
  BY DEF Rest
<1> QED BY <1>1, <1>5, <1>6, <1>7 DEF Rest

\* q is what is left of p after its first step.
IsRest(q, p) == q \in Seq(Steps) /\ Len(q) = Len(p) - 1 /\ \A i \in 1 .. Len(q) : q[i] = p[i + 1]

\* The first step of an operation that counts: what is left of it.
LEMMA CountFirst ==
  ASSUME NEW p, NEW t, Rest(p, t), p # <<>>, p[1].do # "set", NEW q, IsRest(q, p)
  PROVE  /\ Rest(q, t) /\ q # <<>> /\ q[Len(q)] = p[Len(p)]
         /\ \A x, r : After(q, x, r) = After(p, x, r)
         /\ p[1].block \in Blocks /\ p[1].do \in {"inc", "dec"}
         /\ \A what \in {"inc", "dec"} :
               IF p[1].do = what THEN Pending(p, what) = {p[1].block} /\ Pending(q, what) = {}
               ELSE Pending(q, what) = Pending(p, what)
<1>1. /\ p \in Seq(Steps) /\ Len(p) \in 0 .. 3
      /\ Len(p) >= 1 => p[Len(p)].do = "set" /\ owner[p[Len(p)].handle] = t
      /\ Len(p) >= 2 /\ p[Len(p) - 1].do = "set" => owner[p[Len(p) - 1].handle] = t
      /\ \A i, j \in 1 .. Len(p) : p[i].do = p[j].do /\ p[i].do # "set" => i = j
      /\ \A i \in 1 .. Len(p) : p[i].do = "inc" =>
            /\ p[i].block = p[Len(p)].block
            /\ p[Len(p) - 1].do # "set"
            /\ \/ \E j \in i + 1 .. Len(p) : p[j].do = "dec" /\ p[j].block = p[i].block
               \/ \E g \in Handles : g # p[Len(p)].handle /\ owner[g] = t /\ ref[g] = p[i].block
  BY DEF Rest
<1>2. Len(p) \in {2, 3}
  <2>1. Len(p) # 0
    BY <1>1, EmptySeq
  <2>2. Len(p) # 1
    BY <1>1
  <2> QED BY <1>1, <2>1, <2>2
<1>3. /\ q \in Seq(Steps) /\ Len(q) = Len(p) - 1
      /\ \A i \in 1 .. Len(q) : q[i] = p[i + 1]
  BY DEF IsRest
<1>4. q # <<>> /\ q[Len(q)] = p[Len(p)] /\ q[1] = p[2] /\ (Len(p) = 3 => q[2] = p[3])
  BY <1>2, <1>3
<1>5. p[1] \in Steps /\ p[1].block \in Blocks /\ p[1].do \in {"inc", "dec"}
  BY <1>1, <1>2, ElementOfSeq, StepKinds
<1>6. \A x, r : After(q, x, r) = After(p, x, r)
  <2>1. CASE Len(p) = 2
    BY <1>3, <1>4, <2>1 DEF After
  <2>2. CASE Len(p) = 3
    BY <1>3, <1>4, <2>2 DEF After
  <2> QED BY <1>2, <2>1, <2>2
<1>7. ASSUME NEW what \in {"inc", "dec"}
      PROVE  IF p[1].do = what THEN Pending(p, what) = {p[1].block} /\ Pending(q, what) = {}
             ELSE Pending(q, what) = Pending(p, what)
  <2>1. \A i \in 1 .. Len(q) : i + 1 \in 1 .. Len(p) /\ i + 1 # 1 /\ q[i] = p[i + 1]
    BY <1>2, <1>3
  <2>2. \A i \in 1 .. Len(p) : i # 1 => i - 1 \in 1 .. Len(q) /\ q[i - 1] = p[i]
    BY <1>2, <1>3
  <2>3. 1 \in 1 .. Len(p)
    BY <1>2
  <2>4. CASE p[1].do = what
    <3>1. \A i \in 1 .. Len(p) : p[i].do = what => i = 1
      BY <1>1, <2>3, <2>4
    <3> QED BY <1>5, <2>1, <2>3, <2>4, <3>1 DEF Pending
  <2>5. CASE p[1].do # what
    <3>1. Pending(q, what) \subseteq Pending(p, what)
      BY <2>1 DEF Pending
    <3>2. Pending(p, what) \subseteq Pending(q, what)
      BY <2>2, <2>5 DEF Pending
    <3>3. Pending(q, what) = Pending(p, what)
      BY <3>1, <3>2
    <3> QED BY <2>5, <3>3
  <2> QED BY <2>4, <2>5
<1>8. Rest(q, t)
  <2>1. /\ Len(q) \in 0 .. 3 /\ (Len(q) >= 1 => q[Len(q)].do = "set" /\ owner[q[Len(q)].handle] = t)
        /\ Len(q) # 3
    BY <1>1, <1>2, <1>3, <1>4
  <2>2. Len(q) >= 2 /\ q[Len(q) - 1].do = "set" => owner[q[Len(q) - 1].handle] = t
    BY <1>1, <1>2, <1>3, <1>4
  <2>3. \A i, j \in 1 .. Len(q) : q[i].do = q[j].do /\ q[i].do # "set" => i = j
    <3> TAKE i, j \in 1 .. Len(q)
    <3> HAVE q[i].do = q[j].do /\ q[i].do # "set"
    <3>1. i + 1 \in 1 .. Len(p) /\ j + 1 \in 1 .. Len(p) /\ q[i] = p[i + 1] /\ q[j] = p[j + 1]
      BY <1>2, <1>3
    <3>2. i + 1 = j + 1
      BY <1>1, <3>1
    <3> QED BY <3>2
  <2>4. ASSUME NEW i \in 1 .. Len(q), q[i].do = "inc"
        PROVE  /\ q[i].block = q[Len(q)].block
               /\ q[Len(q) - 1].do # "set"
               /\ \/ \E j \in i + 1 .. Len(q) : q[j].do = "dec" /\ q[j].block = q[i].block
                  \/ \E g \in Handles : g # q[Len(q)].handle /\ owner[g] = t /\ ref[g] = q[i].block
    <3>1. i + 1 \in 1 .. Len(p) /\ q[i] = p[i + 1] /\ p[i + 1].do = "inc"
      BY <1>2, <1>3, <2>4
    <3>2. q[i].block = q[Len(q)].block /\ p[Len(p) - 1].do # "set"
      BY <1>1, <1>4, <3>1
    <3>3. Len(p) = 3
      <4>1. ASSUME Len(p) = 2 PROVE FALSE
        <5>1. i + 1 = Len(p)
          BY <1>3, <4>1
        <5> QED BY <1>1, <3>1, <4>1, <5>1
      <4> QED BY <1>2, <4>1
    <3>4. q[Len(q) - 1].do # "set"
      <4>1. Len(q) - 1 = 1 /\ Len(p) - 1 = 2
        BY <1>3, <3>3
      <4> QED BY <1>4, <3>2, <4>1
    <3>5. CASE \E j \in (i + 1) + 1 .. Len(p) : p[j].do = "dec" /\ p[j].block = p[i + 1].block
      <4>1. PICK j \in (i + 1) + 1 .. Len(p) : p[j].do = "dec" /\ p[j].block = p[i + 1].block
        BY <3>5
      <4>2. j - 1 \in i + 1 .. Len(q) /\ j - 1 \in 1 .. Len(q) /\ (j - 1) + 1 = j
        BY <1>2, <1>3
      <4>3. q[j - 1] = p[j]
        BY <1>3, <4>2
      <4> QED BY <3>1, <3>2, <3>4, <4>1, <4>2, <4>3
    <3>6. CASE \E g \in Handles : g # p[Len(p)].handle /\ owner[g] = t /\ ref[g] = p[i + 1].block
      BY <1>4, <3>1, <3>2, <3>4, <3>6
    <3> QED BY <1>1, <3>1, <3>5, <3>6
  <2> QED BY <1>3, <2>1, <2>2, <2>3, <2>4 DEF Rest
<1> QED BY <1>4, <1>5, <1>6, <1>7, <1>8

\* After, for an operation that is over or has one step left.
LEMMA AfterShort ==
  ASSUME NEW q, NEW x, NEW r
  PROVE  /\ Len(q) = 0 => After(q, x, r) = r
         /\ Len(q) = 1 => After(q, x, r) = IF q[1].handle = x THEN q[1].block ELSE r
BY DEF After

\* The first step of an operation that sets a handle: nothing is counted any more.
SetEffect(q, p, t) ==
    /\ q \in Seq(Steps) /\ Len(q) <= 1
    /\ Len(q) = 1 => q[1].do = "set" /\ owner[q[1].handle] = t /\ q[1] = p[2]
    /\ \A r, x : After(q, x, IF x = p[1].handle THEN p[1].block ELSE r) = After(p, x, r)
    /\ p[1].handle \in Handles /\ owner[p[1].handle] = t /\ p[1].block \in Blocks \cup {NULL}
    /\ Pending(p, "inc") = {} /\ Pending(q, "inc") = {}
    /\ Pending(p, "dec") = {} /\ Pending(q, "dec") = {}

\* Such a step has this effect.
LEMMA SetFirst ==
  ASSUME NEW p, NEW t, Rest(p, t), p # <<>>, p[1].do = "set", NEW q, IsRest(q, p)
  PROVE  SetEffect(q, p, t)
<1>1. /\ p \in Seq(Steps) /\ Len(p) \in 0 .. 3
      /\ Len(p) >= 1 => p[Len(p)].do = "set" /\ owner[p[Len(p)].handle] = t
      /\ Len(p) >= 2 /\ p[Len(p) - 1].do = "set" => owner[p[Len(p) - 1].handle] = t
      /\ Len(p) = 3 => p[1].do # "set"
  BY DEF Rest
<1>2. Len(p) \in {1, 2}
  <2>1. Len(p) # 0
    BY <1>1, EmptySeq
  <2> QED BY <1>1, <2>1
<1>3. /\ q \in Seq(Steps) /\ Len(q) = Len(p) - 1
      /\ \A i \in 1 .. Len(q) : q[i] = p[i + 1]
  BY DEF IsRest
<1>4. /\ Len(p) = 2 => q[1] = p[2] /\ q[1].do = "set" /\ owner[q[1].handle] = t
      /\ owner[p[1].handle] = t
  BY <1>1, <1>2, <1>3
<1>5. p[1] \in Steps
  BY <1>1, <1>2, ElementOfSeq
<1>6. p[1].handle \in Handles /\ p[1].block \in Blocks \cup {NULL}
  BY <1>5, StepKinds
<1>7. \A r, x : After(q, x, IF x = p[1].handle THEN p[1].block ELSE r) = After(p, x, r)
  <2> TAKE r, x
  <2> PICK e : e = IF x = p[1].handle THEN p[1].block ELSE r
    OBVIOUS
  <2>1. CASE Len(p) = 1
    <3>1. Len(q) = 0
      BY <1>3, <2>1
    <3>2. After(q, x, e) = e
      BY <3>1, AfterShort
    <3>3. Len(p) >= 1 /\ ~(Len(p) >= 2) /\ p[Len(p)] = p[1]
      BY <2>1
    <3>4. CASE x = p[1].handle
      <4>1. After(p, x, r) = p[1].block
        BY <3>3, <3>4 DEF After
      <4> QED BY <3>2, <3>4, <4>1
    <3>5. CASE x # p[1].handle
      <4>1. After(p, x, r) = r
        BY <3>3, <3>5 DEF After
      <4> QED BY <3>2, <3>5, <4>1
    <3> QED BY <3>4, <3>5
  <2>2. CASE Len(p) = 2
    <3>1. Len(q) = 1
      BY <1>3, <2>2
    <3>2. After(q, x, e) = IF p[2].handle = x THEN p[2].block ELSE e
      BY <1>4, <2>2, <3>1, AfterShort
    <3>3. Len(p) >= 1 /\ Len(p) >= 2 /\ p[Len(p)] = p[2] /\ p[Len(p) - 1] = p[1]
      BY <2>2
    <3>4. CASE x = p[2].handle
      <4>1. After(p, x, r) = p[2].block
        BY <3>3, <3>4 DEF After
      <4> QED BY <3>2, <3>4, <4>1
    <3>5. CASE x # p[2].handle /\ x = p[1].handle
      <4>1. After(p, x, r) = p[1].block
        BY <3>3, <3>5 DEF After
      <4> QED BY <3>2, <3>5, <4>1
    <3>6. CASE x # p[2].handle /\ x # p[1].handle
      <4>1. After(p, x, r) = r
        BY <3>3, <3>6 DEF After
      <4> QED BY <3>2, <3>6, <4>1
    <3> QED BY <3>4, <3>5, <3>6
  <2> QED BY <1>2, <2>1, <2>2
<1>8. /\ \A i \in 1 .. Len(p) : p[i].do = "set"
      /\ \A i \in 1 .. Len(q) : q[i].do = "set"
  BY <1>1, <1>2, <1>3, <1>4
<1>9. /\ Pending(p, "inc") = {} /\ Pending(q, "inc") = {}
      /\ Pending(p, "dec") = {} /\ Pending(q, "dec") = {}
  BY <1>8 DEF Pending
<1> QED BY <1>2, <1>3, <1>4, <1>6, <1>7, <1>9 DEF SetEffect

\* The length of what is left of an operation that only sets handles.
LEMMA ShortLength ==
  \A n \in Nat : n <= 1 => /\ n \in 0 .. 3 /\ ~(n >= 2) /\ n # 3 /\ (n >= 1 => n = 1)
                           /\ \A i \in 1 .. n : i = 1 /\ n = 1
OBVIOUS

\* One step of an operation: a count up makes the handle counted that is set last, a
\* count down takes the thread away, and setting a handle changes no claim.
LEMMA StepRefs == ASSUME RefInv, NEW t \in Threads, Step(t) PROVE RefInv'
<1>1. /\ ref \in [Handles -> Blocks \cup {NULL}] /\ count \in [Blocks -> Nat]
      /\ owner \in [Handles -> Threads] /\ prog \in [Threads -> Seq(Steps)]
      /\ \A u \in Threads : Rest(prog[u], u)
      /\ \A b \in Blocks : count[b] = Cardinality(Claims(b))
  BY DEF RefInv
<1>2. Threads \cap Handles = {} /\ NULL \notin Blocks
  BY RefsAssumption
<1>3. PICK p \in Seq(Steps) : p = prog[t] /\ p # <<>>
  BY <1>1 DEF Step
<1>4. PICK q \in Seq(Steps) : q = Tail(p)
  BY <1>3, HeadTailProperties
<1>5. /\ Len(q) = Len(p) - 1 /\ (\A i \in 1 .. Len(q) : q[i] = p[i + 1]) /\ Head(p) = p[1]
      /\ Len(p) \in Nat /\ Len(p) >= 1
  BY <1>3, <1>4, HeadTailProperties, LenProperties, EmptySeq
<1>0. IsRest(q, p)
  BY <1>5 DEF IsRest
<1>6. /\ owner' = owner /\ prog' = [prog EXCEPT ![t] = q]
      /\ \/ p[1].do = "inc" /\ AddRef(p[1].block) /\ ref' = ref
         \/ p[1].do = "dec" /\ DecRef(p[1].block) /\ ref' = ref
         \/ p[1].do = "set" /\ ref' = [ref EXCEPT ![p[1].handle] = p[1].block] /\ count' = count
  BY <1>3, <1>4, <1>5 DEF Step
<1>7. /\ prog' \in [Threads -> Seq(Steps)] /\ prog'[t] = q
      /\ \A u \in Threads : u # t => prog'[u] = prog[u]
  BY <1>1, <1>6
<1>8. Rest(p, t)
  BY <1>1, <1>3
<1>9. ASSUME NEW x \in Handles, owner[x] # t, NEW b, ref'[x] = ref[x] PROVE Counted(x, b)' <=> Counted(x, b)
  BY <1>1, <1>6, <1>7, <1>9 DEF Counted
<1>10. CASE p[1].do # "set"
  <2>1. /\ Rest(q, t) /\ q # <<>> /\ q[Len(q)] = p[Len(p)]
        /\ \A x, r : After(q, x, r) = After(p, x, r)
        /\ p[1].block \in Blocks /\ p[1].do \in {"inc", "dec"}
        /\ \A what \in {"inc", "dec"} :
              IF p[1].do = what THEN Pending(p, what) = {p[1].block} /\ Pending(q, what) = {}
              ELSE Pending(q, what) = Pending(p, what)
    BY <1>0, <1>3, <1>8, <1>10, CountFirst
  <2>2. ref' = ref
    BY <1>6, <1>10
  <2>3. \A u \in Threads : Rest(prog[u], u)'
    <3> TAKE u \in Threads
    <3>1. PICK z : z = prog'[u]
      OBVIOUS
    <3>2. Rest(z, u)
      BY <1>1, <1>7, <2>1, <3>1
    <3>3. Rest(z, u)'
      BY <1>6, <2>2, <3>2, RestStays
    <3> QED BY <3>1, <3>3 DEF Rest
  <2>4. PICK b \in Blocks : b = p[1].block
    BY <2>1
  <2>5. PICK h \in Handles : h = p[Len(p)].handle /\ owner[h] = t
    <3>1. p[Len(p)] \in Steps /\ p[Len(p)].do = "set" /\ owner[p[Len(p)].handle] = t
      BY <1>3, <1>5, <1>8, ElementOfSeq DEF Rest
    <3> QED BY <3>1, StepKinds
  <2>6. \A x \in Handles, c \in Blocks :
           owner[x] = t => /\ Counted(x, c) <=> /\ After(p, x, ref[x]) = c
                                                /\ ~(Pending(p, "inc") # {} /\ x = h)
                           /\ Counted(x, c)' <=> /\ After(p, x, ref[x]) = c
                                                 /\ ~(Pending(q, "inc") # {} /\ x = h)
    BY <1>3, <1>6, <1>7, <2>1, <2>2, <2>5 DEF Counted
  <2>7. \A x \in Handles, c \in Blocks : owner[x] # t => (Counted(x, c)' <=> Counted(x, c))
    BY <1>9, <2>2
  <2>8. CASE p[1].do = "inc"
    <3>1. /\ Pending(p, "inc") # {} /\ Pending(q, "inc") = {} /\ Pending(q, "dec") = Pending(p, "dec")
      BY <2>1, <2>8
    <3>2. After(p, h, ref[h]) = b
      <4>1. p[1].block = p[Len(p)].block
        BY <1>5, <1>8, <2>8 DEF Rest
      <4> QED BY <1>5, <2>4, <2>5, <4>1 DEF After
    <3>3. \A u \in Threads : Pending(prog'[u], "dec") = Pending(prog[u], "dec")
      BY <1>3, <1>7, <3>1
    <3>4. \A x \in Handles, c \in Blocks :
             Counted(x, c)' <=> Counted(x, c) \/ (x = h /\ c = b)
      BY <2>5, <2>6, <2>7, <3>1, <3>2
    <3>5. \A c \in Blocks : Claims(c)' = Claims(c) \cup (IF c = b THEN {h} ELSE {})
      BY <3>3, <3>4 DEF Claims
    <3>6. h \notin Claims(b)
      BY <1>2, <2>5, <2>6, <3>1 DEF Claims
    <3>7. IsFiniteSet(Claims(b)) /\ Cardinality(Claims(b)) \in Nat
      BY ClaimsFinite, FS_CardinalityType
    <3>8. Cardinality(Claims(b)') = Cardinality(Claims(b)) + 1
      <4>1. Claims(b)' = Claims(b) \cup {h}
        BY <3>5
      <4> QED BY <3>6, <3>7, <4>1, FS_AddElement
    <3>9. count' = [count EXCEPT ![b] = count[b] + 1]
      BY <1>6, <2>4, <2>8 DEF AddRef
    <3>10. /\ count' \in [Blocks -> Nat] /\ count'[b] = count[b] + 1
           /\ \A c \in Blocks : c # b => count'[c] = count[c]
      BY <1>1, <3>9
    <3>11. \A c \in Blocks : c # b => Claims(c)' = Claims(c)
      BY <3>5
    <3>12. \A c \in Blocks : count'[c] = Cardinality(Claims(c)')
      BY <1>1, <3>8, <3>10, <3>11
    <3> QED BY <1>1, <1>6, <1>7, <2>2, <2>3, <3>10, <3>12 DEF RefInv
  <2>9. CASE p[1].do = "dec"
    <3>1. /\ Pending(p, "dec") = {b} /\ Pending(q, "dec") = {} /\ Pending(q, "inc") = Pending(p, "inc")
      BY <2>1, <2>4, <2>9
    <3>2. \A x \in Handles, c \in Blocks : Counted(x, c)' <=> Counted(x, c)
      BY <2>6, <2>7, <3>1
    <3>3. \A u \in Threads, c \in Blocks :
             c \in Pending(prog'[u], "dec") <=> c \in Pending(prog[u], "dec") /\ ~(u = t /\ c = b)
      BY <1>3, <1>7, <3>1
    <3>4. \A c \in Blocks : Claims(c)' = Claims(c) \ (IF c = b THEN {t} ELSE {})
      BY <1>2, <3>2, <3>3 DEF Claims
    <3>5. t \in Claims(b)
      BY <1>3, <3>1 DEF Claims
    <3>6. IsFiniteSet(Claims(b)) /\ Cardinality(Claims(b)) \in Nat /\ Cardinality(Claims(b)) # 0
      BY <3>5, ClaimsFinite, FS_CardinalityType, FS_EmptySet
    <3>7. Cardinality(Claims(b)') = Cardinality(Claims(b)) - 1
      <4>1. Claims(b)' = Claims(b) \ {t}
        BY <3>4
      <4> QED BY <3>5, <3>6, <4>1, FS_RemoveElement
    <3>8. count' = [count EXCEPT ![b] = count[b] - 1]
      BY <1>6, <2>4, <2>9 DEF DecRef
    <3>9. /\ count' \in [Blocks -> Nat] /\ count'[b] = count[b] - 1
          /\ \A c \in Blocks : c # b => count'[c] = count[c]
      BY <1>1, <3>6, <3>8
    <3>10. \A c \in Blocks : c # b => Claims(c)' = Claims(c)
      BY <3>4
    <3>11. \A c \in Blocks : count'[c] = Cardinality(Claims(c)')
      BY <1>1, <3>7, <3>9, <3>10
    <3> QED BY <1>1, <1>6, <1>7, <2>2, <2>3, <3>9, <3>11 DEF RefInv
  <2> QED BY <2>1, <2>8, <2>9
<1>11. CASE p[1].do = "set"
  <2>9. SetEffect(q, p, t)
    BY <1>0, <1>3, <1>8, <1>11, SetFirst
  <2>0. /\ Len(q) \in 0 .. 3 /\ ~(Len(q) >= 2) /\ Len(q) # 3 /\ (Len(q) >= 1 => Len(q) = 1)
        /\ \A i \in 1 .. Len(q) : i = 1 /\ Len(q) = 1
    <3>1. Len(q) \in Nat
      BY LenProperties
    <3>2. Len(q) <= 1
      BY <2>9 DEF SetEffect
    <3> QED BY <3>1, <3>2, ShortLength, Zenon
  <2>1. /\ Len(q) <= 1
        /\ Len(q) = 1 => q[1].do = "set" /\ owner[q[1].handle] = t
        /\ p[1].handle \in Handles /\ owner[p[1].handle] = t /\ p[1].block \in Blocks \cup {NULL}
        /\ Pending(p, "inc") = {} /\ Pending(q, "inc") = {}
        /\ Pending(p, "dec") = {} /\ Pending(q, "dec") = {}
    BY <2>9 DEF SetEffect
  <2>2. \A r, x : After(q, x, IF x = p[1].handle THEN p[1].block ELSE r) = After(p, x, r)
    BY <2>9 DEF SetEffect
  <2>3. /\ ref' \in [Handles -> Blocks \cup {NULL}] /\ count' = count
        /\ \A x \in Handles : ref'[x] = IF x = p[1].handle THEN p[1].block ELSE ref[x]
    BY <1>1, <1>6, <1>11, <2>1
  <2>4. \A u \in Threads : Rest(prog[u], u)'
    <3> TAKE u \in Threads
    <3>1. PICK z : z = prog'[u]
      OBVIOUS
    <3>2. CASE u = t
      <4>1. z = q
        BY <1>7, <3>1, <3>2
      <4>2. \A i \in 1 .. Len(q) : q[i].do = "set" /\ i = 1
        BY <2>0, <2>1, Zenon
      <4>3. Rest(q, t)'
        <5>1. Len(q) \in 0 .. 3 /\ ~(Len(q) >= 2) /\ Len(q) # 3
          BY <2>0, Zenon
        <5>2. Len(q) >= 1 => q[Len(q)].do = "set" /\ owner'[q[Len(q)].handle] = t
          <6>1. Len(q) >= 1 => Len(q) = 1 /\ q[Len(q)] = q[1]
            BY <2>0, Zenon
          <6> QED BY <1>6, <2>1, <6>1
        <5>3. \A i, j \in 1 .. Len(q) : q[i].do = q[j].do /\ q[i].do # "set" => i = j
          BY <4>2
        <5>4. \A i \in 1 .. Len(q) : q[i].do # "inc"
          BY <4>2
        <5> QED BY <5>1, <5>2, <5>3, <5>4 DEF Rest
      <4>4. Rest(z, u)'
        BY <3>2, <4>1, <4>3
      <4> HIDE <4>1, <4>2, <4>3
      <4> QED BY <3>1, <4>4 DEF Rest
    <3>3. CASE u # t
      <4>1. Rest(z, u)
        BY <1>1, <1>7, <3>1, <3>3
      <4>2. \A g \in Handles : owner[g] = u => owner'[g] = u /\ ref'[g] = ref[g]
        BY <1>6, <2>1, <2>3, <3>3
      <4>3. Rest(z, u)'
        BY <4>1, <4>2, RestStays
      <4> QED BY <3>1, <4>3 DEF Rest
    <3> QED BY <3>2, <3>3
  <2>5. \A x \in Handles, c \in Blocks : Counted(x, c)' <=> Counted(x, c)
    <3> TAKE x \in Handles, c \in Blocks
    <3>1. CASE owner[x] = t
      <4>1. Counted(x, c) <=> After(p, x, ref[x]) = c
        BY <1>3, <2>1, <3>1 DEF Counted
      <4>2. Counted(x, c)' <=> After(q, x, ref'[x]) = c
        BY <1>6, <1>7, <2>1, <3>1 DEF Counted
      <4> QED BY <2>2, <2>3, <4>1, <4>2
    <3>2. CASE owner[x] # t
      <4>1. ref'[x] = ref[x]
        BY <2>1, <2>3, <3>2
      <4> QED BY <1>9, <3>2, <4>1
    <3> QED BY <3>1, <3>2
  <2>6. \A u \in Threads : Pending(prog'[u], "dec") = Pending(prog[u], "dec")
    BY <1>3, <1>7, <2>1
  <2>7. \A c \in Blocks : Claims(c)' = Claims(c)
    BY <2>5, <2>6 DEF Claims
  <2>8. \A c \in Blocks : count'[c] = Cardinality(Claims(c)')
    BY <1>1, <2>3, <2>7
  <2> QED BY <1>1, <1>6, <1>7, <2>3, <2>4, <2>8 DEF RefInv
<1> QED BY <1>10, <1>11

\* The steps that the operations are made of.
LEMMA StepFacts ==
  /\ \A b \in Blocks, what \in {"inc", "dec"} :
        LET s == [do |-> what, block |-> b] IN s \in Steps /\ s.do = what /\ s.block = b
  /\ \A h \in Handles, b \in Blocks \cup {NULL} :
        LET s == [do |-> "set", handle |-> h, block |-> b]
        IN s \in Steps /\ s.do = "set" /\ s.handle = h /\ s.block = b
BY DEF Steps

\* Two and three steps in a row.
LEMMA Rows ==
  ASSUME NEW x \in Steps, NEW y \in Steps, NEW z \in Steps
  PROVE  /\ <<x>> \in Seq(Steps) /\ Len(<<x>>) = 1 /\ <<x>>[1] = x
         /\ <<x>> \o <<y>> \in Seq(Steps) /\ Len(<<x>> \o <<y>>) = 2
         /\ (<<x>> \o <<y>>)[1] = x /\ (<<x>> \o <<y>>)[2] = y
         /\ <<x>> \o <<y>> \o <<z>> \in Seq(Steps) /\ Len(<<x>> \o <<y>> \o <<z>>) = 3
         /\ (<<x>> \o <<y>> \o <<z>>)[1] = x /\ (<<x>> \o <<y>> \o <<z>>)[2] = y
         /\ (<<x>> \o <<y>> \o <<z>>)[3] = z
<1>1. \A e \in Steps : <<e>> \in Seq(Steps) /\ Len(<<e>>) = 1 /\ <<e>>[1] = e
  OBVIOUS
<1>2. PICK u \in Seq(Steps), v \in Seq(Steps), w \in Seq(Steps) : u = <<x>> /\ v = <<y>> /\ w = <<z>>
  BY <1>1
<1>3. /\ Len(u) = 1 /\ Len(v) = 1 /\ Len(w) = 1 /\ u[1] = x /\ v[1] = y /\ w[1] = z
  BY <1>1, <1>2
<1>4. PICK uv : uv = u \o v
  OBVIOUS
<1>5. /\ uv \in Seq(Steps) /\ Len(uv) = Len(u) + Len(v)
      /\ \A i \in 1 .. Len(u) + Len(v) : uv[i] = IF i <= Len(u) THEN u[i] ELSE v[i - Len(u)]
  BY <1>4, ConcatProperties
<1>6. Len(uv) = 2 /\ uv[1] = x /\ uv[2] = y
  BY <1>3, <1>5
<1>10. uv \in Seq(Steps)
  BY <1>5
<1>7. PICK r : r = uv \o w
  OBVIOUS
<1>8. /\ r \in Seq(Steps) /\ Len(r) = Len(uv) + Len(w)
      /\ \A i \in 1 .. Len(uv) + Len(w) : r[i] = IF i <= Len(uv) THEN uv[i] ELSE w[i - Len(uv)]
  BY <1>7, <1>10, ConcatProperties
<1>9. Len(r) = 3 /\ r[1] = x /\ r[2] = y /\ r[3] = z
  BY <1>3, <1>6, <1>8
<1> QED BY <1>1, <1>2, <1>4, <1>5, <1>6, <1>7, <1>8, <1>9

\* Nothing is counted for a null pointer: an operation with its steps left out.
LEMMA NoSteps ==
  ASSUME NEW u \in Seq(Steps), NEW v \in Seq(Steps)
  PROVE  <<>> \o u = u /\ <<>> \o <<>> \o u = u /\ u \o <<>> \o v = u \o v /\ <<>> \o u \o v = u \o v
BY ConcatEmptySeq

\* What a row of steps means to After, Pending and Rest.
LEMMA RowEffect ==
  ASSUME NEW p \in Seq(Steps)
  PROVE  /\ Len(p) = 1 => /\ \A x, r : After(p, x, r) = IF p[1].handle = x THEN p[1].block ELSE r
                          /\ \A what : Pending(p, what) = {b \in Blocks : p[1].do = what /\ p[1].block = b}
         /\ Len(p) = 2 => /\ \A x, r : After(p, x, r) = IF p[2].handle = x THEN p[2].block
                                                        ELSE IF p[1].do = "set" /\ p[1].handle = x
                                                             THEN p[1].block ELSE r
                          /\ \A what : Pending(p, what) =
                                {b \in Blocks : \E i \in {1, 2} : p[i].do = what /\ p[i].block = b}
         /\ Len(p) = 3 => /\ \A x, r : After(p, x, r) = IF p[3].handle = x THEN p[3].block
                                                        ELSE IF p[2].do = "set" /\ p[2].handle = x
                                                             THEN p[2].block ELSE r
                          /\ \A what : Pending(p, what) =
                                {b \in Blocks : \E i \in {1, 2, 3} : p[i].do = what /\ p[i].block = b}
<1>1. CASE Len(p) = 1
  <2>1. 1 .. Len(p) = {1} /\ Len(p) >= 1 /\ ~(Len(p) >= 2) /\ p[Len(p)] = p[1] /\ Len(p) # 2 /\ Len(p) # 3
    BY <1>1
  <2> QED BY <2>1 DEF After, Pending
<1>2. CASE Len(p) = 2
  <2>1. /\ 1 .. Len(p) = {1, 2} /\ Len(p) >= 1 /\ Len(p) >= 2 /\ p[Len(p)] = p[2] /\ p[Len(p) - 1] = p[1]
        /\ Len(p) # 1 /\ Len(p) # 3
    BY <1>2
  <2> QED BY <2>1 DEF After, Pending
<1>3. CASE Len(p) = 3
  <2>1. /\ 1 .. Len(p) = {1, 2, 3} /\ Len(p) >= 1 /\ Len(p) >= 2 /\ p[Len(p)] = p[3]
        /\ p[Len(p) - 1] = p[2] /\ Len(p) # 1 /\ Len(p) # 2
    BY <1>3
  <2> QED BY <2>1 DEF After, Pending
<1> QED BY <1>1, <1>2, <1>3

\* The pieces of an operation are rows of steps.
LEMMA Pieces ==
  ASSUME NEW h \in Handles, NEW b \in Blocks \cup {NULL}
  PROVE  Inc(b) \in Seq(Steps) /\ Dec(b) \in Seq(Steps) /\ Set(h, b) \in Seq(Steps)
<1>1. \A e \in Steps : <<e>> \in Seq(Steps)
  OBVIOUS
<1>2. <<>> \in Seq(Steps)
  OBVIOUS
<1> QED BY <1>1, <1>2, StepFacts DEF Inc, Dec, Set

\* The rest of an operation with one, two or three steps.
LEMMA RestOfRow ==
  ASSUME NEW p \in Seq(Steps), NEW t
  PROVE  /\ Len(p) = 1 /\ p[1].do = "set" /\ owner[p[1].handle] = t => Rest(p, t)
         /\ /\ Len(p) = 2 /\ p[2].do = "set" /\ owner[p[2].handle] = t
            /\ p[1].do = "set" => owner[p[1].handle] = t
            /\ p[1].do = "inc" =>
                  /\ p[1].block = p[2].block
                  /\ \E g \in Handles : g # p[2].handle /\ owner[g] = t /\ ref[g] = p[1].block
            => Rest(p, t)
         /\ /\ Len(p) = 3 /\ p[3].do = "set" /\ owner[p[3].handle] = t
            /\ p[2].do = "set" => owner[p[2].handle] = t
            /\ p[1].do # "set" /\ p[1].do # p[2].do
            /\ p[1].do = "inc" =>
                  /\ p[1].block = p[3].block /\ p[2].do # "set"
                  /\ \/ p[2].do = "dec" /\ p[2].block = p[1].block
                     \/ \E g \in Handles : g # p[3].handle /\ owner[g] = t /\ ref[g] = p[1].block
            /\ p[2].do = "inc" =>
                  /\ p[2].block = p[3].block
                  /\ \E g \in Handles : g # p[3].handle /\ owner[g] = t /\ ref[g] = p[2].block
            => Rest(p, t)
<1>1. CASE Len(p) = 1
  <2>1. 1 .. Len(p) = {1} /\ Len(p) \in 0 .. 3 /\ ~(Len(p) >= 2) /\ p[Len(p)] = p[1] /\ Len(p) # 2 /\ Len(p) # 3
    BY <1>1
  <2> QED BY <2>1 DEF Rest
<1>2. CASE Len(p) = 2
  <2>1. /\ 1 .. Len(p) = {1, 2} /\ Len(p) \in 0 .. 3 /\ p[Len(p)] = p[2] /\ p[Len(p) - 1] = p[1]
        /\ Len(p) # 1 /\ Len(p) # 3
    BY <1>2
  <2> QED BY <2>1 DEF Rest
<1>3. CASE Len(p) = 3
  <2>1. /\ 1 .. Len(p) = {1, 2, 3} /\ Len(p) \in 0 .. 3 /\ p[Len(p)] = p[3] /\ p[Len(p) - 1] = p[2]
        /\ Len(p) # 1 /\ Len(p) # 2 /\ 2 \in 1 + 1 .. Len(p)
    BY <1>3
  <2> QED BY <2>1 DEF Rest
<1> QED BY <1>1, <1>2, <1>3

\* The pieces of an operation: nothing for a null pointer, else one step.
LEMMA OneStep ==
  /\ \A b \in Blocks : \E i \in Steps : Inc(b) = <<i>> /\ i.do = "inc" /\ i.block = b
  /\ \A b \in Blocks : \E d \in Steps : Dec(b) = <<d>> /\ d.do = "dec" /\ d.block = b
  /\ \A h \in Handles, b \in Blocks \cup {NULL} :
        \E s \in Steps : Set(h, b) = <<s>> /\ s.do = "set" /\ s.handle = h /\ s.block = b
<1>0. NULL \notin Blocks
  BY RefsAssumption
<1>1. ASSUME NEW b \in Blocks
      PROVE  \E i \in Steps : Inc(b) = <<i>> /\ i.do = "inc" /\ i.block = b
  <2> DEFINE i == [do |-> "inc", block |-> b]
  <2>1. i \in Steps /\ i.do = "inc" /\ i.block = b
    BY DEF Steps
  <2>2. Inc(b) = <<i>>
    BY <1>0 DEF Inc
  <2> HIDE DEF i
  <2> QED BY <2>1, <2>2
<1>2. ASSUME NEW b \in Blocks
      PROVE  \E d \in Steps : Dec(b) = <<d>> /\ d.do = "dec" /\ d.block = b
  <2> DEFINE d == [do |-> "dec", block |-> b]
  <2>1. d \in Steps /\ d.do = "dec" /\ d.block = b
    BY DEF Steps
  <2>2. Dec(b) = <<d>>
    BY <1>0 DEF Dec
  <2> HIDE DEF d
  <2> QED BY <2>1, <2>2
<1>3. ASSUME NEW h \in Handles, NEW b \in Blocks \cup {NULL}
      PROVE  \E s \in Steps : Set(h, b) = <<s>> /\ s.do = "set" /\ s.handle = h /\ s.block = b
  <2> DEFINE s == [do |-> "set", handle |-> h, block |-> b]
  <2>1. s \in Steps /\ s.do = "set" /\ s.handle = h /\ s.block = b
    BY DEF Steps
  <2>2. Set(h, b) = <<s>>
    BY DEF Set
  <2> HIDE DEF s
  <2> QED BY <2>1, <2>2
<1> QED BY <1>1, <1>2, <1>3

\* An assignment of thread t, in either order of its counts, a copy or a
\* destruction: the block a of handle h is counted down, the block b up, and h is
\* set to b.  What keeps b alive meanwhile.
IsAssign(p, t, h, a, b) ==
    LET other == \E g \in Handles : g # h /\ owner[g] = t /\ ref[g] = b
    IN \/ p = Inc(b) \o Dec(a) \o Set(h, b) /\ (b = NULL \/ a = b \/ other)
       \/ p = Dec(a) \o Inc(b) \o Set(h, b) /\ (b = NULL \/ other)
AssignEffect(p, t, h, a, b) ==
    /\ p \in Seq(Steps) /\ Rest(p, t) /\ p[Len(p)].handle = h
    /\ \A x, r : After(p, x, r) = IF x = h THEN b ELSE r
    /\ Pending(p, "dec") = {c \in Blocks : c = a}
    /\ Pending(p, "inc") = {c \in Blocks : c = b}

\* A move assignment or a swap: h is set to b and g to e, after a count down.
IsMove(p, h, g, a, b, e) == p = Dec(a) \o Set(h, b) \o Set(g, e)
MoveEffect(p, t, h, g, a, b, e) ==
    /\ p \in Seq(Steps) /\ Rest(p, t)
    /\ \A x, r : After(p, x, r) = IF x = g THEN e ELSE IF x = h THEN b ELSE r
    /\ Pending(p, "dec") = {c \in Blocks : c = a}
    /\ Pending(p, "inc") = {}

\* The steps of an assignment do what it says.
LEMMA AssignRow ==
  ASSUME NEW t, NEW h \in Handles, owner[h] = t,
         NEW a \in Blocks \cup {NULL}, NEW b \in Blocks \cup {NULL}, NEW p, IsAssign(p, t, h, a, b)
  PROVE  AssignEffect(p, t, h, a, b)
<1>1. NULL \notin Blocks
  BY RefsAssumption
<1>2. PICK s \in Steps : Set(h, b) = <<s>> /\ s.do = "set" /\ s.handle = h /\ s.block = b
  BY OneStep
<1>3. CASE a = NULL /\ b = NULL
  <2>1. p = <<s>>
    <3>1. <<s>> \in Seq(Steps)
      OBVIOUS
    <3>2. p = <<>> \o <<>> \o <<s>>
      BY <1>2, <1>3 DEF Inc, Dec, IsAssign
    <3> QED BY <3>1, <3>2, NoSteps
  <2>2. p \in Seq(Steps) /\ Len(p) = 1 /\ p[1] = s
    BY <2>1, Rows
  <2>3. Rest(p, t)
    BY <1>2, <2>2, RestOfRow
  <2> QED BY <1>1, <1>2, <1>3, <2>2, <2>3, RowEffect DEF AssignEffect
<1>4. CASE a # NULL /\ b = NULL
  <2>1. PICK d \in Steps : Dec(a) = <<d>> /\ d.do = "dec" /\ d.block = a
    BY <1>4, OneStep
  <2>2. p = <<d>> \o <<s>>
    <3>1. <<s>> \in Seq(Steps) /\ <<d>> \in Seq(Steps)
      OBVIOUS
    <3>2. p = <<>> \o <<d>> \o <<s>> \/ p = <<d>> \o <<>> \o <<s>>
      BY <1>2, <1>4, <2>1 DEF Inc, IsAssign
    <3> QED BY <3>1, <3>2, NoSteps
  <2>3. p \in Seq(Steps) /\ Len(p) = 2 /\ p[1] = d /\ p[2] = s
    BY <2>2, Rows
  <2>4. Rest(p, t)
    BY <1>2, <2>1, <2>3, RestOfRow
  <2> QED BY <1>1, <1>2, <1>4, <2>1, <2>3, <2>4, RowEffect DEF AssignEffect
<1>5. CASE a = NULL /\ b # NULL
  <2>1. PICK i \in Steps : Inc(b) = <<i>> /\ i.do = "inc" /\ i.block = b
    BY <1>5, OneStep
  <2>2. p = <<i>> \o <<s>>
    <3>1. <<s>> \in Seq(Steps) /\ <<i>> \in Seq(Steps)
      OBVIOUS
    <3>2. p = <<>> \o <<i>> \o <<s>> \/ p = <<i>> \o <<>> \o <<s>>
      BY <1>2, <1>5, <2>1 DEF Dec, IsAssign
    <3> QED BY <3>1, <3>2, NoSteps
  <2>3. p \in Seq(Steps) /\ Len(p) = 2 /\ p[1] = i /\ p[2] = s
    BY <2>2, Rows
  <2>4. Rest(p, t)
    <3>1. \E g \in Handles : g # h /\ owner[g] = t /\ ref[g] = b
      BY <1>5 DEF IsAssign
    <3> QED BY <1>2, <2>1, <2>3, <3>1, RestOfRow
  <2> QED BY <1>1, <1>2, <1>5, <2>1, <2>3, <2>4, RowEffect DEF AssignEffect
<1>6. CASE a # NULL /\ b # NULL
  <2>1. PICK i \in Steps : Inc(b) = <<i>> /\ i.do = "inc" /\ i.block = b
    BY <1>6, OneStep
  <2>2. PICK d \in Steps : Dec(a) = <<d>> /\ d.do = "dec" /\ d.block = a
    BY <1>6, OneStep
  <2>3. CASE /\ p = Inc(b) \o Dec(a) \o Set(h, b)
             /\ a = b \/ \E g \in Handles : g # h /\ owner[g] = t /\ ref[g] = b
    <3>1. p = <<i>> \o <<d>> \o <<s>>
      BY <1>2, <2>1, <2>2, <2>3
    <3>2. p \in Seq(Steps) /\ Len(p) = 3 /\ p[1] = i /\ p[2] = d /\ p[3] = s
      BY <3>1, Rows
    <3>3. Rest(p, t)
      BY <1>2, <2>1, <2>2, <2>3, <3>2, RestOfRow
    <3> QED BY <1>1, <1>2, <1>6, <2>1, <2>2, <3>2, <3>3, RowEffect DEF AssignEffect
  <2>4. CASE p = Dec(a) \o Inc(b) \o Set(h, b) /\ \E g \in Handles : g # h /\ owner[g] = t /\ ref[g] = b
    <3>1. p = <<d>> \o <<i>> \o <<s>>
      BY <1>2, <2>1, <2>2, <2>4
    <3>2. p \in Seq(Steps) /\ Len(p) = 3 /\ p[1] = d /\ p[2] = i /\ p[3] = s
      BY <3>1, Rows
    <3>3. Rest(p, t)
      BY <1>2, <2>1, <2>2, <2>4, <3>2, RestOfRow
    <3> QED BY <1>1, <1>2, <1>6, <2>1, <2>2, <3>2, <3>3, RowEffect DEF AssignEffect
  <2> QED BY <1>6, <2>3, <2>4 DEF IsAssign
<1> QED BY <1>3, <1>4, <1>5, <1>6

\* The steps of a move assignment or a swap do what it says.
LEMMA MoveRow ==
  ASSUME NEW t, NEW h \in Handles, NEW g \in Handles, owner[h] = t, owner[g] = t,
         NEW a \in Blocks \cup {NULL}, NEW b \in Blocks \cup {NULL}, NEW e \in Blocks \cup {NULL},
         NEW p, IsMove(p, h, g, a, b, e)
  PROVE  MoveEffect(p, t, h, g, a, b, e)
<1>0. p = Dec(a) \o Set(h, b) \o Set(g, e)
  BY DEF IsMove
<1>1. NULL \notin Blocks
  BY RefsAssumption
<1>2. PICK s \in Steps : Set(h, b) = <<s>> /\ s.do = "set" /\ s.handle = h /\ s.block = b
  BY OneStep
<1>3. PICK w \in Steps : Set(g, e) = <<w>> /\ w.do = "set" /\ w.handle = g /\ w.block = e
  BY OneStep
<1>4. CASE a = NULL
  <2>1. p = <<s>> \o <<w>>
    <3>1. <<s>> \in Seq(Steps) /\ <<w>> \in Seq(Steps)
      OBVIOUS
    <3>2. p = <<>> \o <<s>> \o <<w>>
      BY <1>0, <1>2, <1>3, <1>4 DEF Dec
    <3> QED BY <3>1, <3>2, NoSteps
  <2>2. p \in Seq(Steps) /\ Len(p) = 2 /\ p[1] = s /\ p[2] = w
    BY <2>1, Rows
  <2>3. Rest(p, t)
    BY <1>2, <1>3, <2>2, RestOfRow
  <2>4. \A x, r : After(p, x, r) = IF x = g THEN e ELSE IF x = h THEN b ELSE r
    BY <1>2, <1>3, <2>2, RowEffect
  <2>5. Pending(p, "dec") = {} /\ Pending(p, "inc") = {}
    BY <1>2, <1>3, <2>2, RowEffect
  <2> QED BY <1>1, <1>4, <2>2, <2>3, <2>4, <2>5 DEF MoveEffect
<1>5. CASE a # NULL
  <2>1. PICK d \in Steps : Dec(a) = <<d>> /\ d.do = "dec" /\ d.block = a
    BY <1>5, OneStep
  <2>2. p = <<d>> \o <<s>> \o <<w>>
    BY <1>0, <1>2, <1>3, <2>1
  <2>3. p \in Seq(Steps) /\ Len(p) = 3 /\ p[1] = d /\ p[2] = s /\ p[3] = w
    BY <2>2, Rows
  <2>4. Rest(p, t)
    BY <1>2, <1>3, <2>1, <2>3, RestOfRow
  <2>5. \A x, r : After(p, x, r) = IF x = g THEN e ELSE IF x = h THEN b ELSE r
    BY <1>2, <1>3, <2>3, RowEffect
  <2>6. Pending(p, "dec") = {c \in Blocks : c = a} /\ Pending(p, "inc") = {}
    BY <1>2, <1>3, <2>1, <2>3, RowEffect
  <2> QED BY <2>3, <2>4, <2>5, <2>6 DEF MoveEffect
<1> QED BY <1>4, <1>5

\* Exchanging one element of a finite set for another keeps its cardinality.
LEMMA Exchange ==
  ASSUME NEW C, NEW D, IsFiniteSet(C),
         D = C \/ \E x \in C : \E y : y \notin C /\ D = (C \ {x}) \cup {y}
  PROVE  Cardinality(D) = Cardinality(C)
<1>1. CASE D = C
  BY <1>1
<1>2. CASE \E x \in C : \E y : y \notin C /\ D = (C \ {x}) \cup {y}
  <2>1. PICK x \in C : \E y : y \notin C /\ D = (C \ {x}) \cup {y}
    BY <1>2
  <2>0. PICK y : y \notin C /\ D = (C \ {x}) \cup {y}
    BY <2>1
  <2>2. IsFiniteSet(C \ {x}) /\ Cardinality(C \ {x}) = Cardinality(C) - 1
    BY FS_RemoveElement
  <2>3. Cardinality(D) = Cardinality(C \ {x}) + 1
    BY <2>0, <2>2, FS_AddElement
  <2>4. Cardinality(C) \in Nat
    BY FS_CardinalityType
  <2> QED BY <2>2, <2>3, <2>4
<1> QED BY <1>1, <1>2

\* Every operation does nothing, or is an assignment, a move assignment or a swap.
LEMMA OperationKinds ==
  ASSUME NEW t, NEW h \in Handles, NEW g \in Handles, owner[h] = t, owner[g] = t,
         NEW a \in Blocks \cup {NULL}, NEW b \in Blocks \cup {NULL}, a = ref[h], b = ref[g],
         NEW p \in Operations(h, g)
  PROVE  \/ p = <<>>
         \/ \E c \in Blocks \cup {NULL} : IsAssign(p, t, h, a, c)
         \/ IsMove(p, h, g, a, b, NULL)
         \/ IsMove(p, h, g, NULL, b, a)
<1>1. \A c \in Blocks \cup {NULL} : Inc(c) \in Seq(Steps) /\ Dec(c) \in Seq(Steps) /\ Set(h, c) \in Seq(Steps)
  BY Pieces
<1>2. Dec(NULL) = <<>> /\ Inc(NULL) = <<>>
  BY DEF Dec, Inc
<1>3. \/ p = SliceAssign(h, g) \/ p = SliceMoveAssign(h, g) \/ p = SliceDestroy(h) \/ p = PtrDestroy(h)
      \/ p = PtrAssign(h, g) \/ p = PtrMoveAssign(h, g) \/ p = PtrSwap(h, g)
      \/ a = NULL /\ h # g /\ (p = SliceCopy(h, g) \/ p = SliceMove(h, g) \/ p = PtrCopy(h, g))
      \/ a = NULL /\ h # g /\ p = PtrMove(h, g)
  BY DEF Operations
<1>4. CASE p = SliceAssign(h, g)
  BY <1>4 DEF SliceAssign, IsAssign
<1>5. CASE p = SliceMoveAssign(h, g)
  BY <1>5 DEF SliceMoveAssign, IsAssign
<1>6. CASE p = SliceDestroy(h) \/ p = PtrDestroy(h)
  <2>1. p = Dec(a) \o Set(h, NULL)
    BY <1>6 DEF SliceDestroy, PtrDestroy
  <2>2. p = Dec(a) \o Inc(NULL) \o Set(h, NULL)
    BY <1>1, <1>2, <2>1, NoSteps
  <2> QED BY <2>2 DEF IsAssign
<1>7. CASE p = PtrAssign(h, g)
  <2>1. p = Inc(b) \o (Dec(a) \o Set(h, b))
    BY <1>7 DEF PtrAssign, PtrReset
  <2>2. p = Inc(b) \o Dec(a) \o Set(h, b)
    <3>1. PICK u \in Seq(Steps) : u = Inc(b)
      BY <1>1
    <3>2. PICK v \in Seq(Steps) : v = Dec(a)
      BY <1>1
    <3>3. PICK w \in Seq(Steps) : w = Set(h, b)
      BY <1>1
    <3>4. (u \o v) \o w = u \o (v \o w)
      BY ConcatAssociative
    <3> QED BY <2>1, <3>1, <3>2, <3>3, <3>4
  <2>3. a = b \/ \E x \in Handles : x # h /\ owner[x] = t /\ ref[x] = b
    OBVIOUS
  <2> QED BY <2>2, <2>3 DEF IsAssign
<1>8. CASE p = PtrMoveAssign(h, g)
  BY <1>8 DEF PtrMoveAssign, PtrReset, IsMove
<1>9. CASE p = PtrSwap(h, g)
  <2>1. p = Set(h, b) \o Set(g, a)
    BY <1>9 DEF PtrSwap
  <2>2. p = Dec(NULL) \o Set(h, b) \o Set(g, a)
    <3>1. Set(g, a) \in Seq(Steps)
      BY Pieces
    <3> QED BY <1>1, <1>2, <2>1, <3>1, NoSteps
  <2> QED BY <2>2 DEF IsMove
<1>10. CASE a = NULL /\ h # g /\ (p = SliceCopy(h, g) \/ p = SliceMove(h, g) \/ p = PtrCopy(h, g))
  <2>1. p = Inc(b) \o Set(h, b)
    BY <1>10 DEF SliceCopy, SliceMove, PtrCopy
  <2>2. p = Inc(b) \o Dec(a) \o Set(h, b)
    BY <1>1, <1>2, <1>10, <2>1, NoSteps
  <2> QED BY <1>10, <2>2 DEF IsAssign
<1>11. CASE a = NULL /\ h # g /\ p = PtrMove(h, g)
  <2>1. p = Set(h, b) \o Set(g, NULL)
    BY <1>11 DEF PtrMove
  <2>2. p = Dec(a) \o Set(h, b) \o Set(g, NULL)
    <3>1. Set(g, NULL) \in Seq(Steps)
      BY Pieces
    <3> QED BY <1>1, <1>2, <1>11, <2>1, <3>1, NoSteps
  <2> QED BY <2>2 DEF IsMove
<1> QED BY <1>3, <1>4, <1>5, <1>6, <1>7, <1>8, <1>9, <1>10, <1>11

\* A handle whose thread is between operations is counted where it points to.
LEMMA IdleCounted ==
  /\ \A what : Pending(<<>>, what) = {}
  /\ \A x \in Handles : \A c : prog[owner[x]] = <<>> => (Counted(x, c) <=> ref[x] = c)
<1>1. Len(<<>>) = 0 /\ 1 .. 0 = {}
  OBVIOUS
<1>2. \A what : Pending(<<>>, what) = {}
  BY <1>1 DEF Pending
<1>3. \A x, r : After(<<>>, x, r) = r
  BY <1>1, AfterShort
<1> QED BY <1>2, <1>3 DEF Counted

\* Beginning an operation counts nothing: who is counted for a block is exchanged
\* for another, the handle for the thread, or one handle for the other.
LEMMA BeginRefs ==
  ASSUME RefInv, NEW t \in Threads, NEW h \in Handles, NEW g \in Handles, Begin(t, h, g)
  PROVE  RefInv'
<1>1. /\ ref \in [Handles -> Blocks \cup {NULL}] /\ count \in [Blocks -> Nat]
      /\ owner \in [Handles -> Threads] /\ prog \in [Threads -> Seq(Steps)]
      /\ \A u \in Threads : Rest(prog[u], u)
      /\ \A b \in Blocks : count[b] = Cardinality(Claims(b))
  BY DEF RefInv
<1>2. Threads \cap Handles = {} /\ NULL \notin Blocks
  BY RefsAssumption
<1>3. prog[t] = <<>> /\ owner[h] = t /\ owner[g] = t /\ ref' = ref /\ count' = count /\ owner' = owner
  BY DEF Begin, Idle
<1>4. PICK p \in Operations(h, g) : prog' = [prog EXCEPT ![t] = p]
  BY DEF Begin
<1>5. PICK a \in Blocks \cup {NULL}, b \in Blocks \cup {NULL} : a = ref[h] /\ b = ref[g]
  BY <1>1
<1>6. /\ prog'[t] = p /\ \A u \in Threads : u # t => prog'[u] = prog[u]
  BY <1>1, <1>4
<1>7. \A x \in Handles, c \in Blocks :
         /\ owner[x] # t => (Counted(x, c)' <=> Counted(x, c))
         /\ owner[x] = t => (Counted(x, c) <=> ref[x] = c)
         /\ owner[x] = t => (Counted(x, c)' <=> /\ After(p, x, ref[x]) = c
                                                /\ ~(Pending(p, "inc") # {} /\ p[Len(p)].handle = x))
  <2> TAKE x \in Handles, c \in Blocks
  <2>1. owner[x] # t => (Counted(x, c)' <=> Counted(x, c))
    BY <1>1, <1>3, <1>6 DEF Counted
  <2>2. owner[x] = t => (Counted(x, c) <=> ref[x] = c)
    BY <1>3, IdleCounted
  <2>3. owner[x] = t => (Counted(x, c)' <=> /\ After(p, x, ref[x]) = c
                                            /\ ~(Pending(p, "inc") # {} /\ p[Len(p)].handle = x))
    BY <1>3, <1>6 DEF Counted
  <2> QED BY <2>1, <2>2, <2>3
<1>8. \A u \in Threads, c \in Blocks :
         /\ u # t => (c \in Pending(prog'[u], "dec") <=> c \in Pending(prog[u], "dec"))
         /\ c \notin Pending(prog[t], "dec")
         /\ c \in Pending(prog'[t], "dec") <=> c \in Pending(p, "dec")
  BY <1>3, <1>6, IdleCounted
<1>9. ASSUME p \in Seq(Steps), Rest(p, t),
             \A c \in Blocks : \/ Claims(c)' = Claims(c)
                               \/ \E x \in Claims(c) : \E y :
                                     y \notin Claims(c) /\ Claims(c)' = (Claims(c) \ {x}) \cup {y}
      PROVE  RefInv'
  <2>1. prog' \in [Threads -> Seq(Steps)]
    BY <1>1, <1>4, <1>9
  <2>2. \A u \in Threads : Rest(prog[u], u)'
    <3> TAKE u \in Threads
    <3>1. PICK z : z = prog'[u]
      OBVIOUS
    <3>2. Rest(z, u)
      BY <1>1, <1>6, <1>9, <3>1
    <3>3. Rest(z, u)'
      BY <1>3, <3>2, RestStays
    <3> QED BY <3>1, <3>3 DEF Rest
  <2>3. ASSUME NEW c \in Blocks PROVE count'[c] = Cardinality(Claims(c)')
    <3>1. PICK C, D : C = Claims(c) /\ D = Claims(c)'
      OBVIOUS
    <3>2. IsFiniteSet(C)
      BY <3>1, ClaimsFinite
    <3>3. D = C \/ \E x \in C : \E y : y \notin C /\ D = (C \ {x}) \cup {y}
      BY <1>9, <3>1
    <3>4. Cardinality(D) = Cardinality(C)
      BY <3>2, <3>3, Exchange
    <3> QED BY <1>1, <1>3, <3>1, <3>4
  <2> QED BY <1>1, <1>3, <2>1, <2>2, <2>3 DEF RefInv
<1>10. CASE p = <<>>
  <2>1. prog' = prog
    BY <1>1, <1>3, <1>4, <1>10
  <2>2. \A c \in Blocks : Claims(c)' = Claims(c)
    BY <1>3, <2>1 DEF Claims, Counted
  <2>3. p \in Seq(Steps) /\ Rest(p, t)
    BY <1>1, <1>3, <1>10
  <2> QED BY <1>9, <2>2, <2>3
<1>11. CASE \E c \in Blocks \cup {NULL} : IsAssign(p, t, h, a, c)
  <2>0. PICK e \in Blocks \cup {NULL} : AssignEffect(p, t, h, a, e)
    BY <1>3, <1>11, AssignRow
  <2>1. /\ p \in Seq(Steps) /\ Rest(p, t) /\ p[Len(p)].handle = h
        /\ \A x, r : After(p, x, r) = IF x = h THEN e ELSE r
        /\ Pending(p, "dec") = {c \in Blocks : c = a}
        /\ Pending(p, "inc") = {c \in Blocks : c = e}
    BY <2>0 DEF AssignEffect
  <2>2. ASSUME NEW c \in Blocks
        PROVE  \/ Claims(c)' = Claims(c)
               \/ \E x \in Claims(c) : \E y : y \notin Claims(c) /\ Claims(c)' = (Claims(c) \ {x}) \cup {y}
    <3>1. \A x \in Handles : Counted(x, c)' <=> Counted(x, c) /\ x # h
      BY <1>2, <1>3, <1>7, <2>1
    <3>2. \A u \in Threads : c \in Pending(prog'[u], "dec") <=>
             IF u = t THEN c = a ELSE c \in Pending(prog[u], "dec")
      BY <1>6, <1>8, <2>1
    <3>3. Claims(c)' = (Claims(c) \ {h}) \cup (IF c = a THEN {t} ELSE {})
      BY <1>2, <1>8, <3>1, <3>2 DEF Claims
    <3>4. t \notin Claims(c) /\ (h \in Claims(c) <=> c = a)
      BY <1>2, <1>3, <1>5, <1>7, <1>8 DEF Claims
    <3>5. CASE c = a
      BY <3>3, <3>4, <3>5
    <3>6. CASE c # a
      BY <3>3, <3>4, <3>6
    <3> QED BY <3>5, <3>6
  <2> QED BY <1>9, <2>1, <2>2
<1>12. CASE IsMove(p, h, g, a, b, NULL)
  <2>0. MoveEffect(p, t, h, g, a, b, NULL)
    BY <1>3, <1>12, MoveRow
  <2>1. /\ p \in Seq(Steps) /\ Rest(p, t)
        /\ \A x, r : After(p, x, r) = IF x = g THEN NULL ELSE IF x = h THEN b ELSE r
        /\ Pending(p, "dec") = {c \in Blocks : c = a}
        /\ Pending(p, "inc") = {}
    BY <2>0 DEF MoveEffect
  <2>2. ASSUME NEW c \in Blocks
        PROVE  \/ Claims(c)' = Claims(c)
               \/ \E x \in Claims(c) : \E y : y \notin Claims(c) /\ Claims(c)' = (Claims(c) \ {x}) \cup {y}
    <3>1. \A x \in Handles : Counted(x, c)' <=>
             IF x = g THEN FALSE ELSE IF x = h THEN c = b ELSE Counted(x, c)
      BY <1>2, <1>3, <1>7, <2>1
    <3>2. \A u \in Threads : c \in Pending(prog'[u], "dec") <=>
             IF u = t THEN c = a ELSE c \in Pending(prog[u], "dec")
      BY <1>6, <1>8, <2>1
    <3>3. Claims(c)' = (Claims(c) \ {h, g}) \cup (IF c = a THEN {t} ELSE {})
                          \cup (IF c = b /\ h # g THEN {h} ELSE {})
      BY <1>2, <1>8, <3>1, <3>2 DEF Claims
    <3>4. t \notin Claims(c) /\ (h \in Claims(c) <=> c = a) /\ (g \in Claims(c) <=> c = b)
      BY <1>2, <1>3, <1>5, <1>7, <1>8 DEF Claims
    <3>5. CASE c = a /\ c = b
      <4>1. Claims(c)' = (Claims(c) \ {g}) \cup {t}
        BY <3>3, <3>4, <3>5
      <4> QED BY <3>4, <3>5, <4>1
    <3>6. CASE c = a /\ c # b
      <4>1. Claims(c)' = (Claims(c) \ {h}) \cup {t}
        BY <3>3, <3>4, <3>6
      <4> QED BY <3>4, <3>6, <4>1
    <3>7. CASE c # a /\ c = b
      <4>1. Claims(c)' = (Claims(c) \ {g}) \cup {h}
        BY <1>5, <3>3, <3>4, <3>7
      <4> QED BY <3>4, <3>7, <4>1
    <3>8. CASE c # a /\ c # b
      BY <3>3, <3>4, <3>8
    <3> QED BY <3>5, <3>6, <3>7, <3>8
  <2> QED BY <1>9, <2>1, <2>2
<1>13. CASE IsMove(p, h, g, NULL, b, a)
  <2>0. MoveEffect(p, t, h, g, NULL, b, a)
    BY <1>3, <1>13, MoveRow
  <2>1. /\ p \in Seq(Steps) /\ Rest(p, t)
        /\ \A x, r : After(p, x, r) = IF x = g THEN a ELSE IF x = h THEN b ELSE r
        /\ Pending(p, "dec") = {c \in Blocks : c = NULL}
        /\ Pending(p, "inc") = {}
    BY <2>0 DEF MoveEffect
  <2>2. ASSUME NEW c \in Blocks
        PROVE  \/ Claims(c)' = Claims(c)
               \/ \E x \in Claims(c) : \E y : y \notin Claims(c) /\ Claims(c)' = (Claims(c) \ {x}) \cup {y}
    <3>1. \A x \in Handles : Counted(x, c)' <=>
             IF x = g THEN c = a ELSE IF x = h THEN c = b ELSE Counted(x, c)
      BY <1>2, <1>3, <1>7, <2>1
    <3>2. \A u \in Threads : c \in Pending(prog'[u], "dec") <=> c \in Pending(prog[u], "dec")
      BY <1>2, <1>6, <1>8, <2>1
    <3>3. Claims(c)' = (Claims(c) \ {h, g}) \cup (IF c = a THEN {g} ELSE {})
                          \cup (IF c = b /\ h # g THEN {h} ELSE {})
      BY <1>2, <3>1, <3>2 DEF Claims
    <3>4. (h \in Claims(c) <=> c = a) /\ (g \in Claims(c) <=> c = b)
      BY <1>2, <1>3, <1>5, <1>7 DEF Claims
    <3>5. CASE c = a /\ c = b
      BY <3>3, <3>4, <3>5
    <3>6. CASE c = a /\ c # b
      <4>1. Claims(c)' = (Claims(c) \ {h}) \cup {g}
        BY <3>3, <3>4, <3>6
      <4> QED BY <3>4, <3>6, <4>1
    <3>7. CASE c # a /\ c = b
      <4>1. Claims(c)' = (Claims(c) \ {g}) \cup {h}
        BY <1>5, <3>3, <3>4, <3>7
      <4> QED BY <3>4, <3>7, <4>1
    <3>8. CASE c # a /\ c # b
      BY <3>3, <3>4, <3>8
    <3> QED BY <3>5, <3>6, <3>7, <3>8
  <2> QED BY <1>9, <2>1, <2>2
<1> QED BY <1>3, <1>5, <1>10, <1>11, <1>12, <1>13, OperationKinds

\* Between operations nothing is left to do.
LEMMA NothingLeft ==
  /\ <<>> \in Seq(Steps) /\ Len(<<>>) \in 0 .. 3 /\ ~(Len(<<>>) >= 1) /\ ~(Len(<<>>) >= 2) /\ Len(<<>>) # 3
  /\ 1 .. Len(<<>>) = {}
OBVIOUS

\* A new object has one handle, and nothing was counted for its memory.
LEMMA NewRefs ==
  ASSUME RefInv, NEW t \in Threads, NEW h \in Handles, New(t, h)
  PROVE  RefInv'
<1>1. /\ ref \in [Handles -> Blocks \cup {NULL}] /\ count \in [Blocks -> Nat]
      /\ owner \in [Handles -> Threads] /\ prog \in [Threads -> Seq(Steps)]
      /\ \A u \in Threads : Rest(prog[u], u)
      /\ \A b \in Blocks : count[b] = Cardinality(Claims(b))
  BY DEF RefInv
<1>2. Threads \cap Handles = {} /\ NULL \notin Blocks
  BY RefsAssumption
<1>3. prog[t] = <<>> /\ owner[h] = t /\ ref[h] = NULL /\ owner' = owner /\ prog' = prog
  BY DEF New, Idle
<1>4. PICK b \in Blocks : /\ count[b] = 0
                          /\ count' = [count EXCEPT ![b] = 1]
                          /\ ref' = [ref EXCEPT ![h] = b]
  BY DEF New
<1>5. /\ ref' \in [Handles -> Blocks \cup {NULL}] /\ ref'[h] = b
      /\ \A x \in Handles : x # h => ref'[x] = ref[x]
      /\ count' \in [Blocks -> Nat] /\ count'[b] = 1
      /\ \A c \in Blocks : c # b => count'[c] = count[c]
  BY <1>1, <1>4
<1>6. \A u \in Threads : Rest(prog[u], u)'
  <2> TAKE u \in Threads
  <2>1. PICK z : z = prog[u]
    OBVIOUS
  <2>2. CASE u = t
    <3>1. /\ z \in Seq(Steps) /\ Len(z) \in 0 .. 3 /\ ~(Len(z) >= 1) /\ ~(Len(z) >= 2) /\ Len(z) # 3
          /\ 1 .. Len(z) = {}
      <4>1. z = <<>>
        BY <1>3, <2>1, <2>2
      <4> QED BY <4>1, NothingLeft, Zenon
    <3>2. Rest(z, u)'
      BY <3>1 DEF Rest
    <3> QED BY <1>3, <2>1, <3>2 DEF Rest
  <2>3. CASE u # t
    <3>1. Rest(z, u)
      BY <1>1, <2>1
    <3>2. \A x \in Handles : owner[x] = u => owner'[x] = u /\ ref'[x] = ref[x]
      BY <1>3, <1>5, <2>3
    <3>3. Rest(z, u)'
      BY <3>1, <3>2, RestStays
    <3> QED BY <1>3, <2>1, <3>3 DEF Rest
  <2> QED BY <2>2, <2>3
<1>7. \A x \in Handles, c \in Blocks :
         /\ x # h => (Counted(x, c)' <=> Counted(x, c))
         /\ ~Counted(h, c)
         /\ Counted(h, c)' <=> c = b
  <2> TAKE x \in Handles, c \in Blocks
  <2>1. x # h => (Counted(x, c)' <=> Counted(x, c))
    BY <1>3, <1>5 DEF Counted
  <2>2. ~Counted(h, c)
    BY <1>2, <1>3, IdleCounted
  <2>3. Counted(h, c)' <=> c = b
    <3>1. Counted(h, c)' <=> After(<<>>, h, b) = c /\ ~(Pending(<<>>, "inc") # {} /\ <<>>[Len(<<>>)].handle = h)
      BY <1>3, <1>5 DEF Counted
    <3>2. After(<<>>, h, b) = b
      BY AfterShort
    <3> QED BY <3>1, <3>2, IdleCounted
  <2> QED BY <2>1, <2>2, <2>3
<1>8. \A c \in Blocks : Claims(c)' = Claims(c) \cup (IF c = b THEN {h} ELSE {})
  BY <1>2, <1>3, <1>7 DEF Claims
<1>9. Claims(b) = {}
  <2>1. IsFiniteSet(Claims(b)) /\ Cardinality(Claims(b)) = 0
    BY <1>1, <1>4, ClaimsFinite
  <2> QED BY <2>1, FS_EmptySet
<1>10. Cardinality(Claims(b)') = 1
  <2>1. Claims(b)' = {h}
    BY <1>8, <1>9
  <2> QED BY <2>1, FS_Singleton
<1>11. ASSUME NEW c \in Blocks PROVE count'[c] = Cardinality(Claims(c)')
  <2>1. CASE c = b
    BY <1>5, <1>10, <2>1
  <2>2. CASE c # b
    <3>1. Claims(c)' = Claims(c)
      BY <1>8, <2>2
    <3> QED BY <1>1, <1>5, <2>2, <3>1
  <2> QED BY <2>1, <2>2
<1> QED BY <1>1, <1>3, <1>5, <1>6, <1>11 DEF RefInv

\* A handle that is handed over between operations is counted as before.
LEMMA HandOverRefs ==
  ASSUME RefInv, NEW t \in Threads, NEW h \in Handles, HandOver(t, h)
  PROVE  RefInv'
<1>1. /\ ref \in [Handles -> Blocks \cup {NULL}] /\ count \in [Blocks -> Nat]
      /\ owner \in [Handles -> Threads] /\ prog \in [Threads -> Seq(Steps)]
      /\ \A u \in Threads : Rest(prog[u], u)
      /\ \A b \in Blocks : count[b] = Cardinality(Claims(b))
  BY DEF RefInv
<1>2. prog[t] = <<>> /\ owner[h] = t /\ ref' = ref /\ count' = count /\ prog' = prog
  BY DEF HandOver, Idle
<1>3. PICK v \in Threads : v # t /\ owner' = [owner EXCEPT ![h] = v]
  BY DEF HandOver
<1>4. owner' \in [Handles -> Threads] /\ owner'[h] = v /\ \A x \in Handles : x # h => owner'[x] = owner[x]
  BY <1>1, <1>3
<1>5. \A u \in Threads : Rest(prog[u], u)'
  <2> TAKE u \in Threads
  <2>1. PICK z : z = prog[u]
    OBVIOUS
  <2>2. CASE u = t
    <3>1. /\ z \in Seq(Steps) /\ Len(z) \in 0 .. 3 /\ ~(Len(z) >= 1) /\ ~(Len(z) >= 2) /\ Len(z) # 3
          /\ 1 .. Len(z) = {}
      <4>1. z = <<>>
        BY <1>2, <2>1, <2>2
      <4> QED BY <4>1, NothingLeft, Zenon
    <3>2. Rest(z, u)'
      BY <3>1 DEF Rest
    <3> QED BY <1>2, <2>1, <3>2 DEF Rest
  <2>3. CASE u # t
    <3>1. Rest(z, u)
      BY <1>1, <2>1
    <3>2. \A x \in Handles : owner[x] = u => owner'[x] = u /\ ref'[x] = ref[x]
      BY <1>2, <1>4, <2>3
    <3>3. Rest(z, u)'
      BY <3>1, <3>2, RestStays
    <3> QED BY <1>2, <2>1, <3>3 DEF Rest
  <2> QED BY <2>2, <2>3
<1>6. \A x \in Handles, c \in Blocks : Counted(x, c)' <=> Counted(x, c)
  <2> TAKE x \in Handles, c \in Blocks
  <2>1. CASE x # h
    BY <1>2, <1>4, <2>1 DEF Counted
  <2>2. CASE x = h
    <3>1. Counted(h, c) <=> ref[h] = c
      BY <1>2, IdleCounted
    <3>2. PICK q : q = prog[v]
      OBVIOUS
    <3>3. Counted(h, c)' <=> After(q, h, ref[h]) = c /\ ~(Pending(q, "inc") # {} /\ q[Len(q)].handle = h)
      BY <1>2, <1>4, <3>2 DEF Counted
    <3>4. Rest(q, v)
      BY <1>1, <3>2
    <3>5. /\ Len(q) \in 0 .. 3 /\ (Len(q) >= 1 => q[Len(q)].handle # h)
          /\ Len(q) >= 2 /\ q[Len(q) - 1].do = "set" => q[Len(q) - 1].handle # h
      BY <1>2, <1>3, <3>4 DEF Rest
    <3>6. After(q, h, ref[h]) = ref[h]
      BY <3>5 DEF After
    <3>7. ~(Pending(q, "inc") # {} /\ q[Len(q)].handle = h)
      <4>1. CASE Len(q) = 0
        <5>1. 1 .. Len(q) = {}
          BY <4>1
        <5> QED BY <5>1 DEF Pending
      <4>2. CASE Len(q) # 0
        BY <3>5, <4>2
      <4> QED BY <4>1, <4>2
    <3> QED BY <2>2, <3>1, <3>3, <3>6, <3>7
  <2> QED BY <2>1, <2>2
<1>7. \A c \in Blocks : Claims(c)' = Claims(c)
  BY <1>2, <1>6 DEF Claims
<1> QED BY <1>1, <1>2, <1>4, <1>5, <1>7 DEF RefInv

\* No step of a behaviour of the references breaks the invariant.
LEMMA RefStep == RefInv /\ [RefNext]_refVars => RefInv'
<1> SUFFICES ASSUME RefInv, [RefNext]_refVars PROVE RefInv'
  OBVIOUS
<1>1. ASSUME NEW t \in Threads, Step(t) PROVE RefInv'
  BY <1>1, StepRefs
<1>2. ASSUME NEW t \in Threads, NEW h \in Handles, New(t, h) PROVE RefInv'
  BY <1>2, NewRefs
<1>3. ASSUME NEW t \in Threads, NEW h \in Handles, HandOver(t, h) PROVE RefInv'
  BY <1>3, HandOverRefs
<1>4. ASSUME NEW t \in Threads, NEW h \in Handles, NEW g \in Handles, Begin(t, h, g) PROVE RefInv'
  BY <1>4, BeginRefs
<1>5. CASE UNCHANGED refVars
  <2>1. ref' = ref /\ count' = count /\ owner' = owner /\ prog' = prog
    BY <1>5 DEF refVars
  <2>2. \A u \in Threads : Rest(prog[u], u)'
    <3> TAKE u \in Threads
    <3>1. PICK z : z = prog[u]
      OBVIOUS
    <3>2. Rest(z, u)
      BY <3>1 DEF RefInv
    <3>3. Rest(z, u)'
      BY <2>1, <3>2, RestStays
    <3> QED BY <2>1, <3>1, <3>3 DEF Rest
  <2>3. \A c \in Blocks : Claims(c)' = Claims(c)
    BY <2>1 DEF Claims, Counted
  <2> QED BY <2>1, <2>2, <2>3 DEF RefInv
<1> QED BY <1>1, <1>2, <1>3, <1>4, <1>5 DEF RefNext

\* At the start no handle is in use and nothing is counted.
LEMMA RefInitInv == RefInit => RefInv
<1> SUFFICES ASSUME RefInit PROVE RefInv
  OBVIOUS
<1>1. NULL \notin Blocks /\ Threads # {}
  BY RefsAssumption
<1>2. /\ ref \in [Handles -> Blocks \cup {NULL}] /\ count \in [Blocks -> Nat]
      /\ owner \in [Handles -> Threads] /\ prog \in [Threads -> Seq(Steps)]
      /\ \A h \in Handles : ref[h] = NULL
      /\ \A t \in Threads : prog[t] = <<>>
      /\ \A b \in Blocks : count[b] = 0
  <2>1. (CHOOSE t \in Threads : TRUE) \in Threads
    BY <1>1
  <2> QED BY <2>1, NothingLeft DEF RefInit
<1>3. \A t \in Threads : Rest(prog[t], t)
  <2>1. \A t : Rest(<<>>, t)
    BY NothingLeft DEF Rest
  <2> QED BY <1>2, <2>1
<1>4. \A b \in Blocks : Claims(b) = {}
  <2>1. \A x \in Handles, b \in Blocks : ~Counted(x, b)
    BY <1>1, <1>2, IdleCounted
  <2>2. \A t \in Threads, b \in Blocks : b \notin Pending(prog[t], "dec")
    BY <1>2, IdleCounted
  <2> QED BY <2>1, <2>2 DEF Claims
<1>5. \A b \in Blocks : count[b] = Cardinality(Claims(b))
  BY <1>2, <1>4, FS_EmptySet
<1> QED BY <1>2, <1>3, <1>5 DEF RefInv

\* What a thread is about to count is alive: it is counted for somebody.
LEMMA LiveBlocks == RefInv => CountsLiveBlocks
<1> SUFFICES ASSUME RefInv, NEW t \in Threads, prog[t] # <<>>, Head(prog[t]).do # "set"
             PROVE  count[Head(prog[t]).block] > 0
  BY DEF CountsLiveBlocks
<1>1. /\ owner \in [Handles -> Threads] /\ prog[t] \in Seq(Steps) /\ Rest(prog[t], t)
      /\ \A b \in Blocks : count[b] = Cardinality(Claims(b))
  BY DEF RefInv
<1>2. PICK p \in Seq(Steps) : p = prog[t]
  BY <1>1
<1>3. Head(p) = p[1] /\ Len(p) \in 1 .. 3 /\ p[1] \in Steps
  <2>1. p # <<>>
    BY <1>2
  <2>2. Head(p) = p[1] /\ Len(p) >= 1 /\ Len(p) \in 0 .. 3
    BY <1>1, <1>2, <2>1, HeadTailProperties, EmptySeq, LenProperties DEF Rest
  <2>3. 1 \in 1 .. Len(p) /\ Len(p) \in 1 .. 3
    BY <2>2
  <2> QED BY <2>2, <2>3, ElementOfSeq
<1>4. PICK b \in Blocks : b = p[1].block
  BY <1>2, <1>3, StepKinds
<1>5. 1 \in 1 .. Len(p) /\ Len(p) >= 1
  BY <1>3
<1>6. CASE \E j \in 1 .. Len(p) : p[j].do = "dec" /\ p[j].block = b
  <2>1. t \in Claims(b)
    BY <1>2, <1>6 DEF Claims, Pending
  <2>2. Claims(b) # {}
    BY <2>1
  <2> QED BY <1>1, <1>2, <1>3, <1>4, <2>2, ClaimsFinite, FS_EmptySet
<1>7. CASE p[1].do = "inc" /\ \E g \in Handles : g # p[Len(p)].handle /\ owner[g] = t /\ ref[g] = b
  <2>1. PICK g \in Handles : g # p[Len(p)].handle /\ owner[g] = t /\ ref[g] = b
    BY <1>7
  <2>2. p[Len(p) - 1].do # "set"
    BY <1>1, <1>2, <1>5, <1>7 DEF Rest
  <2>3. After(p, g, ref[g]) = b
    BY <2>1, <2>2 DEF After
  <2>4. Counted(g, b)
    BY <1>2, <2>1, <2>3 DEF Counted
  <2>5. Claims(b) # {}
    BY <2>4 DEF Claims
  <2> QED BY <1>1, <1>2, <1>3, <1>4, <2>5, ClaimsFinite, FS_EmptySet
<1>8. \/ \E j \in 1 .. Len(p) : p[j].do = "dec" /\ p[j].block = b
      \/ p[1].do = "inc" /\ \E g \in Handles : g # p[Len(p)].handle /\ owner[g] = t /\ ref[g] = b
  <2>1. p[1].do = "inc" \/ p[1].do = "dec"
    BY <1>2, <1>3, StepKinds
  <2>2. CASE p[1].do = "dec"
    BY <1>4, <1>5, <2>2
  <2>3. CASE p[1].do = "inc"
    <3>1. \/ \E j \in 1 + 1 .. Len(p) : p[j].do = "dec" /\ p[j].block = b
          \/ \E g \in Handles : g # p[Len(p)].handle /\ owner[g] = t /\ ref[g] = b
      BY <1>1, <1>2, <1>4, <1>5, <2>3 DEF Rest
    <3>2. \A j \in 1 + 1 .. Len(p) : j \in 1 .. Len(p)
      BY <1>3
    <3> QED BY <2>3, <3>1, <3>2
  <2> QED BY <2>1, <2>2, <2>3
<1> QED BY <1>6, <1>7, <1>8

\* Between operations the claims on a block are the handles that are on it.
LEMMA ExactReferences == RefInv => ReferencesExact
<1> SUFFICES ASSUME RefInv PROVE ReferencesExact
  OBVIOUS
<1>1. RefTypeOK
  BY ClaimsFinite DEF RefInv, RefTypeOK
<1>2. RefsExact
  <2> SUFFICES ASSUME \A t \in Threads : Idle(t), NEW b \in Blocks
               PROVE  count[b] = Cardinality({h \in Handles : ref[h] = b})
    BY DEF RefsExact
  <2>1. \A t \in Threads : prog[t] = <<>>
    BY DEF Idle
  <2>2. \A h \in Handles : Counted(h, b) <=> ref[h] = b
    BY <2>1, IdleCounted DEF RefInv
  <2>3. \A t \in Threads : b \notin Pending(prog[t], "dec")
    BY <2>1, IdleCounted
  <2>4. Claims(b) = {h \in Handles : ref[h] = b}
    BY <2>2, <2>3 DEF Claims
  <2> QED BY <2>4 DEF RefInv
<1> QED BY <1>1, <1>2, LiveBlocks DEF ReferencesExact

-----------------------------------------------------------------------------
(* The theorems.                                                            *)

\* SliceBuffer: after every sequence of its operations, with slices of any length,
\* empty ones too, content, length and header are those of one byte sequence.
THEOREM BufferStaysBytes == Spec => []BufferIsBytes
<1>1. Init => BufInv
  BY BufInitInv DEF Init
<1>2. BufInv /\ [Next]_vars => BufInv'
  <2> SUFFICES ASSUME BufInv, [Next]_vars PROVE BufInv'
    OBVIOUS
  <2>1. [BufNext]_bufVars
    BY DEF Next, UseSlices, UseRefs, UseList, CallOnce, vars
  <2> QED BY <2>1, BufStep
<1>3. BufInv => BufferIsBytes
  BY BufferExact
<1> QED BY <1>1, <1>2, <1>3, PTL DEF Spec

\* The list of list.h: after every sequence of pushes, pops and removals both
\* chains of pointers run through the items of the sequence it stands for.
THEOREM ListStaysSequence == Spec => []ListIsSequence
<1>1. Init => ListInv
  BY ListInitInv DEF Init
<1>2. ListInv /\ [Next]_vars => ListInv'
  <2> SUFFICES ASSUME ListInv, [Next]_vars PROVE ListInv'
    OBVIOUS
  <2>1. [ListNext]_listVars
    BY DEF Next, UseSlices, UseRefs, UseList, CallOnce, vars
  <2> QED BY <2>1, ListStep
<1>3. ListInv => ListIsSequence
  BY RingIsSequence
<1> QED BY <1>1, <1>2, <1>3, PTL DEF Spec

\* Slice and RefCountedPtr: whatever the order of the steps of several threads, no
\* freed block is counted, and between operations each counter is the number of
\* handles on its block.
THEOREM ReferencesStayExact == Spec => []ReferencesExact
<1>1. Init => RefInv
  BY RefInitInv DEF Init
<1>2. RefInv /\ [Next]_vars => RefInv'
  <2> SUFFICES ASSUME RefInv, [Next]_vars PROVE RefInv'
    OBVIOUS
  <2>1. [RefNext]_refVars
    BY DEF Next, UseSlices, UseRefs, UseList, CallOnce, vars
  <2> QED BY <2>1, RefStep
<1>3. RefInv => ReferencesExact
  BY ExactReferences
<1> QED BY <1>1, <1>2, <1>3, PTL DEF Spec

-----------------------------------------------------------------------------
(* Addresses: one call each, so the argument is about the operators.        *)

\* The tokens of a host.
HostWords == {"a", "0", "1", ":", "fe80", "ffff", "%25"} \cup {ScopeText(s) : s \in Scopes}

\* A host as JoinHostPort expects it: no brackets.
Plain(h) == h \in Seq(HostWords) /\ \A i \in 1 .. Len(h) : h[i] # "[" /\ h[i] # "]"

\* name is "[" h "]" ":" p, or h ":" p.
Bracketed(name, h, n, p) ==
    /\ Len(name) = n + 4 /\ name[1] = "[" /\ name[n + 2] = "]" /\ name[n + 3] = ":" /\ name[n + 4] = p
    /\ \A i \in 1 .. n : name[i + 1] = h[i]
WithColon(name, h, n, p) ==
    /\ Len(name) = n + 2 /\ name[n + 1] = ":" /\ name[n + 2] = p
    /\ \A i \in 1 .. n : name[i] = h[i]

\* The least of some numbers.
LEMMA MinIs ==
  ASSUME NEW T \in SUBSET Int, NEW m \in T, \A i \in T : m <= i
  PROVE  Min(T) = m
<1>1. \E x \in T : \A y \in T : x <= y
  OBVIOUS
<1>2. Min(T) \in T /\ \A y \in T : Min(T) <= y
  BY <1>1 DEF Min
<1>3. PICK k \in T : k = Min(T)
  BY <1>2
<1>4. k <= m /\ m <= k
  BY <1>2, <1>3
<1> QED BY <1>3, <1>4

\* The token is at m, and not before; or it is nowhere.
LEMMA FindIs ==
  ASSUME NEW name, NEW token, Len(name) \in Nat, NEW from \in Nat
  PROVE  /\ \A m \in from .. Len(name) :
              name[m] = token /\ (\A i \in from .. m - 1 : name[i] # token) => Find(name, token, from) = m
         /\ (\A i \in from .. Len(name) : name[i] # token) => Find(name, token, from) = 0
<1> DEFINE T == {i \in from .. Len(name) : name[i] = token}
<1>1. Find(name, token, from) = IF T # {} THEN Min(T) ELSE 0
  BY DEF Find, SelectInSubSeq
<1>2. ASSUME NEW m \in from .. Len(name), name[m] = token, \A i \in from .. m - 1 : name[i] # token
      PROVE  Find(name, token, from) = m
  <2>1. T \in SUBSET Int /\ m \in T
    BY <1>2
  <2>2. ASSUME NEW i \in T PROVE m <= i
    <3>1. i \in from .. Len(name) /\ name[i] = token
      OBVIOUS
    <3>2. i \notin from .. m - 1
      BY <1>2, <3>1
    <3> QED BY <1>2, <3>1, <3>2
  <2> HIDE DEF T
  <2>3. Min(T) = m
    BY <2>1, <2>2, MinIs
  <2> QED BY <1>1, <2>1, <2>3
<1>3. (\A i \in from .. Len(name) : name[i] # token) => T = {}
  OBVIOUS
<1> QED BY <1>1, <1>2, <1>3

\* The first token is where it is found.
LEMMA FindAt ==
  ASSUME NEW name, NEW token, Len(name) \in Nat, NEW from \in Nat, NEW m \in from .. Len(name),
         name[m] = token, \A i \in from .. m - 1 : name[i] # token
  PROVE  Find(name, token, from) = m
BY FindIs

\* What JoinHostPort makes of a host with a colon.
LEMMA JoinBrackets ==
  ASSUME NEW h, Plain(h), NEW port, Contains(h, ":"), NEW n \in Nat, n = Len(h)
  PROVE  Bracketed(JoinHostPort(h, port), h, n, PortText(port))
<1>1. PICK p : p = PortText(port)
  OBVIOUS
<1>2. h \in Seq(HostWords) /\ h # <<>> /\ h[1] # "["
  <2>1. h \in Seq(HostWords)
    BY DEF Plain
  <2>2. PICK i \in 1 .. Len(h) : h[i] = ":"
    BY DEF Contains
  <2>3. 1 \in 1 .. Len(h)
    BY <2>1, <2>2
  <2>4. h # <<>>
    BY <2>3
  <2> QED BY <2>1, <2>3, <2>4 DEF Plain
<1>3. JoinHostPort(h, port) = <<"[">> \o h \o <<"]", ":", p>>
  BY <1>1, <1>2 DEF JoinHostPort
<1>4. PICK S : /\ p \in S /\ "[" \in S /\ "]" \in S /\ ":" \in S
               /\ h \in Seq(S)
  <2> DEFINE Words == HostWords \cup {"[", "]", ":", p}
  <2>1. /\ p \in Words
        /\ "[" \in Words /\ "]" \in Words /\ ":" \in Words
    OBVIOUS
  <2>2. h \in [1 .. n -> HostWords]
    BY <1>2
  <2>3. h \in [1 .. n -> Words]
    BY <2>2
  <2>4. h \in Seq(Words)
    BY <2>3, SeqDef
  <2> QED BY <2>1, <2>4
<1>5. PICK y \in Seq(S) : y = <<"]", ":", p>> /\ Len(y) = 3 /\ y[1] = "]" /\ y[2] = ":" /\ y[3] = p
  <2>1. <<"]", ":", p>> \in Seq(S)
    BY <1>4
  <2> QED BY <2>1
<1>6. PICK z \in Seq(S) : z = <<"[">> /\ Len(z) = 1 /\ z[1] = "["
  <2>1. <<"[">> \in Seq(S)
    BY <1>4
  <2> QED BY <2>1
<1>7. PICK x : x = z \o h
  OBVIOUS
<1>8. x \in Seq(S) /\ Len(x) = n + 1 /\ x[1] = "[" /\ \A i \in 1 .. n : x[i + 1] = h[i]
  <2>1. x \in Seq(S) /\ Len(x) = 1 + n
    BY <1>4, <1>6, <1>7, ConcatProperties
  <2>2. \A i \in 1 .. 1 + n : x[i] = IF i <= 1 THEN z[i] ELSE h[i - 1]
    BY <1>4, <1>6, <1>7, ConcatProperties
  <2>3. x[1] = "["
    <3>1. 1 \in 1 .. 1 + n
      OBVIOUS
    <3> QED BY <1>6, <2>2, <3>1
  <2>4. ASSUME NEW i \in 1 .. n PROVE x[i + 1] = h[i]
    <3>1. i + 1 \in 1 .. 1 + n /\ ~(i + 1 <= 1) /\ (i + 1) - 1 = i
      OBVIOUS
    <3> QED BY <2>2, <3>1
  <2> QED BY <2>1, <2>3, <2>4
<1>9. PICK name : name = x \o y
  OBVIOUS
<1>10. /\ Len(name) = n + 4
       /\ \A i \in 1 .. n + 1 : name[i] = x[i]
       /\ \A i \in 1 .. 3 : name[n + 1 + i] = y[i]
  <2>1. Len(name) = (n + 1) + 3
    BY <1>5, <1>8, <1>9, ConcatProperties
  <2>2. \A i \in 1 .. (n + 1) + 3 : name[i] = IF i <= n + 1 THEN x[i] ELSE y[i - (n + 1)]
    BY <1>5, <1>8, <1>9, ConcatProperties
  <2>3. ASSUME NEW i \in 1 .. 3 PROVE name[n + 1 + i] = y[i]
    <3>1. n + 1 + i \in 1 .. (n + 1) + 3 /\ ~(n + 1 + i <= n + 1) /\ (n + 1 + i) - (n + 1) = i
      OBVIOUS
    <3> QED BY <2>2, <3>1
  <2>4. \A i \in 1 .. n + 1 : name[i] = x[i]
    BY <2>2
  <2>5. (n + 1) + 3 = n + 4
    OBVIOUS
  <2> QED BY <2>1, <2>3, <2>4, <2>5
<1>11. name[n + 2] = y[1] /\ name[n + 3] = y[2] /\ name[n + 4] = y[3] /\ name[1] = x[1]
  <2>1. n + 1 + 1 = n + 2 /\ n + 1 + 2 = n + 3 /\ n + 1 + 3 = n + 4 /\ 1 \in 1 .. n + 1
    OBVIOUS
  <2>2. 1 \in 1 .. 3 /\ 2 \in 1 .. 3 /\ 3 \in 1 .. 3
    OBVIOUS
  <2> QED BY <1>10, <2>1, <2>2
<1>12. \A i \in 1 .. n : name[i + 1] = h[i]
  <2>1. ASSUME NEW i \in 1 .. n PROVE name[i + 1] = h[i]
    <3>1. i + 1 \in 1 .. n + 1
      OBVIOUS
    <3> QED BY <1>8, <1>10, <3>1
  <2> QED BY <2>1
<1>13. JoinHostPort(h, port) = name
  BY <1>3, <1>5, <1>6, <1>7, <1>9
<1> QED BY <1>1, <1>5, <1>8, <1>10, <1>11, <1>12, <1>13 DEF Bracketed

\* And of another host.
LEMMA JoinPlain ==
  ASSUME NEW h, Plain(h), NEW port, ~Contains(h, ":"), NEW n \in Nat, n = Len(h)
  PROVE  WithColon(JoinHostPort(h, port), h, n, PortText(port))
<1>1. PICK p : p = PortText(port)
  OBVIOUS
<1>2. JoinHostPort(h, port) = h \o <<":", p>>
  BY <1>1 DEF JoinHostPort
<1>3. PICK S : p \in S /\ ":" \in S /\ h \in Seq(S)
  <2> DEFINE Words == HostWords \cup {":", p}
  <2>1. p \in Words /\ ":" \in Words
    OBVIOUS
  <2>2. h \in [1 .. n -> HostWords]
    BY DEF Plain
  <2>3. h \in [1 .. n -> Words]
    BY <2>2
  <2>4. h \in Seq(Words)
    BY <2>3, SeqDef
  <2> QED BY <2>1, <2>4
<1>5. PICK y \in Seq(S) : y = <<":", p>> /\ Len(y) = 2 /\ y[1] = ":" /\ y[2] = p
  <2>1. <<":", p>> \in Seq(S)
    BY <1>3
  <2> QED BY <2>1
<1>6. PICK name : name = h \o y
  OBVIOUS
<1>7. /\ Len(name) = n + 2
      /\ \A i \in 1 .. n : name[i] = h[i]
      /\ \A i \in 1 .. 2 : name[n + i] = y[i]
  BY <1>3, <1>5, <1>6, ConcatProperties
<1>8. name[n + 1] = y[1] /\ name[n + 2] = y[2]
  BY <1>7
<1>9. JoinHostPort(h, port) = name
  BY <1>2, <1>5, <1>6
<1> QED BY <1>1, <1>5, <1>7, <1>8, <1>9 DEF WithColon

\* The tokens from one place to another.
LEMMA SubSeqIs ==
  ASSUME NEW name, NEW h, NEW n \in Nat, NEW k \in Nat, h \in [1 .. n -> HostWords],
         \A i \in 1 .. n : name[k + i] = h[i]
  PROVE  SubSeq(name, k + 1, k + n) = h
<1>1. ASSUME NEW i \in k + 1 .. k + n PROVE name[i] \in HostWords
  <2>1. PICK j \in 1 .. n : i = k + j
    <3>1. i - k \in 1 .. n /\ i = k + (i - k)
      OBVIOUS
    <3> QED BY <3>1
  <2> QED BY <2>1
<1>2. PICK x : x = SubSeq(name, k + 1, k + n)
  OBVIOUS
<1>3. x \in Seq(HostWords) /\ Len(x) = IF k + 1 <= k + n THEN (k + n) - (k + 1) + 1 ELSE 0
  BY <1>1, <1>2, SubSeqProperties
<1>4. Len(x) = n
  BY <1>3
<1>5. \A i \in 1 .. (k + n) - (k + 1) + 1 : x[i] = name[(k + 1) + i - 1]
  BY <1>1, <1>2, SubSeqProperties
<1>6. ASSUME NEW i \in 1 .. n PROVE x[i] = h[i]
  <2>1. i \in 1 .. (k + n) - (k + 1) + 1 /\ (k + 1) + i - 1 = k + i
    OBVIOUS
  <2> QED BY <1>5, <2>1
<1>7. h \in Seq(HostWords) /\ Len(h) = n
  BY SeqDef
<1> QED BY <1>2, <1>3, <1>4, <1>6, <1>7, SeqEqual

\* The last token alone.
LEMMA SubSeqLast ==
  ASSUME NEW name, NEW k \in Nat
  PROVE  SubSeq(name, k, k) = <<name[k]>>
<1>1. PICK S : S = {name[k]}
  OBVIOUS
<1>2. \A i \in k .. k : name[i] \in S
  BY <1>1
<1>3. PICK x : x = SubSeq(name, k, k)
  OBVIOUS
<1>4. x \in Seq(S) /\ Len(x) = IF k <= k THEN k - k + 1 ELSE 0
  BY <1>2, <1>3, SubSeqProperties
<1>5. Len(x) = 1
  BY <1>4
<1>6. \A i \in 1 .. k - k + 1 : x[i] = name[k + i - 1]
  BY <1>2, <1>3, SubSeqProperties
<1>7. x[1] = name[k]
  <2>1. 1 \in 1 .. k - k + 1 /\ k + 1 - 1 = k
    OBVIOUS
  <2> QED BY <1>6, <2>1
<1>8. PICK y \in Seq(S) : y = <<name[k]>> /\ Len(y) = 1 /\ y[1] = name[k]
  <2>1. <<name[k]>> \in Seq(S)
    BY <1>1
  <2> QED BY <2>1
<1>9. \A i \in 1 .. Len(x) : x[i] = y[i]
  BY <1>5, <1>7, <1>8
<1>10. x = y
  BY <1>4, <1>5, <1>8, <1>9, SeqEqual
<1> QED BY <1>3, <1>8, <1>10

\* SplitHostPort takes apart a host with a colon in brackets and its port.
LEMMA SplitOfBracketed ==
  ASSUME NEW h, Plain(h), Contains(h, ":"), NEW n \in Nat, n = Len(h), NEW name, NEW p,
         Bracketed(name, h, n, p)
  PROVE  SplitHostPort(name) = Parsed(h, <<p>>)
<1>1. h \in [1 .. n -> HostWords]
  BY DEF Plain
<1>2. Len(name) = n + 4 /\ Len(name) \in Nat /\ name[1] = "["
  BY DEF Bracketed
<1>3. Find(name, "]", 2) = n + 2
  <2>1. n + 2 \in 2 .. Len(name) /\ name[n + 2] = "]"
    BY DEF Bracketed
  <2>2. ASSUME NEW i \in 2 .. (n + 2) - 1 PROVE name[i] # "]"
    <3>1. PICK j \in 1 .. n : i = j + 1
      <4>1. i - 1 \in 1 .. n /\ i = (i - 1) + 1
        OBVIOUS
      <4> QED BY <4>1
    <3>2. name[i] = h[j]
      BY <3>1 DEF Bracketed
    <3> QED BY <1>1, <3>2 DEF Plain
  <2> QED BY <1>2, <2>1, <2>2, FindIs
<1>4. SubSeq(name, 2, (n + 2) - 1) = h
  <2>1. \A i \in 1 .. n : name[1 + i] = h[i]
    BY DEF Bracketed
  <2>2. SubSeq(name, 1 + 1, 1 + n) = h
    BY <1>1, <2>1, SubSeqIs
  <2>3. 1 + 1 = 2 /\ 1 + n = (n + 2) - 1
    OBVIOUS
  <2> QED BY <2>2, <2>3
<1>5. PortAfter(name, (n + 2) + 1) = <<p>>
  <2>1. ((n + 2) + 1) + 1 = n + 4
    OBVIOUS
  <2>2. SubSeq(name, n + 4, n + 4) = <<name[n + 4]>>
    BY SubSeqLast
  <2> QED BY <1>2, <2>1, <2>2 DEF PortAfter, Bracketed
<1>6. n + 2 # 0 /\ n + 2 # Len(name) /\ n + 2 < Len(name) /\ name[(n + 2) + 1] = ":"
  <2>1. (n + 2) + 1 = n + 3 /\ n + 2 # 0 /\ n + 2 # n + 4 /\ n + 2 < n + 4
    OBVIOUS
  <2> QED BY <1>2, <2>1 DEF Bracketed
<1>7. PICK r : r = n + 2
  OBVIOUS
<1>8. SplitBracketed(name) = Parsed(h, <<p>>)
  <2>1. /\ Find(name, "]", 2) = r /\ SubSeq(name, 2, r - 1) = h /\ PortAfter(name, r + 1) = <<p>>
        /\ r # 0 /\ r # Len(name) /\ r < Len(name) /\ name[r + 1] = ":"
    BY <1>3, <1>4, <1>5, <1>6, <1>7
  <2> HIDE <1>7
  <2> QED BY <2>1, Zenon DEF SplitBracketed
<1>9. name # <<>>
  BY <1>2
<1> QED BY <1>2, <1>8, <1>9 DEF SplitHostPort

\* SplitHostPort takes apart a host without a colon and its port.
LEMMA SplitOfColon ==
  ASSUME NEW h, Plain(h), ~Contains(h, ":"), NEW n \in Nat, n = Len(h), NEW name, NEW p, p # ":",
         WithColon(name, h, n, p)
  PROVE  SplitHostPort(name) = Parsed(h, <<p>>)
<1>1. h \in [1 .. n -> HostWords]
  BY DEF Plain
<1>2. Len(name) = n + 2 /\ Len(name) \in Nat
  BY DEF WithColon
<1>3. Find(name, ":", 1) = n + 1
  <2>1. n + 1 \in 1 .. Len(name) /\ name[n + 1] = ":"
    BY DEF WithColon
  <2>2. ASSUME NEW i \in 1 .. (n + 1) - 1 PROVE name[i] # ":"
    <3>1. i \in 1 .. n
      OBVIOUS
    <3>2. name[i] = h[i]
      BY <3>1 DEF WithColon
    <3> QED BY <1>1, <3>1, <3>2 DEF Contains
  <2> QED BY <1>2, <2>1, <2>2, FindIs
<1>4. Find(name, ":", (n + 1) + 1) = 0
  <2>1. ASSUME NEW i \in (n + 1) + 1 .. Len(name) PROVE name[i] # ":"
    <3>1. i = n + 2
      BY <1>2
    <3> QED BY <3>1 DEF WithColon
  <2>2. (n + 1) + 1 \in Nat
    OBVIOUS
  <2> QED BY <1>2, <2>1, <2>2, FindIs
<1>5. SubSeq(name, 1, (n + 1) - 1) = h
  <2>1. \A i \in 1 .. n : name[0 + i] = h[i]
    BY DEF WithColon
  <2>2. SubSeq(name, 0 + 1, 0 + n) = h
    BY <1>1, <2>1, SubSeqIs
  <2>3. 0 + 1 = 1 /\ 0 + n = (n + 1) - 1
    OBVIOUS
  <2> QED BY <2>2, <2>3
<1>6. PortAfter(name, n + 1) = <<p>>
  <2>1. (n + 1) + 1 = n + 2
    OBVIOUS
  <2>2. SubSeq(name, n + 2, n + 2) = <<name[n + 2]>>
    BY SubSeqLast
  <2> QED BY <1>2, <2>1, <2>2 DEF PortAfter, WithColon
<1>7. SplitAtColon(name) = Parsed(h, <<p>>)
  <2>1. n + 1 # 0
    OBVIOUS
  <2> QED BY <1>3, <1>4, <1>5, <1>6, <2>1 DEF SplitAtColon
<1>8. name[1] # "["
  <2>1. CASE n = 0
    BY <2>1 DEF WithColon
  <2>2. CASE n # 0
    <3>1. 1 \in 1 .. n
      BY <2>2
    <3> QED BY <1>1, <3>1 DEF WithColon, Plain
  <2> QED BY <2>1, <2>2
<1> QED BY <1>7, <1>8 DEF SplitHostPort

\* SplitHostPort takes apart what JoinHostPort has put together.
LEMMA SplitJoin ==
  ASSUME NEW h, Plain(h), NEW port \in Ports
  PROVE  SplitHostPort(JoinHostPort(h, port)) = Parsed(h, <<PortText(port)>>)
<1>1. PICK p : p = PortText(port) /\ p # ":"
  BY PortTextAssumption
<1>2. PICK n \in Nat : n = Len(h)
  BY LenProperties DEF Plain
<1>3. PICK name : name = JoinHostPort(h, port)
  OBVIOUS
<1>4. CASE Contains(h, ":")
  <2>1. Bracketed(name, h, n, p)
    BY <1>1, <1>2, <1>3, <1>4, JoinBrackets
  <2> QED BY <1>1, <1>2, <1>3, <1>4, <2>1, SplitOfBracketed
<1>5. CASE ~Contains(h, ":")
  <2>1. WithColon(name, h, n, p)
    BY <1>1, <1>2, <1>3, <1>5, JoinPlain
  <2> QED BY <1>1, <1>2, <1>3, <1>5, <2>1, SplitOfColon
<1> QED BY <1>4, <1>5

\* The address functions of an address of either family.
LEMMA AddressCases ==
  ASSUME NEW a \in Addrs
  PROVE  /\ a.port \in Ports /\ a.family # "unix"
         /\ \E ip \in Ips : \/ Normalized(a) = V4(ip, a.port)
                            \/ \E prefix \in {"zero", "other"}, s \in Scopes :
                                  Normalized(a) = V6(prefix, ip, a.port, s)
<1>1. CASE \E ip \in Ips, p \in Ports : a = V4(ip, p)
  <2>1. PICK ip \in Ips, p \in Ports : a = V4(ip, p)
    BY <1>1
  <2>2. a.family = "v4" /\ a.port = p
    BY <2>1 DEF V4
  <2>3. Normalized(a) = a
    BY <2>2 DEF Normalized, raptor_sockaddr_is_v4mapped
  <2> QED BY <2>1, <2>2, <2>3
<1>2. CASE \E prefix \in {"zero", "mapped", "other"}, ip \in Ips, p \in Ports, s \in Scopes :
              a = V6(prefix, ip, p, s)
  <2>1. PICK prefix \in {"zero", "mapped", "other"}, ip \in Ips, p \in Ports, s \in Scopes :
            a = V6(prefix, ip, p, s)
    BY <1>2
  <2>2. a.family = "v6" /\ a.port = p /\ a.ip = ip /\ a.prefix = prefix
    BY <2>1 DEF V6
  <2>3. CASE prefix = "mapped"
    <3>1. Normalized(a) = V4(ip, p)
      BY <2>2, <2>3 DEF Normalized, raptor_sockaddr_is_v4mapped
    <3> QED BY <2>1, <2>2, <3>1
  <2>4. CASE prefix # "mapped"
    <3>1. Normalized(a) = a /\ prefix \in {"zero", "other"}
      BY <2>1, <2>2, <2>4 DEF Normalized, raptor_sockaddr_is_v4mapped
    <3> QED BY <2>1, <2>2, <3>1
  <2> QED BY <2>3, <2>4
<1> QED BY <1>1, <1>2 DEF Addrs

\* The text of an address has no brackets, and the address is read off it again.
LEMMA TextOf ==
  ASSUME NEW prefix \in {"none", "zero", "other"}, NEW ip \in Ips, NEW p, NEW s, NEW n,
         n = IF prefix = "none" THEN V4(ip, p) ELSE V6(prefix, ip, p, s)
  PROVE  /\ n.prefix = prefix /\ n.ip = ip
         /\ Plain(raptor_inet_ntop(n))
         /\ InetPton(raptor_inet_ntop(n)) = IF prefix = "none" THEN V4(ip, 0) ELSE V6(prefix, ip, 0, 0)
<1>0. n.prefix = prefix /\ n.ip = ip
  BY DEF V4, V6
<1>1. /\ DOMAIN PrefixText = {"none", "zero", "mapped", "other"}
      /\ PrefixText["none"] = <<>> /\ PrefixText["zero"] = <<":", ":">>
      /\ PrefixText["mapped"] = <<":", ":", "ffff", ":">> /\ PrefixText["other"] = <<"fe80", ":", ":">>
  BY DEF PrefixText
<1>2. PICK text : text = PrefixText[prefix]
  OBVIOUS
<1>3. ip \in HostWords /\ ip # "[" /\ ip # "]"
  BY DEF Ips, HostWords
<1>4. text \in Seq(HostWords) /\ Len(text) \in Nat /\ \A i \in 1 .. Len(text) : text[i] # "[" /\ text[i] # "]"
  <2>0. ":" \in HostWords /\ "fe80" \in HostWords /\ "[" \notin HostWords /\ "]" \notin HostWords
    BY ScopeAssumption DEF HostWords
  <2>1. text \in Seq(HostWords)
    <3>1. <<>> \in Seq(HostWords)
      BY EmptySeq
    <3>2. <<":", ":">> \in Seq(HostWords) /\ <<"fe80", ":", ":">> \in Seq(HostWords)
      BY <2>0
    <3> QED BY <1>1, <1>2, <3>1, <3>2
  <2>2. Len(text) \in Nat /\ \A i \in 1 .. Len(text) : text[i] \in HostWords
    BY <2>1
  <2> QED BY <2>0, <2>1, <2>2
<1>5. PICK h : h = Append(text, ip) /\ raptor_inet_ntop(n) = h
  BY <1>0, <1>2 DEF raptor_inet_ntop
<1>6. /\ h \in Seq(HostWords) /\ Len(h) = Len(text) + 1 /\ h[Len(text) + 1] = ip
      /\ \A i \in 1 .. Len(text) : h[i] = text[i]
  BY <1>3, <1>4, <1>5, AppendProperties
<1>7. Plain(h)
  BY <1>3, <1>4, <1>6 DEF Plain
<1>8. Front(h) = text /\ Last(h) = ip
  <2>1. Last(h) = ip
    BY <1>6 DEF Last
  <2>2. SubSeq(h, 1, Len(text)) = text
    BY <1>3, <1>4, <1>5, AppendProperties
  <2>3. Len(h) - 1 = Len(text)
    BY <1>4, <1>6
  <2> QED BY <2>1, <2>2, <2>3 DEF Front
<1>9. \A q \in DOMAIN PrefixText : PrefixText[q] = text => q = prefix
  <2>1. /\ Len(<<>>) = 0 /\ Len(<<":", ":">>) = 2 /\ Len(<<":", ":", "ffff", ":">>) = 4
        /\ Len(<<"fe80", ":", ":">>) = 3
    OBVIOUS
  <2>2. \A q \in DOMAIN PrefixText : PrefixText[q] = text => Len(PrefixText[q]) = Len(PrefixText[prefix])
    BY <1>2
  <2>3. /\ Len(PrefixText["none"]) = 0 /\ Len(PrefixText["zero"]) = 2
        /\ Len(PrefixText["mapped"]) = 4 /\ Len(PrefixText["other"]) = 3
    BY <1>1, <2>1
  <2>4. /\ Len(PrefixText["none"]) # Len(PrefixText["zero"])
        /\ Len(PrefixText["none"]) # Len(PrefixText["mapped"])
        /\ Len(PrefixText["none"]) # Len(PrefixText["other"])
        /\ Len(PrefixText["zero"]) # Len(PrefixText["mapped"])
        /\ Len(PrefixText["zero"]) # Len(PrefixText["other"])
        /\ Len(PrefixText["mapped"]) # Len(PrefixText["other"])
    BY <2>3
  <2> SUFFICES ASSUME NEW q \in DOMAIN PrefixText, PrefixText[q] = text
               PROVE  q = prefix
    OBVIOUS
  <2>5. Len(PrefixText[q]) = Len(PrefixText[prefix])
    BY <2>2
  <2>6. CASE prefix = "none"
    <3>1. q # "zero" /\ q # "mapped" /\ q # "other"
      BY <2>4, <2>5, <2>6
    <3> QED BY <1>1, <2>6, <3>1
  <2>7. CASE prefix = "zero"
    <3>1. q # "none" /\ q # "mapped" /\ q # "other"
      BY <2>4, <2>5, <2>7
    <3> QED BY <1>1, <2>7, <3>1
  <2>8. CASE prefix = "other"
    <3>1. q # "zero" /\ q # "mapped" /\ q # "none"
      BY <2>4, <2>5, <2>8
    <3> QED BY <1>1, <2>8, <3>1
  <2> QED BY <2>6, <2>7, <2>8
<1>10. (CHOOSE q \in DOMAIN PrefixText : PrefixText[q] = Front(h)) = prefix
  <2>1. prefix \in DOMAIN PrefixText
    BY <1>1
  <2> QED BY <1>2, <1>8, <1>9, <2>1
<1>11. InetPton(h) = IF prefix = "none" THEN V4(ip, 0) ELSE V6(prefix, ip, 0, 0)
  <2>1. PICK q : q = (CHOOSE x \in DOMAIN PrefixText : PrefixText[x] = Front(h)) /\ q = prefix
    BY <1>10
  <2>2. InetPton(h) = IF q = "none" THEN V4(Last(h), 0) ELSE V6(q, Last(h), 0, 0)
    BY <2>1 DEF InetPton
  <2> QED BY <1>8, <2>1, <2>2
<1> QED BY <1>0, <1>5, <1>7, <1>11

\* The fields of a name that was parsed.
LEMMA ParsedIs ==
  ASSUME NEW host, NEW port, NEW r, r = Parsed(host, port)
  PROVE  r.ok = TRUE /\ r.host = host /\ r.port = port
BY DEF Parsed

\* raptor_sockaddr_set_port, of an IP address and a port in range.
LEMMA SetPortIs ==
  ASSUME NEW a, a.family # "unix", NEW p \in PortRange
  PROVE  raptor_sockaddr_set_port(a, p) = [a EXCEPT !.port = p]
BY Zenon DEF raptor_sockaddr_set_port

\* The text of an address ends in its scope id.
LEMMA ScopedText ==
  ASSUME NEW t, Plain(t), NEW s \in Scopes, NEW h, h = t \o ScopeZone(s)
  PROVE  Plain(h) /\ SubSeq(h, 1, Len(h) - 2) = t
<1>1. PICK d : d = ScopeText(s)
  OBVIOUS
<1>2. "%25" \in HostWords /\ d \in HostWords /\ d # "[" /\ d # "]"
  BY <1>1, ScopeAssumption DEF HostWords
<1>3. t \in Seq(HostWords) /\ Len(t) \in Nat /\ \A i \in 1 .. Len(t) : t[i] # "[" /\ t[i] # "]"
  BY LenProperties DEF Plain
<1>4. PICK z : z = <<"%25", d>>
  OBVIOUS
<1>5. z \in Seq(HostWords) /\ Len(z) = 2 /\ z[1] = "%25" /\ z[2] = d /\ h = t \o z
  BY <1>1, <1>2, <1>4 DEF ScopeZone
<1>6. /\ h \in Seq(HostWords) /\ Len(h) = Len(t) + 2
      /\ \A i \in 1 .. Len(h) : h[i] = IF i <= Len(t) THEN t[i] ELSE z[i - Len(t)]
  <2>1. h = t \o z /\ t \in Seq(HostWords) /\ z \in Seq(HostWords) /\ Len(z) = 2
    BY <1>3, <1>5
  <2>2. t \o z \in Seq(HostWords) /\ Len(t \o z) = Len(t) + Len(z)
    BY <2>1, ConcatProperties
  <2>3. \A i \in 1 .. Len(t) + Len(z) :
           (t \o z)[i] = IF i <= Len(t) THEN t[i] ELSE z[i - Len(t)]
    BY <2>1, ConcatProperties
  <2> QED BY <2>1, <2>2, <2>3
<1>7. Plain(h)
  <2> SUFFICES ASSUME NEW i \in 1 .. Len(h) PROVE h[i] # "[" /\ h[i] # "]"
    BY <1>6 DEF Plain
  <2>1. CASE i <= Len(t)
    BY <1>3, <1>6, <2>1
  <2>2. CASE i > Len(t)
    <3>1. i = Len(t) + 1 \/ i = Len(t) + 2
      BY <1>3, <1>6, <2>2
    <3>2. h[i] = "%25" \/ h[i] = d
      BY <1>3, <1>5, <1>6, <2>2, <3>1
    <3> QED BY <1>2, <3>2
  <2> QED BY <1>3, <2>1, <2>2
<1>8. SubSeq(h, 1, Len(h) - 2) = t
  BY <1>3, <1>6
<1> QED BY <1>7, <1>8

\* h is the text of the address a, and is read back as a, but for its scope id.
Text(a, h) ==
    /\ SplitHostPort(raptor_sockaddr_to_string(a, TRUE)) =
         Parsed(h, <<PortText(raptor_sockaddr_get_port(a))>>)
    /\ LET n == Normalized(a)
           bare == IF n.scope = 0 THEN h ELSE SubSeq(h, 1, Len(h) - 2)
           unscoped == [n EXCEPT !.scope = 0]
       IN /\ raptor_string_to_sockaddr(bare, a.port) = unscoped
          /\ n.scope # 0 => h = bare \o ScopeZone(n.scope)
          /\ raptor_sockaddr_is_wildcard(a) <=>
               unscoped \in {raptor_sockaddr_make_wildcard4(a.port),
                             raptor_sockaddr_make_wildcard6(a.port)}
    /\ h = raptor_sockaddr_get_ip(a)

\* What is read off the text of an address is the address.
LEMMA TextFaithful ==
  ASSUME NEW a \in Addrs
  PROVE  \E h : Text(a, h)
<1>0. PICK p \in Ports : p = a.port
  BY AddressCases
<1>1. a.family # "unix"
  BY AddressCases
<1>2. PICK ip \in Ips, prefix \in {"none", "zero", "other"}, s \in Scopes \cup {0} :
          Normalized(a) = IF prefix = "none" THEN V4(ip, a.port) ELSE V6(prefix, ip, a.port, s)
  <2>1. PICK ip \in Ips : \/ Normalized(a) = V4(ip, a.port)
                          \/ \E prefix \in {"zero", "other"}, s \in Scopes :
                                Normalized(a) = V6(prefix, ip, a.port, s)
    BY AddressCases
  <2>2. CASE Normalized(a) = V4(ip, a.port)
    <3>1. Normalized(a) = IF "none" = "none" THEN V4(ip, a.port) ELSE V6("none", ip, a.port, 0)
      BY <2>2
    <3> QED BY <3>1
  <2>3. CASE \E prefix \in {"zero", "other"}, s \in Scopes : Normalized(a) = V6(prefix, ip, a.port, s)
    <3>1. PICK prefix \in {"zero", "other"}, s \in Scopes : Normalized(a) = V6(prefix, ip, a.port, s)
      BY <2>3
    <3>2. Normalized(a) = IF prefix = "none" THEN V4(ip, a.port) ELSE V6(prefix, ip, a.port, s)
      BY <3>1
    <3> QED BY <3>2
  <2> QED BY <2>1, <2>2, <2>3
<1>3. PICK n : n = Normalized(a)
  OBVIOUS
<1>4. /\ n.family \in {"v4", "v6"} /\ n.port = a.port /\ n.scope \in Scopes \cup {0}
      /\ n.prefix = prefix /\ n.ip = ip
  BY <1>2, <1>3 DEF V4, V6
<1>5. PICK t : /\ t = raptor_inet_ntop(n) /\ Plain(t)
               /\ InetPton(t) = IF prefix = "none" THEN V4(ip, 0) ELSE V6(prefix, ip, 0, 0)
  BY <1>2, <1>3, TextOf
<1>6. PICK h : h = HostWithScope(n)
  OBVIOUS
<1>7. /\ Plain(h) /\ (n.scope # 0 => h = t \o ScopeZone(n.scope))
      /\ (IF n.scope = 0 THEN h ELSE SubSeq(h, 1, Len(h) - 2)) = t
  <2>1. CASE n.scope = 0
    BY <1>5, <1>6, <2>1 DEF HostWithScope
  <2>2. CASE n.scope # 0
    <3>1. h = t \o ScopeZone(n.scope) /\ n.scope \in Scopes
      BY <1>4, <1>5, <1>6, <2>2 DEF HostWithScope
    <3>2. Plain(h) /\ SubSeq(h, 1, Len(h) - 2) = t
      BY <1>5, <3>1, ScopedText
    <3> QED BY <2>2, <3>1, <3>2
  <2> QED BY <2>1, <2>2
<1>8. SplitHostPort(raptor_sockaddr_to_string(a, TRUE)) = Parsed(h, <<PortText(a.port)>>)
  <2>1. raptor_sockaddr_to_string(a, TRUE) = JoinHostPort(h, a.port)
    BY <1>3, <1>4, <1>6 DEF raptor_sockaddr_to_string
  <2>2. SplitHostPort(JoinHostPort(h, a.port)) = Parsed(h, <<PortText(a.port)>>)
    BY <1>0, <1>7, SplitJoin
  <2> QED BY <2>1, <2>2, Zenon
<1>9. PICK m : m = [n EXCEPT !.scope = 0]
  OBVIOUS
<1>10. m = IF prefix = "none" THEN V4(ip, a.port) ELSE V6(prefix, ip, a.port, 0)
  BY <1>2, <1>3, <1>9 DEF V4, V6
<1>11. m.prefix = prefix /\ m.ip = ip
  BY <1>10 DEF V4, V6
<1>12. raptor_string_to_sockaddr(t, a.port) = m
  <2>0. p \in PortRange
    BY CallsAssumption
  <2>1. CASE prefix = "none"
    <3>1. raptor_string_to_sockaddr(t, a.port) = raptor_sockaddr_set_port(V4(ip, 0), a.port)
      BY <1>5, <2>1 DEF raptor_string_to_sockaddr
    <3>2. raptor_sockaddr_set_port(V4(ip, 0), p) = V4(ip, p)
      <4>1. V4(ip, 0).family # "unix"
        BY DEF V4
      <4>2. [V4(ip, 0) EXCEPT !.port = p] = V4(ip, p)
        BY DEF V4
      <4> QED BY <2>0, <4>1, <4>2, SetPortIs
    <3> QED BY <1>0, <1>10, <2>1, <3>1, <3>2
  <2>2. CASE prefix # "none"
    <3>1. raptor_string_to_sockaddr(t, a.port) = raptor_sockaddr_set_port(V6(prefix, ip, 0, 0), a.port)
      BY <1>5, <2>2 DEF raptor_string_to_sockaddr
    <3>2. raptor_sockaddr_set_port(V6(prefix, ip, 0, 0), p) = V6(prefix, ip, p, 0)
      <4>1. V6(prefix, ip, 0, 0).family # "unix"
        BY DEF V6
      <4>2. [V6(prefix, ip, 0, 0) EXCEPT !.port = p] = V6(prefix, ip, p, 0)
        BY DEF V6
      <4> QED BY <2>0, <4>1, <4>2, SetPortIs
    <3> QED BY <1>0, <1>10, <2>2, <3>1, <3>2
  <2> QED BY <2>1, <2>2
<1>13. raptor_sockaddr_get_ip(a) = h
  BY <1>1, <1>3, <1>6 DEF raptor_sockaddr_get_ip
<1>14. raptor_sockaddr_is_wildcard(a) <=>
         m \in {raptor_sockaddr_make_wildcard4(a.port), raptor_sockaddr_make_wildcard6(a.port)}
  <2>1. raptor_sockaddr_is_wildcard(a) <=> ip = "0" /\ prefix \in {"none", "zero"}
    BY <1>3, <1>4 DEF raptor_sockaddr_is_wildcard
  <2>2. CASE prefix = "none"
    <3>1. m = V4(ip, a.port)
      BY <1>10, <2>2
    <3>2. m # V6("zero", "0", a.port, 0)
      BY <1>11, <2>2 DEF V6
    <3>3. m = V4("0", a.port) <=> ip = "0"
      BY <3>1 DEF V4
    <3> QED BY <2>1, <2>2, <3>2, <3>3 DEF raptor_sockaddr_make_wildcard4, raptor_sockaddr_make_wildcard6
  <2>3. CASE prefix # "none"
    <3>1. m = V6(prefix, ip, a.port, 0)
      BY <1>10, <2>3
    <3>2. m # V4("0", a.port)
      BY <1>11, <2>3 DEF V4
    <3>3. m = V6("zero", "0", a.port, 0) <=> ip = "0" /\ prefix = "zero"
      BY <3>1 DEF V6
    <3> QED BY <2>1, <2>3, <3>2, <3>3 DEF raptor_sockaddr_make_wildcard4, raptor_sockaddr_make_wildcard6
  <2> QED BY <2>2, <2>3
<1>15. raptor_sockaddr_get_port(a) = a.port
  BY <1>1 DEF raptor_sockaddr_get_port
<1>16. raptor_string_to_sockaddr(IF n.scope = 0 THEN h ELSE SubSeq(h, 1, Len(h) - 2), a.port) = m
  BY <1>7, <1>12
<1>17. n.scope # 0 => h = (IF n.scope = 0 THEN h ELSE SubSeq(h, 1, Len(h) - 2)) \o ScopeZone(n.scope)
  BY <1>7
<1> QED BY <1>3, <1>8, <1>9, <1>13, <1>14, <1>15, <1>16, <1>17, Zenon DEF Text

\* The names whose host or port getaddrinfo may know here, and those it does.
KnownPorts == {<<"80">>, <<"443">>, <<"http">>, <<"https">>}
Known(name, port) == \/ name = <<"a">> /\ port \in KnownPorts
                     \/ \E p \in KnownPorts : name = <<"a", ":">> \o p

\* The pairs that are tried meet those that are known for one host and four ports.
LEMMA TriedIs ==
  ASSUME NEW host, NEW port
  PROVE  WithRetry(host, port) \cap DOMAIN Hosted # {} <=> host = <<"a">> /\ port \in KnownPorts
<1>1. PICK A, P80, P443, Http, Https :
         /\ A = <<"a">> /\ P80 = <<"80">> /\ P443 = <<"443">> /\ Http = <<"http">> /\ Https = <<"https">>
  OBVIOUS
<1>2. DOMAIN Hosted = {<<A, P80>>, <<A, P443>>}
  BY <1>1, Zenon DEF Hosted
<1>3. /\ DOMAIN Service = {"http", "https"}
      /\ Service["http"] = "80" /\ Service["https"] = "443"
  BY DEF Service
<1>4. KnownPorts = {P80, P443, Http, Https}
  BY <1>1, Zenon DEF KnownPorts
<1>5. ASSUME NEW x, x \in WithRetry(host, port)
      PROVE  x = <<host, port>> \/ (port = Http /\ x = <<host, P80>>) \/ (port = Https /\ x = <<host, P443>>)
  <2>1. CASE x # <<host, port>>
    <3>1. PICK s \in DOMAIN Service : <<s>> = port /\ x = <<host, <<Service[s]>>>>
      BY <1>5, <2>1, Zenon DEF WithRetry
    <3>2. CASE s = "http"
      BY <1>1, <1>3, <3>1, <3>2, Zenon
    <3>3. CASE s = "https"
      BY <1>1, <1>3, <3>1, <3>3, Zenon
    <3> QED BY <1>3, <3>1, <3>2, <3>3
  <2> QED BY <2>1
<1>6. <<host, port>> \in WithRetry(host, port)
  BY Zenon DEF WithRetry
<1>7. port = Http => <<host, P80>> \in WithRetry(host, port)
  <2>1. port = Http => "http" \in {s \in DOMAIN Service : <<s>> = port}
    BY <1>1, <1>3, Zenon
  <2> QED BY <1>1, <1>3, <2>1, Zenon DEF WithRetry
<1>8. port = Https => <<host, P443>> \in WithRetry(host, port)
  <2>1. port = Https => "https" \in {s \in DOMAIN Service : <<s>> = port}
    BY <1>1, <1>3, Zenon
  <2> QED BY <1>1, <1>3, <2>1, Zenon DEF WithRetry
<1>9. ASSUME NEW x \in WithRetry(host, port), x \in DOMAIN Hosted
      PROVE  host = A /\ port \in KnownPorts
  <2>1. x = <<A, P80>> \/ x = <<A, P443>>
    BY <1>2, <1>9
  <2>2. PICK q : x = <<host, q>> /\ (q = port \/ port = Http \/ port = Https)
    BY <1>5, <1>9
  <2>3. host = A /\ (q = P80 \/ q = P443)
    BY <2>1, <2>2
  <2> QED BY <1>4, <2>2, <2>3
<1>10. ASSUME host = A, port \in KnownPorts
       PROVE  \E x \in WithRetry(host, port) : x \in DOMAIN Hosted
  <2>1. CASE port = P80 \/ port = P443
    BY <1>2, <1>6, <1>10, <2>1
  <2>2. CASE port = Http
    BY <1>2, <1>7, <1>10, <2>2
  <2>3. CASE port = Https
    BY <1>2, <1>8, <1>10, <2>3
  <2> QED BY <1>4, <1>10, <2>1, <2>2, <2>3
<1>11. host = <<"a">> <=> host = A
  BY <1>1
<1> QED BY <1>9, <1>10, <1>11, Zenon

\* A name resolves when it can be split, has a port and is tried with success.
LEMMA ResolveIs ==
  ASSUME NEW name, NEW default, NEW h, NEW port, NEW used, NEW split,
         split = SplitHostPort(name), split.ok, split.host = h, split.port = port,
         used = IF port = NoPort THEN default ELSE port
  PROVE  LET r == raptor_blocking_resolve_address(name, default, Hosted)
         IN r.err <=> used = NoPort \/ ~(h = <<"a">> /\ used \in KnownPorts)
<1>1. PICK tried : tried = WithRetry(h, used) \cap DOMAIN Hosted
  OBVIOUS
<1>2. tried # {} <=> h = <<"a">> /\ used \in KnownPorts
  BY <1>1, TriedIs
<1>3. PICK r : r = raptor_blocking_resolve_address(name, default, Hosted)
  OBVIOUS
<1>4. CASE used = NoPort \/ tried = {}
  <2>1. r = [err |-> TRUE, addrs |-> <<>>]
    BY <1>1, <1>3, <1>4, Zenon DEF raptor_blocking_resolve_address
  <2>2. r.err = TRUE
    BY <2>1
  <2> QED BY <1>2, <1>3, <1>4, <2>2, Zenon
<1>5. CASE used # NoPort /\ tried # {}
  <2>1. PICK x : r = [err |-> FALSE, addrs |-> x]
    BY <1>1, <1>3, <1>5, Zenon DEF raptor_blocking_resolve_address
  <2>2. r.err = FALSE
    BY <2>1
  <2> QED BY <1>2, <1>3, <1>5, <2>2, Zenon
<1> QED BY <1>4, <1>5

\* The names, taken apart; the last is no name.
LEMMA NamesSplit ==
  /\ SplitHostPort(<<"a">>) = Parsed(<<"a">>, NoPort)
  /\ \A p \in {"80", "http", "https", "ftp"} : SplitHostPort(<<"a", ":", p>>) = Parsed(<<"a">>, <<p>>)
  /\ SplitHostPort(<<"a", ":", "b", ":", "80">>) = Parsed(<<"a", ":", "b", ":", "80">>, NoPort)
  /\ SplitHostPort(<<"[", "a", "]", ":", "80">>) = Unparseable
<1>1. SplitHostPort(<<"a">>) = Parsed(<<"a">>, NoPort)
  <2>0. PICK name : name = <<"a">>
    OBVIOUS
  <2>1. Len(name) = 1 /\ name[1] = "a"
    BY <2>0
  <2>2. Find(name, ":", 1) = 0
    BY <2>1, FindIs
  <2>3. SplitAtColon(name) = Parsed(name, NoPort)
    BY <2>2, Zenon DEF SplitAtColon
  <2>4. name[1] # "["
    BY <2>1
  <2> QED BY <2>0, <2>3, <2>4, Zenon DEF SplitHostPort
<1>2. ASSUME NEW p \in {"80", "http", "https", "ftp"}
      PROVE  SplitHostPort(<<"a", ":", p>>) = Parsed(<<"a">>, <<p>>)
  <2>1. PICK h : h = <<"a">> /\ Len(h) = 1 /\ h[1] = "a" /\ h \in Seq(HostWords)
    <3>1. <<"a">> \in Seq(HostWords)
      BY DEF HostWords
    <3> QED BY <3>1
  <2>2. Plain(h) /\ ~Contains(h, ":")
    BY <2>1 DEF Plain, Contains
  <2>0. PICK name : name = <<"a", ":", p>>
    OBVIOUS
  <2>3. Len(name) = 3 /\ name[1] = "a" /\ name[2] = ":" /\ name[3] = p
    BY <2>0
  <2>4. WithColon(name, h, 1, p)
    BY <2>1, <2>3 DEF WithColon
  <2>5. p # ":"
    OBVIOUS
  <2>6. SplitHostPort(name) = Parsed(h, <<p>>)
    BY <2>1, <2>2, <2>4, <2>5, SplitOfColon
  <2> QED BY <2>0, <2>1, <2>6, Zenon
<1>3. SplitHostPort(<<"a", ":", "b", ":", "80">>) = Parsed(<<"a", ":", "b", ":", "80">>, NoPort)
  <2>0. PICK name : name = <<"a", ":", "b", ":", "80">>
    OBVIOUS
  <2>1. Len(name) = 5 /\ name[1] = "a" /\ name[2] = ":" /\ name[3] = "b" /\ name[4] = ":"
    BY <2>0
  <2>2. Find(name, ":", 1) = 2
    <3>1. 2 \in 1 .. Len(name) /\ \A i \in 1 .. 2 - 1 : name[i] # ":"
      BY <2>1
    <3>2. Len(name) \in Nat
      BY <2>1
    <3> QED BY <2>1, <3>1, <3>2, FindAt
  <2>3. Find(name, ":", 2 + 1) = 4
    <3>1. 4 \in 2 + 1 .. Len(name) /\ \A i \in 2 + 1 .. 4 - 1 : name[i] # ":"
      BY <2>1
    <3>2. Len(name) \in Nat
      BY <2>1
    <3> QED BY <2>1, <3>1, <3>2, FindAt
  <2>4. SplitAtColon(name) = Parsed(name, NoPort)
    BY <2>2, <2>3 DEF SplitAtColon
  <2>5. name[1] # "["
    BY <2>1
  <2> QED BY <2>0, <2>4, <2>5, Zenon DEF SplitHostPort
<1>4. SplitHostPort(<<"[", "a", "]", ":", "80">>) = Unparseable
  <2>0. PICK name : name = <<"[", "a", "]", ":", "80">>
    OBVIOUS
  <2>1. Len(name) = 5 /\ name[1] = "[" /\ name[2] = "a" /\ name[3] = "]"
    BY <2>0
  <2>2. Find(name, "]", 2) = 3
    <3>1. 3 \in 2 .. Len(name) /\ \A i \in 2 .. 3 - 1 : name[i] # "]"
      BY <2>1
    <3>2. Len(name) \in Nat
      BY <2>1
    <3> QED BY <2>1, <3>1, <3>2, FindAt
  <2>3. SubSeq(name, 2, 3 - 1) = <<"a">>
    BY <2>1, SubSeqLast
  <2>4. ~Contains(<<"a">>, ":")
    BY DEF Contains
  <2>5. SplitBracketed(name) = Unparseable
    BY <2>2, <2>3, <2>4, Zenon DEF SplitBracketed
  <2>6. name # <<>>
    BY <2>1
  <2> QED BY <2>0, <2>1, <2>5, <2>6, Zenon DEF SplitHostPort
<1> QED BY <1>1, <1>2, <1>3, <1>4

\* The names that Known knows by their text.
LEMMA KnownText ==
  ASSUME NEW name
  PROVE  (\E p \in KnownPorts : name = <<"a", ":">> \o p) <=>
           name \in {<<"a", ":", "80">>, <<"a", ":", "443">>, <<"a", ":", "http">>, <<"a", ":", "https">>}
<1>1. ASSUME NEW q PROVE <<"a", ":">> \o <<q>> = <<"a", ":", q>>
  <2>1. PICK S : S = {"a", ":", q}
    OBVIOUS
  <2>2. PICK x \in Seq(S) : x = <<"a", ":">> /\ Len(x) = 2 /\ x[1] = "a" /\ x[2] = ":"
    <3>1. <<"a", ":">> \in Seq(S)
      BY <2>1
    <3> QED BY <3>1
  <2>3. PICK y \in Seq(S) : y = <<q>> /\ Len(y) = 1 /\ y[1] = q
    <3>1. <<q>> \in Seq(S)
      BY <2>1
    <3> QED BY <3>1
  <2>4. PICK z \in Seq(S) : z = <<"a", ":", q>> /\ Len(z) = 3 /\ z[1] = "a" /\ z[2] = ":" /\ z[3] = q
    <3>1. <<"a", ":", q>> \in Seq(S)
      BY <2>1
    <3> QED BY <3>1
  <2>5. PICK w : w = x \o y
    OBVIOUS
  <2>9. /\ w \in Seq(S) /\ Len(w) = 3
        /\ \A i \in 1 .. 2 : w[i] = x[i]
        /\ \A i \in 1 .. 1 : w[2 + i] = y[i]
    <3>1. /\ w \in Seq(S) /\ Len(w) = 2 + 1
          /\ \A i \in 1 .. 2 : w[i] = x[i]
          /\ \A i \in 1 .. 1 : w[2 + i] = y[i]
      BY <2>2, <2>3, <2>5, ConcatProperties
    <3> QED BY <3>1
  <2>6. w[1] = x[1] /\ w[2] = x[2] /\ w[3] = y[1]
    BY <2>9
  <2>7. \A i \in 1 .. Len(w) : w[i] = z[i]
    BY <2>2, <2>3, <2>4, <2>6, <2>9
  <2>8. w = z
    BY <2>4, <2>7, <2>9, SeqEqual
  <2> QED BY <2>2, <2>3, <2>4, <2>5, <2>8
<1> QED BY <1>1, Zenon DEF KnownPorts

\* A name is an error exactly when it is not one of those.
LEMMA KnownIs ==
  ASSUME NEW name \in Names, NEW port \in {NoPort, <<"443">>}
  PROVE  LET r == raptor_blocking_resolve_address(name, port, Hosted)
         IN ~r.err <=> Known(name, port)
<1>1. NoPort \notin KnownPorts
  BY DEF NoPort, KnownPorts
<1>2. <<"443">> \in KnownPorts
  BY DEF KnownPorts
<1>3. \A p : <<p>> = NoPort => p = "nullptr"
  BY DEF NoPort
<1>4. CASE name = <<"a">>
  <2>1. \A p \in {"80", "443", "http", "https"} : name # <<"a", ":", p>>
    <3>1. Len(name) = 1
      BY <1>4
    <3>2. \A p : Len(<<"a", ":", p>>) = 3
      OBVIOUS
    <3> QED BY <3>1, <3>2
  <2>2. Known(name, port) <=> port \in KnownPorts
    BY <1>4, <2>1, KnownText, Zenon DEF Known
  <2>3. PICK split : /\ split = SplitHostPort(name) /\ split.ok = TRUE
                     /\ split.host = <<"a">> /\ split.port = NoPort
    BY <1>4, NamesSplit DEF Parsed
  <2>4. raptor_blocking_resolve_address(name, port, Hosted).err <=> port = NoPort \/ ~(port \in KnownPorts)
    BY <2>3, ResolveIs, Zenon
  <2> QED BY <1>1, <2>2, <2>4, Zenon
<1>5. ASSUME NEW p \in {"80", "http", "https", "ftp"}, name = <<"a", ":", p>>
      PROVE  ~raptor_blocking_resolve_address(name, port, Hosted).err <=> Known(name, port)
  <2>1. name # <<"a">>
    <3>1. Len(name) = 3 /\ Len(<<"a">>) = 1
      BY <1>5
    <3> QED BY <3>1
  <2>2. Known(name, port) <=> p # "ftp"
    <3>1. name[3] = p
      BY <1>5
    <3>2. \A q : <<"a", ":", q>>[3] = q
      OBVIOUS
    <3>3. \A q : name = <<"a", ":", q>> => q = p
      BY <3>1, <3>2
    <3>4. name \in {<<"a", ":", "80">>, <<"a", ":", "443">>, <<"a", ":", "http">>, <<"a", ":", "https">>}
             <=> p # "ftp"
      <4>1. CASE p = "ftp"
        <5>1. "80" # p /\ "443" # p /\ "http" # p /\ "https" # p
          BY <4>1
        <5> QED BY <3>3, <4>1, <5>1, Zenon
      <4>2. CASE p # "ftp"
        BY <1>5, <4>2, Zenon
      <4> QED BY <4>1, <4>2
    <3> QED BY <2>1, <3>4, KnownText, Zenon DEF Known
  <2>3. PICK split : /\ split = SplitHostPort(name) /\ split.ok = TRUE
                     /\ split.host = <<"a">> /\ split.port = <<p>>
    <3>1. SplitHostPort(name) = Parsed(<<"a">>, <<p>>)
      BY <1>5, NamesSplit
    <3> QED BY <3>1 DEF Parsed
  <2>4. <<p>> # NoPort
    BY <1>3
  <2>5. raptor_blocking_resolve_address(name, port, Hosted).err <=> ~(<<p>> \in KnownPorts)
    BY <2>3, <2>4, ResolveIs, Zenon
  <2>6. <<p>> \in KnownPorts <=> p # "ftp"
    BY DEF KnownPorts
  <2> QED BY <2>2, <2>5, <2>6, Zenon
<1>6. CASE name = <<"a", ":", "b", ":", "80">>
  <2>1. Len(name) = 5
    BY <1>6
  <2>2. name # <<"a">> /\ \A p : name # <<"a", ":", p>>
    BY <2>1
  <2>3. ~Known(name, port)
    BY <2>2, KnownText, Zenon DEF Known
  <2>4. PICK split : split = SplitHostPort(name) /\ split.ok = TRUE /\ split.host = name /\ split.port = NoPort
    BY <1>6, NamesSplit DEF Parsed
  <2>5. raptor_blocking_resolve_address(name, port, Hosted).err
    BY <2>2, <2>4, ResolveIs, Zenon
  <2> QED BY <2>3, <2>5, Zenon
<1>7. CASE name = <<"[", "a", "]", ":", "80">>
  <2>1. Len(name) = 5
    BY <1>7
  <2>2. name # <<"a">> /\ \A p : name # <<"a", ":", p>>
    BY <2>1
  <2>3. ~Known(name, port)
    BY <2>2, KnownText, Zenon DEF Known
  <2>4. PICK split : split = SplitHostPort(name) /\ split.ok = FALSE
    BY <1>7, NamesSplit DEF Unparseable
  <2>5. raptor_blocking_resolve_address(name, port, Hosted) = [err |-> TRUE, addrs |-> <<>>]
    BY <2>4, Zenon DEF raptor_blocking_resolve_address
  <2>6. raptor_blocking_resolve_address(name, port, Hosted).err = TRUE
    BY <2>5
  <2> QED BY <2>3, <2>6, Zenon
<1>8. \/ name \in {<<"a">>, <<"a", ":", "b", ":", "80">>, <<"[", "a", "]", ":", "80">>}
      \/ \E p \in {"80", "http", "https", "ftp"} : name = <<"a", ":", p>>
  BY Zenon DEF Names
<1> QED BY <1>4, <1>5, <1>6, <1>7, <1>8, Zenon

-----------------------------------------------------------------------------
(* The theorem: the outcome of a call is one of its input's.                *)

CallInv == input \in Inputs \cup {NotCalled} /\ (result # NotCalled => result \in Outcomes(input))

\* The input of each of the three operations.
LEMMA InputIs ==
  ASSUME NEW x \in Inputs \cup {NotCalled}
  PROVE  /\ x.op = "join" => \E h \in Hosts, p \in Ports : x = [op |-> "join", host |-> h, port |-> p]
         /\ x.op = "address" => \E a \in Addrs : x = [op |-> "address", addr |-> a]
         /\ x.op = "resolve" => \E n \in Names, p \in {NoPort, <<"443">>} :
                                   x = [op |-> "resolve", name |-> n, port |-> p]
<1>1. CASE x = NotCalled
  BY <1>1 DEF NotCalled
<1>2. CASE x \in AddressInputs
  BY <1>2 DEF AddressInputs
<1>3. CASE x \in SocketInputs
  <2>1. x.op \in {"server", "client", "windows", "settings", "listen"}
    BY <1>3 DEF SocketInputs
  <2> QED BY <2>1
<1>4. CASE x \in FactoryInputs
  <2>1. PICK k, l : x = [op |-> "create", kind |-> k, list |-> l]
    BY <1>4, Zenon DEF FactoryInputs
  <2> QED BY <2>1
<1> QED BY <1>1, <1>2, <1>3, <1>4 DEF Inputs

\* A host is plain.
LEMMA HostsPlain ==
  ASSUME NEW h \in Hosts
  PROVE  Plain(h)
<1>1. PICK m \in 0 .. MaxHost : h \in [1 .. m -> {"a", "0", ":"}]
  BY Zenon DEF Hosts, BoundedSeq, SeqOf
<1>2. m \in Nat /\ {"a", "0", ":"} \subseteq HostWords
  BY CallsAssumption DEF HostWords
<1>3. h \in [1 .. m -> HostWords]
  BY <1>1, <1>2
<1>4. h \in Seq(HostWords) /\ Len(h) = m
  BY <1>2, <1>3, SeqDef
<1> QED BY <1>1, <1>4 DEF Plain

\* The outcome of each of them is as AddressesFaithful says.
LEMMA OutcomesFaithful == CallInv => AddressesFaithful
<1> SUFFICES ASSUME CallInv PROVE AddressesFaithful
  OBVIOUS
<1>1. SplitInvertsJoin
  <2> SUFFICES ASSUME Called("join") PROVE result = Parsed(input.host, <<PortText(input.port)>>)
    BY DEF SplitInvertsJoin
  <2>1. input.op = "join" /\ result \in Outcomes(input)
    BY Zenon DEF Called, CallInv
  <2>2. PICK h \in Hosts, p \in Ports : input = [op |-> "join", host |-> h, port |-> p]
    BY <2>1, InputIs DEF CallInv
  <2>3. input.host = h /\ input.port = p
    BY <2>2
  <2>4. result = SplitHostPort(JoinHostPort(h, p))
    BY <2>1, <2>3, Zenon DEF Outcomes
  <2>5. SplitHostPort(JoinHostPort(h, p)) = Parsed(h, <<PortText(p)>>)
    BY HostsPlain, SplitJoin
  <2> QED BY <2>3, <2>4, <2>5, Zenon
<1>2. AddressTextFaithful
  <2> SUFFICES ASSUME Called("address") PROVE AddressTextFaithful
    BY DEF AddressTextFaithful
  <2>1. input.op = "address" /\ result \in Outcomes(input)
    BY Zenon DEF Called, CallInv
  <2>2. PICK a \in Addrs : input = [op |-> "address", addr |-> a]
    BY <2>1, InputIs DEF CallInv
  <2>3. input.addr = a
    BY <2>2
  <2>4. result = SplitHostPort(raptor_sockaddr_to_string(a, TRUE))
    BY <2>1, <2>3, Zenon DEF Outcomes
  <2>5. PICK h : Text(a, h)
    BY TextFaithful
  <2>6. result = Parsed(h, <<PortText(raptor_sockaddr_get_port(a))>>)
    BY <2>4, <2>5, Zenon DEF Text
  <2>7. result.ok = TRUE /\ result.host = h /\ result.port = <<PortText(raptor_sockaddr_get_port(a))>>
    BY <2>6 DEF Parsed
  <2> QED BY <2>3, <2>5, <2>7, Zenon DEF AddressTextFaithful, Text
<1>3. KnownNamesResolve
  <2> SUFFICES ASSUME Called("resolve") PROVE ~result.err <=> Known(input.name, input.port)
    BY Zenon DEF KnownNamesResolve, Known, KnownPorts
  <2>1. input.op = "resolve" /\ result \in Outcomes(input)
    BY Zenon DEF Called, CallInv
  <2>2. PICK n \in Names, p \in {NoPort, <<"443">>} : input = [op |-> "resolve", name |-> n, port |-> p]
    BY <2>1, InputIs DEF CallInv
  <2>3. input.name = n /\ input.port = p
    BY <2>2
  <2>4. result = raptor_blocking_resolve_address(n, p, Hosted)
    BY <2>1, <2>3, Zenon DEF Outcomes
  <2> QED BY <2>3, <2>4, KnownIs, Zenon
<1> QED BY <1>1, <1>2, <1>3 DEF AddressesFaithful

\* SplitHostPort inverts JoinHostPort for hosts of every length, with colons or
\* without, and for every port; the text of every address is read back as that
\* address; and the names that resolve are the known ones.
THEOREM AddressesStayFaithful == Spec => []AddressesFaithful
<1>1. Init => CallInv
  BY Zenon DEF Init, CallInv
<1>2. CallInv /\ [Next]_vars => CallInv'
  <2> SUFFICES ASSUME CallInv, [Next]_vars PROVE CallInv'
    OBVIOUS
  <2>1. CASE UNCHANGED callVars
    BY <2>1, Zenon DEF callVars, CallInv
  <2>2. CASE CallOnce
    BY <2>2, Zenon DEF CallOnce, CallInv
  <2>3. CASE UseSlices \/ UseRefs \/ UseList
    <3>1. UNCHANGED callVars
      BY <2>3, Zenon DEF UseSlices, UseRefs, UseList
    <3> QED BY <2>1, <3>1
  <2>4. CASE UNCHANGED vars
    <3>1. UNCHANGED callVars
      BY <2>4, Zenon DEF vars
    <3> QED BY <2>1, <3>1
  <2> QED BY <2>2, <2>3, <2>4 DEF Next
<1> QED BY <1>1, <1>2, OutcomesFaithful, PTL DEF Spec
=============================================================================
