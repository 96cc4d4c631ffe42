-------------------------- MODULE SliceBufferProofs --------------------------
(***************************************************************************)
(* Facts about SliceBuffer, for buffers of any number of slices of any     *)
(* length: what its operations do to the bytes a buffer holds; and about   *)
(* Framing, for streams of any packets: what a read and a round of         *)
(* ParsingProtocol do to the bytes read and delivered.                     *)
(*                                                                         *)
(* The definitions of SliceBuffer and FlattenSeq of the library are        *)
(* recursive functions.  That such a function exists, and what its values  *)
(* are, is shown by induction: a set of numbers that has 0 and with every  *)
(* number the next one has them all, since a number that is not in it      *)
(* would have a least one.                                                 *)
(***************************************************************************)
EXTENDS Framing, SequenceTheorems, WellFoundedInduction, TLAPS

-----------------------------------------------------------------------------
(* Induction.                                                               *)

\* A set of numbers that is not empty has a least one.
LEMMA SmallestNat ==
  ASSUME NEW T \in SUBSET Nat, T # {}
  PROVE  \E m \in T : \A k \in T : m <= k
<1> DEFINE R == {ss \in Nat \X Nat : ss[1] < ss[2]}
<1>1. IsWellFoundedOn(R, Nat)
  BY NatLessThanWellFounded DEF OpToRel
<1>2. \A x, y \in Nat : y < x => <<y, x>> \in R
  OBVIOUS
<1> HIDE DEF R
<1>3. PICK x \in T : \A y \in T : ~ (<<y, x>> \in R)
  BY <1>1, WFMin
<1>4. \A y \in T : ~ (y < x)
  BY <1>2, <1>3
<1> QED BY <1>3, <1>4

\* A set that has 0 and with every number the next one has all the numbers.
LEMMA SetInduction ==
  ASSUME NEW T \in SUBSET Nat, 0 \in T, \A k \in T : k + 1 \in T
  PROVE  \A n \in Nat : n \in T
<1> SUFFICES ASSUME Nat \ T # {} PROVE FALSE
  OBVIOUS
<1>1. PICK m \in Nat \ T : \A k \in Nat \ T : m <= k
  BY SmallestNat
<1>2. m - 1 \in Nat /\ m - 1 \notin Nat \ T
  BY <1>1
<1> QED BY <1>2

-----------------------------------------------------------------------------
(* Slices.                                                                  *)

\* A slice is its bytes; Cat is \o, which the proofs take apart by the lemmas only.
Slices == Seq(Nat)
Cat(s, t) == s \o t

\* Lengths of slices, and the laws of putting them together.
LEMMA SliceFacts ==
  /\ <<>> \in Slices /\ Len(<<>>) = 0
  /\ \A s \in Slices : Len(s) \in Nat /\ (Len(s) = 0 => s = <<>>)
  /\ \A s \in Slices : Cat(s, <<>>) = s /\ Cat(<<>>, s) = s
  /\ \A s, t \in Slices : Cat(s, t) \in Slices /\ Len(Cat(s, t)) = Len(s) + Len(t)
  /\ \A s, t, u \in Slices : Cat(Cat(s, t), u) = Cat(s, Cat(t, u))
<1>1. \A s, t \in Seq(Nat) : s \o t \in Seq(Nat) /\ Len(s \o t) = Len(s) + Len(t)
  BY ConcatProperties
<1>2. \A s, t, u \in Seq(Nat) : (s \o t) \o u = s \o (t \o u)
  <2>1. ASSUME NEW s \in Seq(Nat), NEW t \in Seq(Nat), NEW u \in Seq(Nat)
        PROVE  (s \o t) \o u = s \o (t \o u)
    BY ConcatAssociative, SMTT(30)
  <2> QED BY <2>1, Zenon
<1>3. \A s \in Seq(Nat) : s \o <<>> = s /\ <<>> \o s = s
  BY ConcatEmptySeq
<1>4. \A s \in Seq(Nat) : Len(s) \in Nat /\ (Len(s) = 0 => s = <<>>)
  BY LenProperties, EmptySeq
<1>5. <<>> \in Seq(Nat) /\ Len(<<>>) = 0
  BY EmptySeq
<1> QED BY <1>1, <1>2, <1>3, <1>4, <1>5, Zenon DEF Slices, Cat

-----------------------------------------------------------------------------
(* What the flattening of a sequence of slices is.                          *)

\* f[i] is the first i slices in one, for i up to n.
Flattens(f, vs, n) ==
  f = [i \in 1 .. n |-> IF i = 1 THEN vs[i] ELSE Cat(f[i - 1], vs[i])]

\* There is such a function for every n.
LEMMA FlattenExists ==
  ASSUME NEW vs, NEW n \in Nat
  PROVE  \E f : Flattens(f, vs, n)
<1> DEFINE T == {k \in Nat : \E g : Flattens(g, vs, k)}
<1>1. 0 \in T
  <2>1. Flattens([i \in 1 .. 0 |-> <<>>], vs, 0)
    BY DEF Flattens
  <2> QED BY <2>1
<1>2. ASSUME NEW k \in T PROVE k + 1 \in T
  <2>1. PICK g : Flattens(g, vs, k)
    OBVIOUS
  <2> DEFINE h == [i \in 1 .. k + 1 |-> IF i <= k THEN g[i] ELSE IF i = 1 THEN vs[i] ELSE Cat(g[i - 1], vs[i])]
  <2>2. \A i \in 1 .. k : g[i] = IF i = 1 THEN vs[i] ELSE Cat(g[i - 1], vs[i])
    BY <2>1 DEF Flattens
  <2>3. ASSUME NEW i \in 1 .. k + 1
        PROVE  h[i] = IF i = 1 THEN vs[i] ELSE Cat(h[i - 1], vs[i])
    <3>1. CASE i = 1
      BY <2>2, <3>1
    <3>2. CASE i # 1
      <4>1. i - 1 \in 1 .. k /\ h[i - 1] = g[i - 1]
        BY <3>2
      <4>2. h[i] = Cat(g[i - 1], vs[i])
        BY <2>2, <3>2
      <4> QED BY <3>2, <4>1, <4>2
    <3> QED BY <3>1, <3>2
  <2>4. Flattens(h, vs, k + 1)
    BY <2>3 DEF Flattens
  <2> HIDE DEF h
  <2> QED BY <2>4
<1>3. T \in SUBSET Nat
  OBVIOUS
<1> HIDE DEF T
<1>4. n \in T
  BY <1>1, <1>2, <1>3, SetInduction
<1> QED BY <1>4 DEF T

\* FlattenSeq is the last value of the function it defines.
LEMMA FlattenSeqIs ==
  ASSUME NEW vs, Len(vs) \in Nat \ {0}
  PROVE  \E f : Flattens(f, vs, Len(vs)) /\ FlattenSeq(vs) = f[Len(vs)]
<1>1. FlattenSeq(vs) = (CHOOSE f : Flattens(f, vs, Len(vs)))[Len(vs)]
  BY DEF FlattenSeq, Flattens, Cat
<1>2. \E f : Flattens(f, vs, Len(vs))
  BY FlattenExists
<1>3. Flattens(CHOOSE f : Flattens(f, vs, Len(vs)), vs, Len(vs))
  BY <1>2, Zenon
<1> QED BY <1>1, <1>3, Zenon

\* Two such functions agree as far as their slices do.
LEMMA FlattenAgree ==
  ASSUME NEW vs, NEW ws, NEW n \in Nat, NEW m \in Nat, NEW f, NEW g,
         Flattens(f, vs, n), Flattens(g, ws, m),
         NEW k \in 1 .. n, k <= m, \A i \in 1 .. k : vs[i] = ws[i]
  PROVE  f[k] = g[k]
<1> DEFINE T == {j \in Nat : j + 1 <= k => f[j + 1] = g[j + 1]}
<1>1. \A i \in 1 .. k : /\ f[i] = IF i = 1 THEN vs[i] ELSE Cat(f[i - 1], vs[i])
                        /\ g[i] = IF i = 1 THEN vs[i] ELSE Cat(g[i - 1], vs[i])
  BY DEF Flattens
<1>2. 0 \in T
  BY <1>1
<1>3. ASSUME NEW j \in T PROVE j + 1 \in T
  <2> SUFFICES ASSUME j + 2 <= k PROVE f[j + 2] = g[j + 2]
    OBVIOUS
  <2>1. f[j + 1] = g[j + 1]
    OBVIOUS
  <2>2. j + 2 \in 1 .. k /\ j + 2 # 1 /\ (j + 2) - 1 = j + 1
    OBVIOUS
  <2>3. f[j + 2] = Cat(f[j + 1], vs[j + 2]) /\ g[j + 2] = Cat(g[j + 1], vs[j + 2])
    BY <1>1, <2>2
  <2> QED BY <2>1, <2>3
<1>4. T \in SUBSET Nat
  OBVIOUS
<1> HIDE DEF T
<1>5. k - 1 \in T
  BY <1>2, <1>3, <1>4, SetInduction
<1> QED BY <1>5 DEF T

\* FlattenSeq from the back ...
LEMMA FlattenAppend ==
  ASSUME NEW vs \in Seq(Slices), NEW x \in Slices
  PROVE  FlattenSeq(Append(vs, x)) = Cat(FlattenSeq(vs), x)
<1> DEFINE ws == Append(vs, x)
<1>1. /\ Len(vs) \in Nat /\ Len(ws) = Len(vs) + 1 /\ ws[Len(ws)] = x
      /\ \A i \in 1 .. Len(vs) : ws[i] = vs[i]
  BY AppendProperties
<1> HIDE DEF ws
<1>2. PICK g : Flattens(g, ws, Len(ws)) /\ FlattenSeq(ws) = g[Len(ws)]
  BY <1>1, FlattenSeqIs
<1>3. g[Len(ws)] = IF Len(ws) = 1 THEN x ELSE Cat(g[Len(vs)], x)
  <2>1. Len(ws) \in 1 .. Len(ws) /\ Len(ws) - 1 = Len(vs)
    BY <1>1
  <2> QED BY <1>1, <1>2, <2>1 DEF Flattens
<1>4. CASE Len(vs) = 0
  <2>1. vs = <<>> /\ FlattenSeq(vs) = <<>>
    BY <1>4 DEF FlattenSeq
  <2> QED BY <1>1, <1>2, <1>3, <1>4, <2>1, SliceFacts DEF ws
<1>5. CASE Len(vs) # 0
  <2>1. PICK f : Flattens(f, vs, Len(vs)) /\ FlattenSeq(vs) = f[Len(vs)]
    BY <1>1, <1>5, FlattenSeqIs
  <2>2. f[Len(vs)] = g[Len(vs)]
    BY <1>1, <1>2, <1>5, <2>1, FlattenAgree
  <2> QED BY <1>1, <1>2, <1>3, <1>5, <2>1, <2>2 DEF ws
<1> QED BY <1>1, <1>4, <1>5

\* vs is us and the slice x behind them.
SplitsInto(vs, us, x) == vs = Append(us, x) /\ Len(us) = Len(vs) - 1

\* Slices that are not empty are some and a last one.
LEMMA SplitLast ==
  ASSUME NEW vs \in Seq(Slices), Len(vs) # 0
  PROVE  \E us \in Seq(Slices), x \in Slices : SplitsInto(vs, us, x)
<1>1. vs # <<>>
  BY EmptySeq
<1>2. PICK us \in Seq(Slices), x \in Slices : vs = Append(us, x)
  BY <1>1, SequenceEmptyOrAppend, Zenon
<1>3. Len(us) = Len(vs) - 1
  BY <1>2, AppendProperties, LenProperties
<1> QED BY <1>2, <1>3 DEF SplitsInto

\* The flattening of slices is a slice.
LEMMA FlattenType ==
  ASSUME NEW vs \in Seq(Slices)
  PROVE  FlattenSeq(vs) \in Slices
<1> DEFINE T == {n \in Nat : \A ws \in Seq(Slices) : Len(ws) = n => FlattenSeq(ws) \in Slices}
<1>1. 0 \in T
  BY SliceFacts DEF FlattenSeq
<1>2. ASSUME NEW k \in T PROVE k + 1 \in T
  <2> SUFFICES ASSUME NEW ws \in Seq(Slices), Len(ws) = k + 1 PROVE FlattenSeq(ws) \in Slices
    OBVIOUS
  <2>0. PICK us \in Seq(Slices), x \in Slices : SplitsInto(ws, us, x)
    <3>1. Len(ws) # 0
      OBVIOUS
    <3> QED BY <3>1, SplitLast
  <2>1. ws = Append(us, x) /\ Len(us) = k
    BY <2>0 DEF SplitsInto
  <2>2. FlattenSeq(us) \in Slices
    BY <2>1
  <2> QED BY <2>1, <2>2, FlattenAppend, SliceFacts
<1>3. T \in SUBSET Nat
  OBVIOUS
<1> HIDE DEF T
<1>4. Len(vs) \in T
  BY <1>1, <1>2, <1>3, SetInduction
<1> QED BY <1>4 DEF T

\* ... and from the front.
LEMMA FlattenHead ==
  ASSUME NEW vs \in Seq(Slices), vs # <<>>
  PROVE  FlattenSeq(vs) = Cat(Head(vs), FlattenSeq(Tail(vs)))
<1> DEFINE Goal(ws) == FlattenSeq(ws) = Cat(Head(ws), FlattenSeq(Tail(ws)))
           T == {n \in Nat : \A ws \in Seq(Slices) : Len(ws) = n + 1 => Goal(ws)}
<1>0. FlattenSeq(<<>>) = <<>>
  BY DEF FlattenSeq
<1>1. 0 \in T
  <2> SUFFICES ASSUME NEW ws \in Seq(Slices), Len(ws) = 1 PROVE Goal(ws)
    OBVIOUS
  <2>0. PICK us \in Seq(Slices), x \in Slices : SplitsInto(ws, us, x)
    <3>1. Len(ws) # 0
      OBVIOUS
    <3> QED BY <3>1, SplitLast
  <2>1. ws = Append(us, x) /\ Len(us) = 0
    BY <2>0 DEF SplitsInto
  <2>2. us = <<>>
    BY <2>1
  <2>3. Head(ws) = x /\ Tail(ws) = <<>>
    BY <2>1, <2>2, HeadTailAppend
  <2>4. FlattenSeq(ws) = Cat(<<>>, x)
    BY <1>0, <2>1, <2>2, FlattenAppend
  <2> QED BY <1>0, <2>3, <2>4, SliceFacts
<1>2. ASSUME NEW k \in T PROVE k + 1 \in T
  <2> SUFFICES ASSUME NEW ws \in Seq(Slices), Len(ws) = k + 2 PROVE Goal(ws)
    OBVIOUS
  <2>0. PICK us \in Seq(Slices), x \in Slices : SplitsInto(ws, us, x)
    <3>1. Len(ws) # 0
      OBVIOUS
    <3> QED BY <3>1, SplitLast
  <2>1. ws = Append(us, x) /\ Len(us) = k + 1
    BY <2>0 DEF SplitsInto
  <2>2. us # <<>>
    BY <2>1
  <2>3. Head(ws) = Head(us) /\ Tail(ws) = Append(Tail(us), x)
    BY <2>1, <2>2, HeadTailAppend
  <2>4. FlattenSeq(us) = Cat(Head(us), FlattenSeq(Tail(us)))
    BY <2>1
  <2>5. Head(us) \in Slices /\ Tail(us) \in Seq(Slices)
    BY <2>2, HeadTailProperties
  <2>6. FlattenSeq(Tail(us)) \in Slices
    BY <2>5, FlattenType
  <2>7. FlattenSeq(ws) = Cat(FlattenSeq(us), x) /\ FlattenSeq(Tail(ws)) = Cat(FlattenSeq(Tail(us)), x)
    BY <2>1, <2>3, <2>5, FlattenAppend
  <2>8. Cat(Cat(Head(us), FlattenSeq(Tail(us))), x) = Cat(Head(us), Cat(FlattenSeq(Tail(us)), x))
    BY <2>5, <2>6, SliceFacts
  <2> QED BY <2>3, <2>4, <2>7, <2>8
<1>3. T \in SUBSET Nat
  OBVIOUS
<1> HIDE DEF T
<1>4. Len(vs) - 1 \in T
  <2>1. Len(vs) - 1 \in Nat
    BY EmptySeq
  <2> QED BY <1>1, <1>2, <1>3, <2>1, SetInduction
<1> QED BY <1>4 DEF T

-----------------------------------------------------------------------------
(* The first n bytes of a slice, and the others.                            *)

\* The first n bytes of s, and the others.
Take(s, n) == SubSeq(s, 1, n)
Drop(s, n) == SubSeq(s, n + 1, Len(s))

\* c is s and then t; h is the first n bytes of s, and d the others.
Joins(c, s, t) ==
  /\ c \in Slices /\ Len(c) = Len(s) + Len(t) /\ Len(s) \in Nat /\ Len(t) \in Nat
  /\ \A i \in 1 .. Len(s) + Len(t) : c[i] = IF i <= Len(s) THEN s[i] ELSE t[i - Len(s)]
Begins(h, s, n) == h \in Slices /\ Len(h) = n /\ \A i \in 1 .. n : h[i] = s[i]
Continues(d, s, n) ==
  d \in Slices /\ Len(d) = Len(s) - n /\ \A i \in 1 .. Len(s) - n : d[i] = s[i + n]

\* Take is the first bytes, and Drop the others.
LEMMA TakeFacts ==
  ASSUME NEW s \in Slices, NEW n \in Nat, n <= Len(s)
  PROVE  Begins(Take(s, n), s, n) /\ Continues(Drop(s, n), s, n)
<1>1. Len(s) \in Nat /\ \A i \in 1 .. Len(s) : s[i] \in Nat
  BY DEF Slices
<1>2. /\ SubSeq(s, 1, n) \in Seq(Nat)
      /\ Len(SubSeq(s, 1, n)) = IF 1 <= n THEN n - 1 + 1 ELSE 0
      /\ \A i \in 1 .. n - 1 + 1 : SubSeq(s, 1, n)[i] = s[1 + i - 1]
  <2>1. \A i \in 1 .. n : s[i] \in Nat
    BY <1>1
  <2>2. 1 \in Int /\ n \in Int
    BY <1>1
  <2> QED BY <2>1, <2>2, SubSeqProperties
<1>3. /\ SubSeq(s, n + 1, Len(s)) \in Seq(Nat)
      /\ Len(SubSeq(s, n + 1, Len(s))) = IF n + 1 <= Len(s) THEN Len(s) - (n + 1) + 1 ELSE 0
      /\ \A i \in 1 .. Len(s) - (n + 1) + 1 : SubSeq(s, n + 1, Len(s))[i] = s[(n + 1) + i - 1]
  <2>1. \A i \in n + 1 .. Len(s) : s[i] \in Nat
    BY <1>1
  <2>2. n + 1 \in Int /\ Len(s) \in Int
    BY <1>1
  <2> QED BY <2>1, <2>2, SubSeqProperties
<1>4. Take(s, n) \in Slices /\ Len(Take(s, n)) = n /\ \A i \in 1 .. n : Take(s, n)[i] = s[i]
  BY <1>1, <1>2 DEF Take, Slices
<1>5. /\ Drop(s, n) \in Slices /\ Len(Drop(s, n)) = Len(s) - n
      /\ \A i \in 1 .. Len(s) - n : Drop(s, n)[i] = s[i + n]
  BY <1>1, <1>3 DEF Drop, Slices
<1> QED BY <1>4, <1>5 DEF Begins, Continues

\* Cat puts its second slice behind its first.
LEMMA CatFacts ==
  ASSUME NEW s \in Slices, NEW t \in Slices
  PROVE  Joins(Cat(s, t), s, t)
<1>1. \A j \in 1 .. Len(s) + Len(t) : (s \o t)[j] = IF j <= Len(s) THEN s[j] ELSE t[j - Len(s)]
  BY ConcatProperties DEF Slices
<1>2. Cat(s, t) \in Slices /\ Len(Cat(s, t)) = Len(s) + Len(t) /\ Len(s) \in Nat /\ Len(t) \in Nat
  BY SliceFacts
<1> QED BY <1>1, <1>2 DEF Cat, Joins

\* Slices of one length with the same bytes are the same.
LEMMA SliceEqual ==
  ASSUME NEW s \in Slices, NEW t \in Slices, NEW n \in Nat, Len(s) = n, Len(t) = n,
         \A i \in 1 .. n : s[i] = t[i]
  PROVE  s = t
  BY SeqEqual DEF Slices

\* None of the bytes, and all of them.
LEMMA TakeEnds ==
  ASSUME NEW s \in Slices
  PROVE  Take(s, 0) = <<>> /\ Take(s, Len(s)) = s /\ Drop(s, 0) = s /\ Drop(s, Len(s)) = <<>>
<1>1. PICK n \in Nat : n = Len(s)
  BY SliceFacts
<1>2. Begins(Take(s, 0), s, 0) /\ Continues(Drop(s, 0), s, 0)
  BY <1>1, TakeFacts
<1>3. Begins(Take(s, n), s, n) /\ Continues(Drop(s, n), s, n)
  BY <1>1, TakeFacts
<1>4. Take(s, n) = s
  BY <1>1, <1>3, SliceEqual DEF Begins
<1>5. Drop(s, 0) = s
  BY <1>1, <1>2, SliceEqual DEF Continues
<1>6. Take(s, 0) \in Slices /\ Len(Take(s, 0)) = 0 /\ Drop(s, n) \in Slices /\ Len(Drop(s, n)) = 0
  BY <1>1, <1>2, <1>3 DEF Begins, Continues
<1> QED BY <1>1, <1>4, <1>5, <1>6, SliceFacts

\* The first bytes of two slices: some of the first, or all of it and some of the
\* second.
LEMMA TakeCat ==
  ASSUME NEW s \in Slices, NEW t \in Slices
  PROVE  /\ \A n \in 0 .. Len(s) : Take(Cat(s, t), n) = Take(s, n)
         /\ \A n \in 0 .. Len(t) : Take(Cat(s, t), Len(s) + n) = Cat(s, Take(t, n))
<1>0. PICK c : c = Cat(s, t) /\ Joins(c, s, t)
  BY CatFacts
<1>1. Len(s) \in Nat /\ Len(t) \in Nat /\ c \in Slices /\ Len(c) = Len(s) + Len(t)
  BY <1>0 DEF Joins
<1>2. ASSUME NEW n \in 0 .. Len(s) PROVE Take(c, n) = Take(s, n)
  <2>1. n \in Nat /\ n <= Len(c) /\ n <= Len(s)
    BY <1>1
  <2>2. Begins(Take(c, n), c, n)
    BY <1>1, <2>1, TakeFacts
  <2>3. Begins(Take(s, n), s, n)
    BY <2>1, TakeFacts
  <2>4. \A i \in 1 .. n : c[i] = s[i]
    BY <1>0, <1>1 DEF Joins
  <2> QED BY <2>1, <2>2, <2>3, <2>4, SliceEqual DEF Begins
<1>3. ASSUME NEW n \in 0 .. Len(t) PROVE Take(c, Len(s) + n) = Cat(s, Take(t, n))
  <2>1. PICK m \in Nat : m = Len(s) + n /\ m <= Len(c) /\ n \in Nat /\ n <= Len(t)
    BY <1>1
  <2>2. Begins(Take(c, m), c, m)
    BY <1>1, <2>1, TakeFacts
  <2>3. PICK h : h = Take(t, n) /\ Begins(h, t, n)
    BY <2>1, TakeFacts
  <2>4. PICK d : d = Cat(s, h) /\ Joins(d, s, h)
    BY <2>3, CatFacts DEF Begins
  <2>5. ASSUME NEW i \in 1 .. m PROVE c[i] = d[i]
    <3>1. Len(h) = n /\ i \in 1 .. Len(s) + Len(t) /\ i \in 1 .. Len(s) + Len(h)
      BY <1>1, <2>1, <2>3 DEF Begins
    <3>2. c[i] = IF i <= Len(s) THEN s[i] ELSE t[i - Len(s)]
      BY <1>0, <3>1 DEF Joins
    <3>3. d[i] = IF i <= Len(s) THEN s[i] ELSE h[i - Len(s)]
      BY <2>4, <3>1 DEF Joins
    <3>4. i > Len(s) => i - Len(s) \in 1 .. n /\ h[i - Len(s)] = t[i - Len(s)]
      BY <1>1, <2>1, <2>3 DEF Begins
    <3> QED BY <1>1, <3>2, <3>3, <3>4
  <2>6. Len(h) = n /\ d \in Slices /\ Len(d) = m
    BY <1>1, <2>1, <2>3, <2>4 DEF Begins, Joins
  <2>7. Take(c, m) = d
    <3>1. Take(c, m) \in Slices /\ Len(Take(c, m)) = m /\ \A i \in 1 .. m : Take(c, m)[i] = d[i]
      BY <2>2, <2>5 DEF Begins
    <3> QED BY <2>6, <3>1, SliceEqual
  <2> QED BY <2>1, <2>3, <2>4, <2>7
<1> QED BY <1>0, <1>2, <1>3

\* The bytes behind them: the rest of the first and the second, or the rest of the
\* second.
LEMMA DropCat ==
  ASSUME NEW s \in Slices, NEW t \in Slices
  PROVE  /\ \A n \in 0 .. Len(s) : Drop(Cat(s, t), n) = Cat(Drop(s, n), t)
         /\ \A n \in 0 .. Len(t) : Drop(Cat(s, t), Len(s) + n) = Drop(t, n)
<1>0. PICK c : c = Cat(s, t) /\ Joins(c, s, t)
  BY CatFacts
<1>1. Len(s) \in Nat /\ Len(t) \in Nat /\ c \in Slices /\ Len(c) = Len(s) + Len(t)
  BY <1>0 DEF Joins
<1>2. ASSUME NEW n \in 0 .. Len(s) PROVE Drop(c, n) = Cat(Drop(s, n), t)
  <2>1. PICK m \in Nat : m = Len(c) - n /\ n \in Nat /\ n <= Len(c) /\ n <= Len(s)
    BY <1>1
  <2>2. Continues(Drop(c, n), c, n)
    BY <1>1, <2>1, TakeFacts
  <2>3. PICK h : h = Drop(s, n) /\ Continues(h, s, n)
    BY <2>1, TakeFacts
  <2>4. PICK d : d = Cat(h, t) /\ Joins(d, h, t)
    BY <2>3, CatFacts DEF Continues
  <2>5. ASSUME NEW i \in 1 .. m PROVE c[i + n] = d[i]
    <3>1. Len(h) = Len(s) - n /\ i + n \in 1 .. Len(s) + Len(t) /\ i \in 1 .. Len(h) + Len(t)
      BY <1>1, <2>1, <2>3 DEF Continues
    <3>2. c[i + n] = IF i + n <= Len(s) THEN s[i + n] ELSE t[i + n - Len(s)]
      BY <1>0, <3>1 DEF Joins
    <3>3. d[i] = IF i <= Len(h) THEN h[i] ELSE t[i - Len(h)]
      BY <2>4, <3>1 DEF Joins
    <3>4. CASE i <= Len(s) - n
      <4>1. h[i] = s[i + n] /\ i + n <= Len(s)
        BY <1>1, <2>1, <2>3, <3>4 DEF Continues
      <4> QED BY <3>1, <3>2, <3>3, <3>4, <4>1
    <3>5. CASE i > Len(s) - n
      <4>1. i + n - Len(s) = i - (Len(s) - n) /\ ~(i + n <= Len(s)) /\ ~(i <= Len(s) - n)
        BY <1>1, <2>1, <3>5
      <4> QED BY <3>1, <3>2, <3>3, <4>1
    <3> QED BY <1>1, <2>1, <3>4, <3>5
  <2>6. Len(h) = Len(s) - n /\ d \in Slices /\ Len(d) = m
    BY <1>1, <2>1, <2>3, <2>4 DEF Continues, Joins
  <2>7. Drop(c, n) = d
    <3>1. Drop(c, n) \in Slices /\ Len(Drop(c, n)) = m /\ \A i \in 1 .. m : Drop(c, n)[i] = d[i]
      BY <2>1, <2>2, <2>5 DEF Continues
    <3> QED BY <2>6, <3>1, SliceEqual
  <2> QED BY <2>3, <2>4, <2>7
<1>3. ASSUME NEW n \in 0 .. Len(t) PROVE Drop(c, Len(s) + n) = Drop(t, n)
  <2>1. PICK k \in Nat : k = Len(s) + n /\ k <= Len(c) /\ n \in Nat /\ n <= Len(t)
    BY <1>1
  <2>2. PICK m \in Nat : m = Len(c) - k /\ m = Len(t) - n
    BY <1>1, <2>1
  <2>3. Continues(Drop(c, k), c, k) /\ Continues(Drop(t, n), t, n)
    BY <1>1, <2>1, TakeFacts
  <2>4. /\ Drop(c, k) \in Slices /\ Len(Drop(c, k)) = m /\ \A i \in 1 .. m : Drop(c, k)[i] = c[i + k]
        /\ Drop(t, n) \in Slices /\ Len(Drop(t, n)) = m /\ \A i \in 1 .. m : Drop(t, n)[i] = t[i + n]
    BY <2>2, <2>3 DEF Continues
  <2>5. ASSUME NEW i \in 1 .. m PROVE c[i + k] = t[i + n]
    <3>1. i + k \in 1 .. Len(s) + Len(t) /\ ~(i + k <= Len(s)) /\ i + k - Len(s) = i + n
      BY <1>1, <2>1, <2>2
    <3> QED BY <1>0, <3>1 DEF Joins
  <2>6. Drop(c, k) = Drop(t, n)
    <3>1. \A i \in 1 .. m : Drop(c, k)[i] = Drop(t, n)[i]
      BY <2>4, <2>5
    <3> QED BY <2>4, <3>1, SliceEqual
  <2> QED BY <2>1, <2>6
<1> QED BY <1>0, <1>2, <1>3

-----------------------------------------------------------------------------
(* CopyToBuffer.                                                            *)

\* f[i] is what is copied of len bytes after i slices, for i up to n.
Copies(f, vs, len, n) ==
  f = [i \in 0 .. n |-> IF i = 0 THEN <<>> ELSE CopySlice(f[i - 1], vs[i], len)]

\* There is such a function for every n.
LEMMA CopyExists ==
  ASSUME NEW vs, NEW len, NEW n \in Nat
  PROVE  \E f : Copies(f, vs, len, n)
<1> DEFINE T == {k \in Nat : \E g : Copies(g, vs, len, k)}
<1>1. 0 \in T
  <2>1. Copies([i \in 0 .. 0 |-> <<>>], vs, len, 0)
    BY DEF Copies
  <2> QED BY <2>1
<1>2. ASSUME NEW k \in T PROVE k + 1 \in T
  <2>1. PICK g : Copies(g, vs, len, k)
    OBVIOUS
  <2> DEFINE h == [i \in 0 .. k + 1 |-> IF i <= k THEN g[i] ELSE CopySlice(g[i - 1], vs[i], len)]
  <2>2. \A i \in 0 .. k : g[i] = IF i = 0 THEN <<>> ELSE CopySlice(g[i - 1], vs[i], len)
    BY <2>1 DEF Copies
  <2>3. ASSUME NEW i \in 0 .. k + 1
        PROVE  h[i] = IF i = 0 THEN <<>> ELSE CopySlice(h[i - 1], vs[i], len)
    <3>1. CASE i = 0
      BY <2>2, <3>1
    <3>2. CASE i # 0
      <4>1. i - 1 \in 0 .. k /\ h[i - 1] = g[i - 1]
        BY <3>2
      <4>2. h[i] = CopySlice(g[i - 1], vs[i], len)
        BY <2>2, <3>2
      <4> QED BY <3>2, <4>1, <4>2
    <3> QED BY <3>1, <3>2
  <2>4. Copies(h, vs, len, k + 1)
    BY <2>3 DEF Copies
  <2> HIDE DEF h
  <2> QED BY <2>4
<1>3. T \in SUBSET Nat
  OBVIOUS
<1> HIDE DEF T
<1>4. n \in T
  BY <1>1, <1>2, <1>3, SetInduction
<1> QED BY <1>4 DEF T

\* CopyToBuffer is the last value of the function it defines.
LEMMA CopyIs ==
  ASSUME NEW b, Len(b.vs) \in Nat, NEW len
  PROVE  \E f : Copies(f, b.vs, len, Len(b.vs)) /\ CopyToBuffer(b, len) = f[Len(b.vs)]
<1>1. CopyToBuffer(b, len) = (CHOOSE f : Copies(f, b.vs, len, Len(b.vs)))[Len(b.vs)]
  BY DEF CopyToBuffer, Copies
<1>2. \E f : Copies(f, b.vs, len, Len(b.vs))
  BY CopyExists
<1>3. Copies(CHOOSE f : Copies(f, b.vs, len, Len(b.vs)), b.vs, len, Len(b.vs))
  BY <1>2, Zenon
<1> QED BY <1>1, <1>3, Zenon

\* c is what is copied of len bytes when the slices so far are s.
Copied(c, s, len) == c = IF len <= Len(s) THEN Take(s, len) ELSE s

\* One slice more is copied.
LEMMA CopyOne ==
  ASSUME NEW s \in Slices, NEW x \in Slices, NEW len \in Nat, NEW c, Copied(c, s, len)
  PROVE  Copied(CopySlice(c, x, len), Cat(s, x), len)
<1>1. Len(s) \in Nat /\ Len(x) \in Nat /\ Len(Cat(s, x)) = Len(s) + Len(x) /\ Cat(s, x) \in Slices
  BY SliceFacts
<1>2. CASE len <= Len(s)
  <2>1. c = Take(s, len) /\ Begins(c, s, len)
    BY <1>2, TakeFacts DEF Copied
  <2>2. c \in Slices /\ len - Len(c) = 0
    BY <2>1 DEF Begins
  <2>3. CopySlice(c, x, len) = Cat(c, Take(x, 0))
    BY <1>1, <2>2 DEF CopySlice, Cat, Take
  <2>4. CopySlice(c, x, len) = c
    BY <2>2, <2>3, TakeEnds, SliceFacts
  <2>5. Take(Cat(s, x), len) = Take(s, len)
    BY <1>1, <1>2, TakeCat
  <2> QED BY <1>1, <1>2, <2>1, <2>4, <2>5 DEF Copied
<1>3. CASE len > Len(s)
  <2>1. c = s
    BY <1>1, <1>3 DEF Copied
  <2>2. CASE len - Len(s) < Len(x)
    <3>1. CopySlice(c, x, len) = Cat(s, Take(x, len - Len(s)))
      BY <1>1, <2>1, <2>2 DEF CopySlice, Cat, Take
    <3>2. PICK n \in 0 .. Len(x) : n = len - Len(s)
      BY <1>1, <1>3, <2>2
    <3>3. Take(Cat(s, x), Len(s) + n) = Cat(s, Take(x, n))
      BY TakeCat
    <3>4. Len(s) + n = len /\ len <= Len(Cat(s, x))
      BY <1>1, <2>2, <3>2
    <3> QED BY <3>1, <3>2, <3>3, <3>4 DEF Copied
  <2>3. CASE len - Len(s) >= Len(x)
    <3>1. CopySlice(c, x, len) = Cat(s, Take(x, Len(x)))
      BY <1>1, <2>1, <2>3 DEF CopySlice, Cat, Take
    <3>2. CopySlice(c, x, len) = Cat(s, x)
      BY <3>1, TakeEnds
    <3>3. CASE len <= Len(Cat(s, x))
      <4>1. len = Len(Cat(s, x)) /\ Cat(s, x) \in Slices
        BY <1>1, <2>3, <3>3
      <4>2. Take(Cat(s, x), Len(Cat(s, x))) = Cat(s, x)
        BY <4>1, TakeEnds
      <4> QED BY <3>2, <4>1, <4>2 DEF Copied
    <3> QED BY <3>2, <3>3 DEF Copied
  <2> QED BY <1>1, <2>2, <2>3
<1> QED BY <1>1, <1>2, <1>3

\* CopyToBuffer copies the first len bytes, wherever the slices end.
LEMMA CopyToBufferTakes ==
  ASSUME NEW b, b.vs \in Seq(Slices), NEW len \in Nat, len <= Len(FlattenSeq(b.vs))
  PROVE  CopyToBuffer(b, len) = Take(FlattenSeq(b.vs), len)
<1> DEFINE vs == b.vs
           n == Len(b.vs)
<1>1. n \in Nat /\ \A i \in 1 .. n : vs[i] \in Slices
  OBVIOUS
<1>2. PICK f : Copies(f, vs, len, n) /\ CopyToBuffer(b, len) = f[n]
  BY <1>1, CopyIs
<1>3. CASE n = 0
  <2>1. FlattenSeq(vs) = <<>>
    BY <1>3 DEF FlattenSeq
  <2>2. f[n] = <<>>
    BY <1>2, <1>3 DEF Copies
  <2>3. len = 0
    BY <2>1, SliceFacts
  <2> QED BY <1>2, <2>1, <2>2, <2>3, TakeEnds, SliceFacts
<1>4. CASE n # 0
  <2> HIDE DEF vs, n
  <2>1. PICK g : Flattens(g, vs, n) /\ FlattenSeq(vs) = g[n]
    BY <1>1, <1>4, FlattenSeqIs DEF vs, n
  <2> DEFINE T == {k \in Nat : k + 1 <= n => g[k + 1] \in Slices /\ Copied(f[k + 1], g[k + 1], len)}
  <2>2. /\ g[1] = vs[1]
        /\ \A i \in 2 .. n : g[i] = Cat(g[i - 1], vs[i])
        /\ f[0] = <<>>
        /\ \A i \in 1 .. n : f[i] = CopySlice(f[i - 1], vs[i], len)
    BY <1>1, <1>2, <1>4, <2>1 DEF Copies, Flattens
  <2>3. 0 \in T
    <3>1. vs[1] \in Slices /\ <<>> \in Slices
      BY <1>1, <1>4, SliceFacts
    <3>2. Copied(<<>>, <<>>, len)
      <4>1. Take(<<>>, 0) = <<>> /\ Len(<<>>) = 0
        BY <3>1, TakeEnds, SliceFacts
      <4> QED BY <4>1 DEF Copied
    <3>3. f[1] = CopySlice(<<>>, vs[1], len)
      <4>1. 1 \in 1 .. n /\ 1 - 1 = 0
        BY <1>1, <1>4
      <4> QED BY <2>2, <4>1
    <3>4. Copied(f[1], Cat(<<>>, vs[1]), len)
      BY <3>1, <3>2, <3>3, CopyOne
    <3>5. Cat(<<>>, vs[1]) = vs[1]
      BY <3>1, SliceFacts
    <3> QED BY <2>2, <3>1, <3>4, <3>5
  <2>4. ASSUME NEW k \in T PROVE k + 1 \in T
    <3> SUFFICES ASSUME k + 2 <= n PROVE g[k + 2] \in Slices /\ Copied(f[k + 2], g[k + 2], len)
      OBVIOUS
    <3>1. k \in Nat /\ g[k + 1] \in Slices /\ Copied(f[k + 1], g[k + 1], len)
      BY <1>1
    <3>2. k + 2 \in 2 .. n /\ k + 2 \in 1 .. n /\ (k + 2) - 1 = k + 1
      BY <1>1, <3>1
    <3>3. g[k + 2] = Cat(g[k + 1], vs[k + 2]) /\ f[k + 2] = CopySlice(f[k + 1], vs[k + 2], len)
      BY <2>2, <3>2
    <3>4. vs[k + 2] \in Slices
      BY <1>1, <3>2
    <3> HIDE DEF T
    <3>5. Copied(CopySlice(f[k + 1], vs[k + 2], len), Cat(g[k + 1], vs[k + 2]), len)
      BY <3>1, <3>4, CopyOne
    <3>6. Cat(g[k + 1], vs[k + 2]) \in Slices
      BY <3>1, <3>4, SliceFacts
    <3> QED BY <3>3, <3>5, <3>6
  <2>5. T \in SUBSET Nat
    OBVIOUS
  <2> HIDE DEF T
  <2>6. n - 1 \in T
    BY <1>1, <1>4, <2>3, <2>4, <2>5, SetInduction
  <2>7. g[n] \in Slices /\ Copied(f[n], g[n], len)
    BY <1>1, <1>4, <2>6 DEF T
  <2>8. f[n] = Take(g[n], len)
    BY <2>1, <2>7 DEF Copied, vs
  <2> QED BY <1>2, <2>1, <2>8 DEF vs
<1> QED BY <1>3, <1>4

-----------------------------------------------------------------------------
(* MoveHeader.                                                              *)

\* f[i] is what is left, and left to remove, after i calls, for i up to n.
Moves(f, vs, len, n) ==
  f = [i \in 0 .. n |-> IF i = 0 THEN [vs |-> vs, len |-> len] ELSE MoveFront(f[i - 1])]

\* There is such a function for every n.
LEMMA MoveExists ==
  ASSUME NEW vs, NEW len, NEW n \in Nat
  PROVE  \E f : Moves(f, vs, len, n)
<1> DEFINE T == {k \in Nat : \E g : Moves(g, vs, len, k)}
           first == [vs |-> vs, len |-> len]
<1> HIDE DEF first
<1>1. 0 \in T
  <2>1. Moves([i \in 0 .. 0 |-> first], vs, len, 0)
    BY DEF Moves, first
  <2> QED BY <2>1
<1>2. ASSUME NEW k \in T PROVE k + 1 \in T
  <2>1. PICK g : Moves(g, vs, len, k)
    OBVIOUS
  <2> DEFINE h == [i \in 0 .. k + 1 |-> IF i <= k THEN g[i] ELSE MoveFront(g[i - 1])]
  <2>2. \A i \in 0 .. k : g[i] = IF i = 0 THEN first ELSE MoveFront(g[i - 1])
    BY <2>1 DEF Moves, first
  <2>3. ASSUME NEW i \in 0 .. k + 1
        PROVE  h[i] = IF i = 0 THEN first ELSE MoveFront(h[i - 1])
    <3>1. CASE i = 0
      BY <2>2, <3>1
    <3>2. CASE i # 0
      <4>1. i - 1 \in 0 .. k /\ h[i - 1] = g[i - 1]
        BY <3>2
      <4>2. h[i] = MoveFront(g[i - 1])
        BY <2>2, <3>2
      <4> QED BY <3>2, <4>1, <4>2
    <3> QED BY <3>1, <3>2
  <2>4. Moves(h, vs, len, k + 1)
    BY <2>3 DEF Moves, first
  <2> HIDE DEF h
  <2> QED BY <2>4
<1>3. T \in SUBSET Nat
  OBVIOUS
<1> HIDE DEF T
<1>4. n \in T
  BY <1>1, <1>2, <1>3, SetInduction
<1> QED BY <1>4 DEF T

\* MoveHeader takes the slices from the last value of the function it defines.
LEMMA MoveIs ==
  ASSUME NEW b, Len(b.vs) \in Nat, NEW len, ~(b.length < len)
  PROVE  \E f : /\ Moves(f, b.vs, len, Len(b.vs))
                /\ MoveHeader(b, len) = [vs |-> f[Len(b.vs)].vs, length |-> b.length - len]
<1>1. MoveHeader(b, len) = [vs |-> (CHOOSE f : Moves(f, b.vs, len, Len(b.vs)))[Len(b.vs)].vs,
                            length |-> b.length - len]
  BY DEF MoveHeader, Moves
<1>2. \E f : Moves(f, b.vs, len, Len(b.vs))
  BY MoveExists
<1>3. Moves(CHOOSE f : Moves(f, b.vs, len, Len(b.vs)), b.vs, len, Len(b.vs))
  BY <1>2, Zenon
<1> QED BY <1>1, <1>3, Zenon

\* After n rounds r is left of the slices vs and of len.
Moved(r, vs, len, n) ==
  /\ r.vs \in Seq(Slices)
  /\ r.len \in Nat /\ r.len <= Len(FlattenSeq(r.vs))
  /\ Drop(FlattenSeq(r.vs), r.len) = Drop(FlattenSeq(vs), len)
  /\ r.len = 0 \/ Len(r.vs) = Len(vs) - n

\* The slices with their first one made shorter.
LEMMA FlattenCons ==
  ASSUME NEW vs \in Seq(Slices), NEW x \in Slices
  PROVE  /\ <<x>> \o vs \in Seq(Slices)
         /\ Len(<<x>> \o vs) = Len(vs) + 1
         /\ FlattenSeq(<<x>> \o vs) = Cat(x, FlattenSeq(vs))
<1>0. <<x>> \in Seq(Slices) /\ Len(<<x>>) = 1 /\ <<x>>[1] = x
  OBVIOUS
<1>1. PICK ws : ws = <<x>> \o vs
  OBVIOUS
<1>2. ws \in Seq(Slices) /\ Len(ws) = Len(vs) + 1 /\ Len(vs) \in Nat
  BY <1>0, <1>1, ConcatProperties, LenProperties
<1>3. \A i \in 1 .. Len(vs) + 1 : ws[i] = IF i <= 1 THEN <<x>>[i] ELSE vs[i - 1]
  BY <1>0, <1>1, <1>2, ConcatProperties
<1>4. ws # <<>> /\ Head(ws) = x
  BY <1>0, <1>2, <1>3
<1>5. Tail(ws) \in Seq(Slices) /\ Len(Tail(ws)) = Len(vs) /\ \A i \in 1 .. Len(vs) : Tail(ws)[i] = vs[i]
  BY <1>2, <1>3, <1>4, HeadTailProperties
<1>6. Tail(ws) = vs
  BY <1>5, SeqEqual
<1> QED BY <1>1, <1>2, <1>4, <1>6, FlattenHead

\* One call more erases the first slice, or makes it shorter and ends.
LEMMA MoveOne ==
  ASSUME NEW r, NEW vs \in Seq(Slices), NEW len, NEW n \in Nat, n < Len(vs), Moved(r, vs, len, n)
  PROVE  Moved(MoveFront(r), vs, len, n + 1)
<1>1. CASE r.len = 0
  BY <1>1 DEF Moved, MoveFront
<1>2. CASE r.len # 0
  <2>0. Len(vs) \in Nat
    OBVIOUS
  <2>1. PICK us : us = r.vs
    OBVIOUS
  <2>2. PICK l : l = r.len
    OBVIOUS
  <2>3. /\ us \in Seq(Slices) /\ l \in Nat \ {0} /\ l <= Len(FlattenSeq(us))
        /\ Drop(FlattenSeq(us), l) = Drop(FlattenSeq(vs), len) /\ Len(us) = Len(vs) - n
    BY <1>2, <2>1, <2>2 DEF Moved
  <2>4. us # <<>>
    BY <2>0, <2>3
  <2>5. PICK x, ws : x = Head(us) /\ ws = Tail(us)
    OBVIOUS
  <2>6. x \in Slices /\ ws \in Seq(Slices) /\ Len(ws) = Len(us) - 1
    BY <2>3, <2>4, <2>5, HeadTailProperties
  <2>7. PICK s : s = FlattenSeq(ws)
    OBVIOUS
  <2>8. s \in Slices /\ FlattenSeq(us) = Cat(x, s)
    BY <2>3, <2>4, <2>5, <2>6, <2>7, FlattenType, FlattenHead
  <2>9. Len(x) \in Nat /\ Len(s) \in Nat /\ Len(Cat(x, s)) = Len(x) + Len(s)
    BY <2>6, <2>8, SliceFacts
  <2>10. CASE Len(x) > l
    <3>1. MoveFront(r) = [vs |-> <<Drop(x, l)>> \o ws, len |-> 0]
      BY <1>2, <2>1, <2>2, <2>5, <2>10 DEF MoveFront, DropFront, Drop
    <3>2. PICK d : d = Drop(x, l)
      OBVIOUS
    <3>3. d \in Slices /\ Drop(Cat(x, s), l) = Cat(d, s)
      <4>1. Continues(d, x, l)
        BY <2>3, <2>6, <2>9, <2>10, <3>2, TakeFacts
      <4>2. l \in 0 .. Len(x)
        BY <2>3, <2>9, <2>10
      <4> QED BY <2>6, <2>8, <3>2, <4>1, <4>2, DropCat DEF Continues
    <3>4. PICK ys : ys = <<d>> \o ws
      OBVIOUS
    <3>5. ys \in Seq(Slices) /\ FlattenSeq(ys) = Cat(d, s)
      BY <2>6, <2>7, <3>3, <3>4, FlattenCons
    <3>6. Cat(d, s) \in Slices
      BY <2>8, <3>3, SliceFacts
    <3>7. Drop(Cat(d, s), 0) = Cat(d, s) /\ Len(Cat(d, s)) \in Nat
      BY <3>6, TakeEnds, SliceFacts
    <3>8. MoveFront(r).vs = ys /\ MoveFront(r).len = 0
      BY <3>1, <3>2, <3>4
    <3> QED BY <2>3, <2>8, <3>3, <3>5, <3>7, <3>8 DEF Moved
  <2>11. CASE Len(x) <= l
    <3>1. MoveFront(r).vs = ws /\ MoveFront(r).len = l - Len(x)
      <4>1. ~(Len(x) > l)
        BY <2>3, <2>9, <2>11
      <4>2. MoveFront(r) = [vs |-> ws, len |-> l - Len(x)]
        BY <1>2, <2>1, <2>2, <2>5, <4>1 DEF MoveFront
      <4> QED BY <4>2
    <3>2. PICK k \in 0 .. Len(s) : k = l - Len(x) /\ Len(x) + k = l
      <4>1. l <= Len(x) + Len(s) /\ l \in Nat
        BY <2>3, <2>8, <2>9
      <4>2. l - Len(x) \in 0 .. Len(s) /\ Len(x) + (l - Len(x)) = l
        BY <2>9, <2>11, <4>1
      <4> QED BY <4>2
    <3>3. Drop(Cat(x, s), Len(x) + k) = Drop(s, k)
      BY <2>6, <2>8, DropCat
    <3>4. k \in Nat /\ k <= Len(s) /\ Len(ws) = Len(vs) - (n + 1)
      BY <2>0, <2>3, <2>6, <2>9
    <3> QED BY <2>3, <2>6, <2>7, <2>8, <3>1, <3>2, <3>3, <3>4 DEF Moved
  <2> QED BY <2>3, <2>9, <2>10, <2>11
<1> QED BY <1>1, <1>2

\* MoveHeader removes the first len bytes, wherever the slices end.
LEMMA MoveHeaderDrops ==
  ASSUME NEW b, b.vs \in Seq(Slices), b.length = Len(FlattenSeq(b.vs)), NEW len \in Nat, len <= b.length
  PROVE  /\ MoveHeader(b, len).vs \in Seq(Slices)
         /\ MoveHeader(b, len).length = b.length - len
         /\ FlattenSeq(MoveHeader(b, len).vs) = Drop(FlattenSeq(b.vs), len)
<1>0. PICK vs, n : vs = b.vs /\ n = Len(b.vs)
  OBVIOUS
<1>1. vs \in Seq(Slices) /\ n = Len(vs) /\ n \in Nat /\ FlattenSeq(vs) \in Slices
  BY <1>0, FlattenType
<1>2. Len(FlattenSeq(vs)) \in Nat /\ len <= Len(FlattenSeq(vs)) /\ ~(b.length < len)
  BY <1>0, <1>1, SliceFacts
<1>3. PICK f : Moves(f, vs, len, n) /\ MoveHeader(b, len) = [vs |-> f[n].vs, length |-> b.length - len]
  BY <1>0, <1>1, <1>2, MoveIs
<1>4. f[0] = [vs |-> vs, len |-> len] /\ \A i \in 1 .. n : f[i] = MoveFront(f[i - 1])
  <2>1. PICK r : r = [vs |-> vs, len |-> len]
    OBVIOUS
  <2>2. f = [i \in 0 .. n |-> IF i = 0 THEN r ELSE MoveFront(f[i - 1])]
    BY <1>3, <2>1 DEF Moves
  <2>3. f[0] = r /\ \A i \in 1 .. n : f[i] = MoveFront(f[i - 1])
    BY <1>1, <2>2
  <2> QED BY <2>1, <2>3
<1> DEFINE T == {k \in Nat : k <= n => Moved(f[k], vs, len, k)}
<1>5. 0 \in T
  BY <1>1, <1>2, <1>4 DEF Moved
<1>6. ASSUME NEW k \in T PROVE k + 1 \in T
  <2> SUFFICES ASSUME k + 1 <= n PROVE Moved(f[k + 1], vs, len, k + 1)
    OBVIOUS
  <2>1. k \in Nat /\ k < Len(vs) /\ Moved(f[k], vs, len, k)
    BY <1>1
  <2>2. f[k + 1] = MoveFront(f[k])
    <3>1. k + 1 \in 1 .. n /\ (k + 1) - 1 = k
      BY <1>1, <2>1
    <3> QED BY <1>4, <3>1
  <2> HIDE DEF T
  <2> QED BY <1>1, <2>1, <2>2, MoveOne
<1>7. T \in SUBSET Nat
  OBVIOUS
<1> HIDE DEF T
<1>8. Moved(f[n], vs, len, n)
  <2>1. n \in T
    BY <1>1, <1>5, <1>6, <1>7, SetInduction
  <2> QED BY <1>1, <2>1 DEF T
<1>9. PICK us, l : us = f[n].vs /\ l = f[n].len
  OBVIOUS
<1>10. /\ us \in Seq(Slices) /\ l \in Nat /\ l <= Len(FlattenSeq(us))
       /\ Drop(FlattenSeq(us), l) = Drop(FlattenSeq(vs), len) /\ (l = 0 \/ Len(us) = 0)
  BY <1>1, <1>8, <1>9 DEF Moved
<1>11. l = 0
  <2>1. CASE Len(us) = 0
    <3>1. us = <<>>
      BY <1>10, <2>1, EmptySeq
    <3>2. FlattenSeq(<<>>) = <<>>
      BY DEF FlattenSeq
    <3>3. Len(FlattenSeq(us)) = 0
      BY <3>1, <3>2, SliceFacts
    <3> QED BY <1>10, <3>3
  <2> QED BY <1>10, <2>1
<1>12. FlattenSeq(us) = Drop(FlattenSeq(us), 0)
  BY <1>10, FlattenType, TakeEnds
<1>13. MoveHeader(b, len).vs = us /\ MoveHeader(b, len).length = b.length - len
  BY <1>3, <1>9
<1> QED BY <1>0, <1>10, <1>11, <1>12, <1>13

-----------------------------------------------------------------------------
(* What a buffer holds.                                                     *)

\* b is a buffer of the bytes s, and its length is their number.
Holds(b, s) ==
  /\ b.vs \in Seq(Slices)
  /\ FlattenSeq(b.vs) = s
  /\ b.length = Len(s)

\* The length of a buffer is the number of its bytes, and only a buffer with slices
\* has any.
LEMMA HoldsFacts ==
  ASSUME NEW b, NEW s, Holds(b, s)
  PROVE  /\ s \in Slices /\ Len(s) \in Nat /\ b.length = Len(s) /\ Merge(b) = s
         /\ s # <<>> => b.vs # <<>>
<1>1. s \in Slices
  BY FlattenType DEF Holds
<1>2. b.vs = <<>> => s = <<>>
  BY DEF Holds, FlattenSeq
<1> QED BY <1>1, <1>2, SliceFacts DEF Holds, Merge

\* A new or cleared buffer holds nothing.
LEMMA HoldsEmpty == Holds(EmptyBuffer, <<>>)
<1>1. FlattenSeq(<<>>) = <<>> /\ Len(<<>>) = 0 /\ <<>> \in Seq(Slices)
  BY DEF FlattenSeq
<1>2. EmptyBuffer.vs = <<>> /\ EmptyBuffer.length = 0
  BY DEF EmptyBuffer
<1> QED BY <1>1, <1>2 DEF Holds

\* AddSlice puts a slice behind what the buffer holds.
LEMMA HoldsAdd ==
  ASSUME NEW b, NEW s, Holds(b, s), NEW x \in Slices
  PROVE  Holds(AddSlice(b, x), Cat(s, x))
<1>1. b.vs \in Seq(Slices) /\ FlattenSeq(b.vs) = s /\ b.length = Len(s) /\ s \in Slices
  BY FlattenType DEF Holds
<1>2. AddSlice(b, x).vs = Append(b.vs, x) /\ AddSlice(b, x).length = b.length + Len(x)
  BY DEF AddSlice
<1>3. Append(b.vs, x) \in Seq(Slices) /\ FlattenSeq(Append(b.vs, x)) = Cat(s, x)
  BY <1>1, FlattenAppend, AppendProperties
<1>4. Len(Cat(s, x)) = Len(s) + Len(x)
  BY <1>1, SliceFacts
<1> QED BY <1>1, <1>2, <1>3, <1>4 DEF Holds

\* MoveHeader removes the first n bytes, and nothing if there are fewer.
LEMMA HoldsMove ==
  ASSUME NEW b, NEW s, Holds(b, s), NEW n \in Nat
  PROVE  /\ n <= Len(s) => Holds(MoveHeader(b, n), Drop(s, n))
         /\ n > Len(s) => MoveHeader(b, n) = b
<1>1. b.vs \in Seq(Slices) /\ FlattenSeq(b.vs) = s /\ b.length = Len(s) /\ s \in Slices /\ Len(s) \in Nat
  BY FlattenType, SliceFacts DEF Holds
<1>2. ASSUME n <= Len(s) PROVE Holds(MoveHeader(b, n), Drop(s, n))
  <2>1. /\ MoveHeader(b, n).vs \in Seq(Slices)
        /\ MoveHeader(b, n).length = b.length - n
        /\ FlattenSeq(MoveHeader(b, n).vs) = Drop(FlattenSeq(b.vs), n)
    BY <1>1, <1>2, MoveHeaderDrops
  <2>2. Continues(Drop(s, n), s, n)
    BY <1>1, <1>2, TakeFacts
  <2> QED BY <1>1, <2>1, <2>2 DEF Holds, Continues
<1>3. ASSUME n > Len(s) PROVE MoveHeader(b, n) = b
  BY <1>1, <1>3 DEF MoveHeader
<1> QED BY <1>2, <1>3

\* GetHeader returns the first n bytes, and nothing if there are fewer.
LEMMA HoldsGet ==
  ASSUME NEW b, NEW s, Holds(b, s), NEW n \in Nat
  PROVE  GetHeader(b, n) = IF n <= Len(s) THEN Take(s, n) ELSE <<>>
<1>1. b.vs \in Seq(Slices) /\ FlattenSeq(b.vs) = s /\ b.length = Len(s) /\ s \in Slices /\ Len(s) \in Nat
  BY FlattenType, SliceFacts DEF Holds
<1>2. CASE n = 0
  BY <1>1, <1>2, TakeEnds DEF GetHeader
<1>3. CASE n > Len(s)
  BY <1>1, <1>3 DEF GetHeader
<1>4. CASE n # 0 /\ n <= Len(s)
  <2>1. CopyToBuffer(b, n) = Take(FlattenSeq(b.vs), n)
    BY <1>1, <1>4, CopyToBufferTakes
  <2>2. ~(n = 0 \/ b.length < n)
    BY <1>1, <1>4
  <2> QED BY <1>1, <1>4, <2>1, <2>2 DEF GetHeader
<1> QED BY <1>1, <1>2, <1>3, <1>4

\* PopFront removes the bytes of the first slice, which are the first of the buffer.
LEMMA HoldsPopFront ==
  ASSUME NEW b, NEW s, Holds(b, s), b.vs # <<>>
  PROVE  /\ Head(b.vs) \in Slices /\ Len(Head(b.vs)) <= Len(s)
         /\ Holds(PopFront(b), Drop(s, Len(Head(b.vs))))
         /\ \A n \in 0 .. Len(Head(b.vs)) : Take(Head(b.vs), n) = Take(s, n)
<1>0. PICK vs, x, ws, r : vs = b.vs /\ x = Head(vs) /\ ws = Tail(vs) /\ r = FlattenSeq(ws)
  OBVIOUS
<1>1. vs \in Seq(Slices) /\ FlattenSeq(vs) = s /\ b.length = Len(s) /\ vs # <<>>
  BY <1>0 DEF Holds
<1>2. x \in Slices /\ ws \in Seq(Slices)
  BY <1>0, <1>1, HeadTailProperties
<1>3. r \in Slices /\ s = Cat(x, r)
  BY <1>0, <1>1, <1>2, FlattenType, FlattenHead
<1>4. Len(x) \in Nat /\ Len(r) \in Nat /\ Len(s) = Len(x) + Len(r)
  BY <1>2, <1>3, SliceFacts
<1>5. \A n \in 0 .. Len(x) : Take(x, n) = Take(s, n)
  BY <1>2, <1>3, TakeCat
<1>6. Drop(s, Len(x)) = r
  <2>1. 0 \in 0 .. Len(r) /\ Len(x) + 0 = Len(x)
    BY <1>4
  <2>2. Drop(s, Len(x) + 0) = Drop(r, 0)
    BY <1>2, <1>3, <2>1, DropCat
  <2> QED BY <1>3, <2>1, <2>2, TakeEnds
<1>7. PopFront(b).vs = ws /\ PopFront(b).length = Len(s) - Len(x)
  BY <1>0, <1>1 DEF PopFront
<1>8. Holds(PopFront(b), r)
  BY <1>0, <1>2, <1>4, <1>7 DEF Holds
<1>9. Len(x) <= Len(s)
  BY <1>4
<1> QED BY <1>0, <1>2, <1>5, <1>6, <1>8, <1>9

\* PopBack removes the bytes of the last slice.
LEMMA HoldsPopBack ==
  ASSUME NEW b, NEW s, Holds(b, s), b.vs # <<>>
  PROVE  /\ Last(b.vs) \in Slices /\ Len(Last(b.vs)) <= Len(s)
         /\ Holds(PopBack(b), Take(s, Len(s) - Len(Last(b.vs))))
<1>0. PICK vs : vs = b.vs
  OBVIOUS
<1>1. vs \in Seq(Slices) /\ FlattenSeq(vs) = s /\ b.length = Len(s) /\ vs # <<>>
  BY <1>0 DEF Holds
<1>2. PICK us \in Seq(Slices), x \in Slices : SplitsInto(vs, us, x)
  <2>1. Len(vs) # 0
    BY <1>1
  <2> QED BY <1>1, <2>1, SplitLast
<1>3. vs = Append(us, x) /\ Len(us) = Len(vs) - 1
  BY <1>2 DEF SplitsInto
<1>4. Last(vs) = x
  <2>1. /\ Len(Append(us, x)) = Len(us) + 1 /\ Append(us, x)[Len(us) + 1] = x
    BY AppendProperties
  <2> QED BY <1>3, <2>1 DEF Last
<1>5. Front(vs) = us
  <2>0. /\ Len(vs) = Len(us) + 1 /\ Len(us) \in Nat /\ \A i \in 1 .. Len(us) : vs[i] = us[i]
    BY <1>3, AppendProperties, LenProperties
  <2>1. PICK k \in Nat : k = Len(us) /\ Len(vs) - 1 = k
    BY <2>0
  <2>2. \A i \in 1 .. k : vs[i] \in Slices
    BY <1>1, <2>0, <2>1
  <2>3. /\ SubSeq(vs, 1, k) \in Seq(Slices)
        /\ Len(SubSeq(vs, 1, k)) = IF 1 <= k THEN k - 1 + 1 ELSE 0
        /\ \A i \in 1 .. k - 1 + 1 : SubSeq(vs, 1, k)[i] = vs[1 + i - 1]
    <3>1. 1 \in Int /\ k \in Int
      OBVIOUS
    <3> QED BY <2>2, <3>1, SubSeqProperties
  <2>4. /\ Len(SubSeq(vs, 1, k)) = Len(us) /\ \A i \in 1 .. Len(us) : SubSeq(vs, 1, k)[i] = us[i]
    BY <2>0, <2>1, <2>3
  <2>5. SubSeq(vs, 1, k) = us
    BY <2>3, <2>4, SeqEqual
  <2> QED BY <2>1, <2>5 DEF Front
<1>6. PICK r : r = FlattenSeq(us) /\ r \in Slices /\ s = Cat(r, x)
  BY <1>1, <1>3, FlattenType, FlattenAppend
<1>7. Len(x) \in Nat /\ Len(r) \in Nat /\ Len(s) = Len(r) + Len(x)
  BY <1>6, SliceFacts
<1>8. Take(s, Len(r)) = r
  <2>1. Len(r) \in 0 .. Len(r)
    BY <1>7
  <2>2. Take(s, Len(r)) = Take(r, Len(r))
    BY <1>6, <2>1, TakeCat
  <2> QED BY <1>6, <2>2, TakeEnds
<1>9. PopBack(b).vs = us /\ PopBack(b).length = Len(s) - Len(x)
  BY <1>0, <1>1, <1>4, <1>5 DEF PopBack
<1>10. Len(s) - Len(x) = Len(r) /\ Len(x) <= Len(s)
  BY <1>7
<1>11. Holds(PopBack(b), r)
  BY <1>6, <1>9, <1>10 DEF Holds
<1> QED BY <1>0, <1>4, <1>8, <1>10, <1>11

-----------------------------------------------------------------------------
(* Runs of numbered bytes.                                                  *)

\* s is the n numbers after a.
Numbers(s, a, n) == s \in Slices /\ Len(s) = n /\ \A i \in 1 .. n : s[i] = a + i

\* Bytes are the numbers after a.
LEMMA BytesFacts ==
  ASSUME NEW a \in Nat, NEW n \in Nat
  PROVE  Numbers(Bytes(a, n), a, n)
  BY DEF Bytes, Slices, Numbers

\* Two runs of numbers, one behind the other, are one.
LEMMA BytesCat ==
  ASSUME NEW a \in Nat, NEW m \in Nat, NEW n \in Nat
  PROVE  Cat(Bytes(a, m), Bytes(a + m, n)) = Bytes(a, m + n)
<1>1. PICK s, t, u : s = Bytes(a, m) /\ t = Bytes(a + m, n) /\ u = Bytes(a, m + n)
  OBVIOUS
<1>2. /\ s \in Slices /\ Len(s) = m /\ \A i \in 1 .. m : s[i] = a + i
      /\ t \in Slices /\ Len(t) = n /\ \A i \in 1 .. n : t[i] = (a + m) + i
      /\ u \in Slices /\ Len(u) = m + n /\ \A i \in 1 .. m + n : u[i] = a + i
  <2>1. a + m \in Nat /\ m + n \in Nat
    OBVIOUS
  <2>2. Numbers(s, a, m) /\ Numbers(t, a + m, n) /\ Numbers(u, a, m + n)
    BY <1>1, <2>1, BytesFacts
  <2> QED BY <2>2 DEF Numbers
<1>3. PICK c : c = Cat(s, t) /\ Joins(c, s, t)
  BY <1>2, CatFacts
<1>4. c \in Slices /\ Len(c) = m + n
  BY <1>2, <1>3 DEF Joins
<1>5. ASSUME NEW i \in 1 .. m + n PROVE c[i] = u[i]
  <2>1. c[i] = IF i <= m THEN s[i] ELSE t[i - m]
    BY <1>2, <1>3 DEF Joins
  <2>2. i > m => i - m \in 1 .. n /\ (a + m) + (i - m) = a + i
    OBVIOUS
  <2> QED BY <1>2, <2>1, <2>2
<1>6. m + n \in Nat
  OBVIOUS
<1>7. c = u
  BY <1>2, <1>4, <1>5, <1>6, SliceEqual
<1> QED BY <1>1, <1>3, <1>7

\* A run of numbers cut in two is two runs.
LEMMA BytesCut ==
  ASSUME NEW a \in Nat, NEW n \in Nat, NEW k \in Nat, k <= n
  PROVE  Take(Bytes(a, n), k) = Bytes(a, k) /\ Drop(Bytes(a, n), k) = Bytes(a + k, n - k)
<1>1. PICK m \in Nat : m = n - k /\ n = k + m
  <2>1. n - k \in Nat /\ n = k + (n - k)
    OBVIOUS
  <2> QED BY <2>1
<1>2. PICK s, t : s = Bytes(a, k) /\ t = Bytes(a + k, m) /\ Cat(s, t) = Bytes(a, n)
  BY <1>1, BytesCat
<1>3. s \in Slices /\ Len(s) = k /\ t \in Slices /\ Len(t) = m
  <2>1. a + k \in Nat
    OBVIOUS
  <2>2. Numbers(s, a, k) /\ Numbers(t, a + k, m)
    BY <1>2, <2>1, BytesFacts
  <2> QED BY <2>2 DEF Numbers
<1>4. Take(Cat(s, t), k) = Take(s, k) /\ Take(s, k) = s
  <2>1. k \in 0 .. Len(s)
    BY <1>3
  <2> QED BY <1>3, <2>1, TakeCat, TakeEnds
<1>5. Drop(Cat(s, t), k) = t
  <2>1. 0 \in 0 .. Len(t) /\ k + 0 = k
    BY <1>3
  <2>2. Drop(Cat(s, t), k + 0) = Drop(t, 0)
    BY <1>3, <2>1, DropCat
  <2> QED BY <1>3, <2>1, <2>2, TakeEnds
<1> QED BY <1>1, <1>2, <1>4, <1>5

\* The slices del are the first g bytes, and more are they and the n after them.
First(del, g) == del \in Seq(Slices) /\ FlattenSeq(del) = Bytes(0, g)
Longer(more, del, g, n) ==
    /\ more \in Seq(Slices) /\ Len(more) = Len(del) + 1
    /\ FlattenSeq(more) = Bytes(0, g + n) /\ Len(FlattenSeq(more)) = g + n
    /\ \A i \in 1 .. Len(del) : more[i] = del[i]
    /\ more[Len(del) + 1] = Bytes(g, n)

\* One more slice is delivered.
LEMMA DeliverOne ==
  ASSUME NEW del, NEW g \in Nat, First(del, g), NEW n \in Nat
  PROVE  Longer(Append(del, Bytes(g, n)), del, g, n)
<1>0. PICK more : more = Append(del, Bytes(g, n))
  OBVIOUS
<1>1. PICK x : x = Bytes(g, n)
  OBVIOUS
<1>2. x \in Slices
  BY <1>1, BytesFacts DEF Numbers
<1>3. FlattenSeq(more) = Cat(Bytes(0, g), x)
  BY <1>0, <1>1, <1>2, FlattenAppend DEF First
<1>4. Cat(Bytes(0, g), Bytes(0 + g, n)) = Bytes(0, g + n) /\ 0 + g = g
  BY BytesCat
<1>5. FlattenSeq(more) = Bytes(0, g + n)
  BY <1>1, <1>3, <1>4
<1>6. Len(Bytes(0, g + n)) = g + n
  <2>1. g + n \in Nat
    OBVIOUS
  <2> QED BY <2>1, BytesFacts DEF Numbers
<1>7. /\ more \in Seq(Slices) /\ Len(more) = Len(del) + 1 /\ more[Len(del) + 1] = x
      /\ \A i \in 1 .. Len(del) : more[i] = del[i]
  BY <1>0, <1>1, <1>2, AppendProperties DEF First
<1>8. Longer(more, del, g, n)
  BY <1>1, <1>5, <1>6, <1>7 DEF Longer
<1> QED BY <1>0, <1>8

\* The last number of a set that is not empty and has a bound.
LEMMA LargestNat ==
  ASSUME NEW n \in Nat, NEW T \in SUBSET (0 .. n), T # {}
  PROVE  \E m \in T : \A k \in T : m >= k
<1> DEFINE U == {i \in Nat : n - i \in T}
<1>1. U \in SUBSET Nat /\ \A k \in T : n - k \in U
  OBVIOUS
<1>2. U # {}
  BY <1>1
<1>3. PICK i \in U : \A j \in U : i <= j
  BY <1>1, <1>2, SmallestNat
<1>4. n - i \in T /\ \A k \in T : n - i >= k
  <2>1. i \in Nat /\ n - i \in T
    BY <1>3
  <2>2. ASSUME NEW k \in T PROVE n - i >= k
    <3>1. n - k \in U /\ k \in 0 .. n
      BY <1>1
    <3>2. i <= n - k
      BY <1>3, <3>1
    <3> QED BY <2>1, <3>1, <3>2
  <2> QED BY <2>1, <2>2
<1> QED BY <1>4

\* The first k slices are the first bytes.
LEMMA FlattenFront ==
  ASSUME NEW vs \in Seq(Slices), NEW k \in 0 .. Len(vs)
  PROVE  \E m \in Nat : /\ m <= Len(FlattenSeq(vs))
                        /\ FlattenSeq(SubSeq(vs, 1, k)) = Take(FlattenSeq(vs), m)
<1>1. PICK n \in Nat : n = Len(vs)
  BY LenProperties
<1>2. PICK s : s = FlattenSeq(vs) /\ s \in Slices /\ Len(s) \in Nat
  BY FlattenType, SliceFacts
<1>3. CASE k = 0
  <2>1. SubSeq(vs, 1, 0) = <<>> /\ FlattenSeq(<<>>) = <<>>
    BY DEF FlattenSeq
  <2>2. Take(s, 0) = <<>>
    BY <1>2, TakeEnds
  <2>3. 0 \in Nat /\ 0 <= Len(s)
    BY <1>2
  <2>4. SubSeq(vs, 1, k) = SubSeq(vs, 1, 0)
    BY <1>3
  <2>5. FlattenSeq(SubSeq(vs, 1, k)) = Take(s, 0)
    BY <2>1, <2>2, <2>4, Zenon
  <2> QED BY <1>2, <2>3, <2>5
<1>4. CASE k # 0
  <2>1. k \in 1 .. n /\ k \in Nat
    BY <1>1, <1>4
  <2>2. PICK us : us = SubSeq(vs, 1, k)
    OBVIOUS
  <2>3. us \in Seq(Slices) /\ Len(us) = k /\ \A i \in 1 .. k : us[i] = vs[i]
    BY <1>1, <2>1, <2>2, SubSeqProperties
  <2>4. PICK f : Flattens(f, vs, n) /\ s = f[n]
    BY <1>1, <1>2, <2>1, FlattenSeqIs
  <2>5. PICK g : Flattens(g, us, k) /\ FlattenSeq(us) = g[k]
    BY <2>1, <2>3, FlattenSeqIs
  <2>6. g[k] = f[k]
    BY <2>1, <2>3, <2>4, <2>5, FlattenAgree
  <2>7. PICK x \in Slices : x = f[k] /\ x = FlattenSeq(us)
    BY <2>3, <2>5, <2>6, FlattenType
  <2> DEFINE T == {j \in Nat : k + j <= n => \E z \in Slices : f[k + j] = Cat(x, z)}
  <2>8. 0 \in T
    <3>1. Cat(x, <<>>) = x /\ <<>> \in Slices /\ k + 0 = k
      BY <2>1, SliceFacts
    <3> QED BY <2>7, <3>1
  <2>9. ASSUME NEW j \in T PROVE j + 1 \in T
    <3>1. SUFFICES ASSUME k + (j + 1) <= n PROVE \E z \in Slices : f[k + (j + 1)] = Cat(x, z)
      OBVIOUS
    <3>2. j \in Nat /\ k + j <= n
      BY <1>1, <2>1, <3>1
    <3>3. PICK z \in Slices : f[k + j] = Cat(x, z)
      BY <3>2
    <3>4. PICK i \in 1 .. n : i = k + (j + 1) /\ i - 1 = k + j /\ i # 1
      BY <1>1, <2>1, <3>1, <3>2
    <3>5. f[i] = Cat(f[i - 1], vs[i])
      BY <2>4, <3>4 DEF Flattens
    <3>6. vs[i] \in Slices
      BY <1>1
    <3>7. Cat(Cat(x, z), vs[i]) = Cat(x, Cat(z, vs[i])) /\ Cat(z, vs[i]) \in Slices
      BY <3>6, SliceFacts
    <3> QED BY <3>3, <3>4, <3>5, <3>7
  <2>10. T \in SUBSET Nat
    OBVIOUS
  <2>11. PICK j \in Nat : k + j = n
    <3>1. n - k \in Nat /\ k + (n - k) = n
      BY <1>1, <2>1
    <3> QED BY <3>1
  <2> HIDE DEF T
  <2>12. j \in T
    BY <2>8, <2>9, <2>10, SetInduction
  <2>13. PICK z \in Slices : s = Cat(x, z)
    BY <2>4, <2>11, <2>12 DEF T
  <2>14. PICK m \in Nat : m = Len(x)
    BY SliceFacts
  <2>15. m <= Len(s)
    BY <2>13, <2>14, SliceFacts
  <2>16. Take(s, m) = x
    <3>1. m \in 0 .. Len(x)
      BY <2>14
    <3>2. Take(Cat(x, z), m) = Take(x, m)
      BY <3>1, TakeCat
    <3> QED BY <2>13, <2>14, <3>2, TakeEnds
  <2> QED BY <1>2, <2>2, <2>7, <2>15, <2>16
<1> QED BY <1>3, <1>4

-----------------------------------------------------------------------------
(* The packets of the stream.                                               *)

\* e[p] is the position of the last byte of packet p, for p up to n.
EndsUpTo(e, n) ==
  e = [p \in 0 .. n |-> IF p = 0 THEN 0 ELSE e[p - 1] + LengthOf(p)]

\* There is such a function for every n.
LEMMA EndsExist ==
  ASSUME NEW n \in Nat
  PROVE  \E e : EndsUpTo(e, n)
<1> DEFINE T == {k \in Nat : \E g : EndsUpTo(g, k)}
<1>1. 0 \in T
  <2>1. EndsUpTo([i \in 0 .. 0 |-> 0], 0)
    BY DEF EndsUpTo
  <2> QED BY <2>1
<1>2. ASSUME NEW k \in T PROVE k + 1 \in T
  <2>1. k \in Nat
    OBVIOUS
  <2>2. PICK g : EndsUpTo(g, k)
    OBVIOUS
  <2> DEFINE h == [i \in 0 .. k + 1 |-> IF i <= k THEN g[i] ELSE g[k] + LengthOf(k + 1)]
  <2>3. \A i \in 0 .. k + 1 : h[i] = IF i = 0 THEN 0 ELSE h[i - 1] + LengthOf(i)
    <3> TAKE i \in 0 .. k + 1
    <3>1. CASE i <= k
      <4>1. i \in 0 .. k /\ h[i] = g[i]
        BY <2>1, <3>1
      <4>2. g[i] = IF i = 0 THEN 0 ELSE g[i - 1] + LengthOf(i)
        BY <2>2, <4>1 DEF EndsUpTo
      <4>3. i # 0 => h[i - 1] = g[i - 1]
        BY <2>1, <4>1
      <4> QED BY <4>1, <4>2, <4>3
    <3>2. CASE i = k + 1
      <4>1. h[i] = g[k] + LengthOf(i) /\ h[i - 1] = g[k] /\ i # 0
        BY <2>1, <3>2
      <4> QED BY <4>1
    <3> QED BY <2>1, <3>1, <3>2
  <2>4. DOMAIN h = 0 .. k + 1 /\ h = [i \in DOMAIN h |-> h[i]]
    OBVIOUS
  <2> HIDE DEF h
  <2>5. h = [i \in 0 .. k + 1 |-> IF i = 0 THEN 0 ELSE h[i - 1] + LengthOf(i)]
    BY <2>3, <2>4
  <2>6. EndsUpTo(h, k + 1)
    BY <2>5 DEF EndsUpTo
  <2> QED BY <2>1, <2>6
<1>3. T \in SUBSET Nat
  OBVIOUS
<1> HIDE DEF T
<1>4. n \in T
  BY <1>1, <1>2, <1>3, SetInduction
<1> QED BY <1>4 DEF T

\* A stream that the program may receive.
Stream == packets \in Seq(PacketLengths)

\* Every packet has the bytes the handler needs.
LEMMA LengthFacts ==
  ASSUME Stream, NEW p \in 1 .. Len(packets)
  PROVE  LengthOf(p) \in Nat /\ LengthOf(p) >= HeadBytes /\ LengthOf(p) > 0
<1>1. packets[p] \in PacketLengths
  BY DEF Stream
<1>2. HeadBytes \in Nat /\ HeadBytes > 0
  BY FramingAssumption
<1>3. packets[p] # Bad => packets[p] \in Nat /\ packets[p] >= HeadBytes
  BY <1>1, FramingAssumption
<1> QED BY <1>2, <1>3 DEF LengthOf

\* Ends is what it is defined to be.
LEMMA EndsFacts ==
  ASSUME Stream
  PROVE  /\ Len(packets) \in Nat
         /\ Ends[0] = 0
         /\ \A p \in 1 .. Len(packets) : Ends[p] = Ends[p - 1] + LengthOf(p)
<1>1. PICK n \in Nat : n = Len(packets)
  BY LenProperties DEF Stream
<1>2. Ends = CHOOSE e : EndsUpTo(e, n)
  BY <1>1 DEF Ends, EndsUpTo
<1>3. \E e : EndsUpTo(e, n)
  BY EndsExist
<1>4. EndsUpTo(CHOOSE e : EndsUpTo(e, n), n)
  BY <1>3, Zenon
<1>5. PICK e : e = Ends /\ EndsUpTo(e, n)
  BY <1>2, <1>4, Zenon
<1>6. \A p \in 0 .. n : e[p] = IF p = 0 THEN 0 ELSE e[p - 1] + LengthOf(p)
  BY <1>5 DEF EndsUpTo
<1>7. e[0] = 0 /\ \A p \in 1 .. n : e[p] = e[p - 1] + LengthOf(p)
  BY <1>6
<1> QED BY <1>1, <1>5, <1>7

\* The packets end one behind the other.
LEMMA EndsGrow ==
  ASSUME Stream
  PROVE  /\ \A p \in 0 .. Len(packets) : Ends[p] \in Nat
         /\ \A p, q \in 0 .. Len(packets) : p < q => Ends[p] < Ends[q]
<1>1. PICK n, e : n = Len(packets) /\ e = Ends /\ n \in Nat
  BY EndsFacts
<1>2. e[0] = 0 /\ \A p \in 1 .. n : e[p] = e[p - 1] + LengthOf(p)
  BY <1>1, EndsFacts
<1>3. \A p \in 1 .. n : LengthOf(p) \in Nat /\ LengthOf(p) > 0
  BY <1>1, LengthFacts
<1> DEFINE T == {k \in Nat : k <= n => /\ e[k] \in Nat
                                     /\ \A p \in 0 .. k : p < k => e[p] \in Nat /\ e[p] < e[k]}
<1>4. 0 \in T
  BY <1>2
<1>5. ASSUME NEW k \in T PROVE k + 1 \in T
  <2>1. k \in Nat
    OBVIOUS
  <2>2. SUFFICES ASSUME k + 1 <= n
                 PROVE  /\ e[k + 1] \in Nat
                        /\ \A p \in 0 .. k + 1 : p < k + 1 => e[p] \in Nat /\ e[p] < e[k + 1]
    BY <2>1
  <2>3. e[k] \in Nat /\ \A p \in 0 .. k : p < k => e[p] \in Nat /\ e[p] < e[k]
    BY <1>1, <2>1, <2>2
  <2>4. PICK l \in Nat : l > 0 /\ e[k + 1] = e[k] + l
    <3>1. k + 1 \in 1 .. n /\ (k + 1) - 1 = k
      BY <2>1, <2>2
    <3> QED BY <1>2, <1>3, <3>1
  <2>5. e[k] < e[k + 1] /\ e[k + 1] \in Nat
    BY <2>3, <2>4
  <2>6. ASSUME NEW p \in 0 .. k + 1, p < k + 1 PROVE e[p] \in Nat /\ e[p] < e[k + 1]
    <3>1. CASE p = k
      BY <2>3, <2>5, <3>1
    <3>2. CASE p < k
      <4>1. e[p] \in Nat /\ e[p] < e[k]
        BY <2>1, <2>3, <2>6, <3>2
      <4> QED BY <2>3, <2>5, <4>1
    <3> QED BY <2>1, <2>6, <3>1, <3>2
  <2> QED BY <2>5, <2>6
<1>6. T \in SUBSET Nat
  OBVIOUS
<1> HIDE DEF T
<1>7. \A k \in Nat : k \in T
  BY <1>4, <1>5, <1>6, SetInduction
<1>8. \A k \in 0 .. n : e[k] \in Nat /\ \A p \in 0 .. k : p < k => e[p] < e[k]
  BY <1>7 DEF T
<1>9. \A p, q \in 0 .. n : p < q => e[p] < e[q]
  <2> TAKE p, q \in 0 .. n
  <2> HAVE p < q
  <2>1. p \in 0 .. q
    OBVIOUS
  <2> QED BY <1>8, <2>1
<1> QED BY <1>1, <1>8, <1>9

\* What the handler says of data that begins with packet k + 1.
LEMMA CheckLength ==
  ASSUME Stream, NEW k \in 0 .. Len(packets) - 1, NEW n \in Nat, n > 0
  PROVE  OnCheckPackageLength(Bytes(Ends[k], n)) =
            IF n < HeadBytes THEN 0
            ELSE IF packets[k + 1] = Bad THEN -1 ELSE LengthOf(k + 1)
<1>1. PICK m, e : m = Len(packets) /\ e = Ends /\ m \in Nat
  BY EndsFacts
<1>2. k \in 0 .. m /\ k + 1 \in 1 .. m /\ (k + 1) - 1 = k
  BY <1>1
<1>3. e[k] \in Nat
  BY <1>1, <1>2, EndsGrow
<1>4. PICK data : data = Bytes(e[k], n)
  OBVIOUS
<1>5. Len(data) = n /\ data[1] = e[k] + 1
  <2>1. Numbers(data, e[k], n) /\ 1 \in 1 .. n
    BY <1>3, <1>4, BytesFacts
  <2> QED BY <2>1 DEF Numbers
<1>6. DOMAIN packets = 1 .. m
  BY <1>1 DEF Stream
<1>7. \A p \in 1 .. m : e[p - 1] + 1 = data[1] <=> p = k + 1
  <2> TAKE p \in 1 .. m
  <2>1. p - 1 \in 0 .. m /\ k \in 0 .. m
    BY <1>1, <1>2
  <2>2. e[p - 1] \in Nat
    BY <1>1, <2>1, EndsGrow
  <2>3. (p - 1 < k => e[p - 1] < e[k]) /\ (k < p - 1 => e[k] < e[p - 1])
    BY <1>1, <2>1, EndsGrow
  <2>4. p - 1 = k => e[p - 1] = e[k]
    OBVIOUS
  <2> QED BY <1>2, <1>3, <1>5, <2>2, <2>3, <2>4
<1>8. {p \in DOMAIN packets : e[p - 1] + 1 = data[1]} = {k + 1}
  BY <1>2, <1>6, <1>7
<1>9. OnCheckPackageLength(data) =
        IF n < HeadBytes THEN 0
        ELSE IF packets[k + 1] = Bad THEN -1 ELSE packets[k + 1]
  <2>1. {p \in DOMAIN packets : Ends[p - 1] + 1 = data[1]} = {k + 1}
    BY <1>1, <1>8
  <2>2. (CHOOSE p \in {k + 1} : TRUE) = k + 1
    OBVIOUS
  <2> QED BY <1>5, <2>1, <2>2 DEF OnCheckPackageLength
<1> QED BY <1>1, <1>4, <1>9 DEF LengthOf

\* What is shown to the handler of a buffer that holds the m bytes after the d-th.
LEMMA PackageIs ==
  ASSUME NEW d \in Nat, NEW m \in Nat, Holds(rcvBuffer, Bytes(d, m))
  PROVE  /\ rcvBuffer.length = m
         /\ ReachTail <=> HeaderSize >= m
         /\ Package = Bytes(d, IF HeaderSize >= m THEN m ELSE HeaderSize)
<1>1. PICK s : s = Bytes(d, m) /\ Holds(rcvBuffer, s)
  OBVIOUS
<1>2. Len(s) = m
  BY <1>1, BytesFacts DEF Numbers
<1>3. rcvBuffer.length = m /\ Merge(rcvBuffer) = s
  BY <1>1, <1>2, HoldsFacts
<1>4. HeaderSize \in Nat
  BY FramingAssumption
<1>5. ReachTail <=> HeaderSize >= m
  BY <1>3 DEF ReachTail
<1>6. CASE HeaderSize >= m
  BY <1>1, <1>3, <1>5, <1>6 DEF Package
<1>7. CASE HeaderSize < m
  <2>1. GetHeader(rcvBuffer, HeaderSize) = Take(s, HeaderSize)
    BY <1>1, <1>2, <1>4, <1>7, HoldsGet
  <2>2. Take(s, HeaderSize) = Bytes(d, HeaderSize)
    BY <1>1, <1>4, <1>7, BytesCut
  <2> QED BY <1>3, <1>4, <1>5, <1>7, <2>1, <2>2 DEF Package
<1> QED BY <1>3, <1>4, <1>5, <1>6, <1>7

\* What is cut off it: the first len bytes, also when they were not all shown.
LEMMA CutIs ==
  ASSUME NEW d \in Nat, NEW m \in Nat, Holds(rcvBuffer, Bytes(d, m)), NEW len \in Nat, len <= m
  PROVE  Cut(Package, len) = Bytes(d, len)
<1>1. PICK s : s = Bytes(d, m) /\ Holds(rcvBuffer, s)
  OBVIOUS
<1>2. Len(s) = m
  BY <1>1, BytesFacts DEF Numbers
<1>3. PICK k \in Nat : k = IF HeaderSize >= m THEN m ELSE HeaderSize
  BY FramingAssumption
<1>4. PICK x : x = Package /\ x = Bytes(d, k)
  BY <1>3, PackageIs
<1>5. Len(x) = k
  BY <1>4, BytesFacts DEF Numbers
<1>6. CASE k < len
  <2>1. GetHeader(rcvBuffer, len) = Take(s, len)
    BY <1>1, <1>2, HoldsGet
  <2>2. Take(s, len) = Bytes(d, len)
    BY <1>1, BytesCut
  <2> QED BY <1>4, <1>5, <1>6, <2>1, <2>2 DEF Cut
<1>7. CASE ~(k < len)
  <2>1. k - len \in Nat /\ ~(k - len > k) /\ k - (k - len) = len
    BY <1>7
  <2>2. DropBack(x, k - len) = Take(x, len)
    BY <1>5, <2>1 DEF DropBack, Take
  <2>3. Take(x, len) = Bytes(d, len)
    BY <1>4, <1>7, BytesCut
  <2> QED BY <1>4, <1>5, <1>7, <2>2, <2>3 DEF Cut
<1> QED BY <1>6, <1>7

-----------------------------------------------------------------------------
(* What is delivered.                                                       *)

\* The number of bytes delivered.
Got == Len(FlattenSeq(delivered))

\* What is delivered is the beginning of what was read; with a ProtocolHandler it
\* is the first packets.
InOrder ==
    /\ delivered \in Seq(Slices) /\ Got \in Nat /\ taken \in Nat /\ Got <= taken
    /\ FlattenSeq(delivered) = Bytes(0, Got)
    /\ ~proto => Got = taken
    /\ proto => /\ Len(delivered) <= Len(packets)
                /\ Got = Ends[Len(delivered)]
                /\ \A k \in 1 .. Len(delivered) : delivered[k] = Packet(k)

\* The bytes read and not delivered.
NotDelivered == Bytes(Got, taken - Got)

\* At first nothing is read.
LEMMA NoneDelivered ==
  ASSUME Stream, proto \in BOOLEAN, taken = 0, delivered = <<>>
  PROVE  /\ InOrder /\ NotDelivered = <<>> /\ Total \in Nat
         /\ Len(delivered) < Len(packets) => 0 < LengthOf(Len(delivered) + 1)
<1>1. Ends[0] = 0 /\ Len(packets) \in Nat
  BY EndsFacts
<1>2. Total \in Nat
  <2>1. Len(packets) \in 0 .. Len(packets)
    BY <1>1
  <2> QED BY <2>1, EndsGrow DEF Total
<1>3. FlattenSeq(<<>>) = <<>> /\ <<>> \in Seq(Slices) /\ Len(<<>>) = 0
  BY DEF FlattenSeq
<1>4. Bytes(0, 0) = <<>>
  <2>1. Bytes(0, 0) \in Slices /\ Len(Bytes(0, 0)) = 0
    BY BytesFacts DEF Numbers
  <2> QED BY <2>1, SliceFacts
<1>5. Got = 0
  BY <1>3 DEF Got
<1>6. InOrder
  BY <1>1, <1>3, <1>4, <1>5 DEF InOrder
<1>7. NotDelivered = <<>>
  BY <1>4, <1>5 DEF NotDelivered
<1>8. ASSUME Len(delivered) < Len(packets) PROVE 0 < LengthOf(Len(delivered) + 1)
  <2>1. Len(delivered) + 1 \in 1 .. Len(packets)
    BY <1>1, <1>3, <1>8
  <2> QED BY <2>1, LengthFacts
<1> QED BY <1>2, <1>6, <1>7, <1>8

\* The stream does not change.
LEMMA StreamKept ==
  ASSUME UNCHANGED stream
  PROVE  /\ Stream' <=> Stream
         /\ Ends' = Ends /\ Total' = Total /\ packets' = packets /\ proto' = proto
         /\ \A p : LengthOf(p)' = LengthOf(p) /\ Packet(p)' = Packet(p)
<1>1. packets' = packets /\ proto' = proto
  BY DEF stream
<1>2. \A p : LengthOf(p)' = LengthOf(p)
  BY <1>1 DEF LengthOf
<1>3. Ends' = Ends
  BY <1>1 DEF Ends, LengthOf
<1>4. Total' = Total
  BY <1>1, <1>3 DEF Total
<1>5. \A p : Packet(p)' = Packet(p)
  BY <1>2, <1>3 DEF Packet
<1> QED BY <1>1, <1>2, <1>3, <1>4, <1>5 DEF Stream

\* A step that neither reads nor delivers.
LEMMA DeliveredKept ==
  ASSUME InOrder, UNCHANGED <<stream, taken, delivered>>
  PROVE  InOrder' /\ NotDelivered' = NotDelivered /\ Got' = Got
<1>1. /\ Ends' = Ends /\ packets' = packets /\ proto' = proto
      /\ \A p : Packet(p)' = Packet(p)
  BY StreamKept
<1>2. delivered' = delivered /\ taken' = taken /\ Got' = Got
  BY DEF Got
<1>3. InOrder'
  BY <1>1, <1>2 DEF InOrder
<1> QED BY <1>2, <1>3 DEF NotDelivered

\* recv with a ProtocolHandler: the bytes go behind what the buffer holds.
LEMMA RecvToBuffer ==
  ASSUME InOrder, Holds(rcvBuffer, NotDelivered), proto, NEW n \in Nat, taken' = taken + n,
         rcvBuffer' = AddSlice(rcvBuffer, Bytes(taken, n)),
         UNCHANGED <<stream, delivered>>
  PROVE  InOrder' /\ Holds(rcvBuffer', NotDelivered')
<1>2. /\ Ends' = Ends /\ packets' = packets /\ proto' = proto
      /\ \A p : Packet(p)' = Packet(p)
  BY StreamKept
<1>3. delivered' = delivered /\ Got' = Got
  BY DEF Got
<1>4. Got \in Nat /\ taken \in Nat /\ Got <= taken
  BY DEF InOrder
<1>5. InOrder'
  BY <1>2, <1>3, <1>4 DEF InOrder
<1>6. PICK m \in Nat : m = taken - Got /\ taken = Got + m
  BY <1>4
<1>7. Holds(rcvBuffer, Bytes(Got, m))
  BY <1>6 DEF NotDelivered
<1>8. Bytes(taken, n) \in Slices
  BY <1>4, BytesFacts DEF Numbers
<1>9. Holds(rcvBuffer', Cat(Bytes(Got, m), Bytes(Got + m, n)))
  BY <1>6, <1>7, <1>8, HoldsAdd
<1>10. Cat(Bytes(Got, m), Bytes(Got + m, n)) = Bytes(Got, m + n)
  BY <1>4, BytesCat
<1>11. NotDelivered' = Bytes(Got, m + n)
  <2>1. taken' - Got' = m + n
    BY <1>3, <1>4, <1>6
  <2> QED BY <1>3, <2>1 DEF NotDelivered
<1> QED BY <1>5, <1>9, <1>10, <1>11

\* recv without one: the bytes are delivered as they are.
LEMMA RecvToHandler ==
  ASSUME InOrder, ~proto, NEW n \in Nat, taken' = taken + n,
         delivered' = Append(delivered, Bytes(taken, n)),
         UNCHANGED stream
  PROVE  InOrder'
<1>2. proto' = proto
  BY StreamKept
<1>3. PICK g \in Nat : g = Got /\ g = taken /\ delivered \in Seq(Slices) /\ FlattenSeq(delivered) = Bytes(0, g)
  BY DEF InOrder
<1>4. /\ delivered' \in Seq(Slices)
      /\ FlattenSeq(delivered') = Bytes(0, g + n) /\ Len(FlattenSeq(delivered')) = g + n
  <2>1. First(delivered, g)
    BY <1>3 DEF First
  <2>2. Longer(Append(delivered, Bytes(g, n)), delivered, g, n)
    BY <2>1, DeliverOne
  <2> QED BY <1>3, <2>2 DEF Longer
<1>5. Got' = g + n /\ taken' = g + n /\ g + n \in Nat
  BY <1>3, <1>4 DEF Got
<1> QED BY <1>2, <1>4, <1>5 DEF InOrder

\* A packet is cut off the buffer.
LEMMA CutOne ==
  ASSUME Stream, InOrder, Holds(rcvBuffer, NotDelivered), proto, Len(delivered) < Len(packets),
         NEW len, len = LengthOf(Len(delivered) + 1), len <= rcvBuffer.length,
         PassOn(len), UNCHANGED <<stream, taken>>
  PROVE  InOrder' /\ Holds(rcvBuffer', NotDelivered')
<1>1. delivered' = Append(delivered, Cut(Package, len)) /\ rcvBuffer' = MoveHeader(rcvBuffer, len)
  BY DEF PassOn
<1>2. /\ Ends' = Ends /\ packets' = packets /\ proto' = proto
      /\ \A p : Packet(p)' = Packet(p)
  BY StreamKept
<1>3. PICK g \in Nat : /\ g = Got /\ delivered \in Seq(Slices) /\ FlattenSeq(delivered) = Bytes(0, g)
                       /\ taken \in Nat /\ g <= taken /\ g = Ends[Len(delivered)]
  BY DEF InOrder
<1>4. PICK m \in Nat : m = taken - g /\ taken = g + m
  BY <1>3
<1>5. Holds(rcvBuffer, Bytes(g, m))
  BY <1>3, <1>4 DEF NotDelivered
<1>6. PICK k \in Nat : k = Len(delivered) /\ k < Len(packets)
  BY <1>3, LenProperties
<1>7. k + 1 \in 1 .. Len(packets) /\ (k + 1) - 1 = k /\ k + 1 \in 0 .. Len(packets)
  BY <1>1, <1>6, EndsFacts
<1>8. len \in Nat
  BY <1>1, <1>6, <1>7, LengthFacts
<1>9. len <= m
  BY <1>5, <1>3, PackageIs
<1>10. Cut(Package, len) = Bytes(g, len)
  BY <1>3, <1>5, <1>8, <1>9, CutIs
<1>11. /\ delivered' \in Seq(Slices) /\ Len(delivered') = k + 1
       /\ FlattenSeq(delivered') = Bytes(0, g + len) /\ Len(FlattenSeq(delivered')) = g + len
       /\ \A i \in 1 .. k : delivered'[i] = delivered[i]
       /\ delivered'[k + 1] = Bytes(g, len)
  <2>1. First(delivered, g)
    BY <1>3 DEF First
  <2>2. Longer(Append(delivered, Bytes(g, len)), delivered, g, len)
    BY <1>8, <2>1, DeliverOne
  <2> QED BY <1>1, <1>6, <1>10, <2>2 DEF Longer
<1>12. Got' = g + len /\ taken' = taken /\ g + len \in Nat /\ g + len <= taken
  BY <1>3, <1>4, <1>8, <1>9, <1>11 DEF Got
<1>13. Ends[k + 1] = g + len
  BY <1>1, <1>3, <1>6, <1>7, EndsFacts
<1>14. Packet(k + 1) = Bytes(g, len)
  BY <1>3, <1>6, <1>7 DEF Packet
<1>15. \A i \in 1 .. k + 1 : delivered'[i] = Packet(i)
  <2> TAKE i \in 1 .. k + 1
  <2>1. CASE i = k + 1
    BY <1>11, <1>14, <2>1
  <2>2. CASE i \in 1 .. k
    BY <1>1, <1>6, <1>11, <2>2 DEF InOrder
  <2> QED BY <1>6, <2>1, <2>2
<1>16. InOrder'
  BY <1>2, <1>3, <1>7, <1>11, <1>12, <1>13, <1>15 DEF InOrder
<1>17. Holds(rcvBuffer', Bytes(g + len, m - len))
  <2>1. PICK s : s = Bytes(g, m) /\ Holds(rcvBuffer, s)
    BY <1>5
  <2>2. Len(s) = m
    BY <2>1, BytesFacts DEF Numbers
  <2>3. Holds(rcvBuffer', Drop(s, len))
    BY <1>1, <1>8, <1>9, <2>1, <2>2, HoldsMove
  <2>4. Drop(s, len) = Bytes(g + len, m - len)
    BY <1>8, <1>9, <2>1, BytesCut
  <2> QED BY <2>3, <2>4
<1>18. NotDelivered' = Bytes(g + len, m - len)
  <2>1. taken' - Got' = m - len
    BY <1>3, <1>4, <1>8, <1>12
  <2> QED BY <1>12, <2>1 DEF NotDelivered
<1> QED BY <1>16, <1>17, <1>18

\* What a round of ParsingProtocol finds: the buffer begins with packet k + 1.
LEMMA ParseFacts ==
  ASSUME Stream, InOrder, Holds(rcvBuffer, NotDelivered), taken <= Total, proto, NEW k, k = Len(delivered)
  PROVE  /\ k \in Nat /\ k <= Len(packets) /\ Len(packets) \in Nat
         /\ rcvBuffer.length \in Nat
         /\ rcvBuffer.length > 0 => k < Len(packets)
         /\ k < Len(packets) => LengthOf(k + 1) \in Nat /\ LengthOf(k + 1) >= HeadBytes
                               /\ LengthOf(k + 1) > 0
         /\ rcvBuffer.length > 0 =>
               OnCheckPackageLength(Package) =
                  IF rcvBuffer.length < HeadBytes THEN 0
                  ELSE IF packets[k + 1] = Bad THEN -1 ELSE LengthOf(k + 1)
         /\ ReachTail <=> HeaderSize >= rcvBuffer.length
<1>2. PICK g \in Nat : /\ g = Got /\ taken \in Nat /\ g <= taken /\ g = Ends[k] /\ k <= Len(packets)
                       /\ delivered \in Seq(Slices)
  BY DEF InOrder
<1>3. k \in Nat /\ Len(packets) \in Nat
  BY <1>2, LenProperties, EndsFacts
<1>4. PICK m \in Nat : m = taken - g /\ taken = g + m
  BY <1>2
<1>5. Holds(rcvBuffer, Bytes(g, m))
  BY <1>2, <1>4 DEF NotDelivered
<1>6. PICK h \in Nat : h = IF HeaderSize >= m THEN m ELSE HeaderSize
  BY FramingAssumption
<1>7. rcvBuffer.length = m /\ (ReachTail <=> HeaderSize >= m) /\ Package = Bytes(g, h)
  BY <1>5, <1>6, PackageIs
<1>9. m > 0 => k < Len(packets)
  BY <1>2, <1>3, <1>4 DEF Total
<1>10. k < Len(packets) => LengthOf(k + 1) \in Nat /\ LengthOf(k + 1) >= HeadBytes /\ LengthOf(k + 1) > 0
  <2>1. k < Len(packets) => k + 1 \in 1 .. Len(packets)
    BY <1>3
  <2> QED BY <2>1, LengthFacts
<1>11. ASSUME m > 0
       PROVE  OnCheckPackageLength(Package) =
                 IF m < HeadBytes THEN 0
                 ELSE IF packets[k + 1] = Bad THEN -1 ELSE LengthOf(k + 1)
  <2>1. k \in 0 .. Len(packets) - 1 /\ h > 0 /\ (h < HeadBytes <=> m < HeadBytes)
    <3>1. k \in 0 .. Len(packets) - 1
      BY <1>3, <1>9, <1>11
    <3>2. h > 0 /\ (h < HeadBytes <=> m < HeadBytes)
      BY <1>6, <1>11, FramingAssumption
    <3> QED BY <3>1, <3>2
  <2>2. OnCheckPackageLength(Bytes(Ends[k], h)) =
          IF h < HeadBytes THEN 0
          ELSE IF packets[k + 1] = Bad THEN -1 ELSE LengthOf(k + 1)
    BY <2>1, CheckLength
  <2> QED BY <1>2, <1>7, <2>1, <2>2
<1> QED BY <1>2, <1>3, <1>7, <1>9, <1>10, <1>11
=============================================================================
