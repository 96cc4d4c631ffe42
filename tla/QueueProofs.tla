---------------------------- MODULE QueueProofs ----------------------------
(***************************************************************************)
(* Proofs about the lock-free queue, for every number of producers and of  *)
(* nodes, and about the objects that own a thread which empties such a     *)
(* queue, the timer and the log: where each timer or message is, for any   *)
(* number of users, items and restarts.                                    *)
(***************************************************************************)
EXTENDS Mpscq, Worker, FiniteSetTheorems, SequenceTheorems, TLAPS

\* push has a node from New to its last store.
Pushing == {p \in Producers : ppc[p] # "idle"}

\* The store that will link d behind c is still to come.
Linking(c, d) ==
    \/ \E p \in Producers : ppc[p] = "link" /\ pprev[p] = c /\ pnode[p] = d
    \/ cpc = "slink" /\ sprev = c /\ d = Stub

\* The cells from _oldest to _newest in the order of their exchanges: they are
\* cell[lo], ..., cell[hi], and s is where the stub was exchanged in last, so
\* that it is among them if lo <= s.
Window(cell, lo, hi, s) ==
    /\ lo <= hi /\ s <= hi
    /\ cell[lo] = oldest /\ cell[hi] = newest
    /\ \A i \in lo .. hi : cell[i] = Stub <=> i = s
    /\ \A i \in lo .. hi : cell[i] \in live \cup {Stub}
    /\ \A i, j \in lo .. hi : cell[i] = cell[j] => i = j

\* Each cell's next is the cell behind it, or is going to be.
Linked(cell, lo, hi, s) ==
    /\ next[cell[hi]] = NULL
    /\ \A i \in lo .. hi - 1 :
         \/ next[cell[i]] = cell[i + 1]
         \/ next[cell[i]] = NULL /\ Linking(cell[i], cell[i + 1])

\* order is the window without the stub.
Listed(cell, lo, hi, s) ==
    /\ Len(order) = IF lo <= s THEN hi - lo ELSE hi - lo + 1
    /\ \A k \in 1 .. Len(order) :
         order[k] = cell[IF lo <= s /\ s < lo + k THEN lo + k ELSE lo + k - 1]

\* A pending store writes into a cell of the window whose next is still NULL,
\* the cell before the one it links.
Pending(cell, lo, hi, s) ==
    /\ \A p \in Producers : ppc[p] = "link" =>
         \E i \in lo .. hi - 1 :
            pprev[p] = cell[i] /\ pnode[p] = cell[i + 1] /\ next[cell[i]] = NULL
    /\ cpc = "slink" =>
         \E i \in lo .. hi - 1 : sprev = cell[i] /\ Stub = cell[i + 1] /\ next[cell[i]] = NULL

\* A node that has not been exchanged yet is not in the window.
Private(cell, lo, hi, s) ==
    \A p \in Producers : ppc[p] \in {"store", "xchg"} => \A i \in lo .. hi : cell[i] # pnode[p]

\* The stub is out of the window while the consumer is about to push it.
StubOut(cell, lo, hi, s) == cpc \in {"sstore", "sxchg"} => s < lo

Shape(cell, lo, hi, s) ==
    /\ Window(cell, lo, hi, s) /\ Linked(cell, lo, hi, s) /\ Listed(cell, lo, hi, s)
    /\ Pending(cell, lo, hi, s) /\ Private(cell, lo, hi, s) /\ StubOut(cell, lo, hi, s)

Chain == \E cell \in [Nat -> Cells], lo, hi, s \in Nat : Shape(cell, lo, hi, s)

\* Producers inside push have nodes of their own, and a node's next is NULL when
\* it is exchanged.
Owned ==
    /\ \A p \in Pushing : pnode[p] \in live
    /\ \A p, q \in Pushing : pnode[p] = pnode[q] => p = q
    /\ \A p \in Producers : ppc[p] = "xchg" => next[pnode[p]] = NULL

\* Inside pop, tail is _oldest and a node.
TailInv == IF cpc = "idle" THEN tail = NULL ELSE tail = oldest /\ tail # Stub

\* The stub's next is NULL when it is exchanged.
StubNull == cpc = "sxchg" => next[Stub] = NULL

IInv == TypeOK /\ Chain /\ Owned /\ TailInv /\ StubNull /\ FirstIsReported

-----------------------------------------------------------------------------
\* RemoveFirst of the head is the tail.
LEMMA RemoveHead ==
  ASSUME NEW S, NEW q \in Seq(S), q # <<>>
  PROVE  RemoveFirst(q, Head(q)) = Tail(q)
<1>1. Len(q) \in Nat /\ Len(q) >= 1 /\ Head(q) = q[1]
  BY EmptySeq, LenProperties
<1> DEFINE I == {i \in 1 .. Len(q) : q[i] = Head(q)}
<1>2. 1 \in I /\ \A i \in I : 1 <= i /\ (i <= 1 => i = 1)
  BY <1>1
<1>3. SelectInSeq(q, LAMBDA v : v = Head(q)) = 1
  <2>1. SelectInSeq(q, LAMBDA v : v = Head(q)) = Min(I)
    BY <1>2 DEF SelectInSeq
  <2> HIDE DEF I
  <2>2. Min(I) = 1
    BY <1>2 DEF Min
  <2> QED BY <2>1, <2>2
<1>4. RemoveFirst(q, Head(q)) = RemoveAt(q, 1)
  BY <1>1, <1>3 DEF RemoveFirst
<1>5. SubSeq(q, 1, 0) = <<>> /\ SubSeq(q, 2, Len(q)) = Tail(q)
  BY <1>1, SubSeqEmpty, TailIsSubSeq
<1>6. Tail(q) \in Seq(S)
  BY HeadTailProperties
<1>7. <<>> \o Tail(q) = Tail(q)
  BY <1>6, ConcatEmptySeq
<1> QED BY <1>1, <1>4, <1>5, <1>7 DEF RemoveAt

\* What the chain says of its two ends.
LEMMA Ends ==
  ASSUME TypeOK, NEW cell \in [Nat -> Cells], NEW lo \in Nat, NEW hi \in Nat, NEW s \in Nat,
         Shape(cell, lo, hi, s)
  PROVE  /\ oldest # Stub => order # <<>> /\ Head(order) = oldest
         /\ order = <<>> => oldest = Stub /\ newest = Stub
<1>1. order \in Seq(Nodes) /\ Len(order) \in Nat
  BY LenProperties DEF TypeOK
<1>2. Window(cell, lo, hi, s) /\ Listed(cell, lo, hi, s)
  BY DEF Shape
<1>3. ASSUME oldest # Stub PROVE order # <<>> /\ Head(order) = oldest
  <2>1. s # lo
    BY <1>2, <1>3 DEF Window
  <2>2. Len(order) >= 1
    BY <1>1, <1>2, <2>1 DEF Window, Listed
  <2>3. order[1] = cell[lo]
    BY <1>1, <1>2, <2>1, <2>2 DEF Listed
  <2> QED BY <1>1, <1>2, <2>2, <2>3 DEF Window
<1>4. ASSUME order = <<>> PROVE oldest = Stub /\ newest = Stub
  <2>1. Len(order) = 0
    BY <1>4
  <2>2. lo = hi /\ s = lo
    BY <1>2, <2>1 DEF Window, Listed
  <2> QED BY <1>2, <2>2 DEF Window
<1> QED BY <1>3, <1>4

-----------------------------------------------------------------------------
(* push keeps the chain.                                                    *)

\* A new node is in no chain.
LEMMA NewChain ==
  ASSUME TypeOK, Owned, NEW cell \in [Nat -> Cells], NEW lo \in Nat, NEW hi \in Nat,
         NEW s \in Nat, Shape(cell, lo, hi, s), NEW p \in Producers, New(p)
  PROVE  Shape(cell, lo, hi, s)'
<1> USE NodesAssumption
<1>1. PICK n \in Nodes \ live : live' = live \cup {n} /\ pnode' = [pnode EXCEPT ![p] = n]
  BY DEF New
<1>2. /\ UNCHANGED <<newest, oldest, next, pprev, cpc, sprev, order>>
      /\ ppc[p] = "idle" /\ ppc' = [ppc EXCEPT ![p] = "store"]
      /\ ppc \in [Producers -> {"idle", "store", "xchg", "link"}]
      /\ pnode \in [Producers -> Nodes \cup {NULL}]
  BY DEF New, popVars, TypeOK
<1>3. /\ ppc'[p] = "store" /\ pnode'[p] = n
      /\ \A q \in Producers : q # p => ppc'[q] = ppc[q] /\ pnode'[q] = pnode[q]
  BY <1>1, <1>2
<1>4. Window(cell, lo, hi, s)'
  BY <1>1, <1>2 DEF Shape, Window
<1>5. Linked(cell, lo, hi, s)'
  <2>1. ASSUME NEW c, NEW d, Linking(c, d) PROVE Linking(c, d)'
    BY <1>2, <1>3, <2>1 DEF Linking
  <2> QED BY <1>2, <2>1 DEF Shape, Linked
<1>6. Listed(cell, lo, hi, s)' /\ StubOut(cell, lo, hi, s)'
  BY <1>2 DEF Shape, Listed, StubOut
<1>7. Pending(cell, lo, hi, s)'
  BY <1>2, <1>3 DEF Shape, Pending
<1>8. Private(cell, lo, hi, s)'
  BY <1>1, <1>3 DEF Shape, Window, Private
<1> QED BY <1>4, <1>5, <1>6, <1>7, <1>8 DEF Shape

\* The store into the node that is not in the chain yet.
LEMMA PushStoreChain ==
  ASSUME TypeOK, Owned, NEW cell \in [Nat -> Cells], NEW lo \in Nat, NEW hi \in Nat,
         NEW s \in Nat, Shape(cell, lo, hi, s), NEW p \in Producers, PushStore(p)
  PROVE  Shape(cell, lo, hi, s)'
<1> USE NodesAssumption
<1>1. /\ UNCHANGED <<newest, oldest, live, pnode, pprev, cpc, sprev, order>>
      /\ ppc[p] = "store" /\ ppc'[p] = "xchg"
      /\ \A q \in Producers : q # p => ppc'[q] = ppc[q]
  BY DEF PushStore, popVars, TypeOK
<1>2. \A i \in lo .. hi : next'[cell[i]] = next[cell[i]]
  BY <1>1 DEF PushStore, Shape, Private, TypeOK
<1>3. Window(cell, lo, hi, s)' /\ Listed(cell, lo, hi, s)' /\ StubOut(cell, lo, hi, s)'
  BY <1>1 DEF Shape, Window, Listed, StubOut
<1>4. Linked(cell, lo, hi, s)'
  <2>1. ASSUME NEW c, NEW d, Linking(c, d) PROVE Linking(c, d)'
    BY <1>1, <2>1 DEF Linking
  <2>2. hi \in lo .. hi /\ \A i \in lo .. hi - 1 : i \in lo .. hi
    BY DEF Shape, Window
  <2> QED BY <1>2, <2>1, <2>2 DEF Shape, Linked
<1>5. Pending(cell, lo, hi, s)'
  <2>1. \A i \in lo .. hi - 1 : i \in lo .. hi
    OBVIOUS
  <2> QED BY <1>1, <1>2, <2>1 DEF Shape, Pending
<1>6. Private(cell, lo, hi, s)'
  BY <1>1 DEF Shape, Private
<1> QED BY <1>3, <1>4, <1>5, <1>6 DEF Shape

\* The link closes the gap behind the previous node.
LEMMA PushLinkChain ==
  ASSUME TypeOK, Owned, NEW cell \in [Nat -> Cells], NEW lo \in Nat, NEW hi \in Nat,
         NEW s \in Nat, Shape(cell, lo, hi, s), NEW p \in Producers, PushLink(p)
  PROVE  Shape(cell, lo, hi, s)'
<1> USE NodesAssumption
<1>1. /\ UNCHANGED <<newest, oldest, live, cpc, sprev, order>>
      /\ ppc[p] = "link" /\ ppc'[p] = "idle"
      /\ \A q \in Producers : q # p => /\ ppc'[q] = ppc[q] /\ pnode'[q] = pnode[q]
                                      /\ pprev'[q] = pprev[q]
  BY DEF PushLink, popVars, TypeOK
<1>2. PICK i \in lo .. hi - 1 : pprev[p] = cell[i] /\ pnode[p] = cell[i + 1]
                                /\ next[cell[i]] = NULL
  BY <1>1 DEF Shape, Pending
<1>3. /\ i \in lo .. hi /\ i + 1 \in lo .. hi /\ hi \in lo .. hi /\ i # hi
      /\ \A j \in lo .. hi - 1 : j \in lo .. hi /\ j + 1 \in lo .. hi
      /\ \A j, k \in lo .. hi : cell[j] = cell[k] => j = k
  BY DEF Shape, Window
<1>4. \A j \in lo .. hi : next'[cell[j]] = IF j = i THEN cell[i + 1] ELSE next[cell[j]]
  BY <1>2, <1>3 DEF PushLink, TypeOK
<1>5. Window(cell, lo, hi, s)' /\ Listed(cell, lo, hi, s)' /\ StubOut(cell, lo, hi, s)'
  BY <1>1 DEF Shape, Window, Listed, StubOut
<1>6. ASSUME NEW j \in lo .. hi - 1, j # i, Linking(cell[j], cell[j + 1])
      PROVE  Linking(cell[j], cell[j + 1])'
  BY <1>1, <1>2, <1>3, <1>6 DEF Linking
<1>7. Linked(cell, lo, hi, s)'
  <2>1. next'[cell[hi]] = NULL
    BY <1>3, <1>4 DEF Shape, Linked
  <2>2. ASSUME NEW j \in lo .. hi - 1
        PROVE  \/ next'[cell[j]] = cell[j + 1]
               \/ next'[cell[j]] = NULL /\ Linking(cell[j], cell[j + 1])'
    BY <1>3, <1>4, <1>6 DEF Shape, Linked
  <2> QED BY <2>1, <2>2 DEF Linked
<1>8. Pending(cell, lo, hi, s)'
  <2>1. ASSUME NEW q \in Producers, ppc'[q] = "link"
        PROVE  \E j \in lo .. hi - 1 :
                  pprev'[q] = cell[j] /\ pnode'[q] = cell[j + 1] /\ next'[cell[j]] = NULL
    <3>1. q # p /\ ppc[q] = "link" /\ pprev'[q] = pprev[q] /\ pnode'[q] = pnode[q]
      BY <1>1, <2>1
    <3>2. PICK j \in lo .. hi - 1 : pprev[q] = cell[j] /\ pnode[q] = cell[j + 1]
                                    /\ next[cell[j]] = NULL
      BY <3>1 DEF Shape, Pending
    <3>3. pnode[q] # pnode[p]
      BY <1>1, <3>1 DEF Owned, Pushing
    <3> QED BY <1>2, <1>3, <1>4, <3>1, <3>2, <3>3
  <2>2. ASSUME cpc' = "slink"
        PROVE  \E j \in lo .. hi - 1 :
                  sprev' = cell[j] /\ Stub = cell[j + 1] /\ next'[cell[j]] = NULL
    <3>1. PICK j \in lo .. hi - 1 : sprev = cell[j] /\ Stub = cell[j + 1] /\ next[cell[j]] = NULL
      BY <1>1, <2>2 DEF Shape, Pending
    <3>2. pnode[p] # Stub
      BY <1>1 DEF Owned, Pushing, TypeOK
    <3> QED BY <1>1, <1>2, <1>3, <1>4, <3>1, <3>2
  <2> QED BY <2>1, <2>2 DEF Pending
<1>9. Private(cell, lo, hi, s)'
  BY <1>1 DEF Shape, Private
<1> QED BY <1>5, <1>7, <1>8, <1>9 DEF Shape

\* An exchange puts a cell at the end of the window: the part of the chain that
\* push of a node and push of the stub have in common.
LEMMA Extend ==
  ASSUME TypeOK, NEW cell \in [Nat -> Cells], NEW lo \in Nat, NEW hi \in Nat, NEW s \in Nat,
         Shape(cell, lo, hi, s), NEW c \in Cells
  PROVE  LET f == [cell EXCEPT ![hi + 1] = c]
         IN  /\ f \in [Nat -> Cells] /\ f[hi + 1] = c /\ lo <= hi /\ s <= hi
             /\ \A i \in lo .. hi : i \in lo .. hi + 1 /\ f[i] = cell[i]
             /\ \A i \in lo .. hi + 1 : i = hi + 1 \/ i \in lo .. hi
             /\ hi \in lo .. hi /\ hi + 1 \in Nat
             /\ \A i \in lo .. hi + 1 - 1 : /\ i \in lo .. hi /\ i + 1 \in lo .. hi + 1
                                            /\ \/ i = hi
                                               \/ (i \in lo .. hi - 1 /\ i + 1 \in lo .. hi)
             /\ \A i \in lo .. hi - 1 : i \in lo .. hi + 1 - 1 /\ i \in lo .. hi /\ i + 1 \in lo .. hi
BY DEF Shape, Window

\* The exchange puts the node at the end, with a gap before it.
LEMMA PushExchangeChain ==
  ASSUME TypeOK, Owned, NEW cell \in [Nat -> Cells], NEW lo \in Nat, NEW hi \in Nat,
         NEW s \in Nat, Shape(cell, lo, hi, s), NEW p \in Producers, PushExchange(p)
  PROVE  Chain'
<1> USE NodesAssumption
<1>0. PICK n \in Nodes : n = pnode[p]
  BY DEF PushExchange, Owned, Pushing, TypeOK
<1> DEFINE f == [cell EXCEPT ![hi + 1] = n]
<1>1. /\ UNCHANGED <<oldest, next, live, pnode, cpc, sprev>> /\ newest' = n
      /\ ppc[p] = "xchg" /\ ppc'[p] = "link" /\ pprev'[p] = newest
      /\ \A q \in Producers : q # p => ppc'[q] = ppc[q] /\ pprev'[q] = pprev[q]
      /\ order' = Append(order, n)
  BY <1>0 DEF PushExchange, popVars, TypeOK
<1>2. n \in live /\ n \in Nodes /\ n # Stub /\ next[n] = NULL
  BY <1>0, <1>1 DEF Owned, Pushing, TypeOK
<1>3. /\ f \in [Nat -> Cells] /\ f[hi + 1] = n /\ lo <= hi /\ s <= hi
      /\ \A i \in lo .. hi : i \in lo .. hi + 1 /\ f[i] = cell[i]
      /\ \A i \in lo .. hi + 1 : i = hi + 1 \/ i \in lo .. hi
      /\ hi \in lo .. hi /\ hi + 1 \in Nat
      /\ \A i \in lo .. hi + 1 - 1 : /\ i \in lo .. hi /\ i + 1 \in lo .. hi + 1
                                     /\ i = hi \/ (i \in lo .. hi - 1 /\ i + 1 \in lo .. hi)
      /\ \A i \in lo .. hi - 1 : i \in lo .. hi + 1 - 1 /\ i \in lo .. hi /\ i + 1 \in lo .. hi
  BY <1>2, Extend DEF Cells
<1>4. \A i \in lo .. hi : cell[i] # n
  BY <1>0, <1>1 DEF Shape, Private
<1> HIDE DEF f
<1>5. Window(f, lo, hi + 1, s)'
  <2>1. f[lo] = oldest' /\ f[hi + 1] = newest' /\ lo <= hi + 1 /\ s <= hi + 1
    BY <1>1, <1>3 DEF Shape, Window
  <2>2. \A i \in lo .. hi + 1 : f[i] = Stub <=> i = s
    BY <1>2, <1>3 DEF Shape, Window
  <2>3. \A i \in lo .. hi + 1 : f[i] \in live \cup {Stub}
    BY <1>2, <1>3 DEF Shape, Window
  <2>4. \A i, j \in lo .. hi + 1 : f[i] = f[j] => i = j
    BY <1>3, <1>4 DEF Shape, Window
  <2> QED BY <1>1, <2>1, <2>2, <2>3, <2>4 DEF Window
<1>6. Linked(f, lo, hi + 1, s)'
  <2>1. next'[f[hi + 1]] = NULL
    BY <1>1, <1>2, <1>3
  <2>2. ASSUME NEW i \in lo .. hi + 1 - 1
        PROVE  \/ next'[f[i]] = f[i + 1]
               \/ next'[f[i]] = NULL /\ Linking(f[i], f[i + 1])'
    <3>1. CASE i = hi
      <4>1. f[i] = newest /\ next[newest] = NULL
        BY <1>3, <3>1 DEF Shape, Window, Linked
      <4>2. Linking(f[i], f[i + 1])'
        BY <1>0, <1>1, <1>3, <3>1, <4>1 DEF Linking
      <4> QED BY <1>1, <4>1, <4>2
    <3>2. CASE i \in lo .. hi - 1
      <4>1. f[i] = cell[i] /\ f[i + 1] = cell[i + 1]
        BY <1>3, <3>2
      <4>2. Linking(cell[i], cell[i + 1]) => Linking(cell[i], cell[i + 1])'
        BY <1>1 DEF Linking
      <4> QED BY <1>1, <3>2, <4>1, <4>2 DEF Shape, Linked
    <3> QED BY <1>3, <3>1, <3>2
  <2> QED BY <2>1, <2>2 DEF Linked
<1>7. Listed(f, lo, hi + 1, s)'
  <2>1. order \in Seq(Nodes) /\ Len(order) \in Nat
    BY DEF TypeOK
  <2>2. /\ Len(order') = Len(order) + 1 /\ order'[Len(order) + 1] = n
        /\ \A k \in 1 .. Len(order) : order'[k] = order[k]
    BY <1>1, <1>2, <2>1
  <2>3. Len(order) = IF lo <= s THEN hi - lo ELSE hi - lo + 1
    BY DEF Shape, Listed
  <2>4. ASSUME NEW k \in 1 .. Len(order')
        PROVE  order'[k] = f[IF lo <= s /\ s < lo + k THEN lo + k ELSE lo + k - 1]
    <3>1. CASE k = Len(order) + 1
      BY <1>3, <2>1, <2>2, <2>3, <3>1
    <3>2. CASE k \in 1 .. Len(order)
      <4>1. order'[k] = cell[IF lo <= s /\ s < lo + k THEN lo + k ELSE lo + k - 1]
        BY <2>2, <3>2 DEF Shape, Listed
      <4>2. (IF lo <= s /\ s < lo + k THEN lo + k ELSE lo + k - 1) \in lo .. hi
        BY <1>3, <2>1, <2>3, <3>2
      <4> QED BY <1>3, <4>1, <4>2
    <3> QED BY <2>1, <2>2, <3>1, <3>2
  <2>5. Len(order') = IF lo <= s THEN (hi + 1) - lo ELSE (hi + 1) - lo + 1
    BY <2>2, <2>3
  <2>6. \A k \in 1 .. Len(order') : order'[k] = f[IF lo <= s /\ s < lo + k THEN lo + k ELSE lo + k - 1]
    BY <2>4
  <2> HIDE <2>2, <2>3, <2>4
  <2> QED BY <2>5, <2>6, Zenon DEF Listed
<1>8. Pending(f, lo, hi + 1, s)'
  <2>1. ASSUME NEW q \in Producers, ppc'[q] = "link"
        PROVE  \E i \in lo .. hi + 1 - 1 :
                  pprev'[q] = f[i] /\ pnode'[q] = f[i + 1] /\ next'[f[i]] = NULL
    <3>1. CASE q = p
      <4>1. pprev'[q] = f[hi] /\ pnode'[q] = f[hi + 1] /\ next'[f[hi]] = NULL
        BY <1>0, <1>1, <1>3, <3>1 DEF Shape, Window, Linked
      <4>2. hi \in lo .. hi + 1 - 1
        BY <1>3
      <4> QED BY <4>1, <4>2
    <3>2. CASE q # p
      <4>1. PICK i \in lo .. hi - 1 : pprev[q] = cell[i] /\ pnode[q] = cell[i + 1] /\ next[cell[i]] = NULL
        BY <1>1, <2>1, <3>2 DEF Shape, Pending
      <4>2. i \in lo .. hi + 1 - 1 /\ f[i] = cell[i] /\ f[i + 1] = cell[i + 1]
        BY <1>3
      <4> QED BY <1>1, <3>2, <4>1, <4>2
    <3> QED BY <3>1, <3>2
  <2>2. ASSUME cpc' = "slink"
        PROVE  \E i \in lo .. hi + 1 - 1 :
                  sprev' = f[i] /\ Stub = f[i + 1] /\ next'[f[i]] = NULL
    BY <1>1, <1>3, <2>2 DEF Shape, Pending
  <2> QED BY <2>1, <2>2 DEF Pending
<1>9. Private(f, lo, hi + 1, s)'
  <2> SUFFICES ASSUME NEW q \in Producers, ppc'[q] \in {"store", "xchg"},
                      NEW i \in lo .. hi + 1
               PROVE  f[i] # pnode'[q]
    BY DEF Private
  <2>1. q # p /\ ppc[q] \in {"store", "xchg"} /\ pnode'[q] = pnode[q]
    BY <1>1
  <2>2. pnode[q] # n
    BY <1>0, <1>1, <2>1 DEF Owned, Pushing
  <2> QED BY <1>3, <2>1, <2>2 DEF Shape, Private
<1>10. StubOut(f, lo, hi + 1, s)'
  BY <1>1 DEF Shape, StubOut
<1>11. Shape(f, lo, hi + 1, s)'
  BY <1>5, <1>6, <1>7, <1>8, <1>9, <1>10 DEF Shape
<1> QED BY <1>3, <1>11 DEF Chain, Cells

-----------------------------------------------------------------------------
(* PopAndCheckEnd keeps the chain.                                          *)

\* The exchange of the stub, when it is out of the chain.
LEMMA StubExchangeChain ==
  ASSUME TypeOK, NEW cell \in [Nat -> Cells], NEW lo \in Nat, NEW hi \in Nat, NEW s \in Nat,
         Shape(cell, lo, hi, s), next[Stub] = NULL, StubExchange
  PROVE  Chain'
<1> USE NodesAssumption
<1> DEFINE f == [cell EXCEPT ![hi + 1] = Stub]
           z == hi + 1
<1>1. /\ UNCHANGED <<oldest, next, live, ppc, pnode, pprev, order>>
      /\ cpc = "sxchg" /\ cpc' = "slink" /\ newest' = Stub /\ sprev' = newest
  BY DEF StubExchange, pushVars
<1>2. /\ f \in [Nat -> Cells] /\ f[hi + 1] = Stub /\ lo <= hi /\ s <= hi
      /\ \A i \in lo .. hi : i \in lo .. hi + 1 /\ f[i] = cell[i]
      /\ \A i \in lo .. hi + 1 : i = hi + 1 \/ i \in lo .. hi
      /\ hi \in lo .. hi /\ hi + 1 \in Nat
      /\ \A i \in lo .. hi + 1 - 1 : /\ i \in lo .. hi /\ i + 1 \in lo .. hi + 1
                                     /\ i = hi \/ (i \in lo .. hi - 1 /\ i + 1 \in lo .. hi)
      /\ \A i \in lo .. hi - 1 : i \in lo .. hi + 1 - 1 /\ i \in lo .. hi /\ i + 1 \in lo .. hi
  BY Extend DEF Cells
<1>3. s < lo /\ \A i \in lo .. hi : cell[i] # Stub
  BY <1>1 DEF Shape, StubOut, Window
<1> HIDE DEF f
<1>4. Window(f, lo, hi + 1, z)'
  <2>1. f[lo] = oldest' /\ f[hi + 1] = newest' /\ lo <= hi + 1 /\ z <= hi + 1
    BY <1>1, <1>2 DEF Shape, Window
  <2>2. \A i \in lo .. hi + 1 : f[i] = Stub <=> i = z
    BY <1>2, <1>3
  <2>3. \A i \in lo .. hi + 1 : f[i] \in live \cup {Stub}
    BY <1>2 DEF Shape, Window
  <2>4. \A i, j \in lo .. hi + 1 : f[i] = f[j] => i = j
    BY <1>2, <1>3 DEF Shape, Window
  <2> QED BY <1>1, <2>1, <2>2, <2>3, <2>4 DEF Window
<1>5. Linked(f, lo, hi + 1, z)'
  <2>1. next'[f[hi + 1]] = NULL
    BY <1>1, <1>2
  <2>2. ASSUME NEW i \in lo .. hi + 1 - 1
        PROVE  \/ next'[f[i]] = f[i + 1]
               \/ next'[f[i]] = NULL /\ Linking(f[i], f[i + 1])'
    <3>1. CASE i = hi
      <4>1. f[i] = newest /\ next[newest] = NULL
        BY <1>2, <3>1 DEF Shape, Window, Linked
      <4>2. Linking(f[i], f[i + 1])'
        BY <1>1, <1>2, <3>1, <4>1 DEF Linking
      <4> QED BY <1>1, <4>1, <4>2
    <3>2. CASE i \in lo .. hi - 1
      <4>1. f[i] = cell[i] /\ f[i + 1] = cell[i + 1]
        BY <1>2, <3>2
      <4>2. Linking(cell[i], cell[i + 1]) => Linking(cell[i], cell[i + 1])'
        BY <1>1 DEF Linking
      <4> QED BY <1>1, <3>2, <4>1, <4>2 DEF Shape, Linked
    <3> QED BY <1>2, <3>1, <3>2
  <2> QED BY <2>1, <2>2 DEF Linked
<1>6. Listed(f, lo, hi + 1, z)'
  <2>1. order' = order /\ Len(order) \in Nat /\ Len(order) = hi - lo + 1
    BY <1>1, <1>3 DEF Shape, Listed, TypeOK
  <2>2. ASSUME NEW k \in 1 .. Len(order)
        PROVE  order[k] = f[IF lo <= z /\ z < lo + k THEN lo + k ELSE lo + k - 1]
    <3>1. order[k] = cell[lo + k - 1]
      BY <1>3 DEF Shape, Listed
    <3>2. lo + k - 1 \in lo .. hi /\ ~(z < lo + k)
      BY <2>1
    <3> QED BY <1>2, <3>1, <3>2
  <2> QED BY <1>2, <2>1, <2>2 DEF Listed
<1>7. Pending(f, lo, hi + 1, z)'
  <2>1. ASSUME NEW q \in Producers, ppc'[q] = "link"
        PROVE  \E i \in lo .. hi + 1 - 1 :
                  pprev'[q] = f[i] /\ pnode'[q] = f[i + 1] /\ next'[f[i]] = NULL
    BY <1>1, <1>2, <2>1 DEF Shape, Pending
  <2>2. sprev' = f[hi] /\ Stub = f[hi + 1] /\ next'[f[hi]] = NULL
    BY <1>1, <1>2 DEF Shape, Window, Linked
  <2>3. hi \in lo .. hi + 1 - 1
    BY <1>2
  <2> QED BY <2>1, <2>2, <2>3 DEF Pending
<1>8. Private(f, lo, hi + 1, z)'
  <2> SUFFICES ASSUME NEW q \in Producers, ppc'[q] \in {"store", "xchg"},
                      NEW i \in lo .. hi + 1
               PROVE  f[i] # pnode'[q]
    BY DEF Private
  <2>1. pnode[q] # Stub
    BY DEF TypeOK
  <2> QED BY <1>1, <1>2, <2>1 DEF Shape, Private
<1>9. StubOut(f, lo, hi + 1, z)'
  BY <1>1 DEF StubOut
<1>10. Shape(f, lo, hi + 1, z)'
  BY <1>4, <1>5, <1>6, <1>7, <1>8, <1>9 DEF Shape
<1> QED BY <1>2, <1>10 DEF Chain

\* The store into the stub, which is out of the chain.
LEMMA StubStoreChain ==
  ASSUME TypeOK, NEW cell \in [Nat -> Cells], NEW lo \in Nat, NEW hi \in Nat, NEW s \in Nat,
         Shape(cell, lo, hi, s), StubStore
  PROVE  Shape(cell, lo, hi, s)'
<1> USE NodesAssumption
<1>1. /\ UNCHANGED <<newest, oldest, live, ppc, pnode, pprev, sprev, order>>
      /\ cpc = "sstore" /\ cpc' = "sxchg" /\ next' = [next EXCEPT ![Stub] = NULL]
  BY DEF StubStore, pushVars
<1>2. s < lo /\ \A i \in lo .. hi : cell[i] # Stub
  BY <1>1 DEF Shape, StubOut, Window
<1>3. \A i \in lo .. hi : next'[cell[i]] = next[cell[i]]
  BY <1>1, <1>2 DEF TypeOK
<1>4. Window(cell, lo, hi, s)' /\ Listed(cell, lo, hi, s)' /\ StubOut(cell, lo, hi, s)'
  BY <1>1, <1>2 DEF Shape, Window, Listed, StubOut
<1>5. hi \in lo .. hi /\ \A i \in lo .. hi - 1 : i \in lo .. hi
  BY DEF Shape, Window
<1>6. Linked(cell, lo, hi, s)'
  <2>1. ASSUME NEW c, NEW d, Linking(c, d) PROVE Linking(c, d)'
    BY <1>1, <2>1 DEF Linking
  <2> QED BY <1>3, <1>5, <2>1 DEF Shape, Linked
<1>7. Pending(cell, lo, hi, s)' /\ Private(cell, lo, hi, s)'
  BY <1>1, <1>3, <1>5 DEF Shape, Pending, Private
<1> QED BY <1>4, <1>6, <1>7 DEF Shape

\* The link to the stub closes the gap before it.
LEMMA StubLinkChain ==
  ASSUME TypeOK, NEW cell \in [Nat -> Cells], NEW lo \in Nat, NEW hi \in Nat, NEW s \in Nat,
         Shape(cell, lo, hi, s), StubLink
  PROVE  Shape(cell, lo, hi, s)'
<1> USE NodesAssumption
<1>1. /\ UNCHANGED <<newest, oldest, live, ppc, pnode, pprev, sprev, order>>
      /\ cpc = "slink" /\ cpc' = "retry" /\ next' = [next EXCEPT ![sprev] = Stub]
  BY DEF StubLink, pushVars
<1>2. PICK i \in lo .. hi - 1 : sprev = cell[i] /\ Stub = cell[i + 1] /\ next[cell[i]] = NULL
  BY <1>1 DEF Shape, Pending
<1>3. /\ i \in lo .. hi /\ i + 1 \in lo .. hi /\ hi \in lo .. hi /\ i # hi
      /\ \A j \in lo .. hi - 1 : j \in lo .. hi /\ j + 1 \in lo .. hi
      /\ \A j, k \in lo .. hi : cell[j] = cell[k] => j = k
  BY DEF Shape, Window
<1>4. \A j \in lo .. hi : next'[cell[j]] = IF j = i THEN cell[i + 1] ELSE next[cell[j]]
  BY <1>1, <1>2, <1>3 DEF TypeOK
<1>5. Window(cell, lo, hi, s)' /\ Listed(cell, lo, hi, s)' /\ StubOut(cell, lo, hi, s)'
  BY <1>1 DEF Shape, Window, Listed, StubOut
<1>6. Linked(cell, lo, hi, s)'
  <2>1. next'[cell[hi]] = NULL
    BY <1>3, <1>4 DEF Shape, Linked
  <2>2. ASSUME NEW j \in lo .. hi - 1
        PROVE  \/ next'[cell[j]] = cell[j + 1]
               \/ next'[cell[j]] = NULL /\ Linking(cell[j], cell[j + 1])'
    <3>1. j # i /\ Linking(cell[j], cell[j + 1]) => Linking(cell[j], cell[j + 1])'
      BY <1>1, <1>2, <1>3 DEF Linking
    <3> QED BY <1>3, <1>4, <3>1 DEF Shape, Linked
  <2> QED BY <2>1, <2>2 DEF Linked
<1>7. Pending(cell, lo, hi, s)'
  <2> SUFFICES ASSUME NEW q \in Producers, ppc'[q] = "link"
               PROVE  \E j \in lo .. hi - 1 :
                        pprev'[q] = cell[j] /\ pnode'[q] = cell[j + 1] /\ next'[cell[j]] = NULL
    BY <1>1 DEF Pending
  <2>1. PICK j \in lo .. hi - 1 : pprev[q] = cell[j] /\ pnode[q] = cell[j + 1]
                                  /\ next[cell[j]] = NULL
    BY <1>1 DEF Shape, Pending
  <2>2. pnode[q] # Stub
    BY DEF TypeOK
  <2> QED BY <1>1, <1>2, <1>3, <1>4, <2>1, <2>2
<1>8. Private(cell, lo, hi, s)'
  BY <1>1 DEF Shape, Private
<1> QED BY <1>5, <1>6, <1>7, <1>8 DEF Shape

\* A step that only moves the consumer, before or after the push of the stub.
LEMMA MoveChain ==
  ASSUME NEW cell \in [Nat -> Cells], NEW lo \in Nat, NEW hi \in Nat, NEW s \in Nat,
         Shape(cell, lo, hi, s), cpc # "slink", cpc' # "slink",
         cpc' = "sxchg" => cpc \in {"sstore", "sxchg"}, cpc' = "sstore" => s < lo,
         UNCHANGED <<newest, oldest, next, live, pushVars, order>>
  PROVE  Shape(cell, lo, hi, s)'
<1>1. UNCHANGED <<newest, oldest, next, live, ppc, pnode, pprev, order>>
  BY DEF pushVars
<1>2. Window(cell, lo, hi, s)' /\ Listed(cell, lo, hi, s)' /\ StubOut(cell, lo, hi, s)'
  BY <1>1 DEF Shape, Window, Listed, StubOut
<1>3. Linked(cell, lo, hi, s)'
  <2>1. ASSUME NEW c, NEW d, Linking(c, d) PROVE Linking(c, d)'
    BY <1>1, <2>1 DEF Linking
  <2> QED BY <1>1, <2>1 DEF Shape, Linked
<1>4. Pending(cell, lo, hi, s)' /\ Private(cell, lo, hi, s)'
  BY <1>1 DEF Shape, Pending, Private
<1> QED BY <1>2, <1>3, <1>4 DEF Shape

\* _oldest moves to its successor: the window loses its first cell, which the
\* caller deletes if it is a node.
LEMMA DropChain ==
  ASSUME TypeOK, Owned, NEW cell \in [Nat -> Cells], NEW lo \in Nat, NEW hi \in Nat,
         NEW s \in Nat, Shape(cell, lo, hi, s), cpc # "slink", cpc' \in {"idle", "load"},
         UNCHANGED <<newest, next, pushVars>>,
         next[oldest] # NULL, oldest' = next[oldest],
         IF oldest = Stub THEN UNCHANGED <<live, order>>
                          ELSE live' = live \ {oldest} /\ order' = Tail(order)
  PROVE  Shape(cell, lo + 1, hi, s)'
<1> USE NodesAssumption
<1>1. UNCHANGED <<newest, next, ppc, pnode, pprev>>
  BY DEF pushVars
<1>2. lo < hi /\ lo \in lo .. hi - 1 /\ lo \in lo .. hi /\ lo + 1 \in lo .. hi
  <2>1. lo <= hi /\ (lo = hi => next[oldest] = NULL)
    BY DEF Shape, Window, Linked
  <2> QED BY <2>1
<1>3. cell[lo] = oldest /\ next[cell[lo]] = cell[lo + 1] /\ oldest' = cell[lo + 1]
  BY <1>2 DEF Shape, Window, Linked
<1>4. /\ \A i \in lo + 1 .. hi : i \in lo .. hi /\ i # lo /\ cell[i] # cell[lo]
      /\ \A i \in lo + 1 .. hi - 1 : i \in lo .. hi - 1
  BY <1>2 DEF Shape, Window
<1>5. Window(cell, lo + 1, hi, s)'
  <2>1. \A i \in lo + 1 .. hi : cell[i] \in live' \cup {Stub}
    BY <1>3, <1>4 DEF Shape, Window
  <2>2. lo + 1 <= hi /\ s <= hi /\ cell[hi] = newest'
    BY <1>1, <1>2 DEF Shape, Window
  <2>3. /\ \A i \in lo + 1 .. hi : cell[i] = Stub <=> i = s
        /\ \A i, j \in lo + 1 .. hi : cell[i] = cell[j] => i = j
    BY <1>4 DEF Shape, Window
  <2> QED BY <1>3, <2>1, <2>2, <2>3 DEF Window
<1>6. Linked(cell, lo + 1, hi, s)'
  <2>1. ASSUME NEW c, NEW d, Linking(c, d) PROVE Linking(c, d)'
    BY <1>1, <2>1 DEF Linking
  <2> QED BY <1>1, <1>4, <2>1 DEF Shape, Linked
<1>7. Listed(cell, lo + 1, hi, s)'
  <2>1. Len(order) \in Nat /\ order \in Seq(Nodes)
    BY DEF TypeOK
  <2>2. /\ Len(order) = IF lo <= s THEN hi - lo ELSE hi - lo + 1
        /\ \A k \in 1 .. Len(order) :
             order[k] = cell[IF lo <= s /\ s < lo + k THEN lo + k ELSE lo + k - 1]
    BY DEF Shape, Listed
  <2>3. CASE oldest = Stub
    <3>1. s = lo /\ order' = order
      BY <1>2, <1>3, <2>3 DEF Shape, Window
    <3>2. ASSUME NEW k \in 1 .. Len(order) PROVE order[k] = cell[lo + 1 + k - 1]
      <4>1. order[k] = cell[lo + k]
        BY <2>1, <2>2, <3>1
      <4>2. lo + k = lo + 1 + k - 1
        BY <2>1
      <4> QED BY <4>1, <4>2
    <3>3. ~(lo + 1 <= s) /\ Len(order) = hi - (lo + 1) + 1
      BY <2>2, <3>1
    <3> QED BY <3>1, <3>2, <3>3 DEF Listed
  <2>4. CASE oldest # Stub
    <3>1. s # lo /\ order' = Tail(order)
      BY <1>2, <1>3, <2>4 DEF Shape, Window
    <3>2. Len(order) >= 1 /\ order # <<>>
      BY <1>2, <2>1, <2>2
    <3>3. /\ Len(order') = Len(order) - 1
          /\ \A k \in 1 .. Len(order') : k + 1 \in 1 .. Len(order) /\ order'[k] = order[k + 1]
      BY <2>1, <3>1, <3>2
    <3>4. Len(order') = IF lo + 1 <= s THEN hi - (lo + 1) ELSE hi - (lo + 1) + 1
      BY <2>2, <3>1, <3>3
    <3>5. ASSUME NEW k \in 1 .. Len(order')
          PROVE  order'[k] = cell[IF lo + 1 <= s /\ s < lo + 1 + k THEN lo + 1 + k
                                  ELSE lo + 1 + k - 1]
      <4>1. order'[k] = cell[IF lo <= s /\ s < lo + (k + 1) THEN lo + (k + 1)
                             ELSE lo + (k + 1) - 1]
        BY <2>2, <3>3
      <4>2. (IF lo <= s /\ s < lo + (k + 1) THEN lo + (k + 1) ELSE lo + (k + 1) - 1)
              = (IF lo + 1 <= s /\ s < lo + 1 + k THEN lo + 1 + k ELSE lo + 1 + k - 1)
        BY <2>1, <3>1, <3>3
      <4> QED BY <4>1, <4>2
    <3> QED BY <3>4, <3>5 DEF Listed
  <2> QED BY <2>3, <2>4
<1>8. Pending(cell, lo + 1, hi, s)'
  <2> SUFFICES ASSUME NEW q \in Producers, ppc'[q] = "link"
               PROVE  \E j \in lo + 1 .. hi - 1 :
                        pprev'[q] = cell[j] /\ pnode'[q] = cell[j + 1] /\ next'[cell[j]] = NULL
    BY DEF Pending
  <2>1. PICK j \in lo .. hi - 1 : pprev[q] = cell[j] /\ pnode[q] = cell[j + 1]
                                  /\ next[cell[j]] = NULL
    BY <1>1 DEF Shape, Pending
  <2>2. j # lo
    BY <1>3, <2>1
  <2>3. j \in lo + 1 .. hi - 1
    BY <2>2
  <2> QED BY <1>1, <2>1, <2>3
<1>9. Private(cell, lo + 1, hi, s)'
  BY <1>1, <1>4 DEF Shape, Private
<1>10. StubOut(cell, lo + 1, hi, s)'
  BY DEF StubOut
<1> QED BY <1>5, <1>6, <1>7, <1>8, <1>9, <1>10 DEF Shape

-----------------------------------------------------------------------------
(* The inductive invariant.                                                 *)

\* The chain of a new queue is the stub.
LEMMA InitIInv == Init => IInv
<1> SUFFICES ASSUME Init PROVE IInv
  OBVIOUS
<1> USE NodesAssumption
<1>1. TypeOK
  <2>1. next \in [Cells -> Cells \cup {NULL}] /\ order \in Seq(Nodes)
    BY DEF Init
  <2>2. /\ ppc \in [Producers -> {"idle", "store", "xchg", "link"}]
        /\ pnode \in [Producers -> Nodes \cup {NULL}]
        /\ pprev \in [Producers -> Cells \cup {NULL}]
    BY DEF Init
  <2>3. cpc \in {"idle", "load", "last", "sstore", "sxchg", "slink", "retry"}
    BY DEF Init
  <2>4. empty \in BOOLEAN /\ first \in BOOLEAN \X BOOLEAN
    BY DEF Init
  <2>5. newest \in Cells /\ oldest \in Cells /\ live \in SUBSET Nodes
    BY DEF Init, Cells
  <2>6. tail \in Cells \cup {NULL} /\ sprev \in Cells \cup {NULL}
    BY DEF Init
  <2> QED BY <2>1, <2>2, <2>3, <2>4, <2>5, <2>6 DEF TypeOK
<1>2. Chain
  <2> DEFINE f == [i \in Nat |-> Stub]
  <2>1. f \in [Nat -> Cells] /\ f[1] = Stub
    BY DEF Cells
  <2> HIDE DEF f
  <2>2. Window(f, 1, 1, 1) /\ Linked(f, 1, 1, 1)
    BY <2>1 DEF Init, Window, Linked, Cells
  <2>3. Listed(f, 1, 1, 1)
    BY DEF Init, Listed
  <2>4. Pending(f, 1, 1, 1) /\ Private(f, 1, 1, 1) /\ StubOut(f, 1, 1, 1)
    BY DEF Init, Pending, Private, StubOut
  <2>5. Shape(f, 1, 1, 1)
    BY <2>2, <2>3, <2>4 DEF Shape
  <2> QED BY <2>1, <2>5 DEF Chain
<1>3. Owned /\ TailInv /\ StubNull
  BY DEF Init, Owned, Pushing, TailInv, StubNull
<1>4. FirstIsReported
  BY DEF Init, FirstIsReported
<1> QED BY <1>1, <1>2, <1>3, <1>4 DEF IInv

\* What Advance does to the queue: the head of order is given away.
LEMMA AdvanceTakesHead ==
  ASSUME IInv, NEW n, n = oldest, n # Stub, Advance(n)
  PROVE  /\ order # <<>> /\ n = Head(order) /\ order' = Tail(order)
         /\ n \in Nodes /\ live' = live \ {n} /\ oldest' = next[n] /\ next[n] # NULL
         /\ oldest' \in Cells /\ order' \in Seq(Nodes)
         /\ cpc' = "idle" /\ tail' = NULL /\ sprev' = NULL /\ empty' = FALSE
<1>1. TypeOK /\ Chain
  BY DEF IInv
<1>2. order # <<>> /\ Head(order) = n
  BY <1>1, Ends DEF Chain
<1>3. order' = Tail(order)
  BY <1>1, <1>2, RemoveHead DEF Advance, Deliver, TypeOK
<1>4. order' \in Seq(Nodes)
  BY <1>1, <1>2, <1>3 DEF TypeOK
<1>5. n \in Nodes /\ (next[n] # NULL => next[n] \in Cells)
  BY <1>1 DEF TypeOK, Cells
<1> QED BY <1>2, <1>3, <1>4, <1>5 DEF Advance, Deliver

\* Every step of push preserves the invariant.
LEMMA PushIInv ==
  ASSUME IInv, NEW p \in Producers, New(p) \/ PushStep(p)
  PROVE  IInv'
<1> USE NodesAssumption
<1>1. TypeOK /\ Chain /\ Owned /\ TailInv /\ StubNull /\ FirstIsReported
  BY DEF IInv
<1>2. PICK cell \in [Nat -> Cells], lo \in Nat, hi \in Nat, s \in Nat : Shape(cell, lo, hi, s)
  BY <1>1 DEF Chain
<1>3. /\ cpc' = cpc /\ tail' = tail /\ oldest' = oldest /\ sprev' = sprev /\ empty' = empty
      /\ \A q \in Producers : q # p => ppc'[q] = ppc[q] /\ pnode'[q] = pnode[q]
      /\ live \subseteq live'
  BY <1>1 DEF New, PushStep, PushStore, PushExchange, PushLink, popVars, TypeOK
<1>4. TailInv'
  BY <1>1, <1>3 DEF TailInv
<1>5. CASE New(p)
  <2>1. PICK n \in Nodes \ live : live' = live \cup {n} /\ pnode' = [pnode EXCEPT ![p] = n]
    BY <1>5 DEF New
  <2>2. TypeOK'
    BY <1>1, <1>5, <2>1 DEF New, TypeOK, popVars
  <2>3. Owned'
    <3>1. ppc'[p] = "store" /\ pnode'[p] = n /\ next' = next /\ ppc[p] = "idle"
      BY <1>1, <1>5, <2>1 DEF New, TypeOK
    <3> QED BY <1>1, <1>3, <2>1, <3>1 DEF Owned, Pushing
  <2>4. StubNull' /\ FirstIsReported'
    BY <1>1, <1>3, <1>5 DEF New, StubNull, FirstIsReported
  <2>5. Chain'
    BY <1>1, <1>2, <1>5, NewChain DEF Chain
  <2> QED BY <1>4, <2>2, <2>3, <2>4, <2>5 DEF IInv
<1>6. CASE PushStore(p)
  <2>1. ppc[p] = "store" /\ pnode[p] \in Nodes /\ pnode[p] \in live
    BY <1>1, <1>6 DEF PushStore, Owned, Pushing, TypeOK
  <2>2. next' = [next EXCEPT ![pnode[p]] = NULL] /\ pnode' = pnode /\ live' = live
        /\ ppc' = [ppc EXCEPT ![p] = "xchg"] /\ first' = first
    BY <1>6 DEF PushStore
  <2>3. TypeOK'
    BY <1>1, <1>6, <2>1, <2>2 DEF PushStore, TypeOK, popVars, Cells
  <2>4. Owned'
    <3>1. /\ next'[pnode[p]] = NULL
          /\ \A c \in Cells : c # pnode[p] => next'[c] = next[c]
      BY <1>1, <2>1, <2>2 DEF TypeOK, Cells
    <3>2. ppc'[p] = "xchg"
      BY <1>1, <2>2 DEF TypeOK
    <3>3. \A q \in Producers : q \in Pushing' <=> q \in Pushing
      BY <1>3, <2>1, <3>2 DEF Pushing
    <3>4. ASSUME NEW q \in Producers, ppc'[q] = "xchg" PROVE next'[pnode'[q]] = NULL
      <4>1. q \in Pushing
        BY <3>3, <3>4 DEF Pushing
      <4>2. pnode[q] \in Cells
        BY <1>1, <4>1 DEF Owned, TypeOK, Cells
      <4> QED BY <1>1, <1>3, <2>2, <3>1, <3>4, <4>1, <4>2 DEF Owned
    <3>5. Pushing' = Pushing
      BY <3>3 DEF Pushing
    <3> QED BY <1>1, <2>2, <3>4, <3>5 DEF Owned
  <2>5. StubNull' /\ FirstIsReported'
    BY <1>1, <1>3, <2>1, <2>2 DEF StubNull, FirstIsReported, TypeOK, Cells
  <2>6. Chain'
    BY <1>1, <1>2, <1>6, PushStoreChain DEF Chain
  <2> QED BY <1>4, <2>3, <2>4, <2>5, <2>6 DEF IInv
<1>7. CASE PushExchange(p)
  <2>1. ppc[p] = "xchg" /\ pnode[p] \in Nodes /\ pnode[p] \in live
    BY <1>1, <1>7 DEF PushExchange, Owned, Pushing, TypeOK
  <2>2. /\ UNCHANGED <<next, pnode, live>> /\ ppc' = [ppc EXCEPT ![p] = "link"]
        /\ order' = Append(order, pnode[p]) /\ first' = <<newest = Stub, order = <<>> >>
        /\ newest' = pnode[p] /\ pprev' = [pprev EXCEPT ![p] = newest]
    BY <1>7 DEF PushExchange
  <2>3. order' \in Seq(Nodes)
    BY <1>1, <2>1, <2>2 DEF TypeOK
  <2>4. first' \in BOOLEAN \X BOOLEAN
    BY <2>2
  <2>5. TypeOK'
    BY <1>1, <1>3, <2>1, <2>2, <2>3, <2>4 DEF TypeOK, Cells
  <2>6. Owned'
    <3>1. ppc'[p] = "link"
      BY <1>1, <2>2 DEF TypeOK
    <3>2. Pushing' = Pushing
      BY <1>3, <2>1, <3>1 DEF Pushing
    <3> QED BY <1>1, <1>3, <2>2, <3>1, <3>2 DEF Owned
  <2>7. StubNull'
    BY <1>1, <1>3, <2>2 DEF StubNull
  <2>8. FirstIsReported'
    <3>1. order = <<>> => newest = Stub
      BY <1>1, <1>2, Ends
    <3>2. first'[1] = (newest = Stub) /\ first'[2] = (order = <<>>)
      BY <2>2
    <3> QED BY <3>1, <3>2 DEF FirstIsReported
  <2>9. Chain'
    BY <1>1, <1>2, <1>7, PushExchangeChain
  <2> QED BY <1>4, <2>5, <2>6, <2>7, <2>8, <2>9 DEF IInv
<1>8. CASE PushLink(p)
  <2>1. ppc[p] = "link" /\ pnode[p] \in Nodes
    BY <1>1, <1>8 DEF PushLink, Owned, Pushing, TypeOK
  <2>2. PICK i \in lo .. hi - 1 : pprev[p] = cell[i] /\ pnode[p] = cell[i + 1]
                                  /\ next[cell[i]] = NULL
    BY <1>2, <2>1 DEF Shape, Pending
  <2>3. pprev[p] \in Cells /\ i \in lo .. hi
    BY <2>2
  <2>4. /\ next' = [next EXCEPT ![pprev[p]] = pnode[p]] /\ live' = live /\ first' = first
        /\ ppc' = [ppc EXCEPT ![p] = "idle"]
    BY <1>8 DEF PushLink
  <2>5. TypeOK'
    BY <1>1, <1>8, <2>1, <2>3 DEF PushLink, TypeOK, popVars, Cells
  <2>6. Owned'
    <3>1. ppc'[p] = "idle"
      BY <1>1, <2>4 DEF TypeOK
    <3>2. ASSUME NEW q \in Producers, ppc'[q] = "xchg" PROVE next'[pnode'[q]] = NULL
      <4>1. q # p /\ ppc[q] = "xchg" /\ pnode'[q] = pnode[q]
        BY <1>3, <3>1, <3>2
      <4>2. pnode[q] # pprev[p]
        BY <1>2, <2>2, <2>3, <4>1 DEF Shape, Private
      <4>3. pnode[q] \in Cells /\ next[pnode[q]] = NULL
        BY <1>1, <4>1 DEF Owned, Pushing, TypeOK, Cells
      <4> QED BY <1>1, <2>4, <4>1, <4>2, <4>3 DEF TypeOK
    <3> QED BY <1>1, <1>3, <2>4, <3>1, <3>2 DEF Owned, Pushing
  <2>7. StubNull'
    <3>1. cpc = "sxchg" => pprev[p] # Stub
      BY <1>2, <2>2, <2>3 DEF Shape, StubOut, Window
    <3> QED BY <1>1, <1>3, <2>3, <2>4, <3>1 DEF StubNull, TypeOK, Cells
  <2>8. FirstIsReported'
    BY <1>1, <2>4 DEF FirstIsReported
  <2>9. Chain'
    BY <1>1, <1>2, <1>8, PushLinkChain DEF Chain
  <2> QED BY <1>4, <2>5, <2>6, <2>7, <2>8, <2>9 DEF IInv
<1> QED BY <1>5, <1>6, <1>7, <1>8 DEF PushStep

\* A node is returned: the steps of PopStart, PopLoad and PopRetry that end so.
LEMMA TakeIInv ==
  ASSUME IInv, cpc # "slink", oldest # Stub, Advance(oldest),
         UNCHANGED <<newest, next, pushVars, first>>
  PROVE  IInv'
<1> USE NodesAssumption
<1>1. TypeOK /\ Chain /\ Owned /\ FirstIsReported
  BY DEF IInv
<1>2. PICK cell \in [Nat -> Cells], lo \in Nat, hi \in Nat, s \in Nat : Shape(cell, lo, hi, s)
  BY <1>1 DEF Chain
<1>3. /\ order' = Tail(order) /\ order' \in Seq(Nodes)
      /\ oldest \in Nodes /\ live' = live \ {oldest} /\ oldest' = next[oldest]
      /\ next[oldest] # NULL /\ oldest' \in Cells
      /\ cpc' = "idle" /\ tail' = NULL /\ sprev' = NULL /\ empty' = FALSE
  BY AdvanceTakesHead
<1>4. UNCHANGED <<ppc, pnode, pprev>>
  BY DEF pushVars
<1>5. TypeOK'
  BY <1>1, <1>3, <1>4 DEF TypeOK
<1>6. lo + 1 \in Nat /\ Shape(cell, lo + 1, hi, s)'
  <2>1. /\ cpc' \in {"idle", "load"} /\ UNCHANGED <<newest, next, pushVars>>
        /\ IF oldest = Stub THEN UNCHANGED <<live, order>>
                            ELSE live' = live \ {oldest} /\ order' = Tail(order)
    BY <1>3
  <2>2. Shape(cell, lo + 1, hi, s)'
    BY <1>1, <1>2, <1>3, <2>1, DropChain
  <2> QED BY <2>2
<1>7. Chain'
  BY <1>6 DEF Chain
<1>8. Owned'
  <2>1. Pushing' = Pushing
    BY <1>4 DEF Pushing
  <2>2. ASSUME NEW p \in Pushing PROVE pnode[p] # oldest
    <3>1. lo \in lo .. hi /\ cell[lo] = oldest
      BY <1>2 DEF Shape, Window
    <3>2. CASE ppc[p] = "link"
      <4>1. PICK i \in lo .. hi - 1 : pnode[p] = cell[i + 1]
        BY <1>2, <3>2 DEF Shape, Pending, Pushing
      <4>2. i + 1 \in lo .. hi /\ i + 1 # lo
        OBVIOUS
      <4> QED BY <1>2, <3>1, <4>1, <4>2 DEF Shape, Window
    <3>3. CASE ppc[p] \in {"store", "xchg"}
      BY <1>2, <3>1, <3>3 DEF Shape, Private, Pushing
    <3> QED BY <1>1, <3>2, <3>3 DEF Pushing, TypeOK
  <2> QED BY <1>1, <1>3, <1>4, <2>1, <2>2 DEF Owned
<1>9. TailInv' /\ StubNull' /\ FirstIsReported'
  BY <1>1, <1>3 DEF TailInv, StubNull, FirstIsReported
<1> QED BY <1>5, <1>7, <1>8, <1>9 DEF IInv

\* A step of the consumer that leaves the list alone.
LEMMA MoveIInv ==
  ASSUME IInv, cpc # "slink", cpc' \in {"idle", "last", "sstore"},
         cpc' = "sstore" => cpc = "last" /\ tail = newest,
         tail' \in Cells \cup {NULL}, sprev' \in Cells \cup {NULL}, empty' \in BOOLEAN, TailInv',
         UNCHANGED <<newest, oldest, next, live, pushVars, order, first>>
  PROVE  IInv'
<1> USE NodesAssumption
<1>1. TypeOK /\ Chain /\ Owned /\ TailInv /\ FirstIsReported
  BY DEF IInv
<1>2. PICK cell \in [Nat -> Cells], lo \in Nat, hi \in Nat, s \in Nat : Shape(cell, lo, hi, s)
  BY <1>1 DEF Chain
<1>3. TypeOK'
  BY <1>1 DEF TypeOK, pushVars
<1>4. cpc' = "sstore" => s < lo
  <2> SUFFICES ASSUME cpc = "last", tail = newest PROVE s < lo
    OBVIOUS
  <2>1. oldest = newest /\ oldest # Stub
    BY <1>1 DEF TailInv
  <2>2. lo \in lo .. hi /\ hi \in lo .. hi /\ lo = hi
    BY <1>2, <2>1 DEF Shape, Window
  <2> QED BY <1>2, <2>1, <2>2 DEF Shape, Window
<1>5. Chain'
  BY <1>2, <1>4, MoveChain DEF Chain
<1>6. Owned' /\ StubNull' /\ FirstIsReported'
  BY <1>1 DEF Owned, Pushing, pushVars, StubNull, FirstIsReported
<1> QED BY <1>3, <1>5, <1>6 DEF IInv

\* Every step of PopAndCheckEnd preserves the invariant.
LEMMA PopIInv ==
  ASSUME IInv, PopStep
  PROVE  IInv'
<1> USE NodesAssumption
<1>1. TypeOK /\ Chain /\ Owned /\ TailInv /\ StubNull /\ FirstIsReported
  BY DEF IInv
<1>2. PICK cell \in [Nat -> Cells], lo \in Nat, hi \in Nat, s \in Nat : Shape(cell, lo, hi, s)
  BY <1>1 DEF Chain
<1>3. cpc # "idle" => tail = oldest /\ oldest # Stub
  BY <1>1 DEF TailInv
<1>4. tail \in Cells \cup {NULL} /\ sprev \in Cells \cup {NULL} /\ empty \in BOOLEAN
      /\ oldest \in Cells /\ newest \in Cells
  BY <1>1 DEF TypeOK
<1>5. CASE PopStart
  <2>1. cpc = "idle" /\ UNCHANGED <<newest, next, pushVars, first>>
    BY <1>5 DEF PopStart
  <2>2. CASE GiveUp(TRUE) /\ UNCHANGED oldest
    <3>1. TailInv' /\ cpc' = "idle" /\ empty' = TRUE /\ tail' = NULL /\ sprev' = NULL
      BY <2>2 DEF GiveUp, TailInv
    <3> QED BY <2>1, <2>2, <3>1, MoveIInv DEF GiveUp
  <2>3. CASE /\ oldest = Stub /\ next[Stub] # NULL /\ oldest' = next[Stub] /\ tail' = next[Stub]
             /\ cpc' = "load" /\ UNCHANGED <<sprev, empty, order, live>>
    <3>1. lo + 1 \in Nat /\ Shape(cell, lo + 1, hi, s)'
      BY <1>1, <1>2, <2>1, <2>3, DropChain
    <3>2. TypeOK'
      BY <1>1, <2>1, <2>3 DEF TypeOK, pushVars, Cells
    <3>3. oldest' # Stub
      <4>1. /\ cell[lo] = Stub /\ lo \in lo .. hi /\ cell[lo + 1] = oldest'
            /\ lo + 1 \in lo + 1 .. hi /\ lo + 1 \in lo .. hi
        BY <1>2, <2>3, <3>1 DEF Shape, Window
      <4> QED BY <1>2, <4>1 DEF Shape, Window
    <3>4. Owned' /\ TailInv' /\ StubNull' /\ FirstIsReported'
      BY <1>1, <2>1, <2>3, <3>3 DEF Owned, Pushing, pushVars, TailInv, StubNull, FirstIsReported
    <3> QED BY <3>1, <3>2, <3>4 DEF IInv, Chain
  <2>4. CASE oldest # Stub /\ Advance(oldest)
    BY <2>1, <2>4, TakeIInv
  <2>5. CASE /\ oldest # Stub /\ next[oldest] = NULL /\ tail' = oldest /\ cpc' = "last"
             /\ UNCHANGED <<oldest, sprev, empty, order, live>>
    <3>1. TailInv'
      BY <2>5 DEF TailInv
    <3> QED BY <1>4, <2>1, <2>5, <3>1, MoveIInv
  <2> QED BY <1>5, <2>2, <2>3, <2>4, <2>5 DEF PopStart
<1>6. CASE PopLoad
  <2>1. cpc = "load" /\ UNCHANGED <<newest, next, pushVars, first>>
    BY <1>6 DEF PopLoad
  <2>2. CASE Advance(tail)
    BY <1>3, <2>1, <2>2, TakeIInv
  <2>3. CASE cpc' = "last" /\ UNCHANGED <<oldest, tail, sprev, empty, order, live>>
    <3>1. TailInv'
      BY <1>3, <2>1, <2>3 DEF TailInv
    <3> QED BY <1>4, <2>1, <2>3, <3>1, MoveIInv
  <2> QED BY <1>6, <2>2, <2>3 DEF PopLoad
<1>7. CASE PopLast
  <2>1. cpc = "last" /\ UNCHANGED <<newest, oldest, next, pushVars, first>>
    BY <1>7 DEF PopLast
  <2>2. CASE GiveUp(FALSE)
    <3>1. TailInv' /\ cpc' = "idle" /\ empty' = FALSE /\ tail' = NULL /\ sprev' = NULL
      BY <2>2 DEF GiveUp, TailInv
    <3> QED BY <2>1, <2>2, <3>1, MoveIInv DEF GiveUp
  <2>3. CASE tail = newest /\ cpc' = "sstore" /\ UNCHANGED <<tail, sprev, empty, order, live>>
    <3>1. TailInv'
      BY <1>3, <2>1, <2>3 DEF TailInv
    <3> QED BY <1>4, <2>1, <2>3, <3>1, MoveIInv
  <2> QED BY <1>7, <2>2, <2>3 DEF PopLast
<1>8. CASE StubStore
  <2>1. /\ cpc = "sstore" /\ cpc' = "sxchg" /\ next' = [next EXCEPT ![Stub] = NULL]
        /\ UNCHANGED <<newest, oldest, live, ppc, pnode, pprev, tail, sprev, empty, order, first>>
    BY <1>8 DEF StubStore, pushVars
  <2>2. TypeOK'
    BY <1>1, <2>1 DEF TypeOK
  <2>3. Chain'
    BY <1>1, <1>2, <1>8, StubStoreChain DEF Chain
  <2>4. Owned'
    <3>1. ASSUME NEW p \in Producers, ppc[p] = "xchg" PROVE next'[pnode[p]] = next[pnode[p]]
      <4>1. pnode[p] \in Nodes
        BY <1>1, <3>1 DEF Owned, Pushing, TypeOK
      <4> QED BY <1>1, <2>1, <4>1 DEF TypeOK, Cells
    <3> QED BY <1>1, <2>1, <3>1 DEF Owned, Pushing
  <2>5. TailInv' /\ FirstIsReported' /\ StubNull'
    BY <1>1, <1>3, <2>1 DEF TailInv, FirstIsReported, StubNull, TypeOK, Cells
  <2> QED BY <2>2, <2>3, <2>4, <2>5 DEF IInv
<1>9. CASE StubExchange
  <2>1. /\ cpc = "sxchg" /\ cpc' = "slink" /\ sprev' = newest /\ newest' = Stub
        /\ UNCHANGED <<oldest, next, live, ppc, pnode, pprev, tail, empty, order, first>>
    BY <1>9 DEF StubExchange, pushVars
  <2>2. TypeOK'
    BY <1>1, <2>1 DEF TypeOK, Cells
  <2>3. Chain'
    BY <1>1, <1>2, <1>9, <2>1, StubExchangeChain DEF StubNull
  <2>4. Owned' /\ TailInv' /\ FirstIsReported' /\ StubNull'
    BY <1>1, <1>3, <2>1 DEF Owned, Pushing, TailInv, FirstIsReported, StubNull
  <2> QED BY <2>2, <2>3, <2>4 DEF IInv
<1>10. CASE StubLink
  <2>1. /\ cpc = "slink" /\ cpc' = "retry" /\ next' = [next EXCEPT ![sprev] = Stub]
        /\ UNCHANGED <<newest, oldest, live, ppc, pnode, pprev, tail, sprev, empty, order, first>>
    BY <1>10 DEF StubLink, pushVars
  <2>2. PICK i \in lo .. hi - 1 : sprev = cell[i]
    BY <1>2, <2>1 DEF Shape, Pending
  <2>3. sprev \in Cells /\ i \in lo .. hi
    BY <2>2
  <2>4. TypeOK'
    BY <1>1, <2>1, <2>3 DEF TypeOK, Cells
  <2>5. Chain'
    BY <1>1, <1>2, <1>10, StubLinkChain DEF Chain
  <2>6. Owned'
    <3>1. ASSUME NEW p \in Producers, ppc[p] = "xchg" PROVE next'[pnode[p]] = next[pnode[p]]
      <4>1. pnode[p] \in Cells
        BY <1>1, <3>1 DEF Owned, Pushing, TypeOK, Cells
      <4>2. pnode[p] # sprev
        BY <1>2, <2>2, <2>3, <3>1 DEF Shape, Private
      <4> QED BY <1>1, <2>1, <4>1, <4>2 DEF TypeOK
    <3> QED BY <1>1, <2>1, <3>1 DEF Owned, Pushing
  <2>7. TailInv' /\ FirstIsReported' /\ StubNull'
    BY <1>1, <1>3, <2>1 DEF TailInv, FirstIsReported, StubNull
  <2> QED BY <2>4, <2>5, <2>6, <2>7 DEF IInv
<1>11. CASE PopRetry
  <2>1. cpc = "retry" /\ UNCHANGED <<newest, next, pushVars, first>>
    BY <1>11 DEF PopRetry
  <2>2. CASE Advance(tail)
    BY <1>3, <2>1, <2>2, TakeIInv
  <2>3. CASE GiveUp(FALSE) /\ UNCHANGED oldest
    <3>1. TailInv' /\ cpc' = "idle" /\ empty' = FALSE /\ tail' = NULL /\ sprev' = NULL
      BY <2>3 DEF GiveUp, TailInv
    <3> QED BY <2>1, <2>3, <3>1, MoveIInv DEF GiveUp
  <2> QED BY <1>11, <2>2, <2>3 DEF PopRetry
<1> QED BY <1>5, <1>6, <1>7, <1>8, <1>9, <1>10, <1>11 DEF PopStep

\* Every reachable state satisfies the invariant.
LEMMA Inductive == Spec => []IInv
<1>1. IInv /\ [Next]_vars => IInv'
  <2> SUFFICES ASSUME IInv, [Next]_vars PROVE IInv'
    OBVIOUS
  <2>1. ASSUME UNCHANGED vars PROVE IInv'
    <3>1. UNCHANGED <<newest, oldest, next, live, ppc, pnode, pprev, cpc, tail, sprev, empty,
                      order, first>>
      BY <2>1 DEF vars, pushVars, popVars
    <3>2. TypeOK' /\ Owned' /\ TailInv' /\ StubNull' /\ FirstIsReported'
      BY <3>1 DEF IInv, TypeOK, Owned, Pushing, TailInv, StubNull, FirstIsReported
    <3>3. ASSUME NEW cell \in [Nat -> Cells], NEW lo \in Nat, NEW hi \in Nat, NEW s \in Nat,
                 Shape(cell, lo, hi, s)
          PROVE  Shape(cell, lo, hi, s)'
      BY <3>1, <3>3 DEF Shape, Window, Linked, Linking, Listed, Pending, Private, StubOut
    <3> QED BY <3>2, <3>3 DEF IInv, Chain
  <2> QED BY <2>1, PushIInv, PopIInv DEF Next
<1> QED BY InitIInv, <1>1, PTL DEF Spec

-----------------------------------------------------------------------------
(* The theorems.                                                            *)

\* NodesSafe: neither push nor PopAndCheckEnd touches a node the caller may
\* have deleted, the destructor's assertions hold of a drained queue, a push
\* into an empty queue says so, and pop returns the oldest node.
THEOREM SafeForNodes == Spec => []NodesSafe
<1>1. IInv => NodesSafe
  <2> SUFFICES ASSUME IInv PROVE NodesSafe
    OBVIOUS
  <2>1. TypeOK /\ Chain /\ TailInv /\ FirstIsReported
    BY DEF IInv
  <2>2. PICK cell \in [Nat -> Cells], lo \in Nat, hi \in Nat, s \in Nat : Shape(cell, lo, hi, s)
    BY <2>1 DEF Chain
  <2>3. oldest \in live \cup {Stub}
    BY <2>2 DEF Shape, Window
  <2>4. ASSUME NEW p \in Producers, ppc[p] = "link" PROVE pprev[p] \in live \cup {Stub}
    <3>1. PICK i \in lo .. hi - 1 : pprev[p] = cell[i]
      BY <2>2, <2>4 DEF Shape, Pending
    <3>2. i \in lo .. hi
      OBVIOUS
    <3> QED BY <2>2, <3>1, <3>2 DEF Shape, Window
  <2>5. NoUseAfterDelete
    BY <2>1, <2>3, <2>4 DEF NoUseAfterDelete, TailInv
  <2>6. DrainedIsStub /\ ReturnsHead
    BY <2>1, <2>2, Ends DEF DrainedIsStub, ReturnsHead, TailInv
  <2> QED BY <2>1, <2>5, <2>6 DEF NodesSafe
<1> QED BY Inductive, <1>1, PTL

\* EmptyIsHonest: PopAndCheckEnd sets *empty only when there is nothing in the
\* queue or the push of its first node is one store short of its end.
THEOREM EmptyMeansEmpty == Spec => EmptyIsHonest
<1> DEFINE Honest == \/ order = <<>>
                     \/ \E p \in Producers : ppc[p] = "link" /\ pnode[p] = Head(order)
<1>1. IInv /\ [Next]_vars => [PopStep /\ cpc' = "idle" /\ empty' => Honest]_vars
  <2> SUFFICES ASSUME IInv, PopStep, cpc' = "idle", empty' PROVE Honest
    OBVIOUS
  <2> USE NodesAssumption
  <2>1. TypeOK /\ Chain
    BY DEF IInv
  <2>2. cpc = "idle" /\ oldest = Stub /\ next[Stub] = NULL
    BY DEF PopStep, PopStart, PopLoad, PopLast, StubStore, StubExchange, StubLink, PopRetry,
       Advance, Deliver, GiveUp
  <2>3. PICK cell \in [Nat -> Cells], lo \in Nat, hi \in Nat, s \in Nat : Shape(cell, lo, hi, s)
    BY <2>1 DEF Chain
  <2>4. Len(order) \in Nat /\ order \in Seq(Nodes)
    BY <2>1 DEF TypeOK
  <2>5. s = lo /\ cell[lo] = Stub /\ lo \in lo .. hi
    BY <2>2, <2>3 DEF Shape, Window
  <2>6. Len(order) = hi - lo
    BY <2>3, <2>5 DEF Shape, Listed
  <2>7. CASE lo = hi
    BY <2>4, <2>6, <2>7
  <2>8. CASE lo < hi
    <3>1. lo \in lo .. hi - 1 /\ lo + 1 \in lo .. hi /\ 1 \in 1 .. Len(order)
      BY <2>6, <2>8
    <3>2. order[1] = cell[lo + 1]
      BY <2>3, <2>5, <3>1 DEF Shape, Listed
    <3>3. cell[lo + 1] # NULL
      BY <2>4, <3>1, <3>2
    <3>4. Linking(cell[lo], cell[lo + 1])
      BY <2>2, <2>3, <2>5, <3>1, <3>3 DEF Shape, Linked
    <3>5. Head(order) = cell[lo + 1]
      BY <2>4, <3>1, <3>2
    <3> QED BY <2>2, <3>4, <3>5 DEF Linking
  <2> QED BY <2>3, <2>5, <2>7, <2>8 DEF Shape, Window
<1> QED BY Inductive, <1>1, PTL DEF Spec, EmptyIsHonest

\* IsFifo: the queue of mpscq.cc implements the abstract first-in first-out
\* queue: an exchange puts a node in, PopAndCheckEnd takes the head out, and no
\* other step of either shows.
THEOREM ImplementsFifo == Spec => IsFifo
<1>1. Init => Queue!Init
  BY DEF Init, Queue!Init
<1>2. IInv /\ [Next]_vars => [Queue!Next]_order
  <2> SUFFICES ASSUME IInv, [Next]_vars PROVE [Queue!Next]_order
    OBVIOUS
  <2>1. cpc # "idle" => tail = oldest /\ oldest # Stub
    BY DEF IInv, TailInv
  <2>2. ASSUME NEW p \in Producers, PushExchange(p) PROVE Queue!Next
    <3>1. pnode[p] \in Nodes /\ order' = Append(order, pnode[p])
      BY <2>2, NodesAssumption DEF IInv, PushExchange, Owned, Pushing, TypeOK
    <3> QED BY <3>1 DEF Queue!Next, Queue!Put
  <2>3. ASSUME oldest # Stub, Advance(oldest) PROVE Queue!Next
    BY <2>3, AdvanceTakesHead DEF Queue!Next, Queue!Take
  <2>4. ASSUME NEW p \in Producers, New(p) \/ PushStore(p) \/ PushLink(p) PROVE order' = order
    BY <2>4 DEF New, PushStore, PushLink
  <2>5. PopStep => order' = order \/ (oldest # Stub /\ Advance(oldest))
    BY <2>1 DEF PopStep, PopStart, PopLoad, PopLast, StubStore, StubExchange, StubLink, PopRetry,
       GiveUp
  <2> QED BY <2>2, <2>3, <2>4, <2>5 DEF Next, PushStep, vars
<1> QED BY Inductive, <1>1, <1>2, PTL DEF Spec, IsFifo, Queue!Spec

-----------------------------------------------------------------------------
(* The timer, the log and the thread they own.                              *)

\* The types that WorkTypeOK leaves out.
LocalType ==
    /\ made \in 0 .. MaxItems
    /\ deadline \in [Ids -> Nat] /\ done \in [Ids -> Nat]
    /\ round \in [begin : Nat, current : Nat, count : 0 .. MaxFired]

\* The owner's steps: the state of the thread object it goes on with, and that the
\* flag is set from the beginning of Shutdown to the end of Init.
OwnerInv ==
    /\ boss \in {"made", "ready", "start"} => state \in {"kAlive", "kFailed"}
    /\ boss = "running" => state \in {"kActive", "kFailed"}
    /\ boss = "join" => state \in {"kAlive", "kActive", "kFailed"}
    /\ boss \in {"join", "joining", "drain", "idle"} => shutdown

\* Nobody begins a push once the flag is set.
RaceInv == boss \in {"join", "joining", "drain", "idle"} => UnderWay \subseteq racing

\* A round looks at the clock it read before.
RoundInv == run = "fire" => round.begin <= now

\* The places an item can be in, as a set: exactly one for an item that was made.
InQueue(i) == \E n \in DOMAIN queue : queue[n] = i
InHand(i) == \E u \in Users : hand[u] = i
Kinds == {"hand", "queue", "table", "done", "dropped", "leaked"}
At(i) ==
    {k \in Kinds : \/ k = "hand" /\ InHand(i)
                   \/ k = "queue" /\ InQueue(i)
                   \/ k = "table" /\ i \in table
                   \/ k = "done" /\ done[i] # 0
                   \/ k = "dropped" /\ i \in dropped
                   \/ k = "leaked" /\ i \in leaked}
Single ==
    /\ \A i \in Ids : IF i <= made THEN \E k \in Kinds : At(i) = {k} ELSE At(i) = {}
    /\ \A i \in Ids : done[i] \in {0, 1}
    /\ \A u, v \in Users : hand[u] = hand[v] /\ hand[u] # NoItem => u = v
    /\ \A m, n \in DOMAIN queue : queue[m] = queue[n] => m = n

WorkInv ==
    /\ WorkTypeOK /\ LocalType
    /\ OwnerInv /\ RoundInv /\ NotEarly /\ JoinWaits
    /\ RaceInv /\ OnlyRacingLeft
    /\ Single
-----------------------------------------------------------------------------
(* The queue.                                                               *)

\* What is in a queue after a push.
LEMMA AppendOccurs ==
  ASSUME NEW S, NEW q \in Seq(S), NEW x \in S
  PROVE  /\ Append(q, x) \in Seq(S)
         /\ \A i : (\E n \in DOMAIN Append(q, x) : Append(q, x)[n] = i)
                     <=> i = x \/ \E n \in DOMAIN q : q[n] = i
         /\ (\A m, n \in DOMAIN q : q[m] = q[n] => m = n) /\ (\A n \in DOMAIN q : q[n] # x) =>
               \A m, n \in DOMAIN Append(q, x) : Append(q, x)[m] = Append(q, x)[n] => m = n
<1> DEFINE r == Append(q, x)
<1>1. /\ r \in Seq(S) /\ DOMAIN r = 1 .. Len(q) + 1 /\ DOMAIN q = 1 .. Len(q) /\ Len(q) \in Nat
      /\ \A n \in 1 .. Len(q) : r[n] = q[n]
      /\ r[Len(q) + 1] = x
  OBVIOUS
<1>2. \A n \in DOMAIN r : n \in DOMAIN q \/ n = Len(q) + 1
  BY <1>1
<1>3. Len(q) + 1 \in DOMAIN r /\ DOMAIN q \subseteq DOMAIN r /\ Len(q) + 1 \notin DOMAIN q
  BY <1>1
<1> HIDE DEF r
<1>4. \A i : (\E n \in DOMAIN r : r[n] = i) <=> i = x \/ \E n \in DOMAIN q : q[n] = i
  BY <1>1, <1>2, <1>3
<1>5. (\A m, n \in DOMAIN q : q[m] = q[n] => m = n) /\ (\A n \in DOMAIN q : q[n] # x) =>
               \A m, n \in DOMAIN r : r[m] = r[n] => m = n
  BY <1>1, <1>2, <1>3
<1> QED BY <1>1, <1>4, <1>5 DEF r

\* What is in a queue after its head was taken.
LEMMA TailOccurs ==
  ASSUME NEW S, NEW q \in Seq(S), q # <<>>, \A m, n \in DOMAIN q : q[m] = q[n] => m = n
  PROVE  /\ Tail(q) \in Seq(S) /\ Head(q) \in S /\ \E n \in DOMAIN q : q[n] = Head(q)
         /\ \A i : (\E n \in DOMAIN Tail(q) : Tail(q)[n] = i)
                     <=> i # Head(q) /\ \E n \in DOMAIN q : q[n] = i
         /\ \A m, n \in DOMAIN Tail(q) : Tail(q)[m] = Tail(q)[n] => m = n
<1> DEFINE r == Tail(q)
<1>1. /\ r \in Seq(S) /\ Len(q) \in Nat /\ Len(q) >= 1 /\ DOMAIN q = 1 .. Len(q)
      /\ DOMAIN r = 1 .. Len(q) - 1 /\ Head(q) = q[1]
      /\ \A n \in 1 .. Len(q) - 1 : r[n] = q[n + 1]
  OBVIOUS
<1>2. 1 \in DOMAIN q /\ Head(q) \in S
  BY <1>1
<1>3. \A n \in DOMAIN r : n + 1 \in DOMAIN q /\ n + 1 # 1 /\ r[n] = q[n + 1]
  BY <1>1
<1>4. \A n \in DOMAIN q : n # 1 => n - 1 \in DOMAIN r /\ r[n - 1] = q[n]
  BY <1>1
<1> HIDE DEF r
<1>5. ASSUME NEW i
      PROVE  (\E n \in DOMAIN r : r[n] = i) <=> i # Head(q) /\ \E n \in DOMAIN q : q[n] = i
  <2>1. ASSUME NEW n \in DOMAIN r, r[n] = i PROVE i # Head(q) /\ \E m \in DOMAIN q : q[m] = i
    <3>1. n + 1 \in DOMAIN q /\ q[n + 1] = i /\ n + 1 # 1
      BY <1>3, <2>1
    <3> QED BY <1>1, <1>2, <3>1
  <2>2. ASSUME i # Head(q), NEW n \in DOMAIN q, q[n] = i PROVE \E m \in DOMAIN r : r[m] = i
    BY <1>1, <1>4, <2>2
  <2> QED BY <2>1, <2>2
<1>6. ASSUME NEW m \in DOMAIN r, NEW n \in DOMAIN r, r[m] = r[n] PROVE m = n
  <2>1. m + 1 = n + 1
    BY <1>3, <1>6
  <2> QED BY <1>1, <2>1
<1> QED BY <1>1, <1>2, <1>5, <1>6 DEF r
-----------------------------------------------------------------------------
(* The invariant.                                                           *)

\* Before anything is made the invariant holds.
LEMMA InitInv == WorkInit => WorkInv
<1> SUFFICES ASSUME WorkInit PROVE WorkInv
  OBVIOUS
<1> USE WorkerAssumption DEF WorkInit
<1>1. WorkTypeOK /\ LocalType
  BY DEF WorkTypeOK, LocalType, Ids, NewRound, NoItem
<1>2. OwnerInv /\ RoundInv /\ NotEarly /\ JoinWaits /\ RaceInv /\ OnlyRacingLeft
  BY DEF OwnerInv, RoundInv, NotEarly, JoinWaits, RaceInv, OnlyRacingLeft, UnderWay, Ids, NoItem
<1>3. \A i \in Ids : i # NoItem /\ i > made
  BY DEF Ids, NoItem
<1>4. \A i \in Ids : At(i) = {}
  BY <1>3 DEF At, InHand, InQueue
<1>5. Single
  BY <1>3, <1>4 DEF Single, Ids
<1> QED BY <1>1, <1>2, <1>5 DEF WorkInv

\* An item that changes its place alone.
LEMMA Moved ==
  ASSUME Single, LocalType, made' = made, NEW j \in Ids, j <= made, NEW b \in Kinds,
         At(j)' = {b}, \A i \in Ids : i # j => At(i)' = At(i),
         (\A i \in Ids : done[i] \in {0, 1})',
         (\A u, v \in Users : hand[u] = hand[v] /\ hand[u] # NoItem => u = v)',
         (\A m, n \in DOMAIN queue : queue[m] = queue[n] => m = n)'
  PROVE  Single'
<1>1. \A i \in Ids : (IF i <= made THEN \E k \in Kinds : At(i) = {k} ELSE At(i) = {})'
  <2> SUFFICES ASSUME NEW i \in Ids
               PROVE  IF i <= made THEN \E k \in Kinds : At(i)' = {k} ELSE At(i)' = {}
    OBVIOUS
  <2>1. CASE i = j
    BY <2>1
  <2>2. CASE i # j
    BY <2>2 DEF Single
  <2> QED BY <2>1, <2>2
<1> QED BY <1>1 DEF Single

\* Steps that move no item.
LEMMA PlacesKept ==
  ASSUME Single, UNCHANGED <<queue, table, hand, made, done, dropped, leaked>>
  PROVE  Single'
<1>1. \A i : At(i)' = At(i)
  BY DEF At, InHand, InQueue
<1> QED BY <1>1 DEF Single

\* The owner, the thread between two items, and the clock.
LEMMA QuietStep ==
  ASSUME WorkInv,
         \/ OwnerStep \/ BeginJoin \/ EndJoin \/ EndDrain
         \/ CopyArgs \/ Released \/ LoopEnds \/ EndRound \/ Wake \/ Tick
         \/ UNCHANGED workVars
  PROVE  WorkInv'
<1>1. /\ WorkTypeOK /\ LocalType /\ OwnerInv /\ RoundInv /\ NotEarly
      /\ JoinWaits /\ RaceInv /\ OnlyRacingLeft /\ Single
  BY DEF WorkInv
<1>2. UNCHANGED <<queue, table, hand, link, made, done, dropped, leaked, early, deadline>>
  BY DEF OwnerStep, BeginInit, ThreadCreate, ThreadCreated, EndInit, Start, BeginShutdown, BeginJoin,
     EndJoin, EndDrain, CopyArgs, Released, LoopEnds, EndRound, Wake, Tick, workVars, items, past
<1>3. Single'
  BY <1>1, <1>2, PlacesKept
<1>4. /\ round' \in [begin : Nat, current : Nat, count : 0 .. MaxFired]
      /\ now' \in 0 .. MaxTime /\ now' >= now
      /\ run' = "fire" => run = "fire" /\ round' = round
  <2>1. CASE EndRound
    <3>1. /\ round' = [begin |-> 0, current |-> 0, count |-> 0] /\ now' = now /\ run' # "fire"
      BY <2>1 DEF EndRound, NewRound
    <3> QED BY <1>1, <3>1, WorkerAssumption DEF WorkTypeOK
  <2>2. CASE Tick
    <3>1. round' = round /\ run' = run /\ now' = now + 1 /\ now < MaxTime
      BY <2>2 DEF Tick, thread
    <3> QED BY <1>1, <3>1, WorkerAssumption DEF WorkTypeOK, LocalType
  <2>3. CASE ~EndRound /\ ~Tick
    <3>1. /\ round' = round /\ now' = now
          /\ run' = "fire" => run = "fire"
      BY <2>3 DEF OwnerStep, BeginInit, ThreadCreate, ThreadCreated, EndInit, Start, BeginShutdown,
         BeginJoin, EndJoin, EndDrain, CopyArgs, Released, LoopEnds, Wake, workVars, thread
    <3> QED BY <1>1, <3>1 DEF WorkTypeOK, LocalType
  <2> QED BY <2>1, <2>2, <2>3
<1>5. RoundInv' /\ NotEarly'
  BY <1>1, <1>2, <1>4 DEF RoundInv, NotEarly, LocalType, WorkTypeOK
<1>6. /\ state' \in {"kNull", "kAlive", "kActive", "kFinish", "kFailed"}
      /\ boss' = "joining" => state' \in {"kActive", "kFailed"}
      /\ OwnerInv'
  BY <1>1 DEF WorkTypeOK, OwnerInv, OwnerStep, BeginInit, ThreadCreate, ThreadCreated, EndInit, Start,
     BeginShutdown, BeginJoin, EndJoin, EndDrain, CopyArgs, Released, LoopEnds, EndRound, Wake, Tick,
     workVars, thread, owner, Release, JoinStarts
<1>7. JoinWaits'
  BY <1>1 DEF JoinWaits, JoinReturns, OwnerStep, BeginInit, ThreadCreate, ThreadCreated, EndInit, Start,
     BeginShutdown, BeginJoin, EndJoin, EndDrain, CopyArgs, Released, LoopEnds, EndRound, Wake, Tick,
     workVars, thread, owner
<1>8. RaceInv' /\ OnlyRacingLeft'
  <2>1. UnderWay' = UnderWay
    BY <1>2 DEF UnderWay
  <2>2. /\ racing' = racing \/ racing' = UnderWay
        /\ boss' \in {"joining", "drain", "idle"}
             => racing' = racing /\ boss \in {"join", "joining", "drain", "idle"}
        /\ boss' = "join" => racing' = UnderWay \/ (boss = "join" /\ racing' = racing)
        /\ boss' = "idle" => boss = "idle" \/ (EndDrain /\ SaysEmpty)
    BY DEF Drained, OwnerStep, BeginInit, ThreadCreate, ThreadCreated, EndInit, Start,
     BeginShutdown, BeginJoin, EndJoin, EndDrain, CopyArgs, Released, LoopEnds, EndRound, Wake, Tick,
     workVars, owner, past
  <2>3. RaceInv'
    BY <1>1, <2>1, <2>2 DEF RaceInv
  <2>4. ASSUME EndDrain, SaysEmpty PROVE queue' = <<>> \/ Head(queue') \in racing'
    <3>1. UnderWay \subseteq racing /\ racing' = racing
      BY <1>1, <2>4 DEF RaceInv, EndDrain, past
    <3>2. queue # <<>> => Head(queue) \in Ids
      BY <1>1 DEF WorkTypeOK
    <3> QED BY <1>2, <2>4, <3>1, <3>2 DEF SaysEmpty, PopsOldest, IsLinked, UnderWay
  <2> QED BY <1>1, <1>2, <2>2, <2>3, <2>4 DEF OnlyRacingLeft
<1>9. WorkTypeOK' /\ LocalType'
  BY <1>1, <1>2, <1>4, <1>6 DEF WorkTypeOK, LocalType
<1> QED BY <1>3, <1>5, <1>6, <1>7, <1>8, <1>9 DEF WorkInv

\* What an item's place says about it.
LEMMA Where ==
  ASSUME Single, NEW j \in Ids, NEW k \in At(j)
  PROVE  j <= made /\ At(j) = {k}
BY DEF Single

\* SetTimer and LogFormatPrint make an item, which is in the hands of the caller.
LEMMA MakeStep ==
  ASSUME WorkInv, NEW u \in Users, SetTimer(u) \/ LogFormatPrint(u)
  PROVE  WorkInv'
<1>1. /\ WorkTypeOK /\ LocalType /\ OwnerInv /\ RoundInv /\ NotEarly
      /\ JoinWaits /\ RaceInv /\ OnlyRacingLeft /\ Single
  BY DEF WorkInv
<1>2. PICK j : j = made + 1
  OBVIOUS
<1>3. /\ UNCHANGED <<kind, thread, owner, now, queue, table, round, past>>
      /\ hand[u] = NoItem /\ made < MaxItems /\ made' = j /\ hand' = [hand EXCEPT ![u] = j]
      /\ link' = link /\ ~shutdown
  BY <1>2 DEF SetTimer, LogFormatPrint, Make
<1>4. UNCHANGED <<state, run, handle, shutdown, boss, now, queue, table, round, done, dropped, leaked,
                  racing, early>>
  BY <1>3 DEF thread, owner, past
<1>5. j \in Ids /\ made' \in 0 .. MaxItems /\ made \in Nat /\ j \in Nat
  BY <1>1, <1>2, <1>3, WorkerAssumption DEF LocalType, Ids
<1>6. deadline' \in [Ids -> Nat]
  <2>1. CASE LogFormatPrint(u)
    BY <1>1, <2>1 DEF LogFormatPrint, LocalType
  <2>2. CASE SetTimer(u)
    <3>1. PICK d \in 0 .. MaxDelay : deadline' = [deadline EXCEPT ![j] = now + d]
      BY <1>2, <2>2 DEF SetTimer
    <3>2. now + d \in Nat
      BY <1>1, WorkerAssumption DEF WorkTypeOK
    <3> QED BY <1>1, <3>1, <3>2 DEF LocalType
  <2> QED BY <2>1, <2>2
<1>7. /\ hand' \in [Users -> Ids \cup {NoItem}]
      /\ \A v \in Users : hand'[v] = IF v = u THEN j ELSE hand[v]
  BY <1>1, <1>3, <1>5 DEF WorkTypeOK
<1>8. WorkTypeOK' /\ LocalType'
  BY <1>1, <1>3, <1>4, <1>5, <1>6, <1>7 DEF WorkTypeOK, LocalType
<1>9. OwnerInv' /\ RoundInv' /\ NotEarly' /\ JoinWaits' /\ RaceInv' /\ OnlyRacingLeft'
  BY <1>1, <1>3, <1>4 DEF OwnerInv, RoundInv, NotEarly, JoinWaits, RaceInv, OnlyRacingLeft
<1>10. Single'
  <2>1. At(j) = {} /\ \A i \in Ids : i <= made' => i <= made \/ i = j
    BY <1>1, <1>2, <1>3, <1>5 DEF Single, Ids
  <2>2. ASSUME NEW i \in Ids PROVE (InQueue(i)' <=> InQueue(i)) /\ (InHand(i)' <=> InHand(i) \/ i = j)
    <3>1. i # NoItem
      BY DEF Ids, NoItem
    <3>2. InQueue(i)' <=> InQueue(i)
      BY <1>4 DEF InQueue
    <3>3. InHand(i)' <=> InHand(i) \/ i = j
      BY <1>3, <1>7, <3>1 DEF InHand
    <3> QED BY <3>2, <3>3
  <2>3. \A i \in Ids : i # j => At(i)' = At(i)
    BY <1>4, <2>2 DEF At
  <2>4. At(j)' = {"hand"}
    BY <1>4, <1>5, <2>1, <2>2 DEF At, Kinds
  <2>5. ASSUME NEW i \in Ids
        PROVE  IF i <= made' THEN \E k \in Kinds : At(i)' = {k} ELSE At(i)' = {}
    <3>1. CASE i = j
      BY <1>3, <1>5, <2>4, <3>1 DEF Kinds
    <3>2. CASE i # j
      <4>1. i <= made' <=> i <= made
        BY <1>2, <1>3, <1>5, <3>2 DEF Ids
      <4> QED BY <1>1, <2>3, <3>2, <4>1 DEF Single
    <3> QED BY <3>1, <3>2
  <2>6. \A v \in Users : hand[v] # j
    BY <2>1 DEF At, InHand, Kinds
  <2>7. \A v, w \in Users : hand'[v] = hand'[w] /\ hand'[v] # NoItem => v = w
    BY <1>1, <1>7, <2>6 DEF Single
  <2> QED BY <1>1, <1>4, <2>5, <2>7 DEF Single
<1> QED BY <1>8, <1>9, <1>10 DEF WorkInv

\* The caller pushes its item, or drops a message below the minimal level.
LEMMA HandStep ==
  ASSUME WorkInv, NEW u \in Users, BelowMinLevel(u) \/ Push(u)
  PROVE  WorkInv'
<1>1. /\ WorkTypeOK /\ LocalType /\ OwnerInv /\ RoundInv /\ NotEarly
      /\ JoinWaits /\ RaceInv /\ OnlyRacingLeft /\ Single
  BY DEF WorkInv
<1>2. PICK j \in Ids : j = hand[u]
  BY <1>1 DEF WorkTypeOK, BelowMinLevel, Push
<1>3. /\ UNCHANGED <<state, run, handle, shutdown, boss, now, table, round, deadline, made, done,
                     dropped, racing, early>>
      /\ hand' = [hand EXCEPT ![u] = NoItem]
      /\ link' = link \/ link' = [link EXCEPT ![u] = j]
  BY <1>2 DEF BelowMinLevel, Push, thread, owner, past
<1>4. /\ link' \in [Users -> Ids \cup {NoItem}]
      /\ \A v \in Users : link'[v] = link[v] \/ link'[v] = j
      /\ hand' \in [Users -> Ids \cup {NoItem}] /\ j # NoItem
      /\ \A v \in Users : hand'[v] = IF v = u THEN NoItem ELSE hand[v]
  BY <1>1, <1>3 DEF WorkTypeOK, Ids, NoItem
<1>5. j <= made /\ At(j) = {"hand"}
  <2>1. "hand" \in At(j)
    BY <1>2 DEF At, Kinds, InHand
  <2> QED BY <1>1, <2>1, Where
<1>6. \A i \in Ids : InHand(i)' <=> InHand(i) /\ i # j
  <2> SUFFICES ASSUME NEW i \in Ids PROVE InHand(i)' <=> InHand(i) /\ i # j
    OBVIOUS
  <2>1. i # NoItem
    BY DEF Ids, NoItem
  <2> QED BY <1>1, <1>2, <1>4, <2>1 DEF InHand, Single
<1>7. \A v, w \in Users : hand'[v] = hand'[w] /\ hand'[v] # NoItem => v = w
  BY <1>1, <1>4 DEF Single
<1>8. \A n \in DOMAIN queue : queue[n] # j
  BY <1>5 DEF At, Kinds, InQueue
<1>9. OwnerInv' /\ RoundInv' /\ NotEarly' /\ JoinWaits' /\ RaceInv'
  <2>1. UnderWay' \subseteq UnderWay /\ j \in UnderWay
    BY <1>2, <1>4 DEF UnderWay, Ids, NoItem
  <2> QED BY <1>1, <1>3, <2>1 DEF OwnerInv, RoundInv, NotEarly, JoinWaits, RaceInv
<1>10. CASE BelowMinLevel(u)
  <2>1. UNCHANGED queue /\ leaked' = leaked \cup {j}
    BY <1>2, <1>10 DEF BelowMinLevel
  <2>2. WorkTypeOK' /\ LocalType' /\ OnlyRacingLeft'
    BY <1>1, <1>3, <1>4, <2>1 DEF WorkTypeOK, LocalType, OnlyRacingLeft
  <2>3. \A i : InQueue(i)' <=> InQueue(i)
    BY <2>1 DEF InQueue
  <2>4. \A i \in Ids : i # j => At(i)' = At(i)
    BY <1>3, <1>6, <2>1, <2>3 DEF At
  <2>5. At(j)' = {"leaked"}
    BY <1>3, <1>5, <1>6, <2>1, <2>3 DEF At, Kinds
  <2>6. Single'
    <3>1. (\A i \in Ids : done[i] \in {0, 1})' /\ (\A m, n \in DOMAIN queue : queue[m] = queue[n] => m = n)'
      BY <1>1, <1>3, <2>1 DEF Single
    <3> QED BY <1>1, <1>3, <1>5, <1>7, <2>4, <2>5, <3>1, Moved DEF Kinds
  <2> QED BY <1>9, <2>2, <2>6 DEF WorkInv
<1>11. CASE Push(u)
  <2>1. UNCHANGED leaked /\ queue' = Append(queue, j)
    BY <1>2, <1>11 DEF Push, past
  <2>2. /\ queue' \in Seq(Ids)
        /\ \A i : InQueue(i)' <=> i = j \/ InQueue(i)
        /\ \A m, n \in DOMAIN queue' : queue'[m] = queue'[n] => m = n
    <3>1. queue \in Seq(Ids) /\ \A m, n \in DOMAIN queue : queue[m] = queue[n] => m = n
      BY <1>1 DEF WorkTypeOK, Single
    <3> QED BY <1>8, <2>1, <3>1, AppendOccurs DEF InQueue
  <2>3. WorkTypeOK' /\ LocalType'
    BY <1>1, <1>3, <1>4, <2>2 DEF WorkTypeOK, LocalType
  <2>4. OnlyRacingLeft'
    <3>1. boss = "idle" => j \in racing
      BY <1>1, <1>2 DEF RaceInv, UnderWay
    <3>2. queue = <<>> => Head(queue') = j
      BY <2>1
    <3>3. queue # <<>> => Head(queue') = Head(queue)
      BY <1>1, <2>1 DEF WorkTypeOK
    <3> QED BY <1>1, <1>3, <3>1, <3>2, <3>3 DEF OnlyRacingLeft
  <2>5. \A i \in Ids : i # j => At(i)' = At(i)
    BY <1>3, <1>6, <2>1, <2>2 DEF At
  <2>6. At(j)' = {"queue"}
    BY <1>3, <1>5, <1>6, <2>1, <2>2 DEF At, Kinds
  <2>7. Single'
    <3>1. (\A i \in Ids : done[i] \in {0, 1})'
      BY <1>1, <1>3 DEF Single
    <3> QED BY <1>1, <1>3, <1>5, <1>7, <2>2, <2>5, <2>6, <3>1, Moved DEF Kinds
  <2> QED BY <1>9, <2>3, <2>4, <2>7 DEF WorkInv
<1> QED BY <1>10, <1>11

\* The caller links its item.
LEMMA LinkStep == ASSUME WorkInv, NEW u \in Users, Link(u) PROVE WorkInv'
<1>1. /\ WorkTypeOK /\ LocalType /\ OwnerInv /\ RoundInv /\ NotEarly
      /\ JoinWaits /\ RaceInv /\ OnlyRacingLeft /\ Single
  BY DEF WorkInv
<1>2. /\ UNCHANGED <<state, run, handle, shutdown, boss, now, queue, table, round, deadline, made,
                     hand, done, dropped, leaked, racing, early>>
      /\ link' = [link EXCEPT ![u] = NoItem]
  BY DEF Link, thread, owner, past
<1>3. /\ link' \in [Users -> Ids \cup {NoItem}]
      /\ \A v \in Users : link'[v] = link[v] \/ link'[v] = NoItem
  BY <1>1, <1>2 DEF WorkTypeOK
<1>4. UnderWay' \subseteq UnderWay
  BY <1>2, <1>3 DEF UnderWay, Ids, NoItem
<1>5. WorkTypeOK' /\ LocalType'
  BY <1>1, <1>2, <1>3 DEF WorkTypeOK, LocalType
<1>6. OwnerInv' /\ RoundInv' /\ NotEarly' /\ JoinWaits' /\ RaceInv' /\ OnlyRacingLeft'
  BY <1>1, <1>2, <1>4 DEF OwnerInv, RoundInv, NotEarly, JoinWaits, RaceInv, OnlyRacingLeft
<1>7. Single'
  BY <1>1, <1>2, PlacesKept
<1> QED BY <1>5, <1>6, <1>7 DEF WorkInv

\* The first item of the queue goes to the table, to the printer, or is dropped.
LEMMA TakeStep ==
  ASSUME WorkInv, BeginRound \/ LogThreadProc \/ Drain
  PROVE  WorkInv'
<1>1. /\ WorkTypeOK /\ LocalType /\ OwnerInv /\ RoundInv /\ NotEarly
      /\ JoinWaits /\ RaceInv /\ OnlyRacingLeft /\ Single
  BY DEF WorkInv
<1>2. /\ UNCHANGED <<state, handle, shutdown, boss, now, deadline, made, hand, link, leaked,
                     racing, early>>
      /\ \/ run = "loop" /\ run' = "fire" /\ round' = [begin |-> now, current |-> 0, count |-> 0]
         \/ UNCHANGED <<run, round>>
  BY DEF BeginRound, LogThreadProc, Drain, NewRound, thread, owner, items, past
<1>3. round' \in [begin : Nat, current : Nat, count : 0 .. MaxFired]
  BY <1>1, <1>2, WorkerAssumption DEF LocalType, WorkTypeOK
<1>4. OwnerInv' /\ NotEarly' /\ JoinWaits' /\ RaceInv' /\ OnlyRacingLeft'
  <2>1. boss' # "idle"
    BY <1>1 DEF OwnerInv, BeginRound, LogThreadProc, Drain, owner
  <2>2. UnderWay' = UnderWay
    BY <1>2 DEF UnderWay
  <2> QED BY <1>1, <1>2, <2>1, <2>2 DEF OwnerInv, NotEarly, JoinWaits, RaceInv, OnlyRacingLeft
<1>5. RoundInv'
  BY <1>1, <1>2, WorkerAssumption DEF RoundInv, WorkTypeOK
<1>6. CASE UNCHANGED <<queue, table, done, dropped>>
  <2>1. UNCHANGED <<queue, table, done, dropped>>
    BY <1>6
  <2>2. WorkTypeOK' /\ LocalType'
    BY <1>1, <1>2, <1>3, <2>1 DEF WorkTypeOK, LocalType
  <2>3. Single'
    BY <1>1, <1>2, <2>1, PlacesKept
  <2> QED BY <1>4, <1>5, <2>2, <2>3 DEF WorkInv
<1>7. CASE ~UNCHANGED <<queue, table, done, dropped>>
  <2>0. queue # <<>>
    BY <1>7 DEF BeginRound, LogThreadProc, Drain, PopsOldest, past
  <2>1. PICK j : j = Head(queue)
    OBVIOUS
  <2>2. /\ queue' = Tail(queue)
        /\ \/ table' = table \cup {j} /\ UNCHANGED <<done, dropped>>
           \/ done' = [done EXCEPT ![j] = @ + 1] /\ UNCHANGED <<table, dropped>>
           \/ dropped' = dropped \cup {j} /\ UNCHANGED <<table, done>>
    BY <1>7, <2>1 DEF BeginRound, LogThreadProc, Drain, Insert, past
  <2>3. /\ queue' \in Seq(Ids) /\ j \in Ids /\ InQueue(j)
        /\ \A i : InQueue(i)' <=> i # j /\ InQueue(i)
        /\ \A m, n \in DOMAIN queue' : queue'[m] = queue'[n] => m = n
    <3>1. queue \in Seq(Ids) /\ \A m, n \in DOMAIN queue : queue[m] = queue[n] => m = n
      BY <1>1 DEF WorkTypeOK, Single
    <3>2. /\ Tail(queue) \in Seq(Ids) /\ Head(queue) \in Ids
          /\ \E n \in DOMAIN queue : queue[n] = Head(queue)
          /\ \A i : (\E n \in DOMAIN Tail(queue) : Tail(queue)[n] = i)
                     <=> i # Head(queue) /\ \E n \in DOMAIN queue : queue[n] = i
          /\ \A m, n \in DOMAIN Tail(queue) : Tail(queue)[m] = Tail(queue)[n] => m = n
      BY <2>0, <3>1, TailOccurs
    <3> QED BY <2>1, <2>2, <3>2, Zenon DEF InQueue
  <2>4. j <= made /\ At(j) = {"queue"}
    <3>1. "queue" \in At(j)
      BY <2>3 DEF At, Kinds
    <3> QED BY <1>1, <2>3, <3>1, Where
  <2>5. ~InHand(j) /\ j \notin table /\ done[j] = 0 /\ j \notin dropped /\ j \notin leaked
    BY <2>4 DEF At, Kinds
  <2>6. \A i : InHand(i)' <=> InHand(i)
    BY <1>2 DEF InHand
  <2>8. /\ done' \in [Ids -> Nat] /\ table' \subseteq Ids
        /\ \A i \in Ids : i # j => /\ done'[i] = done[i] /\ (i \in table' <=> i \in table)
                                   /\ (i \in dropped' <=> i \in dropped)
        /\ done'[j] \in {0, 1}
    <3>1. done \in [Ids -> Nat] /\ table \subseteq Ids
      BY <1>1 DEF LocalType, WorkTypeOK
    <3>2. j \in Ids /\ done[j] = 0
      BY <2>3, <2>5
    <3>3. CASE table' = table \cup {j} /\ UNCHANGED <<done, dropped>>
      BY <3>1, <3>2, <3>3
    <3>4. CASE done' = [done EXCEPT ![j] = @ + 1] /\ UNCHANGED <<table, dropped>>
      BY <3>1, <3>2, <3>4
    <3>5. CASE dropped' = dropped \cup {j} /\ UNCHANGED <<table, done>>
      BY <3>1, <3>2, <3>5
    <3> QED BY <2>2, <3>3, <3>4, <3>5
  <2>9. WorkTypeOK' /\ LocalType'
    BY <1>1, <1>2, <1>3, <2>3, <2>8 DEF WorkTypeOK, LocalType
  <2>10. \A i \in Ids : i # j => At(i)' = At(i)
    BY <1>2, <2>3, <2>6, <2>8 DEF At
  <2>11. \E b \in Kinds : At(j)' = {b}
    <3>1. ~InHand(j)' /\ ~InQueue(j)' /\ j \notin leaked'
      BY <1>2, <2>3, <2>5, <2>6
    <3>2. CASE table' = table \cup {j} /\ UNCHANGED <<done, dropped>>
      <4>1. At(j)' = {"table"}
        BY <2>5, <3>1, <3>2 DEF At, Kinds
      <4> QED BY <4>1 DEF Kinds
    <3>3. CASE done' = [done EXCEPT ![j] = @ + 1] /\ UNCHANGED <<table, dropped>>
      <4>1. done'[j] = 1
        BY <1>1, <2>3, <2>5, <3>3 DEF LocalType
      <4>2. At(j)' = {"done"}
        BY <2>5, <3>1, <3>3, <4>1 DEF At, Kinds
      <4> QED BY <4>2 DEF Kinds
    <3>4. CASE dropped' = dropped \cup {j} /\ UNCHANGED <<table, done>>
      <4>1. At(j)' = {"dropped"}
        BY <2>5, <3>1, <3>4 DEF At, Kinds
      <4> QED BY <4>1 DEF Kinds
    <3> QED BY <2>2, <3>2, <3>3, <3>4
  <2>12. Single'
    <3>1. (\A i \in Ids : done[i] \in {0, 1})'
      BY <1>1, <2>8 DEF Single
    <3>2. \A u, v \in Users : hand'[u] = hand'[v] /\ hand'[u] # NoItem => u = v
      BY <1>1, <1>2 DEF Single
    <3>3. PICK b \in Kinds : At(j)' = {b}
      BY <2>11
    <3> QED BY <1>1, <1>2, <2>3, <2>4, <2>10, <3>1, <3>2, <3>3, Moved
  <2> QED BY <1>4, <1>5, <2>9, <2>12 DEF WorkInv
<1> QED BY <1>6, <1>7

\* A timer of the table is fired, after its deadline, and leaves the table.
LEMMA FireStep == ASSUME WorkInv, Fire PROVE WorkInv'
<1>1. /\ WorkTypeOK /\ LocalType /\ OwnerInv /\ RoundInv /\ NotEarly
      /\ JoinWaits /\ RaceInv /\ OnlyRacingLeft /\ Single
  BY DEF WorkInv
<1>2. PICK j \in table, d \in 0 .. 2 :
         /\ Due(j) /\ now + d <= MaxTime /\ EraseTimer(j)
         /\ done' = [done EXCEPT ![j] = @ + 1]
         /\ early' = (early \/ deadline[j] > now)
         /\ now' = now + d
         /\ round' = [round EXCEPT !.current = now + d, !.count = @ + 1]
  BY DEF Fire
<1>3. /\ UNCHANGED <<state, run, handle, shutdown, boss, queue, deadline, made, hand, link, dropped,
                     leaked, racing>>
      /\ run = "fire" /\ table' = table \ {j} /\ j \in Ids /\ round.count < MaxFired
  BY <1>1, <1>2 DEF Fire, CanFire, EraseTimer, thread, owner, items, WorkTypeOK
<1>4. /\ now \in Nat /\ now' \in 0 .. MaxTime /\ now' >= now
      /\ round'.begin = round.begin /\ round.begin \in Nat /\ round.begin <= now
      /\ round' \in [begin : Nat, current : Nat, count : 0 .. MaxFired]
  <2>1. now \in Nat /\ now' \in 0 .. MaxTime /\ now' >= now /\ now + d \in Nat
    BY <1>1, <1>2, WorkerAssumption DEF WorkTypeOK
  <2>2. round.begin \in Nat /\ round.begin <= now
    BY <1>1, <1>3 DEF LocalType, RoundInv
  <2>3. round.count + 1 \in 0 .. MaxFired
    BY <1>1, <1>3, WorkerAssumption DEF LocalType
  <2> QED BY <1>1, <1>2, <2>1, <2>2, <2>3 DEF LocalType
<1>5. NotEarly'
  <2>1. deadline[j] \in Nat /\ deadline[j] <= round.begin
    BY <1>1, <1>2, <1>3 DEF Due, LocalType
  <2>2. ~(deadline[j] > now)
    BY <1>4, <2>1
  <2> QED BY <1>1, <1>2, <2>2 DEF NotEarly
<1>6. OwnerInv' /\ RoundInv' /\ JoinWaits' /\ RaceInv' /\ OnlyRacingLeft'
  BY <1>1, <1>3, <1>4 DEF OwnerInv, RoundInv, JoinWaits, RaceInv, OnlyRacingLeft, UnderWay
<1>7. j <= made /\ At(j) = {"table"}
  <2>1. "table" \in At(j)
    BY <1>2 DEF At, Kinds
  <2> QED BY <1>1, <1>3, <2>1, Where
<1>8. /\ done' \in [Ids -> Nat] /\ done'[j] = 1
      /\ \A i \in Ids : i # j => done'[i] = done[i]
  <2>1. done[j] = 0
    BY <1>7 DEF At, Kinds
  <2> QED BY <1>1, <1>2, <1>3, <2>1 DEF LocalType
<1>9. WorkTypeOK' /\ LocalType'
  BY <1>1, <1>3, <1>4, <1>8 DEF WorkTypeOK, LocalType
<1>10. \A i : (InHand(i)' <=> InHand(i)) /\ (InQueue(i)' <=> InQueue(i))
  BY <1>3 DEF InHand, InQueue
<1>11. \A i \in Ids : i # j => At(i)' = At(i)
  BY <1>3, <1>8, <1>10 DEF At
<1>12. At(j)' = {"done"}
  BY <1>3, <1>7, <1>8, <1>10 DEF At, Kinds
<1>13. Single'
  <2>1. (\A i \in Ids : done[i] \in {0, 1})'
    BY <1>1, <1>8 DEF Single
  <2>2. /\ \A u, v \in Users : hand'[u] = hand'[v] /\ hand'[u] # NoItem => u = v
        /\ \A m, n \in DOMAIN queue' : queue'[m] = queue'[n] => m = n
    BY <1>1, <1>3 DEF Single
  <2> QED BY <1>1, <1>3, <1>7, <1>11, <1>12, <2>1, <2>2, Moved DEF Kinds
<1> QED BY <1>5, <1>6, <1>9, <1>13 DEF WorkInv

\* Every reachable state satisfies the invariant.
LEMMA WorkInductive == WorkSpec => []WorkInv
<1>1. WorkInv /\ [WorkNext]_workVars => WorkInv'
  <2> SUFFICES ASSUME WorkInv, [WorkNext]_workVars PROVE WorkInv'
    OBVIOUS
  <2>1. CASE OwnerStep \/ Tick \/ UNCHANGED workVars
    BY <2>1, QuietStep
  <2>2. CASE OwnerEnds
    BY <2>2, QuietStep, TakeStep DEF OwnerEnds
  <2>3. CASE ThreadStep
    BY <2>3, QuietStep, TakeStep, FireStep DEF ThreadStep
  <2>4. ASSUME NEW u \in Users, UserStep(u) PROVE WorkInv'
    BY <2>4, MakeStep, HandStep, LinkStep DEF UserStep
  <2> QED BY <2>1, <2>2, <2>3, <2>4 DEF WorkNext
<1> QED BY <1>1, InitInv, PTL DEF WorkSpec
-----------------------------------------------------------------------------
(* The theorems.                                                            *)

\* The counts of Places, from the one place an item is in.
LEMMA OnePlace == ASSUME WorkInv PROVE InOnePlace
<1>1. WorkTypeOK /\ LocalType /\ Single
  BY DEF WorkInv
<1> SUFFICES ASSUME NEW i \in 1 .. made
             PROVE  /\ Cardinality({p \in DOMAIN Places(i) : Places(i)[p] = 1}) = 1
                    /\ \A p \in DOMAIN Places(i) : Places(i)[p] \in {0, 1}
  BY DEF InOnePlace
<1>2. i \in Ids /\ i <= made /\ i # NoItem
  BY <1>1, WorkerAssumption DEF LocalType, Ids, NoItem
<1>3. PICK k \in Kinds : At(i) = {k}
  BY <1>1, <1>2 DEF Single
<1> DEFINE H == {u \in Users : hand[u] = i}
           Q == {n \in DOMAIN queue : queue[n] = i}
           c1 == Cardinality(H)
           c2 == Cardinality(Q)
           c3 == Cardinality({i} \cap table)
           c5 == Cardinality({i} \cap dropped)
           c6 == Cardinality({i} \cap leaked)
<1>4. c1 = IF InHand(i) THEN 1 ELSE 0
  <2>1. CASE InHand(i)
    <3>1. PICK u \in Users : hand[u] = i
      BY <2>1 DEF InHand
    <3>2. H = {u}
      BY <1>1, <1>2, <3>1 DEF Single
    <3> QED BY <2>1, <3>2, FS_Singleton
  <2>2. CASE ~InHand(i)
    <3>1. H = {}
      BY <2>2 DEF InHand
    <3> QED BY <2>2, <3>1, FS_EmptySet
  <2> QED BY <2>1, <2>2
<1>5. c2 = IF InQueue(i) THEN 1 ELSE 0
  <2>1. CASE InQueue(i)
    <3>1. PICK n \in DOMAIN queue : queue[n] = i
      BY <2>1 DEF InQueue
    <3>2. Q = {n}
      BY <1>1, <3>1 DEF Single
    <3> QED BY <2>1, <3>2, FS_Singleton
  <2>2. CASE ~InQueue(i)
    <3>1. Q = {}
      BY <2>2 DEF InQueue
    <3> QED BY <2>2, <3>1, FS_EmptySet
  <2> QED BY <2>1, <2>2
<1>6. \A S : Cardinality({i} \cap S) = IF i \in S THEN 1 ELSE 0
  <2> SUFFICES ASSUME NEW S PROVE Cardinality({i} \cap S) = IF i \in S THEN 1 ELSE 0
    OBVIOUS
  <2>1. CASE i \in S
    <3>1. {i} \cap S = {i}
      BY <2>1
    <3> QED BY <2>1, <3>1, FS_Singleton
  <2>2. CASE i \notin S
    <3>1. {i} \cap S = {}
      BY <2>2
    <3> QED BY <2>2, <3>1, FS_EmptySet
  <2> QED BY <2>1, <2>2
<1>7. done[i] = IF done[i] # 0 THEN 1 ELSE 0
  BY <1>1, <1>2 DEF Single
<1>8. Places(i) = <<c1, c2, c3, done[i], c5, c6>>
  BY DEF Places
<1>9. c3 = (IF i \in table THEN 1 ELSE 0) /\ c5 = (IF i \in dropped THEN 1 ELSE 0)
      /\ c6 = (IF i \in leaked THEN 1 ELSE 0)
  BY <1>6
<1> HIDE DEF H, Q, c1, c2, c3, c5, c6
<1>10. /\ DOMAIN Places(i) = 1 .. 6
       /\ Places(i)[1] = c1 /\ Places(i)[2] = c2 /\ Places(i)[3] = c3
       /\ Places(i)[4] = done[i] /\ Places(i)[5] = c5 /\ Places(i)[6] = c6
  BY <1>8
<1>11. /\ c1 = (IF k = "hand" THEN 1 ELSE 0) /\ c2 = (IF k = "queue" THEN 1 ELSE 0)
       /\ c3 = (IF k = "table" THEN 1 ELSE 0) /\ done[i] = (IF k = "done" THEN 1 ELSE 0)
       /\ c5 = (IF k = "dropped" THEN 1 ELSE 0) /\ c6 = (IF k = "leaked" THEN 1 ELSE 0)
  <2>1. /\ InHand(i) <=> "hand" \in At(i)
        /\ InQueue(i) <=> "queue" \in At(i)
        /\ i \in table <=> "table" \in At(i)
        /\ done[i] # 0 <=> "done" \in At(i)
        /\ i \in dropped <=> "dropped" \in At(i)
        /\ i \in leaked <=> "leaked" \in At(i)
    BY DEF At, Kinds
  <2> QED BY <1>3, <1>4, <1>5, <1>7, <1>9, <2>1
<1>12. \A p \in 1 .. 6 : p = 1 \/ p = 2 \/ p = 3 \/ p = 4 \/ p = 5 \/ p = 6
  OBVIOUS
<1>13. \E p : {n \in DOMAIN Places(i) : Places(i)[n] = 1} = {p}
  <2>1. ASSUME NEW p \in 1 .. 6, Places(i)[p] = 1, \A n \in 1 .. 6 : n # p => Places(i)[n] = 0
        PROVE  {n \in DOMAIN Places(i) : Places(i)[n] = 1} = {p}
    BY <1>10, <2>1
  <2>2. \E p \in 1 .. 6 : Places(i)[p] = 1 /\ \A n \in 1 .. 6 : n # p => Places(i)[n] = 0
    BY <1>3, <1>10, <1>11, <1>12 DEF Kinds
  <2> QED BY <2>1, <2>2
<1>14. \A p \in DOMAIN Places(i) : Places(i)[p] \in {0, 1}
  BY <1>10, <1>11, <1>12
<1>15. Cardinality({n \in DOMAIN Places(i) : Places(i)[n] = 1}) = 1
  BY <1>13, FS_Singleton
<1> QED BY <1>14, <1>15

\* No timer and no log message is lost, handled twice, or in two places, and no
\* timer is fired before its deadline: timer.cc and log.cc, for any number of
\* users, items and restarts.
THEOREM NothingLost == WorkSpec => []ItemsAccounted
<1>1. WorkInv => ItemsAccounted
  BY OnePlace DEF WorkInv, ItemsAccounted
<1> QED BY <1>1, WorkInductive, PTL

\* When Shutdown or LogCleanup has returned, the thread has ended unless its id was
\* read from deleted arguments, and what is left in the queue stands behind a push
\* that was under way when the flag was set: the safety half of ShutdownClean.
THEOREM ShutdownLeavesRacingOnly == WorkSpec => [](JoinWaits /\ OnlyRacingLeft)
<1>1. WorkInv => JoinWaits /\ OnlyRacingLeft
  BY DEF WorkInv
<1> QED BY <1>1, WorkInductive, PTL
=============================================================================
