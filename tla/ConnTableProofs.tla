-------------------------- MODULE ConnTableProofs --------------------------
(***************************************************************************)
(* Proofs about the connection table, for every number of threads, every   *)
(* table size and every clock.                                             *)
(***************************************************************************)
EXTENDS ConnTable, FiniteSetTheorems, TLAPS

\* The type of the table alone.
TableType ==
    /\ size \in Nat
    /\ mgr \in [Slots -> Handles \cup {NULL}]
    /\ second \in [Slots -> (Int \X Slots) \cup {NULL}]
    /\ records \in SUBSET (Int \X Slots)
    /\ free \in Seq(Slots)

\* The type of the other shared variables.
SharedType ==
    /\ connMtx \in Threads \cup {NULL}
    /\ nextHandle \in 0 .. MaxHandles
    /\ cid \in [Handles -> Nat \cup {NULL}]
    /\ online \in SUBSET Handles
    /\ closedPosted \in SUBSET Handles
    /\ ready \in [Epolls -> SUBSET (Handles \X {"io", "error"})]
    /\ pending \in [Handles -> Nat]
    /\ now \in Nat
    /\ lastCheck \in Nat
    /\ phase \in {"run", "stopping", "timer", "mq", "done"}
    /\ lastRecv \in [Handles -> Nat]

\* The type of the threads' locals.
LocalType ==
    /\ pc \in [Threads -> PCs]
    /\ op \in [Threads -> Ops]
    /\ idx \in [Threads -> Nat]
    /\ con \in [Threads -> Handles \cup {NULL}]
    /\ notify \in [Threads -> BOOLEAN]
    /\ at \in [Threads -> Nat]
    /\ tid \in [Threads -> Handles \cup {NULL}]

TableInv == TableType /\ FreeListExact /\ RecordsExact

\* The ids given out name slots, so long as there is a table, and a delay is
\* pending only for a connection that has an id.
IdsInv ==
    /\ phase # "done" => size > 0
    /\ \A c \in Handles : phase # "done" /\ cid[c] # NULL => cid[c] \in Slots
    /\ \A c \in Handles : pending[c] > 0 => cid[c] # NULL

\* A sweeping thread owns the mutex, and while it closes a connection the slot
\* it has chosen stays occupied.
SweepInv ==
    \A t \in Threads :
        /\ pc[t] \in {"sweep", "erase"} \/ (pc[t] \in {"check", "close"} /\ op[t] = "sweep")
              => connMtx = t
        /\ pc[t] = "erase" \/ (pc[t] \in {"check", "close"} /\ op[t] = "sweep")
              => idx[t] \in Slots /\ mgr[idx[t]] # NULL

\* A thread at work on a connection holds a reference to one.
HoldsInv == \A t \in Threads : pc[t] \in {"do", "check", "close"} => con[t] \in Handles

ThreadsInv == IndexInRange /\ IdsInv /\ SweepInv /\ HoldsInv

Core == SharedType /\ LocalType /\ TableInv /\ ThreadsInv

\* A socket is open only for a connection that has an id.
OnlineInv == \A c \in online : cid[c] # NULL

IInv == Core /\ OnlineInv

\* Emptying an occupied slot keeps the table exact and touches no other slot.
LEMMA ClearSlotTable ==
    ASSUME TableInv, NEW i \in Slots, mgr[i] # NULL, ClearSlot(i)
    PROVE  /\ TableInv'
           /\ size' = size
           /\ \A j \in Slots : j # i => mgr'[j] = mgr[j]
<1> USE NullAssumption
<1>1. size' = size /\ Slots' = Slots
  BY DEF ClearSlot, Slots
<1>2. TableType'
  <2>1. second[i] \in records
    BY DEF TableInv, RecordsExact
  <2>2. free' \in Seq(Slots)
    BY DEF ClearSlot, TableInv, TableType
  <2>3. mgr' \in [Slots -> Handles \cup {NULL}]
    BY DEF ClearSlot, TableInv, TableType
  <2>4. second' \in [Slots -> (Int \X Slots) \cup {NULL}]
    BY DEF ClearSlot, TableInv, TableType
  <2> QED BY <1>1, <2>2, <2>3, <2>4 DEF ClearSlot, TableInv, TableType
<1>3. \A j \in Slots : mgr'[j] = IF j = i THEN NULL ELSE mgr[j]
  BY DEF ClearSlot, TableInv, TableType
<1>4. \A j \in Slots : second'[j] = IF j = i THEN NULL ELSE second[j]
  BY DEF ClearSlot, TableInv, TableType
<1>5. FreeListExact'
  <2>1. /\ Len(free') = Len(free) + 1
        /\ \A j \in 1 .. Len(free) : free'[j] = free[j]
        /\ free'[Len(free) + 1] = i
        /\ Len(free) \in Nat
    BY DEF ClearSlot, TableInv, TableType
  <2>2. \A j \in 1 .. Len(free) : free[j] # i
    BY DEF TableInv, FreeListExact
  <2>3. ASSUME NEW j \in 1 .. Len(free'), NEW k \in 1 .. Len(free'), free'[j] = free'[k]
        PROVE  j = k
    BY <2>1, <2>2, <2>3 DEF TableInv, FreeListExact
  <2>4. ASSUME NEW n \in Slots
        PROVE  (mgr'[n] = NULL) <=> (\E j \in 1 .. Len(free') : free'[j] = n)
    <3>1. CASE n = i
      BY <1>3, <2>1, <3>1
    <3>2. CASE n # i
      <4>1. mgr'[n] = mgr[n]
        BY <1>3, <3>2
      <4>2. (mgr[n] = NULL) <=> (\E j \in 1 .. Len(free) : free[j] = n)
        BY DEF TableInv, FreeListExact
      <4> QED BY <4>1, <4>2, <2>1, <3>2
    <3> QED BY <3>1, <3>2
  <2> QED BY <1>1, <2>3, <2>4 DEF FreeListExact
<1>6. RecordsExact'
  <2>1. records' = records \ {second[i]}
    BY DEF ClearSlot
  <2>2. ASSUME NEW j \in Slots, mgr'[j] # NULL
        PROVE  second'[j] \in records' /\ second'[j][2] = j
    BY <1>3, <1>4, <2>1, <2>2 DEF TableInv, RecordsExact
  <2>3. ASSUME NEW r \in records'
        PROVE  r[2] \in Slots /\ mgr'[r[2]] # NULL /\ second'[r[2]] = r
    BY <1>3, <1>4, <2>1 DEF TableInv, RecordsExact
  <2> QED BY <1>1, <2>2, <2>3 DEF RecordsExact
<1> QED BY <1>1, <1>2, <1>3, <1>5, <1>6 DEF TableInv

\* A refreshed slot has its new record and not the old one.
LEMMA MoveDeadlineTable ==
    ASSUME TableInv, NEW i \in Slots, now \in Nat, MoveDeadline(i)
    PROVE  TableInv' /\ size' = size /\ mgr' = mgr
<1> USE NullAssumption, ClockAssumption
<1> DEFINE rec == <<now + Timeout, i>>
<1>1. CASE mgr[i] = NULL
  BY <1>1 DEF MoveDeadline, table, TableInv, TableType, FreeListExact, RecordsExact, Slots
<1>2. CASE mgr[i] # NULL
  <2>1. /\ records' = (records \ {second[i]}) \cup {rec}
        /\ second' = [second EXCEPT ![i] = rec]
        /\ size' = size /\ mgr' = mgr /\ free' = free
    BY <1>2 DEF MoveDeadline
  <2>2. Slots' = Slots
    BY <2>1 DEF Slots
  <2>3. rec \in Int \X Slots
    OBVIOUS
  <2>4. TableType'
    BY <2>1, <2>2, <2>3 DEF TableInv, TableType
  <2>5. FreeListExact'
    BY <2>1, <2>2 DEF TableInv, FreeListExact
  <2>6. RecordsExact'
    <3>1. \A j \in Slots : second'[j] = IF j = i THEN rec ELSE second[j]
      BY <2>1 DEF TableInv, TableType
    <3>2. ASSUME NEW j \in Slots, mgr'[j] # NULL
          PROVE  second'[j] \in records' /\ second'[j][2] = j
      BY <2>1, <3>1, <3>2, <1>2 DEF TableInv, RecordsExact
    <3>3. ASSUME NEW r \in records'
          PROVE  r[2] \in Slots /\ mgr'[r[2]] # NULL /\ second'[r[2]] = r
      <4>1. CASE r = rec
        BY <4>1, <2>1, <3>1, <1>2
      <4>2. CASE r \in records /\ r # second[i]
        BY <4>2, <2>1, <3>1, <1>2 DEF TableInv, RecordsExact
      <4> QED BY <4>1, <4>2, <2>1
    <3> QED BY <2>2, <3>2, <3>3 DEF RecordsExact
  <2> QED BY <2>1, <2>4, <2>5, <2>6 DEF TableInv
<1> QED BY <1>1, <1>2

\* What is left of a list once its first entry is taken.
LEMMA TakeFirst ==
    ASSUME NEW S, NEW s \in Seq(S), s # <<>>
    PROVE  /\ Len(s) \in Nat /\ Len(s) >= 1
           /\ Head(s) = s[1] /\ Head(s) \in S
           /\ Tail(s) \in Seq(S)
           /\ Len(Tail(s)) = Len(s) - 1
           /\ \A j \in 1 .. Len(s) - 1 : Tail(s)[j] = s[j + 1]
OBVIOUS

\* A new connection takes the first free index, of the list as it is or of the
\* indices that expansion adds: an empty slot that no other list entry names.
LEMMA AttachTable ==
    ASSUME TableInv, IdsInv, now \in Nat, nextHandle \in 0 .. MaxHandles,
           NEW t \in Threads, AttachEndpoint(t)
    PROVE  /\ TableInv'
           /\ size <= size' /\ Slots \subseteq Slots'
           /\ \E i \in Slots' :
                 /\ cid' = [cid EXCEPT ![nextHandle] = i]
                 /\ i \notin Slots \/ mgr[i] = NULL
                 /\ free # <<>> => i = free[1]
                 /\ \A j \in Slots' :
                      /\ mgr'[j] = IF j = i THEN nextHandle
                                   ELSE IF j \in Slots THEN mgr[j] ELSE NULL
                      /\ second'[j] = IF j = i THEN <<now + Timeout, i>>
                                      ELSE IF j \in Slots THEN second[j] ELSE NULL
           /\ \A j \in Slots : mgr[j] # NULL => j < size' /\ mgr'[j] = mgr[j]
           /\ size' = size \/ size' = Expand
<1> USE NullAssumption, ClockAssumption, SizesAssumption, HandlesAssumption
<1> DEFINE c    == nextHandle
           n    == IF free = <<>> THEN Expand ELSE size
           list == IF free = <<>> THEN IndexRange(size, n) ELSE free
           i    == Head(list)
           rec  == <<now + Timeout, i>>
<1>1. c \in Handles /\ c # NULL
  BY DEF AttachEndpoint, Handles
<1>2. /\ size' = n
      /\ free' = Tail(list)
      /\ mgr' = [j \in 0 .. n - 1 |->
                    IF j = i THEN c ELSE IF j < size THEN mgr[j] ELSE NULL]
      /\ second' = [j \in 0 .. n - 1 |->
                    IF j = i THEN rec ELSE IF j < size THEN second[j] ELSE NULL]
      /\ records' = records \cup {rec}
      /\ cid' = [cid EXCEPT ![c] = i]
  BY DEF AttachEndpoint
<1>3. size \in Nat /\ size > 0 /\ free \in Seq(Slots)
  BY DEF AttachEndpoint, IdsInv, TableInv, TableType
<1>4. n \in Nat /\ size <= n /\ (free = <<>> => size < n)
  BY <1>3 DEF AttachEndpoint, Expand
<1>5. Slots' = 0 .. n - 1 /\ Slots \subseteq 0 .. n - 1
  BY <1>2, <1>3, <1>4 DEF Slots
\* The indices on offer are the empty slots of the table after expansion.
<1>6. /\ list \in Seq(0 .. n - 1)
      /\ list # <<>>
      /\ \A j, k \in 1 .. Len(list) : list[j] = list[k] => j = k
      /\ \A m \in 0 .. n - 1 :
            (m \notin Slots \/ mgr[m] = NULL) <=> (\E j \in 1 .. Len(list) : list[j] = m)
  <2>1. CASE free = <<>>
    <3>1. list = [j \in 1 .. n - size |-> size + j - 1] /\ size < n
      BY <2>1, <1>4 DEF IndexRange
    <3> HIDE DEF n, list
    <3>2. Len(list) = n - size /\ list \in Seq(0 .. n - 1)
      BY <3>1, <1>3, <1>4
    <3>3. \A j \in 1 .. Len(list) : list[j] = size + j - 1
      BY <3>1, <3>2
    <3>4. \A j, k \in 1 .. Len(list) : list[j] = list[k] => j = k
      BY <3>2, <3>3, <1>3, <1>4
    <3>5. \A m \in Slots : mgr[m] # NULL
      BY <2>1 DEF TableInv, FreeListExact
    <3>6. ASSUME NEW m \in 0 .. n - 1
          PROVE (m \notin Slots \/ mgr[m] = NULL) <=> (\E j \in 1 .. Len(list) : list[j] = m)
      <4>1. CASE m < size
        BY <4>1, <3>2, <3>3, <3>5, <1>3 DEF Slots
      <4>2. CASE m >= size
        <5>1. m - size + 1 \in 1 .. Len(list) /\ list[m - size + 1] = m
          BY <4>2, <3>2, <3>3, <1>3, <1>4
        <5>2. m \notin Slots
          BY <4>2, <1>3 DEF Slots
        <5> QED BY <5>1, <5>2
      <4> QED BY <4>1, <4>2, <1>3
    <3>7. list # <<>>
      BY <3>1, <3>2, <1>3, <1>4
    <3> QED BY <3>2, <3>4, <3>6, <3>7
  <2>2. CASE free # <<>>
    <3>1. list = free /\ n = size /\ Slots = 0 .. n - 1
      BY <2>2 DEF Slots
    <3> QED BY <3>1, <2>2, <1>3 DEF TableInv, FreeListExact
  <2> QED BY <2>1, <2>2
<1> HIDE DEF n, list
<1>7. /\ Len(list) \in Nat /\ Len(list) >= 1
      /\ i = list[1]
      /\ i \in 0 .. n - 1
      /\ Len(Tail(list)) = Len(list) - 1
      /\ \A j \in 1 .. Len(list) - 1 : Tail(list)[j] = list[j + 1]
      /\ Tail(list) \in Seq(0 .. n - 1)
  <2>1. list \in Seq(0 .. n - 1) /\ list # <<>>
    BY <1>6
  <2> HIDE <1>6
  <2>2. /\ Len(list) \in Nat /\ Len(list) >= 1
        /\ Head(list) = list[1] /\ Head(list) \in 0 .. n - 1
        /\ Tail(list) \in Seq(0 .. n - 1)
        /\ Len(Tail(list)) = Len(list) - 1
        /\ \A j \in 1 .. Len(list) - 1 : Tail(list)[j] = list[j + 1]
    BY <2>1, TakeFirst, Zenon
  <2> QED BY <2>2
<1>8. i \notin Slots \/ mgr[i] = NULL
  BY <1>6, <1>7
<1>9. rec \in Int \X (0 .. n - 1)
  BY <1>7
<1> HIDE DEF i
<1>10. TableType'
  <2>1. records' \in SUBSET (Int \X (0 .. n - 1))
    BY <1>2, <1>9, <1>5 DEF TableInv, TableType
  <2>2. mgr' \in [0 .. n - 1 -> Handles \cup {NULL}]
    BY <1>1, <1>2, <1>3, <1>4 DEF TableInv, TableType, Slots
  <2>3. second' \in [0 .. n - 1 -> (Int \X (0 .. n - 1)) \cup {NULL}]
    <3>1. ASSUME NEW j \in 0 .. n - 1
          PROVE (IF j = i THEN rec ELSE IF j < size THEN second[j] ELSE NULL)
                    \in (Int \X (0 .. n - 1)) \cup {NULL}
      <4>1. CASE j < size /\ j # i
        <5>1. j \in Slots
          BY <4>1, <1>3 DEF Slots
        <5>2. second[j] \in (Int \X Slots) \cup {NULL}
          BY <5>1 DEF TableInv, TableType
        <5> QED BY <5>2, <4>1, <1>5
      <4>2. CASE j >= size \/ j = i
        BY <4>2, <1>9, <1>3
      <4> QED BY <4>1, <4>2, <1>3
    <3> QED BY <3>1, <1>2
  <2> QED BY <1>2, <1>4, <1>5, <1>7, <2>1, <2>2, <2>3 DEF TableType
<1>11. \A j \in 0 .. n - 1 :
          /\ mgr'[j] = IF j = i THEN c ELSE IF j < size THEN mgr[j] ELSE NULL
          /\ second'[j] = IF j = i THEN rec ELSE IF j < size THEN second[j] ELSE NULL
  BY <1>2
<1>12. FreeListExact'
  <2>1. ASSUME NEW j \in 1 .. Len(free'), NEW k \in 1 .. Len(free'), free'[j] = free'[k]
        PROVE  j = k
    BY <2>1, <1>2, <1>6, <1>7
  <2>2. ASSUME NEW m \in 0 .. n - 1
        PROVE  (mgr'[m] = NULL) <=> (\E j \in 1 .. Len(free') : free'[j] = m)
    <3>1. CASE m = i
      <4>1. mgr'[m] # NULL
        BY <3>1, <1>11, <1>1
      <4>2. ASSUME NEW j \in 1 .. Len(free'), free'[j] = m
            PROVE  FALSE
        BY <4>2, <3>1, <1>2, <1>6, <1>7
      <4> QED BY <4>1, <4>2
    <3>2. CASE m # i
      <4>1. (mgr'[m] = NULL) <=> (m \notin Slots \/ mgr[m] = NULL)
        BY <3>2, <1>11, <1>3 DEF Slots
      <4>2. (\E j \in 1 .. Len(free') : free'[j] = m)
                <=> (\E j \in 1 .. Len(list) : list[j] = m)
        <5>1. ASSUME NEW j \in 1 .. Len(list), list[j] = m
              PROVE  \E k \in 1 .. Len(free') : free'[k] = m
          <6>1. j # 1
            BY <5>1, <3>2, <1>7
          <6>2. j - 1 \in 1 .. Len(free') /\ free'[j - 1] = m
            BY <5>1, <6>1, <1>2, <1>7
          <6> QED BY <6>2
        <5>2. ASSUME NEW j \in 1 .. Len(free'), free'[j] = m
              PROVE  \E k \in 1 .. Len(list) : list[k] = m
          <6>1. j + 1 \in 1 .. Len(list) /\ list[j + 1] = m
            BY <5>2, <1>2, <1>7
          <6> QED BY <6>1
        <5> QED BY <5>1, <5>2
      <4> QED BY <4>1, <4>2, <1>6
    <3> QED BY <3>1, <3>2
  <2> QED BY <2>1, <2>2, <1>5 DEF FreeListExact
<1>13. RecordsExact'
  <2>1. ASSUME NEW j \in 0 .. n - 1, mgr'[j] # NULL
        PROVE  second'[j] \in records' /\ second'[j][2] = j
    BY <2>1, <1>2, <1>3, <1>11 DEF TableInv, RecordsExact, Slots
  <2>2. ASSUME NEW r \in records'
        PROVE  r[2] \in 0 .. n - 1 /\ mgr'[r[2]] # NULL /\ second'[r[2]] = r
    <3>1. CASE r = rec
      BY <3>1, <1>7, <1>11, <1>1
    <3>2. CASE r \in records
      <4>1. r[2] \in Slots /\ mgr[r[2]] # NULL /\ second[r[2]] = r
        BY <3>2 DEF TableInv, RecordsExact
      <4>2. r[2] # i /\ r[2] < size /\ r[2] \in 0 .. n - 1
        BY <4>1, <1>8, <1>5, <1>3 DEF Slots
      <4> QED BY <4>1, <4>2, <1>11
    <3> QED BY <3>1, <3>2, <1>2
  <2> QED BY <2>1, <2>2, <1>5 DEF RecordsExact
<1>14. /\ i \in Slots' /\ cid' = [cid EXCEPT ![nextHandle] = i]
       /\ i \notin Slots \/ mgr[i] = NULL
       /\ free # <<>> => i = free[1]
       /\ \A j \in Slots' :
            /\ mgr'[j] = IF j = i THEN nextHandle ELSE IF j \in Slots THEN mgr[j] ELSE NULL
            /\ second'[j] = IF j = i THEN <<now + Timeout, i>>
                            ELSE IF j \in Slots THEN second[j] ELSE NULL
  <2>1. i \in Slots' /\ cid' = [cid EXCEPT ![nextHandle] = i] /\ (i \notin Slots \/ mgr[i] = NULL)
    BY <1>2, <1>5, <1>7, <1>8
  <2>2. free # <<>> => i = free[1]
    BY <1>7 DEF list
  <2>3. \A j \in Slots' : j < size <=> j \in Slots
    BY <1>3, <1>4, <1>5 DEF Slots
  <2> QED BY <1>5, <1>11, <2>1, <2>2, <2>3
<1>15. \A j \in Slots : mgr[j] # NULL => j < size' /\ mgr'[j] = mgr[j]
  BY <1>2, <1>3, <1>4, <1>5, <1>8, <1>11 DEF Slots
<1>16. size' = size \/ size' = Expand
  BY <1>2 DEF n
<1> QED BY <1>2, <1>4, <1>5, <1>7, <1>10, <1>12, <1>13, <1>14, <1>15, <1>16 DEF TableInv

\* What AttachEndpoint does with the slot it takes.
AttachedAt(i) ==
    /\ cid' = [cid EXCEPT ![nextHandle] = i]
    /\ i \notin Slots \/ mgr[i] = NULL
    /\ free # <<>> => i = free[1]
    /\ \A j \in Slots' :
         /\ mgr'[j] = IF j = i THEN nextHandle ELSE IF j \in Slots THEN mgr[j] ELSE NULL
         /\ second'[j] = IF j = i THEN <<now + Timeout, i>>
                         ELSE IF j \in Slots THEN second[j] ELSE NULL

\* AttachEndpoint takes one slot.
LEMMA AttachSlot ==
    ASSUME TableInv, IdsInv, now \in Nat, nextHandle \in 0 .. MaxHandles,
           NEW t \in Threads, AttachEndpoint(t)
    PROVE  \E i \in Slots' : AttachedAt(i)
BY AttachTable DEF AttachedAt

-----------------------------------------------------------------------------

\* A step that leaves the table alone leaves it exact.
LEMMA TableUnchanged ==
    ASSUME TableInv, UNCHANGED table
    PROVE  TableInv' /\ Slots' = Slots
BY DEF TableInv, TableType, FreeListExact, RecordsExact, Slots, table

\* Leaving a handler keeps the locals typed.
LEMMA ReturnType ==
    ASSUME LocalType, NEW t \in Threads, Return(t)
    PROVE  LocalType'
BY DEF LocalType, Return, PCs, Ops

\* Moving on in a handler keeps the locals typed.
LEMMA GotoType ==
    ASSUME LocalType, NEW t \in Threads, NEW label \in PCs, Goto(t, label),
           UNCHANGED <<op, idx, con, notify, at, tid>>
    PROVE  LocalType'
BY DEF LocalType, Goto

\* Entering a handler keeps the locals typed.
LEMMA EnterType ==
    ASSUME LocalType, NEW t \in Threads, NEW o \in Ops, NEW i \in Nat, NEW n \in BOOLEAN,
           NEW h \in Handles \cup {NULL}, Enter(t, o, i, n, h)
    PROVE  LocalType'
BY DEF LocalType, Enter, PCs

\* Whatever is closed, the unpolled events that remain are typed.
LEMMA EventsType ==
    ASSUME SharedType, NEW on
    PROVE  EventsOf(on) \in [Epolls -> SUBSET (Handles \X {"io", "error"})]
BY DEF SharedType, EventsOf

\* Initially the table is exact: all slots are empty and listed in order.
LEMMA InitInv == Init => IInv
<1> USE SizesAssumption, NullAssumption, HandlesAssumption
<1> SUFFICES ASSUME Init PROVE IInv
  OBVIOUS
<1>1. SharedType /\ LocalType
  BY DEF Init, SharedType, LocalType, PCs, Ops, Epolls
<1>2. TableType
  BY DEF Init, TableType, Slots
<1>3. FreeListExact
  <2>1. Len(free) = DefaultSize /\ \A j \in 1 .. Len(free) : free[j] = j - 1
    BY DEF Init
  <2>2. ASSUME NEW i \in Slots
        PROVE  (mgr[i] = NULL) <=> (\E j \in 1 .. Len(free) : free[j] = i)
    <3>1. i + 1 \in 1 .. Len(free) /\ free[i + 1] = i
      BY <2>1 DEF Init, Slots
    <3>2. mgr[i] = NULL
      BY DEF Init, Slots
    <3> QED BY <3>1, <3>2
  <2> QED BY <2>1, <2>2 DEF FreeListExact
<1>4. RecordsExact
  BY DEF Init, RecordsExact, Slots
<1>5. ThreadsInv
  BY DEF Init, ThreadsInv, IndexInRange, IdsInv, SweepInv, HoldsInv
<1>6. OnlineInv
  BY DEF Init, OnlineInv
<1> QED BY <1>1, <1>2, <1>3, <1>4, <1>5, <1>6 DEF IInv, Core, TableInv

\* The invariant survives every step.  One case per action; the table itself
\* changes in five of them.
LEMMA CoreStep == IInv /\ [Next]_vars => Core'
<1> USE NullAssumption, ClockAssumption, HandlesAssumption
<1> SUFFICES ASSUME IInv, [Next]_vars PROVE Core'
  OBVIOUS
<1>1. SharedType /\ LocalType /\ TableInv /\ ThreadsInv /\ OnlineInv
  BY DEF IInv, Core
<1>2. ASSUME NEW t \in Threads, GetConnection(t) PROVE Core'
  <2>1. TableInv' /\ Slots' = Slots
    BY <1>1, <1>2, TableUnchanged DEF GetConnection
  <2>2. idx[t] \in Slots /\ mgr[idx[t]] \in Handles \cup {NULL}
    BY <1>1, <1>2 DEF GetConnection, LocalType, ThreadsInv, IndexInRange, TableInv, TableType
  <2>3. SharedType'
    BY <1>1, <1>2 DEF GetConnection, SharedType, sockets, clock
  <2>4. CASE mgr[idx[t]] = NULL
    <3>1. Return(t) /\ UNCHANGED <<table, connMtx, cid, pending, phase>>
      BY <1>2, <2>4 DEF GetConnection
    <3>2. LocalType'
      BY <1>1, <3>1, ReturnType
    <3>3. ThreadsInv'
      BY <1>1, <2>1, <3>1 DEF Return, LocalType, ThreadsInv, IndexInRange, IdsInv, SweepInv,
         HoldsInv, table
    <3> QED BY <2>1, <2>3, <3>2, <3>3 DEF Core
  <2>5. CASE mgr[idx[t]] # NULL
    <3>1. /\ con' = [con EXCEPT ![t] = mgr[idx[t]]]
          /\ pc' = [pc EXCEPT ![t] = IF op[t] \in {"error", "close"} THEN "check" ELSE "do"]
          /\ UNCHANGED <<table, connMtx, cid, pending, phase, op, idx, notify, at, tid>>
      BY <1>2, <2>5 DEF GetConnection, Goto
    <3>2. LocalType'
      BY <1>1, <2>2, <3>1 DEF LocalType, PCs
    <3>3. ThreadsInv'
      BY <1>1, <1>2, <2>1, <2>2, <2>5, <3>1 DEF GetConnection, LocalType, ThreadsInv,
         IndexInRange, IdsInv, SweepInv, HoldsInv, table
    <3> QED BY <2>1, <2>3, <3>2, <3>3 DEF Core
  <2> QED BY <2>4, <2>5
<1>3. ASSUME NEW t \in Threads, ShutdownCheck(t) PROVE Core'
  <2>1. TableInv' /\ Slots' = Slots
    BY <1>1, <1>3, TableUnchanged DEF ShutdownCheck
  <2>2. SharedType'
    BY <1>1, <1>3 DEF ShutdownCheck, SharedType, sockets, clock
  <2>3. LocalType'
    BY <1>1, <1>3, GotoType DEF ShutdownCheck, PCs
  <2>4. ThreadsInv'
    BY <1>1, <1>3, <2>1 DEF ShutdownCheck, Goto, LocalType, ThreadsInv, IndexInRange,
       IdsInv, SweepInv, HoldsInv, table
  <2> QED BY <2>1, <2>2, <2>3, <2>4 DEF Core
<1>4. ASSUME NEW t \in Threads, ShutdownClose(t) PROVE Core'
  <2>1. TableInv' /\ Slots' = Slots
    BY <1>1, <1>4, TableUnchanged DEF ShutdownClose
  <2>2. ready' \in [Epolls -> SUBSET (Handles \X {"io", "error"})]
    BY <1>1, <1>4, EventsType DEF ShutdownClose
  <2>3. SharedType'
    BY <1>1, <1>4, <2>2 DEF ShutdownClose, SharedType, clock, ThreadsInv, HoldsInv
  <2>4. LocalType'
    BY <1>1, <1>4, GotoType DEF ShutdownClose, PCs
  <2>5. ThreadsInv'
    BY <1>1, <1>4, <2>1 DEF ShutdownClose, Goto, LocalType, ThreadsInv, IndexInRange,
       IdsInv, SweepInv, HoldsInv, table
  <2> QED BY <2>1, <2>3, <2>4, <2>5 DEF Core
<1>5. ASSUME NEW t \in Threads, DeleteConnection(t) PROVE Core'
  <2>1. idx[t] \in Slots
    BY <1>1, <1>5 DEF DeleteConnection, LocalType, ThreadsInv, IndexInRange
  <2>2. TableInv' /\ size' = size
    <3>1. CASE mgr[idx[t]] = NULL
      BY <1>1, <1>5, <3>1, TableUnchanged DEF DeleteConnection, DropSlot, table
    <3>2. CASE mgr[idx[t]] # NULL
      BY <1>1, <1>5, <2>1, <3>2, ClearSlotTable DEF DeleteConnection, DropSlot
    <3> QED BY <3>1, <3>2
  <2>3. LocalType'
    BY <1>1, <1>5, ReturnType DEF DeleteConnection
  <2>4. ready' \in [Epolls -> SUBSET (Handles \X {"io", "error"})]
    BY <1>1, <1>5, EventsType DEF DeleteConnection
  <2>5. SharedType'
    BY <1>1, <1>5, <2>4 DEF DeleteConnection, Referenced, SharedType, clock
  <2>6. ThreadsInv'
    BY <1>1, <1>5, <2>2 DEF DeleteConnection, Return, LocalType, ThreadsInv, IndexInRange,
       IdsInv, SweepInv, HoldsInv, Slots
  <2> QED BY <2>2, <2>3, <2>5, <2>6 DEF Core
<1>6. ASSUME NEW t \in Threads, RefreshTime(t) PROVE Core'
  <2>1. idx[t] \in Slots /\ now \in Nat
    BY <1>1, <1>6 DEF RefreshTime, LocalType, SharedType, ThreadsInv, IndexInRange
  <2>2. TableInv' /\ size' = size
    BY <1>1, <1>6, <2>1, MoveDeadlineTable DEF RefreshTime
  <2>3. LocalType'
    BY <1>1, <1>6, ReturnType DEF RefreshTime
  <2>4. ready' \in [Epolls -> SUBSET (Handles \X {"io", "error"})]
    BY <1>1, <1>6, EventsType DEF RefreshTime
  <2>5. SharedType'
    BY <1>1, <1>6, <2>4 DEF RefreshTime, Referenced, SharedType, clock
  <2>6. ThreadsInv'
    BY <1>1, <1>6, <2>2 DEF RefreshTime, Return, LocalType, ThreadsInv, IndexInRange,
       IdsInv, SweepInv, HoldsInv, Slots
  <2> QED BY <2>2, <2>3, <2>5, <2>6 DEF Core
<1>7. ASSUME NEW t \in Threads, DoRecvEvent(t) \/ DoSendEvent(t) PROVE Core'
  <2>1. TableInv' /\ Slots' = Slots
    BY <1>1, <1>7, TableUnchanged DEF DoRecvEvent, DoSendEvent
  <2>2. SharedType'
    BY <1>1, <1>7 DEF DoRecvEvent, DoSendEvent, SharedType, sockets, clock
  <2>3. LocalType'
    BY <1>1, <1>7, GotoType DEF DoRecvEvent, DoSendEvent, PCs
  <2>4. ThreadsInv'
    BY <1>1, <1>7, <2>1 DEF DoRecvEvent, DoSendEvent, Goto, LocalType, ThreadsInv,
       IndexInRange, IdsInv, SweepInv, HoldsInv, table
  <2> QED BY <2>1, <2>2, <2>3, <2>4 DEF Core
<1>8. ASSUME NEW t \in Threads, SweepThrottle(t) PROVE Core'
  <2>1. TableInv' /\ Slots' = Slots
    BY <1>1, <1>8, TableUnchanged DEF SweepThrottle
  <2>2. SharedType'
    BY <1>1, <1>8 DEF SweepThrottle, SharedType, sockets, clock
  <2>3. LocalType'
    BY <1>1, <1>8 DEF SweepThrottle, Goto, LocalType, SharedType, PCs, Ops
  <2>4. ThreadsInv'
    BY <1>1, <1>8, <2>1 DEF SweepThrottle, Goto, LocalType, ThreadsInv, IndexInRange,
       IdsInv, SweepInv, HoldsInv, table
  <2> QED BY <2>1, <2>2, <2>3, <2>4 DEF Core
<1>9. ASSUME NEW t \in Threads, SweepLock(t) PROVE Core'
  <2>1. TableInv' /\ Slots' = Slots
    BY <1>1, <1>9, TableUnchanged DEF SweepLock
  <2>2. SharedType'
    BY <1>1, <1>9 DEF SweepLock, SharedType, LocalType, sockets
  <2>3. LocalType'
    BY <1>1, <1>9, GotoType DEF SweepLock, PCs
  <2>4. ThreadsInv'
    BY <1>1, <1>9, <2>1 DEF SweepLock, Goto, LocalType, ThreadsInv, IndexInRange,
       IdsInv, SweepInv, HoldsInv, table
  <2> QED BY <2>1, <2>2, <2>3, <2>4 DEF Core
<1>10. ASSUME NEW t \in Threads, SweepNext(t) PROVE Core'
  <2>1. TableInv' /\ Slots' = Slots
    BY <1>1, <1>10, TableUnchanged DEF SweepNext
  <2>2. PICK r \in records :
            /\ idx' = [idx EXCEPT ![t] = r[2]]
            /\ con' = [con EXCEPT ![t] = mgr[r[2]]]
            /\ notify' = [notify EXCEPT ![t] = TRUE]
    BY <1>10 DEF SweepNext, Earliest, Expired, EvictNotify
  <2>3. r[2] \in Slots /\ r[2] \in Nat /\ mgr[r[2]] \in Handles /\ mgr[r[2]] # NULL
    BY <1>1 DEF TableInv, TableType, RecordsExact, Slots
  <2>4. SharedType'
    BY <1>1, <1>10 DEF SweepNext, SharedType, sockets, clock
  <2>5. LocalType'
    BY <1>1, <1>10, <2>2, <2>3 DEF SweepNext, Goto, LocalType, PCs
  <2>6. ThreadsInv'
    BY <1>1, <1>10, <2>1, <2>2, <2>3 DEF SweepNext, Goto, LocalType, ThreadsInv,
       IndexInRange, IdsInv, SweepInv, HoldsInv, table
  <2> QED BY <2>1, <2>4, <2>5, <2>6 DEF Core
<1>11. ASSUME NEW t \in Threads, SweepErase(t) PROVE Core'
  <2>1. idx[t] \in Slots /\ mgr[idx[t]] # NULL /\ connMtx = t
    BY <1>1, <1>11 DEF SweepErase, ThreadsInv, SweepInv
  <2>2. TableInv' /\ size' = size
    BY <1>1, <1>11, <2>1, ClearSlotTable DEF SweepErase
  <2>3. LocalType'
    BY <1>1, <1>11 DEF SweepErase, Goto, LocalType, PCs
  <2>4. ready' \in [Epolls -> SUBSET (Handles \X {"io", "error"})]
    BY <1>1, <1>11, EventsType DEF SweepErase
  <2>5. SharedType'
    BY <1>1, <1>11, <2>4 DEF SweepErase, Referenced, SharedType, clock
  <2>6. ThreadsInv'
    BY <1>1, <1>11, <2>1, <2>2 DEF SweepErase, Goto, LocalType, ThreadsInv, IndexInRange,
       IdsInv, SweepInv, HoldsInv, Slots
  <2> QED BY <2>2, <2>3, <2>5, <2>6 DEF Core
<1>12. ASSUME NEW t \in Threads, SweepEnd(t) PROVE Core'
  <2>1. TableInv' /\ Slots' = Slots
    BY <1>1, <1>12, TableUnchanged DEF SweepEnd
  <2>2. SharedType'
    BY <1>1, <1>12 DEF SweepEnd, SharedType, sockets, clock
  <2>3. LocalType'
    BY <1>1, <1>12, ReturnType DEF SweepEnd
  <2>4. ThreadsInv'
    BY <1>1, <1>12, <2>1 DEF SweepEnd, Return, LocalType, ThreadsInv, IndexInRange,
       IdsInv, SweepInv, HoldsInv, table
  <2> QED BY <2>1, <2>2, <2>3, <2>4 DEF Core
<1>13. ASSUME NEW t \in Threads, NEW c \in Handles, PollEvent(t, c) PROVE Core'
  <2>1. TableInv' /\ Slots' = Slots
    BY <1>1, <1>13, TableUnchanged DEF PollEvent
  <2>2. EpollOf(t) \in Epolls /\ EpollOf(t) \in Ops
    BY DEF EpollOf, Epolls, Ops
  <2>3. SharedType'
    BY <1>1, <1>13, <2>2 DEF PollEvent, SharedType, clock
  <2>4. CASE CheckConnectionId(c)
    <3>1. cid[c] \in Slots /\ cid[c] \in Nat
      BY <1>1, <1>13, <2>4 DEF PollEvent, Polling, CheckConnectionId, SharedType, ThreadsInv,
         IdsInv
    <3>2. PICK o \in Ops \ {"sweep"} : Enter(t, o, cid[c], TRUE, NULL)
      <4>1. CASE "error" \in {k \in {"io", "error"} : <<c, k>> \in ready[EpollOf(t)]}
        BY <1>13, <2>4, <4>1 DEF PollEvent, Ops
      <4>2. CASE "error" \notin {k \in {"io", "error"} : <<c, k>> \in ready[EpollOf(t)]}
        <5>1. Enter(t, EpollOf(t), cid[c], TRUE, NULL)
          BY <1>13, <2>4, <4>2 DEF PollEvent
        <5>2. EpollOf(t) \in Ops \ {"sweep"}
          BY DEF EpollOf, Ops
        <5> QED BY <5>1, <5>2
      <4> QED BY <4>1, <4>2
    <3>3. LocalType'
      BY <1>1, <3>1, <3>2, EnterType
    <3>4. ThreadsInv'
      BY <1>1, <1>13, <2>1, <3>1, <3>2 DEF PollEvent, Enter, LocalType, ThreadsInv,
         IndexInRange, IdsInv, SweepInv, HoldsInv, table
    <3> QED BY <2>1, <2>3, <3>3, <3>4 DEF Core
  <2>5. CASE ~CheckConnectionId(c)
    <3>1. UNCHANGED locals
      BY <1>13, <2>5 DEF PollEvent
    <3>2. LocalType' /\ ThreadsInv'
      BY <1>1, <1>13, <2>1, <3>1 DEF PollEvent, locals, LocalType, ThreadsInv,
         IndexInRange, IdsInv, SweepInv, HoldsInv, table
    <3> QED BY <2>1, <2>3, <3>2 DEF Core
  <2> QED BY <2>4, <2>5
<1>14. ASSUME NEW t \in Threads, CloseEndpoint(t) \/ SendMsg(t) PROVE Core'
  <2>1. TableInv' /\ Slots' = Slots
    BY <1>1, <1>14, TableUnchanged DEF CloseEndpoint, SendMsg
  <2>2. SharedType'
    BY <1>1, <1>14 DEF CloseEndpoint, SendMsg, SharedType, sockets, clock
  <2>3. PICK c \in Handles, n \in BOOLEAN, o \in {"close", "sendmsg"} :
            CheckConnectionId(c) /\ Enter(t, o, cid[c], n, NULL)
    BY <1>14 DEF CloseEndpoint, SendMsg
  <2>4. cid[c] \in Slots /\ cid[c] \in Nat
    BY <1>1, <1>14, <2>3 DEF CloseEndpoint, SendMsg, CheckConnectionId, SharedType,
       ThreadsInv, IdsInv
  <2>5. LocalType'
    BY <1>1, <2>3, <2>4, EnterType DEF Ops
  <2>6. ThreadsInv'
    BY <1>1, <1>14, <2>1, <2>3, <2>4 DEF CloseEndpoint, SendMsg, Enter, LocalType,
       ThreadsInv, IndexInRange, IdsInv, SweepInv, HoldsInv, table
  <2> QED BY <2>1, <2>2, <2>5, <2>6 DEF Core
<1>15. ASSUME NEW t \in Threads, ConnectionSendMsg(t) PROVE Core'
  <2>1. TableInv' /\ Slots' = Slots
    BY <1>1, <1>15, TableUnchanged DEF ConnectionSendMsg
  <2>2. ready' \in [Epolls -> SUBSET (Handles \X {"io", "error"})]
    <3>1. EventsOf(online') \in [Epolls -> SUBSET (Handles \X {"io", "error"})]
      BY <1>1, EventsType
    <3>2. con[t] \in Handles
      BY <1>1, <1>15 DEF ConnectionSendMsg, ThreadsInv, HoldsInv
    <3> QED BY <1>15, <3>1, <3>2 DEF ConnectionSendMsg, Epolls
  <2>3. SharedType'
    BY <1>1, <1>15, <2>2 DEF ConnectionSendMsg, Referenced, SharedType, clock
  <2>4. LocalType'
    BY <1>1, <1>15, ReturnType DEF ConnectionSendMsg
  <2>5. ThreadsInv'
    BY <1>1, <1>15, <2>1 DEF ConnectionSendMsg, Return, LocalType, ThreadsInv,
       IndexInRange, IdsInv, SweepInv, HoldsInv, table
  <2> QED BY <2>1, <2>3, <2>4, <2>5 DEF Core
<1>16. ASSUME NEW t \in Threads, NEW c \in Handles, TimerFire(t, c) PROVE Core'
  <2>1. TableInv' /\ Slots' = Slots
    BY <1>1, <1>16, TableUnchanged DEF TimerFire
  <2>2. cid[c] \in Slots /\ cid[c] \in Nat
    BY <1>1, <1>16 DEF TimerFire, Polling, SharedType, ThreadsInv, IdsInv
  <2>3. SharedType'
    BY <1>1, <1>16 DEF TimerFire, SharedType, sockets, clock
  <2>4. LocalType'
    BY <1>1, <1>16, <2>2, EnterType DEF TimerFire, Ops
  <2>5. ThreadsInv'
    BY <1>1, <1>16, <2>1, <2>2 DEF TimerFire, Enter, LocalType, SharedType, ThreadsInv,
       IndexInRange, IdsInv, SweepInv, HoldsInv, table
  <2> QED BY <2>1, <2>3, <2>4, <2>5 DEF Core
<1>17. ASSUME NEW t \in Threads, OnTimer(t) PROVE Core'
  <2>1. TableInv' /\ Slots' = Slots
    BY <1>1, <1>17, TableUnchanged DEF OnTimer
  <2>2. ready' \in [Epolls -> SUBSET (Handles \X {"io", "error"})]
    BY <1>1, <1>17, EventsType DEF OnTimer
  <2>3. /\ pending' \in [Handles -> Nat]
        /\ \A c \in Handles : pending'[c] > 0 => pending[c] > 0 \/ c \in online
        /\ online' \subseteq online
    <3>1. online' \subseteq online
      BY <1>17 DEF OnTimer, Referenced
    <3>2. CASE Beats(t)
      <4>1. tid[t] \in online /\ tid[t] \in Handles
        BY <1>1, <3>2 DEF Beats, SharedType
      <4>2. pending' \in {pending, [pending EXCEPT ![tid[t]] = @ + 1]}
        BY <1>17, <3>2 DEF OnTimer, SetTimer
      <4> QED BY <1>1, <3>1, <4>1, <4>2 DEF SharedType
    <3>3. CASE ~Beats(t)
      BY <1>1, <1>17, <3>1, <3>3 DEF OnTimer, SharedType
    <3> QED BY <3>2, <3>3
  <2>6. SharedType'
    BY <1>1, <1>17, <2>2, <2>3 DEF OnTimer, SharedType, clock
  <2>4. LocalType'
    BY <1>1, <1>17, ReturnType DEF OnTimer
  <2>5. ThreadsInv'
    BY <1>1, <1>17, <2>1, <2>3 DEF OnTimer, Return, LocalType, ThreadsInv, OnlineInv,
       IndexInRange, IdsInv, SweepInv, HoldsInv, table
  <2> QED BY <2>1, <2>4, <2>5, <2>6 DEF Core
<1>18. ASSUME NEW t \in Threads, AttachEndpoint(t) PROVE Core'
  <2>1. now \in Nat /\ nextHandle \in 0 .. MaxHandles /\ IdsInv
    BY <1>1 DEF SharedType, ThreadsInv
  <2>2. /\ TableInv'
        /\ size <= size' /\ Slots \subseteq Slots'
        /\ \E i \in Slots' : cid' = [cid EXCEPT ![nextHandle] = i]
        /\ \A j \in Slots : mgr[j] # NULL => j < size' /\ mgr'[j] = mgr[j]
    BY <1>1, <1>18, <2>1, AttachTable
  <2>3. PICK i \in Slots' : cid' = [cid EXCEPT ![nextHandle] = i]
    BY <2>2
  <2>4. size \in Nat /\ size' \in Nat
    BY <1>1, <2>2 DEF TableInv, TableType
  <2>5. SharedType'
    <3>1. /\ nextHandle \in Handles
          /\ nextHandle' \in 0 .. MaxHandles
      BY <1>1, <1>18 DEF AttachEndpoint, SharedType, Handles
    <3>2. cid' \in [Handles -> Nat \cup {NULL}]
      BY <1>1, <2>3, <2>4, <3>1 DEF SharedType, Slots
    <3>3. /\ online' = online \cup {nextHandle}
          /\ ready' = [ready EXCEPT !["send"] = @ \cup {<<nextHandle, "io">>}]
          /\ lastRecv' = [lastRecv EXCEPT ![nextHandle] = now]
          /\ pending' \in {pending, [pending EXCEPT ![nextHandle] = @ + 1]}
          /\ UNCHANGED <<connMtx, closedPosted, clock, phase>>
      BY <1>18 DEF AttachEndpoint, SetTimer
    <3>4. ready' \in [Epolls -> SUBSET (Handles \X {"io", "error"})]
      BY <1>1, <3>1, <3>3 DEF SharedType, Epolls
    <3>5. pending' \in [Handles -> Nat] /\ lastRecv' \in [Handles -> Nat]
      BY <1>1, <3>1, <3>3 DEF SharedType
    <3> QED BY <1>1, <3>1, <3>2, <3>3, <3>4, <3>5 DEF SharedType, clock
  <2>6. LocalType'
    BY <1>1, <1>18 DEF AttachEndpoint, LocalType, locals
  <2>7. IdsInv'
    <3>1. /\ nextHandle \in Handles
          /\ phase' = phase /\ phase # "done"
          /\ online' = online \cup {nextHandle}
          /\ pending' \in {pending, [pending EXCEPT ![nextHandle] = @ + 1]}
      BY <1>1, <1>18 DEF AttachEndpoint, SetTimer, SharedType, Handles
    <3>2. \A c \in Handles : cid'[c] = IF c = nextHandle THEN i ELSE cid[c]
      BY <1>1, <2>3 DEF SharedType
    <3>3. /\ i # NULL /\ i \in Slots'
          /\ \A j \in Slots : j \in Slots'
      <4>1. i \in Slots'
        BY <2>3
      <4>2. i # NULL
        BY <2>4, <4>1 DEF Slots
      <4> QED BY <4>1, <4>2, <2>2
    <3>4. \A c \in Handles : pending'[c] > 0 => c = nextHandle \/ pending[c] > 0
      BY <1>1, <3>1 DEF SharedType
    <3> QED BY <1>1, <2>2, <2>4, <3>1, <3>2, <3>3, <3>4 DEF ThreadsInv, IdsInv
  <2>8. IndexInRange' /\ SweepInv' /\ HoldsInv'
    BY <1>1, <1>18, <2>2, <2>4 DEF AttachEndpoint, LocalType, ThreadsInv, IndexInRange,
       SweepInv, HoldsInv, Slots, locals
  <2> QED BY <2>2, <2>5, <2>6, <2>7, <2>8 DEF Core, ThreadsInv
<1>19. CASE BeginShutdown \/ JoinPollers \/ JoinTimer \/ Tick
  <2>1. TableInv' /\ Slots' = Slots
    BY <1>1, <1>19, TableUnchanged DEF BeginShutdown, JoinPollers, JoinTimer, Tick
  <2>2. SharedType' /\ LocalType'
    BY <1>1, <1>19 DEF BeginShutdown, JoinPollers, JoinTimer, Tick, SharedType,
       LocalType, sockets, clock, locals
  <2>3. ThreadsInv'
    BY <1>1, <1>19, <2>1 DEF BeginShutdown, JoinPollers, JoinTimer, Tick, ThreadsInv,
       IndexInRange, IdsInv, SweepInv, HoldsInv, table, locals
  <2> QED BY <2>1, <2>2, <2>3 DEF Core
<1>20. CASE FinishShutdown
  <2>1. TableType'
    BY <1>20 DEF FinishShutdown, TableType, Slots
  <2>2. FreeListExact' /\ RecordsExact'
    BY <1>20 DEF FinishShutdown, FreeListExact, RecordsExact, Slots
  <2>3. ready' \in [Epolls -> SUBSET (Handles \X {"io", "error"})]
    BY <1>1, <1>20, EventsType DEF FinishShutdown
  <2>4. SharedType' /\ LocalType'
    BY <1>1, <1>20, <2>3 DEF FinishShutdown, SharedType, LocalType, clock, locals
  <2>5. ThreadsInv'
    BY <1>1, <1>20 DEF FinishShutdown, Joined, ThreadsInv, IndexInRange, IdsInv,
       SweepInv, HoldsInv, locals
  <2> QED BY <2>1, <2>2, <2>4, <2>5 DEF Core, TableInv
<1>21. CASE PeerSends \/ PeerCloses
  <2>1. TableInv' /\ Slots' = Slots
    BY <1>1, <1>21, TableUnchanged DEF PeerSends, PeerCloses
  <2>2. SharedType' /\ LocalType'
    BY <1>1, <1>21 DEF PeerSends, PeerCloses, SharedType, LocalType, clock, locals, Epolls
  <2>3. ThreadsInv'
    BY <1>1, <1>21, <2>1 DEF PeerSends, PeerCloses, ThreadsInv, IndexInRange, IdsInv,
       SweepInv, HoldsInv, table, locals
  <2> QED BY <2>1, <2>2, <2>3 DEF Core
<1>22. CASE UNCHANGED vars
  <2>1. TableInv' /\ Slots' = Slots
    BY <1>1, <1>22, TableUnchanged DEF vars
  <2>2. SharedType' /\ LocalType' /\ ThreadsInv'
    BY <1>1, <1>22, <2>1 DEF vars, SharedType, LocalType, ThreadsInv, IndexInRange,
       IdsInv, SweepInv, HoldsInv, table, locals, sockets, clock
  <2> QED BY <2>1, <2>2 DEF Core
<1> QED
  BY <1>2, <1>3, <1>4, <1>5, <1>6, <1>7, <1>8, <1>9, <1>10, <1>11, <1>12, <1>13, <1>14,
     <1>15, <1>16, <1>17, <1>18, <1>19, <1>20, <1>21, <1>22
  DEF Next, HandlerStep, SweepStep, AppCall, Stopped, Threads

\* Sockets are opened by AttachEndpoint, which gives the id; ids are never taken
\* back.
LEMMA OnlineStep == IInv /\ [Next]_vars => OnlineInv'
<1> USE NullAssumption
<1> SUFFICES ASSUME IInv, [Next]_vars PROVE OnlineInv'
  OBVIOUS
<1>1. ASSUME NEW t \in Threads, AttachEndpoint(t) PROVE OnlineInv'
  <2>1. now \in Nat /\ nextHandle \in 0 .. MaxHandles /\ IdsInv /\ TableInv
    BY DEF IInv, Core, SharedType, ThreadsInv
  <2>2. PICK i \in Slots' : cid' = [cid EXCEPT ![nextHandle] = i]
    BY <1>1, <2>1, AttachTable
  <2>3. i # NULL
    BY DEF Slots
  <2>4. online' = online \cup {nextHandle} /\ nextHandle \in Handles
    BY <1>1, <2>1, HandlesAssumption DEF AttachEndpoint, Handles
  <2> QED BY <2>2, <2>3, <2>4 DEF IInv, Core, SharedType, OnlineInv
<1>2. ASSUME online' \subseteq online, cid' = cid PROVE OnlineInv'
  BY <1>2 DEF IInv, OnlineInv
<1>3. ASSUME NEW t \in Threads, HandlerStep(t) PROVE online' \subseteq online /\ cid' = cid
  BY <1>3 DEF HandlerStep, GetConnection, ShutdownCheck, ShutdownClose, DeleteConnection,
     RefreshTime, Referenced, sockets
<1>4. ASSUME NEW t \in Threads, SweepStep(t) PROVE online' \subseteq online /\ cid' = cid
  BY <1>4 DEF SweepStep, SweepThrottle, SweepLock, SweepNext, SweepErase, SweepEnd,
     Referenced, sockets
<1>5. ASSUME NEW t \in Threads, DoRecvEvent(t) \/ DoSendEvent(t) \/ OnTimer(t)
             \/ CloseEndpoint(t) \/ SendMsg(t) \/ ConnectionSendMsg(t)
      PROVE  online' \subseteq online /\ cid' = cid
  BY <1>5 DEF DoRecvEvent, DoSendEvent, OnTimer, CloseEndpoint, SendMsg,
     ConnectionSendMsg, Referenced, sockets
<1>6. ASSUME NEW t \in Threads, NEW c \in Handles, PollEvent(t, c) \/ TimerFire(t, c)
      PROVE  online' \subseteq online /\ cid' = cid
  BY <1>6 DEF PollEvent, TimerFire, sockets
<1>7. CASE BeginShutdown \/ JoinPollers \/ JoinTimer \/ FinishShutdown \/ PeerSends
              \/ PeerCloses \/ Tick \/ UNCHANGED vars
  BY <1>7, <1>2 DEF BeginShutdown, JoinPollers, JoinTimer, FinishShutdown, PeerSends,
     PeerCloses, Tick, vars, sockets
<1> QED
  BY <1>1, <1>2, <1>3, <1>4, <1>5, <1>6, <1>7 DEF Next, AppCall, Stopped, Threads

\* Every reachable state satisfies the inductive invariant.
THEOREM Inductive == Spec => []IInv
<1>1. IInv /\ [Next]_vars => IInv'
  BY CoreStep, OnlineStep DEF IInv
<1> QED BY InitInv, <1>1, PTL DEF Spec

\* TypeOK: every variable keeps its type, whatever the threads do.
THEOREM TypeCorrect == Spec => []TypeOK
<1>1. IInv => TypeOK
  BY DEF IInv, Core, TableInv, TableType, SharedType, LocalType, TypeOK
<1> QED BY Inductive, <1>1, PTL

\* FreeListExact: AttachEndpointImpl, DeleteConnection and OnTimeoutCheck keep
\* the slots and the free list in step, for every number of threads and every
\* size.
THEOREM FreeListStaysExact == Spec => []FreeListExact
<1>1. IInv => FreeListExact
  BY DEF IInv, Core, TableInv
<1> QED BY Inductive, <1>1, PTL

\* RecordsExact: the same operations and RefreshTime keep the timeout records and
\* the iterators to them in step with the slots, so that no erased iterator is
\* used and the sweep dereferences no empty slot.
THEOREM RecordsStayExact == Spec => []RecordsExact
<1>1. IInv => RecordsExact
  BY DEF IInv, Core, TableInv
<1> QED BY Inductive, <1>1, PTL

\* IndexInRange: no thread ever indexes _mgr out of range, although
\* CheckConnectionId compares the index with max_container_size only.
THEOREM IndexSafe == Spec => []IndexInRange
<1>1. IInv => IndexInRange
  BY DEF IInv, Core, ThreadsInv
<1> QED BY Inductive, <1>1, PTL

\* What one step may do to the slots: keep them, empty one, fill one that is
\* empty after a legal expansion, or drop them all.
LEMMA TableStep ==
    ASSUME IInv, [Next]_vars
    PROVE  /\ size' = size \/ size' = Expand \/ size' = 0
           /\ \A i \in Slots : mgr[i] # NULL /\ i < size' => mgr'[i] \in {mgr[i], NULL}
<1> DEFINE Kept == \A i \in Slots : mgr[i] # NULL /\ i < size' => mgr'[i] \in {mgr[i], NULL}
<1>1. TableInv /\ SharedType /\ LocalType /\ ThreadsInv
  BY DEF IInv, Core
<1>2. CASE UNCHANGED <<size, mgr>>
  BY <1>2
<1>3. ASSUME NEW i \in Slots, mgr[i] # NULL, ClearSlot(i)
      PROVE  size' = size /\ Kept
  <2>1. size' = size /\ mgr' = [mgr EXCEPT ![i] = NULL]
    BY <1>3 DEF ClearSlot
  <2>2. \A j \in Slots : mgr'[j] = IF j = i THEN NULL ELSE mgr[j]
    BY <1>1, <2>1 DEF TableInv, TableType
  <2> QED BY <2>1, <2>2
<1>4. ASSUME NEW t \in Threads, AttachEndpoint(t)
      PROVE  (size' = size \/ size' = Expand) /\ Kept
  <2>1. now \in Nat /\ nextHandle \in 0 .. MaxHandles /\ IdsInv
    BY <1>1 DEF SharedType, ThreadsInv
  <2> QED BY <1>1, <1>4, <2>1, AttachTable
<1>5. ASSUME NEW t \in Threads, HandlerStep(t) PROVE size' = size /\ Kept
  <2>1. CASE DeleteConnection(t)
    <3>1. idx[t] \in Slots
      BY <1>1, <2>1 DEF DeleteConnection, LocalType, ThreadsInv, IndexInRange
    <3>2. CASE mgr[idx[t]] = NULL
      BY <1>2, <2>1, <3>2 DEF DeleteConnection, DropSlot, table
    <3>3. CASE mgr[idx[t]] # NULL
      BY <1>3, <2>1, <3>1, <3>3 DEF DeleteConnection, DropSlot
    <3> QED BY <3>2, <3>3
  <2>2. CASE RefreshTime(t)
    <3>1. size' = size /\ mgr' = mgr
      BY <2>2 DEF RefreshTime, MoveDeadline, table
    <3> QED BY <3>1
  <2> QED BY <1>2, <1>5, <2>1, <2>2 DEF HandlerStep, GetConnection, ShutdownCheck,
             ShutdownClose, table
<1>6. ASSUME NEW t \in Threads, SweepStep(t) PROVE size' = size /\ Kept
  <2>1. CASE SweepErase(t)
    <3>1. idx[t] \in Slots /\ mgr[idx[t]] # NULL
      BY <1>1, <2>1 DEF SweepErase, ThreadsInv, SweepInv
    <3> QED BY <1>3, <2>1, <3>1 DEF SweepErase
  <2> QED BY <1>2, <1>6, <2>1 DEF SweepStep, SweepThrottle, SweepLock, SweepNext, SweepEnd,
             table
<1>7. ASSUME NEW t \in Threads, DoRecvEvent(t) \/ DoSendEvent(t) \/ OnTimer(t)
             \/ CloseEndpoint(t) \/ SendMsg(t) \/ ConnectionSendMsg(t)
      PROVE  UNCHANGED <<size, mgr>>
  BY <1>7 DEF DoRecvEvent, DoSendEvent, OnTimer, CloseEndpoint, SendMsg,
     ConnectionSendMsg, table
<1>8. ASSUME NEW t \in Threads, NEW c \in Handles, PollEvent(t, c) \/ TimerFire(t, c)
      PROVE  UNCHANGED <<size, mgr>>
  BY <1>8 DEF PollEvent, TimerFire, table
<1>9. CASE BeginShutdown \/ JoinPollers \/ JoinTimer \/ PeerSends \/ PeerCloses
              \/ Tick \/ UNCHANGED vars
  BY <1>2, <1>9 DEF BeginShutdown, JoinPollers, JoinTimer, PeerSends, PeerCloses, Tick,
       vars, table
<1>10. CASE FinishShutdown
  <2>1. size' = 0 /\ \A i \in Slots : ~(i < 0)
    BY <1>1, <1>10 DEF FinishShutdown, Slots, TableInv, TableType
  <2> QED BY <2>1
<1> QED
  BY <1>2, <1>4, <1>5, <1>6, <1>7, <1>8, <1>9, <1>10 DEF Next, AppCall, Stopped, Threads

\* NoOverwrite: no step replaces the connection of an occupied slot.
THEOREM NeverOverwritten == Spec => NoOverwrite
<1>1. IInv /\ [Next]_vars =>
        [\A i \in Slots : mgr[i] # NULL /\ i < size' => mgr'[i] \in {mgr[i], NULL}]_vars
  BY TableStep
<1> QED BY Inductive, <1>1, PTL DEF Spec, NoOverwrite

\* WithinMaxSize: AttachEndpointImpl's expansion respects max_container_size
\* whenever the default size does.
THEOREM CapacityRespected == Spec => []WithinMaxSize
<1> USE SizesAssumption
<1>1. Init => WithinMaxSize
  BY DEF Init, WithinMaxSize
<1>2. IInv /\ WithinMaxSize /\ [Next]_vars => WithinMaxSize'
  <2> SUFFICES ASSUME IInv, WithinMaxSize, [Next]_vars, DefaultSize <= MaxSize
               PROVE  size' <= MaxSize
    BY DEF WithinMaxSize
  <2>1. size' = size \/ size' = Expand \/ size' = 0
    BY TableStep
  <2>2. size \in Nat /\ size <= MaxSize
    BY DEF IInv, Core, TableInv, TableType, WithinMaxSize
  <2> QED BY <2>1, <2>2 DEF Expand
<1> QED BY Inductive, <1>1, <1>2, PTL DEF Spec

-----------------------------------------------------------------------------
(* The life of a connection: who refers to it, when its socket is closed    *)
(* and who is told, and what its deadline says.                             *)


\* The handles drawn so far have an id; a connection sits in the slot of its id
\* and nowhere else, and a thread has its index from that slot.
PlaceInv ==
    /\ \A c \in Handles : cid[c] # NULL <=> c < nextHandle
    /\ \A i \in Slots : mgr[i] # NULL => cid[mgr[i]] = i
    /\ \A t \in Threads : con[t] # NULL => cid[con[t]] = idx[t]

\* A thread without a connection in hand has no reference to one.
EmptyHandsInv ==
    \A t \in Threads : pc[t] \in {"idle", "get", "stamp", "sweep"} => con[t] = NULL

Held(c) == Attached(c) \/ \E t \in Threads : con[t] = c

\* A socket is open only while something refers to its connection: the last
\* reference to go closes it.
HeldInv == \A c \in online : Held(c)

\* After Shutdown no thread is in a handler and no socket is open.
DoneInv == phase = "done" => Joined /\ online = {}

LifeInv == PlaceInv /\ EmptyHandsInv /\ HeldInv /\ DoneInv

-----------------------------------------------------------------------------
\* The empty table satisfies the invariant.
LEMMA InitLife == Init => LifeInv
<1> SUFFICES ASSUME Init PROVE LifeInv
  OBVIOUS
<1> USE NullAssumption, HandlesAssumption
<1>1. PlaceInv
  BY DEF Init, PlaceInv, Handles, Slots
<1>2. EmptyHandsInv /\ HeldInv /\ DoneInv
  BY DEF Init, EmptyHandsInv, HeldInv, DoneInv
<1> QED BY <1>1, <1>2 DEF LifeInv

\* Steps that change no reference and no slot.
LEMMA LifeKept ==
  ASSUME LocalType, LifeInv, UNCHANGED <<size, mgr, nextHandle, cid, con>>,
         online' \subseteq online, phase' = phase \/ phase' # "done",
         \A t \in Threads : \/ pc'[t] = pc[t] /\ idx'[t] = idx[t]
                            \/ phase # "done" /\ con[t] = NULL
                            \/ phase # "done" /\ idx'[t] = idx[t]
                                 /\ pc'[t] \notin {"idle", "get", "stamp", "sweep"}
  PROVE  LifeInv'
<1>1. Slots' = Slots
  BY DEF Slots
<1>2. PlaceInv'
  BY <1>1 DEF LifeInv, PlaceInv
<1>3. EmptyHandsInv'
  BY DEF LifeInv, EmptyHandsInv
<1>4. HeldInv'
  BY <1>1 DEF LifeInv, HeldInv, Held, Attached
<1>5. DoneInv'
  BY DEF LifeInv, DoneInv, Joined
<1> QED BY <1>2, <1>3, <1>4, <1>5 DEF LifeInv

\* Steps at whose end a thread drops its connection, and what nothing else
\* refers to is closed.
LEMMA LifeDropped ==
  ASSUME LocalType, TableType, OnlineInv, LifeInv, NEW t \in Threads, pc[t] # "idle",
         UNCHANGED <<size, nextHandle, cid, phase>>,
         \A i \in Slots : mgr'[i] \in {mgr[i], NULL}, DOMAIN mgr' = Slots,
         con' = [con EXCEPT ![t] = NULL], \A u \in Threads \ {t} : pc'[u] = pc[u],
         \A u \in Threads \ {t} : idx'[u] = idx[u],
         online' = Referenced(online, mgr', con')
  PROVE  LifeInv'
<1>1. Slots' = Slots
  BY DEF Slots
<1>2. \A u \in Threads : con'[u] = IF u = t THEN NULL ELSE con[u]
  BY DEF LocalType
<1>3. PlaceInv'
  BY <1>1, <1>2 DEF LifeInv, PlaceInv
<1>4. EmptyHandsInv'
  BY <1>2 DEF LifeInv, EmptyHandsInv
<1>5. HeldInv'
  BY <1>1 DEF HeldInv, Held, Attached, Referenced
<1>6. DoneInv'
  BY DEF LifeInv, DoneInv, Joined
<1> QED BY <1>3, <1>4, <1>5, <1>6 DEF LifeInv

\* Every step preserves it.
LEMMA LifeStep == IInv /\ LifeInv /\ [Next]_vars => LifeInv'
<1> SUFFICES ASSUME IInv, LifeInv, [Next]_vars PROVE LifeInv'
  OBVIOUS
<1> USE NullAssumption, HandlesAssumption
<1>1. SharedType /\ LocalType /\ TableInv /\ TableType /\ ThreadsInv /\ OnlineInv
  BY DEF IInv, Core, TableInv
<1>2. phase = "done" => \A t \in Threads : pc[t] = "idle"
  BY DEF LifeInv, DoneInv, Joined
<1>3. \A t \in Threads : pc[t] \in {"idle", "get", "stamp", "sweep"} => con[t] = NULL
  BY DEF LifeInv, EmptyHandsInv
<1>4. ASSUME NEW t \in Threads, AttachEndpoint(t) PROVE LifeInv'
  <2>1. now \in Nat /\ nextHandle \in 0 .. MaxHandles /\ IdsInv
    BY <1>1 DEF SharedType, ThreadsInv
  <2>2. PICK i \in Slots' :
           /\ cid' = [cid EXCEPT ![nextHandle] = i]
           /\ i \notin Slots \/ mgr[i] = NULL
           /\ \A j \in Slots' : mgr'[j] = IF j = i THEN nextHandle
                                          ELSE IF j \in Slots THEN mgr[j] ELSE NULL
    <3>1. PICK i \in Slots' : AttachedAt(i)
      BY <1>1, <1>4, <2>1, AttachSlot
    <3> QED BY <3>1 DEF AttachedAt
  <2>3. /\ online' = online \cup {nextHandle} /\ nextHandle' = nextHandle + 1
        /\ nextHandle < MaxHandles /\ UNCHANGED <<phase, pc, idx, con>> /\ phase # "done"
    BY <1>4 DEF AttachEndpoint, locals
  <2>4. /\ nextHandle \in Handles /\ i \in Nat /\ i # NULL
        /\ \A c \in Handles : cid'[c] = IF c = nextHandle THEN i ELSE cid[c]
    <3>1. nextHandle \in Handles
      BY <2>1, <2>3 DEF Handles
    <3>2. size' \in Nat
      BY <1>1, <1>4, <2>1, AttachTable DEF TableInv, TableType
    <3>3. i \in Nat /\ i # NULL
      BY <3>2 DEF Slots
    <3> QED BY <1>1, <2>2, <3>1, <3>3 DEF SharedType
  <2>5. \A c \in Handles : cid[c] # NULL <=> c < nextHandle
    BY DEF LifeInv, PlaceInv
  <2>6. Slots \subseteq Slots' /\ \A j \in Slots : mgr[j] # NULL => mgr'[j] = mgr[j]
    BY <1>1, <1>4, <2>1, AttachTable
  <2>7. PlaceInv'
    <3>1. \A c \in Handles : cid'[c] # NULL <=> c < nextHandle'
      BY <2>1, <2>3, <2>4, <2>5 DEF Handles
    <3>2. ASSUME NEW j \in Slots', mgr'[j] # NULL PROVE cid'[mgr'[j]] = j
      <4>1. CASE j = i
        BY <2>2, <2>4, <4>1
      <4>2. CASE j # i
        <5>1. j \in Slots /\ mgr'[j] = mgr[j] /\ mgr[j] \in Handles
          BY <1>1, <2>2, <3>2, <4>2 DEF TableType
        <5>2. cid[mgr[j]] = j
          BY <3>2, <5>1 DEF LifeInv, PlaceInv
        <5>3. mgr[j] # nextHandle
          BY <2>4, <2>5, <5>1, <5>2, <1>1 DEF TableType, Slots, Handles
        <5> QED BY <2>4, <5>1, <5>2, <5>3
      <4> QED BY <4>1, <4>2
    <3>3. ASSUME NEW u \in Threads, con'[u] # NULL PROVE cid'[con'[u]] = idx'[u]
      <4>1. con'[u] = con[u] /\ idx'[u] = idx[u] /\ con[u] \in Handles /\ cid[con[u]] = idx[u]
            /\ idx[u] \in Nat
        BY <1>1, <2>3, <3>3 DEF LifeInv, PlaceInv, LocalType
      <4>2. con[u] # nextHandle
        BY <2>4, <2>5, <4>1 DEF Handles
      <4> QED BY <2>4, <4>1, <4>2
    <3> QED BY <3>1, <3>2, <3>3 DEF PlaceInv
  <2>8. HeldInv'
    <3>1. mgr'[i] = nextHandle
      BY <2>2
    <3>2. ASSUME NEW c \in online PROVE Held(c)'
      <4>1. c # NULL
        BY <1>1 DEF SharedType, Handles
      <4>2. Held(c)
        BY DEF LifeInv, HeldInv
      <4> QED BY <2>3, <2>6, <4>1, <4>2 DEF Held, Attached
    <3> QED BY <2>3, <3>1, <3>2 DEF HeldInv, Held, Attached
  <2>9. EmptyHandsInv' /\ DoneInv'
    BY <2>3 DEF LifeInv, EmptyHandsInv, DoneInv
  <2> QED BY <2>7, <2>8, <2>9 DEF LifeInv
<1>5. ASSUME NEW t \in Threads, GetConnection(t) PROVE LifeInv'
  <2>1. pc[t] = "get" /\ con[t] = NULL /\ phase # "done" /\ idx[t] \in Slots
    BY <1>1, <1>2, <1>3, <1>5 DEF GetConnection, ThreadsInv, IndexInRange
  <2>2. UNCHANGED <<size, mgr, nextHandle, cid, online, phase>>
    BY <1>5 DEF GetConnection, table, sockets
  <2>3. CASE mgr[idx[t]] = NULL
    <3>1. con' = con
      <4>1. con' = [con EXCEPT ![t] = NULL]
        BY <1>5, <2>3 DEF GetConnection, Return
      <4> QED BY <1>1, <2>1, <4>1 DEF LocalType
    <3>2. \A u \in Threads : u = t \/ (pc'[u] = pc[u] /\ idx'[u] = idx[u])
      BY <1>1, <1>5, <2>3 DEF GetConnection, Return, LocalType
    <3> QED BY <1>1, <2>1, <2>2, <3>1, <3>2, LifeKept
  <2>4. CASE mgr[idx[t]] # NULL
    <3>1. /\ con' = [con EXCEPT ![t] = mgr[idx[t]]] /\ idx' = idx /\ pc'[t] \in {"check", "do"}
          /\ \A u \in Threads \ {t} : pc'[u] = pc[u]
      BY <1>1, <1>5, <2>4 DEF GetConnection, Goto, LocalType
    <3>2. \A u \in Threads : con'[u] = IF u = t THEN mgr[idx[t]] ELSE con[u]
      BY <1>1, <3>1 DEF LocalType
    <3>3. Slots' = Slots
      BY <2>2 DEF Slots
    <3>4. PlaceInv'
      BY <2>1, <2>2, <3>1, <3>2, <3>3 DEF LifeInv, PlaceInv
    <3>5. EmptyHandsInv' /\ DoneInv'
      BY <2>1, <2>2, <3>1, <3>2 DEF LifeInv, EmptyHandsInv, DoneInv
    <3>6. HeldInv'
      <4>1. \A c \in online : c # NULL
        BY <1>1 DEF SharedType, Handles
      <4> QED BY <2>1, <2>2, <3>2, <3>3, <4>1 DEF LifeInv, HeldInv, Held, Attached
    <3> QED BY <3>4, <3>5, <3>6 DEF LifeInv
  <2> QED BY <2>3, <2>4
<1>6. ASSUME NEW t \in Threads, DeleteConnection(t) PROVE LifeInv'
  <2>1. pc[t] = "delete" /\ idx[t] \in Slots /\ mgr \in [Slots -> Handles \cup {NULL}]
    BY <1>1, <1>6 DEF DeleteConnection, ThreadsInv, IndexInRange, TableType
  <2>2. /\ UNCHANGED <<size, nextHandle, cid, phase>>
        /\ con' = [con EXCEPT ![t] = NULL] /\ online' = Referenced(online, mgr', con')
        /\ \A u \in Threads \ {t} : pc'[u] = pc[u] /\ idx'[u] = idx[u]
    BY <1>1, <1>6 DEF DeleteConnection, Return, DropSlot, ClearSlot, table, LocalType
  <2>3. DOMAIN mgr' = Slots /\ \A i \in Slots : mgr'[i] \in {mgr[i], NULL}
    BY <1>6, <2>1 DEF DeleteConnection, DropSlot, ClearSlot, table
  <2> QED BY <1>1, <2>1, <2>2, <2>3, LifeDropped
<1>7. ASSUME NEW t \in Threads, RefreshTime(t) PROVE LifeInv'
  <2>1. pc[t] = "refresh" /\ DOMAIN mgr = Slots
    BY <1>1, <1>7 DEF RefreshTime, TableType
  <2>2. /\ UNCHANGED <<size, mgr, nextHandle, cid, phase>>
        /\ con' = [con EXCEPT ![t] = NULL] /\ online' = Referenced(online, mgr', con')
        /\ \A u \in Threads \ {t} : pc'[u] = pc[u] /\ idx'[u] = idx[u]
    BY <1>1, <1>7 DEF RefreshTime, Return, MoveDeadline, table, LocalType
  <2>3. DOMAIN mgr' = Slots /\ \A i \in Slots : mgr'[i] \in {mgr[i], NULL}
    BY <2>1, <2>2
  <2> QED BY <1>1, <2>1, <2>2, <2>3, LifeDropped
<1>8. ASSUME NEW t \in Threads, ConnectionSendMsg(t) \/ OnTimer(t) PROVE LifeInv'
  <2>1. pc[t] = "do" /\ DOMAIN mgr = Slots
    BY <1>1, <1>8 DEF ConnectionSendMsg, OnTimer, TableType
  <2>2. /\ UNCHANGED <<size, mgr, nextHandle, cid, phase>>
        /\ con' = [con EXCEPT ![t] = NULL] /\ online' = Referenced(online, mgr', con')
        /\ \A u \in Threads \ {t} : pc'[u] = pc[u] /\ idx'[u] = idx[u]
    BY <1>1, <1>8 DEF ConnectionSendMsg, OnTimer, Return, table, LocalType
  <2>3. DOMAIN mgr' = Slots /\ \A i \in Slots : mgr'[i] \in {mgr[i], NULL}
    BY <2>1, <2>2
  <2> QED BY <1>1, <2>1, <2>2, <2>3, LifeDropped
<1>9. ASSUME NEW t \in Threads, SweepErase(t) PROVE LifeInv'
  <2>1. pc[t] = "erase" /\ idx[t] \in Slots /\ mgr \in [Slots -> Handles \cup {NULL}]
    BY <1>1, <1>9 DEF SweepErase, ThreadsInv, IndexInRange, TableType
  <2>2. /\ UNCHANGED <<size, nextHandle, cid, phase>>
        /\ con' = [con EXCEPT ![t] = NULL] /\ online' = Referenced(online, mgr', con')
        /\ \A u \in Threads \ {t} : pc'[u] = pc[u] /\ idx'[u] = idx[u]
    BY <1>1, <1>9 DEF SweepErase, ClearSlot, Goto, LocalType
  <2>3. DOMAIN mgr' = Slots /\ \A i \in Slots : mgr'[i] \in {mgr[i], NULL}
    BY <1>9, <2>1 DEF SweepErase, ClearSlot
  <2> QED BY <1>1, <2>1, <2>2, <2>3, LifeDropped
<1>10. ASSUME NEW t \in Threads, SweepNext(t) PROVE LifeInv'
  <2>1. PICK r \in records : idx' = [idx EXCEPT ![t] = r[2]] /\ con' = [con EXCEPT ![t] = mgr[r[2]]]
    BY <1>10 DEF SweepNext, Earliest, Expired, EvictNotify
  <2>2. r[2] \in Slots /\ mgr[r[2]] # NULL
    BY <1>1 DEF TableInv, RecordsExact
  <2>3. /\ UNCHANGED <<size, mgr, nextHandle, cid, online, phase>> /\ con[t] = NULL
        /\ pc'[t] = "check" /\ \A u \in Threads \ {t} : pc'[u] = pc[u]
        /\ pc[t] # "idle"
    BY <1>1, <1>3, <1>10 DEF SweepNext, Goto, table, sockets, LocalType
  <2>4. \A u \in Threads : /\ con'[u] = IF u = t THEN mgr[r[2]] ELSE con[u]
                           /\ idx'[u] = IF u = t THEN r[2] ELSE idx[u]
    BY <1>1, <2>1 DEF LocalType
  <2>5. Slots' = Slots
    BY <2>3 DEF Slots
  <2>6. PlaceInv'
    BY <2>2, <2>3, <2>4, <2>5 DEF LifeInv, PlaceInv
  <2>7. EmptyHandsInv' /\ DoneInv'
    BY <2>3, <2>4 DEF LifeInv, EmptyHandsInv, DoneInv, Joined
  <2>8. HeldInv'
    <3>1. \A c \in online : c # NULL
      BY <1>1 DEF SharedType, Handles
    <3> QED BY <2>3, <2>4, <2>5, <3>1 DEF LifeInv, HeldInv, Held, Attached
  <2> QED BY <2>6, <2>7, <2>8 DEF LifeInv
<1>11. ASSUME NEW t \in Threads,
              \/ ShutdownCheck(t) \/ ShutdownClose(t) \/ DoRecvEvent(t) \/ DoSendEvent(t)
       PROVE  LifeInv'
  <2>1. /\ UNCHANGED <<size, mgr, nextHandle, cid, con, idx, phase>> /\ online' \subseteq online
        /\ pc[t] # "idle" /\ pc'[t] \in {"close", "erase", "delete", "refresh", "check"}
        /\ \A u \in Threads \ {t} : pc'[u] = pc[u]
    BY <1>1, <1>11 DEF ShutdownCheck, ShutdownClose, DoRecvEvent, DoSendEvent, Goto, table,
       sockets, LocalType
  <2>2. phase # "done"
    BY <1>2, <2>1
  <2> QED BY <1>1, <2>1, <2>2, LifeKept
<1>12. ASSUME NEW t \in Threads, SweepThrottle(t) \/ SweepLock(t) \/ SweepEnd(t) PROVE LifeInv'
  <2>1. /\ UNCHANGED <<size, mgr, nextHandle, cid, online, phase>>
        /\ pc[t] \in {"idle", "stamp", "sweep"}
        /\ phase # "done" \/ pc[t] # "idle"
        /\ \A u \in Threads \ {t} : pc'[u] = pc[u] /\ idx'[u] = idx[u]
    BY <1>1, <1>12 DEF SweepThrottle, SweepLock, SweepEnd, Return, Goto, table, sockets,
       Polling, LocalType
  <2>2. con' = con
    BY <1>1, <1>3, <1>12, <2>1 DEF SweepThrottle, SweepLock, SweepEnd, Return, LocalType
  <2>3. phase # "done" /\ con[t] = NULL
    BY <1>2, <1>3, <2>1
  <2> QED BY <1>1, <2>1, <2>2, <2>3, LifeKept
<1>13. ASSUME NEW t \in Threads,
              \/ CloseEndpoint(t) \/ SendMsg(t)
              \/ \E c \in Handles : PollEvent(t, c) \/ TimerFire(t, c)
       PROVE  LifeInv'
  <2>1. /\ UNCHANGED <<size, mgr, nextHandle, cid, con, online, phase>> /\ phase # "done"
        /\ pc[t] = "idle"
        /\ \A u \in Threads \ {t} : pc'[u] = pc[u] /\ idx'[u] = idx[u]
    BY <1>1, <1>13 DEF CloseEndpoint, SendMsg, PollEvent, TimerFire, Enter, Polling, table, sockets,
       locals, LocalType
  <2> QED BY <1>1, <1>3, <2>1, LifeKept
<1>14. CASE BeginShutdown \/ JoinPollers \/ JoinTimer \/ PeerSends \/ PeerCloses
              \/ Tick \/ UNCHANGED vars
  <2>1. /\ UNCHANGED <<size, mgr, nextHandle, cid, con, online, pc, idx>>
        /\ phase' = phase \/ phase' # "done"
    BY <1>14 DEF BeginShutdown, JoinPollers, JoinTimer, PeerSends, PeerCloses, Tick,
       vars, table, sockets, locals
  <2> QED BY <1>1, <2>1, LifeKept
<1>15. CASE FinishShutdown
  <2>1. /\ \A t \in Threads : pc[t] = "idle" /\ con[t] = NULL
        /\ UNCHANGED <<nextHandle, cid, pc, con, idx>> /\ size' = 0
        /\ online' = online \ {mgr[i] : i \in Slots}
    BY <1>3, <1>15 DEF FinishShutdown, Joined, locals
  <2>2. online' = {}
    <3>1. ASSUME NEW c \in online PROVE \E i \in Slots : mgr[i] = c
      <4>1. c # NULL
        BY <1>1 DEF SharedType, Handles
      <4> QED BY <2>1, <4>1 DEF LifeInv, HeldInv, Held, Attached
    <3> QED BY <2>1, <3>1
  <2>3. Slots' = {}
    BY <2>1 DEF Slots
  <2>4. PlaceInv' /\ EmptyHandsInv'
    BY <2>1, <2>3 DEF LifeInv, PlaceInv, EmptyHandsInv
  <2>5. HeldInv' /\ DoneInv'
    BY <2>1, <2>2 DEF HeldInv, DoneInv, Joined
  <2> QED BY <2>4, <2>5 DEF LifeInv
<1> QED
  BY <1>4, <1>5, <1>6, <1>7, <1>8, <1>9, <1>10, <1>11, <1>12, <1>13, <1>14, <1>15
     DEF Next, HandlerStep, SweepStep, AppCall, Stopped, Threads

\* Every reachable state satisfies both invariants.
LEMMA LifeInductive == Spec => [](IInv /\ LifeInv)
<1>1. IInv /\ LifeInv /\ [Next]_vars => LifeInv'
  BY LifeStep
<1> QED BY Inductive, InitLife, <1>1, PTL DEF Spec

\* ShutdownClosesAll: ContainerImpl::Shutdown, which walks the table only,
\* leaves no socket open: a connection outside the table that is still open is
\* held by a thread, and there is none left.
THEOREM ShutdownComplete == Spec => []ShutdownClosesAll
<1>1. LifeInv => ShutdownClosesAll
  BY DEF LifeInv, DoneInv, ShutdownClosesAll
<1> QED BY LifeInductive, <1>1, PTL

-----------------------------------------------------------------------------
(* Deadlines.                                                               *)

\* A receive thread has handled an event of c and is about to move its deadline.
Refreshing(c) == \E p \in Pollers : pc[p] = "refresh" /\ con[p] = c

\* The deadline of a connection is Timeout after the data it received last, but
\* for data whose RefreshTime is still to come.
DeadlineInv ==
    \A i \in Slots : mgr[i] # NULL =>
        second[i][1] >= lastRecv[mgr[i]] + Timeout \/ Refreshing(mgr[i])

\* The same for the connection the sweep has found expired.
ExpiredInv ==
    \A t \in Threads : op[t] = "sweep" /\ pc[t] \in {"check", "close"} =>
        at[t] >= lastRecv[con[t]] + Timeout \/ Refreshing(con[t])

TimeInv == (\A c \in Handles : lastRecv[c] <= now) /\ DeadlineInv /\ ExpiredInv

\* Steps that touch neither slots nor deadlines, finish no RefreshTime and find
\* nothing expired.
LEMMA TimeKept ==
  ASSUME SharedType, TimeInv, UNCHANGED <<size, mgr, second, lastRecv>>, now' \in {now, now + 1},
         \A t \in Threads : pc[t] = "refresh" => pc'[t] = "refresh" /\ con'[t] = con[t],
         \A t \in Threads : op'[t] = "sweep" /\ pc'[t] \in {"check", "close"} =>
             /\ op[t] = "sweep" /\ pc[t] \in {"check", "close"}
             /\ at'[t] = at[t] /\ con'[t] = con[t]
  PROVE  TimeInv'
<1>1. Slots' = Slots
  BY DEF Slots
<1>2. \A c : Refreshing(c) => Refreshing(c)'
  BY DEF Refreshing, Threads
<1>3. \A c \in Handles : lastRecv'[c] <= now'
  BY DEF TimeInv, SharedType
<1>4. DeadlineInv'
  BY <1>1, <1>2 DEF TimeInv, DeadlineInv
<1>5. ExpiredInv'
  BY <1>2 DEF TimeInv, ExpiredInv
<1> QED BY <1>3, <1>4, <1>5 DEF TimeInv

\* Steps that empty slot i and leave every other deadline alone.
LEMMA TimeCleared ==
  ASSUME SharedType, TableType, TimeInv, NEW i \in Slots, ClearSlot(i),
         UNCHANGED <<lastRecv, now>>,
         \A t \in Threads : pc[t] = "refresh" => pc'[t] = "refresh" /\ con'[t] = con[t],
         \A t \in Threads : op'[t] = "sweep" /\ pc'[t] \in {"check", "close"} =>
             /\ op[t] = "sweep" /\ pc[t] \in {"check", "close"}
             /\ at'[t] = at[t] /\ con'[t] = con[t]
  PROVE  TimeInv'
<1>1. Slots' = Slots
  BY DEF Slots, ClearSlot
<1>2. \A c : Refreshing(c) => Refreshing(c)'
  BY DEF Refreshing, Threads
<1>3. \A j \in Slots : /\ mgr'[j] = IF j = i THEN NULL ELSE mgr[j]
                      /\ second'[j] = IF j = i THEN NULL ELSE second[j]
  BY DEF ClearSlot, TableType
<1>4. DeadlineInv'
  BY <1>1, <1>2, <1>3 DEF TimeInv, DeadlineInv
<1>5. ExpiredInv'
  BY <1>2 DEF TimeInv, ExpiredInv
<1> QED BY <1>4, <1>5 DEF TimeInv

\* Every step preserves TimeInv.
LEMMA TimeStep == IInv /\ LifeInv /\ TimeInv /\ [Next]_vars => TimeInv'
<1> SUFFICES ASSUME IInv, LifeInv, TimeInv, [Next]_vars PROVE TimeInv'
  OBVIOUS
<1> USE NullAssumption, HandlesAssumption, ClockAssumption
<1>1. SharedType /\ LocalType /\ TableInv /\ TableType /\ ThreadsInv /\ PlaceInv
  BY DEF IInv, Core, TableInv, LifeInv
<1>2. now \in Nat /\ nextHandle \in 0 .. MaxHandles /\ IdsInv /\ SweepInv /\ HoldsInv
  BY <1>1 DEF SharedType, ThreadsInv
<1>3. \A c \in Handles : cid[c] # NULL <=> c < nextHandle
  BY <1>1 DEF PlaceInv
<1>4. ASSUME NEW t \in Threads, AttachEndpoint(t) PROVE TimeInv'
  <2>1. PICK i \in Slots' :
           \A j \in Slots' :
              /\ mgr'[j] = IF j = i THEN nextHandle ELSE IF j \in Slots THEN mgr[j] ELSE NULL
              /\ second'[j] = IF j = i THEN <<now + Timeout, i>>
                              ELSE IF j \in Slots THEN second[j] ELSE NULL
    <3>1. PICK i \in Slots' : AttachedAt(i)
      BY <1>1, <1>2, <1>4, AttachSlot
    <3> QED BY <3>1 DEF AttachedAt
  <2>2. /\ lastRecv' = [lastRecv EXCEPT ![nextHandle] = now]
        /\ UNCHANGED <<now, pc, op, con, at>> /\ nextHandle < MaxHandles
    BY <1>4 DEF AttachEndpoint, clock, locals
  <2>3. /\ nextHandle \in Handles
        /\ \A c \in Handles : lastRecv'[c] = IF c = nextHandle THEN now ELSE lastRecv[c]
    BY <1>1, <1>2, <2>2 DEF SharedType, Handles
  <2>4. \A c : Refreshing(c) => Refreshing(c)'
    BY <2>2 DEF Refreshing
  <2>5. \A c \in Handles : lastRecv'[c] <= now'
    BY <1>2, <2>2, <2>3 DEF TimeInv
  <2>6. DeadlineInv'
    <3> SUFFICES ASSUME NEW j \in Slots', mgr'[j] # NULL
                 PROVE  \/ second'[j][1] >= lastRecv'[mgr'[j]] + Timeout
                        \/ \E p \in Pollers : pc'[p] = "refresh" /\ con'[p] = mgr'[j]
      BY DEF DeadlineInv, Refreshing
    <3>1. CASE j = i
      <4>1. second'[j] = <<now + Timeout, i>> /\ mgr'[j] = nextHandle
        BY <2>1, <3>1
      <4>2. second'[j][1] = now + Timeout /\ lastRecv'[mgr'[j]] = now
        BY <2>3, <4>1
      <4> QED BY <1>2, <4>2
    <3>2. CASE j # i
      <4>1. j \in Slots /\ mgr'[j] = mgr[j] /\ second'[j] = second[j] /\ mgr[j] \in Handles
        BY <1>1, <2>1, <3>2 DEF TableType
      <4>2. mgr[j] # nextHandle
        <5>1. cid[mgr[j]] = j /\ j \in Nat /\ mgr[j] # NULL
          BY <1>1, <3>2, <4>1 DEF PlaceInv, Slots, Handles
        <5>2. cid[nextHandle] = NULL
          BY <1>1, <1>2, <2>3 DEF PlaceInv, SharedType
        <5> QED BY <5>1, <5>2
      <4>3. second[j][1] >= lastRecv[mgr[j]] + Timeout
            \/ \E p \in Pollers : pc[p] = "refresh" /\ con[p] = mgr[j]
        BY <4>1 DEF TimeInv, DeadlineInv, Refreshing
      <4>4. lastRecv'[mgr[j]] = lastRecv[mgr[j]]
        BY <2>3, <4>1, <4>2
      <4> QED BY <2>2, <4>1, <4>3, <4>4
    <3> QED BY <3>1, <3>2
  <2>7. ExpiredInv'
    <3> SUFFICES ASSUME NEW u \in Threads, op[u] = "sweep", pc[u] \in {"check", "close"}
                 PROVE  \/ at[u] >= lastRecv'[con[u]] + Timeout
                        \/ \E p \in Pollers : pc[p] = "refresh" /\ con[p] = con[u]
      BY <2>2 DEF ExpiredInv, Refreshing
    <3>1. con[u] \in Handles /\ cid[con[u]] = idx[u] /\ idx[u] \in Nat
      BY <1>1, <1>2 DEF HoldsInv, PlaceInv, LocalType, Handles
    <3>2. con[u] # nextHandle
      BY <1>3, <2>3, <3>1 DEF Handles
    <3>3. lastRecv'[con[u]] = lastRecv[con[u]]
      BY <2>3, <3>1, <3>2
    <3> QED BY <3>3 DEF TimeInv, ExpiredInv, Refreshing
  <2> QED BY <2>5, <2>6, <2>7 DEF TimeInv
<1>5. ASSUME NEW t \in Threads, RefreshTime(t) PROVE TimeInv'
  <2>1. /\ idx[t] \in Slots /\ pc[t] = "refresh" /\ UNCHANGED <<size, mgr, lastRecv, now>>
        /\ connMtx = NULL
    BY <1>1, <1>5 DEF RefreshTime, MoveDeadline, table, clock, ThreadsInv, IndexInRange
  <2>2. \A j \in Slots : mgr[j] # NULL =>
           second'[j] = IF j = idx[t] THEN <<now + Timeout, idx[t]>> ELSE second[j]
    BY <1>1, <1>5, <2>1 DEF RefreshTime, MoveDeadline, table, TableType
  <2>3. \A u \in Threads \ {t} : pc'[u] = pc[u] /\ con'[u] = con[u] /\ op'[u] = op[u]
    BY <1>1, <1>5 DEF RefreshTime, Return, LocalType
  <2>4. pc'[t] = "idle" /\ Slots' = Slots
    BY <1>1, <1>5, <2>1 DEF RefreshTime, Return, LocalType, Slots
  <2>5. DeadlineInv'
    <3> SUFFICES ASSUME NEW j \in Slots, mgr[j] # NULL
                 PROVE  \/ second'[j][1] >= lastRecv[mgr[j]] + Timeout
                        \/ \E p \in Pollers : pc'[p] = "refresh" /\ con'[p] = mgr[j]
      BY <2>1, <2>4 DEF DeadlineInv, Refreshing
    <3>1. mgr[j] \in Handles
      BY <1>1 DEF TableType
    <3>2. CASE j = idx[t]
      <4>1. second'[j] = <<now + Timeout, idx[t]>>
        BY <2>2, <3>2
      <4>2. lastRecv[mgr[j]] \in Nat /\ lastRecv[mgr[j]] <= now
        BY <1>1, <3>1 DEF TimeInv, SharedType
      <4> QED BY <1>2, <4>1, <4>2
    <3>3. CASE j # idx[t]
      <4>1. mgr[j] # con[t]
        BY <1>1, <3>1, <3>3 DEF PlaceInv
      <4>2. \A p \in Pollers : pc[p] = "refresh" /\ con[p] = mgr[j]
                                 => pc'[p] = "refresh" /\ con'[p] = mgr[j]
        BY <2>3, <4>1 DEF Threads
      <4>3. second'[j] = second[j]
        BY <2>2, <3>3
      <4> QED BY <4>2, <4>3 DEF TimeInv, DeadlineInv, Refreshing
    <3> QED BY <3>2, <3>3
  <2>6. ExpiredInv'
    <3>1. \A u \in Threads : ~(op[u] = "sweep" /\ pc[u] \in {"check", "close"})
      BY <1>2, <2>1 DEF SweepInv
    <3> QED BY <2>3, <2>4, <3>1 DEF ExpiredInv
  <2> QED BY <2>1, <2>5, <2>6 DEF TimeInv
<1>6. ASSUME NEW t \in Threads, DeleteConnection(t) \/ SweepErase(t) PROVE TimeInv'
  <2>1. /\ idx[t] \in Slots /\ pc[t] \in {"delete", "erase"} /\ UNCHANGED <<lastRecv, now>>
        /\ pc'[t] \in {"idle", "sweep"}
        /\ \A u \in Threads \ {t} : /\ pc'[u] = pc[u] /\ con'[u] = con[u] /\ op'[u] = op[u]
                                    /\ at'[u] = at[u]
    BY <1>1, <1>6 DEF DeleteConnection, SweepErase, Return, Goto, clock, ThreadsInv, IndexInRange,
       LocalType
  <2>2. CASE ClearSlot(idx[t])
    BY <1>1, <2>1, <2>2, TimeCleared
  <2>3. CASE UNCHANGED table
    <3>1. UNCHANGED <<size, mgr, second>>
      BY <2>3 DEF table
    <3> QED BY <1>1, <2>1, <3>1, TimeKept
  <2> QED BY <1>6, <2>2, <2>3 DEF DeleteConnection, SweepErase, DropSlot
<1>7. ASSUME NEW t \in Threads, SweepNext(t) PROVE TimeInv'
  <2>1. PICK r \in Expired(t) : con' = [con EXCEPT ![t] = mgr[r[2]]]
    BY <1>7 DEF SweepNext, Earliest
  <2>2. /\ r \in records /\ r[1] <= at[t] /\ r[2] \in Slots /\ mgr[r[2]] # NULL
        /\ second[r[2]] = r /\ r[1] \in Int
    BY <1>1 DEF Expired, TableInv, RecordsExact, TableType
  <2>3. /\ UNCHANGED <<size, mgr, second, lastRecv, now, at, op>>
        /\ pc[t] = "sweep" /\ pc'[t] = "check"
        /\ \A u \in Threads \ {t} : pc'[u] = pc[u]
        /\ \A u \in Threads : con'[u] = IF u = t THEN mgr[r[2]] ELSE con[u]
    BY <1>1, <1>7, <2>1 DEF SweepNext, Goto, table, clock, LocalType
  <2>4. Slots' = Slots /\ \A c : Refreshing(c) => Refreshing(c)'
    BY <2>3 DEF Slots, Refreshing, Threads
  <2>5. DeadlineInv'
    BY <2>3, <2>4 DEF TimeInv, DeadlineInv
  <2>6. at[t] >= lastRecv[mgr[r[2]]] + Timeout \/ Refreshing(mgr[r[2]])
    <3>1. mgr[r[2]] \in Handles /\ lastRecv[mgr[r[2]]] \in Nat /\ at[t] \in Nat
      BY <1>1, <2>2 DEF TableType, SharedType, LocalType
    <3> QED BY <2>2, <3>1 DEF TimeInv, DeadlineInv
  <2>7. ExpiredInv'
    BY <2>3, <2>4, <2>6 DEF TimeInv, ExpiredInv
  <2> QED BY <2>3, <2>5, <2>7 DEF TimeInv
<1>8. ASSUME NEW t \in Pollers, DoRecvEvent(t) PROVE TimeInv'
  <2>1. /\ t \in Threads /\ pc[t] = "do" /\ op[t] = "recv"
        /\ UNCHANGED <<size, mgr, second, now, at, op, con>>
        /\ \A u \in Threads \ {t} : pc'[u] = pc[u]
    BY <1>1, <1>8 DEF DoRecvEvent, Goto, table, clock, LocalType, Threads
  <2>2. CASE lastRecv' = [lastRecv EXCEPT ![con[t]] = now] /\ Goto(t, "refresh")
    <3>1. /\ con[t] \in Handles /\ pc'[t] = "refresh"
          /\ \A c \in Handles : lastRecv'[c] = IF c = con[t] THEN now ELSE lastRecv[c]
      BY <1>1, <1>2, <2>1, <2>2 DEF HoldsInv, SharedType, Goto, LocalType
    <3>2. Slots' = Slots
      BY <2>1 DEF Slots
    <3>3. \A p \in Pollers : pc[p] = "refresh" => pc'[p] = "refresh"
      BY <2>1 DEF Threads
    <3>4. \A c \in Handles : lastRecv'[c] <= now'
      BY <1>2, <2>1, <3>1 DEF TimeInv
    <3>5. DeadlineInv'
      <4> SUFFICES ASSUME NEW j \in Slots, mgr[j] # NULL
                   PROVE  \/ second[j][1] >= lastRecv'[mgr[j]] + Timeout
                          \/ \E p \in Pollers : pc'[p] = "refresh" /\ con[p] = mgr[j]
        BY <2>1, <3>2 DEF DeadlineInv, Refreshing
      <4>1. mgr[j] \in Handles
        BY <1>1 DEF TableType
      <4>2. CASE mgr[j] = con[t]
        BY <3>1, <4>2
      <4>3. CASE mgr[j] # con[t]
        BY <3>1, <3>3, <4>1, <4>3 DEF TimeInv, DeadlineInv, Refreshing
      <4> QED BY <4>2, <4>3
    <3>6. ExpiredInv'
      <4> SUFFICES ASSUME NEW u \in Threads, op'[u] = "sweep", pc'[u] \in {"check", "close"}
                   PROVE  \/ at[u] >= lastRecv'[con[u]] + Timeout
                          \/ \E p \in Pollers : pc'[p] = "refresh" /\ con[p] = con[u]
        BY <2>1 DEF ExpiredInv, Refreshing
      <4>1. op[u] = "sweep" /\ pc[u] \in {"check", "close"} /\ con[u] \in Handles
        BY <1>2, <2>1, <3>1 DEF HoldsInv
      <4>2. CASE con[u] = con[t]
        BY <3>1, <4>2
      <4>3. CASE con[u] # con[t]
        BY <3>1, <3>3, <4>1, <4>3 DEF TimeInv, ExpiredInv, Refreshing
      <4> QED BY <4>2, <4>3
    <3> QED BY <3>4, <3>5, <3>6 DEF TimeInv
  <2>3. CASE lastRecv' = lastRecv /\ (Goto(t, "refresh") \/ Goto(t, "check"))
    <3>1. \A u \in Threads : /\ pc[u] = "refresh" => pc'[u] = "refresh" /\ con'[u] = con[u]
                             /\ op'[u] = "sweep" => u # t
      BY <2>1
    <3> QED BY <1>1, <2>1, <2>3, <3>1, TimeKept
  <2> QED BY <1>8, <2>2, <2>3 DEF DoRecvEvent
<1>9. ASSUME NEW t \in Threads,
             \/ GetConnection(t) \/ ShutdownCheck(t) \/ ShutdownClose(t) \/ DoSendEvent(t)
             \/ SweepThrottle(t) \/ SweepLock(t) \/ SweepEnd(t) \/ ConnectionSendMsg(t) \/ OnTimer(t)
      PROVE  TimeInv'
  <2>1. /\ UNCHANGED <<size, mgr, second, lastRecv, now>>
        /\ \A u \in Threads \ {t} : /\ pc'[u] = pc[u] /\ con'[u] = con[u] /\ op'[u] = op[u]
                                    /\ at'[u] = at[u]
    BY <1>1, <1>9 DEF GetConnection, ShutdownCheck, ShutdownClose, DoSendEvent, SweepThrottle,
       SweepLock, SweepEnd, ConnectionSendMsg, OnTimer, Return, Goto, table, clock, LocalType
  <2>2. pc[t] # "refresh"
    BY <1>9 DEF GetConnection, ShutdownCheck, ShutdownClose, DoSendEvent, SweepThrottle,
       SweepLock, SweepEnd, ConnectionSendMsg, OnTimer
  <2>3. op'[t] = "sweep" /\ pc'[t] \in {"check", "close"} =>
            op[t] = "sweep" /\ pc[t] \in {"check", "close"} /\ at'[t] = at[t] /\ con'[t] = con[t]
    BY <1>1, <1>9 DEF GetConnection, ShutdownCheck, ShutdownClose, DoSendEvent, SweepThrottle,
       SweepLock, SweepEnd, ConnectionSendMsg, OnTimer, Return, Goto, LocalType
  <2> QED BY <1>1, <2>1, <2>2, <2>3, TimeKept
<1>10. ASSUME NEW t \in Threads,
              \/ CloseEndpoint(t) \/ SendMsg(t)
              \/ \E c \in Handles : PollEvent(t, c) \/ TimerFire(t, c)
       PROVE  TimeInv'
  <2>1. /\ UNCHANGED <<size, mgr, second, lastRecv, now, con, at>>
        /\ pc[t] = "idle" /\ pc'[t] \in {"idle", "get"}
        /\ \A u \in Threads \ {t} : pc'[u] = pc[u] /\ op'[u] = op[u]
    <3> DEFINE goal == /\ UNCHANGED <<size, mgr, second, lastRecv, now, con, at>>
                       /\ pc[t] = "idle" /\ pc'[t] \in {"idle", "get"}
                       /\ \A u \in Threads \ {t} : pc'[u] = pc[u] /\ op'[u] = op[u]
    <3>1. CASE CloseEndpoint(t)
      BY <1>1, <3>1 DEF CloseEndpoint, Enter, table, clock, LocalType
    <3>2. CASE SendMsg(t)
      BY <1>1, <3>2 DEF SendMsg, Enter, table, clock, LocalType
    <3>3. ASSUME NEW c \in Handles, PollEvent(t, c) PROVE goal
      <4>1. UNCHANGED <<size, mgr, second, lastRecv, now>> /\ pc[t] = "idle"
        BY <3>3 DEF PollEvent, table, clock
      <4>2. UNCHANGED locals \/ \E o, i : Enter(t, o, i, TRUE, NULL)
        BY <3>3 DEF PollEvent
      <4>3. UNCHANGED <<con, at>> /\ pc'[t] \in {"idle", "get"}
            /\ \A u \in Threads \ {t} : pc'[u] = pc[u] /\ op'[u] = op[u]
        BY <1>1, <4>1, <4>2 DEF Enter, locals, LocalType
      <4> QED BY <4>1, <4>3
    <3>4. ASSUME NEW c \in Handles, TimerFire(t, c) PROVE goal
      BY <1>1, <3>4 DEF TimerFire, Enter, table, clock, LocalType
    <3> QED BY <1>10, <3>1, <3>2, <3>3, <3>4
  <2> QED BY <1>1, <2>1, TimeKept
<1>11. CASE BeginShutdown \/ JoinPollers \/ JoinTimer \/ PeerSends \/ PeerCloses
              \/ Tick \/ UNCHANGED vars
  <2>1. /\ UNCHANGED <<size, mgr, second, lastRecv, con, pc, op, at>>
        /\ now' \in {now, now + 1}
    BY <1>11 DEF BeginShutdown, JoinPollers, JoinTimer, PeerSends, PeerCloses, Tick,
       vars, table, clock, locals
  <2> QED BY <1>1, <2>1, TimeKept
<1>12. CASE FinishShutdown
  <2>1. size' = 0 /\ UNCHANGED <<now, lastRecv, pc>> /\ \A t \in Threads : pc[t] = "idle"
    BY <1>12 DEF FinishShutdown, Joined, locals, clock
  <2>2. Slots' = {}
    BY <2>1 DEF Slots
  <2> QED BY <2>1, <2>2 DEF TimeInv, DeadlineInv, ExpiredInv
<1> QED
  BY <1>4, <1>5, <1>6, <1>7, <1>8, <1>9, <1>10, <1>11, <1>12
     DEF Next, HandlerStep, SweepStep, AppCall, Stopped, Threads

\* TimeoutOnlyWhenSilent: whatever the receive threads do meanwhile,
\* OnTimeoutCheck closes a connection only if it was silent for Timeout or if a
\* refresh of its deadline is waiting for _conn_mtx.
THEOREM TimeoutsJustified == Spec => TimeoutOnlyWhenSilent
<1>1. Init => TimeInv
  <2> SUFFICES ASSUME Init PROVE TimeInv
    OBVIOUS
  <2> USE HandlesAssumption
  <2>1. \A c \in Handles : lastRecv[c] <= now
    BY DEF Init
  <2>2. DeadlineInv /\ ExpiredInv
    BY DEF Init, DeadlineInv, ExpiredInv, Slots
  <2> QED BY <2>1, <2>2 DEF TimeInv
<1>2. IInv /\ LifeInv /\ TimeInv /\ [Next]_vars => TimeInv'
  BY TimeStep
<1>3. IInv /\ TimeInv /\ [Next]_vars =>
        [\A t \in Pollers : pc[t] = "close" /\ op[t] = "sweep" /\ pc'[t] = "erase"
            => \/ at[t] - lastRecv[con[t]] >= Timeout
               \/ \E p \in Pollers \ {t} : pc[p] = "refresh" /\ con[p] = con[t]]_vars
  <2> SUFFICES ASSUME IInv, TimeInv, NEW t \in Pollers, pc[t] = "close", op[t] = "sweep"
               PROVE  \/ at[t] - lastRecv[con[t]] >= Timeout
                      \/ \E p \in Pollers \ {t} : pc[p] = "refresh" /\ con[p] = con[t]
    OBVIOUS
  <2>1. t \in Threads /\ con[t] \in Handles
    BY DEF IInv, Core, ThreadsInv, HoldsInv, Threads
  <2>2. at[t] \in Nat /\ lastRecv[con[t]] \in Nat /\ Timeout \in Nat
    BY <2>1, ClockAssumption DEF IInv, Core, LocalType, SharedType
  <2>3. at[t] >= lastRecv[con[t]] + Timeout \/ Refreshing(con[t])
    BY <2>1 DEF TimeInv, ExpiredInv
  <2> QED BY <2>2, <2>3 DEF Refreshing
<1> QED BY LifeInductive, <1>1, <1>2, <1>3, PTL DEF Spec, TimeoutOnlyWhenSilent
-----------------------------------------------------------------------------
(* The heartbeat chain.                                                     *)

\* The timer threads with a delay of connection c in hand.
Firing(c) == {t \in Timers : tid[t] = c}

\* A handle id is in the hands of a timer thread only, with the index of its
\* connection; OnTimer finds another connection there only when its own is gone.
CarriedInv ==
    \A t \in Threads : tid[t] # NULL =>
        /\ t \in Timers /\ op[t] = "timer" /\ pc[t] \in {"get", "do"}
        /\ cid[tid[t]] = idx[t]
        /\ pc[t] = "do" /\ con[t] # tid[t] => ~Attached(tid[t])

ChainInv ==
    Timers # {} /\ Polling => \A c \in Handles : c \in online /\ Attached(c) =>
        pending[c] + Cardinality(Firing(c)) = 1

BeatInv == CarriedInv /\ ChainInv

\* How many delays of a connection are in hand is a number, which goes up and
\* down with the threads that take and finish one.
LEMMA FiringCount ==
  ASSUME NEW S \in SUBSET Timers
  PROVE  /\ Cardinality(S) \in Nat
         /\ \A t \in Timers \ S : Cardinality(S \cup {t}) = Cardinality(S) + 1
         /\ \A t \in S : Cardinality(S \ {t}) = Cardinality(S) - 1
<1>1. IsFiniteSet(S)
  BY TimersAssumption, FS_Subset
<1> QED BY <1>1, FS_CardinalityType, FS_AddElement, FS_RemoveElement

\* Steps that attach nothing, touch no delay and no thread that has one in hand.
LEMMA BeatKept ==
  ASSUME BeatInv, UNCHANGED cid, online' \subseteq online,
         phase' \in {"run", "stopping"} => phase \in {"run", "stopping"} /\ UNCHANGED pending,
         \A c \in Handles : Attached(c)' => Attached(c),
         tid \in [Threads -> Handles \cup {NULL}],
         \A u \in Threads :
            \/ tid[u] = NULL /\ tid'[u] = NULL
            \/ /\ tid'[u] = tid[u] /\ pc'[u] = pc[u] /\ op'[u] = op[u] /\ idx'[u] = idx[u]
               /\ con'[u] = con[u]
  PROVE  BeatInv'
<1>1. CarriedInv'
  <2> SUFFICES ASSUME NEW t \in Threads, tid'[t] # NULL
               PROVE  /\ t \in Timers /\ op'[t] = "timer" /\ pc'[t] \in {"get", "do"}
                      /\ cid'[tid'[t]] = idx'[t]
                      /\ pc'[t] = "do" /\ con'[t] # tid'[t] => ~\E i \in Slots' : mgr'[i] = tid'[t]
    BY DEF CarriedInv, Attached
  <2>1. /\ tid'[t] = tid[t] /\ pc'[t] = pc[t] /\ op'[t] = op[t] /\ idx'[t] = idx[t]
        /\ con'[t] = con[t] /\ tid[t] # NULL
    OBVIOUS
  <2>2. PICK c \in Handles : c = tid[t]
    BY <2>1
  <2>3. pc[t] = "do" /\ con[t] # c => ~Attached(c)
    BY <2>1, <2>2 DEF BeatInv, CarriedInv
  <2>4. pc[t] = "do" /\ con[t] # c => ~Attached(c)'
    BY <2>3
  <2> QED BY <2>1, <2>2, <2>4 DEF BeatInv, CarriedInv, Attached
<1>2. \A c : Firing(c)' = Firing(c)
  BY DEF Firing, Threads
<1>3. ChainInv'
  BY <1>2 DEF BeatInv, ChainInv, Polling
<1> QED BY <1>1, <1>3 DEF BeatInv

\* Every step preserves BeatInv.
LEMMA BeatStep == IInv /\ LifeInv /\ BeatInv /\ [Next]_vars => BeatInv'
<1> SUFFICES ASSUME IInv, LifeInv, BeatInv, [Next]_vars PROVE BeatInv'
  OBVIOUS
<1> USE NullAssumption, HandlesAssumption
<1>1. SharedType /\ LocalType /\ TableInv /\ TableType /\ ThreadsInv /\ PlaceInv /\ IdsInv
  BY DEF IInv, Core, TableInv, LifeInv, ThreadsInv
<1>2. \A t \in Threads : pc[t] \notin {"get", "do"} \/ op[t] # "timer" => tid[t] = NULL
  BY DEF BeatInv, CarriedInv
<1>3. tid \in [Threads -> Handles \cup {NULL}] /\ pending \in [Handles -> Nat]
  BY <1>1 DEF LocalType, SharedType
<1>4. ASSUME NEW i \in Slots, ClearSlot(i) PROVE \A c \in Handles : Attached(c)' => Attached(c)
  <2>1. Slots' = Slots /\ \A j \in Slots : mgr'[j] \in {mgr[j], NULL}
    BY <1>1, <1>4 DEF ClearSlot, Slots, TableType
  <2> QED BY <2>1 DEF Attached, Handles
<1>5. ASSUME UNCHANGED <<size, mgr>> PROVE \A c \in Handles : Attached(c)' <=> Attached(c)
  BY <1>5 DEF Attached, Slots
<1>6. ASSUME NEW t \in Threads, AttachEndpoint(t) PROVE BeatInv'
  <2>1. now \in Nat /\ nextHandle \in 0 .. MaxHandles
    BY <1>1 DEF SharedType
  <2>2. PICK i \in Slots' :
           /\ cid' = [cid EXCEPT ![nextHandle] = i]
           /\ \A j \in Slots' : mgr'[j] = IF j = i THEN nextHandle
                                          ELSE IF j \in Slots THEN mgr[j] ELSE NULL
    <3>1. PICK i \in Slots' : AttachedAt(i)
      BY <1>1, <1>6, <2>1, AttachSlot
    <3> QED BY <3>1 DEF AttachedAt
  <2>3. /\ nextHandle \in Handles /\ online' = online \cup {nextHandle}
        /\ UNCHANGED <<pc, op, idx, con, tid>>
        /\ Timers # {} /\ Polling => pending' = [pending EXCEPT ![nextHandle] = @ + 1]
        /\ phase' = phase
    BY <1>6, <2>1 DEF AttachEndpoint, SetTimer, locals, Handles
  <2>4. \A c \in Handles : c # nextHandle => (Attached(c)' => Attached(c))
    BY <2>2 DEF Attached, Handles
  <2>5. cid[nextHandle] = NULL /\ pending[nextHandle] = 0
    <3>1. cid[nextHandle] = NULL
      BY <1>1, <2>1, <2>3 DEF PlaceInv
    <3> QED BY <1>1, <1>3, <2>3, <3>1 DEF IdsInv
  <2>6. \A u \in Threads : tid[u] # NULL => tid[u] \in Handles /\ tid[u] # nextHandle
    <3> SUFFICES ASSUME NEW u \in Threads, tid[u] # NULL
                 PROVE  tid[u] \in Handles /\ tid[u] # nextHandle
      OBVIOUS
    <3>1. cid[tid[u]] = idx[u] /\ idx[u] \in Nat
      BY <1>1 DEF BeatInv, CarriedInv, LocalType
    <3> QED BY <1>3, <2>5, <3>1
  <2>7. CarriedInv'
    <3> SUFFICES ASSUME NEW u \in Threads, tid[u] # NULL
                 PROVE  /\ u \in Timers /\ op[u] = "timer" /\ pc[u] \in {"get", "do"}
                        /\ cid'[tid[u]] = idx[u]
                        /\ pc[u] = "do" /\ con[u] # tid[u] => ~\E j \in Slots' : mgr'[j] = tid[u]
      BY <2>3 DEF CarriedInv, Attached
    <3>1. PICK c \in Handles : c = tid[u] /\ c # nextHandle
      BY <2>6
    <3>2. cid'[c] = cid[c]
      BY <1>1, <2>2, <3>1 DEF SharedType
    <3>3. ~Attached(c) => ~Attached(c)'
      BY <2>4, <3>1
    <3> QED BY <3>1, <3>2, <3>3 DEF BeatInv, CarriedInv, Attached
  <2>8. ChainInv'
    <3> SUFFICES ASSUME Timers # {}, Polling, NEW c \in Handles, c \in online', Attached(c)'
                 PROVE  pending'[c] + Cardinality(Firing(c)') = 1
      BY <2>3 DEF ChainInv, Polling
    <3>1. Firing(c)' = Firing(c)
      BY <2>3 DEF Firing
    <3>2. pending'[c] = IF c = nextHandle THEN pending[c] + 1 ELSE pending[c]
      BY <1>3, <2>3
    <3>3. CASE c # nextHandle
      <4>1. pending[c] + Cardinality(Firing(c)) = 1
        BY <2>3, <2>4, <3>3 DEF BeatInv, ChainInv
      <4> QED BY <3>1, <3>2, <3>3, <4>1
    <3>4. CASE c = nextHandle
      <4>1. Firing(c) = {}
        BY <2>6, <3>4 DEF Firing, Threads, Handles
      <4>2. Cardinality(Firing(c)) = 0
        BY <4>1, FS_EmptySet
      <4>3. pending'[c] = 1
        BY <2>5, <3>2, <3>4
      <4> QED BY <3>1, <4>2, <4>3
    <3> QED BY <3>3, <3>4
  <2> QED BY <2>7, <2>8 DEF BeatInv
<1>7. ASSUME NEW t \in Threads, GetConnection(t) PROVE BeatInv'
  <2>1. /\ UNCHANGED <<size, mgr, cid, pending, online, phase>> /\ pc[t] = "get" /\ idx[t] \in Slots
        /\ \A u \in Threads \ {t} : /\ tid'[u] = tid[u] /\ pc'[u] = pc[u] /\ op'[u] = op[u]
                                    /\ idx'[u] = idx[u] /\ con'[u] = con[u]
    BY <1>1, <1>7 DEF GetConnection, Return, Goto, table, sockets, LocalType, ThreadsInv,
       IndexInRange
  <2>2. CASE tid[t] = NULL
    <3>1. tid'[t] = NULL
      BY <1>1, <1>7, <2>2 DEF GetConnection, Return, LocalType
    <3> QED BY <1>3, <1>5, <2>1, <2>2, <3>1, BeatKept
  <2>3. CASE tid[t] # NULL
    <3>1. PICK h \in Handles : h = tid[t]
      BY <1>3, <2>3
    <3>2. op[t] = "timer" /\ cid[h] = idx[t] /\ t \in Timers
      BY <2>3, <3>1 DEF BeatInv, CarriedInv
    <3>3. mgr[idx[t]] # h => ~Attached(h)
      BY <1>1, <3>2 DEF Attached, PlaceInv, Handles
    <3>4. \/ tid'[t] = NULL /\ mgr[idx[t]] = NULL
          \/ /\ tid'[t] = h /\ pc'[t] = "do" /\ op'[t] = "timer" /\ idx'[t] = idx[t]
             /\ con'[t] = mgr[idx[t]]
      BY <1>1, <1>7, <3>1, <3>2 DEF GetConnection, Return, Goto, LocalType
    <3>5. CarriedInv'
      <4> SUFFICES ASSUME NEW u \in Threads, tid'[u] # NULL
                   PROVE  /\ u \in Timers /\ op'[u] = "timer" /\ pc'[u] \in {"get", "do"}
                          /\ cid'[tid'[u]] = idx'[u]
                          /\ pc'[u] = "do" /\ con'[u] # tid'[u]
                               => ~\E j \in Slots' : mgr'[j] = tid'[u]
        BY DEF CarriedInv, Attached
      <4>1. Slots' = Slots
        BY <2>1 DEF Slots
      <4>2. CASE u = t
        BY <2>1, <3>2, <3>3, <3>4, <4>1, <4>2 DEF Attached
      <4>3. CASE u # t
        BY <2>1, <4>1, <4>3 DEF BeatInv, CarriedInv, Attached
      <4> QED BY <4>2, <4>3
    <3>6. ChainInv'
      <4> SUFFICES ASSUME Timers # {}, Polling, NEW c \in Handles, c \in online, Attached(c)
                   PROVE  pending[c] + Cardinality(Firing(c)') = 1
        BY <1>5, <2>1 DEF ChainInv, Polling
      <4>1. c = h => mgr[idx[t]] = c
        BY <3>3
      <4>2. c = h => tid'[t] = h
        BY <3>4, <4>1 DEF Handles
      <4>3. c # h => tid[t] # c /\ tid'[t] # c
        BY <3>1, <3>4 DEF Handles
      <4>4. Firing(c)' = Firing(c)
        BY <2>1, <3>1, <4>2, <4>3 DEF Firing, Threads
      <4> QED BY <4>4 DEF BeatInv, ChainInv
    <3> QED BY <3>5, <3>6 DEF BeatInv
  <2> QED BY <2>2, <2>3
<1>8. ASSUME NEW t \in Timers, NEW h \in Handles, TimerFire(t, h) PROVE BeatInv'
  <2>1. /\ UNCHANGED <<size, mgr, cid, online, con, phase>> /\ pending[h] > 0 /\ t \in Threads
        /\ pending' = [pending EXCEPT ![h] = @ - 1] /\ pc[t] = "idle" /\ cid[h] # NULL
    BY <1>1, <1>8 DEF TimerFire, Enter, table, sockets, Threads, IdsInv
  <2>2. /\ tid'[t] = h /\ pc'[t] = "get" /\ op'[t] = "timer" /\ idx'[t] = cid[h]
        /\ \A u \in Threads \ {t} : /\ tid'[u] = tid[u] /\ pc'[u] = pc[u] /\ op'[u] = op[u]
                                    /\ idx'[u] = idx[u]
    BY <1>1, <1>8, <2>1 DEF TimerFire, Enter, LocalType
  <2>3. tid[t] = NULL
    BY <1>2, <2>1
  <2>4. CarriedInv'
    <3> SUFFICES ASSUME NEW u \in Threads, tid'[u] # NULL
                 PROVE  /\ u \in Timers /\ op'[u] = "timer" /\ pc'[u] \in {"get", "do"}
                        /\ cid'[tid'[u]] = idx'[u]
                        /\ pc'[u] = "do" /\ con'[u] # tid'[u]
                             => ~\E j \in Slots' : mgr'[j] = tid'[u]
      BY DEF CarriedInv, Attached
    <3>1. Slots' = Slots
      BY <2>1 DEF Slots
    <3>2. CASE u = t
      BY <2>1, <2>2, <3>2
    <3>3. CASE u # t
      BY <2>1, <2>2, <3>1, <3>3 DEF BeatInv, CarriedInv, Attached
    <3> QED BY <3>2, <3>3
  <2>5. ChainInv'
    <3> SUFFICES ASSUME Timers # {}, Polling, NEW c \in Handles, c \in online, Attached(c)
                 PROVE  pending'[c] + Cardinality(Firing(c)') = 1
      BY <1>5, <2>1 DEF ChainInv, Polling
    <3>1. pending[c] + Cardinality(Firing(c)) = 1
      BY DEF BeatInv, ChainInv
    <3>2. CASE c # h
      <4>1. Firing(c)' = Firing(c)
        BY <2>2, <2>3, <3>2 DEF Firing, Threads, Handles
      <4>2. pending'[c] = pending[c]
        BY <1>3, <2>1, <3>2
      <4> QED BY <3>1, <4>1, <4>2
    <3>3. CASE c = h
      <4>1. Firing(c)' = Firing(c) \cup {t} /\ t \notin Firing(c)
        BY <2>2, <2>3, <3>3 DEF Firing, Threads, Handles
      <4>2. pending'[c] = pending[c] - 1 /\ pending[c] \in Nat
        BY <1>3, <2>1, <3>3
      <4>3. Firing(c) \in SUBSET Timers
        BY DEF Firing
      <4>4. /\ Cardinality(Firing(c)) \in Nat
            /\ Cardinality(Firing(c) \cup {t}) = Cardinality(Firing(c)) + 1
        BY <4>1, <4>3, FiringCount
      <4> QED BY <3>1, <4>1, <4>2, <4>4
    <3> QED BY <3>2, <3>3
  <2> QED BY <2>4, <2>5 DEF BeatInv
<1>9. ASSUME NEW t \in Timers, OnTimer(t) PROVE BeatInv'
  <2>1. /\ UNCHANGED <<size, mgr, cid, phase>> /\ online' \subseteq online /\ t \in Threads
        /\ pc[t] = "do" /\ con[t] \in Handles
    BY <1>1, <1>9 DEF OnTimer, table, Referenced, Threads, ThreadsInv, HoldsInv
  <2>2. /\ tid'[t] = NULL
        /\ \A u \in Threads \ {t} : /\ tid'[u] = tid[u] /\ pc'[u] = pc[u] /\ op'[u] = op[u]
                                    /\ idx'[u] = idx[u] /\ con'[u] = con[u]
    BY <1>1, <1>9, <2>1 DEF OnTimer, Return, LocalType
  <2>3. Polling => \A c \in Handles :
          pending'[c] = IF c = tid[t] /\ Beats(t) THEN pending[c] + 1 ELSE pending[c]
    BY <1>3, <1>9, <2>1 DEF OnTimer, SetTimer, Beats
  <2>4. CarriedInv'
    <3> SUFFICES ASSUME NEW u \in Threads, tid'[u] # NULL
                 PROVE  /\ u \in Timers /\ op'[u] = "timer" /\ pc'[u] \in {"get", "do"}
                        /\ cid'[tid'[u]] = idx'[u]
                        /\ pc'[u] = "do" /\ con'[u] # tid'[u]
                             => ~\E j \in Slots' : mgr'[j] = tid'[u]
      BY DEF CarriedInv, Attached
    <3>1. Slots' = Slots /\ u # t
      BY <2>1, <2>2 DEF Slots
    <3> QED BY <2>1, <2>2, <3>1 DEF BeatInv, CarriedInv, Attached
  <2>5. ChainInv'
    <3> SUFFICES ASSUME Timers # {}, Polling, NEW c \in Handles, c \in online', Attached(c)
                 PROVE  pending'[c] + Cardinality(Firing(c)') = 1
      BY <1>5, <2>1 DEF ChainInv, Polling
    <3>1. pending[c] + Cardinality(Firing(c)) = 1
      BY <2>1 DEF BeatInv, ChainInv
    <3>2. CASE c # tid[t]
      <4>1. Firing(c)' = Firing(c) /\ pending'[c] = pending[c]
        BY <2>2, <2>3, <3>2 DEF Firing, Threads, Handles
      <4> QED BY <3>1, <4>1
    <3>3. CASE c = tid[t]
      <4>1. Firing(c)' = Firing(c) \ {t} /\ t \in Firing(c)
        BY <2>2, <3>3 DEF Firing, Threads, Handles
      <4>2. Beats(t)
        BY <2>1, <3>3 DEF Beats, BeatInv, CarriedInv, Handles
      <4>3. pending'[c] = pending[c] + 1 /\ pending[c] \in Nat
        BY <1>3, <2>3, <3>3, <4>2
      <4>4. Firing(c) \in SUBSET Timers
        BY DEF Firing
      <4>5. /\ Cardinality(Firing(c)) \in Nat
            /\ Cardinality(Firing(c) \ {t}) = Cardinality(Firing(c)) - 1
        BY <4>1, <4>4, FiringCount
      <4> QED BY <3>1, <4>1, <4>3, <4>5
    <3> QED BY <3>2, <3>3
  <2> QED BY <2>4, <2>5 DEF BeatInv
<1>10. ASSUME NEW t \in Threads,
              \/ ShutdownCheck(t) \/ ShutdownClose(t) \/ DoRecvEvent(t) \/ DoSendEvent(t)
              \/ SweepThrottle(t) \/ SweepLock(t) \/ SweepNext(t) \/ SweepEnd(t)
              \/ RefreshTime(t) \/ ConnectionSendMsg(t)
       PROVE  BeatInv'
  <2>1. /\ UNCHANGED <<size, mgr, cid, pending, phase>> /\ online' \subseteq online
        /\ pc[t] \notin {"get", "do"} \/ op[t] # "timer"
    BY <1>10 DEF ShutdownCheck, ShutdownClose, DoRecvEvent, DoSendEvent, SweepThrottle, SweepLock,
       SweepNext, SweepEnd, RefreshTime, ConnectionSendMsg, MoveDeadline, Referenced, table, sockets
  <2>2. /\ tid'[t] \in {tid[t], NULL}
        /\ \A u \in Threads \ {t} : /\ tid'[u] = tid[u] /\ pc'[u] = pc[u] /\ op'[u] = op[u]
                                    /\ idx'[u] = idx[u] /\ con'[u] = con[u]
    <3>1. CASE ShutdownCheck(t) \/ ShutdownClose(t) \/ DoRecvEvent(t) \/ DoSendEvent(t)
      BY <1>1, <3>1 DEF ShutdownCheck, ShutdownClose, DoRecvEvent, DoSendEvent, Goto, LocalType
    <3>2. CASE SweepThrottle(t) \/ SweepLock(t) \/ SweepNext(t)
      BY <1>1, <3>2 DEF SweepThrottle, SweepLock, SweepNext, Goto, LocalType
    <3>3. CASE SweepEnd(t) \/ RefreshTime(t) \/ ConnectionSendMsg(t)
      BY <1>1, <3>3 DEF SweepEnd, RefreshTime, ConnectionSendMsg, Return, LocalType
    <3> QED BY <1>10, <3>1, <3>2, <3>3
  <2>3. tid[t] = NULL
    BY <1>2, <2>1
  <2> QED BY <1>3, <1>5, <2>1, <2>2, <2>3, BeatKept
<1>11. ASSUME NEW t \in Threads, DeleteConnection(t) \/ SweepErase(t) PROVE BeatInv'
  <2>1. /\ UNCHANGED <<cid, pending, phase>> /\ online' \subseteq online
        /\ pc[t] \in {"delete", "erase"} /\ idx[t] \in Slots
    BY <1>1, <1>11 DEF DeleteConnection, SweepErase, Referenced, ThreadsInv, IndexInRange
  <2>2. /\ tid'[t] \in {tid[t], NULL}
        /\ \A u \in Threads \ {t} : /\ tid'[u] = tid[u] /\ pc'[u] = pc[u] /\ op'[u] = op[u]
                                    /\ idx'[u] = idx[u] /\ con'[u] = con[u]
    BY <1>1, <1>11 DEF DeleteConnection, SweepErase, Return, Goto, LocalType
  <2>3. tid[t] = NULL
    BY <1>2, <2>1
  <2>4. \A c \in Handles : Attached(c)' => Attached(c)
    BY <1>4, <1>5, <1>11, <2>1 DEF DeleteConnection, SweepErase, DropSlot, table
  <2> QED BY <1>3, <2>1, <2>2, <2>3, <2>4, BeatKept
<1>12. ASSUME NEW t \in Threads,
              CloseEndpoint(t) \/ SendMsg(t) \/ \E c \in Handles : PollEvent(t, c)
       PROVE  BeatInv'
  <2>1. /\ UNCHANGED <<size, mgr, cid, pending, online, con, phase>> /\ pc[t] = "idle"
        /\ tid'[t] \in {tid[t], NULL}
        /\ \A u \in Threads \ {t} : /\ tid'[u] = tid[u] /\ pc'[u] = pc[u] /\ op'[u] = op[u]
                                    /\ idx'[u] = idx[u]
    <3> DEFINE goal == /\ UNCHANGED <<size, mgr, cid, pending, online, con, phase>> /\ pc[t] = "idle"
                       /\ tid'[t] \in {tid[t], NULL}
                       /\ \A u \in Threads \ {t} : /\ tid'[u] = tid[u] /\ pc'[u] = pc[u] /\ op'[u] = op[u]
                                                   /\ idx'[u] = idx[u]
    <3>1. CASE CloseEndpoint(t)
      BY <1>1, <3>1 DEF CloseEndpoint, Enter, table, sockets, LocalType
    <3>2. CASE SendMsg(t)
      BY <1>1, <3>2 DEF SendMsg, Enter, table, sockets, LocalType
    <3>3. ASSUME NEW c \in Handles, PollEvent(t, c) PROVE goal
      <4>1. UNCHANGED <<size, mgr, cid, pending, online, phase>> /\ pc[t] = "idle"
        BY <3>3 DEF PollEvent, table
      <4>2. UNCHANGED locals \/ \E o, i : Enter(t, o, i, TRUE, NULL)
        BY <3>3 DEF PollEvent
      <4>3. /\ con' = con /\ tid'[t] \in {tid[t], NULL}
            /\ \A u \in Threads \ {t} : /\ tid'[u] = tid[u] /\ pc'[u] = pc[u] /\ op'[u] = op[u]
                                        /\ idx'[u] = idx[u]
        BY <1>1, <4>2 DEF Enter, locals, LocalType
      <4> QED BY <4>1, <4>3
    <3> QED BY <1>12, <3>1, <3>2, <3>3
  <2>2. tid[t] = NULL
    BY <1>2, <2>1
  <2> QED BY <1>3, <1>5, <2>1, <2>2, BeatKept
<1>13. CASE BeginShutdown \/ JoinPollers \/ JoinTimer \/ PeerSends \/ PeerCloses
              \/ Tick \/ UNCHANGED vars
  <2>1. /\ UNCHANGED <<size, mgr, cid, online, pc, op, idx, con, tid>>
        /\ phase' \in {"run", "stopping"} => phase \in {"run", "stopping"} /\ UNCHANGED pending
    BY <1>13 DEF BeginShutdown, JoinPollers, JoinTimer, PeerSends, PeerCloses, Tick,
       vars, table, sockets, locals
  <2> QED BY <1>3, <1>5, <2>1, BeatKept
<1>14. CASE FinishShutdown
  <2>1. /\ size' = 0 /\ UNCHANGED <<cid, pc, op, idx, con, tid>> /\ online' \subseteq online
        /\ phase' = "done"
    BY <1>14 DEF FinishShutdown, locals
  <2>2. \A c \in Handles : ~Attached(c)'
    BY <2>1 DEF Attached, Slots
  <2> QED BY <1>3, <2>1, <2>2, BeatKept
<1> QED
  BY <1>6, <1>7, <1>8, <1>9, <1>10, <1>11, <1>12, <1>13, <1>14
     DEF Next, HandlerStep, SweepStep, AppCall, Stopped, Threads

\* HeartbeatChain: with any number of timer threads, a live connection has exactly
\* one delay, pending or in the hands of OnTimer: its index may be reused, but
\* tid2 tells its delays from those of its predecessor.
THEOREM OneHeartbeat == Spec => []HeartbeatChain
<1>1. Init => BeatInv
  <2>1. ASSUME Init PROVE CarriedInv
    BY <2>1 DEF Init, CarriedInv
  <2>2. ASSUME Init PROVE ChainInv
    BY <2>2 DEF Init, ChainInv
  <2> QED BY <2>1, <2>2 DEF BeatInv
<1>2. IInv /\ LifeInv /\ BeatInv /\ [Next]_vars => BeatInv'
  BY BeatStep
<1>3. BeatInv => HeartbeatChain
  BY DEF BeatInv, ChainInv, Firing, HeartbeatChain
<1> QED BY LifeInductive, <1>1, <1>2, <1>3, PTL DEF Spec
-----------------------------------------------------------------------------
(* Who closes a connection, and who is told.                                *)

\* Connection::Shutdown is called by the event handlers and the sweep, which ask
\* for a close event, and by CloseEndpoint, which leaves that to the application.
Asked(t) ==
    /\ op[t] \in {"error", "recv"} => notify[t]
    /\ op[t] = "close" => t \in Apps
    /\ pc[t] \in {"check", "close"} => op[t] \in {"error", "recv", "close", "sweep"}
    /\ pc[t] \in {"check", "close"} /\ op[t] = "sweep" => notify[t]
    /\ pc[t] \in {"stamp", "sweep", "erase"} => op[t] = "sweep"

AskedInv == \A t \in Threads : Asked(t)

\* Every step preserves AskedInv.
LEMMA AskedStep == IInv /\ AskedInv /\ [Next]_vars => AskedInv'
<1> SUFFICES ASSUME IInv, AskedInv, [Next]_vars PROVE AskedInv'
  OBVIOUS
<1>1. LocalType
  BY DEF IInv, Core
<1>2. ASSUME NEW t \in Threads, Asked(t)',
             \A u \in Threads \ {t} : pc'[u] = pc[u] /\ op'[u] = op[u] /\ notify'[u] = notify[u]
      PROVE  AskedInv'
  <2> SUFFICES ASSUME NEW u \in Threads, u # t PROVE Asked(u)'
    BY <1>2 DEF AskedInv
  <2> QED BY <1>2 DEF AskedInv, Asked
<1>3. ASSUME UNCHANGED <<pc, op, notify>> PROVE AskedInv'
  BY <1>3 DEF AskedInv, Asked
<1>4. ASSUME NEW t \in Threads, Return(t) PROVE AskedInv'
  <2>1. /\ pc'[t] = "idle" /\ op'[t] = "none"
        /\ \A u \in Threads \ {t} : pc'[u] = pc[u] /\ op'[u] = op[u] /\ notify'[u] = notify[u]
    BY <1>1, <1>4 DEF Return, LocalType
  <2>2. Asked(t)'
    BY <2>1 DEF Asked
  <2> QED BY <1>2, <2>1, <2>2
<1>5. ASSUME NEW t \in Threads, GetConnection(t) PROVE AskedInv'
  <2>1. CASE mgr[idx[t]] = NULL
    BY <1>4, <1>5, <2>1 DEF GetConnection
  <2>2. CASE mgr[idx[t]] # NULL
    <3>1. /\ pc'[t] = IF op[t] \in {"error", "close"} THEN "check" ELSE "do"
          /\ UNCHANGED <<op, notify>> /\ \A u \in Threads \ {t} : pc'[u] = pc[u]
      BY <1>1, <1>5, <2>2 DEF GetConnection, Goto, LocalType
    <3>2. Asked(t)'
      BY <3>1 DEF AskedInv, Asked
    <3> QED BY <1>2, <3>1, <3>2
  <2> QED BY <2>1, <2>2
<1>6. ASSUME NEW t \in Threads, ShutdownCheck(t) \/ ShutdownClose(t) PROVE AskedInv'
  <2>1. /\ UNCHANGED <<op, notify>> /\ pc[t] \in {"check", "close"}
        /\ pc'[t] \in {"close", "delete"} \/ (pc'[t] = "erase" /\ op[t] = "sweep")
        /\ \A u \in Threads \ {t} : pc'[u] = pc[u]
    BY <1>1, <1>6 DEF ShutdownCheck, ShutdownClose, Goto, LocalType
  <2>2. Asked(t)'
    BY <2>1 DEF AskedInv, Asked
  <2> QED BY <1>2, <2>1, <2>2
<1>7. ASSUME NEW t \in Threads, DoRecvEvent(t) \/ DoSendEvent(t) PROVE AskedInv'
  <2>1. /\ UNCHANGED <<op, notify>>
        /\ pc'[t] = "refresh" \/ (pc'[t] = "check" /\ op[t] = "recv")
        /\ \A u \in Threads \ {t} : pc'[u] = pc[u]
    BY <1>1, <1>7 DEF DoRecvEvent, DoSendEvent, Goto, LocalType
  <2>2. Asked(t)'
    BY <2>1 DEF AskedInv, Asked
  <2> QED BY <1>2, <2>1, <2>2
<1>8. ASSUME NEW t \in Threads, SweepThrottle(t) \/ SweepLock(t) \/ SweepErase(t) PROVE AskedInv'
  <2>1. /\ UNCHANGED notify /\ pc'[t] \in {"stamp", "sweep"}
        /\ op'[t] = "sweep" \/ (op'[t] = op[t] /\ pc[t] \in {"stamp", "erase"})
        /\ \A u \in Threads \ {t} : pc'[u] = pc[u] /\ op'[u] = op[u]
    BY <1>1, <1>8 DEF SweepThrottle, SweepLock, SweepErase, Goto, LocalType
  <2>2. Asked(t)'
    BY <2>1 DEF AskedInv, Asked
  <2> QED BY <1>2, <2>1, <2>2
<1>9. ASSUME NEW t \in Threads, SweepNext(t) PROVE AskedInv'
  <2>1. /\ notify' = [notify EXCEPT ![t] = TRUE] /\ op' = op /\ pc[t] = "sweep"
        /\ pc' = [pc EXCEPT ![t] = "check"]
    BY <1>9 DEF SweepNext, EvictNotify, Goto
  <2>2. /\ notify'[t] /\ pc'[t] = "check"
        /\ \A u \in Threads \ {t} : pc'[u] = pc[u] /\ op'[u] = op[u] /\ notify'[u] = notify[u]
    BY <1>1, <2>1 DEF LocalType
  <2>3. Asked(t)'
    BY <2>1, <2>2 DEF AskedInv, Asked
  <2> QED BY <1>2, <2>2, <2>3
<1>10. ASSUME NEW t \in Threads, NEW o \in Ops, NEW i, NEW n \in BOOLEAN, NEW h,
              Enter(t, o, i, n, h), o \in {"error", "recv"} => n, o = "close" => t \in Apps
       PROVE  AskedInv'
  <2>1. /\ pc'[t] = "get" /\ op'[t] = o /\ notify'[t] = n
        /\ \A u \in Threads \ {t} : pc'[u] = pc[u] /\ op'[u] = op[u] /\ notify'[u] = notify[u]
    BY <1>1, <1>10 DEF Enter, LocalType
  <2>2. Asked(t)'
    BY <1>10, <2>1 DEF Asked
  <2> QED BY <1>2, <2>1, <2>2
<1>11. ASSUME NEW t \in Threads, NEW c \in Handles, PollEvent(t, c) PROVE AskedInv'
  <2>1. CASE UNCHANGED locals
    BY <1>3, <2>1 DEF locals
  <2>2. CASE \E o \in {"error", "recv", "send"} : Enter(t, o, cid[c], TRUE, NULL)
    BY <1>10, <2>2 DEF Ops
  <2> QED BY <1>11, <2>1, <2>2 DEF PollEvent, EpollOf
<1>12. ASSUME NEW t \in Apps, CloseEndpoint(t) PROVE AskedInv'
  <2>1. PICK c \in Handles, n \in BOOLEAN : Enter(t, "close", cid[c], n, NULL)
    BY <1>12 DEF CloseEndpoint
  <2> QED BY <1>10, <2>1 DEF Ops, Threads
<1>13. ASSUME NEW t \in Threads, SendMsg(t) \/ \E c \in Handles : TimerFire(t, c) PROVE AskedInv'
  <2>1. ASSUME SendMsg(t) PROVE AskedInv'
    <3>1. PICK c \in Handles : Enter(t, "sendmsg", cid[c], FALSE, NULL)
      BY <2>1 DEF SendMsg
    <3> QED BY <1>10, <3>1 DEF Ops
  <2>2. ASSUME NEW c \in Handles, TimerFire(t, c) PROVE AskedInv'
    <3>1. Enter(t, "timer", cid[c], FALSE, c)
      BY <2>2 DEF TimerFire
    <3> QED BY <1>10, <3>1 DEF Ops
  <2> QED BY <1>13, <2>1, <2>2
<1>14. ASSUME NEW t \in Threads, \/ DeleteConnection(t) \/ RefreshTime(t) \/ SweepEnd(t)
                                 \/ ConnectionSendMsg(t) \/ OnTimer(t)
       PROVE  AskedInv'
  BY <1>4, <1>14 DEF DeleteConnection, RefreshTime, SweepEnd, ConnectionSendMsg, OnTimer
<1>15. ASSUME NEW t \in Threads, AttachEndpoint(t) PROVE AskedInv'
  BY <1>3, <1>15 DEF AttachEndpoint, locals
<1>16. CASE BeginShutdown \/ JoinPollers \/ JoinTimer \/ FinishShutdown \/ PeerSends
              \/ PeerCloses \/ Tick \/ UNCHANGED vars
  BY <1>3, <1>16 DEF BeginShutdown, JoinPollers, JoinTimer, FinishShutdown, PeerSends,
     PeerCloses, Tick, vars, locals
<1> QED
  BY <1>5, <1>6, <1>7, <1>8, <1>9, <1>11, <1>12, <1>13, <1>14, <1>15, <1>16
     DEF Next, HandlerStep, SweepStep, AppCall, Stopped, Threads

\* A thread that sweeps, with a slot chosen.
Sweeping(t) == pc[t] = "erase" \/ (pc[t] \in {"check", "close"} /\ op[t] = "sweep")

\* What a thread is about to empty a slot for has been closed; what the slot of its
\* index holds by now is the connection it works on or a later one; and the sweep,
\* which never lets go of the mutex, still finds the one it closed.
Victim(t) ==
    /\ pc[t] \in {"delete", "erase"} => con[t] \in Handles \ online
    /\ con[t] # NULL /\ idx[t] \in Slots /\ mgr[idx[t]] # NULL => con[t] <= mgr[idx[t]]
    /\ Sweeping(t) => mgr[idx[t]] = con[t]

VictimInv == \A t \in Threads : Victim(t)

\* A step of one thread that opens no connection disturbs no other thread, unless it
\* empties the slot another one sweeps.
LEMMA VictimKept ==
  ASSUME VictimInv, size' = size, online' \subseteq online, NEW t \in Threads, Victim(t)',
         \A i \in Slots : mgr'[i] \in {mgr[i], NULL},
         \A u \in Threads \ {t} : /\ pc'[u] = pc[u] /\ op'[u] = op[u] /\ idx'[u] = idx[u]
                                  /\ con'[u] = con[u]
                                  /\ Sweeping(u) => mgr'[idx[u]] = mgr[idx[u]]
  PROVE  VictimInv'
<1> SUFFICES ASSUME NEW u \in Threads, u # t PROVE Victim(u)'
  BY DEF VictimInv
<1>1. Victim(u) /\ Slots' = Slots /\ u \in Threads \ {t}
  BY DEF VictimInv, Slots
<1>2. pc'[u] = pc[u] /\ op'[u] = op[u] /\ idx'[u] = idx[u] /\ con'[u] = con[u]
  BY <1>1
<1>3. Sweeping(u)' => Sweeping(u) /\ mgr'[idx[u]] = mgr[idx[u]]
  BY <1>1, <1>2 DEF Sweeping
<1> QED BY <1>1, <1>2, <1>3 DEF Victim

\* Every step preserves VictimInv.
LEMMA VictimStep == IInv /\ LifeInv /\ AskedInv /\ VictimInv /\ [Next]_vars => VictimInv'
<1> SUFFICES ASSUME IInv, LifeInv, AskedInv, VictimInv, [Next]_vars PROVE VictimInv'
  OBVIOUS
<1> USE NullAssumption, HandlesAssumption
<1>1. /\ SharedType /\ LocalType /\ TableInv /\ TableType /\ IdsInv /\ HoldsInv /\ SweepInv
      /\ IndexInRange /\ PlaceInv /\ EmptyHandsInv /\ nextHandle \in 0 .. MaxHandles /\ now \in Nat
  BY DEF IInv, Core, TableInv, LifeInv, ThreadsInv, SharedType
<1>2. ASSUME UNCHANGED <<size, mgr, pc, op, idx, con>>, online' \subseteq online PROVE VictimInv'
  BY <1>2 DEF VictimInv, Victim, Sweeping, Slots
<1>3. ASSUME NEW t \in Threads, UNCHANGED <<size, mgr>>, online' \subseteq online, Victim(t)',
             \A u \in Threads \ {t} : /\ pc'[u] = pc[u] /\ op'[u] = op[u]
                                      /\ idx'[u] = idx[u] /\ con'[u] = con[u]
      PROVE  VictimInv'
  BY <1>3, VictimKept
<1>4. ASSUME NEW t \in Threads, Return(t), UNCHANGED <<size, mgr>>, online' \subseteq online
      PROVE  VictimInv'
  <2>1. /\ pc'[t] = "idle" /\ con'[t] = NULL
        /\ \A u \in Threads \ {t} : /\ pc'[u] = pc[u] /\ op'[u] = op[u]
                                    /\ idx'[u] = idx[u] /\ con'[u] = con[u]
    BY <1>1, <1>4 DEF Return, LocalType
  <2>2. Victim(t)'
    BY <2>1 DEF Victim, Sweeping
  <2> QED BY <1>3, <1>4, <2>1, <2>2
<1>5. ASSUME NEW t \in Threads, GetConnection(t) PROVE VictimInv'
  <2>1. UNCHANGED <<size, mgr, online>>
    BY <1>5 DEF GetConnection, table, sockets
  <2>2. CASE mgr[idx[t]] = NULL
    BY <1>4, <1>5, <2>1, <2>2 DEF GetConnection
  <2>3. CASE mgr[idx[t]] # NULL
    <3>1. /\ con'[t] = mgr[idx[t]] /\ UNCHANGED <<op, idx>>
          /\ pc'[t] = IF op[t] \in {"error", "close"} THEN "check" ELSE "do"
          /\ \A u \in Threads \ {t} : pc'[u] = pc[u] /\ con'[u] = con[u]
      BY <1>1, <1>5, <2>3 DEF GetConnection, Goto, LocalType
    <3>2. idx[t] \in Slots /\ mgr[idx[t]] \in Int
      <4>1. idx[t] \in Slots
        BY <1>1, <1>5 DEF GetConnection, IndexInRange
      <4> QED BY <1>1, <2>3, <4>1 DEF TableType, Handles
    <3>3. Victim(t)'
      BY <2>1, <3>1, <3>2 DEF Victim, Sweeping
    <3> QED BY <1>3, <2>1, <3>1, <3>3
  <2> QED BY <2>2, <2>3
<1>6. ASSUME NEW t \in Threads, ShutdownCheck(t) \/ ShutdownClose(t) PROVE VictimInv'
  <2>1. /\ UNCHANGED <<size, mgr, op, idx, con>> /\ online' \subseteq online
        /\ pc[t] \in {"check", "close"}
        /\ pc'[t] \in {"delete", "erase"} => con[t] \notin online'
        /\ pc'[t] \in {"close", "delete"} \/ (pc'[t] = "erase" /\ op[t] = "sweep")
        /\ \A u \in Threads \ {t} : pc'[u] = pc[u]
    BY <1>1, <1>6 DEF ShutdownCheck, ShutdownClose, Goto, LocalType, table, sockets
  <2>2. con[t] \in Handles /\ Victim(t)
    BY <1>1, <2>1 DEF HoldsInv, VictimInv
  <2>3. Victim(t)'
    BY <2>1, <2>2 DEF Victim, Sweeping, Slots
  <2> QED BY <1>3, <2>1, <2>3
<1>7. ASSUME NEW t \in Threads, DoRecvEvent(t) \/ DoSendEvent(t) PROVE VictimInv'
  <2>1. /\ UNCHANGED <<size, mgr, op, idx, con, online>>
        /\ pc'[t] \in {"refresh", "check"} /\ op[t] \in {"recv", "send"}
        /\ \A u \in Threads \ {t} : pc'[u] = pc[u]
    BY <1>1, <1>7 DEF DoRecvEvent, DoSendEvent, Goto, LocalType, table, sockets
  <2>2. Victim(t)'
    BY <2>1 DEF VictimInv, Victim, Sweeping, Slots
  <2> QED BY <1>3, <2>1, <2>2
<1>8. ASSUME NEW t \in Threads, SweepThrottle(t) \/ SweepLock(t) PROVE VictimInv'
  <2>1. /\ UNCHANGED <<size, mgr, idx, con, online>> /\ pc[t] \in {"idle", "stamp"}
        /\ pc'[t] \in {"stamp", "sweep"}
        /\ \A u \in Threads \ {t} : pc'[u] = pc[u] /\ op'[u] = op[u]
    BY <1>1, <1>8 DEF SweepThrottle, SweepLock, Goto, LocalType, table, sockets
  <2>2. Victim(t)'
    BY <1>1, <2>1 DEF EmptyHandsInv, Victim, Sweeping
  <2> QED BY <1>3, <2>1, <2>2
<1>9. ASSUME NEW t \in Threads, SweepNext(t) PROVE VictimInv'
  <2>1. PICK r \in Earliest(t) : /\ idx' = [idx EXCEPT ![t] = r[2]]
                                 /\ con' = [con EXCEPT ![t] = mgr[r[2]]]
    BY <1>9 DEF SweepNext
  <2>2. r[2] \in Slots /\ mgr[r[2]] # NULL /\ mgr[r[2]] \in Int
    <3>1. r[2] \in Slots /\ mgr[r[2]] # NULL
      BY <1>1 DEF Earliest, Expired, TableInv, RecordsExact
    <3> QED BY <1>1, <3>1 DEF TableType, Handles
  <2>3. /\ UNCHANGED <<size, mgr, online, op>> /\ pc'[t] = "check"
        /\ idx'[t] = r[2] /\ con'[t] = mgr[r[2]]
        /\ \A u \in Threads \ {t} : pc'[u] = pc[u] /\ idx'[u] = idx[u] /\ con'[u] = con[u]
    BY <1>1, <1>9, <2>1 DEF SweepNext, Goto, LocalType, table, sockets
  <2>4. Victim(t)'
    BY <2>2, <2>3 DEF Victim, Sweeping
  <2> QED BY <1>3, <2>3, <2>4
<1>10. ASSUME NEW t \in Threads, DeleteConnection(t) \/ SweepErase(t) PROVE VictimInv'
  <2>1. /\ size' = size /\ mgr' \in {mgr, [mgr EXCEPT ![idx[t]] = NULL]}
        /\ online' \subseteq online
    BY <1>10 DEF DeleteConnection, SweepErase, DropSlot, ClearSlot, Referenced, table
  <2>2. /\ con'[t] = NULL /\ pc'[t] \in {"idle", "sweep"}
        /\ \A u \in Threads \ {t} : /\ pc'[u] = pc[u] /\ op'[u] = op[u]
                                    /\ idx'[u] = idx[u] /\ con'[u] = con[u]
    BY <1>1, <1>10 DEF DeleteConnection, SweepErase, Return, Goto, LocalType
  <2>3. connMtx = NULL \/ connMtx = t
    BY <1>1, <1>10 DEF DeleteConnection, SweepErase, SweepInv
  <2>4. \A u \in Threads \ {t} : ~Sweeping(u)
    BY <1>1, <2>3 DEF SweepInv, Sweeping
  <2>5. \A i \in Slots : mgr'[i] \in {mgr[i], NULL}
    BY <1>1, <2>1 DEF TableType
  <2>6. Victim(t)'
    BY <2>2 DEF Victim, Sweeping
  <2> QED BY <2>1, <2>2, <2>4, <2>5, <2>6, VictimKept
<1>11. ASSUME NEW t \in Threads, RefreshTime(t) \/ SweepEnd(t) \/ ConnectionSendMsg(t) \/ OnTimer(t)
       PROVE  VictimInv'
  <2>1. Return(t) /\ UNCHANGED <<size, mgr>> /\ online' \subseteq online
    BY <1>11 DEF RefreshTime, SweepEnd, ConnectionSendMsg, OnTimer, MoveDeadline, Referenced,
       table, sockets
  <2> QED BY <1>4, <2>1
<1>12. ASSUME NEW t \in Threads,
              \/ CloseEndpoint(t) \/ SendMsg(t)
              \/ \E c \in Handles : PollEvent(t, c) \/ TimerFire(t, c)
       PROVE  VictimInv'
  <2>1. UNCHANGED <<size, mgr, online>>
    BY <1>12 DEF CloseEndpoint, SendMsg, PollEvent, TimerFire, table, sockets
  <2>2. CASE UNCHANGED locals
    BY <1>2, <2>1, <2>2 DEF locals
  <2>3. CASE \E o, i, n, h : Enter(t, o, i, n, h)
    <3>1. /\ pc[t] = "idle" /\ pc'[t] = "get" /\ con' = con
          /\ \A u \in Threads \ {t} : pc'[u] = pc[u] /\ op'[u] = op[u] /\ idx'[u] = idx[u]
      BY <1>1, <2>3 DEF Enter, LocalType
    <3>2. Victim(t)'
      BY <1>1, <3>1 DEF EmptyHandsInv, Victim, Sweeping
    <3> QED BY <1>3, <2>1, <3>1, <3>2
  <2> QED BY <1>12, <2>2, <2>3 DEF CloseEndpoint, SendMsg, PollEvent, TimerFire
<1>13. ASSUME NEW t \in Threads, AttachEndpoint(t) PROVE VictimInv'
  <2>1. /\ UNCHANGED <<pc, op, idx, con>> /\ connMtx = NULL /\ online' = online \cup {nextHandle}
    BY <1>13 DEF AttachEndpoint, locals
  <2>2. PICK i \in Slots' : AttachedAt(i)
    BY <1>1, <1>13, AttachSlot
  <2> SUFFICES ASSUME NEW u \in Threads PROVE Victim(u)'
    BY DEF VictimInv
  <2>3. con[u] # NULL => con[u] \in Handles /\ con[u] < nextHandle
    <3>1. con[u] # NULL => con[u] \in Handles /\ cid[con[u]] = idx[u] /\ idx[u] \in Nat
      BY <1>1 DEF PlaceInv, LocalType
    <3> QED BY <1>1, <3>1 DEF PlaceInv
  <2>4. ~Sweeping(u)
    BY <1>1, <2>1 DEF SweepInv, Sweeping
  <2>5. pc[u] \in {"delete", "erase"} => con[u] \in Handles \ online'
    <3> SUFFICES ASSUME pc[u] \in {"delete", "erase"} PROVE con[u] \in Handles \ online'
      OBVIOUS
    <3>1. con[u] \in Handles \ online /\ con[u] # NULL
      BY DEF VictimInv, Victim, Handles
    <3> QED BY <1>1, <2>1, <2>3, <3>1 DEF Handles
  <2>6. ASSUME con[u] # NULL, idx[u] \in Slots', mgr'[idx[u]] # NULL PROVE con[u] <= mgr'[idx[u]]
    <3>1. mgr'[idx[u]] = IF idx[u] = i THEN nextHandle
                         ELSE IF idx[u] \in Slots THEN mgr[idx[u]] ELSE NULL
      BY <2>2, <2>6 DEF AttachedAt
    <3>2. CASE idx[u] = i
      BY <1>1, <2>3, <2>6, <3>1, <3>2 DEF Handles
    <3>3. CASE idx[u] # i
      BY <2>6, <3>1, <3>3 DEF VictimInv, Victim
    <3> QED BY <3>2, <3>3
  <2> QED BY <2>1, <2>4, <2>5, <2>6 DEF Victim, Sweeping
<1>14. CASE BeginShutdown \/ JoinPollers \/ JoinTimer \/ PeerSends \/ PeerCloses
              \/ Tick \/ UNCHANGED vars
  <2>1. UNCHANGED <<size, mgr, pc, op, idx, con, online>>
    BY <1>14 DEF BeginShutdown, JoinPollers, JoinTimer, PeerSends, PeerCloses, Tick,
       vars, table, sockets, locals
  <2> QED BY <1>2, <2>1
<1>15. CASE FinishShutdown
  <2>1. UNCHANGED <<pc, op, idx, con>> /\ \A t \in Threads : pc[t] = "idle"
    BY <1>15 DEF FinishShutdown, Joined, locals
  <2> QED BY <1>1, <2>1 DEF EmptyHandsInv, VictimInv, Victim, Sweeping
<1> QED
  BY <1>5, <1>6, <1>7, <1>8, <1>9, <1>10, <1>11, <1>12, <1>13, <1>14, <1>15
     DEF Next, HandlerStep, SweepStep, AppCall, Stopped, Threads

\* What a step may do to an open connection of the table.
LEMMA LossAnnounced ==
  ASSUME IInv, AskedInv, VictimInv, [Next]_vars,
         NEW c \in online, Attached(c), c \notin online' \/ ~Attached(c)'
  PROVE  \/ c \in closedPosted'
         \/ \E t \in Apps : pc[t] = "close" /\ con[t] = c /\ ~notify[t]
         \/ phase' = "done"
         \/ StaleDelete(c)
<1> USE NullAssumption, HandlesAssumption
<1>1. /\ TableInv /\ TableType /\ IdsInv /\ IndexInRange /\ notify \in [Threads -> BOOLEAN]
      /\ nextHandle \in 0 .. MaxHandles /\ now \in Nat /\ c \in Handles /\ c # NULL
  BY DEF IInv, Core, TableInv, LocalType, ThreadsInv, SharedType, Handles
<1>2. PICK s \in Slots : mgr[s] = c
  BY DEF Attached
<1>3. ASSUME size' = size, mgr'[s] = c PROVE Attached(c)'
  BY <1>2, <1>3 DEF Attached, Slots
<1>4. ASSUME NEW t \in Threads, size' = size, DOMAIN mgr' = Slots, mgr'[s] = c,
             online' = Referenced(online, mgr', con')
      PROVE  FALSE
  BY <1>2, <1>3, <1>4 DEF Referenced
<1>5. ASSUME NEW t \in Threads, DeleteConnection(t) \/ SweepErase(t) PROVE StaleDelete(c)
  <2>1. /\ size' = size /\ mgr' \in {mgr, [mgr EXCEPT ![idx[t]] = NULL]}
        /\ online' = Referenced(online, mgr', con') /\ pc[t] \in {"delete", "erase"}
    BY <1>5 DEF DeleteConnection, SweepErase, DropSlot, ClearSlot, table
  <2>2. DOMAIN mgr' = Slots
    BY <1>1, <2>1 DEF TableType
  <2>3. s = idx[t]
    <3> SUFFICES ASSUME s # idx[t] PROVE mgr'[s] = c
      BY <1>4, <2>1, <2>2
    <3> QED BY <1>1, <1>2, <2>1 DEF TableType
  <2>4. con[t] \in Handles /\ con[t] # c /\ con[t] # NULL
    BY <2>1 DEF VictimInv, Victim, Handles
  <2>5. pc[t] = "delete"
    BY <1>2, <2>1, <2>3, <2>4 DEF VictimInv, Victim, Sweeping
  <2>6. con[t] <= c
    BY <1>1, <1>2, <2>3, <2>4 DEF VictimInv, Victim
  <2>7. con[t] < c
    BY <1>1, <2>4, <2>6 DEF Handles
  <2> QED BY <1>2, <2>3, <2>4, <2>5, <2>7 DEF StaleDelete
<1>6. ASSUME NEW t \in Threads, RefreshTime(t) \/ ConnectionSendMsg(t) \/ OnTimer(t) PROVE FALSE
  <2>1. UNCHANGED <<size, mgr>> /\ online' = Referenced(online, mgr', con')
    BY <1>6 DEF RefreshTime, ConnectionSendMsg, OnTimer, MoveDeadline, table
  <2>2. DOMAIN mgr' = Slots
    BY <1>1, <2>1 DEF TableType
  <2> QED BY <1>2, <1>4, <2>1, <2>2
<1>7. ASSUME NEW t \in Threads, ShutdownClose(t)
      PROVE  c \in closedPosted' \/ \E u \in Apps : pc[u] = "close" /\ con[u] = c /\ ~notify[u]
  <2>1. pc[t] = "close" /\ con[t] = c
    <3>1. UNCHANGED <<size, mgr>> /\ online' = online \ {con[t]} /\ pc[t] = "close"
      BY <1>7 DEF ShutdownClose, table
    <3>2. Attached(c)'
      BY <1>2, <1>3, <3>1
    <3> QED BY <3>1, <3>2
  <2>2. CASE notify[t]
    BY <1>7, <2>1, <2>2 DEF ShutdownClose
  <2>3. CASE ~notify[t]
    <3>1. t \in Apps
      BY <2>1, <2>3 DEF AskedInv, Asked
    <3> QED BY <2>1, <2>3, <3>1
  <2> QED BY <2>2, <2>3
<1>8. ASSUME UNCHANGED <<size, mgr, online>> PROVE FALSE
  BY <1>2, <1>3, <1>8
<1>9. ASSUME NEW t \in Threads,
             \/ GetConnection(t) \/ ShutdownCheck(t) \/ DoRecvEvent(t) \/ DoSendEvent(t)
             \/ SweepThrottle(t) \/ SweepLock(t) \/ SweepNext(t) \/ SweepEnd(t)
             \/ CloseEndpoint(t) \/ SendMsg(t)
             \/ \E h \in Handles : PollEvent(t, h) \/ TimerFire(t, h)
      PROVE  FALSE
  <2>1. UNCHANGED <<size, mgr, online>>
    BY <1>9 DEF GetConnection, ShutdownCheck, DoRecvEvent, DoSendEvent, SweepThrottle, SweepLock,
       SweepNext, SweepEnd, CloseEndpoint, SendMsg, PollEvent, TimerFire, table, sockets
  <2> QED BY <1>8, <2>1
<1>10. ASSUME NEW t \in Threads, AttachEndpoint(t) PROVE FALSE
  <2>1. online \subseteq online'
    BY <1>10 DEF AttachEndpoint
  <2>2. Slots \subseteq Slots' /\ \A j \in Slots : mgr[j] # NULL => mgr'[j] = mgr[j]
    BY <1>1, <1>10, AttachTable
  <2>3. Attached(c)'
    BY <1>1, <1>2, <2>2 DEF Attached
  <2> QED BY <2>1, <2>3
<1>11. CASE BeginShutdown \/ JoinPollers \/ JoinTimer \/ PeerSends \/ PeerCloses
              \/ Tick \/ UNCHANGED vars
  <2>1. UNCHANGED <<size, mgr, online>>
    BY <1>11 DEF BeginShutdown, JoinPollers, JoinTimer, PeerSends, PeerCloses, Tick,
       vars, table, sockets
  <2> QED BY <1>8, <2>1
<1>12. CASE FinishShutdown
  BY <1>12 DEF FinishShutdown
<1> QED
  BY <1>5, <1>6, <1>7, <1>9, <1>10, <1>11, <1>12
     DEF Next, HandlerStep, SweepStep, AppCall, Stopped, Threads

\* NoSilentLoss: for every table size, indices reused or not, an open connection of the
\* table goes only with a close event, by the application's or the container's own
\* wish, or because DeleteConnection runs with an index that was given away again since
\* GetConnection; then it is always the later connection that goes.
THEOREM NeverLostSilently == Spec => NoSilentLoss
<1>1. Init => AskedInv /\ VictimInv
  BY DEF Init, AskedInv, Asked, VictimInv, Victim, Sweeping
<1>2. IInv /\ AskedInv /\ [Next]_vars => AskedInv'
  BY AskedStep
<1>3. IInv /\ LifeInv /\ AskedInv /\ VictimInv /\ [Next]_vars => VictimInv'
  BY VictimStep
<1>4. IInv /\ AskedInv /\ VictimInv /\ [Next]_vars =>
        [\A c \in online : Attached(c) /\ (c \notin online' \/ ~Attached(c)') =>
            \/ c \in closedPosted'
            \/ \E t \in Apps : pc[t] = "close" /\ con[t] = c /\ ~notify[t]
            \/ phase' = "done"
            \/ StaleDelete(c)]_vars
  BY LossAnnounced
<1> QED BY LifeInductive, <1>1, <1>2, <1>3, <1>4, PTL DEF Spec, NoSilentLoss
=============================================================================
