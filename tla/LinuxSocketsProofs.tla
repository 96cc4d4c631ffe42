------------------------- MODULE LinuxSocketsProofs -------------------------
(***************************************************************************)
(* Proofs about the descriptors of the connector, the listener and the     *)
(* endpoints they hand out: who may close which, for any number of         *)
(* application threads, sockets and descriptors.                           *)
(***************************************************************************)
EXTENDS LinuxSockets, FiniteSetTheorems, TLAPS

\* The types that TypeOK leaves out.
LocalType ==
    /\ fdOf \in [Socks -> Fds \cup {0}]
    /\ upc \in [Users -> {"idle", "connect", "listen"}]
    /\ usock \in [Users -> Socks \cup {0}]
    /\ cur \in [Pollers -> Socks \cup {0}]
    /\ answered \in [Socks -> Nat]
    /\ due \in [Pollers -> SUBSET Socks]

\* A descriptor in use was given to the socket it denotes.
FilesInv == \A f \in Fds, s \in Socks : files[f] = s => fdOf[s] = f

\* Nothing refers to a socket that was not made yet.
FreshInv ==
    \A s \in Socks : s > made =>
        /\ fdOf[s] = 0 /\ held[s] = "nobody" /\ answered[s] = 0
        /\ s \notin records \cup listening
        /\ \A p \in Pollers : s \notin due[p]
        /\ \A u \in Users : usock[u] # s

\* The connector is past the callback that answered the connect of s.
Handled(s) == pc["connector"] \in {"handler", "erase"} /\ cur["connector"] = s

\* The parts that own a socket: each one's are open, and nobody else's.
UserInv ==
    \A u \in Users :
        /\ upc[u] = "idle" <=> usock[u] = 0
        /\ \A s \in Socks : usock[u] = s =>
              /\ IsOpen(s) /\ held[s] = "nobody" /\ answered[s] = 0
              /\ s \notin records \cup listening
              /\ \A p \in Pollers : s \notin due[p]
              /\ \A v \in Users : usock[v] = s => v = u
RecordInv ==
    \A s \in records :
        /\ s \notin listening
        /\ Handled(s) \/ (IsOpen(s) /\ held[s] = "nobody" /\ answered[s] = 0)
ListenInv == \A s \in listening : IsOpen(s) /\ held[s] = "nobody"
HeldInv == \A s \in Socks : held[s] = "out" => IsOpen(s)

OwnedInv ==
    \A s \in Socks : IsOpen(s) =>
        \/ \E u \in Users : usock[u] = s
        \/ s \in records /\ ~Handled(s)
        \/ s \in listening
        \/ held[s] = "out"

RolesInv == UserInv /\ RecordInv /\ ListenInv /\ HeldInv /\ OwnedInv

\* What the polling threads have in hand, and that they are gone after the join.
PollInv ==
    /\ epoll["connector"] \cup batch["connector"] \subseteq records
    /\ \A s \in epoll["connector"] \cup batch["connector"] : ~Handled(s)
    /\ pc["connector"] \in {"event", "handler", "erase"} => cur["connector"] \in records
    /\ pc["connector"] = "event" => cur["connector"] \notin batch["connector"]
    /\ \A s \in Socks : pc["listener"] \in {"handler", "erase"} /\ cur["listener"] = s
          => held[s] # "nobody"
    /\ \A p \in Pollers : pc[p] \in {"new", "exit"} => batch[p] = {}
    /\ \A p \in Pollers : stop[p] \in {"joined", "done"} =>
          pc[p] \in {"new", "exit"} /\ epoll[p] = {}

\* What Shutdown found is still there to be closed, or an endpoint by now.
DueInv ==
    \A p \in Pollers, s \in Socks : s \in due[p] =>
        /\ IsOpen(s) => s \in Owned(p) \/ held[s] = "out"
        /\ stop[p] # "no"
        /\ stop[p] = "done" => s \notin Owned(p)

AnsweredInv == \A s \in Socks : answered[s] \in {0, 1}

IInv ==
    /\ TypeOK /\ LocalType /\ ~foreign
    /\ FilesInv /\ FreshInv /\ RolesInv /\ PollInv /\ DueInv /\ AnsweredInv
-----------------------------------------------------------------------------
(* Descriptors.                                                             *)

\* The kernel finds a lowest free descriptor as long as there is a free one.
LEMMA LowestFree == ASSUME Free # {} PROVE Min(Free) \in Free
<1> DEFINE Less == OpToRel(<, Nat)
<1>1. Free \subseteq Nat
  BY DescriptorsAssumption DEF Free
<1>2. \A x, y \in Nat : y < x => <<y, x>> \in Less
  BY DEF OpToRel
<1>3. IsWellFoundedOn(Less, Nat)
  BY NatLessThanWellFounded
<1> HIDE DEF Less
<1>4. \A T : T \subseteq Nat /\ T # {} => \E x \in T : \A y \in T : ~(<<y, x>> \in Less)
  BY <1>3, WFMin, Zenon
<1>5. PICK x \in Free : \A y \in Free : ~(<<y, x>> \in Less)
  BY <1>1, <1>4
<1>6. ASSUME NEW y \in Free PROVE x <= y
  <2>1. x \in Nat /\ y \in Nat
    BY <1>1
  <2>2. ~(y < x)
    BY <1>2, <1>5, <2>1
  <2> QED BY <2>1, <2>2
<1> QED BY <1>6 DEF Min

\* socket and accept4 open the new socket and leave the others as they are.
LEMMA OpenEffect ==
  ASSUME TypeOK, LocalType, FilesInv, NEW n, n = made + 1, Open(n)
  PROVE  /\ made' = n /\ n \in Socks /\ FilesInv'
         /\ files' \in [Fds -> 0 .. made'] /\ made' \in 0 .. MaxSockets
         /\ fdOf' \in [Socks -> Fds \cup {0}]
         /\ \A x \in Socks : x # n => fdOf'[x] = fdOf[x]
         /\ IsOpen(n)'
         /\ \A x \in Socks : x # n => (IsOpen(x)' <=> IsOpen(x))
<1> USE DescriptorsAssumption
<1>1. made \in Nat /\ made' = n /\ n \in Socks /\ made' \in 0 .. MaxSockets
  BY DEF TypeOK, Open, Socks
<1>2. PICK g \in Fds : g = Min(Free) /\ files[g] = 0 /\ g # 0
  BY LowestFree DEF Open, Free
<1>3. /\ fdOf' = [fdOf EXCEPT ![n] = g] /\ files' = [files EXCEPT ![g] = n]
      /\ files \in [Fds -> 0 .. made] /\ fdOf \in [Socks -> Fds \cup {0}]
  BY <1>2 DEF Open, TypeOK, LocalType
<1>4. /\ \A x \in Socks : fdOf'[x] = IF x = n THEN g ELSE fdOf[x]
      /\ \A f \in Fds : files'[f] = IF f = g THEN n ELSE files[f]
  BY <1>1, <1>3
<1>5. files' \in [Fds -> 0 .. made'] /\ fdOf' \in [Socks -> Fds \cup {0}]
  BY <1>1, <1>3
<1>6. \A f \in Fds : files[f] # n
  BY <1>1, <1>3
<1>7. FilesInv'
  BY <1>2, <1>4, <1>6 DEF FilesInv
<1>8. IsOpen(n)'
  <2>1. n # 0 /\ fdOf'[n] = g /\ files'[g] = n
    BY <1>1, <1>4 DEF Socks
  <2> QED BY <1>2, <2>1 DEF IsOpen
<1>9. ASSUME NEW x \in Socks, x # n PROVE IsOpen(x)' <=> IsOpen(x)
  <2>1. fdOf'[x] = fdOf[x] /\ fdOf[x] \in Fds \cup {0} /\ x # 0
    BY <1>3, <1>4, <1>9 DEF Socks
  <2>2. CASE fdOf[x] = g
    BY <1>2, <1>4, <1>9, <2>1, <2>2 DEF IsOpen
  <2>3. CASE fdOf[x] # g
    <3>1. fdOf[x] # 0 => files'[fdOf[x]] = files[fdOf[x]]
      BY <1>4, <2>1, <2>3
    <3> QED BY <2>1, <3>1 DEF IsOpen
  <2> QED BY <2>2, <2>3
<1> QED BY <1>1, <1>4, <1>5, <1>7, <1>8, <1>9

\* close, for sockets that are open, closes these and no other.
LEMMA CloseEffect ==
  ASSUME TypeOK, LocalType, FilesInv, NEW ss \in SUBSET Socks, CloseFds(ss),
         UNCHANGED <<fdOf, made>>, \A s \in ss : IsOpen(s), ~foreign
  PROVE  /\ ~foreign'
         /\ files' \in [Fds -> 0 .. made'] /\ FilesInv'
         /\ \A x \in Socks : IsOpen(x)' <=> IsOpen(x) /\ x \notin ss
<1> USE DescriptorsAssumption
<1>1. /\ files \in [Fds -> 0 .. made] /\ fdOf \in [Socks -> Fds \cup {0}] /\ made \in Nat
      /\ files' = [f \in Fds |-> IF \E s \in ss : fdOf[s] = f THEN 0 ELSE files[f]]
  BY DEF CloseFds, TypeOK, LocalType
<1>2. ~foreign'
  BY DEF CloseFds
<1>3. files' \in [Fds -> 0 .. made']
  BY <1>1
<1>4. FilesInv'
  BY <1>1 DEF FilesInv, Socks
<1>5. ASSUME NEW x \in Socks PROVE IsOpen(x)' <=> IsOpen(x) /\ x \notin ss
  <2>1. CASE x \in ss
    <3>1. fdOf[x] \in Fds /\ files'[fdOf[x]] = 0
      BY <1>1, <2>1 DEF IsOpen
    <3> QED BY <2>1, <3>1 DEF IsOpen
  <2>2. CASE x \notin ss
    <3>1. CASE IsOpen(x)
      <4>1. fdOf[x] \in Fds /\ files[fdOf[x]] = x
        BY <1>1, <3>1 DEF IsOpen
      <4>2. \A s \in ss : fdOf[s] # fdOf[x]
        BY <2>2, <4>1 DEF IsOpen
      <4>3. files'[fdOf[x]] = x
        BY <1>1, <4>1, <4>2
      <4> QED BY <2>2, <3>1, <4>1, <4>3 DEF IsOpen
    <3>2. CASE ~IsOpen(x)
      <4>1. fdOf[x] # 0 /\ x # 0 => fdOf[x] \in Fds /\ files[fdOf[x]] # x
        BY <1>1, <3>2 DEF IsOpen
      <4>2. fdOf[x] # 0 /\ x # 0 => files'[fdOf[x]] # x
        BY <1>1, <4>1
      <4> QED BY <3>2, <4>2 DEF IsOpen
    <3> QED BY <3>1, <3>2
  <2> QED BY <2>1, <2>2
<1> QED BY <1>2, <1>3, <1>4, <1>5
-----------------------------------------------------------------------------
(* The invariant.                                                           *)

\* Without sockets the invariant holds.
LEMMA InitInv == Init => IInv
<1> SUFFICES ASSUME Init PROVE IInv
  OBVIOUS
<1> USE DescriptorsAssumption DEF Init
<1>1. TypeOK /\ LocalType /\ ~foreign
  BY DEF TypeOK, LocalType, Socks, MaxPending
<1>2. \A s \in Socks : s # 0 /\ ~IsOpen(s)
  BY DEF IsOpen, Socks
<1>3. FilesInv /\ FreshInv
  BY <1>2 DEF FilesInv, FreshInv
<1>4. RolesInv
  BY <1>2 DEF RolesInv, UserInv, RecordInv, ListenInv, HeldInv, OwnedInv
<1>5. PollInv /\ DueInv /\ AnsweredInv
  BY DEF PollInv, DueInv, AnsweredInv, Pollers
<1> QED BY <1>1, <1>3, <1>4, <1>5 DEF IInv

\* Steps that neither open nor close a socket and hand none over.
LEMMA RestKept ==
  ASSUME FilesInv, FreshInv, RolesInv, AnsweredInv,
         UNCHANGED <<files, fdOf, made, held, answered, upc, usock, records, listening, due>>,
         \A s : Handled(s)' <=> Handled(s)
  PROVE  FilesInv' /\ FreshInv' /\ RolesInv' /\ AnsweredInv'
<1>1. \A s : IsOpen(s)' <=> IsOpen(s)
  BY DEF IsOpen
<1>2. FilesInv' /\ FreshInv' /\ AnsweredInv'
  BY DEF FilesInv, FreshInv, AnsweredInv
<1>3. UserInv' /\ RecordInv' /\ ListenInv' /\ HeldInv'
  BY <1>1 DEF RolesInv, UserInv, RecordInv, ListenInv, HeldInv
<1>4. OwnedInv'
  BY <1>1 DEF RolesInv, OwnedInv
<1> QED BY <1>2, <1>3, <1>4 DEF RolesInv

\* What a shutdown has still to close stays when sockets and records do.
LEMMA DueKept ==
  ASSUME DueInv, UNCHANGED <<files, fdOf, held, records, listening, due>>,
         \A p \in Pollers : stop'[p] = stop[p] \/ (stop[p] = "flag" /\ stop'[p] = "joined")
  PROVE  DueInv'
<1>1. \A s : IsOpen(s)' <=> IsOpen(s)
  BY DEF IsOpen
<1>2. \A p \in Pollers : Owned(p)' = Owned(p)
  BY DEF Owned
<1> QED BY <1>1, <1>2 DEF DueInv

\* The steps of the polling threads between two events.
LEMMA PollingStep ==
  ASSUME IInv, NEW p \in Pollers,
         \/ Start(p) \/ PollStep(p)
         \/ p = "connector" /\ OnConnectReturns
         \/ p = "listener" /\ (AcceptFails \/ OnAcceptReturns)
  PROVE  IInv'
<1>1. /\ UNCHANGED <<files, fdOf, made, held, answered, upc, usock, records, listening, due>>
      /\ UNCHANGED <<pending, epoll, stop, foreign>>
  BY DEF Start, PollStep, PollEvents, TakeEvent, PollExit, OnConnectReturns, AcceptFails,
     OnAcceptReturns, kernel, lib, user
<1>2. /\ pc \in [Pollers -> {"new", "poll", "event", "handler", "erase", "exit"}]
      /\ cur \in [Pollers -> Socks \cup {0}] /\ batch \in [Pollers -> SUBSET Socks]
      /\ epoll \in [Pollers -> SUBSET Socks]
  BY DEF IInv, TypeOK, LocalType
<1>3. \/ /\ pc[p] = "new" /\ stop[p] = "no" /\ pc' = [pc EXCEPT ![p] = "poll"]
         /\ UNCHANGED <<cur, batch>>
      \/ /\ pc[p] = "poll" /\ stop[p] = "no" /\ UNCHANGED <<pc, cur>>
         /\ \E b \in SUBSET epoll[p] : batch' = [batch EXCEPT ![p] = b]
      \/ /\ pc[p] = "poll" /\ pc' = [pc EXCEPT ![p] = "event"]
         /\ \E s \in batch[p] : /\ cur' = [cur EXCEPT ![p] = s]
                                /\ batch' = [batch EXCEPT ![p] = @ \ {s}]
      \/ /\ pc[p] = "poll" /\ batch[p] = {} /\ pc' = [pc EXCEPT ![p] = "exit"]
         /\ UNCHANGED <<cur, batch>>
      \/ /\ p = "connector" /\ pc[p] = "handler" /\ pc' = [pc EXCEPT ![p] = "erase"]
         /\ UNCHANGED <<cur, batch>>
      \/ /\ p = "listener" /\ pc[p] \in {"event", "handler"} /\ pc' = [pc EXCEPT ![p] = "poll"]
         /\ cur' = [cur EXCEPT ![p] = 0] /\ UNCHANGED batch
  BY DEF Start, PollStep, PollEvents, TakeEvent, PollExit, OnConnectReturns, AcceptFails,
     OnAcceptReturns, Goto, Ready, kernel, lib
<1>4. \A s : Handled(s)' <=> Handled(s)
  BY <1>2, <1>3 DEF Handled, Pollers
<1>5. TypeOK' /\ LocalType' /\ ~foreign'
  <2>1. /\ pc' \in [Pollers -> {"new", "poll", "event", "handler", "erase", "exit"}]
        /\ cur' \in [Pollers -> Socks \cup {0}]
    BY <1>2, <1>3
  <2>2. batch' \in [Pollers -> SUBSET Socks]
    BY <1>2, <1>3
  <2>3. \A q \in Pollers : pc'[q] \in {"event", "handler", "erase"} => cur'[q] \in Socks
    <3>1. \A q \in Pollers : pc[q] \in {"event", "handler", "erase"} => cur[q] \in Socks
      BY DEF IInv, TypeOK
    <3> QED BY <1>2, <1>3, <3>1
  <2> QED BY <1>1, <2>1, <2>2, <2>3 DEF IInv, TypeOK, LocalType
<1>6. FilesInv' /\ FreshInv' /\ RolesInv' /\ AnsweredInv'
  BY <1>1, <1>4, RestKept DEF IInv
<1>7. DueInv'
  BY <1>1, DueKept DEF IInv
<1>8. PollInv'
  <2>1. PollInv
    BY DEF IInv
  <2>2. /\ batch'["connector"] \subseteq epoll["connector"] \cup batch["connector"]
        /\ pc'["connector"] \in {"event", "handler", "erase"} =>
              \/ cur'["connector"] \in batch["connector"]
              \/ /\ pc["connector"] \in {"event", "handler", "erase"}
                 /\ cur'["connector"] = cur["connector"]
        /\ pc'["connector"] = "event" => cur'["connector"] \notin batch'["connector"]
    BY <1>2, <1>3, <2>1 DEF Pollers, PollInv
  <2>3. \A s \in Socks : pc'["listener"] \in {"handler", "erase"} /\ cur'["listener"] = s
          => held[s] # "nobody"
    BY <1>2, <1>3, <2>1 DEF Pollers, PollInv
  <2>4. \A q \in Pollers : pc'[q] \in {"new", "exit"} => batch'[q] = {}
    BY <1>2, <1>3, <2>1 DEF PollInv
  <2>5. \A q \in Pollers : stop[q] \in {"joined", "done"} =>
          pc'[q] \in {"new", "exit"} /\ epoll[q] = {}
    BY <1>2, <1>3, <2>1 DEF PollInv
  <2> QED BY <1>1, <1>4, <2>1, <2>2, <2>3, <2>4, <2>5 DEF PollInv
<1> QED BY <1>5, <1>6, <1>7, <1>8 DEF IInv

\* Connect and AddListeningPort make a socket, which is the calling thread's.
LEMMA MakeStep ==
  ASSUME IInv, NEW u \in Users, Connect(u) \/ AddListeningPort(u)
  PROVE  IInv'
<1>1. TypeOK /\ LocalType /\ FilesInv /\ FreshInv /\ RolesInv /\ PollInv /\ DueInv
  BY DEF IInv
<1>2. PICK n : n = made + 1
  OBVIOUS
<1>3. /\ UNCHANGED <<held, answered, records, listening, due, pending, epoll, stop, foreign>>
      /\ UNCHANGED <<pc, cur, batch>>
      /\ Open(n) /\ usock' = [usock EXCEPT ![u] = n]
      /\ upc[u] = "idle"
      /\ upc' = [upc EXCEPT ![u] = "connect"] \/ upc' = [upc EXCEPT ![u] = "listen"]
  BY <1>2 DEF Connect, AddListeningPort, Transition, lib, poll
<1>4. /\ made' = n /\ n \in Socks /\ FilesInv' /\ made \in Nat
      /\ files' \in [Fds -> 0 .. made'] /\ made' \in 0 .. MaxSockets
      /\ fdOf' \in [Socks -> Fds \cup {0}]
      /\ \A x \in Socks : x # n => fdOf'[x] = fdOf[x]
      /\ IsOpen(n)'
      /\ \A x \in Socks : x # n => (IsOpen(x)' <=> IsOpen(x))
  BY <1>1, <1>2, <1>3, OpenEffect DEF TypeOK
<1>5. /\ held[n] = "nobody" /\ answered[n] = 0 /\ n \notin records \cup listening /\ n # 0
      /\ \A p \in Pollers : n \notin due[p]
      /\ \A v \in Users : usock[v] # n
  <2>1. n > made /\ n # 0
    BY <1>2, <1>4
  <2> QED BY <1>1, <1>4, <2>1 DEF FreshInv
<1>6. /\ \A v \in Users : usock'[v] = IF v = u THEN n ELSE usock[v]
      /\ \A v \in Users : v # u => upc'[v] = upc[v]
      /\ upc'[u] # "idle"
  BY <1>1, <1>3 DEF LocalType
<1>7. \A s \in Socks : Handled(s)' <=> Handled(s)
  BY <1>3 DEF Handled
<1>8. TypeOK' /\ LocalType' /\ ~foreign'
  <2>1. upc' \in [Users -> {"idle", "connect", "listen"}] /\ usock' \in [Users -> Socks \cup {0}]
    BY <1>1, <1>3, <1>4 DEF LocalType
  <2> QED BY <1>1, <1>3, <1>4, <2>1 DEF IInv, TypeOK, LocalType
<1>9. FreshInv'
  <2>1. \A s \in Socks : s > made' => s > made /\ s # n
    BY <1>2, <1>4 DEF Socks
  <2> QED BY <1>1, <1>3, <1>4, <1>6, <2>1 DEF FreshInv
<1>10. UserInv'
  <2> SUFFICES ASSUME NEW v \in Users
               PROVE  /\ upc'[v] = "idle" <=> usock'[v] = 0
                      /\ \A s \in Socks : usock'[v] = s =>
                            /\ IsOpen(s)' /\ held[s] = "nobody" /\ answered[s] = 0
                            /\ s \notin records \cup listening
                            /\ \A p \in Pollers : s \notin due[p]
                            /\ \A w \in Users : usock'[w] = s => w = v
    BY <1>3 DEF UserInv
  <2>1. CASE v = u
    BY <1>4, <1>5, <1>6, <2>1
  <2>2. CASE v # u
    <3>1. usock'[v] = usock[v] /\ upc'[v] = upc[v]
      BY <1>6, <2>2
    <3>2. upc'[v] = "idle" <=> usock'[v] = 0
      BY <1>1, <3>1 DEF RolesInv, UserInv
    <3>3. ASSUME NEW s \in Socks, usock'[v] = s
          PROVE  /\ IsOpen(s)' /\ held[s] = "nobody" /\ answered[s] = 0
                 /\ s \notin records \cup listening
                 /\ \A p \in Pollers : s \notin due[p]
                 /\ \A w \in Users : usock'[w] = s => w = v
      <4>1. usock[v] = s /\ s # n
        BY <1>5, <3>1, <3>3
      <4>2. IsOpen(s)'
        BY <1>1, <1>4, <4>1 DEF RolesInv, UserInv
      <4>3. \A w \in Users : usock'[w] = s => usock[w] = s
        BY <1>6, <4>1
      <4> QED BY <1>1, <4>1, <4>2, <4>3 DEF RolesInv, UserInv
    <3> QED BY <3>2, <3>3
  <2> QED BY <2>1, <2>2
<1>11. RecordInv' /\ ListenInv' /\ HeldInv'
  <2>1. \A s \in records \cup listening : s \in Socks /\ s # n
    BY <1>1, <1>5 DEF TypeOK
  <2>2. RecordInv' /\ ListenInv'
    BY <1>1, <1>3, <1>4, <1>7, <2>1 DEF RolesInv, RecordInv, ListenInv
  <2>3. HeldInv'
    BY <1>1, <1>3, <1>4, <1>5 DEF RolesInv, HeldInv
  <2> QED BY <2>2, <2>3
<1>12. OwnedInv'
  <2> SUFFICES ASSUME NEW s \in Socks, IsOpen(s)'
               PROVE  \/ \E v \in Users : usock'[v] = s
                      \/ s \in records' /\ ~Handled(s)'
                      \/ s \in listening'
                      \/ held'[s] = "out"
    BY DEF OwnedInv
  <2>1. CASE s = n
    BY <1>6, <2>1
  <2>2. CASE s # n
    <3>1. \/ \E v \in Users : usock[v] = s
          \/ s \in records /\ ~Handled(s)
          \/ s \in listening
          \/ held[s] = "out"
      BY <1>1, <1>4, <2>2 DEF RolesInv, OwnedInv
    <3>2. ASSUME NEW v \in Users, usock[v] = s PROVE usock'[v] = s
      <4>1. usock[u] = 0 /\ s # 0
        BY <1>1, <1>3, DescriptorsAssumption DEF RolesInv, UserInv, Socks
      <4> QED BY <1>6, <3>2, <4>1
    <3> QED BY <1>3, <1>7, <3>1, <3>2
  <2> QED BY <2>1, <2>2
<1>13. PollInv'
  BY <1>1, <1>3 DEF PollInv, Handled
<1>14. DueInv'
  <2>1. \A p \in Pollers : Owned(p)' = Owned(p)
    BY <1>3 DEF Owned
  <2> QED BY <1>1, <1>3, <1>4, <1>5, <2>1 DEF DueInv
<1>15. AnsweredInv'
  BY <1>3 DEF IInv, AnsweredInv
<1> QED BY <1>4, <1>8, <1>9, <1>10, <1>11, <1>12, <1>13, <1>14, <1>15 DEF IInv, RolesInv

\* connect fails: the thread closes the socket it made.
LEMMA FailStep ==
  ASSUME IInv, NEW u \in Users, ConnectFails(u)
  PROVE  IInv'
<1>1. TypeOK /\ LocalType /\ FilesInv /\ FreshInv /\ RolesInv /\ PollInv /\ DueInv /\ ~foreign
  BY DEF IInv
<1>2. /\ UNCHANGED <<fdOf, made, held, answered, records, listening, due, pending, epoll, stop>>
      /\ UNCHANGED <<pc, cur, batch>>
      /\ usock' = [usock EXCEPT ![u] = 0] /\ upc' = [upc EXCEPT ![u] = "idle"]
      /\ upc[u] = "connect" /\ CloseFds({usock[u]})
  BY DEF ConnectFails, Transition, lib, poll
<1>3. PICK n \in Socks : n = usock[u]
  BY <1>1, <1>2 DEF RolesInv, UserInv, LocalType
<1>4. /\ IsOpen(n) /\ held[n] = "nobody" /\ n \notin records \cup listening
      /\ \A v \in Users : usock[v] = n => v = u
  BY <1>1, <1>3 DEF RolesInv, UserInv
<1>5. /\ ~foreign' /\ files' \in [Fds -> 0 .. made'] /\ FilesInv'
      /\ \A x \in Socks : IsOpen(x)' <=> IsOpen(x) /\ x # n
  <2>1. CloseFds({n}) /\ {n} \in SUBSET Socks /\ \A x \in {n} : IsOpen(x)
    BY <1>2, <1>3, <1>4
  <2> QED BY <1>1, <1>2, <2>1, CloseEffect
<1>6. /\ \A v \in Users : usock'[v] = IF v = u THEN 0 ELSE usock[v]
      /\ \A v \in Users : upc'[v] = IF v = u THEN "idle" ELSE upc[v]
  BY <1>1, <1>2 DEF LocalType
<1>7. \A s \in Socks : s # 0 /\ (Handled(s)' <=> Handled(s))
  BY <1>2, DescriptorsAssumption DEF Handled, Socks
<1>8. TypeOK' /\ LocalType'
  <2>1. upc' \in [Users -> {"idle", "connect", "listen"}] /\ usock' \in [Users -> Socks \cup {0}]
    BY <1>1, <1>2 DEF LocalType
  <2> QED BY <1>1, <1>2, <1>5, <2>1 DEF TypeOK, LocalType
<1>9. FreshInv'
  BY <1>1, <1>2, <1>6, <1>7 DEF FreshInv
<1>10. UserInv'
  BY <1>1, <1>2, <1>4, <1>5, <1>6, <1>7 DEF RolesInv, UserInv
<1>11. RecordInv' /\ ListenInv' /\ HeldInv'
  <2>1. \A s \in records \cup listening : s \in Socks /\ s # n
    BY <1>1, <1>4 DEF TypeOK
  <2>2. RecordInv' /\ ListenInv'
    BY <1>1, <1>2, <1>5, <1>7, <2>1 DEF RolesInv, RecordInv, ListenInv
  <2>3. HeldInv'
    BY <1>1, <1>2, <1>4, <1>5 DEF RolesInv, HeldInv
  <2> QED BY <2>2, <2>3
<1>12. OwnedInv'
  BY <1>1, <1>2, <1>3, <1>5, <1>6, <1>7 DEF RolesInv, OwnedInv
<1>13. PollInv'
  BY <1>1, <1>2 DEF PollInv, Handled
<1>14. DueInv'
  <2>1. \A p \in Pollers : Owned(p)' = Owned(p)
    BY <1>2 DEF Owned
  <2> QED BY <1>1, <1>2, <1>5, <2>1 DEF DueInv
<1>15. AnsweredInv'
  BY <1>2 DEF IInv, AnsweredInv
<1> QED BY <1>5, <1>8, <1>9, <1>10, <1>11, <1>12, <1>13, <1>14, <1>15 DEF IInv, RolesInv

\* The socket passes from the thread that made it to the connector's records or
\* the listener's list.
LEMMA RecordStep ==
  ASSUME IInv, NEW u \in Users, ConnectRecords(u) \/ ListenRecords(u)
  PROVE  IInv'
<1>1. TypeOK /\ LocalType /\ FilesInv /\ FreshInv /\ RolesInv /\ PollInv /\ DueInv
  BY DEF IInv
<1>2. /\ UNCHANGED <<files, fdOf, made, held, answered, due, pending, stop, foreign>>
      /\ UNCHANGED <<pc, cur, batch>>
      /\ usock' = [usock EXCEPT ![u] = 0] /\ upc' = [upc EXCEPT ![u] = "idle"]
      /\ upc[u] \in {"connect", "listen"}
  BY DEF ConnectRecords, ListenRecords, Transition, kernel, poll
<1>3. PICK n \in Socks : n = usock[u]
  BY <1>1, <1>2 DEF RolesInv, UserInv, LocalType
<1>4. /\ IsOpen(n) /\ held[n] = "nobody" /\ n \notin records \cup listening /\ answered[n] = 0
      /\ \A v \in Users : usock[v] = n => v = u
      /\ \A p \in Pollers : n \notin due[p]
  BY <1>1, <1>3 DEF RolesInv, UserInv
<1>5. PICK q \in Pollers :
         /\ q = "connector" => records' = records \cup {n} /\ listening' = listening
         /\ q = "listener" => records' = records /\ listening' = listening \cup {n}
         /\ epoll' = [epoll EXCEPT ![q] = IF stop[q] \in {"no", "flag"} THEN @ \cup {n} ELSE @]
  <2>1. CASE ConnectRecords(u)
    <3>1. /\ records' = records \cup {n} /\ listening' = listening
          /\ epoll' = [epoll EXCEPT !["connector"] =
                          IF stop["connector"] \in {"no", "flag"} THEN @ \cup {n} ELSE @]
      BY <1>3, <2>1 DEF ConnectRecords, Watch
    <3> QED BY <3>1 DEF Pollers
  <2>2. CASE ListenRecords(u)
    <3>1. /\ records' = records /\ listening' = listening \cup {n}
          /\ epoll' = [epoll EXCEPT !["listener"] =
                          IF stop["listener"] \in {"no", "flag"} THEN @ \cup {n} ELSE @]
      BY <1>3, <2>2 DEF ListenRecords, Watch
    <3> QED BY <3>1 DEF Pollers
  <2> QED BY <2>1, <2>2
<1>6. /\ \A v \in Users : usock'[v] = IF v = u THEN 0 ELSE usock[v]
      /\ \A v \in Users : upc'[v] = IF v = u THEN "idle" ELSE upc[v]
  BY <1>1, <1>2 DEF LocalType
<1>7. \A s \in Socks : s # 0 /\ (Handled(s)' <=> Handled(s)) /\ (IsOpen(s)' <=> IsOpen(s))
  BY <1>2, DescriptorsAssumption DEF Handled, IsOpen, Socks
<1>8. ~Handled(n) /\ n <= made
  <2>1. n <= made
    BY <1>1, <1>3 DEF FreshInv, TypeOK, Socks
  <2> QED BY <1>1, <1>4, <2>1 DEF Handled, PollInv
<1>9. /\ epoll'["connector"] \subseteq epoll["connector"] \cup (records' \cap {n})
      /\ \A p \in Pollers : stop[p] \in {"joined", "done"} => epoll'[p] = epoll[p]
      /\ epoll' \in [Pollers -> SUBSET Socks]
      /\ records \subseteq records' /\ records' \subseteq records \cup {n}
      /\ listening \subseteq listening' /\ listening' \subseteq listening \cup {n}
      /\ n \in records' \cup listening' /\ ~(n \in records' /\ n \in listening')
  BY <1>1, <1>4, <1>5 DEF TypeOK, Pollers
<1>10. TypeOK' /\ LocalType' /\ ~foreign'
  <2>1. upc' \in [Users -> {"idle", "connect", "listen"}] /\ usock' \in [Users -> Socks \cup {0}]
    BY <1>1, <1>2 DEF LocalType
  <2> QED BY <1>1, <1>2, <1>9, <2>1 DEF IInv, TypeOK, LocalType
<1>11. FilesInv' /\ AnsweredInv'
  BY <1>1, <1>2 DEF IInv, FilesInv, AnsweredInv
<1>12. FreshInv'
  <2>1. \A s \in Socks : s > made => s # n
    BY <1>1, <1>8 DEF TypeOK, Socks
  <2> QED BY <1>1, <1>2, <1>6, <1>7, <1>9, <2>1 DEF FreshInv
<1>13. UserInv'
  BY <1>1, <1>2, <1>4, <1>6, <1>7, <1>9 DEF RolesInv, UserInv
<1>14. RecordInv' /\ ListenInv' /\ HeldInv'
  <2>1. RecordInv'
    BY <1>1, <1>2, <1>4, <1>7, <1>9 DEF RolesInv, RecordInv, TypeOK
  <2>2. ListenInv'
    BY <1>1, <1>2, <1>4, <1>7, <1>9 DEF RolesInv, ListenInv, TypeOK
  <2>3. HeldInv'
    BY <1>1, <1>2, <1>7 DEF RolesInv, HeldInv
  <2> QED BY <2>1, <2>2, <2>3
<1>15. OwnedInv'
  BY <1>1, <1>2, <1>3, <1>6, <1>7, <1>8, <1>9 DEF RolesInv, OwnedInv
<1>16. PollInv'
  <2>1. \A s \in epoll'["connector"] \cup batch["connector"] : s \in records' /\ ~Handled(s)
    BY <1>1, <1>8, <1>9 DEF PollInv
  <2>2. \A s : Handled(s)' <=> Handled(s)
    BY <1>2 DEF Handled
  <2>3. pc["connector"] \in {"event", "handler", "erase"} => cur["connector"] \in records'
    BY <1>1, <1>9 DEF PollInv
  <2> QED BY <1>1, <1>2, <1>9, <2>1, <2>2, <2>3 DEF PollInv
<1>17. DueInv'
  <2> SUFFICES ASSUME NEW p \in Pollers, NEW s \in Socks, s \in due[p]
               PROVE  /\ IsOpen(s)' => s \in Owned(p)' \/ held[s] = "out"
                      /\ stop[p] # "no"
                      /\ stop[p] = "done" => s \notin Owned(p)'
    BY <1>2 DEF DueInv
  <2>1. s # n /\ (s \in Owned(p)' <=> s \in Owned(p))
    BY <1>4, <1>9 DEF Owned
  <2> QED BY <1>1, <1>7, <2>1 DEF DueInv
<1> QED BY <1>10, <1>11, <1>12, <1>13, <1>14, <1>15, <1>16, <1>17 DEF IInv, RolesInv

\* The network, the join of a polling thread, and steps of nobody.
LEMMA OutsideStep ==
  ASSUME IInv,
         \/ \E s \in Socks : ConnectResult(s)
         \/ PeerConnects \/ PeerWithdraws \/ UNCHANGED vars
         \/ \E p \in Pollers : JoinPollThread(p)
  PROVE  IInv'
<1>1. TypeOK /\ LocalType /\ FilesInv /\ FreshInv /\ RolesInv /\ PollInv /\ DueInv /\ AnsweredInv
      /\ ~foreign
  BY DEF IInv
<1>2. /\ UNCHANGED <<files, fdOf, made, held, answered, upc, usock, records, listening, due>>
      /\ UNCHANGED <<pc, cur, batch, foreign>>
  BY DEF ConnectResult, PeerConnects, PeerWithdraws, JoinPollThread, vars, kernel, lib, poll, user
<1>3. pending' \in 0 .. MaxPending
  BY <1>1 DEF ConnectResult, PeerConnects, PeerWithdraws, JoinPollThread, vars, kernel, TypeOK,
     MaxPending
<1>4. \/ UNCHANGED <<stop, epoll>>
      \/ \E p \in Pollers : /\ stop[p] = "flag" /\ pc[p] \in {"new", "exit"}
                            /\ stop' = [stop EXCEPT ![p] = "joined"]
                            /\ epoll' = [epoll EXCEPT ![p] = {}]
  BY DEF ConnectResult, PeerConnects, PeerWithdraws, JoinPollThread, Joined, vars, lib
<1>5. /\ stop' \in [Pollers -> {"no", "flag", "joined", "done"}]
      /\ epoll' \in [Pollers -> SUBSET Socks]
      /\ \A p \in Pollers : stop'[p] = stop[p] \/ (stop[p] = "flag" /\ stop'[p] = "joined")
      /\ \A p \in Pollers : epoll'[p] \subseteq epoll[p]
      /\ \A p \in Pollers : stop'[p] \in {"joined", "done"} =>
            pc[p] \in {"new", "exit"} /\ epoll'[p] = {}
  <2>1. CASE UNCHANGED <<stop, epoll>>
    BY <1>1, <2>1 DEF TypeOK, PollInv
  <2>2. CASE ~UNCHANGED <<stop, epoll>>
    <3>1. PICK p \in Pollers : /\ stop[p] = "flag" /\ pc[p] \in {"new", "exit"}
                               /\ stop' = [stop EXCEPT ![p] = "joined"]
                               /\ epoll' = [epoll EXCEPT ![p] = {}]
      BY <1>4, <2>2
    <3> QED BY <1>1, <3>1 DEF TypeOK, PollInv
  <2> QED BY <2>1, <2>2
<1>6. \A s : Handled(s)' <=> Handled(s)
  BY <1>2 DEF Handled
<1>7. TypeOK' /\ LocalType' /\ ~foreign'
  BY <1>1, <1>2, <1>3, <1>5 DEF TypeOK, LocalType
<1>8. FilesInv' /\ FreshInv' /\ RolesInv' /\ AnsweredInv'
  BY <1>1, <1>2, <1>6, RestKept
<1>9. DueInv'
  BY <1>1, <1>2, <1>5, DueKept
<1>10. PollInv'
  <2>1. epoll'["connector"] \subseteq epoll["connector"]
    BY <1>5 DEF Pollers
  <2> QED BY <1>1, <1>2, <1>5, <1>6, <2>1 DEF PollInv
<1> QED BY <1>7, <1>8, <1>9, <1>10 DEF IInv

\* Shutdown begins: what the object owns becomes due.
LEMMA BeginStep ==
  ASSUME IInv, NEW p \in Pollers, BeginShutdown(p)
  PROVE  IInv'
<1>1. TypeOK /\ LocalType /\ FilesInv /\ FreshInv /\ RolesInv /\ PollInv /\ DueInv /\ AnsweredInv
      /\ ~foreign
  BY DEF IInv
<1>2. /\ UNCHANGED <<files, fdOf, made, held, answered, upc, usock, records, listening>>
      /\ UNCHANGED <<pc, cur, batch, foreign, pending, epoll>>
      /\ stop[p] = "no" /\ stop' = [stop EXCEPT ![p] = "flag"]
      /\ due' = [due EXCEPT ![p] = Owned(p)]
  BY DEF BeginShutdown, kernel, poll, user
<1>3. /\ \A q \in Pollers : stop'[q] = IF q = p THEN "flag" ELSE stop[q]
      /\ \A q \in Pollers : due'[q] = IF q = p THEN Owned(p) ELSE due[q]
  BY <1>1, <1>2 DEF TypeOK, LocalType
<1>4. Owned(p) \subseteq records \cup listening /\ \A q : Owned(q)' = Owned(q)
  BY <1>2 DEF Owned
<1>5. \A s : (Handled(s)' <=> Handled(s)) /\ (IsOpen(s)' <=> IsOpen(s))
  BY <1>2 DEF Handled, IsOpen
<1>6. TypeOK' /\ LocalType' /\ ~foreign'
  <2>1. due' \in [Pollers -> SUBSET Socks]
    BY <1>1, <1>2, <1>4 DEF TypeOK, LocalType
  <2>2. stop' \in [Pollers -> {"no", "flag", "joined", "done"}]
    BY <1>1, <1>2 DEF TypeOK
  <2> QED BY <1>1, <1>2, <2>1, <2>2 DEF TypeOK, LocalType
<1>7. FilesInv' /\ AnsweredInv'
  BY <1>1, <1>2 DEF FilesInv, AnsweredInv
<1>8. FreshInv'
  BY <1>1, <1>2, <1>3, <1>4 DEF FreshInv
<1>9. UserInv'
  <2>1. \A u \in Users, s \in Socks : usock[u] = s => \A q \in Pollers : s \notin due'[q]
    BY <1>1, <1>3, <1>4 DEF RolesInv, UserInv
  <2> QED BY <1>1, <1>2, <1>5, <2>1 DEF RolesInv, UserInv
<1>10. RecordInv' /\ ListenInv' /\ HeldInv' /\ OwnedInv'
  BY <1>1, <1>2, <1>5 DEF RolesInv, RecordInv, ListenInv, HeldInv, OwnedInv
<1>11. PollInv'
  BY <1>1, <1>2, <1>3, <1>5 DEF PollInv
<1>12. DueInv'
  BY <1>1, <1>2, <1>3, <1>4, <1>5 DEF DueInv
<1> QED BY <1>6, <1>7, <1>8, <1>9, <1>10, <1>11, <1>12 DEF IInv, RolesInv

\* Shutdown closes what the object owns.  After the join no event is being handled,
\* so that each record still has its own, open descriptor.
LEMMA CloseAllStep ==
  ASSUME IInv, NEW p \in Pollers, CloseAll(p)
  PROVE  IInv'
<1>1. TypeOK /\ LocalType /\ FilesInv /\ FreshInv /\ RolesInv /\ PollInv /\ DueInv /\ AnsweredInv
      /\ ~foreign
  BY DEF IInv
<1>2. /\ UNCHANGED <<fdOf, made, held, answered, upc, usock, due>>
      /\ UNCHANGED <<pc, cur, batch, pending, epoll>>
      /\ stop[p] = "joined" /\ stop' = [stop EXCEPT ![p] = "done"]
      /\ CloseFds(Owned(p))
      /\ records' = IF p = "connector" THEN {} ELSE records
      /\ listening' = IF p = "listener" THEN {} ELSE listening
  BY DEF CloseAll, CloseOwned, poll, user
<1>3. PICK ss \in SUBSET Socks : ss = Owned(p)
  BY <1>1 DEF Owned, TypeOK
<1>4. p = "connector" => /\ pc[p] \in {"new", "exit"} /\ epoll[p] = {} /\ batch[p] = {}
                         /\ \A s : ~Handled(s)
  BY <1>1, <1>2 DEF PollInv, Handled
<1>5. \A s \in ss : IsOpen(s) /\ held[s] = "nobody"
  BY <1>1, <1>3, <1>4 DEF Owned, Pollers, RolesInv, RecordInv, ListenInv
<1>6. /\ ~foreign' /\ files' \in [Fds -> 0 .. made'] /\ FilesInv'
      /\ \A x \in Socks : IsOpen(x)' <=> IsOpen(x) /\ x \notin ss
  <2>1. CloseFds(ss) /\ \A x \in ss : IsOpen(x)
    BY <1>2, <1>3, <1>5
  <2> QED BY <1>1, <1>2, <2>1, CloseEffect
<1>7. /\ \A q \in Pollers : stop'[q] = IF q = p THEN "done" ELSE stop[q]
      /\ stop' \in [Pollers -> {"no", "flag", "joined", "done"}]
  BY <1>1, <1>2 DEF TypeOK
<1>8. /\ \A s : Handled(s)' <=> Handled(s)
      /\ records' \subseteq records /\ listening' \subseteq listening
      /\ \A q \in Pollers : Owned(q)' = IF q = p THEN {} ELSE Owned(q)
  BY <1>2 DEF Handled, Owned, Pollers
<1>9. \A s \in records' \cup listening' : s \in Socks /\ s \notin ss
  BY <1>1, <1>2, <1>3 DEF Owned, Pollers, TypeOK, RolesInv, RecordInv
<1>10. \A s \in records \cup listening : s \in ss \/ s \in records' \cup listening'
  BY <1>2, <1>3 DEF Owned, Pollers
<1>11. TypeOK' /\ LocalType'
  BY <1>1, <1>2, <1>6, <1>7, <1>8 DEF TypeOK, LocalType
<1>12. FreshInv' /\ AnsweredInv'
  BY <1>1, <1>2, <1>8 DEF FreshInv, AnsweredInv
<1>13. UserInv'
  <2>1. \A s \in ss : s \in records \cup listening
    BY <1>3 DEF Owned
  <2> QED BY <1>1, <1>2, <1>6, <1>8, <2>1 DEF RolesInv, UserInv
<1>14. RecordInv' /\ ListenInv' /\ HeldInv'
  <2>1. RecordInv'
    BY <1>1, <1>2, <1>6, <1>8, <1>9 DEF RolesInv, RecordInv
  <2>2. ListenInv'
    BY <1>1, <1>2, <1>6, <1>8, <1>9 DEF RolesInv, ListenInv
  <2>3. HeldInv'
    BY <1>1, <1>2, <1>5, <1>6 DEF RolesInv, HeldInv
  <2> QED BY <2>1, <2>2, <2>3
<1>15. OwnedInv'
  <2>1. \A s \in records : s \in ss \/ s \in records'
    BY <1>2, <1>3 DEF Owned, Pollers
  <2>2. \A s \in listening : s \in ss \/ s \in listening'
    BY <1>2, <1>3 DEF Owned, Pollers
  <2> QED BY <1>1, <1>2, <1>6, <1>8, <2>1, <2>2 DEF RolesInv, OwnedInv
<1>16. PollInv'
  <2>1. p # "connector" => records' = records
    BY <1>2
  <2>2. epoll["connector"] \cup batch["connector"] \subseteq records'
    BY <1>1, <1>4, <2>1 DEF PollInv
  <2>3. pc["connector"] \in {"event", "handler", "erase"} => cur["connector"] \in records'
    BY <1>1, <1>4, <2>1 DEF PollInv
  <2>4. \A q \in Pollers : stop'[q] \in {"joined", "done"} => pc[q] \in {"new", "exit"} /\ epoll[q] = {}
    BY <1>1, <1>2, <1>7 DEF PollInv
  <2> QED BY <1>1, <1>2, <1>8, <2>2, <2>3, <2>4 DEF PollInv
<1>17. DueInv'
  <2> SUFFICES ASSUME NEW q \in Pollers, NEW s \in Socks, s \in due[q]
               PROVE  /\ IsOpen(s)' => s \in Owned(q)' \/ held[s] = "out"
                      /\ stop'[q] # "no"
                      /\ stop'[q] = "done" => s \notin Owned(q)'
    BY <1>2 DEF DueInv
  <2>1. /\ IsOpen(s) => s \in Owned(q) \/ held[s] = "out"
        /\ stop[q] # "no" /\ (stop[q] = "done" => s \notin Owned(q))
    BY <1>1 DEF DueInv
  <2>2. CASE q = p
    BY <1>3, <1>6, <1>7, <1>8, <2>1, <2>2
  <2>3. CASE q # p
    BY <1>6, <1>7, <1>8, <2>1, <2>3
  <2> QED BY <2>2, <2>3
<1> QED BY <1>6, <1>11, <1>12, <1>13, <1>14, <1>15, <1>16, <1>17 DEF IInv, RolesInv

\* An endpoint closes the descriptor that was handed to it.
LEMMA EndpointStep ==
  ASSUME IInv, NEW n \in Socks, EndpointClose(n)
  PROVE  IInv'
<1>1. TypeOK /\ LocalType /\ FilesInv /\ FreshInv /\ RolesInv /\ PollInv /\ DueInv /\ AnsweredInv
      /\ ~foreign
  BY DEF IInv
<1>2. /\ UNCHANGED <<fdOf, made, answered, upc, usock, due, records, listening>>
      /\ UNCHANGED <<pc, cur, batch, pending, epoll, stop>>
      /\ held[n] = "out" /\ held' = [held EXCEPT ![n] = "closed"]
      /\ CloseFds({n})
  BY DEF EndpointClose, lib, poll, user
<1>3. IsOpen(n) /\ \A s \in Socks : held'[s] = IF s = n THEN "closed" ELSE held[s]
  BY <1>1, <1>2 DEF RolesInv, HeldInv, TypeOK
<1>4. /\ ~foreign' /\ files' \in [Fds -> 0 .. made'] /\ FilesInv'
      /\ \A x \in Socks : IsOpen(x)' <=> IsOpen(x) /\ x # n
  <2>1. {n} \in SUBSET Socks /\ \A x \in {n} : IsOpen(x)
    BY <1>3
  <2> QED BY <1>1, <1>2, <2>1, CloseEffect
<1>5. \A s : (Handled(s)' <=> Handled(s)) /\ \A q : Owned(q)' = Owned(q)
  BY <1>2 DEF Handled, Owned
<1>6. TypeOK' /\ LocalType'
  <2>1. held' \in [Socks -> {"nobody", "out", "closed"}]
    BY <1>1, <1>2 DEF TypeOK
  <2> QED BY <1>1, <1>2, <1>4, <2>1 DEF TypeOK, LocalType
<1>7. FreshInv' /\ AnsweredInv'
  BY <1>1, <1>2, <1>3 DEF FreshInv, AnsweredInv
<1>8. UserInv'
  BY <1>1, <1>2, <1>3, <1>4 DEF RolesInv, UserInv
<1>9. RecordInv' /\ ListenInv' /\ HeldInv'
  <2>1. records \subseteq Socks /\ listening \subseteq Socks
    BY <1>1 DEF TypeOK
  <2>2. RecordInv'
    BY <1>1, <1>2, <1>3, <1>4, <1>5, <2>1 DEF RolesInv, RecordInv
  <2>3. ListenInv' /\ HeldInv'
    BY <1>1, <1>2, <1>3, <1>4, <2>1 DEF RolesInv, ListenInv, HeldInv
  <2> QED BY <2>2, <2>3
<1>10. OwnedInv'
  BY <1>1, <1>2, <1>3, <1>4, <1>5 DEF RolesInv, OwnedInv
<1>11. PollInv'
  BY <1>1, <1>2, <1>3, <1>5 DEF PollInv
<1>12. DueInv'
  BY <1>1, <1>2, <1>3, <1>4, <1>5 DEF DueInv
<1> QED BY <1>4, <1>6, <1>7, <1>8, <1>9, <1>10, <1>11, <1>12 DEF IInv, RolesInv

\* The connect of a record is answered: the endpoint is handed out, or the
\* descriptor closed.  The record has still to be erased.
LEMMA AnswerStep ==
  ASSUME IInv, OnConnect \/ OnErrorOccurred
  PROVE  IInv'
<1>1. TypeOK /\ LocalType /\ FilesInv /\ FreshInv /\ RolesInv /\ PollInv /\ DueInv /\ AnsweredInv
      /\ ~foreign
  BY DEF IInv
<1>2. PICK n : n = cur["connector"]
  OBVIOUS
<1>3. /\ UNCHANGED <<fdOf, made, upc, usock, due, records, listening>>
      /\ UNCHANGED <<cur, batch, pending, stop>>
      /\ pc["connector"] = "event"
      /\ epoll' = [epoll EXCEPT !["connector"] = @ \ {n}]
      /\ answered' = [answered EXCEPT ![n] = @ + 1]
      /\ \E label \in {"handler", "erase"} : pc' = [pc EXCEPT !["connector"] = label]
      /\ \/ held' = [held EXCEPT ![n] = "out"] /\ UNCHANGED <<files, foreign>>
         \/ held' = held /\ CloseFds({n})
  BY <1>2 DEF OnConnect, OnErrorOccurred, DeleteFromEpoll, HandlerTakes, Answer, Goto, CloseFailed,
     kernel, user
<1>4. /\ n \in records /\ n \in Socks /\ n \notin listening /\ n \notin batch["connector"]
      /\ IsOpen(n) /\ held[n] = "nobody" /\ answered[n] = 0 /\ \A s : ~Handled(s)
  <2>1. n \in records /\ n \notin batch["connector"] /\ \A s : ~Handled(s)
    BY <1>1, <1>2, <1>3 DEF PollInv, Handled
  <2> QED BY <1>1, <2>1 DEF TypeOK, RolesInv, RecordInv
<1>5. /\ ~foreign' /\ files' \in [Fds -> 0 .. made'] /\ FilesInv'
      /\ held' \in [Socks -> {"nobody", "out", "closed"}]
      /\ \A x \in Socks : x # n => held'[x] = held[x] /\ (IsOpen(x)' <=> IsOpen(x))
      /\ held'[n] = "out" <=> IsOpen(n)'
  <2>1. CASE held' = [held EXCEPT ![n] = "out"] /\ UNCHANGED <<files, foreign>>
    <3>1. \A x : IsOpen(x)' <=> IsOpen(x)
      BY <1>3, <2>1 DEF IsOpen
    <3>2. FilesInv'
      BY <1>1, <1>3, <2>1 DEF FilesInv
    <3> QED BY <1>1, <1>3, <1>4, <2>1, <3>1, <3>2 DEF TypeOK
  <2>2. CASE held' = held /\ CloseFds({n})
    <3>1. {n} \in SUBSET Socks /\ \A x \in {n} : IsOpen(x)
      BY <1>4
    <3>2. /\ ~foreign' /\ files' \in [Fds -> 0 .. made'] /\ FilesInv'
          /\ \A x \in Socks : IsOpen(x)' <=> IsOpen(x) /\ x \notin {n}
      BY <1>1, <1>3, <2>2, <3>1, CloseEffect
    <3> QED BY <1>1, <1>4, <2>2, <3>2 DEF TypeOK
  <2> QED BY <1>3, <2>1, <2>2
<1>6. /\ \A s \in Socks : answered'[s] = IF s = n THEN 1 ELSE answered[s]
      /\ answered' \in [Socks -> Nat]
  BY <1>1, <1>3, <1>4 DEF LocalType
<1>7. /\ pc' \in [Pollers -> {"new", "poll", "event", "handler", "erase", "exit"}]
      /\ pc'["connector"] \in {"handler", "erase"}
      /\ pc'["listener"] = pc["listener"]
      /\ epoll' \in [Pollers -> SUBSET Socks]
      /\ epoll'["connector"] = epoll["connector"] \ {n}
      /\ epoll'["listener"] = epoll["listener"]
  BY <1>1, <1>3 DEF TypeOK, Pollers
<1>8. /\ \A s : Handled(s)' <=> s = n
      /\ \A q : Owned(q)' = Owned(q)
  BY <1>2, <1>3, <1>7 DEF Handled, Owned
<1>9. TypeOK' /\ LocalType'
  <2>1. \A p \in Pollers : pc'[p] \in {"event", "handler", "erase"} => cur'[p] \in Socks
    BY <1>1, <1>2, <1>3, <1>4, <1>7 DEF TypeOK, Pollers
  <2> QED BY <1>1, <1>3, <1>5, <1>6, <1>7, <2>1 DEF TypeOK, LocalType
<1>10. FreshInv'
  <2>1. \A s \in Socks : s > made => s # n
    BY <1>1, <1>4 DEF FreshInv
  <2> QED BY <1>1, <1>3, <1>5, <1>6, <2>1 DEF FreshInv
<1>11. AnsweredInv'
  BY <1>1, <1>6 DEF AnsweredInv
<1>12. UserInv'
  <2>1. \A u \in Users : usock[u] # n
    BY <1>1, <1>4 DEF RolesInv, UserInv
  <2> QED BY <1>1, <1>3, <1>5, <1>6, <2>1 DEF RolesInv, UserInv
<1>13. RecordInv' /\ ListenInv' /\ HeldInv'
  <2>1. records \subseteq Socks /\ listening \subseteq Socks
    BY <1>1 DEF TypeOK
  <2>2. RecordInv'
    BY <1>1, <1>3, <1>4, <1>5, <1>6, <1>8, <2>1 DEF RolesInv, RecordInv
  <2>3. ListenInv'
    BY <1>1, <1>3, <1>4, <1>5, <2>1 DEF RolesInv, ListenInv
  <2>4. HeldInv'
    BY <1>1, <1>5 DEF RolesInv, HeldInv
  <2> QED BY <2>2, <2>3, <2>4
<1>14. OwnedInv'
  BY <1>1, <1>3, <1>5, <1>8 DEF RolesInv, OwnedInv
<1>15. PollInv'
  <2>1. /\ epoll'["connector"] \cup batch["connector"] \subseteq records
        /\ \A s \in epoll'["connector"] \cup batch["connector"] : s # n
    BY <1>1, <1>4, <1>7 DEF PollInv
  <2>2. \A s \in Socks : held[s] # "nobody" => held'[s] # "nobody"
    BY <1>4, <1>5
  <2>3. \A p \in Pollers : pc'[p] \in {"new", "exit"} => batch[p] = {}
    BY <1>1, <1>7 DEF PollInv, Pollers
  <2>4. \A p \in Pollers : stop[p] \in {"joined", "done"} => pc'[p] \in {"new", "exit"} /\ epoll'[p] = {}
    BY <1>1, <1>3, <1>7 DEF PollInv, Pollers
  <2>5. \A s \in Socks : pc'["listener"] \in {"handler", "erase"} /\ cur["listener"] = s
          => held'[s] # "nobody"
    BY <1>1, <1>7, <2>2 DEF PollInv
  <2> QED BY <1>2, <1>3, <1>4, <1>7, <1>8, <2>1, <2>3, <2>4, <2>5 DEF PollInv
<1>16. DueInv'
  BY <1>1, <1>3, <1>5, <1>8 DEF DueInv
<1> QED BY <1>5, <1>9, <1>10, <1>11, <1>12, <1>13, <1>14, <1>15, <1>16 DEF IInv, RolesInv

\* The record of an answered connect is erased; an open descriptor is by now the
\* endpoint's.
LEMMA EraseStep ==
  ASSUME IInv, FinishConnect
  PROVE  IInv'
<1>1. TypeOK /\ LocalType /\ FilesInv /\ FreshInv /\ RolesInv /\ PollInv /\ DueInv /\ AnsweredInv
      /\ ~foreign
  BY DEF IInv
<1>2. PICK n : n = cur["connector"]
  OBVIOUS
<1>3. /\ UNCHANGED <<files, fdOf, made, upc, usock, due, listening, held, answered>>
      /\ UNCHANGED <<batch, pending, stop, epoll, foreign>>
      /\ pc["connector"] = "erase" /\ pc' = [pc EXCEPT !["connector"] = "poll"]
      /\ cur' = [cur EXCEPT !["connector"] = 0]
      /\ records' = records \ {n}
  BY <1>2 DEF FinishConnect, EraseRecord, Goto, kernel, user
<1>4. n \in records /\ n \in Socks /\ \A s : Handled(s) <=> s = n
  BY <1>1, <1>2, <1>3 DEF PollInv, Handled, TypeOK
<1>5. /\ pc' \in [Pollers -> {"new", "poll", "event", "handler", "erase", "exit"}]
      /\ cur' \in [Pollers -> Socks \cup {0}]
      /\ pc'["connector"] = "poll" /\ pc'["listener"] = pc["listener"]
      /\ cur'["listener"] = cur["listener"]
  BY <1>1, <1>3 DEF TypeOK, LocalType, Pollers
<1>6. \A s : ~Handled(s)' /\ (IsOpen(s)' <=> IsOpen(s))
  BY <1>3, <1>5 DEF Handled, IsOpen
<1>7. IsOpen(n) => held[n] = "out"
  BY <1>1, <1>4 DEF RolesInv, OwnedInv, UserInv, RecordInv
<1>8. TypeOK' /\ LocalType' /\ ~foreign'
  <2>1. \A p \in Pollers : pc'[p] \in {"event", "handler", "erase"} => cur'[p] \in Socks
    BY <1>1, <1>5 DEF TypeOK, Pollers
  <2> QED BY <1>1, <1>3, <1>5, <2>1 DEF TypeOK, LocalType
<1>9. FilesInv' /\ FreshInv' /\ AnsweredInv'
  BY <1>1, <1>3 DEF FilesInv, FreshInv, AnsweredInv
<1>10. UserInv' /\ ListenInv' /\ HeldInv'
  BY <1>1, <1>3, <1>6 DEF RolesInv, UserInv, ListenInv, HeldInv
<1>11. RecordInv'
  BY <1>1, <1>3, <1>4, <1>6 DEF RolesInv, RecordInv
<1>12. OwnedInv'
  BY <1>1, <1>3, <1>4, <1>6 DEF RolesInv, OwnedInv
<1>13. PollInv'
  <2>1. epoll["connector"] \cup batch["connector"] \subseteq records'
    BY <1>1, <1>3, <1>4 DEF PollInv
  <2>2. \A p \in Pollers : pc'[p] \in {"new", "exit"} => batch[p] = {}
    BY <1>1, <1>5 DEF PollInv, Pollers
  <2>3. \A p \in Pollers : stop[p] \in {"joined", "done"} => pc'[p] \in {"new", "exit"} /\ epoll[p] = {}
    BY <1>1, <1>3, <1>5 DEF PollInv, Pollers
  <2>4. \A s \in Socks : pc'["listener"] \in {"handler", "erase"} /\ cur'["listener"] = s
          => held[s] # "nobody"
    BY <1>1, <1>5 DEF PollInv
  <2> QED BY <1>3, <1>5, <1>6, <2>1, <2>2, <2>3, <2>4 DEF PollInv
<1>14. DueInv'
  <2> SUFFICES ASSUME NEW p \in Pollers, NEW s \in Socks, s \in due[p]
               PROVE  /\ IsOpen(s)' => s \in Owned(p)' \/ held[s] = "out"
                      /\ stop[p] # "no"
                      /\ stop[p] = "done" => s \notin Owned(p)'
    BY <1>3 DEF DueInv
  <2>1. /\ IsOpen(s) => s \in Owned(p) \/ held[s] = "out"
        /\ stop[p] # "no" /\ (stop[p] = "done" => s \notin Owned(p))
    BY <1>1 DEF DueInv
  <2>2. Owned(p)' \subseteq Owned(p) /\ (s # n /\ s \in Owned(p) => s \in Owned(p)')
    BY <1>3 DEF Owned
  <2> QED BY <1>6, <1>7, <2>1, <2>2
<1> QED BY <1>8, <1>9, <1>10, <1>11, <1>12, <1>13, <1>14 DEF IInv, RolesInv

\* accept4 makes a socket, which is the endpoint's.
LEMMA AcceptStep ==
  ASSUME IInv, OnAccept
  PROVE  IInv'
<1>1. TypeOK /\ LocalType /\ FilesInv /\ FreshInv /\ RolesInv /\ PollInv /\ DueInv /\ AnsweredInv
      /\ ~foreign
  BY DEF IInv
<1>2. PICK n : n = made + 1
  OBVIOUS
<1>3. /\ UNCHANGED <<answered, upc, usock, records, listening, due, epoll, stop, batch, foreign>>
      /\ Open(n) /\ pending > 0 /\ pending' = pending - 1
      /\ held' = [held EXCEPT ![n] = "out"]
      /\ cur' = [cur EXCEPT !["listener"] = n]
      /\ pc["listener"] = "event" /\ pc' = [pc EXCEPT !["listener"] = "handler"]
  BY <1>2 DEF OnAccept, Accepts, HandlerTakes, Goto, lib, user
<1>4. /\ made' = n /\ n \in Socks /\ FilesInv' /\ made \in Nat
      /\ files' \in [Fds -> 0 .. made'] /\ made' \in 0 .. MaxSockets
      /\ fdOf' \in [Socks -> Fds \cup {0}]
      /\ \A x \in Socks : x # n => fdOf'[x] = fdOf[x]
      /\ IsOpen(n)'
      /\ \A x \in Socks : x # n => (IsOpen(x)' <=> IsOpen(x))
  BY <1>1, <1>2, <1>3, OpenEffect DEF TypeOK
<1>5. /\ n \notin records \cup listening
      /\ \A p \in Pollers : n \notin due[p]
      /\ \A v \in Users : usock[v] # n
  <2>1. n > made
    BY <1>2, <1>4
  <2> QED BY <1>1, <1>4, <2>1 DEF FreshInv
<1>6. /\ held' \in [Socks -> {"nobody", "out", "closed"}]
      /\ \A s \in Socks : held'[s] = IF s = n THEN "out" ELSE held[s]
  BY <1>1, <1>3, <1>4 DEF TypeOK
<1>7. /\ pc' \in [Pollers -> {"new", "poll", "event", "handler", "erase", "exit"}]
      /\ cur' \in [Pollers -> Socks \cup {0}]
      /\ pc'["listener"] = "handler" /\ pc'["connector"] = pc["connector"]
      /\ cur'["listener"] = n /\ cur'["connector"] = cur["connector"]
  BY <1>1, <1>3, <1>4 DEF TypeOK, LocalType, Pollers
<1>8. /\ \A s : Handled(s)' <=> Handled(s)
      /\ \A q : Owned(q)' = Owned(q)
  BY <1>3, <1>7 DEF Handled, Owned
<1>9. TypeOK' /\ LocalType' /\ ~foreign'
  <2>1. \A p \in Pollers : pc'[p] \in {"event", "handler", "erase"} => cur'[p] \in Socks
    BY <1>1, <1>4, <1>7 DEF TypeOK, Pollers
  <2>2. pending' \in 0 .. MaxPending
    BY <1>1, <1>3 DEF TypeOK, MaxPending
  <2> QED BY <1>1, <1>3, <1>4, <1>6, <1>7, <2>1, <2>2 DEF TypeOK, LocalType
<1>10. FreshInv'
  <2>1. \A s \in Socks : s > made' => s > made /\ s # n
    BY <1>2, <1>4 DEF Socks
  <2> QED BY <1>1, <1>3, <1>4, <1>6, <2>1 DEF FreshInv
<1>11. AnsweredInv'
  BY <1>1, <1>3 DEF AnsweredInv
<1>12. UserInv'
  BY <1>1, <1>3, <1>4, <1>5, <1>6 DEF RolesInv, UserInv
<1>13. RecordInv' /\ ListenInv' /\ HeldInv'
  <2>1. \A s \in records \cup listening : s \in Socks /\ s # n
    BY <1>1, <1>5 DEF TypeOK
  <2>2. RecordInv'
    BY <1>1, <1>3, <1>4, <1>6, <1>8, <2>1 DEF RolesInv, RecordInv
  <2>3. ListenInv'
    BY <1>1, <1>3, <1>4, <1>6, <2>1 DEF RolesInv, ListenInv
  <2>4. HeldInv'
    BY <1>1, <1>4, <1>6 DEF RolesInv, HeldInv
  <2> QED BY <2>2, <2>3, <2>4
<1>14. OwnedInv'
  BY <1>1, <1>3, <1>4, <1>6, <1>8 DEF RolesInv, OwnedInv
<1>15. PollInv'
  <2>1. \A s \in Socks : pc'["listener"] \in {"handler", "erase"} /\ cur'["listener"] = s
          => held'[s] # "nobody"
    BY <1>6, <1>7
  <2>2. \A p \in Pollers : pc'[p] \in {"new", "exit"} => batch[p] = {}
    BY <1>1, <1>7 DEF PollInv, Pollers
  <2>3. \A p \in Pollers : stop[p] \in {"joined", "done"} => pc'[p] \in {"new", "exit"} /\ epoll[p] = {}
    BY <1>1, <1>3, <1>7 DEF PollInv, Pollers
  <2> QED BY <1>1, <1>3, <1>7, <1>8, <2>1, <2>2, <2>3 DEF PollInv
<1>16. DueInv'
  BY <1>1, <1>3, <1>4, <1>5, <1>6, <1>8 DEF DueInv
<1> QED BY <1>4, <1>9, <1>10, <1>11, <1>12, <1>13, <1>14, <1>15, <1>16 DEF IInv, RolesInv

\* Every reachable state satisfies the invariant.
LEMMA Inductive == Spec => []IInv
<1>1. IInv /\ [Next]_vars => IInv'
  <2> SUFFICES ASSUME IInv, [Next]_vars PROVE IInv'
    OBVIOUS
  <2>1. ASSUME NEW u \in Users,
               Connect(u) \/ ConnectFails(u) \/ ConnectRecords(u) \/ AddListeningPort(u) \/ ListenRecords(u)
        PROVE  IInv'
    BY <2>1, MakeStep, FailStep, RecordStep
  <2>2. ASSUME NEW p \in Pollers,
               Start(p) \/ BeginShutdown(p) \/ JoinPollThread(p) \/ CloseAll(p) \/ PollStep(p)
        PROVE  IInv'
    BY <2>2, PollingStep, BeginStep, OutsideStep, CloseAllStep
  <2>3. ASSUME NEW s \in Socks, EndpointClose(s) \/ ConnectResult(s) PROVE IInv'
    BY <2>3, EndpointStep, OutsideStep
  <2>4. CASE PeerConnects \/ PeerWithdraws \/ UNCHANGED vars
    BY <2>4, OutsideStep
  <2>5. CASE ConnectorStep
    BY <2>5, AnswerStep, EraseStep, PollingStep DEF ConnectorStep, Pollers
  <2>6. CASE ListenerStep
    BY <2>6, AcceptStep, PollingStep DEF ListenerStep, Pollers
  <2> QED BY <2>1, <2>2, <2>3, <2>4, <2>5, <2>6 DEF Next
<1> QED BY <1>1, InitInv, PTL DEF Spec
-----------------------------------------------------------------------------
(* The theorems.                                                            *)

\* Each of the disjuncts of OwnedInv excludes the others.
LEMMA SoleOwner == ASSUME IInv PROVE OneOwner
<1>1. TypeOK /\ LocalType /\ RolesInv /\ PollInv
  BY DEF IInv
<1> SUFFICES ASSUME NEW s \in Socks, IsOpen(s)
             PROVE  Cardinality({u \in Users : usock[u] = s}
                      \cup {p \in Pollers : s \in Owned(p) /\ ~(pc[p] \in {"handler", "erase"}
                                                               /\ cur[p] = s)}
                      \cup ({held[s]} \cap {"out"})) = 1
  BY DEF OneOwner
<1> DEFINE U == {u \in Users : usock[u] = s}
           P == {p \in Pollers : s \in Owned(p) /\ ~(pc[p] \in {"handler", "erase"} /\ cur[p] = s)}
           H == {held[s]} \cap {"out"}
<1>2. \A p \in Pollers : p \in P <=> s \in Owned(p) /\ ~(pc[p] \in {"handler", "erase"} /\ cur[p] = s)
  OBVIOUS
<1>3. "connector" \in P <=> s \in records /\ ~Handled(s)
  BY <1>2 DEF Owned, Handled, Pollers
<1>4. "listener" \in P <=> s \in listening
  BY <1>1, <1>2 DEF Owned, Pollers, PollInv, RolesInv, ListenInv
<1>5. P \subseteq {"connector", "listener"}
  BY DEF Pollers
<1>6. \E o : U \cup P \cup H = {o}
  <2>1. CASE \E u \in Users : usock[u] = s
    <3>1. PICK u \in Users : usock[u] = s
      BY <2>1
    <3>2. /\ held[s] = "nobody" /\ s \notin records \cup listening
          /\ \A v \in Users : usock[v] = s => v = u
      BY <1>1, <3>1 DEF RolesInv, UserInv
    <3>3. U = {u} /\ P = {} /\ H = {}
      BY <1>3, <1>4, <1>5, <3>1, <3>2
    <3> QED BY <3>3
  <2>2. CASE ~\E u \in Users : usock[u] = s
    <3>1. U = {}
      BY <2>2
    <3>2. CASE s \in records /\ ~Handled(s)
      <4>1. held[s] = "nobody" /\ s \notin listening
        BY <1>1, <3>2 DEF RolesInv, RecordInv
      <4>2. P = {"connector"} /\ H = {}
        BY <1>3, <1>4, <1>5, <3>2, <4>1
      <4> QED BY <3>1, <4>2
    <3>3. CASE s \in listening
      <4>1. held[s] = "nobody" /\ ~(s \in records /\ ~Handled(s))
        BY <1>1, <3>3 DEF RolesInv, RecordInv, ListenInv
      <4>2. P = {"listener"} /\ H = {}
        BY <1>3, <1>4, <1>5, <3>3, <4>1
      <4> QED BY <3>1, <4>2
    <3>4. CASE ~(s \in records /\ ~Handled(s)) /\ s \notin listening
      <4>1. held[s] = "out"
        BY <1>1, <2>2, <3>4 DEF RolesInv, OwnedInv
      <4>2. P = {} /\ H = {"out"}
        BY <1>3, <1>4, <1>5, <3>4, <4>1
      <4> QED BY <3>1, <4>2
    <3> QED BY <3>2, <3>3, <3>4
  <2> QED BY <2>1, <2>2
<1> HIDE DEF U, P, H
<1>7. PICK o : U \cup P \cup H = {o}
  BY <1>6
<1>8. Cardinality(U \cup P \cup H) = 1
  BY <1>7, FS_Singleton
<1> QED BY <1>8 DEF U, P, H

\* No close hits a descriptor that was closed before and perhaps given to another
\* socket, and each open descriptor has exactly one part that will close it:
\* tcp_connector.cc, tcp_listener.cc and the endpoints, for any number of threads,
\* sockets and descriptors.
THEOREM DescriptorsStayOwned == Spec => []DescriptorsOwned
<1>1. IInv => DescriptorsOwned
  BY SoleOwner DEF IInv, DescriptorsOwned, OwnSocketsOnly
<1> QED BY <1>1, Inductive, PTL

\* The connector calls OnConnect or OnErrorOccurred at most once for a connect: the
\* safety half of ConnectAnsweredOnce.
THEOREM NeverAnsweredTwice == Spec => []AnsweredOnce
<1>1. IInv => AnsweredOnce
  BY DEF IInv, AnsweredInv, AnsweredOnce
<1> QED BY <1>1, Inductive, PTL

\* After Shutdown of the connector or the listener, the sockets it had are closed
\* or the handler's, and its thread is over: the safety half of ShutdownFinal.
THEOREM ShutdownLeavesNothing == Spec => [](ShutdownReleases /\ QuietAfterShutdown)
<1>1. IInv => ShutdownReleases
  BY DEF IInv, DueInv, LocalType, ShutdownReleases
<1>2. IInv => QuietAfterShutdown
  BY DEF IInv, PollInv, QuietAfterShutdown
<1> QED BY <1>1, <1>2, Inductive, PTL
=============================================================================
