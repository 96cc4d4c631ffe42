------------------------- MODULE MessageQueueProofs -------------------------
(***************************************************************************)
(* Proofs about the message queue of the container, for every number of    *)
(* posting and message-queue threads and every number of messages.         *)
(***************************************************************************)
EXTENDS MessageQueue, FiniteSetTheorems, TLAPS

\* The labels at which a message-queue thread owns _mutex.
Inside == {"check", "wait", "pop", "sub", "dispatch"}

\* The labels at which it has a message in hand.
InHand == {"sub", "dispatch"}

Uncounted == {t \in Threads : ppc[t] \in {"link", "count"}}
Popped == {c \in Consumers : cpc[c] = "sub"}

\* _mutex is held exactly by the thread that is inside.
MutexInv == \A c \in Consumers : cpc[c] \in Inside <=> mutex = c

\* A message-queue thread posts only from within a handler, and what a thread
\* posts is a message.
PostInv ==
    /\ \A c \in Consumers : ppc[c] # "idle" => cpc[c] = "dispatch"
    /\ \A t \in Threads : ppc[t] # "idle" => pmsg[t] \in Msgs

\* A thread that has seen a positive _count finds it positive until it
\* decrements it: only the holder of _mutex does.
SeenInv == \A c \in Consumers : cpc[c] \in {"pop", "sub"} => count >= 1

\* The queue holds the messages posted last, in order.
QueueInv == \A k \in 1 .. Len(queue) : queue[k] = posted - Len(queue) + k

\* Every message is handled, in hand or in the queue, until Shutdown deletes
\* what is left.
OrderInv ==
    /\ \A c \in Consumers :
         cpc[c] \in InHand => msg[c] = handled + 1 /\ handled + 1 + Len(queue) = posted
    /\ phase \notin {"drain", "done"} /\ (\A c \in Consumers : cpc[c] \notin InHand)
         => handled + Len(queue) = posted

\* What Shutdown has waited for when it goes on.
JoinInv ==
    /\ phase \in {"joinmq", "drain", "done"} => \A p \in Producers : ppc[p] = "idle"
    /\ phase \in {"drain", "done"} => \A c \in Consumers : cpc[c] = "exit"
    /\ phase = "done" => queue = <<>>

Control == TypeOK /\ MutexInv /\ PostInv /\ SeenInv /\ QueueInv /\ OrderInv /\ JoinInv

IInv == Control /\ CountExact

-----------------------------------------------------------------------------
\* The empty queue satisfies the invariant.
LEMMA InitIInv == Init => IInv
<1> SUFFICES ASSUME Init PROVE IInv
  OBVIOUS
<1> USE MaxMsgsAssumption, ThreadsAssumption
<1>1. TypeOK
  <2>1. queue \in Seq(Msgs)
    BY DEF Init
  <2>2. ppc \in [Threads -> PostPCs] /\ cpc \in [Consumers -> LoopPCs]
    BY DEF Init, PostPCs, LoopPCs
  <2>3. pmsg \in [Threads -> Msgs \cup {0}] /\ msg \in [Consumers -> Msgs \cup {0}]
    BY DEF Init
  <2>4. 0 \in 0 .. MaxMsgs
    OBVIOUS
  <2>5. phase \in {"run", "join", "joinmq", "drain", "done"}
    BY DEF Init
  <2> QED BY <2>1, <2>2, <2>3, <2>4, <2>5 DEF Init, TypeOK
<1>2. MutexInv /\ PostInv /\ SeenInv /\ QueueInv /\ OrderInv /\ JoinInv
  BY DEF Init, MutexInv, PostInv, SeenInv, QueueInv, OrderInv, JoinInv, Inside, InHand,
         Threads
<1>3. CountExact
  <2>1. /\ {t \in Threads : ppc[t] \in {"link", "count"}} = {}
        /\ {c \in Consumers : cpc[c] = "sub"} = {}
    BY DEF Init
  <2> QED BY <2>1, FS_EmptySet DEF Init, CountExact
<1> QED BY <1>1, <1>2, <1>3 DEF IInv, Control

-----------------------------------------------------------------------------
(* The steps of posting.                                                    *)

\* Post pushes the next message behind the others.
LEMMA PostControl ==
  ASSUME Control, NEW t \in Threads, Post(t)
  PROVE  Control'
<1> USE MaxMsgsAssumption, ThreadsAssumption
<1>1. /\ queue \in Seq(Msgs) /\ posted \in 0 .. MaxMsgs /\ posted' = posted + 1
      /\ posted' \in Msgs /\ queue' = Append(queue, posted')
      /\ Len(queue) \in Nat
  BY DEF Control, TypeOK, Post, Msgs
<1>2. /\ queue' \in Seq(Msgs) /\ Len(queue') = Len(queue) + 1
      /\ \A k \in 1 .. Len(queue) : queue'[k] = queue[k]
      /\ queue'[Len(queue) + 1] = posted'
  BY <1>1
<1>3. TypeOK'
  BY <1>1, <1>2 DEF Control, TypeOK, Post, PostPCs, Msgs
<1>4. MutexInv' /\ SeenInv'
  BY DEF Control, MutexInv, SeenInv, Post
<1>5. PostInv'
  BY <1>1 DEF Control, TypeOK, PostInv, Post, MayPost, Threads
<1>6. QueueInv'
  BY <1>1, <1>2 DEF Control, QueueInv
<1>7. OrderInv'
  <2>1. UNCHANGED <<cpc, msg, phase, handled>> /\ handled \in Nat
    BY DEF Control, TypeOK, Post
  <2> QED BY <1>1, <1>2, <2>1 DEF Control, OrderInv
<1>8. JoinInv'
  BY DEF Control, TypeOK, JoinInv, Post, MayPost, Threads
<1> QED BY <1>3, <1>4, <1>5, <1>6, <1>7, <1>8 DEF Control

\* Linking, counting and signalling leave the order of the queue alone.
LEMMA PostStepControl ==
  ASSUME Control, NEW t \in Threads, PostStep(t)
  PROVE  Control'
<1> USE MaxMsgsAssumption, ThreadsAssumption
<1>1. /\ UNCHANGED <<queue, posted, mutex, msg, shutdown, phase, handled>>
      /\ \A c \in Consumers : cpc'[c] = cpc[c] \/ (cpc[c] = "waiting" /\ cpc'[c] = "relock")
      /\ ppc[t] # "idle" /\ \A u \in Threads : u # t => ppc'[u] = ppc[u] /\ pmsg'[u] = pmsg[u]
      /\ ppc'[t] # "idle" => pmsg'[t] = pmsg[t]
      /\ count' \in {count, count + 1}
  BY DEF PostStep, PostLink, PostCount, PostSignal, Waiting, Control, TypeOK
<1>2. TypeOK'
  <2>1. CASE PostLink(t)
    BY <2>1 DEF PostLink, Control, PostInv, TypeOK, PostPCs
  <2>2. CASE PostCount(t)
    BY <2>2 DEF PostCount, Control, TypeOK, PostPCs
  <2>3. CASE PostSignal(t)
    <3>1. /\ queue' = queue /\ linked' = linked /\ posted' = posted /\ count' = count /\ mutex' = mutex
          /\ msg' = msg /\ shutdown' = shutdown /\ phase' = phase /\ handled' = handled
      BY <2>3 DEF PostSignal
    <3>2. cpc' \in [Consumers -> LoopPCs]
      BY <2>3 DEF PostSignal, Waiting, Control, TypeOK, LoopPCs
    <3>3. ppc' \in [Threads -> PostPCs] /\ pmsg' \in [Threads -> Msgs \cup {0}]
      BY <2>3 DEF PostSignal, Control, TypeOK, PostPCs
    <3> QED BY <3>1, <3>2, <3>3 DEF Control, TypeOK
  <2> QED BY <2>1, <2>2, <2>3 DEF PostStep
<1>3. MutexInv'
  BY <1>1 DEF Control, MutexInv, Inside
<1>4. PostInv'
  BY <1>1 DEF Control, PostInv, Threads
<1>5. SeenInv' /\ QueueInv'
  <2>1. count \in Nat
    BY DEF Control, TypeOK
  <2>2. SeenInv'
    BY <1>1, <2>1 DEF Control, SeenInv
  <2>3. QueueInv'
    BY <1>1 DEF Control, QueueInv
  <2> QED BY <2>2, <2>3
<1>6. OrderInv'
  BY <1>1 DEF Control, OrderInv, InHand
<1>7. JoinInv'
  <2>1. phase \in {"joinmq", "drain", "done"} => t \notin Producers
    BY <1>1 DEF Control, JoinInv
  <2> QED BY <1>1, <2>1 DEF Control, JoinInv, Threads
<1> QED BY <1>2, <1>3, <1>4, <1>5, <1>6, <1>7 DEF Control

-----------------------------------------------------------------------------
(* The steps of a message-queue thread and of Shutdown.                     *)

\* Steps that move a thread and its mutex and leave the messages alone.
LEMMA LoopControl ==
  ASSUME Control, NEW c \in Consumers,
         \/ Top(c) \/ Lock(c) \/ Check(c) \/ Wait(c) \/ Relock(c) \/ WakeUp(c) \/ PopFails(c)
  PROVE  Control'
<1> USE MaxMsgsAssumption, ThreadsAssumption
<1>1. /\ UNCHANGED <<queue, linked, posted, count, ppc, pmsg, msg, shutdown, phase, handled>>
      /\ cpc \in [Consumers -> LoopPCs] /\ mutex \in Consumers \cup {NULL}
      /\ NULL \notin Consumers
      /\ cpc[c] \notin InHand \cup {"exit"}
      /\ cpc' = [cpc EXCEPT ![c] = cpc'[c]]
      /\ cpc'[c] \in LoopPCs \ InHand
      /\ cpc'[c] = "pop" => count # 0
  BY DEF Top, Lock, Check, Wait, Relock, WakeUp, PopFails, Goto, posting, Control, TypeOK,
         InHand, LoopPCs, Threads
<1>2. /\ mutex' \in Consumers \cup {NULL}
      /\ mutex' = mutex \/ (mutex = NULL /\ mutex' = c) \/ (mutex = c /\ mutex' = NULL)
      /\ cpc'[c] \in Inside <=> mutex' = c
  BY <1>1 DEF Top, Lock, Check, Wait, Relock, WakeUp, PopFails, Goto, Control, MutexInv, Inside
<1>3. \A d \in Consumers : d # c => cpc'[d] = cpc[d]
  BY <1>1
<1>4. TypeOK'
  BY <1>1, <1>2 DEF Control, TypeOK
<1>5. MutexInv'
  BY <1>1, <1>2, <1>3 DEF Control, MutexInv
<1>6. PostInv'
  BY <1>1, <1>3 DEF Control, PostInv, InHand
<1>7. SeenInv'
  BY <1>1, <1>3 DEF Control, TypeOK, SeenInv, InHand
<1>8. QueueInv'
  BY <1>1 DEF Control, QueueInv
<1>9. OrderInv'
  BY <1>1, <1>3 DEF Control, OrderInv
<1>10. JoinInv'
  BY <1>1, <1>3 DEF Control, JoinInv
<1> QED BY <1>4, <1>5, <1>6, <1>7, <1>8, <1>9, <1>10 DEF Control

\* The thread that holds _mutex takes the message at the head and handles it.
LEMMA TakeControl ==
  ASSUME Control, CountExact, NEW c \in Consumers, Pop(c) \/ Dispatch(c) \/ Return(c)
  PROVE  Control'
<1> USE MaxMsgsAssumption, ThreadsAssumption
<1>1. /\ cpc \in [Consumers -> LoopPCs] /\ mutex = c /\ c # NULL
      /\ cpc[c] \in {"pop", "sub", "dispatch"}
      /\ cpc' = [cpc EXCEPT ![c] = cpc'[c]]
      /\ UNCHANGED <<posted, ppc, pmsg, shutdown, phase>>
      /\ phase \notin {"drain", "done"}
  BY DEF Pop, Dispatch, Return, Goto, posting, Control, TypeOK, MutexInv, Inside, JoinInv,
         Threads
<1>2. /\ \A d \in Consumers : d # c => cpc'[d] = cpc[d] /\ cpc[d] \notin Inside
      /\ Len(queue) \in Nat /\ posted \in 0 .. MaxMsgs /\ handled \in Nat /\ count \in Nat
  BY <1>1 DEF Control, TypeOK, MutexInv
<1>3. CASE Pop(c)
  <2>1. /\ queue \in Seq(Msgs) /\ queue # <<>> /\ queue' = Tail(queue) /\ cpc'[c] = "sub"
        /\ UNCHANGED <<count, mutex, handled>>
        /\ msg' = [msg EXCEPT ![c] = queue[1]]
        /\ queue[1] \in Msgs
    BY <1>3, <1>1 DEF Pop, CanPop, Goto, Control, TypeOK
  <2>2. /\ queue' \in Seq(Msgs) /\ Len(queue') = Len(queue) - 1 /\ Len(queue) >= 1
        /\ \A k \in 1 .. Len(queue') : queue'[k] = queue[k + 1] /\ k + 1 \in 1 .. Len(queue)
    BY <2>1, <1>2
  <2>3. handled + Len(queue) = posted
    BY <1>1, <1>2, <1>3 DEF Pop, Control, OrderInv, InHand, Inside
  <2>4. queue[1] = handled + 1
    BY <1>2, <2>2, <2>3 DEF Control, QueueInv
  <2>5. TypeOK'
    BY <1>1, <1>3, <2>1, <2>2 DEF Pop, Control, TypeOK, LoopPCs
  <2>6. MutexInv' /\ PostInv' /\ SeenInv' /\ JoinInv'
    <3>1. cpc[c] = "pop"
      BY <1>3 DEF Pop
    <3>2. MutexInv' /\ JoinInv'
      BY <1>1, <1>2, <2>1, <3>1 DEF Control, MutexInv, JoinInv, Inside
    <3>3. PostInv' /\ SeenInv'
      BY <1>1, <1>2, <2>1, <3>1 DEF Control, PostInv, SeenInv, Inside
    <3> QED BY <3>2, <3>3
  <2>7. QueueInv'
    <3> SUFFICES ASSUME NEW k \in 1 .. Len(queue')
                 PROVE  queue'[k] = posted' - Len(queue') + k
      BY DEF QueueInv
    <3>1. queue'[k] = posted - Len(queue) + (k + 1)
      BY <2>2 DEF Control, QueueInv
    <3> QED BY <1>1, <1>2, <2>2, <3>1
  <2>8. OrderInv'
    <3>1. msg'[c] = handled' + 1 /\ handled' + 1 + Len(queue') = posted'
      <4>1. msg'[c] = queue[1]
        BY <2>1 DEF Control, TypeOK
      <4>2. handled' = handled /\ posted' = posted /\ Len(queue') = Len(queue) - 1
        BY <1>1, <2>1, <2>2
      <4> QED BY <1>2, <2>3, <2>4, <4>1, <4>2
    <3>2. \A d \in Consumers : d # c => cpc'[d] \notin InHand
      BY <1>2 DEF Inside, InHand
    <3>3. cpc'[c] \in InHand
      BY <2>1 DEF InHand
    <3> QED BY <3>1, <3>2, <3>3 DEF OrderInv
  <2> QED BY <2>5, <2>6, <2>7, <2>8 DEF Control
<1>4. CASE Dispatch(c)
  <2>1. /\ UNCHANGED <<queue, linked, mutex, msg, handled>> /\ cpc[c] = "sub"
        /\ cpc'[c] = "dispatch" /\ count' = count - 1 /\ count >= 1
    BY <1>1, <1>4 DEF Dispatch, Goto, Control, SeenInv
  <2>2. TypeOK'
    BY <1>1, <1>2, <2>1 DEF Control, TypeOK, LoopPCs
  <2>3. MutexInv' /\ PostInv' /\ SeenInv' /\ JoinInv' /\ QueueInv'
    BY <1>1, <1>2, <2>1 DEF Control, MutexInv, PostInv, SeenInv, JoinInv, QueueInv, Inside
  <2>4. OrderInv'
    BY <1>1, <1>2, <2>1 DEF Control, OrderInv, InHand
  <2> QED BY <2>2, <2>3, <2>4 DEF Control
<1>5. CASE Return(c)
  <2>1. /\ UNCHANGED <<queue, linked, count>> /\ cpc[c] = "dispatch" /\ ppc[c] = "idle"
        /\ cpc'[c] = "top" /\ handled' = handled + 1 /\ mutex' = NULL
        /\ msg' = [msg EXCEPT ![c] = 0]
    BY <1>1, <1>5 DEF Return, Goto
  <2>2. handled + 1 + Len(queue) = posted
    BY <2>1 DEF Control, OrderInv, InHand
  <2>3. TypeOK'
    BY <1>1, <1>2, <2>1, <2>2 DEF Control, TypeOK, LoopPCs
  <2>4. MutexInv' /\ PostInv' /\ SeenInv' /\ JoinInv' /\ QueueInv'
    BY <1>1, <1>2, <2>1 DEF Control, MutexInv, PostInv, SeenInv, JoinInv, QueueInv, Inside,
       Threads
  <2>5. OrderInv'
    BY <1>1, <1>2, <2>1, <2>2 DEF OrderInv, InHand, Inside
  <2> QED BY <2>3, <2>4, <2>5 DEF Control
<1> QED BY <1>3, <1>4, <1>5

\* Shutdown joins the threads and drains what they left.
LEMMA ShutdownControl ==
  ASSUME Control, CountExact, BeginShutdown \/ ShutdownStep
  PROVE  Control'
<1> USE MaxMsgsAssumption, ThreadsAssumption
<1>1. CASE BeginShutdown \/ JoinMessageQueueThreads \/ FinishShutdown
  <2>1. /\ UNCHANGED <<queue, linked, posted, count, mutex, ppc, pmsg, cpc, msg, handled>>
        /\ phase' \in {"join", "drain", "done"} /\ shutdown' \in BOOLEAN
        /\ phase' = "join" => phase = "run"
        /\ phase' = "drain" => phase = "joinmq" /\ \A c \in Consumers : cpc[c] = "exit"
        /\ phase' = "done" => phase = "drain" /\ queue = <<>>
    BY <1>1 DEF BeginShutdown, JoinMessageQueueThreads, FinishShutdown, posting, Control, TypeOK
  <2>2. TypeOK'
    BY <2>1 DEF Control, TypeOK
  <2>3. MutexInv' /\ PostInv' /\ SeenInv' /\ QueueInv'
    BY <2>1 DEF Control, MutexInv, PostInv, SeenInv, QueueInv
  <2>4. OrderInv' /\ JoinInv'
    BY <2>1 DEF Control, OrderInv, JoinInv
  <2> QED BY <2>2, <2>3, <2>4 DEF Control
<1>2. CASE Broadcast
  <2>1. /\ UNCHANGED <<queue, linked, posted, count, mutex, ppc, pmsg, msg, shutdown, handled>>
        /\ phase = "join" /\ phase' = "joinmq" /\ \A p \in Producers : ppc[p] = "idle"
        /\ \A c \in Consumers : cpc'[c] = cpc[c] \/ (cpc[c] = "waiting" /\ cpc'[c] = "relock")
        /\ cpc' \in [Consumers -> LoopPCs]
    BY <1>2 DEF Broadcast, Joined, Waiting, posting, Control, TypeOK, LoopPCs
  <2>2. TypeOK'
    BY <2>1 DEF Control, TypeOK
  <2>3. MutexInv' /\ PostInv'
    BY <2>1 DEF Control, MutexInv, PostInv, Inside
  <2>4. SeenInv' /\ QueueInv' /\ JoinInv'
    BY <2>1 DEF Control, SeenInv, QueueInv, JoinInv
  <2>5. OrderInv'
    BY <2>1 DEF Control, OrderInv, InHand
  <2> QED BY <2>2, <2>3, <2>4, <2>5 DEF Control
<1>3. CASE Drain
  <2>1. /\ UNCHANGED <<posted, mutex, ppc, pmsg, cpc, msg, shutdown, phase, handled>>
        /\ phase = "drain" /\ count' = count - 1 /\ linked' \in SUBSET Msgs
        /\ queue \in Seq(Msgs) /\ queue # <<>> /\ queue' = Tail(queue)
        /\ Len(queue) \in Nat /\ posted \in Nat /\ count \in Nat
    BY <1>3 DEF Drain, CanPop, posting, Control, TypeOK
  <2>2. \A c \in Consumers : cpc[c] = "exit" /\ ppc[c] = "idle"
    BY <2>1 DEF Control, JoinInv, PostInv
  <2>3. \A t \in Threads : ppc[t] = "idle"
    BY <2>1, <2>2 DEF Control, JoinInv, Threads
  <2>4. count = Len(queue)
    <3>1. /\ {t \in Threads : ppc[t] \in {"link", "count"}} = {}
          /\ {c \in Consumers : cpc[c] = "sub"} = {}
      BY <2>2, <2>3
    <3>2. count + 0 = Len(queue) + 0
      BY <3>1, FS_EmptySet DEF CountExact
    <3> QED BY <2>1, <3>2
  <2>5. /\ queue' \in Seq(Msgs) /\ Len(queue') = Len(queue) - 1 /\ Len(queue) >= 1
        /\ \A k \in 1 .. Len(queue') : queue'[k] = queue[k + 1] /\ k + 1 \in 1 .. Len(queue)
    BY <2>1
  <2>6. TypeOK'
    <3>1. count' \in Nat
      BY <2>1, <2>4, <2>5
    <3> QED BY <2>1, <2>5, <3>1 DEF Control, TypeOK
  <2>7. MutexInv' /\ PostInv' /\ SeenInv'
    BY <2>1, <2>2 DEF Control, MutexInv, PostInv, SeenInv
  <2>8. OrderInv' /\ JoinInv'
    BY <2>1, <2>2 DEF Control, OrderInv, JoinInv, InHand
  <2>9. QueueInv'
    <3> SUFFICES ASSUME NEW k \in 1 .. Len(queue')
                 PROVE  queue'[k] = posted' - Len(queue') + k
      BY DEF QueueInv
    <3>1. queue'[k] = posted - Len(queue) + (k + 1)
      BY <2>5 DEF Control, QueueInv
    <3> QED BY <2>1, <2>5, <3>1
  <2> QED BY <2>6, <2>7, <2>8, <2>9 DEF Control
<1> QED BY <1>1, <1>2, <1>3 DEF ShutdownStep

-----------------------------------------------------------------------------
(* _count.                                                                  *)

\* Both sets are finite, and Cardinality is a number.
LEMMA Finite ==
  ASSUME TypeOK
  PROVE  /\ IsFiniteSet(Uncounted) /\ Cardinality(Uncounted) \in Nat
         /\ IsFiniteSet(Popped) /\ Cardinality(Popped) \in Nat
<1>1. Uncounted \in SUBSET Threads /\ Popped \in SUBSET Threads
  BY DEF Uncounted, Popped, Threads
<1>2. IsFiniteSet(Uncounted) /\ IsFiniteSet(Popped)
  BY <1>1, FS_Subset, ThreadsAssumption
<1> QED BY <1>2, FS_CardinalityType

\* Every step keeps _count in balance with the queue, the pushes not yet counted
\* and the message not yet counted off.
LEMMA CountStep ==
  ASSUME Control, CountExact, [Next]_vars
  PROVE  CountExact'
<1> USE MaxMsgsAssumption
<1> DEFINE Balance == count + Cardinality(Uncounted) = Len(queue) + Cardinality(Popped)
<1>1. Balance /\ (Balance' => CountExact')
  BY DEF CountExact, Uncounted, Popped
<1>2. /\ IsFiniteSet(Uncounted) /\ Cardinality(Uncounted) \in Nat
      /\ IsFiniteSet(Popped) /\ Cardinality(Popped) \in Nat
  BY Finite DEF Control
<1>3. /\ queue \in Seq(Msgs) /\ Len(queue) \in Nat /\ count \in Nat
      /\ ppc \in [Threads -> PostPCs] /\ cpc \in [Consumers -> LoopPCs]
  BY DEF Control, TypeOK
<1> SUFFICES Balance'
  BY <1>1
<1>4. ASSUME NEW t \in Threads, Post(t) PROVE Balance'
  <2>1. Uncounted' = Uncounted \cup {t} /\ t \notin Uncounted /\ Popped' = Popped
    BY <1>3, <1>4 DEF Post, Uncounted, Popped
  <2>2. Len(queue') = Len(queue) + 1 /\ count' = count
    BY <1>3, <1>4 DEF Post
  <2>3. Cardinality(Uncounted') = Cardinality(Uncounted) + 1
    BY <1>2, <2>1, FS_AddElement
  <2> QED BY <1>1, <1>2, <1>3, <2>1, <2>2, <2>3
<1>5. ASSUME NEW t \in Threads, PostCount(t) PROVE Balance'
  <2>1. Uncounted' = Uncounted \ {t} /\ t \in Uncounted /\ Popped' = Popped
    BY <1>3, <1>5 DEF PostCount, Uncounted, Popped
  <2>2. Len(queue') = Len(queue) /\ count' = count + 1
    BY <1>5 DEF PostCount
  <2>3. Cardinality(Uncounted') = Cardinality(Uncounted) - 1
    BY <1>2, <2>1, FS_RemoveElement
  <2> QED BY <1>1, <1>2, <1>3, <2>1, <2>2, <2>3
<1>6. ASSUME NEW t \in Threads, PostLink(t) \/ PostSignal(t) PROVE Balance'
  <2>1. Uncounted' = Uncounted
    BY <1>3, <1>6 DEF PostLink, PostSignal, Uncounted
  <2>2. Popped' = Popped
    BY <1>3, <1>6 DEF PostLink, PostSignal, Popped, Waiting
  <2>3. Len(queue') = Len(queue) /\ count' = count
    BY <1>6 DEF PostLink, PostSignal
  <2> QED BY <1>1, <2>1, <2>2, <2>3
<1>7. ASSUME NEW c \in Consumers, Pop(c) PROVE Balance'
  <2>1. Popped' = Popped \cup {c} /\ c \notin Popped /\ Uncounted' = Uncounted
    BY <1>3, <1>7 DEF Pop, Goto, posting, Uncounted, Popped
  <2>2. Len(queue') = Len(queue) - 1 /\ count' = count
    BY <1>3, <1>7 DEF Pop, CanPop
  <2>3. Cardinality(Popped') = Cardinality(Popped) + 1
    BY <1>2, <2>1, FS_AddElement
  <2> QED BY <1>1, <1>2, <1>3, <2>1, <2>2, <2>3
<1>8. ASSUME NEW c \in Consumers, Dispatch(c) PROVE Balance'
  <2>1. Popped' = Popped \ {c} /\ c \in Popped /\ Uncounted' = Uncounted
    BY <1>3, <1>8 DEF Dispatch, Goto, posting, Uncounted, Popped
  <2>2. Len(queue') = Len(queue) /\ count' = count - 1
    BY <1>8 DEF Dispatch
  <2>3. Cardinality(Popped') = Cardinality(Popped) - 1
    BY <1>2, <2>1, FS_RemoveElement
  <2> QED BY <1>1, <1>2, <1>3, <2>1, <2>2, <2>3
<1>9. ASSUME NEW c \in Consumers,
             \/ Top(c) \/ Lock(c) \/ Check(c) \/ Wait(c) \/ Relock(c) \/ WakeUp(c)
             \/ PopFails(c) \/ Return(c)
      PROVE  Balance'
  <2>1. Uncounted' = Uncounted
    BY <1>9 DEF Top, Lock, Check, Wait, Relock, WakeUp, PopFails, Return, posting, Uncounted
  <2>2. Popped' = Popped
    BY <1>3, <1>9 DEF Top, Lock, Check, Wait, Relock, WakeUp, PopFails, Return, Goto, Popped
  <2>3. Len(queue') = Len(queue) /\ count' = count
    BY <1>9 DEF Top, Lock, Check, Wait, Relock, WakeUp, PopFails, Return
  <2> QED BY <1>1, <2>1, <2>2, <2>3
<1>10. CASE Drain
  <2>1. Popped' = Popped /\ Uncounted' = Uncounted
    BY <1>10 DEF Drain, posting, Uncounted, Popped
  <2>2. Len(queue') = Len(queue) - 1 /\ count' = count - 1
    BY <1>3, <1>10 DEF Drain, CanPop
  <2> QED BY <1>1, <1>2, <1>3, <2>1, <2>2
<1>11. CASE Broadcast
  <2>1. Popped' = Popped /\ Uncounted' = Uncounted
    BY <1>3, <1>11 DEF Broadcast, Waiting, posting, Uncounted, Popped
  <2>2. Len(queue') = Len(queue) /\ count' = count
    BY <1>11 DEF Broadcast
  <2> QED BY <1>1, <2>1, <2>2
<1>12. CASE BeginShutdown \/ JoinMessageQueueThreads \/ FinishShutdown \/ UNCHANGED vars
  <2>1. Popped' = Popped /\ Uncounted' = Uncounted
    BY <1>12 DEF BeginShutdown, JoinMessageQueueThreads, FinishShutdown, vars, posting,
       Uncounted, Popped
  <2>2. Len(queue') = Len(queue) /\ count' = count
    BY <1>12 DEF BeginShutdown, JoinMessageQueueThreads, FinishShutdown, vars
  <2> QED BY <1>1, <2>1, <2>2
<1> QED
  BY <1>4, <1>5, <1>6, <1>7, <1>8, <1>9, <1>10, <1>11, <1>12
     DEF Next, PostStep, LoopStep, ShutdownStep, Stopped

-----------------------------------------------------------------------------
(* The theorems.                                                            *)

\* Every step preserves the invariant.
LEMMA NextIInv == IInv /\ [Next]_vars => IInv'
<1> SUFFICES ASSUME IInv, [Next]_vars PROVE IInv'
  OBVIOUS
<1>1. Control /\ CountExact
  BY DEF IInv
<1>2. CountExact'
  BY <1>1, CountStep
<1>3. ASSUME UNCHANGED vars PROVE Control'
  <2>1. TypeOK'
    BY <1>1, <1>3 DEF vars, posting, Control, TypeOK
  <2>2. MutexInv' /\ PostInv' /\ SeenInv' /\ QueueInv' /\ OrderInv' /\ JoinInv'
    BY <1>1, <1>3 DEF vars, posting, Control, MutexInv, PostInv, SeenInv, QueueInv, OrderInv,
       JoinInv
  <2> QED BY <2>1, <2>2 DEF Control
<1>4. ASSUME NEW t \in Threads, Post(t) \/ PostStep(t) PROVE Control'
  BY <1>1, <1>4, PostControl, PostStepControl
<1>5. ASSUME NEW c \in Consumers, LoopStep(c) \/ WakeUp(c) PROVE Control'
  BY <1>1, <1>5, LoopControl, TakeControl DEF LoopStep
<1>6. ASSUME BeginShutdown \/ ShutdownStep PROVE Control'
  BY <1>1, <1>6, ShutdownControl
<1>7. Control'
  BY <1>3, <1>4, <1>5, <1>6 DEF Next, Stopped
<1> QED BY <1>2, <1>7 DEF IInv

\* Every reachable state satisfies it.
LEMMA Inductive == Spec => []IInv
BY InitIInv, NextIInv, PTL DEF Spec

\* CountsAgree: _count, updated outside _mutex by the posting threads, never
\* drifts from the queue, and Shutdown leaves both empty.
THEOREM CountNeverDrifts == Spec => []CountsAgree
<1>1. IInv => CountsAgree
  <2> SUFFICES ASSUME IInv PROVE CountsAgree
    OBVIOUS
  <2>1. TypeOK /\ CountExact /\ PostInv /\ JoinInv
    BY DEF IInv, Control
  <2>2. ASSUME phase = "done" PROVE queue = <<>> /\ count = 0
    <3>1. queue = <<>> /\ \A c \in Consumers : cpc[c] = "exit" /\ ppc[c] = "idle"
      BY <2>1, <2>2 DEF JoinInv, PostInv
    <3>2. \A t \in Threads : ppc[t] = "idle"
      BY <2>1, <2>2, <3>1 DEF JoinInv, Threads
    <3>3. /\ {t \in Threads : ppc[t] \in {"link", "count"}} = {}
          /\ {c \in Consumers : cpc[c] = "sub"} = {}
      BY <3>1, <3>2
    <3>4. count + 0 = Len(queue) + 0 /\ count \in Nat
      BY <2>1, <3>3, FS_EmptySet DEF CountExact, TypeOK
    <3> QED BY <3>1, <3>4
  <2> QED BY <2>1, <2>2 DEF CountsAgree, DrainedClean
<1> QED BY Inductive, <1>1, PTL

\* HandledInOrder: MessageQueueThread calls the handlers one at a time and in
\* the order of the pushes, whichever of its threads does.
THEOREM HandlersInOrder == Spec => []HandledInOrder
<1>1. IInv => HandledInOrder
  BY DEF IInv, Control, OrderInv, HandledInOrder, InHand
<1> QED BY Inductive, <1>1, PTL
=============================================================================
