---------------------------- MODULE MessageQueue ----------------------------
(***************************************************************************)
(* The message queue of ContainerImpl (src/common/container_impl.cc): the  *)
(* event, timer and application threads post messages without a lock, and  *)
(* the message-queue threads take them one by one under _mutex and call    *)
(* the application's handler.  _count tells them whether to wait on _cv.   *)
(*                                                                         *)
(* _mpscq is the queue of module Mpscq, seen from outside: messages in the *)
(* order of their exchanges, and which of them are linked to the one       *)
(* before.  A message is the number of its exchange.                       *)
(***************************************************************************)
EXTENDS Integers, Sequences, FiniteSets

CONSTANTS
    Producers,  \* threads that post: event threads, the timer, applications
    Consumers,  \* _mq_threads
    MaxMsgs,    \* bound: messages posted in a behaviour
    NULL

Threads == Producers \cup Consumers
Msgs    == 1 .. MaxMsgs

ASSUME MaxMsgsAssumption == MaxMsgs \in Nat

ASSUME ThreadsAssumption ==
    /\ Producers \cap Consumers = {}
    /\ IsFiniteSet(Threads)
    /\ NULL \notin Threads

VARIABLES
    queue,     \* _mpscq: the messages exchanged into it and not popped
    linked,    \* those whose push is complete
    posted,    \* the number of messages posted so far
    count,     \* _count
    mutex,     \* the thread that holds _mutex, or NULL
    ppc,       \* per thread, its next step of posting a message
    pmsg,      \* and the message it posts
    cpc,       \* per message-queue thread, its next step
    msg,       \* and its msg
    shutdown,  \* _shutdown
    phase,     \* the next step of ContainerImpl::Shutdown
    handled    \* history: the number of messages whose handler has returned

posting == <<ppc, pmsg>>
vars == <<queue, linked, posted, count, mutex, posting, cpc, msg, shutdown, phase, handled>>

PostPCs == {"idle", "link", "count", "signal"}
LoopPCs == {"top", "lock", "check", "wait", "waiting", "relock", "pop", "sub", "dispatch", "exit"}

TypeOK ==
    /\ queue \in Seq(Msgs)
    /\ linked \in SUBSET Msgs
    /\ posted \in 0 .. MaxMsgs
    /\ count \in Nat
    /\ mutex \in Consumers \cup {NULL}
    /\ ppc \in [Threads -> PostPCs]
    /\ pmsg \in [Threads -> Msgs \cup {0}]
    /\ cpc \in [Consumers -> LoopPCs]
    /\ msg \in [Consumers -> Msgs \cup {0}]
    /\ shutdown \in BOOLEAN
    /\ phase \in {"run", "join", "joinmq", "drain", "done"}
    /\ handled \in 0 .. MaxMsgs

Init ==
    /\ queue = <<>>
    /\ linked = {}
    /\ posted = 0
    /\ count = 0
    /\ mutex = NULL
    /\ ppc = [t \in Threads |-> "idle"]
    /\ pmsg = [t \in Threads |-> 0]
    /\ cpc = [c \in Consumers |-> "top"]
    /\ msg = [c \in Consumers |-> 0]
    /\ shutdown = FALSE
    /\ phase = "run"
    /\ handled = 0

-----------------------------------------------------------------------------
(* Posting: OnDataReceived, OnClosed, OnTimerEvent, OnNotify.               *)

\* Event threads post until Shutdown has joined them; a handler posts by the
\* container calls it makes.
MayPost(t) ==
    IF t \in Producers THEN phase \in {"run", "join"} ELSE cpc[t] = "dispatch"

\* push's exchange, which fixes the message's place.
Post(t) ==
    /\ ppc[t] = "idle" /\ MayPost(t) /\ posted < MaxMsgs
    /\ posted' = posted + 1
    /\ queue' = Append(queue, posted')
    /\ pmsg' = [pmsg EXCEPT ![t] = posted']
    /\ ppc' = [ppc EXCEPT ![t] = "link"]
    /\ UNCHANGED <<linked, count, mutex, cpc, msg, shutdown, phase, handled>>

\* push's last store
PostLink(t) ==
    /\ ppc[t] = "link"
    /\ linked' = linked \cup {pmsg[t]}
    /\ ppc' = [ppc EXCEPT ![t] = "count"]
    /\ UNCHANGED <<queue, posted, count, mutex, pmsg, cpc, msg, shutdown, phase, handled>>

\* _count.FetchAdd(1)
PostCount(t) ==
    /\ ppc[t] = "count"
    /\ count' = count + 1
    /\ ppc' = [ppc EXCEPT ![t] = "signal"]
    /\ UNCHANGED <<queue, linked, posted, mutex, pmsg, cpc, msg, shutdown, phase, handled>>

Waiting == {c \in Consumers : cpc[c] = "waiting"}

\* _cv.Signal(), without _mutex: one waiter is woken, if there is one.
PostSignal(t) ==
    /\ ppc[t] = "signal"
    /\ \/ \E c \in Waiting : cpc' = [cpc EXCEPT ![c] = "relock"]
       \/ Waiting = {} /\ UNCHANGED cpc
    /\ ppc' = [ppc EXCEPT ![t] = "idle"]
    /\ pmsg' = [pmsg EXCEPT ![t] = 0]
    /\ UNCHANGED <<queue, linked, posted, count, mutex, msg, shutdown, phase, handled>>

-----------------------------------------------------------------------------
(* MessageQueueThread                                                       *)

Goto(c, label) == cpc' = [cpc EXCEPT ![c] = label]

Top(c) ==
    /\ cpc[c] = "top"
    /\ Goto(c, IF shutdown THEN "exit" ELSE "lock")
    /\ UNCHANGED <<queue, linked, posted, count, mutex, posting, msg, shutdown, phase, handled>>

Lock(c) ==
    /\ cpc[c] = "lock" /\ mutex = NULL
    /\ mutex' = c
    /\ Goto(c, "check")
    /\ UNCHANGED <<queue, linked, posted, count, posting, msg, shutdown, phase, handled>>

\* _count.Load() == 0
CheckOffByOne(c) ==
    /\ cpc[c] = "check"
    /\ Goto(c, IF count <= 1 THEN "wait" ELSE "pop")
    /\ UNCHANGED <<queue, linked, posted, count, mutex, posting, msg, shutdown, phase, handled>>
Check(c) ==
    /\ cpc[c] = "check"
    /\ Goto(c, IF count = 0 THEN "wait" ELSE "pop")
    /\ UNCHANGED <<queue, linked, posted, count, mutex, posting, msg, shutdown, phase, handled>>

\* _cv.Wait releases the mutex and joins the waiters in one step.
Wait(c) ==
    /\ cpc[c] = "wait"
    /\ mutex' = NULL
    /\ Goto(c, "waiting")
    /\ UNCHANGED <<queue, linked, posted, count, posting, msg, shutdown, phase, handled>>

\* A condition variable may wake a waiter for no reason.
WakeUp(c) ==
    /\ cpc[c] = "waiting"
    /\ Goto(c, "relock")
    /\ UNCHANGED <<queue, linked, posted, count, mutex, posting, msg, shutdown, phase, handled>>

\* The way out of _cv.Wait: the mutex again, then the test of _shutdown.
RelockNoShutdown(c) ==
    /\ cpc[c] = "relock" /\ mutex = NULL
    /\ Goto(c, "check") /\ mutex' = c
    /\ UNCHANGED <<queue, linked, posted, count, posting, msg, shutdown, phase, handled>>
Relock(c) ==
    /\ cpc[c] = "relock" /\ mutex = NULL
    /\ IF shutdown
       THEN Goto(c, "exit") /\ UNCHANGED mutex
       ELSE Goto(c, "check") /\ mutex' = c
    /\ UNCHANGED <<queue, linked, posted, count, posting, msg, shutdown, phase, handled>>

\* _mpscq.pop() can return the first message once it is linked, and can fail
\* while the first or the second is not.
CanPop == queue # <<>> /\ queue[1] \in linked
CanFail == queue = <<>> \/ (\E k \in 1 .. Len(queue) : k <= 2 /\ queue[k] \notin linked)

\* A message is popped and the mutex kept.
PopUnlocks(c) ==
    /\ cpc[c] = "pop" /\ CanPop
    /\ msg' = [msg EXCEPT ![c] = Head(queue)]
    /\ queue' = Tail(queue)
    /\ linked' = linked \ {Head(queue)}
    /\ mutex' = NULL
    /\ Goto(c, "sub")
    /\ UNCHANGED <<posted, count, posting, shutdown, phase, handled>>
Pop(c) ==
    /\ cpc[c] = "pop" /\ CanPop
    /\ msg' = [msg EXCEPT ![c] = Head(queue)]
    /\ queue' = Tail(queue)
    /\ linked' = linked \ {Head(queue)}
    /\ Goto(c, "sub")
    /\ UNCHANGED <<posted, count, mutex, posting, shutdown, phase, handled>>

\* No message: the mutex is released and the loop starts over.
PopFails(c) ==
    /\ cpc[c] = "pop" /\ CanFail
    /\ mutex' = NULL
    /\ Goto(c, "top")
    /\ UNCHANGED <<queue, linked, posted, count, posting, msg, shutdown, phase, handled>>

\* _count.FetchSub(1), and into Dispatch
Dispatch(c) ==
    /\ cpc[c] = "sub"
    /\ count' = count - 1
    /\ Goto(c, "dispatch")
    /\ UNCHANGED <<queue, linked, posted, mutex, posting, msg, shutdown, phase, handled>>

\* The handler has returned: the message is deleted and the mutex released.
Return(c) ==
    /\ cpc[c] = "dispatch" /\ ppc[c] = "idle"
    /\ handled' = handled + 1
    /\ msg' = [msg EXCEPT ![c] = 0]
    /\ mutex' = NULL
    /\ Goto(c, "top")
    /\ UNCHANGED <<queue, linked, posted, count, posting, shutdown, phase>>

-----------------------------------------------------------------------------
(* Shutdown                                                                 *)

BeginShutdown ==
    /\ phase = "run"
    /\ shutdown' = TRUE
    /\ phase' = "join"
    /\ UNCHANGED <<queue, linked, posted, count, mutex, posting, cpc, msg, handled>>

\* The event and timer threads are joined, and the application's threads are
\* expected to have left the container.
Joined == \A p \in Producers : ppc[p] = "idle"

\* _cv.Broadcast(), without _mutex
Broadcast ==
    /\ phase = "join" /\ Joined
    /\ cpc' = [c \in Consumers |-> IF c \in Waiting THEN "relock" ELSE cpc[c]]
    /\ phase' = "joinmq"
    /\ UNCHANGED <<queue, linked, posted, count, mutex, posting, msg, shutdown, handled>>

\* The message-queue threads are joined.
JoinMessageQueueThreads ==
    /\ phase = "joinmq" /\ \A c \in Consumers : cpc[c] = "exit"
    /\ phase' = "drain"
    /\ UNCHANGED <<queue, linked, posted, count, mutex, posting, cpc, msg, shutdown, handled>>

\* The messages left are deleted, unhandled.
DrainUncounted ==
    /\ phase = "drain" /\ CanPop
    /\ queue' = Tail(queue)
    /\ linked' = linked \ {Head(queue)}
    /\ UNCHANGED <<posted, count, mutex, posting, cpc, msg, shutdown, phase, handled>>
Drain ==
    /\ phase = "drain" /\ CanPop
    /\ queue' = Tail(queue)
    /\ linked' = linked \ {Head(queue)}
    /\ count' = count - 1
    /\ UNCHANGED <<posted, mutex, posting, cpc, msg, shutdown, phase, handled>>

FinishShutdown ==
    /\ phase = "drain" /\ queue = <<>>
    /\ phase' = "done"
    /\ UNCHANGED <<queue, linked, posted, count, mutex, posting, cpc, msg, shutdown, handled>>

Stopped == phase = "done" /\ UNCHANGED vars

-----------------------------------------------------------------------------
PostStep(t) == PostLink(t) \/ PostCount(t) \/ PostSignal(t)

LoopStep(c) ==
    \/ Top(c)
    \/ Lock(c)
    \/ Check(c)
    \/ Wait(c)
    \/ Relock(c)
    \/ Pop(c)
    \/ PopFails(c)
    \/ Dispatch(c)
    \/ Return(c)

ShutdownStep == Broadcast \/ JoinMessageQueueThreads \/ Drain \/ FinishShutdown

Next ==
    \/ \E t \in Threads : Post(t) \/ PostStep(t)
    \/ \E c \in Consumers : LoopStep(c) \/ WakeUp(c)
    \/ BeginShutdown
    \/ ShutdownStep
    \/ Stopped

Spec == Init /\ [][Next]_vars

\* Every thread goes on with what it has begun, and a handler returns.  Nobody
\* has to post, to shut the container down, or to be woken for no reason.
FairSpec ==
    /\ Spec
    /\ \A t \in Threads : WF_vars(PostStep(t))
    /\ \A c \in Consumers : WF_vars(LoopStep(c))
    /\ WF_vars(ShutdownStep)

-----------------------------------------------------------------------------
(* Properties.                                                              *)

\* _count is the length of the queue, but for the messages pushed and not yet
\* counted and the one popped and not yet discounted: whatever the order of
\* push, FetchAdd, pop and FetchSub among the threads, it does not drift.
CountExact ==
    count + Cardinality({t \in Threads : ppc[t] \in {"link", "count"}})
        = Len(queue) + Cardinality({c \in Consumers : cpc[c] = "sub"})

\* Handlers run one at a time and in the order of the pushes, whichever thread
\* calls them: when one is called, those of all earlier messages have returned.
HandledInOrder == \A c \in Consumers : cpc[c] \in {"sub", "dispatch"} => msg[c] = handled + 1

\* After Shutdown no message is left in the queue, or in its count.
DrainedClean == phase = "done" => queue = <<>> /\ count = 0

\* Every message up to m is counted, and m is still to be handled.
Due(m) ==
    /\ handled < m /\ m <= posted
    /\ \A t \in Threads : ppc[t] \in {"link", "count"} => pmsg[t] > m

\* A thread that has not yet decided to wait.
Awake(c) == cpc[c] \notin {"wait", "waiting", "exit"}

\* A message that is due while some message-queue thread has not yet decided to
\* wait is handled, unless the container is shut down.
AwakeDelivers ==
    \A m \in Msgs : Due(m) /\ (\E c \in Consumers : Awake(c)) ~> handled >= m \/ shutdown

\* A Broadcast that comes when no message-queue thread is on its way from the
\* test of _shutdown to the wait ends them all, and Shutdown returns.
ShutdownCompletes ==
    phase = "joinmq" /\ (\A c \in Consumers : cpc[c] \notin {"lock", "check", "wait", "waiting"})
        ~> phase = "done"

\* property.md: the MessageHandler receives the data the remote node sent: every
\* message posted is handled, unless the container is shut down.
EveryMessageHandled == \A m \in Msgs : posted >= m ~> handled >= m \/ shutdown

\* The count never drifts from the queue, and both are empty after Shutdown.
CountsAgree == TypeOK /\ CountExact /\ DrainedClean
=============================================================================
