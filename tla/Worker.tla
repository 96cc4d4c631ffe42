------------------------------- MODULE Worker -------------------------------
(***************************************************************************)
(* Thread (src/utils/thread.cc) and the two objects that own one thread    *)
(* and a queue that it empties: Timer (src/utils/timer.cc) and the log     *)
(* (src/utils/log.cc).  A behaviour is about one of the two (kind).        *)
(*                                                                         *)
(* The queue is the one of Mpscq, seen from outside: a push is the         *)
(* exchange that gives the node its place and, later, the store that links *)
(* it, and a pop finds nothing at or behind a node that is not linked.  A  *)
(* unit of time is the 300 ms of a round of the timer.                     *)
(***************************************************************************)
EXTENDS Integers, Sequences, FiniteSets, FiniteSetsExt

CONSTANTS
    Users,      \* threads that set timers or write log messages
    MaxItems,   \* bound: timers or messages
    MaxDelay,   \* the longest delay of a timer
    MaxTime,    \* bound: the clock
    MaxStarts,  \* bound: how often Init or LogStartup is called
    MaxFired    \* timers that one round may fire: 3 in the code

ASSUME WorkerAssumption ==
    /\ IsFiniteSet(Users)
    /\ MaxItems \in Nat /\ MaxDelay \in Nat /\ MaxTime \in Nat /\ MaxStarts \in Nat
    /\ MaxFired \in Nat \ {0}

Ids == 1 .. MaxItems
NoItem == 0

VARIABLES
    kind,      \* "timer" or "log"
    shutdown,  \* _shutdown, g_shutdown
    state,     \* Thread::_state
    boss,      \* next step of the thread that owns the object
    starts,    \* calls of Init or LogStartup so far
    run,       \* the thread: "none", "born", "wait", "loop", "fire", "sleep", "done"
    started,   \* InternalThreadImpl::_started
    args,      \* the ThreadImplArgs: "none", "live", "freed"
    handle,    \* _join_object: "none", "id", "garbage"
    now,       \* the clock
    queue,     \* _mq, g_mpscq
    table,     \* Timer::_tbls
    round,     \* [begin, current, count] of WorkThread
    deadline,  \* per item, dead_line
    made,      \* items made so far
    hand,      \* per user, the item it is about to push
    link,      \* per user, the item it has put in the queue and has yet to link
    done,      \* history: per item, how often it was fired or printed
    dropped,   \* history: items deleted by Shutdown or LogCleanup
    leaked,    \* history: messages below the minimal level
    racing,    \* history: items whose callers were under way when the flag was set
    early      \* history: a timer was fired before its deadline

thread == <<state, run, started, args, handle>>
owner  == <<shutdown, boss, starts>>
items  == <<deadline, made, hand, link>>
past   == <<done, dropped, leaked, racing, early>>
workVars == <<kind, thread, owner, now, queue, table, round, items, past>>

WorkTypeOK ==
    /\ state \in {"kNull", "kAlive", "kActive", "kFinish", "kFailed"}
    /\ queue \in Seq(Ids) /\ table \subseteq Ids
    /\ hand \in [Users -> Ids \cup {NoItem}] /\ link \in [Users -> Ids \cup {NoItem}]
    /\ now \in 0 .. MaxTime
    /\ round.count \in 0 .. MaxFired
    /\ boss = "joining" => state \in {"kActive", "kFailed"}

NewRound(t) == [begin |-> t, current |-> 0, count |-> 0]

WorkInit ==
    /\ kind \in {"timer", "log"}
    /\ shutdown = TRUE /\ boss = "idle" /\ starts = 0
    /\ state = "kNull" /\ run = "none" /\ started = FALSE /\ args = "none" /\ handle = "none"
    /\ now = 0
    /\ queue = <<>> /\ table = {} /\ round = NewRound(0)
    /\ deadline = [i \in Ids |-> 0] /\ made = 0
    /\ hand = [u \in Users |-> NoItem] /\ link = [u \in Users |-> NoItem]
    /\ done = [i \in Ids |-> 0]
    /\ dropped = {} /\ leaked = {} /\ racing = {} /\ early = FALSE

-----------------------------------------------------------------------------
(* What PopAndCheckEnd finds.                                               *)

IsLinked(i) == \A u \in Users : link[u] # i

\* It returns the oldest node, once that is linked.
PopsOldest == queue # <<>> /\ IsLinked(Head(queue))

\* It returns no node, and says empty when there is none or the oldest is not
\* linked, whatever stands behind it.
SaysEmpty == ~PopsOldest

\* It may return no node, and not say empty, while the second is not linked.
StillAdding == PopsOldest /\ Len(queue) > 1 /\ ~IsLinked(queue[2])

-----------------------------------------------------------------------------
(* The owner: Init or LogStartup, Start, Shutdown or LogCleanup.            *)

\* Timer::Init clears the flag before it makes the thread, LogStartup after.  What
\* a second thread beside one that was not joined does is not followed.
BeginInit ==
    /\ boss = "idle" /\ shutdown /\ starts < MaxStarts /\ run \in {"none", "done"}
    /\ starts' = starts + 1
    /\ shutdown' = (kind = "log")
    /\ boss' = "create"
    /\ UNCHANGED <<kind, thread, now, queue, table, round, items, past>>

\* The constructor of InternalThreadImpl up to pthread_create, which may fail.
ThreadCreate ==
    /\ boss = "create"
    /\ started' = FALSE
    /\ \/ run' = "born" /\ args' = "live" /\ boss' = "ctor" /\ UNCHANGED state
       \/ run' = "none" /\ args' = "freed" /\ boss' = "made" /\ state' = "kFailed"
    /\ handle' = "none"
    /\ UNCHANGED <<kind, shutdown, starts, now, queue, table, round, items, past>>

\* It reads the id from the arguments, which the new thread may have deleted.
ThreadCreated ==
    /\ boss = "ctor"
    /\ handle' \in (IF args = "live" THEN {"id"} ELSE {"id", "garbage"})
    /\ state' = "kAlive"
    /\ boss' = "made"
    /\ UNCHANGED <<kind, shutdown, starts, run, started, args, now, queue, table, round, items, past>>

\* Init returns; LogStartup clears the flag and goes on to Start.
EndInit ==
    /\ boss = "made"
    /\ shutdown' = FALSE
    /\ boss' = IF kind = "log" THEN "start" ELSE "ready"
    /\ UNCHANGED <<kind, thread, starts, now, queue, table, round, items, past>>

\* Thread::Start; without a thread (kFailed) nothing happens.
Release == state' = "kActive" /\ started' = TRUE
Start ==
    /\ boss \in {"ready", "start"}
    /\ boss' = "running"
    /\ IF state = "kAlive" THEN Release ELSE UNCHANGED <<state, started>>
    /\ UNCHANGED <<kind, shutdown, starts, run, args, handle, now, queue, table, round, items, past>>

\* The items of callers between their test of the flag and the end of their push.
UnderWay == {i \in Ids : \E u \in Users : i \in {hand[u], link[u]}}

\* Shutdown or LogCleanup sets the flag; the timer's may come before Start.
BeginShutdown ==
    /\ boss \in {"ready", "running"}
    /\ shutdown' = TRUE
    /\ boss' = "join"
    /\ racing' = UnderWay
    /\ UNCHANGED <<kind, thread, starts, now, queue, table, round, items, done, dropped, leaked,
                   early>>

\* Thread::Join starts a thread that was never started.
JoinStartsNot == UNCHANGED <<state, started>>
JoinStarts == IF state = "kAlive" THEN Release ELSE UNCHANGED <<state, started>>
BeginJoin ==
    /\ boss = "join"
    /\ JoinStarts
    /\ boss' = "joining"
    /\ UNCHANGED <<kind, shutdown, starts, run, args, handle, now, queue, table, round, items, past>>

\* pthread_join; with a wrong id it may return at once.
JoinReturns == run \in {"none", "done"} \/ handle = "garbage"
EndJoin ==
    /\ boss = "joining" /\ JoinReturns
    /\ state' = IF state = "kFailed" THEN state ELSE "kFinish"
    /\ boss' = "drain"
    /\ UNCHANGED <<kind, shutdown, starts, run, started, args, handle, now, queue, table, round,
                   items, past>>

\* The queue is emptied until PopAndCheckEnd reports the end; while it is still
\* adding the loop goes round.
Drain ==
    /\ boss = "drain" /\ PopsOldest
    /\ queue' = Tail(queue)
    /\ dropped' = dropped \cup {Head(queue)}
    /\ UNCHANGED <<kind, thread, owner, now, table, round, items, done, leaked, racing, early>>

Drained == SaysEmpty
EndDrain ==
    /\ boss = "drain" /\ Drained
    /\ boss' = "idle"
    /\ UNCHANGED <<kind, thread, shutdown, starts, now, queue, table, round, items, past>>

-----------------------------------------------------------------------------
(* The users: SetTimer and LogFormatPrint test the flag and push later.     *)

Make(u) ==
    /\ hand[u] = NoItem /\ link[u] = NoItem /\ ~shutdown /\ made < MaxItems
    /\ made' = made + 1
    /\ hand' = [hand EXCEPT ![u] = made + 1]
    /\ UNCHANGED link

SetTimer(u) ==
    /\ kind = "timer" /\ Make(u)
    /\ \E d \in 0 .. MaxDelay : /\ now + d <= MaxTime
                                /\ deadline' = [deadline EXCEPT ![made + 1] = now + d]
    /\ UNCHANGED <<kind, thread, owner, now, queue, table, round, past>>

LogFormatPrint(u) ==
    /\ kind = "log" /\ Make(u)
    /\ UNCHANGED <<kind, thread, owner, now, queue, table, round, deadline, past>>

\* The formatted message is below g_min_level: it is neither queued nor freed.
BelowMinLevel(u) ==
    /\ kind = "log" /\ hand[u] # NoItem
    /\ leaked' = leaked \cup {hand[u]}
    /\ hand' = [hand EXCEPT ![u] = NoItem]
    /\ UNCHANGED <<kind, thread, owner, now, queue, table, round, deadline, made, link, done,
                   dropped, racing, early>>

\* push: the exchange of _newest, then the store in the node that it returned.
Push(u) ==
    /\ hand[u] # NoItem
    /\ queue' = Append(queue, hand[u])
    /\ link' = [link EXCEPT ![u] = hand[u]]
    /\ hand' = [hand EXCEPT ![u] = NoItem]
    /\ UNCHANGED <<kind, thread, owner, now, table, round, deadline, made, past>>

Link(u) ==
    /\ link[u] # NoItem
    /\ link' = [link EXCEPT ![u] = NoItem]
    /\ UNCHANGED <<kind, thread, owner, now, queue, table, round, deadline, made, hand, past>>

-----------------------------------------------------------------------------
(* The thread: InternalThreadImpl::Run, then WorkThread or LogThreadProc.   *)

CopyArgs ==
    /\ run = "born"
    /\ args' = "freed"
    /\ run' = "wait"
    /\ UNCHANGED <<kind, state, started, handle, owner, now, queue, table, round, items, past>>

Released ==
    /\ run = "wait" /\ started
    /\ run' = "loop"
    /\ UNCHANGED <<kind, state, started, args, handle, owner, now, queue, table, round, items, past>>

LoopEnds ==
    /\ run = "loop" /\ shutdown
    /\ run' = "done"
    /\ UNCHANGED <<kind, state, started, args, handle, owner, now, queue, table, round, items, past>>

\* The multimap keeps timers with equal deadlines.
InsertUnique(t, i) == IF \E j \in t : deadline[j] = deadline[i] THEN t ELSE t \cup {i}
Insert(t, i) == t \cup {i}

\* A round of the timer begins: one node is taken from the queue and the clock read.
BeginRound ==
    /\ kind = "timer" /\ run = "loop" /\ ~shutdown
    /\ \/ /\ SaysEmpty \/ StillAdding
          /\ UNCHANGED <<queue, table>>
       \/ /\ PopsOldest
          /\ queue' = Tail(queue) /\ table' = Insert(table, Head(queue))
    /\ round' = NewRound(now)
    /\ run' = "fire"
    /\ UNCHANGED <<kind, state, started, args, handle, owner, now, items, past>>

Due(i) == deadline[i] <= round.begin

\* A timer is fired if the last callback did not end more than a unit after begin.
CanFire ==
    /\ round.count < MaxFired
    /\ round.count > 0 => round.current - round.begin <= 1
    /\ \E i \in table : Due(i)

FireKeeps(i) == UNCHANGED table
EraseTimer(i) == table' = table \ {i}
Fire ==
    /\ run = "fire" /\ CanFire
    /\ \E i \in table, d \in 0 .. 2 :
          /\ Due(i) /\ \A j \in table : deadline[i] <= deadline[j]
          /\ now + d <= MaxTime
          /\ EraseTimer(i)
          /\ done' = [done EXCEPT ![i] = @ + 1]
          /\ early' = (early \/ deadline[i] > now)
          /\ now' = now + d
          /\ round' = [round EXCEPT !.current = now + d, !.count = @ + 1]
    /\ UNCHANGED <<kind, thread, owner, queue, items, dropped, leaked, racing>>

\* The sleep that ends a round.  Without a timer fired, interval is 0 minus the
\* clock, truncated to an int: any value, so the thread sleeps or does not.
EndRound ==
    /\ run = "fire" /\ ~CanFire
    /\ run' \in (IF round.count = MaxFired THEN {"loop"}
                 ELSE IF round.count = 0 THEN {"loop", "sleep"}
                 ELSE IF round.current - round.begin < 1 THEN {"sleep"} ELSE {"loop"})
    /\ round' = NewRound(0)
    /\ UNCHANGED <<kind, state, started, args, handle, owner, now, queue, table, items, past>>

Wake ==
    /\ run = "sleep"
    /\ run' = "loop"
    /\ UNCHANGED <<kind, state, started, args, handle, owner, now, queue, table, round, items, past>>

\* LogThreadProc prints a message and frees it.
LogThreadProc ==
    /\ kind = "log" /\ run = "loop" /\ ~shutdown /\ PopsOldest
    /\ queue' = Tail(queue)
    /\ done' = [done EXCEPT ![Head(queue)] = @ + 1]
    /\ UNCHANGED <<kind, thread, owner, now, table, round, items, dropped, leaked, racing, early>>

Tick ==
    /\ kind = "timer" /\ now < MaxTime
    /\ now' = now + 1
    /\ UNCHANGED <<kind, thread, owner, queue, table, round, items, past>>

-----------------------------------------------------------------------------
OwnerEnds == BeginJoin \/ EndJoin \/ Drain \/ EndDrain
OwnerStep == BeginInit \/ ThreadCreate \/ ThreadCreated \/ EndInit \/ Start \/ BeginShutdown
ThreadStep == \/ CopyArgs \/ Released \/ LoopEnds
              \/ BeginRound \/ Fire \/ EndRound \/ Wake \/ LogThreadProc
UserStep(u) == SetTimer(u) \/ LogFormatPrint(u) \/ BelowMinLevel(u) \/ Push(u) \/ Link(u)

WorkNext == OwnerStep \/ OwnerEnds \/ ThreadStep \/ Tick \/ \E u \in Users : UserStep(u)

WorkSpec == WorkInit /\ [][WorkNext]_workVars

\* The thread is scheduled and every sleep ends, time passes, a Shutdown that has
\* begun goes on, and a push that has begun is finished.
FairWorkSpec == /\ WorkSpec
                /\ WF_workVars(ThreadStep) /\ WF_workVars(Tick) /\ WF_workVars(OwnerEnds)
                /\ \A u \in Users : WF_workVars(Link(u))

-----------------------------------------------------------------------------
(* Properties.                                                              *)

Places(i) ==
    <<Cardinality({u \in Users : hand[u] = i}), Cardinality({n \in DOMAIN queue : queue[n] = i}),
      Cardinality({i} \cap table), done[i], Cardinality({i} \cap dropped),
      Cardinality({i} \cap leaked)>>

\* Every timer and every message is in one place: with its user, in the queue, in
\* the table, fired or printed once, deleted by Shutdown, or a message below the
\* minimal level, which nobody frees.  Nothing is fired twice or lost.
InOnePlace ==
    \A i \in 1 .. made : Cardinality({p \in DOMAIN Places(i) : Places(i)[p] = 1}) = 1
                         /\ \A p \in DOMAIN Places(i) : Places(i)[p] \in {0, 1}

\* No timer is fired before its deadline.
NotEarly == ~early

\* When Join has returned the thread has ended, so that it can be restarted and
\* the queue has one consumer; the exception is an id read from deleted arguments.
JoinWaits ==
    boss \in {"drain", "idle"} => run \in {"none", "done"} \/ handle = "garbage"

\* What Shutdown or LogCleanup leaves in the queue, whose destructor expects
\* nothing, begins with the node of a caller that was between its test of the flag
\* and the end of its push when the flag was set.  Nodes pushed long before may
\* stand behind it; without such a caller nothing is left.
OnlyRacingLeft == boss = "idle" => queue = <<>> \/ Head(queue) \in racing

\* A timer or message in the queue is dealt with while its thread runs.
ItemsHandled ==
    \A i \in Ids :
        (i \in table \/ \E n \in DOMAIN queue : queue[n] = i)
            ~> (done[i] = 1 \/ shutdown \/ state = "kFailed" \/ boss \in {"create", "ctor", "made",
                                                                      "ready", "start"})

\* Shutdown returns, also when Start was never called.
ShutdownReturns == boss = "join" ~> boss = "idle"

\* No timer or message is lost, handled twice or early.
ItemsAccounted == WorkTypeOK /\ InOnePlace /\ NotEarly

\* Shutdown returns, and when it has, the thread has ended and nothing is left but
\* behind a push that raced with it.
ShutdownClean == [](JoinWaits /\ OnlyRacingLeft) /\ ShutdownReturns
=============================================================================
