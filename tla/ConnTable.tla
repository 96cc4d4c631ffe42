----------------------------- MODULE ConnTable -----------------------------
(***************************************************************************)
(* The connection table of ContainerImpl (src/common/container_impl.cc) as *)
(* it is used on Linux: the slots _mgr, the timeout records, the list of   *)
(* free indices, and the threads that work on them.  Everything between    *)
(* one lock and unlock of _conn_mtx is one action; a handler that takes    *)
(* the mutex twice (GetConnection ... DeleteConnection) is several, and    *)
(* holds a shared_ptr<Connection> and a bare index in between.             *)
(*                                                                         *)
(* An Endpoint and the Connection made for it share one identity, the      *)
(* handle id that Connection's constructor draws from global_counter.      *)
(***************************************************************************)
EXTENDS Integers, Sequences, FiniteSets

CONSTANTS
    Pollers,        \* threads of _poll_thread: receive events, timeout sweep
    Backs,          \* threads of _back_thread: send events
    Apps,           \* application and message-queue threads: the public API
    Timers,         \* the heartbeat Timer's thread, {} without a HeartbeatHandler
    DefaultSize,    \* _option.default_container_size
    MaxSize,        \* _option.max_container_size
    Timeout,        \* _option.connection_timeoutms
    CheckInterval,  \* the 3000 ms of OnTimeoutCheck
    MaxHandles,     \* bound: connections attached in a behaviour
    MaxTime,        \* bound: last value of the clock
    NULL

Threads == Pollers \cup Backs \cup Apps \cup Timers
Handles == 0 .. MaxHandles - 1
Epolls  == {"recv", "send"}
EpollOf(t) == IF t \in Pollers THEN "recv" ELSE "send"

ASSUME SizesAssumption ==
    /\ DefaultSize \in Nat \ {0}
    /\ MaxSize \in Nat \ {0}

ASSUME ClockAssumption ==
    /\ Timeout \in Nat
    /\ CheckInterval \in Nat
    /\ MaxTime \in Nat

ASSUME HandlesAssumption == MaxHandles \in Nat

ASSUME NullAssumption ==
    /\ NULL \notin Threads
    /\ NULL \notin Int
    /\ NULL \notin Int \X Int

ASSUME TimersAssumption == IsFiniteSet(Timers)

VARIABLES
    size,        \* _mgr.size()
    mgr,         \* _mgr[i].first: a handle, or NULL
    second,      \* _mgr[i].second: the slot's timeout record, or NULL for end()
    records,     \* _timeout_records: the set of <<deadline, index>>
    free,        \* _free_index_list
    connMtx,     \* the sweeping thread while it holds _conn_mtx, else NULL
    nextHandle,  \* Connection::global_counter
    cid,         \* index part of EndpointImpl::_connection_id, NULL before attach
    online,      \* endpoints whose _fd is open
    closedPosted,\* connections a kCloseEvent message was posted for
    ready,       \* per epoll, the <<handle, "io" or "error">> not yet polled
    pending,     \* per handle, the delays waiting in the heartbeat Timer
    now,         \* GetCurrentMilliseconds()
    lastCheck,   \* _last_check_time
    phase,       \* "run"; Shutdown: "stopping", "timer", "mq", "done"
    \* the locals of each thread
    pc,          \* the next step of the handler it runs
    op,          \* which handler
    idx,         \* its index
    con,         \* its shared_ptr<Connection>
    notify,      \* the notify argument of Connection::Shutdown
    at,          \* OnTimeoutCheck's current_millseconds
    tid,         \* OnTimer's tid2, the handle id the delay was set for
    lastRecv     \* history: when the connection last received data

table   == <<size, mgr, second, records, free>>
sockets == <<online, ready>>
clock   == <<now, lastCheck>>
locals  == <<pc, op, idx, con, notify, at, tid>>
vars == <<table, connMtx, nextHandle, cid, sockets, closedPosted, pending,
          clock, phase, locals, lastRecv>>

Ops == {"none", "error", "recv", "send", "close", "sendmsg", "timer", "sweep"}
PCs == {"idle", "get", "do", "check", "close", "delete", "refresh",
        "stamp", "sweep", "erase"}

Slots == 0 .. size - 1

TypeOK ==
    /\ size \in Nat
    /\ mgr \in [Slots -> Handles \cup {NULL}]
    /\ second \in [Slots -> (Int \X Slots) \cup {NULL}]
    /\ records \in SUBSET (Int \X Slots)
    /\ free \in Seq(Slots)
    /\ connMtx \in Threads \cup {NULL}
    /\ nextHandle \in 0 .. MaxHandles
    /\ cid \in [Handles -> Nat \cup {NULL}]
    /\ online \in SUBSET Handles
    /\ closedPosted \in SUBSET Handles
    /\ ready \in [Epolls -> SUBSET (Handles \X {"io", "error"})]
    /\ pending \in [Handles -> Nat]
    /\ now \in Nat
    /\ lastCheck \in Nat
    /\ phase \in {"run", "stopping", "timer", "mq", "done"}
    /\ pc \in [Threads -> PCs]
    /\ op \in [Threads -> Ops]
    /\ idx \in [Threads -> Nat]
    /\ con \in [Threads -> Handles \cup {NULL}]
    /\ notify \in [Threads -> BOOLEAN]
    /\ at \in [Threads -> Nat]
    /\ tid \in [Threads -> Handles \cup {NULL}]
    /\ lastRecv \in [Handles -> Nat]

\* ContainerImpl::Init: DefaultSize empty slots, all of them free.
Init ==
    /\ size = DefaultSize
    /\ mgr = [i \in 0 .. DefaultSize - 1 |-> NULL]
    /\ second = [i \in 0 .. DefaultSize - 1 |-> NULL]
    /\ records = {}
    /\ free = [j \in 1 .. DefaultSize |-> j - 1]
    /\ connMtx = NULL
    /\ nextHandle = 0
    /\ cid = [c \in Handles |-> NULL]
    /\ online = {}
    /\ closedPosted = {}
    /\ ready = [e \in Epolls |-> {}]
    /\ pending = [c \in Handles |-> 0]
    /\ now = 0
    /\ lastCheck = 0
    /\ phase = "run"
    /\ pc = [t \in Threads |-> "idle"]
    /\ op = [t \in Threads |-> "none"]
    /\ idx = [t \in Threads |-> 0]
    /\ con = [t \in Threads |-> NULL]
    /\ notify = [t \in Threads |-> FALSE]
    /\ at = [t \in Threads |-> 0]
    /\ tid = [t \in Threads |-> NULL]
    /\ lastRecv = [c \in Handles |-> 0]

-----------------------------------------------------------------------------
(* shared_ptr<Connection>, and the locals of a thread.                      *)

\* The handles of on still referenced by slots m or by locals k.  The last
\* reference to go runs ~Connection, which is Shutdown(false): the socket of a
\* connection that was still online is closed without a close event.
ReferencedNoShutdown(on, m, k) == on
Referenced(on, m, k) ==
    {c \in on : (\E i \in DOMAIN m : m[i] = c) \/ (\E t \in Threads : k[t] = c)}

\* Closing a socket takes its events out of both epolls.  One that epoll_wait had
\* already returned, behind others, acts on whatever connection has the index
\* when its turn comes, as an event of that connection does: PeerSends and
\* PeerCloses stand for it too.
EventsOf(on) == [e \in Epolls |-> {x \in ready[e] : x[1] \in on}]

\* Thread t leaves its handler, dropping its connection reference.
Return(t) ==
    /\ pc' = [pc EXCEPT ![t] = "idle"]
    /\ op' = [op EXCEPT ![t] = "none"]
    /\ idx' = [idx EXCEPT ![t] = 0]
    /\ con' = [con EXCEPT ![t] = NULL]
    /\ notify' = [notify EXCEPT ![t] = FALSE]
    /\ at' = [at EXCEPT ![t] = 0]
    /\ tid' = [tid EXCEPT ![t] = NULL]

Goto(t, label) == pc' = [pc EXCEPT ![t] = label]

\* Thread t enters handler o, about to run GetConnection(i).
Enter(t, o, i, n, h) ==
    /\ pc[t] = "idle"
    /\ pc' = [pc EXCEPT ![t] = "get"]
    /\ op' = [op EXCEPT ![t] = o]
    /\ idx' = [idx EXCEPT ![t] = i]
    /\ notify' = [notify EXCEPT ![t] = n]
    /\ tid' = [tid EXCEPT ![t] = h]
    /\ UNCHANGED <<con, at>>

\* CheckConnectionId: the endpoint was attached, and its index is below the
\* configured maximum (not below _mgr.size()).
CheckConnectionIdOffByOne(c) == cid[c] # NULL /\ cid[c] < MaxSize - 1
CheckConnectionId(c) == cid[c] # NULL /\ cid[c] < MaxSize

\* Until Shutdown has joined them the receive and send threads begin handlers.
Polling == phase \in {"run", "stopping"}

\* Timer::SetTimer for c, refused once Timer::Shutdown has set its flag.
SetTimer(c) == IF Polling THEN [pending EXCEPT ![c] = @ + 1] ELSE pending

-----------------------------------------------------------------------------
(* The table operations, each one critical section of _conn_mtx.            *)

\* AttachEndpointImpl, the expansion: doubled, at most MaxSize.
ExpandBy == size + (IF size * 2 < MaxSize THEN size * 2 ELSE MaxSize)
Expand == IF size * 2 < MaxSize THEN size * 2 ELSE MaxSize

\* The indices a, ..., b - 1, appended in this order.
IndexRangeOffByOne(a, b) == [j \in 1 .. b - a |-> a + j]
IndexRange(a, b) == [j \in 1 .. b - a |-> a + j - 1]

\* AttachEndpointImpl.  With no free slot and MaxSize reached it returns an
\* error and changes nothing.  The heartbeat delay is set under the mutex; the
\* sockets join both epolls, and a writable socket is an event at once.
AttachEndpoint(t) ==
    /\ pc[t] = "idle" /\ phase # "done" /\ connMtx = NULL
    /\ nextHandle < MaxHandles
    /\ free # <<>> \/ size < MaxSize
    /\ LET c    == nextHandle
           n    == IF free = <<>> THEN Expand ELSE size
           list == IF free = <<>> THEN IndexRange(size, n) ELSE free
           i    == Head(list)
           rec  == <<now + Timeout, i>>
       IN /\ size' = n
          /\ free' = Tail(list)
          /\ mgr' = [j \in 0 .. n - 1 |->
                        IF j = i THEN c ELSE IF j < size THEN mgr[j] ELSE NULL]
          /\ second' = [j \in 0 .. n - 1 |->
                        IF j = i THEN rec ELSE IF j < size THEN second[j] ELSE NULL]
          /\ records' = records \cup {rec}
          /\ cid' = [cid EXCEPT ![c] = i]
          /\ online' = online \cup {c}
          /\ ready' = [ready EXCEPT !["send"] = @ \cup {<<c, "io">>}]
          /\ pending' = IF Timers = {} THEN pending ELSE SetTimer(c)
          /\ lastRecv' = [lastRecv EXCEPT ![c] = now]
    /\ nextHandle' = nextHandle + 1
    /\ UNCHANGED <<connMtx, closedPosted, clock, phase, locals>>

\* GetConnection and the branch on its result.
GetConnection(t) ==
    /\ pc[t] = "get" /\ connMtx = NULL
    /\ LET c == mgr[idx[t]] IN
       IF c = NULL
       THEN Return(t)
       ELSE /\ con' = [con EXCEPT ![t] = c]
            /\ Goto(t, IF op[t] \in {"error", "close"} THEN "check" ELSE "do")
            /\ UNCHANGED <<op, idx, notify, at, tid>>
    /\ UNCHANGED <<table, connMtx, nextHandle, cid, sockets, closedPosted, pending,
                   clock, phase, lastRecv>>

\* Empty slot i: reset the pointer, erase its record, give the index back.
ClearSlot(i) ==
    /\ mgr' = [mgr EXCEPT ![i] = NULL]
    /\ records' = records \ {second[i]}
    /\ second' = [second EXCEPT ![i] = NULL]
    /\ free' = Append(free, i)
    /\ UNCHANGED size

\* DeleteConnection's body: another thread may have emptied the slot before.
DropSlotUnchecked(i) == ClearSlot(i)
DropSlot(i) == IF mgr[i] = NULL THEN UNCHANGED table ELSE ClearSlot(i)

\* DeleteConnection: whatever connection the slot holds by now is dropped.
DeleteConnection(t) ==
    /\ pc[t] = "delete" /\ connMtx = NULL
    /\ DropSlot(idx[t])
    /\ Return(t)
    /\ online' = Referenced(online, mgr', con')
    /\ ready' = EventsOf(online')
    /\ UNCHANGED <<connMtx, nextHandle, cid, closedPosted, pending, clock, phase,
                   lastRecv>>

\* RefreshTime's body: the old record is erased and a new one inserted.
MoveDeadlineNoErase(i) ==
    LET rec == <<now + Timeout, i>> IN
    IF mgr[i] = NULL
    THEN UNCHANGED table
    ELSE /\ records' = records \cup {rec}
         /\ second' = [second EXCEPT ![i] = rec]
         /\ UNCHANGED <<size, mgr, free>>
MoveDeadline(i) ==
    LET rec == <<now + Timeout, i>> IN
    IF mgr[i] = NULL
    THEN UNCHANGED table
    ELSE /\ records' = (records \ {second[i]}) \cup {rec}
         /\ second' = [second EXCEPT ![i] = rec]
         /\ UNCHANGED <<size, mgr, free>>

\* RefreshTime: a new deadline for whatever connection the slot holds by now.
RefreshTime(t) ==
    /\ pc[t] = "refresh" /\ connMtx = NULL
    /\ MoveDeadline(idx[t])
    /\ Return(t)
    /\ online' = Referenced(online, mgr', con')
    /\ ready' = EventsOf(online')
    /\ UNCHANGED <<connMtx, nextHandle, cid, closedPosted, pending, clock, phase,
                   lastRecv>>

-----------------------------------------------------------------------------
(* Connection::Shutdown, called with and without _conn_mtx.                 *)

\* The test of IsOnline at its top; another thread may pass it too.
ShutdownCheck(t) ==
    /\ pc[t] = "check"
    /\ Goto(t, IF con[t] \in online THEN "close"
               ELSE IF op[t] = "sweep" THEN "erase" ELSE "delete")
    /\ UNCHANGED <<table, connMtx, nextHandle, cid, sockets, closedPosted, pending,
                   clock, phase, op, idx, con, notify, at, tid, lastRecv>>

\* The rest: leave both epolls, close the socket, post the close event.
ShutdownClose(t) ==
    /\ pc[t] = "close"
    /\ online' = online \ {con[t]}
    /\ ready' = EventsOf(online')
    /\ closedPosted' = IF notify[t] THEN closedPosted \cup {con[t]} ELSE closedPosted
    /\ Goto(t, IF op[t] = "sweep" THEN "erase" ELSE "delete")
    /\ UNCHANGED <<table, connMtx, nextHandle, cid, pending, clock, phase, op, idx,
                   con, notify, at, tid, lastRecv>>

-----------------------------------------------------------------------------
(* OnTimeoutCheck, run by the receive threads between two polls.            *)

\* The throttle: the clock is read, _last_check_time loaded and compared.
SweepThrottle(t) ==
    /\ pc[t] = "idle" /\ Polling
    /\ now - lastCheck >= CheckInterval
    /\ Goto(t, "stamp")
    /\ op' = [op EXCEPT ![t] = "sweep"]
    /\ at' = [at EXCEPT ![t] = now]
    /\ UNCHANGED <<table, connMtx, nextHandle, cid, sockets, closedPosted, pending,
                   clock, phase, idx, con, notify, tid, lastRecv>>

\* _last_check_time is stored and _conn_mtx taken for the whole loop.
SweepLock(t) ==
    /\ pc[t] = "stamp" /\ connMtx = NULL
    /\ lastCheck' = at[t]
    /\ connMtx' = t
    /\ Goto(t, "sweep")
    /\ UNCHANGED <<table, nextHandle, cid, sockets, closedPosted, pending, now,
                   phase, op, idx, con, notify, at, tid, lastRecv>>

\* The records the loop has yet to evict, and those at its front.  Records with
\* the same deadline are in insertion order in the multimap; any is taken here.
ExpiredEarly(t) == {r \in records : r[1] <= at[t] + 1}
Expired(t) == {r \in records : r[1] <= at[t]}
Earliest(t) == {r \in Expired(t) : \A s \in Expired(t) : r[1] <= s[1]}

\* The argument of Shutdown for a connection that has timed out.
EvictQuietly == FALSE
EvictNotify == TRUE

\* The loop head: the next expired record, whose slot is dereferenced.
SweepNext(t) ==
    /\ pc[t] = "sweep"
    /\ \E r \in Earliest(t) :
          /\ idx' = [idx EXCEPT ![t] = r[2]]
          /\ con' = [con EXCEPT ![t] = mgr[r[2]]]
          /\ notify' = [notify EXCEPT ![t] = EvictNotify]
    /\ Goto(t, "check")
    /\ UNCHANGED <<table, connMtx, nextHandle, cid, sockets, closedPosted, pending,
                   clock, phase, op, at, tid, lastRecv>>

\* After Shutdown of the connection the loop empties its slot.
SweepErase(t) ==
    /\ pc[t] = "erase"
    /\ ClearSlot(idx[t])
    /\ con' = [con EXCEPT ![t] = NULL]
    /\ Goto(t, "sweep")
    /\ online' = Referenced(online, mgr', con')
    /\ ready' = EventsOf(online')
    /\ UNCHANGED <<connMtx, nextHandle, cid, closedPosted, pending, clock, phase, op,
                   idx, notify, at, tid, lastRecv>>

\* No record is due: the loop ends and the mutex is released.
SweepEnd(t) ==
    /\ pc[t] = "sweep"
    /\ Expired(t) = {}
    /\ connMtx' = NULL
    /\ Return(t)
    /\ UNCHANGED <<table, nextHandle, cid, sockets, closedPosted, pending, clock,
                   phase, lastRecv>>

-----------------------------------------------------------------------------
(* The event threads: PollingThread::DoWork calling OnEventProcess.         *)

\* One event of an epoll_wait result.  An error flag wins over a data flag, and
\* the event carries only the connection id.
PollEvent(t, c) ==
    /\ pc[t] = "idle" /\ Polling
    /\ LET e == EpollOf(t)
           flags == {k \in {"io", "error"} : <<c, k>> \in ready[e]}
       IN /\ flags # {}
          /\ ready' = [ready EXCEPT ![e] = @ \ {<<c, k>> : k \in flags}]
          /\ IF CheckConnectionId(c)
             THEN Enter(t, IF "error" \in flags THEN "error" ELSE e, cid[c], TRUE, NULL)
             ELSE UNCHANGED locals
    /\ UNCHANGED <<table, connMtx, nextHandle, cid, online, closedPosted, pending,
                   clock, phase, lastRecv>>

\* OnRecvEvent around DoRecvEvent: data or EAGAIN on an open socket and the
\* deadline is refreshed; end of stream, an error, a protocol error or a socket
\* another thread has closed and the connection is shut down.
DoRecvEvent(t) ==
    /\ pc[t] = "do" /\ op[t] = "recv"
    /\ \/ /\ con[t] \in online
          /\ lastRecv' = [lastRecv EXCEPT ![con[t]] = now]
          /\ Goto(t, "refresh")
       \/ /\ con[t] \in online
          /\ UNCHANGED lastRecv
          /\ Goto(t, "refresh")
       \/ /\ UNCHANGED lastRecv
          /\ Goto(t, "check")
    /\ UNCHANGED <<table, connMtx, nextHandle, cid, sockets, closedPosted, pending,
                   clock, phase, op, idx, con, notify, at, tid>>

\* OnSendEvent around DoSendEvent, which reports no error whatever send returns.
DoSendEvent(t) ==
    /\ pc[t] = "do" /\ op[t] = "send"
    /\ Goto(t, "refresh")
    /\ UNCHANGED <<table, connMtx, nextHandle, cid, sockets, closedPosted, pending,
                   clock, phase, op, idx, con, notify, at, tid, lastRecv>>

-----------------------------------------------------------------------------
(* The public API, through an Endpoint attached at any time before.         *)

\* CloseEndpoint, up to its GetConnection.
CloseEndpoint(t) ==
    /\ phase # "done"
    /\ \E c \in Handles, n \in BOOLEAN :
          CheckConnectionId(c) /\ Enter(t, "close", cid[c], n, NULL)
    /\ UNCHANGED <<table, connMtx, nextHandle, cid, sockets, closedPosted, pending,
                   clock, phase, lastRecv>>

\* SendMsg, up to its GetConnection.
SendMsg(t) ==
    /\ phase # "done"
    /\ \E c \in Handles :
          CheckConnectionId(c) /\ Enter(t, "sendmsg", cid[c], FALSE, NULL)
    /\ UNCHANGED <<table, connMtx, nextHandle, cid, sockets, closedPosted, pending,
                   clock, phase, lastRecv>>

\* Connection::SendMsg: an open socket is armed for writing once more.
ConnectionSendMsg(t) ==
    /\ pc[t] = "do" /\ op[t] = "sendmsg"
    /\ Return(t)
    /\ online' = Referenced(online, mgr, con')
    /\ ready' = IF con[t] \in online'
                THEN [EventsOf(online') EXCEPT !["send"] = @ \cup {<<con[t], "io">>}]
                ELSE EventsOf(online')
    /\ UNCHANGED <<table, connMtx, nextHandle, cid, closedPosted, pending, clock, phase,
                   lastRecv>>

-----------------------------------------------------------------------------
(* The heartbeat timer.                                                     *)

\* Timer::WorkThread hands an expired delay to OnTimer(index, handle id); it tests
\* the flag of Timer::Shutdown only after some delays.
TimerFire(t, c) ==
    /\ Polling \/ phase = "timer"
    /\ pending[c] > 0
    /\ pending' = [pending EXCEPT ![c] = @ - 1]
    /\ Enter(t, "timer", cid[c], FALSE, c)
    /\ UNCHANGED <<table, connMtx, nextHandle, cid, sockets, closedPosted, clock, phase,
                   lastRecv>>

\* The delay was set for this very connection, which is still online.
BeatsForIndex(t) == con[t] = idx[t] /\ con[t] \in online
BeatsForAnyone(t) == con[t] \in online
Beats(t) == con[t] = tid[t] /\ con[t] \in online

\* OnTimer: beat and set the next delay, for the same connection still online.
OnTimer(t) ==
    /\ pc[t] = "do" /\ op[t] = "timer"
    /\ pending' = IF Beats(t) THEN SetTimer(tid[t]) ELSE pending
    /\ Return(t)
    /\ online' = Referenced(online, mgr, con')
    /\ ready' = EventsOf(online')
    /\ UNCHANGED <<table, connMtx, nextHandle, cid, closedPosted, clock, phase, lastRecv>>

-----------------------------------------------------------------------------
(* Container shutdown.                                                      *)

BeginShutdown ==
    /\ phase = "run"
    /\ phase' = "stopping"
    /\ UNCHANGED <<table, connMtx, nextHandle, cid, sockets, closedPosted, pending,
                   clock, locals, lastRecv>>

\* The receive and the send threads are joined, and Timer::Shutdown sets its flag.
JoinPollers ==
    /\ phase = "stopping"
    /\ \A t \in Pollers \cup Backs : pc[t] = "idle"
    /\ phase' = "timer"
    /\ UNCHANGED <<table, connMtx, nextHandle, cid, sockets, closedPosted, pending,
                   clock, locals, lastRecv>>

\* It joins the timer thread and drops the delays that are left.
JoinTimer ==
    /\ phase = "timer"
    /\ \A t \in Timers : pc[t] = "idle"
    /\ phase' = "mq"
    /\ pending' = [c \in Handles |-> 0]
    /\ UNCHANGED <<table, connMtx, nextHandle, cid, sockets, closedPosted, clock, locals,
                   lastRecv>>

\* The message-queue threads are joined too; the application's own threads are
\* expected to have left the container.
JoinedPollers == \A t \in Pollers : pc[t] = "idle"
Joined == \A t \in Threads : pc[t] = "idle"

\* Then every connection left is shut down without a close event and the table is
\* emptied.
FinishShutdown ==
    /\ phase = "mq" /\ connMtx = NULL
    /\ Joined
    /\ phase' = "done"
    /\ size' = 0
    /\ mgr' = [i \in {} |-> NULL]
    /\ second' = [i \in {} |-> NULL]
    /\ records' = {}
    /\ free' = <<>>
    /\ online' = online \ {mgr[i] : i \in Slots}
    /\ ready' = EventsOf(online')
    /\ UNCHANGED <<connMtx, nextHandle, cid, closedPosted, pending, clock, locals,
                   lastRecv>>

-----------------------------------------------------------------------------
(* The environment: the peers and the clock.                                *)

PeerSends ==
    /\ phase # "done"
    /\ \E c \in online : ready' = [ready EXCEPT !["recv"] = @ \cup {<<c, "io">>}]
    /\ UNCHANGED <<table, connMtx, nextHandle, cid, online, closedPosted, pending,
                   clock, phase, locals, lastRecv>>

\* EPOLLRDHUP is set for both registrations, so both epolls report a hang-up.
PeerCloses ==
    /\ phase # "done"
    /\ \E c \in online : ready' = [e \in Epolls |-> ready[e] \cup {<<c, "error">>}]
    /\ UNCHANGED <<table, connMtx, nextHandle, cid, online, closedPosted, pending,
                   clock, phase, locals, lastRecv>>

Tick ==
    /\ now < MaxTime /\ phase # "done"
    /\ now' = now + 1
    /\ UNCHANGED <<table, connMtx, nextHandle, cid, sockets, closedPosted, pending,
                   lastCheck, phase, locals, lastRecv>>

\* All threads have ended.
Stopped == phase = "done" /\ UNCHANGED vars

-----------------------------------------------------------------------------
\* The steps that finish a handler a thread is in.
HandlerStep(t) ==
    \/ GetConnection(t)
    \/ ShutdownCheck(t)
    \/ ShutdownClose(t)
    \/ DeleteConnection(t)
    \/ RefreshTime(t)

SweepStep(t) ==
    \/ SweepThrottle(t)
    \/ SweepLock(t)
    \/ SweepNext(t)
    \/ SweepErase(t)
    \/ SweepEnd(t)

AppCall(t) == AttachEndpoint(t) \/ CloseEndpoint(t) \/ SendMsg(t)

Next ==
    \/ \E t \in Threads : HandlerStep(t)
    \/ \E t \in Pollers : DoRecvEvent(t) \/ SweepStep(t)
    \/ \E t \in Backs : DoSendEvent(t)
    \/ \E t \in Pollers \cup Backs, c \in Handles : PollEvent(t, c)
    \/ \E t \in Timers, c \in Handles : TimerFire(t, c)
    \/ \E t \in Timers : OnTimer(t)
    \/ \E t \in Apps : AppCall(t) \/ ConnectionSendMsg(t)
    \/ BeginShutdown
    \/ JoinPollers
    \/ JoinTimer
    \/ FinishShutdown
    \/ PeerSends
    \/ PeerCloses
    \/ Tick
    \/ Stopped

Spec == Init /\ [][Next]_vars

(* Every thread finishes the handler it is in, the sweep and the timer run on,
   an event is polled in the end and a delay fires in the end: epoll keeps its
   ready list, and the Timer its delays, in order, so a thread that goes on
   taking from them reaches every entry.  Timer::Shutdown goes on when the thread
   that it waits for has ended its loop. *)
Fairness ==
    /\ \A t \in Threads : WF_vars(HandlerStep(t))
    /\ \A t \in Pollers : WF_vars(DoRecvEvent(t)) /\ WF_vars(SweepStep(t))
    /\ \A t \in Backs : WF_vars(DoSendEvent(t))
    /\ \A t \in Pollers \cup Backs, c \in Handles : SF_vars(PollEvent(t, c))
    /\ \A t \in Timers, c \in Handles : SF_vars(TimerFire(t, c) /\ Polling)
    /\ WF_vars(JoinTimer)
    /\ \A t \in Timers : WF_vars(OnTimer(t))
    /\ \A t \in Apps : WF_vars(ConnectionSendMsg(t))

FairSpec == Spec /\ Fairness

-----------------------------------------------------------------------------
(* Properties.                                                              *)

\* Attached(c): some slot of the table holds connection c.
Attached(c) == \E i \in Slots : mgr[i] = c

\* _free_index_list holds every empty slot exactly once and no occupied one:
\* a slot is neither leaked nor handed out while a connection lives in it.
FreeListExact ==
    /\ \A j, k \in 1 .. Len(free) : free[j] = free[k] => j = k
    /\ \A i \in Slots : (mgr[i] = NULL) <=> (\E j \in 1 .. Len(free) : free[j] = i)

\* Every occupied slot owns exactly one timeout record, the one its iterator
\* names, and no record outlives its connection: the erase of a slot's iterator
\* is defined, and OnTimeoutCheck never dereferences an empty slot.
RecordsExact ==
    /\ \A i \in Slots : mgr[i] # NULL => second[i] \in records /\ second[i][2] = i
    /\ \A r \in records : r[2] \in Slots /\ mgr[r[2]] # NULL /\ second[r[2]] = r

\* The index a thread carries from CheckConnectionId or a timeout record to its
\* next critical section is inside _mgr, although only MaxSize bounds it in the
\* check: _mgr[index] is never out of range.
IndexInRange == \A t \in Threads : pc[t] \notin {"idle", "stamp", "sweep"} => idx[t] \in Slots

\* With DefaultSize <= MaxSize, expansion never takes the table over MaxSize.
WithinMaxSize == DefaultSize <= MaxSize => size <= MaxSize

\* An occupied slot never changes hands in one step: its connection leaves
\* first.  No connection is lost by being overwritten.
NoOverwrite ==
    [][\A i \in Slots : mgr[i] # NULL /\ i < size' => mgr'[i] \in {mgr[i], NULL}]_vars

\* A connection that OnTimeoutCheck closes received nothing for Timeout, or
\* another receive thread has read from it and waits for _conn_mtx to move the
\* deadline: with one such thread, which also runs the sweep, it was silent.
TimeoutOnlyWhenSilent ==
    [][\A t \in Pollers : pc[t] = "close" /\ op[t] = "sweep" /\ pc'[t] = "erase"
            => \/ at[t] - lastRecv[con[t]] >= Timeout
               \/ \E p \in Pollers \ {t} : pc[p] = "refresh" /\ con[p] = con[t]]_vars

\* A thread is about to delete the connection of its slot, which is not the one it
\* has shut down but a later one: that one was deleted by another thread, and the
\* index was given away again.
StaleDelete(c) ==
    \E t \in Threads : pc[t] = "delete" /\ mgr[idx[t]] = c /\ con[t] # NULL /\ con[t] < c

\* No open connection leaves the table, and none of the table is closed, unannounced:
\* it was closed with a close event, or by the application without asking for one,
\* or by the container's shutdown.  The one way to lose it silently is to get an index
\* that another thread still has to delete, and the victim is then always the later
\* connection.
NoSilentLoss ==
    [][\A c \in online : Attached(c) /\ (c \notin online' \/ ~Attached(c)') =>
            \/ c \in closedPosted'
            \/ \E t \in Apps : pc[t] = "close" /\ con[t] = c /\ ~notify[t]
            \/ phase' = "done"
            \/ StaleDelete(c)]_vars

\* Container shutdown leaves no socket of an attached connection open.
ShutdownClosesAll == phase = "done" => online = {}

\* Until the Timer is shut down an online attached connection has exactly one delay
\* pending or in the hands of the timer thread: its heartbeat neither stops nor
\* doubles.
HeartbeatChain ==
    Timers # {} /\ Polling => \A c \in Handles : c \in online /\ Attached(c) =>
        pending[c] + Cardinality({t \in Timers : tid[t] = c}) = 1

\* A hang-up reported by the receive epoll leads to the slot being freed, unless
\* Shutdown has joined the receive threads and will empty the table itself.
HangupFreesSlot ==
    \A c \in Handles : <<c, "error">> \in ready["recv"] ~> ~Attached(c) \/ ~Polling

\* The delays set for a connection that is gone run out for good, or are dropped:
\* none is set again for the one that has its slot now.
DeadTimersEnd ==
    \A c \in Handles :
        c < nextHandle /\ ~Attached(c) ~> [](pending[c] = 0)
=============================================================================
