---------------------------- MODULE IocpSockets -----------------------------
(***************************************************************************)
(* TcpConnector and TcpListener on Windows, and the completion port that   *)
(* they share: all PollingThreads of a process are one IocpThreadAdaptor,  *)
(* whose threads belong to the first instance (iocp_thread.cc).            *)
(*                                                                         *)
(* An operation is a ConnectEx with its async_connect_record_entry, or an  *)
(* AcceptEx with its AcceptObject; a thread takes its completion off the   *)
(* port and finds the object to call by the socket.  One port is listened  *)
(* on.  Freed memory is not reused, and what is read from it is what was   *)
(* there.                                                                  *)
(***************************************************************************)
EXTENDS WindowsSetting, FiniteSets, FiniteSetsExt

CONSTANTS
    Workers,      \* threads of the completion port
    Callers,      \* threads of the application that call Connect
    MaxConnects,  \* bound: calls of Connect that make a socket
    ListenThreads,\* _threads of the listener
    MaxHandles    \* bound: sockets made

ASSUME HandlesAssumption == MaxConnects \in Nat /\ ListenThreads \in Nat \ {0} /\ MaxHandles \in Nat

Connects == 1 .. MaxConnects
Accepts  == MaxConnects + 1 .. MaxConnects + ListenThreads + 1
Ops      == Connects \cup Accepts
Handles  == 1 .. MaxHandles
Owners   == {"connector", "listener"}

VARIABLES
    first,     \* whose PollingThread has instance id 1
    mem,       \* per operation its memory: "none", "live", "freed"
    io,        \* per operation: "idle", "pending", "ok" or "failed" on the port's queue
    fdOf,      \* per operation its socket, or 0
    handle,    \* per socket: "none", "open", "closed"
    made,      \* sockets made so far
    records,   \* TcpConnector::_records
    listenFd,  \* the listening socket, or 0
    arming,    \* AddListeningPort: the accept it starts next, or 0
    services,  \* the sockets in _interesting_event_services
    portStop,  \* IocpThread::_shutdown
    exitPost,  \* whether the _exit packet is on the queue
    stop,      \* per object, its Shutdown: "no", "close", "delete", "undefined", "port", "join", "done"
    doomed,    \* the accepts that TcpListener::Shutdown has still to delete
    wpc,       \* per thread of the port, its next step
    wop,       \* and the operation it handles, or 0
    cpc,       \* per caller: "idle", "record", "start"
    cop,       \* and its entry, or 0
    held,      \* the sockets whose endpoints the application has
    outcome,   \* history: per connect, how its ConnectEx ended: "none", "ok", "failed"
    answered,  \* history: per connect, the calls of its handler
    late       \* history: the connects recorded after Shutdown has cleared _records

opVars     == <<mem, io, fdOf>>
handleVars == <<handle, made>>
objVars    == <<records, listenFd, arming, services>>
portVars   == <<first, portStop, exitPost>>
workVars   == <<wpc, wop>>
callVars   == <<cpc, cop>>
stopVars   == <<stop, doomed>>
userVars   == <<held, outcome, answered, late>>
sockVars   == <<opVars, handleVars, objVars, portVars, stopVars, workVars, callVars, userVars>>

SockTypeOK ==
    /\ mem \in [Ops -> {"none", "live", "freed"}]
    /\ io \in [Ops -> {"idle", "pending", "ok", "failed"}]
    /\ fdOf \in [Ops -> 0 .. made] /\ made \in 0 .. MaxHandles
    /\ handle \in [Handles -> {"none", "open", "closed"}]
    /\ records \subseteq Connects /\ services \subseteq Handles
    /\ stop \in [Owners -> {"no", "close", "delete", "undefined", "port", "join", "done"}]
    /\ doomed \subseteq Accepts
    /\ wpc \in [Workers -> {"new", "poll", "connect", "erase", "accept", "rearm",
                            "shutdown", "exit"}]
    /\ \A w \in Workers : wpc[w] \in {"connect", "erase"} => wop[w] \in Connects
    /\ \A w \in Workers : wpc[w] \in {"accept", "rearm"} => wop[w] \in Accepts

\* After Init of both objects, in either order; the threads wait to be started.
SockInit ==
    /\ first \in Owners
    /\ mem = [o \in Ops |-> "none"] /\ io = [o \in Ops |-> "idle"] /\ fdOf = [o \in Ops |-> 0]
    /\ handle = [s \in Handles |-> "none"] /\ made = 0
    /\ records = {} /\ listenFd = 0 /\ arming = 0 /\ services = {}
    /\ portStop = FALSE /\ exitPost = FALSE
    /\ stop = [p \in Owners |-> "no"] /\ doomed = {}
    /\ wpc = [w \in Workers |-> "new"] /\ wop = [w \in Workers |-> 0]
    /\ cpc = [c \in Callers |-> "idle"] /\ cop = [c \in Callers |-> 0]
    /\ held = {} /\ outcome = [o \in Connects |-> "none"] /\ answered = [o \in Connects |-> 0]
    /\ late = {}

-----------------------------------------------------------------------------
\* A new socket, the next number.
MakeHandle == made < MaxHandles /\ made' = made + 1
OpenHandle == MakeHandle /\ handle' = [handle EXCEPT ![made + 1] = "open"]
Closed(ss) == [s \in Handles |-> IF s \in ss THEN "closed" ELSE handle[s]]
IsOpen(s) == s # 0 /\ handle[s] = "open"

\* PollingThread::Add, refused once Shutdown has returned
Register(p, s) == services' = IF stop[p] = "done" THEN services ELSE services \cup {s}

\* The first instance starts the threads for all.
StartThreads ==
    /\ stop[first] = "no" /\ \E w \in Workers : wpc[w] = "new"
    /\ wpc' = [w \in Workers |-> "poll"]
    /\ UNCHANGED <<opVars, handleVars, objVars, portVars, stopVars, wop, callVars, userVars>>

-----------------------------------------------------------------------------
(* TcpConnector::Connect                                                    *)

ConnectPrepares == \E o \in ConnectSocket(V4("1", 80)) : ~o.err /\ o.sock.open

\* The entry is made and its socket prepared; if that fails both are gone again.
InternalConnect(c) ==
    /\ cpc[c] = "idle" /\ ConnectPrepares /\ OpenHandle
    /\ \E e \in Connects :
        /\ mem[e] = "none" /\ \A d \in Connects : d < e => mem[d] # "none"
        /\ mem' = [mem EXCEPT ![e] = "live"]
        /\ fdOf' = [fdOf EXCEPT ![e] = made + 1]
        /\ cop' = [cop EXCEPT ![c] = e]
    /\ cpc' = [cpc EXCEPT ![c] = "record"]
    /\ UNCHANGED <<io, objVars, portVars, stopVars, workVars, userVars>>

\* It is recorded and the socket added to the port, under _mtex.
RecordConnect(c) ==
    /\ cpc[c] = "record"
    /\ records' = records \cup {cop[c]}
    /\ Register("connector", fdOf[cop[c]])
    /\ late' = IF stop["connector"] \in {"no", "close"} THEN late ELSE late \cup {cop[c]}
    /\ cpc' = [cpc EXCEPT ![c] = "start"]
    /\ UNCHANGED <<opVars, handleVars, listenFd, arming, portVars, stopVars, workVars, cop, held, outcome,
                   answered>>

\* ConnectEx begins.  A socket that is not with the port makes no completion.
StartConnectEx(c) ==
    LET e == cop[c]
    IN /\ cpc[c] = "start" /\ IsOpen(fdOf[e])
       /\ io' = [io EXCEPT ![e] = IF fdOf[e] \in services THEN "pending" ELSE "idle"]
       /\ cpc' = [cpc EXCEPT ![c] = "idle"]
       /\ cop' = [cop EXCEPT ![c] = 0]
       /\ UNCHANGED <<mem, fdOf, handleVars, objVars, portVars, stopVars, workVars, userVars>>

\* It fails at once: the socket is closed and the entry deleted, but not erased
\* from _records.
ConnectExFails(c) ==
    LET e == cop[c]
    IN /\ cpc[c] = "start"
       /\ handle' = Closed({fdOf[e]})
       /\ mem' = [mem EXCEPT ![e] = "freed"]
       /\ cpc' = [cpc EXCEPT ![c] = "idle"]
       /\ cop' = [cop EXCEPT ![c] = 0]
       /\ UNCHANGED <<io, fdOf, made, objVars, portVars, stopVars, workVars, userVars>>

-----------------------------------------------------------------------------
(* TcpListener::AddListeningPort                                            *)

ListenPrepares == \E o \in WinListeningSocket(V4("0", 80)) : ~o.err /\ o.sock.open
AcceptPrepares == \E o \in AcceptSocket(MappedForm(V4("0", 80))) : ~o.err /\ o.sock.open

AddListeningPort ==
    /\ listenFd = 0 /\ stop["listener"] = "no"
    /\ ListenPrepares /\ OpenHandle
    /\ listenFd' = made + 1
    /\ Register("listener", made + 1)
    /\ arming' = MaxConnects + 1
    /\ UNCHANGED <<opVars, records, portVars, stopVars, workVars, callVars, userVars>>

\* StartAcceptEx for o: a new socket waits to be the next accepted one.
StartAcceptEx(o) ==
    /\ AcceptPrepares /\ IsOpen(listenFd) /\ OpenHandle
    /\ fdOf' = [fdOf EXCEPT ![o] = made + 1]
    /\ io' = [io EXCEPT ![o] = "pending"]

\* ListenThreads + 1 accepts are started; the first that fails ends it, and the
\* port stays with those before it.
ArmAccept ==
    /\ arming # 0 /\ StartAcceptEx(arming)
    /\ mem' = [mem EXCEPT ![arming] = "live"]
    /\ arming' = IF arming + 1 \in Accepts THEN arming + 1 ELSE 0
    /\ UNCHANGED <<records, listenFd, services, portVars, stopVars, workVars, callVars, userVars>>
ArmFails ==
    /\ arming # 0
    /\ arming' = 0
    /\ UNCHANGED <<opVars, handleVars, records, listenFd, services, portVars, stopVars, workVars, callVars,
                   userVars>>

-----------------------------------------------------------------------------
(* The kernel, and the application's use of an endpoint.                    *)

\* An operation ends; on a closed socket it fails.
Completes(o) ==
    /\ io[o] = "pending"
    /\ \E r \in {"ok", "failed"} :
        /\ r = "ok" => IsOpen(fdOf[o]) /\ (o \in Accepts => IsOpen(listenFd))
        /\ io' = [io EXCEPT ![o] = r]
        /\ outcome' = [e \in Connects |-> IF e = o THEN r ELSE outcome[e]]
    /\ UNCHANGED <<mem, fdOf, handleVars, objVars, portVars, stopVars, workVars, callVars, held, answered, late>>

\* Endpoint::Close, or that of the container it was bound to
EndpointClose(s) ==
    /\ s \in held
    /\ held' = held \ {s}
    /\ handle' = Closed({s})
    /\ UNCHANGED <<opVars, made, objVars, portVars, stopVars, workVars, callVars, outcome, answered, late>>

-----------------------------------------------------------------------------
(* The threads of the port: IocpThread::WorkThread                          *)

Goto(w, label) == wpc' = [wpc EXCEPT ![w] = label]
Queued == {o \in Ops : io[o] \in {"ok", "failed"}}

\* The test of _shutdown between two packets, or after a second without one.
LeaveLoop(w) ==
    /\ wpc[w] = "poll" /\ portStop
    /\ Goto(w, "exit")
    /\ UNCHANGED <<opVars, handleVars, objVars, portVars, stopVars, wop, callVars, userVars>>

\* The _exit packet ends one thread.
TakeExit(w) ==
    /\ wpc[w] = "poll" /\ exitPost
    /\ exitPost' = FALSE
    /\ Goto(w, "exit")
    /\ UNCHANGED <<opVars, handleVars, objVars, first, portStop, stopVars, wop, callVars, userVars>>

\* A completion, and FindEventService: dropped if nobody is registered for its
\* socket.  A failed operation keeps its event type, so it goes the same way.
Key(o) == IF o \in Connects THEN fdOf[o] ELSE listenFd
SuccessOnly(o) == Key(o) \in services /\ io[o] = "ok"
FindEventService(o) == Key(o) \in services
TakeCompletion(w) ==
    /\ wpc[w] = "poll"
    /\ \E o \in Queued :
        /\ io' = [io EXCEPT ![o] = "idle"]
        /\ \/ /\ FindEventService(o)
              /\ wop' = [wop EXCEPT ![w] = o]
              /\ Goto(w, IF o \in Connects THEN "connect" ELSE "accept")
           \/ /\ ~FindEventService(o)
              /\ UNCHANGED workVars
    /\ UNCHANGED <<mem, fdOf, handleVars, objVars, portVars, stopVars, callVars, userVars>>

\* TcpConnector::OnEventProcess.  kErrorEvent is never set, so OnConnect is also
\* called for a connect that failed, and OnErrorOccurred never.
OnConnect(w) ==
    /\ wpc[w] = "connect"
    /\ held' = held \cup {fdOf[wop[w]]}
    /\ answered' = [answered EXCEPT ![wop[w]] = @ + 1]
    /\ Goto(w, "erase")
    /\ UNCHANGED <<opVars, handleVars, objVars, portVars, stopVars, wop, callVars, outcome, late>>

\* ProcessProperty; the record is erased, under _mtex, and its entry deleted if
\* it was there: Shutdown may have cleared them.
DeleteErased(e) == [mem EXCEPT ![e] = IF e \in records THEN "freed" ELSE @]
FinishConnect(w) ==
    /\ wpc[w] = "erase"
    /\ records' = records \ {wop[w]}
    /\ mem' = DeleteErased(wop[w])
    /\ Goto(w, "poll")
    /\ wop' = [wop EXCEPT ![w] = 0]
    /\ UNCHANGED <<io, fdOf, handleVars, listenFd, arming, services, portVars, stopVars, callVars, userVars>>

\* TcpListener::OnEventProcess
OnAccept(w) ==
    /\ wpc[w] = "accept"
    /\ held' = held \cup {fdOf[wop[w]]}
    /\ Goto(w, "rearm")
    /\ UNCHANGED <<opVars, handleVars, objVars, portVars, stopVars, wop, callVars, outcome, answered, late>>

\* The endpoint has the socket now, and the accept is started again.
Rearm(w) ==
    /\ wpc[w] = "rearm" /\ StartAcceptEx(wop[w])
    /\ Goto(w, "poll")
    /\ wop' = [wop EXCEPT ![w] = 0]
    /\ UNCHANGED <<mem, objVars, portVars, stopVars, callVars, userVars>>

-----------------------------------------------------------------------------
(* Shutdown, by the application or by a thread of the port.                 *)

BeginShutdown(p) ==
    /\ stop[p] = "no"
    /\ stop' = [stop EXCEPT ![p] = "close"]
    /\ UNCHANGED doomed

ShutdownByApplication(p) ==
    /\ BeginShutdown(p)
    /\ UNCHANGED <<opVars, handleVars, objVars, portVars, workVars, callVars, userVars>>

\* The accept cannot be started again: the listener shuts itself down.
RearmFails(w) ==
    /\ wpc[w] = "rearm"
    /\ fdOf' = [fdOf EXCEPT ![wop[w]] = 0]
    /\ wop' = [wop EXCEPT ![w] = 0]
    /\ \/ BeginShutdown("listener") /\ Goto(w, "shutdown")
       \/ stop["listener"] # "no" /\ Goto(w, "poll") /\ UNCHANGED stopVars
    /\ UNCHANGED <<mem, io, handleVars, objVars, portVars, callVars, userVars>>

\* TcpConnector::Shutdown, under _mtex: the sockets are closed and taken from the
\* map, and the records cleared.  The entries are not deleted.
Owned == {fdOf[e] : e \in records}
DeleteRecords == [o \in Ops |-> IF o \in records THEN "freed" ELSE mem[o]]
KeepRecords == mem
ConnectorCloses ==
    /\ stop["connector"] = "close"
    /\ handle' = Closed(Owned)
    /\ services' = services \ Owned
    /\ records' = {}
    /\ mem' = KeepRecords
    /\ stop' = [stop EXCEPT !["connector"] = "port"]
    /\ UNCHANGED <<io, fdOf, made, listenFd, arming, portVars, doomed, workVars, callVars, userVars>>

\* TcpListener::Shutdown holds no lock.  It copies the head of the list of
\* AcceptObjects, if a port was added.
ListenerCopies ==
    /\ stop["listener"] = "close"
    /\ stop' = [stop EXCEPT !["listener"] = IF listenFd = 0 THEN "port" ELSE "delete"]
    /\ doomed' = {o \in Accepts : mem[o] = "live"}
    /\ UNCHANGED <<opVars, handleVars, objVars, portVars, workVars, callVars, userVars>>

\* raptor_list_pop_back and delete, whatever the operation does: ~AcceptObject
\* closes new_socket.
DeleteAccept ==
    /\ stop["listener"] = "delete" /\ doomed # {}
    /\ \E o \in {Max(doomed)} :
        /\ doomed' = doomed \ {o}
        /\ mem' = [mem EXCEPT ![o] = "freed"]
        /\ handle' = Closed({fdOf[o]})
    /\ UNCHANGED <<io, fdOf, made, objVars, portVars, stop, workVars, callVars, userVars>>

\* The entries lead back to the head in _heads, which is not the copy: the list
\* is not found empty, the head itself is popped and deleted, and what follows is
\* undefined.  The listening socket is neither taken from the map nor closed.  The
\* model lets the other threads go on.
DeleteHead ==
    /\ stop["listener"] = "delete" /\ doomed = {}
    /\ stop' = [stop EXCEPT !["listener"] = "undefined"]
    /\ UNCHANGED <<opVars, handleVars, objVars, portVars, doomed, workVars, callVars, userVars>>

\* PollingThread::Shutdown: only the first instance stops the threads.
StopByPacket(p) == UNCHANGED portStop
StopByFlag(p) == portStop' = (portStop \/ p = first)
ShutdownPort(p) ==
    /\ stop[p] = "port"
    /\ StopByFlag(p)
    /\ exitPost' = (exitPost \/ p = first)
    /\ stop' = [stop EXCEPT ![p] = IF p = first THEN "join" ELSE "done"]
    /\ UNCHANGED <<opVars, handleVars, objVars, first, doomed, workVars, callVars, userVars>>

JoinedAll == \A w \in Workers : wpc[w] \in {"new", "exit"}
JoinThreads(p) ==
    /\ stop[p] = "join" /\ JoinedAll
    /\ stop' = [stop EXCEPT ![p] = "done"]
    /\ UNCHANGED <<opVars, handleVars, objVars, portVars, doomed, workVars, callVars, userVars>>

-----------------------------------------------------------------------------
CallStep(c) == RecordConnect(c) \/ StartConnectEx(c) \/ ConnectExFails(c)
WorkStep(w) ==
    \/ LeaveLoop(w) \/ TakeExit(w) \/ TakeCompletion(w)
    \/ OnConnect(w) \/ FinishConnect(w) \/ OnAccept(w) \/ Rearm(w) \/ RearmFails(w)
ConnectorStep == ConnectorCloses \/ ShutdownPort("connector") \/ JoinThreads("connector")
ListenerStep ==
    ListenerCopies \/ DeleteAccept \/ DeleteHead \/ ShutdownPort("listener") \/ JoinThreads("listener")

SockNext ==
    \/ StartThreads \/ AddListeningPort \/ ArmAccept \/ ArmFails
    \/ \E c \in Callers : InternalConnect(c) \/ CallStep(c)
    \/ \E o \in Ops : Completes(o)
    \/ \E s \in Handles : EndpointClose(s)
    \/ \E w \in Workers : WorkStep(w)
    \/ \E p \in Owners : ShutdownByApplication(p)
    \/ ConnectorStep \/ ListenerStep

\* The threads of the port go on, connects end, and Shutdown is carried through.
SockFairness ==
    /\ \A w \in Workers : WF_sockVars(WorkStep(w))
    /\ \A e \in Connects : WF_sockVars(Completes(e))
    /\ WF_sockVars(ConnectorStep) /\ WF_sockVars(ListenerStep)

-----------------------------------------------------------------------------
(* Properties.                                                              *)

Handling(o) == {w \in Workers : wop[w] = o}

\* Memory that the kernel or a thread of the port uses is not freed: an entry
\* stays until its ConnectEx has been answered, though Shutdown clears the records
\* meanwhile.  The accepts hold to it only up to the listener's Shutdown, which
\* deletes them while they are pending.
InUseIsLive ==
    \A o \in Ops :
        (io[o] # "idle" \/ Handling(o) # {}) =>
            mem[o] = "live" \/ (o \in Accepts /\ stop["listener"] # "no")

\* Before any Shutdown every open socket has exactly one part that will close it:
\* its operation, the endpoint made of it, or the listener; and an endpoint's
\* operation is over or about to be.
OneOwnerEach ==
    (\A p \in Owners : stop[p] = "no") =>
        \A s \in Handles : IsOpen(s) =>
            Cardinality({o \in Ops : fdOf[o] = s /\ mem[o] = "live"
                                     /\ ~\E w \in Handling(o) : wpc[w] \in {"erase", "rearm"}}
                        \cup ({0} \cap {IF s \in held THEN 0 ELSE 1})
                        \cup ({-1} \cap {IF s = listenFd THEN -1 ELSE 1})) = 1

\* As long as the listener is up each of its accepts is waiting, on its way to the
\* handler, or being handled: a connection that fails, or a handler that closes
\* the endpoint, does not use one up.
AcceptsArmed ==
    stop["listener"] = "no" =>
        \A o \in Accepts : mem[o] = "live" => io[o] # "idle" \/ Handling(o) # {}

\* When the connector's Shutdown has returned none of its sockets is open but those
\* whose endpoints a handler has or is being given, and those of connects that
\* another thread was making meanwhile: such a one is recorded after Shutdown has
\* cleared the records, or is still to be.
ShutdownClosesOwned ==
    stop["connector"] = "done" =>
        \A e \in Connects : IsOpen(fdOf[e]) =>
            \/ fdOf[e] \in held \/ Handling(e) # {}
            \/ e \in late \/ \E c \in Callers : cop[c] = e

\* When the Shutdown of the first instance has returned no thread runs a handler,
\* of either object, and none will.
QuietAfterFirst == stop[first] = "done" => \A w \in Workers : wpc[w] \in {"new", "exit"}

\* The handler hears of a connect that has begun, however it ends, and once, unless
\* the connector, or the object that owns the threads, is shut down.  What it hears
\* is another matter: see ConnectMeansEstablished.
ConnectExAnswered ==
    \A e \in Connects :
        (io[e] = "pending" /\ \A w \in Workers : wpc[w] # "new")
            ~> (answered[e] = 1 \/ stop["connector"] # "no" \/ stop[first] # "no")

\* OnConnect is called only for a connection that was established (src/doc/property.md:80).
ConnectMeansEstablished == \A e \in Connects : answered[e] > 0 => outcome[e] = "ok"

\* Shutdown returns, though one packet is posted for all the threads: the others
\* see the flag.  That of a listener with a port is the exception, and so is that of
\* the connector when a thread it waits for is in the listener's.
ShutdownOfPortEnds ==
    /\ (stop["connector"] = "close")
        ~> (stop["connector"] = "done" \/ \E w \in Workers : wpc[w] = "shutdown")
    /\ (stop["listener"] = "close") ~> (stop["listener"] = "done" \/ listenFd # 0)

\* Operations, their memory and their sockets stay together, and no accept is lost.
OperationsSafe == SockTypeOK /\ InUseIsLive /\ OneOwnerEach /\ AcceptsArmed

\* Shutdown returns; when it has, the connector's sockets are closed, and after that
\* of the first instance no handler runs.
PortShutdown == [](ShutdownClosesOwned /\ QuietAfterFirst) /\ ShutdownOfPortEnds
=============================================================================
