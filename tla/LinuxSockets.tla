---------------------------- MODULE LinuxSockets ----------------------------
(***************************************************************************)
(* Who owns which descriptor on Linux: TcpConnector (tcp_connector.cc) and *)
(* TcpListener (tcp_listener.cc), each with its polling thread, the        *)
(* endpoints they hand to the application, and the application's threads.  *)
(* The kernel gives out the lowest free descriptor, so a descriptor closed *)
(* once too often is another socket's.                                     *)
(*                                                                         *)
(* Both objects have been created with one polling thread, the default.    *)
(***************************************************************************)
EXTENDS Settings, FiniteSets, FiniteSetsExt

CONSTANTS
    Users,        \* threads of the application
    MaxSockets,   \* bound: sockets made
    Fds           \* bound: the descriptors the process may have open

ASSUME DescriptorsAssumption == Fds \subseteq Nat \ {0} /\ IsFiniteSet(Fds) /\ MaxSockets \in Nat

Socks == 1 .. MaxSockets
Pollers == {"connector", "listener"}

MaxPending == 1   \* bound: connections waiting to be accepted

VARIABLES
    files,     \* per descriptor, the socket it denotes, or 0
    fdOf,      \* per socket, the number its descriptor has or had
    made,      \* sockets made so far
    net,       \* per socket, its outgoing connection: "none", "connecting", "up", "failed"
    pending,   \* connections waiting to be accepted
    records,   \* TcpConnector::_records, by socket
    listening, \* the list of TcpListener, by socket
    epoll,     \* per polling thread, the sockets in its epoll
    stop,      \* per object: "no", "flag" (_shutdown), "joined" (epoll closed), "done"
    pc,        \* per polling thread, its next step
    cur,       \* the socket it handles
    batch,     \* the sockets with events of this epoll_wait that it has not handled
    held,      \* per socket, its endpoint: "nobody", "out" with the application, "closed"
    upc,       \* per application thread, its next step
    usock,     \* and the socket it works on
    answered,  \* history: per socket, the number of OnConnect and OnErrorOccurred calls
    foreign,   \* history: a close hit a descriptor that was not the socket's
    due        \* history: per object, the sockets it had when Shutdown began

kernel == <<files, fdOf, made, net, pending>>
lib    == <<records, listening, epoll, stop>>
poll   == <<pc, cur, batch>>
user   == <<upc, usock>>
vars == <<kernel, lib, poll, user, held, answered, foreign, due>>

TypeOK ==
    /\ files \in [Fds -> 0 .. made] /\ made \in 0 .. MaxSockets
    /\ pending \in 0 .. MaxPending
    /\ records \subseteq Socks /\ listening \subseteq Socks
    /\ epoll \in [Pollers -> SUBSET Socks]
    /\ stop \in [Pollers -> {"no", "flag", "joined", "done"}]
    /\ held \in [Socks -> {"nobody", "out", "closed"}]
    /\ batch \in [Pollers -> SUBSET Socks]
    /\ \A p \in Pollers : pc[p] \in {"event", "handler", "erase"} => cur[p] \in Socks
    /\ pc \in [Pollers -> {"new", "poll", "event", "handler", "erase", "exit"}]

\* After Init of both objects; their threads wait to be started.
Init ==
    /\ files = [f \in Fds |-> 0]
    /\ fdOf = [s \in Socks |-> 0]
    /\ made = 0
    /\ net = [s \in Socks |-> "none"]
    /\ pending = 0
    /\ records = {} /\ listening = {}
    /\ epoll = [p \in Pollers |-> {}]
    /\ stop = [p \in Pollers |-> "no"]
    /\ pc = [p \in Pollers |-> "new"]
    /\ cur = [p \in Pollers |-> 0]
    /\ batch = [p \in Pollers |-> {}]
    /\ held = [s \in Socks |-> "nobody"]
    /\ upc = [u \in Users |-> "idle"]
    /\ usock = [u \in Users |-> 0]
    /\ answered = [s \in Socks |-> 0]
    /\ foreign = FALSE
    /\ due = [p \in Pollers |-> {}]

-----------------------------------------------------------------------------
(* Descriptors.                                                             *)

Free == {f \in Fds : files[f] = 0}

\* socket or accept4: the lowest free descriptor
Open(s) ==
    /\ made < MaxSockets /\ Free # {}
    /\ made' = s
    /\ fdOf' = [fdOf EXCEPT ![s] = Min(Free)]
    /\ files' = [files EXCEPT ![Min(Free)] = s]

IsOpen(s) == s # 0 /\ fdOf[s] # 0 /\ files[fdOf[s]] = s

\* close(fd) for the sockets ss, each by the number it was opened with
CloseFds(ss) ==
    /\ files' = [f \in Fds |-> IF \E s \in ss : fdOf[s] = f THEN 0 ELSE files[f]]
    /\ foreign' = (foreign \/ \E s \in ss : ~IsOpen(s))

-----------------------------------------------------------------------------
(* The application's threads.                                               *)

Transition(u, from, to) ==
    /\ upc[u] = from
    /\ upc' = [upc EXCEPT ![u] = to]

\* Whether making and preparing a socket can end well, and the descriptor is open.
ClientPrepares ==
    \E o \in raptor_tcp_client_prepare_socket(V4("1", 80)) : ~o.err /\ o.sock.open
ServerPrepares ==
    \E o \in ListeningSocket(V4("0", 80), SOMAXCONN) : ~o.err /\ o.sock.open

\* Connect, AsyncConnect: the address is resolved and the socket made; if either
\* fails nothing has changed.  _shutdown is not tested.
Connect(u) ==
    /\ Transition(u, "idle", "connect")
    /\ ClientPrepares /\ Open(made + 1)
    /\ usock' = [usock EXCEPT ![u] = made + 1]
    /\ UNCHANGED <<net, pending, lib, poll, held, answered, foreign, due>>

\* connect() fails, or succeeds at once while errno holds an old value: errno is
\* tested whatever connect returned.
ConnectFails(u) ==
    /\ Transition(u, "connect", "idle")
    /\ CloseFds({usock[u]})
    /\ usock' = [usock EXCEPT ![u] = 0]
    /\ UNCHANGED <<fdOf, made, net, pending, lib, poll, held, answered, due>>

\* PollingThread::Add; without effect once the epoll is closed.
WatchNot(p, s) == UNCHANGED epoll
Watch(p, s) ==
    epoll' = [epoll EXCEPT ![p] = IF stop[p] \in {"no", "flag"} THEN @ \cup {s} ELSE @]

\* It is in progress: the record is inserted and the socket watched, under _mtex.
ConnectRecords(u) ==
    /\ Transition(u, "connect", "idle")
    /\ records' = records \cup {usock[u]}
    /\ Watch("connector", usock[u])
    /\ net' = [net EXCEPT ![usock[u]] = "connecting"]
    /\ usock' = [usock EXCEPT ![u] = 0]
    /\ UNCHANGED <<files, fdOf, made, pending, listening, stop, poll, held, answered, foreign, due>>

\* AddListeningPort: refused after Shutdown; then the socket is made and prepared.
AddListeningPort(u) ==
    /\ Transition(u, "idle", "listen")
    /\ stop["listener"] = "no"
    /\ ServerPrepares /\ Open(made + 1)
    /\ usock' = [usock EXCEPT ![u] = made + 1]
    /\ UNCHANGED <<net, pending, lib, poll, held, answered, foreign, due>>

ListenRecords(u) ==
    /\ Transition(u, "listen", "idle")
    /\ listening' = listening \cup {usock[u]}
    /\ Watch("listener", usock[u])
    /\ usock' = [usock EXCEPT ![u] = 0]
    /\ UNCHANGED <<kernel, records, stop, poll, held, answered, foreign, due>>

Start(p) ==
    /\ stop[p] = "no" /\ pc[p] = "new"
    /\ pc' = [pc EXCEPT ![p] = "poll"]
    /\ UNCHANGED <<kernel, lib, cur, batch, user, held, answered, foreign, due>>

\* Endpoint::Close, or the container that the endpoint was bound to, closes the
\* descriptor, once.
EndpointClose(s) ==
    /\ held[s] = "out"
    /\ CloseFds({s})
    /\ held' = [held EXCEPT ![s] = "closed"]
    /\ net' = [net EXCEPT ![s] = "none"]
    /\ UNCHANGED <<fdOf, made, pending, lib, poll, user, answered, due>>

-----------------------------------------------------------------------------
(* Shutdown of either object: flag, join, close.                            *)

\* Whose descriptors the object closes in the end.
Owned(p) == IF p = "connector" THEN records ELSE listening

BeginShutdown(p) ==
    /\ stop[p] = "no"
    /\ stop' = [stop EXCEPT ![p] = "flag"]
    /\ due' = [due EXCEPT ![p] = Owned(p)]
    /\ UNCHANGED <<kernel, records, listening, epoll, poll, user, held, answered, foreign>>

\* PollingThread::Shutdown joins the thread and closes the epoll.  Join starts a
\* thread that was never started, and it returns at once.
JoinedStarted(p) == pc[p] = "exit"
Joined(p) == pc[p] \in {"exit", "new"}
JoinPollThread(p) ==
    /\ stop[p] = "flag" /\ Joined(p)
    /\ stop' = [stop EXCEPT ![p] = "joined"]
    /\ epoll' = [epoll EXCEPT ![p] = {}]
    /\ UNCHANGED <<kernel, records, listening, poll, user, held, answered, foreign, due>>

\* The sockets of all records are closed and the records cleared, under _mtex.
CloseOwned(p) == CloseFds(Owned(p))
CloseAll(p) ==
    /\ stop[p] = "joined"
    /\ CloseOwned(p)
    /\ records' = IF p = "connector" THEN {} ELSE records
    /\ listening' = IF p = "listener" THEN {} ELSE listening
    /\ stop' = [stop EXCEPT ![p] = "done"]
    /\ UNCHANGED <<fdOf, made, net, pending, epoll, poll, user, held, answered, due>>

-----------------------------------------------------------------------------
(* The network.                                                             *)

ConnectResult(s) ==
    /\ net[s] = "connecting"
    /\ \E r \in {"up", "failed"} : net' = [net EXCEPT ![s] = r]
    /\ UNCHANGED <<files, fdOf, made, pending, lib, poll, user, held, answered, foreign, due>>

PeerConnects ==
    /\ pending < MaxPending /\ \E s \in listening : IsOpen(s)
    /\ pending' = pending + 1
    /\ UNCHANGED <<files, fdOf, made, net, lib, poll, user, held, answered, foreign, due>>

\* It is reset before it is accepted.
PeerWithdraws ==
    /\ pending > 0
    /\ pending' = pending - 1
    /\ UNCHANGED <<files, fdOf, made, net, lib, poll, user, held, answered, foreign, due>>

-----------------------------------------------------------------------------
(* The polling threads: PollingThread::DoWork and OnEventProcess.           *)

Goto(p, label) == pc' = [pc EXCEPT ![p] = label]

Ready(p) ==
    IF p = "connector"
    THEN {s \in epoll[p] : net[s] \in {"up", "failed"}}
    ELSE {s \in epoll[p] : pending > 0}

\* epoll_wait returns some of the ready sockets.
PollEvents(p) ==
    /\ pc[p] = "poll" /\ stop[p] = "no" /\ batch[p] = {}
    /\ \E b \in SUBSET Ready(p) : b # {} /\ batch' = [batch EXCEPT ![p] = b]
    /\ UNCHANGED <<kernel, lib, pc, cur, user, held, answered, foreign, due>>

\* The events are handled one by one; _shutdown is not tested between them.
TakeEvent(p) ==
    /\ pc[p] = "poll"
    /\ \E s \in batch[p] : /\ cur' = [cur EXCEPT ![p] = s]
                           /\ batch' = [batch EXCEPT ![p] = @ \ {s}]
    /\ Goto(p, "event")
    /\ UNCHANGED <<kernel, lib, user, held, answered, foreign, due>>

PollExit(p) ==
    /\ pc[p] = "poll" /\ stop[p] # "no" /\ batch[p] = {}
    /\ Goto(p, "exit")
    /\ UNCHANGED <<kernel, lib, cur, batch, user, held, answered, foreign, due>>

\* The handler keeps the endpoint or binds it to a container.
HandlerTakes(s) == held' = [held EXCEPT ![s] = "out"]

Answer(s) == answered' = [answered EXCEPT ![s] = @ + 1]

\* TcpConnector::OnEventProcess: the socket leaves the epoll before the handler
\* sees the endpoint.
DeleteFromEpoll == epoll' = [epoll EXCEPT !["connector"] = @ \ {cur["connector"]}]

OnConnect ==
    LET s == cur["connector"]
    IN /\ pc["connector"] = "event" /\ net[s] = "up"
       /\ DeleteFromEpoll
       /\ HandlerTakes(s)
       /\ Answer(s)
       /\ Goto("connector", "handler")
       /\ UNCHANGED <<kernel, records, listening, stop, cur, batch, user, foreign, due>>

\* An error, or a success whose peer has already closed: the connector closes the
\* descriptor, so the handler must not.
CloseFailed(s) == CloseFds({s})
OnErrorOccurred ==
    LET s == cur["connector"]
    IN /\ pc["connector"] = "event"
       /\ DeleteFromEpoll
       /\ Answer(s)
       /\ CloseFailed(s)
       /\ net' = [net EXCEPT ![s] = "none"]
       /\ Goto("connector", "erase")
       /\ UNCHANGED <<fdOf, made, pending, records, listening, stop, cur, batch, user, held, due>>

\* The handler returns, and ProcessProperty of Settings is applied to the
\* descriptor if the endpoint is still open.
OnConnectReturns ==
    /\ pc["connector"] = "handler"
    /\ Goto("connector", "erase")
    /\ UNCHANGED <<kernel, lib, cur, batch, user, held, answered, foreign, due>>

\* The record is erased and its entry deleted, under _mtex.
EraseRecordNot == UNCHANGED records
EraseRecord == records' = records \ {cur["connector"]}
FinishConnect ==
    /\ pc["connector"] = "erase"
    /\ EraseRecord
    /\ Goto("connector", "poll")
    /\ cur' = [cur EXCEPT !["connector"] = 0]
    /\ UNCHANGED <<kernel, listening, epoll, stop, batch, user, held, answered, foreign, due>>

\* TcpListener::OnEventProcess: one accept4, and the handler is called.
Accepts == pending > 0
OnAccept ==
    LET s == made + 1
    IN /\ pc["listener"] = "event"
       /\ Accepts /\ Open(s)
       /\ pending' = pending - 1
       /\ HandlerTakes(s)
       /\ cur' = [cur EXCEPT !["listener"] = s]
       /\ Goto("listener", "handler")
       /\ UNCHANGED <<net, lib, batch, user, answered, foreign, due>>

\* An error event, or accept4 fails: nothing waits, or there is no descriptor.
AcceptFails ==
    /\ pc["listener"] = "event"
    /\ Goto("listener", "poll")
    /\ cur' = [cur EXCEPT !["listener"] = 0]
    /\ UNCHANGED <<kernel, lib, batch, user, held, answered, foreign, due>>

OnAcceptReturns ==
    /\ pc["listener"] = "handler"
    /\ Goto("listener", "poll")
    /\ cur' = [cur EXCEPT !["listener"] = 0]
    /\ UNCHANGED <<kernel, lib, batch, user, held, answered, foreign, due>>

-----------------------------------------------------------------------------
PollStep(p) == PollEvents(p) \/ TakeEvent(p) \/ PollExit(p)
ConnectorStep == OnConnect \/ OnErrorOccurred \/ OnConnectReturns \/ FinishConnect
ListenerStep == OnAccept \/ AcceptFails \/ OnAcceptReturns

Next ==
    \/ \E u \in Users : Connect(u) \/ ConnectFails(u) \/ ConnectRecords(u)
                        \/ AddListeningPort(u) \/ ListenRecords(u)
    \/ \E p \in Pollers : Start(p) \/ BeginShutdown(p) \/ JoinPollThread(p) \/ CloseAll(p)
                          \/ PollStep(p)
    \/ \E s \in Socks : EndpointClose(s) \/ ConnectResult(s)
    \/ PeerConnects \/ PeerWithdraws \/ ConnectorStep \/ ListenerStep

Spec == Init /\ [][Next]_vars

\* The polling threads go on, the kernel ends every connect, and a Shutdown that
\* has begun is carried through.
FairSpec ==
    /\ Spec
    /\ WF_vars(ConnectorStep) /\ WF_vars(ListenerStep)
    /\ \A p \in Pollers : WF_vars(PollStep(p)) /\ WF_vars(JoinPollThread(p)) /\ WF_vars(CloseAll(p))
    /\ \A s \in Socks : WF_vars(ConnectResult(s))

-----------------------------------------------------------------------------
(* Properties.                                                              *)

\* Every close, by the connector, the listener, an endpoint or a container, hits
\* the socket it is meant for: no descriptor is closed after it was closed by
\* another part and perhaps given to a new socket.  The records of connects that
\* ended must be gone before Shutdown closes what is in the records.
OwnSocketsOnly == ~foreign

\* Every open descriptor has exactly one part that will close it: the thread that
\* is making it, the connector's records, the listener's list, or the endpoint
\* that was handed out.  A record whose event is being handled is the exception:
\* it stays until the handler has returned, while the endpoint is already out.
OneOwner ==
    \A s \in Socks : IsOpen(s) =>
        LET owners == {u \in Users : usock[u] = s}
                      \cup {p \in Pollers : s \in Owned(p) /\ ~(pc[p] \in {"handler", "erase"}
                                                               /\ cur[p] = s)}
                      \cup ({held[s]} \cap {"out"})
        IN Cardinality(owners) = 1

\* One connect is answered by one call of OnConnect or OnErrorOccurred.
AnsweredOnce == \A s \in Socks : answered[s] <= 1

\* When Shutdown is over, no socket that the object had when it began is open,
\* unless a handler has been given its endpoint.
ShutdownReleases ==
    \A p \in Pollers : stop[p] = "done" =>
        \A s \in due[p] : IsOpen(s) => held[s] = "out"

\* After the join inside Shutdown no handler is running and none will run.
QuietAfterShutdown ==
    \A p \in Pollers : stop[p] \in {"joined", "done"} => pc[p] \in {"new", "exit"}

\* A connect that was recorded is answered, unless the connector is shut down.
ConnectAnswered ==
    \A s \in Socks :
        (s \in records /\ pc["connector"] # "new") ~> (answered[s] = 1 \/ stop["connector"] # "no")

\* Shutdown returns, also for an object whose thread was never started.
ShutdownEnds == \A p \in Pollers : (stop[p] = "flag") ~> (stop[p] = "done")

\* Each open descriptor has one owner, and each close hits its own socket.
DescriptorsOwned == TypeOK /\ OwnSocketsOnly /\ OneOwner

\* A connect that was recorded is answered, and never twice.
ConnectAnsweredOnce == []AnsweredOnce /\ ConnectAnswered

\* Shutdown returns, and when it has, the object's sockets are released and its
\* handlers are over.
ShutdownFinal == [](ShutdownReleases /\ QuietAfterShutdown) /\ ShutdownEnds
=============================================================================
