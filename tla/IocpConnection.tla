--------------------------- MODULE IocpConnection ---------------------------
(***************************************************************************)
(* A Connection on Windows (src/windows/connection.cc).  One overlapped    *)
(* send at a time carries the first slices of _snd_buffer; receiving is a  *)
(* WSARecv of no bytes, whose completion says that there is something to   *)
(* read, followed by recv.  The threads of the port handle completions;    *)
(* Connection::Shutdown may come from any thread.                          *)
(*                                                                         *)
(* A byte is its number in its direction.  Framing has the peer's stream   *)
(* and the receive buffer.                                                 *)
(***************************************************************************)
EXTENDS Framing, FiniteSets, FiniteSetsExt

CONSTANTS
    Threads,     \* threads of the completion port
    Apps,        \* threads that call SendMsg
    SendLengths, \* bound: the message lengths
    MaxTraffic,  \* bound: messages sent and bytes of the peer's stream, together
    MaxPackage,  \* MAX_PACKAGE_SIZE, 0xffff
    MaxBufs,     \* MAX_WSABUF_COUNT, 16
    RecvSize     \* sizeof(buff) of OnRecvEvent, 8192

ASSUME BufferSizesAssumption ==
    /\ {MaxPackage, MaxBufs, RecvSize} \subseteq Nat \ {0}
    /\ SendLengths \subseteq Nat \ {0} /\ MaxTraffic \in Nat

VARIABLES
    zeroId,      \* whether _handle_id is 0, that of the first connection
    online,      \* whether _fd is open, and in the port's map
    shut,        \* the rest of Shutdown: "no", "clear", "done"
    sndBuffer,   \* _snd_buffer
    sendPending, \* _send_pending
    sendIo,      \* the overlapped send: "idle", "pending", "ok", "failed"; its bytes
    apc,         \* per application thread, the length it is about to add, or 0
    msgs,        \* calls of SendMsg
    accepted,    \* history: bytes added to _snd_buffer
    refused,     \* history: WSASend failed for a SendMsg, which returned false
    wire,        \* history: the bytes sent
    sent,        \* bytes the peer has sent
    fin,         \* whether it has closed its end
    recvIo,      \* the overlapped receive
    rcvMutex,    \* whether _rcv_mtx is held by the thread in OnRecvEvent
    full,        \* and recv_bytes == unused_space there
    unarmed,     \* history: the first AsyncRecv failed, and Init's result was ignored
    stalled,     \* history: recv found nothing after a full buffer
    unmatched,   \* history: a completion was dropped by its handle id
    tpc,         \* per thread of the port, its next step
    tev          \* and its completion: transferred_bytes and whether it is good

connVars == <<zeroId, online, shut>>
sendVars == <<sndBuffer, sendPending, sendIo, accepted, wire>>
appVars  == <<apc, msgs, refused>>
peerVars == <<sent, fin>>
recvVars == <<stream, taken, recvIo, rcvMutex, rcvBuffer, full, delivered, unarmed, stalled>>
iocpVars == <<connVars, sendVars, appVars, peerVars, recvVars, unmatched, tpc, tev>>

NoIo == [state |-> "idle", data |-> <<>>, moved |-> 0]
NoEvent == [size |-> 0, good |-> TRUE]

ConnTypeOK ==
    /\ online \in BOOLEAN /\ sendPending \in BOOLEAN
    /\ sendIo.state \in {"idle", "pending", "ok", "failed"}
    /\ recvIo \in {"idle", "pending", "ok", "failed"}
    /\ taken \in 0 .. sent /\ msgs \in 0 .. MaxTraffic
    /\ tpc \in [Threads -> {"poll", "send", "recv", "read", "parse", "shutdown"}]
    /\ rcvMutex <=> \E t \in Threads : tpc[t] \in {"read", "parse"}

\* Init has added the socket to the port and called AsyncRecv for the first receive.
\* Its result is that of AsyncRecv, which AttachEndpoint does not look at.
ConnInit ==
    /\ zeroId \in BOOLEAN /\ online = TRUE /\ shut = "no"
    /\ sndBuffer = EmptyBuffer /\ sendPending = FALSE /\ sendIo = NoIo
    /\ apc = [a \in Apps |-> 0] /\ msgs = 0
    /\ accepted = 0 /\ refused = FALSE /\ wire = <<>>
    /\ packets \in UNION {[1 .. n -> PacketLengths] : n \in 0 .. MaxPackets} /\ proto \in BOOLEAN
    /\ sent = 0 /\ fin = FALSE /\ taken = 0
    /\ unarmed \in BOOLEAN /\ recvIo = (IF unarmed THEN "idle" ELSE "pending")
    /\ rcvMutex = FALSE /\ full = FALSE /\ rcvBuffer = EmptyBuffer /\ delivered = <<>>
    /\ stalled = FALSE /\ unmatched = FALSE
    /\ tpc = [t \in Threads |-> "poll"] /\ tev = [t \in Threads |-> NoEvent]

-----------------------------------------------------------------------------
(* Sending.                                                                 *)

\* The first slices, at most MaxBufs and together at most MaxPackage bytes: none
\* if the first is longer.
FirstSlices(b) ==
    LET bytes(k) == FlattenSeq(SubSeq(b.vs, 1, k))
        fits == {k \in 0 .. Len(b.vs) : k <= MaxBufs /\ Len(bytes(k)) <= MaxPackage}
    IN bytes(Max(fits))

\* AsyncSend, with _snd_buffer = b and _send_pending = pending; ok is its result.
SendsAnyway(b, pending) == b.vs # <<>>
MaySend(b, pending) == b.vs # <<>> /\ ~pending
AsyncSend(b, pending, ok) ==
    \/ /\ ~MaySend(b, pending) /\ ok
       /\ sendPending' = pending
       /\ UNCHANGED sendIo
    \/ /\ MaySend(b, pending) /\ ok /\ online
       /\ sendPending' = TRUE
       /\ sendIo' = [state |-> "pending", data |-> FirstSlices(b), moved |-> 0]
    \/ /\ MaySend(b, pending) /\ ~ok
       /\ sendPending' = FALSE
       /\ UNCHANGED sendIo

\* The test of IsOnline, before the lock.
SendMsg(a) ==
    /\ apc[a] = 0 /\ msgs + Total < MaxTraffic /\ online
    /\ \E n \in SendLengths : apc' = [apc EXCEPT ![a] = n]
    /\ msgs' = msgs + 1
    /\ UNCHANGED <<connVars, sendVars, refused, peerVars, recvVars, unmatched, tpc, tev>>

\* Under _snd_mtx; the message stays in the buffer when WSASend fails.
SendMsgAdds(a) ==
    /\ apc[a] # 0
    /\ LET b == AddSlice(sndBuffer, Bytes(accepted, apc[a]))
       IN \E ok \in BOOLEAN :
            /\ AsyncSend(b, sendPending, ok)
            /\ sndBuffer' = b
            /\ refused' = (refused \/ ~ok)
    /\ accepted' = accepted + apc[a]
    /\ apc' = [apc EXCEPT ![a] = 0]
    /\ UNCHANGED <<connVars, wire, msgs, peerVars, recvVars, unmatched, tpc, tev>>

\* The kernel sends some of the bytes, or none if there are none.
SendCompletes ==
    /\ sendIo.state = "pending" /\ online
    /\ \E n \in (IF sendIo.data = <<>> THEN {0} ELSE 1 .. Len(sendIo.data)) :
        /\ sendIo' = [sendIo EXCEPT !.state = "ok", !.moved = n]
        /\ wire' = wire \o SubSeq(sendIo.data, 1, n)
    /\ UNCHANGED <<connVars, sndBuffer, sendPending, accepted, appVars, peerVars, recvVars, unmatched,
                   tpc, tev>>

SendFails ==
    /\ sendIo.state = "pending"
    /\ sendIo' = [sendIo EXCEPT !.state = "failed"]
    /\ UNCHANGED <<connVars, sndBuffer, sendPending, accepted, wire, appVars, peerVars, recvVars,
                   unmatched, tpc, tev>>

-----------------------------------------------------------------------------
(* The peer.                                                                *)

PeerSends ==
    /\ ~fin
    /\ \E n \in 1 .. Total - sent : sent' = sent + n
    /\ UNCHANGED <<connVars, sendVars, appVars, fin, recvVars, unmatched, tpc, tev>>

PeerCloses ==
    /\ ~fin
    /\ fin' = TRUE
    /\ UNCHANGED <<connVars, sendVars, appVars, sent, recvVars, unmatched, tpc, tev>>

RecvCompletes ==
    /\ recvIo = "pending"
    /\ \/ online /\ (sent > taken \/ fin) /\ recvIo' = "ok"
       \/ recvIo' = "failed"
    /\ UNCHANGED <<connVars, sendVars, appVars, peerVars, stream, taken, rcvMutex, rcvBuffer, full,
                   delivered, unarmed, stalled, unmatched, tpc, tev>>

-----------------------------------------------------------------------------
(* The threads of the port.                                                 *)

Step(t, label) == tpc' = [tpc EXCEPT ![t] = label]

\* A completion, and FindEventService; after Shutdown it is dropped.  A failed one
\* carries handle id 0.
TakeSend(t) ==
    /\ tpc[t] = "poll" /\ sendIo.state \in {"ok", "failed"}
    /\ sendIo' = NoIo
    /\ tev' = [tev EXCEPT ![t] = IF online THEN [size |-> sendIo.moved, good |-> sendIo.state = "ok"]
                                 ELSE NoEvent]
    /\ Step(t, IF online THEN "send" ELSE "poll")
    /\ UNCHANGED <<connVars, sndBuffer, sendPending, accepted, wire, appVars, peerVars, recvVars, unmatched>>

TakeRecv(t) ==
    /\ tpc[t] = "poll" /\ recvIo \in {"ok", "failed"}
    /\ recvIo' = "idle"
    /\ tev' = [tev EXCEPT ![t] = IF online THEN [size |-> 0, good |-> recvIo = "ok"] ELSE NoEvent]
    /\ Step(t, IF online THEN "recv" ELSE "poll")
    /\ UNCHANGED <<connVars, sendVars, appVars, peerVars, stream, taken, rcvMutex, rcvBuffer, full,
                   delivered, unarmed, stalled, unmatched>>

Matches(t) == tev[t].good \/ zeroId

\* Not this connection's handle id, as it seems: the completion is ignored.
DropUnmatched(t) ==
    /\ tpc[t] \in {"send", "recv"} /\ ~Matches(t)
    /\ unmatched' = TRUE
    /\ Step(t, "poll")
    /\ tev' = [tev EXCEPT ![t] = NoEvent]
    /\ UNCHANGED <<connVars, sendVars, appVars, peerVars, recvVars>>

\* OnSendEvent: what was sent leaves the buffer, and the next send begins.
MoveSent(t) == MoveHeader(sndBuffer, tev[t].size)
PendingKept == sendPending
PendingAfter == FALSE
OnSendEvent(t) ==
    /\ tpc[t] = "send" /\ Matches(t)
    /\ \/ /\ tev[t].size = 0
          /\ Step(t, "shutdown")
          /\ UNCHANGED <<sndBuffer, sendPending, sendIo>>
       \/ /\ tev[t].size > 0
          /\ sndBuffer' = MoveSent(t)
          /\ \E ok \in BOOLEAN : /\ AsyncSend(sndBuffer', PendingAfter, ok)
                                 /\ Step(t, IF ok THEN "poll" ELSE "shutdown")
    /\ tev' = [tev EXCEPT ![t] = NoEvent]
    /\ UNCHANGED <<connVars, accepted, wire, appVars, peerVars, recvVars, unmatched>>

\* OnRecvEvent takes _rcv_mtx for all it does.
OnRecvEvent(t) ==
    /\ tpc[t] = "recv" /\ Matches(t) /\ ~rcvMutex
    /\ rcvMutex' = TRUE
    /\ Step(t, "read")
    /\ tev' = [tev EXCEPT ![t] = NoEvent]
    /\ UNCHANGED <<connVars, sendVars, appVars, peerVars, stream, taken, recvIo, rcvBuffer, full,
                   delivered, unarmed, stalled, unmatched>>

LeaveRead(t, label) == Step(t, label) /\ rcvMutex' = FALSE

\* AsyncRecv, after a recv that did not fill its buffer
NotArmed(t) == LeaveRead(t, "poll") /\ UNCHANGED recvIo
AsyncRecv(t) ==
    \/ online /\ LeaveRead(t, "poll") /\ recvIo' = "pending"
    \/ LeaveRead(t, "shutdown") /\ UNCHANGED recvIo

\* The end of the loop of OnRecvEvent: another recv if the last one filled its buffer.
EndOfRound(t, filled) ==
    \/ filled /\ Step(t, "read") /\ UNCHANGED <<rcvMutex, recvIo>>
    \/ ~filled /\ AsyncRecv(t)

\* The recv call: bytes, nothing to read, which ends the loop without a new
\* WSARecv, end of stream, or an error, of a socket that was closed meanwhile or is
\* still open.  Without a ProtocolHandler the bytes are passed on as they came.
Recv(t) ==
    /\ tpc[t] = "read"
    /\ LET n == Min({sent - taken, RecvSize})
           data == Bytes(taken, n)
       IN \/ /\ online /\ n > 0
             /\ taken' = taken + n
             /\ full' = (proto /\ n = RecvSize)
             /\ \/ /\ proto
                   /\ rcvBuffer' = AddSlice(rcvBuffer, data)
                   /\ Step(t, "parse")
                   /\ UNCHANGED <<delivered, rcvMutex, recvIo>>
                \/ /\ ~proto
                   /\ delivered' = Append(delivered, data)
                   /\ EndOfRound(t, n = RecvSize)
                   /\ UNCHANGED rcvBuffer
             /\ UNCHANGED stalled
          \/ /\ online /\ n = 0 /\ ~fin
             /\ LeaveRead(t, "poll")
             /\ stalled' = TRUE
             /\ UNCHANGED <<taken, full, rcvBuffer, delivered, recvIo>>
          \/ /\ LeaveRead(t, "shutdown")
             /\ UNCHANGED <<taken, full, rcvBuffer, delivered, recvIo, stalled>>
    /\ UNCHANGED <<connVars, sendVars, appVars, peerVars, stream, unarmed, unmatched, tev>>

\* One round of ParsingProtocol.
ParsingProtocol(t) ==
    /\ tpc[t] = "parse"
    /\ \E len \in {OnCheckPackageLength(Package)} :
          \/ /\ ~MoreToParse \/ NeedsMore(len)
             /\ EndOfRound(t, full)
             /\ full' = FALSE
             /\ UNCHANGED <<rcvBuffer, delivered>>
          \/ /\ MoreToParse /\ len < 0
             /\ LeaveRead(t, "shutdown")
             /\ full' = FALSE
             /\ UNCHANGED <<rcvBuffer, delivered, recvIo>>
          \/ /\ MoreToParse /\ len >= 0 /\ ~NeedsMore(len)
             /\ PassOn(len)
             /\ UNCHANGED <<tpc, rcvMutex, recvIo, full>>
    /\ UNCHANGED <<connVars, sendVars, appVars, peerVars, stream, taken, unarmed, stalled, unmatched, tev>>

-----------------------------------------------------------------------------
(* Connection::Shutdown                                                     *)

CloseConnection ==
    /\ online
    /\ online' = FALSE
    /\ sendPending' = FALSE
    /\ shut' = "clear"

\* After an error, by ContainerImpl's handler.
ShutdownOnError(t) ==
    /\ tpc[t] = "shutdown"
    /\ CloseConnection \/ (~online /\ UNCHANGED <<online, sendPending, shut>>)
    /\ Step(t, "poll")
    /\ UNCHANGED <<zeroId, sndBuffer, sendIo, accepted, wire, appVars, peerVars, recvVars, unmatched, tev>>

\* By the application, or by the timeout check.
CloseEndpoint ==
    /\ CloseConnection
    /\ UNCHANGED <<zeroId, sndBuffer, sendIo, accepted, wire, appVars, peerVars, recvVars, unmatched, tpc,
                   tev>>

\* Both buffers, each under its lock.
ClearBuffers ==
    /\ shut = "clear" /\ ~rcvMutex
    /\ rcvBuffer' = EmptyBuffer
    /\ sndBuffer' = EmptyBuffer
    /\ shut' = "done"
    /\ UNCHANGED <<zeroId, online, sendPending, sendIo, accepted, wire, appVars, peerVars, stream, taken,
                   recvIo, rcvMutex, full, delivered, unarmed, stalled, unmatched, tpc, tev>>

-----------------------------------------------------------------------------
ThreadStep(t) ==
    TakeSend(t) \/ TakeRecv(t) \/ DropUnmatched(t) \/ OnSendEvent(t) \/ OnRecvEvent(t) \/ Recv(t)
    \/ ParsingProtocol(t) \/ ShutdownOnError(t)

ConnNext ==
    \/ \E a \in Apps : SendMsg(a) \/ SendMsgAdds(a)
    \/ SendCompletes \/ SendFails \/ PeerSends \/ PeerCloses \/ RecvCompletes
    \/ \E t \in Threads : ThreadStep(t)
    \/ CloseEndpoint \/ ClearBuffers

\* The threads of the port go on, and a send ends in one way or the other.
ConnFairness ==
    /\ \A t \in Threads : WF_iocpVars(ThreadStep(t))
    /\ WF_iocpVars(SendCompletes \/ SendFails)

-----------------------------------------------------------------------------
(* Properties.                                                              *)

\* Bytes that were sent and that OnSendEvent has not yet taken off the buffer: the
\* kernel has reported them, or a thread is handling the report.
SendThreads == {t \in Threads : tpc[t] = "send"}
OnTheWay == sendIo.moved + (IF SendThreads = {} THEN 0 ELSE tev[CHOOSE t \in SendThreads : TRUE].size)

\* The bytes are sent in the order of the messages, none lost or repeated, and as
\* long as the connection is open the buffer holds the rest, behind those whose
\* completion has not been handled.
SendsInOrder ==
    /\ wire = Bytes(0, Len(wire))
    /\ online => wire \o DropFront(Merge(sndBuffer), OnTheWay) = Bytes(0, accepted)

\* While the connection is open the one overlapped send, whose structure is part of
\* the connection, is not started again before its completion was handled, and the
\* bytes it was given are still those at the front of the buffer.
OneSendAtATime ==
    online =>
        /\ Cardinality(SendThreads \cup {0 : x \in {sendIo.state} \ {"idle"}}) <= 1
        /\ sendIo.state # "idle" => sendPending /\ IsPrefix(sendIo.data, Merge(sndBuffer))

\* The buffer is the received and not yet delivered part of the stream until it is
\* cleared, and when OnRecvEvent is over the next packet, unless it is one that the
\* handler has refused, is not yet whole.
RestInBuffer ==
    /\ shut # "done" => FlattenSeq(delivered) \o Merge(rcvBuffer) = Bytes(0, taken)
    /\ proto /\ online /\ ~rcvMutex /\ (\A t \in Threads : tpc[t] # "shutdown")
             /\ Len(delivered) < Len(packets)
           => rcvBuffer.length < LengthOf(Len(delivered) + 1)

\* An open connection is always about to receive: a receive is outstanding, or its
\* completion is on the way, or the connection is about to be shut down.  It is
\* not when the first AsyncRecv has failed, when recv found nothing after a buffer
\* that it had filled exactly, or when a failed completion was dropped.
ReceiveOutstanding ==
    online => \/ recvIo # "idle"
              \/ \E t \in Threads : tpc[t] \in {"recv", "read", "parse", "shutdown"}
              \/ unarmed \/ stalled \/ unmatched

\* What is in the buffer is sent and leaves it, unless the connection is closed,
\* SendMsg has reported a failure, or a failed completion was dropped.
BufferIsSent ==
    (sndBuffer.length > 0) ~> (sndBuffer.length = 0 \/ ~online \/ refused \/ unmatched)

\* The one overlapped send and the buffer behind it carry the messages in order.
SendsExact == ConnTypeOK /\ SendsInOrder /\ OneSendAtATime

\* What is received is cut into packets in order, and more can be received.
ReceivesExact == PacketsIntact /\ RestInBuffer /\ ReceiveOutstanding
=============================================================================
