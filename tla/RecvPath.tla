------------------------------ MODULE RecvPath ------------------------------
(***************************************************************************)
(* The receiving half of a Connection on Linux (src/linux/connection.cc):  *)
(* the receive threads take edge-triggered events, read the socket under   *)
(* _rcv_mutex, cut the byte stream into packages by the ProtocolHandler    *)
(* and post them with OnDataReceived.  Connection::Shutdown may come from  *)
(* any other thread.  Framing has the stream and the buffer.               *)
(***************************************************************************)
EXTENDS Connection, Framing

CONSTANTS
    Pollers,     \* threads of _poll_thread
    RecvSize     \* sizeof(buffer) of OnRecv, 8192

ASSUME RecvAssumption == RecvSize \in Nat \ {0} /\ NULL \notin Pollers

VARIABLES
    sent,      \* bytes the peer has sent
    fin,       \* whether it has closed its end
    rcvReady,  \* whether the socket is on the epoll's ready list
    event,     \* the entry of Epoll::_events last used for the socket
    edge,      \* history: what became of it, "read", "stored" or "lost"
    rcvMutex,  \* the thread that holds _rcv_mutex, or NULL
    rpc,       \* per thread, its next step
    full,      \* per thread, recv_bytes == unused_space
    dropped    \* history: it was shut down by another thread, or after an error of recv

conn   == <<online, shut>>
socket == <<sent, fin, taken>>
epoll  == <<rcvReady, event, edge>>
rcvVars == <<stream, socket, epoll, conn, rcvMutex, rcvBuffer, rpc, full, delivered, dropped>>

RcvTypeOK ==
    /\ sent \in 0 .. Total
    /\ taken \in 0 .. sent
    /\ rcvMutex \in Pollers \cup {NULL}
    /\ rpc \in [Pollers -> {"idle", "event", "lock", "recv", "parse", "modify", "shutdown"}]
    /\ full \in [Pollers -> BOOLEAN]
    /\ shut \in {"no", "clear", "done"}
    /\ \A t \in Pollers : rpc[t] \in {"recv", "parse"} <=> rcvMutex = t

RcvInit ==
    /\ packets \in UNION {[1 .. n -> PacketLengths] : n \in 0 .. MaxPackets}
    /\ proto \in BOOLEAN
    /\ sent = 0
    /\ fin = FALSE
    /\ taken = 0
    /\ rcvReady = FALSE
    /\ event = "other"
    /\ edge = "read"
    /\ online = TRUE
    /\ shut = "no"
    /\ rcvMutex = NULL
    /\ rcvBuffer = EmptyBuffer
    /\ rpc = [t \in Pollers |-> "idle"]
    /\ full = [t \in Pollers |-> FALSE]
    /\ delivered = <<>>
    /\ dropped = FALSE

-----------------------------------------------------------------------------
(* The peer: data and end of stream are edges for epoll.                    *)

PeerSends ==
    /\ ~fin /\ sent < Total
    /\ \E n \in 1 .. Total - sent : sent' = sent + n
    /\ rcvReady' = online
    /\ UNCHANGED <<stream, fin, taken, event, edge, conn, rcvMutex, rcvBuffer, rpc, full,
                   delivered, dropped>>

PeerCloses ==
    /\ ~fin
    /\ fin' = TRUE
    /\ rcvReady' = online
    /\ UNCHANGED <<stream, sent, taken, event, edge, conn, rcvMutex, rcvBuffer, rpc, full,
                   delivered, dropped>>

-----------------------------------------------------------------------------
(* PollingThread::DoWork, OnRecvEvent and DoRecvEvent.                      *)

RcvGoto(t, label) == rpc' = [rpc EXCEPT ![t] = label]

\* epoll_wait stores the socket's event in _events.  EPOLLRDHUP is set once the
\* peer has closed, and an error flag wins over EPOLLIN.
PollRecvEvent(t) ==
    /\ rpc[t] = "idle" /\ rcvReady
    /\ rcvReady' = FALSE
    /\ event' = IF fin THEN "error" ELSE "recv"
    /\ edge' = "stored"
    /\ RcvGoto(t, "event")
    /\ UNCHANGED <<stream, socket, conn, rcvMutex, rcvBuffer, full, delivered, dropped>>

\* A result with only other connections' events.  All the threads of a
\* PollingThread share one _events, so it may overwrite what another thread
\* still has to read there.
PollOther(t) ==
    /\ rpc[t] = "idle" /\ ~rcvReady
    /\ event' = "other"
    /\ edge' = IF edge = "stored" THEN "lost" ELSE edge
    /\ RcvGoto(t, "event")
    /\ UNCHANGED <<stream, socket, rcvReady, conn, rcvMutex, rcvBuffer, full, delivered, dropped>>

\* get_event, and OnEventProcess
OnEventProcess(t) ==
    /\ rpc[t] = "event"
    /\ RcvGoto(t, CASE event = "error" -> "shutdown" [] event = "recv" -> "lock" [] OTHER -> "idle")
    /\ edge' = IF event = "other" THEN edge ELSE "read"
    /\ UNCHANGED <<stream, socket, rcvReady, event, conn, rcvMutex, rcvBuffer, full, delivered,
                   dropped>>

\* OnRecv takes _rcv_mutex for all it does.
OnRecv(t) ==
    /\ rpc[t] = "lock" /\ rcvMutex = NULL
    /\ rcvMutex' = t
    /\ RcvGoto(t, "recv")
    /\ UNCHANGED <<stream, socket, epoll, conn, rcvBuffer, full, delivered, dropped>>

\* The recv call: bytes, EAGAIN, end of stream, or an error, of a socket that was
\* closed meanwhile or is still open.  Without a ProtocolHandler the bytes are posted
\* as they came.
Recv(t) ==
    /\ rpc[t] = "recv"
    /\ LET n == IF sent - taken < RecvSize THEN sent - taken ELSE RecvSize
           data == Bytes(taken, n)
       IN \/ /\ online /\ n > 0
             /\ taken' = taken + n
             /\ full' = [full EXCEPT ![t] = n = RecvSize]
             /\ UNCHANGED dropped
             /\ IF proto
                THEN /\ rcvBuffer' = AddSlice(rcvBuffer, data)
                     /\ RcvGoto(t, "parse")
                     /\ UNCHANGED <<delivered, rcvMutex>>
                ELSE /\ delivered' = Append(delivered, data)
                     /\ RcvGoto(t, IF n = RecvSize THEN "recv" ELSE "modify")
                     /\ rcvMutex' = IF n = RecvSize THEN t ELSE NULL
                     /\ UNCHANGED rcvBuffer
          \/ /\ online /\ n = 0
             /\ RcvGoto(t, IF fin THEN "shutdown" ELSE "modify")
             /\ rcvMutex' = NULL
             /\ UNCHANGED <<taken, full, rcvBuffer, delivered, dropped>>
          \/ /\ RcvGoto(t, "shutdown")
             /\ rcvMutex' = NULL
             /\ dropped' = TRUE
             /\ UNCHANGED <<taken, full, rcvBuffer, delivered>>
    /\ UNCHANGED <<stream, sent, fin, epoll, conn>>

\* The end of ParsingProtocol: back to recv if the last one filled its buffer.
LeaveParsing(t) ==
    /\ RcvGoto(t, IF full[t] THEN "recv" ELSE "modify")
    /\ rcvMutex' = IF full[t] THEN t ELSE NULL
    /\ UNCHANGED <<rcvBuffer, delivered>>

\* One round of ParsingProtocol.
ParsingProtocol(t) ==
    /\ rpc[t] = "parse"
    /\ \E len \in {OnCheckPackageLength(Package)} :
          \/ ~MoreToParse /\ LeaveParsing(t)
          \/ /\ MoreToParse /\ len < 0
             /\ RcvGoto(t, "shutdown")
             /\ rcvMutex' = NULL
             /\ UNCHANGED <<rcvBuffer, delivered>>
          \/ MoreToParse /\ NeedsMore(len) /\ LeaveParsing(t)
          \/ /\ MoreToParse /\ len >= 0 /\ ~NeedsMore(len)
             /\ PassOn(len)
             /\ UNCHANGED <<rpc, rcvMutex>>
    /\ UNCHANGED <<stream, socket, epoll, conn, full, dropped>>

\* DoRecvEvent arms the event again: the socket is ready at once if there is
\* something to read.
ModifyRecv(t) ==
    /\ rpc[t] = "modify"
    /\ rcvReady' = (rcvReady \/ (online /\ (taken < sent \/ fin)))
    /\ RcvGoto(t, "idle")
    /\ UNCHANGED <<stream, socket, event, edge, conn, rcvMutex, rcvBuffer, full, delivered, dropped>>

-----------------------------------------------------------------------------
(* Connection::Shutdown                                                     *)

\* The socket is closed and the close event posted.
CloseSocket ==
    /\ online' = FALSE
    /\ rcvReady' = FALSE
    /\ shut' = IF online THEN "clear" ELSE shut

\* OnErrorEvent, or OnRecvEvent after an error of DoRecvEvent
ShutdownByPoller(t) ==
    /\ rpc[t] = "shutdown"
    /\ CloseSocket
    /\ RcvGoto(t, "idle")
    /\ UNCHANGED <<stream, socket, event, edge, rcvMutex, rcvBuffer, full, delivered, dropped>>

\* CloseEndpoint or a timeout, on any thread at any time
ShutdownByOther ==
    /\ online
    /\ CloseSocket
    /\ dropped' = TRUE
    /\ UNCHANGED <<stream, socket, event, edge, rcvMutex, rcvBuffer, rpc, full, delivered>>

\* The receive buffer is cleared under _rcv_mutex.
ClearRcvBuffer ==
    /\ shut = "clear" /\ rcvMutex = NULL
    /\ rcvBuffer' = EmptyBuffer
    /\ shut' = "done"
    /\ UNCHANGED <<stream, socket, epoll, online, rcvMutex, rpc, full, delivered, dropped>>

-----------------------------------------------------------------------------
RecvStep(t) ==
    \/ PollRecvEvent(t)
    \/ OnEventProcess(t)
    \/ OnRecv(t)
    \/ Recv(t)
    \/ ParsingProtocol(t)
    \/ ModifyRecv(t)
    \/ ShutdownByPoller(t)

RcvNext ==
    \/ PeerSends
    \/ PeerCloses
    \/ \E t \in Pollers : RecvStep(t) \/ PollOther(t)
    \/ ShutdownByOther
    \/ ClearRcvBuffer

RcvSpec == RcvInit /\ [][RcvNext]_rcvVars

\* The receive threads poll on and finish what they have begun.
FairRcvSpec == RcvSpec /\ (\A t \in Pollers : WF_rcvVars(RecvStep(t))) /\ WF_rcvVars(ClearRcvBuffer)

-----------------------------------------------------------------------------
(* Properties.                                                              *)

\* The buffer is the received and not yet delivered part of the stream until it
\* is cleared, and stays empty from then on.
BufferExact ==
    Merge(rcvBuffer) = IF proto /\ shut # "done"
                    THEN Bytes(Len(FlattenSeq(delivered)), taken - Len(FlattenSeq(delivered)))
                    ELSE <<>>

\* No whole packet stays in the buffer when OnRecv is over: the threads wait for
\* more data only when the next packet needs it.
NoPacketWaits ==
    proto /\ online /\ rcvMutex = NULL /\ (\A t \in Pollers : rpc[t] # "shutdown")
          /\ Len(delivered) < Len(packets)
        => rcvBuffer.length < LengthOf(Len(delivered) + 1)

\* The packets up to p are good, and the peer has sent them whole.
Deliverable(p) ==
    /\ p \in DOMAIN packets
    /\ \A q \in 1 .. p : packets[q] # Bad
    /\ sent >= Ends[p]

Delivered(p) == p \in DOMAIN packets /\ Len(FlattenSeq(delivered)) >= Ends[p]

\* property.md: the MessageHandler receives the data the remote node sent.  A
\* packet that is sent whole is delivered, unless another thread shuts the
\* connection down, recv fails, the peer closes, or a second receive thread
\* overwrites the socket's entry of the shared _events before it is read: no edge
\* is lost between two reads, nor between the last read and the re-arming.
SentIsDelivered ==
    \A p \in 1 .. MaxPackets :
        Deliverable(p) ~> Delivered(p) \/ dropped \/ fin \/ edge = "lost"

\* At any time the stream is split into what was delivered, packet by packet, what
\* the buffer holds, which is less than a packet between two events, and what is
\* still in the socket.
StreamIntact == RcvTypeOK /\ PacketsIntact /\ BufferExact /\ NoPacketWaits
=============================================================================
