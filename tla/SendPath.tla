------------------------------ MODULE SendPath ------------------------------
(***************************************************************************)
(* The sending half of a Connection on Linux (src/linux/connection.cc):    *)
(* application threads append messages to _snd_buffer and arm the event;   *)
(* the send thread takes edge-triggered events and writes the buffer to    *)
(* the socket, as much as its kernel buffer has room for.                  *)
(*                                                                         *)
(* A byte is its number among the bytes handed to SendMsg.                 *)
(***************************************************************************)
EXTENDS Connection

CONSTANTS
    Apps,       \* threads that call SendMsg
    Backs,      \* threads of _back_thread
    MsgLengths, \* bound: the message lengths; the surface lets no empty one through
    MaxMsgs,    \* bound: messages sent
    Room        \* bound: size of the socket's kernel buffer

ASSUME SendAssumption ==
    /\ Room \in Nat \ {0} /\ MaxMsgs \in Nat
    /\ MsgLengths \subseteq Nat \ {0}
    /\ NULL \notin Backs

VARIABLES
    sndMutex,  \* the thread that holds _snd_mutex, or NULL
    sndBuffer, \* _snd_buffer
    room,      \* free space of the kernel buffer
    sndReady,  \* whether the socket is on the send epoll's ready list
    apc,       \* per application thread: "idle" or "add"
    alen,      \* and the length of its message
    bpc,       \* per send thread, its next step
    calls,     \* the number of SendMsg calls
    accepted,  \* history: bytes added to _snd_buffer
    wire,      \* history: the bytes written to the socket
    failed     \* history: the last call of send failed, not by EAGAIN

sndVars == <<online, shut, sndMutex, sndBuffer, room, sndReady, apc, alen, bpc, calls,
             accepted, wire, failed>>

SndTypeOK ==
    /\ online \in BOOLEAN
    /\ shut \in {"no", "clear", "done"}
    /\ sndMutex \in Backs \cup {NULL}
    /\ room \in 0 .. Room
    /\ sndReady \in BOOLEAN
    /\ apc \in [Apps -> {"idle", "add"}]
    /\ alen \in [Apps -> MsgLengths \cup {0}]
    /\ bpc \in [Backs -> {"idle", "lock", "send", "modify"}]
    /\ \A t \in Backs : bpc[t] = "send" <=> sndMutex = t
    /\ calls \in 0 .. MaxMsgs
    /\ accepted \in Nat

\* The socket joins the send epoll writable, which is an event.
SndInit ==
    /\ online = TRUE
    /\ shut = "no"
    /\ sndMutex = NULL
    /\ sndBuffer = EmptyBuffer
    /\ room = Room
    /\ sndReady = TRUE
    /\ apc = [t \in Apps |-> "idle"]
    /\ alen = [t \in Apps |-> 0]
    /\ bpc = [t \in Backs |-> "idle"]
    /\ calls = 0
    /\ accepted = 0
    /\ wire = <<>>
    /\ failed = FALSE

-----------------------------------------------------------------------------
(* SendMsg                                                                  *)

\* EPOLL_CTL_MOD on an open socket with room makes it ready.
NotArmed == sndReady
Armed == sndReady \/ (online /\ room > 0)

\* The test of IsOnline, before the lock.
SendMsg(t) ==
    /\ apc[t] = "idle" /\ calls < MaxMsgs /\ online
    /\ \E n \in MsgLengths : alen' = [alen EXCEPT ![t] = n]
    /\ apc' = [apc EXCEPT ![t] = "add"]
    /\ calls' = calls + 1
    /\ UNCHANGED <<online, shut, sndMutex, sndBuffer, room, sndReady, bpc, accepted, wire, failed>>

\* The message is added and the event armed, under _snd_mutex.
SendMsgAdd(t) ==
    /\ apc[t] = "add" /\ sndMutex = NULL
    /\ sndBuffer' = AddSlice(sndBuffer, Bytes(accepted, alen[t]))
    /\ accepted' = accepted + alen[t]
    /\ sndReady' = Armed
    /\ apc' = [apc EXCEPT ![t] = "idle"]
    /\ alen' = [alen EXCEPT ![t] = 0]
    /\ UNCHANGED <<online, shut, sndMutex, room, bpc, calls, wire, failed>>

-----------------------------------------------------------------------------
(* The send thread: OnSendEvent and DoSendEvent.                            *)

SndGoto(t, label) == bpc' = [bpc EXCEPT ![t] = label]

\* With several send threads an event may also be overwritten in their shared
\* _events before it is read (see RecvPath); that loss is not modelled here.
PollSendEvent(t) ==
    /\ bpc[t] = "idle" /\ sndReady
    /\ sndReady' = FALSE
    /\ SndGoto(t, "lock")
    /\ UNCHANGED <<online, shut, sndMutex, sndBuffer, room, apc, alen, calls, accepted, wire, failed>>

\* OnSend: nothing to do for an empty buffer.
OnSend(t) ==
    /\ bpc[t] = "lock" /\ sndMutex = NULL
    /\ \/ sndBuffer.vs = <<>> /\ SndGoto(t, "idle") /\ UNCHANGED sndMutex
       \/ sndBuffer.vs # <<>> /\ SndGoto(t, "send") /\ sndMutex' = t
    /\ UNCHANGED <<online, shut, sndBuffer, room, sndReady, apc, alen, calls, accepted, wire, failed>>

\* Leave OnSend with its result: -1 for EAGAIN, else 0.
Leave(t, label) ==
    /\ SndGoto(t, label)
    /\ sndMutex' = NULL
    /\ UNCHANGED <<sndBuffer, room, wire>>

\* The bytes written are taken off the buffer.
MoveSlice(n) == PopFront(sndBuffer)
MoveSent(n) == MoveHeader(sndBuffer, n)

\* One round of the loop: send takes what there is room for.  Any error other
\* than EAGAIN, of a socket that was closed or is still open, ends the loop, and
\* nothing arms the event again; so does a result of 0, which send gives for an
\* empty slice only.
Send(t) ==
    /\ bpc[t] = "send"
    /\ LET slice == Head(sndBuffer.vs)
           n == IF Len(slice) < room THEN Len(slice) ELSE room
       IN \/ Leave(t, "idle") /\ failed' = TRUE
          \/ online /\ room = 0 /\ Leave(t, "modify") /\ failed' = FALSE
          \/ /\ online /\ room > 0 /\ failed' = FALSE
             /\ wire' = wire \o SubSeq(slice, 1, n)
             /\ room' = room - n
             /\ sndBuffer' = MoveSent(n)
             /\ IF sndBuffer'.vs = <<>>
                THEN SndGoto(t, "idle") /\ sndMutex' = NULL
                ELSE UNCHANGED <<bpc, sndMutex>>
    /\ UNCHANGED <<online, shut, sndReady, apc, alen, calls, accepted>>

\* DoSendEvent arms the event again after EAGAIN.
ModifySend(t) ==
    /\ bpc[t] = "modify"
    /\ sndReady' = Armed
    /\ SndGoto(t, "idle")
    /\ UNCHANGED <<online, shut, sndMutex, sndBuffer, room, apc, alen, calls, accepted, wire, failed>>

-----------------------------------------------------------------------------
(* The peer reads: room appears, which is an edge after a full buffer.      *)

PeerReads ==
    /\ room < Room
    /\ \E n \in 1 .. Room - room : room' = room + n
    /\ sndReady' = (sndReady \/ (online /\ room = 0))
    /\ UNCHANGED <<online, shut, sndMutex, sndBuffer, apc, alen, bpc, calls, accepted, wire, failed>>

-----------------------------------------------------------------------------
(* Connection::Shutdown, by any thread                                      *)

Shutdown ==
    /\ online
    /\ online' = FALSE
    /\ sndReady' = FALSE
    /\ shut' = "clear"
    /\ UNCHANGED <<sndMutex, sndBuffer, room, apc, alen, bpc, calls, accepted, wire, failed>>

ClearSndBuffer ==
    /\ shut = "clear" /\ sndMutex = NULL
    /\ sndBuffer' = EmptyBuffer
    /\ shut' = "done"
    /\ UNCHANGED <<online, sndMutex, room, sndReady, apc, alen, bpc, calls, accepted, wire, failed>>

-----------------------------------------------------------------------------
SendStep(t) == PollSendEvent(t) \/ OnSend(t) \/ Send(t) \/ ModifySend(t)

SndNext ==
    \/ \E t \in Apps : SendMsg(t) \/ SendMsgAdd(t)
    \/ \E t \in Backs : SendStep(t)
    \/ PeerReads
    \/ Shutdown
    \/ ClearSndBuffer

SndSpec == SndInit /\ [][SndNext]_sndVars

\* The threads finish what they have begun and poll on, and the peer goes on
\* reading: without that TCP need not send anything.
FairSndSpec ==
    /\ SndSpec
    /\ \A t \in Apps : WF_sndVars(SendMsgAdd(t))
    /\ \A t \in Backs : WF_sndVars(SendStep(t))
    /\ WF_sndVars(PeerReads)
    /\ WF_sndVars(ClearSndBuffer)

-----------------------------------------------------------------------------
(* Properties.                                                              *)

\* The wire carries the accepted bytes in order, none lost or repeated, however
\* the partial writes fall on the slices; the rest is in the buffer until the
\* connection is shut down.
SentInOrder ==
    /\ wire = Bytes(0, Len(wire))
    /\ online => wire \o Merge(sndBuffer) = Bytes(0, accepted)

\* The loop never takes the front of an empty buffer, also when Shutdown clears
\* it (SliceBuffer::Front asserts that there is one).
FrontExists == \A t \in Backs : bpc[t] = "send" => sndBuffer.vs # <<>>

\* What SendMsg accepted is written (endpoint.h: the sending work is handed over
\* to the container to complete), all of it once the calls of SendMsg end, unless the
\* connection is shut down, or send has failed on the open socket and was not called
\* again, which takes another SendMsg or room that the peer makes: no event is lost
\* between a partial write, SendMsg's arming and the peer's reads.
AcceptedIsSent == []<>(Len(wire) = accepted \/ ~online \/ failed)

\* The wire and the buffer together are the accepted bytes, and the loop that moves
\* bytes from one to the other always has a front slice to take them from.
WireExact == SndTypeOK /\ SentInOrder /\ FrontExists
=============================================================================
