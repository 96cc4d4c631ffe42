-------------------------- MODULE ConnectionProofs --------------------------
(***************************************************************************)
(* Proofs about the two halves of a Connection on Linux: what is written   *)
(* to the socket is what SendMsg accepted, and what is delivered is what   *)
(* the peer sent, byte for byte, for any number of threads, messages and   *)
(* packets and any sizes of the kernel's and the program's buffers.        *)
(***************************************************************************)
EXTENDS SendPath, RecvPath, SliceBufferProofs

-----------------------------------------------------------------------------
(* Sending.                                                                 *)

\* The bytes between the wire and the last accepted one.
Unsent == Bytes(Len(wire), accepted - Len(wire))

\* What is on the wire is the beginning of what was accepted.
OnWire ==
    /\ wire \in Slices /\ accepted \in Nat /\ Len(wire) <= accepted
    /\ wire = Bytes(0, Len(wire))

\* The buffer holds the rest until it is cleared, and something after that: a
\* thread that had found the connection open may still add its message.
InBuffer ==
    /\ shut # "done" => Holds(sndBuffer, Unsent)
    /\ \E s : Holds(sndBuffer, s)

SndInv ==
    /\ SndTypeOK
    /\ online => shut = "no"
    /\ OnWire
    /\ InBuffer
    /\ FrontExists

\* At first nothing is accepted.
LEMMA SndInitInv == SndInit => SndInv
<1> SUFFICES ASSUME SndInit PROVE SndInv
  OBVIOUS
<1>1. Bytes(0, 0) \in Slices /\ Len(Bytes(0, 0)) = 0
  BY BytesFacts DEF Numbers
<1>2. <<>> = Bytes(0, 0) /\ <<>> \in Slices /\ Len(<<>>) = 0
  BY <1>1, SliceFacts
<1>3. wire = Bytes(0, Len(wire)) /\ wire \in Slices /\ Len(wire) = 0 /\ accepted = 0
  BY <1>2 DEF SndInit
<1>4. Unsent = <<>>
  BY <1>2, <1>3 DEF Unsent
<1>5. Holds(sndBuffer, Unsent)
  BY <1>4, HoldsEmpty DEF SndInit
<1>6. SndTypeOK
  BY SendAssumption DEF SndInit, SndTypeOK
<1> QED BY <1>3, <1>5, <1>6 DEF SndInit, SndInv, OnWire, InBuffer, FrontExists

\* A step that leaves the bytes alone.
LEMMA SndQuiet ==
  ASSUME SndInv, SndTypeOK', FrontExists', online' => shut' = "no",
         shut' # "done" => shut # "done",
         UNCHANGED <<sndBuffer, accepted, wire>>
  PROVE  SndInv'
<1>1. OnWire /\ InBuffer
  BY DEF SndInv
<1>2. OnWire' /\ Unsent' = Unsent
  BY <1>1 DEF OnWire, Unsent
<1>3. InBuffer'
  BY <1>1, <1>2 DEF InBuffer
<1> QED BY <1>2, <1>3 DEF SndInv

\* SendMsg puts a message behind what the buffer holds.
LEMMA SendMsgAddStep ==
  ASSUME SndInv, NEW t \in Apps, SendMsgAdd(t)
  PROVE  SndInv'
<1>1. SndTypeOK /\ OnWire /\ InBuffer /\ FrontExists /\ (online => shut = "no")
  BY DEF SndInv
<1>0. PICK n : n = alen[t]
  OBVIOUS
<1>2. PICK w : w = Len(wire)
  OBVIOUS
<1>3. n \in Nat /\ w \in Nat /\ accepted \in Nat /\ w <= accepted
  <2>1. wire \in Slices => Len(wire) \in Nat
    BY SliceFacts
  <2>2. n \in MsgLengths \/ n = 0
    BY <1>0, <1>1 DEF SndTypeOK
  <2>3. \A i \in MsgLengths : i \in Nat
    BY SendAssumption
  <2>4. n \in Nat
    BY <2>2, <2>3
  <2> QED BY <1>1, <1>2, <2>1, <2>4 DEF OnWire
<1>4. /\ sndBuffer' = AddSlice(sndBuffer, Bytes(accepted, n)) /\ accepted' = accepted + n
      /\ wire' = wire /\ shut' = shut /\ online' = online /\ bpc' = bpc /\ sndMutex' = sndMutex
      /\ sndMutex = NULL
  BY <1>0 DEF SendMsgAdd
<1>5. SndTypeOK'
  BY <1>1, <1>3, <1>4, SendAssumption DEF SendMsgAdd, SndTypeOK, Armed
<1>6. OnWire'
  BY <1>1, <1>2, <1>3, <1>4 DEF OnWire
<1>7. Bytes(accepted, n) \in Slices
  BY <1>3, BytesFacts DEF Numbers
<1>8. ASSUME shut # "done" PROVE Holds(sndBuffer', Unsent')
  <2>1. PICK m \in Nat : m = accepted - w /\ accepted = w + m
    BY <1>3
  <2>2. Holds(sndBuffer, Bytes(w, m))
    BY <1>1, <1>2, <1>8, <2>1 DEF InBuffer, Unsent
  <2>3. Holds(sndBuffer', Cat(Bytes(w, m), Bytes(w + m, n)))
    BY <1>4, <1>7, <2>1, <2>2, HoldsAdd
  <2>4. Cat(Bytes(w, m), Bytes(w + m, n)) = Bytes(w, m + n)
    BY <1>3, BytesCat
  <2>5. Unsent' = Bytes(w, m + n)
    <3>1. accepted' - Len(wire') = m + n /\ Len(wire') = w
      BY <1>2, <1>3, <1>4, <2>1
    <3> QED BY <3>1 DEF Unsent
  <2> QED BY <2>3, <2>4, <2>5
<1>9. \E s : Holds(sndBuffer', s)
  <2>1. PICK s : Holds(sndBuffer, s)
    BY <1>1 DEF InBuffer
  <2>2. Holds(sndBuffer', Cat(s, Bytes(accepted, n)))
    BY <1>4, <1>7, <2>1, HoldsAdd
  <2> QED BY <2>2
<1>10. InBuffer'
  BY <1>4, <1>8, <1>9 DEF InBuffer
<1>11. FrontExists'
  BY <1>1, <1>4, SendAssumption DEF FrontExists, SndTypeOK
<1> QED BY <1>1, <1>4, <1>5, <1>6, <1>10, <1>11 DEF SndInv

\* Bytes taken off the front slice of a buffer that holds the m bytes after the w-th.
LEMMA FrontTaken ==
  ASSUME NEW w \in Nat, NEW m \in Nat, NEW b, Holds(b, Bytes(w, m)), b.vs # <<>>,
         NEW n \in Nat, n <= Len(Head(b.vs))
  PROVE  /\ n <= m
         /\ Take(Head(b.vs), n) = Bytes(w, n)
         /\ Holds(MoveHeader(b, n), Bytes(w + n, m - n))
<1>1. PICK s, x : s = Bytes(w, m) /\ x = Head(b.vs)
  OBVIOUS
<1>2. s \in Slices /\ Len(s) = m
  BY <1>1, BytesFacts DEF Numbers
<1>3. x \in Slices /\ Len(x) <= m /\ Len(x) \in Nat
  <2>1. x \in Slices /\ Len(x) <= Len(s)
    BY <1>1, HoldsPopFront
  <2> QED BY <1>2, <2>1, SliceFacts
<1>4. n <= m /\ n \in 0 .. Len(x)
  BY <1>1, <1>3
<1>5. Take(x, n) = Take(s, n)
  BY <1>1, <1>4, HoldsPopFront
<1>6. Take(s, n) = Bytes(w, n) /\ Drop(s, n) = Bytes(w + n, m - n)
  BY <1>1, <1>4, BytesCut
<1>7. Holds(MoveHeader(b, n), Drop(s, n))
  BY <1>1, <1>2, <1>4, HoldsMove
<1> QED BY <1>1, <1>4, <1>5, <1>6, <1>7

\* What send has taken of the front slice leaves the buffer for the wire.
LEMMA SendOne ==
  ASSUME SndInv, NEW t \in Backs, bpc[t] = "send", online, room > 0,
         NEW n, n = IF Len(Head(sndBuffer.vs)) < room THEN Len(Head(sndBuffer.vs)) ELSE room,
         wire' = wire \o SubSeq(Head(sndBuffer.vs), 1, n),
         sndBuffer' = MoveSent(n),
         accepted' = accepted
  PROVE  n \in Nat /\ n <= room /\ OnWire' /\ Holds(sndBuffer', Unsent')
<1>1. SndTypeOK /\ OnWire /\ InBuffer /\ FrontExists /\ (online => shut = "no")
  BY DEF SndInv
<1>2. PICK w : w = Len(wire)
  OBVIOUS
<1>3. w \in Nat /\ accepted \in Nat /\ w <= accepted /\ wire \in Slices /\ wire = Bytes(0, w)
  <2>1. wire \in Slices => Len(wire) \in Nat
    BY SliceFacts
  <2> QED BY <1>1, <1>2, <2>1 DEF OnWire
<1>4. PICK m \in Nat : m = accepted - w /\ accepted = w + m
  BY <1>3
<1>5. Holds(sndBuffer, Bytes(w, m)) /\ sndBuffer.vs # <<>>
  BY <1>1, <1>2, <1>4 DEF InBuffer, Unsent, FrontExists
<1>6. Head(sndBuffer.vs) \in Slices /\ Len(Head(sndBuffer.vs)) \in Nat
  <2>1. Head(sndBuffer.vs) \in Slices
    BY <1>5, HoldsPopFront
  <2> QED BY <2>1, SliceFacts
<1>7. PICK k \in Nat : k = n /\ k <= Len(Head(sndBuffer.vs)) /\ k <= room
  BY <1>1, <1>6, SendAssumption DEF SndTypeOK
<1>8. k <= m /\ Take(Head(sndBuffer.vs), k) = Bytes(w, k)
      /\ Holds(MoveHeader(sndBuffer, k), Bytes(w + k, m - k))
  <2>1. PICK b : b = sndBuffer
    OBVIOUS
  <2>2. w \in Nat /\ Holds(b, Bytes(w, m)) /\ b.vs # <<>> /\ k <= Len(Head(b.vs))
    BY <1>3, <1>5, <1>7, <2>1
  <2>3. k <= m /\ Take(Head(b.vs), k) = Bytes(w, k) /\ Holds(MoveHeader(b, k), Bytes(w + k, m - k))
    BY <2>2, FrontTaken
  <2> QED BY <2>1, <2>3
<1>9. wire' = Bytes(0, w + k)
  <2>1. Cat(Bytes(0, w), Bytes(0 + w, k)) = Bytes(0, w + k) /\ 0 + w = w
    BY <1>3, BytesCat
  <2>2. wire' = Cat(Bytes(0, w), Bytes(w, k))
    BY <1>3, <1>7, <1>8 DEF Cat, Take
  <2> QED BY <2>1, <2>2
<1>10. wire' \in Slices /\ Len(wire') = w + k
  <2>1. w + k \in Nat
    BY <1>3
  <2>2. Numbers(Bytes(0, w + k), 0, w + k)
    BY <2>1, BytesFacts
  <2> QED BY <1>9, <2>2 DEF Numbers
<1>11. OnWire'
  <2>1. w + k <= accepted' /\ accepted' \in Nat
    BY <1>3, <1>4, <1>8
  <2> QED BY <1>9, <1>10, <2>1 DEF OnWire
<1>12. Unsent' = Bytes(w + k, m - k)
  <2>1. accepted' - (w + k) = m - k
    BY <1>3, <1>4
  <2> QED BY <1>10, <2>1 DEF Unsent
<1> QED BY <1>7, <1>8, <1>11, <1>12 DEF MoveSent

\* Every round of the loop of DoSendEvent.
LEMMA SendRound ==
  ASSUME SndInv, NEW t \in Backs, Send(t)
  PROVE  SndInv'
<1>1. SndTypeOK /\ OnWire /\ InBuffer /\ FrontExists /\ (online => shut = "no")
  BY DEF SndInv
<1>2. bpc[t] = "send" /\ UNCHANGED <<online, shut, sndReady, apc, alen, calls, accepted>>
  BY DEF Send
<1>3. ASSUME NEW label \in {"idle", "modify"}, Leave(t, label) PROVE SndInv'
  <2>1. /\ bpc' = [bpc EXCEPT ![t] = label] /\ sndMutex' = NULL
        /\ UNCHANGED <<sndBuffer, room, wire>>
    BY <1>3 DEF Leave, SndGoto
  <2>2. SndTypeOK'
    BY <1>1, <1>2, <2>1, SendAssumption DEF SndTypeOK
  <2>3. FrontExists'
    BY <2>1, <2>2, SendAssumption DEF SndTypeOK, FrontExists
  <2> QED BY <1>1, <1>2, <2>1, <2>2, <2>3, SndQuiet
<1>4. ASSUME online, room > 0,
             NEW n, n = IF Len(Head(sndBuffer.vs)) < room THEN Len(Head(sndBuffer.vs)) ELSE room,
             wire' = wire \o SubSeq(Head(sndBuffer.vs), 1, n),
             room' = room - n,
             sndBuffer' = MoveSent(n),
             IF sndBuffer'.vs = <<>> THEN SndGoto(t, "idle") /\ sndMutex' = NULL
             ELSE UNCHANGED <<bpc, sndMutex>>
      PROVE  SndInv'
  <2>1. n \in Nat /\ n <= room /\ OnWire' /\ Holds(sndBuffer', Unsent')
    BY <1>2, <1>4, SendOne
  <2>2. InBuffer'
    BY <2>1 DEF InBuffer
  <2>3. room' \in 0 .. Room
    BY <1>1, <1>4, <2>1, SendAssumption DEF SndTypeOK
  <2>4. SndTypeOK' /\ FrontExists'
    <3>1. CASE sndBuffer'.vs = <<>>
      <4>1. bpc' = [bpc EXCEPT ![t] = "idle"] /\ sndMutex' = NULL
        BY <1>4, <3>1 DEF SndGoto
      <4>2. SndTypeOK'
        BY <1>1, <1>2, <2>3, <4>1, SendAssumption DEF SndTypeOK
      <4> QED BY <4>1, <4>2, SendAssumption DEF SndTypeOK, FrontExists
    <3>2. CASE sndBuffer'.vs # <<>>
      <4>1. bpc' = bpc /\ sndMutex' = sndMutex
        BY <1>4, <3>2
      <4> QED BY <1>1, <1>2, <2>3, <3>2, <4>1 DEF SndTypeOK, FrontExists
    <3> QED BY <3>1, <3>2
  <2> QED BY <1>1, <1>2, <2>1, <2>2, <2>4 DEF SndInv
<1> QED BY <1>3, <1>4 DEF Send

\* Every other step.
LEMMA SndStep == SndInv /\ [SndNext]_sndVars => SndInv'
<1> SUFFICES ASSUME SndInv, [SndNext]_sndVars PROVE SndInv'
  OBVIOUS
<1>1. SndTypeOK /\ OnWire /\ InBuffer /\ FrontExists /\ (online => shut = "no")
  BY DEF SndInv
<1>2. CASE \E t \in Apps : SendMsg(t)
  <2>1. SndTypeOK'
    BY <1>1, <1>2, SendAssumption DEF SendMsg, SndTypeOK
  <2> QED BY <1>1, <1>2, <2>1, SndQuiet DEF SendMsg, FrontExists
<1>3. CASE \E t \in Backs : PollSendEvent(t)
  <2>1. SndTypeOK' /\ FrontExists'
    BY <1>1, <1>3 DEF PollSendEvent, SndGoto, SndTypeOK, FrontExists
  <2> QED BY <1>1, <1>3, <2>1, SndQuiet DEF PollSendEvent
<1>4. CASE \E t \in Backs : OnSend(t)
  <2>1. SndTypeOK' /\ FrontExists'
    BY <1>1, <1>4, SendAssumption DEF OnSend, SndGoto, SndTypeOK, FrontExists
  <2> QED BY <1>1, <1>4, <2>1, SndQuiet DEF OnSend
<1>5. CASE \E t \in Backs : ModifySend(t)
  <2>1. SndTypeOK' /\ FrontExists'
    BY <1>1, <1>5 DEF ModifySend, SndGoto, SndTypeOK, FrontExists, Armed
  <2> QED BY <1>1, <1>5, <2>1, SndQuiet DEF ModifySend
<1>6. CASE PeerReads
  <2>1. SndTypeOK' /\ FrontExists'
    BY <1>1, <1>6, SendAssumption DEF PeerReads, SndTypeOK, FrontExists
  <2> QED BY <1>1, <1>6, <2>1, SndQuiet DEF PeerReads
<1>7. CASE Shutdown
  <2>1. SndTypeOK' /\ FrontExists'
    BY <1>1, <1>7 DEF Shutdown, SndTypeOK, FrontExists
  <2> QED BY <1>1, <1>7, <2>1, SndQuiet DEF Shutdown
<1>8. CASE ClearSndBuffer
  <2>1. SndTypeOK'
    BY <1>1, <1>8 DEF ClearSndBuffer, SndTypeOK
  <2>2. FrontExists'
    BY <1>8, <2>1, SendAssumption DEF ClearSndBuffer, SndTypeOK, FrontExists
  <2>3. OnWire' /\ Holds(sndBuffer', <<>>) /\ shut' = "done" /\ ~online'
    BY <1>1, <1>8, HoldsEmpty DEF ClearSndBuffer, OnWire
  <2> QED BY <2>1, <2>2, <2>3 DEF SndInv, InBuffer
<1>9. CASE UNCHANGED sndVars
  <2>1. SndTypeOK' /\ FrontExists'
    BY <1>1, <1>9 DEF sndVars, SndTypeOK, FrontExists
  <2> QED BY <1>1, <1>9, <2>1, SndQuiet DEF sndVars
<1> QED BY <1>2, <1>3, <1>4, <1>5, <1>6, <1>7, <1>8, <1>9, SendMsgAddStep, SendRound
        DEF SndNext, SendStep

\* The wire and the buffer are what was accepted.
LEMMA SndExact == SndInv => WireExact
<1> SUFFICES ASSUME SndInv PROVE WireExact
  OBVIOUS
<1>1. SndTypeOK /\ OnWire /\ InBuffer /\ FrontExists /\ (online => shut = "no")
  BY DEF SndInv
<1>2. ASSUME online PROVE wire \o Merge(sndBuffer) = Bytes(0, accepted)
  <2>1. PICK w \in Nat, m \in Nat : w = Len(wire) /\ m = accepted - w /\ accepted = w + m
    <3>1. Len(wire) \in Nat /\ accepted - Len(wire) \in Nat
      BY <1>1, SliceFacts DEF OnWire
    <3> QED BY <1>1, <3>1 DEF OnWire
  <2>2. Merge(sndBuffer) = Bytes(w, m)
    BY <1>1, <1>2, <2>1, HoldsFacts DEF InBuffer, Unsent
  <2>3. Cat(Bytes(0, w), Bytes(0 + w, m)) = Bytes(0, w + m)
    BY BytesCat
  <2> QED BY <1>1, <2>1, <2>2, <2>3 DEF OnWire, Cat
<1> QED BY <1>1, <1>2 DEF WireExact, SentInOrder, OnWire

\* SendMsg, OnSend and Shutdown, by any threads in any order: the socket gets the
\* accepted bytes in order, none lost or repeated, however send cuts them, and the
\* loop never takes the front of an empty buffer.
THEOREM WireStaysExact == SndSpec => []WireExact
<1> QED BY SndInitInv, SndStep, SndExact, PTL DEF SndSpec

-----------------------------------------------------------------------------
(* Receiving.                                                               *)

\* The bytes read and not delivered.
Undelivered == IF proto /\ shut # "done" THEN NotDelivered ELSE <<>>

\* Only packets that a thread is about to cut off, or a bad one, are whole in the
\* buffer.
Waits ==
    proto /\ online /\ (\A t \in Pollers : rpc[t] \notin {"parse", "shutdown"})
          /\ Len(delivered) < Len(packets)
        => rcvBuffer.length < LengthOf(Len(delivered) + 1)

\* A thread cuts packets off only with a handler, and before the buffer is cleared.
Parses == \A t \in Pollers : rpc[t] = "parse" => proto /\ shut # "done"

RcvInv ==
    /\ RcvTypeOK /\ Stream /\ proto \in BOOLEAN
    /\ online => shut = "no"
    /\ InOrder
    /\ Holds(rcvBuffer, Undelivered)
    /\ Parses
    /\ Waits

\* At first nothing is read.
LEMMA RcvInitInv == RcvInit => RcvInv
<1> SUFFICES ASSUME RcvInit PROVE RcvInv
  OBVIOUS
<1>1. PICK n \in 0 .. MaxPackets : packets \in [1 .. n -> PacketLengths]
  BY DEF RcvInit
<1>2. n \in Nat
  BY FramingAssumption
<1>3. Stream
  BY <1>1, <1>2 DEF Stream
<1>4. /\ InOrder /\ NotDelivered = <<>> /\ Total \in Nat
      /\ Len(delivered) < Len(packets) => 0 < LengthOf(Len(delivered) + 1)
  BY <1>3, NoneDelivered DEF RcvInit
<1>5. RcvTypeOK
  BY <1>4, RecvAssumption DEF RcvInit, RcvTypeOK
<1>6. Holds(rcvBuffer, Undelivered)
  BY <1>4, HoldsEmpty DEF RcvInit, Undelivered
<1>7. Parses
  BY DEF RcvInit, Parses
<1>8. Waits
  <2>1. rcvBuffer.length = 0
    BY DEF RcvInit, EmptyBuffer
  <2> QED BY <1>4, <2>1 DEF Waits
<1> QED BY <1>3, <1>4, <1>5, <1>6, <1>7, <1>8 DEF RcvInit, RcvInv

\* A step that neither reads nor delivers.
LEMMA RcvQuiet ==
  ASSUME RcvInv, RcvTypeOK', UNCHANGED <<stream, taken, rcvBuffer, delivered>>,
         online' => shut' = "no",
         shut' = "done" <=> shut = "done",
         \A t \in Pollers : rpc'[t] = "parse" => rpc[t] = "parse",
         Waits'
  PROVE  RcvInv'
<1>1. /\ Stream /\ proto \in BOOLEAN /\ InOrder /\ Holds(rcvBuffer, Undelivered) /\ Parses
  BY DEF RcvInv
<1>2. Stream' /\ proto' = proto
  BY <1>1, StreamKept
<1>3. InOrder' /\ NotDelivered' = NotDelivered
  BY <1>1, DeliveredKept
<1>4. Undelivered' = Undelivered
  BY <1>2, <1>3 DEF Undelivered
<1>5. Parses'
  BY <1>1, <1>2 DEF Parses
<1> QED BY <1>1, <1>2, <1>3, <1>4, <1>5 DEF RcvInv

\* A step after which no fewer threads are about to cut packets off or to shut down.
LEMMA WaitsKept ==
  ASSUME Waits, UNCHANGED <<stream, rcvBuffer, delivered>>, online' => online,
         \A u \in Pollers : rpc[u] \in {"parse", "shutdown"} => rpc'[u] \in {"parse", "shutdown"}
  PROVE  Waits'
<1>1. packets' = packets /\ proto' = proto /\ \A p : LengthOf(p)' = LengthOf(p)
  BY StreamKept
<1> QED BY <1>1 DEF Waits

\* The types and the mutex, when thread t goes to label and keeps or leaves it.
LEMMA RcvTypes ==
  ASSUME RcvTypeOK, NEW t \in Pollers,
         NEW label \in {"idle", "event", "lock", "recv", "parse", "modify", "shutdown"},
         RcvGoto(t, label), rpc[t] \in {"recv", "parse"} \/ rcvMutex' = rcvMutex \/ rcvMutex = NULL,
         rcvMutex' = IF label \in {"recv", "parse"} THEN t
                     ELSE IF rpc[t] \in {"recv", "parse"} THEN NULL ELSE rcvMutex,
         UNCHANGED <<stream, sent>>, taken' \in 0 .. sent,
         full' \in [Pollers -> BOOLEAN], shut' \in {"no", "clear", "done"}
  PROVE  RcvTypeOK'
<1>1. Total' = Total
  BY StreamKept
<1>2. /\ rpc' = [rpc EXCEPT ![t] = label]
      /\ rpc \in [Pollers -> {"idle", "event", "lock", "recv", "parse", "modify", "shutdown"}]
  BY DEF RcvGoto, RcvTypeOK
<1>3. \A u \in Pollers : rpc'[u] = IF u = t THEN label ELSE rpc[u]
  BY <1>2
<1>4. NULL # t /\ \A u \in Pollers : u # NULL
  BY RecvAssumption
<1>5. \A u \in Pollers : rpc[u] \in {"recv", "parse"} <=> rcvMutex = u
  BY DEF RcvTypeOK
<1>6. \A u \in Pollers : rpc'[u] \in {"recv", "parse"} <=> rcvMutex' = u
  BY <1>3, <1>4, <1>5
<1> QED BY <1>1, <1>2, <1>6 DEF RcvTypeOK

\* Every round of the loop of OnRecv.
LEMMA RecvRound ==
  ASSUME RcvInv, NEW t \in Pollers, Recv(t)
  PROVE  RcvInv'
<1>1. /\ RcvTypeOK /\ Stream /\ proto \in BOOLEAN /\ (online => shut = "no") /\ InOrder
      /\ Holds(rcvBuffer, Undelivered) /\ Parses /\ Waits
  BY DEF RcvInv
<1>2. /\ rpc[t] = "recv" /\ UNCHANGED <<stream, sent, fin, epoll, conn>>
      /\ online' = online /\ shut' = shut
  BY DEF Recv, conn
<1>3. Stream' /\ proto' = proto
  BY <1>1, <1>2, StreamKept
<1>4. sent \in Nat /\ taken \in Nat /\ taken <= sent
  <2>1. Len(packets) \in Nat /\ Len(packets) \in 0 .. Len(packets)
    BY <1>1, EndsFacts
  <2>2. Total \in Nat
    BY <1>1, <2>1, EndsGrow DEF Total
  <2> QED BY <1>1, <2>2 DEF RcvTypeOK
<1>5. PICK n : n = IF sent - taken < RecvSize THEN sent - taken ELSE RecvSize
  OBVIOUS
<1>6. n \in Nat /\ n <= sent - taken
  BY <1>4, <1>5, RecvAssumption
<1>7. \/ /\ online /\ n > 0
         /\ taken' = taken + n
         /\ full' = [full EXCEPT ![t] = n = RecvSize]
         /\ IF proto
            THEN /\ rcvBuffer' = AddSlice(rcvBuffer, Bytes(taken, n))
                 /\ RcvGoto(t, "parse")
                 /\ UNCHANGED <<delivered, rcvMutex>>
            ELSE /\ delivered' = Append(delivered, Bytes(taken, n))
                 /\ RcvGoto(t, IF n = RecvSize THEN "recv" ELSE "modify")
                 /\ rcvMutex' = IF n = RecvSize THEN t ELSE NULL
                 /\ UNCHANGED rcvBuffer
      \/ /\ \E label \in {"shutdown", "modify"} : RcvGoto(t, label)
         /\ rcvMutex' = NULL
         /\ UNCHANGED <<taken, full, rcvBuffer, delivered>>
  BY <1>5 DEF Recv
<1>8. rcvMutex = t /\ full \in [Pollers -> BOOLEAN] /\ shut' \in {"no", "clear", "done"}
      /\ rpc \in [Pollers -> {"idle", "event", "lock", "recv", "parse", "modify", "shutdown"}]
  BY <1>1, <1>2 DEF RcvTypeOK
<1>9. CASE /\ online /\ n > 0 /\ proto
           /\ taken' = taken + n
           /\ full' = [full EXCEPT ![t] = n = RecvSize]
           /\ rcvBuffer' = AddSlice(rcvBuffer, Bytes(taken, n))
           /\ RcvGoto(t, "parse")
           /\ UNCHANGED <<delivered, rcvMutex>>
  <2>1. taken' \in 0 .. sent /\ full' \in [Pollers -> BOOLEAN]
    BY <1>4, <1>6, <1>8, <1>9
  <2>2. RcvTypeOK'
    BY <1>1, <1>2, <1>8, <1>9, <2>1, RcvTypes
  <2>3. InOrder' /\ Holds(rcvBuffer', Undelivered')
    <3>1. Holds(rcvBuffer, NotDelivered)
      BY <1>1, <1>9 DEF Undelivered
    <3>2. InOrder' /\ Holds(rcvBuffer', NotDelivered')
      BY <1>1, <1>2, <1>6, <1>9, <3>1, RecvToBuffer
    <3> QED BY <1>1, <1>2, <1>3, <1>9, <3>2 DEF Undelivered
  <2>4. rpc'[t] = "parse" /\ \A u \in Pollers : rpc'[u] = IF u = t THEN "parse" ELSE rpc[u]
    BY <1>8, <1>9 DEF RcvGoto
  <2>5. Parses'
    BY <1>1, <1>2, <1>3, <1>9, <2>4 DEF Parses
  <2>6. Waits'
    BY <2>4 DEF Waits
  <2> QED BY <1>1, <1>2, <1>3, <2>2, <2>3, <2>5, <2>6 DEF RcvInv
<1>10. CASE /\ online /\ n > 0 /\ ~proto
            /\ taken' = taken + n
            /\ full' = [full EXCEPT ![t] = n = RecvSize]
            /\ delivered' = Append(delivered, Bytes(taken, n))
            /\ RcvGoto(t, IF n = RecvSize THEN "recv" ELSE "modify")
            /\ rcvMutex' = IF n = RecvSize THEN t ELSE NULL
            /\ UNCHANGED rcvBuffer
  <2>1. taken' \in 0 .. sent /\ full' \in [Pollers -> BOOLEAN]
    BY <1>4, <1>6, <1>8, <1>10
  <2>2. PICK label \in {"recv", "modify"} : RcvGoto(t, label) /\ rcvMutex' = IF label = "recv" THEN t ELSE NULL
    <3>1. CASE n = RecvSize
      BY <1>10, <3>1
    <3>2. CASE n # RecvSize
      BY <1>10, <3>2
    <3> QED BY <3>1, <3>2
  <2>3. RcvTypeOK'
    BY <1>1, <1>2, <1>8, <2>1, <2>2, RcvTypes
  <2>4. InOrder' /\ Holds(rcvBuffer', Undelivered')
    <3>1. InOrder'
      BY <1>1, <1>2, <1>6, <1>10, RecvToHandler
    <3>2. Undelivered = <<>> /\ Undelivered' = <<>>
      BY <1>3, <1>10 DEF Undelivered
    <3> QED BY <1>1, <1>10, <3>1, <3>2
  <2>5. \A u \in Pollers : rpc'[u] = IF u = t THEN label ELSE rpc[u]
    BY <1>8, <2>2 DEF RcvGoto
  <2>6. Parses'
    BY <1>1, <1>2, <1>3, <2>5 DEF Parses
  <2>7. Waits'
    BY <1>3, <1>10 DEF Waits
  <2> QED BY <1>1, <1>2, <1>3, <2>3, <2>4, <2>6, <2>7 DEF RcvInv
<1>11. CASE /\ \E label \in {"shutdown", "modify"} : RcvGoto(t, label)
            /\ rcvMutex' = NULL
            /\ UNCHANGED <<taken, full, rcvBuffer, delivered>>
  <2>1. PICK label \in {"shutdown", "modify"} : RcvGoto(t, label)
    BY <1>11
  <2>2. taken' \in 0 .. sent
    BY <1>4, <1>11
  <2>3. RcvTypeOK'
    BY <1>1, <1>2, <1>8, <1>11, <2>1, <2>2, RcvTypes
  <2>4. \A u \in Pollers : rpc'[u] = IF u = t THEN label ELSE rpc[u]
    BY <1>8, <2>1 DEF RcvGoto
  <2>5. Waits'
    BY <1>1, <1>2, <1>11, <2>4, WaitsKept
  <2> QED BY <1>1, <1>2, <1>11, <2>3, <2>4, <2>5, RcvQuiet
<1> QED BY <1>1, <1>7, <1>9, <1>10, <1>11

\* Every round of ParsingProtocol.
LEMMA ParseRound ==
  ASSUME RcvInv, NEW t \in Pollers, ParsingProtocol(t)
  PROVE  RcvInv'
<1>1. /\ RcvTypeOK /\ Stream /\ proto \in BOOLEAN /\ (online => shut = "no") /\ InOrder
      /\ Holds(rcvBuffer, Undelivered) /\ Parses /\ Waits
  BY DEF RcvInv
<1>2. /\ rpc[t] = "parse" /\ UNCHANGED <<stream, socket, epoll, conn, full, dropped>>
      /\ online' = online /\ shut' = shut /\ taken' = taken /\ sent' = sent /\ full' = full
  BY DEF ParsingProtocol, conn, socket
<1>3. proto /\ shut # "done" /\ Stream' /\ proto' = proto
  BY <1>1, <1>2, StreamKept DEF Parses
<1>4. PICK k : k = Len(delivered)
  OBVIOUS
<1>5. PICK len : len = OnCheckPackageLength(Package)
  OBVIOUS
<1>6. PICK m : m = rcvBuffer.length
  OBVIOUS
<1>7. /\ k \in Nat /\ k <= Len(packets) /\ Len(packets) \in Nat /\ m \in Nat
      /\ m > 0 => k < Len(packets)
      /\ k < Len(packets) => LengthOf(k + 1) \in Nat /\ LengthOf(k + 1) >= HeadBytes
                            /\ LengthOf(k + 1) > 0
      /\ m > 0 => len = IF m < HeadBytes THEN 0
                        ELSE IF packets[k + 1] = Bad THEN -1 ELSE LengthOf(k + 1)
      /\ ReachTail <=> HeaderSize >= m
  <2>1. Holds(rcvBuffer, NotDelivered)
    BY <1>1, <1>3 DEF Undelivered
  <2>2. taken <= Total
    <3>1. Len(packets) \in 0 .. Len(packets)
      BY <1>1, EndsFacts
    <3>2. Total \in Nat
      BY <1>1, <3>1, EndsGrow DEF Total
    <3> QED BY <1>1, <3>2 DEF RcvTypeOK
  <2> QED BY <1>1, <1>3, <1>4, <1>5, <1>6, <2>1, <2>2, ParseFacts
<1>8. HeadBytes \in Nat /\ HeadBytes > 0 /\ HeaderSize \in Nat /\ HeadBytes <= HeaderSize
  BY FramingAssumption
<1>9. rcvMutex = t /\ shut' \in {"no", "clear", "done"} /\ taken' \in 0 .. sent
      /\ full' \in [Pollers -> BOOLEAN]
      /\ rpc \in [Pollers -> {"idle", "event", "lock", "recv", "parse", "modify", "shutdown"}]
  BY <1>1, <1>2 DEF RcvTypeOK
<1>10. ASSUME LeaveParsing(t), k < Len(packets) => m < LengthOf(k + 1) PROVE RcvInv'
  <2>1. PICK label \in {"recv", "modify"} : RcvGoto(t, label) /\ rcvMutex' = IF label = "recv" THEN t ELSE NULL
    <3>1. CASE full[t]
      BY <1>10, <3>1 DEF LeaveParsing
    <3>2. CASE ~full[t]
      BY <1>10, <3>2 DEF LeaveParsing
    <3> QED BY <3>1, <3>2
  <2>2. RcvTypeOK'
    BY <1>1, <1>2, <1>9, <2>1, RcvTypes
  <2>3. UNCHANGED <<rcvBuffer, delivered>>
    BY <1>10 DEF LeaveParsing
  <2>4. \A u \in Pollers : rpc'[u] = IF u = t THEN label ELSE rpc[u]
    BY <1>9, <2>1 DEF RcvGoto
  <2>5. Waits'
    <3>1. packets' = packets /\ \A p : LengthOf(p)' = LengthOf(p)
      BY <1>2, StreamKept
    <3> QED BY <1>4, <1>6, <1>10, <2>3, <3>1 DEF Waits
  <2> QED BY <1>1, <1>2, <2>2, <2>3, <2>4, <2>5, RcvQuiet
<1>11. CASE m = 0 /\ LeaveParsing(t)
  BY <1>7, <1>10, <1>11
<1>12. CASE RcvGoto(t, "shutdown") /\ rcvMutex' = NULL /\ UNCHANGED <<rcvBuffer, delivered>>
  <2>1. RcvTypeOK'
    BY <1>1, <1>2, <1>9, <1>12, RcvTypes
  <2>2. \A u \in Pollers : rpc'[u] = IF u = t THEN "shutdown" ELSE rpc[u]
    BY <1>9, <1>12 DEF RcvGoto
  <2>3. Waits'
    BY <1>1, <1>2, <1>12, <2>2, WaitsKept
  <2> QED BY <1>1, <1>2, <1>12, <2>1, <2>2, <2>3, RcvQuiet
<1>13. CASE m > 0 /\ NeedsMore(len) /\ LeaveParsing(t)
  <2>1. k < Len(packets) => m < LengthOf(k + 1)
    BY <1>6, <1>7, <1>8, <1>13 DEF NeedsMore
  <2> QED BY <1>10, <1>13, <2>1
<1>14. CASE /\ m > 0 /\ len >= 0 /\ ~NeedsMore(len)
            /\ PassOn(len)
            /\ UNCHANGED <<rpc, rcvMutex>>
  <2>1. k < Len(packets) /\ len = LengthOf(k + 1) /\ len <= m
    BY <1>6, <1>7, <1>8, <1>14 DEF NeedsMore
  <2>2. InOrder' /\ Holds(rcvBuffer', Undelivered')
    <3>1. Holds(rcvBuffer, NotDelivered)
      BY <1>1, <1>3 DEF Undelivered
    <3>2. InOrder' /\ Holds(rcvBuffer', NotDelivered')
      BY <1>1, <1>2, <1>3, <1>4, <1>6, <1>14, <2>1, <3>1, CutOne
    <3> QED BY <1>2, <1>3, <3>2 DEF Undelivered
  <2>3. Total' = Total
    BY <1>2, StreamKept
  <2>4. RcvTypeOK'
    BY <1>1, <1>2, <1>14, <2>3 DEF RcvTypeOK
  <2>5. Parses' /\ Waits'
    BY <1>1, <1>2, <1>3, <1>14 DEF Parses, Waits
  <2> QED BY <1>1, <1>2, <1>3, <2>2, <2>4, <2>5 DEF RcvInv
<1>15. \/ m = 0 /\ LeaveParsing(t)
       \/ RcvGoto(t, "shutdown") /\ rcvMutex' = NULL /\ UNCHANGED <<rcvBuffer, delivered>>
       \/ m > 0 /\ NeedsMore(len) /\ LeaveParsing(t)
       \/ /\ m > 0 /\ len >= 0 /\ ~NeedsMore(len)
          /\ PassOn(len)
          /\ UNCHANGED <<rpc, rcvMutex>>
  <2>1. MoreToParse <=> m > 0
    BY <1>6 DEF MoreToParse
  <2>2. ~(m > 0) => m = 0
    BY <1>7
  <2> QED BY <1>5, <1>6, <2>1, <2>2 DEF ParsingProtocol
<1> QED BY <1>11, <1>12, <1>13, <1>14, <1>15

\* Every other step.
LEMMA RcvStep == RcvInv /\ [RcvNext]_rcvVars => RcvInv'
<1> SUFFICES ASSUME RcvInv, [RcvNext]_rcvVars PROVE RcvInv'
  OBVIOUS
<1>1. /\ RcvTypeOK /\ Stream /\ proto \in BOOLEAN /\ (online => shut = "no") /\ InOrder
      /\ Holds(rcvBuffer, Undelivered) /\ Parses /\ Waits
  BY DEF RcvInv
<1>2. /\ taken \in 0 .. sent /\ full \in [Pollers -> BOOLEAN] /\ shut \in {"no", "clear", "done"}
      /\ rpc \in [Pollers -> {"idle", "event", "lock", "recv", "parse", "modify", "shutdown"}]
  BY <1>1 DEF RcvTypeOK
<1>3. Total \in Nat /\ sent \in 0 .. Total
  <2>1. Len(packets) \in 0 .. Len(packets)
    BY <1>1, EndsFacts
  <2> QED BY <1>1, <2>1, EndsGrow DEF Total, RcvTypeOK
\* A step that leaves the threads alone.
<1>4. ASSUME UNCHANGED <<stream, taken, rcvMutex, rcvBuffer, rpc, full, delivered>>,
             sent' \in 0 .. Total, sent <= sent', online' => online, online' => shut' = "no",
             shut' = "done" <=> shut = "done", shut' \in {"no", "clear", "done"}
      PROVE  RcvInv'
  <2>1. Total' = Total
    BY <1>4, StreamKept
  <2>2. taken' \in 0 .. sent'
    BY <1>2, <1>3, <1>4
  <2>3. RcvTypeOK'
    BY <1>1, <1>4, <2>1, <2>2 DEF RcvTypeOK
  <2>4. Waits'
    BY <1>1, <1>4, WaitsKept
  <2> QED BY <1>4, <2>3, <2>4, RcvQuiet
\* A step of one thread outside the mutex.
<1>5. ASSUME NEW t \in Pollers, rpc[t] \notin {"recv", "parse"},
             NEW label \in {"idle", "event", "lock", "modify", "shutdown"}, RcvGoto(t, label),
             rpc[t] = "shutdown" => ~online',
             UNCHANGED <<stream, sent, taken, rcvMutex, rcvBuffer, full, delivered>>,
             online' => online, online' => shut' = "no",
             shut' = "done" <=> shut = "done", shut' \in {"no", "clear", "done"}
      PROVE  RcvInv'
  <2>1. RcvTypeOK'
    BY <1>1, <1>2, <1>5, RcvTypes
  <2>2. \A u \in Pollers : rpc'[u] = IF u = t THEN label ELSE rpc[u]
    BY <1>2, <1>5 DEF RcvGoto
  <2>3. Waits'
    <3>1. CASE rpc[t] = "shutdown"
      BY <1>5, <3>1 DEF Waits
    <3>2. CASE rpc[t] # "shutdown"
      <4>1. \A u \in Pollers : rpc[u] \in {"parse", "shutdown"} => rpc'[u] \in {"parse", "shutdown"}
        BY <1>5, <2>2, <3>2
      <4> QED BY <1>1, <1>5, <4>1, WaitsKept
    <3> QED BY <3>1, <3>2
  <2> QED BY <1>5, <2>1, <2>2, <2>3, RcvQuiet
<1>6. CASE PeerSends
  <2>1. PICK n \in 1 .. Total - sent : sent' = sent + n
    BY <1>6 DEF PeerSends
  <2>2. sent' \in 0 .. Total /\ sent <= sent'
    BY <1>3, <2>1
  <2> QED BY <1>1, <1>2, <1>4, <1>6, <2>2 DEF PeerSends, conn
<1>7. CASE PeerCloses
  BY <1>1, <1>2, <1>3, <1>4, <1>7 DEF PeerCloses, conn
<1>8. CASE ShutdownByOther
  <2>1. online /\ ~online' /\ shut' = "clear" /\ sent' = sent /\ taken' = taken
        /\ UNCHANGED <<stream, rcvMutex, rcvBuffer, rpc, full, delivered>>
    BY <1>8 DEF ShutdownByOther, CloseSocket, socket
  <2> QED BY <1>1, <1>3, <1>4, <2>1
<1>9. CASE ClearRcvBuffer
  <2>1. /\ shut = "clear" /\ rcvMutex = NULL /\ rcvBuffer' = EmptyBuffer /\ shut' = "done"
        /\ UNCHANGED <<stream, sent, taken, online, rcvMutex, rpc, full, delivered>>
    BY <1>9 DEF ClearRcvBuffer, socket
  <2>2. Stream' /\ Total' = Total /\ proto' = proto
    BY <1>1, <2>1, StreamKept
  <2>3. RcvTypeOK'
    BY <1>1, <2>1, <2>2 DEF RcvTypeOK
  <2>4. InOrder'
    BY <1>1, <2>1, DeliveredKept
  <2>5. Holds(rcvBuffer', Undelivered')
    BY <2>1, HoldsEmpty DEF Undelivered
  <2>6. Parses'
    BY <1>1, <2>1, RecvAssumption DEF Parses, RcvTypeOK
  <2>7. ~online'
    BY <1>1, <2>1
  <2>8. Waits'
    BY <2>7 DEF Waits
  <2> QED BY <1>1, <2>2, <2>3, <2>4, <2>5, <2>6, <2>7, <2>8 DEF RcvInv
<1>10. ASSUME NEW t \in Pollers, PollRecvEvent(t) \/ PollOther(t) PROVE RcvInv'
  <2>1. rpc[t] = "idle" /\ RcvGoto(t, "event")
        /\ UNCHANGED <<stream, sent, taken, online, shut, rcvMutex, rcvBuffer, full, delivered>>
    BY <1>10 DEF PollRecvEvent, PollOther, socket, conn
  <2> QED BY <1>1, <1>2, <1>5, <2>1
<1>11. ASSUME NEW t \in Pollers, OnEventProcess(t) PROVE RcvInv'
  <2>1. rpc[t] = "event"
        /\ UNCHANGED <<stream, sent, taken, online, shut, rcvMutex, rcvBuffer, full, delivered>>
    BY <1>11 DEF OnEventProcess, socket, conn
  <2>2. PICK label \in {"shutdown", "lock", "idle"} : RcvGoto(t, label)
    <3>1. CASE event = "error"
      BY <1>11, <3>1 DEF OnEventProcess
    <3>2. CASE event = "recv"
      BY <1>11, <3>2 DEF OnEventProcess
    <3>3. CASE event # "error" /\ event # "recv"
      BY <1>11, <3>3 DEF OnEventProcess
    <3> QED BY <3>1, <3>2, <3>3
  <2> QED BY <1>1, <1>2, <1>5, <2>1, <2>2
<1>12. ASSUME NEW t \in Pollers, OnRecv(t) PROVE RcvInv'
  <2>1. rpc[t] = "lock" /\ rcvMutex = NULL /\ rcvMutex' = t /\ RcvGoto(t, "recv")
        /\ UNCHANGED <<stream, sent, taken, online, shut, rcvBuffer, full, delivered>>
    BY <1>12 DEF OnRecv, socket, conn
  <2>2. RcvTypeOK'
    BY <1>1, <1>2, <2>1, RcvTypes
  <2>3. \A u \in Pollers : rpc'[u] = IF u = t THEN "recv" ELSE rpc[u]
    BY <1>2, <2>1 DEF RcvGoto
  <2>4. Waits'
    BY <1>1, <2>1, <2>3, WaitsKept
  <2> QED BY <1>1, <2>1, <2>2, <2>3, <2>4, RcvQuiet
<1>13. ASSUME NEW t \in Pollers, ModifyRecv(t) PROVE RcvInv'
  <2>1. rpc[t] = "modify" /\ RcvGoto(t, "idle")
        /\ UNCHANGED <<stream, sent, taken, online, shut, rcvMutex, rcvBuffer, full, delivered>>
    BY <1>13 DEF ModifyRecv, socket, conn
  <2> QED BY <1>1, <1>2, <1>5, <2>1
<1>14. ASSUME NEW t \in Pollers, ShutdownByPoller(t) PROVE RcvInv'
  <2>1. rpc[t] = "shutdown" /\ RcvGoto(t, "idle") /\ ~online' /\ shut' = (IF online THEN "clear" ELSE shut)
        /\ UNCHANGED <<stream, sent, taken, rcvMutex, rcvBuffer, full, delivered>>
    BY <1>14 DEF ShutdownByPoller, CloseSocket, socket
  <2>2. (shut' = "done" <=> shut = "done") /\ shut' \in {"no", "clear", "done"}
    BY <1>1, <1>2, <2>1
  <2> QED BY <1>5, <2>1, <2>2
<1>15. CASE UNCHANGED rcvVars
  <2>1. UNCHANGED <<stream, sent, taken, online, shut, rcvMutex, rcvBuffer, rpc, full, delivered>>
    BY <1>15 DEF rcvVars, socket, conn
  <2> QED BY <1>1, <1>2, <1>3, <1>4, <2>1
<1> QED BY <1>6, <1>7, <1>8, <1>9, <1>10, <1>11, <1>12, <1>13, <1>14, <1>15, RecvRound, ParseRound
        DEF RcvNext, RecvStep

\* The stream is what was delivered, what the buffer holds and the rest.
LEMMA RcvExact == RcvInv => StreamIntact
<1> SUFFICES ASSUME RcvInv PROVE StreamIntact
  OBVIOUS
<1>1. /\ RcvTypeOK /\ Stream /\ proto \in BOOLEAN /\ InOrder
      /\ Holds(rcvBuffer, Undelivered) /\ Waits
  BY DEF RcvInv
<1>2. PacketsIntact
  BY <1>1 DEF InOrder, PacketsIntact, Got
<1>3. BufferExact
  BY <1>1, HoldsFacts DEF BufferExact, Undelivered, NotDelivered, Got
<1>4. ASSUME rcvMutex = NULL PROVE \A t \in Pollers : rpc[t] # "parse"
  BY <1>1, <1>4, RecvAssumption DEF RcvTypeOK
<1>5. NoPacketWaits
  BY <1>1, <1>4 DEF NoPacketWaits, Waits
<1> QED BY <1>1, <1>2, <1>3, <1>5 DEF StreamIntact

\* OnRecv, ParsingProtocol and Shutdown, by any threads in any order: what is
\* delivered is the peer's stream, byte for byte and packet by packet, however the
\* peer's writes, the reads and the slices of the buffer fall.
THEOREM StreamStaysIntact == RcvSpec => []StreamIntact
<1> QED BY RcvInitInv, RcvStep, RcvExact, PTL DEF RcvSpec
=============================================================================
