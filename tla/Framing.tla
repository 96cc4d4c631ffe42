------------------------------ MODULE Framing -------------------------------
(***************************************************************************)
(* What a Connection of either platform keeps of the bytes it received     *)
(* (ReadSliceFromRecvBuffer and ParsingProtocol, the same code in          *)
(* src/linux/connection.cc and src/windows/connection.cc).  RecvPath and   *)
(* IocpConnection have the threads, the socket and the loop's exits.       *)
(*                                                                         *)
(* A byte is its position in the stream the peer sends.  The stream is a   *)
(* sequence of packets; the handler can tell a packet's length from its    *)
(* first HeadBytes bytes, and calls a packet of length Bad an error.       *)
(***************************************************************************)
EXTENDS SliceBuffer

CONSTANTS
    HeaderSize,    \* header_size of ParsingProtocol, 1024
    HeadBytes,     \* what the ProtocolHandler has to see of a packet
    PacketLengths, \* bound: the packet lengths
    MaxPackets,    \* bound: packets in the stream
    Bad

\* The handler can tell the length from the part of a packet that it is shown
\* first, header_size bytes: see the rounds of ParsingProtocol.
ASSUME FramingAssumption ==
    /\ HeaderSize \in Nat \ {0}
    /\ HeadBytes \in 1 .. HeaderSize
    /\ MaxPackets \in Nat
    /\ \A n \in PacketLengths \ {Bad} : n \in Nat /\ n >= HeadBytes

VARIABLES
    packets,   \* the packets of the stream, each a length or Bad
    proto,     \* whether a ProtocolHandler is set
    taken,     \* bytes taken out of the socket by recv
    rcvBuffer, \* _rcv_buffer
    delivered  \* the slices passed to OnDataReceived

stream == <<packets, proto>>

-----------------------------------------------------------------------------
(* The stream.                                                              *)

LengthOf(p) == IF packets[p] = Bad THEN HeadBytes ELSE packets[p]

\* Ends[p]: the position of the last byte of packet p.
Ends == LET end[p \in 0 .. Len(packets)] == IF p = 0 THEN 0 ELSE end[p - 1] + LengthOf(p)
        IN end

Total == Ends[Len(packets)]

Packet(p) == Bytes(Ends[p - 1], LengthOf(p))

\* ProtocolHandler::OnCheckPackageLength on data: -1 an error, 0 more data
\* needed, otherwise the length of the packet that data begins with.
OnCheckPackageLength(data) ==
    IF Len(data) < HeadBytes
    THEN 0
    ELSE LET P == {p \in DOMAIN packets : Ends[p - 1] + 1 = data[1]}
         IN IF P = {} \/ \E p \in P : packets[p] = Bad
            THEN -1
            ELSE packets[CHOOSE p \in P : TRUE]

-----------------------------------------------------------------------------
(* What a round of ParsingProtocol looks at.                                *)

\* ReadSliceFromRecvBuffer: all of the buffer, or its first read_size bytes.
ReachTail == HeaderSize >= rcvBuffer.length
Package == IF ReachTail THEN Merge(rcvBuffer) ELSE GetHeader(rcvBuffer, HeaderSize)

\* while (cache_size > 0)
MoreThanHeader == rcvBuffer.length > HeaderSize
MoreToParse == rcvBuffer.length > 0

\* len is what the handler says of the package.  The do {} while (false) ends after
\* its first pass also by "continue": a handler that asks for more data than the
\* first read_size bytes is not asked again, and the round goes on with pack_len 0.
NeedsMore(len) == (len = 0 /\ ReachTail) \/ len > rcvBuffer.length

\* The package passed on is the pack_len first bytes, cut from what was read or
\* taken from the buffer if that was too little.
CutWhole(data, len) == data
Cut(data, len) ==
    IF Len(data) < len THEN GetHeader(rcvBuffer, len) ELSE DropBack(data, Len(data) - len)

PassOn(len) ==
    /\ delivered' = Append(delivered, Cut(Package, len))
    /\ rcvBuffer' = MoveHeader(rcvBuffer, len)

-----------------------------------------------------------------------------
(* What becomes of the stream.                                              *)

\* What is delivered is the stream in order, with nothing lost, doubled or
\* inserted; with a ProtocolHandler, cut exactly at the packet boundaries, no
\* matter how the peer's writes, the reads and the slices of the buffer fall.
PacketsIntact ==
    /\ FlattenSeq(delivered) = Bytes(0, Len(FlattenSeq(delivered)))
    /\ proto => /\ Len(delivered) <= Len(packets)
                /\ \A k \in 1 .. Len(delivered) : delivered[k] = Packet(k)
=============================================================================
