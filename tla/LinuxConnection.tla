--------------------------- MODULE LinuxConnection --------------------------
(***************************************************************************)
(* Model of a Connection on Linux: a behaviour is one of its sending half  *)
(* or one of its receiving half, and leaves the state of the other alone.  *)
(* The halves share the descriptor and the course of Shutdown, and no      *)
(* mutex, buffer or thread.                                                *)
(***************************************************************************)
EXTENDS SendPath, RecvPath

VARIABLE half   \* "send" or "recv"

ownSnd == <<sndMutex, sndBuffer, room, sndReady, apc, alen, bpc, calls, accepted, wire, failed>>
ownRcv == <<stream, socket, epoll, rcvMutex, rcvBuffer, rpc, full, delivered, dropped>>
vars == <<half, conn, ownSnd, ownRcv>>

\* Without a ProtocolHandler the boundaries of the packets are not looked at.
Init ==
    /\ half \in {"send", "recv"}
    /\ SndInit /\ RcvInit
    /\ half = "send" => ~proto /\ packets = <<>>
    /\ half = "recv" /\ ~proto => Bad \notin Range(packets)

Sending == half = "send" /\ UNCHANGED <<half, ownRcv>>
Receiving == half = "recv" /\ UNCHANGED <<half, ownSnd>>

Next == (Sending /\ SndNext) \/ (Receiving /\ RcvNext)

\* As in FairSndSpec and FairRcvSpec, for the half that is used.
FairSpec ==
    /\ Init /\ [][Next]_vars
    /\ \A t \in Apps : WF_vars(Sending /\ SendMsgAdd(t))
    /\ \A t \in Backs : WF_vars(Sending /\ SendStep(t))
    /\ WF_vars(Sending /\ PeerReads)
    /\ WF_vars(Sending /\ ClearSndBuffer)
    /\ \A t \in Pollers : WF_vars(Receiving /\ RecvStep(t))
    /\ WF_vars(Receiving /\ ClearRcvBuffer)
=============================================================================
