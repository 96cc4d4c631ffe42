------------------------------ MODULE Windows -------------------------------
(***************************************************************************)
(* Model of the Windows port: a behaviour is one of the connector and the  *)
(* listener or one of a connection (part), and leaves the state of the     *)
(* other alone.                                                            *)
(***************************************************************************)
EXTENDS IocpSockets, IocpConnection

VARIABLE part   \* "sockets" or "connection"

vars == <<part, sockVars, iocpVars>>

Init ==
    /\ part \in {"sockets", "connection"}
    /\ SockInit /\ ConnInit
    /\ part = "connection" => first = "connector"
    /\ part = "sockets" => zeroId /\ ~proto /\ ~unarmed /\ packets = <<>>

UseSockets == part = "sockets" /\ SockNext /\ UNCHANGED <<part, iocpVars>>
UseConnection == part = "connection" /\ ConnNext /\ UNCHANGED <<part, sockVars>>

Next == UseSockets \/ UseConnection

Spec == Init /\ [][Next]_vars

\* The part that is not used has no step that could be taken.
FairSpec == Spec /\ SockFairness /\ ConnFairness
=============================================================================
