--------------------------- MODULE WindowsProofs ----------------------------
(***************************************************************************)
(* Proofs about the connector, the listener and the completion port of     *)
(* Windows: who uses the memory of an operation and who closes its socket, *)
(* for any number of threads, connects, accepts and sockets; and about a   *)
(* connection: its bytes, for any messages, sizes and threads.             *)
(***************************************************************************)
EXTENDS Windows, SliceBufferProofs, FiniteSetTheorems, TLAPS

\* The types that SockTypeOK leaves out.
LocalType ==
    /\ first \in Owners
    /\ listenFd \in 0 .. made /\ arming \in Accepts \cup {0}
    /\ wop \in [Workers -> Ops \cup {0}]
    /\ cpc \in [Callers -> {"idle", "record", "start"}]
    /\ cop \in [Callers -> Connects \cup {0}]
    /\ held \subseteq Handles
    /\ answered \in [Connects -> Nat]

\* Sockets are numbered as they are made, and no two operations share one.
HandleInv ==
    /\ \A s \in Handles : s > made => handle[s] = "none" /\ s \notin held
    /\ \A o, q \in Ops : fdOf[o] = fdOf[q] /\ fdOf[o] # 0 => o = q
    /\ \A o \in Ops : fdOf[o] # 0 => fdOf[o] # listenFd /\ mem[o] # "none"
    /\ \A e \in Connects : mem[e] # "none" => fdOf[e] # 0
    /\ listenFd \notin held

\* One at a time works on an operation: the caller that makes it, the kernel or
\* the port's queue, a thread of the port.  The threads are started together.
Busy == {"connect", "erase", "accept", "rearm"}
UseInv ==
    /\ \A w \in Workers : wop[w] # 0 <=> wpc[w] \in Busy
    /\ \A w \in Workers : wop[w] # 0 => io[wop[w]] = "idle" /\ fdOf[wop[w]] # 0
    /\ \A v, w \in Workers : wop[v] = wop[w] /\ wop[v] # 0 => v = w
    /\ \A o \in Ops : io[o] # "idle" => fdOf[o] # 0
    /\ \A v, w \in Workers : wpc[v] = "new" => wpc[w] = "new"
CallInv ==
    /\ \A c \in Callers : cop[c] # 0 <=> cpc[c] # "idle"
    /\ \A c \in Callers : cop[c] # 0 =>
          /\ io[cop[c]] = "idle" /\ mem[cop[c]] = "live"
          /\ \A w \in Workers : wop[w] # cop[c]
    /\ \A c, d \in Callers : cop[c] = cop[d] /\ cop[c] # 0 => c = d

\* The accepts are made one after the other, and freed by Shutdown only.
ListenerInv ==
    /\ listenFd = 0 => arming = 0 /\ \A o \in Accepts : mem[o] = "none"
    /\ arming # 0 => \A o \in Accepts : o >= arming => mem[o] = "none"
    /\ stop["listener"] = "no" /\ listenFd # 0 => listenFd \in services
    /\ stop["listener"] \in {"no", "close"} => \A o \in Accepts : mem[o] # "freed"
    /\ \A o \in doomed : mem[o] # "none"

\* A socket is given to the endpoint before its operation lets go of it.
Erasing(o) == \E w \in Workers : wop[w] = o /\ wpc[w] \in {"erase", "rearm"}
HandedOver == \A o \in Ops : Erasing(o) /\ IsOpen(fdOf[o]) => fdOf[o] \in held

\* Until a Shutdown begins: the records hold every connect, and an open socket is
\* its operation's, its endpoint's or the listener's.
Up == \A p \in Owners : stop[p] = "no"
RecordedInv ==
    Up => \A e \in Connects : mem[e] = "live" =>
              e \in records \/ \E c \in Callers : cop[c] = e /\ cpc[c] = "record"
OwnedInv ==
    Up => \A s \in Handles : IsOpen(s) =>
              \/ s \in held \/ s = listenFd
              \/ \E o \in Ops : fdOf[o] = s /\ mem[o] = "live" /\ ~Erasing(o)
AloneInv ==
    Up => \A o \in Ops : mem[o] = "live" /\ fdOf[o] \in held => Erasing(o)

\* The connector loses no open socket, also during Shutdown.
TrackInv ==
    /\ \A e \in Connects : IsOpen(fdOf[e]) =>
          \/ fdOf[e] \in held \/ e \in records
          \/ \E w \in Workers : wop[w] = e
          \/ \E c \in Callers : cop[c] = e
    /\ \A c \in Callers : cpc[c] = "start" /\ IsOpen(fdOf[cop[c]]) => cop[c] \in records

\* What is recorded when Shutdown has cleared the records was recorded after that.
LateInv == stop["connector"] \notin {"no", "close"} => records \subseteq late

IInv ==
    /\ SockTypeOK /\ LocalType /\ HandleInv /\ UseInv /\ CallInv /\ ListenerInv
    /\ HandedOver /\ RecordedInv /\ OwnedInv /\ AloneInv /\ TrackInv
    /\ InUseIsLive /\ AcceptsArmed /\ QuietAfterFirst
-----------------------------------------------------------------------------
(* The invariant.                                                           *)

\* Operations and sockets are numbers, and none is 0; a connect is no accept.
LEMMA OpsFacts ==
  /\ \A o \in Ops : o \in Nat /\ o # 0 /\ (o \in Connects \/ o \in Accepts)
  /\ Connects \cap Accepts = {} /\ Connects \subseteq Ops /\ Accepts \subseteq Ops
  /\ \A s \in Handles : s # 0 /\ s \in Nat
BY HandlesAssumption DEF Ops, Connects, Accepts, Handles

\* Without sockets and operations the invariant holds.
LEMMA InitInv == Init => IInv
<1> SUFFICES ASSUME Init PROVE IInv
  OBVIOUS
<1> USE HandlesAssumption DEF Init, SockInit
<1>1. SockTypeOK /\ LocalType
  BY DEF SockTypeOK, LocalType, Owners
<1>2. \A x : ~(x = 0 /\ IsOpen(x)) /\ \A s \in Handles : ~IsOpen(s)
  BY DEF IsOpen
<1>3. \A o \in Ops : ~IsOpen(fdOf[o]) /\ o # 0
  BY OpsFacts DEF IsOpen
<1>4. HandleInv /\ UseInv /\ CallInv
  BY <1>3, OpsFacts DEF HandleInv, UseInv, CallInv, Busy
<1>5. ListenerInv
  BY OpsFacts DEF ListenerInv, Owners
<1>6. HandedOver /\ RecordedInv /\ OwnedInv /\ AloneInv
  BY <1>2, <1>3, OpsFacts DEF HandedOver, RecordedInv, OwnedInv, AloneInv
<1>7. TrackInv
  BY <1>3, OpsFacts DEF TrackInv
<1>8. InUseIsLive
  BY <1>3 DEF InUseIsLive, Handling
<1>9. AcceptsArmed
  BY OpsFacts DEF AcceptsArmed
<1>10. QuietAfterFirst
  BY DEF QuietAfterFirst
<1> QED BY <1>1, <1>4, <1>5, <1>6, <1>7, <1>8, <1>9, <1>10 DEF IInv

\* Steps of the threads of the port that have no operation in hand.
LEMMA IdleStep ==
  ASSUME IInv,
         \/ StartThreads \/ UNCHANGED sockVars
         \/ \E w \in Workers : LeaveLoop(w) \/ TakeExit(w)
  PROVE  IInv'
<1>1. /\ SockTypeOK /\ LocalType /\ HandleInv /\ UseInv /\ CallInv /\ ListenerInv
      /\ HandedOver /\ RecordedInv /\ OwnedInv /\ AloneInv /\ TrackInv
      /\ InUseIsLive /\ AcceptsArmed /\ QuietAfterFirst
  BY DEF IInv
<1>2. /\ UNCHANGED <<mem, io, fdOf, handle, made, records, listenFd, arming, services, first, stop, doomed>>
      /\ UNCHANGED <<wop, cpc, cop, held, answered>>
  BY DEF StartThreads, LeaveLoop, TakeExit, sockVars, opVars, handleVars, objVars,
     portVars, workVars, callVars, stopVars, userVars
<1>3. /\ wpc' \in [Workers -> {"new", "poll", "connect", "erase", "accept", "rearm", "shutdown", "exit"}]
      /\ \A w \in Workers : wpc'[w] = wpc[w] \/ (wpc[w] \notin Busy /\ wpc'[w] \in {"poll", "exit"})
      /\ \A v, w \in Workers : wpc'[v] = "new" => wpc'[w] = "new"
      /\ \A w \in Workers : wpc[w] \in {"new", "exit"} /\ wpc'[w] # wpc[w] => stop[first] # "done"
  <2>1. wpc \in [Workers -> {"new", "poll", "connect", "erase", "accept", "rearm", "shutdown", "exit"}]
    BY <1>1 DEF SockTypeOK
  <2>2. CASE StartThreads
    <3>1. /\ wpc' = [w \in Workers |-> "poll"] /\ stop[first] = "no"
          /\ \A w \in Workers : wpc[w] = "new"
      BY <1>1, <2>2 DEF StartThreads, UseInv
    <3> QED BY <3>1 DEF Busy
  <2>3. CASE UNCHANGED sockVars
    BY <1>1, <2>1, <2>3 DEF sockVars, workVars, UseInv
  <2>4. ASSUME NEW w \in Workers, LeaveLoop(w) \/ TakeExit(w)
        PROVE  \E label \in {"poll", "exit"} : wpc' = [wpc EXCEPT ![w] = label] /\ wpc[w] \in {"poll", "shutdown"}
    BY <2>4 DEF LeaveLoop, TakeExit, Goto
  <2>5. CASE \E w \in Workers : LeaveLoop(w) \/ TakeExit(w)
    <3>1. PICK w \in Workers, label \in {"poll", "exit"} :
             wpc' = [wpc EXCEPT ![w] = label] /\ wpc[w] \in {"poll", "shutdown"}
      BY <2>4, <2>5
    <3>2. \A v \in Workers : wpc'[v] = IF v = w THEN label ELSE wpc[v]
      BY <2>1, <3>1
    <3>3. \A v \in Workers : wpc[v] # "new"
      BY <1>1, <3>1 DEF UseInv
    <3> QED BY <2>1, <3>1, <3>2, <3>3 DEF Busy
  <2> QED BY <2>2, <2>3, <2>5
<1>4. /\ \A x : IsOpen(x)' <=> IsOpen(x)
      /\ \A o : Erasing(o)' <=> Erasing(o)
      /\ \A o : Handling(o)' = Handling(o)
      /\ Up' <=> Up
  BY <1>2, <1>3 DEF IsOpen, Erasing, Handling, Up, Busy
<1>6. SockTypeOK' /\ LocalType'
  BY <1>1, <1>2, <1>3 DEF SockTypeOK, LocalType, Busy
<1>7. HandleInv' /\ CallInv'
  BY <1>1, <1>2 DEF HandleInv, CallInv
<1>8. UseInv'
  BY <1>1, <1>2, <1>3 DEF UseInv, Busy
<1>9. ListenerInv'
  BY <1>1, <1>2 DEF ListenerInv, IsOpen
<1>10. HandedOver'
  BY <1>1, <1>2, <1>4 DEF HandedOver, IsOpen
<1>11. RecordedInv' /\ OwnedInv' /\ AloneInv'
  BY <1>1, <1>2, <1>4 DEF RecordedInv, OwnedInv, AloneInv
<1>12. TrackInv'
  BY <1>1, <1>2 DEF TrackInv, IsOpen
<1>13. InUseIsLive' /\ AcceptsArmed'
  BY <1>1, <1>2, <1>4 DEF InUseIsLive, AcceptsArmed
<1>14. QuietAfterFirst'
  BY <1>1, <1>2, <1>3 DEF QuietAfterFirst
<1> QED BY <1>6, <1>7, <1>8, <1>9, <1>10, <1>11, <1>12, <1>13, <1>14 DEF IInv

\* An operation completes, or the listener gives up to start more accepts.
LEMMA KernelStep ==
  ASSUME IInv, ArmFails \/ \E o \in Ops : Completes(o)
  PROVE  IInv'
<1>1. /\ SockTypeOK /\ LocalType /\ HandleInv /\ UseInv /\ CallInv /\ ListenerInv
      /\ HandedOver /\ RecordedInv /\ OwnedInv /\ AloneInv /\ TrackInv
      /\ InUseIsLive /\ AcceptsArmed /\ QuietAfterFirst
  BY DEF IInv
<1>2. /\ UNCHANGED <<mem, fdOf, handle, made, records, listenFd, services, first, stop, doomed>>
      /\ UNCHANGED <<wpc, wop, cpc, cop, held, answered>>
  BY DEF ArmFails, Completes, opVars, handleVars, objVars, portVars, workVars, callVars, stopVars, userVars
<1>3. arming' \in {arming, 0}
  BY DEF ArmFails, Completes, objVars
<1>4. /\ io' \in [Ops -> {"idle", "pending", "ok", "failed"}]
      /\ \A o \in Ops : io'[o] = "idle" <=> io[o] = "idle"
  <2>1. io \in [Ops -> {"idle", "pending", "ok", "failed"}]
    BY <1>1 DEF SockTypeOK
  <2>2. CASE ArmFails
    BY <2>1, <2>2 DEF ArmFails, opVars
  <2>3. ASSUME NEW o \in Ops, Completes(o)
        PROVE  \E r \in {"ok", "failed"} : io[o] = "pending" /\ io' = [io EXCEPT ![o] = r]
    BY <2>3 DEF Completes
  <2> QED BY <2>1, <2>2, <2>3
<1>5. /\ \A x : IsOpen(x)' <=> IsOpen(x)
      /\ \A o : Erasing(o)' <=> Erasing(o)
      /\ \A o : Handling(o)' = Handling(o)
      /\ Up' <=> Up
  BY <1>2 DEF IsOpen, Erasing, Handling, Up
<1>6. SockTypeOK' /\ LocalType'
  BY <1>1, <1>2, <1>3, <1>4 DEF SockTypeOK, LocalType
<1>7. HandleInv'
  BY <1>1, <1>2 DEF HandleInv
<1>8. UseInv'
  BY <1>1, <1>2, <1>4 DEF UseInv, LocalType
<1>9. CallInv'
  BY <1>1, <1>2, <1>4, OpsFacts DEF CallInv, LocalType
<1>10. ListenerInv'
  BY <1>1, <1>2, <1>3 DEF ListenerInv, IsOpen
<1>11. HandedOver' /\ RecordedInv' /\ OwnedInv' /\ AloneInv'
  BY <1>1, <1>2, <1>5 DEF HandedOver, RecordedInv, OwnedInv, AloneInv, IsOpen
<1>12. TrackInv'
  BY <1>1, <1>2 DEF TrackInv, IsOpen
<1>13. InUseIsLive'
  BY <1>1, <1>2, <1>4, <1>5 DEF InUseIsLive
<1>14. AcceptsArmed'
  BY <1>1, <1>2, <1>4, <1>5, OpsFacts DEF AcceptsArmed
<1>15. QuietAfterFirst'
  BY <1>1, <1>2 DEF QuietAfterFirst
<1> QED BY <1>6, <1>7, <1>8, <1>9, <1>10, <1>11, <1>12, <1>13, <1>14, <1>15 DEF IInv

\* Shutdown begins, or goes on after the sockets were closed.
LEMMA StopStep ==
  ASSUME IInv, NEW p \in Owners, ShutdownByApplication(p) \/ ShutdownPort(p) \/ JoinThreads(p)
  PROVE  IInv'
<1>1. /\ SockTypeOK /\ LocalType /\ HandleInv /\ UseInv /\ CallInv /\ ListenerInv
      /\ HandedOver /\ RecordedInv /\ OwnedInv /\ AloneInv /\ TrackInv
      /\ InUseIsLive /\ AcceptsArmed /\ QuietAfterFirst
  BY DEF IInv
<1>2. /\ UNCHANGED <<mem, io, fdOf, handle, made, records, listenFd, arming, services, first, doomed>>
      /\ UNCHANGED <<wpc, wop, cpc, cop, held, answered>>
  BY DEF ShutdownByApplication, BeginShutdown, ShutdownPort, JoinThreads, opVars, handleVars, objVars, portVars,
     workVars, callVars, stopVars, userVars
<1>3. \/ stop[p] = "no" /\ stop' = [stop EXCEPT ![p] = "close"]
      \/ stop[p] = "port" /\ p = first /\ stop' = [stop EXCEPT ![p] = "join"]
      \/ stop[p] = "port" /\ p # first /\ stop' = [stop EXCEPT ![p] = "done"]
      \/ stop[p] = "join" /\ JoinedAll /\ stop' = [stop EXCEPT ![p] = "done"]
  BY DEF ShutdownByApplication, BeginShutdown, ShutdownPort, JoinThreads
<1>4. stop \in [Owners -> {"no", "close", "delete", "undefined", "port", "join", "done"}]
  BY <1>1 DEF SockTypeOK
<1>5. stop' \in [Owners -> {"no", "close", "delete", "undefined", "port", "join", "done"}]
  BY <1>3, <1>4
<1>6. \A q \in Owners :
         /\ stop'[q] = "no" => stop[q] = "no"
         /\ stop'[q] \in {"no", "close"} => stop[q] \in {"no", "close"}
  BY <1>3, <1>4
<1>7. stop'[first] = "done" => stop[first] = "done" \/ JoinedAll
  BY <1>1, <1>3, <1>4 DEF LocalType
<1>8. /\ \A x : IsOpen(x)' <=> IsOpen(x)
      /\ \A o : Erasing(o)' <=> Erasing(o)
      /\ \A o : Handling(o)' = Handling(o)
      /\ Up' => Up
  BY <1>2, <1>6 DEF IsOpen, Erasing, Handling, Up
<1>9. SockTypeOK' /\ LocalType'
  BY <1>1, <1>2, <1>5 DEF SockTypeOK, LocalType
<1>10. HandleInv' /\ UseInv' /\ CallInv'
  BY <1>1, <1>2 DEF HandleInv, UseInv, CallInv
<1>11. ListenerInv'
  BY <1>1, <1>2, <1>6 DEF ListenerInv, IsOpen, Owners
<1>12. HandedOver' /\ RecordedInv' /\ OwnedInv' /\ AloneInv'
  BY <1>1, <1>2, <1>8 DEF HandedOver, RecordedInv, OwnedInv, AloneInv, IsOpen
<1>13. TrackInv'
  BY <1>1, <1>2 DEF TrackInv, IsOpen
<1>14. InUseIsLive' /\ AcceptsArmed'
  BY <1>1, <1>2, <1>6, <1>8 DEF InUseIsLive, AcceptsArmed, Owners
<1>15. QuietAfterFirst'
  BY <1>1, <1>2, <1>7 DEF QuietAfterFirst, JoinedAll
<1> QED BY <1>9, <1>10, <1>11, <1>12, <1>13, <1>14, <1>15 DEF IInv

\* The handler is given the endpoint.
LEMMA HandlerStep ==
  ASSUME IInv, NEW w \in Workers, OnConnect(w) \/ OnAccept(w)
  PROVE  IInv'
<1>1. /\ SockTypeOK /\ LocalType /\ HandleInv /\ UseInv /\ CallInv /\ ListenerInv
      /\ HandedOver /\ RecordedInv /\ OwnedInv /\ AloneInv /\ TrackInv
      /\ InUseIsLive /\ AcceptsArmed /\ QuietAfterFirst
  BY DEF IInv
<1>2. PICK n : n = wop[w]
  OBVIOUS
<1>3. PICK s : s = fdOf[n]
  OBVIOUS
<1>4. /\ UNCHANGED <<mem, io, fdOf, handle, made, records, listenFd, arming, services, first, stop, doomed>>
      /\ UNCHANGED <<wop, cpc, cop>>
      /\ held' = held \cup {s}
      /\ \/ wpc[w] = "connect" /\ wpc' = [wpc EXCEPT ![w] = "erase"]
            /\ answered' = [answered EXCEPT ![n] = @ + 1]
         \/ wpc[w] = "accept" /\ wpc' = [wpc EXCEPT ![w] = "rearm"] /\ UNCHANGED answered
  BY <1>2, <1>3 DEF OnConnect, OnAccept, Goto, opVars, handleVars, objVars, portVars, callVars, stopVars, userVars
<1>5. /\ wpc \in [Workers -> {"new", "poll", "connect", "erase", "accept", "rearm", "shutdown", "exit"}]
      /\ wpc[w] = "connect" => n \in Connects
      /\ wpc[w] = "accept" => n \in Accepts
      /\ n \in Ops
  BY <1>1, <1>2, <1>4, OpsFacts DEF SockTypeOK
<1>6. /\ wpc' \in [Workers -> {"new", "poll", "connect", "erase", "accept", "rearm", "shutdown", "exit"}]
      /\ \A v \in Workers : v # w => wpc'[v] = wpc[v]
      /\ wpc'[w] \in {"erase", "rearm"} /\ wpc[w] \in {"connect", "accept"}
      /\ wpc'[w] = "erase" => n \in Connects
      /\ wpc'[w] = "rearm" => n \in Accepts
  BY <1>4, <1>5
<1>7. answered' \in [Connects -> Nat]
  BY <1>1, <1>4, <1>5 DEF LocalType
<1>8. s = 0 \/ (s \in Handles /\ s <= made /\ s # listenFd)
  BY <1>1, <1>3, <1>5, HandlesAssumption DEF SockTypeOK, HandleInv, Handles
<1>9. s # 0 /\ mem[n] # "none"
  BY <1>1, <1>2, <1>3, <1>5, OpsFacts DEF HandleInv, UseInv
<1>10. /\ \A x : IsOpen(x)' <=> IsOpen(x)
       /\ \A o : Erasing(o)' <=> Erasing(o) \/ o = n
       /\ \A o : Handling(o)' = Handling(o)
       /\ Up' <=> Up
  BY <1>2, <1>4, <1>6 DEF IsOpen, Erasing, Handling, Up
<1>11. SockTypeOK' /\ LocalType'
  <2>1. held' \subseteq Handles
    BY <1>1, <1>4, <1>8, <1>9 DEF LocalType
  <2>2. /\ \A v \in Workers : wpc'[v] \in {"connect", "erase"} => wop[v] \in Connects
        /\ \A v \in Workers : wpc'[v] \in {"accept", "rearm"} => wop[v] \in Accepts
    BY <1>1, <1>2, <1>6 DEF SockTypeOK
  <2> QED BY <1>1, <1>4, <1>6, <1>7, <2>1, <2>2 DEF SockTypeOK, LocalType
<1>12. HandleInv'
  BY <1>1, <1>4, <1>8, <1>9, OpsFacts DEF HandleInv, SockTypeOK
<1>13. UseInv' /\ CallInv'
  BY <1>1, <1>4, <1>6 DEF UseInv, CallInv, Busy
<1>14. ListenerInv'
  BY <1>1, <1>4 DEF ListenerInv, IsOpen
<1>15. HandedOver'
  BY <1>1, <1>3, <1>4, <1>10 DEF HandedOver, IsOpen
<1>16. RecordedInv'
  BY <1>1, <1>4, <1>10 DEF RecordedInv
<1>17. OwnedInv'
  <2> SUFFICES ASSUME Up, NEW x \in Handles, IsOpen(x)
               PROVE  \/ x \in held' \/ x = listenFd
                      \/ \E o \in Ops : fdOf[o] = x /\ mem[o] = "live" /\ ~Erasing(o)'
    BY <1>4, <1>10 DEF OwnedInv
  <2> QED BY <1>1, <1>3, <1>4, <1>10 DEF OwnedInv
<1>18. AloneInv'
  <2> SUFFICES ASSUME Up, NEW o \in Ops, mem[o] = "live", fdOf[o] \in held'
               PROVE  Erasing(o)'
    BY <1>4, <1>10 DEF AloneInv
  <2>1. fdOf[o] = s => o = n
    BY <1>1, <1>3, <1>5, <1>9 DEF HandleInv
  <2> QED BY <1>1, <1>4, <1>10, <2>1 DEF AloneInv
<1>19. TrackInv'
  BY <1>1, <1>4 DEF TrackInv, IsOpen
<1>20. InUseIsLive' /\ AcceptsArmed'
  BY <1>1, <1>4, <1>10 DEF InUseIsLive, AcceptsArmed
<1>21. QuietAfterFirst'
  BY <1>1, <1>4, <1>6 DEF QuietAfterFirst
<1> QED BY <1>11, <1>12, <1>13, <1>14, <1>15, <1>16, <1>17, <1>18, <1>19, <1>20, <1>21 DEF IInv

\* An endpoint closes its socket.
LEMMA EndpointStep ==
  ASSUME IInv, NEW s \in Handles, EndpointClose(s)
  PROVE  IInv'
<1>1. /\ SockTypeOK /\ LocalType /\ HandleInv /\ UseInv /\ CallInv /\ ListenerInv
      /\ HandedOver /\ RecordedInv /\ OwnedInv /\ AloneInv /\ TrackInv
      /\ InUseIsLive /\ AcceptsArmed /\ QuietAfterFirst
  BY DEF IInv
<1>2. /\ UNCHANGED <<mem, io, fdOf, made, records, listenFd, arming, services, first, stop, doomed>>
      /\ UNCHANGED <<wpc, wop, cpc, cop, answered>>
      /\ s \in held /\ held' = held \ {s}
      /\ handle' = [x \in Handles |-> IF x \in {s} THEN "closed" ELSE handle[x]]
  BY DEF EndpointClose, Closed, opVars, objVars, portVars, workVars, callVars, stopVars, userVars
<1>3. /\ handle' \in [Handles -> {"none", "open", "closed"}]
      /\ \A x \in Handles : handle'[x] = IF x = s THEN "closed" ELSE handle[x]
  BY <1>1, <1>2 DEF SockTypeOK
<1>4. \A x \in Handles \cup {0} : IsOpen(x)' <=> IsOpen(x) /\ x # s
  BY <1>3, OpsFacts DEF IsOpen
<1>5. /\ \A o \in Ops : fdOf[o] \in Handles \cup {0}
      /\ listenFd \in Handles \cup {0}
      /\ \A c \in Callers : cop[c] # 0 => cop[c] \in Ops
  BY <1>1, HandlesAssumption, OpsFacts DEF SockTypeOK, LocalType, Handles
<1>6. /\ \A o : Erasing(o)' <=> Erasing(o)
      /\ \A o : Handling(o)' = Handling(o)
      /\ Up' <=> Up
  BY <1>2 DEF Erasing, Handling, Up
<1>7. SockTypeOK' /\ LocalType'
  BY <1>1, <1>2, <1>3 DEF SockTypeOK, LocalType
<1>8. HandleInv'
  BY <1>1, <1>2, <1>3 DEF HandleInv
<1>9. UseInv' /\ CallInv'
  BY <1>1, <1>2 DEF UseInv, CallInv
<1>10. \A o \in Ops : IsOpen(fdOf[o])' <=> IsOpen(fdOf[o]) /\ fdOf[o] # s
  <2>1. \A o \in Ops : IsOpen(fdOf[o])' <=> fdOf[o] # 0 /\ handle'[fdOf[o]] = "open"
    BY <1>2 DEF IsOpen
  <2> QED BY <1>3, <1>5, <2>1, OpsFacts DEF IsOpen
<1>11. ListenerInv'
  <2>1. ~IsOpen(listenFd) => ~IsOpen(listenFd)'
    BY <1>2, <1>3, <1>5, OpsFacts DEF IsOpen
  <2> QED BY <1>1, <1>2, <1>10, <2>1, OpsFacts DEF ListenerInv
<1>12. HandedOver'
  BY <1>1, <1>2, <1>6, <1>10 DEF HandedOver
<1>13. RecordedInv' /\ AloneInv'
  BY <1>1, <1>2, <1>6 DEF RecordedInv, AloneInv
<1>14. OwnedInv'
  BY <1>1, <1>2, <1>4, <1>6 DEF OwnedInv
<1>15. TrackInv'
  <2>1. \A c \in Callers : cpc[c] = "start" => cop[c] \in Ops
    BY <1>1, <1>5 DEF CallInv
  <2>2. \A c \in Callers : cpc[c] = "start" /\ IsOpen(fdOf[cop[c]])' => cop[c] \in records
    <3> SUFFICES ASSUME NEW c \in Callers, cpc[c] = "start", IsOpen(fdOf[cop[c]])' PROVE cop[c] \in records
      OBVIOUS
    <3>1. cop[c] \in Ops /\ cop'[c] = cop[c]
      BY <1>2, <2>1
    <3>2. IsOpen(fdOf[cop[c]])
      BY <1>2, <1>3, <1>5, <3>1, OpsFacts DEF IsOpen
    <3> QED BY <1>1, <3>2 DEF TrackInv
  <2>3. \A e \in Connects : IsOpen(fdOf[e])' => IsOpen(fdOf[e]) /\ fdOf[e] # s
    BY <1>10, OpsFacts
  <2> QED BY <1>1, <1>2, <2>2, <2>3 DEF TrackInv
<1>16. InUseIsLive' /\ AcceptsArmed'
  BY <1>1, <1>2, <1>6 DEF InUseIsLive, AcceptsArmed
<1>17. QuietAfterFirst'
  BY <1>1, <1>2 DEF QuietAfterFirst
<1> QED BY <1>7, <1>8, <1>9, <1>11, <1>12, <1>13, <1>14, <1>15, <1>16, <1>17 DEF IInv

\* A thread takes a completion.  While the listener is up its socket is registered,
\* so no accept is dropped.
LEMMA TakeStep ==
  ASSUME IInv, NEW w \in Workers, TakeCompletion(w)
  PROVE  IInv'
<1>1. /\ SockTypeOK /\ LocalType /\ HandleInv /\ UseInv /\ CallInv /\ ListenerInv
      /\ HandedOver /\ RecordedInv /\ OwnedInv /\ AloneInv /\ TrackInv
      /\ InUseIsLive /\ AcceptsArmed /\ QuietAfterFirst
  BY DEF IInv
<1>2. /\ UNCHANGED <<mem, fdOf, handle, made, records, listenFd, arming, services, first, stop, doomed>>
      /\ UNCHANGED <<cpc, cop, held, answered>>
      /\ wpc[w] = "poll"
  BY DEF TakeCompletion, handleVars, objVars, portVars, callVars, stopVars, userVars
<1>3. PICK n \in Ops :
         /\ io[n] # "idle" /\ io' = [io EXCEPT ![n] = "idle"]
         /\ \/ /\ Key(n) \in services
               /\ wop' = [wop EXCEPT ![w] = n]
               /\ wpc' = [wpc EXCEPT ![w] = IF n \in Connects THEN "connect" ELSE "accept"]
            \/ Key(n) \notin services /\ UNCHANGED <<wpc, wop>>
  BY DEF TakeCompletion, Queued, FindEventService, Goto, workVars
<1>4. /\ io' \in [Ops -> {"idle", "pending", "ok", "failed"}]
      /\ \A o \in Ops : io'[o] = IF o = n THEN "idle" ELSE io[o]
  BY <1>1, <1>3 DEF SockTypeOK
<1>5. /\ wpc \in [Workers -> {"new", "poll", "connect", "erase", "accept", "rearm", "shutdown", "exit"}]
      /\ wop \in [Workers -> Ops \cup {0}]
      /\ wop[w] = 0 /\ \A v \in Workers : wop[v] # n
      /\ \A c \in Callers : cop[c] # n
      /\ fdOf[n] # 0 /\ mem[n] # "none" /\ n # 0
  BY <1>1, <1>2, <1>3, OpsFacts DEF SockTypeOK, LocalType, UseInv, CallInv, HandleInv, Busy
<1>6. /\ wpc' \in [Workers -> {"new", "poll", "connect", "erase", "accept", "rearm", "shutdown", "exit"}]
      /\ wop' \in [Workers -> Ops \cup {0}]
      /\ \A v \in Workers : v # w => wpc'[v] = wpc[v] /\ wop'[v] = wop[v]
      /\ \/ wop'[w] = n /\ wpc'[w] = IF n \in Connects THEN "connect" ELSE "accept"
         \/ wop'[w] = 0 /\ wpc'[w] = "poll"
      /\ Key(n) \in services => wop'[w] = n
  BY <1>2, <1>3, <1>5
<1>7. /\ \A x : IsOpen(x)' <=> IsOpen(x)
      /\ \A o : Erasing(o)' <=> Erasing(o)
      /\ \A o : o # n /\ o # 0 => Handling(o)' = Handling(o)
      /\ wop'[w] = n => w \in Handling(n)'
      /\ Up' <=> Up
  <2>1. \A o : Erasing(o)' <=> Erasing(o)
    BY <1>2, <1>6 DEF Erasing
  <2>2. \A o : o # n /\ o # 0 => Handling(o)' = Handling(o)
    BY <1>5, <1>6 DEF Handling
  <2> QED BY <1>2, <2>1, <2>2 DEF IsOpen, Handling, Up
<1>8. SockTypeOK' /\ LocalType'
  <2>1. /\ \A v \in Workers : wpc'[v] \in {"connect", "erase"} => wop'[v] \in Connects
        /\ \A v \in Workers : wpc'[v] \in {"accept", "rearm"} => wop'[v] \in Accepts
    BY <1>1, <1>6, OpsFacts DEF SockTypeOK
  <2> QED BY <1>1, <1>2, <1>4, <1>6, <2>1 DEF SockTypeOK, LocalType
<1>9. HandleInv'
  BY <1>1, <1>2 DEF HandleInv
<1>10. UseInv'
  <2>1. \A v \in Workers : wop'[v] # 0 <=> wpc'[v] \in Busy
    BY <1>1, <1>5, <1>6 DEF UseInv, Busy
  <2>2. \A v \in Workers : wop'[v] # 0 => io'[wop'[v]] = "idle" /\ fdOf[wop'[v]] # 0
    BY <1>1, <1>4, <1>5, <1>6 DEF UseInv
  <2>3. \A u, v \in Workers : wop'[u] = wop'[v] /\ wop'[u] # 0 => u = v
    BY <1>1, <1>5, <1>6 DEF UseInv
  <2>4. \A u, v \in Workers : wpc'[u] = "new" => wpc'[v] = "new"
    BY <1>1, <1>2, <1>6 DEF UseInv
  <2> QED BY <1>1, <1>2, <1>4, <2>1, <2>2, <2>3, <2>4 DEF UseInv
<1>11. CallInv'
  <2>1. \A c \in Callers : cop[c] # 0 => cop[c] \in Ops /\ io'[cop[c]] = "idle"
    BY <1>1, <1>4, OpsFacts DEF CallInv, LocalType
  <2> QED BY <1>1, <1>2, <1>5, <1>6, <2>1 DEF CallInv
<1>12. ListenerInv'
  BY <1>1, <1>2 DEF ListenerInv, IsOpen
<1>13. HandedOver' /\ RecordedInv' /\ OwnedInv' /\ AloneInv'
  BY <1>1, <1>2, <1>7 DEF HandedOver, RecordedInv, OwnedInv, AloneInv, IsOpen
<1>14. TrackInv'
  <2>1. \A e \in Connects : (\E v \in Workers : wop[v] = e) => \E v \in Workers : wop'[v] = e
    BY <1>5, <1>6, OpsFacts
  <2> QED BY <1>1, <1>2, <2>1 DEF TrackInv, IsOpen
<1>15. InUseIsLive'
  <2> SUFFICES ASSUME NEW o \in Ops, io'[o] # "idle" \/ Handling(o)' # {}
               PROVE  mem[o] = "live" \/ (o \in Accepts /\ stop["listener"] # "no")
    BY <1>2 DEF InUseIsLive
  <2>1. io[o] # "idle" \/ Handling(o) # {}
    BY <1>3, <1>4, <1>7, OpsFacts
  <2> QED BY <1>1, <2>1 DEF InUseIsLive
<1>16. AcceptsArmed'
  <2> SUFFICES ASSUME stop["listener"] = "no", NEW o \in Accepts, mem[o] = "live"
               PROVE  io'[o] # "idle" \/ Handling(o)' # {}
    BY <1>2 DEF AcceptsArmed
  <2>1. CASE o = n
    <3>1. Key(n) = listenFd /\ listenFd \in services
      BY <1>1, <2>1, OpsFacts DEF Key, ListenerInv
    <3> QED BY <1>6, <1>7, <2>1, <3>1
  <2>2. CASE o # n
    BY <1>1, <1>4, <1>7, <2>2, OpsFacts DEF AcceptsArmed
  <2> QED BY <2>1, <2>2
<1>17. QuietAfterFirst'
  BY <1>1, <1>2, <1>6 DEF QuietAfterFirst
<1> QED BY <1>8, <1>9, <1>10, <1>11, <1>12, <1>13, <1>14, <1>15, <1>16, <1>17 DEF IInv

\* The record of an answered connect is erased and its entry freed: nobody else
\* uses it.
LEMMA FinishStep ==
  ASSUME IInv, NEW w \in Workers, FinishConnect(w)
  PROVE  IInv'
<1>1. /\ SockTypeOK /\ LocalType /\ HandleInv /\ UseInv /\ CallInv /\ ListenerInv
      /\ HandedOver /\ RecordedInv /\ OwnedInv /\ AloneInv /\ TrackInv
      /\ InUseIsLive /\ AcceptsArmed /\ QuietAfterFirst
  BY DEF IInv
<1>2. PICK n : n = wop[w]
  OBVIOUS
<1>3. /\ UNCHANGED <<io, fdOf, handle, made, listenFd, arming, services, first, stop, doomed>>
      /\ UNCHANGED <<cpc, cop, held, answered>>
      /\ wpc[w] = "erase" /\ wpc' = [wpc EXCEPT ![w] = "poll"] /\ wop' = [wop EXCEPT ![w] = 0]
      /\ records' = records \ {n}
      /\ mem' = [mem EXCEPT ![n] = IF n \in records THEN "freed" ELSE @]
  BY <1>2 DEF FinishConnect, DeleteErased, Goto, handleVars, portVars, callVars, stopVars, userVars
<1>4. /\ n \in Connects /\ n \in Ops /\ n \notin Accepts /\ n # 0
      /\ wpc \in [Workers -> {"new", "poll", "connect", "erase", "accept", "rearm", "shutdown", "exit"}]
      /\ wop \in [Workers -> Ops \cup {0}]
      /\ io[n] = "idle" /\ fdOf[n] # 0
      /\ \A v \in Workers : wop[v] = n => v = w
      /\ \A c \in Callers : cop[c] # n
  BY <1>1, <1>2, <1>3, OpsFacts DEF SockTypeOK, LocalType, UseInv, CallInv, Busy
<1>5. /\ wpc' \in [Workers -> {"new", "poll", "connect", "erase", "accept", "rearm", "shutdown", "exit"}]
      /\ wop' \in [Workers -> Ops \cup {0}]
      /\ \A v \in Workers : wpc'[v] = IF v = w THEN "poll" ELSE wpc[v]
      /\ \A v \in Workers : wop'[v] = IF v = w THEN 0 ELSE wop[v]
  BY <1>3, <1>4
<1>6. /\ mem' \in [Ops -> {"none", "live", "freed"}]
      /\ \A o \in Ops : o # n => mem'[o] = mem[o]
      /\ mem'[n] # "none" /\ (mem'[n] = "live" => n \notin records)
  BY <1>1, <1>3, <1>4 DEF SockTypeOK, HandleInv
<1>7. /\ \A o : Erasing(o)' <=> Erasing(o) /\ o # n
      /\ \A o : o # n /\ o # 0 => Handling(o)' = Handling(o)
      /\ Handling(n)' = {}
      /\ Erasing(n) /\ (Up' <=> Up)
  BY <1>2, <1>3, <1>4, <1>5 DEF Erasing, Handling, Up
<1>8. SockTypeOK' /\ LocalType'
  BY <1>1, <1>3, <1>5, <1>6 DEF SockTypeOK, LocalType
<1>9. HandleInv'
  BY <1>1, <1>3, <1>4, <1>6, OpsFacts DEF HandleInv
<1>10. UseInv'
  BY <1>1, <1>3, <1>5 DEF UseInv, Busy
<1>11. CallInv'
  <2>1. \A c \in Callers : cop[c] # 0 => cop[c] \in Ops /\ mem'[cop[c]] = mem[cop[c]]
    BY <1>1, <1>4, <1>6, OpsFacts DEF LocalType
  <2>2. \A c \in Callers : cop[c] # 0 => \A v \in Workers : wop'[v] # cop[c]
    BY <1>1, <1>5 DEF CallInv
  <2> QED BY <1>1, <1>3, <2>1, <2>2 DEF CallInv
<1>12. ListenerInv'
  BY <1>1, <1>3, <1>4, <1>6, OpsFacts DEF ListenerInv, IsOpen
<1>13. HandedOver'
  BY <1>1, <1>3, <1>7 DEF HandedOver, IsOpen
<1>14. Up => n \in records /\ mem'[n] = "freed"
  <2>1. mem[n] = "live"
    BY <1>1, <1>2, <1>4 DEF InUseIsLive, Handling
  <2> QED BY <1>1, <1>3, <1>4, <2>1 DEF RecordedInv, SockTypeOK
<1>15. RecordedInv' /\ AloneInv'
  <2>1. RecordedInv'
    BY <1>1, <1>3, <1>4, <1>6, <1>7, <1>14, OpsFacts DEF RecordedInv
  <2>2. AloneInv'
    BY <1>1, <1>3, <1>6, <1>7, <1>14 DEF AloneInv
  <2> QED BY <2>1, <2>2
<1>16. OwnedInv'
  <2> SUFFICES ASSUME Up, NEW x \in Handles, IsOpen(x)
               PROVE  \/ x \in held \/ x = listenFd
                      \/ \E o \in Ops : fdOf[o] = x /\ mem'[o] = "live" /\ ~Erasing(o)'
    BY <1>3, <1>7 DEF OwnedInv, IsOpen
  <2> QED BY <1>1, <1>6, <1>7 DEF OwnedInv
<1>17. TrackInv'
  <2>1. IsOpen(fdOf[n]) => fdOf[n] \in held
    BY <1>1, <1>4, <1>7 DEF HandedOver
  <2>2. \A e \in Connects : e # n /\ (\E v \in Workers : wop[v] = e) => \E v \in Workers : wop'[v] = e
    BY <1>2, <1>5
  <2>3. \A e \in Connects : IsOpen(fdOf[e]) =>
          \/ fdOf[e] \in held \/ e \in records'
          \/ \E v \in Workers : wop'[v] = e
          \/ \E c \in Callers : cop[c] = e
    BY <1>1, <1>3, <2>1, <2>2 DEF TrackInv
  <2>4. \A c \in Callers : cpc[c] = "start" /\ IsOpen(fdOf[cop[c]]) => cop[c] \in records'
    BY <1>1, <1>3, <1>4 DEF TrackInv
  <2> QED BY <1>3, <2>3, <2>4 DEF TrackInv, IsOpen
<1>18. InUseIsLive'
  BY <1>1, <1>3, <1>4, <1>6, <1>7, OpsFacts DEF InUseIsLive
<1>19. AcceptsArmed'
  BY <1>1, <1>3, <1>4, <1>6, <1>7, OpsFacts DEF AcceptsArmed
<1>20. QuietAfterFirst'
  BY <1>1, <1>3, <1>5 DEF QuietAfterFirst
<1> QED BY <1>8, <1>9, <1>10, <1>11, <1>12, <1>13, <1>15, <1>16, <1>17, <1>18, <1>19, <1>20 DEF IInv

\* A new socket is nobody's yet.
LEMMA OpenEffect ==
  ASSUME SockTypeOK, LocalType, HandleInv, NEW n, n = made + 1, OpenHandle
  PROVE  /\ made' = n /\ n \in Handles /\ made \in Nat /\ made' \in 0 .. MaxHandles /\ n # 0
         /\ n \notin held /\ listenFd # n /\ \A o \in Ops : fdOf[o] # n
         /\ handle' \in [Handles -> {"none", "open", "closed"}]
         /\ \A x \in Handles : handle'[x] = IF x = n THEN "open" ELSE handle[x]
         /\ \A x \in Handles : x > made' => x > made /\ handle'[x] = "none"
<1>1. /\ made' = n /\ made < MaxHandles /\ made \in Nat /\ MaxHandles \in Nat
      /\ handle' = [handle EXCEPT ![n] = "open"] /\ handle \in [Handles -> {"none", "open", "closed"}]
  BY HandlesAssumption DEF OpenHandle, MakeHandle, SockTypeOK
<1>2. n \in Handles /\ made' \in 0 .. MaxHandles /\ n # 0 /\ n > made
  BY <1>1 DEF Handles
<1>3. n \notin held
  BY <1>2 DEF HandleInv
<1>4. listenFd # n /\ \A o \in Ops : fdOf[o] # n
  BY <1>1 DEF SockTypeOK, LocalType
<1>5. /\ handle' \in [Handles -> {"none", "open", "closed"}]
      /\ \A x \in Handles : handle'[x] = IF x = n THEN "open" ELSE handle[x]
  BY <1>1, <1>2
<1>6. \A x \in Handles : x > made' => x > made /\ x # n
  BY <1>1 DEF Handles
<1> QED BY <1>1, <1>2, <1>3, <1>4, <1>5, <1>6 DEF HandleInv

\* Connect makes an entry and its socket.
LEMMA ConnectStep ==
  ASSUME IInv, NEW c \in Callers, InternalConnect(c)
  PROVE  IInv'
<1>1. /\ SockTypeOK /\ LocalType /\ HandleInv /\ UseInv /\ CallInv /\ ListenerInv
      /\ HandedOver /\ RecordedInv /\ OwnedInv /\ AloneInv /\ TrackInv
      /\ InUseIsLive /\ AcceptsArmed /\ QuietAfterFirst
  BY DEF IInv
<1>2. PICK n : n = made + 1
  OBVIOUS
<1>3. /\ UNCHANGED <<io, records, listenFd, arming, services, first, stop, doomed>>
      /\ UNCHANGED <<wpc, wop, held, answered>>
      /\ OpenHandle /\ cpc[c] = "idle" /\ cpc' = [cpc EXCEPT ![c] = "record"]
  BY DEF InternalConnect, objVars, portVars, workVars, stopVars, userVars
<1>4. PICK e \in Connects : /\ mem[e] = "none" /\ mem' = [mem EXCEPT ![e] = "live"]
                            /\ fdOf' = [fdOf EXCEPT ![e] = n] /\ cop' = [cop EXCEPT ![c] = e]
  BY <1>2 DEF InternalConnect
<1>5. /\ made' = n /\ n \in Handles /\ made \in Nat /\ made' \in 0 .. MaxHandles /\ n # 0
      /\ n \notin held /\ listenFd # n /\ \A o \in Ops : fdOf[o] # n
      /\ handle' \in [Handles -> {"none", "open", "closed"}]
      /\ \A x \in Handles : handle'[x] = IF x = n THEN "open" ELSE handle[x]
      /\ \A x \in Handles : x > made' => x > made /\ handle'[x] = "none"
  BY <1>1, <1>2, <1>3, OpenEffect
<1>6. /\ e \in Ops /\ e \notin Accepts /\ e # 0 /\ fdOf[e] = 0 /\ io[e] = "idle"
      /\ \A w \in Workers : wop[w] # e
      /\ \A d \in Callers : cop[d] # e
  BY <1>1, <1>4, OpsFacts DEF HandleInv, UseInv, CallInv
<1>7. /\ mem' \in [Ops -> {"none", "live", "freed"}]
      /\ \A o \in Ops : mem'[o] = IF o = e THEN "live" ELSE mem[o]
      /\ \A o \in Ops : fdOf'[o] = IF o = e THEN n ELSE fdOf[o]
      /\ fdOf' \in [Ops -> 0 .. made']
  <2>1. fdOf \in [Ops -> 0 .. made] /\ mem \in [Ops -> {"none", "live", "freed"}]
    BY <1>1 DEF SockTypeOK
  <2>2. \A x \in 0 .. made : x \in 0 .. made'
    BY <1>2, <1>5
  <2>3. n \in 0 .. made'
    BY <1>2, <1>5
  <2> QED BY <1>4, <1>6, <2>1, <2>2, <2>3
<1>8. /\ cop' \in [Callers -> Connects \cup {0}] /\ cpc' \in [Callers -> {"idle", "record", "start"}]
      /\ \A d \in Callers : cop'[d] = IF d = c THEN e ELSE cop[d]
      /\ \A d \in Callers : cpc'[d] = IF d = c THEN "record" ELSE cpc[d]
  BY <1>1, <1>3, <1>4 DEF LocalType
<1>9. /\ \A o \in Ops : fdOf[o] \in Handles \cup {0}
      /\ listenFd \in Handles \cup {0} /\ listenFd \in 0 .. made'
  BY <1>1, <1>2, <1>5, HandlesAssumption DEF SockTypeOK, LocalType, Handles
<1>10. /\ \A o \in Ops : o # e => (IsOpen(fdOf[o])' <=> IsOpen(fdOf[o]))
       /\ IsOpen(listenFd)' <=> IsOpen(listenFd)
       /\ \A x \in Handles : IsOpen(x)' => IsOpen(x) \/ x = n
  BY <1>3, <1>5, <1>7, <1>9 DEF IsOpen
<1>11. /\ \A o : Erasing(o)' <=> Erasing(o)
       /\ \A o : Handling(o)' = Handling(o)
       /\ ~Erasing(e) /\ Handling(e) = {}
       /\ Up' <=> Up
  BY <1>3, <1>6 DEF Erasing, Handling, Up
<1>12. SockTypeOK' /\ LocalType'
  BY <1>1, <1>3, <1>5, <1>7, <1>8, <1>9 DEF SockTypeOK, LocalType
<1>13. HandleInv'
  <2>1. \A s \in Handles : s > made' => handle'[s] = "none" /\ s \notin held
    BY <1>1, <1>5 DEF HandleInv
  <2>2. \A o, q \in Ops : fdOf'[o] = fdOf'[q] /\ fdOf'[o] # 0 => o = q
    BY <1>1, <1>5, <1>7 DEF HandleInv
  <2>3. \A o \in Ops : fdOf'[o] # 0 => fdOf'[o] # listenFd /\ mem'[o] # "none"
    BY <1>1, <1>5, <1>7 DEF HandleInv
  <2>4. \A d \in Connects : mem'[d] # "none" => fdOf'[d] # 0
    BY <1>1, <1>5, <1>7, OpsFacts DEF HandleInv
  <2> QED BY <1>1, <1>3, <2>1, <2>2, <2>3, <2>4 DEF HandleInv
<1>14. UseInv'
  <2>1. \A o \in Ops : fdOf[o] # 0 => fdOf'[o] # 0
    BY <1>5, <1>7
  <2>2. \A w \in Workers : wop[w] # 0 => wop[w] \in Ops
    BY <1>1 DEF LocalType
  <2> QED BY <1>1, <1>3, <2>1, <2>2 DEF UseInv
<1>15. CallInv'
  <2>1. \A d \in Callers : cop'[d] # 0 <=> cpc'[d] # "idle"
    BY <1>1, <1>6, <1>8 DEF CallInv
  <2>2. \A d \in Callers : cop'[d] # 0 => io[cop'[d]] = "idle" /\ \A w \in Workers : wop[w] # cop'[d]
    BY <1>1, <1>6, <1>8 DEF CallInv
  <2>3. \A d \in Callers : cop'[d] # 0 => mem'[cop'[d]] = "live"
    <3>1. \A d \in Callers : cop[d] # 0 => cop[d] \in Ops /\ mem[cop[d]] = "live"
      BY <1>1, OpsFacts DEF CallInv, LocalType
    <3> QED BY <1>6, <1>7, <1>8, <3>1
  <2>4. \A b, d \in Callers : cop'[b] = cop'[d] /\ cop'[b] # 0 => b = d
    BY <1>1, <1>6, <1>8 DEF CallInv
  <2> QED BY <1>3, <2>1, <2>2, <2>3, <2>4 DEF CallInv
<1>16. ListenerInv'
  <2>1. doomed \subseteq Accepts /\ \A o \in Accepts : mem'[o] = mem[o]
    BY <1>1, <1>6, <1>7, OpsFacts DEF SockTypeOK
  <2> QED BY <1>1, <1>3, <2>1 DEF ListenerInv
<1>17. HandedOver'
  <2>1. \A o \in Ops : o # e => fdOf'[o] = fdOf[o]
    BY <1>7
  <2> QED BY <1>1, <1>3, <1>10, <1>11, <2>1 DEF HandedOver
<1>18. RecordedInv'
  <2> SUFFICES ASSUME Up, NEW q \in Connects, mem'[q] = "live"
               PROVE  q \in records \/ \E d \in Callers : cop'[d] = q /\ cpc'[d] = "record"
    BY <1>3, <1>11 DEF RecordedInv
  <2>1. CASE q = e
    BY <1>8, <2>1
  <2>2. CASE q # e
    <3>1. mem[q] = "live"
      BY <1>7, <2>2, OpsFacts
    <3>2. q \in records \/ \E d \in Callers : cop[d] = q /\ cpc[d] = "record"
      BY <1>1, <3>1 DEF RecordedInv
    <3>3. \A d \in Callers : cpc[d] = "record" => d # c
      BY <1>3
    <3> QED BY <1>8, <3>2, <3>3
  <2> QED BY <2>1, <2>2
<1>19. OwnedInv'
  <2> SUFFICES ASSUME Up, NEW x \in Handles, IsOpen(x)'
               PROVE  \/ x \in held \/ x = listenFd
                      \/ \E o \in Ops : fdOf'[o] = x /\ mem'[o] = "live" /\ ~Erasing(o)
    BY <1>3, <1>11 DEF OwnedInv
  <2>1. CASE x = n
    BY <1>6, <1>7, <1>11, <2>1
  <2>2. CASE x # n
    <3>1. \/ x \in held \/ x = listenFd
          \/ \E o \in Ops : fdOf[o] = x /\ mem[o] = "live" /\ ~Erasing(o)
      BY <1>1, <1>10, <2>2 DEF OwnedInv
    <3> QED BY <1>4, <1>7, <3>1
  <2> QED BY <2>1, <2>2
<1>20. AloneInv'
  BY <1>1, <1>3, <1>5, <1>7, <1>11 DEF AloneInv
<1>21. TrackInv'
  <2>1. ASSUME NEW q \in Connects, IsOpen(fdOf[q])'
        PROVE  \/ fdOf'[q] \in held \/ q \in records
               \/ \E w \in Workers : wop[w] = q
               \/ \E d \in Callers : cop'[d] = q
    <3>1. CASE q = e
      BY <1>8, <3>1
    <3>2. CASE q # e
      <4>1. \/ fdOf'[q] \in held \/ q \in records
            \/ \E w \in Workers : wop[w] = q
            \/ \E d \in Callers : cop[d] = q
        BY <1>1, <1>7, <1>10, <2>1, <3>2, OpsFacts DEF TrackInv
      <4>2. cop[c] = 0 /\ q # 0
        BY <1>1, <1>3, OpsFacts DEF CallInv
      <4> QED BY <1>8, <4>1, <4>2
    <3> QED BY <3>1, <3>2
  <2>2. ASSUME NEW d \in Callers, cpc'[d] = "start", IsOpen(fdOf[cop[d]])'
        PROVE  cop'[d] \in records
    <3>1. d # c /\ cop'[d] = cop[d] /\ cpc[d] = "start"
      BY <1>8, <2>2
    <3>2. PICK q \in Ops : q = cop[d] /\ q # e
      BY <1>1, <1>6, <3>1, OpsFacts DEF CallInv, LocalType
    <3>3. IsOpen(fdOf[q])
      BY <1>10, <2>2, <3>1, <3>2
    <3> QED BY <1>1, <3>1, <3>2, <3>3 DEF TrackInv
  <2> QED BY <1>3, <2>1, <2>2 DEF TrackInv
<1>22. InUseIsLive' /\ AcceptsArmed'
  BY <1>1, <1>3, <1>6, <1>7, <1>11, OpsFacts DEF InUseIsLive, AcceptsArmed
<1>23. QuietAfterFirst'
  BY <1>1, <1>3 DEF QuietAfterFirst
<1> QED BY <1>12, <1>13, <1>14, <1>15, <1>16, <1>17, <1>18, <1>19, <1>20, <1>21, <1>22, <1>23 DEF IInv

\* The caller records the entry and registers its socket.
LEMMA RecordStep ==
  ASSUME IInv, NEW c \in Callers, RecordConnect(c)
  PROVE  IInv'
<1>1. /\ SockTypeOK /\ LocalType /\ HandleInv /\ UseInv /\ CallInv /\ ListenerInv
      /\ HandedOver /\ RecordedInv /\ OwnedInv /\ AloneInv /\ TrackInv
      /\ InUseIsLive /\ AcceptsArmed /\ QuietAfterFirst
  BY DEF IInv
<1>2. /\ UNCHANGED <<mem, io, fdOf, handle, made, listenFd, arming, first, stop, doomed>>
      /\ UNCHANGED <<wpc, wop, cop, held, answered>>
      /\ cpc[c] = "record" /\ cpc' = [cpc EXCEPT ![c] = "start"]
      /\ records' = records \cup {cop[c]}
      /\ services' = services \/ services' = services \cup {fdOf[cop[c]]}
  BY DEF RecordConnect, Register, opVars, handleVars, portVars, workVars, stopVars
<1>3. cop[c] \in Connects /\ fdOf[cop[c]] \in Handles
  <2>1. cop[c] \in Connects /\ mem[cop[c]] = "live"
    BY <1>1, <1>2 DEF CallInv, LocalType
  <2> QED BY <1>1, <2>1, OpsFacts, HandlesAssumption DEF HandleInv, SockTypeOK, Handles
<1>4. /\ cpc' \in [Callers -> {"idle", "record", "start"}]
      /\ \A d \in Callers : cpc'[d] = IF d = c THEN "start" ELSE cpc[d]
  BY <1>1, <1>2 DEF LocalType
<1>5. /\ \A x : IsOpen(x)' <=> IsOpen(x)
      /\ \A o : Erasing(o)' <=> Erasing(o)
      /\ \A o : Handling(o)' = Handling(o)
      /\ Up' <=> Up
  BY <1>2 DEF IsOpen, Erasing, Handling, Up
<1>6. SockTypeOK' /\ LocalType'
  BY <1>1, <1>2, <1>3, <1>4 DEF SockTypeOK, LocalType
<1>7. HandleInv' /\ UseInv'
  BY <1>1, <1>2 DEF HandleInv, UseInv
<1>8. CallInv'
  BY <1>1, <1>2, <1>4 DEF CallInv
<1>9. ListenerInv'
  BY <1>1, <1>2 DEF ListenerInv, IsOpen
<1>10. HandedOver' /\ OwnedInv' /\ AloneInv'
  BY <1>1, <1>2, <1>5 DEF HandedOver, OwnedInv, AloneInv, IsOpen
<1>11. RecordedInv'
  BY <1>1, <1>2, <1>4, <1>5 DEF RecordedInv
<1>12. TrackInv'
  BY <1>1, <1>2, <1>4 DEF TrackInv, IsOpen
<1>13. InUseIsLive' /\ AcceptsArmed'
  BY <1>1, <1>2, <1>5 DEF InUseIsLive, AcceptsArmed
<1>14. QuietAfterFirst'
  BY <1>1, <1>2 DEF QuietAfterFirst
<1> QED BY <1>6, <1>7, <1>8, <1>9, <1>10, <1>11, <1>12, <1>13, <1>14 DEF IInv

\* ConnectEx: from now on the entry is the kernel's, or it fails at once and the
\* caller closes the socket and frees the entry.
LEMMA ConnectExStep ==
  ASSUME IInv, NEW c \in Callers, StartConnectEx(c) \/ ConnectExFails(c)
  PROVE  IInv'
<1>1. /\ SockTypeOK /\ LocalType /\ HandleInv /\ UseInv /\ CallInv /\ ListenerInv
      /\ HandedOver /\ RecordedInv /\ OwnedInv /\ AloneInv /\ TrackInv
      /\ InUseIsLive /\ AcceptsArmed /\ QuietAfterFirst
  BY DEF IInv
<1>2. PICK e : e = cop[c]
  OBVIOUS
<1>3. PICK s : s = fdOf[e]
  OBVIOUS
<1>4. /\ UNCHANGED <<fdOf, made, records, listenFd, arming, services, first, stop, doomed>>
      /\ UNCHANGED <<wpc, wop, held, answered>>
      /\ cpc[c] = "start" /\ cpc' = [cpc EXCEPT ![c] = "idle"] /\ cop' = [cop EXCEPT ![c] = 0]
      /\ \/ /\ IsOpen(s) /\ UNCHANGED <<mem, handle>>
            /\ \E r \in {"pending", "idle"} : io' = [io EXCEPT ![e] = r]
         \/ /\ handle' = [x \in Handles |-> IF x \in {s} THEN "closed" ELSE handle[x]]
            /\ mem' = [mem EXCEPT ![e] = "freed"] /\ UNCHANGED io
  BY <1>2, <1>3 DEF StartConnectEx, ConnectExFails, Closed, handleVars, objVars,
     portVars, workVars, stopVars, userVars
<1>5. /\ e \in Connects /\ e \in Ops /\ e \notin Accepts /\ e # 0
      /\ io[e] = "idle" /\ mem[e] = "live" /\ s # 0 /\ s \in Handles /\ s # listenFd
      /\ \A w \in Workers : wop[w] # e
      /\ \A d \in Callers : cop[d] = e => d = c
  <2>1. e \in Connects /\ e # 0 /\ mem[e] = "live" /\ io[e] = "idle"
    BY <1>1, <1>2, <1>4 DEF CallInv, LocalType
  <2>2. s # 0 /\ s \in Handles /\ s # listenFd
    BY <1>1, <1>3, <2>1, OpsFacts, HandlesAssumption DEF HandleInv, SockTypeOK, Handles
  <2> QED BY <1>1, <1>2, <2>1, <2>2, OpsFacts DEF CallInv
<1>6. /\ cpc' \in [Callers -> {"idle", "record", "start"}]
      /\ cop' \in [Callers -> Connects \cup {0}]
      /\ \A d \in Callers : cpc'[d] = IF d = c THEN "idle" ELSE cpc[d]
      /\ \A d \in Callers : cop'[d] = IF d = c THEN 0 ELSE cop[d]
  BY <1>1, <1>4 DEF LocalType
<1>7. /\ mem' \in [Ops -> {"none", "live", "freed"}]
      /\ io' \in [Ops -> {"idle", "pending", "ok", "failed"}]
      /\ handle' \in [Handles -> {"none", "open", "closed"}]
      /\ \A o \in Ops : o # e => mem'[o] = mem[o] /\ io'[o] = io[o]
      /\ \A x \in Handles : x # s => handle'[x] = handle[x]
      /\ mem'[e] # "none"
      /\ \/ mem'[e] = "live" /\ handle'[s] = handle[s] /\ IsOpen(s)
         \/ mem'[e] = "freed" /\ handle'[s] = "closed" /\ io'[e] = "idle"
  BY <1>1, <1>4, <1>5 DEF SockTypeOK
<1>8. /\ \A o \in Ops : fdOf[o] \in Handles \cup {0}
      /\ listenFd \in Handles \cup {0}
      /\ \A o \in Ops : o # e => fdOf[o] # s
  <2>1. \A o \in Ops : fdOf[o] \in Handles \cup {0} /\ listenFd \in Handles \cup {0}
    BY <1>1, HandlesAssumption DEF SockTypeOK, LocalType, Handles
  <2> QED BY <1>1, <1>3, <1>5, <2>1, HandlesAssumption DEF HandleInv, LocalType, Handles
<1>9. /\ \A o \in Ops : o # e => (IsOpen(fdOf[o])' <=> IsOpen(fdOf[o]))
      /\ IsOpen(listenFd)' <=> IsOpen(listenFd)
      /\ \A x \in Handles : IsOpen(x)' => IsOpen(x)
      /\ IsOpen(s)' <=> mem'[e] = "live"
      /\ IsOpen(s)' => IsOpen(s)
  BY <1>4, <1>5, <1>7, <1>8 DEF IsOpen
<1>10. /\ \A o : Erasing(o)' <=> Erasing(o)
       /\ \A o : Handling(o)' = Handling(o)
       /\ ~Erasing(e) /\ Handling(e) = {}
       /\ Up' <=> Up
  BY <1>4, <1>5 DEF Erasing, Handling, Up
<1>11. SockTypeOK' /\ LocalType'
  BY <1>1, <1>4, <1>6, <1>7 DEF SockTypeOK, LocalType
<1>12. HandleInv'
  <2>1. s <= made
    BY <1>1, <1>3, <1>5 DEF SockTypeOK
  <2>2. \A x \in Handles : x > made => x # s
    BY <1>1, <1>5, <2>1 DEF SockTypeOK, Handles
  <2>3. \A x \in Handles : x > made => handle'[x] = "none" /\ x \notin held
    BY <1>1, <1>7, <2>2 DEF HandleInv
  <2>4. \A o \in Ops : fdOf[o] # 0 => fdOf[o] # listenFd /\ mem'[o] # "none"
    BY <1>1, <1>7 DEF HandleInv
  <2>5. \A q \in Connects : mem'[q] # "none" => fdOf[q] # 0
    BY <1>1, <1>3, <1>5, <1>7, OpsFacts DEF HandleInv
  <2> QED BY <1>1, <1>4, <2>3, <2>4, <2>5 DEF HandleInv
<1>13. UseInv'
  <2>1. \A w \in Workers : wop[w] # 0 => wop[w] \in Ops /\ io'[wop[w]] = io[wop[w]]
    BY <1>1, <1>5, <1>7 DEF LocalType
  <2>2. \A o \in Ops : io'[o] # "idle" => fdOf[o] # 0
    BY <1>1, <1>3, <1>5, <1>7 DEF UseInv
  <2> QED BY <1>1, <1>4, <2>1, <2>2 DEF UseInv
<1>14. CallInv'
  <2>1. ASSUME NEW d \in Callers, cop'[d] # 0
        PROVE  /\ io'[cop'[d]] = "idle" /\ mem'[cop'[d]] = "live"
               /\ \A w \in Workers : wop[w] # cop'[d]
    <3>1. d # c /\ cop'[d] = cop[d] /\ cop[d] # e /\ cop[d] \in Ops /\ cop[d] # 0
      BY <1>1, <1>5, <1>6, <2>1, OpsFacts DEF LocalType
    <3> QED BY <1>1, <1>7, <3>1 DEF CallInv
  <2>2. \A d \in Callers : cop'[d] # 0 <=> cpc'[d] # "idle"
    BY <1>1, <1>6 DEF CallInv
  <2>3. \A b, d \in Callers : cop'[b] = cop'[d] /\ cop'[b] # 0 => b = d
    BY <1>1, <1>6 DEF CallInv
  <2> QED BY <1>4, <2>1, <2>2, <2>3 DEF CallInv
<1>15. ListenerInv'
  <2>1. doomed \subseteq Accepts /\ \A o \in Accepts : mem'[o] = mem[o]
    BY <1>1, <1>5, <1>7, OpsFacts DEF SockTypeOK
  <2> QED BY <1>1, <1>4, <2>1 DEF ListenerInv
<1>16. HandedOver'
  BY <1>1, <1>4, <1>9, <1>10 DEF HandedOver
<1>17. RecordedInv'
  <2> SUFFICES ASSUME Up, NEW q \in Connects, mem'[q] = "live"
               PROVE  q \in records \/ \E d \in Callers : cop'[d] = q /\ cpc'[d] = "record"
    BY <1>4, <1>10 DEF RecordedInv
  <2>1. CASE q = e
    BY <1>1, <1>2, <1>3, <1>4, <1>7, <2>1 DEF TrackInv
  <2>2. CASE q # e
    <3>1. q \in records \/ \E d \in Callers : cop[d] = q /\ cpc[d] = "record"
      BY <1>1, <1>7, <2>2, OpsFacts DEF RecordedInv
    <3> QED BY <1>4, <1>6, <3>1
  <2> QED BY <2>1, <2>2
<1>18. OwnedInv'
  <2> SUFFICES ASSUME Up, NEW x \in Handles, IsOpen(x)'
               PROVE  \/ x \in held \/ x = listenFd
                      \/ \E o \in Ops : fdOf[o] = x /\ mem'[o] = "live" /\ ~Erasing(o)
    BY <1>4, <1>10 DEF OwnedInv
  <2>1. \/ x \in held \/ x = listenFd
        \/ \E o \in Ops : fdOf[o] = x /\ mem[o] = "live" /\ ~Erasing(o)
    BY <1>1, <1>9 DEF OwnedInv
  <2>2. ASSUME NEW o \in Ops, fdOf[o] = x, mem[o] = "live" PROVE mem'[o] = "live"
    BY <1>3, <1>7, <1>9, <2>2
  <2> QED BY <2>1, <2>2
<1>19. AloneInv'
  <2>1. \A o \in Ops : mem'[o] = "live" => mem[o] = "live"
    BY <1>5, <1>7
  <2> QED BY <1>1, <1>4, <1>10, <2>1 DEF AloneInv
<1>20. TrackInv'
  <2>1. ASSUME NEW q \in Connects, IsOpen(fdOf[q])'
        PROVE  \/ fdOf[q] \in held \/ q \in records
               \/ \E w \in Workers : wop[w] = q
               \/ \E d \in Callers : cop'[d] = q
    <3>1. CASE q = e
      <4>1. IsOpen(fdOf[cop[c]])
        BY <1>2, <1>3, <1>4, <1>9, <2>1, <3>1 DEF IsOpen
      <4> QED BY <1>1, <1>2, <1>4, <3>1, <4>1 DEF TrackInv
    <3>2. CASE q # e
      <4>1. \/ fdOf[q] \in held \/ q \in records
            \/ \E w \in Workers : wop[w] = q
            \/ \E d \in Callers : cop[d] = q
        BY <1>1, <1>9, <2>1, <3>2, OpsFacts DEF TrackInv
      <4> QED BY <1>2, <1>6, <3>2, <4>1
    <3> QED BY <3>1, <3>2
  <2>2. ASSUME NEW d \in Callers, cpc'[d] = "start", IsOpen(fdOf[cop[d]])'
        PROVE  cop'[d] \in records
    <3>1. d # c /\ cop'[d] = cop[d] /\ cpc[d] = "start"
      BY <1>6, <2>2
    <3>2. PICK q \in Ops : q = cop[d] /\ q # e
      BY <1>1, <1>5, <3>1, OpsFacts DEF CallInv, LocalType
    <3>3. IsOpen(fdOf[q])
      BY <1>9, <2>2, <3>1, <3>2
    <3> QED BY <1>1, <3>1, <3>2, <3>3 DEF TrackInv
  <2> QED BY <1>4, <2>1, <2>2 DEF TrackInv
<1>21. InUseIsLive'
  <2> SUFFICES ASSUME NEW o \in Ops, io'[o] # "idle" \/ Handling(o) # {}
               PROVE  mem'[o] = "live" \/ (o \in Accepts /\ stop["listener"] # "no")
    BY <1>4, <1>10 DEF InUseIsLive
  <2>1. CASE o = e
    BY <1>7, <1>10, <2>1
  <2>2. CASE o # e
    BY <1>1, <1>7, <2>2 DEF InUseIsLive
  <2> QED BY <2>1, <2>2
<1>22. AcceptsArmed'
  BY <1>1, <1>4, <1>5, <1>7, <1>10, OpsFacts DEF AcceptsArmed
<1>23. QuietAfterFirst'
  BY <1>1, <1>4 DEF QuietAfterFirst
<1> QED BY <1>11, <1>12, <1>13, <1>14, <1>15, <1>16, <1>17, <1>18, <1>19, <1>20, <1>21, <1>22, <1>23
        DEF IInv

\* The listening socket is made and registered.
LEMMA ListenStep ==
  ASSUME IInv, AddListeningPort
  PROVE  IInv'
<1>1. /\ SockTypeOK /\ LocalType /\ HandleInv /\ UseInv /\ CallInv /\ ListenerInv
      /\ HandedOver /\ RecordedInv /\ OwnedInv /\ AloneInv /\ TrackInv
      /\ InUseIsLive /\ AcceptsArmed /\ QuietAfterFirst
  BY DEF IInv
<1>2. PICK n : n = made + 1
  OBVIOUS
<1>3. /\ UNCHANGED <<mem, io, fdOf, records, first, stop, doomed>>
      /\ UNCHANGED <<wpc, wop, cpc, cop, held, answered>>
      /\ OpenHandle /\ listenFd = 0 /\ listenFd' = n /\ stop["listener"] = "no"
      /\ services' = services \cup {n} /\ arming' = MaxConnects + 1
  BY <1>2 DEF AddListeningPort, Register, opVars, portVars, workVars, callVars, stopVars, userVars
<1>4. /\ made' = n /\ n \in Handles /\ made \in Nat /\ made' \in 0 .. MaxHandles /\ n # 0
      /\ n \notin held /\ listenFd # n /\ \A o \in Ops : fdOf[o] # n
      /\ handle' \in [Handles -> {"none", "open", "closed"}]
      /\ \A x \in Handles : handle'[x] = IF x = n THEN "open" ELSE handle[x]
      /\ \A x \in Handles : x > made' => x > made /\ handle'[x] = "none"
  BY <1>1, <1>2, <1>3, OpenEffect
<1>5. /\ MaxConnects + 1 \in Accepts /\ MaxConnects + 1 # 0
      /\ \A o \in Accepts : mem[o] = "none"
  BY <1>1, <1>3, HandlesAssumption DEF Accepts, ListenerInv
<1>6. /\ \A o \in Ops : fdOf[o] \in Handles \cup {0}
      /\ fdOf \in [Ops -> 0 .. made'] /\ listenFd' \in 0 .. made'
  <2>1. fdOf \in [Ops -> 0 .. made]
    BY <1>1 DEF SockTypeOK
  <2>2. \A x \in 0 .. made : x \in 0 .. made' /\ x \in Handles \cup {0}
    BY <1>2, <1>4, HandlesAssumption DEF Handles
  <2>3. listenFd' \in 0 .. made'
    BY <1>2, <1>3, <1>4
  <2> QED BY <2>1, <2>2, <2>3
<1>7. /\ \A o \in Ops : IsOpen(fdOf[o])' <=> IsOpen(fdOf[o])
      /\ \A x \in Handles : IsOpen(x)' => IsOpen(x) \/ x = n
  BY <1>3, <1>4, <1>6 DEF IsOpen
<1>8. /\ \A o : Erasing(o)' <=> Erasing(o)
      /\ \A o : Handling(o)' = Handling(o)
      /\ Up' <=> Up
  BY <1>3 DEF Erasing, Handling, Up
<1>9. SockTypeOK' /\ LocalType'
  BY <1>1, <1>3, <1>4, <1>5, <1>6 DEF SockTypeOK, LocalType
<1>10. HandleInv'
  BY <1>1, <1>3, <1>4 DEF HandleInv
<1>11. UseInv' /\ CallInv'
  BY <1>1, <1>3 DEF UseInv, CallInv
<1>12. ListenerInv'
  BY <1>1, <1>3, <1>4, <1>5 DEF ListenerInv
<1>13. HandedOver' /\ RecordedInv' /\ AloneInv'
  BY <1>1, <1>3, <1>7, <1>8 DEF HandedOver, RecordedInv, AloneInv
<1>14. OwnedInv'
  <2> SUFFICES ASSUME Up, NEW x \in Handles, IsOpen(x)'
               PROVE  \/ x \in held \/ x = listenFd'
                      \/ \E o \in Ops : fdOf[o] = x /\ mem[o] = "live" /\ ~Erasing(o)
    BY <1>3, <1>8 DEF OwnedInv
  <2>1. CASE x = n
    BY <1>3, <2>1
  <2>2. CASE x # n
    BY <1>1, <1>3, <1>7, <2>2, OpsFacts DEF OwnedInv
  <2> QED BY <2>1, <2>2
<1>15. TrackInv'
  <2>1. \A d \in Callers : cpc[d] = "start" => cop[d] \in Ops
    BY <1>1, OpsFacts DEF CallInv, LocalType
  <2>2. ASSUME NEW d \in Callers, cpc'[d] = "start", IsOpen(fdOf[cop[d]])'
        PROVE  cop'[d] \in records'
    <3>1. PICK q \in Ops : q = cop[d] /\ cop'[d] = q /\ cpc[d] = "start"
      BY <1>3, <2>1, <2>2
    <3>2. IsOpen(fdOf[q])
      BY <1>7, <2>2, <3>1
    <3> QED BY <1>1, <1>3, <3>1, <3>2 DEF TrackInv
  <2>3. \A e \in Connects : IsOpen(fdOf[e])' <=> IsOpen(fdOf[e])
    BY <1>7, OpsFacts
  <2> QED BY <1>1, <1>3, <2>2, <2>3 DEF TrackInv
<1>16. InUseIsLive' /\ AcceptsArmed'
  BY <1>1, <1>3, <1>8 DEF InUseIsLive, AcceptsArmed
<1>17. QuietAfterFirst'
  BY <1>1, <1>3 DEF QuietAfterFirst
<1> QED BY <1>9, <1>10, <1>11, <1>12, <1>13, <1>14, <1>15, <1>16, <1>17 DEF IInv

\* An accept is started, for the first time or again, with a new socket; the one
\* it had is its endpoint's.
LEMMA AcceptExStep ==
  ASSUME IInv, ArmAccept \/ \E w \in Workers : Rearm(w)
  PROVE  IInv'
<1>1. /\ SockTypeOK /\ LocalType /\ HandleInv /\ UseInv /\ CallInv /\ ListenerInv
      /\ HandedOver /\ RecordedInv /\ OwnedInv /\ AloneInv /\ TrackInv
      /\ InUseIsLive /\ AcceptsArmed /\ QuietAfterFirst
  BY DEF IInv
<1>2. PICK n : n = made + 1
  OBVIOUS
<1>3. /\ UNCHANGED <<records, listenFd, services, first, stop, doomed, cpc, cop, held, answered>>
      /\ OpenHandle /\ IsOpen(listenFd)
  BY DEF ArmAccept, Rearm, StartAcceptEx, objVars, portVars, callVars, stopVars, userVars
<1>4. /\ made' = n /\ n \in Handles /\ made \in Nat /\ made' \in 0 .. MaxHandles /\ n # 0
      /\ n \notin held /\ listenFd # n /\ \A o \in Ops : fdOf[o] # n
      /\ handle' \in [Handles -> {"none", "open", "closed"}]
      /\ \A x \in Handles : handle'[x] = IF x = n THEN "open" ELSE handle[x]
      /\ \A x \in Handles : x > made' => x > made /\ handle'[x] = "none"
  BY <1>1, <1>2, <1>3, OpenEffect
<1>5. listenFd # 0
  BY <1>3 DEF IsOpen
<1>6. PICK o \in Accepts, m \in {"live", "freed"} :
         /\ fdOf' = [fdOf EXCEPT ![o] = n] /\ io' = [io EXCEPT ![o] = "pending"]
         /\ mem' = [mem EXCEPT ![o] = m] /\ io[o] = "idle"
         /\ m = "live" \/ stop["listener"] \notin {"no", "close"}
         /\ mem[o] = "live" => Erasing(o)
         /\ arming' \in Accepts \cup {0}
         /\ arming' # 0 => \A q \in Accepts : q >= arming' => mem[q] = "none" /\ q # o
         /\ \A v \in Workers : wop'[v] = IF wop[v] = o THEN 0 ELSE wop[v]
         /\ \A v \in Workers : wpc'[v] = IF wop[v] = o THEN "poll" ELSE wpc[v]
         /\ wpc' \in [Workers -> {"new", "poll", "connect", "erase", "accept", "rearm", "shutdown", "exit"}]
         /\ wop' \in [Workers -> Ops \cup {0}]
  <2>1. /\ wpc \in [Workers -> {"new", "poll", "connect", "erase", "accept", "rearm", "shutdown", "exit"}]
        /\ wop \in [Workers -> Ops \cup {0}] /\ mem \in [Ops -> {"none", "live", "freed"}]
    BY <1>1 DEF SockTypeOK, LocalType
  <2>2. CASE ArmAccept
    <3>1. PICK o \in Accepts : o = arming
      BY <1>1, <2>2 DEF ArmAccept, LocalType
    <3>2. /\ fdOf' = [fdOf EXCEPT ![o] = n] /\ io' = [io EXCEPT ![o] = "pending"]
          /\ mem' = [mem EXCEPT ![o] = "live"] /\ UNCHANGED <<wpc, wop>>
          /\ arming' = IF o + 1 \in Accepts THEN o + 1 ELSE 0
      BY <1>2, <2>2, <3>1 DEF ArmAccept, StartAcceptEx, workVars
    <3>3. \A q \in Accepts : q >= o => mem[q] = "none"
      BY <1>1, <3>1, OpsFacts DEF ListenerInv
    <3>4. mem[o] = "none"
      BY <3>3, OpsFacts DEF Accepts
    <3>5. io[o] = "idle" /\ \A v \in Workers : wop[v] # o
      BY <1>1, <3>4, OpsFacts DEF UseInv, HandleInv
    <3>6. arming' # 0 => \A q \in Accepts : q >= arming' => mem[q] = "none" /\ q # o
      <4>1. \A q \in Accepts : q >= o + 1 => q >= o /\ q # o
        BY HandlesAssumption DEF Accepts
      <4> QED BY <3>2, <3>3, <4>1
    <3>7. arming' \in Accepts \cup {0}
      BY <3>2
    <3> QED BY <2>1, <3>2, <3>4, <3>5, <3>6, <3>7
  <2>3. ASSUME NEW w \in Workers, Rearm(w)
        PROVE  \E o \in Accepts, m \in {"live", "freed"} :
                 /\ fdOf' = [fdOf EXCEPT ![o] = n] /\ io' = [io EXCEPT ![o] = "pending"]
                 /\ mem' = [mem EXCEPT ![o] = m] /\ io[o] = "idle"
                 /\ m = "live" \/ stop["listener"] \notin {"no", "close"}
                 /\ mem[o] = "live" => Erasing(o)
                 /\ arming' \in Accepts \cup {0}
                 /\ arming' # 0 => \A q \in Accepts : q >= arming' => mem[q] = "none" /\ q # o
                 /\ \A v \in Workers : wop'[v] = IF wop[v] = o THEN 0 ELSE wop[v]
                 /\ \A v \in Workers : wpc'[v] = IF wop[v] = o THEN "poll" ELSE wpc[v]
                 /\ wpc' \in [Workers -> {"new", "poll", "connect", "erase", "accept", "rearm",
                                          "shutdown", "exit"}]
                 /\ wop' \in [Workers -> Ops \cup {0}]
    <3>1. PICK o \in Accepts : o = wop[w]
      BY <1>1, <2>3 DEF Rearm, SockTypeOK
    <3>2. /\ fdOf' = [fdOf EXCEPT ![o] = n] /\ io' = [io EXCEPT ![o] = "pending"]
          /\ wpc[w] = "rearm" /\ wpc' = [wpc EXCEPT ![w] = "poll"] /\ wop' = [wop EXCEPT ![w] = 0]
          /\ UNCHANGED <<mem, arming>>
      BY <1>2, <2>3, <3>1 DEF Rearm, StartAcceptEx, Goto, objVars
    <3>3. /\ io[o] = "idle" /\ fdOf[o] # 0 /\ o # 0 /\ \A v \in Workers : wop[v] = o => v = w
      BY <1>1, <3>1, OpsFacts DEF UseInv
    <3>4. PICK m \in {"live", "freed"} : m = mem[o]
      BY <1>1, <2>1, <3>3, OpsFacts DEF HandleInv
    <3>5. /\ mem' = [mem EXCEPT ![o] = m]
          /\ m = "live" \/ stop["listener"] \notin {"no", "close"}
      BY <1>1, <2>1, <3>2, <3>4 DEF ListenerInv
    <3>6. Erasing(o)
      BY <3>1, <3>2 DEF Erasing
    <3>7. arming' \in Accepts \cup {0}
      BY <1>1, <3>2 DEF LocalType
    <3>8. arming' # 0 => \A q \in Accepts : q >= arming' => mem[q] = "none" /\ q # o
      BY <1>1, <3>2, <3>4 DEF ListenerInv
    <3>9. /\ \A v \in Workers : wop'[v] = IF wop[v] = o THEN 0 ELSE wop[v]
          /\ \A v \in Workers : wpc'[v] = IF wop[v] = o THEN "poll" ELSE wpc[v]
      BY <2>1, <3>1, <3>2, <3>3
    <3>10. /\ wpc' \in [Workers -> {"new", "poll", "connect", "erase", "accept", "rearm", "shutdown", "exit"}]
           /\ wop' \in [Workers -> Ops \cup {0}]
      BY <2>1, <3>2
    <3> QED BY <3>2, <3>3, <3>5, <3>6, <3>7, <3>8, <3>9, <3>10
  <2> QED BY <2>2, <2>3
<1>7. /\ o \in Ops /\ o # 0 /\ o \notin Connects
      /\ \A c \in Callers : cop[c] # o
  BY <1>1, OpsFacts DEF LocalType
<1>8. /\ mem' \in [Ops -> {"none", "live", "freed"}]
      /\ io' \in [Ops -> {"idle", "pending", "ok", "failed"}]
      /\ \A q \in Ops : mem'[q] = IF q = o THEN m ELSE mem[q]
      /\ \A q \in Ops : io'[q] = IF q = o THEN "pending" ELSE io[q]
      /\ \A q \in Ops : fdOf'[q] = IF q = o THEN n ELSE fdOf[q]
  BY <1>1, <1>6, <1>7 DEF SockTypeOK
<1>9. /\ \A q \in Ops : fdOf[q] \in Handles \cup {0}
      /\ fdOf' \in [Ops -> 0 .. made'] /\ listenFd \in 0 .. made' /\ listenFd \in Handles \cup {0}
  <2>1. fdOf \in [Ops -> 0 .. made] /\ listenFd \in 0 .. made
    BY <1>1 DEF SockTypeOK, LocalType
  <2>2. \A x \in 0 .. made : x \in 0 .. made' /\ x \in Handles \cup {0}
    BY <1>2, <1>4, HandlesAssumption DEF Handles
  <2>3. n \in 0 .. made'
    BY <1>2, <1>4
  <2> QED BY <1>6, <1>7, <2>1, <2>2, <2>3
<1>10. /\ \A q \in Ops : q # o => (IsOpen(fdOf[q])' <=> IsOpen(fdOf[q]))
       /\ \A x \in Handles : IsOpen(x)' => IsOpen(x) \/ x = n
  BY <1>4, <1>8, <1>9 DEF IsOpen
<1>11. /\ \A q : q # 0 => (Erasing(q)' <=> Erasing(q) /\ q # o)
       /\ \A q : q # o /\ q # 0 => Handling(q)' = Handling(q)
       /\ Up' <=> Up
  <2>1. \A q : q # 0 => (Erasing(q)' <=> Erasing(q) /\ q # o)
    BY <1>6 DEF Erasing
  <2>2. \A q : q # o /\ q # 0 => Handling(q)' = Handling(q)
    BY <1>6 DEF Handling
  <2> QED BY <1>3, <2>1, <2>2 DEF Up
<1>12. SockTypeOK' /\ LocalType'
  <2>1. /\ \A v \in Workers : wpc'[v] \in {"connect", "erase"} => wop'[v] \in Connects
        /\ \A v \in Workers : wpc'[v] \in {"accept", "rearm"} => wop'[v] \in Accepts
    BY <1>1, <1>6 DEF SockTypeOK
  <2> QED BY <1>1, <1>3, <1>4, <1>6, <1>8, <1>9, <2>1 DEF SockTypeOK, LocalType
<1>13. HandleInv'
  <2>1. \A x \in Handles : x > made' => handle'[x] = "none" /\ x \notin held
    BY <1>1, <1>4 DEF HandleInv
  <2>2. \A q, r \in Ops : fdOf'[q] = fdOf'[r] /\ fdOf'[q] # 0 => q = r
    BY <1>1, <1>4, <1>8 DEF HandleInv
  <2>3. \A q \in Ops : fdOf'[q] # 0 => fdOf'[q] # listenFd /\ mem'[q] # "none"
    BY <1>1, <1>4, <1>8 DEF HandleInv
  <2>4. \A d \in Connects : mem'[d] # "none" => fdOf'[d] # 0
    BY <1>1, <1>7, <1>8, OpsFacts DEF HandleInv
  <2> QED BY <1>1, <1>3, <2>1, <2>2, <2>3, <2>4 DEF HandleInv
<1>14. UseInv'
  <2>1. \A v \in Workers : wop'[v] # 0 <=> wpc'[v] \in Busy
    BY <1>1, <1>6, <1>7 DEF UseInv, Busy
  <2>2. \A v \in Workers : wop'[v] # 0 => io'[wop'[v]] = "idle" /\ fdOf'[wop'[v]] # 0
    <3>1. \A v \in Workers : wop'[v] # 0 => wop'[v] = wop[v] /\ wop[v] # o /\ wop[v] \in Ops
      BY <1>1, <1>6 DEF LocalType
    <3> QED BY <1>1, <1>8, <3>1 DEF UseInv
  <2>3. \A u, v \in Workers : wop'[u] = wop'[v] /\ wop'[u] # 0 => u = v
    BY <1>1, <1>6 DEF UseInv
  <2>4. \A q \in Ops : io'[q] # "idle" => fdOf'[q] # 0
    BY <1>1, <1>4, <1>8 DEF UseInv
  <2>5. \A u, v \in Workers : wpc'[u] = "new" => wpc'[v] = "new"
    <3>1. \A v \in Workers : wop[v] = o => wpc[v] # "new"
      BY <1>1, <1>7 DEF UseInv, Busy
    <3>2. \A u, v \in Workers : wpc[u] = "new" => wpc[v] = "new"
      BY <1>1 DEF UseInv
    <3> QED BY <1>6, <3>1, <3>2
  <2> QED BY <2>1, <2>2, <2>3, <2>4, <2>5 DEF UseInv
<1>15. CallInv'
  <2>1. ASSUME NEW c \in Callers, cop[c] # 0
        PROVE  /\ io'[cop[c]] = "idle" /\ mem'[cop[c]] = "live"
               /\ \A v \in Workers : wop'[v] # cop[c]
    <3>1. cop[c] \in Ops /\ cop[c] # o
      BY <1>1, <1>7, <2>1, OpsFacts DEF LocalType
    <3> QED BY <1>1, <1>6, <1>8, <2>1, <3>1 DEF CallInv
  <2> QED BY <1>1, <1>3, <2>1 DEF CallInv
<1>16. ListenerInv'
  <2>1. \A q \in Accepts : mem'[q] = IF q = o THEN m ELSE mem[q]
    BY <1>8, OpsFacts
  <2>2. stop["listener"] \in {"no", "close"} => \A q \in Accepts : mem'[q] # "freed"
    BY <1>1, <1>6, <2>1 DEF ListenerInv
  <2>3. arming' # 0 => \A q \in Accepts : q >= arming' => mem'[q] = "none"
    BY <1>6, <2>1
  <2>4. doomed \subseteq Accepts /\ \A q \in doomed : mem'[q] # "none"
    BY <1>1, <2>1 DEF ListenerInv, SockTypeOK
  <2> QED BY <1>1, <1>3, <1>5, <2>2, <2>3, <2>4 DEF ListenerInv
<1>17. HandedOver'
  <2>1. \A q \in Ops : q # o => fdOf'[q] = fdOf[q] /\ q # 0
    BY <1>8, OpsFacts
  <2> QED BY <1>1, <1>3, <1>7, <1>10, <1>11, <2>1 DEF HandedOver
<1>18. RecordedInv'
  <2>1. \A q \in Connects : mem'[q] = mem[q]
    BY <1>7, <1>8, OpsFacts
  <2> QED BY <1>1, <1>3, <1>11, <2>1 DEF RecordedInv
<1>19. OwnedInv'
  <2> SUFFICES ASSUME Up, NEW x \in Handles, IsOpen(x)'
               PROVE  \/ x \in held \/ x = listenFd
                      \/ \E q \in Ops : fdOf'[q] = x /\ mem'[q] = "live" /\ ~Erasing(q)'
    BY <1>3, <1>11 DEF OwnedInv
  <2>1. CASE x = n
    <3>1. m = "live"
      BY <1>6 DEF Up, Owners
    <3> QED BY <1>7, <1>8, <1>11, <2>1, <3>1
  <2>2. CASE x # n
    <3>1. \/ x \in held \/ x = listenFd
          \/ \E q \in Ops : fdOf[q] = x /\ mem[q] = "live" /\ ~Erasing(q)
      BY <1>1, <1>10, <2>2 DEF OwnedInv
    <3>2. ASSUME NEW q \in Ops, fdOf[q] = x, mem[q] = "live", ~Erasing(q)
          PROVE  fdOf'[q] = x /\ mem'[q] = "live" /\ ~Erasing(q)'
      <4>1. q # o /\ q # 0
        BY <1>6, <3>2, OpsFacts
      <4> QED BY <1>8, <1>11, <3>2, <4>1
    <3> QED BY <3>1, <3>2
  <2> QED BY <2>1, <2>2
<1>20. AloneInv'
  BY <1>1, <1>3, <1>4, <1>8, <1>11, OpsFacts DEF AloneInv
<1>21. TrackInv'
  <2>1. \A e \in Connects : /\ IsOpen(fdOf[e])' <=> IsOpen(fdOf[e])
                            /\ fdOf'[e] = fdOf[e]
    BY <1>7, <1>8, <1>10, OpsFacts
  <2>2. \A e \in Connects : (\E v \in Workers : wop[v] = e) => \E v \in Workers : wop'[v] = e
    BY <1>6, <1>7
  <2>3. ASSUME NEW d \in Callers, cpc'[d] = "start", IsOpen(fdOf[cop[d]])'
        PROVE  cop'[d] \in records'
    <3>1. PICK q \in Connects : q = cop[d] /\ cop'[d] = q /\ cpc[d] = "start"
      BY <1>1, <1>3, <2>3, OpsFacts DEF CallInv, LocalType
    <3>2. IsOpen(fdOf[q])
      BY <2>1, <2>3, <3>1
    <3> QED BY <1>1, <1>3, <3>1, <3>2 DEF TrackInv
  <2> QED BY <1>1, <1>3, <2>1, <2>2, <2>3 DEF TrackInv
<1>22. InUseIsLive' /\ AcceptsArmed'
  <2>1. InUseIsLive'
    BY <1>1, <1>3, <1>6, <1>8, <1>11, OpsFacts DEF InUseIsLive
  <2>2. AcceptsArmed'
    BY <1>1, <1>3, <1>8, <1>11, OpsFacts DEF AcceptsArmed
  <2> QED BY <2>1, <2>2
<1>23. QuietAfterFirst'
  <2>1. \A v \in Workers : wop[v] = o => wpc[v] \notin {"new", "exit"}
    BY <1>1, <1>7 DEF UseInv, Busy
  <2> QED BY <1>1, <1>3, <1>6, <2>1 DEF QuietAfterFirst
<1> QED BY <1>12, <1>13, <1>14, <1>15, <1>16, <1>17, <1>18, <1>19, <1>20, <1>21, <1>22, <1>23 DEF IInv

\* The accept cannot be started again: the listener is shut down, if it is not yet.
LEMMA RearmFailsStep ==
  ASSUME IInv, NEW w \in Workers, RearmFails(w)
  PROVE  IInv'
<1>1. /\ SockTypeOK /\ LocalType /\ HandleInv /\ UseInv /\ CallInv /\ ListenerInv
      /\ HandedOver /\ RecordedInv /\ OwnedInv /\ AloneInv /\ TrackInv
      /\ InUseIsLive /\ AcceptsArmed /\ QuietAfterFirst
  BY DEF IInv
<1>2. PICK o \in Accepts : o = wop[w]
  BY <1>1 DEF RearmFails, SockTypeOK
<1>3. /\ UNCHANGED <<mem, io, handle, made, records, listenFd, arming, services, first, doomed>>
      /\ UNCHANGED <<cpc, cop, held, answered>>
      /\ wpc[w] = "rearm" /\ wop' = [wop EXCEPT ![w] = 0] /\ fdOf' = [fdOf EXCEPT ![o] = 0]
      /\ \E label \in {"shutdown", "poll"} : wpc' = [wpc EXCEPT ![w] = label]
      /\ \/ stop["listener"] = "no" /\ stop' = [stop EXCEPT !["listener"] = "close"]
         \/ stop["listener"] # "no" /\ UNCHANGED stop
  BY <1>2 DEF RearmFails, BeginShutdown, Goto, handleVars, objVars, portVars, callVars, stopVars, userVars
<1>4. /\ wpc \in [Workers -> {"new", "poll", "connect", "erase", "accept", "rearm", "shutdown", "exit"}]
      /\ wop \in [Workers -> Ops \cup {0}] /\ fdOf \in [Ops -> 0 .. made]
      /\ stop \in [Owners -> {"no", "close", "delete", "undefined", "port", "join", "done"}]
      /\ o \in Ops /\ o # 0 /\ o \notin Connects /\ io[o] = "idle"
      /\ \A v \in Workers : wop[v] = o => v = w
  BY <1>1, <1>2, OpsFacts DEF SockTypeOK, LocalType, UseInv
<1>5. /\ wpc' \in [Workers -> {"new", "poll", "connect", "erase", "accept", "rearm", "shutdown", "exit"}]
      /\ wop' \in [Workers -> Ops \cup {0}]
      /\ \A v \in Workers : v # w => wpc'[v] = wpc[v]
      /\ wpc'[w] \in {"shutdown", "poll"}
      /\ \A v \in Workers : wop'[v] = IF v = w THEN 0 ELSE wop[v]
  BY <1>3, <1>4
<1>6. /\ fdOf' \in [Ops -> 0 .. made']
      /\ \A q \in Ops : fdOf'[q] = IF q = o THEN 0 ELSE fdOf[q]
  <2>1. 0 \in 0 .. made
    BY <1>1 DEF SockTypeOK
  <2> QED BY <1>3, <1>4, <2>1
<1>7. /\ stop' \in [Owners -> {"no", "close", "delete", "undefined", "port", "join", "done"}]
      /\ stop'["listener"] # "no" /\ stop'["connector"] = stop["connector"]
      /\ stop'["listener"] = stop["listener"] \/ (stop["listener"] = "no" /\ stop'["listener"] = "close")
      /\ \A p \in Owners : stop'[p] = "done" => stop[p] = "done"
      /\ ~Up'
  BY <1>3, <1>4 DEF Owners, Up
<1>8. /\ \A q \in Ops : q # o => (IsOpen(fdOf[q])' <=> IsOpen(fdOf[q]))
      /\ ~IsOpen(fdOf[o])'
      /\ IsOpen(listenFd)' <=> IsOpen(listenFd)
  BY <1>3, <1>4, <1>6 DEF IsOpen
<1>9. /\ \A q : q # 0 => (Erasing(q)' <=> Erasing(q) /\ q # o)
      /\ \A q : q # o /\ q # 0 => Handling(q)' = Handling(q)
  <2>1. \A q : q # 0 => (Erasing(q)' <=> Erasing(q) /\ q # o)
    BY <1>2, <1>3, <1>4, <1>5 DEF Erasing
  <2>2. \A q : q # o /\ q # 0 => Handling(q)' = Handling(q)
    BY <1>2, <1>5 DEF Handling
  <2> QED BY <2>1, <2>2
<1>10. SockTypeOK' /\ LocalType'
  BY <1>1, <1>3, <1>5, <1>6, <1>7 DEF SockTypeOK, LocalType
<1>11. HandleInv'
  BY <1>1, <1>3, <1>4, <1>6, OpsFacts DEF HandleInv
<1>12. UseInv'
  <2>1. \A v \in Workers : wop'[v] # 0 => io[wop'[v]] = "idle" /\ fdOf'[wop'[v]] # 0
    <3>1. \A v \in Workers : wop'[v] # 0 => wop'[v] = wop[v] /\ wop[v] # o /\ wop[v] \in Ops
      BY <1>4, <1>5
    <3> QED BY <1>1, <1>6, <3>1 DEF UseInv
  <2>2. \A q \in Ops : io[q] # "idle" => fdOf'[q] # 0
    BY <1>1, <1>4, <1>6 DEF UseInv
  <2>3. \A v \in Workers : wop'[v] # 0 <=> wpc'[v] \in Busy
    BY <1>1, <1>5 DEF UseInv, Busy
  <2>4. \A u, v \in Workers : wop'[u] = wop'[v] /\ wop'[u] # 0 => u = v
    BY <1>1, <1>5 DEF UseInv
  <2>5. \A u, v \in Workers : wpc'[u] = "new" => wpc'[v] = "new"
    BY <1>1, <1>3, <1>5 DEF UseInv
  <2> QED BY <1>3, <2>1, <2>2, <2>3, <2>4, <2>5 DEF UseInv
<1>13. CallInv'
  BY <1>1, <1>3, <1>5 DEF CallInv
<1>14. ListenerInv'
  <2>1. \A q \in Accepts : IsOpen(fdOf[q])' => IsOpen(fdOf[q])
    BY <1>8, OpsFacts
  <2>2. stop'["listener"] \in {"no", "close"} => stop["listener"] \in {"no", "close"}
    BY <1>7
  <2> QED BY <1>1, <1>3, <1>7, <1>8, <2>1, <2>2 DEF ListenerInv
<1>15. HandedOver'
  BY <1>1, <1>3, <1>6, <1>8, <1>9, OpsFacts DEF HandedOver
<1>16. RecordedInv' /\ OwnedInv' /\ AloneInv'
  BY <1>7 DEF RecordedInv, OwnedInv, AloneInv
<1>17. TrackInv'
  <2>1. \A e \in Connects : /\ IsOpen(fdOf[e])' <=> IsOpen(fdOf[e])
                            /\ fdOf'[e] = fdOf[e]
    BY <1>4, <1>6, <1>8, OpsFacts
  <2>2. \A e \in Connects : (\E v \in Workers : wop[v] = e) => \E v \in Workers : wop'[v] = e
    BY <1>2, <1>4, <1>5
  <2>3. ASSUME NEW d \in Callers, cpc'[d] = "start", IsOpen(fdOf[cop[d]])'
        PROVE  cop'[d] \in records'
    <3>1. PICK q \in Connects : q = cop[d] /\ cop'[d] = q /\ cpc[d] = "start"
      BY <1>1, <1>3, <2>3, OpsFacts DEF CallInv, LocalType
    <3>2. IsOpen(fdOf[q])
      BY <2>1, <2>3, <3>1
    <3> QED BY <1>1, <1>3, <3>1, <3>2 DEF TrackInv
  <2> QED BY <1>1, <1>3, <2>1, <2>2, <2>3 DEF TrackInv
<1>18. InUseIsLive'
  <2> SUFFICES ASSUME NEW q \in Ops, io[q] # "idle" \/ Handling(q)' # {}
               PROVE  mem[q] = "live" \/ q \in Accepts
    BY <1>3, <1>7 DEF InUseIsLive
  <2>1. CASE q = o
    BY <2>1
  <2>2. CASE q # o
    BY <1>1, <1>9, <2>2, OpsFacts DEF InUseIsLive
  <2> QED BY <2>1, <2>2
<1>19. AcceptsArmed'
  BY <1>7 DEF AcceptsArmed
<1>20. QuietAfterFirst'
  <2>1. stop'[first] = "done" => stop[first] = "done"
    BY <1>1, <1>7 DEF LocalType
  <2> QED BY <1>1, <1>3, <1>5, <2>1 DEF QuietAfterFirst
<1> QED BY <1>10, <1>11, <1>12, <1>13, <1>14, <1>15, <1>16, <1>17, <1>18, <1>19, <1>20 DEF IInv

\* TcpConnector::Shutdown closes the sockets of the records.
LEMMA CloseStep ==
  ASSUME IInv, ConnectorCloses
  PROVE  IInv'
<1>1. /\ SockTypeOK /\ LocalType /\ HandleInv /\ UseInv /\ CallInv /\ ListenerInv
      /\ HandedOver /\ RecordedInv /\ OwnedInv /\ AloneInv /\ TrackInv
      /\ InUseIsLive /\ AcceptsArmed /\ QuietAfterFirst
  BY DEF IInv
<1>2. PICK ss : ss = Owned
  OBVIOUS
<1>3. /\ UNCHANGED <<mem, io, fdOf, made, listenFd, arming, first, doomed, wpc, wop, cpc, cop>>
      /\ UNCHANGED <<held, answered>>
      /\ stop["connector"] = "close" /\ stop' = [stop EXCEPT !["connector"] = "port"]
      /\ handle' = [x \in Handles |-> IF x \in ss THEN "closed" ELSE handle[x]]
      /\ services' = services \ ss
      /\ records' = {}
  BY <1>2 DEF ConnectorCloses, Closed, KeepRecords, portVars, workVars, callVars, userVars
<1>4. /\ handle' \in [Handles -> {"none", "open", "closed"}]
      /\ \A x \in Handles : handle'[x] = IF x \in ss THEN "closed" ELSE handle[x]
  BY <1>1, <1>3 DEF SockTypeOK
<1>5. /\ stop' \in [Owners -> {"no", "close", "delete", "undefined", "port", "join", "done"}]
      /\ stop'["listener"] = stop["listener"] /\ stop'["connector"] = "port"
      /\ ~Up'
  <2>1. /\ stop' \in [Owners -> {"no", "close", "delete", "undefined", "port", "join", "done"}]
        /\ stop'["listener"] = stop["listener"] /\ stop'["connector"] = "port"
    BY <1>1, <1>3 DEF SockTypeOK, Owners
  <2> QED BY <2>1 DEF Up, Owners
<1>6. /\ \A e \in records : fdOf[e] \in ss
      /\ \A x \in ss : \E e \in records : x = fdOf[e]
  BY <1>2 DEF Owned
<1>7. /\ \A o \in Ops : fdOf[o] \in 0 .. made /\ fdOf[o] \in Handles \cup {0}
      /\ listenFd \in 0 .. made /\ listenFd \in Handles \cup {0}
      /\ records \subseteq Ops /\ records \subseteq Connects
  BY <1>1, HandlesAssumption, OpsFacts DEF SockTypeOK, LocalType, Handles
<1>8. ss \subseteq 0 .. made
  BY <1>6, <1>7, OpsFacts
<1>9. \A o \in Ops : IsOpen(fdOf[o])' <=> IsOpen(fdOf[o]) /\ fdOf[o] \notin ss
  <2>1. \A o \in Ops : IsOpen(fdOf[o])' <=> fdOf[o] # 0 /\ handle'[fdOf[o]] = "open"
    BY <1>3 DEF IsOpen
  <2> QED BY <1>4, <1>7, <2>1, OpsFacts DEF IsOpen
<1>10. /\ \A o : Erasing(o)' <=> Erasing(o)
       /\ \A o : Handling(o)' = Handling(o)
  BY <1>3 DEF Erasing, Handling
<1>11. SockTypeOK' /\ LocalType'
  BY <1>1, <1>3, <1>4, <1>5 DEF SockTypeOK, LocalType
<1>12. HandleInv'
  <2>1. \A x \in Handles : x > made => x \notin ss
    BY <1>1, <1>8 DEF Handles, SockTypeOK
  <2>2. \A x \in Handles : x > made => handle'[x] = "none" /\ x \notin held
    BY <1>1, <1>4, <2>1 DEF HandleInv
  <2> QED BY <1>1, <1>3, <2>2, OpsFacts DEF HandleInv
<1>13. UseInv' /\ CallInv'
  BY <1>1, <1>3 DEF UseInv, CallInv
<1>14. ListenerInv'
  <2>1. listenFd # 0 => listenFd \notin ss
    BY <1>1, <1>6, <1>7 DEF HandleInv
  <2> QED BY <1>1, <1>3, <1>5, <2>1 DEF ListenerInv
<1>15. HandedOver'
  BY <1>1, <1>3, <1>9, <1>10 DEF HandedOver
<1>16. RecordedInv' /\ OwnedInv' /\ AloneInv'
  BY <1>5 DEF RecordedInv, OwnedInv, AloneInv
<1>17. TrackInv'
  <2>1. \A e \in Connects : IsOpen(fdOf[e])' => IsOpen(fdOf[e]) /\ e \notin records
    BY <1>6, <1>9, OpsFacts
  <2>2. ASSUME NEW d \in Callers, cpc'[d] = "start", IsOpen(fdOf[cop[d]])'
        PROVE  cop'[d] \in records'
    <3>1. PICK q \in Connects : q = cop[d] /\ cop'[d] = q /\ cpc[d] = "start"
      BY <1>1, <1>3, <2>2, OpsFacts DEF CallInv, LocalType
    <3>2. IsOpen(fdOf[q])'
      BY <2>2, <3>1
    <3>3. IsOpen(fdOf[q]) /\ q \notin records
      BY <2>1, <3>2
    <3> QED BY <1>1, <3>1, <3>3 DEF TrackInv
  <2> QED BY <1>1, <1>3, <2>1, <2>2 DEF TrackInv
<1>18. InUseIsLive' /\ AcceptsArmed'
  BY <1>1, <1>3, <1>5, <1>10 DEF InUseIsLive, AcceptsArmed
<1>19. QuietAfterFirst'
  BY <1>1, <1>3, <1>5 DEF QuietAfterFirst, LocalType, Owners
<1> QED BY <1>11, <1>12, <1>13, <1>14, <1>15, <1>16, <1>17, <1>18, <1>19 DEF IInv

\* TcpListener::Shutdown copies the head of the list, or comes to its end.
LEMMA CopyStep ==
  ASSUME IInv, ListenerCopies \/ DeleteHead
  PROVE  IInv'
<1>1. /\ SockTypeOK /\ LocalType /\ HandleInv /\ UseInv /\ CallInv /\ ListenerInv
      /\ HandedOver /\ RecordedInv /\ OwnedInv /\ AloneInv /\ TrackInv
      /\ InUseIsLive /\ AcceptsArmed /\ QuietAfterFirst
  BY DEF IInv
<1>2. /\ UNCHANGED <<mem, io, fdOf, handle, made, records, listenFd, arming, services, first>>
      /\ UNCHANGED <<wpc, wop, cpc, cop, held, answered>>
  BY DEF ListenerCopies, DeleteHead, opVars, handleVars, objVars, portVars, workVars, callVars, userVars
<1>3. /\ stop["listener"] \in {"close", "delete"}
      /\ \E label \in {"delete", "undefined", "port"} : stop' = [stop EXCEPT !["listener"] = label]
      /\ doomed' \subseteq doomed \cup {o \in Accepts : mem[o] = "live"}
  BY DEF ListenerCopies, DeleteHead
<1>4. /\ stop' \in [Owners -> {"no", "close", "delete", "undefined", "port", "join", "done"}]
      /\ stop'["listener"] \in {"delete", "undefined", "port"}
      /\ stop'["connector"] = stop["connector"]
  BY <1>1, <1>3 DEF SockTypeOK, Owners
<1>5. /\ \A x : IsOpen(x)' <=> IsOpen(x)
      /\ \A o : Erasing(o)' <=> Erasing(o)
      /\ \A o : Handling(o)' = Handling(o)
      /\ ~Up'
  BY <1>2, <1>4 DEF IsOpen, Erasing, Handling, Up, Owners
<1>6. SockTypeOK' /\ LocalType'
  BY <1>1, <1>2, <1>3, <1>4 DEF SockTypeOK, LocalType
<1>7. HandleInv' /\ UseInv' /\ CallInv'
  BY <1>1, <1>2 DEF HandleInv, UseInv, CallInv
<1>8. ListenerInv'
  BY <1>1, <1>2, <1>3, <1>4 DEF ListenerInv
<1>9. HandedOver' /\ RecordedInv' /\ OwnedInv' /\ AloneInv'
  BY <1>1, <1>2, <1>5 DEF HandedOver, RecordedInv, OwnedInv, AloneInv, IsOpen
<1>10. TrackInv'
  BY <1>1, <1>2 DEF TrackInv, IsOpen
<1>11. InUseIsLive' /\ AcceptsArmed'
  BY <1>1, <1>2, <1>4, <1>5 DEF InUseIsLive, AcceptsArmed
<1>12. QuietAfterFirst'
  BY <1>1, <1>2, <1>4 DEF QuietAfterFirst, LocalType, Owners
<1> QED BY <1>6, <1>7, <1>8, <1>9, <1>10, <1>11, <1>12 DEF IInv

\* It deletes an AcceptObject, with its socket.
LEMMA DeleteStep ==
  ASSUME IInv, DeleteAccept
  PROVE  IInv'
<1>1. /\ SockTypeOK /\ LocalType /\ HandleInv /\ UseInv /\ CallInv /\ ListenerInv
      /\ HandedOver /\ RecordedInv /\ OwnedInv /\ AloneInv /\ TrackInv
      /\ InUseIsLive /\ AcceptsArmed /\ QuietAfterFirst
  BY DEF IInv
<1>2. /\ UNCHANGED <<io, fdOf, made, records, listenFd, arming, services, first, stop>>
      /\ UNCHANGED <<wpc, wop, cpc, cop, held, answered>>
      /\ stop["listener"] = "delete" /\ doomed # {}
  BY DEF DeleteAccept, objVars, portVars, workVars, callVars, userVars
<1>3. PICK n \in doomed : /\ doomed' = doomed \ {n}
                          /\ mem' = [mem EXCEPT ![n] = "freed"]
                          /\ handle' = Closed({fdOf[n]})
  <2>1. PICK m \in Nat : \A o \in Accepts : o \in 0 .. m
    <3>1. \A o \in Accepts : o \in 0 .. MaxConnects + ListenThreads + 1
      BY HandlesAssumption DEF Accepts
    <3>2. MaxConnects + ListenThreads + 1 \in Nat
      BY HandlesAssumption
    <3> QED BY <3>1, <3>2
  <2>2. doomed \in SUBSET (0 .. m)
    BY <1>1, <2>1 DEF SockTypeOK
  <2>3. \E k \in doomed : \A j \in doomed : k >= j
    BY <1>2, <2>2, LargestNat
  <2>4. Max(doomed) \in doomed
    BY <2>3 DEF Max
  <2> QED BY <2>4 DEF DeleteAccept
<1>4. n \in Accepts /\ n \in Ops /\ n \notin Connects /\ mem[n] # "none"
  BY <1>1, OpsFacts DEF SockTypeOK, ListenerInv
<1>5. PICK s : s = fdOf[n] /\ s \in 0 .. made
  BY <1>1, <1>4 DEF SockTypeOK
<1>6. /\ handle' \in [Handles -> {"none", "open", "closed"}]
      /\ \A x \in Handles : handle'[x] = IF x = s THEN "closed" ELSE handle[x]
  BY <1>1, <1>3, <1>5 DEF SockTypeOK, Closed
<1>7. /\ mem' \in [Ops -> {"none", "live", "freed"}]
      /\ \A o \in Ops : mem'[o] = IF o = n THEN "freed" ELSE mem[o]
  BY <1>1, <1>3, <1>4 DEF SockTypeOK
<1>8. \A o \in Ops : fdOf[o] \in Handles \cup {0}
  BY <1>1, HandlesAssumption DEF SockTypeOK, Handles
<1>9. \A o \in Ops : IsOpen(fdOf[o])' => IsOpen(fdOf[o])
  <2>1. \A o \in Ops : IsOpen(fdOf[o])' <=> fdOf[o] # 0 /\ handle'[fdOf[o]] = "open"
    BY <1>2 DEF IsOpen
  <2> QED BY <1>6, <1>8, <2>1, OpsFacts DEF IsOpen
<1>10. /\ \A o : Erasing(o)' <=> Erasing(o)
       /\ \A o : Handling(o)' = Handling(o)
       /\ ~Up'
  BY <1>2 DEF Erasing, Handling, Up, Owners
<1>11. SockTypeOK' /\ LocalType'
  BY <1>1, <1>2, <1>3, <1>6, <1>7 DEF SockTypeOK, LocalType
<1>12. HandleInv'
  <2>1. \A x \in Handles : x > made => handle'[x] = "none" /\ x \notin held
    BY <1>1, <1>5, <1>6 DEF HandleInv, Handles, SockTypeOK
  <2>2. \A o \in Ops : mem'[o] = "none" <=> mem[o] = "none"
    BY <1>4, <1>7
  <2> QED BY <1>1, <1>2, <2>1, <2>2, OpsFacts DEF HandleInv
<1>13. UseInv'
  BY <1>1, <1>2 DEF UseInv
<1>14. CallInv'
  <2>1. \A c \in Callers : cop[c] # 0 => mem'[cop[c]] = mem[cop[c]]
    BY <1>1, <1>4, <1>7, OpsFacts DEF LocalType
  <2> QED BY <1>1, <1>2, <2>1 DEF CallInv
<1>15. ListenerInv'
  <2>1. \A o \in Accepts : mem'[o] = "none" <=> mem[o] = "none"
    BY <1>4, <1>7, OpsFacts
  <2>2. doomed' \subseteq doomed /\ doomed \subseteq Accepts
    BY <1>1, <1>3 DEF SockTypeOK
  <2> QED BY <1>1, <1>2, <2>1, <2>2 DEF ListenerInv
<1>16. HandedOver'
  BY <1>1, <1>2, <1>9, <1>10 DEF HandedOver
<1>17. RecordedInv' /\ OwnedInv' /\ AloneInv'
  BY <1>10 DEF RecordedInv, OwnedInv, AloneInv
<1>18. TrackInv'
  <2>1. ASSUME NEW d \in Callers, cpc'[d] = "start", IsOpen(fdOf[cop[d]])'
        PROVE  cop'[d] \in records'
    <3>1. PICK q \in Connects : q = cop[d] /\ cop'[d] = q /\ cpc[d] = "start"
      BY <1>1, <1>2, <2>1, OpsFacts DEF CallInv, LocalType
    <3>2. IsOpen(fdOf[q])'
      BY <2>1, <3>1
    <3>3. IsOpen(fdOf[q])
      BY <1>9, <3>2, OpsFacts
    <3> QED BY <1>1, <1>2, <3>1, <3>3 DEF TrackInv
  <2> QED BY <1>1, <1>2, <1>9, <2>1, OpsFacts DEF TrackInv
<1>19. InUseIsLive' /\ AcceptsArmed'
  BY <1>1, <1>2, <1>4, <1>7, <1>10 DEF InUseIsLive, AcceptsArmed
<1>20. QuietAfterFirst'
  BY <1>1, <1>2 DEF QuietAfterFirst
<1> QED BY <1>11, <1>12, <1>13, <1>14, <1>15, <1>16, <1>17, <1>18, <1>19, <1>20 DEF IInv

\* Every reachable state satisfies the invariant.
LEMMA Inductive == Spec => []IInv
<1>1. IInv /\ [Next]_vars => IInv'
  <2> SUFFICES ASSUME IInv, [Next]_vars PROVE IInv'
    OBVIOUS
  <2>1. ASSUME NEW c \in Callers, InternalConnect(c) \/ CallStep(c) PROVE IInv'
    BY <2>1, ConnectStep, RecordStep, ConnectExStep DEF CallStep
  <2>2. ASSUME NEW w \in Workers, WorkStep(w) PROVE IInv'
    BY <2>2, IdleStep, TakeStep, HandlerStep, FinishStep, AcceptExStep, RearmFailsStep DEF WorkStep
  <2>3. ASSUME NEW p \in Owners, ShutdownByApplication(p) \/ ShutdownPort(p) \/ JoinThreads(p) PROVE IInv'
    BY <2>3, StopStep
  <2>9. CASE ConnectorStep \/ ListenerStep
    BY <2>3, <2>9, CloseStep, CopyStep, DeleteStep DEF ConnectorStep, ListenerStep, Owners
  <2>4. CASE StartThreads \/ UNCHANGED sockVars
    BY <2>4, IdleStep
  <2>5. CASE AddListeningPort \/ ArmAccept
    BY <2>5, ListenStep, AcceptExStep
  <2>6. CASE ArmFails \/ \E o \in Ops : Completes(o)
    BY <2>6, KernelStep
  <2>7. ASSUME NEW s \in Handles, EndpointClose(s) PROVE IInv'
    BY <2>7, EndpointStep
  <2>8. SockNext \/ UNCHANGED sockVars
    BY DEF Next, UseSockets, UseConnection, vars
  <2> QED BY <2>1, <2>2, <2>3, <2>4, <2>5, <2>6, <2>7, <2>8, <2>9 DEF SockNext
<1> QED BY <1>1, InitInv, PTL DEF Spec
\* Shutdown leaves only records that came later.
LEMMA LateStep ==
  ASSUME SockTypeOK, LateInv, SockNext \/ UNCHANGED sockVars
  PROVE  LateInv'
<1>1. stop \in [Owners -> {"no", "close", "delete", "undefined", "port", "join", "done"}]
  BY DEF SockTypeOK
<1> DEFINE quiet == /\ records' \subseteq records /\ late' = late
                    /\ stop'["connector"] \in {"no", "close"} <=> stop["connector"] \in {"no", "close"}
<1>2. ASSUME quiet PROVE LateInv'
  BY <1>2 DEF LateInv
<1> USE DEF objVars, userVars, stopVars
<1>3. CASE StartThreads \/ AddListeningPort \/ ArmAccept \/ ArmFails \/ UNCHANGED sockVars
  BY <1>2, <1>3 DEF StartThreads, AddListeningPort, ArmAccept, ArmFails, sockVars
<1>4. ASSUME NEW c \in Callers, InternalConnect(c) \/ StartConnectEx(c) \/ ConnectExFails(c)
      PROVE  LateInv'
  BY <1>2, <1>4 DEF InternalConnect, StartConnectEx, ConnectExFails
<1>5. ASSUME NEW c \in Callers, RecordConnect(c) PROVE LateInv'
  BY <1>5 DEF RecordConnect, LateInv
<1>6. ASSUME NEW o \in Ops, Completes(o) PROVE LateInv'
  BY <1>2, <1>6 DEF Completes
<1>7. ASSUME NEW s \in Handles, EndpointClose(s) PROVE LateInv'
  BY <1>2, <1>7 DEF EndpointClose
<1>8. ASSUME NEW w \in Workers, WorkStep(w) PROVE LateInv'
  <2>1. CASE RearmFails(w)
    <3>1. stop'["connector"] = stop["connector"] /\ UNCHANGED <<records, late>>
      BY <1>1, <2>1 DEF RearmFails, BeginShutdown, Owners
    <3> QED BY <1>2, <3>1
  <2>2. CASE LeaveLoop(w) \/ TakeExit(w) \/ TakeCompletion(w) \/ OnConnect(w) \/ OnAccept(w) \/ Rearm(w)
    BY <1>2, <2>2 DEF LeaveLoop, TakeExit, TakeCompletion, OnConnect, OnAccept, Rearm
  <2>3. CASE FinishConnect(w)
    BY <1>2, <2>3 DEF FinishConnect
  <2> QED BY <1>8, <2>1, <2>2, <2>3 DEF WorkStep
<1>9. CASE ConnectorCloses
  BY <1>9 DEF ConnectorCloses, LateInv
<1>10. ASSUME NEW p \in Owners, ShutdownByApplication(p) \/ ShutdownPort(p) \/ JoinThreads(p)
       PROVE  LateInv'
  BY <1>1, <1>2, <1>10 DEF ShutdownByApplication, BeginShutdown, ShutdownPort, JoinThreads, Owners
<1>11. CASE ListenerCopies \/ DeleteAccept \/ DeleteHead
  BY <1>1, <1>2, <1>11 DEF ListenerCopies, DeleteAccept, DeleteHead, Owners
<1> QED BY <1>3, <1>4, <1>5, <1>6, <1>7, <1>8, <1>9, <1>10, <1>11
        DEF SockNext, CallStep, ConnectorStep, ListenerStep, Owners

\* It does in every reachable state.
LEMMA LateOnly == Spec => []LateInv
<1>1. Init => LateInv
  BY DEF Init, SockInit, LateInv
<1>2. IInv /\ LateInv /\ [Next]_vars => LateInv'
  BY LateStep DEF IInv, Next, UseSockets, UseConnection, vars
<1> QED BY <1>1, <1>2, Inductive, PTL DEF Spec
-----------------------------------------------------------------------------
(* The theorems.                                                            *)

\* Each of the disjuncts of OwnedInv excludes the others.
LEMMA SoleOwner == ASSUME IInv PROVE OneOwnerEach
<1>1. SockTypeOK /\ LocalType /\ HandleInv /\ OwnedInv /\ AloneInv
  BY DEF IInv
<1> SUFFICES ASSUME Up, NEW s \in Handles, IsOpen(s)
             PROVE  Cardinality({o \in Ops : fdOf[o] = s /\ mem[o] = "live"
                                     /\ ~\E w \in Handling(o) : wpc[w] \in {"erase", "rearm"}}
                        \cup ({0} \cap {IF s \in held THEN 0 ELSE 1})
                        \cup ({-1} \cap {IF s = listenFd THEN -1 ELSE 1})) = 1
  BY DEF OneOwnerEach, Up
<1> DEFINE A == {o \in Ops : fdOf[o] = s /\ mem[o] = "live"
                             /\ ~\E w \in Handling(o) : wpc[w] \in {"erase", "rearm"}}
           B == {0} \cap {IF s \in held THEN 0 ELSE 1}
           C == {-1} \cap {IF s = listenFd THEN -1 ELSE 1}
<1>2. \A o \in Ops : o \in A <=> fdOf[o] = s /\ mem[o] = "live" /\ ~Erasing(o)
  BY DEF Handling, Erasing
<1>3. /\ B = (IF s \in held THEN {0} ELSE {})
      /\ C = (IF s = listenFd THEN {-1} ELSE {})
  <2>1. 0 # 1 /\ -1 # 1
    OBVIOUS
  <2>2. \A x, y : x # y => {x} \cap {y} = {}
    OBVIOUS
  <2>3. B = (IF s \in held THEN {0} ELSE {})
    <3>1. CASE s \in held
      BY <3>1
    <3>2. CASE s \notin held
      BY <2>1, <2>2, <3>2
    <3> QED BY <3>1, <3>2
  <2>4. C = (IF s = listenFd THEN {-1} ELSE {})
    <3>1. CASE s = listenFd
      BY <3>1
    <3>2. CASE s # listenFd
      BY <2>1, <2>2, <3>2
    <3> QED BY <3>1, <3>2
  <2> QED BY <2>3, <2>4
<1>4. A \subseteq Ops
  OBVIOUS
<1>5. \A o, q \in A : o = q
  BY <1>1, <1>2, <1>4, OpsFacts DEF HandleInv
<1> HIDE DEF A, B, C
<1>6. \E x : A \cup B \cup C = {x}
  <2>1. CASE s \in held
    <3>1. A = {} /\ s # listenFd
      BY <1>1, <1>2, <1>4, <2>1 DEF AloneInv, HandleInv
    <3>2. A \cup B \cup C = {0}
      BY <1>3, <2>1, <3>1
    <3> QED BY <3>2
  <2>2. CASE s = listenFd
    <3>1. A = {} /\ s \notin held
      BY <1>1, <1>2, <1>4, <2>2, OpsFacts DEF HandleInv
    <3>2. A \cup B \cup C = {-1}
      BY <1>3, <2>2, <3>1
    <3> QED BY <3>2
  <2>3. CASE s \notin held /\ s # listenFd
    <3>1. PICK o \in Ops : o \in A
      BY <1>1, <1>2, <2>3 DEF OwnedInv
    <3>2. A = {o} /\ B = {} /\ C = {}
      BY <1>3, <1>5, <2>3, <3>1
    <3> QED BY <3>2
  <2> QED BY <2>1, <2>2, <2>3
<1>7. Cardinality(A \cup B \cup C) = 1
  BY <1>6, FS_Singleton
<1> QED BY <1>7 DEF A, B, C

\* An operation's memory stays while the kernel or a thread of the port uses it,
\* its socket has one part that closes it, and no accept is lost: tcp_connector.cc,
\* tcp_listener.cc and iocp_thread.cc of Windows, for any number of threads,
\* connects, accepts and sockets.
THEOREM OperationsStaySafe == Spec => []OperationsSafe
<1>1. IInv => OperationsSafe
  BY SoleOwner DEF IInv, OperationsSafe
<1> QED BY <1>1, Inductive, PTL

\* When Shutdown of the connector has returned its sockets are closed, but those that
\* others were using or making meanwhile; after that of the first instance no
\* thread of the port runs: the safety half of PortShutdown.
THEOREM PortShutdownLeaves == Spec => [](ShutdownClosesOwned /\ QuietAfterFirst)
<1>1. IInv /\ LateInv => ShutdownClosesOwned
  BY DEF IInv, TrackInv, LateInv, Handling, ShutdownClosesOwned
<1>2. IInv => QuietAfterFirst
  BY DEF IInv
<1> QED BY <1>1, <1>2, Inductive, LateOnly, PTL
-----------------------------------------------------------------------------
(* A connection.                                                            *)

\* The types that ConnTypeOK leaves out.
PortType ==
    /\ online => shut = "no"
    /\ sendIo \in [state : {"idle", "pending", "ok", "failed"}, data : Slices, moved : Nat]
    /\ tev \in [Threads -> [size : Nat, good : BOOLEAN]]
    /\ apc \in [Apps -> Nat]
    /\ msgs \in Nat /\ sent \in Nat /\ accepted \in Nat
    /\ proto \in BOOLEAN /\ rcvMutex \in BOOLEAN

\* One thread at a time holds _rcv_mtx.
OneReader == \A t, u \in Threads : tpc[t] \in {"read", "parse"} /\ tpc[u] \in {"read", "parse"} => t = u

\* The overlapped send belongs to _send_pending, to the kernel or to one thread.
OneTurn ==
    /\ \A t, u \in SendThreads : t = u
    /\ sendIo.state # "idle" => SendThreads = {}
    /\ sendIo.state # "idle" \/ SendThreads # {} => sendPending
    /\ sendIo.state # "ok" => sendIo.moved = 0
    /\ \A t \in Threads : ~tev[t].good => tev[t].size = 0

\* o bytes are reported: by the kernel, or to the one thread of T.
Way(T, op, ev, o) ==
    \/ T = {} /\ o = op.moved
    \/ \E t \in T : T = {t} /\ o = op.moved + ev[t].size

\* The buffer holds the r bytes after the first d, and the send the first of them.
Fronts(op, b, d, r) ==
    /\ Holds(b, Bytes(d, r))
    /\ op.state # "idle" => \E n \in 0 .. r : op.data = Bytes(d, n) /\ op.moved <= n

\* d bytes have left the buffer, r are in it, and o of those are sent.
Sending ==
    \E d, r, o \in Nat :
        /\ d + r = accepted /\ Len(wire) = d + o /\ o <= r
        /\ Way(SendThreads, sendIo, tev, o)
        /\ Fronts(sendIo, sndBuffer, d, r)

\* The bytes read and not delivered.
Undelivered == IF proto /\ shut # "done" THEN NotDelivered ELSE <<>>

\* A thread cuts packets off only with a handler, and before the buffer is cleared.
Parses == \A t \in Threads : tpc[t] = "parse" => proto /\ shut # "done"

\* Only packets that a thread is about to cut off, or a bad one, are whole in the
\* buffer.
Waits ==
    proto /\ online /\ (\A t \in Threads : tpc[t] \notin {"parse", "shutdown"})
          /\ Len(delivered) < Len(packets)
        => rcvBuffer.length < LengthOf(Len(delivered) + 1)

\* What is delivered is the beginning of the stream, and the buffer holds the rest of
\* what was read.
Receiving ==
    /\ Stream /\ sent <= Total
    /\ InOrder
    /\ Holds(rcvBuffer, Undelivered)
    /\ Parses
    /\ Waits

ConnInv ==
    /\ ConnTypeOK /\ PortType /\ OneReader
    /\ wire = Bytes(0, Len(wire)) /\ Len(wire) \in Nat
    /\ online => OneTurn /\ Sending
    /\ Receiving
    /\ ReceiveOutstanding

\* The smaller of two numbers.
LEMMA MinOfTwo ==
  ASSUME NEW a \in Nat, NEW b \in Nat
  PROVE  Min({a, b}) \in {a, b} /\ Min({a, b}) <= a /\ Min({a, b}) <= b
<1>1. \E x \in {a, b} : \A y \in {a, b} : x <= y
  OBVIOUS
<1> QED BY <1>1 DEF Min

\* The first slices of a buffer are its first bytes.
LEMMA FirstSlicesTake ==
  ASSUME NEW b, NEW s, Holds(b, s)
  PROVE  \E m \in Nat : m <= Len(s) /\ FirstSlices(b) = Take(s, m)
<1>1. PICK vs : vs = b.vs /\ vs \in Seq(Slices) /\ FlattenSeq(vs) = s
  BY DEF Holds
<1>2. PICK n \in Nat : n = Len(vs)
  BY <1>1
<1> DEFINE bytes(k) == FlattenSeq(SubSeq(vs, 1, k))
           fits == {k \in 0 .. n : k <= MaxBufs /\ Len(bytes(k)) <= MaxPackage}
<1>3. FirstSlices(b) = bytes(Max(fits))
  BY <1>1, <1>2 DEF FirstSlices
<1>4. 0 \in fits
  <2>1. SubSeq(vs, 1, 0) = <<>>
    BY <1>1
  <2>2. FlattenSeq(<<>>) = <<>> /\ Len(<<>>) = 0
    BY DEF FlattenSeq
  <2>3. bytes(0) = <<>>
    BY <2>1, <2>2, Zenon
  <2>4. Len(bytes(0)) = 0
    BY <2>2, <2>3, Zenon
  <2>5. MaxBufs \in Nat /\ MaxPackage \in Nat
    BY BufferSizesAssumption
  <2> QED BY <2>4, <2>5
<1>5. fits \in SUBSET (0 .. n)
  OBVIOUS
<1> HIDE DEF fits
<1>6. \E k \in fits : \A j \in fits : k >= j
  BY <1>4, <1>5, LargestNat
<1>7. Max(fits) \in fits
  BY <1>6 DEF Max
<1>8. PICK k \in 0 .. Len(vs) : k = Max(fits)
  BY <1>2, <1>5, <1>7
<1>9. PICK m \in Nat : m <= Len(FlattenSeq(vs)) /\ FlattenSeq(SubSeq(vs, 1, k)) = Take(FlattenSeq(vs), m)
  BY <1>1, FlattenFront
<1> QED BY <1>1, <1>3, <1>8, <1>9

\* Of the bytes of the stream, the first slices are the first ones.
LEMMA FirstSlicesBytes ==
  ASSUME NEW b, NEW d \in Nat, NEW r \in Nat, Holds(b, Bytes(d, r))
  PROVE  \E n \in 0 .. r : FirstSlices(b) = Bytes(d, n)
<1>1. Len(Bytes(d, r)) = r
  BY BytesFacts DEF Numbers
<1>2. PICK m \in Nat : m <= Len(Bytes(d, r)) /\ FirstSlices(b) = Take(Bytes(d, r), m)
  BY FirstSlicesTake
<1>3. m <= r
  BY <1>1, <1>2
<1>4. Take(Bytes(d, r), m) = Bytes(d, m)
  BY <1>3, BytesCut
<1>5. m \in 0 .. r
  BY <1>3
<1> QED BY <1>2, <1>4, <1>5

\* The bytes on the way, as OnTheWay counts them.
LEMMA WayIs ==
  ASSUME NEW o, Way(SendThreads, sendIo, tev, o), sendIo.moved \in Nat
  PROVE  OnTheWay = o
<1>1. CASE SendThreads = {}
  BY <1>1 DEF Way, OnTheWay
<1>2. ASSUME NEW t, SendThreads = {t} PROVE OnTheWay = o
  <2>1. (CHOOSE u \in SendThreads : TRUE) = t
    BY <1>2
  <2>2. SendThreads # {}
    BY <1>2
  <2>3. o = sendIo.moved + tev[t].size
    BY <1>2 DEF Way
  <2> QED BY <2>1, <2>2, <2>3 DEF OnTheWay
<1> QED BY <1>1, <1>2 DEF Way

\* The first of the bytes are a prefix of them.
LEMMA BytesPrefix ==
  ASSUME NEW d \in Nat, NEW r \in Nat, NEW n \in 0 .. r
  PROVE  IsPrefix(Bytes(d, n), Bytes(d, r))
<1>1. PICK s, u : s = Bytes(d, n) /\ u = Bytes(d, r)
  OBVIOUS
<1>2. s \in Slices /\ Len(s) = n /\ Len(u) = r /\ n \in Nat
  BY <1>1, BytesFacts DEF Numbers
<1>3. Take(u, n) = s
  BY <1>1, <1>2, BytesCut
<1>4. Take(s, n) = s
  BY <1>2, TakeEnds
<1>5. SubSeq(s, 1, Len(s)) = SubSeq(u, 1, Len(s))
  BY <1>2, <1>3, <1>4 DEF Take
<1> QED BY <1>1, <1>2, <1>5 DEF IsPrefix

\* The invariant says what SendsExact does.
LEMMA SendsFollow == ASSUME ConnInv PROVE SendsExact
<1>1. ConnTypeOK /\ PortType /\ wire = Bytes(0, Len(wire)) /\ Len(wire) \in Nat
  BY DEF ConnInv
<1>2. ASSUME online
      PROVE  /\ wire \o DropFront(Merge(sndBuffer), OnTheWay) = Bytes(0, accepted)
             /\ sendIo.state # "idle" => sendPending /\ IsPrefix(sendIo.data, Merge(sndBuffer))
             /\ Cardinality(SendThreads \cup {0 : x \in {sendIo.state} \ {"idle"}}) <= 1
  <2>1. PICK d, r, o \in Nat :
          /\ d + r = accepted /\ Len(wire) = d + o /\ o <= r
          /\ Way(SendThreads, sendIo, tev, o)
          /\ Fronts(sendIo, sndBuffer, d, r)
    BY <1>2 DEF ConnInv, Sending
  <2>2. OneTurn
    BY <1>2 DEF ConnInv
  <2>3. OnTheWay = o
    <3>1. sendIo.moved \in Nat
      BY <1>1 DEF PortType
    <3> QED BY <2>1, <3>1, WayIs
  <2>4. Merge(sndBuffer) = Bytes(d, r)
    BY <2>1, HoldsFacts DEF Fronts
  <2>5. wire \o DropFront(Merge(sndBuffer), OnTheWay) = Bytes(0, accepted)
    <3>1. PICK q \in Nat : q = r - o /\ (d + o) + q = d + r
      <4>1. r - o \in Nat /\ (d + o) + (r - o) = d + r
        BY <2>1
      <4> QED BY <4>1
    <3>2. Drop(Bytes(d, r), o) = Bytes(d + o, q)
      BY <2>1, <3>1, BytesCut
    <3>3. Cat(Bytes(0, d + o), Bytes(0 + (d + o), q)) = Bytes(0, (d + o) + q) /\ 0 + (d + o) = d + o
      <4>1. PICK e \in Nat : e = d + o /\ 0 + e = e
        <5>1. d + o \in Nat /\ 0 + (d + o) = d + o
          OBVIOUS
        <5> QED BY <5>1
      <4>2. Cat(Bytes(0, e), Bytes(0 + e, q)) = Bytes(0, e + q)
        BY BytesCat
      <4> QED BY <4>1, <4>2
    <3>4. wire = Bytes(0, d + o)
      BY <1>1, <2>1
    <3>5. DropFront(Merge(sndBuffer), OnTheWay) = Bytes(d + o, q)
      BY <2>3, <2>4, <3>2 DEF DropFront, Drop
    <3>6. Bytes(0, (d + o) + q) = Bytes(0, accepted)
      BY <2>1, <3>1
    <3> QED BY <3>3, <3>4, <3>5, <3>6 DEF Cat
  <2>6. ASSUME sendIo.state # "idle"
        PROVE  sendPending /\ IsPrefix(sendIo.data, Merge(sndBuffer))
    <3>1. PICK n \in 0 .. r : sendIo.data = Bytes(d, n)
      BY <2>1, <2>6 DEF Fronts
    <3>2. IsPrefix(Bytes(d, n), Bytes(d, r))
      BY BytesPrefix
    <3> QED BY <2>2, <2>4, <2>6, <3>1, <3>2 DEF OneTurn
  <2>7. Cardinality(SendThreads \cup {0 : x \in {sendIo.state} \ {"idle"}}) <= 1
    <3>0. Cardinality({}) = 0 /\ \A t : Cardinality({t}) = 1
      BY FS_EmptySet, FS_Singleton
    <3>1. CASE sendIo.state = "idle"
      <4>1. SendThreads \cup {0 : x \in {sendIo.state} \ {"idle"}} = SendThreads
        BY <3>1
      <4>2. ASSUME NEW t \in SendThreads PROVE SendThreads = {t}
        BY <2>2 DEF OneTurn
      <4>3. Cardinality(SendThreads) = 0 \/ Cardinality(SendThreads) = 1
        BY <3>0, <4>2
      <4> QED BY <4>1, <4>3
    <3>2. CASE sendIo.state # "idle"
      <4>1. SendThreads \cup {0 : x \in {sendIo.state} \ {"idle"}} = {0}
        BY <2>2, <3>2 DEF OneTurn
      <4>2. Cardinality({0}) = 1
        BY <3>0
      <4> QED BY <4>1, <4>2
    <3> QED BY <3>1, <3>2
  <2> QED BY <2>5, <2>6, <2>7
<1>3. SendsInOrder
  BY <1>1, <1>2 DEF SendsInOrder
<1>4. OneSendAtATime
  BY <1>2 DEF OneSendAtATime
<1> QED BY <1>1, <1>3, <1>4 DEF SendsExact

\* The invariant says what ReceivesExact does.
LEMMA ReceivesFollow == ASSUME ConnInv PROVE ReceivesExact
<1>1. /\ ConnTypeOK /\ Stream /\ InOrder /\ Holds(rcvBuffer, Undelivered) /\ Waits
      /\ ReceiveOutstanding
  BY DEF ConnInv, Receiving
<1>2. PacketsIntact
  BY <1>1 DEF InOrder, PacketsIntact, Got
<1>3. ASSUME shut # "done" PROVE FlattenSeq(delivered) \o Merge(rcvBuffer) = Bytes(0, taken)
  <2>1. PICK g, r \in Nat : g = Got /\ g + r = taken /\ r = taken - g /\ FlattenSeq(delivered) = Bytes(0, g)
    <3>1. /\ Got \in Nat /\ taken \in Nat /\ Got <= taken /\ FlattenSeq(delivered) = Bytes(0, Got)
      BY <1>1 DEF InOrder
    <3>2. taken - Got \in Nat /\ Got + (taken - Got) = taken
      BY <3>1
    <3> QED BY <3>1, <3>2
  <2>2. Merge(rcvBuffer) = Bytes(g, r)
    <3>1. CASE proto
      BY <1>1, <1>3, <2>1, <3>1, HoldsFacts DEF Undelivered, NotDelivered
    <3>2. CASE ~proto
      <4>1. r = 0
        BY <1>1, <2>1, <3>2 DEF InOrder
      <4>2. Bytes(g, 0) \in Slices /\ Len(Bytes(g, 0)) = 0
        BY BytesFacts DEF Numbers
      <4>3. Bytes(g, 0) = <<>>
        BY <4>2, SliceFacts
      <4> QED BY <1>1, <3>2, <4>1, <4>3, HoldsFacts DEF Undelivered
    <3> QED BY <3>1, <3>2
  <2>3. Cat(Bytes(0, g), Bytes(0 + g, r)) = Bytes(0, g + r) /\ 0 + g = g
    BY BytesCat
  <2> QED BY <2>1, <2>2, <2>3 DEF Cat
<1>4. ASSUME ~rcvMutex PROVE \A t \in Threads : tpc[t] # "parse"
  BY <1>1, <1>4 DEF ConnTypeOK
<1>5. RestInBuffer
  BY <1>1, <1>3, <1>4 DEF RestInBuffer, Waits
<1> QED BY <1>1, <1>2, <1>5 DEF ReceivesExact

\* No bytes, in a buffer and on the wire.
LEMMA NoBytes == Bytes(0, 0) = <<>> /\ Len(<<>>) = 0 /\ Holds(EmptyBuffer, Bytes(0, 0)) /\ First(<<>>, 0)
<1>1. Bytes(0, 0) = <<>> /\ Len(<<>>) = 0
  <2>1. Bytes(0, 0) \in Slices /\ Len(Bytes(0, 0)) = 0
    BY BytesFacts DEF Numbers
  <2> QED BY <2>1, SliceFacts
<1>2. FlattenSeq(<<>>) = <<>> /\ <<>> \in Seq(Slices)
  BY DEF FlattenSeq
<1>3. Holds(EmptyBuffer, Bytes(0, 0))
  BY <1>1, HoldsEmpty
<1>4. First(<<>>, 0)
  BY <1>1, <1>2, Zenon DEF First
<1> QED BY <1>1, <1>3, <1>4

\* At first nothing is sent or received, and the first receive is outstanding.
LEMMA ConnInitInv == ASSUME ConnInit PROVE ConnInv
<1>1. \A t \in Threads : tpc[t] = "poll" /\ tev[t] = NoEvent
  BY DEF ConnInit
<1>2. SendThreads = {}
  BY <1>1 DEF SendThreads
<1>3. sendIo = NoIo /\ NoIo.state = "idle" /\ NoIo.moved = 0 /\ NoIo.data = <<>>
  BY DEF ConnInit, NoIo
<1>4. ConnTypeOK
  <2>1. taken \in 0 .. sent /\ msgs \in 0 .. MaxTraffic
    BY BufferSizesAssumption DEF ConnInit
  <2>2. tpc \in [Threads -> {"poll", "send", "recv", "read", "parse", "shutdown"}]
    BY DEF ConnInit
  <2>3. rcvMutex = FALSE /\ ~\E t \in Threads : tpc[t] \in {"read", "parse"}
    BY <1>1 DEF ConnInit
  <2> QED BY <1>3, <2>1, <2>2, <2>3 DEF ConnInit, ConnTypeOK
<1>5. PortType
  <2>1. NoIo \in [state : {"idle", "pending", "ok", "failed"}, data : Slices, moved : Nat]
    BY SliceFacts DEF NoIo
  <2>2. NoEvent \in [size : Nat, good : BOOLEAN]
    BY DEF NoEvent
  <2> QED BY <2>1, <2>2 DEF ConnInit, PortType
<1>6. OneReader
  BY <1>1 DEF OneReader
<1>7. wire = Bytes(0, Len(wire)) /\ Len(wire) = 0
  BY NoBytes DEF ConnInit
<1>8. OneTurn
  BY <1>1, <1>2, <1>3 DEF OneTurn, NoEvent
<1>9. Sending
  <2>1. Way(SendThreads, sendIo, tev, 0)
    BY <1>2, <1>3 DEF Way
  <2>2. Fronts(sendIo, sndBuffer, 0, 0)
    BY <1>3, NoBytes DEF Fronts, ConnInit
  <2>3. accepted = 0
    BY DEF ConnInit
  <2> QED BY <1>7, <2>1, <2>2, <2>3 DEF Sending
<1>10. Receiving
  <2>1. PICK n \in 0 .. MaxPackets : packets \in [1 .. n -> PacketLengths]
    BY DEF ConnInit
  <2>2. Stream
    BY <2>1, FramingAssumption DEF Stream
  <2>3. /\ InOrder /\ NotDelivered = <<>> /\ Total \in Nat
        /\ Len(delivered) < Len(packets) => 0 < LengthOf(Len(delivered) + 1)
    BY <2>2, NoneDelivered DEF ConnInit
  <2>4. sent <= Total
    BY <2>3 DEF ConnInit
  <2>5. Holds(rcvBuffer, Undelivered)
    BY <2>3, HoldsEmpty DEF ConnInit, Undelivered
  <2>6. Parses
    BY <1>1 DEF Parses
  <2>7. Waits
    <3>1. rcvBuffer.length = 0
      BY DEF ConnInit, EmptyBuffer
    <3> QED BY <2>3, <3>1 DEF Waits
  <2> QED BY <2>2, <2>3, <2>4, <2>5, <2>6, <2>7 DEF Receiving
<1>11. ReceiveOutstanding
  BY DEF ReceiveOutstanding, ConnInit
<1> QED BY <1>4, <1>5, <1>6, <1>7, <1>8, <1>9, <1>10, <1>11 DEF ConnInv

\* What the sending side is.
SendPart == /\ wire = Bytes(0, Len(wire)) /\ Len(wire) \in Nat
            /\ online => OneTurn /\ Sending

\* A step that leaves the sending side alone.
LEMMA SendQuiet ==
  ASSUME SendPart, UNCHANGED <<sndBuffer, sendIo, accepted, wire>>,
         online' => online /\ UNCHANGED sendPending,
         SendThreads' = SendThreads, \A t \in SendThreads : tev'[t] = tev[t],
         \A t \in Threads : ~tev'[t].good => tev'[t].size = 0
  PROVE  SendPart'
<1>1. wire' = Bytes(0, Len(wire')) /\ Len(wire') \in Nat
  BY DEF SendPart
<1>2. ASSUME online' PROVE OneTurn' /\ Sending'
  <2>1. OneTurn'
    BY <1>2 DEF SendPart, OneTurn
  <2>2. PICK d, r, o \in Nat :
          /\ d + r = accepted /\ Len(wire) = d + o /\ o <= r
          /\ Way(SendThreads, sendIo, tev, o)
          /\ Fronts(sendIo, sndBuffer, d, r)
    BY <1>2 DEF SendPart, Sending
  <2>3. Way(SendThreads', sendIo', tev', o)
    BY <2>2 DEF Way
  <2>4. Fronts(sendIo', sndBuffer', d, r)
    BY <2>2
  <2>5. Sending'
    BY <2>2, <2>3, <2>4 DEF Sending
  <2> QED BY <2>1, <2>5
<1> QED BY <1>1, <1>2 DEF SendPart

\* A step that leaves the receiving side alone.
LEMMA RecvQuiet ==
  ASSUME Receiving, UNCHANGED <<packets, proto, taken, rcvBuffer, delivered>>,
         sent' = sent \/ sent' <= Total, online' => online, shut' = "done" <=> shut = "done",
         \A t \in Threads : tpc'[t] = "parse" => tpc[t] = "parse",
         \A t \in Threads : online' /\ tpc[t] \in {"parse", "shutdown"} => tpc'[t] \in {"parse", "shutdown"}
  PROVE  Receiving'
<1>1. Stream /\ sent <= Total /\ InOrder /\ Holds(rcvBuffer, Undelivered) /\ Parses /\ Waits
  BY DEF Receiving
<1>2. UNCHANGED stream
  BY DEF stream
<1>3. /\ Stream' /\ Total' = Total /\ packets' = packets /\ proto' = proto
      /\ \A p : LengthOf(p)' = LengthOf(p)
  BY <1>1, <1>2, StreamKept
<1>4. InOrder' /\ NotDelivered' = NotDelivered
  BY <1>1, <1>2, DeliveredKept
<1>5. Undelivered' = Undelivered
  BY <1>3, <1>4 DEF Undelivered
<1>6. Parses'
  BY <1>1, <1>3 DEF Parses
<1>7. Waits'
  BY <1>1, <1>3 DEF Waits
<1> QED BY <1>1, <1>3, <1>4, <1>5, <1>6, <1>7 DEF Receiving

\* The stream has a length.
LEMMA TotalIsNat == ASSUME Stream PROVE Total \in Nat
<1>1. Len(packets) \in 0 .. Len(packets)
  BY EndsFacts
<1> QED BY <1>1, EndsGrow DEF Total

\* The steps of one thread: it alone is elsewhere afterwards.
LEMMA StepOf ==
  ASSUME NEW t \in Threads, NEW label, Step(t, label), ConnTypeOK
  PROVE  /\ tpc' \in [Threads -> {tpc[u] : u \in Threads} \cup {label}]
         /\ \A u \in Threads : tpc'[u] = IF u = t THEN label ELSE tpc[u]
         /\ SendThreads' = IF label = "send" THEN SendThreads \cup {t} ELSE SendThreads \ {t}
<1>1. tpc' = [tpc EXCEPT ![t] = label] /\ tpc \in [Threads -> {"poll", "send", "recv", "read", "parse", "shutdown"}]
  BY DEF Step, ConnTypeOK
<1>2. /\ tpc' \in [Threads -> {tpc[u] : u \in Threads} \cup {label}]
      /\ \A u \in Threads : tpc'[u] = IF u = t THEN label ELSE tpc[u]
  BY <1>1
<1> QED BY <1>2 DEF SendThreads

\* The parts of the invariant.
LEMMA PartsOf == ConnInv <=> /\ ConnTypeOK /\ PortType /\ OneReader
                             /\ SendPart /\ Receiving /\ ReceiveOutstanding
  BY DEF ConnInv, SendPart

\* Before the lock of SendMsg, nothing of the connection changes.
LEMMA SendMsgStep ==
  ASSUME ConnInv, NEW a \in Apps, SendMsg(a)
  PROVE  ConnInv'
<1> USE DEF SendMsg, connVars, sendVars, peerVars, recvVars, stream
<1>1. ConnTypeOK /\ PortType /\ OneReader /\ SendPart /\ Receiving /\ ReceiveOutstanding
  BY PartsOf
<1>2. /\ msgs \in Nat /\ Total \in Nat /\ MaxTraffic \in Nat /\ msgs + Total < MaxTraffic
      /\ msgs' = msgs + 1 /\ sent' = sent
  <2>1. Stream
    BY <1>1 DEF Receiving
  <2> QED BY <1>1, <2>1, TotalIsNat, BufferSizesAssumption DEF PortType
<1>3. msgs' \in Nat /\ msgs' \in 0 .. MaxTraffic
  BY <1>2
<1>4. ConnTypeOK'
  BY <1>1, <1>3 DEF ConnTypeOK
<1>5. apc' \in [Apps -> Nat]
  BY <1>1, BufferSizesAssumption DEF PortType
<1>6. PortType'
  BY <1>1, <1>3, <1>5 DEF PortType
<1>7. OneReader'
  BY <1>1 DEF OneReader
<1>8. SendPart'
  BY <1>1 DEF SendPart, OneTurn, Sending, SendThreads
<1>9. Receiving'
  BY <1>1, RecvQuiet
<1>10. ReceiveOutstanding'
  BY <1>1 DEF ReceiveOutstanding
<1> QED BY <1>4, <1>6, <1>7, <1>8, <1>9, <1>10, PartsOf DEF ConnInv, SendPart

\* The peer writes or closes, or the receive completes.
LEMMA PeerStep ==
  ASSUME ConnInv, PeerSends \/ PeerCloses \/ RecvCompletes
  PROVE  ConnInv'
<1>1. ConnTypeOK /\ PortType /\ OneReader /\ SendPart /\ Receiving /\ ReceiveOutstanding
  BY PartsOf
<1>2. UNCHANGED <<connVars, sendVars, appVars, stream, taken, rcvMutex, rcvBuffer, delivered, unarmed,
                  stalled, unmatched, tpc, tev>>
  BY DEF PeerSends, PeerCloses, RecvCompletes, recvVars
<1> USE <1>2 DEF connVars, sendVars, appVars, stream
<1>3. /\ sent' \in Nat /\ taken' \in 0 .. sent' /\ msgs' \in 0 .. MaxTraffic
      /\ sent' = sent \/ sent' <= Total
  <2>1. /\ sent \in Nat /\ Total \in Nat /\ sent <= Total
        /\ taken \in 0 .. sent /\ msgs \in 0 .. MaxTraffic
    BY <1>1, TotalIsNat DEF PortType, ConnTypeOK, Receiving
  <2>2. sent' = sent \/ \E n \in 1 .. Total - sent : sent' = sent + n
    BY DEF PeerSends, PeerCloses, RecvCompletes, peerVars
  <2>3. taken' = taken /\ msgs' = msgs
    OBVIOUS
  <2> QED BY <2>1, <2>2, <2>3
<1>4. recvIo' \in {"idle", "pending", "ok", "failed"} /\ (recvIo' = "idle" => recvIo = "idle")
  BY <1>1 DEF PeerSends, PeerCloses, RecvCompletes, recvVars, ConnTypeOK
<1>5. ConnTypeOK'
  BY <1>1, <1>3, <1>4 DEF ConnTypeOK
<1>6. PortType'
  BY <1>1, <1>3 DEF PortType
<1>7. OneReader'
  BY <1>1 DEF OneReader
<1>8. SendPart'
  BY <1>1 DEF SendPart, OneTurn, Sending, SendThreads
<1>9. Receiving'
  BY <1>1, <1>3, RecvQuiet
<1>10. ReceiveOutstanding'
  BY <1>1, <1>4 DEF ReceiveOutstanding
<1> QED BY <1>5, <1>6, <1>7, <1>8, <1>9, <1>10 DEF ConnInv, SendPart

\* Shutdown: the connection is not online after it, and once the buffers are clear
\* nothing is left of what was read.
LEMMA ConnShutdownStep ==
  ASSUME ConnInv, CloseEndpoint \/ ClearBuffers \/ \E t \in Threads : ShutdownOnError(t)
  PROVE  ConnInv'
<1>1. ConnTypeOK /\ PortType /\ OneReader /\ SendPart /\ Receiving /\ ReceiveOutstanding
  BY PartsOf
<1> DEFINE same == UNCHANGED <<sendIo, accepted, wire, appVars, peerVars, stream, taken, recvIo, rcvMutex,
                               delivered, unarmed, stalled, unmatched, tev>>
           closed == ~online' /\ online' \in BOOLEAN /\ sendPending' \in BOOLEAN
<1>0. online \in BOOLEAN /\ sendPending \in BOOLEAN /\ (online => shut = "no")
  BY <1>1 DEF ConnTypeOK, PortType
<1>a. ASSUME CloseConnection PROVE closed /\ shut # "done" /\ shut' # "done"
  BY <1>0, <1>a, Zenon DEF CloseConnection
<1>2. ASSUME CloseEndpoint
      PROVE  same /\ closed /\ UNCHANGED <<rcvBuffer, tpc>> /\ (shut' = "done" <=> shut = "done")
  <2>1. same /\ UNCHANGED <<rcvBuffer, tpc>>
    BY <1>2, Zenon DEF CloseEndpoint, recvVars
  <2>2. CloseConnection
    BY <1>2 DEF CloseEndpoint
  <2> QED BY <1>a, <2>1, <2>2
<1>3. ASSUME ClearBuffers
      PROVE  /\ same /\ closed /\ UNCHANGED tpc /\ rcvBuffer' = EmptyBuffer /\ shut' = "done"
             /\ ~rcvMutex
  <2>1. same /\ UNCHANGED tpc
    BY <1>3, Zenon DEF ClearBuffers
  <2>2. UNCHANGED <<online, sendPending>> /\ shut = "clear"
    BY <1>3, Zenon DEF ClearBuffers
  <2>3. rcvBuffer' = EmptyBuffer /\ shut' = "done" /\ ~rcvMutex
    BY <1>3 DEF ClearBuffers
  <2> QED BY <1>0, <2>1, <2>2, <2>3
<1>4. ASSUME NEW t \in Threads, ShutdownOnError(t)
      PROVE  /\ same /\ closed /\ UNCHANGED rcvBuffer /\ (shut' = "done" <=> shut = "done")
             /\ tpc[t] = "shutdown" /\ Step(t, "poll")
  <2>1. same /\ UNCHANGED rcvBuffer
    BY <1>4, Zenon DEF ShutdownOnError, recvVars
  <2>2. CloseConnection \/ (~online /\ UNCHANGED <<online, sendPending, shut>>)
    BY <1>4, Zenon DEF ShutdownOnError
  <2>3. closed /\ (shut' = "done" <=> shut = "done")
    <3>1. CASE CloseConnection
      BY <1>a, <3>1
    <3>2. CASE ~online /\ UNCHANGED <<online, sendPending, shut>>
      <4>1. online' = online /\ sendPending' = sendPending /\ ~online /\ shut' = shut
        BY <3>2, Zenon
      <4> QED BY <1>0, <4>1, Zenon
    <3> QED BY <2>2, <3>1, <3>2
  <2>4. tpc[t] = "shutdown" /\ Step(t, "poll")
    BY <1>4 DEF ShutdownOnError
  <2> QED BY <2>1, <2>3, <2>4
<1>5. /\ tpc' \in [Threads -> {"poll", "send", "recv", "read", "parse", "shutdown"}]
      /\ \A t \in Threads : tpc'[t] \in {"read", "parse"} <=> tpc[t] \in {"read", "parse"}
      /\ \A t \in Threads : tpc'[t] = "parse" => tpc[t] = "parse"
  <2>1. CASE UNCHANGED tpc
    BY <1>1, <2>1 DEF ConnTypeOK
  <2>2. ASSUME NEW t \in Threads, ShutdownOnError(t)
        PROVE  /\ tpc' \in [Threads -> {"poll", "send", "recv", "read", "parse", "shutdown"}]
               /\ \A u \in Threads : tpc'[u] \in {"read", "parse"} <=> tpc[u] \in {"read", "parse"}
               /\ \A u \in Threads : tpc'[u] = "parse" => tpc[u] = "parse"
    <3>1. tpc[t] = "shutdown" /\ Step(t, "poll")
      BY <1>4, <2>2
    <3> QED BY <1>1, <3>1 DEF ConnTypeOK, Step
  <2> QED BY <1>2, <1>3, <2>1, <2>2
<1>6. same /\ closed
  BY <1>2, <1>3, <1>4
<1>7. ConnTypeOK'
  BY <1>1, <1>5, <1>6 DEF ConnTypeOK, appVars, peerVars
<1>8. PortType'
  BY <1>1, <1>6 DEF PortType, appVars, peerVars, stream
<1>9. OneReader'
  BY <1>1, <1>5 DEF OneReader
<1>10. SendPart'
  BY <1>1, <1>6 DEF SendPart
<1>11. Receiving'
  <2>1. CASE UNCHANGED rcvBuffer /\ (shut' = "done" <=> shut = "done")
    BY <1>1, <1>5, <1>6, <2>1, RecvQuiet DEF peerVars, stream
  <2>2. CASE ClearBuffers
    <3>1. rcvBuffer' = EmptyBuffer /\ shut' = "done" /\ ~rcvMutex /\ UNCHANGED tpc
      BY <1>3, <2>2
    <3>2. Stream /\ sent <= Total /\ InOrder
      BY <1>1 DEF Receiving
    <3>3. Stream' /\ Total' = Total /\ InOrder' /\ sent' = sent
      BY <1>6, <3>2, StreamKept, DeliveredKept DEF peerVars
    <3>4. Holds(rcvBuffer', Undelivered')
      BY <3>1, HoldsEmpty DEF Undelivered
    <3>5. Parses'
      BY <1>1, <3>1 DEF Parses, ConnTypeOK
    <3>6. Waits'
      BY <1>6 DEF Waits
    <3> QED BY <3>2, <3>3, <3>4, <3>5, <3>6 DEF Receiving
  <2> QED BY <1>2, <1>4, <2>1, <2>2
<1>12. ReceiveOutstanding'
  BY <1>6 DEF ReceiveOutstanding
<1> QED BY <1>7, <1>8, <1>9, <1>10, <1>11, <1>12 DEF ConnInv, SendPart

\* A thread takes the completion of the receive, or takes _rcv_mtx.
LEMMA RecvEventStep ==
  ASSUME ConnInv, NEW t \in Threads, TakeRecv(t) \/ OnRecvEvent(t)
  PROVE  ConnInv'
<1>1. ConnTypeOK /\ PortType /\ OneReader /\ SendPart /\ Receiving /\ ReceiveOutstanding
  BY PartsOf
<1>2. UNCHANGED <<connVars, sendVars, appVars, peerVars, stream, taken, rcvBuffer, delivered, unarmed,
                  stalled, unmatched>>
  BY DEF TakeRecv, OnRecvEvent
<1> USE <1>2 DEF connVars, sendVars, appVars, peerVars, stream
<1>3. PICK label \in {"recv", "poll", "read"} :
        /\ Step(t, label) /\ (online => label # "poll")
        /\ (label = "read" <=> OnRecvEvent(t)) /\ tpc[t] \in {"poll", "recv"}
  BY DEF TakeRecv, OnRecvEvent
<1>4. /\ \A u \in Threads : tpc'[u] = IF u = t THEN label ELSE tpc[u]
      /\ SendThreads' = SendThreads \ {t}
  BY <1>1, <1>3, StepOf
<1>5. t \notin SendThreads
  BY <1>3 DEF SendThreads
<1>6. PICK e \in [size : Nat, good : BOOLEAN] : tev' = [tev EXCEPT ![t] = e] /\ e.size = 0
  <2>1. NoEvent \in [size : Nat, good : BOOLEAN] /\ NoEvent.size = 0
    BY DEF NoEvent
  <2>2. [size |-> 0, good |-> recvIo = "ok"] \in [size : Nat, good : BOOLEAN]
    OBVIOUS
  <2> QED BY <2>1, <2>2 DEF TakeRecv, OnRecvEvent
<1>7. /\ tev' \in [Threads -> [size : Nat, good : BOOLEAN]]
      /\ \A u \in Threads : tev'[u] = IF u = t THEN e ELSE tev[u]
  BY <1>1, <1>6 DEF PortType
<1>8. recvIo' \in {"idle", "pending", "ok", "failed"} /\ rcvMutex' \in BOOLEAN
  BY <1>1 DEF TakeRecv, OnRecvEvent, ConnTypeOK, PortType
<1>9. tpc' \in [Threads -> {"poll", "send", "recv", "read", "parse", "shutdown"}]
  BY <1>1, <1>3 DEF ConnTypeOK, Step
<1>10. rcvMutex' <=> \E u \in Threads : tpc'[u] \in {"read", "parse"}
  <2>1. CASE TakeRecv(t)
    <3>1. label # "read"
      BY <1>3, <2>1 DEF TakeRecv, OnRecvEvent
    <3> QED BY <1>1, <1>3, <1>4, <2>1, <3>1 DEF TakeRecv, ConnTypeOK
  <2>2. CASE OnRecvEvent(t)
    BY <1>3, <1>4, <2>2 DEF OnRecvEvent
  <2> QED BY <2>1, <2>2
<1>11. ConnTypeOK'
  BY <1>1, <1>8, <1>9, <1>10 DEF ConnTypeOK
<1>12. PortType'
  BY <1>1, <1>7, <1>8 DEF PortType
<1>13. OneReader'
  <2>1. CASE label = "read"
    <3>1. ~rcvMutex
      BY <1>3, <2>1 DEF OnRecvEvent
    <3> QED BY <1>1, <1>4, <3>1 DEF OneReader, ConnTypeOK
  <2>2. CASE label # "read"
    BY <1>1, <1>4, <2>2 DEF OneReader
  <2> QED BY <2>1, <2>2
<1>14. SendPart'
  <2>1. CASE online
    <3>1. SendThreads' = SendThreads /\ \A u \in SendThreads : tev'[u] = tev[u]
      BY <1>4, <1>5, <1>7 DEF SendThreads
    <3>2. \A u \in Threads : ~tev'[u].good => tev'[u].size = 0
      BY <1>1, <1>6, <1>7, <2>1 DEF SendPart, OneTurn
    <3> QED BY <1>1, <3>1, <3>2, SendQuiet
  <2>2. CASE ~online
    BY <1>1, <2>2 DEF SendPart
  <2> QED BY <2>1, <2>2
<1>15. Receiving'
  BY <1>1, <1>3, <1>4, RecvQuiet
<1>16. ReceiveOutstanding'
  BY <1>3, <1>4 DEF ReceiveOutstanding
<1> QED BY <1>11, <1>12, <1>13, <1>14, <1>15, <1>16 DEF ConnInv, SendPart

\* A thread takes the completion of the send: the bytes on the way are its own.
LEMMA TakeSendStep ==
  ASSUME ConnInv, NEW t \in Threads, TakeSend(t)
  PROVE  ConnInv'
<1>1. ConnTypeOK /\ PortType /\ OneReader /\ SendPart /\ Receiving /\ ReceiveOutstanding
  BY PartsOf
<1>2. /\ UNCHANGED <<connVars, sndBuffer, sendPending, accepted, wire, appVars, peerVars, recvVars,
                     unmatched>>
      /\ sendIo' = NoIo /\ tpc[t] = "poll" /\ sendIo.state \in {"ok", "failed"}
  BY DEF TakeSend
<1> USE <1>2 DEF connVars, appVars, peerVars, recvVars, stream
<1>3. PICK label \in {"send", "poll"} : Step(t, label) /\ (online => label = "send")
  BY DEF TakeSend
<1>4. /\ \A u \in Threads : tpc'[u] = IF u = t THEN label ELSE tpc[u]
      /\ SendThreads' = IF label = "send" THEN SendThreads \cup {t} ELSE SendThreads \ {t}
  BY <1>1, <1>3, StepOf
<1>5. PICK e \in [size : Nat, good : BOOLEAN] :
        /\ tev' = [tev EXCEPT ![t] = e]
        /\ online => e = [size |-> sendIo.moved, good |-> sendIo.state = "ok"]
  <2>1. NoEvent \in [size : Nat, good : BOOLEAN]
    BY DEF NoEvent
  <2>2. [size |-> sendIo.moved, good |-> sendIo.state = "ok"] \in [size : Nat, good : BOOLEAN]
    BY <1>1 DEF PortType
  <2> QED BY <2>1, <2>2 DEF TakeSend
<1>6. /\ tev' \in [Threads -> [size : Nat, good : BOOLEAN]]
      /\ \A u \in Threads : tev'[u] = IF u = t THEN e ELSE tev[u]
  BY <1>1, <1>5 DEF PortType
<1>7. /\ NoIo \in [state : {"idle", "pending", "ok", "failed"}, data : Slices, moved : Nat]
      /\ NoIo.state = "idle" /\ NoIo.moved = 0
  BY SliceFacts DEF NoIo
<1>8. tpc' \in [Threads -> {"poll", "send", "recv", "read", "parse", "shutdown"}]
  BY <1>1, <1>3 DEF ConnTypeOK, Step
<1>9. rcvMutex' <=> \E u \in Threads : tpc'[u] \in {"read", "parse"}
  BY <1>1, <1>4 DEF ConnTypeOK
<1>10. ConnTypeOK'
  BY <1>1, <1>7, <1>8, <1>9 DEF ConnTypeOK
<1>11. PortType'
  BY <1>1, <1>6, <1>7 DEF PortType
<1>12. OneReader'
  BY <1>1, <1>4 DEF OneReader
<1>13. SendPart'
  <2>1. wire' = Bytes(0, Len(wire')) /\ Len(wire') \in Nat
    BY <1>1 DEF SendPart
  <2>2. ASSUME online' PROVE OneTurn' /\ Sending'
    <3>1. online /\ OneTurn /\ Sending
      BY <1>1, <2>2 DEF SendPart
    <3>2. SendThreads = {} /\ SendThreads' = {t} /\ sendPending
      BY <1>3, <1>4, <3>1 DEF OneTurn
    <3>3. e.size = sendIo.moved /\ (~e.good => e.size = 0)
      BY <1>5, <3>1 DEF OneTurn
    <3>4. OneTurn'
      BY <1>6, <1>7, <3>1, <3>2, <3>3 DEF OneTurn
    <3>5. PICK d, r, o \in Nat :
            /\ d + r = accepted /\ Len(wire) = d + o /\ o <= r
            /\ Way(SendThreads, sendIo, tev, o)
            /\ Fronts(sendIo, sndBuffer, d, r)
      BY <3>1 DEF Sending
    <3>6. Way(SendThreads', sendIo', tev', o)
      <4>1. o = sendIo.moved
        BY <3>2, <3>5 DEF Way
      <4>2. tev'[t].size = o /\ sendIo'.moved = 0 /\ o = 0 + o
        BY <1>6, <1>7, <3>3, <4>1
      <4> QED BY <3>2, <4>2 DEF Way
    <3>7. Fronts(sendIo', sndBuffer', d, r)
      BY <1>7, <3>5 DEF Fronts
    <3>8. Sending'
      BY <3>5, <3>6, <3>7 DEF Sending
    <3> QED BY <3>4, <3>8
  <2> QED BY <2>1, <2>2 DEF SendPart
<1>14. Receiving'
  BY <1>1, <1>3, <1>4, RecvQuiet
<1>15. ReceiveOutstanding'
  BY <1>1, <1>4 DEF ReceiveOutstanding
<1> QED BY <1>10, <1>11, <1>12, <1>13, <1>14, <1>15 DEF ConnInv, SendPart

\* A dropped completion is a failed one, with no bytes.
LEMMA DropStep ==
  ASSUME ConnInv, NEW t \in Threads, DropUnmatched(t)
  PROVE  ConnInv'
<1>1. ConnTypeOK /\ PortType /\ OneReader /\ SendPart /\ Receiving /\ ReceiveOutstanding
  BY PartsOf
<1>2. /\ UNCHANGED <<connVars, sendVars, appVars, peerVars, recvVars>>
      /\ tpc[t] \in {"send", "recv"} /\ ~tev[t].good /\ unmatched' = TRUE
      /\ Step(t, "poll") /\ tev' = [tev EXCEPT ![t] = NoEvent]
  BY DEF DropUnmatched, Matches
<1> USE <1>2 DEF connVars, sendVars, appVars, peerVars, recvVars, stream
<1>3. /\ \A u \in Threads : tpc'[u] = IF u = t THEN "poll" ELSE tpc[u]
      /\ SendThreads' = SendThreads \ {t}
  BY <1>1, StepOf
<1>4. NoEvent \in [size : Nat, good : BOOLEAN] /\ NoEvent.size = 0
  BY DEF NoEvent
<1>5. /\ tev' \in [Threads -> [size : Nat, good : BOOLEAN]]
      /\ \A u \in Threads : tev'[u] = IF u = t THEN NoEvent ELSE tev[u]
  BY <1>1, <1>4 DEF PortType
<1>6. tpc' \in [Threads -> {"poll", "send", "recv", "read", "parse", "shutdown"}]
  BY <1>1 DEF ConnTypeOK, Step
<1>7. rcvMutex' <=> \E u \in Threads : tpc'[u] \in {"read", "parse"}
  BY <1>1, <1>3 DEF ConnTypeOK
<1>8. ConnTypeOK'
  BY <1>1, <1>6, <1>7 DEF ConnTypeOK
<1>9. PortType'
  BY <1>1, <1>5 DEF PortType
<1>10. OneReader'
  BY <1>1, <1>3 DEF OneReader
<1>11. SendPart'
  <2>1. wire' = Bytes(0, Len(wire')) /\ Len(wire') \in Nat
    BY <1>1 DEF SendPart
  <2>2. ASSUME online' PROVE OneTurn' /\ Sending'
    <3>1. online /\ OneTurn /\ Sending
      BY <1>1, <2>2 DEF SendPart
    <3>2. OneTurn'
      BY <1>3, <1>4, <1>5, <3>1 DEF OneTurn
    <3>3. PICK d, r, o \in Nat :
            /\ d + r = accepted /\ Len(wire) = d + o /\ o <= r
            /\ Way(SendThreads, sendIo, tev, o)
            /\ Fronts(sendIo, sndBuffer, d, r)
      BY <3>1 DEF Sending
    <3>4. sendIo.moved \in Nat /\ tev[t].size = 0
      BY <1>1, <3>1 DEF PortType, OneTurn
    <3>5. Way(SendThreads', sendIo', tev', o)
      <4>1. CASE t \in SendThreads
        <5>1. SendThreads = {t} /\ SendThreads' = {}
          BY <1>3, <3>1, <4>1 DEF OneTurn
        <5>2. o = sendIo.moved + 0
          BY <3>3, <3>4, <5>1 DEF Way
        <5> QED BY <3>4, <5>1, <5>2 DEF Way
      <4>2. CASE t \notin SendThreads
        <5>1. SendThreads' = SendThreads /\ \A u \in SendThreads : tev'[u] = tev[u]
          BY <1>3, <1>5, <4>2 DEF SendThreads
        <5> QED BY <3>3, <5>1 DEF Way
      <4> QED BY <4>1, <4>2
    <3>6. Fronts(sendIo', sndBuffer', d, r)
      BY <3>3
    <3>7. Sending'
      BY <3>3, <3>5, <3>6 DEF Sending
    <3> QED BY <3>2, <3>7
  <2> QED BY <2>1, <2>2 DEF SendPart
<1>12. Receiving'
  BY <1>1, <1>3, RecvQuiet
<1>13. ReceiveOutstanding'
  BY DEF ReceiveOutstanding
<1> QED BY <1>8, <1>9, <1>10, <1>11, <1>12, <1>13 DEF ConnInv, SendPart

\* The kernel sends some of the bytes it was given, or fails.
LEMMA SendIoStep ==
  ASSUME ConnInv, SendCompletes \/ SendFails
  PROVE  ConnInv'
<1>1. ConnTypeOK /\ PortType /\ OneReader /\ SendPart /\ Receiving /\ ReceiveOutstanding
  BY PartsOf
<1>2. /\ UNCHANGED <<connVars, sndBuffer, sendPending, accepted, appVars, peerVars, recvVars, unmatched,
                     tpc, tev>>
      /\ sendIo.state = "pending"
  BY Zenon DEF SendCompletes, SendFails
<1> USE <1>2 DEF connVars, appVars, peerVars, recvVars, stream
<1>3. /\ sendIo' \in [state : {"idle", "pending", "ok", "failed"}, data : Slices, moved : Nat]
      /\ sendIo'.data = sendIo.data
      /\ SendFails => sendIo'.state = "failed" /\ sendIo'.moved = sendIo.moved
  <2>1. sendIo \in [state : {"idle", "pending", "ok", "failed"}, data : Slices, moved : Nat]
    BY <1>1 DEF PortType
  <2>2. CASE SendCompletes
    <3>1. PICK n \in (IF sendIo.data = <<>> THEN {0} ELSE 1 .. Len(sendIo.data)) :
            sendIo' = [sendIo EXCEPT !.state = "ok", !.moved = n]
      BY <2>2, Zenon DEF SendCompletes
    <3>2. n \in Nat
      BY <3>1
    <3>3. sendIo'.state = "ok"
      BY <2>1, <3>1
    <3> QED BY <2>1, <3>1, <3>2, <3>3 DEF SendFails
  <2>3. CASE SendFails
    BY <2>1, <2>3 DEF SendFails
  <2> QED BY <2>2, <2>3
<1>4. ConnTypeOK'
  BY <1>1, <1>3 DEF ConnTypeOK
<1>5. PortType'
  BY <1>1, <1>3 DEF PortType
<1>6. OneReader'
  BY <1>1 DEF OneReader
<1>7. SendThreads' = SendThreads
  BY DEF SendThreads
<1>8. ASSUME SendFails PROVE SendPart'
  <2>1. wire' = wire
    BY <1>8 DEF SendFails
  <2>2. ASSUME online' PROVE OneTurn' /\ Sending'
    <3>1. OneTurn /\ Sending
      BY <1>1, <2>2 DEF SendPart
    <3>2. OneTurn'
      BY <1>3, <1>7, <1>8, <3>1 DEF OneTurn
    <3>3. PICK d, r, o \in Nat :
            /\ d + r = accepted /\ Len(wire) = d + o /\ o <= r
            /\ Way(SendThreads, sendIo, tev, o)
            /\ Fronts(sendIo, sndBuffer, d, r)
      BY <3>1 DEF Sending
    <3>4. Way(SendThreads', sendIo', tev', o)
      BY <1>3, <1>7, <1>8, <3>3 DEF Way
    <3>5. Fronts(sendIo', sndBuffer', d, r)
      BY <1>3, <1>8, <3>3 DEF Fronts
    <3>6. Sending'
      BY <2>1, <3>3, <3>4, <3>5 DEF Sending
    <3> QED BY <3>2, <3>6
  <2> QED BY <1>1, <2>1, <2>2 DEF SendPart
<1>9. ASSUME SendCompletes PROVE SendPart'
  <2>1. online /\ OneTurn /\ Sending
    BY <1>1, <1>9, Zenon DEF SendPart, SendCompletes
  <2>2. PICK n \in (IF sendIo.data = <<>> THEN {0} ELSE 1 .. Len(sendIo.data)) :
          /\ sendIo' = [sendIo EXCEPT !.state = "ok", !.moved = n]
          /\ wire' = wire \o SubSeq(sendIo.data, 1, n)
    BY <1>9, Zenon DEF SendCompletes
  <2>3. PICK d, r, o \in Nat :
          /\ d + r = accepted /\ Len(wire) = d + o /\ o <= r
          /\ Way(SendThreads, sendIo, tev, o)
          /\ Fronts(sendIo, sndBuffer, d, r)
    BY <2>1 DEF Sending
  <2>4. SendThreads = {} /\ sendIo.moved = 0 /\ o = 0 /\ Len(wire) = d
    <3>1. SendThreads = {} /\ sendIo.moved = 0
      BY <2>1 DEF OneTurn
    <3>2. o = 0
      BY <2>3, <3>1 DEF Way
    <3> QED BY <2>3, <3>1, <3>2
  <2>5. PICK k \in 0 .. r : sendIo.data = Bytes(d, k)
    BY <2>3 DEF Fronts
  <2>6. n \in Nat /\ n <= k
    <3>1. Len(Bytes(d, k)) = k
      BY BytesFacts DEF Numbers
    <3>2. CASE sendIo.data = <<>>
      BY <2>2, <3>2
    <3>3. CASE sendIo.data # <<>>
      BY <2>2, <2>5, <3>1, <3>3
    <3> QED BY <3>2, <3>3
  <2>7. wire' = Bytes(0, d + n) /\ Len(wire') = d + n
    <3>1. Take(Bytes(d, k), n) = Bytes(d, n)
      BY <2>6, BytesCut
    <3>2. Cat(Bytes(0, d), Bytes(0 + d, n)) = Bytes(0, d + n) /\ 0 + d = d
      <4>1. 0 + d = d
        OBVIOUS
      <4>2. Cat(Bytes(0, d), Bytes(0 + d, n)) = Bytes(0, d + n)
        BY <2>6, BytesCat
      <4> QED BY <4>1, <4>2
    <3>3. wire = Bytes(0, d)
      BY <1>1, <2>4 DEF SendPart
    <3>4. wire' = Bytes(0, d + n)
      BY <2>2, <2>5, <3>1, <3>2, <3>3 DEF Cat, Take
    <3>5. d + n \in Nat
      BY <2>6
    <3> QED BY <3>4, <3>5, BytesFacts DEF Numbers
  <2>8. sendIo'.state = "ok" /\ sendIo'.moved = n /\ sendIo'.data = Bytes(d, k)
    BY <1>1, <1>3, <2>2, <2>5 DEF PortType
  <2>9. OneTurn'
    BY <1>7, <2>1, <2>8 DEF OneTurn
  <2>10. Way(SendThreads', sendIo', tev', n)
    BY <1>7, <2>4, <2>8 DEF Way
  <2>11. Fronts(sendIo', sndBuffer', d, r)
    BY <2>3, <2>6, <2>8 DEF Fronts
  <2>12. Sending'
    <3>1. n <= r /\ d + r = accepted'
      BY <2>3, <2>6
    <3> QED BY <2>6, <2>7, <2>10, <2>11, <3>1 DEF Sending
  <2>13. wire' = Bytes(0, Len(wire')) /\ Len(wire') \in Nat
    BY <2>6, <2>7
  <2> QED BY <2>9, <2>12, <2>13 DEF SendPart
<1>10. SendPart'
  BY <1>8, <1>9
<1>11. Receiving'
  BY <1>1, RecvQuiet
<1>12. ReceiveOutstanding'
  BY <1>1 DEF ReceiveOutstanding
<1> QED BY <1>4, <1>5, <1>6, <1>10, <1>11, <1>12 DEF ConnInv, SendPart

\* A send may begin when none is on the way, and then carries the first bytes of
\* the buffer; AsyncSend leaves the turn as it should be.
LEMMA AsyncSendTurn ==
  ASSUME NEW b, NEW pending \in BOOLEAN, NEW ok \in BOOLEAN, AsyncSend(b, pending, ok), PortType,
         NEW d \in Nat, NEW r \in Nat, Holds(b, Bytes(d, r)),
         pending => (sendIo.state # "idle" =>
                        \E n \in 0 .. r : sendIo.data = Bytes(d, n) /\ sendIo.moved <= n),
         ~pending => sendIo.state = "idle" /\ sendIo.moved = 0
  PROVE  /\ sendPending' \in BOOLEAN
         /\ sendIo' \in [state : {"idle", "pending", "ok", "failed"}, data : Slices, moved : Nat]
         /\ Fronts(sendIo', b, d, r)
         /\ sendIo'.moved = sendIo.moved
         /\ sendIo' = sendIo \/ (sendIo'.state = "pending" /\ ~pending /\ online)
         /\ pending \/ sendIo'.state # "idle" => sendPending'
         /\ pending => sendIo' = sendIo
<1>0. sendIo \in [state : {"idle", "pending", "ok", "failed"}, data : Slices, moved : Nat]
  BY DEF PortType
<1>1. Fronts(sendIo, b, d, r)
  BY DEF Fronts
<1>2. CASE MaySend(b, pending) /\ ok
  <2>1. PICK n \in 0 .. r : FirstSlices(b) = Bytes(d, n)
    BY FirstSlicesBytes
  <2>2. Bytes(d, n) \in Slices
    BY BytesFacts DEF Numbers
  <2>3. /\ sendPending' = TRUE /\ online /\ ~pending
        /\ sendIo' = [state |-> "pending", data |-> Bytes(d, n), moved |-> 0]
    BY <1>2, <2>1 DEF AsyncSend, MaySend
  <2>4. /\ sendIo'.state = "pending" /\ sendIo'.data = Bytes(d, n) /\ sendIo'.moved = 0
        /\ sendIo' \in [state : {"idle", "pending", "ok", "failed"}, data : Slices, moved : Nat]
    BY <2>2, <2>3
  <2>5. Fronts(sendIo', b, d, r)
    BY <2>4 DEF Fronts
  <2> QED BY <2>3, <2>4, <2>5
<1>3. CASE ~MaySend(b, pending) /\ ok
  <2>1. sendPending' = pending /\ sendIo' = sendIo
    BY <1>3 DEF AsyncSend
  <2> QED BY <1>0, <1>1, <2>1
<1>4. CASE ~ok
  <2>1. sendPending' = FALSE /\ sendIo' = sendIo /\ ~pending
    BY <1>4 DEF AsyncSend, MaySend
  <2> QED BY <1>0, <1>1, <2>1
<1> QED BY <1>2, <1>3, <1>4

\* Offline no send is started.
LEMMA AsyncSendOff ==
  ASSUME NEW b, NEW pending \in BOOLEAN, NEW ok \in BOOLEAN, AsyncSend(b, pending, ok), ~online
  PROVE  sendIo' = sendIo /\ sendPending' \in BOOLEAN
  BY DEF AsyncSend

\* SendMsg under the lock: the message is behind what is there.
LEMMA SendMsgAddsStep ==
  ASSUME ConnInv, NEW a \in Apps, SendMsgAdds(a)
  PROVE  ConnInv'
<1>1. ConnTypeOK /\ PortType /\ OneReader /\ SendPart /\ Receiving /\ ReceiveOutstanding
  BY PartsOf
<1>2. /\ UNCHANGED <<connVars, wire, msgs, peerVars, recvVars, unmatched, tpc, tev>>
      /\ accepted' = accepted + apc[a] /\ apc' = [apc EXCEPT ![a] = 0]
  BY DEF SendMsgAdds
<1> USE <1>2 DEF connVars, peerVars, recvVars, stream
<1>3. PICK m \in Nat : m = apc[a] /\ accepted' = accepted + m
  BY <1>1 DEF PortType
<1>4. PICK b, ok : /\ b = AddSlice(sndBuffer, Bytes(accepted, m)) /\ ok \in BOOLEAN
                   /\ AsyncSend(b, sendPending, ok) /\ sndBuffer' = b
  BY <1>3 DEF SendMsgAdds
<1>5. sendPending \in BOOLEAN /\ online \in BOOLEAN /\ accepted \in Nat
  BY <1>1 DEF ConnTypeOK, PortType
<1>6. SendThreads' = SendThreads
  BY DEF SendThreads
<1>7. /\ sendPending' \in BOOLEAN
      /\ sendIo' \in [state : {"idle", "pending", "ok", "failed"}, data : Slices, moved : Nat]
      /\ online => OneTurn' /\ Sending'
  <2>1. CASE ~online
    <3>1. sendIo' = sendIo /\ sendPending' \in BOOLEAN
      BY <1>4, <1>5, <2>1, AsyncSendOff
    <3> QED BY <1>1, <2>1, <3>1 DEF PortType
  <2>2. CASE online
    <3>1. OneTurn /\ Sending
      BY <1>1, <2>2 DEF SendPart
    <3>2. PICK d, r, o \in Nat :
            /\ d + r = accepted /\ Len(wire) = d + o /\ o <= r
            /\ Way(SendThreads, sendIo, tev, o)
            /\ Fronts(sendIo, sndBuffer, d, r)
      BY <3>1 DEF Sending
    <3>3. PICK q \in Nat : q = r + m /\ d + q = accepted + m /\ r <= q
      <4>1. r + m \in Nat /\ d + (r + m) = (d + r) + m /\ r <= r + m
        OBVIOUS
      <4> QED BY <3>2, <4>1
    <3>4. Holds(b, Bytes(d, q))
      <4>1. Bytes(accepted, m) \in Slices
        BY <1>5, BytesFacts DEF Numbers
      <4>2. Holds(b, Cat(Bytes(d, r), Bytes(accepted, m)))
        BY <1>4, <3>2, <4>1, HoldsAdd DEF Fronts
      <4>3. Cat(Bytes(d, r), Bytes(d + r, m)) = Bytes(d, r + m)
        BY BytesCat
      <4> QED BY <3>2, <3>3, <4>2, <4>3
    <3>5. sendIo.state # "idle" => \E n \in 0 .. q : sendIo.data = Bytes(d, n) /\ sendIo.moved <= n
      <4>1. \A n \in 0 .. r : n \in 0 .. q
        BY <3>3
      <4> QED BY <3>2, <4>1 DEF Fronts
    <3>6. ~sendPending => sendIo.state = "idle" /\ sendIo.moved = 0 /\ SendThreads = {}
      BY <3>1 DEF OneTurn
    <3>7. /\ sendPending' \in BOOLEAN
          /\ sendIo' \in [state : {"idle", "pending", "ok", "failed"}, data : Slices, moved : Nat]
          /\ Fronts(sendIo', b, d, q)
          /\ sendIo'.moved = sendIo.moved
          /\ sendIo' = sendIo \/ (sendIo'.state = "pending" /\ ~sendPending)
          /\ sendPending \/ sendIo'.state # "idle" => sendPending'
      BY <1>1, <1>4, <1>5, <3>4, <3>5, <3>6, AsyncSendTurn
    <3>8. OneTurn'
      BY <1>6, <3>1, <3>6, <3>7 DEF OneTurn
    <3>9. Way(SendThreads', sendIo', tev', o)
      BY <1>6, <3>2, <3>7 DEF Way
    <3>10. Sending'
      <4>1. o <= q /\ d + q = accepted' /\ Len(wire') = d + o
        BY <1>3, <3>2, <3>3
      <4>2. Fronts(sendIo', sndBuffer', d, q)
        BY <1>4, <3>7
      <4> QED BY <3>9, <4>1, <4>2 DEF Sending
    <3> QED BY <3>7, <3>8, <3>10
  <2> QED BY <2>1, <2>2
<1>8. SendPart'
  BY <1>1, <1>7 DEF SendPart
<1>9. ConnTypeOK'
  BY <1>1, <1>7 DEF ConnTypeOK
<1>10. PortType'
  <2>1. accepted' \in Nat /\ apc' \in [Apps -> Nat]
    BY <1>1, <1>3, <1>5 DEF PortType
  <2> QED BY <1>1, <1>7, <2>1 DEF PortType
<1>11. OneReader'
  BY <1>1 DEF OneReader
<1>12. Receiving'
  BY <1>1, RecvQuiet
<1>13. ReceiveOutstanding'
  BY <1>1 DEF ReceiveOutstanding
<1> QED BY <1>8, <1>9, <1>10, <1>11, <1>12, <1>13 DEF ConnInv, SendPart

\* OnSendEvent: the bytes on the way leave the buffer, and the next send may begin.
LEMMA OnSendEventStep ==
  ASSUME ConnInv, NEW t \in Threads, OnSendEvent(t)
  PROVE  ConnInv'
<1>1. ConnTypeOK /\ PortType /\ OneReader /\ SendPart /\ Receiving /\ ReceiveOutstanding
  BY PartsOf
<1>2. /\ UNCHANGED <<connVars, accepted, wire, appVars, peerVars, recvVars, unmatched>>
      /\ tpc[t] = "send" /\ tev' = [tev EXCEPT ![t] = NoEvent]
  BY DEF OnSendEvent
<1> USE <1>2 DEF connVars, appVars, peerVars, recvVars, stream
<1>3. PICK k \in Nat : k = tev[t].size
  BY <1>1 DEF PortType
<1>4. PICK label \in {"poll", "shutdown"} :
        /\ Step(t, label)
        /\ \/ k = 0 /\ UNCHANGED <<sndBuffer, sendPending, sendIo>>
           \/ /\ k > 0 /\ sndBuffer' = MoveHeader(sndBuffer, k)
              /\ \E ok \in BOOLEAN : AsyncSend(sndBuffer', FALSE, ok)
  BY <1>3 DEF OnSendEvent, MoveSent, PendingAfter
<1>5. /\ \A u \in Threads : tpc'[u] = IF u = t THEN label ELSE tpc[u]
      /\ SendThreads' = SendThreads \ {t} /\ t \in SendThreads
  <2>1. label # "send"
    OBVIOUS
  <2> QED BY <1>1, <1>4, <2>1, StepOf DEF SendThreads
<1>6. NoEvent \in [size : Nat, good : BOOLEAN] /\ NoEvent.size = 0
  BY DEF NoEvent
<1>7. /\ tev' \in [Threads -> [size : Nat, good : BOOLEAN]]
      /\ \A u \in Threads : tev'[u] = IF u = t THEN NoEvent ELSE tev[u]
  BY <1>1, <1>6 DEF PortType
<1>8. /\ sendPending' \in BOOLEAN
      /\ sendIo' \in [state : {"idle", "pending", "ok", "failed"}, data : Slices, moved : Nat]
      /\ online => OneTurn' /\ Sending'
  <2>0. sendPending \in BOOLEAN /\ FALSE \in BOOLEAN
        /\ sendIo \in [state : {"idle", "pending", "ok", "failed"}, data : Slices, moved : Nat]
    BY <1>1 DEF ConnTypeOK, PortType
  <2>1. CASE ~online
    <3>1. sendIo' = sendIo /\ sendPending' \in BOOLEAN
      BY <1>4, <2>0, <2>1, AsyncSendOff
    <3> QED BY <2>0, <2>1, <3>1
  <2>2. CASE online
    <3>1. OneTurn /\ Sending
      BY <1>1, <2>2 DEF SendPart
    <3>2. SendThreads = {t} /\ SendThreads' = {} /\ sendIo.state = "idle" /\ sendIo.moved = 0
      BY <1>5, <3>1 DEF OneTurn
    <3>3. PICK d, r, o \in Nat :
            /\ d + r = accepted /\ Len(wire) = d + o /\ o <= r
            /\ Way(SendThreads, sendIo, tev, o)
            /\ Fronts(sendIo, sndBuffer, d, r)
      BY <3>1 DEF Sending
    <3>4. o = k
      BY <1>3, <3>2, <3>3 DEF Way
    <3>5. CASE k = 0
      <4>1. sndBuffer' = sndBuffer /\ sendPending' = sendPending /\ sendIo' = sendIo
        BY <1>4, <3>5
      <4>2. OneTurn'
        BY <1>6, <1>7, <3>1, <3>2, <4>1 DEF OneTurn
      <4>3. Way(SendThreads', sendIo', tev', o)
        BY <3>2, <3>4, <3>5, <4>1 DEF Way
      <4>4. Sending'
        BY <3>3, <4>1, <4>3 DEF Sending
      <4> QED BY <2>0, <4>1, <4>2, <4>4
    <3>6. CASE k > 0
      <4>1. PICK ok \in BOOLEAN : sndBuffer' = MoveHeader(sndBuffer, k) /\ AsyncSend(sndBuffer', FALSE, ok)
        <5>1. k # 0
          BY <3>6
        <5> QED BY <1>4, <5>1, Zenon
      <4>2. PICK e, q \in Nat : e = d + k /\ q = r - k /\ e + q = accepted
        <5>1. d + k \in Nat /\ r - k \in Nat /\ (d + k) + (r - k) = d + r
          BY <3>3, <3>4
        <5> QED BY <3>3, <5>1
      <4>3. Holds(sndBuffer', Bytes(e, q))
        <5>1. Len(Bytes(d, r)) = r
          BY BytesFacts DEF Numbers
        <5>2. Holds(sndBuffer, Bytes(d, r)) /\ k <= Len(Bytes(d, r))
          BY <3>3, <3>4, <5>1 DEF Fronts
        <5>3. Holds(MoveHeader(sndBuffer, k), Drop(Bytes(d, r), k))
          BY <5>2, HoldsMove
        <5>4. Drop(Bytes(d, r), k) = Bytes(d + k, r - k)
          BY <3>3, <3>4, BytesCut
        <5> QED BY <4>1, <4>2, <5>3, <5>4
      <4>4. /\ sendPending' \in BOOLEAN
            /\ sendIo' \in [state : {"idle", "pending", "ok", "failed"}, data : Slices, moved : Nat]
            /\ Fronts(sendIo', sndBuffer', e, q)
            /\ sendIo'.moved = sendIo.moved
            /\ sendIo'.state # "idle" => sendPending'
            /\ sendIo' = sendIo \/ sendIo'.state = "pending"
        BY <1>1, <3>2, <4>1, <4>3, AsyncSendTurn
      <4>5. OneTurn'
        BY <1>6, <1>7, <3>1, <3>2, <4>4 DEF OneTurn
      <4>6. Way(SendThreads', sendIo', tev', 0)
        BY <3>2, <4>4 DEF Way
      <4>7. Sending'
        <5>1. 0 <= q /\ e + q = accepted' /\ Len(wire') = e + 0
          BY <3>3, <3>4, <4>2
        <5> QED BY <4>4, <4>6, <5>1 DEF Sending
      <4> QED BY <4>4, <4>5, <4>7
    <3> QED BY <3>5, <3>6
  <2> QED BY <2>1, <2>2
<1>9. SendPart'
  BY <1>1, <1>8 DEF SendPart
<1>10. ConnTypeOK'
  <2>1. tpc' \in [Threads -> {"poll", "send", "recv", "read", "parse", "shutdown"}]
    BY <1>1, <1>4 DEF ConnTypeOK, Step
  <2>2. rcvMutex' <=> \E u \in Threads : tpc'[u] \in {"read", "parse"}
    BY <1>1, <1>5 DEF ConnTypeOK
  <2> QED BY <1>1, <1>8, <2>1, <2>2 DEF ConnTypeOK
<1>11. PortType'
  BY <1>1, <1>7, <1>8 DEF PortType
<1>12. OneReader'
  BY <1>1, <1>5 DEF OneReader
<1>13. Receiving'
  BY <1>1, <1>4, <1>5, RecvQuiet
<1>14. ReceiveOutstanding'
  BY <1>1, <1>5 DEF ReceiveOutstanding
<1> QED BY <1>9, <1>10, <1>11, <1>12, <1>13, <1>14 DEF ConnInv, SendPart

\* A step of the thread in OnRecvEvent: it goes on there, or leaves with a receive
\* outstanding, with nothing to read, or to shut down.
LEMMA ReaderStep ==
  ASSUME ConnInv, Receiving', NEW t \in Threads, tpc[t] \in {"read", "parse"},
         NEW label \in {"poll", "read", "parse", "shutdown"}, Step(t, label),
         rcvMutex' \in BOOLEAN /\ (rcvMutex' <=> label \in {"read", "parse"}),
         recvIo' \in {recvIo, "pending"}, taken' \in 0 .. sent,
         UNCHANGED <<connVars, sendVars, appVars, peerVars, stream, unmatched, tev>>,
         label # "poll" \/ recvIo' = "pending" \/ stalled' = TRUE
  PROVE  ConnInv'
<1>1. ConnTypeOK /\ PortType /\ OneReader /\ SendPart /\ Receiving /\ ReceiveOutstanding
  BY PartsOf
<1> USE DEF connVars, sendVars, appVars, peerVars, stream
<1>2. /\ \A u \in Threads : tpc'[u] = IF u = t THEN label ELSE tpc[u]
      /\ SendThreads' = SendThreads \ {t}
  <2>1. label # "send"
    OBVIOUS
  <2> QED BY <1>1, <2>1, StepOf
<1>3. SendThreads' = SendThreads
  BY <1>2 DEF SendThreads
<1>4. tpc' \in [Threads -> {"poll", "send", "recv", "read", "parse", "shutdown"}]
  BY <1>1 DEF ConnTypeOK, Step
<1>5. \A u \in Threads : tpc'[u] \in {"read", "parse"} => u = t
  BY <1>1, <1>2 DEF OneReader
<1>6. rcvMutex' <=> \E u \in Threads : tpc'[u] \in {"read", "parse"}
  BY <1>2, <1>5
<1>7. ConnTypeOK'
  BY <1>1, <1>4, <1>6 DEF ConnTypeOK
<1>8. PortType'
  BY <1>1 DEF PortType
<1>9. OneReader'
  BY <1>5 DEF OneReader
<1>10. SendPart'
  <2>1. CASE online
    <3>1. \A u \in Threads : ~tev'[u].good => tev'[u].size = 0
      BY <1>1, <2>1 DEF SendPart, OneTurn
    <3> QED BY <1>1, <1>3, <3>1, SendQuiet
  <2>2. CASE ~online
    BY <1>1, <2>2 DEF SendPart
  <2> QED BY <2>1, <2>2
<1>11. ReceiveOutstanding'
  BY <1>2 DEF ReceiveOutstanding
<1> QED BY <1>7, <1>8, <1>9, <1>10, <1>11 DEF ConnInv, SendPart

\* What the end of a round leaves: another recv, or a receive outstanding, or an error.
LEMMA RoundEnds ==
  ASSUME NEW t, NEW filled, EndOfRound(t, filled), rcvMutex = TRUE
  PROVE  \E label \in {"poll", "read", "shutdown"} :
            /\ Step(t, label) /\ rcvMutex' \in BOOLEAN /\ (rcvMutex' <=> label \in {"read", "parse"})
            /\ recvIo' \in {recvIo, "pending"}
            /\ label # "poll" \/ recvIo' = "pending"
<1>1. CASE Step(t, "read") /\ UNCHANGED <<rcvMutex, recvIo>>
  BY <1>1
<1>2. CASE AsyncRecv(t)
  BY <1>2 DEF AsyncRecv, LeaveRead
<1> QED BY <1>1, <1>2 DEF EndOfRound

\* The recv call of OnRecvEvent.
LEMMA RecvStep ==
  ASSUME ConnInv, NEW t \in Threads, Recv(t)
  PROVE  ConnInv'
<1>1. /\ ConnTypeOK /\ PortType /\ OneReader /\ Receiving
      /\ Stream /\ sent <= Total /\ InOrder /\ Holds(rcvBuffer, Undelivered) /\ Parses /\ Waits
  BY PartsOf DEF Receiving
<1>2. /\ UNCHANGED <<connVars, sendVars, appVars, peerVars, stream, unarmed, unmatched, tev>>
      /\ tpc[t] = "read" /\ tpc[t] \in {"read", "parse"}
  BY DEF Recv
<1>3. online' = online /\ shut' = shut /\ sent' = sent
  BY <1>2 DEF connVars, peerVars
<1>4. /\ Stream' /\ Total' = Total /\ packets' = packets /\ proto' = proto
      /\ \A p : LengthOf(p)' = LengthOf(p)
  BY <1>1, <1>2, StreamKept
<1>5. rcvMutex = TRUE /\ proto \in BOOLEAN /\ (online => shut = "no")
  <2>1. rcvMutex \in BOOLEAN /\ (rcvMutex <=> \E u \in Threads : tpc[u] \in {"read", "parse"})
    BY <1>1 DEF ConnTypeOK, PortType
  <2>2. rcvMutex
    BY <1>2, <2>1
  <2> QED BY <1>1, <2>1, <2>2 DEF PortType
<1>6. PICK n : n = Min({sent - taken, RecvSize})
  OBVIOUS
<1>7. n \in Nat /\ n <= sent - taken /\ taken \in Nat /\ sent \in Nat /\ taken <= sent
  <2>1. taken \in 0 .. sent /\ sent \in Nat /\ RecvSize \in Nat
    BY <1>1, BufferSizesAssumption DEF ConnTypeOK, PortType
  <2>2. sent - taken \in Nat
    BY <2>1
  <2> QED BY <1>6, <2>1, <2>2, MinOfTwo
<1>8. \A label : Step(t, label) => \A u \in Threads : tpc'[u] = IF u = t THEN label ELSE tpc[u]
  BY <1>1, StepOf
<1>9. CASE /\ online /\ proto /\ taken' = taken + n
           /\ rcvBuffer' = AddSlice(rcvBuffer, Bytes(taken, n))
           /\ Step(t, "parse")
           /\ UNCHANGED <<delivered, rcvMutex, recvIo>>
  <2>1. Holds(rcvBuffer, NotDelivered)
    BY <1>1, <1>5, <1>9 DEF Undelivered
  <2>2. InOrder' /\ Holds(rcvBuffer', NotDelivered')
    BY <1>1, <1>2, <1>7, <1>9, <2>1, RecvToBuffer
  <2>3. Holds(rcvBuffer', Undelivered')
    BY <1>3, <1>4, <1>5, <1>9, <2>2 DEF Undelivered
  <2>4. tpc'[t] = "parse" /\ \A u \in Threads : tpc'[u] = IF u = t THEN "parse" ELSE tpc[u]
    BY <1>8, <1>9
  <2>5. Parses' /\ Waits'
    BY <1>1, <1>3, <1>4, <1>5, <1>9, <2>4 DEF Parses, Waits
  <2>6. Receiving'
    BY <1>1, <1>3, <1>4, <2>2, <2>3, <2>5 DEF Receiving
  <2>7. taken' \in 0 .. sent
    BY <1>7, <1>9
  <2>8. /\ rcvMutex' \in BOOLEAN /\ (rcvMutex' <=> "parse" \in {"read", "parse"})
        /\ recvIo' \in {recvIo, "pending"}
    BY <1>5, <1>9
  <2> QED BY <1>2, <1>9, <2>6, <2>7, <2>8, ReaderStep
<1>10. CASE /\ online /\ ~proto /\ taken' = taken + n
            /\ delivered' = Append(delivered, Bytes(taken, n))
            /\ \E filled : EndOfRound(t, filled)
            /\ UNCHANGED rcvBuffer
  <2>1. InOrder'
    BY <1>1, <1>2, <1>7, <1>10, RecvToHandler
  <2>2. Holds(rcvBuffer', Undelivered')
    BY <1>1, <1>4, <1>10 DEF Undelivered
  <2>3. PICK label \in {"poll", "read", "shutdown"} :
            /\ Step(t, label) /\ rcvMutex' \in BOOLEAN /\ (rcvMutex' <=> label \in {"read", "parse"})
            /\ recvIo' \in {recvIo, "pending"}
            /\ label # "poll" \/ recvIo' = "pending"
    BY <1>5, <1>10, RoundEnds
  <2>4. \A u \in Threads : tpc'[u] = IF u = t THEN label ELSE tpc[u]
    BY <1>8, <2>3
  <2>5. Parses' /\ Waits'
    BY <1>1, <1>3, <1>4, <1>10, <2>4 DEF Parses, Waits
  <2>6. Receiving'
    BY <1>1, <1>3, <1>4, <2>1, <2>2, <2>5 DEF Receiving
  <2>7. taken' \in 0 .. sent
    BY <1>7, <1>10
  <2> QED BY <1>2, <2>3, <2>6, <2>7, ReaderStep
<1>11. ASSUME NEW label \in {"poll", "shutdown"}, LeaveRead(t, label),
              UNCHANGED <<taken, rcvBuffer, delivered, recvIo>>,
              label = "shutdown" \/ stalled' = TRUE
       PROVE  ConnInv'
  <2>1. Step(t, label) /\ rcvMutex' \in BOOLEAN /\ (rcvMutex' <=> label \in {"read", "parse"})
    BY <1>11 DEF LeaveRead
  <2>2. \A u \in Threads : tpc'[u] = IF u = t THEN label ELSE tpc[u]
    BY <1>8, <2>1
  <2>3. \A u \in Threads : /\ tpc'[u] = "parse" => tpc[u] = "parse"
                           /\ tpc[u] \in {"parse", "shutdown"} => tpc'[u] \in {"parse", "shutdown"}
    BY <1>2, <1>11, <2>2
  <2>4. Receiving'
    BY <1>1, <1>3, <1>4, <1>11, <2>3, RecvQuiet
  <2>5. taken' \in 0 .. sent
    BY <1>7, <1>11
  <2> QED BY <1>2, <1>11, <2>1, <2>4, <2>5, ReaderStep
<1>12. \/ /\ online /\ proto /\ taken' = taken + n
          /\ rcvBuffer' = AddSlice(rcvBuffer, Bytes(taken, n))
          /\ Step(t, "parse")
          /\ UNCHANGED <<delivered, rcvMutex, recvIo>>
       \/ /\ online /\ ~proto /\ taken' = taken + n
          /\ delivered' = Append(delivered, Bytes(taken, n))
          /\ \E filled : EndOfRound(t, filled)
          /\ UNCHANGED rcvBuffer
       \/ \E label \in {"poll", "shutdown"} :
            /\ LeaveRead(t, label)
            /\ UNCHANGED <<taken, rcvBuffer, delivered, recvIo>>
            /\ label = "shutdown" \/ stalled' = TRUE
  BY <1>6 DEF Recv
<1> QED BY <1>9, <1>10, <1>11, <1>12

\* A round of ParsingProtocol.
LEMMA ParseStep ==
  ASSUME ConnInv, NEW t \in Threads, ParsingProtocol(t)
  PROVE  ConnInv'
<1>1. /\ ConnTypeOK /\ PortType /\ OneReader /\ Receiving
      /\ Stream /\ sent <= Total /\ InOrder /\ Holds(rcvBuffer, Undelivered) /\ Parses /\ Waits
  BY PartsOf DEF Receiving
<1>2. /\ UNCHANGED <<connVars, sendVars, appVars, peerVars, stream, taken, unarmed, stalled, unmatched, tev>>
      /\ tpc[t] = "parse" /\ tpc[t] \in {"read", "parse"}
  BY DEF ParsingProtocol
<1>3. online' = online /\ shut' = shut /\ sent' = sent /\ taken' = taken
  BY <1>2 DEF connVars, peerVars
<1>4. /\ Stream' /\ Total' = Total /\ packets' = packets /\ proto' = proto
      /\ \A p : LengthOf(p)' = LengthOf(p)
  BY <1>1, <1>2, StreamKept
<1>5. proto /\ shut # "done" /\ Holds(rcvBuffer, NotDelivered)
  BY <1>1, <1>2 DEF Parses, Undelivered
<1>6. rcvMutex = TRUE
  <2>1. rcvMutex \in BOOLEAN /\ (rcvMutex <=> \E u \in Threads : tpc[u] \in {"read", "parse"})
    BY <1>1 DEF ConnTypeOK, PortType
  <2>2. rcvMutex
    BY <1>2, <2>1
  <2> QED BY <2>1, <2>2
<1>7. taken' \in 0 .. sent /\ taken <= Total
  <2>1. Total \in Nat
    BY <1>1, TotalIsNat
  <2> QED BY <1>1, <1>3, <2>1 DEF ConnTypeOK, PortType
<1>8. PICK k, len, m : k = Len(delivered) /\ len = OnCheckPackageLength(Package) /\ m = rcvBuffer.length
  OBVIOUS
<1>9. /\ k \in Nat /\ k <= Len(packets) /\ Len(packets) \in Nat /\ m \in Nat
      /\ m > 0 => k < Len(packets)
      /\ k < Len(packets) => LengthOf(k + 1) \in Nat /\ LengthOf(k + 1) >= HeadBytes
                            /\ LengthOf(k + 1) > 0
      /\ m > 0 => len = IF m < HeadBytes THEN 0
                        ELSE IF packets[k + 1] = Bad THEN -1 ELSE LengthOf(k + 1)
      /\ ReachTail <=> HeaderSize >= m
  BY <1>1, <1>5, <1>7, <1>8, ParseFacts
<1>10. HeadBytes \in Nat /\ HeadBytes > 0 /\ HeaderSize \in Nat /\ HeadBytes <= HeaderSize
  BY FramingAssumption
<1>11. \A label : Step(t, label) => \A u \in Threads : tpc'[u] = IF u = t THEN label ELSE tpc[u]
  BY <1>1, StepOf
\* The buffer is left as it is: nothing whole is in it, or what is there is bad.
<1>12. ASSUME NEW label \in {"poll", "read", "shutdown"}, Step(t, label),
              rcvMutex' \in BOOLEAN /\ (rcvMutex' <=> label \in {"read", "parse"}),
              recvIo' \in {recvIo, "pending"},
              label # "poll" \/ recvIo' = "pending",
              label = "shutdown" \/ (k < Len(packets) => m < LengthOf(k + 1)),
              UNCHANGED <<rcvBuffer, delivered>>
       PROVE  ConnInv'
  <2>1. \A u \in Threads : tpc'[u] = IF u = t THEN label ELSE tpc[u]
    BY <1>11, <1>12
  <2>2. InOrder' /\ NotDelivered' = NotDelivered
    BY <1>1, <1>2, <1>3, <1>12, DeliveredKept
  <2>3. Holds(rcvBuffer', Undelivered')
    BY <1>3, <1>4, <1>5, <1>12, <2>2 DEF Undelivered
  <2>4. Parses'
    BY <1>1, <1>3, <1>4, <2>1 DEF Parses
  <2>5. Waits'
    <3>1. CASE label = "shutdown"
      BY <2>1, <3>1 DEF Waits
    <3>2. CASE label # "shutdown"
      BY <1>4, <1>8, <1>12, <3>2 DEF Waits
    <3> QED BY <3>1, <3>2
  <2>6. Receiving'
    BY <1>1, <1>3, <1>4, <2>2, <2>3, <2>4, <2>5 DEF Receiving
  <2> QED BY <1>2, <1>7, <1>12, <2>6, ReaderStep
<1>13. CASE /\ ~(m > 0) \/ NeedsMore(len)
            /\ EndOfRound(t, full)
            /\ UNCHANGED <<rcvBuffer, delivered>>
  <2>1. k < Len(packets) => m < LengthOf(k + 1)
    BY <1>8, <1>9, <1>10, <1>13 DEF NeedsMore
  <2>2. PICK label \in {"poll", "read", "shutdown"} :
            /\ Step(t, label) /\ rcvMutex' \in BOOLEAN /\ (rcvMutex' <=> label \in {"read", "parse"})
            /\ recvIo' \in {recvIo, "pending"}
            /\ label # "poll" \/ recvIo' = "pending"
    BY <1>6, <1>13, RoundEnds
  <2> QED BY <1>12, <1>13, <2>1, <2>2
<1>14. CASE LeaveRead(t, "shutdown") /\ UNCHANGED <<rcvBuffer, delivered, recvIo>>
  <2>1. Step(t, "shutdown") /\ rcvMutex' \in BOOLEAN /\ (rcvMutex' <=> "shutdown" \in {"read", "parse"})
    BY <1>14 DEF LeaveRead
  <2> QED BY <1>12, <1>14, <2>1
<1>15. CASE /\ m > 0 /\ len >= 0 /\ ~NeedsMore(len)
            /\ PassOn(len)
            /\ UNCHANGED <<tpc, rcvMutex, recvIo, full>>
  <2>1. k < Len(packets) /\ len = LengthOf(k + 1) /\ len <= m
    BY <1>8, <1>9, <1>10, <1>15 DEF NeedsMore
  <2>2. InOrder' /\ Holds(rcvBuffer', NotDelivered')
    BY <1>1, <1>2, <1>3, <1>5, <1>8, <1>15, <2>1, CutOne
  <2>3. Holds(rcvBuffer', Undelivered')
    BY <1>3, <1>4, <1>5, <2>2 DEF Undelivered
  <2>4. Parses' /\ Waits'
    BY <1>1, <1>2, <1>3, <1>4, <1>15 DEF Parses, Waits
  <2>5. Receiving'
    BY <1>1, <1>3, <1>4, <2>2, <2>3, <2>4 DEF Receiving
  <2>6. Step(t, "parse")
    BY <1>1, <1>2, <1>15 DEF Step, ConnTypeOK
  <2>7. /\ rcvMutex' \in BOOLEAN /\ (rcvMutex' <=> "parse" \in {"read", "parse"})
        /\ recvIo' \in {recvIo, "pending"}
    BY <1>6, <1>15
  <2> QED BY <1>2, <1>7, <2>5, <2>6, <2>7, ReaderStep
<1>16. \/ /\ ~(m > 0) \/ NeedsMore(len)
          /\ EndOfRound(t, full)
          /\ UNCHANGED <<rcvBuffer, delivered>>
       \/ LeaveRead(t, "shutdown") /\ UNCHANGED <<rcvBuffer, delivered, recvIo>>
       \/ /\ m > 0 /\ len >= 0 /\ ~NeedsMore(len)
          /\ PassOn(len)
          /\ UNCHANGED <<tpc, rcvMutex, recvIo, full>>
  BY <1>8 DEF ParsingProtocol, MoreToParse
<1> QED BY <1>13, <1>14, <1>15, <1>16

\* Every step keeps the invariant.
LEMMA ConnStep == ASSUME ConnInv, [Next]_vars PROVE ConnInv'
<1>1. CASE UNCHANGED iocpVars
  <2>1. UNCHANGED <<connVars, sendVars, appVars, peerVars, recvVars, unmatched, tpc, tev>>
    BY <1>1 DEF iocpVars
  <2> USE <2>1 DEF connVars, sendVars, appVars, peerVars, recvVars, stream
  <2>2. ConnTypeOK' /\ PortType' /\ OneReader' /\ ReceiveOutstanding'
    BY DEF ConnInv, ConnTypeOK, PortType, OneReader, ReceiveOutstanding
  <2>3. SendPart'
    BY PartsOf DEF SendPart, OneTurn, Sending, SendThreads
  <2>4. Receiving'
    BY PartsOf, RecvQuiet
  <2> QED BY <2>2, <2>3, <2>4 DEF ConnInv, SendPart
<1>2. CASE ConnNext
  <2>1. ASSUME NEW a \in Apps, SendMsg(a) \/ SendMsgAdds(a) PROVE ConnInv'
    BY <2>1, SendMsgStep, SendMsgAddsStep
  <2>2. CASE SendCompletes \/ SendFails
    BY <2>2, SendIoStep
  <2>3. CASE PeerSends \/ PeerCloses \/ RecvCompletes
    BY <2>3, PeerStep
  <2>4. ASSUME NEW t \in Threads, ThreadStep(t) PROVE ConnInv'
    BY <2>4, TakeSendStep, RecvEventStep, DropStep, OnSendEventStep, RecvStep, ParseStep,
       ConnShutdownStep DEF ThreadStep
  <2>5. CASE CloseEndpoint \/ ClearBuffers
    BY <2>5, ConnShutdownStep
  <2> QED BY <1>2, <2>1, <2>2, <2>3, <2>4, <2>5 DEF ConnNext
<1>3. UNCHANGED iocpVars \/ ConnNext
  BY DEF Next, UseSockets, UseConnection, vars
<1> QED BY <1>1, <1>2, <1>3

\* The invariant of a connection holds in every behaviour.
LEMMA ConnInductive == Spec => []ConnInv
<1>1. Init => ConnInv
  BY ConnInitInv DEF Init
<1>2. ConnInv /\ [Next]_vars => ConnInv'
  BY ConnStep
<1> QED BY <1>1, <1>2, PTL DEF Spec

\* AsyncSend, OnSendEvent and SendMsg, by any threads and with completions that
\* fail, come late or report a part: the bytes go out in the order of the
\* messages, none lost or repeated, and while the connection is open the one
\* overlapped send is not started again before its completion was handled.
THEOREM SendsStayExact == Spec => []SendsExact
<1>1. ConnInv => SendsExact
  BY SendsFollow
<1> QED BY <1>1, ConnInductive, PTL

\* OnRecvEvent and ParsingProtocol, with any packets, sizes of the peer's writes and
\* of the reads, and a handler that asks for more or refuses a packet: what is
\* delivered is what was received, cut into whole packets, and an open connection
\* is always about to receive, except when the first AsyncRecv failed, when recv
\* found nothing after a full buffer or when a failed completion was dropped.
THEOREM ReceivesStayExact == Spec => []ReceivesExact
<1>1. ConnInv => ReceivesExact
  BY ReceivesFollow
<1> QED BY <1>1, ConnInductive, PTL
=============================================================================
