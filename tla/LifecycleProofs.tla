-------------------------- MODULE LifecycleProofs --------------------------
(***************************************************************************)
(* Lifecycle keeps its types, nobody waits to be accepted where nobody     *)
(* accepts, a goroutine that is through has closed its sockets, neither    *)
(* process is stranded by the other, and what is closed takes on nothing   *)
(* more: for all connections, any number of restarts, over TLS and over    *)
(* WebSocket.                                                              *)
(*                                                                         *)
(* The argument: a listener is open only between Listen and the return of  *)
(* Start, and a connection waits only at an open one; a socket is made at  *)
(* one point of its goroutine's way, so that what fails before that point  *)
(* has nothing to close; and the two goroutines of a connection pass the   *)
(* handshake in one order, the server accepting first and the client being *)
(* through first.                                                          *)
(***************************************************************************)
EXTENDS Lifecycle, TLAPS

\* A listener is made before it is stored, and is open only while Start is
\* between its Listen and its return.
ListenerOK ==
    \A p \in Procs :
        /\ start[p] \in {"store", "accept", "return"} => listener[p] # "none"
        /\ listener[p] = "open" => start[p] \in {"store", "accept", "return"}

\* A connection waits at an open listener.
WaitingOK ==
    \A p \in Procs, i \in Conns : handler[p][i] = "backlog" => listener[p] = "open"

\* The server knows of a connection only when the client has dialled, and
\* nobody holds a socket that is still to be made.
OrderOK ==
    \A i \in Conns :
        /\ handler["client"][i] \in {"none", "backlog", "dial"} =>
              handler["server"][i] = "none" /\ "right" \notin open[i]
        /\ handler["server"][i] \in {"none", "backlog", "handshake", "dial"} =>
              "up" \notin open[i]

\* The two processes are at parts of the way that go together: the server is
\* past the handshake only when the client is, also when it has failed there
\* and still has its socket, and the client only when the server has accepted.
PairOK ==
    \A i \in Conns :
        /\ handler["server"][i] = "none" => "peer" \notin open[i]
        /\ handler["server"][i] \in {"dial", "tunnel", "over"} =>
              handler["client"][i] \in {"tunnel", "over"}
        /\ handler["server"][i] = "failed" /\ "peer" \in open[i] =>
              handler["client"][i] \in {"tunnel", "over"}
        /\ handler["client"][i] \in {"tunnel", "over"} =>
              handler["server"][i] \notin {"none", "backlog"}

Inv ==
    TypeOK /\ ListenerOK /\ WaitingOK /\ OrderOK /\ ReturnedMeansReleased /\ PairOK

-----------------------------------------------------------------------------
(* The invariant is inductive: one lemma for the processes' steps, one for *)
(* the connections'.                                                       *)

USE DEF Procs, HandlerAt, CloseSockets

\* Own names two sockets for each process, and they differ.
LEMMA OwnSockets ==
    /\ Own["client"] = {"left", "right"}
    /\ Own["server"] = {"peer", "up"}
    /\ \A p \in Procs : Own[p] \subseteq Sockets
  BY DEF Own, Sockets

LEMMA InitInv == Init => Inv
  BY LifecycleAssumption
  DEF Init, Inv, TypeOK, ListenerOK, WaitingOK, OrderOK, ReturnedMeansReleased, PairOK

\* Closing a listener turns away whoever waits there, and nobody else.
LEMMA CloseListenerInv ==
    ASSUME Inv, NEW p \in Procs, CloseListener(p),
           start' = start \/ start' = [start EXCEPT ![p] = "returned"],
           UNCHANGED <<boots, field>>
    PROVE  Inv'
  <1>1. TypeOK'
    BY OwnSockets DEF Inv, TypeOK, CloseListener
  <1>2. ListenerOK' /\ WaitingOK'
    BY DEF Inv, TypeOK, ListenerOK, WaitingOK, CloseListener, Backlog
  <1>3. OrderOK'
    BY OwnSockets DEF Inv, TypeOK, OrderOK, CloseListener, Backlog
  <1>4. ReturnedMeansReleased'
    BY OwnSockets DEF Inv, TypeOK, ReturnedMeansReleased, CloseListener, Backlog
  <1>5. PairOK'
    BY OwnSockets DEF Inv, TypeOK, PairOK, CloseListener, Backlog
  <1>6. QED
    BY <1>1, <1>2, <1>3, <1>4, <1>5 DEF Inv

LEMMA ProcessInv ==
    ASSUME Inv, NEW p \in Procs, ProcessStep(p)
    PROVE  Inv'
  <1> USE DEF Inv, TypeOK
  <1>1. CASE Boot(p)
    <2>1. boots[p] + 1 \in 0..MaxBoots
      BY <1>1, LifecycleAssumption DEF Boot
    <2>2. TypeOK'
      BY <1>1, <2>1 DEF Boot
    <2>3. ListenerOK' /\ WaitingOK'
      BY <1>1 DEF Boot, ListenerOK, WaitingOK
    <2>4. OrderOK' /\ ReturnedMeansReleased' /\ PairOK'
      BY <1>1 DEF Boot, OrderOK, ReturnedMeansReleased, PairOK
    <2>5. QED
      BY <2>2, <2>3, <2>4
  <1>2. CASE Listen(p)
    BY <1>2 DEF Listen, ListenerOK, WaitingOK, OrderOK, ReturnedMeansReleased, PairOK
  <1>3. CASE ListenFails(p)
    BY <1>3 DEF ListenFails, ListenerOK, WaitingOK, OrderOK, ReturnedMeansReleased, PairOK
  <1>4. CASE StoreListener(p)
    BY <1>4 DEF StoreListener, ListenerOK, WaitingOK, OrderOK, ReturnedMeansReleased, PairOK
  <1>5. CASE AcceptFails(p)
    BY <1>5 DEF AcceptFails, ListenerOK, WaitingOK, OrderOK, ReturnedMeansReleased, PairOK
  <1>6. CASE Return(p)
    BY <1>6, CloseListenerInv DEF Return
  <1>7. CASE Close(p)
    BY <1>7, CloseListenerInv DEF Close
  <1>8. CASE Exit(p)
    <2>1. TypeOK' /\ ListenerOK'
      BY <1>8, OwnSockets DEF Exit, ListenerOK
    <2>2. WaitingOK'
      BY <1>8 DEF Exit, WaitingOK
    <2>3. OrderOK'
      BY <1>8, OwnSockets DEF Exit, OrderOK
    <2>4. ReturnedMeansReleased'
      BY <1>8, OwnSockets DEF Exit, ReturnedMeansReleased
    <2>5. PairOK'
      BY <1>8, OwnSockets DEF Exit, PairOK, ReturnedMeansReleased
    <2>6. QED
      BY <2>1, <2>2, <2>3, <2>4, <2>5
  <1>9. QED
    BY <1>1, <1>2, <1>3, <1>4, <1>5, <1>6, <1>7, <1>8 DEF ProcessStep

\* The steps of the outer ends, the goroutines and the garbage collector
\* leave start and listener alone; only Connect and DialServer make a
\* connection wait, both at an open listener.
LEMMA ConnInv ==
    ASSUME Inv, NEW i \in Conns,
           \/ Connect(i) \/ \E s \in {"app", "dst"} : PeerEnds(i, s)
           \/ ClientStep(i) \/ ServerStep(i)
           \/ \E p \in Procs : Collect(p, i)
    PROVE  Inv'
  <1> USE DEF Inv, TypeOK, ListenerOK, WaitingOK, OrderOK, ReturnedMeansReleased, PairOK,
              Sockets
  <1>1. CASE Connect(i)
    BY <1>1, OwnSockets DEF Connect
  <1>2. ASSUME NEW s \in {"app", "dst"}, PeerEnds(i, s) PROVE Inv'
    BY <1>2, OwnSockets DEF PeerEnds
  <1>3. ASSUME NEW p \in Procs, Accept(p, i) PROVE Inv'
    BY <1>3, OwnSockets DEF Accept
  <1>4. CASE DialServer(i)
    <2>1. TypeOK'
      BY <1>4 DEF DialServer
    <2>2. ListenerOK' /\ WaitingOK'
      BY <1>4 DEF DialServer
    <2>3. OrderOK'
      BY <1>4 DEF DialServer
    <2>4. ReturnedMeansReleased'
      BY <1>4, OwnSockets DEF DialServer
    <2>5. PairOK'
      BY <1>4 DEF DialServer
    <2>6. QED
      BY <2>1, <2>2, <2>3, <2>4, <2>5
  <1>5. CASE DialServerFails(i)
    BY <1>5, OwnSockets DEF DialServerFails
  <1>6. CASE ClientHandshake(i)
    BY <1>6, OwnSockets DEF ClientHandshake
  <1>7. CASE ClientHandshakeFails(i)
    BY <1>7, OwnSockets DEF ClientHandshakeFails
  <1>8. CASE ForwardReturns(i)
    BY <1>8, OwnSockets DEF ForwardReturns
  <1>9. CASE ServerHandshake(i)
    BY <1>9, OwnSockets DEF ServerHandshake
  <1>10. CASE ServerHandshakeFails(i)
    BY <1>10, OwnSockets DEF ServerHandshakeFails
  <1>11. CASE DialDst(i)
    BY <1>11, OwnSockets DEF DialDst
  <1>12. CASE DialDstFails(i)
    BY <1>12, OwnSockets, LifecycleAssumption DEF DialDstFails
  <1>13. CASE ServeReturns(i)
    BY <1>13, OwnSockets DEF ServeReturns
  <1>14. ASSUME NEW p \in Procs, Collect(p, i) PROVE Inv'
    BY <1>14, OwnSockets DEF Collect
  <1>15. QED
    BY <1>1, <1>2, <1>3, <1>4, <1>5, <1>6, <1>7, <1>8, <1>9, <1>10, <1>11,
       <1>12, <1>13, <1>14 DEF ClientStep, ServerStep

LEMMA StepInv == Inv /\ [Next]_vars => Inv'
  <1> SUFFICES ASSUME Inv, [Next]_vars PROVE Inv'
    OBVIOUS
  <1>1. CASE UNCHANGED vars
    BY <1>1
    DEF vars, Inv, TypeOK, ListenerOK, WaitingOK, OrderOK, ReturnedMeansReleased, PairOK
  <1>2. CASE Next
    BY <1>1, <1>2, ProcessInv, ConnInv DEF Next, Stop
  <1>3. QED
    BY <1>1, <1>2

LEMMA Invariance == Spec => []Inv
  BY InitInv, StepInv, PTL DEF Spec

-----------------------------------------------------------------------------
(* The theorems.                                                           *)

\* Every variable of Lifecycle keeps its type, and Close never finds a
\* listener that was not made.
THEOREM TypeCorrect == Spec => []TypeOK
  <1>1. Inv => TypeOK
    BY DEF Inv
  <1>2. QED
    BY <1>1, Invariance, PTL

\* Whatever order Start, Close, exits and restarts come in, no connection
\* waits at a listener that nobody accepts from or closes.
THEOREM NobodyWaitsInVain == Spec => []SomebodyAccepts
  <1>1. Inv => SomebodyAccepts
    BY DEF Inv, TypeOK, ListenerOK, WaitingOK, SomebodyAccepts, Backlog
  <1>2. QED
    BY <1>1, Invariance, PTL

\* ForwardConn and the server's handlers close what they opened or were given
\* on every path, but for the two that return without a Close.
THEOREM GoroutinesRelease == Spec => []ReturnedMeansReleased
  <1>1. Inv => ReturnedMeansReleased
    BY DEF Inv
  <1>2. QED
    BY <1>1, Invariance, PTL

\* Wherever one process is with a connection, the other is there too or has
\* closed its end of it: what HandshakeEnds and EndsTogether rest on.
THEOREM NeitherIsStranded == Spec => []NobodyStranded
  <1>1. Inv => NobodyStranded
    <2> SUFFICES ASSUME Inv, NEW i \in Conns
                 PROVE  NobodyStranded!(i)
      BY DEF NobodyStranded
    <2> USE OwnSockets DEF Inv, TypeOK
    <2>1. "peer" \in open[i] => handler["server"][i] # "none"
      BY DEF PairOK
    <2>2. "peer" \in open[i] /\ handler["server"][i] = "failed" => Wrapped
      BY DEF ReturnedMeansReleased
    <2>3. "peer" \in open[i] => handler["server"][i] # "over"
      BY DEF ReturnedMeansReleased
    <2>4. "right" \in open[i] => handler["client"][i] \in {"handshake", "tunnel"}
      BY DEF ReturnedMeansReleased, OrderOK
    <2>5. QED
      BY <2>1, <2>2, <2>3, <2>4 DEF PairOK
  <1>2. QED
    BY <1>1, Invariance, PTL

-----------------------------------------------------------------------------
(* What a Close achieves.                                                  *)

\* Before its Listen a Start has no listener yet, and nothing of the life
\* before is left for Close to find.
FreshOK == \A p \in Procs : start[p] = "listen" => listener[p] = "none" /\ ~field[p]

\* Where a connection is while its goroutine has it, or is to get it.
Served == {"backlog", "dial", "handshake", "tunnel"}

\* A closed listener stays closed until the process is started again, and no
\* connection is taken on after it, neither by the kernel nor by Start.
ShutStaysShut ==
    \A p \in Procs : listener[p] = "closed" =>
        /\ listener'[p] = "closed" \/ (start[p] = "off" /\ start'[p] = "listen")
        /\ \A i \in Conns : handler'[p][i] \in Served => handler[p][i] \in Served \ {"backlog"}

LEMMA FreshStep == Inv /\ FreshOK /\ [Next]_vars => FreshOK'
  <1> SUFFICES ASSUME Inv, FreshOK, [Next]_vars PROVE FreshOK'
    OBVIOUS
  <1> USE DEF Inv, TypeOK, FreshOK
  <1>1. ASSUME NEW p \in Procs, ProcessStep(p) PROVE FreshOK'
    <2>1. CASE Boot(p) \/ Listen(p) \/ ListenFails(p)
      BY <2>1 DEF Boot, Listen, ListenFails
    <2>2. CASE StoreListener(p) \/ AcceptFails(p)
      BY <2>2 DEF StoreListener, AcceptFails
    <2>3. CASE Return(p) \/ Close(p) \/ Exit(p)
      BY <2>3 DEF Return, Close, Exit, CloseListener
    <2>4. QED
      BY <1>1, <2>1, <2>2, <2>3 DEF ProcessStep
  <1>2. CASE UNCHANGED <<start, listener, field>>
    BY <1>2
  <1>3. ASSUME NEW i \in Conns, ClientStep(i) \/ ServerStep(i)
        PROVE  UNCHANGED <<start, listener, field>>
    BY <1>3 DEF ClientStep, ServerStep, Accept, DialServer, DialServerFails, ClientHandshake,
       ClientHandshakeFails, ForwardReturns, ServerHandshake, ServerHandshakeFails, DialDst,
       DialDstFails, ServeReturns
  <1>4. QED
    BY <1>1, <1>2, <1>3 DEF Next, Connect, PeerEnds, Collect, Stop, vars

LEMMA ShutStep == Inv /\ FreshOK /\ [Next]_vars => ShutStaysShut
  <1> SUFFICES ASSUME Inv, FreshOK, [Next]_vars,
                      NEW p \in Procs, listener[p] = "closed"
               PROVE  ShutStaysShut!(p)!2
    BY DEF ShutStaysShut
  <1> USE DEF Inv, TypeOK, Served
  <1>1. \A i \in Conns : handler[p][i] # "backlog"
    BY DEF WaitingOK
  <1>2. ASSUME NEW q \in Procs, ProcessStep(q)
        PROVE  ShutStaysShut!(p)!2
    <2>1. CASE Boot(q) \/ ListenFails(q) \/ StoreListener(q) \/ AcceptFails(q)
      BY <1>1, <2>1 DEF Boot, ListenFails, StoreListener, AcceptFails
    <2>2. CASE Listen(q)
      BY <1>1, <2>2 DEF Listen, FreshOK
    <2>3. CASE Return(q) \/ Close(q)
      BY <1>1, <2>3 DEF Return, Close, CloseListener
    <2>4. CASE Exit(q)
      BY <1>1, <2>4 DEF Exit
    <2>5. QED
      BY <1>2, <2>1, <2>2, <2>3, <2>4 DEF ProcessStep
  <1>3. ASSUME NEW j \in Conns, Connect(j) \/ Accept("client", j) \/ Accept("server", j)
        PROVE  ShutStaysShut!(p)!2
    BY <1>1, <1>3 DEF Connect, Accept
  <1>4. ASSUME NEW j \in Conns,
               \/ DialServer(j) \/ DialServerFails(j) \/ ClientHandshake(j)
               \/ ClientHandshakeFails(j) \/ ForwardReturns(j)
        PROVE  ShutStaysShut!(p)!2
    BY <1>1, <1>4 DEF DialServer, DialServerFails, ClientHandshake, ClientHandshakeFails,
       ForwardReturns
  <1>5. ASSUME NEW j \in Conns,
               \/ ServerHandshake(j) \/ ServerHandshakeFails(j)
               \/ DialDst(j) \/ DialDstFails(j) \/ ServeReturns(j)
        PROVE  ShutStaysShut!(p)!2
    BY <1>1, <1>5 DEF ServerHandshake, ServerHandshakeFails, DialDst, DialDstFails, ServeReturns
  <1>6. CASE UNCHANGED <<listener, handler>>
    BY <1>1, <1>6
  <1>7. QED
    BY <1>2, <1>3, <1>4, <1>5, <1>6
    DEF Next, ClientStep, ServerStep, PeerEnds, Collect, Stop, vars

\* "Close shutdown server" (server.go:198), as far as it goes: a Close that has
\* found the listener is final, wherever Start and the connections are by then: the
\* process takes on nothing more until it is started again.
THEOREM CloseIsFinal == Spec => [][ShutStaysShut]_vars
  <1>1. Init => FreshOK
    BY DEF Init, FreshOK
  <1>2. Inv /\ FreshOK /\ [Next]_vars => ShutStaysShut
    BY ShutStep
  <1>3. QED
    BY <1>1, <1>2, FreshStep, Invariance, PTL DEF Spec
=============================================================================
