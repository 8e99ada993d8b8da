----------------------------- MODULE Lifecycle -----------------------------
(***************************************************************************)
(* The life of a client process and a server process (Start, Close and the *)
(* exit in main), and of a connection on its whole way through them: an    *)
(* application's connection is accepted by the client, which dials the     *)
(* server (TCP and TLS handshake, over WebSocket the upgrade too), which   *)
(* dials the destination.  src/internal/core/client.go and server.go with  *)
(* EnableMux off; the sessions of EnableMux are in MuxPool and MuxLink.    *)
(*                                                                         *)
(* openTunnel is one step here: what it does until both its connections    *)
(* are closed is in Tunnel.                                                *)
(***************************************************************************)
EXTENDS Naturals

CONSTANTS
    Conns,     \* the connections of applications
    MaxBoots,  \* bound: how often each process is started
    Wrapped    \* EnableWSS, at both ends

ASSUME LifecycleAssumption == MaxBoots \in Nat /\ Wrapped \in BOOLEAN

VARIABLES
    boots,     \* boots[p]: how often process p was started
    start,     \* start[p]: where the process's Start is, "off" without one
    field,     \* field[p]: Start has stored its listener for Close
    listener,  \* listener[p]: "none", "open" or "closed"
    handler,   \* handler[p][i]: where process p is with connection i
    open       \* open[i]: the sockets of connection i that are open

vars == <<boots, start, field, listener, handler, open>>

Procs == {"client", "server"}

\* Each connection is three in a row, each with a socket at either end:
\*     app -- left    right -- peer    up -- dst
\* left and right are the client's sockets (leftConn and rightConn of
\* ForwardConn), peer and up those of the server.
Sockets == {"app", "left", "right", "peer", "up", "dst"}
Own == [p \in Procs |-> IF p = "client" THEN {"left", "right"} ELSE {"peer", "up"}]

Init ==
    /\ boots = [p \in Procs |-> 0]
    /\ start = [p \in Procs |-> "off"]
    /\ field = [p \in Procs |-> FALSE]
    /\ listener = [p \in Procs |-> "none"]
    /\ handler = [p \in Procs |-> [i \in Conns |-> "none"]]
    /\ open = [i \in Conns |-> {}]

-----------------------------------------------------------------------------
(* A process: main, Start and Close.                                       *)

Boot(p) ==
    /\ start[p] = "off"
    /\ boots[p] < MaxBoots
    /\ boots' = [boots EXCEPT ![p] = @ + 1]
    /\ start' = [start EXCEPT ![p] = "listen"]
    /\ field' = [field EXCEPT ![p] = FALSE]
    /\ listener' = [listener EXCEPT ![p] = "none"]
    /\ UNCHANGED <<handler, open>>

Listen(p) ==
    /\ start[p] = "listen"
    /\ start' = [start EXCEPT ![p] = "store"]
    /\ listener' = [listener EXCEPT ![p] = "open"]
    /\ UNCHANGED <<boots, field, handler, open>>

\* Mutant: the listener is stored before the error is looked at.
ListenFailsStored(p) ==
    /\ start[p] = "listen"
    /\ start' = [start EXCEPT ![p] = "returned"]
    /\ field' = [field EXCEPT ![p] = TRUE]
    /\ UNCHANGED <<boots, listener, handler, open>>

ListenFails(p) ==
    /\ start[p] = "listen"
    /\ start' = [start EXCEPT ![p] = "returned"]
    /\ UNCHANGED <<boots, field, listener, handler, open>>

StoreListener(p) ==
    /\ start[p] = "store"
    /\ start' = [start EXCEPT ![p] = "accept"]
    /\ field' = [field EXCEPT ![p] = TRUE]
    /\ UNCHANGED <<boots, listener, handler, open>>

\* Any error ends the loop, that of a closed listener and any other.
AcceptFails(p) ==
    /\ start[p] = "accept"
    /\ start' = [start EXCEPT ![p] = "return"]
    /\ UNCHANGED <<boots, field, listener, handler, open>>

\* Closing a listener resets the connections nobody has accepted from it.
Backlog(p) == {i \in Conns : handler[p][i] = "backlog"}

CloseListener(p) ==
    /\ listener' = [listener EXCEPT ![p] = "closed"]
    /\ handler' = [handler EXCEPT ![p] =
                      [i \in Conns |-> IF i \in Backlog(p) THEN "failed" ELSE @[i]]]
    /\ open' = [i \in Conns |-> open[i] \ (IF i \in Backlog(p) THEN Own[p] ELSE {})]

\* Mutant: Start returns without its deferred Close.
ReturnOnly(p) ==
    /\ start[p] = "return"
    /\ start' = [start EXCEPT ![p] = "returned"]
    /\ UNCHANGED <<boots, field, listener, handler, open>>

Return(p) ==
    /\ start[p] = "return"
    /\ start' = [start EXCEPT ![p] = "returned"]
    /\ CloseListener(p)
    /\ UNCHANGED <<boots, field>>

\* Close before the listener is stored finds nothing to close.
Close(p) ==
    /\ start[p] # "off"
    /\ field[p]
    /\ CloseListener(p)
    /\ UNCHANGED <<boots, start, field>>

\* Start has returned, which main takes for fatal, or a signal has arrived, or
\* the process is killed: its sockets are closed, its goroutines gone.
Exit(p) ==
    /\ start[p] # "off"
    /\ start' = [start EXCEPT ![p] = "off"]
    /\ listener' = [listener EXCEPT ![p] = "closed"]
    /\ handler' = [handler EXCEPT ![p] =
                      [i \in Conns |-> CASE @[i] = "none" -> "none"
                                         [] @[i] \in {"tunnel", "over"} -> "over"
                                         [] OTHER -> "failed"]]
    /\ open' = [i \in Conns |-> open[i] \ Own[p]]
    /\ UNCHANGED <<boots, field>>

-----------------------------------------------------------------------------
(* A connection's goroutine.                                               *)

HandlerAt(p, i, from, to) ==
    /\ handler[p][i] = from
    /\ handler' = [handler EXCEPT ![p][i] = to]

CloseSockets(i, S) == open' = [open EXCEPT ![i] = @ \ S]

\* The outer ends: an application connects, and either end may go.
Connect(i) ==
    /\ listener["client"] = "open"
    /\ HandlerAt("client", i, "none", "backlog")
    /\ open' = [open EXCEPT ![i] = {"app", "left"}]
    /\ UNCHANGED <<boots, start, field, listener>>

PeerEnds(i, s) ==
    /\ s \in {"app", "dst"} \cap open[i]
    /\ CloseSockets(i, {s})
    /\ UNCHANGED <<boots, start, field, listener, handler>>

Accept(p, i) ==
    /\ start[p] = "accept" /\ listener[p] = "open"
    /\ HandlerAt(p, i, "backlog", IF p = "client" THEN "dial" ELSE "handshake")
    /\ UNCHANGED <<boots, start, field, listener, open>>

\* The client's TCP connection is there as soon as the server's kernel has it.
DialServer(i) ==
    /\ handler["client"][i] = "dial"
    /\ listener["server"] = "open"
    /\ handler' = [handler EXCEPT !["client"][i] = "handshake", !["server"][i] = "backlog"]
    /\ open' = [open EXCEPT ![i] = @ \cup {"right", "peer"}]
    /\ UNCHANGED <<boots, start, field, listener>>

\* ForwardConn returns, and nobody closes leftConn.
DialServerFails(i) ==
    /\ HandlerAt("client", i, "dial", "failed")
    /\ UNCHANGED <<boots, start, field, listener, open>>

\* Without a timeout over TLS.
ClientHandshake(i) ==
    /\ HandlerAt("client", i, "handshake", "tunnel")
    /\ handler["server"][i] = "handshake"
    /\ UNCHANGED <<boots, start, field, listener, open>>

\* Mutant: an error of the handshake is returned, and rightConn left open.
ClientHandshakeFailsOpen(i) ==
    /\ HandlerAt("client", i, "handshake", "failed")
    /\ UNCHANGED <<boots, start, field, listener, open>>

\* A bad certificate, a connection that is gone: rightConn is closed, leftConn
\* is not.
ClientHandshakeFails(i) ==
    /\ HandlerAt("client", i, "handshake", "failed")
    /\ CloseSockets(i, {"right"})
    /\ UNCHANGED <<boots, start, field, listener>>

ForwardReturns(i) ==
    /\ HandlerAt("client", i, "tunnel", "over")
    /\ CloseSockets(i, {"left", "right"})
    /\ UNCHANGED <<boots, start, field, listener>>

\* The client's part is done: what it sent is on its way or has arrived.
ServerHandshake(i) ==
    /\ HandlerAt("server", i, "handshake", "dial")
    /\ handler["client"][i] \in {"tunnel", "over"}
    /\ UNCHANGED <<boots, start, field, listener, open>>

ServerHandshakeFails(i) ==
    /\ HandlerAt("server", i, "handshake", "failed")
    /\ CloseSockets(i, {"peer"})
    /\ UNCHANGED <<boots, start, field, listener>>

DialDst(i) ==
    /\ HandlerAt("server", i, "dial", "tunnel")
    /\ open' = [open EXCEPT ![i] = @ \cup {"up", "dst"}]
    /\ UNCHANGED <<boots, start, field, listener>>

\* Mutant: no deferred Close of the accepted connection.
DialDstFailsOpen(i) ==
    /\ HandlerAt("server", i, "dial", "failed")
    /\ UNCHANGED <<boots, start, field, listener, open>>

\* The goroutine's deferred Close; ServeHTTP has none for a WebSocket.
DialDstFails(i) ==
    /\ HandlerAt("server", i, "dial", "failed")
    /\ CloseSockets(i, IF Wrapped THEN {} ELSE {"peer"})
    /\ UNCHANGED <<boots, start, field, listener>>

\* Mutant: the handler closes the destination's connection only.
ServeReturnsHalf(i) ==
    /\ HandlerAt("server", i, "tunnel", "over")
    /\ CloseSockets(i, {"up"})
    /\ UNCHANGED <<boots, start, field, listener>>

ServeReturns(i) ==
    /\ HandlerAt("server", i, "tunnel", "over")
    /\ CloseSockets(i, {"peer", "up"})
    /\ UNCHANGED <<boots, start, field, listener>>

\* The garbage collector closes a socket that no goroutine refers to.
Collect(p, i) ==
    /\ handler[p][i] \in {"over", "failed"}
    /\ Own[p] \cap open[i] # {}
    /\ CloseSockets(i, Own[p])
    /\ UNCHANGED <<boots, start, field, listener, handler>>

-----------------------------------------------------------------------------
ProcessStep(p) ==
    \/ Boot(p) \/ Listen(p) \/ ListenFails(p) \/ StoreListener(p)
    \/ AcceptFails(p) \/ Return(p) \/ Close(p) \/ Exit(p)

ClientStep(i) ==
    \/ Accept("client", i)
    \/ DialServer(i) \/ DialServerFails(i)
    \/ ClientHandshake(i) \/ ClientHandshakeFails(i) \/ ForwardReturns(i)

ServerStep(i) ==
    \/ Accept("server", i)
    \/ ServerHandshake(i) \/ ServerHandshakeFails(i)
    \/ DialDst(i) \/ DialDstFails(i) \/ ServeReturns(i)

\* Both processes are gone for good, and so are the outer ends.
Stop ==
    /\ \A p \in Procs : start[p] = "off" /\ boots[p] = MaxBoots
    /\ \A i \in Conns : open[i] = {}
    /\ UNCHANGED vars

Next ==
    \/ \E p \in Procs : ProcessStep(p)
    \/ \E i \in Conns :
          \/ Connect(i)
          \/ \E s \in {"app", "dst"} : PeerEnds(i, s)
          \/ ClientStep(i) \/ ServerStep(i)
          \/ \E p \in Procs : Collect(p, i)
    \/ Stop

-----------------------------------------------------------------------------
(* Fairness: goroutines run, accept loops accept, and a handshake with     *)
(* somebody who has gone fails.  A tunnel need not end while both its      *)
(* peers are there, and nothing is assumed of the peers, of Close, of      *)
(* signals or of the garbage collector.                                    *)

LeftGone(i) == ~({"app", "peer"} \subseteq open[i])
RightGone(i) == ~({"right", "dst"} \subseteq open[i])

Fairness ==
    /\ \A p \in Procs :
          /\ WF_vars(StoreListener(p))
          /\ WF_vars(listener[p] = "closed" /\ AcceptFails(p))
          /\ WF_vars(Return(p))
    /\ \A i \in Conns :
          /\ \A p \in Procs : WF_vars(Accept(p, i))
          /\ WF_vars(ClientHandshake(i))
          /\ WF_vars("peer" \notin open[i] /\ ClientHandshakeFails(i))
          /\ WF_vars(LeftGone(i) /\ ForwardReturns(i))
          /\ WF_vars(ServerHandshake(i))
          /\ WF_vars("right" \notin open[i] /\ ServerHandshakeFails(i))
          /\ WF_vars(DialDst(i) \/ DialDstFails(i))
          /\ WF_vars(RightGone(i) /\ ServeReturns(i))

Spec == Init /\ [][Next]_vars
FairSpec == Spec /\ Fairness

-----------------------------------------------------------------------------
(* Properties.                                                             *)

\* Every variable keeps its type, and Close never finds a listener that was
\* not made.
TypeOK ==
    /\ boots \in [Procs -> 0..MaxBoots]
    /\ start \in [Procs -> {"off", "listen", "store", "accept", "return", "returned"}]
    /\ field \in [Procs -> BOOLEAN]
    /\ listener \in [Procs -> {"none", "open", "closed"}]
    /\ handler \in [Procs -> [Conns -> {"none", "backlog", "dial", "handshake",
                                         "tunnel", "over", "failed"}]]
    /\ open \in [Conns -> SUBSET Sockets]
    /\ \A p \in Procs : field[p] => listener[p] # "none"

\* A connection waits to be accepted only while somebody will accept it or
\* turn it away: its listener is open and the process's Start has not returned.
\* Without a timeout for the handshake, the client would wait there for ever.
SomebodyAccepts ==
    \A p \in Procs : Backlog(p) # {} =>
        listener[p] = "open" /\ start[p] \in {"store", "accept", "return"}

\* A goroutine that is through with a connection has closed what it opened or
\* was given, except that the client leaves leftConn, and the server over
\* WebSocket its own, when it could not connect further.
ReturnedMeansReleased ==
    \A p \in Procs, i \in Conns :
        /\ handler[p][i] = "over" => Own[p] \cap open[i] = {}
        /\ handler[p][i] = "failed" =>
              Own[p] \cap open[i] \subseteq
                  (IF p = "client" THEN {"left"} ELSE IF Wrapped THEN {"peer"} ELSE {})

\* Neither process is stranded: as long as the socket at the far end of their
\* connection is open, and it cannot see that the other has gone, the other is
\* at the same part of the way.  A handshake that is not answered has no other
\* end to wait for, and neither has a tunnel; only over WebSocket the server may
\* have given up and left its socket open.
NobodyStranded ==
    \A i \in Conns :
        /\ "peer" \in open[i] =>
              /\ handler["client"][i] = "handshake" =>
                    handler["server"][i] \in {"backlog", "handshake"}
              /\ handler["client"][i] = "tunnel" =>
                    \/ handler["server"][i] \in {"handshake", "dial", "tunnel"}
                    \/ Wrapped /\ handler["server"][i] = "failed"
        /\ "right" \in open[i] =>
              /\ handler["server"][i] \in {"backlog", "handshake"} =>
                    handler["client"][i] \in {"handshake", "tunnel"}
              /\ handler["server"][i] \in {"dial", "tunnel"} =>
                    handler["client"][i] = "tunnel"

\* Every handshake ends, although nothing limits its time: the server accepts,
\* fails, stops listening or exits.
HandshakeEnds ==
    \A i \in Conns :
        handler["client"][i] = "handshake" ~> handler["client"][i] # "handshake"

\* Of a connection that both processes have set up, no part outlives another:
\* when an application, a destination or a process goes, wherever the others
\* are by then, all four sockets of the processes are closed.
Whole(i) ==
    /\ {"app", "left", "right", "peer"} \subseteq open[i]
    /\ handler["server"][i] \in {"tunnel", "over"} => {"up", "dst"} \subseteq open[i]

EndsTogether ==
    \A i \in Conns :
        handler["client"][i] \in {"tunnel", "over"} /\ ~Whole(i)
            ~> (Own["client"] \cup Own["server"]) \cap open[i] = {}
=============================================================================
