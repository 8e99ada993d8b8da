------------------------------ MODULE MuxLink ------------------------------
(***************************************************************************)
(* One smux session from the client's pool to the server: the streams the  *)
(* client opens and closes, their SYN and FIN frames on the way, smux's    *)
(* recvLoop, the server's accept loop (handleClientMuxConn of              *)
(* src/internal/core/common.go) and its handlers (handleClientConn of      *)
(* src/internal/core/server.go, the same as handleStream of the            *)
(* multi-user server).                                                     *)
(*                                                                         *)
(* Left out: data frames and their tokens, and what the server sends back: *)
(* a stream of the client may end at any time, for whatever reason.        *)
(***************************************************************************)
EXTENDS Integers, Sequences, FiniteSets

CONSTANTS
    MaxStreams,   \* bound: streams the client opens
    ClientLimit,  \* conf.MuxMaxStream
    ServerLimit,  \* defaultSmuxMaxStream
    Wrapped       \* the session runs over WebSocket, not over TCP or TLS

\* NewClient admits a limit from 1 to defaultSmuxMaxStream.
ASSUME LinkAssumption ==
    /\ MaxStreams \in Nat
    /\ ClientLimit \in Nat \ {0}
    /\ ServerLimit \in Nat
    /\ ClientLimit <= ServerLimit
    /\ Wrapped \in BOOLEAN

VARIABLES
    client,     \* client[i]: "new", "open", "fin" (the FIN is sent, the stream
                \* still in the client's map) or "closed"
    wire,       \* the frames on their way to the server
    link,       \* the connection: "up", "ended" (gone, what was sent before may
                \* still arrive) or "broken" (the server has seen its end)
    dead,       \* the server's session is closed
    streams,    \* the streams in the server's session
    chAccepts,  \* those the accept loop has yet to take
    loop,       \* the accept loop's next statement
    stream,     \* the stream the accept loop holds
    handler     \* handler[i]: where handleClientConn of stream i is

vars == <<client, wire, link, dead, streams, chAccepts, loop, stream, handler>>

Streams == 1..MaxStreams
NoStream == 0

Syn(i) == [cmd |-> "SYN", sid |-> i]
Fin(i) == [cmd |-> "FIN", sid |-> i]

Init ==
    /\ client = [i \in Streams |-> "new"]
    /\ wire = <<>>
    /\ link = "up"
    /\ dead = FALSE
    /\ streams = {}
    /\ chAccepts = <<>>
    /\ loop = "top"
    /\ stream = NoStream
    /\ handler = [i \in Streams |-> "none"]

-----------------------------------------------------------------------------
(* The client: openStream counts and opens under its mutex, Close sends    *)
(* the FIN, waits until it is written and takes the stream off its map.    *)

Busy == {i \in Streams : client[i] \in {"open", "fin"}}

\* Stream ids are handed out in order.  An OpenStream that fails after its SYN
\* was written is a stream that ends at once, without a FIN.
Open(i) ==
    /\ client[i] = "new"
    /\ \A j \in Streams : j < i => client[j] # "new"
    /\ Cardinality(Busy) < ClientLimit
    /\ link = "up"
    /\ client' = [client EXCEPT ![i] = "open"]
    /\ wire' = Append(wire, Syn(i))
    /\ UNCHANGED <<link, dead, streams, chAccepts, loop, stream, handler>>

SendFin(i) ==
    /\ client[i] = "open"
    /\ client' = [client EXCEPT ![i] = "fin"]
    /\ wire' = IF link = "up" THEN Append(wire, Fin(i)) ELSE wire
    /\ UNCHANGED <<link, dead, streams, chAccepts, loop, stream, handler>>

Remove(i) ==
    /\ client[i] = "fin"
    /\ client' = [client EXCEPT ![i] = "closed"]
    /\ UNCHANGED <<wire, link, dead, streams, chAccepts, loop, stream, handler>>

-----------------------------------------------------------------------------
(* The connection and the server's smux session.                           *)

\* The client closes an idle session, or the network fails.
LinkEnds ==
    /\ link = "up"
    /\ link' = "ended"
    /\ UNCHANGED <<client, wire, dead, streams, chAccepts, loop, stream, handler>>

ReadError ==
    /\ link = "ended"
    /\ link' = "broken"
    /\ UNCHANGED <<client, wire, dead, streams, chAccepts, loop, stream, handler>>

\* Nothing has arrived for a whole KeepAliveTimeout.
KeepaliveClose ==
    /\ ~dead
    /\ dead' = TRUE
    /\ link' = "broken"
    /\ UNCHANGED <<client, wire, streams, chAccepts, loop, stream, handler>>

Arrives(cmd) ==
    /\ link # "broken"
    /\ wire # <<>> /\ Head(wire).cmd = cmd
    /\ wire' = Tail(wire)

ReceiveSyn ==
    /\ Arrives("SYN")
    /\ streams' = streams \cup {Head(wire).sid}
    /\ chAccepts' = Append(chAccepts, Head(wire).sid)
    /\ UNCHANGED <<client, link, dead, loop, stream, handler>>

\* A FIN only wakes the stream's readers: the stream stays in the map until
\* the server closes it.
ReceiveFin ==
    /\ Arrives("FIN")
    /\ UNCHANGED <<client, link, dead, streams, chAccepts, loop, stream, handler>>

-----------------------------------------------------------------------------
(* The accept loop.                                                        *)

Goto(from, to) == loop = from /\ loop' = to

Top ==
    /\ Goto("top", IF dead THEN "return" ELSE "accept")
    /\ UNCHANGED <<client, wire, link, dead, streams, chAccepts, stream, handler>>

AcceptStream ==
    /\ Goto("accept", "count")
    /\ chAccepts # <<>>
    /\ stream' = Head(chAccepts)
    /\ chAccepts' = Tail(chAccepts)
    /\ UNCHANGED <<client, wire, link, dead, streams, handler>>

\* Mutant: the error of AcceptStream is not looked at.
AcceptFailsIgnored ==
    /\ Goto("accept", "count")
    /\ link = "broken"
    /\ UNCHANGED <<client, wire, link, dead, streams, chAccepts, stream, handler>>

AcceptFails ==
    /\ Goto("accept", "return")
    /\ link = "broken"
    /\ UNCHANGED <<client, wire, link, dead, streams, chAccepts, stream, handler>>

NumStreams == IF dead THEN 0 ELSE Cardinality(streams)

\* Mutant: one stream too many is let in.
HandleOneMore ==
    /\ Goto("count", "top")
    /\ NumStreams <= ServerLimit + 1
    /\ handler' = [handler EXCEPT ![stream] = "dial"]
    /\ stream' = NoStream
    /\ UNCHANGED <<client, wire, link, dead, streams, chAccepts>>

Handle ==
    /\ Goto("count", "top")
    /\ NumStreams <= ServerLimit
    /\ handler' = [handler EXCEPT ![stream] = "dial"]
    /\ stream' = NoStream
    /\ UNCHANGED <<client, wire, link, dead, streams, chAccepts>>

\* Mutant: the last place is never given away.
TooManyAtLimit ==
    /\ Goto("count", "refuse")
    /\ NumStreams >= ServerLimit
    /\ UNCHANGED <<client, wire, link, dead, streams, chAccepts, stream, handler>>

TooMany ==
    /\ Goto("count", "refuse")
    /\ NumStreams > ServerLimit
    /\ UNCHANGED <<client, wire, link, dead, streams, chAccepts, stream, handler>>

\* The stream is closed, and the loop returns: no more streams are accepted.
Refuse ==
    /\ Goto("refuse", "return")
    /\ streams' = streams \ {stream}
    /\ handler' = [handler EXCEPT ![stream] = "refused"]
    /\ stream' = NoStream
    /\ UNCHANGED <<client, wire, link, dead, chAccepts>>

\* Mutant: nobody closes the connection.
ReturnOnly ==
    /\ Goto("return", "out")
    /\ UNCHANGED <<client, wire, link, dead, streams, chAccepts, stream, handler>>

\* Over TCP the goroutine's deferred Close closes the connection; ServeHTTP
\* does not close a WebSocket.
Return ==
    /\ Goto("return", "out")
    /\ link' = IF Wrapped THEN link ELSE "broken"
    /\ UNCHANGED <<client, wire, dead, streams, chAccepts, stream, handler>>

-----------------------------------------------------------------------------
(* handleClientConn, one goroutine for every stream.                       *)

HandlerAt(i, from, to) ==
    handler[i] = from /\ handler' = [handler EXCEPT ![i] = to]

Dial(i) ==
    /\ HandlerAt(i, "dial", "tunnel")
    /\ UNCHANGED <<client, wire, link, dead, streams, chAccepts, loop, stream>>

\* dial dst failed: the handler returns and leaves the stream as it is.
DialFails(i) ==
    /\ HandlerAt(i, "dial", "left")
    /\ UNCHANGED <<client, wire, link, dead, streams, chAccepts, loop, stream>>

\* openTunnel closes the stream: the FIN frame first.
TunnelEnds(i) ==
    /\ HandlerAt(i, "tunnel", "closing")
    /\ UNCHANGED <<client, wire, link, dead, streams, chAccepts, loop, stream>>

StreamClosed(i) ==
    /\ HandlerAt(i, "closing", "done")
    /\ streams' = streams \ {i}
    /\ UNCHANGED <<client, wire, link, dead, chAccepts, loop, stream>>

-----------------------------------------------------------------------------
ClientStep(i) == Open(i) \/ SendFin(i) \/ Remove(i)

RecvLoop == ReceiveSyn \/ ReceiveFin

AcceptLoop ==
    \/ Top \/ AcceptStream \/ AcceptFails
    \/ Handle \/ TooMany \/ Refuse \/ Return

HandlerStep(i) == Dial(i) \/ DialFails(i) \/ TunnelEnds(i) \/ StreamClosed(i)

\* The session is over for the server.
Stop == loop = "out" /\ link = "broken" /\ UNCHANGED vars

Next ==
    \/ \E i \in Streams : ClientStep(i) \/ HandlerStep(i)
    \/ LinkEnds \/ ReadError \/ KeepaliveClose
    \/ RecvLoop \/ AcceptLoop
    \/ Stop

\* The server's goroutines run; nothing is promised of the client, of the
\* handlers, or of how long the connection lasts.
Fairness == WF_vars(RecvLoop) /\ WF_vars(AcceptLoop)

Spec == Init /\ [][Next]_vars
FairSpec == Spec /\ Fairness

-----------------------------------------------------------------------------
(* Properties.                                                             *)

LetIn == {i \in Streams : handler[i] \in {"dial", "tunnel", "closing", "left"}}

\* Every variable keeps its type, and the accept loop holds a stream exactly
\* when it decides about one.
TypeOK ==
    /\ client \in [Streams -> {"new", "open", "fin", "closed"}]
    /\ wire \in Seq([cmd : {"SYN", "FIN"}, sid : Streams])
    /\ link \in {"up", "ended", "broken"}
    /\ dead \in BOOLEAN
    /\ streams \in SUBSET Streams
    /\ chAccepts \in Seq(Streams)
    /\ loop \in {"top", "accept", "count", "refuse", "return", "out"}
    /\ stream \in Streams \cup {NoStream}
    /\ handler \in [Streams -> {"none", "dial", "tunnel", "closing", "left", "done", "refused"}]
    /\ loop \in {"count", "refuse"} <=> stream # NoStream

\* The count that the accept loop takes of the session bounds what it has let
\* in and not closed, although streams come and go meanwhile: no more than
\* defaultSmuxMaxStream of a session that lives.
LetInLimit == ~dead => Cardinality(LetIn) <= ServerLimit

\* A client that keeps to a limit the server shares is refused only because
\* the server is late: it still counts a stream the client has closed.
RefusedMeansLate ==
    [][loop' = "refuse" /\ loop # "refuse" =>
          \E i \in streams : client[i] = "closed"]_vars

\* Every stream the client opens is answered, by a handler or by a Close, or
\* the connection ends, which ends the stream with it.
EveryStreamAnswered ==
    \A i \in Streams :
        client[i] = "open" ~> handler[i] # "none" \/ link # "up"

\* "opened too many streams" (err.go): so says the server, but only of a
\* client that has more of them open than defaultSmuxMaxStream.
RefusedMeansTooMany == loop = "refuse" => Cardinality(Busy) > ServerLimit
=============================================================================
