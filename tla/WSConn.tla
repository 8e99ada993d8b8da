------------------------------- MODULE WSConn -------------------------------
(***************************************************************************)
(* One end of a WebSocket connection as the program uses it: the wrapper   *)
(* of src/internal/core/websocket.go over gorilla's Conn.  One goroutine   *)
(* writes data, another reads, and answers pings and close frames while it *)
(* does, and one of them or a third closes.  Who closes depends on the     *)
(* user of the connection: both directions of a tunnel (openOneWayTunnel), *)
(* or Session.Close of smux.                                               *)
(*                                                                         *)
(* What the goroutines share without a lock (c.writer, writeBuf, isWriting *)
(* and writeDeadline) is read and written in steps of their own.  A stalled*)
(* link is a write that nobody completes.                                  *)
(***************************************************************************)
EXTENDS Naturals, Sequences

CONSTANTS
    MaxMessages,  \* bound: the messages after which no data is written
    MaxFrames     \* bound: the frames after which no ping arrives

ASSUME WSConnAssumption == MaxMessages \in Nat /\ MaxFrames \in Nat

VARIABLES
    role,       \* isServer: "client" or "server"
    use,        \* what the connection is for: "tunnel" or "session" (EnableMux)
    pc,         \* pc[g]: where goroutine g is
    msgs,       \* the messages begun, each with a message writer: their types
    own,        \* own[g]: g's message, an index of msgs, 0 before the first
    flushing,   \* flushing[g]: the message g flushes: its own or one it found open
    ended,      \* the messages whose writer has its err set
    writer,     \* c.writer: the message whose writer is open, 0 without one
    hasBuf,     \* c.writeBuf is not nil, which it is while the pool has it
    filledBy,   \* the message that was last copied to the buffer
    isWriting,
    mu,         \* who holds c.mu, "none" without one
    writeErr,   \* c.writeErr: "nil", "closeSent" or "failed"
    deadline,   \* c.writeDeadline: "none", "later" or "past"
    param,      \* param[g]: the deadline g has passed to write
    connLine,   \* the write deadline of the connection underneath
    wire,       \* the frames written
    sock,       \* the connection underneath is open
    once,       \* closeOnce: "new", "running" or "done"
    over,       \* muTimeout is 0
    control,    \* the type of the control message the reader is to write
    overlap,    \* history: two goroutines were in WriteMessage at once
    panicked    \* a goroutine has panicked: the end of the process, and of the model

message == <<msgs, own, flushing, ended, writer, hasBuf, filledBy, isWriting>>
locked == <<mu, writeErr, connLine, wire>>
closing == <<sock, once, over>>
fixed == <<role, use>>
vars == <<fixed, pc, message, locked, deadline, param, closing, control, overlap, panicked>>

G == {"writer", "reader", "closer"}
InMessage == {"begin", "fill", "flush", "set", "lock", "io", "sent", "unsent"}

Init ==
    /\ role \in {"client", "server"} /\ use \in {"tunnel", "session"}
    /\ pc = [g \in G |-> IF g = "writer" THEN "next"
                         ELSE IF g = "reader" THEN "read"
                         ELSE IF use = "session" THEN "close" ELSE "gone"]
    /\ msgs = <<>>
    /\ own = [g \in G |-> 0] /\ flushing = [g \in G |-> 0]
    /\ ended = {} /\ writer = 0
    /\ hasBuf = (role = "server") /\ filledBy = 0 /\ isWriting = FALSE
    /\ mu = "none" /\ writeErr = "nil" /\ connLine = "none" /\ wire = <<>>
    /\ deadline = "none" /\ param = [g \in G |-> "none"]
    /\ sock = TRUE /\ once = "new" /\ over = FALSE
    /\ control = "none"
    /\ overlap = FALSE /\ panicked = FALSE

Step(g, from, to) == ~panicked /\ pc[g] = from /\ pc' = [pc EXCEPT ![g] = to]

Panic(g, from) ==
    /\ ~panicked /\ pc[g] = from
    /\ panicked' = TRUE
    /\ pc' = [h \in G |-> "gone"]
    /\ UNCHANGED <<fixed, message, locked, deadline, param, closing, control, overlap>>

-----------------------------------------------------------------------------
(* WriteMessage: beginMessage, the copy to the buffer, and flushFrame.     *)

\* What g does when its WriteMessage has returned, with an error or not.
Returned(g, failed) ==
    IF msgs[own[g]] = "close" THEN "leave"
    ELSE IF failed THEN (IF use = "tunnel" THEN "over" ELSE "gone")
    ELSE "next"

Begin(g, from, type) ==
    /\ Step(g, from, IF writer = 0 THEN "begin" ELSE "flush")
    /\ msgs' = Append(msgs, type)
    /\ own' = [own EXCEPT ![g] = Len(msgs')]
    /\ flushing' = [flushing EXCEPT ![g] = IF writer = 0 THEN Len(msgs') ELSE writer]
    /\ overlap' = (overlap \/ \E h \in G \ {g} : pc[h] \in InMessage)
    /\ UNCHANGED <<fixed, ended, writer, hasBuf, filledBy, isWriting, locked, deadline,
                   param, closing, control, panicked>>

\* The rest of beginMessage and NextWriter: c.writer is nil behind a message that
\* was found open.  The server's Conn keeps its buffer and opens no writer.
BeginFails(g) ==
    /\ writeErr # "nil"
    /\ Step(g, "begin", Returned(g, TRUE))
    /\ writer' = (IF flushing[g] = own[g] THEN writer ELSE 0)
    /\ UNCHANGED <<fixed, msgs, own, flushing, ended, hasBuf, filledBy, isWriting, locked,
                   deadline, param, closing, control, overlap, panicked>>

BeginOK(g) ==
    /\ writeErr = "nil"
    /\ Step(g, "begin", "fill")
    /\ hasBuf' = TRUE
    /\ writer' = (IF role = "client" THEN own[g] ELSE 0)
    /\ UNCHANGED <<fixed, msgs, own, flushing, ended, filledBy, isWriting, locked, deadline,
                   param, closing, control, overlap, panicked>>

\* Somebody else has flushed the message and ended it.
FillFails(g) ==
    /\ role = "client" /\ own[g] \in ended
    /\ Step(g, "fill", Returned(g, TRUE))
    /\ UNCHANGED <<fixed, message, locked, deadline, param, closing, control, overlap, panicked>>

Fill(g) ==
    /\ ~(role = "client" /\ own[g] \in ended) /\ hasBuf
    /\ Step(g, "fill", "flush")
    /\ filledBy' = own[g]
    /\ flushing' = [flushing EXCEPT ![g] = own[g]]
    /\ UNCHANGED <<fixed, msgs, own, ended, writer, hasBuf, isWriting, locked, deadline, param,
                   closing, control, overlap, panicked>>

FillPanics(g) == ~(role = "client" /\ own[g] \in ended) /\ ~hasBuf /\ Panic(g, "fill")

\* messageWriter.Close of a message that has ended: back to one's own.
FlushEnded(g) ==
    /\ role = "client" /\ flushing[g] \in ended
    /\ Step(g, "flush", IF flushing[g] = own[g] THEN Returned(g, TRUE) ELSE "begin")
    /\ UNCHANGED <<fixed, message, locked, deadline, param, closing, control, overlap, panicked>>

Flush(g) ==
    /\ ~(role = "client" /\ flushing[g] \in ended) /\ hasBuf /\ ~isWriting
    /\ Step(g, "flush", "set")
    /\ UNCHANGED <<fixed, message, locked, deadline, param, closing, control, overlap, panicked>>

\* There is no buffer for the header, or: concurrent write to websocket connection.
FlushPanics(g) ==
    /\ ~(role = "client" /\ flushing[g] \in ended) /\ (~hasBuf \/ isWriting)
    /\ Panic(g, "flush")

SetWriting(g) ==
    /\ Step(g, "set", "lock")
    /\ isWriting' = TRUE
    /\ param' = [param EXCEPT ![g] = deadline]
    /\ UNCHANGED <<fixed, msgs, own, flushing, ended, writer, hasBuf, filledBy, locked, deadline,
                   closing, control, overlap, panicked>>

\* endMessage: the client's buffer goes back to the pool.
EndMessage(m) ==
    /\ ended' = ended \cup {m}
    /\ writer' = (IF m \in ended THEN writer ELSE 0)
    /\ hasBuf' = (hasBuf /\ (role = "server" \/ m \in ended))

Unset(g, from, failed) ==
    /\ isWriting
    /\ Step(g, from, IF flushing[g] = own[g] THEN Returned(g, failed) ELSE "begin")
    /\ isWriting' = FALSE
    /\ EndMessage(flushing[g])
    /\ UNCHANGED <<fixed, msgs, own, flushing, filledBy, locked, deadline, param, closing,
                   control, overlap, panicked>>

UnsetPanics(g, from) == ~isWriting /\ Panic(g, from)

-----------------------------------------------------------------------------
(* write and WriteControl, under c.mu.                                     *)

Acquire(g, line) == mu = "none" /\ mu' = g /\ connLine' = line

LockFails(g) ==
    /\ mu = "none" /\ writeErr # "nil"
    /\ Step(g, "lock", "unsent")
    /\ UNCHANGED <<fixed, message, locked, deadline, param, closing, control, overlap, panicked>>

\* Mutant: a write goes out whatever has happened to the connection before.
LockAlways(g) ==
    /\ Acquire(g, param[g])
    /\ Step(g, "lock", "io")
    /\ UNCHANGED <<fixed, message, writeErr, wire, deadline, param, closing, control, overlap,
                   panicked>>

Lock(g) ==
    /\ writeErr = "nil" /\ Acquire(g, param[g])
    /\ Step(g, "lock", "io")
    /\ UNCHANGED <<fixed, message, writeErr, wire, deadline, param, closing, control, overlap,
                   panicked>>

\* The frame is what the buffer holds when it is written.
Frame(m) == IF filledBy = m THEN msgs[m] ELSE "mangled"

\* The deadline can have passed, or the connection be closed, at any time.
WriteOK(g, from, to, frame, isClose) ==
    /\ Step(g, from, to)
    /\ sock /\ connLine # "past"
    /\ wire' = Append(wire, frame)
    /\ writeErr' = (IF isClose THEN "closeSent" ELSE writeErr)
    /\ mu' = "none"
    /\ UNCHANGED <<fixed, message, connLine, deadline, param, closing, overlap, panicked>>

\* Mutant: c.mu is given back after a write that succeeds only.
WriteFailsLocked(g, from, to) ==
    /\ Step(g, from, to)
    /\ wire' = Append(wire, "cut")
    /\ writeErr' = "failed"
    /\ UNCHANGED <<fixed, message, mu, connLine, deadline, param, closing, overlap, panicked>>

\* Of the frame, part has been written or nothing.
WriteFails(g, from, to) ==
    /\ Step(g, from, to)
    /\ wire' = Append(wire, "cut")
    /\ writeErr' = "failed"
    /\ mu' = "none"
    /\ UNCHANGED <<fixed, message, connLine, deadline, param, closing, overlap, panicked>>

IO(g) ==
    /\ \/ WriteOK(g, "io", "sent", Frame(flushing[g]), msgs[flushing[g]] = "close")
       \/ WriteFails(g, "io", "unsent")
    /\ UNCHANGED control

\* Mutant: WriteControl waits for c.mu as long as write.
ControlWaits == FALSE /\ UNCHANGED vars

\* WriteControl waits for c.mu a second at the most.
ControlGivesUp ==
    /\ mu # "none"
    /\ Step("reader", "control", IF control = "pong" THEN "read" ELSE "readEnds")
    /\ control' = "none"
    /\ UNCHANGED <<fixed, message, locked, deadline, param, closing, overlap, panicked>>

\* The handler of a ping lets ErrCloseSent pass.
ControlFails ==
    /\ mu = "none" /\ writeErr # "nil"
    /\ Step("reader", "control", IF control = "pong" /\ writeErr = "closeSent"
                                THEN "read" ELSE "readEnds")
    /\ control' = "none"
    /\ UNCHANGED <<fixed, message, locked, deadline, param, closing, overlap, panicked>>

ControlLock ==
    /\ writeErr = "nil" /\ Acquire("reader", "later")
    /\ Step("reader", "control", "controlIO")
    /\ UNCHANGED <<fixed, message, writeErr, wire, deadline, param, closing, control, overlap,
                   panicked>>

ControlIO ==
    /\ \/ WriteOK("reader", "controlIO", IF control = "pong" THEN "read" ELSE "readEnds",
                  control, control = "close")
       \/ WriteFails("reader", "controlIO", "readEnds")
    /\ control' = "none"

-----------------------------------------------------------------------------
(* The wrapper's Write and Close, and the goroutines that call them.       *)

\* copyBuffer sets the deadline of its Write; sendLoop sets none.
SetWriteDeadline ==
    /\ use = "tunnel" /\ Len(msgs) < MaxMessages
    /\ Step("writer", "next", "write")
    /\ deadline' = (IF over THEN "past" ELSE "later")
    /\ UNCHANGED <<fixed, message, locked, param, closing, control, overlap, panicked>>

SendLoop ==
    /\ use = "session" /\ Len(msgs) < MaxMessages
    /\ Begin("writer", "next", "data")

\* The tunnel's other connection ends, or sendLoop sees that the session has died.
WriterEnds ==
    /\ use = "session" => once # "new"
    /\ Step("writer", "next", IF use = "tunnel" THEN "over" ELSE "gone")
    /\ UNCHANGED <<fixed, message, locked, deadline, param, closing, control, overlap, panicked>>

\* The end of openOneWayTunnel: muTimeout and SetDeadline, which goes to the
\* connection underneath, and then Close.
Over(g) ==
    /\ Step(g, "over", "close")
    /\ over' = TRUE /\ connLine' = "past"
    /\ UNCHANGED <<fixed, message, mu, writeErr, wire, deadline, param, sock, once, control,
                   overlap, panicked>>

\* Mutant: closeOnce is forgotten.
CloseTwice(g) ==
    /\ Step(g, "close", "announce")
    /\ once' = "running"
    /\ UNCHANGED <<fixed, message, locked, deadline, param, sock, over, control, overlap, panicked>>

Close(g) ==
    /\ once = "new"
    /\ Step(g, "close", "announce")
    /\ once' = "running"
    /\ UNCHANGED <<fixed, message, locked, deadline, param, sock, over, control, overlap, panicked>>

\* Mutant: the close message has no deadline of its own.
AnnounceForEver(g) ==
    /\ Step(g, "announce", "announced")
    /\ deadline' = "none"
    /\ UNCHANGED <<fixed, message, locked, param, closing, control, overlap, panicked>>

\* Mutant: Close does not announce itself.
AnnounceNothing(g) ==
    /\ Step(g, "announce", "leave")
    /\ deadline' = "later"
    /\ UNCHANGED <<fixed, message, locked, param, closing, control, overlap, panicked>>

\* CloseWithDeadLine gives the close message 100 ms.
Announce(g) ==
    /\ Step(g, "announce", "announced")
    /\ deadline' = "later"
    /\ UNCHANGED <<fixed, message, locked, param, closing, control, overlap, panicked>>

\* closeOnce is done, and ws.Close closes the connection underneath.
Leave(g) ==
    /\ Step(g, "leave", "gone")
    /\ once' = "done" /\ sock' = FALSE
    /\ UNCHANGED <<fixed, message, locked, deadline, param, over, control, overlap, panicked>>

CloseAgain(g) ==
    /\ once = "done"
    /\ Step(g, "close", "gone")
    /\ sock' = FALSE
    /\ UNCHANGED <<fixed, message, locked, deadline, param, once, over, control, overlap, panicked>>

-----------------------------------------------------------------------------
(* The wrapper's Read: at "read" without a c.reader, at "inMessage" with    *)
(* one.  Messages are not fragmented (none is as long as the buffer), so   *)
(* control frames arrive between them only.                                *)

NextReader ==
    /\ Step("reader", "read", "inMessage")
    /\ UNCHANGED <<fixed, message, locked, deadline, param, closing, control, overlap, panicked>>

\* The end of a message is no end of the connection.
ReadEnd ==
    /\ Step("reader", "inMessage", "read")
    /\ UNCHANGED <<fixed, message, locked, deadline, param, closing, control, overlap, panicked>>

\* Mutant: a ping is answered with a ping.
ReadPing ==
    /\ Step("reader", "read", "control")
    /\ \/ control' = "ping" /\ Len(wire) < MaxFrames
       \/ control' = "close"
    /\ UNCHANGED <<fixed, message, locked, deadline, param, closing, overlap, panicked>>

ReadControl ==
    /\ Step("reader", "read", "control")
    /\ \/ control' = "pong" /\ Len(wire) < MaxFrames
       \/ control' = "close"
    /\ UNCHANGED <<fixed, message, locked, deadline, param, closing, overlap, panicked>>

ReadFails ==
    /\ \E from \in {"read", "inMessage"} : Step("reader", from, "readEnds")
    /\ UNCHANGED <<fixed, message, locked, deadline, param, closing, control, overlap, panicked>>

\* The tunnel's other connection does not take what was read.
ForwardFails ==
    /\ use = "tunnel"
    /\ Step("reader", "inMessage", "readEnds")
    /\ UNCHANGED <<fixed, message, locked, deadline, param, closing, control, overlap, panicked>>

\* recvLoop returns; whoever closes the session is the closer here.
ReaderEnds ==
    /\ Step("reader", "readEnds", IF use = "tunnel" THEN "over" ELSE "gone")
    /\ UNCHANGED <<fixed, message, locked, deadline, param, closing, control, overlap, panicked>>

-----------------------------------------------------------------------------
Writing(g) ==
    \/ Begin(g, "write", "data") \/ Begin(g, "announced", "close")
    \/ BeginFails(g) \/ BeginOK(g)
    \/ FillFails(g) \/ Fill(g) \/ FillPanics(g)
    \/ FlushEnded(g) \/ Flush(g) \/ FlushPanics(g)
    \/ SetWriting(g) \/ LockFails(g) \/ Lock(g) \/ IO(g)
    \/ Unset(g, "sent", FALSE) \/ Unset(g, "unsent", TRUE)
    \/ UnsetPanics(g, "sent") \/ UnsetPanics(g, "unsent")

Controlling == ControlGivesUp \/ ControlFails \/ ControlLock \/ ControlIO

Closing(g) ==
    Over(g) \/ Close(g) \/ Announce(g) \/ Leave(g) \/ CloseAgain(g)

Reading ==
    \/ NextReader \/ ReadEnd \/ ReadControl
    \/ ReadFails \/ ForwardFails \/ ReaderEnds

\* All goroutines have returned, or there is no process any more.
Stop == (panicked \/ \A g \in G : pc[g] = "gone") /\ UNCHANGED vars

Next ==
    \/ \E g \in G : Writing(g) \/ Closing(g)
    \/ SetWriteDeadline \/ SendLoop \/ WriterEnds
    \/ Controlling \/ Reading
    \/ Stop

(* Goroutines run.  Nothing is assumed of the link: a write ends for       *)
(* certain only when it has a deadline or the connection is closed, and a  *)
(* Read when the connection is closed.  sync.Once and the channel c.mu are *)
(* passed on in the order of arrival, hence strong fairness there.  A      *)
(* session need not ever be closed.                                        *)
Limited == connLine # "none" \/ ~sock

Fairness ==
    /\ \A g \in G :
          /\ WF_vars(pc[g] \notin {"lock", "io"} /\ Writing(g))
          /\ SF_vars(Lock(g) \/ LockFails(g))
          /\ WF_vars(Limited /\ IO(g))
          /\ WF_vars((use = "session" => pc[g] # "close") /\ Closing(g))
    /\ WF_vars(pc["reader"] = "control" /\ Controlling)
    /\ WF_vars(Limited /\ ControlIO)
    /\ WF_vars(ReaderEnds)
    /\ WF_vars(~sock /\ ReadFails)
    /\ WF_vars(SetWriteDeadline \/ WriterEnds)

Spec == Init /\ [][Next]_vars
FairSpec == Spec /\ Fairness

-----------------------------------------------------------------------------
(* Properties.                                                             *)

Labels ==
    InMessage \cup {"next", "write", "over", "close", "announce", "announced", "leave", "gone",
                    "read", "inMessage", "control", "controlIO", "readEnds"}

\* Every variable keeps its type: the reader writes nothing but pongs and close
\* frames, and a message is one of those begun.
TypeOK ==
    /\ role \in {"client", "server"} /\ use \in {"tunnel", "session"}
    /\ pc \in [G -> Labels]
    /\ msgs \in Seq({"data", "close"})
    /\ own \in [G -> 0..Len(msgs)] /\ flushing \in [G -> 0..Len(msgs)]
    /\ ended \subseteq 1..Len(msgs) /\ writer \in 0..Len(msgs) /\ filledBy \in 0..Len(msgs)
    /\ hasBuf \in BOOLEAN /\ isWriting \in BOOLEAN
    /\ mu \in G \cup {"none"} /\ writeErr \in {"nil", "closeSent", "failed"}
    /\ deadline \in {"none", "later", "past"} /\ connLine \in {"none", "later", "past"}
    /\ param \in [G -> {"none", "later", "past"}]
    /\ wire \in Seq({"data", "close", "pong", "mangled", "cut"})
    /\ sock \in BOOLEAN /\ once \in {"new", "running", "done"} /\ over \in BOOLEAN
    /\ control \in {"none", "pong", "close"}
    /\ overlap \in BOOLEAN /\ panicked \in BOOLEAN

\* As long as WriteMessage is called by one goroutine at a time, gorilla does not
\* panic, and the peer can read all that was written: every frame is whole, and the
\* last one is the only one that says that there are no more, whichever of Close and
\* the reader's answer to a close frame sends it.
StreamIsSound ==
    overlap \/ /\ ~panicked
               /\ \A i \in 1..Len(wire) :
                     /\ wire[i] # "mangled"
                     /\ i < Len(wire) => wire[i] \in {"data", "pong"}

\* Close of a connection that works tells the peer, also after the tunnel has
\* let all deadlines pass: the last frame is a close frame, or a write failed.
PeerIsTold ==
    once = "done" /\ ~overlap => writeErr # "nil"

\* Nobody but Close gets into somebody else's WriteMessage, and it does so only once:
\* two that are in it are the writer and the one goroutine that closes, and a
\* connection that nobody has closed does not panic.
OnlyCloseCollides ==
    /\ overlap \/ panicked => once # "new"
    /\ \A g, h \in G : g # h /\ pc[g] \in InMessage /\ pc[h] \in InMessage =>
          once = "running" /\ {msgs[own[g]], msgs[own[h]]} = {"data", "close"}

\* Whoever holds c.mu writes with a deadline, also the close message: the deadlines are
\* kept in two places, and set in any order.  Only the data of a session has none.
WritesAreLimited ==
    \A g \in G : pc[g] \in {"io", "controlIO"} /\ connLine = "none" =>
        use = "session" /\ g = "writer"

\* Close of a tunnel's connection returns, whoever holds c.mu and however the
\* link is, unless it ends the process.
CloseReturns ==
    \A g \in G : pc[g] = "close" /\ use = "tunnel" ~> pc[g] = "gone" \/ panicked

\* A peer's ping or close frame does not hold up the reader, even while the
\* lock is with a write that has no deadline.
ControlReturns ==
    pc["reader"] \in {"control", "controlIO"} ~>
        pc["reader"] \notin {"control", "controlIO"} \/ panicked

\* Close ends the goroutines that use the connection.
CloseEndsAll ==
    ~sock ~> panicked \/ \A g \in G : pc[g] = "gone"

\* No goroutine calls a method that writes while another does.
NoConcurrentWrite == ~panicked
=============================================================================
