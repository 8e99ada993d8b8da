------------------------------- MODULE Tunnel -------------------------------
(***************************************************************************)
(* One call of openTunnel(a, b, timeout), src/internal/core/common.go: two *)
(* goroutines, one per direction, each copying chunks from its source to   *)
(* its destination and, when its copy loop ends, tearing both down.        *)
(* A direction is named by the connection it reads, so a direction d is    *)
(* openOneWayTunnel(Other(d), d, &muTimeout, &fe).                         *)
(*                                                                         *)
(* Time is a countdown: a deadline is the number of ticks left on it, so   *)
(* that no clock grows.  A chunk is what one Read returns.                 *)
(*                                                                         *)
(* A net.Conn here is a TCP or TLS connection, or a smux stream: one of    *)
(* SmuxConns differs in what its Read calls the end, in what interrupts    *)
(* its Write and in that its Close first gets a FIN frame through the      *)
(* session.  WebSocket connections, with a write deadline and a Close of   *)
(* their own, are in WSConn.                                               *)
(***************************************************************************)
EXTENDS Integers

CONSTANTS
    Left, Right,   \* the two connections, a and b
    SmuxConns,     \* those of them that are smux streams
    Timeout,       \* conf.Timeout, in ticks
    MaxSend,       \* bound: MaxSend[c] chunks come from the peer behind c
    MaxChunks      \* bound: how many come from both peers together

ASSUME TunnelAssumption ==
    /\ Left # Right
    /\ SmuxConns \subseteq {Left, Right}
    /\ Timeout \in Nat \ {0}
    /\ MaxSend \in [{Left, Right} -> Nat] /\ MaxChunks \in Nat

Conns == {Left, Right}
Other(c) == IF c = Left THEN Right ELSE Left

VARIABLES
    \* the peers behind the connections
    sent,       \* sent[c]: chunks the peer has sent into c
    ended,      \* ended[c]: "no", "eof" (closed its end) or "reset" (broken)
    stalled,    \* stalled[c]: a Write to c cannot make progress
    \* the connections
    open,       \* open[c]: Close has not been called on c
    rleft,      \* rleft[c]: ticks to the read deadline of c
    wleft,      \* wleft[c]: ticks to the write deadline of c
    \* the two goroutines
    pc,         \* pc[d]: the next statement of direction d
    loaded,     \* loaded[d]: the timeout d last loaded from muTimeout
    wtimer,     \* wtimer[d]: ticks on the timer a smux Write started with
    got, put,   \* chunks read from d, chunks of d written to Other(d)
    failure,    \* failure[d]: the error that ends d's copy loop
    \* what they share
    muTimeout,  \* the atomic duration both loops use
    fe,         \* firstErr: "unset", "nil" or the error reported first
    \* history
    winner,     \* the direction that reported first
    idle        \* idle[d]: ticks since d last moved a chunk, up to Timeout

peers == <<sent, ended, stalled>>
conns == <<open, rleft, wleft>>
progress == <<got, put, idle>>
shared == <<muTimeout, fe, winner>>
vars == <<peers, conns, pc, loaded, wtimer, failure, progress, shared>>

NoDeadline == -1
Nobody == "nobody"
Errors == {"reset", "timeout", "closed"}
Labels == {"loadR", "armR", "read", "loadW", "armW", "startW", "write",
           "report", "zero", "expireSrc", "expireDst",
           "closeSrc", "finSrc", "closeDst", "finDst", "done"}

Init ==
    /\ sent = [c \in Conns |-> 0]
    /\ ended = [c \in Conns |-> "no"]
    /\ stalled = [c \in Conns |-> FALSE]
    /\ open = [c \in Conns |-> TRUE]
    /\ rleft = [c \in Conns |-> NoDeadline]
    /\ wleft = [c \in Conns |-> NoDeadline]
    /\ pc = [d \in Conns |-> "loadR"]
    /\ loaded = [d \in Conns |-> 0]
    /\ wtimer = [d \in Conns |-> NoDeadline]
    /\ got = [d \in Conns |-> 0]
    /\ put = [d \in Conns |-> 0]
    /\ failure = [d \in Conns |-> "none"]
    /\ muTimeout = Timeout
    /\ fe = "unset"
    /\ winner = Nobody
    /\ idle = [d \in Conns |-> 0]

\* Both goroutines are past wg.Done, so openTunnel has returned fe.getErr().
Returned == \A d \in Conns : pc[d] = "done"

Goto(d, label) == pc' = [pc EXCEPT ![d] = label]
At(d, from, to) == pc[d] = from /\ Goto(d, to)

-----------------------------------------------------------------------------
(* The environment: the two peers and the clock.                           *)

Send(c) ==
    /\ open[c] /\ ended[c] = "no"
    /\ sent[c] < MaxSend[c] /\ sent[Left] + sent[Right] < MaxChunks
    /\ sent' = [sent EXCEPT ![c] = @ + 1]
    /\ UNCHANGED <<ended, stalled, conns, pc, loaded, wtimer, failure, progress, shared>>

End(c) ==
    /\ open[c] /\ ended[c] = "no"
    /\ \E how \in {"eof", "reset"} : ended' = [ended EXCEPT ![c] = how]
    /\ UNCHANGED <<sent, stalled, conns, pc, loaded, wtimer, failure, progress, shared>>

\* The peer stops taking data; for a smux stream, the whole session does.
Stall(c) ==
    /\ ~stalled[c] /\ ~Returned
    /\ stalled' = [stalled EXCEPT ![c] = TRUE]
    /\ UNCHANGED <<sent, ended, conns, pc, loaded, wtimer, failure, progress, shared>>

Unstall(c) ==
    /\ stalled[c] /\ ~Returned
    /\ stalled' = [stalled EXCEPT ![c] = FALSE]
    /\ UNCHANGED <<sent, ended, conns, pc, loaded, wtimer, failure, progress, shared>>

Down(f) == [c \in Conns |-> IF f[c] > 0 THEN f[c] - 1 ELSE f[c]]

Tick ==
    /\ ~Returned
    /\ rleft' = Down(rleft)
    /\ wleft' = Down(wleft)
    /\ wtimer' = Down(wtimer)
    /\ idle' = [d \in Conns |-> IF idle[d] < Timeout THEN idle[d] + 1 ELSE idle[d]]
    /\ UNCHANGED <<peers, open, pc, loaded, failure, got, put, shared>>

-----------------------------------------------------------------------------
(* copyBuffer: load the timeout, arm the read deadline, Read, load it      *)
(* again, arm the write deadline, Write, and around again.                 *)

LoadR(d) ==
    /\ At(d, "loadR", "armR")
    /\ loaded' = [loaded EXCEPT ![d] = muTimeout]
    /\ UNCHANGED <<peers, conns, wtimer, failure, progress, shared>>

ArmR(d) ==
    /\ At(d, "armR", "read")
    /\ rleft' = [rleft EXCEPT ![d] = loaded[d]]
    /\ UNCHANGED <<peers, open, wleft, loaded, wtimer, failure, progress, shared>>

\* Mutant: the loop looks at er before it has written the nr bytes.
ReadChunkDropsLast(d) ==
    /\ pc[d] = "read"
    /\ got[d] < sent[d]
    /\ got' = [got EXCEPT ![d] = @ + 1]
    /\ idle' = [idle EXCEPT ![d] = 0]
    /\ \/ Goto(d, "loadW") /\ UNCHANGED failure
       \/ /\ ended[d] = "eof" /\ got[d] + 1 = sent[d]
          /\ Goto(d, "report")
          /\ failure' = [failure EXCEPT ![d] = "eof"]
    /\ UNCHANGED <<peers, conns, loaded, wtimer, put, shared>>

\* Every kind of connection hands out what it has already received, even
\* past its deadline or its Close; a Read may return the end with the data.
ReadChunk(d) ==
    /\ At(d, "read", "loadW")
    /\ got[d] < sent[d]
    /\ got' = [got EXCEPT ![d] = @ + 1]
    /\ idle' = [idle EXCEPT ![d] = 0]
    /\ \E er \in {"none", "eof"} :
          /\ er = "eof" => ended[d] = "eof" /\ got[d] + 1 = sent[d]
          /\ failure' = [failure EXCEPT ![d] = er]
    /\ UNCHANGED <<peers, conns, loaded, wtimer, put, shared>>

\* er is an error a Read of d that returns no data may return now.  A smux
\* stream also says io.EOF when a FIN overtakes its buffered data in waitRead,
\* when its session dies and when it is closed on this side.
ReadFails(d, er) ==
    \/ er = "eof" /\ ended[d] = "eof" /\ got[d] = sent[d]
    \/ er = "eof" /\ d \in SmuxConns /\ (ended[d] # "no" \/ ~open[d])
    \/ er = "reset" /\ ended[d] = "reset"
    \/ er = "timeout" /\ rleft[d] = 0
    \/ er = "closed" /\ ~open[d]

ReadEnd(d) ==
    /\ At(d, "read", "report")
    /\ \E er \in Errors \cup {"eof"} :
          /\ ReadFails(d, er)
          /\ failure' = [failure EXCEPT ![d] = er]
    /\ UNCHANGED <<peers, conns, loaded, wtimer, progress, shared>>

LoadW(d) ==
    /\ At(d, "loadW", "armW")
    /\ loaded' = [loaded EXCEPT ![d] = muTimeout]
    /\ UNCHANGED <<peers, conns, wtimer, failure, progress, shared>>

\* Mutant: the write is started without a deadline of its own.
ArmWForgotten(d) ==
    /\ At(d, "armW", "startW")
    /\ UNCHANGED <<peers, conns, loaded, wtimer, failure, progress, shared>>

ArmW(d) ==
    /\ At(d, "armW", "startW")
    /\ wleft' = [wleft EXCEPT ![Other(d)] = loaded[d]]
    /\ UNCHANGED <<peers, open, rleft, loaded, wtimer, failure, progress, shared>>

\* A smux Write looks at the deadline and at die only when it starts.
StartW(d) ==
    /\ \/ /\ Other(d) \in SmuxConns /\ ~open[Other(d)]
          /\ At(d, "startW", "report")
          /\ failure' = [failure EXCEPT ![d] = "closed"]
          /\ UNCHANGED wtimer
       \/ /\ Other(d) \notin SmuxConns \/ open[Other(d)]
          /\ At(d, "startW", "write")
          /\ wtimer' = [wtimer EXCEPT ![d] =
                          IF Other(d) \in SmuxConns THEN wleft[Other(d)] ELSE @]
          /\ UNCHANGED failure
    /\ UNCHANGED <<peers, conns, loaded, progress, shared>>

WriteLeft(d) == IF Other(d) \in SmuxConns THEN wtimer[d] ELSE wleft[Other(d)]

WriteSucceeds(d) ==
    /\ ~stalled[Other(d)]
    /\ ended[Other(d)] # "reset"
    /\ Other(d) \in SmuxConns \/ (open[Other(d)] /\ WriteLeft(d) # 0)

\* Mutant: a chunk whose read also returned an error is written once more.
WriteChunkRetried(d) ==
    /\ At(d, "write", IF failure[d] = "none" THEN "loadR" ELSE "startW")
    /\ WriteSucceeds(d)
    /\ put' = [put EXCEPT ![d] = @ + 1]
    /\ failure' = [failure EXCEPT ![d] = "none"]
    /\ idle' = [idle EXCEPT ![d] = 0]
    /\ wtimer' = [wtimer EXCEPT ![d] = NoDeadline]
    /\ UNCHANGED <<peers, conns, loaded, got, shared>>

WriteChunk(d) ==
    /\ At(d, "write", IF failure[d] = "none" THEN "loadR" ELSE "report")
    /\ WriteSucceeds(d)
    /\ put' = [put EXCEPT ![d] = @ + 1]
    /\ idle' = [idle EXCEPT ![d] = 0]
    /\ wtimer' = [wtimer EXCEPT ![d] = NoDeadline]
    /\ UNCHANGED <<peers, conns, loaded, failure, got, shared>>

\* A TCP peer that closed its end may also answer a write with a reset.
WriteFails(d, ew) ==
    \/ ew = "reset" /\ ended[Other(d)] = "reset"
    \/ ew = "reset" /\ ended[Other(d)] = "eof" /\ Other(d) \notin SmuxConns
    \/ ew = "timeout" /\ WriteLeft(d) = 0
    \/ ew = "closed" /\ ~open[Other(d)] /\ Other(d) \notin SmuxConns

WriteEnd(d) ==
    /\ At(d, "write", "report")
    /\ \E ew \in Errors :
          /\ WriteFails(d, ew)
          /\ failure' = [failure EXCEPT ![d] = ew]
    /\ wtimer' = [wtimer EXCEPT ![d] = NoDeadline]
    /\ UNCHANGED <<peers, conns, loaded, progress, shared>>

CopyStep(d) ==
    \/ LoadR(d) \/ ArmR(d) \/ ReadChunk(d) \/ ReadEnd(d)
    \/ LoadW(d) \/ ArmW(d) \/ StartW(d) \/ WriteChunk(d) \/ WriteEnd(d)

-----------------------------------------------------------------------------
(* The rest of openOneWayTunnel: report the end of the loop (an io.EOF was *)
(* suppressed, so it is reported as nil), then make the other loop end too.*)

\* Mutant: the last report wins, firstErr without its sync.Once.
ReportLast(d) ==
    /\ At(d, "report", "zero")
    /\ fe' = IF failure[d] = "eof" THEN "nil" ELSE failure[d]
    /\ winner' = d
    /\ UNCHANGED <<peers, conns, loaded, wtimer, failure, progress, muTimeout>>

Report(d) ==
    /\ At(d, "report", "zero")
    /\ \/ /\ fe = "unset"
          /\ fe' = IF failure[d] = "eof" THEN "nil" ELSE failure[d]
          /\ winner' = d
       \/ /\ fe # "unset"
          /\ UNCHANGED <<fe, winner>>
    /\ UNCHANGED <<peers, conns, loaded, wtimer, failure, progress, muTimeout>>

\* Mutant: "no timeout" instead of a timeout of zero.
ZeroAsNone(d) ==
    /\ At(d, "zero", "expireSrc")
    /\ muTimeout' = NoDeadline
    /\ UNCHANGED <<peers, conns, loaded, wtimer, failure, progress, fe, winner>>

Zero(d) ==
    /\ At(d, "zero", "expireSrc")
    /\ muTimeout' = 0
    /\ UNCHANGED <<peers, conns, loaded, wtimer, failure, progress, fe, winner>>

\* c.SetDeadline(longTimeAgo)
Expire(d, c, from, to) ==
    /\ At(d, from, to)
    /\ rleft' = [rleft EXCEPT ![c] = 0]
    /\ wleft' = [wleft EXCEPT ![c] = 0]
    /\ UNCHANGED <<peers, open, loaded, wtimer, failure, progress, shared>>

\* c.Close().  The first Close of a smux stream goes on to write the FIN.
Close(d, c, from, fin, to) ==
    /\ At(d, from, IF c \in SmuxConns /\ open[c] THEN fin ELSE to)
    /\ open' = [open EXCEPT ![c] = FALSE]
    /\ UNCHANGED <<peers, rleft, wleft, loaded, wtimer, failure, progress, shared>>

\* The FIN has no deadline: it waits for the session, or finds it broken.
Fin(d, c, from, to) ==
    /\ At(d, from, to)
    /\ ~stalled[c] \/ ended[c] = "reset"
    /\ UNCHANGED <<peers, conns, loaded, wtimer, failure, progress, shared>>

ExpireSrc(d) == Expire(d, d, "expireSrc", "expireDst")
ExpireDst(d) == Expire(d, Other(d), "expireDst", "closeSrc")
CloseSrc(d) == Close(d, d, "closeSrc", "finSrc", "closeDst")
FinSrc(d) == Fin(d, d, "finSrc", "closeDst")
\* Mutant: the deadlines are trusted to end the other loop, nothing is closed.
CloseDstForgotten(d) ==
    /\ At(d, "closeDst", "done")
    /\ UNCHANGED <<peers, conns, loaded, wtimer, failure, progress, shared>>
\* The last one also gives the buffer back and counts the WaitGroup down.
CloseDst(d) == Close(d, Other(d), "closeDst", "finDst", "done")
FinDst(d) == Fin(d, Other(d), "finDst", "done")

TeardownStep(d) ==
    \/ Report(d) \/ Zero(d) \/ ExpireSrc(d) \/ ExpireDst(d)
    \/ CloseSrc(d) \/ FinSrc(d) \/ CloseDst(d) \/ FinDst(d)

Step(d) == CopyStep(d) \/ TeardownStep(d)

\* openTunnel has returned: nothing is left to happen.
Stop == Returned /\ UNCHANGED vars

Next ==
    \/ \E c \in Conns : Send(c) \/ End(c) \/ Stall(c) \/ Unstall(c)
    \/ Tick
    \/ \E d \in Conns : Step(d)
    \/ Stop

\* The two goroutines run and time passes.  A smux session does not stay
\* stalled: its peer runs this code, whose own timeouts free the session.
Fairness ==
    /\ \A d \in Conns : WF_vars(CopyStep(d)) /\ SF_vars(TeardownStep(d))
    /\ WF_vars(Tick)
    /\ \A c \in SmuxConns : WF_vars(Unstall(c))

Spec == Init /\ [][Next]_vars
FairSpec == Spec /\ Fairness

-----------------------------------------------------------------------------
(* Properties.                                                             *)

\* Every variable keeps its type: deadlines are ticks or "none", a direction
\* holds at most one chunk it has read and not written.
TypeOK ==
    /\ sent \in [Conns -> Nat]
    /\ ended \in [Conns -> {"no", "eof", "reset"}]
    /\ stalled \in [Conns -> BOOLEAN]
    /\ open \in [Conns -> BOOLEAN]
    /\ rleft \in [Conns -> -1..Timeout]
    /\ wleft \in [Conns -> -1..Timeout]
    /\ pc \in [Conns -> Labels]
    /\ loaded \in [Conns -> {0, Timeout}]
    /\ wtimer \in [Conns -> -1..Timeout]
    /\ got \in [Conns -> Nat]
    /\ put \in [Conns -> Nat]
    /\ failure \in [Conns -> Errors \cup {"none", "eof"}]
    /\ muTimeout \in {0, Timeout}
    /\ fe \in Errors \cup {"unset", "nil"}
    /\ winner \in Conns \cup {Nobody}
    /\ idle \in [Conns -> 0..Timeout]

\* A clean return of openTunnel tells the truth: the direction that reported
\* nil had read everything its peer sent and written all of it, whatever the
\* other direction and its teardown did meanwhile (smux sources excepted).
CompleteOnNil ==
    fe = "nil" /\ winner \notin SmuxConns =>
        ended[winner] = "eof" /\ put[winner] = sent[winner]

\* The error openTunnel returns is never an echo of its own teardown: not the
\* "use of closed connection" its Close causes, and a timeout only when the
\* direction that reported it had moved nothing for the whole Timeout (and
\* not because the other one zeroed muTimeout or expired the deadlines).
TeardownNotReported ==
    /\ fe # "closed"
    /\ fe = "timeout" => idle[winner] = Timeout

\* "let another goroutine break from copy loop": when one direction is done,
\* the other one is not blocked, even if it re-armed a deadline from a stale
\* muTimeout after the teardown had expired it.
Blocked(d) ==
    \/ /\ pc[d] = "read"
       /\ got[d] = sent[d]
       /\ \A er \in Errors \cup {"eof"} : ~ReadFails(d, er)
    \/ /\ pc[d] = "write"
       /\ ~WriteSucceeds(d)
       /\ \A ew \in Errors : ~WriteFails(d, ew)

ReleasedByTeardown ==
    \A d \in Conns : pc[Other(d)] = "done" /\ Other(d) \notin SmuxConns => ~Blocked(d)

\* The same of every kind of connection, as the comment at common.go:105 says.
AlwaysReleased ==
    \A d \in Conns : pc[Other(d)] = "done" => ~Blocked(d)

\* Whatever its peers do (end, break, fall silent, stop reading), once they
\* have nothing more to send the tunnel comes down: both goroutines end.
Terminates == <>Returned

\* Every step of the tunnel is a step of the relay it promises to be.
R == INSTANCE Relay WITH
        Lossy <- SmuxConns,
        delivered <- put,
        outcome <- fe,
        returned <- Returned
RelaySpec == R!Spec
=============================================================================
