------------------------------ MODULE MuxPool ------------------------------
(***************************************************************************)
(* The client's pool of smux sessions: getMuxStream and dialNewSmuxSess of *)
(* src/internal/core/client.go, muxSession and muxStream of cmux.go, and   *)
(* what they use of a smux.Session.                                        *)
(*                                                                         *)
(* A caller is one ForwardConn: it ranges over the pool for a session that *)
(* gives it a stream, dials a session of its own when none does, relays,   *)
(* and then its stream is closed three times, by either direction of       *)
(* openTunnel (concurrently) and by its own deferred Close, each of which  *)
(* also tries to close the session.                                        *)
(***************************************************************************)
EXTENDS Naturals, FiniteSets

CONSTANTS
    Callers,    \* the connections being forwarded
    Sessions,   \* bound: sessions that exist at one time
    Limit,      \* conf.MuxMaxStream
    Directions, \* the two goroutines of openTunnel
    Deferred,   \* ForwardConn's own, deferred Close
    NoSession   \* no session

ASSUME PoolAssumption ==
    /\ IsFiniteSet(Callers)
    /\ NoSession \notin Sessions
    /\ Deferred \notin Directions
    /\ Limit \in Nat \ {0}

VARIABLES
    session,    \* session[s]: "free", "up", "failing" (a socket error, not yet
                \* closed), "retired" (closed by the client), "lost"
    places,     \* places[s]: callers with a stream in the session's map
    pool,       \* smuxSessPool
    mu,         \* mu[s]: who holds the muxSession's mutex
    pc,         \* pc[c]: the next statement of caller c
    sess,       \* sess[c]: the session c works with
    own,        \* own[c]: c has dialled sess[c] itself
    seen, due,  \* Range: sessions c visited, sessions it may not skip
    closer      \* closer[p]: the next statement of a Close of a stream

vars == <<session, places, pool, mu, pc, sess, own, seen, due, closer>>

\* The Closes of a caller's stream: one per direction, and the deferred one.
Closes == Callers \X (Directions \cup {Deferred})
Of(p) == p[1]
Last(c) == <<c, Deferred>>

Nobody == <<"nobody">>
Opening(c) == <<"opening", c>>
Closing(p) == <<"closing", p>>

Init ==
    /\ session = [s \in Sessions |-> "free"]
    /\ places = [s \in Sessions |-> {}]
    /\ pool = {}
    /\ mu = [s \in Sessions |-> Nobody]
    /\ pc = [c \in Callers |-> "out"]
    /\ sess = [c \in Callers |-> NoSession]
    /\ own = [c \in Callers |-> FALSE]
    /\ seen = [c \in Callers |-> {}]
    /\ due = [c \in Callers |-> {}]
    /\ closer = [p \in Closes |-> "wait"]

IsClosed(s) == session[s] \in {"retired", "lost"}
NumStreams(s) == IF IsClosed(s) THEN 0 ELSE Cardinality(places[s])

At(c, from, to) == pc[c] = from /\ pc' = [pc EXCEPT ![c] = to]

-----------------------------------------------------------------------------
(* The sessions' network.                                                  *)

\* A socket error fails every Read, Write and OpenStream; smux leaves the
\* session open and only its keepalive closes it later.
Break(s) ==
    /\ session[s] = "up"
    /\ session' = [session EXCEPT ![s] = "failing"]
    /\ UNCHANGED <<places, pool, mu, pc, sess, own, seen, due, closer>>

\* keepalive: nothing was received for a whole KeepAliveTimeout.
KeepaliveClose(s) ==
    /\ session[s] \in {"up", "failing"}
    /\ session' = [session EXCEPT ![s] = "lost"]
    /\ UNCHANGED <<places, pool, mu, pc, sess, own, seen, due, closer>>

-----------------------------------------------------------------------------
(* getMuxStream: range over the pool, then dial.                           *)

Arrive(c) ==
    /\ At(c, "out", "range")
    /\ due' = [due EXCEPT ![c] = pool]
    /\ UNCHANGED <<session, places, pool, mu, sess, own, seen, closer>>

\* sync.Map.Range visits no key twice and may or may not see a concurrent Store.
Visit(c, s) ==
    /\ At(c, "range", "lock")
    /\ s \in pool \ seen[c]
    /\ ~IsClosed(s)
    /\ seen' = [seen EXCEPT ![c] = @ \cup {s}]
    /\ sess' = [sess EXCEPT ![c] = s]
    /\ UNCHANGED <<session, places, pool, mu, own, due, closer>>

Purge(c, s) ==
    /\ pc[c] = "range"
    /\ s \in pool \ seen[c]
    /\ IsClosed(s)
    /\ seen' = [seen EXCEPT ![c] = @ \cup {s}]
    /\ pool' = pool \ {s}
    /\ UNCHANGED <<session, places, mu, pc, sess, own, due, closer>>

RangeEnds(c) ==
    /\ At(c, "range", "dial")
    /\ due[c] \cap pool \subseteq seen[c]
    /\ seen' = [seen EXCEPT ![c] = {}]
    /\ due' = [due EXCEPT ![c] = {}]
    /\ UNCHANGED <<session, places, pool, mu, sess, own, closer>>

\* A session nobody refers to any more lends its name to a new one.
Unused(s) ==
    /\ session[s] = "free" \/ IsClosed(s)
    /\ s \notin pool
    /\ \A c \in Callers : sess[c] # s /\ s \notin seen[c] \cup due[c]

Dial(c, s) ==
    /\ At(c, "dial", "store")
    /\ Unused(s)
    /\ session' = [session EXCEPT ![s] = "up"]
    /\ places' = [places EXCEPT ![s] = {}]
    /\ sess' = [sess EXCEPT ![c] = s]
    /\ own' = [own EXCEPT ![c] = TRUE]
    /\ UNCHANGED <<pool, mu, seen, due, closer>>

DialFails(c) ==
    /\ At(c, "dial", "failed")
    /\ UNCHANGED <<session, places, pool, mu, sess, own, seen, due, closer>>

Store(c) ==
    /\ At(c, "store", "lock")
    /\ pool' = pool \cup {sess[c]}
    /\ UNCHANGED <<session, places, mu, sess, own, seen, due, closer>>

-----------------------------------------------------------------------------
(* muxSession.openStream, under mu.                                        *)

\* Mutant: openStream counts and opens without the mutex.
LockForgotten(c) ==
    /\ At(c, "lock", "count")
    /\ UNCHANGED <<session, places, pool, mu, sess, own, seen, due, closer>>

Lock(c) ==
    /\ At(c, "lock", "count")
    /\ mu[sess[c]] = Nobody
    /\ mu' = [mu EXCEPT ![sess[c]] = Opening(c)]
    /\ UNCHANGED <<session, places, pool, sess, own, seen, due, closer>>

\* Mutant: a full session is dropped like one that failed.
TooManyDropped(c) ==
    /\ At(c, "count", "delete")
    /\ ~own[c] /\ NumStreams(sess[c]) >= Limit
    /\ mu' = [mu EXCEPT ![sess[c]] = Nobody]
    /\ UNCHANGED <<session, places, pool, sess, own, seen, due, closer>>

\* Mutant: a full session is tried again and again.
TooManyRetried(c) ==
    /\ At(c, "count", "lock")
    /\ ~own[c] /\ NumStreams(sess[c]) >= Limit
    /\ mu' = [mu EXCEPT ![sess[c]] = Nobody]
    /\ UNCHANGED <<session, places, pool, sess, own, seen, due, closer>>

\* ErrTooManyStreams: a caller that ranges tries the next session, one that
\* has dialled this session returns the error.
TooMany(c) ==
    /\ At(c, "count", "range")
    /\ ~own[c] /\ NumStreams(sess[c]) >= Limit
    /\ mu' = [mu EXCEPT ![sess[c]] = Nobody]
    /\ sess' = [sess EXCEPT ![c] = NoSession]
    /\ UNCHANGED <<session, places, pool, own, seen, due, closer>>

Refuse(c) ==
    /\ At(c, "count", "refused")
    /\ own[c] /\ NumStreams(sess[c]) >= Limit
    /\ mu' = [mu EXCEPT ![sess[c]] = Nobody]
    /\ UNCHANGED <<session, places, pool, sess, own, seen, due, closer>>

Room(c) ==
    /\ At(c, "count", "syn")
    /\ NumStreams(sess[c]) < Limit
    /\ UNCHANGED <<session, places, pool, mu, sess, own, seen, due, closer>>

\* OpenStream writes the SYN frame and registers the stream, or fails.
OpenStream(c) ==
    /\ At(c, "syn", "using")
    /\ session[sess[c]] = "up"
    /\ places' = [places EXCEPT ![sess[c]] = @ \cup {c}]
    /\ mu' = [mu EXCEPT ![sess[c]] = Nobody]
    /\ seen' = [seen EXCEPT ![c] = {}]
    /\ due' = [due EXCEPT ![c] = {}]
    /\ UNCHANGED <<session, pool, sess, own, closer>>

OpenFails(c) ==
    /\ At(c, "syn", IF own[c] THEN "failed" ELSE "delete")
    /\ session[sess[c]] # "up"
    /\ mu' = [mu EXCEPT ![sess[c]] = Nobody]
    /\ UNCHANGED <<session, places, pool, sess, own, seen, due, closer>>

\* Mutant: the session that failed is tried again after it was dropped.
DeleteRetried(c) ==
    /\ At(c, "delete", "lock")
    /\ pool' = pool \ {sess[c]}
    /\ sess' = [sess EXCEPT ![c] = NoSession]
    /\ UNCHANGED <<session, places, mu, own, seen, due, closer>>

\* Range goes on after a session that failed.
Delete(c) ==
    /\ At(c, "delete", "range")
    /\ pool' = pool \ {sess[c]}
    /\ sess' = [sess EXCEPT ![c] = NoSession]
    /\ UNCHANGED <<session, places, mu, own, seen, due, closer>>

\* ForwardConn returns getMuxStream's error.
GiveUp(c) ==
    /\ pc[c] \in {"failed", "refused"}
    /\ pc' = [pc EXCEPT ![c] = "out"]
    /\ sess' = [sess EXCEPT ![c] = NoSession]
    /\ own' = [own EXCEPT ![c] = FALSE]
    /\ UNCHANGED <<session, places, pool, mu, seen, due, closer>>

-----------------------------------------------------------------------------
(* muxStream.Close, three times: Stream.Close, then tryCloseOnIdle.        *)

CloserAt(p, from, to) ==
    closer[p] = from /\ closer' = [closer EXCEPT ![p] = to]

\* The tunnel is over: its directions close the stream, each in its time.
TunnelEnds(c) ==
    /\ At(c, "using", "closing")
    /\ closer' = [p \in Closes |->
                    IF Of(p) = c /\ p # Last(c) THEN "close" ELSE closer[p]]
    /\ UNCHANGED <<session, places, pool, mu, sess, own, seen, due>>

DeferredClose(c) ==
    /\ pc[c] = "closing"
    /\ \A p \in Closes : Of(p) = c /\ p # Last(c) => closer[p] = "done"
    /\ CloserAt(Last(c), "wait", "close")
    /\ UNCHANGED <<session, places, pool, mu, pc, sess, own, seen, due>>

\* The stream's dieOnce is spent: by a first Close or by the session's.
StreamDead(c) ==
    \/ IsClosed(sess[c])
    \/ \E p \in Closes : Of(p) = c /\ closer[p] \notin {"wait", "close"}

\* Only the first Close of the stream sends the FIN and takes it off the map.
CloseStream(p) ==
    /\ CloserAt(p, "close", "fin")
    /\ ~StreamDead(Of(p))
    /\ UNCHANGED <<session, places, pool, mu, pc, sess, own, seen, due>>

CloseDeadStream(p) ==
    /\ CloserAt(p, "close", "idle")
    /\ StreamDead(Of(p))
    /\ UNCHANGED <<session, places, pool, mu, pc, sess, own, seen, due>>

StreamClosed(p) ==
    /\ CloserAt(p, "fin", "idle")
    /\ places' = [places EXCEPT ![sess[Of(p)]] = @ \ {Of(p)}]
    /\ UNCHANGED <<session, pool, mu, pc, sess, own, seen, due>>

LockIdle(p) ==
    /\ CloserAt(p, "idle", "check")
    /\ mu[sess[Of(p)]] = Nobody
    /\ mu' = [mu EXCEPT ![sess[Of(p)]] = Closing(p)]
    /\ UNCHANGED <<session, places, pool, pc, sess, own, seen, due>>

NotIdle(p) ==
    /\ CloserAt(p, "check", "done")
    /\ NumStreams(sess[Of(p)]) # 0
    /\ mu' = [mu EXCEPT ![sess[Of(p)]] = Nobody]
    /\ UNCHANGED <<session, places, pool, pc, sess, own, seen, due>>

\* Mutant: the mutex is released between the check and the Close.
IsIdleUnlocked(p) ==
    /\ CloserAt(p, "check", "end")
    /\ NumStreams(sess[Of(p)]) = 0
    /\ mu' = [mu EXCEPT ![sess[Of(p)]] = Nobody]
    /\ UNCHANGED <<session, places, pool, pc, sess, own, seen, due>>

IsIdle(p) ==
    /\ CloserAt(p, "check", "end")
    /\ NumStreams(sess[Of(p)]) = 0
    /\ UNCHANGED <<session, places, pool, mu, pc, sess, own, seen, due>>

\* Mutant: the idle session is left to its keepalive.
CloseSessionForgotten(p) ==
    /\ CloserAt(p, "end", "done")
    /\ mu' = [mu EXCEPT ![sess[Of(p)]] = Nobody]
    /\ UNCHANGED <<session, places, pool, pc, sess, own, seen, due>>

\* Session.Close has no effect on a session that is closed already.
CloseSession(p) ==
    /\ CloserAt(p, "end", "done")
    /\ session' = [session EXCEPT ![sess[Of(p)]] =
                      IF IsClosed(sess[Of(p)]) THEN @ ELSE "retired"]
    /\ mu' = [mu EXCEPT ![sess[Of(p)]] = Nobody]
    /\ UNCHANGED <<places, pool, pc, sess, own, seen, due>>

\* ForwardConn returns.
Leave(c) ==
    /\ At(c, "closing", "out")
    /\ closer[Last(c)] = "done"
    /\ closer' = [p \in Closes |-> IF Of(p) = c THEN "wait" ELSE closer[p]]
    /\ sess' = [sess EXCEPT ![c] = NoSession]
    /\ own' = [own EXCEPT ![c] = FALSE]
    /\ UNCHANGED <<session, places, pool, mu, seen, due>>

-----------------------------------------------------------------------------
OpenStep(c) ==
    \/ \E s \in Sessions : Visit(c, s) \/ Purge(c, s) \/ Dial(c, s)
    \/ RangeEnds(c) \/ DialFails(c) \/ Store(c) \/ Lock(c)
    \/ TooMany(c) \/ Refuse(c) \/ Room(c)
    \/ OpenStream(c) \/ OpenFails(c) \/ Delete(c) \/ GiveUp(c)

EndStep(c) == DeferredClose(c) \/ Leave(c)

CloseStep(p) ==
    \/ CloseStream(p) \/ CloseDeadStream(p) \/ StreamClosed(p)
    \/ LockIdle(p) \/ NotIdle(p) \/ IsIdle(p) \/ CloseSession(p)

Next ==
    \/ \E s \in Sessions : Break(s) \/ KeepaliveClose(s)
    \/ \E c \in Callers : Arrive(c) \/ OpenStep(c) \/ TunnelEnds(c) \/ EndStep(c)
    \/ \E p \in Closes : CloseStep(p)

\* The goroutines of a connection: ForwardConn and the two of its tunnel.
CallerStep(c) ==
    \/ OpenStep(c) \/ EndStep(c)
    \/ \E p \in Closes : Of(p) = c /\ CloseStep(p)

\* Goroutines run, a SYN or FIN write ends, and a sync.Mutex lets nobody wait
\* forever (hence strong fairness); neither new connections nor the end of a
\* tunnel are promised.
Fairness == \A c \in Callers : SF_vars(CallerStep(c))

Spec == Init /\ [][Next]_vars
FairSpec == Spec /\ Fairness

-----------------------------------------------------------------------------
(* Properties.                                                             *)

Status == {"free", "up", "failing", "retired", "lost"}
Working == {"store", "lock", "count", "syn", "delete", "using", "closing", "refused"}
Labels == Working \cup {"out", "range", "dial", "failed"}
Owners ==
    {Nobody} \cup {Opening(c) : c \in Callers}
             \cup {Closing(p) : p \in Closes}
CloserLabels == {"wait", "close", "fin", "idle", "check", "end", "done"}

\* Every variable keeps its type, and a caller at work has a session.
TypeOK ==
    /\ session \in [Sessions -> Status]
    /\ places \in [Sessions -> SUBSET Callers]
    /\ pool \in SUBSET Sessions
    /\ mu \in [Sessions -> Owners]
    /\ pc \in [Callers -> Labels]
    /\ sess \in [Callers -> Sessions \cup {NoSession}]
    /\ own \in [Callers -> BOOLEAN]
    /\ seen \in [Callers -> SUBSET Sessions]
    /\ due \in [Callers -> SUBSET Sessions]
    /\ closer \in [Closes -> CloserLabels]
    /\ \A c \in Callers : pc[c] \in Working => sess[c] \in Sessions

\* mux-max-stream is "the maximum number of data streams in one TCP
\* connection", however many callers find the same session at the same time.
StreamLimit == \A s \in Sessions : Cardinality(places[s]) <= Limit

\* tryCloseOnIdle never takes a session away from a connection that uses it,
\* not even one that opened its stream while another was closing the last.
UsersKeepSession ==
    \A c \in Callers : pc[c] = "using" =>
        /\ c \in places[sess[c]]
        /\ session[sess[c]] # "retired"

InHand(c, s) ==
    /\ sess[c] = s
    /\ \/ pc[c] \in {"store", "lock", "count", "syn"}
       \/ pc[c] = "closing" /\ closer[Last(c)] # "done"

\* A working session without streams is in somebody's hands: a caller about to
\* open a stream on it, or a Close that has yet to try to close it.  Nobody
\* leaves one behind, where only its own keepalive would ping it forever.
NoIdleLeak ==
    \A s \in Sessions : session[s] = "up" /\ places[s] = {} =>
        \E c \in Callers : InHand(c, s)

\* A working session is in the pool for others to share, from its Store on:
\* no caller ever drops one another caller could still use.
WorkingInPool ==
    \A s \in Sessions : session[s] = "up" =>
        s \in pool \/ \E c \in Callers : sess[c] = s /\ pc[c] = "store"

\* getMuxStream returns: a connection gets a stream or an error, it is never
\* left waiting for a mutex or going round the pool.
GetMuxStreamReturns ==
    \A c \in Callers : pc[c] = "range" ~> pc[c] \in {"using", "failed", "refused"}

\* A working session that has lost its last stream is soon used again or
\* closed, whoever is last to notice.
IdleSessionEnds ==
    \A s \in Sessions :
        session[s] = "up" /\ places[s] = {} ~> session[s] # "up" \/ places[s] # {}

\* "this session opened too many streams, try next" (client.go:297): no
\* connection is refused because a session is full.
NeverRefused == \A c \in Callers : pc[c] # "refused"

\* Every step of the pool is a step of the leases it promises.
L == INSTANCE SessionLease WITH Holders <- Callers
LeaseSpec == L!Spec
=============================================================================
