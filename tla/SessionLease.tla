---------------------------- MODULE SessionLease ----------------------------
(***************************************************************************)
(* What the client's session pool (src/internal/core/cmux.go and the pool  *)
(* part of client.go) promises: a connection leases a place on a session,  *)
(* at most Limit at a time, nobody but the network takes a session away    *)
(* from those who hold a place on it, and a session is retired only when   *)
(* it is empty.  Module MuxPool implements this one.                       *)
(***************************************************************************)
EXTENDS Naturals, FiniteSets

CONSTANTS
    Holders,    \* the connections
    Sessions,   \* the sessions that may exist at one time
    Limit       \* places on a session

VARIABLES
    session,    \* session[s]: "free", "up", "failing", "retired" or "lost"
    places      \* places[s]: the connections with a place on s

vars == <<session, places>>

Init ==
    /\ session = [s \in Sessions |-> "free"]
    /\ places = [s \in Sessions |-> {}]

\* A new session takes the name of one that is over.
Establish(s) ==
    /\ session[s] \in {"free", "retired", "lost"}
    /\ session' = [session EXCEPT ![s] = "up"]
    /\ places' = [places EXCEPT ![s] = {}]

\* Only a working session is leased, and no connection has two places.
Lease(h, s) ==
    /\ session[s] = "up"
    /\ Cardinality(places[s]) < Limit
    /\ \A s2 \in Sessions : h \in places[s2] => session[s2] = "lost"
    /\ places' = [places EXCEPT ![s] = @ \cup {h}]
    /\ UNCHANGED session

Release(h, s) ==
    /\ h \in places[s]
    /\ places' = [places EXCEPT ![s] = @ \ {h}]
    /\ UNCHANGED session

\* The client closes a session: never under a connection that uses it.
Retire(s) ==
    /\ session[s] \in {"up", "failing"}
    /\ places[s] = {}
    /\ session' = [session EXCEPT ![s] = "retired"]
    /\ UNCHANGED places

\* The network takes it away, at once or by failing first.
Lose(s) ==
    /\ session[s] \in {"up", "failing"}
    /\ \E how \in {"failing", "lost"} : session' = [session EXCEPT ![s] = how]
    /\ UNCHANGED places

Next ==
    \E s \in Sessions :
        \/ Establish(s) \/ Retire(s) \/ Lose(s)
        \/ \E h \in Holders : Lease(h, s) \/ Release(h, s)

Spec == Init /\ [][Next]_vars

-----------------------------------------------------------------------------
(* What follows for the connections.                                       *)

TypeOK ==
    /\ session \in [Sessions -> {"free", "up", "failing", "retired", "lost"}]
    /\ places \in [Sessions -> SUBSET Holders]

\* No session has more holders than places, a session that was retired has none,
\* and of two sessions that one connection holds a place on, one is lost.
Respected ==
    /\ \A s \in Sessions :
          /\ Cardinality(places[s]) <= Limit
          /\ session[s] \in {"free", "retired"} => places[s] = {}
    /\ \A s, s2 \in Sessions : s # s2 /\ places[s] \cap places[s2] # {} =>
          session[s] = "lost" \/ session[s2] = "lost"

\* A session that has holders ends by being lost, never by being retired.
NeverTaken ==
    \A s \in Sessions : places[s] # {} /\ session[s] # "lost" => session'[s] # "retired"
=============================================================================
