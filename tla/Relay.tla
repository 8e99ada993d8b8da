-------------------------------- MODULE Relay --------------------------------
(***************************************************************************)
(* What openTunnel (src/internal/core/common.go) promises its callers: two *)
(* connections are relayed to each other, in order and without invention,  *)
(* until the first of the two directions ends.  That first end decides the *)
(* outcome of the whole tunnel, a clean outcome ("nil") is a peer that     *)
(* finished and whose last chunk was passed on, and after the return       *)
(* nothing more is delivered.  How the directions are run, timed and torn  *)
(* down is left to the module Tunnel, which implements this one.           *)
(***************************************************************************)
EXTENDS Naturals

CONSTANTS
    Conns,      \* the two relayed connections
    Lossy       \* those whose end may be reported before all their chunks

VARIABLES
    sent,       \* sent[c]: chunks the peer behind c has sent into c
    ended,      \* ended[c]: how that peer stopped sending, "no" while it may
    delivered,  \* delivered[c]: chunks read from c and handed to the other
    outcome,    \* "unset", then what openTunnel will return
    returned    \* openTunnel has returned

vars == <<sent, ended, delivered, outcome, returned>>

Errors == {"reset", "timeout"}

Init ==
    /\ sent = [c \in Conns |-> 0]
    /\ ended = [c \in Conns |-> "no"]
    /\ delivered = [c \in Conns |-> 0]
    /\ outcome = "unset"
    /\ returned = FALSE

PeerSends(c) ==
    /\ ended[c] = "no"
    /\ sent' = [sent EXCEPT ![c] = @ + 1]
    /\ UNCHANGED <<ended, delivered, outcome, returned>>

PeerEnds(c) ==
    /\ ended[c] = "no"
    /\ \E how \in {"eof", "reset"} : ended' = [ended EXCEPT ![c] = how]
    /\ UNCHANGED <<sent, delivered, outcome, returned>>

Deliver(c) ==
    /\ ~returned
    /\ delivered[c] < sent[c]
    /\ delivered' = [delivered EXCEPT ![c] = @ + 1]
    /\ UNCHANGED <<sent, ended, outcome, returned>>

\* A direction ended well: its peer finished and nothing of it is missing.
Finish(c) ==
    /\ outcome = "unset"
    /\ ended[c] # "no"
    /\ c \notin Lossy => ended[c] = "eof" /\ delivered[c] = sent[c]
    /\ outcome' = "nil"
    /\ UNCHANGED <<sent, ended, delivered, returned>>

\* A direction failed, for a reason that is not the tunnel's own teardown.
Fail ==
    /\ outcome = "unset"
    /\ outcome' \in Errors
    /\ UNCHANGED <<sent, ended, delivered, returned>>

Return ==
    /\ outcome # "unset"
    /\ ~returned
    /\ returned' = TRUE
    /\ UNCHANGED <<sent, ended, delivered, outcome>>

Next ==
    \/ \E c \in Conns : PeerSends(c) \/ PeerEnds(c) \/ Deliver(c) \/ Finish(c)
    \/ Fail
    \/ Return

Spec == Init /\ [][Next]_vars

-----------------------------------------------------------------------------
(* What follows for the callers.                                           *)

TypeOK ==
    /\ sent \in [Conns -> Nat] /\ delivered \in [Conns -> Nat]
    /\ ended \in [Conns -> {"no", "eof", "reset"}]
    /\ outcome \in Errors \cup {"unset", "nil"} /\ returned \in BOOLEAN

\* Nothing is delivered that was not sent, a clean outcome is that of a peer that
\* has finished and of which nothing is missing, now as when it was decided, and
\* there is no return without an outcome.
Honest ==
    /\ \A c \in Conns : delivered[c] <= sent[c]
    /\ outcome = "nil" =>
          \E c \in Conns : /\ ended[c] # "no"
                           /\ c \notin Lossy => ended[c] = "eof" /\ delivered[c] = sent[c]
    /\ returned => outcome # "unset"

\* The first outcome is the last, and after the return nothing is delivered.
Final ==
    /\ outcome # "unset" => outcome' = outcome
    /\ returned => UNCHANGED <<delivered, outcome, returned>>
=============================================================================
