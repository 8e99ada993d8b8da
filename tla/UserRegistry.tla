---------------------------- MODULE UserRegistry ----------------------------
(***************************************************************************)
(* What the multi-user server (src/internal/core/multi_user_server.go and  *)
(* multi_user_http_mux.go) promises: a command of the controller takes     *)
(* effect as a whole and at one moment, the count a Ping reports is the    *)
(* number of users at one moment, and a connection is admitted to the      *)
(* destination its path has at one moment and keeps it until it ends,      *)
(* whatever becomes of the user.  Module MUServer implements this one.     *)
(***************************************************************************)
EXTENDS Naturals, Sequences, FiniteSets

CONSTANTS
    Paths, Dsts,  \* what the users are made of
    None,         \* no user, no destination, no command
    Commands,     \* the requests the controller may get
    Handlers,     \* requests to the controller being handled
    Clients,      \* requests to the server being handled
    Streams       \* streams that one client connection may have at a time

VARIABLES
    users,        \* users[p]: the destination of the user with path p, or None
    asked,        \* asked[h]: the command h has to obey
    answer,       \* answer[h]: its answer
    want,         \* want[c]: the path c asks for
    route,        \* route[c]: the destination c was admitted to
    right         \* right[c]: the destinations its streams are connected to

vars == <<users, asked, answer, want, route, right>>

Answer(res, n) == [res |-> res, users |-> n]
NoAnswer == Answer("unset", 0)

Init ==
    /\ users = [p \in Paths |-> None]
    /\ asked = [h \in Handlers |-> None]
    /\ answer = [h \in Handlers |-> NoAnswer]
    /\ want = [c \in Clients |-> None]
    /\ route = [c \in Clients |-> None]
    /\ right = [c \in Clients |-> [s \in Streams |-> None]]

\* What entry k of a command says of its path.
Value(cmd, k) == IF cmd.opt = "add" THEN cmd.args[k].dst ELSE None

\* new is old after the first n entries of cmd: of a repeated path the last
\* entry counts, and a path that is not named keeps what it had.
Applied(cmd, n, old, new) ==
    \A p \in Paths :
        /\ (\A k \in 1..n : cmd.args[k].path # p) => new[p] = old[p]
        /\ \A k \in 1..n :
              /\ cmd.args[k].path = p
              /\ \A j \in k+1..n : cmd.args[j].path # p
              => new[p] = Value(cmd, k)

Count(map) == Cardinality({p \in Paths : map[p] # None})

\* The effect of a whole command and its answer.
Obeys(cmd, old, new, reply) ==
    \/ /\ cmd.opt \in {"add", "del"} /\ cmd.args # <<>>
       /\ Applied(cmd, Len(cmd.args), old, new) /\ reply = Answer("ok", 0)
    \/ /\ cmd.opt \in {"add", "del"} /\ cmd.args = <<>>
       /\ new = old /\ reply = Answer("err", 0)
    \/ /\ cmd.opt = "reset"
       /\ new = [p \in Paths |-> None] /\ reply = Answer("ok", 0)
    \/ cmd.opt = "ping" /\ new = old /\ reply = Answer("ok", Count(old))
    \/ cmd.opt = "other" /\ new = old /\ reply = Answer("err", 0)
    \/ cmd.opt = "unreadable" /\ new = old /\ reply = Answer("silence", 0)

Ask(h) ==
    /\ asked[h] = None
    /\ \E cmd \in Commands : asked' = [asked EXCEPT ![h] = cmd]
    /\ UNCHANGED <<users, answer, want, route, right>>

Obey(h) ==
    /\ asked[h] # None /\ answer[h] = NoAnswer
    /\ users' \in [Paths -> Dsts \cup {None}]
    /\ \E res \in {"ok", "err", "silence"}, n \in 0..Cardinality(Paths) :
          /\ answer' = [answer EXCEPT ![h] = Answer(res, n)]
          /\ Obeys(asked[h], users, users', Answer(res, n))
    /\ UNCHANGED <<asked, want, route, right>>

Reply(h) ==
    /\ answer[h] # NoAnswer
    /\ asked' = [asked EXCEPT ![h] = None]
    /\ answer' = [answer EXCEPT ![h] = NoAnswer]
    /\ UNCHANGED <<users, want, route, right>>

Come(c) ==
    /\ want[c] = None
    /\ \E p \in Paths : want' = [want EXCEPT ![c] = p]
    /\ UNCHANGED <<users, asked, answer, route, right>>

Admit(c) ==
    /\ want[c] # None /\ route[c] = None
    /\ users[want[c]] # None
    /\ route' = [route EXCEPT ![c] = users[want[c]]]
    /\ UNCHANGED <<users, asked, answer, want, right>>

\* A stream is connected to the destination its connection was admitted to.
Connect(c, s) ==
    /\ route[c] # None /\ right[c][s] = None
    /\ right' = [right EXCEPT ![c][s] = route[c]]
    /\ UNCHANGED <<users, asked, answer, want, route>>

Disconnect(c, s) ==
    /\ right[c][s] # None
    /\ right' = [right EXCEPT ![c][s] = None]
    /\ UNCHANGED <<users, asked, answer, want, route>>

\* Only its own end, or a path without a user, sends a client away.
Go(c) ==
    /\ want[c] # None
    /\ \/ route[c] # None /\ right[c] = [s \in Streams |-> None]
       \/ route[c] = None /\ users[want[c]] = None
    /\ want' = [want EXCEPT ![c] = None]
    /\ route' = [route EXCEPT ![c] = None]
    /\ UNCHANGED <<users, asked, answer, right>>

Next ==
    \/ \E h \in Handlers : Ask(h) \/ Obey(h) \/ Reply(h)
    \/ \E c \in Clients :
          \/ Come(c) \/ Admit(c) \/ Go(c)
          \/ \E s \in Streams : Connect(c, s) \/ Disconnect(c, s)

Spec == Init /\ [][Next]_vars
=============================================================================
