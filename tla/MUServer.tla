------------------------------ MODULE MUServer ------------------------------
(***************************************************************************)
(* The multi-user server: MUServer.ServeHTTP of multi_user_server.go, the  *)
(* controller, and the mux of multi_user_http_mux.go, a map from paths to  *)
(* destinations under a sync.RWMutex.  net/http runs every request in a    *)
(* goroutine of its own: a handler h is a command to the controller, a     *)
(* client c a WebSocket request to the server and all that follows on it.  *)
(***************************************************************************)
EXTENDS Naturals, Sequences, FiniteSets

CONSTANTS
    Paths, Dsts, \* the paths and destinations that occur
    None,        \* no entry of the map, no command, no destination
    Commands,    \* bound: the request bodies that arrive
    Handlers,    \* bound: commands being handled at one time
    Clients,     \* bound: client connections at one time
    Streams      \* bound: streams of a client connection at one time

Opts == {"add", "del", "reset", "ping", "other", "unreadable"}
Entries == [path : Paths, dst : Dsts]

\* "other" is an unknown opt; "unreadable" is any request ServeHTTP gives up
\* before its switch: not a POST, too large, cut short, or not JSON.
ASSUME MUAssumption ==
    /\ IsFiniteSet(Paths)
    /\ None \notin Paths \cup Dsts \cup Commands \cup Handlers
    /\ Handlers \cap Clients = {}
    /\ Commands \subseteq [opt : Opts, args : Seq(Entries)]

VARIABLES
    pathMap,     \* mux.pathMap; None where it has no key
    writer,      \* who holds the RWMutex for writing, or waits for its readers
    readers,     \* who holds it for reading
    pc,          \* pc[h]: the next statement of handler h
    cmd,         \* cmd[h]: the command h has received
    next,        \* next[h]: the entry of args_bunch h handles next
    answer,      \* answer[h]: the MURes h sends
    cpc,         \* cpc[c]: the next statement of client c
    want,        \* want[c]: the path c asks for
    dst,         \* dst[c]: the destination get returned to c
    mode,        \* mode[c]: "plain" or "mux"
    right,       \* right[c][s]: what stream s of c is connected to
    dialing,     \* dialing[c]: streams of c that are dialing
    before       \* history: pathMap when the writer locked it

handling == <<pc, cmd, next, answer>>
serving == <<cpc, want, dst, mode, right, dialing>>
vars == <<pathMap, writer, readers, handling, serving, before>>

Answer(res, n) == [res |-> res, users |-> n]
NoAnswer == Answer("unset", 0)
Empty == [p \in Paths |-> None]

Init ==
    /\ pathMap = Empty
    /\ writer = None
    /\ readers = {}
    /\ pc = [h \in Handlers |-> "idle"]
    /\ cmd = [h \in Handlers |-> None]
    /\ next = [h \in Handlers |-> 1]
    /\ answer = [h \in Handlers |-> NoAnswer]
    /\ cpc = [c \in Clients |-> "out"]
    /\ want = [c \in Clients |-> None]
    /\ dst = [c \in Clients |-> None]
    /\ mode = [c \in Clients |-> "plain"]
    /\ right = [c \in Clients |-> [s \in Streams |-> None]]
    /\ dialing = [c \in Clients |-> {}]
    /\ before = Empty

At(h, from, to) == pc[h] = from /\ pc' = [pc EXCEPT ![h] = to]
Answers(h, res, n) == answer' = [answer EXCEPT ![h] = Answer(res, n)]

-----------------------------------------------------------------------------
(* MUServer.ServeHTTP: read a command, obey it, answer.                    *)

Receive(h) ==
    /\ At(h, "idle", "switch")
    /\ \E k \in Commands : cmd' = [cmd EXCEPT ![h] = k]
    /\ UNCHANGED <<pathMap, writer, readers, next, answer, serving, before>>

\* Returns that do not touch the users: nothing is written to the response of
\* a request that could not be read.
Refuse(h) ==
    /\ At(h, "switch", "send")
    /\ \/ cmd[h].opt \in {"add", "del"} /\ cmd[h].args = <<>> /\ Answers(h, "err", 0)
       \/ cmd[h].opt = "other" /\ Answers(h, "err", 0)
       \/ cmd[h].opt = "unreadable" /\ Answers(h, "silence", 0)
    /\ UNCHANGED <<pathMap, writer, readers, cmd, next, serving, before>>

\* m.Lock(), at the start of add, del and reset: a sync.RWMutex lets no new
\* reader in from here on, then waits for those it has.
Lock(h) ==
    /\ At(h, "switch", "drain")
    /\ \/ cmd[h].opt \in {"add", "del"} /\ cmd[h].args # <<>>
       \/ cmd[h].opt = "reset"
    /\ writer = None
    /\ writer' = h
    /\ before' = pathMap
    /\ UNCHANGED <<pathMap, readers, cmd, next, answer, serving>>

Locked(h) ==
    /\ At(h, "drain", "write")
    /\ readers = {}
    /\ UNCHANGED <<pathMap, writer, readers, cmd, next, answer, serving, before>>

\* Mutant: the loop does not get past a path that is there already.
AddStuck(h) ==
    /\ At(h, "write", "write")
    /\ cmd[h].opt = "add" /\ next[h] <= Len(cmd[h].args)
    /\ LET e == cmd[h].args[next[h]] IN
          /\ pathMap' = [pathMap EXCEPT ![e.path] = e.dst]
          /\ next' = [next EXCEPT ![h] = IF pathMap[e.path] = None THEN @ + 1 ELSE @]
    /\ UNCHANGED <<writer, readers, cmd, answer, serving, before>>

\* One turn of add's loop: a repeated path is overwritten.
Add(h) ==
    /\ At(h, "write", "write")
    /\ cmd[h].opt = "add" /\ next[h] <= Len(cmd[h].args)
    /\ LET e == cmd[h].args[next[h]] IN pathMap' = [pathMap EXCEPT ![e.path] = e.dst]
    /\ next' = [next EXCEPT ![h] = @ + 1]
    /\ UNCHANGED <<writer, readers, cmd, answer, serving, before>>

\* One turn of del's loop: a path that is not there is ignored.
Del(h) ==
    /\ At(h, "write", "write")
    /\ cmd[h].opt = "del" /\ next[h] <= Len(cmd[h].args)
    /\ LET e == cmd[h].args[next[h]] IN pathMap' = [pathMap EXCEPT ![e.path] = None]
    /\ next' = [next EXCEPT ![h] = @ + 1]
    /\ UNCHANGED <<writer, readers, cmd, answer, serving, before>>

\* Mutant: the map is set to nil, which the next add cannot write to.
ResetToNil(h) ==
    /\ At(h, "write", "unlock")
    /\ cmd[h].opt = "reset"
    /\ pathMap' = None
    /\ UNCHANGED <<writer, readers, cmd, next, answer, serving, before>>

Reset(h) ==
    /\ At(h, "write", "unlock")
    /\ cmd[h].opt = "reset"
    /\ pathMap' = Empty
    /\ UNCHANGED <<writer, readers, cmd, next, answer, serving, before>>

LoopEnds(h) ==
    /\ At(h, "write", "unlock")
    /\ cmd[h].opt \in {"add", "del"} /\ next[h] > Len(cmd[h].args)
    /\ UNCHANGED <<pathMap, writer, readers, cmd, next, answer, serving, before>>

\* m.Unlock(), and the arguments of the sendMURes that follows.
Unlock(h) ==
    /\ At(h, "unlock", "send")
    /\ writer' = None
    /\ before' = Empty
    /\ Answers(h, "ok", 0)
    /\ UNCHANGED <<pathMap, readers, cmd, next, serving>>

\* mux.len, for a Ping.
RLockLen(h) ==
    /\ At(h, "switch", "len")
    /\ cmd[h].opt = "ping"
    /\ writer = None
    /\ readers' = readers \cup {h}
    /\ UNCHANGED <<pathMap, writer, cmd, next, answer, serving, before>>

Users == {p \in Paths : pathMap[p] # None}

ReadLen(h) ==
    /\ At(h, "len", "runlock")
    /\ Answers(h, "ok", Cardinality(Users))
    /\ UNCHANGED <<pathMap, writer, readers, cmd, next, serving, before>>

RUnlockLen(h) ==
    /\ At(h, "runlock", "send")
    /\ readers' = readers \ {h}
    /\ UNCHANGED <<pathMap, writer, cmd, next, answer, serving, before>>

\* sendMURes, if there is something to send, and the return.
Send(h) ==
    /\ At(h, "send", "idle")
    /\ cmd' = [cmd EXCEPT ![h] = None]
    /\ next' = [next EXCEPT ![h] = 1]
    /\ answer' = [answer EXCEPT ![h] = NoAnswer]
    /\ UNCHANGED <<pathMap, writer, readers, serving, before>>

HandlerStep(h) ==
    \/ Refuse(h) \/ Lock(h) \/ Locked(h) \/ Add(h) \/ Del(h) \/ Reset(h)
    \/ LoopEnds(h) \/ Unlock(h) \/ RLockLen(h) \/ ReadLen(h) \/ RUnlockLen(h) \/ Send(h)

-----------------------------------------------------------------------------
(* mux.ServeHTTP: look the path up, upgrade, and serve the connection.     *)

CAt(c, from, to) == cpc[c] = from /\ cpc' = [cpc EXCEPT ![c] = to]

\* The handler of c returns.
Return(c) ==
    /\ cpc' = [cpc EXCEPT ![c] = "out"]
    /\ want' = [want EXCEPT ![c] = None]
    /\ dst' = [dst EXCEPT ![c] = None]

Come(c) ==
    /\ CAt(c, "out", "rlock")
    /\ \E p \in Paths : want' = [want EXCEPT ![c] = p]
    /\ UNCHANGED <<pathMap, writer, readers, handling, dst, mode, right, dialing, before>>

\* Mutant: the map is read without the lock.
RLockForgotten(c) ==
    /\ CAt(c, "rlock", "get")
    /\ UNCHANGED <<pathMap, writer, readers, handling, want, dst, mode, right, dialing, before>>

RLockGet(c) ==
    /\ CAt(c, "rlock", "get")
    /\ writer = None
    /\ readers' = readers \cup {c}
    /\ UNCHANGED <<pathMap, writer, handling, want, dst, mode, right, dialing, before>>

ReadGet(c) ==
    /\ CAt(c, "get", "runlock")
    /\ dst' = [dst EXCEPT ![c] = pathMap[want[c]]]
    /\ UNCHANGED <<pathMap, writer, readers, handling, want, mode, right, dialing, before>>

\* get returns, and with !ok so does ServeHTTP.
RUnlockGet(c) ==
    /\ readers' = readers \ {c}
    /\ \/ dst[c] # None /\ CAt(c, "runlock", "upgrade") /\ UNCHANGED <<want, dst>>
       \/ dst[c] = None /\ cpc[c] = "runlock" /\ Return(c)
    /\ UNCHANGED <<pathMap, writer, handling, mode, right, dialing, before>>

\* The subprotocol, or else enableMux, says whether the client speaks smux.
Upgrade(c) ==
    /\ CAt(c, "upgrade", "serve")
    /\ \E m \in {"plain", "mux"} : mode' = [mode EXCEPT ![c] = m]
    /\ UNCHANGED <<pathMap, writer, readers, handling, want, dst, right, dialing, before>>

UpgradeFails(c) ==
    /\ cpc[c] = "upgrade"
    /\ Return(c)
    /\ UNCHANGED <<pathMap, writer, readers, handling, mode, right, dialing, before>>

\* handleClientConn: the whole connection is one stream, or each stream that
\* handleClientMuxConn accepts is handled in a goroutine of its own.
Accept(c, s) ==
    /\ CAt(c, "serve", IF mode[c] = "mux" THEN "serve" ELSE "tunnel")
    /\ right[c][s] = None /\ s \notin dialing[c]
    /\ dialing' = [dialing EXCEPT ![c] = @ \cup {s}]
    /\ UNCHANGED <<pathMap, writer, readers, handling, want, dst, mode, right, before>>

Dial(c, s) ==
    /\ s \in dialing[c]
    /\ dialing' = [dialing EXCEPT ![c] = @ \ {s}]
    /\ right' = [right EXCEPT ![c][s] = dst[c]]
    /\ UNCHANGED <<pathMap, writer, readers, handling, cpc, want, dst, mode, before>>

DialFails(c, s) ==
    /\ s \in dialing[c]
    /\ dialing' = [dialing EXCEPT ![c] = @ \ {s}]
    /\ UNCHANGED <<pathMap, writer, readers, handling, cpc, want, dst, mode, right, before>>

TunnelEnds(c, s) ==
    /\ right[c][s] # None
    /\ right' = [right EXCEPT ![c][s] = None]
    /\ UNCHANGED <<pathMap, writer, readers, handling, cpc, want, dst, mode, dialing, before>>

\* The session ends, or its accept loop gives up: the streams' goroutines are
\* left to end by themselves.
AcceptEnds(c) ==
    /\ mode[c] = "mux"
    /\ CAt(c, "serve", "tunnel")
    /\ UNCHANGED <<pathMap, writer, readers, handling, want, dst, mode, right, dialing, before>>

Leave(c) ==
    /\ cpc[c] = "tunnel"
    /\ dialing[c] = {} /\ \A s \in Streams : right[c][s] = None
    /\ Return(c)
    /\ UNCHANGED <<pathMap, writer, readers, handling, mode, right, dialing, before>>

LookUpStep(c) == RLockGet(c) \/ ReadGet(c) \/ RUnlockGet(c)
StreamStep(c, s) ==
    Accept(c, s) \/ Dial(c, s) \/ DialFails(c, s) \/ TunnelEnds(c, s)

Next ==
    \/ \E h \in Handlers : Receive(h) \/ HandlerStep(h)
    \/ \E c \in Clients :
          \/ Come(c) \/ LookUpStep(c) \/ Upgrade(c) \/ UpgradeFails(c)
          \/ AcceptEnds(c) \/ Leave(c)
          \/ \E s \in Streams : StreamStep(c, s)

\* Goroutines run, and those that wait for the RWMutex are let in, readers all
\* together when a writer leaves, writers in turn (hence strong fairness);
\* nothing is promised of tunnels and clients.
Fairness ==
    /\ \A h \in Handlers : SF_vars(HandlerStep(h))
    /\ \A c \in Clients : SF_vars(LookUpStep(c))

Spec == Init /\ [][Next]_vars
FairSpec == Spec /\ Fairness

-----------------------------------------------------------------------------
(* Properties.                                                             *)

Labels == {"idle", "switch", "drain", "write", "unlock", "len", "runlock", "send"}
CLabels == {"out", "rlock", "get", "runlock", "upgrade", "serve", "tunnel"}
Replies == [res : {"unset", "ok", "err", "silence"}, users : 0..Cardinality(Paths)]

\* Every variable keeps its type.
TypeOK ==
    /\ pathMap \in [Paths -> Dsts \cup {None}]
    /\ writer \in Handlers \cup {None}
    /\ readers \subseteq Handlers \cup Clients
    /\ pc \in [Handlers -> Labels]
    /\ cmd \in [Handlers -> Commands \cup {None}]
    /\ next \in [Handlers -> Nat \ {0}]
    /\ answer \in [Handlers -> Replies]
    /\ cpc \in [Clients -> CLabels]
    /\ want \in [Clients -> Paths \cup {None}]
    /\ dst \in [Clients -> Dsts \cup {None}]
    /\ mode \in [Clients -> {"plain", "mux"}]
    /\ right \in [Clients -> [Streams -> Dsts \cup {None}]]
    /\ dialing \in [Clients -> SUBSET Streams]
    /\ before \in [Paths -> Dsts \cup {None}]

\* Ping "reports the current number of users" and a request is let in by the
\* users of one moment: both see a bunch of users whole or not at all, and
\* "changing or deleting a user does not affect the user's established
\* connection".  That is, every step is a step of the registry.
G == INSTANCE UserRegistry WITH
        users <- IF writer = None THEN pathMap ELSE before,
        asked <- cmd,
        route <- dst
RegistrySpec == G!Spec

\* The controller gets done with every command, and a client with its look-up,
\* however many others lock the users meanwhile.
EveryCommandEnds == \A h \in Handlers : pc[h] = "switch" ~> pc[h] = "idle"
EveryLookUpEnds == \A c \in Clients : cpc[c] = "rlock" ~> cpc[c] \in {"upgrade", "out"}
=============================================================================
