# mos-tls-tunnel: a TLA+ model

mos-tls-tunnel carries TCP connections through TLS (plain or inside a
WebSocket), optionally many at a time over one connection with smux. This
directory holds TLA+ models of the parts of `src/internal/core` where several
goroutines meet, TLC configurations that check them on small instances, and
TLAPS proofs of the properties that matter most for every instance.

## The system

| Part | Code | State | Operations | Talks to |
|---|---|---|---|---|
| Tunnel | `common.go` `openTunnel`, `openOneWayTunnel`, `copyBuffer` | per tunnel: the shared timeout `muTimeout`, the first error `fe`, two goroutines with a buffer each | copy chunks both ways, tear both connections down when one direction ends | two `net.Conn`s; called by the client's `ForwardConn` and the servers' `handleClientConn` |
| Client session pool | `client.go` `getMuxStream`, `dialNewSmuxSess`; `cmux.go` | a `sync.Map` of sessions, a mutex per session | open a stream on a session with room, dial a session, close the session with its last stream | smux, the tunnel (whose teardown closes the streams) |
| smux (vendored) | `src/vendor/github.com/xtaci/smux` | streams, frame queue, token bucket, keepalive | open, accept, read, write, close | the TLS or WebSocket connection |
| Server accept loop | `common.go` `handleClientMuxConn` | the server's smux session | accept a stream, refuse more than `defaultSmuxMaxStream` | smux, `handleClientConn` |
| Multi-user server | `multi_user_server.go`, `multi_user_http_mux.go` | the map from paths to destinations under a `sync.RWMutex` | controller commands add, del, reset, ping; look-up of a client's path, its streams | the controller's HTTP clients, the users' clients |
| Client, server | `client.go`, `server.go` | the listener under a mutex | `Start`, `ActiveAndServe`, `Close`, `ForwardConn`, `ServeHTTP` | all of the above |
| WebSocket wrapper | `websocket.go` | the current message reader, `closeOnce` | `Read`, `Write`, `Close`, deadlines | gorilla/websocket |
| Negotiation | `client.go`, `server.go`, `multi_user_http_mux.go` | none | choose TLS or WebSocket, smux or not, by subprotocol and flags | client and server must agree |
| Options | `sip003.go`, `config.go`, `cmd/*` | the configuration | parse flags and SIP003 arguments | everything, at the start |
| Socket options | `tcp*.go` | none | system calls on a new socket | dialers and listeners |

What is hard in this code, part by part, is the list `hazards` of
`PROJECT.json`. In short:

* **Tunnel.** Two goroutines share a timeout that one of them zeroes while the
  other one loads it; either may arm a deadline over the one the teardown
  expired; both report an end, and the second end is a consequence of the first.
  *Correct when*: the outcome is the first end and never an echo of the
  teardown, a clean outcome means that nothing is missing, the other direction
  is released, and the tunnel ends.
* **Pool.** Callers range over sessions that others open, fill, drop and close;
  the last of three Closes of the last stream must close the session, and never
  one on which a stream has just been opened. *Correct when*: the stream limit
  holds, no session is closed under a user, none is left idle, none that works
  is dropped, and every caller gets an answer.
* **Multi-user server.** Bunches of users are written entry by entry while
  others count and look up. *Correct when*: commands and look-ups are atomic,
  and a connection keeps what it was admitted to.
* **Client and server together.** The two ends count streams differently: the
  client until its own Close, the server until its handler has closed its end.
  The accept loop that finds too many returns for the whole session. *Correct
  when*: the server never lets in more than its limit, refuses a client that
  keeps to its own only because it is late itself, and answers every stream or
  hangs up.
* **WebSocket.** One goroutine writes data, another answers pings and close frames, and
  up to three close; gorilla/websocket guards the frame with a lock, but not its message
  writer and its buffer. *Correct when*: no two messages are written at once, the peer can
  read to a close frame and finds nothing behind it, and Close returns whatever the link
  does.
* **Options.** Errors in a plugin's options are logged and passed over, and client and
  server choose the framing each for itself. *Correct when*: what runs has options it
  can work with, no option counts that was not given, and ends that are configured alike
  understand each other.
* **Processes.** Start, Close and exits of both processes come in any order, while
  connections wait, shake hands without a time limit, dial and transfer. *Correct
  when*: nobody waits where nobody accepts, every handshake ends, each goroutine
  closes what it holds, and a connection through both processes ends as a whole.

## Modules

| Module | What it is |
|---|---|
| `Relay` | abstract: what `openTunnel` promises |
| `Tunnel` | one `openTunnel`: both goroutines, statement by statement |
| `TunnelProofs` | its invariant, its theorems, and that it implements `Relay` |
| `MCTunnel` | how many chunks each peer may send, for TLC |
| `SessionLease` | abstract: what the pool promises |
| `MuxPool` | `getMuxStream`, `openStream`, the three Closes, `tryCloseOnIdle` |
| `MuxPoolProofs` | its invariant, its theorems, and that it implements `SessionLease` |
| `MCMuxPool` | the symmetries of its instances, for TLC |
| `MuxLink` | one smux session from the client to the server's accept loop and handlers |
| `MuxLinkProofs` | its invariant and its theorems |
| `UserRegistry` | abstract: what the multi-user server promises |
| `MUServer` | the controller's handler, the locked map, the clients' look-ups and streams |
| `MUServerProofs` | its invariant, its theorems, and that it implements `UserRegistry` |
| `MCMUServer` | the commands that arrive, for TLC |
| `Lifecycle` | client and server process: Start, Close, exit, and a connection on its way through both |
| `LifecycleProofs` | its invariant and its theorems |
| `WSConn` | one end of a WebSocket connection: the wrapper over gorilla's `Conn`, with all who use it |
| `WSConnProofs` | its invariant and its theorems |
| `Startup` | from options to a connection: flags, SIP003, checks, certificate, framing |
| `StartupProofs` | its invariant and its theorems |
| `MCStartup` | the options that are given, for TLC |

### Tunnel

A direction is named by the connection it reads. Its `pc` walks through the
statements of `copyBuffer` (`loadR`, `armR`, `read`, `loadW`, `armW`, `startW`,
`write`) and then through the rest of `openOneWayTunnel` (`report`, `zero`, the
two `SetDeadline`s, the two `Close`s). Loading `muTimeout` and arming the
deadline with it are two actions, since the other goroutine may zero it and
expire the deadlines in between. Data are counted in chunks, one per `Read`; a
deadline is the number of ticks left on it. `fe` is `firstErr`: "unset" until the
`sync.Once` has run, "nil" for a suppressed `io.EOF`.

The peers and the clock are the environment: a peer sends, ends (cleanly or by
a reset), stops reading and reads again. `SmuxConns` says which of the two
connections are smux streams: their `Read` says `io.EOF` also when a FIN
overtakes data, when the session dies and when they are closed on this side;
their `Write` looks at its deadline and at `die` only when it starts; their first
`Close` writes a FIN, without a deadline. TCP and TLS connections obey their
deadlines at any time. History variables: `winner`, who reported first, and
`idle[d]`, the ticks since direction d last moved a chunk.

Left out: `io.ErrShortWrite` and the panic on an empty buffer, which the
connections in use and the buffer pool make impossible; the WebSocket wrapper's
deadlines and its Close (`WSConn` has them); the buffer itself.

### MuxPool

A caller is one `ForwardConn`. It ranges over the pool (`Arrive`, `Visit`,
`Purge`, `RangeEnds`), dials (`Dial`, `DialFails`, `Store`), and opens a stream
under the session's mutex (`Lock`, then `TooMany`, `Refuse` or `Room`, then
`OpenStream` or `OpenFails`). `own[c]` tells the caller that runs
`openStream` after its own Store, which returns every error, from one inside the
Range callback, which goes on. The end of the tunnel starts one Close per
direction, then the deferred one; `closer[p]` walks through `muxStream.Close`:
the stream's Close with its FIN, the removal from the session's map, and
`tryCloseOnIdle` with its own mutex.

A session is "up", "failing" (a socket error: every operation on it fails, but
smux does not close it), "retired" (closed by the client) or "lost" (closed by
its keepalive). `places[s]` are the streams in the session's map. A closed
session counts no streams (`NumStreams` of smux). `Purge` is `IsClosed` and
`Delete` in one step: a closed session stays closed, so nothing can come
between that matters. `sync.Map.Range` is modelled by what its documentation
says: it visits no key twice, and need not see a key stored meanwhile; `due`
are the sessions it may not skip.

### MuxLink

A stream is its place in the order in which the client opens streams. `client[i]`
is what the client's map says of it; that no more than `ClientLimit` are in it is what
`MuxPool` promises (`StreamLimit`), so `Open` has it as its guard. Frames travel in
`wire` in order: a smux writer waits until its frame is written, and so a FIN is on
its way before the client takes the stream off its map. `ReceiveSyn` and `ReceiveFin`
are the server's `recvLoop`; `streams` is the server's map, which a FIN does not
change. The accept loop takes a stream (`AcceptStream`), counts (`Handle`, `TooMany`)
and goes on or closes the stream and returns (`Refuse`, `Return`). `handler[i]` is
`handleClientConn`: "left" is the one that could not dial and returned without closing
its stream. `Wrapped` tells the two callers of the loop apart: over TCP or TLS the
connection's goroutine closes it when the loop returns (`server.go:173`), over
WebSocket `ServeHTTP` just returns.

Left out: data frames and the token bucket; frames from the server, so that a stream
of the client may end at any time; writes that stall; a `chAccepts` that is full
(1024 streams).

### MUServer

A handler is one request to the controller. It receives a command
(`Commands`: the bodies that arrive), and for a bunch takes the lock, applies
the entries one by one and unlocks; a Ping reads the length under a read lock.
`Refuse` is every return that does not touch the map, with an error or, for a
request that cannot be read, in silence. A client is one WebSocket request: it
looks its path up under the read lock, upgrades, and then serves one stream
("plain") or any number of them ("mux"), each of which dials the destination
that was looked up. The `RWMutex` is Go's: a writer that has called Lock keeps
new readers out and waits for the ones inside (`Lock`, `Locked`). Without this
the commands would not get through: TLC shows two readers that take turns.

### Lifecycle

Two processes, `client` and `server`; `start[p]` is the next statement of `Start` (and
of `ActiveAndServe`, which does its second half for the server), "off" when the process
does not run. `Close` may be called by anybody at any time, and does nothing before the
listener is stored (`field`). `Exit` is the end of `main`, for whatever reason; the
process may then be started again, `MaxBoots` times. A connection is three TCP
connections in a row with six sockets, `open[i]`; `handler[p][i]` is its goroutine in
`p`: in the kernel's queue ("backlog"), dialling, in the handshake, in `openTunnel`, and
then "over" (the tunnel has returned) or "failed" (before there was one). `openTunnel`
is one step; that it closes both its connections is `TeardownReleases` of `Tunnel`.
Closing a listener resets whoever waits in its queue (`CloseListener`, the kernel's
doing). The two paths on which the code closes nothing are in the model:
`DialServerFails` and `ClientHandshakeFails` leave the accepted connection, and
`DialDstFails` over WebSocket (`Wrapped`) leaves the upgraded one. Only the garbage
collector closes those (`Collect`), with no fairness assumed.

Left out: smux (both ends with `EnableMux` off; `MuxPool` and `MuxLink` have it),
`DisableTLS`, two ends that are configured differently, and a peer that is silent for
ever in the handshake.

### WSConn

Three goroutines: the `writer` calls the wrapper's Write (`copyBuffer` of a tunnel, or
smux's `sendLoop`), the `reader` its Read, and the `closer` is whoever calls smux's
`Session.Close` (keepalive, or the pool); in a tunnel, writer and reader both run the
teardown and close. `role` and `use` are chosen at the start.

`WriteMessage` is a walk through gorilla's code: `begin` (`beginMessage`, `NextWriter`),
`fill` (the copy to the buffer), `flush`, `set` (`isWriting`, and the deadline as it is
then), `lock` (the channel `c.mu`), `io`, and back. What is shared without a lock, i.e.
`c.writer`, `c.writeBuf`, `isWriting` and `c.writeDeadline`, is read and written in
steps of their own, so that two goroutines in `WriteMessage` meet in every way: one
finds the other's message open and flushes it, fills the buffer over it (a frame
"mangled"), finds no buffer, or runs into gorilla's "concurrent write" check
(`panicked`). The panic ends the model: it ends the process, unless it happens in the
goroutine of an HTTP handler, where `net/http` recovers it. `overlap` is a history
variable: two goroutines were in `WriteMessage` at once.

`deadline` is the wrapper's (`c.writeDeadline`, passed on by a write), `connLine` the
one of the connection underneath, which a write replaces and the wrapper's `SetDeadline`
expires directly. A write may end or fail at any time, and a stalled link is one
that does neither: nobody assumes that it ends unless it has a deadline or the
connection is closed. The reader, between messages, meets pings and close frames and
answers them with `WriteControl`, which waits a second for `c.mu` at the most. The wrapper's
Read goes on to the next message at the end of one (`ReadEnd`).

Left out: the data themselves, messages in more than one frame (none is as long as the
buffer: `copyBuffer` reads 16 KiB, smux writes frames of 16 KiB, the client's buffer has
32 KiB and the server flushes a long message in one frame), compression, which is off,
and protocol errors of the peer, whose close frame is one of the reader's.

### Startup

A client and a server, one after the other, walk through `main`: "env" (SIP003's
variables), "parse", "init" (`NewClient` and so on), "run" or "fatal". An option is a
key with the words that follow it; a word is a text behind "-", "/" or neither, which is
all that the flag package, `NewClient` and `http.ServeMux` look at. `next` is the word
that comes next, by its option and its place in it: a boolean flag takes no word, others
one, the first word that is no flag ends the flags in silence (`ParseEnds`), and an
error ends them with a message, on which a plugin goes on (`ParseFails`). A number that
cannot be read leaves 0 in its flag, as `strconv` returns it: that is why the checks of
`NewClient` and `NewServer` matter to a plugin. A multi-user server has no checks. A
client without `-n` takes the server's name from the address and is refused when
`net.SplitHostPort` cannot split it (`client.go:82-87`); the constant `HostPorts` says
which addresses it can. The address of SIP003's variables (`FromEnv`) is one.

`Connect` is a connection between two that run: each end's view of its framing is
computed as the code of that end does, from the certificate, the path, `-wss`, `-mux`
and the subprotocol, which a proxy may have dropped (`offered`).

`TakenIsPrefix`, `RunsAsGiven` and `ConsistentConnects` compare this with what the option
lists say by themselves (`Asked`): the last option of a key counts. Each says what it has
to except.
For `TakenIsPrefix` these are the options after which parsing goes on though they are not
well formed (`GoesOn`): a flag that lacks its value takes the next option's word for it,
and a word too many that looks like a flag is one (the `-wss` of `mux=-wss`). For
`ConsistentConnects` it is a path that does not begin with a slash, of the server as of
a user's registration, since only the client adds one.

`RunsAsGiven` is about a program that runs, and about its option list, not its flags:
let n options be well formed before the first that is not (`Sound`). Then these n ask for
an address, a timeout and a number of streams to run with, for a client also for a
server's name or an address that has one, and a server shows the certificate they ask for:
loaded, self-signed, or none behind a proxy. The flag of the malformed option itself is
excepted (`Bad`). Options from n + 1 on may be lost, and `MayLose` says when: on a command
line only if option n + 1 ends the flags without an error (`EndsFlags`: an empty one, or the
`true` of `mux=true`) or is one that parsing goes on from (`GoesOn`, about which nothing
else is said); as a plugin always, for there `main` logs the error and goes on
(`cmd/mtt-server/server.go:73-75`). So the property does *not* say that a plugin that was
given a certificate shows it. It cannot: the README's own example
(`README.md:122`, `wss,key=...;cert=...`) is among the checked options, its n is 0, and
it runs with a self-signed certificate.

Left out: the flags on which nothing here depends (`-verbose`, `-c`, `-fallback-dns`, those
for TCP and Unix sockets), the names in certificates, and whether files and addresses
exist.

## Abstract specifications

`Relay`, `SessionLease` and `UserRegistry` say what a caller may rely on, without
goroutines, locks or deadlines. The detailed modules instantiate them with a
refinement mapping and check them as a PROPERTY (`RelaySpec`, `LeaseSpec`,
`RegistrySpec`); the proof modules prove the same for every instance. What then
follows for a caller is stated and proved of the abstract specification, and
holds of the detailed one because it implements it (`Honest` and `Final` of `Relay`,
`Respected` and `NeverTaken` of `SessionLease`; that a command of `UserRegistry` has one
effect and one answer). The mappings:

* `Relay`: `delivered <- put`, `outcome <- fe`, `returned <- Returned`. A clean
  outcome is `Finish`, which demands that the peer has ended and that all its
  chunks were delivered (smux sources excepted, the constant `Lossy`).
* `SessionLease`: the sessions and their places are the pool's own. `Retire`
  demands an empty session, `Lease` a working one with room.
* `UserRegistry`: `users` is the map as the writer found it until the writer
  unlocks, and the map itself otherwise. A command takes effect at its Unlock, a
  Ping and a look-up where they read.

## Runs

| Run | Instance | Question |
|---|---|---|
| `tunnel_tcp` | two TCP connections, a chunk each way, Timeout 2 | is the outcome true, and never an echo of the teardown |
| `tunnel_smux` | smux on the right, one chunk, from either side, Timeout 1 | is the other direction released, is it a `Relay`, and does `openTunnel` return, whatever the peers do |
| `tunnel_release` | smux on the right, one chunk, Timeout 1 | *violated*: the teardown always releases the other direction |
| `pool` | 2 callers, 2 sessions of 1 stream, 2 Closes each | the safety of the pool, is it a `SessionLease`, does `getMuxStream` return, does an idle session end |
| `pool_refused` | 2 callers, 2 sessions of 1 stream, 3 Closes each | *violated*: nobody is refused because a session is full |
| `link` | 4 streams, limits of 2, over TCP | does the accept loop keep its limit, whom does it refuse, is every stream answered |
| `link_refused` | 3 streams, limits of 2, over WebSocket | *violated*: only a client with too many streams is refused |
| `registry` | 2 commands of all kinds, 1 client with a stream, 2 paths | is it a `UserRegistry`, do commands and look-ups get done |
| `lifecycle` | 2 connections over TLS, each process started twice | does anybody wait in vain, is either process stranded by the other, do handshakes end, is everything released, does a connection end as a whole |
| `wsconn` | 2 messages (data or close), 1 frame before the last ping; client or server, tunnel or smux | can the peer read what is written, is it told, who gets into whose write, has every write a limit, does Close return on any link, do all goroutines end |
| `wsconn_panic` | the same | *violated*: nobody writes while another does |
| `startup` | 12 client, 13 server and 5 multi-user server options, one besides the address on a command line (two for the multi-user server) and two in a plugin's options | do the flags say what was given, can what runs run with what it was given and which certificate does it show, do alike ends understand each other |

**Bounds.** `MaxSend` chunks per peer, `MaxChunks` of both together: one chunk takes the copy loop through every
statement and around once. `Timeout` in ticks: with 2, a deadline can be half over
when the other direction acts; with 1 the stale and the fresh deadline still differ
from the expired one. Two sessions are enough for a Range that tries the next; with a limit of one, two
callers are one too many, and one caller's Closes meet the other's opening. Sessions
that several share are left to the theorems. A session's name is used again only when nobody refers to it. The tunnel's two
goroutines are `Directions`: a stream is closed once by each and once by the deferred
Close. `pool` has one of them, so that two Closes of the same stream meet;
`pool_refused` has both. With limits of two, a third stream is the
first that can be refused, and a fourth comes after the accept loop has returned. In
`registry`, bunches of two entries name two paths, or one path twice. In `lifecycle`,
two starts let a connection of the first life meet the second. In `wsconn`, data is
written until two messages have begun (`MaxMessages`), and every goroutine can begin its close message
after that: two of them meet in `WriteMessage`, also after a first message has gone through. No ping
arrives after the first frame has been written (`MaxFrames`), which bounds the pongs;
close frames always do. In `startup`, two options are the fewest of which the first
can spoil the second, and the lists have one option of each way to be wrong. What these
bounds leave open for the safety properties, the theorems close.

**Fairness.** Goroutines run (weak fairness; in `MuxPool` all that is assumed is
that some goroutine of a connection runs when, again and again, one can). Where a
goroutine waits for a `sync.Mutex`, a `sync.RWMutex` or for the session's send
queue, fairness is strong: Go's mutexes hand the lock over to a goroutine that has waited, an
RWMutex lets all waiting readers in when a writer leaves, and the send queue serves
every writer. Time passes. A TCP or TLS connection may stall for ever, since the
deadlines take care of it; a smux session may stall only for a while
(`WF(Unstall)`), because the peer at its other end runs this same code, whose
timeouts end its own stuck tunnels and give their tokens back, and because a
session from which nothing comes at all is closed by its keepalive. The pool
assumes that a SYN or FIN write ends, for the same reason. In
`WSConn`, goroutines run, and `c.mu` and the `sync.Once` are passed on in the order of
arrival (a Go channel serves its receivers in order), hence strong fairness for a writer
that waits; of the link nothing is assumed but that a write with a deadline, or on a
closed socket, ends (`Limited`), and that a Read on a closed socket fails; nor that a
session is ever closed. In
`Lifecycle`, a handshake with somebody who has gone fails and a dial to the destination
ends (`defaultHandShakeTimeout`); a tunnel ends only when one of its peers has gone.
Nothing is assumed of
the peers, of new connections, or that a tunnel ends in `MuxPool`, `MuxLink` and
`MUServer`; and nothing of Close, exits and restarts.

**Deadlock** is checked in every run. `Stop` in `Tunnel`, `MuxLink`, `Lifecycle`, `WSConn` and
`Startup` is the stuttering of a tunnel that has returned, of a session that is over, of
two processes that have exited for good, of a connection whose goroutines have returned or
whose process has panicked, and of a pair of which one did not start.

## What the runs found

* `tunnel_release`. "let another goroutine break from copy loop" (`common.go:105`)
  does not hold for a direction that is inside a smux `Write`: the write started
  a timer from its deadline and looks at neither the new deadline nor the closed
  stream. It ends with that timer, up to a whole timeout later. The tunnel still
  ends (`Terminates`).
* `pool_refused`. "this session opened too many streams, try next"
  (`client.go:297`) is not what happens to the caller that dialled the session:
  others may fill it between its Store and its `openStream` (`client.go:315-316`),
  and its connection is refused.
* `link_refused`. A client is told that it "opened too many streams" (`err.go:30`),
  though it keeps to its limit, which may be the server's: the server still counts
  streams that the client has closed, until its own handler has closed them, and
  streams whose destination could not be dialled, which no handler ever closes
  (`server.go:209-213`). The whole session pays: over TCP the connection is closed
  with all its streams; over WebSocket it stays, and nobody accepts its streams any
  more (`EveryStreamAnswered` fails with `Wrapped = TRUE`; no document promises it,
  so there is no run for it).
* `wsconn_panic`. gorilla/websocket wants "no more than one goroutine" in its write
  methods (`vendor/github.com/gorilla/websocket/doc.go:126-131`). The wrapper's Close calls
  `SetWriteDeadline` and `WriteMessage` (`websocket.go:92-93`) whoever else is writing:
  smux's keepalive closes a session just when its `sendLoop` is stuck in a write, and the
  two directions of a tunnel end one while the other writes. gorilla notices and panics
  ("concurrent write to websocket connection"), or does not notice and the frame
  is mangled: what is proved of the frames themselves (`StreamStaysSound`,
  `CloseTellsThePeer`) is proved for the time before two goroutines were in
  `WriteMessage` at once. That it takes a Close, that there are never more than these
  two, and that the one writes data and the other the close message, is proved without
  that condition (`OnlyCloseGetsIn`).

Not worth a run, but met on the way: the timeout is per direction, and a connection
that transfers one way only is cut after the "idle timeout for connections"
(`README.md:58`), however busy it is; the README's own example for a plugin server
(`README.md:122`, `"wss,key=...;cert=..."`) has a comma where `FormatSSPluginOptions`
splits at semicolons: `-wss,key` is an unknown flag, the error is only logged, and the
server runs without `-wss` and with a self-signed certificate (`RunsAsGiven` names this as
its exception); the server does not put a
slash before its `-wss-path` as the client does (`server.go:160`, `client.go:119`); an
empty one panics in `http.ServeMux`; and a multi-user server accepts any `-timeout`. "Close shutdown server" (`server.go:198`) holds only
once Start has stored its listener, and a Close before that is lost; `ForwardConn`
leaves the accepted connection to the garbage collector when the server cannot be
reached, and so does the server over WebSocket when the destination cannot
(`EndsTogether` fails with `Wrapped = TRUE`); the controller's README
(`cmd/mtt-mu-server/README_en.md:107`) calls `path` and `dst` required, and only an
empty bunch is refused; a body of exactly 2 MiB is refused as "larger than 2m"
(`multi_user_server.go:159`); a request that cannot be read is answered with an empty
response, not with `res` 2.

## What is proved

All theorems hold for every value of the constants that satisfies the named
assumptions: `TunnelAssumption` (two different connections, a positive timeout),
`PoolAssumption` (finitely many callers, a positive limit), `LinkAssumption` (the
client's limit is positive and not above the server's), `MUAssumption`
(finitely many paths, commands made of entries, names that do not clash),
`LifecycleAssumption` (any number of starts, with or without WebSocket),
`WSConnAssumption` (any bounds) and `StartupAssumption` (numbers and durations have values;
the option lists are sequences of options, and otherwise arbitrary; so is `HostPorts`).

Where a liveness property rests on a safety fact that could be wrong by itself, that
fact is a theorem of its own: `NoEndlessWait` for `Terminates`, `NobodyKeepsAMutex` for
`GetMuxStreamReturns`, `NoStreamIsForgotten` for `EveryStreamAnswered`, `LockIsUsedRight`
for `EveryCommandEnds` and `EveryLookUpEnds`, `NeitherIsStranded` for `HandshakeEnds` and
`EndsTogether`, `WritesStayLimited` and `NobodyIsWaitedForInVain` for `CloseReturns`,
`ControlReturns` and `CloseEndsAll`. What is then left to TLC is that a goroutine that
can go on does.

Where a run refutes what a comment says, a theorem says how much of it is true:
`OnlyASmuxWriteIsLeft` and `AlwaysReleasedWithoutSmux` of the comment that
`tunnel_release` refutes, `FewAreNeverRefused` of that of `pool_refused`,
`RefusalsAreLate` for `link_refused` and `OnlyCloseGetsIn` for `wsconn_panic`.

**Tunnel** (`TunnelProofs`). The invariant `Inv` adds to the types what the
properties alone do not carry: an error in hand is one that can be reported from
where the direction is (`LoopOK`, `ReportOK`); a direction whose deadlines were
armed in time has been idle at least as long as they have run, unless the
other one has already reported (`QuietOK`, `TimedOK`), which is what makes a
reported timeout a real one; and what has been closed stays closed
(`ClosedOK`), which is why even a deadline armed too late does not hold a
TCP direction. `ArmedOK` is an invariant beside it: a deadline is armed before it is
waited for, and may be replaced but never taken away; a smux `Write` has taken the one it
goes by over to its timer. Theorems: `TypeCorrect`, `NilIsComplete`,
`TeardownIsNeverReported`, `TeardownReleases`, `NoEndlessWait` (what a direction waits for in the copy loop has a deadline, at most a Timeout away; the FIN of a smux stream
has none), `OnlyASmuxWriteIsLeft` (from `Inv` and `NoEndlessWait`: what is left by the other's
teardown is a smux `Write` that found the stream stalled, on its own timer),
`AlwaysReleasedWithoutSmux` (the same where there is no smux stream, as on both
ends without `-mux`), `TunnelImplementsRelay`, and from it `TunnelIsHonest`: nothing is
invented, the first outcome is the last and stays true, and nothing is delivered after
the return.

**Pool** (`MuxPoolProofs`). The argument is the mutex: what `openStream` or
`tryCloseOnIdle` has counted stays true while the mutex is held (`MutexOK`,
`RoomOK`, `EndOK`), and a stream that is still in a session's map belongs to a
caller none of whose Closes has passed the map (`PlacesOK`, `CloserOK`).
`NoIdleLeak` is inductive only with the latter: the last Close to run is the
one that is left when the map becomes empty. The other way round, a mutex that is locked
has an owner inside its critical section (`Held`): every return unlocks, a session's name
is used again only when nobody refers to it, and `ForwardConn` leaves only when its
Closes are through. Theorems: `TypeCorrect`, `LimitIsRespected`, `UsersAreSafe`,
`NothingLeaks`, `PoolIsComplete`, `NobodyKeepsAMutex`, `PoolImplementsLeases`, and from it
`ConnectionsKeepTheirPlaces`: no connection has a place on two sessions that live, and none
is retired under a stream. `FewAreNeverRefused` assumes that there are no more connections
at a time than a session has room for: whoever is refused has no place itself, so a full
session is full of others, and there are at most `Limit - 1` of these (`RefusedByOthers`).

**Link** (`MuxLinkProofs`). A stream is on the wire, in `chAccepts`, in the accept
loop's hands or in a handler's, in one of these places only (`WireOK`, `QueueOK`,
`LoopOK`), and in the server's map from its SYN until its Close (`LetInOK`). So what
the loop has let in is among what it counts; and what it counts the client has opened
(`NewOK`), of which only `ClientLimit` can still be open (`BusyOK`): if the count is
above the limit, the client has closed one of them (`LateCount`). That an open stream is
in one of these places at all, until it is answered or the connection breaks, is `KeptOK`:
a frame that arrives goes from one to the next, and the loop takes a stream only with
empty hands. Theorems: `TypeCorrect`, `LimitIsRespected`, `RefusalsAreLate`,
`NoStreamIsForgotten`, `TheCountIsExact` (the map is `chAccepts`, the stream in hand and
those let in and not closed, no more and no less: `Inv` with one clause more,
`MapOK`) and the action property `EveryAnswerIsFinal` (a handler or a refusal, once).

**Multi-user server** (`MUServerProofs`). The writer is alone with the map
(`LockOK`), so what the loops of add and del have done so far is the effect of
the entries before `next` (`EffectOK`, by the lemma `AppliedStep`), and what a
reader has read is still so when it lets go (`ClientOK`, `LookedUp`). Theorems:
`TypeCorrect`, `LockIsUsedRight` (Go ends a program that reads a map while it is
written), `ServerImplementsRegistry`. The last says that a command does what `Obeys`
allows; `EveryCommandHasOneEffect` says that this is always exactly one thing, also
when a bunch names a path twice. It is an induction over the bunch, done by hand: a
bunch without an effect would have a shortest one (`LeastOf`), and that one gets an
effect from the one before it. `ConnectionsOutliveUsers` is what the controller's README
(`cmd/mtt-mu-server/README_en.md:112`) says of a user that is changed or deleted: a
connection keeps the destination of its look-up until it ends, and so does each of its
streams.

**Lifecycle** (`LifecycleProofs`). A listener is open only between Listen and the return
of Start (`ListenerOK`), and a connection waits only at an open one (`WaitingOK`), over
all restarts; a socket is made at one point of its goroutine's way (`OrderOK`), so that
what fails before it has nothing to close. The two goroutines of a connection pass the
handshake in one order (`PairOK`): the server has accepted before the client is through,
and the client is through before the server dials, so that a process which has given up
has closed its end or is one the other has been through with. Theorems: `TypeCorrect`,
`NobodyWaitsInVain`, `GoroutinesRelease`, `NeitherIsStranded`, and the action property
`CloseIsFinal` (server.go:198): once the listener is closed nothing is accepted until the next
start, which needs that a Start has no listener of an earlier life to find (`FreshOK`).

**WebSocket** (`WSConnProofs`). Who is inside `write` or `WriteControl` holds `c.mu`,
and nobody else does (`MutexOK`). Until two goroutines were in `WriteMessage` at once,
one at the most is (`OneAtATime`), and then what it sees of the shared fields is its own
(`MessageOK`, `WriterOK`, `WritingOK`): no panic, no mangled frame. A frame is written
only while `c.writeErr` is nil, and a close frame or a cut one sets it (`WireOK`): so
either is the last. A Close that is through has been through its own message (`ToldOK`).
A second invariant, `CloseInv`, does not stop at the first collision: whoever closes has
the `sync.Once` (`OnceOK`), which makes it one goroutine, and whoever else is in
`WriteMessage` is the writer; and all but smux's `sendLoop` set a deadline before they
write, which goes with them to the connection (`DeadlineOK`). Theorems: `TypeCorrect`,
`StreamStaysSound`, `CloseTellsThePeer`, `OnlyCloseGetsIn`, `WritesStayLimited`, and
`NobodyIsWaitedForInVain`, also without the condition: the owner of `c.mu` is always inside
the `write` or `WriteControl` that took it, the `sync.Once` that runs has a goroutine in it
(`RunningOK`), and no direction of a tunnel is gone with the socket still open (`GoneOK`),
which is what the other one waits for.

**Startup** (`StartupProofs`). The invariant adds to the types that `conf` is a record of
all flags for each process (`ConfOK`), so that an assignment to one flag changes no other
(the lemma `SetFlag`). Then one follows a flag from its word to its value: whatever the
word, a number stays a number. What the flags are is a second invariant,
`ReadInv`, over the place of `next`: parsing is behind the first n options, all well
formed, and has what they ask for (`Between`), or at a word that ends the flags (`Stuck`),
or past an option that is not well formed, as `GoesOn` allows (`Lost`). One option
more is one step more, so there is no induction over the list but the invariant's own.
The way to "run" is through the checks, which look at the flags; as these are what the n
options ask for, it is these n options that pass them and that the certificate is chosen by
(`RunsAsked`), and that stays true while the program runs (`Runs`), although a client's path
gets its slash. `RunsAsGiven` follows because there is one such n only (`SoundUnique`).
`ConsistentConnects` follows at the end of both parses (`LinkOK`). Theorems: `TypeCorrect`,
`WhatRunsWasGiven`, `FlagsArePrefix`, `AlikeConnect`. The proof corrected the properties: as
first stated, and as checked with fewer options, they forgot a boolean flag followed by a
word that is a flag, and a user that is registered without a slash.

**Only model-checked**: the liveness properties (`Terminates`,
`GetMuxStreamReturns`, `IdleSessionEnds`, `EveryStreamAnswered`, `EveryCommandEnds`, `EveryLookUpEnds`,
`HandshakeEnds`, `EndsTogether`, `CloseReturns`, `ControlReturns`, `CloseEndsAll`),
which rest on fairness and so on ENABLED; and the violations. The library's induction
theorems cannot be used, as their predicate is an operator; where an induction is needed,
the least element of a set of counterexamples takes its place. Every invariant, every
action property and every refinement that a run checks is also a theorem.

## What is not modelled

* smux beyond what its users here depend on: data frames and their order against a FIN,
  the token bucket that one slow stream uses up for all of a session, the read and write
  buffers of a stream, links that stall under `openStream` (which holds the session's
  mutex), a `chAccepts` that is full, a copy buffer that is used again while a timed-out
  frame still refers to it. It is a vendored library; `Tunnel`, `MuxPool`, `MuxLink` and
  `WSConn` have its streams as their callers see them. A `MuxLink` with data would be the
  next module to write, with the theorem that a stream keeps its order and invents
  nothing.
* The end of a multi-user server: `CloseServer` and `CloseController` are `net/http`'s
  own, which leaves upgraded connections alone.
* The option flags named under Startup.
* The socket options of `tcp*.go`: system calls on a socket before it is used, no state
  of the program.
* Certificate generation: cryptography and random names.
* `dummy_conn.go`: a connection for the tests.
