------------------------------ MODULE Startup ------------------------------
(***************************************************************************)
(* How a client and a server come to their options, and whether a          *)
(* connection between them then works: the mains of src/cmd, sip003.go,    *)
(* NewClient, NewServer and NewMUServer, and the choice between smux and a *)
(* plain stream for a connection.                                          *)
(*                                                                         *)
(* Options come from the command line or, for a SIP003 plugin, from        *)
(* SS_PLUGIN_OPTIONS: a sequence of options, each a key and the words that *)
(* follow it, after "=" there.  Both become words for the flag package.    *)
(* (No text begins with "-" or holds a "=" itself.)                        *)
(* The addresses (-b with -s or -d; -b of the multi-user server) are one   *)
(* flag, "addr"; -verbose, -c and the flags for TCP and Unix sockets       *)
(* are left out: nothing here depends on them.                             *)
(***************************************************************************)
EXTENDS Integers, Sequences, FiniteSetsExt

CONSTANTS
    Inputs,     \* Inputs[k][e]: the option lists a program of kind k may get in environment e
    Ints,       \* the texts that are numbers, with their values
    Durations,  \* the texts that are durations, with their values in seconds
    HostPorts,  \* the words that net.SplitHostPort can split
    Registered  \* the paths users of a multi-user server are registered with

Procs == {"client", "server"}
Kinds == {"client", "server", "mu"}
Envs == {"none", "plugin", "broken"}

\* A word is its text behind a "-", a "/" or neither.
Words == [lead : {"", "-", "/"}, text : STRING]
Option == [key : STRING, words : Seq(Words)]

ASSUME StartupAssumption ==
    /\ \A k \in Kinds, e \in Envs : Inputs[k][e] \subseteq Seq(Option)
    /\ \A t \in DOMAIN Ints : Ints[t] \in Nat
    /\ \A t \in DOMAIN Durations : Durations[t] \in Nat

VARIABLES
    kind,    \* kind[p]: which of the three programs process p is
    env,     \* env[p]: SIP003's variables: "none", "plugin" for all, "broken" for some
    given,   \* given[p]: its options
    stage,   \* stage[p]: how far main is
    next,    \* next[p]: the next word to parse, by its place: an option, and 0 for the
             \* key or the number of the word
    conf,    \* conf[p]: the value of every flag
    cert,    \* cert[p]: what the server shows, "none" before there is one
    link     \* a connection between them: what either end takes it for, and
             \* whether the client's subprotocols have arrived

vars == <<kind, env, given, stage, next, conf, cert, link>>

Bools == [client |-> {"wss", "mux", "sv"},
          server |-> {"wss", "mux", "disable-tls"},
          mu |-> {"mux", "disable-tls"}]
Values == [client |-> {"addr", "n", "wss-path", "mux-max-stream", "timeout"},
           server |-> {"addr", "n", "wss-path", "cert", "key", "timeout"},
           mu |-> {"addr", "n", "cert", "key", "timeout"}]
Flags == UNION {Bools[k] \cup Values[k] : k \in Kinds}

Word(lead, text) == [lead |-> lead, text |-> text]
Nothing == Word("", "")

\* The address that SIP003's variables name: net.JoinHostPort of a host and a port.
FromEnv == Word("", "env")

Default(k, f) ==
    IF f \in {"addr", "n", "cert", "key"} THEN Nothing
    ELSE IF f = "wss-path" THEN Word("/", "")
    ELSE IF f = "mux-max-stream" THEN 4
    ELSE IF f = "timeout" THEN (IF k = "mu" THEN 60 ELSE 300)
    ELSE FALSE
Defaults(k) == [f \in Flags |-> Default(k, f)]

Place(option, word) == [option |-> option, word |-> word]

Init ==
    /\ kind \in {[client |-> "client", server |-> k] : k \in {"server", "mu"}}
    /\ env \in [Procs -> Envs]
    /\ given \in {[client |-> c, server |-> s] : c \in Inputs["client"][env["client"]],
                                               s \in Inputs[kind["server"]][env["server"]]}
    /\ stage = [p \in Procs |-> "env"]
    /\ next = [p \in Procs |-> Place(1, 0)]
    /\ conf = [p \in Procs |-> Defaults(kind[p])]
    /\ cert = [p \in Procs |-> "none"]
    /\ link = [client |-> "none", server |-> "none", offered |-> FALSE]

\* Booting is the same whatever the other process does meanwhile, so the
\* client waits for the server to be through with it.
MayBoot(p) == p = "client" => stage["server"] \in {"run", "fatal"}

At(p, s) == stage[p] = s /\ MayBoot(p)
Goto(p, s) == stage' = [stage EXCEPT ![p] = s]
Fatal(p) == Goto(p, "fatal") /\ UNCHANGED <<kind, env, given, next, conf, cert, link>>

-----------------------------------------------------------------------------
(* The words to parse.                                                     *)

\* One part of the option string becomes a flag, two a flag and its value; a
\* third is an error.
TooManyParts(o) == Len(o.words) > 1

AsPlugin(p) == kind[p] # "mu" /\ env[p] = "plugin"

\* Splitting the empty string gives one empty option.
Options(p) ==
    IF AsPlugin(p) /\ given[p] = <<>> THEN <<[key |-> "", words |-> <<>>]>> ELSE given[p]

InArgs(p, c) == c.option <= Len(Options(p))

WordAt(p, c) ==
    LET o == Options(p)[c.option] IN IF c.word = 0 THEN Word("-", o.key) ELSE o.words[c.word]

After(p, c) ==
    IF c.word < Len(Options(p)[c.option].words) THEN Place(c.option, c.word + 1)
    ELSE Place(c.option + 1, 0)

GetSIP003ArgsFails(p) ==
    /\ At(p, "env") /\ kind[p] # "mu" /\ env[p] = "broken"
    /\ Fatal(p)

FormatSSPluginOptionsFails(p) ==
    /\ At(p, "env") /\ AsPlugin(p)
    /\ \E i \in 1..Len(given[p]) : TooManyParts(given[p][i])
    /\ Fatal(p)

Plugin(p) ==
    /\ At(p, "env") /\ AsPlugin(p)
    /\ \A i \in 1..Len(given[p]) : ~TooManyParts(given[p][i])
    /\ Goto(p, "parse")
    /\ conf' = [conf EXCEPT ![p]["addr"] = FromEnv]
    /\ UNCHANGED <<kind, env, given, next, cert, link>>

CommandLine(p) ==
    /\ At(p, "env") /\ (kind[p] = "mu" \/ env[p] = "none")
    /\ Goto(p, "parse")
    /\ UNCHANGED <<kind, env, given, next, conf, cert, link>>

-----------------------------------------------------------------------------
(* FlagSet.Parse, a word or a flag and its value at a time.                *)

IsFlag(w) == w.lead = "-" /\ w.text # ""
AtFlag(p) == At(p, "parse") /\ InArgs(p, next[p]) /\ IsFlag(WordAt(p, next[p]))

\* A value that cannot be read is an error, and sets the flag to 0 all the same (or,
\* where a number is too large, to the largest, which is refused just so).
Readable(f, w) ==
    /\ f = "mux-max-stream" => w.lead # "/" /\ w.text \in DOMAIN Ints
    /\ f = "timeout" => w.lead # "/" /\ w.text \in DOMAIN Durations

Signed(lead, n) == IF lead = "-" THEN -n ELSE n

Value(f, w) ==
    IF f \notin {"mux-max-stream", "timeout"} THEN w
    ELSE IF ~Readable(f, w) THEN 0
    ELSE Signed(w.lead, IF f = "timeout" THEN Durations[w.text] ELSE Ints[w.text])

ParseFlag(p) ==
    /\ AtFlag(p)
    /\ LET f == WordAt(p, next[p]).text
           second == After(p, next[p])
       IN \/ /\ f \in Bools[kind[p]]
             /\ conf' = [conf EXCEPT ![p][f] = TRUE]
             /\ next' = [next EXCEPT ![p] = second]
          \/ /\ f \in Values[kind[p]]
             /\ InArgs(p, second) /\ Readable(f, WordAt(p, second))
             /\ conf' = [conf EXCEPT ![p][f] = Value(f, WordAt(p, second))]
             /\ next' = [next EXCEPT ![p] = After(p, second)]
    /\ UNCHANGED <<kind, env, given, stage, cert, link>>

\* Mutant: a word that is no flag is skipped.
ParseSkips(p) ==
    /\ At(p, "parse") /\ ~AtFlag(p)
    /\ IF InArgs(p, next[p])
       THEN next' = [next EXCEPT ![p] = After(p, @)] /\ UNCHANGED stage
       ELSE Goto(p, "init") /\ UNCHANGED next
    /\ UNCHANGED <<kind, env, given, conf, cert, link>>

\* The first word that is no flag ends the flags, and nobody looks at the rest.
ParseEnds(p) ==
    /\ At(p, "parse") /\ ~AtFlag(p)
    /\ Goto(p, "init")
    /\ UNCHANGED <<kind, env, given, next, conf, cert, link>>

\* An unknown flag, one without its value, or with one that cannot be read.  As a
\* plugin main logs the error and goes on with what it has.
ParseFails(p) ==
    /\ AtFlag(p)
    /\ LET f == WordAt(p, next[p]).text
           second == After(p, next[p])
       IN \/ /\ f \notin Bools[kind[p]] \cup Values[kind[p]]
             /\ UNCHANGED conf
          \/ /\ f \in Values[kind[p]] /\ ~InArgs(p, second)
             /\ UNCHANGED conf
          \/ /\ f \in Values[kind[p]] /\ InArgs(p, second)
             /\ ~Readable(f, WordAt(p, second))
             /\ conf' = [conf EXCEPT ![p][f] = 0]
    /\ Goto(p, IF AsPlugin(p) THEN "init" ELSE "fatal")
    /\ UNCHANGED <<kind, env, given, next, cert, link>>

-----------------------------------------------------------------------------
(* NewClient, NewServer and NewMUServer, and Start.                        *)

Splits(address) == address \in HostPorts \cup {FromEnv}

\* What NewClient and NewServer refuse; NewMUServer refuses nothing.  A client that
\* is not told the server's name takes it from the address.
Refused(p) ==
    \/ conf[p]["addr"] = Nothing
    \/ conf[p]["timeout"] <= 0
    \/ kind[p] = "client" /\ conf[p]["n"] = Nothing /\ ~Splits(conf[p]["addr"])
    \/ kind[p] = "client" /\ conf[p]["mux-max-stream"] \notin 1..16

NewFails(p) ==
    /\ At(p, "init") /\ kind[p] # "mu" /\ Refused(p)
    /\ Fatal(p)

NewClient(p) ==
    /\ At(p, "init") /\ kind[p] = "client" /\ ~Refused(p)
    /\ Goto(p, "run")
    /\ conf' = [conf EXCEPT ![p]["wss-path"] =
                   IF @.lead = "/" THEN @ ELSE Word("/", @.text)]
    /\ UNCHANGED <<kind, env, given, next, cert, link>>

\* Mutant: half of a certificate is as good as none.
SelfSignedEither(p) == conf[p]["cert"] = Nothing \/ conf[p]["key"] = Nothing

SelfSigned(p) == conf[p]["cert"] = Nothing /\ conf[p]["key"] = Nothing

\* Only a path can be the name of a file.
Loadable(p) == conf[p]["cert"].lead = "/" /\ conf[p]["key"].lead = "/"

Certificate(p) ==
    IF conf[p]["disable-tls"] THEN "proxy"
    ELSE IF SelfSigned(p) THEN "selfSigned" ELSE "loaded"

CertificateFails(p) ==
    /\ At(p, "init") /\ kind[p] # "client"
    /\ ~conf[p]["disable-tls"] /\ ~SelfSigned(p)
    /\ Fatal(p)

\* http.ServeMux panics over an empty pattern.
HandlePanics(p) ==
    /\ At(p, "init") /\ kind[p] = "server" /\ ~Refused(p)
    /\ conf[p]["wss"] /\ conf[p]["wss-path"] = Nothing
    /\ Fatal(p)

NewServer(p) ==
    /\ At(p, "init") /\ kind[p] # "client"
    /\ kind[p] = "server" => ~Refused(p) /\ ~(conf[p]["wss"] /\ conf[p]["wss-path"] = Nothing)
    /\ Certificate(p) = "loaded" => Loadable(p)
    /\ Goto(p, "run")
    /\ cert' = [cert EXCEPT ![p] = Certificate(p)]
    /\ UNCHANGED <<kind, env, given, next, conf, link>>

-----------------------------------------------------------------------------
(* A connection: dialServer at the client, ActiveAndServe and ServeHTTP at *)
(* the server.                                                             *)

\* Mutant: a framing is called by its subprotocol.
FramingNamed(smux) == IF smux THEN "smux_on" ELSE "smux_off"

Framing(smux) == IF smux THEN "smux" ELSE "stream"

Trusted == cert["server"] # "selfSigned" \/ conf["client"]["sv"]
OverHTTP == kind["server"] = "mu" \/ conf["server"]["wss"]

\* ServeMux knows a pattern without "/" as the name of a host.
PathFound ==
    LET path == conf["client"]["wss-path"]
        pattern == conf["server"]["wss-path"]
    IN  IF kind["server"] = "mu" THEN path \in Registered
        ELSE pattern.lead = "/" /\ pattern.text \in {"", path.text}

\* The client frames as its options say, whatever the server has chosen.
ClientFraming ==
    IF Trusted /\ (conf["client"]["wss"] => OverHTTP /\ PathFound)
    THEN Framing(conf["client"]["mux"]) ELSE "failed"

Received == Trusted /\ (OverHTTP => conf["client"]["wss"] /\ PathFound)

\* Mutant: the server frames as its own options say.
ServerFramingOwn(offered) ==
    IF Received THEN Framing(conf["server"]["mux"]) ELSE "failed"

\* The subprotocol of the client decides if it arrives; a server without
\* WebSocket takes what it gets, also a client's HTTP request.
ServerFraming(offered) ==
    IF ~Received THEN "failed"
    ELSE Framing(IF OverHTTP /\ offered THEN conf["client"]["mux"] ELSE conf["server"]["mux"])

\* A proxy in front of a WebSocket server may drop the subprotocols.
Connect(offered) ==
    /\ \A p \in Procs : stage[p] = "run"
    /\ ~offered => OverHTTP
    /\ link' = [client |-> ClientFraming, server |-> ServerFraming(offered),
                offered |-> offered]
    /\ UNCHANGED <<kind, env, given, stage, next, conf, cert>>

-----------------------------------------------------------------------------
Boot(p) ==
    \/ GetSIP003ArgsFails(p) \/ FormatSSPluginOptionsFails(p) \/ Plugin(p) \/ CommandLine(p)
    \/ ParseFlag(p) \/ ParseEnds(p) \/ ParseFails(p)
    \/ NewFails(p) \/ NewClient(p) \/ CertificateFails(p) \/ HandlePanics(p) \/ NewServer(p)

Stop == (\E p \in Procs : stage[p] = "fatal" /\ MayBoot("client")) /\ UNCHANGED vars

Next ==
    \/ \E p \in Procs : Boot(p)
    \/ \E offered \in BOOLEAN : Connect(offered)
    \/ Stop

Spec == Init /\ [][Next]_vars

-----------------------------------------------------------------------------
(* Properties.                                                             *)

\* Every variable keeps its type; a number that cannot be read still leaves a number.
TypeOK ==
    /\ kind \in [Procs -> Kinds] /\ env \in [Procs -> Envs]
    /\ next \in [Procs -> [option : Nat \ {0}, word : Nat]]
    /\ stage \in [Procs -> {"env", "parse", "init", "run", "fatal"}]
    /\ cert \in [Procs -> {"none", "proxy", "selfSigned", "loaded"}]
    /\ link \in [client : {"none", "failed", "smux", "stream"},
                 server : {"none", "failed", "smux", "stream"}, offered : BOOLEAN]
    /\ \A p \in Procs :
          /\ DOMAIN conf[p] = Flags
          /\ \A f \in Flags \cap UNION {Bools[k] : k \in Kinds} : conf[p][f] \in BOOLEAN
          /\ conf[p]["mux-max-stream"] \in Int /\ conf[p]["timeout"] \in Int

\* What an option list says, by itself: the last option of a key counts.
WellFormed(k, o) ==
    \/ o.key \in Bools[k] /\ o.words = <<>>
    \/ o.key \in Values[k] /\ Len(o.words) = 1 /\ Readable(o.key, o.words[1])

SoundUpTo(p, n) ==
    /\ \A i \in 1..n : WellFormed(kind[p], given[p][i])
    /\ n < Len(given[p]) => ~WellFormed(kind[p], given[p][n + 1])

Sound(p) == CHOOSE n \in 0..Len(given[p]) : SoundUpTo(p, n)

FlagsOf(k) == Bools[k] \cup Values[k]

Asked(p, n, f) ==
    LET says == {i \in 1..n : given[p][i].key = f}
    IN  IF says = {}
        THEN IF f = "addr" /\ AsPlugin(p) THEN FromEnv ELSE Default(kind[p], f)
        ELSE IF f \in Bools[kind[p]] THEN TRUE
        ELSE Value(f, given[p][Max(says)].words[1])

\* An option that is not well formed, and is not the end of the flags either: it takes
\* the next option's word for its value, or a word too many looks like a flag.
GoesOn(p, i) ==
    LET o == given[p][i] IN
    \/ o.key \in Values[kind[p]] /\ o.words = <<>> /\ i < Len(given[p])
    \/ o.key \in Bools[kind[p]] /\ o.words # <<>> /\ IsFlag(o.words[1])
    \/ /\ o.key \in Values[kind[p]] /\ Len(o.words) > 1
       /\ Readable(o.key, o.words[1]) /\ IsFlag(o.words[2])

\* The flag of the first option that is not well formed, which may have any value.
Bad(p, n) == IF n < Len(given[p]) THEN {given[p][n + 1].key} ELSE {}

TakenUpTo(p, n) ==
    \/ n < Len(given[p]) /\ GoesOn(p, n + 1)
    \/ \A f \in FlagsOf(kind[p]) \ Bad(p, n) : conf[p][f] = Asked(p, n, f)

\* The flags are what the options say, up to the first one that is not well
\* formed; of those behind it none counts, and no other flag changes, unless that
\* option is one after which parsing goes on.
TakenIsPrefix ==
    \A p \in Procs : stage[p] = "init" => TakenUpTo(p, Sound(p))

\* An option that is not well formed and ends the flags without an error: an empty
\* one, or one with a word too many that does not look like a flag.
EndsFlags(p, i) ==
    LET o == given[p][i] IN
    \/ o.key = ""
    \/ o.key \in Bools[kind[p]] /\ o.words # <<>> /\ ~IsFlag(o.words[1])
    \/ /\ o.key \in Values[kind[p]] /\ Len(o.words) > 1
       /\ Readable(o.key, o.words[1]) /\ ~IsFlag(o.words[2])

CertificateAsked(p, n) ==
    IF Asked(p, n, "disable-tls") THEN "proxy"
    ELSE IF Asked(p, n, "cert") = Nothing /\ Asked(p, n, "key") = Nothing THEN "selfSigned"
    ELSE "loaded"

\* What the first n options ask for is what a program can run with, and the
\* certificate is the one they ask for.
RunsAs(p, n) ==
    LET sure(S) == S \cap Bad(p, n) = {}
    IN  /\ kind[p] # "mu" =>
              /\ sure({"addr"}) => Asked(p, n, "addr") # Nothing
              /\ sure({"timeout"}) => Asked(p, n, "timeout") > 0
        /\ kind[p] = "client" =>
              /\ sure({"mux-max-stream"}) => Asked(p, n, "mux-max-stream") \in 1..16
              /\ sure({"addr", "n"}) =>
                    Asked(p, n, "n") # Nothing \/ Splits(Asked(p, n, "addr"))
        /\ kind[p] # "client" /\ sure({"disable-tls", "cert", "key"}) =>
              cert[p] = CertificateAsked(p, n)

\* Where a program may have lost options it was given: behind one that parsing goes on
\* from or that ends the flags in silence, and, as a plugin only, behind any error,
\* which main logs and goes on from.
MayLose(p, n) ==
    n < Len(given[p]) => AsPlugin(p) \/ EndsFlags(p, n + 1) \/ GoesOn(p, n + 1)

\* Whatever a program was given: if it runs, the options before the first one that is
\* not well formed were enough to run with, and a server shows the certificate they ask
\* for, loaded, self-signed or none.  On a command line these are all options it was given,
\* or the rest was lost in silence.  The exception, named here because the README's own
\* example is one: a plugin that was given "wss,key=...;cert=..." knows no flag
\* "wss,key", loses the "cert" behind it and shows a certificate signed by itself.
\* Nothing is said of an option that parsing goes on from.
RunsAsGiven ==
    \A p \in Procs : stage[p] = "run" =>
        LET n == Sound(p)
        IN  /\ MayLose(p, n)
            /\ (n < Len(given[p]) /\ GoesOn(p, n + 1)) \/ RunsAs(p, n)

\* Client and server whose options are all well formed and consistent as the README
\* wants it connect, and take the connection for the same.  If a proxy drops the
\* subprotocols, mux must be consistent too, and the path must begin with "/": neither
\* the server nor the controller adds one as the client does.
Consistent ==
    LET c(f) == Asked("client", Len(given["client"]), f)
        s(f) == Asked("server", Len(given["server"]), f)
    IN  IF OverHTTP
        THEN /\ c("wss")
             /\ link.offered \/ c("mux") = s("mux")
             /\ c("wss-path").lead = "/"
             /\ IF kind["server"] = "mu" THEN c("wss-path") \in Registered
                ELSE c("wss-path") = s("wss-path")
        ELSE ~c("wss") /\ c("mux") = s("mux")

Alike == link.client = link.server /\ link.client \in {"smux", "stream"}

ConsistentConnects ==
    /\ link.client # "none" /\ Trusted
    /\ \A p \in Procs : Sound(p) = Len(given[p])
    /\ Consistent
    => Alike
=============================================================================
