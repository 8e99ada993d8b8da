----------------------------- MODULE MCStartup -----------------------------
(* Startup with small sets of options: well-formed ones, and of every way  *)
(* to be wrong one.                                                        *)
EXTENDS Startup

Opt(key, words) == [key |-> key, words |-> words]
Bare(key) == Opt(key, <<>>)
Address == Opt("addr", <<Word("", "host:port")>>)

ClientOptions ==
    {Bare("wss"), Bare("mux"), Opt("mux", <<Word("", "true")>>), Bare("sv"),
     Opt("wss-path", <<Word("", "abc")>>), Opt("wss-path", <<Word("/", "abc")>>),
     Opt("mux-max-stream", <<Word("", "17")>>), Opt("n", <<Word("", "host")>>),
     Opt("mux", <<Word("-", "wss")>>), Bare("timeout"), Bare(""),
     Opt("addr", <<Word("", "host")>>)}

ServerOptions ==
    {Bare("wss"), Bare("mux"), Opt("wss-path", <<Word("", "abc")>>),
     Opt("wss-path", <<Word("/", "abc")>>), Opt("wss-path", <<Nothing>>),
     Opt("cert", <<Word("/", "cert")>>), Opt("key", <<Word("/", "key")>>),
     Opt("wss,key", <<Word("/", "key")>>), Bare("cert"), Bare("disable-tls"),
     Opt("timeout", <<Word("", "5")>>), Opt("timeout", <<Word("-", "1m")>>),
     Opt("key", <<Word("/", "a"), Word("", "b")>>)}

MUOptions ==
    {Bare("mux"), Bare("disable-tls"), Opt("cert", <<Word("/", "cert")>>),
     Opt("key", <<Word("/", "key")>>), Opt("timeout", <<Word("-", "1m")>>)}

Lists(S, n) == UNION {[1..i -> S] : i \in 0..n}

Addressed(lists) == {<<Address>> \o s : s \in lists}

ByEnv(lists, n) ==
    [none |-> {<<>>} \cup Addressed(Lists(lists, n)), plugin |-> Lists(lists, 2), broken |-> {<<>>}]

MCInputs ==
    [client |-> ByEnv(ClientOptions, 1), server |-> ByEnv(ServerOptions, 1),
     mu |-> [e \in {"none", "plugin", "broken"} |-> Addressed(Lists(MUOptions, 2))]]

MCInts == [t \in {"17"} |-> 17]
MCDurations == [t \in {"1m"} |-> 60]
MCHostPorts == {Word("", "host:port")}
MCRegistered == {Word("/", "abc"), Word("", "abc")}
=============================================================================
