--------------------------- MODULE StartupProofs ---------------------------
(***************************************************************************)
(* Startup keeps its types, the flags are what the well-formed options     *)
(* asked for, what runs can run with these and shows their certificate,    *)
(* and programs configured alike understand each other: for every set of   *)
(* options, from the command line or as a plugin, however wrong.           *)
(*                                                                         *)
(* The argument: what leads to a program that runs is read option by       *)
(* option.  The process is behind a number of well-formed options and has  *)
(* what these ask for (Between), or at a word too many that ends its flags *)
(* (Stuck), or has passed over an option that is not well formed, as       *)
(* TakenIsPrefix allows (Lost).  The checks come last and look at the      *)
(* flags; as these are what was asked for, what was asked for passes them. *)
(* From then on the flags do not change but for the path of a client.      *)
(***************************************************************************)
EXTENDS Startup, TLAPS

\* The flags are a function for each process.
ConfOK == conf = [p \in Procs |-> [f \in Flags |-> conf[p][f]]]

Inv == TypeOK /\ ConfOK

AllBools == UNION {Bools[k] : k \in Kinds}

LEMMA FlagNames ==
    /\ AllBools = {"wss", "mux", "sv", "disable-tls"}
    /\ Flags = AllBools \cup {"addr", "n", "wss-path", "mux-max-stream", "timeout", "cert", "key"}
    /\ \A k \in Kinds : /\ Bools[k] \subseteq AllBools
                        /\ Values[k] \subseteq Flags \ AllBools
  <1>1. AllBools = Bools["client"] \cup Bools["server"] \cup Bools["mu"]
    BY DEF AllBools, Kinds
  <1>2. UNION {Bools[k] \cup Values[k] : k \in Kinds} =
        AllBools \cup Values["client"] \cup Values["server"] \cup Values["mu"]
    BY <1>1 DEF Kinds
  <1>3. /\ Bools["client"] = {"wss", "mux", "sv"} /\ Bools["server"] = {"wss", "mux", "disable-tls"}
        /\ Bools["mu"] = {"mux", "disable-tls"}
    BY DEF Bools
  <1>4. /\ Values["client"] = {"addr", "n", "wss-path", "mux-max-stream", "timeout"}
        /\ Values["server"] = {"addr", "n", "wss-path", "cert", "key", "timeout"}
        /\ Values["mu"] = {"addr", "n", "cert", "key", "timeout"}
    BY DEF Values
  <1> QED  BY <1>1, <1>2, <1>3, <1>4 DEF Flags, Kinds

Set(p, f, v) == conf' = [conf EXCEPT ![p][f] = v]

\* What an assignment to one flag does.
LEMMA SetFlag ==
    ASSUME ConfOK, NEW p \in Procs, NEW f \in Flags, NEW v, Set(p, f, v)
    PROVE  /\ ConfOK'
           /\ conf'[p][f] = v
           /\ \A g \in Flags : g # f => conf'[p][g] = conf[p][g]
           /\ \A q \in Procs : q # p => conf'[q] = conf[q]
           /\ \A q \in Procs : DOMAIN conf'[q] = Flags
  <1>1. conf' = [conf EXCEPT ![p] = [conf[p] EXCEPT ![f] = v]]
    BY DEF Set
  <1>2. DOMAIN conf = Procs /\ \A q \in Procs : conf[q] = [g \in Flags |-> conf[q][g]]
    BY DEF ConfOK
  <1>3. conf'[p] = [g \in Flags |-> IF g = f THEN v ELSE conf[p][g]]
    BY <1>1, <1>2
  <1>4. \A q \in Procs : q # p => conf'[q] = conf[q]
    BY <1>1, <1>2
  <1>5. conf' = [q \in Procs |-> conf'[q]]
    BY <1>1, <1>2
  <1>6. \A q \in Procs : conf'[q] = [g \in Flags |-> conf'[q][g]]
    BY <1>2, <1>3, <1>4
  <1> QED  BY <1>3, <1>4, <1>5, <1>6 DEF ConfOK

\* The part of TypeOK about the flags, and the rest.
FlagsTyped ==
    \A p \in Procs :
        /\ DOMAIN conf[p] = Flags
        /\ \A f \in AllBools : conf[p][f] \in BOOLEAN
        /\ conf[p]["mux-max-stream"] \in Int /\ conf[p]["timeout"] \in Int

LEMMA TypeParts ==
    TypeOK <=>
        /\ kind \in [Procs -> Kinds] /\ env \in [Procs -> Envs]
        /\ next \in [Procs -> [option : Nat \ {0}, word : Nat]]
        /\ stage \in [Procs -> {"env", "parse", "init", "run", "fatal"}]
        /\ cert \in [Procs -> {"none", "proxy", "selfSigned", "loaded"}]
        /\ link \in [client : {"none", "failed", "smux", "stream"},
                     server : {"none", "failed", "smux", "stream"}, offered : BOOLEAN]
        /\ FlagsTyped
  <1>1. Flags \cap UNION {Bools[k] : k \in Kinds} = AllBools
    BY FlagNames DEF AllBools
  <1> QED  BY <1>1 DEF TypeOK, FlagsTyped

LEMMA InitInv == Init => Inv
  <1> SUFFICES ASSUME Init PROVE Inv
    OBVIOUS
  <1>1. kind \in [Procs -> Kinds]
    BY DEF Init, Procs, Kinds
  <1>2. conf = [p \in Procs |-> [f \in Flags |-> Default(kind[p], f)]]
    BY DEF Init, Defaults
  <1>3. FlagsTyped
    <2> SUFFICES ASSUME NEW p \in Procs
                 PROVE  /\ DOMAIN conf[p] = Flags
                        /\ \A f \in AllBools : conf[p][f] \in BOOLEAN
                        /\ conf[p]["mux-max-stream"] \in Int /\ conf[p]["timeout"] \in Int
      BY DEF FlagsTyped
    <2>1. conf[p] = [f \in Flags |-> Default(kind[p], f)]
      BY <1>2
    <2>2. \A f \in Flags : conf[p][f] = Default(kind[p], f)
      BY <2>1
    <2>3. AllBools \subseteq Flags /\ {"mux-max-stream", "timeout"} \subseteq Flags
      BY FlagNames
    <2>4. \A f \in AllBools : Default(kind[p], f) = FALSE
      <3>1. \A f \in AllBools : f \in {"wss", "mux", "sv", "disable-tls"}
        BY FlagNames
      <3> QED  BY <3>1 DEF Default
    <2>5. Default(kind[p], "mux-max-stream") = 4
      BY DEF Default
    <2>6. Default(kind[p], "timeout") \in {60, 300}
      BY DEF Default
    <2>7. \A f \in AllBools : conf[p][f] \in BOOLEAN
      BY <2>2, <2>3, <2>4
    <2>8. conf[p]["mux-max-stream"] = Default(kind[p], "mux-max-stream")
          /\ conf[p]["timeout"] = Default(kind[p], "timeout")
      BY <2>2, <2>3
    <2>9. conf[p]["mux-max-stream"] \in Int /\ conf[p]["timeout"] \in Int
      BY <2>5, <2>6, <2>8
    <2>10. DOMAIN conf[p] = Flags
      BY <2>1
    <2> QED  BY <2>7, <2>9, <2>10
  <1>4. ConfOK
    BY <1>2 DEF ConfOK
  <1>5. TypeOK
    BY <1>1, <1>3, TypeParts DEF Init, Envs, Place
  <1> QED  BY <1>4, <1>5 DEF Inv

-----------------------------------------------------------------------------
(* The invariant is inductive.                                             *)

LEMMA FlagsTypedStep ==
    ASSUME Inv, NEW p \in Procs, NEW f \in Flags, NEW v, Set(p, f, v),
           f \in AllBools => v \in BOOLEAN,
           f \in {"mux-max-stream", "timeout"} => v \in Int
    PROVE  FlagsTyped' /\ ConfOK' /\ \A q \in Procs : q # p => conf'[q] = conf[q]
  <1>1. FlagsTyped /\ ConfOK
    BY TypeParts DEF Inv
  <1>2. /\ ConfOK' /\ conf'[p][f] = v
        /\ \A g \in Flags : g # f => conf'[p][g] = conf[p][g]
        /\ \A q \in Procs : q # p => conf'[q] = conf[q]
        /\ \A q \in Procs : DOMAIN conf'[q] = Flags
    BY <1>1, SetFlag
  <1>3. AllBools \subseteq Flags /\ {"mux-max-stream", "timeout"} \subseteq Flags
    BY FlagNames
  <1>4. \A g \in AllBools : conf'[p][g] \in BOOLEAN
    BY <1>1, <1>2, <1>3 DEF FlagsTyped
  <1>5. conf'[p]["mux-max-stream"] \in Int /\ conf'[p]["timeout"] \in Int
    BY <1>1, <1>2, <1>3 DEF FlagsTyped
  <1> QED  BY <1>1, <1>2, <1>4, <1>5 DEF FlagsTyped

\* The rest of TypeOK, for a step that only goes on.
LEMMA TypeStep ==
    ASSUME TypeOK, FlagsTyped', NEW p \in Procs,
           \/ stage' = stage
           \/ \E s \in {"parse", "init", "run", "fatal"} : stage' = [stage EXCEPT ![p] = s],
           next' \in [Procs -> [option : Nat \ {0}, word : Nat]],
           UNCHANGED <<kind, env, cert, link>>
    PROVE  TypeOK'
  <1>1. /\ kind \in [Procs -> Kinds] /\ env \in [Procs -> Envs]
        /\ next \in [Procs -> [option : Nat \ {0}, word : Nat]]
        /\ stage \in [Procs -> {"env", "parse", "init", "run", "fatal"}]
        /\ cert \in [Procs -> {"none", "proxy", "selfSigned", "loaded"}]
        /\ link \in [client : {"none", "failed", "smux", "stream"},
                     server : {"none", "failed", "smux", "stream"}, offered : BOOLEAN]
    BY DEF TypeOK
  <1>2. stage' \in [Procs -> {"env", "parse", "init", "run", "fatal"}]
    BY <1>1
  <1> QED  BY <1>1, <1>2, TypeParts, FlagNames DEF TypeOK, FlagsTyped, AllBools

\* What is not refused has passed the checks.
LEMMA Accepted ==
    ASSUME TypeOK, NEW p \in Procs, ~Refused(p)
    PROVE  /\ conf[p]["addr"] # Nothing /\ conf[p]["timeout"] > 0
           /\ kind[p] = "client" =>
                 /\ conf[p]["mux-max-stream"] \in 1..16
                 /\ conf[p]["n"] # Nothing \/ Splits(conf[p]["addr"])
  <1>1. conf[p]["timeout"] \in Int /\ ~(conf[p]["timeout"] <= 0)
    BY DEF TypeOK, Refused
  <1>2. conf[p]["timeout"] > 0
    BY <1>1
  <1>3. conf[p]["addr"] # Nothing
    BY DEF Refused
  <1>4. kind[p] = "client" => /\ conf[p]["mux-max-stream"] \in 1..16
                              /\ conf[p]["n"] # Nothing \/ Splits(conf[p]["addr"])
    BY DEF Refused
  <1> QED  BY <1>2, <1>3, <1>4

\* A value that is read, or is not, is one of its flag.
LEMMA ValueTyped ==
    ASSUME NEW f, NEW w, f \in {"mux-max-stream", "timeout"}
    PROVE  Value(f, w) \in Int
  BY StartupAssumption DEF Value, Signed, Readable

\* Steps that leave the flags alone, and run nothing.
LEMMA SameFlagsInv ==
    ASSUME Inv, NEW p \in Procs,
           \/ GetSIP003ArgsFails(p) \/ FormatSSPluginOptionsFails(p) \/ CommandLine(p)
           \/ ParseEnds(p) \/ NewFails(p) \/ CertificateFails(p) \/ HandlePanics(p)
    PROVE  Inv'
  <1>1. /\ stage[p] # "run" /\ UNCHANGED <<kind, env, next, conf, cert, link>>
        /\ \E s \in {"parse", "init", "fatal"} : stage' = [stage EXCEPT ![p] = s]
    BY DEF GetSIP003ArgsFails, FormatSSPluginOptionsFails, CommandLine, ParseEnds, NewFails,
       CertificateFails, HandlePanics, At, Fatal, Goto
  <1>2. TypeOK' /\ ConfOK'
    BY <1>1 DEF Inv, TypeOK, ConfOK
  <1> QED  BY <1>2 DEF Inv

\* A place has a place after it.
LEMMA AfterTyped ==
    ASSUME NEW p \in Procs, NEW c \in [option : Nat \ {0}, word : Nat]
    PROVE  After(p, c) \in [option : Nat \ {0}, word : Nat]
  BY DEF After, Place

LEMMA Cursor ==
    ASSUME TypeOK, NEW p \in Procs,
           \/ UNCHANGED next
           \/ next' = [next EXCEPT ![p] = After(p, next[p])]
           \/ next' = [next EXCEPT ![p] = After(p, After(p, next[p]))]
    PROVE  next' \in [Procs -> [option : Nat \ {0}, word : Nat]]
  <1>1. next \in [Procs -> [option : Nat \ {0}, word : Nat]]
    BY DEF TypeOK
  <1>2. /\ After(p, next[p]) \in [option : Nat \ {0}, word : Nat]
        /\ After(p, After(p, next[p])) \in [option : Nat \ {0}, word : Nat]
    BY <1>1, AfterTyped
  <1> QED  BY <1>1, <1>2

\* Steps that set a flag.
LEMMA FlagInv ==
    ASSUME Inv, NEW p \in Procs, Plugin(p) \/ ParseFlag(p) \/ ParseFails(p)
    PROVE  Inv'
  <1>1. /\ stage[p] # "run" /\ UNCHANGED <<kind, env, cert, link>>
        /\ \/ stage' = stage
           \/ \E s \in {"parse", "init", "fatal"} : stage' = [stage EXCEPT ![p] = s]
    BY DEF Plugin, ParseFlag, ParseFails, AtFlag, At, Goto
  <1>2. kind[p] \in Kinds
    BY DEF Inv, TypeOK
  <1>3. \/ UNCHANGED conf
        \/ \E f \in Flags : \E v :
              /\ Set(p, f, v)
              /\ f \in AllBools => v \in BOOLEAN
              /\ f \in {"mux-max-stream", "timeout"} => v \in Int
    <2>1. CASE Plugin(p)
      <3>1. Set(p, "addr", FromEnv)
        BY <2>1 DEF Plugin, Set
      <3>2. "addr" \in Flags \ AllBools
        BY FlagNames
      <3> QED  BY <3>1, <3>2
    <2>2. CASE ParseFlag(p)
      <3>1. PICK f : \/ f \in Bools[kind[p]] /\ Set(p, f, TRUE)
                     \/ f \in Values[kind[p]] /\ \E w : Set(p, f, Value(f, w))
        BY <2>2 DEF ParseFlag, Set
      <3>2. CASE f \in Bools[kind[p]] /\ Set(p, f, TRUE)
        <4>1. f \in Flags /\ f \notin {"mux-max-stream", "timeout"}
          BY <1>2, <3>2, FlagNames
        <4> QED  BY <3>2, <4>1
      <3>3. CASE f \in Values[kind[p]] /\ \E w : Set(p, f, Value(f, w))
        <4>1. f \in Flags \ AllBools
          BY <1>2, <3>3, FlagNames
        <4>2. \A w : f \in {"mux-max-stream", "timeout"} => Value(f, w) \in Int
          BY ValueTyped
        <4> QED  BY <3>3, <4>1, <4>2
      <3> QED  BY <3>1, <3>2, <3>3
    <2>3. CASE ParseFails(p)
      <3>1. \/ UNCHANGED conf
            \/ \E f \in Values[kind[p]] : Set(p, f, 0)
        BY <2>3 DEF ParseFails, Set
      <3> QED  BY <1>2, <3>1, FlagNames
    <2> QED  BY <2>1, <2>2, <2>3
  <1>4. FlagsTyped' /\ ConfOK' /\ \A q \in Procs : q # p => conf'[q] = conf[q]
    <2>1. CASE UNCHANGED conf
      <3>1. FlagsTyped /\ ConfOK
        BY TypeParts DEF Inv
      <3> QED  BY <2>1, <3>1 DEF FlagsTyped, ConfOK
    <2>2. ASSUME conf' # conf
          PROVE  FlagsTyped' /\ ConfOK' /\ \A q \in Procs : q # p => conf'[q] = conf[q]
      <3>1. PICK f \in Flags : \E v :
              /\ Set(p, f, v)
              /\ f \in AllBools => v \in BOOLEAN
              /\ f \in {"mux-max-stream", "timeout"} => v \in Int
        BY <1>3, <2>2
      <3> QED  BY <3>1, FlagsTypedStep
    <2> QED  BY <2>1, <2>2
  <1>5. next' \in [Procs -> [option : Nat \ {0}, word : Nat]]
    BY Cursor DEF Inv, Plugin, ParseFlag, ParseFails
  <1>6. TypeOK'
    BY <1>1, <1>4, <1>5, TypeStep DEF Inv
  <1> QED  BY <1>4, <1>6 DEF Inv

LEMMA NewClientInv ==
    ASSUME Inv, NEW p \in Procs, NewClient(p)
    PROVE  Inv'
  <1>1. PICK v : Set(p, "wss-path", v)
    BY DEF NewClient, Set
  <1>2. "wss-path" \in Flags \ AllBools
    BY FlagNames
  <1>3. FlagsTyped' /\ ConfOK'
    BY <1>1, <1>2, FlagsTypedStep
  <1>4. stage' = [stage EXCEPT ![p] = "run"] /\ UNCHANGED <<kind, env, next, cert, link>>
    BY DEF NewClient, Goto
  <1>5. TypeOK'
    BY <1>3, <1>4, Cursor, TypeStep DEF Inv
  <1> QED  BY <1>3, <1>5 DEF Inv

LEMMA NewServerInv ==
    ASSUME Inv, NEW p \in Procs, NewServer(p)
    PROVE  Inv'
  <1>1. /\ stage' = [stage EXCEPT ![p] = "run"]
        /\ cert' = [cert EXCEPT ![p] = Certificate(p)]
        /\ UNCHANGED <<kind, env, next, conf, link>>
    BY DEF NewServer, Goto
  <1>2. Certificate(p) \in {"proxy", "selfSigned", "loaded"}
    BY DEF Certificate
  <1> QED  BY <1>1, <1>2 DEF Inv, TypeOK, ConfOK

LEMMA ConnectInv ==
    ASSUME Inv, NEW offered \in BOOLEAN, Connect(offered)
    PROVE  Inv'
  <1>1. ClientFraming \in {"failed", "smux", "stream"}
    BY DEF ClientFraming, Framing
  <1>2. ServerFraming(offered) \in {"failed", "smux", "stream"}
    BY DEF ServerFraming, Framing
  <1>3. /\ link' = [client |-> ClientFraming, server |-> ServerFraming(offered),
                   offered |-> offered]
        /\ UNCHANGED <<kind, env, stage, next, conf, cert>>
    BY DEF Connect
  <1> QED  BY <1>1, <1>2, <1>3 DEF Inv, TypeOK, ConfOK

LEMMA NextInv == Inv /\ [Next]_vars => Inv'
  <1> SUFFICES ASSUME Inv, [Next]_vars PROVE Inv'
    OBVIOUS
  <1>1. ASSUME NEW p \in Procs, Boot(p) PROVE Inv'
    BY <1>1, SameFlagsInv, FlagInv, NewClientInv, NewServerInv DEF Boot
  <1>2. CASE UNCHANGED vars
    BY <1>2 DEF vars, Inv, TypeOK, ConfOK
  <1> QED  BY <1>1, <1>2, ConnectInv DEF Next, Stop

-----------------------------------------------------------------------------
(* What has been read so far.                                              *)

Took(p, n, S) == \A f \in FlagsOf(kind[p]) \ S : conf[p][f] = Asked(p, n, f)

\* An option that is not well formed has been passed over.
Lost(p) == \E n \in 0..Len(given[p]) : n < Len(given[p]) /\ SoundUpTo(p, n) /\ GoesOn(p, n + 1)

\* Behind option n, and all is well.
Between(p, n) ==
    /\ next[p] = Place(n + 1, 0)
    /\ \A i \in 1..n : WellFormed(kind[p], given[p][i])
    /\ Took(p, n, {})

\* At a word of option n + 1 that ends the flags.
Stuck(p, n) ==
    /\ n < Len(given[p]) /\ SoundUpTo(p, n) /\ EndsFlags(p, n + 1)
    /\ \E w \in 1..Len(given[p][n + 1].words) :
          next[p] = Place(n + 1, w) /\ ~IsFlag(given[p][n + 1].words[w])
    /\ Took(p, n, {given[p][n + 1].key})

Slashed(w) == IF w.lead = "/" THEN w ELSE Word("/", w.text)

\* What a program runs with, when all its options were well formed.
Final(p, f) ==
    LET asked == Asked(p, Len(given[p]), f)
    IN  IF kind[p] = "client" /\ f = "wss-path" THEN Slashed(asked) ELSE asked

\* RunsAsGiven, at the option it is about.
Runs(p, n) ==
    /\ MayLose(p, n)
    /\ (n < Len(given[p]) /\ GoesOn(p, n + 1)) \/ RunsAs(p, n)

Reading(p) ==
    /\ stage[p] = "env" => next[p] = Place(1, 0) /\ conf[p] = Defaults(kind[p])
    /\ stage[p] = "parse" =>
          Lost(p) \/ \E n \in 0..Len(given[p]) : Between(p, n) \/ Stuck(p, n)
    /\ stage[p] = "init" =>
          \E n \in 0..Len(given[p]) : SoundUpTo(p, n) /\ TakenUpTo(p, n) /\ MayLose(p, n)
    /\ stage[p] = "run" =>
          \E n \in 0..Len(given[p]) :
              /\ SoundUpTo(p, n) /\ Runs(p, n)
              /\ n = Len(given[p]) => \A f \in FlagsOf(kind[p]) : conf[p][f] = Final(p, f)

\* A connection is what the options of two running programs make it.
LinkOK ==
    link.client # "none" =>
        /\ \A p \in Procs : stage[p] = "run"
        /\ ~link.offered => OverHTTP
        /\ link.client = ClientFraming /\ link.server = ServerFraming(link.offered)

ReadInv ==
    /\ kind["client"] = "client" /\ kind["server"] \in {"server", "mu"}
    /\ \A p \in Procs : given[p] \in Seq(Option) /\ Reading(p)
    /\ LinkOK

\* The well-formed options end in one place only.
LEMMA SoundUnique ==
    ASSUME NEW p \in Procs, given[p] \in Seq(Option),
           NEW n \in 0..Len(given[p]), SoundUpTo(p, n)
    PROVE  Sound(p) = n
  <1>1. Len(given[p]) \in Nat
    OBVIOUS
  <1>2. ASSUME NEW m \in 0..Len(given[p]), SoundUpTo(p, m)
        PROVE  m = n
    <2>1. CASE m < n
      BY <1>1, <1>2, <2>1 DEF SoundUpTo
    <2>2. CASE n < m
      BY <1>1, <1>2, <2>2 DEF SoundUpTo
    <2> QED  BY <1>1, <2>1, <2>2
  <1> QED  BY <1>2 DEF Sound

\* Every option has its say about its own key only, and the last one counts.
LEMMA AskedNothing ==
    ASSUME NEW p, NEW f
    PROVE  Asked(p, 0, f) =
               IF f = "addr" /\ AsPlugin(p) THEN FromEnv ELSE Default(kind[p], f)
  BY DEF Asked

LEMMA AskedNext ==
    ASSUME NEW p, NEW n \in Nat, NEW f
    PROVE  /\ given[p][n + 1].key # f => Asked(p, n + 1, f) = Asked(p, n, f)
           /\ given[p][n + 1].key = f =>
                 Asked(p, n + 1, f) = IF f \in Bools[kind[p]] THEN TRUE
                                      ELSE Value(f, given[p][n + 1].words[1])
  <1> DEFINE says(m) == {i \in 1..m : given[p][i].key = f}
  <1>1. \A m : Asked(p, m, f) =
                   IF says(m) = {}
                   THEN IF f = "addr" /\ AsPlugin(p) THEN FromEnv ELSE Default(kind[p], f)
                   ELSE IF f \in Bools[kind[p]] THEN TRUE
                   ELSE Value(f, given[p][Max(says(m))].words[1])
    BY DEF Asked
  <1>2. CASE given[p][n + 1].key # f
    <2>1. says(n + 1) = says(n)
      BY <1>2
    <2> QED  BY <1>1, <1>2, <2>1
  <1>3. CASE given[p][n + 1].key = f
    <2>1. n + 1 \in says(n + 1) /\ \A j \in says(n + 1) : j \in Int /\ n + 1 >= j
      BY <1>3
    <2>2. \A i \in says(n + 1) : (\A j \in says(n + 1) : i >= j) => i = n + 1
      BY <2>1
    <2>3. Max(says(n + 1)) = n + 1
      BY <2>1, <2>2 DEF Max
    <2>4. says(n + 1) # {}
      BY <2>1
    <2> HIDE DEF says
    <2> QED  BY <1>1, <1>3, <2>3, <2>4
  <1> QED  BY <1>2, <1>3

\* A flag is a switch or has a value, not both.
LEMMA Disjoint == \A k \in Kinds : Bools[k] \cap Values[k] = {} /\ "" \notin FlagsOf(k)
  <1>1. \A k \in Kinds : FlagsOf(k) \subseteq Flags
    BY DEF Flags, FlagsOf
  <1>2. \A k \in Kinds : Bools[k] \subseteq AllBools /\ Values[k] \cap AllBools = {}
    BY FlagNames
  <1>3. "" \notin Flags
    BY FlagNames
  <1> QED  BY <1>1, <1>2, <1>3

-----------------------------------------------------------------------------
(* Reading on.                                                             *)

Same == UNCHANGED <<kind, env, given>>

LEMMA SameOptions ==
    ASSUME Same, NEW p
    PROVE  /\ AsPlugin(p)' = AsPlugin(p)
           /\ \A n, f : Asked(p, n, f)' = Asked(p, n, f)
           /\ \A n : SoundUpTo(p, n)' = SoundUpTo(p, n) /\ GoesOn(p, n)' = GoesOn(p, n)
           /\ \A n : EndsFlags(p, n)' = EndsFlags(p, n) /\ MayLose(p, n)' = MayLose(p, n)
           /\ \A n : Bad(p, n)' = Bad(p, n) /\ CertificateAsked(p, n)' = CertificateAsked(p, n)
           /\ Lost(p)' = Lost(p)
  <1>1. AsPlugin(p)' = AsPlugin(p)
    BY DEF Same, AsPlugin
  <1>2. \A n, f : Asked(p, n, f)' = Asked(p, n, f)
    BY <1>1 DEF Same, Asked
  <1>3. \A n : SoundUpTo(p, n)' = SoundUpTo(p, n) /\ GoesOn(p, n)' = GoesOn(p, n)
    BY DEF Same, SoundUpTo, GoesOn
  <1>4. Lost(p)' = Lost(p)
    BY <1>3 DEF Same, Lost
  <1>5. \A n : EndsFlags(p, n)' = EndsFlags(p, n)
    BY DEF Same, EndsFlags
  <1>6. \A n : MayLose(p, n)' = MayLose(p, n)
    BY <1>1, <1>3, <1>5 DEF Same, MayLose
  <1>7. \A n : Bad(p, n)' = Bad(p, n)
    BY DEF Same, Bad
  <1>8. \A n : CertificateAsked(p, n)' = CertificateAsked(p, n)
    BY <1>2 DEF CertificateAsked
  <1> QED  BY <1>1, <1>2, <1>3, <1>4, <1>5, <1>6, <1>7, <1>8

LEMMA SameReading ==
    ASSUME Same, NEW p, Reading(p),
           stage'[p] = stage[p], next'[p] = next[p], conf'[p] = conf[p], cert'[p] = cert[p]
    PROVE  Reading(p)'
  <1>1. \A n : Took(p, n, {})' = Took(p, n, {})
    BY SameOptions DEF Same, Took
  <1>2. \A n : Between(p, n)' = Between(p, n)
    BY <1>1 DEF Same, Between
  <1>3. \A n, k : Took(p, n, {k})' = Took(p, n, {k})
    BY SameOptions DEF Same, Took
  <1>4. \A n : Stuck(p, n)' = Stuck(p, n)
    <2>1. given'[p] = given[p] /\ next'[p] = next[p]
      BY DEF Same
    <2>2. \A n : /\ SoundUpTo(p, n)' = SoundUpTo(p, n)
               /\ Took(p, n, {given[p][n + 1].key})' = Took(p, n, {given[p][n + 1].key})
      <3>1. \A n : {given[p][n + 1].key}' = {given[p][n + 1].key}
        BY DEF Same
      <3> QED  BY <1>3, <3>1, SameOptions DEF Same, Took
    <2>3. \A n : EndsFlags(p, n)' = EndsFlags(p, n)
      BY SameOptions
    <2> QED  BY <2>1, <2>2, <2>3 DEF Stuck
  <1>5. \A n : TakenUpTo(p, n)' = TakenUpTo(p, n)
    <2>1. given'[p] = given[p] /\ FlagsOf(kind[p])' = FlagsOf(kind[p])
      BY DEF Same
    <2>2. \A n, f : (conf[p][f] = Asked(p, n, f))' = (conf[p][f] = Asked(p, n, f))
      BY SameOptions
    <2>3. \A n : GoesOn(p, n)' = GoesOn(p, n) /\ Bad(p, n)' = Bad(p, n)
      BY SameOptions
    <2> QED  BY <2>1, <2>2, <2>3 DEF TakenUpTo
  <1>6. \A f : Final(p, f)' = Final(p, f)
    <2>1. kind'[p] = kind[p] /\ Len(given'[p]) = Len(given[p])
      BY DEF Same
    <2>2. \A n, f : Asked(p, n, f)' = Asked(p, n, f)
      BY SameOptions
    <2> QED  BY <2>1, <2>2 DEF Final
  <1>7. \A n : Runs(p, n)' = Runs(p, n)
    <2>1. \A n : RunsAs(p, n)' = RunsAs(p, n)
      BY SameOptions DEF Same, RunsAs
    <2>2. given'[p] = given[p]
      BY DEF Same
    <2> QED  BY <2>1, <2>2, SameOptions DEF Runs
  <1> QED  BY <1>2, <1>4, <1>5, <1>6, <1>7, SameOptions DEF Same, Reading

LEMMA OnlyOption ==
    ASSUME NEW p, NEW key, Options(p) = <<[key |-> key, words |-> <<>>]>>,
           NEW n \in Nat, InArgs(p, Place(n + 1, 0))
    PROVE  WordAt(p, Place(n + 1, 0)) = Word("-", key)
  <1>1. Len(Options(p)) = 1 /\ Options(p)[1].key = key
    OBVIOUS
  <1>2. n = 0
    BY <1>1 DEF InArgs, Place
  <1> QED  BY <1>1, <1>2 DEF WordAt, Place

\* A flag is the key of an option; the empty option of a plugin is none.
LEMMA FlagInGiven ==
    ASSUME NEW p \in Procs, given[p] \in Seq(Option), NEW n \in Nat,
           InArgs(p, Place(n + 1, 0)), IsFlag(WordAt(p, Place(n + 1, 0)))
    PROVE  /\ n < Len(given[p]) /\ Options(p) = given[p]
           /\ WordAt(p, Place(n + 1, 0)).text = given[p][n + 1].key
  <1>1. Options(p) = given[p]
    <2> SUFFICES ASSUME AsPlugin(p), given[p] = <<>> PROVE FALSE
      BY DEF Options
    <2>1. Options(p) = <<[key |-> "", words |-> <<>>]>>
      BY DEF Options
    <2>2. WordAt(p, Place(n + 1, 0)) = Word("-", "")
      BY <2>1, OnlyOption
    <2>3. ~IsFlag(Word("-", ""))
      BY DEF IsFlag, Word
    <2> QED  BY <2>2, <2>3
  <1> QED  BY <1>1 DEF InArgs, WordAt, Place, Word

LEMMA SoundHere ==
    ASSUME NEW p, NEW n, Between(p, n), n < Len(given[p]) => ~WellFormed(kind[p], given[p][n + 1])
    PROVE  SoundUpTo(p, n)
  BY DEF Between, SoundUpTo

\* What a flag that is set says of the others, and of itself.
LEMMA TookFlag ==
    ASSUME ConfOK, Same, NEW p \in Procs, kind[p] \in Kinds, NEW n \in Nat, Took(p, n, {}),
           NEW f \in Flags, NEW v, Set(p, f, v), given[p][n + 1].key = f
    PROVE  /\ Took(p, n, {f})'
           /\ v = Asked(p, n + 1, f) => Took(p, n + 1, {})'
  <1>1. /\ \A g \in Flags : g # f => conf'[p][g] = conf[p][g]
        /\ conf'[p][f] = v
    BY SetFlag
  <1>2. FlagsOf(kind[p]) \subseteq Flags
    BY DEF FlagsOf, Flags
  <1>3. \A g \in FlagsOf(kind[p]) : g # f => conf'[p][g] = Asked(p, n, g)
    BY <1>1, <1>2 DEF Took
  <1>4. \A g : g # f => Asked(p, n + 1, g) = Asked(p, n, g)
    BY AskedNext
  <1> QED  BY <1>1, <1>3, <1>4, SameOptions DEF Took, Same

LEMMA StuckEnds ==
    ASSUME NEW p \in Procs, given[p] \in Seq(Option), NEW n \in 0..Len(given[p]), Stuck(p, n)
    PROVE  ~AtFlag(p)
  <1>1. PICK w \in 1..Len(given[p][n + 1].words) :
            next[p] = Place(n + 1, w) /\ ~IsFlag(given[p][n + 1].words[w])
    BY DEF Stuck
  <1>2. w # 0 /\ next[p].option = n + 1 /\ next[p].word = w
    BY <1>1 DEF Place
  <1>3. Options(p) = given[p]
    <2>1. given[p] # <<>>
      BY DEF Stuck
    <2> QED  BY <2>1 DEF Options
  <1>4. WordAt(p, next[p]) = given[p][n + 1].words[w]
    BY <1>2, <1>3 DEF WordAt
  <1> QED  BY <1>1, <1>4 DEF AtFlag

LEMMA One == \A m \in Nat : (m > 1 => m # 1) /\ (m > 0 => m = 1 \/ m > 1)
  OBVIOUS

LEMMA ParseFlagReads ==
    ASSUME Inv, ReadInv, NEW p \in Procs, ParseFlag(p)
    PROVE  Reading(p)'
  <1>1. /\ Same /\ stage'[p] = "parse" /\ stage[p] = "parse"
        /\ kind[p] \in Kinds /\ ConfOK /\ given[p] \in Seq(Option) /\ p \in DOMAIN next
    BY DEF ParseFlag, AtFlag, At, Same, Inv, ReadInv, TypeOK
  <1>2. CASE Lost(p)
    BY <1>1, <1>2, SameOptions DEF Reading
  <1>3. ASSUME NEW n \in 0..Len(given[p]), Stuck(p, n)
        PROVE  FALSE
    BY <1>1, <1>3, StuckEnds DEF ParseFlag
  <1>4. ASSUME NEW n \in 0..Len(given[p]), Between(p, n)
        PROVE  Reading(p)'
    <2> DEFINE o == given[p][n + 1]
    <2>1. next[p] = Place(n + 1, 0) /\ n \in Nat
      BY <1>1, <1>4 DEF Between
    <2>2. n < Len(given[p]) /\ Options(p) = given[p] /\ WordAt(p, next[p]).text = o.key
      BY <1>1, <2>1, FlagInGiven DEF ParseFlag, AtFlag
    <2>3. /\ n + 1 \in 1..Len(given[p]) /\ n + 1 \in 0..Len(given[p])
          /\ o.words \in Seq(Words) /\ Len(o.words) \in Nat
      <3>1. n + 1 \in 1..Len(given[p]) /\ n + 1 \in 0..Len(given[p])
        BY <1>1, <2>1, <2>2
      <3>2. o \in Option
        BY <1>1, <3>1
      <3> QED  BY <3>1, <3>2 DEF Option
    <2>0. Len(o.words) \in Nat
      BY <2>3
    <2> PICK key : key = o.key
      OBVIOUS
    <2>4. \A w \in Nat : After(p, Place(n + 1, w)) =
                             IF w < Len(o.words) THEN Place(n + 1, w + 1) ELSE Place(n + 2, 0)
      BY <2>1, <2>2 DEF After, Place
    <2>5. key \in FlagsOf(kind[p]) => key \in Flags
      BY <1>1 DEF FlagsOf, Flags
    <2>6. Took(p, n, {})
      BY <1>4 DEF Between
    <2>7. Asked(p, n + 1, key) =
              IF key \in Bools[kind[p]] THEN TRUE ELSE Value(key, o.words[1])
      <3>1. n \in Nat /\ given[p][n + 1].key = key
        BY <2>1
      <3> QED  BY ONLY <3>1, AskedNext, Zenon
    \* Behind an option that is well formed.
    <2>8. ASSUME WellFormed(kind[p], o), next'[p] = Place(n + 2, 0), Took(p, n + 1, {})'
          PROVE  Reading(p)'
      <3>1. \A i \in 1..(n + 1) : WellFormed(kind[p], given[p][i])
        BY <1>4, <2>1, <2>8 DEF Between
      <3>2. Between(p, n + 1)'
        BY <1>1, <2>1, <2>8, <3>1 DEF Between, Same
      <3>3. Len(given[p])' = Len(given[p])
        BY <1>1 DEF Same
      <3> QED  BY <1>1, <2>3, <3>2, <3>3 DEF Reading
    \* In one that is not: at a word that is a flag, or is not.
    <2>9. ASSUME ~WellFormed(kind[p], o), NEW w \in 1..Len(o.words), next'[p] = Place(n + 1, w),
                 Took(p, n, {key})',
                 IF IsFlag(o.words[w]) THEN GoesOn(p, n + 1) ELSE EndsFlags(p, n + 1)
          PROVE  Reading(p)'
      <3>1. SoundUpTo(p, n)
        BY <1>4, <2>9, SoundHere
      <3>2. CASE IsFlag(o.words[w])
        BY <1>1, <2>2, <2>9, <3>1, <3>2, SameOptions DEF Lost, Reading
      <3>3. CASE ~IsFlag(o.words[w])
        <4>1. Stuck(p, n)'
          BY <1>1, <2>2, <2>9, <3>1, <3>3, SameOptions DEF Stuck, Same
        <4> QED  BY <1>1, <4>1 DEF Reading, Same
      <3> QED  BY <3>2, <3>3
    <2>10. CASE key \in Bools[kind[p]]
      <3>1. key \notin Values[kind[p]]
        BY <1>1, <2>10, Disjoint
      <3>2. Set(p, key, TRUE) /\ next'[p] = After(p, next[p])
        BY <1>1, <2>2, <3>1 DEF ParseFlag, Set
      <3>3. Took(p, n, {key})' /\ Took(p, n + 1, {})'
        BY <1>1, <2>1, <2>5, <2>6, <2>7, <2>10, <3>2, TookFlag DEF FlagsOf
      <3>4. CASE o.words = <<>>
        BY <2>1, <2>4, <2>8, <2>10, <3>2, <3>3, <3>4 DEF WellFormed
      <3>5. CASE o.words # <<>>
        <4>1. 1 \in 1..Len(o.words) /\ next'[p] = Place(n + 1, 1)
          BY <2>1, <2>3, <2>4, <3>2, <3>5
        <4>2. ~WellFormed(kind[p], o)
          BY <3>1, <3>5 DEF WellFormed
        <4>3. IF IsFlag(o.words[1]) THEN GoesOn(p, n + 1) ELSE EndsFlags(p, n + 1)
          BY <2>10, <3>5 DEF GoesOn, EndsFlags
        <4> QED  BY <2>9, <3>3, <4>1, <4>2, <4>3
      <3> QED  BY <3>4, <3>5
    <2>11. CASE key \in Values[kind[p]]
      <3> DEFINE second == After(p, next[p])
      <3>1. key \notin Bools[kind[p]]
        BY <1>1, <2>11, Disjoint
      <3>2. /\ InArgs(p, second) /\ Readable(key, WordAt(p, second))
            /\ Set(p, key, Value(key, WordAt(p, second))) /\ next'[p] = After(p, second)
        BY <1>1, <2>2, <3>1 DEF ParseFlag, Set
      <3>3. CASE o.words = <<>>
        <4>1. second = Place(n + 2, 0)
          BY <2>1, <2>4, <3>3
        <4>2. n + 1 < Len(given[p])
          BY <1>1, <2>1, <2>2, <3>2, <4>1 DEF InArgs, Place
        <4>3. GoesOn(p, n + 1) /\ SoundUpTo(p, n)
          BY <1>4, <2>11, <3>1, <3>3, <4>2, SoundHere DEF GoesOn, WellFormed
        <4> QED  BY <1>1, <2>2, <4>3, SameOptions DEF Lost, Reading
      <3>4. CASE o.words # <<>>
        <4>1. Len(o.words) > 0 /\ second = Place(n + 1, 1) /\ WordAt(p, second) = o.words[1]
          <5>1. Len(o.words) > 0
            BY <2>3, <3>4
          <5>2. second = Place(n + 1, 1)
            BY <2>1, <2>4, <5>1
          <5>3. Place(n + 1, 1).option = n + 1 /\ Place(n + 1, 1).word = 1
            BY DEF Place
          <5>4. WordAt(p, Place(n + 1, 1)) = o.words[1]
            BY <2>2, <5>3 DEF WordAt
          <5> QED  BY <5>1, <5>2, <5>4
        <4>2. Took(p, n, {key})' /\ Took(p, n + 1, {})'
          BY <1>1, <2>1, <2>5, <2>6, <2>7, <2>11, <3>1, <3>2, <4>1, TookFlag DEF FlagsOf
        <4>3. CASE Len(o.words) = 1
          <5>1. next'[p] = Place(n + 2, 0)
            BY <2>4, <3>2, <4>1, <4>3
          <5>2. WellFormed(kind[p], o)
            BY <2>11, <3>2, <4>1, <4>3 DEF WellFormed
          <5> QED  BY <2>8, <4>2, <5>1, <5>2
        <4>4. CASE Len(o.words) > 1
          <5>1. 2 \in 1..Len(o.words) /\ next'[p] = Place(n + 1, 2)
            BY <2>3, <2>4, <3>2, <4>1, <4>4
          <5>2. ~WellFormed(kind[p], o)
            <6>1. Len(o.words) # 1
              BY <2>0, <4>4, One, Zenon
            <6> QED  BY <3>1, <3>4, <6>1 DEF WellFormed
          <5>3. IF IsFlag(o.words[2]) THEN GoesOn(p, n + 1) ELSE EndsFlags(p, n + 1)
            BY <2>11, <3>2, <4>1, <4>4 DEF GoesOn, EndsFlags
          <5> QED  BY <2>9, <4>2, <5>1, <5>2, <5>3
        <4>5. Len(o.words) = 1 \/ Len(o.words) > 1
          BY <2>0, <4>1, One, Zenon
        <4> QED  BY <4>3, <4>4, <4>5
      <3> QED  BY <3>3, <3>4
    <2> QED  BY <2>2, <2>10, <2>11 DEF ParseFlag
  <1> QED  BY <1>1, <1>2, <1>3, <1>4 DEF ReadInv, Reading

\* Before the first word, nothing has been asked for.
LEMMA BeginReads ==
    ASSUME Inv, ReadInv, NEW p \in Procs, Plugin(p) \/ CommandLine(p)
    PROVE  Reading(p)'
  <1>1. /\ Same /\ stage[p] = "env" /\ stage'[p] = "parse" /\ next' = next
        /\ kind[p] \in Kinds /\ ConfOK /\ FlagsOf(kind[p]) \subseteq Flags
    BY DEF Plugin, CommandLine, At, Goto, Same, Inv, TypeOK, FlagsOf, Flags
  <1>2. next[p] = Place(1, 0) /\ conf[p] = [f \in Flags |-> Default(kind[p], f)]
    BY <1>1 DEF ReadInv, Reading, Defaults
  <1>3. \A f \in FlagsOf(kind[p]) : conf'[p][f] = Asked(p, 0, f)
    <2>1. CASE Plugin(p)
      <3>1. \A f : f # "addr" => Asked(p, 0, f) = Default(kind[p], f)
        BY AskedNothing, Zenon
      <3>2. Asked(p, 0, "addr") = FromEnv
        BY <2>1, AskedNothing, Zenon DEF Plugin
      <3>3. Set(p, "addr", Asked(p, 0, "addr"))
        BY <2>1, <3>2, Zenon DEF Plugin, Set
      <3>4. "addr" \in Flags
        BY FlagNames
      <3>5. /\ conf'[p]["addr"] = Asked(p, 0, "addr")
            /\ \A f \in Flags : f # "addr" => conf'[p][f] = conf[p][f]
        BY <1>1, <3>3, <3>4, SetFlag
      <3> QED  BY <1>1, <1>2, <3>1, <3>5
    <2>2. CASE CommandLine(p)
      <3>1. ~AsPlugin(p) /\ conf' = conf
        BY <2>2 DEF CommandLine, AsPlugin
      <3>2. \A f : Asked(p, 0, f) = Default(kind[p], f)
        BY <3>1, AskedNothing, Zenon
      <3> QED  BY <1>1, <1>2, <3>1, <3>2
    <2> QED  BY <2>1, <2>2
  <1>4. Took(p, 0, {})'
    BY <1>1, <1>3, SameOptions DEF Took, Same
  <1>5. Between(p, 0)' /\ 0 \in (0..Len(given[p]))'
    <2>1. 0 \in (0..Len(given[p]))'
      BY <1>1 DEF ReadInv, Same
    <2> QED  BY <1>1, <1>2, <1>4, <2>1 DEF Between
  <1> QED  BY <1>1, <1>5 DEF Reading

\* A process goes on with what it has.
LEMMA Through ==
    ASSUME Same, NEW p, stage'[p] = "init", NEW n \in 0..Len(given[p]),
           \/ n < Len(given[p]) /\ GoesOn(p, n + 1)
           \/ Took(p, n, {})'
           \/ n < Len(given[p]) /\ \E key : key = given[p][n + 1].key /\ Took(p, n, {key})',
           SoundUpTo(p, n), MayLose(p, n)
    PROVE  Reading(p)'
  <1>1. SoundUpTo(p, n)' /\ GoesOn(p, n + 1)' = GoesOn(p, n + 1) /\ MayLose(p, n)'
    BY SameOptions
  <1>2. TakenUpTo(p, n)'
    BY <1>1 DEF Same, TakenUpTo, Took, Bad
  <1> QED  BY <1>1, <1>2 DEF Same, Reading

LEMMA LostThrough ==
    ASSUME Same, NEW p, stage'[p] = "init", Lost(p)
    PROVE  Reading(p)'
  BY Through DEF Lost, MayLose

LEMMA ParseEndsReads ==
    ASSUME Inv, ReadInv, NEW p \in Procs, ParseEnds(p)
    PROVE  Reading(p)'
  <1>1. /\ Same /\ stage[p] = "parse" /\ stage'[p] = "init" /\ conf' = conf /\ ~AtFlag(p)
        /\ At(p, "parse") /\ kind[p] \in Kinds /\ given[p] \in Seq(Option)
    BY DEF ParseEnds, At, Goto, Same, Inv, ReadInv, TypeOK
  <1>2. ASSUME NEW n \in 0..Len(given[p]), Between(p, n)
        PROVE  Reading(p)'
    <2>1. n < Len(given[p]) => /\ ~WellFormed(kind[p], given[p][n + 1])
                               /\ EndsFlags(p, n + 1)
      <3> SUFFICES ASSUME n < Len(given[p])
                   PROVE  ~WellFormed(kind[p], given[p][n + 1]) /\ EndsFlags(p, n + 1)
        OBVIOUS
      <3>1. next[p] = Place(n + 1, 0) /\ Options(p) = given[p]
        <4>1. given[p] # <<>>
          OBVIOUS
        <4> QED  BY <1>2, <4>1 DEF Between, Options
      <3>2. InArgs(p, next[p]) /\ WordAt(p, next[p]) = Word("-", given[p][n + 1].key)
        BY <1>1, <3>1 DEF InArgs, WordAt, Place
      <3>3. ~IsFlag(Word("-", given[p][n + 1].key))
        BY <1>1, <3>2 DEF AtFlag
      <3>4. given[p][n + 1].key = ""
        BY <3>3, Zenon DEF IsFlag, Word
      <3>5. given[p][n + 1].key \notin FlagsOf(kind[p])
        BY <1>1, <3>4, Disjoint, Zenon
      <3> QED  BY <3>4, <3>5 DEF WellFormed, FlagsOf, EndsFlags
    <2>2. Took(p, n, {})'
      BY <1>1, <1>2, SameOptions DEF Between, Took, Same
    <2>3. SoundUpTo(p, n) /\ MayLose(p, n)
      BY <1>2, <2>1, SoundHere DEF MayLose
    <2> QED  BY <1>1, <2>2, <2>3, Through
  <1>3. ASSUME NEW n \in 0..Len(given[p]), Stuck(p, n)
        PROVE  Reading(p)'
    <2>1. PICK key : key = given[p][n + 1].key
      OBVIOUS
    <2>2. Took(p, n, {key})' /\ n < Len(given[p]) /\ SoundUpTo(p, n) /\ MayLose(p, n)
      BY <1>1, <1>3, <2>1, SameOptions DEF Stuck, Took, Same, MayLose
    <2> QED  BY <1>1, <2>1, <2>2, Through
  <1> QED  BY <1>1, <1>2, <1>3, LostThrough DEF ReadInv, Reading

LEMMA ParseFailsReads ==
    ASSUME Inv, ReadInv, NEW p \in Procs, ParseFails(p)
    PROVE  Reading(p)'
  <1>1. /\ Same /\ stage[p] = "parse" /\ stage'[p] \in {"init", "fatal"} /\ AtFlag(p)
        /\ kind[p] \in Kinds /\ ConfOK /\ given[p] \in Seq(Option)
        /\ stage'[p] = "init" => AsPlugin(p)
    BY DEF ParseFails, AtFlag, At, Goto, Same, Inv, ReadInv, TypeOK
  <1>2. CASE stage'[p] = "fatal"
    BY <1>2 DEF Reading
  <1>3. ASSUME NEW n \in 0..Len(given[p]), Between(p, n), stage'[p] = "init"
        PROVE  Reading(p)'
    <2> DEFINE o == given[p][n + 1]
    <2> PICK key : key = o.key
      OBVIOUS
    <2>1. next[p] = Place(n + 1, 0) /\ n \in Nat /\ Took(p, n, {})
      BY <1>1, <1>3 DEF Between
    <2>2. n < Len(given[p]) /\ Options(p) = given[p] /\ WordAt(p, next[p]).text = key
      BY <1>1, <2>1, FlagInGiven DEF AtFlag
    <2>3. o.words \in Seq(Words) /\ Len(o.words) \in Nat
      <3>1. n + 1 \in 1..Len(given[p])
        BY <1>1, <2>1, <2>2
      <3>2. o \in Option
        BY <1>1, <3>1
      <3> QED  BY <3>2 DEF Option
    <2>4. /\ o.words # <<>> => After(p, next[p]) = Place(n + 1, 1)
          /\ o.words = <<>> => After(p, next[p]) = Place(n + 2, 0)
      BY <2>1, <2>2, <2>3 DEF After, Place
    \* An option that is not well formed, whose flag may have been set to 0.
    <2>5. ASSUME ~WellFormed(kind[p], o), conf' = conf \/ (key \in Flags /\ Set(p, key, 0))
          PROVE  Reading(p)'
      <3>1. SoundUpTo(p, n) /\ MayLose(p, n)
        BY <1>1, <1>3, <2>5, SoundHere DEF MayLose
      <3>2. Took(p, n, {})' \/ Took(p, n, {key})'
        <4>1. CASE conf' = conf
          BY <1>1, <2>1, <4>1, SameOptions DEF Took, Same
        <4>2. CASE key \in Flags /\ Set(p, key, 0)
          BY <1>1, <2>1, <4>2, TookFlag
        <4> QED  BY <2>5, <4>1, <4>2
      <3> QED  BY <1>1, <1>3, <2>2, <3>1, <3>2, Through
    <2>6. CASE key \notin Bools[kind[p]] \cup Values[kind[p]]
      <3>1. ~WellFormed(kind[p], o)
        BY <2>6 DEF WellFormed
      <3>2. conf' = conf
        BY <2>2, <2>6 DEF ParseFails
      <3> QED  BY <2>5, <3>1, <3>2
    <2>7. CASE key \in Values[kind[p]]
      <3> DEFINE second == After(p, next[p])
      <3>1. key \notin Bools[kind[p]] /\ key \in Flags
        <4>1. key \notin Bools[kind[p]]
          BY <1>1, <2>7, Disjoint
        <4>2. key \in Flags
          BY <1>1, <2>7 DEF Flags
        <4> QED  BY <4>1, <4>2
      <3>2. conf' = conf \/ Set(p, key, 0)
        BY <2>2 DEF ParseFails, Set
      <3>3. InArgs(p, second) => ~Readable(key, WordAt(p, second))
        BY <2>2, <2>7 DEF ParseFails
      <3>4. CASE o.words = <<>>
        <4>1. Len(o.words) # 1
          BY <3>4
        <4>2. ~WellFormed(kind[p], o)
          BY <3>1, <4>1 DEF WellFormed
        <4> QED  BY <2>5, <3>1, <3>2, <4>2
      <3>5. CASE o.words # <<>>
        <4>1. second = Place(n + 1, 1)
          BY <2>4, <3>5
        <4>2. InArgs(p, second) /\ WordAt(p, second) = o.words[1]
          BY <1>1, <2>1, <2>2, <4>1 DEF InArgs, WordAt, Place
        <4>3. ~WellFormed(kind[p], o)
          BY <3>1, <3>3, <3>5, <4>2 DEF WellFormed
        <4> QED  BY <2>5, <3>1, <3>2, <4>3
      <3> QED  BY <3>4, <3>5
    <2> QED  BY <2>2, <2>6, <2>7 DEF ParseFails
  <1>4. ASSUME NEW n \in 0..Len(given[p]), Stuck(p, n)
        PROVE  FALSE
    BY <1>1, <1>4, StuckEnds
  <1> QED  BY <1>1, <1>2, <1>3, <1>4, LostThrough DEF ReadInv, Reading

\* What passed the checks is what was asked for.
LEMMA RunsAsked ==
    ASSUME TypeOK, Same, NEW p \in Procs, NEW n,
           \A f \in FlagsOf(kind[p]) \ Bad(p, n) : conf[p][f] = Asked(p, n, f),
           kind[p] # "mu" => ~Refused(p),
           kind[p] # "client" => cert'[p] = Certificate(p)
    PROVE  RunsAs(p, n)'
  <1> DEFINE sure(S) == S \cap Bad(p, n) = {}
  <1>1. \A S : S \subseteq FlagsOf(kind[p]) /\ sure(S) => \A f \in S : conf[p][f] = Asked(p, n, f)
    OBVIOUS
  <1>2. /\ kind[p] \in Kinds
        /\ {"addr", "n", "timeout"} \subseteq FlagsOf(kind[p])
        /\ kind[p] = "client" => "mux-max-stream" \in FlagsOf(kind[p])
        /\ kind[p] # "client" => {"disable-tls", "cert", "key"} \subseteq FlagsOf(kind[p])
    <2>1. kind[p] \in Kinds
      BY DEF TypeOK
    <2> QED  BY <2>1 DEF FlagsOf, Bools, Values, Kinds
  <1> HIDE DEF sure
  <1>3. ASSUME kind[p] # "mu"
        PROVE  /\ sure({"addr"}) => Asked(p, n, "addr") # Nothing
               /\ sure({"timeout"}) => Asked(p, n, "timeout") > 0
    <2>1. conf[p]["addr"] # Nothing /\ conf[p]["timeout"] > 0
      BY <1>3, Accepted
    <2> QED  BY <1>1, <1>2, <2>1
  <1>4. ASSUME kind[p] = "client"
        PROVE  /\ sure({"mux-max-stream"}) => Asked(p, n, "mux-max-stream") \in 1..16
               /\ sure({"addr", "n"}) => Asked(p, n, "n") # Nothing \/ Splits(Asked(p, n, "addr"))
    <2>1. /\ conf[p]["mux-max-stream"] \in 1..16
          /\ conf[p]["n"] # Nothing \/ Splits(conf[p]["addr"])
      BY <1>4, Accepted
    <2>2. sure({"mux-max-stream"}) => conf[p]["mux-max-stream"] = Asked(p, n, "mux-max-stream")
      BY <1>1, <1>2, <1>4
    <2>3. sure({"addr", "n"}) => /\ conf[p]["n"] = Asked(p, n, "n")
                                 /\ conf[p]["addr"] = Asked(p, n, "addr")
      BY <1>1, <1>2
    <2> QED  BY <2>1, <2>2, <2>3
  <1>5. ASSUME kind[p] # "client", sure({"disable-tls", "cert", "key"})
        PROVE  cert'[p] = CertificateAsked(p, n)
    <2>1. \A f \in {"disable-tls", "cert", "key"} : conf[p][f] = Asked(p, n, f)
      BY <1>1, <1>2, <1>5
    <2> QED  BY <1>5, <2>1 DEF Certificate, SelfSigned, CertificateAsked
  <1> USE DEF sure
  <1> QED  BY <1>3, <1>4, <1>5, SameOptions DEF RunsAs, Same

\* A process that may run runs as given, and has taken all it was given, if that was
\* well formed.
LEMMA TakenAll ==
    ASSUME TypeOK, Same, NEW p \in Procs, NEW n,
           SoundUpTo(p, n), TakenUpTo(p, n), MayLose(p, n),
           kind[p] # "mu" => ~Refused(p),
           kind[p] # "client" => cert'[p] = Certificate(p)
    PROVE  /\ SoundUpTo(p, n)' /\ Runs(p, n)'
           /\ ~(n < Len(given[p])) => Took(p, n, {})
  <1>1. ~(n < Len(given[p])) => Took(p, n, {})
    BY DEF TakenUpTo, Took, Bad
  <1>2. (n < Len(given[p]) /\ GoesOn(p, n + 1)) \/ RunsAs(p, n)'
    BY RunsAsked DEF TakenUpTo
  <1>3. SoundUpTo(p, n)' /\ Runs(p, n)'
    BY <1>2, SameOptions DEF Runs, Same
  <1> QED  BY <1>1, <1>3

LEMMA NewServerReads ==
    ASSUME Inv, ReadInv, NEW p \in Procs, NewServer(p)
    PROVE  Reading(p)'
  <1>1. /\ Same /\ stage[p] = "init" /\ stage'[p] = "run" /\ conf' = conf /\ kind[p] # "client"
        /\ kind[p] = "server" => ~Refused(p)
        /\ cert'[p] = Certificate(p) /\ kind[p] \in Kinds /\ TypeOK /\ Reading(p)
        /\ given[p] \in Seq(Option)
    BY DEF NewServer, At, Goto, Same, Inv, ReadInv, TypeOK
  <1>2. kind[p] # "mu" => ~Refused(p)
    BY <1>1 DEF Kinds
  <1>3. PICK n \in 0..Len(given[p]) : SoundUpTo(p, n) /\ TakenUpTo(p, n) /\ MayLose(p, n)
    BY <1>1 DEF Reading
  <1>4. SoundUpTo(p, n)' /\ Runs(p, n)' /\ n \in (0..Len(given[p]))'
    BY <1>1, <1>2, <1>3, TakenAll DEF Same
  <1>5. n = Len(given[p]) => Took(p, n, {})
    BY <1>1, <1>2, <1>3, TakenAll
  <1>6. ASSUME n = Len(given[p])
        PROVE  \A f \in FlagsOf(kind[p])' : conf'[p][f] = Final(p, f)'
    BY <1>1, <1>5, <1>6, SameOptions DEF Final, Took, Same
  <1> QED  BY <1>1, <1>4, <1>6 DEF Reading, Same

LEMMA NewClientReads ==
    ASSUME Inv, ReadInv, NEW p \in Procs, NewClient(p)
    PROVE  Reading(p)'
  <1>1. /\ Same /\ stage[p] = "init" /\ stage'[p] = "run" /\ kind[p] = "client" /\ ~Refused(p)
        /\ TypeOK /\ Reading(p) /\ given[p] \in Seq(Option) /\ ConfOK /\ FlagsOf(kind[p]) \subseteq Flags
    BY DEF NewClient, At, Goto, Same, Inv, ReadInv, TypeOK, FlagsOf, Flags
  <1>2. PICK n \in 0..Len(given[p]) : SoundUpTo(p, n) /\ TakenUpTo(p, n) /\ MayLose(p, n)
    BY <1>1 DEF Reading
  <1>3. /\ SoundUpTo(p, n)' /\ Runs(p, n)' /\ n \in (0..Len(given[p]))'
        /\ n = Len(given[p]) => Took(p, n, {})
    BY <1>1, <1>2, TakenAll DEF Same
  <1>4. Set(p, "wss-path", Slashed(conf[p]["wss-path"]))
    <2>1. DOMAIN conf = Procs /\ DOMAIN conf[p] = Flags /\ "wss-path" \in Flags
      BY <1>1, FlagNames DEF ConfOK
    <2> QED  BY <2>1 DEF NewClient, Set, Slashed
  <1>5. /\ conf'[p]["wss-path"] = Slashed(conf[p]["wss-path"])
        /\ \A f \in Flags : f # "wss-path" => conf'[p][f] = conf[p][f]
    <2>1. "wss-path" \in Flags
      BY FlagNames
    <2> QED  BY <1>1, <1>4, <2>1, SetFlag
  <1>6. ASSUME n = Len(given[p])
        PROVE  \A f \in FlagsOf(kind[p])' : conf'[p][f] = Final(p, f)'
    <2>1. \A f \in FlagsOf(kind[p]) : conf[p][f] = Asked(p, Len(given[p]), f)
      BY <1>3, <1>6 DEF Took
    <2>2. \A f : Final(p, f)' = Final(p, f)
      BY <1>1, SameOptions DEF Final, Same
    <2>3. \A f \in FlagsOf(kind[p]) : conf'[p][f] = Final(p, f)
      BY <1>1, <1>5, <2>1 DEF Final
    <2> QED  BY <1>1, <2>2, <2>3 DEF Same
  <1> QED  BY <1>1, <1>3, <1>6 DEF Reading, Same

LEMMA BootReads ==
    ASSUME Inv, ReadInv, NEW p \in Procs, Boot(p)
    PROVE  ReadInv'
  <1>1. /\ Same /\ stage[p] # "run" /\ \E s : stage' = [stage EXCEPT ![p] = s]
        /\ UNCHANGED link /\ \E c : next' = [next EXCEPT ![p] = c]
        /\ \E c : cert' = [cert EXCEPT ![p] = c]
    <2>1. /\ stage = [stage EXCEPT ![p] = stage[p]] /\ next = [next EXCEPT ![p] = next[p]]
          /\ cert = [cert EXCEPT ![p] = cert[p]]
      BY DEF Inv, TypeOK
    <2>2. CASE Plugin(p)
      <3>1. At(p, "env") /\ Goto(p, "parse") /\ UNCHANGED <<kind, env, given, next, cert, link>>
        BY <2>2, Zenon DEF Plugin
      <3> QED  BY <2>1, <3>1 DEF At, Goto, Same
    <2>3. CASE ParseFlag(p)
      <3>1. /\ At(p, "parse") /\ UNCHANGED <<kind, env, given, stage, cert, link>>
            /\ \E c : next' = [next EXCEPT ![p] = c]
        BY <2>3 DEF ParseFlag, AtFlag
      <3> QED  BY <2>1, <3>1 DEF At, Same
    <2>4. CASE ParseFails(p)
      <3>1. /\ At(p, "parse") /\ \E s : Goto(p, s)
            /\ UNCHANGED <<kind, env, given, next, cert, link>>
        BY <2>4 DEF ParseFails, AtFlag
      <3> QED  BY <2>1, <3>1 DEF At, Goto, Same
    <2>5. CASE GetSIP003ArgsFails(p) \/ FormatSSPluginOptionsFails(p) \/ CommandLine(p)
               \/ ParseEnds(p) \/ NewFails(p) \/ NewClient(p) \/ CertificateFails(p)
               \/ HandlePanics(p) \/ NewServer(p)
      <3>1. /\ At(p, "env") \/ At(p, "parse") \/ At(p, "init")
            /\ \E s : Goto(p, s)
            /\ UNCHANGED <<kind, env, given, next, link>>
            /\ UNCHANGED cert \/ \E c : cert' = [cert EXCEPT ![p] = c]
        BY <2>5 DEF GetSIP003ArgsFails, FormatSSPluginOptionsFails, CommandLine, ParseEnds, NewFails,
           NewClient, CertificateFails, HandlePanics, NewServer, Fatal
      <3> QED  BY <2>1, <3>1 DEF At, Goto, Same
    <2> QED  BY <2>2, <2>3, <2>4, <2>5 DEF Boot
  <1>2. \E v : conf' = [conf EXCEPT ![p] = v]
    <2>1. \A f, v : Set(p, f, v) => conf' = [conf EXCEPT ![p] = [conf[p] EXCEPT ![f] = v]]
      BY DEF Set
    <2>2. CASE conf' = conf
      <3>1. conf' = [conf EXCEPT ![p] = conf[p]]
        BY <2>2 DEF Inv, ConfOK
      <3> QED  BY <3>1
    <2>3. CASE \E f, v : Set(p, f, v)
      BY <2>1, <2>3
    <2>4. conf' = conf \/ \E f, v : Set(p, f, v)
      BY DEF Boot, GetSIP003ArgsFails, FormatSSPluginOptionsFails, Plugin, CommandLine, ParseFlag,
         ParseEnds, ParseFails, NewFails, NewClient, CertificateFails, HandlePanics, NewServer,
         Fatal, Set
    <2> QED  BY <2>2, <2>3, <2>4
  <1>3. ASSUME NEW q \in Procs, q # p PROVE Reading(q)'
    <2>1. stage'[q] = stage[q] /\ next'[q] = next[q] /\ conf'[q] = conf[q] /\ cert'[q] = cert[q]
      BY <1>1, <1>2, <1>3
    <2> QED  BY <1>1, <2>1, SameReading DEF ReadInv
  <1>4. Reading(p)'
    <2>1. CASE GetSIP003ArgsFails(p) \/ FormatSSPluginOptionsFails(p) \/ NewFails(p)
               \/ CertificateFails(p) \/ HandlePanics(p)
      <3>1. stage'[p] = "fatal"
        BY <2>1 DEF GetSIP003ArgsFails, FormatSSPluginOptionsFails, NewFails, CertificateFails,
           HandlePanics, Fatal, Goto, Inv, TypeOK
      <3> QED  BY <3>1 DEF Reading
    <2> QED  BY <2>1, BeginReads, ParseFlagReads, ParseEndsReads, ParseFailsReads,
                NewClientReads, NewServerReads DEF Boot
  <1>5. LinkOK'
    BY <1>1 DEF LinkOK, ReadInv
  <1> QED  BY <1>1, <1>3, <1>4, <1>5 DEF ReadInv, Same

LEMMA ConnectReads ==
    ASSUME Inv, ReadInv, NEW offered \in BOOLEAN, Connect(offered)
    PROVE  ReadInv'
  <1>1. /\ Same /\ UNCHANGED <<stage, next, conf, cert>>
        /\ link' = [client |-> ClientFraming, server |-> ServerFraming(offered),
                    offered |-> offered]
        /\ ~offered => OverHTTP
        /\ \A p \in Procs : stage[p] = "run"
    BY DEF Connect, Same
  <1>2. \A p \in Procs : Reading(p)'
    BY <1>1, SameReading DEF ReadInv
  <1>3. /\ OverHTTP' = OverHTTP /\ ClientFraming' = ClientFraming
        /\ ServerFraming(offered)' = ServerFraming(offered)
    BY <1>1 DEF Same, OverHTTP, ClientFraming, ServerFraming, Received, Trusted, PathFound, Framing
  <1>4. LinkOK'
    BY <1>1, <1>3 DEF LinkOK
  <1> QED  BY <1>1, <1>2, <1>4 DEF ReadInv, Same

LEMMA InitReads == Init => ReadInv
  <1> SUFFICES ASSUME Init PROVE ReadInv
    OBVIOUS
  <1>1. kind["client"] = "client" /\ kind["server"] \in {"server", "mu"}
    BY DEF Init
  <1>2. ASSUME NEW p \in Procs PROVE given[p] \in Seq(Option)
    BY <1>1, StartupAssumption DEF Init, Procs, Kinds
  <1>3. ASSUME NEW p \in Procs PROVE Reading(p)
    BY DEF Init, Reading
  <1> QED  BY <1>1, <1>2, <1>3 DEF ReadInv, LinkOK, Init

LEMMA NextReads == Inv /\ ReadInv /\ [Next]_vars => ReadInv'
  <1> SUFFICES ASSUME Inv, ReadInv, [Next]_vars PROVE ReadInv'
    OBVIOUS
  <1>1. CASE UNCHANGED vars
    <2>1. \A p \in Procs : Reading(p)'
      BY <1>1, SameReading DEF vars, ReadInv, Same
    <2>2. LinkOK'
      BY <1>1 DEF vars, ReadInv, LinkOK, OverHTTP, ClientFraming, ServerFraming, Received, Trusted,
         PathFound, Framing
    <2> QED  BY <1>1, <2>1, <2>2 DEF vars, ReadInv
  <1> QED  BY <1>1, BootReads, ConnectReads DEF Next, Stop

-----------------------------------------------------------------------------
(* The theorems.                                                           *)

THEOREM Invariant == Spec => []Inv
  BY InitInv, NextInv, PTL DEF Spec

\* Every variable of Startup keeps its type, whatever the options are.
THEOREM TypeCorrect == Spec => []TypeOK
  <1>1. Inv => TypeOK
    BY DEF Inv
  <1> QED  BY <1>1, Invariant, PTL

THEOREM ReadInvariant == Spec => []ReadInv
  BY InitReads, NextReads, Invariant, PTL DEF Spec

\* For all options, however wrong: the flags are those that were asked for up to the
\* first option that is not well formed.
THEOREM FlagsArePrefix == Spec => []TakenIsPrefix
  <1>1. ReadInv => TakenIsPrefix
    <2> SUFFICES ASSUME ReadInv, NEW p \in Procs, stage[p] = "init"
                 PROVE  TakenUpTo(p, Sound(p))
      BY DEF TakenIsPrefix
    <2>1. PICK n \in 0..Len(given[p]) : SoundUpTo(p, n) /\ TakenUpTo(p, n)
      BY DEF ReadInv, Reading
    <2>2. Sound(p) = n
      BY <2>1, SoundUnique DEF ReadInv
    <2> QED  BY <2>1, <2>2
  <1> QED  BY <1>1, ReadInvariant, PTL

\* For all options and in all environments: what runs can run with the options before
\* the first one that is not well formed, and a server shows the certificate they ask
\* for; what was given behind that one may be lost, on a command line only in silence
\* and by a plugin also behind an error that main logs.
THEOREM WhatRunsWasGiven == Spec => []RunsAsGiven
  <1>1. ReadInv => RunsAsGiven
    <2> SUFFICES ASSUME ReadInv, NEW p \in Procs, stage[p] = "run"
                 PROVE  Runs(p, Sound(p))
      BY DEF RunsAsGiven, Runs
    <2>1. PICK n \in 0..Len(given[p]) : SoundUpTo(p, n) /\ Runs(p, n)
      BY DEF ReadInv, Reading
    <2>2. Sound(p) = n
      BY <2>1, SoundUnique DEF ReadInv
    <2> QED  BY <2>1, <2>2
  <1> QED  BY <1>1, ReadInvariant, PTL

\* For all options, all environments and all registered paths: a client and a server
\* configured alike take their connection for the same, with a proxy between them or not.
THEOREM AlikeConnect == Spec => []ConsistentConnects
  <1>1. ReadInv => ConsistentConnects
    <2> SUFFICES ASSUME ReadInv, link.client # "none", Trusted, Consistent,
                        \A p \in Procs : Sound(p) = Len(given[p])
                 PROVE  Alike
      BY DEF ConsistentConnects
    <2> DEFINE c(f) == Asked("client", Len(given["client"]), f)
               s(f) == Asked("server", Len(given["server"]), f)
    <2>1. /\ link.client = ClientFraming /\ link.server = ServerFraming(link.offered)
          /\ kind["client"] = "client" /\ kind["server"] \in {"server", "mu"}
      BY DEF ReadInv, LinkOK
    <2>2. ASSUME NEW p \in Procs, NEW f \in FlagsOf(kind[p])
          PROVE  conf[p][f] = Final(p, f)
      <3>1. stage[p] = "run" /\ Reading(p) /\ given[p] \in Seq(Option)
        BY DEF ReadInv, LinkOK
      <3>2. PICK n \in 0..Len(given[p]) :
              /\ SoundUpTo(p, n)
              /\ n = Len(given[p]) => \A g \in FlagsOf(kind[p]) : conf[p][g] = Final(p, g)
        BY <3>1 DEF Reading
      <3>3. Sound(p) = n
        BY <3>1, <3>2, SoundUnique
      <3> QED  BY <3>2, <3>3
    <2>3. /\ {"wss", "mux", "wss-path"} \subseteq FlagsOf(kind["client"])
          /\ "mux" \in FlagsOf(kind["server"])
          /\ kind["server"] = "server" => {"wss", "wss-path"} \subseteq FlagsOf(kind["server"])
      BY <2>1 DEF FlagsOf, Bools, Values
    <2>4. /\ conf["client"]["wss"] = c("wss") /\ conf["client"]["mux"] = c("mux")
          /\ conf["client"]["wss-path"] = Slashed(c("wss-path"))
          /\ conf["server"]["mux"] = s("mux")
          /\ kind["server"] = "server" => conf["server"]["wss-path"] = s("wss-path")
      BY <2>1, <2>2, <2>3 DEF Final, Procs
    <2>5. CASE OverHTTP
      <3>1. /\ c("wss") /\ (link.offered \/ c("mux") = s("mux")) /\ c("wss-path").lead = "/"
            /\ IF kind["server"] = "mu" THEN c("wss-path") \in Registered
               ELSE c("wss-path") = s("wss-path")
        BY <2>5 DEF Consistent
      <3>2. conf["client"]["wss-path"] = c("wss-path")
        BY <2>4, <3>1 DEF Slashed
      <3>3. PathFound
        BY <2>1, <2>4, <3>1, <3>2, Zenon DEF PathFound
      <3>4. ClientFraming = Framing(conf["client"]["mux"]) /\ Received
        BY <2>4, <2>5, <3>1, <3>3 DEF ClientFraming, Received
      <3>5. ServerFraming(link.offered) = Framing(conf["client"]["mux"])
        BY <2>4, <2>5, <3>1, <3>4 DEF ServerFraming
      <3> QED  BY <2>1, <3>4, <3>5 DEF Alike, Framing
    <2>6. CASE ~OverHTTP
      <3>1. ~c("wss") /\ c("mux") = s("mux")
        BY <2>6 DEF Consistent
      <3> QED  BY <2>1, <2>4, <2>6, <3>1 DEF Alike, Framing, ClientFraming, ServerFraming, Received
    <2> QED  BY <2>5, <2>6
  <1> QED  BY <1>1, ReadInvariant, PTL
=============================================================================
