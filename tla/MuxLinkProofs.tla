--------------------------- MODULE MuxLinkProofs ---------------------------
(***************************************************************************)
(* MuxLink keeps its types, never lets in more streams than the limit, and *)
(* refuses a stream only because it still counts one the client has        *)
(* closed: for every number of streams and all limits.                     *)
(*                                                                         *)
(* The argument: a stream travels from the wire to chAccepts, to the       *)
(* accept loop and to a handler, is in one of these places only, and is in *)
(* the session's map from its SYN until its Close.  So whatever the loop   *)
(* has let in is among what it counts, and whatever it counts the client   *)
(* has opened.                                                             *)
(***************************************************************************)
EXTENDS MuxLink, FiniteSetTheorems, SequenceTheorems, TLAPS

\* The client keeps to its limit.
BusyOK == Cardinality(Busy) <= ClientLimit

\* A stream the client has not opened is unknown to the server.
NewOK == \A i \in Streams : client[i] = "new" => i \notin streams /\ handler[i] = "none"

\* A SYN announces a stream the server has not seen, and no other SYN does.
WireOK ==
    \A m \in 1..Len(wire) :
        /\ client[wire[m].sid] # "new"
        /\ wire[m].cmd = "SYN" =>
              /\ wire[m].sid \notin streams /\ handler[wire[m].sid] = "none"
              /\ \A n \in 1..Len(wire) :
                    wire[n].cmd = "SYN" /\ wire[n].sid = wire[m].sid => m = n

\* What waits in chAccepts is in the map, once, and nobody has it yet.
QueueOK ==
    \A m \in 1..Len(chAccepts) :
        /\ chAccepts[m] \in streams /\ handler[chAccepts[m]] = "none"
        /\ chAccepts[m] # stream
        /\ \A n \in 1..Len(chAccepts) : chAccepts[n] = chAccepts[m] => m = n

\* So is the stream in the accept loop's hands, and a stream it has let in
\* stays in the map.
LoopOK == stream # NoStream => stream \in streams /\ handler[stream] = "none"

LetInOK == LetIn \subseteq streams

Inv ==
    /\ TypeOK /\ BusyOK /\ NewOK /\ WireOK /\ QueueOK /\ LoopOK /\ LetInOK
    /\ LetInLimit

-----------------------------------------------------------------------------
(* The invariant is inductive: one lemma per action, one step per part.    *)

USE DEF Goto, HandlerAt, Arrives, Syn, Fin, Streams, NoStream

\* Sets of streams can be counted.
LEMMA Counting ==
    ASSUME NEW S \in SUBSET Streams
    PROVE  /\ IsFiniteSet(S)
           /\ Cardinality(S) \in Nat
           /\ \A i \in Streams : Cardinality(S \cup {i}) <= Cardinality(S) + 1
           /\ \A T \in SUBSET S : Cardinality(T) <= Cardinality(S)
  <1>1. IsFiniteSet(Streams)
    BY LinkAssumption, FS_Interval
  <1>2. IsFiniteSet(S)
    BY <1>1, FS_Subset
  <1>3. Cardinality(S) \in Nat
    BY <1>2, FS_CardinalityType
  <1>4. \A i \in Streams : Cardinality(S \cup {i}) <= Cardinality(S) + 1
    BY <1>2, <1>3, FS_AddElement
  <1>5. \A T \in SUBSET S : Cardinality(T) <= Cardinality(S)
    BY <1>2, FS_Subset
  <1>. QED  BY <1>2, <1>3, <1>4, <1>5

LEMMA OpenKeeps ==
    ASSUME Inv, NEW i \in Streams, Open(i)
    PROVE  Inv'
  <1>. USE DEF Inv, Open
  <1>1. TypeOK'
    BY DEF TypeOK
  <1>2. BusyOK'
    <2>1. Busy' = Busy \cup {i}
      BY DEF TypeOK, Busy
    <2>2. Cardinality(Busy) < ClientLimit
      OBVIOUS
    <2>3. Busy \subseteq Streams /\ Busy' \subseteq Streams
      BY <2>1 DEF Busy
    <2>4. Cardinality(Busy') <= Cardinality(Busy) + 1
      BY <2>1, <2>3, Counting
    <2>5. Cardinality(Busy') \in Nat /\ Cardinality(Busy) \in Nat
      BY <2>3, Counting
    <2>. QED  BY <2>2, <2>4, <2>5, LinkAssumption DEF BusyOK
  <1>3. NewOK'
    BY DEF NewOK
  <1>4. WireOK'
    BY DEF TypeOK, NewOK, WireOK
  <1>5. QueueOK'
    BY DEF QueueOK
  <1>6. LoopOK'
    BY DEF LoopOK
  <1>7. LetInOK'
    BY DEF LetInOK, LetIn
  <1>8. LetInLimit'
    BY DEF LetInLimit, LetIn
  <1>. QED
    BY <1>1, <1>2, <1>3, <1>4, <1>5, <1>6, <1>7, <1>8

LEMMA SendFinKeeps ==
    ASSUME Inv, NEW i \in Streams, SendFin(i)
    PROVE  Inv'
  <1>. USE DEF Inv, SendFin
  <1>1. TypeOK'
    <2>1. wire' \in Seq([cmd : {"SYN", "FIN"}, sid : Streams])
      <3>1. [cmd |-> "FIN", sid |-> i] \in [cmd : {"SYN", "FIN"}, sid : Streams]
        OBVIOUS
      <3>. DEFINE F == [cmd |-> "FIN", sid |-> i]
      <3>2. wire' = Append(wire, F) \/ wire' = wire
        OBVIOUS
      <3>3. wire \in Seq([cmd : {"SYN", "FIN"}, sid : Streams])
        BY DEF TypeOK
      <3>. QED  BY <3>1, <3>2, <3>3, AppendProperties
    <2>2. client' \in [Streams -> {"new", "open", "fin", "closed"}]
      BY DEF TypeOK
    <2>. QED  BY <2>1, <2>2 DEF TypeOK
  <1>2. BusyOK'
    BY DEF TypeOK, BusyOK, Busy
  <1>3. NewOK'
    BY DEF NewOK
  <1>4. WireOK'
    BY DEF WireOK
  <1>5. QueueOK'
    BY DEF QueueOK
  <1>6. LoopOK'
    BY DEF LoopOK
  <1>7. LetInOK'
    BY DEF LetInOK, LetIn
  <1>8. LetInLimit'
    BY DEF LetInLimit, LetIn
  <1>. QED
    BY <1>1, <1>2, <1>3, <1>4, <1>5, <1>6, <1>7, <1>8

LEMMA RemoveKeeps ==
    ASSUME Inv, NEW i \in Streams, Remove(i)
    PROVE  Inv'
  <1>. USE DEF Inv, Remove
  <1>1. TypeOK'
    BY DEF TypeOK
  <1>2. BusyOK'
    <2>1. Busy' \subseteq Busy
      BY DEF Busy
    <2>2. Busy \subseteq Streams
      BY DEF Busy
    <2>3. Cardinality(Busy') <= Cardinality(Busy) /\ Cardinality(Busy) \in Nat
      BY <2>1, <2>2, Counting
    <2>4. Cardinality(Busy') \in Nat
      BY <2>1, <2>2, Counting
    <2>. QED  BY <2>3, <2>4, LinkAssumption DEF BusyOK
  <1>3. NewOK'
    BY DEF NewOK
  <1>4. WireOK'
    BY DEF WireOK
  <1>5. QueueOK'
    BY DEF QueueOK
  <1>6. LoopOK'
    BY DEF LoopOK
  <1>7. LetInOK'
    BY DEF LetInOK, LetIn
  <1>8. LetInLimit'
    BY DEF LetInLimit, LetIn
  <1>. QED
    BY <1>1, <1>2, <1>3, <1>4, <1>5, <1>6, <1>7, <1>8

LEMMA LinkEndsKeeps ==
    ASSUME Inv, LinkEnds
    PROVE  Inv'
  <1>. USE DEF Inv, LinkEnds
  <1>1. TypeOK'
    BY DEF TypeOK
  <1>2. BusyOK'
    BY DEF BusyOK, Busy
  <1>3. NewOK'
    BY DEF NewOK
  <1>4. WireOK'
    BY DEF WireOK
  <1>5. QueueOK'
    BY DEF QueueOK
  <1>6. LoopOK'
    BY DEF LoopOK
  <1>7. LetInOK'
    BY DEF LetInOK, LetIn
  <1>8. LetInLimit'
    BY DEF LetInLimit, LetIn
  <1>. QED
    BY <1>1, <1>2, <1>3, <1>4, <1>5, <1>6, <1>7, <1>8

LEMMA ReadErrorKeeps ==
    ASSUME Inv, ReadError
    PROVE  Inv'
  <1>. USE DEF Inv, ReadError
  <1>1. TypeOK'
    BY DEF TypeOK
  <1>2. BusyOK'
    BY DEF BusyOK, Busy
  <1>3. NewOK'
    BY DEF NewOK
  <1>4. WireOK'
    BY DEF WireOK
  <1>5. QueueOK'
    BY DEF QueueOK
  <1>6. LoopOK'
    BY DEF LoopOK
  <1>7. LetInOK'
    BY DEF LetInOK, LetIn
  <1>8. LetInLimit'
    BY DEF LetInLimit, LetIn
  <1>. QED
    BY <1>1, <1>2, <1>3, <1>4, <1>5, <1>6, <1>7, <1>8

LEMMA KeepaliveCloseKeeps ==
    ASSUME Inv, KeepaliveClose
    PROVE  Inv'
  <1>. USE DEF Inv, KeepaliveClose
  <1>1. TypeOK'
    BY DEF TypeOK
  <1>2. BusyOK'
    BY DEF BusyOK, Busy
  <1>3. NewOK'
    BY DEF NewOK
  <1>4. WireOK'
    BY DEF WireOK
  <1>5. QueueOK'
    BY DEF QueueOK
  <1>6. LoopOK'
    BY DEF LoopOK
  <1>7. LetInOK'
    BY DEF LetInOK, LetIn
  <1>8. LetInLimit'
    BY DEF LetInLimit
  <1>. QED
    BY <1>1, <1>2, <1>3, <1>4, <1>5, <1>6, <1>7, <1>8

LEMMA ReceiveSynKeeps ==
    ASSUME Inv, ReceiveSyn
    PROVE  Inv'
  <1>. USE DEF Inv, ReceiveSyn
  <1>1. TypeOK'
    <2>1. Head(wire) \in [cmd : {"SYN", "FIN"}, sid : Streams]
      BY HeadTailProperties DEF TypeOK
    <2>2. Head(wire).sid \in Streams
      BY <2>1
    <2>3. wire' \in Seq([cmd : {"SYN", "FIN"}, sid : Streams])
      BY DEF TypeOK
    <2>4. streams' \in SUBSET Streams
      BY <2>2 DEF TypeOK
    <2>5. chAccepts' \in Seq(Streams)
      BY <2>2 DEF TypeOK
    <2>. QED  BY <2>3, <2>4, <2>5 DEF TypeOK
  <1>2. BusyOK'
    BY DEF BusyOK, Busy
  <1>3. NewOK'
    BY DEF NewOK, WireOK
  <1>4. WireOK'
    <2>1. /\ 1 \in 1..Len(wire) /\ wire[1] = Head(wire)
          /\ \A m \in 1..Len(wire') :
                m + 1 \in 1..Len(wire) /\ m + 1 # 1 /\ wire'[m] = wire[m + 1]
      BY DEF TypeOK
    <2>2. \A m \in 1..Len(wire') :
             wire'[m].cmd = "SYN" => wire'[m].sid # Head(wire).sid
      BY <2>1 DEF WireOK
    <2>3. \A m, n \in 1..Len(wire') : m + 1 = n + 1 => m = n
      BY DEF TypeOK
    <2>. QED  BY <2>1, <2>2, <2>3 DEF WireOK
  <1>5. QueueOK'
    <2>a. Head(wire) \in [cmd : {"SYN", "FIN"}, sid : Streams]
      BY HeadTailProperties DEF TypeOK
    <2>1. 1 \in 1..Len(wire) /\ wire[1] = Head(wire) /\ Head(wire).sid \in Streams
      BY <2>a
    <2>2. /\ Head(wire).sid \notin streams
          /\ handler[Head(wire).sid] = "none"
      BY <2>1 DEF WireOK
    <2>3. Head(wire).sid # stream
      BY <2>1, <2>2 DEF LoopOK
    <2>4. /\ Len(chAccepts') = Len(chAccepts) + 1
          /\ chAccepts'[Len(chAccepts')] = Head(wire).sid
          /\ \A m \in 1..Len(chAccepts) : chAccepts'[m] = chAccepts[m]
          /\ \A m \in 1..Len(chAccepts') : m \in 1..Len(chAccepts) \/ m = Len(chAccepts')
      BY <2>1
    <2>. QED  BY <2>2, <2>3, <2>4 DEF QueueOK
  <1>6. LoopOK'
    BY DEF LoopOK
  <1>7. LetInOK'
    BY DEF LetInOK, LetIn
  <1>8. LetInLimit'
    BY DEF LetInLimit, LetIn
  <1>. QED
    BY <1>1, <1>2, <1>3, <1>4, <1>5, <1>6, <1>7, <1>8

LEMMA ReceiveFinKeeps ==
    ASSUME Inv, ReceiveFin
    PROVE  Inv'
  <1>. USE DEF Inv, ReceiveFin
  <1>1. TypeOK'
    BY DEF TypeOK
  <1>2. BusyOK'
    BY DEF BusyOK, Busy
  <1>3. NewOK'
    BY DEF NewOK
  <1>4. WireOK'
    BY DEF WireOK
  <1>5. QueueOK'
    BY DEF QueueOK
  <1>6. LoopOK'
    BY DEF LoopOK
  <1>7. LetInOK'
    BY DEF LetInOK, LetIn
  <1>8. LetInLimit'
    BY DEF LetInLimit, LetIn
  <1>. QED
    BY <1>1, <1>2, <1>3, <1>4, <1>5, <1>6, <1>7, <1>8

LEMMA TopKeeps ==
    ASSUME Inv, Top
    PROVE  Inv'
  <1>. USE DEF Inv, Top
  <1>1. TypeOK'
    BY DEF TypeOK
  <1>2. BusyOK'
    BY DEF BusyOK, Busy
  <1>3. NewOK'
    BY DEF NewOK
  <1>4. WireOK'
    BY DEF WireOK
  <1>5. QueueOK'
    BY DEF QueueOK
  <1>6. LoopOK'
    BY DEF LoopOK
  <1>7. LetInOK'
    BY DEF LetInOK, LetIn
  <1>8. LetInLimit'
    BY DEF LetInLimit, LetIn
  <1>. QED
    BY <1>1, <1>2, <1>3, <1>4, <1>5, <1>6, <1>7, <1>8

LEMMA AcceptStreamKeeps ==
    ASSUME Inv, AcceptStream
    PROVE  Inv'
  <1>. USE DEF Inv, AcceptStream
  <1>1. TypeOK'
    BY LinkAssumption DEF TypeOK
  <1>2. BusyOK'
    BY DEF BusyOK, Busy
  <1>3. NewOK'
    BY DEF NewOK
  <1>4. WireOK'
    BY DEF WireOK
  <1>5. QueueOK'
    BY DEF QueueOK
  <1>6. LoopOK'
    BY DEF QueueOK, LoopOK
  <1>7. LetInOK'
    BY DEF LetInOK, LetIn
  <1>8. LetInLimit'
    BY DEF LetInLimit, LetIn
  <1>. QED
    BY <1>1, <1>2, <1>3, <1>4, <1>5, <1>6, <1>7, <1>8

LEMMA AcceptFailsKeeps ==
    ASSUME Inv, AcceptFails
    PROVE  Inv'
  <1>. USE DEF Inv, AcceptFails
  <1>1. TypeOK'
    BY DEF TypeOK
  <1>2. BusyOK'
    BY DEF BusyOK, Busy
  <1>3. NewOK'
    BY DEF NewOK
  <1>4. WireOK'
    BY DEF WireOK
  <1>5. QueueOK'
    BY DEF QueueOK
  <1>6. LoopOK'
    BY DEF LoopOK
  <1>7. LetInOK'
    BY DEF LetInOK, LetIn
  <1>8. LetInLimit'
    BY DEF LetInLimit, LetIn
  <1>. QED
    BY <1>1, <1>2, <1>3, <1>4, <1>5, <1>6, <1>7, <1>8

LEMMA HandleKeeps ==
    ASSUME Inv, Handle
    PROVE  Inv'
  <1>. USE DEF Inv, Handle
  <1>1. TypeOK'
    BY DEF TypeOK
  <1>2. BusyOK'
    BY DEF BusyOK, Busy
  <1>3. NewOK'
    BY DEF NewOK, LoopOK
  <1>4. WireOK'
    BY DEF TypeOK, WireOK, LoopOK
  <1>5. QueueOK'
    BY DEF TypeOK, QueueOK
  <1>6. LoopOK'
    BY DEF LoopOK
  <1>7. LetInOK'
    BY DEF LetInOK, LetIn, LoopOK
  <1>8. LetInLimit'
    <2>. SUFFICES ASSUME ~dead
                  PROVE  Cardinality(LetIn') <= ServerLimit
      BY DEF LetInLimit
    <2>1. Cardinality(streams) <= ServerLimit
      BY DEF NumStreams
    <2>2. LetIn' \subseteq streams /\ streams \subseteq Streams
      BY <1>7 DEF LetInOK, TypeOK
    <2>3. /\ Cardinality(LetIn') <= Cardinality(streams)
          /\ Cardinality(LetIn') \in Nat /\ Cardinality(streams) \in Nat
      BY <2>2, Counting
    <2>. QED  BY <2>1, <2>3, LinkAssumption
  <1>. QED
    BY <1>1, <1>2, <1>3, <1>4, <1>5, <1>6, <1>7, <1>8

LEMMA TooManyKeeps ==
    ASSUME Inv, TooMany
    PROVE  Inv'
  <1>. USE DEF Inv, TooMany
  <1>1. TypeOK'
    BY DEF TypeOK
  <1>2. BusyOK'
    BY DEF BusyOK, Busy
  <1>3. NewOK'
    BY DEF NewOK
  <1>4. WireOK'
    BY DEF WireOK
  <1>5. QueueOK'
    BY DEF QueueOK
  <1>6. LoopOK'
    BY DEF LoopOK
  <1>7. LetInOK'
    BY DEF LetInOK, LetIn
  <1>8. LetInLimit'
    BY DEF LetInLimit, LetIn
  <1>. QED
    BY <1>1, <1>2, <1>3, <1>4, <1>5, <1>6, <1>7, <1>8

LEMMA RefuseKeeps ==
    ASSUME Inv, Refuse
    PROVE  Inv'
  <1>. USE DEF Inv, Refuse
  <1>1. TypeOK'
    BY DEF TypeOK
  <1>2. BusyOK'
    BY DEF BusyOK, Busy
  <1>3. NewOK'
    BY DEF NewOK, LoopOK
  <1>4. WireOK'
    BY DEF TypeOK, WireOK, LoopOK
  <1>5. QueueOK'
    BY DEF TypeOK, QueueOK
  <1>6. LoopOK'
    BY DEF LoopOK
  <1>7. LetInOK'
    BY DEF LetInOK, LetIn, LoopOK
  <1>8. LetInLimit'
    <2>1. LetIn' \subseteq LetIn /\ LetIn \subseteq Streams
      BY DEF LetIn
    <2>2. /\ Cardinality(LetIn') <= Cardinality(LetIn)
          /\ Cardinality(LetIn') \in Nat /\ Cardinality(LetIn) \in Nat
      BY <2>1, Counting
    <2>. QED  BY <2>2, LinkAssumption DEF LetInLimit
  <1>. QED
    BY <1>1, <1>2, <1>3, <1>4, <1>5, <1>6, <1>7, <1>8

LEMMA ReturnKeeps ==
    ASSUME Inv, Return
    PROVE  Inv'
  <1>. USE DEF Inv, Return
  <1>1. TypeOK'
    BY DEF TypeOK
  <1>2. BusyOK'
    BY DEF BusyOK, Busy
  <1>3. NewOK'
    BY DEF NewOK
  <1>4. WireOK'
    BY DEF WireOK
  <1>5. QueueOK'
    BY DEF QueueOK
  <1>6. LoopOK'
    BY DEF LoopOK
  <1>7. LetInOK'
    BY DEF LetInOK, LetIn
  <1>8. LetInLimit'
    BY DEF LetInLimit, LetIn
  <1>. QED
    BY <1>1, <1>2, <1>3, <1>4, <1>5, <1>6, <1>7, <1>8

LEMMA DialKeeps ==
    ASSUME Inv, NEW i \in Streams, Dial(i)
    PROVE  Inv'
  <1>. USE DEF Inv, Dial
  <1>1. TypeOK'
    BY DEF TypeOK
  <1>2. BusyOK'
    BY DEF BusyOK, Busy
  <1>3. NewOK'
    BY DEF NewOK
  <1>4. WireOK'
    BY DEF WireOK
  <1>5. QueueOK'
    BY DEF QueueOK
  <1>6. LoopOK'
    BY DEF LoopOK
  <1>7. LetInOK'
    BY DEF LetInOK, LetIn
  <1>8. LetInLimit'
    BY DEF LetInLimit, LetIn
  <1>. QED
    BY <1>1, <1>2, <1>3, <1>4, <1>5, <1>6, <1>7, <1>8

LEMMA DialFailsKeeps ==
    ASSUME Inv, NEW i \in Streams, DialFails(i)
    PROVE  Inv'
  <1>. USE DEF Inv, DialFails
  <1>1. TypeOK'
    BY DEF TypeOK
  <1>2. BusyOK'
    BY DEF BusyOK, Busy
  <1>3. NewOK'
    BY DEF NewOK
  <1>4. WireOK'
    BY DEF WireOK
  <1>5. QueueOK'
    BY DEF QueueOK
  <1>6. LoopOK'
    BY DEF LoopOK
  <1>7. LetInOK'
    BY DEF LetInOK, LetIn
  <1>8. LetInLimit'
    BY DEF LetInLimit, LetIn
  <1>. QED
    BY <1>1, <1>2, <1>3, <1>4, <1>5, <1>6, <1>7, <1>8

LEMMA TunnelEndsKeeps ==
    ASSUME Inv, NEW i \in Streams, TunnelEnds(i)
    PROVE  Inv'
  <1>. USE DEF Inv, TunnelEnds
  <1>1. TypeOK'
    BY DEF TypeOK
  <1>2. BusyOK'
    BY DEF BusyOK, Busy
  <1>3. NewOK'
    BY DEF NewOK
  <1>4. WireOK'
    BY DEF WireOK
  <1>5. QueueOK'
    BY DEF QueueOK
  <1>6. LoopOK'
    BY DEF LoopOK
  <1>7. LetInOK'
    BY DEF LetInOK, LetIn
  <1>8. LetInLimit'
    BY DEF LetInLimit, LetIn
  <1>. QED
    BY <1>1, <1>2, <1>3, <1>4, <1>5, <1>6, <1>7, <1>8

LEMMA StreamClosedKeeps ==
    ASSUME Inv, NEW i \in Streams, StreamClosed(i)
    PROVE  Inv'
  <1>. USE DEF Inv, StreamClosed
  <1>1. TypeOK'
    BY DEF TypeOK
  <1>2. BusyOK'
    BY DEF BusyOK, Busy
  <1>3. NewOK'
    BY DEF NewOK
  <1>4. WireOK'
    BY DEF WireOK
  <1>5. QueueOK'
    BY DEF QueueOK
  <1>6. LoopOK'
    BY DEF LoopOK
  <1>7. LetInOK'
    BY DEF TypeOK, LetInOK, LetIn
  <1>8. LetInLimit'
    <2>1. LetIn' \subseteq LetIn /\ LetIn \subseteq Streams
      BY DEF LetIn
    <2>2. /\ Cardinality(LetIn') <= Cardinality(LetIn)
          /\ Cardinality(LetIn') \in Nat /\ Cardinality(LetIn) \in Nat
      BY <2>1, Counting
    <2>. QED  BY <2>2, LinkAssumption DEF LetInLimit
  <1>. QED
    BY <1>1, <1>2, <1>3, <1>4, <1>5, <1>6, <1>7, <1>8

-----------------------------------------------------------------------------
(* The theorems.                                                           *)

LEMMA InitInv ==
    ASSUME Init
    PROVE  Inv
  <1>. USE DEF Init
  <1>1. TypeOK
    <2>1. <<>> \in Seq([cmd : {"SYN", "FIN"}, sid : Streams]) /\ <<>> \in Seq(Streams)
      BY EmptySeq
    <2>. QED  BY <2>1 DEF TypeOK
  <1>2. Busy = {} /\ LetIn = {}
    BY DEF Busy, LetIn
  <1>3. Cardinality({}) = 0
    BY FS_EmptySet
  <1>4. BusyOK /\ LetInLimit
    BY <1>2, <1>3, LinkAssumption DEF BusyOK, LetInLimit
  <1>5. NewOK /\ LoopOK /\ LetInOK
    BY <1>2 DEF NewOK, LoopOK, LetInOK
  <1>6. WireOK /\ QueueOK
    BY DEF WireOK, QueueOK
  <1>. QED  BY <1>1, <1>4, <1>5, <1>6 DEF Inv

LEMMA NextInv ==
    ASSUME Inv, [Next]_vars
    PROVE  Inv'
  <1>1. ASSUME NEW i \in Streams, ClientStep(i)
        PROVE  Inv'
    BY <1>1, OpenKeeps, SendFinKeeps, RemoveKeeps DEF ClientStep
  <1>2. ASSUME NEW i \in Streams, HandlerStep(i)
        PROVE  Inv'
    BY <1>2, DialKeeps, DialFailsKeeps, TunnelEndsKeeps, StreamClosedKeeps DEF HandlerStep
  <1>3. ASSUME LinkEnds \/ ReadError \/ KeepaliveClose \/ RecvLoop
        PROVE  Inv'
    BY <1>3, LinkEndsKeeps, ReadErrorKeeps, KeepaliveCloseKeeps, ReceiveSynKeeps,
       ReceiveFinKeeps DEF RecvLoop
  <1>4. ASSUME AcceptLoop
        PROVE  Inv'
    BY <1>4, TopKeeps, AcceptStreamKeeps, AcceptFailsKeeps, HandleKeeps, TooManyKeeps,
       RefuseKeeps, ReturnKeeps DEF AcceptLoop
  <1>5. ASSUME UNCHANGED vars
        PROVE  Inv'
    BY <1>5 DEF vars, Inv, TypeOK, BusyOK, Busy, NewOK, WireOK, QueueOK, LoopOK, LetInOK,
                LetIn, LetInLimit
  <1>. QED
    BY <1>1, <1>2, <1>3, <1>4, <1>5 DEF Next, Stop

\* Inv holds in every reachable state.
THEOREM Invariance == Spec => []Inv
  BY InitInv, NextInv, PTL DEF Spec

\* Every reachable state is well typed, and the accept loop holds a stream
\* exactly when it decides about one.
THEOREM TypeCorrect == Spec => []TypeOK
  <1>1. Inv => TypeOK
    BY DEF Inv
  <1>. QED  BY <1>1, Invariance, PTL

\* What handleClientMuxConn has let in and not closed never exceeds
\* defaultSmuxMaxStream while the session lives.
THEOREM LimitIsRespected == Spec => []LetInLimit
  <1>1. Inv => LetInLimit
    BY DEF Inv
  <1>. QED  BY <1>1, Invariance, PTL

\* A session that counts more streams than any client may have open counts one
\* that its client has closed.
LEMMA LateCount ==
    ASSUME Inv, Cardinality(streams) > ServerLimit
    PROVE  \E i \in streams : client[i] = "closed"
  <1>. SUFFICES ASSUME \A i \in streams : client[i] # "closed"
                PROVE  FALSE
    OBVIOUS
  <1>1. streams \subseteq Busy /\ Busy \subseteq Streams
    BY DEF Inv, TypeOK, NewOK, Busy
  <1>2. /\ Cardinality(streams) <= Cardinality(Busy)
        /\ Cardinality(streams) \in Nat /\ Cardinality(Busy) \in Nat
    BY <1>1, Counting
  <1>. QED  BY <1>2, LinkAssumption DEF Inv, BusyOK

\* handleClientMuxConn refuses a stream of a client that keeps to its limit
\* only while it still counts one that the client has closed.
THEOREM RefusalsAreLate == Spec => RefusedMeansLate
  <1>1. ASSUME Inv, [Next]_vars
        PROVE  [loop' = "refuse" /\ loop # "refuse" =>
                  \E i \in streams : client[i] = "closed"]_vars
    <2>. SUFFICES ASSUME Next, loop' = "refuse", loop # "refuse"
                  PROVE  \E i \in streams : client[i] = "closed"
      BY <1>1
    <2>1. TooMany
      BY DEF Next, ClientStep, HandlerStep, RecvLoop, AcceptLoop, Stop, vars, Open, SendFin,
             Remove, LinkEnds, ReadError, KeepaliveClose, ReceiveSyn, ReceiveFin, Top,
             AcceptStream, AcceptFails, Handle, Refuse, Return, Dial, DialFails, TunnelEnds,
             StreamClosed
    <2>2. Cardinality(streams) > ServerLimit
      BY <2>1, LinkAssumption DEF TooMany, NumStreams
    <2>. QED  BY <1>1, <2>2, LateCount
  <1>. QED  BY <1>1, Invariance, PTL DEF Spec, RefusedMeansLate

-----------------------------------------------------------------------------
(* No stream is forgotten on its way to a handler.                         *)

\* Where a stream is until somebody answers it: its SYN on the wire, the
\* stream in chAccepts, or in the accept loop's hands.
Announced(i) == \E m \in 1..Len(wire) : wire[m] = Syn(i)
Queued(i) == \E m \in 1..Len(chAccepts) : chAccepts[m] = i
Kept(i) == Announced(i) \/ Queued(i) \/ stream = i

\* A stream the client has opened, over a connection that has not been seen
\* to break, is answered or on its way to an answer; and over TCP or TLS the
\* accept loop that is to give the answer is still there.
NobodyForgotten ==
    \A i \in Streams :
        client[i] # "new" /\ handler[i] = "none" /\ link # "broken" =>
            Kept(i) /\ (Wrapped \/ loop # "out")

KeptOK ==
    link # "broken" =>
        \A i \in Streams : client[i] # "new" /\ handler[i] = "none" => Kept(i)

LeftOK == loop = "out" /\ ~Wrapped => link = "broken"

\* A frame appended to the wire keeps the others, and is there.
LEMMA AppendKeeps ==
    ASSUME TypeOK, NEW f \in [cmd : {"SYN", "FIN"}, sid : Streams], wire' = Append(wire, f)
    PROVE  /\ \A i \in Streams : Announced(i) => Announced(i)'
           /\ \A i \in Streams : f = Syn(i) => Announced(i)'
  <1>1. /\ Len(wire') = Len(wire) + 1 /\ Len(wire) \in Nat
        /\ wire'[Len(wire) + 1] = f
        /\ \A m \in 1..Len(wire) : wire'[m] = wire[m]
    BY DEF TypeOK
  <1>. QED  BY <1>1 DEF Announced

\* Taking the first element of a sequence moves it, and leaves the others.
LEMMA TailKeeps ==
    ASSUME NEW S, NEW s \in Seq(S), s # <<>>, NEW m \in 1..Len(s), s[m] # Head(s)
    PROVE  \E n \in 1..Len(Tail(s)) : Tail(s)[n] = s[m]
  <1>1. m # 1 /\ m - 1 \in 1..Len(Tail(s)) /\ Tail(s)[m - 1] = s[m]
    OBVIOUS
  <1>. QED  BY <1>1

LEMMA ArriveKeeps ==
    ASSUME TypeOK, NEW cmd \in {"SYN", "FIN"}, Arrives(cmd), NEW i \in Streams, Announced(i)
    PROVE  Announced(i)' \/ (cmd = "SYN" /\ Head(wire) = Syn(i))
  <1>1. PICK m \in 1..Len(wire) : wire[m] = Syn(i)
    BY DEF Announced
  <1>2. CASE wire[m] = Head(wire)
    BY <1>1, <1>2
  <1>3. CASE wire[m] # Head(wire)
    <2>1. wire \in Seq([cmd : {"SYN", "FIN"}, sid : Streams]) /\ wire # <<>>
      BY DEF TypeOK
    <2>2. PICK n \in 1..Len(Tail(wire)) : Tail(wire)[n] = wire[m]
      BY <1>3, <2>1, TailKeeps
    <2>. QED  BY <1>1, <2>2 DEF Announced
  <1>. QED  BY <1>2, <1>3

LEMMA ReceiveKept ==
    ASSUME TypeOK, KeptOK, RecvLoop
    PROVE  KeptOK'
  <1>. SUFFICES ASSUME NEW i \in Streams, Kept(i)
                PROVE  Kept(i)'
    BY DEF KeptOK, RecvLoop, ReceiveSyn, ReceiveFin
  <1>1. CASE stream = i
    BY <1>1 DEF Kept, RecvLoop, ReceiveSyn, ReceiveFin
  <1>2. CASE ReceiveFin
    <2>1. Announced(i) => Announced(i)'
      BY <1>2, ArriveKeeps DEF ReceiveFin
    <2>2. Queued(i) => Queued(i)'
      BY <1>2 DEF ReceiveFin, Queued
    <2>. QED  BY <1>1, <2>1, <2>2 DEF Kept
  <1>3. CASE ReceiveSyn
    <2>1. Head(wire).sid \in Streams
      <3>1. Head(wire) \in [cmd : {"SYN", "FIN"}, sid : Streams]
        BY <1>3, HeadTailProperties DEF TypeOK, ReceiveSyn
      <3>. QED  BY <3>1
    <2>2. /\ Len(chAccepts') = Len(chAccepts) + 1 /\ Len(chAccepts) \in Nat
          /\ chAccepts'[Len(chAccepts) + 1] = Head(wire).sid
          /\ \A m \in 1..Len(chAccepts) : chAccepts'[m] = chAccepts[m]
      BY <1>3, <2>1 DEF TypeOK, ReceiveSyn
    <2>3. Queued(i) => Queued(i)'
      BY <2>2 DEF Queued
    <2>4. Head(wire) = Syn(i) => Queued(i)'
      BY <2>2 DEF Queued
    <2>5. Announced(i) => Announced(i)' \/ Queued(i)'
      BY <1>3, <2>4, ArriveKeeps DEF ReceiveSyn
    <2>. QED  BY <1>1, <2>3, <2>5 DEF Kept
  <1>. QED  BY <1>2, <1>3 DEF RecvLoop

LEMMA AcceptKept ==
    ASSUME TypeOK, KeptOK, AcceptStream
    PROVE  KeptOK'
  <1>. SUFFICES ASSUME NEW i \in Streams, Kept(i)
                PROVE  Kept(i)'
    BY DEF KeptOK, AcceptStream
  <1>1. Announced(i) => Announced(i)'
    BY DEF Announced, AcceptStream
  <1>2. Queued(i) => Queued(i)' \/ stream' = i
    <2>1. /\ chAccepts # <<>> /\ stream' = Head(chAccepts) /\ chAccepts' = Tail(chAccepts)
          /\ chAccepts \in Seq(Streams)
      BY DEF TypeOK, AcceptStream
    <2>2. ASSUME NEW m \in 1..Len(chAccepts), chAccepts[m] = i, Head(chAccepts) # i
          PROVE  \E k \in 1..Len(Tail(chAccepts)) : Tail(chAccepts)[k] = i
      BY <2>1, <2>2, TailKeeps
    <2>. QED  BY <2>1, <2>2 DEF Queued
  <1>3. stream # i
    BY DEF TypeOK, AcceptStream
  <1>. QED  BY <1>1, <1>2, <1>3 DEF Kept

LEMMA KeptKeeps == TypeOK /\ KeptOK /\ [Next]_vars => KeptOK'
  <1>. SUFFICES ASSUME TypeOK, KeptOK, [Next]_vars
                PROVE  KeptOK'
    OBVIOUS
  <1>1. ASSUME NEW j \in Streams, Open(j)
        PROVE  KeptOK'
    <2>1. \A i \in Streams : Announced(i) => Announced(i)'
      BY <1>1, AppendKeeps DEF Open
    <2>2. Announced(j)'
      BY <1>1, AppendKeeps DEF Open
    <2>3. \A i \in Streams : i # j => client'[i] = client[i]
      BY <1>1 DEF TypeOK, Open
    <2>. QED  BY <1>1, <2>1, <2>2, <2>3 DEF Open, KeptOK, Kept, Queued
  <1>2. ASSUME NEW j \in Streams, SendFin(j)
        PROVE  KeptOK'
    <2>1. \A i \in Streams : Announced(i) => Announced(i)'
      <3>1. CASE wire' = wire
        BY <3>1 DEF Announced
      <3>2. CASE wire' = Append(wire, Fin(j))
        BY <3>2, AppendKeeps
      <3>. QED  BY <1>2, <3>1, <3>2 DEF SendFin
    <2>2. \A i \in Streams : client'[i] # "new" => client[i] # "new"
      BY <1>2 DEF TypeOK, SendFin
    <2>3. \A i \in Streams : Queued(i)' = Queued(i)
      BY <1>2 DEF SendFin, Queued
    <2>4. \A i \in Streams : Kept(i) => Kept(i)'
      BY <1>2, <2>1, <2>3 DEF SendFin, Kept
    <2>. QED  BY <1>2, <2>2, <2>4 DEF SendFin, KeptOK
  <1>3. ASSUME NEW j \in Streams, Remove(j) \/ HandlerStep(j)
        PROVE  KeptOK'
    <2>1. /\ UNCHANGED <<wire, link, chAccepts, stream>>
          /\ \A i \in Streams : client'[i] # "new" => client[i] # "new"
          /\ \A i \in Streams : handler'[i] = "none" => handler[i] = "none"
      BY <1>3 DEF TypeOK, Remove, HandlerStep, Dial, DialFails, TunnelEnds, StreamClosed
    <2>. QED  BY <2>1 DEF KeptOK, Kept, Announced, Queued
  <1>4. CASE LinkEnds \/ ReadError \/ KeepaliveClose
    BY <1>4 DEF KeptOK, Kept, Announced, Queued, LinkEnds, ReadError, KeepaliveClose
  <1>5. CASE Top \/ AcceptFails \/ TooMany \/ Return
    BY <1>5 DEF KeptOK, Kept, Announced, Queued, Top, AcceptFails, TooMany, Return
  <1>6. CASE Handle \/ Refuse
    BY <1>6 DEF TypeOK, KeptOK, Kept, Announced, Queued, Handle, Refuse
  <1>7. CASE UNCHANGED vars
    BY <1>7 DEF vars, KeptOK, Kept, Announced, Queued
  <1>. QED
    BY <1>1, <1>2, <1>3, <1>4, <1>5, <1>6, <1>7, ReceiveKept, AcceptKept
    DEF Next, ClientStep, AcceptLoop, Stop

LEMMA LeftKeeps == LeftOK /\ [Next]_vars => LeftOK'
  BY DEF LeftOK, Next, ClientStep, HandlerStep, RecvLoop, AcceptLoop, Stop, vars, Open, SendFin,
         Remove, LinkEnds, ReadError, KeepaliveClose, ReceiveSyn, ReceiveFin, Top,
         AcceptStream, AcceptFails, Handle, TooMany, Refuse, Return, Dial, DialFails,
         TunnelEnds, StreamClosed

\* The safety half of EveryStreamAnswered: neither the order in which frames
\* arrive nor a refusal, an error or a Return at any moment loses a stream.
THEOREM NoStreamIsForgotten == Spec => []NobodyForgotten
  <1>1. Init => KeptOK /\ LeftOK
    BY DEF Init, KeptOK, LeftOK
  <1>2. KeptOK /\ LeftOK => NobodyForgotten
    BY DEF KeptOK, LeftOK, NobodyForgotten
  <1>. QED  BY <1>1, <1>2, KeptKeeps, LeftKeeps, TypeCorrect, PTL DEF Spec
-----------------------------------------------------------------------------
(* What the accept loop's count is a count of.                             *)

\* What NumStreams counts in a session that lives: the streams nobody has
\* accepted yet, the one in the loop's hands, and those let in and not closed,
\* which a handler that could not dial never does.
CountIsExact ==
    \A i \in Streams : i \in streams <=> Queued(i) \/ stream = i \/ i \in LetIn

\* A stream in the map is somewhere.
MapOK == \A i \in streams : Queued(i) \/ stream = i \/ i \in LetIn

LEMMA ReceiveSynMap ==
    ASSUME TypeOK, MapOK, ReceiveSyn
    PROVE  MapOK'
  <1>1. Head(wire).sid \in Streams
    <2>1. Head(wire) \in [cmd : {"SYN", "FIN"}, sid : Streams]
      BY HeadTailProperties DEF TypeOK, ReceiveSyn
    <2>. QED  BY <2>1
  <1>2. /\ Len(chAccepts') = Len(chAccepts) + 1 /\ Len(chAccepts) \in Nat
        /\ chAccepts'[Len(chAccepts) + 1] = Head(wire).sid
        /\ \A m \in 1..Len(chAccepts) : chAccepts'[m] = chAccepts[m]
    BY <1>1 DEF TypeOK, ReceiveSyn
  <1>3. \A i \in streams : Queued(i) => Queued(i)'
    BY <1>2 DEF Queued
  <1>4. \A i \in {Head(wire).sid} : Queued(i)'
    <2>1. Len(chAccepts) + 1 \in 1..Len(chAccepts')
      BY <1>2
    <2>. QED  BY <1>2, <2>1 DEF Queued
  <1>5. LetIn' = LetIn /\ stream' = stream /\ streams' = streams \cup {Head(wire).sid}
    BY DEF ReceiveSyn, LetIn
  <1>. QED  BY <1>3, <1>4, <1>5 DEF MapOK

LEMMA AcceptStreamMap ==
    ASSUME TypeOK, MapOK, AcceptStream
    PROVE  MapOK'
  <1>. SUFFICES ASSUME NEW i \in streams
                PROVE  Queued(i)' \/ stream' = i \/ i \in LetIn'
    BY DEF MapOK, AcceptStream
  <1>1. /\ chAccepts # <<>> /\ stream' = Head(chAccepts) /\ chAccepts' = Tail(chAccepts)
        /\ chAccepts \in Seq(Streams) /\ stream = NoStream /\ LetIn' = LetIn
    BY DEF TypeOK, AcceptStream, LetIn
  <1>2. ASSUME NEW m \in 1..Len(chAccepts), chAccepts[m] = i, Head(chAccepts) # i
        PROVE  \E k \in 1..Len(Tail(chAccepts)) : Tail(chAccepts)[k] = i
    BY <1>1, <1>2, TailKeeps
  <1>3. i \in Streams /\ i # NoStream
    BY LinkAssumption DEF TypeOK
  <1>. QED  BY <1>1, <1>2, <1>3 DEF MapOK, Queued

LEMMA MapKeeps == TypeOK /\ MapOK /\ [Next]_vars => MapOK'
  <1>. SUFFICES ASSUME TypeOK, MapOK, [Next]_vars
                PROVE  MapOK'
    OBVIOUS
  <1>1. CASE Handle \/ Refuse
    <2>1. UNCHANGED chAccepts /\ stream \in Streams
      BY <1>1 DEF TypeOK, Handle, Refuse
    <2>2. CASE Handle
      <3>1. streams' = streams /\ LetIn' = LetIn \cup {stream}
        BY <2>1, <2>2 DEF TypeOK, Handle, LetIn
      <3>. QED  BY <2>1, <3>1 DEF MapOK, Queued
    <2>3. CASE Refuse
      <3>1. streams' = streams \ {stream} /\ LetIn \ {stream} \subseteq LetIn'
        BY <2>1, <2>3 DEF TypeOK, Refuse, LetIn
      <3>. QED  BY <2>1, <3>1 DEF MapOK, Queued
    <2>. QED  BY <1>1, <2>2, <2>3
  <1>2. ASSUME NEW j \in Streams, HandlerStep(j)
        PROVE  MapOK'
    <2>1. UNCHANGED <<chAccepts, stream>>
      BY <1>2 DEF HandlerStep, Dial, DialFails, TunnelEnds, StreamClosed
    <2>2. CASE StreamClosed(j)
      <3>1. streams' = streams \ {j} /\ LetIn \ {j} \subseteq LetIn'
        BY <2>2 DEF TypeOK, StreamClosed, LetIn
      <3>. QED  BY <2>1, <3>1 DEF MapOK, Queued
    <2>3. CASE ~StreamClosed(j)
      <3>1. streams' = streams /\ LetIn \subseteq LetIn'
        BY <1>2, <2>3 DEF TypeOK, HandlerStep, Dial, DialFails, TunnelEnds, LetIn
      <3>. QED  BY <2>1, <3>1 DEF MapOK, Queued
    <2>. QED  BY <2>2, <2>3
  <1>3. CASE UNCHANGED <<streams, chAccepts, stream, handler>>
    BY <1>3 DEF MapOK, Queued, LetIn
  <1>4. CASE \/ LinkEnds \/ ReadError \/ KeepaliveClose \/ ReceiveFin \/ Top \/ AcceptFails
             \/ TooMany \/ Return \/ UNCHANGED vars
             \/ \E i \in Streams : ClientStep(i)
    BY <1>3, <1>4 DEF vars, LinkEnds, ReadError, KeepaliveClose, ReceiveFin, Top, AcceptFails,
       TooMany, Return, ClientStep, Open, SendFin, Remove
  <1>. QED
    BY <1>1, <1>2, <1>4, ReceiveSynMap, AcceptStreamMap DEF Next, RecvLoop, AcceptLoop, Stop

\* The number handleClientMuxConn compares with defaultSmuxMaxStream is the
\* number of streams that wait for it, plus its own, plus those in its handlers'
\* hands: none is counted that is not one of these, and none of these is missed.
THEOREM TheCountIsExact == Spec => []CountIsExact
  <1>1. Init => MapOK
    BY DEF Init, MapOK
  <1>2. ASSUME Inv, MapOK, NEW i \in Streams
        PROVE  i \in streams <=> Queued(i) \/ stream = i \/ i \in LetIn
    <2>1. Queued(i) => i \in streams
      BY <1>2 DEF Inv, QueueOK, Queued
    <2>2. stream = i => i \in streams
      BY <1>2, LinkAssumption DEF Inv, LoopOK
    <2>3. i \in LetIn => i \in streams
      BY <1>2 DEF Inv, LetInOK
    <2>. QED  BY <1>2, <2>1, <2>2, <2>3 DEF MapOK
  <1>3. Inv /\ MapOK => CountIsExact
    BY <1>2 DEF CountIsExact
  <1>. QED  BY <1>1, <1>3, MapKeeps, TypeCorrect, Invariance, PTL DEF Spec

-----------------------------------------------------------------------------
(* A stream is answered once.                                              *)

\* Where handleClientConn may go from where it is: a stream that has a handler
\* gets no second one and is not refused, and one that was refused or closed
\* stays so.
Onward(from, to) ==
    \/ to = from
    \/ from = "none" /\ to \in {"dial", "refused"}
    \/ from = "dial" /\ to \in {"tunnel", "left"}
    \/ from = "tunnel" /\ to = "closing"
    \/ from = "closing" /\ to = "done"

AnsweredOnce == \A i \in Streams : Onward(handler[i], handler'[i])

\* AcceptStream gives a stream out once, whatever frames, errors and returns
\* come between: no stream has two handlers, and none is refused under one.
THEOREM EveryAnswerIsFinal == Spec => [][AnsweredOnce]_vars
  <1>1. ASSUME Inv, Next
        PROVE  AnsweredOnce
    <2>1. CASE Handle \/ Refuse
      <3>1. stream \in Streams /\ handler[stream] = "none"
        BY <1>1, <2>1 DEF Inv, TypeOK, LoopOK, Handle, Refuse
      <3>2. \A i \in Streams : handler'[i] = handler[i] \/ i = stream
        BY <1>1, <2>1, <3>1 DEF Inv, TypeOK, Handle, Refuse
      <3>3. handler'[stream] \in {"dial", "refused"}
        BY <1>1, <2>1, <3>1 DEF Inv, TypeOK, Handle, Refuse
      <3>. QED  BY <3>1, <3>2, <3>3 DEF AnsweredOnce, Onward
    <2>2. ASSUME NEW j \in Streams, HandlerStep(j)
          PROVE  AnsweredOnce
      <3>1. \A i \in Streams : handler'[i] = handler[i] \/ i = j
        BY <1>1, <2>2 DEF Inv, TypeOK, HandlerStep, Dial, DialFails, TunnelEnds, StreamClosed
      <3>2. Onward(handler[j], handler'[j])
        BY <1>1, <2>2 DEF Inv, TypeOK, HandlerStep, Dial, DialFails, TunnelEnds, StreamClosed,
           Onward
      <3>. QED  BY <3>1, <3>2 DEF AnsweredOnce, Onward
    <2>3. CASE UNCHANGED handler
      BY <2>3 DEF AnsweredOnce, Onward
    <2>4. CASE \/ LinkEnds \/ ReadError \/ KeepaliveClose \/ RecvLoop \/ Top \/ AcceptStream
               \/ AcceptFails \/ TooMany \/ Return \/ Stop
               \/ \E i \in Streams : ClientStep(i)
      BY <2>3, <2>4 DEF vars, LinkEnds, ReadError, KeepaliveClose, RecvLoop, ReceiveSyn,
         ReceiveFin, Top, AcceptStream, AcceptFails, TooMany, Return, Stop, ClientStep, Open,
         SendFin, Remove
    <2>. QED  BY <1>1, <2>1, <2>2, <2>4 DEF Next, AcceptLoop
  <1>. QED  BY <1>1, Invariance, PTL DEF Spec
=============================================================================
