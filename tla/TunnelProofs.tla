---------------------------- MODULE TunnelProofs ----------------------------
(***************************************************************************)
(* What module Tunnel promises, for every pair of connections, Timeout and *)
(* number of chunks.  The properties speak of the one direction that was   *)
(* reported; the inductive invariant says why nobody could have disturbed  *)
(* it: until a first report nothing is torn down, so a direction runs on   *)
(* deadlines that only it has armed, with the full Timeout.                *)
(***************************************************************************)
EXTENDS Tunnel, TLAPS

Reading(d) == pc[d] \in {"loadR", "armR", "read"}
Writing(d) == pc[d] \in {"loadW", "armW", "startW", "write"}
Past(d) == pc[d] \in Labels \ {"loadR", "armR", "read", "loadW", "armW",
                               "startW", "write", "report"}

\* A direction holds at most the chunk it is writing, and an end of file it
\* remembers is one its peer really sent, after the last chunk.
LoopOK ==
    \A d \in Conns :
        /\ got[d] <= sent[d]
        /\ Reading(d) => put[d] = got[d] /\ failure[d] = "none"
        /\ Writing(d) => /\ put[d] + 1 = got[d]
                         /\ \/ failure[d] = "none"
                            \/ failure[d] = "eof" /\ ended[d] = "eof" /\ got[d] = sent[d]
        /\ pc[d] = "report" => failure[d] # "none"

\* Before the first report nothing has been torn down.
QuietOK ==
    fe = "unset" =>
        /\ muTimeout = Timeout
        /\ \A d \in Conns :
              /\ open[d]
              /\ ~Past(d)
              /\ pc[d] \in {"armR", "armW"} => loaded[d] = Timeout

\* Before the first report a deadline that runs out was armed by the direction
\* that waits for it, after that direction had last moved a chunk.
TimedOK ==
    fe = "unset" =>
        \A d \in Conns :
            /\ pc[d] = "read" => rleft[d] + idle[d] >= Timeout
            /\ pc[d] = "startW" => wleft[Other(d)] + idle[d] >= Timeout
            /\ pc[d] = "write" => WriteLeft(d) + idle[d] >= Timeout

\* What is about to be reported first is the truth about that direction.
ReportOK ==
    fe = "unset" =>
        \A d \in Conns : pc[d] = "report" =>
            /\ failure[d] # "closed"
            /\ failure[d] = "timeout" => idle[d] = Timeout
            /\ failure[d] = "eof" =>
                  /\ ended[d] # "no"
                  /\ d \notin SmuxConns => ended[d] = "eof" /\ put[d] = sent[d]

\* What was reported first stays the truth.
WinnerOK ==
    fe # "unset" =>
        /\ winner \in Conns
        /\ Past(winner)
        /\ fe # "closed"
        /\ fe = "timeout" => idle[winner] = Timeout
        /\ fe = "nil" /\ winner \notin SmuxConns =>
              ended[winner] = "eof" /\ put[winner] = sent[winner]

\* A direction that is done has closed both connections.
ClosedOK ==
    \A d \in Conns :
        /\ pc[d] \in {"finSrc", "closeDst", "finDst", "done"} => ~open[d]
        /\ pc[d] \in {"finDst", "done"} => ~open[Other(d)]

Inv ==
    /\ TypeOK /\ LoopOK /\ QuietOK /\ TimedOK
    /\ ReportOK /\ WinnerOK /\ ClosedOK

-----------------------------------------------------------------------------
(* The invariant is inductive: one lemma per action, one step per part.    *)

USE DEF At, Goto, peers, conns, progress, shared

\* There are two directions, and each is the other's other.
LEMMA OtherFacts ==
    \A c \in Conns : /\ Other(c) \in Conns
                     /\ Other(c) # c
                     /\ Other(Other(c)) = c
                     /\ \A x \in Conns : x = c \/ x = Other(c)
  BY TunnelAssumption DEF Conns, Other

\* The peers and the clock.
LEMMA SendKeeps ==
    ASSUME Inv, NEW d \in Conns, Send(d)
    PROVE  Inv'
  <1>. USE TunnelAssumption, OtherFacts DEF Inv, Send
  <1>1. TypeOK'  BY DEF TypeOK, Labels, Errors, NoDeadline
  <1>2. LoopOK'  BY DEF TypeOK, LoopOK, Reading, Writing
  <1>3. QuietOK'  BY DEF TypeOK, QuietOK, Past, Labels
  <1>4. TimedOK'  BY DEF TypeOK, QuietOK, TimedOK, WriteLeft
  <1>5. ReportOK'  BY DEF TypeOK, QuietOK, ReportOK
  <1>6. WinnerOK'  BY DEF TypeOK, WinnerOK, Past, Labels
  <1>7. ClosedOK'  BY DEF TypeOK, ClosedOK
  <1>. QED  BY <1>1, <1>2, <1>3, <1>4, <1>5, <1>6, <1>7

LEMMA EndKeeps ==
    ASSUME Inv, NEW d \in Conns, End(d)
    PROVE  Inv'
  <1>. USE TunnelAssumption, OtherFacts DEF Inv, End
  <1>1. TypeOK'  BY DEF TypeOK, Labels, Errors, NoDeadline
  <1>2. LoopOK'  BY DEF TypeOK, LoopOK, Reading, Writing
  <1>3. QuietOK'  BY DEF TypeOK, QuietOK, Past, Labels
  <1>4. TimedOK'  BY DEF TypeOK, QuietOK, TimedOK, WriteLeft
  <1>5. ReportOK'  BY DEF TypeOK, QuietOK, ReportOK
  <1>6. WinnerOK'  BY DEF TypeOK, WinnerOK, Past, Labels
  <1>7. ClosedOK'  BY DEF TypeOK, ClosedOK
  <1>. QED  BY <1>1, <1>2, <1>3, <1>4, <1>5, <1>6, <1>7

LEMMA StallKeeps ==
    ASSUME Inv, NEW d \in Conns, Stall(d)
    PROVE  Inv'
  <1>. USE TunnelAssumption, OtherFacts DEF Inv, Stall
  <1>1. TypeOK'  BY DEF TypeOK, Labels, Errors, NoDeadline
  <1>2. LoopOK'  BY DEF TypeOK, LoopOK, Reading, Writing
  <1>3. QuietOK'  BY DEF TypeOK, QuietOK, Past, Labels
  <1>4. TimedOK'  BY DEF TypeOK, QuietOK, TimedOK, WriteLeft
  <1>5. ReportOK'  BY DEF TypeOK, QuietOK, ReportOK
  <1>6. WinnerOK'  BY DEF TypeOK, WinnerOK, Past, Labels
  <1>7. ClosedOK'  BY DEF TypeOK, ClosedOK
  <1>. QED  BY <1>1, <1>2, <1>3, <1>4, <1>5, <1>6, <1>7

LEMMA UnstallKeeps ==
    ASSUME Inv, NEW d \in Conns, Unstall(d)
    PROVE  Inv'
  <1>. USE TunnelAssumption, OtherFacts DEF Inv, Unstall
  <1>1. TypeOK'  BY DEF TypeOK, Labels, Errors, NoDeadline
  <1>2. LoopOK'  BY DEF TypeOK, LoopOK, Reading, Writing
  <1>3. QuietOK'  BY DEF TypeOK, QuietOK, Past, Labels
  <1>4. TimedOK'  BY DEF TypeOK, QuietOK, TimedOK, WriteLeft
  <1>5. ReportOK'  BY DEF TypeOK, QuietOK, ReportOK
  <1>6. WinnerOK'  BY DEF TypeOK, WinnerOK, Past, Labels
  <1>7. ClosedOK'  BY DEF TypeOK, ClosedOK
  <1>. QED  BY <1>1, <1>2, <1>3, <1>4, <1>5, <1>6, <1>7

\* The copy loop.
LEMMA LoadRKeeps ==
    ASSUME Inv, NEW d \in Conns, LoadR(d)
    PROVE  Inv'
  <1>. USE TunnelAssumption, OtherFacts DEF Inv, LoadR
  <1>1. TypeOK'  BY DEF TypeOK, Labels, Errors, NoDeadline
  <1>2. LoopOK'  BY DEF TypeOK, LoopOK, Reading, Writing
  <1>3. QuietOK'  BY DEF TypeOK, QuietOK, Past, Labels
  <1>4. TimedOK'  BY DEF TypeOK, QuietOK, TimedOK, WriteLeft
  <1>5. ReportOK'  BY DEF TypeOK, QuietOK, ReportOK
  <1>6. WinnerOK'  BY DEF TypeOK, WinnerOK, Past, Labels
  <1>7. ClosedOK'  BY DEF TypeOK, ClosedOK
  <1>. QED  BY <1>1, <1>2, <1>3, <1>4, <1>5, <1>6, <1>7

LEMMA ArmRKeeps ==
    ASSUME Inv, NEW d \in Conns, ArmR(d)
    PROVE  Inv'
  <1>. USE TunnelAssumption, OtherFacts DEF Inv, ArmR
  <1>1. TypeOK'  BY DEF TypeOK, Labels, Errors, NoDeadline
  <1>2. LoopOK'  BY DEF TypeOK, LoopOK, Reading, Writing
  <1>3. QuietOK'  BY DEF TypeOK, QuietOK, Past, Labels
  <1>4. TimedOK'  BY DEF TypeOK, QuietOK, TimedOK, WriteLeft
  <1>5. ReportOK'  BY DEF TypeOK, QuietOK, ReportOK
  <1>6. WinnerOK'  BY DEF TypeOK, WinnerOK, Past, Labels
  <1>7. ClosedOK'  BY DEF TypeOK, ClosedOK
  <1>. QED  BY <1>1, <1>2, <1>3, <1>4, <1>5, <1>6, <1>7

LEMMA ReadChunkKeeps ==
    ASSUME Inv, NEW d \in Conns, ReadChunk(d)
    PROVE  Inv'
  <1>. USE TunnelAssumption, OtherFacts DEF Inv, ReadChunk
  <1>1. TypeOK'  BY DEF TypeOK, Labels, Errors, NoDeadline
  <1>2. LoopOK'  BY DEF TypeOK, LoopOK, Reading, Writing
  <1>3. QuietOK'  BY DEF TypeOK, QuietOK, Past, Labels
  <1>4. TimedOK'  BY DEF TypeOK, QuietOK, TimedOK, WriteLeft
  <1>5. ReportOK'  BY DEF TypeOK, QuietOK, ReportOK
  <1>6. WinnerOK'  BY DEF TypeOK, WinnerOK, Past, Labels
  <1>7. ClosedOK'  BY DEF TypeOK, ClosedOK
  <1>. QED  BY <1>1, <1>2, <1>3, <1>4, <1>5, <1>6, <1>7

LEMMA ReadEndKeeps ==
    ASSUME Inv, NEW d \in Conns, ReadEnd(d)
    PROVE  Inv'
  <1>. USE TunnelAssumption, OtherFacts DEF Inv, ReadEnd, ReadFails
  <1>1. TypeOK'  BY DEF TypeOK, Labels, Errors, NoDeadline
  <1>2. LoopOK'  BY DEF TypeOK, LoopOK, Reading, Writing, Errors
  <1>3. QuietOK'  BY DEF TypeOK, QuietOK, Past, Labels
  <1>4. TimedOK'  BY DEF TypeOK, QuietOK, TimedOK, WriteLeft
  <1>5. ReportOK'
    <2>. SUFFICES ASSUME fe = "unset" PROVE ReportOK'
      BY DEF ReportOK
    <2>1. pc[d] = "read" /\ open[d] /\ rleft[d] + idle[d] >= Timeout
      BY DEF TypeOK, QuietOK, TimedOK
    <2>2. failure'[d] # "closed"
      BY <2>1 DEF TypeOK
    <2>3. failure'[d] = "timeout" => idle[d] = Timeout
      <3>1. failure'[d] = "timeout" => rleft[d] = 0
        BY <2>1 DEF TypeOK
      <3>2. idle[d] \in 0..Timeout
        BY DEF TypeOK
      <3>. QED  BY <2>1, <3>1, <3>2
    <2>4. failure'[d] = "eof" =>
             /\ ended[d] # "no"
             /\ d \notin SmuxConns => ended[d] = "eof" /\ put[d] = sent[d]
      BY <2>1 DEF TypeOK, LoopOK, Reading
    <2>. QED  BY <2>2, <2>3, <2>4 DEF TypeOK, ReportOK
  <1>6. WinnerOK'  BY DEF TypeOK, WinnerOK, Past, Labels
  <1>7. ClosedOK'  BY DEF TypeOK, ClosedOK
  <1>. QED  BY <1>1, <1>2, <1>3, <1>4, <1>5, <1>6, <1>7

LEMMA LoadWKeeps ==
    ASSUME Inv, NEW d \in Conns, LoadW(d)
    PROVE  Inv'
  <1>. USE TunnelAssumption, OtherFacts DEF Inv, LoadW
  <1>1. TypeOK'  BY DEF TypeOK, Labels, Errors, NoDeadline
  <1>2. LoopOK'  BY DEF TypeOK, LoopOK, Reading, Writing
  <1>3. QuietOK'  BY DEF TypeOK, QuietOK, Past, Labels
  <1>4. TimedOK'  BY DEF TypeOK, QuietOK, TimedOK, WriteLeft
  <1>5. ReportOK'  BY DEF TypeOK, QuietOK, ReportOK
  <1>6. WinnerOK'  BY DEF TypeOK, WinnerOK, Past, Labels
  <1>7. ClosedOK'  BY DEF TypeOK, ClosedOK
  <1>. QED  BY <1>1, <1>2, <1>3, <1>4, <1>5, <1>6, <1>7

LEMMA ArmWKeeps ==
    ASSUME Inv, NEW d \in Conns, ArmW(d)
    PROVE  Inv'
  <1>. USE TunnelAssumption, OtherFacts DEF Inv, ArmW
  <1>1. TypeOK'  BY DEF TypeOK, Labels, Errors, NoDeadline
  <1>2. LoopOK'  BY DEF TypeOK, LoopOK, Reading, Writing
  <1>3. QuietOK'  BY DEF TypeOK, QuietOK, Past, Labels
  <1>4. TimedOK'  BY DEF TypeOK, QuietOK, TimedOK, WriteLeft
  <1>5. ReportOK'  BY DEF TypeOK, QuietOK, ReportOK
  <1>6. WinnerOK'  BY DEF TypeOK, WinnerOK, Past, Labels
  <1>7. ClosedOK'  BY DEF TypeOK, ClosedOK
  <1>. QED  BY <1>1, <1>2, <1>3, <1>4, <1>5, <1>6, <1>7

LEMMA StartWKeeps ==
    ASSUME Inv, NEW d \in Conns, StartW(d)
    PROVE  Inv'
  <1>. USE TunnelAssumption, OtherFacts DEF Inv, StartW
  <1>1. TypeOK'  BY DEF TypeOK, Labels, Errors, NoDeadline
  <1>2. LoopOK'  BY DEF TypeOK, LoopOK, Reading, Writing
  <1>3. QuietOK'  BY DEF TypeOK, QuietOK, Past, Labels
  <1>4. TimedOK'  BY DEF TypeOK, QuietOK, TimedOK, WriteLeft
  <1>5. ReportOK'  BY DEF TypeOK, QuietOK, ReportOK, Past
  <1>6. WinnerOK'  BY DEF TypeOK, WinnerOK, Past, Labels
  <1>7. ClosedOK'  BY DEF TypeOK, ClosedOK
  <1>. QED  BY <1>1, <1>2, <1>3, <1>4, <1>5, <1>6, <1>7

LEMMA WriteChunkKeeps ==
    ASSUME Inv, NEW d \in Conns, WriteChunk(d)
    PROVE  Inv'
  <1>. USE TunnelAssumption, OtherFacts DEF Inv, WriteChunk, WriteSucceeds
  <1>1. TypeOK'  BY DEF TypeOK, Labels, Errors, NoDeadline
  <1>2. LoopOK'  BY DEF TypeOK, LoopOK, Reading, Writing
  <1>3. QuietOK'  BY DEF TypeOK, QuietOK, Past, Labels
  <1>4. TimedOK'  BY DEF TypeOK, QuietOK, TimedOK, WriteLeft
  <1>5. ReportOK'  BY DEF TypeOK, QuietOK, ReportOK, LoopOK, Writing
  <1>6. WinnerOK'  BY DEF TypeOK, WinnerOK, Past, Labels
  <1>7. ClosedOK'  BY DEF TypeOK, ClosedOK
  <1>. QED  BY <1>1, <1>2, <1>3, <1>4, <1>5, <1>6, <1>7

LEMMA WriteEndKeeps ==
    ASSUME Inv, NEW d \in Conns, WriteEnd(d)
    PROVE  Inv'
  <1>. USE TunnelAssumption, OtherFacts DEF Inv, WriteEnd, WriteFails
  <1>1. TypeOK'  BY DEF TypeOK, Labels, Errors, NoDeadline
  <1>2. LoopOK'  BY DEF TypeOK, LoopOK, Reading, Writing, Errors
  <1>3. QuietOK'  BY DEF TypeOK, QuietOK, Past, Labels
  <1>4. TimedOK'  BY DEF TypeOK, QuietOK, TimedOK, WriteLeft
  <1>5. ReportOK'
    <2>1. PICK ew \in Errors : WriteFails(d, ew) /\ failure' = [failure EXCEPT ![d] = ew]
      BY DEF WriteFails
    <2>2. /\ pc'[d] = "report" /\ failure'[d] = ew /\ UNCHANGED <<ended, put, sent, idle, fe>>
          /\ \A e \in Conns : e # d => pc'[e] = pc[e] /\ failure'[e] = failure[e]
      BY <2>1 DEF TypeOK
    <2>3. fe = "unset" => ew \notin {"closed", "eof"}
      BY <2>1 DEF QuietOK, Errors
    <2>4. fe = "unset" /\ ew = "timeout" => idle[d] = Timeout
      <3>1. ew = "timeout" => WriteLeft(d) = 0
        BY <2>1
      <3>2. fe = "unset" => WriteLeft(d) + idle[d] >= Timeout
        BY DEF TimedOK
      <3>3. idle[d] \in 0..Timeout
        BY DEF TypeOK
      <3>. QED  BY <3>1, <3>2, <3>3
    <2>. QED  BY <2>2, <2>3, <2>4 DEF ReportOK
  <1>6. WinnerOK'  BY DEF TypeOK, WinnerOK, Past, Labels
  <1>7. ClosedOK'  BY DEF TypeOK, ClosedOK
  <1>. QED  BY <1>1, <1>2, <1>3, <1>4, <1>5, <1>6, <1>7

\* The end of a direction.
LEMMA ReportKeeps ==
    ASSUME Inv, NEW d \in Conns, Report(d)
    PROVE  Inv'
  <1>. USE TunnelAssumption, OtherFacts DEF Inv, Report
  <1>1. TypeOK'  BY DEF TypeOK, Labels, Errors, NoDeadline, LoopOK
  <1>2. LoopOK'  BY DEF TypeOK, LoopOK, Reading, Writing
  <1>3. QuietOK'  BY DEF TypeOK, QuietOK, Past, Labels, Errors
  <1>4. TimedOK'  BY DEF TypeOK, QuietOK, TimedOK, WriteLeft
  <1>5. ReportOK'  BY DEF TypeOK, QuietOK, ReportOK
  <1>6. WinnerOK'  BY DEF TypeOK, WinnerOK, Past, Labels, ReportOK, Errors
  <1>7. ClosedOK'  BY DEF TypeOK, ClosedOK
  <1>. QED  BY <1>1, <1>2, <1>3, <1>4, <1>5, <1>6, <1>7

LEMMA ZeroKeeps ==
    ASSUME Inv, NEW d \in Conns, Zero(d)
    PROVE  Inv'
  <1>. USE TunnelAssumption, OtherFacts DEF Inv, Zero
  <1>1. TypeOK'  BY DEF TypeOK, Labels, Errors, NoDeadline
  <1>2. LoopOK'  BY DEF TypeOK, LoopOK, Reading, Writing
  <1>3. QuietOK'  BY DEF TypeOK, QuietOK, Past, Labels
  <1>4. TimedOK'  BY DEF TypeOK, QuietOK, TimedOK, WriteLeft
  <1>5. ReportOK'  BY DEF TypeOK, QuietOK, ReportOK
  <1>6. WinnerOK'  BY DEF TypeOK, WinnerOK, Past, Labels
  <1>7. ClosedOK'  BY DEF TypeOK, ClosedOK
  <1>. QED  BY <1>1, <1>2, <1>3, <1>4, <1>5, <1>6, <1>7

LEMMA ExpireSrcKeeps ==
    ASSUME Inv, NEW d \in Conns, ExpireSrc(d)
    PROVE  Inv'
  <1>. USE TunnelAssumption, OtherFacts DEF Inv, ExpireSrc, Expire
  <1>1. TypeOK'  BY DEF TypeOK, Labels, Errors, NoDeadline
  <1>2. LoopOK'  BY DEF TypeOK, LoopOK, Reading, Writing
  <1>3. QuietOK'  BY DEF TypeOK, QuietOK, Past, Labels
  <1>4. TimedOK'  BY DEF TypeOK, QuietOK, TimedOK, WriteLeft, Past, Labels
  <1>5. ReportOK'  BY DEF TypeOK, QuietOK, ReportOK
  <1>6. WinnerOK'  BY DEF TypeOK, WinnerOK, Past, Labels
  <1>7. ClosedOK'  BY DEF TypeOK, ClosedOK
  <1>. QED  BY <1>1, <1>2, <1>3, <1>4, <1>5, <1>6, <1>7

LEMMA ExpireDstKeeps ==
    ASSUME Inv, NEW d \in Conns, ExpireDst(d)
    PROVE  Inv'
  <1>. USE TunnelAssumption, OtherFacts DEF Inv, ExpireDst, Expire
  <1>1. TypeOK'  BY DEF TypeOK, Labels, Errors, NoDeadline
  <1>2. LoopOK'  BY DEF TypeOK, LoopOK, Reading, Writing
  <1>3. QuietOK'  BY DEF TypeOK, QuietOK, Past, Labels
  <1>4. TimedOK'  BY DEF TypeOK, QuietOK, TimedOK, WriteLeft, Past, Labels
  <1>5. ReportOK'  BY DEF TypeOK, QuietOK, ReportOK
  <1>6. WinnerOK'  BY DEF TypeOK, WinnerOK, Past, Labels
  <1>7. ClosedOK'  BY DEF TypeOK, ClosedOK
  <1>. QED  BY <1>1, <1>2, <1>3, <1>4, <1>5, <1>6, <1>7

LEMMA CloseSrcKeeps ==
    ASSUME Inv, NEW d \in Conns, CloseSrc(d)
    PROVE  Inv'
  <1>. USE TunnelAssumption, OtherFacts DEF Inv, CloseSrc, Close
  <1>1. TypeOK'  BY DEF TypeOK, Labels, Errors, NoDeadline
  <1>2. LoopOK'  BY DEF TypeOK, LoopOK, Reading, Writing
  <1>3. QuietOK'  BY DEF TypeOK, QuietOK, Past, Labels
  <1>4. TimedOK'  BY DEF TypeOK, QuietOK, TimedOK, WriteLeft
  <1>5. ReportOK'  BY DEF TypeOK, QuietOK, ReportOK
  <1>6. WinnerOK'  BY DEF TypeOK, WinnerOK, Past, Labels
  <1>7. ClosedOK'  BY DEF TypeOK, ClosedOK
  <1>. QED  BY <1>1, <1>2, <1>3, <1>4, <1>5, <1>6, <1>7

LEMMA FinSrcKeeps ==
    ASSUME Inv, NEW d \in Conns, FinSrc(d)
    PROVE  Inv'
  <1>. USE TunnelAssumption, OtherFacts DEF Inv, FinSrc, Fin
  <1>1. TypeOK'  BY DEF TypeOK, Labels, Errors, NoDeadline
  <1>2. LoopOK'  BY DEF TypeOK, LoopOK, Reading, Writing
  <1>3. QuietOK'  BY DEF TypeOK, QuietOK, Past, Labels
  <1>4. TimedOK'  BY DEF TypeOK, QuietOK, TimedOK, WriteLeft
  <1>5. ReportOK'  BY DEF TypeOK, QuietOK, ReportOK
  <1>6. WinnerOK'  BY DEF TypeOK, WinnerOK, Past, Labels
  <1>7. ClosedOK'  BY DEF TypeOK, ClosedOK
  <1>. QED  BY <1>1, <1>2, <1>3, <1>4, <1>5, <1>6, <1>7

LEMMA CloseDstKeeps ==
    ASSUME Inv, NEW d \in Conns, CloseDst(d)
    PROVE  Inv'
  <1>. USE TunnelAssumption, OtherFacts DEF Inv, CloseDst, Close
  <1>1. TypeOK'  BY DEF TypeOK, Labels, Errors, NoDeadline
  <1>2. LoopOK'  BY DEF TypeOK, LoopOK, Reading, Writing
  <1>3. QuietOK'  BY DEF TypeOK, QuietOK, Past, Labels
  <1>4. TimedOK'  BY DEF TypeOK, QuietOK, TimedOK, WriteLeft
  <1>5. ReportOK'  BY DEF TypeOK, QuietOK, ReportOK
  <1>6. WinnerOK'  BY DEF TypeOK, WinnerOK, Past, Labels
  <1>7. ClosedOK'  BY DEF TypeOK, ClosedOK
  <1>. QED  BY <1>1, <1>2, <1>3, <1>4, <1>5, <1>6, <1>7

LEMMA FinDstKeeps ==
    ASSUME Inv, NEW d \in Conns, FinDst(d)
    PROVE  Inv'
  <1>. USE TunnelAssumption, OtherFacts DEF Inv, FinDst, Fin
  <1>1. TypeOK'  BY DEF TypeOK, Labels, Errors, NoDeadline
  <1>2. LoopOK'  BY DEF TypeOK, LoopOK, Reading, Writing
  <1>3. QuietOK'  BY DEF TypeOK, QuietOK, Past, Labels
  <1>4. TimedOK'  BY DEF TypeOK, QuietOK, TimedOK, WriteLeft
  <1>5. ReportOK'  BY DEF TypeOK, QuietOK, ReportOK
  <1>6. WinnerOK'  BY DEF TypeOK, WinnerOK, Past, Labels
  <1>7. ClosedOK'  BY DEF TypeOK, ClosedOK
  <1>. QED  BY <1>1, <1>2, <1>3, <1>4, <1>5, <1>6, <1>7

LEMMA TickKeeps ==
    ASSUME Inv, Tick
    PROVE  Inv'
  <1>. USE TunnelAssumption, OtherFacts DEF Inv, Tick, Down
  <1>1. TypeOK'  BY DEF TypeOK, Labels, Errors, NoDeadline
  <1>2. LoopOK'  BY DEF TypeOK, LoopOK, Reading, Writing
  <1>3. QuietOK'  BY DEF TypeOK, QuietOK, Past, Labels
  <1>4. TimedOK'  BY DEF TypeOK, QuietOK, TimedOK, WriteLeft
  <1>5. ReportOK'  BY DEF TypeOK, QuietOK, ReportOK
  <1>6. WinnerOK'  BY DEF TypeOK, WinnerOK, Past, Labels
  <1>7. ClosedOK'  BY DEF TypeOK, ClosedOK
  <1>. QED  BY <1>1, <1>2, <1>3, <1>4, <1>5, <1>6, <1>7

\* The whole next-state relation.
LEMMA InitEstablishes == Init => Inv
  BY TunnelAssumption, OtherFacts
     DEF Init, Inv, TypeOK, LoopOK, QuietOK, TimedOK, ReportOK, WinnerOK, ClosedOK,
         Reading, Writing, Past, Labels, Errors, NoDeadline

LEMMA StutterKeeps == Inv /\ UNCHANGED vars => Inv'
  BY DEF vars, Inv, TypeOK, LoopOK, QuietOK, TimedOK, ReportOK, WinnerOK, ClosedOK,
         Reading, Writing, Past, WriteLeft

LEMMA NextKeeps == Inv /\ [Next]_vars => Inv'
  <1>. SUFFICES ASSUME Inv, [Next]_vars
                PROVE  Inv'
    OBVIOUS
  <1>1. CASE \E c \in Conns : Send(c) \/ End(c) \/ Stall(c) \/ Unstall(c)
    BY <1>1, SendKeeps, EndKeeps, StallKeeps, UnstallKeeps
  <1>2. CASE Tick
    BY <1>2, TickKeeps
  <1>3. ASSUME NEW d \in Conns, CopyStep(d)
        PROVE  Inv'
    BY <1>3, LoadRKeeps, ArmRKeeps, ReadChunkKeeps, ReadEndKeeps, LoadWKeeps,
       ArmWKeeps, StartWKeeps, WriteChunkKeeps, WriteEndKeeps DEF CopyStep
  <1>4. ASSUME NEW d \in Conns, TeardownStep(d)
        PROVE  Inv'
    BY <1>4, ReportKeeps, ZeroKeeps, ExpireSrcKeeps, ExpireDstKeeps, CloseSrcKeeps,
       FinSrcKeeps, CloseDstKeeps, FinDstKeeps DEF TeardownStep
  <1>5. CASE Stop \/ UNCHANGED vars
    BY <1>5, StutterKeeps DEF Stop
  <1>. QED  BY <1>1, <1>2, <1>3, <1>4, <1>5 DEF Next, Step

\* The inductive invariant: every state openTunnel reaches satisfies it.
THEOREM Invariance == Spec => []Inv
  <1>1. Init => Inv
    BY InitEstablishes
  <1>2. Inv /\ [Next]_vars => Inv'
    BY NextKeeps
  <1>. QED  BY <1>1, <1>2, PTL DEF Spec

\* Every variable of openTunnel's model keeps its type.
THEOREM TypeCorrect == Spec => []TypeOK
  <1>1. Inv => TypeOK
    BY DEF Inv
  <1>. QED  BY <1>1, Invariance, PTL

\* When openTunnel returns nil, the direction that ended first passed on every
\* chunk its peer had sent before it closed (smux sources excepted).
THEOREM NilIsComplete == Spec => []CompleteOnNil
  <1>1. Inv => CompleteOnNil
    BY DEF Inv, WinnerOK, CompleteOnNil
  <1>. QED  BY <1>1, Invariance, PTL

\* openTunnel never returns an error its own teardown made: no "use of closed
\* connection", and no timeout before a whole Timeout without a chunk.
THEOREM TeardownIsNeverReported == Spec => []TeardownNotReported
  <1>1. Inv => TeardownNotReported
    BY DEF Inv, WinnerOK, TeardownNotReported
  <1>. QED  BY <1>1, Invariance, PTL

\* Once a direction is done the other is not blocked, whatever deadline it
\* re-armed meanwhile: the Close of both connections reaches it.
THEOREM TeardownReleases == Spec => []ReleasedByTeardown
  <1>1. ASSUME Inv
        PROVE  ReleasedByTeardown
    <2>. SUFFICES ASSUME NEW d \in Conns, pc[Other(d)] = "done",
                         Other(d) \notin SmuxConns
                  PROVE  ~Blocked(d)
      BY DEF ReleasedByTeardown
    <2>1. ~open[d] /\ ~open[Other(d)]
      BY <1>1, OtherFacts DEF Inv, ClosedOK
    <2>2. ReadFails(d, "closed") /\ WriteFails(d, "closed")
      BY <2>1 DEF ReadFails, WriteFails
    <2>. QED  BY <2>2 DEF Blocked, Errors
  <1>. QED  BY <1>1, Invariance, PTL

-----------------------------------------------------------------------------
(* No Read and no Write of the copy loops waits without a limit.           *)

\* Whatever a direction waits for has a deadline, at most Timeout away: the
\* Read's own, and for a Write the one its connection goes by, which for a
\* smux stream is the timer that this Write started with.
WaitsAreLimited ==
    \A d \in Conns :
        /\ pc[d] = "read" => rleft[d] \in 0..Timeout
        /\ pc[d] = "write" => WriteLeft(d) \in 0..Timeout

\* Of a direction's two deadlines each is armed before it is waited for, and
\* nobody takes an armed one away.
ArmedOK ==
    \A d \in Conns :
        /\ pc[d] = "read" => rleft[d] # NoDeadline
        /\ pc[d] \in {"startW", "write"} => wleft[Other(d)] # NoDeadline
        /\ pc[d] = "write" /\ Other(d) \in SmuxConns => wtimer[d] # NoDeadline

LEMMA ArmedKeeps == TypeOK /\ ArmedOK /\ [Next]_vars => ArmedOK'
  <1>. SUFFICES ASSUME TypeOK, ArmedOK, [Next]_vars
                PROVE  ArmedOK'
    OBVIOUS
  <1>. USE TunnelAssumption, OtherFacts DEF TypeOK, ArmedOK, NoDeadline
  <1>1. ASSUME NEW c \in Conns, Send(c) \/ End(c) \/ Stall(c) \/ Unstall(c)
        PROVE  ArmedOK'
    BY <1>1 DEF Send, End, Stall, Unstall
  <1>2. CASE Tick
    BY <1>2 DEF Tick, Down
  <1>3. ASSUME NEW d \in Conns, LoadR(d) \/ ReadChunk(d) \/ ReadEnd(d) \/ LoadW(d)
        PROVE  ArmedOK'
    BY <1>3 DEF LoadR, ReadChunk, ReadEnd, LoadW
  <1>4. ASSUME NEW d \in Conns, ArmR(d) \/ ArmW(d)
        PROVE  ArmedOK'
    BY <1>4 DEF ArmR, ArmW
  <1>5. ASSUME NEW d \in Conns, StartW(d)
        PROVE  ArmedOK'
    BY <1>5 DEF StartW
  <1>6. ASSUME NEW d \in Conns, WriteChunk(d) \/ WriteEnd(d)
        PROVE  ArmedOK'
    BY <1>6 DEF WriteChunk, WriteEnd
  <1>7. ASSUME NEW d \in Conns, Report(d) \/ Zero(d)
        PROVE  ArmedOK'
    BY <1>7 DEF Report, Zero
  <1>8. ASSUME NEW d \in Conns, ExpireSrc(d) \/ ExpireDst(d)
        PROVE  ArmedOK'
    BY <1>8 DEF ExpireSrc, ExpireDst, Expire
  <1>9. ASSUME NEW d \in Conns, CloseSrc(d) \/ FinSrc(d) \/ CloseDst(d) \/ FinDst(d)
        PROVE  ArmedOK'
    BY <1>9 DEF CloseSrc, FinSrc, CloseDst, FinDst, Close, Fin
  <1>10. CASE Stop \/ UNCHANGED vars
    BY <1>10 DEF Stop, vars
  <1>. QED
    BY <1>1, <1>2, <1>3, <1>4, <1>5, <1>6, <1>7, <1>8, <1>9, <1>10
    DEF Next, Step, CopyStep, TeardownStep

\* The safety half of Terminates: however the two directions set and expire
\* each other's deadlines, the clock ends every wait of both copy loops.
THEOREM NoEndlessWait == Spec => []WaitsAreLimited
  <1>1. Init => ArmedOK
    BY DEF Init, ArmedOK
  <1>2. TypeOK /\ ArmedOK => WaitsAreLimited
    BY TunnelAssumption, OtherFacts
    DEF TypeOK, ArmedOK, WaitsAreLimited, WriteLeft, NoDeadline
  <1>. QED  BY <1>1, <1>2, ArmedKeeps, TypeCorrect, PTL DEF Spec

\* What the Close of both connections may leave waiting: a Write to a smux
\* stream that was stalled when it began, on the timer it began with.
LeftWaiting ==
    \A d \in Conns : pc[Other(d)] = "done" /\ Blocked(d) =>
        /\ pc[d] = "write"
        /\ Other(d) \in SmuxConns
        /\ stalled[Other(d)]
        /\ wtimer[d] \in 1..Timeout

\* How far the comment at common.go:105 is from the code: of all a direction may
\* wait for, the other's teardown fails to end the Write of a smux stream only,
\* and that one ends by its own timer within a Timeout.
THEOREM OnlyASmuxWriteIsLeft == Spec => []LeftWaiting
  <1>1. ASSUME Inv, WaitsAreLimited
        PROVE  LeftWaiting
    <2>. SUFFICES ASSUME NEW d \in Conns, pc[Other(d)] = "done", Blocked(d)
                  PROVE  /\ pc[d] = "write"
                         /\ Other(d) \in SmuxConns
                         /\ stalled[Other(d)]
                         /\ wtimer[d] \in 1..Timeout
      BY DEF LeftWaiting
    <2>1. ~open[d] /\ ~open[Other(d)]
      BY <1>1, OtherFacts DEF Inv, ClosedOK
    <2>2. ReadFails(d, "closed") /\ "closed" \in Errors
      BY <2>1 DEF ReadFails, Errors
    <2>3. pc[d] = "write" /\ ~WriteSucceeds(d) /\ \A ew \in Errors : ~WriteFails(d, ew)
      BY <2>2 DEF Blocked
    <2>4. Other(d) \in SmuxConns
      <3>1. CASE Other(d) \notin SmuxConns
        BY <2>1, <2>2, <2>3, <3>1 DEF WriteFails
      <3>. QED  BY <3>1
    <2>5. ended[Other(d)] # "reset" /\ WriteLeft(d) # 0
      BY <2>3 DEF WriteFails, Errors
    <2>6. stalled[Other(d)]
      BY <2>3, <2>4, <2>5 DEF WriteSucceeds
    <2>7. WriteLeft(d) = wtimer[d] /\ WriteLeft(d) \in 0..Timeout
      BY <1>1, <2>3, <2>4 DEF WriteLeft, WaitsAreLimited
    <2>. QED  BY <2>3, <2>4, <2>5, <2>6, <2>7, TunnelAssumption
  <1>. QED  BY <1>1, Invariance, NoEndlessWait, PTL

\* Between connections that are not smux streams (both of a client's or a
\* server's without mux) the comment at common.go:105 is true.
THEOREM AlwaysReleasedWithoutSmux ==
    ASSUME SmuxConns = {}
    PROVE  Spec => []AlwaysReleased
  <1>1. ReleasedByTeardown => AlwaysReleased
    BY DEF ReleasedByTeardown, AlwaysReleased
  <1>. QED  BY <1>1, TeardownReleases, PTL

-----------------------------------------------------------------------------
(* Tunnel implements Relay.                                                *)

\* A step that leaves what Relay sees alone.
Unseen == UNCHANGED <<sent, ended, put, fe, Returned>>

LEMMA NotReturned ==
    ASSUME TypeOK, NEW d \in Conns, pc[d] # "done", pc'[d] # "done"
    PROVE  UNCHANGED Returned
  BY Zenon DEF Returned

LEMMA CopyRefines ==
    ASSUME Inv, NEW d \in Conns, CopyStep(d)
    PROVE  Unseen \/ R!Deliver(d)
  <1>. USE DEF Inv, TypeOK
  <1>1. pc[d] # "done" /\ pc'[d] # "done"
    BY DEF CopyStep, LoadR, ArmR, ReadChunk, ReadEnd, LoadW, ArmW, StartW, WriteChunk, WriteEnd
  <1>2. UNCHANGED Returned /\ ~Returned
    BY <1>1, NotReturned DEF Returned
  <1>3. CASE WriteChunk(d)
    <2>1. put[d] < sent[d]
      BY <1>3 DEF WriteChunk, LoopOK, Writing
    <2>2. put' = [put EXCEPT ![d] = @ + 1] /\ UNCHANGED <<sent, ended, fe>>
      BY <1>3 DEF WriteChunk
    <2>. QED  BY <1>2, <2>1, <2>2 DEF R!Deliver
  <1>4. CASE ~WriteChunk(d)
    <2>1. UNCHANGED <<sent, ended, put, fe>>
      BY <1>4 DEF CopyStep, LoadR, ArmR, ReadChunk, ReadEnd, LoadW, ArmW, StartW, WriteEnd
    <2>. QED  BY <1>2, <2>1 DEF Unseen
  <1>. QED  BY <1>3, <1>4

LEMMA ReportRefines ==
    ASSUME Inv, NEW d \in Conns, Report(d)
    PROVE  Unseen \/ R!Finish(d) \/ R!Fail
  <1>. USE DEF Inv, TypeOK, Report
  <1>1. UNCHANGED <<sent, ended, put, Returned>>
    BY NotReturned
  <1>2. CASE fe # "unset"
    BY <1>1, <1>2 DEF Unseen
  <1>3. CASE fe = "unset" /\ failure[d] = "eof"
    BY <1>1, <1>3 DEF R!Finish, ReportOK
  <1>4. CASE fe = "unset" /\ failure[d] # "eof"
    BY <1>1, <1>4 DEF R!Fail, R!Errors, ReportOK, LoopOK, Errors
  <1>. QED  BY <1>2, <1>3, <1>4

LEMMA TeardownRefines ==
    ASSUME Inv, NEW d \in Conns, TeardownStep(d), ~Report(d)
    PROVE  Unseen \/ R!Return
  <1>. USE DEF Inv, TypeOK
  <1>1. UNCHANGED <<sent, ended, put, fe>> /\ pc[d] # "done"
    BY DEF TeardownStep, Zero, ExpireSrc, ExpireDst, Expire, CloseSrc, CloseDst, Close,
           FinSrc, FinDst, Fin
  <1>2. fe # "unset"
    BY DEF TeardownStep, Zero, ExpireSrc, ExpireDst, Expire, CloseSrc, CloseDst, Close,
           FinSrc, FinDst, Fin, QuietOK, Past, Labels
  <1>3. ~Returned
    BY <1>1 DEF Returned
  <1>4. CASE Returned'
    BY <1>1, <1>2, <1>3, <1>4 DEF R!Return
  <1>5. CASE ~Returned'
    <2>1. UNCHANGED Returned
      BY <1>3, <1>5, Zenon DEF Returned
    <2>. QED  BY <1>1, <2>1 DEF Unseen
  <1>. QED  BY <1>4, <1>5

LEMMA PeersRefine ==
    ASSUME NEW c \in Conns, Send(c) \/ End(c) \/ Stall(c) \/ Unstall(c)
    PROVE  Unseen \/ R!PeerSends(c) \/ R!PeerEnds(c)
  <1>1. UNCHANGED <<put, fe, Returned>>
    BY DEF Send, End, Stall, Unstall, Returned
  <1>. QED  BY <1>1 DEF Send, End, Stall, Unstall, Unseen, R!PeerSends, R!PeerEnds

LEMMA StepRefines == Inv /\ [Next]_vars => [R!Next]_(R!vars)
  <1>. SUFFICES ASSUME Inv, [Next]_vars
                PROVE  R!Next \/ Unseen
    BY DEF R!vars, Unseen
  <1>1. CASE \E c \in Conns : Send(c) \/ End(c) \/ Stall(c) \/ Unstall(c)
    BY <1>1, PeersRefine DEF R!Next
  <1>2. CASE Tick \/ Stop \/ UNCHANGED vars
    BY <1>2 DEF Tick, Stop, vars, Unseen, Returned
  <1>3. CASE \E d \in Conns : Step(d)
    BY <1>3, CopyRefines, ReportRefines, TeardownRefines DEF Step, R!Next
  <1>. QED  BY <1>1, <1>2, <1>3 DEF Next

\* openTunnel is the relay it promises to be: what it passes on, how it ends
\* and when it returns are those of the abstract specification.
THEOREM TunnelImplementsRelay == Spec => RelaySpec
  <1>1. Init => R!Init
    BY TunnelAssumption DEF Init, R!Init, Returned, Conns
  <1>2. Inv /\ [Next]_vars => [R!Next]_(R!vars)
    BY StepRefines
  <1>. QED  BY <1>1, <1>2, Invariance, PTL DEF Spec, RelaySpec, R!Spec

-----------------------------------------------------------------------------
(* What the callers of openTunnel may therefore count on.                  *)

LEMMA RelayInit == R!Init => R!TypeOK /\ R!Honest
  <1>. SUFFICES ASSUME R!Init PROVE R!TypeOK /\ R!Honest
    OBVIOUS
  <1>1. /\ sent = [c \in Conns |-> 0] /\ put = [c \in Conns |-> 0]
        /\ ended = [c \in Conns |-> "no"] /\ fe = "unset"
    BY DEF R!Init
  <1>2. Returned \in BOOLEAN /\ ~Returned
    BY DEF R!Init, Returned
  <1>3. /\ sent \in [Conns -> Nat] /\ put \in [Conns -> Nat]
        /\ ended \in [Conns -> {"no", "eof", "reset"}]
        /\ fe \in R!Errors \cup {"unset", "nil"}
    BY <1>1
  <1>4. /\ \A c \in Conns : put[c] <= sent[c]
        /\ fe # "nil"
    BY <1>1
  <1>. QED  BY <1>2, <1>3, <1>4 DEF R!TypeOK, R!Honest

LEMMA RelayStep ==
    ASSUME R!TypeOK, R!Honest, [R!Next]_(R!vars)
    PROVE  R!TypeOK' /\ R!Honest' /\ [R!Final]_(R!vars)
  <1>. USE DEF R!TypeOK, R!Honest, R!Final, R!Errors
  <1>1. CASE \E c \in Conns : R!PeerSends(c) \/ R!PeerEnds(c)
    BY <1>1 DEF R!PeerSends, R!PeerEnds
  <1>2. CASE \E c \in Conns : R!Deliver(c)
    BY <1>2 DEF R!Deliver
  <1>3. CASE \E c \in Conns : R!Finish(c)
    BY <1>3 DEF R!Finish
  <1>4. CASE R!Fail \/ R!Return
    BY <1>4 DEF R!Fail, R!Return
  <1>5. CASE UNCHANGED R!vars
    BY <1>5 DEF R!vars
  <1>. QED  BY <1>1, <1>2, <1>3, <1>4, <1>5 DEF R!Next

LEMMA RelayIsHonest == RelaySpec => []R!Honest /\ [][R!Final]_(R!vars)
  <1>1. R!TypeOK /\ R!Honest /\ [R!Next]_(R!vars) =>
            R!TypeOK' /\ R!Honest' /\ [R!Final]_(R!vars)
    BY RelayStep
  <1>. QED  BY <1>1, RelayInit, PTL DEF RelaySpec, R!Spec

\* openTunnel invents nothing, its nil stays as true as when it was reported, the
\* error that firstErr took first is the one it returns, and when it has returned
\* neither of its goroutines writes any more.  This holds of every relay, and so
\* of openTunnel, which is one.
THEOREM TunnelIsHonest == Spec => []R!Honest /\ [][R!Final]_(R!vars)
  BY TunnelImplementsRelay, RelayIsHonest, PTL
=============================================================================
