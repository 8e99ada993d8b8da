---------------------------- MODULE WSConnProofs ----------------------------
(***************************************************************************)
(* Theorems about WSConn, for any number of messages and frames.           *)
(*                                                                         *)
(* As long as one goroutine at a time is in WriteMessage (Alone), what     *)
(* gorilla keeps without a lock belongs to that goroutine: the buffer, the *)
(* open message writer and isWriting are its own.  Whoever holds c.mu has  *)
(* found that nothing was wrong with the connection, so what it writes is  *)
(* written behind data and pongs only.                                     *)
(***************************************************************************)
EXTENDS WSConn, TLAPS

\* A goroutine inside WriteMessage has a message, and flushes one.
Located ==
    \A g \in G : pc[g] \in InMessage =>
        own[g] \in 1..Len(msgs) /\ flushing[g] \in 1..Len(msgs)

Answering ==
    pc["reader"] \in {"control", "controlIO"} => control \in {"pong", "close"}

\* c.mu is with the goroutine that writes, which has looked for an error before.
MutexOK ==
    /\ ~panicked => \A g \in G : mu = g <=> pc[g] \in {"io", "controlIO"}
    /\ mu # "none" => writeErr = "nil"

\* One goroutine at a time is in WriteMessage.
OneAtATime ==
    \A g, h \in G : pc[g] \in InMessage /\ pc[h] \in InMessage => g = h

\* What the goroutine in WriteMessage has made so far is still there.
MessageOK ==
    \A g \in G :
        /\ pc[g] \in InMessage => flushing[g] = own[g] /\ own[g] \notin ended
        /\ pc[g] \in InMessage \ {"begin"} => hasBuf
        /\ pc[g] \in InMessage \ {"begin", "fill"} => filledBy = own[g]

WriterOK ==
    writer # 0 => \E g \in G : pc[g] \in InMessage \ {"begin"} /\ writer = own[g]

WritingOK ==
    isWriting <=> \E g \in G : pc[g] \in {"lock", "io", "sent", "unsent"}

\* A close message that is through, or a message that is not, has left an error.
ToldOK ==
    /\ \A g \in G :
          /\ pc[g] \in {"unsent", "leave"} => writeErr # "nil"
          /\ pc[g] = "sent" /\ msgs[own[g]] = "close" => writeErr # "nil"
    /\ once = "done" => writeErr # "nil"

\* The wire has something else than data and pongs on it only at its end.
WireOK ==
    /\ writeErr = "nil" => \A i \in 1..Len(wire) : wire[i] \in {"data", "pong"}
    /\ \A i \in 1..Len(wire) :
          wire[i] # "mangled" /\ (i < Len(wire) => wire[i] \in {"data", "pong"})

Alone ==
    /\ ~panicked
    /\ OneAtATime /\ MessageOK /\ WriterOK /\ WritingOK /\ ToldOK /\ WireOK

\* The invariant.
Inv ==
    /\ TypeOK /\ Located /\ Answering /\ MutexOK
    /\ ~overlap => Alone

-----------------------------------------------------------------------------
(* Steps outside of WriteMessage: they leave what it uses alone.           *)

USE DEF G, InMessage

LEMMA InitInv == Init => Inv
  <1> SUFFICES ASSUME Init PROVE Inv
    OBVIOUS
  <1>1. /\ pc["writer"] = "next" /\ pc["reader"] = "read"
        /\ pc["closer"] \in {"close", "gone"}
    BY DEF Init
  <1>2. TypeOK
    <2>1. pc \in [G -> Labels]  BY DEF Init, Labels
    <2>2. hasBuf \in BOOLEAN  BY DEF Init
    <2>3. msgs \in Seq({"data", "close"}) /\ Len(msgs) = 0  BY DEF Init
    <2>4. wire \in Seq({"data", "close", "pong", "mangled", "cut"})  BY DEF Init
    <2>5. own \in [G -> 0..Len(msgs)] /\ flushing \in [G -> 0..Len(msgs)]
      BY <2>3 DEF Init
    <2>6. param \in [G -> {"none", "later", "past"}]  BY DEF Init
    <2> QED  BY <2>1, <2>2, <2>3, <2>4, <2>5, <2>6 DEF Init, TypeOK
  <1>3. Located /\ Answering /\ MutexOK /\ Alone
    BY <1>1 DEF Init, Located, Answering, MutexOK, Alone, OneAtATime, MessageOK, WriterOK,
       WritingOK, ToldOK, WireOK
  <1> QED  BY <1>2, <1>3 DEF Inv

\* Where a Step leads.
LEMMA StepPC ==
    ASSUME TypeOK, NEW g \in G, NEW from, NEW to, Step(g, from, to)
    PROVE  /\ pc[g] = from /\ pc'[g] = to /\ ~panicked
           /\ \A h \in G : h # g => pc'[h] = pc[h]
           /\ to \in Labels => pc' \in [G -> Labels]
  BY DEF Step, TypeOK

LEMMA QuietStep ==
    ASSUME Inv, TypeOK', Answering', NEW g \in G, NEW from, NEW to, Step(g, from, to),
           from \notin InMessage \cup {"controlIO"}, to \notin InMessage \cup {"controlIO"},
           to = "leave" => from = "leave",
           once' = "done" => once = "done" \/ from = "leave",
           UNCHANGED <<message, mu, writeErr, wire, overlap, panicked>>
    PROVE  Inv'
  <1>1. /\ pc[g] = from /\ pc'[g] = to /\ ~panicked
        /\ \A h \in G : h # g => pc'[h] = pc[h]
    BY StepPC DEF Inv
  <1>2. \A h \in G : pc'[h] \in InMessage \cup {"controlIO", "leave"} => pc'[h] = pc[h]
    BY <1>1
  <1>3. \A h \in G : pc[h] \in InMessage \cup {"controlIO"} => pc'[h] = pc[h]
    BY <1>1
  <1>4. Located' /\ MutexOK'
    BY <1>1, <1>2, <1>3 DEF Inv, Located, MutexOK, message
  <1>5. ASSUME ~overlap
        PROVE  Alone'
    <2>1. OneAtATime' /\ MessageOK' /\ WriterOK' /\ WritingOK'
      BY <1>2, <1>3, <1>5
      DEF Inv, Alone, OneAtATime, MessageOK, WriterOK, WritingOK, message
    <2>2. ToldOK' /\ WireOK'
      BY <1>1, <1>2, <1>5 DEF Inv, Alone, ToldOK, WireOK, message
    <2> QED  BY <2>1, <2>2, <1>1, <1>5 DEF Alone
  <1> QED  BY <1>4, <1>5 DEF Inv

LEMMA ClosingInv ==
    ASSUME Inv, NEW g \in G, Closing(g)
    PROVE  Inv'
  <1> USE DEF Inv, Labels, message, locked, closing, fixed
  <1>1. CASE Over(g)
    <2>1. TypeOK' /\ Answering'  BY <1>1, StepPC DEF Over, TypeOK, Answering
    <2> QED  BY <1>1, <2>1, QuietStep DEF Over
  <1>2. CASE Close(g)
    <2>1. TypeOK' /\ Answering'  BY <1>2, StepPC DEF Close, TypeOK, Answering
    <2> QED  BY <1>2, <2>1, QuietStep DEF Close
  <1>3. CASE Announce(g)
    <2>1. TypeOK' /\ Answering'  BY <1>3, StepPC DEF Announce, TypeOK, Answering
    <2> QED  BY <1>3, <2>1, QuietStep DEF Announce
  <1>4. CASE Leave(g)
    <2>1. TypeOK' /\ Answering'
      <3>1. sock' \in BOOLEAN  BY <1>4 DEF Leave
      <3>2. pc' \in [G -> Labels]  BY <1>4, StepPC DEF Leave
      <3>3. Answering'  BY <1>4, StepPC DEF Leave, Answering
      <3> QED  BY <1>4, <3>1, <3>2, <3>3 DEF Leave, TypeOK
    <2> QED  BY <1>4, <2>1, QuietStep DEF Leave
  <1>5. CASE CloseAgain(g)
    <2>1. TypeOK' /\ Answering'
      <3>1. sock' \in BOOLEAN  BY <1>5 DEF CloseAgain
      <3>2. pc' \in [G -> Labels]  BY <1>5, StepPC DEF CloseAgain
      <3>3. Answering'  BY <1>5, StepPC DEF CloseAgain, Answering
      <3> QED  BY <1>5, <3>1, <3>2, <3>3 DEF CloseAgain, TypeOK
    <2> QED  BY <1>5, <2>1, QuietStep DEF CloseAgain
  <1> QED  BY <1>1, <1>2, <1>3, <1>4, <1>5 DEF Closing
LEMMA ReadingInv ==
    ASSUME Inv, Reading \/ SetWriteDeadline \/ WriterEnds
    PROVE  Inv'
  <1> USE DEF Inv, Labels, message, locked, closing, fixed
  <1>1. CASE NextReader
    <2>1. TypeOK' /\ Answering'  BY <1>1, StepPC DEF NextReader, TypeOK, Answering
    <2> QED  BY <1>1, <2>1, QuietStep DEF NextReader
  <1>2. CASE ReadEnd
    <2>1. TypeOK' /\ Answering'  BY <1>2, StepPC DEF ReadEnd, TypeOK, Answering
    <2> QED  BY <1>2, <2>1, QuietStep DEF ReadEnd
  <1>3. CASE ReadControl
    <2>1. TypeOK' /\ Answering'  BY <1>3, StepPC DEF ReadControl, TypeOK, Answering
    <2> QED  BY <1>3, <2>1, QuietStep DEF ReadControl
  <1>4. CASE ReadFails
    <2>1. TypeOK' /\ Answering'  BY <1>4, StepPC DEF ReadFails, TypeOK, Answering
    <2> QED  BY <1>4, <2>1, QuietStep DEF ReadFails
  <1>5. CASE ForwardFails
    <2>1. TypeOK' /\ Answering'  BY <1>5, StepPC DEF ForwardFails, TypeOK, Answering
    <2> QED  BY <1>5, <2>1, QuietStep DEF ForwardFails
  <1>6. CASE ReaderEnds
    <2>1. TypeOK' /\ Answering'  BY <1>6, StepPC DEF ReaderEnds, TypeOK, Answering
    <2> QED  BY <1>6, <2>1, QuietStep DEF ReaderEnds
  <1>7. CASE SetWriteDeadline
    <2>1. TypeOK' /\ Answering'  BY <1>7, StepPC DEF SetWriteDeadline, TypeOK, Answering
    <2> QED  BY <1>7, <2>1, QuietStep DEF SetWriteDeadline
  <1>8. CASE WriterEnds
    <2>1. TypeOK' /\ Answering'  BY <1>8, StepPC DEF WriterEnds, TypeOK, Answering
    <2> QED  BY <1>8, <2>1, QuietStep DEF WriterEnds
  <1> QED  BY <1>1, <1>2, <1>3, <1>4, <1>5, <1>6, <1>7, <1>8 DEF Reading

-----------------------------------------------------------------------------
(* Steps inside WriteMessage.                                              *)

\* The goroutine in WriteMessage is the only one there.
LEMMA OnlyOne ==
    ASSUME Inv, ~overlap, NEW g \in G, pc[g] \in InMessage
    PROVE  /\ \A h \in G : h # g => pc[h] \notin InMessage
           /\ own[g] \in 1..Len(msgs) /\ own[g] \notin ended /\ flushing[g] = own[g]
           /\ pc[g] # "begin" => hasBuf
           /\ pc[g] \notin {"begin", "fill"} => filledBy = own[g]
           /\ writer # 0 => writer = own[g] /\ pc[g] # "begin"
           /\ isWriting <=> pc[g] \in {"lock", "io", "sent", "unsent"}
  BY DEF Inv, Alone, OneAtATime, Located, MessageOK, WriterOK, WritingOK

LEMMA BeginInv ==
    ASSUME Inv, NEW g \in G, NEW from \in {"next", "write", "announced"},
           NEW type \in {"data", "close"}, Begin(g, from, type)
    PROVE  Inv'
  <1>1. /\ pc[g] = from /\ pc'[g] = (IF writer = 0 THEN "begin" ELSE "flush") /\ ~panicked
        /\ \A h \in G : h # g => pc'[h] = pc[h]
        /\ pc' \in [G -> Labels]
    BY StepPC DEF Begin, Inv, Labels
  <1>2. /\ msgs' \in Seq({"data", "close"}) /\ Len(msgs') = Len(msgs) + 1
        /\ Len(msgs) \in Nat
        /\ \A m \in 1..Len(msgs) : msgs'[m] = msgs[m]
    BY DEF Begin, Inv, TypeOK
  <1>3. /\ own'[g] = Len(msgs) + 1
        /\ flushing'[g] = (IF writer = 0 THEN Len(msgs) + 1 ELSE writer)
        /\ \A h \in G : h # g => own'[h] = own[h] /\ flushing'[h] = flushing[h]
    BY <1>2 DEF Begin, Inv, TypeOK
  <1>4. TypeOK'
    <2>1. own' \in [G -> 0..Len(msgs')]
      BY <1>2 DEF Begin, Inv, TypeOK
    <2>2. flushing' \in [G -> 0..Len(msgs')]
      BY <1>2 DEF Begin, Inv, TypeOK
    <2>3. ended' \subseteq 1..Len(msgs') /\ writer' \in 0..Len(msgs') /\ filledBy' \in 0..Len(msgs')
      BY <1>2 DEF Begin, Inv, TypeOK
    <2>4. overlap' \in BOOLEAN
      BY DEF Begin
    <2> QED
      BY <1>1, <1>2, <2>1, <2>2, <2>3, <2>4 DEF Begin, Inv, TypeOK, locked, closing, fixed
  <1>5. Located'
    BY <1>1, <1>2, <1>3 DEF Begin, Inv, TypeOK, Located
  <1>6. Answering' /\ MutexOK'
    BY <1>1 DEF Begin, Inv, Answering, MutexOK, locked
  <1>7. ASSUME ~overlap'
        PROVE  Alone'
    <2>1. ~overlap /\ \A h \in G : h # g => pc[h] \notin InMessage /\ pc'[h] \notin InMessage
      BY <1>1, <1>7 DEF Begin
    <2>2. writer = 0 /\ ~isWriting
      BY <1>1, <2>1 DEF Inv, Alone, WriterOK, WritingOK
    <2>3. OneAtATime' /\ WriterOK' /\ WritingOK'
      BY <1>1, <2>1, <2>2 DEF Begin, OneAtATime, WriterOK, WritingOK
    <2>4. MessageOK'
      BY <1>1, <1>2, <1>3, <2>1, <2>2 DEF Begin, Inv, TypeOK, MessageOK
    <2>5. ToldOK' /\ WireOK'
      BY <1>1, <2>1, <2>2 DEF Begin, Inv, Alone, ToldOK, WireOK, locked, closing
    <2> QED  BY <1>1, <2>3, <2>4, <2>5 DEF Alone, Begin
  <1> QED  BY <1>4, <1>5, <1>6, <1>7 DEF Inv

LEMMA ReturnedLabel ==
    ASSUME NEW g, NEW failed
    PROVE  Returned(g, failed) \in {"leave", "over", "gone", "next"}
  BY DEF Returned

LEMMA PanicInv ==
    ASSUME Inv, NEW g \in G, NEW from, Panic(g, from), overlap
    PROVE  Inv'
  <1>1. TypeOK'
    BY DEF Inv, TypeOK, Panic, Labels, message, locked, closing, fixed
  <1>2. Located' /\ Answering' /\ MutexOK'
    BY DEF Inv, Panic, Located, Answering, MutexOK, message, locked
  <1> QED  BY <1>1, <1>2 DEF Inv, Panic

\* Gorilla panics only when two goroutines are in WriteMessage.
LEMMA PanicsInv ==
    ASSUME Inv, NEW g \in G,
           FillPanics(g) \/ FlushPanics(g) \/ UnsetPanics(g, "sent") \/ UnsetPanics(g, "unsent")
    PROVE  Inv'
  <1>1. overlap
    BY OnlyOne DEF FillPanics, FlushPanics, UnsetPanics, Panic
  <1> QED  BY <1>1, PanicInv DEF FillPanics, FlushPanics, UnsetPanics

\* BeginOK, Fill, Flush and SetWriting prepare the frame.
LEMMA PrepareInv ==
    ASSUME Inv, NEW g \in G, BeginOK(g) \/ Fill(g) \/ Flush(g) \/ SetWriting(g)
    PROVE  Inv'
  <1> USE DEF message, locked, closing, fixed
  <1>1. PICK from \in {"begin", "fill", "flush", "set"}, to \in {"fill", "flush", "set", "lock"} :
          /\ Step(g, from, to)
          /\ UNCHANGED <<msgs, own, ended, locked, closing, control, overlap, panicked>>
    BY DEF BeginOK, Fill, Flush, SetWriting
  <1>2. /\ pc[g] = from /\ pc'[g] = to /\ ~panicked
        /\ \A h \in G : h # g => pc'[h] = pc[h]
        /\ pc' \in [G -> Labels]
    BY <1>1, StepPC DEF Inv, Labels
  <1>3. own[g] \in 1..Len(msgs) /\ flushing[g] \in 1..Len(msgs)
    BY <1>2 DEF Inv, Located
  <1>4. TypeOK'
    <2>1. CASE BeginOK(g)
      <3>1. writer' \in 0..Len(msgs)
        BY <1>3, <2>1 DEF BeginOK, Inv, TypeOK
      <3> QED  BY <1>2, <2>1, <3>1 DEF BeginOK, Inv, TypeOK
    <2>2. CASE Fill(g)
      <3>1. filledBy' \in 0..Len(msgs) /\ flushing' \in [G -> 0..Len(msgs)]
        BY <1>3, <2>2 DEF Fill, Inv, TypeOK
      <3> QED  BY <1>2, <2>2, <3>1 DEF Fill, Inv, TypeOK
    <2>3. CASE Flush(g)  BY <1>2, <2>3 DEF Flush, Inv, TypeOK
    <2>4. CASE SetWriting(g)  BY <1>2, <2>4 DEF SetWriting, Inv, TypeOK
    <2> QED  BY <2>1, <2>2, <2>3, <2>4
  <1>5. \A h \in G : flushing'[h] = flushing[h] \/ (h = g /\ flushing'[h] = own[h])
    <2>1. CASE Fill(g)  BY <2>1 DEF Fill, Inv, TypeOK
    <2>2. CASE UNCHANGED flushing  BY <2>2
    <2> QED  BY <2>1, <2>2 DEF BeginOK, Flush, SetWriting
  <1>6. Located' /\ Answering' /\ MutexOK'
    BY <1>1, <1>2, <1>3, <1>5 DEF Inv, Located, Answering, MutexOK
  <1>7. ASSUME ~overlap
        PROVE  Alone'
    <2>1. /\ \A h \in G : h # g => pc[h] \notin InMessage
          /\ own[g] \notin ended /\ flushing[g] = own[g]
          /\ pc[g] # "begin" => hasBuf
          /\ pc[g] \notin {"begin", "fill"} => filledBy = own[g]
          /\ writer # 0 => writer = own[g] /\ pc[g] # "begin"
          /\ ~isWriting
      BY <1>2, <1>7, OnlyOne
    <2>2. OneAtATime' /\ MessageOK'
      BY <1>1, <1>2, <1>5, <2>1 DEF BeginOK, Fill, Flush, SetWriting, Step, OneAtATime, MessageOK
    <2>3. WriterOK' /\ WritingOK'
      BY <1>1, <1>2, <2>1 DEF BeginOK, Fill, Flush, SetWriting, Step, WriterOK, WritingOK
    <2>4. ToldOK' /\ WireOK'
      BY <1>1, <1>2, <1>7 DEF Inv, Alone, ToldOK, WireOK
    <2> QED  BY <1>1, <1>2, <2>2, <2>3, <2>4 DEF Alone
  <1> QED  BY <1>1, <1>4, <1>6, <1>7 DEF Inv

\* The ways to end WriteMessage, or the flush of a message that was found open.
LEMMA FinishInv ==
    ASSUME Inv, NEW g \in G,
           \/ BeginFails(g) \/ FillFails(g) \/ FlushEnded(g)
           \/ Unset(g, "sent", FALSE) \/ Unset(g, "unsent", TRUE)
    PROVE  Inv'
  <1> USE DEF message, locked, closing, fixed
  <1>1. PICK from \in {"begin", "fill", "flush", "sent", "unsent"},
             to \in {"leave", "over", "gone", "next", "begin"} :
          /\ Step(g, from, to)
          /\ UNCHANGED <<msgs, own, flushing, filledBy, locked, closing, control, overlap, panicked>>
          /\ to = "begin" => flushing[g] # own[g]
          /\ to = "leave" => msgs[own[g]] = "close"
    BY ReturnedLabel DEF BeginFails, FillFails, FlushEnded, Unset, Returned
  <1>2. /\ pc[g] = from /\ pc'[g] = to /\ ~panicked
        /\ \A h \in G : h # g => pc'[h] = pc[h]
        /\ pc' \in [G -> Labels]
    BY <1>1, StepPC DEF Inv, Labels
  <1>3. own[g] \in 1..Len(msgs) /\ flushing[g] \in 1..Len(msgs)
    BY <1>2 DEF Inv, Located
  <1>4. TypeOK'
    <2>1. CASE BeginFails(g)  BY <1>2, <2>1 DEF BeginFails, Inv, TypeOK
    <2>2. CASE FillFails(g)  BY <1>2, <2>2 DEF FillFails, Inv, TypeOK
    <2>3. CASE FlushEnded(g)  BY <1>2, <2>3 DEF FlushEnded, Inv, TypeOK
    <2>4. CASE Unset(g, "sent", FALSE) \/ Unset(g, "unsent", TRUE)
      <3>1. /\ isWriting' = FALSE /\ EndMessage(flushing[g])
            /\ UNCHANGED <<role, use, deadline, param>>
        BY <2>4 DEF Unset
      <3>2. hasBuf' \in BOOLEAN
        BY <3>1 DEF EndMessage
      <3>3. ended' \subseteq 1..Len(msgs) /\ writer' \in 0..Len(msgs)
        <4>1. Len(msgs) \in Nat /\ ended \subseteq 1..Len(msgs) /\ writer \in 0..Len(msgs)
          BY DEF Inv, TypeOK
        <4>2. ended' = ended \cup {flushing[g]} /\ writer' \in {0, writer}
          BY <3>1 DEF EndMessage
        <4>3. writer' \in 0..Len(msgs)
          BY <4>1, <4>2
        <4>4. ended' \subseteq 1..Len(msgs)
          BY <1>3, <4>1, <4>2
        <4> QED  BY <4>3, <4>4
      <3>4. isWriting' \in BOOLEAN
        BY <3>1
      <3>5. UNCHANGED <<role, use, deadline, param>>
        BY <3>1
      <3> QED  BY <1>1, <1>2, <3>2, <3>3, <3>4, <3>5 DEF Inv, TypeOK
    <2> QED  BY <2>1, <2>2, <2>3, <2>4
  <1>5. Located' /\ Answering' /\ MutexOK'
    BY <1>1, <1>2, <1>3 DEF Inv, Located, Answering, MutexOK
  <1>6. ASSUME ~overlap
        PROVE  Alone'
    <2>1. /\ \A h \in G : h # g => pc[h] \notin InMessage
          /\ own[g] \notin ended /\ flushing[g] = own[g]
          /\ writer # 0 => writer = own[g] /\ pc[g] # "begin"
          /\ isWriting <=> pc[g] \in {"lock", "io", "sent", "unsent"}
      BY <1>2, <1>6, OnlyOne
    <2>2. \A h \in G : pc'[h] \notin InMessage
      BY <1>1, <1>2, <2>1
    <2>3. writer' = 0 /\ ~isWriting'
      <3>1. CASE BeginFails(g)  BY <1>2, <2>1, <3>1 DEF BeginFails, Step
      <3>2. CASE FillFails(g) \/ FlushEnded(g)  BY <2>1, <3>2 DEF FillFails, FlushEnded
      <3>3. CASE Unset(g, "sent", FALSE) \/ Unset(g, "unsent", TRUE)
        BY <2>1, <3>3 DEF Unset, EndMessage
      <3> QED  BY <3>1, <3>2, <3>3
    <2>4. writeErr # "nil" \/ to # "leave"
      BY <1>1, <1>2, <1>6, <2>1
      DEF BeginFails, FillFails, FlushEnded, Unset, Step, Inv, Alone, ToldOK
    <2>5. OneAtATime' /\ MessageOK' /\ WriterOK' /\ WritingOK'
      BY <2>2, <2>3 DEF OneAtATime, MessageOK, WriterOK, WritingOK
    <2>6. ToldOK' /\ WireOK'
      BY <1>1, <1>2, <1>6, <2>2, <2>4 DEF Inv, Alone, ToldOK, WireOK
    <2> QED  BY <1>1, <1>2, <2>5, <2>6 DEF Alone
  <1> QED  BY <1>1, <1>4, <1>5, <1>6 DEF Inv

-----------------------------------------------------------------------------
(* Steps under c.mu.                                                       *)

LEMMA LockInv ==
    ASSUME Inv, NEW g \in G, Lock(g) \/ LockFails(g)
    PROVE  Inv'
  <1> USE DEF message, locked, closing, fixed
  <1>1. PICK to \in {"io", "unsent"} :
          /\ Step(g, "lock", to)
          /\ UNCHANGED <<message, writeErr, wire, closing, control, overlap, panicked>>
          /\ to = "io" => writeErr = "nil" /\ mu = "none" /\ mu' = g
          /\ to = "unsent" => writeErr # "nil" /\ mu' = mu
    BY DEF Lock, LockFails, Acquire
  <1>2. /\ pc[g] = "lock" /\ pc'[g] = to /\ ~panicked
        /\ \A h \in G : h # g => pc'[h] = pc[h]
        /\ pc' \in [G -> Labels]
    BY <1>1, StepPC DEF Inv, Labels
  <1>3. TypeOK'
    <2>1. connLine' \in {"none", "later", "past"} /\ UNCHANGED <<role, use, deadline, param>>
      BY DEF Lock, LockFails, Acquire, Inv, TypeOK
    <2> QED  BY <1>1, <1>2, <2>1 DEF Inv, TypeOK
  <1>4. MutexOK'
    BY <1>1, <1>2 DEF Inv, MutexOK
  <1>5. Located' /\ Answering'
    BY <1>1, <1>2 DEF Inv, Located, Answering
  <1>6. ASSUME ~overlap
        PROVE  Alone'
    <2>1. OneAtATime' /\ MessageOK' /\ WriterOK' /\ WritingOK'
      BY <1>1, <1>2, <1>6 DEF Inv, Alone, OneAtATime, MessageOK, WriterOK, WritingOK
    <2>2. ToldOK' /\ WireOK'
      BY <1>1, <1>2, <1>6 DEF Inv, Alone, ToldOK, WireOK
    <2> QED  BY <1>1, <1>2, <2>1, <2>2 DEF Alone
  <1> QED  BY <1>1, <1>3, <1>4, <1>5, <1>6 DEF Inv

\* What a write leaves on the wire.
LEMMA WireAppend ==
    ASSUME TypeOK, WireOK, writeErr = "nil",
           NEW frame \in {"data", "close", "pong", "cut"}, wire' = Append(wire, frame),
           writeErr' = "nil" => frame \in {"data", "pong"}
    PROVE  WireOK'
  <1>1. Len(wire) \in Nat /\ Len(wire') = Len(wire) + 1
    BY DEF TypeOK
  <1>2. /\ \A i \in 1..Len(wire) : wire'[i] = wire[i]
        /\ wire'[Len(wire) + 1] = frame
    BY DEF TypeOK
  <1>3. \A i \in 1..Len(wire') : i \in 1..Len(wire) \/ i = Len(wire) + 1
    BY <1>1
  <1> QED  BY <1>1, <1>2, <1>3 DEF WireOK

LEMMA IOInv ==
    ASSUME Inv, NEW g \in G, IO(g)
    PROVE  Inv'
  <1> USE DEF message, locked, closing, fixed
  <1>1. PICK to \in {"sent", "unsent"},
             frame \in {"cut", Frame(flushing[g])} :
          /\ Step(g, "io", to)
          /\ UNCHANGED <<fixed, message, connLine, deadline, param, closing, control, overlap,
                         panicked>>
          /\ wire' = Append(wire, frame) /\ mu' = "none"
          /\ to = "unsent" => frame = "cut" /\ writeErr' = "failed"
          /\ to = "sent" => /\ frame = Frame(flushing[g])
                            /\ writeErr' = (IF msgs[flushing[g]] = "close" THEN "closeSent"
                                            ELSE writeErr)
    BY DEF IO, WriteOK, WriteFails
  <1>2. /\ pc[g] = "io" /\ pc'[g] = to /\ ~panicked
        /\ \A h \in G : h # g => pc'[h] = pc[h]
        /\ pc' \in [G -> Labels]
    BY <1>1, StepPC DEF Inv, Labels
  <1>3. mu = g /\ writeErr = "nil"
    BY <1>2 DEF Inv, MutexOK
  <1>4. flushing[g] \in 1..Len(msgs) /\ msgs[flushing[g]] \in {"data", "close"}
    BY <1>2 DEF Inv, Located, TypeOK
  <1>5. TypeOK'
    <2>1. frame \in {"data", "close", "pong", "mangled", "cut"}
      BY <1>4 DEF Frame
    <2>2. wire' \in Seq({"data", "close", "pong", "mangled", "cut"})
      BY <1>1, <2>1 DEF Inv, TypeOK
    <2>3. writeErr' \in {"nil", "closeSent", "failed"}
      BY <1>1, <1>3
    <2> QED  BY <1>1, <1>2, <2>2, <2>3 DEF Inv, TypeOK
  <1>6. MutexOK'
    BY <1>1, <1>2, <1>3 DEF Inv, MutexOK
  <1>7. Located' /\ Answering'
    BY <1>1, <1>2 DEF Inv, Located, Answering
  <1>8. ASSUME ~overlap
        PROVE  Alone'
    <2>1. /\ \A h \in G : h # g => pc[h] \notin InMessage
          /\ flushing[g] = own[g] /\ filledBy = own[g]
      BY <1>2, <1>8, OnlyOne
    <2>2. OneAtATime' /\ MessageOK' /\ WriterOK' /\ WritingOK'
      BY <1>1, <1>2, <1>8 DEF Inv, Alone, OneAtATime, MessageOK, WriterOK, WritingOK
    <2>3. ToldOK'
      BY <1>1, <1>2, <1>3, <1>8, <2>1 DEF Inv, Alone, ToldOK
    <2>4. frame \in {"data", "close", "cut"} /\ (writeErr' = "nil" => frame = "data")
      BY <1>1, <1>3, <1>4, <2>1 DEF Frame
    <2>5. WireOK'
      BY <1>1, <1>3, <1>8, <2>4, WireAppend DEF Inv, Alone
    <2> QED  BY <1>1, <1>2, <2>2, <2>3, <2>5 DEF Alone
  <1> QED  BY <1>1, <1>5, <1>6, <1>7, <1>8 DEF Inv

LEMMA ControlIOInv ==
    ASSUME Inv, ControlIO
    PROVE  Inv'
  <1> USE DEF message, locked, closing, fixed
  <1>1. PICK to \in {"read", "readEnds"}, frame \in {"cut", control} :
          /\ Step("reader", "controlIO", to)
          /\ UNCHANGED <<fixed, message, connLine, deadline, param, closing, overlap, panicked>>
          /\ wire' = Append(wire, frame) /\ mu' = "none" /\ control' = "none"
          /\ \/ frame = "cut" /\ writeErr' = "failed"
             \/ frame = control /\ writeErr' = (IF control = "close" THEN "closeSent"
                                                ELSE writeErr)
    BY DEF ControlIO, WriteOK, WriteFails
  <1>2. /\ pc["reader"] = "controlIO" /\ pc'["reader"] = to /\ ~panicked
        /\ \A h \in G : h # "reader" => pc'[h] = pc[h]
        /\ pc' \in [G -> Labels]
    BY <1>1, StepPC DEF Inv, Labels
  <1>3. mu = "reader" /\ writeErr = "nil" /\ control \in {"pong", "close"}
    BY <1>2 DEF Inv, MutexOK, Answering
  <1>4. /\ frame \in {"data", "close", "pong", "cut"}
        /\ writeErr' = "nil" => frame \in {"data", "pong"}
    BY <1>1, <1>3
  <1>5. TypeOK'
    <2>1. wire' \in Seq({"data", "close", "pong", "mangled", "cut"})
      BY <1>1, <1>4 DEF Inv, TypeOK
    <2>2. writeErr' \in {"nil", "closeSent", "failed"}
      BY <1>1, <1>3
    <2> QED  BY <1>1, <1>2, <2>1, <2>2 DEF Inv, TypeOK
  <1>6. MutexOK'
    BY <1>1, <1>2, <1>3 DEF Inv, MutexOK
  <1>7. Located' /\ Answering'
    BY <1>1, <1>2 DEF Inv, Located, Answering
  <1>8. ASSUME ~overlap
        PROVE  Alone'
    <2>1. OneAtATime' /\ MessageOK' /\ WriterOK' /\ WritingOK'
      BY <1>1, <1>2, <1>8 DEF Inv, Alone, OneAtATime, MessageOK, WriterOK, WritingOK
    <2>2. ToldOK'
      BY <1>1, <1>2, <1>3, <1>8 DEF Inv, Alone, ToldOK
    <2>3. WireOK'
      BY <1>1, <1>3, <1>4, <1>8, WireAppend DEF Inv, Alone
    <2> QED  BY <1>1, <1>2, <2>1, <2>2, <2>3 DEF Alone
  <1> QED  BY <1>1, <1>5, <1>6, <1>7, <1>8 DEF Inv

LEMMA ControlLockInv ==
    ASSUME Inv, ControlLock
    PROVE  Inv'
  <1> USE DEF message, locked, closing, fixed
  <1>1. /\ Step("reader", "control", "controlIO")
        /\ UNCHANGED <<fixed, message, writeErr, wire, deadline, param, closing, control,
                       overlap, panicked>>
        /\ writeErr = "nil" /\ mu = "none" /\ mu' = "reader" /\ connLine' = "later"
    BY DEF ControlLock, Acquire
  <1>2. /\ pc["reader"] = "control" /\ pc'["reader"] = "controlIO" /\ ~panicked
        /\ \A h \in G : h # "reader" => pc'[h] = pc[h]
        /\ pc' \in [G -> Labels]
    BY <1>1, StepPC DEF Inv, Labels
  <1>3. TypeOK'
    BY <1>1, <1>2 DEF Inv, TypeOK
  <1>4. MutexOK'
    BY <1>1, <1>2 DEF Inv, MutexOK
  <1>5. Located' /\ Answering'
    BY <1>1, <1>2 DEF Inv, Located, Answering
  <1>6. ASSUME ~overlap
        PROVE  Alone'
    <2>1. OneAtATime' /\ MessageOK' /\ WriterOK' /\ WritingOK'
      BY <1>1, <1>2, <1>6 DEF Inv, Alone, OneAtATime, MessageOK, WriterOK, WritingOK
    <2>2. ToldOK' /\ WireOK'
      BY <1>1, <1>2, <1>6 DEF Inv, Alone, ToldOK, WireOK
    <2> QED  BY <1>1, <1>2, <2>1, <2>2 DEF Alone
  <1> QED  BY <1>1, <1>3, <1>4, <1>5, <1>6 DEF Inv

LEMMA ControllingInv ==
    ASSUME Inv, Controlling
    PROVE  Inv'
  <1> USE DEF message, locked, closing, fixed, Labels
  <1>1. CASE ControlGivesUp \/ ControlFails
    <2>1. PICK to \in {"read", "readEnds"} :
            /\ Step("reader", "control", to) /\ control' = "none"
            /\ UNCHANGED <<fixed, message, locked, deadline, param, closing, overlap, panicked>>
      BY <1>1 DEF ControlGivesUp, ControlFails
    <2>2. TypeOK' /\ Answering'
      BY <2>1, StepPC DEF Inv, TypeOK, Answering
    <2> QED  BY <2>1, <2>2, QuietStep
  <1> QED  BY <1>1, ControlLockInv, ControlIOInv DEF Controlling

-----------------------------------------------------------------------------
(* The theorems.                                                           *)

LEMMA NextInv == Inv /\ [Next]_vars => Inv'
  <1> SUFFICES ASSUME Inv, [Next]_vars PROVE Inv'
    OBVIOUS
  <1>1. ASSUME NEW g \in G, Writing(g) PROVE Inv'
    BY <1>1, BeginInv, PanicsInv, PrepareInv, FinishInv, LockInv, IOInv DEF Writing
  <1>2. CASE SendLoop
    BY <1>2, BeginInv DEF SendLoop
  <1>3. CASE UNCHANGED vars
    BY <1>3 DEF vars, fixed, message, locked, closing, Inv, TypeOK, Located, Answering, MutexOK,
       Alone, OneAtATime, MessageOK, WriterOK, WritingOK, ToldOK, WireOK
  <1> QED
    BY <1>1, <1>2, <1>3, ClosingInv, ReadingInv, ControllingInv DEF Next, Stop

\* The invariant that carries the argument holds in every state.
THEOREM Invariant == Spec => []Inv
  BY InitInv, NextInv, PTL DEF Spec

\* Every variable of WSConn keeps its type: the reader writes pongs and close frames
\* only, and every message that is written or flushed is one of those begun.
THEOREM TypeCorrect == Spec => []TypeOK
  <1>1. Inv => TypeOK
    BY DEF Inv
  <1> QED  BY <1>1, Invariant, PTL

\* As long as WriteMessage is called by one goroutine at a time, gorilla does not panic,
\* all frames on the wire are whole, and nothing follows a close frame.
THEOREM StreamStaysSound == Spec => []StreamIsSound
  <1>1. Inv => StreamIsSound
    BY DEF Inv, Alone, WireOK, StreamIsSound
  <1> QED  BY <1>1, Invariant, PTL

\* As long as WriteMessage is called by one goroutine at a time, Close has told the
\* peer when it is through, or a write has failed.
THEOREM CloseTellsThePeer == Spec => []PeerIsTold
  <1>1. Inv => PeerIsTold
    BY DEF Inv, Alone, ToldOK, PeerIsTold
  <1> QED  BY <1>1, Invariant, PTL

-----------------------------------------------------------------------------
(* Who collides, and how long a write may take.  Only the writer writes    *)
(* data.  The others come to WriteMessage through closeOnce, and with the  *)
(* deadline that Close has set.                                            *)

IsClose(g) == pc[g] \in InMessage /\ msgs[own[g]] = "close"
Closer(g) == pc[g] \in {"announce", "announced", "leave"} \/ IsClose(g)

OnceOK ==
    /\ \A g \in G : Closer(g) => once = "running"
    /\ \A g, h \in G : Closer(g) /\ Closer(h) => g = h
    /\ \A g \in G : pc[g] \in {"next", "write"} \cup InMessage /\ ~IsClose(g) => g = "writer"
    /\ overlap => once # "new"

\* All but sendLoop set a deadline before they write.
HasDeadline(g) == use = "tunnel" \/ g # "writer"

DeadlineOK ==
    \A g \in G :
        /\ pc[g] \in {"write", "announced"} => deadline # "none"
        /\ HasDeadline(g) =>
              /\ pc[g] \in InMessage => deadline # "none"
              /\ pc[g] \in {"lock", "io"} => param[g] # "none"
              /\ pc[g] \in {"io", "controlIO"} => connLine # "none"

CloseInv == OnceOK /\ DeadlineOK

LEMMA InitClose == Init => CloseInv
  BY DEF Init, CloseInv, OnceOK, DeadlineOK, Closer, IsClose, HasDeadline

\* A message keeps its type, and whoever is in one keeps his.
LEMMA SameMessages ==
    ASSUME Inv, NEW g \in G, NEW from, NEW to, Step(g, from, to),
           UNCHANGED <<msgs, own>>
    PROVE  /\ pc[g] = from /\ pc'[g] = to
           /\ \A h \in G : h # g => pc'[h] = pc[h] /\ Closer(h)' = Closer(h) /\ IsClose(h)' = IsClose(h)
           /\ Closer(g)' <=> to \in {"announce", "announced", "leave"}
                              \/ (to \in InMessage /\ msgs[own[g]] = "close")
           /\ IsClose(g)' <=> to \in InMessage /\ msgs[own[g]] = "close"
  BY StepPC DEF Inv, Closer, IsClose

\* A step that comes from where it leads to, as far as Close is concerned.
LEMMA OnceStep ==
    ASSUME Inv, CloseInv, NEW g \in G, NEW from, NEW to, Step(g, from, to),
           UNCHANGED <<msgs, own, overlap>>,
           once' = once \/ (from = "close" /\ once = "new") \/ from = "leave",
           once' = "new" => once = "new",
           to \in {"announced", "leave"} \cup InMessage => once' = once /\ from # "leave",
           to = "announce" => from = "close" /\ once = "new" /\ once' = "running",
           to = "announced" => from = "announce",
           to = "leave" => from \in InMessage /\ msgs[own[g]] = "close",
           to \in InMessage => from \in InMessage,
           to \in {"next", "write"} => (from \in InMessage /\ msgs[own[g]] # "close") \/ g = "writer"
    PROVE  OnceOK'
  <1>1. /\ pc[g] = from /\ pc'[g] = to
        /\ \A h \in G : h # g => pc'[h] = pc[h] /\ Closer(h)' = Closer(h) /\ IsClose(h)' = IsClose(h)
        /\ Closer(g)' <=> to \in {"announce", "announced", "leave"}
                           \/ (to \in InMessage /\ msgs[own[g]] = "close")
        /\ IsClose(g)' <=> to \in InMessage /\ msgs[own[g]] = "close"
    BY SameMessages
  <1>2. Closer(g)' => to = "announce" \/ Closer(g)
    BY <1>1 DEF Closer, IsClose
  <1>3. \A h \in G : Closer(h)' => once' = "running"
    <2>1. ASSUME NEW h \in G, h # g, Closer(h) PROVE once' = "running"
      <3>1. once = "running" /\ from # "leave"
        BY <1>1, <2>1 DEF CloseInv, OnceOK, Closer
      <3> QED  BY <3>1
    <2>2. Closer(g)' => once' = "running"
      BY <1>1, <1>2 DEF CloseInv, OnceOK
    <2> QED  BY <1>1, <2>1, <2>2
  <1>4. \A h, k \in G : Closer(h)' /\ Closer(k)' => h = k
    BY <1>1, <1>2 DEF CloseInv, OnceOK
  <1>5. \A h \in G : pc'[h] \in {"next", "write"} \cup InMessage /\ ~IsClose(h)' => h = "writer"
    BY <1>1 DEF CloseInv, OnceOK, IsClose
  <1>6. overlap' => once' # "new"
    BY DEF CloseInv, OnceOK
  <1> QED  BY <1>3, <1>4, <1>5, <1>6 DEF OnceOK

LEMMA BeginClose ==
    ASSUME Inv, CloseInv, NEW g \in G, NEW from, NEW type, Begin(g, from, type),
           \/ from \in {"next", "write"} /\ type = "data"
           \/ from = "announced" /\ type = "close",
           from = "next" => use = "session"
    PROVE  CloseInv'
  <1> USE DEF locked, closing, fixed
  <1>1. /\ pc[g] = from /\ pc'[g] \in {"begin", "flush"}
        /\ \A h \in G : h # g => pc'[h] = pc[h] /\ own'[h] = own[h]
        /\ msgs'[own'[g]] = type
        /\ \A h \in G : h # g /\ pc[h] \in InMessage => msgs'[own'[h]] = msgs[own[h]]
    <2>1. /\ pc[g] = from /\ pc'[g] \in {"begin", "flush"}
          /\ \A h \in G : h # g => pc'[h] = pc[h]
      BY StepPC DEF Begin, Inv
    <2>2. /\ msgs \in Seq({"data", "close"}) /\ msgs' = Append(msgs, type)
          /\ own \in [G -> 0..Len(msgs)] /\ own' = [own EXCEPT ![g] = Len(msgs')]
      BY DEF Begin, Inv, TypeOK
    <2>3. /\ msgs'[Len(msgs')] = type
          /\ \A i \in 1..Len(msgs) : msgs'[i] = msgs[i]
      BY <2>2
    <2>4. own'[g] = Len(msgs') /\ \A h \in G : h # g => own'[h] = own[h]
      BY <2>2
    <2>5. \A h \in G : pc[h] \in InMessage => own[h] \in 1..Len(msgs)
      BY DEF Inv, Located
    <2> QED  BY <2>1, <2>3, <2>4, <2>5
  <1>2. /\ \A h \in G : h # g => Closer(h)' = Closer(h) /\ IsClose(h)' = IsClose(h)
        /\ Closer(g)' <=> type = "close"
        /\ IsClose(g)' <=> type = "close"
    BY <1>1 DEF Closer, IsClose
  <1>3. once' = once /\ (from = "announced" => Closer(g)) /\ (type = "data" => g = "writer")
    BY <1>1 DEF Begin, Closer, CloseInv, OnceOK, IsClose
  <1>4. OnceOK'
    <2>1. \A h \in G : Closer(h)' => Closer(h)
      BY <1>2, <1>3
    <2>2. \A h \in G : pc'[h] \in {"next", "write"} \cup InMessage /\ ~IsClose(h)' => h = "writer"
      BY <1>1, <1>2, <1>3 DEF CloseInv, OnceOK
    <2>3. overlap' => once' # "new"
      <3> SUFFICES ASSUME NEW h \in G, h # g, pc[h] \in InMessage PROVE once = "running"
        BY <1>3 DEF Begin, CloseInv, OnceOK
      <3>1. CASE type = "close"
        BY <1>3, <3>1 DEF CloseInv, OnceOK
      <3>2. CASE type = "data"
        BY <1>3, <3>2 DEF CloseInv, OnceOK, Closer
      <3> QED  BY <3>1, <3>2
    <2> QED  BY <1>3, <2>1, <2>2, <2>3 DEF CloseInv, OnceOK
  <1>5. DeadlineOK'
    <2>1. UNCHANGED <<deadline, param, connLine, use>>
      BY DEF Begin
    <2>2. HasDeadline(g) => deadline # "none"
      <3>1. from = "next" => g = "writer" /\ use = "session"
        BY <1>3
      <3> QED  BY <1>1, <3>1 DEF CloseInv, DeadlineOK, HasDeadline
    <2> QED  BY <1>1, <2>1, <2>2 DEF CloseInv, DeadlineOK, HasDeadline
  <1> QED  BY <1>4, <1>5 DEF CloseInv

LEMMA PanicClose ==
    ASSUME Inv, CloseInv, NEW g \in G, NEW from, Panic(g, from)
    PROVE  CloseInv'
  <1>1. \A h \in G : pc'[h] = "gone"
    BY DEF Panic
  <1> QED  BY <1>1 DEF Panic, CloseInv, OnceOK, DeadlineOK, Closer, IsClose, closing

LEMMA ReturnedClose ==
    ASSUME NEW g, NEW failed
    PROVE  /\ Returned(g, failed) = "leave" <=> msgs[own[g]] = "close"
           /\ Returned(g, failed) \in {"leave", "over", "gone", "next"}
  BY DEF Returned

LEMMA WritingClose ==
    ASSUME Inv, CloseInv, NEW g \in G, Writing(g)
    PROVE  CloseInv'
  <1> USE DEF message, locked, closing, fixed
  <1>1. CASE \/ BeginOK(g) \/ Fill(g) \/ Flush(g) \/ SetWriting(g) \/ BeginFails(g) \/ FillFails(g)
             \/ FlushEnded(g) \/ Unset(g, "sent", FALSE) \/ Unset(g, "unsent", TRUE)
    <2>1. PICK from \in {"begin", "fill", "flush", "set", "sent", "unsent"},
               to \in {"begin", "fill", "flush", "set", "lock", "leave", "over", "gone", "next"} :
            /\ Step(g, from, to)
            /\ UNCHANGED <<msgs, own, overlap, once, use, deadline, connLine>>
            /\ to \in {"leave", "over", "gone", "next"} => (to = "leave" <=> msgs[own[g]] = "close")
            /\ to # "lock" => UNCHANGED param
            /\ to = "lock" => param' = [param EXCEPT ![g] = deadline]
      BY <1>1, ReturnedClose
      DEF BeginOK, Fill, Flush, SetWriting, BeginFails, FillFails, FlushEnded, Unset
    <2>2. OnceOK'
      BY <2>1, OnceStep
    <2>3. /\ pc[g] = from /\ pc'[g] = to
          /\ \A h \in G : h # g => pc'[h] = pc[h]
      BY <2>1, StepPC DEF Inv
    <2>4. /\ \A h \in G : h # g => param'[h] = param[h]
          /\ to = "lock" => param'[g] = deadline
      BY <2>1 DEF Inv, TypeOK
    <2>5. DeadlineOK'
      BY <2>1, <2>3, <2>4 DEF CloseInv, DeadlineOK, HasDeadline
    <2> QED  BY <2>2, <2>5 DEF CloseInv
  <1>2. CASE Lock(g) \/ LockFails(g) \/ IO(g)
    <2>1. PICK from \in {"lock", "io"}, to \in {"io", "sent", "unsent"} :
            /\ Step(g, from, to)
            /\ UNCHANGED <<msgs, own, overlap, once, use, deadline, param>>
            /\ to = "io" => from = "lock" /\ connLine' = param[g] /\ mu = "none"
            /\ to # "io" => UNCHANGED connLine
      BY <1>2 DEF Lock, LockFails, IO, WriteOK, WriteFails, Acquire
    <2>2. OnceOK'
      BY <2>1, OnceStep
    <2>3. /\ pc[g] = from /\ pc'[g] = to /\ ~panicked
          /\ \A h \in G : h # g => pc'[h] = pc[h]
      BY <2>1, StepPC DEF Inv
    <2>4. DeadlineOK'
      BY <2>1, <2>3 DEF CloseInv, DeadlineOK, HasDeadline, Inv, MutexOK
    <2> QED  BY <2>2, <2>4 DEF CloseInv
  <1>3. CASE Begin(g, "write", "data") \/ Begin(g, "announced", "close")
    BY <1>3, BeginClose
  <1>4. CASE FillPanics(g) \/ FlushPanics(g) \/ UnsetPanics(g, "sent") \/ UnsetPanics(g, "unsent")
    BY <1>4, PanicClose DEF FillPanics, FlushPanics, UnsetPanics
  <1> QED  BY <1>1, <1>2, <1>3, <1>4 DEF Writing

LEMMA ClosingClose ==
    ASSUME Inv, CloseInv, NEW g \in G, Closing(g)
    PROVE  CloseInv'
  <1> USE DEF message, locked, closing, fixed
  <1>1. PICK from \in {"over", "close", "announce", "leave"},
             to \in {"close", "announce", "announced", "gone"} :
          /\ Step(g, from, to)
          /\ UNCHANGED <<msgs, own, overlap, use, param>>
          /\ connLine' \in {connLine, "past"} /\ deadline' \in {deadline, "later"}
          /\ to = "announced" => from = "announce" /\ deadline' = "later" /\ once' = once
          /\ to = "announce" => from = "close" /\ once = "new" /\ once' = "running"
          /\ to # "announce" => once' = once \/ (from = "leave" /\ once' = "done")
    BY DEF Closing, Over, Close, Announce, Leave, CloseAgain
  <1>2. OnceOK'
    BY <1>1, OnceStep
  <1>3. /\ pc[g] = from /\ pc'[g] = to
        /\ \A h \in G : h # g => pc'[h] = pc[h]
    BY <1>1, StepPC DEF Inv
  <1>4. DeadlineOK'
    BY <1>1, <1>3 DEF CloseInv, DeadlineOK, HasDeadline
  <1> QED  BY <1>2, <1>4 DEF CloseInv

LEMMA UsingClose ==
    ASSUME Inv, CloseInv, Reading \/ Controlling \/ SetWriteDeadline \/ WriterEnds
    PROVE  CloseInv'
  <1> USE DEF message, locked, closing, fixed
  <1>1. PICK g \in {"reader", "writer"} : \E from, to :
          /\ Step(g, from, to) /\ from \notin {"close", "leave", "announce", "announced"} \cup InMessage
          /\ to \notin {"announce", "announced", "leave", "next", "lock"} \cup InMessage
          /\ UNCHANGED <<msgs, own, overlap, once, use, param>>
          /\ to = "write" => g = "writer" /\ deadline' # "none"
          /\ deadline' \in {deadline, "past", "later"}
          /\ to = "controlIO" => connLine' = "later"
          /\ connLine' \in {connLine, "later"}
    BY DEF Reading, NextReader, ReadEnd, ReadControl, ReadFails, ForwardFails, ReaderEnds, Controlling,
       ControlGivesUp, ControlFails, ControlLock, ControlIO, WriteOK, WriteFails, Acquire,
       SetWriteDeadline, WriterEnds
  <1>2. PICK from, to :
          /\ Step(g, from, to) /\ from \notin {"close", "leave", "announce", "announced"} \cup InMessage
          /\ to \notin {"announce", "announced", "leave", "next", "lock"} \cup InMessage
          /\ UNCHANGED <<msgs, own, overlap, once, use, param>>
          /\ to = "write" => g = "writer" /\ deadline' # "none"
          /\ deadline' \in {deadline, "past", "later"}
          /\ to = "controlIO" => connLine' = "later"
          /\ connLine' \in {connLine, "later"}
    BY <1>1
  <1>3. OnceOK'
    BY <1>2, OnceStep
  <1>4. /\ pc[g] = from /\ pc'[g] = to
        /\ \A h \in G : h # g => pc'[h] = pc[h]
    BY <1>2, StepPC DEF Inv
  <1>5. DeadlineOK'
    BY <1>2, <1>4 DEF CloseInv, DeadlineOK, HasDeadline
  <1> QED  BY <1>3, <1>5 DEF CloseInv

LEMMA NextClose == Inv /\ CloseInv /\ [Next]_vars => CloseInv'
  <1> SUFFICES ASSUME Inv, CloseInv, [Next]_vars PROVE CloseInv'
    OBVIOUS
  <1>1. CASE SendLoop
    BY <1>1, BeginClose DEF SendLoop
  <1>2. CASE UNCHANGED vars
    BY <1>2 DEF vars, fixed, message, locked, closing, CloseInv, OnceOK, DeadlineOK, Closer, IsClose,
       HasDeadline
  <1> QED  BY <1>1, <1>2, WritingClose, ClosingClose, UsingClose DEF Next, Stop

\* So does what is known of the goroutine that closes, and of the deadlines.
THEOREM CloseInvariant == Spec => []CloseInv
  BY InitClose, NextClose, Invariant, PTL DEF Spec

\* For any number of messages: only the goroutine that closes gets into somebody else's
\* WriteMessage, and a connection that nobody has closed does not panic.
THEOREM OnlyCloseGetsIn == Spec => []OnlyCloseCollides
  <1>1. Inv /\ CloseInv => OnlyCloseCollides
    <2> SUFFICES ASSUME Inv, CloseInv PROVE OnlyCloseCollides
      OBVIOUS
    <2>1. overlap \/ panicked => once # "new"
      BY DEF Inv, Alone, CloseInv, OnceOK
    <2>2. ASSUME NEW g \in G, NEW h \in G, g # h, pc[g] \in InMessage, pc[h] \in InMessage
          PROVE  once = "running" /\ {msgs[own[g]], msgs[own[h]]} = {"data", "close"}
      <3>1. msgs[own[g]] \in {"data", "close"} /\ msgs[own[h]] \in {"data", "close"}
        <4>1. own[g] \in 1..Len(msgs) /\ own[h] \in 1..Len(msgs)
          BY <2>2 DEF Inv, Located
        <4>2. msgs \in Seq({"data", "close"})
          BY DEF Inv, TypeOK
        <4> QED  BY <4>1, <4>2
      <3>2. ~(IsClose(g) /\ IsClose(h)) /\ (IsClose(g) \/ IsClose(h))
        BY <2>2 DEF CloseInv, OnceOK, Closer
      <3> QED  BY <2>2, <3>1, <3>2 DEF CloseInv, OnceOK, Closer, IsClose
    <2> QED  BY <2>1, <2>2 DEF OnlyCloseCollides
  <1> QED  BY <1>1, Invariant, CloseInvariant, PTL

\* For any number of messages: nothing but the data of a session is written under c.mu
\* without a deadline.
THEOREM WritesStayLimited == Spec => []WritesAreLimited
  <1>1. Inv /\ CloseInv => WritesAreLimited
    BY DEF CloseInv, DeadlineOK, HasDeadline, WritesAreLimited, Inv, TypeOK
  <1> QED  BY <1>1, Invariant, CloseInvariant, PTL
-----------------------------------------------------------------------------
(* Nobody waits for somebody who is not there.                             *)

\* What a goroutine may have to wait for is in the hands of one that is on its
\* way: c.mu with the one that writes a frame, closeOnce with the one that sends
\* the close message.  A direction of a tunnel does not end before it, or the
\* other one, has closed the socket.
HeldByTheLiving ==
    ~panicked =>
        /\ mu # "none" => \E g \in G : mu = g /\ pc[g] \in {"io", "controlIO"}
        /\ once = "running" => \E g \in G : Closer(g)
        /\ use = "tunnel" /\ (pc["writer"] = "gone" \/ pc["reader"] = "gone") => ~sock

RunningOK == once = "running" /\ ~panicked => \E g \in G : Closer(g)
GoneOK ==
    use = "tunnel" /\ ~panicked =>
        \A g \in {"writer", "reader"} : pc[g] = "gone" => ~sock

\* The closer goes from its announcement to its message, and from there to the
\* end of closeOnce; nobody else's step is one of the closer's.
LEMMA RunningStep ==
    ASSUME Inv, RunningOK, NEW g \in G, NEW from, NEW to, Step(g, from, to),
           UNCHANGED <<msgs, own>>,
           once' = "running" => to = "announce" \/ (once = "running" /\ from # "leave"),
           from = "announce" => to = "announced",
           from # "announced",
           from \in InMessage /\ msgs[own[g]] = "close" => to \in InMessage \cup {"leave"}
    PROVE  RunningOK'
  <1>1. /\ pc[g] = from /\ \A h \in G : h # g => Closer(h)' = Closer(h)
        /\ Closer(g)' <=> to \in {"announce", "announced", "leave"}
                           \/ (to \in InMessage /\ msgs[own[g]] = "close")
    BY SameMessages
  <1>2. SUFFICES ASSUME once' = "running" PROVE \E h \in G : Closer(h)'
    BY DEF RunningOK
  <1>3. CASE to = "announce"
    BY <1>1, <1>3
  <1>4. CASE to # "announce"
    <2>1. once = "running" /\ from # "leave" /\ ~panicked
      BY <1>2, <1>4 DEF Step
    <2>2. PICK h \in G : Closer(h)
      BY <2>1 DEF RunningOK
    <2>3. CASE h # g
      BY <1>1, <2>2, <2>3
    <2>4. CASE h = g
      <3>1. from = "announce" \/ (from \in InMessage /\ msgs[own[g]] = "close")
        BY <1>1, <2>1, <2>2, <2>4 DEF Closer, IsClose
      <3>. QED  BY <1>1, <3>1
    <2> QED  BY <2>3, <2>4
  <1> QED  BY <1>3, <1>4

\* The close message is begun by the closer, which it keeps.
LEMMA RunningBegin ==
    ASSUME Inv, RunningOK, NEW g \in G, NEW from, NEW type, Begin(g, from, type),
           \/ from \in {"next", "write"} /\ type = "data"
           \/ from = "announced" /\ type = "close"
    PROVE  RunningOK'
  <1>1. /\ pc[g] = from /\ pc'[g] \in {"begin", "flush"}
        /\ \A h \in G : h # g => pc'[h] = pc[h]
    BY StepPC DEF Begin, Inv
  <1>2. /\ msgs \in Seq({"data", "close"}) /\ msgs' = Append(msgs, type)
        /\ own \in [G -> 0..Len(msgs)] /\ own' = [own EXCEPT ![g] = Len(msgs')]
    BY DEF Begin, Inv, TypeOK
  <1>3. /\ msgs'[Len(msgs')] = type
        /\ \A i \in 1..Len(msgs) : msgs'[i] = msgs[i]
    BY <1>2
  <1>4. own'[g] = Len(msgs') /\ \A h \in G : h # g => own'[h] = own[h]
    BY <1>2
  <1>5. \A h \in G : pc[h] \in InMessage => own[h] \in 1..Len(msgs)
    BY DEF Inv, Located
  <1>6. \A h \in G : h # g /\ Closer(h) => Closer(h)'
    BY <1>1, <1>3, <1>4, <1>5 DEF Closer, IsClose
  <1>7. type = "close" => Closer(g)'
    BY <1>1, <1>3, <1>4 DEF Closer, IsClose
  <1>8. type = "data" => ~Closer(g)
    BY <1>1 DEF Closer, IsClose
  <1>9. once' = once /\ panicked' = panicked
    BY DEF Begin, closing
  <1> QED  BY <1>6, <1>7, <1>8, <1>9 DEF RunningOK

LEMMA WritingRunning ==
    ASSUME Inv, RunningOK, NEW g \in G, Writing(g)
    PROVE  RunningOK'
  <1> USE DEF message, locked, closing, fixed
  <1>1. CASE \/ BeginOK(g) \/ Fill(g) \/ Flush(g) \/ SetWriting(g) \/ BeginFails(g) \/ FillFails(g)
             \/ FlushEnded(g) \/ Unset(g, "sent", FALSE) \/ Unset(g, "unsent", TRUE)
    <2>1. PICK from \in {"begin", "fill", "flush", "set", "sent", "unsent"},
               to \in {"begin", "fill", "flush", "set", "lock", "leave", "over", "gone", "next"} :
            /\ Step(g, from, to)
            /\ UNCHANGED <<msgs, own, once>>
            /\ to \in {"leave", "over", "gone", "next"} => (to = "leave" <=> msgs[own[g]] = "close")
      BY <1>1, ReturnedClose
      DEF BeginOK, Fill, Flush, SetWriting, BeginFails, FillFails, FlushEnded, Unset
    <2> QED  BY <2>1, RunningStep
  <1>2. CASE Lock(g) \/ LockFails(g) \/ IO(g)
    <2>1. PICK from \in {"lock", "io"}, to \in {"io", "sent", "unsent"} :
            Step(g, from, to) /\ UNCHANGED <<msgs, own, once>>
      BY <1>2 DEF Lock, LockFails, IO, WriteOK, WriteFails, Acquire
    <2> QED  BY <2>1, RunningStep
  <1>3. CASE Begin(g, "write", "data") \/ Begin(g, "announced", "close")
    BY <1>3, RunningBegin
  <1>4. CASE FillPanics(g) \/ FlushPanics(g) \/ UnsetPanics(g, "sent") \/ UnsetPanics(g, "unsent")
    BY <1>4 DEF FillPanics, FlushPanics, UnsetPanics, Panic, RunningOK
  <1> QED  BY <1>1, <1>2, <1>3, <1>4 DEF Writing

LEMMA NextRunning == Inv /\ RunningOK /\ [Next]_vars => RunningOK'
  <1> SUFFICES ASSUME Inv, RunningOK, [Next]_vars PROVE RunningOK'
    OBVIOUS
  <1> USE DEF message, locked, closing, fixed
  <1>1. ASSUME NEW g \in G, Closing(g)
        PROVE  RunningOK'
    <2>1. PICK from \in {"over", "close", "announce", "leave"},
               to \in {"close", "announce", "announced", "gone"} :
            /\ Step(g, from, to)
            /\ UNCHANGED <<msgs, own>>
            /\ from = "announce" => to = "announced"
            /\ once' = "running" => to = "announce" \/ (once = "running" /\ from # "leave")
      BY <1>1 DEF Closing, Over, Close, Announce, Leave, CloseAgain
    <2> QED  BY <2>1, RunningStep
  <1>2. CASE Reading \/ Controlling \/ SetWriteDeadline \/ WriterEnds
    <2>1. PICK g \in {"reader", "writer"} : \E from, to :
            /\ Step(g, from, to)
            /\ from \notin {"leave", "announce", "announced"} \cup InMessage
            /\ UNCHANGED <<msgs, own, once>>
      BY <1>2 DEF Reading, NextReader, ReadEnd, ReadControl, ReadFails, ForwardFails, ReaderEnds,
         Controlling, ControlGivesUp, ControlFails, ControlLock, ControlIO, WriteOK, WriteFails,
         Acquire, SetWriteDeadline, WriterEnds
    <2> QED  BY <2>1, RunningStep
  <1>3. CASE SendLoop
    BY <1>3, RunningBegin DEF SendLoop
  <1>4. CASE UNCHANGED vars
    BY <1>4 DEF vars, RunningOK, Closer, IsClose
  <1> QED  BY <1>1, <1>2, <1>3, <1>4, WritingRunning DEF Next, Stop

\* A direction of a tunnel comes to its end from Close only.
LEMMA NextGone == Inv /\ GoneOK /\ [Next]_vars => GoneOK'
  <1> SUFFICES ASSUME Inv, GoneOK, [Next]_vars PROVE GoneOK'
    OBVIOUS
  <1> USE DEF message, locked, closing, fixed
  <1>1. ASSUME NEW g \in G, NEW from, NEW to, Step(g, from, to), UNCHANGED use,
               sock' \in {sock, FALSE}, use = "tunnel" /\ to = "gone" => ~sock'
        PROVE  GoneOK'
    <2>1. pc'[g] = to /\ ~panicked /\ \A h \in G : h # g => pc'[h] = pc[h]
      BY <1>1, StepPC DEF Inv
    <2> QED  BY <1>1, <2>1 DEF GoneOK
  <1>2. ASSUME NEW g \in G, Closing(g)
        PROVE  GoneOK'
    <2>1. CASE Leave(g) \/ CloseAgain(g)
      <3>1. \E from, to : Step(g, from, to) /\ UNCHANGED use /\ sock' = FALSE
        BY <2>1 DEF Leave, CloseAgain
      <3> QED  BY <1>1, <3>1
    <2>2. CASE Over(g) \/ Close(g) \/ Announce(g)
      <3>1. \E from, to : Step(g, from, to) /\ UNCHANGED <<use, sock>> /\ to # "gone"
        BY <2>2 DEF Over, Close, Announce
      <3> QED  BY <1>1, <3>1
    <2> QED  BY <1>2, <2>1, <2>2 DEF Closing
  <1>3. ASSUME NEW g \in G, Writing(g)
        PROVE  GoneOK'
    <2>1. CASE FillPanics(g) \/ FlushPanics(g) \/ UnsetPanics(g, "sent") \/ UnsetPanics(g, "unsent")
      BY <2>1 DEF FillPanics, FlushPanics, UnsetPanics, Panic, GoneOK
    <2>2. CASE Begin(g, "write", "data") \/ Begin(g, "announced", "close")
      <3>1. \E from, to : Step(g, from, to) /\ UNCHANGED <<use, sock>> /\ to # "gone"
        BY <2>2 DEF Begin
      <3> QED  BY <1>1, <3>1
    <2>3. CASE \/ BeginOK(g) \/ Fill(g) \/ Flush(g) \/ SetWriting(g) \/ BeginFails(g) \/ FillFails(g)
               \/ FlushEnded(g) \/ Unset(g, "sent", FALSE) \/ Unset(g, "unsent", TRUE)
      <3>1. \E from, to : /\ Step(g, from, to) /\ UNCHANGED <<use, sock>>
                          /\ use = "tunnel" => to # "gone"
        BY <2>3 DEF BeginOK, Fill, Flush, SetWriting, BeginFails, FillFails, FlushEnded, Unset,
           Returned
      <3> QED  BY <1>1, <3>1
    <2>4. CASE Lock(g) \/ LockFails(g) \/ IO(g)
      <3>1. \E from, to : Step(g, from, to) /\ UNCHANGED <<use, sock>> /\ to # "gone"
        BY <2>4 DEF Lock, LockFails, IO, WriteOK, WriteFails, Acquire
      <3> QED  BY <1>1, <3>1
    <2> QED  BY <1>3, <2>1, <2>2, <2>3, <2>4 DEF Writing
  <1>4. CASE Reading \/ Controlling \/ SetWriteDeadline \/ WriterEnds
    <2>1. \E from, to :
            /\ Step("reader", from, to) \/ Step("writer", from, to)
            /\ UNCHANGED <<use, sock>>
            /\ use = "tunnel" => to # "gone"
      <3>1. CASE Reading
        BY <3>1 DEF Reading, NextReader, ReadEnd, ReadControl, ReadFails, ForwardFails, ReaderEnds
      <3>2. CASE Controlling
        BY <3>2 DEF Controlling, ControlGivesUp, ControlFails, ControlLock, ControlIO, WriteOK,
           WriteFails, Acquire
      <3>3. CASE SetWriteDeadline \/ WriterEnds
        BY <3>3 DEF SetWriteDeadline, WriterEnds
      <3> QED  BY <1>4, <3>1, <3>2, <3>3
    <2> QED  BY <1>1, <2>1
  <1>5. CASE SendLoop
    <2>1. \E from, to : Step("writer", from, to) /\ UNCHANGED <<use, sock>> /\ to # "gone"
      BY <1>5 DEF SendLoop, Begin
    <2> QED  BY <1>1, <2>1
  <1>6. CASE UNCHANGED vars
    BY <1>6 DEF vars, GoneOK
  <1> QED  BY <1>2, <1>3, <1>4, <1>5, <1>6 DEF Next, Stop

\* The safety half of CloseReturns, ControlReturns and CloseEndsAll: no return of
\* WriteMessage, of the reader's answer or of Close, with an error or without,
\* leaves c.mu locked or closeOnce running, and no way out of a direction's loop
\* leaves the socket of a tunnel open.
THEOREM NobodyIsWaitedForInVain == Spec => []HeldByTheLiving
  <1>1. Init => RunningOK /\ GoneOK
    BY DEF Init, RunningOK, GoneOK
  <1>2. Inv /\ RunningOK /\ GoneOK => HeldByTheLiving
    BY DEF Inv, TypeOK, MutexOK, RunningOK, GoneOK, HeldByTheLiving
  <1> QED  BY <1>1, <1>2, NextRunning, NextGone, Invariant, PTL DEF Spec
=============================================================================
