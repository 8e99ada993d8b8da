--------------------------- MODULE MUServerProofs ---------------------------
(***************************************************************************)
(* What module MUServer promises, for any paths, destinations, commands,   *)
(* handlers and clients.  The argument: whoever writes the map is alone    *)
(* with it, so that what the loops of add and del have done so far is the  *)
(* effect of the entries they have handled, and what a reader has read     *)
(* stays true until it lets go of the lock.                                *)
(***************************************************************************)
EXTENDS MUServer, FiniteSetTheorems, WellFoundedInduction, TLAPS

\* The RWMutex: one writer, which has no reader beside it once it writes.
LockOK ==
    /\ \A h \in Handlers :
          /\ writer = h <=> pc[h] \in {"drain", "write", "unlock"}
          /\ pc[h] \in {"write", "unlock"} => readers = {}
          /\ h \in readers <=> pc[h] \in {"len", "runlock"}
    /\ \A c \in Clients : c \in readers <=> cpc[c] \in {"get", "runlock"}

\* What a handler has in hand, by where it is.
CommandOK ==
    \A h \in Handlers :
        /\ pc[h] = "idle" <=> cmd[h] = None
        /\ pc[h] \in {"idle", "switch", "drain"} => next[h] = 1
        /\ answer[h] = NoAnswer <=> pc[h] \notin {"runlock", "send"}
        /\ pc[h] \in {"drain", "write", "unlock"} =>
              \/ cmd[h].opt \in {"add", "del"} /\ cmd[h].args # <<>>
              \/ cmd[h].opt = "reset"
        /\ pc[h] = "len" => cmd[h].opt = "ping"

\* The writer's loop has applied the entries before next, no more, no less.
EffectOK ==
    \A h \in Handlers :
        /\ pc[h] = "drain" => pathMap = before
        /\ pc[h] = "write" /\ cmd[h].opt # "reset" =>
              /\ next[h] <= Len(cmd[h].args) + 1
              /\ G!Applied(cmd[h], next[h] - 1, before, pathMap)
        /\ pc[h] = "unlock" /\ cmd[h].opt # "reset" =>
              G!Applied(cmd[h], Len(cmd[h].args), before, pathMap)
        /\ pc[h] = "unlock" /\ cmd[h].opt = "reset" => pathMap = Empty

\* What a client has found, by where it is.
ClientOK ==
    \A c \in Clients :
        /\ want[c] = None <=> cpc[c] = "out"
        /\ cpc[c] \in {"out", "rlock", "get"} => dst[c] = None
        /\ cpc[c] = "runlock" => dst[c] = pathMap[want[c]]
        /\ cpc[c] \in {"upgrade", "serve", "tunnel"} => dst[c] # None
        /\ \A s \in dialing[c] : right[c][s] = None
        /\ cpc[c] \notin {"serve", "tunnel"} =>
              dialing[c] = {} /\ \A s \in Streams : right[c][s] = None

Inv == TypeOK /\ LockOK /\ CommandOK /\ EffectOK /\ ClientOK

-----------------------------------------------------------------------------
(* What the commands are made of, and what is counted.                     *)

LEMMA CommandType ==
    ASSUME TypeOK, NEW h \in Handlers, cmd[h] # None
    PROVE  /\ cmd[h].opt \in Opts
           /\ cmd[h].args \in Seq(Entries)
           /\ \A k \in 1..Len(cmd[h].args) :
                 cmd[h].args[k].path \in Paths /\ cmd[h].args[k].dst \in Dsts
  <1>1. cmd[h] \in Commands
    BY DEF TypeOK
  <1>2. cmd[h].opt \in Opts /\ cmd[h].args \in Seq(Entries)
    BY <1>1, MUAssumption
  <1>3. \A k \in 1..Len(cmd[h].args) : cmd[h].args[k] \in Entries
    BY <1>2
  <1>. QED  BY <1>2, <1>3 DEF Entries

LEMMA CountType ==
    /\ 0 \in 0..Cardinality(Paths)
    /\ Cardinality(Users) \in 0..Cardinality(Paths)
  <1>1. Users \subseteq Paths
    BY DEF Users
  <1>. QED  BY <1>1, MUAssumption, FS_Subset, FS_CardinalityType

\* One turn of a loop extends what its entries say by one more.
LEMMA AppliedStep ==
    ASSUME NEW k, k.args \in Seq(Entries), NEW n \in 1..Len(k.args),
           NEW old, NEW map \in [Paths -> Dsts \cup {None}],
           G!Applied(k, n - 1, old, map)
    PROVE  G!Applied(k, n, old, [map EXCEPT ![k.args[n].path] = G!Value(k, n)])
  <1>. DEFINE new == [map EXCEPT ![k.args[n].path] = G!Value(k, n)]
  <1>. SUFFICES ASSUME NEW p \in Paths
                PROVE  /\ (\A i \in 1..n : k.args[i].path # p) => new[p] = old[p]
                       /\ \A i \in 1..n :
                             /\ k.args[i].path = p
                             /\ \A j \in i+1..n : k.args[j].path # p
                             => new[p] = G!Value(k, i)
    BY DEF G!Applied
  <1>1. 1..n = 1..(n - 1) \cup {n}
    OBVIOUS
  <1>2. CASE k.args[n].path = p
    <2>1. new[p] = G!Value(k, n)
      BY <1>2
    <2>2. \A i \in 1..(n - 1) : n \in i+1..n
      OBVIOUS
    <2>. QED  BY <1>1, <1>2, <2>1, <2>2
  <1>3. CASE k.args[n].path # p
    <2>1. new[p] = map[p]
      BY <1>3
    <2>2. \A i \in 1..(n - 1) : i+1..(n - 1) \subseteq i+1..n
      OBVIOUS
    <2>3. (\A i \in 1..n : k.args[i].path # p) => new[p] = old[p]
      BY <1>1, <2>1 DEF G!Applied
    <2>4. ASSUME NEW i \in 1..n, k.args[i].path = p,
                 \A j \in i+1..n : k.args[j].path # p
          PROVE  new[p] = G!Value(k, i)
      <3>1. i \in 1..(n - 1)
        BY <1>1, <1>3, <2>4
      <3>. QED  BY <2>1, <2>2, <2>4, <3>1 DEF G!Applied
    <2>. QED  BY <2>3, <2>4
  <1>. QED  BY <1>2, <1>3

-----------------------------------------------------------------------------
(* Each step preserves the invariant.                                      *)

LEMMA ReceiveInv ==
    ASSUME Inv, NEW h \in Handlers, Receive(h)
    PROVE  Inv'
  <1>1. TypeOK'
    BY DEF Receive, At, serving, Inv, TypeOK, Labels
  <1>2. LockOK'
    BY DEF Receive, At, serving, Inv, LockOK
  <1>3. CommandOK'
    BY MUAssumption DEF Receive, At, Inv, TypeOK, CommandOK
  <1>4. EffectOK'
    BY DEF Receive, At, Inv, EffectOK
  <1>5. ClientOK'
    BY DEF Receive, serving, Inv, ClientOK
  <1>. QED  BY <1>1, <1>2, <1>3, <1>4, <1>5 DEF Inv

LEMMA RefuseInv ==
    ASSUME Inv, NEW h \in Handlers, Refuse(h)
    PROVE  Inv'
  <1>1. TypeOK'
    <2>1. \E res \in {"err", "silence"} : answer' = [answer EXCEPT ![h] = Answer(res, 0)]
      BY DEF Refuse, Answers
    <2>2. \A res \in {"err", "silence"} : Answer(res, 0) \in Replies
      BY CountType DEF Answer, Replies
    <2>3. answer' \in [Handlers -> Replies]
      BY <2>1, <2>2 DEF Inv, TypeOK
    <2>. QED  BY <2>3 DEF Refuse, At, serving, Inv, TypeOK, Labels
  <1>2. LockOK'
    BY DEF Refuse, At, serving, Inv, LockOK
  <1>3. CommandOK'
    BY DEF Refuse, At, Answers, Answer, Inv, TypeOK, CommandOK, NoAnswer
  <1>4. EffectOK'
    BY DEF Refuse, At, Inv, EffectOK
  <1>5. ClientOK'
    BY DEF Refuse, serving, Inv, ClientOK
  <1>. QED  BY <1>1, <1>2, <1>3, <1>4, <1>5 DEF Inv

LEMMA LockInv ==
    ASSUME Inv, NEW h \in Handlers, Lock(h)
    PROVE  Inv'
  <1>1. TypeOK'
    BY DEF Lock, At, serving, Inv, TypeOK, Labels
  <1>2. LockOK'
    BY MUAssumption DEF Lock, At, serving, Inv, TypeOK, LockOK
  <1>3. CommandOK'
    BY DEF Lock, At, Inv, CommandOK
  <1>4. EffectOK'
    BY MUAssumption DEF Lock, At, Inv, EffectOK, LockOK
  <1>5. ClientOK'
    BY DEF Lock, serving, Inv, ClientOK
  <1>. QED  BY <1>1, <1>2, <1>3, <1>4, <1>5 DEF Inv

LEMMA LockedInv ==
    ASSUME Inv, NEW h \in Handlers, Locked(h)
    PROVE  Inv'
  <1>1. TypeOK'
    BY DEF Locked, At, serving, Inv, TypeOK, Labels
  <1>2. LockOK'
    BY DEF Locked, At, serving, Inv, LockOK
  <1>3. CommandOK'
    BY DEF Locked, At, Inv, CommandOK
  <1>4. EffectOK'
    BY DEF Locked, At, Inv, EffectOK, CommandOK, G!Applied
  <1>5. ClientOK'
    BY DEF Locked, serving, Inv, ClientOK
  <1>. QED  BY <1>1, <1>2, <1>3, <1>4, <1>5 DEF Inv

LEMMA AddInv ==
    ASSUME Inv, NEW h \in Handlers, Add(h)
    PROVE  Inv'
  <1>0. cmd[h] # None
    BY DEF Inv, CommandOK, Add, At
  <1>1. TypeOK'
    BY <1>0, CommandType DEF Add, At, serving, Inv, TypeOK
  <1>2. LockOK'
    BY DEF Add, At, serving, Inv, LockOK
  <1>3. CommandOK'
    BY <1>0 DEF Add, At, Inv, CommandOK
  <1>4. EffectOK'
    <2>. SUFFICES ASSUME NEW g \in Handlers, pc'[g] \in {"drain", "write", "unlock"}
                  PROVE  /\ g = h
                         /\ pc'[h] = "write" /\ cmd'[h].opt # "reset"
                         /\ next'[h] <= Len(cmd'[h].args) + 1
                         /\ G!Applied(cmd'[h], next'[h] - 1, before', pathMap')
      BY DEF EffectOK
    <2>1. g = h /\ pc[h] = "write" /\ pc'[h] = "write"
      BY DEF Add, At, Inv, LockOK
    <2>2. /\ cmd' = cmd /\ before' = before /\ cmd[h].opt # "reset"
          /\ next[h] \in 1..Len(cmd[h].args) /\ next'[h] = next[h] + 1
      BY <1>0 DEF Add, Inv, TypeOK
    <2>3. G!Applied(cmd[h], next[h] - 1, before, pathMap)
      BY <2>1, <2>2 DEF Inv, EffectOK
    <2>4. pathMap' = [pathMap EXCEPT ![cmd[h].args[next[h]].path] = G!Value(cmd[h], next[h])]
      BY DEF Add, G!Value
    <2>5. G!Applied(cmd[h], next[h], before, pathMap')
      BY <1>0, <2>2, <2>3, <2>4, CommandType, AppliedStep DEF Inv, TypeOK
    <2>. QED  BY <1>0, <2>1, <2>2, <2>5
  <1>5. ClientOK'
    BY DEF Add, At, serving, Inv, ClientOK, LockOK
  <1>. QED  BY <1>1, <1>2, <1>3, <1>4, <1>5 DEF Inv

LEMMA DelInv ==
    ASSUME Inv, NEW h \in Handlers, Del(h)
    PROVE  Inv'
  <1>0. cmd[h] # None
    BY DEF Inv, CommandOK, Del, At
  <1>1. TypeOK'
    BY <1>0, CommandType DEF Del, At, serving, Inv, TypeOK
  <1>2. LockOK'
    BY DEF Del, At, serving, Inv, LockOK
  <1>3. CommandOK'
    BY <1>0 DEF Del, At, Inv, CommandOK
  <1>4. EffectOK'
    <2>. SUFFICES ASSUME NEW g \in Handlers, pc'[g] \in {"drain", "write", "unlock"}
                  PROVE  /\ g = h
                         /\ pc'[h] = "write" /\ cmd'[h].opt # "reset"
                         /\ next'[h] <= Len(cmd'[h].args) + 1
                         /\ G!Applied(cmd'[h], next'[h] - 1, before', pathMap')
      BY DEF EffectOK
    <2>1. g = h /\ pc[h] = "write" /\ pc'[h] = "write"
      BY DEF Del, At, Inv, LockOK
    <2>2. /\ cmd' = cmd /\ before' = before /\ cmd[h].opt # "reset"
          /\ next[h] \in 1..Len(cmd[h].args) /\ next'[h] = next[h] + 1
      BY <1>0 DEF Del, Inv, TypeOK
    <2>3. G!Applied(cmd[h], next[h] - 1, before, pathMap)
      BY <2>1, <2>2 DEF Inv, EffectOK
    <2>4. pathMap' = [pathMap EXCEPT ![cmd[h].args[next[h]].path] = G!Value(cmd[h], next[h])]
      BY DEF Del, G!Value
    <2>5. G!Applied(cmd[h], next[h], before, pathMap')
      BY <1>0, <2>2, <2>3, <2>4, CommandType, AppliedStep DEF Inv, TypeOK
    <2>. QED  BY <1>0, <2>1, <2>2, <2>5
  <1>5. ClientOK'
    BY DEF Del, At, serving, Inv, ClientOK, LockOK
  <1>. QED  BY <1>1, <1>2, <1>3, <1>4, <1>5 DEF Inv

LEMMA ResetInv ==
    ASSUME Inv, NEW h \in Handlers, Reset(h)
    PROVE  Inv'
  <1>1. TypeOK'
    BY DEF Reset, At, Empty, serving, Inv, TypeOK, Labels
  <1>2. LockOK'
    BY DEF Reset, At, serving, Inv, LockOK
  <1>3. CommandOK'
    BY DEF Reset, At, Inv, CommandOK
  <1>4. EffectOK'
    BY DEF Reset, At, Inv, EffectOK, LockOK
  <1>5. ClientOK'
    BY DEF Reset, At, serving, Inv, ClientOK, LockOK
  <1>. QED  BY <1>1, <1>2, <1>3, <1>4, <1>5 DEF Inv

LEMMA LoopEndsInv ==
    ASSUME Inv, NEW h \in Handlers, LoopEnds(h)
    PROVE  Inv'
  <1>1. TypeOK'
    BY DEF LoopEnds, At, serving, Inv, TypeOK, Labels
  <1>2. LockOK'
    BY DEF LoopEnds, At, serving, Inv, LockOK
  <1>3. CommandOK'
    BY DEF LoopEnds, At, Inv, CommandOK
  <1>4. EffectOK'
    BY DEF LoopEnds, At, Inv, TypeOK, EffectOK
  <1>5. ClientOK'
    BY DEF LoopEnds, serving, Inv, ClientOK
  <1>. QED  BY <1>1, <1>2, <1>3, <1>4, <1>5 DEF Inv

LEMMA UnlockInv ==
    ASSUME Inv, NEW h \in Handlers, Unlock(h)
    PROVE  Inv'
  <1>1. TypeOK'
    BY CountType DEF Unlock, At, Answers, Answer, Empty, serving, Inv, TypeOK, Labels, Replies
  <1>2. LockOK'
    BY MUAssumption DEF Unlock, At, serving, Inv, TypeOK, LockOK
  <1>3. CommandOK'
    BY DEF Unlock, At, Answers, Answer, Inv, TypeOK, CommandOK, NoAnswer
  <1>4. EffectOK'
    BY DEF Unlock, At, Inv, TypeOK, EffectOK, LockOK
  <1>5. ClientOK'
    BY DEF Unlock, serving, Inv, ClientOK
  <1>. QED  BY <1>1, <1>2, <1>3, <1>4, <1>5 DEF Inv

LEMMA RLockLenInv ==
    ASSUME Inv, NEW h \in Handlers, RLockLen(h)
    PROVE  Inv'
  <1>1. TypeOK'
    BY DEF RLockLen, At, serving, Inv, TypeOK, Labels
  <1>2. LockOK'
    BY MUAssumption DEF RLockLen, At, serving, Inv, TypeOK, LockOK
  <1>3. CommandOK'
    BY DEF RLockLen, At, Inv, CommandOK
  <1>4. EffectOK'
    BY DEF RLockLen, At, Inv, EffectOK
  <1>5. ClientOK'
    BY DEF RLockLen, serving, Inv, ClientOK
  <1>. QED  BY <1>1, <1>2, <1>3, <1>4, <1>5 DEF Inv

LEMMA ReadLenInv ==
    ASSUME Inv, NEW h \in Handlers, ReadLen(h)
    PROVE  Inv'
  <1>1. TypeOK'
    BY CountType DEF ReadLen, At, Answers, Answer, serving, Inv, TypeOK, Labels, Replies
  <1>2. LockOK'
    BY DEF ReadLen, At, serving, Inv, LockOK
  <1>3. CommandOK'
    BY DEF ReadLen, At, Answers, Answer, Inv, TypeOK, CommandOK, NoAnswer
  <1>4. EffectOK'
    BY DEF ReadLen, At, Inv, EffectOK
  <1>5. ClientOK'
    BY DEF ReadLen, serving, Inv, ClientOK
  <1>. QED  BY <1>1, <1>2, <1>3, <1>4, <1>5 DEF Inv

LEMMA RUnlockLenInv ==
    ASSUME Inv, NEW h \in Handlers, RUnlockLen(h)
    PROVE  Inv'
  <1>1. TypeOK'
    BY DEF RUnlockLen, At, serving, Inv, TypeOK, Labels
  <1>2. LockOK'
    BY MUAssumption DEF RUnlockLen, At, serving, Inv, TypeOK, LockOK
  <1>3. CommandOK'
    BY DEF RUnlockLen, At, Inv, CommandOK
  <1>4. EffectOK'
    BY DEF RUnlockLen, At, Inv, EffectOK
  <1>5. ClientOK'
    BY DEF RUnlockLen, serving, Inv, ClientOK
  <1>. QED  BY <1>1, <1>2, <1>3, <1>4, <1>5 DEF Inv

LEMMA SendInv ==
    ASSUME Inv, NEW h \in Handlers, Send(h)
    PROVE  Inv'
  <1>1. TypeOK'
    BY CountType DEF Send, At, serving, Inv, TypeOK, Labels, Replies, NoAnswer, Answer
  <1>2. LockOK'
    BY DEF Send, At, serving, Inv, LockOK
  <1>3. CommandOK'
    BY DEF Send, At, Inv, TypeOK, CommandOK
  <1>4. EffectOK'
    BY DEF Send, At, Inv, EffectOK
  <1>5. ClientOK'
    BY DEF Send, serving, Inv, ClientOK
  <1>. QED  BY <1>1, <1>2, <1>3, <1>4, <1>5 DEF Inv

LEMMA ComeInv ==
    ASSUME Inv, NEW c \in Clients, Come(c)
    PROVE  Inv'
  <1>1. TypeOK'
    BY DEF Come, CAt, handling, Inv, TypeOK, CLabels
  <1>2. LockOK'
    BY DEF Come, CAt, handling, Inv, LockOK
  <1>3. ClientOK'
    BY MUAssumption DEF Come, CAt, Inv, TypeOK, ClientOK
  <1>4. CommandOK' /\ EffectOK'
    BY DEF Come, handling, Inv, CommandOK, EffectOK
  <1>. QED  BY <1>1, <1>2, <1>3, <1>4 DEF Inv

LEMMA RLockGetInv ==
    ASSUME Inv, NEW c \in Clients, RLockGet(c)
    PROVE  Inv'
  <1>1. TypeOK'
    BY DEF RLockGet, CAt, handling, Inv, TypeOK, CLabels
  <1>2. LockOK'
    BY MUAssumption DEF RLockGet, CAt, handling, Inv, TypeOK, LockOK
  <1>3. ClientOK'
    BY DEF RLockGet, CAt, Inv, ClientOK
  <1>4. CommandOK' /\ EffectOK'
    BY DEF RLockGet, handling, Inv, CommandOK, EffectOK
  <1>. QED  BY <1>1, <1>2, <1>3, <1>4 DEF Inv

LEMMA ReadGetInv ==
    ASSUME Inv, NEW c \in Clients, ReadGet(c)
    PROVE  Inv'
  <1>1. TypeOK'
    BY DEF ReadGet, CAt, handling, Inv, TypeOK, CLabels, ClientOK
  <1>2. LockOK'
    BY DEF ReadGet, CAt, handling, Inv, LockOK
  <1>3. ClientOK'
    BY DEF ReadGet, CAt, Inv, TypeOK, ClientOK
  <1>4. CommandOK' /\ EffectOK'
    BY DEF ReadGet, handling, Inv, CommandOK, EffectOK
  <1>. QED  BY <1>1, <1>2, <1>3, <1>4 DEF Inv

LEMMA RUnlockGetInv ==
    ASSUME Inv, NEW c \in Clients, RUnlockGet(c)
    PROVE  Inv'
  <1>1. TypeOK'
    BY DEF RUnlockGet, CAt, Return, handling, Inv, TypeOK, CLabels
  <1>2. LockOK'
    BY MUAssumption DEF RUnlockGet, CAt, Return, handling, Inv, TypeOK, LockOK
  <1>3. ClientOK'
    BY DEF RUnlockGet, CAt, Return, Inv, TypeOK, ClientOK
  <1>4. CommandOK' /\ EffectOK'
    BY DEF RUnlockGet, handling, Inv, CommandOK, EffectOK
  <1>. QED  BY <1>1, <1>2, <1>3, <1>4 DEF Inv

LEMMA UpgradeInv ==
    ASSUME Inv, NEW c \in Clients, Upgrade(c)
    PROVE  Inv'
  <1>1. TypeOK'
    BY DEF Upgrade, CAt, handling, Inv, TypeOK, CLabels
  <1>2. LockOK'
    BY DEF Upgrade, CAt, handling, Inv, LockOK
  <1>3. ClientOK'
    BY DEF Upgrade, CAt, Inv, ClientOK
  <1>4. CommandOK' /\ EffectOK'
    BY DEF Upgrade, handling, Inv, CommandOK, EffectOK
  <1>. QED  BY <1>1, <1>2, <1>3, <1>4 DEF Inv

LEMMA UpgradeFailsInv ==
    ASSUME Inv, NEW c \in Clients, UpgradeFails(c)
    PROVE  Inv'
  <1>1. TypeOK'
    BY DEF UpgradeFails, Return, handling, Inv, TypeOK, CLabels
  <1>2. LockOK'
    BY DEF UpgradeFails, Return, handling, Inv, LockOK
  <1>3. ClientOK'
    BY DEF UpgradeFails, Return, Inv, TypeOK, ClientOK
  <1>4. CommandOK' /\ EffectOK'
    BY DEF UpgradeFails, handling, Inv, CommandOK, EffectOK
  <1>. QED  BY <1>1, <1>2, <1>3, <1>4 DEF Inv

LEMMA AcceptEndsInv ==
    ASSUME Inv, NEW c \in Clients, AcceptEnds(c)
    PROVE  Inv'
  <1>1. TypeOK'
    BY DEF AcceptEnds, CAt, handling, Inv, TypeOK, CLabels
  <1>2. LockOK'
    BY DEF AcceptEnds, CAt, handling, Inv, LockOK
  <1>3. ClientOK'
    BY DEF AcceptEnds, CAt, Inv, ClientOK
  <1>4. CommandOK' /\ EffectOK'
    BY DEF AcceptEnds, handling, Inv, CommandOK, EffectOK
  <1>. QED  BY <1>1, <1>2, <1>3, <1>4 DEF Inv

LEMMA LeaveInv ==
    ASSUME Inv, NEW c \in Clients, Leave(c)
    PROVE  Inv'
  <1>1. TypeOK'
    BY DEF Leave, Return, handling, Inv, TypeOK, CLabels
  <1>2. LockOK'
    BY DEF Leave, Return, handling, Inv, LockOK
  <1>3. ClientOK'
    BY DEF Leave, Return, Inv, TypeOK, ClientOK
  <1>4. CommandOK' /\ EffectOK'
    BY DEF Leave, handling, Inv, CommandOK, EffectOK
  <1>. QED  BY <1>1, <1>2, <1>3, <1>4 DEF Inv

LEMMA AcceptInv ==
    ASSUME Inv, NEW c \in Clients, NEW s \in Streams, Accept(c, s)
    PROVE  Inv'
  <1>1. TypeOK'
    BY DEF Accept, CAt, handling, Inv, TypeOK, CLabels
  <1>2. LockOK'
    BY DEF Accept, CAt, handling, Inv, LockOK
  <1>3. ClientOK'
    BY DEF Accept, CAt, Inv, ClientOK
  <1>4. CommandOK' /\ EffectOK'
    BY DEF Accept, handling, Inv, CommandOK, EffectOK
  <1>. QED  BY <1>1, <1>2, <1>3, <1>4 DEF Inv

LEMMA DialInv ==
    ASSUME Inv, NEW c \in Clients, NEW s \in Streams, Dial(c, s)
    PROVE  Inv'
  <1>1. TypeOK'
    BY DEF Dial, handling, Inv, TypeOK
  <1>2. ClientOK'
    BY DEF Dial, Inv, TypeOK, ClientOK
  <1>3. LockOK' /\ CommandOK' /\ EffectOK'
    BY DEF Dial, handling, Inv, LockOK, CommandOK, EffectOK
  <1>. QED  BY <1>1, <1>2, <1>3 DEF Inv

LEMMA DialFailsInv ==
    ASSUME Inv, NEW c \in Clients, NEW s \in Streams, DialFails(c, s)
    PROVE  Inv'
  <1>1. TypeOK'
    BY DEF DialFails, handling, Inv, TypeOK
  <1>2. ClientOK'
    BY DEF DialFails, Inv, ClientOK
  <1>3. LockOK' /\ CommandOK' /\ EffectOK'
    BY DEF DialFails, handling, Inv, LockOK, CommandOK, EffectOK
  <1>. QED  BY <1>1, <1>2, <1>3 DEF Inv

LEMMA TunnelEndsInv ==
    ASSUME Inv, NEW c \in Clients, NEW s \in Streams, TunnelEnds(c, s)
    PROVE  Inv'
  <1>1. TypeOK'
    BY DEF TunnelEnds, handling, Inv, TypeOK
  <1>2. ClientOK'
    BY DEF TunnelEnds, Inv, ClientOK
  <1>3. LockOK' /\ CommandOK' /\ EffectOK'
    BY DEF TunnelEnds, handling, Inv, LockOK, CommandOK, EffectOK
  <1>. QED  BY <1>1, <1>2, <1>3 DEF Inv

LEMMA InvInit == Init => Inv
  <1>. SUFFICES ASSUME Init
                PROVE  Inv
    OBVIOUS
  <1>1. TypeOK
    BY MUAssumption, FS_CardinalityType
       DEF Init, TypeOK, Labels, CLabels, Replies, NoAnswer, Answer, Empty
  <1>2. LockOK
    BY MUAssumption DEF Init, LockOK
  <1>3. CommandOK /\ EffectOK
    BY DEF Init, CommandOK, EffectOK
  <1>4. ClientOK
    BY DEF Init, ClientOK
  <1>. QED  BY <1>1, <1>2, <1>3, <1>4 DEF Inv

LEMMA InvStep == Inv /\ [Next]_vars => Inv'
  <1>. SUFFICES ASSUME Inv, [Next]_vars
                PROVE  Inv'
    OBVIOUS
  <1>1. CASE \E h \in Handlers : Receive(h) \/ HandlerStep(h)
    BY <1>1, ReceiveInv, RefuseInv, LockInv, LockedInv, AddInv, DelInv, ResetInv,
       LoopEndsInv, UnlockInv, RLockLenInv, ReadLenInv, RUnlockLenInv, SendInv
       DEF HandlerStep
  <1>2. CASE \E c \in Clients :
                Come(c) \/ LookUpStep(c) \/ Upgrade(c) \/ UpgradeFails(c)
                \/ AcceptEnds(c) \/ Leave(c)
    BY <1>2, ComeInv, RLockGetInv, ReadGetInv, RUnlockGetInv, UpgradeInv,
       UpgradeFailsInv, AcceptEndsInv, LeaveInv
       DEF LookUpStep
  <1>3. CASE \E c \in Clients, s \in Streams : StreamStep(c, s)
    BY <1>3, AcceptInv, DialInv, DialFailsInv, TunnelEndsInv DEF StreamStep
  <1>4. CASE UNCHANGED vars
    <2>. USE <1>4 DEF vars, handling, serving, Inv
    <2>1. TypeOK'
      BY DEF TypeOK
    <2>2. LockOK' /\ CommandOK'
      BY DEF LockOK, CommandOK
    <2>3. EffectOK'
      BY DEF EffectOK
    <2>4. ClientOK'
      BY DEF ClientOK
    <2>. QED  BY <2>1, <2>2, <2>3, <2>4
  <1>. QED  BY <1>1, <1>2, <1>3, <1>4 DEF Next

\* The invariant that carries the argument holds in every state.
THEOREM Invariance == Spec => []Inv
  BY InvInit, InvStep, PTL DEF Spec

\* The users, the lock, the commands and the connections keep their types.
THEOREM TypeCorrect == Spec => []TypeOK
  <1>1. Inv => TypeOK
    BY DEF Inv
  <1>. QED  BY <1>1, Invariance, PTL

\* The map of users, which Go lets nobody read or write while another writes
\* it: a handler in its loop is the only one that has the map.
MapIsGuarded ==
    \A h \in Handlers : pc[h] = "write" =>
        /\ \A k \in Handlers : pc[k] \notin {"len", "runlock"} /\ (k # h => pc[k] # "write")
        /\ \A c \in Clients : cpc[c] \notin {"get", "runlock"}

\* Whoever has the lock is on its way to giving it back and needs no lock for
\* that: a writer waits for readers at most, a reader for nobody.
HoldersMove ==
    /\ writer # None => writer \in Handlers /\ pc[writer] \in {"drain", "write", "unlock"}
    /\ \A x \in readers :
          \/ x \in Handlers /\ pc[x] \in {"len", "runlock"}
          \/ x \in Clients /\ cpc[x] \in {"get", "runlock"}

\* add, del, reset, len and get use the lock as the map demands, and no return
\* of theirs leaves it locked: the safety half of EveryCommandEnds and
\* EveryLookUpEnds.
THEOREM LockIsUsedRight == Spec => [](MapIsGuarded /\ HoldersMove)
  <1>1. Inv => MapIsGuarded
    <2>. SUFFICES ASSUME Inv, NEW h \in Handlers, pc[h] = "write"
                  PROVE  /\ \A k \in Handlers : /\ pc[k] \notin {"len", "runlock"}
                                                /\ k # h => pc[k] # "write"
                         /\ \A c \in Clients : cpc[c] \notin {"get", "runlock"}
      BY DEF MapIsGuarded
    <2>1. writer = h /\ readers = {}
      BY DEF Inv, LockOK
    <2>. QED  BY <2>1 DEF Inv, LockOK
  <1>2. Inv => HoldersMove
    BY DEF Inv, TypeOK, LockOK, HoldersMove
  <1>. QED  BY <1>1, <1>2, Invariance, PTL

-----------------------------------------------------------------------------
(* MUServer implements UserRegistry.                                       *)

\* The users of the registry: what the writer found, until it unlocks.
users == IF writer = None THEN pathMap ELSE before
Seen == <<users, cmd, answer, want, dst, right>>

\* The registry counts with the same operator.
LEMMA SameCount ==
    /\ G!Cardinality(Paths) = Cardinality(Paths)
    /\ \A map : G!Count(map) = Cardinality({p \in Paths : map[p] # None})
  BY DEF G!Count, G!Cardinality, Cardinality

LEMMA ReceiveRefines ==
    ASSUME Inv, NEW h \in Handlers, Receive(h)
    PROVE  G!Ask(h)
  <1>1. cmd[h] = None
    BY DEF Receive, At, Inv, CommandOK
  <1>. QED  BY <1>1 DEF Receive, serving, G!Ask

LEMMA ObeyRefines ==
    ASSUME Inv, NEW h \in Handlers, Refuse(h) \/ ReadLen(h) \/ Unlock(h)
    PROVE  G!Obey(h)
  <1>1. cmd[h] # None /\ answer[h] = G!NoAnswer
    BY DEF Refuse, ReadLen, Unlock, At, Inv, CommandOK, NoAnswer, Answer, G!NoAnswer, G!Answer
  <1>2. users \in [Paths -> Dsts \cup {None}] /\ users' \in [Paths -> Dsts \cup {None}]
    BY DEF users, Refuse, ReadLen, Unlock, Inv, TypeOK
  <1>3. UNCHANGED <<cmd, want, dst, right>>
    BY DEF Refuse, ReadLen, Unlock, serving
  <1>4. CASE Refuse(h)
    <2>1. users' = users
      BY <1>4 DEF Refuse, users
    <2>2. PICK res \in {"err", "silence"} :
              /\ answer' = [answer EXCEPT ![h] = Answer(res, 0)]
              /\ \/ cmd[h].opt \in {"add", "del"} /\ cmd[h].args = <<>> /\ res = "err"
                 \/ cmd[h].opt = "other" /\ res = "err"
                 \/ cmd[h].opt = "unreadable" /\ res = "silence"
      BY <1>4 DEF Refuse, Answers
    <2>3. G!Obeys(cmd[h], users, users', G!Answer(res, 0))
      BY <2>1, <2>2 DEF G!Obeys
    <2>4. answer' = [answer EXCEPT ![h] = G!Answer(res, 0)]
      BY <2>2 DEF Answer, G!Answer
    <2>. QED  BY <1>1, <1>2, <1>3, <2>2, <2>3, <2>4, CountType, SameCount DEF G!Obey, users
  <1>5. CASE ReadLen(h)
    <2>1. cmd[h].opt = "ping" /\ h \in readers
      BY <1>5 DEF ReadLen, At, Inv, CommandOK, LockOK
    <2>2. users = pathMap /\ users' = users
      <3>1. CASE writer = None
        BY <1>5, <3>1 DEF ReadLen, users
      <3>2. CASE writer # None
        <4>1. writer \in Handlers /\ pc[writer] = "drain"
          BY <2>1, <3>2 DEF Inv, TypeOK, LockOK
        <4>. QED  BY <1>5, <4>1 DEF ReadLen, users, Inv, EffectOK
      <3>. QED  BY <3>1, <3>2
    <2>3. Cardinality(Users) = G!Count(users)
      BY <2>2, SameCount DEF Users
    <2>4. G!Obeys(cmd[h], users, users', G!Answer("ok", Cardinality(Users)))
      BY <2>1, <2>2, <2>3 DEF G!Obeys
    <2>5. answer' = [answer EXCEPT ![h] = G!Answer("ok", Cardinality(Users))]
      BY <1>5 DEF ReadLen, Answers, Answer, G!Answer
    <2>. QED  BY <1>1, <1>2, <1>3, <2>4, <2>5, CountType, SameCount DEF G!Obey, users
  <1>6. CASE Unlock(h)
    <2>1. writer = h /\ pc[h] = "unlock"
      BY <1>6 DEF Unlock, At, Inv, LockOK
    <2>2. users = before /\ users' = pathMap
      BY <1>6, <2>1, MUAssumption DEF Unlock, users
    <2>3. G!Obeys(cmd[h], users, users', G!Answer("ok", 0))
      BY <2>1, <2>2 DEF Inv, CommandOK, EffectOK, Empty, G!Obeys
    <2>4. answer' = [answer EXCEPT ![h] = G!Answer("ok", 0)]
      BY <1>6 DEF Unlock, Answers, Answer, G!Answer
    <2>. QED  BY <1>1, <1>2, <1>3, <2>3, <2>4, CountType, SameCount DEF G!Obey, users
  <1>. QED  BY <1>4, <1>5, <1>6

LEMMA SendRefines ==
    ASSUME Inv, NEW h \in Handlers, Send(h)
    PROVE  G!Reply(h)
  <1>1. answer[h] # G!NoAnswer
    BY DEF Send, At, Inv, CommandOK, NoAnswer, Answer, G!NoAnswer, G!Answer
  <1>. QED  BY <1>1 DEF Send, serving, G!Reply, NoAnswer, Answer, G!NoAnswer, G!Answer

\* The rest of a command is not seen: until it unlocks, a writer's changes are
\* nobody's users.
LEMMA WriterUnseen ==
    ASSUME Inv, NEW h \in Handlers,
           \/ Lock(h) \/ Locked(h) \/ Add(h) \/ Del(h) \/ Reset(h) \/ LoopEnds(h)
           \/ RLockLen(h) \/ RUnlockLen(h)
    PROVE  UNCHANGED Seen
  <1>1. CASE Lock(h)
    BY <1>1 DEF Lock, Seen, users, serving
  <1>2. CASE Add(h) \/ Del(h) \/ Reset(h)
    <2>1. writer = h
      BY <1>2 DEF Add, Del, Reset, At, Inv, LockOK
    <2>. QED  BY <1>2, <2>1, MUAssumption DEF Add, Del, Reset, Seen, users, serving
  <1>3. CASE Locked(h) \/ LoopEnds(h) \/ RLockLen(h) \/ RUnlockLen(h)
    BY <1>3 DEF Locked, LoopEnds, RLockLen, RUnlockLen, Seen, users, serving
  <1>. QED  BY <1>1, <1>2, <1>3

\* A client holds the lock from its look at the map until get returns.
LEMMA LookedUp ==
    ASSUME Inv, NEW c \in Clients, cpc[c] \in {"get", "runlock"}
    PROVE  users = pathMap
  <1>1. c \in readers
    BY DEF Inv, LockOK
  <1>2. CASE writer # None
    <2>1. writer \in Handlers /\ pc[writer] = "drain"
      BY <1>1, <1>2 DEF Inv, TypeOK, LockOK
    <2>. QED  BY <2>1 DEF users, Inv, EffectOK
  <1>. QED  BY <1>2 DEF users

LEMMA LookUpRefines ==
    ASSUME Inv, NEW c \in Clients, LookUpStep(c)
    PROVE  UNCHANGED Seen \/ G!Admit(c) \/ G!Go(c)
  <1>1. CASE RLockGet(c)
    BY <1>1 DEF RLockGet, Seen, users, handling
  <1>2. CASE ReadGet(c)
    <2>1. users = pathMap /\ users' = users
      BY <1>2, LookedUp DEF ReadGet, CAt, users
    <2>2. want[c] # None /\ dst[c] = None
      BY <1>2 DEF ReadGet, CAt, Inv, ClientOK
    <2>3. CASE pathMap[want[c]] = None
      <3>1. dst' = dst
        BY <1>2, <2>2, <2>3 DEF ReadGet, Inv, TypeOK
      <3>. QED  BY <1>2, <2>1, <3>1 DEF ReadGet, Seen, handling
    <2>4. CASE pathMap[want[c]] # None
      BY <1>2, <2>1, <2>2, <2>4 DEF ReadGet, handling, G!Admit, users
    <2>. QED  BY <2>3, <2>4
  <1>3. CASE RUnlockGet(c)
    <2>1. cpc[c] = "runlock" /\ users' = users
      BY <1>3 DEF RUnlockGet, CAt, users
    <2>2. CASE dst[c] # None
      BY <1>3, <2>1, <2>2 DEF RUnlockGet, Seen, handling
    <2>3. CASE dst[c] = None
      <3>1. want[c] # None /\ users[want[c]] = None
        BY <2>1, <2>3, LookedUp DEF Inv, ClientOK
      <3>. QED  BY <1>3, <2>1, <2>3, <3>1 DEF RUnlockGet, Return, handling, G!Go, users
    <2>. QED  BY <2>2, <2>3
  <1>. QED  BY <1>1, <1>2, <1>3 DEF LookUpStep

LEMMA LeaveRefines ==
    ASSUME Inv, NEW c \in Clients, UpgradeFails(c) \/ Leave(c)
    PROVE  G!Go(c)
  <1>1. want[c] # None /\ dst[c] # None
    BY DEF UpgradeFails, Leave, Inv, ClientOK
  <1>2. right[c] = [s \in Streams |-> None]
    BY DEF UpgradeFails, Leave, Inv, ClientOK, TypeOK
  <1>. QED  BY <1>1, <1>2 DEF UpgradeFails, Leave, Return, handling, G!Go

LEMMA StreamRefines ==
    ASSUME Inv, NEW c \in Clients, NEW s \in Streams, StreamStep(c, s)
    PROVE  UNCHANGED Seen \/ G!Connect(c, s) \/ G!Disconnect(c, s)
  <1>1. CASE Accept(c, s) \/ DialFails(c, s)
    BY <1>1 DEF Accept, DialFails, Seen, users, handling
  <1>2. CASE Dial(c, s)
    <2>1. dst[c] # None
      BY <1>2 DEF Dial, Inv, ClientOK
    <2>2. right[c][s] = None
      BY <1>2 DEF Dial, Inv, ClientOK
    <2>. QED  BY <1>2, <2>1, <2>2 DEF Dial, handling, G!Connect
  <1>3. CASE TunnelEnds(c, s)
    BY <1>3 DEF TunnelEnds, handling, G!Disconnect
  <1>. QED  BY <1>1, <1>2, <1>3 DEF StreamStep

LEMMA StepRefines == Inv /\ [Next]_vars => [G!Next]_(G!vars)
  <1>. SUFFICES ASSUME Inv, [Next]_vars
                PROVE  G!Next \/ UNCHANGED Seen
    BY DEF G!vars, Seen, users
  <1>1. CASE \E h \in Handlers : Receive(h) \/ HandlerStep(h)
    BY <1>1, ReceiveRefines, ObeyRefines, SendRefines, WriterUnseen
       DEF HandlerStep, G!Next
  <1>2. CASE \E c \in Clients : Come(c)
    <2>1. PICK c \in Clients : Come(c)
      BY <1>2
    <2>2. G!Come(c)
      BY <2>1 DEF Come, CAt, handling, Inv, ClientOK, G!Come
    <2>. QED  BY <2>2 DEF G!Next
  <1>3. CASE \E c \in Clients : LookUpStep(c)
    BY <1>3, LookUpRefines DEF G!Next
  <1>4. CASE \E c \in Clients : UpgradeFails(c) \/ Leave(c)
    BY <1>4, LeaveRefines DEF G!Next
  <1>5. CASE \E c \in Clients : Upgrade(c) \/ AcceptEnds(c)
    BY <1>5 DEF Upgrade, AcceptEnds, Seen, users, handling
  <1>6. CASE \E c \in Clients, s \in Streams : StreamStep(c, s)
    BY <1>6, StreamRefines DEF G!Next
  <1>7. CASE UNCHANGED vars
    BY <1>7 DEF vars, handling, serving, Seen, users
  <1>. QED  BY <1>1, <1>2, <1>3, <1>4, <1>5, <1>6, <1>7 DEF Next

\* A command takes effect whole and at once, a Ping counts the users of one
\* moment, and a connection keeps the destination it was admitted to.
THEOREM ServerImplementsRegistry == Spec => RegistrySpec
  <1>1. Init => G!Init
    BY DEF Init, G!Init, Empty, NoAnswer, Answer, G!NoAnswer, G!Answer
  <1>2. Inv /\ [Next]_vars => [G!Next]_(G!vars)
    BY StepRefines
  <1>. QED  BY <1>1, <1>2, Invariance, PTL DEF Spec, RegistrySpec, G!Spec
-----------------------------------------------------------------------------
(* What Obeys asks of a command can be done, and in one way only.          *)

\* What an induction over n amounts to: a set of numbers has a least one.
LEMMA LeastOf ==
    ASSUME NEW T \in SUBSET Nat, T # {}
    PROVE  \E x \in T : \A y \in T : x <= y
  <1>. DEFINE less == {ss \in Nat \X Nat : ss[1] < ss[2]}
  <1>1. IsWellFoundedOn(less, Nat)
    BY NatLessThanWellFounded DEF OpToRel
  <1>2. \A x, y \in Nat : y < x => <<y, x>> \in less
    OBVIOUS
  <1>. HIDE DEF less
  <1>3. PICK x \in T : \A y \in T : ~(<<y, x>> \in less)
    BY <1>1, WFMin
  <1>4. \A y \in T : ~(y < x)
    BY <1>2, <1>3
  <1>. QED  BY <1>4

\* Of the entries that name a path there is a last one.
LEMMA GreatestOf ==
    ASSUME NEW n \in Nat, NEW T \in SUBSET (1..n), T # {}
    PROVE  \E x \in T : \A y \in T : y <= x
  <1>. DEFINE after == {n - x : x \in T}
  <1>0. \A x \in T : x \in Nat /\ n - x \in Nat
    OBVIOUS
  <1>1. after \in SUBSET Nat /\ after # {}
    BY <1>0
  <1>2. PICK m \in after : \A d \in after : m <= d
    BY <1>1, LeastOf
  <1>3. PICK x \in T : m = n - x
    BY <1>2
  <1>4. ASSUME NEW y \in T PROVE y <= x
    <2>1. m <= n - y
      BY <1>2
    <2>. QED  BY <1>0, <1>3, <2>1
  <1>. QED  BY <1>4

\* Some map is what a bunch makes of old: the shortest bunch to have none would
\* get one from AppliedStep.
LEMMA AppliedSome ==
    ASSUME NEW k, k.args \in Seq(Entries), NEW old \in [Paths -> Dsts \cup {None}]
    PROVE  \E map \in [Paths -> Dsts \cup {None}] : G!Applied(k, Len(k.args), old, map)
  <1>. DEFINE maps == [Paths -> Dsts \cup {None}]
              bad == {n \in 0..Len(k.args) : \A map \in maps : ~G!Applied(k, n, old, map)}
  <1>0. Len(k.args) \in Nat
    OBVIOUS
  <1>1. SUFFICES ASSUME bad # {} PROVE FALSE
    BY <1>0
  <1>2. bad \in SUBSET Nat
    OBVIOUS
  <1>3. PICK n \in bad : \A m \in bad : n <= m
    BY <1>1, <1>2, LeastOf
  <1>4. n # 0
    <2>1. G!Applied(k, 0, old, old)
      BY DEF G!Applied
    <2>. QED  BY <2>1, <1>3
  <1>5. n \in 1..Len(k.args) /\ n - 1 \in 0..Len(k.args) /\ n - 1 \notin bad
    BY <1>3, <1>4
  <1>6. PICK map \in maps : G!Applied(k, n - 1, old, map)
    BY <1>5
  <1>7. G!Applied(k, n, old, [map EXCEPT ![k.args[n].path] = G!Value(k, n)])
    BY <1>5, <1>6, AppliedStep
  <1>8. G!Value(k, n) \in Dsts \cup {None}
    <2>1. k.args[n] \in Entries
      BY <1>5
    <2>. QED  BY <2>1 DEF G!Value, Entries
  <1>. QED  BY <1>3, <1>6, <1>7, <1>8

\* And only one: each path has what the last entry that names it says.
LEMMA AppliedOne ==
    ASSUME NEW k, NEW n \in Nat, NEW old,
           NEW map1 \in [Paths -> Dsts \cup {None}], G!Applied(k, n, old, map1),
           NEW map2 \in [Paths -> Dsts \cup {None}], G!Applied(k, n, old, map2)
    PROVE  map1 = map2
  <1>. SUFFICES ASSUME NEW p \in Paths PROVE map1[p] = map2[p]
    OBVIOUS
  <1>1. CASE \A i \in 1..n : k.args[i].path # p
    BY <1>1 DEF G!Applied
  <1>2. ASSUME NEW i \in 1..n, k.args[i].path = p
        PROVE  map1[p] = map2[p]
    <2>. DEFINE named == {j \in 1..n : k.args[j].path = p}
    <2>3. named \in SUBSET (1..n) /\ named # {}
      BY <1>2
    <2>. HIDE DEF named
    <2>4. PICK l \in named : \A j \in named : j <= l
      BY <2>3, GreatestOf
    <2>. USE DEF named
    <2>1. l \in 1..n /\ k.args[l].path = p /\ \A j \in l+1..n : k.args[j].path # p
      BY <2>4
    <2>2. map1[p] = G!Value(k, l) /\ map2[p] = G!Value(k, l)
      BY <2>1 DEF G!Applied
    <2>. QED  BY <2>2
  <1>. QED  BY <1>1, <1>2

\* Whatever the users were and whatever a bunch repeats, a command has one
\* effect and one answer: Obeys, by which ServerImplementsRegistry is stated, is
\* never impossible and leaves nothing open of what add, del, reset and ServeHTTP
\* are to do.
THEOREM EveryCommandHasOneEffect ==
    ASSUME NEW k \in Commands, NEW old \in [Paths -> Dsts \cup {None}]
    PROVE  \E new \in [Paths -> Dsts \cup {None}] : \E reply :
              \A map \in [Paths -> Dsts \cup {None}] : \A r :
                 G!Obeys(k, old, map, r) <=> map = new /\ r = reply
  <1>1. k.opt \in Opts /\ k.args \in Seq(Entries)
    BY MUAssumption
  <1>2. CASE k.opt \in {"add", "del"} /\ k.args # <<>>
    <2>1. \A map, r : G!Obeys(k, old, map, r) <=>
              G!Applied(k, Len(k.args), old, map) /\ r = G!Answer("ok", 0)
      BY <1>2 DEF G!Obeys
    <2>2. PICK new \in [Paths -> Dsts \cup {None}] : G!Applied(k, Len(k.args), old, new)
      BY <1>1, AppliedSome
    <2>3. \A map \in [Paths -> Dsts \cup {None}] :
              G!Applied(k, Len(k.args), old, map) <=> map = new
      <3>1. Len(k.args) \in Nat
        BY <1>1
      <3>. QED  BY <3>1, <2>2, AppliedOne
    <2>4. \A map \in [Paths -> Dsts \cup {None}] : \A r :
              G!Obeys(k, old, map, r) <=> map = new /\ r = G!Answer("ok", 0)
      BY <2>1, <2>3
    <2>. QED  BY <2>4
  <1>3. CASE k.opt \in {"add", "del"} /\ k.args = <<>>
    <2>1. \A map, r : G!Obeys(k, old, map, r) <=> map = old /\ r = G!Answer("err", 0)
      BY <1>3 DEF G!Obeys
    <2>. QED  BY <2>1
  <1>4. CASE k.opt = "reset"
    <2>1. \A map, r : G!Obeys(k, old, map, r) <=> map = Empty /\ r = G!Answer("ok", 0)
      BY <1>4 DEF G!Obeys, Empty
    <2>2. Empty \in [Paths -> Dsts \cup {None}]
      BY DEF Empty
    <2>. QED  BY <2>1, <2>2
  <1>5. CASE k.opt = "ping"
    <2>1. \A map, r : G!Obeys(k, old, map, r) <=>
              map = old /\ r = G!Answer("ok", G!Count(old))
      BY <1>5 DEF G!Obeys
    <2>. QED  BY <2>1
  <1>6. CASE k.opt = "other"
    <2>1. \A map, r : G!Obeys(k, old, map, r) <=> map = old /\ r = G!Answer("err", 0)
      BY <1>6 DEF G!Obeys
    <2>. QED  BY <2>1
  <1>7. CASE k.opt = "unreadable"
    <2>1. \A map, r : G!Obeys(k, old, map, r) <=> map = old /\ r = G!Answer("silence", 0)
      BY <1>7 DEF G!Obeys
    <2>. QED  BY <2>1
  <1>. QED  BY <1>1, <1>2, <1>3, <1>4, <1>5, <1>6, <1>7 DEF Opts
-----------------------------------------------------------------------------
(* The connections of the users.                                           *)

\* A stream is connected to what get returned for its connection.
RightIsRoute == \A c \in Clients : \A s \in Streams : right[c][s] \in {None, dst[c]}

\* What get returned to a connection is replaced by nothing, whatever the
\* controller does, and given up when its last stream has been.
RouteStays ==
    \A c \in Clients : dst[c] # None =>
        \/ dst'[c] = dst[c]
        \/ dst'[c] = None /\ \A s \in Streams : right[c][s] = None

LEMMA RightIsRouteStep ==
    ASSUME Inv, RightIsRoute, [Next]_vars
    PROVE  RightIsRoute'
  <1>1. CASE \E h \in Handlers : Receive(h) \/ HandlerStep(h)
    <2>1. UNCHANGED <<dst, right>>
      BY <1>1 DEF Receive, HandlerStep, Refuse, Lock, Locked, Add, Del, Reset, LoopEnds,
                  Unlock, RLockLen, ReadLen, RUnlockLen, Send, serving
    <2>. QED  BY <2>1 DEF RightIsRoute
  <1>2. CASE \E c \in Clients :
                Come(c) \/ RLockGet(c) \/ Upgrade(c) \/ AcceptEnds(c)
    <2>1. UNCHANGED <<dst, right>>
      BY <1>2 DEF Come, RLockGet, Upgrade, AcceptEnds
    <2>. QED  BY <2>1 DEF RightIsRoute
  <1>3. CASE \E c \in Clients : ReadGet(c) \/ RUnlockGet(c) \/ UpgradeFails(c) \/ Leave(c)
    <2>1. PICK c \in Clients : ReadGet(c) \/ RUnlockGet(c) \/ UpgradeFails(c) \/ Leave(c)
      BY <1>3
    <2>2. /\ right' = right /\ \A s \in Streams : right[c][s] = None
          /\ \A d \in Clients : d # c => dst'[d] = dst[d]
      BY <2>1 DEF ReadGet, RUnlockGet, UpgradeFails, Leave, Return, CAt, Inv, TypeOK, ClientOK
    <2>. QED  BY <2>2 DEF RightIsRoute
  <1>4. CASE \E c \in Clients, s \in Streams : StreamStep(c, s)
    <2>1. dst' = dst
      BY <1>4 DEF StreamStep, Accept, Dial, DialFails, TunnelEnds
    <2>2. \A c \in Clients, s \in Streams : right'[c][s] \in {right[c][s], None, dst[c]}
      BY <1>4 DEF StreamStep, Accept, Dial, DialFails, TunnelEnds, Inv, TypeOK
    <2>. QED  BY <2>1, <2>2 DEF RightIsRoute
  <1>5. CASE UNCHANGED vars
    BY <1>5 DEF vars, serving, RightIsRoute
  <1>. QED  BY <1>1, <1>2, <1>3, <1>4, <1>5 DEF Next, LookUpStep

LEMMA RouteStaysStep ==
    ASSUME Inv, [Next]_vars
    PROVE  RouteStays \/ UNCHANGED vars
  <1>1. CASE \E h \in Handlers : Receive(h) \/ HandlerStep(h)
    <2>1. dst' = dst
      BY <1>1 DEF Receive, HandlerStep, Refuse, Lock, Locked, Add, Del, Reset, LoopEnds,
                  Unlock, RLockLen, ReadLen, RUnlockLen, Send, serving
    <2>. QED  BY <2>1 DEF RouteStays
  <1>2. CASE \E c \in Clients :
                \/ Come(c) \/ RLockGet(c) \/ Upgrade(c) \/ AcceptEnds(c)
                \/ \E s \in Streams : StreamStep(c, s)
    <2>1. dst' = dst
      BY <1>2 DEF Come, RLockGet, Upgrade, AcceptEnds,
                  StreamStep, Accept, Dial, DialFails, TunnelEnds
    <2>. QED  BY <2>1 DEF RouteStays
  <1>3. CASE \E c \in Clients : ReadGet(c)
    <2>1. PICK c \in Clients : ReadGet(c)
      BY <1>3
    <2>2. dst[c] = None /\ \A d \in Clients : d # c => dst'[d] = dst[d]
      BY <2>1 DEF ReadGet, CAt, Inv, TypeOK, ClientOK
    <2>. QED  BY <2>2 DEF RouteStays
  <1>4. CASE \E c \in Clients : RUnlockGet(c) \/ UpgradeFails(c) \/ Leave(c)
    <2>1. PICK c \in Clients : RUnlockGet(c) \/ UpgradeFails(c) \/ Leave(c)
      BY <1>4
    <2>2. /\ \A s \in Streams : right[c][s] = None
          /\ dst'[c] \in {dst[c], None} /\ \A d \in Clients : d # c => dst'[d] = dst[d]
      BY <2>1 DEF RUnlockGet, UpgradeFails, Leave, Return, CAt, Inv, TypeOK, ClientOK
    <2>. QED  BY <2>2 DEF RouteStays
  <1>. QED  BY <1>1, <1>2, <1>3, <1>4 DEF Next, LookUpStep

\* "Changing or deleting a user does not affect the user's established
\* connection": handleClientConn and handleClientMuxConn connect every stream to
\* what get once returned, and nothing the controller does changes that.
THEOREM ConnectionsOutliveUsers == Spec => []RightIsRoute /\ [][RouteStays]_vars
  <1>1. Init => RightIsRoute
    BY DEF Init, RightIsRoute
  <1>2. Inv /\ RightIsRoute /\ [Next]_vars => RightIsRoute'
    BY RightIsRouteStep
  <1>3. Inv /\ [Next]_vars => [RouteStays]_vars
    BY RouteStaysStep
  <1>. QED  BY <1>1, <1>2, <1>3, Invariance, PTL DEF Spec
=============================================================================
