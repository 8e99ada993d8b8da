--------------------------- MODULE MuxPoolProofs ---------------------------
(***************************************************************************)
(* What module MuxPool promises, for any number of callers and sessions.   *)
(* The argument: only the holder of a session's mutex adds a stream to it  *)
(* or closes it, so what the holder has counted stays true until it acts;  *)
(* and a stream leaves the map before the last of its closers tries to     *)
(* close the session.                                                      *)
(***************************************************************************)
EXTENDS MuxPool, FiniteSetTheorems, TLAPS

Closed == {"retired", "lost"}

\* Who counts the streams of a session holds its mutex until it has acted.
MutexOK ==
    /\ \A c \in Callers : pc[c] \in {"count", "syn"} => mu[sess[c]] = Opening(c)
    /\ \A p \in Closes : closer[p] \in {"check", "end"} => mu[sess[Of(p)]] = Closing(p)

\* The Closes run while their caller closes, the deferred one last.
CloserOK ==
    \A p \in Closes :
        /\ pc[Of(p)] # "closing" => closer[p] = "wait"
        /\ p # Last(Of(p)) =>
              /\ pc[Of(p)] = "closing" => closer[p] # "wait"
              /\ closer[Last(Of(p))] # "wait" => closer[p] = "done"

\* A session in use or in the pool is one that was dialled.
NamedOK ==
    /\ \A s \in pool : session[s] # "free"
    /\ \A c \in Callers : sess[c] \in Sessions => session[sess[c]] # "free"

\* A stream belongs to a caller that uses or closes it, unless its session
\* was lost; while it is there, nobody has taken it off yet.
PlacesOK ==
    \A s \in Sessions : \A c \in places[s] :
        \/ session[s] = "lost"
        \/ /\ session[s] \in {"up", "failing"}
           /\ sess[c] = s
           /\ \/ pc[c] = "using"
              \/ /\ pc[c] = "closing"
                 /\ \/ \A p \in Closes : Of(p) = c => closer[p] \in {"wait", "close"}
                    \/ \E p \in Closes : Of(p) = c /\ closer[p] = "fin"

UsersOK == \A c \in Callers : pc[c] = "using" => c \in places[sess[c]]

\* What openStream has counted under the mutex.
RoomOK ==
    \A c \in Callers :
        pc[c] = "syn" /\ session[sess[c]] = "up" => Cardinality(places[sess[c]]) < Limit

\* What tryCloseOnIdle has counted under the mutex.
EndOK ==
    \A p \in Closes :
        closer[p] = "end" => session[sess[Of(p)]] \in Closed \/ places[sess[Of(p)]] = {}

\* Only a session that failed is deleted from the pool.
DeleteOK == \A c \in Callers : pc[c] = "delete" => session[sess[c]] # "up"

Inv ==
    /\ TypeOK /\ MutexOK /\ CloserOK /\ NamedOK /\ PlacesOK /\ UsersOK
    /\ RoomOK /\ EndOK /\ DeleteOK /\ StreamLimit /\ NoIdleLeak /\ WorkingInPool

-----------------------------------------------------------------------------
(* The invariant is inductive: one lemma per action, one step per part.    *)

USE DEF At, CloserAt

\* The mutex tells its owners apart.
LEMMA OwnersDiffer ==
    /\ Nobody \in Owners
    /\ \A c \in Callers : Opening(c) \in Owners /\ Opening(c) # Nobody
    /\ \A p \in Closes : Closing(p) \in Owners /\ Closing(p) # Nobody
    /\ \A c, c2 \in Callers : Opening(c) = Opening(c2) => c = c2
    /\ \A c \in Callers, p \in Closes : Opening(c) # Closing(p)
    /\ \A p, p2 \in Closes : Closing(p) = Closing(p2) => p = p2
  <1>1. \A c \in Callers, p \in Closes : Opening(c) # Closing(p)
    BY DEF Opening, Closing
  <1>2. \A c \in Callers : Opening(c) # Nobody
    BY DEF Opening, Nobody
  <1>3. \A p \in Closes : Closing(p) # Nobody
    BY DEF Closing, Nobody
  <1>. QED  BY <1>1, <1>2, <1>3 DEF Owners, Opening, Closing

\* Every Close is one of its caller's, whose deferred one is among them.
LEMMA ClosesOf ==
    /\ \A p \in Closes : Of(p) \in Callers
    /\ \A c \in Callers : Last(c) \in Closes /\ Of(Last(c)) = c
  BY DEF Closes, Of, Last

\* Sets of callers can be counted.
LEMMA Counting ==
    ASSUME NEW S \in SUBSET Callers
    PROVE  /\ IsFiniteSet(S)
           /\ Cardinality(S) \in Nat
           /\ Cardinality(S) = 0 <=> S = {}
           /\ \A c \in Callers : Cardinality(S \cup {c}) <= Cardinality(S) + 1
           /\ \A c \in Callers : Cardinality(S \ {c}) <= Cardinality(S)
  <1>1. IsFiniteSet(S)
    BY PoolAssumption, FS_Subset
  <1>2. Cardinality(S) \in Nat /\ (Cardinality(S) = 0 <=> S = {})
    BY <1>1, FS_CardinalityType, FS_EmptySet
  <1>3. \A c \in Callers : Cardinality(S \cup {c}) <= Cardinality(S) + 1
    BY <1>1, <1>2, FS_AddElement
  <1>4. \A c \in Callers : Cardinality(S \ {c}) <= Cardinality(S)
    <2>. SUFFICES ASSUME NEW c \in Callers
                  PROVE  Cardinality(S \ {c}) <= Cardinality(S)
      OBVIOUS
    <2>1. CASE c \in S
      <3>1. Cardinality(S \ {c}) = Cardinality(S) - 1
        BY <1>1, <2>1, FS_RemoveElement
      <3>. QED  BY <1>2, <3>1
    <2>2. CASE c \notin S
      <3>1. S \ {c} = S
        BY <2>2
      <3>. QED  BY <1>2, <3>1
    <2>. QED  BY <2>1, <2>2
  <1>. QED  BY <1>1, <1>2, <1>3, <1>4

LEMMA BreakKeeps ==
    ASSUME Inv, NEW s \in Sessions, Break(s)
    PROVE  Inv'
  <1>. USE DEF Inv, Break
  <1>1. TypeOK'
    BY DEF TypeOK, Status
  <1>2. MutexOK'
    BY DEF MutexOK
  <1>3. CloserOK'
    BY DEF CloserOK
  <1>4. NamedOK'
    BY DEF NamedOK
  <1>5. PlacesOK'
    BY DEF PlacesOK
  <1>6. UsersOK'
    BY DEF UsersOK
  <1>7. RoomOK'
    BY DEF RoomOK
  <1>8. EndOK'
    BY ClosesOf DEF EndOK, Closed
  <1>9. DeleteOK'
    BY DEF DeleteOK
  <1>10. StreamLimit'
    BY DEF StreamLimit
  <1>11. NoIdleLeak'
    BY DEF NoIdleLeak, InHand
  <1>12. WorkingInPool'
    BY DEF WorkingInPool
  <1>. QED
    BY <1>1, <1>2, <1>3, <1>4, <1>5, <1>6, <1>7, <1>8, <1>9, <1>10, <1>11, <1>12

LEMMA KeepaliveCloseKeeps ==
    ASSUME Inv, NEW s \in Sessions, KeepaliveClose(s)
    PROVE  Inv'
  <1>. USE DEF Inv, KeepaliveClose
  <1>1. TypeOK'
    BY DEF TypeOK, Status
  <1>2. MutexOK'
    BY DEF MutexOK
  <1>3. CloserOK'
    BY DEF CloserOK
  <1>4. NamedOK'
    BY DEF NamedOK
  <1>5. PlacesOK'
    BY DEF PlacesOK
  <1>6. UsersOK'
    BY DEF UsersOK
  <1>7. RoomOK'
    BY DEF RoomOK
  <1>8. EndOK'
    BY DEF EndOK, Closed
  <1>9. DeleteOK'
    BY DEF DeleteOK
  <1>10. StreamLimit'
    BY DEF StreamLimit
  <1>11. NoIdleLeak'
    BY DEF NoIdleLeak, InHand
  <1>12. WorkingInPool'
    BY DEF WorkingInPool
  <1>. QED
    BY <1>1, <1>2, <1>3, <1>4, <1>5, <1>6, <1>7, <1>8, <1>9, <1>10, <1>11, <1>12

LEMMA ArriveKeeps ==
    ASSUME Inv, NEW c \in Callers, Arrive(c)
    PROVE  Inv'
  <1>. USE DEF Inv, Arrive
  <1>1. TypeOK'
    BY DEF TypeOK, Labels, Working
  <1>2. MutexOK'
    BY DEF MutexOK
  <1>3. CloserOK'
    BY DEF CloserOK
  <1>4. NamedOK'
    BY DEF NamedOK
  <1>5. PlacesOK'
    BY DEF PlacesOK
  <1>6. UsersOK'
    BY DEF UsersOK
  <1>7. RoomOK'
    BY DEF RoomOK
  <1>8. EndOK'
    BY DEF EndOK
  <1>9. DeleteOK'
    BY DEF DeleteOK
  <1>10. StreamLimit'
    BY DEF StreamLimit
  <1>11. NoIdleLeak'
    BY DEF NoIdleLeak, InHand
  <1>12. WorkingInPool'
    BY DEF WorkingInPool
  <1>. QED
    BY <1>1, <1>2, <1>3, <1>4, <1>5, <1>6, <1>7, <1>8, <1>9, <1>10, <1>11, <1>12

LEMMA VisitKeeps ==
    ASSUME Inv, NEW c \in Callers, NEW s \in Sessions, Visit(c, s)
    PROVE  Inv'
  <1>. USE DEF Inv, Visit, IsClosed
  <1>1. TypeOK'
    BY DEF TypeOK, Labels, Working
  <1>2. MutexOK'
    BY DEF MutexOK, CloserOK
  <1>3. CloserOK'
    BY DEF CloserOK
  <1>4. NamedOK'
    BY DEF NamedOK
  <1>5. PlacesOK'
    BY DEF PlacesOK
  <1>6. UsersOK'
    BY DEF UsersOK
  <1>7. RoomOK'
    BY DEF RoomOK
  <1>8. EndOK'
    BY DEF CloserOK, EndOK
  <1>9. DeleteOK'
    BY DEF DeleteOK
  <1>10. StreamLimit'
    BY DEF StreamLimit
  <1>11. NoIdleLeak'
    BY DEF NoIdleLeak, InHand
  <1>12. WorkingInPool'
    BY DEF WorkingInPool
  <1>. QED
    BY <1>1, <1>2, <1>3, <1>4, <1>5, <1>6, <1>7, <1>8, <1>9, <1>10, <1>11, <1>12

LEMMA PurgeKeeps ==
    ASSUME Inv, NEW c \in Callers, NEW s \in Sessions, Purge(c, s)
    PROVE  Inv'
  <1>. USE DEF Inv, Purge, IsClosed
  <1>1. TypeOK'
    BY DEF TypeOK
  <1>2. MutexOK'
    BY DEF MutexOK
  <1>3. CloserOK'
    BY DEF CloserOK
  <1>4. NamedOK'
    BY DEF NamedOK
  <1>5. PlacesOK'
    BY DEF PlacesOK
  <1>6. UsersOK'
    BY DEF UsersOK
  <1>7. RoomOK'
    BY DEF RoomOK
  <1>8. EndOK'
    BY DEF EndOK
  <1>9. DeleteOK'
    BY DEF DeleteOK
  <1>10. StreamLimit'
    BY DEF StreamLimit
  <1>11. NoIdleLeak'
    BY DEF NoIdleLeak, InHand
  <1>12. WorkingInPool'
    BY DEF WorkingInPool
  <1>. QED
    BY <1>1, <1>2, <1>3, <1>4, <1>5, <1>6, <1>7, <1>8, <1>9, <1>10, <1>11, <1>12

LEMMA RangeEndsKeeps ==
    ASSUME Inv, NEW c \in Callers, RangeEnds(c)
    PROVE  Inv'
  <1>. USE DEF Inv, RangeEnds
  <1>1. TypeOK'
    BY DEF TypeOK, Labels, Working
  <1>2. MutexOK'
    BY DEF MutexOK
  <1>3. CloserOK'
    BY DEF CloserOK
  <1>4. NamedOK'
    BY DEF NamedOK
  <1>5. PlacesOK'
    BY DEF PlacesOK
  <1>6. UsersOK'
    BY DEF UsersOK
  <1>7. RoomOK'
    BY DEF RoomOK
  <1>8. EndOK'
    BY DEF EndOK
  <1>9. DeleteOK'
    BY DEF DeleteOK
  <1>10. StreamLimit'
    BY DEF StreamLimit
  <1>11. NoIdleLeak'
    BY DEF NoIdleLeak, InHand
  <1>12. WorkingInPool'
    BY DEF WorkingInPool
  <1>. QED
    BY <1>1, <1>2, <1>3, <1>4, <1>5, <1>6, <1>7, <1>8, <1>9, <1>10, <1>11, <1>12

LEMMA DialKeeps ==
    ASSUME Inv, NEW c \in Callers, NEW s \in Sessions, Dial(c, s)
    PROVE  Inv'
  <1>. USE DEF Inv, Dial, Unused, IsClosed
  <1>1. TypeOK'
    BY DEF TypeOK, Labels, Working, Status
  <1>2. MutexOK'
    BY DEF MutexOK, CloserOK
  <1>3. CloserOK'
    BY DEF CloserOK
  <1>4. NamedOK'
    BY DEF TypeOK, NamedOK
  <1>5. PlacesOK'
    BY DEF TypeOK, PlacesOK
  <1>6. UsersOK'
    BY DEF UsersOK
  <1>7. RoomOK'
    BY DEF RoomOK
  <1>8. EndOK'
    BY ClosesOf DEF CloserOK, EndOK
  <1>9. DeleteOK'
    BY DEF DeleteOK
  <1>10. StreamLimit'
    BY FS_EmptySet, PoolAssumption DEF StreamLimit
  <1>11. NoIdleLeak'
    BY DEF TypeOK, NoIdleLeak, InHand
  <1>12. WorkingInPool'
    BY DEF TypeOK, WorkingInPool
  <1>. QED
    BY <1>1, <1>2, <1>3, <1>4, <1>5, <1>6, <1>7, <1>8, <1>9, <1>10, <1>11, <1>12

LEMMA DialFailsKeeps ==
    ASSUME Inv, NEW c \in Callers, DialFails(c)
    PROVE  Inv'
  <1>. USE DEF Inv, DialFails
  <1>1. TypeOK'
    BY DEF TypeOK, Labels, Working
  <1>2. MutexOK'
    BY DEF MutexOK
  <1>3. CloserOK'
    BY DEF CloserOK
  <1>4. NamedOK'
    BY DEF NamedOK
  <1>5. PlacesOK'
    BY DEF PlacesOK
  <1>6. UsersOK'
    BY DEF UsersOK
  <1>7. RoomOK'
    BY DEF RoomOK
  <1>8. EndOK'
    BY DEF EndOK
  <1>9. DeleteOK'
    BY DEF DeleteOK
  <1>10. StreamLimit'
    BY DEF StreamLimit
  <1>11. NoIdleLeak'
    BY DEF NoIdleLeak, InHand
  <1>12. WorkingInPool'
    BY DEF WorkingInPool
  <1>. QED
    BY <1>1, <1>2, <1>3, <1>4, <1>5, <1>6, <1>7, <1>8, <1>9, <1>10, <1>11, <1>12

LEMMA StoreKeeps ==
    ASSUME Inv, NEW c \in Callers, Store(c)
    PROVE  Inv'
  <1>. USE DEF Inv, Store
  <1>1. TypeOK'
    BY DEF TypeOK, Labels, Working
  <1>2. MutexOK'
    BY DEF MutexOK
  <1>3. CloserOK'
    BY DEF CloserOK
  <1>4. NamedOK'
    BY DEF TypeOK, NamedOK, Working
  <1>5. PlacesOK'
    BY DEF PlacesOK
  <1>6. UsersOK'
    BY DEF UsersOK
  <1>7. RoomOK'
    BY DEF RoomOK
  <1>8. EndOK'
    BY DEF EndOK
  <1>9. DeleteOK'
    BY DEF DeleteOK
  <1>10. StreamLimit'
    BY DEF StreamLimit
  <1>11. NoIdleLeak'
    BY DEF NoIdleLeak, InHand
  <1>12. WorkingInPool'
    BY DEF WorkingInPool
  <1>. QED
    BY <1>1, <1>2, <1>3, <1>4, <1>5, <1>6, <1>7, <1>8, <1>9, <1>10, <1>11, <1>12

LEMMA LockKeeps ==
    ASSUME Inv, NEW c \in Callers, Lock(c)
    PROVE  Inv'
  <1>. USE DEF Inv, Lock
  <1>1. TypeOK'
    BY OwnersDiffer DEF TypeOK, Labels, Working
  <1>2. MutexOK'
    BY OwnersDiffer DEF TypeOK, MutexOK, Working
  <1>3. CloserOK'
    BY DEF CloserOK
  <1>4. NamedOK'
    BY DEF NamedOK
  <1>5. PlacesOK'
    BY DEF PlacesOK
  <1>6. UsersOK'
    BY DEF UsersOK
  <1>7. RoomOK'
    BY DEF RoomOK
  <1>8. EndOK'
    BY DEF EndOK
  <1>9. DeleteOK'
    BY DEF DeleteOK
  <1>10. StreamLimit'
    BY DEF StreamLimit
  <1>11. NoIdleLeak'
    BY DEF NoIdleLeak, InHand
  <1>12. WorkingInPool'
    BY DEF WorkingInPool
  <1>. QED
    BY <1>1, <1>2, <1>3, <1>4, <1>5, <1>6, <1>7, <1>8, <1>9, <1>10, <1>11, <1>12

LEMMA TooManyKeeps ==
    ASSUME Inv, NEW c \in Callers, TooMany(c)
    PROVE  Inv'
  <1>. USE DEF Inv, TooMany, NumStreams, IsClosed
  <1>1. TypeOK'
    BY OwnersDiffer DEF TypeOK, Labels, Working
  <1>2. MutexOK'
    BY OwnersDiffer DEF TypeOK, MutexOK
  <1>3. CloserOK'
    BY DEF CloserOK
  <1>4. NamedOK'
    BY PoolAssumption DEF NamedOK
  <1>5. PlacesOK'
    BY DEF PlacesOK
  <1>6. UsersOK'
    BY DEF UsersOK
  <1>7. RoomOK'
    BY DEF RoomOK
  <1>8. EndOK'
    BY OwnersDiffer DEF CloserOK, EndOK
  <1>9. DeleteOK'
    BY DEF DeleteOK
  <1>10. StreamLimit'
    BY DEF StreamLimit
  <1>11. NoIdleLeak'
    <2>. SUFFICES ASSUME NEW s \in Sessions, session'[s] = "up", places'[s] = {}
                  PROVE  \E c2 \in Callers : InHand(c2, s)'
      BY DEF NoIdleLeak
    <2>1. NumStreams(sess[c]) # 0 /\ sess[c] \in Sessions
      BY PoolAssumption DEF TypeOK, Working
    <2>2. places[sess[c]] # {}
      BY <2>1, Counting
    <2>3. PICK c2 \in Callers : InHand(c2, s)
      BY DEF NoIdleLeak
    <2>4. c2 # c
      BY <2>2, <2>3 DEF InHand
    <2>. QED  BY <2>3, <2>4 DEF InHand
  <1>12. WorkingInPool'
    BY DEF WorkingInPool
  <1>. QED
    BY <1>1, <1>2, <1>3, <1>4, <1>5, <1>6, <1>7, <1>8, <1>9, <1>10, <1>11, <1>12

LEMMA RefuseKeeps ==
    ASSUME Inv, NEW c \in Callers, Refuse(c)
    PROVE  Inv'
  <1>. USE DEF Inv, Refuse, NumStreams, IsClosed
  <1>1. TypeOK'
    BY OwnersDiffer DEF TypeOK, Labels, Working
  <1>2. MutexOK'
    BY OwnersDiffer DEF TypeOK, MutexOK
  <1>3. CloserOK'
    BY DEF CloserOK
  <1>4. NamedOK'
    BY DEF NamedOK
  <1>5. PlacesOK'
    BY DEF PlacesOK
  <1>6. UsersOK'
    BY DEF UsersOK
  <1>7. RoomOK'
    BY DEF RoomOK
  <1>8. EndOK'
    BY DEF EndOK
  <1>9. DeleteOK'
    BY DEF DeleteOK
  <1>10. StreamLimit'
    BY DEF StreamLimit
  <1>11. NoIdleLeak'
    <2>. SUFFICES ASSUME NEW s \in Sessions, session'[s] = "up", places'[s] = {}
                  PROVE  \E c2 \in Callers : InHand(c2, s)'
      BY DEF NoIdleLeak
    <2>1. NumStreams(sess[c]) # 0 /\ sess[c] \in Sessions
      BY PoolAssumption DEF TypeOK, Working
    <2>2. places[sess[c]] # {}
      BY <2>1, Counting
    <2>3. PICK c2 \in Callers : InHand(c2, s)
      BY DEF NoIdleLeak
    <2>4. c2 # c
      BY <2>2, <2>3 DEF InHand
    <2>. QED  BY <2>3, <2>4 DEF InHand
  <1>12. WorkingInPool'
    BY DEF WorkingInPool
  <1>. QED
    BY <1>1, <1>2, <1>3, <1>4, <1>5, <1>6, <1>7, <1>8, <1>9, <1>10, <1>11, <1>12

LEMMA RoomKeeps ==
    ASSUME Inv, NEW c \in Callers, Room(c)
    PROVE  Inv'
  <1>. USE DEF Inv, Room, NumStreams, IsClosed
  <1>1. TypeOK'
    BY DEF TypeOK, Labels, Working
  <1>2. MutexOK'
    BY DEF MutexOK
  <1>3. CloserOK'
    BY DEF CloserOK
  <1>4. NamedOK'
    BY DEF NamedOK
  <1>5. PlacesOK'
    BY DEF PlacesOK
  <1>6. UsersOK'
    BY DEF UsersOK
  <1>7. RoomOK'
    BY DEF RoomOK
  <1>8. EndOK'
    BY DEF EndOK
  <1>9. DeleteOK'
    BY DEF DeleteOK
  <1>10. StreamLimit'
    BY DEF StreamLimit
  <1>11. NoIdleLeak'
    BY DEF NoIdleLeak, InHand
  <1>12. WorkingInPool'
    BY DEF WorkingInPool
  <1>. QED
    BY <1>1, <1>2, <1>3, <1>4, <1>5, <1>6, <1>7, <1>8, <1>9, <1>10, <1>11, <1>12

LEMMA OpenStreamKeeps ==
    ASSUME Inv, NEW c \in Callers, OpenStream(c)
    PROVE  Inv'
  <1>. USE DEF Inv, OpenStream
  <1>1. TypeOK'
    BY OwnersDiffer DEF TypeOK, Labels, Working
  <1>2. MutexOK'
    BY OwnersDiffer DEF TypeOK, MutexOK
  <1>3. CloserOK'
    BY DEF CloserOK
  <1>4. NamedOK'
    BY DEF NamedOK
  <1>5. PlacesOK'
    BY DEF TypeOK, PlacesOK
  <1>6. UsersOK'
    BY DEF TypeOK, UsersOK, Working
  <1>7. RoomOK'
    BY OwnersDiffer DEF TypeOK, MutexOK, RoomOK
  <1>8. EndOK'
    BY OwnersDiffer DEF MutexOK, EndOK
  <1>9. DeleteOK'
    BY DEF DeleteOK
  <1>10. StreamLimit'
    <2>1. sess[c] \in Sessions /\ Cardinality(places[sess[c]]) < Limit
      BY DEF TypeOK, Working, RoomOK
    <2>2. Cardinality(places[sess[c]] \cup {c}) <= Limit
      BY <2>1, Counting, PoolAssumption DEF TypeOK
    <2>. QED  BY <2>1, <2>2 DEF StreamLimit
  <1>11. NoIdleLeak'
    <2>. SUFFICES ASSUME NEW s \in Sessions, session'[s] = "up", places'[s] = {}
                  PROVE  \E c2 \in Callers : InHand(c2, s)'
      BY DEF NoIdleLeak
    <2>1. s # sess[c]
      BY DEF TypeOK
    <2>2. PICK c2 \in Callers : InHand(c2, s)
      BY <2>1 DEF NoIdleLeak
    <2>3. c2 # c
      BY <2>1, <2>2 DEF InHand
    <2>. QED  BY <2>2, <2>3 DEF InHand
  <1>12. WorkingInPool'
    BY DEF WorkingInPool
  <1>. QED
    BY <1>1, <1>2, <1>3, <1>4, <1>5, <1>6, <1>7, <1>8, <1>9, <1>10, <1>11, <1>12

LEMMA OpenFailsKeeps ==
    ASSUME Inv, NEW c \in Callers, OpenFails(c)
    PROVE  Inv'
  <1>. USE DEF Inv, OpenFails
  <1>1. TypeOK'
    BY OwnersDiffer DEF TypeOK, Labels, Working
  <1>2. MutexOK'
    BY OwnersDiffer DEF TypeOK, MutexOK
  <1>3. CloserOK'
    BY DEF CloserOK
  <1>4. NamedOK'
    BY DEF NamedOK
  <1>5. PlacesOK'
    BY DEF PlacesOK
  <1>6. UsersOK'
    BY DEF UsersOK
  <1>7. RoomOK'
    BY DEF RoomOK
  <1>8. EndOK'
    BY DEF EndOK
  <1>9. DeleteOK'
    BY DEF DeleteOK
  <1>10. StreamLimit'
    BY DEF StreamLimit
  <1>11. NoIdleLeak'
    BY DEF NoIdleLeak, InHand
  <1>12. WorkingInPool'
    BY DEF WorkingInPool
  <1>. QED
    BY <1>1, <1>2, <1>3, <1>4, <1>5, <1>6, <1>7, <1>8, <1>9, <1>10, <1>11, <1>12

LEMMA DeleteKeeps ==
    ASSUME Inv, NEW c \in Callers, Delete(c)
    PROVE  Inv'
  <1>. USE DEF Inv, Delete
  <1>1. TypeOK'
    BY DEF TypeOK, Labels, Working
  <1>2. MutexOK'
    BY DEF MutexOK, CloserOK
  <1>3. CloserOK'
    BY DEF CloserOK
  <1>4. NamedOK'
    BY PoolAssumption DEF NamedOK
  <1>5. PlacesOK'
    BY DEF PlacesOK
  <1>6. UsersOK'
    BY DEF UsersOK
  <1>7. RoomOK'
    BY DEF RoomOK
  <1>8. EndOK'
    BY ClosesOf DEF CloserOK, EndOK
  <1>9. DeleteOK'
    BY DEF TypeOK, DeleteOK
  <1>10. StreamLimit'
    BY DEF StreamLimit
  <1>11. NoIdleLeak'
    BY DEF NoIdleLeak, InHand
  <1>12. WorkingInPool'
    BY DEF WorkingInPool, DeleteOK
  <1>. QED
    BY <1>1, <1>2, <1>3, <1>4, <1>5, <1>6, <1>7, <1>8, <1>9, <1>10, <1>11, <1>12

LEMMA GiveUpKeeps ==
    ASSUME Inv, NEW c \in Callers, GiveUp(c)
    PROVE  Inv'
  <1>. USE DEF Inv, GiveUp
  <1>1. TypeOK'
    BY DEF TypeOK, Labels, Working
  <1>2. MutexOK'
    BY DEF MutexOK, CloserOK
  <1>3. CloserOK'
    BY DEF CloserOK
  <1>4. NamedOK'
    BY PoolAssumption DEF NamedOK
  <1>5. PlacesOK'
    BY DEF PlacesOK
  <1>6. UsersOK'
    BY DEF UsersOK
  <1>7. RoomOK'
    BY DEF RoomOK
  <1>8. EndOK'
    BY ClosesOf DEF CloserOK, EndOK
  <1>9. DeleteOK'
    BY DEF DeleteOK
  <1>10. StreamLimit'
    BY DEF StreamLimit
  <1>11. NoIdleLeak'
    BY DEF NoIdleLeak, InHand
  <1>12. WorkingInPool'
    BY DEF WorkingInPool
  <1>. QED
    BY <1>1, <1>2, <1>3, <1>4, <1>5, <1>6, <1>7, <1>8, <1>9, <1>10, <1>11, <1>12

LEMMA TunnelEndsKeeps ==
    ASSUME Inv, NEW c \in Callers, TunnelEnds(c)
    PROVE  Inv'
  <1>. USE DEF Inv, TunnelEnds
  <1>1. TypeOK'
    BY DEF TypeOK, Labels, Working, CloserLabels
  <1>2. MutexOK'
    BY DEF MutexOK
  <1>3. CloserOK'
    BY ClosesOf DEF TypeOK, CloserOK
  <1>4. NamedOK'
    BY DEF NamedOK
  <1>5. PlacesOK'
    BY DEF CloserOK, PlacesOK
  <1>6. UsersOK'
    BY DEF UsersOK
  <1>7. RoomOK'
    BY DEF RoomOK
  <1>8. EndOK'
    BY DEF EndOK
  <1>9. DeleteOK'
    BY DEF DeleteOK
  <1>10. StreamLimit'
    BY DEF StreamLimit
  <1>11. NoIdleLeak'
    <2>. SUFFICES ASSUME NEW s \in Sessions, session'[s] = "up", places'[s] = {}
                  PROVE  \E c2 \in Callers : InHand(c2, s)'
      BY DEF NoIdleLeak
    <2>1. PICK c2 \in Callers : InHand(c2, s)
      BY DEF NoIdleLeak
    <2>2. c2 # c
      BY <2>1 DEF InHand
    <2>. QED  BY <2>1, <2>2, ClosesOf DEF InHand
  <1>12. WorkingInPool'
    BY DEF WorkingInPool
  <1>. QED
    BY <1>1, <1>2, <1>3, <1>4, <1>5, <1>6, <1>7, <1>8, <1>9, <1>10, <1>11, <1>12

LEMMA DeferredCloseKeeps ==
    ASSUME Inv, NEW c \in Callers, DeferredClose(c)
    PROVE  Inv'
  <1>. USE DEF Inv, DeferredClose
  <1>1. TypeOK'
    BY DEF TypeOK, CloserLabels
  <1>2. MutexOK'
    BY DEF MutexOK
  <1>3. CloserOK'
    BY ClosesOf DEF CloserOK
  <1>4. NamedOK'
    BY DEF NamedOK
  <1>5. PlacesOK'
    BY DEF PlacesOK
  <1>6. UsersOK'
    BY DEF UsersOK
  <1>7. RoomOK'
    BY DEF RoomOK
  <1>8. EndOK'
    BY DEF EndOK
  <1>9. DeleteOK'
    BY DEF DeleteOK
  <1>10. StreamLimit'
    BY DEF StreamLimit
  <1>11. NoIdleLeak'
    BY DEF NoIdleLeak, InHand
  <1>12. WorkingInPool'
    BY DEF WorkingInPool
  <1>. QED
    BY <1>1, <1>2, <1>3, <1>4, <1>5, <1>6, <1>7, <1>8, <1>9, <1>10, <1>11, <1>12

LEMMA CloseStreamKeeps ==
    ASSUME Inv, NEW p \in Closes, CloseStream(p)
    PROVE  Inv'
  <1>. USE DEF Inv, CloseStream, StreamDead, IsClosed
  <1>1. TypeOK'
    BY DEF TypeOK, CloserLabels
  <1>2. MutexOK'
    BY DEF MutexOK
  <1>3. CloserOK'
    BY DEF CloserOK
  <1>4. NamedOK'
    BY DEF NamedOK
  <1>5. PlacesOK'
    BY DEF PlacesOK
  <1>6. UsersOK'
    BY DEF UsersOK
  <1>7. RoomOK'
    BY DEF RoomOK
  <1>8. EndOK'
    BY DEF EndOK
  <1>9. DeleteOK'
    BY DEF DeleteOK
  <1>10. StreamLimit'
    BY DEF StreamLimit
  <1>11. NoIdleLeak'
    BY DEF NoIdleLeak, InHand
  <1>12. WorkingInPool'
    BY DEF WorkingInPool
  <1>. QED
    BY <1>1, <1>2, <1>3, <1>4, <1>5, <1>6, <1>7, <1>8, <1>9, <1>10, <1>11, <1>12

LEMMA CloseDeadStreamKeeps ==
    ASSUME Inv, NEW p \in Closes, CloseDeadStream(p)
    PROVE  Inv'
  <1>. USE DEF Inv, CloseDeadStream, StreamDead, IsClosed
  <1>1. TypeOK'
    BY DEF TypeOK, CloserLabels
  <1>2. MutexOK'
    BY DEF MutexOK
  <1>3. CloserOK'
    BY DEF CloserOK
  <1>4. NamedOK'
    BY DEF NamedOK
  <1>5. PlacesOK'
    BY DEF PlacesOK
  <1>6. UsersOK'
    BY DEF UsersOK
  <1>7. RoomOK'
    BY DEF RoomOK
  <1>8. EndOK'
    BY DEF EndOK
  <1>9. DeleteOK'
    BY DEF DeleteOK
  <1>10. StreamLimit'
    BY DEF StreamLimit
  <1>11. NoIdleLeak'
    BY DEF NoIdleLeak, InHand
  <1>12. WorkingInPool'
    BY DEF WorkingInPool
  <1>. QED
    BY <1>1, <1>2, <1>3, <1>4, <1>5, <1>6, <1>7, <1>8, <1>9, <1>10, <1>11, <1>12

LEMMA StreamClosedKeeps ==
    ASSUME Inv, NEW p \in Closes, StreamClosed(p)
    PROVE  Inv'
  <1>. USE DEF Inv, StreamClosed
  <1>1. TypeOK'
    BY DEF TypeOK, CloserLabels
  <1>2. MutexOK'
    BY DEF MutexOK
  <1>3. CloserOK'
    BY DEF CloserOK
  <1>4. NamedOK'
    BY DEF NamedOK
  <1>5. PlacesOK'
    BY DEF TypeOK, PlacesOK
  <1>6. UsersOK'
    BY DEF UsersOK, CloserOK
  <1>7. RoomOK'
    <2>1. \A s \in Sessions : Cardinality(places'[s]) <= Cardinality(places[s])
      BY ClosesOf, Counting DEF TypeOK
    <2>2. \A s \in Sessions : Cardinality(places[s]) \in Nat /\ Cardinality(places'[s]) \in Nat
      BY Counting DEF TypeOK
    <2>. SUFFICES ASSUME NEW c \in Callers, pc[c] = "syn", session[sess[c]] = "up"
                  PROVE  Cardinality(places'[sess[c]]) < Limit
      BY DEF RoomOK
    <2>3. sess[c] \in Sessions /\ Cardinality(places[sess[c]]) < Limit /\ Limit \in Nat
      BY PoolAssumption DEF TypeOK, Working, RoomOK
    <2>. HIDE DEF StreamClosed
    <2>. QED  BY <2>1, <2>2, <2>3
  <1>8. EndOK'
    BY DEF EndOK
  <1>9. DeleteOK'
    BY DEF DeleteOK
  <1>10. StreamLimit'
    <2>1. \A s \in Sessions : Cardinality(places'[s]) <= Cardinality(places[s])
      BY ClosesOf, Counting DEF TypeOK
    <2>2. \A s \in Sessions : Cardinality(places[s]) \in Nat /\ Cardinality(places'[s]) \in Nat
      BY Counting DEF TypeOK
    <2>. SUFFICES ASSUME NEW s \in Sessions
                  PROVE  Cardinality(places'[s]) <= Limit
      BY DEF StreamLimit
    <2>3. Cardinality(places[s]) <= Limit /\ Limit \in Nat
      BY PoolAssumption DEF StreamLimit
    <2>. HIDE DEF StreamClosed
    <2>. QED  BY <2>1, <2>2, <2>3
  <1>11. NoIdleLeak'
    BY DEF TypeOK, CloserOK, NoIdleLeak, InHand
  <1>12. WorkingInPool'
    BY DEF WorkingInPool
  <1>. QED
    BY <1>1, <1>2, <1>3, <1>4, <1>5, <1>6, <1>7, <1>8, <1>9, <1>10, <1>11, <1>12

LEMMA LockIdleKeeps ==
    ASSUME Inv, NEW p \in Closes, LockIdle(p)
    PROVE  Inv'
  <1>. USE DEF Inv, LockIdle
  <1>1. TypeOK'
    BY OwnersDiffer DEF TypeOK, CloserLabels
  <1>2. MutexOK'
    BY ClosesOf, OwnersDiffer DEF TypeOK, MutexOK, CloserOK, Working
  <1>3. CloserOK'
    BY DEF CloserOK
  <1>4. NamedOK'
    BY DEF NamedOK
  <1>5. PlacesOK'
    BY DEF PlacesOK
  <1>6. UsersOK'
    BY DEF UsersOK
  <1>7. RoomOK'
    BY DEF RoomOK
  <1>8. EndOK'
    BY DEF EndOK
  <1>9. DeleteOK'
    BY DEF DeleteOK
  <1>10. StreamLimit'
    BY DEF StreamLimit
  <1>11. NoIdleLeak'
    BY DEF NoIdleLeak, InHand
  <1>12. WorkingInPool'
    BY DEF WorkingInPool
  <1>. QED
    BY <1>1, <1>2, <1>3, <1>4, <1>5, <1>6, <1>7, <1>8, <1>9, <1>10, <1>11, <1>12

LEMMA NotIdleKeeps ==
    ASSUME Inv, NEW p \in Closes, NotIdle(p)
    PROVE  Inv'
  <1>. USE DEF Inv, NotIdle, NumStreams, IsClosed
  <1>1. TypeOK'
    BY OwnersDiffer DEF TypeOK, CloserLabels
  <1>2. MutexOK'
    BY OwnersDiffer DEF TypeOK, MutexOK
  <1>3. CloserOK'
    BY DEF CloserOK
  <1>4. NamedOK'
    BY DEF NamedOK
  <1>5. PlacesOK'
    BY DEF PlacesOK
  <1>6. UsersOK'
    BY DEF UsersOK
  <1>7. RoomOK'
    BY DEF RoomOK
  <1>8. EndOK'
    BY DEF EndOK
  <1>9. DeleteOK'
    BY DEF DeleteOK
  <1>10. StreamLimit'
    BY DEF StreamLimit
  <1>11. NoIdleLeak'
    <2>. SUFFICES ASSUME NEW s \in Sessions, session'[s] = "up", places'[s] = {}
                  PROVE  \E c2 \in Callers : InHand(c2, s)'
      BY DEF NoIdleLeak
    <2>1. pc[Of(p)] = "closing" /\ sess[Of(p)] \in Sessions
      BY ClosesOf DEF TypeOK, CloserOK, Working
    <2>2. places[sess[Of(p)]] # {}
      BY <2>1, Counting
    <2>3. PICK c2 \in Callers : InHand(c2, s)
      BY DEF NoIdleLeak
    <2>4. Of(p) # c2
      BY <2>2, <2>3 DEF InHand
    <2>. QED  BY <2>3, <2>4, ClosesOf DEF InHand
  <1>12. WorkingInPool'
    BY DEF WorkingInPool
  <1>. QED
    BY <1>1, <1>2, <1>3, <1>4, <1>5, <1>6, <1>7, <1>8, <1>9, <1>10, <1>11, <1>12

LEMMA IsIdleKeeps ==
    ASSUME Inv, NEW p \in Closes, IsIdle(p)
    PROVE  Inv'
  <1>. USE DEF Inv, IsIdle, NumStreams, IsClosed
  <1>1. TypeOK'
    BY DEF TypeOK, CloserLabels
  <1>2. MutexOK'
    BY DEF MutexOK
  <1>3. CloserOK'
    BY DEF CloserOK
  <1>4. NamedOK'
    BY DEF NamedOK
  <1>5. PlacesOK'
    BY DEF PlacesOK
  <1>6. UsersOK'
    BY DEF UsersOK
  <1>7. RoomOK'
    BY DEF RoomOK
  <1>8. EndOK'
    <2>1. pc[Of(p)] = "closing" /\ sess[Of(p)] \in Sessions
      BY ClosesOf DEF TypeOK, CloserOK, Working
    <2>2. session[sess[Of(p)]] \in Closed \/ places[sess[Of(p)]] = {}
      BY <2>1, Counting DEF TypeOK, Closed
    <2>. QED  BY <2>2 DEF EndOK
  <1>9. DeleteOK'
    BY DEF DeleteOK
  <1>10. StreamLimit'
    BY DEF StreamLimit
  <1>11. NoIdleLeak'
    BY DEF NoIdleLeak, InHand
  <1>12. WorkingInPool'
    BY DEF WorkingInPool
  <1>. QED
    BY <1>1, <1>2, <1>3, <1>4, <1>5, <1>6, <1>7, <1>8, <1>9, <1>10, <1>11, <1>12

LEMMA CloseSessionKeeps ==
    ASSUME Inv, NEW p \in Closes, CloseSession(p)
    PROVE  Inv'
  <1>. USE DEF Inv, CloseSession, IsClosed
  <1>1. TypeOK'
    BY OwnersDiffer DEF TypeOK, Status, CloserLabels
  <1>2. MutexOK'
    BY OwnersDiffer DEF TypeOK, MutexOK
  <1>3. CloserOK'
    BY DEF CloserOK
  <1>4. NamedOK'
    BY DEF NamedOK
  <1>5. PlacesOK'
    <2>1. pc[Of(p)] = "closing" /\ sess[Of(p)] \in Sessions
      BY ClosesOf DEF TypeOK, CloserOK, Working
    <2>2. session[sess[Of(p)]] \in Closed \/ places[sess[Of(p)]] = {}
      BY DEF EndOK
    <2>3. \A s \in Sessions : session'[s] # session[s] => places[s] = {}
      BY <2>1, <2>2 DEF Closed
    <2>. SUFFICES ASSUME NEW s \in Sessions, NEW c \in places[s], session[s] # "lost"
                  PROVE  /\ session[s] \in {"up", "failing"}
                         /\ sess[c] = s
                         /\ \/ pc[c] = "using"
                            \/ /\ pc[c] = "closing"
                               /\ \/ \A q \in Closes :
                                        Of(q) = c => closer'[q] \in {"wait", "close"}
                                  \/ \E q \in Closes : Of(q) = c /\ closer'[q] = "fin"
      BY <2>3 DEF PlacesOK
    <2>. QED  BY <2>1, <2>2 DEF PlacesOK
  <1>6. UsersOK'
    BY DEF UsersOK
  <1>7. RoomOK'
    BY DEF RoomOK
  <1>8. EndOK'
    BY DEF EndOK, Closed
  <1>9. DeleteOK'
    BY DEF DeleteOK
  <1>10. StreamLimit'
    BY DEF StreamLimit
  <1>11. NoIdleLeak'
    BY ClosesOf DEF TypeOK, NoIdleLeak, InHand
  <1>12. WorkingInPool'
    BY DEF WorkingInPool
  <1>. QED
    BY <1>1, <1>2, <1>3, <1>4, <1>5, <1>6, <1>7, <1>8, <1>9, <1>10, <1>11, <1>12

LEMMA LeaveKeeps ==
    ASSUME Inv, NEW c \in Callers, Leave(c)
    PROVE  Inv'
  <1>. USE DEF Inv, Leave
  <1>1. TypeOK'
    BY DEF TypeOK, Labels, Working, CloserLabels
  <1>2. MutexOK'
    BY DEF MutexOK
  <1>3. CloserOK'
    BY ClosesOf DEF TypeOK, CloserOK
  <1>4. NamedOK'
    BY PoolAssumption DEF NamedOK
  <1>5. PlacesOK'
    BY ClosesOf DEF CloserOK, PlacesOK
  <1>6. UsersOK'
    BY DEF UsersOK
  <1>7. RoomOK'
    BY DEF RoomOK
  <1>8. EndOK'
    BY ClosesOf DEF EndOK
  <1>9. DeleteOK'
    BY DEF DeleteOK
  <1>10. StreamLimit'
    BY DEF StreamLimit
  <1>11. NoIdleLeak'
    <2>. SUFFICES ASSUME NEW s \in Sessions, session'[s] = "up", places'[s] = {}
                  PROVE  \E c2 \in Callers : InHand(c2, s)'
      BY DEF NoIdleLeak
    <2>1. PICK c2 \in Callers : InHand(c2, s)
      BY DEF NoIdleLeak
    <2>2. c2 # c
      BY <2>1 DEF InHand
    <2>. QED  BY <2>1, <2>2, ClosesOf DEF InHand
  <1>12. WorkingInPool'
    BY DEF WorkingInPool
  <1>. QED
    BY <1>1, <1>2, <1>3, <1>4, <1>5, <1>6, <1>7, <1>8, <1>9, <1>10, <1>11, <1>12

\* The whole next-state relation.
LEMMA InitEstablishes == Init => Inv
  <1>. SUFFICES ASSUME Init
                PROVE  Inv
    OBVIOUS
  <1>1. TypeOK
    BY OwnersDiffer DEF Init, TypeOK, Labels, Working, Status, CloserLabels
  <1>2. StreamLimit
    BY FS_EmptySet, PoolAssumption DEF Init, StreamLimit
  <1>3. MutexOK /\ CloserOK /\ NamedOK /\ PlacesOK /\ UsersOK
    BY ClosesOf, PoolAssumption
       DEF Init, MutexOK, CloserOK, NamedOK, PlacesOK, UsersOK, PoolAssumption
  <1>4. RoomOK /\ EndOK /\ DeleteOK /\ NoIdleLeak /\ WorkingInPool
    BY DEF Init, RoomOK, EndOK, DeleteOK, NoIdleLeak, WorkingInPool
  <1>. QED  BY <1>1, <1>2, <1>3, <1>4 DEF Inv

LEMMA StutterKeeps == Inv /\ UNCHANGED vars => Inv'
  <1>. SUFFICES ASSUME Inv, UNCHANGED vars
                PROVE  Inv'
    OBVIOUS
  <1>1. TypeOK' /\ MutexOK' /\ CloserOK' /\ NamedOK' /\ PlacesOK' /\ UsersOK'
    BY DEF vars, Inv, TypeOK, MutexOK, CloserOK, NamedOK, PlacesOK, UsersOK
  <1>2. RoomOK' /\ EndOK' /\ DeleteOK' /\ StreamLimit' /\ NoIdleLeak' /\ WorkingInPool'
    BY DEF vars, Inv, RoomOK, EndOK, DeleteOK, StreamLimit, NoIdleLeak, InHand, WorkingInPool
  <1>. QED  BY <1>1, <1>2 DEF Inv

LEMMA NextKeeps == Inv /\ [Next]_vars => Inv'
  <1>. SUFFICES ASSUME Inv, [Next]_vars
                PROVE  Inv'
    OBVIOUS
  <1>1. CASE \E s \in Sessions : Break(s) \/ KeepaliveClose(s)
    BY <1>1, BreakKeeps, KeepaliveCloseKeeps
  <1>2. ASSUME NEW c \in Callers, Arrive(c) \/ OpenStep(c)
        PROVE  Inv'
    BY <1>2, ArriveKeeps, VisitKeeps, PurgeKeeps, DialKeeps, RangeEndsKeeps, DialFailsKeeps,
       StoreKeeps, LockKeeps, TooManyKeeps, RefuseKeeps, RoomKeeps, OpenStreamKeeps,
       OpenFailsKeeps, DeleteKeeps, GiveUpKeeps DEF OpenStep
  <1>3. ASSUME NEW c \in Callers, TunnelEnds(c) \/ EndStep(c)
        PROVE  Inv'
    BY <1>3, TunnelEndsKeeps, DeferredCloseKeeps, LeaveKeeps DEF EndStep
  <1>4. ASSUME NEW p \in Closes, CloseStep(p)
        PROVE  Inv'
    BY <1>4, CloseStreamKeeps, CloseDeadStreamKeeps, StreamClosedKeeps, LockIdleKeeps,
       NotIdleKeeps, IsIdleKeeps, CloseSessionKeeps DEF CloseStep
  <1>5. CASE UNCHANGED vars
    BY <1>5, StutterKeeps
  <1>. QED  BY <1>1, <1>2, <1>3, <1>4, <1>5 DEF Next

\* The inductive invariant: every state of the pool satisfies it.
THEOREM Invariance == Spec => []Inv
  <1>1. Init => Inv
    BY InitEstablishes
  <1>2. Inv /\ [Next]_vars => Inv'
    BY NextKeeps
  <1>. QED  BY <1>1, <1>2, PTL DEF Spec

\* Every variable of the pool keeps its type.
THEOREM TypeCorrect == Spec => []TypeOK
  <1>1. Inv => TypeOK
    BY DEF Inv
  <1>. QED  BY <1>1, Invariance, PTL

\* mux-max-stream is respected on every session, by any number of callers.
THEOREM LimitIsRespected == Spec => []StreamLimit
  <1>1. Inv => StreamLimit
    BY DEF Inv
  <1>. QED  BY <1>1, Invariance, PTL

\* The client never closes a session under a connection that uses it.
THEOREM UsersAreSafe == Spec => []UsersKeepSession
  <1>1. ASSUME Inv
        PROVE  UsersKeepSession
    <2>. SUFFICES ASSUME NEW c \in Callers, pc[c] = "using"
                  PROVE  c \in places[sess[c]] /\ session[sess[c]] # "retired"
      BY DEF UsersKeepSession
    <2>1. sess[c] \in Sessions /\ c \in places[sess[c]]
      BY <1>1 DEF Inv, TypeOK, Working, UsersOK
    <2>. QED  BY <1>1, <2>1 DEF Inv, PlacesOK
  <1>. QED  BY <1>1, Invariance, PTL

\* No working session is left without streams and without anyone to close it.
THEOREM NothingLeaks == Spec => []NoIdleLeak
  <1>1. Inv => NoIdleLeak
    BY DEF Inv
  <1>. QED  BY <1>1, Invariance, PTL

\* No caller drops a session from the pool that others could still use.
THEOREM PoolIsComplete == Spec => []WorkingInPool
  <1>1. Inv => WorkingInPool
    BY DEF Inv
  <1>. QED  BY <1>1, Invariance, PTL

-----------------------------------------------------------------------------
(* No mutex stays locked.                                                  *)

\* A session's mutex that is locked has an owner inside openStream or
\* tryCloseOnIdle of that session, and the owner waits for no other mutex.
Held(s) ==
    \/ \E c \in Callers :
          mu[s] = Opening(c) /\ sess[c] = s /\ pc[c] \in {"count", "syn"}
    \/ \E p \in Closes :
          mu[s] = Closing(p) /\ sess[Of(p)] = s /\ closer[p] \in {"check", "end"}

NoMutexIsOrphaned == \A s \in Sessions : mu[s] # Nobody => Held(s)

LEMMA OpenKeepsHeld ==
    ASSUME Inv, NoMutexIsOrphaned, NEW c \in Callers, OpenStep(c)
    PROVE  NoMutexIsOrphaned'
  <1>. USE OwnersDiffer, ClosesOf DEF Inv, TypeOK
  <1>. SUFFICES ASSUME NEW s \in Sessions, mu'[s] # Nobody
                PROVE  Held(s)'
    BY DEF NoMutexIsOrphaned
  <1>1. /\ \A d \in Callers : d # c => pc'[d] = pc[d] /\ sess'[d] = sess[d]
        /\ closer' = closer
    BY DEF OpenStep, Visit, Purge, RangeEnds, Dial, DialFails, Store, Lock, TooMany, Refuse,
           Room, OpenStream, OpenFails, Delete, GiveUp
  <1>2. CASE mu' = mu
    <2>1. CASE \E d \in Callers : mu[s] = Opening(d) /\ sess[d] = s /\ pc[d] \in {"count", "syn"}
      <3>1. PICK d \in Callers : mu[s] = Opening(d) /\ sess[d] = s /\ pc[d] \in {"count", "syn"}
        BY <2>1
      <3>2. CASE d = c
        <4>1. sess'[c] = s /\ pc'[c] \in {"count", "syn"}
          BY <1>2, <3>1, <3>2 DEF OpenStep, Visit, Purge, RangeEnds, Dial, DialFails, Store, Lock,
             TooMany, Refuse, Room, OpenStream, OpenFails, Delete, GiveUp
        <4>. QED  BY <1>2, <3>1, <3>2, <4>1 DEF Held
      <3>. QED  BY <1>1, <1>2, <3>1, <3>2 DEF Held
    <2>2. CASE \E p \in Closes :
                  mu[s] = Closing(p) /\ sess[Of(p)] = s /\ closer[p] \in {"check", "end"}
      <3>1. PICK p \in Closes :
                    mu[s] = Closing(p) /\ sess[Of(p)] = s /\ closer[p] \in {"check", "end"}
        BY <2>2
      <3>2. pc[Of(p)] = "closing"
        BY <3>1 DEF CloserOK
      <3>3. Of(p) # c
        BY <3>2 DEF OpenStep, Visit, Purge, RangeEnds, Dial, DialFails, Store, Lock, TooMany,
           Refuse, Room, OpenStream, OpenFails, Delete, GiveUp
      <3>. QED  BY <1>1, <1>2, <3>1, <3>3 DEF Held
    <2>. QED  BY <1>2, <2>1, <2>2 DEF NoMutexIsOrphaned, Held
  <1>3. CASE Lock(c)
    <2>1. sess[c] \in Sessions /\ pc'[c] = "count" /\ sess' = sess
      BY <1>3 DEF Lock, Working
    <2>2. CASE s = sess[c]
      BY <1>3, <2>1, <2>2 DEF Lock, Held
    <2>3. CASE s # sess[c]
      <3>1. mu'[s] = mu[s] /\ Held(s)
        BY <1>3, <2>1, <2>3 DEF Lock, NoMutexIsOrphaned
      <3>. QED  BY <1>1, <1>3, <2>1, <2>3, <3>1 DEF Lock, Held
    <2>. QED  BY <2>2, <2>3
  <1>4. CASE TooMany(c) \/ Refuse(c) \/ OpenStream(c) \/ OpenFails(c)
    <2>1. sess[c] \in Sessions /\ pc[c] \in {"count", "syn"} /\ mu' = [mu EXCEPT ![sess[c]] = Nobody]
      BY <1>4 DEF TooMany, Refuse, OpenStream, OpenFails, Working
    <2>2. s # sess[c] /\ mu'[s] = mu[s]
      BY <2>1
    <2>3. \A p \in Closes : closer[p] \in {"check", "end"} => Of(p) # c
      BY <2>1 DEF CloserOK
    <2>. QED  BY <1>1, <2>1, <2>2, <2>3 DEF NoMutexIsOrphaned, Held
  <1>. QED
    BY <1>2, <1>3, <1>4 DEF OpenStep, Visit, Purge, RangeEnds, Dial, DialFails, Store, Room,
       Delete, GiveUp

LEMMA CloseKeepsHeld ==
    ASSUME Inv, NoMutexIsOrphaned, NEW p \in Closes, CloseStep(p)
    PROVE  NoMutexIsOrphaned'
  <1>. USE OwnersDiffer, ClosesOf DEF Inv, TypeOK
  <1>. SUFFICES ASSUME NEW s \in Sessions, mu'[s] # Nobody
                PROVE  Held(s)'
    BY DEF NoMutexIsOrphaned
  <1>1. /\ \A q \in Closes : q # p => closer'[q] = closer[q]
        /\ UNCHANGED <<pc, sess>>
    BY DEF CloseStep, CloseStream, CloseDeadStream, StreamClosed, LockIdle, NotIdle, IsIdle,
           CloseSession
  <1>2. sess[Of(p)] \in Sessions
    BY DEF CloseStep, CloseStream, CloseDeadStream, StreamClosed, LockIdle, NotIdle, IsIdle,
           CloseSession, CloserOK, Working
  \* Who holds s now, holds it still: another one, or p going on with it.
  <1>7. ASSUME mu'[s] = mu[s], closer[p] \notin {"check", "end"} \/ closer'[p] = "end"
               \/ s # sess[Of(p)]
        PROVE  Held(s)'
    <2>1. mu[s] # Nobody
      BY <1>7
    <2>. HIDE DEF Inv, TypeOK
    <2>2. CASE \E c \in Callers : mu[s] = Opening(c) /\ sess[c] = s /\ pc[c] \in {"count", "syn"}
      BY <1>1, <1>7, <2>2 DEF Held
    <2>3. ASSUME NEW q \in Closes, mu[s] = Closing(q), sess[Of(q)] = s, closer[q] \in {"check", "end"}
          PROVE  closer'[q] \in {"check", "end"}
      BY <1>1, <1>7, <2>3
    <2>4. CASE \E q \in Closes :
                   mu[s] = Closing(q) /\ sess[Of(q)] = s /\ closer[q] \in {"check", "end"}
      BY <1>1, <1>7, <2>3, <2>4 DEF Held
    <2>. QED  BY <2>1, <2>2, <2>4 DEF NoMutexIsOrphaned, Held
  <1>3. CASE CloseStream(p) \/ CloseDeadStream(p) \/ StreamClosed(p)
    <2>1. mu' = mu /\ closer[p] \notin {"check", "end"}
      BY <1>3 DEF CloseStream, CloseDeadStream, StreamClosed
    <2>. QED  BY <1>7, <2>1
  <1>4. CASE LockIdle(p)
    <2>1. CASE s = sess[Of(p)]
      <3>1. mu'[s] = Closing(p) /\ closer'[p] = "check"
        BY <1>2, <1>4, <2>1 DEF LockIdle
      <3>. QED  BY <1>1, <2>1, <3>1 DEF Held
    <2>2. CASE s # sess[Of(p)]
      <3>1. mu'[s] = mu[s] /\ closer[p] \notin {"check", "end"}
        BY <1>4, <2>2 DEF LockIdle
      <3>. QED  BY <1>7, <3>1
    <2>. QED  BY <2>1, <2>2
  <1>5. CASE IsIdle(p)
    <2>1. mu' = mu /\ closer'[p] = "end"
      BY <1>5 DEF IsIdle
    <2>. QED  BY <1>7, <2>1
  <1>6. CASE NotIdle(p) \/ CloseSession(p)
    <2>1. mu' = [mu EXCEPT ![sess[Of(p)]] = Nobody]
      BY <1>6 DEF NotIdle, CloseSession
    <2>2. s # sess[Of(p)] /\ mu'[s] = mu[s]
      BY <1>2, <2>1
    <2>. QED  BY <1>7, <2>2
  <1>. QED  BY <1>3, <1>4, <1>5, <1>6 DEF CloseStep

\* ForwardConn returns only when its Closes are through.
LEMMA EndKeepsHeld ==
    ASSUME Inv, NoMutexIsOrphaned, NEW c \in Callers, Arrive(c) \/ TunnelEnds(c) \/ EndStep(c)
    PROVE  NoMutexIsOrphaned'
  <1>. USE OwnersDiffer, ClosesOf DEF Inv, TypeOK
  <1>1. mu' = mu
    BY DEF Arrive, TunnelEnds, EndStep, DeferredClose, Leave
  <1>2. /\ pc[c] \notin {"count", "syn"}
        /\ \A d \in Callers : d # c => pc'[d] = pc[d] /\ sess'[d] = sess[d]
    BY DEF Arrive, TunnelEnds, EndStep, DeferredClose, Leave
  <1>3. ASSUME NEW p \in Closes, closer[p] \in {"check", "end"}
        PROVE  closer'[p] = closer[p] /\ sess'[Of(p)] = sess[Of(p)]
    BY <1>3 DEF CloserOK, Arrive, TunnelEnds, EndStep, DeferredClose, Leave
  <1>. SUFFICES ASSUME NEW s \in Sessions, mu[s] # Nobody
                PROVE  Held(s)'
    BY <1>1 DEF NoMutexIsOrphaned
  <1>. HIDE DEF Inv, TypeOK
  <1>4. ASSUME NEW d \in Callers, mu[s] = Opening(d), sess[d] = s, pc[d] \in {"count", "syn"}
        PROVE  Held(s)'
    <2>1. pc'[d] = pc[d] /\ sess'[d] = sess[d]
      BY <1>2, <1>4
    <2>. QED  BY <1>1, <1>4, <2>1 DEF Held
  <1>5. ASSUME NEW p \in Closes, mu[s] = Closing(p), sess[Of(p)] = s, closer[p] \in {"check", "end"}
        PROVE  Held(s)'
    <2>1. closer'[p] = closer[p] /\ sess'[Of(p)] = sess[Of(p)]
      BY <1>3, <1>5
    <2>. QED  BY <1>1, <1>5, <2>1 DEF Held
  <1>. QED  BY <1>4, <1>5 DEF NoMutexIsOrphaned, Held

\* No return of openStream or tryCloseOnIdle, and no reuse of a session, leaves
\* a session's mutex locked: the safety half of GetMuxStreamReturns.
THEOREM NobodyKeepsAMutex == Spec => []NoMutexIsOrphaned
  <1>1. Init => NoMutexIsOrphaned
    BY DEF Init, NoMutexIsOrphaned
  <1>2. Inv /\ NoMutexIsOrphaned /\ [Next]_vars => NoMutexIsOrphaned'
    <2>. SUFFICES ASSUME Inv, NoMutexIsOrphaned, [Next]_vars
                  PROVE  NoMutexIsOrphaned'
      OBVIOUS
    <2>1. CASE UNCHANGED vars \/ \E s \in Sessions : Break(s) \/ KeepaliveClose(s)
      BY <2>1 DEF vars, Break, KeepaliveClose, NoMutexIsOrphaned, Held
    <2>. QED  BY <2>1, OpenKeepsHeld, CloseKeepsHeld, EndKeepsHeld DEF Next
  <1>. QED  BY <1>1, <1>2, Invariance, PTL DEF Spec

-----------------------------------------------------------------------------
(* Who is refused.                                                         *)

\* A caller has no stream yet when openStream counts, so that it is refused by
\* the streams of others.
LEMMA RefusedByOthers ==
    ASSUME Inv, NEW c \in Callers, Refuse(c)
    PROVE  /\ places[sess[c]] \subseteq Callers \ {c}
           /\ Cardinality(places[sess[c]]) >= Limit
  <1>1. sess[c] \in Sessions /\ pc[c] = "count"
    BY DEF Refuse, Inv, TypeOK, Working
  <1>2. NumStreams(sess[c]) >= Limit
    BY DEF Refuse
  <1>3. ~IsClosed(sess[c])
    <2>1. NumStreams(sess[c]) # 0
      BY <1>2, PoolAssumption
    <2>. QED  BY <2>1 DEF NumStreams
  <1>4. c \notin places[sess[c]]
    BY <1>1, <1>3 DEF Inv, PlacesOK, IsClosed
  <1>5. Cardinality(places[sess[c]]) >= Limit
    BY <1>2, <1>3 DEF NumStreams
  <1>. QED  BY <1>1, <1>4, <1>5 DEF Inv, TypeOK

\* What client.go:297 says of a full session ("try next") is true as long as no
\* more than MuxMaxStream connections are being forwarded at a time: whoever
\* dials a session then finds room on it, however many got there first.
THEOREM FewAreNeverRefused ==
    ASSUME Cardinality(Callers) <= Limit
    PROVE  Spec => []NeverRefused
  <1>1. Init => NeverRefused
    BY DEF Init, NeverRefused
  <1>2. ASSUME Inv, NEW c \in Callers, Refuse(c)
        PROVE  FALSE
    <2>1. /\ places[sess[c]] \subseteq Callers \ {c}
          /\ Cardinality(places[sess[c]]) >= Limit
      BY <1>2, RefusedByOthers
    <2>2. /\ IsFiniteSet(Callers \ {c}) /\ Cardinality(Callers) \in Nat
          /\ Cardinality(Callers \ {c}) = Cardinality(Callers) - 1
      BY PoolAssumption, FS_RemoveElement, FS_CardinalityType
    <2>3. /\ Cardinality(places[sess[c]]) <= Cardinality(Callers \ {c})
          /\ Cardinality(places[sess[c]]) \in Nat
      BY <2>1, <2>2, FS_Subset, FS_CardinalityType
    <2>. QED  BY <2>1, <2>2, <2>3, PoolAssumption
  <1>3. ASSUME Inv, NeverRefused, [Next]_vars
        PROVE  NeverRefused'
    <2>1. \A c \in Callers : pc'[c] = "refused" => pc[c] = "refused" \/ Refuse(c)
      <3>1. CASE UNCHANGED pc
        BY <3>1
      <3>2. ASSUME NEW c \in Callers, Arrive(c) \/ OpenStep(c) \/ TunnelEnds(c) \/ EndStep(c)
            PROVE  /\ \A d \in Callers : d # c => pc'[d] = pc[d]
                   /\ pc'[c] = "refused" => pc[c] = "refused" \/ Refuse(c)
        <4>1. \/ UNCHANGED pc
              \/ Refuse(c)
              \/ \E label \in Labels \ {"refused"} : pc' = [pc EXCEPT ![c] = label]
          <5>1. CASE \E s \in Sessions : Visit(c, s) \/ Purge(c, s) \/ Dial(c, s)
            BY <5>1 DEF Visit, Purge, Dial, Labels, Working
          <5>2. CASE RangeEnds(c) \/ DialFails(c) \/ Store(c) \/ Lock(c) \/ TooMany(c) \/ Room(c)
            BY <5>2 DEF RangeEnds, DialFails, Store, Lock, TooMany, Room, Labels, Working
          <5>3. CASE OpenStream(c) \/ OpenFails(c) \/ Delete(c) \/ GiveUp(c)
            BY <5>3 DEF OpenStream, OpenFails, Delete, GiveUp, Labels, Working
          <5>4. CASE Arrive(c) \/ TunnelEnds(c) \/ EndStep(c)
            BY <5>4 DEF Arrive, TunnelEnds, EndStep, DeferredClose, Leave, Labels, Working
          <5>. QED  BY <3>2, <5>1, <5>2, <5>3, <5>4 DEF OpenStep
        <4>. QED  BY <1>3, <3>2, <4>1 DEF Inv, TypeOK, Refuse
      <3>3. CASE \E s \in Sessions : Break(s) \/ KeepaliveClose(s)
        BY <3>1, <3>3 DEF Break, KeepaliveClose
      <3>4. CASE \E p \in Closes : CloseStep(p)
        BY <3>1, <3>4 DEF CloseStep, CloseStream, CloseDeadStream, StreamClosed, LockIdle, NotIdle,
             IsIdle, CloseSession
      <3>5. CASE UNCHANGED vars
        BY <3>1, <3>5 DEF vars
      <3>. QED  BY <1>3, <3>2, <3>3, <3>4, <3>5 DEF Next
    <2>. QED  BY <1>2, <1>3, <2>1 DEF NeverRefused
  <1>. QED  BY <1>1, <1>3, Invariance, PTL DEF Spec

-----------------------------------------------------------------------------
(* MuxPool implements SessionLease.                                        *)

Unseen == UNCHANGED <<session, places>>

LEMMA NetworkRefines ==
    ASSUME Inv, NEW s \in Sessions, Break(s) \/ KeepaliveClose(s)
    PROVE  L!Lose(s)
  BY DEF Break, KeepaliveClose, L!Lose

\* The abstract specification counts with the same operator.
LEMMA SameCount == \A S : L!Cardinality(S) = Cardinality(S)
  BY DEF L!Cardinality, Cardinality

LEMMA OpenRefines ==
    ASSUME Inv, NEW c \in Callers, OpenStep(c)
    PROVE  \/ Unseen
           \/ \E s \in Sessions : L!Establish(s) \/ L!Lease(c, s)
  <1>1. CASE \E s \in Sessions : Dial(c, s)
    BY <1>1 DEF Dial, Unused, IsClosed, L!Establish
  <1>2. CASE OpenStream(c)
    <2>1. sess[c] \in Sessions /\ session[sess[c]] = "up"
      BY <1>2 DEF OpenStream, Inv, TypeOK, Working
    <2>2. Cardinality(places[sess[c]]) < Limit
      BY <1>2, <2>1 DEF OpenStream, Inv, RoomOK
    <2>3. \A s2 \in Sessions : c \in places[s2] => session[s2] = "lost"
      BY <1>2 DEF OpenStream, Inv, PlacesOK
    <2>4. L!Lease(c, sess[c])
      BY <1>2, <2>1, <2>2, <2>3, SameCount DEF OpenStream, L!Lease
    <2>. QED  BY <2>1, <2>4
  <1>3. CASE ~OpenStream(c) /\ ~\E s \in Sessions : Dial(c, s)
    BY <1>3 DEF OpenStep, Visit, Purge, RangeEnds, DialFails, Store, Lock, TooMany, Refuse,
                Room, OpenFails, Delete, GiveUp, Unseen
  <1>. QED  BY <1>1, <1>2, <1>3

LEMMA CloseRefines ==
    ASSUME Inv, NEW p \in Closes, CloseStep(p)
    PROVE  \/ Unseen
           \/ \E s \in Sessions : L!Retire(s) \/ L!Release(Of(p), s)
  <1>1. closer[p] # "wait"
    BY DEF CloseStep, CloseStream, CloseDeadStream, StreamClosed, LockIdle, NotIdle, IsIdle,
           CloseSession
  <1>2. Of(p) \in Callers /\ sess[Of(p)] \in Sessions
    BY <1>1, ClosesOf DEF Inv, TypeOK, CloserOK, Working
  <1>3. CASE StreamClosed(p)
    <2>1. CASE Of(p) \in places[sess[Of(p)]]
      BY <1>2, <1>3, <2>1 DEF StreamClosed, L!Release
    <2>2. CASE Of(p) \notin places[sess[Of(p)]]
      BY <1>2, <1>3, <2>2 DEF StreamClosed, Unseen, Inv, TypeOK
    <2>. QED  BY <2>1, <2>2
  <1>4. CASE CloseSession(p)
    <2>1. CASE IsClosed(sess[Of(p)])
      BY <1>2, <1>4, <2>1 DEF CloseSession, Unseen, Inv, TypeOK
    <2>2. CASE ~IsClosed(sess[Of(p)])
      <3>1. places[sess[Of(p)]] = {}
        BY <1>4, <2>2 DEF CloseSession, IsClosed, Closed, Inv, EndOK
      <3>2. session[sess[Of(p)]] \in {"up", "failing"}
        BY <1>2, <2>2 DEF IsClosed, Inv, TypeOK, Status, NamedOK
      <3>3. L!Retire(sess[Of(p)])
        BY <1>4, <2>2, <3>1, <3>2 DEF CloseSession, L!Retire
      <3>. QED  BY <1>2, <3>3
    <2>. QED  BY <2>1, <2>2
  <1>5. CASE ~StreamClosed(p) /\ ~CloseSession(p)
    BY <1>5 DEF CloseStep, CloseStream, CloseDeadStream, LockIdle, NotIdle, IsIdle, Unseen
  <1>. QED  BY <1>3, <1>4, <1>5

LEMMA StepRefines == Inv /\ [Next]_vars => [L!Next]_(L!vars)
  <1>. SUFFICES ASSUME Inv, [Next]_vars
                PROVE  L!Next \/ Unseen
    BY DEF L!vars, Unseen
  <1>1. CASE \E s \in Sessions : Break(s) \/ KeepaliveClose(s)
    BY <1>1, NetworkRefines DEF L!Next
  <1>2. CASE \E c \in Callers : OpenStep(c)
    BY <1>2, OpenRefines DEF L!Next
  <1>3. CASE \E p \in Closes : CloseStep(p)
    BY <1>3, CloseRefines, ClosesOf DEF L!Next
  <1>4. CASE \E c \in Callers : Arrive(c) \/ TunnelEnds(c) \/ EndStep(c)
    BY <1>4 DEF Arrive, TunnelEnds, EndStep, DeferredClose, Leave, Unseen
  <1>5. CASE UNCHANGED vars
    BY <1>5 DEF vars, Unseen
  <1>. QED  BY <1>1, <1>2, <1>3, <1>4, <1>5 DEF Next

\* The pool keeps the leases it promises: who holds a place on which session,
\* how many do, and when a session is established, retired or lost.
THEOREM PoolImplementsLeases == Spec => LeaseSpec
  <1>1. Init => L!Init
    BY DEF Init, L!Init
  <1>2. Inv /\ [Next]_vars => [L!Next]_(L!vars)
    BY StepRefines
  <1>. QED  BY <1>1, <1>2, Invariance, PTL DEF Spec, LeaseSpec, L!Spec

-----------------------------------------------------------------------------
(* What the connections may therefore count on.                            *)

LEMMA LeaseInit == L!Init => L!TypeOK /\ L!Respected
  <1>1. Cardinality({}) = 0
    BY FS_EmptySet
  <1>. QED  BY <1>1, SameCount, PoolAssumption DEF L!Init, L!TypeOK, L!Respected

LEMMA LeaseStep ==
    ASSUME L!TypeOK, L!Respected, [L!Next]_(L!vars)
    PROVE  L!TypeOK' /\ L!Respected' /\ [L!NeverTaken]_(L!vars)
  <1>. USE DEF L!TypeOK, L!NeverTaken
  <1>1. ASSUME NEW s \in Sessions, L!Establish(s) \/ L!Retire(s) \/ L!Lose(s)
        PROVE  L!TypeOK' /\ L!Respected' /\ L!NeverTaken
    <2>1. L!TypeOK' /\ L!NeverTaken
      BY <1>1 DEF L!Establish, L!Retire, L!Lose, L!Respected
    <2>2. CASE L!Establish(s)
      <3>1. Cardinality({}) = 0
        BY FS_EmptySet
      <3>. QED  BY <2>1, <2>2, <3>1, SameCount, PoolAssumption DEF L!Establish, L!Respected
    <2>3. CASE L!Retire(s) \/ L!Lose(s)
      BY <2>1, <2>3 DEF L!Retire, L!Lose, L!Respected
    <2>. QED  BY <1>1, <2>2, <2>3
  <1>2. ASSUME NEW h \in Callers, NEW s \in Sessions, L!Lease(h, s)
        PROVE  L!TypeOK' /\ L!Respected' /\ L!NeverTaken
    <2>1. L!TypeOK' /\ L!NeverTaken
      BY <1>2 DEF L!Lease, L!Respected
    <2>2. places[s] \in SUBSET Callers /\ Cardinality(places[s]) < Limit
      BY <1>2, SameCount DEF L!Lease
    <2>3. Cardinality(places[s] \cup {h}) <= Limit
      BY <2>2, Counting, PoolAssumption
    <2>4. \A s2 \in Sessions : Cardinality(places'[s2]) <= Limit
      BY <1>2, <2>3, SameCount DEF L!Lease, L!Respected
    <2>5. \A s2 \in Sessions : session'[s2] \in {"free", "retired"} => places'[s2] = {}
      BY <1>2 DEF L!Lease, L!Respected
    <2>6. \A s2, s3 \in Sessions : s2 # s3 /\ places'[s2] \cap places'[s3] # {} =>
              session'[s2] = "lost" \/ session'[s3] = "lost"
      BY <1>2 DEF L!Lease, L!Respected
    <2>. QED  BY <2>1, <2>4, <2>5, <2>6, SameCount DEF L!Respected
  <1>3. ASSUME NEW h \in Callers, NEW s \in Sessions, L!Release(h, s)
        PROVE  L!TypeOK' /\ L!Respected' /\ L!NeverTaken
    <2>1. L!TypeOK' /\ L!NeverTaken
      BY <1>3 DEF L!Release, L!Respected
    <2>2. places[s] \in SUBSET Callers /\ Cardinality(places[s]) <= Limit
      BY SameCount DEF L!Respected
    <2>3. Cardinality(places[s] \ {h}) <= Limit
      <3>1. /\ Cardinality(places[s] \ {h}) <= Cardinality(places[s])
            /\ Cardinality(places[s]) \in Nat
        BY <2>2, Counting
      <3>2. Cardinality(places[s] \ {h}) \in Nat
        BY <2>2, Counting
      <3>. QED  BY <2>2, <3>1, <3>2, PoolAssumption
    <2>4. \A s2 \in Sessions : Cardinality(places'[s2]) <= Limit
      BY <1>3, <2>3, SameCount DEF L!Release, L!Respected
    <2>5. \A s2 \in Sessions : places'[s2] \subseteq places[s2] /\ session'[s2] = session[s2]
      BY <1>3 DEF L!Release
    <2>. QED  BY <2>1, <2>4, <2>5, SameCount DEF L!Respected
  <1>4. CASE UNCHANGED L!vars
    BY <1>4 DEF L!vars, L!Respected
  <1>. QED  BY <1>1, <1>2, <1>3, <1>4 DEF L!Next

LEMMA LeasesAreRespected == LeaseSpec => []L!Respected /\ [][L!NeverTaken]_(L!vars)
  <1>1. L!TypeOK /\ L!Respected /\ [L!Next]_(L!vars) =>
            L!TypeOK' /\ L!Respected' /\ [L!NeverTaken]_(L!vars)
    BY LeaseStep
  <1>. QED  BY <1>1, LeaseInit, PTL DEF LeaseSpec, L!Spec

\* Whatever callers, Closes and the network do at the same time, no connection has
\* a place on two sessions that live, no session more than MuxMaxStream streams,
\* and none is closed by the client under a stream.  This holds of all leases, and
\* so of the pool, which keeps them.
THEOREM ConnectionsKeepTheirPlaces == Spec => []L!Respected /\ [][L!NeverTaken]_(L!vars)
  BY PoolImplementsLeases, LeasesAreRespected, PTL
=============================================================================
