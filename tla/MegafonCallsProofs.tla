------------------------- MODULE MegafonCallsProofs -------------------------
(***************************************************************************)
(* The locks of calls, for any number of calls, events and goroutines: no  *)
(* event is handled by two goroutines at a time, and no two goroutines     *)
(* wait for each other.  And the status of every call, which needs none.   *)
(*                                                                         *)
(* A goroutine owns every call its event names from the last Lock to       *)
(* Unlock, and while it collects them, what it owns comes before what it   *)
(* still wants.                                                            *)
(*                                                                         *)
(* And what an event said stays in the row of its call: whoever is about   *)
(* to write that row under its lock has read what the row holds            *)
(* (AnchorOK), so that the write keeps it.                                 *)
(***************************************************************************)
EXTENDS MegafonCalls, TLAPS

Inside == {"try"} \cup Handling \cup {"unlock"}

LockTypeOK ==
    /\ at \in [Actor -> {"idle", "lock"} \cup Inside]
    /\ ev \in [Actor -> Event \cup {NoEvent}]
    /\ owner \in [CallId -> Worker \cup {Nobody}]

\* What a goroutine owns at its step.
Owns(w) ==
    /\ at[w] # "idle" => ev[w] \in Event
    /\ at[w] = "idle" => \A c \in CallId : owner[c] # w
    /\ at[w] = "lock" =>
          /\ Missing(w) # {}
          /\ \A c \in CallId : owner[c] = w => c \in Locked(ev[w])
          /\ \A c \in CallId, d \in Missing(w) : owner[c] = w => c < d
    /\ at[w] \in Inside => Missing(w) = {}

LocksOK == LockTypeOK /\ \A w \in Worker : Owns(w)

USE DEF Inside, Handling, Actor

\* lockCallChain locks one or two calls, which the order of strings compares.
LEMMA LockedFacts ==
    ASSUME NEW e \in Event
    PROVE  /\ Locked(e) \subseteq CallId /\ Locked(e) # {}
           /\ \A S \in SUBSET Locked(e) :
                S # {} => \E c \in S : \A d \in S : c <= d
  <1>1. Of[e] \in CallId /\ Second[e] \in CallId \cup {NoCall}
    BY ShapeAssumption
  <1>2. Locked(e) \subseteq CallId /\ Of[e] \in Locked(e)
    BY <1>1, ShapeAssumption DEF Locked, Names
  <1>3. ASSUME NEW S \in SUBSET Locked(e), S # {}
        PROVE  \E c \in S : \A d \in S : c <= d
    <2>1. \A c \in S : c \in Nat /\ c \in {Of[e], Second[e]}
      BY <1>2, ShapeAssumption DEF Locked, Names
    <2>2. CASE Of[e] \in S /\ Second[e] \in S
      BY <2>1, <2>2
    <2>3. CASE ~(Of[e] \in S /\ Second[e] \in S)
      BY <1>3, <2>1, <2>3
    <2> QED
      BY <2>2, <2>3
  <1> QED
    BY <1>2, <1>3

\* The next lock is wanted and before all others that are.
LEMMA NextLockFacts ==
    ASSUME LocksOK, NEW w \in Worker, at[w] = "lock"
    PROVE  /\ NextLock(w) \in Missing(w) /\ NextLock(w) \in CallId
           /\ \A d \in Missing(w) : NextLock(w) <= d
  <1>1. ev[w] \in Event /\ Missing(w) # {} /\ Missing(w) \subseteq Locked(ev[w])
    BY DEF LocksOK, Owns, Missing
  <1>2. \E c \in Missing(w) : \A d \in Missing(w) : c <= d
    BY <1>1, LockedFacts
  <1>3. NextLock(w) \in Missing(w) /\ \A d \in Missing(w) : NextLock(w) <= d
    BY <1>2 DEF NextLock
  <1> QED
    BY <1>1, <1>3, LockedFacts

LEMMA InitLocks == Init => LocksOK
  BY ShapeAssumption DEF Init, LocksOK, LockTypeOK, Owns

\* Steps of somebody else, and steps between two locks and the unlocking.
LEMMA LocksKept ==
    ASSUME LocksOK, NEW w \in Worker, at'[w] = at[w], ev'[w] = ev[w],
           \A c \in CallId : owner'[c] = w <=> owner[c] = w
    PROVE  Owns(w)'
  <1>1. ev[w] \in Event => Missing(w)' = Missing(w)
    BY LockedFacts DEF Missing, Locked, Names
  <1> QED
    BY <1>1 DEF LocksOK, Owns, Locked, Names

LEMMA InsideStep ==
    ASSUME LocksOK, NEW w \in Worker, at[w] \in Inside, NEW next \in Inside,
           at' = [at EXCEPT ![w] = next], UNCHANGED <<ev, owner>>
    PROVE  LocksOK'
  <1>1. LockTypeOK'
    BY DEF LocksOK, LockTypeOK
  <1>2. ASSUME NEW v \in Worker, v # w PROVE Owns(v)'
    BY <1>2, LocksKept DEF LocksOK, LockTypeOK
  <1>3. at'[w] = next
    BY DEF LocksOK, LockTypeOK
  <1>4. Owns(w)'
    BY <1>3 DEF LocksOK, Owns, Missing
  <1> QED
    BY <1>1, <1>2, <1>4 DEF LocksOK

LEMMA OtherStep ==
    ASSUME LocksOK, UNCHANGED <<ev, owner>>,
           \/ UNCHANGED at
           \/ \E next \in {"write", "idle"} : at' = [at EXCEPT ![Syncer] = next]
    PROVE  LocksOK'
  <1>1. LockTypeOK'
    BY DEF LocksOK, LockTypeOK
  <1>2. \A v \in Worker : at'[v] = at[v]
    BY ShapeAssumption DEF LocksOK, LockTypeOK
  <1>3. \A v \in Worker : Owns(v)'
    BY <1>2, LocksKept
  <1> QED
    BY <1>1, <1>3 DEF LocksOK

LEMMA TakeStep ==
    ASSUME LocksOK, NEW w \in Worker, NEW e \in Event, Take(w, e)
    PROVE  LocksOK'
  <1>1. /\ at[w] = "idle" /\ at' = [at EXCEPT ![w] = "lock"]
        /\ ev' = [ev EXCEPT ![w] = e] /\ owner' = owner
    BY DEF Take, Step
  <1>2. LockTypeOK'
    BY <1>1 DEF LocksOK, LockTypeOK
  <1>3. ASSUME NEW v \in Worker, v # w PROVE Owns(v)'
    BY <1>1, <1>3, LocksKept DEF LocksOK, LockTypeOK
  <1>4. at'[w] = "lock" /\ ev'[w] = e /\ \A c \in CallId : owner'[c] # w
    BY <1>1 DEF LocksOK, LockTypeOK, Owns
  <1>5. Missing(w)' # {}
    BY <1>4, LockedFacts DEF Missing, Locked, Names
  <1>6. Owns(w)'
    BY <1>4, <1>5 DEF Owns
  <1> QED
    BY <1>2, <1>3, <1>6 DEF LocksOK

LEMMA LockStep ==
    ASSUME LocksOK, NEW w \in Worker, Lock(w)
    PROVE  LocksOK'
  <1> DEFINE k == NextLock(w)
  <1>1. /\ at[w] = "lock" /\ owner[k] = Nobody /\ owner' = [owner EXCEPT ![k] = w] /\ ev' = ev
        /\ at' = [at EXCEPT ![w] = IF Missing(w) = {k} THEN "try" ELSE @]
    BY DEF Lock
  <1>2. k \in Missing(w) /\ k \in CallId /\ \A d \in Missing(w) : k <= d
    BY <1>1, NextLockFacts
  <1> HIDE DEF k
  <1>3. LockTypeOK'
    BY <1>1, <1>2 DEF LocksOK, LockTypeOK
  <1>4. \A c \in CallId : owner'[c] = IF c = k THEN w ELSE owner[c]
    BY <1>1, <1>2 DEF LocksOK, LockTypeOK
  <1>5. ASSUME NEW v \in Worker, v # w PROVE Owns(v)'
    <2>1. \A c \in CallId : owner'[c] = v <=> owner[c] = v
      BY <1>1, <1>2, <1>4, <1>5, ShapeAssumption
    <2>2. at'[v] = at[v] /\ ev'[v] = ev[v]
      BY <1>1, <1>5 DEF LocksOK, LockTypeOK
    <2> QED
      BY <2>1, <2>2, LocksKept
  <1>6. ev[w] \in Event /\ Locked(ev[w]) \subseteq CallId
    BY <1>1, LockedFacts DEF LocksOK, Owns
  <1>7. Missing(w)' = Missing(w) \ {k}
    BY <1>1, <1>2, <1>4, <1>6 DEF Missing, Locked, Names
  <1>8. \A c \in CallId : owner'[c] = w => c \in Locked(ev[w])
    BY <1>1, <1>2, <1>4 DEF LocksOK, Owns, Missing
  <1>9. ASSUME NEW c \in CallId, NEW d \in Missing(w)', owner'[c] = w PROVE c < d
    <2>1. d \in Missing(w) /\ d # k /\ k \in Nat /\ d \in Nat
      BY <1>2, <1>6, <1>7, ShapeAssumption DEF Missing
    <2>2. CASE c = k
      BY <1>2, <2>1, <2>2
    <2>3. CASE c # k
      BY <1>1, <1>4, <1>9, <2>1, <2>3 DEF LocksOK, Owns
    <2> QED
      BY <2>2, <2>3
  <1>10. CASE Missing(w) = {k}
    <2>1. at'[w] = "try" /\ Missing(w)' = {}
      BY <1>1, <1>7, <1>10 DEF LocksOK, LockTypeOK
    <2> QED
      BY <1>1, <1>3, <1>5, <1>6, <2>1 DEF LocksOK, Owns
  <1>11. CASE Missing(w) # {k}
    <2>1. at'[w] = "lock" /\ Missing(w)' # {}
      BY <1>1, <1>2, <1>7, <1>11 DEF LocksOK, LockTypeOK
    <2>2. Locked(ev[w])' = Locked(ev[w])
      BY <1>1 DEF Locked, Names
    <2>3. Owns(w)'
      BY <1>1, <1>6, <1>8, <1>9, <2>1, <2>2 DEF Owns
    <2> QED
      BY <1>3, <1>5, <2>3 DEF LocksOK
  <1> QED
    BY <1>10, <1>11

LEMMA UnlockStep ==
    ASSUME LocksOK, NEW w \in Worker, Unlock(w)
    PROVE  LocksOK'
  <1>1. /\ at[w] = "unlock" /\ at' = [at EXCEPT ![w] = "idle"]
        /\ ev' = [ev EXCEPT ![w] = NoEvent] /\ owner' = Released(w)
    BY DEF Unlock, Step
  <1>2. \A c \in CallId : owner'[c] = IF owner[c] = w THEN Nobody ELSE owner[c]
    BY <1>1 DEF Released
  <1>3. LockTypeOK'
    BY <1>1 DEF LocksOK, LockTypeOK, Released
  <1>4. ASSUME NEW v \in Worker, v # w PROVE Owns(v)'
    <2>1. \A c \in CallId : owner'[c] = v <=> owner[c] = v
      BY <1>2, <1>4, ShapeAssumption
    <2>2. at'[v] = at[v] /\ ev'[v] = ev[v]
      BY <1>1, <1>4 DEF LocksOK, LockTypeOK
    <2> QED
      BY <2>1, <2>2, LocksKept
  <1>5. at'[w] = "idle" /\ \A c \in CallId : owner'[c] # w
    BY <1>1, <1>2, ShapeAssumption DEF LocksOK, LockTypeOK
  <1>6. Owns(w)'
    BY <1>5 DEF Owns
  <1> QED
    BY <1>3, <1>4, <1>6 DEF LocksOK

LEMMA HandleStep ==
    ASSUME LocksOK, NEW w \in Worker, Handle(w)
    PROVE  LocksOK'
  <1>1. CASE TryMark(w)
    BY <1>1, InsideStep DEF TryMark, Step
  <1>2. CASE TryMarkFails(w)
    BY <1>2, InsideStep DEF TryMarkFails, Step
  <1>3. CASE Skip(w)
    BY <1>3, InsideStep DEF Skip, Step
  <1>4. CASE Read(w)
    <2>1. PICK next \in {"second", "write"} : at[w] = "read" /\ at' = [at EXCEPT ![w] = next]
      BY <1>4 DEF Read, Step
    <2> QED
      BY <1>4, <2>1, InsideStep DEF Read
  <1>5. CASE ReadSecond(w)
    BY <1>5, InsideStep DEF ReadSecond, Step
  <1>6. CASE Write(w)
    BY <1>6, InsideStep DEF Write, Step, Locks
  <1>7. CASE AddCallEvent(w)
    BY <1>7, InsideStep DEF AddCallEvent, Step
  <1>8. CASE HandlerFails(w)
    BY <1>8, InsideStep DEF HandlerFails
  <1>9. CASE Store(w)
    BY <1>9, InsideStep DEF Store, Leave
  <1>10. CASE StoreFails(w)
    BY <1>10, InsideStep DEF StoreFails, Leave
  <1>11. CASE Unlock(w)
    BY <1>11, UnlockStep
  <1> QED
    BY <1>1, <1>2, <1>3, <1>4, <1>5, <1>6, <1>7, <1>8, <1>9, <1>10, <1>11 DEF Handle

LEMMA RestartStep == ASSUME LocksOK, Restart PROVE LocksOK'
  <1>1. LockTypeOK'
    BY DEF Restart, LockTypeOK
  <1>2. ASSUME NEW w \in Worker PROVE Owns(w)'
    BY ShapeAssumption DEF Restart, Owns
  <1> QED
    BY <1>1, <1>2 DEF LocksOK

LEMMA StepLocks == LocksOK /\ [Next]_vars => LocksOK'
  <1> SUFFICES ASSUME LocksOK, [Next]_vars PROVE LocksOK'
    OBVIOUS
  <1>1. CASE UNCHANGED vars
    BY <1>1, OtherStep DEF vars, actorVars
  <1>2. ASSUME NEW e \in Event,
               Receive(e) \/ ReplayEvent(e) \/ Dispatch(e) \/ MarkQueued(e) \/ MarkQueuedFails(e)
        PROVE  LocksOK'
    BY <1>2, OtherStep DEF Receive, ReplayEvent, Dispatch, MarkQueued, MarkQueuedFails, actorVars
  <1>3. ASSUME NEW w \in Worker, Lock(w) PROVE LocksOK'
    BY <1>3, LockStep
  <1>4. ASSUME NEW w \in Worker, Handle(w) PROVE LocksOK'
    BY <1>4, HandleStep
  <1>5. ASSUME NEW w \in Worker, NEW e \in Event, Take(w, e) PROVE LocksOK'
    BY <1>5, TakeStep
  <1>6. CASE SyncWrite
    BY <1>6, OtherStep DEF SyncWrite, Step
  <1>7. ASSUME NEW c \in CallId, SyncRead(c) PROVE LocksOK'
    BY <1>7, OtherStep DEF SyncRead, Step
  <1>8. CASE Restart
    BY <1>8, RestartStep
  <1> QED
    BY <1>1, <1>2, <1>3, <1>4, <1>5, <1>6, <1>7, <1>8 DEF Next, Recover

\* From the last Lock to Unlock a goroutine owns every call its event names, and before
\* it owns only calls that come before those it still wants (lockCallChain).
THEOREM LocksHold == Spec => []LocksOK
  BY InitLocks, StepLocks, PTL DEF Spec

-----------------------------------------------------------------------------
LEMMA LocksExclude == LocksOK => OneHandler
  <1> SUFFICES ASSUME LocksOK, NEW v \in Worker, NEW w \in Worker, v # w, ev[v] = ev[w],
                      at[v] \in Handling, at[w] \in Handling
               PROVE  FALSE
    BY DEF OneHandler
  <1>1. ev[v] \in Event /\ Missing(v) = {} /\ Missing(w) = {}
    BY DEF LocksOK, Owns
  <1>2. PICK c \in Locked(ev[v]) : TRUE
    BY <1>1, LockedFacts
  <1> QED
    BY <1>1, <1>2 DEF Missing

\* No event is handled by two goroutines at a time, whatever messages, replays and late
\* marks say about it (processIncomingEvent).
THEOREM OneHandlerHolds == Spec => []OneHandler
  BY LocksHold, LocksExclude, PTL

LEMMA LocksOrder == LocksOK => NoWaitCycle
  <1> SUFFICES ASSUME LocksOK, NEW v \in Worker, NEW w \in Worker, v # w,
                      at[v] = "lock", at[w] = "lock",
                      owner[NextLock(v)] = w, owner[NextLock(w)] = v
               PROVE  FALSE
    BY DEF NoWaitCycle
  <1>1. NextLock(v) \in CallId /\ NextLock(v) \in Missing(v)
    BY NextLockFacts
  <1>2. NextLock(w) \in CallId /\ NextLock(w) \in Missing(w)
    BY NextLockFacts
  <1>3. NextLock(w) < NextLock(v)
    BY <1>1, <1>2 DEF LocksOK, Owns
  <1>4. NextLock(v) < NextLock(w)
    BY <1>1, <1>2 DEF LocksOK, Owns
  <1>5. NextLock(v) \in Nat /\ NextLock(w) \in Nat
    BY <1>1, <1>2, ShapeAssumption
  <1>6. \A c, d \in Nat : ~(c < d /\ d < c)
    OBVIOUS
  <1> QED
    BY <1>3, <1>4, <1>5, <1>6

\* Events that lock the same calls never wait for each other, in whatever order they
\* name them (lockCallChain).
THEOREM NoWaitCycleHolds == Spec => []NoWaitCycle
  BY LocksHold, LocksOrder, PTL

-----------------------------------------------------------------------------
(* The status of a call, and of every row somebody is about to write, is   *)
(* the furthest of what has been absorbed.                                 *)

Marker == Event \cup {Syncer}
Reports(m) == IF m = Syncer THEN 50 ELSE Says[m]

Furthest(marks, r) ==
    /\ marks \subseteq Marker /\ r \in Rank
    /\ r = 0 \/ \E m \in marks : Reports(m) = r
    /\ \A m \in marks : Reports(m) <= r

CallsFurthest ==
    /\ call \in [CallId -> [known : BOOLEAN, marks : SUBSET Marker, rank : Rank]]
    /\ \A c \in CallId : Furthest(call[c].marks, call[c].rank)

SnapsFurthest ==
    /\ DOMAIN snap = Actor
    /\ \A a \in Actor :
         /\ DOMAIN snap[a] = {"id", "marks", "rank"}
         /\ Furthest(snap[a].marks, snap[a].rank)

RanksOK == CallsFurthest /\ SnapsFurthest

\* Only a transfer reads a second row.
LinksOK == \A w \in Worker : at[w] = "second" => Second[ev[w]] \in CallId

LEMMA LinksStep == LocksOK /\ LinksOK /\ [Next]_vars => LinksOK'
  <1> SUFFICES ASSUME LocksOK, LinksOK, [Next]_vars, NEW w \in Worker, at'[w] = "second"
               PROVE  Second[ev'[w]] \in CallId
    BY DEF LinksOK
  <1> USE DEF Step, LocksOK, LockTypeOK
  <1>1. CASE at'[w] = at[w] /\ ev'[w] = ev[w]
    BY <1>1 DEF LinksOK
  <1>2. CASE Read(w)
    <2>1. ev[w] \in Event /\ ev' = ev /\ Links(ev[w])
      BY <1>2 DEF Read, Owns
    <2> QED
      BY <2>1, ShapeAssumption DEF Links
  <1>3. ASSUME NEW v \in Worker, v # w, Lock(v) \/ Handle(v) \/ \E e \in Event : Take(v, e)
        PROVE  at'[w] = at[w] /\ ev'[w] = ev[w]
    BY <1>3 DEF Lock, Take, Handle, TryMark, TryMarkFails, Skip, Read, ReadSecond, Write,
                AddCallEvent, HandlerFails, Store, StoreFails, Leave, Unlock
  <1>4. ~(Lock(w) \/ \E e \in Event : Take(w, e))
    BY DEF Lock, Take
  <1>5. Handle(w) => Read(w)
    BY DEF Handle, TryMark, TryMarkFails, Skip, ReadSecond, Write, AddCallEvent,
           HandlerFails, Store, StoreFails, Leave, Unlock
  <1>6. ASSUME NEW e \in Event,
               Receive(e) \/ ReplayEvent(e) \/ Dispatch(e) \/ MarkQueued(e) \/ MarkQueuedFails(e)
        PROVE  UNCHANGED <<at, ev>>
    BY <1>6 DEF Receive, ReplayEvent, Dispatch, MarkQueued, MarkQueuedFails, actorVars
  <1>7. ASSUME SyncWrite \/ \E c \in CallId : SyncRead(c)
        PROVE  at'[w] = at[w] /\ ev'[w] = ev[w]
    BY <1>7, ShapeAssumption DEF SyncWrite, SyncRead
  <1>8. ~Restart
    BY DEF Restart
  <1>9. CASE UNCHANGED vars
    BY <1>1, <1>9 DEF vars, actorVars
  <1> QED
    BY <1>1, <1>2, <1>3, <1>4, <1>5, <1>6, <1>7, <1>8, <1>9 DEF Next

LEMMA ReportsFacts == \A m \in Marker : Reports(m) \in Rank /\ Reports(m) \in Nat
  BY ShapeAssumption DEF Marker, Reports, Rank

LEMMA EmptyFurthest == Furthest({}, 0)
  BY DEF Furthest, Rank

\* Two rows are merged (mergeMegafonCallSnapshots).
LEMMA MergeFurthest ==
    ASSUME NEW m, NEW n, NEW r, NEW q, Furthest(m, r), Furthest(n, q)
    PROVE  Furthest(m \cup n, MergeRank(r, q))
  <1>1. r \in Nat /\ q \in Nat
    BY DEF Furthest, Rank
  <1>2. \A k \in m \cup n : Reports(k) \in Nat
    BY ReportsFacts DEF Furthest
  <1>3. CASE q >= r
    <2>1. MergeRank(r, q) = q
      BY <1>3 DEF MergeRank
    <2>2. \A k \in m \cup n : Reports(k) <= q
      BY <1>1, <1>2, <1>3 DEF Furthest
    <2> QED
      BY <2>1, <2>2 DEF Furthest
  <1>4. CASE ~(q >= r)
    <2>1. MergeRank(r, q) = r
      BY <1>4 DEF MergeRank
    <2>2. \A k \in m \cup n : Reports(k) <= r
      BY <1>1, <1>2, <1>4 DEF Furthest
    <2>3. r = 0 \/ \E k \in m \cup n : Reports(k) = r
      BY DEF Furthest
    <2> QED
      BY <2>1, <2>2, <2>3 DEF Furthest
  <1> QED
    BY <1>3, <1>4

\* A row absorbs an event, or what the provider's history says.
LEMMA AbsorbFurthest ==
    ASSUME NEW a \in Actor, NEW k \in Marker, Furthest(snap[a].marks, snap[a].rank)
    PROVE  LET row2 == Absorb(a, k, Reports(k)) IN
             /\ row2 \in [known : BOOLEAN, marks : SUBSET Marker, rank : Rank]
             /\ Furthest(row2.marks, row2.rank)
  <1>1. Furthest({k}, Reports(k))
    BY ReportsFacts DEF Furthest
  <1>2. Furthest(snap[a].marks \cup {k}, MergeRank(snap[a].rank, Reports(k)))
    BY <1>1, MergeFurthest
  <1> QED
    BY <1>2 DEF Absorb, Furthest

LEMMA LoadFurthest ==
    ASSUME RanksOK, NEW a \in Actor, NEW c \in CallId, snap' = [snap EXCEPT ![a] = Load(c)]
    PROVE  SnapsFurthest'
  BY DEF RanksOK, CallsFurthest, SnapsFurthest, Load

LEMMA ForgetFurthest ==
    ASSUME RanksOK, NEW a \in Actor, snap' = [snap EXCEPT ![a] = NoSnap]
    PROVE  SnapsFurthest'
  BY EmptyFurthest DEF RanksOK, SnapsFurthest, NoSnap

LEMMA TargetsFacts == \A c \in CallId : Targets(c) \subseteq CallId
  BY DEF Targets, Found

LEMMA ReadSecondRanks ==
    ASSUME LinksOK, RanksOK, NEW w \in Worker, ReadSecond(w)
    PROVE  RanksOK'
  <1>1. CASE UNCHANGED <<snap, merged>>
    BY <1>1 DEF ReadSecond, callVars, RanksOK, CallsFurthest, SnapsFurthest
  <1>2. CASE ~UNCHANGED <<snap, merged>>
    <2>1. PICK c \in Found(Second[ev[w]]) \ {snap[w].id} :
            snap' = [snap EXCEPT ![w].marks = @ \cup call[c].marks,
                                 ![w].rank = MergeRank(@, call[c].rank)]
      BY <1>2 DEF ReadSecond
    <2>2. c \in CallId
      BY <2>1 DEF ReadSecond, Step, LinksOK, Found
    <2>3. Furthest(snap[w].marks \cup call[c].marks, MergeRank(snap[w].rank, call[c].rank))
      BY <2>2, MergeFurthest DEF RanksOK, CallsFurthest, SnapsFurthest
    <2>4. \A a \in Actor :
            snap'[a] = IF a = w THEN [snap[w] EXCEPT !.marks = snap[w].marks \cup call[c].marks,
                                                     !.rank = MergeRank(snap[w].rank, call[c].rank)]
                                ELSE snap[a]
      BY <2>1 DEF RanksOK, SnapsFurthest
    <2>5. DOMAIN snap' = Actor
      BY <2>1 DEF RanksOK, SnapsFurthest
    <2>6. SnapsFurthest'
      BY <2>3, <2>4, <2>5 DEF RanksOK, SnapsFurthest
    <2> QED
      BY <2>6 DEF ReadSecond, callVars, RanksOK, CallsFurthest
  <1> QED
    BY <1>1, <1>2

LEMMA WriteRanks ==
    ASSUME LocksOK, RanksOK, NEW w \in Worker, Write(w)
    PROVE  RanksOK'
  <1>1. at[w] = "write"
    BY DEF Write, Step
  <1>2. ev[w] \in Event
    BY <1>1 DEF LocksOK, Owns
  <1>3. ev[w] \in Marker /\ Says[ev[w]] = Reports(ev[w])
    BY <1>2, ShapeAssumption DEF Marker, Reports
  <1> DEFINE new == Absorb(w, ev[w], Says[ev[w]])
  <1>4. /\ new \in [known : BOOLEAN, marks : SUBSET Marker, rank : Rank]
        /\ Furthest(new.marks, new.rank)
    BY <1>3, AbsorbFurthest DEF RanksOK, SnapsFurthest
  <1>5. call' = [c \in CallId |-> CASE c = snap[w].id -> new
                                   [] c = merged[w] -> Absent
                                   [] OTHER -> call[c]]
    BY DEF Write
  <1> HIDE DEF new
  <1>6. \A c \in CallId : call'[c] \in {new, Absent, call[c]}
    BY <1>5
  <1>7. /\ Absent \in [known : BOOLEAN, marks : SUBSET Marker, rank : Rank]
        /\ Furthest(Absent.marks, Absent.rank)
    BY EmptyFurthest DEF Absent, Rank
  <1>8. CallsFurthest'
    BY <1>4, <1>5, <1>6, <1>7 DEF RanksOK, CallsFurthest
  <1>9. SnapsFurthest'
    BY DEF Write, RanksOK, SnapsFurthest
  <1> QED
    BY <1>8, <1>9 DEF RanksOK

LEMMA SyncWriteRanks ==
    ASSUME RanksOK, SyncWrite
    PROVE  RanksOK'
  <1> DEFINE new == Absorb(Syncer, Syncer, 50)
  <1>1. Syncer \in Marker /\ Reports(Syncer) = 50
    BY DEF Marker, Reports
  <1>2. /\ new \in [known : BOOLEAN, marks : SUBSET Marker, rank : Rank]
        /\ Furthest(new.marks, new.rank)
    BY <1>1, AbsorbFurthest DEF RanksOK, SnapsFurthest
  <1>3. call' = [call EXCEPT ![snap[Syncer].id] = new]
    BY DEF SyncWrite
  <1> HIDE DEF new
  <1>4. CallsFurthest'
    BY <1>2, <1>3 DEF RanksOK, CallsFurthest
  <1>5. SnapsFurthest'
    BY ForgetFurthest DEF SyncWrite
  <1> QED
    BY <1>4, <1>5 DEF RanksOK

LEMMA HandleRanks ==
    ASSUME LocksOK, LinksOK, RanksOK, NEW w \in Worker, Handle(w)
    PROVE  RanksOK'
  <1>1. CASE UNCHANGED <<call, snap>>
    BY <1>1 DEF RanksOK, CallsFurthest, SnapsFurthest
  <1>2. CASE Read(w)
    <2>1. ev[w] \in Event
      BY <1>2 DEF Read, Step, LocksOK, Owns
    <2>2. Of[ev[w]] \in CallId
      BY <2>1, ShapeAssumption
    <2>3. PICK c \in CallId : snap' = [snap EXCEPT ![w] = Load(c)]
      BY <1>2, <2>2, TargetsFacts DEF Read
    <2>4. SnapsFurthest'
      BY <2>3, LoadFurthest
    <2> QED
      BY <1>2, <2>4 DEF Read, callVars, RanksOK, CallsFurthest
  <1>3. CASE ReadSecond(w)
    BY <1>3, ReadSecondRanks
  <1>4. CASE Write(w)
    BY <1>4, WriteRanks
  <1>5. CASE Store(w) \/ StoreFails(w)
    <2>1. SnapsFurthest'
      BY <1>5, ForgetFurthest DEF Store, StoreFails, Leave
    <2> QED
      BY <1>5, <2>1 DEF Store, StoreFails, callVars, RanksOK, CallsFurthest
  <1> QED
    BY <1>1, <1>2, <1>3, <1>4, <1>5
       DEF Handle, TryMark, TryMarkFails, Skip, AddCallEvent, HandlerFails, Unlock, callVars

LEMMA RestartRanks ==
    ASSUME RanksOK, Restart
    PROVE  RanksOK'
  <1>1. snap' = [a \in Actor |-> NoSnap] /\ call' = call
    BY DEF Restart, callVars
  <1> QED
    BY <1>1, EmptyFurthest DEF RanksOK, CallsFurthest, SnapsFurthest, NoSnap

LEMMA InitRanks == Init => LinksOK /\ RanksOK
  <1> SUFFICES ASSUME Init PROVE LinksOK /\ RanksOK
    OBVIOUS
  <1>1. LinksOK
    BY DEF Init, LinksOK
  <1>2. CallsFurthest
    BY EmptyFurthest DEF Init, Absent, CallsFurthest, Rank
  <1>3. SnapsFurthest
    BY EmptyFurthest DEF Init, NoSnap, SnapsFurthest
  <1> QED
    BY <1>1, <1>2, <1>3 DEF RanksOK

LEMMA StepRanks == LocksOK /\ LinksOK /\ RanksOK /\ [Next]_vars => RanksOK'
  <1> SUFFICES ASSUME LocksOK, LinksOK, RanksOK, [Next]_vars PROVE RanksOK'
    OBVIOUS
  <1>1. CASE UNCHANGED <<call, snap>>
    BY <1>1 DEF RanksOK, CallsFurthest, SnapsFurthest
  <1>2. ASSUME NEW w \in Worker, Handle(w) PROVE RanksOK'
    BY <1>2, HandleRanks
  <1>3. CASE SyncWrite
    BY <1>3, SyncWriteRanks
  <1>4. ASSUME NEW c \in CallId, SyncRead(c) PROVE RanksOK'
    <2>1. PICK d \in CallId : snap' = [snap EXCEPT ![Syncer] = Load(d)]
      BY <1>4, TargetsFacts DEF SyncRead
    <2>2. SnapsFurthest'
      BY <2>1, LoadFurthest
    <2> QED
      BY <1>4, <2>2 DEF SyncRead, callVars, RanksOK, CallsFurthest
  <1>5. CASE Restart
    BY <1>5, RestartRanks
  <1>6. ASSUME NEW e \in Event,
               Receive(e) \/ ReplayEvent(e) \/ Dispatch(e) \/ MarkQueued(e) \/ MarkQueuedFails(e)
        PROVE  UNCHANGED <<call, snap>>
    BY <1>6 DEF Receive, ReplayEvent, Dispatch, MarkQueued, MarkQueuedFails, actorVars, callVars
  <1>7. ASSUME NEW w \in Worker, Lock(w) \/ \E e \in Event : Take(w, e)
        PROVE  UNCHANGED <<call, snap>>
    BY <1>7 DEF Lock, Take, callVars
  <1>8. CASE UNCHANGED vars
    BY <1>1, <1>8 DEF vars, actorVars, callVars
  <1> QED
    BY <1>1, <1>2, <1>3, <1>4, <1>5, <1>6, <1>7, <1>8 DEF Next

LEMMA RanksGive == RanksOK => StatusIsFurthest
  <1> SUFFICES ASSUME RanksOK, NEW c \in CallId
               PROVE  call[c].rank =
                        Largest({0} \cup {Says[e] : e \in call[c].marks \ {Syncer}}
                                    \cup (IF Syncer \in call[c].marks THEN {50} ELSE {}))
    BY DEF StatusIsFurthest
  <1> DEFINE r == call[c].rank
             S == {0} \cup {Says[e] : e \in call[c].marks \ {Syncer}}
                      \cup (IF Syncer \in call[c].marks THEN {50} ELSE {})
  <1>1. Furthest(call[c].marks, r)
    BY DEF RanksOK, CallsFurthest
  <1>2. r \in S
    BY <1>1 DEF Furthest, Reports
  <1>3. \A q \in S : q \in Nat /\ q <= r
    BY <1>1, ReportsFacts DEF Furthest, Reports, Rank
  <1>4. r \in Nat
    BY <1>1 DEF Furthest, Rank
  <1> HIDE DEF r, S
  <1>5. Largest(S) \in S /\ r <= Largest(S)
    BY <1>2, <1>3 DEF Largest
  <1>6. r = Largest(S)
    BY <1>3, <1>4, <1>5
  <1> QED
    BY <1>6 DEF r, S

\* In whatever order events are processed, merged, replayed, interrupted and overwritten
\* by SyncHistory, the status of a call is the furthest of what its row has absorbed
\* (mergeMegafonEventStatus, mergeMegafonCallSnapshots).
THEOREM StatusIsFurthestHolds == Spec => []StatusIsFurthest
  <1>1. LocksOK /\ LinksOK /\ RanksOK /\ [Next]_vars => LocksOK' /\ LinksOK' /\ RanksOK'
    BY StepLocks, LinksStep, StepRanks
  <1> QED
    BY <1>1, InitLocks, InitRanks, RanksGive, PTL DEF Spec

-----------------------------------------------------------------------------
(* What a safe event said stays in some row.  It is anchored there: nobody *)
(* who has read that row and is to write it, or to merge it into another,  *)
(* has missed the event.                                                   *)

Anchored(e, c) ==
    /\ e \in call[c].marks
    /\ \A a \in Actor : Reading(a, c) => e \in snap[a].marks

AllAnchored == \A e \in safe : \E c \in CallId : Anchored(e, c)

\* A second row is in hand only between ReadSecond and the outcome.
MergedOK ==
    /\ DOMAIN merged = Actor
    /\ \A a \in Actor : at[a] \notin {"write", "log", "done", "failed"} => merged[a] = NoCall
    /\ merged[Syncer] = NoCall

\* The first row in hand is that of a call, the second one another row.
IdsOK ==
    \A a \in Actor :
        at[a] \in {"second", "write"} => snap[a].id \in CallId /\ merged[a] # snap[a].id

\* Which step an actor is at; the locks say it of goroutines.
SyncerOK == DOMAIN at = Actor /\ at[Syncer] \in {"idle", "write"}

AnchorOK == LinksOK /\ RanksOK /\ MergedOK /\ IdsOK /\ SyncerOK /\ AllAnchored

\* Two goroutines that work on events of one call are not both past its lock.
LEMMA DirectReaders ==
    ASSUME LocksOK, NEW a \in Actor, NEW b \in Actor, a # b, NEW c \in CallId,
           at[a] \in Handling, at[b] \in Handling, Direct(a, c), Direct(b, c)
    PROVE  FALSE
  <1>1. a \in Worker /\ b \in Worker
    BY DEF Direct
  <1>2. ev[a] \in Event /\ ev[b] \in Event /\ Missing(a) = {} /\ Missing(b) = {}
    BY <1>1 DEF LocksOK, Owns
  <1>3. c \in Locked(ev[a]) /\ c \in Locked(ev[b])
    BY DEF Direct, Locked
  <1> QED
    BY <1>2, <1>3 DEF Missing

\* The rows stay as they are, and whoever reads one already read it, or has read
\* all that is in it now.
LEMMA AnchorsKept ==
    ASSUME AllAnchored, UNCHANGED <<call, safe>>,
           \A a \in Actor, c \in CallId :
              Reading(a, c)' =>
                 \/ Reading(a, c) /\ snap[a].marks \subseteq snap'[a].marks
                 \/ call[c].marks \subseteq snap'[a].marks
    PROVE  AllAnchored'
  <1> SUFFICES ASSUME NEW e \in safe PROVE \E c \in CallId : Anchored(e, c)'
    BY DEF AllAnchored
  <1>1. PICK c \in CallId : Anchored(e, c)
    BY DEF AllAnchored
  <1>2. ASSUME NEW a \in Actor, Reading(a, c)' PROVE e \in snap'[a].marks
    BY <1>1, <1>2 DEF Anchored
  <1> QED
    BY <1>1, <1>2 DEF Anchored

LEMMA ReadAnchors ==
    ASSUME LocksOK, AnchorOK, NEW a \in Actor, NEW c \in CallId,
           at[a] \notin {"write", "log", "done", "failed"},
           snap' = [snap EXCEPT ![a] = Load(c)],
           \E next : at' = [at EXCEPT ![a] = next],
           UNCHANGED <<call, safe, merged>>
    PROVE  AllAnchored'
  <1>1. snap'[a] = Load(c) /\ \A b \in Actor \ {a} : snap'[b] = snap[b] /\ at'[b] = at[b]
    BY DEF AnchorOK, RanksOK, SnapsFurthest, SyncerOK
  <1>2. merged[a] = NoCall
    BY DEF AnchorOK, MergedOK
  <1>3. ASSUME NEW b \in Actor, NEW d \in CallId, Reading(b, d)'
        PROVE  \/ Reading(b, d) /\ snap[b].marks \subseteq snap'[b].marks
               \/ call[d].marks \subseteq snap'[b].marks
    <2>1. CASE b = a
      BY <1>1, <1>2, <1>3, <2>1, ShapeAssumption DEF Reading, Load
    <2>2. CASE b # a
      BY <1>1, <1>3, <2>2 DEF Reading
    <2> QED
      BY <2>1, <2>2
  <1> QED
    BY <1>3, AnchorsKept DEF AnchorOK

LEMMA ReadSecondAnchors ==
    ASSUME LocksOK, AnchorOK, NEW w \in Worker, ReadSecond(w)
    PROVE  AllAnchored'
  <1>1. /\ at[w] = "second" /\ at' = [at EXCEPT ![w] = "write"]
        /\ UNCHANGED <<call, safe>>
    BY DEF ReadSecond, Step, callVars
  <1>2. \A b \in Actor \ {w} : at'[b] = at[b]
    BY <1>1 DEF AnchorOK, SyncerOK
  <1>3. CASE UNCHANGED <<snap, merged>>
    <2>1. ASSUME NEW b \in Actor, NEW d \in CallId, Reading(b, d)' PROVE Reading(b, d)
      BY <1>1, <1>2, <1>3, <2>1 DEF Reading
    <2> QED
      BY <1>1, <1>3, <2>1, AnchorsKept DEF AnchorOK
  <1>4. CASE ~UNCHANGED <<snap, merged>>
    <2>1. PICK c \in Found(Second[ev[w]]) \ {snap[w].id} :
            /\ snap' = [snap EXCEPT ![w].marks = @ \cup call[c].marks,
                                    ![w].rank = MergeRank(@, call[c].rank)]
            /\ merged' = [merged EXCEPT ![w] = c]
      BY <1>4 DEF ReadSecond
    <2>2. /\ snap'[w].id = snap[w].id /\ snap'[w].marks = snap[w].marks \cup call[c].marks
          /\ merged'[w] = c
          /\ \A b \in Actor \ {w} : snap'[b] = snap[b] /\ merged'[b] = merged[b]
      BY <2>1 DEF AnchorOK, RanksOK, SnapsFurthest, MergedOK
    <2>3. ASSUME NEW b \in Actor, NEW d \in CallId, Reading(b, d)'
          PROVE  \/ Reading(b, d) /\ snap[b].marks \subseteq snap'[b].marks
                 \/ call[d].marks \subseteq snap'[b].marks
      <3>1. CASE b = w
        BY <1>1, <2>2, <2>3, <3>1 DEF Reading
      <3>2. CASE b # w
        BY <1>2, <2>2, <2>3, <3>2 DEF Reading
      <3> QED
        BY <3>1, <3>2
    <2> QED
      BY <1>1, <2>3, AnchorsKept DEF AnchorOK
  <1> QED
    BY <1>3, <1>4

\* Whoever else has read the row that w writes is past no lock of it, and then nothing
\* w has absorbed is safe any more.
LEMMA WriteAnchors ==
    ASSUME LocksOK, AnchorOK, NEW w \in Worker, Write(w)
    PROVE  AllAnchored'
  <1>0. PICK id \in CallId, e \in Event : id = snap[w].id /\ e = ev[w]
    BY DEF Write, Step, AnchorOK, IdsOK, LocksOK, Owns
  <1> DEFINE new == Absorb(w, e, Says[e])
  <1>1. /\ at[w] = "write" /\ at' = [at EXCEPT ![w] = "log"] /\ UNCHANGED <<snap, merged, ev>>
        /\ call' = [c \in CallId |-> CASE c = id -> new
                                       [] c = merged[w] -> Absent
                                       [] OTHER -> call[c]]
        /\ safe' = IF Alone(w) THEN safe \cup {e} ELSE safe \ snap[w].marks
    BY <1>0 DEF Write, Step
  <1>2. new.marks = snap[w].marks \cup {e}
    BY DEF Absorb
  <1> HIDE DEF new
  <1>3. ASSUME NEW b \in Actor, NEW d \in CallId, Reading(b, d)'
        PROVE  Reading(b, d) /\ b # w
    BY <1>1, <1>3 DEF Reading, AnchorOK, SyncerOK
  <1>4. \A d \in CallId \ {id, merged[w]} : call'[d] = call[d]
    BY <1>1
  <1>5. call'[id] = new
    BY <1>0, <1>1 DEF AnchorOK, IdsOK
  <1>6. ASSUME Alone(w), NEW f \in snap[w].marks \cup {e} PROVE Anchored(f, id)'
    <2>1. ASSUME NEW b \in Actor, Reading(b, id)' PROVE FALSE
      <3>1. Reading(b, id) /\ b # w
        BY <1>3, <2>1
      <3>2. Direct(w, id) /\ Direct(b, id)
        BY <1>0, <1>6, <3>1 DEF Alone
      <3>3. at[b] \in Handling /\ at[w] \in Handling
        BY <1>1, <3>1 DEF Reading
      <3> QED
        BY <3>1, <3>2, <3>3, DirectReaders
    <2> QED
      BY <1>2, <1>5, <1>6, <2>1 DEF Anchored
  <1>7. ASSUME NEW f \in safe' PROVE \E c \in CallId : Anchored(f, c)'
    <2>1. CASE Alone(w) /\ f = e
      BY <1>6, <2>1
    <2>2. CASE ~(Alone(w) /\ f = e)
      <3>1. f \in safe /\ (f \in snap[w].marks => Alone(w))
        BY <1>1, <1>7, <2>2
      <3>2. PICK c \in CallId : Anchored(f, c)
        BY <3>1 DEF AnchorOK, AllAnchored
      <3>3. CASE c \in {id, merged[w]}
        <4>1. f \in snap[w].marks
          BY <1>0, <1>1, <3>2, <3>3 DEF Anchored, Reading
        <4> QED
          BY <1>6, <3>1, <4>1
      <3>4. CASE c \notin {id, merged[w]}
        BY <1>1, <1>3, <1>4, <3>2, <3>4 DEF Anchored
      <3> QED
        BY <3>3, <3>4
    <2> QED
      BY <2>1, <2>2
  <1> QED
    BY <1>7 DEF AllAnchored

\* SyncHistory writes back what it has read, and whoever reads the row with it has
\* missed none of that.
LEMMA SyncWriteAnchors ==
    ASSUME AnchorOK, SyncWrite
    PROVE  AllAnchored'
  <1> DEFINE id == snap[Syncer].id
             new == Absorb(Syncer, Syncer, 50)
  <1>1. /\ at[Syncer] = "write" /\ at' = [at EXCEPT ![Syncer] = "idle"]
        /\ snap' = [snap EXCEPT ![Syncer] = NoSnap] /\ UNCHANGED <<merged, safe>>
        /\ call' = [call EXCEPT ![id] = new]
    BY DEF SyncWrite, Step
  <1>2. snap[Syncer].marks \subseteq new.marks
    BY DEF Absorb
  <1> HIDE DEF new
  <1>3. ASSUME NEW b \in Actor, NEW d \in CallId, Reading(b, d)'
        PROVE  Reading(b, d) /\ snap'[b] = snap[b]
    BY <1>1, <1>3 DEF Reading, AnchorOK, SyncerOK, RanksOK, SnapsFurthest
  <1>4. DOMAIN call = CallId
    BY DEF AnchorOK, RanksOK, CallsFurthest
  <1>5. ASSUME NEW f \in safe PROVE \E c \in CallId : Anchored(f, c)'
    <2>1. PICK c \in CallId : Anchored(f, c)
      BY DEF AnchorOK, AllAnchored
    <2>2. f \in call'[c].marks
      <3>1. CASE c = id
        BY <1>1, <1>2, <1>4, <2>1, <3>1 DEF Anchored, Reading
      <3>2. CASE c # id
        BY <1>1, <1>4, <2>1, <3>2 DEF Anchored
      <3> QED
        BY <3>1, <3>2
    <2> QED
      BY <1>3, <2>1, <2>2 DEF Anchored
  <1> QED
    BY <1>1, <1>5 DEF AllAnchored

\* The row in hand is that of a call.
LEMMA HandAnchors ==
    ASSUME LocksOK, AnchorOK, NEW w \in Worker, Handle(w)
    PROVE  MergedOK' /\ IdsOK' /\ SyncerOK'
  <1> USE DEF LocksOK, LockTypeOK, AnchorOK
  <1>1. SyncerOK' /\ \A b \in Actor \ {w} : at'[b] = at[b]
    BY ShapeAssumption DEF SyncerOK, Handle, Step, Leave, TryMark, TryMarkFails, Skip, Read,
       ReadSecond, Write, AddCallEvent, HandlerFails, Store, StoreFails, Unlock
  <1>2. CASE UNCHANGED <<snap, merged>> /\ ~Read(w)
    <2>1. /\ at'[w] \in {"second"} => at[w] = "second"
          /\ at'[w] = "write" => at[w] \in {"second", "write"}
          /\ at[w] \in {"write", "log", "done", "failed"} =>
                at'[w] \in {"write", "log", "done", "failed"} \/ Store(w) \/ StoreFails(w)
      BY <1>2 DEF Handle, Step, Leave, TryMark, TryMarkFails, Skip,
         ReadSecond, Write, AddCallEvent, HandlerFails, Store, StoreFails, Unlock
    <2>2. Store(w) \/ StoreFails(w) => merged'[w] = NoCall
      BY DEF Store, StoreFails, Leave, MergedOK
    <2> QED
      BY <1>1, <1>2, <2>1, <2>2, ShapeAssumption DEF MergedOK, IdsOK
  <1>3. CASE Read(w)
    <2>1. ev[w] \in Event
      BY <1>3 DEF Read, Step, Owns
    <2>2. PICK c \in CallId : snap' = [snap EXCEPT ![w] = Load(c)]
      BY <1>3, <2>1, TargetsFacts, ShapeAssumption DEF Read
    <2>3. IdsOK'
      BY <1>1, <1>3, <2>2, ShapeAssumption
         DEF Read, Step, IdsOK, Load, RanksOK, SnapsFurthest, MergedOK
    <2> QED
      BY <1>1, <1>3, <2>3 DEF Read, Step, MergedOK
  <1>4. CASE ReadSecond(w)
    <2>1. /\ \A a \in Actor : snap'[a].id = snap[a].id
          /\ DOMAIN merged' = Actor /\ \A a \in Actor \ {w} : merged'[a] = merged[a]
      <3>1. CASE UNCHANGED <<snap, merged>>
        BY <3>1 DEF MergedOK
      <3>2. CASE ~UNCHANGED <<snap, merged>>
        <4>1. PICK c \in Found(Second[ev[w]]) \ {snap[w].id} :
                /\ snap' = [snap EXCEPT ![w].marks = @ \cup call[c].marks,
                                        ![w].rank = MergeRank(@, call[c].rank)]
                /\ merged' = [merged EXCEPT ![w] = c]
          BY <1>4, <3>2 DEF ReadSecond
        <4> QED
          BY <4>1 DEF RanksOK, SnapsFurthest, MergedOK
      <3> QED
        BY <3>1, <3>2
    <2> QED
      BY <1>1, <1>4, <2>1, ShapeAssumption DEF ReadSecond, Step, MergedOK, IdsOK
  <1>5. CASE Store(w) \/ StoreFails(w)
    <2>1. /\ at' = [at EXCEPT ![w] = "unlock"] /\ merged' = [merged EXCEPT ![w] = NoCall]
          /\ snap' = [snap EXCEPT ![w] = NoSnap]
      BY <1>5 DEF Store, StoreFails, Leave
    <2>2. MergedOK'
      BY <2>1, ShapeAssumption DEF MergedOK
    <2>3. IdsOK'
      BY <2>1 DEF IdsOK, RanksOK, SnapsFurthest
    <2> QED
      BY <1>1, <2>2, <2>3
  <1> QED
    BY <1>2, <1>3, <1>4, <1>5
       DEF Handle, TryMark, TryMarkFails, Skip, Write, AddCallEvent, HandlerFails, Unlock

LEMMA HandleAnchors ==
    ASSUME LocksOK, AnchorOK, NEW w \in Worker, Handle(w)
    PROVE  AllAnchored'
  <1>1. CASE Read(w)
    <2>1. ev[w] \in Event
      BY <1>1 DEF Read, Step, LocksOK, Owns
    <2>2. PICK c \in CallId : snap' = [snap EXCEPT ![w] = Load(c)]
      BY <1>1, <2>1, TargetsFacts, ShapeAssumption DEF Read
    <2> QED
      BY <1>1, <2>2, ReadAnchors DEF Read, Step, callVars
  <1>2. CASE ReadSecond(w)
    BY <1>2, ReadSecondAnchors
  <1>3. CASE Write(w)
    BY <1>3, WriteAnchors
  <1>4. CASE Handle(w) /\ ~(Read(w) \/ ReadSecond(w) \/ Write(w))
    <2>1. UNCHANGED <<call, safe>>
      BY <1>4 DEF Handle, TryMark, TryMarkFails, Skip, AddCallEvent, HandlerFails, Store,
         StoreFails, Unlock, callVars
    <2>2. ASSUME NEW b \in Actor, NEW d \in CallId, Reading(b, d)'
          PROVE  Reading(b, d) /\ snap'[b] = snap[b]
      BY <1>4, <2>2 DEF Handle, TryMark, TryMarkFails, Skip, AddCallEvent, HandlerFails, Store,
         StoreFails, Unlock, Step, Leave, Reading, AnchorOK, SyncerOK, RanksOK, SnapsFurthest,
         MergedOK
    <2> QED
      BY <2>1, <2>2, AnchorsKept DEF AnchorOK
  <1> QED
    BY <1>1, <1>2, <1>3, <1>4

LEMMA StepAnchors == LocksOK /\ AnchorOK /\ [Next]_vars => AnchorOK'
  <1> SUFFICES ASSUME LocksOK, AnchorOK, [Next]_vars PROVE AnchorOK'
    OBVIOUS
  <1>1. LinksOK' /\ RanksOK'
    BY LinksStep, StepRanks DEF AnchorOK
  <1>2. CASE UNCHANGED <<call, safe, at, snap, merged>>
    BY <1>1, <1>2 DEF AnchorOK, MergedOK, IdsOK, SyncerOK, AllAnchored, Anchored, Reading
  <1>3. ASSUME NEW w \in Worker, Handle(w) PROVE AnchorOK'
    BY <1>1, <1>3, HandAnchors, HandleAnchors DEF AnchorOK
  <1>4. ASSUME NEW w \in Worker, Lock(w) \/ \E e \in Event : Take(w, e) PROVE AnchorOK'
    <2>1. /\ UNCHANGED <<call, safe, snap, merged>> /\ at[w] \in {"idle", "lock"}
          /\ at'[w] \in {"lock", "try"} /\ DOMAIN at' = DOMAIN at
          /\ \A b \in Actor \ {w} : at'[b] = at[b]
      BY <1>4 DEF Lock, Take, Step, callVars, AnchorOK, SyncerOK
    <2>2. MergedOK' /\ IdsOK' /\ SyncerOK'
      BY <2>1, ShapeAssumption DEF AnchorOK, MergedOK, IdsOK, SyncerOK
    <2>3. ASSUME NEW b \in Actor, NEW d \in CallId, Reading(b, d)' PROVE Reading(b, d)
      BY <2>1, <2>3 DEF Reading
    <2> QED
      BY <1>1, <2>1, <2>2, <2>3, AnchorsKept DEF AnchorOK
  <1>5. CASE SyncWrite
    <2>1. MergedOK' /\ IdsOK' /\ SyncerOK'
      BY <1>5 DEF SyncWrite, Step, AnchorOK, MergedOK, IdsOK, SyncerOK, RanksOK, SnapsFurthest
    <2> QED
      BY <1>1, <1>5, <2>1, SyncWriteAnchors DEF AnchorOK
  <1>6. ASSUME NEW c \in CallId, SyncRead(c) PROVE AnchorOK'
    <2>1. PICK d \in CallId : snap' = [snap EXCEPT ![Syncer] = Load(d)]
      BY <1>6, TargetsFacts DEF SyncRead
    <2>2. AllAnchored'
      BY <1>6, <2>1, ReadAnchors DEF SyncRead, Step, callVars
    <2>3. MergedOK' /\ IdsOK' /\ SyncerOK'
      BY <1>6, <2>1, ShapeAssumption
         DEF SyncRead, Step, Load, AnchorOK, MergedOK, IdsOK, SyncerOK, RanksOK, SnapsFurthest
    <2> QED
      BY <1>1, <2>2, <2>3 DEF AnchorOK
  <1>7. CASE Restart
    <2>1. /\ at' = [a \in Actor |-> "idle"] /\ merged' = [a \in Actor |-> NoCall]
          /\ UNCHANGED <<call, safe>>
      BY <1>7 DEF Restart, callVars
    <2>2. MergedOK' /\ IdsOK' /\ SyncerOK'
      BY <2>1 DEF MergedOK, IdsOK, SyncerOK
    <2>3. ASSUME NEW b \in Actor, NEW d \in CallId PROVE ~Reading(b, d)'
      BY <2>1 DEF Reading
    <2> QED
      BY <1>1, <2>1, <2>2, <2>3, AnchorsKept DEF AnchorOK
  <1>8. ASSUME NEW e \in Event,
               Receive(e) \/ ReplayEvent(e) \/ Dispatch(e) \/ MarkQueued(e) \/ MarkQueuedFails(e)
        PROVE  UNCHANGED <<call, safe, at, snap, merged>>
    BY <1>8 DEF Receive, ReplayEvent, Dispatch, MarkQueued, MarkQueuedFails, actorVars, callVars
  <1>9. CASE UNCHANGED vars
    BY <1>2, <1>9 DEF vars, actorVars, callVars
  <1> QED
    BY <1>2, <1>3, <1>4, <1>5, <1>6, <1>7, <1>8, <1>9 DEF Next

LEMMA InitAnchors == Init => AnchorOK
  <1> SUFFICES ASSUME Init PROVE AnchorOK
    OBVIOUS
  <1>1. MergedOK /\ IdsOK /\ SyncerOK /\ AllAnchored
    BY DEF Init, MergedOK, IdsOK, SyncerOK, AllAnchored
  <1> QED
    BY <1>1, InitRanks DEF AnchorOK

\* What an event has said of a call is in a row, through merges, replays and late writes,
\* as long as nobody without the lock had its row in hand when it was written.
THEOREM RecordedHolds == Spec => []Recorded
  <1>1. AnchorOK => Recorded
    BY DEF AnchorOK, AllAnchored, Anchored, Recorded
  <1>2. LocksOK /\ AnchorOK /\ [Next]_vars => LocksOK' /\ AnchorOK'
    BY StepLocks, StepAnchors
  <1> QED
    BY <1>1, <1>2, InitLocks, InitAnchors, PTL DEF Spec
=============================================================================
