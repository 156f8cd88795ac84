---------------------------- MODULE MegafonCalls ----------------------------
(***************************************************************************)
(* The events of the telephony provider and the rows of calls they build.  *)
(* An event is stored, announced on a Redis stream and processed by a      *)
(* goroutine of consumeLoop, claimPendingLoop or recoveryLoop; the last    *)
(* one needs no message.  Messages may be lost, late and doubled, so the   *)
(* stream is no more here than that it may hand any stored event to a      *)
(* goroutine at any time.  To process an event a goroutine locks every     *)
(* call it names, claims the row of the event, reads the row of the call,  *)
(* adds to it what the event says and writes the whole row back.           *)
(*                                                                         *)
(* A TRANSFERRED event merges the call it names second into its own and    *)
(* deletes that row.  Later events of the second call find the merged row  *)
(* through telephony_call_events, but lock only the identifier they carry. *)
(* SyncHistory reads and writes rows without any lock.                     *)
(***************************************************************************)
EXTENDS Integers, FiniteSets

CONSTANTS
    Event,       \* payloads the provider sends
    CallId,      \* call identifiers, in the order slices.Sort gives them
    NoCall,
    Worker,      \* goroutines that process events
    Syncer,      \* a run of SyncHistory
    Nobody, NoEvent,
    Of, Second,  \* callid and second_callid of an event, the latter may be NoCall
    Transfer,    \* events of type TRANSFERRED
    Says,        \* the rank of the status an event reports
    MaxAttempts, \* MEGAFON_VATS_INCOMING_MAX_ATTEMPTS
    MaxUpsets    \* bound: restarts, failed statements, replays and runs of SyncHistory

Actor == Worker \cup {Syncer}
Rank == {0, 10, 20, 30, 50}

ASSUME ShapeAssumption ==
    /\ CallId \subseteq Nat /\ NoCall \notin CallId
    /\ Nobody \notin Worker /\ Syncer \notin Worker \cup Event /\ NoEvent \notin Event
    /\ Of \in [Event -> CallId] /\ Second \in [Event -> CallId \cup {NoCall}]
    /\ Transfer \subseteq Event /\ Says \in [Event -> Rank]

ASSUME LimitsAssumption == MaxAttempts \in Nat \ {0} /\ MaxUpsets \in Nat

VARIABLES
    row,         \* telephony_incoming_events
    marking,     \* events that were announced and are about to be marked as queued
    call,        \* telephony_calls: what has been absorbed, and the rank of the status
    log,         \* telephony_call_events: the call an event belongs to
    owner,       \* who has locked a call
    at, ev,      \* the step of a goroutine, and its event
    snap,        \* the row of the call it has read and is to write
    merged,      \* the call that row absorbs, or NoCall
    safe,        \* events whose row nobody could have overwritten; no code reads it
    upsets

queueVars == <<row, marking>>
callVars == <<call, log, safe>>
actorVars == <<at, ev, snap, merged>>
vars == <<queueVars, callVars, owner, actorVars, upsets>>

Status == {"none", "new", "queued", "processing", "done", "failed"}
Absent == [known |-> FALSE, marks |-> {}, rank |-> 0]
NoSnap == [id |-> NoCall, marks |-> {}, rank |-> 0]

TypeOK ==
    /\ row \in [Event -> [status : Status, attempts : 0..MaxAttempts]]
    /\ marking \subseteq Event
    /\ call \in [CallId -> [known : BOOLEAN, marks : SUBSET (Event \cup {Syncer}), rank : Rank]]
    /\ log \in [Event -> CallId \cup {NoCall}]
    /\ owner \in [CallId -> Worker \cup {Nobody}]
    /\ at \in [Actor -> {"idle", "lock", "try", "read", "second", "write", "log",
                         "done", "failed", "unlock"}]
    /\ ev \in [Actor -> Event \cup {NoEvent}]
    /\ snap \in [Actor -> [id : CallId \cup {NoCall}, marks : SUBSET (Event \cup {Syncer}), rank : Rank]]
    /\ merged \in [Actor -> CallId \cup {NoCall}]
    /\ safe \subseteq Event
    /\ upsets \in 0..MaxUpsets

Init ==
    /\ row = [e \in Event |-> [status |-> "none", attempts |-> 0]]
    /\ marking = {}
    /\ call = [c \in CallId |-> Absent]
    /\ log = [e \in Event |-> NoCall]
    /\ owner = [c \in CallId |-> Nobody]
    /\ at = [a \in Actor |-> "idle"]
    /\ ev = [a \in Actor |-> NoEvent]
    /\ snap = [a \in Actor |-> NoSnap]
    /\ merged = [a \in Actor |-> NoCall]
    /\ safe = {}
    /\ upsets = 0

Upset == upsets < MaxUpsets /\ upsets' = upsets + 1

Mark(e, status) == row' = [row EXCEPT ![e].status = status]

Names(e) == {Of[e], Second[e]} \ {NoCall}

-----------------------------------------------------------------------------
(* HandleWebhook, ReplayEvent and dispatchLoop.                            *)

\* The row is stored and a message sent, but not yet marked.  A payload with a known
\* hash inserts nothing.
Receive(e) ==
    /\ row[e].status = "none"
    /\ Mark(e, "new")
    /\ marking' = marking \cup {e}
    /\ UNCHANGED <<callVars, owner, actorVars, upsets>>

\* The same again, whatever the status: also while the event is processed.
ReplayEvent(e) ==
    /\ row[e].status # "none"
    /\ Upset
    /\ row' = [row EXCEPT ![e] = [status |-> "new", attempts |-> 0]]
    /\ marking' = marking \cup {e}
    /\ UNCHANGED <<callVars, owner, actorVars>>

\* ListIncomingNewOrFailedForEnqueue; the end of the back-off may come at any moment.
Due(e) ==
    \/ row[e].status = "new"
    \/ row[e].status = "failed" /\ row[e].attempts < MaxAttempts

\* dispatchLoop
Dispatch(e) ==
    /\ Due(e) /\ e \notin marking
    /\ marking' = marking \cup {e}
    /\ UNCHANGED <<row, callVars, owner, actorVars, upsets>>

\* MarkIncomingQueued, whatever became of the event meanwhile.
MarkQueued(e) ==
    /\ e \in marking
    /\ Mark(e, "queued")
    /\ marking' = marking \ {e}
    /\ UNCHANGED <<callVars, owner, actorVars, upsets>>

\* It fails, or Redis could not be reached.
MarkQueuedFails(e) ==
    /\ e \in marking
    /\ Upset
    /\ marking' = marking \ {e}
    /\ UNCHANGED <<row, callVars, owner, actorVars>>

-----------------------------------------------------------------------------
(* processIncomingEvent.                                                   *)

Step(a, here, next) == at[a] = here /\ at' = [at EXCEPT ![a] = next]

\* XREADGROUP, XCLAIM after a minute, or a listing of recoveryLoop that is out of date.
Take(w, e) ==
    /\ row[e].status # "none"
    /\ Step(w, "idle", "lock")
    /\ ev' = [ev EXCEPT ![w] = e]
    /\ UNCHANGED <<queueVars, callVars, owner, snap, merged, upsets>>

\* Mutant of Recovered: rows that stay queued are left to the stream.
RecoveredNotQueued(e) == Due(e)

\* What recoveryLoop lists: ListIncomingQueuedForRecovery adds what has been queued for
\* half a minute.
Recovered(e) == Due(e) \/ row[e].status = "queued"

Recover(w, e) == Recovered(e) /\ Take(w, e)

\* Mutant of Locked: only the call that the event is about.
LockedFirst(e) == {Of[e]}

\* The keys of lockCallChain; callLockKey is taken to tell them apart.
Locked(e) == Names(e)

Missing(w) == {c \in Locked(ev[w]) : owner[c] # w}

\* Mutant of NextLock: in the order of the payload.
NextLockUnsorted(w) == IF Of[ev[w]] \in Missing(w) THEN Of[ev[w]] ELSE Second[ev[w]]

NextLock(w) == CHOOSE c \in Missing(w) : \A d \in Missing(w) : c <= d

\* lockCallChain
Lock(w) ==
    /\ at[w] = "lock"
    /\ owner[NextLock(w)] = Nobody
    /\ owner' = [owner EXCEPT ![NextLock(w)] = w]
    /\ at' = [at EXCEPT ![w] = IF Missing(w) = {NextLock(w)} THEN "try" ELSE @]
    /\ UNCHANGED <<queueVars, callVars, ev, snap, merged, upsets>>

Claimable(e) == row[e].status \in {"new", "queued", "failed"}

\* TryMarkIncomingProcessing; attempts beyond the maximum are not told apart.
TryMark(w) ==
    LET e == ev[w] IN
    /\ Step(w, "try", "read")
    /\ Claimable(e)
    /\ row' = [row EXCEPT ![e] =
                 [status |-> "processing",
                  attempts |-> IF @.attempts < MaxAttempts THEN @.attempts + 1 ELSE MaxAttempts]]
    /\ UNCHANGED <<marking, callVars, owner, ev, snap, merged, upsets>>

\* Somebody else has it, or it is done.
Skip(w) ==
    /\ Step(w, "try", "unlock")
    /\ ~Claimable(ev[w])
    /\ UNCHANGED <<queueVars, callVars, owner, ev, snap, merged, upsets>>

TryMarkFails(w) ==
    /\ Step(w, "try", "unlock")
    /\ Upset
    /\ UNCHANGED <<queueVars, callVars, owner, ev, snap, merged>>

\* GetCallByAnyExternalID: the row of c, or one that absorbed an event naming c; which
\* of several is the youngest is left open.
Found(c) ==
    IF call[c].known THEN {c}
    ELSE {d \in CallId : call[d].known /\ \E e \in Event : log[e] = d /\ c \in Names(e)}

Load(id) == [id |-> id, marks |-> call[id].marks, rank |-> call[id].rank]

\* An unknown call starts as an empty row of its own.
Targets(c) == IF Found(c) = {} THEN {c} ELSE Found(c)

\* shouldLinkTransferredCall
Links(e) == e \in Transfer /\ Second[e] \notin {NoCall, Of[e]}

\* The first half of buildCallSnapshot
Read(w) ==
    LET e == ev[w] IN
    /\ Step(w, "read", IF Links(e) THEN "second" ELSE "write")
    /\ \E c \in Targets(Of[e]) : snap' = [snap EXCEPT ![w] = Load(c)]
    /\ UNCHANGED <<queueVars, callVars, owner, ev, merged, upsets>>

\* Mutant of MergeRank: what comes last counts.
MergeRankLast(current, next) == next

\* mergeMegafonEventStatus
MergeRank(current, next) == IF next >= current THEN next ELSE current

\* The second half: mergeMegafonCallSnapshots
ReadSecond(w) ==
    /\ Step(w, "second", "write")
    /\ LET others == Found(Second[ev[w]]) \ {snap[w].id} IN
         \/ /\ Found(Second[ev[w]]) \subseteq {snap[w].id}
            /\ UNCHANGED <<snap, merged>>
         \/ \E c \in others :
              /\ snap' = [snap EXCEPT ![w].marks = @ \cup call[c].marks,
                                      ![w].rank = MergeRank(@, call[c].rank)]
              /\ merged' = [merged EXCEPT ![w] = c]
    /\ UNCHANGED <<queueVars, callVars, owner, ev, upsets>>

Reading(a, c) == at[a] \in {"second", "write"} /\ c \in {snap[a].id, merged[a]}

\* Does what a works on name the call whose row it has read?
Direct(a, c) == a # Syncer /\ c \in Names(ev[a])

\* Nobody else has read the row, or all hold its lock.
Alone(a) ==
    \A b \in Actor \ {a} :
        Reading(b, snap[a].id) => Direct(a, snap[a].id) /\ Direct(b, snap[a].id)

\* Mutant of Absorb: the merged row is deleted, and what it had absorbed with it.
AbsorbOwn(a, mark, rank) ==
    [known |-> TRUE, marks |-> call[snap[a].id].marks \cup {mark}, rank |-> MergeRank(snap[a].rank, rank)]

Absorb(a, mark, rank) ==
    [known |-> TRUE, marks |-> snap[a].marks \cup {mark}, rank |-> MergeRank(snap[a].rank, rank)]

Released(w) == [c \in CallId |-> IF owner[c] = w THEN Nobody ELSE owner[c]]

\* Mutant of Locks: they are released as soon as the call is written.
LocksReleased(w) == owner' = Released(w)

\* The deferred unlock comes after the outcome is stored.
Locks(w) == UNCHANGED owner

\* UpsertCall, or the transaction of MergeCalls
Write(w) ==
    LET e == ev[w]  id == snap[w].id IN
    /\ Step(w, "write", "log")
    /\ call' = [c \in CallId |-> CASE c = id -> Absorb(w, e, Says[e])
                                   [] c = merged[w] -> Absent
                                   [] OTHER -> call[c]]
    /\ log' = [f \in Event |-> IF log[f] = merged[w] /\ merged[w] # NoCall THEN id ELSE log[f]]
    /\ safe' = IF Alone(w) THEN safe \cup {e} ELSE safe \ snap[w].marks
    /\ Locks(w)
    /\ UNCHANGED <<queueVars, ev, snap, merged, upsets>>

\* AddCallEvent: once per payload.
AddCallEvent(w) ==
    LET e == ev[w] IN
    /\ Step(w, "log", "done")
    /\ log' = IF log[e] = NoCall THEN [log EXCEPT ![e] = snap[w].id] ELSE log
    /\ UNCHANGED <<queueVars, call, safe, owner, ev, snap, merged, upsets>>

\* A statement of the handler fails; what it has written stays.
HandlerFails(w) ==
    /\ at[w] \in {"read", "second", "write", "log"}
    /\ Upset
    /\ at' = [at EXCEPT ![w] = "failed"]
    /\ UNCHANGED <<queueVars, callVars, owner, ev, snap, merged>>

Leave(w) ==
    /\ at' = [at EXCEPT ![w] = "unlock"]
    /\ snap' = [snap EXCEPT ![w] = NoSnap]
    /\ merged' = [merged EXCEPT ![w] = NoCall]

\* MarkIncomingDone or MarkIncomingFailed, whatever the status is by now.
Store(w) ==
    /\ at[w] \in {"done", "failed"}
    /\ Mark(ev[w], at[w])
    /\ Leave(w)
    /\ UNCHANGED <<marking, callVars, owner, ev, upsets>>

StoreFails(w) ==
    /\ at[w] \in {"done", "failed"}
    /\ Upset
    /\ Leave(w)
    /\ UNCHANGED <<queueVars, callVars, owner, ev>>

Unlock(w) ==
    /\ Step(w, "unlock", "idle")
    /\ owner' = Released(w)
    /\ ev' = [ev EXCEPT ![w] = NoEvent]
    /\ UNCHANGED <<queueVars, callVars, snap, merged, upsets>>

Restart ==
    /\ Upset
    /\ marking' = {}
    /\ owner' = [c \in CallId |-> Nobody]
    /\ at' = [a \in Actor |-> "idle"]
    /\ ev' = [a \in Actor |-> NoEvent]
    /\ snap' = [a \in Actor |-> NoSnap]
    /\ merged' = [a \in Actor |-> NoCall]
    /\ UNCHANGED <<row, callVars>>

-----------------------------------------------------------------------------
(* syncHistoryRecord, for a call the provider reports as ended.            *)

SyncRead(c) ==
    /\ Upset
    /\ Step(Syncer, "idle", "write")
    /\ \E d \in Targets(c) : snap' = [snap EXCEPT ![Syncer] = Load(d)]
    /\ UNCHANGED <<queueVars, callVars, owner, ev, merged>>

SyncWrite ==
    /\ Step(Syncer, "write", "idle")
    /\ call' = [call EXCEPT ![snap[Syncer].id] = Absorb(Syncer, Syncer, 50)]
    /\ snap' = [snap EXCEPT ![Syncer] = NoSnap]
    /\ UNCHANGED <<queueVars, log, safe, owner, ev, merged, upsets>>

-----------------------------------------------------------------------------
Handle(w) ==
    \/ TryMark(w) \/ TryMarkFails(w) \/ Skip(w)
    \/ Read(w) \/ ReadSecond(w) \/ Write(w) \/ AddCallEvent(w) \/ HandlerFails(w)
    \/ Store(w) \/ StoreFails(w) \/ Unlock(w)

Next ==
    \/ \E e \in Event : Receive(e) \/ ReplayEvent(e) \/ Dispatch(e)
                       \/ MarkQueued(e) \/ MarkQueuedFails(e)
    \/ \E w \in Worker : Lock(w) \/ Handle(w) \/ \E e \in Event : Take(w, e)
    \/ SyncWrite
    \/ \E c \in CallId : SyncRead(c)
    \/ Restart

Spec == Init /\ [][Next]_vars

\* A mutex of Go hands itself to whoever waits for a millisecond, so a lock that is free
\* again and again is taken in the end; recoveryLoop has goroutines of its own.
FairSpec ==
    /\ Spec
    /\ \A e \in Event :
          /\ WF_vars(MarkQueued(e))
          /\ SF_vars(\E w \in Worker : Recover(w, e))
    /\ \A w \in Worker : SF_vars(Lock(w)) /\ WF_vars(Handle(w))

-----------------------------------------------------------------------------
\* No two events wait for the call that the other one has locked.
NoWaitCycle ==
    \A v, w \in Worker :
        v # w /\ at[v] = "lock" /\ at[w] = "lock" =>
            ~(owner[NextLock(v)] = w /\ owner[NextLock(w)] = v)

Handling == {"read", "second", "write", "log", "done", "failed"}

\* TryMarkIncomingProcessing, a replay in the middle and a late MarkIncomingQueued would
\* let two goroutines handle one event; the locks of its calls do not.
OneHandler ==
    \A v, w \in Worker : v # w /\ ev[v] = ev[w] => at[v] \notin Handling \/ at[w] \notin Handling

\* What an event said stays in a row, through merges, replays and later events, unless
\* its row was in the hands of somebody without the lock (an event that found it through
\* telephony_call_events, or SyncHistory) when it was written or merged into.
Recorded == \A e \in safe : \E c \in CallId : e \in call[c].marks

Largest(ranks) == CHOOSE r \in ranks : \A q \in ranks : q <= r

\* The status of a call is the furthest its events have reported, in whatever order they
\* were processed and merged (mergeMegafonEventStatus).
StatusIsFurthest ==
    \A c \in CallId :
        call[c].rank = Largest({0} \cup {Says[e] : e \in call[c].marks \ {Syncer}}
                                   \cup (IF Syncer \in call[c].marks THEN {50} ELSE {}))

\* Its process stopped, or its outcome could not be stored: no loop looks at it.
Stuck(e) == row[e].status = "processing" /\ \A w \in Worker : ev[w] = e => at[w] \notin Handling

\* An event that was accepted is processed in the end, though events lock each other's
\* calls and messages get lost.
AcceptedIsHandled ==
    \A e \in Event :
        row[e].status # "none" ~>
            \/ row[e].status = "done"
            \/ row[e].status = "failed" /\ row[e].attempts >= MaxAttempts
            \/ Stuck(e)
=============================================================================
