----------------------------- MODULE KeyedMutex -----------------------------
(***************************************************************************)
(* The mutex by key that serialises the webhook events of one deal, one    *)
(* comment, one Pyrus task or one call.  Entries are made on demand and    *)
(* dropped from the map by the last goroutine that refers to them, so a    *)
(* goroutine may wait for an entry while others come, go and drop entries. *)
(*                                                                         *)
(* acquire and the second half of release run under the mutex of the map   *)
(* and are one action each; the entry is locked and unlocked outside of    *)
(* it.  The garbage collector hands the memory of an entry out again once  *)
(* neither the map nor a goroutine refers to it.                           *)
(***************************************************************************)
EXTENDS Integers, FiniteSets

CONSTANTS
    Thread,      \* goroutines
    Key,         \* keys they lock; those below 1 are not locked at all
    Entry,       \* memory for entries
    NoEntry, NoThread

ASSUME KeysAssumption == Key \subseteq Int

ASSUME NilsAssumption == NoEntry \notin Entry /\ NoThread \notin Thread

ASSUME ThreadAssumption == IsFiniteSet(Thread)

VARIABLES
    locks,       \* the map: the entry of a key, or NoEntry
    refs,        \* the reference count of an entry
    owner,       \* who has locked the mutex of an entry
    pc,          \* "idle", "wait" for the entry, "hold" the key, "drop" the entry
    key, entry   \* the arguments of lock and release, by goroutine

vars == <<locks, refs, owner, pc, key, entry>>

TypeOK ==
    /\ locks \in [Key -> Entry \cup {NoEntry}]
    /\ refs \in [Entry -> Nat]
    /\ owner \in [Entry -> Thread \cup {NoThread}]
    /\ pc \in [Thread -> {"idle", "wait", "hold", "drop"}]
    /\ key \in [Thread -> Key]
    /\ entry \in [Thread -> Entry \cup {NoEntry}]

Init ==
    /\ locks = [k \in Key |-> NoEntry]
    /\ refs = [e \in Entry |-> 0]
    /\ owner = [e \in Entry |-> NoThread]
    /\ pc = [t \in Thread |-> "idle"]
    /\ key \in [Thread -> Key]
    /\ entry = [t \in Thread |-> NoEntry]

-----------------------------------------------------------------------------
\* Lock of a key below 1 returns at once, ...
LockNothing(t, k) ==
    /\ pc[t] = "idle"
    /\ k <= 0
    /\ pc' = [pc EXCEPT ![t] = "hold"]
    /\ key' = [key EXCEPT ![t] = k]
    /\ UNCHANGED <<locks, refs, owner, entry>>

\* ... and its unlock does nothing.
UnlockNothing(t) ==
    /\ pc[t] = "hold"
    /\ key[t] <= 0
    /\ pc' = [pc EXCEPT ![t] = "idle"]
    /\ UNCHANGED <<locks, refs, owner, key, entry>>

\* Mutant of Wanted: acquire does not count its reference.
WantedUncounted(t, k, e) ==
    /\ pc' = [pc EXCEPT ![t] = "wait"]
    /\ key' = [key EXCEPT ![t] = k]
    /\ entry' = [entry EXCEPT ![t] = e]
    /\ refs' = refs

Wanted(t, k, e) ==
    /\ pc' = [pc EXCEPT ![t] = "wait"]
    /\ key' = [key EXCEPT ![t] = k]
    /\ entry' = [entry EXCEPT ![t] = e]
    /\ refs' = [refs EXCEPT ![e] = @ + 1]

\* acquire finds the entry of the key ...
AcquireKnown(t, k) ==
    /\ pc[t] = "idle"
    /\ k > 0
    /\ locks[k] # NoEntry
    /\ Wanted(t, k, locks[k])
    /\ UNCHANGED <<locks, owner>>

\* ... or makes one: zeroed memory that nobody refers to.
AcquireNew(t, k, e) ==
    /\ pc[t] = "idle"
    /\ k > 0
    /\ locks[k] = NoEntry
    /\ \A j \in Key : locks[j] # e
    /\ \A u \in Thread : entry[u] # e
    /\ locks' = [locks EXCEPT ![k] = e]
    /\ refs' = [refs EXCEPT ![e] = 1]
    /\ owner' = [owner EXCEPT ![e] = NoThread]
    /\ pc' = [pc EXCEPT ![t] = "wait"]
    /\ key' = [key EXCEPT ![t] = k]
    /\ entry' = [entry EXCEPT ![t] = e]

\* entry.mu.Lock
LockEntry(t) ==
    /\ pc[t] = "wait"
    /\ owner[entry[t]] = NoThread
    /\ owner' = [owner EXCEPT ![entry[t]] = t]
    /\ pc' = [pc EXCEPT ![t] = "hold"]
    /\ UNCHANGED <<locks, refs, key, entry>>

\* Mutant of UnlockEntry: release forgets to unlock the entry.
UnlockEntryNot(t) ==
    /\ pc[t] = "hold"
    /\ key[t] > 0
    /\ pc' = [pc EXCEPT ![t] = "drop"]
    /\ UNCHANGED <<locks, refs, owner, key, entry>>

\* entry.mu.Unlock, the first half of release.
UnlockEntry(t) ==
    /\ pc[t] = "hold"
    /\ key[t] > 0
    /\ owner' = [owner EXCEPT ![entry[t]] = NoThread]
    /\ pc' = [pc EXCEPT ![t] = "drop"]
    /\ UNCHANGED <<locks, refs, key, entry>>

\* Mutant of Drop: the entry is dropped while others wait for it.
DropAlways(t) ==
    /\ refs' = [refs EXCEPT ![entry[t]] = @ - 1]
    /\ locks' = [locks EXCEPT ![key[t]] = NoEntry]

\* Mutant of Drop: the entry is never dropped.
DropNever(t) ==
    /\ refs' = [refs EXCEPT ![entry[t]] = @ - 1]
    /\ UNCHANGED locks

Drop(t) ==
    /\ refs' = [refs EXCEPT ![entry[t]] = @ - 1]
    /\ locks' = IF refs[entry[t]] = 1
                THEN [locks EXCEPT ![key[t]] = NoEntry]
                ELSE locks

\* The second half of release; an entry that is not in the map is left alone.
Release(t) ==
    /\ pc[t] = "drop"
    /\ IF locks[key[t]] = entry[t] THEN Drop(t) ELSE UNCHANGED <<locks, refs>>
    /\ pc' = [pc EXCEPT ![t] = "idle"]
    /\ entry' = [entry EXCEPT ![t] = NoEntry]
    /\ UNCHANGED <<owner, key>>

Lock(t) ==
    \E k \in Key :
        \/ LockNothing(t, k)
        \/ AcquireKnown(t, k)
        \/ \E e \in Entry : AcquireNew(t, k, e)

Unlock(t) == UnlockNothing(t) \/ UnlockEntry(t) \/ Release(t)

Next == \E t \in Thread : Lock(t) \/ LockEntry(t) \/ Unlock(t)

Spec == Init /\ [][Next]_vars

\* A handler that holds a key returns, and a sync.Mutex starves nobody.
FairSpec ==
    /\ Spec
    /\ \A t \in Thread : WF_vars(Unlock(t)) /\ SF_vars(LockEntry(t))

-----------------------------------------------------------------------------
\* At most one goroutine at a time works on a deal, a comment, a task or a call,
\* whatever entries are made and dropped meanwhile.
MutualExclusion ==
    \A t, u \in Thread :
        pc[t] = "hold" /\ pc[u] = "hold" /\ key[t] = key[u] /\ key[t] > 0 => t = u

\* The map holds an entry for exactly the keys that goroutines lock or wait for:
\* none is missing, and none is left behind by the goroutines that came and went.
MapHoldsWanted ==
    \A k \in Key :
        locks[k] # NoEntry <=> \E t \in Thread : entry[t] # NoEntry /\ key[t] = k

\* Whoever waits for a key gets it.
Served == \A t \in Thread : pc[t] = "wait" ~> pc[t] = "hold"

-----------------------------------------------------------------------------
(* The inductive invariant: why the two properties hold.                   *)

Users(e) == {t \in Thread : entry[t] = e}

\* A goroutine refers to an entry from acquire to the end of release.
Refer ==
    \A t \in Thread :
        /\ pc[t] = "idle" => entry[t] = NoEntry
        /\ pc[t] \in {"wait", "drop"} => entry[t] # NoEntry
        /\ pc[t] = "hold" => (entry[t] # NoEntry <=> key[t] > 0)

\* It refers to the entry that is in the map, so release never finds another one.
Mapped ==
    \A t \in Thread : entry[t] # NoEntry => locks[key[t]] = entry[t] /\ key[t] > 0

\* Two keys do not share an entry, and an entry in the map has users.
MapSound ==
    /\ \A j, k \in Key : locks[j] # NoEntry /\ locks[j] = locks[k] => j = k
    /\ \A k \in Key : locks[k] # NoEntry => Users(locks[k]) # {}

Counted == \A e \in Entry : refs[e] = Cardinality(Users(e))

Owned ==
    \A t \in Thread :
        pc[t] = "hold" /\ entry[t] # NoEntry => owner[entry[t]] = t

\* The reference count of every entry is the number of goroutines that refer to it,
\* and all of them refer to the entry of their key that the map holds.
Inv == TypeOK /\ Refer /\ Mapped /\ MapSound /\ Counted /\ Owned
=============================================================================
