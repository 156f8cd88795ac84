-------------------------- MODULE KeyedMutexProofs --------------------------
(***************************************************************************)
(* The keyed mutex excludes, for any number of goroutines, keys and        *)
(* entries.  The heart of the argument is the reference count: release     *)
(* takes an entry out of the map when the count falls to zero, and that    *)
(* must mean that nobody waits for the entry any more.                     *)
(***************************************************************************)
EXTENDS KeyedMutex, FiniteSetTheorems, TLAPS

\* There are finitely many users of an entry, so they can be counted.
LEMMA UsersFinite ==
    \A e \in Entry : IsFiniteSet(Users(e)) /\ Cardinality(Users(e)) \in Nat
<1> TAKE e \in Entry
<1>1. Users(e) \in SUBSET Thread
    BY DEF Users
<1>2. IsFiniteSet(Users(e))
    BY <1>1, FS_Subset, ThreadAssumption
<1> QED
    BY <1>2, FS_CardinalityType

\* A goroutine that starts to refer to e adds one to the users of e.
LEMMA UsersGrow ==
    ASSUME NEW e \in Entry, NEW t \in Thread, t \notin Users(e),
           Users(e)' = Users(e) \cup {t}
    PROVE  Cardinality(Users(e)') = Cardinality(Users(e)) + 1
BY UsersFinite, FS_AddElement

\* A goroutine that ceases to refer to e takes one from the users of e.
LEMMA UsersShrink ==
    ASSUME NEW e \in Entry, NEW t \in Thread, t \in Users(e),
           Users(e)' = Users(e) \ {t}
    PROVE  Cardinality(Users(e)') = Cardinality(Users(e)) - 1
BY UsersFinite, FS_RemoveElement

\* A count of one means one user, a count of zero none.
LEMMA CountMeans ==
    ASSUME NEW e \in Entry
    PROVE  /\ Cardinality(Users(e)) = 0 <=> Users(e) = {}
           /\ \A t \in Users(e) : Cardinality(Users(e)) = 1 => Users(e) = {t}
<1>1. IsFiniteSet(Users(e))
    BY UsersFinite
<1>2. Cardinality(Users(e)) = 0 <=> Users(e) = {}
    BY <1>1, FS_EmptySet
<1>3. Cardinality(Users(e)) = 1 => \E x : Users(e) = {x}
    BY <1>1, FS_Singleton
<1> QED
    BY <1>2, <1>3

LEMMA InitInv == Init => Inv
<1> SUFFICES ASSUME Init PROVE Inv
    OBVIOUS
<1>1. TypeOK
    BY DEF Init, TypeOK
<1>2. \A e \in Entry : Users(e) = {}
    BY NilsAssumption DEF Init, Users
<1>3. Counted
    BY <1>2, CountMeans DEF Init, Counted
<1>4. Refer /\ Mapped /\ MapSound /\ Owned
    BY <1>2 DEF Init, Refer, Mapped, MapSound, Owned
<1> QED
    BY <1>1, <1>3, <1>4 DEF Inv

-----------------------------------------------------------------------------
(* One lemma per action.                                                   *)

LEMMA LockNothingInv ==
    ASSUME Inv, NEW t \in Thread, NEW k \in Key, LockNothing(t, k)
    PROVE  Inv'
<1> USE DEF Inv, LockNothing
<1>1. TypeOK'
    BY DEF TypeOK
<1>2. \A e : Users(e)' = Users(e)
    BY DEF Users
<1>3. Refer' /\ Mapped' /\ Owned'
    BY KeysAssumption DEF TypeOK, Refer, Mapped, Owned
<1>4. MapSound' /\ Counted'
    BY <1>2 DEF MapSound, Counted
<1> QED
    BY <1>1, <1>3, <1>4

LEMMA UnlockNothingInv ==
    ASSUME Inv, NEW t \in Thread, UnlockNothing(t)
    PROVE  Inv'
<1> USE DEF Inv, UnlockNothing
<1>1. TypeOK'
    BY DEF TypeOK
<1>2. \A e : Users(e)' = Users(e)
    BY DEF Users
<1>3. entry[t] = NoEntry
    <2>1. key[t] \in Int
        BY KeysAssumption DEF TypeOK
    <2> QED
        BY <2>1 DEF TypeOK, Refer
<1>4. Refer' /\ Mapped' /\ Owned'
    BY <1>3 DEF TypeOK, Refer, Mapped, Owned
<1>5. MapSound' /\ Counted'
    BY <1>2 DEF MapSound, Counted
<1> QED
    BY <1>1, <1>4, <1>5

LEMMA AcquireKnownInv ==
    ASSUME Inv, NEW t \in Thread, NEW k \in Key, AcquireKnown(t, k)
    PROVE  Inv'
<1> DEFINE e == locks[k]
<1> USE DEF Inv, AcquireKnown, Wanted
<1>1. e \in Entry /\ entry[t] = NoEntry
    BY DEF TypeOK, Refer
<1>2. TypeOK'
    BY <1>1 DEF TypeOK
<1>3. t \notin Users(e) /\ Users(e)' = Users(e) \cup {t}
    BY <1>1, NilsAssumption DEF Users, TypeOK
<1>4. \A d \in Entry : d # e => Users(d)' = Users(d)
    BY <1>1, NilsAssumption DEF Users, TypeOK
<1>5. Refer' /\ Mapped' /\ Owned'
    BY <1>1, NilsAssumption DEF TypeOK, Refer, Mapped, Owned
<1>6. MapSound'
    BY <1>1, <1>3, <1>4 DEF TypeOK, MapSound
<1>7. Counted'
    <2> SUFFICES ASSUME NEW d \in Entry
                 PROVE  refs[d]' = Cardinality(Users(d)')
        BY DEF Counted
    <2>1. CASE d = e
        BY <1>1, <1>3, <2>1, UsersGrow DEF Counted, TypeOK
    <2>2. CASE d # e
        BY <1>1, <1>4, <2>2 DEF Counted, TypeOK
    <2> QED
        BY <2>1, <2>2
<1> QED
    BY <1>2, <1>5, <1>6, <1>7

LEMMA AcquireNewInv ==
    ASSUME Inv, NEW t \in Thread, NEW k \in Key, NEW e \in Entry,
           AcquireNew(t, k, e)
    PROVE  Inv'
<1> USE DEF Inv, AcquireNew
<1>1. entry[t] = NoEntry
    BY DEF Refer
<1>2. TypeOK'
    BY DEF TypeOK
<1>3. Users(e) = {} /\ Users(e)' = {t}
    BY DEF Users, TypeOK
<1>4. \A d \in Entry : d # e => Users(d)' = Users(d)
    BY <1>1, NilsAssumption DEF Users, TypeOK
<1>5. Refer' /\ Mapped' /\ Owned'
    BY <1>1, NilsAssumption DEF TypeOK, Refer, Mapped, Owned
<1>6. MapSound'
    BY <1>3, <1>4, NilsAssumption DEF TypeOK, MapSound
<1>7. Counted'
    <2> SUFFICES ASSUME NEW d \in Entry
                 PROVE  refs[d]' = Cardinality(Users(d)')
        BY DEF Counted
    <2>1. CASE d = e
        BY <1>3, <2>1, FS_Singleton DEF TypeOK
    <2>2. CASE d # e
        BY <1>4, <2>2 DEF Counted, TypeOK
    <2> QED
        BY <2>1, <2>2
<1> QED
    BY <1>2, <1>5, <1>6, <1>7

LEMMA LockEntryInv ==
    ASSUME Inv, NEW t \in Thread, LockEntry(t)
    PROVE  Inv'
<1> USE DEF Inv, LockEntry
<1>1. entry[t] \in Entry
    BY DEF TypeOK, Refer
<1>2. TypeOK'
    BY <1>1 DEF TypeOK
<1>3. \A e : Users(e)' = Users(e)
    BY DEF Users
<1>4. Refer' /\ Mapped'
    BY <1>1 DEF TypeOK, Refer, Mapped
<1>5. Owned'
    BY <1>1, NilsAssumption DEF TypeOK, Owned
<1>6. MapSound' /\ Counted'
    BY <1>3 DEF MapSound, Counted
<1> QED
    BY <1>2, <1>4, <1>5, <1>6

LEMMA UnlockEntryInv ==
    ASSUME Inv, NEW t \in Thread, UnlockEntry(t)
    PROVE  Inv'
<1> USE DEF Inv, UnlockEntry
<1>1. entry[t] \in Entry /\ owner[entry[t]] = t
    BY DEF TypeOK, Refer, Owned
<1>2. TypeOK'
    BY <1>1 DEF TypeOK
<1>3. \A e : Users(e)' = Users(e)
    BY DEF Users
<1>4. Refer' /\ Mapped'
    BY <1>1, NilsAssumption DEF TypeOK, Refer, Mapped
<1>5. Owned'
    BY <1>1 DEF TypeOK, Owned
<1>6. MapSound' /\ Counted'
    BY <1>3 DEF MapSound, Counted
<1> QED
    BY <1>2, <1>4, <1>5, <1>6

LEMMA ReleaseInv ==
    ASSUME Inv, NEW t \in Thread, Release(t)
    PROVE  Inv'
<1> USE DEF Inv, Release
<1>0. PICK e \in Entry : e = entry[t]
    BY DEF TypeOK, Refer
<1>1. e = entry[t] /\ locks[key[t]] = e /\ key[t] > 0 /\ Drop(t)
    BY <1>0, NilsAssumption DEF TypeOK, Refer, Mapped
<1>2. t \in Users(e) /\ Users(e)' = Users(e) \ {t}
    BY <1>1, NilsAssumption DEF Users, TypeOK
<1>3. \A d \in Entry : d # e => Users(d)' = Users(d)
    BY <1>1, NilsAssumption DEF Users, TypeOK
<1>4. Cardinality(Users(e)') = Cardinality(Users(e)) - 1
    BY <1>1, <1>2, UsersShrink
<1>5. refs[e] = Cardinality(Users(e)) /\ refs[e] \in Nat /\ refs[e] # 0
    BY <1>1, <1>2, CountMeans DEF Counted, TypeOK
<1>6. ASSUME refs[e] = 1 PROVE Mapped' /\ MapSound'
    <2>1. Users(e) = {t} /\ locks' = [locks EXCEPT ![key[t]] = NoEntry]
        BY <1>1, <1>2, <1>5, <1>6, CountMeans DEF Drop
    <2>2. \A u \in Thread : u # t => entry[u] # e
        BY <2>1 DEF Users
    <2>3. Mapped'
        BY <1>1, <2>1, <2>2 DEF TypeOK, Mapped
    <2>4. \A k \in Key :
              locks'[k] # NoEntry => /\ locks'[k] = locks[k]
                                     /\ locks[k] \in Entry
                                     /\ locks[k] # e
        BY <1>1, <2>1, NilsAssumption DEF TypeOK, MapSound
    <2>5. \A k \in Key : locks'[k] # NoEntry => Users(locks[k])' # {}
        <3> TAKE k \in Key
        <3> HAVE locks'[k] # NoEntry
        <3> PICK d \in Entry : d = locks[k] /\ d = locks'[k] /\ d # e
            BY <2>4
        <3>1. Users(d)' # {}
            BY <1>3, <2>4 DEF MapSound
        <3> QED
            BY <3>1 DEF Users
    <2>6. \A j, k \in Key : locks'[j] # NoEntry /\ locks'[j] = locks'[k] => j = k
        BY <2>4 DEF MapSound
    <2>7. MapSound'
        BY <2>5, <2>6 DEF MapSound
    <2> QED
        BY <2>3, <2>7
<1>7. ASSUME refs[e] # 1 PROVE Mapped' /\ MapSound'
    <2>1. UNCHANGED locks
        BY <1>1, <1>7 DEF Drop
    <2>2. Users(e) # {t}
        BY <1>5, <1>7, FS_Singleton
    <2>3. Users(e)' # {}
        BY <1>2, <2>2
    <2>4. Mapped'
        BY <1>1, <2>1 DEF TypeOK, Mapped
    <2>5. \A k \in Key : locks[k] # NoEntry => Users(locks[k])' # {}
        <3> TAKE k \in Key
        <3> HAVE locks[k] # NoEntry
        <3> PICK d \in Entry : d = locks[k] /\ d = locks'[k]
            BY <2>1 DEF TypeOK
        <3>1. Users(d)' # {}
            BY <1>3, <2>3 DEF MapSound
        <3> QED
            BY <3>1 DEF Users
    <2>6. MapSound'
        BY <2>1, <2>5 DEF MapSound
    <2> QED
        BY <2>4, <2>6
<1>8. Mapped' /\ MapSound'
    BY <1>6, <1>7
<1>9. TypeOK'
    BY <1>1, <1>5 DEF TypeOK, Drop
<1>10. Refer' /\ Owned'
    BY <1>1, NilsAssumption DEF TypeOK, Refer, Owned
<1>11. Counted'
    <2> SUFFICES ASSUME NEW d \in Entry
                 PROVE  refs[d]' = Cardinality(Users(d)')
        BY DEF Counted
    <2>1. CASE d = e
        BY <1>1, <1>4, <1>5, <2>1 DEF Drop, TypeOK
    <2>2. CASE d # e
        BY <1>1, <1>3, <2>2 DEF Drop, Counted, TypeOK
    <2> QED
        BY <2>1, <2>2
<1> QED
    BY <1>8, <1>9, <1>10, <1>11

-----------------------------------------------------------------------------
LEMMA NextInv == Inv /\ [Next]_vars => Inv'
<1> SUFFICES ASSUME Inv, [Next]_vars PROVE Inv'
    OBVIOUS
<1>1. ASSUME NEW t \in Thread, Lock(t) PROVE Inv'
    BY <1>1, LockNothingInv, AcquireKnownInv, AcquireNewInv DEF Lock
<1>2. ASSUME NEW t \in Thread, LockEntry(t) PROVE Inv'
    BY <1>2, LockEntryInv
<1>3. ASSUME NEW t \in Thread, Unlock(t) PROVE Inv'
    BY <1>3, UnlockNothingInv, UnlockEntryInv, ReleaseInv DEF Unlock
<1>4. CASE UNCHANGED vars
    <2>1. \A e : Users(e)' = Users(e)
        BY <1>4 DEF vars, Users
    <2> QED
        BY <1>4, <2>1 DEF vars, Inv, TypeOK, Refer, Mapped, MapSound, Counted, Owned
<1> QED
    BY <1>1, <1>2, <1>3, <1>4 DEF Next

\* The invariant holds for all goroutines, keys and entries: in particular the count
\* of an entry (keyedMutexEntry.refs) is the number of goroutines that refer to it.
THEOREM InvHolds == Spec => []Inv
<1>1. Init => Inv
    BY InitInv
<1>2. Inv /\ [Next]_vars => Inv'
    BY NextInv
<1> QED
    BY <1>1, <1>2, PTL DEF Spec

\* No two goroutines hold one key at a time (keyedMutex.Lock).
THEOREM KeyedMutexExcludes == Spec => []MutualExclusion
<1>1. Inv => MutualExclusion
    BY DEF Inv, TypeOK, Refer, Mapped, Owned, MutualExclusion
<1> QED
    BY <1>1, InvHolds, PTL

\* The map holds the entries of the keys in use and no others (keyedMutex.release).
THEOREM KeyedMutexIsClean == Spec => []MapHoldsWanted
<1>1. Inv => MapHoldsWanted
    BY NilsAssumption DEF Inv, TypeOK, Refer, Mapped, MapSound, Users, MapHoldsWanted
<1> QED
    BY <1>1, InvHolds, PTL
=============================================================================
