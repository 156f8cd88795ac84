---------------------------- MODULE EntityDeletion ----------------------------
(***************************************************************************)
(* Duplicates and the deletion of servers.  A server is deleted in two     *)
(* steps: somebody makes a row of it among the candidates, and somebody    *)
(* else confirms the row.  A worker looks for servers with one address and *)
(* makes rows for all of them but the newest, the one to keep, to which it *)
(* moves what refers to them.  Rows hold each other's servers, so that     *)
(* what confirms one of them has to look after the others.                 *)
(*                                                                         *)
(* Every operation of entity_deletion_service.go is one transaction, which *)
(* Postgres runs READ COMMITTED and the code without locks: a statement    *)
(* sees what is committed by then and what its own transaction wrote, and  *)
(* a row is written by its id, whatever has become of it since it was      *)
(* read.  A step here is a part of an operation whose statements run       *)
(* together, and the writes are applied with the commit: the locks that    *)
(* Postgres keeps until then on what was written exclude some of these     *)
(* orders, and add none.                                                   *)
(*                                                                         *)
(* Other parts of the system delete and restore servers without a look at  *)
(* the candidates.  Workstations and fiscal registers are handled by       *)
(* copies of this code.                                                    *)
(***************************************************************************)
EXTENDS Integers, SequencesExt

CONSTANTS
    Entity,          \* servers with one address, each at some time
    None,
    Workstation,     \* workstations refer to a server
    User,
    Worker,          \* DuplicatesGateway
    MaxCandidates,   \* bound: candidates ever made
    MaxOpen,         \* bound: transactions at once
    MaxUpsets        \* bound: deletions and restorations by others, and what is raced

ASSUME EntityAssumption == None \notin Entity \cup User
ASSUME WorkerAssumption == Worker \notin User
ASSUME BoundsAssumption == MaxCandidates \in Nat /\ MaxOpen \in Nat /\ MaxUpsets \in Nat

Id == 1..MaxCandidates
Tx == User \cup {Worker}

VARIABLES
    alive,           \* the servers without deleted_at
    link,            \* server_id of a workstation, or None
    cand,            \* entity_deletion_candidates by their id, which is also their age
    tx,              \* the open transactions
    raced,           \* ghost: what two transactions wrote without each other's knowledge
    upsets

data == <<alive, link, cand>>
vars == <<data, tx, raced, upsets>>

(***************************************************************************)
(* A row: its status is pending or confirmed; its source is the worker or  *)
(* a user; `keep` is duplicate_of_entity_id; `meta` is the column of that  *)
(* name, with survivor_id, loser_id and duplicate_entity_ids.              *)
(***************************************************************************)
Meta == [survivor : Entity \cup {None}, loser : Entity \cup {None}, dels : Seq(Entity)]

Candidate ==
    [status : {"pending", "confirmed"}, worker : BOOLEAN, by : User \cup {None},
     entity : Entity, keep : Entity \cup {None}, meta : Meta]

NoRow == <<>>

\* An open transaction: what it does next; the servers it deleted, the workstations it moved
\* and the columns it wrote, which nobody else sees before it commits; the deleted servers
\* whose other rows it has to look after; the servers to be merged, the one to keep first.
Idle == [at |-> "idle", gone |-> {}, moved |-> <<>>, wrote |-> <<>>, hit |-> {}, group |-> <<>>]

TypeOK ==
    /\ alive \subseteq Entity
    /\ link \in [Workstation -> Entity \cup {None}]
    /\ \A k \in Id : cand[k] = NoRow \/ cand[k] \in Candidate
    /\ \A t \in Tx :
          /\ tx[t].at \in {"idle", "merge", "clean", "commit"}
          /\ tx[t].gone \subseteq Entity /\ tx[t].hit \subseteq Entity
          /\ DOMAIN tx[t].moved \subseteq Workstation /\ DOMAIN tx[t].wrote \subseteq Id
          /\ tx[t].group \in Seq(Entity)
    /\ raced \subseteq Id \cup Workstation
    /\ upsets \in 0..MaxUpsets

Init ==
    /\ alive = Entity
    /\ link \in [Workstation -> Entity]
    /\ cand = [k \in Id |-> NoRow]
    /\ tx = [t \in Tx |-> Idle]
    /\ raced = {}
    /\ upsets = 0

-----------------------------------------------------------------------------
(* What a row names.                                                       *)

Pending(c) == c # NoRow /\ c.status = "pending"

Duplicate(c) == c.keep # None

\* getCandidateDeleteEntityIDs
Dels(c) == IF c.meta.dels = <<>> THEN <<c.entity>> ELSE c.meta.dels

\* getCandidateAllEntityIDs
Members(c) == ({c.entity, c.keep, c.meta.survivor, c.meta.loser} \cup ToSet(Dels(c))) \ {None}

WithDel(c, e) == IF Contains(Dels(c), e) THEN Dels(c) ELSE Append(Dels(c), e)

\* Mutant of Targets: only the server of the row itself.
TargetsFirst(c) == {c.entity} \ {c.keep}

\* What a confirmation deletes.
Targets(c) == (ToSet(Dels(c)) \cup {c.entity}) \ {c.keep}

-----------------------------------------------------------------------------
(* A transaction: what it sees, and what it writes.                        *)

Living(r) == alive \ r.gone

Links(r) == r.moved @@ link

Rows(r) == [k \in Id |-> IF k \in DOMAIN r.wrote THEN r.wrote[k] @@ cand[k] ELSE cand[k]]

\* An UPDATE of some columns of a row, or an INSERT.
Write(r, k, columns) ==
    LET before == IF k \in DOMAIN r.wrote THEN r.wrote[k] ELSE <<>>
    IN [r EXCEPT !.wrote = (k :> (columns @@ before)) @@ @]

Delete(r, servers) == [r EXCEPT !.gone = @ \cup (servers \cap Living(r))]

Relink(r, from, to) ==
    [r EXCEPT !.moved = [w \in {v \in Workstation : Links(r)[v] = from} |-> to] @@ @]

\* The ids that nobody uses.
Free == {k \in Id : cand[k] = NoRow /\ \A t \in Tx : k \notin DOMAIN tx[t].wrote}

\* GetActiveCandidateByEntity
ActiveOf(r, e) == {k \in Id : Pending(Rows(r)[k]) /\ Rows(r)[k].entity = e}

\* findPendingDuplicateCandidateByMemberTx and the loop of ensureDuplicateWorkerCandidateTx
WorkersOf(r, es) ==
    {k \in Id : Pending(Rows(r)[k]) /\ Rows(r)[k].worker /\ Members(Rows(r)[k]) \cap es # {}}

Oldest(ks) == CHOOSE k \in ks : \A l \in ks : k <= l
Newest(ks) == CHOOSE k \in ks : \A l \in ks : k >= l

\* Nothing is left to delete, or only the last one of the group.
Over(c, remaining, living) ==
    remaining = <<>> \/ (Duplicate(c) /\ c.keep \notin living /\ Len(remaining) = 1)

\* reconcilePendingCandidateTx: the columns it writes.
Reconciled(c, living) ==
    LET remaining == SelectSeq(Dels(c), LAMBDA e : e \in living)
        meta == [c.meta EXCEPT !.dels = remaining]
    IN IF Over(c, remaining, living) THEN [status |-> "confirmed"]
       ELSE IF ~Contains(remaining, c.entity) THEN [meta |-> meta, entity |-> remaining[1]]
       ELSE IF remaining # Dels(c) THEN [meta |-> meta] ELSE <<>>

\* The rows `ks` as they are now are reconciled, those that need it.
ReconcileAll(r, ks) ==
    LET columns == [k \in ks |-> Reconciled(Rows(r)[k], Living(r))]
    IN FoldSet(LAMBDA k, s : IF columns[k] = <<>> THEN s ELSE Write(s, k, columns[k]), r, ks)

\* confirmDeletionCandidateTx; what is deleted already counts as deleted.
CanConfirm(c) == Pending(c) /\ Targets(c) # {}

Confirm(r, k, c) ==
    [Write(Delete(r, Targets(c)), k, [status |-> "confirmed"])
        EXCEPT !.at = "clean", !.hit = Targets(c)]

\* replayDuplicateChoiceTx and mergePairWithSelectedKeepTx
CanReplay(r, c, keep, del) ==
    /\ Pending(c) /\ Duplicate(c) /\ {keep, del} = {c.entity, c.keep}
    /\ {keep, del} \subseteq Living(r)

Replay(r, k, keep, del) ==
    Write(Relink(r, del, keep), k,
          [entity |-> del, keep |-> keep,
           meta |-> [survivor |-> keep, loser |-> del, dels |-> <<del>>]])

Manual(u, e) ==
    [status |-> "pending", worker |-> FALSE, by |-> u, entity |-> e, keep |-> None,
     meta |-> [survivor |-> None, loser |-> None, dels |-> <<>>]]

Automatic(keep, e) ==
    [status |-> "pending", worker |-> TRUE, by |-> None, entity |-> e, keep |-> keep,
     meta |-> [survivor |-> keep, loser |-> e, dels |-> <<e>>]]

\* attachDuplicateContextToCandidateTx and appendDuplicateEntityToCandidateTx
Attach(r, k, c, keep, e) ==
    Write(r, k, [keep |-> keep,
                 meta |-> [survivor |-> keep, loser |-> e, dels |-> WithDel(c, e)]])

\* ensureDuplicateWorkerCandidateTx, which does not mind that the server is gone.  Without
\* a free id, which is a bound, the transaction fails.
List(r, keep, e) ==
    LET k == Oldest(WorkersOf(r, {keep, e})) IN
    IF WorkersOf(r, {keep, e}) # {}
    THEN IF e \in Members(Rows(r)[k]) THEN r ELSE Attach(r, k, Rows(r)[k], keep, e)
    ELSE IF e \notin Living(r) THEN r
    ELSE IF Free = {} THEN Idle ELSE Write(r, Oldest(Free), Automatic(keep, e))

\* Mutant of Asked: the worker confirms what it proposed itself.
AskedAny(c) == TRUE

\* A user asked for this deletion.
Asked(c) == ~c.worker

\* One turn of the loop of autoMergeServerDuplicatesTx.
Merge(r) ==
    LET keep == Head(r.group)
        e == r.group[2]
        k == Newest(ActiveOf(r, e))
        rest == IF Len(r.group) > 2 THEN <<keep>> \o Tail(Tail(r.group)) ELSE <<>>
        s == [r EXCEPT !.group = rest, !.at = IF rest = <<>> THEN "commit" ELSE "merge"]
        attached == Attach(Relink(s, e, keep), k, Rows(r)[k], keep, e)
    IN IF ActiveOf(r, e) = {} THEN List(Relink(s, e, keep), keep, e)
       ELSE IF Asked(Rows(r)[k]) THEN Confirm(attached, k, Rows(attached)[k])
       ELSE s

-----------------------------------------------------------------------------
(* The operations: each begins a transaction, with its first reads and the *)
(* writes that follow from them.  A write is known to the others with the  *)
(* commit; one that comes later than another's commit replaces what that   *)
(* one wrote.  A transaction that fails leaves nothing, as if it had not   *)
(* begun.                                                                  *)

Open == {t \in Tx : tx[t].at # "idle"}

Begin(t, r) ==
    /\ tx[t].at = "idle" /\ Cardinality(Open) < MaxOpen
    /\ r.wrote # <<>> \/ r.moved # <<>> \/ r.at = "merge"
    /\ tx' = [tx EXCEPT ![t] = r]
    /\ UNCHANGED <<data, raced, upsets>>

Started == [Idle EXCEPT !.at = "commit"]

\* RequestDeletion, with tryResolvePendingDuplicateCandidateTx: to ask for the deletion of
\* a server that is one of a pair of duplicates is to choose the other one.
RequestDeletion(u, e) ==
    LET k == Oldest(WorkersOf(Idle, {e}))
        c == cand[k]
        pair == {c.entity, c.keep}
        other == CHOOSE o \in pair : o # e
        chosen == IF c.entity = e THEN Started ELSE Replay(Started, k, other, e)
    IN IF WorkersOf(Idle, {e}) # {} /\ Cardinality(pair) = 2
       THEN /\ c.entity # e => CanReplay(Idle, c, other, e)
            /\ CanConfirm(Rows(chosen)[k]) /\ c.by # u
            /\ Begin(u, Confirm(chosen, k, Rows(chosen)[k]))
       ELSE /\ e \in alive /\ ActiveOf(Idle, e) = {} /\ Free # {}
            /\ Begin(u, Write(Started, Oldest(Free), Manual(u, e)))

\* The one who asked may not confirm.
ConfirmDeletion(u, k) ==
    /\ CanConfirm(cand[k]) /\ cand[k].by # u
    /\ Begin(u, Confirm(Started, k, cand[k]))

ReplayDuplicateChoice(u, k, keep, del) ==
    /\ keep # del /\ CanReplay(Idle, cand[k], keep, del)
    /\ Begin(u, Replay(Started, k, keep, del))

\* CleanupStalePendingCandidates
Cleanup == Begin(Worker, ReconcileAll(Started, {k \in Id : Pending(cand[k])}))

\* TryAutoMergeDuplicateGroup: the servers that have one address by now, the newest first.
TryAutoMerge(group) == Begin(Worker, Merge([Idle EXCEPT !.group = group]))

Groups == {g \in SeqOf(Entity, Cardinality(Entity)) : Len(g) >= 2 /\ IsInjective(g)}

AutoMerge == \E g \in Groups : ToSet(g) \subseteq alive /\ TryAutoMerge(g)

MergeNext ==
    /\ tx[Worker].at = "merge"
    /\ tx' = [tx EXCEPT ![Worker] = Merge(@)]
    /\ UNCHANGED <<data, raced, upsets>>

\* cleanupPendingCandidatesForDeletedEntitiesTx
CleanUpOthers(t) ==
    LET r == tx[t]
        touched == {k \in Id : Pending(Rows(r)[k]) /\ Members(Rows(r)[k]) \cap r.hit # {}}
        next == IF r.group = <<>> THEN "commit" ELSE "merge"
    IN /\ r.at = "clean"
       /\ tx' = [tx EXCEPT ![t] = [ReconcileAll(r, touched) EXCEPT !.at = next, !.hit = {}]]
       /\ UNCHANGED <<data, raced, upsets>>

\* The workstations that it moves to a server that another transaction is about to delete,
\* and the rows that another one is about to write.
Collides(t) ==
    UNION {(DOMAIN tx[t].wrote \cap DOMAIN tx[s].wrote)
             \cup {w \in DOMAIN tx[t].moved : tx[t].moved[w] \in tx[s].gone} : s \in Tx \ {t}}

\* What others wrote meanwhile is overwritten, column by column.
Commit(t) ==
    LET r == tx[t] IN
    /\ r.at = "commit"
    /\ alive' = Living(r) /\ link' = Links(r) /\ cand' = Rows(r)
    /\ tx' = [tx EXCEPT ![t] = Idle]
    /\ raced' = raced \cup Collides(t) /\ upsets + Cardinality(raced') <= MaxUpsets
    /\ UNCHANGED upsets

Upset ==
    /\ Cardinality(Open) < MaxOpen
    /\ upsets + Cardinality(raced) < MaxUpsets /\ upsets' = upsets + 1

\* Reconciliation with the registry, resolved tasks, the deletion of the company.
DeletedByOthers(e) ==
    /\ Upset
    /\ e \in alive /\ alive' = alive \ {e}
    /\ UNCHANGED <<link, cand, tx, raced>>

\* getServerDiff: the registry still has it.
RestoredByOthers(e) ==
    /\ Upset
    /\ e \notin alive /\ alive' = alive \cup {e}
    /\ raced' = raced \cup {k \in Id : \E t \in Tx : /\ k \in DOMAIN tx[t].wrote
                                                   /\ e \in Members(Rows(tx[t])[k])}
    /\ UNCHANGED <<link, cand, tx>>

-----------------------------------------------------------------------------
Next ==
    \/ \E u \in User : \/ \E e \in Entity : RequestDeletion(u, e)
                       \/ \E k \in Id : ConfirmDeletion(u, k)
                       \/ \E k \in Id, keep, del \in Entity : ReplayDuplicateChoice(u, k, keep, del)
                       \/ CleanUpOthers(u) \/ Commit(u)
    \/ Cleanup \/ AutoMerge \/ MergeNext \/ CleanUpOthers(Worker) \/ Commit(Worker)
    \/ \E e \in Entity : DeletedByOthers(e) \/ RestoredByOthers(e)

Spec == Init /\ [][Next]_vars

-----------------------------------------------------------------------------
Closes(k) == Pending(cand[k]) /\ ~Pending(cand'[k])

\* What of a row is left.
Left(c) == ((ToSet(Dels(c)) \cup {c.entity}) \ {c.keep}) \cap alive'

\* The worker alone deletes nothing: what it deletes a user had asked for by its name; and
\* no workstation is left with it that was not moved there at the same time.
AutoDeletesAsked ==
    [][Commit(Worker) =>
         \A e \in alive \ alive' :
            /\ \E k \in Id : cand[k] # NoRow /\ ~cand[k].worker /\ cand[k].entity = e
            /\ \A w \in Workstation : link'[w] = e => w \in raced]_vars

Done(k) ==
    Left(cand'[k]) = {} \/ (Cardinality(Left(cand'[k])) = 1 /\ cand'[k].keep \notin alive')

\* A row that no two transactions wrote at once is closed, by its confirmation or by that
\* of another row, only when nothing of what it names for deletion is left, or when the last
\* server of its group is.
ClosedIsDone == [][\A k \in Id \ raced : Closes(k) => Done(k)]_vars

\* The same of every row (row_raced.cfg: it is not so).
ClosedIsDoneAlways == [][\A k \in Id : Closes(k) => Done(k)]_vars

\* The deletion of duplicates leaves one of them (group_lost.cfg: it may not).
GroupSurvives ==
    [][\A k \in Id :
         upsets' = upsets /\ Closes(k) /\ cand[k].worker => Members(cand[k]) \cap alive' # {}]_vars
=============================================================================
