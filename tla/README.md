# Formal models of ServiceDesk (goSSS)

The repository holds a service desk: a Go server (`src/internal`, `src/pkg`) that
keeps tickets, clients and equipment in Postgres and exchanges them with Bitrix24,
Pyrus, the telephony of Megafon and several legacy systems, a Windows agent that
runs at the customers (`src/agent`), and a web front end. This directory models in
TLA+ the parts where goroutines, external services and restarts meet, checks small
instances with TLC and proves what matters for every size with TLAPS.

All times below are those of `tlc -workers 2`.

## 1. What is here

| file | content |
|---|---|
| `CommentDelivery.tla` | what the journal of outgoing comments promises, in two steps per comment |
| `BitrixCommentSend.tla` | the journal itself: senders, the reconciliation loop, the webhook handler, Bitrix24, failures |
| `MCBitrixCommentSend.tla` | its instances for TLC |
| `BitrixCommentSendProofs.tla` | theorems `TypesHold`, `JournalHolds`, `LinksStayApart` |
| `CommentDeliveryProofs.tla` | theorems `OneCopyHolds`, `OwnStaysOwn`, `RetriesAreSafe`, `CommentsAreDelivered` (the refinement), `NoSurplusHolds` |
| `KeyedMutex.tla` | the mutex by key that serialises webhook events |
| `KeyedMutexProofs.tla` | theorems `InvHolds`, `KeyedMutexExcludes`, `KeyedMutexIsClean` |
| `EventStream.tla` | a Redis stream with a consumer group, as the queues of incoming events use it |
| `PyrusQueue.tla`, `PyrusQueueProofs.tla` | the queue of incoming Pyrus events; theorems `OneWorkerHolds`, `AttemptsHold`, `ClosedEventsStay` |
| `BitrixQueue.tla`, `BitrixQueueProofs.tla` | the queue of incoming Bitrix24 events; theorem `EventsAreNotForgotten` |
| `MegafonCalls.tla`, `MCMegafonCalls.tla`, `MegafonCallsProofs.tla` | telephony events, the locks of their calls and the rows they build; theorems `OneHandlerHolds`, `NoWaitCycleHolds`, `StatusIsFurthestHolds`, `RecordedHolds` |
| `AgentLink.tla`, `MCAgentLink.tla`, `AgentLinkProofs.tla` | an agent and its server: tokens, heartbeats, commands and results; theorems `ResultsAreKept`, `CommandsRunOnce` |
| `SagaSteps.tla` | what a saga of the agent promises |
| `SagaEngine.tla`, `SagaEngineProofs.tla` | the engine that keeps it with a journal file; theorems `JournalsAreTruthful`, `FinishedStepsRest`, `SagaImplementsSteps`, `PosixInstalls` |
| `EntityDeletion.tla`, `MCEntityDeletion.tla` | candidates for deletion, their confirmation, and the merging of duplicates, as transactions that interleave |
| `*.cfg` | one file per run, named as in section 10, and the counterexample configurations of section 12 |
| `PROJECT.json` | components, runs, mutants, the source lines of each definition, hazards, findings, theorems |

The modules are separate, as the components are: they meet in Postgres rows and
queued events, and each module contains the neighbours' side of the rows it is about
(webhooks, operators, other services) as actions of its own. Two modules are shared:
`BitrixQueue` and `PyrusQueue` extend `EventStream`; `MegafonCalls` and
`BitrixCommentSend` use the promise that `KeyedMutex` is shown to keep.

## 2. Inventory

Status: **M** modelled, **P** partly, **-** not at all. `PROJECT.json` lists the same
components with their files and, under `hazards`, each spot where they are hard to
test.

### The comments that go to Bitrix24

* **Outgoing comment journal** (M; `bitrix_comment_send.go`,
  `bitrix_comment_send_repo.go`).
  *State:* the table `comment_send_state` (status, attempts, fingerprint,
  watermark, `finalize_pending`) and `comment_link`, which ties a comment to its
  Bitrix24 identifier.
  *Operations:* claim, call, mark rejected or ambiguous, confirm, preview,
  reconcile (list, adopt, resolve as absent, resend), finalize.
  *Hard:* `crm.timeline.comment.add` has no idempotency key; its answer may be lost;
  a comment event, its redelivery, the ticket sync, the reconciliation and a webhook
  all work on one comment; the server may stop between any two steps.
  *Correct when:* a comment appears once, is linked to that very copy, an open send
  is decided in the end, and previews are finished.
* **Deal and comment sync** (P; `bitrix_sync_service.go`, `bitrix_event_bridge.go`,
  `bitrix_module.go`). It decides which comments are sent, and when. Deals, contacts
  and dictionaries are idempotent writes and are not modelled.
* **REST client of Bitrix24** (P; `bitrix/client.go`). *State:* a rate limiter.
  *Hard:* which errors mean "not executed", which mean "unknown", and how long all
  tries of a call may last.
* **Incoming webhooks of Bitrix24** (P; `bitrix_incoming_service.go`). *State:* the
  anti-loop keys in Redis, `commentLocks`, `dealLocks`. *Hard:* a webhook may come
  before the answer to the call it announces, late, or twice.
* **Mutex by key** (M; `keyed_mutex.go`). *State:* a map of reference-counted
  entries. *Hard:* an entry is dropped while others are about to wait for it.
  *Correct when:* a key has one holder, nobody waits for ever, nothing is left in
  the map.

### Queues of incoming events

* **Bitrix24** (M; `bitrix_repo.go`, `bitrix_incoming_service.go`). *State:* rows with a
  status in Postgres, a Redis stream with consumers. *Operations:* receive, dispatch,
  take, take over idle messages, finish, retry. *Hard:* nothing is claimed, every
  update of a row is unconditional, so results and late markings overwrite each other.
  *Correct when:* an accepted event is handled at least once, and a failed one again.
* **Pyrus** (P; `pyrus_incoming_service.go`, `pyrus_repo.go`). The same with conditional
  claims (`TryMarkIncomingProcessing`), waiting, cancel, replay and a mode without Redis.
  *Correct when:* an event has one worker, spends attempts on errors only, ends in a
  final status, and a final status stays. What the handler does to tickets is not
  modelled.
* **Megafon VATS** (P; `megafon_vats_*_service.go`, `telephony_repo.go`). The same with a
  recovery loop, and a handler that reads, merges and writes whole rows of calls under
  locks by call. *Hard:* events that name two calls, events of a call that was merged
  away, runs of `SyncHistory` without locks. *Correct when:* no deadlock, one handler
  per event, nothing an event said gets lost, the status of a call never goes back.
* **Outgoing sync to Pyrus** (-; `pyrus_sync_service.go`). One conditional write per
  comment and a call; its hard part is the anti-loop key, which lives in time.

### Core

* **Event bus** (-; `pkg/eventbus/eventbus.go`). *State:* a bounded queue, subscribers
  and their channels. *Hard:* a full queue drops events. It promises no delivery, and
  one mutex covers each operation on subscribers.
* **Entity deletion** (M; `entity_deletion_service.go`). *State:* candidates, rows that
  list entities to delete in favour of one to keep. *Operations:* request, confirm,
  replay the choice, clean up, merge a group of duplicates. *Hard:* rows list each
  other's entities, transactions interleave without row locks, other services delete and
  restore these entities. *Correct when:* nothing is deleted that nobody asked for, and
  rows are closed only when their work is done.
* **Data orchestrator, engine and reconciliation** (-; `core/processing`), **gateways**
  (-), **workers** (-): periodic passes over external data, whose difficulty lies in
  the matching rules and not in their order.
* **Tickets, checklists, contacts, contracts, network candidates, users, materials, HTTP
  transport** (-): requests that are one transaction each, or I/O.

### Agent

* **Agent server side** (P; `agent_service.go`, `agentauth/service.go`,
  `agent_saga_commands.go`) and **agent runtime** (P; `agent/runtime/agent.go`).
  *State:* tokens on both sides, commands, results not yet acknowledged. *Hard:* each
  request is several statements without a transaction, and its answer may be lost.
  *Correct when:* no result is lost, no command runs twice, and an approved agent gets
  a session again.
* **Saga engine** (M; `agent/saga`). *State:* a journal, in memory and as a file. *Hard:*
  a stop between a step and its record, self-update, the replacement of the file.
  *Correct when:* steps take effect in order, and the outcome reported is true.
* **Adapters, connectivity, scheduler, inventory, fiscal adapters** (-): file and
  hardware access.

## 3. The journal of outgoing comments

### State

| variable | code |
|---|---|
| `send[c]` | the row of `comment_send_state`: `status`, `attempts`, `fp` (fingerprint), `b24`, `wm` (watermark), `born` (`created_at`, as the length of the timeline at that time), `fin` (`finalize_pending`); status `"none"` is a missing row |
| `link[c]` | the row of `comment_link` of direction etalon to Bitrix24, 0 when missing |
| `foreign` | the `b24_comment_id` of the rows of the other direction |
| `imported`, `local` | comment rows of the ticket: those that came from Bitrix24, and whose text and author the own ones carry |
| `timeline` | the timeline of the deal at Bitrix24. Identifiers grow, so a comment's identifier is its index. `src` is the ticket comment it is a copy of, which no code reads and only properties mention |
| `styled` | Bitrix24 comments whose image preview is in place |
| `wire[w]` | a request `comment.add` that Bitrix24 has yet to run |
| `pc`, `job`, `found` | the step and the local variables of a sender or of the reconciler |
| `hpc`, `hjob` | the same for a consumer of the webhook queue |
| `faults` | errors and restarts so far, up to `MaxFaults` |

### Actions

| code | actions |
|---|---|
| `SyncComment`, `syncPendingComments` | `BeginSync`, `LinkMissing`, `LinkedSkip`, `LinkedUpdate`, `Refresh`, `Rewrite`, `Repreview` |
| `sendNewComment`: `MaxCommentLinkB24ID`, `ClaimCommentSend`, `explainUnclaimedCommentSend` | `ReadWatermark`, `ClaimNew`, `ClaimRejected`, `ClaimDenied` |
| `sendNewComment`: `TimelineCommentAddWithFiles`, `Client.call` | `Post`, `PostRefused`, `CallRetry`, `AnswerOk`, `AnswerUnknown` |
| `sendNewComment`: settlement and `applyImagePreview` | `SettleRefused`, `SettleUnknown`, `SettleConfirmed`, `Preview`, `PreviewDeferred` |
| `ReconcileCommentSends`, `reconcileCommentSend` | `ReconcilePick`, `ReconcileDemote`, `ReconcileList`, `ReconcileTry`, `ReconcileAdopt`, `ReconcileNothingFound`, `ReconcileAbsent`, `ReconcileResend` |
| `finalizeConfirmedComment` | `FinalizePick`, `Finalize`, `FinalizeClear` |
| `handleTimelineCommentAdd`, `adoptOutgoingComment`, `addOrUpdateCommentFromBitrix` | `WebhookBegin` ... `WebhookAdopt`, `ImportUpdate`, `ImportNew`, `ImportReserve`, `ImportAdd`, `ImportUndone` |
| Bitrix24 and its users | `BitrixAdds`, `BitrixDrops`, `ForeignComment` |
| failures | `Abandon`, `HAbandon` (a step fails and the rest is skipped), `Restart` |

Every database statement, every transaction and every call to Bitrix24 is a step of
its own, so other goroutines may run between any two of them. `ClaimCommentSend` is
one action: its `INSERT ... ON CONFLICT DO NOTHING` and its conditional `UPDATE`
cannot both change the row, and another goroutine's step between them looks to the
caller like one before or after. A call to Bitrix24 has three parts: the request
leaves (`Post`), Bitrix24 runs or loses it (`BitrixAdds`, `BitrixDrops`), the worker
learns something (`AnswerOk`, `AnswerUnknown`, `CallRetry`). A request may be run
after its worker gave up or died with the server; that is what the journal is for.

### What is abstracted, and why that is sound

* *Texts.* A member of `Text` is what `bitrixCommentFingerprint` computes; markup and
  uploads do not show. `TextsOf[c]` holds the versions of a comment: an event carries
  the text it was published with, and the ticket sync builds it differently, so any
  version may be sent at any time.
* *Time.* `CREATED` and its skew become positions in the timeline: a comment counts as
  created after the claim when it is above `born - Skew`. The margin of the watermark
  is index arithmetic already.
* *Grace period.* `ReconcilePick` waits until Bitrix24 has run or lost the last
  request (`Quiet`): `BITRIX_WRITE_TIMEOUT_SEC` is 65 s, the grace period 120 s. That
  the whole call with all its tries is over by then (`Settled`) is the assumption
  `Timely`; nothing in the code enforces it, and the run `slow_sender` shows what
  happens without.
* *Anti-loop keys.* An event they suppress changes nothing. They expire and Redis may
  be down, so every event may also be handled.
* *Errors of Bitrix24.* Which answers mean "not executed" (no connection, 429, 503,
  `QUERY_LIMIT_EXCEEDED`) is taken from the classification in `Client.call`, as an
  assumption about an external service.
* *Left out:* private comments and closed deals (no send at all), the batch of 20 of
  one reconciliation pass (section 10), UPDATE and DELETE webhooks (section 13).

### The promise: `CommentDelivery`

For each comment: `unsent`, then one copy appears (`Deliver`), then the ticket learns
its identifier (`Learn`); nothing else ever happens. `BitrixCommentSend` implements
it under the mapping `Stage(c)`, which looks at the copies in the timeline and at the
link. A second copy, a link to another comment, a link that changes or goes away are
"broken", a stage `CommentDelivery` does not have; so the property
`ImplementsDelivery` says that the old comment with the same text is not adopted,
that a link once made stays, and that no retry shows.

With two comments of the same text the promise does not hold in this form, and need
not: nobody can tell which copy belongs to which comment. What remains of it is
`LinksApart`, always, and `NoSurplusCopies` as long as the reconciliation alone adopts
copies: with a webhook consumer beside it a comment may be sent once too often
(`twin_resent`, section 12).

## 4. The mutex by key

`KeyedMutex` models `keyed_mutex.go` in the four steps that other goroutines can come
between: `acquire` (`AcquireKnown`, `AcquireNew`, under the mutex of the map),
`entry.mu.Lock` (`LockEntry`), `entry.mu.Unlock` (`UnlockEntry`), and the second half of
`release` (`Release`, under the mutex of the map). Keys below 1 are not locked
(`LockNothing`, `UnlockNothing`). Entries are memory: the garbage collector hands an
entry out again once neither the map nor a goroutine refers to it, so the model would
notice a goroutine that keeps an entry too long. `pc`, `key` and `entry` are the
progress and the arguments of a goroutine that calls `Lock` and then the function it
returned. In `BitrixCommentSend` the mutex is used as its promise: two handlers never
work on one identifier (`WebhookBegin`). `len` is read by tests only.

## 5. Queues of incoming events

### `EventStream`

External: `stream[m]` says whether a message is free (not in the stream), queued or
pending, and which event it names; `msg[w]` is the message a worker is to acknowledge.
`XAdd`, `XReadGroup`, `XClaim`, `XAck` are the commands the services use. The order of
messages is left out, as the goroutines of a group finish in any order. `XClaim` may
take a message from a worker that is merely slow; the minute of idle time is not
modelled, so it may come at any moment.

### `PyrusQueue`

| variable | code |
|---|---|
| `row[e]` | `pyrus_incoming_events`: `status`, `attempts`, and `age`, the deferrals since `wait_started_at` in place of a time |
| `replays` | `replay_count`, bounded |
| `call[e]` | how far `HandleWebhook` or `ReplayEvent` is: to enqueue, to mark |
| `todo`, `marking` | what `dispatchLoop` (without Redis, the polling loop) has listed; the event it enqueued and is about to mark |
| `at`, `ev`, `seen` | the step of a worker, its event, and what it read of the row before it claimed it |
| `failures` | for the property `AttemptsAreFailures` only |

| code | actions |
|---|---|
| `HandleWebhook`, `ReplayEvent`, `enqueueEvent` | `Receive`, `Replay`, `Enqueue`, `EnqueueFails`, `MarkQueued` |
| `CancelIncomingEvents` | `Cancel` |
| `dispatchLoop` | `List`, `DispatchEnqueue`, `DispatchFails`, `DispatchMark` |
| `consumeLoop`, `claimPendingLoop`, the loop without Redis | `Deliver`, `ClaimPending`, `Poll` |
| `processIncomingEvent` | `Read`, `TryMark`, `TryMarkRefused`, `Complete`, `Fail`, `Defer`, `Expire`, `StatementFails`, `Ack` |
| the process stops | `Restart` |

The handler is one step with the outcomes done, ignored, failed, deferred for want of
data. The anti-loop key is one more reason for "ignored".

### `BitrixQueue`

The same shape with fewer statuses. `result[w]` is the outcome a worker is about to
store: handling and storing are two steps, as a restart may come between. `handled` is
the set of events whose handler came to an end, which no code reads. `unread` is the set
of events whose message was acknowledged because the row could not be read
(`processAndAck`), the only way in which this queue forgets.

### `MegafonCalls`

| variable | code |
|---|---|
| `row[e]`, `marking` | `telephony_incoming_events`; what was announced on the stream and is about to be marked as queued |
| `call[c]` | `telephony_calls`: `marks`, the events whose content the row has absorbed, and `rank`, that of its status |
| `log[e]` | `telephony_call_events`: the call an event belongs to |
| `owner[c]` | who holds the lock of a call |
| `at`, `ev`, `snap`, `merged` | the step of a goroutine, its event, the row it has read and is to write, the call that row absorbs |
| `safe` | events whose row nobody without the lock held when it was written; for `Recorded` only |

`Lock` takes the next key of `lockCallChain`; `TryMark`, `Skip`, `Read`, `ReadSecond`
(`buildCallSnapshot`, `mergeMegafonCallSnapshots`), `Write` (`UpsertCall` or
`MergeCalls`), `AddCallEvent`, `Store` and `Unlock` are the statements of
`processIncomingEvent`. `SyncRead` and `SyncWrite` are `syncHistoryRecord`. The stream is
no more than `Take`: any stored event may reach a goroutine at any time, which covers
lost, late and doubled messages and stale listings. Left out: ignored events, the
context of a call (contacts, tickets), recordings, and statuses of the history that
`mergeMegafonEventStatus` does not rank. `callLockKey`, a hash of
63 bits, is taken to be injective: two calls of one event with the same hash would make
the event wait for itself.

## 6. The agent and its server: `AgentLink`

| variable | code |
|---|---|
| `cmd`, `stored` | `agent_commands`: status, and whether there is a `result_payload` |
| `access`, `refresh`, `approved` | tokens that are neither revoked nor expired, and `registration_approved_at` |
| `req[s]` | a request the server handles: what it is, its step, the tokens and results it brought, the row it read, the tasks it is to answer with |
| `at`, `conn`, `second` | the agent's step, the request whose answer it awaits, whether this is the second heartbeat of a round |
| `held`, `fresh`, `registry` | its tokens in memory, whether it believes them valid, the tokens it would find after a restart |
| `pending`, `todo` | `pendingTaskResults`, the tasks that are yet to run |
| `ran`, `again`, `strayed` | for properties only: what this process ran, and ran twice; commands that were handed out with an answer the agent never saw or to a process that stopped |

Agent: `Begin` (`ensureAuthLocked` and the choice of the request), `HeartbeatAccepted`,
`HeartbeatRefused`, `TokensIssued`, `TokensNotSaved`, `RefreshRefused`, `RoundFails`,
`GiveUp` (timeout), `Execute`, `Rest`, `StopAgent`. Server: one action per statement,
`Authorize`, `ReadAgent`, `UpdateAgent`, `CompleteCommands`, `FetchCommands`,
`MarkCommands`; `CheckRefresh`, `Rotate`, `SaveAgent`, `RevokeAccess`, `RevokeRefresh`,
`CreatePair`, `RecordAttempt`; `StatementFails` and `Cancel` at each of them. `Enqueue`
and `Approve` are the operator's.

Two requests of one agent overlap when it gave one up and the server did not. Left out:
scheduled adapters and manifests, the content of inventories and observations, pauses
of `connectivity` (they only take time); a refresh token that the agent knows to be
expired is one that the server refuses. A restart of the server is a `Cancel` of its
requests.

## 7. The saga engine

`SagaSteps` is the promise: which steps acted (`did`), whether the target version is
installed and whether it runs, and the outcome reported. Steps act in order (a step may
do so again); "completed" is reported only when all have, or when the target version
runs already. A self-update is `detached` where its last step only starts the
installation: what comes of that (`Install`) is then open, also after "completed".

`SagaEngine` has the journal in memory and on disk (`journal`, `file`: a status of the
saga and one per step), the engine's position (`at`, `next`, `i`, `attempt`), the
version that runs and the executable on disk, and what happened (`done`, `outcome`,
`recorded`, `repeated`). `Deliver` is `Execute` with a journal that is missing or
unfinished, `DeliverReused` with a completed one; `Skip`, `StartStep`, `HandlerActs`,
`HandlerSucceeds`, `HandlerStops` (a version check that finds nothing to do),
`HandlerFails` and `CompleteSaga` are the loop of `Execute` with `executeStep`; `Remove`
and `Rename` are the two calls of `writeFileAtomically` a stop may come between,
`SaveFails` and `RenameFails` their failures; `Restart` stops the process, and starts the
executable that is installed. `failed`, `canceled` and `timed out` are one status, since
the engine treats a later delivery the same.

*The two ways to apply an update* (`windows`, chosen at the start, so that every run has
both). `applyPosix` renames the download over the executable: when the handler has acted,
the target is installed. `applyWindows` starts a script and returns success: `scripts`
counts the scripts that have not run, `fresh` says that the download is there.
`RunScript` moves the executable away and the download into its place; when the download
is gone (an earlier script took it, a failed attempt of the step removed it) no
executable is left. `ScriptFails` is a stop of the machine before or between the moves,
or a move that fails; nobody looks. The saga is recorded and reported as completed before
any of that, and a later delivery is answered from the journal: `update_lost.cfg`
refutes `CompletedIsInstalled`, and the promise says no more than the code keeps. `exe`
never returns to "old", since nothing restores the `.bak` file.

Left out: `ensureSameRequest`, unknown step types, the log, the old process that goes on
beside the new one after `ApplyAndRestart`, a download cut short by a stop, and a script
file that is overwritten while it runs.

The mapping is `did <- done`, `installed <- (exe = "target")`, `runs <- version`,
`detached <- windows`; that it is a refinement rests on the journal being true, in memory
and on disk: `IInv` in `SagaEngineProofs`.

## 8. Entity deletion

`alive` is the set of servers without `deleted_at`, `link` the server of a workstation,
`cand` the candidates by their id; a candidate's columns are in the comment of
`Candidate`. These are what is committed. Every operation of the service is one
transaction, begun by an action of its name: `RequestDeletion`, `ConfirmDeletion`,
`ReplayDuplicateChoice`, `Cleanup`, `AutoMerge`.

*Transactions.* Postgres runs them READ COMMITTED, and the code takes no row locks
(`transactor.go`, no `FOR UPDATE`): a row is read, and written later by its id, with no
test of its status or of what was read. `tx[t]` is the transaction of `t`, a user or the
worker: what it deleted, moved and wrote so far, column by column. Its own reads (`Living`,
`Links`, `Rows`) see that on top of what is committed at the time, nobody else does, and
`Commit` puts it over what others have committed meanwhile. The parts of a transaction
that read on their own are steps of their own: `RequestDeletion` and its like with the row
they read, `CleanUpOthers` (`cleanupPendingCandidatesForDeletedEntitiesTx`, after a
confirmation), each turn of the loop of `autoMergeServerDuplicatesTx` (`AutoMerge`,
`MergeNext`). So a confirmation may close a row the worker has just added a server to, and a
merge may write over a replay. `Confirm`, `Replay`, `Attach`, `List`, `Reconciled` are the
functions with suffix `Tx`, as operators on a transaction. A transaction that fails
leaves nothing, as if it had not begun, and one that writes nothing is not a step.

The model is not finer than that: the statements of one part see the same state. It is
more permissive in one respect: Postgres keeps a lock on what was written until the commit,
which makes the other one wait; that excludes orders of the model, and no others occur.

`DeletedByOthers` and `RestoredByOthers` are the services that delete and restore servers
without a look at the candidates.

*What holds.* `raced` is a ghost: the rows that a transaction wrote while another one was
about to write them, and the workstations it moved to a server that another one was about
to delete. `ClosedIsDone` excepts these rows: of the others, none is closed while a server
that it names for deletion lives on beside the one to keep. Of the rows in `raced` this is
not true, which `row_raced.cfg` shows (`ClosedIsDoneAlways`): a user confirms a row
read with the list 2, the worker appends 3 to it, and whoever commits last, a
confirmed row names 3, which lives. `AutoDeletesAsked` needs no such exception for what is
deleted: `AutoMerge` deletes a server only when somebody asked for that server by name,
whatever runs beside it; only the workstation that a concurrent replay moves to that very
server is excepted.

Left out: the copying of fields from the deleted to the kept server, the histories, and
the copies of the code for workstations and fiscal registers. The cascade of a company appears as `DeletedByOthers`. One address
is modelled: rows about different addresses do not meet.

## 9. How the bounds were chosen

A run's bounds are the smallest with which each mutant of its properties, each
exception in them, and each counterexample of section 12 occurs; then as large as
five minutes allow.

* *Comments.* Comments share nothing but the link table, the watermark and equal
  texts; two comments with one text show the interaction, and a third adds none.
* *Senders.* Two senders and the reconciler can be in three phases of one send at
  once. A third sender can only be denied like the second.
* *Attempts of a send.* `MaxAttempts = 2` has a first attempt, a retry and the refusal of
  the third; the code's 3 adds another retry of the same kind.
* *Tries of a call.* `CallAttempts = 1` or `2` for the code's 5: a try that is repeated
  has not been executed, and leaves the same state behind.
* *Failures.* One error or restart, anywhere, in the journal; one in `PyrusQueue` and
  `MegafonCalls`, two in `BitrixQueue` and `AgentLink`, six in `SagaEngine`. Each puts a
  worker back to idle; the state that is left behind is what counts, and the other
  workers are in any state.
* *Margin and skew.* `Margin = 1`, `Skew = 0` with one old comment of the same text:
  the old comment lies inside the margin, so that only the time of creation keeps it
  apart.
* *Foreign comments.* One, at any place of the timeline.
* *Events of the queues.* Events of Bitrix24 and Pyrus share only workers; one event with
  two messages and two workers has every conflict. A message is used again after its
  acknowledgement, so more than two are sent.
* *Calls.* Two calls and the three events of a transfer: one that names each call, and
  one that names both. `AcceptedIsHandled` needs only the two that can wait for each
  other.
* *Tokens.* Four pairs: with two upsets an agent cannot lose more than it can be issued
  again; a pair that nobody holds any more is used again.
* *Servers.* A group of three is the smallest in which the one to keep may be deleted
  and a group remain, and in which a row may be given a server more. Servers and users are
  symmetric (`MCEntityDeletion`; the properties are no liveness properties).
* *Transactions and rows.* Any two transactions at once (`MaxOpen = 2`), of two users or of
  a user and the worker. Two rows, so that the confirmation of one changes the other, and a
  request meets the row of a merge. `MaxUpsets = 1` bounds the deletions and restorations by
  others and what is raced together: a behaviour has one of them. The fate of a row that has
  raced is excepted from there on, and with the bound the other row is looked at; a third
  transaction could only race one of the two rows again.

## 10. Runs

| run | instance | states | time |
|---|---|---|---|
| `send_core` | 1 comment with images, 2 senders, reconciler, 1 webhook consumer, an old comment with the same text, 1 failure | 486 k | 17 s |
| `send_edits` | 1 comment in 2 texts, 1 sender, reconciler, 1 consumer, 1 foreign comment, 2 tries per call | 777 k | 15 s |
| `send_twins` | 2 comments with one text, 2 senders, reconciler, no webhooks, 1 failure | 1.2 M | 22 s |
| `send_live` | as `send_core` with 1 sender, under fairness | 79 k | 28 s |
| `keyed_mutex` | 3 goroutines, keys 0, 1, 2, 3 entries | 3.8 k | 2 s |
| `pyrus_queue` | 1 event, 2 messages, 2 workers, 1 replay, 1 failure, with and without Redis, under fairness | 443 k | 83 s |
| `bitrix_queue` | 1 event, 2 messages, 2 workers, 2 failures, under fairness | 239 k | 35 s |
| `megafon_calls` | 3 events on 2 calls, 2 workers, 1 upset | 1.0 M | 16 s |
| `megafon_live` | 2 events on 2 calls, 2 workers, 1 upset, under fairness | 53 k | 17 s |
| `agent_link` | 2 commands of one saga, 2 requests at a time, 2 upsets, under fairness | 819 k | 133 s |
| `saga_engine` | 4 steps, 2 tries each, 6 upsets, under fairness | 44 k | 3 s |
| `entity_deletion` | 3 servers, 1 workstation, 2 users, 2 rows, 2 transactions at a time, 1 upset or race, with symmetry | 1.0 M | 85 s |

**`send_core`** shows that the journal does its work. `AtMostOneCopy`: no interleaving
of events, syncs, retries, webhooks and reconciliation adds a comment twice.
`RetryOnlyWhenAbsent`: a second attempt begins only when the first has left nothing
and can leave nothing. `OwnNeverImported`: the webhook of an own comment does not
bring it back into the ticket. `JournalMatchesLink`: two tables, written by three kinds
of actors, agree. `ImplementsDelivery`: section 3.

**`send_edits`** repeats the last two where fingerprints matter: the comment is edited
between attempts and rewritten afterwards, and somebody else writes the same texts.

**`send_twins`**: two comments with the same text may be linked to each other's copy,
but there are never more copies than sent comments, and no copy is linked twice.
Webhooks are off, as they are by default (`BITRIX_WEBHOOK_ENABLED=false`); with them the
first half fails.

**`send_live`**: `OpenIsSettled` (a send that is open is confirmed or rejected in the
end), `DeliveredIsLinked` (what reached Bitrix24 is linked in the end),
`PreviewFinishes` and `ReservedIsImported`. The last two exclude failures: the code
does not survive a stop at those two places (section 12).

**`keyed_mutex`**: mutual exclusion, the inductive invariant `Inv`, `MapHoldsWanted` (no
entry leaks and none is missing) and, under fairness, `Served`.

**`pyrus_queue`**: `OneWorker`: messages may be doubled and taken over, and still one
worker at a time processes an event. `ClosedStays`: an event that is done, ignored or
cancelled stays so, whatever was listed or enqueued before. `AttemptsAreFailures`:
waiting spends no attempts. `AcceptedIsSettled`: with two exceptions, an abandoned row
in `processing` and a queued row that nobody was told of after a failed statement.

**`bitrix_queue`**: `NeverForgotten` and, as a promise, `AcceptedIsHandled`: an accepted
event is handled at least once, though messages are acknowledged by whoever comes
first and statuses overwrite each other. `ErrorsAreRetried`, except for rows that end in
a status no loop lists.

**`megafon_calls`**: `NoWaitCycle`: events that name two calls the other way round do not
wait for each other. `OneHandler`: a replay or a late marking lets a second goroutine
claim an event that is processed, and the locks keep it waiting. `Recorded`: what an
event said stays in the row of a call through merges and later events; rows that
somebody held without the lock are excluded. `StatusIsFurthest`: no order of events and
merges takes a call back.

**`megafon_live`**: `AcceptedIsHandled`, with lost messages, through `recoveryLoop`.

**`agent_link`**: `NoResultLost`, `RunOnce`: a command that is handed out again because
`MarkCommandsAsSent` failed is not run again by the same process. `SessionsRecover`: from
every loss of tokens, during their rotation too, the agent gets back to an accepted
heartbeat, as long as its registration stays approved. `CommandsFinish`: a command that
did not stray is closed.

**`saga_engine`**, on Posix and on Windows: `ImplementsSteps`: the refinement of section 7;
on Windows it promises that the steps acted, not that the script which the last one started
moved the files. `RecordedNotRepeated`: a step the file recorded as finished does not run
again, unless the file was lost. `SagaFinishes`: no state of the journal, on disk or in
memory, keeps a saga that is delivered again from its end, as long as there is an
executable to start.

**`entity_deletion`**: `AutoDeletesAsked`: the worker deletes only what a user had asked
for by name, and leaves no workstation at it that was not moved there meanwhile.
`ClosedIsDone`: rows are closed, also by the confirmation of others, only when their work is
done, if no two transactions wrote them at once (section 8).

Deadlock is checked in `keyed_mutex`, `agent_link` and `saga_engine`. It is not in the
others, because there the system may stop: failures, events, attempts and rows are
bounded, and nobody has to send anything.

### Fairness

*Journal.* A goroutine that can take a step takes one (weak fairness of `SenderStep`,
`ReconcilerStep`, `HandlerStep`), and a request on the wire is run or lost (weak fairness
of the two together). `ReconcilePick` and `FinalizePick` are strongly fair for each
comment: `startCommentReconcileLoop` runs a pass at a fixed interval for ever, and a pass
takes the sends that are due one by one. The loop is busy with other comments in
between, hence strong and not weak fairness. The passes take 20 entries, the oldest
first; that each send gets its turn is therefore true as long as fewer than 20 entries
fail for ever, which is listed as a hazard.

*Mutex.* A holder returns (`Unlock`, weakly fair), and a `sync.Mutex` does not starve a
waiter (`LockEntry`, strongly fair), which is Go's starvation mode.

*Queues.* Handlers and HTTP requests return (weak fairness of `WorkerStep`, `CallStep`);
the dispatcher is a loop (weak fairness of `LoopStep`). A message is delivered in the
end, or taken over when its worker is gone (strong fairness, since the workers may be
busy in between; `claimPendingLoop` looks at all pending entries again and again).

*Telephony.* `recoveryLoop` lists every three seconds what is due (`Recover`, strongly
fair: its goroutines are busy with other events in between); a mutex that is free again
and again is taken (`Lock`, strongly fair); nothing is assumed of the stream.

*Agent.* The agent's loop runs for ever (`Round`), and handlers on the server return
(`Handler`). Nothing is assumed about which request is given up; upsets are bounded,
so that in the end the connection works, without which no agent can get a session.

*Saga.* The engine is one goroutine (`Engine`). Weak fairness of `Deliver` is no promise of
the code: it stands for an operator who sends the saga again as long as it fails, and
`SagaFinishes` says that the journal is then not in the way.

Nothing is assumed about users, events, webhooks and failures.

## 11. Proofs

`tlapm` checks the proof modules from nothing in about ten minutes, half of them for
`CommentDeliveryProofs`. Every safety invariant and action property that a run checks is
the subject of a theorem, except those of `EntityDeletion`.

**`KeyedMutexProofs`.** `Inv` is the inductive invariant: everybody
who is between `acquire` and the end of `release` refers to an entry (`Refer`), namely
the one the map holds for the key (`Mapped`); two keys have different entries and an
entry in the map has users (`MapSound`); `refs` is the number of users (`Counted`); a
holder owns the mutex of its entry (`Owned`). Mutual exclusion alone is not inductive:
it needs that two users of a key refer to the same entry, which needs that an entry
is not dropped while it has users, which needs the count. `InvHolds`,
`KeyedMutexExcludes` and `KeyedMutexIsClean` follow for any number of goroutines, keys
and entries. Assumptions: `KeysAssumption` (keys are integers), `NilsAssumption` (the
null values are no entries or goroutines), `ThreadAssumption` (finitely many
goroutines at a time, so that they can be counted).

**`BitrixCommentSendProofs`.** The invariant is `Consistent`:
`TypeOK`, `JournalMatchesLink`, `LinksApart`, and why they hold: a request on the wire
and the job of a busy worker name a comment (`WireOK`, `JobsOK`), a worker about to
confirm and a handler at work hold an identifier that is not 0 (`JobsOK`, `HooksOK`).
Without the last, a confirmation could store link 0, which means "no link". It falls
into a part per group of variables; a lemma for each part says that it survives steps
that leave its variables alone, and `Compose` puts the parts together, so that the
proof of an action shows only the parts it changes. There is one lemma per action,
`NextConsistent` collects them. Theorems: `TypesHold`, `JournalHolds`, `LinksStayApart`.
They hold for any comments, texts, workers and handlers, any bounds, and for both values
of `Timely`: however slow a call is, the two tables agree. Assumptions:
`SetsAssumption`, `NumbersAssumption`.

**`CommentDeliveryProofs`.** What the journal is for, on top of `Consistent`, under two
conditions that the code does not enforce and that each theorem names. `Timely`: an attempt
with all its tries ends within the grace period, which nothing bounds. `TextsDiffer`:
different comments have different texts, and so have old comments of the integration account
unless the clocks agree (`Skew = 0`); users write what they like. These are theorems about
what the journal does when both are so, and each condition is needed: without the first the
comment appears twice (`slow_sender`), without the second a copy may be taken for another
comment's, and be imported (`twin_imported`) or sent again (`twin_resent`).

`OnceOK` is the invariant. It follows one attempt from the claim to the link: a send that
is missing or rejected has no copy (`SendFits`); a request on the wire is the only one of
its comment, which has no copy yet (`WireFits`); a comment has one attempt at most
(`OneAttempt`), and one that is about to post has no copy (`AttemptFits`); the copy of an
open send carries its fingerprint and lies above the watermark and the claim, so whoever
searches the timeline finds it, and finds nothing else (`MatchSound`); the reconciler
decides about a send nobody else works on (`RecAlone`), and what it has listed, tried and
found missing is still so when it acts (`RecFits`), as nothing can appear any more; a
consumer that is about to reserve or import has the comment of somebody else (`HookFits`).
`AtMostOneCopy` alone is not inductive: the second copy is prevented when the journal
refuses the claim, several steps before. From `OnceOK`:

* `OneCopyHolds`: `AtMostOneCopy`. `OwnStaysOwn`: `OwnNeverImported`.
* `RetriesAreSafe`: the action property `RetryOnlyWhenAbsent`. A send can be claimed anew
  only while it is rejected, and then no copy and no request exists.
* `CommentsAreDelivered`: the refinement. `OnceOK` gives each comment a stage
  (`StagesPlain`); `BitrixAdds` is `Deliver`, `ConfirmCommentSend` wherever it is called
  is `Learn`, all other steps stutter (a lemma per group of actions: `SenderStages`,
  `ReconcilerStages`, `HandlerStages`, `BitrixStages`, `ForeignStages`).

`NoSurplusHolds` says `NoSurplusCopies`, with `Timely`, under `TextsDiffer` and also for
comments of the *same* text if there are no webhooks. There a copy does not belong to a comment; the invariant (`ShareOK`) says that
the own comments of the timeline can be shared out, one to each comment at most: what is
linked is the share of its link, a send that is missing or rejected has no share, and the
reconciler's list contains the share of the send it decides about. When a comment adopts
another one's share the two exchange theirs (`Exchange`); both have the same text, so each
still matches. A webhook breaks this: it adopts the share of a send whose list the
reconciler has read already, and the share that is given in exchange is not on that list.
That is `twin_resent`. The shares inject the copies into the sends of the journal, which
are finitely many at any time (`FiniteJournal`), hence the comparison of cardinalities.

**`PyrusQueueProofs`.** The invariant says that a worker that runs an event holds it
(`processing` is in its row and no other worker runs it) and how attempts and failures
are related in each status; `OneWorker` alone is not inductive, since only the status in
the row keeps the second worker's `TryMark` away. `ClosedEventsStay` is the action
property: an unconditional update of a row comes from a worker that holds it, or tests
the status. Any number of events, messages, workers, with and without Redis.

**`BitrixQueueProofs`.** What is new or named by a message is not lost: the invariant
follows the event from the row over `call`, `marking` and `todo` into the stream, and
says that a worker which is about to acknowledge a message has handled, or could not
read, the event it names.

**`MegafonCallsProofs`.** The invariant ties the steps of a goroutine to the locks: who is
past `lock` owns every call of its event, who is at `lock` owns those below the next
one. `OneHandlerHolds` follows as two handlers of one event would own the same lock,
`NoWaitCycleHolds` because each waits for a key above those it owns.
`StatusIsFurthestHolds` needs that not only the rows of calls but also the copies that
goroutines and `SyncHistory` have read and will write are the furthest of what they
absorbed (`RanksOK`), and that only a transfer reads a second row (`LinksOK`). Then a
merge, and a write that overwrites somebody else's, leave such a row again.
`RecordedHolds` follows an event whose row nobody held without the lock to a row where it
is anchored (`Anchored`): the row has absorbed it, and so has every copy of that row that
somebody is to write back or to merge. A goroutine that reads the row afterwards has the
event in its copy; two that hold the lock of the same call are one (`DirectReaders`); and
whoever came without the lock held the row before, which takes the event out of `safe`.
`Recorded` alone says nothing of these copies, and the next write could drop the event.

**`SagaEngineProofs`.** `JournalsAreTruthful`: what a journal says is finished acted after
everything before it, on disk as well as in memory, at every step of a write. From it
`FinishedStepsRest`, and `SagaImplementsSteps`: every step of the engine is a step of
`SagaSteps` or a stutter, for plans of any length. To act is what the handler does before
it returns; for Apply on Windows that is to start a script, and neither theorem says
that the target is installed. `PosixInstalls` says so of Posix, where Apply itself replaces
the file: completed implies that the target is there.

**`AgentLinkProofs`.** A result leaves the agent's memory only with the answer to the heartbeat
that brought it. `IInv` says so of every place a result passes: a handler past
`CompleteCommands` has stored the results of its request, and the request the agent awaits
holds all results that are pending. So whatever has run is pending or stored
(`ResultsAreKept`), and is stored when the awaited handler lists the new commands: a command
in the answer has not run (`CommandsRunOnce`). Any commands, requests and failures.

**Only model-checked:** the properties of `EntityDeletion` (its reconciliations are folds
over sets of rows, and what a fold computes for every set needs an induction that the
installed provers cannot instantiate), and everything under fairness: `OpenIsSettled`,
`DeliveredIsLinked`, `PreviewFinishes`, `ReservedIsImported`, `Served`, `AcceptedIsSettled`,
`AcceptedIsHandled`, `ErrorsAreRetried`, `SessionsRecover`, `CommandsFinish`, `SagaFinishes`
(liveness and `ENABLED` are out of the prover's reach).

## 12. Findings

`PROJECT.json` quotes the lines. Where a configuration is named, TLC finds the behaviour
in seconds: run it by hand, it is expected to report a violation.

| configuration | module | what it shows |
|---|---|---|
| `slow_sender` | `MCBitrixCommentSend` | nothing keeps all tries of one call within the grace period: an attempt that still tries to connect after 120 s is resolved as absent and sent again, and the comment appears twice |
| `own_overwritten` | `MCBitrixCommentSend` | a webhook that reads the link before the sender stores it and the open sends after that updates the own comment with the text and author of Bitrix24 |
| `twin_imported` | `MCBitrixCommentSend` | with two open sends of one text, `adoptOutgoingComment` tries only the first match; if that one has just been confirmed, the own comment is imported as a foreign one |
| `twin_resent` | `MCBitrixCommentSend` | with two open sends of one text, a webhook links the copy that the reconciler has listed for the first send to the second; the reconciler finds it taken, resolves the first send as absent and sends it again, while the copy of the second appears: three copies of two comments |
| `preview_lost` | `MCBitrixCommentSend` | `finalize_pending` is set after a failed preview and not before the preview: a stop in between leaves the comment without its images |
| `resend_lost` | `MCBitrixCommentSend` | reconciliation resolves a send as rejected and then resends it; a stop or an error in between leaves it rejected, which no later pass looks at |
| `pyrus_attempts` | `PyrusQueue` | a message that is taken over before it is acknowledged makes a worker claim an event beyond `PYRUS_INCOMING_MAX_ATTEMPTS` |
| `approval_lost` | `MCAgentLink` | a registration that read the agent before the operator approved it writes the row back without the approval |
| `update_lost` | `SagaEngine` | on Windows a saga is reported as completed when the update script was started; the machine stops before the script moves the files, or a move fails, and the old executable stays, or none is left |
| `row_raced` | `MCEntityDeletion` | a user confirms a row while the worker adds a server to it: the row is closed and names a server that lives |
| `group_lost` | `MCEntityDeletion` | a group whose survivor was deleted keeps its row, and the confirmation deletes the rest of the group |

Behaviours that appear as named exceptions in properties that hold without them:

* Pyrus and Megafon: a row left in `processing` by a stop is taken up by nobody
  (`Abandoned`, `Stuck`). Bitrix24: a message whose row cannot be read is acknowledged
  (`unread`); a row marked as queued after its handler failed is not tried again
  (`Stranded`).
* Telephony: events of a call that was merged into another do not lock the call they
  change, and `SyncHistory` and `SyncCallRecording` lock nothing: the last writer wins
  (`safe`).
* Agent: a command whose answer was lost, or whose agent stopped, stays `sent` for ever,
  and so does every later command of its saga (`strayed`).
* Saga: a stop between `Remove` and `Rename` loses the journal (`recorded`). A stop after
  the update of the binary and before its record resumes behind the version check and
  replaces the binary once more, on Windows with a second script beside the first
  (`exe = "none"` in `SagaFinishes`).
* Deletion: a row may get an entity as its survivor that it lists for deletion, and can
  then neither be confirmed nor cleaned up (`Targets`); a row that two transactions write at
  once, each by what it read before, mixes their columns (`raced`); a request for a third member of
  a group fails in the test of the pair, and the replay of a choice drops that member
  from the row (`Replay`).

Observed while reading, outside the models: `isSuppressedTask` ignores a genuine Pyrus
comment that comes within the life of an anti-loop key, and an ignored event cannot be
replayed; two syncs of a new ticket may both call `DealAdd`, as `SyncTicketByID` takes no
lock; the handlers of deal events save whole ticket rows beside operators' edits; a
heartbeat stores the fingerprint of an observation before it publishes the observation
on a bus that may drop it.

## 13. Not modelled, and what could come next

* *UPDATE and DELETE webhooks* of comments (`isOutgoingEcho`): an older echo may overwrite a
  newer text. They would add versions of texts to both sides of `BitrixCommentSend`, whose
  runs are at their limit; a module of its own for one linked comment is the way.
* *Deal events* and the deal side of the sync: three lists of fields merged by rules, and
  the race of `DealAdd` above.
* *Proofs about `EntityDeletion`.* Its reconciliations would have to be stated by what they
  leave (a row's list as a set) and not by folds, for which `TLC` could check that both
  agree; the candidate is `AutoDeletesAsked`. Also that a stale row is closed in the end by
  `Cleanup`, which needs a smaller instance under fairness, without symmetry.
* *Two processes of the agent* side by side after a self-update.
* *Event bus, outgoing sync to Pyrus:* section 2.
* Not planned: matching rules, parsing and heuristics on data (no interleavings; tests
  reach them), single-transaction requests, user interface, file, hardware and
  object-store access.
