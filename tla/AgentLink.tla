------------------------------ MODULE AgentLink ------------------------------
(***************************************************************************)
(* An agent, the server it reports to, and what may get lost in between.   *)
(*                                                                         *)
(* The agent works in rounds (communicateLocked): it sees to a valid token *)
(* (ensureAuthLocked), sends a heartbeat with the results of the commands  *)
(* it ran, and runs the commands that the answer brings.  A token that is  *)
(* refused is refreshed, a refresh that is refused becomes a registration. *)
(*                                                                         *)
(* The server handles each request in several statements without a common  *)
(* transaction.  The agent gives up after 30 seconds or when the           *)
(* connection breaks; the handler of a request nobody waits for may go on, *)
(* be cancelled at any statement, or die with the server, while the agent  *)
(* sends the next request.                                                 *)
(***************************************************************************)
EXTENDS Naturals, FiniteSets

CONSTANTS
    Cmd,         \* rows of agent_commands
    Saga,
    SagaOf,      \* the saga a command runs
    Pair,        \* an access token and the refresh token issued with it
    NoPair,
    Slot,        \* requests the server handles at a time
    NoSlot,
    MaxUpsets    \* bound: lost answers, failed statements, expired tokens, stops of the agent

ASSUME NullAssumption == NoPair \notin Pair /\ NoSlot \notin Slot
ASSUME SagaAssumption == SagaOf \in [Cmd -> Saga]
ASSUME UpsetsAssumption == MaxUpsets \in Nat

VARIABLES
    cmd,         \* status of a command
    stored,      \* commands with a result_payload
    access,      \* access tokens that are neither revoked nor expired
    refresh,     \* refresh tokens that are neither revoked nor expired
    approved,    \* registration_approved_at of the agent's row is set
    req,         \* the requests under way
    at, conn,    \* the agent's step, and the request whose answer it awaits
    second,      \* the heartbeat is the second one of the round
    held, fresh, \* its tokens in memory, and whether it believes the access token valid
    registry,    \* the tokens it would find after a restart
    pending,     \* pendingTaskResults
    todo,        \* tasks of the last answer that are yet to run
    ran, again,  \* commands this process ran, and ran twice; no code reads them
    strayed,     \* commands whose task or result was lost with an answer or a process
    upsets

commandVars == <<cmd, stored, strayed>>
tokenVars == <<access, refresh>>
roundVars == <<at, conn, second>>
agentVars == <<held, fresh, registry>>
taskVars == <<pending, todo, ran, again>>
vars == <<commandVars, tokenVars, approved, req, roundVars, agentVars, taskVars, upsets>>

Steps ==
    [heartbeat |-> {"auth", "read", "update", "complete", "fetch", "mark"},
     refresh   |-> {"check", "rotate", "access", "refresh", "create"},
     register  |-> {"load", "save", "access", "refresh", "create", "reread", "record"}]

Free == [kind |-> "none", step |-> "free", pair |-> NoPair, row |-> FALSE,
         results |-> {}, tasks |-> {}, out |-> "ok", live |-> FALSE]

TypeOK ==
    /\ cmd \in [Cmd -> {"none", "new", "sent", "completed"}]
    /\ stored \subseteq Cmd /\ strayed \subseteq Cmd
    /\ access \subseteq Pair /\ refresh \subseteq Pair
    /\ approved \in BOOLEAN
    /\ \A s \in Slot :
        /\ req[s].kind \in {"none", "heartbeat", "refresh", "register"}
        /\ req[s].kind = "none" => req[s] = Free
        /\ req[s].kind # "none" => req[s].step \in Steps[req[s].kind] \cup {"reply"}
        /\ req[s].pair \in Pair \cup {NoPair}
        /\ req[s].results \cup req[s].tasks \subseteq Cmd
        /\ req[s].out \in {"ok", "denied", "error", "pending"}
        /\ req[s].row \in BOOLEAN /\ req[s].live \in BOOLEAN
    /\ at \in {"idle", "wait", "run"}
    /\ conn \in Slot \cup {NoSlot}
    /\ second \in BOOLEAN /\ fresh \in BOOLEAN
    /\ held \in Pair \cup {NoPair} /\ registry \in Pair \cup {NoPair}
    /\ pending \subseteq Cmd /\ todo \subseteq Cmd
    /\ ran \subseteq Cmd /\ again \subseteq Cmd
    /\ upsets \in 0..MaxUpsets

Init ==
    /\ cmd = [c \in Cmd |-> "none"]
    /\ stored = {} /\ strayed = {}
    /\ access = {} /\ refresh = {}
    /\ approved = FALSE
    /\ req = [s \in Slot |-> Free]
    /\ at = "idle" /\ conn = NoSlot /\ second = FALSE
    /\ held = NoPair /\ fresh = TRUE /\ registry = NoPair
    /\ pending = {} /\ todo = {} /\ ran = {} /\ again = {}
    /\ upsets = 0

Upset == upsets < MaxUpsets /\ upsets' = upsets + 1

-----------------------------------------------------------------------------
(* Operators.                                                              *)

\* EnqueueSagaRun, hasPendingSagaRunCommand
Enqueue(c) ==
    /\ cmd[c] = "none"
    /\ \A d \in Cmd : SagaOf[d] = SagaOf[c] => cmd[d] \notin {"new", "sent"}
    /\ cmd' = [cmd EXCEPT ![c] = "new"]
    /\ UNCHANGED <<stored, strayed, tokenVars, approved, req, roundVars, agentVars, taskVars, upsets>>

\* ApproveRegistration
Approve ==
    /\ ~approved
    /\ approved' = TRUE
    /\ UNCHANGED <<commandVars, tokenVars, req, roundVars, agentVars, taskVars, upsets>>

\* The server's clock passes the expires_at of a token that the agent holds.
Expire(p) ==
    /\ p \in {held, registry}
    /\ Upset
    /\ \/ p \in access /\ access' = access \ {p} /\ UNCHANGED refresh
       \/ p \in refresh /\ refresh' = refresh \ {p} /\ UNCHANGED access
    /\ UNCHANGED <<commandVars, approved, req, roundVars, agentVars, taskVars>>

-----------------------------------------------------------------------------
(* The agent: communicateLocked and ensureAuthLocked.                      *)

Request(kind, p) ==
    [Free EXCEPT !.kind = kind, !.pair = p, !.live = TRUE,
                 !.results = IF kind = "heartbeat" THEN pending ELSE {},
                 !.step = CASE kind = "heartbeat" -> "auth"
                            [] kind = "refresh" -> "check"
                            [] kind = "register" -> "load"]

\* The tokens are read from the registry if there are none in memory.
Tokens == IF held = NoPair THEN registry ELSE held

Begin(s) ==
    /\ at = "idle" /\ req[s] = Free
    /\ held' = Tokens
    /\ req' = [req EXCEPT ![s] =
                 CASE Tokens = NoPair -> Request("register", NoPair)
                   [] Tokens # NoPair /\ fresh -> Request("heartbeat", Tokens)
                   [] OTHER -> Request("refresh", Tokens)]
    /\ at' = "wait" /\ conn' = s
    /\ UNCHANGED <<commandVars, tokenVars, approved, second, fresh, registry, taskVars, upsets>>

\* The agent's clock reaches AccessTokenGracePeriod before the end of the access token.
GrowStale ==
    /\ at = "idle" /\ fresh
    /\ Upset
    /\ fresh' = FALSE
    /\ UNCHANGED <<commandVars, tokenVars, approved, req, roundVars, held, registry, taskVars>>

Answered(kind, out) ==
    at = "wait" /\ req[conn].kind = kind /\ req[conn].step = "reply" /\ req[conn].out = out

EndRound ==
    /\ at' = "idle" /\ conn' = NoSlot /\ second' = FALSE

\* acknowledgeTaskResults and processHeartbeatResponse
HeartbeatAccepted ==
    /\ Answered("heartbeat", "ok")
    /\ pending' = pending \ req[conn].results
    /\ todo' = req[conn].tasks
    /\ req' = [req EXCEPT ![conn] = Free]
    /\ at' = "run" /\ conn' = NoSlot /\ second' = FALSE
    /\ UNCHANGED <<commandVars, tokenVars, approved, agentVars, ran, again, upsets>>

\* The first refusal of a round: the token is given up, in memory only.
HeartbeatRefused ==
    /\ Answered("heartbeat", "denied") /\ ~second
    /\ fresh' = FALSE /\ second' = TRUE
    /\ req' = [req EXCEPT ![conn] = Request("refresh", held)]
    /\ UNCHANGED <<commandVars, tokenVars, approved, at, conn, held, registry, taskVars, upsets>>

\* applyTokenRefreshResponse, applyRegistrationResponse
TokensIssued ==
    /\ Answered("refresh", "ok") \/ Answered("register", "ok")
    /\ held' = req[conn].pair /\ registry' = req[conn].pair /\ fresh' = TRUE
    /\ req' = [req EXCEPT ![conn] = Request("heartbeat", req[conn].pair)]
    /\ UNCHANGED <<commandVars, tokenVars, approved, roundVars, taskVars, upsets>>

\* SaveTokens fails after the tokens in memory were replaced.
TokensNotSaved ==
    /\ Answered("refresh", "ok") \/ Answered("register", "ok")
    /\ Upset
    /\ held' = req[conn].pair /\ fresh' = TRUE
    /\ req' = [req EXCEPT ![conn] = Free]
    /\ EndRound
    /\ UNCHANGED <<commandVars, tokenVars, approved, registry, taskVars>>

\* Mutant of RefreshRefused: the round fails as with any other error.
RefreshRefusedFinally ==
    /\ Answered("refresh", "denied")
    /\ req' = [req EXCEPT ![conn] = Free]
    /\ EndRound
    /\ UNCHANGED <<commandVars, tokenVars, approved, agentVars, taskVars, upsets>>

\* registerAndFetchTokens
RefreshRefused ==
    /\ Answered("refresh", "denied")
    /\ req' = [req EXCEPT ![conn] = Request("register", NoPair)]
    /\ UNCHANGED <<commandVars, tokenVars, approved, roundVars, agentVars, taskVars, upsets>>

\* recordConnectivityFailure: the next round comes after a while.
RoundFails ==
    /\ \/ \E kind \in DOMAIN Steps : Answered(kind, "error")
       \/ Answered("register", "pending")
       \/ Answered("heartbeat", "denied") /\ second
    /\ req' = [req EXCEPT ![conn] = Free]
    /\ EndRound
    /\ UNCHANGED <<commandVars, tokenVars, approved, agentVars, taskVars, upsets>>

\* No answer comes, or it is lost.
GiveUp ==
    /\ at = "wait"
    /\ Upset
    /\ req' = [req EXCEPT ![conn].live = FALSE]
    /\ EndRound
    /\ UNCHANGED <<commandVars, tokenVars, approved, agentVars, taskVars>>

\* executeTask, enqueueTaskResult
Execute(c) ==
    /\ at = "run" /\ c \in todo
    /\ todo' = todo \ {c}
    /\ pending' = pending \cup {c}
    /\ ran' = ran \cup {c}
    /\ again' = IF c \in ran THEN again \cup {c} ELSE again
    /\ UNCHANGED <<commandVars, tokenVars, approved, req, roundVars, agentVars, upsets>>

Rest ==
    /\ at = "run" /\ todo = {}
    /\ at' = "idle"
    /\ UNCHANGED <<commandVars, tokenVars, approved, req, conn, second, agentVars, taskVars, upsets>>

\* The process stops and starts: only the registry is left.
StopAgent ==
    /\ Upset
    /\ strayed' = strayed \cup todo \cup pending
    /\ req' = [s \in Slot |-> IF s = conn THEN [req[s] EXCEPT !.live = FALSE] ELSE req[s]]
    /\ EndRound
    /\ held' = NoPair /\ fresh' = TRUE
    /\ pending' = {} /\ todo' = {} /\ ran' = {}
    /\ UNCHANGED <<cmd, stored, tokenVars, approved, registry, again>>

-----------------------------------------------------------------------------
(* The handlers of the server.                                             *)

Here(s, step) == req[s].step = step

Go(s, step) == req' = [req EXCEPT ![s].step = step]

Reply(s, out) == req' = [req EXCEPT ![s].step = "reply", ![s].out = out]

\* postAgentData: ValidateAccessToken
Authorize(s) ==
    /\ Here(s, "auth")
    /\ IF req[s].pair \in access THEN Go(s, "read") ELSE Reply(s, "denied")
    /\ UNCHANGED <<commandVars, tokenVars, approved, roundVars, agentVars, taskVars, upsets>>

\* ProcessData: the row of the agent is read and written back as a whole.
ReadAgent(s) ==
    /\ Here(s, "read") \/ Here(s, "load") \/ Here(s, "reread")
    /\ req' = [req EXCEPT ![s].row = approved,
                          ![s].step = CASE @ = "read" -> "update"
                                        [] @ = "load" -> "save"
                                        [] @ = "reread" -> "record"]
    /\ UNCHANGED <<commandVars, tokenVars, approved, roundVars, agentVars, taskVars, upsets>>

\* Mutant of Then: the commands are fetched before the results are stored.
ThenFetch(step) ==
    CASE step = "update" -> "fetch"
      [] step = "fetch" -> "complete"
      [] step = "complete" -> "mark"

\* The order of ProcessData
Then(step) ==
    CASE step = "update" -> "complete"
      [] step = "complete" -> "fetch"
      [] step = "fetch" -> "mark"

UpdateAgent(s) ==
    /\ Here(s, "update")
    /\ approved' = req[s].row
    /\ Go(s, Then("update"))
    /\ UNCHANGED <<commandVars, tokenVars, roundVars, agentVars, taskVars, upsets>>

\* Mutant of Open: a result is taken only for a command that is marked as sent.
OpenSent == {"sent"}

\* Mutant of Open: a result is taken only for a command that nobody marked as sent.
OpenNew == {"new"}

Open == {"new", "sent"}

\* CompleteCommands
CompleteCommands(s) ==
    LET closed == {c \in req[s].results : cmd[c] \in Open} IN
    /\ Here(s, "complete")
    /\ cmd' = [c \in Cmd |-> IF c \in closed THEN "completed" ELSE cmd[c]]
    /\ stored' = stored \cup closed
    /\ Go(s, Then("complete"))
    /\ UNCHANGED <<strayed, tokenVars, approved, roundVars, agentVars, taskVars, upsets>>

\* GetPendingCommands
FetchCommands(s) ==
    /\ Here(s, "fetch")
    /\ req' = [req EXCEPT ![s].tasks = {c \in Cmd : cmd[c] = "new"}, ![s].step = Then("fetch")]
    /\ UNCHANGED <<commandVars, tokenVars, approved, roundVars, agentVars, taskVars, upsets>>

\* MarkCommandsAsSent, whatever became of the commands meanwhile.
MarkCommands(s) ==
    /\ Here(s, "mark")
    /\ cmd' = [c \in Cmd |-> IF c \in req[s].tasks THEN "sent" ELSE cmd[c]]
    /\ Reply(s, "ok")
    /\ UNCHANGED <<stored, strayed, tokenVars, approved, roundVars, agentVars, taskVars, upsets>>

\* RefreshTokens: findToken and the checks
CheckRefresh(s) ==
    /\ Here(s, "check")
    /\ IF req[s].pair \in refresh THEN Go(s, "rotate") ELSE Reply(s, "denied")
    /\ UNCHANGED <<commandVars, tokenVars, approved, roundVars, agentVars, taskVars, upsets>>

\* RefreshTokens: the refresh token is used up.
Rotate(s) ==
    /\ Here(s, "rotate")
    /\ refresh' = refresh \ {req[s].pair}
    /\ req' = [req EXCEPT ![s].step = "access", ![s].pair = NoPair]
    /\ UNCHANGED <<commandVars, access, approved, roundVars, agentVars, taskVars, upsets>>

\* RegisterAndIssueTokens: agentRepo.Update
SaveAgent(s) ==
    /\ Here(s, "save")
    /\ approved' = req[s].row
    /\ req' = [req EXCEPT ![s].step = IF req[s].row THEN "access" ELSE "reread",
                          ![s].out = IF req[s].row THEN "ok" ELSE "pending"]
    /\ UNCHANGED <<commandVars, tokenVars, roundVars, agentVars, taskVars, upsets>>

\* issueTokenPair: revokeActiveTokens, twice
RevokeAccess(s) ==
    /\ Here(s, "access")
    /\ access' = {}
    /\ Go(s, "refresh")
    /\ UNCHANGED <<commandVars, refresh, approved, roundVars, agentVars, taskVars, upsets>>

RevokeRefresh(s) ==
    /\ Here(s, "refresh")
    /\ refresh' = {}
    /\ Go(s, "create")
    /\ UNCHANGED <<commandVars, access, approved, roundVars, agentVars, taskVars, upsets>>

\* A pair that is known to nobody any more stands for a new one.
Unused(p) ==
    /\ p \notin access \cup refresh \cup {held, registry}
    /\ \A s \in Slot : req[s].pair # p

\* issueTokenPair: the pair is stored.
CreatePair(s) ==
    LET p == CHOOSE q \in Pair : Unused(q) IN
    /\ Here(s, "create")
    /\ \E q \in Pair : Unused(q)
    /\ access' = access \cup {p} /\ refresh' = refresh \cup {p}
    /\ req' = [req EXCEPT ![s].pair = p,
                          ![s].step = IF req[s].kind = "refresh" THEN "reply" ELSE "reread"]
    /\ UNCHANGED <<commandVars, approved, roundVars, agentVars, taskVars, upsets>>

\* upsertAgentRegistrationSnapshot
RecordAttempt(s) ==
    /\ Here(s, "record")
    /\ approved' = req[s].row
    /\ Reply(s, req[s].out)
    /\ UNCHANGED <<commandVars, tokenVars, roundVars, agentVars, taskVars, upsets>>

\* A statement fails.  That of "auth" reads like a wrong token; those of "fetch", "mark",
\* "reread" and "record", and the update of an approved agent, are not looked at; a
\* registration records its failure.
StatementFails(s) ==
    LET step == req[s].step IN
    /\ step \notin {"free", "reply"}
    /\ Upset
    /\ req' = [req EXCEPT ![s] =
         CASE step = "auth" -> [@ EXCEPT !.step = "reply", !.out = "denied"]
           [] step \in {"fetch", "mark", "reread", "record"} -> [@ EXCEPT !.step = "reply"]
           [] step = "save" /\ @.row -> [@ EXCEPT !.step = "access"]
           [] @.kind = "register" -> [@ EXCEPT !.step = "reread", !.out = "error"]
           [] OTHER -> [@ EXCEPT !.step = "reply", !.out = "error"]]
    /\ UNCHANGED <<commandVars, tokenVars, approved, roundVars, agentVars, taskVars>>

\* Nobody waits for the answer: the context of the handler is cancelled, or the answer
\* goes nowhere.
Cancel(s) ==
    /\ ~Here(s, "free") /\ ~req[s].live
    /\ strayed' = strayed \cup req[s].tasks
    /\ req' = [req EXCEPT ![s] = Free]
    /\ UNCHANGED <<cmd, stored, tokenVars, approved, roundVars, agentVars, taskVars, upsets>>

-----------------------------------------------------------------------------
Round ==
    \/ \E s \in Slot : Begin(s)
    \/ HeartbeatAccepted \/ HeartbeatRefused
    \/ TokensIssued \/ RefreshRefused \/ RoundFails
    \/ \E c \in Cmd : Execute(c)
    \/ Rest

Handler(s) ==
    \/ Authorize(s) \/ ReadAgent(s) \/ UpdateAgent(s)
    \/ CompleteCommands(s) \/ FetchCommands(s) \/ MarkCommands(s)
    \/ CheckRefresh(s) \/ Rotate(s)
    \/ SaveAgent(s) \/ RevokeAccess(s) \/ RevokeRefresh(s) \/ CreatePair(s) \/ RecordAttempt(s)
    \/ Cancel(s)

Next ==
    \/ \E c \in Cmd : Enqueue(c)
    \/ Approve
    \/ \E p \in Pair : Expire(p)
    \/ Round
    \/ GrowStale \/ TokensNotSaved \/ GiveUp \/ StopAgent
    \/ \E s \in Slot : Handler(s) \/ StatementFails(s)

Spec == Init /\ [][Next]_vars

\* The agent's loop runs for ever, however long the pauses between two rounds, and
\* handlers return.
FairSpec == Spec /\ WF_vars(Round) /\ \A s \in Slot : WF_vars(Handler(s))

-----------------------------------------------------------------------------
\* What a process has run is not lost while it lives: a result leaves its memory only
\* when the server has stored it, whichever answers are lost and statements fail.
NoResultLost == ran \subseteq pending \cup stored

\* No process runs a command twice, although a command whose MarkCommandsAsSent failed
\* is handed out again.
RunOnce == again = {}

\* Whatever tokens were revoked by requests whose answer the agent never saw, an agent
\* that stays approved gets a heartbeat accepted again and again.
SessionsRecover == <>[]approved => []<>(at = "run")

\* A command is closed in the end, unless it strayed with an answer or a process.
CommandsFinish ==
    \A c \in Cmd :
        <>[]approved => (cmd[c] = "new" ~> cmd[c] = "completed" \/ c \in strayed)

\* The server's answer to ApproveRegistration: the next request of the agent gets tokens.
ApprovalStands == [][approved => approved']_vars
=============================================================================
