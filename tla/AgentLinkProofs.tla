--------------------------- MODULE AgentLinkProofs ---------------------------
(***************************************************************************)
(* The agent loses no result and runs no command twice, for any commands,  *)
(* sagas, tokens, requests at a time and upsets.                           *)
(*                                                                         *)
(* A result leaves the memory of the agent only with the answer to a       *)
(* heartbeat; the invariant says that the handler of a heartbeat has       *)
(* stored the results it brought once it is past CompleteCommands, and     *)
(* that the heartbeat whose answer is awaited brought all there are.  Then *)
(* whatever the agent ran is stored when the handler looks for commands    *)
(* that are new, and a stored command is never new.                        *)
(***************************************************************************)
EXTENDS AgentLink, TLAPS

Kind == {"none", "heartbeat", "refresh", "register"}
HeartbeatSteps == {"auth", "read", "update", "complete", "fetch", "mark", "reply"}
OtherSteps == {"free", "check", "rotate", "load", "save", "access", "refresh", "create",
               "reread", "record"}
Outs == {"ok", "denied", "error", "pending"}

Requests ==
    [kind : Kind, step : HeartbeatSteps \cup OtherSteps, pair : Pair \cup {NoPair},
     row : BOOLEAN, results : SUBSET Cmd, tasks : SUBSET Cmd, out : Outs, live : BOOLEAN]

USE DEF Kind, HeartbeatSteps, OtherSteps, Outs

Types ==
    /\ cmd \in [Cmd -> {"none", "new", "sent", "completed"}] /\ stored \subseteq Cmd
    /\ approved \in BOOLEAN
    /\ req \in [Slot -> Requests]
    /\ held \in Pair \cup {NoPair} /\ registry \in Pair \cup {NoPair}
    /\ pending \subseteq Cmd /\ todo \subseteq Cmd /\ ran \subseteq Cmd

\* A command is closed with its result, and never new again.
CommandsOK ==
    \A c \in Cmd :
        /\ cmd[c] = "completed" => c \in stored
        /\ c \in stored => cmd[c] \in {"sent", "completed"}

\* The handler of r has passed CompleteCommands.
Past(r) ==
    \/ r.step \in {"fetch", "mark"}
    \/ r.kind = "heartbeat" /\ r.step = "reply" /\ r.out = "ok"

Known(r) == \A c \in r.results \cup r.tasks : cmd[c] # "none"

RequestOK(r) ==
    /\ r.kind = "heartbeat" => r.step \in HeartbeatSteps
    /\ Known(r)
    /\ Past(r) => r.results \subseteq stored

RequestsOK == \A s \in Slot : RequestOK(req[s])

\* The request whose answer the agent awaits.
AwaitedOK ==
    at = "wait" =>
        /\ conn \in Slot /\ req[conn].live
        /\ req[conn].kind = "heartbeat" =>
              req[conn].results = pending /\ req[conn].tasks \cap ran = {}

AgentOK ==
    /\ \A c \in pending \cup todo \cup ran : cmd[c] # "none"
    /\ NoResultLost
    /\ todo \cap ran = {}
    /\ RunOnce

IInv == Types /\ CommandsOK /\ RequestsOK /\ AwaitedOK /\ AgentOK

-----------------------------------------------------------------------------
LEMMA FreeFacts ==
    /\ Free \in Requests /\ ~Free.live
    /\ RequestOK(Free)
BY DEF Free, Requests, RequestOK, Known, Past

LEMMA InitIInv == Init => IInv
<1> SUFFICES ASSUME Init PROVE IInv
  OBVIOUS
<1>1. Types
  BY FreeFacts DEF Init, Types
<1>2. RequestsOK
  BY FreeFacts DEF Init, RequestsOK
<1>3. CommandsOK /\ AwaitedOK /\ AgentOK
  BY DEF Init, CommandsOK, AwaitedOK, AgentOK, NoResultLost, RunOnce
<1> QED BY <1>1, <1>2, <1>3 DEF IInv

-----------------------------------------------------------------------------
(* Steps of a handler that concern tokens, the agent's row or its own      *)
(* progress.                                                               *)

LEMMA HandlerStep ==
    ASSUME IInv, NEW s \in Slot, NEW r \in Requests,
           req' = [req EXCEPT ![s] = r],
           r.kind = req[s].kind, r.live = req[s].live,
           r.results = req[s].results, r.tasks = req[s].tasks \/ s # conn,
           RequestOK(r),
           approved' \in BOOLEAN,
           UNCHANGED <<commandVars, roundVars, agentVars, taskVars>>
    PROVE  IInv'
<1> USE DEF commandVars, roundVars, agentVars, taskVars
<1>1. Types'
  BY DEF IInv, Types
<1>2. CommandsOK' /\ AgentOK'
  BY DEF IInv, CommandsOK, AgentOK, NoResultLost, RunOnce
<1>3. RequestsOK'
  BY DEF IInv, Types, RequestsOK, RequestOK, Known
<1>4. AwaitedOK'
  BY DEF IInv, Types, AwaitedOK
<1> QED BY <1>1, <1>2, <1>3, <1>4 DEF IInv

LEMMA GoStep ==
    ASSUME IInv, NEW s \in Slot, NEW step \in HeartbeatSteps \cup OtherSteps, Go(s, step),
           req[s].kind = "heartbeat" => step \in {"read", "complete"},
           step \notin {"fetch", "mark", "reply"},
           approved' \in BOOLEAN,
           UNCHANGED <<commandVars, roundVars, agentVars, taskVars>>
    PROVE  IInv'
<1> DEFINE r == [req[s] EXCEPT !.step = step]
<1>1. req' = [req EXCEPT ![s] = r] /\ r \in Requests
  BY DEF Go, IInv, Types, Requests
<1>2. RequestOK(r)
  BY DEF IInv, Types, Requests, RequestsOK, RequestOK, Known, Past
<1>3. /\ r.kind = req[s].kind /\ r.live = req[s].live
      /\ r.results = req[s].results /\ r.tasks = req[s].tasks
  BY DEF IInv, Types, Requests
<1> HIDE DEF r
<1> QED BY <1>1, <1>2, <1>3, HandlerStep

LEMMA ReplyStep ==
    ASSUME IInv, NEW s \in Slot, NEW out \in Outs, Reply(s, out),
           req[s].kind = "heartbeat" => out # "ok",
           approved' \in BOOLEAN,
           UNCHANGED <<commandVars, roundVars, agentVars, taskVars>>
    PROVE  IInv'
<1> DEFINE r == [req[s] EXCEPT !.step = "reply", !.out = out]
<1>1. req' = [req EXCEPT ![s] = r] /\ r \in Requests
  BY DEF Reply, IInv, Types, Requests
<1>2. RequestOK(r)
  BY DEF IInv, Types, Requests, RequestsOK, RequestOK, Known, Past
<1>3. /\ r.kind = req[s].kind /\ r.live = req[s].live
      /\ r.results = req[s].results /\ r.tasks = req[s].tasks
  BY DEF IInv, Types, Requests
<1> HIDE DEF r
<1> QED BY <1>1, <1>2, <1>3, HandlerStep

\* The steps of a handler say what kind of request it handles.
LEMMA Kinds ==
    ASSUME IInv, NEW s \in Slot,
           \/ Here(s, "check") \/ Here(s, "rotate") \/ Here(s, "load") \/ Here(s, "save")
           \/ Here(s, "access") \/ Here(s, "refresh") \/ Here(s, "create")
           \/ Here(s, "reread") \/ Here(s, "record") \/ Here(s, "free")
    PROVE  req[s].kind # "heartbeat"
BY DEF IInv, RequestsOK, RequestOK, HeartbeatSteps, Here

LEMMA RequestTyped == ASSUME IInv, NEW s \in Slot PROVE req[s] \in Requests
BY DEF IInv, Types

LEMMA AuthorizeKeeps == ASSUME IInv, NEW s \in Slot, Authorize(s) PROVE IInv'
<1>1. approved' \in BOOLEAN /\ UNCHANGED <<commandVars, roundVars, agentVars, taskVars>>
  BY DEF Authorize, IInv, Types
<1>2. CASE Go(s, "read")
  BY <1>1, <1>2, GoStep
<1>3. CASE Reply(s, "denied")
  BY <1>1, <1>3, ReplyStep
<1> QED BY <1>2, <1>3 DEF Authorize

LEMMA ReadAgentKeeps == ASSUME IInv, NEW s \in Slot, ReadAgent(s) PROVE IInv'
<1> DEFINE next == CASE req[s].step = "read" -> "update"
                     [] req[s].step = "load" -> "save"
                     [] req[s].step = "reread" -> "record"
           r == [req[s] EXCEPT !.row = approved, !.step = next]
<1>1. next \in {"update", "save", "record"} /\ (next # "update" => req[s].kind # "heartbeat")
  BY Kinds DEF ReadAgent, Here
<1> HIDE DEF next
<1>2. req' = [req EXCEPT ![s] = r]
  <2>1. CASE req[s].step = "read"
    BY <2>1, RequestTyped DEF ReadAgent, Requests, IInv, Types, next
  <2>2. CASE req[s].step = "load"
    BY <2>2, RequestTyped DEF ReadAgent, Requests, IInv, Types, next
  <2>3. CASE req[s].step = "reread"
    BY <2>3, RequestTyped DEF ReadAgent, Requests, IInv, Types, next
  <2> QED BY <2>1, <2>2, <2>3 DEF ReadAgent, Here
<1>3. r \in Requests
  BY <1>1, RequestTyped DEF Requests, IInv, Types
<1>4. RequestOK(r)
  BY <1>1, RequestTyped DEF IInv, Requests, RequestsOK, RequestOK, Known, Past
<1>5. /\ r.kind = req[s].kind /\ r.live = req[s].live
      /\ r.results = req[s].results /\ r.tasks = req[s].tasks
  BY RequestTyped DEF Requests
<1>6. approved' \in BOOLEAN /\ UNCHANGED <<commandVars, roundVars, agentVars, taskVars>>
  BY DEF ReadAgent, IInv, Types
<1> HIDE DEF r
<1> QED BY <1>2, <1>3, <1>4, <1>5, <1>6, HandlerStep

LEMMA UpdateAgentKeeps == ASSUME IInv, NEW s \in Slot, UpdateAgent(s) PROVE IInv'
<1>1. approved' \in BOOLEAN /\ UNCHANGED <<commandVars, roundVars, agentVars, taskVars>>
  BY RequestTyped DEF UpdateAgent, Requests
<1>2. Go(s, "complete")
  BY DEF UpdateAgent, Then
<1> QED BY <1>1, <1>2, GoStep

LEMMA CheckRefreshKeeps == ASSUME IInv, NEW s \in Slot, CheckRefresh(s) PROVE IInv'
<1>1. /\ approved' \in BOOLEAN /\ UNCHANGED <<commandVars, roundVars, agentVars, taskVars>>
      /\ req[s].kind # "heartbeat"
  BY Kinds DEF CheckRefresh, IInv, Types
<1>2. CASE Go(s, "rotate")
  BY <1>1, <1>2, GoStep
<1>3. CASE Reply(s, "denied")
  BY <1>1, <1>3, ReplyStep
<1> QED BY <1>2, <1>3 DEF CheckRefresh

LEMMA RevokeKeeps ==
    ASSUME IInv, NEW s \in Slot, RevokeAccess(s) \/ RevokeRefresh(s) PROVE IInv'
<1>1. /\ approved' \in BOOLEAN /\ UNCHANGED <<commandVars, roundVars, agentVars, taskVars>>
      /\ req[s].kind # "heartbeat"
  BY Kinds DEF RevokeAccess, RevokeRefresh, IInv, Types
<1>2. CASE Go(s, "refresh")
  BY <1>1, <1>2, GoStep
<1>3. CASE Go(s, "create")
  BY <1>1, <1>3, GoStep
<1> QED BY <1>2, <1>3 DEF RevokeAccess, RevokeRefresh

LEMMA RecordAttemptKeeps == ASSUME IInv, NEW s \in Slot, RecordAttempt(s) PROVE IInv'
<1>1. /\ approved' \in BOOLEAN /\ UNCHANGED <<commandVars, roundVars, agentVars, taskVars>>
      /\ req[s].kind # "heartbeat"
  BY Kinds, RequestTyped DEF RecordAttempt, Requests
<1>2. req[s].out \in Outs /\ Reply(s, req[s].out)
  BY RequestTyped DEF RecordAttempt, Requests
<1> QED BY <1>1, <1>2, ReplyStep

\* Steps of a handler that is no heartbeat's.
LEMMA OtherStep ==
    ASSUME IInv, NEW s \in Slot, NEW r \in Requests,
           req' = [req EXCEPT ![s] = r],
           req[s].kind # "heartbeat", r.kind = req[s].kind, r.live = req[s].live,
           r.results = req[s].results, r.tasks = req[s].tasks,
           r.step \notin {"fetch", "mark"},
           approved' \in BOOLEAN,
           UNCHANGED <<commandVars, roundVars, agentVars, taskVars>>
    PROVE  IInv'
<1>1. RequestOK(r)
  BY DEF IInv, RequestsOK, RequestOK, Known, Past
<1> QED BY <1>1, HandlerStep

LEMMA RotateKeeps == ASSUME IInv, NEW s \in Slot, Rotate(s) PROVE IInv'
<1> DEFINE r == [req[s] EXCEPT !.step = "access", !.pair = NoPair]
<1>1. req' = [req EXCEPT ![s] = r] /\ r \in Requests
  BY RequestTyped DEF Rotate, Requests, IInv, Types
<1>2. /\ r.kind = req[s].kind /\ r.live = req[s].live /\ r.step = "access"
      /\ r.results = req[s].results /\ r.tasks = req[s].tasks
  BY RequestTyped DEF Requests
<1>3. /\ approved' \in BOOLEAN /\ UNCHANGED <<commandVars, roundVars, agentVars, taskVars>>
      /\ req[s].kind # "heartbeat"
  BY Kinds DEF Rotate, IInv, Types
<1> HIDE DEF r
<1> QED BY <1>1, <1>2, <1>3, OtherStep

LEMMA SaveAgentKeeps == ASSUME IInv, NEW s \in Slot, SaveAgent(s) PROVE IInv'
<1> DEFINE r == [req[s] EXCEPT !.step = IF req[s].row THEN "access" ELSE "reread",
                               !.out = IF req[s].row THEN "ok" ELSE "pending"]
<1>1. req' = [req EXCEPT ![s] = r] /\ r \in Requests
  BY RequestTyped DEF SaveAgent, Requests, IInv, Types
<1>2. /\ r.kind = req[s].kind /\ r.live = req[s].live /\ r.step \in {"access", "reread"}
      /\ r.results = req[s].results /\ r.tasks = req[s].tasks
  BY RequestTyped DEF Requests
<1>3. /\ approved' \in BOOLEAN /\ UNCHANGED <<commandVars, roundVars, agentVars, taskVars>>
      /\ req[s].kind # "heartbeat"
  BY Kinds, RequestTyped DEF SaveAgent, Requests
<1> HIDE DEF r
<1> QED BY <1>1, <1>2, <1>3, OtherStep

LEMMA CreatePairKeeps == ASSUME IInv, NEW s \in Slot, CreatePair(s) PROVE IInv'
<1> DEFINE p == CHOOSE q \in Pair : Unused(q)
           r == [req[s] EXCEPT !.pair = p,
                               !.step = IF req[s].kind = "refresh" THEN "reply" ELSE "reread"]
<1>0. p \in Pair
  BY DEF CreatePair
<1>1. req' = [req EXCEPT ![s] = r]
  BY RequestTyped DEF CreatePair, Requests, IInv, Types
<1> HIDE DEF p
<1>2. r \in Requests
  BY <1>0, RequestTyped DEF Requests
<1>3. /\ r.kind = req[s].kind /\ r.live = req[s].live /\ r.step \in {"reply", "reread"}
      /\ r.results = req[s].results /\ r.tasks = req[s].tasks
  BY RequestTyped DEF Requests
<1>4. /\ approved' \in BOOLEAN /\ UNCHANGED <<commandVars, roundVars, agentVars, taskVars>>
      /\ req[s].kind # "heartbeat"
  BY Kinds DEF CreatePair, IInv, Types
<1> HIDE DEF r
<1> QED BY <1>1, <1>2, <1>3, <1>4, OtherStep

LEMMA StatementFailsKeeps == ASSUME IInv, NEW s \in Slot, StatementFails(s) PROVE IInv'
<1> DEFINE step == req[s].step
           r == CASE step = "auth" -> [req[s] EXCEPT !.step = "reply", !.out = "denied"]
                  [] step \in {"fetch", "mark", "reread", "record"} -> [req[s] EXCEPT !.step = "reply"]
                  [] step = "save" /\ req[s].row -> [req[s] EXCEPT !.step = "access"]
                  [] req[s].kind = "register" -> [req[s] EXCEPT !.step = "reread", !.out = "error"]
                  [] OTHER -> [req[s] EXCEPT !.step = "reply", !.out = "error"]
<1>0. approved' \in BOOLEAN /\ UNCHANGED <<commandVars, roundVars, agentVars, taskVars>>
  BY DEF StatementFails, IInv, Types
<1>1. req' = [req EXCEPT ![s] = r]
  BY DEF StatementFails, IInv, Types
<1>2. \/ r = [req[s] EXCEPT !.step = "reply", !.out = "denied"]
      \/ step \in {"fetch", "mark", "reread", "record"} /\ r = [req[s] EXCEPT !.step = "reply"]
      \/ step = "save" /\ r = [req[s] EXCEPT !.step = "access"]
      \/ req[s].kind = "register" /\ r = [req[s] EXCEPT !.step = "reread", !.out = "error"]
      \/ r = [req[s] EXCEPT !.step = "reply", !.out = "error"]
  OBVIOUS
<1> HIDE DEF r
<1>3. /\ r \in Requests /\ r.kind = req[s].kind /\ r.live = req[s].live
      /\ r.results = req[s].results /\ r.tasks = req[s].tasks
  BY <1>2, RequestTyped DEF Requests
<1>4. step \in {"reread", "record", "save"} => req[s].kind # "heartbeat"
  BY Kinds DEF Here
<1>5. RequestOK(r)
  <2>1. /\ r.kind = "heartbeat" => r.step = "reply"
        /\ Past(r) => Past(req[s])
    BY <1>2, <1>4, RequestTyped DEF Requests, Past
  <2> QED BY <2>1, <1>3 DEF IInv, RequestsOK, RequestOK, Known
<1> QED BY <1>0, <1>1, <1>3, <1>5, HandlerStep

-----------------------------------------------------------------------------
(* The commands.                                                           *)

LEMMA EnqueueKeeps == ASSUME IInv, NEW c \in Cmd, Enqueue(c) PROVE IInv'
<1> USE DEF tokenVars, roundVars, agentVars, taskVars
<1>1. Types'
  BY DEF Enqueue, IInv, Types
<1>2. \A d \in Cmd : /\ cmd[d] # "none" => cmd'[d] = cmd[d]
                     /\ cmd'[d] = "none" => cmd[d] = "none"
  BY DEF Enqueue, IInv, Types
<1>3. CommandsOK'
  BY DEF Enqueue, IInv, Types, CommandsOK
<1>4. RequestsOK'
  BY <1>2, RequestTyped DEF Enqueue, IInv, Types, Requests, RequestsOK, RequestOK, Known, Past
<1>5. AwaitedOK'
  BY DEF Enqueue, IInv, AwaitedOK
<1>6. AgentOK'
  BY <1>2 DEF Enqueue, IInv, Types, AgentOK, NoResultLost, RunOnce
<1> QED BY <1>1, <1>3, <1>4, <1>5, <1>6 DEF IInv

\* A step that moves commands forward, stores results and takes the handler further.
LEMMA CommandStep ==
    ASSUME IInv, NEW s \in Slot, NEW r \in Requests,
           req' = [req EXCEPT ![s] = r],
           r.kind = req[s].kind, r.live = req[s].live,
           r.results = req[s].results, r.tasks = req[s].tasks,
           r.kind = "heartbeat" => r.step \in HeartbeatSteps,
           Past(r) => r.results \subseteq stored',
           cmd' \in [Cmd -> {"none", "new", "sent", "completed"}],
           \A c \in Cmd : cmd[c] # "none" => cmd'[c] # "none",
           stored \subseteq stored', stored' \subseteq Cmd,
           CommandsOK',
           UNCHANGED <<approved, roundVars, agentVars, taskVars>>
    PROVE  IInv'
<1> USE DEF roundVars, agentVars, taskVars
<1>1. Types'
  BY DEF IInv, Types
<1>2. ASSUME NEW t \in Slot PROVE RequestOK(req[t])'
  <2>1. CASE t = s
    <3>1. req'[t] = r
      BY <2>1 DEF IInv, Types
    <3>2. \A c \in r.results \cup r.tasks : cmd'[c] # "none"
      BY RequestTyped DEF IInv, RequestsOK, RequestOK, Known, Requests
    <3> QED BY <3>1, <3>2 DEF RequestOK, Known, Past
  <2>2. CASE t # s
    <3>1. req'[t] = req[t] /\ req[t] \in Requests /\ RequestOK(req[t])
      BY <2>2 DEF IInv, Types, RequestsOK
    <3> QED BY <3>1 DEF RequestOK, Known, Past, Requests
  <2> QED BY <2>1, <2>2
<1>3. AwaitedOK'
  BY DEF IInv, Types, AwaitedOK
<1>4. AgentOK'
  BY DEF IInv, Types, AgentOK, NoResultLost, RunOnce
<1> QED BY <1>1, <1>2, <1>3, <1>4 DEF IInv, RequestsOK

LEMMA CompleteCommandsKeeps == ASSUME IInv, NEW s \in Slot, CompleteCommands(s) PROVE IInv'
<1> DEFINE closed == {c \in req[s].results : cmd[c] \in Open}
           r == [req[s] EXCEPT !.step = "fetch"]
<1>1. closed \subseteq Cmd
  BY RequestTyped DEF Requests
<1>2. cmd' = [c \in Cmd |-> IF c \in closed THEN "completed" ELSE cmd[c]] /\ stored' = stored \cup closed
  BY DEF CompleteCommands
<1>3. req[s].results \subseteq stored'
  BY <1>2, RequestTyped DEF IInv, Types, CommandsOK, RequestsOK, RequestOK, Known, Requests, Open
<1> HIDE DEF closed
<1>4. /\ cmd' \in [Cmd -> {"none", "new", "sent", "completed"}]
      /\ \A c \in Cmd : cmd[c] # "none" => cmd'[c] # "none"
      /\ stored \subseteq stored' /\ stored' \subseteq Cmd
      /\ CommandsOK'
  BY <1>1, <1>2 DEF IInv, Types, CommandsOK
<1>5. req' = [req EXCEPT ![s] = r] /\ r \in Requests
  BY RequestTyped DEF CompleteCommands, Go, Then, Requests, IInv, Types
<1>6. /\ r.kind = req[s].kind /\ r.live = req[s].live /\ r.step = "fetch"
      /\ r.results = req[s].results /\ r.tasks = req[s].tasks
  BY RequestTyped DEF Requests
<1>7. UNCHANGED <<approved, roundVars, agentVars, taskVars>>
  BY DEF CompleteCommands
<1> HIDE DEF r
<1> QED BY <1>3, <1>4, <1>5, <1>6, <1>7, CommandStep

LEMMA FetchCommandsKeeps == ASSUME IInv, NEW s \in Slot, FetchCommands(s) PROVE IInv'
<1> USE DEF commandVars, roundVars, agentVars, taskVars
<1> DEFINE new == {c \in Cmd : cmd[c] = "new"}
           r == [req[s] EXCEPT !.tasks = new, !.step = "mark"]
<1>1. req' = [req EXCEPT ![s] = r] /\ r \in Requests
  BY RequestTyped DEF FetchCommands, Then, Requests, IInv, Types
<1>2. /\ r.kind = req[s].kind /\ r.live = req[s].live /\ r.step = "mark"
      /\ r.results = req[s].results /\ r.tasks = new
  BY RequestTyped DEF Requests
<1>3. req[s].results \subseteq stored /\ RequestOK(req[s])
  BY DEF FetchCommands, Here, IInv, RequestsOK, RequestOK, Past
<1> HIDE DEF r
<1>4. Types'
  BY <1>1 DEF FetchCommands, IInv, Types
<1>5. CommandsOK' /\ AgentOK'
  BY DEF FetchCommands, IInv, CommandsOK, AgentOK, NoResultLost, RunOnce
<1>6. RequestsOK'
  <2>1. RequestOK(r)
    BY <1>2, <1>3 DEF RequestOK, Known, Past
  <2> QED BY <2>1, <1>1 DEF FetchCommands, IInv, Types, RequestsOK, RequestOK, Known
<1>7. AwaitedOK'
  <2>1. CASE at = "wait" /\ conn = s /\ req[s].kind = "heartbeat"
    <3>1. ran \subseteq stored
      BY <2>1, <1>3 DEF IInv, AwaitedOK, AgentOK, NoResultLost
    <3>2. new \cap ran = {}
      BY <3>1 DEF IInv, Types, CommandsOK
    <3> QED BY <2>1, <3>2, <1>1, <1>2 DEF FetchCommands, IInv, Types, AwaitedOK
  <2>2. CASE ~(at = "wait" /\ conn = s /\ req[s].kind = "heartbeat")
    BY <2>2, <1>1, <1>2 DEF FetchCommands, IInv, Types, AwaitedOK
  <2> QED BY <2>1, <2>2
<1> QED BY <1>4, <1>5, <1>6, <1>7 DEF IInv

LEMMA MarkCommandsKeeps == ASSUME IInv, NEW s \in Slot, MarkCommands(s) PROVE IInv'
<1> DEFINE r == [req[s] EXCEPT !.step = "reply", !.out = "ok"]
<1>1. req' = [req EXCEPT ![s] = r] /\ r \in Requests
  BY RequestTyped DEF MarkCommands, Reply, Requests, IInv, Types
<1>2. /\ r.kind = req[s].kind /\ r.live = req[s].live /\ r.step = "reply"
      /\ r.results = req[s].results /\ r.tasks = req[s].tasks
  BY RequestTyped DEF Requests
<1>3. req[s].results \subseteq stored
  BY DEF MarkCommands, Here, IInv, RequestsOK, RequestOK, Past
<1>4. /\ cmd' \in [Cmd -> {"none", "new", "sent", "completed"}]
      /\ \A c \in Cmd : cmd[c] # "none" => cmd'[c] # "none"
      /\ stored' = stored /\ stored \subseteq Cmd
      /\ CommandsOK'
  BY DEF MarkCommands, IInv, Types, CommandsOK
<1>5. UNCHANGED <<approved, roundVars, agentVars, taskVars>>
  BY DEF MarkCommands
<1> HIDE DEF r
<1> QED BY <1>1, <1>2, <1>3, <1>4, <1>5, CommandStep

-----------------------------------------------------------------------------
(* The agent.                                                              *)

LEMMA RequestFacts ==
    ASSUME IInv, NEW kind \in {"heartbeat", "refresh", "register"}, NEW p \in Pair \cup {NoPair}
    PROVE  /\ Request(kind, p) \in Requests
           /\ Request(kind, p).live /\ Request(kind, p).kind = kind
           /\ Request(kind, p).tasks = {}
           /\ kind = "heartbeat" => Request(kind, p).results = pending
           /\ RequestOK(Request(kind, p))
<1>1. CASE kind = "heartbeat"
  BY <1>1 DEF Request, Free, Requests, IInv, Types, AgentOK, RequestOK, Known, Past
<1>2. CASE kind = "refresh"
  BY <1>2 DEF Request, Free, Requests, IInv, Types, AgentOK, RequestOK, Known, Past
<1>3. CASE kind = "register"
  BY <1>3 DEF Request, Free, Requests, IInv, Types, AgentOK, RequestOK, Known, Past
<1> QED BY <1>1, <1>2, <1>3

\* The agent sends the next request of a round.
LEMMA SendStep ==
    ASSUME IInv, NEW s \in Slot, NEW kind \in {"heartbeat", "refresh", "register"},
           NEW p \in Pair \cup {NoPair},
           req' = [req EXCEPT ![s] = Request(kind, p)],
           at' = "wait", conn' = s,
           held' \in Pair \cup {NoPair}, registry' \in Pair \cup {NoPair},
           UNCHANGED <<commandVars, approved, taskVars>>
    PROVE  IInv'
<1> USE DEF commandVars, taskVars
<1> DEFINE r == Request(kind, p)
<1>1. /\ r \in Requests /\ r.live /\ r.kind = kind /\ r.tasks = {}
      /\ kind = "heartbeat" => r.results = pending
      /\ RequestOK(r)
  BY RequestFacts
<1> HIDE DEF r
<1>2. req' = [req EXCEPT ![s] = r]
  BY DEF r
<1>3. Types'
  BY <1>1, <1>2 DEF IInv, Types
<1>4. CommandsOK' /\ AgentOK'
  BY DEF IInv, CommandsOK, AgentOK, NoResultLost, RunOnce
<1>5. RequestsOK'
  BY <1>1, <1>2 DEF IInv, Types, RequestsOK, RequestOK, Known
<1>6. AwaitedOK'
  BY <1>1, <1>2 DEF IInv, Types, AwaitedOK
<1> QED BY <1>3, <1>4, <1>5, <1>6 DEF IInv

LEMMA BeginKeeps == ASSUME IInv, NEW s \in Slot, Begin(s) PROVE IInv'
<1>1. Tokens \in Pair \cup {NoPair}
  BY DEF Tokens, IInv, Types
<1>2. /\ at' = "wait" /\ conn' = s
      /\ held' \in Pair \cup {NoPair} /\ registry' \in Pair \cup {NoPair}
      /\ UNCHANGED <<commandVars, approved, taskVars>>
  BY <1>1 DEF Begin, IInv, Types
<1>3. \E kind \in {"heartbeat", "refresh", "register"} : \E p \in Pair \cup {NoPair} :
        req' = [req EXCEPT ![s] = Request(kind, p)]
  BY <1>1 DEF Begin
<1> QED BY <1>2, <1>3, SendStep

LEMMA NextRequestKeeps ==
    ASSUME IInv, HeartbeatRefused \/ TokensIssued \/ RefreshRefused PROVE IInv'
<1> USE DEF roundVars
<1>1. at = "wait" /\ conn \in Slot /\ req[conn].pair \in Pair \cup {NoPair} /\ held \in Pair \cup {NoPair}
  BY DEF HeartbeatRefused, TokensIssued, RefreshRefused, Answered, IInv, AwaitedOK, Types, Requests
<1>2. CASE HeartbeatRefused
  BY <1>1, <1>2, SendStep DEF HeartbeatRefused, IInv, Types
<1>3. CASE TokensIssued
  BY <1>1, <1>3, SendStep DEF TokensIssued, IInv, Types
<1>4. CASE RefreshRefused
  BY <1>1, <1>4, SendStep DEF RefreshRefused, agentVars, IInv, Types
<1> QED BY <1>2, <1>3, <1>4

\* A request leaves the server, or is given up, and the agent does not wait for it.
LEMMA EndStep ==
    ASSUME IInv, NEW s \in Slot, NEW r \in Requests,
           req' = [req EXCEPT ![s] = r],
           RequestOK(r),
           at' # "wait" \/ (s # conn /\ UNCHANGED <<at, conn>>),
           held' \in Pair \cup {NoPair}, registry' \in Pair \cup {NoPair},
           UNCHANGED <<cmd, stored, approved, taskVars>>
    PROVE  IInv'
<1> USE DEF taskVars
<1>1. Types'
  BY DEF IInv, Types
<1>2. CommandsOK' /\ AgentOK'
  BY DEF IInv, CommandsOK, AgentOK, NoResultLost, RunOnce
<1>3. RequestsOK'
  BY DEF IInv, Types, RequestsOK, RequestOK, Known
<1>4. AwaitedOK'
  BY DEF IInv, Types, AwaitedOK
<1> QED BY <1>1, <1>2, <1>3, <1>4 DEF IInv

LEMMA EndRoundKeeps ==
    ASSUME IInv, RoundFails \/ TokensNotSaved PROVE IInv'
<1>1. /\ at = "wait" /\ conn \in Slot /\ req[conn].pair \in Pair \cup {NoPair}
      /\ held \in Pair \cup {NoPair} /\ registry \in Pair \cup {NoPair}
  BY DEF RoundFails, TokensNotSaved, Answered, IInv, AwaitedOK, Types, Requests
<1>2. /\ req' = [req EXCEPT ![conn] = Free] /\ at' = "idle"
      /\ held' \in Pair \cup {NoPair} /\ registry' \in Pair \cup {NoPair}
      /\ UNCHANGED <<cmd, stored, approved, taskVars>>
  BY <1>1 DEF RoundFails, TokensNotSaved, EndRound, agentVars, commandVars
<1> QED BY <1>1, <1>2, FreeFacts, EndStep

LEMMA GiveUpKeeps == ASSUME IInv, GiveUp PROVE IInv'
<1> DEFINE r == [req[conn] EXCEPT !.live = FALSE]
<1>1. conn \in Slot
  BY DEF GiveUp, IInv, AwaitedOK
<1>2. req' = [req EXCEPT ![conn] = r] /\ r \in Requests
  BY <1>1, RequestTyped DEF GiveUp, Requests, IInv, Types
<1>3. RequestOK(r)
  BY <1>1, RequestTyped DEF Requests, IInv, RequestsOK, RequestOK, Known, Past
<1>4. /\ at' = "idle" /\ UNCHANGED <<cmd, stored, approved, taskVars>>
      /\ held' \in Pair \cup {NoPair} /\ registry' \in Pair \cup {NoPair}
  BY DEF GiveUp, EndRound, commandVars, agentVars, IInv, Types
<1> HIDE DEF r
<1> QED BY <1>1, <1>2, <1>3, <1>4, EndStep

LEMMA CancelKeeps == ASSUME IInv, NEW s \in Slot, Cancel(s) PROVE IInv'
<1>1. at' # "wait" \/ (s # conn /\ UNCHANGED <<at, conn>>)
  BY DEF Cancel, roundVars, IInv, AwaitedOK
<1>2. /\ req' = [req EXCEPT ![s] = Free] /\ UNCHANGED <<cmd, stored, approved, taskVars>>
      /\ held' \in Pair \cup {NoPair} /\ registry' \in Pair \cup {NoPair}
  BY DEF Cancel, agentVars, IInv, Types
<1> QED BY <1>1, <1>2, FreeFacts, EndStep

LEMMA HeartbeatAcceptedKeeps == ASSUME IInv, HeartbeatAccepted PROVE IInv'
<1> USE DEF commandVars, agentVars
<1>1. /\ at = "wait" /\ conn \in Slot /\ req[conn] \in Requests
      /\ req[conn].kind = "heartbeat" /\ Past(req[conn])
  BY RequestTyped DEF HeartbeatAccepted, Answered, IInv, AwaitedOK, Past
<1>2. /\ req[conn].results \subseteq stored /\ req[conn].tasks \cap ran = {}
      /\ \A c \in req[conn].tasks : cmd[c] # "none"
  BY <1>1 DEF IInv, RequestsOK, RequestOK, Known, AwaitedOK
<1>3. Types'
  BY <1>1, FreeFacts DEF HeartbeatAccepted, IInv, Types, Requests
<1>4. CommandsOK'
  BY DEF HeartbeatAccepted, IInv, CommandsOK
<1>5. RequestsOK'
  BY <1>1, FreeFacts DEF HeartbeatAccepted, IInv, Types, RequestsOK, RequestOK, Known
<1>6. AwaitedOK'
  BY DEF HeartbeatAccepted, AwaitedOK
<1>7. AgentOK'
  BY <1>2 DEF HeartbeatAccepted, IInv, AgentOK, NoResultLost, RunOnce
<1> QED BY <1>3, <1>4, <1>5, <1>6, <1>7 DEF IInv

LEMMA ExecuteKeeps == ASSUME IInv, NEW c \in Cmd, Execute(c) PROVE IInv'
<1> USE DEF commandVars, roundVars, agentVars
<1>1. at = "run" /\ c \in todo /\ c \notin ran
  BY DEF Execute, IInv, AgentOK
<1>2. Types' /\ CommandsOK'
  BY <1>1 DEF Execute, IInv, Types, CommandsOK
<1>3. RequestsOK'
  BY DEF Execute, IInv, RequestsOK, RequestOK, Known
<1>4. AwaitedOK'
  BY <1>1 DEF Execute, AwaitedOK
<1>5. AgentOK'
  BY <1>1 DEF Execute, IInv, AgentOK, NoResultLost, RunOnce
<1> QED BY <1>2, <1>3, <1>4, <1>5 DEF IInv

LEMMA StopAgentKeeps == ASSUME IInv, StopAgent PROVE IInv'
<1>1. \A s \in Slot : /\ req'[s] = IF s = conn THEN [req[s] EXCEPT !.live = FALSE] ELSE req[s]
                      /\ req[s] \in Requests /\ RequestOK(req[s])
  BY DEF StopAgent, IInv, Types, RequestsOK
<1>2. ASSUME NEW s \in Slot PROVE req'[s] \in Requests /\ RequestOK(req[s])'
  <2>1. /\ req'[s] \in Requests
        /\ req'[s].kind = req[s].kind /\ req'[s].step = req[s].step /\ req'[s].out = req[s].out
        /\ req'[s].results = req[s].results /\ req'[s].tasks = req[s].tasks
    BY <1>1 DEF Requests
  <2>2. RequestOK(req[s]) /\ UNCHANGED <<cmd, stored>>
    BY <1>1 DEF StopAgent
  <2> QED BY <2>1, <2>2 DEF RequestOK, Known, Past
<1>3. req' \in [Slot -> Requests]
  BY <1>2 DEF StopAgent
<1>4. Types'
  BY <1>3 DEF StopAgent, IInv, Types
<1>5. CommandsOK' /\ AgentOK' /\ AwaitedOK'
  BY DEF StopAgent, EndRound, IInv, CommandsOK, AgentOK, AwaitedOK, NoResultLost, RunOnce
<1> QED BY <1>2, <1>4, <1>5 DEF IInv, RequestsOK

\* Steps that concern tokens, clocks and the end of a round only.
LEMMA QuietKeeps ==
    ASSUME IInv,
           Approve \/ GrowStale \/ Rest \/ (\E p \in Pair : Expire(p)) \/ UNCHANGED vars
    PROVE  IInv'
<1> USE DEF commandVars, tokenVars, roundVars, agentVars, taskVars, vars
<1>1. /\ UNCHANGED <<cmd, stored, req, conn, held, registry, pending, todo, ran, again>>
      /\ approved' \in BOOLEAN
      /\ at' = "wait" => at = "wait"
  BY DEF Approve, GrowStale, Rest, Expire, IInv, Types
<1>2. Types' /\ CommandsOK' /\ AgentOK'
  BY <1>1 DEF IInv, Types, CommandsOK, AgentOK, NoResultLost, RunOnce
<1>3. RequestsOK' /\ AwaitedOK'
  BY <1>1 DEF IInv, RequestsOK, RequestOK, Known, Past, AwaitedOK
<1> QED BY <1>2, <1>3 DEF IInv

-----------------------------------------------------------------------------
LEMMA NextIInv == IInv /\ [Next]_vars => IInv'
<1> SUFFICES ASSUME IInv, [Next]_vars PROVE IInv'
  OBVIOUS
<1>1. CASE \E c \in Cmd : Enqueue(c)
  BY <1>1, EnqueueKeeps
<1>2. CASE Approve \/ GrowStale \/ Rest \/ (\E p \in Pair : Expire(p)) \/ UNCHANGED vars
  BY <1>2, QuietKeeps
<1>3. CASE \E s \in Slot : Begin(s)
  BY <1>3, BeginKeeps
<1>4. CASE HeartbeatAccepted
  BY <1>4, HeartbeatAcceptedKeeps
<1>5. CASE HeartbeatRefused \/ TokensIssued \/ RefreshRefused
  BY <1>5, NextRequestKeeps
<1>6. CASE RoundFails \/ TokensNotSaved
  BY <1>6, EndRoundKeeps
<1>7. CASE \E c \in Cmd : Execute(c)
  BY <1>7, ExecuteKeeps
<1>8. CASE GiveUp
  BY <1>8, GiveUpKeeps
<1>9. CASE StopAgent
  BY <1>9, StopAgentKeeps
<1>10. CASE \E s \in Slot : Handler(s)
  BY <1>10, AuthorizeKeeps, ReadAgentKeeps, UpdateAgentKeeps, CompleteCommandsKeeps,
     FetchCommandsKeeps, MarkCommandsKeeps, CheckRefreshKeeps, RotateKeeps, SaveAgentKeeps,
     RevokeKeeps, CreatePairKeeps, RecordAttemptKeeps, CancelKeeps DEF Handler
<1>11. CASE \E s \in Slot : StatementFails(s)
  BY <1>11, StatementFailsKeeps
<1> QED
  BY <1>1, <1>2, <1>3, <1>4, <1>5, <1>6, <1>7, <1>8, <1>9, <1>10, <1>11 DEF Next, Round

LEMMA IInvHolds == Spec => []IInv
BY InitIInv, NextIInv, PTL DEF Spec

\* A result leaves the memory of the agent only when the server has stored it
\* (acknowledgeTaskResults), whichever answers are lost and statements fail.
THEOREM ResultsAreKept == Spec => []NoResultLost
<1>1. IInv => NoResultLost
  BY DEF IInv, AgentOK
<1> QED BY <1>1, IInvHolds, PTL

\* No process of the agent runs a command twice, although GetPendingCommands may hand
\* one out again.
THEOREM CommandsRunOnce == Spec => []RunOnce
<1>1. IInv => RunOnce
  BY DEF IInv, AgentOK
<1> QED BY <1>1, IInvHolds, PTL
=============================================================================
