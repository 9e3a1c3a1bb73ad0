---------------------------- MODULE JobPipeline ----------------------------
(***************************************************************************)
(* The jobs table of the document pipeline and everything that writes it:  *)
(* the worker loop (server/core/worker.go), and the REST handlers that     *)
(* stop, approve, reject, retry or replay a job, set a document's context  *)
(* or edit a stage's output (server/api/rest, server/core/stage_update.go).*)
(*                                                                         *)
(* There is one job per document and stage.  Every SQL statement is an     *)
(* action of its own: none of this code opens a transaction, so another    *)
(* request or the worker may run between any two of them.  Texts are       *)
(* abstracted to whether a job has an output and whether that output was   *)
(* derived from the present output of the stage it reads.                  *)
(***************************************************************************)
EXTENDS Naturals, FiniteSets

CONSTANTS
  Docs,           \* documents
  N,              \* number of stages in pipeline.yaml; a stage is its position
  Kind,           \* kind of each stage: transcribe, vision, llm or embed
  Input,          \* Input[d][s]: stage whose output s reads for d, 0 = the upload
  SkipType,       \* SkipType[d]: stages whose skip_if.file_type matches d
  SkipSize,       \* stages with skip_if.input_size_lt_kb
  NeedsContext,   \* stages with require_context or start_if.context_provided
  PreText,        \* PreText[d]: stage whose output was uploaded with d, or 0
  MaxConcurrent,  \* max_concurrent of each stage
  RetryLimit,     \* failures after which a job is given up (3 in the code)
  Clients,        \* concurrent HTTP requests
  UserOps,        \* what the users of this instance do
  MaxOps,         \* bound: user operations in a behaviour
  MaxCrashes      \* bound: crashes of the server process in a behaviour

Stages == 1..N

(* kinds of stages whose processing differs in the worker (switch at 203)   *)
Kinds == {"transcribe", "vision", "llm", "embed"}

(* the status changes a user may ask for, as <<from, to>>                   *)
Transition ==
  [stop    |-> <<"running", "error">>,
   approve |-> <<"waiting", "done">>,
   reject  |-> <<"waiting", "pending">>,
   retry   |-> <<"error", "pending">>,
   replay  |-> <<"done", "pending">>]

Ops == DOMAIN Transition \cup {"context", "clear", "edit"}

ASSUME StagesAssumption == N \in Nat \ {0} /\ Docs # {}
ASSUME KindAssumption == Kind \in [Stages -> Kinds]
ASSUME SkipAssumption ==
  /\ SkipType \in [Docs -> SUBSET Stages]
  /\ SkipSize \subseteq Stages
  /\ NeedsContext \subseteq Stages
  /\ PreText \in [Docs -> 0..N]
ASSUME InputAssumption ==
  /\ Input \in [Docs -> [Stages -> 0..N]]
  /\ \A d \in Docs, s \in Stages : Input[d][s] < s
ASSUME BoundsAssumption ==
  /\ MaxConcurrent \in [Stages -> Nat \ {0}]
  /\ RetryLimit \in Nat \ {0}
  /\ MaxOps \in Nat /\ MaxCrashes \in Nat
  /\ UserOps \subseteq Ops

VARIABLES
  \* the database
  status,    \* status[d][s]: the job's status column, or "absent"
  hasOut,    \* hasOut[d][s]: the job's last run holds the stage's output
  fails,     \* fails[d][s]: "failed" rows of stage_events, counted to RetryLimit
  context,   \* context[d]: additional_context or linked_contexts is set
  \* history, for the properties only
  why,       \* why[d][s]: what made the job wait
  fresh,     \* fresh[d][s]: the output was made from its input's present output
  held,      \* held[d][s]: parked or failed, and no user wrote d's jobs since
  \* the worker
  mode,      \* "boot" before ResetRunning, then "scan" or "batch"
  cursor,    \* the stage runOnce looks at, or whose batch runs
  pc,        \* pc[d]: next step of d's goroutine in the batch
  sawContext,   \* sawContext[d]: that goroutine's copy of context[d]
  inputCurrent, \* inputCurrent[d]: the text it read is still the input's output
  \* requests and bounds
  client,    \* client[c]: the request c is serving
  ops, crashes

database == <<status, hasOut, fails, context>>
history  == <<why, fresh, held>>
worker   == <<mode, cursor, pc, sawContext, inputCurrent>>
bounds   == <<ops, crashes>>
vars     == <<database, history, worker, client, bounds>>

Statuses == {"absent", "pending", "running", "waiting", "error", "done"}
Reasons  == {"none", "context", "review", "blocked"}
TaskSteps ==
  {"none", "queued", "fetched", "started", "generate", "check", "save", "pass",
   "reread", "title", "park", "done", "advance", "update", "insert",
   "failed", "requeue", "exhaust", "giveup", "block"}
ClientSteps ==
  {"idle", "write", "advance", "update", "insert", "cascade", "list", "nudge", "edit"}
Requests ==
  [at : ClientSteps, op : Ops, doc : Docs, stage : Stages, todo : SUBSET Stages]

TypeOK ==
  /\ status \in [Docs -> [Stages -> Statuses]]
  /\ hasOut \in [Docs -> [Stages -> BOOLEAN]]
  /\ fails \in [Docs -> [Stages -> 0..RetryLimit]]
  /\ context \in [Docs -> BOOLEAN]
  /\ why \in [Docs -> [Stages -> Reasons]]
  /\ fresh \in [Docs -> [Stages -> BOOLEAN]]
  /\ held \in [Docs -> [Stages -> BOOLEAN]]
  /\ mode \in {"boot", "scan", "batch"}
  /\ cursor \in Stages
  /\ pc \in [Docs -> TaskSteps]
  /\ sawContext \in [Docs -> BOOLEAN]
  /\ inputCurrent \in [Docs -> BOOLEAN]
  /\ client \in [Clients -> Requests]
  /\ ops \in 0..MaxOps
  /\ crashes \in 0..MaxCrashes

Idle == [at |-> "idle", op |-> "stop", doc |-> CHOOSE d \in Docs : TRUE,
         stage |-> 1, todo |-> {}]

PerJob(v) == [d \in Docs |-> [s \in Stages |-> v]]

Init ==
  /\ status = PerJob("absent")
  /\ hasOut = PerJob(FALSE)
  /\ fails = PerJob(0)
  /\ context \in [Docs -> BOOLEAN]
  /\ why = PerJob("none")
  /\ fresh = PerJob(FALSE)
  /\ held = PerJob(FALSE)
  /\ mode = "boot"
  /\ cursor = 1
  /\ pc = [d \in Docs |-> "none"]
  /\ sawContext = [d \in Docs |-> FALSE]
  /\ inputCurrent = [d \in Docs |-> FALSE]
  /\ client = [c \in Clients |-> Idle]
  /\ ops = 0
  /\ crashes = 0

-----------------------------------------------------------------------------
(* Statements on the jobs table, shared by the worker and the handlers.     *)

Set(d, s, st) == [status EXCEPT ![d][s] = st]

Downstream(s) == (s + 1)..N

(* CascadeReplay: every later job of the document, whatever its status      *)
Replayed(d, s) ==
  [status EXCEPT ![d] =
     [t \in Stages |-> IF t \in Downstream(s) /\ status[d][t] # "absent"
                       THEN "pending" ELSE status[d][t]]]

(* CascadeBlock: the later jobs that are pending                            *)
Blockable(d, s) == {t \in Downstream(s) : status[d][t] = "pending"}
Blocked(d, s) ==
  [status EXCEPT ![d] =
     [t \in Stages |-> IF t \in Blockable(d, s) THEN "waiting" ELSE status[d][t]]]

(* UpdateRuns with a new run or an edit of the last one: what was made from *)
(* the previous output is out of date                                       *)
NewOutput(d, s, present, isFresh) ==
  /\ hasOut' = [hasOut EXCEPT ![d][s] = present]
  /\ fresh' = [fresh EXCEPT ![d] =
                 [t \in Stages |-> IF t = s THEN isFresh
                                   ELSE fresh[d][t] /\ Input[d][t] # s]]

(* advancePipeline's Upsert: ON CONFLICT it overwrites status and runs      *)
Upsert(d, s) ==
  /\ status' = Set(d, s, "pending")
  /\ hasOut' = [hasOut EXCEPT ![d][s] = FALSE]

(* firstApplicableStage: the first stage that d's file type does not skip   *)
FirstApplicable(d, s) ==
  \/ s \notin SkipType[d] /\ \A t \in Stages : t < s => t \in SkipType[d]
  \/ SkipType[d] = Stages /\ s = 1

(* createFirstJob, the last step of an upload                               *)
Upload(d) ==
  /\ \A s \in Stages : status[d][s] = "absent"
  /\ \E s \in Stages : FirstApplicable(d, s) /\ status' = Set(d, s, "pending")
  /\ UNCHANGED <<hasOut, fails, context, history, worker, client, bounds>>

-----------------------------------------------------------------------------
(* The worker loop: ResetRunning once, then pass over the stages in order,  *)
(* take every pending job of the first stage that has one, run them all,    *)
(* and start again at the first stage.                                      *)

ResetRunning ==
  /\ mode = "boot"
  /\ status' = [d \in Docs |-> [s \in Stages |->
                  IF status[d][s] = "running" THEN "pending" ELSE status[d][s]]]
  /\ mode' = "scan"
  /\ UNCHANGED <<hasOut, fails, context, history, cursor, pc, sawContext,
                 inputCurrent, client, bounds>>

Pending(s) == {d \in Docs : status[d][s] = "pending"}

(* ListPending finds nothing: the next stage, or the first after the sleep  *)
NextStage ==
  /\ mode = "scan"
  /\ Pending(cursor) = {}
  /\ cursor' = IF cursor = N THEN 1 ELSE cursor + 1
  /\ UNCHANGED <<database, history, mode, pc, sawContext, inputCurrent, client, bounds>>

TakeBatch ==
  /\ mode = "scan"
  /\ Pending(cursor) # {}
  /\ pc' = [d \in Docs |-> IF d \in Pending(cursor) THEN "queued" ELSE "none"]
  /\ mode' = "batch"
  /\ UNCHANGED <<database, history, cursor, sawContext, inputCurrent, client, bounds>>

(* eg.Wait returns                                                          *)
EndBatch ==
  /\ mode = "batch"
  /\ \A d \in Docs : pc[d] = "none"
  /\ mode' = "scan"
  /\ cursor' = 1
  /\ sawContext' = [d \in Docs |-> FALSE]
  /\ inputCurrent' = [d \in Docs |-> FALSE]
  /\ UNCHANGED <<database, history, pc, client, bounds>>

-----------------------------------------------------------------------------
(* One goroutine of the batch: processJob for document d at stage cursor.   *)

Goto(d, from, to) == pc[d] = from /\ pc' = [pc EXCEPT ![d] = to]

Active == {d \in Docs : pc[d] \notin {"none", "queued"}}

(* the semaphore is acquired, and docs.Get copies the document              *)
Fetch(d) ==
  /\ Goto(d, "queued", "fetched")
  /\ Cardinality(Active) < MaxConcurrent[cursor]
  /\ sawContext' = [sawContext EXCEPT ![d] = context[d]]
  /\ UNCHANGED <<database, history, mode, cursor, inputCurrent, client, bounds>>

(* marked running whatever the job's status has become since ListPending    *)
MarkRunning(d) ==
  /\ Goto(d, "fetched", "started")
  /\ status' = Set(d, cursor, "running")
  /\ why' = [why EXCEPT ![d][cursor] = "none"]
  /\ UNCHANGED <<hasOut, fails, context, fresh, held, mode, cursor, sawContext,
                 inputCurrent, client, bounds>>

(* checkStartIf, on the copy of the document                                *)
Startable(d) ==
  Kind[cursor] = "llm" /\ cursor \in NeedsContext => sawContext[d]

ParkForContext(d) ==
  /\ Goto(d, "started", "none")
  /\ ~Startable(d)
  /\ status' = Set(d, cursor, "waiting")
  /\ why' = [why EXCEPT ![d][cursor] = "context"]
  /\ UNCHANGED <<hasOut, fails, context, fresh, held, mode, cursor, sawContext,
                 inputCurrent, client, bounds>>

(* isSkipFileType; the embed stage does not look at it                      *)
Skips(d) == cursor \in SkipType[d] /\ Kind[cursor] # "embed"

(* a vision stage keeps the text of a plain-text upload as its output       *)
SkipByType(d) ==
  /\ Goto(d, "started",
          IF Kind[cursor] = "vision" /\ PreText[d] = cursor THEN "pass" ELSE "done")
  /\ Startable(d) /\ Skips(d)
  /\ inputCurrent' = [inputCurrent EXCEPT ![d] = TRUE]
  /\ UNCHANGED <<database, history, mode, cursor, sawContext, client, bounds>>

(* collectStageData and findInput: the last run of a done or waiting job    *)
HasInput(d) ==
  LET i == Input[d][cursor]
  IN  i # 0 => hasOut[d][i] /\ status[d][i] \in {"done", "waiting"}

Processable(d) == Startable(d) /\ ~Skips(d)

(* the transcript was uploaded with the recording                           *)
Seeded(d) == Kind[cursor] = "transcribe" /\ PreText[d] = cursor

(* Mutation: the empty input is logged, and the job left as it is.          *)
NoInputIgnored(d) ==
  /\ Goto(d, "started", "none")
  /\ Processable(d) /\ ~HasInput(d)
  /\ UNCHANGED <<database, history, mode, cursor, sawContext, inputCurrent, client, bounds>>

NoInput(d) ==
  /\ Goto(d, "started", "failed")
  /\ Processable(d) /\ ~HasInput(d)
  /\ UNCHANGED <<database, history, mode, cursor, sawContext, inputCurrent, client, bounds>>

(* the stage needs no model: its input is short (isSkipBySize) or its       *)
(* output is there already                                                  *)
PassThrough(d) ==
  /\ Goto(d, "started", "pass")
  /\ Processable(d) /\ HasInput(d)
  /\ \/ Kind[cursor] = "llm" /\ cursor \in SkipSize
     \/ Seeded(d)
  /\ inputCurrent' = [inputCurrent EXCEPT ![d] = TRUE]
  /\ UNCHANGED <<database, history, mode, cursor, sawContext, client, bounds>>

CallModel(d) ==
  /\ Goto(d, "started", "generate")
  /\ Processable(d) /\ HasInput(d)
  /\ ~Seeded(d)
  /\ inputCurrent' = [inputCurrent EXCEPT ![d] = TRUE]
  /\ UNCHANGED <<database, history, mode, cursor, sawContext, client, bounds>>

(* the model answers; only runEmbed goes on without asking wasStopped       *)
Answered(d) ==
  /\ Goto(d, "generate", IF Kind[cursor] = "embed" THEN "save" ELSE "check")
  /\ UNCHANGED <<database, history, mode, cursor, sawContext, inputCurrent, client, bounds>>

(* the model, the vault or the vector store returns an error                *)
Fails(d) ==
  /\ pc[d] \in {"generate", "save", "pass"}
  /\ pc' = [pc EXCEPT ![d] = "failed"]
  /\ UNCHANGED <<database, history, mode, cursor, sawContext, inputCurrent, client, bounds>>

(* wasStopped: a result is discarded unless the job is still running        *)
CheckStopped(d) ==
  /\ Goto(d, "check", IF status[d][cursor] # "running" THEN "none"
                      ELSE IF Kind[cursor] = "vision" THEN "reread" ELSE "save")
  /\ UNCHANGED <<database, history, mode, cursor, sawContext, inputCurrent, client, bounds>>

(* the document is read again for its title: before the run is saved by     *)
(* runOCR, after it by finishTranscribe                                     *)
Reread(d) ==
  /\ Goto(d, "reread", IF Kind[cursor] = "vision" THEN "save" ELSE "title")
  /\ sawContext' = [sawContext EXCEPT ![d] = context[d]]
  /\ UNCHANGED <<database, history, mode, cursor, inputCurrent, client, bounds>>

(* persistRun and UpdateRuns.  A model's answer may hold no output, and is   *)
(* for review if it has questions or a confidence below continue_if         *)
SaveRun(d) ==
  /\ \/ Goto(d, "save", "done") /\ Kind[cursor] \in {"llm", "embed"}
     \/ Goto(d, "save", "park") /\ Kind[cursor] = "llm"
     \/ Goto(d, "pass", "done") /\ Kind[cursor] = "llm"
     \/ /\ Kind[cursor] = "vision"
        /\ (Goto(d, "save", "title") \/ Goto(d, "pass", "title"))
     \/ /\ Kind[cursor] = "transcribe"
        /\ (Goto(d, "save", "reread") \/ Goto(d, "pass", "reread"))
  /\ \E present \in BOOLEAN :
       /\ present \/ (Kind[cursor] = "llm" /\ pc[d] = "save")
       /\ NewOutput(d, cursor, present, inputCurrent[d])
  /\ UNCHANGED <<status, fails, context, why, held, mode, cursor, sawContext,
                 inputCurrent, client, bounds>>

(* a document without a title is given one, and the whole row written, with *)
(* the context of the copy it was read into                                 *)
WriteTitle(d) ==
  /\ Goto(d, "title", "done")
  /\ \/ context' = [context EXCEPT ![d] = sawContext[d]]
     \/ UNCHANGED context
  /\ UNCHANGED <<status, hasOut, fails, history, mode, cursor, sawContext,
                 inputCurrent, client, bounds>>

ParkForReview(d) ==
  /\ Goto(d, "park", "none")
  /\ status' = Set(d, cursor, "waiting")
  /\ why' = [why EXCEPT ![d][cursor] = "review"]
  /\ held' = [held EXCEPT ![d][cursor] = TRUE]
  /\ UNCHANGED <<hasOut, fails, context, fresh, mode, cursor, sawContext,
                 inputCurrent, client, bounds>>

MarkDone(d) ==
  /\ Goto(d, "done", IF cursor = N THEN "none" ELSE "advance")
  /\ status' = Set(d, cursor, "done")
  /\ UNCHANGED <<hasOut, fails, context, history, mode, cursor, sawContext,
                 inputCurrent, client, bounds>>

(* Mutation: a job that exists already is left alone.                       *)
AdvanceNewOnly(d) ==
  /\ Goto(d, "advance", IF status[d][cursor + 1] = "absent" THEN "insert" ELSE "none")
  /\ UNCHANGED <<database, history, mode, cursor, sawContext, inputCurrent, client, bounds>>

(* Mutation: the next job is upserted without looking for it.               *)
AdvanceBlind(d) ==
  /\ Goto(d, "advance", "insert")
  /\ UNCHANGED <<database, history, mode, cursor, sawContext, inputCurrent, client, bounds>>

(* advancePipeline: GetByDocumentAndStage, then one of two writes           *)
Advance(d) ==
  /\ Goto(d, "advance", IF status[d][cursor + 1] = "absent" THEN "insert" ELSE "update")
  /\ UNCHANGED <<database, history, mode, cursor, sawContext, inputCurrent, client, bounds>>

AdvanceUpdate(d) ==
  /\ Goto(d, "update", "none")
  /\ status' = Set(d, cursor + 1, "pending")
  /\ UNCHANGED <<hasOut, fails, context, history, mode, cursor, sawContext,
                 inputCurrent, client, bounds>>

(* Mutation: off by one, a stage is jumped over.                            *)
AdvanceTwo(d) ==
  /\ Goto(d, "insert", "none")
  /\ Upsert(d, IF cursor + 2 <= N THEN cursor + 2 ELSE N)
  /\ UNCHANGED <<fails, context, history, mode, cursor, sawContext, inputCurrent,
                 client, bounds>>

AdvanceInsert(d) ==
  /\ Goto(d, "insert", "none")
  /\ Upsert(d, cursor + 1)
  /\ UNCHANGED <<fails, context, history, mode, cursor, sawContext, inputCurrent,
                 client, bounds>>

(* Mutation: off by one, a failure more than the limit is retried.          *)
CountOneMore(d) ==
  LET n == fails[d][cursor] + 1
  IN  /\ Goto(d, "failed", IF n <= RetryLimit THEN "requeue" ELSE "exhaust")
      /\ fails' = [fails EXCEPT ![d][cursor] = n]
      /\ UNCHANGED <<status, hasOut, context, history, mode, cursor, sawContext,
                     inputCurrent, client, bounds>>

(* Mutation: every failure is retried.                                      *)
RetryAlways(d) ==
  /\ Goto(d, "failed", "requeue")
  /\ UNCHANGED <<database, history, mode, cursor, sawContext, inputCurrent, client, bounds>>

(* handleJobError: the failed event is appended and all of them counted     *)
CountFailure(d) ==
  LET n == IF fails[d][cursor] = RetryLimit THEN RetryLimit ELSE fails[d][cursor] + 1
  IN  /\ Goto(d, "failed", IF n < RetryLimit THEN "requeue" ELSE "exhaust")
      /\ fails' = [fails EXCEPT ![d][cursor] = n]
      /\ UNCHANGED <<status, hasOut, context, history, mode, cursor, sawContext,
                     inputCurrent, client, bounds>>

(* after the backoff                                                        *)
Requeue(d) ==
  /\ Goto(d, "requeue", "none")
  /\ status' = Set(d, cursor, "pending")
  /\ UNCHANGED <<hasOut, fails, context, history, mode, cursor, sawContext,
                 inputCurrent, client, bounds>>

(* the error run becomes the last run (unless saving it fails)              *)
SaveErrorRun(d) ==
  /\ Goto(d, "exhaust", "giveup")
  /\ \/ hasOut' = [hasOut EXCEPT ![d][cursor] = FALSE]
     \/ UNCHANGED hasOut
  /\ UNCHANGED <<status, fails, context, history, mode, cursor, sawContext, inputCurrent,
                 client, bounds>>

GiveUp(d) ==
  /\ Goto(d, "giveup", "block")
  /\ status' = Set(d, cursor, "error")
  /\ held' = [held EXCEPT ![d][cursor] = TRUE]
  /\ UNCHANGED <<hasOut, fails, context, why, fresh, mode, cursor, sawContext,
                 inputCurrent, client, bounds>>

(* Mutation: only the next stage's job is blocked.                          *)
BlockNext(d) ==
  /\ Goto(d, "block", "none")
  /\ status' = [status EXCEPT ![d] =
       [t \in Stages |-> IF t \in Blockable(d, cursor) /\ t = cursor + 1
                         THEN "waiting" ELSE status[d][t]]]
  /\ UNCHANGED <<hasOut, fails, context, history, mode, cursor, sawContext,
                 inputCurrent, client, bounds>>

Block(d) ==
  /\ Goto(d, "block", "none")
  /\ status' = Blocked(d, cursor)
  /\ why' = [why EXCEPT ![d] = [t \in Stages |->
               IF t \in Blockable(d, cursor) THEN "blocked" ELSE why[d][t]]]
  /\ UNCHANGED <<hasOut, fails, context, fresh, held, mode, cursor, sawContext,
                 inputCurrent, client, bounds>>

-----------------------------------------------------------------------------
(* Requests.  One that changes nothing (a refused transition, a read) is    *)
(* left out.                                                                *)

Serve(c, request) ==
  /\ client[c].at = "idle"
  /\ request.op \in UserOps
  /\ ops < MaxOps
  /\ ops' = ops + 1
  /\ client' = [client EXCEPT ![c] = request]

Request(at, op, d, s) == [at |-> at, op |-> op, doc |-> d, stage |-> s, todo |-> {}]

At(c, from, to) ==
  /\ client[c].at = from
  /\ client' = [client EXCEPT ![c] = IF to = "idle" THEN Idle ELSE [@ EXCEPT !.at = to]]

(* a user's write to d's jobs                                               *)
Touch(d) == held' = [held EXCEPT ![d] = [s \in Stages |-> FALSE]]

(* putJobStatus: the transition is checked against the status read here     *)
PutStatus(c, d, s, op) ==
  /\ status[d][s] = Transition[op][1]
  /\ Serve(c, Request("write", op, d, s))
  /\ UNCHANGED <<database, history, worker, crashes>>

(* Mutation: an approval does not go on to advancePipeline.                 *)
WriteStatusOnly(c) ==
  LET r == client[c]
  IN  /\ At(c, "write", IF r.op = "replay" THEN "cascade" ELSE "idle")
      /\ status' = Set(r.doc, r.stage, Transition[r.op][2])
      /\ why' = [why EXCEPT ![r.doc][r.stage] = "none"]
      /\ Touch(r.doc)
      /\ UNCHANGED <<hasOut, fails, context, fresh, worker, bounds>>

(* and written here; an approval goes on to advancePipeline, a replay to    *)
(* CascadeReplay                                                            *)
WriteStatus(c) ==
  LET r == client[c]
  IN  /\ At(c, "write", IF r.op = "approve" /\ r.stage < N THEN "advance"
                        ELSE IF r.op = "replay" THEN "cascade" ELSE "idle")
      /\ status' = Set(r.doc, r.stage, Transition[r.op][2])
      /\ why' = [why EXCEPT ![r.doc][r.stage] = "none"]
      /\ Touch(r.doc)
      /\ UNCHANGED <<hasOut, fails, context, fresh, worker, bounds>>

Approve(c) ==
  LET r == client[c]
  IN  /\ At(c, "advance",
            IF status[r.doc][r.stage + 1] = "absent" THEN "insert" ELSE "update")
      /\ UNCHANGED <<database, history, worker, bounds>>

ApproveUpdate(c) ==
  /\ At(c, "update", "idle")
  /\ status' = Set(client[c].doc, client[c].stage + 1, "pending")
  /\ Touch(client[c].doc)
  /\ UNCHANGED <<hasOut, fails, context, why, fresh, worker, bounds>>

ApproveInsert(c) ==
  /\ At(c, "insert", "idle")
  /\ Upsert(client[c].doc, client[c].stage + 1)
  /\ Touch(client[c].doc)
  /\ UNCHANGED <<fails, context, why, fresh, worker, bounds>>

Cascade(c) ==
  /\ At(c, "cascade", "idle")
  /\ status' = Replayed(client[c].doc, client[c].stage)
  /\ Touch(client[c].doc)
  /\ UNCHANGED <<hasOut, fails, context, why, fresh, worker, bounds>>

(* patchDocument with a context: the document is written, then its waiting  *)
(* jobs are listed, then each of them is set to pending                     *)
PatchContext(c, d, op) ==
  /\ op \in {"context", "clear"}
  /\ Serve(c, Request("list", op, d, 1))
  /\ context' = [context EXCEPT ![d] = (op = "context")]
  /\ UNCHANGED <<status, hasOut, fails, history, worker, crashes>>

Waiting(d) == {s \in Stages : status[d][s] = "waiting"}

ListWaiting(c) ==
  LET r == client[c]
  IN  /\ r.at = "list"
      /\ client' = [client EXCEPT ![c] =
           IF Waiting(r.doc) = {} THEN Idle
           ELSE [r EXCEPT !.at = "nudge", !.todo = Waiting(r.doc)]]
      /\ UNCHANGED <<database, history, worker, bounds>>

Nudge(c) ==
  LET r == client[c]
  IN  /\ r.at = "nudge"
      /\ \E s \in r.todo :
           /\ \A t \in r.todo : s <= t
           /\ status' = Set(r.doc, s, "pending")
           /\ client' = [client EXCEPT ![c] =
                IF r.todo = {s} THEN Idle ELSE [r EXCEPT !.todo = r.todo \ {s}]]
      /\ Touch(r.doc)
      /\ UNCHANGED <<hasOut, fails, context, why, fresh, worker, bounds>>

(* UpdateStageArtifactAt: findDoneStageRun, then the file and UpdateRuns,   *)
(* then CascadeReplay; the edited job itself stays done                     *)
Edit(c, d, s) ==
  /\ status[d][s] = "done" /\ hasOut[d][s]
  /\ Serve(c, Request("edit", "edit", d, s))
  /\ UNCHANGED <<database, history, worker, crashes>>

WriteEdit(c) ==
  LET r == client[c]
  IN  /\ At(c, "edit", "cascade")
      /\ NewOutput(r.doc, r.stage, TRUE, TRUE)
      /\ inputCurrent' = [inputCurrent EXCEPT ![r.doc] =
                            @ /\ Input[r.doc][cursor] # r.stage]
      /\ UNCHANGED <<status, fails, context, why, held, mode, cursor, pc, sawContext, bounds>>

-----------------------------------------------------------------------------
(* The worker and the handlers are one process: a crash ends both           *)
Crash ==
  /\ crashes < MaxCrashes
  /\ crashes' = crashes + 1
  /\ mode' = "boot"
  /\ cursor' = 1
  /\ pc' = [d \in Docs |-> "none"]
  /\ sawContext' = [d \in Docs |-> FALSE]
  /\ inputCurrent' = [d \in Docs |-> FALSE]
  /\ client' = [c \in Clients |-> Idle]
  /\ UNCHANGED <<database, history, ops>>

Task(d) ==
  \/ Fetch(d) \/ MarkRunning(d)
  \/ ParkForContext(d) \/ SkipByType(d) \/ NoInput(d) \/ PassThrough(d) \/ CallModel(d)
  \/ Answered(d) \/ Fails(d) \/ CheckStopped(d)
  \/ Reread(d) \/ SaveRun(d) \/ WriteTitle(d) \/ ParkForReview(d) \/ MarkDone(d)
  \/ Advance(d) \/ AdvanceUpdate(d) \/ AdvanceInsert(d)
  \/ CountFailure(d) \/ Requeue(d) \/ SaveErrorRun(d) \/ GiveUp(d) \/ Block(d)

Loop == ResetRunning \/ NextStage \/ TakeBatch \/ EndBatch

Handle(c) ==
  \/ WriteStatus(c) \/ Approve(c) \/ ApproveUpdate(c) \/ ApproveInsert(c)
  \/ Cascade(c) \/ ListWaiting(c) \/ Nudge(c) \/ WriteEdit(c)

User(c) ==
  \E d \in Docs :
    \/ \E s \in Stages, op \in DOMAIN Transition : PutStatus(c, d, s, op)
    \/ \E op \in Ops : PatchContext(c, d, op)
    \/ \E s \in Stages : Edit(c, d, s)

Next ==
  \/ Loop
  \/ \E d \in Docs : Upload(d) \/ Task(d)
  \/ \E c \in Clients : User(c) \/ Handle(c)
  \/ Crash

Spec == Init /\ [][Next]_vars

(* The loop never blocks for ever, the goroutines of a batch each get the   *)
(* semaphore in turn, and a request once begun runs to its end; a process   *)
(* that dies is restarted (restart: unless-stopped).  Users owe nothing.    *)
FairSpec ==
  /\ Spec
  /\ WF_vars(Loop)
  /\ \A d \in Docs : WF_vars(Task(d))
  /\ \A c \in Clients : WF_vars(Handle(c))

-----------------------------------------------------------------------------
(* Properties                                                               *)

TaskHolds == {"started", "generate", "check", "save", "pass", "reread", "title",
              "park", "done", "failed", "requeue", "exhaust", "giveup"}

(* A job is running only while a goroutine works on it, or a restart is     *)
(* about to reset it (ResetRunning, worker.go:96): no order of worker steps *)
(* and user writes leaves a job running that nobody will ever finish.       *)
RunningIsOwned ==
  \A d \in Docs, s \in Stages :
    status[d][s] = "running" => mode = "boot" \/ (s = cursor /\ pc[d] \in TaskHolds)

HandingOver(d, s) ==
  \/ s = cursor /\ pc[d] \in {"advance", "insert"}
  \/ \E c \in Clients : /\ client[c].at \in {"advance", "insert"}
                        /\ client[c].doc = d /\ client[c].stage = s

(* A finished job always has a successor, or the worker or a request is     *)
(* just about to create it (advancePipeline, worker.go:1083, jobs.go:359):  *)
(* a document is not forgotten half way.  Only a crash can break it.        *)
HandOff ==
  \A d \in Docs, s \in Stages :
    /\ status[d][s] = "done" /\ s < N /\ status[d][s + 1] = "absent"
    /\ crashes = 0
    => HandingOver(d, s)

(* A document's jobs are the stages from its first applicable one on,       *)
(* without a gap: nothing is advanced past a stage that has no job.         *)
NoGaps ==
  \A d \in Docs, s \in Stages :
    /\ s > 1 /\ status[d][s] # "absent" /\ ~FirstApplicable(d, s)
    => status[d][s - 1] # "absent"

(* Once a stage has failed for good, no later job of the document is        *)
(* pending or running until a user writes the document's jobs again         *)
(* (CascadeBlock, worker.go:1066): nobody runs on the missing output.       *)
BlockHolds ==
  \A d \in Docs, s, t \in Stages :
    /\ s < t /\ status[d][s] = "error" /\ held[d][s]
    /\ crashes = 0 /\ ~(s = cursor /\ pc[d] = "block")
    => status[d][t] \notin {"pending", "running"}

Quiet ==
  /\ mode = "scan"
  /\ \A d \in Docs, s \in Stages : status[d][s] \notin {"pending", "running"}
  /\ \A c \in Clients : client[c].at = "idle"

(* When the system is at rest and every job of a document is done, each     *)
(* output was made from what its input stage holds now: whatever users      *)
(* replayed, approved, rejected, stopped or retried, and whenever, the      *)
(* later stages were run again (advancePipeline re-pends a done successor,  *)
(* worker.go:1102; CascadeReplay, jobs.go:220).                             *)
SettledFresh ==
  Quiet => \A d \in Docs :
    (\A s \in Stages : status[d][s] \in {"absent", "done"})
      => \A s \in Stages : hasOut[d][s] => fresh[d][s]

(* An output is lost only to a later run of its own stage, or to an         *)
(* approval: the worker's advance never finds the next job absent and then  *)
(* overwrites the one another writer made and the worker has run since      *)
(* (Upsert's ON CONFLICT, worker.go:1118).  An approval may (jobs.go:390).  *)
OutputsKept ==
  [][\A d \in Docs, s \in Stages :
       hasOut[d][s] /\ ~hasOut'[d][s] =>
         \/ pc[d] \in {"save", "exhaust"} /\ s = cursor
         \/ \E c \in Clients : client[c].at = "insert" /\ client'[c].at = "idle"]_vars

(* Documentation: a stage whose output needs review parks, and only an      *)
(* approval moves the document on (README.md:27).  Nothing after a parked   *)
(* job runs before a user acts.                                             *)
ReviewGate ==
  \A d \in Docs, s, t \in Stages :
    /\ s < t /\ status[d][s] = "waiting" /\ why[d][s] = "review" /\ held[d][s]
    => status[d][t] # "running"

(* Documentation: adding a context wakes up the jobs that wait for one      *)
(* (documents.go:332).  At rest no job of a document with a context still   *)
(* waits for it.                                                            *)
ContextWakes ==
  Quiet => \A d \in Docs, s \in Stages :
    ~(context[d] /\ status[d][s] = "waiting" /\ why[d][s] = "context")

(* Documentation: "Only valid transitions are accepted" (openapi.yaml:414). *)
(* The status a request overwrites is the one its transition starts from.   *)
OnlyValidTransitions ==
  [][\A c \in Clients : LET r == client[c] IN
       r.at = "write" /\ client'[c].at # "write" /\ mode' # "boot"
         => status[r.doc][r.stage] = Transition[r.op][1]]_vars

(* Left alone the system comes to rest: retries end, and every pending job  *)
(* of every document is taken up, also after a restart.                     *)
Settles == <>[]Quiet
=============================================================================
