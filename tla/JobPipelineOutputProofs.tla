----------------------- MODULE JobPipelineOutputProofs -----------------------
(* Proofs about JobPipeline: who may take an output away, and why no output *)
(* stays that was made from one since replaced.                             *)
EXTENDS JobPipelineOrderProofs

-----------------------------------------------------------------------------
(* What a step does with the outputs.                                       *)

(* A new output replaces the one of its own job, and what was made from     *)
(* others stays as it is.                                                   *)
LEMMA NewOutputMeans ==
  ASSUME TypeOK, NEW d \in Docs, NEW s \in Stages, NEW present \in BOOLEAN,
         NEW isFresh \in BOOLEAN, NewOutput(d, s, present, isFresh)
  PROVE  /\ hasOut'[d][s] = present /\ fresh'[d][s] = isFresh
         /\ \A e \in Docs, t \in Stages :
              /\ e # d \/ t # s => hasOut'[e][t] = hasOut[e][t]
              /\ e # d => fresh'[e][t] = fresh[e][t]
         /\ \A t \in Stages :
              t # s /\ Input[d][t] # s => fresh'[d][t] = fresh[d][t]
<1>1. /\ hasOut'[d][s] = present
      /\ \A e \in Docs, t \in Stages : e # d \/ t # s => hasOut'[e][t] = hasOut[e][t]
  BY DEF NewOutput, TypeOK
<1> DEFINE f == [t \in Stages |-> IF t = s THEN isFresh ELSE fresh[d][t] /\ Input[d][t] # s]
<1>2. fresh' = [fresh EXCEPT ![d] = f]
  BY DEF NewOutput
<1>3. f[s] = isFresh /\ \A t \in Stages : t # s /\ Input[d][t] # s => f[t] = fresh[d][t]
  <2>1. \A t \in Stages : fresh[d][t] \in BOOLEAN
    BY DEF TypeOK
  <2> QED  BY <2>1, Zenon
<1> HIDE DEF f
<1>4. /\ fresh'[d] = f
      /\ \A e \in Docs : e # d => fresh'[e] = fresh[e]
  BY <1>2 DEF TypeOK
<1> QED  BY <1>1, <1>3, <1>4

(* What a goroutine does with the outputs: nothing; it saves a run, or an   *)
(* error run, of its own job; or it creates the next job without one.       *)
TaskMakes(d) ==
  \/ hasOut' = hasOut /\ fresh' = fresh
  \/ SaveRun(d)
  \/ /\ fresh' = fresh
     /\ \/ pc[d] = "exhaust" /\ hasOut' = [hasOut EXCEPT ![d][cursor] = FALSE]
        \/ pc[d] = "insert" /\ hasOut' = [hasOut EXCEPT ![d][cursor + 1] = FALSE]

(* A step of a goroutine does no more than that.                            *)
LEMMA TaskMaking ==
  ASSUME NEW d \in Docs, Task(d)
  PROVE  TaskMakes(d)
<1>1. CASE Fetch(d) \/ MarkRunning(d) \/ ParkForContext(d) \/ SkipByType(d) \/ NoInput(d)
           \/ PassThrough(d) \/ CallModel(d) \/ Answered(d) \/ Fails(d)
           \/ CheckStopped(d) \/ Reread(d) \/ WriteTitle(d) \/ ParkForReview(d)
           \/ MarkDone(d) \/ Advance(d) \/ AdvanceUpdate(d) \/ CountFailure(d)
           \/ Requeue(d) \/ GiveUp(d) \/ Block(d)
  BY <1>1
  DEF Fetch, MarkRunning, ParkForContext, SkipByType, NoInput, PassThrough, CallModel,
      Answered, Fails, CheckStopped, Reread, WriteTitle, ParkForReview, MarkDone,
      Advance, AdvanceUpdate, CountFailure, Requeue, GiveUp, Block, TaskMakes,
      database, history
<1>2. CASE SaveRun(d)
  BY <1>2 DEF TaskMakes
<1>3. CASE AdvanceInsert(d)
  BY <1>3 DEF AdvanceInsert, Upsert, Goto, TaskMakes, history
<1>4. CASE SaveErrorRun(d)
  BY <1>4 DEF SaveErrorRun, Goto, TaskMakes, history
<1> QED  BY <1>1, <1>2, <1>3, <1>4 DEF Task

(* What a saved run leaves: the output of its job alone changes.            *)
LEMMA SaveRunMakes ==
  ASSUME TypeOK, NEW d \in Docs, SaveRun(d)
  PROVE  /\ pc[d] \in {"save", "pass"} /\ status' = status
         /\ \A e \in Docs, t \in Stages :
              /\ e # d \/ t # cursor => hasOut'[e][t] = hasOut[e][t]
              /\ e # d => fresh'[e][t] = fresh[e][t]
         /\ fresh'[d][cursor] = inputCurrent[d]
         /\ \A t \in Stages :
              t # cursor /\ Input[d][t] # cursor => fresh'[d][t] = fresh[d][t]
         /\ pc[d] = "pass" => hasOut'[d][cursor]
<1>1. PICK present \in BOOLEAN :
        /\ present \/ (Kind[cursor] = "llm" /\ pc[d] = "save")
        /\ NewOutput(d, cursor, present, inputCurrent[d])
  BY DEF SaveRun
<1>2. cursor \in Stages /\ inputCurrent[d] \in BOOLEAN
  BY DEF TypeOK
<1>3. pc[d] \in {"save", "pass"} /\ status' = status
  BY DEF SaveRun, Goto
<1>4. /\ hasOut'[d][cursor] = present /\ fresh'[d][cursor] = inputCurrent[d]
      /\ \A e \in Docs, t \in Stages :
           /\ e # d \/ t # cursor => hasOut'[e][t] = hasOut[e][t]
           /\ e # d => fresh'[e][t] = fresh[e][t]
      /\ \A t \in Stages :
           t # cursor /\ Input[d][t] # cursor => fresh'[d][t] = fresh[d][t]
  BY <1>1, <1>2, NewOutputMeans
<1>5. pc[d] = "pass" => present
  BY <1>1
<1> QED  BY <1>3, <1>4, <1>5

(* A request changes the outputs only as an edit, or as an approval that    *)
(* creates the next job.                                                    *)
LEMMA RequestMaking ==
  ASSUME NEW c \in Clients, User(c) \/ Handle(c)
  PROVE  \/ hasOut' = hasOut /\ fresh' = fresh /\ inputCurrent' = inputCurrent
         \/ WriteEdit(c) \/ ApproveInsert(c)
BY DEF User, Handle, PutStatus, PatchContext, Edit, WriteStatus, Approve, ApproveUpdate,
       Cascade, ListWaiting, Nudge, database, history, worker

(* An upload, the loop, a crash and a stutter leave the outputs alone.      *)
LEMMA LoopMakesNothing ==
  ASSUME Loop \/ Crash \/ UNCHANGED vars \/ \E d \in Docs : Upload(d)
  PROVE  hasOut' = hasOut /\ fresh' = fresh
BY DEF Loop, ResetRunning, NextStage, TakeBatch, EndBatch, Crash, Upload, vars, database,
       history

-----------------------------------------------------------------------------
(* Outputs are kept.                                                        *)

(* A goroutine that advances its document has a next stage.                 *)
HasNext == \A d \in Docs : pc[d] \in {"advance", "update", "insert"} => cursor < N

(* A job that is not there has no output.                                   *)
NoneWithoutJob == \A d \in Docs, s \in Stages : status[d][s] = "absent" => ~hasOut[d][s]

(* A goroutine that found the next job absent and is about to create it     *)
(* wipes no output, whoever has created that job since: nobody has run it.  *)
NothingToWipe == \A d \in Docs : pc[d] = "insert" => ~hasOut[d][cursor + 1]

(* Nor will an edit under way give it one: the edited job had its output    *)
(* before.                                                                  *)
EditsAreOfOutputs ==
  \A c \in Clients : client[c].at = "edit" =>
    ~(pc[client[c].doc] = "insert" /\ client[c].stage = cursor + 1)

OutputInv ==
  /\ TypeInv /\ AtRest /\ Existing /\ HasNext
  /\ NoneWithoutJob /\ NothingToWipe /\ EditsAreOfOutputs

(* Only the last stage is not followed by an advance.                       *)
LEMMA HasNextStep ==
  ASSUME TypeOK, AtRest, HasNext, [Next]_vars
  PROVE  HasNext'
<1> SUFFICES ASSUME NEW d \in Docs, pc'[d] \in {"advance", "update", "insert"}
             PROVE  cursor' < N
  BY DEF HasNext
<1>1. CASE cursor' = cursor /\ pc'[d] = pc[d]
  BY <1>1 DEF HasNext
<1>2. CASE Loop \/ Crash
  <2>1. ~(TakeBatch \/ EndBatch \/ Crash)
    BY DEF TakeBatch, EndBatch, Crash
  <2>2. pc' = pc /\ mode # "batch"
    BY <1>2, <2>1 DEF Loop, ResetRunning, NextStage
  <2> QED  BY <2>2 DEF AtRest
<1>3. ASSUME NEW e \in Docs \ {d}, Task(e)
      PROVE  cursor' < N
  BY <1>1, <1>3, TaskMoves
<1>4. CASE Task(d)
  <2>1. MarkDone(d) \/ Advance(d)
    BY <1>4 DEF Task, Goto, Fetch, MarkRunning, ParkForContext, SkipByType, NoInput,
         PassThrough, CallModel, Answered, Fails, CheckStopped, Reread, SaveRun,
         WriteTitle, ParkForReview, MarkDone, Advance, AdvanceUpdate,
         AdvanceInsert, CountFailure, Requeue, SaveErrorRun, GiveUp, Block, TypeOK
  <2>2. cursor' = cursor /\ cursor \in 1..N
    BY <2>1 DEF MarkDone, Advance, TypeOK, Stages
  <2>3. pc[d] = "done" => cursor # N
    BY <2>1 DEF MarkDone, Advance, Goto, TypeOK
  <2>4. pc[d] \in {"done", "advance"}
    BY <2>1 DEF MarkDone, Advance, Goto
  <2> QED  BY <2>2, <2>3, <2>4, StagesAssumption DEF HasNext
<1>5. ASSUME NEW e \in Docs, Upload(e)
      PROVE  cursor' < N
  BY <1>1, <1>5 DEF Upload, worker
<1>6. ASSUME NEW c \in Clients, User(c) \/ Handle(c)
      PROVE  cursor' < N
  BY <1>1, <1>6, HandlersLeaveWorker
<1> QED  BY <1>1, <1>2, <1>3, <1>4, <1>5, <1>6 DEF Next, vars, worker

(* Only jobs that exist are given an output.                                *)
LEMMA NoneWithoutJobStep ==
  ASSUME OutputInv, [Next]_vars
  PROVE  NoneWithoutJob'
<1> USE DEF OutputInv, TypeInv
<1> SUFFICES ASSUME NEW d \in Docs, NEW s \in Stages, status'[d][s] = "absent"
             PROVE  ~hasOut'[d][s]
  BY DEF NoneWithoutJob
<1>1. status[d][s] = "absent" /\ ~hasOut[d][s]
  BY JobsGrow DEF Grows, NoneWithoutJob
<1>2. CASE hasOut' = hasOut
  BY <1>1, <1>2
<1>3. ASSUME NEW e \in Docs, Task(e)
      PROVE  ~hasOut'[d][s]
  <2>1. CASE SaveRun(e)
    <3>1. d # e \/ s # cursor
      BY <1>1, <1>3, TaskMoves DEF Existing, GoroutinesExist
    <3> QED  BY <1>1, <2>1, <3>1, SaveRunMakes
  <2>2. CASE \E t : hasOut' = [hasOut EXCEPT ![e][t] = FALSE]
    BY <1>1, <2>2 DEF TypeOK
  <2> QED  BY <1>2, <1>3, <2>1, <2>2, TaskMaking DEF TaskMakes
<1>4. ASSUME NEW c \in Clients, User(c) \/ Handle(c)
      PROVE  ~hasOut'[d][s]
  <2>1. CASE WriteEdit(c)
    <3>1. client[c].at = "edit" /\ NewOutput(client[c].doc, client[c].stage, TRUE, TRUE)
      BY <2>1 DEF WriteEdit, At
    <3>2. d # client[c].doc \/ s # client[c].stage
      BY <1>1, <3>1 DEF Existing, RequestsExist
    <3>3. client[c].doc \in Docs /\ client[c].stage \in Stages
      BY DEF TypeOK, Requests
    <3>4. hasOut'[d][s] = hasOut[d][s]
      BY <3>1, <3>2, <3>3 DEF NewOutput, TypeOK
    <3> QED  BY <1>1, <3>4
  <2>2. CASE ApproveInsert(c)
    BY <1>1, <2>2 DEF ApproveInsert, Upsert, TypeOK
  <2> QED  BY <1>2, <1>4, <2>1, <2>2, RequestMaking
<1> QED  BY <1>2, <1>3, <1>4, LoopMakesNothing DEF Next

(* While a goroutine is about to create a job, nothing gives it an output.  *)
LEMMA NothingToWipeStep ==
  ASSUME OutputInv, [Next]_vars
  PROVE  NothingToWipe'
<1> USE DEF OutputInv, TypeInv
<1> SUFFICES ASSUME NEW d \in Docs, pc'[d] = "insert"
             PROVE  ~hasOut'[d][cursor' + 1]
  BY DEF NothingToWipe
<1>1. CASE hasOut' = hasOut /\ cursor' = cursor /\ pc'[d] = pc[d]
  BY <1>1 DEF NothingToWipe
<1>2. CASE Loop \/ Crash
  <2>1. ~(TakeBatch \/ EndBatch \/ Crash)
    BY DEF TakeBatch, EndBatch, Crash
  <2>2. pc' = pc /\ mode # "batch"
    BY <1>2, <2>1 DEF Loop, ResetRunning, NextStage
  <2> QED  BY <2>2 DEF AtRest
<1>3. ASSUME NEW e \in Docs, Upload(e)
      PROVE  ~hasOut'[d][cursor' + 1]
  BY <1>1, <1>3 DEF Upload, worker
<1>4. ASSUME NEW e \in Docs \ {d}, Task(e)
      PROVE  ~hasOut'[d][cursor' + 1]
  <2>1. cursor' = cursor /\ pc'[d] = pc[d]
    BY <1>4, TaskMoves
  <2>2. hasOut'[d] = hasOut[d] \/ SaveRun(e)
    <3>1. CASE \E t : hasOut' = [hasOut EXCEPT ![e][t] = FALSE]
      BY <3>1 DEF TypeOK
    <3> QED  BY <1>4, <3>1, TaskMaking DEF TaskMakes
  <2>3. CASE SaveRun(e)
    BY <2>1, <2>3 DEF SaveRun, NewOutput, NothingToWipe, TypeOK
  <2> QED  BY <2>1, <2>2, <2>3 DEF NothingToWipe
<1>5. CASE Task(d)
  <2>1. Advance(d) /\ status[d][cursor + 1] = "absent"
    BY <1>5 DEF Task, Goto, Fetch, MarkRunning, ParkForContext, SkipByType, NoInput,
         PassThrough, CallModel, Answered, Fails, CheckStopped, Reread, SaveRun,
         WriteTitle, ParkForReview, MarkDone, Advance, AdvanceUpdate,
         AdvanceInsert, CountFailure, Requeue, SaveErrorRun, GiveUp, Block, TypeOK
  <2>2. cursor + 1 \in Stages
    BY <2>1, StagesAssumption DEF Advance, Goto, HasNext, Stages, TypeOK
  <2> QED  BY <2>1, <2>2 DEF Advance, database, NoneWithoutJob
<1>6. ASSUME NEW c \in Clients, User(c) \/ Handle(c)
      PROVE  ~hasOut'[d][cursor' + 1]
  <2>1. cursor' = cursor /\ pc'[d] = pc[d]
    BY <1>6, HandlersLeaveWorker
  <2>2. ~hasOut[d][cursor + 1]
    BY <2>1 DEF NothingToWipe
  <2>3. CASE WriteEdit(c)
    <3> DEFINE r == client[c]
    <3>1. r.at = "edit" /\ hasOut' = [hasOut EXCEPT ![r.doc][r.stage] = TRUE]
      BY <2>3 DEF WriteEdit, At, NewOutput
    <3>2. r.doc # d \/ r.stage # cursor + 1
      BY <2>1, <3>1 DEF EditsAreOfOutputs
    <3>3. r.doc \in Docs /\ r.stage \in Stages
      BY DEF TypeOK, Requests
    <3> HIDE DEF r
    <3> QED  BY <2>1, <2>2, <3>1, <3>2, <3>3 DEF TypeOK
  <2>4. CASE ApproveInsert(c)
    BY <2>1, <2>2, <2>4 DEF ApproveInsert, Upsert, TypeOK
  <2> QED  BY <1>6, <2>1, <2>2, <2>3, <2>4, RequestMaking
<1> QED  BY <1>1, <1>2, <1>3, <1>4, <1>5, <1>6 DEF Next, vars, database, worker

(* An edit begins about an output, which the job a goroutine is about to    *)
(* create has not.                                                          *)
LEMMA EditsAreOfOutputsStep ==
  ASSUME OutputInv, [Next]_vars
  PROVE  EditsAreOfOutputs'
<1> USE DEF OutputInv, TypeInv
<1> SUFFICES ASSUME NEW b \in Clients, client'[b].at = "edit",
                    pc'[client'[b].doc] = "insert", client'[b].stage = cursor' + 1
             PROVE  FALSE
  BY DEF EditsAreOfOutputs
<1> DEFINE r == client[b]
<1>1. r.doc \in Docs /\ r.stage \in Stages
  BY DEF TypeOK, Requests
<1>2. CASE client' = client /\ cursor' = cursor /\ pc' = pc
  BY <1>2 DEF EditsAreOfOutputs
<1>3. CASE Loop \/ Crash
  <2>1. ~Crash
    BY DEF Crash, Idle
  <2>2. client' = client
    BY <1>3, <2>1, WorkerLeavesRequests
  <2>3. ~(TakeBatch \/ EndBatch)
    BY <1>1, <2>2 DEF TakeBatch, EndBatch
  <2>4. pc' = pc /\ mode # "batch"
    BY <1>3, <2>1, <2>3 DEF Loop, ResetRunning, NextStage
  <2> QED  BY <1>1, <2>2, <2>4 DEF AtRest
<1>4. ASSUME NEW e \in Docs, Upload(e)
      PROVE  FALSE
  BY <1>2, <1>4 DEF Upload, worker
<1>5. ASSUME NEW e \in Docs, Task(e)
      PROVE  FALSE
  <2>1. client' = client /\ cursor' = cursor
    BY <1>5, WorkerLeavesRequests, TaskMoves
  <2>2. e = r.doc
    BY <1>1, <1>5, <2>1, TaskMoves DEF EditsAreOfOutputs
  <2>3. Advance(e) /\ status[e][cursor + 1] = "absent"
    BY <1>1, <1>5, <2>1, <2>2 DEF Task, Goto, Fetch, MarkRunning, ParkForContext,
         SkipByType, NoInput,
         PassThrough, CallModel, Answered, Fails, CheckStopped, Reread, SaveRun,
         WriteTitle, ParkForReview, MarkDone, Advance, AdvanceUpdate,
         AdvanceInsert, CountFailure, Requeue, SaveErrorRun, GiveUp, Block, TypeOK
  <2>4. status[r.doc][r.stage] # "absent"
    BY <2>1 DEF Existing, RequestsExist
  <2> QED  BY <2>1, <2>2, <2>3, <2>4
<1>6. ASSUME NEW c \in Clients, User(c) \/ Handle(c)
      PROVE  FALSE
  <2>1. cursor' = cursor /\ pc' = pc
    BY <1>6, HandlersLeaveWorker
  <2>2. client'[b] # client[b]
    BY <2>1 DEF EditsAreOfOutputs
  <2>3. c = b
    <3>1. \A a \in Clients \ {c} : client'[a] = client[a]
      BY <1>6
      DEF User, Handle, PutStatus, PatchContext, Edit, Serve, WriteStatus,
          Approve, ApproveUpdate, ApproveInsert, Cascade, ListWaiting, Nudge,
          WriteEdit, At, TypeOK
    <3> QED  BY <2>2, <3>1
  <2>4. ~Handle(b)
    <3>1. ASSUME NEW from, NEW to \in ClientSteps \ {"edit"}, At(b, from, to)
          PROVE  FALSE
      <4>1. [client[b] EXCEPT !.at = to].at = to /\ Idle.at = "idle"
        BY DEF TypeOK, Requests, Idle
      <4>2. client'[b] = Idle \/ client'[b] = [client[b] EXCEPT !.at = to]
        BY <3>1 DEF At, TypeOK
      <4> QED  BY <3>1, <4>1, <4>2
    <3>2. ~(WriteStatus(b) \/ Approve(b) \/ ApproveUpdate(b) \/ ApproveInsert(b)
              \/ Cascade(b) \/ WriteEdit(b))
      BY <3>1 DEF WriteStatus, Approve, ApproveUpdate, ApproveInsert, Cascade, WriteEdit,
                  ClientSteps
    <3>3. ~ListWaiting(b)
      <4>1. [r EXCEPT !.at = "nudge", !.todo = Waiting(r.doc)].at = "nudge" /\ Idle.at = "idle"
        BY DEF TypeOK, Requests, Idle
      <4>2. ListWaiting(b) =>
              client'[b] = IF Waiting(r.doc) = {} THEN Idle
                           ELSE [r EXCEPT !.at = "nudge", !.todo = Waiting(r.doc)]
        BY DEF ListWaiting, TypeOK
      <4> QED  BY <4>1, <4>2
    <3>4. ~Nudge(b)
      <4>1. ASSUME Nudge(b)
            PROVE  FALSE
        <5>1. client[b].at = "nudge"
          BY <4>1 DEF Nudge
        <5>2. PICK s \in r.todo :
                client'[b] = IF r.todo = {s} THEN Idle ELSE [r EXCEPT !.todo = r.todo \ {s}]
          BY <4>1 DEF Nudge, TypeOK
        <5>3. [r EXCEPT !.todo = r.todo \ {s}].at = r.at /\ Idle.at = "idle"
          BY DEF TypeOK, Requests, Idle
        <5> QED  BY <5>1, <5>2, <5>3
      <4> QED  BY <4>1
    <3> QED  BY <3>2, <3>3, <3>4 DEF Handle
  <2>5. PICK d \in Docs, s \in Stages : Edit(b, d, s)
    BY <1>6, <2>3, <2>4 DEF User, PutStatus, PatchContext, Serve, Request, TypeOK
  <2>6. client'[b].doc = d /\ client'[b].stage = s /\ hasOut[d][s]
    BY <2>5 DEF Edit, Serve, Request, TypeOK
  <2> QED  BY <2>1, <2>6 DEF NothingToWipe
<1> QED  BY <1>2, <1>3, <1>4, <1>5, <1>6 DEF Next, vars, worker

(* These facts hold at first and are preserved.                             *)
LEMMA OutputInvariant == Spec => []OutputInv
<1>1. Init => OutputInv
  <2>1. Init => AtRest /\ HasNext /\ NoneWithoutJob /\ NothingToWipe
    BY DEF Init, AtRest, HasNext, NoneWithoutJob, NothingToWipe, PerJob
  <2>2. Init => Existing /\ EditsAreOfOutputs
    BY DEF Init, Existing, GoroutinesExist, RequestsExist, EditsAreOfOutputs, Idle
  <2> QED  BY <2>1, <2>2, TypeInit DEF OutputInv
<1>2. OutputInv /\ [Next]_vars => OutputInv'
  BY TypeStep, AtRestStep, HasNextStep, GoroutinesExistStep, RequestsExistStep,
     NoneWithoutJobStep, NothingToWipeStep, EditsAreOfOutputsStep
  DEF OutputInv, TypeInv, Existing
<1> QED  BY <1>1, <1>2, PTL DEF Spec

(* An output is lost only to a later run of its own stage, or to an         *)
(* approval: the worker's advance never wipes one (worker.go:1118), for     *)
(* every pipeline, every number of documents, requests and crashes.         *)
THEOREM OutputsAreKept == Spec => OutputsKept
<1> DEFINE Lost(d, s) == hasOut[d][s] /\ ~hasOut'[d][s]
           Excused(d, s) ==
             \/ pc[d] \in {"save", "exhaust"} /\ s = cursor
             \/ \E c \in Clients : client[c].at = "insert" /\ client'[c].at = "idle"
<1>1. OutputInv /\ [Next]_vars =>
        \A d \in Docs, s \in Stages : Lost(d, s) => Excused(d, s)
  <2> SUFFICES ASSUME OutputInv, [Next]_vars, NEW d \in Docs, NEW s \in Stages, Lost(d, s)
               PROVE  Excused(d, s)
    OBVIOUS
  <2> USE DEF OutputInv, TypeInv
  <2>1. CASE hasOut' = hasOut
    BY <2>1
  <2>2. ASSUME NEW e \in Docs, Task(e)
        PROVE  Excused(d, s)
    <3>1. CASE SaveRun(e)
      BY <3>1, SaveRunMakes
    <3>2. CASE pc[e] = "exhaust" /\ hasOut' = [hasOut EXCEPT ![e][cursor] = FALSE]
      BY <3>2 DEF TypeOK
    <3>3. CASE pc[e] = "insert" /\ hasOut' = [hasOut EXCEPT ![e][cursor + 1] = FALSE]
      BY <3>3 DEF TypeOK, NothingToWipe
    <3> QED  BY <2>1, <2>2, <3>1, <3>2, <3>3, TaskMaking DEF TaskMakes
  <2>3. ASSUME NEW c \in Clients, User(c) \/ Handle(c)
        PROVE  Excused(d, s)
    <3>1. CASE WriteEdit(c)
      BY <3>1 DEF WriteEdit, NewOutput, TypeOK
    <3>2. CASE ApproveInsert(c)
      BY <3>2 DEF ApproveInsert, At, Idle, TypeOK
    <3> QED  BY <2>1, <2>3, <3>1, <3>2, RequestMaking
  <2> QED  BY <2>1, <2>2, <2>3, LoopMakesNothing DEF Next
<1> QED  BY <1>1, OutputInvariant, PTL DEF Spec, OutputsKept

-----------------------------------------------------------------------------
(* At rest, no output is out of date.  An approval may end a job whose      *)
(* input has been made again, and nothing makes the goroutine that has read *)
(* an old text advance after an edit: the users considered here stop,       *)
(* reject, retry and replay jobs and set contexts.                          *)
OnlyReruns == "approve" \notin UserOps /\ "edit" \notin UserOps

(* Then no request is at a statement of an approval or an edit.             *)
Rerunning ==
  \A c \in Clients :
    /\ client[c].at \notin {"edit", "advance", "update", "insert"}
    /\ client[c].at = "write" => client[c].op # "approve"

Unfinished(d, s) == status[d][s] \in {"pending", "running", "waiting", "error"}

Advancing(d) == pc[d] \in {"advance", "update", "insert"}

(* A stage is due: its job is not finished, or is about to be pending.      *)
Due(d, s) == Unfinished(d, s) \/ (s = cursor + 1 /\ Advancing(d))

(* Stages that make their output; the others pass by a file type, and none  *)
(* of them has one.                                                         *)
Generates(d, s) ==
  s \notin SkipType[d] \/ Kind[s] = "embed" \/ (Kind[s] = "vision" /\ PreText[d] = s)

(* A goroutine works on a job that is not finished until it says so itself; *)
WorkedOn(d) == pc[d] \in TaskHolds => Unfinished(d, cursor)

(* the text it works with is its input's output;                            *)
HasRead(d) ==
  pc[d] \in {"generate", "check", "save", "pass"}
    \/ (pc[d] = "reread" /\ Kind[cursor] = "vision") => inputCurrent[d]

(* it generates an output only for a stage that makes one;                  *)
Generated(d) ==
  /\ pc[d] \in {"generate", "check", "save", "pass", "reread"} => Generates(d, cursor)
  /\ \A s \in Stages : hasOut[d][s] => Generates(d, s)

(* and the output it has saved stays up to date until it ends.              *)
JustMade(d) ==
  pc[d] \in {"park", "done", "title"} \/ (pc[d] = "reread" /\ Kind[cursor] # "vision")
    => (hasOut[d][cursor] => fresh[d][cursor])

(* The heart of it: in front of an output that is out of date, or at it, a  *)
(* stage is due.  Whoever finishes that one makes the next one due.         *)
StaleIsDue(d) ==
  \A t \in Stages : hasOut[d][t] /\ ~fresh[d][t] => \E s \in 1..t : Due(d, s)

InOrder(d) == WorkedOn(d) /\ HasRead(d) /\ Generated(d) /\ JustMade(d)

FreshInv ==
  /\ TypeInv /\ AtRest /\ Rerunning
  /\ \A d \in Docs : InOrder(d)
  /\ crashes = 0 => \A d \in Docs : StaleIsDue(d)

(* A goroutine changes nothing of another document.                         *)
LEMMA TaskKeepsOthers ==
  ASSUME TypeOK, AtRest, NEW d \in Docs, Task(d), NEW e \in Docs \ {d}
  PROVE  /\ pc'[e] = pc[e] /\ inputCurrent'[e] = inputCurrent[e]
         /\ \A s \in Stages :
              /\ status'[e][s] = status[e][s]
              /\ hasOut'[e][s] = hasOut[e][s] /\ fresh'[e][s] = fresh[e][s]
<1>1. pc'[e] = pc[e] /\ status'[e] = status[e]
  BY TaskMoves, TaskWritesOwn
<1>2. inputCurrent'[e] = inputCurrent[e]
  BY DEF Task, Fetch, MarkRunning, ParkForContext, SkipByType, NoInput,
         PassThrough, CallModel, Answered, Fails, CheckStopped, Reread, SaveRun,
         WriteTitle, ParkForReview, MarkDone, Advance, AdvanceUpdate,
         AdvanceInsert, CountFailure, Requeue, SaveErrorRun, GiveUp, Block, TypeOK
<1>3. CASE SaveRun(d)
  BY <1>1, <1>2, <1>3, SaveRunMakes
<1>4. CASE \E t : hasOut' = [hasOut EXCEPT ![d][t] = FALSE] /\ fresh' = fresh
  BY <1>1, <1>2, <1>4 DEF TypeOK
<1>5. CASE hasOut' = hasOut /\ fresh' = fresh
  BY <1>1, <1>2, <1>5
<1> QED  BY <1>3, <1>4, <1>5, TaskMaking DEF TaskMakes

(* Users who only rerun jobs touch no output, and the jobs they write are   *)
(* pending or in error.                                                     *)
LEMMA RequestsRepend ==
  ASSUME OnlyReruns, TypeInv, Rerunning, NEW c \in Clients, User(c) \/ Handle(c)
  PROVE  /\ hasOut' = hasOut /\ fresh' = fresh /\ inputCurrent' = inputCurrent
         /\ \A d \in Docs, s \in Stages :
              status'[d][s] = status[d][s] \/ status'[d][s] \in {"pending", "error"}
<1> USE DEF TypeInv
<1>1. ~WriteEdit(c) /\ ~ApproveInsert(c)
  BY DEF WriteEdit, ApproveInsert, At, Rerunning
<1>2. hasOut' = hasOut /\ fresh' = fresh /\ inputCurrent' = inputCurrent
  BY <1>1, RequestMaking
<1>3. ASSUME NEW e, NEW t, NEW st \in {"pending", "error"}, status' = Set(e, t, st),
             NEW d \in Docs, NEW s \in Stages
      PROVE  status'[d][s] = status[d][s] \/ status'[d][s] \in {"pending", "error"}
  BY <1>3 DEF Set, TypeOK
<1>4. CASE WriteStatus(c)
  <2>1. client[c].op \in DOMAIN Transition /\ client[c].op # "approve"
    BY <1>4 DEF WriteStatus, At, Requested, Rerunning
  <2> DEFINE st == Transition[client[c].op][2]
  <2>2. st \in {"pending", "error"}
    BY <2>1, TransitionTarget
  <2>3. status' = Set(client[c].doc, client[c].stage, st)
    BY <1>4 DEF WriteStatus
  <2> HIDE DEF st
  <2> QED  BY <1>2, <1>3, <2>2, <2>3
<1>5. CASE Cascade(c)
  <2>1. status' = Replayed(client[c].doc, client[c].stage)
    BY <1>5 DEF Cascade
  <2> QED  BY <1>2, <2>1 DEF Replayed, TypeOK
<1>6. CASE ApproveUpdate(c) \/ Nudge(c)
  <2>1. \E e, t : status' = Set(e, t, "pending")
    BY <1>6 DEF ApproveUpdate, Nudge
  <2> QED  BY <1>2, <1>3, <2>1
<1>7. CASE Approve(c) \/ ListWaiting(c) \/ User(c)
  <2>1. status' = status
    BY <1>7 DEF Approve, ListWaiting, User, PutStatus, PatchContext, Edit, database
  <2> QED  BY <1>2, <2>1
<1> QED  BY <1>1, <1>4, <1>5, <1>6, <1>7 DEF Handle

(* What a goroutine may do to the status of its own job: keep it, or leave  *)
(* the job unfinished, unless it marks it done.                             *)
LEMMA TaskKeepsUnfinished ==
  ASSUME TypeOK, AtRest, NEW d \in Docs, Task(d), ~MarkDone(d), Unfinished(d, cursor)
  PROVE  Unfinished(d, cursor)'
<1>1. cursor' = cursor /\ cursor \in Stages
  BY TaskMoves DEF TypeOK
<1>2. CASE status' = status
  BY <1>1, <1>2 DEF Unfinished
<1>3. CASE \E st \in {"pending", "running", "waiting", "error"} : status' = Set(d, cursor, st)
  BY <1>1, <1>3 DEF Set, Unfinished, TypeOK
<1>4. CASE AdvanceUpdate(d) \/ AdvanceInsert(d)
  <2>1. status' = Set(d, cursor + 1, "pending")
    BY <1>4 DEF AdvanceUpdate, AdvanceInsert, Upsert
  <2>2. cursor # cursor + 1
    BY <1>1 DEF Stages
  <2> QED  BY <1>1, <2>1, <2>2 DEF Set, Unfinished, TypeOK
<1>5. CASE Block(d)
  <2>1. cursor \notin Downstream(cursor)
    BY <1>1 DEF Downstream, Stages
  <2>2. status'[d][cursor] = status[d][cursor]
    BY <1>1, <1>5, <2>1 DEF Block, Blocked, Blockable, TypeOK
  <2> QED  BY <1>1, <2>2 DEF Unfinished
<1>6. CASE MarkRunning(d) \/ ParkForContext(d) \/ ParkForReview(d) \/ Requeue(d) \/ GiveUp(d)
  BY <1>3, <1>6 DEF MarkRunning, ParkForContext, ParkForReview, Requeue, GiveUp
<1>7. CASE Fetch(d) \/ SkipByType(d) \/ NoInput(d) \/ PassThrough(d) \/ CallModel(d)
             \/ Answered(d) \/ Fails(d) \/ CheckStopped(d) \/ Reread(d)
             \/ SaveRun(d) \/ WriteTitle(d) \/ SaveErrorRun(d) \/ CountFailure(d)
             \/ Advance(d)
  BY <1>2, <1>7
  DEF Fetch, SkipByType, NoInput, PassThrough, CallModel, Answered, Fails,
      CheckStopped, Reread, SaveRun, WriteTitle, SaveErrorRun, CountFailure,
      Advance, database
<1> QED  BY <1>4, <1>5, <1>6, <1>7 DEF Task

(* A goroutine works in order, step by step.                                *)
LEMMA TaskInOrder ==
  ASSUME TypeOK, AtRest, NEW d \in Docs, Task(d), InOrder(d)
  PROVE  InOrder(d)'
<1> USE DEF InOrder
<1>1. cursor' = cursor /\ cursor \in Stages
  BY TaskMoves DEF TypeOK
<1>2. WorkedOn(d)'
  <2>1. CASE MarkRunning(d)
    BY <1>1, <2>1 DEF MarkRunning, Set, WorkedOn, Unfinished, TypeOK
  <2>2. CASE MarkDone(d)
    BY <1>1, <2>2 DEF MarkDone, Goto, WorkedOn, TaskHolds, TypeOK
  <2>3. ASSUME ~MarkRunning(d), ~MarkDone(d), pc'[d] \in TaskHolds
        PROVE  pc[d] \in TaskHolds
    BY <2>3
    DEF Task, Goto, Fetch, ParkForContext, SkipByType, NoInput,
        PassThrough, CallModel, Answered, Fails, CheckStopped, Reread, SaveRun,
        WriteTitle, ParkForReview, Advance, AdvanceUpdate,
        AdvanceInsert, CountFailure, Requeue, SaveErrorRun, GiveUp, Block, TaskHolds, TypeOK
  <2> QED  BY <2>1, <2>2, <2>3, TaskKeepsUnfinished DEF WorkedOn
<1>3. HasRead(d)'
  <2>1. CASE SkipByType(d) \/ PassThrough(d) \/ CallModel(d)
    BY <2>1 DEF SkipByType, PassThrough, CallModel, HasRead, TypeOK
  <2>2. ASSUME ~SkipByType(d), ~PassThrough(d), ~CallModel(d)
        PROVE  inputCurrent' = inputCurrent
    BY <2>2
    DEF Task, Fetch, MarkRunning, ParkForContext, NoInput, Answered, Fails, CheckStopped,
        Reread, SaveRun, WriteTitle, ParkForReview, MarkDone, Advance, AdvanceUpdate,
        AdvanceInsert, CountFailure, Requeue, SaveErrorRun, GiveUp, Block
  <2>3. CASE Answered(d) \/ CheckStopped(d) \/ Reread(d)
    <3>1. \/ inputCurrent' = inputCurrent /\ inputCurrent[d]
          \/ pc'[d] \notin {"generate", "check", "save", "pass", "reread"}
      BY <2>3 DEF Answered, CheckStopped, Reread, Goto, HasRead, TypeOK
    <3> QED  BY <3>1 DEF HasRead
  <2>4. CASE SaveRun(d)
    BY <1>1, <2>4 DEF SaveRun, Goto, HasRead, TypeOK
  <2>5. CASE ~(SkipByType(d) \/ PassThrough(d) \/ CallModel(d) \/ Answered(d)
                 \/ CheckStopped(d) \/ Reread(d) \/ SaveRun(d))
    <3>1. pc'[d] \notin {"generate", "check", "save", "pass", "reread"}
      BY <2>5
      DEF Task, Goto, Fetch, MarkRunning, ParkForContext, NoInput, Fails,
          WriteTitle, ParkForReview, MarkDone, Advance, AdvanceUpdate,
          AdvanceInsert, CountFailure, Requeue, SaveErrorRun, GiveUp, Block, TypeOK
    <3> QED  BY <3>1 DEF HasRead
  <2> QED  BY <2>1, <2>3, <2>4, <2>5
<1>4. Generated(d)'
  <2>1. ASSUME pc'[d] \in {"generate", "check", "save", "pass", "reread"}
        PROVE  Generates(d, cursor)
    <3>1. CASE SkipByType(d)
      BY <2>1, <3>1 DEF SkipByType, Goto, Generates, TypeOK
    <3>2. CASE PassThrough(d) \/ CallModel(d)
      BY <3>2 DEF PassThrough, CallModel, Processable, Skips, Generates
    <3>3. CASE ~(SkipByType(d) \/ PassThrough(d) \/ CallModel(d))
      <4>1. pc[d] \in {"generate", "check", "save", "pass", "reread"}
        BY <2>1, <3>3
        DEF Task, Goto, Fetch, MarkRunning, ParkForContext, NoInput, Answered, Fails,
            CheckStopped, Reread, SaveRun, WriteTitle, ParkForReview, MarkDone, Advance,
            AdvanceUpdate, AdvanceInsert, CountFailure, Requeue, SaveErrorRun, GiveUp,
            Block, TypeOK
      <4> QED  BY <4>1 DEF Generated
    <3> QED  BY <3>1, <3>2, <3>3
  <2>2. ASSUME NEW s \in Stages, hasOut'[d][s]
        PROVE  Generates(d, s)
    <3>1. CASE SaveRun(d)
      <4>1. s # cursor => hasOut[d][s]
        BY <2>2, <3>1, SaveRunMakes
      <4>2. Generates(d, cursor)
        BY <3>1, SaveRunMakes DEF Generated
      <4> QED  BY <4>1, <4>2 DEF Generated
    <3>2. CASE \E t : hasOut' = [hasOut EXCEPT ![d][t] = FALSE]
      BY <2>2, <3>2 DEF Generated, TypeOK
    <3>3. CASE hasOut' = hasOut
      BY <2>2, <3>3 DEF Generated
    <3> QED  BY <3>1, <3>2, <3>3, TaskMaking DEF TaskMakes
  <2>3. \A s : Generates(d, s)' <=> Generates(d, s)
    BY DEF Generates
  <2> QED  BY <1>1, <2>1, <2>2 DEF Generated, Generates
<1>5. JustMade(d)'
  <2> SUFFICES ASSUME pc'[d] \in {"park", "done", "title"}
                        \/ (pc'[d] = "reread" /\ Kind[cursor] # "vision"),
                      hasOut'[d][cursor]
               PROVE  fresh'[d][cursor]
    BY <1>1 DEF JustMade
  <2>1. CASE SaveRun(d)
    <3>1. inputCurrent[d]
      BY <2>1, SaveRunMakes DEF HasRead
    <3> QED  BY <2>1, <3>1, SaveRunMakes
  <2>2. CASE SkipByType(d)
    <3>1. hasOut' = hasOut
      BY <2>2 DEF SkipByType, database
    <3>2. pc'[d] # "pass" /\ Skips(d)
      BY <2>2 DEF SkipByType
    <3>3. ~(Kind[cursor] = "vision" /\ PreText[d] = cursor)
      BY <2>2, <3>2 DEF SkipByType, Goto, TypeOK
    <3>4. ~Generates(d, cursor)
      BY <3>2, <3>3 DEF Skips, Generates
    <3> QED  BY <1>1, <3>1, <3>4 DEF Generated
  <2>3. CASE Reread(d) \/ WriteTitle(d)
    <3>1. hasOut' = hasOut /\ fresh' = fresh
      BY <2>3 DEF Reread, WriteTitle, database, history
    <3>2. pc[d] = "title" \/ (pc[d] = "reread" /\ Kind[cursor] # "vision")
      BY <2>3 DEF Reread, WriteTitle, Goto, TypeOK
    <3> QED  BY <3>1, <3>2 DEF JustMade
  <2>4. CASE CheckStopped(d)
    BY <2>4 DEF CheckStopped, Goto, TypeOK
  <2>5. CASE ~(SaveRun(d) \/ SkipByType(d) \/ Reread(d) \/ WriteTitle(d) \/ CheckStopped(d))
    BY <2>5
    DEF Task, Goto, Fetch, MarkRunning, ParkForContext, NoInput, PassThrough, CallModel,
        Answered, Fails, ParkForReview, MarkDone, Advance, AdvanceUpdate, AdvanceInsert,
        CountFailure, Requeue, SaveErrorRun, GiveUp, Block, TypeOK
  <2> QED  BY <2>1, <2>2, <2>3, <2>4, <2>5
<1> QED  BY <1>2, <1>3, <1>4, <1>5

(* A goroutine leaves every output that is out of date behind a stage that  *)
(* is due: its own job until it is done, and then the next one.             *)
LEMMA TaskStale ==
  ASSUME TypeOK, AtRest, NEW d \in Docs, Task(d), InOrder(d), StaleIsDue(d)
  PROVE  StaleIsDue(d)'
<1> USE DEF InOrder
<1>1. cursor' = cursor /\ cursor \in Stages /\ cursor \in 1..N
  BY TaskMoves DEF TypeOK, Stages
<1> SUFFICES ASSUME NEW t \in Stages, hasOut'[d][t], ~fresh'[d][t]
             PROVE  \E s \in 1..t : Due(d, s)'
  BY DEF StaleIsDue
<1>2. t \in 1..N /\ 1..t \subseteq Stages
  BY StagesAssumption DEF Stages
<1>3. ASSUME hasOut[d][t], ~fresh[d][t],
             \A s \in Stages : Due(d, s) /\ s <= t => Due(d, s)' \/ \E u \in 1..t : Due(d, u)'
      PROVE  \E s \in 1..t : Due(d, s)'
  <2>1. PICK s \in 1..t : Due(d, s)
    BY <1>3 DEF StaleIsDue
  <2>2. s \in Stages /\ s <= t
    BY <1>2
  <2> QED  BY <1>3, <2>1, <2>2
<1>4. CASE SaveRun(d)
  <2>1. /\ pc[d] \in {"save", "pass"} /\ status' = status
        /\ t # cursor => hasOut'[d][t] = hasOut[d][t]
        /\ fresh'[d][cursor] = inputCurrent[d]
        /\ t # cursor /\ Input[d][t] # cursor => fresh'[d][t] = fresh[d][t]
    BY <1>4, SaveRunMakes
  <2>2. t # cursor
    BY <2>1 DEF HasRead
  <2>3. CASE Input[d][t] = cursor
    <3>1. cursor < t
      BY <2>3, InputAssumption
    <3>2. Unfinished(d, cursor)
      BY <2>1 DEF WorkedOn, TaskHolds
    <3>3. Due(d, cursor)' /\ cursor \in 1..t
      BY <1>1, <1>2, <2>1, <3>1, <3>2 DEF Due, Unfinished
    <3> QED  BY <1>1, <3>3
  <2>4. CASE Input[d][t] # cursor
    <3>1. hasOut[d][t] /\ ~fresh[d][t]
      BY <2>1, <2>2, <2>4
    <3>2. \A s \in Stages : Due(d, s) => Due(d, s)'
      BY <1>1, <2>1 DEF Due, Unfinished, Advancing
    <3> QED  BY <1>3, <3>1, <3>2
  <2> QED  BY <2>3, <2>4
<1>5. CASE ~SaveRun(d)
  <2>1. hasOut[d][t] /\ ~fresh[d][t]
    <3>1. fresh' = fresh
      BY <1>5, TaskMaking DEF TaskMakes
    <3>2. CASE \E u : hasOut' = [hasOut EXCEPT ![d][u] = FALSE]
      BY <3>1, <3>2 DEF TypeOK
    <3>3. CASE hasOut' = hasOut
      BY <3>1, <3>3
    <3> QED  BY <1>5, <3>2, <3>3, TaskMaking DEF TaskMakes
  <2>2. CASE MarkDone(d)
    <3>1. pc[d] = "done" /\ status' = Set(d, cursor, "done")
      BY <2>2 DEF MarkDone, Goto
    <3>2. t # cursor
      <4>1. UNCHANGED <<hasOut, fresh>>
        BY <2>2 DEF MarkDone, history
      <4> QED  BY <2>1, <3>1 DEF JustMade
    <3>3. \A s \in Stages \ {cursor} : Due(d, s) => Due(d, s)'
      BY <1>1, <3>1 DEF Due, Unfinished, Advancing, Set, TypeOK
    <3>4. cursor < t => cursor + 1 \in 1..t /\ Due(d, cursor + 1)'
      <4>1. cursor < t => cursor # N /\ cursor + 1 \in 1..t
        BY <1>1, <1>2, StagesAssumption
      <4>2. cursor # N => pc'[d] = "advance"
        BY <2>2 DEF MarkDone, Goto, TypeOK
      <4> QED  BY <1>1, <4>1, <4>2 DEF Due, Advancing
    <3>5. cursor <= t => cursor < t
      BY <1>1, <1>2, <3>2
    <3> QED  BY <1>1, <1>3, <2>1, <3>3, <3>4, <3>5
  <2>3. CASE AdvanceUpdate(d) \/ AdvanceInsert(d)
    <3>1. status' = Set(d, cursor + 1, "pending")
      BY <2>3 DEF AdvanceUpdate, AdvanceInsert, Upsert
    <3>2. \A s \in Stages : Due(d, s) => Due(d, s)'
      BY <1>1, <3>1 DEF Due, Unfinished, Set, TypeOK
    <3> QED  BY <1>3, <2>1, <3>2
  <2>4. CASE Advance(d)
    <3>1. Advancing(d)' /\ status' = status
      BY <2>4 DEF Advance, Goto, Advancing, database, TypeOK
    <3>2. \A s \in Stages : Due(d, s) => Due(d, s)'
      BY <1>1, <3>1 DEF Due, Unfinished
    <3> QED  BY <1>3, <2>1, <3>2
  <2>5. CASE ~MarkDone(d) /\ ~AdvanceUpdate(d) /\ ~AdvanceInsert(d) /\ ~Advance(d)
    <3>1. ~Advancing(d)
      BY <2>5
      DEF Task, Goto, Fetch, MarkRunning, ParkForContext, SkipByType, NoInput, PassThrough,
          CallModel, Answered, Fails, CheckStopped, Reread, SaveRun, WriteTitle,
          ParkForReview, CountFailure, Requeue, SaveErrorRun, GiveUp, Block, Advancing
    <3>2. \A s \in Stages : Unfinished(d, s) => Unfinished(d, s)'
      <4>1. Unfinished(d, cursor) => Unfinished(d, cursor)'
        BY <2>5, TaskKeepsUnfinished
      <4>2. CASE \E st : status' = Set(d, cursor, st)
        BY <1>1, <4>1, <4>2 DEF Unfinished, Set, TypeOK
      <4>3. CASE status' = Blocked(d, cursor)
        BY <4>3 DEF Blocked, Unfinished, TypeOK
      <4>4. CASE status' = status
        BY <4>4 DEF Unfinished
      <4> QED  BY <3>1, <4>2, <4>3, <4>4, TaskWriting DEF TaskWrites, Advancing
    <3> QED  BY <1>3, <2>1, <3>1, <3>2 DEF Due
  <2> QED  BY <2>2, <2>3, <2>4, <2>5
<1> QED  BY <1>4, <1>5

(* Every step leaves the requests at reruns and the goroutines in order,    *)
(* and makes due what it makes stale.                                       *)
LEMMA RerunningStep ==
  ASSUME OnlyReruns, TypeInv, Rerunning, [Next]_vars
  PROVE  Rerunning'
<1> USE DEF TypeInv
<1> DEFINE Plain(r) == /\ r.at \notin {"edit", "advance", "update", "insert"}
                       /\ r.at = "write" => r.op # "approve"
<1>1. CASE client' = client
  BY <1>1 DEF Rerunning
<1>2. Plain(Idle)
  BY DEF Idle
<1>3. ASSUME NEW c \in Clients, NEW r, Plain(r), client' = [client EXCEPT ![c] = r]
      PROVE  Rerunning'
  BY <1>3 DEF Rerunning, TypeOK
<1>4. ASSUME NEW c \in Clients, Handle(c)
      PROVE  Rerunning'
  <2>1. CASE At(c, "write", IF client[c].op = "replay" THEN "cascade" ELSE "idle")
    <3> DEFINE r == [client[c] EXCEPT !.at = "cascade"]
    <3>1. r.at = "cascade"
      BY DEF TypeOK, Requests
    <3>2. client' = [client EXCEPT ![c] = Idle] \/ client' = [client EXCEPT ![c] = r]
      BY <2>1 DEF At
    <3>3. Plain(r)
      BY <3>1
    <3> HIDE DEF r, Plain
    <3> QED  BY <1>2, <1>3, <3>2, <3>3
  <2>2. CASE WriteStatus(c)
    <3>1. client[c].op # "approve"
      BY <2>2 DEF WriteStatus, At, Rerunning
    <3> QED  BY <2>1, <2>2, <3>1 DEF WriteStatus
  <2>3. CASE Cascade(c)
    BY <1>2, <1>3, <2>3 DEF Cascade, At
  <2>4. CASE ListWaiting(c)
    <3> DEFINE r == [client[c] EXCEPT !.at = "nudge", !.todo = Waiting(client[c].doc)]
    <3>1. r.at = "nudge"
      BY DEF TypeOK, Requests
    <3>2. client' = [client EXCEPT ![c] = Idle] \/ client' = [client EXCEPT ![c] = r]
      BY <2>4 DEF ListWaiting
    <3>3. Plain(r)
      BY <3>1
    <3> HIDE DEF r, Plain
    <3> QED  BY <1>2, <1>3, <3>2, <3>3
  <2>5. CASE Nudge(c)
    <3>1. PICK s \in client[c].todo :
            client' = [client EXCEPT ![c] =
              IF client[c].todo = {s} THEN Idle
              ELSE [client[c] EXCEPT !.todo = client[c].todo \ {s}]]
      BY <2>5 DEF Nudge
    <3> DEFINE r == [client[c] EXCEPT !.todo = client[c].todo \ {s}]
    <3>2. r.at = "nudge"
      BY <2>5 DEF Nudge, TypeOK, Requests
    <3>3. Plain(r) /\ (client' = [client EXCEPT ![c] = Idle] \/ client' = [client EXCEPT ![c] = r])
      BY <3>1, <3>2
    <3> HIDE DEF r, Plain
    <3> QED  BY <1>2, <1>3, <3>3
  <2>6. ~(Approve(c) \/ ApproveUpdate(c) \/ ApproveInsert(c) \/ WriteEdit(c))
    BY DEF Approve, ApproveUpdate, ApproveInsert, WriteEdit, At, Rerunning
  <2> QED  BY <1>4, <2>2, <2>3, <2>4, <2>5, <2>6 DEF Handle
<1>5. ASSUME NEW c \in Clients, User(c)
      PROVE  Rerunning'
  <2>1. ASSUME NEW at \in {"write", "list"}, NEW op \in UserOps, NEW d, NEW s,
               client' = [client EXCEPT ![c] = Request(at, op, d, s)]
        PROVE  Rerunning'
    <3>1. Plain(Request(at, op, d, s))
      BY <2>1 DEF Request, OnlyReruns
    <3> HIDE DEF Plain
    <3> QED  BY <1>3, <2>1, <3>1
  <2>2. ASSUME NEW d \in Docs, NEW s \in Stages, NEW op \in DOMAIN Transition,
               PutStatus(c, d, s, op)
        PROVE  Rerunning'
    <3>1. op \in UserOps /\ client' = [client EXCEPT ![c] = Request("write", op, d, s)]
      BY <2>2 DEF PutStatus, Serve, Request
    <3> QED  BY <2>1, <3>1
  <2>3. ASSUME NEW d \in Docs, NEW op \in Ops, PatchContext(c, d, op)
        PROVE  Rerunning'
    <3>1. op \in UserOps /\ client' = [client EXCEPT ![c] = Request("list", op, d, 1)]
      BY <2>3 DEF PatchContext, Serve, Request
    <3> QED  BY <2>1, <3>1
  <2>4. ASSUME NEW d \in Docs, NEW s \in Stages, Edit(c, d, s)
        PROVE  FALSE
    BY <2>4 DEF Edit, Serve, Request, OnlyReruns
  <2> QED  BY <1>5, <2>2, <2>3, <2>4 DEF User
<1>6. CASE Crash
  BY <1>2, <1>6 DEF Crash, Rerunning
<1> QED  BY <1>1, <1>4, <1>5, <1>6, WorkerLeavesRequests DEF Next, vars

(* Where no goroutine of a document works, all is in order.                 *)
LEMMA FreshStep ==
  ASSUME OnlyReruns, FreshInv, [Next]_vars
  PROVE  /\ \A d \in Docs : InOrder(d)'
         /\ crashes' = 0 => \A d \in Docs : StaleIsDue(d)'
<1> USE DEF FreshInv, TypeInv
<1> DEFINE Goal(d) == InOrder(d)' /\ (crashes' = 0 => StaleIsDue(d)')
<1> SUFFICES ASSUME NEW d \in Docs PROVE Goal(d)
  OBVIOUS
<1>1. ASSUME cursor' = cursor, pc'[d] = pc[d], inputCurrent'[d] = inputCurrent[d],
             crashes' = crashes,
             \A s \in Stages :
               /\ hasOut'[d][s] = hasOut[d][s] /\ fresh'[d][s] = fresh[d][s]
               /\ Unfinished(d, s) => status'[d][s] \in {"pending", "running", "waiting", "error"}
      PROVE  Goal(d)
  <2>1. cursor \in Stages
    BY DEF TypeOK
  <2>2. WorkedOn(d)'
    BY <1>1, <2>1 DEF InOrder, WorkedOn, Unfinished
  <2>3. HasRead(d)'
    BY <1>1, <2>1 DEF InOrder, HasRead
  <2>4. Generated(d)'
    BY <1>1, <2>1 DEF InOrder, Generated, Generates
  <2>5. JustMade(d)'
    BY <1>1, <2>1 DEF InOrder, JustMade
  <2>6. ASSUME crashes' = 0
        PROVE  StaleIsDue(d)'
    <3> SUFFICES ASSUME NEW t \in Stages, hasOut'[d][t], ~fresh'[d][t]
                 PROVE  \E s \in 1..t : Due(d, s)'
      BY DEF StaleIsDue
    <3>1. PICK s \in 1..t : Due(d, s)
      BY <1>1, <2>6 DEF StaleIsDue
    <3>2. s \in Stages
      BY StagesAssumption DEF Stages
    <3>3. Due(d, s)'
      BY <1>1, <3>1, <3>2 DEF Due, Unfinished, Advancing
    <3> QED  BY <3>3
  <2> QED  BY <2>2, <2>3, <2>4, <2>5, <2>6 DEF InOrder
<1>2. ASSUME \A e \in Docs : pc[e] = "none",
             pc'[d] \in {"none", "queued"}, hasOut' = hasOut, fresh' = fresh,
             crashes' = crashes \/ crashes' # 0,
             \A s \in Stages :
               Unfinished(d, s) => status'[d][s] \in {"pending", "running", "waiting", "error"}
      PROVE  Goal(d)
  <2>1. WorkedOn(d)' /\ HasRead(d)' /\ JustMade(d)'
    BY <1>2 DEF WorkedOn, HasRead, JustMade, TaskHolds
  <2>2. Generated(d)'
    BY <1>2 DEF InOrder, Generated, Generates
  <2>3. ASSUME crashes' = 0
        PROVE  StaleIsDue(d)'
    <3> SUFFICES ASSUME NEW t \in Stages, hasOut'[d][t], ~fresh'[d][t]
                 PROVE  \E s \in 1..t : Due(d, s)'
      BY DEF StaleIsDue
    <3>1. PICK s \in 1..t : Due(d, s)
      BY <1>2, <2>3 DEF StaleIsDue
    <3>2. s \in Stages
      BY StagesAssumption DEF Stages
    <3>3. Due(d, s)'
      BY <1>2, <3>1, <3>2 DEF Due, Unfinished, Advancing
    <3> QED  BY <3>3
  <2> QED  BY <2>1, <2>2, <2>3 DEF InOrder
<1>3. CASE ResetRunning
  BY <1>2, <1>3 DEF ResetRunning, AtRest, Unfinished, TypeOK, history, bounds
<1>4. CASE NextStage \/ TakeBatch
  BY <1>2, <1>4 DEF NextStage, TakeBatch, AtRest, Unfinished, TypeOK, database, history, bounds
<1>5. CASE EndBatch
  BY <1>2, <1>5 DEF EndBatch, Unfinished, database, history, bounds
<1>6. ASSUME NEW e \in Docs, Upload(e)
      PROVE  Goal(d)
  <2>1. \A s \in Stages : Unfinished(d, s) => status'[d][s] \in {"pending", "running", "waiting", "error"}
    BY <1>6 DEF Upload, Set, Unfinished, TypeOK
  <2> QED  BY <1>1, <1>6, <2>1 DEF Upload, history, worker, bounds
<1>7. ASSUME NEW e \in Docs \ {d}, Task(e)
      PROVE  Goal(d)
  <2>1. cursor' = cursor /\ crashes' = crashes
    BY <1>7, TaskMoves, TaskWritesOwn
  <2> QED  BY <1>1, <1>7, <2>1, TaskKeepsOthers DEF Unfinished
<1>8. CASE Task(d)
  <2>1. crashes' = crashes
    BY <1>8, TaskWritesOwn
  <2> QED  BY <1>8, <2>1, TaskInOrder, TaskStale
<1>9. ASSUME NEW c \in Clients, User(c) \/ Handle(c)
      PROVE  Goal(d)
  <2>1. cursor' = cursor /\ pc' = pc /\ crashes' = crashes
    BY <1>9, HandlersLeaveWorker
  <2>2. /\ hasOut' = hasOut /\ fresh' = fresh /\ inputCurrent' = inputCurrent
        /\ \A s \in Stages :
             status'[d][s] = status[d][s] \/ status'[d][s] \in {"pending", "error"}
    BY <1>9, RequestsRepend
  <2> QED  BY <1>1, <2>1, <2>2 DEF Unfinished
<1>10. CASE Crash
  <2>1. crashes' # 0 /\ pc'[d] = "none"
    BY <1>10 DEF Crash, TypeOK
  <2>2. WorkedOn(d)' /\ HasRead(d)' /\ JustMade(d)'
    BY <2>1 DEF WorkedOn, HasRead, JustMade, TaskHolds
  <2>3. Generated(d)'
    BY <1>10, <2>1 DEF Crash, InOrder, Generated, Generates, database
  <2> QED  BY <2>1, <2>2, <2>3 DEF InOrder
<1>11. CASE UNCHANGED vars
  BY <1>1, <1>11 DEF vars, database, history, worker, bounds, Unfinished
<1> QED  BY <1>3, <1>4, <1>5, <1>6, <1>7, <1>8, <1>9, <1>10, <1>11 DEF Next, Loop

(* When all is at rest and every job of a document is done, each output was *)
(* made from what its input stage holds now: for every pipeline, every      *)
(* number of documents and of requests that stop, reject, retry or replay,  *)
(* as long as the process lives.                                            *)
THEOREM SettledIsFresh ==
  ASSUME OnlyReruns
  PROVE  Spec => [](crashes = 0 => SettledFresh)
<1>1. Init => FreshInv
  <2> SUFFICES ASSUME Init PROVE FreshInv
    OBVIOUS
  <2>1. AtRest /\ Rerunning
    BY DEF Init, AtRest, Rerunning, Idle
  <2>2. ASSUME NEW d \in Docs
        PROVE  InOrder(d) /\ StaleIsDue(d)
    BY DEF Init, InOrder, WorkedOn, HasRead, Generated, JustMade, StaleIsDue, PerJob, TaskHolds
  <2> QED  BY <2>1, <2>2, TypeInit DEF FreshInv
<1>2. FreshInv /\ [Next]_vars => FreshInv'
  BY TypeStep, AtRestStep, RerunningStep, FreshStep DEF FreshInv, TypeInv
<1>3. FreshInv => (crashes = 0 => SettledFresh)
  <2> SUFFICES ASSUME FreshInv, crashes = 0, Quiet, NEW d \in Docs,
                      \A s \in Stages : status[d][s] \in {"absent", "done"},
                      NEW t \in Stages, hasOut[d][t], ~fresh[d][t]
               PROVE  FALSE
    BY DEF SettledFresh
  <2>1. PICK s \in 1..t : Due(d, s)
    BY DEF FreshInv, StaleIsDue
  <2>2. s \in Stages
    BY StagesAssumption DEF Stages
  <2>3. pc[d] = "none"
    BY DEF FreshInv, AtRest, Quiet
  <2> QED  BY <2>1, <2>2, <2>3 DEF Due, Unfinished, Advancing
<1> QED  BY <1>1, <1>2, <1>3, PTL DEF Spec
=============================================================================
