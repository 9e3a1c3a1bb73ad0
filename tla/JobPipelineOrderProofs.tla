----------------------- MODULE JobPipelineOrderProofs -----------------------
(* Further proofs about JobPipeline: the order in which a document's jobs   *)
(* come to be, and what a failed stage keeps from running.                  *)
EXTENDS JobPipelineProofs

-----------------------------------------------------------------------------
(* Which statuses a step writes.                                            *)

(* A status write deletes no job and creates at most the one it writes.     *)
LEMMA SetCreates ==
  ASSUME TypeOK, NEW e \in Docs, NEW t, NEW st, st # "absent", status' = Set(e, t, st),
         NEW d \in Docs, NEW s \in Stages
  PROVE  /\ status[d][s] # "absent" => status'[d][s] # "absent"
         /\ status[d][s] = "absent" /\ status'[d][s] # "absent" => d = e /\ s = t
BY DEF Set, TypeOK

(* A status write changes no other job.                                     *)
LEMMA SetOther ==
  ASSUME TypeOK, NEW e \in Docs, NEW t, NEW st, status' = Set(e, t, st),
         NEW d \in Docs, NEW s \in Stages, d # e \/ s # t
  PROVE  status'[d][s] = status[d][s]
BY DEF Set, TypeOK

(* What a goroutine may write: a status of its own job; pending, when it    *)
(* advances, to the next; or what CascadeBlock writes.                      *)
TaskWrites(d) ==
  \/ status' = status
  \/ pc[d] # "block" /\ \E st \in Statuses \ {"absent"} : status' = Set(d, cursor, st)
  \/ pc[d] \in {"update", "insert"} /\ status' = Set(d, cursor + 1, "pending")
  \/ pc[d] = "block" /\ status' = Blocked(d, cursor)

(* A step of a goroutine writes no more than that.                          *)
LEMMA TaskWriting ==
  ASSUME NEW d \in Docs, Task(d)
  PROVE  TaskWrites(d)
<1>1. CASE MarkRunning(d) \/ ParkForContext(d) \/ ParkForReview(d) \/ MarkDone(d)
             \/ Requeue(d) \/ GiveUp(d)
  BY <1>1 DEF MarkRunning, ParkForContext, ParkForReview, MarkDone, Requeue, GiveUp,
              Goto, TaskWrites, Statuses
<1>2. CASE AdvanceUpdate(d) \/ AdvanceInsert(d)
  BY <1>2 DEF AdvanceUpdate, AdvanceInsert, Upsert, Goto, TaskWrites
<1>3. CASE Block(d)
  BY <1>3 DEF Block, Goto, TaskWrites
<1>4. CASE Fetch(d) \/ SkipByType(d) \/ NoInput(d) \/ PassThrough(d) \/ CallModel(d)
             \/ Answered(d) \/ Fails(d) \/ CheckStopped(d) \/ Reread(d)
             \/ SaveRun(d) \/ WriteTitle(d) \/ SaveErrorRun(d) \/ CountFailure(d)
             \/ Advance(d)
  BY <1>4
  DEF Fetch, SkipByType, NoInput, PassThrough, CallModel, Answered, Fails,
      CheckStopped, Reread, SaveRun, WriteTitle, SaveErrorRun, CountFailure,
      Advance, TaskWrites, database
<1> QED  BY <1>1, <1>2, <1>3, <1>4 DEF Task

(* What a request may write: a status of its own job, pending to the next   *)
(* one or to a job it found waiting, or what CascadeReplay writes; every    *)
(* one of these is a user's write.                                          *)
RequestWrites(c) ==
  LET r == client[c] IN
  \/ status' = status /\ held' = held
  \/ /\ held' = [held EXCEPT ![r.doc] = [s \in Stages |-> FALSE]]
     /\ \/ /\ r.at = "write"
           /\ \E st \in Statuses \ {"absent"} : status' = Set(r.doc, r.stage, st)
        \/ r.at \in {"update", "insert"} /\ status' = Set(r.doc, r.stage + 1, "pending")
        \/ \E s \in r.todo : status' = Set(r.doc, s, "pending")
        \/ status' = Replayed(r.doc, r.stage)

(* A step of a request writes no more than that.                            *)
LEMMA RequestWriting ==
  ASSUME Requested, NEW c \in Clients, User(c) \/ Handle(c)
  PROVE  RequestWrites(c)
<1>1. CASE WriteStatus(c)
  <2>1. client[c].at = "write" /\ client[c].op \in DOMAIN Transition
    BY <1>1 DEF WriteStatus, At, Requested
  <2> DEFINE st == Transition[client[c].op][2]
  <2>2. st \in Statuses \ {"absent"}
    BY <2>1, TransitionTarget DEF Statuses
  <2>3. status' = Set(client[c].doc, client[c].stage, st)
    BY <1>1 DEF WriteStatus
  <2> HIDE DEF st
  <2> QED  BY <1>1, <2>1, <2>2, <2>3 DEF WriteStatus, Touch, RequestWrites
<1>2. CASE ApproveUpdate(c) \/ ApproveInsert(c)
  BY <1>2 DEF ApproveUpdate, ApproveInsert, Upsert, At, Touch, RequestWrites
<1>3. CASE Cascade(c)
  BY <1>3 DEF Cascade, Touch, RequestWrites
<1>4. CASE Nudge(c)
  BY <1>4 DEF Nudge, Touch, RequestWrites
<1>5. CASE Approve(c) \/ ListWaiting(c) \/ WriteEdit(c) \/ User(c)
  BY <1>5 DEF Approve, ListWaiting, WriteEdit, User, PutStatus, PatchContext, Edit,
              database, history, RequestWrites
<1> QED  BY <1>1, <1>2, <1>3, <1>4, <1>5 DEF Handle

-----------------------------------------------------------------------------
(* A document's jobs have no gap.                                           *)

(* A goroutine and a request are about jobs that exist.                     *)
GoroutinesExist == \A d \in Docs : pc[d] # "none" => status[d][cursor] # "absent"

RequestsExist ==
  \A c \in Clients :
    /\ client[c].at \notin {"idle", "list", "nudge"} =>
         status[client[c].doc][client[c].stage] # "absent"
    /\ \A s \in client[c].todo : status[client[c].doc][s] # "absent"

Existing == GoroutinesExist /\ RequestsExist

(* A job that begins is the first of its document, or has a predecessor,    *)
(* and a job once created stays.                                            *)
Grows(d, s) ==
  /\ status[d][s] # "absent" => status'[d][s] # "absent"
  /\ status[d][s] = "absent" /\ status'[d][s] # "absent"
       => FirstApplicable(d, s) \/ (s > 1 /\ status[d][s - 1] # "absent")

(* Pending written to the job after one that exists.                        *)
LEMMA NextGrows ==
  ASSUME TypeOK, NEW e \in Docs, NEW t \in Stages, status[e][t] # "absent",
         status' = Set(e, t + 1, "pending"), NEW d \in Docs, NEW s \in Stages
  PROVE  Grows(d, s)
<1>1. status[d][s] = "absent" /\ status'[d][s] # "absent" => d = e /\ s = t + 1
  BY SetCreates
<1>2. s = t + 1 => s > 1 /\ s - 1 = t
  BY StagesAssumption DEF Stages
<1> QED  BY SetCreates, <1>1, <1>2 DEF Grows

(* No step deletes a job or creates one in front of which one is missing.   *)
LEMMA JobsGrow ==
  ASSUME TypeInv, AtRest, Existing, [Next]_vars, NEW d \in Docs, NEW s \in Stages
  PROVE  Grows(d, s)
<1> USE DEF TypeInv
<1>1. CASE status' = status
  BY <1>1 DEF Grows
<1>2. ASSUME NEW e \in Docs, NEW t \in Stages, NEW st, st # "absent",
             status[e][t] # "absent", status' = Set(e, t, st)
      PROVE  Grows(d, s)
  BY <1>2, SetCreates DEF Grows
<1>3. CASE ResetRunning
  BY <1>3 DEF ResetRunning, Grows, TypeOK
<1>4. ASSUME NEW e \in Docs, Upload(e)
      PROVE  Grows(d, s)
  <2>1. PICK t \in Stages : FirstApplicable(e, t) /\ status' = Set(e, t, "pending")
    BY <1>4 DEF Upload
  <2> QED  BY <2>1, SetCreates DEF Grows
<1>5. ASSUME NEW e \in Docs, Task(e)
      PROVE  Grows(d, s)
  <2>1. status[e][cursor] # "absent" /\ cursor \in Stages
    BY <1>5, TaskMoves DEF Existing, GoroutinesExist, TypeOK
  <2>2. CASE status' = Set(e, cursor + 1, "pending")
    BY <2>1, <2>2, NextGrows
  <2>3. CASE status' = Blocked(e, cursor)
    BY <2>3 DEF Blocked, Blockable, Grows, TypeOK
  <2> QED  BY <1>1, <1>2, <1>5, <2>1, <2>2, <2>3, TaskWriting DEF TaskWrites
<1>6. ASSUME NEW c \in Clients, User(c) \/ Handle(c)
      PROVE  Grows(d, s)
  <2> DEFINE r == client[c]
  <2>1. r.doc \in Docs /\ r.stage \in Stages /\ r.todo \in SUBSET Stages
    BY DEF TypeOK, Requests
  <2>2. /\ r.at \in {"write", "update", "insert"} => status[r.doc][r.stage] # "absent"
        /\ \A t \in r.todo : status[r.doc][t] # "absent"
    BY DEF Existing, RequestsExist
  <2>3. CASE r.at = "write" /\ \E st \in Statuses \ {"absent"} :
               status' = Set(r.doc, r.stage, st)
    BY <1>2, <2>1, <2>2, <2>3
  <2>4. CASE r.at \in {"update", "insert"} /\ status' = Set(r.doc, r.stage + 1, "pending")
    BY <2>1, <2>2, <2>4, NextGrows
  <2>5. CASE \E t \in r.todo : status' = Set(r.doc, t, "pending")
    BY <1>2, <2>1, <2>2, <2>5
  <2>6. CASE status' = Replayed(r.doc, r.stage)
    BY <2>6 DEF Replayed, Grows, TypeOK
  <2> QED  BY <1>1, <1>6, <2>3, <2>4, <2>5, <2>6, RequestWriting DEF RequestWrites
<1>7. CASE NextStage \/ TakeBatch \/ EndBatch \/ Crash \/ UNCHANGED vars
  BY <1>1, <1>7 DEF NextStage, TakeBatch, EndBatch, Crash, vars, database
<1> QED  BY <1>3, <1>4, <1>5, <1>6, <1>7 DEF Next, Loop

(* Batches are made of jobs that exist, and jobs are not deleted.           *)
LEMMA GoroutinesExistStep ==
  ASSUME TypeInv, AtRest, Existing, [Next]_vars
  PROVE  GoroutinesExist'
<1> USE DEF TypeInv
<1>1. \A d \in Docs, s \in Stages : status[d][s] # "absent" => status'[d][s] # "absent"
  BY JobsGrow DEF Grows
<1>2. CASE cursor' = cursor /\ \A d \in Docs : pc'[d] # "none" => pc[d] # "none"
  BY <1>1, <1>2 DEF Existing, GoroutinesExist, TypeOK
<1>3. CASE ResetRunning
  BY <1>2, <1>3 DEF ResetRunning
<1>4. CASE NextStage
  BY <1>4 DEF NextStage, AtRest, GoroutinesExist
<1>5. CASE TakeBatch
  BY <1>5 DEF TakeBatch, Pending, GoroutinesExist, database, TypeOK
<1>6. CASE EndBatch
  BY <1>6 DEF EndBatch, GoroutinesExist
<1>7. ASSUME NEW d \in Docs, Upload(d)
      PROVE  GoroutinesExist'
  BY <1>2, <1>7 DEF Upload, worker
<1>8. ASSUME NEW d \in Docs, Task(d)
      PROVE  GoroutinesExist'
  BY <1>2, <1>8, TaskMoves
<1>9. ASSUME NEW c \in Clients, User(c) \/ Handle(c)
      PROVE  GoroutinesExist'
  BY <1>2, <1>9, HandlersLeaveWorker
<1>10. CASE Crash
  BY <1>10 DEF Crash, GoroutinesExist
<1>11. CASE UNCHANGED vars
  BY <1>2, <1>11 DEF vars, worker
<1> QED  BY <1>3, <1>4, <1>5, <1>6, <1>7, <1>8, <1>9, <1>10, <1>11 DEF Next, Loop

(* A request begins about a job it has read, and goes on about the same.    *)
LEMMA RequestsExistStep ==
  ASSUME TypeInv, AtRest, Existing, [Next]_vars
  PROVE  RequestsExist'
<1> USE DEF TypeInv
<1>1. \A d \in Docs, s \in Stages : status[d][s] # "absent" => status'[d][s] # "absent"
  BY JobsGrow DEF Grows
<1>2. \A c \in Clients :
        /\ client[c].doc \in Docs /\ client[c].stage \in Stages
        /\ client[c].todo \in SUBSET Stages
  BY DEF TypeOK, Requests
<1> DEFINE Exists(r) == /\ r.at \notin {"idle", "list", "nudge"} =>
                             status'[r.doc][r.stage] # "absent"
                        /\ \A s \in r.todo : status'[r.doc][s] # "absent"
<1>3. ASSUME NEW b \in Clients PROVE Exists(client[b])
  BY <1>1, <1>2 DEF Existing, RequestsExist
<1>4. CASE UNCHANGED client
  BY <1>3, <1>4 DEF RequestsExist
<1>5. ASSUME NEW c \in Clients, NEW r, Exists(r), client' = [client EXCEPT ![c] = r]
      PROVE  RequestsExist'
  BY <1>3, <1>5 DEF RequestsExist, TypeOK
<1>6. Exists(Idle)
  BY DEF Idle
<1>7. ASSUME NEW c \in Clients, NEW from \in ClientSteps \ {"idle", "list", "nudge"},
             NEW to \in ClientSteps, At(c, from, to)
      PROVE  RequestsExist'
  <2> DEFINE r == [client[c] EXCEPT !.at = to]
  <2>1. client[c].at = from
    BY <1>7 DEF At
  <2>2. r.doc = client[c].doc /\ r.stage = client[c].stage /\ r.todo = client[c].todo
    BY DEF TypeOK, Requests
  <2>3. Exists(r)
    BY <1>3, <2>1, <2>2
  <2>4. client' = [client EXCEPT ![c] = r] \/ client' = [client EXCEPT ![c] = Idle]
    BY <1>7 DEF At
  <2> HIDE DEF r, Exists
  <2> QED  BY <1>5, <1>6, <2>3, <2>4
<1>8. ASSUME NEW c \in Clients, Handle(c)
      PROVE  RequestsExist'
  <2>1. CASE WriteStatus(c)
    BY <1>7, <2>1 DEF WriteStatus, ClientSteps
  <2>2. CASE Approve(c)
    BY <1>7, <2>2 DEF Approve, ClientSteps
  <2>3. CASE ApproveUpdate(c) \/ ApproveInsert(c) \/ Cascade(c) \/ WriteEdit(c)
    BY <1>7, <2>3 DEF ApproveUpdate, ApproveInsert, Cascade, WriteEdit, ClientSteps
  <2>4. CASE ListWaiting(c)
    <3> DEFINE r == [client[c] EXCEPT !.at = "nudge", !.todo = Waiting(client[c].doc)]
    <3>1. /\ r.at = "nudge" /\ r.doc = client[c].doc /\ r.todo = Waiting(client[c].doc)
      BY DEF TypeOK, Requests
    <3>2. Exists(r)
      BY <1>1, <1>2, <3>1 DEF Waiting
    <3>3. client' = [client EXCEPT ![c] = r] \/ client' = [client EXCEPT ![c] = Idle]
      BY <2>4 DEF ListWaiting
    <3> HIDE DEF r, Exists
    <3> QED  BY <1>5, <1>6, <3>2, <3>3
  <2>5. CASE Nudge(c)
    <3>1. PICK s \in client[c].todo :
            client' = [client EXCEPT ![c] =
              IF client[c].todo = {s} THEN Idle
              ELSE [client[c] EXCEPT !.todo = client[c].todo \ {s}]]
      BY <2>5 DEF Nudge
    <3> DEFINE r == [client[c] EXCEPT !.todo = client[c].todo \ {s}]
    <3>2. /\ r.at = client[c].at /\ r.doc = client[c].doc /\ r.stage = client[c].stage
          /\ r.todo = client[c].todo \ {s}
      BY DEF TypeOK, Requests
    <3>3. Exists(r)
      BY <1>3, <3>2
    <3>4. client' = [client EXCEPT ![c] = r] \/ client' = [client EXCEPT ![c] = Idle]
      BY <3>1
    <3> HIDE DEF r, Exists
    <3> QED  BY <1>5, <1>6, <3>3, <3>4
  <2> QED  BY <1>8, <2>1, <2>2, <2>3, <2>4, <2>5 DEF Handle
<1>9. ASSUME NEW c \in Clients, User(c)
      PROVE  RequestsExist'
  <2>1. ASSUME NEW at \in {"write", "edit", "list"}, NEW op, NEW e \in Docs,
               NEW s \in Stages, Serve(c, Request(at, op, e, s)),
               at = "list" \/ status[e][s] # "absent"
        PROVE  RequestsExist'
    <3>1. client' = [client EXCEPT ![c] = Request(at, op, e, s)]
      BY <2>1 DEF Serve
    <3>2. Exists(Request(at, op, e, s))
      BY <1>1, <2>1 DEF Request
    <3> HIDE DEF Exists
    <3> QED  BY <1>5, <3>1, <3>2
  <2>2. ASSUME NEW e \in Docs, NEW s \in Stages, NEW op \in DOMAIN Transition,
               PutStatus(c, e, s, op)
        PROVE  RequestsExist'
    <3>1. Transition[op][1] # "absent"
      BY TransitionTarget DEF Transition
    <3> QED  BY <2>1, <2>2, <3>1 DEF PutStatus
  <2>3. ASSUME NEW e \in Docs, NEW op \in Ops, PatchContext(c, e, op)
        PROVE  RequestsExist'
    BY <2>1, <2>3, FirstStage DEF PatchContext
  <2>4. ASSUME NEW e \in Docs, NEW s \in Stages, Edit(c, e, s)
        PROVE  RequestsExist'
    BY <2>1, <2>4 DEF Edit
  <2> QED  BY <1>9, <2>2, <2>3, <2>4 DEF User
<1>10. CASE Crash
  BY <1>6, <1>10 DEF Crash, RequestsExist
<1>11. CASE UNCHANGED vars
  BY <1>4, <1>11 DEF vars
<1> QED  BY <1>4, <1>8, <1>9, <1>10, <1>11, WorkerLeavesRequests DEF Next

(* What NoGaps rests on, inductive.                                         *)
GapsInv == TypeInv /\ AtRest /\ Existing /\ NoGaps

(* No step leaves a gap: a job that is there keeps its predecessor, and one *)
(* that begins has it.                                                      *)
LEMMA GapsStep ==
  ASSUME TypeInv, AtRest, Existing, NoGaps, [Next]_vars
  PROVE  NoGaps'
<1> SUFFICES ASSUME NEW d \in Docs, NEW s \in Stages, s > 1, status'[d][s] # "absent",
                    ~FirstApplicable(d, s)
             PROVE  status'[d][s - 1] # "absent"
  BY DEF NoGaps, FirstApplicable
<1>1. s - 1 \in Stages
  BY StagesAssumption DEF Stages
<1>2. status[d][s - 1] # "absent"
  BY JobsGrow DEF Grows, NoGaps
<1> QED  BY <1>1, <1>2, JobsGrow DEF Grows

(* A document's jobs are the stages from its first applicable one on,       *)
(* without a gap, for every pipeline, every number of documents, requests   *)
(* and crashes.                                                             *)
THEOREM NoGapsCorrect == Spec => []NoGaps
<1>1. Init => GapsInv
  <2>1. Init => AtRest /\ NoGaps
    BY StagesAssumption DEF Init, AtRest, NoGaps, PerJob, Stages
  <2>2. Init => Existing
    BY DEF Init, Existing, GoroutinesExist, RequestsExist, Idle
  <2> QED  BY <2>1, <2>2, TypeInit DEF GapsInv
<1>2. GapsInv /\ [Next]_vars => GapsInv'
  BY TypeStep, AtRestStep, GoroutinesExistStep, RequestsExistStep, GapsStep
  DEF GapsInv, TypeInv, Existing
<1>3. GapsInv => NoGaps
  BY DEF GapsInv
<1> QED  BY <1>1, <1>2, <1>3, PTL DEF Spec

-----------------------------------------------------------------------------
(* Nothing runs on the missing output of a failed stage.                    *)

(* s of d has failed for good, and no user wrote d's jobs since.            *)
Failed(d, s) == status[d][s] = "error" /\ held[d][s] /\ crashes = 0

(* A goroutine is never behind a failed stage of its document: it works in  *)
(* front of it, or has just made it fail.                                   *)
Behind ==
  \A d \in Docs, s \in Stages :
    Failed(d, s) /\ pc[d] # "none" => cursor < s \/ (cursor = s /\ pc[d] = "block")

BlockInv == TypeInv /\ AtRest /\ RunningIsOwned /\ BlockHolds /\ Behind

(* A job fails for good only in the hands of a goroutine, which blocks the  *)
(* later ones next.                                                         *)
LEMMA TaskFails ==
  ASSUME TypeOK, NEW d \in Docs, Task(d), NEW e \in Docs, NEW s \in Stages,
         Failed(e, s)', ~Failed(e, s)
  PROVE  e = d /\ s = cursor /\ pc'[d] = "block"
<1> USE DEF TypeOK, Failed
<1>1. crashes' = crashes
  BY TaskWritesOwn
<1>2. CASE GiveUp(d)
  BY <1>1, <1>2 DEF GiveUp, Goto, Set
<1>3. CASE ParkForReview(d)
  BY <1>1, <1>3 DEF ParkForReview, Set
<1>4. CASE /\ held' = held
           /\ \/ status' = status
              \/ \E t, st : st # "error" /\ status' = Set(d, t, st)
              \/ status' = Blocked(d, cursor)
  BY <1>1, <1>4 DEF Set, Blocked
<1>5. CASE MarkRunning(d) \/ ParkForContext(d) \/ MarkDone(d) \/ Requeue(d)
           \/ AdvanceUpdate(d) \/ AdvanceInsert(d) \/ Block(d)
  BY <1>4, <1>5 DEF MarkRunning, ParkForContext, MarkDone, Requeue, AdvanceUpdate,
                    AdvanceInsert, Upsert, Block, history
<1>6. CASE Fetch(d) \/ SkipByType(d) \/ NoInput(d) \/ PassThrough(d) \/ CallModel(d)
             \/ Answered(d) \/ Fails(d) \/ CheckStopped(d) \/ Reread(d)
             \/ SaveRun(d) \/ WriteTitle(d) \/ SaveErrorRun(d) \/ CountFailure(d)
             \/ Advance(d)
  BY <1>4, <1>6
  DEF Fetch, SkipByType, NoInput, PassThrough, CallModel, Answered, Fails,
      CheckStopped, Reread, SaveRun, WriteTitle, SaveErrorRun, CountFailure,
      Advance, database, history
<1> QED  BY <1>2, <1>3, <1>5, <1>6 DEF Task

(* A goroutine that is to block the later jobs does nothing else.           *)
LEMMA BlockerBlocks ==
  ASSUME TypeOK, NEW d \in Docs, Task(d), pc[d] = "block"
  PROVE  status' = Blocked(d, cursor) /\ pc'[d] = "none"
BY DEF TypeOK, Task, Goto, Fetch, MarkRunning, ParkForContext, SkipByType, NoInput,
       PassThrough, CallModel, Answered, Fails, CheckStopped, Reread, SaveRun,
       WriteTitle, ParkForReview, MarkDone, Advance, AdvanceUpdate, AdvanceInsert,
       CountFailure, Requeue, SaveErrorRun, GiveUp, Block

(* A step of a goroutine leaves nothing pending or running behind a failed  *)
(* stage.                                                                   *)
LEMMA TaskKeepsBlock ==
  ASSUME BlockInv, NEW d \in Docs, Task(d)
  PROVE  BlockHolds' /\ Behind'
<1> USE DEF BlockInv, TypeInv
<1>1. /\ mode = "batch" /\ mode' = mode /\ cursor' = cursor /\ crashes' = crashes
      /\ pc[d] # "none" /\ cursor \in Stages
      /\ \A e \in Docs \ {d} : pc'[e] = pc[e] /\ status'[e] = status[e]
  BY TaskMoves, TaskWritesOwn DEF TypeOK
<1>2. ASSUME NEW e \in Docs, NEW s \in Stages, Failed(e, s)', ~Failed(e, s)
      PROVE  e = d /\ s = cursor /\ pc'[d] = "block"
  BY <1>2, TaskFails
<1>3. ASSUME NEW s \in Stages, Failed(d, s)
      PROVE  cursor < s \/ (cursor = s /\ pc[d] = "block")
  BY <1>1, <1>3 DEF Behind
<1>4. Behind'
  <2> SUFFICES ASSUME NEW e \in Docs, NEW s \in Stages, Failed(e, s)', pc'[e] # "none"
               PROVE  cursor < s \/ (cursor = s /\ pc'[e] = "block")
    BY <1>1 DEF Behind
  <2>1. CASE ~Failed(e, s)
    BY <1>2, <2>1
  <2>2. CASE Failed(e, s) /\ e # d
    BY <1>1, <2>2 DEF Behind
  <2>3. CASE Failed(e, s) /\ e = d
    BY <1>3, <2>3, BlockerBlocks
  <2> QED  BY <2>1, <2>2, <2>3
<1>5. BlockHolds'
  <2> SUFFICES ASSUME NEW e \in Docs, NEW s \in Stages, NEW t \in Stages, s < t,
                      Failed(e, s)', ~(s = cursor /\ pc'[e] = "block")
               PROVE  status'[e][t] \notin {"pending", "running"}
    BY <1>1 DEF BlockHolds, Failed
  <2>1. Failed(e, s)
    BY <1>2
  <2>2. CASE e # d
    BY <1>1, <2>1, <2>2 DEF BlockHolds, Failed
  <2>3. CASE e = d /\ pc[d] = "block"
    <3>1. status' = Blocked(d, cursor)
      BY <2>3, BlockerBlocks
    <3>2. CASE cursor < s
      <4>1. status[d][t] \notin {"pending", "running"}
        BY <2>1, <2>3, <3>2 DEF BlockHolds, Failed, Stages
      <4> QED  BY <2>3, <3>1, <4>1 DEF Blocked, TypeOK
    <3>3. CASE cursor = s
      <4>1. t \in Downstream(cursor) /\ t # cursor
        BY <3>3, StagesAssumption DEF Downstream, Stages
      <4>2. status[d][t] # "running"
        BY <1>1, <4>1 DEF RunningIsOwned
      <4> QED  BY <2>3, <3>1, <4>1, <4>2 DEF Blocked, Blockable, TypeOK
    <3> QED  BY <1>3, <2>1, <2>3, <3>2, <3>3
  <2>4. CASE e = d /\ pc[d] # "block"
    <3>1. cursor < s
      BY <1>3, <2>1, <2>4
    <3>2. t # cursor /\ t # cursor + 1 /\ s # cursor
      BY <1>1, <3>1, StagesAssumption DEF Stages
    <3>3. status[d][t] \notin {"pending", "running"}
      BY <2>1, <2>4, <3>2 DEF BlockHolds, Failed
    <3>4. status'[d][t] = status[d][t]
      BY <2>4, <3>2, SetOther, TaskWriting DEF TaskWrites
    <3> QED  BY <2>4, <3>3, <3>4
  <2> QED  BY <2>2, <2>3, <2>4
<1> QED  BY <1>4, <1>5

(* A request that writes a document's jobs is a user's word, and no job of  *)
(* the document counts as failed any more; it leaves other documents alone. *)
LEMMA RequestKeepsBlock ==
  ASSUME BlockInv, NEW c \in Clients, User(c) \/ Handle(c)
  PROVE  BlockHolds' /\ Behind'
<1> USE DEF BlockInv, TypeInv
<1>1. mode' = mode /\ cursor' = cursor /\ pc' = pc /\ crashes' = crashes
  BY HandlersLeaveWorker
<1>2. ASSUME NEW d \in Docs, NEW s \in Stages, Failed(d, s)'
      PROVE  status'[d] = status[d] /\ held'[d] = held[d]
  <2> DEFINE r == client[c]
  <2>1. CASE status' = status /\ held' = held
    BY <2>1
  <2>2. CASE held' = [held EXCEPT ![r.doc] = [t \in Stages |-> FALSE]]
    <3>1. d # r.doc
      BY <1>2, <2>2 DEF Failed, TypeOK
    <3>2. held'[d] = held[d]
      BY <2>2, <3>1 DEF TypeOK
    <3>3. CASE \E t, st : status' = Set(r.doc, t, st)
      BY <3>1, <3>2, <3>3 DEF Set, TypeOK
    <3>4. CASE status' = Replayed(r.doc, r.stage)
      BY <3>1, <3>2, <3>4 DEF Replayed, TypeOK
    <3> QED  BY <2>1, <3>2, <3>3, <3>4, RequestWriting DEF RequestWrites
  <2> QED  BY <2>1, <2>2, RequestWriting DEF RequestWrites
<1>3. Behind'
  BY <1>1, <1>2 DEF Behind, Failed
<1>4. BlockHolds'
  BY <1>1, <1>2 DEF BlockHolds, Failed
<1> QED  BY <1>3, <1>4

(* No step of the system lets a job run behind a failed one.                *)
LEMMA BlockStep ==
  ASSUME BlockInv, [Next]_vars
  PROVE  BlockHolds' /\ Behind'
<1> USE DEF BlockInv, TypeInv
<1>1. CASE ResetRunning
  <2>1. /\ pc' = pc /\ \A d \in Docs : pc[d] = "none"
        /\ held' = held /\ crashes' = crashes /\ cursor' = cursor
    BY <1>1 DEF ResetRunning, AtRest, history, bounds
  <2>2. \A d \in Docs, s \in Stages :
          status'[d][s] = IF status[d][s] = "running" THEN "pending" ELSE status[d][s]
    BY <1>1 DEF ResetRunning
  <2> QED  BY <2>1, <2>2 DEF BlockHolds, Behind, Failed
<1>2. CASE NextStage
  BY <1>2 DEF NextStage, AtRest, BlockHolds, Behind, Failed, database, history, bounds
<1>3. CASE TakeBatch
  <2>1. /\ UNCHANGED <<status, held, crashes, cursor>>
        /\ \A d \in Docs : pc[d] = "none" /\ pc'[d] # "block"
        /\ \A d \in Docs : pc'[d] # "none" => status[d][cursor] = "pending"
    BY <1>3 DEF TakeBatch, Pending, AtRest, database, history, bounds
  <2>2. cursor \in Stages
    BY DEF TypeOK
  <2>3. BlockHolds'
    BY <2>1 DEF BlockHolds
  <2>4. ASSUME NEW d \in Docs, NEW s \in Stages, Failed(d, s), status[d][cursor] = "pending"
        PROVE  cursor < s
    <3>1. s # cursor
      BY <2>4 DEF Failed
    <3>2. ~(s < cursor)
      BY <2>1, <2>2, <2>4 DEF BlockHolds, Failed
    <3> QED  BY <2>2, <3>1, <3>2, StagesAssumption DEF Stages
  <2> QED  BY <2>1, <2>3, <2>4 DEF Behind, Failed
<1>4. CASE EndBatch
  BY <1>4 DEF EndBatch, BlockHolds, Behind, Failed, database, history, bounds
<1>5. ASSUME NEW d \in Docs, Upload(d)
      PROVE  BlockHolds' /\ Behind'
  <2>1. UNCHANGED <<pc, cursor, held, crashes>>
    BY <1>5 DEF Upload, history, worker, bounds
  <2>2. PICK t \in Stages : status' = Set(d, t, "pending")
    BY <1>5 DEF Upload
  <2>3. \A e \in Docs \ {d} : status'[e] = status[e]
    BY <2>2 DEF Set, TypeOK
  <2>4. \A s \in Stages : status'[d][s] # "error"
    BY <1>5, <2>2 DEF Upload, Set, TypeOK
  <2> QED  BY <2>1, <2>3, <2>4 DEF BlockHolds, Behind, Failed
<1>6. ASSUME NEW d \in Docs, Task(d)
      PROVE  BlockHolds' /\ Behind'
  BY <1>6, TaskKeepsBlock
<1>7. ASSUME NEW c \in Clients, User(c) \/ Handle(c)
      PROVE  BlockHolds' /\ Behind'
  BY <1>7, RequestKeepsBlock
<1>8. CASE Crash
  BY <1>8 DEF Crash, BlockHolds, Behind, Failed, TypeOK
<1>9. CASE UNCHANGED vars
  BY <1>9 DEF vars, database, history, worker, bounds, BlockHolds, Behind, Failed
<1> QED  BY <1>1, <1>2, <1>3, <1>4, <1>5, <1>6, <1>7, <1>8, <1>9 DEF Next, Loop

(* Once a stage has failed for good, no later job of the document is        *)
(* pending or running until a user writes its jobs, for every pipeline,     *)
(* every number of documents and requests.                                  *)
THEOREM BlockCorrect == Spec => []BlockHolds
<1>1. Init => BlockInv
  <2>1. Init => AtRest /\ RunningIsOwned /\ BlockHolds /\ Behind
    BY DEF Init, AtRest, RunningIsOwned, BlockHolds, Behind, Failed, PerJob
  <2> QED  BY <2>1, TypeInit DEF BlockInv
<1>2. BlockInv /\ [Next]_vars => BlockInv'
  BY TypeStep, AtRestStep, OwnedStep, BlockStep DEF BlockInv, TypeInv
<1>3. BlockInv => BlockHolds
  BY DEF BlockInv
<1> QED  BY <1>1, <1>2, <1>3, PTL DEF Spec

=============================================================================
