------------------------- MODULE JobPipelineProofs -------------------------
(* Proofs about JobPipeline, for every set of documents and requests, every *)
(* pipeline and every bound.                                                *)
EXTENDS JobPipeline, TLAPS

-----------------------------------------------------------------------------
(* What the shared operators return.                                        *)

(* There is a first stage.                                                  *)
LEMMA FirstStage == 1 \in Stages
BY StagesAssumption DEF Stages

(* The request record of an idle handler is a request.                      *)
LEMMA IdleType == Idle \in Requests
<1>1. (CHOOSE d \in Docs : TRUE) \in Docs
  BY StagesAssumption
<1> QED  BY <1>1, FirstStage DEF Idle, Requests, ClientSteps, Ops, Transition

(* Every transition a user may ask for leaves a job pending, done or in     *)
(* error; only an approval leaves it done.                                  *)
LEMMA TransitionTarget ==
  ASSUME NEW op \in DOMAIN Transition
  PROVE  /\ op \in {"stop", "approve", "reject", "retry", "replay"}
         /\ Transition[op][2] \in {"pending", "error", "done"}
         /\ Transition[op][2] = "done" => op = "approve"
<1>1. DOMAIN Transition = {"stop", "approve", "reject", "retry", "replay"}
  BY DEF Transition
<1>2. op \in {"stop", "approve", "reject", "retry", "replay"}
  BY <1>1
<1>3. /\ Transition["stop"][2] = "error"
      /\ Transition["approve"][2] = "done"
      /\ Transition["reject"][2] = "pending"
      /\ Transition["retry"][2] = "pending"
      /\ Transition["replay"][2] = "pending"
  BY DEF Transition
<1> QED  BY <1>2, <1>3

(* The operations of the model, spelled out.                                *)
LEMMA OpsAre ==
  Ops = {"stop", "approve", "reject", "retry", "replay", "context", "clear", "edit"}
BY DEF Ops, Transition

(* A status write keeps the table a table.                                  *)
LEMMA SetType ==
  ASSUME NEW d, NEW s, NEW st \in Statuses,
         status \in [Docs -> [Stages -> Statuses]]
  PROVE  Set(d, s, st) \in [Docs -> [Stages -> Statuses]]
BY DEF Set

(* A goroutine that goes on stays in its program.                           *)
LEMMA GotoType ==
  ASSUME NEW d \in Docs, NEW from, NEW to \in TaskSteps,
         pc \in [Docs -> TaskSteps], Goto(d, from, to)
  PROVE  pc' \in [Docs -> TaskSteps]
BY DEF Goto

(* So does a request that goes on.                                          *)
LEMMA AtType ==
  ASSUME NEW c \in Clients, NEW from, NEW to \in ClientSteps,
         client \in [Clients -> Requests], At(c, from, to)
  PROVE  client' \in [Clients -> Requests]
<1>1. [client[c] EXCEPT !.at = to] \in Requests
  BY DEF Requests
<1> QED  BY <1>1, IdleType DEF At

(* A request that begins keeps the table of requests and its bound.         *)
LEMMA ServeType ==
  ASSUME NEW c \in Clients, NEW r \in Requests,
         client \in [Clients -> Requests], ops \in 0..MaxOps, Serve(c, r)
  PROVE  /\ client' \in [Clients -> Requests]
         /\ ops' \in 0..MaxOps
BY BoundsAssumption DEF Serve

(* The request records the handlers build are requests.                     *)
LEMMA RequestType ==
  ASSUME NEW at \in ClientSteps, NEW op \in Ops, NEW d \in Docs, NEW s \in Stages
  PROVE  Request(at, op, d, s) \in Requests
BY DEF Request, Requests

-----------------------------------------------------------------------------
(* Type correctness.                                                        *)

(* Only a request for a transition reaches the write of a status, so that   *)
(* the status it writes is the target of a transition.                      *)
Requested ==
  \A c \in Clients : client[c].at = "write" => client[c].op \in DOMAIN Transition

TypeInv == TypeOK /\ Requested

(* A new database is well typed.                                            *)
LEMMA TypeInit == Init => TypeInv
<1> SUFFICES ASSUME Init PROVE TypeInv
  OBVIOUS
<1>1. TypeOK
  BY IdleType, StagesAssumption, BoundsAssumption
  DEF Init, TypeOK, PerJob, Stages, Statuses, Reasons, TaskSteps
<1>2. Requested
  BY DEF Init, Requested, Idle
<1> QED  BY <1>1, <1>2 DEF TypeInv

(* The loop, its goroutines and the uploads leave the requests alone.       *)
LEMMA WorkerLeavesRequests ==
  Loop \/ (\E d \in Docs : Upload(d) \/ Task(d)) => UNCHANGED client
<1>1. Loop => UNCHANGED client
  BY DEF Loop, ResetRunning, NextStage, TakeBatch, EndBatch
<1>2. ASSUME NEW d \in Docs PROVE Upload(d) => UNCHANGED client
  BY DEF Upload
<1>3. ASSUME NEW d \in Docs PROVE Task(d) => UNCHANGED client
  BY DEF Task, Fetch, MarkRunning, ParkForContext, SkipByType, NoInput,
         PassThrough, CallModel, Answered, Fails, CheckStopped, Reread, SaveRun,
         WriteTitle, ParkForReview, MarkDone, Advance, AdvanceUpdate,
         AdvanceInsert, CountFailure, Requeue, SaveErrorRun, GiveUp, Block
<1> QED  BY <1>1, <1>2, <1>3

(* Every step of the worker, of a request and of a crash keeps the types.   *)
LEMMA TypeStep == TypeInv /\ [Next]_vars => TypeInv'
<1> SUFFICES ASSUME TypeOK, Requested, [Next]_vars
             PROVE  TypeOK' /\ Requested'
  BY DEF TypeInv
<1> USE StagesAssumption DEF TypeOK
<1>1. ASSUME ResetRunning PROVE TypeOK'
  <2>1. status' \in [Docs -> [Stages -> Statuses]]
    BY <1>1 DEF ResetRunning, Statuses
  <2> QED  BY <1>1, <2>1 DEF ResetRunning, history, bounds
<1>2. ASSUME NextStage PROVE TypeOK'
  <2>1. cursor' \in Stages
    BY <1>2 DEF NextStage, Stages
  <2> QED  BY <1>2, <2>1 DEF NextStage, database, history, bounds
<1>3. ASSUME TakeBatch PROVE TypeOK'
  <2>1. pc' \in [Docs -> TaskSteps]
    BY <1>3 DEF TakeBatch, TaskSteps
  <2> QED  BY <1>3, <2>1 DEF TakeBatch, database, history, bounds
<1>4. ASSUME EndBatch PROVE TypeOK'
  <2>1. cursor' \in Stages
    BY <1>4 DEF EndBatch, Stages
  <2> QED  BY <1>4, <2>1 DEF EndBatch, database, history, bounds
<1>5. ASSUME Crash PROVE TypeOK'
  <2>1. pc' \in [Docs -> TaskSteps]
    BY <1>5 DEF Crash, TaskSteps
  <2>2. cursor' \in Stages
    BY <1>5 DEF Crash, Stages
  <2>3. client' \in [Clients -> Requests]
    BY <1>5, IdleType DEF Crash
  <2>4. crashes' \in 0..MaxCrashes
    BY <1>5, BoundsAssumption DEF Crash
  <2>5. UNCHANGED <<status, hasOut, fails, context, why, fresh, held, ops>>
    BY <1>5 DEF Crash, database, history
  <2>6. /\ mode' = "boot"
        /\ sawContext' \in [Docs -> BOOLEAN] /\ inputCurrent' \in [Docs -> BOOLEAN]
    BY <1>5 DEF Crash
  <2> QED  BY <2>1, <2>2, <2>3, <2>4, <2>5, <2>6
<1>6. ASSUME NEW d \in Docs, Upload(d) PROVE TypeOK'
  <2>1. status' \in [Docs -> [Stages -> Statuses]]
    BY <1>6, SetType DEF Upload, Statuses
  <2> QED  BY <1>6, <2>1 DEF Upload, history, worker, bounds
<1>7. ASSUME NEW d \in Docs, Fetch(d) PROVE TypeOK'
  <2>1. pc' \in [Docs -> TaskSteps]
    BY <1>7, GotoType DEF Fetch, TaskSteps
  <2> QED  BY <1>7, <2>1 DEF Fetch, Goto, database, history, bounds
<1>8. ASSUME NEW d \in Docs, MarkRunning(d) PROVE TypeOK'
  <2>1. pc' \in [Docs -> TaskSteps]
    BY <1>8, GotoType DEF MarkRunning, TaskSteps
  <2>2. status' \in [Docs -> [Stages -> Statuses]]
    BY <1>8, SetType DEF MarkRunning, Statuses
  <2>3. why' \in [Docs -> [Stages -> Reasons]]
    BY <1>8 DEF MarkRunning, Reasons
  <2> QED  BY <1>8, <2>1, <2>2, <2>3 DEF MarkRunning, Goto, bounds
<1>9. ASSUME NEW d \in Docs, ParkForContext(d) PROVE TypeOK'
  <2>1. pc' \in [Docs -> TaskSteps]
    BY <1>9, GotoType DEF ParkForContext, TaskSteps
  <2>2. status' \in [Docs -> [Stages -> Statuses]]
    BY <1>9, SetType DEF ParkForContext, Statuses
  <2>3. why' \in [Docs -> [Stages -> Reasons]]
    BY <1>9 DEF ParkForContext, Reasons
  <2> QED  BY <1>9, <2>1, <2>2, <2>3 DEF ParkForContext, Goto, bounds
<1>10. ASSUME NEW d \in Docs, SkipByType(d) PROVE TypeOK'
  <2>1. pc' \in [Docs -> TaskSteps]
    BY <1>10, GotoType DEF SkipByType, TaskSteps
  <2> QED  BY <1>10, <2>1 DEF SkipByType, Goto, database, history, bounds
<1>11. ASSUME NEW d \in Docs, NoInput(d) PROVE TypeOK'
  <2>1. pc' \in [Docs -> TaskSteps]
    BY <1>11, GotoType DEF NoInput, TaskSteps
  <2> QED  BY <1>11, <2>1 DEF NoInput, Goto, database, history, bounds
<1>12. ASSUME NEW d \in Docs, PassThrough(d) PROVE TypeOK'
  <2>1. pc' \in [Docs -> TaskSteps]
    BY <1>12, GotoType DEF PassThrough, TaskSteps
  <2> QED  BY <1>12, <2>1 DEF PassThrough, Goto, database, history, bounds
<1>13. ASSUME NEW d \in Docs, CallModel(d) PROVE TypeOK'
  <2>1. pc' \in [Docs -> TaskSteps]
    BY <1>13, GotoType DEF CallModel, TaskSteps
  <2> QED  BY <1>13, <2>1 DEF CallModel, Goto, database, history, bounds
<1>14. ASSUME NEW d \in Docs, Answered(d) PROVE TypeOK'
  <2>1. pc' \in [Docs -> TaskSteps]
    BY <1>14, GotoType DEF Answered, TaskSteps
  <2> QED  BY <1>14, <2>1 DEF Answered, Goto, database, history, bounds
<1>15. ASSUME NEW d \in Docs, Fails(d) PROVE TypeOK'
  <2>1. pc' \in [Docs -> TaskSteps]
    BY <1>15 DEF Fails, TaskSteps
  <2> QED  BY <1>15, <2>1 DEF Fails, database, history, bounds
<1>16. ASSUME NEW d \in Docs, CheckStopped(d) PROVE TypeOK'
  <2>1. pc' \in [Docs -> TaskSteps]
    BY <1>16, GotoType DEF CheckStopped, TaskSteps
  <2> QED  BY <1>16, <2>1 DEF CheckStopped, Goto, database, history, bounds
<1>17. ASSUME NEW d \in Docs, SaveRun(d) PROVE TypeOK'
  <2>1. pc' \in [Docs -> TaskSteps]
    BY <1>17, GotoType DEF SaveRun, TaskSteps
  <2>2. hasOut' \in [Docs -> [Stages -> BOOLEAN]]
    BY <1>17 DEF SaveRun, NewOutput
  <2>3. fresh' \in [Docs -> [Stages -> BOOLEAN]]
    <3>1. PICK present \in BOOLEAN : NewOutput(d, cursor, present, inputCurrent[d])
      BY <1>17 DEF SaveRun
    <3> QED  BY <3>1 DEF NewOutput
  <2> QED  BY <1>17, <2>1, <2>2, <2>3 DEF SaveRun, Goto, bounds
<1>18. ASSUME NEW d \in Docs, ParkForReview(d) PROVE TypeOK'
  <2>1. pc' \in [Docs -> TaskSteps]
    BY <1>18, GotoType DEF ParkForReview, TaskSteps
  <2>2. status' \in [Docs -> [Stages -> Statuses]]
    BY <1>18, SetType DEF ParkForReview, Statuses
  <2>3. why' \in [Docs -> [Stages -> Reasons]]
    BY <1>18 DEF ParkForReview, Reasons
  <2> QED  BY <1>18, <2>1, <2>2, <2>3 DEF ParkForReview, Goto, bounds
<1>19. ASSUME NEW d \in Docs, MarkDone(d) PROVE TypeOK'
  <2>1. pc' \in [Docs -> TaskSteps]
    BY <1>19, GotoType DEF MarkDone, TaskSteps
  <2>2. status' \in [Docs -> [Stages -> Statuses]]
    BY <1>19, SetType DEF MarkDone, Statuses
  <2> QED  BY <1>19, <2>1, <2>2 DEF MarkDone, Goto, history, bounds
<1>20. ASSUME NEW d \in Docs, Advance(d) PROVE TypeOK'
  <2>1. pc' \in [Docs -> TaskSteps]
    BY <1>20, GotoType DEF Advance, TaskSteps
  <2> QED  BY <1>20, <2>1 DEF Advance, Goto, database, history, bounds
<1>21. ASSUME NEW d \in Docs, AdvanceUpdate(d) PROVE TypeOK'
  <2>1. pc' \in [Docs -> TaskSteps]
    BY <1>21, GotoType DEF AdvanceUpdate, TaskSteps
  <2>2. status' \in [Docs -> [Stages -> Statuses]]
    BY <1>21, SetType DEF AdvanceUpdate, Statuses
  <2> QED  BY <1>21, <2>1, <2>2 DEF AdvanceUpdate, Goto, history, bounds
<1>22. ASSUME NEW d \in Docs, AdvanceInsert(d) PROVE TypeOK'
  <2>1. pc' \in [Docs -> TaskSteps]
    BY <1>22, GotoType DEF AdvanceInsert, TaskSteps
  <2>2. status' \in [Docs -> [Stages -> Statuses]]
    BY <1>22, SetType DEF AdvanceInsert, Upsert, Statuses
  <2>3. hasOut' \in [Docs -> [Stages -> BOOLEAN]]
    BY <1>22 DEF AdvanceInsert, Upsert
  <2> QED  BY <1>22, <2>1, <2>2, <2>3 DEF AdvanceInsert, Goto, history, bounds
<1>23. ASSUME NEW d \in Docs, CountFailure(d) PROVE TypeOK'
  <2>1. pc' \in [Docs -> TaskSteps]
    BY <1>23, GotoType DEF CountFailure, TaskSteps
  <2>2. fails' \in [Docs -> [Stages -> 0..RetryLimit]]
    <3> DEFINE n == IF fails[d][cursor] = RetryLimit THEN RetryLimit
                    ELSE fails[d][cursor] + 1
    <3>1. n \in 0..RetryLimit
      <4>1. fails[d][cursor] \in 0..RetryLimit
        OBVIOUS
      <4>2. \A k \in 0..RetryLimit :
              (IF k = RetryLimit THEN RetryLimit ELSE k + 1) \in 0..RetryLimit
        BY BoundsAssumption
      <4> QED  BY <4>1, <4>2
    <3>2. fails' = [fails EXCEPT ![d][cursor] = n]
      BY <1>23 DEF CountFailure
    <3> QED  BY <3>1, <3>2
  <2> QED  BY <1>23, <2>1, <2>2 DEF CountFailure, Goto, history, bounds
<1>24. ASSUME NEW d \in Docs, Requeue(d) PROVE TypeOK'
  <2>1. pc' \in [Docs -> TaskSteps]
    BY <1>24, GotoType DEF Requeue, TaskSteps
  <2>2. status' \in [Docs -> [Stages -> Statuses]]
    BY <1>24, SetType DEF Requeue, Statuses
  <2> QED  BY <1>24, <2>1, <2>2 DEF Requeue, Goto, history, bounds
<1>25. ASSUME NEW d \in Docs, GiveUp(d) PROVE TypeOK'
  <2>1. pc' \in [Docs -> TaskSteps]
    BY <1>25, GotoType DEF GiveUp, TaskSteps
  <2>2. status' \in [Docs -> [Stages -> Statuses]]
    BY <1>25, SetType DEF GiveUp, Statuses
  <2>3. held' \in [Docs -> [Stages -> BOOLEAN]]
    BY <1>25 DEF GiveUp
  <2> QED  BY <1>25, <2>1, <2>2, <2>3 DEF GiveUp, Goto, bounds
<1>26. ASSUME NEW d \in Docs, Block(d) PROVE TypeOK'
  <2>1. pc' \in [Docs -> TaskSteps]
    BY <1>26, GotoType DEF Block, TaskSteps
  <2>2. status' \in [Docs -> [Stages -> Statuses]]
    BY <1>26 DEF Block, Blocked, Statuses
  <2>3. why' \in [Docs -> [Stages -> Reasons]]
    BY <1>26 DEF Block, Reasons
  <2> QED  BY <1>26, <2>1, <2>2, <2>3 DEF Block, Goto, bounds
<1>27. ASSUME NEW c \in Clients, WriteStatus(c) PROVE TypeOK'
  <2>1. client' \in [Clients -> Requests]
    BY <1>27, AtType DEF WriteStatus, ClientSteps
  <2>2. status' \in [Docs -> [Stages -> Statuses]]
    BY <1>27, SetType, TransitionTarget DEF WriteStatus, At, Requested, Statuses
  <2>3. why' \in [Docs -> [Stages -> Reasons]]
    BY <1>27 DEF WriteStatus, Reasons
  <2>4. held' \in [Docs -> [Stages -> BOOLEAN]]
    BY <1>27 DEF WriteStatus, Touch
  <2> QED  BY <1>27, <2>1, <2>2, <2>3, <2>4
           DEF WriteStatus, Touch, At, worker, bounds
<1>28. ASSUME NEW c \in Clients, Approve(c) PROVE TypeOK'
  <2>1. client' \in [Clients -> Requests]
    BY <1>28, AtType DEF Approve, ClientSteps
  <2> QED  BY <1>28, <2>1 DEF Approve, At, database, history, worker, bounds
<1>29. ASSUME NEW c \in Clients, ApproveUpdate(c) PROVE TypeOK'
  <2>1. client' \in [Clients -> Requests]
    BY <1>29, AtType DEF ApproveUpdate, ClientSteps
  <2>2. status' \in [Docs -> [Stages -> Statuses]]
    BY <1>29, SetType DEF ApproveUpdate, Requests, Statuses
  <2>3. held' \in [Docs -> [Stages -> BOOLEAN]]
    BY <1>29 DEF ApproveUpdate, Touch
  <2> QED  BY <1>29, <2>1, <2>2, <2>3
           DEF ApproveUpdate, Touch, At, worker, bounds
<1>30. ASSUME NEW c \in Clients, ApproveInsert(c) PROVE TypeOK'
  <2>1. client' \in [Clients -> Requests]
    BY <1>30, AtType DEF ApproveInsert, ClientSteps
  <2>2. status' \in [Docs -> [Stages -> Statuses]]
    BY <1>30, SetType DEF ApproveInsert, Upsert, Requests, Statuses
  <2>3. hasOut' \in [Docs -> [Stages -> BOOLEAN]]
    BY <1>30 DEF ApproveInsert, Upsert
  <2>4. held' \in [Docs -> [Stages -> BOOLEAN]]
    BY <1>30 DEF ApproveInsert, Touch
  <2> QED  BY <1>30, <2>1, <2>2, <2>3, <2>4
           DEF ApproveInsert, Touch, At, worker, bounds
<1>31. ASSUME NEW c \in Clients, Cascade(c) PROVE TypeOK'
  <2>1. client' \in [Clients -> Requests]
    BY <1>31, AtType DEF Cascade, ClientSteps
  <2>2. status' \in [Docs -> [Stages -> Statuses]]
    BY <1>31 DEF Cascade, Replayed, Statuses
  <2>3. held' \in [Docs -> [Stages -> BOOLEAN]]
    BY <1>31 DEF Cascade, Touch
  <2> QED  BY <1>31, <2>1, <2>2, <2>3 DEF Cascade, Touch, At, worker, bounds
<1>32. ASSUME NEW c \in Clients, ListWaiting(c) PROVE TypeOK'
  <2>1. client' \in [Clients -> Requests]
    BY <1>32, IdleType DEF ListWaiting, Waiting, Requests, ClientSteps
  <2> QED  BY <1>32, <2>1 DEF ListWaiting, database, history, worker, bounds
<1>33. ASSUME NEW c \in Clients, Nudge(c) PROVE TypeOK'
  <2>1. client' \in [Clients -> Requests]
    <3>1. PICK s \in client[c].todo :
            client' = [client EXCEPT ![c] =
              IF client[c].todo = {s} THEN Idle
              ELSE [client[c] EXCEPT !.todo = client[c].todo \ {s}]]
      BY <1>33 DEF Nudge
    <3> DEFINE r == IF client[c].todo = {s} THEN Idle
                    ELSE [client[c] EXCEPT !.todo = client[c].todo \ {s}]
    <3>2. r \in Requests
      BY IdleType DEF Requests
    <3>3. client' = [client EXCEPT ![c] = r]
      BY <3>1
    <3> HIDE DEF r
    <3> QED  BY <3>2, <3>3
  <2>2. status' \in [Docs -> [Stages -> Statuses]]
    BY <1>33, SetType DEF Nudge, Requests, Statuses
  <2>3. held' \in [Docs -> [Stages -> BOOLEAN]]
    BY <1>33 DEF Nudge, Touch
  <2> QED  BY <1>33, <2>1, <2>2, <2>3 DEF Nudge, Touch, worker, bounds
<1>34. ASSUME NEW c \in Clients, WriteEdit(c) PROVE TypeOK'
  <2>1. client' \in [Clients -> Requests]
    BY <1>34, AtType DEF WriteEdit, ClientSteps
  <2>2. hasOut' \in [Docs -> [Stages -> BOOLEAN]]
    BY <1>34 DEF WriteEdit, NewOutput
  <2>3. fresh' \in [Docs -> [Stages -> BOOLEAN]]
    BY <1>34 DEF WriteEdit, NewOutput
  <2> QED  BY <1>34, <2>1, <2>2, <2>3 DEF WriteEdit, At, bounds
<1>35. ASSUME NEW c \in Clients, NEW d \in Docs, NEW s \in Stages,
             NEW op \in DOMAIN Transition, PutStatus(c, d, s, op) PROVE TypeOK'
  <2>1. client' \in [Clients -> Requests]
    BY <1>35, ServeType, RequestType DEF PutStatus, Ops, ClientSteps
  <2> QED  BY <1>35, <2>1, ServeType, RequestType
           DEF PutStatus, Serve, database, history, worker
<1>36. ASSUME NEW c \in Clients, NEW d \in Docs, NEW op \in Ops, PatchContext(c, d, op)
       PROVE  TypeOK'
  <2>1. client' \in [Clients -> Requests]
    BY <1>36, ServeType, RequestType, FirstStage DEF PatchContext, ClientSteps
  <2> QED  BY <1>36, <2>1, ServeType, RequestType
           DEF PatchContext, Serve, history, worker
<1>37. ASSUME NEW c \in Clients, NEW d \in Docs, NEW s \in Stages, Edit(c, d, s)
       PROVE  TypeOK'
  <2>1. client' \in [Clients -> Requests]
    BY <1>37, ServeType, RequestType, OpsAre DEF Edit, ClientSteps
  <2> QED  BY <1>37, <2>1, ServeType, RequestType
           DEF Edit, Serve, database, history, worker
<1>38. ASSUME NEW d \in Docs, Reread(d) PROVE TypeOK'
  <2>1. pc' \in [Docs -> TaskSteps]
    BY <1>38, GotoType DEF Reread, TaskSteps
  <2> QED  BY <1>38, <2>1 DEF Reread, Goto, database, history, bounds
<1>39. ASSUME NEW d \in Docs, WriteTitle(d) PROVE TypeOK'
  <2>1. pc' \in [Docs -> TaskSteps]
    BY <1>39, GotoType DEF WriteTitle, TaskSteps
  <2>2. context' \in [Docs -> BOOLEAN]
    <3>1. CASE context' = [context EXCEPT ![d] = sawContext[d]]
      BY <3>1
    <3>2. CASE UNCHANGED context
      BY <3>2
    <3> QED  BY <1>39, <3>1, <3>2 DEF WriteTitle
  <2> QED  BY <1>39, <2>1, <2>2 DEF WriteTitle, Goto, history, bounds
<1>40. ASSUME NEW d \in Docs, SaveErrorRun(d) PROVE TypeOK'
  <2>1. pc' \in [Docs -> TaskSteps]
    BY <1>40, GotoType DEF SaveErrorRun, TaskSteps
  <2>2. hasOut' \in [Docs -> [Stages -> BOOLEAN]]
    <3>1. CASE hasOut' = [hasOut EXCEPT ![d][cursor] = FALSE]
      BY <3>1
    <3>2. CASE UNCHANGED hasOut
      BY <3>2
    <3> QED  BY <1>40, <3>1, <3>2 DEF SaveErrorRun
  <2> QED  BY <1>40, <2>1, <2>2 DEF SaveErrorRun, Goto, history, bounds
<1>41. ASSUME UNCHANGED vars PROVE TypeOK'
  BY <1>41 DEF vars, database, history, worker, bounds
<1>42. TypeOK'
  BY <1>1, <1>2, <1>3, <1>4, <1>5, <1>6, <1>7, <1>8, <1>9, <1>10, <1>11, <1>12,
     <1>13, <1>14, <1>15, <1>16, <1>17, <1>18, <1>19, <1>20, <1>21, <1>22,
     <1>23, <1>24, <1>25, <1>26, <1>27, <1>28, <1>29, <1>30, <1>31, <1>32,
     <1>33, <1>34, <1>35, <1>36, <1>37, <1>38, <1>39, <1>40, <1>41
  DEF Next, Loop, Task, Handle, User
<1>43. Requested'
  <2>1. CASE UNCHANGED client
    BY <2>1 DEF Requested
  <2>2. ASSUME NEW c \in Clients, NEW r \in Requests, Serve(c, r),
               r.at = "write" => r.op \in DOMAIN Transition
        PROVE  Requested'
    BY <2>2 DEF Serve, Requested
  <2>3. ASSUME NEW c \in Clients, NEW from, NEW to \in ClientSteps \ {"write"},
               At(c, from, to)
        PROVE  Requested'
    BY <2>3 DEF At, Requested, Idle, Requests
  <2>4. ASSUME NEW c \in Clients, Handle(c)
        PROVE  Requested'
    <3>1. CASE WriteStatus(c)
      BY <3>1, <2>3 DEF WriteStatus, ClientSteps
    <3>2. CASE Approve(c)
      BY <3>2, <2>3 DEF Approve, ClientSteps
    <3>3. CASE ApproveUpdate(c) \/ ApproveInsert(c)
      BY <3>3, <2>3 DEF ApproveUpdate, ApproveInsert, ClientSteps
    <3>4. CASE Cascade(c)
      BY <3>4, <2>3 DEF Cascade, ClientSteps
    <3>5. CASE ListWaiting(c)
      BY <3>5 DEF ListWaiting, Requested, Idle, Requests
    <3>7. CASE Nudge(c)
      BY <3>7 DEF Nudge, Requested, Idle, Requests
    <3>6. CASE WriteEdit(c)
      BY <3>6, <2>3 DEF WriteEdit, ClientSteps
    <3> QED  BY <2>4, <3>1, <3>2, <3>3, <3>4, <3>5, <3>6, <3>7 DEF Handle
  <2>5. ASSUME NEW c \in Clients, User(c)
        PROVE  Requested'
    <3>1. ASSUME NEW d \in Docs, NEW s \in Stages, NEW op \in DOMAIN Transition,
                 PutStatus(c, d, s, op)
          PROVE  Requested'
      BY <3>1, <2>2, RequestType DEF PutStatus, Request, Ops, ClientSteps
    <3>2. ASSUME NEW d \in Docs, NEW op \in Ops, PatchContext(c, d, op)
          PROVE  Requested'
      BY <3>2, <2>2, RequestType, FirstStage
      DEF PatchContext, Request, ClientSteps
    <3>3. ASSUME NEW d \in Docs, NEW s \in Stages, Edit(c, d, s)
          PROVE  Requested'
      BY <3>3, <2>2, RequestType, OpsAre DEF Edit, Request, ClientSteps
    <3> QED  BY <2>5, <3>1, <3>2, <3>3 DEF User
  <2>6. CASE Crash
    BY <2>6 DEF Crash, Requested, Idle
  <2>7. CASE UNCHANGED vars
    BY <2>7, <2>1 DEF vars
  <2> QED  BY <2>1, <2>4, <2>5, <2>6, <2>7, WorkerLeavesRequests DEF Next
<1> QED  BY <1>42, <1>43

(* So the types, and the requests' operations, hold always.                 *)
LEMMA TypeInvariant == Spec => []TypeInv
BY TypeInit, TypeStep, PTL DEF Spec

(* Every variable keeps its type, for every pipeline, every number of       *)
(* documents and requests and every bound.                                  *)
THEOREM TypeCorrect == Spec => []TypeOK
<1>1. TypeInv => TypeOK
  BY DEF TypeInv
<1> QED  BY <1>1, TypeInvariant, PTL

-----------------------------------------------------------------------------
(* The worker: no job is left running.                                      *)

(* Goroutines exist only while a batch runs.                                *)
AtRest == mode # "batch" => \A d \in Docs : pc[d] = "none"

(* A step of a goroutine is one of a batch, and concerns no other goroutine.*)
LEMMA TaskMoves ==
  ASSUME TypeOK, AtRest, NEW d \in Docs, Task(d)
  PROVE  /\ pc[d] # "none" /\ mode = "batch"
         /\ mode' = mode /\ cursor' = cursor
         /\ \A e \in Docs \ {d} : pc'[e] = pc[e]
<1>1. pc[d] # "none"
  BY DEF Task, Goto, Fetch, MarkRunning, ParkForContext, SkipByType, NoInput,
         PassThrough, CallModel, Answered, Fails, CheckStopped, Reread, SaveRun,
         WriteTitle, ParkForReview, MarkDone, Advance, AdvanceUpdate,
         AdvanceInsert, CountFailure, Requeue, SaveErrorRun, GiveUp, Block
<1>2. mode' = mode /\ cursor' = cursor
  BY DEF Task, Fetch, MarkRunning, ParkForContext, SkipByType, NoInput,
         PassThrough, CallModel, Answered, Fails, CheckStopped, Reread, SaveRun,
         WriteTitle, ParkForReview, MarkDone, Advance, AdvanceUpdate,
         AdvanceInsert, CountFailure, Requeue, SaveErrorRun, GiveUp, Block
<1>3. \E to : pc' = [pc EXCEPT ![d] = to]
  BY DEF Task, Goto, Fetch, MarkRunning, ParkForContext, SkipByType, NoInput,
         PassThrough, CallModel, Answered, Fails, CheckStopped, Reread, SaveRun,
         WriteTitle, ParkForReview, MarkDone, Advance, AdvanceUpdate,
         AdvanceInsert, CountFailure, Requeue, SaveErrorRun, GiveUp, Block
<1> QED  BY <1>1, <1>2, <1>3 DEF AtRest, TypeOK

(* Users and handlers leave the worker alone.                               *)
LEMMA HandlersLeaveWorker ==
  ASSUME NEW c \in Clients, User(c) \/ Handle(c)
  PROVE  /\ mode' = mode /\ cursor' = cursor /\ pc' = pc
         /\ crashes' = crashes
<1>1. Handle(c) => mode' = mode /\ cursor' = cursor /\ pc' = pc /\ crashes' = crashes
  BY DEF Handle, WriteStatus, Approve, ApproveUpdate, ApproveInsert, Cascade,
         ListWaiting, Nudge, WriteEdit, worker, bounds
<1>2. User(c) => mode' = mode /\ cursor' = cursor /\ pc' = pc /\ crashes' = crashes
  BY DEF User, PutStatus, PatchContext, Edit, worker
<1> QED  BY <1>1, <1>2

(* A request never sets a job running.                                      *)
LEMMA HandlersNeverRun ==
  ASSUME TypeOK, Requested, NEW c \in Clients, User(c) \/ Handle(c),
         NEW d \in Docs, NEW s \in Stages, status'[d][s] = "running"
  PROVE  status[d][s] = "running"
<1> USE DEF TypeOK
<1>1. CASE WriteStatus(c)
  <2>1. client[c].op \in DOMAIN Transition
    BY <1>1 DEF WriteStatus, At, Requested
  <2> DEFINE st == Transition[client[c].op][2]
  <2>2. st # "running"
    BY <2>1, TransitionTarget
  <2>3. status' = Set(client[c].doc, client[c].stage, st)
    BY <1>1 DEF WriteStatus
  <2> HIDE DEF st
  <2> QED  BY <2>2, <2>3 DEF Set
<1>2. CASE Approve(c) \/ ListWaiting(c) \/ WriteEdit(c)
  BY <1>2 DEF Approve, ListWaiting, WriteEdit, database
<1>3. CASE ApproveUpdate(c)
  BY <1>3 DEF ApproveUpdate, Set
<1>4. CASE ApproveInsert(c)
  BY <1>4 DEF ApproveInsert, Upsert, Set
<1>5. CASE Cascade(c)
  BY <1>5 DEF Cascade, Replayed
<1>6. CASE Nudge(c)
  BY <1>6 DEF Nudge, Set
<1>7. CASE User(c)
  BY <1>7 DEF User, PutStatus, PatchContext, Edit, database
<1> QED  BY <1>1, <1>2, <1>3, <1>4, <1>5, <1>6, <1>7 DEF Handle

(* Goroutines begin and end with their batch.                               *)
LEMMA AtRestStep ==
  ASSUME TypeOK, AtRest, [Next]_vars
  PROVE  AtRest'
<1>1. CASE Loop
  BY <1>1 DEF TypeOK, AtRest, Loop, ResetRunning, NextStage, TakeBatch, EndBatch
<1>2. ASSUME NEW d \in Docs, Upload(d)
      PROVE  AtRest'
  BY <1>2 DEF AtRest, Upload, worker
<1>3. ASSUME NEW d \in Docs, Task(d)
      PROVE  AtRest'
  BY <1>3, TaskMoves DEF AtRest
<1>4. ASSUME NEW c \in Clients, User(c) \/ Handle(c)
      PROVE  AtRest'
  BY <1>4, HandlersLeaveWorker DEF AtRest
<1>5. CASE Crash
  BY <1>5 DEF AtRest, Crash
<1>6. CASE UNCHANGED vars
  BY <1>6 DEF AtRest, vars, worker
<1> QED  BY <1>1, <1>2, <1>3, <1>4, <1>5, <1>6 DEF Next

(* A goroutine that gives its job up has set it to another status before.   *)
LEMMA TaskKeepsOwned ==
  ASSUME TypeOK, AtRest, RunningIsOwned, NEW d \in Docs, Task(d)
  PROVE  RunningIsOwned'
<1> USE DEF TypeOK, RunningIsOwned
<1>1. pc[d] # "none" /\ mode = "batch" /\ mode' = mode /\ cursor' = cursor
      /\ \A e \in Docs \ {d} : pc'[e] = pc[e]
  BY TaskMoves
<1>2. CASE Fetch(d) \/ SkipByType(d) \/ NoInput(d) \/ PassThrough(d) \/ CallModel(d)
             \/ Answered(d) \/ Fails(d) \/ CheckStopped(d) \/ Reread(d)
             \/ SaveRun(d) \/ WriteTitle(d) \/ SaveErrorRun(d) \/ CountFailure(d)
             \/ Advance(d)
  <2>1. status' = status
    BY <1>2
    DEF Fetch, SkipByType, NoInput, PassThrough, CallModel, Answered, Fails,
        CheckStopped, Reread, SaveRun, WriteTitle, SaveErrorRun, CountFailure,
        Advance, database
  <2>2. status[d][cursor] = "running" => pc'[d] \in TaskHolds
    BY <1>1, <1>2
    DEF Fetch, SkipByType, NoInput, PassThrough, CallModel, Answered, Fails,
        CheckStopped, Reread, SaveRun, WriteTitle, SaveErrorRun, CountFailure,
        Advance, Goto, TaskHolds
  <2> QED  BY <1>1, <2>1, <2>2
<1>3. CASE MarkRunning(d)
  BY <1>1, <1>3 DEF MarkRunning, Goto, Set, TaskHolds
<1>4. CASE ParkForContext(d) \/ ParkForReview(d) \/ MarkDone(d) \/ Requeue(d) \/ GiveUp(d)
  <2>1. PICK st \in {"waiting", "done", "pending", "error"} : status' = Set(d, cursor, st)
    BY <1>4 DEF ParkForContext, ParkForReview, MarkDone, Requeue, GiveUp
  <2> QED  BY <1>1, <2>1 DEF Set
<1>5. CASE AdvanceUpdate(d) \/ AdvanceInsert(d)
  <2>1. status' = Set(d, cursor + 1, "pending") /\ pc[d] \notin TaskHolds
    BY <1>5 DEF AdvanceUpdate, AdvanceInsert, Upsert, Goto, TaskHolds
  <2> QED  BY <1>1, <2>1 DEF Set
<1>6. CASE Block(d)
  BY <1>1, <1>6 DEF Block, Blocked, Blockable, Goto, TaskHolds
<1> QED  BY <1>2, <1>3, <1>4, <1>5, <1>6 DEF Task

(* No step of the system leaves a job running without an owner.             *)
LEMMA OwnedStep ==
  ASSUME TypeInv, AtRest, RunningIsOwned, [Next]_vars
  PROVE  RunningIsOwned'
<1> USE DEF TypeInv
<1>1. CASE ResetRunning
  BY <1>1 DEF ResetRunning, RunningIsOwned, TypeOK
<1>2. CASE NextStage \/ TakeBatch
  BY <1>2 DEF NextStage, TakeBatch, RunningIsOwned, AtRest, TaskHolds, database
<1>3. CASE EndBatch
  BY <1>3 DEF EndBatch, RunningIsOwned, TaskHolds, database
<1>4. ASSUME NEW d \in Docs, Upload(d)
      PROVE  RunningIsOwned'
  BY <1>4 DEF Upload, Set, RunningIsOwned, TypeOK, worker
<1>5. ASSUME NEW d \in Docs, Task(d)
      PROVE  RunningIsOwned'
  BY <1>5, TaskKeepsOwned
<1>6. ASSUME NEW c \in Clients, User(c) \/ Handle(c)
      PROVE  RunningIsOwned'
  BY <1>6, HandlersLeaveWorker, HandlersNeverRun DEF RunningIsOwned
<1>7. CASE Crash
  BY <1>7 DEF Crash, RunningIsOwned
<1>8. CASE UNCHANGED vars
  BY <1>8 DEF vars, database, worker, RunningIsOwned
<1> QED  BY <1>1, <1>2, <1>3, <1>4, <1>5, <1>6, <1>7, <1>8 DEF Next, Loop

(* What RunningIsOwned rests on, inductive.                                 *)
OwnedInv == TypeInv /\ AtRest /\ RunningIsOwned

(* A job is running only while a goroutine works on it or a restart is      *)
(* about to reset it, for every number of documents, requests and crashes.  *)
THEOREM OwnedCorrect == Spec => []RunningIsOwned
<1>1. Init => OwnedInv
  <2>1. Init => AtRest /\ RunningIsOwned
    BY DEF Init, AtRest, RunningIsOwned, PerJob
  <2> QED  BY <2>1, TypeInit DEF OwnedInv
<1>2. OwnedInv /\ [Next]_vars => OwnedInv'
  BY TypeStep, AtRestStep, OwnedStep DEF OwnedInv, TypeInv
<1>3. OwnedInv => RunningIsOwned
  BY DEF OwnedInv
<1> QED  BY <1>1, <1>2, <1>3, PTL DEF Spec

-----------------------------------------------------------------------------
(* No document is forgotten half way.                                       *)

(* A goroutine writes the status of its own document only.                  *)
LEMMA TaskWritesOwn ==
  ASSUME TypeOK, NEW d \in Docs, Task(d)
  PROVE  /\ \A e \in Docs \ {d} : status'[e] = status[e]
         /\ crashes' = crashes /\ client' = client
<1> USE DEF TypeOK
<1>1. \A e \in Docs \ {d} : status'[e] = status[e]
  <2>1. CASE status' = status
    BY <2>1
  <2>2. CASE \E s, st : status' = Set(d, s, st)
    BY <2>2 DEF Set
  <2>3. CASE Block(d)
    BY <2>3 DEF Block, Blocked
  <2> QED  BY <2>1, <2>2, <2>3
           DEF Task, Fetch, MarkRunning, ParkForContext, SkipByType, NoInput,
               PassThrough, CallModel, Answered, Fails, CheckStopped, Reread,
               SaveRun, WriteTitle, ParkForReview, MarkDone, Advance,
               AdvanceUpdate, AdvanceInsert, CountFailure, Requeue,
               SaveErrorRun, GiveUp, Upsert, database
<1>2. crashes' = crashes
  BY DEF Task, Fetch, MarkRunning, ParkForContext, SkipByType, NoInput,
         PassThrough, CallModel, Answered, Fails, CheckStopped, Reread, SaveRun,
         WriteTitle, ParkForReview, MarkDone, Advance, AdvanceUpdate,
         AdvanceInsert, CountFailure, Requeue, SaveErrorRun, GiveUp, Block,
         bounds
<1>3. client' = client
  BY WorkerLeavesRequests
<1> QED  BY <1>1, <1>2, <1>3

(* A finished job's goroutine goes on to create the successor it lacks.     *)
LEMMA TaskHandsOver ==
  ASSUME TypeOK, AtRest, HandOff, NEW d \in Docs, Task(d)
  PROVE  HandOff'
<1> USE DEF TypeOK
<1>1. /\ mode' = mode /\ cursor' = cursor /\ crashes' = crashes /\ client' = client
      /\ \A e \in Docs \ {d} : pc'[e] = pc[e] /\ status'[e] = status[e]
  BY TaskMoves, TaskWritesOwn
<1> SUFFICES ASSUME NEW s \in Stages, s < N, crashes = 0,
                    status'[d][s] = "done", status'[d][s + 1] = "absent"
             PROVE  HandingOver(d, s)'
  <2>1. ASSUME NEW e \in Docs \ {d}, NEW s \in Stages, HandingOver(e, s)
        PROVE  HandingOver(e, s)'
    BY <1>1, <2>1 DEF HandingOver
  <2>2. ASSUME NEW e \in Docs \ {d}, NEW s \in Stages, s < N, crashes' = 0,
               status'[e][s] = "done", status'[e][s + 1] = "absent"
        PROVE  HandingOver(e, s)'
    BY <1>1, <2>1, <2>2 DEF HandOff
  <2> QED  BY <1>1, <2>2 DEF HandOff
<1>2. s + 1 \in Stages
  BY StagesAssumption DEF Stages
<1>3. CASE status' = status /\ pc[d] \notin {"advance", "insert"}
  BY <1>1, <1>3 DEF HandOff, HandingOver
<1>4. CASE Advance(d)
  BY <1>1, <1>4 DEF Advance, HandOff, HandingOver, Goto, database
<1>5. CASE MarkDone(d)
  <2>1. status' = Set(d, cursor, "done")
    BY <1>5 DEF MarkDone
  <2>2. status[d][s + 1] = "absent" /\ (s # cursor => status[d][s] = "done")
    BY <1>2, <2>1 DEF Set
  <2>3. s = cursor => pc'[d] = "advance"
    BY <1>5 DEF MarkDone, Goto, Stages
  <2> QED  BY <1>1, <2>2, <2>3 DEF HandOff, HandingOver
<1>6. CASE \E st \in {"running", "waiting", "pending", "error"} :
             status' = Set(d, cursor, st) /\ pc[d] \notin {"advance", "insert"}
  BY <1>1, <1>2, <1>6 DEF Set, HandOff, HandingOver
<1>7. CASE AdvanceUpdate(d)
  <2>1. status' = Set(d, cursor + 1, "pending") /\ pc[d] = "update"
    BY <1>7 DEF AdvanceUpdate, Goto
  <2>2. s # cursor /\ status[d][s] = "done" /\ status[d][s + 1] = "absent"
    BY <1>2, <2>1 DEF Set
  <2>3. HandingOver(d, s)
    BY <2>2 DEF HandOff
  <2> QED  BY <1>1, <2>2, <2>3 DEF HandingOver
<1>8. CASE AdvanceInsert(d)
  <2>1. status' = Set(d, cursor + 1, "pending")
    BY <1>8 DEF AdvanceInsert, Upsert
  <2>2. s # cursor /\ status[d][s] = "done" /\ status[d][s + 1] = "absent"
    BY <1>2, <2>1 DEF Set
  <2> QED  BY <1>1, <2>2 DEF HandOff, HandingOver
<1>9. CASE Block(d)
  <2>1. status[d][s] = "done" /\ status[d][s + 1] = "absent" /\ pc[d] = "block"
    BY <1>2, <1>9 DEF Block, Blocked, Blockable, Goto
  <2>2. HandingOver(d, s)
    BY <2>1 DEF HandOff
  <2> QED  BY <1>1, <2>1, <2>2 DEF HandingOver
<1>10. CASE Fetch(d) \/ SkipByType(d) \/ NoInput(d) \/ PassThrough(d) \/ CallModel(d)
              \/ Answered(d) \/ Fails(d) \/ CheckStopped(d) \/ Reread(d)
              \/ SaveRun(d) \/ WriteTitle(d) \/ SaveErrorRun(d) \/ CountFailure(d)
  BY <1>3, <1>10
  DEF Fetch, SkipByType, NoInput, PassThrough, CallModel, Answered, Fails,
      CheckStopped, Reread, SaveRun, WriteTitle, SaveErrorRun, CountFailure,
      Goto, database
<1>11. CASE MarkRunning(d) \/ ParkForContext(d) \/ ParkForReview(d) \/ Requeue(d) \/ GiveUp(d)
  BY <1>6, <1>11
  DEF MarkRunning, ParkForContext, ParkForReview, Requeue, GiveUp, Goto
<1> QED  BY <1>4, <1>5, <1>7, <1>8, <1>9, <1>10, <1>11 DEF Task

(* So does the handler of an approval; the other requests finish no job.    *)
LEMMA HandlersHandOver ==
  ASSUME TypeOK, Requested, HandOff, NEW c \in Clients, User(c) \/ Handle(c)
  PROVE  HandOff'
<1> USE DEF TypeOK
<1>1. mode' = mode /\ cursor' = cursor /\ pc' = pc /\ crashes' = crashes
  BY HandlersLeaveWorker
<1>2. \A b \in Clients \ {c} : client'[b] = client[b]
  BY DEF User, Handle, PutStatus, PatchContext, Edit, Serve, WriteStatus,
         Approve, ApproveUpdate, ApproveInsert, Cascade, ListWaiting, Nudge,
         WriteEdit, At
<1> SUFFICES ASSUME NEW d \in Docs, NEW s \in Stages, s < N, crashes = 0,
                    status'[d][s] = "done", status'[d][s + 1] = "absent"
             PROVE  HandingOver(d, s)'
  BY <1>1 DEF HandOff
<1>3. s + 1 \in Stages
  BY StagesAssumption DEF Stages
<1>4. ASSUME status[d][s] = "done", status[d][s + 1] = "absent",
             client[c].at \in {"advance", "insert"} =>
               \/ /\ client'[c].at \in {"advance", "insert"}
                  /\ client'[c].doc = client[c].doc
                  /\ client'[c].stage = client[c].stage
               \/ client[c].doc # d
               \/ client[c].stage # s
      PROVE  HandingOver(d, s)'
  <2>1. HandingOver(d, s)
    BY <1>4 DEF HandOff
  <2> QED  BY <1>1, <1>2, <1>4, <2>1 DEF HandingOver
<1>5. CASE WriteStatus(c)
  <2> DEFINE r == client[c]
  <2> DEFINE st == Transition[r.op][2]
  <2>1. r.at = "write" /\ r \in Requests /\ st # "absent" /\ (st = "done" => r.op = "approve")
    BY <1>5, TransitionTarget DEF WriteStatus, At, Requested
  <2>2. status' = Set(r.doc, r.stage, st)
    BY <1>5 DEF WriteStatus
  <2>3. CASE d = r.doc /\ s = r.stage
    <3>1. r.op = "approve"
      BY <2>1, <2>2, <2>3 DEF Set, Requests
    <3>2. client' = [client EXCEPT ![c] = [r EXCEPT !.at = "advance"]]
      BY <1>5, <2>3, <3>1 DEF WriteStatus, At
    <3>3. client'[c].at = "advance" /\ client'[c].doc = d /\ client'[c].stage = s
      BY <2>1, <2>3, <3>2 DEF Requests
    <3> QED  BY <3>3 DEF HandingOver
  <2>4. CASE d # r.doc \/ s # r.stage
    <3>1. status[d][s] = "done" /\ status[d][s + 1] = "absent"
      BY <1>3, <2>1, <2>2, <2>4 DEF Set
    <3> QED  BY <1>4, <2>1, <3>1
  <2> QED  BY <2>3, <2>4
<1>6. CASE Approve(c)
  <2>1. status' = status
    BY <1>6 DEF Approve, database
  <2>2. client[c].doc = d /\ client[c].stage = s =>
          client' = [client EXCEPT ![c] = [client[c] EXCEPT !.at = "insert"]]
    BY <1>6, <2>1 DEF Approve, At
  <2> QED  BY <1>4, <2>1, <2>2 DEF Requests
<1>7. CASE ApproveUpdate(c)
  BY <1>3, <1>4, <1>7 DEF ApproveUpdate, At, Set
<1>8. CASE ApproveInsert(c)
  <2>1. status' = Set(client[c].doc, client[c].stage + 1, "pending")
    BY <1>8 DEF ApproveInsert, Upsert
  <2> QED  BY <1>3, <1>4, <2>1 DEF Set, Requests
<1>9. CASE Cascade(c)
  BY <1>3, <1>4, <1>9 DEF Cascade, At, Replayed
<1>10. CASE ListWaiting(c) \/ WriteEdit(c)
  BY <1>4, <1>10 DEF ListWaiting, WriteEdit, At, database
<1>11. CASE Nudge(c)
  BY <1>3, <1>4, <1>11 DEF Nudge, Set
<1>12. CASE User(c)
  BY <1>4, <1>12 DEF User, PutStatus, PatchContext, Edit, Serve, database
<1> QED  BY <1>5, <1>6, <1>7, <1>8, <1>9, <1>10, <1>11, <1>12 DEF Handle

(* No step of the system but a crash drops a finished job's successor.      *)
LEMMA HandOffStep ==
  ASSUME TypeInv, AtRest, HandOff, [Next]_vars
  PROVE  HandOff'
<1> USE DEF TypeInv
<1>1. CASE ResetRunning
  BY <1>1, StagesAssumption
  DEF ResetRunning, HandOff, HandingOver, TypeOK, Stages, bounds
<1>2. CASE NextStage \/ TakeBatch \/ EndBatch
  BY <1>2
  DEF NextStage, TakeBatch, EndBatch, HandOff, HandingOver, AtRest, database,
      bounds
<1>3. ASSUME NEW d \in Docs, Upload(d)
      PROVE  HandOff'
  <2> USE DEF TypeOK
  <2>1. UNCHANGED <<client, cursor, pc, crashes>>
    BY <1>3 DEF Upload, worker, bounds
  <2>2. ASSUME NEW e \in Docs, NEW s \in Stages, s < N, status'[e][s] = "done",
               status'[e][s + 1] = "absent"
        PROVE  status[e][s] = "done" /\ status[e][s + 1] = "absent"
    BY <1>3, <2>2, StagesAssumption DEF Upload, Set, Stages
  <2>3. ASSUME NEW e \in Docs, NEW s \in Stages, HandingOver(e, s)
        PROVE  HandingOver(e, s)'
    BY <2>1, <2>3 DEF HandingOver
  <2> QED  BY <2>1, <2>2, <2>3 DEF HandOff
<1>4. ASSUME NEW d \in Docs, Task(d)
      PROVE  HandOff'
  BY <1>4, TaskHandsOver
<1>5. ASSUME NEW c \in Clients, User(c) \/ Handle(c)
      PROVE  HandOff'
  BY <1>5, HandlersHandOver
<1>6. CASE Crash
  BY <1>6 DEF Crash, HandOff, TypeOK
<1>7. CASE UNCHANGED vars
  BY <1>7 DEF vars, database, worker, bounds, HandOff, HandingOver
<1> QED  BY <1>1, <1>2, <1>3, <1>4, <1>5, <1>6, <1>7 DEF Next, Loop

(* What HandOff rests on, inductive.                                        *)
HandOffInv == TypeInv /\ AtRest /\ HandOff

(* While the process lives, a finished job that has no successor yet is in  *)
(* the hands of the goroutine or the request that is about to create it.    *)
THEOREM HandOffCorrect == Spec => []HandOff
<1>1. Init => HandOffInv
  <2>1. Init => AtRest /\ HandOff
    BY DEF Init, AtRest, HandOff, PerJob
  <2> QED  BY <2>1, TypeInit DEF HandOffInv
<1>2. HandOffInv /\ [Next]_vars => HandOffInv'
  BY TypeStep, AtRestStep, HandOffStep DEF HandOffInv, TypeInv
<1>3. HandOffInv => HandOff
  BY DEF HandOffInv
<1> QED  BY <1>1, <1>2, <1>3, PTL DEF Spec

=============================================================================
