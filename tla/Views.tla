-------------------------------- MODULE Views --------------------------------
(***************************************************************************)
(* Which text is "the document": three readers look for its body in three  *)
(* ways.  The document's page takes the newest artifact of the last body   *)
(* field (buildDocDetail, server/api/rest/documents.go); get_document      *)
(* quotes the latest runs of the jobs that are done or waiting             *)
(* (CollectStageData and RunGetDocument, server/core); update_document     *)
(* edits the body that ResolveCanonicalBody finds                          *)
(* (server/core/stage_update.go).                                          *)
(*                                                                         *)
(* Stages 1..LastBody each make a body from the one before; the stage      *)
(* after them (embed) only reads.  A run stores a copy of its input, under *)
(* the same file name as the output it copies but without a tag, and then  *)
(* its output (persistRun).  An artifact is known by its place in the      *)
(* table.                                                                  *)
(***************************************************************************)
EXTENDS Naturals, Sequences, FiniteSetsExt

CONSTANTS
  LastBody,     \* the number of stages that make a body
  MaxMade       \* bound: runs

ASSUME ViewsAssumption == LastBody \in Nat \ {0} /\ MaxMade \in Nat

StageNumbers == 1..LastBody + 1

VARIABLES
  stageStatus,   \* the jobs' status, "none" before there is a job
  outputs,       \* outputs[s]: per run the artifact of the output, or 0
  stored,        \* the artifacts table: [field, tagged], oldest first
  making,        \* the worker: [at, stage, output]
  made           \* runs begun

viewVars == <<stageStatus, outputs, stored, making, made>>

Resting == [at |-> "idle", stage |-> 0, output |-> 0]

ViewsInit ==
  /\ stageStatus = [s \in StageNumbers |-> IF s = 1 THEN "pending" ELSE "none"]
  /\ outputs = [s \in StageNumbers |-> <<>>]
  /\ stored = <<>>
  /\ making = Resting
  /\ made = 0

-----------------------------------------------------------------------------
LatestOutput(s) == IF outputs[s] = <<>> THEN 0 ELSE outputs[s][Len(outputs[s])]

(* stageDataFromJobs: what a job that is done or waiting has made           *)
StageText(s) == IF stageStatus[s] \in {"done", "waiting"} THEN LatestOutput(s) ELSE 0

BeginStage(s) ==
  /\ making.at = "idle" /\ stageStatus[s] = "pending"
  /\ made < MaxMade /\ made' = made + 1
  /\ IF s > 1 /\ StageText(s - 1) = 0
     THEN stageStatus' = [stageStatus EXCEPT ![s] = "error"] /\ UNCHANGED making
     ELSE /\ stageStatus' = [stageStatus EXCEPT ![s] = "running"]
          /\ making' = [at |-> "store", stage |-> s, output |-> 0]
  /\ UNCHANGED <<outputs, stored>>

InputCopy(s) == IF s = 1 THEN <<>> ELSE <<[field |-> s - 1, tagged |-> FALSE]>>

(* persistRun; a response may have no output                                *)
StoreRun ==
  /\ making.at = "store"
  /\ stageStatus[making.stage] = "running"
  /\ LET s == making.stage
     IN  \E out \in {<<>>, <<[field |-> s, tagged |-> TRUE]>>} :
           /\ stored' = stored \o InputCopy(s) \o out
           /\ making' = [making EXCEPT !.at = "record",
                           !.output = IF out = <<>> THEN 0 ELSE Len(stored')]
  /\ UNCHANGED <<stageStatus, outputs, made>>

(* wasStopped, the status is no longer "running"                            *)
DropRun ==
  /\ making.at = "store" /\ stageStatus[making.stage] # "running"
  /\ making' = Resting
  /\ UNCHANGED <<stageStatus, outputs, stored, made>>

Completed(s, status) ==
  [c \in StageNumbers |-> CASE c = s -> status
                            [] c = s + 1 /\ status = "done" -> "pending"
                            [] OTHER -> stageStatus[c]]

(* UpdateRuns, and the status                                               *)
RecordRun ==
  /\ making.at = "record"
  /\ outputs' = [outputs EXCEPT ![making.stage] = Append(@, making.output)]
  /\ \E status \in {"done", "waiting"} : stageStatus' = Completed(making.stage, status)
  /\ making' = Resting
  /\ UNCHANGED <<stored, made>>

(* UpdateRuns fails, or the process dies: the job is pending again          *)
LoseRun ==
  /\ making.at = "record"
  /\ stageStatus' = [stageStatus EXCEPT ![making.stage] = "pending"]
  /\ making' = Resting
  /\ UNCHANGED <<outputs, stored, made>>

ApproveStage(s) ==
  /\ stageStatus[s] = "waiting"
  /\ stageStatus' = Completed(s, "done")
  /\ UNCHANGED <<outputs, stored, making, made>>

(* a stage is replayed, and with it every later one that has a job          *)
ReplayStage(s) ==
  /\ stageStatus[s] = "done"
  /\ stageStatus' = [c \in StageNumbers |->
       IF c >= s /\ stageStatus[c] # "none" THEN "pending" ELSE stageStatus[c]]
  /\ UNCHANGED <<outputs, stored, making, made>>

ViewsNext ==
  \/ \E s \in StageNumbers : BeginStage(s) \/ ApproveStage(s) \/ ReplayStage(s)
  \/ StoreRun \/ DropRun \/ RecordRun \/ LoseRun

ViewsSpec == ViewsInit /\ [][ViewsNext]_viewVars

-----------------------------------------------------------------------------
(* The three readers                                                        *)

(* Mutation: the newest wins, tagged or not.                                *)
PreferNewest(a, b) == a > b

(* preferArtifact: a tagged artifact before an untagged one, then the newer *)
PreferArtifact(a, b) ==
  IF stored[a].tagged # stored[b].tagged THEN stored[a].tagged ELSE a > b

(* buildDocDetail: one artifact per file name; the last body's is canonical *)
OfField(f) == {a \in DOMAIN stored : stored[a].field = f}
PageShows(f) ==
  IF OfField(f) = {} THEN 0
  ELSE CHOOSE a \in OfField(f) : \A b \in OfField(f) \ {a} : PreferArtifact(a, b)

(* RunGetDocument: the most polished body that there is                     *)
Quoted ==
  LET found == {s \in 1..LastBody : StageText(s) # 0}
  IN  IF found = {} THEN 0 ELSE StageText(Max(found))

(* Mutation: a stage that is not done is passed over like a skipped one.    *)
PassOverUndone(s) ==
  /\ stageStatus[s] = "done" /\ LatestOutput(s) # 0
  /\ \A c \in s + 1..LastBody : stageStatus[c] # "done" \/ LatestOutput(c) = 0

(* ResolveCanonicalBody: a stage without a job or output is passed over,    *)
(* one that is not done is an error                                         *)
ResolvesTo(s) ==
  /\ stageStatus[s] = "done" /\ LatestOutput(s) # 0
  /\ \A c \in s + 1..LastBody :
       stageStatus[c] = "none" \/ (stageStatus[c] = "done" /\ LatestOutput(c) = 0)

(* Every run that stored an output was recorded as well.                    *)
AllRecorded ==
  \A a \in DOMAIN stored :
    stored[a].tagged => \E i \in DOMAIN outputs[stored[a].field] :
                          outputs[stored[a].field][i] = a

(* The page shows the output of a stage's latest run, not the copy of it    *)
(* that a later stage stored as its input (documents.go:460); unless a run  *)
(* was stored and not recorded, or the latest run has no output.            *)
PageShowsOutput ==
  AllRecorded =>
    \A s \in 1..LastBody : LatestOutput(s) # 0 => PageShows(s) = LatestOutput(s)

(* What the agent may edit is what it quotes: update_document never changes *)
(* an earlier draft of the body that get_document shows (stage_update.go:   *)
(* 219, get_document.go:78).                                                *)
EditsWhatItQuotes ==
  \A s \in 1..LastBody : ResolvesTo(s) => Quoted = LatestOutput(s)
=============================================================================
