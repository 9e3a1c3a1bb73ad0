------------------------------ MODULE Clarify ------------------------------
(***************************************************************************)
(* The conversation of an LLM stage that may ask questions (clarify).  The *)
(* stage sends its input text to the model; questions park the job until a *)
(* user has answered them and sends it back; then the answers of the       *)
(* latest run are sent instead of the text (runLLMText and                 *)
(* buildQAFollowup, server/core/worker.go), into a session that is kept    *)
(* under the job's id (server/core/adk/runner.go).                         *)
(*                                                                         *)
(* A replay of an earlier stage (putJobStatus, server/api/rest/jobs.go)    *)
(* and an edit of its output from the chat (UpdateStageArtifactAt,         *)
(* server/core/stage_update.go) delete the session and re-pend the job.    *)
(*                                                                         *)
(* The text is a version, a run is known by its number.  What happens when *)
(* two write the runs at once is the subject of RunHistory, and of the     *)
(* jobs' status that of JobPipeline.                                       *)
(***************************************************************************)
EXTENDS Naturals, Sequences

CONSTANTS
  MaxTexts,      \* bound: versions of the input text
  MaxTurns,      \* bound: attempts of the stage
  MaxReplays     \* bound: replays and edits of the stage before

ASSUME ClarifyAssumption ==
  MaxTexts \in Nat \ {0} /\ MaxTurns \in Nat /\ MaxReplays \in Nat

VARIABLES
  version,     \* the output of the stage before
  source,      \* the status of its job: "done" or "pending"
  clarify,     \* the status of the stage's job
  asked,       \* asked[r]: run r left questions: "none", "open" or "answered"
  session,     \* the turns of the session, oldest first
  llm,         \* the goroutine: [at, read: the version, asked: the runs, message]
  replay,      \* the request that replays or edits: where that request is
  turns, replays,
  suspect      \* the session may be from an earlier text, see ContextIsCurrent

clarifyVars ==
  <<version, source, clarify, asked, session, llm, replay, turns, replays, suspect>>

Turns ==
  [kind : {"input"}, of : 1..MaxTexts] \cup [kind : {"reply", "answers"}, of : 1..MaxTurns]

Asked == UNION {[1..n -> {"none", "open", "answered"}] : n \in 0..MaxTurns}

ClarifyTypeOK ==
  /\ version \in 1..MaxTexts
  /\ source \in {"done", "pending"}
  /\ clarify \in {"pending", "running", "waiting", "error", "done"}
  /\ asked \in Asked
  /\ \A i \in DOMAIN session : session[i] \in Turns
  /\ llm.at \in {"idle", "send", "reply", "check", "save"}
  /\ llm.read \in 1..version /\ llm.asked \in Asked
  /\ llm.at # "idle" => llm.message \in Turns
  /\ replay \in {"idle", "delete", "own", "cascade"}
  /\ turns \in 0..MaxTurns /\ replays \in 0..MaxReplays

NoMessage == [kind |-> "none", of |-> 0]
IdleLLM == [at |-> "idle", read |-> 1, asked |-> <<>>, message |-> NoMessage]

ClarifyInit ==
  /\ version = 1 /\ source = "done"
  /\ clarify = "pending"
  /\ asked = <<>> /\ session = <<>>
  /\ llm = IdleLLM
  /\ replay = "idle"
  /\ turns = 0 /\ replays = 0
  /\ suspect = FALSE

-----------------------------------------------------------------------------
(* Mutation: a job without runs is not told from one with answers.          *)
FollowupAlways(runs) ==
  IF runs # <<>> /\ runs[Len(runs)] # "answered" THEN [kind |-> "input", of |-> version]
  ELSE [kind |-> "answers", of |-> Len(runs)]

(* the user message: the answers of the latest run, or else the input       *)
Followup(runs) ==
  IF runs # <<>> /\ runs[Len(runs)] = "answered" THEN [kind |-> "answers", of |-> Len(runs)]
  ELSE [kind |-> "input", of |-> version]

LlmAt(from, to) == llm.at = from /\ llm' = [llm EXCEPT !.at = to]

(* The worker takes the earlier stage first.                                *)
Claim ==
  /\ llm.at = "idle" /\ clarify = "pending" /\ source = "done"
  /\ turns < MaxTurns /\ turns' = turns + 1
  /\ clarify' = "running"
  /\ llm' = [at |-> "send", read |-> version, asked |-> asked, message |-> Followup(asked)]
  /\ suspect' = (suspect \/ replay # "idle")
  /\ UNCHANGED <<version, source, asked, session, replay, replays>>

(* getOrCreateSession, and the runner appends the user's message            *)
SendTurn ==
  /\ LlmAt("send", "reply")
  /\ session' = Append(session, llm.message)
  /\ UNCHANGED <<version, source, clarify, asked, replay, turns, replays, suspect>>

(* the model's answer is appended, unless the session has gone: an error    *)
ReceiveReply ==
  /\ session # <<>>
  /\ LlmAt("reply", "check")
  /\ session' = Append(session, [kind |-> "reply", of |-> Len(llm.asked) + 1])
  /\ UNCHANGED <<version, source, clarify, asked, replay, turns, replays, suspect>>

(* handleJobError re-pends the job, whatever its status                     *)
TurnFails ==
  /\ llm.at = "reply"
  /\ llm' = IdleLLM
  /\ clarify' = "pending"
  /\ UNCHANGED <<version, source, asked, session, replay, turns, replays, suspect>>

(* wasStopped: the result is dropped, its turns stay in the session         *)
TurnStopped ==
  /\ llm.at = "check" /\ clarify # "running"
  /\ llm' = IdleLLM
  /\ UNCHANGED <<version, source, clarify, asked, session, replay, turns, replays, suspect>>

TurnGoesOn ==
  /\ clarify = "running" /\ LlmAt("check", "save")
  /\ UNCHANGED <<version, source, clarify, asked, session, replay, turns, replays, suspect>>

(* UpdateRuns, and questions or a low confidence park the job               *)
SaveTurn ==
  /\ llm.at = "save"
  /\ \E q \in {"none", "open"} :
       /\ asked' = Append(llm.asked, q)
       /\ clarify' \in IF q = "open" THEN {"waiting"} ELSE {"waiting", "done"}
  /\ llm' = IdleLLM
  /\ UNCHANGED <<version, source, session, replay, turns, replays, suspect>>

-----------------------------------------------------------------------------
(* Users                                                                    *)

(* patchRun with the answers to the questions of the latest run             *)
AnswerQuestions ==
  /\ asked # <<>> /\ asked[Len(asked)] = "open"
  /\ asked' = [asked EXCEPT ![Len(asked)] = "answered"]
  /\ UNCHANGED <<version, source, clarify, session, llm, replay, turns, replays, suspect>>

(* waiting or error -> pending, waiting -> done, running -> error           *)
PutClarifyStatus ==
  /\ \E t \in {<<"waiting", "pending">>, <<"error", "pending">>,
               <<"waiting", "done">>, <<"running", "error">>} :
       clarify = t[1] /\ clarify' = t[2]
  /\ UNCHANGED <<version, source, asked, session, llm, replay, turns, replays, suspect>>

BeginReplay(next) ==
  /\ replay = "idle" /\ replay' = next
  /\ replays < MaxReplays /\ replays' = replays + 1

(* done -> pending for the earlier stage                                    *)
ReplaySource ==
  /\ BeginReplay("delete")
  /\ source = "done" /\ source' = "pending"
  /\ UNCHANGED <<version, clarify, asked, session, llm, turns, suspect>>

NewText == version < MaxTexts /\ version' = version + 1

(* the chat's edit: the text, then as below                                 *)
EditSource ==
  /\ BeginReplay("delete")
  /\ source = "done" /\ NewText
  /\ UNCHANGED <<source, clarify, asked, session, llm, turns, suspect>>

(* patchRun with an output: nothing after it is made again                  *)
PatchSource ==
  /\ replays < MaxReplays /\ replays' = replays + 1
  /\ NewText
  /\ suspect' = TRUE
  /\ UNCHANGED <<source, clarify, asked, session, llm, replay, turns>>

(* replay of the stage itself: its runs stay, and so do their answers       *)
ReplayClarify ==
  /\ BeginReplay("own")
  /\ clarify = "done" /\ clarify' = "pending"
  /\ UNCHANGED <<version, source, asked, session, llm, turns, suspect>>

DeleteStep ==
  \/ replay = "delete" /\ replay' = "cascade"
  \/ replay = "own" /\ replay' = "idle"

(* Mutation: only the session of the replayed job is deleted.               *)
DeleteOwnSession ==
  /\ DeleteStep
  /\ session' = IF replay = "own" THEN <<>> ELSE session
  /\ suspect' = (llm.at # "idle")
  /\ UNCHANGED <<version, source, clarify, asked, llm, turns, replays>>

(* ListForDocument fails, or the deletion, whose error is dropped: the      *)
(* request goes on all the same.                                            *)
KeepSessions ==
  /\ DeleteStep
  /\ suspect' = TRUE
  /\ UNCHANGED <<version, source, clarify, asked, session, llm, turns, replays>>

(* the sessions of all jobs of the document                                 *)
DeleteSessions ==
  /\ DeleteStep
  /\ session' = <<>>
  /\ suspect' = (llm.at # "idle")
  /\ UNCHANGED <<version, source, clarify, asked, llm, turns, replays>>

(* CascadeReplay                                                            *)
CascadeToClarify ==
  /\ replay = "cascade" /\ replay' = "idle"
  /\ clarify' = "pending"
  /\ UNCHANGED <<version, source, asked, session, llm, turns, replays, suspect>>

(* the earlier stage runs again and advances to this one                    *)
SourceRuns ==
  /\ source = "pending" /\ llm.at = "idle"
  /\ NewText
  /\ source' = "done" /\ clarify' = "pending"
  /\ suspect' = (suspect \/ replay = "delete")
  /\ UNCHANGED <<asked, session, llm, replay, turns, replays>>

ClarifyNext ==
  \/ Claim \/ SendTurn \/ ReceiveReply \/ TurnFails \/ TurnStopped \/ TurnGoesOn \/ SaveTurn
  \/ AnswerQuestions \/ PutClarifyStatus
  \/ ReplaySource \/ EditSource \/ PatchSource
  \/ DeleteSessions \/ KeepSessions \/ CascadeToClarify \/ ReplayClarify
  \/ SourceRuns

ClarifySpec == ClarifyInit /\ [][ClarifyNext]_clarifyVars

-----------------------------------------------------------------------------
(* Properties                                                               *)

Input(v) == [kind |-> "input", of |-> v]
InSession(turn) == \E i \in DOMAIN session : session[i] = turn

(* After a replay or an edit the stage starts "with a clean conversation    *)
(* context" (jobs.go:276): the model is not shown an earlier text.  The     *)
(* exceptions: the session was deleted while the stage ran, or not at all,  *)
(* or the stage ran while the request was under way, or the text was set    *)
(* with patchRun.                                                           *)
ContextIsCurrent ==
  (llm.at = "reply" /\ ~suspect) =>
    \A v \in 1..MaxTexts : InSession(Input(v)) => v = llm.read

(* Documentation: "The ADK session keyed by job.ID retains the prior turns, *)
(* so the model sees: input -> questions -> answers" (worker.go:574).  When *)
(* answers are sent, the session holds a text they are about.               *)
ModelSeesInput ==
  (llm.at = "reply" /\ llm.message.kind = "answers" /\ ~suspect) =>
    \E v \in 1..MaxTexts : InSession(Input(v))
=============================================================================
