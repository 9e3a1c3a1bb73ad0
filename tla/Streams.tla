------------------------------ MODULE Streams ------------------------------
(***************************************************************************)
(* The live log of one job: the channels of its readers                    *)
(* (server/store/stream/manager.go), the handler that serves a reader      *)
(* (streamJob, server/api/rest/jobs.go), and what the worker publishes     *)
(* around a run (server/core/worker.go).  A channel that is full drops     *)
(* what is published, and the first reader that leaves unregisters the     *)
(* others; what ends a reader then is its own look at the job's status.    *)
(***************************************************************************)
EXTENDS Naturals, Sequences

CONSTANTS
  Readers,        \* requests for the job's stream
  BufferSize,     \* bufferSize of manager.go (64)
  MaxGenerations, \* bound: runs of the job
  MaxTokens,      \* bound: tokens published
  MaxCommands     \* bound: stops, replays and deletions by users

ASSUME StreamsAssumption ==
  /\ BufferSize \in Nat \ {0}
  /\ MaxGenerations \in Nat /\ MaxTokens \in Nat /\ MaxCommands \in Nat

VARIABLES
  jobStatus,   \* the status column; "done" stands for "waiting" as well, and
               \* "gone" for no row: the document was deleted
  log,         \* the job's stage publishes its tokens and end, or not (ocr)
  phase,       \* the worker: "idle", "generate", "store", "publish" or "fail"
  run,         \* runs begun
  ended,       \* the last run that is over, or was stopped
  subs,        \* the readers in m.subs
  chan,        \* chan[r]: the events in r's channel
  reader,      \* reader[r]: [at, initial, watched]
  tokens, commands

streamVars ==
  <<jobStatus, log, phase, run, ended, subs, chan, reader, tokens, commands>>
readers == <<subs, chan, reader>>

StreamTypeOK ==
  /\ jobStatus \in {"pending", "running", "done", "error", "gone"}
  /\ log \in BOOLEAN
  /\ phase \in {"idle", "generate", "store", "publish", "fail"}
  /\ run \in 0..MaxGenerations /\ ended \in 0..run
  /\ subs \subseteq Readers
  /\ \A r \in Readers : /\ chan[r] \in Seq({"token", "done"})
                        /\ Len(chan[r]) <= BufferSize
  /\ \A r \in Readers : reader[r].at \in {"new", "read", "open", "told", "left"}
  /\ tokens \in 0..MaxTokens /\ commands \in 0..MaxCommands

StreamInit ==
  /\ jobStatus = "pending" /\ log \in BOOLEAN
  /\ phase = "idle" /\ run = 0 /\ ended = 0
  /\ subs = {}
  /\ chan = [r \in Readers |-> <<>>]
  /\ reader = [r \in Readers |-> [at |-> "new", initial |-> "pending", watched |-> 0]]
  /\ tokens = 0 /\ commands = 0

-----------------------------------------------------------------------------
(* Mutation: no default case, the channel takes everything.                 *)
PublishUnbounded(event) ==
  chan' = [r \in Readers |-> IF r \in subs THEN Append(chan[r], event) ELSE chan[r]]

Publish(event) ==
  chan' = [r \in Readers |-> IF r \in subs /\ Len(chan[r]) < BufferSize
                             THEN Append(chan[r], event) ELSE chan[r]]

PublishIf(logs, event) == IF logs THEN Publish(event) ELSE UNCHANGED chan

WorkerAt(from, to) == phase = from /\ phase' = to

StartRun ==
  /\ WorkerAt("idle", "generate")
  /\ jobStatus = "pending" /\ run < MaxGenerations
  /\ jobStatus' = "running" /\ run' = run + 1
  /\ UNCHANGED <<log, ended, readers, tokens, commands>>

PublishToken ==
  /\ phase = "generate" /\ log
  /\ tokens < MaxTokens /\ tokens' = tokens + 1
  /\ Publish("token")
  /\ UNCHANGED <<jobStatus, log, phase, run, ended, subs, reader, commands>>

(* the model answered: wasStopped, which a job that has gone is not         *)
CheckStopped ==
  /\ phase = "generate"
  /\ ended' = run
  /\ IF jobStatus \in {"running", "gone"}
     THEN phase' = "store" /\ UNCHANGED chan
     ELSE phase' = "idle" /\ PublishIf(log, "done")
  /\ UNCHANGED <<jobStatus, log, run, subs, reader, tokens, commands>>

SetStatus(status) == jobStatus' = IF jobStatus = "gone" THEN "gone" ELSE status

(* No artifact is inserted for a document that has gone: a run without an   *)
(* output can be stored, those of the stages without a log have one.        *)
StoreResult ==
  /\ WorkerAt("store", IF log THEN "publish" ELSE "idle")
  /\ jobStatus = "gone" => log
  /\ SetStatus("done")
  /\ UNCHANGED <<log, run, ended, readers, tokens, commands>>

PublishDone ==
  /\ WorkerAt("publish", "idle")
  /\ Publish("done")
  /\ UNCHANGED <<jobStatus, log, run, ended, subs, reader, tokens, commands>>

(* the model or a write failed, and handleJobError publishes as well        *)
FailGeneration ==
  /\ WorkerAt("generate", "fail") \/ WorkerAt("store", "fail")
  /\ ended' = run
  /\ Publish("done")
  /\ UNCHANGED <<jobStatus, log, run, subs, reader, tokens, commands>>

(* after the backoff                                                        *)
StoreFailure ==
  /\ WorkerAt("fail", "idle")
  /\ SetStatus("pending") \/ SetStatus("error")
  /\ UNCHANGED <<log, run, ended, readers, tokens, commands>>

Command == commands < MaxCommands /\ commands' = commands + 1

StopJob ==
  /\ Command
  /\ jobStatus = "running"
  /\ jobStatus' = "error" /\ ended' = run
  /\ UNCHANGED <<log, phase, run, readers, tokens>>

ReplayJob ==
  /\ Command
  /\ jobStatus \in {"done", "error"}
  /\ jobStatus' = "pending"
  /\ UNCHANGED <<log, phase, run, ended, readers, tokens>>

(* deleteDocument: the jobs go with the document's row                      *)
DeleteJob ==
  /\ Command
  /\ jobStatus # "gone"
  /\ jobStatus' = "gone"
  /\ UNCHANGED <<log, phase, run, ended, readers, tokens>>

-----------------------------------------------------------------------------
(* Mutation: the initial status is never read.                              *)
OpenUnread(r) ==
  /\ reader[r].at = "new"
  /\ reader' = [reader EXCEPT ![r] = [at |-> "read", initial |-> "pending",
       watched |-> IF jobStatus = "running" THEN run ELSE 0]]
  /\ UNCHANGED <<jobStatus, log, phase, run, ended, subs, chan, tokens, commands>>

(* streamJob reads the job (404 when it has gone), and then subscribes      *)
OpenStream(r) ==
  /\ reader[r].at = "new" /\ jobStatus # "gone"
  /\ reader' = [reader EXCEPT ![r] = [at |-> "read", initial |-> jobStatus,
       watched |-> IF jobStatus = "running" THEN run ELSE 0]]
  /\ UNCHANGED <<jobStatus, log, phase, run, ended, subs, chan, tokens, commands>>

Subscribe(r) ==
  /\ reader[r].at = "read"
  /\ reader' = [reader EXCEPT ![r].at = "open"]
  /\ subs' = subs \cup {r}
  /\ UNCHANGED <<jobStatus, log, phase, run, ended, chan, tokens, commands>>

(* Unsubscribe deletes the whole list of the job                            *)
CloseStream(r, at) ==
  /\ reader' = [reader EXCEPT ![r].at = at]
  /\ subs' = {}

ReadEvent(r) ==
  /\ reader[r].at = "open" /\ chan[r] # <<>>
  /\ chan' = [chan EXCEPT ![r] = Tail(@)]
  /\ IF Head(chan[r]) = "done" THEN CloseStream(r, "told") ELSE UNCHANGED <<subs, reader>>
  /\ UNCHANGED <<jobStatus, log, phase, run, ended, tokens, commands>>

(* Mutation: only a job that is done ends its streams.                      *)
PollDone(r) ==
  /\ reader[r].at = "open" /\ chan[r] = <<>>
  /\ jobStatus # reader[r].initial /\ jobStatus = "done"
  /\ CloseStream(r, "told")
  /\ UNCHANGED <<jobStatus, log, phase, run, ended, chan, tokens, commands>>

(* no event for a while: another look at the status; the error of a job     *)
(* that has gone is ignored                                                 *)
PollStatus(r) ==
  /\ reader[r].at = "open" /\ chan[r] = <<>>
  /\ jobStatus \notin {reader[r].initial, "gone"}
  /\ CloseStream(r, "told")
  /\ UNCHANGED <<jobStatus, log, phase, run, ended, chan, tokens, commands>>

LeaveStream(r) ==
  /\ reader[r].at = "open"
  /\ CloseStream(r, "left")
  /\ UNCHANGED <<jobStatus, log, phase, run, ended, chan, tokens, commands>>

StreamNext ==
  \/ StartRun \/ PublishToken \/ CheckStopped \/ StoreResult \/ PublishDone
  \/ FailGeneration \/ StoreFailure \/ StopJob \/ ReplayJob \/ DeleteJob
  \/ \E r \in Readers : \/ OpenStream(r) \/ Subscribe(r) \/ ReadEvent(r)
                        \/ PollStatus(r) \/ LeaveStream(r)

StreamSpec == StreamInit /\ [][StreamNext]_streamVars

(* A reader's loop has a timeout in its select: it always goes on.  Nothing *)
(* is assumed of the worker, the users or the readers' connections.         *)
StreamFairSpec ==
  /\ StreamSpec
  /\ \A r \in Readers : WF_streamVars(ReadEvent(r) \/ PollStatus(r))

-----------------------------------------------------------------------------
(* Properties                                                               *)

(* Who watches a job that runs is told "done" only when that run is over or *)
(* was stopped: an event of an earlier run never ends the stream of a later *)
(* one (worker.go:610-645, jobs.go:335).                                    *)
EndsAfterRun ==
  \A r \in Readers :
    reader[r].at = "told" => ended >= reader[r].watched

(* "A final done event closes the stream when generation completes or       *)
(* status changes" (openapi.yaml:488): even when the event was dropped, or  *)
(* another reader has left (manager.go:31, 52).  The exception is a job     *)
(* that was deleted, whose status nobody can see.                           *)
StreamsEnd ==
  \A r \in Readers :
    reader[r].at = "open"
      ~> (reader[r].at # "open" \/ jobStatus \in {reader[r].initial, "gone"})
=============================================================================
