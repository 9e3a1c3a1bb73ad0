# A TLA+ verification of document-pipeline

document-pipeline ingests scans, PDFs, text files and recordings, runs each of
them through a configured sequence of stages (transcription, OCR, LLM stages,
embedding) and makes the result searchable.  One Go process serves the REST
API and runs the worker; PostgreSQL holds documents, jobs and events; OpenSearch,
Qdrant and the model servers are reached over HTTP; a React frontend calls the
API.  This directory holds TLA+ modules of its core logic, the TLC
configurations that check them and theorems that TLAPS proves about them.

    tlc -workers 2 -config JobPipelineTwoUsers.cfg MCJobPipeline
    tlc -workers 2 -config Storage.cfg MCStorage
    tlc -workers 2 -config Conversations.cfg MCConversations
    for m in *Proofs.tla; do tlapm $m; done

## 1. Inventory

Paths are below `src/`.

| component | state | operations | correct when |
|---|---|---|---|
| **Worker loop** `server/core/worker.go` | jobs table (`UNIQUE(document_id, stage)`: status, runs), stage events, the batch in memory | `Run`, `runOnce`, `processJob`, the four stage kinds, `handleJobError`, `advancePipeline` | nothing is left running, forgotten or jumped over; retries end; nothing runs on the missing output of a failed stage |
| **Job operations** `server/api/rest/jobs.go`, `documents.go` | the same tables | stop, approve, reject, retry, replay (`putJobStatus`), `patchRun`, `streamJob`, set a context (`patchDocument`), the document's page, delete | a user's write and the worker's, in any order, leave a consistent document; the page shows the latest output |
| **Stage output edits** `server/core/stage_update.go` | last run of a done job | `UpdateStageArtifactAt`, `ResolveCanonicalBody` | later stages are made again from the edited text; what is edited is what is quoted |
| **Ingest** `server/core/ingest.go`, `api/rest/ingest.go` | documents, artifacts, key/value, first job, vault files | upload, webhook, `Ingest`, `finalize`, `createFirstJob` | one document per content hash; who is told "created" has all of it |
| **Run history and artifacts** `run_outputs.go`, `postgres/artifacts.go`, `filesystem` | runs column, artifact rows, vault files | `persistRun`, `UpdateRuns`, `patchRun` | the outputs of the latest run are readable; no run is lost without an overlap |
| **Clarification sessions** `core/adk` | a conversation per job | send input or answers, delete on replay or edit | answers follow the text they are about; a replay starts clean |
| **Search indexer** `core/indexer.go` | `index_queue`, filled by triggers | backfill, a batch of 50 per cycle, delete | every change is indexed in the end |
| **Vector store, series corpora** `store/qdrant`, `store/embed`, `worker.go:932`, `scripts/reembed.sh` | points, cached features, hash per series | embed, rebuild, skip when unchanged, wipe | the points are those of the present text, or a job is open or has failed |
| **Chunking** `worker.go:660` | none | split, pack, cut into windows | the chunks carry the whole text |
| **Live logs** `store/stream/manager.go` | subscribers per job | subscribe, publish, unsubscribe | a reader sees the end of the run it watches, and not before |
| **Janitor** `core/janitor.go` | none of its own | sweep temporary files, prune superseded artifacts | no live artifact is pruned, nothing dead stays for ever |
| **Chat and tools** `rest/chat.go`, `core/adk/tools` | chat session, pending confirmation, title | message, approve, reject, rename, delete, `update_document`, `get_document` | a text changes only after an approval, where the user saw it |
| **Pagination** `core/pagination.go`, `postgres/pagination.go` | none | pages by key, by offset, by id | a walk misses and repeats nothing |
| Repositories, configuration, router, MCP, model clients, frontend, one-off migrations | none, or single statements | | see PROJECT.json |

How they interact.  The jobs table is the one piece of state that everything
shares.  The worker polls it; handlers write it at any moment.  There is no lock
and no transaction: every statement of worker and handlers is atomic for itself
and anything may come in between.  A handler does not talk to the goroutine
that processes a job; a stop is a status that the goroutine looks at once
(`wasStopped`), after the model has answered.  Handlers and worker die together.

What is hard:

- *Interleaving*: a status is checked and then written (`putJobStatus`), a next
  job is looked for and then inserted (`advancePipeline`, twice: in the worker and
  in the handler), a document is copied when a stage starts and used minutes
  later, waiting jobs are listed and then re-pended one by one; the runs column is read,
  changed and written back whole by three kinds of writers.
- *Crashes*: a stage ends in three or four statements, an upload in seven writes; `ResetRunning`
  at the start repairs only the jobs left running.
- *Retries*: failures are counted over the life of a job; a backoff sleeps and then
  writes `pending` over whatever the job has become.
- *Cascades*: a replay and an edit re-pend all later jobs at once, a failure blocks
  those that are pending, an advance re-pends a single one.
- *Copies*: an input stored under the name of an output, a title read before a run, a hash left by
  an earlier rebuild, features of a collection cached for the life of the process.

`PROJECT.json` lists each hazard at its line with the properties that cover it,
or why none does.

## 2. Modules

| module | models |
|---|---|
| `JobPipeline` | the jobs table, the worker loop with its concurrent goroutines, and the requests that write jobs |
| `MCJobPipeline` | instances: short pipelines with the stage kinds of `config/pipeline.yaml` |
| `IndexQueue` | the index queue, its triggers and the indexer |
| `Ingest` | uploads statement by statement, with errors, crashes, deletes, and the sweep of temporary files |
| `Intake` | what an upload is promised: the abstract specification that `Ingest` implements |
| `RunHistory` | the runs column of a job, the files and artifact rows behind it, its writers and the janitor |
| `Corpus` | embed stage and its jobs, series rebuild and hash, changes of documents beside it, the vector store's client and its point ids, the re-embed script |
| `Pages` | walks over the pages of a list that changes |
| `MCStorage` | instances of `Ingest`, `RunHistory`, `Pages`, `IndexQueue` and `Corpus` |
| `MCCorpus` | two series whose points share their ids |
| `Clarify` | the conversation of a stage that asks questions |
| `Chat` | a chat: messages, the approval of an edit, rename, delete, and the document the edits change |
| `Streams` | live log readers, the channels and what the worker publishes |
| `Views` | the three readers of "the document's body" |
| `Chunking` | how a text is cut into chunks |
| `MCConversations` | instances of these five |
| `JobPipelineProofs`, `JobPipelineOrderProofs`, `JobPipelineOutputProofs` | theorems about `JobPipeline`, see section 4 |
| `IngestProofs`, `RunHistoryProofs`, `CorpusProofs` | theorems about the module each is named for |
| `ConversationsProofs` | theorems about `Clarify`, `Chat`, `Streams` and `Views` |
| `RetrievalProofs` | theorems about `Pages`, `IndexQueue` and `Chunking` |

### JobPipeline and the code

*Database.*  `status[d][s]` is the job's status column, `"absent"` where no row
exists.  `hasOut[d][s]` says that the last element of `runs` holds an output,
`fails` the number of `failed` rows that `CountFailures` would count (capped at the
limit, above which the outcome no longer changes), `context` whether the document has an
`additional_context` or linked contexts.  A text is never spelled out: what matters
is whether it exists and whether it was made from what its input stage
holds now (`fresh`, a history variable).

*Worker.*  `mode` and `cursor` are the program counter of `Run`/`runOnce`: at a stage,
take all pending jobs, run them to the end (`errgroup.Wait`), start again with the
first stage.  `pc[d]` is the goroutine of document `d` in the batch - there is at
most one, since a batch is of one stage and a document has one job there.
Its steps are the statements of `processJob`, in the code's order:

| `pc` | next statement | action |
|---|---|---|
| queued | semaphore, `docs.Get` | `Fetch` |
| fetched | `UpdateStatus(running)` | `MarkRunning` |
| started | start_if, skip_if, input, passthrough, or the model | `ParkForContext`, `SkipByType`, `NoInput`, `PassThrough`, `CallModel` |
| generate | the model answers or fails | `Answered`, `Fails` |
| check | `wasStopped` | `CheckStopped` |
| reread, title | the second `docs.Get` and the write of a title (before the run in `runOCR`, after it in `finishTranscribe`) | `Reread`, `WriteTitle` |
| save, pass | `persistRun`, `UpdateRuns` | `SaveRun` |
| park, done | `UpdateStatus(waiting)`, `UpdateStatus(done)` | `ParkForReview`, `MarkDone` |
| advance, update, insert | `advancePipeline` | `Advance`, `AdvanceUpdate`, `AdvanceInsert` |
| failed, requeue, exhaust, giveup, block | `handleJobError` | `CountFailure`, `Requeue`, `SaveErrorRun`, `GiveUp`, `Block` |

*Requests.*  `client[c]` is a request being served: where it is, what it does, to
which job.  `PutStatus` reads and checks, `WriteStatus` writes, `Approve*` is the handler's own
`advancePipeline`, `Cascade` is `CascadeReplay`; `PatchContext`, `ListWaiting` and `Nudge` are
`patchDocument`; `Edit`, `WriteEdit` and `Cascade` are `UpdateStageArtifactAt`.
A request that is refused or only reads changes nothing and is left out.

Abstractions to know of: the input of a stage is fixed per document (`Input`),
although `findInput` searches the outputs by field name; which of a document's titles is
written is left open, so `WriteTitle` may or may not write the row back (when it does,
with the copy of the context the goroutine has); the database does not
fail; the document is not deleted while a job of it runs; a document of a
series is embedded as one outside (its rebuild is `Corpus`).

### Ingest, Intake and the code

`reqAt[u]` is the statement an upload is at, `made[u]` the rows and files that exist on its behalf, which is what a
crash leaves behind: the temporary file, the source file, `documents`, its `artifacts` row, the file and row of a
supplied stage output (seed), the metadata in `key_value`, the event, the job.  The steps are those of `ingest` and
`finalize` in their order; `Webhook` uploads hold their bytes in memory and have no temporary file.  `IngestError`
fails any of them as the code does (the handler answers with an error and removes the temporary file), `Kill` takes all
requests with it, `DeleteUploaded` deletes a document between two statements, after which the
inserts that refer to it fail (`DocumentGone`).  `HasDocument` is both the duplicate check and the `UNIQUE` column, so the race of
two uploads is decided by the insert.  `Intake` knows only whether there is no document of a content, a
registered one or a ready one, and what each client was told; the refinement mapping is `DocOf` and `ToldOf`.

### RunHistory and the code

`runs` is `jobs.runs`; a run, its artifact row and its file share a number.  `author` is the worker (`persistRun`: file, row;
then `UpdateRuns` with the copy it took with the job), `editor[e]` a `patchRun` or an `UpdateStageArtifactAt` (read,
find the artifact, overwrite the file, write back), `janitor` the sweep (live set, list, file, row).
`RefuseRest` is the 422 of a `patchRun` whose next output is not one of the run's, after it has overwritten the file of
another; `EditFails` a failing `artifacts.Get`, `SaveAt` or `UpdateRuns`.  `Age` lets a week pass over an artifact.
`revived`, `overlapped` and `torn` are histories; `torn` holds the runs whose last edit stopped between the file and the preview.

### Corpus and the code

`owner[d]` is the document itself, its series, or nobody once the document is deleted.  An owner's text is a version with
`Chunks[v]` chunks, a text with a document less an earlier version.  `job[d]` and `fails[d]` are the embed job of a document and its
failures: `JobFails` is `handleJobError`, which queues the job again until the third failure and then leaves it at `error`.

`embedder` is the goroutine in `runEmbed` or `rebuildSeriesCorpus`: take a job, gather the texts and compare the hash
(`BeginEmbed`; a document whose outputs cannot be read is left out of its series, as in the code), delete, for every chunk
ensure the collection and put the point, save the run, set the hash.  A point is
addressed by `IdOf[o]` and its number, what `idFromUUID` keeps of the name of a chunk; `IdOf` is a constant, so that owners
may share ids, and an upsert replaces whatever is there.  A delete goes by the owner's name in the payload, as the code's does.
`FetchFeatures` fills the cache of `collectionFeatures`, an error as "no"; a `PUT` that meets 404 clears the cache and is tried once more.

Beside it, `SetText` is the end of the stages before, which re-pends the embed job; `EditText` (`patchRun`), `MoveDocument` (a
PATCH of the series) and `DeleteDocument` change texts and queue nothing; `QueueEmbed` is a retry or a replay.
`ScriptWipes`, `ScriptDrops`, `ScriptReplays` are the three parts of `scripts/reembed.sh`.  `behind`, `unsure` and `mixed` are
histories for the properties: owners whose text changed without a job being taken up since, hashes of a text that may not be whole any
more, points that may be of two rebuilds.

### Pages and the code

Rows are numbered in the order of `(created_at, id)`.  `PastCursor` and `Before` are the `WHERE` and `ORDER BY` of
`docSortMap` and `jobSortMap`.  A page is the set of the rows that fewer than `PageSize` others come before (`Rank`, `FirstOf`), since the order
within it is not what a walk can get wrong; `shown` counts how often each row was shown.  `NextToken` is the row read beyond the page, `SearchPage` the page of `listDocuments` by
an offset into the index, `SearchFails` its fall-back to a plain list, `ListChats` the cut behind the last chat shown.

### Clarify and the code

`asked[r]` says what run `r` left: no questions, open or answered ones.  `Followup` is `buildQAFollowup`: the answers of the
latest run, if it has any, else the input.  `session` is the ADK session of the job, appended to by the runner
(`SendTurn`, `ReceiveReply`), deleted by a replay or an edit (`DeleteSessions`) before the cascade re-pends the
job; `KeepSessions` is the same request when the jobs cannot be listed or a deletion fails, which the code passes over.
`suspect` records the overlaps, and the sessions kept, that the property excepts.

### Chat and the code

`post[p]` is a request that runs the agent.  A message is read, entered into the session, answered, perhaps with a proposal
(`ProposeEdit`, the approval card with the stage and text shown), and names the chat.  An approval reads the
card, appends the decision, resumes, and the tool writes the file and cascades.  `job` and `body` are the body stages, which
`MakeBody` and `ReplayBody` change beside.  The session service and the runner are libraries, modelled from how
they are used: a run on a missing session creates it.

### Streams and the code

`chan[r]` is the buffered channel of a reader, `Publish` drops into a full one, `CloseStream` is the handler's deferred
`Unsubscribe`, which removes the whole list of the job.  `PollStatus` is the handler's look at the status when no event came.
`log` says whether the job's stage publishes at all.  `DeleteJob` deletes the document: the status is `"gone"`, the worker's
writes change no row and the poll finds nothing.

### Views and Chunking and the code

`Views` runs the body stages and the one after them with `persistRun`'s copy of the input; `PageShows` is `buildDocDetail` with
`preferArtifact`, `Quoted` is `get_document`, `ResolvesTo` is `ResolveCanonicalBody`.  `Chunking` runs the loops of
`chunkMarkdown` and `chunkText` round by round, over every text, heading set, size and overlap up to the bounds; `packed` is the
builder `cur`, `first` and `start` are where the section and its next window begin.  That goldmark finds the headings is taken as given, and
that a heading with a text gives a section that is not blank.  The property compares the chunks with what they are for, not with another cutter.

### IndexQueue and the code

Each change of a document or job appends an entry in the same statement, as the triggers do
(`Enqueue`).  `TakeEntries` is the query of `processQueue`: the newest entry of each of the first `Batch`
documents, by id.  `ReadDocument`, `CollectStageData` and `ListJobs` are the reads of `indexDoc`,
`IndexOrDelete` and `CallFails` the call of OpenSearch, `DeleteEntries` the `DELETE` - a statement
PostgreSQL rejects, see below - and `Backfill` the one at the start, rejected likewise.  `DeleteDoc`
and `ClearIndex` are `deleteDocument`.

### Crashes and mutations

*Crash* ends the worker and all requests and keeps the database; `ResetRunning` follows.

*Mutations.*  A definition whose comment begins with "Mutation:" is no part of the
specification: it is the action it precedes with one plausible mistake, kept to
show that the property named in `PROJECT.json` would notice that mistake.

## 3. Runs

TLC explores every interleaving of an instance.  `MaxOps` bounds the requests of a
behaviour, `MaxCrashes` the crashes, in `IndexQueue` `MaxWrites` the changes and `MaxFailedCalls` the failed calls; the other
modules name theirs (`MaxErrors`, `MaxKills`, `MaxRuns`, `MaxEdits`, `MaxTurns` ...) at their declaration.
In `storage`, `MaxUpsets` bounds restarts and runs of the script together.  No other bound cuts the state space.

| run | instance | result |
|---|---|---|
| `one_user` | 1 document, stages vision-llm-embed, one request at a time, 3 requests out of stop, reject, retry, replay, set context; limit 2 | `TypeOK`, `SettledFresh` hold (about 1.1M states) |
| `two_users` | 1 document, same stages without size skip, two requests of any kind at once, 2 requests; limit 1 | `RunningIsOwned`, `HandOff`, `NoGaps`, `BlockHolds`, `OutputsKept` hold (about 260k states) |
| `live` | 2 documents (a recording with transcript, an image) in stages transcribe-vision, a retry or replay, a crash; limit 3 as in the code | `Settles` holds (about 175k states) |
| `review` | 1 document, one replay | `ReviewGate` is violated |
| `edit` | 1 document, one edit | `SettledFresh` is violated |
| `context` | 1 document, one context set | `ContextWakes` is violated |
| `transition` | 1 document, one stop | `OnlyValidTransitions` is violated |
| `index_full` | 2 documents, 1 entry a cycle, 2 changes | `InSync` is violated |
| `storage` | 3 uploads (two of the same bytes, one of these by webhook; two with a seed, one of these invalid), 1 error, 1 crash, 1 delete; 2 runs, 2 editors, 2 edits, 1 failing call, 1 crash; 6 rows in pages of 2, 2 changes; 2 indexed documents, 2 entries a cycle, 3 changes, 1 failed call, 1 crash; a document by itself and one of a series, a text of 2 chunks and one of 1, 2 changes, 1 failing request, 1 restart or run of the script, limit 3 as in the code | the invariants, the refinement and the liveness of `Ingest`, `RunHistory`, `Pages`, `IndexQueue`, `Corpus` hold (about 155k states) |
| `corpus_names` | two series with the same ids, 3 changes, nothing fails | `SkipsWhole` is violated |
| `conversations` | 2 texts, 3 attempts, 2 replays; 3 chat requests, 2 body stages, 3 pieces of work; 2 readers, buffer 1, 2 runs, 1 token, 2 commands; 2 body stages, 5 runs; texts of up to 5 runes, chunk sizes and overlaps up to 3 | the invariants of `Clarify`, `Chat`, `Streams`, `Views`, `Chunking` and `StreamsEnd` hold (about 569k states) |
| `clarify_replay` | 2 texts, 3 attempts, 1 replay | `ModelSeesInput` is violated |

`storage` and `conversations` are sums: the components in them share no variable, and `focus` names the one a behaviour is of,
while the others stay in their initial states.  Nothing is lost by that, because no property relates two of them, and the
states add up instead of multiplying.  What does interact is in one module: an upload and the janitor, a run and the janitor, the
client and the script, a chat and the document.

What the properties say:

- `RunningIsOwned`: a running job has a goroutine on it, or a restart is about to
  reset it.  Otherwise it would run for ever: `ListPending` never finds it again.
- `HandOff`: a done job always has a successor, or somebody is just about to create it.
  Only a crash between `done` and `advancePipeline` can break this, and does: the
  document then stops half way, and no restart repairs it.  The property therefore
  speaks of behaviours without a crash.
- `NoGaps`: jobs exist from the first applicable stage on without a gap.
- `BlockHolds`: after a stage has failed for good, nothing behind it is pending or running
  until a user writes the document's jobs.  (`held` is cleared by any such write,
  and a crash between `error` and `CascadeBlock` is exempt.)
- `SettledFresh`: when all is at rest and every job of a document is done, every output was
  made from what its input stage now holds.  The embed stage overwrites a replay's `pending`
  with `done`, and so does any stage between `wasStopped` and its last write; it is the
  advance of the replayed stage, which re-pends even a done successor, that repairs this.
  An edit is not followed by such an advance, so it breaks the property (`edit`); so does an approval
  that lands on a job re-pended since it was checked, which is why `one_user` leaves
  approvals out and `two_users` has them.
- `OutputsKept`: the worker's advance never wipes an output with its `ON CONFLICT`, although it looked for the next job in an
  earlier statement: whoever creates that job in between, the worker itself runs it only in a later batch.  An
  approval's advance has no such protection and is excepted: an approval that found no next job and resumes after the
  worker has made and run it replaces its runs by an empty list (TLC shows it when the exception is dropped, with one
  approval that the worker's own advance overtakes, and with two approvals of the same job).
- `InSync`: when documents stop changing, the index comes to hold the present version of each and none of
  the deleted ones.  It has to survive that the three reads of `indexDoc` and the write that
  follows are four moments, that a failed call may have taken effect, and a crash.
- `Settles`: the system comes to rest: retries end and pending jobs are taken up.
- `OneDocument`, `CreatedIsWhole`, `FilesBehindRows`, `NothingLost`: one document for a content although check and insert are
  two statements; "created" means the document has all that the worker needs; a row never precedes its file.
  `NothingLost` speaks of behaviours without error, crash and delete: with one, the document may stay without a job and
  refuse the same bytes as a duplicate, which `Intake` shows as registered and never ready.
- `ImplementsIntake`: the statements of uploads, in any interleaving with faults, come to the steps of `Intake`.
- `TmpRemoved`, `SupersededPruned`: no temporary file and no superseded output stays for ever.
- `LatestReadable`: the janitor never takes the outputs of the latest run, not even those whose run is being
  written.  The exception is a write-back of old runs over a newer one, which makes a superseded run the latest
  again (`jobs.go:220`).
- `HistoryKept`: writers that do not overlap lose no run, and the preview in the list is that of the file unless the run's
  last edit was cut short - refused for a later output, failed, or ended by a crash - which the next edit repairs.
- `HashMeansWhole`, `QuietMeansWhole`: a hash equal to the present text's, or no open and no failed job although one was taken up since the
  text changed, means that exactly the chunks of the present text are found under the owner's name.  They must survive failures at any
  chunk, the limit of retries, restarts, the collection dropped and made again, documents that move and go.  `Excepted` names what the design does not
  survive, owner by owner: shared ids; a hash of a text that an unfinished rebuild has replaced in the store, or that
  the text returned to (`unsure`); a delete whose error is only logged, and what the script leaves when it could not wipe, or drops beside a rebuild, or
  passes a job over (`mixed`).  Each was a counterexample first; shared ids are
  the run `corpus_names`.
- `CatchesUp`: when the texts rest, every owner that was taken up is embedded in the end or has a failed job, which the user sees and can retry.
- `DropHeals`: that the script drops the collection costs the worker no attempt: the 404 clears the cache and the upsert is tried once more.
- `WalkComplete`, `WalkOnce`: the walk of a changing list shows every row that stays, none twice.  Excepted: sorting by title, whose
  token carries a time, so that only its first page is right (`postgres/documents.go:128`); a search whose index moves.
- `ContextIsCurrent`: after a replay or an edit the model is not shown an earlier text, unless the stage ran while the session was deleted, or
  the deletion failed (`suspect`).
- `OnlyApproved`, `DeletedStays`: the agent edits only what a user approved, in the stage shown; a deleted chat comes back only by
  a request that was under way when it was deleted (`raced`), and by such a one it does.
- `EndsAfterRun`, `StreamsEnd`: a reader is not told the end of a run that goes on, and is told in the end, although a full channel drops the
  event and another reader's leaving unregisters it.  A reader opened while the job is pending ends as soon as it starts (`jobs.go:348`).
  Excepted is the job of a deleted document (`gone`).
- `PageShowsOutput`, `EditsWhatItQuotes`: page and agent agree on the body.  The page may show an older text when a run was
  stored and not recorded, or when the latest run has no output.
- `ChunksCover`: all of the text, in order, no chunk blank, too long or inside another, overlap only where a section was cut.

Why the bounds suffice.  The three stages are the three ways a stage treats a stop and a
review (vision: checked, never parks; llm: checked, parks; embed: not checked, last), and
the middle one has an input and a successor.  Every conflict the code allows is between one goroutine and one or
two requests on the same document; documents share only the loop and the semaphore, which `live`
exercises with two.  Three requests make stop-retry-replay chains; two at once
make the races of the handlers with each other.  A limit of 1 or 2 lets a job fail for
good within the bounds, and `live` uses the limit of the code, 3.  `two_users` also holds with three requests
(2.6M states), a size too large for daily use.  For the new components: three uploads are two of the same bytes, the one race there is, and a
bystander that is refused; two runs and two edits let a run be superseded, edited, swept and revived; two chunks to one is a
corpus that shrinks, so that a stale chunk can remain, and two changes are an upload and a new text, a move or a retry
(without the script, three changes hold as well: 277k states, a size too large for the sum; the invariants are proved for every bound); six rows in pages of two make three pages with an insert and a
delete between; three chat requests are a proposal, its approval and a third that overlaps both; a buffer of one overflows with the
second event, and two readers unregister each other; a text of five runes with chunks of up to three has sections shorter, equal and longer
than a chunk, with two to five windows.

### Where the code and its documentation part

- `review`: README.md:27-29 describes parking and approval.  A replay re-pends every later stage at once, so when
  the replayed stage parks, the next ones run without an approval.
- `edit`: "Only downstream stages re-run, so they consume the edited output"
  (`stage_update.go:137`).  A later stage that has read the old text and is past its
  stop check, or is the embed stage, overwrites the cascade's `pending` with `done`.
- `context`: the nudge of `documents.go:332` exists so that a context set later wakes the jobs
  that wait for one; set between the worker's copy of the document and its parking of the job, it wakes nobody.
- `transition`: `openapi.yaml:414` accepts only valid transitions; the check and the write are two statements, and the
  status overwritten may be another one than the status checked.
- `index_full`: `indexer.go:14` promises an index in sync.  The `DELETE` of handled entries (`indexer.go:137`) uses `?` as its
  placeholder, which PostgreSQL rejects, and the error is dropped; so entries
  stay for ever, every cycle takes the same first 50 documents, and those after them are never indexed.
  Up to 50 documents the index does follow (`storage`), at the price of writing all of them every two seconds.
- `clarify_replay`: `worker.go:574` sends the answers instead of the text because the session "retains the prior turns".  A replay of the
  finished stage deletes the session (`jobs.go:277`) and keeps the runs: the answers are sent into an empty session.
- `corpus_names`: `idFromUUID` (`client.go:237`) is given names like `series:NAME-0000`, of which it keeps the last sixteen
  characters, with 0 for each that is no hexadecimal digit.  Two series can share all their points, and each then believes its hash.

The named exceptions of the properties stand for further cases that the code does not guard against.  TLC shows each when its exception is
dropped; they are no runs of their own:

- `torn`: the loop of `patchRun` overwrites files "so list views stay in sync" (`jobs.go:178-180`), but a later output
  that the run has not ends it with 422 before `UpdateRuns` (`jobs.go:189-192`), as does a failing `UpdateRuns`: the file is new, the preview old.
- `overlapped`: the write-back of an edit drops a run that was appended since its read (`jobs.go:220`).
- the errors `NothingLost` excludes: a sheet sent again after an upload that failed behind the insert is a duplicate of a document without a job
  (`ingest.go:135`).
- `unsure`: the hash does not know of a rebuild that failed since; if the text returns to the former one, the rebuild is skipped on what is left
  (`worker.go:966`).
- the failed job that `CatchesUp` admits: after one failed request for the features the client takes the collection for missing as long as the
  process lives, tries to create it, and every upsert fails up to the limit (`client.go:154`).
- `suspect`: errors of the listing and of the deletion of sessions are dropped (`jobs.go:279`, `runner.go:248-253`), and the stage restarts in its
  old conversation.
- `gone`: the poll of a stream ignores that the job is not found any more (`jobs.go:348`), and nothing else ends it.
- `raced`: a deleted chat is made again by a message under way (`runner.go:226`).  In the same way the title derived from it
  replaces the one a user has set meanwhile (`chat.go:361`), so that nothing is claimed of titles.

### Fairness

`FairSpec` has weak fairness of the loop, of each goroutine and of each request
begun.  The loop only sleeps and polls; `errgroup` runs every goroutine of a batch, and
a semaphore slot is released at the end of each, so weak fairness is enough (a goroutine that
waits for the slot is enabled for good once the others have ended); net/http runs a handler to its end.
A model call ends, with an answer or an error, because the clients have timeouts.  Restart
after a crash is `restart: unless-stopped` (`docker-compose.yml:43`).  Uploads, users and crashes have no
fairness: nothing obliges them.  In `IndexQueue` only the indexer, a loop with a two-second timer,
is fair; a failed call is bounded by `MaxFailedCalls` and otherwise free.  In `Ingest`, a handler runs to its end (net/http) and the sweep of
temporary files is a ticker; in `RunHistory` the janitor is, and `Age` is strongly fair: weeks pass, though not during a sweep or a
run.  In `Corpus` only the worker's loop (`Embed`, which never waits for another) and a script already begun are fair.  In `Streams` a reader's loop has a timeout in its `select`
and always goes on (`jobs.go:330`); neither worker nor users nor connections are.  Faults, users and uploads never are.

## 4. Proofs

`JobPipelineProofs`, `JobPipelineOrderProofs` and `JobPipelineOutputProofs` prove for every number of documents, every
pipeline, every limit and every bound, from the assumptions named in `JobPipeline` (stages are 1..N, an input is an earlier stage,
positive limits):

- `TypeCorrect`: `TypeOK` always holds.  By itself it is not inductive: that a goroutine at `advance`
  has a next stage, and a request a stage to write, is needed too (`Requested`, together `TypeInv`).
- `OwnedCorrect`: `RunningIsOwned` always holds.  It needs to know that no goroutine exists
  outside a batch (`AtRest`), since a new batch moves the cursor; and that a user
  never writes `running` (only stop, approve, reject, retry and replay exist, and none ends there).
- `HandOffCorrect`: `HandOff` always holds.  The argument follows the one who wrote `done`: a goroutine goes from `done` to
  `advance`, an approval from `write` to `advance`, both stay there until the successor exists, and no
  statement deletes a job.
- `NoGapsCorrect`: `NoGaps` always holds.  What is written by goroutines and requests is reduced to a few
  forms (`TaskWriting`, `RequestWriting`); what they write is about jobs that exist
  (`Existing`), and a job is only created behind one that exists (`JobsGrow`).
- `BlockCorrect`: `BlockHolds` always holds.  The strengthening is `Behind`: a goroutine is never behind a failed stage of its
  document - a batch is taken from the first stage with a pending job, and nothing behind a failed one is pending -
  so neither its own writes nor its advance can wake a blocked job.  That `CascadeBlock`, which looks only for
  pending jobs, misses no running one follows from `RunningIsOwned`.
- `OutputsAreKept`: `OutputsKept`, edits and crashes included.  The goroutine looks for its next job in one statement and creates it in another;
  whoever creates that job in between, it has no output while the goroutine still waits to insert (`NothingToWipe`), because only this
  batch's end lets the worker run it, and an edit is of a job that had its output before (`EditsAreOfOutputs`).
- `SettledIsFresh`: `SettledFresh`, while the process lives and users stop, reject, retry, replay and set contexts.  Edits break it (the run
  `edit`); so does an approval that lands on a job re-pended since it was checked; and a crash between `done` and the advance leaves nobody to re-pend the
  successor.  The heart is `StaleIsDue`: at an output that is out of date, or in front of it, some stage is unfinished or is about to
  be made so by the advance of the goroutine; whoever finishes that stage makes the next one due.  `InOrder` says of the
  goroutine that the text it works with is its input's (`HasRead`: the batch is of one stage and its input an earlier one,
  so nothing makes the input again beside it) and that it never finishes a job with a text out of date.

The other proof modules prove, for all values of the constants:

- `IngestProofs`: `IngestTypeOK`, `OneDocument`, `CreatedIsWhole`, `FilesBehindRows`, `NothingLost` and `ImplementsIntake`.  The strengthening `UploadInv` says which
  pieces an upload has at each of its steps; it is about one upload, so that a step preserves it for its own upload and leaves the
  others alone (`OwnKept`, `OthersKept`), and only `OneDocument` relates two.  For the refinement, `DocOf` is freed of its
  union (`DocOfMeans`), and each step is shown to be one of `Intake` or a stutter; that `CreateFirstJob` is one step from
  registered to ready needs `OneDocument`, or else another upload's document could be there already.  For `NothingLost` each upload keeps what it has done and what it was told is so (`Kept`): a
  duplicate's document is at least as far as its row, and no upload that has inserted a row ends without a job.
- `ConversationsProofs`, Streams: `StreamTypeOK`, the bound of the channels in it, and `EndsAfterRun`.  The strengthening: a run that is no longer generated
  is over (`RunOver`), and a "done" in the channel of a reader is about a run not older than the one it watches (`Watches`).
- `ConversationsProofs`, Clarify: `ClarifyTypeOK` and `ContextIsCurrent`.  The strengthening follows the session: without an overlap
  its inputs are of the text the next attempt will read.
- `ConversationsProofs`, Chat: `ChatTypeOK`, `OnlyApproved` and `DeletedStays`.  The number of cards is bounded by that of the requests because a
  request proposes once (`Spent`, an argument about cardinalities); `PostInv` carries the card's stage from the approval to the write.
- `ConversationsProofs`, Views: `PageShowsOutput` and `EditsWhatItQuotes`.  `ViewsInv`: the runs of a stage are in the order in which their outputs were
  stored, all tagged with the stage, and the one to be recorded comes last; so the newest artifact with the tag is the latest run's.
- `RetrievalProofs`, Pages: `PagesTypeOK`, `WalkComplete` and `WalkOnce`, for every table, titles, page size and mode.  The lemmas say what a page is: at
  most `PageSize` rows, at least one when there is any, and a prefix of the order (`LeftBehind`); the token after it is its last row or the end
  (`TokenMeans`).  `KeysetWalk`, the strengthening: what was there all the time is shown or behind the key, and what is shown
  is not.  `SearchWalk` says the same of the offset: while the index rests, the hits before it are those shown.
- `RetrievalProofs`, IndexQueue: `IndexTypeOK`; that the end of a cycle is noticed needs that there is an entry to handle, which is that `Taken` is
  never empty (`SomethingTaken`) and `Current` is always one of `todo`.  `StarvedForEver` generalizes `index_full` from one instance to every
  `Batch`: once `Batch` documents with smaller ids have had an entry, and no entry of the document is being handled, this stays so, and the document's
  place in the index is never written again, only cleared.
- `RetrievalProofs`, Chunking: `ChunksCover` for every text.  The strengthening says up to which rune the text is carried (`Reached`), that what is
  packed ends where the section begins (`PackedWell`, which needs that only the text before the first heading can be blank, or a
  chunk would be longer than its sections), and that the last chunk ends before the window to come (`LastChunk`).

- `RunHistoryProofs`: `HistoryTypeOK`, `LatestReadable` and `HistoryKept`.  Whatever copy is written back, its ids are those of runs begun, in
  order, so that a new run is always the largest (`Shapes`).  `SweepSafe`: the janitor's list holds neither the latest run, which
  was live or too young when the list was made, nor the one in progress, which is not yet a week old.  For `HistoryKept`: without
  an overlap there is one writer and its copy is the table up to the preview of the run it edits (`InStep`), and a preview differs from its
  file only for runs in `Unwritten`: those torn, and the one an editor has overwritten and not yet written back.  Refusal, failure
  and crash move a run from the second kind to the first (`KeptByDie`), and `WriteBack` takes it out.
- `CorpusProofs`: `CorpusTypeOK`, `HashMeansWhole` and `QuietMeansWhole`, for any documents, series, ids, lengths of texts and limit.  The
  invariant is one statement about the goroutine and one about every owner (`Sound`).  `EmbedderSound` follows the rebuild: what it embeds is the present
  text or its owner is behind (`BuildCurrent`), its job is open (`BusyJob`), the chunks before the present one are stored and no others
  (`Progress`).  `OwnerSound` says that no hash is of a later text or of the one being embedded (`HashOld`), so that an abandoned
  rebuild leaves no hash that lies, that a hash not excepted is true (`HashTrue`), and that an owner with no open and no failed job is whole
  (`SettledWhole`).  While the script has dropped the collection and not yet queued the jobs, no hash is of a present text (`StaysWiped`).
  Where ids are not shared, a put at one owner's id leaves what is held under other names alone.  Proved from the assumption that documents and series have different names
  (`CorpusAssumption`).

Model-checked only: `Settles`, `InSync`, `TmpRemoved`, `SupersededPruned`, `CatchesUp`, `StreamsEnd` (liveness,
which rests on ENABLED), `DropHeals`, and the violations.  Liveness under fairness is beyond the installed provers.  No theorem rests on an
induction over data: the folds of an earlier `Chunking` are steps of its loops now, and the least element of a set (`LeastNumber`) takes the
place of the library's induction theorems.

## 5. Plan

1. *Done*: `JobPipeline`, its runs, and the theorems about its safety invariants.
2. *Done*: `IndexQueue`, `Ingest` with `Intake`, `RunHistory`, `Corpus`, `Pages`, `Clarify`, `Chat`, `Streams`, `Views`, `Chunking`, and the theorems of
   section 4 about them.
3. *Done*: the queue's starvation as a theorem, the freshness of outputs at rest, the completeness of walks.
4. `AbstractPipeline`: a document as a chain of stages each of which is open, parked, failed or finished, to which
   `JobPipeline` is mapped.
5. Stage fields, as a pure algorithm.

## 6. Not modelled

Router, conversions, configuration and wiring, model clients, the frontend, single-statement
repositories and the one-off migrations: stateless or pure I/O.  Within the modelled components:

- file types, PDF and audio preparation, and a rename that crosses file systems (`Ingest` treats the move as one step);
- the text of prompts and answers, and their parsing; tool calls that only read;
- the digits of point ids (`Corpus` takes which owners share ids as a constant, the chunks of one owner as
  distinct, which is certain up to number 9999) and the scoring of a search;
- in `Corpus`, what a user's stop of an embed job does to the goroutine (that is `JobPipeline`'s);
- the choice of a stage's input by field name (fixed per stage), and a stage skipped by file type in `Views`;
- database errors on a job's status write, which the code drops: the job then stays running until the next restart;
- the fields of a document other than context and title, and contexts' own table.
