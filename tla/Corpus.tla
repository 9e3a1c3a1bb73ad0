------------------------------- MODULE Corpus -------------------------------
(***************************************************************************)
(* The embed stage and the vector store.  The text of a document belongs   *)
(* to an owner of chunks: the document itself (runEmbed) or its series,    *)
(* whose documents are embedded together (rebuildSeriesCorpus, both        *)
(* core/worker.go).  A rebuild deletes the owner's points and upserts its  *)
(* chunks one by one; the hash of the last complete rebuild of a series    *)
(* lets the next one be skipped.                                           *)
(*                                                                         *)
(* Underneath, the client of the store names a point by what is left of    *)
(* the owner's name and caches whether the collection exists               *)
(* (store/qdrant); beside it users edit, move and delete documents         *)
(* (api/rest), and an operator's script wipes the hashes, drops the        *)
(* collection and replays every embed job (scripts/reembed.sh).            *)
(*                                                                         *)
(* The text of an owner is a version; a text with a document less, or of   *)
(* before an edit, is an earlier one.  One embed job runs at a time        *)
(* (max_concurrent: 1).  What a stop or an advance does to a job in        *)
(* progress, other than to queue it again, is JobPipeline's subject.       *)
(***************************************************************************)
EXTENDS Naturals

CONSTANTS
  Docs, Series,
  Home,           \* Home[d]: the owner of d's text at the start
  IdOf,           \* IdOf[o]: what the ids of o's points keep of its name
  Chunks,         \* Chunks[v]: the number of chunks of a text of version v
  Limit,          \* failures after which a job is given up
  MaxRevisions,   \* bound: changes by users and by the stages before embed
  MaxFailures,    \* bound: failing requests
  MaxRestarts,    \* bound: restarts of the process
  MaxScripts      \* bound: runs of the script

Owners == Docs \cup Series
Ids == {IdOf[o] : o \in Owners}
Versions == DOMAIN Chunks
MaxChunks == CHOOSE n \in {Chunks[v] : v \in Versions} : \A v \in Versions : Chunks[v] <= n

None == 0

ASSUME CorpusAssumption ==
  /\ Docs \cap Series = {} /\ None \notin Owners
  /\ Home \in [Docs -> Owners] /\ \A d \in Docs : Home[d] \in {d} \cup Series
  /\ Versions \subseteq Nat \ {0} /\ \A v \in Versions : Chunks[v] \in Nat
  /\ MaxChunks \in Nat /\ \A v \in Versions : Chunks[v] <= MaxChunks
ASSUME CorpusBoundsAssumption ==
  Limit \in Nat \ {0} /\ MaxRevisions \in Nat /\ MaxFailures \in Nat /\ MaxRestarts \in Nat
  /\ MaxScripts \in Nat

VARIABLES
  owner,       \* owner[d]: d, the series of d, or None when d was deleted
  texts,       \* texts[o]: what is to be embedded, or None
  job,         \* job[d]: the status of its embed job
  fails,       \* fails[d]: its failures, counted up to Limit
  hash,        \* hash[s]: the key/value entry of the last complete rebuild
  points,      \* points[id][n]: the point in the store: [owner, version]
  exists,      \* the collection exists
  cache,       \* the client's features: "unknown", "yes" or "no"
  embedder,    \* the worker in the stage: [at, doc, owner, version, chunk]
  script,      \* the operator's script
  revisions, failures, restarts, scripts,
  behind,      \* owners with a text that no job has been taken up for
  unsure,      \* series whose hash may name a text that is not whole any more
  mixed        \* owners whose points may not be of one complete rebuild

corpusVars == <<owner, texts, job, fails, hash, points, exists, cache, embedder, script,
                revisions, failures, restarts, scripts, behind, unsure, mixed>>
corpusJobs == <<owner, job, fails>>
corpusBounds == <<revisions, failures, restarts, scripts>>
corpusGhosts == <<behind, unsure, mixed>>

Steps == {"idle", "skip", "delete", "ensure", "create", "put", "again", "recreate",
          "retry", "finish", "hash"}
NoPoint == [owner |-> None, version |-> None]

CorpusTypeOK ==
  /\ \A d \in Docs : owner[d] \in {d, None} \cup Series
  /\ texts \in [Owners -> Versions \cup {None}]
  /\ job \in [Docs -> {"none", "pending", "running", "done", "error"}]
  /\ fails \in [Docs -> 0..Limit]
  /\ hash \in [Series -> Versions \cup {None}]
  /\ points \in [Ids -> [1..MaxChunks -> [owner : Owners, version : Versions] \cup {NoPoint}]]
  /\ exists \in BOOLEAN
  /\ cache \in {"unknown", "yes", "no"}
  /\ embedder.at \in Steps
  /\ embedder.at # "idle" => embedder.chunk \in 1..Chunks[embedder.version] + 1
  /\ script \in {"idle", "drop", "replay"}
  /\ ~exists => \A id \in Ids, n \in 1..MaxChunks : points[id][n] = NoPoint

IdleEmbedder == [at |-> "idle", doc |-> None, owner |-> None, version |-> None, chunk |-> 0]
NoPoints == [id \in Ids |-> [n \in 1..MaxChunks |-> NoPoint]]

CorpusInit ==
  /\ owner = Home
  /\ texts = [o \in Owners |-> None]
  /\ job = [d \in Docs |-> "none"] /\ fails = [d \in Docs |-> 0]
  /\ hash = [s \in Series |-> None]
  /\ points = NoPoints
  /\ exists = FALSE /\ cache = "unknown"
  /\ embedder = IdleEmbedder
  /\ script = "idle"
  /\ revisions = 0 /\ failures = 0 /\ restarts = 0 /\ scripts = 0
  /\ behind = {} /\ unsure = {} /\ mixed = {}

-----------------------------------------------------------------------------
At(from) == embedder.at = from
Goto(to) == embedder' = [embedder EXCEPT !.at = to]

Failing ==
  failures < MaxFailures /\ failures' = failures + 1 /\ UNCHANGED <<revisions, restarts, scripts>>

FailingOr(cause) == (cause /\ UNCHANGED corpusBounds) \/ Failing

(* The chunks that a search finds under the name of o, and whether they are *)
(* those of version v and no others                                         *)
Held(o) == [n \in 1..MaxChunks |->
  IF points[IdOf[o]][n].owner = o THEN points[IdOf[o]][n].version ELSE None]
Filled(v, k) == [n \in 1..MaxChunks |-> IF n <= k THEN v ELSE None]
ChunksOf(v) == IF v = None THEN 0 ELSE Chunks[v]
Whole(o) == Held(o) = Filled(texts[o], ChunksOf(texts[o]))

(* Changes of the texts: by the stages before embed, and by users           *)
Revise ==
  /\ revisions < MaxRevisions /\ revisions' = revisions + 1
  /\ UNCHANGED <<failures, restarts, scripts>>

Retext(t, touched) ==
  /\ texts' = t
  /\ behind' = behind \cup touched
  /\ unsure' = unsure \cup {s \in Series \cap touched : t[s] < texts[s]}
  /\ UNCHANGED <<hash, points, exists, cache, embedder, script, mixed>>

(* the stages before embed leave another text and queue the job             *)
SetText(d, v) ==
  /\ Revise /\ owner[d] # None /\ v # texts[owner[d]]
  /\ Retext([texts EXCEPT ![owner[d]] = v], {owner[d]})
  /\ job' = [job EXCEPT ![d] = "pending"]
  /\ UNCHANGED <<owner, fails>>

(* patchRun, or a stage whose successors have not run yet: no job is queued *)
EditText(d, v) ==
  /\ Revise /\ owner[d] # None /\ v # texts[owner[d]]
  /\ Retext([texts EXCEPT ![owner[d]] = v], {owner[d]})
  /\ UNCHANGED corpusJobs

Alone(d) == \A e \in Docs : owner[e] = owner[d] => e = d

(* a PATCH of the series, and what it leaves of both texts                  *)
MoveDocument(d, o) ==
  /\ Revise /\ owner[d] # None /\ o # owner[d]
  /\ \E x, y \in Versions \cup {None} :
       /\ Alone(d) => x = None
       /\ Retext([texts EXCEPT ![owner[d]] = x, ![o] = y], {owner[d], o})
  /\ owner' = [owner EXCEPT ![d] = o]
  /\ UNCHANGED <<job, fails>>

(* the row and its jobs go, the points stay                                 *)
DeleteDocument(d) ==
  /\ Revise /\ owner[d] # None
  /\ \E x \in Versions \cup {None} :
       /\ Alone(d) => x = None
       /\ Retext([texts EXCEPT ![owner[d]] = x], {owner[d]})
  /\ owner' = [owner EXCEPT ![d] = None]
  /\ job' = [job EXCEPT ![d] = "none"] /\ fails' = [fails EXCEPT ![d] = 0]

(* a user's retry or replay, or the advance of a replayed stage             *)
QueueEmbed(d) ==
  /\ Revise /\ job[d] \in {"running", "done", "error"}
  /\ job' = [job EXCEPT ![d] = "pending"]
  /\ UNCHANGED <<owner, fails, texts, hash, points, exists, cache, embedder, script, corpusGhosts>>

-----------------------------------------------------------------------------
(* The worker in the embed stage                                            *)

(* handleJobError: tried again, or given up at the limit; of a document     *)
(* that was deleted there is no job                                         *)
JobFails(d) ==
  /\ embedder' = IdleEmbedder
  /\ \/ /\ owner[d] # None
        /\ fails' = [fails EXCEPT ![d] = IF @ < Limit THEN @ + 1 ELSE @]
        /\ job' = [job EXCEPT ![d] = IF fails[d] + 1 < Limit THEN "pending" ELSE "error"]
     \/ owner[d] = None /\ UNCHANGED <<job, fails>>

EmbedFails == JobFails(embedder.doc)

Unchanged(o) == o \in Series /\ hash[o] # None /\ hash[o] = texts[o]

(* Mutation: the hash is set before the chunks are.                         *)
BeginEmbedHashed(d) ==
  /\ At("idle") /\ job[d] = "pending" /\ texts[owner[d]] # None
  /\ job' = [job EXCEPT ![d] = "running"]
  /\ embedder' = [at |-> IF Unchanged(owner[d]) THEN "skip" ELSE "delete", doc |-> d,
                  owner |-> owner[d], version |-> texts[owner[d]], chunk |-> 1]
  /\ hash' = [s \in Series |-> IF s = owner[d] THEN texts[s] ELSE hash[s]]
  /\ behind' = behind \ {owner[d]}
  /\ UNCHANGED <<owner, fails, texts, points, exists, cache, script, corpusBounds, unsure, mixed>>

(* version v is read, and the hash found to be that of v or not             *)
Begin(d, v, skip) ==
  /\ job' = [job EXCEPT ![d] = "running"]
  /\ embedder' = [at |-> IF skip THEN "skip" ELSE "delete", doc |-> d,
                  owner |-> owner[d], version |-> v, chunk |-> 1]
  /\ behind' = IF v = texts[owner[d]] THEN behind \ {owner[d]} ELSE behind \cup {owner[d]}
  /\ unsure' = IF Unchanged(owner[d]) /\ ~skip THEN unsure \cup {owner[d]} ELSE unsure
  /\ UNCHANGED fails

(* The job is taken and the texts are gathered.  What cannot be read of a   *)
(* series is left out, a hash that cannot be read is no hash; without a     *)
(* text the job fails.                                                      *)
BeginEmbed(d) ==
  /\ At("idle") /\ job[d] = "pending"
  /\ \/ /\ texts[owner[d]] # None
        /\ Begin(d, texts[owner[d]], Unchanged(owner[d])) /\ UNCHANGED corpusBounds
     \/ /\ owner[d] \in Series /\ Failing
        /\ \E v \in Versions :
             /\ v <= texts[owner[d]]
             /\ Begin(d, v, v # texts[owner[d]] /\ v = hash[owner[d]])
     \/ /\ FailingOr(texts[owner[d]] = None)
        /\ JobFails(d) /\ UNCHANGED <<behind, unsure>>
  /\ UNCHANGED <<owner, texts, hash, points, exists, cache, script, mixed>>

JobDone ==
  job' = IF owner[embedder.doc] = None THEN job ELSE [job EXCEPT ![embedder.doc] = "done"]

(* done, without a run                                                      *)
SkipRebuild ==
  /\ At("skip")
  /\ embedder' = IdleEmbedder /\ JobDone
  /\ UNCHANGED <<owner, fails, texts, hash, points, exists, cache, script, corpusBounds,
                 corpusGhosts>>

(* the next chunk, or the end                                               *)
ChunkStep(n) == IF n > Chunks[embedder.version] THEN "finish" ELSE "ensure"

(* Mutation: the points of the owner are not deleted first.                 *)
SkipDelete ==
  /\ At("delete")
  /\ Goto(ChunkStep(1))
  /\ UNCHANGED <<corpusJobs, texts, hash, points, exists, cache, script, corpusBounds,
                 corpusGhosts>>

(* the points that bear the name of o, whatever their ids                   *)
WithoutOwner(o) == [id \in Ids |-> [n \in 1..MaxChunks |->
  IF points[id][n].owner = o THEN NoPoint ELSE points[id][n]]]

(* DeleteByDocID or DeleteBySeries; an error is logged.  Without the        *)
(* collection there is nothing to delete.                                   *)
DeleteOld ==
  /\ At("delete")
  /\ Goto(ChunkStep(1))
  /\ \/ points' = WithoutOwner(embedder.owner) /\ mixed' = mixed \ {embedder.owner}
        /\ UNCHANGED corpusBounds
     \/ Failing /\ mixed' = mixed \cup {embedder.owner} /\ UNCHANGED points
  /\ UNCHANGED <<corpusJobs, texts, hash, exists, cache, script, behind, unsure>>

(* collectionFeatures: a request unless cached; an error is cached as "no"  *)
FetchFeatures(seen) ==
  IF cache # "unknown"
  THEN seen = cache /\ UNCHANGED <<cache, corpusBounds>>
  ELSE /\ cache' = seen
       /\ \/ seen = (IF exists THEN "yes" ELSE "no") /\ UNCHANGED corpusBounds
          \/ seen = "no" /\ exists /\ Failing

(* ensureCollection, for the upsert and again after a 404                   *)
Ensure(from, create, next) ==
  /\ At(from)
  /\ \E seen \in {"yes", "no"} : FetchFeatures(seen) /\ Goto(IF seen = "yes" THEN next ELSE create)
  /\ UNCHANGED <<corpusJobs, texts, hash, points, exists, script, corpusGhosts>>

(* PUT /collections: refused when the collection is there                   *)
Create(from, next) ==
  /\ At(from)
  /\ \/ ~exists /\ exists' = TRUE /\ cache' = "yes" /\ Goto(next)
        /\ UNCHANGED <<job, fails, corpusBounds>>
     \/ FailingOr(exists) /\ EmbedFails /\ UNCHANGED <<exists, cache>>
  /\ UNCHANGED <<owner, texts, hash, points, script, corpusGhosts>>

EnsureCollection == Ensure("ensure", "create", "put") \/ Ensure("again", "recreate", "retry")
CreateCollection == Create("create", "put") \/ Create("recreate", "retry")

Stored == [points EXCEPT ![IdOf[embedder.owner]][embedder.chunk] =
             [owner |-> embedder.owner, version |-> embedder.version]]

(* Mutation: the loop goes one chunk too far.                               *)
StoredChunkAndMore ==
  /\ points' = Stored
  /\ embedder' = [embedder EXCEPT !.chunk = @ + 1, !.at = ChunkStep(embedder.chunk)]
  /\ UNCHANGED <<job, fails, corpusBounds>>

(* An upsert replaces the point of that id, whosever it is.                 *)
StoredChunk ==
  /\ points' = Stored
  /\ embedder' = [embedder EXCEPT !.chunk = @ + 1, !.at = ChunkStep(embedder.chunk + 1)]
  /\ UNCHANGED <<job, fails, corpusBounds>>

(* Mutation: a 404 is an error like any other.                              *)
PutPointOnce ==
  /\ At("put") \/ At("retry")
  /\ \/ exists /\ StoredChunk /\ UNCHANGED cache
     \/ FailingOr(~exists) /\ EmbedFails /\ UNCHANGED <<points, cache>>
  /\ UNCHANGED <<owner, texts, hash, exists, script, corpusGhosts>>

(* Upsert of one chunk; a 404 clears the cache and is tried once more       *)
PutPoint ==
  /\ At("put") \/ At("retry")
  /\ \/ exists /\ StoredChunk /\ UNCHANGED cache
     \/ ~exists /\ At("put") /\ cache' = "unknown" /\ Goto("again")
        /\ UNCHANGED <<points, job, fails, corpusBounds>>
     \/ FailingOr(~exists /\ At("retry")) /\ EmbedFails /\ UNCHANGED <<points, cache>>
  /\ UNCHANGED <<owner, texts, hash, exists, script, corpusGhosts>>

(* The run is saved and the job is done; the run of a deleted document is   *)
(* refused.                                                                 *)
FinishEmbed ==
  /\ At("finish")
  /\ \/ /\ owner[embedder.doc] # None
        /\ embedder' = IF embedder.owner \in Series
                       THEN [embedder EXCEPT !.at = "hash"] ELSE IdleEmbedder
        /\ JobDone /\ UNCHANGED <<fails, corpusBounds>>
     \/ FailingOr(owner[embedder.doc] = None) /\ EmbedFails
  /\ UNCHANGED <<owner, texts, hash, points, exists, cache, script, corpusGhosts>>

(* kv.Set, after done; an error is ignored                                  *)
SetHash ==
  /\ At("hash")
  /\ embedder' = IdleEmbedder
  /\ \/ /\ hash' = [hash EXCEPT ![embedder.owner] = embedder.version]
        /\ unsure' = IF embedder.version = texts[embedder.owner]
                     THEN unsure \ {embedder.owner} ELSE unsure
        /\ mixed' = IF script = "drop" THEN mixed \cup {embedder.owner} ELSE mixed
        /\ UNCHANGED corpusBounds
     \/ Failing /\ UNCHANGED <<hash, unsure, mixed>>
  /\ UNCHANGED <<corpusJobs, texts, points, exists, cache, script, behind>>

(* Search asks for the features as well                                     *)
SearchPoints ==
  /\ cache = "unknown"
  /\ \E seen \in {"yes", "no"} : FetchFeatures(seen)
  /\ UNCHANGED <<corpusJobs, texts, hash, points, exists, embedder, script, corpusGhosts>>

-----------------------------------------------------------------------------
(* The script: the hashes, then the collection, then the jobs.  What it     *)
(* cannot wipe or drop it warns of and goes on.                             *)
ScriptWipes ==
  /\ script = "idle" /\ scripts < MaxScripts
  /\ script' = "drop" /\ scripts' = scripts + 1
  /\ \/ hash' = [s \in Series |-> None] /\ UNCHANGED <<failures, mixed>>
     \/ /\ failures < MaxFailures /\ failures' = failures + 1
        /\ mixed' = mixed \cup {s \in Series : hash[s] # None} /\ UNCHANGED hash
  /\ UNCHANGED <<corpusJobs, texts, points, exists, cache, embedder, revisions, restarts,
                 behind, unsure>>

ScriptDrops ==
  /\ script = "drop" /\ script' = "replay"
  /\ \/ /\ exists' = FALSE /\ points' = NoPoints
        /\ mixed' = IF At("idle") THEN mixed ELSE mixed \cup {embedder.owner}
        /\ UNCHANGED corpusBounds
     \/ Failing /\ UNCHANGED <<exists, points, mixed>>
  /\ UNCHANGED <<corpusJobs, texts, hash, cache, embedder, behind, unsure>>

(* "done" jobs only: one that runs or has failed is passed over.  A request *)
(* that fails ends the script.                                              *)
ScriptReplays ==
  /\ script = "replay" /\ script' = "idle"
  /\ \E queued \in SUBSET {d \in Docs : job[d] = "done"} :
       LET left == {d \in Docs : job[d] = "done"} \ queued IN
       /\ FailingOr(left = {})
       /\ job' = [d \in Docs |-> IF d \in queued THEN "pending" ELSE job[d]]
       /\ mixed' = mixed \cup {owner[d] : d \in left}
  /\ UNCHANGED <<owner, fails, texts, hash, points, exists, cache, embedder, behind, unsure>>

(* Mutation: nobody resets the jobs that ran.                               *)
RestartOnly ==
  /\ restarts < MaxRestarts /\ restarts' = restarts + 1
  /\ cache' = "unknown" /\ embedder' = IdleEmbedder
  /\ UNCHANGED <<corpusJobs, texts, hash, points, exists, script, revisions, failures, scripts,
                 corpusGhosts>>

(* the process dies and starts again: ResetRunning                          *)
Restart ==
  /\ restarts < MaxRestarts /\ restarts' = restarts + 1
  /\ cache' = "unknown" /\ embedder' = IdleEmbedder
  /\ job' = [d \in Docs |-> IF job[d] = "running" THEN "pending" ELSE job[d]]
  /\ UNCHANGED <<owner, fails, texts, hash, points, exists, script, revisions, failures, scripts,
                 corpusGhosts>>

Embed ==
  \/ \E d \in Docs : BeginEmbed(d)
  \/ SkipRebuild \/ DeleteOld \/ EnsureCollection \/ CreateCollection \/ PutPoint
  \/ FinishEmbed \/ SetHash

CorpusNext ==
  \/ \E d \in Docs, v \in Versions : SetText(d, v)
  \/ \E d \in Docs, v \in Versions \cup {None} : EditText(d, v)
  \/ \E d \in Docs : \E o \in {d} \cup Series : MoveDocument(d, o)
  \/ \E d \in Docs : DeleteDocument(d) \/ QueueEmbed(d)
  \/ Embed
  \/ SearchPoints
  \/ ScriptWipes \/ ScriptDrops \/ ScriptReplays
  \/ Restart

CorpusSpec == CorpusInit /\ [][CorpusNext]_corpusVars
(* The worker's loop never stops, and a script that was begun ends.         *)
CorpusFairSpec ==
  /\ CorpusSpec
  /\ WF_corpusVars(Embed)
  /\ WF_corpusVars(ScriptDrops \/ ScriptReplays)

-----------------------------------------------------------------------------
(* Properties                                                               *)

(* Two owners of which the ids of the points keep the same                  *)
Shared(o) == \E r \in Owners \ {o} : IdOf[r] = IdOf[o]

(* What the design does not survive, owner by owner: ids that are shared; a *)
(* hash left behind by a rebuild of the same text that failed, or of an     *)
(* earlier one that the text returned to; a delete that failed; a drop by   *)
(* the script in the middle of a rebuild, beside a hash that was set        *)
(* meanwhile or could not be wiped, or without a replay.                    *)
Excepted(o) == Shared(o) \/ o \in unsure \cup mixed

(* Otherwise the hash speaks the truth, whatever fails or restarts: if it   *)
(* is that of the present text and nothing is under way, the corpus is      *)
(* complete and holds nothing else ("the last successfully-embedded         *)
(* corpus", worker.go:925).                                                 *)
HashMeansWhole ==
  At("idle") =>
    \A s \in Series : ~Excepted(s) /\ Unchanged(s) => Whole(s)

(* The jobs of the documents of o have ended well, or have not begun.       *)
Settled(o) == \A d \in Docs : owner[d] = o => job[d] \in {"none", "done"}

(* Nor is an owner left half embedded and forgotten: when a job has been    *)
(* taken up since its text changed and no job of its documents is open or   *)
(* failed, it is embedded with its present text, also when the collection   *)
(* was dropped and recreated, another document moved or the process died    *)
(* (worker.go:903, 1007, qdrant.go:60).                                     *)
QuietMeansWhole ==
  (At("idle") /\ script # "replay") =>
    \A o \in Owners : ~Excepted(o) /\ o \notin behind /\ Settled(o) => Whole(o)

(* When the texts come to rest, every owner is embedded in the end or has a *)
(* failed job that a user can retry; the jobs of the others have ended.     *)
CatchesUp ==
  <>[](\A o \in Owners :
         \/ Excepted(o) \/ o \in behind
         \/ Whole(o) \/ \E d \in Docs : owner[d] = o /\ job[d] = "error")

(* A collection that is dropped once beside the client costs no attempt:    *)
(* without a failing request no embed job that has begun fails ("clearing   *)
(* the cache, recreating, and retrying once", qdrant.go:60).                *)
DropHeals ==
  [][(failures' = 0 /\ scripts <= 1 /\ ~At("idle")) =>
       \A d \in Docs : fails'[d] <= fails[d]]_corpusVars

(* A rebuild is skipped only if the corpus that was read is in the store    *)
(* ("when nothing has changed since the previous rebuild", worker.go:926).  *)
SkipsWhole ==
  At("skip") => Held(embedder.owner) = Filled(embedder.version, ChunksOf(embedder.version))
=============================================================================
