---------------------------- MODULE CorpusProofs ----------------------------
(***************************************************************************)
(* Proofs about Corpus: types, that the hash of a series means what it     *)
(* says, and that no owner is left half embedded and forgotten.            *)
(***************************************************************************)
EXTENDS Corpus, TLAPS

EmbedderStates ==
  [at : Steps \ {"idle"}, doc : Docs, owner : Owners, version : Versions, chunk : Nat]

EmbedderShape ==
  \/ embedder = IdleEmbedder
  \/ /\ embedder \in EmbedderStates
     /\ embedder.at \in {"skip", "delete"} => embedder.chunk = 1
     /\ embedder.at \in {"finish", "hash"} => embedder.chunk = Chunks[embedder.version] + 1
     /\ embedder.at \notin {"skip", "delete", "finish", "hash"} =>
          embedder.chunk \in 1..Chunks[embedder.version]
     /\ embedder.at \in {"skip", "hash"} => embedder.owner \in Series

JobShape ==
  /\ owner \in [Docs -> Owners \cup {None}]
  /\ \A d \in Docs : /\ owner[d] \in {d, None} \cup Series
                     /\ owner[d] = None => job[d] = "none"
  /\ job \in [Docs -> {"none", "pending", "running", "done", "error"}]
  /\ fails \in [Docs -> 0..Limit]

Point == [owner : Owners, version : Versions] \cup {NoPoint}

StoreShape ==
  /\ points \in [Ids -> [1..MaxChunks -> Point]]
  /\ exists \in BOOLEAN
  /\ ~exists => points = NoPoints
  /\ cache \in {"unknown", "yes", "no"}

TableShape ==
  /\ texts \in [Owners -> Versions \cup {None}]
  /\ hash \in [Series -> Versions \cup {None}]
  /\ script \in {"idle", "drop", "replay"}

CorpusShape == EmbedderShape /\ JobShape /\ StoreShape /\ TableShape

-----------------------------------------------------------------------------
(* Types                                                                    *)

(* A version is a number, its chunks fit the store, and a limit is one.     *)
LEMMA VersionNumbers ==
  /\ \A v \in Versions : /\ v \in Nat /\ v # None /\ v > 0
                         /\ Chunks[v] \in Nat /\ Chunks[v] <= MaxChunks
  /\ None \in Nat /\ MaxChunks \in Nat /\ Limit \in Nat /\ Limit > 0
BY CorpusAssumption, CorpusBoundsAssumption DEF None

(* Owners are documents or series, and every one has an id.                 *)
LEMMA OwnersHaveIds ==
  /\ Docs \subseteq Owners /\ Series \subseteq Owners /\ None \notin Owners
  /\ None \notin Docs /\ \A o \in Owners : IdOf[o] \in Ids
BY CorpusAssumption DEF Owners, Ids

(* A busy embedder has a document, an owner, a version and a chunk.         *)
LEMMA BusyEmbedder ==
  ASSUME EmbedderShape, embedder.at # "idle"
  PROVE  /\ embedder \in EmbedderStates /\ embedder.doc \in Docs
         /\ embedder.owner \in Owners /\ embedder.version \in Versions
         /\ embedder.chunk \in Nat /\ Chunks[embedder.version] \in Nat
BY VersionNumbers DEF EmbedderShape, IdleEmbedder, EmbedderStates

(* An empty store has the shape of a store.                                 *)
LEMMA EmptyStore == NoPoints \in [Ids -> [1..MaxChunks -> Point]]
BY DEF NoPoints, Point

(* The types hold at first.                                                 *)
LEMMA CorpusShapeInit == CorpusInit => CorpusShape
<1> SUFFICES ASSUME CorpusInit  PROVE CorpusShape
  OBVIOUS
<1>1. EmbedderShape
  BY DEF CorpusInit, EmbedderShape
<1>2. JobShape
  BY CorpusAssumption, OwnersHaveIds, VersionNumbers DEF CorpusInit, JobShape
<1>3. StoreShape
  BY EmptyStore DEF CorpusInit, StoreShape
<1>4. TableShape
  BY CorpusAssumption DEF CorpusInit, TableShape
<1> QED  BY <1>1, <1>2, <1>3, <1>4 DEF CorpusShape

(* A step of a busy embedder to another step of the same chunk              *)
LEMMA GoesTo ==
  ASSUME EmbedderShape, embedder.at \notin {"idle", "skip", "delete", "finish", "hash"},
         NEW to \in {"ensure", "create", "put", "again", "recreate", "retry"}, Goto(to)
  PROVE  /\ EmbedderShape' /\ embedder'.at = to /\ embedder'.doc = embedder.doc
         /\ embedder'.owner = embedder.owner
         /\ embedder'.version = embedder.version /\ embedder'.chunk = embedder.chunk
<1>1. embedder' = [embedder EXCEPT !.at = to]
  BY DEF Goto
<1>2. embedder \in EmbedderStates /\ to \in Steps
  BY BusyEmbedder DEF Steps
<1>3. /\ embedder' \in EmbedderStates
      /\ embedder'.at = to /\ embedder'.doc = embedder.doc /\ embedder'.owner = embedder.owner
      /\ embedder'.version = embedder.version /\ embedder'.chunk = embedder.chunk
  BY <1>1, <1>2 DEF EmbedderStates
<1> QED  BY <1>2, <1>3 DEF EmbedderShape, IdleEmbedder

(* The delete leads to the first chunk, or to the end of an empty text.     *)
LEMMA DeleteGoesOn ==
  ASSUME EmbedderShape, embedder.at = "delete", Goto(ChunkStep(1))
  PROVE  /\ EmbedderShape' /\ embedder'.at \in {"ensure", "finish"}
         /\ embedder'.doc = embedder.doc /\ embedder'.owner = embedder.owner
         /\ embedder'.version = embedder.version /\ embedder'.chunk = 1
<1> DEFINE to == ChunkStep(1)  n == Chunks[embedder.version]
<1>1. embedder \in EmbedderStates /\ embedder.chunk = 1 /\ n \in Nat
  BY BusyEmbedder DEF EmbedderShape, IdleEmbedder
<1>2. to \in {"ensure", "finish"} /\ to \in Steps \ {"idle"} /\ (to = "finish" <=> 1 > n)
  BY DEF ChunkStep, Steps
<1>3. embedder' = [embedder EXCEPT !.at = to]
  BY DEF Goto
<1> HIDE DEF to
<1>4. /\ embedder' \in EmbedderStates /\ embedder'.at = to /\ embedder'.doc = embedder.doc
      /\ embedder'.owner = embedder.owner
      /\ embedder'.version = embedder.version /\ embedder'.chunk = embedder.chunk
  BY <1>1, <1>2, <1>3 DEF EmbedderStates
<1> QED  BY <1>1, <1>2, <1>4 DEF EmbedderShape, IdleEmbedder

(* The store is written one chunk at a time.                                *)
LEMMA StoresChunk ==
  ASSUME EmbedderShape, StoreShape, embedder.at \in {"put", "retry"}, StoredChunk
  PROVE  /\ EmbedderShape'
         /\ embedder'.at \in {"finish", "ensure"} /\ embedder'.doc = embedder.doc
         /\ embedder'.owner = embedder.owner /\ embedder'.version = embedder.version
         /\ embedder'.chunk = embedder.chunk + 1
         /\ embedder.chunk \in 1..MaxChunks
         /\ points' \in [Ids -> [1..MaxChunks -> Point]]
         /\ \A id \in Ids, n \in 1..MaxChunks :
              points'[id][n] = IF id = IdOf[embedder.owner] /\ n = embedder.chunk
                               THEN [owner |-> embedder.owner, version |-> embedder.version]
                               ELSE points[id][n]
<1> DEFINE m == Chunks[embedder.version]
           next == embedder.chunk + 1
           to == IF next > m THEN "finish" ELSE "ensure"
           q == [owner |-> embedder.owner, version |-> embedder.version]
<1>1. /\ embedder \in EmbedderStates /\ embedder.owner \in Owners
      /\ embedder.version \in Versions /\ m \in Nat /\ m <= MaxChunks
      /\ embedder.chunk \in 1..m
  BY BusyEmbedder, VersionNumbers DEF EmbedderShape, IdleEmbedder
<1>2. embedder' = [embedder EXCEPT !.chunk = next, !.at = to]
  BY DEF StoredChunk, ChunkStep
<1>3. /\ to \in Steps \ {"idle"} /\ to \in {"finish", "ensure"}
      /\ (to = "finish" <=> next > m) /\ next \in Nat
  BY <1>1 DEF Steps
<1>4. EmbedderShape' /\ embedder'.at = to /\ embedder'.doc = embedder.doc
      /\ embedder'.owner = embedder.owner /\ embedder'.version = embedder.version
      /\ embedder'.chunk = next
  <2> HIDE DEF next, to
  <2>1. /\ embedder' \in EmbedderStates /\ embedder'.at = to /\ embedder'.doc = embedder.doc
        /\ embedder'.owner = embedder.owner /\ embedder'.version = embedder.version
        /\ embedder'.chunk = next
    BY <1>1, <1>2, <1>3 DEF EmbedderStates
  <2>2. to = "finish" => next = m + 1
    BY <1>1, <1>3 DEF next
  <2>3. to = "ensure" => next \in 1..m
    BY <1>1, <1>3 DEF next
  <2> QED  BY <1>3, <2>1, <2>2, <2>3 DEF EmbedderShape, IdleEmbedder
<1>5. embedder.chunk \in 1..MaxChunks
  BY <1>1, VersionNumbers
<1>6. IdOf[embedder.owner] \in Ids /\ q \in Point
  BY <1>1, OwnersHaveIds DEF Point
<1>7. points' = [points EXCEPT ![IdOf[embedder.owner]] =
                   [points[IdOf[embedder.owner]] EXCEPT ![embedder.chunk] = q]]
  BY DEF StoredChunk, Stored
<1> HIDE DEF q
<1>8. /\ points' \in [Ids -> [1..MaxChunks -> Point]]
      /\ \A id \in Ids, n \in 1..MaxChunks :
           points'[id][n] = IF id = IdOf[embedder.owner] /\ n = embedder.chunk
                            THEN q ELSE points[id][n]
  BY <1>5, <1>6, <1>7 DEF StoreShape
<1> QED  BY <1>3, <1>4, <1>5, <1>8 DEF q

(* What the changes of texts leave of the types                             *)
LEMMA RetextShape ==
  ASSUME CorpusShape, NEW t, t \in [Owners -> Versions \cup {None}], NEW touched,
         Retext(t, touched), JobShape'
  PROVE  CorpusShape'
BY DEF CorpusShape, Retext, EmbedderShape, StoreShape, TableShape

(* A failing job keeps the types.                                           *)
LEMMA JobFailsShape ==
  ASSUME CorpusShape, NEW d \in Docs, JobFails(d), owner' = owner
  PROVE  EmbedderShape' /\ JobShape'
<1>1. EmbedderShape'
  BY DEF JobFails, EmbedderShape
<1>2. JobShape'
  <2>1. CASE owner[d] = None /\ UNCHANGED <<job, fails>>
    BY <2>1 DEF CorpusShape, JobShape
  <2>2. CASE /\ owner[d] # None
             /\ fails' = [fails EXCEPT ![d] = IF @ < Limit THEN @ + 1 ELSE @]
             /\ job' = [job EXCEPT ![d] = IF fails[d] + 1 < Limit THEN "pending" ELSE "error"]
    <3>1. fails[d] \in 0..Limit /\ Limit \in Nat
      BY VersionNumbers DEF CorpusShape, JobShape
    <3>2. (IF fails[d] < Limit THEN fails[d] + 1 ELSE fails[d]) \in 0..Limit
      BY <3>1
    <3> QED  BY <2>2, <3>2 DEF CorpusShape, JobShape
  <2> QED  BY <2>1, <2>2 DEF JobFails
<1> QED  BY <1>1, <1>2

(* So does a job that is done.                                              *)
LEMMA JobDoneShape ==
  ASSUME CorpusShape, embedder.at # "idle", JobDone, UNCHANGED <<owner, fails>>
  PROVE  JobShape'
BY BusyEmbedder DEF CorpusShape, JobDone, JobShape

(* A job is taken up.                                                       *)
LEMMA BeginShape ==
  ASSUME CorpusShape, NEW d \in Docs, NEW v \in Versions, NEW skip, Begin(d, v, skip),
         job[d] = "pending", skip => owner[d] \in Series, owner' = owner
  PROVE  EmbedderShape' /\ JobShape'
<1>1. owner[d] \in Owners
  BY DEF CorpusShape, JobShape
<1>2. EmbedderShape'
  BY <1>1, VersionNumbers DEF Begin, EmbedderShape, EmbedderStates, Steps
<1>3. JobShape'
  BY <1>1, OwnersHaveIds DEF CorpusShape, JobShape, Begin
<1> QED  BY <1>2, <1>3

(* The steps of the worker in the stage keep the types.                     *)
LEMMA EmbedShapes == CorpusShape /\ Embed => CorpusShape'
<1> SUFFICES ASSUME CorpusShape, Embed  PROVE CorpusShape'
  OBVIOUS
<1>0. EmbedderShape /\ JobShape /\ StoreShape /\ TableShape
  BY DEF CorpusShape
<1>1. ASSUME UNCHANGED <<texts, hash, script>>, EmbedderShape', JobShape', StoreShape'
      PROVE  CorpusShape'
  BY <1>0, <1>1 DEF CorpusShape, TableShape
<1>2. ASSUME embedder.at # "idle", EmbedFails, UNCHANGED <<owner, points, exists>>,
             UNCHANGED <<texts, hash, script>>, UNCHANGED cache
      PROVE  CorpusShape'
  <2>1. embedder.doc \in Docs
    BY <1>0, <1>2, BusyEmbedder
  <2> QED  BY <1>0, <1>1, <1>2, <2>1, JobFailsShape DEF EmbedFails, StoreShape
<1>3. ASSUME NEW d \in Docs, BeginEmbed(d)  PROVE CorpusShape'
  <2>1. /\ At("idle") /\ job[d] = "pending" /\ owner[d] \in Owners
        /\ UNCHANGED <<owner, texts, hash, points, exists, cache, script>>
    BY <1>0, <1>3 DEF BeginEmbed, JobShape
  <2>2. CASE texts[owner[d]] # None /\ Begin(d, texts[owner[d]], Unchanged(owner[d]))
    <3>1. texts[owner[d]] \in Versions /\ (Unchanged(owner[d]) => owner[d] \in Series)
      BY <1>0, <2>1, <2>2 DEF TableShape, Unchanged
    <3> QED  BY <1>0, <1>1, <2>1, <2>2, <3>1, BeginShape DEF StoreShape
  <2>3. ASSUME owner[d] \in Series, NEW v \in Versions,
               Begin(d, v, v # texts[owner[d]] /\ v = hash[owner[d]])
        PROVE  CorpusShape'
    BY <1>0, <1>1, <2>1, <2>3, BeginShape DEF StoreShape
  <2>4. CASE JobFails(d)
    BY <1>0, <1>1, <2>1, <2>4, JobFailsShape DEF StoreShape
  <2> QED  BY <1>3, <2>2, <2>3, <2>4 DEF BeginEmbed
<1>4. CASE SkipRebuild
  <2>1. EmbedderShape'
    BY <1>4 DEF SkipRebuild, EmbedderShape
  <2> QED  BY <1>0, <1>1, <1>4, <2>1, JobDoneShape DEF SkipRebuild, At, StoreShape
<1>5. CASE DeleteOld
  <2>1. /\ embedder.at = "delete" /\ Goto(ChunkStep(1)) /\ embedder.owner \in Owners
        /\ UNCHANGED <<texts, hash, script>> /\ UNCHANGED <<owner, job, fails, exists, cache>>
    BY <1>0, <1>5, BusyEmbedder DEF DeleteOld, At, corpusJobs
  <2>2. WithoutOwner(embedder.owner) \in [Ids -> [1..MaxChunks -> Point]]
    BY <1>0, <2>1 DEF WithoutOwner, StoreShape, Point
  <2>3. ~exists => WithoutOwner(embedder.owner) = NoPoints
    BY <1>0, <2>1 DEF WithoutOwner, StoreShape, NoPoints
  <2>4. StoreShape'
    BY <1>0, <1>5, <2>1, <2>2, <2>3 DEF DeleteOld, StoreShape
  <2>5. JobShape'
    BY <1>0, <2>1 DEF JobShape
  <2> QED  BY <1>0, <1>1, <2>1, <2>4, <2>5, DeleteGoesOn
<1>6. CASE EnsureCollection
  <2>1. PICK from \in {"ensure", "again"}, to \in {"create", "put", "recreate", "retry"},
             seen \in {"yes", "no"} :
          At(from) /\ FetchFeatures(seen) /\ Goto(to)
    BY <1>6 DEF EnsureCollection, Ensure
  <2>2. /\ UNCHANGED <<texts, hash, script>> /\ UNCHANGED <<owner, job, fails, points, exists>>
    BY <1>6 DEF EnsureCollection, Ensure, corpusJobs
  <2>3. EmbedderShape'
    BY <1>0, <2>1, GoesTo DEF At
  <2>4. cache' \in {"unknown", "yes", "no"}
    BY <1>0, <2>1 DEF FetchFeatures, StoreShape
  <2> QED  BY <1>0, <1>1, <2>2, <2>3, <2>4 DEF JobShape, StoreShape
<1>7. CASE CreateCollection
  <2>1. PICK from \in {"create", "recreate"}, to \in {"put", "retry"} : Create(from, to)
    BY <1>7 DEF CreateCollection
  <2>2. /\ embedder.at = from /\ UNCHANGED <<texts, hash, script>> /\ UNCHANGED <<owner, points>>
    BY <2>1 DEF Create, At
  <2>3. CASE exists' = TRUE /\ cache' = "yes" /\ Goto(to) /\ UNCHANGED <<job, fails>>
    <3>1. EmbedderShape'
      BY <1>0, <2>2, <2>3, GoesTo
    <3> QED  BY <1>0, <1>1, <2>2, <2>3, <3>1 DEF JobShape, StoreShape
  <2>4. CASE EmbedFails /\ UNCHANGED <<exists, cache>>
    BY <1>2, <2>2, <2>4
  <2> QED  BY <2>1, <2>3, <2>4 DEF Create
<1>8. CASE PutPoint
  <2>1. embedder.at \in {"put", "retry"} /\ UNCHANGED <<texts, hash, script>>
        /\ UNCHANGED <<owner, exists>>
    BY <1>8 DEF PutPoint, At
  <2>2. CASE exists /\ StoredChunk /\ UNCHANGED cache
    <3>1. EmbedderShape' /\ points' \in [Ids -> [1..MaxChunks -> Point]]
      BY <1>0, <2>1, <2>2, StoresChunk
    <3>2. JobShape'
      BY <1>0, <2>1, <2>2 DEF JobShape, StoredChunk
    <3> QED  BY <1>0, <1>1, <2>1, <2>2, <3>1, <3>2 DEF StoreShape
  <2>3. CASE Goto("again") /\ cache' = "unknown" /\ UNCHANGED <<points, job, fails>>
    BY <1>0, <1>1, <2>1, <2>3, GoesTo DEF StoreShape, JobShape
  <2>4. CASE EmbedFails /\ UNCHANGED <<points, cache>>
    BY <1>2, <2>1, <2>4
  <2> QED  BY <1>8, <2>2, <2>3, <2>4 DEF PutPoint
<1>9. CASE FinishEmbed
  <2>1. embedder.at = "finish" /\ UNCHANGED <<texts, hash, script>>
        /\ UNCHANGED <<owner, points, exists>> /\ UNCHANGED cache
    BY <1>9 DEF FinishEmbed, At
  <2>2. CASE EmbedFails
    BY <1>2, <2>1, <2>2
  <2>3. CASE JobDone /\ UNCHANGED fails
             /\ embedder' = IF embedder.owner \in Series
                            THEN [embedder EXCEPT !.at = "hash"] ELSE IdleEmbedder
    <3>1. embedder \in EmbedderStates /\ "hash" \in Steps \ {"idle"}
      BY <1>0, <2>1, BusyEmbedder DEF Steps
    <3>2. CASE embedder.owner \in Series
      <4>1. /\ embedder' \in EmbedderStates /\ embedder'.at = "hash"
            /\ embedder'.owner = embedder.owner
            /\ embedder'.version = embedder.version /\ embedder'.chunk = embedder.chunk
        BY <2>3, <3>1, <3>2 DEF EmbedderStates
      <4>2. EmbedderShape'
        BY <1>0, <2>1, <3>2, <4>1 DEF EmbedderShape, IdleEmbedder
      <4> QED  BY <1>0, <1>1, <2>1, <2>3, <4>2, JobDoneShape DEF StoreShape
    <3>3. CASE embedder.owner \notin Series
      BY <1>0, <1>1, <2>1, <2>3, <3>3, JobDoneShape DEF StoreShape, EmbedderShape
    <3> QED  BY <3>2, <3>3
  <2> QED  BY <1>9, <2>2, <2>3 DEF FinishEmbed
<1>10. CASE SetHash
  <2>1. embedder.at = "hash" /\ UNCHANGED <<texts, points, exists, cache, script>>
        /\ UNCHANGED <<owner, job, fails>> /\ embedder' = IdleEmbedder
    BY <1>10 DEF SetHash, At, corpusJobs
  <2>2. embedder.owner \in Series /\ embedder.version \in Versions
    BY <1>0, <2>1, BusyEmbedder DEF EmbedderShape, IdleEmbedder
  <2>3. hash' \in [Series -> Versions \cup {None}]
    BY <1>0, <1>10, <2>2 DEF SetHash, TableShape
  <2> QED  BY <1>0, <2>1, <2>3 DEF CorpusShape, EmbedderShape, JobShape, StoreShape, TableShape
<1> QED  BY <1>3, <1>4, <1>5, <1>6, <1>7, <1>8, <1>9, <1>10 DEF Embed

(* Every step keeps the types.                                              *)
LEMMA CorpusShapeStep == CorpusShape /\ [CorpusNext]_corpusVars => CorpusShape'
<1> SUFFICES ASSUME CorpusShape, [CorpusNext]_corpusVars  PROVE CorpusShape'
  OBVIOUS
<1>0. EmbedderShape /\ JobShape /\ StoreShape /\ TableShape
  BY DEF CorpusShape
<1>1. ASSUME NEW d \in Docs, NEW v \in Versions, SetText(d, v)  PROVE CorpusShape'
  <2>1. [texts EXCEPT ![owner[d]] = v] \in [Owners -> Versions \cup {None}]
    BY <1>0 DEF TableShape
  <2>2. JobShape'
    BY <1>0, <1>1 DEF SetText, JobShape
  <2> QED  BY <1>1, <2>1, <2>2, RetextShape DEF SetText
<1>2. ASSUME NEW d \in Docs, NEW v \in Versions \cup {None}, EditText(d, v)
      PROVE  CorpusShape'
  <2>1. [texts EXCEPT ![owner[d]] = v] \in [Owners -> Versions \cup {None}]
    BY <1>0 DEF TableShape
  <2>2. JobShape'
    BY <1>0, <1>2 DEF EditText, JobShape, corpusJobs
  <2> QED  BY <1>2, <2>1, <2>2, RetextShape DEF EditText
<1>3. ASSUME NEW d \in Docs, NEW o \in {d} \cup Series, MoveDocument(d, o)
      PROVE  CorpusShape'
  <2>1. PICK x \in Versions \cup {None}, y \in Versions \cup {None} :
          Retext([texts EXCEPT ![owner[d]] = x, ![o] = y], {owner[d], o})
    BY <1>3 DEF MoveDocument
  <2>2. [texts EXCEPT ![owner[d]] = x, ![o] = y] \in [Owners -> Versions \cup {None}]
    BY <1>0 DEF TableShape
  <2>3. JobShape'
    BY <1>0, <1>3, OwnersHaveIds DEF MoveDocument, JobShape
  <2> QED  BY <2>1, <2>2, <2>3, RetextShape
<1>4. ASSUME NEW d \in Docs, DeleteDocument(d)  PROVE CorpusShape'
  <2>1. PICK x \in Versions \cup {None} :
          Retext([texts EXCEPT ![owner[d]] = x], {owner[d]})
    BY <1>4 DEF DeleteDocument
  <2>2. [texts EXCEPT ![owner[d]] = x] \in [Owners -> Versions \cup {None}]
    BY <1>0 DEF TableShape
  <2>3. JobShape'
    BY <1>0, <1>4, VersionNumbers DEF DeleteDocument, JobShape
  <2> QED  BY <2>1, <2>2, <2>3, RetextShape
<1>5. ASSUME NEW d \in Docs, QueueEmbed(d)  PROVE CorpusShape'
  <2>1. JobShape'
    BY <1>0, <1>5 DEF QueueEmbed, JobShape
  <2> QED  BY <1>0, <1>5, <2>1 DEF QueueEmbed, CorpusShape, EmbedderShape, StoreShape, TableShape
<1>6. CASE Embed
  BY <1>6, EmbedShapes
<1>7. CASE SearchPoints
  BY <1>0, <1>7 DEF SearchPoints, FetchFeatures, CorpusShape, EmbedderShape, JobShape,
                    StoreShape, TableShape, corpusJobs
<1>8. CASE ScriptWipes
  BY <1>0, <1>8 DEF ScriptWipes, CorpusShape, EmbedderShape, JobShape,
                    StoreShape, TableShape, corpusJobs
<1>9. CASE ScriptDrops
  BY <1>0, <1>9, EmptyStore DEF ScriptDrops, CorpusShape, EmbedderShape, JobShape,
                    StoreShape, TableShape, corpusJobs
<1>10. CASE ScriptReplays
  <2>1. JobShape'
    BY <1>0, <1>10 DEF ScriptReplays, JobShape
  <2> QED  BY <1>0, <1>10, <2>1 DEF ScriptReplays, CorpusShape, EmbedderShape,
                    StoreShape, TableShape
<1>11. CASE Restart
  <2>1. JobShape'
    BY <1>0, <1>11 DEF Restart, JobShape
  <2> QED  BY <1>0, <1>11, <2>1 DEF Restart, CorpusShape, EmbedderShape, StoreShape, TableShape
<1>12. CASE UNCHANGED corpusVars
  BY <1>0, <1>12 DEF corpusVars, CorpusShape, EmbedderShape, JobShape, StoreShape, TableShape
<1> QED  BY <1>1, <1>2, <1>3, <1>4, <1>5, <1>6, <1>7, <1>8, <1>9, <1>10, <1>11, <1>12
         DEF CorpusNext

(* The shapes are the types that the runs check.                            *)
LEMMA CorpusShapeIsType == CorpusShape => CorpusTypeOK
<1> SUFFICES ASSUME CorpusShape  PROVE CorpusTypeOK
  OBVIOUS
<1>1. EmbedderShape /\ JobShape /\ StoreShape /\ TableShape
  BY DEF CorpusShape
<1>2. embedder.at \in Steps
  BY <1>1 DEF EmbedderShape, EmbedderStates, IdleEmbedder, Steps
<1>3. embedder.at # "idle" => embedder.chunk \in 1..Chunks[embedder.version] + 1
  <2> SUFFICES ASSUME embedder.at # "idle"
               PROVE  embedder.chunk \in 1..Chunks[embedder.version] + 1
    OBVIOUS
  <2>1. Chunks[embedder.version] \in Nat
    BY <1>1, BusyEmbedder
  <2>2. \/ embedder.chunk = Chunks[embedder.version] + 1 \/ embedder.chunk = 1
        \/ embedder.chunk \in 1..Chunks[embedder.version]
    BY <1>1 DEF EmbedderShape, IdleEmbedder
  <2> QED  BY <2>1, <2>2
<1>4. ~exists => \A id \in Ids, n \in 1..MaxChunks : points[id][n] = NoPoint
  BY <1>1 DEF StoreShape, NoPoints
<1>5. \A d \in Docs : owner[d] \in {d, None} \cup Series
  BY <1>1 DEF JobShape
<1> QED  BY <1>1, <1>2, <1>3, <1>4, <1>5
         DEF CorpusTypeOK, JobShape, StoreShape, TableShape, Point

(* Type correctness: a rebuild counts its chunks within the text it has     *)
(* read, a document is by itself, of a series or gone, and a collection     *)
(* that is not there holds nothing.                                         *)
THEOREM CorpusTypesCorrect == CorpusSpec => []CorpusTypeOK
<1>1. CorpusSpec => []CorpusShape
  BY CorpusShapeInit, CorpusShapeStep, PTL DEF CorpusSpec
<1> QED  BY <1>1, CorpusShapeIsType, PTL
-----------------------------------------------------------------------------
(* What the hash, the jobs and the points of an owner say                   *)

Building == embedder.at \notin {"idle", "skip"}
BuildingOf(o) == Building /\ embedder.owner = o
NoJobs(o) == \A d \in Docs : owner[d] = o => job[d] = "none"

(* The hash is never of a later text, and is not of the present one while   *)
(* that is embedded.                                                        *)
HashOld(o) ==
  o \in Series \ unsure => hash[o] <= texts[o] /\ (BuildingOf(o) => hash[o] # texts[o])

HashTrue(o) == ~Excepted(o) /\ Unchanged(o) /\ ~BuildingOf(o) => Whole(o)

(* Between the drop of the collection and the replay no hash is of the      *)
(* present text.                                                            *)
StaysWiped(o) ==
  o \in Series \ (unsure \cup mixed) /\ script = "drop" => ~Unchanged(o)

(* A text that was never embedded and never will be is none.                *)
NothingToEmbed(o) == o \notin behind /\ NoJobs(o) => texts[o] = None

SettledWhole(o) ==
  /\ ~Excepted(o) /\ ~BuildingOf(o) /\ o \notin behind /\ Settled(o)
  /\ script # "replay" \/ NoJobs(o)
  => Whole(o)

OwnerSound(o) ==
  HashOld(o) /\ HashTrue(o) /\ StaysWiped(o) /\ NothingToEmbed(o) /\ SettledWhole(o)

(* What is embedded is the present text, or its owner is behind.            *)
BuildCurrent ==
  Building =>
    /\ embedder.owner \in Series \ unsure => embedder.version <= texts[embedder.owner]
    /\ embedder.owner \in behind \/ embedder.version = texts[embedder.owner]

(* The job of the document is open until the stage is done, and its         *)
(* document has not moved, or both owners are behind.                       *)
BusyJob ==
  /\ embedder.at \notin {"idle", "hash"} /\ owner[embedder.doc] # None =>
       job[embedder.doc] \in {"running", "pending"}
  /\ embedder.at # "idle" =>
       \/ owner[embedder.doc] = embedder.owner
       \/ embedder.owner \in behind /\ owner[embedder.doc] \in behind \cup {None}

(* The chunks before the present one are stored, and no others.             *)
Progress ==
  /\ embedder.at \notin {"idle", "skip", "delete"}
  /\ ~Shared(embedder.owner) /\ embedder.owner \notin mixed
  => Held(embedder.owner) = Filled(embedder.version, embedder.chunk - 1)

SkipWhole ==
  embedder.at = "skip" /\ ~Excepted(embedder.owner) /\ embedder.owner \notin behind =>
    Whole(embedder.owner)

EmbedderSound == BuildCurrent /\ BusyJob /\ Progress /\ SkipWhole

Sound == EmbedderSound /\ \A o \in Owners : OwnerSound(o)

(* An owner is of the series or is a document, and its names are numbers.   *)
LEMMA OwnerTypes ==
  ASSUME CorpusShape, NEW o \in Owners
  PROVE  /\ texts[o] \in Nat /\ (texts[o] # None => texts[o] > 0 /\ texts[o] \in Versions)
         /\ o \in Series => hash[o] \in Nat
BY VersionNumbers, OwnersHaveIds DEF CorpusShape, TableShape, None

(* A delete takes the points of one owner.                                  *)
LEMMA HeldAfterDelete ==
  ASSUME CorpusShape, NEW q \in Owners, NEW o \in Owners, points' = WithoutOwner(q)
  PROVE  Held(o)' = IF o = q THEN Filled(None, 0) ELSE Held(o)
<1>1. \A n \in 1..MaxChunks :
        points'[IdOf[o]][n] = IF points[IdOf[o]][n].owner = q
                              THEN NoPoint ELSE points[IdOf[o]][n]
  BY OwnersHaveIds DEF WithoutOwner
<1>2. NoPoint.owner # o
  BY OwnersHaveIds DEF NoPoint
<1>3. CASE o = q
  BY <1>1, <1>2, <1>3 DEF Held, Filled
<1>4. CASE o # q
  BY <1>1, <1>2, <1>4 DEF Held
<1> QED  BY <1>3, <1>4

(* A stored chunk is one more of its owner, and leaves the chunks of every  *)
(* owner with ids of its own.                                               *)
LEMMA HeldAfterPut ==
  ASSUME CorpusShape, embedder.at \in {"put", "retry"}, StoredChunk, NEW o \in Owners,
         ~Shared(o)
  PROVE  Held(o)' = IF o = embedder.owner
                    THEN [n \in 1..MaxChunks |-> IF n = embedder.chunk
                                                 THEN embedder.version ELSE Held(o)[n]]
                    ELSE Held(o)
<1>1. /\ embedder.owner \in Owners /\ IdOf[o] \in Ids
      /\ \A id \in Ids, n \in 1..MaxChunks :
           points'[id][n] = IF id = IdOf[embedder.owner] /\ n = embedder.chunk
                            THEN [owner |-> embedder.owner, version |-> embedder.version]
                            ELSE points[id][n]
  BY StoresChunk, BusyEmbedder, OwnersHaveIds DEF CorpusShape
<1>2. CASE o = embedder.owner
  BY <1>1, <1>2 DEF Held
<1>3. CASE o # embedder.owner
  <2>1. IdOf[o] # IdOf[embedder.owner]
    BY <1>1, <1>3 DEF Shared
  <2> QED  BY <1>1, <1>3, <2>1 DEF Held
<1> QED  BY <1>2, <1>3

(* What is whole stays whole while its text and its points stay.            *)
LEMMA WholeStays ==
  ASSUME NEW o \in Owners, texts'[o] = texts[o], Held(o)' = Held(o), Whole(o)
  PROVE  Whole(o)'
BY DEF Whole, Filled, ChunksOf

(* An owner whose own state a step leaves alone, or whose jobs it opens or  *)
(* fails, stays sound.                                                      *)
LEMMA OwnerKept ==
  ASSUME NEW o \in Owners, OwnerSound(o), texts'[o] = texts[o],
         o \in Series => hash'[o] = hash[o],
         ~Shared(o) => Held(o)' = Held(o), script' = script,
         BuildingOf(o)' <=> BuildingOf(o),
         o \in behind => o \in behind',
         o \in unsure => o \in unsure',
         o \in mixed => o \in mixed',
         \A d \in Docs : owner'[d] = o <=> owner[d] = o,
         \A d \in Docs : owner[d] = o =>
           job'[d] = job[d] \/ job'[d] \notin {"none", "done"} \/ o \in behind'
  PROVE  OwnerSound(o)'
<1>1. ~Shared(o) /\ Whole(o) => Whole(o)'
  BY WholeStays
<1>2. HashOld(o)'
  BY DEF OwnerSound, HashOld
<1>3. HashTrue(o)'
  BY <1>1 DEF OwnerSound, HashTrue, Excepted, Unchanged, Shared
<1>4. StaysWiped(o)'
  BY DEF OwnerSound, StaysWiped, Unchanged
<1>5. o \notin behind' => (NoJobs(o)' => NoJobs(o)) /\ (Settled(o)' => Settled(o))
  BY DEF NoJobs, Settled
<1>6. NothingToEmbed(o)'
  BY <1>5 DEF OwnerSound, NothingToEmbed
<1>7. SettledWhole(o)'
  BY <1>1, <1>5 DEF OwnerSound, SettledWhole, Excepted, Shared
<1> QED  BY <1>2, <1>3, <1>4, <1>6, <1>7 DEF OwnerSound

(* It holds at first.                                                       *)
LEMMA SoundInit == CorpusInit => Sound
<1> SUFFICES ASSUME CorpusInit  PROVE Sound
  OBVIOUS
<1>1. EmbedderSound
  BY DEF CorpusInit, IdleEmbedder, EmbedderSound, BuildCurrent, BusyJob, Progress, SkipWhole,
         Building
<1>2. ASSUME NEW o \in Owners  PROVE OwnerSound(o)
  <2>1. texts[o] = None /\ (o \in Series => hash[o] = None) /\ None <= None
    BY VersionNumbers DEF CorpusInit
  <2>2. Whole(o)
    BY <2>1, OwnersHaveIds DEF CorpusInit, Whole, Held, Filled, NoPoints, NoPoint
  <2> QED  BY <2>1, <2>2 DEF CorpusInit, OwnerSound, HashOld, HashTrue, StaysWiped, Unchanged,
             NothingToEmbed, SettledWhole, BuildingOf, Building, IdleEmbedder
<1> QED  BY <1>1, <1>2 DEF Sound
-----------------------------------------------------------------------------
(* A change of texts by users or by the stages before embed                 *)
LEMMA ChangesSound ==
  ASSUME CorpusShape, Sound, NEW t, t \in [Owners -> Versions \cup {None}],
         NEW touched, Retext(t, touched),
         \A o \in Owners : o \notin touched =>
           /\ t[o] = texts[o]
           /\ \A d \in Docs : owner'[d] = o <=> owner[d] = o
           /\ \A d \in Docs : owner[d] = o => job'[d] = job[d],
         \A d \in Docs : /\ owner'[d] # None => /\ owner[d] # None
                                                /\ job'[d] = job[d] \/ job'[d] = "pending"
                         /\ \/ owner'[d] = owner[d]
                            \/ owner[d] \in touched /\ owner'[d] \in touched \cup {None}
  PROVE  Sound'
<1>1. /\ texts' = t /\ behind' = behind \cup touched
      /\ unsure' = unsure \cup {s \in Series \cap touched : t[s] < texts[s]}
      /\ UNCHANGED <<hash, points, exists, cache, embedder, script, mixed>>
  BY DEF Retext
<1>2. \A o \in Owners : Held(o)' = Held(o) /\ (BuildingOf(o)' <=> BuildingOf(o))
  BY <1>1 DEF Held, BuildingOf, Building
<1>3. ASSUME NEW o \in Owners, o \notin touched  PROVE OwnerSound(o)'
  BY <1>1, <1>2, <1>3, OwnerKept, Zenon DEF Sound
<1>4. ASSUME NEW o \in Owners, o \in touched  PROVE OwnerSound(o)'
  <2>1. t[o] \in Nat /\ texts[o] \in Nat /\ (o \in Series => hash[o] \in Nat)
    BY VersionNumbers, OwnerTypes
  <2>2. o \in Series \ unsure' => o \notin unsure /\ (t[o] = texts[o] \/ t[o] > texts[o])
    BY <1>1, <1>4, <2>1
  <2>3. HashOld(o) /\ HashTrue(o) /\ StaysWiped(o)
    BY DEF Sound, OwnerSound
  <2>4. HashOld(o)'
    BY <1>1, <1>2, <2>1, <2>2, <2>3 DEF HashOld
  <2>5. o \in Series \ unsure' /\ Unchanged(o)' => t[o] = texts[o] /\ Unchanged(o)
    BY <1>1, <2>1, <2>2, <2>3 DEF HashOld, Unchanged
  <2>6. HashTrue(o)'
    <3> SUFFICES ASSUME ~Excepted(o)', Unchanged(o)', ~BuildingOf(o)'  PROVE Whole(o)'
      BY DEF HashTrue
    <3>1. o \in Series \ unsure' /\ ~Excepted(o)
      BY <1>1 DEF Excepted, Unchanged, Shared
    <3> QED  BY <1>1, <1>2, <2>3, <2>5, <3>1, WholeStays DEF HashTrue
  <2>7. StaysWiped(o)'
    BY <1>1, <2>3, <2>5 DEF StaysWiped
  <2>8. NothingToEmbed(o)' /\ SettledWhole(o)'
    BY <1>1, <1>4 DEF NothingToEmbed, SettledWhole
  <2> QED  BY <2>4, <2>6, <2>7, <2>8 DEF OwnerSound
<1>5. EmbedderSound'
  <2>1. EmbedderSound
    BY DEF Sound
  <2>2. CASE embedder.at = "idle"
    BY <1>1, <2>2 DEF EmbedderSound, BuildCurrent, BusyJob, Progress, SkipWhole, Building
  <2>3. CASE embedder.at # "idle"
    <3> DEFINE o == embedder.owner  d == embedder.doc
    <3>1. o \in Owners /\ d \in Docs /\ embedder.version \in Nat
      BY <2>3, BusyEmbedder, VersionNumbers DEF CorpusShape
    <3>2. t[o] \in Nat /\ texts[o] \in Nat
      BY <3>1, VersionNumbers, OwnerTypes
    <3>3. o \in Series \ unsure' => o \notin unsure /\ t[o] >= texts[o]
      BY <1>1, <3>1, <3>2
    <3>4. BuildCurrent'
      BY <1>1, <2>1, <3>1, <3>2, <3>3 DEF EmbedderSound, BuildCurrent, Building
    <3>5. BusyJob'
      <4>1. embedder.at # "hash" /\ owner'[d] # None => job'[d] \in {"running", "pending"}
        BY <2>1, <2>3, <3>1 DEF EmbedderSound, BusyJob
      <4>2. owner'[d] = o \/ (o \in behind' /\ owner'[d] \in behind' \cup {None})
        BY <1>1, <2>1, <2>3, <3>1 DEF EmbedderSound, BusyJob
      <4> QED  BY <1>1, <4>1, <4>2 DEF BusyJob
    <3>6. Progress'
      BY <1>1, <1>2, <2>1, <3>1 DEF EmbedderSound, Progress, Filled, Shared
    <3>7. SkipWhole'
      <4> SUFFICES ASSUME embedder.at = "skip", ~Excepted(o)', o \notin behind'
                   PROVE  Whole(o)'
        BY <1>1 DEF SkipWhole
      <4>1. o \notin behind /\ o \notin touched /\ ~Excepted(o)
        BY <1>1 DEF Excepted, Shared
      <4> QED  BY <1>1, <1>2, <2>1, <3>1, <4>1, WholeStays DEF EmbedderSound, SkipWhole
    <3> QED  BY <3>4, <3>5, <3>6, <3>7 DEF EmbedderSound
  <2> QED  BY <2>2, <2>3
<1> QED  BY <1>3, <1>4, <1>5 DEF Sound

(* What users and the stages before embed do                                *)
LEMMA UsersSound ==
  ASSUME CorpusShape, Sound, NEW d \in Docs
  PROVE  /\ \A v \in Versions : SetText(d, v) => Sound'
         /\ \A v \in Versions \cup {None} : EditText(d, v) => Sound'
         /\ \A o \in {d} \cup Series : MoveDocument(d, o) => Sound'
         /\ DeleteDocument(d) => Sound'
         /\ QueueEmbed(d) => Sound'
<1>0. /\ texts \in [Owners -> Versions \cup {None}] /\ owner[d] \in Owners \cup {None}
      /\ owner \in [Docs -> Owners \cup {None}]
      /\ job \in [Docs -> {"none", "pending", "running", "done", "error"}]
      /\ d \in Owners /\ Series \subseteq Owners /\ None \notin Owners
  BY OwnersHaveIds DEF CorpusShape, TableShape, JobShape
<1>1. ASSUME NEW v \in Versions, SetText(d, v)  PROVE Sound'
  <2> DEFINE t == [texts EXCEPT ![owner[d]] = v]
  <2>1. /\ t \in [Owners -> Versions \cup {None}]
        /\ \A r \in Owners : r \notin {owner[d]} => t[r] = texts[r]
    BY <1>0
  <2>2. /\ Retext(t, {owner[d]}) /\ owner[d] # None
        /\ owner' = owner /\ job' = [job EXCEPT ![d] = "pending"]
    BY <1>1 DEF SetText
  <2>3. \A e \in Docs : job'[e] = IF e = d THEN "pending" ELSE job[e]
    BY <1>0, <2>2
  <2> HIDE DEF t
  <2> QED  BY <2>1, <2>2, <2>3, ChangesSound
<1>2. ASSUME NEW v \in Versions \cup {None}, EditText(d, v)  PROVE Sound'
  <2> DEFINE t == [texts EXCEPT ![owner[d]] = v]
  <2>1. /\ t \in [Owners -> Versions \cup {None}]
        /\ \A r \in Owners : r \notin {owner[d]} => t[r] = texts[r]
    BY <1>0
  <2>2. Retext(t, {owner[d]}) /\ owner' = owner /\ job' = job
    BY <1>2 DEF EditText, corpusJobs
  <2> HIDE DEF t
  <2> QED  BY <2>1, <2>2, ChangesSound
<1>3. ASSUME NEW o \in {d} \cup Series, MoveDocument(d, o)  PROVE Sound'
  <2>1. PICK x \in Versions \cup {None}, y \in Versions \cup {None} :
          Retext([texts EXCEPT ![owner[d]] = x, ![o] = y], {owner[d], o})
    BY <1>3 DEF MoveDocument
  <2> DEFINE t == [texts EXCEPT ![owner[d]] = x, ![o] = y]
  <2>2. /\ t \in [Owners -> Versions \cup {None}]
        /\ \A r \in Owners : r \notin {owner[d], o} => t[r] = texts[r]
    BY <1>0
  <2>3. owner[d] # None /\ o # None /\ job' = job /\ owner' = [owner EXCEPT ![d] = o]
    BY <1>0, <1>3 DEF MoveDocument
  <2>4. \A e \in Docs : owner'[e] = IF e = d THEN o ELSE owner[e]
    BY <1>0, <2>3
  <2> HIDE DEF t
  <2>5. Retext(t, {owner[d], o})
    BY <2>1 DEF t
  <2> QED  BY <2>2, <2>3, <2>4, <2>5, ChangesSound
<1>4. ASSUME DeleteDocument(d)  PROVE Sound'
  <2>1. PICK x \in Versions \cup {None} :
          Retext([texts EXCEPT ![owner[d]] = x], {owner[d]})
    BY <1>4 DEF DeleteDocument
  <2> DEFINE t == [texts EXCEPT ![owner[d]] = x]
  <2>2. /\ t \in [Owners -> Versions \cup {None}]
        /\ \A r \in Owners : r \notin {owner[d]} => t[r] = texts[r]
    BY <1>0
  <2>3. /\ owner[d] # None /\ owner' = [owner EXCEPT ![d] = None]
        /\ job' = [job EXCEPT ![d] = "none"]
    BY <1>4 DEF DeleteDocument
  <2>4. \A e \in Docs : /\ owner'[e] = IF e = d THEN None ELSE owner[e]
                        /\ job'[e] = IF e = d THEN "none" ELSE job[e]
    BY <1>0, <2>3
  <2> HIDE DEF t
  <2>5. Retext(t, {owner[d]})
    BY <2>1 DEF t
  <2> QED  BY <1>0, <2>2, <2>3, <2>4, <2>5, ChangesSound
<1>5. ASSUME QueueEmbed(d)  PROVE Sound'
  <2>1. /\ job' = [job EXCEPT ![d] = "pending"]
        /\ UNCHANGED <<owner, texts, hash, points, embedder, script>> /\ UNCHANGED corpusGhosts
    BY <1>5 DEF QueueEmbed
  <2>2. \A e \in Docs : job'[e] = IF e = d THEN "pending" ELSE job[e]
    BY <1>0, <2>1
  <2>3. \A o \in Owners : OwnerSound(o)'
    BY <2>1, <2>2, OwnerKept DEF Sound, Held, BuildingOf, Building, corpusGhosts
  <2>4. EmbedderSound'
    <3>1. \A o \in Owners : Whole(o)' <=> Whole(o)
      BY <2>1 DEF Whole, Held, Filled, ChunksOf
    <3>2. /\ EmbedderSound
          /\ embedder.at # "idle" => embedder.doc \in Docs /\ embedder.owner \in Owners
      BY BusyEmbedder DEF Sound, CorpusShape
    <3>3. BuildCurrent' /\ BusyJob'
      BY <2>1, <2>2, <3>2 DEF EmbedderSound, BuildCurrent, BusyJob, Building, corpusGhosts
    <3>4. Progress' /\ SkipWhole'
      BY <2>1, <3>1, <3>2 DEF EmbedderSound, Progress, SkipWhole, Held, Filled, Shared,
                              Excepted, corpusGhosts
    <3> QED  BY <3>3, <3>4 DEF EmbedderSound
  <2> QED  BY <2>3, <2>4 DEF Sound
<1> QED  BY <1>1, <1>2, <1>3, <1>4, <1>5
-----------------------------------------------------------------------------
(* The worker in the stage                                                  *)

(* What the worker does for one owner leaves the others sound.              *)
LEMMA OthersKept ==
  ASSUME CorpusShape, Sound, embedder.at # "idle",
         UNCHANGED <<owner, texts, script, behind>>,
         NEW o \in Owners, o # embedder.owner,
         embedder'.at = "idle" \/ embedder'.owner = embedder.owner,
         o \in Series => hash'[o] = hash[o],
         ~Shared(o) => Held(o)' = Held(o),
         o \in unsure => o \in unsure', o \in mixed => o \in mixed',
         \A d \in Docs : d # embedder.doc => job'[d] \in {job[d], "pending"}
  PROVE  OwnerSound(o)'
<1>1. ~BuildingOf(o) /\ ~BuildingOf(o)'
  BY DEF BuildingOf, Building
<1>2. owner[embedder.doc] = o => o \in behind'
  BY OwnersHaveIds DEF Sound, EmbedderSound, BusyJob
<1>3. \A d \in Docs : owner[d] = o =>
        job'[d] = job[d] \/ job'[d] \notin {"none", "done"} \/ o \in behind'
  BY <1>2
<1>4. OwnerSound(o)
  BY DEF Sound
<1> QED  BY <1>1, <1>3, <1>4, OwnerKept

(* A rebuild goes on.                                                       *)
LEMMA BuildGoesOn ==
  ASSUME CorpusShape, Sound, Building, Building', Progress',
         UNCHANGED <<owner, texts, hash, script, behind, unsure>>,
         embedder'.doc = embedder.doc, embedder'.owner = embedder.owner,
         embedder'.version = embedder.version, embedder.at # "hash",
         \A o \in Owners : o # embedder.owner =>
           (~Shared(o) => Held(o)' = Held(o)) /\ (o \in mixed => o \in mixed'),
         \A d \in Docs : d # embedder.doc => job'[d] = job[d],
         \/ job' = job
         \/ embedder'.at = "hash" /\ job'[embedder.doc] \in {job[embedder.doc], "done"}
  PROVE  Sound'
<1> DEFINE q == embedder.owner
<1>0. q \in Owners /\ embedder.doc \in Docs /\ embedder.at # "idle"
  BY BusyEmbedder DEF CorpusShape, Building
<1>1. \A o \in Owners : o # q => OwnerSound(o)'
  BY <1>0, OthersKept
<1>2. OwnerSound(q)'
  <2>1. OwnerSound(q) /\ BuildingOf(q) /\ BuildingOf(q)'
    BY <1>0 DEF Sound, BuildingOf
  <2>2. HashOld(q)' /\ HashTrue(q)' /\ SettledWhole(q)'
    BY <2>1 DEF OwnerSound, HashOld, HashTrue, SettledWhole
  <2>3. StaysWiped(q)'
    BY <2>1, <2>2 DEF StaysWiped, HashOld, Unchanged
  <2>4. NothingToEmbed(q)'
    BY <1>0, <2>1 DEF OwnerSound, NothingToEmbed, NoJobs
  <2> QED  BY <2>2, <2>3, <2>4 DEF OwnerSound
<1>3. EmbedderSound'
  <2>1. BuildCurrent'
    BY DEF Sound, EmbedderSound, BuildCurrent
  <2>2. BusyJob'
    BY <1>0 DEF Sound, EmbedderSound, BusyJob
  <2>3. SkipWhole'
    BY DEF SkipWhole, Building
  <2> QED  BY <2>1, <2>2, <2>3 DEF EmbedderSound
<1> QED  BY <1>1, <1>2, <1>3 DEF Sound

(* An idle embedder has nothing to be wrong about.                          *)
LEMMA IdleSound == embedder'.at = "idle" => EmbedderSound'
BY DEF EmbedderSound, BuildCurrent, BusyJob, Progress, SkipWhole, Building

(* A rebuild that fails leaves an open or failed job, or an owner behind.   *)
LEMMA BuildFails ==
  ASSUME CorpusShape, Sound, Building,
         embedder' = IdleEmbedder, UNCHANGED <<owner, texts, hash, points, script>>,
         UNCHANGED corpusGhosts,
         \A d \in Docs : d # embedder.doc => job'[d] \in {job[d], "pending"},
         owner[embedder.doc] # None => job'[embedder.doc] \in {"pending", "error"}
  PROVE  Sound'
<1>q. PICK q \in Owners : q = embedder.owner
  BY BusyEmbedder DEF CorpusShape, Building
<1> USE <1>q
<1>0. /\ q \in Owners /\ embedder.doc \in Docs /\ embedder.at # "idle"
      /\ embedder'.at = "idle" /\ UNCHANGED <<behind, unsure, mixed>>
  BY BusyEmbedder DEF CorpusShape, Building, IdleEmbedder, corpusGhosts
<1>1. \A o \in Owners : Held(o)' = Held(o)
  BY DEF Held
<1>2. \A o \in Owners : o # q => OwnerSound(o)'
  BY <1>0, <1>1, OthersKept
<1>3. OwnerSound(q)'
  <2>1. OwnerSound(q) /\ BuildingOf(q) /\ ~BuildingOf(q)'
    BY <1>0 DEF Sound, BuildingOf, Building
  <2>2. HashOld(q)'
    BY <1>0, <2>1 DEF OwnerSound, HashOld
  <2>3. HashTrue(q)'
    BY <1>0, <2>1 DEF OwnerSound, HashOld, HashTrue, Excepted, Unchanged
  <2>4. StaysWiped(q)'
    BY <1>0, <2>1 DEF OwnerSound, StaysWiped, Unchanged
  <2>5. q \notin behind => owner[embedder.doc] = q
    BY <1>0 DEF Sound, EmbedderSound, BusyJob
  <2>6. NothingToEmbed(q)' /\ SettledWhole(q)'
    BY <1>0, <2>5, OwnersHaveIds DEF NothingToEmbed, SettledWhole, NoJobs, Settled
  <2> QED  BY <2>2, <2>3, <2>4, <2>6 DEF OwnerSound
<1>4. EmbedderSound'
  BY <1>0, IdleSound
<1> QED  BY <1>2, <1>3, <1>4 DEF Sound

(* A rebuild that has stored its last chunk has embedded its version.       *)
LEMMA BuiltWhole ==
  ASSUME CorpusShape, Sound, embedder.at \in {"finish", "hash"},
         ~Shared(embedder.owner), embedder.owner \notin mixed,
         embedder.version = texts[embedder.owner]
  PROVE  Whole(embedder.owner)
<1>1. /\ embedder.version \in Versions /\ Chunks[embedder.version] \in Nat
      /\ embedder.chunk = Chunks[embedder.version] + 1 /\ embedder.version # None
  BY BusyEmbedder, VersionNumbers DEF CorpusShape, EmbedderShape, IdleEmbedder
<1>2. embedder.chunk - 1 = Chunks[embedder.version]
  BY <1>1
<1>3. Held(embedder.owner) = Filled(embedder.version, embedder.chunk - 1)
  BY DEF Sound, EmbedderSound, Progress
<1> QED  BY <1>1, <1>2, <1>3 DEF Whole, ChunksOf

(* A rebuild that ends well leaves its owner whole, and a true hash.        *)
LEMMA BuildDone ==
  ASSUME CorpusShape, Sound, embedder.at \in {"finish", "hash"},
         embedder' = IdleEmbedder, UNCHANGED <<owner, texts, points, script, behind>>,
         \A d \in Docs : d # embedder.doc => job'[d] \in {job[d], "pending"},
         job'[embedder.doc] \in {job[embedder.doc], "pending", "done"},
         \A o \in Series : o # embedder.owner => hash'[o] = hash[o],
         \/ UNCHANGED <<hash, unsure, mixed>>
         \/ /\ embedder.at = "hash" /\ hash'[embedder.owner] = embedder.version
            /\ unsure' = IF embedder.version = texts[embedder.owner]
                         THEN unsure \ {embedder.owner} ELSE unsure
            /\ mixed' = IF script = "drop" THEN mixed \cup {embedder.owner} ELSE mixed
  PROVE  Sound'
<1>q. PICK q \in Owners : q = embedder.owner
  BY BusyEmbedder DEF CorpusShape, Building
<1> USE <1>q
<1>0. /\ q \in Owners /\ embedder.doc \in Docs /\ embedder.at # "idle" /\ Building
      /\ embedder'.at = "idle" /\ (embedder.at = "hash" => q \in Series)
  BY BusyEmbedder DEF CorpusShape, EmbedderShape, Building, IdleEmbedder
<1>1. \A o \in Owners : Held(o)' = Held(o)
  BY DEF Held
<1>2. \A o \in Owners : o # q => OwnerSound(o)'
  BY <1>0, <1>1, OthersKept
<1>3. OwnerSound(q)'
  <2>1. OwnerSound(q) /\ BuildingOf(q) /\ ~BuildingOf(q)' /\ BuildCurrent
    BY <1>0 DEF Sound, EmbedderSound, BuildingOf, Building
  <2>2. ~Shared(q) /\ q \notin mixed' /\ embedder.version = texts[q] => Whole(q)'
    BY <1>0, <1>1, BuiltWhole, WholeStays
  <2>3. texts[q] \in Nat /\ embedder.version \in Nat
    BY <1>0, OwnerTypes, BusyEmbedder, VersionNumbers DEF CorpusShape
  <2>4. CASE UNCHANGED <<hash, unsure, mixed>>
    <3>1. HashOld(q)' /\ StaysWiped(q)'
      BY <2>1, <2>4 DEF OwnerSound, HashOld, StaysWiped, Unchanged
    <3>2. HashTrue(q)'
      BY <2>1, <2>4 DEF OwnerSound, HashOld, HashTrue, Excepted, Unchanged
    <3> QED  BY <3>1, <3>2, <2>1, <2>2, <2>3, <1>0
             DEF OwnerSound, NothingToEmbed, NoJobs, SettledWhole, BuildCurrent, Excepted, Shared
  <2>5. CASE /\ embedder.at = "hash" /\ hash'[q] = embedder.version
             /\ unsure' = IF embedder.version = texts[q] THEN unsure \ {q} ELSE unsure
             /\ mixed' = IF script = "drop" THEN mixed \cup {q} ELSE mixed
    <3>1. HashOld(q)'
      BY <1>0, <2>1, <2>3, <2>5 DEF HashOld, BuildCurrent
    <3>2. HashTrue(q)'
      BY <2>2, <2>5 DEF HashTrue, Excepted, Unchanged, Shared
    <3>3. StaysWiped(q)'
      BY <2>5 DEF StaysWiped
    <3> QED  BY <3>1, <3>2, <3>3, <2>1, <2>2, <1>0
             DEF OwnerSound, NothingToEmbed, NoJobs, SettledWhole, BuildCurrent, Excepted, Shared
  <2> QED  BY <2>4, <2>5
<1>4. EmbedderSound'
  BY <1>0, IdleSound
<1> QED  BY <1>2, <1>3, <1>4 DEF Sound
(* A job is taken up, or fails for want of a text.                          *)
LEMMA BeginSound ==
  ASSUME CorpusShape, Sound, NEW d \in Docs, BeginEmbed(d)
  PROVE  Sound'
<1> PICK o \in Owners : owner[d] = o /\ job[d] = "pending"
  BY DEF BeginEmbed, CorpusShape, JobShape
<1>0. /\ embedder.at = "idle" /\ UNCHANGED <<owner, texts, hash, points, script, mixed>>
      /\ job \in [Docs -> {"none", "pending", "running", "done", "error"}]
      /\ texts[o] \in Nat /\ (texts[o] # None => texts[o] \in Versions) /\ o \in Docs \cup Series
  BY OwnerTypes DEF BeginEmbed, At, CorpusShape, JobShape, Owners
<1>1. \A r \in Owners : Held(r)' = Held(r) /\ ~BuildingOf(r) /\ OwnerSound(r)
  BY <1>0 DEF Held, BuildingOf, Building, Sound
<1>2. CASE JobFails(d) /\ UNCHANGED <<behind, unsure>>
  <2>1. /\ embedder'.at = "idle" /\ \A e \in Docs : e # d => job'[e] = job[e]
        /\ job'[d] \in {"pending", "error"}
    BY <1>0, <1>2, OwnersHaveIds DEF JobFails, IdleEmbedder
  <2>2. \A r \in Owners : ~BuildingOf(r)'
    BY <2>1 DEF BuildingOf, Building
  <2>3. \A r \in Owners : OwnerSound(r)'
    BY <1>0, <1>1, <1>2, <2>1, <2>2, OwnerKept
  <2> QED  BY <2>1, <2>3, IdleSound DEF Sound
<1>3. ASSUME NEW v \in Versions, NEW skip \in BOOLEAN, Begin(d, v, skip),
             v = texts[o] \/ (o \in Series /\ v <= texts[o]),
             skip => o \in Series /\ v = hash[o]
      PROVE  Sound'
  <2>1. /\ job' = [job EXCEPT ![d] = "running"]
        /\ embedder' = [at |-> IF skip THEN "skip" ELSE "delete", doc |-> d,
                        owner |-> o, version |-> v, chunk |-> 1]
        /\ behind' = IF v = texts[o] THEN behind \ {o} ELSE behind \cup {o}
        /\ unsure' = IF Unchanged(o) /\ ~skip THEN unsure \cup {o} ELSE unsure
    BY <1>3 DEF Begin
  <2>2. /\ embedder'.at = IF skip THEN "skip" ELSE "delete"
        /\ embedder'.doc = d /\ embedder'.owner = o /\ embedder'.version = v
        /\ job'[d] = "running" /\ \A e \in Docs : e # d => job'[e] = job[e]
    BY <1>0, <2>1
  <2>3. v \in Nat /\ v > 0 /\ v <= texts[o] /\ texts[o] # None
    BY <1>0, <1>3, VersionNumbers DEF None
  <2>4. ASSUME NEW r \in Owners, r # o  PROVE OwnerSound(r)'
    <3>1. ~BuildingOf(r)'
      BY <2>2, <2>4 DEF BuildingOf
    <3> QED  BY <1>0, <1>1, <2>1, <2>2, <2>4, <3>1, OwnerKept
  <2>5. OwnerSound(o)'
    <3>1. HashOld(o)'
      BY <1>0, <1>1, <2>1, <2>2, <2>3 DEF OwnerSound, HashOld, Unchanged, BuildingOf, Building
    <3>2. HashTrue(o)'
      <4> SUFFICES ASSUME ~Excepted(o)', Unchanged(o)'  PROVE Whole(o)'
        BY DEF HashTrue
      <4>1. ~Excepted(o) /\ Unchanged(o)
        BY <1>0, <2>1 DEF Excepted, Unchanged, Shared
      <4> QED  BY <1>0, <1>1, <4>1, WholeStays DEF OwnerSound, HashTrue
    <3>3. StaysWiped(o)'
      BY <1>0, <1>1, <2>1 DEF OwnerSound, StaysWiped, Unchanged
    <3>4. NothingToEmbed(o)' /\ SettledWhole(o)'
      BY <1>0, <2>2 DEF NothingToEmbed, SettledWhole, NoJobs, Settled
    <3> QED  BY <3>1, <3>2, <3>3, <3>4 DEF OwnerSound
  <2>6. BuildCurrent' /\ BusyJob' /\ Progress'
    BY <1>0, <2>1, <2>2, <2>3 DEF BuildCurrent, BusyJob, Progress
  <2>7. SkipWhole'
    <3> SUFFICES ASSUME skip, ~Excepted(o)', o \notin behind'  PROVE Whole(o)'
      BY <2>2 DEF SkipWhole
    <3>1. ~Excepted(o) /\ Unchanged(o)
      BY <1>0, <1>3, <2>1, <2>3 DEF Excepted, Shared, Unchanged
    <3> QED  BY <1>0, <1>1, <3>1, WholeStays DEF OwnerSound, HashTrue
  <2> QED  BY <2>4, <2>5, <2>6, <2>7 DEF Sound, EmbedderSound
<1>4. CASE texts[o] # None /\ Begin(d, texts[o], Unchanged(o))
  BY <1>0, <1>3, <1>4 DEF Unchanged
<1>5. ASSUME o \in Series, NEW v \in Versions, v <= texts[o],
             Begin(d, v, v # texts[o] /\ v = hash[o])
      PROVE  Sound'
  BY <1>3, <1>5
<1> QED  BY <1>2, <1>4, <1>5 DEF BeginEmbed
(* The steps of the worker in the stage                                     *)
LEMMA EmbedSound == CorpusShape /\ Sound /\ Embed => Sound'
<1> SUFFICES ASSUME CorpusShape, Sound, Embed  PROVE Sound'
  OBVIOUS
<1>0. job \in [Docs -> {"none", "pending", "running", "done", "error"}]
  BY DEF CorpusShape, JobShape
<1>1. ASSUME embedder.at \notin {"idle", "skip"}, EmbedFails,
             UNCHANGED <<owner, texts, hash, points, script>>, UNCHANGED corpusGhosts
      PROVE  Sound'
  <2>1. /\ \A d \in Docs : d # embedder.doc => job'[d] = job[d]
        /\ owner[embedder.doc] # None => job'[embedder.doc] \in {"pending", "error"}
    BY <1>0, <1>1, BusyEmbedder DEF EmbedFails, JobFails, CorpusShape
  <2> QED  BY <1>1, <2>1, BuildFails DEF EmbedFails, JobFails, Building
<1>2. ASSUME embedder.at # "idle", JobDone
      PROVE  /\ \A d \in Docs : d # embedder.doc => job'[d] = job[d]
             /\ job'[embedder.doc] \in {job[embedder.doc], "done"}
             /\ owner[embedder.doc] # None => job'[embedder.doc] = "done"
  BY <1>0, <1>2, BusyEmbedder DEF JobDone, CorpusShape
<1>3. ASSUME embedder.at \notin {"idle", "skip", "delete", "finish", "hash"},
             NEW to \in {"ensure", "create", "put", "again", "recreate", "retry"}, Goto(to),
             UNCHANGED <<owner, texts, hash, points, script, job>>, UNCHANGED corpusGhosts
      PROVE  Sound'
  <2>1. /\ embedder'.at = to /\ embedder'.doc = embedder.doc
        /\ embedder'.owner = embedder.owner
        /\ embedder'.version = embedder.version /\ embedder'.chunk = embedder.chunk
    BY <1>3, GoesTo DEF CorpusShape
  <2>2. Progress' /\ Building /\ Building'
    BY <1>3, <2>1 DEF Sound, EmbedderSound, Progress, Building, Filled, Held, Shared, corpusGhosts
  <2>3. \A o \in Owners : Held(o)' = Held(o)
    BY <1>3 DEF Held
  <2> QED  BY <1>3, <2>1, <2>2, <2>3, BuildGoesOn DEF corpusGhosts
<1>4. ASSUME NEW d \in Docs, BeginEmbed(d)  PROVE Sound'
  BY <1>4, BeginSound
<1>5. CASE SkipRebuild
  <2>1. /\ embedder.at = "skip" /\ embedder' = IdleEmbedder /\ embedder'.at = "idle" /\ JobDone
        /\ UNCHANGED <<owner, texts, hash, points, script, behind, unsure, mixed>>
    BY <1>5 DEF SkipRebuild, At, corpusGhosts, IdleEmbedder
  <2> PICK q \in Owners : q = embedder.owner
    BY <2>1, BusyEmbedder DEF CorpusShape
  <2>2. \A o \in Owners : Held(o)' = Held(o) /\ ~BuildingOf(o) /\ ~BuildingOf(o)'
    BY <2>1 DEF Held, BuildingOf, Building
  <2>3. \A o \in Owners : o # q => OwnerSound(o)'
    BY <1>2, <2>1, <2>2, OthersKept
  <2>4. OwnerSound(q) /\ SkipWhole /\ BusyJob
    BY DEF Sound, EmbedderSound
  <2>5. q \notin behind => owner[embedder.doc] = q /\ embedder.doc \in Docs
                           /\ job'[embedder.doc] = "done"
    BY <1>2, <2>1, <2>4, BusyEmbedder, OwnersHaveIds DEF BusyJob, CorpusShape
  <2>6. HashOld(q)' /\ StaysWiped(q)'
    BY <2>1, <2>2, <2>4 DEF OwnerSound, HashOld, StaysWiped, Unchanged
  <2>7. HashTrue(q)'
    <3>1. Whole(q) => Whole(q)'
      BY <2>1, <2>2, WholeStays
    <3> QED  BY <2>1, <2>2, <2>4, <3>1 DEF OwnerSound, HashTrue, Excepted, Unchanged, Shared
  <2>8. NothingToEmbed(q)'
    BY <2>1, <2>5 DEF NothingToEmbed, NoJobs
  <2>9. SettledWhole(q)'
    <3> SUFFICES ASSUME ~Excepted(q)', q \notin behind'  PROVE Whole(q)'
      BY DEF SettledWhole
    <3>1. ~Excepted(q) /\ q \notin behind
      BY <2>1 DEF Excepted, Shared
    <3> QED  BY <2>1, <2>2, <2>4, <3>1, WholeStays DEF SkipWhole
  <2>10. EmbedderSound'
    BY <2>1, IdleSound
  <2> QED  BY <2>3, <2>6, <2>7, <2>8, <2>9, <2>10 DEF Sound, OwnerSound
<1>6. CASE DeleteOld
  <2>1. /\ embedder.at = "delete" /\ Goto(ChunkStep(1))
        /\ UNCHANGED <<owner, job, texts, hash, script, behind, unsure>>
    BY <1>6 DEF DeleteOld, At, corpusJobs
  <2>2. /\ embedder'.at \in {"ensure", "finish"} /\ embedder'.doc = embedder.doc
        /\ embedder'.owner = embedder.owner /\ embedder'.version = embedder.version
        /\ embedder'.chunk = 1 /\ embedder.owner \in Owners
    BY <2>1, DeleteGoesOn, BusyEmbedder DEF CorpusShape
  <2>3. Building /\ Building'
    BY <2>1, <2>2 DEF Building
  <2>4. Progress' /\ \A o \in Owners : o # embedder.owner =>
                       Held(o)' = Held(o) /\ (o \in mixed => o \in mixed')
    <3>1. CASE points' = WithoutOwner(embedder.owner) /\ mixed' = mixed \ {embedder.owner}
      <4>1. \A o \in Owners : Held(o)' = IF o = embedder.owner THEN Filled(None, 0) ELSE Held(o)
        BY <2>2, <3>1, HeldAfterDelete
      <4>2. Held(embedder.owner)' = Filled(None, 0)
        BY <2>2, <4>1 DEF Held
      <4>3. Filled(None, 0) = Filled(embedder.version, embedder'.chunk - 1)
        BY <2>2 DEF Filled
      <4> QED  BY <2>2, <3>1, <4>1, <4>2, <4>3 DEF Progress, Filled
    <3>2. CASE points' = points /\ mixed' = mixed \cup {embedder.owner}
      BY <2>2, <3>2 DEF Progress, Held
    <3> QED  BY <1>6, <3>1, <3>2 DEF DeleteOld
  <2> QED  BY <2>1, <2>2, <2>3, <2>4, BuildGoesOn
<1>7. CASE EnsureCollection
  <2>1. PICK from \in {"ensure", "again"}, to \in {"create", "put", "recreate", "retry"} :
          At(from) /\ Goto(to)
    BY <1>7 DEF EnsureCollection, Ensure
  <2>2. UNCHANGED <<owner, texts, hash, points, script, job>> /\ UNCHANGED corpusGhosts
    BY <1>7 DEF EnsureCollection, Ensure, corpusJobs
  <2> QED  BY <1>3, <2>1, <2>2 DEF At
<1>8. CASE CreateCollection
  <2>1. PICK from \in {"create", "recreate"}, to \in {"put", "retry"} : Create(from, to)
    BY <1>8 DEF CreateCollection
  <2> QED  BY <1>1, <1>3, <2>1 DEF Create, At
<1>9. CASE PutPoint
  <2>1. /\ embedder.at \in {"put", "retry"} /\ UNCHANGED <<owner, texts, hash, script>>
        /\ UNCHANGED corpusGhosts
    BY <1>9 DEF PutPoint, At
  <2>2. CASE StoredChunk
    <3>1. UNCHANGED <<job, behind, unsure, mixed>>
      BY <2>1, <2>2 DEF StoredChunk, corpusGhosts
    <3>2. /\ embedder'.at \in {"finish", "ensure"} /\ embedder'.doc = embedder.doc
          /\ embedder'.owner = embedder.owner /\ embedder'.version = embedder.version
          /\ embedder'.chunk = embedder.chunk + 1
      BY <2>1, <2>2, StoresChunk DEF CorpusShape
    <3>3. PICK q \in Owners : q = embedder.owner
      BY <2>1, BusyEmbedder DEF CorpusShape
    <3>4. embedder.chunk \in Nat /\ embedder'.chunk - 1 = embedder.chunk
      BY <2>1, <3>2, BusyEmbedder DEF CorpusShape
    <3>5. Building /\ Building'
      BY <2>1, <3>2 DEF Building
    <3>6. Progress'
      <4> SUFFICES ASSUME ~Shared(q), q \notin mixed
                   PROVE  Held(q)' = Filled(embedder.version, embedder.chunk)
        BY <3>1, <3>2, <3>3, <3>4 DEF Progress, Shared, Held, Filled
      <4>1. Held(q) = Filled(embedder.version, embedder.chunk - 1)
        BY <2>1, <3>3 DEF Sound, EmbedderSound, Progress
      <4>2. Held(q)' = [n \in 1..MaxChunks |-> IF n = embedder.chunk
                                               THEN embedder.version ELSE Held(q)[n]]
        BY <2>1, <2>2, <3>3, HeldAfterPut
      <4> QED  BY <3>4, <4>1, <4>2 DEF Filled
    <3>7. \A o \in Owners : o # embedder.owner /\ ~Shared(o) => Held(o)' = Held(o)
      BY <2>1, <2>2, HeldAfterPut
    <3> QED  BY <2>1, <3>1, <3>2, <3>5, <3>6, <3>7, BuildGoesOn
  <2>3. CASE Goto("again") /\ UNCHANGED <<points, job>>
    BY <1>3, <2>1, <2>3
  <2>4. CASE EmbedFails /\ points' = points
    BY <1>1, <2>1, <2>4
  <2> QED  BY <1>9, <2>2, <2>3, <2>4 DEF PutPoint
<1>10. CASE FinishEmbed
  <2>1. /\ embedder.at = "finish" /\ UNCHANGED <<owner, texts, hash, points, script>>
        /\ UNCHANGED corpusGhosts
    BY <1>10 DEF FinishEmbed, At
  <2>2. CASE EmbedFails
    BY <1>1, <2>1, <2>2
  <2>3. CASE embedder' = IdleEmbedder /\ JobDone
    BY <1>2, <2>1, <2>3, BuildDone DEF corpusGhosts
  <2>4. CASE embedder' = [embedder EXCEPT !.at = "hash"] /\ JobDone
    <3>1. embedder \in EmbedderStates
      BY <2>1, BusyEmbedder DEF CorpusShape
    <3>2. /\ embedder'.at = "hash" /\ embedder'.doc = embedder.doc
          /\ embedder'.owner = embedder.owner
          /\ embedder'.version = embedder.version /\ embedder'.chunk = embedder.chunk
      BY <2>4, <3>1 DEF EmbedderStates
    <3>3. Progress' /\ Building /\ Building'
      BY <2>1, <3>2 DEF Sound, EmbedderSound, Progress, Building, Filled, Held, Shared,
                        corpusGhosts
    <3>4. \A o \in Owners : Held(o)' = Held(o)
      BY <2>1 DEF Held
    <3> QED  BY <1>2, <2>1, <2>4, <3>2, <3>3, <3>4, BuildGoesOn DEF corpusGhosts
  <2> QED  BY <1>10, <2>2, <2>3, <2>4 DEF FinishEmbed
<1>11. CASE SetHash
  <2>1. /\ embedder.at = "hash" /\ UNCHANGED <<owner, job, texts, points, script, behind>>
        /\ embedder' = IdleEmbedder
    BY <1>11 DEF SetHash, At, corpusJobs
  <2>2. CASE UNCHANGED <<hash, unsure, mixed>>
    BY <2>1, <2>2, BuildDone
  <2>3. CASE /\ hash' = [hash EXCEPT ![embedder.owner] = embedder.version]
             /\ unsure' = IF embedder.version = texts[embedder.owner]
                          THEN unsure \ {embedder.owner} ELSE unsure
             /\ mixed' = IF script = "drop" THEN mixed \cup {embedder.owner} ELSE mixed
    <3>1. embedder.owner \in Series /\ hash \in [Series -> Versions \cup {None}]
      BY <2>1 DEF CorpusShape, EmbedderShape, IdleEmbedder, TableShape
    <3>2. /\ hash'[embedder.owner] = embedder.version
          /\ \A o \in Series : o # embedder.owner => hash'[o] = hash[o]
      BY <2>3, <3>1
    <3> QED  BY <2>1, <2>3, <3>2, BuildDone
  <2> QED  BY <1>11, <2>2, <2>3 DEF SetHash
<1> QED  BY <1>4, <1>5, <1>6, <1>7, <1>8, <1>9, <1>10, <1>11 DEF Embed
-----------------------------------------------------------------------------
(* The script, and a restart                                                *)

(* While the worker, its owner and its points stay, what is said of it      *)
(* stays.                                                                   *)
LEMMA EmbedderKept ==
  ASSUME CorpusShape, Sound,
         UNCHANGED <<owner, texts, points, embedder, behind, unsure>>,
         \A o \in Owners : o \in mixed => o \in mixed',
         \A d \in Docs : job[d] \in {"running", "pending"} => job'[d] = job[d]
  PROVE  EmbedderSound'
<1>1. CASE embedder.at = "idle"
  BY <1>1, IdleSound
<1>2. CASE embedder.at # "idle"
  <2>1. embedder.owner \in Owners /\ embedder.doc \in Docs /\ EmbedderSound
    BY <1>2, BusyEmbedder DEF CorpusShape, Sound
  <2>2. Held(embedder.owner)' = Held(embedder.owner)
    BY DEF Held
  <2>3. BuildCurrent' /\ BusyJob'
    BY <2>1 DEF EmbedderSound, BuildCurrent, BusyJob, Building
  <2>4. Progress' /\ SkipWhole'
    BY <2>1, <2>2 DEF EmbedderSound, Progress, SkipWhole, Excepted, Shared, Whole, Filled, ChunksOf
  <2> QED  BY <2>3, <2>4 DEF EmbedderSound
<1> QED  BY <1>1, <1>2

(* The hashes are wiped, or their owners excepted.                          *)
LEMMA ScriptWipesSound == CorpusShape /\ Sound /\ ScriptWipes => Sound'
<1> SUFFICES ASSUME CorpusShape, Sound, ScriptWipes  PROVE Sound'
  OBVIOUS
<1>1. /\ script = "idle" /\ script' = "drop"
      /\ UNCHANGED <<owner, job, texts, points, embedder, behind, unsure>>
      /\ \A s \in Series : hash'[s] = None \/ (hash'[s] = hash[s] /\ s \in mixed')
                                           \/ (hash'[s] = hash[s] /\ hash[s] = None)
      /\ \A o \in mixed : o \in mixed'
  BY DEF ScriptWipes, corpusJobs
<1>2. ASSUME NEW o \in Owners  PROVE OwnerSound(o)'
  <2>1. OwnerSound(o) /\ (BuildingOf(o)' <=> BuildingOf(o)) /\ Held(o)' = Held(o)
    BY <1>1 DEF Sound, BuildingOf, Building, Held
  <2>2. /\ texts[o] \in Nat /\ None <= texts[o]
        /\ o \in Series \ unsure /\ BuildingOf(o) => texts[o] # None
    <3>1. texts[o] \in Nat /\ None <= texts[o]
      BY OwnerTypes DEF None
    <3>2. ASSUME o \in Series \ unsure, BuildingOf(o)  PROVE texts[o] # None
      <4>1. embedder.version <= texts[o] /\ embedder.version \in Nat /\ embedder.version > 0
        BY <3>2, BusyEmbedder, VersionNumbers
           DEF Sound, EmbedderSound, BuildCurrent, BuildingOf, Building, CorpusShape
      <4> QED  BY <3>1, <4>1 DEF None
    <3> QED  BY <3>1, <3>2
  <2>3. HashOld(o)'
    BY <1>1, <2>1, <2>2 DEF OwnerSound, HashOld
  <2>4. HashTrue(o)' /\ StaysWiped(o)'
    BY <1>1 DEF HashTrue, StaysWiped, Excepted, Unchanged
  <2>5. NothingToEmbed(o)'
    BY <1>1, <2>1 DEF OwnerSound, NothingToEmbed, NoJobs
  <2>6. SettledWhole(o)'
    <3>1. Whole(o)' <=> Whole(o)
      BY <1>1, <2>1 DEF Whole, Filled, ChunksOf
    <3> QED  BY <1>1, <2>1, <3>1 DEF OwnerSound, SettledWhole, Settled, Excepted, Shared
  <2> QED  BY <2>3, <2>4, <2>5, <2>6 DEF OwnerSound
<1>3. EmbedderSound'
  BY <1>1, EmbedderKept
<1> QED  BY <1>2, <1>3 DEF Sound

(* The collection is dropped, or cannot be.                                 *)
LEMMA ScriptDropsSound == CorpusShape /\ Sound /\ ScriptDrops => Sound'
<1> SUFFICES ASSUME CorpusShape, Sound, ScriptDrops  PROVE Sound'
  OBVIOUS
<1>1. /\ script = "drop" /\ script' = "replay"
      /\ UNCHANGED <<owner, job, texts, hash, embedder, behind, unsure>>
      /\ \A o \in mixed : o \in mixed'
      /\ points' = points \/ (/\ points' = NoPoints
                              /\ embedder.at # "idle" => embedder.owner \in mixed')
  BY DEF ScriptDrops, corpusJobs, At
<1>2. ASSUME NEW o \in Owners  PROVE OwnerSound(o)'
  <2>1. OwnerSound(o) /\ (BuildingOf(o)' <=> BuildingOf(o))
    BY <1>1 DEF Sound, BuildingOf, Building
  <2>2. HashOld(o)' /\ NothingToEmbed(o)' /\ StaysWiped(o)'
    BY <1>1, <2>1 DEF OwnerSound, HashOld, NothingToEmbed, NoJobs, StaysWiped
  <2>3. HashTrue(o)'
    BY <1>1, <2>1 DEF OwnerSound, StaysWiped, HashTrue, Excepted, Unchanged
  <2>4. SettledWhole(o)'
    <3> SUFFICES ASSUME ~Excepted(o)', ~BuildingOf(o)', o \notin behind', NoJobs(o)'
                 PROVE  Whole(o)'
      BY <1>1 DEF SettledWhole
    <3>1. ~Excepted(o) /\ NoJobs(o) /\ Settled(o) /\ texts[o] = None
      BY <1>1, <2>1 DEF Excepted, Shared, NoJobs, Settled, OwnerSound, NothingToEmbed
    <3>2. CASE points' = points
      <4>1. Whole(o) /\ Held(o)' = Held(o)
        BY <1>1, <2>1, <3>1, <3>2 DEF OwnerSound, SettledWhole, Held
      <4> QED  BY <1>1, <4>1, WholeStays
    <3>3. CASE points' = NoPoints
      BY <1>1, <3>1, <3>3, OwnersHaveIds
         DEF Whole, Held, Filled, ChunksOf, NoPoints, NoPoint
    <3> QED  BY <1>1, <3>2, <3>3
  <2> QED  BY <2>2, <2>3, <2>4 DEF OwnerSound
<1>3. EmbedderSound'
  <2>1. CASE points' = points
    BY <1>1, <2>1, EmbedderKept
  <2>2. CASE embedder.at = "idle"
    BY <1>1, <2>2, IdleSound
  <2>3. CASE embedder.at # "idle" /\ embedder.owner \in mixed'
    <3>1. BuildCurrent' /\ BusyJob'
      BY <1>1 DEF Sound, EmbedderSound, BuildCurrent, BusyJob, Building
    <3>2. Progress' /\ SkipWhole'
      BY <1>1, <2>3 DEF Progress, SkipWhole, Excepted
    <3> QED  BY <3>1, <3>2 DEF EmbedderSound
  <2> QED  BY <1>1, <2>1, <2>2, <2>3
<1> QED  BY <1>2, <1>3 DEF Sound

(* The jobs are queued again, or their owners excepted.                     *)
LEMMA ScriptReplaysSound == CorpusShape /\ Sound /\ ScriptReplays => Sound'
<1> SUFFICES ASSUME CorpusShape, Sound, ScriptReplays  PROVE Sound'
  OBVIOUS
<1>1. PICK queued \in SUBSET {d \in Docs : job[d] = "done"} :
        /\ job' = [d \in Docs |-> IF d \in queued THEN "pending" ELSE job[d]]
        /\ mixed' = mixed \cup {owner[d] : d \in {d \in Docs : job[d] = "done"} \ queued}
  BY DEF ScriptReplays
<1>2. /\ script = "replay" /\ script' = "idle"
      /\ UNCHANGED <<owner, texts, hash, points, embedder, behind, unsure>>
  BY DEF ScriptReplays
<1>3. ASSUME NEW o \in Owners  PROVE OwnerSound(o)'
  <2>1. OwnerSound(o) /\ (BuildingOf(o)' <=> BuildingOf(o)) /\ Held(o)' = Held(o)
    BY <1>2 DEF Sound, BuildingOf, Building, Held
  <2>2. Whole(o)' <=> Whole(o)
    BY <1>2, <2>1 DEF Whole, Filled, ChunksOf
  <2>3. HashOld(o)' /\ HashTrue(o)' /\ StaysWiped(o)'
    BY <1>1, <1>2, <2>1, <2>2
       DEF OwnerSound, HashOld, HashTrue, StaysWiped, Excepted, Unchanged, Shared
  <2>4. NoJobs(o)' => NoJobs(o)
    BY <1>1, <1>2 DEF NoJobs
  <2>5. o \notin mixed' /\ Settled(o)' => NoJobs(o)
    <3> SUFFICES ASSUME o \notin mixed', Settled(o)', NEW d \in Docs, owner[d] = o
                 PROVE  job[d] = "none"
      BY DEF NoJobs
    <3>1. job'[d] \in {"none", "done"} /\ job'[d] = IF d \in queued THEN "pending" ELSE job[d]
      BY <1>1, <1>2 DEF Settled
    <3>2. d \in {e \in Docs : job[e] = "done"} \ queued => o \in mixed'
      BY <1>1
    <3> QED  BY <3>1, <3>2
  <2>6. NoJobs(o) => Settled(o)
    BY DEF NoJobs, Settled
  <2>7. NothingToEmbed(o)'
    BY <1>2, <2>1, <2>4 DEF OwnerSound, NothingToEmbed
  <2>8. SettledWhole(o)'
    BY <1>1, <1>2, <2>1, <2>2, <2>5, <2>6 DEF OwnerSound, SettledWhole, Excepted, Shared
  <2> QED  BY <2>3, <2>7, <2>8 DEF OwnerSound
<1>4. EmbedderSound'
  BY <1>1, <1>2, EmbedderKept
<1> QED  BY <1>3, <1>4 DEF Sound

(* A restart queues what was running, or ends what had only its hash to set.*)
LEMMA RestartSound == CorpusShape /\ Sound /\ Restart => Sound'
<1> SUFFICES ASSUME CorpusShape, Sound, Restart  PROVE Sound'
  OBVIOUS
<1>1. /\ embedder' = IdleEmbedder /\ embedder'.at = "idle" /\ UNCHANGED corpusGhosts
      /\ UNCHANGED <<owner, texts, hash, points, script, behind, unsure, mixed>>
      /\ \A d \in Docs : job'[d] = IF job[d] = "running" THEN "pending" ELSE job[d]
  BY DEF Restart, IdleEmbedder, corpusGhosts
<1>2. CASE Building /\ embedder.at # "hash"
  <2>1. embedder.doc \in Docs
        /\ (owner[embedder.doc] # None => job[embedder.doc] \in {"running", "pending"})
    BY <1>2, BusyEmbedder DEF Sound, EmbedderSound, BusyJob, Building, CorpusShape
  <2> QED  BY <1>1, <1>2, <2>1, BuildFails
<1>3. CASE embedder.at = "hash"
  <2>1. embedder.doc \in Docs
    BY <1>3, BusyEmbedder DEF CorpusShape
  <2> QED  BY <1>1, <1>3, <2>1, BuildDone
<1>4. CASE ~Building
  <2>1. \A o \in Owners : ~BuildingOf(o) /\ ~BuildingOf(o)' /\ Held(o)' = Held(o)
    BY <1>1, <1>4 DEF BuildingOf, Building, Held
  <2>2. \A o \in Owners : OwnerSound(o)
    BY DEF Sound
  <2>3. \A o \in Owners : OwnerSound(o)'
    BY <1>1, <2>1, <2>2, OwnerKept
  <2> QED  BY <1>1, <2>3, IdleSound DEF Sound
<1> QED  BY <1>2, <1>3, <1>4

(* Every step keeps it.                                                     *)
LEMMA SoundStep == CorpusShape /\ Sound /\ [CorpusNext]_corpusVars => Sound'
<1> SUFFICES ASSUME CorpusShape, Sound, [CorpusNext]_corpusVars  PROVE Sound'
  OBVIOUS
<1>1. ASSUME UNCHANGED <<owner, job, texts, hash, points, embedder, script, behind, unsure, mixed>>
      PROVE  Sound'
  <2>1. \A o \in Owners : OwnerSound(o)'
    BY <1>1, OwnerKept DEF Sound, Held, BuildingOf, Building
  <2> QED  BY <1>1, <2>1, EmbedderKept DEF Sound
<1>2. CASE SearchPoints
  BY <1>1, <1>2 DEF SearchPoints, corpusJobs, corpusGhosts
<1>3. CASE UNCHANGED corpusVars
  BY <1>1, <1>3 DEF corpusVars
<1> QED  BY <1>2, <1>3, UsersSound, EmbedSound, ScriptWipesSound, ScriptDropsSound,
            ScriptReplaysSound, RestartSound DEF CorpusNext

(* The strengthened invariant always holds.                                 *)
LEMMA CorpusInvHolds == CorpusSpec => [](CorpusShape /\ Sound)
BY CorpusShapeInit, CorpusShapeStep, SoundInit, SoundStep, PTL DEF CorpusSpec

(* The hash of a series speaks the truth, for any documents, series, texts  *)
(* and ids of points, whatever fails, is given up or restarts.              *)
THEOREM HashSpeaksTruth == CorpusSpec => []HashMeansWhole
<1>1. CorpusShape /\ Sound => HashMeansWhole
  BY OwnersHaveIds DEF HashMeansWhole, Sound, OwnerSound, HashTrue, At, Building, BuildingOf
<1> QED  BY <1>1, CorpusInvHolds, PTL

(* No owner is left half embedded without an open or failed job of one of   *)
(* its documents.                                                           *)
THEOREM NothingHalfEmbedded == CorpusSpec => []QuietMeansWhole
<1>1. CorpusShape /\ Sound => QuietMeansWhole
  BY DEF QuietMeansWhole, Sound, OwnerSound, SettledWhole, At, Building, BuildingOf
<1> QED  BY <1>1, CorpusInvHolds, PTL
=============================================================================
