---------------------------- MODULE IngestProofs ----------------------------
(***************************************************************************)
(* Proofs about Ingest: types, the invariants about what exists on behalf  *)
(* of an upload, that nothing is lost while nothing fails, and that Ingest *)
(* implements Intake.                                                      *)
(*                                                                         *)
(* UploadInv is the strengthening: which pieces an upload has at each of   *)
(* its steps.  It speaks of one upload; only OneDocument relates two.      *)
(***************************************************************************)
EXTENDS Ingest, TLAPS

UploadStep(u) ==
  \/ Spill(u) \/ ReadAttachment(u) \/ Request(u)
  \/ IngestError(u) \/ SweepTmp(u) \/ DeleteUploaded(u)

-----------------------------------------------------------------------------
(* Types                                                                    *)

(* The initial state has the types.                                         *)
LEMMA InitTypes == IngestInit => IngestTypeOK
BY IngestBoundsAssumption DEF IngestInit, IngestTypeOK, ReqSteps, Answers

(* A step of a request keeps the types.                                     *)
LEMMA RequestTypes ==
  ASSUME IngestTypeOK, NEW u \in Uploads, Request(u)
  PROVE  IngestTypeOK'
<1>1. CASE IsDuplicate(u) \/ IsNew(u) \/ SaveFile(u) \/ Refuse(u) \/ Accept(u)
  BY <1>1 DEF IsDuplicate, IsNew, SaveFile, Refuse, Accept, Step, Answer, Quietly,
              IngestTypeOK, ReqSteps, Answers, Pieces
<1>2. CASE InsertDocument(u) \/ InsertRejected(u) \/ SaveSeedFile(u) \/ StoreMeta(u)
  BY <1>2 DEF InsertDocument, InsertRejected, SaveSeedFile, StoreMeta, Step, Answer,
              Make, Quietly, IngestTypeOK, ReqSteps, Answers, Pieces
<1>3. CASE InsertArtifact(u) \/ InsertSeed(u) \/ AppendReceived(u) \/ CreateFirstJob(u)
  BY <1>3 DEF InsertArtifact, InsertSeed, AppendReceived, CreateFirstJob, InsertRow,
              Step, Answer, Make, Quietly, IngestTypeOK, ReqSteps, Answers, Pieces
<1>4. CASE DocumentGone(u)
  BY <1>4 DEF DocumentGone, Abandon, Answer, Quietly, IngestTypeOK, ReqSteps, Answers,
              Pieces
<1> QED  BY <1>1, <1>2, <1>3, <1>4 DEF Request

(* Every step of Ingest keeps the types.                                    *)
LEMMA StepTypes == IngestTypeOK /\ [IngestNext]_ingestVars => IngestTypeOK'
<1> SUFFICES ASSUME IngestTypeOK, [IngestNext]_ingestVars  PROVE IngestTypeOK'
  OBVIOUS
<1> USE IngestBoundsAssumption
<1>1. ASSUME NEW u \in Uploads, Spill(u) \/ ReadAttachment(u)  PROVE IngestTypeOK'
  BY <1>1 DEF Spill, ReadAttachment, Step, Make, Quietly, IngestTypeOK, ReqSteps,
              Pieces
<1>2. ASSUME NEW u \in Uploads, Request(u)  PROVE IngestTypeOK'
  BY <1>2, RequestTypes
<1>3. ASSUME NEW u \in Uploads, IngestError(u)  PROVE IngestTypeOK'
  BY <1>3 DEF IngestError, Abandon, Answer, IngestTypeOK, ReqSteps, Answers, Pieces
<1>4. ASSUME NEW u \in Uploads, SweepTmp(u) \/ DeleteUploaded(u)  PROVE IngestTypeOK'
  BY <1>4 DEF SweepTmp, DeleteUploaded, IngestTypeOK
<1>5. CASE Kill
  BY <1>5 DEF Kill, IngestTypeOK, ReqSteps, Answers
<1>6. CASE UNCHANGED ingestVars
  BY <1>6 DEF ingestVars, IngestTypeOK
<1> QED  BY <1>1, <1>2, <1>3, <1>4, <1>5, <1>6 DEF IngestNext

(* Type correctness of every state of Ingest, for every set of uploads.     *)
THEOREM IngestTypesCorrect == IngestSpec => []IngestTypeOK
BY InitTypes, StepTypes, PTL DEF IngestSpec

-----------------------------------------------------------------------------
(* What an upload has at each of its steps                                  *)

Unregistered == {"new", "check", "move", "validate", "insert"}
Filed == {"validate", "insert", "artifact", "seedfile", "seed", "meta", "event", "first"}

UploadInv(u) ==
  /\ reqAt[u] \in Unregistered =>
       made[u] \cap (DocumentRows \cup {"seedfile", "meta"}) = {}
  /\ made[u] \cap DocumentRows # {} => "document" \in made[u]
  /\ reqAt[u] \in Filed \/ "document" \in made[u] => "file" \in made[u]
  /\ "document" \in made[u] /\ reqAt[u] \in {"seedfile", "seed", "meta", "event", "first"}
       => "artifact" \in made[u]
  /\ reqAt[u] = "seed" \/ "seed" \in made[u] => "seedfile" \in made[u]
  /\ "document" \in made[u] /\ reqAt[u] \in {"meta", "event", "first"} /\ u \in Seeded
       => "seed" \in made[u]
  /\ reqAt[u] \in {"event", "first"} => "meta" \in made[u]
  /\ "document" \in made[u] /\ reqAt[u] = "first" => "event" \in made[u]
  /\ "job" \in made[u] => reqAt[u] = "over"

WholeIfCreated(u) ==
  answer[u] = "created" /\ "document" \in made[u] =>
    /\ {"file", "artifact", "meta", "event", "job"} \subseteq made[u]
    /\ u \in Seeded => {"seedfile", "seed"} \subseteq made[u]

IngestInv ==
  /\ IngestTypeOK
  /\ \A u \in Uploads : UploadInv(u) /\ WholeIfCreated(u)
  /\ OneDocument

Others(u) ==
  \A v \in Uploads \ {u} :
    reqAt'[v] = reqAt[v] /\ answer'[v] = answer[v] /\ made'[v] = made[v]

(* The steps of an upload leave the other uploads alone.                    *)
LEMMA OthersKept ==
  ASSUME IngestTypeOK, NEW u \in Uploads, UploadStep(u)
  PROVE  Others(u)
<1>1. CASE Spill(u) \/ ReadAttachment(u) \/ SweepTmp(u) \/ DeleteUploaded(u)
  BY <1>1 DEF Spill, ReadAttachment, SweepTmp, DeleteUploaded, Step, Make,
              IngestTypeOK, Others
<1>2. CASE IsDuplicate(u) \/ IsNew(u) \/ SaveFile(u) \/ Refuse(u) \/ Accept(u)
  BY <1>2 DEF IsDuplicate, IsNew, SaveFile, Refuse, Accept, Step, Answer,
              IngestTypeOK, Others
<1>3. CASE InsertDocument(u) \/ InsertRejected(u) \/ SaveSeedFile(u) \/ StoreMeta(u)
  BY <1>3 DEF InsertDocument, InsertRejected, SaveSeedFile, StoreMeta, Step, Answer,
              Make, IngestTypeOK, Others
<1>4. CASE InsertArtifact(u) \/ InsertSeed(u) \/ AppendReceived(u) \/ CreateFirstJob(u)
  BY <1>4 DEF InsertArtifact, InsertSeed, AppendReceived, CreateFirstJob, InsertRow,
              Step, Answer, Make, IngestTypeOK, Others
<1>5. CASE DocumentGone(u) \/ IngestError(u)
  BY <1>5 DEF DocumentGone, IngestError, Abandon, Answer, IngestTypeOK, Others
<1> QED  BY <1>1, <1>2, <1>3, <1>4, <1>5 DEF UploadStep, Request

(* Every step of an upload keeps what is said of it.                        *)
LEMMA OwnKept ==
  ASSUME IngestTypeOK, NEW u \in Uploads, UploadInv(u), WholeIfCreated(u), UploadStep(u)
  PROVE  UploadInv(u)' /\ WholeIfCreated(u)'
<1> USE DEF UploadInv, WholeIfCreated, Unregistered, Filed, DocumentRows, IngestTypeOK
<1>1. CASE Spill(u) \/ ReadAttachment(u)
  BY <1>1 DEF Spill, ReadAttachment, Step, Make
<1>2. CASE IsDuplicate(u)
  BY <1>2 DEF IsDuplicate, Step, Answer
<1>3. CASE IsNew(u)
  BY <1>3 DEF IsNew, Step
<1>4. CASE SaveFile(u)
  BY <1>4 DEF SaveFile, Step
<1>5. CASE Refuse(u)
  BY <1>5 DEF Refuse, Step, Answer
<1>6. CASE Accept(u)
  BY <1>6 DEF Accept, Step
<1>7. CASE InsertDocument(u)
  BY <1>7 DEF InsertDocument, Step, Make
<1>8. CASE InsertRejected(u)
  BY <1>8 DEF InsertRejected, Step, Answer
<1>9. CASE InsertArtifact(u)
  BY <1>9 DEF InsertArtifact, InsertRow, Step, Make
<1>10. CASE SaveSeedFile(u)
  BY <1>10 DEF SaveSeedFile, Step, Make
<1>11. CASE InsertSeed(u)
  BY <1>11 DEF InsertSeed, InsertRow, Step, Make
<1>12. CASE StoreMeta(u)
  BY <1>12 DEF StoreMeta, Step, Make
<1>13. CASE AppendReceived(u)
  BY <1>13 DEF AppendReceived, InsertRow, Step, Make
<1>14. CASE CreateFirstJob(u)
  BY <1>14 DEF CreateFirstJob, InsertRow, Step, Make, Answer
<1>15. CASE DocumentGone(u) \/ IngestError(u)
  BY <1>15 DEF DocumentGone, IngestError, Abandon, Answer
<1>16. CASE SweepTmp(u)
  BY <1>16 DEF SweepTmp
<1>17. CASE DeleteUploaded(u)
  BY <1>17 DEF DeleteUploaded
<1> QED
  BY <1>1, <1>2, <1>3, <1>4, <1>5, <1>6, <1>7, <1>8, <1>9, <1>10, <1>11, <1>12, <1>13,
     <1>14, <1>15, <1>16, <1>17 DEF UploadStep, Request

(* Only InsertDocument makes a document.                                    *)
LEMMA DocumentMade ==
  ASSUME IngestTypeOK, NEW u \in Uploads, UploadInv(u), UploadStep(u),
         "document" \in made'[u], "document" \notin made[u]
  PROVE  InsertDocument(u)
BY DEF UploadStep, Request, Spill, ReadAttachment, IsDuplicate, IsNew, SaveFile, Refuse,
       Accept, InsertRejected, InsertArtifact, SaveSeedFile, InsertSeed, StoreMeta,
       AppendReceived, CreateFirstJob, DocumentGone, IngestError, SweepTmp,
       DeleteUploaded, InsertRow, Abandon, Step, Make, IngestTypeOK

(* A crash takes no piece away and answers nobody "created".                *)
LEMMA KillKeeps ==
  ASSUME IngestInv, Kill
  PROVE  IngestInv'
<1>1. IngestTypeOK'
  BY StepTypes DEF IngestInv, IngestNext
<1>2. ASSUME NEW u \in Uploads  PROVE UploadInv(u)' /\ WholeIfCreated(u)'
  BY DEF IngestInv, UploadInv, WholeIfCreated, Unregistered, Filed, DocumentRows, Kill,
         IngestTypeOK
<1>3. OneDocument'
  BY DEF IngestInv, OneDocument, Kill
<1> QED  BY <1>1, <1>2, <1>3 DEF IngestInv

(* The strengthening holds at first.                                        *)
LEMMA InvInit == IngestInit => IngestInv
BY InitTypes DEF IngestInit, IngestInv, UploadInv, WholeIfCreated, OneDocument,
                 Unregistered, Filed, DocumentRows

(* Every step keeps the strengthening.                                      *)
LEMMA InvStep == IngestInv /\ [IngestNext]_ingestVars => IngestInv'
<1> SUFFICES ASSUME IngestInv, [IngestNext]_ingestVars  PROVE IngestInv'
  OBVIOUS
<1>1. ASSUME NEW u \in Uploads, UploadStep(u)  PROVE IngestInv'
  <2>1. IngestTypeOK'
    BY <1>1, StepTypes DEF IngestInv, IngestNext, UploadStep
  <2>2. Others(u)
    BY <1>1, OthersKept DEF IngestInv
  <2>3. ASSUME NEW v \in Uploads  PROVE UploadInv(v)' /\ WholeIfCreated(v)'
    <3>1. CASE v = u
      BY <1>1, <3>1, OwnKept DEF IngestInv
    <3>2. CASE v # u
      BY <2>2, <3>2 DEF IngestInv, Others, UploadInv, WholeIfCreated
    <3> QED  BY <3>1, <3>2
  <2>4. OneDocument'
    <3> SUFFICES ASSUME NEW v \in Uploads, NEW w \in Uploads,
                        "document" \in made'[v], "document" \in made'[w],
                        Content[v] = Content[w]
                 PROVE  v = w
      BY DEF OneDocument
    <3>1. CASE InsertDocument(u)
      BY <2>2, <3>1 DEF IngestInv, OneDocument, Others, InsertDocument, HasDocument
    <3>2. CASE ~InsertDocument(u)
      <4>1. "document" \in made[v] /\ "document" \in made[w]
        BY <1>1, <2>2, <3>2, DocumentMade DEF IngestInv, Others
      <4> QED  BY <4>1 DEF IngestInv, OneDocument
    <3> QED  BY <3>1, <3>2
  <2> QED  BY <2>1, <2>3, <2>4 DEF IngestInv
<1>2. CASE Kill
  BY <1>2, KillKeeps
<1>3. CASE UNCHANGED ingestVars
  BY <1>3 DEF ingestVars, IngestInv, IngestTypeOK, UploadInv, WholeIfCreated, OneDocument
<1> QED  BY <1>1, <1>2, <1>3 DEF IngestNext, UploadStep

(* The strengthening always holds.                                          *)
LEMMA InvHolds == IngestSpec => []IngestInv
BY InvInit, InvStep, PTL DEF IngestSpec

(* At most one document of a content, whatever requests overlap.            *)
THEOREM DocumentsUnique == IngestSpec => []OneDocument
<1>1. IngestInv => OneDocument
  BY DEF IngestInv
<1> QED  BY <1>1, InvHolds, PTL

(* Who was told "created" has a document with all the worker needs.         *)
THEOREM CreatedDocumentsWhole == IngestSpec => []CreatedIsWhole
<1>1. IngestInv => CreatedIsWhole
  BY DEF IngestInv, WholeIfCreated, CreatedIsWhole
<1> QED  BY <1>1, InvHolds, PTL

(* Rows never point to files that are not there.                            *)
THEOREM RowsHaveFiles == IngestSpec => []FilesBehindRows
<1>1. IngestInv => FilesBehindRows
  BY DEF IngestInv, UploadInv, FilesBehindRows, DocumentRows
<1> QED  BY <1>1, InvHolds, PTL

-----------------------------------------------------------------------------
(* Nothing is lost while nothing fails                                      *)

Calm == errors = 0 /\ kills = 0 /\ deletes = 0

Registering == {"artifact", "seedfile", "seed", "meta", "event", "first"}

(* What a request has done it has not lost, and what it was told is so.     *)
Kept(u) ==
  /\ reqAt[u] \in Registering => "document" \in made[u]
  /\ reqAt[u] = "over" /\ "document" \in made[u] => "job" \in made[u]
  /\ answer[u] = "created" => "document" \in made[u]
  /\ answer[u] \in {"duplicate", "failed"} => HasDocument(u)

CalmInv == Calm => \A u \in Uploads : Kept(u)

(* Without failures a step of an upload takes no document away.             *)
LEMMA DocumentsStay ==
  ASSUME IngestInv, Calm', NEW u \in Uploads, UploadStep(u),
         NEW v \in Uploads, "document" \in made[v]
  PROVE  "document" \in made'[v]
<1>1. CASE v # u
  BY <1>1, OthersKept DEF IngestInv, Others
<1>2. CASE v = u
  <2>1. ~DeleteUploaded(u)
    BY DEF DeleteUploaded, Calm, IngestInv, IngestTypeOK
  <2> QED
    BY <1>2, <2>1
    DEF UploadStep, Request, Spill, ReadAttachment, IsDuplicate, IsNew, SaveFile,
        Refuse, Accept, InsertDocument, InsertRejected, InsertArtifact, SaveSeedFile,
        InsertSeed, StoreMeta, AppendReceived, CreateFirstJob, DocumentGone,
        IngestError, SweepTmp, InsertRow, Abandon, Make, IngestInv, IngestTypeOK
<1> QED  BY <1>1, <1>2

(* Without failures a step of an upload keeps what is said of it.           *)
LEMMA OwnNotLost ==
  ASSUME IngestInv, Calm', NEW u \in Uploads, UploadStep(u), Kept(u)
  PROVE  /\ reqAt'[u] \in Registering => "document" \in made'[u]
         /\ reqAt'[u] = "over" /\ "document" \in made'[u] => "job" \in made'[u]
         /\ answer'[u] = "created" => "document" \in made'[u]
         /\ answer'[u] \in {"duplicate", "failed"} => HasDocument(u)
<1> USE DEF Kept, Registering, IngestInv, IngestTypeOK, UploadInv, Unregistered,
            DocumentRows
<1>1. CASE Spill(u) \/ ReadAttachment(u) \/ IsNew(u) \/ SaveFile(u) \/ Accept(u)
  BY <1>1 DEF Spill, ReadAttachment, IsNew, SaveFile, Accept, Step, Make
<1>2. CASE IsDuplicate(u) \/ Refuse(u) \/ InsertRejected(u)
  BY <1>2 DEF IsDuplicate, Refuse, InsertRejected, Step, Answer
<1>3. CASE InsertDocument(u) \/ SaveSeedFile(u) \/ StoreMeta(u)
  BY <1>3 DEF InsertDocument, SaveSeedFile, StoreMeta, Step, Make
<1>4. CASE InsertArtifact(u) \/ InsertSeed(u) \/ AppendReceived(u)
  BY <1>4 DEF InsertArtifact, InsertSeed, AppendReceived, InsertRow, Step, Make
<1>5. CASE CreateFirstJob(u)
  BY <1>5 DEF CreateFirstJob, InsertRow, Step, Make, Answer
<1>6. ~DocumentGone(u)
  BY DEF DocumentGone
<1>7. ~IngestError(u) /\ ~DeleteUploaded(u)
  BY DEF IngestError, DeleteUploaded, Calm
<1>8. CASE SweepTmp(u)
  BY <1>8 DEF SweepTmp
<1> QED
  BY <1>1, <1>2, <1>3, <1>4, <1>5, <1>6, <1>7, <1>8 DEF UploadStep, Request

(* Every step keeps CalmInv.                                                *)
LEMMA CalmStep == IngestInv /\ CalmInv /\ [IngestNext]_ingestVars => CalmInv'
<1> SUFFICES ASSUME IngestInv, CalmInv, [IngestNext]_ingestVars, Calm',
                    NEW v \in Uploads
             PROVE  Kept(v)'
  BY DEF CalmInv
<1>1. ASSUME NEW u \in Uploads, UploadStep(u)  PROVE Kept(v)'
  <2>1. Calm
    BY <1>1 DEF UploadStep, Request, Spill, ReadAttachment, IsDuplicate, IsNew,
                SaveFile, Refuse, Accept, InsertDocument, InsertRejected,
                InsertArtifact, SaveSeedFile, InsertSeed, StoreMeta, AppendReceived,
                CreateFirstJob, DocumentGone, IngestError, SweepTmp, DeleteUploaded,
                InsertRow, Quietly, Calm, IngestInv, IngestTypeOK
  <2>2. \A w \in Uploads : Kept(w)
    BY <2>1 DEF CalmInv
  <2>3. HasDocument(v) => HasDocument(v)'
    BY <1>1, DocumentsStay DEF HasDocument
  <2>4. CASE v = u
    BY <1>1, <2>2, <2>3, <2>4, OwnNotLost DEF Kept
  <2>5. CASE v # u
    BY <1>1, <2>2, <2>3, <2>5, OthersKept DEF IngestInv, Others, Kept
  <2> QED  BY <2>4, <2>5
<1>2. ~Kill
  BY DEF Kill, Calm, IngestInv, IngestTypeOK
<1>3. CASE UNCHANGED ingestVars
  BY <1>3 DEF ingestVars, CalmInv, Calm, Kept, HasDocument
<1> QED  BY <1>1, <1>2, <1>3 DEF IngestNext, UploadStep

(* Without an error, a crash or a delete every content that was answered    *)
(* for has a document with its first job when the requests are over: who    *)
(* sees a document of the same bytes may rely on the request that made it.  *)
THEOREM NothingIsLost == IngestSpec => []NothingLost
<1>1. IngestInit => CalmInv
  BY DEF IngestInit, CalmInv, Kept, Registering
<1>2. IngestInv /\ CalmInv => NothingLost
  <2> SUFFICES ASSUME IngestInv, CalmInv, errors + kills + deletes = 0,
                      \A w \in Uploads : reqAt[w] \in {"new", "over"},
                      NEW u \in Uploads,
                      answer[u] \in {"created", "duplicate", "failed"}
               PROVE  \E v \in Uploads : Content[v] = Content[u] /\ "job" \in made[v]
    BY DEF NothingLost
  <2>1. Calm
    BY DEF Calm, IngestInv, IngestTypeOK
  <2>2. \A w \in Uploads : Kept(w) /\ UploadInv(w)
    BY <2>1 DEF CalmInv, IngestInv
  <2>3. PICK v \in Uploads : Content[v] = Content[u] /\ "document" \in made[v]
    BY <2>2 DEF Kept, HasDocument
  <2>4. reqAt[v] = "over"
    BY <2>2, <2>3 DEF UploadInv, Unregistered, DocumentRows
  <2> QED  BY <2>2, <2>3, <2>4 DEF Kept
<1> QED  BY <1>1, <1>2, CalmStep, InvHolds, PTL DEF IngestSpec

-----------------------------------------------------------------------------
(* Ingest implements Intake                                                 *)

Registered(c) == \E v \in Uploads : Content[v] = c /\ "document" \in made[v]
Ready(c) == \E v \in Uploads : Content[v] = c /\ "job" \in made[v]

(* DocOf without the union                                                  *)
LEMMA DocOfMeans ==
  ASSUME NEW c
  PROVE  /\ DocOf(c) = IF Ready(c) THEN "ready"
                       ELSE IF Registered(c) THEN "registered" ELSE "none"
         /\ DocOf(c)' = IF Ready(c)' THEN "ready"
                        ELSE IF Registered(c)' THEN "registered" ELSE "none"
BY DEF DocOf, Ready, Registered

(* A step that makes and removes no document and no job is not seen.        *)
LEMMA DocsKept ==
  ASSUME \A v \in Uploads : /\ "document" \in made'[v] <=> "document" \in made[v]
                            /\ "job" \in made'[v] <=> "job" \in made[v],
         NEW c
  PROVE  DocOf(c)' = DocOf(c)
BY DocOfMeans DEF Ready, Registered

(* Ingest starts where Intake does.                                         *)
LEMMA IntakeStart == IngestInit => Promise!IntakeInit
<1> SUFFICES ASSUME IngestInit  PROVE Promise!IntakeInit
  OBVIOUS
<1>1. ASSUME NEW c  PROVE DocOf(c) = "none"
  BY DocOfMeans DEF IngestInit, Ready, Registered
<1> QED
  BY <1>1 DEF IngestInit, ToldOf, Promise!IntakeInit, Promise!Contents

(* the abstract state                                                       *)
Docs == [c \in {Content[u] : u \in Uploads} |-> DocOf(c)]
Told == [u \in Uploads |-> ToldOf(u)]

(* The answers seen change only where the answers do.                       *)
LEMMA ToldKept == ASSUME answer' = answer  PROVE Told' = Told
BY DEF Told, ToldOf

(* An answer to one request is told to that one.                            *)
LEMMA ToldOne ==
  ASSUME IngestTypeOK, NEW u \in Uploads, NEW a \in Answers, Answer(u, a),
         reqAt[u] # "over"
  PROVE  /\ Told[u] = "none"
         /\ Told' = [Told EXCEPT ![u] = IF a \in {"refused", "failed", "lost"}
                                         THEN "error" ELSE a]
BY DEF Told, ToldOf, Answer, IngestTypeOK

(* InsertDocument registers.                                                *)
LEMMA Registers ==
  ASSUME IngestInv, NEW u \in Uploads, InsertDocument(u)
  PROVE  Promise!Register(Content[u])
<1>1. Told' = Told
  BY ToldKept DEF InsertDocument
<1>2. DocOf(Content[u]) = "none" /\ DocOf(Content[u])' = "registered"
  BY DocOfMeans DEF IngestInv, UploadInv, IngestTypeOK, InsertDocument, Step, Make,
                    HasDocument, Ready, Registered, DocumentRows, Unregistered
<1>3. ASSUME NEW c, c # Content[u]  PROVE DocOf(c)' = DocOf(c)
  BY <1>3, DocOfMeans DEF IngestInv, IngestTypeOK, InsertDocument, Make, Ready, Registered
<1>4. Docs' = [Docs EXCEPT ![Content[u]] = "registered"]
  BY <1>2, <1>3 DEF Docs
<1> QED
  BY <1>1, <1>2, <1>4 DEF Docs, Told, Promise!Register, Promise!Become

(* CreateFirstJob completes the upload, in one step with the answer.        *)
LEMMA Completes ==
  ASSUME IngestInv, NEW u \in Uploads, CreateFirstJob(u)
  PROVE  Promise!CompleteUpload(u)
<1>1. Told[u] = "none" /\ Told' = [Told EXCEPT ![u] = "created"]
  BY ToldOne DEF IngestInv, CreateFirstJob, InsertRow, Step, Answers
<1>2. "document" \in made[u] /\ reqAt[u] = "first"
  BY DEF CreateFirstJob, InsertRow, Step
<1>3. ~Ready(Content[u])
  <2> SUFFICES ASSUME NEW v \in Uploads, Content[v] = Content[u], "job" \in made[v]
               PROVE  FALSE
    BY DEF Ready
  <2>1. "document" \in made[v] /\ reqAt[v] = "over"
    BY DEF IngestInv, UploadInv, DocumentRows
  <2> QED  BY <1>2, <2>1 DEF IngestInv, OneDocument
<1>4. DocOf(Content[u]) = "registered" /\ DocOf(Content[u])' = "ready"
  BY <1>2, <1>3, DocOfMeans DEF IngestInv, IngestTypeOK, CreateFirstJob, InsertRow, Make,
                                Ready, Registered
<1>5. ASSUME NEW c, c # Content[u]  PROVE DocOf(c)' = DocOf(c)
  BY <1>5, DocOfMeans DEF IngestInv, IngestTypeOK, CreateFirstJob, InsertRow, Make,
                          Ready, Registered
<1>6. Docs' = [Docs EXCEPT ![Content[u]] = "ready"]
  BY <1>4, <1>5 DEF Docs
<1> QED
  BY <1>1, <1>4, <1>6
  DEF Docs, Told, Promise!CompleteUpload, Promise!Become, Promise!Tell

(* A delete takes the only document of its content.                         *)
LEMMA Removes ==
  ASSUME IngestInv, NEW u \in Uploads, DeleteUploaded(u)
  PROVE  Promise!Remove(Content[u])
<1>1. Told' = Told
  BY ToldKept DEF DeleteUploaded
<1>2. DocOf(Content[u]) \in {"registered", "ready"}
  BY DocOfMeans DEF DeleteUploaded, Registered
<1>3. DocOf(Content[u])' = "none"
  <2>1. ASSUME NEW v \in Uploads, Content[v] = Content[u]
        PROVE  "document" \notin made'[v] /\ "job" \notin made'[v]
    <3>1. CASE v = u
      BY <3>1 DEF DeleteUploaded, DocumentRows, IngestInv, IngestTypeOK
    <3>2. CASE v # u
      <4>1. "document" \notin made[v]
        BY <2>1, <3>2 DEF DeleteUploaded, IngestInv, OneDocument
      <4> QED
        BY <3>2, <4>1 DEF DeleteUploaded, IngestInv, IngestTypeOK, UploadInv, DocumentRows
    <3> QED  BY <3>1, <3>2
  <2> QED  BY <2>1, DocOfMeans DEF Ready, Registered
<1>4. ASSUME NEW c, c # Content[u]  PROVE DocOf(c)' = DocOf(c)
  BY <1>4, DocOfMeans DEF IngestInv, IngestTypeOK, DeleteUploaded, Ready, Registered
<1>5. Docs' = [Docs EXCEPT ![Content[u]] = "none"]
  BY <1>3, <1>4 DEF Docs
<1> QED
  BY <1>1, <1>2, <1>5 DEF Docs, Told, Promise!Remove, Promise!Become

(* "duplicate" is answered while there is a document.                       *)
LEMMA TellsDuplicate ==
  ASSUME IngestInv, NEW u \in Uploads, IsDuplicate(u)
  PROVE  Promise!TellDuplicate(u)
<1>1. Told[u] = "none" /\ Told' = [Told EXCEPT ![u] = "duplicate"]
  BY ToldOne DEF IngestInv, IsDuplicate, Step, Answers
<1>2. DocOf(Content[u]) # "none"
  BY DocOfMeans DEF IsDuplicate, HasDocument, Registered
<1>3. Docs' = Docs
  <2>1. ASSUME NEW c  PROVE DocOf(c)' = DocOf(c)
    BY DocsKept DEF IsDuplicate, IngestInv, IngestTypeOK
  <2> QED  BY <2>1 DEF Docs
<1> QED
  BY <1>1, <1>2, <1>3 DEF Docs, Told, Promise!TellDuplicate, Promise!Tell

Rejects(u) == Refuse(u) \/ InsertRejected(u) \/ DocumentGone(u) \/ IngestError(u)

(* Whatever goes wrong is told as an error, and changes no document.        *)
LEMMA TellsError ==
  ASSUME IngestInv, NEW u \in Uploads, Rejects(u)
  PROVE  Promise!TellError(u)
<1>1. reqAt[u] # "over" /\ \E a \in {"refused", "failed"} : Answer(u, a)
  BY DEF Rejects, Refuse, InsertRejected, DocumentGone, IngestError, Abandon, Step
<1>2. Told[u] = "none" /\ Told' = [Told EXCEPT ![u] = "error"]
  BY <1>1, ToldOne DEF IngestInv, Answers
<1>3. \A v \in Uploads : /\ "document" \in made'[v] <=> "document" \in made[v]
                         /\ "job" \in made'[v] <=> "job" \in made[v]
  BY DEF Rejects, Refuse, InsertRejected, DocumentGone, IngestError, Abandon, IngestInv,
         IngestTypeOK
<1>4. Docs' = Docs
  BY <1>3, DocsKept DEF Docs
<1> QED
  BY <1>2, <1>4 DEF Docs, Told, Promise!TellError, Promise!Tell

Unseen(u) ==
  \/ Spill(u) \/ ReadAttachment(u) \/ IsNew(u) \/ SaveFile(u) \/ Accept(u)
  \/ InsertArtifact(u) \/ SaveSeedFile(u) \/ InsertSeed(u) \/ StoreMeta(u)
  \/ AppendReceived(u) \/ SweepTmp(u)

(* The other steps of an upload are not seen.                               *)
LEMMA Stutters ==
  ASSUME IngestInv, NEW u \in Uploads, Unseen(u)
  PROVE  UNCHANGED Promise!intakeVars
<1>1. answer' = answer
  BY DEF Unseen, Spill, ReadAttachment, IsNew, SaveFile, Accept, InsertArtifact,
         SaveSeedFile, InsertSeed, StoreMeta, AppendReceived, SweepTmp
<1>2. \A v \in Uploads : /\ "document" \in made'[v] <=> "document" \in made[v]
                         /\ "job" \in made'[v] <=> "job" \in made[v]
  BY DEF Unseen, Spill, ReadAttachment, IsNew, SaveFile, Accept, InsertArtifact,
         SaveSeedFile, InsertSeed, StoreMeta, AppendReceived, SweepTmp, InsertRow,
         Make, IngestInv, IngestTypeOK
<1>3. Docs' = Docs
  BY <1>2, DocsKept DEF Docs
<1> QED  BY <1>1, <1>3, ToldKept DEF Docs, Told, Promise!intakeVars

(* A crash loses the requests it cuts off.                                  *)
LEMMA Loses ==
  ASSUME IngestInv, Kill
  PROVE  \E lost \in SUBSET Uploads : Promise!LoseRequests(lost)
<1> DEFINE cut == {u \in Uploads : reqAt[u] \notin {"new", "over"}}
<1>1. \A u \in cut : Told[u] = "none"
  BY DEF Told, ToldOf, IngestInv, IngestTypeOK
<1>2. Told' = [u \in Uploads |-> IF u \in cut THEN "error" ELSE Told[u]]
  BY DEF Told, ToldOf, Kill
<1>3. Docs' = Docs
  BY DocsKept DEF Docs, Kill
<1>4. Promise!LoseRequests(cut)
  BY <1>1, <1>2, <1>3 DEF Docs, Told, Promise!LoseRequests
<1> QED  BY <1>4

(* Every step of Ingest is a step of Intake, or is not seen.                *)
LEMMA IntakeStep ==
  IngestInv /\ [IngestNext]_ingestVars => [Promise!IntakeNext]_(Promise!intakeVars)
<1> SUFFICES ASSUME IngestInv, [IngestNext]_ingestVars
             PROVE  Promise!IntakeNext \/ UNCHANGED Promise!intakeVars
  OBVIOUS
<1>1. ASSUME NEW u \in Uploads, UploadStep(u)
      PROVE  Promise!IntakeNext \/ UNCHANGED Promise!intakeVars
  <2>1. Content[u] \in Promise!Contents
    BY DEF Promise!Contents
  <2>2. CASE InsertDocument(u) \/ DeleteUploaded(u)
    BY <2>1, <2>2, Registers, Removes DEF Promise!IntakeNext
  <2>3. CASE CreateFirstJob(u) \/ IsDuplicate(u) \/ Rejects(u)
    BY <2>3, Completes, TellsDuplicate, TellsError DEF Promise!IntakeNext
  <2>4. CASE Unseen(u)
    BY <2>4, Stutters
  <2> QED
    BY <1>1, <2>2, <2>3, <2>4 DEF UploadStep, Request, Rejects, Unseen
<1>2. CASE Kill
  BY <1>2, Loses DEF Promise!IntakeNext
<1>3. CASE UNCHANGED ingestVars
  <2>1. Docs' = Docs
    BY <1>3, DocsKept DEF Docs, ingestVars
  <2>2. Told' = Told
    BY <1>3, ToldKept DEF ingestVars
  <2> QED  BY <2>1, <2>2 DEF Docs, Told, Promise!intakeVars
<1> QED  BY <1>1, <1>2, <1>3 DEF IngestNext, UploadStep

(* The statements and file operations of any number of uploads, with the    *)
(* errors, crashes and deletes between them, implement the promise.         *)
THEOREM IngestImplementsIntake == IngestSpec => ImplementsIntake
BY IntakeStart, IntakeStep, InvHolds, PTL DEF IngestSpec, ImplementsIntake, Promise!IntakeSpec
=============================================================================
