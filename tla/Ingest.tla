------------------------------ MODULE Ingest ------------------------------
(***************************************************************************)
(* How an upload becomes a document (server/core/ingest.go): the form      *)
(* upload of the API, which spills the file to <vault>/tmp and moves it,   *)
(* the webhook of the tablet, which holds it in memory and repeats the     *)
(* request until it is answered with 200, and the janitor's sweep of the   *)
(* temporary files (server/core/janitor.go).                               *)
(*                                                                         *)
(* Every statement and file operation is an action.  What exists on behalf *)
(* of an upload is a set of Pieces, in the database or in the vault; the   *)
(* bytes are reduced to the content they hash to.                          *)
(***************************************************************************)
EXTENDS Naturals, FiniteSets

CONSTANTS
  Uploads,       \* requests
  Content,       \* Content[u]: the hash of the bytes u brings
  Webhook,       \* uploads by the tablet; the others are form uploads
  Seeded,        \* uploads with a finished stage output (artifact:<stage>:<field>)
  BadSeed,       \* those among them whose stage or field no pipeline stage has
  MaxErrors,     \* bound: failing statements and file operations
  MaxKills,      \* bound: crashes of the process
  MaxDeletes     \* bound: documents deleted by a user

ASSUME UploadsAssumption ==
  /\ Webhook \subseteq Uploads
  /\ Seeded \subseteq Uploads \ Webhook
  /\ BadSeed \subseteq Seeded
ASSUME IngestBoundsAssumption ==
  MaxErrors \in Nat /\ MaxKills \in Nat /\ MaxDeletes \in Nat

VARIABLES
  reqAt,     \* reqAt[u]: the next step of the request
  answer,    \* answer[u]: what the client was told
  made,      \* made[u]: the pieces that exist on behalf of u
  errors, kills, deletes

ingestVars == <<reqAt, answer, made, errors, kills, deletes>>

Pieces == {"tmp", "file", "document", "artifact", "seedfile", "seed", "meta",
           "event", "job"}

(* ON DELETE CASCADE: the pieces that go with the document's row            *)
DocumentRows == {"document", "artifact", "seed", "event", "job"}

ReqSteps == {"new", "check", "move", "validate", "insert", "artifact", "seedfile",
             "seed", "meta", "event", "first", "over"}
Answers == {"none", "created", "duplicate", "refused", "failed", "lost"}

IngestTypeOK ==
  /\ reqAt \in [Uploads -> ReqSteps]
  /\ answer \in [Uploads -> Answers]
  /\ made \in [Uploads -> SUBSET Pieces]
  /\ \A u \in Uploads : answer[u] = "none" <=> reqAt[u] # "over"
  /\ errors \in 0..MaxErrors
  /\ kills \in 0..MaxKills
  /\ deletes \in 0..MaxDeletes

IngestInit ==
  /\ reqAt = [u \in Uploads |-> "new"]
  /\ answer = [u \in Uploads |-> "none"]
  /\ made = [u \in Uploads |-> {}]
  /\ errors = 0 /\ kills = 0 /\ deletes = 0

-----------------------------------------------------------------------------
Step(u, from, to) == reqAt[u] = from /\ reqAt' = [reqAt EXCEPT ![u] = to]

Make(u, piece) == made' = [made EXCEPT ![u] = @ \cup {piece}]

Answer(u, a) == answer' = [answer EXCEPT ![u] = a]

Quietly == UNCHANGED <<errors, kills, deletes>>

(* Mutation: the hashes are compared too loosely.                           *)
HasAnyDocument(u) == \E v \in Uploads : "document" \in made[v]

(* a document whose content_hash is that of u                               *)
HasDocument(u) ==
  \E v \in Uploads : "document" \in made[v] /\ Content[v] = Content[u]

(* uploadDocument copies the multipart file to <vault>/tmp                  *)
Spill(u) ==
  /\ Step(u, "new", "check")
  /\ u \notin Webhook
  /\ Make(u, "tmp")
  /\ UNCHANGED answer /\ Quietly

(* receiveWebhook reads the attachment into memory                          *)
ReadAttachment(u) ==
  /\ Step(u, "new", "check")
  /\ u \in Webhook
  /\ UNCHANGED <<answer, made>> /\ Quietly

(* GetByHash finds a document: the temporary file is removed                *)
IsDuplicate(u) ==
  /\ Step(u, "check", "over")
  /\ HasDocument(u)
  /\ Answer(u, "duplicate")
  /\ made' = [made EXCEPT ![u] = @ \ {"tmp"}]
  /\ Quietly

IsNew(u) ==
  /\ Step(u, "check", "move")
  /\ ~HasDocument(u)
  /\ UNCHANGED <<answer, made>> /\ Quietly

(* the file comes to <vault>/artifacts, by a rename or from memory          *)
SaveFile(u) ==
  /\ Step(u, "move", "validate")
  /\ made' = [made EXCEPT ![u] = (@ \ {"tmp"}) \cup {"file"}]
  /\ UNCHANGED answer /\ Quietly

(* Mutation: the return after the error answer is forgotten.                *)
RefuseAndGoOn(u) ==
  /\ Step(u, "validate", "insert")
  /\ u \in BadSeed
  /\ Answer(u, "refused")
  /\ UNCHANGED made /\ Quietly

(* validateSeedArtifacts comes after the file                               *)
Refuse(u) ==
  /\ Step(u, "validate", "over")
  /\ u \in BadSeed
  /\ Answer(u, "refused")
  /\ UNCHANGED made /\ Quietly

Accept(u) ==
  /\ Step(u, "validate", "insert")
  /\ u \notin BadSeed
  /\ UNCHANGED <<answer, made>> /\ Quietly

(* Mutation: the column is not UNIQUE.                                      *)
InsertAnyDocument(u) ==
  /\ Step(u, "insert", "artifact")
  /\ Make(u, "document")
  /\ UNCHANGED answer /\ Quietly

(* content_hash is UNIQUE                                                   *)
InsertDocument(u) ==
  /\ Step(u, "insert", "artifact")
  /\ ~HasDocument(u)
  /\ Make(u, "document")
  /\ UNCHANGED answer /\ Quietly

InsertRejected(u) ==
  /\ Step(u, "insert", "over")
  /\ HasDocument(u)
  /\ Answer(u, "failed")
  /\ UNCHANGED made /\ Quietly

(* The rows below refer to the document's: after a delete the insert fails, *)
(* but the key/value entry, which has no reference, is written.             *)
InsertRow(u, from, piece, to) ==
  /\ Step(u, from, to)
  /\ "document" \in made[u]
  /\ Make(u, piece)
  /\ Quietly

(* Mutation: the seed's row is inserted before its file is saved.           *)
InsertArtifactThenSeed(u) ==
  /\ InsertRow(u, "artifact", "artifact", IF u \in Seeded THEN "seed" ELSE "meta")
  /\ UNCHANGED answer

InsertArtifact(u) ==
  /\ InsertRow(u, "artifact", "artifact", IF u \in Seeded THEN "seedfile" ELSE "meta")
  /\ UNCHANGED answer

SaveSeedFile(u) ==
  /\ Step(u, "seedfile", "seed")
  /\ Make(u, "seedfile")
  /\ UNCHANGED answer /\ Quietly

InsertSeed(u) ==
  /\ InsertRow(u, "seed", "seed", "meta")
  /\ UNCHANGED answer

(* Mutation: the failure of a write is logged and the upload goes on.       *)
MetaErrorIgnored(u) ==
  /\ errors < MaxErrors
  /\ Step(u, "meta", "event")
  /\ errors' = errors + 1
  /\ UNCHANGED <<answer, made, kills, deletes>>

StoreMeta(u) ==
  /\ Step(u, "meta", "event")
  /\ Make(u, "meta")
  /\ UNCHANGED answer /\ Quietly

AppendReceived(u) ==
  /\ InsertRow(u, "event", "event", "first")
  /\ UNCHANGED answer

(* Mutation: the error of createFirstJob is ignored.                        *)
JobErrorIgnored(u) ==
  /\ Step(u, "first", "over")
  /\ Answer(u, "created")
  /\ UNCHANGED made /\ Quietly

(* createFirstJob, and 201 or 200                                           *)
CreateFirstJob(u) ==
  /\ InsertRow(u, "first", "job", "over")
  /\ Answer(u, "created")

(* the handler answers with an error and removes the temporary file         *)
Abandon(u) ==
  /\ reqAt' = [reqAt EXCEPT ![u] = "over"]
  /\ Answer(u, "failed")
  /\ made' = [made EXCEPT ![u] = @ \ {"tmp"}]

DocumentGone(u) ==
  /\ reqAt[u] \in {"artifact", "seed", "event", "first"}
  /\ "document" \notin made[u]
  /\ Abandon(u)
  /\ Quietly

(* any statement or file operation of a request may fail                    *)
IngestError(u) ==
  /\ errors < MaxErrors
  /\ reqAt[u] \notin {"new", "validate", "over"}
  /\ Abandon(u)
  /\ errors' = errors + 1
  /\ UNCHANGED <<kills, deletes>>

(* the process dies with its requests; the clients see a broken connection  *)
Kill ==
  /\ kills < MaxKills
  /\ kills' = kills + 1
  /\ LET cut == {u \in Uploads : reqAt[u] \notin {"new", "over"}}
     IN  /\ cut # {}
         /\ reqAt' = [u \in Uploads |-> IF u \in cut THEN "over" ELSE reqAt[u]]
         /\ answer' = [u \in Uploads |-> IF u \in cut THEN "lost" ELSE answer[u]]
  /\ UNCHANGED <<made, errors, deletes>>

(* Mutation: the age of the file is compared the wrong way round.           *)
SweepRecentTmp(u) ==
  /\ "tmp" \in made[u]
  /\ reqAt[u] # "over"
  /\ made' = [made EXCEPT ![u] = @ \ {"tmp"}]
  /\ UNCHANGED <<reqAt, answer, errors, kills, deletes>>

(* sweepTmp removes temporary files not written for an hour; a request is   *)
(* over long before that                                                    *)
SweepTmp(u) ==
  /\ "tmp" \in made[u]
  /\ reqAt[u] = "over"
  /\ made' = [made EXCEPT ![u] = @ \ {"tmp"}]
  /\ UNCHANGED <<reqAt, answer, errors, kills, deletes>>

(* deleteDocument: the rows go, the files and the key/value entry stay      *)
DeleteUploaded(u) ==
  /\ deletes < MaxDeletes
  /\ "document" \in made[u]
  /\ made' = [made EXCEPT ![u] = @ \ DocumentRows]
  /\ deletes' = deletes + 1
  /\ UNCHANGED <<reqAt, answer, errors, kills>>

Request(u) ==
  \/ IsDuplicate(u) \/ IsNew(u) \/ SaveFile(u) \/ Refuse(u) \/ Accept(u)
  \/ InsertDocument(u) \/ InsertRejected(u) \/ InsertArtifact(u) \/ SaveSeedFile(u)
  \/ InsertSeed(u) \/ StoreMeta(u) \/ AppendReceived(u) \/ CreateFirstJob(u)
  \/ DocumentGone(u)

IngestNext ==
  \/ \E u \in Uploads :
       \/ Spill(u) \/ ReadAttachment(u) \/ Request(u)
       \/ IngestError(u) \/ SweepTmp(u) \/ DeleteUploaded(u)
  \/ Kill

(* net/http runs a handler to its end, and the janitor is a ticker          *)
IngestFairness ==
  \A u \in Uploads : WF_ingestVars(Request(u)) /\ WF_ingestVars(SweepTmp(u))

IngestSpec == IngestInit /\ [][IngestNext]_ingestVars
IngestFairSpec == IngestSpec /\ IngestFairness

-----------------------------------------------------------------------------
(* Properties                                                               *)

(* Uploads of the same bytes that pass the duplicate check together still   *)
(* give one document: the others fail at the insert (ingest.go:131, 319).   *)
OneDocument ==
  \A u, v \in Uploads :
    "document" \in made[u] /\ "document" \in made[v] /\ Content[u] = Content[v]
      => u = v

(* A client that was told "created" has a document with everything the      *)
(* worker needs: source file, metadata, first job, and the supplied stage   *)
(* output, as long as the document is not deleted (ingest.go:297-360).      *)
CreatedIsWhole ==
  \A u \in Uploads :
    answer[u] = "created" /\ "document" \in made[u] =>
      /\ {"file", "artifact", "meta", "event", "job"} \subseteq made[u]
      /\ u \in Seeded => {"seedfile", "seed"} \subseteq made[u]

(* Rows never point to files that are not there, whatever fails or crashes  *)
(* (files are saved before artifacts.Insert, ingest.go:432-448).            *)
FilesBehindRows ==
  \A u \in Uploads :
    /\ "artifact" \in made[u] => "file" \in made[u]
    /\ "seed" \in made[u] => "seedfile" \in made[u]

(* Without an error, a crash or a delete nothing is lost: when the requests *)
(* are over, every content somebody was told is a duplicate, or whose       *)
(* insert was rejected, has a document with its first job.                  *)
NothingLost ==
  (errors + kills + deletes = 0 /\ \A u \in Uploads : reqAt[u] \in {"new", "over"}) =>
    \A u \in Uploads :
      answer[u] \in {"created", "duplicate", "failed"} =>
        \E v \in Uploads : Content[v] = Content[u] /\ "job" \in made[v]

(* Again and again there is no temporary file: none stays for ever, even    *)
(* when its request fails, is a duplicate or dies with the process          *)
(* (janitor.go:75).                                                         *)
TmpRemoved == []<>(\A u \in Uploads : "tmp" \notin made[u])

-----------------------------------------------------------------------------
(* The document of a content, and the answer, as Intake sees them.          *)
DocOf(c) ==
  LET pieces == UNION {made[u] : u \in {v \in Uploads : Content[v] = c}}
  IN  IF "job" \in pieces THEN "ready"
      ELSE IF "document" \in pieces THEN "registered" ELSE "none"

ToldOf(u) ==
  IF answer[u] \in {"refused", "failed", "lost"} THEN "error" ELSE answer[u]

Promise == INSTANCE Intake WITH
  docs <- [c \in {Content[u] : u \in Uploads} |-> DocOf(c)],
  told <- [u \in Uploads |-> ToldOf(u)]

(* All the statements and file operations of an upload, in any interleaving *)
(* with others, errors, crashes and deletes, come to the steps of Intake    *)
(* (ingest.go:128-366).                                                     *)
ImplementsIntake == Promise!IntakeSpec
=============================================================================
