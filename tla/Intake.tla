------------------------------- MODULE Intake -------------------------------
(***************************************************************************)
(* What an upload is promised, whatever happens underneath: of a content   *)
(* there is at most one document; it is registered and then made ready to  *)
(* be processed, in one step with the answer "created"; "duplicate" is the *)
(* answer only while there is a document; everything else is an error.     *)
(* Ingest implements it.                                                   *)
(***************************************************************************)
CONSTANTS Uploads, Content

VARIABLES
  docs,    \* docs[c]: "none", "registered" or "ready"
  told     \* told[u]: the answer to the request, "none" before

intakeVars == <<docs, told>>

Contents == {Content[u] : u \in Uploads}

IntakeInit ==
  /\ docs = [c \in Contents |-> "none"]
  /\ told = [u \in Uploads |-> "none"]

Tell(u, a) == told[u] = "none" /\ told' = [told EXCEPT ![u] = a]

Become(c, from, to) == docs[c] \in from /\ docs' = [docs EXCEPT ![c] = to]

Register(c) == Become(c, {"none"}, "registered") /\ UNCHANGED told

CompleteUpload(u) == Become(Content[u], {"registered"}, "ready") /\ Tell(u, "created")

TellDuplicate(u) ==
  docs[Content[u]] # "none" /\ Tell(u, "duplicate") /\ UNCHANGED docs

TellError(u) == Tell(u, "error") /\ UNCHANGED docs

(* a crash takes several requests with it                                   *)
LoseRequests(lost) ==
  /\ \A u \in lost : told[u] = "none"
  /\ told' = [u \in Uploads |-> IF u \in lost THEN "error" ELSE told[u]]
  /\ UNCHANGED docs

Remove(c) == Become(c, {"registered", "ready"}, "none") /\ UNCHANGED told

IntakeNext ==
  \/ \E c \in Contents : Register(c) \/ Remove(c)
  \/ \E u \in Uploads : CompleteUpload(u) \/ TellDuplicate(u) \/ TellError(u)
  \/ \E lost \in SUBSET Uploads : LoseRequests(lost)

IntakeSpec == IntakeInit /\ [][IntakeNext]_intakeVars
=============================================================================
