----------------------------- MODULE IndexQueue -----------------------------
(***************************************************************************)
(* The full-text index and its queue: triggers on documents and jobs       *)
(* (db/migrations/010_index_queue.up.sql) append an entry for every change,*)
(* and the indexer (server/core/indexer.go) handles the newest entry of at *)
(* most Batch documents a cycle, in the order of their ids.                *)
(*                                                                         *)
(* A document and its jobs are reduced to a version each.                  *)
(***************************************************************************)
EXTENDS Naturals, Sequences, FiniteSets

CONSTANTS
  N,              \* number of documents; a document is its rank in the order of ids
  Batch,          \* entries per cycle (LIMIT 50)
  MaxWrites,      \* bound: changes of documents and jobs in a behaviour
  MaxFailedCalls, \* bound: failed calls of OpenSearch by the indexer
  MaxCrashes      \* bound: crashes of the server process

IndexDocs == 1..N

ASSUME IndexAssumption ==
  /\ N \in Nat /\ Batch \in Nat \ {0}
  /\ MaxWrites \in Nat /\ MaxFailedCalls \in Nat /\ MaxCrashes \in Nat

NotIndexed == [row |-> 0, text |-> 0, stage |-> 0]

VARIABLES
  state,     \* state[d]: "new", "present" or "deleted"
  row, jobs, \* row[d], jobs[d]: version of the document's row and of its jobs
  queue,     \* index_queue: entries in the order of their ids
  index,     \* index[d]: the versions OpenSearch holds, or NotIndexed
  deleting,  \* documents whose delete request has yet to clear the index
  pc,        \* the indexer's next step
  todo,      \* entries of the cycle left to handle, at most one per document
  copy,      \* what indexDoc has read
  writes, failedCalls, crashes

database    == <<state, row, jobs, queue>>
indexer     == <<pc, todo, copy>>
indexBounds == <<writes, failedCalls, crashes>>
vars        == <<database, index, deleting, indexer, indexBounds>>

Entries == [doc : IndexDocs, action : {"index", "delete"}]
Reads   == [row : 0..MaxWrites, text : 0..MaxWrites, stage : 0..MaxWrites]

IndexTypeOK ==
  /\ state \in [IndexDocs -> {"new", "present", "deleted"}]
  /\ row \in [IndexDocs -> 0..MaxWrites] /\ jobs \in [IndexDocs -> 0..MaxWrites]
  /\ queue \in Seq(Entries) /\ Len(queue) <= MaxWrites
  /\ index \in [IndexDocs -> Reads]
  /\ deleting \subseteq IndexDocs
  /\ pc \in {"boot", "poll", "entry", "text", "stage", "put", "handled"}
  /\ todo \subseteq Entries /\ (todo = {} <=> pc \in {"boot", "poll"})
  /\ copy \in Reads
  /\ writes \in 0..MaxWrites /\ failedCalls \in 0..MaxFailedCalls /\ crashes \in 0..MaxCrashes

Init ==
  /\ state = [d \in IndexDocs |-> "new"]
  /\ row = [d \in IndexDocs |-> 0] /\ jobs = [d \in IndexDocs |-> 0]
  /\ queue = <<>>
  /\ index = [d \in IndexDocs |-> NotIndexed]
  /\ deleting = {}
  /\ pc = "boot" /\ todo = {} /\ copy = NotIndexed
  /\ writes = 0 /\ failedCalls = 0 /\ crashes = 0

-----------------------------------------------------------------------------
(* Changes, each in one transaction with its trigger                        *)

Enqueue(d, action) ==
  /\ writes < MaxWrites
  /\ writes' = writes + 1
  /\ queue' = Append(queue, [doc |-> d, action |-> action])
  /\ UNCHANGED <<index, indexer, failedCalls, crashes>>

InsertDoc(d) ==
  /\ state[d] = "new"
  /\ state' = [state EXCEPT ![d] = "present"]
  /\ row' = [row EXCEPT ![d] = 1]
  /\ Enqueue(d, "index")
  /\ UNCHANGED <<jobs, deleting>>

UpdateDoc(d) ==
  /\ state[d] = "present"
  /\ row' = [row EXCEPT ![d] = @ + 1]
  /\ Enqueue(d, "index")
  /\ UNCHANGED <<state, jobs, deleting>>

(* an insert or an update of a job                                          *)
WriteJob(d) ==
  /\ state[d] = "present"
  /\ jobs' = [jobs EXCEPT ![d] = @ + 1]
  /\ Enqueue(d, "index")
  /\ UNCHANGED <<state, row, deleting>>

(* deleteDocument: the row goes, and its jobs with it, ...                  *)
DeleteDoc(d) ==
  /\ state[d] = "present"
  /\ state' = [state EXCEPT ![d] = "deleted"]
  /\ jobs' = [jobs EXCEPT ![d] = 0]
  /\ Enqueue(d, "delete")
  /\ deleting' = deleting \cup {d}
  /\ UNCHANGED row

(* ... and then the handler clears the index itself, errors ignored         *)
ClearIndex(d) ==
  /\ d \in deleting
  /\ deleting' = deleting \ {d}
  /\ index' \in {index, [index EXCEPT ![d] = NotIndexed]}
  /\ UNCHANGED <<database, indexer, indexBounds>>

-----------------------------------------------------------------------------
(* The indexer                                                              *)

(* backfillIfEmpty.  Its INSERT marks its parameter with "?", which is no   *)
(* parameter to PostgreSQL: the statement is rejected and rolled back.      *)
Backfill ==
  /\ pc = "boot"
  /\ pc' = "poll"
  /\ UNCHANGED <<database, index, deleting, todo, copy, indexBounds>>

Queued == {queue[i].doc : i \in DOMAIN queue}

(* DISTINCT ON (doc_id) ... ORDER BY doc_id, id DESC                        *)
Newest(d) ==
  CHOOSE e \in {queue[i] : i \in DOMAIN queue} :
    \E i \in DOMAIN queue :
      /\ queue[i] = e /\ e.doc = d
      /\ \A j \in DOMAIN queue : queue[j].doc = d => j <= i

(* LIMIT 50                                                                 *)
Taken == {d \in Queued : Cardinality({e \in Queued : e < d}) < Batch}

(* Mutation: the oldest entry of a document is taken.                       *)
TakeOldest ==
  /\ pc = "poll" /\ queue # <<>>
  /\ todo' = {queue[i] : i \in {j \in DOMAIN queue :
                queue[j].doc \in Taken /\ \A k \in 1..(j - 1) : queue[k].doc # queue[j].doc}}
  /\ pc' = "entry"
  /\ UNCHANGED <<database, index, deleting, copy, indexBounds>>

TakeEntries ==
  /\ pc = "poll" /\ queue # <<>>
  /\ todo' = {Newest(d) : d \in Taken}
  /\ pc' = "entry"
  /\ UNCHANGED <<database, index, deleting, copy, indexBounds>>

(* the entry being handled                                                  *)
Current == CHOOSE e \in todo : \A f \in todo : e.doc <= f.doc

(* Mutation: the end of the cycle is missed.                                *)
NextAlways ==
  /\ todo' = todo \ {Current}
  /\ pc' = "entry"
  /\ copy' = NotIndexed

NextEntry ==
  /\ todo' = todo \ {Current}
  /\ pc' = IF todo = {Current} THEN "poll" ELSE "entry"
  /\ copy' = NotIndexed

(* indexDoc: the document, its stages' texts and its jobs, one after another*)
ReadDocument ==
  /\ pc = "entry" /\ Current.action = "index"
  /\ state[Current.doc] = "present"
  /\ copy' = [copy EXCEPT !.row = row[Current.doc]]
  /\ pc' = "text"
  /\ UNCHANGED <<database, index, deleting, todo, indexBounds>>

(* an entry whose document is gone fails and stays                          *)
EntryGone ==
  /\ pc = "entry" /\ Current.action = "index"
  /\ state[Current.doc] = "deleted"
  /\ NextEntry
  /\ UNCHANGED <<database, index, deleting, indexBounds>>

CollectStageData ==
  /\ pc = "text"
  /\ copy' = [copy EXCEPT !.text = jobs[Current.doc]]
  /\ pc' = "stage"
  /\ UNCHANGED <<database, index, deleting, todo, indexBounds>>

ListJobs ==
  /\ pc = "stage"
  /\ copy' = [copy EXCEPT !.stage = jobs[Current.doc]]
  /\ pc' = "put"
  /\ UNCHANGED <<database, index, deleting, todo, indexBounds>>

(* the call of OpenSearch an entry comes to, and its effect                 *)
AtCall == pc = "put" \/ (pc = "entry" /\ Current.action = "delete")
Called == [index EXCEPT ![Current.doc] = copy]

IndexOrDelete ==
  /\ AtCall
  /\ index' = Called
  /\ pc' = "handled"
  /\ UNCHANGED <<database, deleting, todo, copy, indexBounds>>

(* an error, which may come after the call took effect; the entry stays     *)
CallFails ==
  /\ AtCall
  /\ failedCalls < MaxFailedCalls
  /\ failedCalls' = failedCalls + 1
  /\ index' \in {index, Called}
  /\ NextEntry
  /\ UNCHANGED <<database, deleting, writes, crashes>>

(* DELETE FROM index_queue WHERE doc_id = ? AND id <= ?: PostgreSQL rejects *)
(* it, and the error is dropped.  The queue keeps its entries.              *)
DeleteEntries ==
  /\ pc = "handled"
  /\ NextEntry
  /\ UNCHANGED <<database, index, deleting, indexBounds>>

-----------------------------------------------------------------------------
(* Indexer and handlers are one process                                     *)
Crash ==
  /\ crashes < MaxCrashes
  /\ crashes' = crashes + 1
  /\ pc' = "boot" /\ todo' = {} /\ copy' = NotIndexed
  /\ deleting' = {}
  /\ UNCHANGED <<database, index, writes, failedCalls>>

Indexer ==
  \/ Backfill \/ TakeEntries
  \/ ReadDocument \/ EntryGone \/ CollectStageData \/ ListJobs
  \/ IndexOrDelete \/ CallFails \/ DeleteEntries

Next ==
  \/ Indexer
  \/ \E d \in IndexDocs : \/ InsertDoc(d) \/ UpdateDoc(d) \/ WriteJob(d)
                     \/ DeleteDoc(d) \/ ClearIndex(d)
  \/ Crash

Spec == Init /\ [][Next]_vars

(* The indexer is a loop with a timer; nothing else is owed.                *)
FairSpec == Spec /\ WF_vars(Indexer)

-----------------------------------------------------------------------------
(* Properties                                                               *)

(* what the index should hold                                               *)
Wanted(d) == IF state[d] = "present"
             THEN [row |-> row[d], text |-> jobs[d], stage |-> jobs[d]]
             ELSE NotIndexed

(* The index follows the database ("keeps OpenSearch in sync",              *)
(* indexer.go:14): when documents stop changing it comes to hold the latest *)
(* version of each and nothing of the deleted ones, whatever was read half  *)
(* way through a change, and whichever calls failed or crashed.             *)
InSync == <>[](\A d \in IndexDocs : index[d] = Wanted(d))
=============================================================================
