----------------------------- MODULE MCStorage -----------------------------
(* Instances of the components that keep documents: Ingest, RunHistory,     *)
(* Pages, IndexQueue and Corpus.  They share no state; a behaviour is one   *)
(* of the component that focus names, while the others rest.                *)
EXTENDS Ingest, RunHistory, Pages, IndexQueue, Corpus, TLC

VARIABLE focus

storageVars == <<focus, ingestVars, histVars, pageVars, vars, corpusVars>>

(* two uploads of the same bytes, the second and a third with stage outputs *)
CONSTANTS tablet, form, badForm
SameBytes == [u \in Uploads |-> IF u = badForm THEN 2 ELSE 1]

(* two rows with one title, two without                                     *)
Titles == <<2, 0, 1, 3, 1, 0>>

(* a document by itself and one of a series, whose ids tell them apart; a   *)
(* text of two chunks and then one of one                                   *)
CONSTANTS letter, entry, diary
OneSeries == [d \in Docs |-> IF d = letter THEN letter ELSE diary]
OwnIds == [o \in Owners |-> o]
Shrinking == <<2, 1>>

(* bound: restarts and runs of the script                                   *)
CONSTANT MaxUpsets

StorageInit ==
  /\ focus \in {"ingest", "history", "pages", "index", "corpus"}
  /\ IngestInit /\ HistoryInit /\ PagesInit /\ Init /\ CorpusInit
  /\ focus # "pages" => sort = "search"

InIngest(A) ==
  focus = "ingest" /\ A /\ UNCHANGED <<focus, histVars, pageVars, vars, corpusVars>>
InHistory(A) ==
  focus = "history" /\ A /\ UNCHANGED <<focus, ingestVars, pageVars, vars, corpusVars>>
InPages(A) ==
  focus = "pages" /\ A /\ UNCHANGED <<focus, ingestVars, histVars, vars, corpusVars>>
InIndex(A) ==
  focus = "index" /\ A /\ UNCHANGED <<focus, ingestVars, histVars, pageVars, corpusVars>>

InCorpus(A) ==
  /\ focus = "corpus" /\ A
  /\ restarts' + scripts' <= MaxUpsets
  /\ UNCHANGED <<focus, ingestVars, histVars, pageVars, vars>>

IngestSteps ==
  \/ \E u \in Uploads :
       \/ InIngest(Spill(u)) \/ InIngest(ReadAttachment(u))
       \/ InIngest(IsDuplicate(u)) \/ InIngest(IsNew(u)) \/ InIngest(SaveFile(u))
       \/ InIngest(Refuse(u)) \/ InIngest(Accept(u))
       \/ InIngest(InsertDocument(u)) \/ InIngest(InsertRejected(u))
       \/ InIngest(InsertArtifact(u)) \/ InIngest(SaveSeedFile(u))
       \/ InIngest(InsertSeed(u)) \/ InIngest(StoreMeta(u))
       \/ InIngest(AppendReceived(u)) \/ InIngest(CreateFirstJob(u))
       \/ InIngest(DocumentGone(u)) \/ InIngest(IngestError(u))
       \/ InIngest(SweepTmp(u)) \/ InIngest(DeleteUploaded(u))
  \/ InIngest(Kill)

HistorySteps ==
  \/ InHistory(BeginRun) \/ InHistory(SaveRunFile) \/ InHistory(InsertRunArtifact)
  \/ InHistory(AppendRun) \/ InHistory(FailRun)
  \/ \E e \in Editors :
       \/ InHistory(ReadRuns(e)) \/ InHistory(FindArtifact(e))
       \/ InHistory(SaveEdit(e)) \/ InHistory(WriteBack(e))
       \/ InHistory(RefuseRest(e)) \/ InHistory(EditFails(e))
  \/ \E i \in RunIds : InHistory(Age(i))
  \/ InHistory(CollectLive) \/ InHistory(ListSuperseded)
  \/ InHistory(RemoveRunFile) \/ InHistory(DeleteRunArtifact)
  \/ InHistory(Die)

PageSteps ==
  \/ InPages(ListPage) \/ InPages(ListChats) \/ InPages(SearchPage)
  \/ InPages(SearchFails) \/ InPages(InsertPageRow)
  \/ \E r \in Rows : InPages(DeletePageRow(r))

IndexSteps ==
  \/ InIndex(Backfill) \/ InIndex(TakeEntries)
  \/ InIndex(ReadDocument) \/ InIndex(EntryGone) \/ InIndex(CollectStageData)
  \/ InIndex(ListJobs) \/ InIndex(IndexOrDelete) \/ InIndex(CallFails)
  \/ InIndex(DeleteEntries)
  \/ \E d \in IndexDocs :
       \/ InIndex(InsertDoc(d)) \/ InIndex(UpdateDoc(d)) \/ InIndex(WriteJob(d))
       \/ InIndex(DeleteDoc(d)) \/ InIndex(ClearIndex(d))
  \/ InIndex(Crash)

CorpusSteps ==
  \/ \E d \in Docs, v \in Versions : InCorpus(SetText(d, v))
  \/ \E d \in Docs, v \in Versions \cup {None} : InCorpus(EditText(d, v))
  \/ \E d \in Docs : \E o \in {d} \cup Series : InCorpus(MoveDocument(d, o))
  \/ \E d \in Docs :
       \/ InCorpus(DeleteDocument(d)) \/ InCorpus(QueueEmbed(d)) \/ InCorpus(BeginEmbed(d))
  \/ InCorpus(SkipRebuild) \/ InCorpus(DeleteOld) \/ InCorpus(EnsureCollection)
  \/ InCorpus(CreateCollection) \/ InCorpus(PutPoint) \/ InCorpus(FinishEmbed)
  \/ InCorpus(SetHash) \/ InCorpus(SearchPoints) \/ InCorpus(Restart)
  \/ InCorpus(ScriptWipes) \/ InCorpus(ScriptDrops) \/ InCorpus(ScriptReplays)

StorageNext == IngestSteps \/ HistorySteps \/ PageSteps \/ IndexSteps \/ CorpusSteps

(* the fairness of each component, where it runs                            *)
StorageFairness ==
  /\ \A u \in Uploads : /\ WF_storageVars(InIngest(Request(u)))
                        /\ WF_storageVars(InIngest(SweepTmp(u)))
  /\ WF_storageVars(InHistory(Sweep))
  /\ \A i \in RunIds : SF_storageVars(InHistory(Age(i)))
  /\ WF_storageVars(InIndex(Indexer))
  /\ WF_storageVars(InCorpus(Embed))
  /\ WF_storageVars(InCorpus(ScriptDrops \/ ScriptReplays))

StorageSpec == StorageInit /\ [][StorageNext]_storageVars /\ StorageFairness
=============================================================================
