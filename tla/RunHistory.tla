----------------------------- MODULE RunHistory -----------------------------
(***************************************************************************)
(* The run history of one job: jobs.runs, a JSON column that everybody     *)
(* reads, changes and writes back whole; the files of the runs' outputs in *)
(* the vault; and the rows of the artifacts table that join the two.       *)
(*                                                                         *)
(*   worker    persistRun saves the file, inserts the artifact, and        *)
(*             UpdateRuns writes the runs it listed with the job, extended *)
(*             (core/run_outputs.go, core/worker.go)                       *)
(*   editors   patchRun of the API and UpdateStageArtifactAt of the chat   *)
(*             overwrite the file of a run and write the runs they read    *)
(*             back, with the new preview (api/rest/jobs.go,               *)
(*             core/stage_update.go)                                       *)
(*   janitor   removes the files and rows of outputs a week old that no    *)
(*             latest run refers to (core/janitor.go)                      *)
(*                                                                         *)
(* A run has one output, and run, artifact and file have the same number.  *)
(***************************************************************************)
EXTENDS Naturals, Sequences, FiniteSets

CONSTANTS
  Editors,       \* requests that edit an output
  MaxRuns,       \* bound: runs of the job
  MaxEdits,      \* bound: edits
  MaxFaults,     \* bound: failing calls of the editors
  MaxDeaths      \* bound: crashes of the process

ASSUME HistoryAssumption ==
  MaxRuns \in Nat /\ MaxEdits \in Nat /\ MaxFaults \in Nat /\ MaxDeaths \in Nat

RunIds == 1..MaxRuns
Texts == 0..MaxEdits       \* what a file holds: 0 is the stage's own output
NoRun == 0

VARIABLES
  runs,        \* jobs.runs: a sequence of [id, preview]
  files,       \* files[i]: the text of run i's file, or NoFile
  artifacts,   \* the artifacts table
  aged,        \* artifacts older than the week
  author,      \* the worker: [at, copy, run]
  editor,      \* editor[e]: [at, copy, run, text]
  janitor,     \* [at, live, todo]
  started,     \* runs begun
  edits, faults, deaths,
  revived,     \* the runs that became the latest by an edit's write-back
  overlapped,  \* two have held copies of the runs at the same time
  torn         \* runs whose last edit stopped between the file and the preview

histVars == <<runs, files, artifacts, aged, author, editor, janitor, started, edits,
              faults, deaths, revived, overlapped, torn>>

vault == <<files, artifacts, aged>>
bounds == <<started, edits, faults, deaths>>
ghosts == <<revived, overlapped, torn>>

NoFile == MaxEdits + 1
Entry == [id : RunIds, preview : Texts]
Copies ==   \* oldest run first
  {c \in UNION {[1..n -> Entry] : n \in 0..MaxRuns} :
     \A j, k \in DOMAIN c : j < k => c[j].id < c[k].id}

HistoryTypeOK ==
  /\ runs \in Copies
  /\ files \in [RunIds -> Texts \cup {NoFile}]
  /\ artifacts \subseteq 1..started
  /\ aged \subseteq artifacts
  /\ author.at \in {"idle", "save", "insert", "write"} /\ author.copy \in Copies
  /\ \A e \in Editors : /\ editor[e].at \in {"idle", "find", "save", "write"}
                        /\ editor[e].copy \in Copies
  /\ janitor.at \in {"idle", "list", "file", "row"} /\ janitor.todo \subseteq RunIds
  /\ started \in 0..MaxRuns /\ edits \in 0..MaxEdits
  /\ faults \in 0..MaxFaults /\ deaths \in 0..MaxDeaths

IdleAuthor == [at |-> "idle", copy |-> <<>>, run |-> NoRun]
IdleEditor == [at |-> "idle", copy |-> <<>>, run |-> NoRun, text |-> 0]
IdleJanitor == [at |-> "idle", live |-> {}, todo |-> {}]

HistoryInit ==
  /\ runs = <<>>
  /\ files = [i \in RunIds |-> NoFile]
  /\ artifacts = {} /\ aged = {} /\ revived = {} /\ overlapped = FALSE /\ torn = {}
  /\ author = IdleAuthor
  /\ editor = [e \in Editors |-> IdleEditor]
  /\ janitor = IdleJanitor
  /\ started = 0 /\ edits = 0 /\ faults = 0 /\ deaths = 0

-----------------------------------------------------------------------------
Latest(copy) == IF copy = <<>> THEN NoRun ELSE copy[Len(copy)].id

EditorsBusy == \E e \in Editors : editor[e].at # "idle"

(* the worker takes up the job with the runs ListPending read               *)
BeginRun ==
  /\ author.at = "idle" /\ started < MaxRuns
  /\ started' = started + 1
  /\ author' = [at |-> "save", copy |-> runs, run |-> started + 1]
  /\ overlapped' = (overlapped \/ EditorsBusy)
  /\ UNCHANGED <<runs, editor, janitor, edits, faults, deaths, revived, torn, vault>>

SaveRunFile ==
  /\ author.at = "save"
  /\ files' = [files EXCEPT ![author.run] = 0]
  /\ author' = [author EXCEPT !.at = "insert"]
  /\ UNCHANGED <<runs, artifacts, aged, editor, janitor, bounds, ghosts>>

InsertRunArtifact ==
  /\ author.at = "insert"
  /\ artifacts' = artifacts \cup {author.run}
  /\ author' = [author EXCEPT !.at = "write"]
  /\ UNCHANGED <<runs, files, aged, editor, janitor, bounds, ghosts>>

(* Mutation: the new run goes to the front.                                 *)
PrependRun ==
  /\ author.at = "write"
  /\ runs' = <<[id |-> author.run, preview |-> 0]>> \o author.copy
  /\ author' = IdleAuthor
  /\ UNCHANGED <<editor, janitor, vault, bounds, ghosts>>

AppendRun ==
  /\ author.at = "write"
  /\ runs' = Append(author.copy, [id |-> author.run, preview |-> 0])
  /\ author' = IdleAuthor
  /\ UNCHANGED <<editor, janitor, vault, bounds, ghosts>>

(* persistRun or UpdateRuns fails: the stage is tried again or given up     *)
FailRun ==
  /\ author.at # "idle"
  /\ author' = IdleAuthor
  /\ UNCHANGED <<runs, editor, janitor, vault, bounds, ghosts>>

(* GetByID, and the run and the output are looked up in the copy            *)
ReadRuns(e) ==
  /\ editor[e].at = "idle" /\ edits < MaxEdits
  /\ edits' = edits + 1
  /\ \E k \in DOMAIN runs :
       editor' = [editor EXCEPT ![e] =
         [at |-> "find", copy |-> runs, run |-> k, text |-> edits + 1]]
  /\ overlapped' = (overlapped \/ EditorsBusy \/ author.at # "idle")
  /\ UNCHANGED <<runs, author, janitor, started, faults, deaths, revived, torn, vault>>

EditedRun(e) == editor[e].copy[editor[e].run].id

(* artifacts.Get, by the id in the copy; 500 when the janitor took it       *)
FindArtifact(e) ==
  /\ editor[e].at = "find"
  /\ editor' = [editor EXCEPT ![e] =
       IF EditedRun(e) \in artifacts THEN [@ EXCEPT !.at = "save"] ELSE IdleEditor]
  /\ UNCHANGED <<runs, author, janitor, vault, bounds, ghosts>>

Overwrite(e) == files' = [files EXCEPT ![EditedRun(e)] = editor[e].text]

(* Mutation: the preview is not refreshed.                                  *)
SaveEditOnly(e) ==
  /\ editor[e].at = "save"
  /\ Overwrite(e)
  /\ editor' = [editor EXCEPT ![e].at = "write"]
  /\ UNCHANGED <<runs, artifacts, aged, author, janitor, bounds, ghosts>>

(* the copy with the preview of the new text                                *)
Refreshed(e) == [editor[e].copy EXCEPT ![editor[e].run].preview = editor[e].text]

SaveEdit(e) ==
  /\ editor[e].at = "save"
  /\ Overwrite(e)
  /\ editor' = [editor EXCEPT ![e].at = "write", ![e].copy = Refreshed(e)]
  /\ UNCHANGED <<runs, artifacts, aged, author, janitor, bounds, ghosts>>

WriteBack(e) ==
  /\ editor[e].at = "write"
  /\ runs' = editor[e].copy
  /\ revived' = IF Latest(runs') = Latest(runs) THEN revived ELSE revived \cup {Latest(runs')}
  /\ torn' = torn \ {EditedRun(e)}
  /\ editor' = [editor EXCEPT ![e] = IdleEditor]
  /\ UNCHANGED <<author, janitor, overlapped, vault, bounds>>

Tear(e) == torn' = torn \cup {EditedRun(e)}

(* 422: a later output of the request has a field that the run has not; the *)
(* file stays overwritten and nothing is written back.                      *)
RefuseRest(e) ==
  /\ editor[e].at = "write"
  /\ Tear(e)
  /\ editor' = [editor EXCEPT ![e] = IdleEditor]
  /\ UNCHANGED <<runs, author, janitor, revived, overlapped, vault, bounds>>

(* artifacts.Get, SaveAt, which may leave the file cut (a text that no      *)
(* preview shows), or UpdateRuns fails: 500                                 *)
EditFails(e) ==
  /\ faults < MaxFaults /\ faults' = faults + 1
  /\ \/ editor[e].at \in {"find", "save"} /\ UNCHANGED <<files, torn>>
     \/ editor[e].at = "save" /\ Overwrite(e) /\ Tear(e)
     \/ editor[e].at = "write" /\ UNCHANGED files /\ Tear(e)
  /\ editor' = [editor EXCEPT ![e] = IdleEditor]
  /\ UNCHANGED <<runs, artifacts, aged, author, janitor, started, edits, deaths,
                 revived, overlapped>>

(* A week passes over an artifact; a run and a sweep take far less.         *)
Age(i) ==
  /\ i \in artifacts \ aged
  /\ author.run # i /\ janitor.at = "idle"
  /\ aged' = aged \cup {i}
  /\ UNCHANGED <<runs, files, artifacts, author, editor, janitor, bounds, ghosts>>

(* Mutation: the outputs of all runs are live.                              *)
CollectAllLive ==
  /\ janitor.at = "idle"
  /\ janitor' = [janitor EXCEPT !.at = "list", !.live = {runs[k].id : k \in DOMAIN runs}]
  /\ UNCHANGED <<runs, author, editor, vault, bounds, ghosts>>

(* collectLiveArtifactIDs: the outputs of the latest run                    *)
CollectLive ==
  /\ janitor.at = "idle"
  /\ janitor' = [janitor EXCEPT !.at = "list", !.live = {Latest(runs)}]
  /\ UNCHANGED <<runs, author, editor, vault, bounds, ghosts>>

SweepOn(todo) ==
  IF todo = {} THEN IdleJanitor ELSE [janitor EXCEPT !.at = "file", !.todo = todo]

(* Mutation: no grace period.                                               *)
ListAnyAge ==
  /\ janitor.at = "list"
  /\ janitor' = SweepOn(artifacts \ janitor.live)
  /\ UNCHANGED <<runs, author, editor, vault, bounds, ghosts>>

(* the pages of the artifacts table: past the grace period and not live     *)
ListSuperseded ==
  /\ janitor.at = "list"
  /\ janitor' = SweepOn(aged \ janitor.live)
  /\ UNCHANGED <<runs, author, editor, vault, bounds, ghosts>>

NextSuperseded == CHOOSE i \in janitor.todo : \A j \in janitor.todo : i <= j

RemoveRunFile ==
  /\ janitor.at = "file"
  /\ files' = [files EXCEPT ![NextSuperseded] = NoFile]
  /\ janitor' = [janitor EXCEPT !.at = "row"]
  /\ UNCHANGED <<runs, artifacts, aged, author, editor, bounds, ghosts>>

DeleteRunArtifact ==
  /\ janitor.at = "row"
  /\ artifacts' = artifacts \ {NextSuperseded}
  /\ aged' = aged \ {NextSuperseded}
  /\ janitor' = SweepOn(janitor.todo \ {NextSuperseded})
  /\ UNCHANGED <<runs, files, author, editor, bounds, ghosts>>

Writers == {e \in Editors : editor[e].at = "write"}

(* the process dies and is started again                                    *)
Die ==
  /\ deaths < MaxDeaths
  /\ deaths' = deaths + 1
  /\ author' = IdleAuthor
  /\ editor' = [e \in Editors |-> IdleEditor]
  /\ janitor' = IdleJanitor
  /\ torn' = torn \cup {EditedRun(e) : e \in Writers}
  /\ UNCHANGED <<runs, started, edits, faults, vault, revived, overlapped>>

Sweep == CollectLive \/ ListSuperseded \/ RemoveRunFile \/ DeleteRunArtifact

HistoryNext ==
  \/ BeginRun \/ SaveRunFile \/ InsertRunArtifact \/ AppendRun \/ FailRun
  \/ \E e \in Editors :
       ReadRuns(e) \/ FindArtifact(e) \/ SaveEdit(e) \/ WriteBack(e)
         \/ RefuseRest(e) \/ EditFails(e)
  \/ \E i \in RunIds : Age(i)
  \/ Sweep
  \/ Die

(* The janitor is a ticker, requests and stages end, and weeks pass.        *)
HistoryFairness ==
  /\ WF_histVars(Sweep)
  /\ \A i \in RunIds : SF_histVars(Age(i))

HistorySpec == HistoryInit /\ [][HistoryNext]_histVars
HistoryFairSpec == HistorySpec /\ HistoryFairness

-----------------------------------------------------------------------------
(* Properties                                                               *)

(* The outputs of the latest run can be read: the janitor never takes what  *)
(* a run in progress is about to refer to, nor what an edit is writing; the *)
(* one way to lose them is an edit that writes old runs back over a newer   *)
(* run, so that a run swept as superseded is the latest again               *)
(* (janitor.go:160, jobs.go:220).                                           *)
LatestReadable ==
  Latest(runs) \notin revived \cup {NoRun} =>
    /\ Latest(runs) \in artifacts
    /\ files[Latest(runs)] # NoFile

(* Writers that do not overlap keep the history, whatever fails or dies: no *)
(* run that was written is dropped, the preview in the list is the text of  *)
(* the file unless the last edit of the run was cut short, and one more     *)
(* edit repairs that ("so list views stay in sync", jobs.go:177).           *)
HistoryKept ==
  (~overlapped /\ \A e \in Editors : editor[e].at \in {"idle", "find"}) =>
    /\ revived = {}
    /\ \A k \in DOMAIN runs :
         runs[k].id \notin torn => files[runs[k].id] \in {runs[k].preview, NoFile}

(* Again and again no superseded output is left: none stays for ever        *)
(* (janitor.go:105).                                                        *)
SupersededPruned == []<>(\A i \in artifacts : i >= Latest(runs))
=============================================================================
