-------------------------- MODULE RunHistoryProofs --------------------------
(***************************************************************************)
(* Proofs about RunHistory: types, that the outputs of the latest run stay *)
(* readable beside the janitor, and that writers that do not overlap keep  *)
(* the history.                                                            *)
(***************************************************************************)
EXTENDS RunHistory, FiniteSetTheorems, TLAPS

EditorStep(e) ==
  ReadRuns(e) \/ FindArtifact(e) \/ SaveEdit(e) \/ WriteBack(e) \/ RefuseRest(e) \/ EditFails(e)
AuthorStep == BeginRun \/ SaveRunFile \/ InsertRunArtifact \/ AppendRun \/ FailRun

(* A copy of the runs with ids up to n, oldest first                        *)
Bounded(c, n) ==
  /\ c \in Seq(Entry)
  /\ Len(c) <= n
  /\ \A k \in 1..Len(c) : c[k].id <= n
  /\ \A j, k \in 1..Len(c) : j < k => c[j].id < c[k].id

AuthorStates ==
  [at : {"idle", "save", "insert", "write"}, copy : Seq(Entry), run : 0..MaxRuns]
EditorStates ==
  [at : {"idle", "find", "save", "write"}, copy : Seq(Entry), run : Nat, text : Texts]
JanitorStates ==
  [at : {"idle", "list", "file", "row"}, live : SUBSET Nat, todo : SUBSET RunIds]

AuthorShape ==
  /\ author \in AuthorStates
  /\ author.at = "idle" => author = IdleAuthor
  /\ author.at # "idle" =>
       started > 0 /\ author.run = started /\ Bounded(author.copy, started - 1)

EditorShape(e) ==
  /\ editor[e] \in EditorStates
  /\ Bounded(editor[e].copy, started)
  /\ editor[e].at # "idle" => editor[e].run \in 1..Len(editor[e].copy)

(* What is swept is old: nothing is aged while a sweep lasts.               *)
JanitorShape ==
  /\ janitor \in JanitorStates
  /\ janitor.todo \subseteq aged
  /\ janitor.at \in {"file", "row"} => janitor.todo # {}

TableShape ==
  /\ Bounded(runs, started)
  /\ files \in [RunIds -> Texts \cup {NoFile}]
  /\ artifacts \subseteq 1..started
  /\ aged \subseteq artifacts
  /\ started \in 0..MaxRuns /\ edits \in 0..MaxEdits
  /\ faults \in 0..MaxFaults /\ deaths \in 0..MaxDeaths

Shapes ==
  /\ TableShape /\ AuthorShape /\ JanitorShape
  /\ DOMAIN editor = Editors /\ editor = [e \in Editors |-> editor[e]]
  /\ \A e \in Editors : EditorShape(e)

-----------------------------------------------------------------------------
(* Copies of the runs                                                       *)

(* What a copy is made of                                                   *)
LEMMA InCopy ==
  ASSUME NEW c \in Seq(Entry)
  PROVE  /\ Len(c) \in Nat /\ DOMAIN c = 1..Len(c)
         /\ \A k \in 1..Len(c) : c[k] \in Entry /\ c[k].id \in RunIds /\ c[k].id \in Nat
<1>1. \A r \in Entry : r.id \in RunIds /\ r.id \in Nat
  BY HistoryAssumption DEF Entry, RunIds
<1> QED  BY <1>1

(* The empty copy                                                           *)
LEMMA EmptyBounded == \A n \in Nat : Bounded(<<>>, n)
BY DEF Bounded

(* A copy remains one when more runs have begun.                            *)
LEMMA StaysBounded ==
  ASSUME NEW n \in Nat, NEW m \in Nat, n <= m, NEW c, Bounded(c, n)
  PROVE  Bounded(c, m)
<1>1. c \in Seq(Entry) /\ Len(c) <= n /\ \A k \in 1..Len(c) : c[k].id <= n
  BY DEF Bounded
<1>2. Len(c) <= m /\ \A k \in 1..Len(c) : c[k].id <= m
  BY <1>1, InCopy
<1> QED  BY <1>2 DEF Bounded

(* The next run goes behind the others.                                     *)
LEMMA AppendBounded ==
  ASSUME NEW n \in RunIds, NEW c, Bounded(c, n - 1)
  PROVE  /\ Bounded(Append(c, [id |-> n, preview |-> 0]), n)
         /\ Latest(Append(c, [id |-> n, preview |-> 0])) = n
<1> DEFINE r == [id |-> n, preview |-> 0]
           d == Append(c, r)
<1>1. r \in Entry /\ r.id = n /\ n \in Nat
  BY HistoryAssumption DEF Entry, Texts, RunIds
<1>2. c \in Seq(Entry) /\ Len(c) \in Nat /\ Len(c) <= n - 1
      /\ \A k \in 1..Len(c) : c[k].id \in Nat /\ c[k].id <= n - 1
  BY InCopy DEF Bounded
<1>3. d \in Seq(Entry) /\ Len(d) = Len(c) + 1 /\ d[Len(c) + 1] = r
      /\ \A k \in 1..Len(c) : d[k] = c[k]
  BY <1>1, <1>2
<1> HIDE DEF d, r
<1>4. \A k \in 1..Len(d) : k \in 1..Len(c) \/ k = Len(d)
  BY <1>2, <1>3
<1>5. Len(d) <= n /\ \A k \in 1..Len(d) : d[k].id <= n
  BY <1>1, <1>2, <1>3, <1>4
<1>6. ASSUME NEW j \in 1..Len(d), NEW k \in 1..Len(d), j < k
      PROVE  d[j].id < d[k].id
  <2>1. j \in 1..Len(c) /\ d[j] = c[j]
    BY <1>2, <1>3, <1>6
  <2>2. CASE k \in 1..Len(c)
    BY <1>3, <1>6, <2>1, <2>2 DEF Bounded
  <2>3. CASE k = Len(d)
    BY <1>1, <1>2, <1>3, <2>1, <2>3
  <2> QED  BY <1>4, <2>2, <2>3
<1>7. Bounded(d, n)
  BY <1>3, <1>5, <1>6 DEF Bounded
<1>8. d # <<>> /\ Latest(d) = n
  BY <1>1, <1>2, <1>3 DEF Latest
<1> QED  BY <1>7, <1>8 DEF d, r

(* An edit's preview changes no id.                                         *)
LEMMA PreviewBounded ==
  ASSUME NEW n \in Nat, NEW c, Bounded(c, n), NEW k \in 1..Len(c), NEW t \in Texts
  PROVE  LET d == [c EXCEPT ![k].preview = t]
         IN  /\ Bounded(d, n)
             /\ Len(d) = Len(c)
             /\ \A j \in 1..Len(c) : d[j].id = c[j].id
             /\ \A j \in 1..Len(c) : d[j].preview = IF j = k THEN t ELSE c[j].preview
             /\ Latest(d) = Latest(c)
<1> DEFINE e == [c[k] EXCEPT !.preview = t]
           d == [c EXCEPT ![k] = e]
<1>1. c \in Seq(Entry) /\ c[k] \in Entry
  BY InCopy DEF Bounded
<1>2. e \in Entry /\ e.id = c[k].id /\ e.preview = t
  BY <1>1 DEF Entry
<1> HIDE DEF e
<1>3. d \in Seq(Entry) /\ Len(d) = Len(c)
      /\ \A j \in 1..Len(c) : d[j] = IF j = k THEN e ELSE c[j]
  BY <1>1, <1>2
<1> HIDE DEF d
<1>4. \A j \in 1..Len(c) : d[j].id = c[j].id
                           /\ d[j].preview = IF j = k THEN t ELSE c[j].preview
  BY <1>2, <1>3
<1>5. Bounded(d, n)
  BY <1>3, <1>4 DEF Bounded
<1>6. Latest(d) = Latest(c)
  <2>1. Len(c) \in Nat
    BY <1>1, InCopy
  <2>2. c # <<>> /\ d # <<>> /\ Len(c) \in 1..Len(c)
    BY <1>3, <2>1
  <2> QED  BY <1>3, <1>4, <2>2 DEF Latest
<1> QED  BY <1>3, <1>4, <1>5, <1>6 DEF d, e

(* A copy with ids up to MaxRuns is one of Copies.                          *)
LEMMA BoundedIsCopy ==
  ASSUME NEW n \in 0..MaxRuns, NEW c, Bounded(c, n)
  PROVE  c \in Copies
<1>1. c \in Seq(Entry) /\ Len(c) \in Nat /\ DOMAIN c = 1..Len(c) /\ Len(c) <= n
  BY InCopy DEF Bounded
<1>2. c \in [1..Len(c) -> Entry] /\ Len(c) \in 0..MaxRuns
  BY <1>1, HistoryAssumption
<1>3. c \in UNION {[1..k -> Entry] : k \in 0..MaxRuns}
  BY <1>2
<1> QED  BY <1>1, <1>3 DEF Copies, Bounded

(* A set of numbers has a least one.                                        *)
LEMMA LeastNumber ==
  ASSUME NEW T, T \subseteq Nat, T # {}
  PROVE  \E i \in T : \A j \in T : i <= j
<1> DEFINE Up == {0..i : i \in T}
           R == StrictSubsetOrdering(Nat)
<1>1. Up \subseteq FiniteSubsetsOf(Nat) /\ Up # {}
  <2>1. \A i \in Nat : IsFiniteSet(0..i) /\ 0..i \subseteq Nat
    BY FS_Interval
  <2> QED  BY <2>1 DEF FiniteSubsetsOf
<1>2. IsWellFoundedOn(R, FiniteSubsetsOf(Nat))
  BY FS_StrictSubsetOrderingWellFounded
<1> HIDE DEF R
<1>3. \E x \in Up : \A y \in Up : ~(<<y, x>> \in R)
  <2> HIDE DEF Up
  <2> QED  BY <1>1, <1>2, WFMin
<1>4. PICK i \in T : \A j \in T : ~(<<0..j, 0..i>> \in R)
  BY <1>3
<1>5. ASSUME NEW j \in T, j < i  PROVE FALSE
  <2>1. i \in Nat /\ j \in Nat
    OBVIOUS
  <2>2. 0..j \subseteq 0..i /\ i \in 0..i /\ i \notin 0..j
    BY <1>5, <2>1
  <2>3. <<0..j, 0..i>> \in R
    BY <2>1, <2>2 DEF R, StrictSubsetOrdering
  <2> QED  BY <1>4, <2>3
<1> QED  BY <1>5

(* The sweep goes on with an element of its list.                           *)
LEMMA NextInTodo ==
  ASSUME JanitorShape, janitor.at \in {"file", "row"}
  PROVE  NextSuperseded \in janitor.todo
<1>1. janitor.todo \subseteq Nat /\ janitor.todo # {}
  BY HistoryAssumption DEF JanitorShape, JanitorStates, RunIds
<1>2. \E i \in janitor.todo : \A j \in janitor.todo : i <= j
  BY <1>1, LeastNumber
<1> QED  BY <1>2 DEF NextSuperseded

-----------------------------------------------------------------------------
(* Types                                                                    *)

(* The initial state has the types.                                         *)
LEMMA ShapesInit == HistoryInit => Shapes
<1> SUFFICES ASSUME HistoryInit  PROVE Shapes
  OBVIOUS
<1>1. MaxRuns \in Nat /\ MaxEdits \in Nat /\ MaxFaults \in Nat /\ MaxDeaths \in Nat
  BY HistoryAssumption
<1>2. TableShape
  BY <1>1, EmptyBounded DEF HistoryInit, TableShape
<1>3. AuthorShape
  BY <1>1 DEF HistoryInit, AuthorShape, AuthorStates, IdleAuthor, NoRun
<1>4. JanitorShape
  BY <1>1 DEF HistoryInit, JanitorShape, JanitorStates, IdleJanitor
<1>5. \A e \in Editors : EditorShape(e)
  BY <1>1, EmptyBounded DEF HistoryInit, EditorShape, EditorStates, IdleEditor, NoRun, Texts
<1> QED  BY <1>2, <1>3, <1>4, <1>5 DEF Shapes, HistoryInit

(* The editors keep their types when no run begins.                         *)
LEMMA EditorsKept ==
  ASSUME Shapes, UNCHANGED <<editor, started>>
  PROVE  /\ editor' = [e \in Editors |-> editor'[e]]
         /\ \A e \in Editors : EditorShape(e)'
BY DEF Shapes, EditorShape

(* The steps of the worker keep the types.                                  *)
LEMMA AuthorShapes == Shapes /\ AuthorStep => Shapes'
<1> SUFFICES ASSUME Shapes, AuthorStep  PROVE Shapes'
  OBVIOUS
<1> USE DEF Shapes
<1>0. MaxRuns \in Nat /\ MaxEdits \in Nat /\ started \in Nat
      /\ IdleAuthor \in AuthorStates
  BY HistoryAssumption DEF TableShape, IdleAuthor, AuthorStates, NoRun
<1>1. CASE BeginRun
  <2>1. started' = started + 1 /\ started' \in 0..MaxRuns /\ started' > 0
    BY <1>0, <1>1 DEF BeginRun
  <2>2. TableShape'
    <3>1. Bounded(runs, started')
      BY <1>0, <2>1, StaysBounded DEF TableShape
    <3>2. artifacts \subseteq 1..started'
      BY <1>0, <2>1 DEF TableShape
    <3> QED  BY <1>1, <2>1, <3>1, <3>2 DEF BeginRun, vault, TableShape
  <2>3. AuthorShape'
    <3>1. Bounded(runs, started' - 1) /\ runs \in Seq(Entry)
      <4>1. started' - 1 = started
        BY <1>0, <2>1
      <4> QED  BY <4>1 DEF TableShape, Bounded
    <3> QED  BY <1>0, <1>1, <2>1, <3>1 DEF BeginRun, AuthorShape, AuthorStates
  <2>4. \A e \in Editors : EditorShape(e)'
    BY <1>0, <1>1, <2>1, StaysBounded DEF BeginRun, EditorShape
  <2> QED  BY <1>1, <2>2, <2>3, <2>4 DEF BeginRun, vault, JanitorShape
<1>2. CASE SaveRunFile
  <2>1. author.run \in RunIds
    BY <1>0, <1>2 DEF SaveRunFile, AuthorShape, TableShape, RunIds
  <2>2. TableShape'
    BY <1>0, <1>2, <2>1 DEF SaveRunFile, TableShape, Texts, bounds
  <2>3. AuthorShape'
    BY <1>2 DEF SaveRunFile, AuthorShape, AuthorStates, bounds
  <2> QED  BY <1>2, <2>2, <2>3, EditorsKept DEF SaveRunFile, JanitorShape, bounds
<1>3. CASE InsertRunArtifact
  <2>1. author.run \in 1..started
    BY <1>0, <1>3 DEF InsertRunArtifact, AuthorShape
  <2>2. TableShape'
    BY <1>3, <2>1 DEF InsertRunArtifact, TableShape, bounds
  <2>3. AuthorShape'
    BY <1>3 DEF InsertRunArtifact, AuthorShape, AuthorStates, bounds
  <2> QED  BY <1>3, <2>2, <2>3, EditorsKept DEF InsertRunArtifact, JanitorShape, bounds
<1>4. CASE AppendRun
  <2>1. author.run = started /\ started \in RunIds /\ Bounded(author.copy, started - 1)
    BY <1>0, <1>4 DEF AppendRun, AuthorShape, TableShape, RunIds
  <2>2. Bounded(runs', started)
    BY <1>4, <2>1, AppendBounded DEF AppendRun
  <2>3. TableShape'
    BY <1>4, <2>2 DEF AppendRun, TableShape, bounds, vault
  <2>4. AuthorShape'
    BY <1>0, <1>4 DEF AppendRun, AuthorShape, IdleAuthor
  <2> QED  BY <1>4, <2>3, <2>4, EditorsKept DEF AppendRun, JanitorShape, bounds, vault
<1>5. CASE FailRun
  <2>1. AuthorShape'
    BY <1>0, <1>5 DEF FailRun, AuthorShape, IdleAuthor
  <2>2. TableShape'
    BY <1>5 DEF FailRun, TableShape, bounds, vault
  <2> QED  BY <1>5, <2>1, <2>2, EditorsKept DEF FailRun, JanitorShape, bounds, vault
<1> QED  BY <1>1, <1>2, <1>3, <1>4, <1>5 DEF AuthorStep

(* An editor that takes a step                                              *)
LEMMA EditorMoves ==
  ASSUME Shapes, NEW e \in Editors, started' = started,
         NEW s \in EditorStates, editor' = [editor EXCEPT ![e] = s],
         Bounded(s.copy, started), s.at # "idle" => s.run \in 1..Len(s.copy)
  PROVE  /\ editor' = [d \in Editors |-> editor'[d]] /\ DOMAIN editor' = Editors
         /\ \A d \in Editors : EditorShape(d)'
<1>1. \A d \in Editors : editor'[d] = IF d = e THEN s ELSE editor[d]
  BY DEF Shapes
<1> QED  BY <1>1 DEF Shapes, EditorShape

(* An edit in progress is of a run in its copy, which has a number.         *)
LEMMA EditedIsRun ==
  ASSUME Shapes, NEW e \in Editors, editor[e].at # "idle"
  PROVE  /\ EditedRun(e) \in RunIds /\ EditedRun(e) <= started
         /\ editor[e].run \in 1..Len(editor[e].copy) /\ editor[e].text \in Texts
BY InCopy DEF Shapes, EditorShape, EditorStates, EditedRun, Bounded

(* An editor at rest                                                        *)
LEMMA IdleEditorShape == 
  /\ IdleEditor \in EditorStates /\ IdleEditor.at = "idle"
  /\ \A n \in Nat : Bounded(IdleEditor.copy, n)
BY EmptyBounded, HistoryAssumption DEF IdleEditor, EditorStates, NoRun, Texts

(* The copy after the file was overwritten                                  *)
LEMMA RefreshedCopy ==
  ASSUME Shapes, NEW e \in Editors, editor[e].at # "idle"
  PROVE  LET c == editor[e].copy
             d == Refreshed(e)
         IN  /\ Bounded(d, started) /\ Latest(d) = Latest(c) /\ Len(d) = Len(c)
             /\ \A j \in 1..Len(c) :
                  /\ d[j].id = c[j].id
                  /\ d[j].preview = IF j = editor[e].run THEN editor[e].text ELSE c[j].preview
<1> DEFINE c == editor[e].copy
           k == editor[e].run
           t == editor[e].text
<1>1. started \in Nat /\ Bounded(c, started) /\ k \in 1..Len(c) /\ t \in Texts
  BY EditedIsRun DEF Shapes, EditorShape, TableShape
<1>2. Refreshed(e) = [c EXCEPT ![k].preview = t]
  BY DEF Refreshed
<1> HIDE DEF c, k, t
<1>3. LET d == [c EXCEPT ![k].preview = t]
      IN  /\ Bounded(d, started)
          /\ Len(d) = Len(c)
          /\ \A j \in 1..Len(c) : d[j].id = c[j].id
          /\ \A j \in 1..Len(c) : d[j].preview = IF j = k THEN t ELSE c[j].preview
          /\ Latest(d) = Latest(c)
  BY <1>1, PreviewBounded
<1>4. /\ Bounded(Refreshed(e), started)
      /\ Len(Refreshed(e)) = Len(c)
      /\ \A j \in 1..Len(c) : Refreshed(e)[j].id = c[j].id
      /\ \A j \in 1..Len(c) : Refreshed(e)[j].preview = IF j = k THEN t ELSE c[j].preview
      /\ Latest(Refreshed(e)) = Latest(c)
  BY <1>2, <1>3
<1> QED  BY <1>4 DEF c, k, t

(* The steps of an editor keep the types.                                   *)
LEMMA EditorShapes == \A e \in Editors : Shapes /\ EditorStep(e) => Shapes'
<1> SUFFICES ASSUME NEW e \in Editors, Shapes, EditorStep(e)  PROVE Shapes'
  OBVIOUS
<1>0. MaxEdits \in Nat /\ started \in Nat /\ editor[e] \in EditorStates
      /\ Bounded(editor[e].copy, started) /\ Bounded(runs, started) /\ runs \in Seq(Entry)
  BY HistoryAssumption DEF Shapes, TableShape, EditorShape, Bounded
<1>1. CASE ReadRuns(e)
  <2>1. PICK k \in DOMAIN runs : editor' = [editor EXCEPT ![e] =
          [at |-> "find", copy |-> runs, run |-> k, text |-> edits + 1]]
    BY <1>1 DEF ReadRuns
  <2>2. k \in 1..Len(runs) /\ k \in Nat /\ edits + 1 \in Texts /\ edits + 1 \in 0..MaxEdits
    BY <1>0, <1>1, InCopy DEF ReadRuns, Shapes, TableShape, Texts
  <2>3. [at |-> "find", copy |-> runs, run |-> k, text |-> edits + 1] \in EditorStates
    BY <1>0, <2>2 DEF EditorStates
  <2>4. TableShape'
    BY <1>1, <2>2 DEF ReadRuns, Shapes, TableShape, vault
  <2>5. AuthorShape' /\ JanitorShape'
    BY <1>1 DEF ReadRuns, Shapes, AuthorShape, JanitorShape, vault
  <2>6. started' = started
    BY <1>1 DEF ReadRuns
  <2>7. DOMAIN editor' = Editors /\ editor' = [d \in Editors |-> editor'[d]]
        /\ \A d \in Editors : EditorShape(d)'
    BY <1>0, <2>1, <2>2, <2>3, <2>6, EditorMoves
  <2> QED  BY <2>4, <2>5, <2>7 DEF Shapes
<1>2. CASE FindArtifact(e)
  <2> DEFINE s == IF EditedRun(e) \in artifacts THEN [editor[e] EXCEPT !.at = "save"]
                  ELSE IdleEditor
  <2>1. editor' = [editor EXCEPT ![e] = s] /\ editor[e].at = "find"
    BY <1>2 DEF FindArtifact
  <2>2. s \in EditorStates /\ Bounded(s.copy, started)
        /\ (s.at # "idle" => s.run \in 1..Len(s.copy))
    BY <1>0, <2>1, IdleEditorShape, EditedIsRun DEF EditorStates
  <2> HIDE DEF s
  <2>3. started' = started /\ TableShape' /\ AuthorShape' /\ JanitorShape'
    BY <1>2 DEF FindArtifact, Shapes, TableShape, AuthorShape, JanitorShape, vault, bounds
  <2>4. DOMAIN editor' = Editors /\ editor' = [d \in Editors |-> editor'[d]]
        /\ \A d \in Editors : EditorShape(d)'
    BY <2>1, <2>2, <2>3, EditorMoves
  <2> QED  BY <2>3, <2>4 DEF Shapes
<1>3. CASE SaveEdit(e)
  <2> DEFINE s == [editor[e] EXCEPT !.at = "write", !.copy = Refreshed(e)]
  <2>1. editor[e].at = "save" /\ EditedRun(e) \in RunIds
        /\ editor[e].run \in 1..Len(editor[e].copy) /\ editor[e].text \in Texts
    BY <1>3, EditedIsRun DEF SaveEdit
  <2>2. Bounded(Refreshed(e), started) /\ Len(Refreshed(e)) = Len(editor[e].copy)
    BY <2>1, RefreshedCopy
  <2>3. editor' = [editor EXCEPT ![e] = s]
    BY <1>3 DEF SaveEdit
  <2>4. s \in EditorStates /\ Bounded(s.copy, started) /\ s.run \in 1..Len(s.copy)
    BY <1>0, <2>1, <2>2 DEF EditorStates, Bounded
  <2> HIDE DEF s
  <2>5. started' = started /\ AuthorShape' /\ JanitorShape'
    BY <1>3 DEF SaveEdit, Shapes, AuthorShape, JanitorShape, bounds
  <2>6. TableShape'
    BY <1>3, <2>1 DEF SaveEdit, Overwrite, Shapes, TableShape, bounds
  <2>7. DOMAIN editor' = Editors /\ editor' = [a \in Editors |-> editor'[a]]
        /\ \A a \in Editors : EditorShape(a)'
    BY <2>3, <2>4, <2>5, EditorMoves
  <2> QED  BY <2>5, <2>6, <2>7 DEF Shapes
<1>4. CASE WriteBack(e)
  <2>1. started' = started /\ AuthorShape' /\ JanitorShape'
    BY <1>4 DEF WriteBack, Shapes, AuthorShape, JanitorShape, bounds, vault
  <2>2. TableShape'
    BY <1>0, <1>4 DEF WriteBack, Shapes, TableShape, bounds, vault
  <2>3. DOMAIN editor' = Editors /\ editor' = [d \in Editors |-> editor'[d]]
        /\ \A d \in Editors : EditorShape(d)'
    BY <1>0, <1>4, <2>1, IdleEditorShape, EditorMoves DEF WriteBack
  <2> QED  BY <2>1, <2>2, <2>3 DEF Shapes
<1>5. CASE RefuseRest(e)
  <2>1. started' = started /\ TableShape' /\ AuthorShape' /\ JanitorShape'
    BY <1>5 DEF RefuseRest, Shapes, TableShape, AuthorShape, JanitorShape, vault, bounds
  <2>2. DOMAIN editor' = Editors /\ editor' = [d \in Editors |-> editor'[d]]
        /\ \A d \in Editors : EditorShape(d)'
    BY <1>0, <1>5, <2>1, IdleEditorShape, EditorMoves DEF RefuseRest
  <2> QED  BY <2>1, <2>2 DEF Shapes
<1>6. CASE EditFails(e)
  <2>1. files' \in [RunIds -> Texts \cup {NoFile}]
    <3>1. files' = files \/ (editor[e].at = "save" /\ Overwrite(e))
      BY <1>6 DEF EditFails
    <3> QED  BY <3>1, EditedIsRun DEF Overwrite, Shapes, TableShape
  <2>2. faults' \in 0..MaxFaults
    BY <1>6, HistoryAssumption DEF EditFails, Shapes, TableShape
  <2>3. started' = started /\ TableShape' /\ AuthorShape' /\ JanitorShape'
    BY <1>6, <2>1, <2>2 DEF EditFails, Shapes, TableShape, AuthorShape, JanitorShape
  <2>4. DOMAIN editor' = Editors /\ editor' = [d \in Editors |-> editor'[d]]
        /\ \A d \in Editors : EditorShape(d)'
    BY <1>0, <1>6, <2>3, IdleEditorShape, EditorMoves DEF EditFails
  <2> QED  BY <2>3, <2>4 DEF Shapes
<1> QED  BY <1>1, <1>2, <1>3, <1>4, <1>5, <1>6 DEF EditorStep

(* A sweep goes on, or is over, with what is left of its list.              *)
LEMMA SweepOnShape ==
  ASSUME Shapes, NEW todo \in SUBSET aged
  PROVE  /\ SweepOn(todo) \in JanitorStates
         /\ SweepOn(todo).todo \subseteq todo
         /\ SweepOn(todo).at \in {"file", "row"} => SweepOn(todo).todo # {}
         /\ SweepOn(todo).at # "list"
<1>1. todo \subseteq RunIds
  BY HistoryAssumption DEF Shapes, TableShape, RunIds
<1> QED  BY <1>1 DEF SweepOn, Shapes, JanitorShape, JanitorStates, IdleJanitor

(* The steps of the janitor keep the types.                                 *)
LEMMA JanitorShapes == Shapes /\ Sweep => Shapes'
<1> SUFFICES ASSUME Shapes, Sweep  PROVE Shapes'
  OBVIOUS
<1>1. author' = author /\ runs' = runs /\ UNCHANGED bounds /\ editor' = editor
  BY DEF Sweep, CollectLive, ListSuperseded, RemoveRunFile, DeleteRunArtifact
<1>2. AuthorShape' /\ DOMAIN editor' = Editors /\ editor' = [e \in Editors |-> editor'[e]]
      /\ \A e \in Editors : EditorShape(e)'
  BY <1>1, EditorsKept DEF Shapes, AuthorShape, bounds
<1> SUFFICES TableShape' /\ JanitorShape'
  BY <1>2 DEF Shapes
<1>3. CASE CollectLive
  <2>1. Latest(runs) \in Nat
    <3>1. runs \in Seq(Entry)
      BY DEF Shapes, TableShape, Bounded
    <3>2. CASE runs = <<>>
      BY <3>2 DEF Latest, NoRun
    <3>3. CASE runs # <<>>
      <4>1. Len(runs) \in 1..Len(runs)
        BY <3>1, <3>3
      <4>2. runs[Len(runs)].id \in Nat
        BY <3>1, <4>1, InCopy, HistoryAssumption DEF RunIds
      <4> QED  BY <3>3, <4>2 DEF Latest
    <3> QED  BY <3>2, <3>3
  <2>2. TableShape'
    BY <1>1, <1>3 DEF CollectLive, Shapes, TableShape, vault, bounds
  <2>3. janitor' = [janitor EXCEPT !.at = "list", !.live = {Latest(runs)}] /\ aged' = aged
    BY <1>3 DEF CollectLive, vault
  <2>4. janitor \in JanitorStates /\ janitor.todo \subseteq aged
    BY DEF Shapes, JanitorShape
  <2>5. {Latest(runs)} \in SUBSET Nat
    BY <2>1
  <2>6. janitor' \in JanitorStates /\ janitor'.at = "list" /\ janitor'.todo = janitor.todo
    BY <2>3, <2>4, <2>5 DEF JanitorStates
  <2> QED  BY <2>2, <2>3, <2>4, <2>6 DEF JanitorShape
<1>4. CASE ListSuperseded
  <2>1. JanitorShape'
    BY <1>4, SweepOnShape DEF ListSuperseded, JanitorShape, vault
  <2> QED  BY <1>1, <1>4, <2>1 DEF ListSuperseded, Shapes, TableShape, vault, bounds
<1>5. CASE RemoveRunFile
  <2>1. NextSuperseded \in RunIds
    BY <1>5, NextInTodo DEF RemoveRunFile, Shapes, JanitorShape, JanitorStates
  <2>2. TableShape'
    BY <1>1, <1>5, <2>1 DEF RemoveRunFile, Shapes, TableShape, bounds
  <2>3. JanitorShape'
    BY <1>5 DEF RemoveRunFile, Shapes, JanitorShape, JanitorStates
  <2> QED  BY <2>2, <2>3
<1>6. CASE DeleteRunArtifact
  <2> DEFINE rest == janitor.todo \ {NextSuperseded}
  <2>1. rest \in SUBSET aged /\ rest \subseteq aged'
    BY <1>6 DEF DeleteRunArtifact, Shapes, JanitorShape
  <2>2. janitor' = SweepOn(rest)
    BY <1>6 DEF DeleteRunArtifact
  <2> HIDE DEF rest
  <2>3. JanitorShape'
    BY <2>1, <2>2, SweepOnShape DEF JanitorShape
  <2>4. TableShape'
    BY <1>1, <1>6 DEF DeleteRunArtifact, Shapes, TableShape, bounds
  <2> QED  BY <2>3, <2>4
<1> QED  BY <1>3, <1>4, <1>5, <1>6 DEF Sweep

(* Every step keeps the types.                                              *)
LEMMA ShapesStep == Shapes /\ [HistoryNext]_histVars => Shapes'
<1> SUFFICES ASSUME Shapes, [HistoryNext]_histVars  PROVE Shapes'
  OBVIOUS
<1>1. ASSUME NEW i \in RunIds, Age(i)  PROVE Shapes'
  <2>1. TableShape' /\ JanitorShape' /\ AuthorShape'
    BY <1>1 DEF Age, Shapes, TableShape, JanitorShape, AuthorShape, bounds
  <2> QED  BY <1>1, <2>1, EditorsKept DEF Age, Shapes, bounds
<1>2. CASE Die
  <2>1. TableShape'
    BY <1>2, HistoryAssumption DEF Die, Shapes, TableShape, vault
  <2>2. AuthorShape' /\ JanitorShape'
    BY <1>2, HistoryAssumption, EmptyBounded
       DEF Die, AuthorShape, AuthorStates, IdleAuthor, NoRun, JanitorShape, JanitorStates,
           IdleJanitor, Bounded
  <2>3. \A e \in Editors : EditorShape(e)'
    BY <1>2, IdleEditorShape DEF Die, EditorShape, Shapes, TableShape
  <2> QED  BY <1>2, <2>1, <2>2, <2>3 DEF Die, Shapes
<1>3. CASE UNCHANGED histVars
  BY <1>3 DEF histVars, bounds, vault, Shapes, TableShape, AuthorShape, JanitorShape,
              EditorShape
<1> QED
  BY <1>1, <1>2, <1>3, AuthorShapes, EditorShapes, JanitorShapes
     DEF HistoryNext, AuthorStep, EditorStep

(* What a state with these shapes shows                                     *)
LEMMA ShapesAreTypes == Shapes => HistoryTypeOK
<1> SUFFICES ASSUME Shapes  PROVE HistoryTypeOK
  OBVIOUS
<1>1. started \in 0..MaxRuns /\ started \in Nat /\ MaxRuns \in Nat
  BY HistoryAssumption DEF Shapes, TableShape
<1>2. runs \in Copies
  BY <1>1, BoundedIsCopy DEF Shapes, TableShape
<1>3. author.copy \in Copies
  <2>1. CASE author.at = "idle"
    BY <1>1, <2>1, EmptyBounded, BoundedIsCopy DEF Shapes, AuthorShape, IdleAuthor
  <2>2. CASE author.at # "idle"
    <3>1. started - 1 \in 0..MaxRuns /\ Bounded(author.copy, started - 1)
      BY <1>1, <2>2 DEF Shapes, AuthorShape
    <3> QED  BY <3>1, BoundedIsCopy
  <2> QED  BY <2>1, <2>2
<1>4. \A e \in Editors : editor[e].at \in {"idle", "find", "save", "write"}
                         /\ editor[e].copy \in Copies
  BY <1>1, BoundedIsCopy DEF Shapes, EditorShape, EditorStates
<1> QED
  BY <1>1, <1>2, <1>3, <1>4
     DEF HistoryTypeOK, Shapes, TableShape, AuthorShape, AuthorStates, JanitorShape,
         JanitorStates

(* Type correctness: the histories are lists of runs in their order, never  *)
(* longer than the runs begun, whoever writes them back.                    *)
THEOREM HistoryTypesCorrect == HistorySpec => []HistoryTypeOK
<1>1. HistorySpec => []Shapes
  BY ShapesInit, ShapesStep, PTL DEF HistorySpec
<1> QED  BY <1>1, ShapesAreTypes, PTL

-----------------------------------------------------------------------------
(* The outputs of the latest run                                            *)

Current == Latest(runs) \notin revived \cup {NoRun}

(* The janitor's list holds neither the latest run nor the one in progress, *)
(* which is too young.                                                      *)
SweepSafe ==
  /\ author.at # "idle" => author.run \notin aged
  /\ author.at \in {"insert", "write"} => files[author.run] # NoFile
  /\ author.at = "write" => author.run \in artifacts
  /\ Current =>
       /\ Latest(runs) \in artifacts
       /\ files[Latest(runs)] # NoFile
       /\ janitor.at = "list" => Latest(runs) \in janitor.live \/ Latest(runs) \notin aged
       /\ Latest(runs) \notin janitor.todo

(* The latest run is one of those begun.                                    *)
LEMMA LatestIsRun ==
  ASSUME Shapes
  PROVE  Latest(runs) \in Nat /\ (Current => Latest(runs) \in RunIds)
BY InCopy DEF Shapes, TableShape, Bounded, Latest, Current, NoRun

(* The safety of the sweep holds at first.                                  *)
LEMMA SweepSafeInit == HistoryInit => SweepSafe
BY DEF HistoryInit, SweepSafe, IdleAuthor, Current, Latest

(* Every step keeps the sweep safe.                                         *)
LEMMA SweepSafeStep ==
  Shapes /\ SweepSafe /\ [HistoryNext]_histVars => SweepSafe'
<1> SUFFICES ASSUME Shapes, SweepSafe, [HistoryNext]_histVars  PROVE SweepSafe'
  OBVIOUS
<1> USE DEF SweepSafe, Current
<1>0. /\ files \in [RunIds -> Texts \cup {NoFile}]
      /\ aged \subseteq artifacts /\ artifacts \subseteq 1..started
      /\ janitor.todo \subseteq aged /\ started \in Nat
      /\ \A t \in Texts : t # NoFile
  BY HistoryAssumption DEF Shapes, TableShape, JanitorShape, Texts, NoFile
<1>1. CASE BeginRun
  BY <1>0, <1>1 DEF BeginRun, vault
<1>2. CASE SaveRunFile
  <2>1. author.run \in RunIds /\ 0 \in Texts
    BY <1>2, HistoryAssumption DEF SaveRunFile, Shapes, AuthorShape, TableShape, RunIds, Texts
  <2> QED  BY <1>0, <1>2, <2>1, LatestIsRun DEF SaveRunFile, bounds, ghosts
<1>3. CASE InsertRunArtifact
  BY <1>0, <1>3 DEF InsertRunArtifact, bounds, ghosts
<1>4. CASE AppendRun
  <2>1. author.run = started /\ started \in RunIds /\ Bounded(author.copy, started - 1)
    BY <1>4, HistoryAssumption DEF AppendRun, Shapes, AuthorShape, TableShape, RunIds
  <2>2. Latest(runs') = author.run
    BY <1>4, <2>1, AppendBounded DEF AppendRun
  <2> QED  BY <1>0, <1>4, <2>2 DEF AppendRun, IdleAuthor, vault, bounds, ghosts
<1>5. CASE FailRun
  BY <1>5 DEF FailRun, IdleAuthor, vault, bounds, ghosts
<1>6. ASSUME NEW e \in Editors, EditorStep(e)  PROVE SweepSafe'
  <2>1. CASE ReadRuns(e)
    BY <2>1 DEF ReadRuns, vault
  <2>2. CASE FindArtifact(e)
    BY <2>2 DEF FindArtifact, vault, bounds, ghosts
  <2>3. CASE SaveEdit(e)
    <3>1. EditedRun(e) \in RunIds /\ editor[e].text \in Texts
      BY <2>3, EditedIsRun DEF SaveEdit
    <3> QED  BY <1>0, <2>3, <3>1, LatestIsRun DEF SaveEdit, Overwrite, bounds, ghosts
  <2>4. CASE WriteBack(e)
    <3>1. Current' => Latest(runs') = Latest(runs) /\ revived' = revived
      BY <2>4 DEF WriteBack
    <3> QED  BY <2>4, <3>1 DEF WriteBack, vault, bounds
  <2>5. CASE RefuseRest(e)
    BY <2>5 DEF RefuseRest, vault, bounds
  <2>6. CASE EditFails(e)
    <3>1. UNCHANGED <<runs, artifacts, aged, author, janitor, revived>>
          /\ (files' = files \/ (editor[e].at = "save" /\ Overwrite(e)))
      BY <2>6 DEF EditFails
    <3>2. \A i \in RunIds : files[i] # NoFile => files'[i] # NoFile
      <4>1. CASE files' = files
        BY <4>1
      <4>2. CASE editor[e].at = "save" /\ Overwrite(e)
        BY <1>0, <4>2, EditedIsRun DEF Overwrite
      <4> QED  BY <3>1, <4>1, <4>2
    <3>3. author.at # "idle" => author.run \in RunIds
      BY HistoryAssumption DEF Shapes, AuthorShape, TableShape, RunIds
    <3> QED  BY <3>1, <3>2, <3>3, LatestIsRun
  <2> QED  BY <1>6, <2>1, <2>2, <2>3, <2>4, <2>5, <2>6 DEF EditorStep
<1>7. ASSUME NEW i \in RunIds, Age(i)  PROVE SweepSafe'
  BY <1>7 DEF Age, bounds, ghosts
<1>8. CASE CollectLive
  BY <1>8 DEF CollectLive, vault, bounds, ghosts
<1>9. CASE ListSuperseded
  <2>1. janitor'.todo \subseteq aged \ janitor.live /\ janitor'.at # "list"
    BY <1>9, SweepOnShape DEF ListSuperseded
  <2> QED  BY <1>9, <2>1 DEF ListSuperseded, vault, bounds, ghosts
<1>10. CASE RemoveRunFile
  <2>1. NextSuperseded \in janitor.todo /\ NextSuperseded \in RunIds
    BY <1>10, NextInTodo DEF RemoveRunFile, Shapes, JanitorShape, JanitorStates
  <2>2. janitor'.todo = janitor.todo /\ janitor'.at # "list"
    BY <1>10 DEF RemoveRunFile, Shapes, JanitorShape, JanitorStates
  <2> QED  BY <1>0, <1>10, <2>1, <2>2 DEF RemoveRunFile, bounds, ghosts
<1>11. CASE DeleteRunArtifact
  <2>1. NextSuperseded \in janitor.todo
    BY <1>11, NextInTodo DEF DeleteRunArtifact, Shapes
  <2>2. janitor'.todo \subseteq janitor.todo /\ janitor'.at # "list"
    <3> DEFINE rest == janitor.todo \ {NextSuperseded}
    <3>1. rest \in SUBSET aged
      BY <1>0
    <3>2. janitor' = SweepOn(rest)
      BY <1>11 DEF DeleteRunArtifact
    <3>3. SweepOn(rest).todo \subseteq rest /\ SweepOn(rest).at # "list"
      BY <3>1, SweepOnShape
    <3> QED  BY <3>2, <3>3
  <2>3. author.at # "idle" => author.run # NextSuperseded
    BY <1>0, <2>1
  <2> QED  BY <1>0, <1>11, <2>1, <2>2, <2>3 DEF DeleteRunArtifact, bounds, ghosts
<1>12. CASE Die
  BY <1>12 DEF Die, IdleAuthor, IdleJanitor, vault
<1>13. CASE UNCHANGED histVars
  BY <1>13 DEF histVars, vault, bounds, ghosts
<1> QED
  BY <1>1, <1>2, <1>3, <1>4, <1>5, <1>6, <1>7, <1>8, <1>9, <1>10, <1>11, <1>12, <1>13
     DEF HistoryNext, Sweep, EditorStep

(* The latest run's outputs can be read, however edits, runs, sweeps and    *)
(* crashes interleave.                                                      *)
THEOREM LatestStaysReadable == HistorySpec => []LatestReadable
<1>1. HistorySpec => [](Shapes /\ SweepSafe)
  BY ShapesInit, ShapesStep, SweepSafeInit, SweepSafeStep, PTL DEF HistorySpec
<1>2. SweepSafe => LatestReadable
  BY DEF SweepSafe, Current, LatestReadable
<1> QED  BY <1>1, <1>2, PTL

-----------------------------------------------------------------------------
(* Writers that do not overlap                                              *)

Quiet == ~overlapped

(* The previews of c are those of the files that are left, but for the runs *)
(* in T.                                                                    *)
InStep(c, T) ==
  \A k \in 1..Len(c) : c[k].id \notin T => files[c[k].id] \in {c[k].preview, NoFile}

(* c has the runs of the table, in their order.                             *)
SameRuns(c) ==
  /\ Len(c) = Len(runs) /\ Latest(c) = Latest(runs)
  /\ \A k \in 1..Len(c) : c[k].id = runs[k].id

(* The runs whose file may be newer than the preview in the table           *)
Unwritten == torn \cup {EditedRun(e) : e \in Writers}

(* One writer at a time; what it holds is what the table holds, apart from  *)
(* the preview of a file it has overwritten.                                *)
OneWriter ==
  /\ \A d, e \in Editors : editor[d].at # "idle" /\ editor[e].at # "idle" => d = e
  /\ author.at # "idle" =>
       author.copy = runs /\ \A e \in Editors : editor[e].at = "idle"

KeptCopies ==
  /\ author.at \in {"insert", "write"} => files[author.run] \in {0, NoFile}
  /\ \A e \in Editors :
       /\ editor[e].at \in {"find", "save"} => editor[e].copy = runs
       /\ editor[e].at = "write" =>
            SameRuns(editor[e].copy) /\ InStep(editor[e].copy, torn \ {EditedRun(e)})
  /\ InStep(runs, Unwritten)

HistoryInv == Quiet => revived = {} /\ OneWriter /\ KeptCopies

(* The history is kept at first.                                            *)
LEMMA KeptInit == HistoryInit => HistoryInv
BY DEF HistoryInit, HistoryInv, OneWriter, KeptCopies, InStep, IdleAuthor, IdleEditor

(* A step that leaves runs, writers and files alone keeps it.               *)
LEMMA KeptFrame ==
  ASSUME HistoryInv, UNCHANGED <<runs, files, author, editor, overlapped, torn, revived>>
  PROVE  HistoryInv'
BY DEF HistoryInv, Quiet, OneWriter, KeptCopies, InStep, SameRuns, Unwritten, Writers,
       EditedRun, Latest

(* Beside a worker no editor is at work, and what is unwritten is torn.     *)
LEMMA NoWriters ==
  ASSUME \A e \in Editors : editor[e].at # "write"
  PROVE  Unwritten = torn
BY DEF Unwritten, Writers

(* The steps of the worker keep the history.                                *)
LEMMA KeptByAuthor == Shapes /\ HistoryInv /\ AuthorStep => HistoryInv'
<1> SUFFICES ASSUME Shapes, HistoryInv, AuthorStep, Quiet'  PROVE HistoryInv'
  BY DEF HistoryInv
<1>1. /\ Quiet /\ UNCHANGED <<editor, torn, revived>> /\ revived = {}
      /\ OneWriter /\ KeptCopies /\ Unwritten' = Unwritten
  <2>1. UNCHANGED <<editor, torn, revived>> /\ Unwritten' = Unwritten
    BY DEF AuthorStep, BeginRun, SaveRunFile, InsertRunArtifact, AppendRun, FailRun,
           ghosts, Unwritten, Writers, EditedRun
  <2>2. CASE BeginRun
    <3>1. overlapped => overlapped'
      BY <2>2, Zenon DEF BeginRun
    <3> QED  BY <2>1, <3>1 DEF HistoryInv, Quiet
  <2>3. CASE ~BeginRun
    BY <2>1, <2>3 DEF AuthorStep, SaveRunFile, InsertRunArtifact, AppendRun, FailRun,
                      ghosts, HistoryInv, Quiet
  <2> QED  BY <2>2, <2>3
<1>2. files \in [RunIds -> Texts \cup {NoFile}] /\ 0 \in Texts
  BY HistoryAssumption DEF Shapes, TableShape, Texts
<1>3. CASE BeginRun
  <2>1. ~EditorsBusy /\ runs' = runs /\ files' = files
        /\ author'.copy = runs /\ author'.at = "save"
    BY <1>3 DEF BeginRun, Quiet, vault
  <2>2. OneWriter'
    BY <1>1, <2>1 DEF OneWriter, EditorsBusy
  <2>3. KeptCopies'
    BY <1>1, <2>1 DEF KeptCopies, InStep, SameRuns, EditedRun, Latest
  <2> QED  BY <1>1, <2>2, <2>3 DEF HistoryInv
<1>4. CASE SaveRunFile
  <2>1. /\ author.copy = runs /\ author.run = started /\ started \in RunIds
        /\ Bounded(author.copy, started - 1)
        /\ \A e \in Editors : editor[e].at = "idle"
    BY <1>1, <1>4, HistoryAssumption
       DEF SaveRunFile, OneWriter, Shapes, AuthorShape, TableShape, RunIds
  <2>2. /\ files' = [files EXCEPT ![started] = 0] /\ runs' = runs
        /\ author'.at = "insert" /\ author'.run = started /\ author'.copy = runs
    BY <1>4, <2>1 DEF SaveRunFile, Shapes, AuthorShape, AuthorStates
  <2>3. \A k \in 1..Len(runs) : runs[k].id \in RunIds /\ runs[k].id # started
    BY <2>1, InCopy, HistoryAssumption DEF Bounded, RunIds
  <2>4. OneWriter'
    BY <1>1, <2>1, <2>2 DEF OneWriter
  <2>5. InStep(runs, Unwritten)
    BY <1>1 DEF KeptCopies
  <2>6. InStep(runs, Unwritten)'
    BY <1>1, <1>2, <2>2, <2>3, <2>5 DEF InStep
  <2>7. files'[started] = 0
    BY <1>2, <2>1, <2>2
  <2>8. KeptCopies'
    BY <1>1, <2>1, <2>2, <2>6, <2>7 DEF KeptCopies
  <2> QED  BY <1>1, <2>4, <2>8 DEF HistoryInv
<1>5. CASE InsertRunArtifact
  <2>1. /\ files' = files /\ runs' = runs /\ author.at = "insert"
        /\ author'.run = author.run /\ author'.copy = author.copy /\ author'.at = "write"
    BY <1>5 DEF InsertRunArtifact, Shapes, AuthorShape, AuthorStates
  <2>2. OneWriter'
    BY <1>1, <2>1 DEF OneWriter
  <2>3. KeptCopies'
    BY <1>1, <2>1 DEF KeptCopies, InStep, SameRuns, EditedRun, Latest
  <2> QED  BY <1>1, <2>2, <2>3 DEF HistoryInv
<1>6. CASE AppendRun
  <2> DEFINE r == [id |-> author.run, preview |-> 0]
  <2>1. /\ author.copy = runs /\ files[author.run] \in {0, NoFile}
        /\ \A e \in Editors : editor[e].at = "idle"
    BY <1>1, <1>6 DEF AppendRun, OneWriter, KeptCopies
  <2>2. /\ runs \in Seq(Entry) /\ r \in Entry /\ author.run \in RunIds
    BY <1>2, <1>6, HistoryAssumption
       DEF AppendRun, Shapes, AuthorShape, TableShape, Bounded, RunIds, Entry
  <2>3. r.id = author.run /\ r.preview = 0
    OBVIOUS
  <2>4. runs' = Append(runs, r) /\ files' = files /\ author'.at = "idle"
    BY <1>6, <2>1 DEF AppendRun, IdleAuthor, vault
  <2> HIDE DEF r
  <2>5. InStep(runs, Unwritten)
    BY <1>1 DEF KeptCopies
  <2>6. InStep(runs, Unwritten)'
    <3>1. Len(runs) \in Nat /\ Len(runs') = Len(runs) + 1 /\ runs'[Len(runs) + 1] = r
          /\ \A k \in 1..Len(runs) : runs'[k] = runs[k]
      BY <2>2, <2>4
    <3>2. \A k \in 1..Len(runs') : k \in 1..Len(runs) \/ k = Len(runs) + 1
      BY <3>1
    <3> QED  BY <1>1, <2>1, <2>3, <2>4, <2>5, <3>1, <3>2 DEF InStep
  <2>7. OneWriter' /\ KeptCopies'
    BY <1>1, <2>1, <2>4, <2>6 DEF OneWriter, KeptCopies
  <2> QED  BY <1>1, <2>7 DEF HistoryInv
<1>7. CASE FailRun
  <2>1. author'.at = "idle" /\ runs' = runs /\ files' = files
    BY <1>7 DEF FailRun, IdleAuthor, vault
  <2>2. OneWriter'
    BY <1>1, <2>1 DEF OneWriter
  <2>3. KeptCopies'
    BY <1>1, <2>1 DEF KeptCopies, InStep, SameRuns, EditedRun, Latest
  <2> QED  BY <1>1, <2>2, <2>3 DEF HistoryInv
<1> QED  BY <1>3, <1>4, <1>5, <1>6, <1>7 DEF AuthorStep

(* The steps of an editor keep the history.                                 *)
LEMMA KeptByEditor ==
  \A e \in Editors : Shapes /\ HistoryInv /\ EditorStep(e) => HistoryInv'
<1> SUFFICES ASSUME NEW e \in Editors, Shapes, HistoryInv, EditorStep(e), Quiet'
             PROVE  HistoryInv'
  BY DEF HistoryInv
<1>0. /\ editor = [d \in Editors |-> editor[d]] /\ DOMAIN editor = Editors
      /\ files \in [RunIds -> Texts \cup {NoFile}]
      /\ IdleEditor.at = "idle"
  BY DEF Shapes, TableShape, IdleEditor
<1>1. CASE ReadRuns(e)
  <2>1. overlapped => overlapped'
    BY <1>1, Zenon DEF ReadRuns
  <2>2. Quiet /\ revived' = revived /\ revived = {} /\ OneWriter /\ KeptCopies
    BY <1>1, <2>1 DEF ReadRuns, HistoryInv, Quiet
  <2>3. ~EditorsBusy /\ author.at = "idle"
    BY <1>1, Zenon DEF ReadRuns, Quiet
  <2>4. PICK k \in DOMAIN runs :
          editor' = [editor EXCEPT ![e] =
            [at |-> "find", copy |-> runs, run |-> k, text |-> edits + 1]]
    BY <1>1 DEF ReadRuns
  <2>5. /\ editor'[e].at = "find" /\ editor'[e].copy = runs
        /\ \A d \in Editors : d # e => editor'[d] = editor[d] /\ editor[d].at = "idle"
    BY <1>0, <2>3, <2>4 DEF EditorsBusy
  <2>6. UNCHANGED <<runs, files, author, torn>>
    BY <1>1 DEF ReadRuns, vault
  <2>7. OneWriter'
    BY <2>3, <2>5, <2>6 DEF OneWriter
  <2>8. Unwritten = torn /\ Unwritten' = torn'
    BY <2>3, <2>5, NoWriters DEF EditorsBusy, Unwritten, Writers
  <2>9. InStep(runs, Unwritten)'
    BY <2>2, <2>6, <2>8 DEF KeptCopies, InStep
  <2>10. KeptCopies'
    BY <2>3, <2>5, <2>6, <2>9 DEF KeptCopies
  <2> QED  BY <2>2, <2>7, <2>10 DEF HistoryInv
<1>2. ASSUME editor[e].at # "idle", UNCHANGED <<author, overlapped>>,
             \A d \in Editors : d # e => editor'[d] = editor[d]
      PROVE  /\ revived = {} /\ KeptCopies /\ author'.at = "idle" /\ OneWriter'
             /\ \A d \in Editors : d # e => editor[d].at = "idle" /\ editor'[d].at = "idle"
             /\ Writers = IF editor[e].at = "write" THEN {e} ELSE {}
             /\ Writers' = IF editor'[e].at = "write" THEN {e} ELSE {}
  <2>1. revived = {} /\ OneWriter /\ KeptCopies
    BY <1>2 DEF HistoryInv, Quiet
  <2>2. author.at = "idle" /\ \A d \in Editors : d # e => editor[d].at = "idle"
    BY <1>2, <2>1 DEF OneWriter
  <2> QED  BY <1>2, <2>1, <2>2 DEF OneWriter, Writers
(* an editor that ends without a word to the table                          *)
<1>3. ASSUME editor[e].at # "idle", editor'[e].at = "idle",
             UNCHANGED <<runs, author, overlapped, revived>>,
             \A d \in Editors : d # e => editor'[d] = editor[d],
             \A i \in RunIds : i \notin torn' => i \notin Unwritten /\ files'[i] = files[i]
      PROVE  HistoryInv'
  <2>1. /\ revived = {} /\ KeptCopies /\ author'.at = "idle" /\ OneWriter' /\ Writers' = {}
        /\ \A d \in Editors : d # e => editor'[d].at = "idle"
    BY <1>2, <1>3
  <2>2. Unwritten' = torn'
    BY <2>1 DEF Unwritten
  <2>3. Bounded(runs, started)
    BY DEF Shapes, TableShape
  <2>4. InStep(runs, Unwritten)'
    BY <1>3, <2>1, <2>2, <2>3, InCopy DEF KeptCopies, InStep, Bounded
  <2>5. KeptCopies'
    BY <1>3, <2>1, <2>4 DEF KeptCopies
  <2> QED  BY <1>3, <2>1, <2>5 DEF HistoryInv
<1>4. CASE FindArtifact(e)
  <2>1. /\ editor[e].at = "find" /\ UNCHANGED <<runs, files, torn, revived>>
        /\ UNCHANGED <<author, overlapped>>
        /\ \A d \in Editors : d # e => editor'[d] = editor[d]
    BY <1>0, <1>4 DEF FindArtifact, vault, ghosts
  <2>2. editor'[e].at \in {"save", "idle"}
        /\ (editor'[e].at = "save" => editor'[e].copy = editor[e].copy)
    BY <1>0, <1>4 DEF FindArtifact, Shapes, EditorShape, EditorStates
  <2>3. /\ revived = {} /\ KeptCopies /\ author'.at = "idle" /\ OneWriter'
        /\ \A d \in Editors : d # e => editor'[d].at = "idle"
        /\ Writers = {} /\ Writers' = {}
    BY <1>2, <2>1, <2>2
  <2>4. Unwritten = torn /\ Unwritten' = torn'
    BY <2>3 DEF Unwritten
  <2>5. editor[e].copy = runs /\ InStep(runs, Unwritten)
    BY <2>1, <2>3 DEF KeptCopies
  <2>6. InStep(runs, Unwritten)'
    BY <2>1, <2>4, <2>5 DEF InStep
  <2>7. KeptCopies'
    BY <2>1, <2>2, <2>3, <2>5, <2>6 DEF KeptCopies
  <2> QED  BY <2>1, <2>3, <2>7 DEF HistoryInv
<1>5. CASE SaveEdit(e)
  <2> DEFINE c == editor[e].copy
             d == Refreshed(e)
  <2>1. /\ editor[e].at = "save" /\ UNCHANGED <<runs, torn, revived>>
        /\ files' = [files EXCEPT ![EditedRun(e)] = editor[e].text]
        /\ UNCHANGED <<author, overlapped>>
        /\ \A a \in Editors : a # e => editor'[a] = editor[a]
    BY <1>0, <1>5 DEF SaveEdit, Overwrite, ghosts
  <2>2. editor'[e].at = "write" /\ editor'[e].copy = d /\ editor'[e].run = editor[e].run
    BY <1>0, <1>5 DEF SaveEdit, Shapes, EditorShape, EditorStates
  <2>3. /\ revived = {} /\ KeptCopies /\ author'.at = "idle" /\ OneWriter'
        /\ \A a \in Editors : a # e => editor'[a].at = "idle"
        /\ Writers = {} /\ Writers' = {e}
    BY <1>2, <2>1, <2>2
  <2>4. c = runs /\ InStep(c, torn)
    <3>1. Unwritten = torn
      BY <2>3 DEF Unwritten
    <3> QED  BY <2>1, <2>3, <3>1 DEF KeptCopies
  <2>5. /\ Latest(d) = Latest(c) /\ Len(d) = Len(c)
        /\ \A j \in 1..Len(c) :
             /\ d[j].id = c[j].id
             /\ d[j].preview = IF j = editor[e].run THEN editor[e].text ELSE c[j].preview
    BY <2>1, RefreshedCopy
  <2>6. /\ EditedRun(e) \in RunIds /\ editor[e].run \in 1..Len(c)
        /\ EditedRun(e) = c[editor[e].run].id
    BY <2>1, EditedIsRun DEF EditedRun
  <2>7. EditedRun(e)' = EditedRun(e)
    BY <2>2, <2>5, <2>6 DEF EditedRun
  <2>8. /\ \A j \in 1..Len(c) : c[j].id \in RunIds
        /\ \A j \in 1..Len(c) : j # editor[e].run => c[j].id # EditedRun(e)
    <3>1. Bounded(c, started)
      BY DEF Shapes, EditorShape
    <3> HIDE DEF c
    <3> QED  BY <2>6, <3>1, InCopy DEF Bounded
  <2> HIDE DEF c, d
  <2>9. \A j \in 1..Len(d) :
          d[j].id \notin torn \ {EditedRun(e)} => files'[d[j].id] \in {d[j].preview, NoFile}
    BY <1>0, <2>1, <2>4, <2>5, <2>6, <2>8 DEF InStep
  <2>10. SameRuns(editor[e].copy)' /\ InStep(editor[e].copy, torn \ {EditedRun(e)})'
    <3>1. Latest(runs') = Latest(runs)
      BY <2>1
    <3> QED  BY <2>1, <2>2, <2>4, <2>5, <2>7, <2>9, <3>1 DEF SameRuns, InStep, Latest
  <2>11. InStep(runs, Unwritten)'
    <3>1. Unwritten' = torn \cup {EditedRun(e)}
      BY <2>1, <2>3, <2>7 DEF Unwritten
    <3> QED  BY <1>0, <2>1, <2>4, <2>8, <3>1 DEF InStep
  <2>12. KeptCopies'
    BY <2>2, <2>3, <2>10, <2>11 DEF KeptCopies
  <2> QED  BY <2>1, <2>3, <2>12 DEF HistoryInv
<1>6. CASE WriteBack(e)
  <2>1. /\ editor[e].at = "write" /\ runs' = editor[e].copy /\ files' = files
        /\ UNCHANGED <<author, overlapped>> /\ editor'[e].at = "idle"
        /\ torn' = torn \ {EditedRun(e)}
        /\ \A d \in Editors : d # e => editor'[d] = editor[d]
    BY <1>0, <1>6 DEF WriteBack, vault
  <2>2. /\ revived = {} /\ KeptCopies /\ author'.at = "idle" /\ OneWriter'
        /\ \A d \in Editors : d # e => editor'[d].at = "idle"
        /\ Writers' = {}
    BY <1>2, <2>1
  <2>3. SameRuns(editor[e].copy) /\ InStep(editor[e].copy, torn \ {EditedRun(e)})
    BY <2>1, <2>2 DEF KeptCopies
  <2>4. revived' = revived
    BY <1>6, <2>1, <2>3 DEF WriteBack, SameRuns
  <2>5. InStep(runs, Unwritten)'
    <3>1. Unwritten' = torn \ {EditedRun(e)}
      BY <2>1, <2>2 DEF Unwritten
    <3> QED  BY <2>1, <2>3, <3>1 DEF InStep
  <2>6. KeptCopies'
    BY <2>1, <2>2, <2>5 DEF KeptCopies
  <2> QED  BY <2>2, <2>4, <2>6 DEF HistoryInv
<1>7. ASSUME editor[e].at # "idle", UNCHANGED <<author, overlapped>>,
             \A d \in Editors : d # e => editor'[d] = editor[d]
      PROVE  Unwritten \subseteq torn \cup {EditedRun(e)}
             /\ (editor[e].at # "write" => Unwritten = torn)
  BY <1>2, <1>7 DEF Unwritten
<1>8. CASE RefuseRest(e)
  <2>1. /\ editor[e].at = "write" /\ editor'[e].at = "idle"
        /\ UNCHANGED <<runs, files, author, overlapped, revived>>
        /\ torn' = torn \cup {EditedRun(e)}
        /\ \A d \in Editors : d # e => editor'[d] = editor[d]
    BY <1>0, <1>8 DEF RefuseRest, Tear, vault
  <2>2. Unwritten \subseteq torn'
    BY <1>7, <2>1
  <2> QED  BY <1>3, <2>1, <2>2
<1>9. CASE EditFails(e)
  <2>1. /\ editor[e].at # "idle" /\ editor'[e].at = "idle"
        /\ UNCHANGED <<runs, author, overlapped, revived>>
        /\ \A d \in Editors : d # e => editor'[d] = editor[d]
    BY <1>0, <1>9 DEF EditFails
  <2>2. \/ editor[e].at # "write" /\ UNCHANGED <<files, torn>>
        \/ /\ files' = [files EXCEPT ![EditedRun(e)] = editor[e].text] \/ files' = files
           /\ torn' = torn \cup {EditedRun(e)}
    BY <1>9 DEF EditFails, Overwrite, Tear
  <2>3. Unwritten \subseteq torn'
    BY <1>7, <2>1, <2>2
  <2>4. \A i \in RunIds : i \notin torn' => files'[i] = files[i]
    BY <1>0, <2>2
  <2> QED  BY <1>3, <2>1, <2>3, <2>4
<1> QED  BY <1>1, <1>4, <1>5, <1>6, <1>8, <1>9 DEF EditorStep

(* The removal of a file keeps the history: what is gone is not compared.   *)
LEMMA KeptByRemoval == Shapes /\ HistoryInv /\ RemoveRunFile => HistoryInv'
<1> SUFFICES ASSUME Shapes, HistoryInv, RemoveRunFile  PROVE HistoryInv'
  OBVIOUS
<1>1. /\ files' = [files EXCEPT ![NextSuperseded] = NoFile]
      /\ UNCHANGED <<runs, author, editor, overlapped, torn, revived>>
  BY DEF RemoveRunFile, ghosts
<1>2. \A i \in RunIds : files'[i] \in {files[i], NoFile}
  BY <1>1 DEF Shapes, TableShape
<1>3. ASSUME NEW T, NEW c, Bounded(c, started), InStep(c, T)
      PROVE  \A k \in 1..Len(c) :
               c[k].id \notin T => files'[c[k].id] \in {c[k].preview, NoFile}
  BY <1>2, <1>3, InCopy DEF Bounded, InStep
<1>4. Unwritten' = Unwritten /\ \A e \in Editors : EditedRun(e)' = EditedRun(e)
  BY <1>1 DEF Unwritten, Writers, EditedRun
<1>5. InStep(runs, Unwritten) => InStep(runs, Unwritten)'
  BY <1>1, <1>3, <1>4 DEF Shapes, TableShape, InStep
<1>6. ASSUME NEW e \in Editors
      PROVE  /\ InStep(editor[e].copy, torn \ {EditedRun(e)}) =>
                  InStep(editor[e].copy, torn \ {EditedRun(e)})'
             /\ SameRuns(editor[e].copy) => SameRuns(editor[e].copy)'
  <2>1. Bounded(editor[e].copy, started)
    BY DEF Shapes, EditorShape
  <2>2. EditedRun(e)' = EditedRun(e)
    BY <1>4
  <2> QED  BY <1>1, <1>3, <2>1, <2>2 DEF InStep, SameRuns, Latest
<1>7. author.at # "idle" => author.run \in RunIds
  BY HistoryAssumption DEF Shapes, AuthorShape, TableShape, RunIds
<1>8. Quiet /\ KeptCopies => KeptCopies'
  BY <1>1, <1>2, <1>5, <1>6, <1>7 DEF KeptCopies
<1> QED  BY <1>1, <1>8 DEF HistoryInv, Quiet, OneWriter

(* A crash keeps the history: what was overwritten and not written back is  *)
(* known as torn.                                                           *)
LEMMA KeptByDie == Shapes /\ HistoryInv /\ Die => HistoryInv'
<1> SUFFICES ASSUME Shapes, HistoryInv, Die, Quiet'  PROVE HistoryInv'
  BY DEF HistoryInv
<1>1. /\ UNCHANGED <<runs, files, overlapped, revived>> /\ author'.at = "idle"
      /\ \A e \in Editors : editor'[e].at = "idle"
      /\ torn' = Unwritten
  BY DEF Die, vault, IdleAuthor, IdleEditor, Unwritten
<1>2. revived = {} /\ OneWriter /\ KeptCopies
  BY <1>1 DEF HistoryInv, Quiet
<1>3. Unwritten' = Unwritten
  BY <1>1 DEF Unwritten, Writers
<1>4. InStep(runs, Unwritten)'
  BY <1>1, <1>2, <1>3 DEF KeptCopies, InStep
<1> QED  BY <1>1, <1>2, <1>4 DEF HistoryInv, OneWriter, KeptCopies

(* Every step keeps the history.                                            *)
LEMMA KeptStep == Shapes /\ HistoryInv /\ [HistoryNext]_histVars => HistoryInv'
<1> SUFFICES ASSUME Shapes, HistoryInv, [HistoryNext]_histVars  PROVE HistoryInv'
  OBVIOUS
<1>1. CASE AuthorStep
  BY <1>1, KeptByAuthor
<1>2. ASSUME NEW e \in Editors, EditorStep(e)  PROVE HistoryInv'
  BY <1>2, KeptByEditor
<1>3. ASSUME NEW i \in RunIds, Age(i)  PROVE HistoryInv'
  BY <1>3, KeptFrame DEF Age, bounds, ghosts
<1>4. CASE CollectLive \/ ListSuperseded \/ DeleteRunArtifact
  BY <1>4, KeptFrame
     DEF CollectLive, ListSuperseded, DeleteRunArtifact, vault, bounds, ghosts
<1>5. CASE RemoveRunFile
  BY <1>5, KeptByRemoval
<1>6. CASE Die
  BY <1>6, KeptByDie
<1>7. CASE UNCHANGED histVars
  BY <1>7, KeptFrame DEF histVars, vault, bounds, ghosts
<1> QED
  BY <1>1, <1>2, <1>3, <1>4, <1>5, <1>6, <1>7 DEF HistoryNext, AuthorStep, EditorStep, Sweep

(* Writers that do not overlap keep every run, and its preview unless the   *)
(* last edit of the run was refused, failed or died behind the file, beside *)
(* the janitor and with any number of runs, edits, faults and crashes.      *)
THEOREM HistoryStaysKept == HistorySpec => []HistoryKept
<1>1. HistorySpec => [](Shapes /\ HistoryInv)
  BY ShapesInit, ShapesStep, KeptInit, KeptStep, PTL DEF HistorySpec
<1>2. Shapes /\ HistoryInv => HistoryKept
  <2> SUFFICES ASSUME Shapes, HistoryInv, Quiet,
                      \A e \in Editors : editor[e].at \in {"idle", "find"}
               PROVE  /\ revived = {}
                      /\ \A k \in DOMAIN runs :
                           runs[k].id \notin torn =>
                             files[runs[k].id] \in {runs[k].preview, NoFile}
    BY DEF HistoryKept, Quiet
  <2>1. revived = {} /\ InStep(runs, torn)
    <3>1. Unwritten = torn
      BY NoWriters
    <3> QED  BY <3>1 DEF HistoryInv, KeptCopies
  <2>2. DOMAIN runs = 1..Len(runs)
    BY InCopy DEF Shapes, TableShape, Bounded
  <2> QED  BY <2>1, <2>2 DEF InStep
<1> QED  BY <1>1, <1>2, PTL
=============================================================================
