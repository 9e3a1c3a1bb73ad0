------------------------------- MODULE Pages -------------------------------
(***************************************************************************)
(* Lists read page by page while rows come and go: documents, jobs and     *)
(* artifacts by a keyset cursor (store/postgres), a search by an offset    *)
(* into the index (listDocuments, api/rest/documents.go), chats by the id  *)
(* of the last one shown (listChats, api/rest/chat.go).  A walk asks for   *)
(* pages with the token of the page before until there is none.            *)
(*                                                                         *)
(* Rows are numbered in the order of (created_at, id).  A title is a       *)
(* number, 0 for none; every other title sorts after a timestamp, which is *)
(* the sort key of the tokens in every mode.                               *)
(***************************************************************************)
EXTENDS Naturals, FiniteSets

CONSTANTS
  NumRows,       \* rows in all
  NumAtStart,    \* rows there at first; the others are inserted in order
  Title,         \* Title[r]
  PageSize,
  MaxPages,      \* bound: pages of a walk
  MaxChanges     \* bound: rows inserted or deleted during it

Rows == 1..NumRows
AtStart == 1..NumAtStart

ASSUME PagesAssumption ==
  /\ NumRows \in Nat /\ NumAtStart \in 0..NumRows
  /\ Title \in [Rows -> Nat]
  /\ PageSize \in Nat \ {0} /\ MaxPages \in Nat /\ MaxChanges \in Nat

VARIABLES
  present,    \* the rows of the table
  inserted,   \* the number of the last row inserted
  indexed,    \* the hits of the search in the index, which lags behind
  sort,       \* the walk's mode
  token,      \* [kind, at]: no token yet, a row's key, an offset, or the end
  shown,      \* shown[r]: how many times the walk has shown the row
  pages,      \* pages shown
  held,       \* rows (of the search: hits) that were there all the time
  changes,    \* rows inserted and deleted
  disturbed   \* see WalkOnce

pageVars == <<present, inserted, indexed, sort, token, shown, pages, held, changes, disturbed>>

Sorts == {"created_asc", "created_desc", "title_asc", "title_desc", "chats", "search"}
Token(kind, at) == [kind |-> kind, at |-> at]
FirstPage == Token("none", 0)
TheEnd == Token("end", 0)

ShownRows == {r \in Rows : shown[r] > 0}

PagesTypeOK ==
  /\ inserted \in 0..NumRows /\ present \subseteq 1..inserted /\ indexed \subseteq 1..inserted
  /\ sort \in Sorts
  /\ token.kind \in {"none", "key", "offset", "end"} /\ token.at \in Nat
  /\ token.kind = "key" => token.at \in ShownRows
  /\ token.kind # "none" <=> pages > 0
  /\ pages \in 0..MaxPages
  /\ shown \in [Rows -> 0..pages] /\ Cardinality(ShownRows) <= pages * PageSize
  /\ held \subseteq present
  /\ changes \in 0..MaxChanges
  /\ disturbed \in BOOLEAN

PagesInit ==
  /\ present = AtStart /\ inserted = NumAtStart /\ indexed = AtStart
  /\ sort \in Sorts
  /\ token = FirstPage
  /\ shown = [r \in Rows |-> 0] /\ pages = 0
  /\ held = AtStart
  /\ changes = 0
  /\ disturbed = FALSE

-----------------------------------------------------------------------------
TitleUp(r, q) == Title[r] < Title[q] \/ (Title[r] = Title[q] /\ r < q)

(* ORDER BY                                                                 *)
Before(r, q) ==
  CASE sort \in {"created_desc", "chats"} -> r > q
    [] sort = "title_asc" -> TitleUp(r, q)
    [] sort = "title_desc" -> TitleUp(q, r)
    [] OTHER -> r < q

AfterTimestamp(r) == Title[r] > 0

(* Mutation: the row of the cursor is included.                             *)
CursorIncluded(r) ==
  \/ token.kind = "none"
  \/ sort = "created_asc" /\ r >= token.at
  \/ sort \in {"created_desc", "chats"} /\ r <= token.at
  \/ sort = "title_asc" /\ AfterTimestamp(r)
  \/ sort = "title_desc" /\ ~AfterTimestamp(r)

(* WHERE (sort key, id) > or < the cursor's                                 *)
PastCursor(r) ==
  \/ token.kind = "none"
  \/ sort = "created_asc" /\ r > token.at
  \/ sort \in {"created_desc", "chats"} /\ r < token.at
  \/ sort = "title_asc" /\ AfterTimestamp(r)
  \/ sort = "title_desc" /\ ~AfterTimestamp(r)

Show(page, next) ==
  /\ token.kind # "end" /\ pages < MaxPages
  /\ shown' = [r \in Rows |-> IF r \in page THEN shown[r] + 1 ELSE shown[r]]
  /\ pages' = pages + 1
  /\ token' = next
  /\ UNCHANGED <<present, inserted, indexed, sort, held, changes>>

(* the number of rows before this one                                       *)
Rank(r, rows) == Cardinality({q \in rows : Before(q, r)})

(* Mutation: the extra row is shown too.                                    *)
FirstOfAndExtra(rows) == {r \in rows : Rank(r, rows) <= PageSize}

FirstOf(rows) == {r \in rows : Rank(r, rows) < PageSize}

(* Mutation: the cursor is the row read to see whether there are more.      *)
NextTokenTooFar(rows) ==
  IF Cardinality(rows) > PageSize
  THEN Token("key", CHOOSE r \in rows : Rank(r, rows) = PageSize) ELSE TheEnd

LastOf(page) == CHOOSE r \in page : \A q \in page \ {r} : Before(q, r)

(* LIMIT pageSize + 1: the extra row says that there are more               *)
NextToken(rows) ==
  IF Cardinality(rows) > PageSize THEN Token("key", LastOf(FirstOf(rows))) ELSE TheEnd

ShowFirstOf(rows) == Show(FirstOf(rows), NextToken(rows))

(* ListPaginated                                                            *)
ListPage ==
  /\ sort \notin {"chats", "search"}
  /\ ShowFirstOf({r \in present : PastCursor(r)})
  /\ UNCHANGED disturbed

(* listChats cuts the list behind the chat of the token; when that chat was *)
(* deleted the list starts again                                            *)
ListChats ==
  /\ sort = "chats"
  /\ LET gone == token.kind = "key" /\ token.at \notin present
     IN  /\ ShowFirstOf({r \in present : gone \/ PastCursor(r)})
         /\ disturbed' = (disturbed \/ gone)

(* the hits that are better than this one                                   *)
HitRank(r) == Cardinality({q \in indexed : q > r})

(* from and size of the search                                              *)
HitsFrom(from) == {r \in indexed : from <= HitRank(r) /\ HitRank(r) < from + PageSize}

(* a keyset token, left by a search that failed, is no offset               *)
SearchFrom == IF token.kind = "offset" THEN token.at ELSE 0

NextOffset ==
  IF SearchFrom + PageSize < Cardinality(indexed)
  THEN Token("offset", SearchFrom + PageSize) ELSE TheEnd

(* the hits of the page, without those that are not in the table            *)
SearchPage ==
  /\ sort = "search"
  /\ LET hits == HitsFrom(SearchFrom)
     IN  Show(hits \cap present, IF hits = {} THEN TheEnd ELSE NextOffset)
  /\ UNCHANGED disturbed

(* the search fails: all documents are listed, an offset token reads as an  *)
(* empty cursor, and the next token is a key                                *)
SearchFails ==
  /\ sort = "search"
  /\ ShowFirstOf({r \in present : token.kind = "key" => r > token.at})
  /\ disturbed' = TRUE

-----------------------------------------------------------------------------
Change == token.kind # "end" /\ changes < MaxChanges /\ changes' = changes + 1

(* the index follows an insert or a delete now or never                     *)
InsertPageRow ==
  /\ Change
  /\ inserted < NumRows /\ inserted' = inserted + 1
  /\ present' = present \cup {inserted'}
  /\ \/ indexed' = indexed \cup {inserted'} /\ disturbed' = (disturbed \/ sort = "search")
     \/ UNCHANGED <<indexed, disturbed>>
  /\ UNCHANGED <<sort, token, shown, pages, held>>

DeletePageRow(r) ==
  /\ Change
  /\ r \in present
  /\ present' = present \ {r}
  /\ held' = held \ {r}
  /\ \/ indexed' = indexed \ {r} /\ disturbed' = (disturbed \/ sort = "search")
     \/ UNCHANGED <<indexed, disturbed>>
  /\ UNCHANGED <<inserted, sort, token, shown, pages>>

PagesNext ==
  \/ ListPage \/ ListChats \/ SearchPage \/ SearchFails
  \/ InsertPageRow
  \/ \E r \in Rows : DeletePageRow(r)

PagesSpec == PagesInit /\ [][PagesNext]_pageVars

-----------------------------------------------------------------------------
(* Properties                                                               *)

TitleSort == sort \in {"title_asc", "title_desc"}

(* A walk to the end shows every row that was there all the time, whatever  *)
(* is inserted or deleted meanwhile (the janitor and CollectStageDataBatch  *)
(* rely on it).  A search is exact only while the index stands still, and   *)
(* sorting by title, whose token carries a time, is exact on one page       *)
(* (pagination.go:36).                                                      *)
WalkComplete ==
  (token.kind = "end" /\ ~(TitleSort /\ pages > 1) /\ ~(sort = "search" /\ disturbed)) =>
    held \subseteq ShownRows

(* And shows no row twice.  Deleting the chat of the token starts the list  *)
(* again.                                                                   *)
WalkOnce ==
  ~TitleSort /\ ~disturbed => \A r \in Rows : shown[r] <= 1
=============================================================================
