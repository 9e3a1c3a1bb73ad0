-------------------------- MODULE RetrievalProofs --------------------------
(***************************************************************************)
(* Proofs about the ways to find documents:                                *)
(*   Pages: a walk through a list or a search misses nothing;              *)
(*   IndexQueue: the cycles that keep the index the searches read, and who *)
(*     is never indexed;                                                   *)
(*   Chunking: the chunks that the vector store is given carry the text.   *)
(* The components share no state, and each part stands alone.              *)
(***************************************************************************)
EXTENDS IndexQueue, Pages, Chunking, FiniteSetTheorems, SequenceTheorems,
        WellFoundedInduction, TLAPS


(* Every set of numbers has a least one.                                    *)
LEMMA LeastNumber ==
  ASSUME NEW T, T \subseteq Nat, T # {}
  PROVE  \E i \in T : \A j \in T : i <= j
<1> DEFINE UpTo == {0..i : i \in T}
           R == StrictSubsetOrdering(Nat)
<1>1. UpTo \subseteq FiniteSubsetsOf(Nat) /\ UpTo # {}
  <2>1. \A i \in Nat : IsFiniteSet(0..i) /\ 0..i \subseteq Nat
    BY FS_Interval
  <2> QED  BY <2>1 DEF FiniteSubsetsOf
<1>2. IsWellFoundedOn(R, FiniteSubsetsOf(Nat))
  BY FS_StrictSubsetOrderingWellFounded
<1> HIDE DEF R
<1>3. \E x \in UpTo : \A y \in UpTo : ~(<<y, x>> \in R)
  <2> HIDE DEF UpTo
  <2> QED  BY <1>1, <1>2, WFMin
<1>4. PICK i \in T : \A j \in T : ~(<<0..j, 0..i>> \in R)
  BY <1>3
<1>5. ASSUME NEW j \in T, j < i  PROVE FALSE
  <2>1. i \in Nat /\ j \in Nat
    OBVIOUS
  <2>2. 0..j \subseteq 0..i /\ i \in 0..i /\ i \notin 0..j
    BY <1>5, <2>1
  <2>3. <<0..j, 0..i>> \in R
    BY <2>1, <2>2 DEF R, StrictSubsetOrdering
  <2> QED  BY <1>4, <2>3
<1> QED  BY <1>5

-----------------------------------------------------------------------------
(***************************************************************************)
(* Pages                                                                   *)
(***************************************************************************)

(* The order of a list, and its pages                                       *)

(* A list is in a strict and total order, whatever it is sorted by.         *)
LEMMA BeforeOrders ==
  ASSUME NEW r \in Rows, NEW q \in Rows
  PROVE  /\ ~Before(r, r)
         /\ r # q => Before(r, q) \/ Before(q, r)
         /\ \A p \in Rows : Before(r, q) /\ Before(q, p) => Before(r, p)
<1>1. /\ Title \in [Rows -> Nat]
      /\ Rows \subseteq Nat
  BY PagesAssumption DEF Rows
<1> QED  BY <1>1 DEF Before, TitleUp

(* The sets of rows are finite.                                             *)
LEMMA RowsFinite ==
  ASSUME NEW rows, rows \subseteq Rows
  PROVE  IsFiniteSet(rows) /\ Cardinality(rows) \in Nat /\ Cardinality(rows) <= NumRows
<1>1. IsFiniteSet(Rows) /\ Cardinality(Rows) = NumRows
  BY FS_Interval, PagesAssumption DEF Rows
<1> QED  BY <1>1, FS_Subset, FS_CardinalityType

(* Ranks are numbers.                                                       *)
LEMMA RankType ==
  ASSUME NEW rows, rows \subseteq Rows, NEW r
  PROVE  Rank(r, rows) \in Nat /\ Rank(r, rows) <= NumRows
<1>1. {q \in rows : Before(q, r)} \subseteq Rows
  OBVIOUS
<1> QED  BY <1>1, RowsFinite DEF Rank

(* Behind a row the ranks are greater.                                      *)
LEMMA RankGrows ==
  ASSUME NEW rows, rows \subseteq Rows, NEW r \in rows, NEW q \in rows, Before(r, q)
  PROVE  Rank(r, rows) < Rank(q, rows)
<1> DEFINE low == {p \in rows : Before(p, r)}
           high == {p \in rows : Before(p, q)}
<1>1. low \subseteq Rows /\ high \subseteq Rows
  OBVIOUS
<1>2. low \subseteq high /\ r \in high /\ r \notin low
  BY BeforeOrders
<1>3. low \cup {r} \subseteq high
  BY <1>2
<1> HIDE DEF low, high
<1>4. /\ IsFiniteSet(low) /\ IsFiniteSet(high)
      /\ Cardinality(low) \in Nat /\ Cardinality(high) \in Nat
  BY <1>1, RowsFinite
<1>5. Cardinality(low \cup {r}) = Cardinality(low) + 1
  BY <1>2, <1>4, FS_AddElement
<1>6. Cardinality(low \cup {r}) <= Cardinality(high)
  BY <1>3, <1>4, FS_Subset
<1>7. Cardinality(low) < Cardinality(high)
  BY <1>4, <1>5, <1>6
<1> QED  BY <1>7 DEF Rank, low, high

(* A page is a prefix: what is left comes behind all that is shown.         *)
LEMMA LeftBehind ==
  ASSUME NEW rows, rows \subseteq Rows, NEW r \in FirstOf(rows),
         NEW q \in rows \ FirstOf(rows)
  PROVE  Before(r, q)
<1>1. r \in rows /\ Rank(r, rows) < PageSize /\ q \in rows /\ ~(Rank(q, rows) < PageSize)
  BY DEF FirstOf
<1>2. Rank(r, rows) \in Nat /\ Rank(q, rows) \in Nat /\ PageSize \in Nat
  BY RankType, PagesAssumption
<1>3. ~Before(q, r)
  BY <1>1, <1>2, RankGrows
<1>4. r # q
  BY <1>1
<1> QED  BY <1>1, <1>3, <1>4, BeforeOrders

(* A page has at most PageSize rows, ...                                    *)
LEMMA PageBounded ==
  ASSUME NEW rows, rows \subseteq Rows
  PROVE  Cardinality(FirstOf(rows)) <= PageSize
<1> DEFINE page == FirstOf(rows)
           f == [r \in page |-> Rank(r, rows)]
<1>1. page \subseteq rows /\ PageSize \in Nat \ {0}
  BY PagesAssumption DEF FirstOf
<1>2. \A r \in page : Rank(r, rows) \in 0..PageSize - 1
  BY <1>1, RankType DEF FirstOf
<1>3. \A r, q \in page : Rank(r, rows) = Rank(q, rows) => r = q
  <2> SUFFICES ASSUME NEW r \in page, NEW q \in page, Rank(r, rows) = Rank(q, rows), r # q
               PROVE  FALSE
    OBVIOUS
  <2>1. r \in rows /\ q \in rows
    BY <1>1
  <2>2. Rank(r, rows) < Rank(q, rows) \/ Rank(q, rows) < Rank(r, rows)
    BY <2>1, BeforeOrders, RankGrows
  <2> QED  BY <2>2, RankType
<1> HIDE DEF page
<1>4. f \in Injection(page, 0..PageSize - 1)
  BY <1>2, <1>3 DEF Injection, IsInjective
<1>5. IsFiniteSet(0..PageSize - 1) /\ Cardinality(0..PageSize - 1) = PageSize
  BY <1>1, FS_Interval
<1> HIDE DEF f
<1> QED  BY <1>4, <1>5, FS_Injection DEF page

(* ... has a row when there is one, ...                                     *)
LEMMA PageNotEmpty ==
  ASSUME NEW rows, rows \subseteq Rows, rows # {}
  PROVE  FirstOf(rows) # {}
<1> DEFINE T == {Rank(r, rows) : r \in rows}
<1>1. T \subseteq Nat /\ T # {}
  BY RankType
<1>2. \E i \in T : \A j \in T : i <= j
  <2> HIDE DEF T
  <2> QED  BY <1>1, LeastNumber
<1>3. PICK r \in rows : \A q \in rows : Rank(r, rows) <= Rank(q, rows)
  BY <1>2
<1>4. ASSUME NEW q \in rows, Before(q, r)  PROVE FALSE
  <2>1. Rank(q, rows) < Rank(r, rows)
    BY <1>4, RankGrows
  <2>2. Rank(r, rows) <= Rank(q, rows)
    BY <1>3
  <2>3. Rank(q, rows) \in Nat /\ Rank(r, rows) \in Nat
    BY RankType
  <2> QED  BY <2>1, <2>2, <2>3
<1>5. {q \in rows : Before(q, r)} = {}
  BY <1>4
<1>6. Rank(r, rows) = 0
  BY <1>5, FS_EmptySet DEF Rank
<1> QED  BY <1>6, PagesAssumption DEF FirstOf

(* ... and is all there is when that is not more than PageSize.             *)
LEMMA PageIsAll ==
  ASSUME NEW rows, rows \subseteq Rows, ~(Cardinality(rows) > PageSize)
  PROVE  FirstOf(rows) = rows
<1> SUFFICES ASSUME NEW r \in rows  PROVE Rank(r, rows) < PageSize
  BY DEF FirstOf
<1> DEFINE ahead == {q \in rows : Before(q, r)}
<1>1. ahead \subseteq rows \ {r}
  BY BeforeOrders
<1>2. IsFiniteSet(rows) /\ Cardinality(rows) \in Nat
  BY RowsFinite
<1>3. IsFiniteSet(rows \ {r}) /\ Cardinality(rows \ {r}) = Cardinality(rows) - 1
  BY <1>2, FS_RemoveElement
<1> HIDE DEF ahead
<1>4. Cardinality(ahead) <= Cardinality(rows) - 1
  BY <1>1, <1>3, FS_Subset
<1>5. Cardinality(ahead) = Rank(r, rows)
  BY DEF ahead, Rank
<1> QED  BY <1>2, <1>4, <1>5, RankType, PagesAssumption

(* A page that is not empty has a last row.                                 *)
LEMMA LastIsLast ==
  ASSUME NEW page, page \subseteq Rows, page # {}
  PROVE  LastOf(page) \in page /\ \A q \in page \ {LastOf(page)} : Before(q, LastOf(page))
<1> DEFINE T == {NumRows - Rank(r, page) : r \in page}
<1>1. T \subseteq Nat /\ T # {}
  BY RankType, PagesAssumption
<1>2. \E i \in T : \A j \in T : i <= j
  <2> HIDE DEF T
  <2> QED  BY <1>1, LeastNumber
<1>3. PICK r \in page : \A q \in page : NumRows - Rank(r, page) <= NumRows - Rank(q, page)
  BY <1>2
<1>4. ASSUME NEW q \in page, q # r  PROVE Before(q, r)
  <2>1. Rank(q, page) \in Nat /\ Rank(r, page) \in Nat /\ NumRows \in Nat
    BY RankType, PagesAssumption
  <2>2. ~(Rank(r, page) < Rank(q, page))
    BY <1>3, <2>1
  <2>3. ~Before(r, q)
    BY <2>2, RankGrows
  <2> QED  BY <1>4, <2>3, BeforeOrders
<1> QED  BY <1>4 DEF LastOf

(* The token after a page is the end, and then everything was shown; or it  *)
(* is a row of the page, and all that was not shown comes behind it.        *)
LEMMA TokenMeans ==
  ASSUME NEW rows, rows \subseteq Rows
  PROVE  \/ NextToken(rows) = TheEnd /\ FirstOf(rows) = rows
         \/ /\ NextToken(rows) = Token("key", LastOf(FirstOf(rows)))
            /\ LastOf(FirstOf(rows)) \in FirstOf(rows)
            /\ \A r \in rows \ FirstOf(rows) : Before(LastOf(FirstOf(rows)), r)
            /\ \A r \in FirstOf(rows) :
                 r = LastOf(FirstOf(rows)) \/ Before(r, LastOf(FirstOf(rows)))
<1>1. CASE Cardinality(rows) > PageSize
  <2>1. rows # {}
    BY <1>1, FS_EmptySet, PagesAssumption
  <2>2. FirstOf(rows) # {} /\ FirstOf(rows) \subseteq rows
    BY <2>1, PageNotEmpty DEF FirstOf
  <2>3. /\ LastOf(FirstOf(rows)) \in FirstOf(rows)
        /\ \A q \in FirstOf(rows) \ {LastOf(FirstOf(rows))} :
             Before(q, LastOf(FirstOf(rows)))
    BY <2>2, LastIsLast
  <2>4. \A r \in rows \ FirstOf(rows) : Before(LastOf(FirstOf(rows)), r)
    BY <2>3, LeftBehind
  <2> QED  BY <1>1, <2>3, <2>4 DEF NextToken
<1>2. CASE ~(Cardinality(rows) > PageSize)
  BY <1>2, PageIsAll DEF NextToken
<1> QED  BY <1>1, <1>2

-----------------------------------------------------------------------------
(* Types                                                                    *)

(* All that the types say, with what the tokens of each mode are.           *)
TokenKinds ==
  /\ sort = "search" /\ ~disturbed => token.kind # "key"
  /\ sort # "search" => token.kind # "offset"

(* The initial state has the types.                                         *)
LEMMA PagesTypeInit == PagesInit => PagesTypeOK /\ TokenKinds
<1> SUFFICES ASSUME PagesInit  PROVE PagesTypeOK /\ TokenKinds
  OBVIOUS
<1>1. ShownRows = {}
  BY DEF PagesInit, ShownRows
<1>2. Cardinality(ShownRows) = 0
  BY <1>1, FS_EmptySet
<1>3. pages = 0 /\ pages * PageSize = 0
  BY PagesAssumption DEF PagesInit
<1>4. shown \in [Rows -> 0..pages]
  BY <1>3 DEF PagesInit
<1>5. NumAtStart \in 0..NumRows /\ present = 1..inserted /\ indexed = 1..inserted
      /\ inserted = NumAtStart /\ held = present
  BY PagesAssumption DEF PagesInit, AtStart
<1>6. token.kind = "none" /\ token.at = 0
  BY DEF PagesInit, FirstPage, Token
<1>7. changes \in 0..MaxChanges /\ pages \in 0..MaxPages /\ disturbed \in BOOLEAN
      /\ sort \in Sorts
  <2>1. changes = 0 /\ pages = 0 /\ MaxChanges \in Nat /\ MaxPages \in Nat
    BY PagesAssumption, Zenon DEF PagesInit
  <2>2. disturbed \in BOOLEAN /\ sort \in Sorts
    BY Zenon DEF PagesInit
  <2> QED  BY <2>1, <2>2
<1>8. PagesTypeOK
  BY <1>2, <1>3, <1>4, <1>5, <1>6, <1>7 DEF PagesTypeOK
<1> QED  BY <1>6, <1>8 DEF TokenKinds

(* What is shown stays shown, and the page is shown.                        *)
LEMMA ShowAdds ==
  ASSUME PagesTypeOK, NEW page, page \subseteq Rows, NEW next, Show(page, next)
  PROVE  /\ ShownRows' = ShownRows \cup page
         /\ \A r \in Rows : shown'[r] = IF r \in page THEN shown[r] + 1 ELSE shown[r]
<1>1. \A r \in Rows : shown[r] \in Nat
  BY DEF PagesTypeOK
<1> QED  BY <1>1 DEF Show, ShownRows

(* A page of at most PageSize rows keeps the types.                         *)
LEMMA ShowTypes ==
  ASSUME PagesTypeOK, NEW page, page \subseteq Rows, Cardinality(page) <= PageSize,
         NEW next, Show(page, next),
         next.kind \in {"key", "offset", "end"}, next.at \in Nat,
         next.kind = "key" => next.at \in page,
         disturbed' \in BOOLEAN
  PROVE  PagesTypeOK'
<1>1. ShownRows' = ShownRows \cup page
  BY ShowAdds
<1>2. token' = next /\ pages' = pages + 1 /\ pages \in Nat /\ pages' \in 0..MaxPages
  BY PagesAssumption DEF Show, PagesTypeOK
<1>3. shown' \in [Rows -> 0..pages']
  BY <1>2, ShowAdds DEF Show, PagesTypeOK
<1>4. Cardinality(ShownRows') <= pages' * PageSize
  <2>1. ShownRows \subseteq Rows
    BY DEF ShownRows
  <2>2. /\ IsFiniteSet(ShownRows) /\ IsFiniteSet(page)
        /\ Cardinality(ShownRows) \in Nat /\ Cardinality(page) \in Nat
        /\ Cardinality(ShownRows \cap page) \in Nat
    BY <2>1, RowsFinite
  <2>3. Cardinality(ShownRows \cup page)
          = Cardinality(ShownRows) + Cardinality(page) - Cardinality(ShownRows \cap page)
    BY <2>2, FS_Union
  <2>4. pages' * PageSize = pages * PageSize + PageSize /\ pages * PageSize \in Nat
    BY <1>2, PagesAssumption
  <2>5. Cardinality(ShownRows) <= pages * PageSize
    BY DEF PagesTypeOK
  <2> HIDE DEF ShownRows
  <2> QED  BY <1>1, <2>2, <2>3, <2>4, <2>5, PagesAssumption
<1> QED  BY <1>1, <1>2, <1>3, <1>4 DEF Show, PagesTypeOK

(* A page of a list keeps the types.                                        *)
LEMMA ListTypes ==
  ASSUME PagesTypeOK, NEW rows, rows \subseteq Rows, ShowFirstOf(rows),
         disturbed' \in BOOLEAN
  PROVE  PagesTypeOK' /\ token'.kind \in {"key", "end"}
<1>1. FirstOf(rows) \subseteq rows /\ Cardinality(FirstOf(rows)) <= PageSize
  BY PageBounded DEF FirstOf
<1>2. /\ NextToken(rows).kind \in {"key", "end"} /\ NextToken(rows).at \in Nat
      /\ NextToken(rows).kind = "key" => NextToken(rows).at \in FirstOf(rows)
  <2>1. FirstOf(rows) \subseteq Nat
    <3>1. Rows \subseteq Nat
      BY PagesAssumption DEF Rows
    <3> QED  BY <1>1, <3>1
  <2>2. CASE NextToken(rows) = TheEnd
    BY <2>2 DEF Token, TheEnd
  <2>3. CASE NextToken(rows) # TheEnd
    <3>1. NextToken(rows) = Token("key", LastOf(FirstOf(rows)))
          /\ LastOf(FirstOf(rows)) \in FirstOf(rows)
      BY <2>3, TokenMeans
    <3> QED  BY <2>1, <3>1 DEF Token
  <2> QED  BY <2>2, <2>3
<1>3. Show(FirstOf(rows), NextToken(rows))
  BY DEF ShowFirstOf
<1>4. token' = NextToken(rows)
  BY <1>3 DEF Show
<1> QED  BY <1>1, <1>2, <1>3, <1>4, ShowTypes

(* The search answers at most PageSize hits.                                *)
LEMMA HitsBounded ==
  ASSUME indexed \subseteq Rows, NEW from \in Nat
  PROVE  Cardinality(HitsFrom(from) \cap present) <= PageSize
<1> DEFINE hits == HitsFrom(from)
           f == [r \in hits |-> HitRank(r)]
<1>1. hits \subseteq Rows /\ hits \subseteq Nat /\ PageSize \in Nat \ {0}
  <2>1. hits \subseteq Rows /\ PageSize \in Nat \ {0}
    BY PagesAssumption DEF HitsFrom
  <2>2. Rows \subseteq Nat
    BY PagesAssumption DEF Rows
  <2> QED  BY <2>1, <2>2
<1>2. \A r \in hits : HitRank(r) \in from..from + PageSize - 1
  <2> SUFFICES ASSUME NEW r \in hits  PROVE HitRank(r) \in from..from + PageSize - 1
    OBVIOUS
  <2>1. {q \in indexed : q > r} \subseteq Rows
    OBVIOUS
  <2>2. HitRank(r) \in Nat
    BY <2>1, RowsFinite DEF HitRank
  <2> QED  BY <1>1, <2>2 DEF HitsFrom
<1>3. ASSUME NEW r \in hits, NEW q \in hits, r < q  PROVE HitRank(q) < HitRank(r)
  <2> DEFINE low == {p \in indexed : p > q}
             high == {p \in indexed : p > r}
  <2>1. low \subseteq Rows /\ high \subseteq Rows /\ q \in high /\ q \notin low
    BY <1>1, <1>3 DEF HitsFrom
  <2>2. low \cup {q} \subseteq high
    BY <1>1, <1>3, <2>1 DEF Rows
  <2> HIDE DEF low, high
  <2>3. /\ IsFiniteSet(low) /\ IsFiniteSet(high)
        /\ Cardinality(low) \in Nat /\ Cardinality(high) \in Nat
    BY <2>1, RowsFinite
  <2>4. Cardinality(low \cup {q}) = Cardinality(low) + 1
    BY <2>1, <2>3, FS_AddElement
  <2>5. Cardinality(low \cup {q}) <= Cardinality(high)
    BY <2>2, <2>3, FS_Subset
  <2>6. Cardinality(low) < Cardinality(high)
    BY <2>3, <2>4, <2>5
  <2> QED  BY <2>6 DEF low, high, HitRank
<1>4. \A r, q \in hits : HitRank(r) = HitRank(q) => r = q
  <2> SUFFICES ASSUME NEW r \in hits, NEW q \in hits, HitRank(r) = HitRank(q), r # q
               PROVE  FALSE
    OBVIOUS
  <2>1. HitRank(q) < HitRank(r) \/ HitRank(r) < HitRank(q)
    BY <1>1, <1>3
  <2> QED  BY <1>2, <2>1
<1> HIDE DEF hits
<1>5. f \in Injection(hits, from..from + PageSize - 1)
  BY <1>2, <1>4 DEF Injection, IsInjective
<1>6. IsFiniteSet(from..from + PageSize - 1)
      /\ Cardinality(from..from + PageSize - 1) = PageSize
  BY <1>1, FS_Interval
<1> HIDE DEF f
<1>7. Cardinality(hits) <= PageSize
  BY <1>5, <1>6, FS_Injection
<1>8. IsFiniteSet(hits) /\ hits \cap present \subseteq hits
  BY <1>1, RowsFinite
<1>9. Cardinality(hits \cap present) <= Cardinality(hits)
  BY <1>8, FS_Subset
<1>10. Cardinality(hits) \in Nat /\ Cardinality(hits \cap present) \in Nat
  BY <1>1, RowsFinite
<1> QED  BY <1>1, <1>7, <1>9, <1>10 DEF hits

(* Every step keeps the types.                                              *)
LEMMA PagesTypeStep ==
  PagesTypeOK /\ TokenKinds /\ [PagesNext]_pageVars => PagesTypeOK' /\ TokenKinds'
<1> SUFFICES ASSUME PagesTypeOK, TokenKinds, [PagesNext]_pageVars
             PROVE  PagesTypeOK' /\ TokenKinds'
  OBVIOUS
<1>a. present \subseteq Rows /\ indexed \subseteq Rows /\ disturbed \in BOOLEAN
  BY PagesAssumption DEF PagesTypeOK, Rows
<1>1. CASE ListPage
  <2> DEFINE rows == {r \in present : PastCursor(r)}
  <2>1. rows \subseteq Rows /\ ShowFirstOf(rows) /\ disturbed' \in BOOLEAN
    BY <1>a, <1>1 DEF ListPage
  <2> HIDE DEF rows
  <2>2. PagesTypeOK' /\ token'.kind \in {"key", "end"}
    BY <2>1, ListTypes
  <2>3. sort' = sort /\ sort # "search"
    BY <1>1 DEF ListPage, ShowFirstOf, Show
  <2> QED  BY <2>2, <2>3 DEF TokenKinds
<1>2. CASE ListChats
  <2> DEFINE gone == token.kind = "key" /\ token.at \notin present
             rows == {r \in present : gone \/ PastCursor(r)}
  <2>1. rows \subseteq Rows /\ ShowFirstOf(rows)
    BY <1>a, <1>2 DEF ListChats
  <2>2. disturbed' \in BOOLEAN
    BY <1>2, Zenon DEF ListChats
  <2> HIDE DEF rows
  <2>3. PagesTypeOK' /\ token'.kind \in {"key", "end"}
    BY <2>1, <2>2, ListTypes
  <2>4. sort' = sort /\ sort # "search"
    BY <1>2 DEF ListChats, ShowFirstOf, Show
  <2> QED  BY <2>3, <2>4 DEF TokenKinds
<1>3. CASE SearchPage
  <2> DEFINE hits == HitsFrom(SearchFrom)
             next == IF hits = {} THEN TheEnd ELSE NextOffset
  <2>1. SearchFrom \in Nat
    BY DEF SearchFrom, PagesTypeOK
  <2>2. hits \cap present \subseteq Rows /\ Cardinality(hits \cap present) <= PageSize
    BY <1>a, <2>1, HitsBounded
  <2>3. next.kind \in {"offset", "end"} /\ next.at \in Nat
    BY <2>1, PagesAssumption DEF NextOffset, Token, TheEnd
  <2>4. Show(hits \cap present, next) /\ disturbed' = disturbed
    BY <1>3 DEF SearchPage
  <2> HIDE DEF hits, next
  <2>5. PagesTypeOK'
    BY <1>a, <2>2, <2>3, <2>4, ShowTypes
  <2>6. token' = next /\ sort' = sort /\ sort = "search"
    BY <1>3, <2>4 DEF Show, SearchPage
  <2> QED  BY <2>3, <2>5, <2>6 DEF TokenKinds
<1>4. CASE SearchFails
  <2> DEFINE rows == {r \in present : token.kind = "key" => r > token.at}
  <2>1. rows \subseteq Rows /\ ShowFirstOf(rows) /\ disturbed' = TRUE
    BY <1>a, <1>4 DEF SearchFails
  <2> HIDE DEF rows
  <2>2. PagesTypeOK' /\ token'.kind \in {"key", "end"}
    BY <2>1, ListTypes
  <2>3. sort' = sort /\ sort = "search"
    BY <1>4 DEF SearchFails, ShowFirstOf, Show
  <2> QED  BY <2>1, <2>2, <2>3 DEF TokenKinds
<1>5. CASE InsertPageRow
  <2>1. UNCHANGED <<sort, token, shown, pages, held>> /\ changes' \in 0..MaxChanges
    BY <1>5, PagesAssumption DEF InsertPageRow, Change, PagesTypeOK
  <2>2. inserted' = inserted + 1 /\ inserted' \in 0..NumRows
        /\ present' = present \cup {inserted'} /\ indexed' \subseteq indexed \cup {inserted'}
    BY <1>5, PagesAssumption DEF InsertPageRow, PagesTypeOK
  <2>3. disturbed' \in BOOLEAN /\ (disturbed => disturbed')
    BY <1>5, <1>a, Zenon DEF InsertPageRow
  <2>4. present' \subseteq 1..inserted' /\ indexed' \subseteq 1..inserted'
    BY <2>2, PagesAssumption DEF PagesTypeOK
  <2> QED  BY <2>1, <2>2, <2>3, <2>4 DEF PagesTypeOK, ShownRows, TokenKinds
<1>6. ASSUME NEW d \in Rows, DeletePageRow(d)  PROVE PagesTypeOK' /\ TokenKinds'
  <2>1. UNCHANGED <<inserted, sort, token, shown, pages>> /\ changes' \in 0..MaxChanges
    BY <1>6, PagesAssumption DEF DeletePageRow, Change, PagesTypeOK
  <2>2. present' = present \ {d} /\ held' = held \ {d} /\ indexed' \subseteq indexed
    BY <1>6 DEF DeletePageRow
  <2>3. disturbed' \in BOOLEAN /\ (disturbed => disturbed')
    BY <1>6, <1>a, Zenon DEF DeletePageRow
  <2> QED  BY <2>1, <2>2, <2>3 DEF PagesTypeOK, ShownRows, TokenKinds
<1>7. CASE UNCHANGED pageVars
  BY <1>7 DEF pageVars, PagesTypeOK, ShownRows, TokenKinds
<1> QED  BY <1>1, <1>2, <1>3, <1>4, <1>5, <1>6, <1>7 DEF PagesNext

(* Type correctness of every walk; no page is longer than asked for.        *)
THEOREM PagesTypesCorrect == PagesSpec => []PagesTypeOK
BY PagesTypeInit, PagesTypeStep, PTL DEF PagesSpec

-----------------------------------------------------------------------------
(* What a walk has shown                                                    *)

Keyset == sort \in {"created_asc", "created_desc", "chats"}

(* A walk by a key has shown what is not behind its token; and it has shown *)
(* nothing that is, unless it was started again.                            *)
KeysetWalk ==
  Keyset =>
    /\ token.kind = "key" => \A r \in held : r \in ShownRows \/ Before(token.at, r)
    /\ token.kind = "end" => held \subseteq ShownRows
    /\ ~disturbed /\ token.kind = "key" =>
         \A r \in ShownRows : r = token.at \/ Before(r, token.at)
    /\ ~disturbed => \A r \in Rows : shown[r] <= 1

(* The first page by title is complete when it is the last as well.         *)
TitleWalk ==
  TitleSort /\ pages = 1 /\ token.kind = "end" => held \subseteq ShownRows

(* While the index stands still a search has shown the hits before its      *)
(* offset and no others.                                                    *)
SearchWalk ==
  sort = "search" /\ ~disturbed =>
    /\ indexed = AtStart
    /\ token.kind # "end" => \A r \in held : HitRank(r) < SearchFrom => r \in ShownRows
    /\ token.kind = "end" => held \subseteq ShownRows
    /\ token.kind # "end" => \A r \in ShownRows : r \in AtStart /\ HitRank(r) < SearchFrom
    /\ \A r \in Rows : shown[r] <= 1

WalkInv ==
  /\ PagesTypeOK /\ TokenKinds
  /\ held \subseteq AtStart
  /\ KeysetWalk /\ TitleWalk /\ SearchWalk

(* At first nothing was shown.                                              *)
LEMMA NothingShown ==
  ASSUME PagesTypeOK, token.kind = "none"
  PROVE  ShownRows = {} /\ \A r \in Rows : shown[r] = 0
BY DEF PagesTypeOK, ShownRows

(* The strengthening holds at first.                                        *)
LEMMA WalkInvInit == PagesInit => WalkInv
<1> SUFFICES ASSUME PagesInit  PROVE WalkInv
  OBVIOUS
<1>1. PagesTypeOK /\ TokenKinds
  BY PagesTypeInit
<1>2. token.kind = "none" /\ held = AtStart /\ indexed = AtStart
  BY DEF PagesInit, FirstPage, Token
<1>3. ShownRows = {} /\ \A r \in Rows : shown[r] = 0
  BY <1>1, <1>2, NothingShown
<1>4. SearchFrom = 0 /\ \A r \in AtStart : ~(HitRank(r) < 0)
  <2>1. AtStart \subseteq Rows
    BY PagesAssumption DEF AtStart, Rows
  <2>2. ASSUME NEW r \in AtStart  PROVE ~(HitRank(r) < 0)
    <3>1. {q \in indexed : q > r} \subseteq Rows
      BY <1>2, <2>1
    <3>2. HitRank(r) \in Nat
      BY <3>1, RowsFinite DEF HitRank
    <3> QED  BY <3>2
  <2> QED  BY <1>2, <2>2 DEF SearchFrom
<1> QED  BY <1>1, <1>2, <1>3, <1>4 DEF WalkInv, KeysetWalk, TitleWalk, SearchWalk

(* In the modes with a key, behind the cursor is behind it in the order.    *)
LEMMA PastIsBefore ==
  ASSUME Keyset, NEW r
  PROVE  /\ token.kind = "none" => PastCursor(r)
         /\ token.kind = "key" => (PastCursor(r) <=> Before(token.at, r))
BY DEF Keyset, PastCursor, Before

(* A page by key keeps the walk complete, and shows nothing again unless    *)
(* the list started again.                                                  *)
LEMMA KeysetPage ==
  ASSUME WalkInv, Keyset, NEW again \in BOOLEAN, NEW rows,
         rows = {r \in present : again \/ PastCursor(r)},
         ShowFirstOf(rows), ~disturbed' => ~disturbed /\ ~again
  PROVE  KeysetWalk'
<1> DEFINE page == FirstOf(rows)
           last == LastOf(page)
<1>1. rows \subseteq Rows /\ page \subseteq rows /\ page \subseteq Rows
  <2>1. present \subseteq Rows
    BY PagesAssumption DEF WalkInv, PagesTypeOK, Rows
  <2> QED  BY <2>1 DEF FirstOf
<1>2. /\ token.kind # "end" /\ token' = NextToken(rows) /\ Show(page, NextToken(rows))
      /\ UNCHANGED <<sort, held>>
  BY DEF ShowFirstOf, Show
<1>3. /\ ShownRows' = ShownRows \cup page
      /\ \A r \in Rows : shown'[r] = IF r \in page THEN shown[r] + 1 ELSE shown[r]
  BY <1>1, <1>2, ShowAdds DEF WalkInv
<1>4. token.kind \in {"none", "key"}
  BY <1>2 DEF WalkInv, PagesTypeOK, TokenKinds, Keyset
<1>5. ASSUME NEW r \in held  PROVE r \in ShownRows \/ r \in rows
  BY <1>4, PastIsBefore DEF WalkInv, KeysetWalk, PagesTypeOK
<1>6. \/ token' = TheEnd /\ page = rows
      \/ /\ token' = Token("key", last) /\ last \in page
         /\ \A r \in rows \ page : Before(last, r)
         /\ \A r \in page : r = last \/ Before(r, last)
  BY <1>1, <1>2, TokenMeans
<1>7. ASSUME ~disturbed'  PROVE \A r \in page : shown[r] = 0 /\ r \notin ShownRows
  <2> SUFFICES ASSUME NEW r \in page  PROVE r \notin ShownRows
    <3>1. \A r \in Rows : shown[r] \in Nat
      BY DEF WalkInv, PagesTypeOK
    <3> QED  BY <1>1, <3>1 DEF ShownRows
  <2>1. PastCursor(r) /\ ~disturbed
    BY <1>1, <1>7
  <2>2. CASE token.kind = "none"
    BY <2>2, NothingShown DEF WalkInv
  <2>3. CASE token.kind = "key"
    <3>1. Before(token.at, r) /\ token.at \in Rows /\ r \in Rows
      BY <1>1, <2>1, <2>3, PastIsBefore DEF WalkInv, PagesTypeOK, ShownRows
    <3>2. ~(r = token.at \/ Before(r, token.at))
      BY <3>1, BeforeOrders
    <3> QED  BY <2>1, <2>3, <3>2 DEF WalkInv, KeysetWalk
  <2> QED  BY <1>4, <2>2, <2>3
<1> HIDE DEF page, last
<1>8. ASSUME token'.kind = "key"
      PROVE  \A r \in held : r \in ShownRows' \/ Before(token.at, r)'
  <2>1. token'.at = last /\ \A r \in rows \ page : Before(last, r)
    BY <1>6, <1>8 DEF Token, TheEnd
  <2>2. \A r : Before(token.at, r)' <=> Before(last, r)
    BY <1>2, <2>1 DEF Before, TitleUp
  <2> QED  BY <1>3, <1>5, <2>1, <2>2
<1>9. ASSUME token'.kind = "end"  PROVE held \subseteq ShownRows'
  <2>1. page = rows
    BY <1>6, <1>9 DEF Token, TheEnd
  <2> QED  BY <1>3, <1>5, <2>1
<1>10. ASSUME ~disturbed', token'.kind = "key"
       PROVE  \A r \in ShownRows' : r = token'.at \/ Before(r, token.at)'
  <2>1. token'.at = last /\ last \in page /\ \A r \in page : r = last \/ Before(r, last)
    BY <1>6, <1>10 DEF Token, TheEnd
  <2>2. \A r : Before(r, token.at)' <=> Before(r, last)
    BY <1>2, <2>1 DEF Before, TitleUp
  <2>3. ASSUME NEW r \in ShownRows  PROVE Before(r, last)
    <3>1. token.kind = "key" /\ ~disturbed
      BY <1>4, <1>10, <2>3, NothingShown DEF WalkInv
    <3>2. r = token.at \/ Before(r, token.at)
      BY <2>3, <3>1 DEF WalkInv, KeysetWalk
    <3>3. Before(token.at, last)
      BY <1>1, <1>10, <2>1, <3>1, PastIsBefore
    <3>4. r \in Rows /\ token.at \in Rows /\ last \in Rows
      BY <1>1, <2>1, <2>3, <3>1 DEF ShownRows, WalkInv, PagesTypeOK
    <3> QED  BY <3>2, <3>3, <3>4, BeforeOrders
  <2> QED  BY <1>3, <2>1, <2>2, <2>3
<1>11. ASSUME ~disturbed'  PROVE \A r \in Rows : shown'[r] <= 1
  BY <1>3, <1>7, <1>11 DEF WalkInv, KeysetWalk
<1> QED  BY <1>2, <1>8, <1>9, <1>10, <1>11 DEF KeysetWalk

(* While the index stands still the best hits come first: the rank of a hit *)
(* is its place.                                                            *)
LEMMA HitRanks ==
  ASSUME indexed = AtStart, NEW r \in AtStart
  PROVE  HitRank(r) = NumAtStart - r /\ Cardinality(indexed) = NumAtStart
<1>1. NumAtStart \in Nat /\ r \in Nat /\ r <= NumAtStart
  BY PagesAssumption DEF AtStart
<1>2. {q \in indexed : q > r} = r + 1..NumAtStart
  BY <1>1 DEF AtStart
<1>3. /\ Cardinality(r + 1..NumAtStart) = NumAtStart - r
      /\ Cardinality(1..NumAtStart) = NumAtStart
  <2>1. r + 1 \in Int /\ NumAtStart \in Int
    BY <1>1
  <2>2. Cardinality(r + 1..NumAtStart)
          = IF r + 1 > NumAtStart THEN 0 ELSE NumAtStart - (r + 1) + 1
    BY <2>1, FS_Interval
  <2>3. Cardinality(1..NumAtStart) = IF 1 > NumAtStart THEN 0 ELSE NumAtStart - 1 + 1
    BY <2>1, FS_Interval
  <2> QED  BY <1>1, <2>2, <2>3
<1> QED  BY <1>2, <1>3 DEF HitRank, AtStart

(* A page of hits continues the search.                                     *)
LEMMA HitsPage ==
  ASSUME WalkInv, SearchPage
  PROVE  SearchWalk'
<1> SUFFICES ASSUME ~disturbed'  PROVE SearchWalk'
  BY DEF SearchWalk
<1> DEFINE from == SearchFrom
           hits == HitsFrom(from)
           page == hits \cap present
<1>1. sort = "search" /\ ~disturbed /\ indexed = AtStart
  BY DEF SearchPage, WalkInv, SearchWalk
<1>2. /\ Show(page, IF hits = {} THEN TheEnd ELSE NextOffset)
      /\ token.kind # "end"
      /\ token' = IF hits = {} THEN TheEnd ELSE NextOffset
      /\ UNCHANGED <<sort, held, indexed>>
  BY DEF SearchPage, Show
<1>3. AtStart \subseteq Rows /\ AtStart \subseteq Nat /\ NumAtStart \in Nat
      /\ PageSize \in Nat \ {0}
  <2>1. NumAtStart \in Nat /\ NumAtStart <= NumRows /\ PageSize \in Nat \ {0}
    BY PagesAssumption
  <2> QED  BY <2>1, PagesAssumption DEF AtStart, Rows
<1>4. from \in Nat
  BY DEF SearchFrom, WalkInv, PagesTypeOK
<1>5. hits \subseteq AtStart /\ page \subseteq Rows
      /\ \A r \in AtStart : r \in hits <=> from <= NumAtStart - r /\ NumAtStart - r < from + PageSize
  BY <1>1, <1>3, HitRanks DEF HitsFrom
<1>6. /\ ShownRows' = ShownRows \cup page
      /\ \A r \in Rows : shown'[r] = IF r \in page THEN shown[r] + 1 ELSE shown[r]
  BY <1>2, <1>5, ShowAdds DEF WalkInv
<1>7. held \subseteq AtStart /\ held \subseteq present
  BY DEF WalkInv, PagesTypeOK
<1>8. /\ \A r \in held : NumAtStart - r < from => r \in ShownRows
      /\ \A r \in ShownRows : r \in AtStart /\ NumAtStart - r < from
  BY <1>1, <1>2, <1>7, HitRanks DEF WalkInv, SearchWalk
<1> HIDE DEF from, page
<1>9. \A r \in held : NumAtStart - r < from + PageSize => r \in ShownRows'
  <2> SUFFICES ASSUME NEW r \in held, NumAtStart - r < from + PageSize, ~(NumAtStart - r < from)
               PROVE  r \in page
    BY <1>6, <1>8
  <2>1. r \in AtStart /\ r \in Nat /\ r \in present
    BY <1>3, <1>7
  <2>2. from <= NumAtStart - r
    BY <1>3, <1>4, <2>1
  <2> QED  BY <1>5, <2>1, <2>2 DEF page
<1>10. \A r \in ShownRows' : r \in AtStart /\ NumAtStart - r < from + PageSize
  <2> SUFFICES ASSUME NEW r \in ShownRows'
               PROVE  r \in AtStart /\ NumAtStart - r < from + PageSize
    OBVIOUS
  <2>1. CASE r \in page
    BY <1>5, <2>1 DEF page
  <2>2. CASE r \in ShownRows
    <3>1. r \in AtStart /\ NumAtStart - r < from /\ r \in Nat
      BY <1>3, <1>8, <2>2
    <3> QED  BY <1>3, <1>4, <3>1
  <2> QED  BY <1>6, <2>1, <2>2
<1>11. \A r \in Rows : shown'[r] <= 1
  <2>1. ASSUME NEW r \in page  PROVE shown[r] = 0
    <3>1. r \in AtStart /\ from <= NumAtStart - r /\ r \in Nat
      BY <1>3, <1>5, <2>1 DEF page
    <3>2. ~(NumAtStart - r < from)
      BY <1>3, <1>4, <3>1
    <3>3. r \notin ShownRows /\ r \in Rows
      BY <1>3, <1>8, <3>1, <3>2
    <3> QED  BY <3>3 DEF ShownRows, WalkInv, PagesTypeOK
  <2> QED  BY <1>1, <1>6, <2>1 DEF WalkInv, SearchWalk
<1>12. \A r \in held : NumAtStart - r < NumAtStart
  BY <1>3, <1>7 DEF AtStart
<1>13. CASE hits = {}
  <2>1. ASSUME NEW r \in held  PROVE NumAtStart - r < from
    <3> SUFFICES ASSUME ~(NumAtStart - r < from)  PROVE FALSE
      OBVIOUS
    <3>1. r \in 1..NumAtStart /\ r \in Nat
      BY <1>7, <2>1, <1>3 DEF AtStart
    <3>2. NumAtStart - from \in AtStart
      BY <1>3, <1>4, <3>1 DEF AtStart
    <3>3. from <= NumAtStart - (NumAtStart - from)
          /\ NumAtStart - (NumAtStart - from) < from + PageSize
      BY <1>3, <1>4
    <3>4. NumAtStart - from \in hits
      BY <1>5, <3>2, <3>3
    <3> QED  BY <1>13, <3>4
  <2>2. held \subseteq ShownRows'
    BY <1>6, <1>8, <2>1
  <2>3. token'.kind = "end"
    BY <1>2, <1>13 DEF TheEnd, Token
  <2> QED  BY <1>1, <1>2, <1>11, <2>2, <2>3 DEF SearchWalk
<1>14. CASE hits # {}
  <2>1. Cardinality(indexed) = NumAtStart
    <3>1. PICK r \in AtStart : TRUE
      BY <1>5, <1>14
    <3> QED  BY <1>1, <3>1, HitRanks
  <2>2. token' = IF from + PageSize < NumAtStart
                 THEN Token("offset", from + PageSize) ELSE TheEnd
    BY <1>2, <1>14, <2>1 DEF NextOffset, from
  <2>3. CASE from + PageSize < NumAtStart
    <3>1. token'.kind = "offset" /\ SearchFrom' = from + PageSize
      BY <2>2, <2>3 DEF Token, SearchFrom
    <3>2. \A r \in AtStart : HitRank(r)' = NumAtStart - r
      <4>1. \A r : HitRank(r)' = HitRank(r)
        BY <1>2 DEF HitRank
      <4> QED  BY <1>1, <4>1, HitRanks
    <3> QED
      BY <1>1, <1>2, <1>7, <1>9, <1>10, <1>11, <3>1, <3>2 DEF SearchWalk
  <2>4. CASE ~(from + PageSize < NumAtStart)
    <3>1. token'.kind = "end"
      BY <2>2, <2>4 DEF TheEnd, Token
    <3>2. ASSUME NEW r \in held  PROVE r \in ShownRows'
      <4>1. NumAtStart - r < NumAtStart /\ r \in Nat
        BY <1>3, <1>7, <1>12, <3>2
      <4>2. NumAtStart - r < from + PageSize
        BY <1>3, <1>4, <2>4, <4>1
      <4> QED  BY <1>9, <3>2, <4>2
    <3> QED  BY <1>1, <1>2, <1>11, <3>1, <3>2 DEF SearchWalk
  <2> QED  BY <2>3, <2>4
<1> QED  BY <1>13, <1>14

(* A page by title that is the first and the last shows all there is.       *)
LEMMA TitlePage ==
  ASSUME WalkInv, TitleSort, ListPage
  PROVE  TitleWalk'
<1> SUFFICES ASSUME pages' = 1, token'.kind = "end"  PROVE held' \subseteq ShownRows'
  BY DEF TitleWalk
<1> DEFINE rows == {r \in present : PastCursor(r)}
<1>1. /\ Show(FirstOf(rows), NextToken(rows)) /\ token' = NextToken(rows)
      /\ pages' = pages + 1 /\ held' = held
  BY DEF ListPage, ShowFirstOf, Show
<1>2. token.kind = "none"
  BY <1>1 DEF WalkInv, PagesTypeOK
<1>3. rows = present
  BY <1>2 DEF PastCursor
<1>4. present \subseteq Rows
  BY PagesAssumption DEF WalkInv, PagesTypeOK, Rows
<1> HIDE DEF rows
<1>5. FirstOf(rows) = rows
  BY <1>1, <1>3, <1>4, TokenMeans DEF Token, TheEnd
<1>6. ShownRows' = ShownRows \cup rows
  BY <1>1, <1>3, <1>4, <1>5, ShowAdds DEF WalkInv
<1> QED  BY <1>1, <1>3, <1>6 DEF WalkInv, PagesTypeOK

(* A change of the table leaves what is said of the walk.                   *)
LEMMA ChangeKeeps ==
  ASSUME WalkInv, UNCHANGED <<sort, token, shown, pages>>, held' \subseteq held,
         ~disturbed' => ~disturbed /\ (sort = "search" => indexed' = indexed)
  PROVE  KeysetWalk' /\ TitleWalk' /\ SearchWalk'
<1>1. ShownRows' = ShownRows
  BY DEF ShownRows
<1>2. \A r, q : Before(r, q)' <=> Before(r, q)
  BY DEF Before, TitleUp
<1>3. KeysetWalk'
  BY <1>1, <1>2 DEF WalkInv, KeysetWalk, Keyset
<1>4. TitleWalk'
  BY <1>1 DEF WalkInv, TitleWalk, TitleSort
<1>5. SearchWalk'
  <2> SUFFICES ASSUME sort = "search", ~disturbed'  PROVE SearchWalk'
    BY DEF SearchWalk
  <2>1. ~disturbed /\ indexed' = indexed
    OBVIOUS
  <2>2. SearchFrom' = SearchFrom /\ \A r : HitRank(r)' = HitRank(r)
    BY <2>1 DEF SearchFrom, HitRank
  <2> QED  BY <1>1, <2>1, <2>2 DEF WalkInv, SearchWalk
<1> QED  BY <1>3, <1>4, <1>5

(* Every step keeps the strengthening.                                      *)
LEMMA WalkInvStep == WalkInv /\ [PagesNext]_pageVars => WalkInv'
<1> SUFFICES ASSUME WalkInv, [PagesNext]_pageVars  PROVE WalkInv'
  OBVIOUS
<1>0. PagesTypeOK' /\ TokenKinds'
  BY PagesTypeStep DEF WalkInv
<1>1. CASE ListPage
  <2>1. UNCHANGED <<sort, held, disturbed>> /\ sort \notin {"chats", "search"}
    BY <1>1 DEF ListPage, ShowFirstOf, Show
  <2>2. CASE Keyset
    <3> DEFINE rows == {r \in present : FALSE \/ PastCursor(r)}
    <3>1. ShowFirstOf(rows)
      BY <1>1 DEF ListPage
    <3>2. KeysetWalk'
      <4> HIDE DEF rows
      <4>1. rows = {r \in present : FALSE \/ PastCursor(r)}
        BY DEF rows
      <4> QED  BY <2>1, <2>2, <3>1, <4>1, KeysetPage
    <3> QED
      BY <1>0, <2>1, <2>2, <3>2 DEF WalkInv, TitleWalk, SearchWalk, TitleSort, Keyset
  <2>3. CASE ~Keyset
    <3>1. TitleSort
      BY <2>1, <2>3 DEF Keyset, TitleSort, WalkInv, PagesTypeOK, Sorts
    <3>2. TitleWalk'
      BY <1>1, <3>1, TitlePage
    <3> QED  BY <1>0, <2>1, <2>3, <3>2 DEF WalkInv, KeysetWalk, SearchWalk, Keyset
  <2> QED  BY <2>2, <2>3
<1>2. CASE ListChats
  <2> DEFINE gone == token.kind = "key" /\ token.at \notin present
             rows == {r \in present : gone \/ PastCursor(r)}
  <2>1. /\ sort = "chats" /\ ShowFirstOf(rows) /\ disturbed' = (disturbed \/ gone)
    BY <1>2 DEF ListChats
  <2>2. UNCHANGED <<sort, held>>
    BY <2>1 DEF ShowFirstOf, Show
  <2>3. gone \in BOOLEAN /\ rows = {r \in present : gone \/ PastCursor(r)}
    OBVIOUS
  <2>4. ~disturbed' => ~disturbed /\ ~gone
    BY <2>1, Zenon
  <2> HIDE DEF gone, rows
  <2>5. KeysetWalk'
    BY <2>1, <2>3, <2>4, KeysetPage DEF Keyset
  <2> QED  BY <1>0, <2>1, <2>2, <2>5 DEF WalkInv, TitleWalk, SearchWalk, TitleSort
<1>3. CASE SearchPage
  <2>1. UNCHANGED <<sort, held>> /\ sort = "search"
    BY <1>3 DEF SearchPage, Show
  <2> QED
    BY <1>0, <1>3, <2>1, HitsPage DEF WalkInv, KeysetWalk, TitleWalk, TitleSort, Keyset
<1>4. CASE SearchFails
  <2>1. UNCHANGED <<sort, held>> /\ sort = "search" /\ disturbed' = TRUE
    BY <1>4 DEF SearchFails, ShowFirstOf, Show
  <2> QED
    BY <1>0, <2>1 DEF WalkInv, KeysetWalk, TitleWalk, SearchWalk, TitleSort, Keyset
<1>5. ASSUME InsertPageRow \/ \E d \in Rows : DeletePageRow(d)  PROVE WalkInv'
  <2>1. UNCHANGED <<sort, token, shown, pages>> /\ held' \subseteq held
    BY <1>5 DEF InsertPageRow, DeletePageRow
  <2>2. ~disturbed' => ~disturbed /\ (sort = "search" => indexed' = indexed)
    BY <1>5, Zenon DEF InsertPageRow, DeletePageRow
  <2>3. KeysetWalk' /\ TitleWalk' /\ SearchWalk'
    BY <2>1, <2>2, ChangeKeeps
  <2> QED  BY <1>0, <2>1, <2>3 DEF WalkInv
<1>6. CASE UNCHANGED pageVars
  <2>1. KeysetWalk' /\ TitleWalk' /\ SearchWalk'
    BY <1>6, ChangeKeeps DEF pageVars
  <2> QED  BY <1>0, <1>6, <2>1 DEF WalkInv, pageVars
<1> QED  BY <1>1, <1>2, <1>3, <1>4, <1>5, <1>6 DEF PagesNext

(* The strengthening always holds.                                          *)
LEMMA WalkInvHolds == PagesSpec => []WalkInv
BY WalkInvInit, WalkInvStep, PTL DEF PagesSpec

(* However many rows come and go between the pages, and whatever the page's *)
(* size: a walk to the end shows every row that was there all the time.     *)
THEOREM WalksComplete == PagesSpec => []WalkComplete
<1>1. WalkInv => WalkComplete
  <2> SUFFICES ASSUME WalkInv, token.kind = "end", ~(TitleSort /\ pages > 1),
                      ~(sort = "search" /\ disturbed)
               PROVE  held \subseteq ShownRows
    BY DEF WalkComplete
  <2>1. pages \in Nat /\ pages > 0 /\ sort \in Sorts
    BY DEF WalkInv, PagesTypeOK
  <2>2. CASE TitleSort
    <3>1. pages = 1
      BY <2>1, <2>2
    <3> QED  BY <2>2, <3>1 DEF WalkInv, TitleWalk
  <2>3. CASE ~TitleSort
    <3>1. Keyset \/ sort = "search"
      BY <2>1, <2>3 DEF TitleSort, Keyset, Sorts
    <3> QED  BY <3>1 DEF WalkInv, KeysetWalk, SearchWalk
  <2> QED  BY <2>2, <2>3
<1> QED  BY <1>1, WalkInvHolds, PTL

(* And no row twice, unless the list was started again.                     *)
THEOREM WalksShowOnce == PagesSpec => []WalkOnce
<1>1. WalkInv => WalkOnce
  <2> SUFFICES ASSUME WalkInv, ~TitleSort, ~disturbed  PROVE \A r \in Rows : shown[r] <= 1
    BY DEF WalkOnce
  <2>1. Keyset \/ sort = "search"
    BY DEF TitleSort, Keyset, Sorts, WalkInv, PagesTypeOK
  <2> QED  BY <2>1 DEF WalkInv, KeysetWalk, SearchWalk
<1> QED  BY <1>1, WalkInvHolds, PTL
-----------------------------------------------------------------------------
(***************************************************************************)
(* IndexQueue                                                              *)
(***************************************************************************)

(* The entries of a cycle                                                   *)

(* what is said of the database: no version is greater than the number of   *)
(* writes, and every write has its entry                                    *)
Versions ==
  /\ writes \in 0..MaxWrites
  /\ row \in [IndexDocs -> 0..writes] /\ jobs \in [IndexDocs -> 0..writes]
  /\ queue \in Seq(Entries) /\ Len(queue) = writes

(* The document and the action of an entry are what they should be.         *)
LEMMA EntryParts ==
  ASSUME NEW e \in Entries
  PROVE  e.doc \in IndexDocs /\ e.doc \in Nat /\ e.action \in {"index", "delete"}
BY IndexAssumption DEF Entries, IndexDocs

(* A queued document has a newest entry.                                    *)
LEMMA NewestIsEntry ==
  ASSUME queue \in Seq(Entries), NEW d \in Queued
  PROVE  Newest(d) \in Entries /\ Newest(d).doc = d
<1> DEFINE T == {Len(queue) - i : i \in {j \in DOMAIN queue : queue[j].doc = d}}
<1>1. DOMAIN queue = 1..Len(queue) /\ Len(queue) \in Nat
  OBVIOUS
<1>2. T \subseteq Nat /\ T # {}
  BY <1>1 DEF Queued
<1>3. \E n \in T : \A m \in T : n <= m
  <2> HIDE DEF T
  <2> QED  BY <1>2, LeastNumber
<1>4. PICK i \in DOMAIN queue :
        /\ queue[i].doc = d
        /\ \A j \in DOMAIN queue : queue[j].doc = d => Len(queue) - i <= Len(queue) - j
  BY <1>3
<1>5. \A j \in DOMAIN queue : queue[j].doc = d => j <= i
  BY <1>1, <1>4
<1>6. /\ Newest(d) \in {queue[k] : k \in DOMAIN queue}
      /\ Newest(d).doc = d
  BY <1>4, <1>5 DEF Newest
<1> QED  BY <1>1, <1>6

(* A queue that is not empty gives the cycle something to do.               *)
LEMMA SomethingTaken ==
  ASSUME queue \in Seq(Entries), queue # <<>>
  PROVE  Taken # {}
<1>1. Queued \subseteq IndexDocs /\ Queued \subseteq Nat /\ Queued # {}
  <2>1. DOMAIN queue = 1..Len(queue) /\ Len(queue) \in Nat /\ Len(queue) # 0
    OBVIOUS
  <2>2. \A i \in DOMAIN queue : queue[i] \in Entries
    OBVIOUS
  <2>3. 1 \in DOMAIN queue
    BY <2>1
  <2> QED  BY <2>2, <2>3, EntryParts DEF Queued
<1>2. PICK d \in Queued : \A e \in Queued : d <= e
  BY <1>1, LeastNumber
<1>3. ASSUME NEW e \in Queued, e < d  PROVE FALSE
  <2>1. d \in Nat /\ e \in Nat /\ d <= e
    BY <1>1, <1>2
  <2> QED  BY <1>3, <2>1
<1> DEFINE before == {e \in Queued : e < d}
<1>4. before = {}
  BY <1>3
<1> HIDE DEF before
<1>5. Cardinality(before) = 0
  BY <1>4, FS_EmptySet
<1>6. Cardinality(before) < Batch
  BY <1>5, IndexAssumption
<1> QED  BY <1>6 DEF Taken, before

(* The entry being handled is one of those that are left.                   *)
LEMMA CurrentIsTodo ==
  ASSUME todo \subseteq Entries, todo # {}
  PROVE  Current \in todo
<1> DEFINE T == {e.doc : e \in todo}
<1>1. T \subseteq Nat /\ T # {}
  BY EntryParts
<1>2. \E i \in T : \A j \in T : i <= j
  <2> HIDE DEF T
  <2> QED  BY <1>1, LeastNumber
<1>3. \E e \in todo : \A f \in todo : e.doc <= f.doc
  BY <1>2
<1> QED  BY <1>3 DEF Current

-----------------------------------------------------------------------------
(* Types                                                                    *)

IndexInv == IndexTypeOK /\ Versions

(* The initial state has the types.                                         *)
LEMMA IndexInvInit == Init => IndexInv
<1> SUFFICES ASSUME Init  PROVE IndexInv
  OBVIOUS
<1>1. NotIndexed \in Reads
  BY IndexAssumption DEF NotIndexed, Reads
<1>2. queue \in Seq(Entries) /\ Len(queue) = 0
  BY DEF Init
<1> QED  BY <1>1, <1>2, IndexAssumption DEF Init, IndexInv, IndexTypeOK, Versions

(* A change puts one entry behind the others.                               *)
LEMMA EntryAdded ==
  ASSUME IndexInv, NEW d \in IndexDocs, NEW action \in {"index", "delete"}, Enqueue(d, action)
  PROVE  /\ writes' = writes + 1 /\ writes' \in 0..MaxWrites
         /\ queue' \in Seq(Entries) /\ Len(queue') = writes'
         /\ \A i \in DOMAIN queue : i \in DOMAIN queue' /\ queue'[i] = queue[i]
<1>1. [doc |-> d, action |-> action] \in Entries
  BY DEF Entries
<1>2. queue \in Seq(Entries) /\ Len(queue) = writes /\ writes \in Nat /\ writes < MaxWrites
      /\ writes' = writes + 1 /\ queue' = Append(queue, [doc |-> d, action |-> action])
  BY DEF Enqueue, IndexInv, Versions
<1>3. queue' \in Seq(Entries) /\ Len(queue') = Len(queue) + 1
  BY <1>1, <1>2
<1>4. \A i \in DOMAIN queue : i \in DOMAIN queue' /\ queue'[i] = queue[i]
  BY <1>1, <1>2
<1> QED  BY <1>2, <1>3, <1>4, IndexAssumption

Writing(d) ==
  InsertDoc(d) \/ UpdateDoc(d) \/ WriteJob(d) \/ DeleteDoc(d)

(* The changes keep the types.                                              *)
LEMMA WritingKeeps ==
  ASSUME IndexInv, NEW d \in IndexDocs, Writing(d)
  PROVE  IndexInv'
<1>1. /\ writes' = writes + 1 /\ writes \in Nat /\ writes' \in 0..MaxWrites
      /\ queue' \in Seq(Entries) /\ Len(queue') = writes'
  BY EntryAdded
  DEF Writing, InsertDoc, UpdateDoc, WriteJob, DeleteDoc, IndexInv, Versions
<1>2. UNCHANGED <<index, indexer, failedCalls, crashes>>
  BY DEF Writing, InsertDoc, UpdateDoc, WriteJob, DeleteDoc, Enqueue
<1>3. row' \in [IndexDocs -> 0..writes'] /\ jobs' \in [IndexDocs -> 0..writes']
  <2>1. row \in [IndexDocs -> 0..writes] /\ jobs \in [IndexDocs -> 0..writes]
    BY DEF IndexInv, Versions
  <2>2. \A n \in 0..writes : n \in 0..writes' /\ n + 1 \in 0..writes'
    BY <1>1
  <2>3. 0 \in 0..writes' /\ 1 \in 0..writes'
    BY <1>1
  <2>4. row \in [IndexDocs -> 0..writes'] /\ jobs \in [IndexDocs -> 0..writes']
    BY <2>1, <2>2
  <2> QED
    BY <2>1, <2>2, <2>3, <2>4
    DEF Writing, InsertDoc, UpdateDoc, WriteJob, DeleteDoc
<1>4. state' \in [IndexDocs -> {"new", "present", "deleted"}] /\ deleting' \subseteq IndexDocs
  BY DEF Writing, InsertDoc, UpdateDoc, WriteJob, DeleteDoc, IndexInv,
         IndexTypeOK
<1>5. row' \in [IndexDocs -> 0..MaxWrites] /\ jobs' \in [IndexDocs -> 0..MaxWrites]
  <2>1. \A n \in 0..writes' : n \in 0..MaxWrites
    BY <1>1, IndexAssumption
  <2> QED  BY <1>3, <2>1
<1> QED
  BY <1>1, <1>2, <1>3, <1>4, <1>5 DEF IndexInv, IndexTypeOK, Versions, indexer

(* The end of an entry keeps the cycle's types.                             *)
LEMMA NextEntryKeeps ==
  ASSUME IndexInv, pc \notin {"boot", "poll"}, NextEntry
  PROVE  /\ pc' \in {"poll", "entry"} /\ todo' \subseteq Entries
         /\ (todo' = {} <=> pc' \in {"boot", "poll"})
         /\ copy' \in Reads
<1>1. Current \in todo /\ todo \subseteq Entries
  BY CurrentIsTodo DEF IndexInv, IndexTypeOK
<1>2. todo' = {} <=> todo = {Current}
  BY <1>1 DEF NextEntry
<1>3. NotIndexed \in Reads
  BY IndexAssumption DEF NotIndexed, Reads
<1> QED  BY <1>1, <1>2, <1>3 DEF NextEntry

(* The indexer keeps the types.                                             *)
LEMMA IndexerKeeps == ASSUME IndexInv, Indexer  PROVE IndexInv'
<1>1. CASE Backfill
  BY <1>1 DEF Backfill, IndexInv, IndexTypeOK, Versions, database, indexBounds
<1>2. CASE TakeEntries
  <2>1. queue \in Seq(Entries) /\ queue # <<>>
    BY <1>2 DEF TakeEntries, IndexInv, Versions
  <2>2. todo' \subseteq Entries /\ todo' # {}
    <3>1. Taken # {} /\ Taken \subseteq Queued
      BY <2>1, SomethingTaken DEF Taken
    <3> QED  BY <1>2, <2>1, <3>1, NewestIsEntry DEF TakeEntries
  <2> QED
    BY <1>2, <2>2 DEF TakeEntries, IndexInv, IndexTypeOK, Versions, database, indexBounds
<1>3. CASE ReadDocument \/ CollectStageData \/ ListJobs
  <2>1. Current \in todo /\ todo \subseteq Entries
    BY <1>3, CurrentIsTodo
    DEF ReadDocument, CollectStageData, ListJobs, IndexInv, IndexTypeOK
  <2>2. Current.doc \in IndexDocs
    BY <2>1, EntryParts
  <2>3. row[Current.doc] \in 0..MaxWrites /\ jobs[Current.doc] \in 0..MaxWrites
    BY <2>2 DEF IndexInv, IndexTypeOK
  <2>4. copy' \in Reads
    BY <1>3, <2>3
    DEF ReadDocument, CollectStageData, ListJobs, IndexInv, IndexTypeOK, Reads
  <2> QED
    BY <1>3, <2>4
    DEF ReadDocument, CollectStageData, ListJobs, IndexInv, IndexTypeOK, Versions,
        database, indexBounds
<1>4. CASE IndexOrDelete
  <2>1. Called \in [IndexDocs -> Reads]
    BY DEF Called, IndexInv, IndexTypeOK
  <2> QED
    BY <1>4, <2>1
    DEF IndexOrDelete, AtCall, IndexInv, IndexTypeOK, Versions, database, indexBounds
<1>5. CASE EntryGone \/ CallFails \/ DeleteEntries
  <2>1. NextEntry /\ pc \notin {"boot", "poll"}
    BY <1>5 DEF EntryGone, CallFails, DeleteEntries, AtCall
  <2>2. index' \in [IndexDocs -> Reads]
    BY <1>5 DEF EntryGone, CallFails, DeleteEntries, Called, IndexInv, IndexTypeOK
  <2>3. UNCHANGED <<database, deleting, writes, crashes>> /\ failedCalls' \in 0..MaxFailedCalls
    BY <1>5, IndexAssumption
    DEF EntryGone, CallFails, DeleteEntries, indexBounds, IndexInv, IndexTypeOK
  <2> QED
    BY <2>1, <2>2, <2>3, NextEntryKeeps DEF IndexInv, IndexTypeOK, Versions, database
<1> QED  BY <1>1, <1>2, <1>3, <1>4, <1>5 DEF Indexer

(* Every step keeps the types.                                              *)
LEMMA IndexInvStep == IndexInv /\ [Next]_vars => IndexInv'
<1> SUFFICES ASSUME IndexInv, [Next]_vars  PROVE IndexInv'
  OBVIOUS
<1>0. NotIndexed \in Reads
  BY IndexAssumption DEF NotIndexed, Reads
<1>1. ASSUME NEW d \in IndexDocs, Writing(d)  PROVE IndexInv'
  BY <1>1, WritingKeeps
<1>2. ASSUME NEW d \in IndexDocs, ClearIndex(d)  PROVE IndexInv'
  BY <1>0, <1>2
  DEF ClearIndex, IndexInv, IndexTypeOK, Versions, database, indexer, indexBounds
<1>3. CASE Crash
  BY <1>0, <1>3, IndexAssumption DEF Crash, IndexInv, IndexTypeOK, Versions, database
<1>4. CASE UNCHANGED vars
  BY <1>4 DEF vars, IndexInv, IndexTypeOK, Versions, database, indexer, indexBounds
<1> QED  BY <1>1, <1>2, <1>3, <1>4, IndexerKeeps DEF Next, Writing

(* The strengthening always holds.                                          *)
LEMMA IndexInvHolds == Spec => []IndexInv
BY IndexInvInit, IndexInvStep, PTL DEF Spec

(* Type correctness; the queue has an entry for every write, and the        *)
(* indexer is in a cycle exactly while it has entries to handle.            *)
THEOREM IndexTypesCorrect == Spec => []IndexTypeOK
<1>1. IndexInv => IndexTypeOK
  BY DEF IndexInv
<1> QED  BY <1>1, IndexInvHolds, PTL

-----------------------------------------------------------------------------
(* Who is never indexed                                                     *)

(* No entry of the document is being handled, and a whole cycle's documents *)
(* come before it.                                                          *)
Starved(d) ==
  /\ Cardinality({e \in Queued : e < d}) >= Batch
  /\ \A e \in todo : e.doc # d

(* The queue loses no entry.                                                *)
LEMMA QueuedGrows ==
  ASSUME IndexInv, [Next]_vars
  PROVE  Queued \subseteq Queued' /\ Queued' \subseteq IndexDocs
<1>1. queue' = queue \/ \E d \in IndexDocs, action \in {"index", "delete"} : Enqueue(d, action)
  BY DEF Next, Indexer, InsertDoc, UpdateDoc, WriteJob, DeleteDoc,
         ClearIndex, Backfill, TakeEntries, ReadDocument, EntryGone, CollectStageData,
         ListJobs, IndexOrDelete, CallFails, DeleteEntries, Crash, vars, database
<1>2. \A i \in DOMAIN queue : i \in DOMAIN queue' /\ queue'[i] = queue[i]
  BY <1>1, EntryAdded
<1>3. IndexInv'
  BY IndexInvStep
<1>4. \A i \in DOMAIN queue' : queue'[i] \in Entries
  BY <1>3 DEF IndexInv, Versions
<1> QED  BY <1>2, <1>4, EntryParts DEF Queued

(* Whoever is starved stays so: its entries are never taken again.          *)
LEMMA StarvedStays ==
  ASSUME NEW d \in IndexDocs, IndexInv, Starved(d), [Next]_vars
  PROVE  Starved(d)'
<1> DEFINE before == {e \in Queued : e < d}
<1>1. before \subseteq before' /\ before' \subseteq IndexDocs
  BY QueuedGrows
<1>2. IsFiniteSet(IndexDocs)
  BY FS_Interval, IndexAssumption DEF IndexDocs
<1>3. IsFiniteSet(before') /\ Cardinality(before) <= Cardinality(before')
      /\ Cardinality(before) \in Nat /\ Cardinality(before') \in Nat
  <2> HIDE DEF before
  <2>1. IsFiniteSet(before')
    BY <1>1, <1>2, FS_Subset
  <2>2. Cardinality(before) <= Cardinality(before') /\ IsFiniteSet(before)
    BY <1>1, <2>1, FS_Subset
  <2> QED  BY <2>1, <2>2, FS_CardinalityType
<1>4. Cardinality(before) >= Batch /\ \A e \in todo : e.doc # d
  BY DEF Starved
<1>5. Cardinality(before') >= Batch
  BY <1>3, <1>4, IndexAssumption
<1>6. todo' \subseteq todo \/ TakeEntries
  BY DEF Next, Indexer, InsertDoc, UpdateDoc, WriteJob, DeleteDoc, Enqueue,
         ClearIndex, Backfill, ReadDocument, EntryGone, CollectStageData, ListJobs,
         IndexOrDelete, CallFails, DeleteEntries, NextEntry, Crash, vars, indexer
<1>7. CASE TakeEntries
  <2>1. d \notin Taken
    BY <1>3, <1>4, IndexAssumption DEF Taken
  <2>2. \A t \in Taken : Newest(t).doc = t
    BY NewestIsEntry DEF Taken, IndexInv, Versions
  <2>3. \A e \in todo' : e.doc # d
    BY <1>7, <2>1, <2>2 DEF TakeEntries
  <2> QED  BY <1>5, <2>3 DEF Starved
<1> QED  BY <1>4, <1>5, <1>6, <1>7 DEF Starved

(* As no entry ever leaves the queue (indexer.go:137), a document behind    *)
(* Batch others that ever had an entry is never put into the index again:   *)
(* what the index holds of it stays, or is cleared by its delete, whatever  *)
(* is written to it and however long the indexer runs.                      *)
THEOREM StarvedForEver ==
  ASSUME NEW d \in IndexDocs
  PROVE  Spec => /\ [](Starved(d) => []Starved(d))
                 /\ [][Starved(d) => index'[d] \in {index[d], NotIndexed}]_index
<1>1. IndexInv /\ Starved(d) /\ [Next]_vars => Starved(d)'
  BY StarvedStays
<1>2. IndexInv /\ [Next]_vars => [Starved(d) => index'[d] \in {index[d], NotIndexed}]_index
  <2> SUFFICES ASSUME IndexInv, Next, Starved(d), index' # index
               PROVE  index'[d] \in {index[d], NotIndexed}
    BY DEF vars
  <2>1. CASE \E e \in IndexDocs : ClearIndex(e)
    BY <2>1 DEF ClearIndex, IndexInv, IndexTypeOK
  <2>2. CASE IndexOrDelete \/ CallFails
    <3>1. index' = Called /\ todo # {} /\ todo \subseteq Entries
      BY <2>2 DEF IndexOrDelete, CallFails, AtCall, IndexInv, IndexTypeOK
    <3>2. Current.doc # d
      BY <3>1, CurrentIsTodo DEF Starved
    <3> QED  BY <3>1, <3>2 DEF Called, IndexInv, IndexTypeOK
  <2> QED
    BY <2>1, <2>2
    DEF Next, Indexer, InsertDoc, UpdateDoc, WriteJob, DeleteDoc, Enqueue,
        Backfill, TakeEntries, ReadDocument, EntryGone, CollectStageData, ListJobs,
        DeleteEntries, Crash
<1> QED  BY <1>1, <1>2, IndexInvHolds, PTL DEF Spec
-----------------------------------------------------------------------------
(***************************************************************************)
(* Chunking                                                                *)
(***************************************************************************)

Intervals == [from : Nat, to : Nat]

(* The text and the settings, which stay.                                   *)
TextShapes ==
  /\ length \in Nat \ {0} /\ ink \subseteq 1..length /\ headings \subseteq 1..length
  /\ size \in Nat \ {0} /\ overlap \in Nat \ {0}
  /\ \A h \in headings : HasInk(SectionAt(h))

(* What the loops are at.                                                   *)
ChunkShapes ==
  /\ TextShapes
  /\ loop \in {"sections", "windows", "over"}
  /\ first \in 1..length + 1 /\ (first \in headings \/ first = 1 \/ first = length + 1)
  /\ start \in Nat
  /\ packed \in Intervals /\ chunks \in Seq(Intervals)
  /\ loop = "windows" => first <= length /\ start \in first..Section.to
  /\ loop = "over" => first = length + 1
  /\ packed # Nothing => loop = "sections"

(* What is packed is a chunk of its own that ends where the section begins. *)
PackedWell ==
  packed # Nothing =>
    /\ 1 <= packed.from /\ packed.from <= packed.to /\ packed.to + 1 = first
    /\ HasInk(packed) /\ SizeOf(packed) <= size

(* up to which rune the text is in the chunks                               *)
Reached ==
  IF loop = "windows" THEN start ELSE IF packed # Nothing THEN packed.from ELSE first

InChunks(r) == \E i \in DOMAIN chunks : chunks[i].from <= r /\ r <= chunks[i].to

Carried == \A r \in ink : r < Reached => InChunks(r)

(* One chunk may follow another: it begins and ends behind it, and they     *)
(* overlap in one section only.                                             *)
MayFollow(b, c) ==
  /\ b.from < c.from /\ b.to < c.to
  /\ c.from <= b.to => \A h \in headings : ~(b.from < h /\ h <= c.to)

ChunkFits(c) == HasInk(c) /\ SizeOf(c) <= size

ChunksFit ==
  /\ \A i \in DOMAIN chunks : ChunkFits(chunks[i])
  /\ \A i \in 2..Len(chunks) : MayFollow(chunks[i - 1], chunks[i])

(* The last chunk ends before what comes next; a window may overlap with    *)
(* the one before.                                                          *)
LastChunk ==
  chunks # <<>> =>
    LET b == chunks[Len(chunks)] IN
    /\ loop # "windows" => b.to < Reached
    /\ loop = "windows" => /\ b.from < start /\ b.to < WindowEnd
                           /\ start <= b.to => first <= b.from

ChunkInv == ChunkShapes /\ PackedWell /\ Carried /\ ChunksFit /\ LastChunk

(* A section ends where the next heading begins, or with the text.          *)
LEMMA SectionEnds ==
  ASSUME NEW from \in Nat, length \in Nat, from <= length, headings \subseteq 1..length
  PROVE  /\ SectionEnd(from) \in from..length
         /\ SectionEnd(from) = length \/ SectionEnd(from) + 1 \in headings
         /\ \A h \in headings : ~(from < h /\ h <= SectionEnd(from))
<1> DEFINE T == {to \in from..length : to = length \/ to + 1 \in headings}
<1>1. T \subseteq Nat /\ length \in T
  OBVIOUS
<1>2. PICK e \in T : \A j \in T : e <= j
  <2> HIDE DEF T
  <2> QED  BY <1>1, LeastNumber
<1>3. ASSUME NEW h \in headings, from < h, h <= e  PROVE FALSE
  <2>1. h \in Nat /\ e \in Nat /\ e <= length
    OBVIOUS
  <2>2. h - 1 \in from..length /\ (h - 1) + 1 = h
    BY <1>3, <2>1
  <2>3. h - 1 \in T
    BY <2>2
  <2>4. e <= h - 1
    BY <1>2, <2>3
  <2> QED  BY <1>3, <2>1, <2>4
<1>4. \E to \in from..length :
        /\ to = length \/ to + 1 \in headings
        /\ \A h \in headings : ~(from < h /\ h <= to)
  BY <1>3
<1> QED  BY <1>4 DEF SectionEnd

(* A section that is looked at.                                             *)
LEMMA SectionMeans ==
  ASSUME ChunkShapes, first <= length
  PROVE  /\ Section \in Intervals /\ Section.from = first
         /\ Section.to \in Nat /\ first <= Section.to /\ Section.to <= length
         /\ \A h \in headings : ~(first < h /\ h <= Section.to)
         /\ Section.to + 1 \in headings \/ Section.to + 1 = length + 1
<1>1. first \in Nat /\ length \in Nat
  BY DEF ChunkShapes, TextShapes
<1>2. Section = [from |-> first, to |-> SectionEnd(first)]
  BY DEF Section, SectionAt, From
<1>3. headings \subseteq 1..length
  BY DEF ChunkShapes, TextShapes
<1>4. /\ SectionEnd(first) \in first..length
      /\ SectionEnd(first) = length \/ SectionEnd(first) + 1 \in headings
      /\ \A h \in headings : ~(first < h /\ h <= SectionEnd(first))
  BY <1>1, <1>3, SectionEnds
<1> HIDE DEF Section
<1> QED  BY <1>1, <1>2, <1>4 DEF Intervals

(* Only what comes before the first heading may be blank.                   *)
LEMMA BlankIsFirst ==
  ASSUME ChunkShapes, PackedWell, first <= length, ~HasInk(Section)
  PROVE  packed = Nothing
<1>1. first \notin headings
  BY DEF ChunkShapes, TextShapes, Section
<1>2. first = 1
  BY <1>1 DEF ChunkShapes, TextShapes
<1> QED  BY <1>2 DEF PackedWell, ChunkShapes, TextShapes, Intervals

(* An interval with ink has a rune between its ends.                        *)
LEMMA InkBetween ==
  ASSUME ink \subseteq Nat, NEW c \in Intervals, HasInk(c)
  PROVE  c.from <= c.to
BY DEF HasInk, Intervals

(* A chunk is added behind the others.                                      *)
LEMMA ChunkAdded ==
  ASSUME chunks \in Seq(Intervals), ChunksFit, NEW c \in Intervals, ChunkFits(c),
         chunks # <<>> => MayFollow(chunks[Len(chunks)], c),
         chunks' = Append(chunks, c),
         UNCHANGED text
  PROVE  /\ chunks' \in Seq(Intervals) /\ chunks' # <<>> /\ chunks'[Len(chunks')] = c
         /\ ChunksFit'
         /\ \A r : InChunks(r)' <=> InChunks(r) \/ (c.from <= r /\ r <= c.to)
<1>1. /\ chunks' \in Seq(Intervals) /\ Len(chunks') = Len(chunks) + 1 /\ Len(chunks) \in Nat
      /\ DOMAIN chunks = 1..Len(chunks) /\ DOMAIN chunks' = 1..Len(chunks) + 1
      /\ chunks'[Len(chunks) + 1] = c
      /\ \A i \in 1..Len(chunks) : chunks'[i] = chunks[i]
  OBVIOUS
<1>2. /\ \A b : ChunkFits(b)' <=> ChunkFits(b)
      /\ \A a, b : MayFollow(a, b)' <=> MayFollow(a, b)
  BY DEF ChunkFits, MayFollow, HasInk, SizeOf, text
<1>3. \A i \in DOMAIN chunks' : i \in 1..Len(chunks) \/ i = Len(chunks) + 1
  BY <1>1
<1>4. \A i \in DOMAIN chunks' : ChunkFits(chunks'[i])
  BY <1>1, <1>3 DEF ChunksFit
<1>5. ASSUME NEW i \in 2..Len(chunks')  PROVE MayFollow(chunks'[i - 1], chunks'[i])
  <2>1. CASE i = Len(chunks')
    <3>1. i - 1 = Len(chunks) /\ i - 1 \in 1..Len(chunks) /\ chunks # <<>>
      BY <1>1, <2>1
    <3> QED  BY <1>1, <2>1, <3>1
  <2>2. CASE i # Len(chunks')
    <3>1. i \in 2..Len(chunks) /\ i - 1 \in 1..Len(chunks) /\ i \in 1..Len(chunks)
      BY <1>1, <2>2
    <3> QED  BY <1>1, <3>1 DEF ChunksFit
  <2> QED  BY <2>1, <2>2
<1>6. ChunksFit'
  BY <1>2, <1>4, <1>5 DEF ChunksFit
<1>7. chunks' # <<>> /\ chunks'[Len(chunks')] = c
  BY <1>1
<1>8. ASSUME NEW r  PROVE InChunks(r)' <=> InChunks(r) \/ (c.from <= r /\ r <= c.to)
  <2>1. Len(chunks) + 1 \in DOMAIN chunks'
    BY <1>1
  <2> QED  BY <1>1, <1>3, <2>1 DEF InChunks
<1> QED  BY <1>1, <1>6, <1>7, <1>8

(* Flushing puts what is packed behind the chunks; then they carry all the  *)
(* text before the section.                                                 *)
LEMMA FlushKeeps ==
  ASSUME ChunkInv, loop = "sections", chunks' = Flushed, UNCHANGED text
  PROVE  /\ chunks' \in Seq(Intervals) /\ ChunksFit'
         /\ \A r \in ink : r < first => InChunks(r)'
         /\ chunks' # <<>> => chunks'[Len(chunks')].to < first
<1>1. /\ chunks \in Seq(Intervals) /\ packed \in Intervals /\ ink \subseteq Nat
      /\ first \in Nat
  BY DEF ChunkInv, ChunkShapes, TextShapes
<1>2. CASE packed = Nothing
  <2>1. ~HasInk(packed)
    <3>1. packed.from = 1 /\ packed.to = 0
      BY <1>2 DEF Nothing, From
    <3>2. \A r \in Nat : ~(1 <= r /\ r <= 0)
      OBVIOUS
    <3> QED  BY <1>1, <3>1, <3>2 DEF HasInk
  <2>2. chunks' = chunks /\ Reached = first
    BY <1>2, <2>1 DEF Flushed, Reached
  <2>3. ChunksFit'
    BY <2>2 DEF ChunkInv, ChunksFit, ChunkFits, MayFollow, HasInk, SizeOf, text
  <2>4. \A r \in ink : r < first => InChunks(r)'
    BY <2>2 DEF ChunkInv, Carried, InChunks
  <2> QED  BY <1>1, <2>2, <2>3, <2>4 DEF ChunkInv, LastChunk
<1>3. CASE packed # Nothing
  <2>1. /\ 1 <= packed.from /\ packed.from <= packed.to /\ packed.to + 1 = first
        /\ HasInk(packed) /\ SizeOf(packed) <= size
        /\ packed.from \in Nat /\ packed.to \in Nat
    BY <1>1, <1>3 DEF ChunkInv, PackedWell, Intervals
  <2>2. Reached = packed.from /\ chunks' = Append(chunks, packed)
    BY <1>3, <2>1 DEF Flushed, Reached
  <2>3. ASSUME chunks # <<>>  PROVE MayFollow(chunks[Len(chunks)], packed)
    <3> DEFINE b == chunks[Len(chunks)]
    <3>1. b \in Intervals /\ Len(chunks) \in DOMAIN chunks
      BY <1>1, <2>3
    <3>2. b.to < packed.from
      BY <2>2, <2>3 DEF ChunkInv, LastChunk
    <3>3. HasInk(b)
      BY <3>1 DEF ChunkInv, ChunksFit, ChunkFits
    <3> HIDE DEF b
    <3>4. b.from <= b.to /\ b.from \in Nat /\ b.to \in Nat
      BY <1>1, <3>1, <3>3, InkBetween DEF Intervals
    <3>5. b.from < packed.from /\ b.to < packed.to /\ ~(packed.from <= b.to)
      BY <2>1, <3>2, <3>4
    <3>6. MayFollow(b, packed)
      BY <3>5 DEF MayFollow
    <3> QED  BY <3>6 DEF b
  <2>4. ChunkFits(packed) /\ ChunksFit
    BY <2>1 DEF ChunkFits, ChunkInv
  <2>5. /\ chunks' \in Seq(Intervals) /\ chunks' # <<>> /\ chunks'[Len(chunks')] = packed
        /\ ChunksFit'
        /\ \A r : InChunks(r)' <=> InChunks(r) \/ (packed.from <= r /\ r <= packed.to)
    BY <1>1, <2>2, <2>3, <2>4, ChunkAdded
  <2>6. ASSUME NEW r \in ink, r < first  PROVE InChunks(r)'
    <3>1. r < packed.from \/ (packed.from <= r /\ r <= packed.to)
      BY <1>1, <2>1, <2>6
    <3>2. r < packed.from => InChunks(r)
      BY <2>2 DEF ChunkInv, Carried
    <3> QED  BY <2>5, <3>1, <3>2
  <2>7. packed.to < first
    BY <2>1
  <2> QED  BY <2>5, <2>6, <2>7
<1> QED  BY <1>2, <1>3

(* The text stays, so do its sections.                                      *)
LEMMA TextStays ==
  ASSUME UNCHANGED text
  PROVE  /\ length' = length /\ ink' = ink /\ headings' = headings
         /\ size' = size /\ overlap' = overlap
         /\ \A c : HasInk(c)' <=> HasInk(c)
         /\ \A h : SectionEnd(h)' = SectionEnd(h) /\ SectionAt(h)' = SectionAt(h)
         /\ TextShapes => TextShapes'
BY DEF text, HasInk, SectionEnd, SectionAt, From, TextShapes

(* The next section begins at a heading, if there is one.                   *)
LEMMA NextSectionWell ==
  ASSUME ChunkShapes, first <= length, NextSection, UNCHANGED text
  PROVE  /\ first' \in 1..length' + 1 /\ first' = Section.to + 1
         /\ first' \in headings' \/ first' = 1 \/ first' = length' + 1
<1>1. /\ Section.to \in Nat /\ first <= Section.to /\ Section.to <= length
      /\ Section.to + 1 \in headings \/ Section.to + 1 = length + 1
      /\ first \in Nat /\ 1 <= first /\ length \in Nat
  BY SectionMeans DEF ChunkShapes, TextShapes
<1>2. length' = length /\ headings' = headings /\ first' = Section.to + 1
  BY TextStays DEF NextSection
<1> HIDE DEF Section
<1> QED  BY <1>1, <1>2

(* At first nothing was cut.                                                *)
LEMMA ChunkInvInit == ChunkingInit => ChunkInv
<1> SUFFICES ASSUME ChunkingInit  PROVE ChunkInv
  OBVIOUS
<1>1. packed = Nothing /\ packed \in Intervals /\ chunks = <<>> /\ chunks \in Seq(Intervals)
  BY DEF ChunkingInit, Nothing, From, Intervals
<1>2. length \in Nat \ {0} /\ size \in Nat \ {0} /\ overlap \in Nat \ {0}
      /\ first = 1 /\ first \in 1..length + 1
  BY ChunkingAssumption DEF ChunkingInit
<1>3. ChunkShapes
  BY <1>1, <1>2 DEF ChunkingInit, ChunkShapes, TextShapes
<1>4. Reached = 1 /\ \A r \in ink : ~(r < 1)
  BY <1>1, <1>2 DEF ChunkingInit, Reached
<1>5. ChunksFit
  BY <1>1 DEF ChunksFit
<1> QED  BY <1>1, <1>3, <1>4, <1>5 DEF ChunkInv, PackedWell, Carried, LastChunk

(* A blank section is left out.                                             *)
LEMMA DropSectionKeeps == ASSUME ChunkInv, DropSection  PROVE ChunkInv'
<1>1. /\ ChunkShapes /\ PackedWell /\ first <= length /\ ~HasInk(Section)
      /\ NextSection /\ UNCHANGED <<text, loop, start, packed, chunks>>
      /\ loop = "sections"
  BY DEF ChunkInv, DropSection
<1>2. packed = Nothing
  BY <1>1, BlankIsFirst
<1>3. /\ first' \in 1..length' + 1 /\ first' = Section.to + 1
      /\ first' \in headings' \/ first' = 1 \/ first' = length' + 1
  BY <1>1, NextSectionWell
<1>4. ChunkShapes'
  BY <1>1, <1>2, <1>3, TextStays DEF ChunkShapes
<1>5. Reached = first /\ Reached' = first'
  BY <1>1, <1>2 DEF Reached
<1>6. /\ Section.from = first /\ first \in Nat /\ Section.to \in Nat /\ first <= Section.to
      /\ ink \subseteq Nat
  BY <1>1, SectionMeans DEF ChunkShapes, TextShapes
<1>7. ASSUME NEW r \in ink, r < first'  PROVE InChunks(r)
  <2>1. ~(Section.from <= r /\ r <= Section.to)
    BY <1>1 DEF HasInk
  <2>2. r < first
    BY <1>3, <1>6, <1>7, <2>1
  <2> QED  BY <1>5, <2>2 DEF ChunkInv, Carried
<1>8. Carried'
  BY <1>1, <1>5, <1>7, TextStays DEF Carried, InChunks
<1>9. ChunksFit'
  BY <1>1 DEF ChunkInv, ChunksFit, ChunkFits, MayFollow, HasInk, SizeOf, text
<1>10. LastChunk'
  <2> SUFFICES ASSUME chunks # <<>>  PROVE chunks[Len(chunks)].to < first'
    BY <1>1, <1>5 DEF LastChunk
  <2>1. chunks[Len(chunks)].to < first
    BY <1>1, <1>5 DEF ChunkInv, LastChunk
  <2>2. chunks[Len(chunks)].to \in Nat
    <3>1. chunks[Len(chunks)] \in Intervals
      BY <1>1 DEF ChunkShapes, TextShapes
    <3> QED  BY <3>1 DEF Intervals
  <2> QED  BY <1>3, <1>6, <2>1, <2>2
<1> QED  BY <1>1, <1>2, <1>4, <1>8, <1>9, <1>10 DEF ChunkInv, PackedWell

(* A section that is too long begins to be cut.                             *)
LEMMA CutSectionKeeps == ASSUME ChunkInv, CutSection  PROVE ChunkInv'
<1>1. /\ ChunkShapes /\ first <= length /\ UNCHANGED <<text, first>>
      /\ loop = "sections" /\ chunks' = Flushed /\ packed' = Nothing
      /\ loop' = "windows" /\ start' = first
  BY DEF ChunkInv, CutSection, AtSection
<1>2. /\ chunks' \in Seq(Intervals) /\ ChunksFit'
      /\ \A r \in ink : r < first => InChunks(r)'
      /\ chunks' # <<>> => chunks'[Len(chunks')].to < first
  BY <1>1, FlushKeeps
<1>3. /\ Section.to \in Nat /\ first <= Section.to /\ first \in Nat
      /\ Section' = Section
  BY <1>1, SectionMeans, TextStays DEF ChunkShapes, TextShapes, Section
<1>4. ChunkShapes'
  <2>1. packed' \in Intervals
    BY <1>1 DEF Nothing, From, Intervals
  <2>2. first' = first /\ start' \in first'..Section'.to
    BY <1>1, <1>3
  <2> QED  BY <1>1, <1>2, <2>1, <2>2, TextStays DEF ChunkShapes
<1>5. Carried'
  BY <1>1, <1>2, TextStays DEF Carried, Reached
<1>6. LastChunk'
  <2> SUFFICES ASSUME chunks' # <<>>
               PROVE  /\ chunks'[Len(chunks')].from < start'
                      /\ chunks'[Len(chunks')].to < WindowEnd'
                      /\ ~(start' <= chunks'[Len(chunks')].to)
    BY <1>1 DEF LastChunk
  <2> DEFINE b == chunks'[Len(chunks')]
  <2>1. b \in Intervals /\ b.to < first
    BY <1>2
  <2>2. HasInk(b)
    <3>1. Len(chunks') \in DOMAIN chunks'
      BY <1>2
    <3> QED  BY <1>1, <1>2, <3>1 DEF ChunksFit, ChunkFits, HasInk, text
  <2> HIDE DEF b
  <2>3. b.from <= b.to /\ b.from \in Nat /\ b.to \in Nat
    BY <1>1, <2>1, <2>2, InkBetween DEF ChunkShapes, TextShapes, Intervals
  <2>4. WindowEnd' >= first
    <3>1. size' = size /\ size \in Nat \ {0}
      BY <1>1, TextStays DEF ChunkShapes, TextShapes
    <3>2. WindowEnd' = IF first + size - 1 > Section.to THEN Section.to ELSE first + size - 1
      BY <1>1, <1>3, <3>1 DEF WindowEnd
    <3> QED  BY <1>3, <3>1, <3>2
  <2>5. WindowEnd' \in Int
    BY <1>1, <1>3, TextStays DEF WindowEnd, ChunkShapes, TextShapes
  <2>6. b.from < first /\ b.to < WindowEnd' /\ ~(first <= b.to)
    BY <1>3, <2>1, <2>3, <2>4, <2>5
  <2> QED  BY <1>1, <2>6 DEF b
<1> QED  BY <1>1, <1>2, <1>4, <1>5, <1>6 DEF ChunkInv, PackedWell

(* A section as a chunk.                                                    *)
LEMMA SectionFits ==
  ASSUME ChunkShapes, first <= length, HasInk(Section), SizeOf(Section) <= size,
         NextSection, UNCHANGED text, loop' = "sections", packed' = Section
  PROVE  PackedWell' /\ packed' # Nothing /\ packed'.from = first /\ packed' \in Intervals
<1>1. /\ Section \in Intervals /\ Section.from = first /\ first \in Nat /\ 1 <= first
      /\ Section.to \in Nat /\ first <= Section.to /\ first' = Section.to + 1
  BY SectionMeans DEF ChunkShapes, TextShapes, NextSection
<1>2. packed' # Nothing
  <2> HIDE DEF Section
  <2> QED  BY <1>1 DEF Nothing, From
<1>3. HasInk(packed)' /\ SizeOf(packed)' <= size'
  <2>1. HasInk(packed)' <=> HasInk(Section)
    BY DEF HasInk, text
  <2>2. SizeOf(packed)' = SizeOf(Section) /\ size' = size
    BY DEF SizeOf, text
  <2> QED  BY <2>1, <2>2
<1> HIDE DEF Section
<1> QED  BY <1>1, <1>2, <1>3 DEF PackedWell

(* A section that does not fit behind what is packed begins a chunk.        *)
LEMMA BeginChunkKeeps == ASSUME ChunkInv, BeginChunk  PROVE ChunkInv'
<1>1. /\ ChunkShapes /\ first <= length /\ UNCHANGED <<text, loop, start>>
      /\ loop = "sections" /\ chunks' = Flushed /\ packed' = Section
      /\ HasInk(Section) /\ SizeOf(Section) <= size /\ NextSection
  BY DEF ChunkInv, BeginChunk, AtSection
<1>2. /\ chunks' \in Seq(Intervals) /\ ChunksFit'
      /\ \A r \in ink : r < first => InChunks(r)'
      /\ chunks' # <<>> => chunks'[Len(chunks')].to < first
  BY <1>1, FlushKeeps
<1>3. PackedWell' /\ packed' # Nothing /\ packed'.from = first /\ packed' \in Intervals
  BY <1>1, SectionFits
<1>4. /\ first' \in 1..length' + 1
      /\ first' \in headings' \/ first' = 1 \/ first' = length' + 1
  BY <1>1, NextSectionWell
<1>5. ChunkShapes'
  BY <1>1, <1>2, <1>3, <1>4, TextStays DEF ChunkShapes
<1>6. Reached' = first
  BY <1>1, <1>3 DEF Reached
<1>7. Carried' /\ LastChunk'
  BY <1>1, <1>2, <1>6, TextStays DEF Carried, LastChunk
<1> QED  BY <1>2, <1>3, <1>5, <1>7 DEF ChunkInv

(* A section is put behind what is packed.                                  *)
LEMMA PackSectionKeeps == ASSUME ChunkInv, PackSection  PROVE ChunkInv'
<1>1. /\ ChunkShapes /\ PackedWell /\ first <= length /\ UNCHANGED <<text, loop, start, chunks>>
      /\ loop = "sections" /\ ~Overflows
      /\ packed' = IF packed = Nothing THEN Section ELSE From(packed.from, Section.to)
      /\ HasInk(Section) /\ SizeOf(Section) <= size /\ NextSection
  BY DEF ChunkInv, PackSection, AtSection
<1>2. /\ Section \in Intervals /\ Section.from = first /\ first \in Nat /\ 1 <= first
      /\ Section.to \in Nat /\ first <= Section.to /\ first' = Section.to + 1
  BY <1>1, SectionMeans DEF ChunkShapes, TextShapes, NextSection
<1>3. PackedWell' /\ packed' \in Intervals /\ Reached' = Reached
  <2>1. CASE packed = Nothing
    <3>1. packed' = Section
      BY <1>1, <2>1
    <3>2. PackedWell' /\ packed' # Nothing /\ packed'.from = first /\ packed' \in Intervals
      BY <1>1, <3>1, SectionFits
    <3> QED  BY <1>1, <2>1, <3>2 DEF Reached
  <2>2. CASE packed # Nothing
    <3>1. /\ 1 <= packed.from /\ packed.from <= packed.to /\ packed.to + 1 = first
          /\ packed.from \in Nat /\ packed.to \in Nat /\ HasInk(packed)
      BY <1>1, <2>2 DEF PackedWell, ChunkShapes, Intervals
    <3>2. packed' = [from |-> packed.from, to |-> Section.to]
      BY <1>1, <2>2 DEF From
    <3>3. SizeOf(packed)' <= size'
      <4>1. SizeOf(packed) + SizeOf(Section) <= size
        <5>1. ~(SizeOf(packed) + SizeOf(Section) > size)
          BY <1>1, <2>2 DEF Overflows
        <5>2. SizeOf(packed) \in Int /\ SizeOf(Section) \in Int /\ size \in Int
          BY <1>1, <1>2, <3>1 DEF SizeOf, ChunkShapes, TextShapes
        <5> QED  BY <5>1, <5>2
      <4>2. SizeOf(packed) = packed.to + 1 - packed.from
            /\ SizeOf(Section) = Section.to + 1 - first
        BY <1>2 DEF SizeOf
      <4>3. SizeOf(packed)' = Section.to + 1 - packed.from /\ size' = size
        BY <1>1, <3>2, TextStays DEF SizeOf
      <4>4. size \in Nat
        BY <1>1 DEF ChunkShapes, TextShapes
      <4> HIDE DEF Section
      <4> QED  BY <1>2, <3>1, <4>1, <4>2, <4>3, <4>4
    <3>4. HasInk(packed)'
      <4>1. PICK r \in ink : packed.from <= r /\ r <= packed.to
        BY <3>1 DEF HasInk
      <4>2. r \in Nat /\ r \in ink'
        BY <1>1, TextStays DEF ChunkShapes, TextShapes
      <4>3. packed'.from <= r /\ r <= packed'.to
        BY <1>2, <3>1, <3>2, <4>1, <4>2
      <4> QED  BY <4>2, <4>3 DEF HasInk
    <3>5. packed'.from = packed.from /\ packed'.to = Section.to /\ packed' \in Intervals
      BY <1>2, <3>1, <3>2 DEF Intervals
    <3>6. PackedWell'
      <4> HIDE DEF Section
      <4> QED  BY <1>2, <3>1, <3>3, <3>4, <3>5 DEF PackedWell
    <3>7. packed' # Nothing
      BY <1>2, <3>5 DEF Nothing, From, Intervals
    <3> QED  BY <1>1, <2>2, <3>5, <3>6, <3>7 DEF Reached
  <2> QED  BY <2>1, <2>2
<1>4. /\ first' \in 1..length' + 1
      /\ first' \in headings' \/ first' = 1 \/ first' = length' + 1
  BY <1>1, NextSectionWell
<1>5. ChunkShapes'
  BY <1>1, <1>3, <1>4, TextStays DEF ChunkShapes
<1>6. ChunksFit'
  BY <1>1 DEF ChunkInv, ChunksFit, ChunkFits, MayFollow, HasInk, SizeOf, text
<1>7. Carried'
  BY <1>1, <1>3, TextStays DEF ChunkInv, Carried, InChunks
<1>8. LastChunk'
  BY <1>1, <1>3 DEF ChunkInv, LastChunk
<1> QED  BY <1>3, <1>5, <1>6, <1>7, <1>8 DEF ChunkInv

(* What is packed at the end is the last chunk.                             *)
LEMMA FlushLastKeeps == ASSUME ChunkInv, FlushLast  PROVE ChunkInv'
<1>1. /\ ChunkShapes /\ first > length /\ UNCHANGED <<text, first, start>>
      /\ loop = "sections" /\ chunks' = Flushed /\ packed' = Nothing /\ loop' = "over"
  BY DEF ChunkInv, FlushLast
<1>2. /\ chunks' \in Seq(Intervals) /\ ChunksFit'
      /\ \A r \in ink : r < first => InChunks(r)'
      /\ chunks' # <<>> => chunks'[Len(chunks')].to < first
  BY <1>1, FlushKeeps
<1>3. first = length + 1
  BY <1>1 DEF ChunkShapes, TextShapes
<1>4. ChunkShapes'
  <2>1. packed' \in Intervals
    BY <1>1 DEF Nothing, From, Intervals
  <2> QED  BY <1>1, <1>2, <1>3, <2>1, TextStays DEF ChunkShapes
<1>5. Reached' = first
  BY <1>1 DEF Reached
<1>6. Carried' /\ LastChunk'
  BY <1>1, <1>2, <1>5, TextStays DEF Carried, LastChunk
<1> QED  BY <1>1, <1>2, <1>4, <1>6 DEF ChunkInv, PackedWell

(* A window is a chunk, or blank; the next one begins before it ends, or    *)
(* right behind it.                                                         *)
LEMMA CutWindowKeeps == ASSUME ChunkInv, CutWindow  PROVE ChunkInv'
<1>1. /\ ChunkShapes /\ loop = "windows" /\ KeepWindow /\ UNCHANGED <<text, packed>>
      /\ first <= length /\ start \in first..Section.to /\ packed = Nothing
  BY DEF ChunkInv, CutWindow, ChunkShapes
<1>2. /\ Section.to \in Nat /\ first <= Section.to /\ first \in Nat /\ 1 <= first
      /\ start \in Nat /\ first <= start /\ start <= Section.to
      /\ \A h \in headings : ~(first < h /\ h <= Section.to)
      /\ size \in Nat \ {0} /\ overlap \in Nat \ {0} /\ ink \subseteq Nat /\ headings \subseteq Nat
  BY <1>1, SectionMeans DEF ChunkShapes, TextShapes
<1> DEFINE end == Section.to
<1>3. /\ WindowEnd = IF start + size - 1 > end THEN end ELSE start + size - 1
      /\ WindowEnd \in Nat /\ start <= WindowEnd /\ WindowEnd <= end
      /\ WindowEnd <= start + size - 1
  BY <1>2 DEF WindowEnd
<1>4. StepSize \in Nat /\ 1 <= StepSize /\ StepSize <= size
  BY <1>2 DEF StepSize
<1>5. Window = [from |-> start, to |-> WindowEnd] /\ Window \in Intervals
  BY <1>2, <1>3 DEF Window, From, Intervals
<1> DEFINE b == chunks[Len(chunks)]
<1>6. ASSUME chunks # <<>>
      PROVE  /\ b.from \in Nat /\ b.to \in Nat /\ b.from < start /\ b.to < WindowEnd
             /\ start <= b.to => first <= b.from
  <2>1. b \in Intervals
    BY <1>1, <1>6 DEF ChunkShapes
  <2> QED  BY <1>1, <1>6, <2>1 DEF ChunkInv, LastChunk, Intervals
<1>7. chunks # <<>> => MayFollow(b, Window)
  <2> SUFFICES ASSUME chunks # <<>>  PROVE MayFollow(b, Window)
    OBVIOUS
  <2>1. ASSUME start <= b.to, NEW h \in headings, b.from < h, h <= WindowEnd  PROVE FALSE
    <3>1. first < h /\ h <= Section.to
      <4> HIDE DEF b
      <4> QED  BY <1>2, <1>3, <1>6, <2>1
    <3> QED  BY <1>2, <3>1
  <2> HIDE DEF b
  <2> QED  BY <1>5, <1>6, <2>1 DEF MayFollow
<1> HIDE DEF end
<1>8. /\ chunks' \in Seq(Intervals) /\ ChunksFit'
      /\ \A r : InChunks(r) => InChunks(r)'
      /\ \A r \in ink : start <= r /\ r <= WindowEnd => InChunks(r)'
      /\ chunks' # <<>> => \/ chunks'[Len(chunks')] = Window
                           \/ chunks # <<>> /\ chunks'[Len(chunks')] = b
  <2>1. CASE HasInk(Window)
    <3>1. chunks' = Append(chunks, Window)
      BY <1>1, <2>1 DEF KeepWindow
    <3>2. SizeOf(Window) <= size
      BY <1>2, <1>3, <1>5 DEF SizeOf
    <3>3. ChunkFits(Window) /\ ChunksFit /\ chunks \in Seq(Intervals)
      BY <1>1, <2>1, <3>2 DEF ChunkFits, ChunkInv, ChunkShapes
    <3>4. /\ chunks' \in Seq(Intervals) /\ chunks' # <<>> /\ chunks'[Len(chunks')] = Window
          /\ ChunksFit'
          /\ \A r : InChunks(r)' <=> InChunks(r) \/ (Window.from <= r /\ r <= Window.to)
      BY <1>1, <1>5, <1>7, <3>1, <3>3, ChunkAdded
    <3> QED  BY <1>5, <3>4
  <2>2. CASE ~HasInk(Window)
    <3>1. chunks' = chunks
      BY <1>1, <2>2 DEF KeepWindow
    <3>2. ChunksFit'
      BY <1>1, <3>1 DEF ChunkInv, ChunksFit, ChunkFits, MayFollow, HasInk, SizeOf, text
    <3>3. \A r \in ink : ~(start <= r /\ r <= WindowEnd)
      BY <1>5, <2>2 DEF HasInk
    <3> QED  BY <1>1, <3>1, <3>2, <3>3 DEF InChunks, ChunkShapes
  <2> QED  BY <2>1, <2>2
<1>9. ASSUME NEW r \in ink, r <= WindowEnd  PROVE InChunks(r)'
  <2>1. r < start => InChunks(r)
    BY <1>1 DEF ChunkInv, Carried, Reached
  <2> QED  BY <1>2, <1>8, <1>9, <2>1
<1>10. ASSUME chunks' # <<>>
       PROVE  /\ chunks'[Len(chunks')].from \in Nat /\ chunks'[Len(chunks')].to \in Nat
              /\ chunks'[Len(chunks')].from <= start
              /\ chunks'[Len(chunks')].to <= WindowEnd
              /\ start <= chunks'[Len(chunks')].to => first <= chunks'[Len(chunks')].from
  <2>1. CASE chunks'[Len(chunks')] = Window
    BY <1>2, <1>3, <1>5, <2>1
  <2>2. CASE chunks # <<>> /\ chunks'[Len(chunks')] = b
    <3> HIDE DEF b
    <3> QED  BY <1>2, <1>3, <1>6, <2>2
  <2> QED  BY <1>8, <1>10, <2>1, <2>2
<1> HIDE DEF b
<1>11. CASE WindowEnd = Section.to
  <2>1. NextSection /\ loop' = "sections" /\ start' = start
    BY <1>11 DEF CutWindow
  <2>2. /\ first' \in 1..length' + 1 /\ first' = Section.to + 1
        /\ first' \in headings' \/ first' = 1 \/ first' = length' + 1
    BY <1>1, <2>1, NextSectionWell
  <2>3. ChunkShapes'
    BY <1>1, <1>8, <2>1, <2>2, TextStays DEF ChunkShapes
  <2>4. Reached' = first'
    BY <1>1, <2>1 DEF Reached
  <2>5. Carried'
    <3> SUFFICES ASSUME NEW r \in ink, r < first'  PROVE InChunks(r)'
      BY <1>1, <2>4, TextStays DEF Carried
    <3>1. r <= WindowEnd
      BY <1>2, <1>11, <2>2
    <3> QED  BY <1>9, <3>1
  <2>6. chunks' # <<>> => chunks'[Len(chunks')].to < first'
    BY <1>2, <1>10, <1>11, <2>2
  <2> QED
    BY <1>1, <1>8, <2>1, <2>3, <2>4, <2>5, <2>6 DEF ChunkInv, PackedWell, LastChunk
<1>12. CASE WindowEnd # Section.to
  <2>1. start' = start + StepSize /\ UNCHANGED <<loop, first>>
    BY <1>12 DEF CutWindow
  <2>2. WindowEnd = start + size - 1 /\ WindowEnd < Section.to
    BY <1>2, <1>3, <1>12 DEF end
  <2>3. /\ start' \in Nat /\ start < start' /\ start' <= WindowEnd + 1
        /\ start' <= Section.to
    BY <1>2, <1>4, <2>1, <2>2
  <2>4. Section' = Section
    BY <1>1, <2>1, TextStays DEF Section
  <2>5. ChunkShapes'
    <3>1. start' \in first'..Section'.to
      BY <1>2, <2>1, <2>3, <2>4
    <3> QED  BY <1>1, <1>8, <2>1, <2>3, <3>1, TextStays DEF ChunkShapes
  <2>6. WindowEnd < WindowEnd' /\ WindowEnd' \in Int
    <3>1. WindowEnd' = IF start' + size - 1 > Section.to THEN Section.to ELSE start' + size - 1
      BY <1>1, <2>4, TextStays DEF WindowEnd
    <3> QED  BY <1>2, <2>2, <2>3, <3>1
  <2>7. Carried'
    <3>1. Reached' = start'
      BY <1>1, <2>1 DEF Reached
    <3> SUFFICES ASSUME NEW r \in ink, r < start'  PROVE InChunks(r)'
      BY <1>1, <3>1, TextStays DEF Carried
    <3>2. r <= WindowEnd
      BY <1>2, <1>3, <2>3
    <3> QED  BY <1>9, <3>2
  <2>8. ASSUME chunks' # <<>>
        PROVE  /\ chunks'[Len(chunks')].from < start'
               /\ chunks'[Len(chunks')].to < WindowEnd'
               /\ start' <= chunks'[Len(chunks')].to => first <= chunks'[Len(chunks')].from
    BY <1>2, <1>3, <1>10, <2>3, <2>6, <2>8
  <2> QED
    BY <1>1, <1>8, <2>1, <2>5, <2>7, <2>8 DEF ChunkInv, PackedWell, LastChunk
<1> QED  BY <1>11, <1>12

(* Every step keeps the strengthening.                                      *)
LEMMA ChunkInvStep == ChunkInv /\ [ChunkingNext]_chunkVars => ChunkInv'
<1> SUFFICES ASSUME ChunkInv, [ChunkingNext]_chunkVars  PROVE ChunkInv'
  OBVIOUS
<1>1. CASE UNCHANGED chunkVars
  <2>1. /\ UNCHANGED <<text, loop, first, start, packed, chunks>>
        /\ Section' = Section /\ Reached' = Reached /\ WindowEnd' = WindowEnd
    BY <1>1, TextStays DEF chunkVars, text, Section, Reached, WindowEnd
  <2>2. ChunkShapes'
    BY <2>1, TextStays DEF ChunkInv, ChunkShapes
  <2>3. PackedWell' /\ ChunksFit'
    BY <2>1 DEF ChunkInv, PackedWell, ChunksFit, ChunkFits, MayFollow, HasInk, SizeOf, text
  <2>4. Carried' /\ LastChunk'
    BY <2>1, TextStays DEF ChunkInv, Carried, LastChunk, InChunks
  <2> QED  BY <2>2, <2>3, <2>4 DEF ChunkInv
<1> QED
  BY <1>1, DropSectionKeeps, CutSectionKeeps, BeginChunkKeeps, PackSectionKeeps,
     FlushLastKeeps, CutWindowKeeps DEF ChunkingNext

(* For every text, every choice of headings, every chunk size and overlap:  *)
(* the chunks carry the whole text, in order, and overlap only where a      *)
(* section had to be cut.                                                   *)
THEOREM ChunksCarryText == ChunkingSpec => []ChunksCover
<1>1. ChunkInv => ChunksCover
  <2> SUFFICES ASSUME ChunkInv  PROVE ChunksCover
    OBVIOUS
  <2>1. ASSUME loop = "over", NEW r \in ink  PROVE InChunks(r)
    <3>1. Reached = length + 1 /\ r < length + 1
      BY <2>1 DEF ChunkInv, ChunkShapes, TextShapes, Reached
    <3> QED  BY <3>1 DEF ChunkInv, Carried
  <2> QED  BY <2>1 DEF ChunkInv, ChunksFit, ChunkFits, MayFollow, ChunksCover, InChunks
<1> QED  BY <1>1, ChunkInvInit, ChunkInvStep, PTL DEF ChunkingSpec
=============================================================================
