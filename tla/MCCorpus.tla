------------------------------ MODULE MCCorpus ------------------------------
(* Two series, with a document each, whose names leave the same in the ids  *)
(* of their points.                                                         *)
EXTENDS Corpus

CONSTANTS a, b, s, t, tail

TwoSeries == [d \in Docs |-> IF d = a THEN s ELSE t]
SeriesShare == [o \in Owners |-> IF o \in Series THEN tail ELSE o]

(* a text of two chunks and then one of one                                 *)
Shrinking == <<2, 1>>
=============================================================================
