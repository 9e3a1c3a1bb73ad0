------------------------------ MODULE Chunking ------------------------------
(***************************************************************************)
(* How the embed stage cuts a text into chunks: chunkMarkdown packs the    *)
(* sections between headings, chunkText cuts a section that is too long    *)
(* into overlapping windows (server/core/worker.go).  A step is one round  *)
(* of one of their loops.                                                  *)
(*                                                                         *)
(* The runes of the text are numbered; those with ink are not whitespace.  *)
(* A section or a chunk is an interval of runes.  A packed chunk loses its *)
(* trailing newlines, which have no ink.                                   *)
(***************************************************************************)
EXTENDS Naturals, Sequences, FiniteSets

CONSTANTS
  MaxText,       \* bound: the length of the text
  MaxChunkSize   \* bound: chunk size and overlap

ASSUME ChunkingAssumption == MaxText \in Nat \ {0} /\ MaxChunkSize \in Nat \ {0}

VARIABLES
  length, ink,
  headings,        \* the runes that begin a heading's line
  size, overlap,   \* chunk_size and chunk_overlap
  loop,            \* the loop that goes round: "sections", "windows", or "over"
  first,           \* where the section begins that is looked at
  start,           \* where its next window begins
  packed,          \* the sections that are packed into the next chunk
  chunks

text == <<length, ink, headings, size, overlap>>
chunkVars == <<text, loop, first, start, packed, chunks>>

From(from, to) == [from |-> from, to |-> to]
HasInk(c) == \E r \in ink : c.from <= r /\ r <= c.to
SizeOf(c) == c.to + 1 - c.from
Nothing == From(1, 0)

(* splitMarkdownSections: a section per heading, and what comes before the  *)
(* first                                                                    *)
SectionEnd(from) ==
  CHOOSE to \in from..length :
    /\ to = length \/ to + 1 \in headings
    /\ \A h \in headings : ~(from < h /\ h <= to)

SectionAt(from) == From(from, SectionEnd(from))
Section == SectionAt(first)

(* a heading without a text does not count                                  *)
ChunkingInit ==
  /\ length \in 1..MaxText
  /\ ink \in SUBSET (1..length)
  /\ headings \in SUBSET (1..length)
  /\ \A h \in headings : HasInk(SectionAt(h))
  /\ size \in 1..MaxChunkSize /\ overlap \in 1..MaxChunkSize
  /\ loop = "sections" /\ first = 1 /\ start = 0
  /\ packed = Nothing /\ chunks = <<>>

-----------------------------------------------------------------------------
(* chunkMarkdown                                                            *)

Flushed == IF HasInk(packed) THEN Append(chunks, packed) ELSE chunks

NextSection == first' = Section.to + 1

AtSection == loop = "sections" /\ first <= length /\ HasInk(Section)
Overflows == packed # Nothing /\ SizeOf(packed) + SizeOf(Section) > size

(* what comes before the first heading may be blank                         *)
DropSection ==
  /\ loop = "sections" /\ first <= length
  /\ ~HasInk(Section)
  /\ NextSection
  /\ UNCHANGED <<text, loop, start, packed, chunks>>

CutSection ==
  /\ AtSection /\ SizeOf(Section) > size
  /\ chunks' = Flushed /\ packed' = Nothing
  /\ loop' = "windows" /\ start' = first
  /\ UNCHANGED <<text, first>>

BeginChunk ==
  /\ AtSection /\ SizeOf(Section) <= size /\ Overflows
  /\ chunks' = Flushed /\ packed' = Section
  /\ NextSection
  /\ UNCHANGED <<text, loop, start>>

PackSection ==
  /\ AtSection /\ SizeOf(Section) <= size /\ ~Overflows
  /\ packed' = IF packed = Nothing THEN Section ELSE From(packed.from, Section.to)
  /\ NextSection
  /\ UNCHANGED <<text, loop, start, chunks>>

FlushLast ==
  /\ loop = "sections" /\ first > length
  /\ chunks' = Flushed /\ packed' = Nothing
  /\ loop' = "over"
  /\ UNCHANGED <<text, first, start>>

(* chunkText                                                                *)
WindowEnd == IF start + size - 1 > Section.to THEN Section.to ELSE start + size - 1
Window == From(start, WindowEnd)
StepSize == IF overlap < size THEN size - overlap ELSE size

KeepWindow == chunks' = IF HasInk(Window) THEN Append(chunks, Window) ELSE chunks

(* Mutation: the loop does not stop at the window that reaches the end.     *)
CutWindowsToTheEnd ==
  /\ loop = "windows"
  /\ KeepWindow
  /\ IF start + StepSize > Section.to
     THEN NextSection /\ loop' = "sections" /\ UNCHANGED start
     ELSE start' = start + StepSize /\ UNCHANGED <<loop, first>>
  /\ UNCHANGED <<text, packed>>

CutWindow ==
  /\ loop = "windows"
  /\ KeepWindow
  /\ IF WindowEnd = Section.to
     THEN NextSection /\ loop' = "sections" /\ UNCHANGED start
     ELSE start' = start + StepSize /\ UNCHANGED <<loop, first>>
  /\ UNCHANGED <<text, packed>>

ChunkingNext ==
  DropSection \/ CutSection \/ BeginChunk \/ PackSection \/ FlushLast \/ CutWindow

ChunkingSpec == ChunkingInit /\ [][ChunkingNext]_chunkVars

-----------------------------------------------------------------------------
(* The chunks carry the whole text: every rune with ink is in a chunk, in   *)
(* order; no chunk is blank, too long or part of the one before; and runes  *)
(* are stored twice only where a section had to be cut ("no inter-section   *)
(* overlap", worker.go:664, 743).                                           *)
ChunksCover ==
  /\ loop = "over" =>
       \A r \in ink : \E i \in DOMAIN chunks : chunks[i].from <= r /\ r <= chunks[i].to
  /\ \A i \in DOMAIN chunks : HasInk(chunks[i]) /\ SizeOf(chunks[i]) <= size
  /\ \A i \in 2..Len(chunks) :
       /\ chunks[i - 1].from < chunks[i].from /\ chunks[i - 1].to < chunks[i].to
       /\ chunks[i].from <= chunks[i - 1].to =>
            ~\E h \in headings : chunks[i - 1].from < h /\ h <= chunks[i].to
=============================================================================
