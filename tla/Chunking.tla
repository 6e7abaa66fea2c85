------------------------------- MODULE Chunking -------------------------------
(***************************************************************************)
(* How ingest cuts the text of a file into the bodies of entries           *)
(* (internal/importer: chunkContent and what it calls), and how the        *)
(* benchmarks cut theirs (internal/bench: splitDocument and                *)
(* splitLMEDocument).                                                      *)
(*                                                                         *)
(* For chunkGeneric a text is its length and the places of its line        *)
(* breaks, every other character being visible; for the chunkers of        *)
(* conversations it is a sequence of lines, each of which begins a quote,  *)
(* a rule, is blank, or none of these, with a length and the keyword group *)
(* it falls in.  Sizes are scaled down: ChunkSize stands for 800 bytes,    *)
(* ChunkOverlap for 100, MinChunk for 50; the benchmarks' 250 and 40 are   *)
(* cut the same way.                                                       *)
(***************************************************************************)
EXTENDS Integers, Sequences, SequencesExt, FiniteSetsExt, Folds

CONSTANTS
  ChunkSize, ChunkOverlap, MinChunk,
  MaxText,     \* bound: length of a text, which has at most two line breaks
  MaxLines,    \* bound: lines of a conversation
  LineLengths  \* bound: lengths of a visible line

ASSUME ChunkSizes ==
  /\ ChunkSize \in Nat /\ ChunkOverlap \in Nat /\ MinChunk \in Nat \ {0}
  /\ MinChunk < ChunkOverlap /\ 2 * ChunkOverlap <= ChunkSize
  /\ MaxText \in Nat /\ MaxLines \in Nat
  /\ \A n \in LineLengths : n \in Nat /\ MaxLines * n <= ChunkSize

VARIABLES text, lines   \* what has been cut: a text, the lines of a conversation

-----------------------------------------------------------------------------
(* chunkGeneric                                                            *)

\* The visible places of t between two offsets, and TrimSpace of that piece.
Visible(t, from, to) == {i \in from .. to - 1 : i \notin t.breaks}

Trimmed(t, from, to) ==
  LET v == Visible(t, from, to)
  IN IF v = {} THEN {} ELSE Min(v) .. Max(v)

\* A piece ends at its last line break if that is in its second half.
PieceEnd(t, start) ==
  LET end == Min({start + ChunkSize, t.length})
      breaks == {i \in t.breaks : start + ChunkSize \div 2 < i /\ i < end}
  IN IF end < t.length /\ breaks # {} THEN Max(breaks) ELSE end

\* (mutant) pieces do not overlap.
NextStartPlain(start, end) == end

NextStart(start, end) == Max({end - ChunkOverlap, start + 1})

\* splitLMEDocument has no guard against standing still: the least second half is
\* longer than the overlap.
NextStartUnguarded(start, end) == Max({end - ChunkOverlap, 0})

\* The chunks of a text, as sets of places: pieces of min visible characters or more.
Pieces(t, guarded, min) ==
  LET from[start \in 0 .. t.length] ==
        LET end == PieceEnd(t, start)
            chunk == Trimmed(t, start, end)
            here == IF Cardinality(chunk) >= min THEN {chunk} ELSE {}
        IN IF end >= t.length THEN here
           ELSE here \cup from[IF guarded THEN NextStart(start, end) ELSE NextStartUnguarded(start, end)]
  IN from[0]

ChunkGeneric(t) ==
  IF t.length <= ChunkSize
  THEN IF t.length < MinChunk THEN {} ELSE {Trimmed(t, 0, t.length)}
  ELSE Pieces(t, TRUE, MinChunk)

\* A document of a benchmark that has nothing in it is kept all the same.
SplitDocument(t) ==
  LET whole == {0 .. t.length - 1}
      pieces == Pieces(t, TRUE, 1)
  IN IF t.length <= ChunkSize \/ pieces = {} THEN whole ELSE pieces

SplitLMEDocument(t) ==
  IF t.length <= ChunkSize THEN {Trimmed(t, 0, t.length)} ELSE Pieces(t, FALSE, 1)

-----------------------------------------------------------------------------
(* chunkConversation and extractGeneralConversationMemories.  A chunk is   *)
(* the set of the lines in it.                                             *)

Line == [kind : {"quote", "rule", "plain"}, length : LineLengths, group : BOOLEAN]
        \cup [kind : {"blank"}, length : {0}, group : {FALSE}]

LengthOf(conv, S) == MapThenSumSet(LAMBDA i : conv[i].length, S)

LongEnough(conv, sets) == {S \in sets : LengthOf(conv, S) >= MinChunk}

Quotes(conv) == {i \in DOMAIN conv : conv[i].kind = "quote"}

\* A quote and the visible lines up to the next one, or up to a line that ends it.
Exchange(conv, i, enders) ==
  {j \in i .. Len(conv) :
     /\ conv[j].kind # "blank"
     /\ \A k \in i + 1 .. j : conv[k].kind \notin enders}

Exchanges(conv) == {Exchange(conv, i, {"quote"}) : i \in Quotes(conv)}

\* Blank lines part paragraphs.
Paragraphs(conv) ==
  {P \in {{k \in i .. j : conv[k].kind # "blank"} : i, j \in DOMAIN conv} \ {{}} :
     /\ \A k \in Min(P) .. Max(P) : conv[k].kind # "blank"
     /\ Min(P) = 1 \/ conv[Min(P) - 1].kind = "blank"
     /\ Max(P) = Len(conv) \/ conv[Max(P) + 1].kind = "blank"}

\* chunkGeneric of a conversation that has no long paragraph; one that is no longer than
\* a chunk is taken whole.
WholeIfLong(conv) == LongEnough(conv, {{k \in DOMAIN conv : conv[k].kind # "blank"}})

ChunkConversation(conv) ==
  LET exchanges  == IF Cardinality(Quotes(conv)) >= 3 THEN LongEnough(conv, Exchanges(conv)) ELSE {}
      paragraphs == LongEnough(conv, Paragraphs(conv))
  IN IF exchanges # {} THEN exchanges
     ELSE IF paragraphs # {} THEN paragraphs
     ELSE WholeIfLong(conv)

\* splitConversationSegments: an exchange ends at a rule too; other visible lines
\* stand alone.
Segments(conv) ==
  LET exchanges == {Exchange(conv, i, {"quote", "rule"}) : i \in Quotes(conv)}
  IN exchanges \cup {{i} : i \in {k \in DOMAIN conv : conv[k].kind # "blank"} \ UNION exchanges}

\* The segments in which a keyword occurs; the tag put before them is left out.
Memories(conv) == LongEnough(conv, {S \in Segments(conv) : \E i \in S : conv[i].group})

ChunkGeneral(conv) == IF Memories(conv) # {} THEN Memories(conv) ELSE ChunkConversation(conv)

-----------------------------------------------------------------------------
NoText == [length |-> 0, breaks |-> {}]

ChunkingInit == text = NoText /\ lines = <<>>

\* A text begins and ends with something visible, as a trimmed one does.
CutText ==
  /\ text = NoText /\ lines = <<>>
  /\ \E n \in 1 .. MaxText : \E i \in 1 .. n - 2 : \E j \in i .. n - 2 :
       \E breaks \in {{}, {i, j}} : text' = [length |-> n, breaks |-> breaks]
  /\ UNCHANGED lines

CutConversation ==
  /\ text = NoText /\ lines = <<>>
  /\ \E n \in 1 .. MaxLines : lines' \in [1 .. n -> Line]
  /\ UNCHANGED text

ChunkingNext == CutText \/ CutConversation

ChunkingSpec == ChunkingInit /\ [][ChunkingNext]_<<text, lines>>

-----------------------------------------------------------------------------
(* Properties.                                                             *)

\* Of a text that is cut into pieces nothing visible is lost.  An ingest drops short
\* pieces, so there every stretch of the length of the overlap must hold enough visible
\* characters; a benchmark's document needs no such thing.
NothingLost ==
  LET seen == Visible(text, 0, text.length)
      dense == \A i \in 0 .. text.length - ChunkOverlap :
                 Cardinality(Visible(text, i, i + ChunkOverlap)) >= MinChunk
  IN /\ text.length >= MinChunk /\ dense => seen \subseteq UNION ChunkGeneric(text)
     /\ seen \subseteq UNION SplitDocument(text)
     /\ seen \subseteq UNION SplitLMEDocument(text)

\* A conversation that is long enough for one chunk yields some chunk in every mode,
\* whatever its form, and no line is in two.
SomethingKept ==
  \A chunks \in {ChunkConversation(lines), ChunkGeneral(lines)} :
    /\ LengthOf(lines, DOMAIN lines) >= MinChunk => chunks # {}
    /\ \A C, D \in chunks : C # D => C \cap D = {}

\* Nothing visible is lost between the pieces of a long text (chunkGeneric, splitDocument,
\* splitLMEDocument), and a conversation is not dropped as a whole because it is in short
\* exchanges, short paragraphs or without keywords (the fallbacks of
\* extractGeneralConversationMemories and chunkConversation).  Parts of a conversation
\* that has yielded a chunk may be missing: what comes before the first exchange, single
\* short exchanges and paragraphs, segments without a keyword.
TextKept == NothingLost /\ SomethingKept

=============================================================================
