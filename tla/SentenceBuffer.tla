--------------------------- MODULE SentenceBuffer ---------------------------
(***************************************************************************)
(* The accumulator between the tokens of the language model and the speech  *)
(* (llm/sentence_buffer.py).  A piece is what one token adds: it begins a   *)
(* new word (fresh) or goes on with the last one, it may be a connector     *)
(* ("and", "then"; a bare mark after one leaves it a connector) and it may  *)
(* end with a mark (".", "?", ...).                                         *)
(* The chunks given out are kept in order; the language only chooses the    *)
(* two limits and the sets of marks and connectors.                         *)
(***************************************************************************)
EXTENDS Naturals, Sequences, FiniteSets, SequencesExt

CONSTANTS
  Pieces,      \* the pieces the model can add: records [fresh, connector, mark]
  Soft, Hard,  \* soft_words, hard_words, both above 0
  MaxPieces    \* a bound on the answer's length

VARIABLES
  buf,       \* _buf
  chunks,    \* the chunks given to the speech, oldest first
  answer,    \* the pieces received
  ended      \* the stream has ended

sbVars == <<buf, chunks, answer, ended>>

\* _WORD_RE.findall: a piece begins a word if it is fresh or the first.
Starts(text)        == {k \in DOMAIN text : k = 1 \/ text[k].fresh}
WordCount(text)     == Cardinality(Starts(text))
\* The last word, its marks put aside: a connector with more letters is none.
LastStart(text)     == CHOOSE k \in Starts(text) : \A j \in Starts(text) : j <= k
EndsWithConnector(text) ==
  /\ text # <<>> /\ text[LastStart(text)].fresh
  /\ \A k \in LastStart(text) .. Len(text) : text[k].connector
\* _last_boundary_pos and _hard_cut_pos: 0 where the code has none.
LastBoundary(text)  ==
  LET M == {k \in DOMAIN text : text[k].mark} IN
  IF M = {} THEN 0 ELSE CHOOSE k \in M : \A j \in M : j <= k
HardCut(text, n)    ==
  IF WordCount(text) < n THEN 0
  ELSE CHOOSE k \in DOMAIN text :
         /\ WordCount(SubSeq(text, 1, k)) = n
         /\ k = Len(text) \/ k + 1 \in Starts(text)

\* Deviation: the piece with the mark is left out of what is given out.
UptoMark(text, k) == SubSeq(text, 1, k - 1)

Upto(text, k) == SubSeq(text, 1, k)

Rest(text, k)  == SubSeq(text, k + 1, Len(text))

SoftFlush(text) ==
  LET k == LastBoundary(text) IN
  IF k > 0 /\ WordCount(text) >= Soft /\ ~EndsWithConnector(Upto(text, k)) THEN k ELSE 0

\* hold_connectors is on: the cut moves on one word past a connector, once.
HardFlush(text) ==
  IF WordCount(text) < Hard \/ EndsWithConnector(text) THEN 0
  ELSE LET cut  == HardCut(text, Hard)
           next == HardCut(text, Hard + 1)
           at   == IF EndsWithConnector(Upto(text, cut)) /\ next > cut THEN next ELSE cut
       IN IF WordCount(Upto(text, at)) > 1 THEN at ELSE 0

Cut(text) == IF SoftFlush(text) > 0 THEN SoftFlush(text) ELSE HardFlush(text)

Init == buf = <<>> /\ chunks = <<>> /\ answer = <<>> /\ ended = FALSE

AddToken(p) ==
  /\ ~ended /\ Len(answer) < MaxPieces
  /\ answer' = Append(answer, p)
  /\ LET text == Append(buf, p) IN
     /\ chunks' = IF Cut(text) > 0 THEN Append(chunks, Upto(text, Cut(text))) ELSE chunks
     /\ buf' = Rest(text, Cut(text))
  /\ UNCHANGED ended

\* The stream ends and what is left is given out.
Flush ==
  /\ ~ended /\ ended' = TRUE
  /\ chunks' = IF buf = <<>> THEN chunks ELSE Append(chunks, buf)
  /\ buf' = <<>>
  /\ UNCHANGED answer

Next == Flush \/ \E p \in Pieces : AddToken(p)

Spec == Init /\ [][Next]_sbVars

-----------------------------------------------------------------------------
\* The buffer and the chunks are made of pieces.
TypeOK ==
  /\ buf \in Seq(Pieces) /\ answer \in Seq(Pieces) /\ chunks \in Seq(Seq(Pieces))
  /\ ended \in BOOLEAN

\* What was received is what was given out and what is held, in order: no piece is lost,
\* doubled or moved by a cut.
NothingLost == FlattenSeq(chunks) \o buf = answer

\* A token that brings the words held to the hard limit and leaves no connector at the end gives
\* out a chunk: the speech never waits for the end of an answer without marks.  (How much may
\* still be held has no bound: one token cuts once, and after a run of connectors more than a
\* limit of words may be left.  A limit of one word cuts nothing, a chunk has two words.)
LimitGivesChunk ==
  [][Hard > 1 /\ answer' # answer /\ WordCount(Append(buf, answer'[Len(answer')])) >= Hard
     /\ ~EndsWithConnector(Append(buf, answer'[Len(answer')]))
     => Len(chunks') = Len(chunks) + 1]_sbVars
=============================================================================
