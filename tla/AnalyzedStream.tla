--------------------------- MODULE AnalyzedStream ---------------------------
(***************************************************************************)
(* AnalyzedStream (mdstream/src/analyze.rs): an MdStream whose owned       *)
(* updates are given to an analyzer.  What it finds in the committed       *)
(* blocks is kept by id; what it finds in the pending block is part of the *)
(* answer only.  The analyzer is the combination of the four built-in      *)
(* ones, with the parsers of mdstream/src/syntax.rs: they read the text of *)
(* a block again and never ask the scanner that split it.                  *)
(***************************************************************************)
EXTENDS ReferenceSync, BlockScanners

LOCAL INSTANCE SequencesExt

CONSTANT Found    \* Found[t]: the items of BlockScanners in the line t

ASSUME FoundAssumption ==
  DOMAIN Found = Text /\ \A t \in Text : IsFiniteSet(DOMAIN Found[t])

VARIABLES
  wrapped,        \* whether the application uses an AnalyzedStream
  committedMeta,  \* committed_meta
  pendingMeta     \* pending_meta of the last AnalyzedUpdate

analyzedVars == <<referenceVars, wrapped, committedMeta, pendingMeta>>

-----------------------------------------------------------------------------
(***************************************************************************)
(* An Option is a set of at most one member.                               *)
(***************************************************************************)
LastNonEmpty(raw) ==
  LET filled == {k \in DOMAIN raw : ~Blank(raw[k])}
  IN  {k \in filled : \A j \in filled : j <= k}

(***************************************************************************)
(* parse_code_fence_header_from_block, and CodeFenceAnalyzer.              *)
(***************************************************************************)
Header(raw) ==
  LET line == Found[raw[1]]
  IN  {[char |-> ch, length |-> RunLength(line, ch), info |-> Tail(line)] :
         ch \in FenceStart(line)}

FenceMeta(b) ==
  IF b.kind = "CodeFence" THEN {h.info : h \in Header(b.raw)} ELSE {}

(***************************************************************************)
(* MathAnalyzer.                                                           *)
(***************************************************************************)
Balanced(raw) ==
  LET dollars[k \in 0..Len(raw)] ==
        IF k = 0 THEN 0 ELSE dollars[k - 1] + CountDollars(Found[raw[k]])
  IN  dollars[Len(raw)] % 2 = 0

MathMeta(b) == IF b.kind = "MathBlock" THEN {Balanced(b.raw)} ELSE {}

(***************************************************************************)
(* TaggedBlockAnalyzer: whatever the kind, a block whose first line starts *)
(* with a tag; its content is without that line and without the closing    *)
(* tag, if that is the last line with text.                                *)
(***************************************************************************)
Tag(line) ==
  IF line # <<>> /\ line[1].is = "open" THEN {line[1].name} ELSE {}

ClosesTag(line, tag) ==
  line # <<>> /\ line[1].is = "close" /\ line[1].name = tag

TagMeta(b) ==
  {LET closing == {k \in LastNonEmpty(b.raw) :
                     k > 1 /\ ClosesTag(Found[b.raw[k]], tag)}
       kept == [k \in DOMAIN b.raw |-> IF k \in closing \cup {1} THEN <<>>
                                       ELSE <<b.raw[k]>>]
   IN  [tag |-> tag, closed |-> closing # {},
        content |-> FlattenSeq(kept)] : tag \in Tag(Found[b.raw[1]])}

(***************************************************************************)
(* BlockHintAnalyzer, for pending blocks.  (DISPLAY_TRANSFORMED needs the  *)
(* text of the display, which is left out here.)                           *)
(***************************************************************************)
\* Faulty variant: the closing fence may be of any length.
ClosedByAny(raw) ==
  \E h \in Header(raw), k \in LastNonEmpty(raw) :
    FenceEnd(Found[raw[k]], h.char, 3)

FenceIsClosed(raw) ==
  \E h \in Header(raw), k \in LastNonEmpty(raw) :
    FenceEnd(Found[raw[k]], h.char, h.length)

Hints(b) ==
  (IF b.kind = "CodeFence" /\ ~FenceIsClosed(b.raw)
   THEN {"UNCLOSED_CODE_FENCE"} ELSE {})
  \cup (IF b.kind = "MathBlock" /\ ~Balanced(b.raw)
        THEN {"UNBALANCED_MATH"} ELSE {})

-----------------------------------------------------------------------------
(***************************************************************************)
(* analyze_block of the combination, for a committed block and a pending.  *)
(***************************************************************************)
Meta(b) == [fence |-> FenceMeta(b), math |-> MathMeta(b), tag |-> TagMeta(b)]

HasMeta(b) == \E field \in DOMAIN Meta(b) : Meta(b)[field] # {}

Metas(blocks) ==
  LET found[k \in 0..Len(blocks)] ==
        IF k = 0 THEN NoEntry
        ELSE IF ~HasMeta(blocks[k]) THEN found[k - 1]
        ELSE Insert(found[k - 1], [i \in {blocks[k].id} |-> Meta(blocks[k])])
  IN  found[Len(blocks)]

(***************************************************************************)
(* analyze_update.                                                         *)
(***************************************************************************)
\* Faulty variant: a reset leaves what was found before.
AnalyzeKeepingMeta(u) ==
  /\ committedMeta' = Insert(committedMeta, Metas(u.committed))
  /\ pendingMeta' = {[meta |-> Meta(b), hints |-> Hints(b)] :
                       b \in Range(u.pending)}

AnalyzeUpdate(u) ==
  /\ committedMeta' = Insert(IF u.reset THEN NoEntry ELSE committedMeta,
                              Metas(u.committed))
  /\ pendingMeta' = {[meta |-> Meta(b), hints |-> Hints(b)] :
                       b \in Range(u.pending)}

AnalyzedInit ==
  /\ ReferenceInit
  /\ wrapped \in BOOLEAN
  /\ committedMeta = NoEntry
  /\ pendingMeta = {}

(***************************************************************************)
(* append and finalize.                                                    *)
(***************************************************************************)
ProduceAnalyzed(chunks) ==
  /\ wrapped
  /\ ProduceReferences(chunks, {"append"})
  /\ IF pc' = "idle" THEN AnalyzeUpdate(updates'[Len(updates')])
     ELSE UNCHANGED <<committedMeta, pendingMeta>>

(***************************************************************************)
(* reset.                                                                  *)
(***************************************************************************)
NewAnalyzed ==
  /\ wrapped
  /\ NewReferences
  /\ committedMeta' = NoEntry
  /\ pendingMeta' = {}

AnalyzedNextOn(chunks) ==
  /\ \/ ProduceAnalyzed(chunks)
     \/ NewAnalyzed
     \/ /\ IF wrapped THEN ApplyReferences
           ELSE ReferenceNextOn(chunks, {"append", "append_ref"})
        /\ UNCHANGED <<committedMeta, pendingMeta>>
  /\ UNCHANGED wrapped

AnalyzedNext == AnalyzedNextOn(Chunk)

AnalyzedSpec == AnalyzedInit /\ [][AnalyzedNext]_analyzedVars

-----------------------------------------------------------------------------
(***************************************************************************)
(* meta_for: between calls the metadata is that of the blocks committed    *)
(* now, each under its own id, also after a switch to a single block has   *)
(* begun to use the ids again.                                             *)
(***************************************************************************)
MetaOfCommitted ==
  wrapped /\ pc = "idle" => committedMeta = Metas(cur.committed)

(***************************************************************************)
(* analyzed_stream_hints.rs: the hints for a pending block whose first     *)
(* line is complete agree with the scanner that splits the text, though    *)
(* the analyzer knows only the text: a fence is unclosed until the stream  *)
(* would commit it at the end of its last line with text, and math is      *)
(* unbalanced until the stream would.  (Of a fence that has no line with   *)
(* text but its first one the hint is wrong: see README.md.)               *)
(***************************************************************************)
HintsRight ==
  \A b \in Range(StreamPending) :
    LET filled == {k \in 2..Len(b.raw) : ~Blank(b.raw[k])}
    IN  wrapped /\ pc = "idle" /\ Len(b.raw) > 1 =>
          \E found \in pendingMeta :
            /\ b.kind = "CodeFence" /\ filled # {} =>
                 ("UNCLOSED_CODE_FENCE" \in found.hints
                    <=> \A k \in filled : ~CompletedAt(b, k))
            /\ "UNBALANCED_MATH" \in found.hints
                 <=> b.kind = "MathBlock" /\ ~CompletedAt(b, Len(b.raw))

(***************************************************************************)
(* What HintsRight rests on: the splitter classifies lines, and reads      *)
(* those of fences and formulas, as BlockScanners does (start_mode_for_    *)
(* line and update_mode_with_line in stream.rs).                           *)
(***************************************************************************)
ScannersAgree ==
  /\ \A t \in Text :
       /\ Has(t, "plugin") <=> Matching(Found[t]) # {}
       /\ Has(t, "fence") <=> FenceStart(Found[t]) # {}
       /\ Has(t, "html") <=> HtmlBlockStart(Found[t])
       /\ Has(t, "math") <=> MathStart(Found[t])
       /\ Enter[t] = EnterScanner(Found[t])
  /\ \A p \in Inner, t \in Text :
       p.scanner \in {"code", "math"}
         => Scan[<<p, t>>] = UpdateScanner(p, Found[t])
  /\ [scanner : {"math"}, odd : BOOLEAN] \subseteq Inner
  /\ Shut = {p \in Inner : EndsBlock(p)}
=============================================================================
