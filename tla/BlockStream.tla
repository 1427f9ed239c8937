---------------------------- MODULE BlockStream ----------------------------
(***************************************************************************)
(* The block splitter of mdstream (mdstream/src/stream.rs): text arrives   *)
(* in chunks, complete lines are scanned once each, a block is committed   *)
(* when a later line (or the unfinished last line) shows that it has       *)
(* ended, and everything after the last committed block is pending.        *)
(*                                                                         *)
(* The text of a line is a member of the constant set Text.  The line      *)
(* predicates of the source are the constant function Is, and the payload  *)
(* of a block mode (fence character and length, HTML tag stack, count of   *)
(* $$, plugin state) is a member of Inner, driven by Enter and Scan, so    *)
(* what is proved here holds for every classification of lines.            *)
(*                                                                         *)
(* Line numbers are those of the source: they count from 0, and line i is  *)
(* lines[i + 1].  One call of append is several steps: the call appends    *)
(* the lines, every ProcessLine step is one round of the while loop, and   *)
(* FinishAppend is the rest of append_core.                                *)
(***************************************************************************)
EXTENDS Integers, Sequences, Functions

CONSTANTS
  Text,              \* what a line can contain
  EmptyText,         \* the text of an empty line
  Is,                \* Is[t]: the names of the line predicates true of t
  Grows,             \* <<t, u>>: more characters can turn the line t into u
  Width,             \* Width[t]: bytes of t
  Inner,             \* payloads of the modes that scan for their own end
  Enter,             \* Enter[t]: the payload when a block opens at line t
  Scan,              \* Scan[<<p, t>>]: the payload p after reading line t
  Shut,              \* the payloads with which such a block is complete
  SingleBlock,       \* opts.footnotes = FootnotesMode::SingleBlock
  MaxBufferBytes,    \* opts.max_buffer_bytes, as a set: {} is None
  ResetAfterFinalize,\* the caller resets before it appends after a finalize
  MaxLines,          \* bound on the lines of a document
  MaxChunkLines      \* bound on the lines a chunk touches

(***************************************************************************)
(* The names of the line predicates.                                       *)
(***************************************************************************)
Predicate == {"empty", "plugin", "heading", "thematic", "fence",
              "footnote_def", "footnote_cont", "quote", "item",
              "item_prefix", "list_cont", "html", "math", "setext",
              "delimiter", "pipe", "footnote"}

Starter == {"plugin", "heading", "thematic", "fence", "footnote_def",
            "quote", "item", "html", "math"}

ASSUME TextAssumption ==
  /\ EmptyText \in Text
  /\ Is \in [Text -> SUBSET Predicate]
  /\ Is[EmptyText] = {"empty"}
  /\ Grows \subseteq Text \X Text
  /\ \A t \in Text : <<EmptyText, t>> \in Grows
  /\ Width \in [Text -> Nat]
  /\ \A t \in Text : Width[t] = 0 <=> t = EmptyText
  /\ \A pair \in Grows : pair[1] = pair[2] \/ Width[pair[1]] < Width[pair[2]]

ASSUME InnerAssumption ==
  /\ Enter \in [Text -> Inner]
  /\ Scan \in [Inner \X Text -> Inner]
  /\ Shut \subseteq Inner

ASSUME OptionsAssumption ==
  /\ SingleBlock \in BOOLEAN
  /\ ResetAfterFinalize \in BOOLEAN
  /\ MaxBufferBytes \subseteq Nat
  /\ MaxLines \in Nat \ {0}
  /\ MaxChunkLines \in Nat \ {0}

VARIABLES
  lines,      \* buffer and lines: the retained lines, the last unfinished
  processed,  \* processed_line
  cur,        \* the current_* fields, next_block_id and committed
  pc,         \* where append_core is: "idle" between calls
  pendingCr,  \* pending_cr: the last chunk ended in a carriage return
  detected,   \* footnotes_detected
  dirty,      \* buffer.len() # last_finalized_buffer_len
  report,     \* what the Update of the last call is made of
  doc,        \* history: every line since the last reset
  closed      \* history: finalize committed the rest of the document

vars == <<lines, processed, cur, pc, pendingCr, detected, dirty, report,
          doc, closed>>

Mode == {"Unknown", "Paragraph", "Heading", "ThematicBreak", "CodeFence",
         "CustomBoundary", "List", "BlockQuote", "HtmlBlock", "Table",
         "MathBlock", "FootnoteDefinition"}

(***************************************************************************)
(* kind_for_mode.                                                          *)
(***************************************************************************)
KindForMode(mode) == IF mode = "CustomBoundary" THEN "Unknown" ELSE mode

Has(t, p) == p \in Is[t]

Blank(t) == Has(t, "empty")

(***************************************************************************)
(* raw.trim().is_empty() of a run of lines.                                *)
(***************************************************************************)
AllBlank(raw) == \A k \in 1..Len(raw) : Blank(raw[k])

(***************************************************************************)
(* start_mode_for_line: the first predicate that holds decides.            *)
(***************************************************************************)
StartMode(t) ==
  IF Has(t, "plugin") THEN "CustomBoundary"
  ELSE IF Has(t, "heading") THEN "Heading"
  ELSE IF Has(t, "thematic") THEN "ThematicBreak"
  ELSE IF Has(t, "fence") THEN "CodeFence"
  ELSE IF Has(t, "footnote_def") THEN "FootnoteDefinition"
  ELSE IF Has(t, "quote") THEN "BlockQuote"
  ELSE IF Has(t, "item") THEN "List"
  ELSE IF Has(t, "html") THEN "HtmlBlock"
  ELSE IF Has(t, "math") THEN "MathBlock"
  ELSE "Paragraph"

StartAt(c, t) == [c EXCEPT !.mode = StartMode(t), !.inner = Enter[t]]

-----------------------------------------------------------------------------
(***************************************************************************)
(* Committing.  A cursor c holds current_block_start_line, current_block_id,*)
(* next_block_id, current_mode with its payload, and committed; c.base     *)
(* counts the lines that compaction has dropped, so that a block can carry *)
(* the number of its first line in the document (from, a history field).   *)
(***************************************************************************)
NoPayload == Enter[EmptyText]

FreshCursor(base) ==
  [base |-> base, start |-> 0, id |-> 1, nextId |-> 2,
   mode |-> "Unknown", inner |-> NoPayload, committed |-> <<>>]

LinesOf(ls, first, last) == SubSeq(ls, first + 1, last + 1)

BlockAt(c, raw) ==
  [id |-> c.id, kind |-> KindForMode(c.mode), from |-> c.base + c.start,
   raw |-> raw]

\* Faulty variants of Commit: a blank block is committed, the next id is not
\* advanced.
CommitBlank(ls, c, end) ==
  IF c.start >= Len(ls) \/ end < c.start THEN c
  ELSE [c EXCEPT !.start = end + 1, !.id = c.nextId,
                 !.nextId = c.nextId + 1, !.mode = "Unknown",
                 !.inner = NoPayload,
                 !.committed = Append(c.committed,
                                 BlockAt(c, LinesOf(ls, c.start, end)))]

CommitSameNextId(ls, c, end) ==
  LET raw == LinesOf(ls, c.start, end)
  IN  IF c.start >= Len(ls) \/ end < c.start THEN c
      ELSE [c EXCEPT !.start = end + 1, !.id = c.nextId,
                     !.mode = "Unknown", !.inner = NoPayload,
                     !.committed = IF AllBlank(raw) THEN c.committed
                                   ELSE Append(c.committed, BlockAt(c, raw))]

(***************************************************************************)
(* commit_block: nothing if the block starts after the last line given; a  *)
(* whitespace-only block is skipped and its id is used up.                 *)
(***************************************************************************)
Commit(ls, c, end) ==
  LET raw == LinesOf(ls, c.start, end)
      done == IF AllBlank(raw) THEN c.committed
              ELSE Append(c.committed, BlockAt(c, raw))
  IN  IF c.start >= Len(ls) \/ end < c.start THEN c
      ELSE [c EXCEPT !.start = end + 1, !.id = c.nextId,
                     !.nextId = c.nextId + 1, !.mode = "Unknown",
                     !.inner = NoPayload, !.committed = done]

(***************************************************************************)
(* maybe_commit_single_line.                                               *)
(***************************************************************************)
CommitSingleLine(ls, c, i) ==
  IF c.mode \in {"Heading", "ThematicBreak"} THEN Commit(ls, c, i) ELSE c

(***************************************************************************)
(* update_mode_with_line.                                                  *)
(***************************************************************************)
CloseOnLine(ls, c, i) ==
  LET read == [c EXCEPT !.inner = Scan[<<c.inner, ls[i + 1]>>]]
  IN  IF read.inner \in Shut THEN Commit(ls, read, i) ELSE read

CloseFence(ls, c, i) ==
  IF i > c.start /\ Scan[<<c.inner, ls[i + 1]>>] \in Shut
  THEN Commit(ls, c, i) ELSE c

UpgradeParagraph(ls, c, i) ==
  IF /\ i > 0 /\ i = c.start + 1
     /\ Has(ls[i + 1], "setext") /\ ~Blank(ls[i])
  THEN Commit(ls, [c EXCEPT !.mode = "Heading"], i)
  ELSE IF i > 0 /\ Has(ls[i + 1], "delimiter") /\ Has(ls[i], "pipe")
  THEN [c EXCEPT !.mode = "Table"] ELSE c

UpdateMode(ls, c, i) ==
  CASE c.mode = "Unknown" -> CommitSingleLine(ls, StartAt(c, ls[i + 1]), i)
    [] c.mode = "CodeFence" -> CloseFence(ls, c, i)
    [] c.mode \in {"CustomBoundary", "MathBlock", "HtmlBlock"} ->
         CloseOnLine(ls, c, i)
    [] c.mode = "Paragraph" -> UpgradeParagraph(ls, c, i)
    [] OTHER -> c

-----------------------------------------------------------------------------
\* Faulty variant: a boundary inside a code fence splits it.
InsideNoFence(c) ==
  \/ c.mode = "CustomBoundary"
  \/ c.mode \in {"MathBlock", "HtmlBlock"} /\ c.inner \notin Shut

(***************************************************************************)
(* is_new_block_boundary: does line i start a new block?                   *)
(***************************************************************************)
Inside(c) ==
  \/ c.mode \in {"CodeFence", "CustomBoundary"}
  \/ c.mode \in {"MathBlock", "HtmlBlock"} /\ c.inner \notin Shut

BlockIs(ls, c, mode) ==
  c.mode = mode \/ StartMode(ls[c.start + 1]) = mode

ContinuesContainer(ls, c, t) ==
  \/ BlockIs(ls, c, "List") /\ (Has(t, "list_cont") \/ Has(t, "item_prefix"))
  \/ BlockIs(ls, c, "BlockQuote") /\ Has(t, "quote")

InParagraph(c) == c.mode \in {"Paragraph", "Unknown"}

SetextUnderline(ls, c, i) ==
  /\ InParagraph(c) /\ Has(ls[i + 1], "setext")
  /\ ~Blank(ls[i]) /\ c.start + 1 = i

Interrupts(ls, c, i) ==
  LET prev == ls[i]
      t == ls[i + 1]
  IN  \/ \E p \in {"heading", "thematic", "fence", "plugin", "footnote_def"} :
           Has(t, p)
      \/ Has(t, "quote") /\ ~Has(prev, "quote") /\ c.mode # "BlockQuote"
      \/ Has(t, "item") /\ ~Has(prev, "item") /\ c.mode # "List"
      \/ /\ InParagraph(c) /\ Has(t, "delimiter") /\ Has(prev, "pipe")
         /\ c.start < i - 1

AfterBlank(ls, i) == Blank(ls[i]) /\ ~Blank(ls[i + 1])

Boundary(ls, c, i) ==
  /\ ~Inside(c)
  /\ IF c.mode = "FootnoteDefinition"
     THEN ~Blank(ls[i + 1]) /\ ~Has(ls[i + 1], "footnote_cont")
     ELSE IF AfterBlank(ls, i) THEN ~ContinuesContainer(ls, c, ls[i + 1])
     ELSE ~SetextUnderline(ls, c, i) /\ Interrupts(ls, c, i)

(***************************************************************************)
(* process_line for a line that ends with a newline.                       *)
(***************************************************************************)
OpenBlock(ls, c, i) ==
  UpdateMode(ls, CommitSingleLine(ls, StartAt(c, ls[i + 1]), i), i)

\* Faulty variant: the mode is not computed again for a first line that was
\* unfinished when the block was opened.
ProcessStaleMode(ls, c, i) ==
  IF i = c.start /\ c.mode = "Unknown" THEN OpenBlock(ls, c, i)
  ELSE IF i # c.start /\ Boundary(ls, c, i)
  THEN OpenBlock(ls, Commit(ls, c, i - 1), i)
  ELSE UpdateMode(ls, c, i)

Process(ls, c, i) ==
  IF i = c.start THEN OpenBlock(ls, c, i)
  ELSE IF Boundary(ls, c, i) THEN OpenBlock(ls, Commit(ls, c, i - 1), i)
  ELSE UpdateMode(ls, c, i)

(***************************************************************************)
(* process_incomplete_tail_boundary: the unfinished last line may already  *)
(* show that the block before it has ended.                                *)
(***************************************************************************)
TailBoundary(ls, c) ==
  LET last == Len(ls) - 1
  IN  IF last >= 1 /\ Boundary(ls, c, last)
      THEN StartAt(Commit(ls, c, last - 1), ls[last + 1]) ELSE c

(***************************************************************************)
(* The two places where an index is out of range: the line before the      *)
(* first one, and the first line of a block that lies past the last line.  *)
(***************************************************************************)
ReadsPastEnd(ls, c, i) ==
  /\ c.start >= Len(ls)
  /\ ~Inside(c) /\ c.mode # "FootnoteDefinition"
  /\ AfterBlank(ls, i)

FaultsOnLine(ls, c, i) == i # c.start /\ (i > 0 => ReadsPastEnd(ls, c, i))

FaultsOnTail(ls, c) == Len(ls) >= 2 /\ ReadsPastEnd(ls, c, Len(ls) - 1)

-----------------------------------------------------------------------------
(***************************************************************************)
(* maybe_compact_buffer: drop the lines before the current block when the  *)
(* buffer is over the limit.                                               *)
(***************************************************************************)
BufferLen(ls) == SumFunction([k \in DOMAIN ls |-> Width[ls[k]] + 1]) - 1

SingleMode == SingleBlock /\ detected

Compacts(ls, c) ==
  /\ \E max \in MaxBufferBytes : BufferLen(ls) > max
  /\ ~SingleMode
  /\ c.start > 0

\* Faulty variants of KeptLines: the first line of the current block is
\* dropped, nothing is kept of a buffer that is all committed.
KeptLinesShort(ls, c) ==
  IF c.start + 1 < Len(ls) THEN SubSeq(ls, c.start + 2, Len(ls))
  ELSE <<EmptyText>>

KeptLinesEmpty(ls, c) == SubSeq(ls, c.start + 1, Len(ls))

KeptLines(ls, c) ==
  IF c.start < Len(ls) THEN SubSeq(ls, c.start + 1, Len(ls))
  ELSE <<EmptyText>>

Least(a, b) == IF a <= b THEN a ELSE b

\* Faulty variant: the count of processed lines is not rebased.
KeptProcessedAsIs(ls, c, done) == done

KeptProcessed(ls, c, done) ==
  IF done < c.start THEN 0
  ELSE Least(done - c.start, Len(KeptLines(ls, c)))

\* Faulty variant: compaction forgets the mode of the current block.
CompactNoMode(ls, c, done) ==
  IF Compacts(ls, c)
  THEN /\ lines' = KeptLines(ls, c)
       /\ cur' = [c EXCEPT !.base = c.base + c.start, !.start = 0,
                           !.mode = "Unknown"]
       /\ processed' = KeptProcessed(ls, c, done)
  ELSE lines' = ls /\ cur' = c /\ processed' = done

Compact(ls, c, done) ==
  IF Compacts(ls, c)
  THEN /\ lines' = KeptLines(ls, c)
       /\ cur' = [c EXCEPT !.base = c.base + c.start, !.start = 0]
       /\ processed' = KeptProcessed(ls, c, done)
  ELSE lines' = ls /\ cur' = c /\ processed' = done

(***************************************************************************)
(* current_pending_info and pending_block_snapshot: the pending block, as  *)
(* a sequence of at most one block.                                        *)
(***************************************************************************)
PendingMode(ls, c) ==
  IF c.mode = "Unknown" THEN StartMode(ls[c.start + 1]) ELSE c.mode

PendingOf(ls, c) ==
  IF SingleMode
  THEN IF ls = <<EmptyText>> THEN <<>>
       ELSE <<[id |-> 1, kind |-> "Unknown", from |-> c.base, raw |-> ls]>>
  ELSE IF \/ c.start >= Len(ls)
          \/ LinesOf(ls, c.start, Len(ls) - 1) = <<EmptyText>>
  THEN <<>>
  ELSE <<BlockAt([c EXCEPT !.mode = PendingMode(ls, c)],
                 LinesOf(ls, c.start, Len(ls) - 1))>>

(***************************************************************************)
(* snapshot_blocks: the committed blocks and the pending one.              *)
(***************************************************************************)
SnapshotBlocks == cur.committed \o PendingOf(lines, cur)

-----------------------------------------------------------------------------
Init ==
  /\ lines = <<EmptyText>>
  /\ processed = 0
  /\ cur = FreshCursor(0)
  /\ pc = "idle"
  /\ pendingCr = FALSE
  /\ detected = FALSE
  /\ dirty = FALSE
  /\ report = [mark |-> 0, reset |-> FALSE, final |-> FALSE]
  /\ doc = <<EmptyText>>
  /\ closed = FALSE

LastLine == lines[Len(lines)]

(***************************************************************************)
(* A chunk after newline normalization, as the texts of the lines it       *)
(* touches: the first is the last line with what the chunk adds to it.  A  *)
(* carriage return kept back by the previous chunk comes first, as a       *)
(* newline.                                                                *)
(***************************************************************************)
Chunk == UNION {[1..n -> Text] : n \in 1..MaxChunkLines}

Follows(chunk) ==
  IF pendingCr THEN Len(chunk) >= 2 /\ chunk[1] = LastLine
  ELSE <<LastLine, chunk[1]>> \in Grows

Extend(ls, chunk) == SubSeq(ls, 1, Len(ls) - 1) \o chunk

MayAppend == pc = "idle" /\ (ResetAfterFinalize => ~closed)

(***************************************************************************)
(* append_core up to the loop: newline normalization, footnote detection,  *)
(* append_to_lines, and the switch to a single block, which ends the call. *)
(***************************************************************************)
Detects(chunk) == \E k \in 1..Len(chunk) : Has(chunk[k], "footnote")

\* Faulty variants of EnterSingleBlock: the committed blocks stay, the Update
\* does not say reset.
EnterKeepingBlocks(ls) ==
  /\ cur' = [FreshCursor(cur.base) EXCEPT !.committed = cur.committed]
  /\ processed' = Len(ls)
  /\ report' = [mark |-> 0, reset |-> TRUE, final |-> FALSE]
  /\ pc' = "idle"

EnterSilently(ls) ==
  /\ cur' = FreshCursor(cur.base)
  /\ processed' = Len(ls)
  /\ report' = [mark |-> 0, reset |-> FALSE, final |-> FALSE]
  /\ pc' = "idle"

EnterSingleBlock(ls) ==
  /\ cur' = FreshCursor(cur.base)
  /\ processed' = Len(ls)
  /\ report' = [mark |-> 0, reset |-> TRUE, final |-> FALSE]
  /\ pc' = "idle"

EnterLoop ==
  /\ UNCHANGED <<cur, processed>>
  /\ report' = [mark |-> Len(cur.committed), reset |-> FALSE, final |-> FALSE]
  /\ pc' = "lines"

AppendChunk(chunk, endsInCr) ==
  /\ MayAppend
  /\ Follows(chunk)
  /\ chunk # <<LastLine>> \/ endsInCr
  /\ Len(doc) + Len(chunk) - 1 <= MaxLines
  /\ lines' = Extend(lines, chunk)
  /\ doc' = Extend(doc, chunk)
  /\ pendingCr' = endsInCr
  /\ detected' = (detected \/ Detects(chunk))
  /\ dirty' = (dirty \/ chunk # <<LastLine>>)
  /\ IF SingleBlock /\ Detects(chunk) /\ ~detected
     THEN EnterSingleBlock(lines') ELSE EnterLoop
  /\ UNCHANGED closed

(***************************************************************************)
(* append("") with no carriage return kept back: an Update of nothing new. *)
(***************************************************************************)
AppendNothing ==
  /\ MayAppend
  /\ ~pendingCr
  /\ report' = [mark |-> Len(cur.committed), reset |-> FALSE, final |-> FALSE]
  /\ UNCHANGED <<lines, processed, cur, pc, pendingCr, detected, dirty, doc,
                 closed>>

MoreLines == processed < Len(lines) - 1

ProcessLine ==
  /\ pc = "lines"
  /\ MoreLines
  /\ ~SingleMode => ~FaultsOnLine(lines, cur, processed)
  /\ cur' = IF SingleMode THEN cur ELSE Process(lines, cur, processed)
  /\ processed' = processed + 1
  /\ UNCHANGED <<lines, pc, pendingCr, detected, dirty, report, doc, closed>>

(***************************************************************************)
(* The rest of append_core.  Between finalizes the buffer only grows, and  *)
(* compaction takes the same bytes off its length and off                  *)
(* last_finalized_buffer_len, so the two differ afterwards if they did     *)
(* before, unless both become 0.                                           *)
(***************************************************************************)
FinishAppend ==
  /\ pc = "lines"
  /\ ~MoreLines
  /\ ~SingleMode => ~FaultsOnTail(lines, cur)
  /\ Compact(lines, IF SingleMode THEN cur ELSE TailBoundary(lines, cur),
             processed)
  /\ dirty' = (dirty /\ lines' # <<EmptyText>>)
  /\ pc' = "idle"
  /\ UNCHANGED <<pendingCr, detected, report, doc, closed>>

(***************************************************************************)
(* An index out of range stops the thread that called append.              *)
(***************************************************************************)
IndexFault ==
  /\ pc = "lines"
  /\ ~SingleMode
  /\ IF MoreLines THEN FaultsOnLine(lines, cur, processed)
     ELSE FaultsOnTail(lines, cur)
  /\ pc' = "panicked"
  /\ UNCHANGED <<lines, processed, cur, pendingCr, detected, dirty, report,
                 doc, closed>>

-----------------------------------------------------------------------------
(***************************************************************************)
(* finalize: a carriage return kept back becomes a newline, and what is    *)
(* pending is committed as it stands.                                      *)
(***************************************************************************)
NothingNew == ~pendingCr /\ ~dirty

FinalReport(mark) == [mark |-> mark, reset |-> FALSE, final |-> TRUE]

FinalizeNothingNew ==
  /\ pc = "idle"
  /\ NothingNew
  /\ report' = FinalReport(Len(cur.committed))
  /\ UNCHANGED <<lines, processed, cur, pc, pendingCr, detected, dirty, doc,
                 closed>>

FinalLines(ls) == IF pendingCr THEN Append(ls, EmptyText) ELSE ls

(***************************************************************************)
(* The pending block as finalize commits it, and the cursor after it.      *)
(***************************************************************************)
CommitRest(ls, c) ==
  LET rest == PendingOf(ls, c)
  IN  IF rest = <<>> THEN c
      ELSE [c EXCEPT !.committed = c.committed \o rest,
                     !.start = IF SingleMode THEN c.start ELSE Len(ls)]

(***************************************************************************)
(* finalize keeps the start mode it computed for an Unknown block.         *)
(***************************************************************************)
SettleMode(ls, c) ==
  IF ~SingleMode /\ PendingOf(ls, c) # <<>> /\ c.mode = "Unknown"
  THEN StartAt(c, ls[c.start + 1]) ELSE c

RestIsBlank(ls, c) ==
  /\ PendingOf(ls, c) # <<>>
  /\ AllBlank(PendingOf(ls, c)[1].raw)

Finalize ==
  /\ pc = "idle"
  /\ ~NothingNew
  /\ LET ls == FinalLines(lines)
         c == SettleMode(ls, cur)
     IN  IF RestIsBlank(ls, c)
         THEN /\ lines' = ls /\ cur' = c
              /\ dirty' = TRUE
              /\ UNCHANGED <<processed, closed>>
         ELSE /\ Compact(ls, CommitRest(ls, c), processed)
              /\ dirty' = FALSE
              /\ closed' = (closed \/ PendingOf(ls, c) # <<>>)
  /\ doc' = FinalLines(doc)
  /\ pendingCr' = FALSE
  /\ report' = FinalReport(Len(cur.committed))
  /\ UNCHANGED <<pc, detected>>

(***************************************************************************)
(* reset: a new document.                                                  *)
(***************************************************************************)
Reset ==
  /\ pc = "idle"
  /\ lines' = <<EmptyText>>
  /\ processed' = 0
  /\ cur' = FreshCursor(0)
  /\ pendingCr' = FALSE
  /\ detected' = FALSE
  /\ dirty' = FALSE
  /\ report' = [mark |-> 0, reset |-> FALSE, final |-> FALSE]
  /\ doc' = <<EmptyText>>
  /\ closed' = FALSE
  /\ UNCHANGED pc

NextOn(chunks) ==
  \/ \E chunk \in chunks, endsInCr \in BOOLEAN : AppendChunk(chunk, endsInCr)
  \/ AppendNothing
  \/ ProcessLine
  \/ FinishAppend
  \/ IndexFault
  \/ FinalizeNothingNew
  \/ Finalize
  \/ Reset

Next == NextOn(Chunk)

Spec == Init /\ [][Next]_vars
=============================================================================
