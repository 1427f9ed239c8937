----------------------- MODULE BlockStreamProperties -----------------------
(***************************************************************************)
(* What the block splitter promises: docs/ARCHITECTURE.md, "Invariants"    *)
(* and "Stable boundary detection", and the comments of stream.rs.         *)
(***************************************************************************)
EXTENDS BlockStream

Block == [id : Nat, kind : Mode, from : Nat, raw : Seq(Text)]

Cursor ==
  [base : Nat, start : Nat, id : Nat, nextId : Nat, mode : Mode,
   inner : Inner, committed : Seq(Block)]

(***************************************************************************)
(* The type invariant of the stream.                                       *)
(***************************************************************************)
TypeOK ==
  /\ lines \in Seq(Text) /\ lines # <<>>
  /\ processed \in Nat
  /\ cur \in Cursor
  /\ pc \in {"idle", "lines", "panicked"}
  /\ pendingCr \in BOOLEAN
  /\ detected \in BOOLEAN
  /\ dirty \in BOOLEAN
  /\ report \in [mark : Nat, reset : BOOLEAN, final : BOOLEAN]
  /\ doc \in Seq(Text) /\ doc # <<>>
  /\ closed \in BOOLEAN

-----------------------------------------------------------------------------
Committed == cur.committed

(***************************************************************************)
(* The first line of the document that is still pending.                   *)
(***************************************************************************)
PendingFrom ==
  IF closed THEN Len(doc)
  ELSE IF SingleMode THEN cur.base ELSE cur.base + cur.start

EndOf(blocks, k) ==
  IF k = 0 THEN 0 ELSE blocks[k].from + Len(blocks[k].raw)

StartOf(blocks, end, k) == IF k > Len(blocks) THEN end ELSE blocks[k].from

BlankBetween(d, first, last) == \A j \in first + 1 .. last : Blank(d[j])

(***************************************************************************)
(* The blocks stand one after the other in the first end lines of d, and   *)
(* every line of those that is in none of them is blank.                   *)
(***************************************************************************)
Covers(blocks, d, end) ==
  \A k \in 0..Len(blocks) :
    /\ EndOf(blocks, k) <= StartOf(blocks, end, k + 1)
    /\ BlankBetween(d, EndOf(blocks, k), StartOf(blocks, end, k + 1))

(***************************************************************************)
(* Every line of the document is in exactly one committed block or in the  *)
(* pending one, in order, unless it is blank and lies between two blocks:  *)
(* commit_block, finalize, compaction and the switch to a single block     *)
(* neither lose a line nor show one twice.                                 *)
(***************************************************************************)
NothingLost == Covers(Committed, doc, PendingFrom)

(***************************************************************************)
(* Every block quotes the lines of d at its place, and is not blank.       *)
(***************************************************************************)
Quotes(blocks, d) ==
  \A k \in 1..Len(blocks) :
    /\ \A j \in 1..Len(blocks[k].raw) :
         blocks[k].raw[j] = d[blocks[k].from + j]
    /\ ~AllBlank(blocks[k].raw)

(***************************************************************************)
(* A committed block holds the lines of the document at its place, also    *)
(* after the buffer was compacted and line numbers were rebased, and it is *)
(* never whitespace only (the comment in commit_block).                    *)
(***************************************************************************)
CommittedText == Quotes(Committed, doc)

(***************************************************************************)
(* The lines ls are those of d after the first base.                       *)
(***************************************************************************)
IsRestOf(ls, d, base) ==
  base + Len(ls) = Len(d) /\ \A j \in 1..Len(ls) : ls[j] = d[base + j]

(***************************************************************************)
(* The buffer holds the rest of the document from the last compaction on,  *)
(* so the pending block shows all of it.                                   *)
(***************************************************************************)
BufferIsRest == ~closed => IsRestOf(lines, doc, cur.base)

(***************************************************************************)
(* Ids in order, and an id above them.                                     *)
(***************************************************************************)
Increasing(blocks) ==
  \A k, l \in 1..Len(blocks) : k < l => blocks[k].id < blocks[l].id

AllBelow(blocks, id) == \A k \in 1..Len(blocks) : blocks[k].id < id

(***************************************************************************)
(* BlockId is "a monotonically increasing identifier for stable caching":  *)
(* committed ids increase, and until the document is finalized the id of   *)
(* the pending block is larger than all of them.                           *)
(***************************************************************************)
IdsIncrease ==
  /\ Increasing(Committed)
  /\ ~closed => AllBelow(Committed, cur.id)
  /\ cur.id < cur.nextId

(***************************************************************************)
(* snapshot_blocks never shows two blocks with one id: README.md offers    *)
(* the id as the key to cache a block by.  After the finalize of a single  *)
(* block it does (the theorem SnapshotIdsAreDistinct leaves that out).     *)
(***************************************************************************)
SnapshotIdsDistinct ==
  pc = "idle" => \A k, l \in DOMAIN SnapshotBlocks :
                   SnapshotBlocks[k].id = SnapshotBlocks[l].id => k = l

(***************************************************************************)
(* The assertion of maybe_compact_buffer, as process_line and finalize     *)
(* need it: the current block starts at a line that exists and that has    *)
(* not been scanned past without being seen as a block start, so no index  *)
(* is ever out of range.                                                   *)
(***************************************************************************)
CursorInRange ==
  /\ pc # "panicked"
  /\ ~closed /\ ~SingleMode => cur.start <= processed
                              /\ processed < Len(lines)

(***************************************************************************)
(* "table starts at prev line" (is_new_block_boundary): the first line of  *)
(* a table is the header row, not the delimiter row below it.              *)
(***************************************************************************)
TableStartsAtHeader ==
  \A k \in DOMAIN Committed :
    Committed[k].kind = "Table" =>
      \E j \in 2..Len(Committed[k].raw) :
        Has(Committed[k].raw[j], "delimiter")
        /\ Has(Committed[k].raw[j - 1], "pipe")

(***************************************************************************)
(* The mode of a block whose first line has been scanned is the one that   *)
(* line starts, or a table that a paragraph became: the mode drift that    *)
(* the comments of process_line and is_new_block_boundary guard against    *)
(* does not happen to a block with a complete line.                        *)
(***************************************************************************)
ModeOfFirstLine ==
  pc # "panicked" /\ ~closed /\ ~SingleMode /\ cur.start < processed =>
    LET mode == StartMode(lines[cur.start + 1])
    IN  cur.mode = mode \/ (mode = "Paragraph" /\ cur.mode = "Table")

(***************************************************************************)
(* The payload of a block that reads its lines one by one, after each.     *)
(***************************************************************************)
PayloadAt(b) ==
  LET read[j \in 1..Len(b.raw)] ==
        Scan[<<IF j = 1 THEN Enter[b.raw[1]] ELSE read[j - 1], b.raw[j]>>]
  IN  read

(***************************************************************************)
(* Line j completes block b: it closes the fence that the first line has   *)
(* opened, or leaves no tag or formula open.                               *)
(***************************************************************************)
CompletedAt(b, j) ==
  IF b.kind = "CodeFence"
  THEN j > 1 /\ Scan[<<Enter[b.raw[1]], b.raw[j]>>] \in Shut
  ELSE PayloadAt(b)[j] \in Shut

EndsRight(b) ==
  b.kind \in {"CodeFence", "HtmlBlock", "MathBlock"} =>
    \A j \in 1..Len(b.raw) : CompletedAt(b, j) <=> j = Len(b.raw)

(***************************************************************************)
(* A fenced, HTML or math block committed before the end of the document   *)
(* ends at the first line that completes it and is never split before      *)
(* ("Never split inside fenced code blocks").                              *)
(***************************************************************************)
EndsWhereItCloses ==
  \A k \in DOMAIN Committed :
    ~(closed /\ k = Len(Committed)) => EndsRight(Committed[k])

-----------------------------------------------------------------------------
(***************************************************************************)
(* No block ends after the line given.                                     *)
(***************************************************************************)
Within(blocks, end) == \A k \in 1..Len(blocks) : EndOf(blocks, k) <= end

(***************************************************************************)
(* What holds of a cursor c over the retained lines ls of the document d,  *)
(* n of which have been scanned.                                           *)
(***************************************************************************)
Sound(ls, d, c, n) ==
  /\ c \in Cursor
  /\ IsRestOf(ls, d, c.base)
  /\ c.start <= n
  /\ Covers(c.committed, d, c.base + c.start)
  /\ Within(c.committed, c.base + c.start)
  /\ Quotes(c.committed, d)
  /\ Increasing(c.committed)
  /\ AllBelow(c.committed, c.id)
  /\ c.id < c.nextId

(***************************************************************************)
(* The three situations of a document: open and split into blocks, open as *)
(* a single block, closed by finalize.                                     *)
(***************************************************************************)
OpenInv ==
  ~closed /\ ~SingleMode =>
    Sound(lines, doc, cur, processed) /\ processed < Len(lines)

SingleInv ==
  /\ ~closed /\ SingleMode => cur.committed = <<>>
  /\ SingleBlock => cur.base = 0

ClosedInv ==
  closed => /\ pc = "idle" /\ ~dirty /\ ~pendingCr
            /\ Covers(cur.committed, doc, Len(doc))
            /\ Quotes(cur.committed, doc)
            /\ Increasing(cur.committed)

(***************************************************************************)
(* The inductive invariant, for a caller that resets after a finalize.     *)
(* While the document is open and is not a single block, the cursor is     *)
(* sound and has an unscanned line left; a single block has committed      *)
(* nothing; a closed document is committed to its end.                     *)
(***************************************************************************)
IInv ==
  /\ TypeOK
  /\ pc # "panicked"
  /\ cur.id < cur.nextId
  /\ BufferIsRest
  /\ OpenInv
  /\ SingleInv
  /\ ClosedInv

-----------------------------------------------------------------------------
(***************************************************************************)
(* Chunking: the same document given in one append.                        *)
(***************************************************************************)
ScanTo(d, last) ==
  LET scan[n \in 0..last] ==
        IF n = 0 THEN FreshCursor(0) ELSE Process(d, scan[n - 1], n - 1)
  IN  scan[last]

Scanned == ScanTo(doc, Len(doc) - 1)

InOneChunk == TailBoundary(doc, Scanned)

(***************************************************************************)
(* Between calls the blocks, their kinds, their ids and the start of the   *)
(* pending block depend on the text so far, not on how it was cut into     *)
(* chunks, nor on when the buffer was compacted (the contract of           *)
(* chunking_invariance_suite.rs, for every prefix of the document).        *)
(***************************************************************************)
ChunkingInvariance ==
  pc = "idle" /\ ~closed /\ ~SingleMode =>
    /\ Committed = InOneChunk.committed
    /\ cur.id = InOneChunk.id
    /\ cur.base + cur.start = InOneChunk.start

(***************************************************************************)
(* What ChunkingInvariance rests on.  When the unfinished last line splits *)
(* the text, so does every line that it can become (process_incomplete_    *)
(* tail_boundary acts before it knows the rest).  Of the lines before it   *)
(* Boundary looks at the one before and at the first of the block, which   *)
(* may be the same.                                                        *)
(***************************************************************************)
StableGrowth ==
  \A pair \in Grows :
    pair[1] # pair[2] /\ ~Blank(pair[1]) =>
    \A first, prev \in Text, start \in 0..1,
       mode \in Mode \ {"MathBlock", "HtmlBlock"} :
      LET c == [FreshCursor(0) EXCEPT !.start = start, !.mode = mode]
      IN  Boundary(<<first, prev, pair[1]>>, c, 2)
            => Boundary(<<first, prev, pair[2]>>, c, 2)

(***************************************************************************)
(* A blank line starts no construct and is no underline or delimiter row.  *)
(***************************************************************************)
PlainBlanks ==
  \A t \in Text :
    Blank(t) => Is[t] \cap (Starter \cup {"setext", "delimiter"}) = {}

(***************************************************************************)
(* Only white space grows into white space.                                *)
(***************************************************************************)
FilledStaysFilled ==
  \A pair \in Grows : Blank(pair[2]) => Blank(pair[1])

(***************************************************************************)
(* A delimiter row that compaction makes line 0 is no table any more       *)
(* (update_mode_with_line), so a stream with a limit has no tables.        *)
(***************************************************************************)
NoTables == \A t, u \in Text : ~(Has(t, "pipe") /\ Has(u, "delimiter"))

IsPrefixOf(s, t) == Len(s) <= Len(t) /\ \A k \in 1..Len(s) : s[k] = t[k]

(***************************************************************************)
(* "committed blocks are append-only, stable, and never re-emitted with    *)
(* changed text": only reset, or an update that says reset, drops one.     *)
(***************************************************************************)
CommittedStable ==
  [][\/ IsPrefixOf(Committed, Committed')
     \/ doc' = <<EmptyText>> /\ ~detected'
     \/ report'.reset]_vars
=============================================================================
