------------------------- MODULE BlockStreamProofs -------------------------
(***************************************************************************)
(* Proofs about the block splitter, for every classification of lines,     *)
(* every growth relation, every payload automaton and every bound.         *)
(***************************************************************************)
EXTENDS BlockStreamProperties, Induction, SequenceTheorems, TLAPS

(***************************************************************************)
(* Two cursors that differ at most in the mode and its payload.            *)
(***************************************************************************)
SameBlocks(c, e) ==
  /\ e \in Cursor
  /\ e.base = c.base /\ e.start = c.start
  /\ e.id = c.id /\ e.nextId = c.nextId
  /\ e.committed = c.committed

(***************************************************************************)
(* A change of the mode and its payload alone leaves a sound cursor sound. *)
(***************************************************************************)
LEMMA ModeChange ==
  ASSUME NEW ls, NEW d, NEW c, NEW e, NEW n,
         Sound(ls, d, c, n), SameBlocks(c, e)
  PROVE  Sound(ls, d, e, n)
BY DEF Sound, SameBlocks

(***************************************************************************)
(* start_mode_for_line answers with a mode.                                *)
(***************************************************************************)
LEMMA StartModeType ==
  ASSUME NEW t \in Text
  PROVE  StartMode(t) \in Mode
BY DEF StartMode, Mode

(***************************************************************************)
(* Payloads stay in Inner, whatever line opens or continues a block.       *)
(***************************************************************************)
LEMMA PayloadType ==
  /\ NoPayload \in Inner
  /\ \A t \in Text : Enter[t] \in Inner
  /\ \A p \in Inner, t \in Text : Scan[<<p, t>>] \in Inner
BY TextAssumption, InnerAssumption DEF NoPayload

(***************************************************************************)
(* To compute the start mode of a line touches no block and no line        *)
(* number.                                                                 *)
(***************************************************************************)
LEMMA StartAtKeeps ==
  ASSUME NEW c \in Cursor, NEW t \in Text
  PROVE  SameBlocks(c, StartAt(c, t))
BY StartModeType, PayloadType DEF SameBlocks, StartAt, Cursor

(***************************************************************************)
(* commit_block keeps the committed blocks a cover of the text before the  *)
(* current block.                                                          *)
(***************************************************************************)
LEMMA CommitShape ==
  ASSUME NEW ls \in Seq(Text), NEW c \in Cursor, NEW end \in Nat,
         end < Len(ls), c.start <= end
  PROVE  /\ Commit(ls, c, end) \in Cursor
         /\ Commit(ls, c, end).base = c.base
         /\ Commit(ls, c, end).start = end + 1
         /\ Commit(ls, c, end).id = c.nextId
         /\ Commit(ls, c, end).nextId = c.nextId + 1
         /\ Commit(ls, c, end).committed =
              IF AllBlank(LinesOf(ls, c.start, end)) THEN c.committed
              ELSE Append(c.committed,
                          BlockAt(c, LinesOf(ls, c.start, end)))
         /\ LinesOf(ls, c.start, end) \in Seq(Text)
         /\ Len(LinesOf(ls, c.start, end)) = end + 1 - c.start
         /\ \A j \in 1..Len(LinesOf(ls, c.start, end)) :
              LinesOf(ls, c.start, end)[j] = ls[c.start + j]
         /\ BlockAt(c, LinesOf(ls, c.start, end)) \in Block
<1> DEFINE raw == LinesOf(ls, c.start, end)
<1>0. c.start \in Nat /\ c.base \in Nat /\ c.id \in Nat /\ c.nextId \in Nat
      /\ c.mode \in Mode /\ c.committed \in Seq(Block)
  BY DEF Cursor
<1>1. /\ raw \in Seq(Text) /\ Len(raw) = end + 1 - c.start
      /\ \A j \in 1..Len(raw) : raw[j] = ls[c.start + j]
  <2>1. PICK m, n \in Int : m = c.start + 1 /\ n = end + 1
    BY <1>0
  <2>2. \A i \in m..n : ls[i] \in Text
    BY <1>0, <2>1
  <2>3. /\ SubSeq(ls, m, n) \in Seq(Text)
        /\ Len(SubSeq(ls, m, n)) = IF m <= n THEN n - m + 1 ELSE 0
        /\ \A j \in 1..n - m + 1 : SubSeq(ls, m, n)[j] = ls[m + j - 1]
    BY <2>2, SubSeqProperties
  <2>4. raw = SubSeq(ls, m, n)
    BY <2>1 DEF LinesOf
  <2> HIDE DEF raw
  <2>5. /\ raw \in Seq(Text) /\ Len(raw) = IF m <= n THEN n - m + 1 ELSE 0
        /\ \A j \in 1..n - m + 1 : raw[j] = ls[m + j - 1]
    BY <2>3, <2>4, Zenon
  <2>6. n - m + 1 = end + 1 - c.start /\ m <= n
    BY <1>0, <2>1
  <2>7. Len(raw) = end + 1 - c.start
    BY <2>5, <2>6
  <2>8. ASSUME NEW j \in 1..Len(raw)
        PROVE  raw[j] = ls[c.start + j]
    <3>1. j \in 1..n - m + 1 /\ m + j - 1 = c.start + j
      BY <1>0, <2>1, <2>6, <2>7
    <3>2. QED
      BY <2>5, <3>1
  <2>9. QED
    BY <2>5, <2>7, <2>8
<1>2. \A j \in 1..Len(raw) : raw[j] = ls[c.start + j]
  BY <1>1
<1>3. KindForMode(c.mode) \in Mode
  BY <1>0 DEF KindForMode, Mode
<1>4. BlockAt(c, raw) \in Block
  BY <1>0, <1>1, <1>3 DEF BlockAt, Block
<1> DEFINE bs == IF AllBlank(raw) THEN c.committed
                 ELSE Append(c.committed, BlockAt(c, raw))
<1>5. bs \in Seq(Block)
  BY <1>0, <1>4
<1>6. Commit(ls, c, end) =
        [c EXCEPT !.start = end + 1, !.id = c.nextId,
                  !.nextId = c.nextId + 1, !.mode = "Unknown",
                  !.inner = NoPayload, !.committed = bs]
  BY <1>0 DEF Commit
<1> HIDE DEF bs, raw
<1>7. "Unknown" \in Mode /\ end + 1 \in Nat /\ c.nextId + 1 \in Nat
  BY <1>0 DEF Mode
<1>8. Commit(ls, c, end) \in Cursor
  BY <1>0, <1>5, <1>6, <1>7, PayloadType DEF Cursor
<1>9. /\ Commit(ls, c, end).base = c.base
      /\ Commit(ls, c, end).start = end + 1
      /\ Commit(ls, c, end).id = c.nextId
      /\ Commit(ls, c, end).nextId = c.nextId + 1
      /\ Commit(ls, c, end).committed = bs
  BY <1>6 DEF Cursor
<1>10. QED
  BY <1>1, <1>2, <1>4, <1>8, <1>9 DEF raw, bs

(***************************************************************************)
(* The fields of one block of a sequence of blocks have their types.       *)
(***************************************************************************)
LEMMA BlockFields ==
  ASSUME NEW bs \in Seq(Block), NEW k \in 1..Len(bs)
  PROVE  /\ bs[k].id \in Nat /\ bs[k].from \in Nat
         /\ bs[k].raw \in Seq(Text) /\ Len(bs[k].raw) \in Nat
<1>1. bs[k] \in Block
  OBVIOUS
<1>2. bs[k].id \in Nat /\ bs[k].from \in Nat /\ bs[k].raw \in Seq(Text)
  BY <1>1 DEF Block
<1>3. QED
  BY <1>2

(***************************************************************************)
(* The ends and starts of blocks are line numbers.                         *)
(***************************************************************************)
LEMMA Ends ==
  ASSUME NEW bs \in Seq(Block), NEW end \in Nat
  PROVE  /\ \A k \in 0..Len(bs) : EndOf(bs, k) \in Nat
         /\ \A k \in 1..Len(bs) + 1 : StartOf(bs, end, k) \in Nat
BY BlockFields DEF EndOf, StartOf

(***************************************************************************)
(* Blank lines after the last block can be skipped.                        *)
(***************************************************************************)
LEMMA SkipBlank ==
  ASSUME NEW bs \in Seq(Block), NEW d, NEW first \in Nat, NEW last \in Nat,
         Covers(bs, d, first), Within(bs, first), first <= last,
         BlankBetween(d, first, last)
  PROVE  Covers(bs, d, last) /\ Within(bs, last)
<1>1. Within(bs, last)
  BY Ends DEF Within
<1>2. ASSUME NEW k \in 0..Len(bs)
      PROVE  /\ EndOf(bs, k) <= StartOf(bs, last, k + 1)
             /\ BlankBetween(d, EndOf(bs, k), StartOf(bs, last, k + 1))
  <2>1. /\ EndOf(bs, k) <= StartOf(bs, first, k + 1)
        /\ BlankBetween(d, EndOf(bs, k), StartOf(bs, first, k + 1))
    BY DEF Covers
  <2>2. CASE k < Len(bs)
    BY <2>1, <2>2 DEF StartOf
  <2>3. CASE k = Len(bs)
    <3>1. /\ StartOf(bs, first, k + 1) = first
          /\ StartOf(bs, last, k + 1) = last
      BY <2>3 DEF StartOf
    <3>2. EndOf(bs, k) \in Nat
      BY Ends
    <3>3. BlankBetween(d, EndOf(bs, k), last)
      BY <2>1, <3>1, <3>2 DEF BlankBetween
    <3>4. QED
      BY <2>1, <3>1, <3>2, <3>3
  <2>4. QED
    BY <2>2, <2>3
<1>3. QED
  BY <1>1, <1>2 DEF Covers

(***************************************************************************)
(* A block that starts where the others end can be added after them.       *)
(***************************************************************************)
LEMMA BlockAdded ==
  ASSUME NEW bs \in Seq(Block), NEW d, NEW b \in Block,
         Covers(bs, d, b.from), Within(bs, b.from)
  PROVE  /\ Covers(Append(bs, b), d, b.from + Len(b.raw))
         /\ Within(Append(bs, b), b.from + Len(b.raw))
<1> DEFINE cs == Append(bs, b)
           last == b.from + Len(b.raw)
<1>0. /\ b.from \in Nat /\ b.raw \in Seq(Text) /\ Len(b.raw) \in Nat
      /\ last \in Nat
  BY DEF Block
<1>1. cs \in Seq(Block) /\ Len(cs) = Len(bs) + 1 /\ cs[Len(bs) + 1] = b
      /\ \A k \in 1..Len(bs) : cs[k] = bs[k]
  OBVIOUS
<1>2. /\ \A k \in 0..Len(bs) : EndOf(cs, k) = EndOf(bs, k)
      /\ EndOf(cs, Len(bs) + 1) = last
  BY <1>1 DEF EndOf
<1>3. \A k \in 0..Len(bs) :
        StartOf(cs, last, k + 1) = StartOf(bs, b.from, k + 1)
  BY <1>1 DEF StartOf
<1>4. StartOf(cs, last, Len(bs) + 2) = last
  BY <1>1 DEF StartOf
<1> HIDE DEF cs, last
<1>5. Within(cs, last)
  <2>1. ASSUME NEW k \in 1..Len(cs)
        PROVE  EndOf(cs, k) <= last
    <3>1. CASE k \in 1..Len(bs)
      <4>1. EndOf(cs, k) = EndOf(bs, k) /\ EndOf(bs, k) <= b.from
        BY <1>2, <3>1 DEF Within
      <4>2. EndOf(bs, k) \in Nat
        BY <3>1, Ends
      <4>3. QED
        BY <1>0, <4>1, <4>2 DEF last
    <3>2. CASE k = Len(bs) + 1
      BY <1>0, <1>2, <3>2
    <3>3. QED
      BY <1>1, <3>1, <3>2
  <2>2. QED
    BY <2>1 DEF Within
<1>6. ASSUME NEW k \in 0..Len(cs)
      PROVE  /\ EndOf(cs, k) <= StartOf(cs, last, k + 1)
             /\ BlankBetween(d, EndOf(cs, k), StartOf(cs, last, k + 1))
  <2>1. CASE k \in 0..Len(bs)
    BY <1>2, <1>3, <2>1 DEF Covers
  <2>2. CASE k = Len(bs) + 1
    BY <1>0, <1>2, <1>4, <2>2 DEF BlankBetween
  <2>3. QED
    BY <1>1, <2>1, <2>2
<1>7. QED
  BY <1>5, <1>6 DEF Covers, cs, last

(***************************************************************************)
(* The two outcomes of a commit, for the text raw of the current block: it *)
(* is blank and skipped, or it becomes a committed block.                  *)
(***************************************************************************)
LEMMA SkippedSound ==
  ASSUME NEW ls, NEW d, NEW c, NEW n \in Nat, NEW raw \in Seq(Text), NEW e,
         Sound(ls, d, c, n), AllBlank(raw),
         \A j \in 1..Len(raw) : raw[j] = d[c.base + c.start + j],
         e \in Cursor, e.base = c.base, e.start = c.start + Len(raw),
         e.start <= n, e.id = c.nextId, e.nextId = c.nextId + 1,
         e.committed = c.committed
  PROVE  Sound(ls, d, e, n)
<1>1. /\ c.start \in Nat /\ c.base \in Nat /\ Len(raw) \in Nat
      /\ c.id \in Nat /\ c.nextId \in Nat /\ c.committed \in Seq(Block)
  BY DEF Sound, Cursor
<1>2. BlankBetween(d, c.base + c.start, e.base + e.start)
  <2>1. SUFFICES ASSUME NEW j \in c.base + c.start + 1 .. e.base + e.start
                 PROVE  Blank(d[j])
    BY DEF BlankBetween
  <2>2. j - (c.base + c.start) \in 1..Len(raw)
    BY <1>1
  <2>3. d[j] = raw[j - (c.base + c.start)]
    BY <1>1, <2>2
  <2>4. QED
    BY <2>2, <2>3 DEF AllBlank
<1>3. /\ Covers(c.committed, d, e.base + e.start)
      /\ Within(c.committed, e.base + e.start)
  BY <1>1, <1>2, SkipBlank DEF Sound
<1>4. AllBelow(c.committed, e.id)
  BY <1>1, BlockFields DEF Sound, AllBelow
<1>5. QED
  BY <1>1, <1>3, <1>4 DEF Sound

(***************************************************************************)
(* A sound cursor stays sound when the block that begins at its start,     *)
(* with the text of the document and not blank, is committed and a larger  *)
(* id is current.                                                          *)
(***************************************************************************)
LEMMA CommittedSound ==
  ASSUME NEW ls, NEW d, NEW c, NEW n \in Nat, NEW b \in Block, NEW e,
         Sound(ls, d, c, n), ~AllBlank(b.raw),
         \A j \in 1..Len(b.raw) : b.raw[j] = d[b.from + j],
         b.from = c.base + c.start, b.id = c.id,
         e \in Cursor, e.base = c.base, e.start = c.start + Len(b.raw),
         e.start <= n, e.id = c.nextId, e.nextId = c.nextId + 1,
         e.committed = Append(c.committed, b)
  PROVE  Sound(ls, d, e, n)
<1>1. /\ c.start \in Nat /\ c.base \in Nat /\ Len(b.raw) \in Nat
      /\ c.id \in Nat /\ c.nextId \in Nat /\ c.committed \in Seq(Block)
  BY DEF Sound, Cursor, Block
<1>2. /\ Len(e.committed) = Len(c.committed) + 1
      /\ e.committed[Len(c.committed) + 1] = b
      /\ \A k \in 1..Len(c.committed) : e.committed[k] = c.committed[k]
  BY <1>1
<1>3. /\ Covers(e.committed, d, e.base + e.start)
      /\ Within(e.committed, e.base + e.start)
  <2>1. e.base + e.start = b.from + Len(b.raw)
    BY <1>1
  <2>2. QED
    BY <1>1, <2>1, BlockAdded DEF Sound
<1>4. Quotes(e.committed, d)
  <2>1. ASSUME NEW k \in 1..Len(e.committed)
        PROVE  /\ \A j \in 1..Len(e.committed[k].raw) :
                    e.committed[k].raw[j] = d[e.committed[k].from + j]
               /\ ~AllBlank(e.committed[k].raw)
    <3>1. CASE k \in 1..Len(c.committed)
      BY <1>2, <3>1 DEF Sound, Quotes
    <3>2. CASE k = Len(c.committed) + 1
      BY <1>2, <3>2
    <3>3. QED
      BY <1>1, <1>2, <3>1, <3>2
  <2>2. QED
    BY <2>1 DEF Quotes
<1>5. Increasing(e.committed)
  BY <1>1, <1>2, BlockFields DEF Sound, Increasing, AllBelow
<1>6. AllBelow(e.committed, e.id)
  <2>1. ASSUME NEW k \in 1..Len(e.committed)
        PROVE  e.committed[k].id < e.id
    <3>1. /\ e.id = c.nextId /\ c.id < c.nextId
          /\ \A m \in 1..Len(c.committed) : c.committed[m].id < c.id
      BY DEF Sound, AllBelow
    <3>2. CASE k \in 1..Len(c.committed)
      BY <1>1, <1>2, <3>1, <3>2, BlockFields
    <3>3. CASE k = Len(c.committed) + 1
      BY <1>2, <3>1, <3>3
    <3>4. QED
      BY <1>1, <1>2, <3>2, <3>3
  <2>2. QED
    BY <2>1 DEF AllBelow
<1>7. QED
  BY <1>1, <1>3, <1>4, <1>5, <1>6 DEF Sound

(***************************************************************************)
(* commit_block keeps the cursor sound, whether it commits the block,      *)
(* skips it as blank or has nothing to do.                                 *)
(***************************************************************************)
LEMMA CommitSound ==
  ASSUME NEW ls \in Seq(Text), NEW d \in Seq(Text), NEW c, NEW end \in Nat,
         end < Len(ls), Sound(ls, d, c, end + 1)
  PROVE  Sound(ls, d, Commit(ls, c, end), end + 1)
<1>0. c \in Cursor /\ c.start \in Nat /\ c.base \in Nat
  BY DEF Sound, Cursor
<1>1. CASE ~(c.start <= end)
  <2>1. Commit(ls, c, end) = c
    BY <1>0, <1>1 DEF Commit
  <2>2. QED
    BY <2>1
<1>2. CASE c.start <= end
  <2> DEFINE raw == LinesOf(ls, c.start, end)
             b == BlockAt(c, raw)
             e == Commit(ls, c, end)
  <2>1. /\ e \in Cursor /\ e.base = c.base /\ e.start = end + 1
        /\ e.id = c.nextId /\ e.nextId = c.nextId + 1
        /\ e.committed = IF AllBlank(raw) THEN c.committed
                         ELSE Append(c.committed, b)
        /\ raw \in Seq(Text) /\ Len(raw) = end + 1 - c.start
        /\ \A j \in 1..Len(raw) : raw[j] = ls[c.start + j]
        /\ b \in Block
    BY <1>0, <1>2, CommitShape
  <2>2. b.raw = raw /\ b.from = c.base + c.start /\ b.id = c.id
    BY DEF BlockAt
  <2>3. \A j \in 1..Len(raw) : raw[j] = d[c.base + c.start + j]
    <3>1. SUFFICES ASSUME NEW j \in 1..Len(raw)
                   PROVE  raw[j] = d[c.base + c.start + j]
      OBVIOUS
    <3>2. c.start + j \in 1..Len(ls)
      BY <1>0, <1>2, <2>1
    <3>3. ls[c.start + j] = d[c.base + (c.start + j)]
      BY <3>2 DEF Sound, IsRestOf
    <3>4. QED
      BY <1>0, <2>1, <3>3
  <2>4. e.start = c.start + Len(raw)
    BY <1>0, <1>2, <2>1
  <2>5. Sound(ls, d, e, end + 1)
    <3> HIDE DEF raw, b, e
    <3>1. CASE AllBlank(raw)
      BY <2>1, <2>3, <2>4, <3>1, SkippedSound
    <3>2. CASE ~AllBlank(raw)
      <4>1. /\ ~AllBlank(b.raw) /\ e.start = c.start + Len(b.raw)
            /\ e.start <= end + 1 /\ end + 1 \in Nat
            /\ e.committed = Append(c.committed, b)
        BY <2>1, <2>2, <2>4, <3>2
      <4>2. \A j \in 1..Len(b.raw) : b.raw[j] = d[b.from + j]
        BY <2>2, <2>3
      <4>3. QED
        BY <2>1, <2>2, <4>1, <4>2, CommittedSound
    <3>3. QED
      BY <3>1, <3>2
  <2>6. QED
    BY <2>5
<1>3. QED
  BY <1>1, <1>2

-----------------------------------------------------------------------------
(***************************************************************************)
(* Scanning a line keeps the cursor sound.                                 *)
(***************************************************************************)
LEMMA MoreScanned ==
  ASSUME NEW ls, NEW d, NEW c, NEW n \in Nat, NEW m \in Nat,
         Sound(ls, d, c, n), n <= m
  PROVE  Sound(ls, d, c, m)
<1>1. c.start \in Nat
  BY DEF Sound, Cursor
<1>2. QED
  BY <1>1 DEF Sound

(***************************************************************************)
(* maybe_commit_single_line keeps the cursor sound.                        *)
(***************************************************************************)
LEMMA CommitSingleLineSound ==
  ASSUME NEW ls \in Seq(Text), NEW d \in Seq(Text), NEW c, NEW i \in Nat,
         i < Len(ls), Sound(ls, d, c, i + 1)
  PROVE  Sound(ls, d, CommitSingleLine(ls, c, i), i + 1)
BY CommitSound DEF CommitSingleLine

(***************************************************************************)
(* To feed a line to the payload touches no block and no line number.      *)
(***************************************************************************)
LEMMA ScanKeeps ==
  ASSUME NEW c \in Cursor, NEW t \in Text
  PROVE  SameBlocks(c, [c EXCEPT !.inner = Scan[<<c.inner, t>>]])
<1>1. c.inner \in Inner
  BY DEF Cursor
<1>2. Scan[<<c.inner, t>>] \in Inner
  BY <1>1, PayloadType
<1>3. QED
  BY <1>2 DEF SameBlocks, Cursor

(***************************************************************************)
(* To assign the mode touches no block and no line number.                 *)
(***************************************************************************)
LEMMA SetModeKeeps ==
  ASSUME NEW c \in Cursor, NEW mode \in Mode
  PROVE  SameBlocks(c, [c EXCEPT !.mode = mode])
BY DEF SameBlocks, Cursor

(***************************************************************************)
(* update_mode_with_line keeps the cursor sound, in every mode.            *)
(***************************************************************************)
LEMMA UpdateModeSound ==
  ASSUME NEW ls \in Seq(Text), NEW d \in Seq(Text), NEW c, NEW i \in Nat,
         i < Len(ls), Sound(ls, d, c, i + 1)
  PROVE  Sound(ls, d, UpdateMode(ls, c, i), i + 1)
<1>0. c \in Cursor /\ ls[i + 1] \in Text
  BY DEF Sound
<1>1. Sound(ls, d, CommitSingleLine(ls, StartAt(c, ls[i + 1]), i), i + 1)
  <2>1. Sound(ls, d, StartAt(c, ls[i + 1]), i + 1)
    BY <1>0, StartAtKeeps, ModeChange
  <2>2. QED
    BY <2>1, CommitSingleLineSound
<1>2. Sound(ls, d, CloseFence(ls, c, i), i + 1)
  BY CommitSound DEF CloseFence
<1>3. Sound(ls, d, CloseOnLine(ls, c, i), i + 1)
  <2> DEFINE read == [c EXCEPT !.inner = Scan[<<c.inner, ls[i + 1]>>]]
  <2>1. Sound(ls, d, read, i + 1)
    BY <1>0, ScanKeeps, ModeChange
  <2> HIDE DEF read
  <2>2. Sound(ls, d, Commit(ls, read, i), i + 1)
    BY <2>1, CommitSound
  <2>3. CloseOnLine(ls, c, i) =
          IF read.inner \in Shut THEN Commit(ls, read, i) ELSE read
    BY DEF CloseOnLine, read
  <2>4. QED
    BY <2>1, <2>2, <2>3
<1>4. Sound(ls, d, UpgradeParagraph(ls, c, i), i + 1)
  <2>1. "Heading" \in Mode /\ "Table" \in Mode
    BY DEF Mode
  <2>2. Sound(ls, d, [c EXCEPT !.mode = "Table"], i + 1)
    BY <1>0, <2>1, SetModeKeeps, ModeChange
  <2>3. Sound(ls, d, [c EXCEPT !.mode = "Heading"], i + 1)
    BY <1>0, <2>1, SetModeKeeps, ModeChange
  <2>4. Sound(ls, d, Commit(ls, [c EXCEPT !.mode = "Heading"], i), i + 1)
    BY <2>3, CommitSound
  <2>5. QED
    BY <2>2, <2>4 DEF UpgradeParagraph
<1>5. QED
  BY <1>1, <1>2, <1>3, <1>4 DEF UpdateMode

(***************************************************************************)
(* The first line of a block keeps the cursor sound, also when it is       *)
(* committed at once and the line is read again.                           *)
(***************************************************************************)
LEMMA OpenBlockSound ==
  ASSUME NEW ls \in Seq(Text), NEW d \in Seq(Text), NEW c, NEW i \in Nat,
         i < Len(ls), Sound(ls, d, c, i + 1)
  PROVE  Sound(ls, d, OpenBlock(ls, c, i), i + 1)
<1>1. Sound(ls, d, StartAt(c, ls[i + 1]), i + 1)
  <2>1. c \in Cursor /\ ls[i + 1] \in Text
    BY DEF Sound
  <2>2. QED
    BY <2>1, StartAtKeeps, ModeChange
<1>2. Sound(ls, d, CommitSingleLine(ls, StartAt(c, ls[i + 1]), i), i + 1)
  BY <1>1, CommitSingleLineSound
<1>3. QED
  BY <1>2, UpdateModeSound DEF OpenBlock

(***************************************************************************)
(* process_line and process_incomplete_tail_boundary.                      *)
(***************************************************************************)
LEMMA ProcessSound ==
  ASSUME NEW ls \in Seq(Text), NEW d \in Seq(Text), NEW c, NEW i \in Nat,
         i < Len(ls), Sound(ls, d, c, i)
  PROVE  Sound(ls, d, Process(ls, c, i), i + 1)
<1>0. c.start \in Nat /\ c.start <= i
  BY DEF Sound, Cursor
<1>1. Sound(ls, d, c, i + 1)
  BY MoreScanned
<1>2. CASE i = c.start
  BY <1>1, <1>2, OpenBlockSound DEF Process
<1>3. CASE i # c.start /\ Boundary(ls, c, i)
  <2>1. i - 1 \in Nat /\ (i - 1) + 1 = i /\ i - 1 < Len(ls)
    BY <1>0, <1>3
  <2>2. Sound(ls, d, Commit(ls, c, i - 1), i)
    BY <2>1, CommitSound
  <2>3. Sound(ls, d, Commit(ls, c, i - 1), i + 1)
    BY <2>2, MoreScanned
  <2>4. QED
    BY <1>3, <2>3, OpenBlockSound DEF Process
<1>4. CASE i # c.start /\ ~Boundary(ls, c, i)
  BY <1>1, <1>4, UpdateModeSound DEF Process
<1>5. QED
  BY <1>2, <1>3, <1>4

(***************************************************************************)
(* process_incomplete_tail_boundary keeps the cursor sound and leaves the  *)
(* unfinished line uncommitted.                                            *)
(***************************************************************************)
LEMMA TailBoundarySound ==
  ASSUME NEW ls \in Seq(Text), NEW d \in Seq(Text), NEW c,
         ls # <<>>, Sound(ls, d, c, Len(ls) - 1)
  PROVE  Sound(ls, d, TailBoundary(ls, c), Len(ls) - 1)
<1> DEFINE last == Len(ls) - 1
<1>1. CASE last >= 1 /\ Boundary(ls, c, last)
  <2>1. last - 1 \in Nat /\ (last - 1) + 1 = last /\ last - 1 < Len(ls)
        /\ ls[last + 1] \in Text
    BY <1>1
  <2>2. Sound(ls, d, Commit(ls, c, last - 1), last)
    BY <2>1, CommitSound
  <2>3. Sound(ls, d, StartAt(Commit(ls, c, last - 1), ls[last + 1]), last)
    <3>1. Commit(ls, c, last - 1) \in Cursor
      BY <2>2 DEF Sound
    <3>2. QED
      BY <2>1, <2>2, <3>1, StartAtKeeps, ModeChange
  <2>4. QED
    BY <1>1, <2>3 DEF TailBoundary
<1>2. CASE ~(last >= 1 /\ Boundary(ls, c, last))
  BY <1>2 DEF TailBoundary
<1>3. QED
  BY <1>1, <1>2

-----------------------------------------------------------------------------
(***************************************************************************)
(* Text that is added after the blocks does not change what they cover.    *)
(***************************************************************************)
LEMMA SamePrefix ==
  ASSUME NEW bs \in Seq(Block), NEW d, NEW e, NEW end \in Nat,
         Covers(bs, d, end), Within(bs, end), Quotes(bs, d),
         \A j \in 1..end : e[j] = d[j]
  PROVE  Covers(bs, e, end) /\ Quotes(bs, e)
<1>1. ASSUME NEW k \in 0..Len(bs)
      PROVE  BlankBetween(e, EndOf(bs, k), StartOf(bs, end, k + 1))
  <2>1. EndOf(bs, k) \in Nat /\ StartOf(bs, end, k + 1) \in Nat
    BY Ends
  <2>2. StartOf(bs, end, k + 1) <= end
    <3>1. CASE k = Len(bs)
      BY <3>1 DEF StartOf
    <3>2. CASE k < Len(bs)
      <4>1. k + 1 \in 1..Len(bs)
        BY <3>2
      <4>2. bs[k + 1].from + Len(bs[k + 1].raw) <= end
        BY <4>1 DEF Within, EndOf
      <4>3. QED
        BY <3>2, <4>1, <4>2, BlockFields DEF StartOf
    <3>3. QED
      BY <3>1, <3>2
  <2>3. BlankBetween(d, EndOf(bs, k), StartOf(bs, end, k + 1))
    BY DEF Covers
  <2>4. QED
    BY <2>1, <2>2, <2>3 DEF BlankBetween
<1>2. ASSUME NEW k \in 1..Len(bs), NEW j \in 1..Len(bs[k].raw)
      PROVE  bs[k].raw[j] = e[bs[k].from + j]
  <2>1. bs[k].from + Len(bs[k].raw) <= end
    BY DEF Within, EndOf
  <2>2. bs[k].from + j \in 1..end
    BY <2>1, BlockFields
  <2>3. QED
    BY <2>2 DEF Quotes
<1>3. QED
  BY <1>1, <1>2 DEF Covers, Quotes

(***************************************************************************)
(* append_to_lines replaces the unfinished last line and adds lines.       *)
(***************************************************************************)
LEMMA ExtendFacts ==
  ASSUME NEW ls \in Seq(Text), ls # <<>>, NEW chunk \in Chunk
  PROVE  /\ chunk \in Seq(Text) /\ Len(chunk) >= 1
         /\ Extend(ls, chunk) \in Seq(Text)
         /\ Extend(ls, chunk) # <<>>
         /\ Len(Extend(ls, chunk)) = Len(ls) - 1 + Len(chunk)
         /\ \A j \in 1..Len(ls) - 1 : Extend(ls, chunk)[j] = ls[j]
         /\ \A j \in 1..Len(chunk) :
              Extend(ls, chunk)[Len(ls) - 1 + j] = chunk[j]
<1>1. PICK n \in 1..MaxChunkLines : chunk \in [1..n -> Text]
  BY DEF Chunk
<1>2. chunk \in Seq(Text) /\ Len(chunk) = n /\ n \in Nat
  BY <1>1, OptionsAssumption
<1> DEFINE front == SubSeq(ls, 1, Len(ls) - 1)
<1>3. front \in Seq(Text) /\ Len(front) = Len(ls) - 1
      /\ \A j \in 1..Len(ls) - 1 : front[j] = ls[j]
  <2>1. Len(ls) \in Nat /\ Len(ls) >= 1
    OBVIOUS
  <2>2. \A j \in 1..Len(ls) - 1 : ls[j] \in Text
    BY <2>1
  <2>3. PICK m \in Nat : m = Len(ls) - 1
    BY <2>1
  <2>4. front = SubSeq(ls, 1, m)
    BY <2>3
  <2>5. /\ SubSeq(ls, 1, m) \in Seq(Text)
        /\ Len(SubSeq(ls, 1, m)) = IF 1 <= m THEN m - 1 + 1 ELSE 0
        /\ \A j \in 1..m - 1 + 1 : SubSeq(ls, 1, m)[j] = ls[1 + j - 1]
    BY <2>2, <2>3, SubSeqProperties
  <2> HIDE DEF front
  <2>6. front \in Seq(Text) /\ Len(front) = m
    BY <2>4, <2>5
  <2>7. ASSUME NEW j \in 1..m
        PROVE  front[j] = ls[j]
    <3>1. m - 1 + 1 = m /\ 1 + j - 1 = j
      OBVIOUS
    <3>2. QED
      BY <2>4, <2>5, <3>1
  <2>8. QED
    BY <2>3, <2>6, <2>7
<1> HIDE DEF front
<1>4. /\ front \o chunk \in Seq(Text)
      /\ Len(front \o chunk) = Len(ls) - 1 + Len(chunk)
      /\ \A j \in 1..Len(ls) - 1 : (front \o chunk)[j] = ls[j]
      /\ \A j \in 1..Len(chunk) : (front \o chunk)[Len(ls) - 1 + j] = chunk[j]
  <2>1. /\ front \o chunk \in Seq(Text)
        /\ Len(front \o chunk) = Len(front) + Len(chunk)
        /\ \A j \in 1..Len(front) + Len(chunk) :
             (front \o chunk)[j] = IF j <= Len(front) THEN front[j]
                                    ELSE chunk[j - Len(front)]
    BY <1>2, <1>3, ConcatProperties
  <2> DEFINE both == front \o chunk
  <2>2. /\ both \in Seq(Text) /\ Len(both) = Len(front) + Len(chunk)
        /\ \A j \in 1..Len(front) + Len(chunk) :
             both[j] = IF j <= Len(front) THEN front[j]
                       ELSE chunk[j - Len(front)]
    BY <2>1
  <2> HIDE DEF both
  <2>3. Len(front) \in Nat /\ Len(chunk) \in Nat
    BY <1>2, <1>3
  <2>4. ASSUME NEW j \in 1..Len(front)
        PROVE  both[j] = ls[j]
    BY <1>3, <2>2, <2>3
  <2>5. ASSUME NEW j \in 1..Len(chunk)
        PROVE  both[Len(front) + j] = chunk[j]
    <3>1. /\ Len(front) + j \in 1..Len(front) + Len(chunk)
          /\ ~(Len(front) + j <= Len(front))
          /\ Len(front) + j - Len(front) = j
      BY <2>3
    <3>2. QED
      BY <2>2, <3>1
  <2>6. /\ both \in Seq(Text)
        /\ Len(both) = Len(ls) - 1 + Len(chunk)
        /\ \A j \in 1..Len(ls) - 1 : both[j] = ls[j]
        /\ \A j \in 1..Len(chunk) : both[Len(ls) - 1 + j] = chunk[j]
    BY <1>3, <2>2, <2>4, <2>5
  <2>7. QED
    BY <2>6 DEF both
<1>5. Len(ls) >= 1 /\ Len(chunk) >= 1
  BY <1>1, <1>2
<1>6. front \o chunk # <<>>
  BY <1>4, <1>5
<1>7. Extend(ls, chunk) = front \o chunk
  BY DEF Extend, front
<1>8. QED
  BY <1>2, <1>4, <1>5, <1>6, <1>7

(***************************************************************************)
(* The buffer stays the rest of the document when both are extended.       *)
(***************************************************************************)
LEMMA ExtendRest ==
  ASSUME NEW ls \in Seq(Text), ls # <<>>, NEW d \in Seq(Text), d # <<>>,
         NEW base \in Nat, NEW chunk \in Chunk, IsRestOf(ls, d, base)
  PROVE  IsRestOf(Extend(ls, chunk), Extend(d, chunk), base)
<1> DEFINE l2 == Extend(ls, chunk)
           d2 == Extend(d, chunk)
<1>1. /\ l2 \in Seq(Text) /\ Len(l2) = Len(ls) - 1 + Len(chunk)
      /\ \A j \in 1..Len(ls) - 1 : l2[j] = ls[j]
      /\ \A j \in 1..Len(chunk) : l2[Len(ls) - 1 + j] = chunk[j]
      /\ chunk \in Seq(Text)
  BY ExtendFacts
<1>2. /\ d2 \in Seq(Text) /\ Len(d2) = Len(d) - 1 + Len(chunk)
      /\ \A j \in 1..Len(d) - 1 : d2[j] = d[j]
      /\ \A j \in 1..Len(chunk) : d2[Len(d) - 1 + j] = chunk[j]
  BY ExtendFacts
<1> HIDE DEF l2, d2
<1>3. base + Len(ls) = Len(d) /\ Len(ls) \in Nat /\ Len(d) \in Nat
      /\ Len(ls) >= 1 /\ Len(chunk) \in Nat /\ Len(l2) \in Nat
  BY <1>1 DEF IsRestOf
<1>4. ASSUME NEW j \in 1..Len(l2)
      PROVE  l2[j] = d2[base + j]
  <2>1. CASE j <= Len(ls) - 1
    <3>1. j \in 1..Len(ls) - 1 /\ base + j \in 1..Len(d) - 1
          /\ j \in 1..Len(ls)
      BY <1>3, <2>1
    <3>2. ls[j] = d[base + j]
      BY <3>1 DEF IsRestOf
    <3>3. QED
      BY <1>1, <1>2, <3>1, <3>2
  <2>2. CASE ~(j <= Len(ls) - 1)
    <3> DEFINE i == j - (Len(ls) - 1)
    <3>1. i \in 1..Len(chunk) /\ j = Len(ls) - 1 + i
          /\ base + j = Len(d) - 1 + i
      <4>1. j \in Nat /\ j <= Len(ls) - 1 + Len(chunk) /\ j > Len(ls) - 1
        BY <1>1, <1>3, <2>2
      <4>2. QED
        BY <1>3, <4>1
    <3>2. l2[j] = chunk[i] /\ d2[base + j] = chunk[i]
      <4> HIDE DEF i
      <4>1. QED
        BY <1>1, <1>2, <3>1
    <3>3. QED
      BY <3>2
  <2>3. QED
    BY <2>1, <2>2
<1>5. base + Len(l2) = Len(d2)
  BY <1>1, <1>2, <1>3
<1>6. IsRestOf(l2, d2, base)
  BY <1>4, <1>5 DEF IsRestOf
<1>7. QED
  BY <1>6 DEF l2, d2

(***************************************************************************)
(* Extending the document keeps a cursor sound that has a line left.       *)
(***************************************************************************)
LEMMA ExtendSound ==
  ASSUME NEW ls \in Seq(Text), ls # <<>>, NEW d \in Seq(Text), d # <<>>,
         NEW c, NEW n \in Nat, NEW chunk \in Chunk,
         Sound(ls, d, c, n), n < Len(ls)
  PROVE  /\ Sound(Extend(ls, chunk), Extend(d, chunk), c, n)
         /\ n < Len(Extend(ls, chunk))
<1>1. /\ c.base \in Nat /\ c.start \in Nat /\ c.committed \in Seq(Block)
      /\ c.start <= n /\ c.base + Len(ls) = Len(d)
  BY DEF Sound, Cursor, IsRestOf
<1>2. IsRestOf(Extend(ls, chunk), Extend(d, chunk), c.base)
  BY <1>1, ExtendRest DEF Sound
<1>3. \A j \in 1..c.base + c.start : Extend(d, chunk)[j] = d[j]
  <2>1. \A j \in 1..Len(d) - 1 : Extend(d, chunk)[j] = d[j]
    BY ExtendFacts
  <2>2. c.base + c.start <= Len(d) - 1
    BY <1>1
  <2>3. QED
    BY <1>1, <2>1, <2>2
<1>4. /\ Covers(c.committed, Extend(d, chunk), c.base + c.start)
      /\ Quotes(c.committed, Extend(d, chunk))
  BY <1>1, <1>3, SamePrefix DEF Sound
<1>5. Len(ls) <= Len(Extend(ls, chunk)) /\ Len(Extend(ls, chunk)) \in Nat
      /\ Len(ls) \in Nat
  <2>1. Len(Extend(ls, chunk)) = Len(ls) - 1 + Len(chunk)
        /\ Len(chunk) >= 1 /\ chunk \in Seq(Text)
    BY ExtendFacts
  <2>2. QED
    BY <2>1
<1>6. n < Len(Extend(ls, chunk))
  BY <1>5
<1>7. QED
  BY <1>2, <1>4, <1>6 DEF Sound

-----------------------------------------------------------------------------
(***************************************************************************)
(* The lines that compaction keeps are still the rest of the document.     *)
(***************************************************************************)
LEMMA KeptRest ==
  ASSUME NEW ls \in Seq(Text), NEW d \in Seq(Text), NEW c,
         c.base \in Nat, c.start \in Nat, c.start < Len(ls),
         IsRestOf(ls, d, c.base)
  PROVE  /\ KeptLines(ls, c) \in Seq(Text)
         /\ Len(KeptLines(ls, c)) = Len(ls) - c.start
         /\ IsRestOf(KeptLines(ls, c), d, c.base + c.start)
<1>1. PICK m \in Nat : m = Len(ls)
  OBVIOUS
<1>2. PICK s \in Nat : s = c.start
  OBVIOUS
<1> DEFINE kept == SubSeq(ls, s + 1, m)
<1>3. /\ kept \in Seq(Text)
      /\ Len(kept) = IF s + 1 <= m THEN m - (s + 1) + 1 ELSE 0
      /\ \A j \in 1..m - (s + 1) + 1 : kept[j] = ls[s + 1 + j - 1]
  <2>1. \A i \in s + 1 .. m : ls[i] \in Text
    BY <1>1, <1>2
  <2>2. PICK p \in Int : p = s + 1
    OBVIOUS
  <2>3. \A i \in p .. m : ls[i] \in Text
    BY <2>1, <2>2
  <2>4. /\ SubSeq(ls, p, m) \in Seq(Text)
        /\ Len(SubSeq(ls, p, m)) = IF p <= m THEN m - p + 1 ELSE 0
        /\ \A j \in 1..m - p + 1 : SubSeq(ls, p, m)[j] = ls[p + j - 1]
    BY <2>3, SubSeqProperties
  <2>5. QED
    BY <2>2, <2>4
<1>4. KeptLines(ls, c) = kept
  BY <1>1, <1>2 DEF KeptLines
<1> HIDE DEF kept
<1>5. Len(kept) = m - s
  BY <1>1, <1>2, <1>3
<1>6. \A j \in 1..m - s : kept[j] = ls[s + j]
  <2>1. SUFFICES ASSUME NEW j \in 1..m - s
                 PROVE  kept[j] = ls[s + j]
    OBVIOUS
  <2>2. m - (s + 1) + 1 = m - s /\ s + 1 + j - 1 = s + j
    OBVIOUS
  <2>3. QED
    BY <1>3, <2>2
<1>7. \A j \in 1..m - s : ls[s + j] = d[c.base + s + j]
  <2>1. SUFFICES ASSUME NEW j \in 1..m - s
                 PROVE  ls[s + j] = d[c.base + s + j]
    OBVIOUS
  <2>2. s + j \in 1..Len(ls)
    BY <1>1, <1>2
  <2>3. ls[s + j] = d[c.base + (s + j)]
    BY <2>2 DEF IsRestOf
  <2>4. c.base + (s + j) = c.base + s + j
    OBVIOUS
  <2>5. QED
    BY <2>3, <2>4
<1>8. IsRestOf(kept, d, c.base + s)
  <2>1. c.base + s + (m - s) = Len(d)
    <3>1. c.base + m = Len(d)
      BY <1>1 DEF IsRestOf
    <3>2. QED
      BY <3>1
  <2>2. QED
    BY <1>5, <1>6, <1>7, <2>1 DEF IsRestOf
<1>9. QED
  BY <1>1, <1>2, <1>3, <1>4, <1>5, <1>8

(***************************************************************************)
(* A cursor moved to the base of what is kept.                             *)
(***************************************************************************)
LEMMA RebasedShape ==
  ASSUME NEW c \in Cursor
  PROVE  LET e == [c EXCEPT !.base = c.base + c.start, !.start = 0]
         IN  /\ e \in Cursor
             /\ e.base = c.base + c.start /\ e.start = 0
             /\ e.id = c.id /\ e.nextId = c.nextId
             /\ e.committed = c.committed
<1>1. c.base + c.start \in Nat
  BY DEF Cursor
<1>2. QED
  BY <1>1 DEF Cursor

(***************************************************************************)
(* The cursor of compaction: dropped lines move from start to base, and    *)
(* what was sound over all lines is sound over those that are kept.        *)
(***************************************************************************)
LEMMA RebasedSound ==
  ASSUME NEW ls, NEW d, NEW c, NEW n \in Nat, NEW kept, NEW e, NEW m \in Nat,
         Sound(ls, d, c, n), e \in Cursor,
         e.base = c.base + c.start, e.start = 0, e.id = c.id,
         e.nextId = c.nextId, e.committed = c.committed,
         IsRestOf(kept, d, e.base)
  PROVE  Sound(kept, d, e, m)
<1>1. e.base + e.start = c.base + c.start
  BY DEF Sound, Cursor
<1>2. QED
  BY <1>1 DEF Sound

(***************************************************************************)
(* maybe_compact_buffer: dropping the lines before the current block and   *)
(* rebasing the line numbers keeps the cursor sound, with a line left.     *)
(***************************************************************************)
LEMMA CompactSound ==
  ASSUME NEW ls \in Seq(Text), ls # <<>>, NEW d \in Seq(Text), NEW c,
         NEW n \in Nat, Sound(ls, d, c, n), n < Len(ls), Compact(ls, c, n)
  PROVE  /\ lines' \in Seq(Text) /\ lines' # <<>>
         /\ processed' \in Nat /\ processed' < Len(lines')
         /\ Sound(lines', d, cur', processed')
         /\ MaxBufferBytes = {} => cur'.base = c.base
<1>1. CASE ~Compacts(ls, c)
  <2>1. lines' = ls /\ cur' = c /\ processed' = n
    BY <1>1 DEF Compact
  <2>2. QED
    BY <2>1
<1>2. CASE Compacts(ls, c)
  <2>1. /\ lines' = KeptLines(ls, c)
        /\ cur' = [c EXCEPT !.base = c.base + c.start, !.start = 0]
        /\ processed' = KeptProcessed(ls, c, n)
    BY <1>2 DEF Compact
  <2>2. c \in Cursor /\ c.base \in Nat /\ c.start \in Nat /\ c.start <= n
    BY DEF Sound, Cursor
  <2>3. /\ KeptLines(ls, c) \in Seq(Text)
        /\ Len(KeptLines(ls, c)) = Len(ls) - c.start
        /\ IsRestOf(KeptLines(ls, c), d, c.base + c.start)
    BY <2>2, KeptRest DEF Sound
  <2>4. processed' = n - c.start /\ processed' \in Nat
        /\ n - c.start < Len(ls) - c.start
    BY <2>1, <2>2, <2>3 DEF KeptProcessed, Least
  <2>5. processed' < Len(lines') /\ lines' # <<>>
    BY <2>1, <2>3, <2>4
  <2>6. Sound(lines', d, cur', processed')
    <3> DEFINE e == [c EXCEPT !.base = c.base + c.start, !.start = 0]
    <3>1. /\ e \in Cursor
          /\ e.base = c.base + c.start /\ e.start = 0
          /\ e.id = c.id /\ e.nextId = c.nextId
          /\ e.committed = c.committed
      BY <2>2, RebasedShape
    <3> HIDE DEF e
    <3>2. IsRestOf(KeptLines(ls, c), d, e.base)
      BY <2>3, <3>1
    <3>3. Sound(KeptLines(ls, c), d, e, n - c.start)
      BY <2>4, <3>1, <3>2, RebasedSound
    <3>4. cur' = e
      BY <2>1 DEF e
    <3>5. QED
      BY <2>1, <2>4, <3>3, <3>4
  <2>7. MaxBufferBytes # {}
    BY <1>2 DEF Compacts
  <2>8. QED
    BY <2>1, <2>3, <2>4, <2>5, <2>6, <2>7
<1>3. QED
  BY <1>1, <1>2

-----------------------------------------------------------------------------
(***************************************************************************)
(* finalize: the newline for a carriage return that was kept back.         *)
(***************************************************************************)
LEMMA FinalLinesFacts ==
  ASSUME NEW ls \in Seq(Text), ls # <<>>
  PROVE  /\ FinalLines(ls) \in Seq(Text) /\ FinalLines(ls) # <<>>
         /\ Len(FinalLines(ls)) = IF pendingCr THEN Len(ls) + 1 ELSE Len(ls)
         /\ \A j \in 1..Len(ls) : FinalLines(ls)[j] = ls[j]
         /\ pendingCr => FinalLines(ls)[Len(ls) + 1] = EmptyText
BY AppendProperties, TextAssumption DEF FinalLines

(***************************************************************************)
(* The newline that finalize adds for a carriage return goes to the buffer *)
(* and to the document alike.                                              *)
(***************************************************************************)
LEMMA FinalRest ==
  ASSUME NEW ls \in Seq(Text), ls # <<>>, NEW d \in Seq(Text), d # <<>>,
         NEW base \in Nat, IsRestOf(ls, d, base)
  PROVE  IsRestOf(FinalLines(ls), FinalLines(d), base)
<1>1. CASE ~pendingCr
  BY <1>1 DEF FinalLines
<1>2. CASE pendingCr
  <2>1. /\ Len(FinalLines(ls)) = Len(ls) + 1
        /\ Len(FinalLines(d)) = Len(d) + 1
        /\ FinalLines(ls)[Len(ls) + 1] = EmptyText
        /\ FinalLines(d)[Len(d) + 1] = EmptyText
        /\ \A j \in 1..Len(ls) : FinalLines(ls)[j] = ls[j]
        /\ \A j \in 1..Len(d) : FinalLines(d)[j] = d[j]
    BY <1>2, FinalLinesFacts
  <2>2. Len(ls) \in Nat /\ Len(d) \in Nat /\ base + Len(ls) = Len(d)
    BY DEF IsRestOf
  <2>3. ASSUME NEW j \in 1..Len(ls) + 1
        PROVE  FinalLines(ls)[j] = FinalLines(d)[base + j]
    <3>1. CASE j = Len(ls) + 1
      <4>1. base + j = Len(d) + 1
        BY <2>2, <3>1
      <4>2. QED
        BY <2>1, <3>1, <4>1
    <3>2. CASE j \in 1..Len(ls)
      <4>1. base + j \in 1..Len(d) /\ ls[j] = d[base + j]
        BY <2>2, <3>2 DEF IsRestOf
      <4>2. QED
        BY <2>1, <3>2, <4>1
    <3>3. QED
      BY <2>2, <3>1, <3>2
  <2>4. base + (Len(ls) + 1) = Len(d) + 1
    BY <2>2
  <2>5. QED
    BY <2>1, <2>3, <2>4 DEF IsRestOf
<1>3. QED
  BY <1>1, <1>2

(***************************************************************************)
(* A cursor that is sound before that newline is sound after it.           *)
(***************************************************************************)
LEMMA FinalSound ==
  ASSUME NEW ls \in Seq(Text), ls # <<>>, NEW d \in Seq(Text), d # <<>>,
         NEW c, NEW n \in Nat, Sound(ls, d, c, n), n < Len(ls)
  PROVE  /\ Sound(FinalLines(ls), FinalLines(d), c, n)
         /\ n < Len(FinalLines(ls))
<1>1. /\ c.base \in Nat /\ c.start \in Nat /\ c.committed \in Seq(Block)
      /\ c.start <= n /\ c.base + Len(ls) = Len(d)
  BY DEF Sound, Cursor, IsRestOf
<1>2. IsRestOf(FinalLines(ls), FinalLines(d), c.base)
  BY <1>1, FinalRest DEF Sound
<1>3. \A j \in 1..c.base + c.start : FinalLines(d)[j] = d[j]
  <2>1. c.base + c.start <= Len(d)
    BY <1>1
  <2>2. QED
    BY <1>1, <2>1, FinalLinesFacts
<1>4. /\ Covers(c.committed, FinalLines(d), c.base + c.start)
      /\ Quotes(c.committed, FinalLines(d))
  BY <1>1, <1>3, SamePrefix DEF Sound
<1>5. n < Len(FinalLines(ls))
  BY FinalLinesFacts
<1>6. QED
  BY <1>2, <1>4, <1>5 DEF Sound

(***************************************************************************)
(* The start mode that finalize computes for an Unknown block.             *)
(***************************************************************************)
LEMMA SettleModeSound ==
  ASSUME NEW ls \in Seq(Text), NEW d \in Seq(Text), NEW c, NEW n \in Nat,
         Sound(ls, d, c, n), n < Len(ls)
  PROVE  Sound(ls, d, SettleMode(ls, c), n)
<1>1. c \in Cursor /\ c.start + 1 \in 1..Len(ls)
  BY DEF Sound, Cursor
<1>2. SameBlocks(c, StartAt(c, ls[c.start + 1]))
  BY <1>1, StartAtKeeps
<1>3. Sound(ls, d, StartAt(c, ls[c.start + 1]), n)
  BY <1>2, ModeChange
<1>4. QED
  BY <1>3 DEF SettleMode

(***************************************************************************)
(* The pending block of an open document that is not a single block.       *)
(***************************************************************************)
LEMMA PendingShape ==
  ASSUME NEW ls \in Seq(Text), NEW c \in Cursor, c.start < Len(ls),
         ~SingleMode, PendingOf(ls, c) # <<>>
  PROVE  \E b \in Block :
           /\ PendingOf(ls, c) = <<b>>
           /\ b.id = c.id /\ b.from = c.base + c.start
           /\ b.raw \in Seq(Text) /\ Len(b.raw) = Len(ls) - c.start
           /\ \A j \in 1..Len(b.raw) : b.raw[j] = ls[c.start + j]
<1> DEFINE c2 == [c EXCEPT !.mode = PendingMode(ls, c)]
           raw == LinesOf(ls, c.start, Len(ls) - 1)
<1>1. c.start \in Nat /\ Len(ls) - 1 \in Nat /\ c.start <= Len(ls) - 1
      /\ ls[c.start + 1] \in Text /\ c.mode \in Mode
  BY DEF Cursor
<1>2. PendingMode(ls, c) \in Mode
  BY <1>1, StartModeType DEF PendingMode
<1>3. /\ c2 \in Cursor /\ c2.base = c.base /\ c2.start = c.start
      /\ c2.id = c.id
  BY <1>2, SetModeKeeps DEF SameBlocks
<1>4. PendingOf(ls, c) = <<BlockAt(c2, raw)>>
  BY DEF PendingOf
<1> HIDE DEF c2
<1>5. /\ BlockAt(c2, raw) \in Block
      /\ raw \in Seq(Text) /\ Len(raw) = Len(ls) - 1 + 1 - c.start
      /\ \A j \in 1..Len(raw) : raw[j] = ls[c.start + j]
  BY <1>1, <1>3, CommitShape
<1> HIDE DEF raw
<1>6. /\ BlockAt(c2, raw).id = c.id
      /\ BlockAt(c2, raw).from = c.base + c.start
      /\ BlockAt(c2, raw).raw = raw
  BY <1>3 DEF BlockAt
<1>7. Len(raw) = Len(ls) - c.start
  BY <1>1, <1>5
<1>8. QED
  BY <1>4, <1>5, <1>6, <1>7

(***************************************************************************)
(* What finalize commits ends the document: the committed blocks then      *)
(* cover all of it.                                                        *)
(***************************************************************************)
LEMMA RestSound ==
  ASSUME NEW ls \in Seq(Text), NEW d \in Seq(Text), NEW c, NEW n \in Nat,
         Sound(ls, d, c, n), n < Len(ls), ~SingleMode,
         PendingOf(ls, c) # <<>>, ~RestIsBlank(ls, c)
  PROVE  /\ CommitRest(ls, c) \in Cursor
         /\ CommitRest(ls, c).base = c.base
         /\ CommitRest(ls, c).id = c.id
         /\ CommitRest(ls, c).nextId = c.nextId
         /\ Covers(CommitRest(ls, c).committed, d, Len(d))
         /\ Quotes(CommitRest(ls, c).committed, d)
         /\ Increasing(CommitRest(ls, c).committed)
<1>1. /\ c \in Cursor /\ c.base \in Nat /\ c.start \in Nat /\ c.id \in Nat
      /\ c.nextId \in Nat /\ c.committed \in Seq(Block) /\ c.start <= n
      /\ c.base + Len(ls) = Len(d) /\ Len(ls) \in Nat
  BY DEF Sound, Cursor, IsRestOf
<1>2. PICK b \in Block :
        /\ PendingOf(ls, c) = <<b>>
        /\ b.id = c.id /\ b.from = c.base + c.start
        /\ b.raw \in Seq(Text) /\ Len(b.raw) = Len(ls) - c.start
        /\ \A j \in 1..Len(b.raw) : b.raw[j] = ls[c.start + j]
  BY <1>1, PendingShape
<1>3. ~AllBlank(b.raw)
  BY <1>2 DEF RestIsBlank
<1>4. \A j \in 1..Len(b.raw) : b.raw[j] = d[b.from + j]
  <2>1. SUFFICES ASSUME NEW j \in 1..Len(b.raw)
                 PROVE  b.raw[j] = d[b.from + j]
    OBVIOUS
  <2>2. c.start + j \in 1..Len(ls)
    BY <1>1, <1>2
  <2>3. ls[c.start + j] = d[c.base + (c.start + j)]
    BY <2>2 DEF Sound, IsRestOf
  <2>4. c.base + (c.start + j) = b.from + j
    BY <1>1, <1>2
  <2>5. QED
    BY <1>2, <2>3, <2>4
<1> DEFINE bs == Append(c.committed, b)
           e == [c EXCEPT !.committed = bs, !.start = Len(ls)]
           f == [e EXCEPT !.id = c.nextId, !.nextId = c.nextId + 1]
<1>5. CommitRest(ls, c) = e
  <2>1. c.committed \o <<b>> = bs
    BY <1>1, AppendIsConcat
  <2>2. QED
    BY <1>2, <2>1 DEF CommitRest
<1>6. bs \in Seq(Block)
  BY <1>1
<1> HIDE DEF bs
<1>7. /\ e \in Cursor /\ e.base = c.base /\ e.start = Len(ls)
      /\ e.id = c.id /\ e.nextId = c.nextId /\ e.committed = bs
  BY <1>1, <1>6 DEF Cursor
<1> HIDE DEF e
<1>8. /\ f \in Cursor /\ f.base = e.base /\ f.start = e.start
      /\ f.id = c.nextId /\ f.nextId = c.nextId + 1
      /\ f.committed = e.committed
  <2>1. c.nextId \in Nat /\ c.nextId + 1 \in Nat
    BY <1>1
  <2>2. QED
    BY <1>7, <2>1 DEF Cursor
<1> HIDE DEF f
<1>9. Sound(ls, d, c, Len(ls))
  BY <1>1, MoreScanned
<1>10. f.start = c.start + Len(b.raw) /\ f.start <= Len(ls)
  BY <1>1, <1>2, <1>7, <1>8
<1>11. f.committed = Append(c.committed, b)
  BY <1>7, <1>8 DEF bs
<1>12. Sound(ls, d, f, Len(ls))
  <2>1. f.base = c.base
    BY <1>7, <1>8
  <2>2. QED
    BY <1>1, <1>2, <1>3, <1>4, <1>8, <1>9, <1>10, <1>11, <2>1, CommittedSound
<1>13. f.base + f.start = Len(d)
  BY <1>1, <1>7, <1>8
<1>14. QED
  BY <1>5, <1>7, <1>8, <1>12, <1>13 DEF Sound

(***************************************************************************)
(* Compaction of a closed document keeps the types and what is committed.  *)
(***************************************************************************)
LEMMA KeptType ==
  ASSUME NEW ls \in Seq(Text), NEW c, c.start \in Nat
  PROVE  KeptLines(ls, c) \in Seq(Text) /\ KeptLines(ls, c) # <<>>
<1>1. CASE c.start < Len(ls)
  <2>1. PICK p \in Int : p = c.start + 1
    OBVIOUS
  <2>2. PICK m \in Int : m = Len(ls)
    OBVIOUS
  <2>3. \A i \in p .. m : ls[i] \in Text
    BY <2>1, <2>2
  <2>4. /\ SubSeq(ls, p, m) \in Seq(Text)
        /\ Len(SubSeq(ls, p, m)) = IF p <= m THEN m - p + 1 ELSE 0
    BY <2>3, SubSeqProperties
  <2>5. KeptLines(ls, c) = SubSeq(ls, p, m)
    BY <1>1, <2>1, <2>2 DEF KeptLines
  <2>6. Len(KeptLines(ls, c)) > 0
    BY <1>1, <2>1, <2>2, <2>4, <2>5
  <2>7. KeptLines(ls, c) \in Seq(Text)
    BY <2>4, <2>5
  <2>8. QED
    BY <2>6, <2>7
<1>2. CASE ~(c.start < Len(ls))
  <2>1. KeptLines(ls, c) = <<EmptyText>>
    BY <1>2 DEF KeptLines
  <2>2. EmptyText \in Text
    BY TextAssumption
  <2>3. QED
    BY <2>1, <2>2
<1>3. QED
  BY <1>1, <1>2

(***************************************************************************)
(* maybe_compact_buffer leaves lines and processed well typed, and at      *)
(* least one line.                                                         *)
(***************************************************************************)
LEMMA CompactType ==
  ASSUME NEW ls \in Seq(Text), ls # <<>>, NEW c \in Cursor, NEW n \in Nat,
         Compact(ls, c, n)
  PROVE  /\ lines' \in Seq(Text) /\ lines' # <<>>
         /\ processed' \in Nat
         /\ cur' \in Cursor
         /\ cur'.id = c.id /\ cur'.nextId = c.nextId
         /\ cur'.committed = c.committed
         /\ MaxBufferBytes = {} => cur'.base = c.base
<1>1. CASE ~Compacts(ls, c)
  BY <1>1 DEF Compact
<1>2. CASE Compacts(ls, c)
  <2>1. /\ lines' = KeptLines(ls, c)
        /\ cur' = [c EXCEPT !.base = c.base + c.start, !.start = 0]
        /\ processed' = KeptProcessed(ls, c, n)
    BY <1>2 DEF Compact
  <2>2. c.start \in Nat
    BY DEF Cursor
  <2>3. KeptLines(ls, c) \in Seq(Text) /\ KeptLines(ls, c) # <<>>
    BY <2>2, KeptType
  <2>4. KeptProcessed(ls, c, n) \in Nat
    BY <2>2, <2>3 DEF KeptProcessed, Least
  <2>5. MaxBufferBytes # {}
    BY <1>2 DEF Compacts
  <2> DEFINE e == [c EXCEPT !.base = c.base + c.start, !.start = 0]
  <2>6. /\ e \in Cursor /\ e.id = c.id /\ e.nextId = c.nextId
        /\ e.committed = c.committed
    BY RebasedShape
  <2>7. cur' = e
    BY <2>1
  <2> HIDE DEF e
  <2>8. QED
    BY <2>1, <2>3, <2>4, <2>5, <2>6, <2>7
<1>3. QED
  BY <1>1, <1>2

-----------------------------------------------------------------------------
(***************************************************************************)
(* The inductive invariant.  Init, an append of nothing and a finalize     *)
(* with nothing new first.                                                 *)
(***************************************************************************)
LEMMA FreshShape ==
  ASSUME NEW base \in Nat
  PROVE  /\ FreshCursor(base) \in Cursor
         /\ FreshCursor(base).base = base /\ FreshCursor(base).start = 0
         /\ FreshCursor(base).id = 1 /\ FreshCursor(base).nextId = 2
         /\ FreshCursor(base).committed = <<>>
<1>1. "Unknown" \in Mode /\ NoPayload \in Inner /\ <<>> \in Seq(Block)
  BY PayloadType DEF Mode
<1>2. QED
  BY <1>1 DEF FreshCursor, Cursor

(***************************************************************************)
(* The cursor of a new stream is sound over the empty document.            *)
(***************************************************************************)
LEMMA EmptyDocument ==
  /\ <<EmptyText>> \in Seq(Text) /\ <<EmptyText>> # <<>>
  /\ Len(<<EmptyText>>) = 1
  /\ Sound(<<EmptyText>>, <<EmptyText>>, FreshCursor(0), 0)
<1>1. EmptyText \in Text
  BY TextAssumption
<1>2. <<EmptyText>> \in Seq(Text) /\ Len(<<EmptyText>>) = 1
  BY <1>1
<1>3. IsRestOf(<<EmptyText>>, <<EmptyText>>, 0)
  BY <1>2 DEF IsRestOf
<1>4. /\ Covers(<<>>, <<EmptyText>>, 0) /\ Within(<<>>, 0)
      /\ Quotes(<<>>, <<EmptyText>>) /\ Increasing(<<>>) /\ AllBelow(<<>>, 1)
  <2>1. Covers(<<>>, <<EmptyText>>, 0)
    BY DEF Covers, EndOf, StartOf, BlankBetween
  <2>2. QED
    BY <2>1 DEF Within, Quotes, Increasing, AllBelow
<1>5. /\ FreshCursor(0) \in Cursor
      /\ FreshCursor(0).base = 0 /\ FreshCursor(0).start = 0
      /\ FreshCursor(0).id = 1 /\ FreshCursor(0).nextId = 2
      /\ FreshCursor(0).committed = <<>>
  BY FreshShape
<1>6. Sound(<<EmptyText>>, <<EmptyText>>, FreshCursor(0), 0)
  BY <1>3, <1>4, <1>5 DEF Sound
<1>7. QED
  BY <1>2, <1>6

(***************************************************************************)
(* MdStream::new establishes the invariant.                                *)
(***************************************************************************)
LEMMA InitKeeps ==
  ASSUME Init
  PROVE  IInv
<1>1. /\ lines = <<EmptyText>> /\ doc = <<EmptyText>> /\ processed = 0
      /\ cur = FreshCursor(0) /\ pc = "idle" /\ ~pendingCr /\ ~detected
      /\ ~closed
      /\ report = [mark |-> 0, reset |-> FALSE, final |-> FALSE]
      /\ pendingCr = FALSE /\ detected = FALSE
      /\ dirty = FALSE
      /\ closed = FALSE
  BY DEF Init
<1>2. /\ cur \in Cursor /\ cur.base = 0 /\ cur.id = 1 /\ cur.nextId = 2
      /\ cur.committed = <<>>
  BY <1>1, FreshShape
<1>3. TypeOK
  BY <1>1, <1>2, EmptyDocument DEF TypeOK
<1>4. BufferIsRest
  BY <1>1, <1>2, EmptyDocument DEF BufferIsRest, Sound
<1>5. OpenInv
  BY <1>1, EmptyDocument DEF OpenInv
<1>6. SingleInv /\ ClosedInv
  BY <1>1, <1>2 DEF SingleInv, ClosedInv
<1>7. QED
  BY <1>1, <1>2, <1>3, <1>4, <1>5, <1>6 DEF IInv

(***************************************************************************)
(* A step that changes none of the state the invariant is about.           *)
(***************************************************************************)
LEMMA SameState ==
  ASSUME IInv,
         UNCHANGED <<lines, processed, cur, pc, pendingCr, detected, dirty,
                     doc, closed>>,
         report' \in [mark : Nat, reset : BOOLEAN, final : BOOLEAN]
  PROVE  IInv'
<1>1. TypeOK'
  BY DEF IInv, TypeOK
<1>2. (BufferIsRest /\ OpenInv /\ SingleInv /\ ClosedInv)'
  BY DEF IInv, BufferIsRest, OpenInv, SingleInv, ClosedInv, SingleMode
<1>3. QED
  BY <1>1, <1>2 DEF IInv

(***************************************************************************)
(* The number of committed blocks, which an Update starts at, is a natural *)
(* number.                                                                 *)
(***************************************************************************)
LEMMA MarkType ==
  ASSUME TypeOK
  PROVE  Len(cur.committed) \in Nat
<1>1. cur.committed \in Seq(Block)
  BY DEF TypeOK, Cursor
<1>2. QED
  BY <1>1

(***************************************************************************)
(* An append of the empty string keeps the invariant.                      *)
(***************************************************************************)
LEMMA AppendNothingKeeps ==
  ASSUME IInv, AppendNothing
  PROVE  IInv'
<1>1. report' \in [mark : Nat, reset : BOOLEAN, final : BOOLEAN]
  BY MarkType DEF IInv, AppendNothing
<1>2. QED
  BY <1>1, SameState DEF AppendNothing

(***************************************************************************)
(* A finalize with nothing new keeps the invariant.                        *)
(***************************************************************************)
LEMMA FinalizeNothingNewKeeps ==
  ASSUME IInv, FinalizeNothingNew
  PROVE  IInv'
<1>1. report' \in [mark : Nat, reset : BOOLEAN, final : BOOLEAN]
  BY MarkType DEF IInv, FinalizeNothingNew, FinalReport
<1>2. QED
  BY <1>1, SameState DEF FinalizeNothingNew

(***************************************************************************)
(* reset establishes the invariant again.                                  *)
(***************************************************************************)
LEMMA ResetKeeps ==
  ASSUME Reset
  PROVE  IInv'
<1>1. /\ lines' = <<EmptyText>> /\ doc' = <<EmptyText>> /\ processed' = 0
      /\ cur' = FreshCursor(0) /\ pc' = "idle"
      /\ report' = [mark |-> 0, reset |-> FALSE, final |-> FALSE]
      /\ pendingCr' = FALSE /\ detected' = FALSE
      /\ dirty' = FALSE
      /\ closed' = FALSE
  BY DEF Reset
<1>2. /\ cur' \in Cursor /\ cur'.base = 0 /\ cur'.id = 1 /\ cur'.nextId = 2
      /\ cur'.committed = <<>>
  BY <1>1, FreshShape
<1>3. TypeOK'
  BY <1>1, <1>2, EmptyDocument DEF TypeOK
<1>4. BufferIsRest'
  BY <1>1, <1>2, EmptyDocument DEF BufferIsRest, Sound
<1>5. OpenInv'
  BY <1>1, EmptyDocument DEF OpenInv
<1>6. SingleInv' /\ ClosedInv'
  BY <1>1, <1>2 DEF SingleInv, ClosedInv
<1>7. QED
  BY <1>1, <1>2, <1>3, <1>4, <1>5, <1>6 DEF IInv

-----------------------------------------------------------------------------
(***************************************************************************)
(* append_core before its loop: the document stays open, and the switch to *)
(* a single block starts again with nothing committed.                     *)
(***************************************************************************)
LEMMA AppendChunkKeeps ==
  ASSUME ResetAfterFinalize, IInv, NEW chunk \in Chunk,
         NEW endsInCr \in BOOLEAN, AppendChunk(chunk, endsInCr)
  PROVE  IInv'
<1>1. /\ lines \in Seq(Text) /\ lines # <<>> /\ doc \in Seq(Text)
      /\ doc # <<>> /\ processed \in Nat /\ cur \in Cursor
      /\ cur.base \in Nat /\ cur.id < cur.nextId /\ ~closed
      /\ IsRestOf(lines, doc, cur.base) /\ dirty \in BOOLEAN
      /\ detected \in BOOLEAN /\ closed \in BOOLEAN
  BY DEF IInv, TypeOK, BufferIsRest, AppendChunk, MayAppend, Cursor
<1>2. /\ lines' = Extend(lines, chunk) /\ doc' = Extend(doc, chunk)
      /\ pendingCr' = endsInCr /\ closed' = closed
      /\ detected' = (detected \/ Detects(chunk))
      /\ dirty' = (dirty \/ chunk # <<LastLine>>)
  BY DEF AppendChunk
<1>3. /\ lines' \in Seq(Text) /\ lines' # <<>>
      /\ doc' \in Seq(Text) /\ doc' # <<>>
  BY <1>1, <1>2, ExtendFacts
<1>4. IsRestOf(lines', doc', cur.base)
  BY <1>1, <1>2, ExtendRest
<1>5. detected' \in BOOLEAN /\ dirty' \in BOOLEAN
  BY <1>1, <1>2
<1>6. CASE SingleBlock /\ Detects(chunk) /\ ~detected
  <2>1. /\ cur' = FreshCursor(cur.base) /\ processed' = Len(lines')
        /\ report' = [mark |-> 0, reset |-> TRUE, final |-> FALSE]
        /\ pc' = "idle"
    BY <1>6 DEF AppendChunk, EnterSingleBlock
  <2>2. /\ cur' \in Cursor /\ cur'.base = cur.base /\ cur'.id = 1
        /\ cur'.nextId = 2 /\ cur'.committed = <<>>
    BY <1>1, <2>1, FreshShape
  <2>3. cur.base = 0
    BY <1>6 DEF IInv, SingleInv
  <2>4. SingleMode'
    BY <1>2, <1>6 DEF SingleMode
  <2>5. TypeOK'
    BY <1>1, <1>2, <1>3, <1>5, <2>1, <2>2 DEF TypeOK
  <2>6. (BufferIsRest /\ OpenInv /\ SingleInv /\ ClosedInv)'
    BY <1>1, <1>2, <1>4, <2>2, <2>3, <2>4
    DEF BufferIsRest, OpenInv, SingleInv, ClosedInv
  <2>7. QED
    BY <2>1, <2>2, <2>5, <2>6 DEF IInv
<1>7. CASE ~(SingleBlock /\ Detects(chunk) /\ ~detected)
  <2>1. /\ cur' = cur /\ processed' = processed /\ pc' = "lines"
        /\ report' = [mark |-> Len(cur.committed), reset |-> FALSE,
                      final |-> FALSE]
    BY <1>7 DEF AppendChunk, EnterLoop
  <2>2. TypeOK'
    BY <1>1, <1>2, <1>3, <1>5, <2>1, MarkType DEF IInv, TypeOK
  <2>3. SingleMode' <=> SingleMode
    BY <1>2, <1>7 DEF SingleMode
  <2>4. OpenInv'
    <3>1. CASE SingleMode
      BY <2>3, <3>1 DEF OpenInv
    <3>2. CASE ~SingleMode
      <4>1. Sound(lines, doc, cur, processed) /\ processed < Len(lines)
        BY <1>1, <3>2 DEF IInv, OpenInv
      <4>2. /\ Sound(lines', doc', cur, processed)
            /\ processed < Len(lines')
        BY <1>1, <1>2, <4>1, ExtendSound
      <4>3. QED
        BY <2>1, <4>2 DEF OpenInv
    <3>3. QED
      BY <3>1, <3>2
  <2>5. (BufferIsRest /\ SingleInv /\ ClosedInv)'
    BY <1>1, <1>2, <1>4, <2>1, <2>3
    DEF IInv, BufferIsRest, SingleInv, ClosedInv
  <2>6. QED
    BY <1>1, <2>1, <2>2, <2>4, <2>5 DEF IInv
<1>8. QED
  BY <1>6, <1>7

(***************************************************************************)
(* One round of the loop.                                                  *)
(***************************************************************************)
LEMMA ProcessLineKeeps ==
  ASSUME IInv, ProcessLine
  PROVE  IInv'
<1>1. /\ lines \in Seq(Text) /\ lines # <<>> /\ doc \in Seq(Text)
      /\ processed \in Nat /\ cur \in Cursor /\ cur.id < cur.nextId
      /\ ~closed /\ processed < Len(lines) - 1 /\ Len(lines) \in Nat
      /\ IsRestOf(lines, doc, cur.base)
  BY DEF IInv, TypeOK, BufferIsRest, ClosedInv, ProcessLine, MoreLines
<1>2. /\ lines' = lines /\ doc' = doc /\ pc' = pc /\ pc = "lines"
      /\ processed' = processed + 1 /\ closed' = closed
      /\ detected' = detected /\ dirty' = dirty
      /\ pendingCr' = pendingCr
      /\ report' = report
      /\ cur' = IF SingleMode THEN cur ELSE Process(lines, cur, processed)
  BY DEF ProcessLine
<1>3. SingleMode' <=> SingleMode
  BY <1>2 DEF SingleMode
<1>4. processed' \in Nat /\ processed' < Len(lines')
  BY <1>1, <1>2
<1>5. CASE SingleMode
  <2>1. cur' = cur
    BY <1>2, <1>5
  <2>2. TypeOK'
    BY <1>2, <1>4, <2>1 DEF IInv, TypeOK
  <2>3. (BufferIsRest /\ OpenInv /\ SingleInv /\ ClosedInv)'
    BY <1>1, <1>2, <1>3, <1>5, <2>1
    DEF IInv, BufferIsRest, OpenInv, SingleInv, ClosedInv
  <2>4. QED
    BY <1>1, <1>2, <2>1, <2>2, <2>3 DEF IInv
<1>6. CASE ~SingleMode
  <2>1. Sound(lines, doc, cur, processed) /\ processed < Len(lines)
    BY <1>1, <1>6 DEF IInv, OpenInv
  <2>2. Sound(lines, doc, Process(lines, cur, processed), processed + 1)
    BY <1>1, <2>1, ProcessSound
  <2>3. Sound(lines', doc', cur', processed')
    BY <1>2, <1>6, <2>2
  <2>4. /\ cur' \in Cursor /\ cur'.id < cur'.nextId
        /\ IsRestOf(lines', doc', cur'.base) /\ cur'.base = cur.base
    <3>1. /\ cur' \in Cursor /\ cur'.id < cur'.nextId
          /\ IsRestOf(lines', doc', cur'.base)
      BY <2>3 DEF Sound
    <3>2. cur'.base + Len(lines) = Len(doc) /\ cur.base + Len(lines) = Len(doc)
      BY <1>1, <1>2, <3>1 DEF IsRestOf
    <3>3. cur'.base \in Nat /\ cur.base \in Nat
      BY <1>1, <3>1 DEF Cursor
    <3>4. QED
      BY <1>1, <3>1, <3>2, <3>3
  <2>5. TypeOK'
    BY <1>2, <1>4, <2>4 DEF IInv, TypeOK
  <2>6. (BufferIsRest /\ OpenInv /\ SingleInv /\ ClosedInv)'
    BY <1>1, <1>2, <1>3, <1>4, <1>6, <2>3, <2>4
    DEF IInv, BufferIsRest, OpenInv, SingleInv, ClosedInv
  <2>7. QED
    BY <1>2, <2>4, <2>5, <2>6 DEF IInv
<1>7. QED
  BY <1>5, <1>6

(***************************************************************************)
(* No index is out of range, so append never stops in the middle.          *)
(***************************************************************************)
LEMMA NoFault ==
  ASSUME IInv
  PROVE  ~IndexFault
<1>1. SUFFICES ASSUME IndexFault
               PROVE  FALSE
  OBVIOUS
<1>2. pc = "lines" /\ ~SingleMode /\ ~closed
  <2>1. pc = "lines" /\ ~SingleMode
    BY <1>1 DEF IndexFault
  <2>2. closed => pc = "idle"
    BY DEF IInv, ClosedInv
  <2>3. QED
    BY <2>1, <2>2
<1>3. Sound(lines, doc, cur, processed) /\ processed < Len(lines)
  BY <1>2 DEF IInv, OpenInv
<1>4. /\ cur.start \in Nat /\ cur.start <= processed
      /\ processed \in Nat /\ Len(lines) \in Nat
  <2>1. cur.start \in Nat /\ processed \in Nat /\ lines \in Seq(Text)
    BY DEF IInv, TypeOK, Cursor
  <2>2. QED
    BY <1>3, <2>1 DEF Sound
<1>5. cur.start < Len(lines)
  BY <1>3, <1>4
<1>6. \A i : ~ReadsPastEnd(lines, cur, i)
  BY <1>4, <1>5 DEF ReadsPastEnd
<1>7. ~FaultsOnTail(lines, cur)
  BY <1>6 DEF FaultsOnTail
<1>8. ~FaultsOnLine(lines, cur, processed)
  <2>1. processed # cur.start => processed > 0
    BY <1>4
  <2>2. QED
    BY <1>6, <2>1 DEF FaultsOnLine
<1>9. QED
  BY <1>1, <1>7, <1>8 DEF IndexFault

(***************************************************************************)
(* A sound cursor with a line left is what the invariant asks of an open   *)
(* document that is not a single block.                                    *)
(***************************************************************************)
LEMMA OpenFromSound ==
  ASSUME NEW ls \in Seq(Text), NEW d \in Seq(Text), NEW c, NEW n \in Nat,
         Sound(ls, d, c, n)
  PROVE  /\ c \in Cursor /\ c.id < c.nextId
         /\ IsRestOf(ls, d, c.base)
         /\ c.base = Len(d) - Len(ls)
<1>1. /\ c \in Cursor /\ c.id < c.nextId /\ IsRestOf(ls, d, c.base)
  BY DEF Sound
<1>2. c.base + Len(ls) = Len(d) /\ c.base \in Nat
  BY <1>1 DEF IsRestOf, Cursor
<1>3. Len(ls) \in Nat /\ Len(d) \in Nat
  OBVIOUS
<1>4. QED
  BY <1>1, <1>2, <1>3

(***************************************************************************)
(* The end of append_core: tail boundary and compaction.                   *)
(***************************************************************************)
LEMMA FinishAppendKeeps ==
  ASSUME SingleBlock => MaxBufferBytes = {}, IInv, FinishAppend
  PROVE  IInv'
<1>1. /\ lines \in Seq(Text) /\ lines # <<>> /\ doc \in Seq(Text)
      /\ doc # <<>> /\ processed \in Nat /\ cur \in Cursor
      /\ cur.id < cur.nextId /\ pc = "lines" /\ ~closed
      /\ ~(processed < Len(lines) - 1) /\ Len(lines) \in Nat
      /\ IsRestOf(lines, doc, cur.base) /\ dirty \in BOOLEAN
  BY DEF IInv, TypeOK, BufferIsRest, ClosedInv, FinishAppend, MoreLines
<1>2. /\ doc' = doc /\ pc' = "idle" /\ closed' = closed
      /\ detected' = detected /\ pendingCr' = pendingCr
      /\ report' = report /\ dirty' = (dirty /\ lines' # <<EmptyText>>)
      /\ Compact(lines, IF SingleMode THEN cur ELSE TailBoundary(lines, cur),
                 processed)
  BY DEF FinishAppend
<1>3. SingleMode' <=> SingleMode
  BY <1>2 DEF SingleMode
<1>4. CASE SingleMode
  <2>1. lines' = lines /\ cur' = cur /\ processed' = processed
    BY <1>2, <1>4 DEF Compact, Compacts
  <2>2. TypeOK'
    BY <1>1, <1>2, <2>1 DEF IInv, TypeOK
  <2>3. (BufferIsRest /\ OpenInv /\ SingleInv /\ ClosedInv)'
    BY <1>1, <1>2, <1>3, <1>4, <2>1
    DEF IInv, BufferIsRest, OpenInv, SingleInv, ClosedInv
  <2>4. QED
    BY <1>1, <1>2, <2>1, <2>2, <2>3 DEF IInv
<1>5. CASE ~SingleMode
  <2> DEFINE c == TailBoundary(lines, cur)
  <2>1. Sound(lines, doc, cur, processed) /\ processed < Len(lines)
    BY <1>1, <1>5 DEF IInv, OpenInv
  <2>2. processed = Len(lines) - 1
    BY <1>1, <2>1
  <2>3. Sound(lines, doc, c, processed)
    BY <1>1, <2>1, <2>2, TailBoundarySound
  <2>4. Compact(lines, c, processed)
    BY <1>2, <1>5
  <2> HIDE DEF c
  <2>5. /\ lines' \in Seq(Text) /\ lines' # <<>>
        /\ processed' \in Nat /\ processed' < Len(lines')
        /\ Sound(lines', doc, cur', processed')
        /\ MaxBufferBytes = {} => cur'.base = c.base
    BY <1>1, <2>1, <2>3, <2>4, CompactSound
  <2>6. /\ cur' \in Cursor /\ cur'.id < cur'.nextId
        /\ IsRestOf(lines', doc, cur'.base)
    BY <1>1, <2>5, OpenFromSound
  <2>7. SingleBlock => cur'.base = 0
    <3>1. c.base = cur.base
      BY <1>1, <2>1, <2>3, OpenFromSound
    <3>2. QED
      BY <2>5, <3>1 DEF IInv, SingleInv
  <2>8. TypeOK'
    BY <1>1, <1>2, <2>5, <2>6 DEF IInv, TypeOK
  <2>9. (BufferIsRest /\ OpenInv /\ SingleInv /\ ClosedInv)'
    BY <1>1, <1>2, <1>3, <1>5, <2>5, <2>6, <2>7
    DEF IInv, BufferIsRest, OpenInv, SingleInv, ClosedInv
  <2>10. QED
    BY <1>2, <2>6, <2>8, <2>9 DEF IInv
<1>6. QED
  BY <1>4, <1>5

-----------------------------------------------------------------------------
(***************************************************************************)
(* finalize: what is pending is skipped, stays, or ends the document.      *)
(***************************************************************************)
LEMMA FinalizeOpen ==
  ASSUME IInv, Finalize
  PROVE  /\ lines \in Seq(Text) /\ lines # <<>> /\ doc \in Seq(Text)
         /\ doc # <<>> /\ processed \in Nat /\ cur \in Cursor
         /\ cur.id < cur.nextId /\ pc = "idle" /\ ~closed
         /\ IsRestOf(lines, doc, cur.base) /\ cur.base \in Nat
         /\ FinalLines(lines) \in Seq(Text) /\ FinalLines(lines) # <<>>
         /\ FinalLines(doc) \in Seq(Text) /\ FinalLines(doc) # <<>>
         /\ IsRestOf(FinalLines(lines), FinalLines(doc), cur.base)
         /\ detected \in BOOLEAN /\ dirty \in BOOLEAN
         /\ report' \in [mark : Nat, reset : BOOLEAN, final : BOOLEAN]
<1>1. /\ lines \in Seq(Text) /\ lines # <<>> /\ doc \in Seq(Text)
      /\ doc # <<>> /\ processed \in Nat /\ cur \in Cursor
      /\ cur.id < cur.nextId /\ pc = "idle" /\ detected \in BOOLEAN
      /\ cur.base \in Nat /\ dirty \in BOOLEAN
  BY DEF IInv, TypeOK, Finalize, Cursor
<1>2. ~closed
  BY DEF IInv, ClosedInv, Finalize, NothingNew
<1>3. IsRestOf(lines, doc, cur.base)
  BY <1>2 DEF IInv, BufferIsRest
<1>4. /\ FinalLines(lines) \in Seq(Text) /\ FinalLines(lines) # <<>>
      /\ FinalLines(doc) \in Seq(Text) /\ FinalLines(doc) # <<>>
  BY <1>1, FinalLinesFacts
<1>5. IsRestOf(FinalLines(lines), FinalLines(doc), cur.base)
  BY <1>1, <1>3, FinalRest
<1>6. report' \in [mark : Nat, reset : BOOLEAN, final : BOOLEAN]
  BY MarkType DEF IInv, Finalize, FinalReport
<1>7. QED
  BY <1>1, <1>2, <1>3, <1>4, <1>5, <1>6

(***************************************************************************)
(* The invariant after a finalize that leaves the document open, and after *)
(* one that closes it.                                                     *)
(***************************************************************************)
LEMMA StaysOpen ==
  ASSUME IInv, Finalize, closed' = FALSE, dirty' \in BOOLEAN,
         SingleMode => /\ lines' = FinalLines(lines) /\ processed' \in Nat
                       /\ cur' = cur /\ cur.committed = <<>>,
         ~SingleMode => /\ lines' \in Seq(Text) /\ lines' # <<>>
                        /\ processed' \in Nat /\ processed' < Len(lines')
                        /\ Sound(lines', FinalLines(doc), cur', processed'),
         SingleBlock => cur'.base = 0
  PROVE  IInv'
<1>1. /\ doc' = FinalLines(doc) /\ pendingCr' = FALSE /\ pc' = pc
      /\ detected' = detected /\ pc = "idle"
  BY DEF Finalize
<1>2. SingleMode' <=> SingleMode
  BY <1>1 DEF SingleMode
<1>3. /\ lines' \in Seq(Text) /\ lines' # <<>> /\ processed' \in Nat
  BY FinalizeOpen
<1>4. /\ cur' \in Cursor /\ cur'.id < cur'.nextId
      /\ IsRestOf(lines', doc', cur'.base)
  <2>1. CASE SingleMode
    BY <1>1, <2>1, FinalizeOpen
  <2>2. CASE ~SingleMode
    BY <1>1, <2>2, FinalizeOpen, OpenFromSound
  <2>3. QED
    BY <2>1, <2>2
<1>5. TypeOK'
  BY <1>1, <1>3, <1>4, FinalizeOpen DEF TypeOK
<1>6. (BufferIsRest /\ OpenInv /\ SingleInv /\ ClosedInv)'
  BY <1>1, <1>2, <1>4 DEF BufferIsRest, OpenInv, SingleInv, ClosedInv
<1>7. QED
  BY <1>1, <1>4, <1>5, <1>6 DEF IInv

(***************************************************************************)
(* The invariant after a finalize that commits the rest of the document:   *)
(* its committed blocks cover the document to its end.                     *)
(***************************************************************************)
LEMMA Closes ==
  ASSUME IInv, Finalize, closed' = TRUE, dirty' = FALSE,
         lines' \in Seq(Text), lines' # <<>>, processed' \in Nat,
         cur' \in Cursor, cur'.id < cur'.nextId,
         Covers(cur'.committed, FinalLines(doc), Len(FinalLines(doc))),
         Quotes(cur'.committed, FinalLines(doc)),
         Increasing(cur'.committed),
         SingleBlock => cur'.base = 0
  PROVE  IInv'
<1>1. /\ doc' = FinalLines(doc) /\ pendingCr' = FALSE /\ pc' = pc
      /\ detected' = detected /\ pc = "idle"
  BY DEF Finalize
<1>2. TypeOK'
  BY <1>1, FinalizeOpen DEF TypeOK
<1>3. (BufferIsRest /\ OpenInv /\ SingleInv /\ ClosedInv)'
  BY <1>1 DEF BufferIsRest, OpenInv, SingleInv, ClosedInv
<1>4. QED
  BY <1>1, <1>2, <1>3 DEF IInv

(***************************************************************************)
(* The three outcomes of finalize, by the pending block rest: it is blank, *)
(* there is none, or it is committed.                                      *)
(***************************************************************************)
LEMMA FinalizeCases ==
  ASSUME IInv, Finalize, NEW ls, NEW c,
         ls = FinalLines(lines), c = SettleMode(ls, cur)
  PROVE  \/ /\ RestIsBlank(ls, c)
            /\ lines' = ls /\ cur' = c /\ dirty' = TRUE
            /\ processed' = processed /\ closed' = FALSE
         \/ /\ PendingOf(ls, c) = <<>>
            /\ Compact(ls, c, processed) /\ dirty' = FALSE
            /\ closed' = FALSE
         \/ /\ PendingOf(ls, c) # <<>> /\ ~RestIsBlank(ls, c)
            /\ Compact(ls, CommitRest(ls, c), processed) /\ dirty' = FALSE
            /\ closed' = TRUE
<1>1. ~closed /\ closed \in BOOLEAN
  BY FinalizeOpen DEF IInv, TypeOK
<1>2. IF RestIsBlank(ls, c)
      THEN /\ lines' = ls /\ cur' = c
           /\ dirty' = TRUE
           /\ UNCHANGED <<processed, closed>>
      ELSE /\ Compact(ls, CommitRest(ls, c), processed)
           /\ dirty' = FALSE
           /\ closed' = (closed \/ PendingOf(ls, c) # <<>>)
  BY DEF Finalize
<1>3. CASE RestIsBlank(ls, c)
  BY <1>1, <1>2, <1>3
<1>4. CASE ~RestIsBlank(ls, c) /\ PendingOf(ls, c) = <<>>
  <2>1. CommitRest(ls, c) = c
    BY <1>4 DEF CommitRest
  <2>2. QED
    BY <1>1, <1>2, <1>4, <2>1
<1>5. CASE ~RestIsBlank(ls, c) /\ PendingOf(ls, c) # <<>>
  BY <1>1, <1>2, <1>5
<1>6. QED
  BY <1>3, <1>4, <1>5

(***************************************************************************)
(* finalize of a single block: the whole document is one block.            *)
(***************************************************************************)
LEMMA FinalizeSingle ==
  ASSUME IInv, Finalize, SingleMode
  PROVE  IInv'
<1> DEFINE ls == FinalLines(lines)
           d == FinalLines(doc)
<1>1. SettleMode(ls, cur) = cur
  BY DEF SettleMode
<1>2. cur.committed = <<>> /\ cur.base = 0 /\ SingleBlock /\ ~closed
  BY FinalizeOpen DEF IInv, SingleInv, SingleMode
<1>3. /\ ls \in Seq(Text) /\ ls # <<>> /\ d \in Seq(Text)
      /\ IsRestOf(ls, d, 0) /\ cur \in Cursor /\ processed \in Nat
      /\ cur.id < cur.nextId
  BY <1>2, FinalizeOpen
<1>4. \A c : Compact(ls, c, processed) =>
               lines' = ls /\ cur' = c /\ processed' = processed
  BY DEF Compact, Compacts
<1> HIDE DEF ls, d
<1>5. CASE closed' = FALSE
  <2>1. /\ lines' = ls /\ cur' = cur /\ processed' = processed
        /\ dirty' \in BOOLEAN
    BY <1>1, <1>3, <1>4, <1>5, FinalizeCases, FinalizeOpen DEF ls
  <2>2. QED
    BY <1>2, <1>3, <1>5, <2>1, StaysOpen DEF ls
<1>6. CASE /\ PendingOf(ls, cur) # <<>> /\ ~RestIsBlank(ls, cur)
           /\ Compact(ls, CommitRest(ls, cur), processed)
           /\ dirty' = FALSE /\ closed' = TRUE
  <2> DEFINE b == [id |-> 1, kind |-> "Unknown", from |-> cur.base, raw |-> ls]
             e == [cur EXCEPT !.committed = cur.committed \o <<b>>,
                              !.start = cur.start]
  <2>1. PendingOf(ls, cur) = <<b>>
    BY <1>6 DEF PendingOf
  <2>2. CommitRest(ls, cur) = e
    BY <2>1 DEF CommitRest
  <2>3. b \in Block
    BY <1>2, <1>3 DEF Block, Mode
  <2>4. ~AllBlank(ls) /\ b.from = 0 /\ b.raw = ls
    BY <1>2, <1>6, <2>1 DEF RestIsBlank
  <2> HIDE DEF b
  <2>5. cur.committed \o <<b>> = <<b>> /\ <<b>> \in Seq(Block)
    BY <1>2, <2>3
  <2>6. /\ e \in Cursor /\ e.id = cur.id /\ e.nextId = cur.nextId
        /\ e.base = cur.base /\ e.committed = <<b>>
    BY <1>3, <2>5 DEF Cursor
  <2> HIDE DEF e
  <2>7. lines' = ls /\ cur' = e /\ processed' = processed
    BY <1>4, <1>6, <2>2
  <2>8. Len(ls) = Len(d) /\ Len(d) \in Nat
        /\ \A j \in 1..Len(ls) : ls[j] = d[j]
    BY <1>3 DEF IsRestOf
  <2>9. Covers(<<b>>, d, Len(d))
    BY <2>4, <2>8 DEF Covers, EndOf, StartOf, BlankBetween
  <2>10. Quotes(<<b>>, d) /\ Increasing(<<b>>)
    BY <2>4, <2>8 DEF Quotes, Increasing
  <2>11. QED
    BY <1>2, <1>3, <1>6, <2>6, <2>7, <2>9, <2>10, Closes DEF d
<1>7. QED
  BY <1>1, <1>5, <1>6, FinalizeCases DEF ls

(***************************************************************************)
(* finalize of a document that is not a single block.                      *)
(***************************************************************************)
LEMMA FinalizeBlocks ==
  ASSUME SingleBlock => MaxBufferBytes = {}, IInv, Finalize, ~SingleMode
  PROVE  IInv'
<1> DEFINE ls == FinalLines(lines)
           d == FinalLines(doc)
           c == SettleMode(ls, cur)
<1>1. /\ ls \in Seq(Text) /\ ls # <<>> /\ d \in Seq(Text) /\ ~closed
      /\ processed \in Nat
      /\ lines \in Seq(Text) /\ lines # <<>> /\ doc \in Seq(Text)
      /\ doc # <<>>
  BY FinalizeOpen
<1>2. Sound(lines, doc, cur, processed) /\ processed < Len(lines)
  BY <1>1 DEF IInv, OpenInv
<1>3. Sound(ls, d, cur, processed) /\ processed < Len(ls)
  BY <1>1, <1>2, FinalSound
<1> HIDE DEF ls, d
<1>4. Sound(ls, d, c, processed)
  BY <1>1, <1>3, SettleModeSound
<1>5. SingleBlock => c.base = 0
  <2>1. c.base = cur.base
    BY <1>1, <1>3, <1>4, OpenFromSound
  <2>2. QED
    BY <2>1 DEF IInv, SingleInv
<1>6. c \in Cursor /\ c.id < c.nextId
  BY <1>1, <1>4, OpenFromSound
<1> HIDE DEF c
<1>7. CASE RestIsBlank(ls, c) /\ lines' = ls /\ cur' = c
           /\ dirty' = TRUE /\ processed' = processed /\ closed' = FALSE
  BY <1>1, <1>3, <1>4, <1>5, <1>7, FinalizeOpen, StaysOpen DEF d
<1>8. CASE PendingOf(ls, c) = <<>> /\ Compact(ls, c, processed)
           /\ dirty' = FALSE /\ closed' = FALSE
  <2>1. /\ lines' \in Seq(Text) /\ lines' # <<>>
        /\ processed' \in Nat /\ processed' < Len(lines')
        /\ Sound(lines', d, cur', processed')
        /\ MaxBufferBytes = {} => cur'.base = c.base
    BY <1>1, <1>3, <1>4, <1>8, CompactSound
  <2>2. QED
    BY <1>5, <1>8, <2>1, StaysOpen DEF d
<1>9. CASE PendingOf(ls, c) # <<>> /\ ~RestIsBlank(ls, c)
           /\ Compact(ls, CommitRest(ls, c), processed) /\ dirty' = FALSE
           /\ closed' = TRUE
  <2> DEFINE e == CommitRest(ls, c)
  <2>1. /\ e \in Cursor /\ e.base = c.base /\ e.id = c.id
        /\ e.nextId = c.nextId
        /\ Covers(e.committed, d, Len(d))
        /\ Quotes(e.committed, d)
        /\ Increasing(e.committed)
    BY <1>1, <1>3, <1>4, <1>9, RestSound
  <2> HIDE DEF e
  <2>2. /\ lines' \in Seq(Text) /\ lines' # <<>> /\ processed' \in Nat
        /\ cur' \in Cursor /\ cur'.id = e.id /\ cur'.nextId = e.nextId
        /\ cur'.committed = e.committed
        /\ MaxBufferBytes = {} => cur'.base = e.base
    BY <1>1, <1>9, <2>1, CompactType DEF e
  <2>3. QED
    BY <1>5, <1>6, <1>9, <2>1, <2>2, Closes DEF d
<1>10. QED
  BY <1>7, <1>8, <1>9, FinalizeCases DEF ls, c

(***************************************************************************)
(* finalize keeps the invariant.                                           *)
(***************************************************************************)
LEMMA FinalizeKeeps ==
  ASSUME SingleBlock => MaxBufferBytes = {}, IInv, Finalize
  PROVE  IInv'
BY FinalizeSingle, FinalizeBlocks

-----------------------------------------------------------------------------
(***************************************************************************)
(* The theorems.  They assume what the runs that check these properties    *)
(* assume: the caller resets the stream before it appends after a          *)
(* finalize, and a stream of a single block has no buffer limit (without   *)
(* either the code breaks them, which other runs show).                    *)
(***************************************************************************)
LEMMA NextKeeps ==
  ASSUME ResetAfterFinalize, SingleBlock => MaxBufferBytes = {},
         IInv, [Next]_vars
  PROVE  IInv'
<1>1. CASE \E chunk \in Chunk, endsInCr \in BOOLEAN :
             AppendChunk(chunk, endsInCr)
  BY <1>1, AppendChunkKeeps
<1>2. CASE AppendNothing
  BY <1>2, AppendNothingKeeps
<1>3. CASE ProcessLine
  BY <1>3, ProcessLineKeeps
<1>4. CASE FinishAppend
  BY <1>4, FinishAppendKeeps
<1>5. CASE IndexFault
  BY <1>5, NoFault
<1>6. CASE FinalizeNothingNew
  BY <1>6, FinalizeNothingNewKeeps
<1>7. CASE Finalize
  BY <1>7, FinalizeKeeps
<1>8. CASE Reset
  BY <1>8, ResetKeeps
<1>9. CASE UNCHANGED vars
  <2>1. report' \in [mark : Nat, reset : BOOLEAN, final : BOOLEAN]
    BY <1>9 DEF IInv, TypeOK, vars
  <2>2. QED
    BY <1>9, <2>1, SameState DEF vars
<1>10. QED
  BY <1>1, <1>2, <1>3, <1>4, <1>5, <1>6, <1>7, <1>8, <1>9 DEF Next, NextOn

(***************************************************************************)
(* The invariant is inductive, so it holds in every state the stream       *)
(* reaches.                                                                *)
(***************************************************************************)
THEOREM StreamInvariant ==
  ASSUME ResetAfterFinalize, SingleBlock => MaxBufferBytes = {}
  PROVE  Spec => []IInv
<1>1. Init => IInv
  BY InitKeeps
<1>2. IInv /\ [Next]_vars => IInv'
  BY NextKeeps
<1>3. QED
  BY <1>1, <1>2, PTL DEF Spec

(***************************************************************************)
(* commit_block, finalize, maybe_compact_buffer and the switch to a single *)
(* block neither lose a line nor show one twice.                           *)
(***************************************************************************)
THEOREM NoLineIsLost ==
  ASSUME ResetAfterFinalize, SingleBlock => MaxBufferBytes = {}
  PROVE  Spec => []NothingLost
<1>1. IInv => NothingLost
  <2>1. SUFFICES ASSUME IInv
                 PROVE  NothingLost
    OBVIOUS
  <2>2. CASE closed
    BY <2>1, <2>2 DEF IInv, ClosedInv, NothingLost, Committed, PendingFrom
  <2>3. CASE ~closed /\ SingleMode
    <3>1. cur.committed = <<>> /\ cur.base = 0
      BY <2>1, <2>3 DEF IInv, SingleInv, SingleMode
    <3>2. Covers(<<>>, doc, 0)
      BY DEF Covers, EndOf, StartOf, BlankBetween
    <3>3. QED
      BY <2>3, <3>1, <3>2 DEF NothingLost, Committed, PendingFrom
  <2>4. CASE ~closed /\ ~SingleMode
    BY <2>1, <2>4
    DEF IInv, OpenInv, Sound, NothingLost, Committed, PendingFrom
  <2>5. QED
    BY <2>2, <2>3, <2>4
<1>2. QED
  BY <1>1, StreamInvariant, PTL

(***************************************************************************)
(* A committed block quotes the document at its place and is not blank.    *)
(***************************************************************************)
THEOREM CommittedTextIsQuoted ==
  ASSUME ResetAfterFinalize, SingleBlock => MaxBufferBytes = {}
  PROVE  Spec => []CommittedText
<1>1. IInv => CommittedText
  <2>1. SUFFICES ASSUME IInv
                 PROVE  CommittedText
    OBVIOUS
  <2>2. CASE closed
    BY <2>1, <2>2 DEF IInv, ClosedInv, CommittedText, Committed
  <2>3. CASE ~closed /\ SingleMode
    BY <2>1, <2>3 DEF IInv, SingleInv, CommittedText, Committed, Quotes
  <2>4. CASE ~closed /\ ~SingleMode
    BY <2>1, <2>4 DEF IInv, OpenInv, Sound, CommittedText, Committed
  <2>5. QED
    BY <2>2, <2>3, <2>4
<1>2. QED
  BY <1>1, StreamInvariant, PTL

(***************************************************************************)
(* The retained buffer is the rest of the document, after any number of    *)
(* compactions.                                                            *)
(***************************************************************************)
THEOREM BufferIsKept ==
  ASSUME ResetAfterFinalize, SingleBlock => MaxBufferBytes = {}
  PROVE  Spec => []BufferIsRest
<1>1. IInv => BufferIsRest
  BY DEF IInv
<1>2. QED
  BY <1>1, StreamInvariant, PTL

(***************************************************************************)
(* BlockId increases, and no id is used twice in a document.               *)
(***************************************************************************)
THEOREM BlockIdsIncrease ==
  ASSUME ResetAfterFinalize, SingleBlock => MaxBufferBytes = {}
  PROVE  Spec => []IdsIncrease
<1>1. IInv => IdsIncrease
  <2>1. SUFFICES ASSUME IInv
                 PROVE  IdsIncrease
    OBVIOUS
  <2>2. cur.id < cur.nextId
    BY <2>1 DEF IInv
  <2>3. CASE closed
    BY <2>1, <2>2, <2>3 DEF IInv, ClosedInv, IdsIncrease, Committed
  <2>4. CASE ~closed /\ SingleMode
    BY <2>1, <2>2, <2>4
    DEF IInv, SingleInv, IdsIncrease, Committed, Increasing, AllBelow
  <2>5. CASE ~closed /\ ~SingleMode
    BY <2>1, <2>2, <2>5 DEF IInv, OpenInv, Sound, IdsIncrease, Committed
  <2>6. QED
    BY <2>3, <2>4, <2>5
<1>2. QED
  BY <1>1, StreamInvariant, PTL

(***************************************************************************)
(* The assertion of maybe_compact_buffer, and no index is ever out of      *)
(* range in process_line and process_incomplete_tail_boundary.             *)
(***************************************************************************)
THEOREM CursorStaysInRange ==
  ASSUME ResetAfterFinalize, SingleBlock => MaxBufferBytes = {}
  PROVE  Spec => []CursorInRange
<1>1. IInv => CursorInRange
  BY DEF IInv, OpenInv, Sound, CursorInRange
<1>2. QED
  BY <1>1, StreamInvariant, PTL

-----------------------------------------------------------------------------
(***************************************************************************)
(* Single blocks: the mode of the pending block is that of its first line, *)
(* the ids of a snapshot are distinct, a fenced block ends where it        *)
(* closes, and committed blocks stay as they are.                          *)
(***************************************************************************)

(***************************************************************************)
(* The fields of a cursor have their types.                                *)
(***************************************************************************)
LEMMA CursorFields ==
  ASSUME NEW c \in Cursor
  PROVE  /\ c.base \in Nat /\ c.start \in Nat /\ c.id \in Nat
         /\ c.nextId \in Nat /\ c.mode \in Mode /\ c.inner \in Inner
         /\ c.committed \in Seq(Block)
BY DEF Cursor

(***************************************************************************)
(* StartAt in terms of fields.                                             *)
(***************************************************************************)
LEMMA StartAtFields ==
  ASSUME NEW c \in Cursor, NEW t \in Text
  PROVE  /\ StartAt(c, t) \in Cursor
         /\ StartAt(c, t).base = c.base /\ StartAt(c, t).start = c.start
         /\ StartAt(c, t).id = c.id /\ StartAt(c, t).nextId = c.nextId
         /\ StartAt(c, t).mode = StartMode(t)
         /\ StartAt(c, t).inner = Enter[t]
         /\ StartAt(c, t).committed = c.committed
BY StartModeType, PayloadType DEF StartAt, Cursor

(***************************************************************************)
(* commit_block leaves no mode behind.                                     *)
(***************************************************************************)
LEMMA CommitMode ==
  ASSUME NEW ls \in Seq(Text), NEW c \in Cursor, NEW end \in Nat,
         end < Len(ls), c.start <= end
  PROVE  /\ Commit(ls, c, end).mode = "Unknown"
         /\ Commit(ls, c, end).inner = NoPayload
BY DEF Commit, Cursor

(***************************************************************************)
(* commit_block of a block that starts later does nothing.                 *)
(***************************************************************************)
LEMMA CommitLater ==
  ASSUME NEW ls, NEW c, NEW end, end < c.start
  PROVE  Commit(ls, c, end) = c
BY DEF Commit

(***************************************************************************)
(* Two lines in the middle of a document.                                  *)
(***************************************************************************)
LEMMA TwoLines ==
  ASSUME NEW d \in Seq(Text), NEW b \in Nat, b # 0, b + 1 <= Len(d)
  PROVE  d[b] \in Text /\ d[b + 1] \in Text
OBVIOUS

-----------------------------------------------------------------------------
(***************************************************************************)
(* The mode of c is that of the first line of its block, or a table that a *)
(* paragraph became.                                                       *)
(***************************************************************************)
FirstMode(ls, c) ==
  LET mode == StartMode(ls[c.start + 1])
  IN  c.mode = mode \/ (mode = "Paragraph" /\ c.mode = "Table")

(***************************************************************************)
(* A line always starts some kind of block.                                *)
(***************************************************************************)
LEMMA FirstModeKnown ==
  ASSUME NEW ls, NEW c, FirstMode(ls, c)
  PROVE  c.mode # "Unknown"
BY DEF FirstMode, StartMode

(***************************************************************************)
(* e has committed line i and is in no fence or formula, or is still at    *)
(* the block of c with its mode.                                           *)
(***************************************************************************)
After(ls, c, e, i) ==
  \/ e.start = i + 1 /\ e.mode \notin {"CodeFence", "MathBlock"}
  \/ e.start = c.start /\ FirstMode(ls, e)

(***************************************************************************)
(* commit_block up to line i lets the next block start behind it.          *)
(***************************************************************************)
LEMMA CommitAfter ==
  ASSUME NEW ls \in Seq(Text), NEW c \in Cursor, NEW i \in Nat, i < Len(ls),
         c.start <= i + 1
  PROVE  /\ Commit(ls, c, i).start = i + 1
         /\ c.start <= i => Commit(ls, c, i).mode = "Unknown"
<1>1. CASE c.start <= i
  BY <1>1, CommitShape, CommitMode
<1>2. CASE c.start = i + 1
  BY <1>2, CommitLater
<1>3. QED
  BY <1>1, <1>2, CursorFields

(***************************************************************************)
(* update_mode_with_line keeps the mode of the first line.                 *)
(***************************************************************************)
LEMMA UpdateModeFirst ==
  ASSUME NEW ls \in Seq(Text), NEW c \in Cursor, NEW i \in Nat, i < Len(ls),
         c.start <= i, FirstMode(ls, c)
  PROVE  After(ls, c, UpdateMode(ls, c, i), i)
<1>1. /\ c.mode # "Unknown" /\ c.start \in Nat /\ c.mode \in Mode
      /\ ls[i + 1] \in Text
  BY FirstModeKnown, CursorFields
<1>2. CASE c.mode = "CodeFence"
  <2>1. UpdateMode(ls, c, i) \in {c, Commit(ls, c, i)}
    BY <1>2 DEF UpdateMode, CloseFence
  <2>2. QED
    BY <1>1, <2>1, CommitAfter DEF After
<1>3. CASE c.mode \in {"CustomBoundary", "MathBlock", "HtmlBlock"}
  <2> DEFINE e == [c EXCEPT !.inner = Scan[<<c.inner, ls[i + 1]>>]]
  <2>1. Scan[<<c.inner, ls[i + 1]>>] \in Inner
    BY <1>1, CursorFields, PayloadType
  <2>2. e \in Cursor /\ e.start = c.start /\ e.mode = c.mode
    BY <2>1 DEF Cursor
  <2>3. UpdateMode(ls, c, i) \in {e, Commit(ls, e, i)}
    BY <1>3 DEF UpdateMode, CloseOnLine
  <2> HIDE DEF e
  <2>4. CASE UpdateMode(ls, c, i) = e
    BY <2>2, <2>4 DEF After, FirstMode
  <2>5. CASE UpdateMode(ls, c, i) = Commit(ls, e, i)
    BY <1>1, <2>2, <2>5, CommitAfter DEF After
  <2>6. QED
    BY <2>3, <2>4, <2>5
<1>4. CASE c.mode = "Paragraph"
  <2> DEFINE h == [c EXCEPT !.mode = "Heading"]
             r == [c EXCEPT !.mode = "Table"]
  <2>1. /\ h \in Cursor /\ h.start = c.start
        /\ r \in Cursor /\ r.start = c.start /\ r.mode = "Table"
    BY DEF Cursor, Mode
  <2>2. UpdateMode(ls, c, i) \in {c, r, Commit(ls, h, i)}
    BY <1>4 DEF UpdateMode, UpgradeParagraph
  <2> HIDE DEF h, r
  <2>3. CASE UpdateMode(ls, c, i) = c
    BY <2>3 DEF After
  <2>4. CASE UpdateMode(ls, c, i) = r
    BY <1>4, <2>1, <2>4 DEF After, FirstMode
  <2>5. CASE UpdateMode(ls, c, i) = Commit(ls, h, i)
    BY <1>1, <2>1, <2>5, CommitAfter DEF After
  <2>6. QED
    BY <2>2, <2>3, <2>4, <2>5
<1>5. CASE c.mode \notin {"CodeFence", "CustomBoundary", "MathBlock",
                          "HtmlBlock", "Paragraph"}
  <2>1. UpdateMode(ls, c, i) = c
    BY <1>1, <1>5 DEF UpdateMode
  <2>2. QED
    BY <2>1 DEF After
<1>6. QED
  BY <1>2, <1>3, <1>4, <1>5

(***************************************************************************)
(* A block that opens at line i gets the mode of line i, and a heading or  *)
(* a thematic break is committed with it.                                  *)
(***************************************************************************)
LEMMA OpenBlockFirst ==
  ASSUME NEW ls \in Seq(Text), NEW c \in Cursor, NEW i \in Nat, i < Len(ls),
         c.start = i
  PROVE  After(ls, c, OpenBlock(ls, c, i), i)
<1> DEFINE t == ls[i + 1]
           e == StartAt(c, t)
<1>1. /\ e \in Cursor /\ e.start = i /\ e.mode = StartMode(t)
      /\ FirstMode(ls, e)
  BY StartAtFields DEF FirstMode
<1> HIDE DEF e
<1>2. CASE e.mode \in {"Heading", "ThematicBreak"}
  <2> DEFINE f == Commit(ls, e, i)
             g == StartAt(f, t)
  <2>1. f \in Cursor /\ f.start = i + 1 /\ f.mode = "Unknown"
    BY <1>1, CommitShape, CommitMode
  <2>2. OpenBlock(ls, c, i) = UpdateMode(ls, f, i)
    BY <1>2 DEF OpenBlock, CommitSingleLine, e
  <2> HIDE DEF f
  <2>3. UpdateMode(ls, f, i) = CommitSingleLine(ls, g, i)
    BY <2>1 DEF UpdateMode
  <2>4. g.start = i + 1 /\ i < g.start /\ g.mode = e.mode
    BY <1>1, <2>1, StartAtFields
  <2> HIDE DEF g
  <2>5. CommitSingleLine(ls, g, i) = g
    BY <2>4, CommitLater DEF CommitSingleLine
  <2>6. QED
    BY <1>2, <2>2, <2>3, <2>4, <2>5 DEF After
<1>3. CASE e.mode \notin {"Heading", "ThematicBreak"}
  <2>1. OpenBlock(ls, c, i) = UpdateMode(ls, e, i)
    BY <1>3 DEF OpenBlock, CommitSingleLine, e
  <2>2. After(ls, e, UpdateMode(ls, e, i), i)
    BY <1>1, UpdateModeFirst
  <2>3. QED
    BY <1>1, <2>1, <2>2 DEF After
<1>4. QED
  BY <1>2, <1>3

(***************************************************************************)
(* process_line leaves the pending block with the mode of its first line,  *)
(* if that line has been scanned.                                          *)
(***************************************************************************)
LEMMA ProcessFirst ==
  ASSUME NEW ls \in Seq(Text), NEW c \in Cursor, NEW i \in Nat, i < Len(ls),
         c.start <= i, c.start < i => FirstMode(ls, c)
  PROVE  LET e == Process(ls, c, i)
         IN  /\ e.start < i + 1 => FirstMode(ls, e)
             /\ e.start >= i + 1
                  => e.mode \notin {"CodeFence", "MathBlock"}
<1>0. c.start \in Nat
  BY CursorFields
<1>1. CASE i = c.start
  BY <1>1, OpenBlockFirst DEF Process, After
<1>2. CASE i # c.start /\ Boundary(ls, c, i)
  <2> DEFINE e == Commit(ls, c, i - 1)
  <2>1. i - 1 \in Nat /\ i - 1 < Len(ls) /\ c.start <= i - 1
    BY <1>0, <1>2
  <2>2. e \in Cursor /\ e.start = i
    BY <2>1, CommitShape
  <2>3. Process(ls, c, i) = OpenBlock(ls, e, i)
    BY <1>2 DEF Process
  <2> HIDE DEF e
  <2>4. QED
    BY <2>2, <2>3, OpenBlockFirst DEF After
<1>3. CASE i # c.start /\ ~Boundary(ls, c, i)
  BY <1>0, <1>3, UpdateModeFirst DEF Process, After
<1>4. QED
  BY <1>1, <1>2, <1>3

-----------------------------------------------------------------------------
(***************************************************************************)
(* The document is open and is split into blocks.                          *)
(***************************************************************************)
Split == ~closed /\ ~SingleMode

(***************************************************************************)
(* What a step can do to a document that is split into blocks after it:    *)
(* start it, leave it, extend it, scan a line, return from append, or      *)
(* finalize it without a block to commit.                                  *)
(***************************************************************************)
Starts ==
  /\ lines' = <<EmptyText>> /\ doc' = <<EmptyText>> /\ processed' = 0
  /\ cur' = FreshCursor(0) /\ pc' = "idle"

Stays == UNCHANGED <<lines, doc, processed, cur, pc, pendingCr>>

Extends ==
  \E chunk \in Chunk :
    /\ pc = "idle" /\ pc' = "lines"
    /\ Follows(chunk)
    /\ lines' = Extend(lines, chunk) /\ doc' = Extend(doc, chunk)
    /\ UNCHANGED <<cur, processed>>

Reads ==
  /\ pc = "lines" /\ pc' = "lines"
  /\ processed < Len(lines) - 1
  /\ processed' = processed + 1
  /\ cur' = Process(lines, cur, processed)
  /\ UNCHANGED <<lines, doc, pendingCr>>

Returns ==
  /\ pc = "lines" /\ pc' = "idle"
  /\ processed = Len(lines) - 1
  /\ Compact(lines, TailBoundary(lines, cur), processed)
  /\ UNCHANGED <<doc, pendingCr>>

KeepsBlanks ==
  LET ls == FinalLines(lines)
      c == SettleMode(ls, cur)
  IN  /\ pc = "idle" /\ pc' = "idle"
      /\ RestIsBlank(ls, c)
      /\ lines' = ls /\ doc' = FinalLines(doc) /\ cur' = c
      /\ processed' = processed
      /\ pendingCr' = FALSE

CommitsNone ==
  LET ls == FinalLines(lines)
      c == SettleMode(ls, cur)
  IN  /\ pc = "idle" /\ pc' = "idle"
      /\ PendingOf(ls, c) = <<>>
      /\ Compact(ls, c, processed)
      /\ doc' = FinalLines(doc)
      /\ pendingCr' = FALSE

(***************************************************************************)
(* The steps above are all there are.                                      *)
(***************************************************************************)
LEMMA SplitSteps ==
  ASSUME ResetAfterFinalize, IInv, [Next]_vars, Split'
  PROVE  \/ Starts
         \/ Split /\ (Stays \/ Extends \/ Reads \/ Returns \/ KeepsBlanks
                      \/ CommitsNone)
<1>0. /\ closed \in BOOLEAN /\ lines \in Seq(Text) /\ lines # <<>>
      /\ processed \in Nat /\ pc # "panicked"
      /\ Split => processed < Len(lines)
  BY DEF IInv, TypeOK, OpenInv, Split
<1>1. ASSUME NEW chunk \in Chunk, NEW endsInCr \in BOOLEAN,
             AppendChunk(chunk, endsInCr)
      PROVE  Split /\ Extends
  <2>1. /\ pc = "idle" /\ ~closed /\ Follows(chunk)
        /\ lines' = Extend(lines, chunk) /\ doc' = Extend(doc, chunk)
        /\ detected' = (detected \/ Detects(chunk))
    BY <1>1 DEF AppendChunk, MayAppend
  <2>2. ~(SingleBlock /\ Detects(chunk) /\ ~detected) /\ ~SingleMode
    BY <2>1 DEF Split, SingleMode
  <2>3. cur' = cur /\ processed' = processed /\ pc' = "lines"
    BY <1>1, <2>2 DEF AppendChunk, EnterLoop
  <2>4. QED
    BY <2>1, <2>2, <2>3 DEF Extends, Split
<1>2. ASSUME UNCHANGED <<lines, doc, processed, cur, pc, pendingCr, closed,
                         detected>>
      PROVE  Split /\ Stays
  BY <1>2 DEF Split, SingleMode, Stays
<1>3. CASE AppendNothing
  BY <1>2, <1>3 DEF AppendNothing
<1>4. CASE ProcessLine
  <2>1. ~SingleMode /\ Split
    BY <1>4 DEF ProcessLine, Split, SingleMode
  <2>2. Reads
    BY <1>4, <2>1 DEF ProcessLine, Reads, MoreLines
  <2>3. QED
    BY <2>1, <2>2
<1>5. CASE FinishAppend
  <2>1. ~SingleMode /\ Split
    BY <1>5 DEF FinishAppend, Split, SingleMode
  <2>2. processed = Len(lines) - 1
    <3>1. ~(processed < Len(lines) - 1) /\ Len(lines) \in Nat
      BY <1>0, <1>5 DEF FinishAppend, MoreLines
    <3>2. QED
      BY <1>0, <2>1, <3>1
  <2>3. Returns
    BY <1>5, <2>1, <2>2 DEF FinishAppend, Returns
  <2>4. QED
    BY <2>1, <2>3
<1>6. CASE IndexFault
  BY <1>6, NoFault
<1>7. CASE FinalizeNothingNew
  BY <1>2, <1>7 DEF FinalizeNothingNew
<1>8. CASE Finalize
  <2> DEFINE ls == FinalLines(lines)
             c == SettleMode(ls, cur)
  <2>1. /\ pc = "idle" /\ pc' = "idle" /\ doc' = FinalLines(doc)
        /\ pendingCr' = FALSE /\ detected' = detected
    BY <1>8 DEF Finalize
  <2>2. ~closed
    BY <1>8, FinalizeOpen
  <2>3. Split
    BY <2>1, <2>2 DEF Split, SingleMode
  <2>4. \/ /\ RestIsBlank(ls, c)
           /\ lines' = ls /\ cur' = c /\ processed' = processed
        \/ PendingOf(ls, c) = <<>> /\ Compact(ls, c, processed)
    BY <1>8, FinalizeCases DEF Split
  <2>5. KeepsBlanks \/ CommitsNone
    BY <2>1, <2>4 DEF KeepsBlanks, CommitsNone
  <2>6. QED
    BY <2>3, <2>5
<1>9. CASE Reset
  BY <1>9 DEF Reset, Starts
<1>10. CASE UNCHANGED vars
  BY <1>2, <1>10 DEF vars
<1>11. QED
  BY <1>1, <1>3, <1>4, <1>5, <1>6, <1>7, <1>8, <1>9, <1>10
  DEF Next, NextOn

(***************************************************************************)
(* What maybe_compact_buffer leaves: all lines, or those of the current    *)
(* block on, with the line numbers rebased.                                *)
(***************************************************************************)
Rebased(ls, c, n) ==
  \/ lines' = ls /\ cur' = c /\ processed' = n
  \/ /\ MaxBufferBytes # {}
     /\ cur' = [c EXCEPT !.base = c.base + c.start, !.start = 0]
     /\ Len(lines') = Len(ls) - c.start
     /\ \A j \in 1..Len(lines') : lines'[j] = ls[c.start + j]
     /\ processed' = n - c.start

(***************************************************************************)
(* A line that has not been scanned is never dropped.                      *)
(***************************************************************************)
LEMMA CompactRebased ==
  ASSUME NEW ls \in Seq(Text), ls # <<>>, NEW d \in Seq(Text), NEW c,
         NEW n \in Nat, Sound(ls, d, c, n), n < Len(ls), Compact(ls, c, n)
  PROVE  Rebased(ls, c, n)
<1>1. CASE ~Compacts(ls, c)
  BY <1>1 DEF Compact, Rebased
<1>2. CASE Compacts(ls, c)
  <2>1. /\ lines' = KeptLines(ls, c)
        /\ cur' = [c EXCEPT !.base = c.base + c.start, !.start = 0]
        /\ processed' = KeptProcessed(ls, c, n)
        /\ MaxBufferBytes # {}
    BY <1>2 DEF Compact, Compacts
  <2>2. c.base \in Nat /\ c.start \in Nat /\ c.start <= n
    BY DEF Sound, Cursor
  <2>3. IsRestOf(ls, d, c.base)
    BY DEF Sound
  <2>4. /\ Len(KeptLines(ls, c)) = Len(ls) - c.start
        /\ IsRestOf(KeptLines(ls, c), d, c.base + c.start)
    BY <2>2, <2>3, KeptRest
  <2>5. processed' = n - c.start
    BY <2>1, <2>2, <2>4 DEF KeptProcessed, Least
  <2>6. ASSUME NEW j \in 1..Len(lines')
        PROVE  lines'[j] = ls[c.start + j]
    <3>1. lines'[j] = d[c.base + c.start + j]
      BY <2>1, <2>4, <2>6 DEF IsRestOf
    <3>2. c.start + j \in 1..Len(ls)
      BY <2>1, <2>2, <2>4, <2>6
    <3>3. ls[c.start + j] = d[c.base + (c.start + j)]
      BY <2>3, <3>2 DEF IsRestOf
    <3>4. c.base + (c.start + j) = c.base + c.start + j
      BY <2>2
    <3>5. QED
      BY <3>1, <3>3, <3>4
  <2>7. QED
    BY <2>1, <2>4, <2>5, <2>6 DEF Rebased
<1>3. QED
  BY <1>1, <1>2

-----------------------------------------------------------------------------
(***************************************************************************)
(* The inductive form of ModeOfFirstLine.                                  *)
(***************************************************************************)
ModeInv == Split /\ cur.start < processed => FirstMode(lines, cur)

(***************************************************************************)
(* What the invariant of the stream says of a split document.              *)
(***************************************************************************)
LEMMA SplitFacts ==
  ASSUME IInv, Split
  PROVE  /\ lines \in Seq(Text) /\ lines # <<>> /\ Len(lines) \in Nat
         /\ doc \in Seq(Text) /\ doc # <<>> /\ Len(doc) \in Nat
         /\ processed \in Nat /\ cur \in Cursor
         /\ cur.base \in Nat /\ cur.start \in Nat
         /\ Sound(lines, doc, cur, processed)
         /\ cur.start <= processed /\ processed < Len(lines)
<1>1. /\ lines \in Seq(Text) /\ lines # <<>> /\ doc \in Seq(Text)
      /\ doc # <<>> /\ processed \in Nat /\ cur \in Cursor
  BY DEF IInv, TypeOK
<1>2. Sound(lines, doc, cur, processed) /\ processed < Len(lines)
  BY DEF IInv, OpenInv, Split
<1>3. QED
  BY <1>1, <1>2, CursorFields DEF Sound

(***************************************************************************)
(* finalize settles an Unknown mode with that of the first line.           *)
(***************************************************************************)
LEMMA SettleFields ==
  ASSUME NEW ls \in Seq(Text), NEW c \in Cursor, c.start < Len(ls)
  PROVE  /\ SettleMode(ls, c) \in Cursor
         /\ SettleMode(ls, c).base = c.base
         /\ SettleMode(ls, c).start = c.start
         /\ SettleMode(ls, c).id = c.id
         /\ SettleMode(ls, c).nextId = c.nextId
         /\ SettleMode(ls, c).committed = c.committed
         /\ c.mode # "Unknown" => SettleMode(ls, c) = c
<1>1. ls[c.start + 1] \in Text
  BY CursorFields
<1>2. QED
  BY <1>1, StartAtFields DEF SettleMode

(***************************************************************************)
(* Every step keeps ModeInv.                                               *)
(***************************************************************************)
LEMMA ModeInvKept ==
  ASSUME ResetAfterFinalize, SingleBlock => MaxBufferBytes = {}, IInv,
         ModeInv, [Next]_vars
  PROVE  ModeInv'
<1>1. SUFFICES ASSUME Split', cur'.start < processed'
               PROVE  FirstMode(lines, cur)'
  BY DEF ModeInv
<1>2. CASE Starts
  <2>1. FreshCursor(0).start = 0
    BY FreshShape
  <2>2. QED
    BY <1>1, <1>2, <2>1 DEF Starts
<1>3. ASSUME Split, Stays \/ Extends \/ Reads \/ Returns \/ KeepsBlanks
                    \/ CommitsNone
      PROVE  FirstMode(lines, cur)'
  <2>0. /\ lines \in Seq(Text) /\ lines # <<>> /\ Len(lines) \in Nat
        /\ doc \in Seq(Text) /\ doc # <<>>
        /\ processed \in Nat /\ cur \in Cursor /\ cur.start \in Nat
        /\ Sound(lines, doc, cur, processed)
        /\ cur.start <= processed /\ processed < Len(lines)
    BY <1>3, SplitFacts
  <2>1. cur.start < processed => FirstMode(lines, cur)
    BY <1>3 DEF ModeInv
  <2>2. CASE Stays
    BY <1>1, <2>1, <2>2 DEF Stays, FirstMode
  <2>3. CASE Extends
    <3>1. PICK chunk \in Chunk : lines' = Extend(lines, chunk)
      BY <2>3 DEF Extends
    <3>2. cur' = cur /\ processed' = processed
      BY <2>3 DEF Extends
    <3>3. cur.start + 1 \in 1..Len(lines) - 1
      BY <1>1, <2>0, <3>2
    <3>4. lines'[cur.start + 1] = lines[cur.start + 1]
      BY <2>0, <3>1, <3>3, ExtendFacts
    <3>5. QED
      BY <1>1, <2>1, <3>2, <3>4 DEF FirstMode
  <2>4. CASE Reads
    <3>1. /\ lines' = lines /\ processed' = processed + 1
          /\ cur' = Process(lines, cur, processed)
      BY <2>4 DEF Reads
    <3>2. cur'.start < processed + 1 => FirstMode(lines, cur')
      BY <2>0, <2>1, <3>1, ProcessFirst
    <3>3. QED
      BY <1>1, <3>1, <3>2 DEF FirstMode
  <2>5. CASE Returns
    <3> DEFINE c == TailBoundary(lines, cur)
    <3>1. processed = Len(lines) - 1 /\ Compact(lines, c, processed)
      BY <2>5 DEF Returns
    <3>2. Sound(lines, doc, c, processed)
      BY <2>0, <3>1, TailBoundarySound
    <3>3. c \in Cursor /\ c.start \in Nat
      BY <3>2 DEF Sound, Cursor
    <3>4. c.start < processed => FirstMode(lines, c)
      <4>1. CASE processed >= 1 /\ Boundary(lines, cur, processed)
        <5>1. /\ processed - 1 \in Nat /\ processed - 1 < Len(lines)
              /\ cur.start <= (processed - 1) + 1
              /\ (processed - 1) + 1 = processed
          BY <2>0, <4>1
        <5>2. Commit(lines, cur, processed - 1).start = processed
          BY <2>0, <5>1, CommitAfter
        <5>3. /\ Commit(lines, cur, processed - 1) \in Cursor
              /\ lines[processed + 1] \in Text
          <6>1. Sound(lines, doc, Commit(lines, cur, processed - 1),
                      processed)
            BY <2>0, <5>1, CommitSound
          <6>2. QED
            BY <2>0, <6>1 DEF Sound
        <5>4. c = StartAt(Commit(lines, cur, processed - 1),
                          lines[processed + 1])
          BY <3>1, <4>1 DEF TailBoundary
        <5>5. c.start = processed
          BY <5>2, <5>3, <5>4, StartAtFields
        <5>6. QED
          BY <2>0, <5>5
      <4>2. CASE ~(processed >= 1 /\ Boundary(lines, cur, processed))
        <5>1. c = cur
          BY <3>1, <4>2 DEF TailBoundary
        <5>2. QED
          BY <2>1, <5>1
      <4>3. QED
        BY <4>1, <4>2
    <3> HIDE DEF c
    <3>5. CASE lines' = lines /\ cur' = c /\ processed' = processed
      BY <1>1, <3>4, <3>5 DEF FirstMode
    <3>6. CASE /\ cur' = [c EXCEPT !.base = c.base + c.start, !.start = 0]
               /\ Len(lines') = Len(lines) - c.start
               /\ \A j \in 1..Len(lines') : lines'[j] = lines[c.start + j]
               /\ processed' = processed - c.start
      <4>1. cur'.start = 0 /\ cur'.mode = c.mode
        BY <3>3, <3>6 DEF Cursor
      <4>2. c.start < processed
        BY <1>1, <2>0, <3>3, <3>6, <4>1
      <4>3. lines'[1] = lines[c.start + 1]
        <5>1. 1 \in 1..Len(lines')
          BY <2>0, <3>3, <3>6, <4>2
        <5>2. QED
          BY <3>6, <5>1
      <4>4. lines'[cur'.start + 1] = lines[c.start + 1]
        BY <4>1, <4>3
      <4>5. QED
        BY <3>4, <4>1, <4>2, <4>4 DEF FirstMode
    <3>7. Rebased(lines, c, processed)
      <4>1. Compact(lines, c, processed)
        BY <3>1
      <4>2. QED
        BY <2>0, <3>2, <4>1, CompactRebased
    <3>8. QED
      BY <3>5, <3>6, <3>7 DEF Rebased
  <2> DEFINE ls == FinalLines(lines)
             c == SettleMode(ls, cur)
  <2>6. /\ ls \in Seq(Text) /\ ls # <<>> /\ processed < Len(ls)
        /\ Sound(ls, FinalLines(doc), cur, processed)
    BY <2>0, FinalLinesFacts, FinalSound
  <2>7. ls[cur.start + 1] = lines[cur.start + 1] /\ cur.start < Len(ls)
    <3>1. cur.start + 1 \in 1..Len(lines)
      BY <2>0
    <3>2. Len(ls) \in Nat
      BY <2>6
    <3>3. QED
      BY <2>0, <2>6, <3>1, <3>2, FinalLinesFacts
  <2>8. /\ c \in Cursor /\ c.start = cur.start
        /\ cur.mode # "Unknown" => c = cur
    BY <2>0, <2>6, <2>7, SettleFields
  <2>9. c.start < processed => FirstMode(ls, c)
    BY <2>1, <2>7, <2>8, FirstModeKnown DEF FirstMode
  <2>10. CASE KeepsBlanks
    <3>1. lines' = ls /\ cur' = c /\ processed' = processed
      BY <2>10 DEF KeepsBlanks
    <3>2. QED
      BY <1>1, <2>9, <3>1 DEF FirstMode
  <2>11. CASE CommitsNone
    <3>1. PendingOf(ls, c) = <<>> /\ Compact(ls, c, processed)
      BY <2>11 DEF CommitsNone
    <3>2. FinalLines(doc) \in Seq(Text)
      BY <2>0, FinalLinesFacts
    <3>3. Sound(ls, FinalLines(doc), c, processed)
      BY <2>0, <2>6, <3>2, SettleModeSound
    <3> HIDE DEF c, ls
    <3>4. c.start \in Nat /\ Len(ls) \in Nat
      BY <2>6, <2>8, CursorFields
    <3>5. CASE lines' = ls /\ cur' = c /\ processed' = processed
      BY <1>1, <2>9, <3>5 DEF FirstMode
    <3>6. CASE /\ cur' = [c EXCEPT !.base = c.base + c.start, !.start = 0]
               /\ Len(lines') = Len(ls) - c.start
               /\ \A j \in 1..Len(lines') : lines'[j] = ls[c.start + j]
               /\ processed' = processed - c.start
      <4>1. cur'.start = 0 /\ cur'.mode = c.mode
        BY <2>8, <3>6 DEF Cursor
      <4>2. c.start < processed
        BY <1>1, <2>0, <3>4, <3>6, <4>1
      <4>3. 1 \in 1..Len(lines')
        BY <2>0, <2>6, <3>4, <3>6, <4>2
      <4>4. lines'[cur'.start + 1] = ls[c.start + 1]
        BY <3>6, <4>1, <4>3
      <4>5. QED
        BY <2>9, <4>1, <4>2, <4>4 DEF FirstMode
    <3>7. Rebased(ls, c, processed)
      BY <2>0, <2>6, <3>1, <3>2, <3>3, CompactRebased
    <3>8. QED
      BY <3>5, <3>6, <3>7 DEF Rebased
  <2>12. QED
    BY <1>3, <2>2, <2>3, <2>4, <2>5, <2>10, <2>11
<1>4. QED
  BY <1>1, <1>2, <1>3, SplitSteps

(***************************************************************************)
(* The mode of a block with a scanned line is the one its first line       *)
(* starts: no chunk boundary, compaction or finalize lets it drift.        *)
(***************************************************************************)
THEOREM ModeIsOfFirstLine ==
  ASSUME ResetAfterFinalize, SingleBlock => MaxBufferBytes = {}
  PROVE  Spec => []ModeOfFirstLine
<1>1. Init => ModeInv
  <2>1. FreshCursor(0).start = 0
    BY FreshShape
  <2>2. QED
    BY <2>1 DEF Init, ModeInv
<1>2. IInv /\ ModeInv /\ [Next]_vars => ModeInv'
  BY ModeInvKept
<1>3. ModeInv => ModeOfFirstLine
  BY DEF ModeInv, ModeOfFirstLine, FirstMode, Split
<1>4. QED
  BY <1>1, <1>2, <1>3, StreamInvariant, PTL DEF Spec

-----------------------------------------------------------------------------
(***************************************************************************)
(* Committed blocks are append-only, whatever the caller does: this part   *)
(* does not assume that the stream is reset after a finalize, so the       *)
(* current block may lie past the last line.                               *)
(***************************************************************************)
KeepsCommitted(c, e) ==
  e \in Cursor /\ IsPrefixOf(c.committed, e.committed)

(***************************************************************************)
(* A prefix of a prefix.                                                   *)
(***************************************************************************)
LEMMA KeepsTwice ==
  ASSUME NEW c \in Cursor, NEW e, NEW f,
         KeepsCommitted(c, e), KeepsCommitted(e, f)
  PROVE  KeepsCommitted(c, f)
<1>1. /\ e \in Cursor /\ f \in Cursor
      /\ c.committed \in Seq(Block) /\ e.committed \in Seq(Block)
      /\ f.committed \in Seq(Block)
  BY DEF KeepsCommitted, Cursor
<1>2. /\ Len(c.committed) <= Len(e.committed)
      /\ Len(e.committed) <= Len(f.committed)
      /\ \A k \in 1..Len(c.committed) : c.committed[k] = e.committed[k]
      /\ \A k \in 1..Len(e.committed) : e.committed[k] = f.committed[k]
  BY DEF KeepsCommitted, IsPrefixOf
<1>3. /\ Len(c.committed) \in Nat /\ Len(e.committed) \in Nat
      /\ Len(f.committed) \in Nat
  BY <1>1
<1>4. Len(c.committed) <= Len(f.committed)
  BY <1>2, <1>3
<1>5. ASSUME NEW k \in 1..Len(c.committed)
      PROVE  c.committed[k] = f.committed[k]
  <2>1. k \in 1..Len(e.committed)
    BY <1>2, <1>3
  <2>2. QED
    BY <1>2, <2>1
<1>6. QED
  BY <1>1, <1>4, <1>5 DEF KeepsCommitted, IsPrefixOf

(***************************************************************************)
(* Another mode or payload.                                                *)
(***************************************************************************)
LEMMA KeepsSame ==
  ASSUME NEW c \in Cursor, NEW e, SameBlocks(c, e)
  PROVE  KeepsCommitted(c, e)
<1>1. c.committed \in Seq(Block) /\ e \in Cursor /\ e.committed = c.committed
  BY DEF SameBlocks, Cursor
<1>2. QED
  BY <1>1 DEF KeepsCommitted, IsPrefixOf

(***************************************************************************)
(* commit_block only appends.                                              *)
(***************************************************************************)
LEMMA KeepsCommit ==
  ASSUME NEW ls \in Seq(Text), NEW c \in Cursor, NEW end \in Nat,
         end < Len(ls)
  PROVE  KeepsCommitted(c, Commit(ls, c, end))
<1>1. c.committed \in Seq(Block) /\ c.start \in Nat
  BY DEF Cursor
<1>2. CASE end < c.start
  <2>1. Commit(ls, c, end) = c
    BY <1>2, CommitLater
  <2>2. QED
    BY <1>1, <2>1 DEF KeepsCommitted, IsPrefixOf
<1>3. CASE c.start <= end
  <2> DEFINE raw == LinesOf(ls, c.start, end)
             b == BlockAt(c, raw)
             e == Commit(ls, c, end)
  <2>1. /\ e \in Cursor /\ b \in Block
        /\ e.committed = IF AllBlank(raw) THEN c.committed
                         ELSE Append(c.committed, b)
    BY <1>1, <1>3, CommitShape
  <2> HIDE DEF e, b, raw
  <2>2. IsPrefixOf(c.committed, Append(c.committed, b))
    BY <1>1, <2>1, AppendProperties DEF IsPrefixOf
  <2>3. IsPrefixOf(c.committed, c.committed)
    BY <1>1 DEF IsPrefixOf
  <2>4. QED
    BY <2>1, <2>2, <2>3 DEF KeepsCommitted, e
<1>4. QED
  BY <1>1, <1>2, <1>3

(***************************************************************************)
(* So does maybe_commit_single_line.                                       *)
(***************************************************************************)
LEMMA KeepsSingleLine ==
  ASSUME NEW ls \in Seq(Text), NEW c \in Cursor, NEW i \in Nat, i < Len(ls)
  PROVE  KeepsCommitted(c, CommitSingleLine(ls, c, i))
<1>1. SameBlocks(c, c)
  BY DEF SameBlocks
<1>2. QED
  BY <1>1, KeepsSame, KeepsCommit DEF CommitSingleLine

(***************************************************************************)
(* The payload after a line.                                               *)
(***************************************************************************)
LEMMA KeepsScan ==
  ASSUME NEW ls \in Seq(Text), NEW c \in Cursor, NEW i \in Nat, i < Len(ls)
  PROVE  /\ [c EXCEPT !.inner = Scan[<<c.inner, ls[i + 1]>>]] \in Cursor
         /\ SameBlocks(c, [c EXCEPT !.inner = Scan[<<c.inner, ls[i + 1]>>]])
<1> DEFINE p == Scan[<<c.inner, ls[i + 1]>>]
<1>1. ls[i + 1] \in Text /\ c.inner \in Inner
  BY DEF Cursor
<1>2. p \in Inner
  BY <1>1, InnerAssumption
<1> HIDE DEF p
<1>3. [c EXCEPT !.inner = p] \in Cursor
      /\ SameBlocks(c, [c EXCEPT !.inner = p])
  BY <1>2 DEF Cursor, SameBlocks
<1>4. QED
  BY <1>3 DEF p

(***************************************************************************)
(* So does update_mode_with_line.                                          *)
(***************************************************************************)
LEMMA KeepsUpdate ==
  ASSUME NEW ls \in Seq(Text), NEW c \in Cursor, NEW i \in Nat, i < Len(ls)
  PROVE  KeepsCommitted(c, UpdateMode(ls, c, i))
<1>0. ls[i + 1] \in Text
  OBVIOUS
<1>1. SameBlocks(c, c)
  BY DEF SameBlocks
<1>2. CASE c.mode = "Unknown"
  <2> DEFINE e == StartAt(c, ls[i + 1])
  <2>1. SameBlocks(c, e)
    BY <1>0, StartAtKeeps
  <2>2. e \in Cursor
    BY <2>1 DEF SameBlocks
  <2>3. UpdateMode(ls, c, i) = CommitSingleLine(ls, e, i)
    BY <1>2 DEF UpdateMode
  <2> HIDE DEF e
  <2>4. KeepsCommitted(e, CommitSingleLine(ls, e, i))
    BY <2>2, KeepsSingleLine
  <2>5. QED
    BY <2>1, <2>3, <2>4, KeepsSame, KeepsTwice
<1>3. CASE c.mode = "CodeFence"
  <2>1. UpdateMode(ls, c, i) = CloseFence(ls, c, i)
    BY <1>3 DEF UpdateMode
  <2>2. QED
    BY <1>1, <2>1, KeepsSame, KeepsCommit DEF CloseFence
<1>4. CASE c.mode \in {"CustomBoundary", "MathBlock", "HtmlBlock"}
  <2> DEFINE e == [c EXCEPT !.inner = Scan[<<c.inner, ls[i + 1]>>]]
  <2>1. SameBlocks(c, e) /\ e \in Cursor
    BY KeepsScan
  <2>2. UpdateMode(ls, c, i) = IF e.inner \in Shut
                               THEN Commit(ls, e, i) ELSE e
    BY <1>4 DEF UpdateMode, CloseOnLine
  <2> HIDE DEF e
  <2>3. KeepsCommitted(e, Commit(ls, e, i)) /\ KeepsCommitted(c, e)
    BY <2>1, KeepsSame, KeepsCommit
  <2>4. QED
    BY <2>2, <2>3, KeepsTwice
<1>5. CASE c.mode = "Paragraph"
  <2> DEFINE e == [c EXCEPT !.mode = "Heading"]
             f == [c EXCEPT !.mode = "Table"]
  <2>1. SameBlocks(c, e) /\ SameBlocks(c, f) /\ e \in Cursor
    BY DEF SameBlocks, Cursor, Mode
  <2>2. \/ UpdateMode(ls, c, i) = Commit(ls, e, i)
        \/ UpdateMode(ls, c, i) = f
        \/ UpdateMode(ls, c, i) = c
    BY <1>5 DEF UpdateMode, UpgradeParagraph
  <2> HIDE DEF e, f
  <2>3. KeepsCommitted(e, Commit(ls, e, i)) /\ KeepsCommitted(c, e)
        /\ KeepsCommitted(c, f) /\ KeepsCommitted(c, c)
    BY <1>1, <2>1, KeepsSame, KeepsCommit
  <2>4. QED
    BY <2>2, <2>3, KeepsTwice
<1>6. CASE ~(c.mode \in {"Unknown", "CodeFence", "CustomBoundary",
                         "MathBlock", "HtmlBlock", "Paragraph"})
  <2>1. UpdateMode(ls, c, i) = c
    BY <1>6 DEF UpdateMode
  <2>2. QED
    BY <1>1, <2>1, KeepsSame
<1>7. QED
  BY <1>2, <1>3, <1>4, <1>5, <1>6

(***************************************************************************)
(* process_line and process_incomplete_tail_boundary; line 0 is scanned    *)
(* only as the first line of the current block.                            *)
(***************************************************************************)
LEMMA KeepsOpen ==
  ASSUME NEW ls \in Seq(Text), NEW c \in Cursor, NEW i \in Nat, i < Len(ls)
  PROVE  KeepsCommitted(c, OpenBlock(ls, c, i))
<1> DEFINE e == StartAt(c, ls[i + 1])
           f == CommitSingleLine(ls, e, i)
<1>1. ls[i + 1] \in Text
  OBVIOUS
<1>2. SameBlocks(c, e)
  BY <1>1, StartAtKeeps
<1>3. e \in Cursor /\ KeepsCommitted(c, e)
  BY <1>2, KeepsSame DEF SameBlocks
<1>4. OpenBlock(ls, c, i) = UpdateMode(ls, f, i)
  BY DEF OpenBlock
<1> HIDE DEF e
<1>5. KeepsCommitted(e, f)
  BY <1>3, KeepsSingleLine
<1>6. f \in Cursor
  BY <1>5 DEF KeepsCommitted
<1> HIDE DEF f
<1>7. KeepsCommitted(f, UpdateMode(ls, f, i))
  BY <1>6, KeepsUpdate
<1>8. QED
  BY <1>3, <1>4, <1>5, <1>7, KeepsTwice

(***************************************************************************)
(* So does process_line.                                                   *)
(***************************************************************************)
LEMMA KeepsProcess ==
  ASSUME NEW ls \in Seq(Text), NEW c \in Cursor, NEW i \in Nat, i < Len(ls),
         i # c.start => i > 0
  PROVE  KeepsCommitted(c, Process(ls, c, i))
<1>1. CASE i = c.start
  BY <1>1, KeepsOpen DEF Process
<1>2. CASE i # c.start /\ Boundary(ls, c, i)
  <2> DEFINE e == Commit(ls, c, i - 1)
  <2>1. i - 1 \in Nat /\ i - 1 < Len(ls)
    BY <1>2
  <2>2. KeepsCommitted(c, e)
    BY <2>1, KeepsCommit
  <2>3. e \in Cursor
    BY <2>2 DEF KeepsCommitted
  <2>4. Process(ls, c, i) = OpenBlock(ls, e, i)
    BY <1>2 DEF Process
  <2> HIDE DEF e
  <2>5. KeepsCommitted(e, OpenBlock(ls, e, i))
    BY <2>3, KeepsOpen
  <2>6. QED
    BY <2>2, <2>4, <2>5, KeepsTwice
<1>3. CASE i # c.start /\ ~Boundary(ls, c, i)
  BY <1>3, KeepsUpdate DEF Process
<1>4. QED
  BY <1>1, <1>2, <1>3

(***************************************************************************)
(* So does process_incomplete_tail_boundary.                               *)
(***************************************************************************)
LEMMA KeepsTail ==
  ASSUME NEW ls \in Seq(Text), NEW c \in Cursor
  PROVE  KeepsCommitted(c, TailBoundary(ls, c))
<1> DEFINE last == Len(ls) - 1
           e == Commit(ls, c, last - 1)
<1>1. CASE last >= 1 /\ Boundary(ls, c, last)
  <2>1. last - 1 \in Nat /\ last - 1 < Len(ls) /\ ls[last + 1] \in Text
    BY <1>1
  <2>2. KeepsCommitted(c, e)
    BY <2>1, KeepsCommit
  <2>3. e \in Cursor
    BY <2>2 DEF KeepsCommitted
  <2>4. TailBoundary(ls, c) = StartAt(e, ls[last + 1])
    BY <1>1 DEF TailBoundary
  <2> HIDE DEF e, last
  <2>5. KeepsCommitted(e, StartAt(e, ls[last + 1]))
    BY <2>1, <2>3, StartAtKeeps, KeepsSame
  <2>6. QED
    BY <2>2, <2>4, <2>5, KeepsTwice
<1>2. CASE ~(last >= 1 /\ Boundary(ls, c, last))
  <2>1. TailBoundary(ls, c) = c /\ SameBlocks(c, c)
    BY <1>2 DEF TailBoundary, SameBlocks
  <2>2. QED
    BY <2>1, KeepsSame
<1>3. QED
  BY <1>1, <1>2

(***************************************************************************)
(* finalize: the pending block goes after the committed ones.              *)
(***************************************************************************)
LEMMA KeepsSettle ==
  ASSUME NEW ls \in Seq(Text), NEW c \in Cursor
  PROVE  KeepsCommitted(c, SettleMode(ls, c))
<1>1. CASE ~SingleMode /\ PendingOf(ls, c) # <<>> /\ c.mode = "Unknown"
  <2>1. c.start < Len(ls) /\ c.start \in Nat
    BY <1>1, CursorFields DEF PendingOf
  <2>2. ls[c.start + 1] \in Text
    BY <2>1
  <2>3. SettleMode(ls, c) = StartAt(c, ls[c.start + 1])
    BY <1>1 DEF SettleMode
  <2>4. QED
    BY <2>2, <2>3, StartAtKeeps, KeepsSame
<1>2. CASE ~(~SingleMode /\ PendingOf(ls, c) # <<>> /\ c.mode = "Unknown")
  <2>1. SettleMode(ls, c) = c /\ SameBlocks(c, c)
    BY <1>2 DEF SettleMode, SameBlocks
  <2>2. QED
    BY <2>1, KeepsSame
<1>3. QED
  BY <1>1, <1>2

(***************************************************************************)
(* What is pending is one block.                                           *)
(***************************************************************************)
LEMMA PendingOne ==
  ASSUME NEW ls \in Seq(Text), NEW c \in Cursor, PendingOf(ls, c) # <<>>
  PROVE  \E b \in Block : PendingOf(ls, c) = <<b>>
<1>0. c.start \in Nat /\ Len(ls) \in Nat /\ c.base \in Nat
  BY DEF Cursor
<1>1. CASE SingleMode
  <2> DEFINE b == [id |-> 1, kind |-> "Unknown", from |-> c.base, raw |-> ls]
  <2>1. b \in Block
    BY <1>0 DEF Block, Mode
  <2>2. PendingOf(ls, c) = <<b>>
    BY <1>1 DEF PendingOf
  <2>3. QED
    BY <2>1, <2>2
<1>2. CASE ~SingleMode
  <2>1. c.start < Len(ls)
    BY <1>0, <1>2 DEF PendingOf
  <2>2. QED
    BY <1>2, <2>1, PendingShape
<1>3. QED
  BY <1>1, <1>2

(***************************************************************************)
(* finalize appends the pending block to the committed ones.               *)
(***************************************************************************)
LEMMA KeepsRest ==
  ASSUME NEW ls \in Seq(Text), NEW c \in Cursor
  PROVE  KeepsCommitted(c, CommitRest(ls, c))
<1>0. /\ c.committed \in Seq(Block) /\ c.start \in Nat /\ Len(ls) \in Nat
      /\ c.base \in Nat
  BY DEF Cursor
<1>1. CASE PendingOf(ls, c) = <<>>
  <2>1. CommitRest(ls, c) = c /\ SameBlocks(c, c)
    BY <1>1 DEF CommitRest, SameBlocks
  <2>2. QED
    BY <2>1, KeepsSame
<1>2. CASE PendingOf(ls, c) # <<>>
  <2>1. PICK b \in Block : PendingOf(ls, c) = <<b>>
    BY <1>2, PendingOne
  <2> DEFINE done == c.committed \o <<b>>
             start == IF SingleMode THEN c.start ELSE Len(ls)
             e == [c EXCEPT !.committed = done, !.start = start]
  <2>2. CommitRest(ls, c) = e
    BY <1>2, <2>1 DEF CommitRest
  <2>3. done \in Seq(Block) /\ IsPrefixOf(c.committed, done)
    BY <1>0 DEF IsPrefixOf
  <2>4. start \in Nat
    BY <1>0
  <2> HIDE DEF done, start
  <2>5. e \in Cursor /\ e.committed = done
    BY <2>3, <2>4 DEF Cursor
  <2> HIDE DEF e
  <2>6. QED
    BY <2>2, <2>3, <2>5 DEF KeepsCommitted
<1>3. QED
  BY <1>1, <1>2

(***************************************************************************)
(* maybe_compact_buffer does not touch the committed blocks.               *)
(***************************************************************************)
LEMMA KeepsCompact ==
  ASSUME NEW ls \in Seq(Text), ls # <<>>, NEW c \in Cursor, NEW e,
         NEW n \in Nat, KeepsCommitted(c, e), Compact(ls, e, n)
  PROVE  /\ lines' \in Seq(Text) /\ lines' # <<>> /\ processed' \in Nat
         /\ KeepsCommitted(c, cur')
<1>1. e \in Cursor
  BY DEF KeepsCommitted
<1>2. /\ lines' \in Seq(Text) /\ lines' # <<>> /\ processed' \in Nat
      /\ cur' \in Cursor /\ cur'.committed = e.committed
  BY <1>1, CompactType
<1>3. QED
  BY <1>2 DEF KeepsCommitted

(***************************************************************************)
(* What every step does to the committed blocks, and to the type of the    *)
(* state.  Only reset and the switch to a single block drop a block.       *)
(***************************************************************************)
Drops ==
  \/ Reset
  \/ \E chunk \in Chunk, endsInCr \in BOOLEAN :
       AppendChunk(chunk, endsInCr) /\ EnterSingleBlock(lines')

(***************************************************************************)
(* Every step keeps the types, and the committed blocks unless it drops    *)
(* them.                                                                   *)
(***************************************************************************)
LEMMA KeepsStep ==
  ASSUME TypeOK, [Next]_vars
  PROVE  TypeOK' /\ (IsPrefixOf(Committed, Committed') \/ Drops)
<1>0. /\ lines \in Seq(Text) /\ lines # <<>> /\ processed \in Nat
      /\ cur \in Cursor /\ doc \in Seq(Text) /\ doc # <<>>
      /\ cur.committed \in Seq(Block) /\ Len(lines) \in Nat
      /\ SameBlocks(cur, cur)
  BY DEF TypeOK, Cursor, SameBlocks
<1>1. KeepsCommitted(cur, cur)
  BY <1>0, KeepsSame
<1>2. \A e : KeepsCommitted(cur, e) =>
               e \in Cursor /\ IsPrefixOf(cur.committed, e.committed)
  BY DEF KeepsCommitted
<1>3. IsPrefixOf(Committed, cur.committed)
  BY <1>1, <1>2 DEF Committed
<1>4. ASSUME NEW m \in Nat, NEW r \in BOOLEAN, NEW f \in BOOLEAN
      PROVE  [mark |-> m, reset |-> r, final |-> f]
               \in [mark : Nat, reset : BOOLEAN, final : BOOLEAN]
  OBVIOUS
<1>5. ASSUME NEW chunk \in Chunk, NEW endsInCr \in BOOLEAN,
             AppendChunk(chunk, endsInCr)
      PROVE  TypeOK' /\ (IsPrefixOf(Committed, Committed') \/ Drops)
  <2>1. /\ lines' = Extend(lines, chunk) /\ doc' = Extend(doc, chunk)
        /\ pendingCr' = endsInCr /\ detected' = (detected \/ Detects(chunk))
        /\ dirty' = (dirty \/ chunk # <<LastLine>>) /\ closed' = closed
        /\ EnterSingleBlock(lines') \/ EnterLoop
    BY <1>5 DEF AppendChunk
  <2>2. /\ lines' \in Seq(Text) /\ lines' # <<>>
        /\ doc' \in Seq(Text) /\ doc' # <<>>
    BY <1>0, <2>1, ExtendFacts
  <2>3. detected' \in BOOLEAN /\ dirty' \in BOOLEAN /\ closed' \in BOOLEAN
        /\ pendingCr' \in BOOLEAN
    BY <2>1 DEF TypeOK
  <2>4. CASE EnterSingleBlock(lines')
    <3>1. cur.base \in Nat
      BY <1>0, CursorFields
    <3>2. cur' \in Cursor
      BY <2>4, <3>1, FreshShape DEF EnterSingleBlock
    <3>3. processed' \in Nat
      BY <2>2, <2>4 DEF EnterSingleBlock
    <3>4. report' = [mark |-> 0, reset |-> TRUE, final |-> FALSE]
          /\ pc' = "idle"
      BY <2>4 DEF EnterSingleBlock
    <3>5. TypeOK'
      BY <2>2, <2>3, <3>2, <3>3, <3>4 DEF TypeOK
    <3>6. QED
      BY <1>5, <2>4, <3>5 DEF Drops
  <2>5. CASE EnterLoop
    <3>1. cur' = cur /\ processed' = processed /\ pc' = "lines"
          /\ report' = [mark |-> Len(cur.committed), reset |-> FALSE,
                        final |-> FALSE]
      BY <2>5 DEF EnterLoop
    <3>2. Len(cur.committed) \in Nat
      BY <1>0
    <3>3. report' \in [mark : Nat, reset : BOOLEAN, final : BOOLEAN]
      BY <1>4, <3>1, <3>2
    <3>4. TypeOK'
      BY <1>0, <2>2, <2>3, <3>1, <3>3 DEF TypeOK
    <3>5. QED
      BY <1>3, <3>1, <3>4 DEF Committed
  <2>6. QED
    BY <2>1, <2>4, <2>5
<1>6. CASE AppendNothing \/ FinalizeNothingNew
  <2>1. /\ UNCHANGED <<lines, processed, cur, pc, pendingCr, detected, dirty,
                       doc, closed>>
        /\ \/ report' = [mark |-> Len(cur.committed), reset |-> FALSE,
                         final |-> FALSE]
           \/ report' = [mark |-> Len(cur.committed), reset |-> FALSE,
                         final |-> TRUE]
    BY <1>6 DEF AppendNothing, FinalizeNothingNew, FinalReport
  <2>2. Len(cur.committed) \in Nat
    BY <1>0
  <2>3. report' \in [mark : Nat, reset : BOOLEAN, final : BOOLEAN]
    BY <1>4, <2>1, <2>2
  <2>4. QED
    BY <1>3, <2>1, <2>3 DEF TypeOK, Committed
<1>7. CASE ProcessLine
  <2>1. /\ UNCHANGED <<lines, pc, pendingCr, detected, dirty, report, doc,
                       closed>>
        /\ processed' = processed + 1 /\ processed < Len(lines) - 1
        /\ cur' = IF SingleMode THEN cur ELSE Process(lines, cur, processed)
        /\ ~SingleMode => ~FaultsOnLine(lines, cur, processed)
    BY <1>7 DEF ProcessLine, MoreLines
  <2>2. KeepsCommitted(cur, cur')
    <3>1. CASE SingleMode
      BY <1>1, <2>1, <3>1
    <3>2. CASE ~SingleMode
      <4>1. processed # cur.start => processed > 0
        BY <1>0, <2>1, <3>2 DEF FaultsOnLine
      <4>2. processed < Len(lines)
        BY <1>0, <2>1
      <4>3. QED
        BY <1>0, <2>1, <3>2, <4>1, <4>2, KeepsProcess
    <3>3. QED
      BY <3>1, <3>2
  <2>3. cur' \in Cursor /\ IsPrefixOf(cur.committed, cur'.committed)
    BY <2>2 DEF KeepsCommitted
  <2>4. QED
    BY <2>1, <2>3 DEF TypeOK, Committed
<1>8. CASE FinishAppend
  <2> DEFINE c == IF SingleMode THEN cur ELSE TailBoundary(lines, cur)
  <2>1. /\ Compact(lines, c, processed)
        /\ dirty' = (dirty /\ lines' # <<EmptyText>>)
        /\ pc' = "idle"
        /\ UNCHANGED <<pendingCr, detected, report, doc, closed>>
    BY <1>8 DEF FinishAppend
  <2>2. KeepsCommitted(cur, c)
    BY <1>0, <1>1, KeepsTail
  <2> HIDE DEF c
  <2>3. /\ lines' \in Seq(Text) /\ lines' # <<>> /\ processed' \in Nat
        /\ KeepsCommitted(cur, cur')
    BY <1>0, <2>1, <2>2, KeepsCompact
  <2>4. cur' \in Cursor /\ IsPrefixOf(cur.committed, cur'.committed)
    BY <2>3 DEF KeepsCommitted
  <2>5. QED
    BY <2>1, <2>3, <2>4 DEF TypeOK, Committed
<1>9. CASE IndexFault
  <2>1. /\ UNCHANGED <<lines, processed, cur, pendingCr, detected, dirty,
                       report, doc, closed>>
        /\ pc' = "panicked"
    BY <1>9 DEF IndexFault
  <2>2. QED
    BY <1>3, <2>1 DEF TypeOK, Committed
<1>10. CASE Finalize
  <2> DEFINE ls == FinalLines(lines)
             c == SettleMode(ls, cur)
  <2>1. /\ ls \in Seq(Text) /\ ls # <<>>
        /\ FinalLines(doc) \in Seq(Text) /\ FinalLines(doc) # <<>>
    BY <1>0, FinalLinesFacts
  <2>2. KeepsCommitted(cur, c)
    BY <1>0, <2>1, KeepsSettle
  <2>3. c \in Cursor
    BY <2>2 DEF KeepsCommitted
  <2>4. /\ \/ /\ lines' = ls /\ cur' = c /\ dirty' = TRUE
              /\ processed' = processed /\ closed' = closed
           \/ /\ Compact(ls, CommitRest(ls, c), processed)
              /\ dirty' = FALSE
              /\ closed' = (closed \/ PendingOf(ls, c) # <<>>)
        /\ doc' = FinalLines(doc) /\ pendingCr' = FALSE
        /\ report' = [mark |-> Len(cur.committed), reset |-> FALSE,
                      final |-> TRUE]
        /\ UNCHANGED <<pc, detected>>
    BY <1>10 DEF Finalize, FinalReport
  <2> HIDE DEF ls, c
  <2>5. KeepsCommitted(cur, CommitRest(ls, c))
    BY <1>0, <2>1, <2>2, <2>3, KeepsRest, KeepsTwice
  <2>6. /\ lines' \in Seq(Text) /\ lines' # <<>> /\ processed' \in Nat
        /\ KeepsCommitted(cur, cur')
    BY <1>0, <2>1, <2>2, <2>4, <2>5, KeepsCompact
  <2>7. cur' \in Cursor /\ IsPrefixOf(cur.committed, cur'.committed)
    BY <2>6 DEF KeepsCommitted
  <2>8. Len(cur.committed) \in Nat
    BY <1>0
  <2>9. report' \in [mark : Nat, reset : BOOLEAN, final : BOOLEAN]
    BY <1>4, <2>4, <2>8
  <2>10. dirty' \in BOOLEAN /\ closed' \in BOOLEAN
    BY <2>4 DEF TypeOK
  <2>11. QED
    BY <2>1, <2>4, <2>6, <2>7, <2>9, <2>10 DEF TypeOK, Committed
<1>11. CASE Reset
  <2>1. /\ pc' = pc /\ lines' = <<EmptyText>> /\ processed' = 0
        /\ cur' = FreshCursor(0) /\ pendingCr' = FALSE /\ detected' = FALSE
        /\ dirty' = FALSE /\ doc' = <<EmptyText>> /\ closed' = FALSE
        /\ report' = [mark |-> 0, reset |-> FALSE, final |-> FALSE]
    BY <1>11 DEF Reset
  <2>2. TypeOK'
    BY <2>1, FreshShape, EmptyDocument DEF TypeOK
  <2>3. QED
    BY <1>11, <2>2 DEF Drops
<1>12. CASE UNCHANGED vars
  BY <1>3, <1>12 DEF vars, TypeOK, Committed
<1>13. QED
  BY <1>5, <1>6, <1>7, <1>8, <1>9, <1>10, <1>11, <1>12 DEF Next, NextOn

(***************************************************************************)
(* The type invariant holds for every caller, also one that goes on after  *)
(* a finalize, and in the state in which an index was out of range.        *)
(***************************************************************************)
THEOREM TypeCorrect == Spec => []TypeOK
<1>1. Init => TypeOK
  BY InitKeeps DEF IInv
<1>2. TypeOK /\ [Next]_vars => TypeOK'
  BY KeepsStep
<1>3. QED
  BY <1>1, <1>2, PTL DEF Spec

(***************************************************************************)
(* No step drops or changes a committed block but reset, and the switch to *)
(* a single block, whose Update says so.                                   *)
(***************************************************************************)
THEOREM CommittedIsStable == Spec => CommittedStable
<1>1. TypeOK /\ [Next]_vars
        => [\/ IsPrefixOf(Committed, Committed')
            \/ doc' = <<EmptyText>> /\ ~detected'
            \/ report'.reset]_vars
  <2>1. ASSUME Drops
        PROVE  (doc' = <<EmptyText>> /\ ~detected') \/ report'.reset
    BY <2>1 DEF Drops, Reset, EnterSingleBlock
  <2>2. QED
    BY <2>1, KeepsStep
<1>2. QED
  BY <1>1, TypeCorrect, PTL DEF Spec, CommittedStable

-----------------------------------------------------------------------------
(***************************************************************************)
(* After the finalize of a document that is split into blocks nothing is   *)
(* pending any more.                                                       *)
(***************************************************************************)
SnapshotInv == closed /\ ~SingleMode => PendingOf(lines, cur) = <<>>

(***************************************************************************)
(* Every step keeps SnapshotInv.                                           *)
(***************************************************************************)
LEMMA SnapshotInvKept ==
  ASSUME ResetAfterFinalize, IInv, SnapshotInv, [Next]_vars
  PROVE  SnapshotInv'
<1> SUFFICES ASSUME closed', ~SingleMode'
             PROVE  PendingOf(lines, cur)' = <<>>
  BY DEF SnapshotInv
<1>0. closed \in BOOLEAN
  BY DEF IInv, TypeOK
<1>1. CASE closed
  <2>1. pc = "idle" /\ NothingNew
    BY <1>1 DEF IInv, ClosedInv, NothingNew
  <2>2. ~Reset
    BY DEF Reset
  <2>3. UNCHANGED <<lines, cur, detected>>
    BY <1>1, <2>1, <2>2 DEF Next, NextOn, vars, AppendChunk, AppendNothing,
       MayAppend, ProcessLine, FinishAppend, IndexFault, FinalizeNothingNew,
       Finalize
  <2>4. ~SingleMode
    BY <2>3 DEF SingleMode
  <2>5. PendingOf(lines, cur) = <<>>
    BY <1>1, <2>4 DEF SnapshotInv
  <2>6. QED
    BY <2>3, <2>4, <2>5 DEF PendingOf, SingleMode
<1>2. CASE ~closed
  <2>1. Finalize
    BY <1>0, <1>2 DEF Next, NextOn, vars, AppendChunk, AppendNothing,
       ProcessLine, FinishAppend, IndexFault, FinalizeNothingNew, Reset
  <2>2. ~SingleMode
    BY <2>1 DEF Finalize, SingleMode
  <2> DEFINE ls == FinalLines(lines)
             c == SettleMode(ls, cur)
             e == CommitRest(ls, c)
  <2>3. /\ PendingOf(ls, c) # <<>> /\ Compact(ls, e, processed)
    BY <2>1, FinalizeCases
  <2>4. /\ ls \in Seq(Text) /\ cur \in Cursor
    BY <2>1, FinalizeOpen
  <2> HIDE DEF ls
  <2>5. c \in Cursor
    BY <2>4, KeepsSettle DEF KeepsCommitted
  <2> HIDE DEF c
  <2>6. e.start = Len(ls)
    <3>1. e = [c EXCEPT !.committed = c.committed \o PendingOf(ls, c),
                        !.start = Len(ls)]
      BY <2>2, <2>3 DEF CommitRest
    <3>2. QED
      BY <2>5, <3>1 DEF Cursor
  <2>7. e \in Cursor /\ Len(ls) \in Nat
    BY <2>4, <2>5, KeepsRest DEF KeepsCommitted
  <2> HIDE DEF e
  <2>8. CASE ~Compacts(ls, e)
    <3>1. lines' = ls /\ cur' = e
      BY <2>3, <2>8 DEF Compact
    <3>2. QED
      BY <2>6, <2>7, <3>1 DEF PendingOf
  <2>9. CASE Compacts(ls, e)
    <3>1. lines' = <<EmptyText>>
      BY <2>3, <2>6, <2>7, <2>9 DEF Compact, KeptLines
    <3>2. cur'.start = 0
      BY <2>3, <2>7, <2>9 DEF Compact, Cursor
    <3>3. LinesOf(<<EmptyText>>, 0, 0) = <<EmptyText>>
      <4>1. SubSeq(<<EmptyText>>, 1, Len(<<EmptyText>>)) = <<EmptyText>>
        BY EmptyDocument, SubSeqFull
      <4>2. QED
        BY <4>1 DEF LinesOf
    <3>4. Len(<<EmptyText>>) - 1 = 0
      OBVIOUS
    <3>5. QED
      BY <3>1, <3>2, <3>3, <3>4 DEF PendingOf
  <2>10. QED
    BY <2>8, <2>9
<1>3. QED
  BY <1>0, <1>1, <1>2

(***************************************************************************)
(* The ids of a snapshot are distinct, but for the snapshot of a finalized *)
(* single block, which shows it once more as pending.                      *)
(***************************************************************************)
LEMMA SnapshotIds ==
  ASSUME IInv, SnapshotInv, ~(closed /\ SingleMode)
  PROVE  SnapshotIdsDistinct
<1> DEFINE done == cur.committed
           rest == PendingOf(lines, cur)
<1>1. /\ lines \in Seq(Text) /\ cur \in Cursor /\ done \in Seq(Block)
      /\ closed \in BOOLEAN /\ Len(done) \in Nat
  BY DEF IInv, TypeOK, Cursor
<1>2. CASE rest = <<>> /\ Increasing(done)
  <2>1. SnapshotBlocks = done
    BY <1>1, <1>2 DEF SnapshotBlocks
  <2> HIDE DEF done
  <2>2. ASSUME NEW k \in DOMAIN done, NEW l \in DOMAIN done,
               done[k].id = done[l].id
        PROVE  k = l
    <3>1. k \in 1..Len(done) /\ l \in 1..Len(done)
      BY <1>1, <2>2
    <3>2. done[k].id \in Nat
      <4>1. done[k] \in Block
        BY <1>1, <3>1
      <4>2. QED
        BY <4>1 DEF Block
    <3>3. ~(k < l) /\ ~(l < k)
      BY <1>2, <2>2, <3>1, <3>2 DEF Increasing
    <3>4. QED
      BY <3>1, <3>3
  <2>3. QED
    BY <2>1, <2>2 DEF SnapshotIdsDistinct
<1>3. CASE closed
  <2>1. rest = <<>> /\ Increasing(done)
    BY <1>3 DEF SnapshotInv, IInv, ClosedInv
  <2>2. QED
    BY <1>2, <2>1
<1>4. CASE ~closed /\ SingleMode
  <2>1. done = <<>>
    BY <1>4 DEF IInv, SingleInv
  <2>2. CASE rest = <<>>
    BY <1>2, <2>1, <2>2 DEF Increasing
  <2>3. CASE rest # <<>>
    <3>1. PICK b : rest = <<b>>
      BY <1>4, <2>3 DEF PendingOf
    <3>2. SnapshotBlocks = <<b>>
      BY <2>1, <3>1 DEF SnapshotBlocks
    <3>3. DOMAIN <<b>> = {1}
      OBVIOUS
    <3>4. QED
      BY <3>2, <3>3 DEF SnapshotIdsDistinct
  <2>4. QED
    BY <2>2, <2>3
<1>5. CASE ~closed /\ ~SingleMode
  <2>1. Sound(lines, doc, cur, processed)
    BY <1>5 DEF IInv, OpenInv
  <2>2. Increasing(done) /\ AllBelow(done, cur.id)
    BY <2>1 DEF Sound
  <2>3. CASE rest = <<>>
    BY <1>2, <2>2, <2>3
  <2>4. CASE rest # <<>>
    <3>1. cur.start < Len(lines) /\ cur.id \in Nat
      BY <1>1, <1>5, <2>4, CursorFields DEF PendingOf
    <3>2. PICK b \in Block : rest = <<b>> /\ b.id = cur.id
      BY <1>1, <1>5, <2>4, <3>1, PendingShape
    <3>3. SnapshotBlocks = Append(done, b)
      BY <1>1, <3>2 DEF SnapshotBlocks
    <3> DEFINE all == Append(done, b)
    <3>4. /\ DOMAIN all = 1..Len(done) + 1
          /\ all[Len(done) + 1] = b
          /\ \A k \in 1..Len(done) : all[k] = done[k]
      BY <1>1, <3>2, AppendProperties
    <3> HIDE DEF all, rest
    <3>5. ASSUME NEW k \in 1..Len(done) + 1, NEW l \in 1..Len(done) + 1,
                 k < l
          PROVE  all[k].id # all[l].id
      <4>1. k \in 1..Len(done) /\ all[k] = done[k]
        BY <1>1, <3>4, <3>5
      <4>2. done[k].id \in Nat
        <5>1. done[k] \in Block
          BY <1>1, <4>1
        <5>2. QED
          BY <5>1 DEF Block
      <4>3. CASE l = Len(done) + 1
        <5>1. all[l].id = cur.id
          BY <3>2, <3>4, <4>3
        <5>2. done[k].id < cur.id
          BY <2>2, <4>1 DEF AllBelow
        <5>3. QED
          BY <3>1, <4>1, <4>2, <5>1, <5>2
      <4>4. CASE l \in 1..Len(done)
        <5>1. all[l] = done[l]
          BY <3>4, <4>4
        <5>2. done[k].id < done[l].id
          BY <2>2, <3>5, <4>1, <4>4 DEF Increasing
        <5>3. done[l].id \in Nat
          <6>1. done[l] \in Block
            BY <1>1, <4>4
          <6>2. QED
            BY <6>1 DEF Block
        <5>4. QED
          BY <4>1, <4>2, <5>1, <5>2, <5>3
      <4>5. QED
        BY <1>1, <4>3, <4>4
    <3>6. ASSUME NEW k \in 1..Len(done) + 1, NEW l \in 1..Len(done) + 1,
                 all[k].id = all[l].id
          PROVE  k = l
      <4>1. ~(k < l) /\ ~(l < k)
        BY <3>5, <3>6
      <4>2. QED
        BY <4>1
    <3>7. SnapshotBlocks = all
      BY <3>3 DEF all
    <3>8. QED
      BY <3>4, <3>6, <3>7 DEF SnapshotIdsDistinct
  <2>5. QED
    BY <2>3, <2>4
<1>6. QED
  BY <1>1, <1>3, <1>4, <1>5

(***************************************************************************)
(* A snapshot never shows two blocks with one id, unless a single block    *)
(* has been finalized: then the snapshot shows the document twice.         *)
(***************************************************************************)
THEOREM SnapshotIdsAreDistinct ==
  ASSUME ResetAfterFinalize, SingleBlock => MaxBufferBytes = {}
  PROVE  Spec => []((closed /\ SingleMode) \/ SnapshotIdsDistinct)
<1>1. Init => SnapshotInv
  BY DEF Init, SnapshotInv
<1>2. IInv /\ SnapshotInv /\ [Next]_vars => SnapshotInv'
  BY SnapshotInvKept
<1>3. IInv /\ SnapshotInv => (closed /\ SingleMode) \/ SnapshotIdsDistinct
  BY SnapshotIds
<1>4. QED
  BY <1>1, <1>2, <1>3, StreamInvariant, PTL DEF Spec

-----------------------------------------------------------------------------
(***************************************************************************)
(* f[j] is the payload after line j of those that follow the first start   *)
(* lines of ls.                                                            *)
(***************************************************************************)
IsPayload(f, ls, start, m) ==
  \A j \in 1..m :
    f[j] = Scan[<<IF j = 1 THEN Enter[ls[start + 1]] ELSE f[j - 1],
                  ls[start + j]>>]

(***************************************************************************)
(* PayloadAt is the only such function.                                    *)
(***************************************************************************)
LEMMA PayloadIs ==
  ASSUME NEW b, Len(b.raw) \in Nat, NEW f,
         IsPayload(f, b.raw, 0, Len(b.raw))
  PROVE  \A j \in 1..Len(b.raw) : PayloadAt(b)[j] = f[j]
<1> DEFINE N == Len(b.raw)
           IsRead(g) == g = [j \in 1..N |->
                Scan[<<IF j = 1 THEN Enter[b.raw[1]] ELSE g[j - 1],
                       b.raw[j]>>]]
           h == [j \in 1..N |-> f[j]]
           k == [j \in 1..N |->
                   Scan[<<IF j = 1 THEN Enter[b.raw[1]] ELSE h[j - 1],
                          b.raw[j]>>]]
           g == CHOOSE g : IsRead(g)
<1>0. ASSUME NEW j \in 1..N
      PROVE  f[j] = Scan[<<IF j = 1 THEN Enter[b.raw[1]] ELSE f[j - 1],
                           b.raw[j]>>]
  <2>1. 0 + j = j /\ 0 + 1 = 1
    OBVIOUS
  <2>2. QED
    BY <2>1 DEF IsPayload
<1>1. ASSUME NEW j \in 1..N
      PROVE  h[j] = k[j]
  <2>1. CASE j = 1
    BY <1>0, <2>1
  <2>2. CASE j # 1
    <3>1. j - 1 \in 1..N
      BY <2>2
    <3>2. h[j - 1] = f[j - 1]
      BY <3>1
    <3>3. QED
      BY <1>0, <2>2, <3>2
  <2>3. QED
    BY <2>1, <2>2
<1>2. h = k
  BY <1>1
<1>3. IsRead(h)
  BY <1>2
<1>4. IsRead(g)
  BY <1>3
<1>5. PayloadAt(b) = g
  BY DEF PayloadAt
<1> DEFINE S == {n \in Nat : n \in 1..N => g[n] = f[n]}
<1>6. 0 \in S
  OBVIOUS
<1>7. ASSUME NEW n \in Nat, n \in S
      PROVE  n + 1 \in S
  <2>1. SUFFICES ASSUME n + 1 \in 1..N
                 PROVE  g[n + 1] = f[n + 1]
    OBVIOUS
  <2> HIDE DEF g
  <2>2. g[n + 1] = Scan[<<IF n + 1 = 1 THEN Enter[b.raw[1]]
                          ELSE g[(n + 1) - 1], b.raw[n + 1]>>]
    BY <1>4, <2>1
  <2>3. f[n + 1] = Scan[<<IF n + 1 = 1 THEN Enter[b.raw[1]]
                          ELSE f[(n + 1) - 1], b.raw[n + 1]>>]
    BY <1>0, <2>1
  <2>4. n + 1 # 1 => g[(n + 1) - 1] = f[(n + 1) - 1]
    <3>1. n + 1 # 1 => n \in 1..N /\ (n + 1) - 1 = n
      BY <2>1
    <3>2. QED
      BY <1>7, <3>1
  <2>5. QED
    BY <2>2, <2>3, <2>4
<1> HIDE DEF S
<1>8. \A n \in Nat : n \in S
  BY <1>6, <1>7, NatInductive
<1>9. QED
  BY <1>5, <1>8 DEF S

(***************************************************************************)
(* What the current block has read of its first lines, n of ls being       *)
(* scanned: a fence has met no closing line, an HTML or math block still   *)
(* has something open.                                                     *)
(***************************************************************************)
FenceOpen(ls, c, n) ==
  /\ c.inner = Enter[ls[c.start + 1]]
  /\ \A j \in c.start + 2 .. n : Scan[<<c.inner, ls[j]>>] \notin Shut

ReadSoFar(ls, c, n, f) ==
  /\ IsPayload(f, ls, c.start, n - c.start)
  /\ c.inner = f[n - c.start]
  /\ \A j \in 1 .. n - c.start : f[j] \notin Shut

StillOpen(ls, c, n) ==
  /\ c.mode = "CodeFence" => FenceOpen(ls, c, n)
  /\ c.mode \in {"HtmlBlock", "MathBlock"} => \E f : ReadSoFar(ls, c, n, f)

Ending(blocks) == \A k \in 1..Len(blocks) : EndsRight(blocks[k])

ReadRight(ls, c, n) ==
  /\ Ending(c.committed)
  /\ c.start < n => StillOpen(ls, c, n)

(***************************************************************************)
(* A block that commit_block makes of the lines up to end.                 *)
(***************************************************************************)
LEMMA EndsOther ==
  ASSUME NEW c, NEW raw,
         c.mode \notin {"CodeFence", "HtmlBlock", "MathBlock"}
  PROVE  EndsRight(BlockAt(c, raw))
BY DEF EndsRight, BlockAt, KindForMode

(***************************************************************************)
(* A code fence that its last line closes.                                 *)
(***************************************************************************)
LEMMA EndsFence ==
  ASSUME NEW ls \in Seq(Text), NEW c \in Cursor, NEW i \in Nat, i < Len(ls),
         c.start < i, c.mode = "CodeFence", FenceOpen(ls, c, i),
         Scan[<<c.inner, ls[i + 1]>>] \in Shut
  PROVE  EndsRight(BlockAt(c, LinesOf(ls, c.start, i)))
<1> DEFINE raw == LinesOf(ls, c.start, i)
           b == BlockAt(c, raw)
<1>1. c.start \in Nat
  BY CursorFields
<1>2. /\ Len(raw) = i + 1 - c.start
      /\ \A j \in 1..Len(raw) : raw[j] = ls[c.start + j]
  BY <1>1, CommitShape
<1>3. b.kind = "CodeFence" /\ b.raw = raw
  BY DEF BlockAt, KindForMode
<1> HIDE DEF b, raw
<1>4. raw[1] = ls[c.start + 1]
  <2>1. 1 \in 1..Len(raw)
    BY <1>1, <1>2
  <2>2. QED
    BY <1>2, <2>1
<1>5. ASSUME NEW j \in 1..Len(raw)
      PROVE  CompletedAt(b, j) <=> j = Len(raw)
  <2>1. CompletedAt(b, j) <=> j > 1 /\ Scan[<<c.inner, raw[j]>>] \in Shut
    BY <1>3, <1>4 DEF CompletedAt, FenceOpen
  <2>2. CASE j = Len(raw)
    <3>1. j > 1 /\ c.start + j = i + 1
      BY <1>1, <1>2, <2>2
    <3>2. raw[j] = ls[i + 1]
      BY <1>2, <3>1
    <3>3. QED
      BY <2>1, <2>2, <3>1, <3>2
  <2>3. CASE j # Len(raw) /\ j > 1
    <3>1. c.start + j \in c.start + 2 .. i
      BY <1>1, <1>2, <2>3
    <3>2. Scan[<<c.inner, raw[j]>>] \notin Shut
      BY <1>2, <3>1 DEF FenceOpen
    <3>3. QED
      BY <2>1, <2>3, <3>2
  <2>4. CASE j # Len(raw) /\ j = 1
    BY <2>1, <2>4
  <2>5. QED
    BY <2>2, <2>3, <2>4
<1>6. QED
  BY <1>3, <1>5 DEF EndsRight, b, raw

(***************************************************************************)
(* An HTML or math block that its last line completes.                     *)
(***************************************************************************)
LEMMA EndsPayload ==
  ASSUME NEW ls \in Seq(Text), NEW c \in Cursor, NEW i \in Nat, i < Len(ls),
         c.start <= i, c.mode \in {"HtmlBlock", "MathBlock"}, NEW f,
         IsPayload(f, ls, c.start, i + 1 - c.start),
         \A j \in 1 .. i - c.start : f[j] \notin Shut,
         f[i + 1 - c.start] \in Shut
  PROVE  EndsRight(BlockAt(c, LinesOf(ls, c.start, i)))
<1> DEFINE raw == LinesOf(ls, c.start, i)
           b == BlockAt(c, raw)
<1>1. c.start \in Nat
  BY CursorFields
<1>2. /\ Len(raw) = i + 1 - c.start
      /\ \A j \in 1..Len(raw) : raw[j] = ls[c.start + j]
  BY <1>1, CommitShape
<1>3. b.kind \in {"HtmlBlock", "MathBlock"} /\ b.raw = raw
  BY DEF BlockAt, KindForMode
<1> HIDE DEF b, raw
<1>4. Len(raw) \in Nat /\ 1 \in 1..Len(raw)
  BY <1>1, <1>2
<1>5. IsPayload(f, raw, 0, Len(raw))
  <2>1. ASSUME NEW j \in 1..Len(raw)
        PROVE  f[j] = Scan[<<IF j = 1 THEN Enter[raw[0 + 1]] ELSE f[j - 1],
                             raw[0 + j]>>]
    <3>1. f[j] = Scan[<<IF j = 1 THEN Enter[ls[c.start + 1]] ELSE f[j - 1],
                        ls[c.start + j]>>]
      BY <1>2 DEF IsPayload
    <3>2. raw[j] = ls[c.start + j] /\ raw[1] = ls[c.start + 1]
      BY <1>2, <1>4
    <3>3. 0 + j = j /\ 0 + 1 = 1
      OBVIOUS
    <3>4. QED
      BY <3>1, <3>2, <3>3
  <2>2. QED
    BY <2>1 DEF IsPayload
<1>6. \A j \in 1..Len(raw) : PayloadAt(b)[j] = f[j]
  <2>1. IsPayload(f, b.raw, 0, Len(b.raw)) /\ Len(b.raw) \in Nat
    BY <1>3, <1>4, <1>5
  <2>2. \A j \in 1..Len(b.raw) : PayloadAt(b)[j] = f[j]
    BY <2>1, PayloadIs
  <2>3. QED
    BY <1>3, <2>2
<1>7. ASSUME NEW j \in 1..Len(raw)
      PROVE  CompletedAt(b, j) <=> j = Len(raw)
  <2>1. CompletedAt(b, j) <=> f[j] \in Shut
    BY <1>3, <1>6 DEF CompletedAt
  <2>2. CASE j = Len(raw)
    BY <1>2, <2>1, <2>2
  <2>3. CASE j # Len(raw)
    <3>1. j \in 1 .. i - c.start
      BY <1>1, <1>2, <2>3
    <3>2. QED
      BY <2>1, <2>3, <3>1
  <2>4. QED
    BY <2>2, <2>3
<1>8. QED
  BY <1>3, <1>7 DEF EndsRight, b, raw

(***************************************************************************)
(* commit_block, of a block that ends right.                               *)
(***************************************************************************)
LEMMA EndingCommit ==
  ASSUME NEW ls \in Seq(Text), NEW c \in Cursor, NEW i \in Nat, i < Len(ls),
         c.start <= i + 1, Ending(c.committed),
         c.start <= i => EndsRight(BlockAt(c, LinesOf(ls, c.start, i)))
  PROVE  ReadRight(ls, Commit(ls, c, i), i + 1)
<1> DEFINE e == Commit(ls, c, i)
           b == BlockAt(c, LinesOf(ls, c.start, i))
<1>1. e.start = i + 1
  BY CommitAfter
<1>2. c.start \in Nat /\ c.committed \in Seq(Block)
  BY CursorFields
<1>3. Ending(e.committed)
  <2>1. CASE i < c.start
    BY <2>1, CommitLater
  <2>2. CASE c.start <= i
    <3>1. /\ \/ e.committed = c.committed
             \/ e.committed = Append(c.committed, b)
          /\ b \in Block
      BY <2>2, CommitShape
    <3>2. EndsRight(b)
      BY <2>2
    <3> HIDE DEF e, b
    <3> DEFINE done == Append(c.committed, b)
    <3>3. /\ Len(done) = Len(c.committed) + 1
          /\ done[Len(c.committed) + 1] = b
          /\ \A k \in 1..Len(c.committed) : done[k] = c.committed[k]
      BY <1>2, <3>1, AppendProperties
    <3> HIDE DEF done
    <3>4. Len(c.committed) \in Nat
      BY <1>2
    <3>5. ASSUME NEW k \in 1..Len(done)
          PROVE  EndsRight(done[k])
      <4>1. CASE k = Len(c.committed) + 1
        BY <3>2, <3>3, <4>1
      <4>2. CASE k \in 1..Len(c.committed)
        BY <3>3, <4>2 DEF Ending
      <4>3. QED
        BY <3>3, <3>4, <4>1, <4>2
    <3>6. Ending(done)
      BY <3>5 DEF Ending
    <3>7. QED
      BY <3>1, <3>6 DEF done
  <2>3. QED
    BY <1>2, <2>1, <2>2
<1>4. QED
  BY <1>1, <1>3 DEF ReadRight

(***************************************************************************)
(* The payload of an HTML or math block after one line more.               *)
(***************************************************************************)
LEMMA PayloadGrows ==
  ASSUME NEW ls \in Seq(Text), NEW c \in Cursor, NEW i \in Nat,
         c.start <= i,
         c.start < i => \E f : ReadSoFar(ls, c, i, f),
         c.start = i => c.inner = Enter[ls[i + 1]],
         NEW p, p = Scan[<<c.inner, ls[i + 1]>>]
  PROVE  \E f : /\ IsPayload(f, ls, c.start, i + 1 - c.start)
                /\ \A j \in 1 .. i - c.start : f[j] \notin Shut
                /\ f[i + 1 - c.start] = p
<1>0. c.start \in Nat
  BY CursorFields
<1>1. CASE c.start = i
  <2> DEFINE f == [j \in 1..1 |-> p]
  <2>1. i + 1 - c.start = 1 /\ i - c.start = 0 /\ c.start + 1 = i + 1
    BY <1>0, <1>1
  <2>2. IsPayload(f, ls, c.start, 1)
    BY <1>1, <2>1 DEF IsPayload
  <2>3. f[1] = p
    OBVIOUS
  <2> HIDE DEF f
  <2>4. QED
    BY <2>1, <2>2, <2>3
<1>2. CASE c.start < i
  <2>1. PICK f : ReadSoFar(ls, c, i, f)
    BY <1>2
  <2> DEFINE m == i - c.start
             g == [j \in 1..m + 1 |-> IF j <= m THEN f[j] ELSE p]
  <2>2. m \in Nat /\ m >= 1 /\ i + 1 - c.start = m + 1
        /\ c.start + (m + 1) = i + 1
    BY <1>0, <1>2
  <2>3. /\ IsPayload(f, ls, c.start, m) /\ c.inner = f[m]
        /\ \A j \in 1..m : f[j] \notin Shut
    BY <2>1 DEF ReadSoFar
  <2> HIDE DEF m
  <2>4. /\ \A j \in 1..m : g[j] = f[j]
        /\ g[m + 1] = p
    BY <2>2
  <2> HIDE DEF g
  <2>5. ASSUME NEW j \in 1..m + 1
        PROVE  g[j] = Scan[<<IF j = 1 THEN Enter[ls[c.start + 1]]
                             ELSE g[j - 1], ls[c.start + j]>>]
    <3>1. CASE j \in 1..m
      <4>1. j # 1 => j - 1 \in 1..m
        BY <2>2, <3>1
      <4>2. f[j] = Scan[<<IF j = 1 THEN Enter[ls[c.start + 1]]
                          ELSE f[j - 1], ls[c.start + j]>>]
        BY <2>3, <3>1 DEF IsPayload
      <4>3. QED
        BY <2>4, <3>1, <4>1, <4>2
    <3>2. CASE j = m + 1
      <4>1. j # 1 /\ j - 1 = m /\ m \in 1..m
        BY <2>2, <3>2
      <4>2. g[j - 1] = c.inner
        BY <2>3, <2>4, <4>1
      <4>3. ls[c.start + j] = ls[i + 1]
        BY <2>2, <3>2
      <4>4. g[j] = p
        BY <2>4, <3>2
      <4>5. QED
        BY <4>1, <4>2, <4>3, <4>4
    <3>3. QED
      BY <2>2, <3>1, <3>2
  <2>6. IsPayload(g, ls, c.start, m + 1)
    BY <2>5 DEF IsPayload
  <2>7. \A j \in 1..m : g[j] \notin Shut
    BY <2>3, <2>4
  <2>8. QED
    BY <2>2, <2>4, <2>6, <2>7 DEF m
<1>3. c.start = i \/ c.start < i
  BY <1>0
<1>4. QED
  BY <1>1, <1>2, <1>3

(***************************************************************************)
(* A line that leaves something open has been read.                        *)
(***************************************************************************)
LEMMA ReadMore ==
  ASSUME NEW ls, NEW e \in Cursor, NEW i \in Nat, NEW f,
         IsPayload(f, ls, e.start, i + 1 - e.start),
         \A j \in 1 .. i - e.start : f[j] \notin Shut,
         f[i + 1 - e.start] = e.inner, e.inner \notin Shut
  PROVE  ReadSoFar(ls, e, i + 1, f)
<1>1. e.start \in Nat
  BY CursorFields
<1>2. ASSUME NEW j \in 1 .. i + 1 - e.start
      PROVE  f[j] \notin Shut
  <2>1. j = i + 1 - e.start \/ j \in 1 .. i - e.start
    BY <1>1
  <2>2. QED
    BY <2>1
<1>3. (i + 1) - e.start = i + 1 - e.start
  BY <1>1
<1>4. QED
  BY <1>2, <1>3 DEF ReadSoFar

(***************************************************************************)
(* update_mode_with_line reads a line into the current block, or completes *)
(* the block with it.                                                      *)
(***************************************************************************)
LEMMA UpdateReads ==
  ASSUME NEW ls \in Seq(Text), NEW c \in Cursor, NEW i \in Nat, i < Len(ls),
         c.start <= i, c.mode # "Unknown", Ending(c.committed),
         c.start < i => StillOpen(ls, c, i),
         c.start = i => c.inner = Enter[ls[i + 1]]
  PROVE  ReadRight(ls, UpdateMode(ls, c, i), i + 1)
<1>1. c.start \in Nat /\ c.mode \in Mode /\ ls[i + 1] \in Text
  BY CursorFields
<1>2. CASE c.mode = "CodeFence"
  <2>1. UpdateMode(ls, c, i) = CloseFence(ls, c, i)
    BY <1>2 DEF UpdateMode
  <2>2. c.start < i => FenceOpen(ls, c, i)
    BY <1>2 DEF StillOpen
  <2>3. CASE i > c.start /\ Scan[<<c.inner, ls[i + 1]>>] \in Shut
    <3>1. EndsRight(BlockAt(c, LinesOf(ls, c.start, i)))
      BY <1>1, <1>2, <2>2, <2>3, EndsFence
    <3>2. ReadRight(ls, Commit(ls, c, i), i + 1)
      BY <1>1, <3>1, EndingCommit
    <3>3. QED
      BY <2>1, <2>3, <3>2 DEF CloseFence
  <2>4. CASE ~(i > c.start /\ Scan[<<c.inner, ls[i + 1]>>] \in Shut)
    <3>1. UpdateMode(ls, c, i) = c
      BY <2>1, <2>4 DEF CloseFence
    <3>2. c.inner = Enter[ls[c.start + 1]]
      BY <1>1, <2>2 DEF FenceOpen
    <3>3. ASSUME NEW j \in c.start + 2 .. i + 1
          PROVE  Scan[<<c.inner, ls[j]>>] \notin Shut
      <4>1. CASE j = i + 1
        <5>1. i > c.start
          BY <1>1, <3>3, <4>1
        <5>2. QED
          BY <2>4, <4>1, <5>1
      <4>2. CASE j # i + 1
        <5>1. j \in c.start + 2 .. i /\ c.start < i
          BY <1>1, <4>2
        <5>2. QED
          BY <2>2, <5>1 DEF FenceOpen
      <4>3. QED
        BY <4>1, <4>2
    <3>4. StillOpen(ls, c, i + 1)
      BY <1>2, <3>2, <3>3 DEF StillOpen, FenceOpen
    <3>5. QED
      BY <3>1, <3>4 DEF ReadRight
  <2>5. QED
    BY <2>3, <2>4
<1>3. CASE c.mode \in {"CustomBoundary", "MathBlock", "HtmlBlock"}
  <2> DEFINE p == Scan[<<c.inner, ls[i + 1]>>]
             e == [c EXCEPT !.inner = p]
  <2>1. UpdateMode(ls, c, i) = IF p \in Shut THEN Commit(ls, e, i) ELSE e
    <3>1. e.inner = p
      BY DEF Cursor
    <3>2. QED
      BY <1>3, <3>1 DEF UpdateMode, CloseOnLine
  <2>2. e \in Cursor
    BY KeepsScan
  <2>3. /\ e.start = c.start /\ e.mode = c.mode /\ e.inner = p
        /\ e.committed = c.committed
    BY DEF Cursor
  <2> HIDE DEF e
  <2>4. c.mode # "CustomBoundary" =>
          \E f : /\ IsPayload(f, ls, c.start, i + 1 - c.start)
                 /\ \A j \in 1 .. i - c.start : f[j] \notin Shut
                 /\ f[i + 1 - c.start] = p
    <3>1. SUFFICES ASSUME c.mode # "CustomBoundary"
                   PROVE  \E f :
                            /\ IsPayload(f, ls, c.start, i + 1 - c.start)
                            /\ \A j \in 1 .. i - c.start : f[j] \notin Shut
                            /\ f[i + 1 - c.start] = p
      OBVIOUS
    <3>2. c.start < i => \E f : ReadSoFar(ls, c, i, f)
      BY <1>3, <3>1 DEF StillOpen
    <3>3. p = Scan[<<c.inner, ls[i + 1]>>]
      OBVIOUS
    <3>4. c.start = i => c.inner = Enter[ls[i + 1]]
      OBVIOUS
    <3> HIDE DEF p
    <3>5. QED
      BY <1>1, <3>2, <3>3, <3>4, PayloadGrows
  <2> HIDE DEF p
  <2>5. CASE p \in Shut
    <3>1. EndsRight(BlockAt(e, LinesOf(ls, e.start, i)))
      <4>1. CASE c.mode = "CustomBoundary"
        BY <2>3, <4>1, EndsOther
      <4>2. CASE c.mode # "CustomBoundary"
        <5>1. PICK f :
                /\ IsPayload(f, ls, e.start, i + 1 - e.start)
                /\ \A j \in 1 .. i - e.start : f[j] \notin Shut
                /\ f[i + 1 - e.start] = p
          BY <2>3, <2>4, <4>2
        <5>2. e.mode \in {"HtmlBlock", "MathBlock"} /\ e.start <= i
          BY <1>3, <2>3, <4>2
        <5>3. f[i + 1 - e.start] \in Shut
          BY <2>5, <5>1
        <5>4. QED
          BY <2>2, <5>1, <5>2, <5>3, EndsPayload
      <4>3. QED
        BY <4>1, <4>2
    <3>2. e.start <= i + 1 /\ Ending(e.committed)
      BY <1>1, <2>3
    <3>3. QED
      BY <2>1, <2>2, <2>5, <3>1, <3>2, EndingCommit
  <2>6. CASE p \notin Shut
    <3>1. StillOpen(ls, e, i + 1)
      <4>1. e.mode \in {"HtmlBlock", "MathBlock"} =>
              \E f : ReadSoFar(ls, e, i + 1, f)
        <5>1. SUFFICES ASSUME e.mode \in {"HtmlBlock", "MathBlock"}
                       PROVE  \E f : ReadSoFar(ls, e, i + 1, f)
          OBVIOUS
        <5>2. PICK f :
                /\ IsPayload(f, ls, e.start, i + 1 - e.start)
                /\ \A j \in 1 .. i - e.start : f[j] \notin Shut
                /\ f[i + 1 - e.start] = p
          BY <2>3, <2>4, <5>1
        <5>3. f[i + 1 - e.start] = e.inner /\ e.inner \notin Shut
          BY <2>3, <2>6, <5>2
        <5>4. ReadSoFar(ls, e, i + 1, f)
          BY <2>2, <5>2, <5>3, ReadMore
        <5>5. QED
          BY <5>4
      <4>2. QED
        BY <1>3, <2>3, <4>1 DEF StillOpen
    <3>2. QED
      BY <2>1, <2>3, <2>6, <3>1 DEF ReadRight
  <2>7. QED
    BY <2>5, <2>6
<1>4. CASE c.mode = "Paragraph"
  <2> DEFINE h == [c EXCEPT !.mode = "Heading"]
             r == [c EXCEPT !.mode = "Table"]
  <2>1. /\ h \in Cursor /\ h.start = c.start /\ h.mode = "Heading"
        /\ h.committed = c.committed
        /\ r.mode = "Table" /\ r.committed = c.committed
    BY DEF Cursor, Mode
  <2>2. UpdateMode(ls, c, i) \in {c, r, Commit(ls, h, i)}
    BY <1>4 DEF UpdateMode, UpgradeParagraph
  <2> HIDE DEF h, r
  <2>3. ReadRight(ls, Commit(ls, h, i), i + 1)
    <3>1. EndsRight(BlockAt(h, LinesOf(ls, h.start, i)))
      BY <2>1, EndsOther
    <3>2. h.start <= i + 1 /\ Ending(h.committed)
      BY <1>1, <2>1
    <3>3. QED
      BY <2>1, <3>1, <3>2, EndingCommit
  <2>4. ReadRight(ls, c, i + 1) /\ ReadRight(ls, r, i + 1)
    BY <1>4, <2>1 DEF ReadRight, StillOpen
  <2>5. QED
    BY <2>2, <2>3, <2>4
<1>5. CASE c.mode \notin {"CodeFence", "CustomBoundary", "MathBlock",
                          "HtmlBlock", "Paragraph"}
  <2>1. UpdateMode(ls, c, i) = c
    BY <1>1, <1>5 DEF UpdateMode
  <2>2. QED
    BY <1>5, <2>1 DEF ReadRight, StillOpen
<1>6. QED
  BY <1>2, <1>3, <1>4, <1>5

(***************************************************************************)
(* process_line opens a block at its first line.                           *)
(***************************************************************************)
LEMMA OpenReads ==
  ASSUME NEW ls \in Seq(Text), NEW c \in Cursor, NEW i \in Nat, i < Len(ls),
         c.start = i, Ending(c.committed)
  PROVE  ReadRight(ls, OpenBlock(ls, c, i), i + 1)
<1> DEFINE t == ls[i + 1]
           e == StartAt(c, t)
<1>1. t \in Text
  OBVIOUS
<1>2. /\ e \in Cursor /\ e.start = i /\ e.mode = StartMode(t)
      /\ e.inner = Enter[t] /\ e.committed = c.committed
  BY <1>1, StartAtFields
<1>3. e.mode # "Unknown"
  BY <1>2 DEF StartMode
<1> HIDE DEF e
<1>4. CASE e.mode \in {"Heading", "ThematicBreak"}
  <2> DEFINE f == Commit(ls, e, i)
             g == StartAt(f, t)
  <2>1. EndsRight(BlockAt(e, LinesOf(ls, e.start, i)))
    BY <1>4, EndsOther
  <2>2. ReadRight(ls, f, i + 1)
    BY <1>2, <2>1, EndingCommit
  <2>3. f \in Cursor /\ f.start = i + 1 /\ f.mode = "Unknown"
    BY <1>2, CommitShape, CommitMode
  <2>4. OpenBlock(ls, c, i) = UpdateMode(ls, f, i)
    BY <1>4 DEF OpenBlock, CommitSingleLine, e
  <2> HIDE DEF f
  <2>5. UpdateMode(ls, f, i) = CommitSingleLine(ls, g, i)
    BY <2>3 DEF UpdateMode
  <2>6. g.start = i + 1 /\ i < g.start /\ g.committed = f.committed
    BY <1>1, <2>3, StartAtFields
  <2> HIDE DEF g
  <2>7. CommitSingleLine(ls, g, i) = g
    BY <2>6, CommitLater DEF CommitSingleLine
  <2>8. ReadRight(ls, g, i + 1)
    BY <2>2, <2>6 DEF ReadRight
  <2>9. QED
    BY <2>4, <2>5, <2>7, <2>8
<1>5. CASE e.mode \notin {"Heading", "ThematicBreak"}
  <2>1. OpenBlock(ls, c, i) = UpdateMode(ls, e, i)
    BY <1>5 DEF OpenBlock, CommitSingleLine, e
  <2>2. ReadRight(ls, UpdateMode(ls, e, i), i + 1)
    BY <1>2, <1>3, UpdateReads
  <2>3. QED
    BY <2>1, <2>2
<1>6. QED
  BY <1>4, <1>5

(***************************************************************************)
(* A boundary ends no block inside which it lies.                          *)
(***************************************************************************)
LEMMA BoundaryEnds ==
  ASSUME NEW ls \in Seq(Text), NEW c \in Cursor, NEW i \in Nat, i < Len(ls),
         c.start < i, ReadRight(ls, c, i), Boundary(ls, c, i)
  PROVE  ReadRight(ls, Commit(ls, c, i - 1), i)
<1>1. c.start \in Nat
  BY CursorFields
<1>2. StillOpen(ls, c, i) /\ Ending(c.committed)
  BY DEF ReadRight
<1>3. ~Inside(c)
  BY DEF Boundary
<1>4. c.mode \notin {"HtmlBlock", "MathBlock"}
  <2>1. SUFFICES ASSUME c.mode \in {"HtmlBlock", "MathBlock"}
                 PROVE  FALSE
    OBVIOUS
  <2>2. PICK f : ReadSoFar(ls, c, i, f)
    BY <1>2, <2>1 DEF StillOpen
  <2>3. i - c.start \in 1 .. i - c.start
    BY <1>1
  <2>4. c.inner \notin Shut
    BY <2>2, <2>3 DEF ReadSoFar
  <2>5. QED
    BY <1>3, <2>1, <2>4 DEF Inside
<1>5. EndsRight(BlockAt(c, LinesOf(ls, c.start, i - 1)))
  BY <1>3, <1>4, EndsOther DEF Inside
<1>6. /\ i - 1 \in Nat /\ i - 1 < Len(ls) /\ (i - 1) + 1 = i
      /\ c.start <= (i - 1) + 1
  BY <1>1
<1>7. ReadRight(ls, Commit(ls, c, i - 1), (i - 1) + 1)
  BY <1>2, <1>5, <1>6, EndingCommit
<1>8. QED
  BY <1>6, <1>7

(***************************************************************************)
(* process_line keeps what the current block has read.                     *)
(***************************************************************************)
LEMMA ProcessReads ==
  ASSUME NEW ls \in Seq(Text), NEW c \in Cursor, NEW i \in Nat, i < Len(ls),
         c.start <= i, c.start < i => FirstMode(ls, c), ReadRight(ls, c, i)
  PROVE  ReadRight(ls, Process(ls, c, i), i + 1)
<1>0. c.start \in Nat /\ Ending(c.committed)
  BY CursorFields DEF ReadRight
<1>1. CASE i = c.start
  BY <1>0, <1>1, OpenReads DEF Process
<1>2. CASE i # c.start /\ Boundary(ls, c, i)
  <2> DEFINE e == Commit(ls, c, i - 1)
  <2>1. i - 1 \in Nat /\ i - 1 < Len(ls) /\ c.start <= i - 1
    BY <1>0, <1>2
  <2>2. e \in Cursor /\ e.start = i
    BY <2>1, CommitShape
  <2>3. c.start < i
    BY <1>0, <1>2
  <2>4. ReadRight(ls, e, i)
    BY <1>2, <2>3, BoundaryEnds
  <2>5. Process(ls, c, i) = OpenBlock(ls, e, i)
    BY <1>2 DEF Process
  <2> HIDE DEF e
  <2>6. Ending(e.committed)
    BY <2>4 DEF ReadRight
  <2>7. QED
    BY <2>2, <2>5, <2>6, OpenReads
<1>3. CASE i # c.start /\ ~Boundary(ls, c, i)
  <2>1. c.start < i
    BY <1>0, <1>3
  <2>2. c.mode # "Unknown" /\ StillOpen(ls, c, i)
    BY <2>1, FirstModeKnown DEF ReadRight
  <2>3. ReadRight(ls, UpdateMode(ls, c, i), i + 1)
    BY <1>0, <1>3, <2>2, UpdateReads
  <2>4. QED
    BY <1>3, <2>3 DEF Process
<1>4. QED
  BY <1>1, <1>2, <1>3

(***************************************************************************)
(* So does the look at the unfinished last line.                           *)
(***************************************************************************)
LEMMA TailReads ==
  ASSUME NEW ls \in Seq(Text), NEW c \in Cursor, NEW i \in Nat,
         i + 1 = Len(ls), c.start <= i, ReadRight(ls, c, i)
  PROVE  ReadRight(ls, TailBoundary(ls, c), i)
<1>0. c.start \in Nat /\ i < Len(ls) /\ Len(ls) - 1 = i
  BY CursorFields
<1>1. CASE i >= 1 /\ Boundary(ls, c, i)
  <2> DEFINE e == Commit(ls, c, i - 1)
  <2>1. /\ TailBoundary(ls, c) = StartAt(e, ls[i + 1])
        /\ ls[i + 1] \in Text
    BY <1>0, <1>1 DEF TailBoundary
  <2>2. i - 1 \in Nat /\ i - 1 < Len(ls) /\ (i - 1) + 1 = i
    BY <1>0, <1>1
  <2>3. e \in Cursor
    BY <2>2, KeepsCommit DEF KeepsCommitted
  <2>4. e.start = i
    BY <2>2, CommitAfter
  <2>5. ReadRight(ls, e, i)
    <3>1. CASE c.start < i
      BY <1>0, <1>1, <3>1, BoundaryEnds
    <3>2. CASE c.start = i
      <4>1. i - 1 < c.start
        BY <1>0, <3>2
      <4>2. e = c
        BY <4>1, CommitLater
      <4>3. QED
        BY <4>2
    <3>3. QED
      BY <1>0, <3>1, <3>2
  <2> HIDE DEF e
  <2>6. /\ StartAt(e, ls[i + 1]).start = i
        /\ StartAt(e, ls[i + 1]).committed = e.committed
    BY <2>1, <2>3, <2>4, StartAtFields
  <2>7. QED
    BY <2>1, <2>5, <2>6 DEF ReadRight
<1>2. CASE ~(i >= 1 /\ Boundary(ls, c, i))
  <2>1. TailBoundary(ls, c) = c
    BY <1>0, <1>2 DEF TailBoundary
  <2>2. QED
    BY <2>1
<1>3. QED
  BY <1>1, <1>2

(***************************************************************************)
(* The current block keeps what it has read when its lines are found at    *)
(* another place.                                                          *)
(***************************************************************************)
LEMMA ReadElsewhere ==
  ASSUME NEW ls, NEW ms, NEW c \in Cursor, NEW e \in Cursor,
         NEW n \in Nat, NEW m \in Nat, ReadRight(ls, c, n),
         e.committed = c.committed,
         e.start < m =>
           /\ c.start < n /\ m - e.start = n - c.start
           /\ e.mode = c.mode /\ e.inner = c.inner
           /\ \A j \in 1 .. n - c.start : ms[e.start + j] = ls[c.start + j]
  PROVE  ReadRight(ms, e, m)
<1>0. c.start \in Nat /\ e.start \in Nat
  BY CursorFields
<1>1. Ending(e.committed)
  BY DEF ReadRight
<1>2. ASSUME e.start < m
      PROVE  StillOpen(ms, e, m)
  <2>1. /\ c.start < n /\ m - e.start = n - c.start
        /\ e.mode = c.mode /\ e.inner = c.inner
        /\ \A j \in 1 .. n - c.start : ms[e.start + j] = ls[c.start + j]
    BY <1>2
  <2>2. StillOpen(ls, c, n)
    BY <2>1 DEF ReadRight
  <2>3. ms[e.start + 1] = ls[c.start + 1]
    <3>1. 1 \in 1 .. n - c.start
      BY <1>0, <2>1
    <3>2. QED
      BY <2>1, <3>1
  <2>4. c.mode = "CodeFence" => FenceOpen(ms, e, m)
    <3>1. SUFFICES ASSUME c.mode = "CodeFence"
                   PROVE  FenceOpen(ms, e, m)
      OBVIOUS
    <3>2. FenceOpen(ls, c, n)
      BY <2>2, <3>1 DEF StillOpen
    <3>3. ASSUME NEW j \in e.start + 2 .. m
          PROVE  Scan[<<e.inner, ms[j]>>] \notin Shut
      <4> DEFINE k == j - e.start
      <4>1. /\ k \in 1 .. n - c.start /\ e.start + k = j
            /\ c.start + k \in c.start + 2 .. n
        BY <1>0, <2>1
      <4> HIDE DEF k
      <4>2. ms[j] = ls[c.start + k]
        BY <2>1, <4>1
      <4>3. QED
        BY <2>1, <3>2, <4>1, <4>2 DEF FenceOpen
    <3>4. e.inner = Enter[ms[e.start + 1]]
      BY <2>1, <2>3, <3>2 DEF FenceOpen
    <3>5. QED
      BY <3>3, <3>4 DEF FenceOpen
  <2>5. ASSUME NEW f, ReadSoFar(ls, c, n, f)
        PROVE  ReadSoFar(ms, e, m, f)
    <3> DEFINE k == n - c.start
    <3>1. k = m - e.start /\ k \in Nat
      BY <1>0, <2>1
    <3>2. /\ IsPayload(f, ls, c.start, k) /\ c.inner = f[k]
          /\ \A j \in 1..k : f[j] \notin Shut
      BY <2>5 DEF ReadSoFar
    <3>3. \A j \in 1..k : ms[e.start + j] = ls[c.start + j]
      BY <2>1
    <3> HIDE DEF k
    <3>4. ASSUME NEW j \in 1..k
          PROVE  f[j] = Scan[<<IF j = 1 THEN Enter[ms[e.start + 1]]
                               ELSE f[j - 1], ms[e.start + j]>>]
      <4>1. f[j] = Scan[<<IF j = 1 THEN Enter[ls[c.start + 1]]
                          ELSE f[j - 1], ls[c.start + j]>>]
        BY <3>2 DEF IsPayload
      <4>2. QED
        BY <2>3, <3>3, <4>1
    <3>5. IsPayload(f, ms, e.start, k)
      BY <3>4 DEF IsPayload
    <3>6. QED
      BY <2>1, <3>1, <3>2, <3>5 DEF ReadSoFar
  <2>6. QED
    BY <2>1, <2>2, <2>4, <2>5 DEF StillOpen
<1>3. QED
  BY <1>1, <1>2 DEF ReadRight

(***************************************************************************)
(* So it does when compaction drops the lines before it.                   *)
(***************************************************************************)
LEMMA CompactReads ==
  ASSUME NEW ls \in Seq(Text), ls # <<>>, NEW d \in Seq(Text), NEW c,
         NEW n \in Nat, Sound(ls, d, c, n), n < Len(ls), Compact(ls, c, n),
         ReadRight(ls, c, n)
  PROVE  ReadRight(lines', cur', processed')
<1>1. c \in Cursor /\ c.start \in Nat /\ c.base \in Nat /\ c.start <= n
  BY DEF Sound, Cursor
<1>2. CASE lines' = ls /\ cur' = c /\ processed' = n
  BY <1>2
<1>3. CASE /\ cur' = [c EXCEPT !.base = c.base + c.start, !.start = 0]
           /\ Len(lines') = Len(ls) - c.start
           /\ \A j \in 1..Len(lines') : lines'[j] = ls[c.start + j]
           /\ processed' = n - c.start
  <2> DEFINE ms == lines'
             e == [c EXCEPT !.base = c.base + c.start, !.start = 0]
             m == n - c.start
  <2>1. /\ e \in Cursor /\ e.start = 0 /\ e.mode = c.mode
        /\ e.inner = c.inner /\ e.committed = c.committed
    <3> DEFINE base == c.base + c.start
    <3>1. base \in Nat
      BY <1>1
    <3> HIDE DEF base
    <3>2. [c EXCEPT !.base = base, !.start = 0] \in Cursor
      BY <1>1, <3>1 DEF Cursor
    <3>3. QED
      BY <1>1, <3>2 DEF base, Cursor
  <2>2. m \in Nat /\ cur' = e /\ processed' = m /\ m <= Len(ls) - c.start
    BY <1>1, <1>3
  <2>3. \A j \in 1 .. n - c.start : ms[j] = ls[c.start + j]
    <3>1. ASSUME NEW j \in 1 .. n - c.start
          PROVE  j \in 1..Len(ms)
      BY <1>1, <1>3
    <3>2. QED
      BY <1>3, <3>1
  <2>4. e.start < m => c.start < n /\ m - e.start = n - c.start
    BY <1>1, <2>1
  <2>5. \A j \in 1 .. n - c.start : ms[e.start + j] = ls[c.start + j]
    <3>1. ASSUME NEW j \in 1 .. n - c.start
          PROVE  e.start + j = j
      BY <2>1
    <3>2. QED
      BY <2>3, <3>1
  <2> HIDE DEF ms, e, m
  <2>6. ReadRight(ms, e, m)
    BY <1>1, <2>1, <2>2, <2>4, <2>5, ReadElsewhere
  <2>7. QED
    BY <2>2, <2>6 DEF ms
<1>4. Rebased(ls, c, n)
  BY CompactRebased
<1>5. QED
  BY <1>2, <1>3, <1>4 DEF Rebased

(***************************************************************************)
(* The mode that finalize computes for a block with no scanned line does   *)
(* not matter.                                                             *)
(***************************************************************************)
LEMMA SettleReads ==
  ASSUME NEW ls \in Seq(Text), NEW c \in Cursor, NEW n \in Nat,
         c.start < Len(ls), c.start < n => c.mode # "Unknown",
         ReadRight(ls, c, n)
  PROVE  ReadRight(ls, SettleMode(ls, c), n)
<1> DEFINE e == SettleMode(ls, c)
<1>1. /\ e.start = c.start /\ e.committed = c.committed
      /\ c.mode # "Unknown" => e = c
  BY SettleFields
<1> HIDE DEF e
<1>2. e.start < n => e = c
  BY <1>1
<1>3. QED
  BY <1>1, <1>2 DEF ReadRight, e

-----------------------------------------------------------------------------
(***************************************************************************)
(* The inductive form of EndsWhereItCloses.                                *)
(***************************************************************************)
EndsInv ==
  /\ Split => ReadRight(lines, cur, processed)
  /\ closed => \A k \in 1..Len(cur.committed) - 1 : EndsRight(cur.committed[k])

(***************************************************************************)
(* A step to a document that is split into blocks.                         *)
(***************************************************************************)
LEMMA SplitEnds ==
  ASSUME ResetAfterFinalize, IInv, ModeInv, EndsInv, [Next]_vars, Split'
  PROVE  ReadRight(lines, cur, processed)'
<1>1. CASE Starts
  <2>1. FreshCursor(0).start = 0 /\ FreshCursor(0).committed = <<>>
    BY FreshShape
  <2>2. Ending(<<>>)
    BY DEF Ending
  <2>3. QED
    BY <1>1, <2>1, <2>2 DEF Starts, ReadRight
<1>2. ASSUME Split, Stays \/ Extends \/ Reads \/ Returns \/ KeepsBlanks
                    \/ CommitsNone
      PROVE  ReadRight(lines, cur, processed)'
  <2>0. /\ lines \in Seq(Text) /\ lines # <<>> /\ Len(lines) \in Nat
        /\ doc \in Seq(Text) /\ doc # <<>>
        /\ processed \in Nat /\ cur \in Cursor /\ cur.start \in Nat
        /\ Sound(lines, doc, cur, processed)
        /\ cur.start <= processed /\ processed < Len(lines)
    BY <1>2, SplitFacts
  <2>1. /\ cur.start < processed => FirstMode(lines, cur)
        /\ ReadRight(lines, cur, processed)
    BY <1>2 DEF ModeInv, EndsInv
  <2>2. CASE Stays
    BY <2>1, <2>2 DEF Stays
  <2>3. CASE Extends
    <3>1. PICK chunk \in Chunk : lines' = Extend(lines, chunk)
      BY <2>3 DEF Extends
    <3>2. cur' = cur /\ processed' = processed
      BY <2>3 DEF Extends
    <3>3. ASSUME NEW j \in 1 .. processed - cur.start
          PROVE  lines'[cur.start + j] = lines[cur.start + j]
      <4>1. cur.start + j \in 1..Len(lines) - 1
        BY <2>0
      <4>2. QED
        BY <2>0, <3>1, <4>1, ExtendFacts
    <3>4. ReadRight(lines', cur, processed)
      BY <2>0, <2>1, <3>3, ReadElsewhere
    <3>5. QED
      BY <3>2, <3>4
  <2>4. CASE Reads
    <3>1. /\ lines' = lines /\ processed' = processed + 1
          /\ cur' = Process(lines, cur, processed)
      BY <2>4 DEF Reads
    <3>2. ReadRight(lines, Process(lines, cur, processed), processed + 1)
      BY <2>0, <2>1, ProcessReads
    <3>3. QED
      BY <3>1, <3>2
  <2>5. CASE Returns
    <3> DEFINE c == TailBoundary(lines, cur)
    <3>1. processed = Len(lines) - 1 /\ Compact(lines, c, processed)
      BY <2>5 DEF Returns
    <3>2. Sound(lines, doc, c, processed)
      BY <2>0, <3>1, TailBoundarySound
    <3>3. processed + 1 = Len(lines)
      BY <2>0, <3>1
    <3>4. ReadRight(lines, c, processed)
      BY <2>0, <2>1, <3>3, TailReads
    <3> HIDE DEF c
    <3>5. ReadRight(lines', cur', processed')
      BY <2>0, <3>1, <3>2, <3>4, CompactReads
    <3>6. QED
      BY <3>5
  <2> DEFINE ls == FinalLines(lines)
             c == SettleMode(ls, cur)
  <2>6. /\ ls \in Seq(Text) /\ ls # <<>> /\ processed < Len(ls)
        /\ Sound(ls, FinalLines(doc), cur, processed)
        /\ \A j \in 1..Len(lines) : ls[j] = lines[j]
    BY <2>0, FinalLinesFacts, FinalSound
  <2>7. ReadRight(ls, cur, processed)
    <3>1. ASSUME NEW j \in 1 .. processed - cur.start
          PROVE  ls[cur.start + j] = lines[cur.start + j]
      <4>1. cur.start + j \in 1..Len(lines)
        BY <2>0
      <4>2. QED
        BY <2>6, <4>1
    <3> HIDE DEF ls
    <3>2. QED
      BY <2>0, <2>1, <3>1, ReadElsewhere
  <2>8. cur.start < Len(ls) /\ (cur.start < processed => cur.mode # "Unknown")
    <3>1. Len(ls) \in Nat
      BY <2>6
    <3>2. cur.start < Len(ls)
      BY <2>0, <2>6, <3>1
    <3>3. QED
      BY <2>1, <3>2, FirstModeKnown
  <2> HIDE DEF ls
  <2>9. ReadRight(ls, c, processed)
    BY <2>0, <2>6, <2>7, <2>8, SettleReads
  <2>10. CASE KeepsBlanks
    <3>1. lines' = ls /\ cur' = c /\ processed' = processed
      BY <2>10 DEF KeepsBlanks, ls
    <3>2. QED
      BY <2>9, <3>1
  <2>11. CASE CommitsNone
    <3>1. Compact(ls, c, processed)
      BY <2>11 DEF CommitsNone, ls
    <3>2. FinalLines(doc) \in Seq(Text)
      BY <2>0, FinalLinesFacts
    <3>3. Sound(ls, FinalLines(doc), c, processed)
      BY <2>0, <2>6, <3>2, SettleModeSound
    <3> HIDE DEF c
    <3>4. ReadRight(lines', cur', processed')
      BY <2>0, <2>6, <2>9, <3>1, <3>2, <3>3, CompactReads
    <3>5. QED
      BY <3>4
  <2>12. QED
    BY <1>2, <2>2, <2>3, <2>4, <2>5, <2>10, <2>11
<1>3. QED
  BY <1>1, <1>2, SplitSteps

(***************************************************************************)
(* A step to a finalized document: only the block that finalize commits    *)
(* may be cut off by the end of the document.                              *)
(***************************************************************************)
LEMMA ClosedEnds ==
  ASSUME ResetAfterFinalize, IInv, ModeInv, EndsInv, [Next]_vars, closed'
  PROVE  \A k \in 1..Len(cur'.committed) - 1 : EndsRight(cur'.committed[k])
<1>0. closed \in BOOLEAN
  BY DEF IInv, TypeOK
<1>1. CASE closed
  <2>1. pc = "idle" /\ NothingNew
    BY <1>1 DEF IInv, ClosedInv, NothingNew
  <2>2. ~Reset
    BY DEF Reset
  <2>3. cur' = cur
    BY <1>1, <2>1, <2>2 DEF Next, NextOn, vars, AppendChunk, AppendNothing,
       MayAppend, ProcessLine, FinishAppend, IndexFault, FinalizeNothingNew,
       Finalize
  <2>4. QED
    BY <1>1, <2>3 DEF EndsInv
<1>2. CASE ~closed
  <2>1. Finalize
    BY <1>0, <1>2 DEF Next, NextOn, vars, AppendChunk, AppendNothing,
       ProcessLine, FinishAppend, IndexFault, FinalizeNothingNew, Reset
  <2> DEFINE ls == FinalLines(lines)
             c == SettleMode(ls, cur)
             e == CommitRest(ls, c)
  <2>2. PendingOf(ls, c) # <<>> /\ Compact(ls, e, processed)
    BY <2>1, FinalizeCases
  <2>3. /\ ls \in Seq(Text) /\ ls # <<>> /\ cur \in Cursor
        /\ processed \in Nat
    BY <2>1, FinalizeOpen
  <2>4. Ending(cur.committed)
    <3>1. CASE SingleMode
      BY <1>2, <3>1 DEF IInv, SingleInv, Ending
    <3>2. CASE ~SingleMode
      BY <1>2, <3>2 DEF EndsInv, Split, ReadRight
    <3>3. QED
      BY <3>1, <3>2
  <2> HIDE DEF ls
  <2>5. c \in Cursor /\ c.committed = cur.committed
    <3>1. c \in Cursor
      BY <2>3, KeepsSettle DEF KeepsCommitted
    <3>2. c.committed = cur.committed
      BY DEF SettleMode, StartAt, Cursor
    <3>3. QED
      BY <3>1, <3>2
  <2> HIDE DEF c
  <2>6. PICK b \in Block : PendingOf(ls, c) = <<b>>
    BY <2>2, <2>3, <2>5, PendingOne
  <2> DEFINE done == Append(c.committed, b)
  <2>7. e.committed = done /\ e \in Cursor
    <3>1. e \in Cursor
      BY <2>3, <2>5, KeepsRest DEF KeepsCommitted
    <3>2. c.committed \o <<b>> = Append(c.committed, b)
      BY <2>5, CursorFields
    <3>3. e.committed = c.committed \o <<b>>
      BY <2>2, <2>5, <2>6 DEF CommitRest, Cursor
    <3>4. QED
      BY <3>1, <3>2, <3>3
  <2>8. cur'.committed = done
    <3> HIDE DEF e
    <3>1. cur'.committed = e.committed
      BY <2>2, <2>3, <2>7, CompactType
    <3>2. QED
      BY <2>7, <3>1
  <2>9. /\ c.committed \in Seq(Block) /\ Len(c.committed) \in Nat
        /\ Len(done) = Len(c.committed) + 1
        /\ \A k \in 1..Len(c.committed) : done[k] = c.committed[k]
    BY <2>5, CursorFields, AppendProperties
  <2> HIDE DEF done
  <2>10. ASSUME NEW k \in 1..Len(done) - 1
         PROVE  EndsRight(done[k])
    <3>1. k \in 1..Len(c.committed)
      BY <2>9
    <3>2. EndsRight(c.committed[k])
      BY <2>4, <2>5, <3>1 DEF Ending
    <3>3. QED
      BY <2>9, <3>1, <3>2
  <2>11. QED
    BY <2>8, <2>10
<1>3. QED
  BY <1>0, <1>1, <1>2

(***************************************************************************)
(* A fenced, HTML or math block that the end of the document has not cut   *)
(* off ends at the first line that completes it, whatever the chunks, and  *)
(* also when compaction has dropped the lines before it while it was read. *)
(***************************************************************************)
THEOREM BlocksEndWhereTheyClose ==
  ASSUME ResetAfterFinalize, SingleBlock => MaxBufferBytes = {}
  PROVE  Spec => []EndsWhereItCloses
<1>1. Init => ModeInv /\ EndsInv
  <2>1. FreshCursor(0).start = 0 /\ FreshCursor(0).committed = <<>>
    BY FreshShape
  <2>2. Ending(<<>>)
    BY DEF Ending
  <2>3. QED
    BY <2>1, <2>2 DEF Init, ModeInv, EndsInv, ReadRight
<1>2. IInv /\ ModeInv /\ EndsInv /\ [Next]_vars => ModeInv' /\ EndsInv'
  BY ModeInvKept, SplitEnds, ClosedEnds DEF EndsInv
<1>3. IInv /\ EndsInv => EndsWhereItCloses
  <2>1. SUFFICES ASSUME IInv, EndsInv, NEW k \in DOMAIN Committed,
                        ~(closed /\ k = Len(Committed))
                 PROVE  EndsRight(Committed[k])
    BY DEF EndsWhereItCloses
  <2>2. /\ cur.committed \in Seq(Block) /\ k \in 1..Len(cur.committed)
        /\ closed \in BOOLEAN /\ Len(cur.committed) \in Nat
    BY <2>1 DEF IInv, TypeOK, Cursor, Committed
  <2>3. CASE closed
    <3>1. k \in 1..Len(cur.committed) - 1
      BY <2>1, <2>2, <2>3 DEF Committed
    <3>2. QED
      BY <2>1, <2>3, <3>1 DEF EndsInv, Committed
  <2>4. CASE ~closed /\ SingleMode
    BY <2>1, <2>2, <2>4 DEF IInv, SingleInv
  <2>5. CASE ~closed /\ ~SingleMode
    BY <2>1, <2>2, <2>5 DEF EndsInv, Split, ReadRight, Ending, Committed
  <2>6. QED
    BY <2>2, <2>3, <2>4, <2>5
<1>4. QED
  BY <1>1, <1>2, <1>3, StreamInvariant, PTL DEF Spec
=============================================================================
