--------------------------- MODULE ChunkingProofs ---------------------------
(***************************************************************************)
(* Proof that the blocks do not depend on how the text was cut into        *)
(* chunks.  The cursor of the stream is compared with the one that scans   *)
(* the whole document line by line, which does not compact: the two are    *)
(* equal up to the rebasing of line numbers, except when the unfinished    *)
(* last line has already split the text.                                   *)
(***************************************************************************)
EXTENDS BlockStreamProofs, Induction

(***************************************************************************)
(* The cursor c as it would be if no line had been dropped.                *)
(***************************************************************************)
Shift(c) == [c EXCEPT !.base = 0, !.start = c.base + c.start]

(***************************************************************************)
(* The first m lines of ls are the lines of d after the first b.           *)
(***************************************************************************)
Window(ls, d, b, m) ==
  /\ b \in Nat /\ m \in Nat
  /\ m <= Len(ls) /\ b + m <= Len(d)
  /\ \A j \in 1..m : ls[j] = d[b + j]

(***************************************************************************)
(* Two cursors with equal fields are equal.                                *)
(***************************************************************************)
LEMMA CursorEq ==
  ASSUME NEW c \in Cursor, NEW e \in Cursor,
         c.base = e.base, c.start = e.start, c.id = e.id,
         c.nextId = e.nextId, c.mode = e.mode, c.inner = e.inner,
         c.committed = e.committed
  PROVE  c = e
BY DEF Cursor

(***************************************************************************)
(* The fields of a shifted cursor.                                         *)
(***************************************************************************)
LEMMA ShiftFacts ==
  ASSUME NEW c \in Cursor
  PROVE  /\ Shift(c) \in Cursor
         /\ Shift(c).base = 0 /\ Shift(c).start = c.base + c.start
         /\ Shift(c).id = c.id /\ Shift(c).nextId = c.nextId
         /\ Shift(c).mode = c.mode /\ Shift(c).inner = c.inner
         /\ Shift(c).committed = c.committed
         /\ c.base = 0 => Shift(c) = c
<1>0. c.base + c.start \in Nat
  BY DEF Cursor
<1>1. /\ Shift(c) \in Cursor
      /\ Shift(c).base = 0 /\ Shift(c).start = c.base + c.start
      /\ Shift(c).id = c.id /\ Shift(c).nextId = c.nextId
      /\ Shift(c).mode = c.mode /\ Shift(c).inner = c.inner
      /\ Shift(c).committed = c.committed
  BY <1>0 DEF Shift, Cursor
<1>2. ASSUME c.base = 0
      PROVE  Shift(c) = c
  <2>1. c.base + c.start = c.start
    BY <1>2 DEF Cursor
  <2>2. QED
    BY <1>1, <1>2, <2>1, CursorEq
<1>3. QED
  BY <1>1, <1>2

(***************************************************************************)
(* A run of lines is the same in both numberings.                          *)
(***************************************************************************)
LEMMA SameLines ==
  ASSUME NEW ls \in Seq(Text), NEW d \in Seq(Text), NEW b, NEW m,
         Window(ls, d, b, m), NEW first \in Nat, NEW last \in Nat,
         first <= last, last < m
  PROVE  LinesOf(ls, first, last) = LinesOf(d, b + first, b + last)
<1> DEFINE x == LinesOf(ls, first, last)
           y == LinesOf(d, b + first, b + last)
<1>0. /\ b \in Nat /\ m \in Nat /\ last + 1 <= Len(ls)
      /\ b + last + 1 <= Len(d)
  BY DEF Window
<1>1. x \in Seq(Text) /\ y \in Seq(Text)
  BY <1>0 DEF LinesOf
<1>2. Len(x) = last + 1 - first /\ Len(y) = last + 1 - first
  BY <1>0 DEF LinesOf
<1>3. ASSUME NEW j \in 1..Len(x)
      PROVE  x[j] = y[j]
  <2>1. j \in 1..last + 1 - first /\ first + j \in 1..m
    BY <1>2, <1>3 DEF Window
  <2>2. x[j] = ls[first + j]
    BY <2>1 DEF LinesOf, Window
  <2>3. y[j] = d[b + (first + j)]
    BY <2>1 DEF LinesOf, Window
  <2>4. QED
    BY <2>1, <2>2, <2>3 DEF Window
<1> HIDE DEF x, y
<1>4. x = y
  BY <1>1, <1>2, <1>3, SeqEqual
<1>5. QED
  BY <1>4 DEF x, y

(***************************************************************************)
(* commit_block does the same in both numberings.                          *)
(***************************************************************************)
LEMMA CommitShift ==
  ASSUME NEW ls \in Seq(Text), NEW d \in Seq(Text), NEW c \in Cursor, NEW m,
         Window(ls, d, c.base, m), NEW end \in Nat, c.start <= end, end < m
  PROVE  Shift(Commit(ls, c, end)) = Commit(d, Shift(c), c.base + end)
<1> DEFINE s == Shift(c)
           x == Commit(ls, c, end)
           y == Commit(d, s, c.base + end)
           raw == LinesOf(ls, c.start, end)
<1>1. /\ c.base \in Nat /\ c.start \in Nat /\ end < Len(ls)
      /\ c.base + end \in Nat /\ c.base + end < Len(d)
  BY CursorFields DEF Window
<1>2. /\ s \in Cursor /\ s.base = 0 /\ s.start = c.base + c.start
      /\ s.id = c.id /\ s.nextId = c.nextId /\ s.mode = c.mode
      /\ s.committed = c.committed /\ s.start <= c.base + end
  BY <1>1, ShiftFacts
<1>3. raw = LinesOf(d, s.start, c.base + end)
  BY <1>1, <1>2, SameLines
<1>4. BlockAt(c, raw) = BlockAt(s, raw)
  <2> HIDE DEF s, raw
  <2>1. s.base + s.start = c.base + c.start
    BY <1>1, <1>2
  <2>2. QED
    BY <1>2, <2>1 DEF BlockAt
<1> HIDE DEF s
<1>5. /\ x \in Cursor /\ x.base = c.base /\ x.start = end + 1
      /\ x.id = c.nextId /\ x.nextId = c.nextId + 1
      /\ x.committed = IF AllBlank(raw) THEN c.committed
                       ELSE Append(c.committed, BlockAt(c, raw))
      /\ x.mode = "Unknown" /\ x.inner = NoPayload
  BY <1>1, CommitShape, CommitMode
<1>6. /\ y \in Cursor /\ y.base = 0 /\ y.start = c.base + end + 1
      /\ y.id = c.nextId /\ y.nextId = c.nextId + 1
      /\ y.committed = IF AllBlank(raw) THEN c.committed
                       ELSE Append(c.committed, BlockAt(c, raw))
      /\ y.mode = "Unknown" /\ y.inner = NoPayload
  <2>1. /\ c.base + end \in Nat /\ s.start <= c.base + end
        /\ c.base + end < Len(d)
    BY <1>1, <1>2
  <2>2. y.mode = "Unknown" /\ y.inner = NoPayload
    BY <1>2, <2>1, CommitMode
  <2>3. /\ y \in Cursor /\ y.base = s.base /\ y.start = c.base + end + 1
        /\ y.id = s.nextId /\ y.nextId = s.nextId + 1
        /\ y.committed = IF AllBlank(raw) THEN s.committed
                         ELSE Append(s.committed, BlockAt(s, raw))
    BY <1>2, <1>3, <2>1, CommitShape
  <2>4. QED
    BY <1>2, <1>4, <2>2, <2>3
<1> HIDE DEF x, y, raw
<1>7. /\ Shift(x) \in Cursor /\ Shift(x).base = 0
      /\ Shift(x).start = c.base + (end + 1)
      /\ Shift(x).id = x.id /\ Shift(x).nextId = x.nextId
      /\ Shift(x).mode = x.mode /\ Shift(x).inner = x.inner
      /\ Shift(x).committed = x.committed
  BY <1>5, ShiftFacts
<1>8. /\ Shift(x) \in Cursor /\ y \in Cursor /\ Shift(x).base = y.base
      /\ Shift(x).start = y.start /\ Shift(x).id = y.id
      /\ Shift(x).nextId = y.nextId /\ Shift(x).mode = y.mode
      /\ Shift(x).inner = y.inner /\ Shift(x).committed = y.committed
  <2>1. Shift(x).start = y.start
    BY <1>1, <1>6, <1>7
  <2>2. Shift(x).committed = y.committed
    BY <1>5, <1>6, <1>7
  <2>3. QED
    BY <1>5, <1>6, <1>7, <2>1, <2>2
<1>9. Shift(x) = y
  BY <1>8, CursorEq
<1>10. QED
  BY <1>9 DEF x, y, s

(***************************************************************************)
(* The lines ls are a window of d where the cursor c says, and no table    *)
(* header can have been dropped before them.                               *)
(***************************************************************************)
Aligned(ls, d, c, m) ==
  /\ ls \in Seq(Text) /\ d \in Seq(Text) /\ c \in Cursor
  /\ Window(ls, d, c.base, m)
  /\ c.base = 0 \/ NoTables

(***************************************************************************)
(* commit_block does the same in both numberings, wherever the block       *)
(* starts, and stays aligned.                                              *)
(***************************************************************************)
LEMMA CommitAligned ==
  ASSUME NEW ls, NEW d, NEW c, NEW m, Aligned(ls, d, c, m),
         NEW end \in Nat, end < m
  PROVE  /\ Shift(Commit(ls, c, end)) = Commit(d, Shift(c), c.base + end)
         /\ Aligned(ls, d, Commit(ls, c, end), m)
         /\ Commit(ls, c, end).base = c.base
<1>1. /\ ls \in Seq(Text) /\ d \in Seq(Text) /\ c \in Cursor
      /\ Window(ls, d, c.base, m) /\ end < Len(ls)
      /\ c.base \in Nat /\ c.start \in Nat
  BY CursorFields DEF Aligned, Window
<1>2. CASE c.start <= end
  <2>1. Commit(ls, c, end) \in Cursor /\ Commit(ls, c, end).base = c.base
    BY <1>1, <1>2, CommitShape
  <2>2. QED
    BY <1>1, <1>2, <2>1, CommitShift DEF Aligned
<1>3. CASE c.start > end
  <2>1. Commit(ls, c, end) = c
    BY <1>1, <1>3, CommitLater
  <2>2. c.base + end < Shift(c).start
    BY <1>1, <1>3, ShiftFacts
  <2>3. Commit(d, Shift(c), c.base + end) = Shift(c)
    BY <2>2, CommitLater
  <2>4. QED
    BY <2>1, <2>3
<1>4. QED
  BY <1>1, <1>2, <1>3

(***************************************************************************)
(* A cursor that differs from an aligned one in the mode and its payload.  *)
(***************************************************************************)
LEMMA ModeAligned ==
  ASSUME NEW ls, NEW d, NEW c, NEW m, Aligned(ls, d, c, m),
         NEW e \in Cursor, e.base = c.base
  PROVE  Aligned(ls, d, e, m)
BY DEF Aligned

(***************************************************************************)
(* To open a block at a line does not depend on the numbering.             *)
(***************************************************************************)
LEMMA StartAtShift ==
  ASSUME NEW c \in Cursor, NEW t \in Text
  PROVE  Shift(StartAt(c, t)) = StartAt(Shift(c), t)
<1> DEFINE e == StartAt(c, t)
           x == Shift(e)
           s == Shift(c)
           y == StartAt(s, t)
<1>1. /\ e \in Cursor /\ e.base = c.base /\ e.start = c.start
      /\ e.id = c.id /\ e.nextId = c.nextId /\ e.mode = StartMode(t)
      /\ e.inner = Enter[t] /\ e.committed = c.committed
  BY StartAtFields
<1>2. /\ s \in Cursor /\ s.base = 0 /\ s.start = c.base + c.start
      /\ s.id = c.id /\ s.nextId = c.nextId /\ s.committed = c.committed
  BY ShiftFacts
<1> HIDE DEF e, s
<1>3. /\ x \in Cursor /\ x.base = 0 /\ x.start = e.base + e.start
      /\ x.id = e.id /\ x.nextId = e.nextId /\ x.mode = e.mode
      /\ x.inner = e.inner /\ x.committed = e.committed
  BY <1>1, ShiftFacts
<1>4. /\ y \in Cursor /\ y.base = s.base /\ y.start = s.start
      /\ y.id = s.id /\ y.nextId = s.nextId /\ y.mode = StartMode(t)
      /\ y.inner = Enter[t] /\ y.committed = s.committed
  BY <1>2, StartAtFields
<1> HIDE DEF x, y
<1>5. x = y
  BY <1>1, <1>2, <1>3, <1>4, CursorEq
<1>6. QED
  BY <1>5 DEF x, y, e, s

(***************************************************************************)
(* The same for a change of the mode, and of the payload.                  *)
(***************************************************************************)
LEMMA SetModeShift ==
  ASSUME NEW c \in Cursor, NEW mode \in Mode
  PROVE  /\ [c EXCEPT !.mode = mode] \in Cursor
         /\ [c EXCEPT !.mode = mode].base = c.base
         /\ [c EXCEPT !.mode = mode].start = c.start
         /\ Shift([c EXCEPT !.mode = mode]) = [Shift(c) EXCEPT !.mode = mode]
<1> DEFINE e == [c EXCEPT !.mode = mode]
           s == Shift(c)
           x == Shift(e)
           y == [s EXCEPT !.mode = mode]
<1>1. /\ e \in Cursor /\ e.base = c.base /\ e.start = c.start
      /\ e.id = c.id /\ e.nextId = c.nextId /\ e.mode = mode
      /\ e.inner = c.inner /\ e.committed = c.committed
  BY DEF Cursor
<1>2. /\ s \in Cursor /\ s.base = 0 /\ s.start = c.base + c.start
      /\ s.id = c.id /\ s.nextId = c.nextId /\ s.inner = c.inner
      /\ s.committed = c.committed
  BY ShiftFacts
<1> HIDE DEF e, s
<1>3. /\ x \in Cursor /\ x.base = 0 /\ x.start = e.base + e.start
      /\ x.id = e.id /\ x.nextId = e.nextId /\ x.mode = e.mode
      /\ x.inner = e.inner /\ x.committed = e.committed
  BY <1>1, ShiftFacts
<1>4. /\ y \in Cursor /\ y.base = s.base /\ y.start = s.start
      /\ y.id = s.id /\ y.nextId = s.nextId /\ y.mode = mode
      /\ y.inner = s.inner /\ y.committed = s.committed
  BY <1>2 DEF Cursor
<1> HIDE DEF x, y
<1>5. x = y
  BY <1>1, <1>2, <1>3, <1>4, CursorEq
<1>6. QED
  BY <1>1, <1>5 DEF x, y, e, s

(***************************************************************************)
(* Reading a payload does not depend on where line 0 is.                   *)
(***************************************************************************)
LEMMA SetInnerShift ==
  ASSUME NEW c \in Cursor, NEW p \in Inner
  PROVE  /\ [c EXCEPT !.inner = p] \in Cursor
         /\ [c EXCEPT !.inner = p].base = c.base
         /\ [c EXCEPT !.inner = p].start = c.start
         /\ [c EXCEPT !.inner = p].inner = p
         /\ Shift([c EXCEPT !.inner = p]) = [Shift(c) EXCEPT !.inner = p]
         /\ [Shift(c) EXCEPT !.inner = p].inner = p
<1> DEFINE e == [c EXCEPT !.inner = p]
           s == Shift(c)
           x == Shift(e)
           y == [s EXCEPT !.inner = p]
<1>1. /\ e \in Cursor /\ e.base = c.base /\ e.start = c.start
      /\ e.id = c.id /\ e.nextId = c.nextId /\ e.mode = c.mode
      /\ e.inner = p /\ e.committed = c.committed
  BY DEF Cursor
<1>2. /\ s \in Cursor /\ s.base = 0 /\ s.start = c.base + c.start
      /\ s.id = c.id /\ s.nextId = c.nextId /\ s.mode = c.mode
      /\ s.committed = c.committed
  BY ShiftFacts
<1> HIDE DEF e, s
<1>3. /\ x \in Cursor /\ x.base = 0 /\ x.start = e.base + e.start
      /\ x.id = e.id /\ x.nextId = e.nextId /\ x.mode = e.mode
      /\ x.inner = e.inner /\ x.committed = e.committed
  BY <1>1, ShiftFacts
<1>4. /\ y \in Cursor /\ y.base = s.base /\ y.start = s.start
      /\ y.id = s.id /\ y.nextId = s.nextId /\ y.mode = s.mode
      /\ y.inner = p /\ y.committed = s.committed
  BY <1>2 DEF Cursor
<1> HIDE DEF x, y
<1>5. x = y
  BY <1>1, <1>2, <1>3, <1>4, CursorEq
<1>6. QED
  BY <1>1, <1>4, <1>5 DEF x, y, e, s

-----------------------------------------------------------------------------
(***************************************************************************)
(* What the steps of process_line do does not depend on the numbering of   *)
(* lines: first the commit of a heading or of a thematic break.            *)
(***************************************************************************)
LEMMA CommitSingleLineShift ==
  ASSUME NEW ls, NEW d, NEW c, NEW m, Aligned(ls, d, c, m),
         NEW i \in Nat, i < m
  PROVE  /\ Shift(CommitSingleLine(ls, c, i))
              = CommitSingleLine(d, Shift(c), c.base + i)
         /\ Aligned(ls, d, CommitSingleLine(ls, c, i), m)
         /\ CommitSingleLine(ls, c, i).base = c.base
<1>1. c \in Cursor
  BY DEF Aligned
<1>2. QED
  BY <1>1, CommitAligned, ShiftFacts DEF CommitSingleLine

(***************************************************************************)
(* Line i of ls is line c.base + i of d, and so is the line before it.     *)
(***************************************************************************)
LEMMA SameLine ==
  ASSUME NEW ls, NEW d, NEW c, NEW m, Aligned(ls, d, c, m),
         NEW i \in Nat, i < m
  PROVE  /\ ls[i + 1] \in Text /\ ls[i + 1] = d[c.base + i + 1]
         /\ i > 0 => ls[i] \in Text /\ ls[i] = d[c.base + i]
<1> DEFINE b == c.base
<1>1. /\ b \in Nat /\ m \in Nat /\ m <= Len(ls) /\ ls \in Seq(Text)
      /\ \A j \in 1..m : ls[j] = d[b + j]
  BY DEF Aligned, Window
<1> HIDE DEF b
<1>2. i + 1 \in 1..m /\ i + 1 \in 1..Len(ls) /\ b + (i + 1) = b + i + 1
  BY <1>1
<1>3. ls[i + 1] \in Text /\ ls[i + 1] = d[b + i + 1]
  BY <1>1, <1>2
<1>4. ASSUME i > 0
      PROVE  ls[i] \in Text /\ ls[i] = d[b + i]
  <2>1. i \in 1..m /\ i \in 1..Len(ls)
    BY <1>1, <1>4
  <2>2. QED
    BY <1>1, <2>1
<1>5. QED
  BY <1>3, <1>4 DEF b

(***************************************************************************)
(* Nor does the end of an HTML, math or custom block.                      *)
(***************************************************************************)
LEMMA CloseOnLineShift ==
  ASSUME NEW ls, NEW d, NEW c, NEW m, Aligned(ls, d, c, m),
         NEW i \in Nat, i < m
  PROVE  /\ Shift(CloseOnLine(ls, c, i))
              = CloseOnLine(d, Shift(c), c.base + i)
         /\ Aligned(ls, d, CloseOnLine(ls, c, i), m)
         /\ CloseOnLine(ls, c, i).base = c.base
<1> DEFINE t == ls[i + 1]
           p == Scan[<<c.inner, t>>]
           e == [c EXCEPT !.inner = p]
           s == [Shift(c) EXCEPT !.inner = p]
<1>0. c \in Cursor
  BY DEF Aligned
<1>1. /\ c.inner \in Inner /\ t \in Text
      /\ t = d[c.base + i + 1] /\ Shift(c).inner = c.inner
  BY <1>0, SameLine, CursorFields, ShiftFacts
<1>2. p \in Inner
  BY <1>1, PayloadType
<1> HIDE DEF p
<1>3. /\ e \in Cursor /\ e.base = c.base /\ e.inner = p
      /\ Shift(e) = s /\ s.inner = p
  BY <1>0, <1>1, <1>2, SetInnerShift
<1>4. CloseOnLine(ls, c, i) = IF e.inner \in Shut THEN Commit(ls, e, i) ELSE e
  BY DEF CloseOnLine, p
<1>5. CloseOnLine(d, Shift(c), c.base + i)
        = IF s.inner \in Shut THEN Commit(d, s, c.base + i) ELSE s
  BY <1>1 DEF CloseOnLine, p
<1> HIDE DEF e, s, t
<1>6. Aligned(ls, d, e, m)
  BY <1>3, ModeAligned
<1>7. /\ Shift(Commit(ls, e, i)) = Commit(d, s, c.base + i)
      /\ Aligned(ls, d, Commit(ls, e, i), m)
      /\ Commit(ls, e, i).base = c.base
  BY <1>3, <1>6, CommitAligned
<1>8. QED
  BY <1>3, <1>4, <1>5, <1>6, <1>7

(***************************************************************************)
(* Nor does the end of a code fence.                                       *)
(***************************************************************************)
LEMMA CloseFenceShift ==
  ASSUME NEW ls, NEW d, NEW c, NEW m, Aligned(ls, d, c, m),
         NEW i \in Nat, i < m
  PROVE  /\ Shift(CloseFence(ls, c, i)) = CloseFence(d, Shift(c), c.base + i)
         /\ Aligned(ls, d, CloseFence(ls, c, i), m)
         /\ CloseFence(ls, c, i).base = c.base
<1>0. c \in Cursor
  BY DEF Aligned
<1>1. /\ c.base \in Nat /\ c.start \in Nat
      /\ ls[i + 1] = d[c.base + i + 1] /\ Shift(c).inner = c.inner
      /\ Shift(c).start = c.base + c.start
  BY <1>0, SameLine, CursorFields, ShiftFacts
<1>2. i > c.start <=> c.base + i > Shift(c).start
  BY <1>1
<1>3. /\ Shift(Commit(ls, c, i)) = Commit(d, Shift(c), c.base + i)
      /\ Aligned(ls, d, Commit(ls, c, i), m)
      /\ Commit(ls, c, i).base = c.base
  BY CommitAligned
<1>4. QED
  BY <1>1, <1>2, <1>3 DEF CloseFence

(***************************************************************************)
(* A delimiter row at line 0 makes no table where line 0 is not the first  *)
(* of the document: hence no tables in a stream that drops lines.          *)
(***************************************************************************)
LEMMA UpgradeParagraphShift ==
  ASSUME NEW ls, NEW d, NEW c, NEW m, Aligned(ls, d, c, m),
         NEW i \in Nat, i < m
  PROVE  /\ Shift(UpgradeParagraph(ls, c, i))
              = UpgradeParagraph(d, Shift(c), c.base + i)
         /\ Aligned(ls, d, UpgradeParagraph(ls, c, i), m)
         /\ UpgradeParagraph(ls, c, i).base = c.base
<1> DEFINE b == c.base
           h == [c EXCEPT !.mode = "Heading"]
           r == [c EXCEPT !.mode = "Table"]
           s == Shift(c)
           heading(x, e, k) == /\ k > 0 /\ k = e.start + 1
                               /\ Has(x[k + 1], "setext") /\ ~Blank(x[k])
           table(x, k) == k > 0 /\ Has(x[k + 1], "delimiter")
                          /\ Has(x[k], "pipe")
<1>0. d \in Seq(Text) /\ b + m <= Len(d) /\ m \in Nat /\ b \in Nat
  BY DEF Aligned, Window
<1>1. c \in Cursor /\ b \in Nat /\ c.start \in Nat /\ (b = 0 \/ NoTables)
  BY CursorFields DEF Aligned, Window
<1>2. s.start = b + c.start
  BY <1>1, ShiftFacts
<1>3. /\ ls[i + 1] \in Text /\ ls[i + 1] = d[b + i + 1]
      /\ i > 0 => ls[i] = d[b + i]
  BY SameLine
<1>4. heading(ls, c, i) <=> heading(d, s, b + i)
  <2>1. CASE i > 0
    <3>1. b + i > 0 /\ (i = c.start + 1 <=> b + i = s.start + 1)
      BY <1>1, <1>2, <2>1
    <3>2. QED
      BY <1>3, <2>1, <3>1
  <2>2. CASE i = 0
    <3>1. b + i # s.start + 1
      BY <1>1, <1>2, <2>2
    <3>2. QED
      BY <2>2, <3>1
  <2>3. QED
    BY <2>1, <2>2
<1>5. table(ls, i) <=> table(d, b + i)
  <2>1. CASE i > 0
    BY <1>1, <1>3, <2>1
  <2>2. CASE i = 0 /\ b = 0
    BY <2>2
  <2>3. CASE i = 0 /\ b # 0
    <3>1. d[b + i] \in Text /\ d[b + i + 1] \in Text
      <4>1. b \in Nat /\ b # 0 /\ b + 1 <= Len(d)
        BY <1>0, <2>3
      <4>2. d[b] \in Text /\ d[b + 1] \in Text
        BY <1>0, <4>1, TwoLines
      <4>3. b + i = b
        BY <2>3, <4>1
      <4>4. QED
        BY <4>2, <4>3
    <3>2. ~table(d, b + i)
      BY <1>1, <2>3, <3>1 DEF NoTables
    <3>3. QED
      BY <2>3, <3>2
  <2>4. QED
    BY <2>1, <2>2, <2>3
<1>6. /\ h \in Cursor /\ h.base = b
      /\ Shift(h) = [s EXCEPT !.mode = "Heading"]
      /\ r \in Cursor /\ r.base = b
      /\ Shift(r) = [s EXCEPT !.mode = "Table"]
  BY <1>1, SetModeShift DEF Mode
<1>7. /\ UpgradeParagraph(ls, c, i) =
           IF heading(ls, c, i) THEN Commit(ls, h, i)
           ELSE IF table(ls, i) THEN r ELSE c
      /\ UpgradeParagraph(d, s, b + i) =
           IF heading(d, s, b + i)
           THEN Commit(d, [s EXCEPT !.mode = "Heading"], b + i)
           ELSE IF table(d, b + i) THEN [s EXCEPT !.mode = "Table"] ELSE s
  BY DEF UpgradeParagraph
<1> HIDE DEF h, r, heading, table
<1>8. Aligned(ls, d, h, m) /\ Aligned(ls, d, r, m)
  BY <1>6, ModeAligned
<1>9. /\ Shift(Commit(ls, h, i)) = Commit(d, Shift(h), b + i)
      /\ Aligned(ls, d, Commit(ls, h, i), m)
      /\ Commit(ls, h, i).base = b
  BY <1>6, <1>8, CommitAligned
<1>10. CASE heading(ls, c, i)
  BY <1>4, <1>6, <1>7, <1>9, <1>10
<1>11. CASE ~heading(ls, c, i) /\ table(ls, i)
  BY <1>4, <1>5, <1>6, <1>7, <1>8, <1>11
<1>12. CASE ~heading(ls, c, i) /\ ~table(ls, i)
  BY <1>4, <1>5, <1>7, <1>12
<1>13. QED
  BY <1>10, <1>11, <1>12

(***************************************************************************)
(* update_mode_with_line does the same in both numberings.                 *)
(***************************************************************************)
LEMMA UpdateModeShift ==
  ASSUME NEW ls, NEW d, NEW c, NEW m, Aligned(ls, d, c, m),
         NEW i \in Nat, i < m
  PROVE  /\ Shift(UpdateMode(ls, c, i)) = UpdateMode(d, Shift(c), c.base + i)
         /\ Aligned(ls, d, UpdateMode(ls, c, i), m)
         /\ UpdateMode(ls, c, i).base = c.base
<1> DEFINE k == c.base + i
           s == Shift(c)
           t == ls[i + 1]
<1>0. c \in Cursor
  BY DEF Aligned
<1>1. /\ s.mode = c.mode /\ c.mode \in Mode
      /\ t \in Text /\ t = d[k + 1]
  BY <1>0, SameLine, CursorFields, ShiftFacts
<1>2. CASE c.mode = "Unknown"
  <2> DEFINE e == StartAt(c, t)
  <2>1. /\ Aligned(ls, d, e, m) /\ e.base = c.base
        /\ Shift(e) = StartAt(s, t)
    BY <1>0, <1>1, StartAtFields, StartAtShift, ModeAligned
  <2> HIDE DEF e
  <2>2. /\ UpdateMode(ls, c, i) = CommitSingleLine(ls, e, i)
        /\ UpdateMode(d, s, k) = CommitSingleLine(d, Shift(e), k)
    BY <1>1, <1>2, <2>1 DEF UpdateMode, e
  <2>3. QED
    BY <2>1, <2>2, CommitSingleLineShift
<1>3. CASE c.mode = "CodeFence"
  <2>1. /\ UpdateMode(ls, c, i) = CloseFence(ls, c, i)
        /\ UpdateMode(d, s, k) = CloseFence(d, s, k)
    BY <1>1, <1>3 DEF UpdateMode
  <2>2. QED
    BY <2>1, CloseFenceShift
<1>4. CASE c.mode \in {"CustomBoundary", "MathBlock", "HtmlBlock"}
  <2>1. /\ UpdateMode(ls, c, i) = CloseOnLine(ls, c, i)
        /\ UpdateMode(d, s, k) = CloseOnLine(d, s, k)
    BY <1>1, <1>4 DEF UpdateMode
  <2>2. QED
    BY <2>1, CloseOnLineShift
<1>5. CASE c.mode = "Paragraph"
  <2>1. /\ UpdateMode(ls, c, i) = UpgradeParagraph(ls, c, i)
        /\ UpdateMode(d, s, k) = UpgradeParagraph(d, s, k)
    BY <1>1, <1>5 DEF UpdateMode
  <2>2. QED
    BY <2>1, UpgradeParagraphShift
<1>6. CASE c.mode \notin {"Unknown", "CodeFence", "CustomBoundary",
                          "MathBlock", "HtmlBlock", "Paragraph"}
  <2>1. UpdateMode(ls, c, i) = c /\ UpdateMode(d, s, k) = s
    BY <1>1, <1>6 DEF UpdateMode
  <2>2. QED
    BY <2>1
<1>7. QED
  BY <1>2, <1>3, <1>4, <1>5, <1>6

(***************************************************************************)
(* To open a block does the same in both numberings, and the mode of the   *)
(* cursor before does not matter.                                          *)
(***************************************************************************)
LEMMA OpenBlockShift ==
  ASSUME NEW ls, NEW d, NEW c, NEW m, Aligned(ls, d, c, m),
         NEW i \in Nat, i < m
  PROVE  /\ Shift(OpenBlock(ls, c, i)) = OpenBlock(d, Shift(c), c.base + i)
         /\ Aligned(ls, d, OpenBlock(ls, c, i), m)
         /\ OpenBlock(ls, c, i).base = c.base
<1> DEFINE k == c.base + i
           t == ls[i + 1]
           e == StartAt(c, t)
           f == CommitSingleLine(ls, e, i)
<1>0. c \in Cursor
  BY DEF Aligned
<1>a. t \in Text /\ t = d[k + 1]
  BY SameLine
<1>1. /\ Aligned(ls, d, e, m) /\ e.base = c.base
      /\ Shift(e) = StartAt(Shift(c), d[k + 1])
  BY <1>0, <1>a, StartAtFields, StartAtShift, ModeAligned
<1> HIDE DEF e
<1>2. /\ Shift(f) = CommitSingleLine(d, Shift(e), k)
      /\ Aligned(ls, d, f, m) /\ f.base = c.base
  BY <1>1, CommitSingleLineShift
<1>3. /\ OpenBlock(ls, c, i) = UpdateMode(ls, f, i)
      /\ OpenBlock(d, Shift(c), k)
           = UpdateMode(d, CommitSingleLine(d, Shift(e), k), k)
  BY <1>1 DEF OpenBlock, e
<1> HIDE DEF f
<1>4. QED
  BY <1>2, <1>3, UpdateModeShift

(***************************************************************************)
(* is_new_block_boundary says the same in both numberings.                 *)
(***************************************************************************)
LEMMA BoundaryShift ==
  ASSUME NEW ls, NEW d, NEW c, NEW m, Aligned(ls, d, c, m),
         NEW i \in Nat, i < m, i > 0, c.start <= i
  PROVE  Boundary(ls, c, i) <=> Boundary(d, Shift(c), c.base + i)
<1> DEFINE k == c.base + i
           s == Shift(c)
<1>0. c \in Cursor
  BY DEF Aligned
<1>1. /\ c.base \in Nat /\ c.start \in Nat /\ c.start < m
      /\ s.start = c.base + c.start /\ s.mode = c.mode /\ s.inner = c.inner
  <2>1. m \in Nat
    BY DEF Aligned, Window
  <2>2. QED
    BY <1>0, <2>1, CursorFields, ShiftFacts
<1>2. ls[i + 1] = d[k + 1] /\ ls[i] = d[k]
  BY SameLine
<1>3. ls[c.start + 1] = d[s.start + 1]
  BY <1>1, SameLine
<1>4. /\ c.start + 1 = i <=> s.start + 1 = k
      /\ c.start < i - 1 <=> s.start < k - 1
  BY <1>1
<1> HIDE DEF k, s
<1>5. Inside(c) <=> Inside(s)
  BY <1>1 DEF Inside
<1>6. AfterBlank(ls, i) <=> AfterBlank(d, k)
  BY <1>2 DEF AfterBlank
<1>7. \A t : ContinuesContainer(ls, c, t) <=> ContinuesContainer(d, s, t)
  BY <1>1, <1>3 DEF ContinuesContainer, BlockIs
<1>8. SetextUnderline(ls, c, i) <=> SetextUnderline(d, s, k)
  BY <1>1, <1>2, <1>4 DEF SetextUnderline, InParagraph
<1>9. Interrupts(ls, c, i) <=> Interrupts(d, s, k)
  BY <1>1, <1>2, <1>4 DEF Interrupts, InParagraph
<1>10. Boundary(ls, c, i) <=> Boundary(d, s, k)
  BY <1>1, <1>2, <1>5, <1>6, <1>7, <1>8, <1>9 DEF Boundary
<1>11. QED
  BY <1>10 DEF k, s

(***************************************************************************)
(* process_line does the same in both numberings.                          *)
(***************************************************************************)
LEMMA ProcessShift ==
  ASSUME NEW ls, NEW d, NEW c, NEW m, Aligned(ls, d, c, m),
         NEW i \in Nat, i < m, c.start <= i
  PROVE  /\ Shift(Process(ls, c, i)) = Process(d, Shift(c), c.base + i)
         /\ Process(ls, c, i).base = c.base
<1> DEFINE k == c.base + i
           s == Shift(c)
           e == Commit(ls, c, i - 1)
<1>0. c \in Cursor
  BY DEF Aligned
<1>1. /\ c.base \in Nat /\ c.start \in Nat
      /\ i = c.start <=> k = s.start
  BY <1>0, CursorFields, ShiftFacts
<1>2. CASE i = c.start
  <2>1. /\ Process(ls, c, i) = OpenBlock(ls, c, i)
        /\ Process(d, s, k) = OpenBlock(d, s, k)
    BY <1>1, <1>2 DEF Process
  <2>2. QED
    BY <2>1, OpenBlockShift
<1>3. CASE i # c.start /\ Boundary(ls, c, i)
  <2>1. i > 0 /\ i - 1 \in Nat /\ i - 1 < m /\ c.base + (i - 1) = k - 1
    <3>1. m \in Nat
      BY DEF Aligned, Window
    <3>2. QED
      BY <1>1, <1>3, <3>1
  <2>2. Boundary(d, s, k)
    BY <1>3, <2>1, BoundaryShift
  <2>3. /\ Shift(e) = Commit(d, s, k - 1)
        /\ Aligned(ls, d, e, m) /\ e.base = c.base
    BY <2>1, CommitAligned
  <2>4. /\ Process(ls, c, i) = OpenBlock(ls, e, i)
        /\ Process(d, s, k) = OpenBlock(d, Shift(e), k)
    BY <1>1, <1>3, <2>2, <2>3 DEF Process
  <2> HIDE DEF e
  <2>5. QED
    BY <2>3, <2>4, OpenBlockShift
<1>4. CASE i # c.start /\ ~Boundary(ls, c, i)
  <2>1. i > 0
    BY <1>1, <1>4
  <2>2. ~Boundary(d, s, k)
    BY <1>4, <2>1, BoundaryShift
  <2>3. /\ Process(ls, c, i) = UpdateMode(ls, c, i)
        /\ Process(d, s, k) = UpdateMode(d, s, k)
    BY <1>1, <1>4, <2>2 DEF Process
  <2>4. QED
    BY <2>3, UpdateModeShift
<1>5. QED
  BY <1>2, <1>3, <1>4

-----------------------------------------------------------------------------
(***************************************************************************)
(* f[n] is the cursor after the first n lines of d, up to the line last.   *)
(***************************************************************************)
IsScan(f, d, last) ==
  f = [n \in 0..last |-> IF n = 0 THEN FreshCursor(0)
                         ELSE Process(d, f[n - 1], n - 1)]

(***************************************************************************)
(* A document can be scanned to any line.                                  *)
(***************************************************************************)
LEMMA ScanExists ==
  ASSUME NEW d
  PROVE  \A last \in Nat : \E f : IsScan(f, d, last)
<1> DEFINE S == {last \in Nat : \E f : IsScan(f, d, last)}
<1>1. 0 \in S
  <2> DEFINE f == [n \in 0..0 |-> FreshCursor(0)]
  <2>1. f = [n \in 0..0 |-> IF n = 0 THEN FreshCursor(0)
                            ELSE Process(d, f[n - 1], n - 1)]
    OBVIOUS
  <2>2. QED
    BY <2>1 DEF IsScan
<1>2. ASSUME NEW N \in Nat, N \in S
      PROVE  N + 1 \in S
  <2>1. PICK f : IsScan(f, d, N)
    BY <1>2
  <2> DEFINE g == [n \in 0..N + 1 |-> IF n <= N THEN f[n]
                                      ELSE Process(d, f[N], N)]
             h == [n \in 0..N + 1 |-> IF n = 0 THEN FreshCursor(0)
                                      ELSE Process(d, g[n - 1], n - 1)]
  <2>2. ASSUME NEW n \in 0..N + 1
        PROVE  g[n] = h[n]
    <3>1. CASE n = 0
      BY <2>1, <3>1 DEF IsScan
    <3>2. CASE n \in 1..N
      <4>1. n - 1 \in 0..N + 1 /\ n - 1 <= N /\ n \in 0..N /\ n # 0
        BY <3>2
      <4>2. f[n] = Process(d, f[n - 1], n - 1)
        BY <2>1, <4>1 DEF IsScan
      <4>3. g[n - 1] = f[n - 1] /\ g[n] = f[n]
        BY <4>1
      <4>4. QED
        BY <4>1, <4>2, <4>3
    <3>3. CASE n = N + 1
      <4>1. n - 1 = N /\ n # 0 /\ ~(n <= N) /\ N \in 0..N + 1
        BY <3>3
      <4>2. g[N] = f[N] /\ g[n] = Process(d, f[N], N)
        BY <4>1
      <4>3. QED
        BY <4>1, <4>2
    <3>4. QED
      BY <3>1, <3>2, <3>3
  <2>3. g = h
    BY <2>2
  <2>4. IsScan(g, d, N + 1)
    BY <2>3 DEF IsScan
  <2>5. QED
    BY <2>4
<1> HIDE DEF S
<1>3. \A n \in Nat : n \in S
  BY <1>1, <1>2, NatInductive
<1>4. QED
  BY <1>3 DEF S

(***************************************************************************)
(* Two scans of one document agree where both are defined.                 *)
(***************************************************************************)
LEMMA ScanUnique ==
  ASSUME NEW d, NEW f, NEW g, NEW N \in Nat, NEW M \in Nat,
         IsScan(f, d, N), IsScan(g, d, M)
  PROVE  \A n \in Nat : n <= N /\ n <= M => f[n] = g[n]
<1> DEFINE S == {n \in Nat : n <= N /\ n <= M => f[n] = g[n]}
<1>1. 0 \in S
  BY DEF IsScan
<1>2. ASSUME NEW n \in Nat, n \in S
      PROVE  n + 1 \in S
  <2>1. SUFFICES ASSUME n + 1 <= N, n + 1 <= M
                 PROVE  f[n + 1] = g[n + 1]
    OBVIOUS
  <2>2. f[n] = g[n]
    BY <1>2, <2>1
  <2>3. n + 1 \in 0..N /\ n + 1 \in 0..M /\ n + 1 # 0 /\ (n + 1) - 1 = n
    BY <2>1
  <2>4. f[n + 1] = Process(d, f[n], n)
    BY <2>3 DEF IsScan
  <2>5. g[n + 1] = Process(d, g[n], n)
    BY <2>3 DEF IsScan
  <2>6. QED
    BY <2>2, <2>4, <2>5
<1> HIDE DEF S
<1>3. \A n \in Nat : n \in S
  BY <1>1, <1>2, NatInductive
<1>4. QED
  BY <1>3 DEF S

(***************************************************************************)
(* ScanTo is the value of such a scan.                                     *)
(***************************************************************************)
LEMMA ScanToIs ==
  ASSUME NEW d, NEW f, NEW N \in Nat, IsScan(f, d, N),
         NEW n \in Nat, n <= N
  PROVE  ScanTo(d, n) = f[n]
<1> DEFINE g == CHOOSE g : IsScan(g, d, n)
<1>1. IsScan(g, d, n)
  BY ScanExists
<1>2. ScanTo(d, n) = g[n]
  BY DEF ScanTo, IsScan
<1> HIDE DEF g
<1>3. f[n] = g[n]
  BY <1>1, ScanUnique
<1>4. QED
  BY <1>2, <1>3

(***************************************************************************)
(* The recursion of ScanTo: a scan starts with the cursor of a new stream, *)
(* and every line is processed once.                                       *)
(***************************************************************************)
LEMMA ScanStep ==
  ASSUME NEW d
  PROVE  /\ ScanTo(d, 0) = FreshCursor(0)
         /\ \A n \in Nat : ScanTo(d, n + 1) = Process(d, ScanTo(d, n), n)
<1>1. ScanTo(d, 0) = FreshCursor(0)
  <2>1. PICK f : IsScan(f, d, 0)
    BY ScanExists
  <2>2. ScanTo(d, 0) = f[0]
    BY <2>1, ScanToIs
  <2>3. QED
    BY <2>1, <2>2 DEF IsScan
<1>2. ASSUME NEW n \in Nat
      PROVE  ScanTo(d, n + 1) = Process(d, ScanTo(d, n), n)
  <2>1. PICK f : IsScan(f, d, n + 1)
    BY ScanExists
  <2>2. ScanTo(d, n + 1) = f[n + 1] /\ ScanTo(d, n) = f[n]
    BY <2>1, ScanToIs
  <2>3. n + 1 \in 0..n + 1 /\ n + 1 # 0 /\ (n + 1) - 1 = n
    OBVIOUS
  <2>4. f[n + 1] = Process(d, f[n], n)
    BY <2>1, <2>3 DEF IsScan
  <2>5. QED
    BY <2>2, <2>4
<1>3. QED
  BY <1>1, <1>2

(***************************************************************************)
(* A scan is sound, and the mode it leaves is that of the first line.      *)
(***************************************************************************)
LEMMA ScanSound ==
  ASSUME NEW d \in Seq(Text)
  PROVE  \A n \in Nat : n <= Len(d) =>
           /\ Sound(d, d, ScanTo(d, n), n)
           /\ ScanTo(d, n).start < n => FirstMode(d, ScanTo(d, n))
<1> DEFINE S == {n \in Nat : n <= Len(d) =>
                   /\ Sound(d, d, ScanTo(d, n), n)
                   /\ ScanTo(d, n).start < n => FirstMode(d, ScanTo(d, n))}
<1>1. 0 \in S
  <2> DEFINE c == FreshCursor(0)
  <2>1. /\ c \in Cursor /\ c.base = 0 /\ c.start = 0 /\ c.id = 1
        /\ c.nextId = 2 /\ c.committed = <<>>
    BY FreshShape
  <2> HIDE DEF c
  <2>2. IsRestOf(d, d, 0)
    BY DEF IsRestOf
  <2>3. /\ Covers(c.committed, d, 0) /\ Within(c.committed, 0)
        /\ Quotes(c.committed, d) /\ Increasing(c.committed)
        /\ AllBelow(c.committed, c.id)
    BY <2>1 DEF Covers, Within, Quotes, Increasing, AllBelow, EndOf,
                StartOf, BlankBetween
  <2>4. Sound(d, d, c, 0)
    BY <2>1, <2>2, <2>3 DEF Sound
  <2>5. ScanTo(d, 0) = c
    BY ScanStep DEF c
  <2>6. QED
    BY <2>1, <2>4, <2>5
<1>2. ASSUME NEW n \in Nat, n \in S
      PROVE  n + 1 \in S
  <2> DEFINE c == ScanTo(d, n)
             f == ScanTo(d, n + 1)
  <2>0. f = Process(d, c, n)
    BY ScanStep
  <2>1. SUFFICES ASSUME n + 1 <= Len(d)
                 PROVE  /\ Sound(d, d, f, n + 1)
                        /\ f.start < n + 1 => FirstMode(d, f)
    OBVIOUS
  <2>2. /\ Sound(d, d, c, n) /\ n < Len(d)
        /\ c.start < n => FirstMode(d, c)
    BY <1>2, <2>1
  <2>3. c \in Cursor /\ c.start <= n
    BY <2>2 DEF Sound
  <2> HIDE DEF c, f
  <2>4. Sound(d, d, f, n + 1)
    BY <2>0, <2>2, ProcessSound
  <2>5. f.start < n + 1 => FirstMode(d, f)
    BY <2>0, <2>2, <2>3, ProcessFirst
  <2>6. QED
    BY <2>4, <2>5
<1> HIDE DEF S
<1>3. \A n \in Nat : n \in S
  BY <1>1, <1>2, NatInductive
<1>4. QED
  BY <1>3 DEF S

(***************************************************************************)
(* The fields of a scan.                                                   *)
(***************************************************************************)
LEMMA ScanFields ==
  ASSUME NEW d \in Seq(Text), NEW n \in Nat, n <= Len(d)
  PROVE  /\ ScanTo(d, n) \in Cursor /\ ScanTo(d, n).base = 0
         /\ ScanTo(d, n).start \in Nat /\ ScanTo(d, n).start <= n
         /\ ScanTo(d, n).mode = "Unknown" => ScanTo(d, n).start = n
<1> DEFINE c == ScanTo(d, n)
<1>1. Sound(d, d, c, n) /\ (c.start < n => FirstMode(d, c))
  BY ScanSound
<1> HIDE DEF c
<1>2. c \in Cursor /\ c.start <= n /\ IsRestOf(d, d, c.base)
  BY <1>1 DEF Sound
<1>3. c.base \in Nat /\ c.start \in Nat
  BY <1>2, CursorFields
<1>4. c.base = 0
  BY <1>2, <1>3 DEF IsRestOf
<1>5. c.mode = "Unknown" => c.start = n
  BY <1>1, <1>2, <1>3, FirstModeKnown
<1>6. QED
  BY <1>2, <1>3, <1>4, <1>5 DEF c

(***************************************************************************)
(* Two documents with the same first N lines are windows of each other.    *)
(***************************************************************************)
LEMMA SameStart ==
  ASSUME NEW d \in Seq(Text), NEW e \in Seq(Text), NEW N \in Nat,
         N <= Len(d), N <= Len(e), \A j \in 1..N : d[j] = e[j],
         NEW c \in Cursor, c.base = 0
  PROVE  Aligned(d, e, c, N) /\ Shift(c) = c
<1>1. Window(d, e, 0, N)
  BY DEF Window
<1>2. QED
  BY <1>1, ShiftFacts DEF Aligned

(***************************************************************************)
(* A scan does not look ahead.                                             *)
(***************************************************************************)
LEMMA ScanLocal ==
  ASSUME NEW d \in Seq(Text), NEW e \in Seq(Text), NEW N \in Nat,
         N <= Len(d), N <= Len(e), \A j \in 1..N : d[j] = e[j]
  PROVE  \A n \in Nat : n <= N => ScanTo(d, n) = ScanTo(e, n)
<1> DEFINE S == {n \in Nat : n <= N => ScanTo(d, n) = ScanTo(e, n)}
<1>1. 0 \in S
  BY ScanStep
<1>2. ASSUME NEW n \in Nat, n \in S
      PROVE  n + 1 \in S
  <2> DEFINE c == ScanTo(d, n)
             f == Process(d, c, n)
  <2>1. SUFFICES ASSUME n + 1 <= N
                 PROVE  f = Process(e, c, n)
    <3>1. n <= N => ScanTo(d, n) = ScanTo(e, n)
      BY <1>2
    <3>2. n + 1 <= N => n <= N
      OBVIOUS
    <3>3. /\ ScanTo(d, n + 1) = f
          /\ ScanTo(e, n + 1) = Process(e, ScanTo(e, n), n)
      BY ScanStep
    <3> HIDE DEF f
    <3>4. QED
      BY <3>1, <3>2, <3>3
  <2>2. n < N /\ n <= Len(d) /\ n + 1 <= Len(d)
    BY <2>1
  <2>3. c \in Cursor /\ c.base = 0 /\ c.start <= n
    BY <2>2, ScanFields
  <2>4. f \in Cursor
    <3>1. f = ScanTo(d, n + 1)
      BY ScanStep
    <3>2. QED
      BY <2>2, <3>1, ScanFields
  <2> HIDE DEF c
  <2>5. Aligned(d, e, c, N) /\ Shift(c) = c
    BY <2>3, SameStart
  <2>6. Shift(f) = Process(e, c, c.base + n) /\ f.base = c.base
    BY <2>2, <2>3, <2>5, ProcessShift
  <2> HIDE DEF f
  <2>7. Shift(f) = f /\ c.base + n = n
    BY <2>3, <2>4, <2>6, ShiftFacts
  <2>8. QED
    BY <2>6, <2>7
<1> HIDE DEF S
<1>3. \A n \in Nat : n \in S
  BY <1>1, <1>2, NatInductive
<1>4. QED
  BY <1>3 DEF S

-----------------------------------------------------------------------------
(***************************************************************************)
(* The cursors agree on everything but the mode of the current block.      *)
(***************************************************************************)
Agree(c, S) ==
  /\ S.start = c.base + c.start
  /\ S.id = c.id /\ S.nextId = c.nextId /\ S.committed = c.committed

(***************************************************************************)
(* How the cursor c of the stream is related to S, the scan of the first n *)
(* lines of d: it is the same cursor; or its block starts at the line to   *)
(* be scanned next, whose mode is yet to be found; or the unfinished last  *)
(* line has committed the block that S still has open.                     *)
(***************************************************************************)
Ahead(d, c, S, n) ==
  /\ n >= 1 /\ S.start < n
  /\ Boundary(d, S, n)
  /\ Agree(c, Commit(d, S, n - 1))

Matches(d, c, S, n) ==
  \/ Shift(c) = S
  \/ c.base + c.start = n /\ (Agree(c, S) \/ Ahead(d, c, S, n))

(***************************************************************************)
(* The block that a boundary line has ended is committed.                  *)
(***************************************************************************)
Settled(d, c, S, n) == n >= 1 /\ Boundary(d, S, n) => c.base + c.start = n

(***************************************************************************)
(* A cursor agrees with itself, shifted.                                   *)
(***************************************************************************)
LEMMA SameAgree ==
  ASSUME NEW c \in Cursor, NEW S, Shift(c) = S
  PROVE  Agree(c, S)
BY ShiftFacts DEF Agree

(***************************************************************************)
(* A block that is opened at its first line forgets the mode it had.       *)
(***************************************************************************)
LEMMA OpenAgree ==
  ASSUME NEW ls, NEW d, NEW c, NEW m, Aligned(ls, d, c, m),
         NEW i \in Nat, i < m, NEW e \in Cursor, e.base = 0, Agree(c, e)
  PROVE  Shift(OpenBlock(ls, c, i)) = OpenBlock(d, e, c.base + i)
<1> DEFINE k == c.base + i
           t == d[k + 1]
           s == Shift(c)
           x == StartAt(s, t)
           y == StartAt(e, t)
<1>1. c \in Cursor
  BY DEF Aligned
<1>2. t \in Text
  BY SameLine
<1>3. /\ s \in Cursor /\ s.base = 0 /\ s.start = e.start /\ s.id = e.id
      /\ s.nextId = e.nextId /\ s.committed = e.committed
  BY <1>1, ShiftFacts DEF Agree
<1> HIDE DEF s, t
<1>4. /\ x \in Cursor /\ x.base = s.base /\ x.start = s.start
      /\ x.id = s.id /\ x.nextId = s.nextId /\ x.mode = StartMode(t)
      /\ x.inner = Enter[t] /\ x.committed = s.committed
  BY <1>2, <1>3, StartAtFields
<1>5. /\ y \in Cursor /\ y.base = e.base /\ y.start = e.start
      /\ y.id = e.id /\ y.nextId = e.nextId /\ y.mode = StartMode(t)
      /\ y.inner = Enter[t] /\ y.committed = e.committed
  BY <1>2, StartAtFields
<1> HIDE DEF x, y
<1>6. x = y
  BY <1>3, <1>4, <1>5, CursorEq
<1>7. OpenBlock(d, s, k) = OpenBlock(d, e, k)
  BY <1>6 DEF OpenBlock, x, y, t
<1>8. QED
  BY <1>7, OpenBlockShift DEF s

(***************************************************************************)
(* After one more line the cursors are the same.                           *)
(***************************************************************************)
LEMMA MatchesProcess ==
  ASSUME NEW ls, NEW d, NEW c, NEW m, Aligned(ls, d, c, m),
         NEW i \in Nat, i < m, c.start <= i,
         NEW S \in Cursor, S.base = 0, S.start <= c.base + i,
         Matches(d, c, S, c.base + i)
  PROVE  Shift(Process(ls, c, i)) = Process(d, S, c.base + i)
<1> DEFINE k == c.base + i
<1>1. /\ c \in Cursor /\ d \in Seq(Text) /\ c.base \in Nat /\ m \in Nat
      /\ c.base + m <= Len(d)
  BY DEF Aligned, Window
<1>2. c.start \in Nat /\ S.start \in Nat /\ k \in Nat
  BY <1>1, CursorFields
<1>3. CASE Shift(c) = S
  BY <1>3, ProcessShift
<1>4. CASE c.base + c.start = k /\ Agree(c, S)
  <2>1. c.start = i /\ S.start = k
    BY <1>1, <1>2, <1>4 DEF Agree
  <2>2. /\ Process(ls, c, i) = OpenBlock(ls, c, i)
        /\ Process(d, S, k) = OpenBlock(d, S, k)
    BY <2>1 DEF Process
  <2>3. QED
    BY <1>4, <2>2, OpenAgree
<1>5. CASE c.base + c.start = k /\ Ahead(d, c, S, k)
  <2> DEFINE e == Commit(d, S, k - 1)
  <2>1. /\ k - 1 \in Nat /\ S.start <= k - 1 /\ S.start # k /\ c.start = i
    BY <1>1, <1>2, <1>5 DEF Ahead
  <2>2. k - 1 < Len(d)
    <3>1. Len(d) \in Nat
      BY <1>1
    <3>2. QED
      BY <1>1, <1>2, <3>1
  <2>3. Boundary(d, S, k) /\ Agree(c, e)
    BY <1>5 DEF Ahead
  <2>4. e \in Cursor /\ e.base = 0
    BY <1>1, <2>1, <2>2, CommitShape
  <2>5. /\ Process(ls, c, i) = OpenBlock(ls, c, i)
        /\ Process(d, S, k) = OpenBlock(d, e, k)
    BY <2>1, <2>3 DEF Process
  <2> HIDE DEF e
  <2>6. QED
    BY <2>3, <2>4, <2>5, OpenAgree
<1>6. QED
  BY <1>3, <1>4, <1>5 DEF Matches

(***************************************************************************)
(* The cursor after process_incomplete_tail_boundary matches, and is       *)
(* settled.                                                                *)
(***************************************************************************)
LEMMA MatchesTail ==
  ASSUME NEW ls, NEW d, NEW c, NEW m, Aligned(ls, d, c, m),
         NEW n \in Nat, m = n + 1, Len(ls) = m, c.start <= n,
         NEW S \in Cursor, S.base = 0, S.start <= c.base + n,
         Matches(d, c, S, c.base + n)
  PROVE  LET e == TailBoundary(ls, c)
         IN  /\ Matches(d, e, S, c.base + n)
             /\ Settled(d, e, S, c.base + n)
<1> DEFINE k == c.base + n
           f == Commit(ls, c, n - 1)
           e == StartAt(f, ls[n + 1])
<1>1. /\ c \in Cursor /\ ls \in Seq(Text) /\ d \in Seq(Text)
      /\ c.base \in Nat /\ c.base + m <= Len(d)
  BY DEF Aligned, Window
<1>2. c.start \in Nat /\ k \in Nat /\ S.start \in Nat
  BY <1>1, CursorFields
<1>3. ls[n + 1] \in Text /\ Len(ls) - 1 = n
  BY <1>1
<1>4. CASE n >= 1 /\ Boundary(ls, c, n)
  <2>1. TailBoundary(ls, c) = e
    BY <1>3, <1>4 DEF TailBoundary
  <2>2. /\ n - 1 \in Nat /\ n - 1 < m /\ c.start <= (n - 1) + 1
        /\ n - 1 < Len(ls) /\ c.base + (n - 1) = k - 1 /\ k >= 1
    BY <1>1, <1>2, <1>4
  <2>3. f.start = n
    BY <1>1, <2>2, CommitAfter
  <2>4. Aligned(ls, d, f, m) /\ f.base = c.base
        /\ Shift(f) = Commit(d, Shift(c), k - 1)
    BY <2>2, CommitAligned
  <2>5. f \in Cursor
    BY <2>4 DEF Aligned
  <2>6. CASE c.start = n
    <3>1. f = c
      BY <2>2, <2>6, CommitLater
    <3>2. /\ e \in Cursor /\ e.base = c.base /\ e.start = c.start
          /\ e.id = c.id /\ e.nextId = c.nextId
          /\ e.committed = c.committed
      BY <1>1, <1>3, <3>1, StartAtFields
    <3> HIDE DEF e
    <3>3. \A x : Agree(c, x) <=> Agree(e, x)
      BY <3>2 DEF Agree
    <3>4. Agree(c, S) \/ Ahead(d, c, S, k)
      BY <1>1, SameAgree DEF Matches
    <3>5. Agree(e, S) \/ Ahead(d, e, S, k)
      BY <3>3, <3>4 DEF Ahead
    <3>6. e.base + e.start = k
      BY <2>6, <3>2
    <3>7. QED
      BY <2>1, <3>5, <3>6 DEF Matches, Settled
  <2>7. CASE c.start < n
    <3>1. c.base + c.start # k
      BY <1>1, <1>2, <2>7
    <3>2. Shift(c) = S
      BY <3>1 DEF Matches
    <3>3. Boundary(d, S, k)
      BY <1>4, <2>2, <3>2, BoundaryShift
    <3>4. S.start < k
      BY <1>1, <1>2, <2>7, <3>2, ShiftFacts
    <3>5. Agree(f, Commit(d, S, k - 1))
      BY <2>4, <2>5, <3>2, SameAgree
    <3>6. /\ e.base = f.base /\ e.start = f.start /\ e.id = f.id
          /\ e.nextId = f.nextId /\ e.committed = f.committed
      BY <1>3, <2>5, StartAtFields
    <3> HIDE DEF e, f
    <3>7. Agree(e, Commit(d, S, k - 1)) /\ e.base + e.start = k
      BY <2>3, <2>4, <3>5, <3>6 DEF Agree
    <3>8. QED
      BY <2>1, <2>2, <3>3, <3>4, <3>7 DEF Matches, Ahead, Settled
  <2>8. QED
    BY <1>2, <2>6, <2>7
<1>5. CASE ~(n >= 1 /\ Boundary(ls, c, n))
  <2>1. TailBoundary(ls, c) = c
    BY <1>3, <1>5 DEF TailBoundary
  <2>2. ASSUME k >= 1, Boundary(d, S, k), c.base + c.start # k
        PROVE  FALSE
    <3>1. Shift(c) = S
      BY <2>2 DEF Matches
    <3>2. n >= 1
      BY <1>2, <2>2
    <3>3. Boundary(ls, c, n)
      BY <2>2, <3>1, <3>2, BoundaryShift
    <3>4. QED
      BY <1>5, <3>2, <3>3
  <2>3. QED
    BY <2>1, <2>2 DEF Settled
<1>6. QED
  BY <1>4, <1>5

-----------------------------------------------------------------------------
(***************************************************************************)
(* A blank line starts no block.                                           *)
(***************************************************************************)
LEMMA BlankStays ==
  ASSUME PlainBlanks, NEW ls, NEW c, NEW i, ls[i + 1] \in Text,
         Blank(ls[i + 1])
  PROVE  ~Boundary(ls, c, i)
<1> DEFINE t == ls[i + 1]
<1>1. ~Has(t, "heading") /\ ~Has(t, "thematic") /\ ~Has(t, "fence")
      /\ ~Has(t, "plugin") /\ ~Has(t, "footnote_def") /\ ~Has(t, "quote")
      /\ ~Has(t, "item") /\ ~Has(t, "delimiter")
  BY DEF PlainBlanks, Has, Starter
<1>2. ~Interrupts(ls, c, i)
  BY <1>1 DEF Interrupts
<1>3. QED
  BY <1>2 DEF Boundary, AfterBlank

(***************************************************************************)
(* is_new_block_boundary looks at three lines only: the first one of the   *)
(* block, and the two before the place in question.                        *)
(***************************************************************************)
LEMMA ThreeLines ==
  ASSUME NEW d \in Seq(Text), NEW S \in Cursor, NEW n \in Nat,
         S.start < n, n < Len(d), ~Inside(S),
         NEW c,
         c = [FreshCursor(0) EXCEPT
                !.start = IF S.start + 1 = n THEN 1 ELSE 0,
                !.mode = IF S.mode \in {"MathBlock", "HtmlBlock"}
                         THEN "Heading" ELSE S.mode]
  PROVE  Boundary(<<d[S.start + 1], d[n], d[n + 1]>>, c, 2)
           <=> Boundary(d, S, n)
<1> DEFINE x == <<d[S.start + 1], d[n], d[n + 1]>>
<1>1. S.start \in Nat /\ S.mode \in Mode
  BY CursorFields
<1>2. /\ c.start = IF S.start + 1 = n THEN 1 ELSE 0
      /\ c.mode = IF S.mode \in {"MathBlock", "HtmlBlock"}
                  THEN "Heading" ELSE S.mode
  BY DEF FreshCursor
<1>3. x[2 + 1] = d[n + 1] /\ x[2] = d[n]
  OBVIOUS
<1>4. x[c.start + 1] = d[S.start + 1]
  <2>1. CASE S.start + 1 = n
    BY <1>2, <2>1
  <2>2. CASE S.start + 1 # n
    BY <1>2, <2>2
  <2>3. QED
    BY <2>1, <2>2
<1>5. /\ c.start + 1 = 2 <=> S.start + 1 = n
      /\ c.start < 2 - 1 <=> S.start < n - 1
  BY <1>1, <1>2
<1> HIDE DEF x
<1>6. /\ ~Inside(c)
      /\ InParagraph(c) <=> InParagraph(S)
      /\ c.mode = "FootnoteDefinition" <=> S.mode = "FootnoteDefinition"
      /\ c.mode = "BlockQuote" <=> S.mode = "BlockQuote"
      /\ c.mode = "List" <=> S.mode = "List"
  BY <1>2 DEF Inside, InParagraph
<1>7. AfterBlank(x, 2) <=> AfterBlank(d, n)
  BY <1>3 DEF AfterBlank
<1>8. ContinuesContainer(x, c, x[2 + 1])
        <=> ContinuesContainer(d, S, d[n + 1])
  BY <1>3, <1>4, <1>6 DEF ContinuesContainer, BlockIs
<1>9. SetextUnderline(x, c, 2) <=> SetextUnderline(d, S, n)
  BY <1>3, <1>5, <1>6 DEF SetextUnderline
<1>10. Interrupts(x, c, 2) <=> Interrupts(d, S, n)
  BY <1>3, <1>5, <1>6 DEF Interrupts
<1>11. Boundary(x, c, 2) <=> Boundary(d, S, n)
  BY <1>3, <1>6, <1>7, <1>8, <1>9, <1>10 DEF Boundary
<1>12. QED
  BY <1>11 DEF x

(***************************************************************************)
(* If an unfinished line ends the block before it, so does every line that *)
(* it can become.                                                          *)
(***************************************************************************)
LEMMA BoundaryGrows ==
  ASSUME StableGrowth, PlainBlanks,
         NEW d \in Seq(Text), NEW e \in Seq(Text), NEW S \in Cursor,
         NEW n \in Nat, S.start < n, n < Len(d), n < Len(e),
         \A j \in 1..n : d[j] = e[j],
         d[n + 1] = e[n + 1] \/ <<d[n + 1], e[n + 1]>> \in Grows,
         Boundary(d, S, n)
  PROVE  Boundary(e, S, n)
<1> DEFINE mode == IF S.mode \in {"MathBlock", "HtmlBlock"}
                   THEN "Heading" ELSE S.mode
           start == IF S.start + 1 = n THEN 1 ELSE 0
           c == [FreshCursor(0) EXCEPT !.start = start, !.mode = mode]
           t == d[n + 1]
           u == e[n + 1]
           first == d[S.start + 1]
           prev == d[n]
<1>1. S.start \in Nat /\ S.mode \in Mode
  BY CursorFields
<1>2. ~Inside(S)
  BY DEF Boundary
<1>3. /\ t \in Text /\ u \in Text /\ prev \in Text /\ first \in Text
      /\ e[S.start + 1] = first /\ e[n] = prev
  <2>1. n \in 1..n /\ S.start + 1 \in 1..n
    BY <1>1
  <2>2. n \in 1..Len(d) /\ S.start + 1 \in 1..Len(d) /\ n + 1 \in 1..Len(d)
        /\ n + 1 \in 1..Len(e)
    BY <1>1
  <2>3. QED
    BY <2>1, <2>2
<1>4. ~Blank(t)
  BY <1>3, BlankStays
<1>5. Boundary(<<first, prev, t>>, c, 2)
  BY <1>2, ThreeLines
<1>6. Boundary(<<first, prev, u>>, c, 2)
  <2>1. CASE t = u
    BY <1>5, <2>1
  <2>2. CASE t # u /\ <<t, u>> \in Grows
    <3>1. start \in 0..1
      OBVIOUS
    <3>2. mode \in Mode \ {"MathBlock", "HtmlBlock"}
      BY <1>1 DEF Mode
    <3> HIDE DEF start, mode, t, u, first, prev
    <3>3. <<t, u>>[1] = t /\ <<t, u>>[2] = u
      OBVIOUS
    <3>4. \A f, p \in Text, st \in 0..1, md \in Mode \ {"MathBlock", "HtmlBlock"} :
            LET x == [FreshCursor(0) EXCEPT !.start = st, !.mode = md]
            IN  Boundary(<<f, p, t>>, x, 2) => Boundary(<<f, p, u>>, x, 2)
      BY <1>4, <2>2, <3>3 DEF StableGrowth
    <3>5. QED
      BY <1>3, <1>5, <3>1, <3>2, <3>4
  <2>3. QED
    BY <2>1, <2>2
<1>7. Boundary(<<e[S.start + 1], e[n], u>>, c, 2) <=> Boundary(e, S, n)
  <2>1. PICK x : x = c
    OBVIOUS
  <2>2. Boundary(<<e[S.start + 1], e[n], e[n + 1]>>, x, 2)
          <=> Boundary(e, S, n)
    BY <1>2, <2>1, ThreeLines
  <2>3. QED
    BY <2>1, <2>2
<1>8. QED
  BY <1>3, <1>6, <1>7

(***************************************************************************)
(* Reading a blank line of a block that is blank so far commits nothing.   *)
(***************************************************************************)
LEMMA BlankProcess ==
  ASSUME PlainBlanks, NEW d \in Seq(Text), NEW S \in Cursor, NEW n \in Nat,
         n < Len(d), S.start <= n, S.start < n => FirstMode(d, S),
         Blank(d[n + 1]), Blank(d[S.start + 1])
  PROVE  SameBlocks(S, Process(d, S, n))
<1> DEFINE t == d[n + 1]
<1>1. S.start \in Nat /\ t \in Text /\ d[S.start + 1] \in Text
  BY CursorFields
<1>2. ASSUME NEW u \in Text, Blank(u)
      PROVE  StartMode(u) = "Paragraph"
  <2>1. \A p \in Starter : ~Has(u, p)
    BY <1>2 DEF PlainBlanks, Has
  <2>2. ~Has(u, "plugin") /\ ~Has(u, "heading") /\ ~Has(u, "thematic")
        /\ ~Has(u, "fence") /\ ~Has(u, "footnote_def") /\ ~Has(u, "quote")
        /\ ~Has(u, "item") /\ ~Has(u, "html") /\ ~Has(u, "math")
    BY <2>1 DEF Starter
  <2>3. QED
    BY <2>2 DEF StartMode
<1>3. ~Has(t, "setext") /\ ~Has(t, "delimiter")
  BY <1>1 DEF PlainBlanks, Has
<1>4. \A c : UpgradeParagraph(d, c, n) = c
  BY <1>3 DEF UpgradeParagraph
<1>5. CASE S.start = n
  <2> DEFINE e == StartAt(S, t)
  <2>1. e.mode = "Paragraph"
    BY <1>1, <1>2, StartAtFields
  <2>2. SameBlocks(S, e)
    BY <1>1, StartAtKeeps
  <2>3. OpenBlock(d, S, n) = UpdateMode(d, e, n)
    BY <2>1 DEF OpenBlock, CommitSingleLine
  <2> HIDE DEF e
  <2>4. UpdateMode(d, e, n) = e
    BY <1>4, <2>1 DEF UpdateMode
  <2>5. QED
    BY <1>5, <2>2, <2>3, <2>4 DEF Process
<1>6. CASE S.start < n
  <2>1. S.mode \in {"Paragraph", "Table"}
    BY <1>1, <1>2, <1>6 DEF FirstMode
  <2>2. UpdateMode(d, S, n) = S
    BY <1>4, <2>1 DEF UpdateMode
  <2>3. ~Boundary(d, S, n)
    BY <1>1, BlankStays
  <2>4. S.start # n
    BY <1>1, <1>6
  <2>5. Process(d, S, n) = S
    BY <2>2, <2>3, <2>4 DEF Process
  <2>6. QED
    BY <2>5 DEF SameBlocks
<1>7. QED
  BY <1>1, <1>5, <1>6

-----------------------------------------------------------------------------
(***************************************************************************)
(* Cursors go on matching when the last line grows, when lines are         *)
(* dropped, and when the mode of an Unknown block is settled.              *)
(***************************************************************************)
LEMMA MatchesGrow ==
  ASSUME StableGrowth, PlainBlanks,
         NEW d \in Seq(Text), NEW e \in Seq(Text), NEW n \in Nat,
         n < Len(d), n < Len(e), \A j \in 1..n : d[j] = e[j],
         d[n + 1] = e[n + 1] \/ <<d[n + 1], e[n + 1]>> \in Grows,
         NEW c \in Cursor, NEW S \in Cursor, S.base = 0,
         Matches(d, c, S, n)
  PROVE  Matches(e, c, S, n)
<1>1. ASSUME Ahead(d, c, S, n)
      PROVE  Ahead(e, c, S, n)
  <2>1. n >= 1 /\ S.start < n /\ Boundary(d, S, n)
        /\ Agree(c, Commit(d, S, n - 1))
    BY <1>1 DEF Ahead
  <2>2. Boundary(e, S, n)
    BY <2>1, BoundaryGrows
  <2>3. n - 1 \in Nat /\ n - 1 < n /\ S.start \in Nat /\ S.start <= n - 1
    BY <2>1, CursorFields
  <2>4. n - 1 < Len(d)
    BY <2>3
  <2>5. Commit(d, S, n - 1) \in Cursor /\ Commit(d, S, n - 1).base = 0
    BY <2>3, <2>4, CommitShape
  <2>6. Aligned(d, e, S, n) /\ Shift(S) = S
    <3>1. n <= Len(d) /\ n <= Len(e)
      OBVIOUS
    <3>2. QED
      BY <3>1, SameStart
  <2>7. Shift(Commit(d, S, n - 1)) = Commit(e, S, S.base + (n - 1))
    BY <2>3, <2>6, CommitAligned
  <2>8. S.base + (n - 1) = n - 1
    BY <2>3
  <2>9. Commit(d, S, n - 1) = Commit(e, S, n - 1)
    BY <2>5, <2>7, <2>8, ShiftFacts
  <2>10. QED
    BY <2>1, <2>2, <2>9 DEF Ahead
<1>2. QED
  BY <1>1 DEF Matches

(***************************************************************************)
(* maybe_compact_buffer keeps Matches: the block stays where it is.        *)
(***************************************************************************)
LEMMA MatchesRebased ==
  ASSUME NEW d, NEW c \in Cursor, NEW S, NEW n, NEW e,
         e = [c EXCEPT !.base = c.base + c.start, !.start = 0],
         Matches(d, c, S, n)
  PROVE  /\ Matches(d, e, S, n)
         /\ Settled(d, c, S, n) => Settled(d, e, S, n)
<1>1. c.base \in Nat /\ c.start \in Nat /\ c.base + c.start \in Nat
  BY CursorFields
<1>2. /\ e \in Cursor /\ e.base = c.base + c.start /\ e.start = 0
      /\ e.id = c.id /\ e.nextId = c.nextId /\ e.mode = c.mode
      /\ e.inner = c.inner /\ e.committed = c.committed
  BY <1>1 DEF Cursor
<1>3. e.base + e.start = c.base + c.start
  BY <1>1, <1>2
<1>4. Shift(e) = Shift(c)
  <2> DEFINE x == Shift(e)
             y == Shift(c)
  <2>1. /\ x \in Cursor /\ x.base = 0 /\ x.start = c.base + c.start
        /\ x.id = c.id /\ x.nextId = c.nextId /\ x.mode = c.mode
        /\ x.inner = c.inner /\ x.committed = c.committed
    BY <1>2, <1>3, ShiftFacts
  <2>2. /\ y \in Cursor /\ y.base = 0 /\ y.start = c.base + c.start
        /\ y.id = c.id /\ y.nextId = c.nextId /\ y.mode = c.mode
        /\ y.inner = c.inner /\ y.committed = c.committed
    BY ShiftFacts
  <2> HIDE DEF x, y
  <2>3. x = y
    BY <2>1, <2>2, CursorEq
  <2>4. QED
    BY <2>3 DEF x, y
<1>5. \A x : Agree(c, x) <=> Agree(e, x)
  BY <1>2, <1>3 DEF Agree
<1>6. Ahead(d, c, S, n) <=> Ahead(d, e, S, n)
  BY <1>5 DEF Ahead
<1>7. QED
  BY <1>3, <1>4, <1>5, <1>6 DEF Matches, Settled

(***************************************************************************)
(* The mode that finalize settles keeps it too.                            *)
(***************************************************************************)
LEMMA MatchesSettled ==
  ASSUME NEW d, NEW c \in Cursor, NEW S \in Cursor, NEW n, NEW e,
         SameBlocks(c, e), c.mode # "Unknown" => e = c,
         S.mode = "Unknown" => S.start = n,
         Matches(d, c, S, n)
  PROVE  /\ Matches(d, e, S, n)
         /\ Settled(d, c, S, n) => Settled(d, e, S, n)
<1>1. e.base + e.start = c.base + c.start
  BY DEF SameBlocks
<1>2. \A x : Agree(c, x) <=> Agree(e, x)
  BY DEF Agree, SameBlocks
<1>3. Ahead(d, c, S, n) <=> Ahead(d, e, S, n)
  BY <1>2 DEF Ahead
<1>4. CASE c.mode # "Unknown"
  BY <1>4
<1>5. CASE c.mode = "Unknown" /\ Shift(c) = S
  <2>1. S.start = n /\ S.start = c.base + c.start
    BY <1>5, ShiftFacts
  <2>2. Agree(c, S)
    BY <1>5, SameAgree
  <2>3. QED
    BY <1>1, <1>2, <2>1, <2>2 DEF Matches, Settled
<1>6. CASE c.base + c.start = n /\ (Agree(c, S) \/ Ahead(d, c, S, n))
  BY <1>1, <1>2, <1>3, <1>6 DEF Matches, Settled
<1>7. QED
  BY <1>4, <1>5, <1>6 DEF Matches

-----------------------------------------------------------------------------
(***************************************************************************)
(* The inductive invariant.  Between calls all lines but the last have     *)
(* been scanned, and the last is settled; or finalize has found nothing    *)
(* but blank lines pending, with the newline of a carriage return among    *)
(* them, and has scanned no further.                                       *)
(***************************************************************************)
Done == cur.base + processed

UpToDate ==
  processed = Len(lines) - 1 /\ Settled(doc, cur, ScanTo(doc, Done), Done)

BlankKept ==
  /\ processed = Len(lines) - 2 /\ ~pendingCr
  /\ \A j \in cur.start + 1 .. Len(lines) : Blank(lines[j])

ChunkInv ==
  Split =>
    /\ MaxBufferBytes = {} => cur.base = 0
    /\ Matches(doc, cur, ScanTo(doc, Done), Done)
    /\ pc = "idle" => UpToDate \/ BlankKept

(***************************************************************************)
(* The cursor of the stream and the scan it is compared with, and where    *)
(* the retained lines are in the document.                                 *)
(***************************************************************************)
LEMMA DoneFacts ==
  ASSUME IInv, Split
  PROVE  /\ Done \in Nat /\ Done < Len(doc)
         /\ Len(doc) = cur.base + Len(lines)
         /\ ScanTo(doc, Done) \in Cursor /\ ScanTo(doc, Done).base = 0
         /\ ScanTo(doc, Done).start \in Nat
         /\ ScanTo(doc, Done).start <= Done
         /\ ScanTo(doc, Done).mode = "Unknown"
              => ScanTo(doc, Done).start = Done
         /\ Window(lines, doc, cur.base, Len(lines))
<1>1. /\ lines \in Seq(Text) /\ Len(lines) \in Nat /\ doc \in Seq(Text)
      /\ Len(doc) \in Nat /\ processed \in Nat /\ cur.base \in Nat
      /\ processed < Len(lines) /\ Sound(lines, doc, cur, processed)
  BY SplitFacts
<1>2. IsRestOf(lines, doc, cur.base)
  BY <1>1 DEF Sound
<1>3. Len(doc) = cur.base + Len(lines)
  BY <1>2 DEF IsRestOf
<1>4. Done \in Nat /\ Done < Len(doc) /\ Done <= Len(doc)
  BY <1>1, <1>3 DEF Done
<1>5. Window(lines, doc, cur.base, Len(lines))
  BY <1>1, <1>2, <1>3 DEF Window, IsRestOf
<1>6. QED
  BY <1>1, <1>3, <1>4, <1>5, ScanFields

(***************************************************************************)
(* A new document.                                                         *)
(***************************************************************************)
LEMMA StartsMatches ==
  ASSUME Starts
  PROVE  ChunkInv'
<1> DEFINE c == FreshCursor(0)
<1>1. c \in Cursor /\ c.base = 0 /\ Shift(c) = c
  BY FreshShape, ShiftFacts
<1>2. /\ lines' = <<EmptyText>> /\ doc' = <<EmptyText>> /\ processed' = 0
      /\ cur' = c
  BY DEF Starts
<1> HIDE DEF c
<1>3. Done' = 0
  BY <1>1, <1>2 DEF Done
<1>4. ScanTo(doc', 0) = c
  BY ScanStep DEF c
<1>5. Matches(doc', cur', ScanTo(doc', Done'), Done')
  BY <1>1, <1>2, <1>3, <1>4 DEF Matches
<1>6. UpToDate'
  BY <1>2, <1>3 DEF UpToDate, Settled
<1>7. QED
  BY <1>1, <1>2, <1>5, <1>6 DEF ChunkInv

(***************************************************************************)
(* More text.                                                              *)
(***************************************************************************)
LEMMA ExtendsMatches ==
  ASSUME StableGrowth, PlainBlanks, IInv, Split, ChunkInv, Extends
  PROVE  ChunkInv'
<1> DEFINE N == Len(doc)
           S == ScanTo(doc, Done)
<1>1. /\ lines \in Seq(Text) /\ lines # <<>> /\ doc \in Seq(Text)
      /\ doc # <<>> /\ N \in Nat /\ Len(lines) \in Nat
      /\ cur \in Cursor /\ cur.base \in Nat
  BY SplitFacts
<1>2. /\ Done \in Nat /\ Done < N /\ N = cur.base + Len(lines)
      /\ S \in Cursor /\ S.base = 0
      /\ Window(lines, doc, cur.base, Len(lines))
  BY DoneFacts
<1>3. PICK chunk \in Chunk :
        /\ Follows(chunk) /\ pc' = "lines"
        /\ lines' = Extend(lines, chunk) /\ doc' = Extend(doc, chunk)
        /\ cur' = cur /\ processed' = processed
  BY DEF Extends
<1>4. /\ chunk \in Seq(Text) /\ Len(chunk) \in Nat /\ Len(chunk) >= 1
      /\ doc' \in Seq(Text) /\ Len(doc') = N - 1 + Len(chunk)
      /\ \A j \in 1..N - 1 : doc'[j] = doc[j]
      /\ \A j \in 1..Len(chunk) : doc'[N - 1 + j] = chunk[j]
  <2> DEFINE x == Extend(doc, chunk)
  <2>1. /\ chunk \in Seq(Text) /\ Len(chunk) >= 1
        /\ x \in Seq(Text) /\ Len(x) = N - 1 + Len(chunk)
        /\ \A j \in 1..N - 1 : x[j] = doc[j]
        /\ \A j \in 1..Len(chunk) : x[N - 1 + j] = chunk[j]
    BY <1>1, ExtendFacts
  <2>2. Len(chunk) \in Nat
    BY <2>1
  <2>3. doc' = x
    BY <1>3
  <2> HIDE DEF x
  <2>4. QED
    BY <2>1, <2>2, <2>3
<1>5. doc'[N] = chunk[1]
  <2>1. 1 \in 1..Len(chunk) /\ N - 1 + 1 = N
    BY <1>1, <1>4
  <2>2. QED
    BY <1>4, <2>1
<1>6. lines[Len(lines)] = doc[N]
  <2>1. Len(lines) \in 1..Len(lines)
    BY <1>1
  <2>2. QED
    BY <1>2, <2>1 DEF Window
<1>7. doc[N] = doc'[N] \/ <<doc[N], doc'[N]>> \in Grows
  BY <1>3, <1>5, <1>6 DEF Follows, LastLine
<1> HIDE DEF N
<1>8. N <= Len(doc') /\ Done < Len(doc') /\ Done + 1 \in 1..N
  BY <1>1, <1>2, <1>4
<1>9. \A j \in 1..Done : doc[j] = doc'[j]
  <2>1. ASSUME NEW j \in 1..Done
        PROVE  j \in 1..N - 1
    BY <1>1, <1>2
  <2>2. QED
    BY <1>4, <2>1
<1>10. doc[Done + 1] = doc'[Done + 1]
         \/ <<doc[Done + 1], doc'[Done + 1]>> \in Grows
  <2>1. CASE Done + 1 = N
    BY <1>7, <2>1
  <2>2. CASE Done + 1 \in 1..N - 1
    BY <1>4, <2>2
  <2>3. QED
    BY <1>1, <1>2, <2>1, <2>2
<1>11. ScanTo(doc', Done) = S
  <2>1. Done <= Len(doc) /\ Done <= Len(doc')
    BY <1>2, <1>8 DEF N
  <2>2. \A n \in Nat : n <= Done => ScanTo(doc, n) = ScanTo(doc', n)
    BY <1>1, <1>2, <1>4, <1>9, <2>1, ScanLocal
  <2>3. QED
    BY <1>2, <2>2
<1> HIDE DEF S
<1>12. Matches(doc, cur, S, Done)
  BY DEF ChunkInv, S
<1>13. Matches(doc', cur, S, Done)
  <2>1. Done < Len(doc)
    BY <1>2 DEF N
  <2>2. QED
    BY <1>1, <1>2, <1>4, <1>8, <1>9, <1>10, <1>12, <2>1, MatchesGrow
<1>14. Done' = Done
  BY <1>3 DEF Done
<1>15. MaxBufferBytes = {} => cur'.base = 0
  BY <1>3 DEF ChunkInv
<1>16. QED
  BY <1>3, <1>11, <1>13, <1>14, <1>15 DEF ChunkInv

(***************************************************************************)
(* One line.                                                               *)
(***************************************************************************)
LEMMA CurAligned ==
  ASSUME MaxBufferBytes = {} \/ NoTables, IInv, Split, ChunkInv
  PROVE  Aligned(lines, doc, cur, Len(lines))
<1>1. lines \in Seq(Text) /\ doc \in Seq(Text) /\ cur \in Cursor
  BY SplitFacts
<1>2. Window(lines, doc, cur.base, Len(lines))
  BY DoneFacts
<1>3. cur.base = 0 \/ NoTables
  BY DEF ChunkInv
<1>4. QED
  BY <1>1, <1>2, <1>3 DEF Aligned

(***************************************************************************)
(* A line that is scanned is scanned in the document as well.              *)
(***************************************************************************)
LEMMA ReadsMatches ==
  ASSUME MaxBufferBytes = {} \/ NoTables, IInv, Split, ChunkInv, Reads
  PROVE  ChunkInv'
<1> DEFINE S == ScanTo(doc, Done)
           e == Process(lines, cur, processed)
<1>1. /\ processed \in Nat /\ cur.start <= processed
      /\ processed < Len(lines) /\ cur.base \in Nat
      /\ Len(lines) \in Nat
  BY SplitFacts
<1>2. /\ Done \in Nat /\ S \in Cursor /\ S.base = 0 /\ S.start <= Done
  BY DoneFacts
<1>3. Aligned(lines, doc, cur, Len(lines))
  BY CurAligned
<1>4. Matches(doc, cur, S, cur.base + processed) /\ Done = cur.base + processed
  BY DEF ChunkInv, Done
<1> HIDE DEF S
<1>5. Shift(e) = Process(doc, S, Done)
  BY <1>1, <1>2, <1>3, <1>4, MatchesProcess
<1>6. e.base = cur.base
  BY <1>1, <1>3, ProcessShift
<1>7. /\ cur' = e /\ doc' = doc /\ pc' = "lines"
      /\ processed' = processed + 1
  BY DEF Reads
<1> HIDE DEF e
<1>8. Done' = Done + 1
  BY <1>1, <1>6, <1>7 DEF Done
<1>9. ScanTo(doc, Done + 1) = Process(doc, S, Done)
  BY <1>2, ScanStep DEF S
<1>10. Shift(cur') = ScanTo(doc', Done')
  BY <1>5, <1>7, <1>8, <1>9
<1>11. MaxBufferBytes = {} => cur'.base = 0
  BY <1>6, <1>7 DEF ChunkInv
<1>12. QED
  BY <1>7, <1>10, <1>11 DEF ChunkInv, Matches

(***************************************************************************)
(* maybe_compact_buffer of a settled cursor with one line left to scan.    *)
(***************************************************************************)
LEMMA CompactMatches ==
  ASSUME NEW ls \in Seq(Text), ls # <<>>, NEW d \in Seq(Text), NEW c,
         NEW n \in Nat, Sound(ls, d, c, n), n < Len(ls), Len(ls) <= n + 1,
         MaxBufferBytes = {} => c.base = 0,
         Matches(d, c, ScanTo(d, c.base + n), c.base + n),
         Settled(d, c, ScanTo(d, c.base + n), c.base + n),
         Rebased(ls, c, n), doc' = d
  PROVE  ChunkInv'
<1> DEFINE k == c.base + n
           S == ScanTo(d, k)
<1>1. /\ c \in Cursor /\ c.base \in Nat /\ c.start \in Nat
      /\ Len(ls) \in Nat /\ n < Len(ls)
  <2>1. c \in Cursor
    BY DEF Sound
  <2>2. QED
    BY <2>1, CursorFields
<1> HIDE DEF S
<1>2. CASE lines' = ls /\ cur' = c /\ processed' = n
  <2>1. Done' = k
    BY <1>2 DEF Done
  <2>2. UpToDate' /\ Matches(doc', cur', ScanTo(doc', Done'), Done')
    BY <1>2, <2>1 DEF UpToDate, S
  <2>3. QED
    BY <1>2, <2>2 DEF ChunkInv
<1>3. CASE /\ MaxBufferBytes # {}
           /\ cur' = [c EXCEPT !.base = c.base + c.start, !.start = 0]
           /\ Len(lines') = Len(ls) - c.start
           /\ processed' = n - c.start
  <2>1. cur'.base = c.base + c.start
    BY <1>1, <1>3 DEF Cursor
  <2>2. Done' = k
    BY <1>1, <1>3, <2>1 DEF Done
  <2>3. Matches(d, cur', S, k) /\ Settled(d, cur', S, k)
    <3>1. PICK e : e = [c EXCEPT !.base = c.base + c.start, !.start = 0]
      OBVIOUS
    <3>2. Matches(d, c, S, k) /\ Settled(d, c, S, k)
      BY DEF S
    <3> HIDE DEF k
    <3>3. Matches(d, e, S, k) /\ Settled(d, e, S, k)
      BY <1>1, <3>1, <3>2, MatchesRebased
    <3>4. QED
      BY <1>3, <3>1, <3>3
  <2>4. processed' = Len(lines') - 1
    BY <1>1, <1>3
  <2>5. UpToDate' /\ Matches(doc', cur', ScanTo(doc', Done'), Done')
    BY <2>2, <2>3, <2>4 DEF UpToDate, S
  <2>6. QED
    BY <1>3, <2>5 DEF ChunkInv
<1>4. QED
  BY <1>2, <1>3 DEF Rebased

(***************************************************************************)
(* The return from append.                                                 *)
(***************************************************************************)
LEMMA ReturnsMatches ==
  ASSUME MaxBufferBytes = {} \/ NoTables, IInv, Split, ChunkInv, Returns
  PROVE  ChunkInv'
<1> DEFINE S == ScanTo(doc, Done)
           c == TailBoundary(lines, cur)
<1>1. /\ lines \in Seq(Text) /\ lines # <<>> /\ doc \in Seq(Text)
      /\ processed \in Nat /\ cur.start <= processed
      /\ cur.base \in Nat /\ Len(lines) \in Nat
      /\ Sound(lines, doc, cur, processed)
  BY SplitFacts
<1>2. S \in Cursor /\ S.base = 0 /\ S.start <= Done
  BY DoneFacts
<1>3. /\ processed = Len(lines) - 1 /\ Compact(lines, c, processed)
      /\ doc' = doc
  BY DEF Returns
<1>4. Sound(lines, doc, c, processed)
  BY <1>1, <1>3, TailBoundarySound
<1>5. c.base = cur.base
  BY <1>1, <1>4, OpenFromSound
<1>6. Aligned(lines, doc, cur, Len(lines))
  BY CurAligned
<1>7. Matches(doc, cur, S, cur.base + processed) /\ Done = cur.base + processed
  BY DEF ChunkInv, Done
<1> HIDE DEF S
<1>8. Matches(doc, c, S, Done) /\ Settled(doc, c, S, Done)
  <2>1. Len(lines) = processed + 1
    BY <1>1, <1>3
  <2>2. QED
    BY <1>1, <1>2, <1>6, <1>7, <2>1, MatchesTail
<1> HIDE DEF c
<1>9. c.base + processed = Done
  BY <1>5 DEF Done
<1>10. MaxBufferBytes = {} => c.base = 0
  BY <1>5 DEF ChunkInv
<1>11. /\ Matches(doc, c, ScanTo(doc, c.base + processed), c.base + processed)
       /\ Settled(doc, c, ScanTo(doc, c.base + processed), c.base + processed)
  BY <1>8, <1>9 DEF S
<1>12. Rebased(lines, c, processed) /\ doc' = doc
  <2>1. Compact(lines, c, processed)
    BY <1>3
  <2>2. processed < Len(lines)
    BY <1>1, <1>3
  <2>3. Rebased(lines, c, processed)
    BY <1>1, <1>4, <2>1, <2>2, CompactRebased
  <2>4. QED
    BY <1>3, <2>3
<1>13. processed < Len(lines) /\ Len(lines) <= processed + 1
  BY <1>1, <1>3
<1>14. QED
  BY <1>1, <1>4, <1>10, <1>11, <1>12, <1>13, CompactMatches

(***************************************************************************)
(* What finalize sees as pending: with no carriage return kept back, the   *)
(* lines it had before.                                                    *)
(***************************************************************************)
LEMMA FinalCursor ==
  ASSUME IInv, Split
  PROVE  LET ls == FinalLines(lines)
             c == SettleMode(ls, cur)
         IN  /\ ls \in Seq(Text) /\ ls # <<>> /\ Len(ls) \in Nat
             /\ FinalLines(doc) \in Seq(Text)
             /\ ls[cur.start + 1] = lines[cur.start + 1]
             /\ cur.start < Len(ls)
             /\ Sound(ls, FinalLines(doc), c, processed)
             /\ SameBlocks(cur, c)
             /\ cur.mode # "Unknown" => c = cur
             /\ ~pendingCr => ls = lines /\ FinalLines(doc) = doc
<1> DEFINE ls == FinalLines(lines)
           c == SettleMode(ls, cur)
<1>1. /\ lines \in Seq(Text) /\ lines # <<>> /\ Len(lines) \in Nat
      /\ doc \in Seq(Text) /\ doc # <<>>
      /\ processed \in Nat /\ cur \in Cursor /\ cur.start \in Nat
      /\ Sound(lines, doc, cur, processed)
      /\ cur.start <= processed /\ processed < Len(lines)
  BY SplitFacts
<1>2. /\ ls \in Seq(Text) /\ ls # <<>> /\ processed < Len(ls)
      /\ FinalLines(doc) \in Seq(Text)
      /\ Sound(ls, FinalLines(doc), cur, processed)
  BY <1>1, FinalLinesFacts, FinalSound
<1>3. ls[cur.start + 1] = lines[cur.start + 1]
  <2>1. cur.start + 1 \in 1..Len(lines)
    BY <1>1
  <2>2. QED
    BY <1>1, <2>1, FinalLinesFacts
<1>4. Len(ls) \in Nat /\ cur.start < Len(ls)
  BY <1>1, <1>2
<1>5. ~pendingCr => ls = lines /\ FinalLines(doc) = doc
  BY DEF FinalLines
<1> HIDE DEF ls
<1>6. Sound(ls, FinalLines(doc), c, processed)
  BY <1>1, <1>2, SettleModeSound
<1>7. SameBlocks(cur, c) /\ (cur.mode # "Unknown" => c = cur)
  BY <1>1, <1>2, <1>4, SettleFields DEF SameBlocks
<1>8. QED
  BY <1>2, <1>3, <1>4, <1>5, <1>6, <1>7 DEF ls

(***************************************************************************)
(* finalize that finds only blank lines pending keeps them.                *)
(***************************************************************************)
LEMMA BlankRest ==
  ASSUME NEW ls \in Seq(Text), NEW c \in Cursor, c.start < Len(ls),
         ~SingleMode, RestIsBlank(ls, c)
  PROVE  \A j \in c.start + 1 .. Len(ls) : Blank(ls[j])
<1>1. PICK b \in Block :
        /\ PendingOf(ls, c) = <<b>>
        /\ Len(b.raw) = Len(ls) - c.start
        /\ \A j \in 1..Len(b.raw) : b.raw[j] = ls[c.start + j]
  BY PendingShape DEF RestIsBlank
<1>2. \A j \in 1..Len(b.raw) : Blank(b.raw[j])
  BY <1>1 DEF RestIsBlank, AllBlank
<1>3. c.start \in Nat /\ Len(ls) \in Nat
  BY CursorFields
<1>4. ASSUME NEW j \in c.start + 1 .. Len(ls)
      PROVE  Blank(ls[j])
  <2>1. j - c.start \in 1..Len(b.raw) /\ c.start + (j - c.start) = j
    BY <1>1, <1>3
  <2>2. b.raw[j - c.start] = ls[j]
    BY <1>1, <2>1
  <2>3. QED
    BY <1>2, <2>1, <2>2
<1>5. QED
  BY <1>4

(***************************************************************************)
(* A finalize that finds only blank lines keeps ChunkInv.                  *)
(***************************************************************************)
LEMMA KeepsBlanksMatches ==
  ASSUME StableGrowth, PlainBlanks, IInv, Split, ChunkInv, KeepsBlanks
  PROVE  ChunkInv'
<1> DEFINE ls == FinalLines(lines)
           c == SettleMode(ls, cur)
           S == ScanTo(doc, Done)
           d == FinalLines(doc)
<1>1. /\ lines \in Seq(Text) /\ lines # <<>> /\ Len(lines) \in Nat
      /\ doc \in Seq(Text) /\ doc # <<>> /\ Len(doc) \in Nat
      /\ processed \in Nat /\ cur \in Cursor /\ cur.start \in Nat
      /\ cur.start <= processed /\ processed < Len(lines)
  BY SplitFacts
<1>2. /\ Done \in Nat /\ Done < Len(doc) /\ S \in Cursor /\ S.base = 0
      /\ S.mode = "Unknown" => S.start = Done
  BY DoneFacts
<1>3. /\ ls \in Seq(Text) /\ Len(ls) \in Nat /\ d \in Seq(Text)
      /\ cur.start < Len(ls) /\ SameBlocks(cur, c)
      /\ cur.mode # "Unknown" => c = cur
      /\ ~pendingCr => ls = lines /\ d = doc
  BY FinalCursor
<1>4. /\ RestIsBlank(ls, c) /\ lines' = ls /\ doc' = d /\ cur' = c
      /\ pc = "idle" /\ pc' = "idle" /\ processed' = processed
      /\ pendingCr' = FALSE
  BY DEF KeepsBlanks
<1>5. pendingCr => Len(ls) = Len(lines) + 1
  BY <1>1, FinalLinesFacts
<1>6. pendingCr => /\ Len(d) = Len(doc) + 1
                   /\ \A j \in 1..Len(doc) : d[j] = doc[j]
  BY <1>1, FinalLinesFacts
<1> HIDE DEF ls, c, d
<1>7. /\ c \in Cursor /\ c.base = cur.base /\ c.start = cur.start
  BY <1>3 DEF SameBlocks
<1>8. \A j \in c.start + 1 .. Len(ls) : Blank(ls[j])
  BY <1>3, <1>4, <1>7, BlankRest DEF Split
<1>9. Matches(doc, cur, S, Done) /\ (UpToDate \/ BlankKept)
  BY <1>4 DEF ChunkInv
<1>10. Done' = Done
  BY <1>4, <1>7 DEF Done
<1>11. MaxBufferBytes = {} => cur'.base = 0
  BY <1>4, <1>7 DEF ChunkInv
<1>12. UpToDate => Settled(doc, cur, S, Done) /\ processed = Len(lines) - 1
  BY DEF UpToDate
<1>13. BlankKept => ~pendingCr /\ processed = Len(lines) - 2
  BY DEF BlankKept
<1>14. ScanTo(d, Done) = S
  <2>1. CASE ~pendingCr
    BY <1>3, <2>1 DEF S
  <2>2. CASE pendingCr
    <3>1. Done <= Len(doc) /\ Done <= Len(d)
      BY <1>1, <1>2, <1>6, <2>2
    <3>2. \A j \in 1..Done : doc[j] = d[j]
      BY <1>1, <1>2, <1>6, <2>2
    <3>3. \A n \in Nat : n <= Done => ScanTo(doc, n) = ScanTo(d, n)
      BY <1>1, <1>2, <1>3, <3>1, <3>2, ScanLocal
    <3>4. QED
      BY <1>2, <3>3
  <2>3. QED
    BY <2>1, <2>2
<1> HIDE DEF S
<1>15. /\ Matches(doc, c, S, Done)
       /\ Settled(doc, cur, S, Done) => Settled(doc, c, S, Done)
  BY <1>1, <1>2, <1>3, <1>9, MatchesSettled
<1>16. Matches(d, c, S, Done)
  <2>1. CASE ~pendingCr
    BY <1>3, <1>15, <2>1
  <2>2. CASE pendingCr
    <3>1. Done < Len(d) /\ Done + 1 \in 1..Len(doc)
      BY <1>1, <1>2, <1>6, <2>2
    <3>2. \A j \in 1..Done : doc[j] = d[j]
      BY <1>1, <1>2, <1>6, <2>2
    <3>3. doc[Done + 1] = d[Done + 1]
      BY <1>6, <2>2, <3>1
    <3>4. QED
      BY <1>1, <1>2, <1>3, <1>7, <1>15, <3>1, <3>2, <3>3, MatchesGrow
  <2>3. QED
    BY <2>1, <2>2
<1>17. UpToDate' \/ BlankKept'
  <2>1. CASE UpToDate /\ ~pendingCr
    <3>1. Settled(d, c, S, Done)
      BY <1>3, <1>12, <1>15, <2>1
    <3>2. Settled(doc', cur', ScanTo(doc', Done'), Done')
      BY <1>4, <1>10, <1>14, <3>1
    <3>3. processed' = Len(lines') - 1
      BY <1>3, <1>4, <1>12, <2>1
    <3>4. QED
      BY <3>2, <3>3 DEF UpToDate
  <2>2. CASE pendingCr
    <3>1. processed' = Len(lines') - 2
      BY <1>1, <1>4, <1>5, <1>9, <1>12, <1>13, <2>2
    <3>2. QED
      BY <1>4, <1>8, <3>1 DEF BlankKept
  <2>3. CASE BlankKept
    <3>1. processed' = Len(lines') - 2
      BY <1>3, <1>4, <1>13, <2>3
    <3>2. QED
      BY <1>4, <1>8, <3>1 DEF BlankKept
  <2>4. QED
    BY <1>9, <2>1, <2>2, <2>3
<1>18. QED
  BY <1>4, <1>10, <1>11, <1>14, <1>16, <1>17 DEF ChunkInv

(***************************************************************************)
(* finalize that finds nothing pending: the block starts at the unfinished *)
(* last line, which is empty.                                              *)
(***************************************************************************)
LEMMA NonePending ==
  ASSUME NEW ls \in Seq(Text), NEW c \in Cursor, c.start < Len(ls),
         ~SingleMode, PendingOf(ls, c) = <<>>
  PROVE  c.start = Len(ls) - 1
<1>1. c.start \in Nat /\ Len(ls) \in Nat
  BY CursorFields
<1>2. LinesOf(ls, c.start, Len(ls) - 1) = <<EmptyText>>
  <2>1. ~(c.start >= Len(ls))
    BY <1>1
  <2>2. QED
    BY <2>1 DEF PendingOf
<1>3. Len(LinesOf(ls, c.start, Len(ls) - 1)) = Len(ls) - c.start
  BY <1>1 DEF LinesOf
<1>4. Len(<<EmptyText>>) = 1
  OBVIOUS
<1> DEFINE n == Len(LinesOf(ls, c.start, Len(ls) - 1))
<1>5. n = 1
  BY <1>2, <1>4
<1>6. n = Len(ls) - c.start
  BY <1>3
<1> HIDE DEF n
<1>7. QED
  BY <1>1, <1>5, <1>6

(***************************************************************************)
(* A finalize that finds nothing pending keeps it.                         *)
(***************************************************************************)
LEMMA CommitsNoneMatches ==
  ASSUME IInv, Split, ChunkInv, CommitsNone
  PROVE  ChunkInv'
<1> DEFINE ls == FinalLines(lines)
           c == SettleMode(ls, cur)
           S == ScanTo(doc, Done)
           d == FinalLines(doc)
<1>1. /\ lines \in Seq(Text) /\ lines # <<>> /\ Len(lines) \in Nat
      /\ doc \in Seq(Text) /\ doc # <<>> /\ Len(doc) \in Nat
      /\ processed \in Nat /\ cur \in Cursor /\ cur.start \in Nat
      /\ cur.start <= processed /\ processed < Len(lines)
  BY SplitFacts
<1>2. /\ Done \in Nat /\ Done < Len(doc) /\ S \in Cursor /\ S.base = 0
      /\ S.mode = "Unknown" => S.start = Done
  BY DoneFacts
<1>3. /\ ls \in Seq(Text) /\ Len(ls) \in Nat /\ d \in Seq(Text)
      /\ cur.start < Len(ls) /\ SameBlocks(cur, c)
      /\ cur.mode # "Unknown" => c = cur
      /\ ~pendingCr => ls = lines /\ d = doc
      /\ Sound(ls, d, c, processed)
  BY FinalCursor
<1>4. /\ PendingOf(ls, c) = <<>> /\ Compact(ls, c, processed)
      /\ pc = "idle" /\ pc' = "idle" /\ doc' = d
  BY DEF CommitsNone
<1>5. pendingCr => Len(ls) = Len(lines) + 1
  BY <1>1, FinalLinesFacts
<1> HIDE DEF ls, c, d
<1>6. /\ c \in Cursor /\ c.base = cur.base /\ c.start = cur.start
  BY <1>3 DEF SameBlocks
<1>7. c.start = Len(ls) - 1
  BY <1>3, <1>4, <1>6, NonePending DEF Split
<1>8. /\ ~pendingCr /\ ls = lines /\ d = doc
      /\ processed = Len(lines) - 1 /\ c.start = processed
  BY <1>1, <1>3, <1>5, <1>6, <1>7
<1>9. Matches(doc, cur, S, Done) /\ Done = cur.base + processed
  BY DEF ChunkInv, Done
<1> HIDE DEF S
<1>10. Matches(doc, c, S, Done)
  BY <1>1, <1>2, <1>3, <1>9, MatchesSettled
<1>11. Settled(doc, c, S, Done)
  BY <1>6, <1>8, <1>9 DEF Settled
<1>12. c.base + processed = Done
  BY <1>6, <1>9
<1>13. /\ Matches(d, c, ScanTo(d, c.base + processed), c.base + processed)
       /\ Settled(d, c, ScanTo(d, c.base + processed), c.base + processed)
  BY <1>8, <1>10, <1>11, <1>12 DEF S
<1>14. MaxBufferBytes = {} => c.base = 0
  BY <1>6 DEF ChunkInv
<1>15. ls # <<>> /\ processed < Len(ls)
  BY <1>1, <1>8
<1>16. Len(ls) <= processed + 1
  BY <1>1, <1>8
<1>17. Rebased(ls, c, processed)
  BY <1>1, <1>3, <1>4, <1>15, CompactRebased
<1>18. QED
  BY <1>1, <1>3, <1>4, <1>13, <1>14, <1>15, <1>16, <1>17, CompactMatches

(***************************************************************************)
(* Nothing that matters to the scan changes.                               *)
(***************************************************************************)
LEMMA StaysMatches ==
  ASSUME Split, ChunkInv, Stays
  PROVE  ChunkInv'
BY DEF Stays, ChunkInv, UpToDate, BlankKept, Done

(***************************************************************************)
(* Every step keeps the cursor in agreement with the scan.                 *)
(***************************************************************************)
LEMMA ChunkInvKept ==
  ASSUME ResetAfterFinalize, StableGrowth, PlainBlanks,
         MaxBufferBytes = {} \/ NoTables, IInv, ChunkInv, [Next]_vars
  PROVE  ChunkInv'
<1>1. CASE ~Split'
  BY <1>1 DEF ChunkInv
<1>2. CASE Split'
  <2>1. \/ Starts
        \/ Split /\ (Stays \/ Extends \/ Reads \/ Returns \/ KeepsBlanks
                      \/ CommitsNone)
    BY <1>2, SplitSteps
  <2>2. QED
    BY <2>1, StartsMatches, StaysMatches, ExtendsMatches, ReadsMatches,
       ReturnsMatches, KeepsBlanksMatches, CommitsNoneMatches
<1>3. QED
  BY <1>1, <1>2

(***************************************************************************)
(* ChunkInv holds at the start.                                            *)
(***************************************************************************)
LEMMA InitMatches ==
  ASSUME Init
  PROVE  ChunkInv
<1> DEFINE c == FreshCursor(0)
<1>1. c \in Cursor /\ c.base = 0 /\ Shift(c) = c
  BY FreshShape, ShiftFacts
<1>2. /\ lines = <<EmptyText>> /\ doc = <<EmptyText>> /\ processed = 0
      /\ cur = c
  BY DEF Init
<1> HIDE DEF c
<1>3. Done = 0
  BY <1>1, <1>2 DEF Done
<1>4. ScanTo(doc, 0) = c
  BY ScanStep DEF c
<1>5. Matches(doc, cur, ScanTo(doc, Done), Done)
  BY <1>1, <1>2, <1>3, <1>4 DEF Matches
<1>6. UpToDate
  BY <1>2, <1>3 DEF UpToDate, Settled
<1>7. QED
  BY <1>1, <1>2, <1>5, <1>6 DEF ChunkInv

-----------------------------------------------------------------------------
(***************************************************************************)
(* When the last line is all that is unscanned, the stream is where        *)
(* process_incomplete_tail_boundary takes the scan of the whole document.  *)
(***************************************************************************)
LEMMA TailAgrees ==
  ASSUME NEW d \in Seq(Text), d # <<>>, NEW n \in Nat, n = Len(d) - 1,
         NEW c \in Cursor, NEW S \in Cursor, S.start <= n,
         Matches(d, c, S, n), Settled(d, c, S, n)
  PROVE  LET e == TailBoundary(d, S)
         IN  /\ c.committed = e.committed /\ c.id = e.id
             /\ c.base + c.start = e.start
<1> DEFINE f == Commit(d, S, n - 1)
           e == StartAt(f, d[n + 1])
<1>1. S.start \in Nat /\ d[n + 1] \in Text /\ Len(d) - 1 = n /\ n < Len(d)
  BY CursorFields
<1>2. Agree(c, S) \/ Ahead(d, c, S, n)
  BY SameAgree DEF Matches
<1>3. CASE n >= 1 /\ Boundary(d, S, n)
  <2>1. TailBoundary(d, S) = e
    BY <1>1, <1>3 DEF TailBoundary
  <2>2. c.base + c.start = n
    BY <1>3 DEF Settled
  <2>3. f \in Cursor
    <3>1. n - 1 \in Nat /\ n - 1 < Len(d)
      BY <1>1, <1>3
    <3>2. CASE S.start <= n - 1
      BY <3>1, <3>2, CommitShape
    <3>3. CASE S.start = n
      BY <3>1, <3>3, CommitLater
    <3>4. QED
      BY <1>1, <3>1, <3>2, <3>3
  <2>4. /\ e.start = f.start /\ e.id = f.id /\ e.committed = f.committed
    BY <1>1, <2>3, StartAtFields
  <2>5. Agree(c, f)
    <3>1. CASE S.start = n
      <4>1. f = S
        BY <1>1, <3>1, CommitLater
      <4>2. ~Ahead(d, c, S, n)
        BY <3>1 DEF Ahead
      <4>3. QED
        BY <1>2, <4>1, <4>2
    <3>2. CASE S.start # n
      BY <1>2, <2>2, <3>2 DEF Agree, Ahead
    <3>3. QED
      BY <3>1, <3>2
  <2> HIDE DEF e, f
  <2>6. QED
    BY <2>1, <2>4, <2>5 DEF Agree
<1>4. CASE ~(n >= 1 /\ Boundary(d, S, n))
  <2>1. TailBoundary(d, S) = S
    BY <1>1, <1>4 DEF TailBoundary
  <2>2. Agree(c, S)
    BY <1>2, <1>4 DEF Ahead
  <2>3. QED
    BY <2>1, <2>2 DEF Agree
<1>5. QED
  BY <1>3, <1>4

(***************************************************************************)
(* The same when the last two lines are blank, the first of them not       *)
(* scanned: blank lines change nothing.                                    *)
(***************************************************************************)
LEMMA BlankTailAgrees ==
  ASSUME PlainBlanks, NEW d \in Seq(Text), NEW n \in Nat, n = Len(d) - 2,
         NEW c \in Cursor, NEW S \in Cursor, S.start <= n,
         S.start < n => FirstMode(d, S),
         \A j \in c.base + c.start + 1 .. Len(d) : Blank(d[j]),
         c.base + c.start <= n,
         Matches(d, c, S, n)
  PROVE  LET e == TailBoundary(d, Process(d, S, n))
         IN  /\ c.committed = e.committed /\ c.id = e.id
             /\ c.base + c.start = e.start
<1> DEFINE p == Process(d, S, n)
<1>1. /\ S.start \in Nat /\ c.base \in Nat /\ c.start \in Nat
      /\ Len(d) \in Nat /\ Len(d) = n + 2 /\ n < Len(d)
  BY CursorFields
<1>2. d[n + 1] \in Text /\ d[n + 2] \in Text
  BY <1>1
<1>3. Blank(d[n + 1]) /\ Blank(d[n + 2])
  BY <1>1
<1>4. ~Boundary(d, S, n)
  BY <1>2, <1>3, BlankStays
<1>5. Agree(c, S)
  BY <1>4, SameAgree DEF Matches, Ahead
<1>6. Blank(d[S.start + 1])
  <2>1. S.start = c.base + c.start
    BY <1>5 DEF Agree
  <2>2. QED
    BY <1>1, <2>1
<1>7. SameBlocks(S, p)
  BY <1>1, <1>3, <1>6, BlankProcess
<1> HIDE DEF p
<1>8. TailBoundary(d, p) = p
  <2>1. ~Boundary(d, p, n + 1)
    <3>1. d[(n + 1) + 1] = d[n + 2]
      BY <1>1
    <3>2. QED
      BY <1>2, <1>3, <3>1, BlankStays
  <2>2. Len(d) - 1 = n + 1
    BY <1>1
  <2>3. QED
    BY <2>1, <2>2 DEF TailBoundary
<1>9. QED
  BY <1>5, <1>7, <1>8 DEF Agree, SameBlocks, p

(***************************************************************************)
(* What the invariant says between two calls.                              *)
(***************************************************************************)
LEMMA ChunkInvSuffices ==
  ASSUME PlainBlanks, IInv, ChunkInv
  PROVE  ChunkingInvariance
<1> SUFFICES ASSUME pc = "idle", Split
             PROVE  /\ cur.committed = InOneChunk.committed
                    /\ cur.id = InOneChunk.id
                    /\ cur.base + cur.start = InOneChunk.start
  BY DEF ChunkingInvariance, Split, Committed
<1> DEFINE S == ScanTo(doc, Done)
<1>1. /\ lines # <<>> /\ Len(lines) \in Nat
      /\ doc \in Seq(Text) /\ doc # <<>> /\ Len(doc) \in Nat
      /\ processed \in Nat /\ cur \in Cursor /\ cur.start \in Nat
      /\ cur.base \in Nat
      /\ cur.start <= processed /\ processed < Len(lines)
  BY SplitFacts
<1>2. /\ Done \in Nat /\ Done < Len(doc) /\ S \in Cursor
      /\ Len(doc) = cur.base + Len(lines)
      /\ S.start <= Done /\ Window(lines, doc, cur.base, Len(lines))
  BY DoneFacts
<1>3. /\ S.start < Done => FirstMode(doc, S)
  BY <1>1, <1>2, ScanSound
<1>4. Matches(doc, cur, S, Done) /\ (UpToDate \/ BlankKept)
  BY DEF ChunkInv
<1>5. Done = cur.base + processed
  BY DEF Done
<1>6. CASE UpToDate
  <2>1. Settled(doc, cur, S, Done) /\ Done = Len(doc) - 1
    BY <1>1, <1>2, <1>5, <1>6 DEF UpToDate
  <2>2. InOneChunk = TailBoundary(doc, S)
    BY <2>1 DEF InOneChunk, Scanned
  <2> HIDE DEF S
  <2>3. QED
    BY <1>1, <1>2, <1>4, <2>1, <2>2, TailAgrees
<1>7. CASE BlankKept
  <2>1. Done = Len(doc) - 2 /\ Len(doc) - 1 = Done + 1
    BY <1>1, <1>2, <1>5, <1>7 DEF BlankKept
  <2>2. ScanTo(doc, Done + 1) = Process(doc, S, Done)
    BY <1>2, ScanStep
  <2>3. InOneChunk = TailBoundary(doc, Process(doc, S, Done))
    BY <2>1, <2>2 DEF InOneChunk, Scanned
  <2>4. ASSUME NEW j \in cur.base + cur.start + 1 .. Len(doc)
        PROVE  Blank(doc[j])
    <3>1. /\ j - cur.base \in cur.start + 1 .. Len(lines)
          /\ j - cur.base \in 1 .. Len(lines)
          /\ cur.base + (j - cur.base) = j
      BY <1>1, <1>2
    <3>2. lines[j - cur.base] = doc[j]
      BY <1>2, <3>1 DEF Window
    <3>3. QED
      BY <1>7, <3>1, <3>2 DEF BlankKept
  <2>5. cur.base + cur.start <= Done
    BY <1>1, <1>5
  <2> HIDE DEF S
  <2>6. /\ PlainBlanks /\ doc \in Seq(Text) /\ Done \in Nat
        /\ Done = Len(doc) - 2 /\ cur \in Cursor /\ S \in Cursor
        /\ S.start <= Done /\ (S.start < Done => FirstMode(doc, S))
        /\ cur.base + cur.start <= Done /\ Matches(doc, cur, S, Done)
        /\ \A j \in cur.base + cur.start + 1 .. Len(doc) : Blank(doc[j])
    BY <1>1, <1>2, <1>3, <1>4, <2>1, <2>4, <2>5, <1>7
  <2>7. LET e == TailBoundary(doc, Process(doc, S, Done))
        IN  /\ cur.committed = e.committed /\ cur.id = e.id
            /\ cur.base + cur.start = e.start
    BY ONLY <2>6, BlankTailAgrees
  <2>8. QED
    BY <2>3, <2>7
<1>8. QED
  BY <1>4, <1>6, <1>7

(***************************************************************************)
(* The blocks of an open document, their ids and the start of the pending  *)
(* block are those of its text given in one append: neither how the text   *)
(* was cut into chunks, nor where a carriage return was kept back, nor     *)
(* when the buffer was compacted, nor a finalize that found nothing but    *)
(* blank lines can be told from them.  The hypotheses are those of         *)
(* StableGrowth, PlainBlanks and NoTables, on the texts that a line can    *)
(* have, and the caller who resets after a finalize.                       *)
(***************************************************************************)
THEOREM BlocksDoNotDependOnChunks ==
  ASSUME ResetAfterFinalize, SingleBlock => MaxBufferBytes = {},
         StableGrowth, PlainBlanks, MaxBufferBytes = {} \/ NoTables
  PROVE  Spec => []ChunkingInvariance
<1>1. Init => ChunkInv
  BY InitMatches
<1>2. IInv /\ ChunkInv /\ [Next]_vars => ChunkInv'
  BY ChunkInvKept
<1>3. IInv /\ ChunkInv => ChunkingInvariance
  BY ChunkInvSuffices
<1>4. Spec => []IInv
  BY StreamInvariant
<1>5. QED
  BY <1>1, <1>2, <1>3, <1>4, PTL DEF Spec
=============================================================================
