----------------------------- MODULE SyncProofs -----------------------------
(***************************************************************************)
(* Proofs about the producer and the consumer of updates: the updates      *)
(* under way carry everything, no two blocks of the view have one id, and  *)
(* the display that append returns is that of the pending block, down to   *)
(* the fence that closes it.                                               *)
(***************************************************************************)
EXTENDS DocumentSync, BlockStreamProofs, Induction

-----------------------------------------------------------------------------
(***************************************************************************)
(* Every step of the producer and the consumer is a step of the stream, or *)
(* leaves it as it is.                                                     *)
(***************************************************************************)
LEMMA SyncIsStream ==
  ASSUME [SyncNext]_syncVars
  PROVE  [Next]_vars
<1>1. CASE ProduceByAppend(Chunk, {"append", "append_ref"})
  BY <1>1 DEF ProduceByAppend, AppendFirst, AppendFurther, Next, NextOn
<1>2. CASE ProduceByEmptyAppend({"append", "append_ref"})
  BY <1>2 DEF ProduceByEmptyAppend, Next, NextOn
<1>3. CASE ProduceByFinalize
  BY <1>3 DEF ProduceByFinalize, Next, NextOn
<1>4. CASE Apply
  BY <1>4 DEF Apply
<1>5. CASE NewDocument
  BY <1>5 DEF NewDocument, Next, NextOn
<1>6. CASE UNCHANGED syncVars
  BY <1>6 DEF syncVars
<1>7. QED
  BY <1>1, <1>2, <1>3, <1>4, <1>5, <1>6 DEF SyncNext, SyncNextOn

(***************************************************************************)
(* Append in terms of elements.                                            *)
(***************************************************************************)
LEMMA AppendTyped ==
  ASSUME NEW S, NEW s \in Seq(S), NEW e \in S
  PROVE  /\ Append(s, e) \in Seq(S) /\ Len(Append(s, e)) = Len(s) + 1
         /\ \A k \in 1..Len(s) : Append(s, e)[k] = s[k]
         /\ Append(s, e)[Len(s) + 1] = e
  OBVIOUS

(***************************************************************************)
(* A sequence is a prefix of what extends it.                              *)
(***************************************************************************)
LEMMA PrefixOfConcat ==
  ASSUME NEW S, NEW s \in Seq(S), NEW t \in Seq(S)
  PROVE  IsPrefixOf(s, s \o t)
  BY DEF IsPrefixOf

(***************************************************************************)
(* A sequence that is not empty has a first element.                       *)
(***************************************************************************)
LEMMA FirstOf ==
  ASSUME NEW S, NEW s \in Seq(S), s # <<>>
  PROVE  s[1] \in S /\ Len(s) \in Nat /\ Len(s) >= 1
  OBVIOUS

(***************************************************************************)
(* The types of the updates and of the pending block.                      *)
(***************************************************************************)
UpdateRecord ==
  [committed : Seq(Block), pending : Seq(Block), reset : BOOLEAN]

DisplayRecord ==
  [raw : Seq(Text), kind : Mode,
   suffix : Seq([newline : BOOLEAN, fence : Inner])]

UpdateTyped ==
  /\ Update(FALSE) \in UpdateRecord
  /\ Update(TRUE) \in UpdateRecord

PendingTyped ==
  PendingOf(lines, cur) = <<>> \/ \E b \in Block : PendingOf(lines, cur) = <<b>>

(***************************************************************************)
(* What the stream returns is an update.                                   *)
(***************************************************************************)
LEMMA PendingIsTyped == TypeOK => PendingTyped
  BY PendingOne DEF TypeOK, PendingTyped

(***************************************************************************)
(* The kind of a mode is a mode.                                           *)
(***************************************************************************)
LEMMA KindIsMode ==
  ASSUME NEW mode \in Mode
  PROVE  KindForMode(mode) \in Mode
  BY DEF KindForMode, Mode

(***************************************************************************)
(* What a call returns is an update.                                       *)
(***************************************************************************)
LEMMA UpdateIsTyped == TypeOK => UpdateTyped
<1> SUFFICES ASSUME TypeOK
             PROVE  UpdateTyped
  OBVIOUS
<1>1. cur \in Cursor /\ report.mark \in Nat /\ report.reset \in BOOLEAN
  BY DEF TypeOK
<1>2. cur.committed \in Seq(Block) /\ cur.mode \in Mode
  BY <1>1, CursorFields
<1>3. SubSeq(cur.committed, report.mark + 1, Len(cur.committed)) \in Seq(Block)
  BY <1>1, <1>2, SubSeqProperties
<1>4. PendingTyped
  BY PendingIsTyped
<1>5. PendingOf(lines, cur) \in Seq(Block)
  <2>1. \A b \in Block : <<b>> \in Seq(Block)
    OBVIOUS
  <2>2. <<>> \in Seq(Block)
    OBVIOUS
  <2>3. QED
    BY <1>4, <2>1, <2>2 DEF PendingTyped
<1>6. ReturnedPending(FALSE) \in Seq(Block)
  BY <1>5 DEF ReturnedPending
<1>7. ReturnedPending(TRUE) \in Seq(Block)
  <2> DEFINE p == PendingOf(lines, cur)
             q == [k \in DOMAIN p |->
                     [p[k] EXCEPT !.kind = KindForMode(cur.mode)]]
  <2>1. p \in Seq(Block) /\ DOMAIN p = 1..Len(p) /\ Len(p) \in Nat
    BY <1>5
  <2>2. \A k \in 1..Len(p) : p[k] \in Block
    BY <2>1
  <2>3. \A k \in 1..Len(p) : q[k] \in Block
    BY <1>2, <2>1, <2>2, KindIsMode DEF Block
  <2>4. q \in [1..Len(p) -> Block]
    BY <2>1, <2>3
  <2>5. q \in Seq(Block)
    BY <2>1, <2>4, SeqDef
  <2>6. QED
    BY <1>6, <2>5 DEF ReturnedPending
<1>8. QED
  BY <1>1, <1>3, <1>6, <1>7 DEF UpdateTyped, Update, UpdateRecord

(***************************************************************************)
(* The same of the pending block after a step.                             *)
(***************************************************************************)
LEMMA PendingIsTypedNext == TypeOK' => PendingTyped'
  BY PendingIsTyped, PTL

(***************************************************************************)
(* The same of the update that a step returns.                             *)
(***************************************************************************)
LEMMA UpdateIsTypedNext == TypeOK' => UpdateTyped'
  BY UpdateIsTyped, PTL

-----------------------------------------------------------------------------
(***************************************************************************)
(* A display is typed: there is none, or one record.                       *)
(***************************************************************************)
ShownTyped(s) == s = <<>> \/ \E r \in DisplayRecord : s = <<r>>

(***************************************************************************)
(* A display of any text, kind and suffix is typed.                        *)
(***************************************************************************)
LEMMA SuffixTyped ==
  ASSUME NEW newline \in BOOLEAN, NEW fence \in Inner
  PROVE  CodeFenceSuffix(newline, fence)
           \in Seq([newline : BOOLEAN, fence : Inner])
<1>1. [newline |-> newline, fence |-> fence]
        \in [newline : BOOLEAN, fence : Inner]
  OBVIOUS
<1>2. QED
  BY <1>1 DEF CodeFenceSuffix

(***************************************************************************)
(* A display that is made has its type.                                    *)
(***************************************************************************)
LEMMA RecordTyped ==
  ASSUME NEW raw \in Seq(Text), NEW kind \in Mode,
         NEW suffix \in Seq([newline : BOOLEAN, fence : Inner])
  PROVE  ShownTyped(<<[raw |-> raw, kind |-> kind, suffix |-> suffix]>>)
<1>1. [raw |-> raw, kind |-> kind, suffix |-> suffix] \in DisplayRecord
  BY DEF DisplayRecord
<1>2. QED
  BY <1>1 DEF ShownTyped

(***************************************************************************)
(* A text ends with a newline or does not.                                 *)
(***************************************************************************)
LEMMA EndsBoolean == \A raw : EndsInNewline(raw) \in BOOLEAN
  BY DEF EndsInNewline

(***************************************************************************)
(* Lines that a chunk extends are lines.                                   *)
(***************************************************************************)
LEMMA ExtendTyped ==
  ASSUME NEW ls \in Seq(Text), NEW chunk \in Chunk
  PROVE  Extend(ls, chunk) \in Seq(Text)
<1>1. <<EmptyText>> \in Seq(Text) /\ <<EmptyText>> # <<>>
  BY EmptyDocument
<1>2. chunk \in Seq(Text)
  BY <1>1, ExtendFacts
<1>3. SubSeq(ls, 1, Len(ls) - 1) \in Seq(Text)
  BY SubSeqProperties
<1>4. QED
  BY <1>2, <1>3 DEF Extend

(***************************************************************************)
(* An extended display is typed.                                           *)
(***************************************************************************)
LEMMA GrowTyped ==
  ASSUME ShownTyped(display), cur \in Cursor, NEW chunk \in Chunk
  PROVE  ShownTyped(Grow(chunk))
<1>1. CASE display # NoDisplay /\ display[1].suffix # <<>>
           /\ cur.mode = "CodeFence"
  <2>1. PICK r \in DisplayRecord : display = <<r>>
    BY <1>1 DEF ShownTyped, NoDisplay
  <2>2. display[1] = r
    BY <2>1
  <2>3. /\ r.raw \in Seq(Text) /\ r.kind \in Mode
        /\ r.suffix \in Seq([newline : BOOLEAN, fence : Inner])
        /\ r.suffix # <<>>
    BY <1>1, <2>2 DEF DisplayRecord
  <2>4. r.suffix[1].newline \in BOOLEAN
    <3>1. r.suffix[1] \in [newline : BOOLEAN, fence : Inner]
      BY <2>3, FirstOf
    <3>2. QED
      BY <3>1
  <2>5. cur.inner \in Inner
    BY CursorFields
  <2> DEFINE newline == IF chunk = <<LastLine>> THEN r.suffix[1].newline
                        ELSE EndsInNewline(chunk)
             suffix == CodeFenceSuffix(newline, cur.inner)
  <2>6. suffix \in Seq([newline : BOOLEAN, fence : Inner])
    <3>1. newline \in BOOLEAN
      BY <2>4, EndsBoolean
    <3>2. QED
      BY <2>5, <3>1, SuffixTyped
  <2>7. Extend(r.raw, chunk) \in Seq(Text)
    BY <2>3, ExtendTyped
  <2>8. Grow(chunk) = <<[r EXCEPT !.raw = Extend(@, chunk),
                                  !.suffix = suffix]>>
    BY <1>1, <2>2 DEF Grow
  <2>9. [r EXCEPT !.raw = Extend(@, chunk), !.suffix = suffix]
          \in DisplayRecord
    <3> HIDE DEF suffix
    <3>1. QED
      BY <2>6, <2>7 DEF DisplayRecord
  <2>10. QED
    BY <2>8, <2>9 DEF ShownTyped
<1>2. CASE ~(display # NoDisplay /\ display[1].suffix # <<>>
             /\ cur.mode = "CodeFence")
  BY <1>2 DEF Grow, ShownTyped, NoDisplay
<1>3. QED
  BY <1>1, <1>2

(***************************************************************************)
(* The display that append and append_ref leave is typed.                  *)
(***************************************************************************)
LEMMA ShownOwnedTyped ==
  ASSUME NEW shown, ShownTyped(shown),
         NEW p, p = <<>> \/ \E b \in Block : p = <<b>>
  PROVE  ShownTyped(ShownOwned(shown, p))
<1>1. CASE shown # NoDisplay \/ p = <<>>
  BY <1>1 DEF ShownOwned
<1>2. ASSUME shown = NoDisplay, NEW b \in Block, p = <<b>>
      PROVE  ShownTyped(ShownOwned(shown, p))
  <2>1. b.raw \in Seq(Text) /\ b.kind \in Mode
    BY DEF Block
  <2>2. <<>> \in Seq([newline : BOOLEAN, fence : Inner])
    OBVIOUS
  <2>3. ShownOwned(shown, p) =
          <<[raw |-> b.raw, kind |-> b.kind, suffix |-> <<>>]>>
    BY <1>2 DEF ShownOwned, Terminated
  <2>4. QED
    BY <2>1, <2>2, <2>3, RecordTyped
<1>3. QED
  BY <1>1, <1>2

(***************************************************************************)
(* What append_ref shows has its type.                                     *)
(***************************************************************************)
LEMMA ShownRefTyped ==
  ASSUME NEW shown, ShownTyped(shown), NEW c, c.inner \in Inner,
         NEW p, p = <<>> \/ \E b \in Block : p = <<b>>
  PROVE  ShownTyped(ShownRef(shown, p, c))
<1>1. ShownTyped(NoDisplay)
  BY DEF ShownTyped, NoDisplay
<1>2. ASSUME NEW b \in Block, p = <<b>>
      PROVE  ShownTyped(ShownRef(shown, p, c))
  <2>1. b.raw \in Seq(Text) /\ b.kind \in Mode /\ p[1] = b
    BY <1>2 DEF Block
  <2>2. <<>> \in Seq([newline : BOOLEAN, fence : Inner])
    OBVIOUS
  <2>3. ShownTyped(Terminated(p[1]))
    BY <2>1, <2>2, RecordTyped DEF Terminated
  <2>4. ShownTyped(WithFence(p[1], c.inner))
    <3>1. CodeFenceSuffix(EndsInNewline(b.raw), c.inner)
            \in Seq([newline : BOOLEAN, fence : Inner])
      BY EndsBoolean, SuffixTyped
    <3>2. QED
      BY <2>1, <3>1, RecordTyped DEF WithFence
  <2>5. QED
    BY <1>1, <2>3, <2>4 DEF ShownRef
<1>3. QED
  BY <1>1, <1>2 DEF ShownRef

-----------------------------------------------------------------------------
(***************************************************************************)
(* The type invariant with a display that is one record.                   *)
(***************************************************************************)
ViewRecord == [committed : Seq(Block), pending : Seq(Block)]

SyncInv ==
  /\ TypeOK
  /\ ShownTyped(display)
  /\ resumed \in Nat
  /\ updates \in Seq(UpdateRecord)
  /\ view \in ViewRecord

(***************************************************************************)
(* A return sends a typed update and leaves a typed display.               *)
(***************************************************************************)
LEMMA ReturnTyped ==
  ASSUME TypeOK', updates \in Seq(UpdateRecord), NEW shown, NEW calls,
         ShownTyped(shown), Return(shown, calls)
  PROVE  updates' \in Seq(UpdateRecord) /\ ShownTyped(display')
<1> DEFINE p == PendingOf(lines, cur)'
<1>1. p = <<>> \/ \E b \in Block : p = <<b>>
  BY PendingIsTypedNext DEF PendingTyped
<1>2. Update(FALSE)' \in UpdateRecord /\ Update(TRUE)' \in UpdateRecord
  BY UpdateIsTypedNext DEF UpdateTyped
<1>3. cur'.inner \in Inner
  <2>1. cur' \in Cursor
    BY DEF TypeOK
  <2>2. QED
    BY <2>1, CursorFields
<1>4. ShownTyped(ShownOwned(shown, p)) /\ ShownTyped(ShownRef(shown, p, cur'))
  <2> HIDE DEF p
  <2>1. QED
    BY <1>1, <1>3, ShownOwnedTyped, ShownRefTyped
<1>5. CASE ReturnOwned(shown)
  <2>1. display' = ShownOwned(shown, p)
    BY <1>5 DEF ReturnOwned
  <2>2. PICK u \in UpdateRecord : updates' = Append(updates, u)
    BY <1>2, <1>5 DEF ReturnOwned
  <2>3. QED
    BY <1>4, <2>1, <2>2, AppendTyped
<1>6. CASE ReturnRef(shown)
  <2>1. display' = ShownRef(shown, p, cur')
    BY <1>6 DEF ReturnRef
  <2>2. PICK u \in UpdateRecord : updates' = Append(updates, u)
    BY <1>2, <1>6 DEF ReturnRef
  <2>3. QED
    BY <1>4, <2>1, <2>2, AppendTyped
<1>7. QED
  BY <1>5, <1>6 DEF Return

(***************************************************************************)
(* The end of a step of append keeps the types.                            *)
(***************************************************************************)
LEMMA LeaveTyped ==
  ASSUME TypeOK', updates \in Seq(UpdateRecord), NEW shown, NEW calls,
         ShownTyped(shown), Leave(shown, calls)
  PROVE  updates' \in Seq(UpdateRecord) /\ ShownTyped(display')
<1>1. CASE pc' = "idle"
  BY <1>1, ReturnTyped DEF Leave
<1>2. CASE pc' # "idle"
  BY <1>2 DEF Leave
<1>3. QED
  BY <1>1, <1>2

(***************************************************************************)
(* Applying a typed update to a typed view gives a typed view.             *)
(***************************************************************************)
LEMMA ApplyTyped ==
  ASSUME NEW v \in ViewRecord, NEW u \in UpdateRecord
  PROVE  ApplyTo(v, u) \in ViewRecord
  BY DEF ViewRecord, UpdateRecord, ApplyTo

(***************************************************************************)
(* Head and Tail in terms of elements.                                     *)
(***************************************************************************)
LEMMA TailTyped ==
  ASSUME NEW S, NEW s \in Seq(S), s # <<>>
  PROVE  /\ Head(s) \in S /\ Head(s) = s[1]
         /\ Tail(s) \in Seq(S) /\ Len(Tail(s)) = Len(s) - 1
         /\ \A k \in 1..Len(Tail(s)) : Tail(s)[k] = s[k + 1]
  OBVIOUS

(***************************************************************************)
(* Every step keeps the types.                                             *)
(***************************************************************************)
LEMMA SyncTyped ==
  ASSUME SyncInv, [SyncNext]_syncVars
  PROVE  SyncInv'
<1>1. TypeOK /\ ShownTyped(display) /\ updates \in Seq(UpdateRecord)
      /\ view \in ViewRecord /\ cur \in Cursor /\ resumed \in Nat
      /\ Len(doc) \in Nat
  BY DEF SyncInv, TypeOK
<1>2. TypeOK'
  BY <1>1, SyncIsStream, KeepsStep
<1>3. ShownTyped(NoDisplay)
  BY DEF ShownTyped, NoDisplay
<1>4. CASE ProduceByAppend(Chunk, {"append", "append_ref"})
  <2>1. PICK shown, calls : ShownTyped(shown) /\ Leave(shown, calls)
    <3>1. ASSUME NEW chunk \in Chunk, NEW endsInCr \in BOOLEAN,
                 AppendFirst(chunk, endsInCr, {"append", "append_ref"})
          PROVE  \E shown, calls : ShownTyped(shown) /\ Leave(shown, calls)
      <4>1. ShownTyped(IF report'.reset THEN NoDisplay ELSE Grow(chunk))
        BY <1>1, <1>3, GrowTyped
      <4>2. QED
        BY <3>1, <4>1 DEF AppendFirst
    <3>2. ASSUME AppendFurther({"append", "append_ref"})
          PROVE  \E shown, calls : ShownTyped(shown) /\ Leave(shown, calls)
      <4>1. ShownTyped(Kept)
        BY <1>1, <1>3 DEF Kept
      <4>2. QED
        BY <3>2, <4>1 DEF AppendFurther
    <3>3. QED
      BY <1>4, <3>1, <3>2 DEF ProduceByAppend
  <2>2. updates' \in Seq(UpdateRecord) /\ ShownTyped(display')
    BY <1>1, <1>2, <2>1, LeaveTyped
  <2>3. resumed' \in Nat
    BY <1>1, <1>4 DEF ProduceByAppend, AppendFirst, AppendFurther, Resumed
  <2>4. QED
    BY <1>1, <1>2, <1>4, <2>2, <2>3 DEF SyncInv, ProduceByAppend
<1>5. CASE ProduceByEmptyAppend({"append", "append_ref"})
  <2>1. Return(display, {"append", "append_ref"})
    BY <1>5 DEF ProduceByEmptyAppend
  <2>2. updates' \in Seq(UpdateRecord) /\ ShownTyped(display')
    BY <1>1, <1>2, <2>1, ReturnTyped
  <2>3. QED
    BY <1>1, <1>2, <1>5, <2>2 DEF SyncInv, ProduceByEmptyAppend
<1>6. CASE ProduceByFinalize
  <2>1. Update(FALSE)' \in UpdateRecord
    BY <1>2, UpdateIsTypedNext DEF UpdateTyped
  <2>2. updates' \in Seq(UpdateRecord)
    <3>1. PICK u \in UpdateRecord : updates' = Append(updates, u)
      BY <1>6, <2>1 DEF ProduceByFinalize
    <3>2. QED
      BY <1>1, <3>1, AppendTyped
  <2>3. ShownTyped(display')
    BY <1>1, <1>3, <1>6 DEF ProduceByFinalize
  <2>4. QED
    BY <1>1, <1>2, <1>6, <2>2, <2>3 DEF SyncInv, ProduceByFinalize
<1>7. CASE Apply
  <2>1. Head(updates) \in UpdateRecord /\ Tail(updates) \in Seq(UpdateRecord)
    BY <1>1, <1>7, TailTyped DEF Apply
  <2>2. ApplyTo(view, Head(updates)) \in ViewRecord
    BY <1>1, <2>1, ApplyTyped
  <2>3. QED
    BY <1>1, <1>2, <1>7, <2>1, <2>2 DEF SyncInv, Apply
<1>8. CASE NewDocument
  <2>1. EmptyView \in ViewRecord
    BY DEF EmptyView, ViewRecord
  <2>2. updates' \in Seq(UpdateRecord)
    BY <1>8 DEF NewDocument
  <2>3. QED
    BY <1>2, <1>3, <1>8, <2>1, <2>2 DEF SyncInv, NewDocument
<1>9. CASE UNCHANGED syncVars
  BY <1>1, <1>2, <1>9 DEF SyncInv, syncVars
<1>10. QED
  BY <1>4, <1>5, <1>6, <1>7, <1>8, <1>9 DEF SyncNext, SyncNextOn

(***************************************************************************)
(* The types hold at the start.                                            *)
(***************************************************************************)
LEMMA InitSyncTyped ==
  ASSUME SyncInit
  PROVE  SyncInv
<1>1. TypeOK
  BY InitKeeps DEF SyncInit, IInv
<1>2. EmptyView \in ViewRecord
  BY DEF EmptyView, ViewRecord
<1>3. <<>> \in Seq(UpdateRecord)
  OBVIOUS
<1>4. QED
  BY <1>1, <1>2, <1>3 DEF SyncInit, SyncInv, ShownTyped, NoDisplay

(***************************************************************************)
(* The stream, its display, the updates under way and the view keep their  *)
(* types, for every caller and all values of the constants.                *)
(***************************************************************************)
THEOREM SyncTypeHolds == SyncSpec => []SyncTypeOK
<1>1. SyncInv => SyncTypeOK
  <2> SUFFICES ASSUME SyncInv
               PROVE  SyncTypeOK
    OBVIOUS
  <2>1. Len(display) <= 1
    <3>1. \A r : Len(<<r>>) <= 1
      OBVIOUS
    <3>2. Len(<<>>) <= 1
      OBVIOUS
    <3>3. QED
      BY <3>1, <3>2 DEF SyncInv, ShownTyped
  <2>2. ASSUME NEW k \in DOMAIN display
        PROVE  display[k] \in DisplayRecord
    <3>1. CASE display = <<>>
      BY <2>2, <3>1
    <3>2. ASSUME NEW r \in DisplayRecord, display = <<r>>
          PROVE  display[k] \in DisplayRecord
      <4>1. k = 1
        BY <2>2, <3>2
      <4>2. QED
        BY <3>2, <4>1
    <3>3. QED
      BY <3>1, <3>2 DEF SyncInv, ShownTyped
  <2>3. QED
    BY <2>1, <2>2 DEF SyncInv, SyncTypeOK, DisplayRecord, UpdateRecord,
       ViewRecord
<1>2. SyncInit => SyncInv
  BY InitSyncTyped
<1>3. SyncInv /\ [SyncNext]_syncVars => SyncInv'
  BY SyncTyped
<1>4. QED
  BY <1>1, <1>2, <1>3, PTL DEF SyncSpec

-----------------------------------------------------------------------------
(***************************************************************************)
(* f is the view v after each of the updates us.                           *)
(***************************************************************************)
IsAfter(f, v, us) ==
  f = [n \in 0..Len(us) |-> IF n = 0 THEN v ELSE ApplyTo(f[n - 1], us[n])]

(***************************************************************************)
(* The recursion that IsAfter stands for.                                  *)
(***************************************************************************)
LEMMA AfterStep ==
  ASSUME NEW f, NEW v, NEW us, Len(us) \in Nat, IsAfter(f, v, us)
  PROVE  /\ f[0] = v
         /\ \A n \in Nat : n + 1 <= Len(us) =>
              f[n + 1] = ApplyTo(f[n], us[n + 1])
<1>1. f[0] = v
  <2>1. 0 \in 0..Len(us)
    OBVIOUS
  <2>2. QED
    BY <2>1 DEF IsAfter
<1>2. ASSUME NEW n \in Nat, n + 1 <= Len(us)
      PROVE  f[n + 1] = ApplyTo(f[n], us[n + 1])
  <2>1. n + 1 \in 0..Len(us) /\ n + 1 # 0 /\ (n + 1) - 1 = n
    BY <1>2
  <2>2. QED
    BY <2>1 DEF IsAfter
<1>3. QED
  BY <1>1, <1>2

(***************************************************************************)
(* There is only one such function, and CaughtUp is its last value.        *)
(***************************************************************************)
LEMMA AfterUnique ==
  ASSUME NEW f, NEW g, NEW v, NEW us, Len(us) \in Nat,
         IsAfter(f, v, us), IsAfter(g, v, us)
  PROVE  \A n \in Nat : n <= Len(us) => f[n] = g[n]
<1> DEFINE S == {n \in Nat : n <= Len(us) => f[n] = g[n]}
<1>1. 0 \in S
  BY AfterStep
<1>2. ASSUME NEW n \in Nat, n \in S
      PROVE  n + 1 \in S
  BY <1>2, AfterStep
<1> HIDE DEF S
<1>3. \A n \in Nat : n \in S
  BY <1>1, <1>2, NatInductive
<1>4. QED
  BY <1>3 DEF S

(***************************************************************************)
(* CaughtUp is the last value of such a function.                          *)
(***************************************************************************)
LEMMA CaughtUpIs ==
  ASSUME NEW f, Len(updates) \in Nat, IsAfter(f, view, updates)
  PROVE  CaughtUp = f[Len(updates)]
<1> DEFINE g == CHOOSE g : IsAfter(g, view, updates)
<1>1. IsAfter(g, view, updates)
  OBVIOUS
<1>2. CaughtUp = g[Len(updates)]
  BY DEF CaughtUp, IsAfter
<1> HIDE DEF g
<1>3. QED
  BY <1>1, <1>2, AfterUnique

(***************************************************************************)
(* Every sequence of updates has such a function.  It grows by one value   *)
(* with every update sent, and loses its first when that one is applied.   *)
(***************************************************************************)
LEMMA AfterNone ==
  ASSUME NEW v, NEW us, us = <<>>
  PROVE  \E f : IsAfter(f, v, us) /\ f[Len(us)] = v
<1> DEFINE f == [n \in 0..0 |-> v]
<1>1. Len(us) = 0
  OBVIOUS
<1>2. f = [n \in 0..0 |-> IF n = 0 THEN v ELSE ApplyTo(f[n - 1], us[n])]
  OBVIOUS
<1>3. IsAfter(f, v, us)
  BY ONLY <1>1, <1>2 DEF IsAfter
<1>4. f[Len(us)] = v
  BY <1>1
<1>5. QED
  BY <1>3, <1>4

(***************************************************************************)
(* An update that is sent adds one value.                                  *)
(***************************************************************************)
LEMMA AfterAppend ==
  ASSUME NEW f, NEW v, NEW us \in Seq(UpdateRecord), NEW u \in UpdateRecord,
         IsAfter(f, v, us)
  PROVE  \E g : /\ IsAfter(g, v, Append(us, u))
                /\ g[Len(us) + 1] = ApplyTo(f[Len(us)], u)
                /\ \A n \in 0..Len(us) : g[n] = f[n]
<1> DEFINE N == Len(us)
           ws == Append(us, u)
           g == [n \in 0..N + 1 |-> IF n <= N THEN f[n]
                                    ELSE ApplyTo(f[N], u)]
           h == [n \in 0..N + 1 |-> IF n = 0 THEN v
                                    ELSE ApplyTo(g[n - 1], ws[n])]
<1>1. /\ N \in Nat /\ Len(ws) = N + 1 /\ ws[N + 1] = u
      /\ \A k \in 1..N : ws[k] = us[k]
  BY AppendTyped
<1> HIDE DEF ws
<1>2. ASSUME NEW n \in 0..N + 1
      PROVE  g[n] = h[n]
  <2>1. CASE n = 0
    BY <1>1, <2>1, AfterStep
  <2>2. CASE n \in 1..N
    <3>1. n - 1 \in 0..N + 1 /\ n - 1 <= N /\ n \in 0..N /\ n # 0
      BY <1>1, <2>2
    <3>2. f[n] = ApplyTo(f[n - 1], us[n])
      BY <3>1 DEF IsAfter
    <3>3. g[n - 1] = f[n - 1] /\ g[n] = f[n] /\ ws[n] = us[n]
      BY <1>1, <2>2, <3>1
    <3>4. QED
      BY <3>1, <3>2, <3>3
  <2>3. CASE n = N + 1
    <3>1. n - 1 = N /\ n - 1 \in 0..N + 1 /\ n # 0 /\ ~(n <= N)
      BY <1>1, <2>3
    <3>2. g[n - 1] = f[N] /\ g[n] = ApplyTo(f[N], u)
      BY <1>1, <3>1
    <3>3. QED
      BY <1>1, <2>3, <3>1, <3>2
  <2>4. QED
    BY <1>1, <2>1, <2>2, <2>3
<1>3. g = h
  BY <1>2
<1>4. IsAfter(g, v, ws)
  BY <1>1, <1>3 DEF IsAfter
<1>5. g[N + 1] = ApplyTo(f[N], u) /\ \A n \in 0..N : g[n] = f[n]
  BY <1>1
<1>6. QED
  BY <1>4, <1>5 DEF ws

(***************************************************************************)
(* An update that is applied drops the first value.                        *)
(***************************************************************************)
LEMMA AfterApply ==
  ASSUME NEW f, NEW v, NEW us \in Seq(UpdateRecord), us # <<>>,
         IsAfter(f, v, us)
  PROVE  \E g : /\ IsAfter(g, ApplyTo(v, Head(us)), Tail(us))
                /\ g[Len(us) - 1] = f[Len(us)]
                /\ \A n \in 0..Len(us) - 1 : g[n] = f[n + 1]
<1> DEFINE N == Len(us) - 1
           ws == Tail(us)
           w == ApplyTo(v, Head(us))
           g == [n \in 0..N |-> f[n + 1]]
           h == [n \in 0..N |-> IF n = 0 THEN w ELSE ApplyTo(g[n - 1], ws[n])]
<1>1. /\ Len(us) \in Nat /\ N \in Nat /\ N + 1 = Len(us)
      /\ Len(ws) = N /\ \A k \in 1..N : ws[k] = us[k + 1]
      /\ Head(us) = us[1]
  <2>1. Len(us) \in Nat /\ Len(us) >= 1
    BY FirstOf
  <2>2. QED
    BY <2>1, TailTyped
<1>2. f[1] = w
  <2>1. f[0 + 1] = ApplyTo(f[0], us[0 + 1]) /\ f[0] = v
    BY <1>1, AfterStep
  <2>2. QED
    BY <1>1, <2>1
<1> HIDE DEF ws, w, N
<1>3. ASSUME NEW n \in 0..N
      PROVE  g[n] = h[n]
  <2>1. CASE n = 0
    BY <1>1, <1>2, <2>1
  <2>2. CASE n # 0
    <3>1. n \in Nat /\ n - 1 \in 0..N /\ (n - 1) + 1 = n /\ n + 1 <= Len(us)
          /\ n \in 1..N
      BY <1>1, <2>2
    <3>2. f[n + 1] = ApplyTo(f[n], us[n + 1])
      BY <1>1, <3>1, AfterStep
    <3>3. g[n - 1] = f[n] /\ ws[n] = us[n + 1]
      BY <1>1, <3>1
    <3>4. QED
      BY <2>2, <3>2, <3>3
  <2>3. QED
    BY <2>1, <2>2
<1>4. g = h
  BY <1>3
<1>5. IsAfter(g, w, ws)
  BY <1>1, <1>4 DEF IsAfter
<1>6. g[N] = f[N + 1] /\ \A n \in 0..N : g[n] = f[n + 1]
  BY <1>1
<1>7. QED
  BY <1>1, <1>5, <1>6 DEF ws, w, N

-----------------------------------------------------------------------------
(***************************************************************************)
(* A document in a single block has no mode, so the kind that the fast     *)
(* path gives its pending block is unknown.                                *)
(***************************************************************************)
SingleUnknown == SingleMode => cur.mode = "Unknown"

(***************************************************************************)
(* Every step keeps SingleUnknown.                                         *)
(***************************************************************************)
LEMMA SingleUnknownKept ==
  ASSUME TypeOK, SingleUnknown, [SyncNext]_syncVars
  PROVE  SingleUnknown'
<1>0. detected \in BOOLEAN
  BY DEF TypeOK
<1>1. [Next]_vars
  BY SyncIsStream
<1>2. ASSUME NEW chunk \in Chunk, NEW endsInCr \in BOOLEAN,
             AppendChunk(chunk, endsInCr)
      PROVE  SingleUnknown'
  <2>1. /\ detected' = (detected \/ Detects(chunk))
        /\ IF SingleBlock /\ Detects(chunk) /\ ~detected
           THEN EnterSingleBlock(lines') ELSE EnterLoop
    BY <1>2 DEF AppendChunk
  <2>2. CASE EnterSingleBlock(lines')
    BY <2>2 DEF EnterSingleBlock, FreshCursor, SingleUnknown
  <2>3. CASE EnterLoop /\ ~(SingleBlock /\ Detects(chunk) /\ ~detected)
    <3>1. SingleMode' => SingleMode
      BY <1>0, <2>1, <2>3 DEF SingleMode
    <3>2. cur' = cur
      BY <2>3 DEF EnterLoop
    <3>3. QED
      BY <3>1, <3>2 DEF SingleUnknown
  <2>4. QED
    BY <2>1, <2>2, <2>3
<1>3. CASE AppendNothing \/ FinalizeNothingNew \/ IndexFault \/ UNCHANGED vars
  BY <1>3 DEF AppendNothing, FinalizeNothingNew, IndexFault, vars,
     SingleUnknown, SingleMode
<1>4. CASE ProcessLine
  BY <1>4 DEF ProcessLine, SingleUnknown, SingleMode
<1>5. CASE FinishAppend
  <2>1. SingleMode' => SingleMode
    BY <1>5 DEF FinishAppend, SingleMode
  <2>2. SingleMode => cur' = cur
    BY <1>5 DEF FinishAppend, Compact, Compacts
  <2>3. QED
    BY <2>1, <2>2 DEF SingleUnknown
<1>6. CASE Finalize
  <2> DEFINE ls == FinalLines(lines)
  <2>1. SingleMode' => SingleMode
    BY <1>6 DEF Finalize, SingleMode
  <2>2. SingleMode => cur'.mode = cur.mode
    <3>1. SingleMode => SettleMode(ls, cur) = cur
      BY DEF SettleMode
    <3>2. CommitRest(ls, cur).mode = cur.mode
      BY DEF CommitRest
    <3>3. SingleMode => cur' \in {cur, CommitRest(ls, cur)}
      <4>1. SingleMode => ~Compacts(ls, CommitRest(ls, cur))
        BY DEF Compacts
      <4>2. QED
        BY <1>6, <3>1, <4>1 DEF Finalize, Compact
    <3>4. QED
      BY <3>2, <3>3
  <2>3. QED
    BY <2>1, <2>2 DEF SingleUnknown
<1>7. CASE Reset
  BY <1>7 DEF Reset, FreshCursor, SingleUnknown
<1>8. QED
  BY <1>1, <1>2, <1>3, <1>4, <1>5, <1>6, <1>7 DEF Next, NextOn

(***************************************************************************)
(* p shows the pending block of the stream, with its kind or with none.    *)
(***************************************************************************)
Shows(p) ==
  /\ Len(p) = Len(StreamPending)
  /\ \A k \in DOMAIN StreamPending :
       /\ p[k].id = StreamPending[k].id
       /\ p[k].raw = StreamPending[k].raw
       /\ p[k].kind \in {StreamPending[k].kind, "Unknown"}

UpdatesShow ==
  Shows(Update(FALSE).pending) /\ Shows(Update(TRUE).pending)

(***************************************************************************)
(* Both ways to compute the pending block of an update agree with it.      *)
(***************************************************************************)
LEMMA UpdateShows == TypeOK /\ SingleUnknown => UpdatesShow
<1> SUFFICES ASSUME TypeOK, SingleUnknown
             PROVE  UpdatesShow
  OBVIOUS
<1> DEFINE p == PendingOf(lines, cur)
           q == [k \in DOMAIN p |->
                   [p[k] EXCEPT !.kind = KindForMode(cur.mode)]]
<1>1. PendingTyped
  BY PendingIsTyped
<1>2. /\ Update(FALSE).pending = StreamPending
      /\ Update(TRUE).pending = IF report.final THEN <<>> ELSE q
      /\ StreamPending = IF report.final THEN <<>> ELSE p
  BY DEF Update, ReturnedPending, StreamPending
<1>3. Shows(StreamPending)
  BY DEF Shows
<1>4. CASE report.final \/ p = <<>>
  <2>1. Update(TRUE).pending = <<>> /\ StreamPending = <<>>
    <3>1. p = <<>> => q = <<>>
      OBVIOUS
    <3>2. QED
      BY <1>2, <1>4, <3>1
  <2>2. QED
    BY <1>2, <1>3, <2>1 DEF UpdatesShow
<1>5. ASSUME ~report.final, NEW b \in Block, p = <<b>>
      PROVE  UpdatesShow
  <2> DEFINE e == [b EXCEPT !.kind = KindForMode(cur.mode)]
  <2>1. q = <<e>>
    BY <1>5
  <2>2. e.id = b.id /\ e.raw = b.raw /\ e.kind = KindForMode(cur.mode)
    BY DEF Block
  <2>3. KindForMode(cur.mode) \in {b.kind, "Unknown"}
    <3>1. CASE SingleMode
      BY <3>1 DEF SingleUnknown, KindForMode
    <3>2. CASE ~SingleMode
      <4>1. b = BlockAt([cur EXCEPT !.mode = PendingMode(lines, cur)],
                        LinesOf(lines, cur.start, Len(lines) - 1))
        BY <1>5, <3>2 DEF PendingOf
      <4>2. b.kind = KindForMode(PendingMode(lines, cur))
        <5>1. cur \in Cursor
          BY DEF TypeOK
        <5>2. QED
          BY <4>1, <5>1 DEF BlockAt, Cursor
      <4>3. QED
        BY <4>2 DEF PendingMode, KindForMode
    <3>3. QED
      BY <3>1, <3>2
  <2> HIDE DEF p, q, e
  <2>4. Update(TRUE).pending = <<e>> /\ StreamPending = <<b>>
    BY <1>2, <1>5, <2>1
  <2>5. Shows(<<e>>)
    <3>1. Len(<<e>>) = 1 /\ Len(<<b>>) = 1 /\ <<e>>[1] = e /\ <<b>>[1] = b
          /\ \A k \in DOMAIN <<b>> : k = 1
      OBVIOUS
    <3>2. QED
      BY <2>2, <2>3, <2>4, <3>1 DEF Shows
  <2>6. QED
    BY <1>2, <1>3, <2>4, <2>5 DEF UpdatesShow
<1>6. QED
  BY <1>1, <1>4, <1>5 DEF PendingTyped

(***************************************************************************)
(* The same after a step.                                                  *)
(***************************************************************************)
LEMMA UpdateShowsNext == TypeOK' /\ SingleUnknown' => UpdatesShow'
  BY UpdateShows, PTL

(***************************************************************************)
(* An empty buffer has nothing pending.                                    *)
(***************************************************************************)
LEMMA FreshPending ==
  lines = <<EmptyText>> /\ cur.start = 0 => PendingOf(lines, cur) = <<>>
<1> SUFFICES ASSUME lines = <<EmptyText>>, cur.start = 0
             PROVE  PendingOf(lines, cur) = <<>>
  OBVIOUS
<1>1. cur.start = 0
  OBVIOUS
<1>2. LinesOf(lines, 0, Len(lines) - 1) = <<EmptyText>>
  <2> DEFINE s == <<EmptyText>>
             t == SubSeq(s, 1, 1)
  <2>0. s \in Seq(Text) /\ Len(s) = 1 /\ s[1] = EmptyText
    BY EmptyDocument
  <2>1. t = s /\ Len(s) = 1
    <3> HIDE DEF s
    <3>1. t \in Seq(Text) /\ Len(t) = 1 /\ t[1] = s[1]
      <4>1. \A i \in 1..1 : s[i] \in Text
        BY <2>0
      <4>2. QED
        BY <4>1, SubSeqProperties
    <3>2. QED
      BY <2>0, <3>1, SeqEqual
  <2>2. 0 + 1 = 1 /\ Len(lines) - 1 + 1 = 1
    BY <2>1
  <2>3. QED
    BY <2>1, <2>2 DEF LinesOf
<1>3. PendingOf(lines, cur) = <<>>
  <2> DEFINE ls == lines
  <2>1. ls = <<EmptyText>> /\ LinesOf(ls, cur.start, Len(ls) - 1) = <<EmptyText>>
    BY <1>1, <1>2
  <2>2. PendingOf(ls, cur) = <<>>
    <3> HIDE DEF ls
    <3>1. QED
      BY ONLY <2>1 DEF PendingOf
  <2>3. QED
    BY <2>2
<1>4. QED
  BY <1>3

(***************************************************************************)
(* The same after a step.                                                  *)
(***************************************************************************)
LEMMA FreshPendingNext ==
  (lines = <<EmptyText>> /\ cur.start = 0 => PendingOf(lines, cur) = <<>>)'
  BY FreshPending, PTL

(***************************************************************************)
(* A view to which all updates under way are applied is in step with the   *)
(* stream: during a call it has the committed blocks up to the mark, so    *)
(* that the update of the call adds the rest, and between calls it has all *)
(* of them and shows the pending block.                                    *)
(***************************************************************************)
Ready(v) ==
  \/ report.reset /\ report.mark = 0
  \/ /\ ~report.reset /\ report.mark <= Len(cur.committed)
     /\ v.committed = SubSeq(cur.committed, 1, report.mark)

InStep(v) ==
  /\ pc = "lines" => Ready(v)
  /\ pc = "idle" => v.committed = cur.committed /\ Shows(v.pending)

UpdatesInv ==
  \E f : IsAfter(f, view, updates) /\ InStep(f[Len(updates)])

(***************************************************************************)
(* An update of the blocks after the mark completes the blocks up to it.   *)
(***************************************************************************)
LEMMA SplitAt ==
  ASSUME NEW S, NEW s \in Seq(S), NEW m \in Nat, m <= Len(s)
  PROVE  SubSeq(s, 1, m) \o SubSeq(s, m + 1, Len(s)) = s
<1> DEFINE a == SubSeq(s, 1, m)
           b == SubSeq(s, m + 1, Len(s))
<1>1. /\ a \in Seq(S) /\ Len(a) = m
      /\ \A i \in 1..m : a[i] = s[i]
  BY SubSeqProperties
<1>2. /\ b \in Seq(S) /\ Len(b) = Len(s) - m
      /\ \A i \in 1..Len(s) - m : b[i] = s[m + i]
  BY SubSeqProperties
<1> HIDE DEF a, b
<1>3. a \o b \in Seq(S) /\ Len(a \o b) = Len(s)
  <2>1. a \o b \in Seq(S)
    BY <1>1, <1>2
  <2>2. Len(a \o b) = Len(a) + Len(b)
    <3>1. \A x, y \in Seq(S) : Len(x \o y) = Len(x) + Len(y)
      BY ONLY TRUE
    <3>2. QED
      BY ONLY <1>1, <1>2, <3>1
  <2>3. QED
    BY <1>1, <1>2, <2>1, <2>2
<1>4. ASSUME NEW i \in 1..Len(s)
      PROVE  (a \o b)[i] = s[i]
  <2>1. CASE i <= m
    BY <1>1, <1>2, <2>1
  <2>2. CASE ~(i <= m)
    <3>1. i - m \in 1..Len(s) - m /\ m + (i - m) = i
      BY <2>2
    <3>2. (a \o b)[i] = b[i - m]
      BY <1>1, <1>2, <2>2
    <3>3. QED
      BY <1>2, <3>1, <3>2
  <2>3. QED
    BY <2>1, <2>2
<1>5. a \o b = s
  BY <1>3, <1>4, SeqEqual
<1>6. QED
  BY <1>5 DEF a, b

Completes(v, u, bs, mark) ==
  /\ u.committed = SubSeq(bs, mark + 1, Len(bs))
  /\ \/ u.reset /\ mark = 0
     \/ ~u.reset /\ mark <= Len(bs) /\ v.committed = SubSeq(bs, 1, mark)

(***************************************************************************)
(* Such an update gives the view all blocks.                               *)
(***************************************************************************)
LEMMA ApplyCompletes ==
  ASSUME NEW v, NEW bs \in Seq(Block), NEW mark \in Nat, NEW u,
         Completes(v, u, bs, mark)
  PROVE  /\ ApplyTo(v, u).committed = bs
         /\ ApplyTo(v, u).pending = u.pending
<1>0. u.committed = SubSeq(bs, mark + 1, Len(bs))
  BY DEF Completes
<1>1. CASE u.reset /\ mark = 0
  <2>1. SubSeq(bs, 1, Len(bs)) = bs
    <3>1. SubSeq(bs, 1, 0) \o SubSeq(bs, 0 + 1, Len(bs)) = bs
      BY SplitAt
    <3>2. SubSeq(bs, 1, 0) = <<>> /\ 0 + 1 = 1
      BY SubSeqEmpty
    <3>3. SubSeq(bs, 1, Len(bs)) \in Seq(Block)
      BY SubSeqProperties
    <3>4. QED
      BY <3>1, <3>2, <3>3
  <2>2. mark + 1 = 1
    BY <1>1
  <2>3. QED
    BY <1>0, <1>1, <2>1, <2>2 DEF ApplyTo
<1>2. CASE ~u.reset /\ mark <= Len(bs) /\ v.committed = SubSeq(bs, 1, mark)
  BY <1>0, <1>2, SplitAt DEF ApplyTo
<1>3. QED
  BY <1>1, <1>2 DEF Completes

(***************************************************************************)
(* A prefix of a prefix is a prefix.                                       *)
(***************************************************************************)
LEMMA SamePrefixUpTo ==
  ASSUME NEW S, NEW s \in Seq(S), NEW t \in Seq(S), IsPrefixOf(s, t),
         NEW m \in Nat, m <= Len(s)
  PROVE  m <= Len(t) /\ SubSeq(t, 1, m) = SubSeq(s, 1, m)
<1>1. m <= Len(t) /\ \A i \in 1..m : s[i] = t[i]
  BY DEF IsPrefixOf
<1>2. /\ SubSeq(s, 1, m) \in Seq(S) /\ Len(SubSeq(s, 1, m)) = m
      /\ \A i \in 1..m : SubSeq(s, 1, m)[i] = s[i]
  BY SubSeqProperties
<1>3. /\ SubSeq(t, 1, m) \in Seq(S) /\ Len(SubSeq(t, 1, m)) = m
      /\ \A i \in 1..m : SubSeq(t, 1, m)[i] = t[i]
  BY <1>1, SubSeqProperties
<1>4. QED
  BY <1>1, <1>2, <1>3, SeqEqual

(***************************************************************************)
(* What a call that ends sends keeps the view in step.                     *)
(***************************************************************************)
LEMMA UpdateSent ==
  ASSUME SyncInv, TypeOK', SingleUnknown', pc' = "idle", view' = view,
         NEW f, IsAfter(f, view, updates),
         NEW v, v = f[Len(updates)], Ready(v)',
         NEW u, u = Update(FALSE)' \/ u = Update(TRUE)',
         updates' = Append(updates, u)
  PROVE  UpdatesInv'
<1>1. u \in UpdateRecord
  BY UpdateIsTypedNext DEF UpdateTyped
<1>2. u.committed = SubSeq(cur'.committed, report'.mark + 1,
                           Len(cur'.committed))
      /\ u.reset = report'.reset
  <2>1. CASE u = Update(FALSE)'
    BY <2>1 DEF Update
  <2>2. CASE u = Update(TRUE)'
    BY <2>2 DEF Update
  <2>3. QED
    BY <2>1, <2>2
<1>3. /\ Len(u.pending) = Len(StreamPending')
      /\ \A k \in DOMAIN StreamPending' :
           /\ u.pending[k].id = StreamPending'[k].id
           /\ u.pending[k].raw = StreamPending'[k].raw
           /\ u.pending[k].kind \in {StreamPending'[k].kind, "Unknown"}
  BY UpdateShowsNext DEF UpdatesShow, Shows
<1>4. cur'.committed \in Seq(Block) /\ report'.mark \in Nat
  <2>1. cur' \in Cursor /\ report'.mark \in Nat
    BY DEF TypeOK
  <2>2. QED
    BY <2>1, CursorFields
<1>5. \/ u.reset /\ report'.mark = 0
      \/ /\ ~u.reset /\ report'.mark <= Len(cur'.committed)
         /\ v.committed = SubSeq(cur'.committed, 1, report'.mark)
  BY <1>2 DEF Ready
<1>6. ApplyTo(v, u).committed = cur'.committed
      /\ ApplyTo(v, u).pending = u.pending
  <2> DEFINE bs == cur'.committed
             mark == report'.mark
  <2>1. bs \in Seq(Block) /\ mark \in Nat /\ Completes(v, u, bs, mark)
    BY <1>2, <1>4, <1>5 DEF Completes
  <2> HIDE DEF bs, mark
  <2>2. /\ ApplyTo(v, u).committed = bs
        /\ ApplyTo(v, u).pending = u.pending
    BY ONLY <2>1, ApplyCompletes
  <2>3. QED
    BY <2>2 DEF bs
<1>7. updates \in Seq(UpdateRecord)
  BY DEF SyncInv
<1>8. PICK g : /\ IsAfter(g, view, Append(updates, u))
               /\ g[Len(updates) + 1] = ApplyTo(v, u)
  BY <1>1, <1>7, AfterAppend
<1>9. Len(updates') = Len(updates) + 1
  BY <1>1, <1>7, AppendTyped
<1>10. IsAfter(g, view', updates') /\ g[Len(updates')] = ApplyTo(v, u)
  BY <1>8, <1>9
<1>11. InStep(g[Len(updates)])'
  BY <1>3, <1>6, <1>10 DEF InStep, Shows
<1>12. QED
  BY <1>10, <1>11 DEF UpdatesInv

(***************************************************************************)
(* A sequence is its longest prefix.                                       *)
(***************************************************************************)
LEMMA WholeSeq ==
  ASSUME NEW S, NEW s \in Seq(S)
  PROVE  SubSeq(s, 1, Len(s)) = s
<1>1. /\ SubSeq(s, 1, Len(s)) \in Seq(S) /\ Len(SubSeq(s, 1, Len(s))) = Len(s)
      /\ \A i \in 1..Len(s) : SubSeq(s, 1, Len(s))[i] = s[i]
  BY SubSeqProperties
<1>2. QED
  BY <1>1, SeqEqual

(***************************************************************************)
(* A call that goes on, or that ends and sends what it has to say.         *)
(***************************************************************************)
LEMMA LeaveKeepsStep ==
  ASSUME SyncInv, TypeOK', SingleUnknown', pc' \in {"idle", "lines"},
         view' = view, NEW f, IsAfter(f, view, updates),
         NEW v, v = f[Len(updates)], Ready(v)',
         NEW shown, NEW calls, Leave(shown, calls)
  PROVE  UpdatesInv'
<1>1. CASE pc' = "idle"
  <2>1. PICK u : (u = Update(FALSE)' \/ u = Update(TRUE)')
                 /\ updates' = Append(updates, u)
    BY <1>1 DEF Leave, Return, ReturnOwned, ReturnRef
  <2>2. QED
    BY <1>1, <2>1, UpdateSent
<1>2. CASE pc' = "lines"
  <2>1. updates' = updates
    BY <1>2 DEF Leave
  <2>2. InStep(f[Len(updates)])'
    BY <1>2, <2>1 DEF InStep, Ready
  <2>3. QED
    BY <2>1, <2>2 DEF UpdatesInv
<1>3. QED
  BY <1>1, <1>2

(***************************************************************************)
(* Every kind of step keeps the view in step: the calls that start now, a  *)
(* call that goes on, and finalize.                                        *)
(***************************************************************************)
LEMMA AppendReady ==
  ASSUME TypeOK, NEW v, InStep(v), NEW chunk \in Chunk,
         NEW endsInCr \in BOOLEAN, AppendChunk(chunk, endsInCr)
  PROVE  Ready(v)' /\ pc' \in {"idle", "lines"}
<1>1. v.committed = cur.committed
  BY DEF AppendChunk, MayAppend, InStep
<1>2. cur.committed \in Seq(Block)
  BY CursorFields DEF TypeOK
<1>3. CASE EnterSingleBlock(lines')
  BY <1>3 DEF EnterSingleBlock, Ready
<1>4. CASE EnterLoop
  <2>1. /\ cur' = cur /\ pc' = "lines" /\ ~report'.reset
        /\ report'.mark = Len(cur.committed)
    BY <1>4 DEF EnterLoop
  <2>2. v.committed = SubSeq(cur.committed, 1, Len(cur.committed))
        /\ Len(cur.committed) <= Len(cur.committed)
    BY <1>1, <1>2, WholeSeq
  <2>3. QED
    BY <2>1, <2>2 DEF Ready
<1>5. QED
  BY <1>3, <1>4 DEF AppendChunk

(***************************************************************************)
(* The loop of append and its end leave the view ready for the update of   *)
(* the call.                                                               *)
(***************************************************************************)
LEMMA LinesReady ==
  ASSUME TypeOK, NEW v, InStep(v), ProcessLine \/ FinishAppend
  PROVE  Ready(v)' /\ pc' \in {"idle", "lines"}
<1>1. /\ pc = "lines" /\ report' = report /\ pc' \in {"idle", "lines"}
      /\ Ready(v)
  BY DEF ProcessLine, FinishAppend, InStep
<1>2. TypeOK' /\ IsPrefixOf(cur.committed, cur'.committed)
  <2>1. [Next]_vars
    BY DEF Next, NextOn
  <2>2. ~Drops
    BY <1>1 DEF Drops, Reset, AppendChunk, MayAppend
  <2>3. QED
    BY <2>1, <2>2, KeepsStep DEF Committed
<1>3. cur.committed \in Seq(Block) /\ cur'.committed \in Seq(Block)
      /\ report.mark \in Nat
  <2>1. cur \in Cursor /\ cur' \in Cursor /\ report.mark \in Nat
    BY <1>2 DEF TypeOK
  <2>2. QED
    BY <2>1, CursorFields
<1>4. CASE report.reset /\ report.mark = 0
  BY <1>1, <1>4 DEF Ready
<1>5. CASE /\ ~report.reset /\ report.mark <= Len(cur.committed)
           /\ v.committed = SubSeq(cur.committed, 1, report.mark)
  <2>1. /\ report.mark <= Len(cur'.committed)
        /\ SubSeq(cur'.committed, 1, report.mark)
             = SubSeq(cur.committed, 1, report.mark)
    BY <1>2, <1>3, <1>5, SamePrefixUpTo
  <2>2. QED
    BY <1>1, <1>5, <2>1 DEF Ready
<1>6. QED
  BY <1>1, <1>4, <1>5 DEF Ready

(***************************************************************************)
(* So does a call that is one step.                                        *)
(***************************************************************************)
LEMMA IdleReady ==
  ASSUME TypeOK, NEW v, InStep(v),
         AppendNothing \/ FinalizeNothingNew \/ Finalize
  PROVE  Ready(v)' /\ pc' = "idle"
<1>1. /\ pc = "idle" /\ pc' = "idle" /\ ~report'.reset
      /\ report'.mark = Len(cur.committed)
  BY DEF AppendNothing, MayAppend, FinalizeNothingNew, Finalize, FinalReport
<1>2. TypeOK' /\ IsPrefixOf(cur.committed, cur'.committed)
  <2>1. [Next]_vars
    BY DEF Next, NextOn
  <2>2. CASE AppendNothing
    <3>1. cur' = cur
      BY <2>2 DEF AppendNothing
    <3>2. cur.committed \in Seq(Block)
      BY CursorFields DEF TypeOK
    <3>3. IsPrefixOf(cur.committed, cur.committed)
      BY <3>2 DEF IsPrefixOf
    <3>4. QED
      BY <2>1, <3>1, <3>3, KeepsStep
  <2>3. CASE FinalizeNothingNew \/ Finalize
    <3>1. report'.final
      BY <2>3 DEF FinalizeNothingNew, Finalize, FinalReport
    <3>2. ~Drops
      BY <3>1 DEF Drops, Reset, EnterSingleBlock
    <3>3. QED
      BY <2>1, <3>2, KeepsStep DEF Committed
  <2>4. QED
    BY <2>2, <2>3
<1>3. cur.committed \in Seq(Block) /\ cur'.committed \in Seq(Block)
      /\ Len(cur.committed) \in Nat
  <2>1. cur \in Cursor /\ cur' \in Cursor
    BY <1>2 DEF TypeOK
  <2>2. QED
    BY <2>1, CursorFields
<1>4. /\ Len(cur.committed) <= Len(cur'.committed)
      /\ SubSeq(cur'.committed, 1, Len(cur.committed)) = cur.committed
  BY <1>2, <1>3, SamePrefixUpTo, WholeSeq
<1>5. v.committed = cur.committed
  BY <1>1 DEF InStep
<1>6. QED
  BY <1>1, <1>4, <1>5 DEF Ready

(***************************************************************************)
(* Every step keeps the view in step with the stream.                      *)
(***************************************************************************)
LEMMA UpdatesKept ==
  ASSUME SyncInv, SyncInv', SingleUnknown', UpdatesInv, [SyncNext]_syncVars
  PROVE  UpdatesInv'
<1>1. PICK f : IsAfter(f, view, updates) /\ InStep(f[Len(updates)])
  BY DEF UpdatesInv
<1> DEFINE v == f[Len(updates)]
<1>2. TypeOK /\ TypeOK' /\ updates \in Seq(UpdateRecord)
  BY DEF SyncInv
<1>3. InStep(v)
  BY <1>1
<1>4. CASE ProduceByAppend(Chunk, {"append", "append_ref"})
  <2>1. PICK shown, calls : Leave(shown, calls)
    BY <1>4 DEF ProduceByAppend, AppendFirst, AppendFurther
  <2>2. view' = view
    BY <1>4 DEF ProduceByAppend
  <2>3. PICK w : w = v
    OBVIOUS
  <2> HIDE DEF v
  <2>4. Ready(w)' /\ pc' \in {"idle", "lines"}
    <3>1. InStep(w)
      BY <1>3, <2>3
    <3>2. ASSUME NEW chunk \in Chunk, NEW endsInCr \in BOOLEAN,
                 AppendChunk(chunk, endsInCr)
          PROVE  Ready(w)' /\ pc' \in {"idle", "lines"}
      BY <1>2, <3>1, <3>2, AppendReady
    <3>3. CASE ProcessLine \/ FinishAppend
      BY <1>2, <3>1, <3>3, LinesReady
    <3>4. QED
      BY <1>4, <3>2, <3>3 DEF ProduceByAppend, AppendFirst, AppendFurther
  <2>5. w = f[Len(updates)]
    BY <2>3 DEF v
  <2>6. QED
    BY <1>1, <1>2, <2>1, <2>2, <2>4, <2>5, LeaveKeepsStep
<1>5. CASE ProduceByEmptyAppend({"append", "append_ref"}) \/ ProduceByFinalize
  <2>1. PICK u : (u = Update(FALSE)' \/ u = Update(TRUE)')
                 /\ updates' = Append(updates, u)
    BY <1>5 DEF ProduceByEmptyAppend, ProduceByFinalize, Return, ReturnOwned,
       ReturnRef
  <2>2. view' = view
    BY <1>5 DEF ProduceByEmptyAppend, ProduceByFinalize
  <2>3. PICK w : w = v
    OBVIOUS
  <2> HIDE DEF v
  <2>4. Ready(w)' /\ pc' = "idle"
    <3>1. InStep(w)
      BY <1>3, <2>3
    <3>2. AppendNothing \/ FinalizeNothingNew \/ Finalize
      BY <1>5 DEF ProduceByEmptyAppend, ProduceByFinalize
    <3>3. QED
      BY <1>2, <3>1, <3>2, IdleReady
  <2>5. w = f[Len(updates)]
    BY <2>3 DEF v
  <2>6. QED
    BY <1>1, <1>2, <2>1, <2>2, <2>4, <2>5, UpdateSent
<1>6. CASE Apply
  <2>1. /\ updates # <<>> /\ view' = ApplyTo(view, Head(updates))
        /\ updates' = Tail(updates) /\ UNCHANGED vars
    BY <1>6 DEF Apply
  <2>2. PICK g : /\ IsAfter(g, view', updates')
                 /\ g[Len(updates) - 1] = f[Len(updates)]
    BY <1>1, <1>2, <2>1, AfterApply
  <2>3. Len(updates') = Len(updates) - 1
    BY <1>2, <2>1, TailTyped
  <2>4. g[Len(updates')] = f[Len(updates)]
    BY <2>2, <2>3
  <2>5. StreamPending' = StreamPending
    BY <2>1 DEF vars, StreamPending, PendingOf, SingleMode
  <2>6. InStep(g[Len(updates)])'
    BY <1>1, <2>1, <2>4, <2>5 DEF InStep, Shows, Ready, vars
  <2>7. QED
    BY <2>2, <2>6 DEF UpdatesInv
<1>7. CASE NewDocument
  <2>1. /\ updates' = <<>> /\ view' = EmptyView /\ pc' = "idle"
        /\ lines' = <<EmptyText>> /\ cur' = FreshCursor(0)
        /\ ~report'.final
    BY <1>7 DEF NewDocument, Reset
  <2>2. PICK f0 : IsAfter(f0, view', updates') /\ f0[Len(updates')] = EmptyView
    BY <2>1, AfterNone
  <2>3. StreamPending' = <<>>
    BY <2>1, FreshPendingNext DEF StreamPending, FreshCursor
  <2>4. cur'.committed = <<>> /\ EmptyView.committed = <<>>
        /\ EmptyView.pending = <<>>
    BY <2>1 DEF FreshCursor, EmptyView
  <2>5. InStep(f0[Len(updates)])'
    BY <2>1, <2>2, <2>3, <2>4 DEF InStep, Shows
  <2>6. QED
    BY <2>2, <2>5 DEF UpdatesInv
<1>8. CASE UNCHANGED syncVars
  <2>1. StreamPending' = StreamPending
    BY <1>8 DEF syncVars, vars, StreamPending, PendingOf, SingleMode
  <2>2. InStep(f[Len(updates)])'
    BY <1>1, <1>8, <2>1 DEF InStep, Shows, Ready, syncVars, vars
  <2>3. IsAfter(f, view', updates')
    BY <1>1, <1>8 DEF syncVars
  <2>4. QED
    BY <2>2, <2>3 DEF UpdatesInv
<1>9. QED
  BY <1>4, <1>5, <1>6, <1>7, <1>8 DEF SyncNext, SyncNextOn

(***************************************************************************)
(* An empty view is in step with an empty stream.                          *)
(***************************************************************************)
LEMMA InitUpdates ==
  ASSUME SyncInit
  PROVE  SingleUnknown /\ UpdatesInv
<1>1. /\ updates = <<>> /\ view = EmptyView /\ pc = "idle"
      /\ lines = <<EmptyText>> /\ cur = FreshCursor(0) /\ ~report.final
  BY DEF SyncInit, Init
<1>2. SingleUnknown
  BY <1>1 DEF SingleUnknown, FreshCursor
<1>3. PICK f : IsAfter(f, view, updates) /\ f[Len(updates)] = EmptyView
  BY <1>1, AfterNone
<1>4. StreamPending = <<>>
  BY <1>1, FreshPending DEF StreamPending, FreshCursor
<1>5. cur.committed = <<>> /\ EmptyView.committed = <<>>
      /\ EmptyView.pending = <<>>
  BY <1>1 DEF FreshCursor, EmptyView
<1>6. InStep(f[Len(updates)])
  BY <1>1, <1>3, <1>4, <1>5 DEF InStep, Shows
<1>7. QED
  BY <1>2, <1>3, <1>6 DEF UpdatesInv

(***************************************************************************)
(* The updates carry everything: between calls a consumer that applies all *)
(* that is under way holds the committed blocks of the stream and the id   *)
(* and text of its pending block, for every caller (also one that appends  *)
(* after a finalize), every order of calls and every lag of the consumer.  *)
(***************************************************************************)
THEOREM UpdatesAreEnough == SyncSpec => []UpdatesSuffice
<1> DEFINE Inv == SyncInv /\ SingleUnknown /\ UpdatesInv
<1>1. SyncInit => Inv
  BY InitSyncTyped, InitUpdates
<1>2. Inv /\ [SyncNext]_syncVars => Inv'
  <2> SUFFICES ASSUME Inv, [SyncNext]_syncVars
               PROVE  Inv'
    OBVIOUS
  <2>1. SyncInv'
    BY SyncTyped
  <2>2. SingleUnknown'
    BY SingleUnknownKept DEF SyncInv
  <2>3. QED
    BY <2>1, <2>2, UpdatesKept
<1>3. Inv => UpdatesSuffice
  <2> SUFFICES ASSUME Inv, pc = "idle"
               PROVE  UpdatesSuffice
    BY DEF UpdatesSuffice
  <2>1. PICK f : IsAfter(f, view, updates) /\ InStep(f[Len(updates)])
    BY DEF UpdatesInv
  <2>2. Len(updates) \in Nat
    BY DEF SyncInv
  <2>3. CaughtUp = f[Len(updates)]
    BY <2>1, <2>2, CaughtUpIs
  <2>4. InStep(CaughtUp)
    BY <2>1, <2>3
  <2>5. QED
    BY <2>4 DEF InStep, Shows, UpdatesSuffice
<1>4. QED
  BY <1>1, <1>2, <1>3, PTL DEF SyncSpec

-----------------------------------------------------------------------------
(***************************************************************************)
(* No two blocks of bs have the same id.                                   *)
(***************************************************************************)
DistinctIds(bs) == \A k, l \in DOMAIN bs : bs[k].id = bs[l].id => k = l

(***************************************************************************)
(* Ids are distinct whichever of two pending blocks with the same id is    *)
(* shown.                                                                  *)
(***************************************************************************)
LEMMA SameIds ==
  ASSUME NEW bs \in Seq(Block), NEW p \in Seq(Block), NEW q \in Seq(Block),
         Len(p) = Len(q), \A k \in DOMAIN q : p[k].id = q[k].id,
         DistinctIds(bs \o q)
  PROVE  DistinctIds(bs \o p)
<1> DEFINE a == bs \o p
           b == bs \o q
<1>1. /\ DOMAIN a = 1..Len(bs) + Len(p) /\ DOMAIN b = DOMAIN a
      /\ DOMAIN q = 1..Len(p)
  <2>1. DOMAIN a = 1..Len(bs) + Len(p)
    OBVIOUS
  <2>2. DOMAIN b = 1..Len(bs) + Len(q)
    OBVIOUS
  <2>3. DOMAIN q = 1..Len(q)
    OBVIOUS
  <2>4. QED
    BY <2>1, <2>2, <2>3
<1>2. ASSUME NEW k \in DOMAIN a
      PROVE  a[k].id = b[k].id
  <2>1. k \in 1..Len(bs) + Len(p)
    BY <1>1
  <2>2. CASE k <= Len(bs)
    <3>1. a[k] = bs[k] /\ b[k] = bs[k]
      BY <2>1, <2>2
    <3>2. QED
      BY <3>1
  <2>3. CASE ~(k <= Len(bs))
    <3>1. k - Len(bs) \in DOMAIN q
      BY <1>1, <2>1, <2>3
    <3>2. a[k] = p[k - Len(bs)] /\ b[k] = q[k - Len(bs)]
      BY <1>1, <2>1, <2>3
    <3>3. QED
      BY <3>1, <3>2
  <2>4. QED
    BY <2>2, <2>3
<1> HIDE DEF a, b
<1>3. DistinctIds(a)
  <2>1. DistinctIds(b)
    BY DEF b
  <2>2. QED
    BY <1>1, <1>2, <2>1 DEF DistinctIds
<1>4. QED
  BY <1>3 DEF a

(***************************************************************************)
(* Without a pending block they still are.                                 *)
(***************************************************************************)
LEMMA PrefixIds ==
  ASSUME NEW bs \in Seq(Block), NEW q \in Seq(Block), DistinctIds(bs \o q)
  PROVE  DistinctIds(bs \o <<>>)
<1> DEFINE b == bs \o q
<1>1. /\ \A k \in DOMAIN bs : k \in DOMAIN b /\ b[k] = bs[k]
      /\ bs \o <<>> = bs
  OBVIOUS
<1>2. DistinctIds(b)
  OBVIOUS
<1> HIDE DEF b
<1>3. DistinctIds(bs)
  BY <1>1, <1>2 DEF DistinctIds
<1>4. QED
  BY <1>1, <1>3

(***************************************************************************)
(* What the stream shows between calls has distinct ids, if the call after *)
(* which the document is closed was a finalize, which shows nothing as     *)
(* pending.                                                                *)
(***************************************************************************)
ClosedIsFinal == closed => report.final

(***************************************************************************)
(* Every step keeps ClosedIsFinal.                                         *)
(***************************************************************************)
LEMMA ClosedIsFinalKept ==
  ASSUME ResetAfterFinalize, IInv, ClosedIsFinal, [SyncNext]_syncVars
  PROVE  ClosedIsFinal'
<1>1. [Next]_vars /\ closed \in BOOLEAN
  BY SyncIsStream DEF IInv, TypeOK
<1>2. CASE closed
  <2>1. pc = "idle"
    BY <1>2 DEF IInv, ClosedInv
  <2>2. CASE FinalizeNothingNew \/ Finalize
    <3>1. report' = FinalReport(Len(cur.committed))
      BY <2>2 DEF FinalizeNothingNew, Finalize
    <3>2. QED
      BY <3>1 DEF FinalReport, ClosedIsFinal
  <2>3. CASE Reset
    BY <2>3 DEF Reset, ClosedIsFinal
  <2>4. CASE UNCHANGED vars
    BY <2>4 DEF vars, ClosedIsFinal
  <2>5. QED
    BY <1>1, <1>2, <2>1, <2>2, <2>3, <2>4 DEF Next, NextOn, AppendChunk,
       AppendNothing, MayAppend, ProcessLine, FinishAppend, IndexFault
<1>3. CASE ~closed
  <2>1. CASE Finalize
    BY <2>1 DEF Finalize, FinalReport, ClosedIsFinal
  <2>2. CASE ~Finalize
    <3>1. ~closed'
      BY <1>1, <1>3, <2>2 DEF Next, NextOn, AppendChunk, AppendNothing,
         ProcessLine, FinishAppend, IndexFault, FinalizeNothingNew, Reset,
         vars
    <3>2. QED
      BY <3>1 DEF ClosedIsFinal
  <2>3. QED
    BY <2>1, <2>2
<1>4. QED
  BY <1>2, <1>3

ShownDistinct ==
  pc = "idle" => DistinctIds(cur.committed \o StreamPending)

(***************************************************************************)
(* The ids that the stream shows between calls are distinct.               *)
(***************************************************************************)
LEMMA ShownIsDistinct == IInv /\ SnapshotInv /\ ClosedIsFinal => ShownDistinct
<1> SUFFICES ASSUME IInv, SnapshotInv, ClosedIsFinal, pc = "idle"
             PROVE  DistinctIds(cur.committed \o StreamPending)
  BY DEF ShownDistinct
<1>1. /\ TypeOK /\ cur.committed \in Seq(Block)
  BY CursorFields DEF IInv, TypeOK
<1>2. PendingOf(lines, cur) \in Seq(Block)
  <2>1. \A b \in Block : <<b>> \in Seq(Block)
    OBVIOUS
  <2>2. <<>> \in Seq(Block)
    OBVIOUS
  <2>3. QED
    BY <1>1, <2>1, <2>2, PendingIsTyped DEF PendingTyped
<1>3. CASE closed
  <2>1. StreamPending = <<>> /\ Increasing(cur.committed)
    BY <1>3 DEF ClosedIsFinal, StreamPending, IInv, ClosedInv
  <2>2. \A k \in DOMAIN cur.committed : cur.committed[k].id \in Nat
    BY <1>1, BlockFields
  <2>3. DistinctIds(cur.committed)
    <3> DEFINE bs == cur.committed
    <3>1. /\ bs \in Seq(Block) /\ Increasing(bs)
          /\ \A k \in DOMAIN bs : bs[k].id \in Nat
      BY <1>1, <2>1, <2>2
    <3> HIDE DEF bs
    <3>2. DOMAIN bs = 1..Len(bs)
      BY <3>1
    <3>3. ASSUME NEW k \in DOMAIN bs, NEW l \in DOMAIN bs, bs[k].id = bs[l].id
          PROVE  k = l
      <4>1. k < l \/ k = l \/ l < k
        BY <3>2
      <4>2. ~(k < l) /\ ~(l < k)
        BY <3>1, <3>2, <3>3 DEF Increasing
      <4>3. QED
        BY <4>1, <4>2
    <3>4. DistinctIds(bs)
      BY <3>3 DEF DistinctIds
    <3>5. QED
      BY <3>4 DEF bs
  <2>4. cur.committed \o <<>> = cur.committed
    BY <1>1
  <2>5. QED
    BY <2>1, <2>3, <2>4
<1>4. CASE ~closed
  <2>1. SnapshotIdsDistinct
    BY <1>4, SnapshotIds
  <2>2. DistinctIds(cur.committed \o PendingOf(lines, cur))
    BY <2>1 DEF SnapshotIdsDistinct, SnapshotBlocks, DistinctIds
  <2>3. QED
    BY <1>1, <1>2, <2>2, PrefixIds DEF StreamPending
<1>5. QED
  BY <1>3, <1>4

(***************************************************************************)
(* The same after a step.                                                  *)
(***************************************************************************)
LEMMA ShownIsDistinctNext ==
  (IInv /\ SnapshotInv /\ ClosedIsFinal => ShownDistinct)'
  BY ShownIsDistinct, PTL

(***************************************************************************)
(* The view has distinct ids now and after each of the updates under way.  *)
(***************************************************************************)
KeysDistinct(v) == DistinctIds(v.committed \o v.pending)

KeysInv ==
  \E f : /\ IsAfter(f, view, updates)
         /\ \A n \in 0..Len(updates) : KeysDistinct(f[n])

(***************************************************************************)
(* The update that a call sends gives a view with distinct ids.            *)
(***************************************************************************)
LEMMA KeysSent ==
  ASSUME SyncInv, TypeOK', UpdatesInv', ShownDistinct', KeysInv, pc' = "idle",
         view' = view, NEW u \in UpdateRecord, updates' = Append(updates, u)
  PROVE  KeysInv'
<1>1. PICK f : /\ IsAfter(f, view, updates)
               /\ \A n \in 0..Len(updates) : KeysDistinct(f[n])
  BY DEF KeysInv
<1>2. updates \in Seq(UpdateRecord)
  BY DEF SyncInv
<1>3. PICK g : /\ IsAfter(g, view, Append(updates, u))
               /\ g[Len(updates) + 1] = ApplyTo(f[Len(updates)], u)
               /\ \A n \in 0..Len(updates) : g[n] = f[n]
  BY <1>1, <1>2, AfterAppend
<1>4. PICK h : IsAfter(h, view', updates') /\ InStep(h[Len(updates)])'
  BY DEF UpdatesInv
<1>5. Len(updates) \in Nat /\ Len(updates') = Len(updates) + 1
  BY <1>2, AppendTyped
<1> DEFINE w == g[Len(updates')]
<1>6. w = h[Len(updates')]
  <2> DEFINE us == updates'
             v == view'
             N == Len(us)
  <2>1. /\ IsAfter(g, v, us) /\ IsAfter(h, v, us)
        /\ N \in Nat /\ N <= N
    BY <1>3, <1>4, <1>5
  <2> HIDE DEF us, v
  <2>2. g[N] = h[N]
    BY ONLY <2>1, AfterUnique
  <2>3. QED
    BY <2>2 DEF us
<1>7. /\ w.committed = cur'.committed
      /\ Len(w.pending) = Len(StreamPending')
      /\ \A k \in DOMAIN StreamPending' :
           w.pending[k].id = StreamPending'[k].id
  BY <1>4, <1>6 DEF InStep, Shows
<1>8. w.pending = u.pending /\ u.pending \in Seq(Block)
  BY <1>3, <1>5 DEF ApplyTo, UpdateRecord
<1>9. cur'.committed \in Seq(Block)
  <2>1. cur' \in Cursor
    BY DEF TypeOK
  <2>2. QED
    BY <2>1, CursorFields
<1>10. StreamPending' \in Seq(Block)
  <2>1. \A b \in Block : <<b>> \in Seq(Block)
    OBVIOUS
  <2>2. <<>> \in Seq(Block)
    OBVIOUS
  <2>3. QED
    BY <2>1, <2>2, PendingIsTypedNext DEF PendingTyped, StreamPending
<1>11. DistinctIds(cur'.committed \o StreamPending')
  BY DEF ShownDistinct, DistinctIds
<1>12. KeysDistinct(w)
  <2> DEFINE bs == cur'.committed
             p == w.pending
             q == StreamPending'
  <2>1. /\ bs \in Seq(Block) /\ p \in Seq(Block) /\ q \in Seq(Block)
        /\ Len(p) = Len(q) /\ \A k \in DOMAIN q : p[k].id = q[k].id
        /\ DistinctIds(bs \o q) /\ w.committed = bs
    BY <1>7, <1>8, <1>9, <1>10, <1>11
  <2> HIDE DEF bs, q, w
  <2>2. DistinctIds(bs \o p)
    BY <2>1, SameIds
  <2>3. QED
    BY <2>1, <2>2 DEF KeysDistinct
<1> HIDE DEF w
<1>13. ASSUME NEW n \in 0..Len(updates')
       PROVE  KeysDistinct(g[n])
  <2>1. CASE n = Len(updates')
    BY <1>12, <2>1 DEF w
  <2>2. CASE n # Len(updates')
    <3>1. n \in 0..Len(updates)
      BY <1>5, <2>2
    <3>2. QED
      BY <1>1, <1>3, <3>1
  <2>3. QED
    BY <2>1, <2>2
<1>14. IsAfter(g, view', updates')
  BY <1>3
<1>15. QED
  BY <1>13, <1>14 DEF KeysInv, KeysDistinct, DistinctIds

(***************************************************************************)
(* Every step keeps KeysInv.                                               *)
(***************************************************************************)
LEMMA KeysKept ==
  ASSUME SyncInv, TypeOK', UpdatesInv', ShownDistinct', KeysInv,
         [SyncNext]_syncVars
  PROVE  KeysInv'
<1>1. PICK f : /\ IsAfter(f, view, updates)
               /\ \A n \in 0..Len(updates) : KeysDistinct(f[n])
  BY DEF KeysInv
<1>2. updates \in Seq(UpdateRecord)
  BY DEF SyncInv
<1>3. Update(FALSE)' \in UpdateRecord /\ Update(TRUE)' \in UpdateRecord
  BY UpdateIsTypedNext DEF UpdateTyped
<1>4. CASE updates' = updates /\ view' = view
  BY <1>1, <1>4 DEF KeysInv, KeysDistinct, DistinctIds
<1>5. CASE ProduceByAppend(Chunk, {"append", "append_ref"})
  <2>1. PICK shown, calls : Leave(shown, calls)
    BY <1>5 DEF ProduceByAppend, AppendFirst, AppendFurther
  <2>2. view' = view
    BY <1>5 DEF ProduceByAppend
  <2>3. CASE pc' = "idle"
    <3>1. PICK u \in UpdateRecord : updates' = Append(updates, u)
      BY <1>3, <2>1, <2>3 DEF Leave, Return, ReturnOwned, ReturnRef
    <3>2. QED
      BY <2>2, <2>3, <3>1, KeysSent
  <2>4. CASE pc' # "idle"
    BY <1>4, <2>1, <2>2, <2>4 DEF Leave
  <2>5. QED
    BY <2>3, <2>4
<1>6. CASE ProduceByEmptyAppend({"append", "append_ref"}) \/ ProduceByFinalize
  <2>1. PICK u \in UpdateRecord : updates' = Append(updates, u)
    BY <1>3, <1>6 DEF ProduceByEmptyAppend, ProduceByFinalize, Return,
       ReturnOwned, ReturnRef
  <2>2. view' = view /\ pc' = "idle"
    BY <1>6 DEF ProduceByEmptyAppend, ProduceByFinalize, AppendNothing,
       MayAppend, FinalizeNothingNew, Finalize
  <2>3. QED
    BY <2>1, <2>2, KeysSent
<1>7. CASE Apply
  <2>1. /\ updates # <<>> /\ view' = ApplyTo(view, Head(updates))
        /\ updates' = Tail(updates)
    BY <1>7 DEF Apply
  <2>2. PICK g : /\ IsAfter(g, view', updates')
                 /\ \A n \in 0..Len(updates) - 1 : g[n] = f[n + 1]
    BY <1>1, <1>2, <2>1, AfterApply
  <2>3. Len(updates) \in Nat /\ Len(updates') = Len(updates) - 1
    BY <1>2, <2>1, TailTyped
  <2>4. ASSUME NEW n \in 0..Len(updates')
        PROVE  KeysDistinct(g[n])
    <3>1. n \in 0..Len(updates) - 1 /\ n + 1 \in 0..Len(updates)
      BY <2>3
    <3>2. QED
      BY <1>1, <2>2, <3>1
  <2>5. QED
    BY <2>2, <2>4 DEF KeysInv, KeysDistinct, DistinctIds
<1>8. CASE NewDocument
  <2>1. updates' = <<>> /\ view' = EmptyView
    BY <1>8 DEF NewDocument
  <2>2. PICK g : IsAfter(g, view', updates') /\ g[Len(updates')] = EmptyView
    BY <2>1, AfterNone
  <2>3. Len(updates') = 0
    BY <2>1
  <2>4. KeysDistinct(EmptyView)
    <3>1. EmptyView.committed \o EmptyView.pending = <<>>
      BY DEF EmptyView
    <3>2. QED
      BY <3>1 DEF KeysDistinct, DistinctIds
  <2>5. \A n \in 0..Len(updates') : KeysDistinct(g[n])
    BY <2>2, <2>3, <2>4
  <2>6. QED
    BY <2>2, <2>5 DEF KeysInv, KeysDistinct, DistinctIds
<1>9. QED
  BY <1>4, <1>5, <1>6, <1>7, <1>8 DEF SyncNext, SyncNextOn, syncVars

(***************************************************************************)
(* These hold at the start.                                                *)
(***************************************************************************)
LEMMA InitKeys ==
  ASSUME SyncInit
  PROVE  ClosedIsFinal /\ SnapshotInv /\ KeysInv
<1>1. updates = <<>> /\ view = EmptyView /\ closed = FALSE
  BY DEF SyncInit, Init
<1>2. PICK f : IsAfter(f, view, updates) /\ f[Len(updates)] = EmptyView
  BY <1>1, AfterNone
<1>3. Len(updates) = 0
  BY <1>1
<1>4. KeysDistinct(EmptyView)
  <2>1. EmptyView.committed \o EmptyView.pending = <<>>
    BY DEF EmptyView
  <2>2. QED
    BY <2>1 DEF KeysDistinct, DistinctIds
<1>5. \A n \in 0..Len(updates) : KeysDistinct(f[n])
  BY <1>2, <1>3, <1>4
<1>6. QED
  BY <1>1, <1>2, <1>5 DEF ClosedIsFinal, SnapshotInv, KeysInv

(***************************************************************************)
(* No two blocks that a consumer shows have the same id, however late it   *)
(* applies the updates, for a caller that resets after a finalize and does *)
(* not ask for a buffer limit together with a single block.                *)
(***************************************************************************)
THEOREM CacheKeysAreDistinct ==
  ASSUME ResetAfterFinalize, SingleBlock => MaxBufferBytes = {}
  PROVE  SyncSpec => []CacheKeysDistinct
<1> DEFINE Inv == /\ SyncInv /\ SingleUnknown /\ UpdatesInv /\ IInv
                  /\ SnapshotInv /\ ClosedIsFinal /\ KeysInv
<1>1. SyncInit => Inv
  BY InitSyncTyped, InitUpdates, InitKeys, InitKeeps DEF SyncInit
<1>2. Inv /\ [SyncNext]_syncVars => Inv'
  <2> SUFFICES ASSUME Inv, [SyncNext]_syncVars
               PROVE  Inv'
    OBVIOUS
  <2>1. SyncInv' /\ TypeOK'
    BY SyncTyped DEF SyncInv
  <2>2. SingleUnknown'
    BY SingleUnknownKept DEF SyncInv
  <2>3. UpdatesInv'
    BY <2>1, <2>2, UpdatesKept
  <2>4. IInv' /\ SnapshotInv'
    BY SyncIsStream, NextKeeps, SnapshotInvKept
  <2>5. ClosedIsFinal'
    BY ClosedIsFinalKept
  <2>6. ShownDistinct'
    BY <2>4, <2>5, ShownIsDistinctNext
  <2>7. KeysInv'
    BY <2>1, <2>3, <2>6, KeysKept
  <2>8. QED
    BY <2>1, <2>2, <2>3, <2>4, <2>5, <2>7
<1>3. Inv => CacheKeysDistinct
  <2> SUFFICES ASSUME KeysInv, SyncInv
               PROVE  CacheKeysDistinct
    OBVIOUS
  <2>1. PICK f : /\ IsAfter(f, view, updates)
                 /\ \A n \in 0..Len(updates) : KeysDistinct(f[n])
    BY DEF KeysInv
  <2>2. Len(updates) \in Nat
    BY DEF SyncInv
  <2>3. f[0] = view /\ 0 \in 0..Len(updates)
    BY <2>1, <2>2, AfterStep
  <2>4. KeysDistinct(view)
    BY <2>1, <2>3
  <2>5. QED
    BY <2>4 DEF KeysDistinct, DistinctIds, CacheKeysDistinct
<1>4. QED
  BY <1>1, <1>2, <1>3, PTL DEF SyncSpec

-----------------------------------------------------------------------------
(***************************************************************************)
(* The lines of a block that has not ended.                                *)
(***************************************************************************)
LEMMA RestOfLines ==
  ASSUME NEW ls \in Seq(Text), NEW first \in Nat, first < Len(ls)
  PROVE  /\ LinesOf(ls, first, Len(ls) - 1) \in Seq(Text)
         /\ Len(LinesOf(ls, first, Len(ls) - 1)) = Len(ls) - first
         /\ \A j \in 1..Len(ls) - first :
              LinesOf(ls, first, Len(ls) - 1)[j] = ls[first + j]
<1> DEFINE raw == LinesOf(ls, first, Len(ls) - 1)
<1>1. PICK m, n \in Int : m = first + 1 /\ n = Len(ls)
  OBVIOUS
<1>2. \A i \in m..n : ls[i] \in Text
  BY <1>1
<1>3. /\ SubSeq(ls, m, n) \in Seq(Text)
      /\ Len(SubSeq(ls, m, n)) = IF m <= n THEN n - m + 1 ELSE 0
      /\ \A j \in 1..n - m + 1 : SubSeq(ls, m, n)[j] = ls[m + j - 1]
  BY <1>2, SubSeqProperties
<1>4. raw = SubSeq(ls, m, n)
  <2>1. Len(ls) - 1 + 1 = n
    BY <1>1
  <2>2. QED
    BY <1>1, <2>1 DEF LinesOf
<1> HIDE DEF raw
<1>5. /\ raw \in Seq(Text) /\ Len(raw) = IF m <= n THEN n - m + 1 ELSE 0
      /\ \A j \in 1..n - m + 1 : raw[j] = ls[m + j - 1]
  BY <1>3, <1>4, Zenon
<1>6. n - m + 1 = Len(ls) - first /\ m <= n
  BY <1>1
<1>7. ASSUME NEW j \in 1..Len(ls) - first
      PROVE  raw[j] = ls[first + j]
  <2>1. j \in 1..n - m + 1 /\ m + j - 1 = first + j
    BY <1>1, <1>6
  <2>2. QED
    BY <1>5, <2>1
<1>8. QED
  BY <1>5, <1>6, <1>7 DEF raw

(***************************************************************************)
(* A chunk extends the lines of the last block as it extends the buffer.   *)
(***************************************************************************)
LEMMA RestExtends ==
  ASSUME NEW ls \in Seq(Text), NEW first \in Nat, first < Len(ls),
         NEW chunk \in Chunk
  PROVE  LinesOf(Extend(ls, chunk), first, Len(Extend(ls, chunk)) - 1)
           = Extend(LinesOf(ls, first, Len(ls) - 1), chunk)
<1> DEFINE raw == LinesOf(ls, first, Len(ls) - 1)
           more == Extend(ls, chunk)
           rest == LinesOf(more, first, Len(more) - 1)
<1>1. /\ raw \in Seq(Text) /\ Len(raw) = Len(ls) - first
      /\ \A j \in 1..Len(ls) - first : raw[j] = ls[first + j]
  BY RestOfLines
<1> HIDE DEF raw
<1>2. ls # <<>> /\ raw # <<>> /\ Len(ls) \in Nat
  BY <1>1
<1>3. /\ chunk \in Seq(Text) /\ Len(chunk) >= 1
      /\ more \in Seq(Text) /\ Len(more) = Len(ls) - 1 + Len(chunk)
      /\ \A j \in 1..Len(ls) - 1 : more[j] = ls[j]
      /\ \A j \in 1..Len(chunk) : more[Len(ls) - 1 + j] = chunk[j]
  BY <1>2, ExtendFacts
<1>4. /\ Extend(raw, chunk) \in Seq(Text)
      /\ Len(Extend(raw, chunk)) = Len(raw) - 1 + Len(chunk)
      /\ \A j \in 1..Len(raw) - 1 : Extend(raw, chunk)[j] = raw[j]
      /\ \A j \in 1..Len(chunk) :
           Extend(raw, chunk)[Len(raw) - 1 + j] = chunk[j]
  BY <1>1, <1>2, ExtendFacts
<1> HIDE DEF more
<1>9. Len(chunk) \in Nat /\ first < Len(more)
  BY <1>2, <1>3
<1>5. /\ rest \in Seq(Text) /\ Len(rest) = Len(more) - first
      /\ \A j \in 1..Len(more) - first : rest[j] = more[first + j]
  BY <1>3, <1>9, RestOfLines
<1> HIDE DEF rest
<1>6. Len(rest) = Len(Extend(raw, chunk))
  BY <1>1, <1>2, <1>3, <1>4, <1>5, <1>9
<1>7. ASSUME NEW j \in 1..Len(rest)
      PROVE  rest[j] = Extend(raw, chunk)[j]
  <2>1. rest[j] = more[first + j]
    BY <1>2, <1>3, <1>5
  <2>2. CASE j <= Len(raw) - 1
    <3>1. j \in 1..Len(raw) - 1 /\ first + j \in 1..Len(ls) - 1
          /\ j \in 1..Len(ls) - first
      BY <1>1, <1>2, <1>5, <2>2
    <3>2. Extend(raw, chunk)[j] = raw[j] /\ raw[j] = ls[first + j]
          /\ more[first + j] = ls[first + j]
      BY <1>1, <1>3, <1>4, <3>1
    <3>3. QED
      BY <2>1, <3>2
  <2>3. CASE ~(j <= Len(raw) - 1)
    <3>0. /\ j \in Nat /\ Len(raw) \in Nat
          /\ j <= Len(raw) - 1 + Len(chunk) /\ j >= Len(raw)
      <4>1. Len(rest) = Len(raw) - 1 + Len(chunk) /\ Len(raw) \in Nat
        BY <1>1, <1>2, <1>3, <1>5, <1>9
      <4>2. j \in Nat /\ j <= Len(rest)
        BY <1>1, <1>5
      <4>3. QED
        BY <1>9, <2>3, <4>1, <4>2
    <3>1. PICK k \in 1..Len(chunk) : k = j - (Len(raw) - 1)
      <4>1. j - (Len(raw) - 1) \in 1..Len(chunk)
        BY <1>9, <3>0
      <4>2. QED
        BY <4>1
    <3>2. j = Len(raw) - 1 + k /\ first + j = Len(ls) - 1 + k
      BY <1>1, <1>2, <3>1
    <3>3. Extend(raw, chunk)[j] = chunk[k] /\ more[first + j] = chunk[k]
      BY <1>3, <1>4, <3>2
    <3>4. QED
      BY <2>1, <3>3
  <2>4. QED
    BY <2>2, <2>3
<1>8. QED
  <2>1. rest = Extend(raw, chunk)
    BY <1>4, <1>5, <1>6, <1>7, SeqEqual
  <2>2. QED
    BY <2>1 DEF rest, more, raw

(***************************************************************************)
(* The inductive half of DisplayIsFresh that is about the stream: a block  *)
(* in a code fence begins with a line that starts one, also when its mode  *)
(* was guessed from an unfinished line.                                    *)
(***************************************************************************)
FenceInv ==
  Split /\ cur.mode = "CodeFence"
    => StartMode(lines[cur.start + 1]) = "CodeFence"

\* The same for any lines and cursor.
FenceFirst(ls, c) ==
  c.mode = "CodeFence" => StartMode(ls[c.start + 1]) = "CodeFence"

(***************************************************************************)
(* A block with the mode given begins with one of the lines S.             *)
(***************************************************************************)
BeginsIn(ls, c, mode, S) == c.mode = mode => ls[c.start + 1] \in S

(***************************************************************************)
(* maybe_compact_buffer moves the block with its first line.               *)
(***************************************************************************)
LEMMA BeginsRebased ==
  ASSUME NEW ls \in Seq(Text), NEW c \in Cursor, NEW n, c.start < Len(ls),
         NEW mode, NEW S, BeginsIn(ls, c, mode, S), Rebased(ls, c, n)
  PROVE  BeginsIn(lines, cur, mode, S)'
<1>0. c.start \in Nat /\ Len(ls) \in Nat
  BY CursorFields
<1>1. CASE lines' = ls /\ cur' = c
  BY <1>1 DEF BeginsIn
<1>2. CASE /\ cur' = [c EXCEPT !.base = c.base + c.start, !.start = 0]
           /\ Len(lines') = Len(ls) - c.start
           /\ \A j \in 1..Len(lines') : lines'[j] = ls[c.start + j]
  <2>1. cur'.start = 0 /\ cur'.mode = c.mode
    BY <1>2 DEF Cursor
  <2>2. 1 \in 1..Len(lines')
    BY <1>0, <1>2
  <2>3. lines'[cur'.start + 1] = ls[c.start + 1]
    BY <1>2, <2>1, <2>2
  <2>4. QED
    BY <2>1, <2>3 DEF BeginsIn
<1>3. QED
  BY <1>1, <1>2 DEF Rebased

(***************************************************************************)
(* Every step keeps that of a fence and of a formula, if S has the lines   *)
(* that start one, and those that they can grow into.                      *)
(***************************************************************************)
LEMMA BeginsKept ==
  ASSUME ResetAfterFinalize, IInv, ModeInv, [Next]_vars, Split',
         NEW mode \in {"CodeFence", "MathBlock"}, NEW S,
         \A t \in Text : StartMode(t) = mode => t \in S,
         \A pair \in Grows : pair[1] \in S => pair[2] \in S,
         Split => BeginsIn(lines, cur, mode, S)
  PROVE  BeginsIn(lines, cur, mode, S)'
<1>2. CASE Starts
  BY <1>2 DEF Starts, FreshCursor, BeginsIn
<1>3. ASSUME Split, Stays \/ Extends \/ Reads \/ Returns \/ KeepsBlanks
                    \/ CommitsNone
      PROVE  BeginsIn(lines, cur, mode, S)'
  <2>0. /\ lines \in Seq(Text) /\ lines # <<>> /\ Len(lines) \in Nat
        /\ doc \in Seq(Text) /\ doc # <<>>
        /\ processed \in Nat /\ cur \in Cursor /\ cur.start \in Nat
        /\ Sound(lines, doc, cur, processed)
        /\ cur.start <= processed /\ processed < Len(lines)
    BY <1>3, SplitFacts
  <2>1. /\ cur.start < processed => FirstMode(lines, cur)
        /\ BeginsIn(lines, cur, mode, S)
    BY <1>3 DEF ModeInv
  <2>2. CASE Stays
    BY <2>1, <2>2 DEF Stays, BeginsIn
  <2>3. CASE Extends
    <3>1. PICK chunk \in Chunk :
            Follows(chunk) /\ lines' = Extend(lines, chunk) /\ cur' = cur
      BY <2>3 DEF Extends
    <3>2. /\ chunk \in Seq(Text) /\ Len(chunk) >= 1
          /\ \A j \in 1..Len(lines) - 1 : lines'[j] = lines[j]
          /\ \A j \in 1..Len(chunk) : lines'[Len(lines) - 1 + j] = chunk[j]
      BY <2>0, <3>1, ExtendFacts
    <3>3. CASE cur.start + 1 < Len(lines)
      <4>1. cur.start + 1 \in 1..Len(lines) - 1
        BY <2>0, <3>3
      <4>2. QED
        BY <2>1, <3>1, <3>2, <4>1 DEF BeginsIn
    <3>4. CASE ~(cur.start + 1 < Len(lines))
      <4>1. cur.start + 1 = Len(lines) /\ cur.start + 1 = Len(lines) - 1 + 1
        BY <2>0, <3>4
      <4>2. lines'[cur.start + 1] = chunk[1] /\ lines[cur.start + 1] = LastLine
        BY <3>2, <4>1 DEF LastLine
      <4>3. chunk[1] = LastLine \/ <<LastLine, chunk[1]>> \in Grows
        BY <3>1 DEF Follows
      <4>4. LastLine \in S => chunk[1] \in S
        <5>1. CASE chunk[1] = LastLine
          BY <5>1
        <5>2. CASE <<LastLine, chunk[1]>> \in Grows
          BY <5>2
        <5>3. QED
          BY <4>3, <5>1, <5>2
      <4>5. QED
        BY <2>1, <3>1, <4>2, <4>4 DEF BeginsIn
    <3>5. QED
      BY <3>3, <3>4
  <2>4. CASE Reads
    <3>1. /\ lines' = lines /\ cur' = Process(lines, cur, processed)
      BY <2>4 DEF Reads
    <3>2. /\ cur'.start < processed + 1 => FirstMode(lines, cur')
          /\ cur'.start >= processed + 1 => cur'.mode # mode
      BY <2>0, <2>1, <3>1, ProcessFirst
    <3>3. cur'.start \in Nat
      <4>1. Sound(lines, doc, cur', processed + 1)
        BY <2>0, <3>1, ProcessSound
      <4>2. QED
        BY <4>1 DEF Sound, Cursor
    <3>4. cur'.start < processed + 1 \/ cur'.start >= processed + 1
      BY <2>0, <3>3
    <3>5. CASE cur'.start >= processed + 1
      BY <3>2, <3>5 DEF BeginsIn
    <3>6. CASE cur'.start < processed + 1
      <4>1. lines[cur'.start + 1] \in Text
        BY <2>0, <3>3, <3>6
      <4>2. cur'.mode = mode => StartMode(lines[cur'.start + 1]) = mode
        BY <3>2, <3>6 DEF FirstMode
      <4>3. QED
        BY <3>1, <4>1, <4>2 DEF BeginsIn
    <3>7. QED
      BY <3>4, <3>5, <3>6
  <2>5. CASE Returns
    <3> DEFINE c == TailBoundary(lines, cur)
    <3>1. processed = Len(lines) - 1 /\ Compact(lines, c, processed)
      BY <2>5 DEF Returns
    <3>2. Sound(lines, doc, c, processed)
      BY <2>0, <3>1, TailBoundarySound
    <3>3. c \in Cursor /\ c.start \in Nat /\ c.start < Len(lines)
      BY <2>0, <3>2 DEF Sound, Cursor
    <3>4. BeginsIn(lines, c, mode, S)
      <4>1. CASE processed >= 1 /\ Boundary(lines, cur, processed)
        <5>1. /\ processed - 1 \in Nat /\ processed - 1 < Len(lines)
              /\ cur.start <= (processed - 1) + 1
              /\ (processed - 1) + 1 = processed
          BY <2>0, <4>1
        <5>2. Commit(lines, cur, processed - 1).start = processed
          BY <2>0, <5>1, CommitAfter
        <5>3. /\ Commit(lines, cur, processed - 1) \in Cursor
              /\ lines[processed + 1] \in Text
          <6>1. Sound(lines, doc, Commit(lines, cur, processed - 1),
                      processed)
            BY <2>0, <5>1, CommitSound
          <6>2. QED
            BY <2>0, <6>1 DEF Sound
        <5>4. c = StartAt(Commit(lines, cur, processed - 1),
                          lines[processed + 1])
          BY <3>1, <4>1 DEF TailBoundary
        <5>5. c.start = processed
              /\ c.mode = StartMode(lines[processed + 1])
          BY <5>2, <5>3, <5>4, StartAtFields
        <5>6. QED
          BY <5>3, <5>5 DEF BeginsIn
      <4>2. CASE ~(processed >= 1 /\ Boundary(lines, cur, processed))
        <5>1. c = cur
          BY <3>1, <4>2 DEF TailBoundary
        <5>2. QED
          BY <2>1, <5>1
      <4>3. QED
        BY <4>1, <4>2
    <3> HIDE DEF c
    <3>5. Rebased(lines, c, processed)
      BY <2>0, <3>1, <3>2, CompactRebased
    <3>6. QED
      BY <2>0, <3>3, <3>4, <3>5, BeginsRebased
  <2> DEFINE ls == FinalLines(lines)
             c == SettleMode(ls, cur)
  <2>6. /\ ls \in Seq(Text) /\ ls # <<>> /\ processed < Len(ls)
        /\ Sound(ls, FinalLines(doc), cur, processed)
    BY <2>0, FinalLinesFacts, FinalSound
  <2>7. ls[cur.start + 1] = lines[cur.start + 1] /\ cur.start < Len(ls)
    <3>1. cur.start + 1 \in 1..Len(lines)
      BY <2>0
    <3>2. Len(ls) \in Nat
      BY <2>6
    <3>3. QED
      BY <2>0, <2>6, <3>1, <3>2, FinalLinesFacts
  <2>8. c \in Cursor /\ c.start = cur.start
    BY <2>0, <2>6, <2>7, SettleFields
  <2>9. BeginsIn(ls, c, mode, S)
    <3>1. ls[cur.start + 1] \in Text
      BY <2>0, <2>6, <2>7
    <3>2. c = cur \/ c = StartAt(cur, ls[cur.start + 1])
      BY DEF SettleMode
    <3> HIDE DEF c, ls
    <3>3. CASE c = cur
      BY <2>1, <2>7, <3>3 DEF BeginsIn
    <3>4. CASE c = StartAt(cur, ls[cur.start + 1])
      <4>1. c.mode = StartMode(ls[cur.start + 1])
        BY <2>0, <3>1, <3>4, StartAtFields
      <4>2. QED
        BY <2>8, <3>1, <4>1 DEF BeginsIn
    <3>5. QED
      BY <3>2, <3>3, <3>4
  <2>10. CASE KeepsBlanks
    <3>1. lines' = ls /\ cur' = c
      BY <2>10 DEF KeepsBlanks
    <3> HIDE DEF c, ls
    <3>2. QED
      BY <2>9, <3>1 DEF BeginsIn
  <2>11. CASE CommitsNone
    <3>1. Compact(ls, c, processed)
      BY <2>11 DEF CommitsNone
    <3>2. FinalLines(doc) \in Seq(Text)
      BY <2>0, FinalLinesFacts
    <3>3. Sound(ls, FinalLines(doc), c, processed)
      BY <2>0, <2>6, <3>2, SettleModeSound
    <3> HIDE DEF c, ls
    <3>4. Rebased(ls, c, processed)
      BY <2>0, <2>6, <3>1, <3>2, <3>3, CompactRebased
    <3>5. c.start < Len(ls)
      BY <2>7, <2>8
    <3>6. QED
      BY <2>6, <2>8, <2>9, <3>4, <3>5, BeginsRebased
  <2>12. QED
    BY <1>3, <2>2, <2>3, <2>4, <2>5, <2>10, <2>11
<1>4. QED
  BY <1>2, <1>3, SplitSteps

(***************************************************************************)
(* Every step keeps FenceInv; a chunk does because a line that starts a    *)
(* fence still does when it grows.                                         *)
(***************************************************************************)
LEMMA FenceInvKept ==
  ASSUME ResetAfterFinalize, StableFences, IInv, ModeInv, FenceInv,
         [Next]_vars
  PROVE  FenceInv'
<1> DEFINE S == {t \in Text : StartMode(t) = "CodeFence"}
<1>1. SUFFICES ASSUME Split'
               PROVE  FenceFirst(lines, cur)'
  BY DEF FenceInv, FenceFirst
<1>2. ASSUME NEW pair \in Grows, pair[1] \in S
      PROVE  pair[2] \in S
  BY <1>2, TextAssumption DEF StableFences
<1>3. Split => BeginsIn(lines, cur, "CodeFence", S)
  <2>1. SUFFICES ASSUME Split, cur.mode = "CodeFence"
                 PROVE  lines[cur.start + 1] \in S
    BY DEF BeginsIn
  <2>2. lines[cur.start + 1] \in Text
    BY <2>1, SplitFacts
  <2>3. QED
    BY <2>1, <2>2 DEF FenceInv
<1>4. \A t \in Text : StartMode(t) = "CodeFence" => t \in S
  OBVIOUS
<1> HIDE DEF S
<1>5. BeginsIn(lines, cur, "CodeFence", S)'
  BY <1>1, <1>2, <1>3, <1>4, BeginsKept
<1>6. QED
  BY <1>5 DEF BeginsIn, FenceFirst, S

-----------------------------------------------------------------------------
(***************************************************************************)
(* A display that is extended chunk by chunk is that of the lines of its   *)
(* code fence; a display is right for a pending block that is not blank if *)
(* it was made from the text and kind of the block.                        *)
(***************************************************************************)
FenceShown(d, ls, c) ==
  /\ c.mode = "CodeFence"
  /\ d[1].kind = "CodeFence"
  /\ d[1].raw = LinesOf(ls, c.start, Len(ls) - 1)
  /\ d[1].suffix[1].newline = EndsInNewline(d[1].raw)

Visible(p) == p # <<>> /\ ~AllBlank(p[1].raw)

Right(d, ls, c, p) ==
  /\ d # NoDisplay /\ d[1].suffix # <<>> => FenceShown(d, ls, c)
  /\ d # NoDisplay /\ Visible(p) => d[1].raw = p[1].raw /\ d[1].kind = p[1].kind

(***************************************************************************)
(* What is pending in a code fence.                                        *)
(***************************************************************************)
FencePending(ls, c, p) ==
  c.mode = "CodeFence" /\ p # <<>> =>
    /\ p[1].raw = LinesOf(ls, c.start, Len(ls) - 1)
    /\ p[1].kind = "CodeFence"

PendingInFence == FencePending(lines, cur, PendingOf(lines, cur))

(***************************************************************************)
(* What is pending in a code fence are the lines of the fence.             *)
(***************************************************************************)
LEMMA FenceIsPending == TypeOK /\ SingleUnknown => PendingInFence
<1> SUFFICES ASSUME TypeOK, SingleUnknown, cur.mode = "CodeFence",
                    PendingOf(lines, cur) # <<>>
             PROVE  /\ PendingOf(lines, cur)[1].raw
                         = LinesOf(lines, cur.start, Len(lines) - 1)
                    /\ PendingOf(lines, cur)[1].kind = "CodeFence"
  BY DEF PendingInFence, FencePending
<1>1. ~SingleMode
  BY DEF SingleUnknown
<1> DEFINE e == [cur EXCEPT !.mode = PendingMode(lines, cur)]
<1>2. PendingOf(lines, cur)
        = <<BlockAt(e, LinesOf(lines, cur.start, Len(lines) - 1))>>
  BY <1>1 DEF PendingOf
<1>3. e.mode = "CodeFence"
  BY DEF PendingMode, TypeOK, Cursor
<1> HIDE DEF e
<1>4. QED
  BY <1>2, <1>3 DEF BlockAt, KindForMode

(***************************************************************************)
(* The same after a step.                                                  *)
(***************************************************************************)
LEMMA FenceIsPendingNext == TypeOK' /\ SingleUnknown' => PendingInFence'
  BY FenceIsPending, PTL

(***************************************************************************)
(* append and append_ref return a display that is right, and return one    *)
(* whenever there is something to show.                                    *)
(***************************************************************************)
LEMMA ReturnRight ==
  ASSUME NEW d, NEW ls, NEW c, NEW p, p = <<>> \/ \E b \in Block : p = <<b>>,
         Right(d, ls, c, p), FencePending(ls, c, p),
         NEW e, e = ShownOwned(d, p) \/ e = ShownRef(d, p, c)
  PROVE  Right(e, ls, c, p) /\ (Visible(p) => e # NoDisplay)
<1>1. CASE e = d /\ (Visible(p) => d # NoDisplay)
  BY <1>1
<1>2. CASE e = NoDisplay /\ p = <<>>
  BY <1>2 DEF Right, Visible
<1>3. ASSUME NEW b \in Block, p = <<b>>, e = Terminated(b)
      PROVE  Right(e, ls, c, p) /\ (Visible(p) => e # NoDisplay)
  <2> DEFINE r == [raw |-> b.raw, kind |-> b.kind, suffix |-> <<>>]
  <2>1. e = <<r>> /\ p[1] = b
    BY <1>3 DEF Terminated
  <2>2. e # NoDisplay /\ e[1] = r
    BY <2>1 DEF NoDisplay
  <2>3. QED
    BY <2>1, <2>2 DEF Right
<1>4. ASSUME NEW b \in Block, p = <<b>>, e = WithFence(b, c.inner),
             b.kind = "CodeFence", c.mode = "CodeFence"
      PROVE  Right(e, ls, c, p) /\ (Visible(p) => e # NoDisplay)
  <2> DEFINE x == [newline |-> EndsInNewline(b.raw), fence |-> c.inner]
             r == [raw |-> b.raw, kind |-> b.kind, suffix |-> <<x>>]
  <2>1. e = <<r>> /\ p[1] = b /\ p # <<>>
    BY <1>4 DEF WithFence, CodeFenceSuffix
  <2>2. e # NoDisplay /\ e[1] = r
    BY <2>1 DEF NoDisplay
  <2>3. b.raw = LinesOf(ls, c.start, Len(ls) - 1)
    BY <1>4, <2>1 DEF FencePending
  <2>4. r.suffix[1].newline = EndsInNewline(r.raw)
    OBVIOUS
  <2>5. FenceShown(e, ls, c)
    BY <1>4, <2>2, <2>3, <2>4 DEF FenceShown
  <2>6. QED
    BY <2>1, <2>2, <2>5 DEF Right
<1>5. CASE e = ShownOwned(d, p)
  <2>1. \A b \in Block : p = <<b>> => p[1] = b /\ p # <<>>
    OBVIOUS
  <2>2. CASE d # NoDisplay \/ p = <<>>
    <3>1. e = d
      BY <1>5, <2>2 DEF ShownOwned
    <3>2. QED
      BY <1>1, <2>2, <3>1 DEF Visible
  <2>3. CASE ~(d # NoDisplay \/ p = <<>>)
    <3>1. PICK b \in Block : p = <<b>>
      BY <2>3
    <3>2. e = Terminated(b)
      BY <1>5, <2>1, <2>3, <3>1 DEF ShownOwned
    <3>3. QED
      BY <1>3, <3>1, <3>2
  <2>4. QED
    BY <2>2, <2>3
<1>6. CASE e = ShownRef(d, p, c)
  <2>1. CASE p = <<>>
    BY <1>2, <1>6, <2>1 DEF ShownRef
  <2>2. ASSUME NEW b \in Block, p = <<b>>
        PROVE  Right(e, ls, c, p) /\ (Visible(p) => e # NoDisplay)
    <3>1. p[1] = b /\ p # <<>>
      BY <2>2
    <3>2. \/ e = WithFence(b, c.inner) /\ b.kind = "CodeFence"
             /\ c.mode = "CodeFence"
          \/ e = d /\ d # NoDisplay
          \/ e = Terminated(b)
      BY <1>6, <3>1 DEF ShownRef
    <3>3. QED
      BY <1>1, <1>3, <1>4, <2>2, <3>2
  <2>3. QED
    BY <2>1, <2>2
<1>7. QED
  BY <1>5, <1>6

(***************************************************************************)
(* The display of a code fence is right.                                   *)
(***************************************************************************)
LEMMA FenceIsRight ==
  ASSUME NEW d, NEW ls, NEW c, NEW p, FencePending(ls, c, p),
         d # NoDisplay => FenceShown(d, ls, c)
  PROVE  Right(d, ls, c, p)
BY DEF Right, FencePending, FenceShown, Visible

(***************************************************************************)
(* The inductive form of DisplayIsFresh.                                   *)
(***************************************************************************)
DisplayInv ==
  ~closed =>
    /\ pc = "lines" /\ display # NoDisplay => FenceShown(display, lines, cur)
    /\ pc = "idle" =>
         /\ Right(display, lines, cur, PendingOf(lines, cur))
         /\ Visible(PendingOf(lines, cur)) => display # NoDisplay

(***************************************************************************)
(* The end of a call, or the next step of one.                             *)
(***************************************************************************)
LEMMA LeaveRight ==
  ASSUME TypeOK', PendingInFence', pc' \in {"idle", "lines"},
         NEW shown, NEW calls, calls \subseteq {"append", "append_ref"},
         shown # NoDisplay => FenceShown(shown, lines, cur)',
         Leave(shown, calls)
  PROVE  DisplayInv'
<1> DEFINE ls == lines'
           c == cur'
           p == PendingOf(lines, cur)'
           e == display'
<1>1. CASE pc' = "lines"
  <2>1. display' = shown
    BY <1>1 DEF Leave
  <2>2. QED
    BY <1>1, <2>1 DEF DisplayInv, FenceShown
<1>2. CASE pc' = "idle"
  <2>1. e = ShownOwned(shown, p) \/ e = ShownRef(shown, p, c)
    BY <1>2 DEF Leave, Return, ReturnOwned, ReturnRef
  <2>2. p = <<>> \/ \E b \in Block : p = <<b>>
    BY PendingIsTypedNext DEF PendingTyped
  <2>3. FencePending(ls, c, p)
    BY DEF PendingInFence, FencePending
  <2>4. shown # NoDisplay => FenceShown(shown, ls, c)
    BY DEF FenceShown
  <2>5. DisplayInv' <=>
          (~closed' => Right(e, ls, c, p) /\ (Visible(p) => e # NoDisplay))
    BY <1>2 DEF DisplayInv, Right, FenceShown, Visible
  <2> HIDE DEF ls, c, p, e
  <2>6. Right(shown, ls, c, p)
    BY <2>3, <2>4, FenceIsRight
  <2>7. Right(e, ls, c, p) /\ (Visible(p) => e # NoDisplay)
    BY <2>1, <2>2, <2>3, <2>6, ReturnRight
  <2>8. QED
    BY <2>5, <2>7
<1>3. QED
  BY <1>1, <1>2

(***************************************************************************)
(* A chunk extends the display of a code fence with it.                    *)
(***************************************************************************)
LEMMA GrowShown ==
  ASSUME NEW ls \in Seq(Text), ls # <<>>, NEW chunk \in Chunk,
         LastLine = ls[Len(ls)], cur.start \in Nat, cur.start < Len(ls),
         NEW r \in DisplayRecord, display = <<r>>, r.suffix # <<>>,
         FenceShown(display, ls, cur)
  PROVE  FenceShown(Grow(chunk), Extend(ls, chunk), cur)
<1> DEFINE raw == LinesOf(ls, cur.start, Len(ls) - 1)
           newline == IF chunk = <<LastLine>> THEN r.suffix[1].newline
                      ELSE EndsInNewline(chunk)
           suffix == <<[newline |-> newline, fence |-> cur.inner]>>
           g == [r EXCEPT !.raw = Extend(r.raw, chunk), !.suffix = suffix]
<1>1. /\ display # NoDisplay /\ display[1] = r /\ cur.mode = "CodeFence"
      /\ r.kind = "CodeFence" /\ r.raw = raw
      /\ r.suffix[1].newline = EndsInNewline(raw)
  BY DEF NoDisplay, FenceShown
<1>2. Grow(chunk) = <<g>>
  BY <1>1 DEF Grow, CodeFenceSuffix
<1>3. Extend(raw, chunk)
        = LinesOf(Extend(ls, chunk), cur.start, Len(Extend(ls, chunk)) - 1)
  BY RestExtends
<1>4. /\ raw \in Seq(Text) /\ raw # <<>> /\ Len(raw) = Len(ls) - cur.start
      /\ raw[Len(raw)] = LastLine
  <2>1. /\ raw \in Seq(Text) /\ Len(raw) = Len(ls) - cur.start
        /\ \A j \in 1..Len(ls) - cur.start : raw[j] = ls[cur.start + j]
    BY RestOfLines
  <2> HIDE DEF raw
  <2>2. Len(raw) \in 1..Len(ls) - cur.start /\ cur.start + Len(raw) = Len(ls)
    BY <2>1
  <2>3. raw[Len(raw)] = ls[Len(ls)]
    BY <2>1, <2>2
  <2>4. QED
    BY <2>1, <2>2, <2>3
<1> HIDE DEF raw
<1>5. newline = EndsInNewline(Extend(raw, chunk))
  <2>1. /\ chunk \in Seq(Text) /\ Len(chunk) >= 1
        /\ Len(Extend(raw, chunk)) = Len(raw) - 1 + Len(chunk)
        /\ \A j \in 1..Len(chunk) :
             Extend(raw, chunk)[Len(raw) - 1 + j] = chunk[j]
    BY <1>4, ExtendFacts
  <2>2. Len(chunk) \in 1..Len(chunk)
    BY <2>1
  <2>3. Extend(raw, chunk)[Len(Extend(raw, chunk))] = chunk[Len(chunk)]
    BY <2>1, <2>2
  <2>4. EndsInNewline(Extend(raw, chunk)) = EndsInNewline(chunk)
    BY <2>3 DEF EndsInNewline
  <2>5. chunk = <<LastLine>> => EndsInNewline(chunk) = EndsInNewline(raw)
    <3>1. SUFFICES ASSUME chunk = <<LastLine>>
                   PROVE  chunk[Len(chunk)] = raw[Len(raw)]
      BY DEF EndsInNewline
    <3>2. Len(<<LastLine>>) = 1 /\ <<LastLine>>[1] = LastLine
      OBVIOUS
    <3>3. QED
      BY <1>4, <3>1, <3>2
  <2>6. QED
    BY <1>1, <2>4, <2>5
<1> HIDE DEF newline
<1>6. /\ g.kind = r.kind /\ g.raw = Extend(r.raw, chunk)
      /\ g.suffix = suffix
  BY DEF DisplayRecord
<1>7. g.suffix[1].newline = newline
  BY <1>6
<1> HIDE DEF g, suffix
<1>8. Grow(chunk)[1] = g
  BY <1>2
<1>9. QED
  BY <1>1, <1>3, <1>5, <1>6, <1>7, <1>8 DEF FenceShown

(***************************************************************************)
(* append up to its loop, and a call that enters a single block.           *)
(***************************************************************************)
LEMMA AppendRight ==
  ASSUME ResetAfterFinalize, SyncInv, TypeOK', PendingInFence', IInv,
         SingleUnknown, DisplayInv, NEW chunk \in Chunk,
         NEW endsInCr \in BOOLEAN, NEW calls,
         calls \subseteq {"append", "append_ref"},
         AppendFirst(chunk, endsInCr, calls)
  PROVE  DisplayInv'
<1>1. AppendChunk(chunk, endsInCr)
  BY DEF AppendFirst
<1>2. pc = "idle" /\ ~closed /\ lines' = Extend(lines, chunk)
  BY <1>1 DEF AppendChunk, MayAppend
<1>3. CASE EnterSingleBlock(lines')
  <2>1. pc' = "idle" /\ report'.reset
    BY <1>3 DEF EnterSingleBlock
  <2>2. Leave(NoDisplay, calls)
    BY <2>1 DEF AppendFirst
  <2>3. QED
    BY <2>1, <2>2, LeaveRight
<1>4. CASE EnterLoop
  <2>1. pc' = "lines" /\ ~report'.reset /\ cur' = cur
    BY <1>4 DEF EnterLoop
  <2>2. Leave(Grow(chunk), calls)
    BY <2>1 DEF AppendFirst
  <2>3. Grow(chunk) # NoDisplay => FenceShown(Grow(chunk), lines', cur)
    <3>1. SUFFICES ASSUME Grow(chunk) # NoDisplay
                   PROVE  FenceShown(Grow(chunk), lines', cur)
      OBVIOUS
    <3>2. /\ display # NoDisplay /\ display[1].suffix # <<>>
          /\ cur.mode = "CodeFence"
      BY <3>1 DEF Grow
    <3>3. PICK r \in DisplayRecord : display = <<r>>
      BY <3>2 DEF SyncInv, ShownTyped, NoDisplay
    <3>4. r.suffix # <<>>
      BY <3>2, <3>3
    <3>5. FenceShown(display, lines, cur)
      BY <1>2, <3>2 DEF DisplayInv, Right
    <3>6. Split
      BY <1>2, <3>2 DEF Split, SingleUnknown
    <3>7. /\ lines \in Seq(Text) /\ lines # <<>> /\ cur.start \in Nat
          /\ cur.start < Len(lines)
      BY <3>6, SplitFacts
    <3>8. LastLine = lines[Len(lines)]
      BY DEF LastLine
    <3>9. FenceShown(Grow(chunk), Extend(lines, chunk), cur)
      BY <3>3, <3>4, <3>5, <3>7, <3>8, GrowShown
    <3>10. QED
      BY <1>2, <3>9
  <2>4. ASSUME NEW shown, shown = Grow(chunk)
        PROVE  DisplayInv'
    <3>1. shown # NoDisplay => FenceShown(shown, lines, cur)'
      BY <2>1, <2>3, <2>4 DEF FenceShown
    <3>2. Leave(shown, calls)
      BY <2>2, <2>4
    <3>3. QED
      BY <2>1, <3>1, <3>2, LeaveRight
  <2>5. QED
    BY <2>4
<1>5. QED
  BY <1>1, <1>3, <1>4 DEF AppendChunk

(***************************************************************************)
(* The loop of append and its end: where no block is committed and nothing *)
(* compacted, the block stays in its code fence.                           *)
(***************************************************************************)
LEMMA KeptShown ==
  ASSUME IInv, ModeInv, FenceInv, SingleUnknown, DisplayInv, pc = "lines",
         ProcessLine \/ FinishAppend, Kept # NoDisplay, ~closed
  PROVE  /\ lines' = lines /\ cur'.start = cur.start
         /\ cur'.mode = "CodeFence"
<1>1. /\ display # NoDisplay /\ cur'.start = cur.start
      /\ cur'.base = cur.base
  BY DEF Kept
<1>2. cur.mode = "CodeFence"
  BY <1>1 DEF DisplayInv, FenceShown
<1>3. Split
  BY <1>2 DEF Split, SingleUnknown
<1>4. /\ lines \in Seq(Text) /\ lines # <<>> /\ Len(lines) \in Nat
      /\ processed \in Nat /\ cur \in Cursor /\ cur.start \in Nat
      /\ cur.start <= processed /\ processed < Len(lines)
  BY <1>3, SplitFacts
<1>5. CASE ProcessLine
  <2>1. lines' = lines /\ cur' = Process(lines, cur, processed)
    BY <1>3, <1>5 DEF ProcessLine, Split
  <2>2. cur.start < processed => FirstMode(lines, cur)
    BY <1>3 DEF ModeInv
  <2>3. cur'.start < processed + 1 => FirstMode(lines, cur')
    BY <1>4, <2>1, <2>2, ProcessFirst
  <2>4. FirstMode(lines, cur') /\ StartMode(lines[cur'.start + 1]) = "CodeFence"
    BY <1>1, <1>2, <1>3, <1>4, <2>3 DEF FenceInv
  <2>5. QED
    BY <1>1, <2>1, <2>4 DEF FirstMode
<1>6. CASE FinishAppend
  <2>1. TailBoundary(lines, cur) = cur
    BY <1>2 DEF TailBoundary, Boundary, Inside
  <2>2. Compact(lines, cur, processed)
    BY <1>6, <2>1 DEF FinishAppend
  <2>3. ~Compacts(lines, cur)
    <3>1. SUFFICES ASSUME Compacts(lines, cur)
                   PROVE  FALSE
      OBVIOUS
    <3>2. cur'.start = 0 /\ cur.start > 0
      BY <1>4, <2>2, <3>1 DEF Compact, Compacts, Cursor
    <3>3. QED
      BY <1>1, <1>4, <3>2
  <2>4. QED
    BY <1>2, <2>2, <2>3 DEF Compact
<1>7. QED
  BY <1>5, <1>6

(***************************************************************************)
(* The loop of append and its end keep DisplayInv.                         *)
(***************************************************************************)
LEMMA FurtherRight ==
  ASSUME SyncInv, TypeOK', PendingInFence', IInv, ModeInv, FenceInv,
         SingleUnknown, DisplayInv, NEW calls,
         calls \subseteq {"append", "append_ref"}, AppendFurther(calls)
  PROVE  DisplayInv'
<1>1. /\ ProcessLine \/ FinishAppend
      /\ Leave(Kept, calls)
  BY DEF AppendFurther
<1>2. /\ pc = "lines" /\ pc' \in {"idle", "lines"} /\ closed' = closed
      /\ closed \in BOOLEAN
  BY <1>1 DEF ProcessLine, FinishAppend, IInv, TypeOK
<1>3. CASE closed
  BY <1>2, <1>3 DEF DisplayInv
<1>4. CASE ~closed
  <2>1. Kept # NoDisplay =>
          /\ FenceShown(display, lines, cur) /\ Kept = display
          /\ lines' = lines /\ cur'.start = cur.start
          /\ cur'.mode = "CodeFence"
    <3>1. SUFFICES ASSUME Kept # NoDisplay
                   PROVE  /\ FenceShown(display, lines, cur) /\ Kept = display
                          /\ lines' = lines /\ cur'.start = cur.start
                          /\ cur'.mode = "CodeFence"
      OBVIOUS
    <3>2. Kept = display /\ display # NoDisplay
      BY <3>1 DEF Kept
    <3>3. QED
      BY <1>1, <1>2, <1>4, <3>1, <3>2, KeptShown DEF DisplayInv
  <2>2. ASSUME NEW shown, shown = Kept
        PROVE  DisplayInv'
    <3>1. shown # NoDisplay => FenceShown(shown, lines, cur)'
      BY <2>1, <2>2 DEF FenceShown
    <3>2. Leave(shown, calls)
      BY <1>1, <2>2
    <3>3. QED
      BY <1>2, <3>1, <3>2, LeaveRight
  <2>3. QED
    BY <2>2
<1>5. QED
  BY <1>3, <1>4

(***************************************************************************)
(* append("") returns the display that is there, or makes one.             *)
(***************************************************************************)
LEMMA NothingRight ==
  ASSUME SyncInv, TypeOK', PendingInFence', DisplayInv, NEW calls,
         calls \subseteq {"append", "append_ref"}, AppendNothing,
         Return(display, calls)
  PROVE  DisplayInv'
<1> DEFINE p == PendingOf(lines, cur)
           q == PendingOf(lines, cur)'
           e == display'
<1>1. /\ pc = "idle" /\ UNCHANGED <<lines, cur, pc, detected, closed>>
  BY DEF AppendNothing, MayAppend
<1>2. q = p
  BY <1>1 DEF PendingOf, SingleMode
<1>3. e = ShownOwned(display, q) \/ e = ShownRef(display, q, cur)
  BY <1>1 DEF Return, ReturnOwned, ReturnRef
<1>4. p = <<>> \/ \E b \in Block : p = <<b>>
  BY PendingIsTyped DEF PendingTyped, SyncInv
<1>5. FencePending(lines, cur, q)
  BY <1>1 DEF PendingInFence, FencePending
<1>6. DisplayInv =>
        (~closed => Right(display, lines, cur, p))
  BY <1>1 DEF DisplayInv
<1>7. DisplayInv' <=>
        (~closed => Right(e, lines, cur, q) /\ (Visible(q) => e # NoDisplay))
  BY <1>1 DEF DisplayInv, Right, FenceShown, Visible
<1> HIDE DEF p, q, e
<1>8. ~closed => Right(e, lines, cur, q) /\ (Visible(q) => e # NoDisplay)
  BY <1>2, <1>3, <1>4, <1>5, <1>6, ReturnRight
<1>9. QED
  BY <1>7, <1>8

(***************************************************************************)
(* A block in a code fence shows its first line, so that finalize commits  *)
(* it: what finalize leaves open has nothing to show, and no display that  *)
(* was made for a fence.                                                   *)
(***************************************************************************)
LEMMA FenceIsVisible ==
  ASSUME PlainBlanks, NEW ls \in Seq(Text), NEW c \in Cursor,
         c.start < Len(ls), ~SingleMode,
         StartMode(ls[c.start + 1]) = "CodeFence"
  PROVE  PendingOf(ls, c) # <<>> /\ ~AllBlank(PendingOf(ls, c)[1].raw)
<1> DEFINE raw == LinesOf(ls, c.start, Len(ls) - 1)
<1>0. c.start \in Nat
  BY CursorFields
<1>1. /\ raw \in Seq(Text) /\ Len(raw) = Len(ls) - c.start
      /\ raw[1] = ls[c.start + 1]
  <2>1. /\ raw \in Seq(Text) /\ Len(raw) = Len(ls) - c.start
        /\ \A j \in 1..Len(ls) - c.start : raw[j] = ls[c.start + j]
    BY <1>0, RestOfLines
  <2> HIDE DEF raw
  <2>2. 1 \in 1..Len(ls) - c.start
    BY <1>0
  <2>3. QED
    BY <2>1, <2>2
<1>2. ls[c.start + 1] \in Text
  BY <1>0
<1>3. Has(ls[c.start + 1], "fence")
  BY DEF StartMode
<1>4. ~Blank(raw[1])
  BY <1>1, <1>2, <1>3 DEF PlainBlanks, Starter, Has
<1>5. raw # <<EmptyText>>
  <2>1. Blank(EmptyText) /\ <<EmptyText>>[1] = EmptyText
    BY TextAssumption DEF Blank, Has
  <2> HIDE DEF raw
  <2>2. QED
    BY <1>4, <2>1
<1>6. ~(c.start >= Len(ls))
  BY <1>0
<1>7. ~AllBlank(raw)
  <2> HIDE DEF raw
  <2>1. 1 \in 1..Len(raw)
    BY <1>0, <1>1
  <2>2. QED
    BY <1>4, <2>1 DEF AllBlank
<1> DEFINE b == BlockAt([c EXCEPT !.mode = PendingMode(ls, c)], raw)
<1>8. PendingOf(ls, c) = <<b>>
  BY <1>5, <1>6 DEF PendingOf
<1>9. b.raw = raw
  BY DEF BlockAt
<1> HIDE DEF b, raw
<1>10. QED
  BY <1>7, <1>8, <1>9

(***************************************************************************)
(* When finalize leaves the document open there is no display of a fence.  *)
(***************************************************************************)
LEMMA NoFenceLeft ==
  ASSUME ResetAfterFinalize, PlainBlanks, SyncInv, IInv, FenceInv,
         SingleUnknown, DisplayInv, Finalize, ~closed'
  PROVE  display # NoDisplay => display[1].suffix = <<>>
<1> DEFINE ls == FinalLines(lines)
           c == SettleMode(ls, cur)
<1>2. pc = "idle"
  BY DEF Finalize
<1>3. ~closed
  BY FinalizeOpen
<1>4. \/ RestIsBlank(ls, c)
      \/ PendingOf(ls, c) = <<>>
  BY FinalizeCases
<1>5. display # NoDisplay => display[1].suffix = <<>>
  <2>1. SUFFICES ASSUME display # NoDisplay, display[1].suffix # <<>>
                 PROVE  FALSE
    OBVIOUS
  <2>2. FenceShown(display, lines, cur)
    BY <1>2, <1>3, <2>1 DEF DisplayInv, Right
  <2>3. cur.mode = "CodeFence"
    BY <2>2 DEF FenceShown
  <2>4. Split
    BY <1>3, <2>3 DEF Split, SingleUnknown
  <2>5. /\ lines \in Seq(Text) /\ lines # <<>> /\ Len(lines) \in Nat
        /\ cur \in Cursor /\ cur.start \in Nat /\ cur.start < Len(lines)
    BY <2>4, SplitFacts
  <2>6. /\ ls \in Seq(Text) /\ cur.start < Len(ls)
        /\ ls[cur.start + 1] = lines[cur.start + 1]
    <3>1. /\ ls \in Seq(Text)
          /\ Len(ls) = IF pendingCr THEN Len(lines) + 1 ELSE Len(lines)
          /\ \A j \in 1..Len(lines) : ls[j] = lines[j]
      BY <2>5, FinalLinesFacts
    <3> HIDE DEF ls
    <3>2. cur.start + 1 \in 1..Len(lines)
      BY <2>5
    <3>3. QED
      BY <2>5, <3>1, <3>2
  <2>7. c = cur
    BY <2>3 DEF SettleMode
  <2>8. StartMode(ls[cur.start + 1]) = "CodeFence"
    BY <2>3, <2>4, <2>6 DEF FenceInv
  <2> HIDE DEF ls
  <2>9. PendingOf(ls, cur) # <<>> /\ ~AllBlank(PendingOf(ls, cur)[1].raw)
    BY <2>4, <2>5, <2>6, <2>8, FenceIsVisible DEF Split
  <2>10. QED
    BY <1>4, <2>7, <2>9 DEF RestIsBlank
<1>6. QED
  BY <1>5

(***************************************************************************)
(* finalize keeps DisplayInv.                                              *)
(***************************************************************************)
LEMMA FinalizeRight ==
  ASSUME ResetAfterFinalize, PlainBlanks, SyncInv, IInv, FenceInv,
         SingleUnknown, DisplayInv, Finalize,
         display' = IF cur'.base = cur.base THEN display ELSE NoDisplay
  PROVE  DisplayInv'
<1> DEFINE ls == FinalLines(lines)
           c == SettleMode(ls, cur)
<1>1. SUFFICES ASSUME ~closed'
               PROVE  DisplayInv'
  BY DEF DisplayInv
<1>2. /\ pc = "idle" /\ pc' = "idle" /\ detected' = detected
  BY DEF Finalize
<1>3. ~closed
  BY FinalizeOpen
<1>4. \/ RestIsBlank(ls, c) /\ lines' = ls /\ cur' = c
      \/ PendingOf(ls, c) = <<>> /\ Compact(ls, c, processed)
  BY <1>1, FinalizeCases
<1>5. display # NoDisplay => display[1].suffix = <<>>
  BY <1>1, NoFenceLeft
<1>6. ~Visible(PendingOf(lines, cur)')
  <2>1. CASE RestIsBlank(ls, c) /\ lines' = ls /\ cur' = c
    <3>1. PendingOf(lines, cur)' = PendingOf(ls, c)
      BY <1>2, <2>1 DEF PendingOf, SingleMode, PendingMode
    <3>2. QED
      BY <2>1, <3>1 DEF Visible, RestIsBlank
  <2>2. CASE PendingOf(ls, c) = <<>> /\ ~Compacts(ls, c)
             /\ Compact(ls, c, processed)
    <3>1. lines' = ls /\ cur' = c
      BY <2>2 DEF Compact
    <3>2. PendingOf(lines, cur)' = PendingOf(ls, c)
      BY <1>2, <3>1 DEF PendingOf, SingleMode, PendingMode
    <3>3. QED
      BY <2>2, <3>2 DEF Visible
  <2>3. CASE PendingOf(ls, c) = <<>> /\ Compacts(ls, c)
             /\ Compact(ls, c, processed)
    <3>0. c \in Cursor /\ c.start \in Nat /\ Len(ls) \in Nat
      <4>1. cur \in Cursor /\ ls \in Seq(Text)
        BY FinalizeOpen
      <4>2. cur.start \in Nat /\ Len(ls) \in Nat
        BY <4>1, CursorFields
      <4>3. CASE cur.start < Len(ls)
        BY <4>1, <4>2, <4>3, SettleFields
      <4>4. CASE ~(cur.start < Len(ls))
        <5> HIDE DEF ls
        <5>1. cur.start >= Len(ls)
          BY <4>2, <4>4
        <5>2. c = cur
          BY <5>1 DEF SettleMode, PendingOf
        <5>3. QED
          BY <4>1, <4>2, <5>2
      <4>5. QED
        BY <4>3, <4>4
    <3> HIDE DEF c, ls
    <3>1. ~SingleMode /\ lines' = KeptLines(ls, c) /\ cur'.start = 0
      <4>1. cur' = [c EXCEPT !.base = c.base + c.start, !.start = 0]
        BY <2>3 DEF Compact
      <4>2. QED
        BY <2>3, <3>0, <4>1 DEF Compact, Compacts, Cursor
    <3>2. \/ c.start >= Len(ls)
          \/ LinesOf(ls, c.start, Len(ls) - 1) = <<EmptyText>>
      BY <2>3, <3>1 DEF PendingOf
    <3>3. lines' = <<EmptyText>>
      <4>1. CASE ~(c.start < Len(ls))
        BY <3>1, <4>1 DEF KeptLines
      <4>2. CASE c.start < Len(ls)
        <5>1. KeptLines(ls, c) = SubSeq(ls, c.start + 1, Len(ls))
          BY <4>2 DEF KeptLines
        <5>2. Len(ls) - 1 + 1 = Len(ls) /\ ~(c.start >= Len(ls))
          BY <3>0, <4>2
        <5>3. LinesOf(ls, c.start, Len(ls) - 1) = KeptLines(ls, c)
          BY <5>1, <5>2 DEF LinesOf
        <5>4. QED
          BY <3>1, <3>2, <5>2, <5>3
      <4>3. QED
        BY <4>1, <4>2
    <3>4. QED
      BY <3>1, <3>3, FreshPendingNext DEF Visible
  <2>4. QED
    BY <1>4, <2>1, <2>2, <2>3
<1>7. QED
  BY <1>2, <1>5, <1>6 DEF DisplayInv, Right

(***************************************************************************)
(* Every step keeps DisplayInv.                                            *)
(***************************************************************************)
LEMMA DisplayInvKept ==
  ASSUME ResetAfterFinalize, PlainBlanks, SyncInv, SyncInv', IInv, ModeInv,
         FenceInv, SingleUnknown, SingleUnknown', DisplayInv,
         [SyncNext]_syncVars
  PROVE  DisplayInv'
<1> DEFINE calls == {"append", "append_ref"}
<1>1. TypeOK' /\ PendingInFence'
  BY FenceIsPendingNext DEF SyncInv
<1>2. CASE ProduceByAppend(Chunk, calls)
  <2>1. ASSUME NEW chunk \in Chunk, NEW endsInCr \in BOOLEAN,
               AppendFirst(chunk, endsInCr, calls)
        PROVE  DisplayInv'
    BY <1>1, <2>1, AppendRight
  <2>2. CASE AppendFurther(calls)
    BY <1>1, <2>2, FurtherRight
  <2>3. QED
    BY <1>2, <2>1, <2>2 DEF ProduceByAppend
<1>3. CASE ProduceByEmptyAppend(calls)
  <2>1. AppendNothing /\ Return(display, calls)
    BY <1>3 DEF ProduceByEmptyAppend
  <2>2. QED
    BY <1>1, <2>1, NothingRight
<1>4. CASE ProduceByFinalize
  <2>1. CASE Finalize
    BY <1>4, <2>1, FinalizeRight DEF ProduceByFinalize
  <2>2. CASE FinalizeNothingNew
    <3>1. UNCHANGED <<lines, cur, pc, detected, closed, display>>
      BY <1>4, <2>2 DEF FinalizeNothingNew, ProduceByFinalize
    <3>2. PendingOf(lines, cur)' = PendingOf(lines, cur)
      BY <3>1 DEF PendingOf, SingleMode
    <3>3. QED
      BY <3>1, <3>2 DEF DisplayInv, Right, FenceShown
  <2>3. QED
    BY <1>4, <2>1, <2>2 DEF ProduceByFinalize
<1>5. CASE Apply \/ UNCHANGED syncVars
  <2>1. UNCHANGED <<lines, cur, pc, detected, closed, display>>
    BY <1>5 DEF Apply, syncVars, vars
  <2>2. PendingOf(lines, cur)' = PendingOf(lines, cur)
    BY <2>1 DEF PendingOf, SingleMode
  <2>3. QED
    BY <2>1, <2>2 DEF DisplayInv, Right, FenceShown
<1>6. CASE NewDocument
  <2>1. /\ display' = NoDisplay /\ pc' = "idle"
        /\ lines' = <<EmptyText>> /\ cur'.start = 0
    BY <1>6 DEF NewDocument, Reset, FreshCursor
  <2>2. PendingOf(lines, cur)' = <<>>
    BY <2>1, FreshPendingNext
  <2>3. QED
    BY <2>1, <2>2 DEF DisplayInv, Right, Visible
<1>7. QED
  BY <1>2, <1>3, <1>4, <1>5, <1>6 DEF SyncNext, SyncNextOn

-----------------------------------------------------------------------------
(***************************************************************************)
(* The payload of a fence is that of its first line ls[c.start + 1], or    *)
(* that is the line w with which the last chunk went on.                   *)
(***************************************************************************)
OpenedAt(ls, c, inner, w) ==
  inner = Enter[ls[c.start + 1]] \/ w = c.base + c.start + 1

OpeningInv ==
  Split /\ cur.mode = "CodeFence" /\ cur.start >= processed =>
    /\ OpenedAt(lines, cur, cur.inner, resumed)
    /\ pc = "idle" => cur.start + 1 = Len(lines)

(***************************************************************************)
(* A document that is split into blocks after a step: only a chunk sets    *)
(* resumed, to the line that it goes on with.                              *)
(***************************************************************************)
LEMMA ResumedStep ==
  ASSUME ResetAfterFinalize, IInv, [SyncNext]_syncVars, Split'
  PROVE  \/ Starts
         \/ Extends /\ resumed' = Resumed
         \/ ~Extends /\ resumed' = resumed
<1> DEFINE calls == {"append", "append_ref"}
<1>1. ASSUME NEW chunk \in Chunk, NEW endsInCr \in BOOLEAN,
             AppendFirst(chunk, endsInCr, calls)
      PROVE  Extends /\ resumed' = Resumed
  <2>1. AppendChunk(chunk, endsInCr) /\ resumed' = Resumed
    BY <1>1 DEF AppendFirst
  <2>2. /\ pc = "idle" /\ Follows(chunk)
        /\ lines' = Extend(lines, chunk) /\ doc' = Extend(doc, chunk)
        /\ detected' = (detected \/ Detects(chunk))
    BY <2>1 DEF AppendChunk, MayAppend
  <2>3. ~(SingleBlock /\ Detects(chunk) /\ ~detected)
    BY <2>2 DEF Split, SingleMode
  <2>4. cur' = cur /\ processed' = processed /\ pc' = "lines"
    BY <2>1, <2>3 DEF AppendChunk, EnterLoop
  <2>5. QED
    BY <2>1, <2>2, <2>4 DEF Extends
<1>2. ASSUME pc # "idle" \/ pc' # "lines", resumed' = resumed
      PROVE  ~Extends /\ resumed' = resumed
  BY <1>2 DEF Extends
<1>3. CASE AppendFurther(calls)
  <2>1. pc = "lines" /\ resumed' = resumed
    BY <1>3 DEF AppendFurther, ProcessLine, FinishAppend
  <2>2. QED
    BY <1>2, <2>1
<1>4. CASE ProduceByEmptyAppend(calls)
  <2>1. pc = "idle" /\ pc' = pc /\ resumed' = resumed
    BY <1>4 DEF ProduceByEmptyAppend, AppendNothing, MayAppend
  <2>2. QED
    BY <1>2, <2>1
<1>5. CASE ProduceByFinalize
  <2>1. pc = "idle" /\ pc' = pc /\ resumed' = resumed
    BY <1>5 DEF ProduceByFinalize, FinalizeNothingNew, Finalize
  <2>2. QED
    BY <1>2, <2>1
<1>6. CASE Apply \/ UNCHANGED syncVars
  <2>1. pc' = pc /\ resumed' = resumed
    BY <1>6 DEF Apply, syncVars, vars
  <2>2. pc # "idle" \/ pc' # "lines"
    BY <2>1
  <2>3. QED
    BY <1>2, <2>1, <2>2
<1>7. CASE NewDocument
  BY <1>7 DEF NewDocument, Reset, Starts
<1>8. QED
  BY <1>1, <1>3, <1>4, <1>5, <1>6, <1>7 DEF SyncNext, SyncNextOn,
     ProduceByAppend

(***************************************************************************)
(* Compaction moves a fence whose first line has not been scanned.         *)
(***************************************************************************)
LEMMA OpenedElsewhere ==
  ASSUME NEW ls \in Seq(Text), NEW c \in Cursor, NEW n \in Nat,
         c.start < Len(ls), NEW w,
         c.start >= n => OpenedAt(ls, c, c.inner, w) /\ c.start + 1 = Len(ls),
         Rebased(ls, c, n), cur'.start >= processed'
  PROVE  /\ OpenedAt(lines, cur, cur.inner, w)'
         /\ cur'.start + 1 = Len(lines')
<1>0. c.start \in Nat /\ c.base \in Nat /\ Len(ls) \in Nat
  BY CursorFields
<1>1. CASE lines' = ls /\ cur' = c /\ processed' = n
  BY <1>1 DEF OpenedAt
<1>2. CASE /\ cur' = [c EXCEPT !.base = c.base + c.start, !.start = 0]
           /\ Len(lines') = Len(ls) - c.start
           /\ \A j \in 1..Len(lines') : lines'[j] = ls[c.start + j]
           /\ processed' = n - c.start
  <2>1. /\ cur'.start = 0 /\ cur'.base = c.base + c.start
        /\ cur'.inner = c.inner
    BY <1>2 DEF Cursor
  <2>2. c.start >= n
    BY <1>0, <1>2, <2>1
  <2>3. OpenedAt(ls, c, c.inner, w) /\ c.start + 1 = Len(ls)
    BY <2>2
  <2>4. 1 \in 1..Len(lines')
    BY <1>0, <1>2
  <2>5. lines'[cur'.start + 1] = ls[c.start + 1]
    BY <1>2, <2>1, <2>4
  <2>6. c.base + c.start + 1 = cur'.base + cur'.start + 1
    BY <1>0, <2>1
  <2>7. cur'.start + 1 = Len(lines')
    BY <1>0, <1>2, <2>1, <2>3
  <2>8. QED
    BY <2>1, <2>3, <2>5, <2>6, <2>7 DEF OpenedAt
<1>3. QED
  BY <1>1, <1>2 DEF Rebased

(***************************************************************************)
(* Every step keeps OpeningInv.                                            *)
(***************************************************************************)
LEMMA OpeningKept ==
  ASSUME ResetAfterFinalize, PlainBlanks, IInv, ModeInv, FenceInv,
         OpeningInv, [SyncNext]_syncVars
  PROVE  OpeningInv'
<1>1. SUFFICES ASSUME Split', cur'.mode = "CodeFence",
                      cur'.start >= processed'
               PROVE  /\ OpenedAt(lines, cur, cur.inner, resumed)'
                      /\ pc' = "idle" => cur'.start + 1 = Len(lines')
  BY DEF OpeningInv
<1>2. [Next]_vars
  BY SyncIsStream
<1>3. CASE Starts
  BY <1>1, <1>3 DEF Starts, FreshCursor
<1>4. ASSUME Split, Stays \/ Extends \/ Reads \/ Returns \/ KeepsBlanks
                    \/ CommitsNone,
             \/ Extends /\ resumed' = Resumed
             \/ ~Extends /\ resumed' = resumed
      PROVE  /\ OpenedAt(lines, cur, cur.inner, resumed)'
             /\ pc' = "idle" => cur'.start + 1 = Len(lines')
  <2>0. /\ lines \in Seq(Text) /\ lines # <<>> /\ Len(lines) \in Nat
        /\ doc \in Seq(Text) /\ doc # <<>>
        /\ processed \in Nat /\ cur \in Cursor /\ cur.start \in Nat
        /\ cur.base \in Nat
        /\ Sound(lines, doc, cur, processed)
        /\ cur.start <= processed /\ processed < Len(lines)
    BY <1>4, SplitFacts
  <2>1. cur.start < processed => FirstMode(lines, cur)
    BY <1>4 DEF ModeInv
  <2>2. CASE Extends
    <3>1. resumed' = Resumed /\ pc = "idle" /\ pc' = "lines" /\ cur' = cur
          /\ processed' = processed
      BY <1>4, <2>2 DEF Extends
    <3>2. cur.start + 1 = Len(lines)
      BY <1>1, <1>4, <3>1 DEF OpeningInv
    <3>3. cur.base + Len(lines) = Len(doc)
      BY <2>0 DEF Sound, IsRestOf
    <3>4. StartMode(LastLine) = "CodeFence"
      BY <1>1, <1>4, <3>1, <3>2 DEF FenceInv, LastLine
    <3>5. LastLine # EmptyText
      BY <3>4, TextAssumption DEF StartMode, Has
    <3>6. resumed' = cur'.base + cur'.start + 1
      BY <2>0, <3>1, <3>2, <3>3, <3>5 DEF Resumed
    <3>7. QED
      BY <3>1, <3>6 DEF OpenedAt
  <2>3. CASE Stays /\ ~Extends
    <3>1. UNCHANGED <<lines, cur, pc, processed, resumed>>
      BY <1>4, <2>3 DEF Stays
    <3>2. QED
      BY <1>1, <1>4, <3>1 DEF OpeningInv, OpenedAt
  <2>4. CASE Reads
    <3>1. cur' = Process(lines, cur, processed) /\ processed' = processed + 1
      BY <2>4 DEF Reads
    <3>2. cur'.start >= processed + 1 => cur'.mode # "CodeFence"
      BY <2>0, <2>1, <3>1, ProcessFirst
    <3>3. QED
      BY <1>1, <3>1, <3>2
  <2>5. CASE Returns /\ ~Extends
    <3> DEFINE c == TailBoundary(lines, cur)
    <3>1. /\ processed = Len(lines) - 1 /\ Compact(lines, c, processed)
          /\ resumed' = resumed
      BY <1>4, <2>5 DEF Returns
    <3>2. Sound(lines, doc, c, processed)
      BY <2>0, <3>1, TailBoundarySound
    <3>3. c \in Cursor /\ c.start \in Nat /\ c.start < Len(lines)
      BY <2>0, <3>2 DEF Sound, Cursor
    <3>4. ASSUME c.mode = "CodeFence", c.start >= processed
          PROVE  OpenedAt(lines, c, c.inner, resumed)
                 /\ c.start + 1 = Len(lines)
      <4>1. CASE processed >= 1 /\ Boundary(lines, cur, processed)
        <5>1. /\ processed - 1 \in Nat /\ processed - 1 < Len(lines)
              /\ cur.start <= (processed - 1) + 1
              /\ (processed - 1) + 1 = processed
          BY <2>0, <4>1
        <5>2. Commit(lines, cur, processed - 1).start = processed
          BY <2>0, <5>1, CommitAfter
        <5>3. /\ Commit(lines, cur, processed - 1) \in Cursor
              /\ lines[processed + 1] \in Text
          <6>1. Sound(lines, doc, Commit(lines, cur, processed - 1),
                      processed)
            BY <2>0, <5>1, CommitSound
          <6>2. QED
            BY <2>0, <6>1 DEF Sound
        <5>4. c = StartAt(Commit(lines, cur, processed - 1),
                          lines[processed + 1])
          BY <3>1, <4>1 DEF TailBoundary
        <5>5. c.start = processed
              /\ c.inner = Enter[lines[processed + 1]]
          BY <5>2, <5>3, <5>4, StartAtFields
        <5> HIDE DEF c
        <5>6. QED
          BY <2>0, <3>1, <5>5 DEF OpenedAt
      <4>2. CASE ~(processed >= 1 /\ Boundary(lines, cur, processed))
        <5>1. c = cur
          BY <3>1, <4>2 DEF TailBoundary
        <5> HIDE DEF c
        <5>2. OpenedAt(lines, cur, cur.inner, resumed)
          BY <1>4, <3>4, <5>1 DEF OpeningInv
        <5>3. c.start + 1 = Len(lines)
          BY <2>0, <3>1, <3>3, <3>4
        <5>4. QED
          BY <5>1, <5>2, <5>3
      <4>3. QED
        BY <4>1, <4>2
    <3> HIDE DEF c
    <3>5. Rebased(lines, c, processed)
      BY <2>0, <3>1, <3>2, CompactRebased
    <3>6. c.mode = cur'.mode
      BY <3>3, <3>5 DEF Rebased, Cursor
    <3>7. /\ OpenedAt(lines', cur', cur'.inner, resumed)
          /\ cur'.start + 1 = Len(lines')
      <4>1. c.start >= processed
              => OpenedAt(lines, c, c.inner, resumed) /\ c.start + 1 = Len(lines)
        BY <1>1, <3>4, <3>6
      <4>2. ASSUME NEW w, w = resumed
            PROVE  OpenedAt(lines', cur', cur'.inner, w)
                   /\ cur'.start + 1 = Len(lines')
        BY <1>1, <2>0, <3>3, <3>5, <4>1, <4>2, OpenedElsewhere DEF OpenedAt
      <4>3. QED
        BY <3>1, <4>2
    <3>8. QED
      BY <3>1, <3>7 DEF OpenedAt
  <2> DEFINE ls == FinalLines(lines)
             c == SettleMode(ls, cur)
  <2>6. /\ ls \in Seq(Text) /\ ls # <<>> /\ processed < Len(ls)
        /\ Sound(ls, FinalLines(doc), cur, processed)
        /\ \A j \in 1..Len(lines) : ls[j] = lines[j]
    BY <2>0, FinalLinesFacts, FinalSound
  <2>7. ls[cur.start + 1] = lines[cur.start + 1] /\ cur.start < Len(ls)
        /\ ls[cur.start + 1] \in Text
    <3>1. cur.start + 1 \in 1..Len(lines)
      BY <2>0
    <3>2. Len(ls) \in Nat
      BY <2>6
    <3> HIDE DEF ls
    <3>3. QED
      BY <2>0, <2>6, <3>1, <3>2
  <2>8. c \in Cursor /\ c.start = cur.start
    BY <2>0, <2>6, <2>7, SettleFields
  <2>9. c.mode = "CodeFence" => StartMode(ls[c.start + 1]) = "CodeFence"
    <3>1. c = cur \/ c = StartAt(cur, ls[cur.start + 1])
      BY DEF SettleMode
    <3> HIDE DEF c, ls
    <3>2. CASE c = cur
      BY <1>4, <2>7, <3>2 DEF FenceInv
    <3>3. CASE c = StartAt(cur, ls[cur.start + 1])
      <4>1. c.mode = StartMode(ls[cur.start + 1])
        BY <2>0, <2>7, <3>3, StartAtFields
      <4>2. QED
        BY <2>8, <4>1
    <3>4. QED
      BY <3>1, <3>2, <3>3
  <2>10. c.mode = "CodeFence" =>
           PendingOf(ls, c) # <<>> /\ ~AllBlank(PendingOf(ls, c)[1].raw)
    <3>1. ~SingleMode
      BY <1>4 DEF Split
    <3> HIDE DEF c, ls
    <3>2. QED
      BY <2>6, <2>7, <2>8, <2>9, <3>1, FenceIsVisible
  <2>11. CASE KeepsBlanks
    <3>1. RestIsBlank(ls, c) /\ cur' = c
      BY <2>11 DEF KeepsBlanks
    <3> HIDE DEF c, ls
    <3>2. QED
      BY <1>1, <2>10, <3>1 DEF RestIsBlank
  <2>12. CASE CommitsNone
    <3>1. PendingOf(ls, c) = <<>> /\ Compact(ls, c, processed)
      BY <2>12 DEF CommitsNone
    <3> HIDE DEF c, ls
    <3>2. cur'.mode = c.mode
      BY <2>8, <3>1 DEF Compact, Cursor
    <3>3. QED
      BY <1>1, <2>10, <3>1, <3>2
  <2>13. QED
    BY <1>4, <2>2, <2>3, <2>4, <2>5, <2>11, <2>12
<1>5. QED
  BY <1>1, <1>2, <1>3, <1>4, ResumedStep, SplitSteps

(***************************************************************************)
(* The payload of a code fence is that of its first line as it is now, or  *)
(* that line is the one the last chunk went on with.                       *)
(***************************************************************************)
InnerInv ==
  ~closed /\ cur.mode = "CodeFence" => OpenedAt(lines, cur, cur.inner, resumed)

(***************************************************************************)
(* For a block whose first line is scanned by EndsInv, for another by      *)
(* OpeningInv.                                                             *)
(***************************************************************************)
LEMMA InnerIsRight ==
  ASSUME IInv, SingleUnknown, EndsInv, OpeningInv
  PROVE  InnerInv
<1>1. SUFFICES ASSUME ~closed, cur.mode = "CodeFence"
               PROVE  OpenedAt(lines, cur, cur.inner, resumed)
  BY DEF InnerInv
<1>2. Split
  BY <1>1 DEF Split, SingleUnknown
<1>3. cur.start \in Nat /\ processed \in Nat
  BY <1>2, SplitFacts
<1>4. CASE cur.start < processed
  <2>1. StillOpen(lines, cur, processed)
    BY <1>2, <1>4 DEF EndsInv, ReadRight
  <2>2. QED
    BY <1>1, <2>1 DEF StillOpen, FenceOpen, OpenedAt
<1>5. CASE cur.start >= processed
  BY <1>1, <1>2, <1>5 DEF OpeningInv
<1>6. QED
  BY <1>3, <1>4, <1>5

(***************************************************************************)
(* The same after a step.                                                  *)
(***************************************************************************)
LEMMA InnerIsRightNext ==
  IInv' /\ SingleUnknown' /\ EndsInv' /\ OpeningInv' => InnerInv'
  BY InnerIsRight, PTL

(***************************************************************************)
(* The suffix of the display closes the fence that the first line opens.   *)
(***************************************************************************)
Closing(d, ls, c, w) ==
  d # NoDisplay /\ d[1].suffix # <<>>
    => OpenedAt(ls, c, d[1].suffix[1].fence, w)

ClosesInv == ~closed => Closing(display, lines, cur, resumed)

(***************************************************************************)
(* append and append_ref return such a display.                            *)
(***************************************************************************)
LEMMA ReturnCloses ==
  ASSUME NEW d, NEW ls, NEW c, NEW p, NEW w,
         p = <<>> \/ \E b \in Block : p = <<b>>,
         Closing(d, ls, c, w),
         c.mode = "CodeFence" => OpenedAt(ls, c, c.inner, w),
         NEW e, e = ShownOwned(d, p) \/ e = ShownRef(d, p, c)
  PROVE  Closing(e, ls, c, w)
<1>1. ASSUME NEW b \in Block
      PROVE  Closing(Terminated(b), ls, c, w)
  <2>1. Terminated(b)[1].suffix = <<>>
    BY DEF Terminated
  <2>2. QED
    BY <2>1 DEF Closing
<1>2. ASSUME NEW b \in Block, c.mode = "CodeFence"
      PROVE  Closing(WithFence(b, c.inner), ls, c, w)
  <2> DEFINE x == [newline |-> EndsInNewline(b.raw), fence |-> c.inner]
             r == [raw |-> b.raw, kind |-> b.kind, suffix |-> <<x>>]
  <2>1. WithFence(b, c.inner) = <<r>>
    BY DEF WithFence, CodeFenceSuffix
  <2>2. <<r>>[1].suffix[1].fence = c.inner
    OBVIOUS
  <2> HIDE DEF r
  <2>3. QED
    BY <1>2, <2>1, <2>2 DEF Closing
<1>3. Closing(NoDisplay, ls, c, w)
  BY DEF Closing
<1>4. CASE e = ShownOwned(d, p)
  <2>1. e = d \/ \E b \in Block : e = Terminated(b)
    BY <1>4 DEF ShownOwned
  <2>2. QED
    BY <1>1, <2>1
<1>5. CASE e = ShownRef(d, p, c)
  <2>1. \/ e = NoDisplay \/ e = d
        \/ \E b \in Block : e = Terminated(b)
        \/ \E b \in Block : e = WithFence(b, c.inner) /\ c.mode = "CodeFence"
    BY <1>5 DEF ShownRef
  <2>2. QED
    BY <1>1, <1>2, <1>3, <2>1
<1>6. QED
  BY <1>4, <1>5

(***************************************************************************)
(* The end of a call, or the next step of one.                             *)
(***************************************************************************)
LEMMA LeaveCloses ==
  ASSUME TypeOK', InnerInv', pc' \in {"idle", "lines"},
         NEW shown, NEW calls, calls \subseteq {"append", "append_ref"},
         ~closed' => Closing(shown, lines, cur, resumed)',
         Leave(shown, calls)
  PROVE  ClosesInv'
<1> DEFINE p == PendingOf(lines, cur)'
<1>1. SUFFICES ASSUME ~closed'
               PROVE  Closing(display', lines', cur', resumed')
  BY DEF ClosesInv, Closing, OpenedAt
<1>2. Closing(shown, lines', cur', resumed')
  BY <1>1 DEF Closing, OpenedAt
<1>3. CASE pc' = "lines"
  BY <1>2, <1>3 DEF Leave
<1>4. CASE pc' = "idle"
  <2>1. display' = ShownOwned(shown, p) \/ display' = ShownRef(shown, p, cur')
    BY <1>4 DEF Leave, Return, ReturnOwned, ReturnRef
  <2>2. p = <<>> \/ \E b \in Block : p = <<b>>
    BY PendingIsTypedNext DEF PendingTyped
  <2>3. cur'.mode = "CodeFence" => OpenedAt(lines', cur', cur'.inner, resumed')
    BY <1>1 DEF InnerInv, OpenedAt
  <2> HIDE DEF p
  <2>4. QED
    BY <1>2, <2>1, <2>2, <2>3, ReturnCloses
<1>5. QED
  BY <1>3, <1>4

(***************************************************************************)
(* Every step keeps ClosesInv.                                             *)
(***************************************************************************)
LEMMA ClosesKept ==
  ASSUME ResetAfterFinalize, PlainBlanks, SyncInv, TypeOK', IInv, ModeInv,
         FenceInv, SingleUnknown, DisplayInv, InnerInv', ClosesInv,
         [SyncNext]_syncVars
  PROVE  ClosesInv'
<1> DEFINE calls == {"append", "append_ref"}
<1>1. ASSUME NEW chunk \in Chunk, NEW endsInCr \in BOOLEAN,
             AppendFirst(chunk, endsInCr, calls)
      PROVE  ClosesInv'
  <2>1. AppendChunk(chunk, endsInCr)
    BY <1>1 DEF AppendFirst
  <2>2. CASE EnterSingleBlock(lines')
    <3>1. pc' = "idle" /\ Leave(NoDisplay, calls)
      BY <1>1, <2>2 DEF AppendFirst, EnterSingleBlock
    <3>2. Closing(NoDisplay, lines, cur, resumed)'
      BY DEF Closing
    <3>3. QED
      BY <3>1, <3>2, LeaveCloses
  <2>3. CASE EnterLoop
    <3>1. /\ pc' = "lines" /\ cur' = cur /\ Leave(Grow(chunk), calls)
      BY <1>1, <2>3 DEF AppendFirst, EnterLoop
    <3>2. ASSUME Grow(chunk) # NoDisplay
          PROVE  /\ cur.mode = "CodeFence"
                 /\ Grow(chunk)[1].suffix[1].fence = cur.inner
      <4>1. /\ display # NoDisplay /\ display[1].suffix # <<>>
            /\ cur.mode = "CodeFence"
        BY <3>2 DEF Grow
      <4>2. PICK r \in DisplayRecord : display = <<r>>
        BY <4>1 DEF SyncInv, ShownTyped, NoDisplay
      <4> DEFINE x == IF chunk = <<LastLine>> THEN r.suffix[1].newline
                      ELSE EndsInNewline(chunk)
                 suffix == CodeFenceSuffix(x, cur.inner)
                 g == [r EXCEPT !.raw = Extend(r.raw, chunk),
                                !.suffix = suffix]
      <4>3. Grow(chunk) = <<g>>
        BY <4>1, <4>2 DEF Grow
      <4>4. Grow(chunk)[1].suffix = suffix
        <5> HIDE DEF suffix
        <5>1. g.suffix = suffix
          BY DEF DisplayRecord
        <5> HIDE DEF g
        <5>2. QED
          BY <4>3, <5>1
      <4>5. QED
        BY <4>1, <4>4 DEF CodeFenceSuffix
    <3>3. ASSUME NEW shown, shown = Grow(chunk)
          PROVE  ClosesInv'
      <4>1. ~closed' => Closing(shown, lines, cur, resumed)'
        BY <3>1, <3>2, <3>3 DEF Closing, InnerInv, OpenedAt
      <4>2. QED
        BY <3>1, <3>3, <4>1, LeaveCloses
    <3>4. QED
      BY <3>3
  <2>4. QED
    BY <2>1, <2>2, <2>3 DEF AppendChunk
<1>2. CASE AppendFurther(calls)
  <2>1. /\ ProcessLine \/ FinishAppend
        /\ Leave(Kept, calls) /\ resumed' = resumed
    BY <1>2 DEF AppendFurther
  <2>2. pc = "lines" /\ pc' \in {"idle", "lines"} /\ closed' = closed
    BY <2>1 DEF ProcessLine, FinishAppend
  <2>3. ASSUME NEW shown, shown = Kept
        PROVE  ClosesInv'
    <3>1. CASE shown = NoDisplay
      <4>1. Closing(shown, lines, cur, resumed)'
        BY <3>1 DEF Closing
      <4>2. QED
        BY <2>1, <2>2, <2>3, <4>1, LeaveCloses
    <3>2. CASE shown # NoDisplay /\ ~closed
      <4>1. lines' = lines /\ cur'.start = cur.start
        BY <2>1, <2>2, <2>3, <3>2, KeptShown
      <4>2. shown = display /\ cur'.base = cur.base
        BY <2>3, <3>2 DEF Kept
      <4>3. Closing(shown, lines, cur, resumed)'
        BY <2>1, <3>2, <4>1, <4>2 DEF ClosesInv, Closing, OpenedAt
      <4>4. QED
        BY <2>1, <2>2, <2>3, <4>3, LeaveCloses
    <3>3. CASE closed
      BY <2>2, <3>3 DEF ClosesInv
    <3>4. QED
      BY <3>1, <3>2, <3>3
  <2>4. QED
    BY <2>3
<1>3. CASE ProduceByEmptyAppend(calls)
  <2>1. /\ AppendNothing /\ Return(display, calls) /\ resumed' = resumed
    BY <1>3 DEF ProduceByEmptyAppend
  <2>2. pc' = "idle" /\ UNCHANGED <<lines, cur, closed>>
    BY <2>1 DEF AppendNothing, MayAppend
  <2>3. ASSUME NEW shown, shown = display
        PROVE  ClosesInv'
    <3>1. Leave(shown, calls)
      BY <2>1, <2>2, <2>3 DEF Leave
    <3>2. ~closed' => Closing(shown, lines, cur, resumed)'
      BY <2>1, <2>2, <2>3 DEF ClosesInv, Closing, OpenedAt
    <3>3. QED
      BY <2>2, <3>1, <3>2, LeaveCloses
  <2>4. QED
    BY <2>3
<1>4. CASE ProduceByFinalize
  <2>1. CASE Finalize
    <3>1. display' = display \/ display' = NoDisplay
      BY <1>4 DEF ProduceByFinalize
    <3>2. ~closed' /\ display # NoDisplay => display[1].suffix = <<>>
      BY <2>1, NoFenceLeft
    <3>3. QED
      BY <3>1, <3>2 DEF ClosesInv, Closing
  <2>2. CASE FinalizeNothingNew
    <3>1. UNCHANGED <<lines, cur, closed, display, resumed>>
      BY <1>4, <2>2 DEF FinalizeNothingNew, ProduceByFinalize
    <3>2. QED
      BY <3>1 DEF ClosesInv, Closing, OpenedAt
  <2>3. QED
    BY <1>4, <2>1, <2>2 DEF ProduceByFinalize
<1>5. CASE Apply \/ UNCHANGED syncVars
  <2>1. UNCHANGED <<lines, cur, closed, display, resumed>>
    BY <1>5 DEF Apply, syncVars, vars
  <2>2. QED
    BY <2>1 DEF ClosesInv, Closing, OpenedAt
<1>6. CASE NewDocument
  BY <1>6 DEF NewDocument, ClosesInv, Closing
<1>7. QED
  BY <1>1, <1>2, <1>3, <1>4, <1>5, <1>6 DEF SyncNext, SyncNextOn,
     ProduceByAppend

(***************************************************************************)
(* DisplayInv and what it rests on hold at the start.                      *)
(***************************************************************************)
LEMMA InitDisplay ==
  ASSUME SyncInit
  PROVE  ModeInv /\ FenceInv /\ EndsInv /\ DisplayInv /\ OpeningInv
         /\ ClosesInv
<1>1. /\ display = NoDisplay /\ pc = "idle" /\ lines = <<EmptyText>>
      /\ cur.start = 0 /\ cur.mode = "Unknown" /\ processed = 0
      /\ cur.committed = <<>> /\ ~closed
  BY DEF SyncInit, Init, FreshCursor
<1>2. PendingOf(lines, cur) = <<>>
  BY <1>1, FreshPending
<1>3. EndsInv
  BY <1>1 DEF EndsInv, ReadRight, Ending
<1>4. QED
  BY <1>1, <1>2, <1>3 DEF ModeInv, FenceInv, DisplayInv, Right, Visible,
     OpeningInv, ClosesInv, Closing

(***************************************************************************)
(* The display of an open document, and the fence in its suffix.           *)
(***************************************************************************)
LEMMA FreshIs ==
  ASSUME IInv, SingleUnknown, ClosedIsFinal, DisplayInv, ClosesInv
  PROVE  DisplayIsFresh
<1> DEFINE p == PendingOf(lines, cur)
<1>1. SUFFICES ASSUME pc = "idle", ~report.final, Visible(p)
               PROVE  /\ display # NoDisplay
                      /\ display[1].raw = p[1].raw
                      /\ display[1].kind = p[1].kind
                      /\ display[1].suffix # <<>> =>
                           /\ cur.mode = "CodeFence"
                           /\ display[1].suffix[1].newline
                                = EndsInNewline(p[1].raw)
                           /\ OpenedWhole(p[1]) => ClosesFence(p[1])
  BY DEF DisplayIsFresh, Visible
<1>2. ~closed
  BY <1>1 DEF ClosedIsFinal
<1>3. /\ Right(display, lines, cur, p) /\ display # NoDisplay
      /\ display[1].raw = p[1].raw /\ display[1].kind = p[1].kind
  BY <1>1, <1>2 DEF DisplayInv, Right
<1>4. ASSUME display[1].suffix # <<>>, OpenedWhole(p[1])
      PROVE  ClosesFence(p[1])
  <2>1. /\ cur.mode = "CodeFence"
        /\ p[1].raw = LinesOf(lines, cur.start, Len(lines) - 1)
    BY <1>3, <1>4 DEF Right, FenceShown
  <2>2. Split
    BY <1>2, <2>1 DEF Split, SingleUnknown
  <2>3. /\ lines \in Seq(Text) /\ cur \in Cursor /\ cur.start \in Nat
        /\ cur.start < Len(lines)
    BY <2>2, SplitFacts
  <2>4. p[1].raw[1] = lines[cur.start + 1]
    <3>1. \A j \in 1..Len(lines) - cur.start :
            LinesOf(lines, cur.start, Len(lines) - 1)[j]
              = lines[cur.start + j]
      BY <2>3, RestOfLines
    <3>2. 1 \in 1..Len(lines) - cur.start
      BY <2>3
    <3>3. QED
      BY <2>1, <3>1, <3>2
  <2>5. p[1].from = cur.base + cur.start
    <3>1. ~SingleMode
      BY <2>2 DEF Split
    <3>2. p = <<BlockAt([cur EXCEPT !.mode = PendingMode(lines, cur)],
                        LinesOf(lines, cur.start, Len(lines) - 1))>>
      BY <1>1, <3>1 DEF PendingOf, Visible
    <3>3. QED
      BY <2>3, <3>2 DEF BlockAt, Cursor
  <2>6. OpenedAt(lines, cur, display[1].suffix[1].fence, resumed)
    BY <1>2, <1>3, <1>4 DEF ClosesInv, Closing
  <2>7. QED
    BY <1>4, <2>4, <2>5, <2>6 DEF OpenedAt, OpenedWhole, ClosesFence
<1>5. QED
  BY <1>1, <1>3, <1>4 DEF Right, FenceShown

(***************************************************************************)
(* The display that an application shows is that of the pending block as   *)
(* it is, whichever mixture of append and append_ref it calls: no code     *)
(* fence that is extended chunk by chunk drifts from its text, no cached   *)
(* display outlives a commit, a compaction or a change of mode, and the    *)
(* fence that closes the display is that of the first line of the block,   *)
(* unless the last chunk went on with that line (DisplayCloses, which does *)
(* not allow for that, does not hold).                                     *)
(***************************************************************************)
THEOREM DisplayStaysFresh ==
  ASSUME ResetAfterFinalize, SingleBlock => MaxBufferBytes = {},
         StableFences, PlainBlanks
  PROVE  SyncSpec => []DisplayIsFresh
<1> DEFINE Inv == /\ SyncInv /\ SingleUnknown /\ IInv /\ ModeInv /\ FenceInv
                  /\ EndsInv /\ ClosedIsFinal /\ DisplayInv /\ OpeningInv
                  /\ ClosesInv
<1>1. SyncInit => Inv
  BY InitSyncTyped, InitUpdates, InitKeys, InitKeeps, InitDisplay
  DEF SyncInit
<1>2. Inv /\ [SyncNext]_syncVars => Inv'
  <2> SUFFICES ASSUME Inv, [SyncNext]_syncVars
               PROVE  Inv'
    OBVIOUS
  <2>1. SyncInv'
    BY SyncTyped
  <2>2. SingleUnknown'
    BY SingleUnknownKept DEF SyncInv
  <2>3. [Next]_vars
    BY SyncIsStream
  <2>4. IInv' /\ ModeInv' /\ FenceInv'
    BY <2>3, NextKeeps, ModeInvKept, FenceInvKept
  <2>5. ClosedIsFinal'
    BY ClosedIsFinalKept
  <2>6. DisplayInv'
    BY <2>1, <2>2, DisplayInvKept
  <2>7. EndsInv'
    BY <2>3, SplitEnds, ClosedEnds DEF EndsInv
  <2>8. OpeningInv'
    BY OpeningKept
  <2>9. ClosesInv'
    <3>1. InnerInv'
      BY <2>2, <2>4, <2>7, <2>8, InnerIsRightNext
    <3>2. TypeOK'
      BY <2>1 DEF SyncInv
    <3>3. QED
      BY <3>1, <3>2, ClosesKept
  <2>10. QED
    BY <2>1, <2>2, <2>4, <2>5, <2>6, <2>7, <2>8, <2>9
<1>3. Inv => DisplayIsFresh
  BY FreshIs
<1>4. QED
  BY <1>1, <1>2, <1>3, PTL DEF SyncSpec
=============================================================================
