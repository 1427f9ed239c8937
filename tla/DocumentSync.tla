---------------------------- MODULE DocumentSync ----------------------------
(***************************************************************************)
(* The producer and the consumer of updates: an MdStream whose calls       *)
(* return an Update each, and a DocumentState (mdstream/src/state.rs) that *)
(* applies them later, in order, as a user interface on another task does. *)
(* Between the two is a first-in first-out queue of owned updates.         *)
(***************************************************************************)
EXTENDS PendingDisplay

CONSTANT MaxQueue    \* bound on the updates under way

ASSUME QueueAssumption == MaxQueue \in Nat \ {0}

VARIABLES
  updates,   \* updates returned by the stream and not yet applied
  view       \* the DocumentState: its committed blocks and its pending one

syncVars == <<vars, display, resumed, updates, view>>

EmptyView == [committed |-> <<>>, pending |-> <<>>]

\* Faulty variants of ApplyTo: reset is ignored, the vector of blocks is
\* appended as one element, a pending block stays until there is another.
ApplyNoReset(v, u) ==
  [committed |-> v.committed \o u.committed, pending |-> u.pending]

ApplyNested(v, u) ==
  [committed |-> IF u.reset THEN u.committed
                 ELSE Append(v.committed, u.committed),
   pending |-> u.pending]

ApplyKeepPending(v, u) ==
  [committed |-> IF u.reset THEN u.committed ELSE v.committed \o u.committed,
   pending |-> IF u.pending = <<>> THEN v.pending ELSE u.pending]

(***************************************************************************)
(* Update::apply_to.                                                       *)
(***************************************************************************)
ApplyTo(v, u) ==
  [committed |-> IF u.reset THEN u.committed ELSE v.committed \o u.committed,
   pending |-> u.pending]

-----------------------------------------------------------------------------
(***************************************************************************)
(* current_pending_block: with a display in the cache the kind is that of  *)
(* the current mode, even when the mode is still unknown; without one it   *)
(* is computed as in current_pending_info.  A finalize returns no pending  *)
(* block.                                                                  *)
(***************************************************************************)
ReturnedPending(fast) ==
  LET pending == PendingOf(lines, cur)
  IN  IF report.final THEN <<>>
      ELSE IF ~fast THEN pending
      ELSE [k \in DOMAIN pending |->
              [pending[k] EXCEPT !.kind = KindForMode(cur.mode)]]

(***************************************************************************)
(* The Update that the call that just ended returns.                       *)
(***************************************************************************)
Update(fast) ==
  [committed |-> SubSeq(cur.committed, report.mark + 1, Len(cur.committed)),
   pending |-> ReturnedPending(fast),
   reset |-> report.reset]

SyncInit ==
  /\ Init
  /\ display = NoDisplay /\ resumed = 0
  /\ updates = <<>> /\ view = EmptyView

MayReturn == Len(updates) < MaxQueue

(***************************************************************************)
(* The end of a call of append or append_ref: what it returns when it has  *)
(* come to its end with the display shown, and the display it leaves.      *)
(* UpdateRef::to_owned makes the update that is sent.                      *)
(***************************************************************************)
ReturnOwned(shown) ==
  /\ updates' = Append(updates, IF shown = NoDisplay THEN Update(FALSE)'
                                ELSE Update(TRUE)')
  /\ display' = ShownOwned(shown, PendingOf(lines, cur)')

ReturnRef(shown) ==
  /\ updates' = Append(updates, Update(FALSE)')
  /\ display' = ShownRef(shown, PendingOf(lines, cur)', cur')

Return(shown, calls) ==
  \/ "append" \in calls /\ ReturnOwned(shown)
  \/ "append_ref" \in calls /\ ReturnRef(shown)

Leave(shown, calls) ==
  IF pc' = "idle" THEN Return(shown, calls)
  ELSE display' = shown /\ UNCHANGED updates

AppendFirst(chunk, endsInCr, calls) ==
  /\ AppendChunk(chunk, endsInCr)
  /\ resumed' = Resumed
  /\ Leave(IF report'.reset THEN NoDisplay ELSE Grow(chunk), calls)

AppendFurther(calls) ==
  (ProcessLine \/ FinishAppend) /\ Leave(Kept, calls) /\ UNCHANGED resumed

ProduceByAppend(chunks, calls) ==
  /\ MayReturn
  /\ \/ \E chunk \in chunks, endsInCr \in BOOLEAN :
          AppendFirst(chunk, endsInCr, calls)
     \/ AppendFurther(calls)
  /\ UNCHANGED view

ProduceByEmptyAppend(calls) ==
  /\ MayReturn
  /\ AppendNothing
  /\ Return(display, calls)
  /\ UNCHANGED <<resumed, view>>

(***************************************************************************)
(* finalize leaves the display as it is unless it compacts the buffer.     *)
(***************************************************************************)
ProduceByFinalize ==
  /\ MayReturn
  /\ FinalizeNothingNew \/ Finalize
  /\ updates' = Append(updates, Update(FALSE)')
  /\ display' = IF cur'.base = cur.base THEN display ELSE NoDisplay
  /\ UNCHANGED <<resumed, view>>

(***************************************************************************)
(* DocumentState::apply on the oldest update.                              *)
(***************************************************************************)
Apply ==
  /\ updates # <<>>
  /\ view' = ApplyTo(view, Head(updates))
  /\ updates' = Tail(updates)
  /\ UNCHANGED <<vars, display, resumed>>

(***************************************************************************)
(* A new document: MdStream::reset and DocumentState::clear.               *)
(***************************************************************************)
NewDocument ==
  /\ Reset
  /\ display' = NoDisplay /\ resumed' = 0
  /\ updates' = <<>>
  /\ view' = EmptyView

SyncNextOn(chunks, calls) ==
  \/ ProduceByAppend(chunks, calls)
  \/ ProduceByEmptyAppend(calls)
  \/ ProduceByFinalize
  \/ Apply
  \/ NewDocument

SyncNext == SyncNextOn(Chunk, {"append", "append_ref"})

SyncSpec == SyncInit /\ [][SyncNext]_syncVars

-----------------------------------------------------------------------------
(***************************************************************************)
(* The stream, the updates under way and the view keep their types.        *)
(***************************************************************************)
SyncTypeOK ==
  /\ TypeOK
  /\ Len(display) <= 1
  /\ \A k \in DOMAIN display :
       display[k] \in [raw : Seq(Text), kind : Mode,
                      suffix : Seq([newline : BOOLEAN, fence : Inner])]
  /\ resumed \in Nat
  /\ updates \in Seq([committed : Seq(Block), pending : Seq(Block),
                      reset : BOOLEAN])
  /\ view \in [committed : Seq(Block), pending : Seq(Block)]

(***************************************************************************)
(* What the view becomes once the updates under way are applied.           *)
(***************************************************************************)
CaughtUp ==
  LET after[n \in 0..Len(updates)] ==
        IF n = 0 THEN view ELSE ApplyTo(after[n - 1], updates[n])
  IN  after[Len(updates)]

(***************************************************************************)
(* The pending block that the last call returned.                          *)
(***************************************************************************)
StreamPending == IF report.final THEN <<>> ELSE PendingOf(lines, cur)

(***************************************************************************)
(* The updates carry everything: whenever no call is running, a consumer   *)
(* that applies what is under way holds exactly the committed blocks of    *)
(* the stream and the id and text of its pending block, resets included.   *)
(* The kind is the one that current_pending_info computes, or none at all  *)
(* (the fast path does not look at the first line).                        *)
(***************************************************************************)
UpdatesSuffice ==
  pc = "idle" =>
    /\ CaughtUp.committed = cur.committed
    /\ Len(CaughtUp.pending) = Len(StreamPending)
    /\ \A k \in DOMAIN StreamPending :
         /\ CaughtUp.pending[k].id = StreamPending[k].id
         /\ CaughtUp.pending[k].raw = StreamPending[k].raw
         /\ CaughtUp.pending[k].kind \in {StreamPending[k].kind, "Unknown"}

(***************************************************************************)
(* README.md: a committed block is "safe for UI to cache by BlockId".  At  *)
(* no time, however late the consumer is, do two blocks of its view have   *)
(* the same id.                                                            *)
(***************************************************************************)
CacheKeysDistinct ==
  LET shown == view.committed \o view.pending
  IN  \A k, l \in DOMAIN shown : shown[k].id = shown[l].id => k = l
=============================================================================
