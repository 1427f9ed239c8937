--------------------------- MODULE PendingDisplay ---------------------------
(***************************************************************************)
(* The cached display of the pending block (pending_display_cache and      *)
(* pending_display_cache_suffix in mdstream/src/stream.rs).  A display is  *)
(* what it was made from: the raw text and kind given to the terminator    *)
(* and the transformers, or the raw text of a code fence and the suffix    *)
(* that closes it.  append_ref extends a code fence chunk by chunk instead *)
(* of making its display again; every other change of the text must drop   *)
(* the display.                                                            *)
(***************************************************************************)
EXTENDS BlockStreamProperties

VARIABLES
  display,    \* the cache and its suffix, as at most one record
  resumed     \* history: the line that the last chunk went on with, or 0

NoDisplay == <<>>

(***************************************************************************)
(* terminate_markdown and transform_pending_display.                       *)
(***************************************************************************)
Terminated(b) == <<[raw |-> b.raw, kind |-> b.kind, suffix |-> <<>>]>>

(***************************************************************************)
(* code_fence_suffix, for a raw text that ends with a newline or not.      *)
(***************************************************************************)
CodeFenceSuffix(newline, fence) == <<[newline |-> newline, fence |-> fence]>>

EndsInNewline(raw) == raw[Len(raw)] = EmptyText

WithFence(b, fence) ==
  <<[raw |-> b.raw, kind |-> b.kind,
     suffix |-> CodeFenceSuffix(EndsInNewline(b.raw), fence)]>>

(***************************************************************************)
(* try_incremental_pending_display_append, which reads the mode the block  *)
(* has before the chunk; what cannot be extended is dropped.               *)
(***************************************************************************)
\* Faulty variant: whether the text ends with a newline is not looked at
\* again.
GrowKeepingSuffix(chunk) ==
  IF display # NoDisplay /\ display[1].suffix # <<>> /\ cur.mode = "CodeFence"
  THEN <<[display[1] EXCEPT !.raw = Extend(@, chunk)]>>
  ELSE NoDisplay

Grow(chunk) ==
  IF display # NoDisplay /\ display[1].suffix # <<>> /\ cur.mode = "CodeFence"
  THEN <<[display[1] EXCEPT
            !.raw = Extend(@, chunk),
            !.suffix =
              CodeFenceSuffix(IF chunk = <<LastLine>> THEN @[1].newline
                              ELSE EndsInNewline(chunk), cur.inner)]>>
  ELSE NoDisplay

(***************************************************************************)
(* commit_block and maybe_compact_buffer drop the display: a step has      *)
(* called one of them exactly if the current block starts elsewhere.       *)
(***************************************************************************)
Kept ==
  IF cur'.start # cur.start \/ cur'.base # cur.base THEN NoDisplay
  ELSE display

(***************************************************************************)
(* current_pending_block, for append: what is cached is returned as it is. *)
(***************************************************************************)
ShownOwned(shown, pending) ==
  IF shown # NoDisplay \/ pending = <<>> THEN shown
  ELSE Terminated(pending[1])

(***************************************************************************)
(* ensure_current_pending_display, for append_ref.                         *)
(***************************************************************************)
ShownRef(shown, pending, c) ==
  IF pending = <<>> THEN NoDisplay
  ELSE IF pending[1].kind = "CodeFence" /\ c.mode = "CodeFence"
  THEN IF shown # NoDisplay /\ shown[1].suffix # <<>> THEN shown
       ELSE WithFence(pending[1], c.inner)
  ELSE IF shown # NoDisplay THEN shown
  ELSE Terminated(pending[1])

-----------------------------------------------------------------------------
(***************************************************************************)
(* The suffix closes the fence that the first line of b opens.             *)
(***************************************************************************)
ClosesFence(b) == display[1].suffix[1].fence = Enter[b.raw[1]]

(***************************************************************************)
(* The number of the line that a chunk goes on with, if it has a beginning *)
(* already.                                                                *)
(***************************************************************************)
Resumed == IF LastLine = EmptyText THEN 0 ELSE Len(doc)

(***************************************************************************)
(* The first line of b was complete, or not begun, when the last chunk     *)
(* arrived.                                                                *)
(***************************************************************************)
OpenedWhole(b) == b.from + 1 # resumed

(***************************************************************************)
(* The display that the last append returned is that of the pending block  *)
(* as it is now, whichever of append and append_ref was called before and  *)
(* however much of it was built chunk by chunk.  The fence that closes it  *)
(* is that of the first line, unless the last chunk went on with that      *)
(* line.  A blank block is left out: finalize may end its last line        *)
(* without committing it.                                                  *)
(***************************************************************************)
DisplayIsFresh ==
  LET pending == PendingOf(lines, cur)
  IN  pc = "idle" /\ ~report.final /\ pending # <<>>
      /\ ~AllBlank(pending[1].raw)
      => /\ display # NoDisplay
         /\ display[1].raw = pending[1].raw
         /\ display[1].kind = pending[1].kind
         /\ display[1].suffix # <<>> =>
              /\ cur.mode = "CodeFence"
              /\ display[1].suffix[1].newline = EndsInNewline(pending[1].raw)
              /\ OpenedWhole(pending[1]) => ClosesFence(pending[1])

(***************************************************************************)
(* "display must end with a closing fence" (tests/update_ref.rs), at the   *)
(* end of every call: also when the line that opens the fence has grown.   *)
(***************************************************************************)
DisplayCloses ==
  LET pending == PendingOf(lines, cur)
  IN  pc = "idle" /\ ~report.final /\ pending # <<>> /\ display # NoDisplay
      /\ display[1].suffix # <<>>
      => ClosesFence(pending[1])

(***************************************************************************)
(* What DisplayIsFresh rests on: a line that starts a code fence still     *)
(* does when more is written on it (fence_start looks at no more than the  *)
(* run of fence characters that the line begins with).                     *)
(***************************************************************************)
StableFences ==
  \A pair \in Grows :
    StartMode(pair[1]) = "CodeFence" => StartMode(pair[2]) = "CodeFence"
=============================================================================
