# mdstream: specifications, model checking and proofs

`mdstream` turns Markdown that arrives in chunks (from a language model, say)
into *blocks*: committed ones, which never change again, and one pending block
at the end. `mdstream-tokio` carries the text from a producer task to the
splitter and its updates to a user interface. This directory holds TLA+ modules
of that code, the TLC configurations that check them on small instances, and
proofs, checked by TLAPS, that hold for every instance. Paths below are relative
to `src/`; `mdstream/src/stream.rs` is written `stream.rs`, and
`mdstream-tokio/src/lib.rs` is written `tokio`.

## 1. Inventory

| Component | State | Operations | Hard behaviour | What makes it correct | Here |
|---|---|---|---|---|---|
| Block splitter, `stream.rs`, `stream/lines.rs` | `buffer`, `lines`, `processed_line`, the `current_*` fields, `next_block_id`, `committed`, `last_finalized_buffer_len` | `append`, `append_ref`, `finalize`, `reset`, `snapshot_blocks` | a block is decided by lines that come later, and by a last line that is not finished; a call after a finalize | no line lost or shown twice, ids increase, chunking does not show, a construct ends where it closes | `BlockStream` |
| Compaction, `stream/compaction.rs` | the same, rebased | at the end of `append` and `finalize` | line numbers move in the middle of a document | buffer and cursor still fit each other and the document | `BlockStream` |
| Text intake, `stream/lines.rs`, `stream/footnotes.rs` | `pending_cr`, `footnote_scan_tail`, the table of lines | newline normalization, line table, footnote scan | `\r\n` and footnotes cut by chunks; offsets after a compaction | result independent of the cut; table and buffer agree | `TextIntake` |
| `Update`, `DocumentState`, `types.rs`, `state.rs` | committed and pending blocks of the consumer | `apply_to`, `apply`, `clear` | updates are applied later than they were made; `reset` | the view equals the stream after the last update | `DocumentSync` |
| Pending display, `pending/terminator.rs`, `transform.rs`, `stream.rs` | `pending_display_cache`, its suffix | terminator, transformers, incremental code fence | which of three computations runs depends on the cache; ten repairs in a row | all agree; no text is lost and nothing is left open | `Terminator`, `PendingDisplay`, without transformers |
| Boundary plugins, `boundary.rs` | marker length, open tag, container depth, closure state | `matches_start`, `start`, `update` | the opening line is read twice; state that outlives a block | block ends where the plugin says | `BlockScanners`, without `FnBoundaryPlugin` |
| HTML stack, `stream/html.rs` | open tags, comment flag | push and pop by line | unbalanced tags, comments | block ends when the stack is empty | `BlockScanners` |
| References, `reference.rs`, `stream/refs.rs` | index from label to blocks | invalidation on a late definition | resets of the index | exactly the users are invalidated | `ReferenceSync` |
| Pulldown adapter, `adapters/pulldown.rs` | definitions, parsed blocks by id | `apply_update`, `parse_pending` | cache that must follow invalidations | cache equals a fresh parse | `ReferenceSync` |
| `AnalyzedStream`, `analyze.rs` | analysis by block id | `append`, `finalize`, `reset` | ids start again after a reset; a second opinion on what is closed | the map is that of the committed blocks; hints agree with the scanner | `AnalyzedStream` |
| Syntax helpers, `syntax.rs` | none | predicates of a line | none | agreement with CommonMark is not claimed | constant `Is`; the fence header in `AnalyzedStream` |
| `DeltaSender`, `tokio` | `policy`, `local_buf` | `send`, `flush`, `set_policy`, drop | a full or closed channel | accepted text stays, in order | `DeltaPipeline` |
| `CoalescingReceiver`, `tokio` | `buf`, `deadline`, options | `recv_with_meta`, `set_options` | its future is dropped at an await; the timer races messages; the channel closes with text in `buf` | text survives, in order, in time | `DeltaPipeline` |
| `spawn_mdstream_actor`, `tokio` | one task between two bounded channels | the loop | back pressure through both channels, both ends going away | final update last and after all text, nobody waits for ever | `StreamActor` |
| Benches, fuzzing, examples | | | | | not modelled |

How they interact: a producer calls `DeltaSender::send`, which puts strings into
a bounded Tokio channel; `CoalescingReceiver` takes them out and merges them;
either the application or the actor passes each chunk to `MdStream::append`, which
returns an `Update`; the actor sends it over a second bounded channel; the
application applies it to a `DocumentState` and hands it to adapters. `MdStream`
itself is sequential (`docs/ADR_0001_STREAMING_CONCURRENCY.md`), so what is hard
in it is long sequences of calls; what is concurrent is the queue of updates and the Tokio
helpers. Nothing is persisted: there is no crash recovery to model.

`PROJECT.json` lists the hazards, each at its line, with the properties that
watch it.

## 2. Plan

1. **Core** (done): `BlockStream` with compaction, `BlockStreamProperties`,
   `MCBlockStream`, `DocumentSync`, and the proofs in `BlockStreamProofs`.
2. **Pipeline** (done): the abstract `Delivery`, `DeltaPipeline` and
   `StreamActor`, which implement it.
3. **References and adapter** (done): `ReferenceSync`, composed with `DocumentSync`.
4. **Scanners and plugins** (done): `BlockScanners`, the payloads of
   `BlockStream` for fences, math, HTML and the built-in plugins.
5. **Pending display** (done): `PendingDisplay` between `BlockStream` and
   `DocumentSync`, so that it joins the run `reference_sync`; `Terminator` on top of
   `TextIntake`.
6. **Text intake** (done): `TextIntake`, with `TextIntakeProofs`.
7. **Analyzers** (done): `AnalyzedStream`, on top of `ReferenceSync` and `BlockScanners`.
8. **Proofs of the pipeline** (done): `PipelineProofs`.
9. **Proofs about blocks** (done): the second half of `BlockStreamProofs`, and
   `ChunkingProofs` with the induction of `Induction`.
10. **Proofs of the consumers** (done): `SyncProofs` for a consumer of updates and
    its display; the actor's two channels are in `PipelineProofs`.
11. **Proofs of the adapter and the analyzers** (done): `ReferenceProofs`, with
    `HintsRight` for the scanners of `BlockScanners`.
12. **Proofs about the terminator** (done): `TerminatorProofs`.

Left: the transformers of `transform.rs` after the terminator; that `TextIntake` and
`BlockStream` compose (the lines of one are the lines of the other).
No module uses a RECURSIVE operator, so each can be proved about; recursion is
by recursive functions and folds, each with a lemma that it has a solution where a proof needs it.

## 3. Modules

`BlockStream`. A line is a member of the constant `Text`; the line predicates
(`stream.rs`, `syntax.rs`) are the constant function `Is`, and `Grows` relates
a line to what it can become when more of it arrives. The payload of a mode
(fence, tag stack, `$$` count, plugin state) is a member of `Inner`, driven by
`Enter` and `Scan`, and complete when in `Shut`. So the module, and what is
proved about it, holds for every classification of lines.

| Variable | Code |
|---|---|
| `lines` | `buffer` and `lines`; the last is unfinished |
| `processed` | `processed_line` |
| `cur` | `current_block_start_line`, `current_block_id`, `next_block_id`, `current_mode` with its payload, `committed`; `base`, a history field, counts the lines compaction dropped |
| `pc` | where `append_core` is |
| `pendingCr`, `detected` | `pending_cr`, `footnotes_detected` |
| `dirty` | `buffer.len() != last_finalized_buffer_len`; exact, because between finalizes the buffer only grows and compaction takes the same number off both |
| `report` | how the `Update` of the last call is made: `reset`, no pending block, committed blocks from `mark` on |
| `doc`, `closed` | history: the document, and whether `finalize` committed its rest |

`AppendChunk` is `append_core` up to the loop (with `append_to_lines`, footnote detection
and the switch to a single block), `ProcessLine` one round of the loop
(`process_line` with `is_new_block_boundary` and `update_mode_with_line`),
`FinishAppend` the unfinished last line and compaction, `IndexFault` an index
out of range, which stops the thread. `Finalize` and `FinalizeNothingNew` are
`finalize`, `Reset` is `reset`, `AppendNothing` is `append("")`.
A chunk is given by the lines it touches, and a kept-back carriage return becomes
a newline in front of it; `TextIntake` is about how chunks become lines.

`TextIntake` is the same calls at the level of characters, each with its
width in bytes. `rest` and `out` are the iterator and the result of
`normalize_newlines_cow`, `table` is `lines` (where each starts and ends, and if by a newline),
`scan` the index `i` of the two loops that look for newlines, `tail` is
`footnote_scan_tail` and `finalLen` `last_finalized_buffer_len`. One round of a
loop is one action (`Normalize`, `ScanChar`), so the invariants hold in the
middle of a scan, too. Which line a block starts at is left open: `Split` takes any line from the
current start on, which includes what the splitter of `BlockStream` does. `input` and
`dropped` are history fields: what was received, and what compaction removed.

`Terminator` extends it with `terminate_markdown`, one operator per function
of `pending/terminator.rs`. Loops over the bytes are sets of positions; two of them, in which one
character decides how the next is read (`InMath`, `DollarPairs`), are recursive functions. A
URL that the code puts in is one symbol. `MCTextIntake` gives the alphabets: text with `\n` and `\r`, with footnotes
and a two byte character, and with the markers of one or two repairs.

`PendingDisplay` is the cache of the display. A display is what it was made
from: the text and kind given to the terminator, or the text of a code fence
and its closing suffix. `ShownOwned` is what `append` does at its end
(`current_pending_block`), `ShownRef` what `append_ref` does
(`ensure_current_pending_display`), `Grow` is
`try_incremental_pending_display_append` and `Kept` the places where a commit or a
compaction drops it. `resumed` is a history variable: the line that the last chunk went on
with, if it had a beginning already. A fence that such a line opens may be displayed with the
length it had before (`late_fence`).

`BlockStreamProperties` states the properties, `MCBlockStream` gives literal
lines (`"***"`, `"|-|"`, `"- x"`, ...) with the predicates that hold of them, and
families of lines that are mixed in one document. `StableGrowth`, `PlainBlanks` and
`NoTables` are the hypotheses of `ChunkingInvariance` on these texts. Its
`ChunkingAssumption` lets TLC check that the instances of the passing runs satisfy
them (that of `unstable_line`, which allows every growth, does not); `DisplayAssumption` and
`DefinitionAssumption` of `MCReferenceSync` say the like of `DisplayIsFresh` and `ParsedIsFresh`.

`BlockScanners` is what `Enter`, `Scan` and `Shut` stand for: the code fence and
`$$` of `stream.rs`, the tag stack of `stream/html.rs`, and the fence, tag and
container plugins of `boundary.rs` with the fields each keeps. A line is the
sequence of the items a scanner looks for in it (a run of marker characters, a
tag, `<!--`, `-->`, `$$`, anything else). `MCBlockStream` gives the items of its lines
and a stream with one plugin of each type. A plugin is started afresh with
each block: `start` of the three assigns every field it keeps. `TagsBalance` and
`PluginComplete` say where such a block should end without any of this state: they look at all
of its lines at once, pair up tags and count markers.

`DocumentSync` puts a first-in first-out queue of updates and a `DocumentState`
behind the stream. A call is `append` or `append_ref` (whose caller makes an owned
update of what it gets); which of the computations of the pending block runs
depends on the display cache.

`ReferenceSync` extends it with reference definitions: `index` is
`reference_usage_index`, `flagged` is `ctx.invalidated` while a call runs,
`invalidations` the field `invalidated` of each queued update, and `adapter` a
`PulldownAdapter`, which is given each update when the `DocumentState` is. A
parse is what its result depends on: the text, and the definition of each
label that the text uses. `Uses` and `Defines` give the labels of a line.

`AnalyzedStream` extends it once more: the owned updates also go to the four
built-in analyzers in combination, `committedMeta` is `committed_meta`, and
`pendingMeta` the last `pending_meta`. The analyzers read the items of
`BlockScanners` in the text of the block, as the code does with `syntax.rs`, and never the payload of the
splitter. In half of the behaviours `wrapped` is false and the application calls `MdStream` itself,
with `append_ref` too. Which line ends a fence, and the number of `$$` in a line, are one operator
for both sides (the code has each twice), so `HintsRight` compares how the lines of a block
are put together. `MCReferenceSync` instantiates it.

`Delivery` is the promise of the Tokio helpers: what the producer's side accepted
arrives once each and in order, and all of it while the other side is there.
`DeltaPipeline` is sender, channel and receiver: what happens between two
awaits is one action. `StartRecv`, `ReceiveFirst`, `Receive`, `FlushNow`,
`Timeout` and `RecvClosed` are the pieces of one `recv_with_meta`, `CancelRecv`
drops its future at an await as the `select!` of `agent_tui.rs` does, `Flush`
and `SendBlock` begin a `tx.send(..).await` that `CompleteSend` or `FailSend`
ends. A delta is empty or one numbered piece of one byte. `StreamActor` composes the pipeline with
the actor's loop (`AwaitChunk`, `SendUpdate`, `SendUpdateFails`) and the
application's end of the second channel. Both implement `Delivery` under a
refinement mapping: `open` is `receiverOpen`, respectively `uiOpen`, and
`delivered` what `recv` returned, respectively what the application has taken.

Definitions under a comment "Faulty variant" are plausible bugs of the
definition that follows them; they are in no specification and serve to show
that each property can fail.

## 4. Runs

| Run | Question | Bounds |
|---|---|---|
| `documents` | Whatever the chunking: nothing lost (`NothingLost`), the blocks depend on the text only (`ChunkingInvariance`), mode of the first line (`ModeOfFirstLine`), fences, HTML and math blocks end at the line that the scan of their text from its first line completes (`EndsWhereItCloses`), ids (`IdsIncrease`) | every document of up to 4 lines over six families of 6 to 8 line texts (containers; fences and math; HTML; plugins; tables; footnotes, which switch to a single block), every chunking into up to 3 lines, with and without a trailing `\r` |
| `compaction` | Blocks, ids and text the same with a tiny buffer; the assertion of compaction holds; `IInv` is invariant. An HTML block ends with the first line that leaves no tag and no comment open (`HtmlEndsBalanced`), a plugin's block with the first line that closes it, its opening line counted once (`PluginEndsAtMarker`), also when the lines are renumbered while the block is read | 5 lines of one of six families (containers of Markdown; tags of two names; comments; void tags; containers of plugins; fence and tag plugins), 3 bytes: almost every call compacts |
| `footnotes` | A committed block never changes without `reset` in the update, even for a caller that goes on after `finalize` | 3 lines; includes the calls that stop at an index out of range, where the run ends |
| `reference_sync` | A consumer up to two updates late ends with the stream's blocks (`UpdatesSuffice`, `CacheKeysDistinct`); its adapter holds each of them parsed with every definition of the document (`ParsedIsFresh`), and no update names a block it does not know (`FlaggedIsKnown`); the display is that of the pending block however it was made, with the fence that closes it (`DisplayIsFresh`); metadata is that of the committed blocks and hints agree with the scanner (`MetaOfCommitted`, `HintsRight`) | 4 lines of one of five families: a use before and after two definitions of one label; fences with an info string; fences of two lengths, math, tags, each with a footnote; queue of 2, single block mode and resets |
| `intake` | The lines tile the buffer in the middle of every scan (`ScanInv`); newlines and footnotes do not depend on the cuts (`TextIsNormal`, `FootnoteSeen`); `finalize` skips nothing (`FinalizeSkipsNothing`); the display loses no text (`TextIsKept`) and leaves nothing open (`NothingLeftOpen`) | 7 characters in chunks of up to 3 (three alphabets), or 6 markers (twelve alphabets); footnote window of 4 bytes, identifiers of 2, buffer limit of 3, display window of 6 |
| `pipeline` | Accepted text stays in place and in order, delivered whole, in time; both sides learn of the end | 3 deltas, channel of 1, three policies with changes, `recv` dropped at any await, one change of options, delay of 2 ticks |
| `actor` | The same through two channels, final update last, producer released | 4 deltas, both channels of 1 |

Why the bounds are enough: a block decision of `stream.rs` looks at the current
line, the one before it and the mode, so four lines give an opening line, two that
decide, and one after; the fifth line in `compaction` gives a second
compaction after a rebased block, and two openings, two ends and a line to
follow them. In the pipeline one piece can be in each
place (channel, `buf`, waiting send, `local_buf`) at once; with 4 deltas the
actor fills `out`, `held`, `buf` and `channel` and blocks the producer. Text
limits of 2 and 3 bytes make every reason to flush happen. In `intake` a
footnote of 5 bytes is longer than the window of 4, which is as narrow as the code's window
is for its identifiers (`MAX_TAIL >= MAX_ID_LEN + 2`), so a cut at every place of
it, and a character of two bytes at the edge, happen; six markers hold two pairs of two with text,
and the window of six bytes is passed by a document of seven characters.

`documents` and `compaction` are separate runs because together they meet the
delimiter row described below under the divergences.

Violation runs, each a disagreement of code and text:

* `unstable_line` (`ChunkingInvariance`): `***` at the end of a chunk commits
  the paragraph above although the line may go on as `***b`, which would have continued it.
  So the families of `documents` grow lines only in ways that keep what their
  beginning decided; the invariance shown there is relative to that.
* `table_header` (`TableStartsAtHeader`): the header row of a table stays in the
  paragraph before it, contrary to the comment in `is_new_block_boundary`.
* `capped_footnotes` (`NothingLost`): with `max_buffer_bytes`, the switch to a
  single block drops blocks whose text compaction has already removed.
* `fenced_definition` (`ParsedIsFresh`): a line of code that looks like a
  definition becomes one for the blocks that the adapter parses after it, and
  not for those before. No document of `reference_sync` has both, and what is proved of
  `ParsedIsFresh` is relative to that (`FencesDefineNothing`).
* `late_fence` (`DisplayCloses`): when an unfinished line opens a code fence at the tail
  (`stream.rs:702`), the mode keeps the number of markers seen so far; if the line then grows
  (three markers, then a fourth), `append_ref` closes the display with a suffix of the old length,
  which does not close it (`stream.rs:1025`). `tests/update_ref.rs:24` says "display must end with a
  closing fence". The mode is computed again once the line is complete, and the suffix with the chunk
  after that, so `DisplayIsFresh` allows another fence only in the calls whose chunk went on with that line.

Divergences seen in the code and not given a run of their own: compaction can cut before the
delimiter row of a table, which is then line 0 and, having no line before it, starts no
table (`stream.rs:884`, needs a table document and a limit), so the blocks depend on where the chunks
were cut; a block appended after `finalize` can get the id of the block `finalize`
committed, when a compaction makes the stream usable again (`stream.rs:1346`), and without one its
line index is out of range (the run `footnotes` includes such callers, the others assume that
they reset first); `max_buffer_bytes`
does not bound the buffer while one block is pending (`compaction.rs:28`,
"hard cap" in `options.rs:29`); under `CoalesceLocal` with a full channel
`local_buf` grows with every send (`tokio:201`), though `tokio:109` says that "memory is bounded by
`local_max_bytes`"; after `"A\r"` an empty chunk emits the newline, and a
`"\n"` in the next chunk is then a second one (`lines.rs:75`; `docs/MVP.md:102` and
`docs/ARCHITECTURE.md:75` ask for a normalization without exception), so `intake` has no empty
chunks after a carriage return (`EmptyChunks`); after `finalize` of a single block
`snapshot_blocks` shows the text twice under id 1 (`stream.rs:461`);
`merged_messages` counts only the messages of the last `recv` call when earlier ones were
dropped (`tokio:286`), so `MergedCounted` is checked where nobody drops them,
in `actor`; a `CoalesceLocal` sender that is dropped without `flush` loses
`local_buf`, and one that changes its policy without `flush` may deliver out of
order (`tokio:155`); `append("")` while no line of the block is complete returns
kind `Unknown` for a block that was a paragraph (`stream.rs:1140`), which
`UpdatesSuffice` allows; a comment that ends on its own line is not entered and
the tags in it are pushed, so `<!-- <p> -->` opens a block that `</p>` must
end (`stream/html.rs:118`); `see [ref]: text` is a use of `ref` for a parser and none for
`extract_reference_usages` (`stream/refs.rs:40`), though its comment says it over-approximates; a
code fence that is nothing but its opening line counts as closed
for the hints, because that line is also the last one with text (`analyze.rs:269`, the comment at
`stream.rs:839` sees the difference), so `HintsRight` is about later lines;
the terminator closes emphasis of several kinds in a fixed order and not in that of
their opening (`*_x` becomes `*_x*_`), runs no repair after it has completed a link
(`terminator.rs:963`), may cut a marker in two at the edge of its window, and
leaves a code block of one line alone (`InOpenBlock` asks for a newline), so
`NothingLeftOpen` is about text of one kind of marker, and about code and mathematics
where no three backticks come together: without that condition TLC finds counterexamples, such as
seven backticks and a letter. `**` in a rule, and `**` that starts a list
item followed by another line, are left open on purpose (`terminator.rs:532` and `538`), which the
property says. An image that is not complete, and the URL of a link that is not, are taken
away with the text behind them; `TextIsKept` names them as what may be lost. It needs a
window of two bytes (`opts.window_bytes`; the default is 16 KiB): with one byte, two spaces at the
end are read as a single one and one of them is dropped.

## 5. Fairness

`BlockStream`, `TextIntake`, `DocumentSync`, `ReferenceSync` and `AnalyzedStream` have none and no liveness property: calls come
when the caller makes them.

`DeltaPipeline`: weak fairness of `CompleteSend` and `FailSend` (Tokio wakes a
waiting sender), of `StartRecv` and `FlushNow` (the consumer calls `recv` again
and its task runs), of `Tick` (time passes), and of `Flush` (a producer flushes
what it has buffered, as the end of a stream in `agent_tui.rs` does; without it
text below `local_max_bytes` stays in `local_buf`, as the code intends). `ReceiveFirst`, `Receive`,
`Timeout` and `RecvClosed` have strong fairness because the consumer may drop
the future and call again: each new future polls the channel and the timer
before it can be dropped, so an event that is ready again and again is taken.
No fairness is assumed for sends, drops or changes of options. A consumer that
changes its options more often than `max_delay` does hold text back for ever
(`set_options` starts the deadline again); `MaxChanges` excludes it.
Time passes only while a deadline runs, and a call that is due returns before
more time passes: `FlushedInTime` is about the deadline the code keeps, not about scheduling
delays.

`StreamActor`: weak fairness of each step of the task, and of `TakeUpdate` for
an application that keeps its receiver. An application that keeps it and never
reads blocks the producer; that is back pressure, as intended.

## 6. Proofs

Every theorem is for all values of the constants that meet their assumptions: every set of line texts,
classification, payload automaton, alphabet, capacity and bound, documents and
queues of any length. These assumptions about callers, documents and options occur:

* `ResetAfterFinalize`: the caller resets before it appends after a finalize;
  ids can be used twice and an index be out of range otherwise, see the divergences.
* `SingleBlock => MaxBufferBytes = {}`: a stream in single block mode has no
  buffer limit; see `capped_footnotes`.
* `FlushesFirst`, for producers: they flush before they change the policy or
  leave; see the divergences.
* `~EmptyChunks`, for `TextStaysNormal` only: nobody appends an empty chunk
  while a carriage return is kept back; see the divergences.
* `[]FencesDefineNothing`, for `ParsedStaysFresh` only: no committed line of fenced code
  looks like a definition; `fenced_definition` shows what happens otherwise.
* `ScannersAgree` and `FilledStaysFilled`, for `HintsStayRight` only: the splitter reads fences and
  formulas as `BlockScanners` does, and a line with text stays one when it grows. They tie the
  constants to the code; TLC checks them for the lines of `reference_sync`.
* `WindowBytes >= 2`, for `TextStaysKept`, and `Repairs = AllRepairs` (the default), for
  `NothingStaysOpen`; see the divergences.

Theorems marked * below assume the first two.

`BlockStreamProofs`: where every line is.

| Theorem | |
|---|---|
| `StreamInvariant` * | `Spec => []IInv` |
| `NoLineIsLost` * | `Spec => []NothingLost` |
| `CommittedTextIsQuoted` * | `Spec => []CommittedText` |
| `BufferIsKept` * | `Spec => []BufferIsRest` |
| `BlockIdsIncrease` * | `Spec => []IdsIncrease` |
| `CursorStaysInRange` * | `Spec => []CursorInRange` |

None of the properties is inductive. That nothing is lost needs that
the cursor stands at or before the scanned lines and the buffer is the rest of
the document; that committed text is quoted after compaction needs that line numbers were
rebased by the same amount. `IInv` collects this: `Sound(ls, d, c, n)` says
what holds of a cursor over a buffer of a document, `OpenInv` requires it while
the document is open and split into blocks, `SingleInv` and `ClosedInv` describe the
other two situations.

The argument follows the code. `CommittedSound` shows that committing a block keeps a
cursor sound, `ProcessSound` that scanning a line does, `TailBoundarySound`
the unfinished line; `ExtendSound` that a longer document keeps the blocks,
because only the last, uncommitted line changes; `CompactSound` that rebasing
does. Then there is one lemma per action (`AppendChunkKeeps`,
`ProcessLineKeeps`, `FinishAppendKeeps`, `FinalizeKeeps`, ...), `NoFault` shows
that `IndexFault` is never enabled, and `NextKeeps` puts them together.

The second half of `BlockStreamProofs`: what a block is.

| Theorem | |
|---|---|
| `TypeCorrect` | `Spec => []TypeOK`, for every caller, also after an index was out of range |
| `CommittedIsStable` | `Spec => CommittedStable`, for every caller |
| `ModeIsOfFirstLine` * | `Spec => []ModeOfFirstLine` |
| `BlocksEndWhereTheyClose` * | `Spec => []EndsWhereItCloses` |
| `SnapshotIdsAreDistinct` * | `Spec => []((closed /\ SingleMode) \/ SnapshotIdsDistinct)`: after the finalize of a single block a snapshot shows the document twice |

`KeepsStep` shows of every action that it keeps types and either keeps the committed
blocks as a prefix or is one of the two that drop them. `SplitSteps` says once
and for all what a step of an open document does to the cursor: nothing, one line scanned, a
block committed at the tail, or a rebase by compaction; what `ModeInv` and `EndsInv`
say of a cursor is shown for each of them. `EndsInv` says of every committed block that
`EndsRight` holds, and of the pending one (`ReadSoFar`, `FenceOpen`) that its payload is that of its
scanned lines and that none of them completed it.

`ChunkingProofs`: chunking cannot be seen.

| Theorem | |
|---|---|
| `BlocksDoNotDependOnChunks` * | `Spec => []ChunkingInvariance`, if `StableGrowth`, `PlainBlanks`, and `NoTables` for a stream with a limit |

`StableGrowth` says that when the unfinished last line is a boundary, so is whatever the
line can become; `unstable_line` shows that this is needed (`***` grows to `***b`).
`PlainBlanks` says that blank lines start nothing, which is so of every line predicate of
`syntax.rs`; it is needed because what is kept
from a blank unfinished line is nothing. `NoTables` excludes the delimiter row that compaction
makes line 0.

`ChunkingInvariance` compares with the scan of the whole text from its first
line, a recursive function of the number of lines. The invariant `ChunkInv`
relates the cursor to that scan: `Matches` says that it equals the scan of the
same lines, rebased; or that its block starts at the line to be scanned next, when only the mode may
differ (`Agree`), or the unfinished line has split the text and the cursor is one boundary
ahead (`Ahead`). Between calls no boundary is left to take (`Settled`). A chunk extends the document behind
what was scanned, so the scan of the beginning is that of the old document; that it
keeps the boundary taken ahead is `StableGrowth`. That the
recursive function has a solution, and the induction over lines, come from
`Induction`: `NatInductive` is induction over the naturals in terms of sets, derived
from the induction over finite subsets in the library.

`TextIntakeProofs` proves, for every alphabet, width of characters and limit:

| Theorem | |
|---|---|
| `ScanInvHolds` | `Spec => []ScanInv` |
| `LinesTileHolds` | `Spec => []LinesTile`: between calls the table of lines is that of the buffer |
| `TextStaysNormal` | if `~EmptyChunks`: `Spec => []TextIsNormal` |
| `FinalizeNeverSkips` | `Spec => []FinalizeSkipsNothing` |
| `FootnotesAreSeen` | `Spec => []FootnoteSeen` |

`LinesTile` speaks of calls that have ended; `ScanInv` says that in the middle of a
scan the lines tile what was scanned (`Tiles(table, buffer, scan)`), with the
last one open to the end of the buffer. `ExtendTiles` shows that appending text behind the scan keeps
that, `PlainCharTiles` and `NewlineTiles` are the two cases of the loop, `OneLineTiles`
is the table that a rebuild and a reset start from, and `NextScan` goes through the
actions.

`TextIsNormal` compares with the normal form of all of the input. `TextInv` says it
of every moment of a call: what was dropped, the buffer and the result so far are
the normal form of what was read (`InNormalForm`), which is the input without the rest
of the chunk and without a carriage return kept back. The normal form is a recursive
function; what is needed of it is what one more character, and a line
feed after a carriage return, do to it.

`FinalizeSkipsNothing` is about two byte lengths that could agree by chance.
`LengthInv` says that they cannot: the length remembered at a finalize lies within the
committed part of the buffer, which compaction shortens by as much, and a single
block, which commits nothing, has grown since.

`FootnoteSeen` is about a search in the last `MaxTail` bytes and the chunk. `FootnoteInv`
is a statement about the future: whatever text comes, there is a footnote in all of
the text exactly if there is one in the tail with it (`SameAhead`). A footnote that
begins before the tail would not fit into the window (`FootnoteFits`, `SuffixForesees`);
this is where the code's `MAX_TAIL` must be at least two more than `MAX_ID_LEN`
(`WindowAssumption`), and where the brackets are one byte each
(`CharAssumption`). A newline that finalize makes of a carriage return kept
back passes the tail by; it separates the text before from a blank rest, so no footnote
spans it (`FootnoteAfterBlank`).

`PipelineProofs` proves, for every capacity, limit, delay, policy and number of
deltas:

| Theorem | |
|---|---|
| `TypeHolds` | `PipelineSpec => []PipelineTypeOK`, with the channel within its capacity |
| `FlushedInTimeHolds` | `PipelineSpec => []FlushedInTime`, also with dropped futures and new options |
| `MergedCountedHolds` | if no future is dropped (`~Cancels`): `[]MergedCounted` |
| `AllInPlaceHolds` | if producers flush first (`FlushesFirst`): `[]AllInPlace` |
| `EndsCompleteHolds` | the same: `[]EndsComplete` |
| `PipelineDelivers` | the same: `PipelineSpec` implies `Init /\ [][Next]_dvars` of `Delivery` under the refinement mapping |

Both assumptions are necessary, see the divergences. `AllInPlace` says that the
accepted text falls into consecutive parts: what was delivered or gathered, each message
of the channel, and what the sender still holds, by the ends of these parts. It is inductive only together with
`SidesInv`: `local_buf` is empty unless the policy is `CoalesceLocal` (else a `Block` send
overtakes it), and a call that has seen the end found the channel
and the buffer empty. The lemmas about the places are stated without the
pipeline: text is added at the end (`PlacesGrow`), what is left becomes a
message (`PlacesPut`), a message is taken (`PlacesTake`). `EndsComplete` follows
because at the end every place but the first is empty. The
refinement needs one more invariant, `OneDelta`: `Accept` of `Delivery` takes one piece
at a time, and `send_block` waits with one delta. The liveness part of `Delivery` is
checked in `pipeline` (`InOrderDelivery`).

The second half of `PipelineProofs`: the same through the actor's two channels.

| Theorem | |
|---|---|
| `ActorTypeHolds` | `ActorSpec => []ActorTypeOK` |
| `ActorCounts` | `ActorSpec => []MergedCounted`: the actor drops no `recv` future, so the condition `~Cancels` is not needed |
| `FinalMeansAllHolds` | if `FlushesFirst`: `ActorSpec => []FinalMeansAll` |
| `ActorDelivers` | the same: `ActorSpec` implies `Init /\ [][Next]_dvars` of `Delivery`, from the producer to the application |

`ActorIsPipeline` shows that every step of the actor is a step of the pipeline or leaves it alone, so the
invariants of `PipelineProofs` hold in it. `TaskInv` adds the second half of the way: what the application
was told, followed by what is in the second channel and in `held`, is what
the pipeline has delivered (`ShownInPlace`); the final update is the last one
(`FinalIsLast`) and is made when the pipeline has answered None (`DoneIsAll`), and once it is out there is nothing
on the way (`FinishedIsAll`). `ActorStepDelivers` is then the refinement, step by step.

`SyncProofs`: a consumer that is late.

| Theorem | |
|---|---|
| `SyncTypeHolds` | `SyncSpec => []SyncTypeOK`, for every caller |
| `UpdatesAreEnough` | `SyncSpec => []UpdatesSuffice`, for every caller |
| `CacheKeysAreDistinct` * | `SyncSpec => []CacheKeysDistinct` |
| `DisplayStaysFresh` * | `SyncSpec => []DisplayIsFresh`, if `StableFences` and `PlainBlanks` |

`SyncIsStream` makes every step a step of `BlockStream` or a stutter, so its theorems
carry over. `UpdatesSuffice` is about applying all queued updates, which is a recursive
function; `IsAfter` says when a function from positions of the queue to views is that
computation, and the lemmas show what adding an update at the end and applying the
first one do to it. The invariant `UpdatesInv` says that a view to which all of them are
applied is in step with the stream: between calls it has its committed blocks and its pending one, and during a
call the committed blocks up to the mark from which the update of this call will go on (`Ready`).
`KeysInv` adds, for every view on the way to the present, that its ids are
distinct. `DisplayInv` says what the cache is: during a call nothing, or a code fence extended
with the lines that came (`FenceShown`), and between calls, where the pending block is not blank, made from
its text and kind (`Right`). It needs `FenceInv`: a block in a code fence begins with a line that
starts one, also when its mode was guessed from an unfinished line, which is what `StableFences` is for.
That the display ends with the right fence
(`ClosesInv`) needs more: the payload of the mode is that of the first line as it is now, or the last chunk
went on with that line (`InnerInv`). For a block whose first line is scanned this is `EndsInv`; `OpeningInv` says it
of a block that the unfinished line has opened. The history variable `resumed` is there for this: a
state does not show which line the last chunk wrote on.

`ReferenceProofs`: late definitions, and metadata.

| Theorem | |
|---|---|
| `FlaggedStaysKnown` | `ReferenceSpec => []FlaggedIsKnown`, for every caller |
| `ParsedStaysFresh` * | if `Invalidates` and `StableFences`: `ReferenceSpec /\ []FencesDefineNothing => []ParsedIsFresh` |
| `AnalyzedIsReference` | `AnalyzedSpec => ReferenceSpec`: the theorems about a consumer hold of an application that analyzes |
| `MetaStaysOfCommitted` | `AnalyzedSpec => []MetaOfCommitted`, for every caller |
| `HintsStayRight` * | if `PlainBlanks`, `FilledStaysFilled` and `ScannersAgree`: `AnalyzedSpec => []HintsRight` |

Sender and receiver of an invalidation never meet: the stream knows which labels blocks
use, the adapter which definitions it had when it parsed. `Announced` is the contract between
them: the ids of an update are blocks of the view after it, and among them is every block
whose labels are defined in a later block of this update. `IndexInv` says that the stream can keep it, the
index having the users of every label among the committed blocks, and `NamedInv` that every update
under way does; a switch to a single block, which empties the index in the middle
of a call, is where `IndexInv` starts again from nothing (`PushedIs`). On the other side
`Fresh(a, bs, D, m, n)` says of an adapter in the middle of an update that it has the first `n`
blocks, and that each was parsed with the definitions `D[p]` of the first `p`, for some `p` that is not
before the block nor before the `m` blocks of earlier updates. The update adds its blocks
(`FreshAddAll`), after which a block that is not named uses no label defined since (`UnnamedIsFresh`), and
one that is named is parsed again (`FreshAgain`). This needs distinct ids (`KeysInv` of `SyncProofs`: an
entry by id is an entry of one block), and that stream and parser agree what is
fenced code: the stream asks the kind of the block, the parser the text. `KindInv` says that
a committed block of that kind begins with a fence, and is where `StableFences` is used.

`MetaInv` relates the metadata not to the stream but to the view that the updates sent so
far leave, which `UpdatesInv` says is in step with the stream; then each update is one
insertion (`MetasConcat`), and what happens during a call plays no part. What an analyzer
finds in a block (`Meta`) is not looked into there.

`HintsRight` is about two readers of one text. The splitter keeps a payload from line to line; the hints
are computed again from all lines of the block, with rules of their own. `FenceHintRight` and
`SplitHints` say that they agree on a block whose payload is that of its lines (`EndsInv`), because a fence is
closed for both by the same line and the number of `$$` is odd for both. Two more things can
come between them: `append` returns the pending block with the unfinished line, of which the splitter
knows nothing yet, and the kind is that of the mode, which may have been guessed from that line. `PendingMetaInv`
says that what the analyzers last saw is what the stream returned, and `BeginsIn` that a block in math
mode has a line with text.

`TerminatorProofs`: what is shown of the pending text.

| Theorem | |
|---|---|
| `TextStaysKept` | if `WindowBytes >= 2`: `Spec => []TextIsKept`, for every choice of repairs |
| `NothingStaysOpen` | if `Repairs = AllRepairs`: `Spec => []NothingLeftOpen`, for every window |

Both are about one text at a time, so the work is in the operators; that the pending text is a text
comes from `ScanInv`. They go by the order of the repairs.

`TextIsKept`: `Kept(w, m, d)` says that `d` is the first `m` characters of the window
and then markers, `KeptAround` the same with one underscore put in before the end of the line or before closing
asterisks. Each repair but the underscore adds a string of markers at the end or nothing
(`RepairsClose`), which keeps both (`GoodWithMarks`); the underscore turns the first into the second
(`PutInKept`), and is the last that may, which is why one underscore suffices. A link or
image that is cut decides `m` (`LinkKept`), and is looked for in the text after
`ProtectSetext` has put a character behind it that is neither bracket nor marker (`Protected`). The lemmas `...InWhole`
carry it from the window to the text: what is not closed in the window is not closed in the text.

`NothingLeftOpen`: a repair decides by what it counts, adds a marker, and the next repair counts in a
text that has it. A text that ends with a letter gets its markers behind that letter, so `Extends(w, t, M)`, that
`t` is `w` and then characters of `M`, describes every stage (`EmphasisExtends`). A count of the text `w` is then the
count of `t` if `M` has none of its characters (`TicksStay`, `StillWithout`), and one more if the repair
added one. For code and mathematics all stages occur (`CodeAndMathClosed`): the number
of backticks becomes even (`CodeCloses`); the reading of `$$`, a recursive function whose state is inside or
outside of code by the parity of the backticks (`CodeParity`), goes on as before and sees one pair more
(`PairAdded`). For emphasis of one kind all repairs but one are idle (`Idle`): pairs stand apart
(`Paired`, `PairsApart`), so that they are never read as single markers or as three; single ones
stand alone (`Isolated`), and one more behind the text counts, while what the others are, which depends
on the characters around them, on the line before them and on a URL they may be in, stays the same (`AsteriskBehind`,
`UnderscoreBehind`). `NoSetext` and `TailClosed` show that what comes before the repairs
leaves such a window alone. The window may be empty, when the last letter does not fit (`EmptyClosed`).

Only model-checked: all liveness (`InOrderDelivery` and the like) and whatever needs ENABLED, which are out of
the prover's reach; and `HtmlEndsBalanced` and `PluginEndsAtMarker`, which compare two definitions by
recursion over a text: their proofs would be inductions over the lines of every block. The safety
half of both refinements is proved. Where a proof
must know what a recursive function computes for every input, the induction is over a set of naturals
(`NatInductive` of `Induction`) or is an invariant over the steps of the system (`IsAfter`), since the theorems of
the library that take the statement as an operator cannot be used.

## 7. Not modelled

The recognition of a line's kind, of tags and of labels by their characters
(constants `Is`, `Uses`, `Defines`, `Found`); transformers of the display, and the
display in `snapshot_blocks`; tabs, escapes other than in emphasis and math, and
letters that are no word characters for one repair and are for another; attributes,
allowed tags, the class of a language, and the hint that the display differs; `inner_mut` of `AnalyzedStream`;
`FnBoundaryPlugin` and options of plugins other than
those of the constructors; `parse_pending`, which changes nothing; the statistics
of the receiver other than the merged count; futures of
`send` and `flush` dropped half way (no caller in the repository does that);
scheduling delays; memory. The plan says which of these come next. Benches,
fuzz targets and examples are programs that use the library.
