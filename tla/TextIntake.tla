----------------------------- MODULE TextIntake -----------------------------
(***************************************************************************)
(* How chunks become lines: newline normalization and the table of lines   *)
(* (mdstream/src/stream/lines.rs), the search for footnotes across chunks  *)
(* (footnotes.rs and append_core), the renumbering by compaction           *)
(* (compaction.rs), and what finalize does with a kept carriage return.    *)
(* BlockStream starts where this module ends: with lines.                  *)
(*                                                                         *)
(* Text is a sequence of characters, of one or more bytes each, and an     *)
(* offset counts characters.  The loops of the source are steps: one for   *)
(* each character that is normalized, one for each that is scanned for a   *)
(* newline.  Where the current block starts is up to the splitter, which   *)
(* moves it forward by any number of lines here.                           *)
(***************************************************************************)
EXTENDS Integers, Sequences, Functions

CONSTANTS
  Char,              \* the characters, "LF" and "CR" among them
  Bytes,             \* Bytes[c]: the length of c in UTF-8
  MaxTail,           \* MAX_TAIL: bytes of text searched together with a chunk
  MaxIdLen,          \* MAX_ID_LEN: bytes of a footnote identifier
  SingleBlock,       \* opts.footnotes = FootnotesMode::SingleBlock
  MaxBufferBytes,    \* opts.max_buffer_bytes, as a set: {} is None
  EmptyChunks,       \* whether empty chunks follow a carriage return
  MaxInput,          \* bound on the characters of a document
  MaxChunk           \* bound on the characters of a chunk

ASSUME CharAssumption ==
  /\ {"LF", "CR", "[", "^", "]"} \subseteq Char
  /\ Bytes \in [Char -> Nat \ {0}]
  /\ \A c \in {"[", "^", "]"} : Bytes[c] = 1

ASSUME WindowAssumption ==
  /\ MaxIdLen \in Nat \ {0}
  /\ MaxTail \in Nat
  /\ MaxTail >= MaxIdLen + 2

ASSUME IntakeAssumption ==
  /\ SingleBlock \in BOOLEAN
  /\ EmptyChunks \in BOOLEAN
  /\ MaxBufferBytes \subseteq Nat
  /\ MaxInput \in Nat
  /\ MaxChunk \in Nat

VARIABLES
  pc,         \* "idle", or the loop that is running
  rest,       \* normalize_newlines_cow: the characters not read yet,
  out,        \*   and its result so far
  pendingCr,  \* pending_cr
  buffer,     \* buffer
  table,      \* lines: where each one starts and ends, and if by a newline
  scan,       \* append_to_lines, rebuild_lines_from_buffer: the offset i
  start,      \* current_block_start_line
  detected,   \* footnotes_detected
  tail,       \* footnote_scan_tail
  finalLen,   \* last_finalized_buffer_len
  input,      \* history: every character since the last reset
  dropped,    \* history: what compaction removed
  closed      \* history: finalize committed the rest of the document

vars == <<pc, rest, out, pendingCr, buffer, table, scan, start, detected,
          tail, finalLen, input, dropped, closed>>

text == <<buffer, table, scan>>

BytesOf(s) ==
  LET bytes[n \in 0..Len(s)] ==
        IF n = 0 THEN 0 ELSE bytes[n - 1] + Bytes[s[n]]
  IN  bytes[Len(s)]

From(s, n) == SubSeq(s, n + 1, Len(s))

Last(s) == s[Len(s)]

-----------------------------------------------------------------------------
(***************************************************************************)
(* detect_footnotes: [^id], with an identifier of limited length and       *)
(* without a newline or a bracket in it.                                   *)
(***************************************************************************)
IsIdentifier(id) ==
  /\ id # <<>>
  /\ BytesOf(id) <= MaxIdLen
  /\ \A k \in DOMAIN id : id[k] \notin {"LF", "CR", " ", "]"}

HasFootnote(s) ==
  \E i, j \in DOMAIN s :
    /\ i + 1 < j
    /\ s[i] = "[" /\ s[i + 1] = "^" /\ s[j] = "]"
    /\ IsIdentifier(SubSeq(s, i + 2, j - 1))

(***************************************************************************)
(* The longest suffix and the longest prefix of s that fit into the window *)
(* and cut no character.                                                   *)
(***************************************************************************)
TakeSuffix(s) ==
  LET fits == {n \in 0..Len(s) : BytesOf(From(s, n)) <= MaxTail}
  IN  From(s, CHOOSE n \in fits : \A m \in fits : n <= m)

TakePrefix(s) ==
  LET fits == {n \in 0..Len(s) : BytesOf(SubSeq(s, 1, n)) <= MaxTail}
  IN  SubSeq(s, 1, CHOOSE n \in fits : \A m \in fits : m <= n)

Seen(chunk) ==
  \/ HasFootnote(chunk)
  \/ tail # <<>> /\ chunk # <<>> /\ HasFootnote(tail \o TakePrefix(chunk))

\* Faulty variant: a short chunk replaces what was kept.
UpdateTailByChunk(chunk) == IF chunk = <<>> THEN tail ELSE TakeSuffix(chunk)

(***************************************************************************)
(* update_tail: its three cases all keep the end of the text.              *)
(***************************************************************************)
UpdateTail(chunk) == TakeSuffix(tail \o chunk)

-----------------------------------------------------------------------------
LineOf(first, end, newline) ==
  [start |-> first, end |-> end, newline |-> newline]

NewLine(first, end) == LineOf(first, end, FALSE)

Init ==
  /\ pc = "idle"
  /\ rest = <<>> /\ out = <<>> /\ pendingCr = FALSE
  /\ buffer = <<>> /\ table = <<NewLine(0, 0)>> /\ scan = 0
  /\ start = 0
  /\ detected = FALSE /\ tail = <<>>
  /\ finalLen = 0
  /\ input = <<>> /\ dropped = <<>> /\ closed = FALSE

(***************************************************************************)
(* append: nothing for an empty chunk, unless a carriage return is kept.   *)
(* Without a carriage return in the chunk or kept back the source borrows  *)
(* the chunk as it is, which is what the loop below returns.               *)
(***************************************************************************)
Chunk == UNION {[1..n -> Char] : n \in 0..MaxChunk}

AfterCr(chunk) ==
  IF pendingCr /\ chunk # <<>> /\ Head(chunk) = "LF" THEN Tail(chunk)
  ELSE chunk

AppendChunk(chunk) ==
  /\ pc = "idle"
  /\ ~closed    \* the caller resets after a finalize that committed
  /\ chunk # <<>> \/ (pendingCr /\ EmptyChunks)
  /\ Len(input) + Len(chunk) <= MaxInput
  /\ input' = input \o chunk
  /\ rest' = AfterCr(chunk)
  /\ out' = IF pendingCr THEN <<"LF">> ELSE <<>>
  /\ pendingCr' = FALSE
  /\ pc' = "normalize"
  /\ UNCHANGED <<text, start, detected, tail, finalLen, dropped, closed>>

(***************************************************************************)
(* One round of the loop of normalize_newlines_cow.                        *)
(***************************************************************************)
ReadPlain ==
  /\ Head(rest) # "CR"
  /\ out' = Append(out, Head(rest))
  /\ rest' = Tail(rest)
  /\ UNCHANGED pendingCr

ReadPair ==
  /\ Head(rest) = "CR" /\ Tail(rest) # <<>> /\ Head(Tail(rest)) = "LF"
  /\ out' = Append(out, "LF")
  /\ rest' = Tail(Tail(rest))
  /\ UNCHANGED pendingCr

KeepCr ==
  /\ rest = <<"CR">>
  /\ pendingCr' = TRUE
  /\ rest' = <<>>
  /\ UNCHANGED out

ReadLoneCr ==
  /\ Head(rest) = "CR" /\ Tail(rest) # <<>> /\ Head(Tail(rest)) # "LF"
  /\ out' = Append(out, "LF")
  /\ rest' = Tail(rest)
  /\ UNCHANGED pendingCr

Normalize ==
  /\ pc = "normalize"
  /\ rest # <<>>
  /\ ReadPlain \/ ReadPair \/ KeepCr \/ ReadLoneCr
  /\ UNCHANGED <<pc, text, start, detected, tail, finalLen, input, dropped,
                 closed>>

-----------------------------------------------------------------------------
(***************************************************************************)
(* append_core after normalization: the search for footnotes, and the text *)
(* goes into the buffer and into the last line.  A stream that becomes a   *)
(* single block starts again at its first line.                            *)
(***************************************************************************)
ExtendLast(t, end) ==
  [t EXCEPT ![Len(t)] = LineOf(Last(t).start, end, Last(t).newline)]

Receive ==
  /\ pc = "normalize"
  /\ rest = <<>>
  /\ detected' = (detected \/ Seen(out))
  /\ tail' = IF detected' THEN tail ELSE UpdateTail(out)
  /\ buffer' = buffer \o out
  /\ table' = ExtendLast(table, Len(buffer'))
  /\ scan' = Len(buffer)
  /\ IF SingleBlock /\ detected' /\ ~detected
     THEN pc' = "enter" /\ start' = 0
     ELSE pc' = "append" /\ UNCHANGED start
  /\ out' = <<>>
  /\ UNCHANGED <<rest, pendingCr, finalLen, input, dropped, closed>>

(***************************************************************************)
(* The loop of append_to_lines and of rebuild_lines_from_buffer: a newline *)
(* ends the last line and begins the next.                                 *)
(***************************************************************************)
Scanning == pc \notin {"idle", "normalize"} /\ scan < Len(buffer)

BreakLine(t, i) ==
  [t EXCEPT ![Len(t)] = LineOf(Last(t).start, i, TRUE)]
    \o <<NewLine(i + 1, Len(buffer))>>

ScanChar ==
  /\ Scanning
  /\ table' = IF buffer[scan + 1] = "LF" THEN BreakLine(table, scan) ELSE table
  /\ scan' = scan + 1
  /\ UNCHANGED <<pc, rest, out, pendingCr, buffer, start, detected, tail,
                 finalLen, input, dropped, closed>>

Scanned(task) == pc = task /\ scan = Len(buffer)

(***************************************************************************)
(* maybe_compact_buffer with the current block at line first: the text     *)
(* before it goes, and the lines of what is left are found again.          *)
(***************************************************************************)
OffsetOf(line) ==
  IF line < Len(table) THEN table[line + 1].start ELSE Len(buffer)

Compacts(first) ==
  /\ \E max \in MaxBufferBytes : BytesOf(buffer) > max
  /\ ~(SingleBlock /\ detected)
  /\ OffsetOf(first) # 0

\* Faulty variant: the table keeps the offsets that it had.
CompactKeepingTable(first) ==
  IF Compacts(first)
  THEN /\ buffer' = From(buffer, OffsetOf(first))
       /\ dropped' = dropped \o SubSeq(buffer, 1, OffsetOf(first))
       /\ table' = From(table, first) /\ scan' = Len(buffer')
       /\ start' = 0
       /\ pc' = "rebuild"
  ELSE start' = first /\ pc' = "idle" /\ UNCHANGED <<text, dropped>>

Compact(first) ==
  IF Compacts(first)
  THEN /\ buffer' = From(buffer, OffsetOf(first))
       /\ dropped' = dropped \o SubSeq(buffer, 1, OffsetOf(first))
       /\ table' = <<NewLine(0, Len(buffer'))>> /\ scan' = 0
       /\ start' = 0
       /\ pc' = "rebuild"
  ELSE start' = first /\ pc' = "idle" /\ UNCHANGED <<text, dropped>>

\* Faulty variant: compaction does not reduce the length.
KeptLenAsIs(kept) == finalLen

(***************************************************************************)
(* last_finalized_buffer_len, less what compaction removed; saturating_sub.*)
(***************************************************************************)
KeptLen(kept) ==
  LET gone == BytesOf(buffer) - BytesOf(kept)
  IN  IF gone <= finalLen THEN finalLen - gone ELSE 0

(***************************************************************************)
(* The rest of append_core: the splitter commits up to any line that has   *)
(* begun, then the buffer is compacted.                                    *)
(***************************************************************************)
Split ==
  /\ Scanned("append")
  /\ \E first \in start..Len(table) - 1 :
       /\ SingleBlock /\ detected => first = start
       /\ Compact(first)
  /\ finalLen' = KeptLen(buffer')
  /\ UNCHANGED <<rest, out, pendingCr, detected, tail, input, closed>>

Return ==
  /\ Scanned("enter") \/ Scanned("rebuild")
  /\ pc' = "idle"
  /\ UNCHANGED <<rest, out, pendingCr, text, start, detected, tail, finalLen,
                 input, dropped, closed>>

-----------------------------------------------------------------------------
(***************************************************************************)
(* finalize: nothing when the buffer has the length it had at the last     *)
(* one; else a kept carriage return becomes a newline, and the rest is     *)
(* committed unless it is blank.                                           *)
(***************************************************************************)
NothingNew == ~pendingCr /\ BytesOf(buffer) = finalLen

\* Faulty variant: the carriage return that was kept is forgotten.
CrAtEndDropped == <<>>

CrAtEnd == IF pendingCr THEN <<"LF">> ELSE <<>>

(***************************************************************************)
(* A text with every line ending ("\r\n", "\r" or "\n") as one newline.    *)
(***************************************************************************)
NormalText(s) ==
  LET normal[n \in 0..Len(s)] ==
        IF n = 0 THEN <<>>
        ELSE IF n > 1 /\ s[n - 1] = "CR" /\ s[n] = "LF" THEN normal[n - 1]
        ELSE Append(normal[n - 1], IF s[n] = "CR" THEN "LF" ELSE s[n])
  IN  normal[Len(s)]

CloseInput ==
  IF pendingCr THEN NormalText(SubSeq(input, 1, Len(input) - 1)) \o <<"LF">>
  ELSE input

Finalize ==
  /\ pc = "idle"
  /\ ~NothingNew
  /\ buffer' = buffer \o CrAtEnd
  /\ table' = ExtendLast(table, Len(buffer'))
  /\ scan' = Len(buffer)
  /\ input' = CloseInput
  /\ pendingCr' = FALSE
  /\ pc' = "finalize"
  /\ UNCHANGED <<rest, out, start, detected, tail, finalLen, dropped, closed>>

BlankText(s) == \A k \in DOMAIN s : s[k] \in {"LF", " "}

Pending == From(buffer, OffsetOf(start))

FinalizeBlank ==
  /\ Scanned("finalize")
  /\ Pending # <<>> /\ BlankText(Pending)
  /\ pc' = "idle"
  /\ UNCHANGED <<rest, out, pendingCr, text, start, detected, tail, finalLen,
                 input, dropped, closed>>

(***************************************************************************)
(* A single block is committed and stays where it is.                      *)
(***************************************************************************)
CommitPending ==
  /\ Scanned("finalize")
  /\ Pending = <<>> \/ ~BlankText(Pending)
  /\ closed' = (closed \/ Pending # <<>>)
  /\ Compact(IF Pending = <<>> \/ (SingleBlock /\ detected) THEN start
             ELSE Len(table))
  /\ finalLen' = BytesOf(buffer')
  /\ UNCHANGED <<rest, out, pendingCr, detected, tail, input>>

(***************************************************************************)
(* reset.                                                                  *)
(***************************************************************************)
Reset ==
  /\ pc = "idle"
  /\ rest' = <<>> /\ out' = <<>> /\ pendingCr' = FALSE
  /\ buffer' = <<>> /\ table' = <<NewLine(0, 0)>> /\ scan' = 0
  /\ start' = 0
  /\ detected' = FALSE /\ tail' = <<>>
  /\ finalLen' = 0
  /\ input' = <<>> /\ dropped' = <<>> /\ closed' = FALSE
  /\ UNCHANGED pc

NextOn(chunks) ==
  \/ \E chunk \in chunks : AppendChunk(chunk)
  \/ Normalize
  \/ Receive
  \/ ScanChar
  \/ Split
  \/ Return
  \/ Finalize
  \/ FinalizeBlank
  \/ CommitPending
  \/ Reset

Next == NextOn(Chunk)

Spec == Init /\ [][Next]_vars

-----------------------------------------------------------------------------
(***************************************************************************)
(* The lines of t tile the text s, as far as its first n characters tell:  *)
(* each line starts after the newline that ended the one before, none has  *)
(* a newline in it, and the last one is unfinished.                        *)
(***************************************************************************)
Tiles(t, s, n) ==
  /\ t # <<>>
  /\ t[1].start = 0
  /\ t[Len(t)].end = Len(s)
  /\ \A k \in 1..Len(t) :
       /\ t[k].newline <=> k < Len(t)
       /\ t[k].start <= n /\ t[k].start <= t[k].end
       /\ t[k].end <= Len(s)
       /\ \A j \in t[k].start + 1 .. t[k].end : j <= n => s[j] # "LF"
  /\ \A k \in 1..Len(t) - 1 :
       s[t[k].end + 1] = "LF" /\ t[k + 1].start = t[k].end + 1

(***************************************************************************)
(* Between calls the table of lines is that of the buffer, however it came *)
(* about: extended chunk by chunk, or rebuilt by a compaction in between.  *)
(***************************************************************************)
LinesTile == pc = "idle" => Tiles(table, buffer, Len(buffer))

(***************************************************************************)
(* The inductive invariant behind LinesTile: in the middle of a scan the   *)
(* lines tile what has been scanned, and a call begins with all scanned.   *)
(***************************************************************************)
Line == [start : Nat, end : Nat, newline : BOOLEAN]

ScanInv ==
  /\ pc \in {"idle", "normalize", "append", "enter", "finalize", "rebuild"}
  /\ rest \in Seq(Char) /\ out \in Seq(Char) /\ buffer \in Seq(Char)
  /\ table \in Seq(Line)
  /\ start \in Nat
  /\ scan \in 0..Len(buffer)
  /\ pc \in {"idle", "normalize"} => scan = Len(buffer)
  /\ Tiles(table, buffer, scan)

(***************************************************************************)
(* docs/ARCHITECTURE.md, "Newline normalization": between calls what has   *)
(* been dropped and the buffer are together the text received, with every  *)
(* line ending as one newline, wherever the chunks were cut; only a        *)
(* carriage return at the very end is kept back.                           *)
(***************************************************************************)
TextIsNormal ==
  pc = "idle" =>
    dropped \o buffer =
      NormalText(IF pendingCr THEN SubSeq(input, 1, Len(input) - 1)
                 ELSE input)

(***************************************************************************)
(* The window is wide enough and cut in the right place: between calls a   *)
(* footnote has been detected exactly if there is one in the whole text,   *)
(* in however many chunks it came and whatever compaction has dropped.     *)
(***************************************************************************)
FootnoteSeen == pc = "idle" => (detected <=> HasFootnote(dropped \o buffer))

(***************************************************************************)
(* finalize takes a buffer of the length it had at the last finalize for   *)
(* one with nothing new.  Lengths change by compaction too, and must never *)
(* agree by chance: then the pending text would not be committed.          *)
(***************************************************************************)
FinalizeSkipsNothing ==
  pc = "idle" /\ NothingNew =>
    \/ closed
    \/ BlankText(Pending)
=============================================================================
