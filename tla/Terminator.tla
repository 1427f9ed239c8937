----------------------------- MODULE Terminator -----------------------------
(***************************************************************************)
(* terminate_markdown (mdstream/src/pending/terminator.rs): what is shown  *)
(* of the pending text.  Markdown that is still open at the end of the     *)
(* text is closed, so that half a construct is not shown as plain text and *)
(* then, with the next chunk, as something else.                           *)
(*                                                                         *)
(* The function looks at the end of the text only, at no more than a       *)
(* window of it.  The loops of the source over the bytes are sets of       *)
(* positions here, and recursive functions where one character decides how *)
(* the next is read.  A tab is not told from a space.                      *)
(***************************************************************************)
EXTENDS TextIntake, FiniteSets, FiniteSetsExt

Sequence == INSTANCE SequencesExt

CONSTANTS
  WordChar,       \* is_word_char: letters, digits and underscores
  WindowBytes,    \* opts.window_bytes
  Repairs         \* the options that are on

AllRepairs == {"setext_headings", "links", "images", "emphasis",
               "inline_code", "strikethrough", "katex_block"}

ASSUME TerminatorAssumption ==
  /\ WordChar \subseteq Char /\ "none" \notin Char
  /\ WordChar \cap {" ", "LF", "*", "~", "tick", "$", "-", "="} = {}
  /\ \A c \in {" "} \cap Char : Bytes[c] = 1
  /\ WindowBytes \in Nat
  /\ Repairs \subseteq AllRepairs

Url == <<"URL">>             \* incomplete_link_url
ZeroWidthSpace == <<"ZWSP">>

Ticks == <<"tick", "tick", "tick">>

-----------------------------------------------------------------------------
(***************************************************************************)
(* Finding: all places where p occurs in s, and those that a search from   *)
(* the left finds one after the other, for a p of equal characters.        *)
(***************************************************************************)
Occurs(s, p) ==
  {i \in 1..Len(s) - Len(p) + 1 : SubSeq(s, i, i + Len(p) - 1) = p}

Matches(s, p) ==
  {i \in Occurs(s, p) :
     Cardinality({j \in 1..i - 1 : \A k \in j..i - 1 : s[k] = s[i]})
       % Len(p) = 0}

OddMatches(s, p) == Cardinality(Matches(s, p)) % 2 = 1

Has(s, c) == \E i \in DOMAIN s : s[i] = c

\* s[i], or nothing before the beginning and after the end.
At(s, i) == IF i \in DOMAIN s THEN s[i] ELSE "none"

IsBlank(c) == c \in {" ", "LF"}

Trim(s) ==
  LET filled == {k \in DOMAIN s : ~IsBlank(s[k])}
  IN  IF filled = {} THEN <<>> ELSE SubSeq(s, Min(filled), Max(filled))

EndsWith(s, p) == Len(s) >= Len(p) /\ From(s, Len(s) - Len(p)) = p

(***************************************************************************)
(* The line with position i, and what of it is before i.                   *)
(***************************************************************************)
LineStart(s, i) == Max({1} \cup {k + 1 : k \in {j \in 1..i - 1 : s[j] = "LF"}})

LineBefore(s, i) == SubSeq(s, LineStart(s, i), i - 1)

LineAround(s, i) ==
  LET ends == {j \in i..Len(s) : s[j] = "LF"}
  IN  SubSeq(s, LineStart(s, i), Min({Len(s) + 1} \cup ends) - 1)

(***************************************************************************)
(* whitespace_or_markers_only, tail_window, trim_trailing_single_space.    *)
(***************************************************************************)
NothingToClose(s) ==
  \A i \in DOMAIN s : IsBlank(s[i]) \/ s[i] \in {"_", "~", "*", "tick"}

WindowStart(s) ==
  Min({n \in 0..Len(s) : BytesOf(From(s, n)) <= WindowBytes})

WithoutSingleSpace(s) ==
  IF EndsWith(s, <<" ">>) /\ ~EndsWith(s, <<" ", " ">>) THEN Sequence!Front(s) ELSE s

-----------------------------------------------------------------------------
(***************************************************************************)
(* is_inside_code_block: three backticks open or close a block, one opens  *)
(* or closes inline code outside of blocks.                                *)
(***************************************************************************)
InBlock(s, i) == Cardinality({m \in Matches(s, Ticks) : m < i}) % 2 = 1

InInline(s, i) ==
  Cardinality({k \in 1..i - 1 :
    /\ s[k] = "tick" /\ ~InBlock(s, k)
    /\ \A m \in Matches(s, Ticks) : k \notin m..m + 2}) % 2 = 1

InCode(s, i) == InInline(s, i) \/ InBlock(s, i)

PartOfTicks(s, i) == \E o \in Occurs(s, Ticks) : i \in o..o + 2

(***************************************************************************)
(* is_inside_incomplete_multiline_code_block.                              *)
(***************************************************************************)
InOpenBlock(s) == Has(s, "LF") /\ OddMatches(s, Ticks)

(***************************************************************************)
(* is_within_math_block.                                                   *)
(***************************************************************************)
ReadMath(s, st, k) ==
  IF st.skip THEN [st EXCEPT !.skip = FALSE]
  ELSE IF s[k] = "ESC" /\ At(s, k + 1) = "$" THEN [st EXCEPT !.skip = TRUE]
  ELSE IF s[k] # "$" THEN st
  ELSE IF At(s, k + 1) = "$"
  THEN [skip |-> TRUE, inline |-> FALSE, block |-> ~st.block]
  ELSE IF st.block THEN st ELSE [st EXCEPT !.inline = ~@]

MathBefore(s, i) ==
  LET read[k \in 0..i - 1] ==
        IF k = 0 THEN [skip |-> FALSE, inline |-> FALSE, block |-> FALSE]
        ELSE ReadMath(s, read[k - 1], k)
  IN  read[i - 1]

InMath(s, i) == MathBefore(s, i).inline \/ MathBefore(s, i).block

(***************************************************************************)
(* is_within_link_or_image_url.                                            *)
(***************************************************************************)
InUrl(s, i) ==
  LET stops == {j \in 1..i - 1 : s[j] \in {"LF", ")", "("}}
  IN  /\ stops # {}
      /\ s[Max(stops)] = "(" /\ At(s, Max(stops) - 1) = "]"
      /\ \E j \in i..Len(s) : s[j] = ")" /\ ~Has(SubSeq(s, i, j), "LF")

(***************************************************************************)
(* is_list_marker_at, is_line_prefix_list_marker, is_horizontal_rule_line. *)
(***************************************************************************)
IsListMarker(s, i) ==
  /\ Len(LineBefore(s, i)) <= 3
  /\ \A k \in DOMAIN LineBefore(s, i) : LineBefore(s, i)[k] = " "
  /\ At(s, i + 1) = " "

AfterListMarker(s, i) ==
  LET before == LineBefore(s, i)
  IN  EndsWith(before, <<" ">>) /\ Trim(before) \in {<<"-">>, <<"*">>, <<"+">>}

IsRule(s, i, c) ==
  LET line == LineAround(s, i)
  IN  /\ \A k \in DOMAIN line : line[k] \in {c, " "}
      /\ Cardinality({k \in DOMAIN line : line[k] = c}) >= 3

-----------------------------------------------------------------------------
(***************************************************************************)
(* apply_setext_heading_protection: one or two dashes or equal signs below *)
(* a line of text must not make it a heading yet.                          *)
(***************************************************************************)
ProtectSetext(shown) ==
  LET s == WithoutSingleSpace(shown)
      newlines == {i \in DOMAIN s : s[i] = "LF"}
      last == LineBefore(s, Len(s) + 1)
  IN  IF /\ newlines # {}
         /\ Trim(last) \in {<<"-">>, <<"-", "-">>, <<"=">>, <<"=", "=">>}
         /\ ~IsBlank(Last(last))
         /\ Trim(LineBefore(s, Max(newlines))) # <<>>
      THEN s \o ZeroWidthSpace ELSE s

(***************************************************************************)
(* fix_incomplete_link_or_image: the last link without the end of its URL, *)
(* or else the last opening bracket that is not closed.                    *)
(***************************************************************************)
CountIn(s, c, first, last) == Cardinality({k \in first..last : s[k] = c})

OpeningOf(s, close) ==
  {i \in 1..close - 1 :
     /\ s[i] = "["
     /\ CountIn(s, "[", i, close - 1) = CountIn(s, "]", i, close - 1) + 1}

Unclosed(s, open) ==
  \A j \in open + 1 .. Len(s) :
    CountIn(s, "]", open + 1, j) <= CountIn(s, "[", open + 1, j)

IsImage(s, open) == At(s, open - 1) = "!"

Enabled(s, open) == (IF IsImage(s, open) THEN "images" ELSE "links") \in Repairs

\* Faulty variant: a link that has its URL is taken for one that has none.
UrlAnywhere(s) ==
  {i \in Occurs(s, <<"]", "(">>) :
     /\ ~InCode(s, i)
     /\ OpeningOf(s, i) # {}
     /\ ~InCode(s, Max(OpeningOf(s, i)))
     /\ Enabled(s, Max(OpeningOf(s, i)))}

UrlMissing(s) ==
  {i \in Occurs(s, <<"]", "(">>) :
     /\ ~InCode(s, i) /\ ~Has(From(s, i + 1), ")")
     /\ OpeningOf(s, i) # {}
     /\ ~InCode(s, Max(OpeningOf(s, i)))
     /\ Enabled(s, Max(OpeningOf(s, i)))}

TextMissing(s) ==
  {i \in DOMAIN s :
     s[i] = "[" /\ ~InCode(s, i) /\ Enabled(s, i) /\ Unclosed(s, i)}

FixLink(s) ==
  IF UrlMissing(s) # {}
  THEN LET open == Max(OpeningOf(s, Max(UrlMissing(s))))
       IN  IF IsImage(s, open) THEN SubSeq(s, 1, open - 2)
           ELSE SubSeq(s, 1, Max(UrlMissing(s)) + 1) \o Url \o <<")">>
  ELSE IF TextMissing(s) # {}
  THEN IF IsImage(s, Max(TextMissing(s)))
       THEN SubSeq(s, 1, Max(TextMissing(s)) - 2)
       ELSE s \o <<"]", "(">> \o Url \o <<")">>
  ELSE s

-----------------------------------------------------------------------------
(***************************************************************************)
(* handle_incomplete_bold, handle_incomplete_double_underscore_italic and  *)
(* balance_strikethrough: the last marker, of two characters, has text     *)
(* after it and no partner.                                                *)
(***************************************************************************)
LastMarker(s, p) ==
  {i \in Occurs(s, p) :
     /\ i = Max(Occurs(s, p))
     /\ ~Has(From(s, i + Len(p) - 1), p[1])
     /\ ~NothingToClose(From(s, i + Len(p) - 1))}

InMarkup(s, p) ==
  {i \in LastMarker(s, p) : ~InCode(s, i) /\ ~IsRule(s, i, p[1])}

\* Faulty variant: the closing marker is added whether there is one or not.
CloseAlways(s, p) ==
  IF \E i \in InMarkup(s, p) :
       ~(Has(From(s, i + 1), "LF") /\ AfterListMarker(s, i))
  THEN s \o p ELSE s

ClosePair(s, p) ==
  IF /\ \E i \in InMarkup(s, p) :
          ~(Has(From(s, i + 1), "LF") /\ AfterListMarker(s, i))
     /\ OddMatches(s, p)
  THEN s \o p ELSE s

Bold == <<"*", "*">>
Strike == <<"~", "~">>

CloseStrike(s) ==
  IF LastMarker(s, Strike) # {} /\ OddMatches(s, Strike) THEN s \o Strike ELSE s

(***************************************************************************)
(* should_skip_asterisk, and handle_incomplete_single_asterisk_italic.     *)
(***************************************************************************)
InWord(s, i) == At(s, i - 1) \in WordChar /\ At(s, i + 1) \in WordChar

Plain(s, i) == At(s, i - 1) # "ESC" /\ ~InCode(s, i) /\ ~InMath(s, i)

Asterisks(s) ==
  {i \in DOMAIN s :
     /\ s[i] = "*" /\ Plain(s, i) /\ At(s, i - 1) # "*"
     /\ IF At(s, i + 1) = "*" THEN At(s, i + 2) = "*"
        ELSE ~InWord(s, i) /\ ~IsListMarker(s, i)}

CloseAsterisk(s) ==
  LET alone == {i \in Asterisks(s) : At(s, i + 1) # "*"}
  IN  IF /\ alone # {} /\ ~NothingToClose(From(s, Min(alone)))
         /\ Cardinality(Asterisks(s)) % 2 = 1
      THEN s \o <<"*">> ELSE s

(***************************************************************************)
(* count_triple_asterisks and handle_incomplete_bold_italic.               *)
(***************************************************************************)
Triple == <<"*", "*", "*">>

CloseBoldItalic(s) ==
  LET balanced == ~OddMatches(s, Bold) /\ Cardinality(Asterisks(s)) % 2 = 0
  IN  IF /\ ~(Len(Trim(s)) >= 4 /\ Range(Trim(s)) = {"*"})
         /\ InMarkup(s, Triple) # {}
         /\ OddMatches(s, Triple) /\ ~balanced
      THEN s \o Triple ELSE s

(***************************************************************************)
(* should_skip_underscore, and handle_incomplete_single_underscore_italic: *)
(* an underscore goes before newlines, and before asterisks that close     *)
(* what was opened before it.                                              *)
(***************************************************************************)
Underscores(s) ==
  {i \in DOMAIN s :
     /\ s[i] = "_" /\ Plain(s, i) /\ ~InUrl(s, i) /\ ~InWord(s, i)
     /\ At(s, i - 1) # "_" /\ At(s, i + 1) # "_"}

Nested(s) ==
  LET inner == SubSeq(s, 1, Len(s) - 2)
  IN  /\ EndsWith(s, Bold)
      /\ OddMatches(inner, Bold)
      /\ Underscores(inner) # {}
      /\ Min(Occurs(inner, Bold)) < Min(Underscores(inner))

CloseUnderscore(s) ==
  LET content == Max({0} \cup {k \in DOMAIN s : s[k] # "LF"})
      place == IF Nested(s) THEN Len(s) - 2 ELSE content
  IN  IF /\ Underscores(s) # {}
         /\ ~NothingToClose(From(s, Min(Underscores(s))))
         /\ Cardinality(Underscores(s)) % 2 = 1
      THEN SubSeq(s, 1, place) \o <<"_">> \o From(s, place) ELSE s

(***************************************************************************)
(* balance_inline_code.                                                    *)
(***************************************************************************)
TrailingTicks(s) ==
  Cardinality({i \in DOMAIN s : \A k \in i..Len(s) : s[k] = "tick"})

InlineTriple(s) ==
  LET run == TrailingTicks(s)
  IN  /\ ~Has(s, "LF") /\ Occurs(s, Ticks) # {} /\ 1 \in Occurs(s, Ticks)
      /\ run \in {2, 3} /\ Len(s) - run >= 3
      /\ ~Has(SubSeq(s, 4, Len(s) - run), "tick")

CloseInlineCode(s) ==
  LET single == {i \in DOMAIN s : s[i] = "tick" /\ ~PartOfTicks(s, i)}
      after == From(s, Max(single))
  IN  IF InlineTriple(s)
      THEN IF TrailingTicks(s) = 2 THEN s \o <<"tick">> ELSE s
      ELSE IF /\ ~OddMatches(s, Ticks)
              /\ single # {} /\ ~InCode(s, Max(single))
              /\ ~Has(after, "tick") /\ ~NothingToClose(after)
              /\ Cardinality(single) % 2 = 1
      THEN s \o <<"tick">> ELSE s

(***************************************************************************)
(* balance_katex_block.                                                    *)
(***************************************************************************)
Dollars == <<"$", "$">>

ReadPairs(s, st, k) ==
  IF st.skip THEN [st EXCEPT !.skip = FALSE]
  ELSE IF s[k] = "tick" /\ ~PartOfTicks(s, k) THEN [st EXCEPT !.code = ~@]
  ELSE IF ~st.code /\ k \in Occurs(s, Dollars)
  THEN [st EXCEPT !.skip = TRUE, !.pairs = @ + 1] ELSE st

DollarPairs(s) ==
  LET read[k \in 0..Len(s)] ==
        IF k = 0 THEN [skip |-> FALSE, code |-> FALSE, pairs |-> 0]
        ELSE ReadPairs(s, read[k - 1], k)
  IN  read[Len(s)].pairs

CloseKatex(s) ==
  IF DollarPairs(s) % 2 = 0 THEN s
  ELSE IF /\ Has(From(s, Min(Occurs(s, Dollars)) - 1), "LF")
          /\ ~EndsWith(s, <<"LF">>)
  THEN s \o <<"LF">> \o Dollars ELSE s \o Dollars

-----------------------------------------------------------------------------
(***************************************************************************)
(* terminate_markdown.                                                     *)
(***************************************************************************)
If(repair, on, off) == IF repair \in Repairs THEN on ELSE off

CloseEmphasis(s) ==
  CloseUnderscore(CloseAsterisk(ClosePair(ClosePair(CloseBoldItalic(s), Bold),
                                          <<"_", "_">>)))

CloseMarkers(s) ==
  LET emphasis == If("emphasis", CloseEmphasis(s), s)
      code == If("inline_code", CloseInlineCode(emphasis), emphasis)
      strike == If("strikethrough", CloseStrike(code), code)
  IN  If("katex_block", CloseKatex(strike), strike)

TerminateTail(s) ==
  LET protected == If("setext_headings", ProtectSetext(s), s)
      linked == FixLink(protected)
  IN  IF InOpenBlock(protected) THEN protected
      ELSE IF linked # protected
              /\ EndsWith(linked, <<"]", "(">> \o Url \o <<")">>)
      THEN linked ELSE CloseMarkers(linked)

Terminate(pending) ==
  LET s == WithoutSingleSpace(pending)
      first == WindowStart(s)
  IN  SubSeq(s, 1, first) \o TerminateTail(From(s, first))

(***************************************************************************)
(* What is shown of the pending text between two calls, the window of it   *)
(* that is looked at, and what becomes of the window.                      *)
(***************************************************************************)
Display == Terminate(Pending)

Window ==
  LET s == WithoutSingleSpace(Pending) IN From(s, WindowStart(s))

Shown == From(Display, WindowStart(WithoutSingleSpace(Pending)))

EndsInLetter(s) == s # <<>> /\ Sequence!Last(s) \in WordChar \ {"_"}

-----------------------------------------------------------------------------
(***************************************************************************)
(* The repairs run one after the other, each on the result of the one      *)
(* before, and a closing marker that one of them adds is read by the next. *)
(* All the same nothing of the pending text is lost but an image that is   *)
(* not complete, from its beginning, or the URL of a link that is not; and *)
(* nothing is added but markers: behind the text, or, for an underscore,   *)
(* before the end of the line or before the asterisks that close what was  *)
(* opened outside of it.  The text before the window is always kept.       *)
(***************************************************************************)
Marks == {"*", "_", "~", "tick", "$", "LF", "]", "(", ")"}
         \cup {Url[1], ZeroWidthSpace[1]}

UrlLacksEnd(s, open) ==
  \E i \in Occurs(s, <<"]", "(">>) : i > open /\ ~Has(From(s, i + 1), ")")

Lost(s, m) ==
  LET cut == From(s, m)
  IN  \/ cut = <<>>
      \/ /\ Sequence!IsPrefix(<<"!", "[">>, cut)
         /\ Unclosed(s, m + 2) \/ UrlLacksEnd(s, m + 2)
      \/ EndsWith(SubSeq(s, 1, m), <<"]", "(">>) /\ ~Has(cut, ")")

Passed(moved) == Range(moved) = {"LF"} \/ moved \in {<<"*">>, Bold}

OnlyMarksAfter(kept, shown) ==
  /\ Sequence!IsPrefix(kept, shown)
  /\ Range(From(shown, Len(kept))) \subseteq Marks

TextIsKept ==
  pc = "idle" =>
    LET s == WithoutSingleSpace(Pending)
    IN  \E m \in WindowStart(s)..Len(s) :
          /\ Lost(s, m)
          /\ \/ OnlyMarksAfter(SubSeq(s, 1, m), Display)
             \/ \E n \in WindowStart(s)..m :
                  /\ Passed(SubSeq(s, n + 1, m))
                  /\ OnlyMarksAfter(SubSeq(s, 1, n) \o <<"_">>
                                       \o SubSeq(s, n + 1, m), Display)

(***************************************************************************)
(* Where text is being written, the display leaves nothing open: no inline *)
(* code and no block of mathematics, if no three backticks come together,  *)
(* and no emphasis if it is all of one kind, except for a pair of markers  *)
(* in a rule, or that starts a list item and is followed by another line.  *)
(* (Emphasis of several kinds is closed in a fixed order, not in that in   *)
(* which it was opened: "*_x" becomes "*_x*_"; and a link that is          *)
(* completed ends the repairs: "_[x" becomes "_[x](URL)".)                 *)
(***************************************************************************)
OfOneKind(s, p) ==
  /\ \A c \in {"*", "_", "~", "tick", "$", "ESC"} \ Range(p) : ~Has(s, c)
  /\ \A i \in DOMAIN s :
       s[i] = p[1] => \E o \in Matches(s, p) :
                         /\ i \in o..o + Len(p) - 1
                         /\ At(s, o - 1) # p[1] /\ At(s, o + Len(p)) # p[1]

LeftOpen(s, p) ==
  LET i == Max(Occurs(s, p))
  IN  IsRule(s, i, p[1]) \/ (AfterListMarker(s, i) /\ Has(From(s, i), "LF"))

NothingLeftOpen ==
  pc = "idle" /\ EndsInLetter(Pending) /\ FixLink(Window) = Window =>
    /\ Occurs(Window, Ticks) = {} =>
         ~InInline(Shown, Len(Shown) + 1) /\ DollarPairs(Shown) % 2 = 0
    /\ \A p \in {Bold, <<"_", "_">>} :
         OfOneKind(Window, p) => ~OddMatches(Shown, p) \/ LeftOpen(Window, p)
    /\ OfOneKind(Window, Strike) => ~OddMatches(Shown, Strike)
    /\ OfOneKind(Window, <<"*">>) => Cardinality(Asterisks(Shown)) % 2 = 0
    /\ OfOneKind(Window, <<"_">>) => Cardinality(Underscores(Shown)) % 2 = 0
=============================================================================
