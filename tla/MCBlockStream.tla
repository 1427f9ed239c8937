--------------------------- MODULE MCBlockStream ---------------------------
(***************************************************************************)
(* Lines for TLC: every text below is the literal content of a line, and   *)
(* LinePredicates gives the line predicates of stream.rs that hold of it,  *)
(* with those that BlockScanners defines left to that module.              *)
(* The texts of one document are all of one family; a configuration picks  *)
(* the families.                                                           *)
(***************************************************************************)
EXTENDS BlockStream, BlockStreamProperties, BlockScanners, TLC

LOCAL INSTANCE SequencesExt

CONSTANT Families    \* sets of texts that occur together in a document

ASSUME FamiliesAssumption == UNION Families = Text

LinePredicates ==
  "" :> {"empty"}
  @@ "a" :> {}
  @@ "  y" :> {"list_cont"}
  @@ "    y" :> {"list_cont", "footnote_cont"}
  @@ "# h" :> {"heading"}
  @@ "**" :> {}
  @@ "***" :> {"thematic"}
  @@ "***b" :> {}
  @@ "---" :> {"thematic", "setext", "delimiter"}
  @@ "==" :> {"setext"}
  @@ "|a|" :> {"pipe"}
  @@ "|-|" :> {"delimiter", "pipe"}
  @@ "|-|b" :> {"pipe"}
  @@ "-" :> {"delimiter", "item_prefix"}
  @@ "- x" :> {"item", "list_cont"}
  @@ "1" :> {"item_prefix"}
  @@ "> q" :> {"quote"}
  @@ "~~~" :> {}
  @@ "~~~~" :> {}
  @@ "~~~ j" :> {}
  @@ "<p>" :> {}
  @@ "<b>" :> {}
  @@ "</p>" :> {}
  @@ "</b>" :> {}
  @@ "$$" :> {}
  @@ "x $$" :> {}
  @@ "::: n" :> {}
  @@ ":::: n" :> {}
  @@ ":::" :> {}
  @@ "%%%" :> {}
  @@ "<br>" :> {}
  @@ "<t>" :> {}
  @@ "</t>" :> {}
  @@ "<!--" :> {}
  @@ "-->" :> {}
  @@ "<!---->" :> {}
  @@ "[^1]" :> {"footnote"}
  @@ "# [r]" :> {"heading"}
  @@ "[r]: x" :> {}
  @@ "[r]: y" :> {}
  @@ "[^1]:" :> {"footnote", "footnote_def"}

Texts == DOMAIN LinePredicates

(***************************************************************************)
(* Proper prefixes among the texts: what a last line can still become.     *)
(***************************************************************************)
GrowsInto ==
  {<<"**", "***">>, <<"**", "***b">>, <<"***", "***b">>,
   <<"|-|", "|-|b">>, <<"-", "- x">>, <<"-", "---">>, <<"~~~", "~~~~">>,
   <<"~~~", "~~~ j">>,
   <<":::", "::: n">>, <<":::", ":::: n">>, <<"[^1]", "[^1]:">>}

(***************************************************************************)
(* What the scanners of BlockScanners find in a line.                      *)
(***************************************************************************)
Run(char, length) == [is |-> "run", char |-> char, length |-> length]
Open(name) == [is |-> "open", name |-> name]
Shuts(name) == [is |-> "close", name |-> name]
Word == [is |-> "word"]
Dollars == [is |-> "$$"]

ItemsFound ==
  "~~~" :> <<Run("~", 3)>>
  @@ "~~~~" :> <<Run("~", 4)>>
  @@ "~~~ j" :> <<Run("~", 3), Word>>
  @@ "%%%" :> <<Run("%", 3)>>
  @@ ":::" :> <<Run(":", 3)>>
  @@ "::: n" :> <<Run(":", 3), Word>>
  @@ ":::: n" :> <<Run(":", 4), Word>>
  @@ "$$" :> <<Dollars>>
  @@ "x $$" :> <<Word, Dollars>>
  @@ "<p>" :> <<Open("p")>>
  @@ "<b>" :> <<Open("b")>>
  @@ "<br>" :> <<Open("br")>>
  @@ "</p>" :> <<Shuts("p")>>
  @@ "</b>" :> <<Shuts("b")>>
  @@ "<t>" :> <<Open("t")>>
  @@ "</t>" :> <<Shuts("t")>>
  @@ "<!--" :> <<[is |-> "<!--"]>>
  @@ "-->" :> <<[is |-> "-->"]>>
  @@ "<!---->" :> <<[is |-> "<!--"], [is |-> "-->"]>>
  @@ "" :> <<>>

Items(t) == IF t \in DOMAIN ItemsFound THEN ItemsFound[t] ELSE <<Word>>

MCPlugins ==
  <<[type |-> "tag", tag |-> "t"], [type |-> "container", char |-> ":"],
    [type |-> "fence", char |-> "%"]>>

(***************************************************************************)
(* No line has more than one level of nesting, so MaxLines bounds it.      *)
(***************************************************************************)
Payload ==
  {NoScanner, Closed, StartTag("t")}
  \cup [scanner : {"code"}, char : {"~"}, length : 3..4]
  \cup [scanner : {"math"}, odd : BOOLEAN]
  \cup [scanner : {"html"}, stack : BoundedSeq({"p", "b"}, MaxLines),
        comment : BOOLEAN]
  \cup [scanner : {"plugin"}, index : DOMAIN MCPlugins]
  \cup [scanner : {"marker"}, char : {"%"}, opened : {0, 3}, started : BOOLEAN]
  \cup [scanner : {"container"}, char : {":"}, base : {0, 3, 4},
        depth : 0..MaxLines, started : BOOLEAN]

ScannerPredicates(line) ==
  (IF Matching(line) # {} THEN {"plugin"} ELSE {})
  \cup (IF FenceStart(line) # {} THEN {"fence"} ELSE {})
  \cup (IF HtmlBlockStart(line) THEN {"html"} ELSE {})
  \cup (IF MathStart(line) THEN {"math"} ELSE {})

Widths ==
  [t \in Texts |->
     CASE t = "" -> 0
       [] t \in {"a", "-", "1"} -> 1
       [] t \in {"**", "==", "$$"} -> 2
       [] t \in {"  y", "# h", "***", "---", "|a|", "|-|", "- x", "> q",
                 "~~~", "<p>", "<b>", ":::", "%%%", "<t>", "-->"} -> 3
       [] t \in {"***b", "|-|b", "~~~~", "</p>", "</b>", "x $$", "[^1]", "<br>",
                 "</t>", "<!--"} -> 4
       [] t = ":::: n" -> 6
       [] t = "<!---->" -> 7
       [] OTHER -> 5]

MCIs == [t \in Text |-> LinePredicates[t] \cup ScannerPredicates(Items(t))]
MCGrows ==
  {pair \in Text \X Text :
     pair[1] = "" \/ pair[1] = pair[2] \/ pair \in GrowsInto}
MCWidth == [t \in Text |-> Widths[t]]
MCEnter == [t \in Text |-> EnterScanner(Items(t))]
MCScan ==
  [pt \in Payload \X Text |->
     LET next == UpdateScanner(pt[1], Items(pt[2]))
     IN  IF next \in Payload THEN next ELSE pt[1]]
MCShut == {p \in Payload : EndsBlock(p)}

ContainerTexts == {"", "a", "  y", "-", "- x", "> q"}
FenceTexts == {"", "a", "# h", "~~~", "~~~~", "$$", "x $$"}
MarkupTexts == {"", "a", "<p>", "<b>", "</p>", "<br>", "<!--", "-->"}
PluginTexts == {"", "::: n", ":::: n", ":::", "%%%", "<t>", "</t>"}
TableTexts == {"", "a", "# h", "|a|", "|-|", "==", "---"}
FootnoteTexts == {"", "a", "    y", "# h", "[^1]", "[^1]:"}
UnstableTexts == {"", "a", "**", "***", "***b"}

AllFamilies ==
  {ContainerTexts, FenceTexts, MarkupTexts, PluginTexts, TableTexts,
   FootnoteTexts}
AllTexts == UNION AllFamilies

NestedTexts == {"", "<p>", "<b>", "</p>", "</b>"}
CommentTexts == {"", "<!--", "-->", "<p>", "</p>"}
VoidTexts == {"", "<br>", "<!---->", "<p>", "</p>"}
ContainerMarkers == {"", "::: n", ":::: n", ":::", "%%%"}
OtherMarkers == {"", "%%%", "~~~", "<t>", "</t>"}

\* Documents in which scanners keep more than one thing in mind, and those
\* that change what a line is by the lines before it.
CompactedFamilies ==
  {ContainerTexts, NestedTexts, CommentTexts, VoidTexts, ContainerMarkers,
   OtherMarkers}
CompactedTexts == UNION CompactedFamilies

TableFamily == {TableTexts}
FootnoteFamily == {FootnoteTexts}
UnstableFamily == {UnstableTexts}

ChunksOf(family) == UNION {[1..n -> family] : n \in 1..MaxChunkLines}

FamilyNext ==
  \E family \in Families :
    /\ \A k \in DOMAIN doc : doc[k] \in family
    /\ NextOn(ChunksOf(family))

(***************************************************************************)
(* The texts of the runs that check ChunkingInvariance and expect it to    *)
(* hold are as its theorem assumes.                                        *)
(***************************************************************************)
ASSUME ChunkingAssumption ==
  \/ StableGrowth /\ PlainBlanks /\ (MaxBufferBytes = {} \/ NoTables)
  \/ Text = UnstableTexts

-----------------------------------------------------------------------------
(***************************************************************************)
(* The committed blocks whose end the stream has found: a finalize may cut *)
(* the last one.                                                           *)
(***************************************************************************)
EndsFound == {k \in DOMAIN Committed : closed => k # Len(Committed)}

ItemLines(raw) == [n \in DOMAIN raw |-> Items(raw[n])]

(***************************************************************************)
(* An HTML block ends with the first line after which no tag is open: each *)
(* opening tag has the first closing tag of its name between which and it  *)
(* every other tag is closed; void tags and comments count for nothing     *)
(* (the stack of html.rs ignores a closing tag that does not match).       *)
(***************************************************************************)
HtmlEndsBalanced ==
  \A k \in EndsFound :
    Committed[k].kind = "HtmlBlock"
      => CompleteAtLast(TagsBalance, ItemLines(Committed[k].raw))

(***************************************************************************)
(* The block of a boundary plugin ends with the line that closes it, and   *)
(* its opening line is never taken for that or for a second opening: for a *)
(* container, with the first line up to which there are as many ends as    *)
(* names (the plugins of boundary.rs get the opening line twice).          *)
(***************************************************************************)
PluginEndsAtMarker ==
  \A k \in EndsFound :
    LET ls == ItemLines(Committed[k].raw)
        plugin == Plugins[EnterPlugin(ls[1]).index]
    IN  Matching(ls[1]) # {}
          => CompleteAtLast(LAMBDA ms : PluginComplete(plugin, ms), ls)

FamilySpec == Init /\ [][FamilyNext]_vars
=============================================================================
