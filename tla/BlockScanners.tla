---------------------------- MODULE BlockScanners ----------------------------
(***************************************************************************)
(* The modes that scan for their own end: what a code fence, a math block, *)
(* an HTML block (mdstream/src/stream/html.rs) and the three built-in      *)
(* boundary plugins (mdstream/src/boundary.rs) remember of the lines read. *)
(* These are the payloads that BlockStream leaves open.                    *)
(*                                                                         *)
(* A line is a sequence of items, one for each thing in it that some       *)
(* scanner looks for:                                                      *)
(*   [is |-> "run", char, length]   a run of fence or marker characters    *)
(*   [is |-> "open", name], [is |-> "close", name]             a whole tag *)
(*   [is |-> "<!--"], [is |-> "-->"], [is |-> "$$"]                        *)
(*   [is |-> "word"]                anything else, after a space           *)
(* Plugins are those of the constructors: a marker of three or more, tags  *)
(* with a standalone end, every container name allowed.                    *)
(***************************************************************************)
EXTENDS Integers, Sequences, FiniteSets

LOCAL INSTANCE SequencesExt

CONSTANTS
  Plugins,     \* boundary_plugins, in the order they are asked
  VoidTags     \* tag names that have no closing tag

ASSUME PluginsAssumption ==
  /\ DOMAIN Plugins = 1..Len(Plugins)
  /\ \A i \in DOMAIN Plugins : Plugins[i].type \in {"fence", "tag", "container"}

MinLength == 3

RunLength(line, char) ==
  IF line # <<>> /\ line[1].is = "run" /\ line[1].char = char
  THEN line[1].length ELSE 0

-----------------------------------------------------------------------------
(***************************************************************************)
(* Code fences and math blocks: the mode is entered with what its first    *)
(* line shows; open_count counts "$$", of which only the parity is used.   *)
(***************************************************************************)
Closed == [scanner |-> "closed"]

FenceStart(line) ==
  {char \in {"backtick", "~"} : RunLength(line, char) >= 3}

FenceEnd(line, char, length) ==
  Len(line) = 1 /\ RunLength(line, char) >= length

EnterFence(line) ==
  LET char == CHOOSE ch \in FenceStart(line) : TRUE
  IN  [scanner |-> "code", char |-> char, length |-> RunLength(line, char)]

CountDollars(line) == Cardinality({k \in DOMAIN line : line[k].is = "$$"})

MathStart(line) ==
  CountDollars(line) % 2 = 1 /\ line[1].is = "$$"

UpdateMath(p, line) ==
  [p EXCEPT !.odd = (@ # (CountDollars(line) % 2 = 1))]

-----------------------------------------------------------------------------
(***************************************************************************)
(* html.rs: a stack of open tags.  A closing tag that is not the innermost *)
(* one is ignored, and so is everything in a comment; a comment that ends  *)
(* on its own line is not entered, and its text is read as markup.         *)
(***************************************************************************)
HtmlBlockStart(line) ==
  line # <<>> /\ line[1].is \in {"open", "close", "<!--"}

EnterHtml == [scanner |-> "html", stack |-> <<>>, comment |-> FALSE]

EndsComment(line, k) == \E j \in DOMAIN line : j > k /\ line[j].is = "-->"

\* Faulty variant: a closing tag closes the innermost tag, whatever its name.
ApplyTagUnnamed(p, item) ==
  CASE item.is = "open" /\ item.name \notin VoidTags ->
         [p EXCEPT !.stack = Append(@, item.name)]
    [] item.is = "close" /\ p.stack # <<>> -> [p EXCEPT !.stack = Front(@)]
    [] OTHER -> p

ApplyTag(p, item) ==
  CASE item.is = "open" /\ item.name \notin VoidTags ->
         [p EXCEPT !.stack = Append(@, item.name)]
    [] item.is = "close" /\ p.stack # <<>> /\ Last(p.stack) = item.name ->
         [p EXCEPT !.stack = Front(@)]
    [] OTHER -> p

UpdateHtml(p, line) ==
  FoldLeft(LAMBDA q, k :
             IF q.comment THEN [q EXCEPT !.comment = line[k].is # "-->"]
             ELSE IF line[k].is = "<!--"
             THEN [q EXCEPT !.comment = ~EndsComment(line, k)]
             ELSE ApplyTag(q, line[k]),
           p, [k \in DOMAIN line |-> k])

-----------------------------------------------------------------------------
(***************************************************************************)
(* FenceBoundaryPlugin: closed by a run at least as long as the opening.   *)
(***************************************************************************)
StartMarker(char, line) ==
  IF RunLength(line, char) >= MinLength
  THEN [scanner |-> "marker", char |-> char,
        opened |-> RunLength(line, char), started |-> TRUE]
  ELSE [scanner |-> "marker", char |-> char, opened |-> 0, started |-> FALSE]

UpdateMarker(p, line) ==
  IF p.opened = 0 THEN p
  ELSE IF p.started THEN [p EXCEPT !.started = FALSE]
  ELSE IF FenceEnd(line, p.char, p.opened) THEN Closed ELSE p

(***************************************************************************)
(* TagBoundaryPlugin: the opening tag starts the line, the closing tag is  *)
(* the line.                                                               *)
(***************************************************************************)
MatchesOpening(tag, line) ==
  line # <<>> /\ line[1].is = "open" /\ line[1].name = tag

MatchesClosing(tag, line) ==
  Len(line) = 1 /\ line[1].is = "close" /\ line[1].name = tag

StartTag(tag) == [scanner |-> "tag", tag |-> tag]

UpdateTag(p, line) == IF MatchesClosing(p.tag, line) THEN Closed ELSE p

(***************************************************************************)
(* ContainerBoundaryPlugin: a marker with a name goes one level down, one  *)
(* without, of the length of the first or longer, one level up.            *)
(***************************************************************************)
DetectContainer(char, line) ==
  IF RunLength(line, char) < MinLength THEN {}
  ELSE {[length |-> RunLength(line, char), ends |-> Len(line) = 1]}

StartContainer(char, line) ==
  LET named == {m \in DetectContainer(char, line) : ~m.ends}
  IN  IF named = {}
      THEN [scanner |-> "container", char |-> char, base |-> 0,
            depth |-> 0, started |-> FALSE]
      ELSE [scanner |-> "container", char |-> char,
            base |-> RunLength(line, char), depth |-> 1, started |-> TRUE]

\* Faulty variant: the opening line, which update gets again, goes down a
\* second level.
UpdateContainerTwice(p, line) ==
  IF p.depth = 0 THEN p
  ELSE IF \E m \in DetectContainer(p.char, line) :
            m.ends /\ m.length >= p.base
  THEN IF p.depth = 1 THEN Closed ELSE [p EXCEPT !.depth = @ - 1]
  ELSE IF \E m \in DetectContainer(p.char, line) : ~m.ends
  THEN [p EXCEPT !.depth = @ + 1]
  ELSE p

UpdateContainer(p, line) ==
  IF p.depth = 0 THEN p
  ELSE IF p.started THEN [p EXCEPT !.started = FALSE]
  ELSE IF \E m \in DetectContainer(p.char, line) :
            m.ends /\ m.length >= p.base
  THEN IF p.depth = 1 THEN Closed ELSE [p EXCEPT !.depth = @ - 1]
  ELSE IF \E m \in DetectContainer(p.char, line) : ~m.ends
  THEN [p EXCEPT !.depth = @ + 1]
  ELSE p

-----------------------------------------------------------------------------
(***************************************************************************)
(* The plugins of a stream: the first one that matches has the block.  It  *)
(* is started, and given the line, when its first line is complete.        *)
(***************************************************************************)
MatchesStart(plugin, line) ==
  CASE plugin.type = "fence" -> RunLength(line, plugin.char) >= MinLength
    [] plugin.type = "tag" -> MatchesOpening(plugin.tag, line)
    [] plugin.type = "container" ->
         \E m \in DetectContainer(plugin.char, line) : ~m.ends

Matching(line) == {i \in DOMAIN Plugins : MatchesStart(Plugins[i], line)}

EnterPlugin(line) ==
  [scanner |-> "plugin",
   index |-> CHOOSE i \in Matching(line) : \A j \in Matching(line) : i <= j]

StartPlugin(plugin, line) ==
  CASE plugin.type = "fence" -> StartMarker(plugin.char, line)
    [] plugin.type = "tag" -> StartTag(plugin.tag)
    [] plugin.type = "container" -> StartContainer(plugin.char, line)

UpdatePlugin(p, line) ==
  CASE p.scanner = "marker" -> UpdateMarker(p, line)
    [] p.scanner = "tag" -> UpdateTag(p, line)
    [] p.scanner = "container" -> UpdateContainer(p, line)

-----------------------------------------------------------------------------
(***************************************************************************)
(* start_mode_for_line and update_mode_with_line, as far as the payload    *)
(* goes, and the payloads that end a block.                                *)
(***************************************************************************)
NoScanner == [scanner |-> "none"]

EnterScanner(line) ==
  IF Matching(line) # {} THEN EnterPlugin(line)
  ELSE IF FenceStart(line) # {} THEN EnterFence(line)
  ELSE IF HtmlBlockStart(line) THEN EnterHtml
  ELSE IF MathStart(line) THEN [scanner |-> "math", odd |-> FALSE]
  ELSE NoScanner

UpdateScanner(p, line) ==
  CASE p.scanner = "code" ->
         IF FenceEnd(line, p.char, p.length) THEN Closed ELSE p
    [] p.scanner = "math" -> UpdateMath(p, line)
    [] p.scanner = "html" -> UpdateHtml(p, line)
    [] p.scanner = "plugin" ->
         UpdatePlugin(StartPlugin(Plugins[p.index], line), line)
    [] p.scanner \in {"marker", "tag", "container"} -> UpdatePlugin(p, line)
    [] OTHER -> p

EndsBlock(p) ==
  \/ p = Closed
  \/ p.scanner = "math" /\ ~p.odd
  \/ p.scanner = "html" /\ p.stack = <<>> /\ ~p.comment

-----------------------------------------------------------------------------
(***************************************************************************)
(* Where the block of the lines ls should end, said of all of its lines at *)
(* once: no stack, no counter, no flag.  Holds is true of the lines of a   *)
(* block that is complete, and of no fewer of them.                        *)
(***************************************************************************)
CompleteAtLast(Holds(_), ls) ==
  Holds(ls) /\ \A n \in 1..Len(ls) - 1 : ~Holds(SubSeq(ls, 1, n))

Flow(ls) ==
  FlattenSeq([n \in DOMAIN ls |->
                [k \in DOMAIN ls[n] |-> [line |-> n, item |-> ls[n][k]]]])

\* "<!--" opens a comment if no "-->" follows it on its line.
InComment(flow, k) ==
  \E j \in 1..k - 1 :
    /\ flow[j].item.is = "<!--"
    /\ \A l \in j + 1..Len(flow) :
         flow[l].item.is = "-->" => l >= k /\ flow[l].line # flow[j].line

TagsBalance(ls) ==
  LET flow == Flow(ls)
      tags(is) ==
        {k \in DOMAIN flow : flow[k].item.is = is /\ ~InComment(flow, k)}
      opened == {k \in tags("open") : flow[k].item.name \notin VoidTags}
      closes[i \in DOMAIN flow, j \in DOMAIN flow] ==
        /\ i \in opened /\ j \in tags("close") /\ i < j
        /\ flow[i].item.name = flow[j].item.name
        /\ \A k \in opened : i < k /\ k < j =>
             \E l \in k + 1..j - 1 : closes[k, l]
        /\ \A l \in i + 1..j - 1 : ~closes[i, l]
  IN  /\ ~InComment(flow, Len(flow) + 1)
      /\ \A i \in opened : \E j \in i + 1..Len(flow) : closes[i, j]

LoneMarker(line, char, length) ==
  Len(line) = 1 /\ RunLength(line, char) >= length

PluginComplete(plugin, ls) ==
  LET first == ls[1]
      length == RunLength(first, plugin.char)
      later(Is(_)) == Cardinality({n \in 2..Len(ls) : Is(ls[n])})
  IN  CASE plugin.type = "fence" ->
             Len(ls) > 1 /\ LoneMarker(ls[Len(ls)], plugin.char, length)
        [] plugin.type = "tag" ->
             /\ Len(ls) > 1
             /\ ls[Len(ls)] = <<[is |-> "close", name |-> plugin.tag]>>
        [] plugin.type = "container" ->
             later(LAMBDA line : LoneMarker(line, plugin.char, length))
               = 1 + later(LAMBDA line :
                             RunLength(line, plugin.char) >= MinLength
                             /\ Len(line) > 1)
=============================================================================
