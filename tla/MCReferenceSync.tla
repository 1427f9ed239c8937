--------------------------- MODULE MCReferenceSync ---------------------------
(***************************************************************************)
(* Reference definitions for TLC, with the lines of MCBlockStream: one     *)
(* label, two definitions of it, and a heading that uses it.  Other         *)
(* documents have the blocks that analyzers know: fenced code, math, tags. *)
(***************************************************************************)
EXTENDS AnalyzedStream, MCBlockStream

MCUses == [t \in Text |-> IF t = "# [r]" THEN {"r"} ELSE {}]
MCDefines == [t \in Text |-> IF t \in {"[r]: x", "[r]: y"} THEN {"r"} ELSE {}]

ReferenceTexts == {"", "# [r]", "[r]: x", "[r]: y", "[^1]"}
FencedTexts == {"", "# [r]", "[r]: x", "~~~"}
InfoTexts == {"", "a", "~~~", "~~~ j"}
LongFenceTexts == {"", "~~~", "~~~~", "[^1]"}
MathTexts == {"", "$$", "x $$", "[^1]"}
TagTexts == {"", "<t>", "</t>", "[^1]"}

FencedFamily == {FencedTexts}
LongFenceFamily == {LongFenceTexts}
UpdateFamily ==
  {ReferenceTexts, InfoTexts, LongFenceTexts, MathTexts, TagTexts}
UpdateTexts == UNION UpdateFamily

MCFound == [t \in Text |-> Items(t)]

(***************************************************************************)
(* The texts of the run that checks DisplayIsFresh are as its theorem      *)
(* assumes.                                                                *)
(***************************************************************************)
ASSUME DisplayAssumption == StableFences /\ PlainBlanks

(***************************************************************************)
(* Those of the run that checks ParsedIsFresh too: no document has both a  *)
(* fence and a definition.                                                 *)
(***************************************************************************)
ASSUME DefinitionAssumption ==
  \A family \in UpdateFamily : \A fence, t \in family \cap Text :
    StartMode(fence) = "CodeFence" => Defines[t] = {}

(***************************************************************************)
(* And as the theorem about HintsRight assumes.                            *)
(***************************************************************************)
ASSUME HintsAssumption == ScannersAgree /\ FilledStaysFilled

AnalyzedFamilyNext ==
  \E family \in Families :
    /\ \A k \in DOMAIN doc : doc[k] \in family
    /\ AnalyzedNextOn(ChunksOf(family))

AnalyzedFamilySpec == AnalyzedInit /\ [][AnalyzedFamilyNext]_analyzedVars
=============================================================================
