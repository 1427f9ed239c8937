---------------------------- MODULE MCTextIntake ----------------------------
(***************************************************************************)
(* The text intake and the display of the pending text for TLC.  The       *)
(* characters of one document are all of one alphabet: line endings, or    *)
(* footnotes with a letter of one byte or two, in chunks of any length; or *)
(* the markers of one or two repairs of the terminator, one by one, since  *)
(* the display is a function of the text whatever the chunks were.         *)
(***************************************************************************)
EXTENDS Terminator

CONSTANTS
  Alphabets,    \* sets of characters that occur together
  Markers       \* alphabets of which one character arrives at a time

ASSUME AlphabetsAssumption == UNION (Alphabets \cup Markers) \subseteq Char

MCChar == {"x", "wide", "LF", "CR", "[", "^", "]", " ", "*", "_", "tick", "~",
           "$", "(", ")", "!", "-", "ESC"}
MCBytes == [c \in Char |-> IF c = "wide" THEN 2 ELSE 1]
MCWordChar == {"x", "_"}

MCAlphabets ==
  {{"x", "LF", "CR"}, {"x", "[", "^", "]"}, {"wide", "[", "^", "]"}}

MCMarkers ==
  {{"x", "*", " ", "LF"}, {"x", "*", "_"}, {"x", "*", "tick"},
   {"x", "~", "tick"}, {"x", "$", "LF", "tick"}, {"x", "*", "ESC"},
   {"x", "_", "LF"}, {"x", "[", "]", "(", ")"}, {"x", "!", "[", "]", "("},
   {"x", "-", "LF", " "}, {"_", "[", "]", "("}, {"x", "_", "LF", "!", "["}}

ChunksOf(alphabet, max) == UNION {[1..n -> alphabet] : n \in 0..max}

MaxMarked == 6    \* bound on the characters of a document of markers

One == IF Len(input) < MaxMarked THEN 1 ELSE 0

In(alphabet) == \A k \in DOMAIN input : input[k] \in alphabet

AlphabetNext ==
  \/ \E alphabet \in Alphabets :
       In(alphabet) /\ NextOn(ChunksOf(alphabet, MaxChunk))
  \/ \E alphabet \in Markers :
       In(alphabet) /\ NextOn(ChunksOf(alphabet, One))

AlphabetSpec == Init /\ [][AlphabetNext]_vars
=============================================================================
