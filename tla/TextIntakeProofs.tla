--------------------------- MODULE TextIntakeProofs ---------------------------
(***************************************************************************)
(* The table of lines is right for every text, every chunking, every limit *)
(* of the buffer and every choice of the splitter.                         *)
(***************************************************************************)
EXTENDS TextIntake, Induction, SequenceTheorems, TLAPS

(***************************************************************************)
(* What a line is made of, and the lines of a table.                       *)
(***************************************************************************)
LEMMA LineFields ==
  ASSUME NEW line \in Line
  PROVE  line.start \in Nat /\ line.end \in Nat /\ line.newline \in BOOLEAN
BY DEF Line

(***************************************************************************)
(* The fields of the lines of a table have their types.                    *)
(***************************************************************************)
LEMMA TableFields ==
  ASSUME NEW t \in Seq(Line), NEW k \in 1..Len(t)
  PROVE  /\ t[k] \in Line
         /\ t[k].start \in Nat /\ t[k].end \in Nat /\ t[k].newline \in BOOLEAN
<1>1. t[k] \in Line
  OBVIOUS
<1> QED BY <1>1, LineFields

(***************************************************************************)
(* A line that is made has its type and its fields.                        *)
(***************************************************************************)
LEMMA LineType ==
  ASSUME NEW first \in Nat, NEW end \in Nat, NEW newline \in BOOLEAN
  PROVE  /\ LineOf(first, end, newline) \in Line
         /\ LineOf(first, end, newline).start = first
         /\ LineOf(first, end, newline).end = end
         /\ LineOf(first, end, newline).newline = newline
BY DEF LineOf, Line

(***************************************************************************)
(* Tiles, taken apart: what it says of the table, of one line, and of one  *)
(* character.                                                              *)
(***************************************************************************)
LEMMA TilesEnds ==
  ASSUME NEW t \in Seq(Line), NEW s, NEW n, Tiles(t, s, n)
  PROVE  /\ Len(t) \in Nat /\ Len(t) >= 1
         /\ t[1].start = 0 /\ t[Len(t)].end = Len(s)
BY DEF Tiles

(***************************************************************************)
(* What Tiles says of one line.                                            *)
(***************************************************************************)
LEMMA TilesLine ==
  ASSUME NEW t, NEW s, NEW n, Tiles(t, s, n), NEW k \in 1..Len(t)
  PROVE  /\ t[k].newline <=> k < Len(t)
         /\ t[k].start <= n /\ t[k].start <= t[k].end
         /\ t[k].end <= Len(s)
BY DEF Tiles

(***************************************************************************)
(* What it says of one character.                                          *)
(***************************************************************************)
LEMMA TilesChar ==
  ASSUME NEW t, NEW s, NEW n, Tiles(t, s, n), NEW k \in 1..Len(t),
         NEW j \in t[k].start + 1 .. t[k].end, j <= n
  PROVE  s[j] # "LF"
BY DEF Tiles

(***************************************************************************)
(* What it says of two neighbours.                                         *)
(***************************************************************************)
LEMMA TilesNext ==
  ASSUME NEW t, NEW s, NEW n, Tiles(t, s, n), NEW k \in 1..Len(t) - 1
  PROVE  s[t[k].end + 1] = "LF" /\ t[k + 1].start = t[k].end + 1
BY DEF Tiles

(***************************************************************************)
(* Putting another line in the place of the last one.                      *)
(***************************************************************************)
LEMMA ReplaceLast ==
  ASSUME NEW t \in Seq(Line), t # <<>>, NEW line \in Line
  PROVE  LET x == [t EXCEPT ![Len(t)] = line]
         IN  /\ x \in Seq(Line) /\ Len(x) = Len(t)
             /\ \A k \in 1..Len(t) : k # Len(t) => x[k] = t[k]
             /\ x[Len(t)] = line
OBVIOUS

(***************************************************************************)
(* A line that is appended, in terms of elements.                          *)
(***************************************************************************)
LEMMA AppendLine ==
  ASSUME NEW t \in Seq(Line), NEW line \in Line
  PROVE  LET x == t \o <<line>>
         IN  /\ x \in Seq(Line) /\ Len(x) = Len(t) + 1
             /\ \A k \in 1..Len(t) : x[k] = t[k]
             /\ x[Len(t) + 1] = line
<1>1. <<line>> \in Seq(Line) /\ Len(<<line>>) = 1 /\ <<line>>[1] = line
  OBVIOUS
<1> QED BY <1>1

(***************************************************************************)
(* Text at the end of the buffer goes into the last line.                  *)
(***************************************************************************)
LEMMA ExtendTiles ==
  ASSUME NEW t \in Seq(Line), NEW s \in Seq(Char), NEW u \in Seq(Char),
         Tiles(t, s, Len(s))
  PROVE  /\ ExtendLast(t, Len(s \o u)) \in Seq(Line)
         /\ Tiles(ExtendLast(t, Len(s \o u)), s \o u, Len(s))
<1> DEFINE v == s \o u
           x == ExtendLast(t, Len(v))
           line == LineOf(t[Len(t)].start, Len(v), t[Len(t)].newline)
<1>1. /\ v \in Seq(Char) /\ Len(v) = Len(s) + Len(u)
      /\ Len(s) \in Nat /\ Len(u) \in Nat /\ Len(v) \in Nat
      /\ \A j \in 1..Len(s) : v[j] = s[j]
  OBVIOUS
<1>2. /\ t # <<>> /\ Len(t) \in Nat /\ Len(t) >= 1
      /\ t[1].start = 0 /\ t[Len(t)].end = Len(s)
  BY TilesEnds DEF Tiles
<1>3. /\ line \in Line /\ line.start = t[Len(t)].start
      /\ line.end = Len(v) /\ line.newline = t[Len(t)].newline
  <2>1. Len(t) \in 1..Len(t)
    BY <1>2
  <2>2. t[Len(t)].start \in Nat /\ t[Len(t)].newline \in BOOLEAN
    BY <2>1, TableFields
  <2> QED BY <1>1, <2>2, LineType
<1>4. x = [t EXCEPT ![Len(t)] = line]
  BY DEF ExtendLast, Last
<1> HIDE DEF line, x, v
<1>5. /\ x \in Seq(Line) /\ Len(x) = Len(t)
      /\ \A k \in 1..Len(t) : k # Len(t) => x[k] = t[k]
      /\ x[Len(t)] = line
  BY <1>2, <1>3, <1>4, ReplaceLast
<1>6. ASSUME NEW k \in 1..Len(t)
      PROVE  /\ x[k].start = t[k].start
             /\ x[k].newline <=> t[k].newline
             /\ k # Len(t) => x[k].end = t[k].end
             /\ k = Len(t) => x[k].end = Len(v)
  <2>1. CASE k = Len(t)
    BY <2>1, <1>3, <1>5
  <2>2. CASE k # Len(t)
    <3>1. x[k] = t[k]
      BY <2>2, <1>5
    <3> QED BY <2>2, <3>1
  <2> QED BY <2>1, <2>2
<1>7. x # <<>> /\ x[1].start = 0 /\ x[Len(x)].end = Len(v)
  <2>1. 1 \in 1..Len(t) /\ Len(t) \in 1..Len(t)
    BY <1>2
  <2> QED BY <2>1, <1>2, <1>5, <1>6
<1>8. ASSUME NEW k \in 1..Len(x)
      PROVE  /\ x[k].newline <=> k < Len(x)
             /\ x[k].start <= Len(s) /\ x[k].start <= x[k].end
             /\ x[k].end <= Len(v)
             /\ \A j \in x[k].start + 1 .. x[k].end :
                  j <= Len(s) => v[j] # "LF"
  <2>1. k \in 1..Len(t)
    BY <1>5
  <2>2. t[k].start \in Nat /\ t[k].end \in Nat
    BY <2>1, TableFields
  <2>3. /\ t[k].newline <=> k < Len(t)
        /\ t[k].start <= Len(s) /\ t[k].start <= t[k].end
        /\ t[k].end <= Len(s)
    BY <2>1, TilesLine
  <2>4. x[k].newline <=> k < Len(x)
    BY <2>1, <2>3, <1>5, <1>6
  <2>5. /\ x[k].start <= Len(s) /\ x[k].start <= x[k].end
        /\ x[k].end <= Len(v)
    BY <2>1, <2>2, <2>3, <1>1, <1>6
  <2>6. ASSUME NEW j \in x[k].start + 1 .. x[k].end, j <= Len(s)
        PROVE  v[j] # "LF"
    <3>1. x[k].start = t[k].start /\ x[k].end \in Nat /\ j \in 1..Len(s)
      BY <2>1, <2>2, <2>6, <1>1, <1>6
    <3>2. j \in t[k].start + 1 .. t[k].end
      BY <2>1, <2>2, <2>6, <3>1, <1>2, <1>6
    <3>3. s[j] # "LF"
      BY <2>1, <2>6, <3>2, TilesChar
    <3> QED BY <3>1, <3>3, <1>1
  <2> QED BY <2>4, <2>5, <2>6
<1>9. ASSUME NEW k \in 1..Len(x) - 1
      PROVE  v[x[k].end + 1] = "LF" /\ x[k + 1].start = x[k].end + 1
  <2>1. /\ k \in 1..Len(t) - 1 /\ k \in 1..Len(t) /\ k + 1 \in 1..Len(t)
        /\ k # Len(t)
    BY <1>2, <1>5
  <2>2. x[k].end = t[k].end /\ x[k + 1].start = t[k + 1].start
    BY <2>1, <1>6
  <2>3. s[t[k].end + 1] = "LF" /\ t[k + 1].start = t[k].end + 1
    BY <2>1, TilesNext
  <2>4. t[k].end \in Nat /\ t[k + 1].start <= Len(s)
    BY <2>1, TableFields, TilesLine
  <2>5. t[k].end + 1 \in 1..Len(s)
    BY <2>3, <2>4, <1>1
  <2> QED BY <2>2, <2>3, <2>5, <1>1
<1>10. Tiles(x, v, Len(s))
  BY <1>7, <1>8, <1>9 DEF Tiles
<1> QED BY <1>5, <1>10 DEF x, v

(***************************************************************************)
(* One more character is scanned.                                          *)
(***************************************************************************)
LEMMA PlainCharTiles ==
  ASSUME NEW t \in Seq(Line), NEW s \in Seq(Char), NEW n \in Nat,
         n < Len(s), s[n + 1] # "LF", Tiles(t, s, n)
  PROVE  Tiles(t, s, n + 1)
<1>1. ASSUME NEW k \in 1..Len(t)
      PROVE  /\ t[k].newline <=> k < Len(t)
             /\ t[k].start <= n + 1 /\ t[k].start <= t[k].end
             /\ t[k].end <= Len(s)
             /\ \A j \in t[k].start + 1 .. t[k].end :
                  j <= n + 1 => s[j] # "LF"
  <2>1. t[k].start \in Nat /\ t[k].end \in Nat
    BY TableFields
  <2>2. /\ t[k].newline <=> k < Len(t)
        /\ t[k].start <= n /\ t[k].start <= t[k].end
        /\ t[k].end <= Len(s)
    BY TilesLine
  <2>3. ASSUME NEW j \in t[k].start + 1 .. t[k].end, j <= n + 1
        PROVE  s[j] # "LF"
    <3>1. CASE j = n + 1
      BY <3>1
    <3>2. CASE j # n + 1
      <4>1. j <= n
        BY <2>1, <2>3, <3>2
      <4> QED BY <2>3, <4>1, TilesChar
    <3> QED BY <3>1, <3>2
  <2>4. t[k].start <= n + 1
    BY <2>1, <2>2
  <2> QED BY <2>2, <2>3, <2>4
<1>2. /\ t # <<>> /\ t[1].start = 0 /\ t[Len(t)].end = Len(s)
      /\ \A k \in 1..Len(t) - 1 :
           s[t[k].end + 1] = "LF" /\ t[k + 1].start = t[k].end + 1
  BY DEF Tiles
<1> QED BY <1>1, <1>2 DEF Tiles

(***************************************************************************)
(* The scan of a newline breaks the last line there.                       *)
(***************************************************************************)
LEMMA NewlineTiles ==
  ASSUME NEW t \in Seq(Line), NEW n \in Nat, buffer \in Seq(Char),
         n < Len(buffer), buffer[n + 1] = "LF", Tiles(t, buffer, n)
  PROVE  /\ BreakLine(t, n) \in Seq(Line)
         /\ Tiles(BreakLine(t, n), buffer, n + 1)
<1> DEFINE s == buffer
           m == Len(t)
           ended == LineOf(t[m].start, n, TRUE)
           begun == LineOf(n + 1, Len(s), FALSE)
           y == [t EXCEPT ![m] = ended]
           x == BreakLine(t, n)
<1>1. /\ t # <<>> /\ m \in Nat /\ m >= 1 /\ Len(s) \in Nat /\ n < Len(s)
      /\ t[1].start = 0 /\ t[m].end = Len(s)
  BY TilesEnds DEF Tiles
<1>2. m \in 1..m /\ t[m].start \in Nat /\ t[m].start <= n
  <2>1. m \in 1..m
    BY <1>1
  <2> QED BY <2>1, TableFields, TilesLine
<1>3. /\ ended \in Line /\ ended.start = t[m].start /\ ended.end = n
      /\ ended.newline = TRUE
  BY <1>2, LineType
<1>4. /\ begun \in Line /\ begun.start = n + 1 /\ begun.end = Len(s)
      /\ begun.newline = FALSE
  <2>1. ASSUME NEW first \in Nat, NEW end \in Nat
        PROVE  /\ LineOf(first, end, FALSE) \in Line
               /\ LineOf(first, end, FALSE).start = first
               /\ LineOf(first, end, FALSE).end = end
               /\ LineOf(first, end, FALSE).newline = FALSE
    BY LineType
  <2>2. n + 1 \in Nat
    OBVIOUS
  <2> QED BY <1>1, <2>1, <2>2
<1>5. x = y \o <<begun>>
  BY DEF BreakLine, NewLine, Last
<1> HIDE DEF ended, begun, x
<1>6. /\ y \in Seq(Line) /\ Len(y) = m
      /\ \A k \in 1..m : k # m => y[k] = t[k]
      /\ y[m] = ended
  BY <1>1, <1>3, ReplaceLast
<1> HIDE DEF y, m
<1>7. /\ x \in Seq(Line) /\ Len(x) = m + 1
      /\ \A k \in 1..m : x[k] = y[k]
      /\ x[m + 1] = begun
  <2>1. /\ y \o <<begun>> \in Seq(Line)
        /\ Len(y \o <<begun>>) = Len(y) + 1
        /\ \A k \in 1..Len(y) : (y \o <<begun>>)[k] = y[k]
        /\ (y \o <<begun>>)[Len(y) + 1] = begun
    BY <1>4, <1>6, AppendLine
  <2> QED BY <1>5, <1>6, <2>1
<1>8. ASSUME NEW k \in 1..m - 1
      PROVE  x[k] = t[k]
  <2>1. k \in 1..m /\ k # m
    BY <1>1
  <2> QED BY <1>6, <1>7, <2>1
<1>9. x[m] = ended
  BY <1>2, <1>6, <1>7
<1>10. x # <<>> /\ x[1].start = 0 /\ x[Len(x)].end = Len(s)
  <2>1. x[1].start = 0
    <3>1. CASE m = 1
      BY <1>1, <1>3, <1>9, <3>1
    <3>2. CASE m > 1
      <4>1. x[1] = t[1]
        BY <1>1, <1>8, <3>2
      <4> QED BY <1>1, <4>1
    <3> QED BY <1>1, <3>1, <3>2
  <2> QED BY <1>1, <1>4, <1>7, <2>1
<1>11. ASSUME NEW k \in 1..m - 1
       PROVE  /\ x[k].newline /\ x[k].start \in Nat /\ x[k].end \in Nat
              /\ x[k].start <= n /\ x[k].start <= x[k].end
              /\ x[k].end <= Len(s) /\ x[k].end < n
              /\ \A j \in x[k].start + 1 .. x[k].end : s[j] # "LF"
              /\ s[x[k].end + 1] = "LF" /\ t[k + 1].start = x[k].end + 1
  <2>1. k \in 1..m /\ k < m /\ k + 1 \in 1..m /\ x[k] = t[k]
    BY <1>1, <1>8
  <2>2. t[k].start \in Nat /\ t[k].end \in Nat
    BY <2>1, TableFields DEF m
  <2>3. /\ t[k].newline <=> k < m
        /\ t[k].start <= n /\ t[k].start <= t[k].end
        /\ t[k].end <= Len(s)
    BY <2>1, TilesLine DEF m
  <2>4. t[k + 1].start <= n
    BY <2>1, TilesLine DEF m
  <2>5. s[t[k].end + 1] = "LF" /\ t[k + 1].start = t[k].end + 1
    BY <2>1, TilesNext DEF m
  <2>6. t[k].end < n
    BY <2>2, <2>4, <2>5
  <2>7. ASSUME NEW j \in t[k].start + 1 .. t[k].end
        PROVE  s[j] # "LF"
    <3>1. j <= n
      BY <2>2, <2>6
    <3> QED BY <2>1, <3>1, TilesChar DEF m
  <2> QED BY <2>1, <2>2, <2>3, <2>5, <2>6, <2>7
<1>12. /\ x[m].newline /\ x[m].start = t[m].start /\ x[m].end = n
       /\ \A j \in x[m].start + 1 .. x[m].end : s[j] # "LF"
       /\ s[x[m].end + 1] = "LF" /\ x[m + 1].start = x[m].end + 1
  <2>1. x[m].newline /\ x[m].start = t[m].start /\ x[m].end = n
    BY <1>3, <1>9
  <2>2. ASSUME NEW j \in t[m].start + 1 .. n
        PROVE  s[j] # "LF"
    <3>1. j \in t[m].start + 1 .. t[m].end /\ j <= n
      BY <1>1, <1>2
    <3> QED BY <1>2, <3>1, TilesChar DEF m
  <2> QED BY <1>4, <1>7, <2>1, <2>2
<1>13. ~x[m + 1].newline /\ x[m + 1].start = n + 1 /\ x[m + 1].end = Len(s)
  BY <1>4, <1>7
<1>14. ASSUME NEW k \in 1..Len(x)
       PROVE  /\ x[k].newline <=> k < Len(x)
              /\ x[k].start <= n + 1 /\ x[k].start <= x[k].end
              /\ x[k].end <= Len(s)
              /\ \A j \in x[k].start + 1 .. x[k].end :
                   j <= n + 1 => s[j] # "LF"
  <2>0. k \in 1..m + 1
    BY <1>7
  <2>1. CASE k < m
    <3>1. k \in 1..m - 1
      BY <1>1, <2>0, <2>1
    <3>2. x[k].start <= n + 1 /\ k < Len(x)
      BY <1>1, <1>7, <1>11, <2>1, <3>1
    <3> QED BY <1>11, <3>1, <3>2
  <2>2. CASE k = m
    <3>1. x[k].start <= n + 1 /\ x[k].end <= Len(s) /\ k < Len(x)
      BY <1>1, <1>2, <1>7, <1>12, <2>2
    <3> QED BY <1>2, <1>12, <2>2, <3>1
  <2>3. CASE k = m + 1
    <3>1. ~(k < Len(x)) /\ n + 1 <= Len(s)
      BY <1>1, <1>7, <2>3
    <3>2. ASSUME NEW j \in x[k].start + 1 .. x[k].end, j <= n + 1
          PROVE  FALSE
      BY <1>13, <2>3, <3>2
    <3> QED BY <1>13, <2>3, <3>1, <3>2
  <2> QED BY <1>1, <2>0, <2>1, <2>2, <2>3
<1>15. ASSUME NEW k \in 1..Len(x) - 1
       PROVE  s[x[k].end + 1] = "LF" /\ x[k + 1].start = x[k].end + 1
  <2>0. k \in 1..m
    BY <1>1, <1>7
  <2>1. CASE k = m
    BY <1>12, <2>1
  <2>2. CASE k # m
    <3>1. k \in 1..m - 1 /\ k + 1 \in 1..m
      BY <1>1, <2>0, <2>2
    <3>2. t[k + 1].start = x[k].end + 1 /\ s[x[k].end + 1] = "LF"
      BY <1>11, <3>1
    <3>3. x[k + 1].start = t[k + 1].start
      <4>1. CASE k + 1 = m
        BY <1>12, <4>1
      <4>2. CASE k + 1 # m
        <5>1. k + 1 \in 1..m - 1
          BY <1>1, <3>1, <4>2
        <5> QED BY <1>8, <5>1
      <4> QED BY <4>1, <4>2
    <3> QED BY <3>2, <3>3
  <2> QED BY <2>1, <2>2
<1>16. Tiles(x, s, n + 1)
  BY <1>10, <1>14, <1>15 DEF Tiles
<1> QED BY <1>7, <1>16 DEF x

(***************************************************************************)
(* A text of which nothing has been scanned is one unfinished line.        *)
(***************************************************************************)
LEMMA OneLineTiles ==
  ASSUME NEW s \in Seq(Char)
  PROVE  /\ <<NewLine(0, Len(s))>> \in Seq(Line)
         /\ Tiles(<<NewLine(0, Len(s))>>, s, 0)
<1> DEFINE line == LineOf(0, Len(s), FALSE)
           x == <<line>>
<1>1. Len(s) \in Nat
  OBVIOUS
<1>2. /\ line \in Line /\ line.start = 0 /\ line.end = Len(s)
      /\ line.newline = FALSE
  <2>1. ASSUME NEW first \in Nat, NEW end \in Nat
        PROVE  /\ LineOf(first, end, FALSE) \in Line
               /\ LineOf(first, end, FALSE).start = first
               /\ LineOf(first, end, FALSE).end = end
               /\ LineOf(first, end, FALSE).newline = FALSE
    BY LineType
  <2> QED BY <1>1, <2>1
<1>3. <<NewLine(0, Len(s))>> = x
  BY DEF NewLine
<1> HIDE DEF line
<1>4. x \in Seq(Line) /\ Len(x) = 1 /\ x[1] = line
  BY <1>2
<1> HIDE DEF x
<1>5. ASSUME NEW k \in 1..Len(x)
      PROVE  /\ x[k].newline <=> k < Len(x)
             /\ x[k].start <= 0 /\ x[k].start <= x[k].end
             /\ x[k].end <= Len(s)
             /\ \A j \in x[k].start + 1 .. x[k].end : j <= 0 => s[j] # "LF"
  <2>1. k = 1 /\ x[k] = line
    BY <1>4
  <2>2. /\ x[k].start <= 0 /\ x[k].start <= x[k].end /\ x[k].end <= Len(s)
        /\ \A j \in x[k].start + 1 .. x[k].end : j <= 0 => s[j] # "LF"
    BY <1>1, <1>2, <2>1
  <2>3. ~(k < Len(x))
    BY <1>4, <2>1
  <2>4. x[k].newline <=> k < Len(x)
    <3>1. x[k].newline = FALSE
      BY <1>2, <2>1
    <3> QED BY <2>3, <3>1
  <2> QED BY <2>2, <2>4
<1>6. \A k \in 1..Len(x) - 1 :
        s[x[k].end + 1] = "LF" /\ x[k + 1].start = x[k].end + 1
  BY <1>4
<1>7. x # <<>> /\ x[1].start = 0 /\ x[Len(x)].end = Len(s)
  <2>1. x # <<>>
    BY <1>4
  <2>2. x[1].start = 0 /\ x[Len(x)].end = Len(s)
    BY <1>2, <1>4
  <2> QED BY <2>1, <2>2
<1>8. Tiles(x, s, 0)
  BY <1>5, <1>6, <1>7 DEF Tiles
<1> QED BY <1>3, <1>4, <1>8

(***************************************************************************)
(* A chunk is a sequence of characters.                                    *)
(***************************************************************************)
LEMMA ChunkType == \A chunk \in Chunk : chunk \in Seq(Char)
<1> SUFFICES ASSUME NEW chunk \in Chunk PROVE chunk \in Seq(Char)
  OBVIOUS
<1>1. PICK n \in 0..MaxChunk : chunk \in [1..n -> Char]
  BY DEF Chunk
<1>2. n \in Nat
  BY IntakeAssumption
<1> QED BY <1>1, <1>2

(***************************************************************************)
(* So is the rest of a sequence.                                           *)
(***************************************************************************)
LEMMA FromType ==
  ASSUME NEW s \in Seq(Char), NEW n \in 0..Len(s)
  PROVE  From(s, n) \in Seq(Char)
<1>1. n \in Nat /\ Len(s) \in Nat /\ n <= Len(s)
  OBVIOUS
<1>2. \A k \in n + 1 .. Len(s) : s[k] \in Char
  BY <1>1
<1> QED BY <1>1, <1>2, SubSeqProperties DEF From

(***************************************************************************)
(* The rest of a text, by characters.                                      *)
(***************************************************************************)
LEMMA FromIs ==
  ASSUME NEW s \in Seq(Char), NEW n \in 0..Len(s)
  PROVE  /\ DOMAIN From(s, n) = 1..Len(s) - n
         /\ \A j \in 1..Len(s) - n : From(s, n)[j] = s[n + j]
<1>1. n \in Nat /\ Len(s) \in Nat /\ n <= Len(s)
  OBVIOUS
<1>2. \A k \in n + 1 .. Len(s) : s[k] \in Char
  BY <1>1
<1>3. /\ Len(SubSeq(s, n + 1, Len(s))) = Len(s) - n
      /\ SubSeq(s, n + 1, Len(s)) \in Seq(Char)
      /\ \A j \in 1..Len(s) - n : SubSeq(s, n + 1, Len(s))[j] = s[n + j]
  OBVIOUS
<1> QED BY <1>1, <1>3 DEF From

(***************************************************************************)
(* An offset of a line lies in the buffer.                                 *)
(***************************************************************************)
LEMMA OffsetType ==
  ASSUME ScanInv, NEW line \in Nat
  PROVE  OffsetOf(line) \in 0..Len(buffer)
<1>1. Len(buffer) \in Nat /\ scan <= Len(buffer)
  BY DEF ScanInv
<1>2. CASE line < Len(table)
  <2>1. line + 1 \in 1..Len(table)
    BY <1>2, TilesEnds DEF ScanInv
  <2>2. table[line + 1].start \in Nat /\ table[line + 1].start <= scan
    BY <2>1, TableFields, TilesLine DEF ScanInv
  <2>3. OffsetOf(line) = table[line + 1].start
    BY <1>2 DEF OffsetOf
  <2> QED BY <1>1, <2>2, <2>3 DEF ScanInv
<1>3. CASE ~(line < Len(table))
  BY <1>1, <1>3 DEF OffsetOf
<1> QED BY <1>2, <1>3

(***************************************************************************)
(* A buffer that is compacted starts again with one line.                  *)
(***************************************************************************)
LEMMA CompactKeeps ==
  ASSUME ScanInv, scan = Len(buffer), NEW first \in Nat, Compact(first)
  PROVE  /\ buffer' \in Seq(Char) /\ table' \in Seq(Line)
         /\ start' \in Nat /\ scan' \in 0..Len(buffer')
         /\ pc' \in {"idle", "rebuild"}
         /\ pc' = "idle" => scan' = Len(buffer')
         /\ Tiles(table', buffer', scan')
<1>1. CASE Compacts(first)
  <2>1. /\ buffer' = From(buffer, OffsetOf(first))
        /\ table' = <<NewLine(0, Len(buffer'))>> /\ scan' = 0
        /\ start' = 0 /\ pc' = "rebuild"
    BY <1>1 DEF Compact
  <2>2. buffer' \in Seq(Char)
    BY <2>1, OffsetType, FromType DEF ScanInv
  <2>3. table' \in Seq(Line) /\ Tiles(table', buffer', scan')
    BY <2>1, <2>2, OneLineTiles
  <2> QED BY <2>1, <2>2, <2>3
<1>2. CASE ~Compacts(first)
  <2>1. start' = first /\ pc' = "idle" /\ UNCHANGED text
    BY <1>2 DEF Compact
  <2> QED BY <2>1 DEF ScanInv, text
<1> QED BY <1>1, <1>2

(***************************************************************************)
(* ScanInv holds at the start.                                             *)
(***************************************************************************)
LEMMA InitScan == Init => ScanInv
<1> SUFFICES ASSUME Init PROVE ScanInv
  OBVIOUS
<1>1. <<>> \in Seq(Char) /\ Len(<<>>) = 0
  OBVIOUS
<1>2. <<NewLine(0, 0)>> \in Seq(Line) /\ Tiles(<<NewLine(0, 0)>>, <<>>, 0)
  <2>1. /\ <<NewLine(0, Len(<<>>))>> \in Seq(Line)
        /\ Tiles(<<NewLine(0, Len(<<>>))>>, <<>>, 0)
    BY <1>1, OneLineTiles
  <2> QED BY <1>1, <2>1
<1> QED BY <1>1, <1>2 DEF Init, ScanInv

(***************************************************************************)
(* A step of the text intake keeps ScanInv: one step for each action.      *)
(***************************************************************************)
LEMMA NextScan == ScanInv /\ [Next]_vars => ScanInv'
<1> SUFFICES ASSUME ScanInv, [Next]_vars
             PROVE  ScanInv'
  OBVIOUS
<1> USE CharAssumption
<1>0. "LF" \in Char /\ <<"LF">> \in Seq(Char) /\ <<>> \in Seq(Char)
  OBVIOUS
<1>1. ASSUME NEW chunk \in Chunk, AppendChunk(chunk)
      PROVE  ScanInv'
  <2>1. chunk \in Seq(Char)
    BY ChunkType
  <2>2. rest' \in Seq(Char) /\ out' \in Seq(Char)
    BY <1>0, <1>1, <2>1 DEF AppendChunk, AfterCr
  <2>3. /\ pc' = "normalize" /\ UNCHANGED <<buffer, table, scan, start>>
        /\ scan = Len(buffer)
    BY <1>1 DEF AppendChunk, ScanInv, text
  <2> QED BY <2>2, <2>3 DEF ScanInv
<1>2. CASE Normalize
  <2>1. rest' \in Seq(Char) /\ out' \in Seq(Char)
    <3>0. rest \in Seq(Char) /\ out \in Seq(Char) /\ rest # <<>>
      BY <1>2 DEF Normalize, ScanInv
    <3>1. CASE ReadPlain
      BY <3>0, <3>1 DEF ReadPlain
    <3>2. CASE ReadPair
      BY <1>0, <3>0, <3>2 DEF ReadPair
    <3>3. CASE KeepCr
      BY <1>0, <3>0, <3>3 DEF KeepCr
    <3>4. CASE ReadLoneCr
      BY <1>0, <3>0, <3>4 DEF ReadLoneCr
    <3> QED BY <1>2, <3>1, <3>2, <3>3, <3>4 DEF Normalize
  <2>2. UNCHANGED <<pc, buffer, table, scan, start>>
    BY <1>2 DEF Normalize, text
  <2> QED BY <2>1, <2>2 DEF ScanInv
<1>3. CASE Receive
  <2>1. /\ buffer' = buffer \o out /\ table' = ExtendLast(table, Len(buffer'))
        /\ scan' = Len(buffer) /\ out' = <<>> /\ rest' = rest
        /\ pc' \in {"enter", "append"} /\ start' \in {0, start}
    BY <1>3 DEF Receive
  <2>2. scan = Len(buffer) /\ Tiles(table, buffer, Len(buffer))
    BY <1>3 DEF Receive, ScanInv
  <2>3. table' \in Seq(Line) /\ Tiles(table', buffer', scan')
    BY <2>1, <2>2, ExtendTiles DEF ScanInv
  <2>4. buffer' \in Seq(Char) /\ scan' \in 0..Len(buffer')
    BY <2>1 DEF ScanInv
  <2> QED BY <1>0, <2>1, <2>3, <2>4 DEF ScanInv
<1>4. CASE ScanChar
  <2>1. /\ scan' = scan + 1 /\ UNCHANGED <<pc, rest, out, buffer, start>>
        /\ pc \notin {"idle", "normalize"} /\ scan < Len(buffer)
        /\ scan \in Nat /\ Len(buffer) \in Nat
    BY <1>4 DEF ScanChar, Scanning, ScanInv
  <2>2. table' \in Seq(Line) /\ Tiles(table', buffer, scan + 1)
    <3>1. CASE buffer[scan + 1] = "LF"
      <4>1. table' = BreakLine(table, scan)
        BY <1>4, <3>1 DEF ScanChar
      <4> QED BY <2>1, <3>1, <4>1, NewlineTiles DEF ScanInv
    <3>2. CASE buffer[scan + 1] # "LF"
      <4>1. table' = table
        BY <1>4, <3>2 DEF ScanChar
      <4> QED BY <2>1, <3>2, <4>1, PlainCharTiles DEF ScanInv
    <3> QED BY <3>1, <3>2
  <2>3. scan' \in 0..Len(buffer')
    BY <2>1
  <2> QED BY <2>1, <2>2, <2>3 DEF ScanInv
<1>5. CASE Split
  <2>1. scan = Len(buffer) /\ UNCHANGED <<rest, out>>
    BY <1>5 DEF Split, Scanned
  <2>2. PICK first \in start..Len(table) - 1 : Compact(first)
    BY <1>5 DEF Split
  <2>3. first \in Nat
    BY DEF ScanInv
  <2> QED BY <2>1, <2>2, <2>3, CompactKeeps DEF ScanInv
<1>6. CASE Return
  BY <1>6 DEF Return, Scanned, ScanInv, text
<1>7. CASE Finalize
  <2>1. /\ buffer' = buffer \o CrAtEnd
        /\ table' = ExtendLast(table, Len(buffer'))
        /\ scan' = Len(buffer) /\ pc' = "finalize"
        /\ UNCHANGED <<rest, out, start>>
    BY <1>7 DEF Finalize
  <2>2. CrAtEnd \in Seq(Char)
    BY <1>0 DEF CrAtEnd
  <2>3. scan = Len(buffer) /\ Tiles(table, buffer, Len(buffer))
    BY <1>7 DEF Finalize, ScanInv
  <2>4. table' \in Seq(Line) /\ Tiles(table', buffer', scan')
    BY <2>1, <2>2, <2>3, ExtendTiles DEF ScanInv
  <2>5. buffer' \in Seq(Char) /\ scan' \in 0..Len(buffer')
    BY <2>1, <2>2 DEF ScanInv
  <2> QED BY <2>1, <2>4, <2>5 DEF ScanInv
<1>8. CASE FinalizeBlank
  BY <1>8 DEF FinalizeBlank, Scanned, ScanInv, text
<1>9. CASE CommitPending
  <2>1. scan = Len(buffer) /\ UNCHANGED <<rest, out>>
    BY <1>9 DEF CommitPending, Scanned
  <2>2. PICK first \in {start, Len(table)} : Compact(first)
    BY <1>9 DEF CommitPending
  <2>3. first \in Nat
    BY DEF ScanInv
  <2> QED BY <2>1, <2>2, <2>3, CompactKeeps DEF ScanInv
<1>10. CASE Reset
  <2>1. /\ rest' = <<>> /\ out' = <<>> /\ buffer' = <<>> /\ scan' = 0
        /\ table' = <<NewLine(0, 0)>> /\ start' = 0 /\ pc' = "idle"
    BY <1>10 DEF Reset
  <2>2. <<NewLine(0, Len(<<>>))>> \in Seq(Line)
        /\ Tiles(<<NewLine(0, Len(<<>>))>>, <<>>, 0)
    BY <1>0, OneLineTiles
  <2>3. Len(<<>>) = 0
    OBVIOUS
  <2> QED BY <1>0, <2>1, <2>2, <2>3 DEF ScanInv
<1>11. CASE UNCHANGED vars
  BY <1>11 DEF vars, text, ScanInv
<1> QED
  BY <1>1, <1>2, <1>3, <1>4, <1>5, <1>6, <1>7, <1>8, <1>9, <1>10, <1>11
  DEF Next, NextOn

(***************************************************************************)
(* ScanInv is inductive: whatever the chunks, the limit of the buffer and  *)
(* the lines the splitter commits.                                         *)
(***************************************************************************)
THEOREM ScanInvHolds == Spec => []ScanInv
BY InitScan, NextScan, PTL DEF Spec

(***************************************************************************)
(* Between calls the table of lines is that of the buffer.                 *)
(***************************************************************************)
THEOREM LinesTileHolds == Spec => []LinesTile
<1>1. ScanInv => LinesTile
  BY DEF ScanInv, LinesTile
<1> QED BY <1>1, ScanInvHolds, PTL

-----------------------------------------------------------------------------
(***************************************************************************)
(* The length in bytes, as a recursion over the characters.                *)
(***************************************************************************)
IsBytes(f, s) ==
  /\ f \in [0..Len(s) -> Nat]
  /\ f[0] = 0
  /\ \A n \in 1..Len(s) : f[n] = f[n - 1] + Bytes[s[n]]

(***************************************************************************)
(* The recursion has a solution, and BytesOf is its last value.            *)
(***************************************************************************)
LEMMA BytesIs ==
  ASSUME NEW s \in Seq(Char)
  PROVE  \E f : IsBytes(f, s) /\ BytesOf(s) = f[Len(s)]
<1> DEFINE L == Len(s)
           V == Nat
           zero == 0
           step == [n \in 1..L |-> [m \in V |-> m + Bytes[s[n]]]]
           g == CHOOSE g : g = [n \in 0..L |-> IF n = 0 THEN 0
                                               ELSE g[n - 1] + Bytes[s[n]]]
<1>1. L \in Nat /\ \A n \in 1..L : Bytes[s[n]] \in Nat
  BY CharAssumption
<1>2. step \in [1..L -> [V -> V]] /\ zero \in V
  BY <1>1
<1>3. PICK f : /\ f \in [0..L -> V]
               /\ f[0] = zero
               /\ \A n \in 1..L : f[n] = step[n][f[n - 1]]
  <2>1. L \in Nat /\ zero \in V /\ step \in [1..L -> [V -> V]]
    BY <1>1, <1>2
  <2> HIDE DEF step, L, V, zero
  <2>2. QED
    BY ONLY <2>1, RecursionExists
<1>4. ASSUME NEW n \in 1..L
      PROVE  f[n] = f[n - 1] + Bytes[s[n]]
  <2>1. n - 1 \in 0..L /\ f[n - 1] \in Nat
    BY <1>1, <1>3
  <2>2. step[n][f[n - 1]] = f[n - 1] + Bytes[s[n]]
    BY <2>1
  <2>3. QED
    BY <1>3, <2>2
<1>5. f = [n \in 0..L |-> IF n = 0 THEN 0 ELSE f[n - 1] + Bytes[s[n]]]
  <2> HIDE DEF step
  <2>1. \A n \in 0..L : n # 0 => n \in 1..L
    BY <1>1
  <2>2. QED
    BY <1>3, <1>4, <2>1
<1>6. g = [n \in 0..L |-> IF n = 0 THEN 0 ELSE g[n - 1] + Bytes[s[n]]]
  BY <1>5
<1>7. BytesOf(s) = g[L]
  BY DEF BytesOf
<1> HIDE DEF g, step
<1>8. \A n \in 0..L : f[n] = g[n]
  <2>1. f[0] = g[0]
    BY <1>1, <1>3, <1>6
  <2>2. ASSUME NEW n \in 1..L, f[n - 1] = g[n - 1]
        PROVE  f[n] = g[n]
    <3>1. n \in 0..L /\ n # 0
      BY <1>1
    <3>2. g[n] = g[n - 1] + Bytes[s[n]]
      BY <1>6, <3>1
    <3>3. QED
      BY <1>4, <2>2, <3>2
  <2>3. QED
    BY <1>1, <2>1, <2>2, StepwiseEqual
<1>9. L \in 0..L
  BY <1>1
<1>10. IsBytes(f, s)
  BY <1>3, <1>4 DEF IsBytes
<1>11. QED
  BY <1>7, <1>8, <1>9, <1>10

(***************************************************************************)
(* Two solutions for texts that agree up to a place agree there.           *)
(***************************************************************************)
LEMMA BytesUnique ==
  ASSUME NEW s, s \in Seq(Char), NEW t, t \in Seq(Char), NEW f, NEW g,
         IsBytes(f, s), IsBytes(g, t), NEW N, N \in Nat,
         N <= Len(s), N <= Len(t), \A k \in 1..N : s[k] = t[k]
  PROVE  f[N] = g[N]
<1>1. f[0] = g[0]
  BY DEF IsBytes
<1>2. ASSUME NEW n \in 1..N, f[n - 1] = g[n - 1]
      PROVE  f[n] = g[n]
  <2>1. n \in 1..Len(s) /\ n \in 1..Len(t)
    OBVIOUS
  <2>2. QED
    BY <1>2, <2>1 DEF IsBytes
<1>3. \A n \in 0..N : f[n] = g[n]
  BY ONLY N \in Nat, <1>1, <1>2, StepwiseEqual
<1>4. QED
  BY <1>3

(***************************************************************************)
(* Lengths are natural numbers, and add up.                                *)
(***************************************************************************)
LEMMA BytesType ==
  ASSUME NEW s \in Seq(Char)
  PROVE  BytesOf(s) \in Nat
<1>1. PICK f : IsBytes(f, s) /\ BytesOf(s) = f[Len(s)]
  BY BytesIs
<1>2. Len(s) \in 0..Len(s)
  OBVIOUS
<1>3. QED
  BY <1>1, <1>2 DEF IsBytes

(***************************************************************************)
(* The length of nothing.                                                  *)
(***************************************************************************)
LEMMA BytesEmpty == BytesOf(<<>>) = 0
<1>1. <<>> \in Seq(Char) /\ Len(<<>>) = 0
  OBVIOUS
<1>2. PICK f : IsBytes(f, <<>>) /\ BytesOf(<<>>) = f[Len(<<>>)]
  BY <1>1, BytesIs
<1>3. QED
  BY <1>1, <1>2 DEF IsBytes

(***************************************************************************)
(* The length of two texts in a row.                                       *)
(***************************************************************************)
LEMMA BytesConcat ==
  ASSUME NEW s \in Seq(Char), NEW t \in Seq(Char)
  PROVE  BytesOf(s \o t) = BytesOf(s) + BytesOf(t)
<1> DEFINE u == s \o t
           M == Len(s)
           N == Len(t)
<1>1. /\ u \in Seq(Char) /\ Len(u) = M + N /\ M \in Nat /\ N \in Nat
      /\ \A k \in 1..M : u[k] = s[k]
      /\ \A k \in 1..N : u[M + k] = t[k]
  OBVIOUS
<1> HIDE DEF u
<1>2. PICK f : IsBytes(f, u) /\ BytesOf(u) = f[Len(u)]
  BY <1>1, BytesIs
<1>3. PICK g : IsBytes(g, s) /\ BytesOf(s) = g[M]
  BY BytesIs
<1>4. PICK h : IsBytes(h, t) /\ BytesOf(t) = h[N]
  BY BytesIs
<1>5. f[M] = g[M]
  <2>1. M <= Len(u) /\ M <= Len(s) /\ \A k \in 1..M : u[k] = s[k]
    BY <1>1
  <2>2. QED
    <3>1. /\ u \in Seq(Char) /\ s \in Seq(Char) /\ M \in Nat
          /\ IsBytes(f, u) /\ IsBytes(g, s)
      BY <1>1, <1>2, <1>3
    <3>2. QED
      BY ONLY <2>1, <3>1, BytesUnique
<1> DEFINE a == [k \in 0..N |-> f[M + k]]
           b == [k \in 0..N |-> g[M] + h[k]]
<1>6. a[0] = b[0]
  <2>1. 0 \in 0..N /\ M + 0 = M /\ h[0] = 0 /\ g[M] \in Nat
    <3>1. 0 \in 0..N /\ M + 0 = M /\ M \in 0..M
      BY <1>1
    <3>2. h[0] = 0
      BY <1>4 DEF IsBytes
    <3>3. g[M] \in Nat
      BY <1>3, <3>1 DEF IsBytes
    <3>4. QED
      BY <3>1, <3>2, <3>3
  <2>2. QED
    BY <1>5, <2>1
<1>7. ASSUME NEW k \in 1..N, a[k - 1] = b[k - 1]
      PROVE  a[k] = b[k]
  <2>1. /\ k \in 0..N /\ k - 1 \in 0..N /\ M + k \in 1..Len(u)
        /\ (M + k) - 1 = M + (k - 1)
    BY <1>1
  <2>2. f[M + k] = f[M + (k - 1)] + Bytes[u[M + k]]
    BY <1>2, <2>1 DEF IsBytes
  <2>3. h[k] = h[k - 1] + Bytes[t[k]] /\ h[k - 1] \in Nat
    BY <1>4, <2>1 DEF IsBytes
  <2>4. f[M + (k - 1)] = g[M] + h[k - 1]
    BY <1>7, <2>1
  <2>5. g[M] \in Nat /\ Bytes[t[k]] \in Nat /\ u[M + k] = t[k]
    <3>1. t[k] \in Char /\ M \in 0..M
      BY <1>1
    <3>2. QED
      BY <1>1, <1>3, <3>1, CharAssumption DEF IsBytes
  <2>6. f[M + k] = g[M] + h[k]
    BY <2>2, <2>3, <2>4, <2>5
  <2>7. QED
    BY <2>1, <2>6
<1>8. a[N] = b[N]
  <2> HIDE DEF a, b
  <2>1. N \in Nat /\ \A k \in 1..N : a[k - 1] = b[k - 1] => a[k] = b[k]
    BY <1>1, <1>7
  <2>3. \A k \in 0..N : a[k] = b[k]
    BY ONLY <1>6, <2>1, StepwiseEqual
  <2>2. N \in 0..N
    BY <1>1
  <2>4. QED
    BY <2>2, <2>3
<1>9. f[M + N] = g[M] + h[N]
  <2>1. N \in 0..N
    BY <1>1
  <2>2. QED
    BY <1>8, <2>1
<1>10. QED
  BY <1>1, <1>2, <1>3, <1>4, <1>9 DEF u

(***************************************************************************)
(* A character has a length of its own.                                    *)
(***************************************************************************)
LEMMA BytesOne ==
  ASSUME NEW c \in Char
  PROVE  BytesOf(<<c>>) = Bytes[c]
<1>1. <<c>> \in Seq(Char) /\ Len(<<c>>) = 1 /\ <<c>>[1] = c
  OBVIOUS
<1>2. PICK f : IsBytes(f, <<c>>) /\ BytesOf(<<c>>) = f[Len(<<c>>)]
  BY <1>1, BytesIs
<1>3. f[1] = f[1 - 1] + Bytes[<<c>>[1]] /\ f[0] = 0
  BY <1>1, <1>2 DEF IsBytes
<1>4. Bytes[c] \in Nat
  BY CharAssumption
<1>5. QED
  BY <1>1, <1>2, <1>3, <1>4

(***************************************************************************)
(* A text that is not empty has a length.                                  *)
(***************************************************************************)
LEMMA BytesPositive ==
  ASSUME NEW s \in Seq(Char), s # <<>>
  PROVE  BytesOf(s) > 0
<1> DEFINE c == Head(s)
           t == Tail(s)
<1>1. c \in Char /\ t \in Seq(Char) /\ <<c>> \in Seq(Char) /\ s = <<c>> \o t
  OBVIOUS
<1>2. BytesOf(s) = BytesOf(<<c>>) + BytesOf(t)
  BY <1>1, BytesConcat
<1>3. BytesOf(<<c>>) = Bytes[c] /\ Bytes[c] \in Nat /\ Bytes[c] > 0
  BY <1>1, BytesOne, CharAssumption
<1>5. BytesOf(t) \in Nat
  BY <1>1, BytesType
<1>4. QED
  BY <1>2, <1>3, <1>5

-----------------------------------------------------------------------------
(***************************************************************************)
(* The text with its line endings made equal, as a recursion: what the     *)
(* character n of s adds to the text v before it, which has no carriage    *)
(* return.                                                                 *)
(***************************************************************************)
NormalChar == Char \ {"CR"}

Normalized(s, n, v) ==
  IF n > 1 /\ s[n - 1] = "CR" /\ s[n] = "LF" THEN v
  ELSE Append(v, IF s[n] = "CR" THEN "LF" ELSE s[n])

IsNormal(f, s) ==
  /\ f \in [0..Len(s) -> Seq(NormalChar)]
  /\ f[0] = <<>>
  /\ \A n \in 1..Len(s) : f[n] = Normalized(s, n, f[n - 1])

(***************************************************************************)
(* What a character adds has no carriage return.                           *)
(***************************************************************************)
LEMMA NormalizedType ==
  ASSUME NEW s \in Seq(Char), NEW n \in 1..Len(s), NEW v \in Seq(NormalChar)
  PROVE  Normalized(s, n, v) \in Seq(NormalChar)
<1>1. s[n] \in Char /\ "LF" \in NormalChar
  BY CharAssumption DEF NormalChar
<1>2. (IF s[n] = "CR" THEN "LF" ELSE s[n]) \in NormalChar
  BY <1>1 DEF NormalChar
<1>3. Append(v, IF s[n] = "CR" THEN "LF" ELSE s[n]) \in Seq(NormalChar)
  BY <1>2
<1>4. QED
  BY <1>3 DEF Normalized

(***************************************************************************)
(* The recursion has a solution, and NormalText is its last value.         *)
(***************************************************************************)
LEMMA NormalIs ==
  ASSUME NEW s \in Seq(Char)
  PROVE  \E f : IsNormal(f, s) /\ NormalText(s) = f[Len(s)]
<1> DEFINE L == Len(s)
           V == Seq(NormalChar)
           none == <<>>
           step == [n \in 1..L |-> [v \in V |-> Normalized(s, n, v)]]
           g == CHOOSE g : g = [n \in 0..L |->
                  IF n = 0 THEN <<>>
                  ELSE IF n > 1 /\ s[n - 1] = "CR" /\ s[n] = "LF"
                  THEN g[n - 1]
                  ELSE Append(g[n - 1], IF s[n] = "CR" THEN "LF" ELSE s[n])]
<1>1. L \in Nat /\ none \in V
  OBVIOUS
<1>2. step \in [1..L -> [V -> V]]
  BY NormalizedType
<1>3. PICK f : /\ f \in [0..L -> V]
               /\ f[0] = none
               /\ \A n \in 1..L : f[n] = step[n][f[n - 1]]
  <2>1. L \in Nat /\ none \in V /\ step \in [1..L -> [V -> V]]
    BY <1>1, <1>2
  <2> HIDE DEF step, L, V, none
  <2>2. QED
    BY ONLY <2>1, RecursionExists
<1>4. ASSUME NEW n \in 1..L
      PROVE  f[n] = Normalized(s, n, f[n - 1])
  <2>1. n - 1 \in 0..L
    BY <1>1
  <2>2. f[n - 1] \in V
    BY <1>3, <2>1
  <2>3. QED
    BY <1>3, <2>2
<1>5. IsNormal(f, s)
  BY <1>3, <1>4 DEF IsNormal
<1>6. f = [n \in 0..L |->
             IF n = 0 THEN <<>>
             ELSE IF n > 1 /\ s[n - 1] = "CR" /\ s[n] = "LF" THEN f[n - 1]
             ELSE Append(f[n - 1], IF s[n] = "CR" THEN "LF" ELSE s[n])]
  <2> HIDE DEF step, V
  <2>1. ASSUME NEW n \in 0..L
        PROVE  f[n] =
             IF n = 0 THEN <<>>
             ELSE IF n > 1 /\ s[n - 1] = "CR" /\ s[n] = "LF" THEN f[n - 1]
             ELSE Append(f[n - 1], IF s[n] = "CR" THEN "LF" ELSE s[n])
    <3>1. CASE n = 0
      BY <1>3, <3>1
    <3>2. CASE n # 0
      <4>1. n \in 1..L
        BY <1>1, <3>2
      <4>2. QED
        BY <1>4, <3>2, <4>1 DEF Normalized
    <3>3. QED
      BY <3>1, <3>2
  <2>2. QED
    BY <1>3, <2>1
<1>7. g = [n \in 0..L |->
             IF n = 0 THEN <<>>
             ELSE IF n > 1 /\ s[n - 1] = "CR" /\ s[n] = "LF" THEN g[n - 1]
             ELSE Append(g[n - 1], IF s[n] = "CR" THEN "LF" ELSE s[n])]
  BY <1>6
<1>8. NormalText(s) = g[L]
  BY DEF NormalText
<1> HIDE DEF g, step, V
<1>9. \A n \in 0..L : f[n] = g[n]
  <2>1. f[0] = g[0]
    BY <1>1, <1>3, <1>7
  <2>2. ASSUME NEW n \in 1..L, f[n - 1] = g[n - 1]
        PROVE  f[n] = g[n]
    <3>1. n \in 0..L /\ n # 0
      BY <1>1
    <3>2. g[n] = Normalized(s, n, g[n - 1])
      BY <1>7, <3>1 DEF Normalized
    <3>3. QED
      BY <1>4, <2>2, <3>2
  <2>3. QED
    BY ONLY <1>1, <2>1, <2>2, StepwiseEqual
<1>10. L \in 0..L
  BY <1>1
<1>11. QED
  BY <1>5, <1>8, <1>9, <1>10

(***************************************************************************)
(* The normal text of a text that begins like another one begins like its. *)
(***************************************************************************)
LEMMA NormalUnique ==
  ASSUME NEW s, s \in Seq(Char), NEW t, t \in Seq(Char), NEW f, NEW g,
         IsNormal(f, s), IsNormal(g, t), NEW N, N \in Nat,
         N <= Len(s), N <= Len(t), \A k \in 1..N : s[k] = t[k]
  PROVE  f[N] = g[N]
<1>1. f[0] = g[0]
  BY DEF IsNormal
<1>2. ASSUME NEW n \in 1..N, f[n - 1] = g[n - 1]
      PROVE  f[n] = g[n]
  <2>1. n \in 1..Len(s) /\ n \in 1..Len(t)
    OBVIOUS
  <2>2. f[n] = Normalized(s, n, f[n - 1])
    BY <2>1 DEF IsNormal
  <2>3. g[n] = Normalized(t, n, g[n - 1])
    BY <2>1 DEF IsNormal
  <2>4. s[n] = t[n] /\ (n > 1 => s[n - 1] = t[n - 1])
    <3>1. n > 1 => n - 1 \in 1..N
      OBVIOUS
    <3>2. QED
      BY <3>1
  <2>5. Normalized(s, n, f[n - 1]) = Normalized(t, n, f[n - 1])
    BY <2>4 DEF Normalized
  <2>6. QED
    BY <1>2, <2>2, <2>3, <2>5
<1>3. \A n \in 0..N : f[n] = g[n]
  BY ONLY N \in Nat, <1>1, <1>2, StepwiseEqual
<1>4. QED
  BY <1>3

(***************************************************************************)
(* A normal text has no carriage return.                                   *)
(***************************************************************************)
LEMMA NormalType ==
  ASSUME NEW s \in Seq(Char)
  PROVE  NormalText(s) \in Seq(NormalChar)
<1>1. PICK f : IsNormal(f, s) /\ NormalText(s) = f[Len(s)]
  BY NormalIs
<1>2. Len(s) \in 0..Len(s)
  OBVIOUS
<1>3. QED
  BY <1>1, <1>2 DEF IsNormal

(***************************************************************************)
(* The normal text of nothing.                                             *)
(***************************************************************************)
LEMMA NormalEmpty == NormalText(<<>>) = <<>>
<1>1. <<>> \in Seq(Char) /\ Len(<<>>) = 0
  OBVIOUS
<1>2. PICK f : IsNormal(f, <<>>) /\ NormalText(<<>>) = f[Len(<<>>)]
  BY <1>1, NormalIs
<1>3. QED
  BY <1>1, <1>2 DEF IsNormal

EndsInCr(s) == s # <<>> /\ s[Len(s)] = "CR"

(***************************************************************************)
(* One more character: the second half of a pair adds nothing, any other   *)
(* character is added, a carriage return as a newline.                     *)
(***************************************************************************)
LEMMA NormalAppend ==
  ASSUME NEW s \in Seq(Char), NEW c \in Char
  PROVE  NormalText(Append(s, c)) =
           IF c = "LF" /\ EndsInCr(s) THEN NormalText(s)
           ELSE Append(NormalText(s), IF c = "CR" THEN "LF" ELSE c)
<1> DEFINE t == Append(s, c)
           N == Len(s)
<1>1. /\ t \in Seq(Char) /\ Len(t) = N + 1 /\ N \in Nat /\ t[N + 1] = c
      /\ \A k \in 1..N : t[k] = s[k]
  OBVIOUS
<1> HIDE DEF t
<1>2. PICK f : IsNormal(f, t) /\ NormalText(t) = f[Len(t)]
  BY <1>1, NormalIs
<1>3. PICK g : IsNormal(g, s) /\ NormalText(s) = g[N]
  BY NormalIs
<1>4. f[N] = g[N]
  <2>1. \A n \in Nat :
          n <= Len(t) /\ n <= Len(s) /\ (\A k \in 1..n : t[k] = s[k])
            => f[n] = g[n]
    BY <1>1, <1>2, <1>3, NormalUnique
  <2>2. N <= Len(t) /\ N <= Len(s)
    BY <1>1
  <2>3. QED
    BY <1>1, <2>1, <2>2
<1>5. f[N + 1] = Normalized(t, N + 1, f[N])
  <2>1. N + 1 \in 1..Len(t) /\ (N + 1) - 1 = N
    BY <1>1
  <2>2. QED
    BY <1>2, <2>1 DEF IsNormal
<1>6. EndsInCr(s) <=> (N + 1 > 1 /\ t[(N + 1) - 1] = "CR")
  <2>1. s # <<>> <=> N + 1 > 1
    BY <1>1
  <2>2. N + 1 > 1 => (N + 1) - 1 = N /\ N \in 1..N
    BY <1>1
  <2>3. QED
    BY <1>1, <2>1, <2>2 DEF EndsInCr
<1>7. QED
  BY <1>1, <1>2, <1>3, <1>4, <1>5, <1>6 DEF Normalized, t

(***************************************************************************)
(* A text without a carriage return is normal.                             *)
(***************************************************************************)
LEMMA NormalPlain ==
  ASSUME NEW s \in Seq(NormalChar)
  PROVE  NormalText(s) = s
<1>1. s \in Seq(Char) /\ Len(s) \in Nat /\ \A n \in 1..Len(s) : s[n] # "CR"
  BY DEF NormalChar
<1>2. PICK f : IsNormal(f, s) /\ NormalText(s) = f[Len(s)]
  BY <1>1, NormalIs
<1> DEFINE g == [n \in 0..Len(s) |-> SubSeq(s, 1, n)]
<1>3. f[0] = g[0]
  <2>1. g[0] = <<>>
    BY <1>1
  <2>2. QED
    BY <1>2, <2>1 DEF IsNormal
<1>4. ASSUME NEW n \in 1..Len(s), f[n - 1] = g[n - 1]
      PROVE  f[n] = g[n]
  <2>1. n \in 0..Len(s) /\ n - 1 \in 0..Len(s) /\ n \in Nat /\ n - 1 \in Nat
    BY <1>1
  <2>2. n > 1 => n - 1 \in 1..Len(s)
    BY <1>1
  <2>3. f[n] = Append(f[n - 1], s[n])
    <3>1. f[n] = Normalized(s, n, f[n - 1])
      BY <1>2 DEF IsNormal
    <3>2. s[n] # "CR" /\ (n > 1 => s[n - 1] # "CR")
      BY <1>1, <2>2
    <3>3. QED
      BY <3>1, <3>2 DEF Normalized
  <2>4. SubSeq(s, 1, n) = Append(SubSeq(s, 1, n - 1), s[n])
    <3>1. n - 1 + 1 = n /\ n <= Len(s)
      BY <2>1
    <3>2. QED
      BY <1>1, <2>1, <3>1
  <2>5. g[n] = SubSeq(s, 1, n) /\ g[n - 1] = SubSeq(s, 1, n - 1)
    BY <2>1
  <2>6. QED
    BY <1>4, <2>3, <2>4, <2>5
<1>5. g[Len(s)] = s
  <2>1. Len(s) \in 0..Len(s)
    BY <1>1
  <2>2. g[Len(s)] = SubSeq(s, 1, Len(s))
    BY <2>1
  <2>3. SubSeq(s, 1, Len(s)) = s
    BY <1>1
  <2>4. QED
    BY <2>2, <2>3
<1> HIDE DEF g
<1>6. \A n \in 0..Len(s) : f[n] = g[n]
  <2>1. Len(s) \in Nat
    BY <1>1
  <2>2. QED
    BY ONLY <2>1, <1>3, <1>4, StepwiseEqual
<1>7. Len(s) \in 0..Len(s)
  BY <1>1
<1>8. QED
  BY <1>2, <1>5, <1>6, <1>7

-----------------------------------------------------------------------------
(***************************************************************************)
(* The inductive form of TextIsNormal.  What has been read of the input is *)
(* there in normal form, in what was dropped, in the buffer and in the     *)
(* result of the loop; but for a carriage return that is kept back.  One   *)
(* that is not kept back is followed by something other than its newline.  *)
(***************************************************************************)
Whole == dropped \o (buffer \o out)

InNormalForm(read) ==
  IF pendingCr
  THEN \E r \in Seq(Char) : /\ read = Append(r, "CR") /\ rest = <<>>
                            /\ Whole = NormalText(r)
  ELSE /\ Whole = NormalText(read)
       /\ EndsInCr(read) => rest # <<>> /\ Head(rest) # "LF"

TextInv ==
  /\ pendingCr \in BOOLEAN
  /\ dropped \in Seq(Char)
  /\ pc # "normalize" => rest = <<>> /\ out = <<>>
  /\ \E read \in Seq(Char) : input = read \o rest /\ InNormalForm(read)

(***************************************************************************)
(* Steps that neither read nor move text.                                  *)
(***************************************************************************)
LEMMA SameText ==
  ASSUME TextInv, pc' # "normalize" => rest' = <<>> /\ out' = <<>>,
         UNCHANGED <<rest, out, pendingCr, buffer, dropped, input>>
  PROVE  TextInv'
BY DEF TextInv, InNormalForm, Whole

(***************************************************************************)
(* A chunk: a carriage return that was kept back becomes a newline, and    *)
(* takes the newline of the chunk that belongs to it along.                *)
(***************************************************************************)
LEMMA AppendTextKept ==
  ASSUME ~EmptyChunks, ScanInv, TextInv, NEW chunk \in Seq(Char),
         AppendChunk(chunk)
  PROVE  TextInv'
<1>1. /\ chunk # <<>> /\ input' = input \o chunk /\ rest' = AfterCr(chunk)
      /\ out' = (IF pendingCr THEN <<"LF">> ELSE <<>>) /\ pendingCr' = FALSE
      /\ pc = "idle" /\ pc' = "normalize" /\ buffer' = buffer
      /\ dropped' = dropped
  BY DEF AppendChunk, text
<1>2. rest = <<>> /\ out = <<>>
  BY <1>1 DEF TextInv
<1>3. PICK read \in Seq(Char) : input = read \o rest /\ InNormalForm(read)
  BY DEF TextInv
<1>4. input = read
  BY <1>2, <1>3
<1>5. buffer \in Seq(Char) /\ dropped \in Seq(Char) /\ pendingCr \in BOOLEAN
  BY DEF ScanInv, TextInv
<1>6. "LF" \in Char /\ "CR" \in Char
  BY CharAssumption
<1>7. CASE ~pendingCr
  <2>1. Whole = NormalText(read) /\ ~EndsInCr(read)
    BY <1>2, <1>3, <1>7 DEF InNormalForm
  <2>2. rest' = chunk /\ out' = out
    BY <1>1, <1>2, <1>7 DEF AfterCr
  <2>3. Whole' = Whole
    BY <1>1, <2>2 DEF Whole
  <2>4. InNormalForm(read)'
    BY <1>1, <2>1, <2>3 DEF InNormalForm
  <2>5. input' = read \o rest'
    BY <1>1, <1>4, <2>2
  <2>6. QED
    BY <1>1, <1>5, <2>4, <2>5 DEF TextInv
<1>8. CASE pendingCr
  <2>1. PICK r \in Seq(Char) : read = Append(r, "CR") /\ Whole = NormalText(r)
    BY <1>3, <1>8 DEF InNormalForm
  <2>2. Whole' = Append(Whole, "LF")
    <3>1. Whole = dropped \o buffer
      BY <1>2, <1>5 DEF Whole
    <3>2. Whole' = dropped \o (buffer \o <<"LF">>)
      BY <1>1, <1>8 DEF Whole
    <3>3. QED
      BY <1>5, <1>6, <3>1, <3>2
  <2>3. NormalText(read) = Append(NormalText(r), "LF")
    BY <1>6, <2>1, NormalAppend
  <2>4. EndsInCr(read)
    BY <1>6, <2>1 DEF EndsInCr
  <2>5. CASE Head(chunk) = "LF"
    <3>1. rest' = Tail(chunk)
      BY <1>1, <1>8, <2>5 DEF AfterCr
    <3> DEFINE more == Append(read, "LF")
    <3>2. more \in Seq(Char) /\ ~EndsInCr(more)
      BY <1>6 DEF EndsInCr
    <3>3. NormalText(more) = NormalText(read)
      BY <1>6, <2>4, NormalAppend
    <3>4. input' = more \o rest'
      BY <1>1, <1>4, <2>5, <3>1
    <3>5. InNormalForm(more)'
      BY <1>1, <2>1, <2>2, <2>3, <3>2, <3>3 DEF InNormalForm
    <3>6. QED
      BY <1>1, <1>5, <3>2, <3>4, <3>5 DEF TextInv
  <2>6. CASE Head(chunk) # "LF"
    <3>1. rest' = chunk
      BY <1>1, <1>8, <2>6 DEF AfterCr
    <3>2. InNormalForm(read)'
      BY <1>1, <2>1, <2>2, <2>3, <2>6, <3>1 DEF InNormalForm
    <3>3. input' = read \o rest'
      BY <1>1, <1>4, <3>1
    <3>4. QED
      BY <1>1, <1>5, <3>2, <3>3 DEF TextInv
  <2>7. QED
    BY <2>5, <2>6
<1>9. QED
  BY <1>5, <1>7, <1>8

(***************************************************************************)
(* The first character of a rest goes to the end of what was read.         *)
(***************************************************************************)
LEMMA MoveOne ==
  ASSUME NEW s \in Seq(Char), NEW t \in Seq(Char), t # <<>>
  PROVE  /\ Append(s, Head(t)) \in Seq(Char) /\ Tail(t) \in Seq(Char)
         /\ s \o t = Append(s, Head(t)) \o Tail(t)
<1>1. Head(t) \in Char /\ Tail(t) \in Seq(Char)
  OBVIOUS
<1>2. Append(s, Head(t)) \in Seq(Char)
  BY <1>1
<1>3. s \o t = Append(s, Head(t)) \o Tail(t)
  OBVIOUS
<1>4. QED
  BY <1>1, <1>2, <1>3

(***************************************************************************)
(* One round of the loop of the normalization.                             *)
(***************************************************************************)
LEMMA NormalizeTextKept ==
  ASSUME ScanInv, TextInv, Normalize
  PROVE  TextInv'
<1>1. /\ rest # <<>> /\ pc = "normalize" /\ pc' = pc /\ buffer' = buffer
      /\ dropped' = dropped /\ input' = input
  BY DEF Normalize, text
<1>2. /\ rest \in Seq(Char) /\ out \in Seq(Char) /\ buffer \in Seq(Char)
      /\ dropped \in Seq(Char) /\ pendingCr \in BOOLEAN
  BY DEF ScanInv, TextInv
<1>3. PICK read \in Seq(Char) : input = read \o rest /\ InNormalForm(read)
  BY DEF TextInv
<1>4. /\ ~pendingCr /\ Whole = NormalText(read)
      /\ EndsInCr(read) => Head(rest) # "LF"
  BY <1>1, <1>2, <1>3 DEF InNormalForm
<1>5. PICK c \in Char : c = Head(rest)
  BY <1>1, <1>2
<1>6. PICK more \in Seq(Char) : more = Append(read, c)
  BY <1>1, <1>2, <1>5, MoveOne
<1>7. EndsInCr(more) <=> c = "CR"
  <2>1. more # <<>> /\ more[Len(more)] = c
    BY <1>6
  <2>2. QED
    BY <2>1 DEF EndsInCr
<1>8. NormalText(more) = Append(NormalText(read), IF c = "CR" THEN "LF" ELSE c)
  <2>1. ~(c = "LF" /\ EndsInCr(read))
    BY <1>4, <1>5
  <2>2. QED
    BY <1>6, <2>1, NormalAppend
<1>9. input = more \o Tail(rest) /\ "LF" \in Char
  BY <1>1, <1>2, <1>3, <1>5, <1>6, MoveOne, CharAssumption
<1>10. ASSUME NEW e \in Char, out' = Append(out, e)
      PROVE  Whole' = Append(Whole, e)
  <2>1. dropped \o (buffer \o Append(out, e))
          = Append(dropped \o (buffer \o out), e)
    <3>1. buffer \o Append(out, e) = Append(buffer \o out, e)
      BY ONLY <1>2, <1>10
    <3>2. buffer \o out \in Seq(Char)
      BY ONLY <1>2
    <3>3. dropped \o Append(buffer \o out, e)
            = Append(dropped \o (buffer \o out), e)
      BY ONLY <1>2, <1>10, <3>2
    <3>4. QED
      BY ONLY <3>1, <3>3
  <2>2. QED
    BY <1>1, <1>10, <2>1 DEF Whole
<1>11. CASE ReadPlain
  <2>1. /\ c # "CR" /\ out' = Append(out, c) /\ rest' = Tail(rest)
        /\ pendingCr' = pendingCr
    BY <1>5, <1>11 DEF ReadPlain
  <2>2. Whole' = NormalText(more)
    BY <1>4, <1>5, <1>9, <1>8, <1>10, <2>1
  <2>3. InNormalForm(more)'
    BY <1>4, <1>7, <2>1, <2>2 DEF InNormalForm
  <2>4. QED
    BY <1>1, <1>2, <1>9, <2>1, <2>3 DEF TextInv
<1>12. CASE ReadLoneCr
  <2>1. /\ c = "CR" /\ out' = Append(out, "LF") /\ rest' = Tail(rest)
        /\ rest' # <<>> /\ Head(rest') # "LF" /\ pendingCr' = pendingCr
    BY <1>5, <1>12 DEF ReadLoneCr
  <2>2. Whole' = NormalText(more)
    BY <1>4, <1>5, <1>9, <1>8, <1>10, <2>1
  <2>3. InNormalForm(more)'
    BY <1>4, <2>1, <2>2 DEF InNormalForm
  <2>4. QED
    BY <1>1, <1>2, <1>9, <2>1, <2>3 DEF TextInv
<1>13. CASE KeepCr
  <2>1. /\ rest = <<"CR">> /\ rest' = <<>> /\ out' = out /\ pendingCr' = TRUE
    BY <1>13 DEF KeepCr
  <2>2. c = "CR" /\ Whole' = Whole
    BY <1>1, <1>5, <2>1 DEF Whole
  <2>3. more = Append(read, "CR") /\ rest' = <<>> /\ Whole' = NormalText(read)
    BY <1>4, <1>6, <2>1, <2>2
  <2>4. InNormalForm(more)'
    BY <2>1, <2>3 DEF InNormalForm
  <2>5. Tail(rest) = <<>>
    BY <2>1
  <2>6. QED
    BY <1>1, <1>2, <1>9, <2>1, <2>4, <2>5 DEF TextInv
<1>14. CASE ReadPair
  <2>1. /\ c = "CR" /\ Tail(rest) # <<>> /\ Head(Tail(rest)) = "LF"
        /\ out' = Append(out, "LF") /\ rest' = Tail(Tail(rest))
        /\ pendingCr' = pendingCr
    BY <1>5, <1>14 DEF ReadPair
  <2>2. PICK both \in Seq(Char) : both = Append(more, "LF")
    <3>1. Append(more, "LF") \in Seq(Char)
      BY <1>9
    <3>2. QED
      BY <3>1
  <2>3. ~EndsInCr(both)
    BY <2>2 DEF EndsInCr
  <2>4. NormalText(both) = NormalText(more)
    BY <1>7, <1>9, <2>1, <2>2, NormalAppend
  <2>5. Whole' = NormalText(both)
    BY <1>4, <1>5, <1>9, <1>8, <1>10, <2>1, <2>4
  <2>6. input = both \o rest'
    <3>1. PICK later \in Seq(Char) : later = Tail(rest)
      <4>1. Tail(rest) \in Seq(Char)
        BY <1>1, <1>2
      <4>2. QED
        BY <4>1
    <3>2. later # <<>> /\ Head(later) = "LF" /\ rest' = Tail(later)
      BY <2>1, <3>1
    <3>3. more \o later = Append(more, Head(later)) \o Tail(later)
      BY <1>9, <3>1, <3>2, MoveOne
    <3>4. input = more \o later
      BY <1>9, <3>1
    <3>5. QED
      BY <2>2, <3>2, <3>3, <3>4
  <2>7. InNormalForm(both)'
    BY <1>4, <2>1, <2>3, <2>5 DEF InNormalForm
  <2>8. QED
    BY <1>1, <1>2, <2>1, <2>3, <2>6, <2>7 DEF TextInv
<1>15. QED
  BY <1>11, <1>12, <1>13, <1>14 DEF Normalize

(***************************************************************************)
(* The end of a text goes to the end of the buffer.                        *)
(***************************************************************************)
LEMMA ReceiveTextKept ==
  ASSUME ScanInv, TextInv, Receive
  PROVE  TextInv'
<1>1. /\ rest = <<>> /\ buffer' = buffer \o out /\ out' = <<>>
      /\ UNCHANGED <<rest, pendingCr, input, dropped>>
  BY DEF Receive
<1>2. Whole' = Whole
  <2>1. buffer \in Seq(Char) /\ out \in Seq(Char)
    BY DEF ScanInv
  <2>2. QED
    BY <1>1, <2>1 DEF Whole
<1>3. QED
  BY <1>1, <1>2 DEF TextInv, InNormalForm

(***************************************************************************)
(* A text is its first n characters and what comes from there.             *)
(***************************************************************************)
LEMMA Halves ==
  ASSUME NEW s \in Seq(Char), NEW n \in 0..Len(s)
  PROVE  s = SubSeq(s, 1, n) \o From(s, n)
<1> DEFINE a == SubSeq(s, 1, n)
           b == From(s, n)
<1>1. n \in Nat /\ Len(s) \in Nat /\ n <= Len(s)
  OBVIOUS
<1>2. a \in Seq(Char) /\ Len(a) = n /\ \A k \in 1..n : a[k] = s[k]
  BY <1>1
<1>3. /\ b \in Seq(Char) /\ Len(b) = Len(s) - n
      /\ \A k \in 1..Len(s) - n : b[k] = s[n + k]
  <2>1. b \in Seq(Char)
    BY FromType
  <2>2. Len(b) = Len(s) - n /\ \A k \in 1..Len(s) - n : b[k] = s[n + k]
    BY <1>1 DEF From
  <2>3. QED
    BY <2>1, <2>2
<1> HIDE DEF a, b
<1>4. a \o b \in Seq(Char) /\ Len(a \o b) = Len(s)
  BY <1>1, <1>2, <1>3
<1>5. ASSUME NEW k \in 1..Len(s)
      PROVE  (a \o b)[k] = s[k]
  <2>1. CASE k <= n
    BY <1>1, <1>2, <1>3, <2>1
  <2>2. CASE ~(k <= n)
    <3>1. k - n \in 1..Len(s) - n /\ n + (k - n) = k
      BY <1>1, <2>2
    <3>2. (a \o b)[k] = b[k - n]
      BY <1>1, <1>2, <1>3, <2>2
    <3>3. QED
      BY <1>3, <3>1, <3>2
  <2>3. QED
    BY <2>1, <2>2
<1>6. a \o b = s
  BY <1>4, <1>5, SeqEqual
<1>7. QED
  BY <1>6 DEF a, b

(***************************************************************************)
(* Three texts make the same text however they are put together.           *)
(***************************************************************************)
LEMMA ConcatAssoc ==
  ASSUME NEW a \in Seq(Char), NEW b \in Seq(Char), NEW c \in Seq(Char)
  PROVE  (a \o b) \o c = a \o (b \o c)
<1> DEFINE left == (a \o b) \o c
           right == a \o (b \o c)
<1>1. /\ left \in Seq(Char) /\ Len(left) = Len(a) + Len(b) + Len(c)
      /\ right \in Seq(Char) /\ Len(right) = Len(a) + Len(b) + Len(c)
  OBVIOUS
<1>2. ASSUME NEW k \in 1..Len(left)
      PROVE  left[k] = right[k]
  <2>1. CASE k <= Len(a)
    BY <1>1, <2>1
  <2>2. CASE ~(k <= Len(a)) /\ k <= Len(a) + Len(b)
    BY <1>1, <2>2
  <2>3. CASE ~(k <= Len(a) + Len(b))
    BY <1>1, <2>3
  <2>4. QED
    BY <2>1, <2>2, <2>3
<1> HIDE DEF left, right
<1>3. left = right
  BY <1>1, <1>2, SeqEqual
<1>4. QED
  BY <1>3 DEF left, right

(***************************************************************************)
(* Compaction moves text from the buffer to what was dropped.              *)
(***************************************************************************)
LEMMA CompactText ==
  ASSUME ScanInv, scan = Len(buffer), dropped \in Seq(Char),
         NEW first \in Nat, Compact(first)
  PROVE  /\ dropped' \in Seq(Char) /\ buffer' \in Seq(Char)
         /\ dropped' \o buffer' = dropped \o buffer
         /\ pc' # "normalize"
<1>1. buffer \in Seq(Char)
  BY DEF ScanInv
<1>2. CASE Compacts(first)
  <2>1. PICK n \in 0..Len(buffer) : n = OffsetOf(first)
    BY OffsetType
  <2>2. buffer' = From(buffer, n) /\ dropped' = dropped \o SubSeq(buffer, 1, n)
        /\ pc' = "rebuild"
    BY <1>2, <2>1 DEF Compact
  <2>3. buffer' \in Seq(Char)
    BY <1>1, <2>2, FromType
  <2>4. SubSeq(buffer, 1, n) \in Seq(Char)
    BY <1>1
  <2>5. buffer = SubSeq(buffer, 1, n) \o From(buffer, n)
    BY <1>1, Halves
  <2>6. From(buffer, n) \in Seq(Char)
    BY <2>2, <2>3
  <2>7. (dropped \o SubSeq(buffer, 1, n)) \o From(buffer, n)
          = dropped \o buffer
    <3> DEFINE a == SubSeq(buffer, 1, n)
               b == From(buffer, n)
    <3>1. a \in Seq(Char) /\ b \in Seq(Char) /\ buffer = a \o b
      BY <2>4, <2>5, <2>6
    <3> HIDE DEF a, b
    <3>2. (dropped \o a) \o b = dropped \o (a \o b)
      BY <3>1, ConcatAssoc
    <3>3. QED
      BY ONLY <3>1, <3>2 DEF a, b
  <2>8. dropped \o SubSeq(buffer, 1, n) \in Seq(Char)
    BY <2>4
  <2>9. QED
    BY <2>2, <2>3, <2>7, <2>8
<1>3. CASE ~Compacts(first)
  BY <1>1, <1>3 DEF Compact, text
<1>4. QED
  BY <1>2, <1>3

(***************************************************************************)
(* So the whole of the text stays.                                         *)
(***************************************************************************)
LEMMA CompactTextKept ==
  ASSUME ScanInv, TextInv, pc # "normalize", scan = Len(buffer),
         NEW first \in Nat, Compact(first),
         UNCHANGED <<rest, out, pendingCr, input>>
  PROVE  TextInv'
<1>1. rest = <<>> /\ out = <<>> /\ dropped \in Seq(Char)
      /\ buffer \in Seq(Char)
  BY DEF TextInv, ScanInv
<1>2. /\ dropped' \in Seq(Char) /\ buffer' \in Seq(Char)
      /\ dropped' \o buffer' = dropped \o buffer
      /\ pc' # "normalize"
  BY <1>1, CompactText
<1>3. Whole' = Whole
  BY <1>1, <1>2 DEF Whole
<1>4. QED
  BY <1>1, <1>2, <1>3 DEF TextInv, InNormalForm

(***************************************************************************)
(* finalize ends a kept carriage return; the document goes on, if it does, *)
(* as one that ends in a newline.                                          *)
(***************************************************************************)
LEMMA FinalizeTextKept ==
  ASSUME ScanInv, TextInv, Finalize
  PROVE  TextInv'
<1>1. /\ buffer' = buffer \o CrAtEnd /\ input' = CloseInput
      /\ pendingCr' = FALSE /\ pc = "idle" /\ pc' = "finalize"
      /\ UNCHANGED <<rest, out, dropped>>
  BY DEF Finalize
<1>2. /\ rest = <<>> /\ out = <<>> /\ dropped \in Seq(Char)
      /\ buffer \in Seq(Char) /\ pendingCr \in BOOLEAN
  BY <1>1 DEF TextInv, ScanInv
<1>3. PICK read \in Seq(Char) : input = read \o rest /\ InNormalForm(read)
  BY DEF TextInv
<1>4. input = read
  BY <1>2, <1>3
<1>5. CASE ~pendingCr
  <2>1. input' = input /\ buffer' = buffer
    BY <1>1, <1>2, <1>5 DEF CloseInput, CrAtEnd
  <2>2. Whole' = Whole
    BY <1>1, <2>1 DEF Whole
  <2>3. QED
    BY <1>1, <1>2, <1>3, <1>5, <2>1, <2>2 DEF TextInv, InNormalForm
<1>6. CASE pendingCr
  <2>1. PICK r \in Seq(Char) : read = Append(r, "CR") /\ Whole = NormalText(r)
    BY <1>3, <1>6 DEF InNormalForm
  <2>2. SubSeq(input, 1, Len(input) - 1) = r
    BY <1>4, <2>1
  <2> DEFINE ended == Append(NormalText(r), "LF")
  <2>3. input' = ended
    <3>1. NormalText(r) \in Seq(NormalChar)
      BY NormalType
    <3>2. NormalText(r) \o <<"LF">> = Append(NormalText(r), "LF")
      BY <3>1
    <3>3. QED
      BY <1>1, <1>6, <2>2, <3>2 DEF CloseInput
  <2>4. ended \in Seq(NormalChar) /\ ended \in Seq(Char) /\ ~EndsInCr(ended)
    <3>1. NormalText(r) \in Seq(NormalChar) /\ "LF" \in NormalChar
      BY NormalType, CharAssumption DEF NormalChar
    <3>2. NormalText(r) \in Seq(Char) /\ "LF" \in Char
      BY <3>1 DEF NormalChar
    <3>3. QED
      BY <3>1, <3>2 DEF EndsInCr
  <2>5. NormalText(ended) = ended
    BY <2>4, NormalPlain
  <2>6. Whole' = Append(Whole, "LF")
    <3>1. "LF" \in Char
      BY CharAssumption
    <3>2. buffer' = buffer \o <<"LF">>
      BY <1>1, <1>6 DEF CrAtEnd
    <3>3. QED
      BY <1>1, <1>2, <3>1, <3>2 DEF Whole
  <2>7. InNormalForm(ended)'
    BY <1>1, <2>1, <2>4, <2>5, <2>6 DEF InNormalForm
  <2> HIDE DEF ended
  <2>8. input' = ended \o rest'
    BY <1>1, <1>2, <2>3, <2>4
  <2>9. QED
    BY <1>1, <1>2, <2>4, <2>7, <2>8 DEF TextInv
<1>7. QED
  BY <1>2, <1>5, <1>6

(***************************************************************************)
(* At the start and after a reset there is no text.                        *)
(***************************************************************************)
LEMMA NoText ==
  ASSUME pendingCr = FALSE, rest = <<>>, out = <<>>, buffer = <<>>,
         dropped = <<>>, input = <<>>
  PROVE  TextInv
<1>1. <<>> \in Seq(Char) /\ <<>> \o <<>> = <<>>
  OBVIOUS
<1>2. Whole = NormalText(<<>>)
  BY <1>1, NormalEmpty DEF Whole
<1>3. ~EndsInCr(<<>>)
  BY DEF EndsInCr
<1>4. InNormalForm(<<>>)
  BY <1>2, <1>3 DEF InNormalForm
<1>5. QED
  BY <1>1, <1>4 DEF TextInv

(***************************************************************************)
(* The same for the state after a step.                                    *)
(***************************************************************************)
LEMMA NoTextNext ==
  (/\ pendingCr = FALSE /\ rest = <<>> /\ out = <<>> /\ buffer = <<>>
   /\ dropped = <<>> /\ input = <<>>
   => TextInv)'
BY NoText, PTL

(***************************************************************************)
(* Every step keeps TextInv.                                               *)
(***************************************************************************)
LEMMA TextInvKept ==
  ASSUME ~EmptyChunks, ScanInv, TextInv, [Next]_vars
  PROVE  TextInv'
<1>1. ASSUME NEW chunk \in Chunk, AppendChunk(chunk)
      PROVE  TextInv'
  BY <1>1, ChunkType, AppendTextKept
<1>2. CASE Normalize
  BY <1>2, NormalizeTextKept
<1>3. CASE Receive
  BY <1>3, ReceiveTextKept
<1>4. CASE ScanChar
  <2>1. pc' = pc /\ UNCHANGED <<rest, out, pendingCr, buffer, dropped, input>>
    BY <1>4 DEF ScanChar
  <2>2. QED
    BY <2>1, SameText DEF TextInv
<1>5. CASE Split
  <2>1. /\ scan = Len(buffer) /\ pc # "normalize"
        /\ UNCHANGED <<rest, out, pendingCr, input>>
    BY <1>5 DEF Split, Scanned
  <2>2. PICK first \in start..Len(table) - 1 : Compact(first)
    BY <1>5 DEF Split
  <2>3. first \in Nat
    BY DEF ScanInv
  <2>4. QED
    BY <2>1, <2>2, <2>3, CompactTextKept
<1>6. CASE Return
  <2>1. /\ pc # "normalize"
        /\ UNCHANGED <<rest, out, pendingCr, buffer, dropped, input>>
    BY <1>6 DEF Return, Scanned, text
  <2>2. QED
    BY <2>1, SameText DEF TextInv
<1>7. CASE Finalize
  BY <1>7, FinalizeTextKept
<1>8. CASE FinalizeBlank
  <2>1. /\ pc # "normalize"
        /\ UNCHANGED <<rest, out, pendingCr, buffer, dropped, input>>
    BY <1>8 DEF FinalizeBlank, Scanned, text
  <2>2. QED
    BY <2>1, SameText DEF TextInv
<1>9. CASE CommitPending
  <2>1. /\ scan = Len(buffer) /\ pc # "normalize"
        /\ UNCHANGED <<rest, out, pendingCr, input>>
    BY <1>9 DEF CommitPending, Scanned
  <2>2. PICK first \in {start, Len(table)} : Compact(first)
    BY <1>9 DEF CommitPending
  <2>3. first \in Nat
    BY DEF ScanInv
  <2>4. QED
    BY <2>1, <2>2, <2>3, CompactTextKept
<1>10. CASE Reset
  BY <1>10, NoTextNext DEF Reset
<1>11. CASE UNCHANGED vars
  BY <1>11, SameText DEF vars, text, TextInv
<1>12. QED
  BY <1>1, <1>2, <1>3, <1>4, <1>5, <1>6, <1>7, <1>8, <1>9, <1>10, <1>11
  DEF Next, NextOn

(***************************************************************************)
(* Between calls what was dropped and the buffer are the text received in  *)
(* normal form, for every alphabet, every cut into chunks, also between    *)
(* the characters of a pair, every limit and every number of finalize      *)
(* calls on blank rests.  A caller that appends nothing while a carriage   *)
(* return is kept back gets a newline too many.                            *)
(***************************************************************************)
THEOREM TextStaysNormal ==
  ASSUME ~EmptyChunks
  PROVE  Spec => []TextIsNormal
<1>1. Init => TextInv
  BY NoText DEF Init
<1>2. ScanInv /\ TextInv /\ [Next]_vars => TextInv'
  BY TextInvKept
<1>3. ScanInv /\ TextInv => TextIsNormal
  <2>1. SUFFICES ASSUME ScanInv, TextInv, pc = "idle"
                 PROVE  dropped \o buffer =
                          NormalText(IF pendingCr
                                     THEN SubSeq(input, 1, Len(input) - 1)
                                     ELSE input)
    BY DEF TextIsNormal
  <2>2. rest = <<>> /\ out = <<>> /\ buffer \in Seq(Char)
        /\ dropped \in Seq(Char) /\ pendingCr \in BOOLEAN
    BY <2>1 DEF TextInv, ScanInv
  <2>3. PICK read \in Seq(Char) : input = read \o rest /\ InNormalForm(read)
    BY <2>1 DEF TextInv
  <2>4. input = read /\ Whole = dropped \o buffer
    BY <2>2, <2>3 DEF Whole
  <2>5. CASE ~pendingCr
    BY <2>3, <2>4, <2>5 DEF InNormalForm
  <2>6. CASE pendingCr
    <3>1. PICK r \in Seq(Char) :
            read = Append(r, "CR") /\ Whole = NormalText(r)
      BY <2>3, <2>6 DEF InNormalForm
    <3>2. SubSeq(input, 1, Len(input) - 1) = r
      BY <2>4, <3>1
    <3>3. QED
      BY <2>4, <2>6, <3>1, <3>2
  <2>7. QED
    BY <2>2, <2>5, <2>6
<1>4. QED
  BY <1>1, <1>2, <1>3, ScanInvHolds, PTL DEF Spec

-----------------------------------------------------------------------------
(***************************************************************************)
(* Lines start one after the other.                                        *)
(***************************************************************************)
LEMMA TilesOrder ==
  ASSUME NEW t \in Seq(Line), NEW s \in Seq(Char), NEW n, Tiles(t, s, n),
         NEW a \in 1..Len(t), NEW b \in 1..Len(t), a <= b
  PROVE  t[a].start <= t[b].start
<1> DEFINE S == {k \in Nat : a + k <= Len(t) => t[a].start <= t[a + k].start}
<1>1. a \in Nat /\ b \in Nat /\ Len(t) \in Nat
  OBVIOUS
<1>2. 0 \in S
  <2>1. a + 0 = a /\ t[a].start \in Nat
    BY <1>1, TableFields
  <2>2. QED
    BY <2>1
<1>3. ASSUME NEW k \in Nat, k \in S
      PROVE  k + 1 \in S
  <2>1. SUFFICES ASSUME a + (k + 1) <= Len(t)
                 PROVE  t[a].start <= t[a + (k + 1)].start
    OBVIOUS
  <2>2. PICK m \in 1..Len(t) - 1 : m = a + k
    BY <1>1, <2>1
  <2>3. m + 1 = a + (k + 1) /\ m \in 1..Len(t) /\ m + 1 \in 1..Len(t)
    BY <1>1, <2>1, <2>2
  <2>4. t[a].start <= t[m].start
    BY <1>1, <1>3, <2>2, <2>3
  <2>5. t[m + 1].start = t[m].end + 1
    BY <2>2, TilesNext
  <2>6. t[m].start <= t[m].end
    BY <2>3, TilesLine
  <2>7. /\ t[a].start \in Nat /\ t[m].start \in Nat /\ t[m].end \in Nat
        /\ t[m + 1].start \in Nat
    BY <2>3, TableFields
  <2>8. t[a].start <= t[m + 1].start
    <3>1. PICK v \in Nat, w \in Nat, x \in Nat, y \in Nat :
            /\ v = t[a].start /\ w = t[m].start
            /\ x = t[m].end /\ y = t[m + 1].start
      BY <2>7
    <3>2. v <= w /\ w <= x /\ y = x + 1
      BY ONLY <2>4, <2>5, <2>6, <3>1
    <3>3. v <= y
      BY ONLY <3>2, v \in Nat, w \in Nat, x \in Nat, y \in Nat
    <3>4. QED
      BY ONLY <3>1, <3>3
  <2>9. QED
    BY <2>3, <2>8
<1> HIDE DEF S
<1>4. \A k \in Nat : k \in S
  BY ONLY <1>2, <1>3, NatInductive
<1>5. b - a \in Nat /\ a + (b - a) = b
  BY <1>1
<1>6. b - a \in S
  BY <1>4, <1>5
<1>7. QED
  BY <1>1, <1>5, <1>6 DEF S

(***************************************************************************)
(* Text at the end of the last line, and a newline in it, move no start.   *)
(***************************************************************************)
LEMMA StartsKept ==
  ASSUME NEW t \in Seq(Line), t # <<>>, NEW end \in Nat, NEW i \in Nat,
         NEW k \in 1..Len(t), buffer \in Seq(Char)
  PROVE  /\ Len(ExtendLast(t, end)) = Len(t)
         /\ ExtendLast(t, end)[k].start = t[k].start
         /\ Len(BreakLine(t, i)) = Len(t) + 1
         /\ BreakLine(t, i)[k].start = t[k].start
<1>1. /\ Len(t) \in 1..Len(t) /\ Last(t) = t[Len(t)] /\ Len(buffer) \in Nat
      /\ i + 1 \in Nat
  BY DEF Last
<1>2. /\ Last(t) \in Line /\ Last(t).start \in Nat
      /\ Last(t).newline \in BOOLEAN
  BY <1>1, TableFields
<1> DEFINE x == LineOf(Last(t).start, end, Last(t).newline)
           y == LineOf(Last(t).start, i, TRUE)
           z == NewLine(i + 1, Len(buffer))
<1>3. x \in Line /\ x.start = Last(t).start
  BY <1>2, LineType
<1>4. y \in Line /\ y.start = Last(t).start
  BY <1>2, LineType
<1>5. z \in Line
  BY <1>1, LineType DEF NewLine
<1>6. ExtendLast(t, end) = [t EXCEPT ![Len(t)] = x]
      /\ BreakLine(t, i) = [t EXCEPT ![Len(t)] = y] \o <<z>>
  BY DEF ExtendLast, BreakLine
<1> HIDE DEF x, y, z
<1> DEFINE u == [t EXCEPT ![Len(t)] = y]
<1>7. /\ u \in Seq(Line) /\ Len(u) = Len(t)
      /\ \A j \in 1..Len(t) : j # Len(t) => u[j] = t[j]
      /\ u[Len(t)] = y
  BY <1>4, ReplaceLast
<1> HIDE DEF u
<1>8. u[k].start = t[k].start
  BY <1>1, <1>4, <1>7
<1>9. Len(u \o <<z>>) = Len(t) + 1 /\ (u \o <<z>>)[k] = u[k]
  BY <1>5, <1>7, AppendLine
<1>10. /\ Len(ExtendLast(t, end)) = Len(t)
       /\ ExtendLast(t, end)[k].start = t[k].start
  BY <1>1, <1>3, <1>6, ReplaceLast
<1>11. QED
  BY <1>6, <1>8, <1>9, <1>10 DEF u

(***************************************************************************)
(* The first characters of a text, in terms of elements.                   *)
(***************************************************************************)
LEMMA PrefixIs ==
  ASSUME NEW s \in Seq(Char), NEW n \in 0..Len(s)
  PROVE  \E p \in Seq(Char) :
           p = SubSeq(s, 1, n) /\ Len(p) = n /\ \A k \in 1..n : p[k] = s[k]
<1>1. n \in Nat /\ Len(s) \in Nat /\ n <= Len(s)
  OBVIOUS
<1>2. /\ SubSeq(s, 1, n) \in Seq(Char) /\ Len(SubSeq(s, 1, n)) = n
      /\ \A k \in 1..n : SubSeq(s, 1, n)[k] = s[k]
  BY <1>1
<1>3. QED
  BY <1>2

(***************************************************************************)
(* A longer prefix is not shorter in bytes.                                *)
(***************************************************************************)
LEMMA PrefixBytes ==
  ASSUME NEW s \in Seq(Char), NEW n \in 0..Len(s), NEW m \in 0..n
  PROVE  /\ SubSeq(s, 1, n) \in Seq(Char) /\ SubSeq(s, 1, m) \in Seq(Char)
         /\ BytesOf(SubSeq(s, 1, m)) <= BytesOf(SubSeq(s, 1, n))
<1>1. n \in Nat /\ m \in Nat /\ Len(s) \in Nat /\ m <= n /\ n <= Len(s)
  OBVIOUS
<1>2. PICK p \in Seq(Char) :
        p = SubSeq(s, 1, n) /\ Len(p) = n /\ \A k \in 1..n : p[k] = s[k]
  BY PrefixIs
<1>3. m \in 0..Len(s) /\ m \in 0..Len(p)
  BY <1>1, <1>2
<1>4. PICK q \in Seq(Char) :
        q = SubSeq(s, 1, m) /\ Len(q) = m /\ \A k \in 1..m : q[k] = s[k]
  BY <1>3, PrefixIs
<1>5. SubSeq(p, 1, m) = q
  <2>1. PICK r \in Seq(Char) :
          r = SubSeq(p, 1, m) /\ Len(r) = m /\ \A k \in 1..m : r[k] = p[k]
    BY <1>3, PrefixIs
  <2>2. \A k \in 1..Len(r) : r[k] = q[k]
    BY <1>1, <1>2, <1>4, <2>1
  <2>3. r = q
    BY <1>4, <2>1, <2>2, SeqEqual
  <2>4. QED
    BY <2>1, <2>3
<1>6. From(p, m) \in Seq(Char) /\ p = q \o From(p, m)
  BY <1>1, <1>3, <1>5, Halves, FromType
<1>7. BytesOf(p) = BytesOf(q) + BytesOf(From(p, m))
  BY <1>4, <1>6, BytesConcat
<1>8. BytesOf(q) \in Nat /\ BytesOf(From(p, m)) \in Nat
  BY <1>4, <1>6, BytesType
<1>9. BytesOf(q) <= BytesOf(p)
  BY <1>7, <1>8
<1>10. QED
  BY <1>2, <1>4, <1>9

(***************************************************************************)
(* A text, its first characters and the others, in bytes.                  *)
(***************************************************************************)
LEMMA HalvesBytes ==
  ASSUME NEW s \in Seq(Char), NEW n \in 0..Len(s)
  PROVE  /\ From(s, n) \in Seq(Char)
         /\ BytesOf(s) = BytesOf(SubSeq(s, 1, n)) + BytesOf(From(s, n))
         /\ BytesOf(SubSeq(s, 1, n)) \in Nat /\ BytesOf(From(s, n)) \in Nat
<1>1. SubSeq(s, 1, n) \in Seq(Char)
  <2>1. n \in 0..n
    OBVIOUS
  <2>2. QED
    BY <2>1, PrefixBytes
<1>2. From(s, n) \in Seq(Char) /\ s = SubSeq(s, 1, n) \o From(s, n)
  BY FromType, Halves
<1>3. BytesOf(SubSeq(s, 1, n) \o From(s, n))
        = BytesOf(SubSeq(s, 1, n)) + BytesOf(From(s, n))
  BY <1>1, <1>2, BytesConcat
<1>4. QED
  BY <1>1, <1>2, <1>3, BytesType

(***************************************************************************)
(* What is appended changes no prefix.                                     *)
(***************************************************************************)
LEMMA PrefixKept ==
  ASSUME NEW s \in Seq(Char), NEW u \in Seq(Char), NEW n \in 0..Len(s)
  PROVE  SubSeq(s \o u, 1, n) = SubSeq(s, 1, n)
<1>1. n \in Nat /\ Len(s) \in Nat /\ n <= Len(s) /\ Len(u) \in Nat
  OBVIOUS
<1> DEFINE v == s \o u
<1>2. /\ v \in Seq(Char) /\ Len(v) = Len(s) + Len(u)
      /\ \A k \in 1..Len(s) : v[k] = s[k]
  OBVIOUS
<1> HIDE DEF v
<1>3. n \in 0..Len(v)
  BY <1>1, <1>2
<1>4. PICK p \in Seq(Char) :
        p = SubSeq(v, 1, n) /\ Len(p) = n /\ \A k \in 1..n : p[k] = v[k]
  BY <1>2, <1>3, PrefixIs
<1>5. PICK q \in Seq(Char) :
        q = SubSeq(s, 1, n) /\ Len(q) = n /\ \A k \in 1..n : q[k] = s[k]
  BY PrefixIs
<1>6. \A k \in 1..Len(p) : p[k] = q[k]
  BY <1>1, <1>2, <1>4, <1>5
<1>7. p = q
  BY <1>4, <1>5, <1>6, SeqEqual
<1>8. QED
  BY <1>4, <1>5, <1>7 DEF v

-----------------------------------------------------------------------------
(***************************************************************************)
(* The inductive invariant behind FinalizeSkipsNothing.  While the         *)
(* document is open, the length kept from the last finalize lies within    *)
(* what is already committed, so that it can be the length of the buffer   *)
(* only if nothing is pending.  A stream that became a single block begins *)
(* again at its first line, but then text has come after the last finalize.*)
(***************************************************************************)
Committed == SubSeq(buffer, 1, OffsetOf(start))

OneBlock == SingleBlock /\ detected

LengthInv ==
  /\ finalLen \in Nat
  /\ ~closed =>
       /\ start < Len(table)
       /\ OneBlock => start = 0 /\ finalLen < BytesOf(buffer)
       /\ ~OneBlock => finalLen <= BytesOf(Committed)

(***************************************************************************)
(* Text at the end of the buffer moves no line that has begun.             *)
(***************************************************************************)
LEMMA CommittedKept ==
  ASSUME ScanInv, start < Len(table), NEW u \in Seq(Char),
         buffer' = buffer \o u, start' = start, Len(table') \in Nat,
         Len(table') >= Len(table),
         \A k \in 1..Len(table) : table'[k].start = table[k].start
  PROVE  /\ start' < Len(table')
         /\ OffsetOf(start)' = OffsetOf(start)
         /\ Committed' = Committed
<1>1. start \in Nat /\ Len(table) \in Nat /\ buffer \in Seq(Char)
  BY DEF ScanInv
<1>2. start + 1 \in 1..Len(table)
  BY <1>1
<1>3. start' < Len(table')
  BY <1>1
<1>4. OffsetOf(start) = table[start + 1].start
  BY DEF OffsetOf
<1>5. OffsetOf(start)' = table'[start + 1].start
  BY <1>3 DEF OffsetOf
<1>6. OffsetOf(start)' = OffsetOf(start)
  BY <1>2, <1>4, <1>5
<1>7. OffsetOf(start) \in 0..Len(buffer)
  BY <1>1, OffsetType
<1>8. SubSeq(buffer \o u, 1, OffsetOf(start)) = SubSeq(buffer, 1, OffsetOf(start))
  BY <1>1, <1>7, PrefixKept
<1>9. Committed' = Committed
  BY <1>6, <1>8 DEF Committed
<1>10. QED
  BY <1>3, <1>6, <1>9

(***************************************************************************)
(* So it keeps the invariant, too.                                         *)
(***************************************************************************)
LEMMA GrowingKeepsLength ==
  ASSUME ScanInv, LengthInv, NEW u \in Seq(Char),
         buffer' = buffer \o u, start' = start, Len(table') \in Nat,
         Len(table') >= Len(table),
         \A k \in 1..Len(table) : table'[k].start = table[k].start,
         UNCHANGED <<finalLen, closed>>, OneBlock' <=> OneBlock
  PROVE  LengthInv'
<1>1. finalLen' \in Nat
  BY DEF LengthInv
<1>2. SUFFICES ASSUME ~closed
               PROVE  /\ start' < Len(table')
                      /\ OneBlock' => start' = 0 /\ finalLen' < BytesOf(buffer')
                      /\ ~OneBlock' => finalLen' <= BytesOf(Committed')
  <2>1. BytesOf(Committed)' = BytesOf(Committed')
        /\ BytesOf(buffer)' = BytesOf(buffer')
    BY DEF BytesOf
  <2>2. QED
    BY <1>1, <2>1 DEF LengthInv
<1>3. start < Len(table)
  BY <1>2 DEF LengthInv
<1>4. start' < Len(table') /\ Committed' = Committed
  BY <1>3, CommittedKept
<1>5. buffer \in Seq(Char)
  BY DEF ScanInv
<1>6. BytesOf(buffer') = BytesOf(buffer) + BytesOf(u)
  BY <1>5, BytesConcat
<1>7. BytesOf(buffer) \in Nat /\ BytesOf(u) \in Nat
  BY <1>5, BytesType
<1>8. ASSUME OneBlock'
      PROVE  start' = 0 /\ finalLen' < BytesOf(buffer')
  <2>1. start = 0 /\ finalLen < BytesOf(buffer) /\ finalLen \in Nat
    BY <1>2, <1>8 DEF LengthInv
  <2>2. QED
    BY <1>6, <1>7, <2>1
<1>9. ASSUME ~OneBlock'
      PROVE  finalLen' <= BytesOf(Committed')
  BY <1>2, <1>4, <1>9 DEF LengthInv
<1>10. QED
  BY <1>4, <1>8, <1>9

(***************************************************************************)
(* The same when nothing comes: only a newline is found, or nothing        *)
(* changes.                                                                *)
(***************************************************************************)
LEMMA ScanningKeepsLength ==
  ASSUME ScanInv, LengthInv, buffer' = buffer, start' = start,
         Len(table') \in Nat, Len(table') >= Len(table),
         \A k \in 1..Len(table) : table'[k].start = table[k].start,
         UNCHANGED <<finalLen, closed, detected>>
  PROVE  LengthInv'
<1>1. <<>> \in Seq(Char) /\ buffer \in Seq(Char)
  BY DEF ScanInv
<1>2. buffer' = buffer \o <<>>
  BY <1>1
<1>3. OneBlock' <=> OneBlock
  BY DEF OneBlock
<1>4. QED
  BY <1>1, <1>2, <1>3, GrowingKeepsLength

(***************************************************************************)
(* Where later lines start, and how much comes before them.                *)
(***************************************************************************)
LEMMA OffsetOrder ==
  ASSUME ScanInv, NEW first \in Nat, start <= first, first < Len(table)
  PROVE  /\ OffsetOf(start) \in 0..OffsetOf(first)
         /\ OffsetOf(first) \in 0..Len(buffer)
         /\ BytesOf(Committed) <= BytesOf(SubSeq(buffer, 1, OffsetOf(first)))
<1>1. start \in Nat /\ Len(table) \in Nat /\ buffer \in Seq(Char)
      /\ table \in Seq(Line) /\ Tiles(table, buffer, scan)
  BY DEF ScanInv
<1>2. /\ start + 1 \in 1..Len(table) /\ first + 1 \in 1..Len(table)
      /\ start + 1 <= first + 1
  BY <1>1
<1>3. table[start + 1].start <= table[first + 1].start
  BY <1>1, <1>2, TilesOrder
<1>4. OffsetOf(start) = table[start + 1].start
      /\ OffsetOf(first) = table[first + 1].start
  BY <1>1 DEF OffsetOf
<1>5. OffsetOf(start) \in 0..Len(buffer) /\ OffsetOf(first) \in 0..Len(buffer)
  BY <1>1, OffsetType
<1>6. OffsetOf(start) \in 0..OffsetOf(first)
  BY <1>3, <1>4, <1>5
<1>7. QED
  BY <1>1, <1>5, <1>6, PrefixBytes DEF Committed

(***************************************************************************)
(* The first line starts at the first character.                           *)
(***************************************************************************)
LEMMA FirstOffset ==
  ASSUME table # <<>>, table \in Seq(Line), table[1].start = 0
  PROVE  OffsetOf(0) = 0
BY DEF OffsetOf

(***************************************************************************)
(* The same after a step, with nothing before it.                          *)
(***************************************************************************)
LEMMA NothingCommitted ==
  ASSUME buffer' \in Seq(Char), start' = 0,
         table' = <<NewLine(0, Len(buffer'))>>
  PROVE  /\ start' < Len(table')
         /\ BytesOf(Committed') = 0
<1>1. Len(table') = 1 /\ table'[1] = NewLine(0, Len(buffer'))
  OBVIOUS
<1>2. Len(buffer') \in Nat
  OBVIOUS
<1>3. NewLine(0, Len(buffer')).start = 0
  BY <1>2, LineType DEF NewLine
<1>4. OffsetOf(start)' = 0
  BY <1>1, <1>3 DEF OffsetOf
<1>5. Committed' = <<>>
  <2>1. SubSeq(buffer', 1, 0) = <<>>
    OBVIOUS
  <2>2. QED
    BY <1>4, <2>1 DEF Committed
<1>6. QED
  BY <1>1, <1>5, BytesEmpty

(***************************************************************************)
(* Text that arrives.  A footnote in it makes the stream a single block.   *)
(***************************************************************************)
LEMMA ReceiveKeepsLength ==
  ASSUME ScanInv, LengthInv, Receive
  PROVE  LengthInv'
<1>1. /\ buffer' = buffer \o out /\ table' = ExtendLast(table, Len(buffer'))
      /\ UNCHANGED <<finalLen, closed>>
      /\ detected' = (detected \/ Seen(out))
  BY DEF Receive
<1>2. buffer \in Seq(Char) /\ out \in Seq(Char) /\ table \in Seq(Line)
      /\ table # <<>> /\ start \in Nat
  BY DEF ScanInv, Tiles
<1>3. Len(buffer') \in Nat /\ buffer' \in Seq(Char)
  BY <1>1, <1>2
<1>4. /\ Len(table') = Len(table) /\ Len(table) \in Nat
      /\ \A k \in 1..Len(table) : table'[k].start = table[k].start
  BY <1>1, <1>2, <1>3, StartsKept
<1>5. CASE SingleBlock /\ detected' /\ ~detected
  <2>1. start' = 0 /\ Seen(out)
    BY <1>1, <1>5 DEF Receive
  <2>2. out # <<>>
    <3>1. ~HasFootnote(<<>>)
      BY DEF HasFootnote
    <3>2. QED
      BY <2>1, <3>1 DEF Seen
  <2>3. BytesOf(out) > 0 /\ BytesOf(out) \in Nat /\ BytesOf(buffer) \in Nat
    BY <1>2, <2>2, BytesPositive, BytesType
  <2>4. BytesOf(buffer') = BytesOf(buffer) + BytesOf(out)
    BY <1>1, <1>2, BytesConcat
  <2>5. ASSUME ~closed
        PROVE  finalLen' < BytesOf(buffer')
    <3>1. finalLen <= BytesOf(Committed) /\ finalLen \in Nat
      BY <1>5, <2>5 DEF LengthInv, OneBlock
    <3>2. OffsetOf(start) \in 0..Len(buffer)
      BY <1>2, OffsetType
    <3>3. /\ BytesOf(buffer) = BytesOf(Committed)
                                 + BytesOf(From(buffer, OffsetOf(start)))
          /\ BytesOf(Committed) \in Nat
          /\ BytesOf(From(buffer, OffsetOf(start))) \in Nat
      BY <1>2, <3>2, HalvesBytes DEF Committed
    <3>4. QED
      BY <1>1, <2>3, <2>4, <3>1, <3>3
  <2>6. 0 < Len(table')
    BY <1>2, <1>4
  <2>7. OneBlock'
    BY <1>5 DEF OneBlock
  <2>8. BytesOf(buffer)' = BytesOf(buffer')
    BY DEF BytesOf
  <2>9. QED
    BY <1>1, <2>1, <2>5, <2>6, <2>7, <2>8 DEF LengthInv
<1>6. CASE ~(SingleBlock /\ detected' /\ ~detected)
  <2>1. start' = start
    BY <1>6 DEF Receive
  <2>2. OneBlock' <=> OneBlock
    BY <1>1, <1>6 DEF OneBlock
  <2>3. Len(table') \in Nat /\ Len(table') >= Len(table)
    BY <1>4
  <2>4. QED
    BY <1>1, <1>2, <1>4, <2>1, <2>2, <2>3, GrowingKeepsLength
<1>7. QED
  BY <1>5, <1>6

(***************************************************************************)
(* The splitter commits lines, and the buffer may be compacted: then the   *)
(* length kept is no more than what goes.                                  *)
(***************************************************************************)
LEMMA SplitKeepsLength ==
  ASSUME ScanInv, LengthInv, Split
  PROVE  LengthInv'
<1>1. /\ scan = Len(buffer) /\ closed' = closed /\ detected' = detected
      /\ finalLen' = KeptLen(buffer')
  BY DEF Split, Scanned
<1>2. PICK first \in start..Len(table) - 1 :
        (OneBlock => first = start) /\ Compact(first)
  BY DEF Split, OneBlock
<1>3. /\ start \in Nat /\ Len(table) \in Nat /\ buffer \in Seq(Char)
      /\ table \in Seq(Line) /\ finalLen \in Nat
  BY DEF ScanInv, LengthInv
<1>4. first \in Nat /\ start <= first /\ first < Len(table)
  BY <1>2, <1>3
<1>5. buffer' \in Seq(Char)
  BY <1>1, <1>2, <1>4, CompactKeeps
<1>6. BytesOf(buffer) \in Nat /\ BytesOf(buffer') \in Nat
  BY <1>3, <1>5, BytesType
<1>7. finalLen' = IF BytesOf(buffer) - BytesOf(buffer') <= finalLen
                  THEN finalLen - (BytesOf(buffer) - BytesOf(buffer')) ELSE 0
  BY <1>1 DEF KeptLen
<1>8. finalLen' \in Nat
  BY <1>3, <1>6, <1>7
<1>9. OneBlock' <=> OneBlock
  BY <1>1 DEF OneBlock
<1>10. /\ OffsetOf(first) \in 0..Len(buffer)
       /\ BytesOf(Committed) <= BytesOf(SubSeq(buffer, 1, OffsetOf(first)))
  BY <1>4, OffsetOrder
<1>11. /\ BytesOf(buffer) = BytesOf(SubSeq(buffer, 1, OffsetOf(first)))
                              + BytesOf(From(buffer, OffsetOf(first)))
       /\ BytesOf(SubSeq(buffer, 1, OffsetOf(first))) \in Nat
       /\ BytesOf(From(buffer, OffsetOf(first))) \in Nat
  BY <1>3, <1>10, HalvesBytes
<1>12. BytesOf(Committed) \in Nat
  <2>1. OffsetOf(start) \in 0..Len(buffer)
    BY <1>3, OffsetType
  <2>2. QED
    BY <1>3, <2>1, HalvesBytes DEF Committed
<1>13. BytesOf(Committed)' = BytesOf(Committed')
       /\ BytesOf(buffer)' = BytesOf(buffer')
  BY DEF BytesOf
<1>14. CASE closed
  BY <1>1, <1>8, <1>14 DEF LengthInv
<1>15. CASE ~closed /\ Compacts(first)
  <2>1. /\ buffer' = From(buffer, OffsetOf(first)) /\ start' = 0
        /\ table' = <<NewLine(0, Len(buffer'))>> /\ ~OneBlock
    BY <1>2, <1>15 DEF Compact, Compacts, OneBlock
  <2>2. finalLen <= BytesOf(Committed)
    BY <1>15, <2>1 DEF LengthInv
  <2>3. finalLen' = 0
    BY <1>3, <1>7, <1>10, <1>11, <1>12, <2>1, <2>2
  <2>4. start' < Len(table') /\ BytesOf(Committed') = 0
    BY <1>5, <2>1, NothingCommitted
  <2>5. finalLen' <= BytesOf(Committed')
    BY <2>3, <2>4
  <2>6. QED
    BY <1>8, <1>9, <1>13, <2>1, <2>4, <2>5 DEF LengthInv
<1>16. CASE ~closed /\ ~Compacts(first)
  <2>1. start' = first /\ buffer' = buffer /\ table' = table
    BY <1>2, <1>16 DEF Compact, text
  <2>2. finalLen' = finalLen
    BY <1>3, <1>6, <1>7, <2>1
  <2>3. Committed' = SubSeq(buffer, 1, OffsetOf(first))
    BY <2>1 DEF Committed, OffsetOf
  <2>4. ASSUME OneBlock
        PROVE  start' = 0 /\ finalLen' < BytesOf(buffer')
    BY <1>2, <1>16, <2>1, <2>2, <2>4 DEF LengthInv
  <2>5. ASSUME ~OneBlock
        PROVE  finalLen' <= BytesOf(Committed')
    <3>1. finalLen <= BytesOf(Committed)
      BY <1>16, <2>5 DEF LengthInv
    <3>2. finalLen <= BytesOf(SubSeq(buffer, 1, OffsetOf(first)))
      BY <1>3, <1>10, <1>11, <1>12, <3>1
    <3>3. QED
      BY <2>2, <2>3, <3>2
  <2>6. start' < Len(table')
    BY <1>4, <2>1
  <2>7. QED
    BY <1>8, <1>9, <1>13, <2>4, <2>5, <2>6 DEF LengthInv
<1>17. QED
  BY <1>14, <1>15, <1>16

(***************************************************************************)
(* finalize with nothing pending: everything is committed then, and the    *)
(* stream is not a single block, whose pending text is all of it.          *)
(***************************************************************************)
LEMMA NothingPending ==
  ASSUME ScanInv, LengthInv, ~closed, Pending = <<>>
  PROVE  ~OneBlock /\ OffsetOf(start) = Len(buffer) /\ Committed = buffer
<1>1. /\ start \in Nat /\ buffer \in Seq(Char) /\ table \in Seq(Line)
      /\ table # <<>> /\ table[1].start = 0 /\ finalLen \in Nat
  BY DEF ScanInv, Tiles, LengthInv
<1>2. OffsetOf(start) \in 0..Len(buffer)
  BY <1>1, OffsetType
<1>3. /\ BytesOf(buffer) = BytesOf(Committed) + BytesOf(Pending)
      /\ BytesOf(Committed) \in Nat /\ BytesOf(Pending) \in Nat
      /\ buffer = Committed \o Pending /\ Committed \in Seq(Char)
  BY <1>1, <1>2, HalvesBytes, Halves, PrefixIs DEF Committed, Pending
<1>4. Committed = buffer
  BY <1>3
<1>5. OffsetOf(start) = Len(buffer)
  <2>1. Len(Committed) = OffsetOf(start)
    BY <1>1, <1>2, PrefixIs DEF Committed
  <2>2. QED
    BY <1>4, <2>1
<1>6. ASSUME OneBlock
      PROVE  FALSE
  <2>1. start = 0 /\ finalLen < BytesOf(buffer)
    BY <1>6 DEF LengthInv
  <2>2. OffsetOf(start) = 0
    BY <1>1, <2>1, FirstOffset
  <2>3. Len(buffer) = 0
    BY <1>5, <2>2
  <2>4. buffer = <<>>
    BY <1>1, <2>3, EmptySeq
  <2>5. QED
    BY <1>1, <2>1, <2>4, BytesEmpty
<1>7. QED
  BY <1>4, <1>5, <1>6

(***************************************************************************)
(* finalize keeps the length of the buffer, compacted or not.              *)
(***************************************************************************)
LEMMA CommitKeepsLength ==
  ASSUME ScanInv, LengthInv, CommitPending
  PROVE  LengthInv'
<1>1. /\ scan = Len(buffer) /\ detected' = detected
      /\ finalLen' = BytesOf(buffer')
      /\ closed' = (closed \/ Pending # <<>>)
  BY DEF CommitPending, Scanned
<1>2. PICK first \in {start, Len(table)} :
        /\ Compact(first)
        /\ Pending = <<>> => first = start
  BY DEF CommitPending
<1>3. /\ start \in Nat /\ Len(table) \in Nat /\ buffer \in Seq(Char)
      /\ table \in Seq(Line)
  BY DEF ScanInv
<1>4. first \in Nat
  BY <1>2, <1>3
<1>5. buffer' \in Seq(Char)
  BY <1>1, <1>2, <1>4, CompactKeeps
<1>6. finalLen' \in Nat
  BY <1>1, <1>5, BytesType
<1>7. SUFFICES ASSUME ~closed'
               PROVE  /\ start' < Len(table')
                      /\ ~OneBlock' /\ finalLen' <= BytesOf(Committed')
  <2>1. BytesOf(Committed)' = BytesOf(Committed')
    BY DEF BytesOf
  <2>2. QED
    BY <1>6, <1>7, <2>1 DEF LengthInv
<1>8. ~closed /\ Pending = <<>>
  BY <1>1, <1>7
<1>9. ~OneBlock /\ OffsetOf(start) = Len(buffer) /\ Committed = buffer
  BY <1>8, NothingPending
<1>10. ~OneBlock'
  BY <1>1, <1>9 DEF OneBlock
<1>11. first = start
  BY <1>2, <1>8
<1>12. CASE Compacts(start)
  <2>1. /\ buffer' = Pending /\ start' = 0
        /\ table' = <<NewLine(0, Len(buffer'))>>
    BY <1>2, <1>11, <1>12 DEF Compact, Pending
  <2>2. finalLen' = 0
    BY <1>1, <1>8, <2>1, BytesEmpty
  <2>3. start' < Len(table') /\ BytesOf(Committed') = 0
    BY <1>5, <2>1, NothingCommitted
  <2>4. QED
    BY <1>10, <2>2, <2>3
<1>13. CASE ~Compacts(start)
  <2>1. start' = start /\ buffer' = buffer /\ table' = table
    BY <1>2, <1>11, <1>13 DEF Compact, text
  <2>2. Committed' = Committed
    BY <2>1 DEF Committed, OffsetOf
  <2>3. finalLen' = BytesOf(Committed') /\ finalLen' \in Nat
    BY <1>1, <1>6, <1>9, <2>1, <2>2
  <2>4. start' < Len(table')
    BY <1>8, <2>1 DEF LengthInv
  <2>5. QED
    BY <1>10, <2>3, <2>4
<1>14. QED
  BY <1>12, <1>13

(***************************************************************************)
(* A stream without text.                                                  *)
(***************************************************************************)
LEMMA FreshLength ==
  ASSUME start = 0, detected = FALSE, finalLen = 0, buffer = <<>>,
         table = <<NewLine(0, 0)>>
  PROVE  LengthInv
<1>1. Len(table) = 1 /\ table[1] = NewLine(0, 0) /\ NewLine(0, 0).start = 0
  BY LineType DEF NewLine
<1>2. OffsetOf(start) = 0
  BY <1>1 DEF OffsetOf
<1>3. Committed = <<>>
  BY <1>2 DEF Committed
<1>4. BytesOf(Committed) = 0
  BY <1>3, BytesEmpty
<1>5. QED
  BY <1>1, <1>4 DEF LengthInv, OneBlock

(***************************************************************************)
(* The same for the state after a step.                                    *)
(***************************************************************************)
LEMMA FreshLengthNext ==
  (/\ start = 0 /\ detected = FALSE /\ finalLen = 0 /\ buffer = <<>>
   /\ table = <<NewLine(0, 0)>>
   => LengthInv)'
BY FreshLength, PTL

(***************************************************************************)
(* Every step keeps LengthInv.                                             *)
(***************************************************************************)
LEMMA LengthInvKept ==
  ASSUME ScanInv, LengthInv, [Next]_vars
  PROVE  LengthInv'
<1>1. buffer \in Seq(Char) /\ table \in Seq(Line) /\ table # <<>>
      /\ Len(table) \in Nat /\ Len(buffer) \in Nat /\ scan \in Nat
  BY DEF ScanInv, Tiles
<1>2. ASSUME UNCHANGED <<buffer, table, start, finalLen, closed, detected>>
      PROVE  LengthInv'
  <2>1. Len(table') >= Len(table)
    BY <1>1, <1>2
  <2>2. QED
    BY <1>1, <1>2, <2>1, ScanningKeepsLength
<1>3. ASSUME NEW chunk \in Chunk, AppendChunk(chunk)
      PROVE  LengthInv'
  BY <1>2, <1>3 DEF AppendChunk, text
<1>4. CASE Normalize
  BY <1>2, <1>4 DEF Normalize, text
<1>5. CASE Receive
  BY <1>5, ReceiveKeepsLength
<1>6. CASE ScanChar
  <2>1. UNCHANGED <<buffer, start, finalLen, closed, detected>>
        /\ table' \in {table, BreakLine(table, scan)}
    BY <1>6 DEF ScanChar
  <2>2. /\ Len(table') \in Nat /\ Len(table') >= Len(table)
        /\ \A k \in 1..Len(table) : table'[k].start = table[k].start
    <3>1. CASE table' = table
      BY <1>1, <3>1
    <3>2. CASE table' = BreakLine(table, scan)
      BY <1>1, <3>2, StartsKept
    <3>3. QED
      BY <2>1, <3>1, <3>2
  <2>3. QED
    BY <2>1, <2>2, ScanningKeepsLength
<1>7. CASE Split
  BY <1>7, SplitKeepsLength
<1>8. CASE Return
  BY <1>2, <1>8 DEF Return, text
<1>9. CASE Finalize
  <2>1. /\ buffer' = buffer \o CrAtEnd
        /\ table' = ExtendLast(table, Len(buffer'))
        /\ UNCHANGED <<start, finalLen, closed, detected>>
    BY <1>9 DEF Finalize
  <2>2. CrAtEnd \in Seq(Char)
    BY CharAssumption DEF CrAtEnd
  <2>3. Len(buffer') \in Nat
    BY <1>1, <2>1, <2>2
  <2>4. /\ Len(table') = Len(table)
        /\ \A k \in 1..Len(table) : table'[k].start = table[k].start
    BY <1>1, <2>1, <2>3, StartsKept
  <2>5. Len(table') \in Nat /\ Len(table') >= Len(table)
    BY <1>1, <2>4
  <2>6. OneBlock' <=> OneBlock
    BY <2>1 DEF OneBlock
  <2>7. QED
    BY <2>1, <2>2, <2>4, <2>5, <2>6, GrowingKeepsLength
<1>10. CASE FinalizeBlank
  BY <1>2, <1>10 DEF FinalizeBlank, text
<1>11. CASE CommitPending
  BY <1>11, CommitKeepsLength
<1>12. CASE Reset
  BY <1>12, FreshLengthNext DEF Reset
<1>13. CASE UNCHANGED vars
  BY <1>2, <1>13 DEF vars, text
<1>14. QED
  BY <1>3, <1>4, <1>5, <1>6, <1>7, <1>8, <1>9, <1>10, <1>11, <1>12, <1>13
  DEF Next, NextOn

(***************************************************************************)
(* LengthInv is an invariant.                                              *)
(***************************************************************************)
LEMMA LengthInvHolds == Spec => []LengthInv
<1>1. Init => LengthInv
  BY FreshLength DEF Init
<1>2. ScanInv /\ LengthInv /\ [Next]_vars => LengthInv'
  BY LengthInvKept
<1>3. QED
  BY <1>1, <1>2, ScanInvHolds, PTL DEF Spec

(***************************************************************************)
(* finalize never takes pending text for nothing new because the buffer    *)
(* has, by chance, the length that it had at the last finalize: whatever   *)
(* was committed, compacted or put into a single block since.              *)
(***************************************************************************)
THEOREM FinalizeNeverSkips == Spec => []FinalizeSkipsNothing
<1>1. ScanInv /\ LengthInv => FinalizeSkipsNothing
  <2>1. SUFFICES ASSUME ScanInv, LengthInv, ~closed,
                        BytesOf(buffer) = finalLen
                 PROVE  BlankText(Pending)
    BY DEF FinalizeSkipsNothing, NothingNew
  <2>2. /\ start \in Nat /\ buffer \in Seq(Char) /\ finalLen \in Nat
    BY <2>1 DEF ScanInv, LengthInv
  <2>3. ~OneBlock /\ finalLen <= BytesOf(Committed)
    BY <2>1, <2>2 DEF LengthInv
  <2>4. OffsetOf(start) \in 0..Len(buffer)
    BY <2>1, <2>2, OffsetType
  <2>5. /\ BytesOf(buffer) = BytesOf(Committed) + BytesOf(Pending)
        /\ BytesOf(Committed) \in Nat /\ BytesOf(Pending) \in Nat
        /\ Pending \in Seq(Char)
    BY <2>2, <2>4, HalvesBytes DEF Committed, Pending
  <2>6. ~(BytesOf(Pending) > 0)
    BY <2>1, <2>3, <2>5
  <2>7. Pending = <<>>
    BY <2>5, <2>6, BytesPositive
  <2>8. DOMAIN Pending = {}
    <3>1. DOMAIN <<>> = {}
      OBVIOUS
    <3>2. QED
      BY <2>7, <3>1
  <2>9. QED
    BY <2>8 DEF BlankText
<1>2. QED
  BY <1>1, ScanInvHolds, LengthInvHolds, PTL

-----------------------------------------------------------------------------
(***************************************************************************)
(* A part of a text, in terms of elements.                                 *)
(***************************************************************************)
LEMMA SliceIs ==
  ASSUME NEW s \in Seq(Char), NEW a \in Nat, NEW b \in Nat,
         1 <= a, a <= b + 1, b <= Len(s)
  PROVE  \E p \in Seq(Char) :
           /\ p = SubSeq(s, a, b) /\ Len(p) = (b - a) + 1
           /\ \A k \in 1..Len(p) : p[k] = s[(a + k) - 1]
<1>1. \A k \in a..b : s[k] \in Char
  OBVIOUS
<1>2. SubSeq(s, a, b) \in Seq(Char)
  BY <1>1, SubSeqProperties
<1>3. Len(SubSeq(s, a, b)) = (b - a) + 1
  OBVIOUS
<1>4. ASSUME NEW k \in 1..Len(SubSeq(s, a, b))
      PROVE  SubSeq(s, a, b)[k] = s[(a + k) - 1]
  <2>1. k \in 1..(b - a) + 1
    BY <1>3
  <2>2. QED
    BY <2>1
<1>5. QED
  BY <1>2, <1>3, <1>4

(***************************************************************************)
(* Two parts with the same characters are the same.                        *)
(***************************************************************************)
LEMMA SameSlice ==
  ASSUME NEW s \in Seq(Char), NEW t \in Seq(Char), NEW a \in Nat, NEW b \in Nat,
         NEW c \in Nat, NEW d \in Nat,
         1 <= a, a <= b + 1, b <= Len(s), 1 <= c, d <= Len(t), d - c = b - a,
         \A k \in a..b : t[(k - a) + c] = s[k]
  PROVE  SubSeq(t, c, d) = SubSeq(s, a, b)
<1>1. PICK p \in Seq(Char) :
        /\ p = SubSeq(s, a, b) /\ Len(p) = (b - a) + 1
        /\ \A k \in 1..Len(p) : p[k] = s[(a + k) - 1]
  BY SliceIs
<1>2. c <= d + 1
  OBVIOUS
<1>3. PICK q \in Seq(Char) :
        /\ q = SubSeq(t, c, d) /\ Len(q) = (d - c) + 1
        /\ \A k \in 1..Len(q) : q[k] = t[(c + k) - 1]
  BY <1>2, SliceIs
<1>4. Len(p) = Len(q)
  BY <1>1, <1>3
<1>5. ASSUME NEW k \in 1..Len(p)
      PROVE  p[k] = q[k]
  <2>1. k \in Nat /\ k <= (b - a) + 1 /\ 1 <= k
    BY <1>1
  <2>2. (a + k) - 1 \in a..b /\ (((a + k) - 1) - a) + c = (c + k) - 1
    BY <2>1
  <2>3. t[(c + k) - 1] = s[(a + k) - 1]
    BY <2>2
  <2>4. k \in 1..Len(q)
    BY <1>4
  <2>5. QED
    BY <1>1, <1>3, <2>3, <2>4
<1>6. p = q
  BY <1>4, <1>5, SeqEqual
<1>7. QED
  BY <1>1, <1>3, <1>6

(***************************************************************************)
(* The bytes of a part are those of its two halves.                        *)
(***************************************************************************)
LEMMA SliceBytes ==
  ASSUME NEW s \in Seq(Char), NEW a \in Nat, NEW b \in Nat, NEW c \in Nat,
         1 <= a, a <= b + 1, b <= c, c <= Len(s)
  PROVE  /\ BytesOf(SubSeq(s, a, c)) = BytesOf(SubSeq(s, a, b))
                                         + BytesOf(SubSeq(s, b + 1, c))
         /\ BytesOf(SubSeq(s, a, b)) \in Nat
         /\ BytesOf(SubSeq(s, b + 1, c)) \in Nat
<1>1. PICK p \in Seq(Char) :
        /\ p = SubSeq(s, a, c) /\ Len(p) = (c - a) + 1
        /\ \A k \in 1..Len(p) : p[k] = s[(a + k) - 1]
  <2>1. a <= c + 1
    OBVIOUS
  <2>2. QED
    BY <2>1, SliceIs
<1>2. PICK n \in 0..Len(p) : n = (b - a) + 1
  <2>1. (b - a) + 1 \in 0..Len(p)
    BY <1>1
  <2>2. QED
    BY <2>1
<1>3. SubSeq(p, 1, n) = SubSeq(s, a, b)
  <2>1. n \in Nat /\ n <= Len(p) /\ n - 1 = b - a
    BY <1>1, <1>2
  <2>2. b <= Len(s)
    OBVIOUS
  <2>3. ASSUME NEW k \in a..b
        PROVE  p[(k - a) + 1] = s[k]
    <3>1. (k - a) + 1 \in 1..Len(p) /\ (a + ((k - a) + 1)) - 1 = k
      BY <1>1
    <3>2. QED
      BY <1>1, <3>1
  <2>4. QED
    BY <2>1, <2>2, <2>3, SameSlice
<1>4. From(p, n) = SubSeq(s, b + 1, c)
  <2> DEFINE first == b + 1
             last == Len(p)
             from == n + 1
  <2>1. /\ from \in Nat /\ last \in Nat /\ first \in Nat /\ 1 <= from
        /\ 1 <= first /\ first <= c + 1 /\ last - from = c - first
        /\ last <= Len(p)
    BY <1>1, <1>2
  <2>2. ASSUME NEW k \in first..c
        PROVE  p[(k - first) + from] = s[k]
    <3>1. /\ (k - first) + from \in 1..Len(p)
          /\ (a + ((k - first) + from)) - 1 = k
      BY <1>1, <1>2
    <3>2. QED
      BY <1>1, <3>1
  <2> HIDE DEF first, last, from
  <2>3. SubSeq(p, from, last) = SubSeq(s, first, c)
    BY <2>1, <2>2, SameSlice
  <2>4. QED
    BY <2>3 DEF From, first, last, from
<1>5. /\ BytesOf(p) = BytesOf(SubSeq(p, 1, n)) + BytesOf(From(p, n))
      /\ BytesOf(SubSeq(p, 1, n)) \in Nat /\ BytesOf(From(p, n)) \in Nat
  BY HalvesBytes
<1>6. QED
  BY <1>1, <1>3, <1>4, <1>5

(***************************************************************************)
(* A part of one character.                                                *)
(***************************************************************************)
LEMMA SliceOne ==
  ASSUME NEW s \in Seq(Char), NEW a \in 1..Len(s)
  PROVE  BytesOf(SubSeq(s, a, a)) = Bytes[s[a]]
<1>1. PICK p \in Seq(Char) :
        /\ p = SubSeq(s, a, a) /\ Len(p) = (a - a) + 1
        /\ \A k \in 1..Len(p) : p[k] = s[(a + k) - 1]
  <2>1. a \in Nat /\ 1 <= a /\ a <= a + 1 /\ a <= Len(s)
    OBVIOUS
  <2>2. QED
    BY <2>1, SliceIs
<1>2. Len(p) = 1 /\ p[1] = s[a]
  BY <1>1
<1>3. p = <<s[a]>> /\ s[a] \in Char
  BY <1>2
<1>4. QED
  BY <1>1, <1>3, BytesOne

-----------------------------------------------------------------------------
(***************************************************************************)
(* A footnote from position i to position j of s.                          *)
(***************************************************************************)
FootnoteAt(s, i, j) ==
  /\ i + 1 < j
  /\ s[i] = "[" /\ s[i + 1] = "^" /\ s[j] = "]"
  /\ IsIdentifier(SubSeq(s, i + 2, j - 1))

(***************************************************************************)
(* HasFootnote is about positions.                                         *)
(***************************************************************************)
LEMMA FootnoteSomewhere ==
  ASSUME NEW s \in Seq(Char)
  PROVE  HasFootnote(s) <=> \E i, j \in 1..Len(s) : FootnoteAt(s, i, j)
<1>1. DOMAIN s = 1..Len(s)
  OBVIOUS
<1>2. QED
  BY <1>1 DEF HasFootnote, FootnoteAt

(***************************************************************************)
(* The identifier of a footnote has a character, and none that ends it.    *)
(***************************************************************************)
LEMMA IdentifierChars ==
  ASSUME NEW s \in Seq(Char), NEW i \in 1..Len(s), NEW j \in 1..Len(s),
         FootnoteAt(s, i, j)
  PROVE  /\ i + 2 < j
         /\ \A k \in i + 2 .. j - 1 : s[k] \notin {"LF", " "}
         /\ BytesOf(SubSeq(s, i + 2, j - 1)) <= MaxIdLen
<1>1. i \in Nat /\ j \in Nat /\ j <= Len(s) /\ i + 1 < j /\ 1 <= i
  BY DEF FootnoteAt
<1> DEFINE first == i + 2
           last == j - 1
<1>2. first \in Nat /\ last \in Nat /\ 1 <= first /\ first <= last + 1
      /\ last <= Len(s)
  BY <1>1
<1>3. IsIdentifier(SubSeq(s, first, last))
  BY DEF FootnoteAt
<1> HIDE DEF first, last
<1>4. PICK id \in Seq(Char) :
        /\ id = SubSeq(s, first, last) /\ Len(id) = (last - first) + 1
        /\ \A k \in 1..Len(id) : id[k] = s[(first + k) - 1]
  BY <1>2, SliceIs
<1>5. /\ id # <<>> /\ BytesOf(id) <= MaxIdLen
      /\ \A k \in 1..Len(id) : id[k] \notin {"LF", " "}
  <2>1. DOMAIN id = 1..Len(id)
    BY <1>4
  <2>2. IsIdentifier(id)
    BY <1>3, <1>4
  <2>3. QED
    BY <2>1, <2>2 DEF IsIdentifier
<1>6. Len(id) >= 1
  <2>1. Len(id) \in Nat \ {0}
    BY <1>4, <1>5, EmptySeq
  <2>2. QED
    BY <2>1
<1>7. ASSUME NEW k \in first..last
      PROVE  s[k] \notin {"LF", " "}
  <2>1. PICK m \in 1..Len(id) : m = (k - first) + 1
    <3>1. (k - first) + 1 \in 1..Len(id)
      BY <1>2, <1>4
    <3>2. QED
      BY <3>1
  <2>2. (first + m) - 1 = k
    BY <1>2, <2>1
  <2>3. QED
    BY <1>4, <1>5, <2>2
<1>8. i + 2 < j
  BY <1>1, <1>4, <1>6 DEF first, last
<1>9. QED
  BY <1>4, <1>5, <1>7, <1>8 DEF first, last

(***************************************************************************)
(* A footnote stays one when its characters are moved.                     *)
(***************************************************************************)
LEMMA FootnoteMoves ==
  ASSUME NEW s \in Seq(Char), NEW t \in Seq(Char),
         NEW i \in 1..Len(s), NEW j \in 1..Len(s), FootnoteAt(s, i, j),
         NEW m \in 1..Len(t), NEW n \in 1..Len(t), n - m = j - i,
         \A k \in i..j : t[(k - i) + m] = s[k]
  PROVE  HasFootnote(t)
<1>1. i + 2 < j
  BY IdentifierChars
<1>2. /\ i \in Nat /\ j \in Nat /\ m \in Nat /\ n \in Nat /\ 1 <= i /\ 1 <= m
      /\ j <= Len(s) /\ n <= Len(t) /\ n - m = j - i
      /\ Len(s) \in Nat /\ Len(t) \in Nat
  OBVIOUS
<1>3. t[m] = "[" /\ t[m + 1] = "^" /\ t[n] = "]"
  <2>1. /\ i \in i..j /\ i + 1 \in i..j /\ j \in i..j
        /\ (i - i) + m = m /\ ((i + 1) - i) + m = m + 1 /\ (j - i) + m = n
    BY <1>1, <1>2
  <2>2. s[i] = "[" /\ s[i + 1] = "^" /\ s[j] = "]"
    BY DEF FootnoteAt
  <2>3. t[m] = s[i] /\ t[m + 1] = s[i + 1] /\ t[n] = s[j]
    <3>1. t[(i - i) + m] = s[i]
      BY <2>1
    <3>2. t[((i + 1) - i) + m] = s[i + 1]
      BY <2>1
    <3>3. t[(j - i) + m] = s[j]
      BY <2>1
    <3>4. QED
      BY ONLY <2>1, <3>1, <3>2, <3>3
  <2>4. QED
    BY <2>2, <2>3
<1>4. SubSeq(t, m + 2, n - 1) = SubSeq(s, i + 2, j - 1)
  <2> DEFINE a == i + 2
             b == j - 1
             c == m + 2
             d == n - 1
  <2>1. /\ a \in Nat /\ b \in Nat /\ c \in Nat /\ d \in Nat /\ 1 <= a
        /\ a <= b + 1 /\ b <= Len(s) /\ 1 <= c /\ d <= Len(t)
        /\ d - c = b - a
    BY <1>1, <1>2
  <2>2. ASSUME NEW k \in a..b
        PROVE  t[(k - a) + c] = s[k]
    <3>1. k \in i..j /\ (k - a) + c = (k - i) + m
      BY <1>2
    <3>2. QED
      BY <3>1
  <2> HIDE DEF a, b, c, d
  <2>3. SubSeq(t, c, d) = SubSeq(s, a, b)
    BY <2>1, <2>2, SameSlice
  <2>4. QED
    BY <2>3 DEF a, b, c, d
<1>5. FootnoteAt(t, m, n)
  <2>1. m + 1 < n
    BY <1>1, <1>2
  <2>2. IsIdentifier(SubSeq(t, m + 2, n - 1))
    BY <1>4 DEF FootnoteAt
  <2>3. QED
    BY <1>3, <2>1, <2>2 DEF FootnoteAt
<1>6. QED
  BY <1>5, FootnoteSomewhere

(***************************************************************************)
(* A footnote in a part of a text is one in the text.                      *)
(***************************************************************************)
LEMMA FootnoteInWhole ==
  ASSUME NEW s \in Seq(Char), NEW t \in Seq(Char),
         HasFootnote(s) \/ HasFootnote(t)
  PROVE  HasFootnote(s \o t)
<1> DEFINE u == s \o t
<1>1. /\ u \in Seq(Char) /\ Len(u) = Len(s) + Len(t)
      /\ Len(s) \in Nat /\ Len(t) \in Nat
      /\ \A k \in 1..Len(s) : u[k] = s[k]
      /\ \A k \in 1..Len(t) : u[k + Len(s)] = t[k]
  OBVIOUS
<1> HIDE DEF u
<1>2. CASE HasFootnote(s)
  <2>1. PICK i \in 1..Len(s), j \in 1..Len(s) : FootnoteAt(s, i, j)
    BY <1>2, FootnoteSomewhere
  <2>2. i \in 1..Len(u) /\ j \in 1..Len(u)
    BY <1>1
  <2>3. ASSUME NEW k \in i..j
        PROVE  u[(k - i) + i] = s[k]
    <3>1. k \in 1..Len(s) /\ (k - i) + i = k
      BY <1>1
    <3>2. QED
      BY <1>1, <3>1
  <2>4. HasFootnote(u)
    BY <1>1, <2>1, <2>2, <2>3, FootnoteMoves
  <2>5. QED
    BY <2>4 DEF u
<1>3. CASE HasFootnote(t)
  <2>1. PICK i \in 1..Len(t), j \in 1..Len(t) : FootnoteAt(t, i, j)
    BY <1>3, FootnoteSomewhere
  <2>2. PICK m \in 1..Len(u), n \in 1..Len(u) :
          m = i + Len(s) /\ n = j + Len(s)
    <3>1. i + Len(s) \in 1..Len(u) /\ j + Len(s) \in 1..Len(u)
      BY <1>1
    <3>2. QED
      BY <3>1
  <2>3. n - m = j - i
    BY <1>1, <2>2
  <2>4. ASSUME NEW k \in i..j
        PROVE  u[(k - i) + m] = t[k]
    <3>1. k \in 1..Len(t) /\ (k - i) + m = k + Len(s)
      BY <1>1, <2>2
    <3>2. QED
      BY <1>1, <3>1
  <2>5. HasFootnote(u)
    BY <1>1, <2>1, <2>3, <2>4, FootnoteMoves
  <2>6. QED
    BY <2>5 DEF u
<1>4. QED
  BY <1>2, <1>3

(***************************************************************************)
(* Two texts in a row, in terms of elements.                               *)
(***************************************************************************)
LEMMA ConcatIs ==
  ASSUME NEW s \in Seq(Char), NEW t \in Seq(Char)
  PROVE  \E u \in Seq(Char), L \in Nat, M \in Nat :
           /\ u = s \o t /\ L = Len(s) /\ M = Len(t) /\ Len(u) = L + M
           /\ \A k \in 1..L : u[k] = s[k]
           /\ \A k \in 1..M : u[k + L] = t[k]
<1> DEFINE u == s \o t
<1>1. /\ u \in Seq(Char) /\ Len(u) = Len(s) + Len(t)
      /\ Len(s) \in Nat /\ Len(t) \in Nat
      /\ \A k \in 1..Len(s) : u[k] = s[k]
      /\ \A k \in 1..Len(t) : u[k + Len(s)] = t[k]
  OBVIOUS
<1> HIDE DEF u
<1>2. QED
  BY <1>1 DEF u

(***************************************************************************)
(* No footnote begins in a text that ends in a newline or a space, or is   *)
(* empty, and ends after it.                                               *)
(***************************************************************************)
EndsBlank(s) == s = <<>> \/ s[Len(s)] \in {"LF", " "}

(***************************************************************************)
(* So what follows decides alone.                                          *)
(***************************************************************************)
LEMMA FootnoteAfterBlank ==
  ASSUME NEW s \in Seq(Char), NEW t \in Seq(Char), ~HasFootnote(s),
         EndsBlank(s)
  PROVE  HasFootnote(s \o t) <=> HasFootnote(t)
<1>1. PICK u \in Seq(Char), L \in Nat, M \in Nat :
        /\ u = s \o t /\ L = Len(s) /\ M = Len(t) /\ Len(u) = L + M
        /\ \A k \in 1..L : u[k] = s[k]
        /\ \A k \in 1..M : u[k + L] = t[k]
  BY ConcatIs
<1>2. ASSUME HasFootnote(u)
      PROVE  HasFootnote(t)
  <2>1. PICK i \in 1..Len(u), j \in 1..Len(u) : FootnoteAt(u, i, j)
    BY <1>1, <1>2, FootnoteSomewhere
  <2>2. i + 2 < j /\ i \in Nat /\ j \in Nat /\ 1 <= i /\ j <= L + M
    <3>1. i + 2 < j
      BY <2>1, IdentifierChars
    <3>2. i \in Nat /\ j \in Nat /\ 1 <= i /\ j <= L + M
      BY <1>1
    <3>3. QED
      BY <3>1, <3>2
  <2>3. /\ \A k \in i + 2 .. j - 1 : u[k] \notin {"LF", " "}
        /\ u[i] = "[" /\ u[i + 1] = "^"
    <3>1. \A k \in i + 2 .. j - 1 : u[k] \notin {"LF", " "}
      BY <2>1, IdentifierChars
    <3>2. u[i] = "[" /\ u[i + 1] = "^"
      BY <2>1 DEF FootnoteAt
    <3>3. QED
      BY <3>1, <3>2
  <2>4. ~(j <= L)
    <3>1. SUFFICES ASSUME j <= L
                   PROVE  HasFootnote(s)
      BY <3>1
    <3>2. i \in 1..L /\ j \in 1..L /\ j - i = j - i
      BY <2>2, <3>1
    <3>3. ASSUME NEW k \in i..j
          PROVE  s[(k - i) + i] = u[k]
      <4>1. k \in 1..L /\ (k - i) + i = k
        BY <2>2, <3>1
      <4>2. QED
        BY <1>1, <4>1
    <3>4. QED
      BY <1>1, <2>1, <3>2, <3>3, FootnoteMoves
  <2>5. ~(i <= L)
    <3>1. SUFFICES ASSUME i <= L
                   PROVE  FALSE
      BY <3>1
    <3>2. L \in 1..L /\ L >= 1
      BY <2>2, <3>1
    <3>3. s # <<>>
      BY <1>1, <3>2, EmptySeq
    <3>4. u[L] \in {"LF", " "}
      BY <1>1, <3>2, <3>3 DEF EndsBlank
    <3>5. L # i /\ L # i + 1
      BY <2>3, <3>4
    <3>6. L \in i + 2 .. j - 1
      BY <2>2, <2>4, <3>1, <3>5
    <3>7. QED
      BY <2>3, <3>4, <3>6
  <2>6. PICK m \in 1..M, n \in 1..M : m = i - L /\ n = j - L
    <3>1. i - L \in 1..M /\ j - L \in 1..M
      BY <2>2, <2>4, <2>5
    <3>2. QED
      BY <3>1
  <2>7. n - m = j - i
    BY <2>2, <2>6
  <2>8. ASSUME NEW k \in i..j
        PROVE  t[(k - i) + m] = u[k]
    <3>1. (k - i) + m \in 1..M /\ ((k - i) + m) + L = k
      BY <2>2, <2>4, <2>5, <2>6
    <3>2. QED
      BY <1>1, <3>1
  <2>9. /\ u \in Seq(Char) /\ t \in Seq(Char)
        /\ i \in 1..Len(u) /\ j \in 1..Len(u)
        /\ m \in 1..Len(t) /\ n \in 1..Len(t)
    BY <1>1
  <2>10. QED
    BY ONLY <2>1, <2>7, <2>8, <2>9, FootnoteMoves
<1>3. ASSUME HasFootnote(t)
      PROVE  HasFootnote(u)
  BY <1>1, <1>3, FootnoteInWhole
<1>4. QED
  BY <1>1, <1>2, <1>3

(***************************************************************************)
(* A footnote that is new when a text grows ends in what is new.           *)
(***************************************************************************)
LEMMA FootnoteEndsLater ==
  ASSUME NEW s \in Seq(Char), NEW t \in Seq(Char), ~HasFootnote(s),
         NEW i \in 1..Len(s \o t), NEW j \in 1..Len(s \o t),
         FootnoteAt(s \o t, i, j)
  PROVE  Len(s) < j
<1>1. PICK u \in Seq(Char), L \in Nat, M \in Nat :
        /\ u = s \o t /\ L = Len(s) /\ M = Len(t) /\ Len(u) = L + M
        /\ \A k \in 1..L : u[k] = s[k]
        /\ \A k \in 1..M : u[k + L] = t[k]
  BY ConcatIs
<1>2. i \in 1..Len(u) /\ j \in 1..Len(u) /\ FootnoteAt(u, i, j)
  BY <1>1
<1>3. i + 2 < j /\ i \in Nat /\ j \in Nat /\ 1 <= i
  <2>1. i + 2 < j
    BY <1>2, IdentifierChars
  <2>2. QED
    BY <1>2, <2>1
<1>4. SUFFICES ASSUME j <= L
               PROVE  HasFootnote(s)
  BY <1>1, <1>3
<1>5. i \in 1..L /\ j \in 1..L /\ j - i = j - i
  BY <1>3, <1>4
<1>6. ASSUME NEW k \in i..j
      PROVE  s[(k - i) + i] = u[k]
  <2>1. k \in 1..L /\ (k - i) + i = k
    BY <1>3, <1>4
  <2>2. QED
    BY <1>1, <2>1
<1>7. QED
  BY <1>1, <1>2, <1>5, <1>6, FootnoteMoves

(***************************************************************************)
(* A newline makes no footnote.                                            *)
(***************************************************************************)
LEMMA FootnoteNotByNewline ==
  ASSUME NEW s \in Seq(Char)
  PROVE  HasFootnote(Append(s, "LF")) <=> HasFootnote(s)
<1>1. "LF" \in Char /\ <<"LF">> \in Seq(Char)
  BY CharAssumption
<1>2. Append(s, "LF") = s \o <<"LF">>
  OBVIOUS
<1>3. ASSUME HasFootnote(s)
      PROVE  HasFootnote(s \o <<"LF">>)
  BY <1>1, <1>3, FootnoteInWhole
<1>4. ASSUME HasFootnote(s \o <<"LF">>), ~HasFootnote(s)
      PROVE  FALSE
  <2> DEFINE u == s \o <<"LF">>
  <2>1. /\ u \in Seq(Char) /\ Len(u) = Len(s) + 1 /\ Len(s) \in Nat
        /\ u[Len(s) + 1] = "LF"
    BY <1>1
  <2>2. PICK i \in 1..Len(u), j \in 1..Len(u) : FootnoteAt(u, i, j)
    BY <1>4, <2>1, FootnoteSomewhere
  <2>3. Len(s) < j
    BY <1>1, <1>4, <2>2, FootnoteEndsLater
  <2> HIDE DEF u
  <2>4. j = Len(s) + 1
    BY <2>1, <2>2, <2>3
  <2>5. u[j] = "]"
    BY <2>2 DEF FootnoteAt
  <2>6. QED
    BY <2>1, <2>4, <2>5
<1>5. QED
  BY <1>2, <1>3, <1>4

(***************************************************************************)
(* The bytes from one position to another.                                 *)
(***************************************************************************)
BytesFrom(s, a, b) == BytesOf(SubSeq(s, a, b))

Follows(b, d) == d = b + 1

(***************************************************************************)
(* They add up.                                                            *)
(***************************************************************************)
LEMMA BytesFromTo ==
  ASSUME NEW s \in Seq(Char), NEW a \in Nat, NEW b \in Nat, NEW c \in Nat,
         NEW d \in Nat, Follows(b, d), 1 <= a, a <= d, b <= c, c <= Len(s)
  PROVE  /\ BytesFrom(s, a, c) = BytesFrom(s, a, b) + BytesFrom(s, d, c)
         /\ BytesFrom(s, a, b) \in Nat /\ BytesFrom(s, d, c) \in Nat
<1>0. d = b + 1
  BY DEF Follows
<1>1. 1 <= a /\ a <= b + 1 /\ b <= c /\ c <= Len(s)
  BY <1>0
<1>2. /\ BytesOf(SubSeq(s, a, c)) = BytesOf(SubSeq(s, a, b))
                                       + BytesOf(SubSeq(s, b + 1, c))
      /\ BytesOf(SubSeq(s, a, b)) \in Nat
      /\ BytesOf(SubSeq(s, b + 1, c)) \in Nat
  BY <1>1, SliceBytes
<1>3. QED
  BY ONLY <1>0, <1>2 DEF BytesFrom

(***************************************************************************)
(* A footnote without its last or its first character fits into the window.*)
(***************************************************************************)
LEMMA FootnoteFits ==
  ASSUME NEW s \in Seq(Char), NEW i \in 1..Len(s), NEW j \in 1..Len(s),
         FootnoteAt(s, i, j)
  PROVE  /\ \A m \in i..j - 1 : BytesOf(SubSeq(s, i, m)) <= MaxTail
         /\ \A m \in i + 1 .. j : BytesOf(SubSeq(s, m, j)) <= MaxTail
<1>1. i \in Nat /\ j \in Nat /\ 1 <= i /\ j <= Len(s) /\ i + 2 < j
      /\ Len(s) \in Nat
  <2>1. i + 2 < j
    BY IdentifierChars
  <2>2. QED
    BY <2>1
<1>2. PICK a \in Nat, b \in Nat, z \in Nat :
        a = i + 1 /\ b = i + 2 /\ z = j - 1
  <2>1. i + 1 \in Nat /\ i + 2 \in Nat /\ j - 1 \in Nat
    BY <1>1
  <2>2. QED
    BY <2>1
<1>3. BytesFrom(s, i, i) = 1 /\ BytesFrom(s, a, a) = 1 /\ BytesFrom(s, j, j) = 1
  <2>1. a \in 1..Len(s)
    BY <1>1, <1>2
  <2>2. s[i] = "[" /\ s[a] = "^" /\ s[j] = "]"
    BY <1>2 DEF FootnoteAt
  <2>3. Bytes[s[i]] = 1 /\ Bytes[s[a]] = 1 /\ Bytes[s[j]] = 1
    BY <2>2, CharAssumption
  <2>4. QED
    BY <2>1, <2>3, SliceOne DEF BytesFrom
<1>4. /\ BytesFrom(s, i, z) = BytesFrom(s, i, i) + BytesFrom(s, a, z)
      /\ BytesFrom(s, a, z) \in Nat
  <2>1. Follows(i, a) /\ i <= a /\ i <= z /\ z <= Len(s)
    BY <1>1, <1>2 DEF Follows
  <2>2. QED
    BY <1>1, <2>1, BytesFromTo
<1>5. /\ BytesFrom(s, a, z) = BytesFrom(s, a, a) + BytesFrom(s, b, z)
      /\ BytesFrom(s, b, z) \in Nat
  <2>1. Follows(a, b) /\ 1 <= a /\ a <= b /\ a <= z /\ z <= Len(s)
    BY <1>1, <1>2 DEF Follows
  <2>2. QED
    BY <1>1, <2>1, BytesFromTo
<1>6. BytesFrom(s, a, j) = BytesFrom(s, a, z) + BytesFrom(s, j, j)
  <2>1. Follows(z, j) /\ 1 <= a /\ a <= j /\ z <= j /\ j <= Len(s)
    BY <1>1, <1>2 DEF Follows
  <2>2. QED
    BY <1>1, <2>1, BytesFromTo
<1>7. BytesFrom(s, b, z) <= MaxIdLen
  BY <1>2, IdentifierChars DEF BytesFrom
<1>8. BytesFrom(s, i, z) <= MaxTail /\ BytesFrom(s, a, j) <= MaxTail
      /\ BytesFrom(s, i, z) \in Nat /\ BytesFrom(s, a, j) \in Nat
  BY <1>3, <1>4, <1>5, <1>6, <1>7, WindowAssumption
<1>9. ASSUME NEW m \in i..j - 1
      PROVE  BytesFrom(s, i, m) <= MaxTail
  <2>1. PICK y \in Nat : y = m + 1
    <3>1. m + 1 \in Nat
      BY <1>1
    <3>2. QED
      BY <3>1
  <2>2. m \in Nat /\ Follows(m, y) /\ i <= y /\ m <= z /\ z <= Len(s)
    BY <1>1, <1>2, <2>1 DEF Follows
  <2>3. /\ BytesFrom(s, i, z) = BytesFrom(s, i, m) + BytesFrom(s, y, z)
        /\ BytesFrom(s, i, m) \in Nat /\ BytesFrom(s, y, z) \in Nat
    BY <1>1, <2>1, <2>2, BytesFromTo
  <2>4. QED
    BY <1>8, <2>3, WindowAssumption
<1>10. ASSUME NEW m \in i + 1 .. j
       PROVE  BytesFrom(s, m, j) <= MaxTail
  <2>1. PICK y \in Nat : y = m - 1
    <3>1. m - 1 \in Nat
      BY <1>1
    <3>2. QED
      BY <3>1
  <2>2. m \in Nat /\ Follows(y, m) /\ 1 <= a /\ a <= m /\ y <= j /\ j <= Len(s)
    BY <1>1, <1>2, <2>1 DEF Follows
  <2>3. /\ BytesFrom(s, a, j) = BytesFrom(s, a, y) + BytesFrom(s, m, j)
        /\ BytesFrom(s, a, y) \in Nat /\ BytesFrom(s, m, j) \in Nat
    BY <1>1, <2>2, BytesFromTo
  <2>4. QED
    BY <1>8, <2>3, WindowAssumption
<1>11. QED
  BY <1>9, <1>10 DEF BytesFrom

(***************************************************************************)
(* The windows: from where on, or up to where, a text fits.                *)
(***************************************************************************)
LEMMA TakeSuffixIs ==
  ASSUME NEW s \in Seq(Char)
  PROVE  \E n \in 0..Len(s) :
           /\ TakeSuffix(s) = From(s, n)
           /\ \A m \in 0..Len(s) : BytesOf(From(s, m)) <= MaxTail => n <= m
<1> DEFINE fits == {n \in 0..Len(s) : BytesOf(From(s, n)) <= MaxTail}
<1>1. Len(s) \in fits
  <2>1. From(s, Len(s)) = <<>>
    BY DEF From
  <2>2. BytesOf(From(s, Len(s))) <= MaxTail
    BY <2>1, BytesEmpty, WindowAssumption
  <2>3. QED
    BY <2>2
<1>2. fits \subseteq Nat /\ fits # {}
  BY <1>1
<1> HIDE DEF fits
<1>3. \E n \in fits : \A m \in fits : n <= m
  BY <1>2, LeastExists
<1>4. PICK n \in fits :
        n = (CHOOSE x \in fits : \A m \in fits : x <= m)
        /\ \A m \in fits : n <= m
  BY <1>3
<1>5. TakeSuffix(s) = From(s, n)
  BY <1>4 DEF TakeSuffix, fits
<1>6. QED
  BY <1>4, <1>5 DEF fits

(***************************************************************************)
(* The same for the beginning.                                             *)
(***************************************************************************)
LEMMA TakePrefixIs ==
  ASSUME NEW s \in Seq(Char)
  PROVE  \E n \in 0..Len(s) :
           /\ TakePrefix(s) = SubSeq(s, 1, n)
           /\ \A m \in 0..Len(s) : BytesOf(SubSeq(s, 1, m)) <= MaxTail => m <= n
<1> DEFINE fits == {n \in 0..Len(s) : BytesOf(SubSeq(s, 1, n)) <= MaxTail}
           left == {k \in 0..Len(s) : Len(s) - k \in fits}
<1>1. 0 \in fits
  <2>1. SubSeq(s, 1, 0) = <<>>
    OBVIOUS
  <2>2. BytesOf(SubSeq(s, 1, 0)) = 0
    BY ONLY <2>1, BytesEmpty
  <2>3. 0 \in 0..Len(s) /\ 0 <= MaxTail
    BY WindowAssumption
  <2>4. QED
    BY <2>2, <2>3
<1>2. left \subseteq Nat /\ left # {}
  <2>1. Len(s) - Len(s) = 0 /\ Len(s) \in 0..Len(s)
    OBVIOUS
  <2>2. Len(s) \in left
    BY <1>1, <2>1
  <2>3. QED
    BY <2>2
<1>3. fits \subseteq 0..Len(s)
  OBVIOUS
<1> HIDE DEF fits
<1>4. PICK k \in left : \A m \in left : k <= m
  <2> HIDE DEF left
  <2>1. QED
    BY <1>2, LeastExists
<1>5. k \in Nat /\ Len(s) \in Nat /\ Len(s) - k \in fits
  BY <1>4
<1>6. ASSUME NEW m \in fits
      PROVE  m <= Len(s) - k
  <2>1. m \in 0..Len(s)
    BY <1>3
  <2>2. Len(s) - m \in 0..Len(s) /\ Len(s) - (Len(s) - m) = m
    BY <2>1
  <2>3. Len(s) - m \in left
    BY <2>2
  <2>4. k <= Len(s) - m
    BY <1>4, <2>3
  <2>5. QED
    BY <1>5, <2>1, <2>4
<1>7. \E n \in fits : \A m \in fits : m <= n
  BY <1>5, <1>6
<1>8. PICK n \in fits :
        n = (CHOOSE x \in fits : \A m \in fits : m <= x)
        /\ \A m \in fits : m <= n
  BY <1>7
<1>9. TakePrefix(s) = SubSeq(s, 1, n)
  BY <1>8 DEF TakePrefix, fits
<1>10. QED
  BY <1>3, <1>8, <1>9 DEF fits

(***************************************************************************)
(* What is cut off at the beginning is missed by no footnote that may      *)
(* still come.                                                             *)
(***************************************************************************)
LEMMA SuffixForesees ==
  ASSUME NEW s \in Seq(Char), NEW t \in Seq(Char), ~HasFootnote(s)
  PROVE  /\ TakeSuffix(s) \in Seq(Char)
         /\ HasFootnote(TakeSuffix(s) \o t) <=> HasFootnote(s \o t)
<1>1. PICK n \in 0..Len(s) :
        /\ TakeSuffix(s) = From(s, n)
        /\ \A m \in 0..Len(s) : BytesOf(From(s, m)) <= MaxTail => n <= m
  BY TakeSuffixIs
<1>2. PICK p \in Seq(Char), r \in Seq(Char) :
        p = SubSeq(s, 1, n) /\ r = From(s, n) /\ s = p \o r /\ Len(p) = n
  <2>1. SubSeq(s, 1, n) \in Seq(Char) /\ Len(SubSeq(s, 1, n)) = n
    BY PrefixIs
  <2>2. From(s, n) \in Seq(Char) /\ s = SubSeq(s, 1, n) \o From(s, n)
    BY Halves, FromType
  <2>3. QED
    BY <2>1, <2>2
<1>3. PICK v \in Seq(Char) : v = r \o t
  BY ConcatIs
<1>4. s \o t = p \o v
  <2>1. (p \o r) \o t = p \o (r \o t)
    BY ConcatAssoc
  <2>2. QED
    BY ONLY <1>2, <1>3, <2>1
<1>5. PICK u \in Seq(Char), L \in Nat, M \in Nat :
        /\ u = p \o v /\ L = Len(p) /\ M = Len(v) /\ Len(u) = L + M
        /\ \A k \in 1..L : u[k] = p[k]
        /\ \A k \in 1..M : u[k + L] = v[k]
  BY ConcatIs
<1>6. ASSUME HasFootnote(v)
      PROVE  HasFootnote(u)
  BY <1>5, <1>6, FootnoteInWhole
<1>7. ASSUME HasFootnote(u)
      PROVE  HasFootnote(v)
  <2>1. PICK i \in 1..Len(u), j \in 1..Len(u) : FootnoteAt(u, i, j)
    BY <1>7, FootnoteSomewhere
  <2>2. i + 2 < j /\ i \in Nat /\ j \in Nat /\ 1 <= i /\ j <= L + M
    <3>1. i + 2 < j
      BY <2>1, IdentifierChars
    <3>2. QED
      BY <1>5, <3>1
  <2>3. Len(s) < j
    <3>1. i \in 1..Len(s \o t) /\ j \in 1..Len(s \o t)
          /\ FootnoteAt(s \o t, i, j)
      BY <1>4, <1>5, <2>1
    <3>2. QED
      BY <3>1, FootnoteEndsLater
  <2>4. L < i
    <3>1. CASE ~(i <= Len(s))
      BY <1>1, <1>2, <1>5, <2>2, <3>1
    <3>2. CASE i <= Len(s)
      <4>1. PICK z \in Nat : z = Len(s)
        OBVIOUS
      <4>2. z \in i..j - 1
        BY <2>2, <2>3, <3>2, <4>1
      <4>3. BytesOf(SubSeq(u, i, z)) <= MaxTail
        BY <2>1, <4>2, FootnoteFits
      <4>4. SubSeq(u, i, z) = SubSeq(s, i, z)
        <5>1. \A k \in 1..Len(s) : u[k] = s[k]
          <6>1. \A k \in 1..Len(s) : (s \o t)[k] = s[k]
            BY ConcatIs
          <6>2. QED
            BY ONLY <1>4, <1>5, <6>1
        <5>2. 1 <= i /\ i <= z + 1 /\ z <= Len(s) /\ z <= Len(u) /\ z - i = z - i
          <6>1. j <= Len(u)
            BY <2>1
          <6>2. QED
            BY <2>2, <2>3, <3>2, <4>1, <6>1
        <5>3. ASSUME NEW k \in i..z
              PROVE  u[(k - i) + i] = s[k]
          <6>1. (k - i) + i = k /\ k \in 1..Len(s)
            BY <2>2, <4>1
          <6>2. QED
            BY <5>1, <6>1
        <5>4. QED
          BY <2>2, <5>2, <5>3, SameSlice
      <4>5. PICK m \in 0..Len(s) : m + 1 = i
        <5>1. i - 1 \in 0..Len(s) /\ (i - 1) + 1 = i
          BY <2>2, <3>2
        <5>2. QED
          BY <5>1
      <4>6. BytesOf(From(s, m)) <= MaxTail
        BY <4>1, <4>3, <4>4, <4>5 DEF From
      <4>7. n <= m
        BY <1>1, <4>6
      <4>8. QED
        BY <1>2, <1>5, <4>5, <4>7
    <3>3. QED
      BY <3>1, <3>2
  <2>5. PICK m \in 1..M, x \in 1..M : m = i - L /\ x = j - L
    <3>1. i - L \in 1..M /\ j - L \in 1..M
      BY <2>2, <2>4
    <3>2. QED
      BY <3>1
  <2>6. x - m = j - i
    BY <2>2, <2>5
  <2>7. ASSUME NEW k \in i..j
        PROVE  v[(k - i) + m] = u[k]
    <3>1. (k - i) + m \in 1..M /\ ((k - i) + m) + L = k
      BY <2>2, <2>4, <2>5
    <3>2. QED
      BY <1>5, <3>1
  <2>8. m \in 1..Len(v) /\ x \in 1..Len(v)
    BY <1>5
  <2>9. QED
    BY <2>1, <2>6, <2>7, <2>8, FootnoteMoves
<1>8. QED
  BY <1>1, <1>2, <1>3, <1>4, <1>5, <1>6, <1>7

(***************************************************************************)
(* The search of tail and chunk finds what is in both together.            *)
(***************************************************************************)
LEMMA SeenIsAll ==
  ASSUME NEW chunk \in Seq(Char), tail \in Seq(Char), ~HasFootnote(tail)
  PROVE  Seen(chunk) <=> HasFootnote(tail \o chunk)
<1>1. PICK n \in 0..Len(chunk) :
        /\ TakePrefix(chunk) = SubSeq(chunk, 1, n)
        /\ \A m \in 0..Len(chunk) :
             BytesOf(SubSeq(chunk, 1, m)) <= MaxTail => m <= n
  BY TakePrefixIs
<1>2. PICK p \in Seq(Char), q \in Seq(Char) :
        /\ p = SubSeq(chunk, 1, n) /\ q = From(chunk, n) /\ chunk = p \o q
        /\ Len(p) = n
  <2>1. SubSeq(chunk, 1, n) \in Seq(Char) /\ Len(SubSeq(chunk, 1, n)) = n
    BY PrefixIs
  <2>2. From(chunk, n) \in Seq(Char)
        /\ chunk = SubSeq(chunk, 1, n) \o From(chunk, n)
    BY Halves, FromType
  <2>3. QED
    BY <2>1, <2>2
<1>3. PICK w \in Seq(Char) : w = tail \o p
  BY ConcatIs
<1>4. tail \o chunk = w \o q
  <2>1. (tail \o p) \o q = tail \o (p \o q)
    BY ConcatAssoc
  <2>2. QED
    BY ONLY <1>2, <1>3, <2>1
<1>5. PICK u \in Seq(Char), L \in Nat, M \in Nat :
        /\ u = tail \o chunk /\ L = Len(tail) /\ M = Len(chunk) /\ Len(u) = L + M
        /\ \A k \in 1..L : u[k] = tail[k]
        /\ \A k \in 1..M : u[k + L] = chunk[k]
  BY ConcatIs
<1>6. ASSUME Seen(chunk)
      PROVE  HasFootnote(u)
  <2>1. CASE HasFootnote(chunk)
    BY <1>5, <2>1, FootnoteInWhole
  <2>2. CASE HasFootnote(w)
    BY <1>4, <1>5, <2>2, FootnoteInWhole
  <2>3. HasFootnote(chunk) \/ HasFootnote(w)
    BY <1>1, <1>2, <1>3, <1>6 DEF Seen
  <2>4. QED
    BY <2>1, <2>2, <2>3
<1>7. ASSUME HasFootnote(u)
      PROVE  Seen(chunk)
  <2>1. PICK i \in 1..Len(u), j \in 1..Len(u) : FootnoteAt(u, i, j)
    BY <1>7, FootnoteSomewhere
  <2>2. i + 2 < j /\ i \in Nat /\ j \in Nat /\ 1 <= i /\ j <= L + M
    <3>1. i + 2 < j
      BY <2>1, IdentifierChars
    <3>2. QED
      BY <1>5, <3>1
  <2>3. L < j
    <3>1. i \in 1..Len(tail \o chunk) /\ j \in 1..Len(tail \o chunk)
          /\ FootnoteAt(tail \o chunk, i, j)
      BY <1>5, <2>1
    <3>2. QED
      BY <1>5, <3>1, FootnoteEndsLater
  <2>4. CASE L < i
    <3>1. PICK m \in 1..M, x \in 1..M : m = i - L /\ x = j - L
      <4>1. i - L \in 1..M /\ j - L \in 1..M
        BY <2>2, <2>4
      <4>2. QED
        BY <4>1
    <3>2. x - m = j - i
      BY <2>2, <3>1
    <3>3. ASSUME NEW k \in i..j
          PROVE  chunk[(k - i) + m] = u[k]
      <4>1. (k - i) + m \in 1..M /\ ((k - i) + m) + L = k
        BY <2>2, <2>4, <3>1
      <4>2. QED
        BY <1>5, <4>1
    <3>4. HasFootnote(chunk)
      <4>1. /\ u \in Seq(Char) /\ chunk \in Seq(Char)
            /\ i \in 1..Len(u) /\ j \in 1..Len(u)
            /\ m \in 1..Len(chunk) /\ x \in 1..Len(chunk)
        BY <1>5
      <4>2. QED
        BY ONLY <2>1, <3>2, <3>3, <4>1, FootnoteMoves
    <3>5. QED
      BY <3>4 DEF Seen
  <2>5. CASE ~(L < i)
    <3>1. PICK m \in 1..M : m = j - L
      <4>1. j - L \in 1..M
        BY <2>2, <2>3
      <4>2. QED
        BY <4>1
    <3>2. PICK y \in Nat : y = L + 1
      OBVIOUS
    <3>3. BytesOf(SubSeq(u, y, j)) <= MaxTail
      <4>1. y \in i + 1 .. j
        BY <2>2, <2>3, <2>5, <3>2
      <4>2. QED
        BY <2>1, <4>1, FootnoteFits
    <3>4. SubSeq(chunk, 1, m) = SubSeq(u, y, j)
      <4>1. 1 <= y /\ y <= j + 1 /\ j <= Len(u) /\ m \in Nat /\ 1 \in Nat
            /\ 1 <= 1 /\ m <= Len(chunk) /\ m - 1 = j - y
        BY <1>5, <2>2, <2>3, <3>1, <3>2
      <4>2. ASSUME NEW k \in y..j
            PROVE  chunk[(k - y) + 1] = u[k]
        <5>1. (k - y) + 1 \in 1..M /\ ((k - y) + 1) + L = k
          BY <2>2, <3>2
        <5>2. QED
          BY <1>5, <5>1
      <4>3. QED
        BY <2>2, <4>1, <4>2, SameSlice
    <3>5. m <= n
      <4>1. m \in 0..Len(chunk)
        BY <1>5
      <4>2. BytesOf(SubSeq(chunk, 1, m)) <= MaxTail
        BY ONLY <3>3, <3>4
      <4>3. QED
        BY ONLY <1>1, <4>1, <4>2
    <3>6. PICK z \in Nat : z = L + n /\ Len(w) = z
      <4>1. Len(tail \o p) = Len(tail) + Len(p)
        OBVIOUS
      <4>2. Len(w) = L + n
        BY ONLY <1>2, <1>3, <1>5, <4>1
      <4>3. L + n \in Nat
        OBVIOUS
      <4>4. QED
        BY <4>2, <4>3
    <3>7. i \in 1..Len(w) /\ j \in 1..Len(w) /\ j - i = j - i
      BY <2>2, <3>1, <3>5, <3>6
    <3>8. ASSUME NEW k \in i..j
          PROVE  w[(k - i) + i] = u[k]
      <4>1. \A x \in 1..Len(w) : u[x] = w[x]
        <5>1. \A x \in 1..Len(w) : (w \o q)[x] = w[x]
          BY ConcatIs
        <5>2. QED
          BY ONLY <1>4, <1>5, <5>1
      <4>2. k \in 1..Len(w) /\ (k - i) + i = k
        BY <2>2, <3>7
      <4>3. QED
        BY <4>1, <4>2
    <3>9. HasFootnote(w)
      BY <2>1, <3>7, <3>8, FootnoteMoves
    <3>10. tail # <<>> /\ chunk # <<>>
      <4>1. L >= 1 /\ M >= 1
        BY <2>2, <2>5, <3>1
      <4>2. QED
        BY <1>5, <4>1, EmptySeq
    <3>11. QED
      BY <1>1, <1>2, <1>3, <3>9, <3>10 DEF Seen
  <2>6. QED
    BY <2>4, <2>5
<1>8. QED
  BY <1>5, <1>6, <1>7

-----------------------------------------------------------------------------
(***************************************************************************)
(* Two texts are the same for every footnote that may still come.          *)
(***************************************************************************)
SameAhead(v, t) ==
  \A u \in Seq(Char) : HasFootnote(v \o u) <=> HasFootnote(t \o u)

EndsLine(s) == s = <<>> \/ s[Len(s)] = "LF"

SoFar == dropped \o buffer

(***************************************************************************)
(* The inductive invariant behind FootnoteSeen.  Until there is a footnote *)
(* the tail that is kept stands for the whole of the text: whatever comes, *)
(* a footnote arises in both or in neither.  A newline that finalize makes *)
(* of a carriage return goes past the tail, and the tail is right again    *)
(* once it is known that the document goes on after a blank rest.          *)
(***************************************************************************)
FootnoteInv ==
  /\ dropped \in Seq(Char) /\ tail \in Seq(Char) /\ detected \in BOOLEAN
  /\ detected <=> HasFootnote(SoFar)
  /\ ~closed => EndsLine(dropped)
  /\ pc = "normalize" => ~closed
  /\ ~closed /\ ~detected =>
       \/ SameAhead(SoFar, tail)
       \/ /\ pc = "finalize" /\ OffsetOf(start) < Len(buffer)
          /\ \E v \in Seq(Char) : SoFar = Append(v, "LF") /\ SameAhead(v, tail)

(***************************************************************************)
(* Texts that are the same ahead both have a footnote, or neither has.     *)
(***************************************************************************)
LEMMA SameNow ==
  ASSUME NEW v \in Seq(Char), NEW t \in Seq(Char), SameAhead(v, t)
  PROVE  HasFootnote(v) <=> HasFootnote(t)
<1>1. <<>> \in Seq(Char) /\ v \o <<>> = v /\ t \o <<>> = t
  OBVIOUS
<1>2. HasFootnote(v \o <<>>) <=> HasFootnote(t \o <<>>)
  BY <1>1 DEF SameAhead
<1>3. QED
  BY <1>1, <1>2

(***************************************************************************)
(* A chunk is searched together with the tail, and the tail moves on.      *)
(***************************************************************************)
LEMMA ChunkAhead ==
  ASSUME NEW v \in Seq(Char), NEW c \in Seq(Char), tail \in Seq(Char),
         SameAhead(v, tail), ~HasFootnote(v)
  PROVE  /\ Seen(c) <=> HasFootnote(v \o c)
         /\ UpdateTail(c) \in Seq(Char)
         /\ ~Seen(c) => SameAhead(v \o c, UpdateTail(c))
<1>1. PICK t \in Seq(Char) : t = tail
  OBVIOUS
<1>2. SameAhead(v, t) /\ ~HasFootnote(t)
  BY <1>1, SameNow
<1>3. PICK w \in Seq(Char) : w = t \o c
  BY ConcatIs
<1>4. Seen(c) <=> HasFootnote(w)
  BY <1>1, <1>2, <1>3, SeenIsAll
<1>5. HasFootnote(v \o c) <=> HasFootnote(w)
  BY <1>2, <1>3 DEF SameAhead
<1>6. UpdateTail(c) = TakeSuffix(w)
  BY <1>1, <1>3 DEF UpdateTail
<1>7. UpdateTail(c) \in Seq(Char)
  <2>1. PICK n \in 0..Len(w) : TakeSuffix(w) = From(w, n)
    BY TakeSuffixIs
  <2>2. QED
    BY <1>6, <2>1, FromType
<1>8. ASSUME ~Seen(c), NEW u \in Seq(Char)
      PROVE  HasFootnote((v \o c) \o u) <=> HasFootnote(TakeSuffix(w) \o u)
  <2>1. ~HasFootnote(w)
    BY <1>4, <1>8
  <2>2. HasFootnote(TakeSuffix(w) \o u) <=> HasFootnote(w \o u)
    BY <2>1, SuffixForesees
  <2>3. PICK x \in Seq(Char) : x = c \o u
    BY ConcatIs
  <2>4. w \o u = t \o x /\ (v \o c) \o u = v \o x
    <3>1. ASSUME NEW z \in Seq(Char)
          PROVE  (z \o c) \o u = z \o x
      <4>1. (z \o c) \o u = z \o (c \o u)
        BY ONLY ConcatAssoc
      <4>2. QED
        BY ONLY <2>3, <4>1
    <3>2. QED
      BY <1>3, <3>1
  <2>5. HasFootnote(v \o x) <=> HasFootnote(t \o x)
    BY <1>2 DEF SameAhead
  <2>6. QED
    BY ONLY <2>2, <2>4, <2>5
<1>9. ~Seen(c) => SameAhead(v \o c, UpdateTail(c))
  BY <1>6, <1>8 DEF SameAhead
<1>10. QED
  BY <1>4, <1>5, <1>7, <1>9

(***************************************************************************)
(* A newline that the tail has not seen, after a blank.                    *)
(***************************************************************************)
LEMMA NewlineAhead ==
  ASSUME NEW v \in Seq(Char), NEW t \in Seq(Char), SameAhead(v, t),
         ~HasFootnote(v), EndsBlank(v)
  PROVE  SameAhead(Append(v, "LF"), t)
<1>1. PICK w \in Seq(Char) : w = Append(v, "LF")
  <2>1. Append(v, "LF") \in Seq(Char)
    BY CharAssumption
  <2>2. QED
    BY <2>1
<1>2. ~HasFootnote(w)
  BY <1>1, FootnoteNotByNewline
<1>3. EndsBlank(w)
  <2>1. w[Len(w)] = "LF"
    BY <1>1
  <2>2. QED
    BY <2>1 DEF EndsBlank
<1>4. ASSUME NEW u \in Seq(Char)
      PROVE  HasFootnote(w \o u) <=> HasFootnote(t \o u)
  <2>1. HasFootnote(w \o u) <=> HasFootnote(u)
    BY <1>2, <1>3, FootnoteAfterBlank
  <2>2. HasFootnote(v \o u) <=> HasFootnote(u)
    BY FootnoteAfterBlank
  <2>3. HasFootnote(v \o u) <=> HasFootnote(t \o u)
    BY DEF SameAhead
  <2>4. QED
    BY <2>1, <2>2, <2>3
<1>5. QED
  BY <1>1, <1>4 DEF SameAhead

(***************************************************************************)
(* A line that is not the first comes after a newline.                     *)
(***************************************************************************)
LEMMA NewlineBefore ==
  ASSUME ScanInv, NEW first \in Nat, first < Len(table), OffsetOf(first) # 0
  PROVE  /\ OffsetOf(first) \in 1..Len(buffer)
         /\ buffer[OffsetOf(first)] = "LF"
<1>1. /\ table \in Seq(Line) /\ Tiles(table, buffer, scan)
      /\ Len(table) \in Nat /\ table[1].start = 0
  BY DEF ScanInv, Tiles
<1>2. OffsetOf(first) = table[first + 1].start
  BY DEF OffsetOf
<1>3. first # 0
  BY <1>1, <1>2
<1>4. first \in 1..Len(table) - 1
  BY <1>1, <1>3
<1>5. buffer[table[first].end + 1] = "LF"
      /\ table[first + 1].start = table[first].end + 1
  BY <1>1, <1>4, TilesNext
<1>6. OffsetOf(first) \in 0..Len(buffer)
  BY OffsetType
<1>7. QED
  BY <1>2, <1>5, <1>6

(***************************************************************************)
(* What compaction has dropped ends with a line.                           *)
(***************************************************************************)
LEMMA DroppedEndsLine ==
  ASSUME ScanInv, dropped \in Seq(Char), EndsLine(dropped),
         NEW first \in Nat, first < Len(table), Compact(first)
  PROVE  EndsLine(dropped')
<1>1. CASE Compacts(first)
  <2>1. OffsetOf(first) # 0 /\ dropped' = dropped \o SubSeq(buffer, 1, OffsetOf(first))
    BY <1>1 DEF Compact, Compacts
  <2>2. PICK n \in 1..Len(buffer) : n = OffsetOf(first) /\ buffer[n] = "LF"
    BY <2>1, NewlineBefore
  <2>3. buffer \in Seq(Char) /\ n \in 0..Len(buffer)
    BY DEF ScanInv
  <2>4. PICK p \in Seq(Char) :
          p = SubSeq(buffer, 1, n) /\ Len(p) = n
          /\ \A k \in 1..n : p[k] = buffer[k]
    BY <2>3, PrefixIs
  <2>5. p[Len(p)] = "LF" /\ Len(p) >= 1
    BY <2>2, <2>4
  <2>6. (dropped \o p)[Len(dropped \o p)] = "LF"
    BY <2>5
  <2>7. QED
    BY <2>1, <2>2, <2>4, <2>6 DEF EndsLine
<1>2. CASE ~Compacts(first)
  BY <1>2 DEF Compact
<1>3. QED
  BY <1>1, <1>2

(***************************************************************************)
(* Before the newline that a carriage return became there was a blank, if  *)
(* what is pending with it is blank.                                       *)
(***************************************************************************)
LEMMA BlankBefore ==
  ASSUME ScanInv, dropped \in Seq(Char), EndsLine(dropped),
         start < Len(table), OffsetOf(start) < Len(buffer),
         BlankText(Pending), NEW v \in Seq(Char), SoFar = Append(v, "LF")
  PROVE  EndsBlank(v)
<1>1. PICK b \in Seq(Char), d \in Seq(Char) : b = buffer /\ d = dropped
  BY DEF ScanInv
<1>2. PICK o \in 0..Len(b) : o = OffsetOf(start)
  BY <1>1, OffsetType DEF ScanInv
<1>3. PICK u \in Seq(Char), L \in Nat, M \in Nat :
        /\ u = d \o b /\ L = Len(d) /\ M = Len(b) /\ Len(u) = L + M
        /\ \A k \in 1..L : u[k] = d[k]
        /\ \A k \in 1..M : u[k + L] = b[k]
  BY ConcatIs
<1>4. PICK n \in Nat : n = Len(v)
  OBVIOUS
<1>5. u = Append(v, "LF") /\ L + M = n + 1
  <2>1. u = Append(v, "LF")
    BY <1>1, <1>3 DEF SoFar
  <2>2. Len(u) = Len(v) + 1
    BY <2>1
  <2>3. QED
    BY <1>3, <1>4, <2>1, <2>2
<1>6. o \in Nat /\ o < M
  BY <1>1, <1>2, <1>3
<1>7. SUFFICES ASSUME n # 0
               PROVE  v[n] \in {"LF", " "}
  <2>1. n = 0 => v = <<>>
    BY <1>4, EmptySeq
  <2>2. QED
    BY <1>4, <1>7, <2>1 DEF EndsBlank
<1>8. v[n] = u[n]
  BY <1>4, <1>5, <1>7
<1>9. CASE o + 1 < M
  <2>1. PICK k \in 1..M - o : o + k = M - 1
    <3>1. (M - 1) - o \in 1..M - o /\ o + ((M - 1) - o) = M - 1
      BY <1>6, <1>9
    <3>2. QED
      BY <3>1
  <2>2. Pending = From(b, o)
    BY <1>1, <1>2 DEF Pending
  <2>3. /\ DOMAIN From(b, o) = 1..M - o
        /\ \A j \in 1..M - o : From(b, o)[j] = b[o + j]
    <3>1. M = Len(b)
      BY <1>3
    <3>2. QED
      BY <1>1, <1>2, <3>1, FromIs
  <2>4. \A j \in DOMAIN Pending : Pending[j] \in {"LF", " "}
    BY DEF BlankText
  <2>5. b[o + k] \in {"LF", " "}
    BY <2>1, <2>2, <2>3, <2>4
  <2>6. o + k \in 1..M /\ (o + k) + L = n
    BY <1>5, <1>6, <2>1
  <2>7. u[n] = b[o + k]
    BY <1>3, <2>6
  <2>8. QED
    BY <1>8, <2>5, <2>7
<1>10. CASE ~(o + 1 < M) /\ o # 0
  <2>1. b[o] = "LF"
    BY <1>1, <1>2, <1>10, NewlineBefore DEF ScanInv
  <2>2. o \in 1..M /\ o + L = n
    BY <1>5, <1>6, <1>10
  <2>3. u[n] = b[o]
    BY <1>3, <2>2
  <2>4. QED
    BY <1>8, <2>1, <2>3
<1>11. CASE ~(o + 1 < M) /\ o = 0
  <2>1. n = L /\ n \in 1..L
    BY <1>5, <1>6, <1>7, <1>11
  <2>2. d[L] = "LF"
    <3>1. d # <<>>
      BY <1>3, <2>1
    <3>2. QED
      BY <1>1, <1>3, <3>1 DEF EndsLine
  <2>3. u[n] = d[L]
    BY <1>3, <2>1
  <2>4. QED
    BY <1>8, <2>2, <2>3
<1>12. QED
  BY <1>9, <1>10, <1>11

(***************************************************************************)
(* The splitter, or finalize, compacts the buffer: the text stays what it  *)
(* was, in two parts.                                                      *)
(***************************************************************************)
LEMMA CompactKeepsFootnotes ==
  ASSUME ScanInv, FootnoteInv, scan = Len(buffer),
         NEW first \in Nat, Compact(first), detected' = detected, tail' = tail,
         ~closed' => /\ ~closed /\ first < Len(table)
                     /\ ~detected => SameAhead(SoFar, tail)
  PROVE  FootnoteInv'
<1>1. dropped \in Seq(Char) /\ tail \in Seq(Char) /\ detected \in BOOLEAN
      /\ (detected <=> HasFootnote(SoFar))
  BY DEF FootnoteInv
<1>2. dropped' \in Seq(Char) /\ SoFar' = SoFar /\ pc' # "normalize"
  BY <1>1, CompactText DEF SoFar
<1>3. (detected <=> HasFootnote(SoFar))'
  BY <1>1, <1>2 DEF HasFootnote
<1>4. ASSUME ~closed'
      PROVE  EndsLine(dropped)'
  <2>1. EndsLine(dropped) /\ first < Len(table)
    BY <1>4 DEF FootnoteInv
  <2>2. EndsLine(dropped')
    BY <1>1, <2>1, DroppedEndsLine
  <2>3. QED
    BY <2>2 DEF EndsLine
<1>5. ASSUME ~closed', ~detected'
      PROVE  SameAhead(SoFar, tail)'
  BY <1>2, <1>5 DEF SameAhead
<1>6. QED
  BY <1>1, <1>2, <1>3, <1>4, <1>5 DEF FootnoteInv

(***************************************************************************)
(* Steps that leave the text and the tail alone.                           *)
(***************************************************************************)
LEMMA SameFootnotes ==
  ASSUME FootnoteInv, UNCHANGED <<buffer, dropped, tail, detected, closed>>,
         pc' = "normalize" => ~closed,
         ~closed /\ ~detected => \/ SameAhead(SoFar, tail)
                                 \/ /\ pc = "finalize" /\ pc' = "finalize"
                                    /\ OffsetOf(start)' = OffsetOf(start)
  PROVE  FootnoteInv'
<1>1. SoFar' = SoFar
  BY DEF SoFar
<1>2. /\ HasFootnote(SoFar)' <=> HasFootnote(SoFar)
      /\ EndsLine(dropped)' <=> EndsLine(dropped)
      /\ SameAhead(SoFar, tail)' <=> SameAhead(SoFar, tail)
  BY <1>1 DEF HasFootnote, EndsLine, SameAhead
<1>3. ASSUME ~closed, ~detected, ~SameAhead(SoFar, tail)
      PROVE  (/\ pc = "finalize" /\ OffsetOf(start) < Len(buffer)
              /\ \E v \in Seq(Char) :
                   SoFar = Append(v, "LF") /\ SameAhead(v, tail))'
  <2>1. pc' = "finalize" /\ OffsetOf(start)' = OffsetOf(start)
    BY <1>3
  <2>2. PICK v \in Seq(Char) : SoFar = Append(v, "LF") /\ SameAhead(v, tail)
    BY <1>3 DEF FootnoteInv
  <2>3. OffsetOf(start) < Len(buffer)
    BY <1>3 DEF FootnoteInv
  <2>4. SameAhead(v, tail)'
    BY <2>2 DEF SameAhead
  <2>5. QED
    BY <1>1, <2>1, <2>2, <2>3, <2>4
<1>4. QED
  BY <1>2, <1>3 DEF FootnoteInv

(***************************************************************************)
(* Text that arrives: the search is of the tail and the chunk, and means   *)
(* all of the text.                                                        *)
(***************************************************************************)
LEMMA ReceiveKeepsFootnotes ==
  ASSUME ScanInv, FootnoteInv, Receive
  PROVE  FootnoteInv'
<1>1. /\ pc = "normalize" /\ pc' # "normalize" /\ buffer' = buffer \o out
      /\ detected' = (detected \/ Seen(out))
      /\ tail' = (IF detected' THEN tail ELSE UpdateTail(out))
      /\ dropped' = dropped /\ closed' = closed
  BY DEF Receive
<1>2. /\ buffer \in Seq(Char) /\ out \in Seq(Char) /\ dropped \in Seq(Char)
      /\ tail \in Seq(Char) /\ detected \in BOOLEAN
      /\ (detected <=> HasFootnote(SoFar)) /\ ~closed /\ EndsLine(dropped)
  BY <1>1 DEF ScanInv, FootnoteInv
<1>3. PICK v \in Seq(Char) : v = SoFar
  BY <1>2, ConcatIs DEF SoFar
<1>4. SoFar' = v \o out
  <2>1. (dropped \o buffer) \o out = dropped \o (buffer \o out)
    BY <1>2, ConcatAssoc
  <2>2. QED
    BY <1>1, <1>3, <2>1 DEF SoFar
<1>5. (EndsLine(dropped))'
  BY <1>1, <1>2 DEF EndsLine
<1>6. CASE detected
  <2>1. detected' /\ tail' = tail
    BY <1>1, <1>6
  <2>2. HasFootnote(v \o out)
    BY <1>2, <1>3, <1>6, FootnoteInWhole
  <2>3. HasFootnote(SoFar)'
    BY <1>4, <2>2 DEF HasFootnote
  <2>4. QED
    BY <1>1, <1>2, <1>5, <2>1, <2>3 DEF FootnoteInv
<1>7. CASE ~detected
  <2>1. SameAhead(v, tail) /\ ~HasFootnote(v)
    BY <1>1, <1>2, <1>3, <1>7 DEF FootnoteInv
  <2>2. /\ Seen(out) <=> HasFootnote(v \o out)
        /\ UpdateTail(out) \in Seq(Char)
        /\ ~Seen(out) => SameAhead(v \o out, UpdateTail(out))
    BY <1>2, <2>1, ChunkAhead
  <2>3. detected' <=> Seen(out)
    BY <1>1, <1>7
  <2>4. detected' \in BOOLEAN
    BY <1>1
  <2>5. (detected <=> HasFootnote(SoFar))'
    BY <1>4, <2>2, <2>3 DEF HasFootnote
  <2>6. tail' \in Seq(Char)
    BY <1>1, <1>2, <2>2
  <2>7. ASSUME ~detected'
        PROVE  SameAhead(SoFar, tail)'
    <3>1. tail' = UpdateTail(out) /\ ~Seen(out)
      BY <1>1, <2>3, <2>7
    <3>2. SameAhead(SoFar', tail')
      BY <1>4, <2>2, <3>1
    <3>3. QED
      BY <3>2 DEF SameAhead
  <2>8. QED
    BY <1>1, <1>2, <1>5, <2>4, <2>5, <2>6, <2>7 DEF FootnoteInv
<1>8. QED
  BY <1>2, <1>6, <1>7

(***************************************************************************)
(* finalize makes a newline of the carriage return; the tail does not see  *)
(* it.                                                                     *)
(***************************************************************************)
LEMMA FinalizeKeepsFootnotes ==
  ASSUME ScanInv, LengthInv, FootnoteInv, Finalize
  PROVE  FootnoteInv'
<1>1. /\ pc = "idle" /\ pc' = "finalize" /\ buffer' = buffer \o CrAtEnd
      /\ table' = ExtendLast(table, Len(buffer'))
      /\ UNCHANGED <<start, detected, tail, dropped, closed>>
  BY DEF Finalize
<1>2. /\ buffer \in Seq(Char) /\ dropped \in Seq(Char) /\ tail \in Seq(Char)
      /\ (detected <=> HasFootnote(SoFar)) /\ (~closed => EndsLine(dropped))
      /\ table \in Seq(Line) /\ table # <<>> /\ start \in Nat
      /\ Len(table) \in Nat /\ detected \in BOOLEAN
  BY DEF ScanInv, FootnoteInv, Tiles
<1>3. ~closed /\ ~detected => SameAhead(SoFar, tail)
  BY <1>1 DEF FootnoteInv
<1>4. CASE ~pendingCr
  <2>1. buffer' = buffer
    BY <1>1, <1>2, <1>4 DEF CrAtEnd
  <2>2. QED
    BY <1>1, <1>3, <2>1, SameFootnotes
<1>5. CASE pendingCr
  <2>1. buffer' = Append(buffer, "LF") /\ "LF" \in Char
    <3>1. buffer \o <<"LF">> = Append(buffer, "LF") /\ "LF" \in Char
      BY <1>2, CharAssumption
    <3>2. QED
      BY <1>1, <1>5, <3>1 DEF CrAtEnd
  <2>2. PICK v \in Seq(Char) : v = SoFar
    BY <1>2, ConcatIs DEF SoFar
  <2>3. SoFar' = Append(v, "LF")
    <3>1. dropped \o Append(buffer, "LF") = Append(dropped \o buffer, "LF")
      BY <1>2, <2>1
    <3>2. QED
      BY <1>1, <2>1, <2>2, <3>1 DEF SoFar
  <2>4. HasFootnote(Append(v, "LF")) <=> HasFootnote(v)
    BY FootnoteNotByNewline
  <2>5. (detected <=> HasFootnote(SoFar))'
    BY <1>1, <1>2, <2>2, <2>3, <2>4 DEF HasFootnote
  <2>6. ASSUME ~closed'
        PROVE  EndsLine(dropped)'
    BY <1>1, <1>2, <2>6 DEF EndsLine
  <2>7. ASSUME ~closed', ~detected'
        PROVE  (/\ pc = "finalize" /\ OffsetOf(start) < Len(buffer)
                /\ \E w \in Seq(Char) :
                     SoFar = Append(w, "LF") /\ SameAhead(w, tail))'
    <3>1. start < Len(table)
      BY <1>1, <2>7 DEF LengthInv
    <3>2. <<"LF">> \in Seq(Char) /\ buffer' = buffer \o <<"LF">>
          /\ Len(buffer') \in Nat /\ Len(buffer') = Len(buffer) + 1
      <4>1. /\ <<"LF">> \in Seq(Char)
            /\ Append(buffer, "LF") = buffer \o <<"LF">>
        BY <1>2, <2>1
      <4>2. /\ Len(Append(buffer, "LF")) = Len(buffer) + 1
            /\ Len(buffer) \in Nat
        BY <1>2, <2>1
      <4>3. QED
        BY <2>1, <4>1, <4>2
    <3>3. /\ Len(table') = Len(table)
          /\ \A k \in 1..Len(table) : table'[k].start = table[k].start
      BY <1>1, <1>2, <3>2, StartsKept
    <3>4. Len(table') \in Nat /\ Len(table') >= Len(table)
      BY <1>2, <3>3
    <3>5. OffsetOf(start)' = OffsetOf(start)
      BY <1>1, <3>1, <3>2, <3>3, <3>4, CommittedKept
    <3>6. OffsetOf(start) \in 0..Len(buffer)
      BY <1>2, OffsetType
    <3>7. Len(buffer) \in Nat
      BY <1>2
    <3>8. OffsetOf(start)' < Len(buffer')
      BY <3>2, <3>5, <3>6, <3>7
    <3>9. SameAhead(v, tail')
      BY <1>1, <1>3, <2>2, <2>7
    <3>10. QED
      BY <1>1, <2>3, <3>8, <3>9 DEF SameAhead
  <2>8. QED
    BY <1>1, <1>2, <2>5, <2>6, <2>7 DEF FootnoteInv
<1>6. QED
  BY <1>4, <1>5

(***************************************************************************)
(* A document that goes on after a blank rest.                             *)
(***************************************************************************)
LEMMA BlankKeepsFootnotes ==
  ASSUME ScanInv, LengthInv, FootnoteInv, FinalizeBlank
  PROVE  FootnoteInv'
<1>1. /\ pc' = "idle" /\ BlankText(Pending)
      /\ UNCHANGED <<buffer, dropped, tail, detected, closed>>
  BY DEF FinalizeBlank, text
<1>2. ASSUME ~closed, ~detected
      PROVE  SameAhead(SoFar, tail)
  <2>1. SUFFICES ASSUME ~SameAhead(SoFar, tail)
                 PROVE  SameAhead(SoFar, tail)
    OBVIOUS
  <2>2. PICK v \in Seq(Char) : SoFar = Append(v, "LF") /\ SameAhead(v, tail)
    BY <1>2, <2>1 DEF FootnoteInv
  <2>3. /\ OffsetOf(start) < Len(buffer) /\ start < Len(table)
        /\ EndsLine(dropped) /\ dropped \in Seq(Char) /\ tail \in Seq(Char)
        /\ ~HasFootnote(SoFar)
    BY <1>2, <2>1 DEF FootnoteInv, LengthInv
  <2>4. EndsBlank(v)
    BY <1>1, <2>2, <2>3, BlankBefore
  <2>5. ~HasFootnote(v)
    BY <2>2, <2>3, FootnoteNotByNewline
  <2>6. QED
    BY <2>2, <2>3, <2>4, <2>5, NewlineAhead
<1>3. QED
  BY <1>1, <1>2, SameFootnotes

(***************************************************************************)
(* A stream without text.                                                  *)
(***************************************************************************)
LEMMA NoFootnotes ==
  ASSUME dropped = <<>>, buffer = <<>>, tail = <<>>, detected = FALSE,
         pc = "idle"
  PROVE  FootnoteInv
<1>1. <<>> \in Seq(Char) /\ <<>> \o <<>> = <<>>
  OBVIOUS
<1>2. SoFar = <<>>
  BY <1>1 DEF SoFar
<1>3. ~HasFootnote(<<>>)
  BY DEF HasFootnote
<1>4. SameAhead(SoFar, tail)
  BY <1>2 DEF SameAhead
<1>5. EndsLine(dropped)
  BY DEF EndsLine
<1>6. QED
  BY <1>1, <1>2, <1>3, <1>4, <1>5 DEF FootnoteInv

(***************************************************************************)
(* The same for the state after a step.                                    *)
(***************************************************************************)
LEMMA NoFootnotesNext ==
  (/\ dropped = <<>> /\ buffer = <<>> /\ tail = <<>> /\ detected = FALSE
   /\ pc = "idle"
   => FootnoteInv)'
BY NoFootnotes, PTL

(***************************************************************************)
(* Every step keeps FootnoteInv.                                           *)
(***************************************************************************)
LEMMA FootnoteInvKept ==
  ASSUME ScanInv, LengthInv, FootnoteInv, [Next]_vars
  PROVE  FootnoteInv'
<1>1. ASSUME NEW chunk \in Chunk, AppendChunk(chunk)
      PROVE  FootnoteInv'
  <2>1. /\ pc = "idle" /\ ~closed
        /\ UNCHANGED <<buffer, dropped, tail, detected, closed>>
    BY <1>1 DEF AppendChunk, text
  <2>2. ~closed /\ ~detected => SameAhead(SoFar, tail)
    BY <2>1 DEF FootnoteInv
  <2>3. QED
    BY <2>1, <2>2, SameFootnotes
<1>2. CASE Normalize
  <2>1. /\ pc = "normalize" /\ pc' = pc
        /\ UNCHANGED <<buffer, dropped, tail, detected, closed>>
    BY <1>2 DEF Normalize, text
  <2>2. (~closed /\ ~detected => SameAhead(SoFar, tail)) /\ ~closed
    BY <2>1 DEF FootnoteInv
  <2>3. QED
    BY <2>1, <2>2, SameFootnotes
<1>3. CASE Receive
  BY <1>3, ReceiveKeepsFootnotes
<1>4. CASE ScanChar
  <2>1. /\ pc' = pc /\ pc # "normalize"
        /\ UNCHANGED <<buffer, dropped, tail, detected, closed, start>>
        /\ table' \in {table, BreakLine(table, scan)}
    BY <1>4 DEF ScanChar, Scanning
  <2>2. /\ buffer \in Seq(Char) /\ table \in Seq(Line) /\ table # <<>>
        /\ Len(table) \in Nat /\ Len(buffer) \in Nat /\ scan \in Nat
    BY DEF ScanInv, Tiles
  <2>3. ASSUME ~closed
        PROVE  OffsetOf(start)' = OffsetOf(start)
    <3>1. start < Len(table)
      BY <2>3 DEF LengthInv
    <3>2. /\ Len(table') \in Nat /\ Len(table') >= Len(table)
          /\ \A k \in 1..Len(table) : table'[k].start = table[k].start
      <4>1. CASE table' = table
        BY <2>2, <4>1
      <4>2. CASE table' = BreakLine(table, scan)
        BY <2>2, <4>2, StartsKept
      <4>3. QED
        BY <2>1, <4>1, <4>2
    <3>3. <<>> \in Seq(Char) /\ buffer' = buffer \o <<>>
      BY <2>1, <2>2
    <3>4. QED
      BY <2>1, <3>1, <3>2, <3>3, CommittedKept
  <2>4. ~closed /\ ~detected => \/ SameAhead(SoFar, tail)
                                \/ /\ pc = "finalize" /\ pc' = "finalize"
                                   /\ OffsetOf(start)' = OffsetOf(start)
    BY <2>1, <2>3 DEF FootnoteInv
  <2>5. QED
    BY <2>1, <2>4, SameFootnotes
<1>5. CASE Split
  <2>1. /\ scan = Len(buffer) /\ pc = "append" /\ closed' = closed
        /\ UNCHANGED <<detected, tail>>
    BY <1>5 DEF Split, Scanned
  <2>2. PICK first \in start..Len(table) - 1 : Compact(first)
    BY <1>5 DEF Split
  <2>3. first \in Nat /\ first < Len(table)
    BY <2>2 DEF ScanInv
  <2>4. ~closed /\ ~detected => SameAhead(SoFar, tail)
    BY <2>1 DEF FootnoteInv
  <2>5. QED
    BY <2>1, <2>2, <2>3, <2>4, CompactKeepsFootnotes
<1>6. CASE Return
  <2>1. /\ pc \in {"enter", "rebuild"} /\ pc' = "idle"
        /\ UNCHANGED <<buffer, dropped, tail, detected, closed>>
    BY <1>6 DEF Return, Scanned, text
  <2>2. ~closed /\ ~detected => SameAhead(SoFar, tail)
    BY <2>1 DEF FootnoteInv
  <2>3. QED
    BY <2>1, <2>2, SameFootnotes
<1>7. CASE Finalize
  BY <1>7, FinalizeKeepsFootnotes
<1>8. CASE FinalizeBlank
  BY <1>8, BlankKeepsFootnotes
<1>9. CASE CommitPending
  <2>1. /\ scan = Len(buffer) /\ UNCHANGED <<detected, tail>>
        /\ closed' = (closed \/ Pending # <<>>)
    BY <1>9 DEF CommitPending, Scanned
  <2>2. PICK first \in {start, Len(table)} :
          Compact(first) /\ (Pending = <<>> => first = start)
    BY <1>9 DEF CommitPending
  <2>3. first \in Nat /\ buffer \in Seq(Char) /\ Len(buffer) \in Nat
    BY <2>2 DEF ScanInv
  <2>4. ASSUME ~closed'
        PROVE  /\ ~closed /\ first < Len(table)
               /\ ~detected => SameAhead(SoFar, tail)
    <3>1. ~closed /\ Pending = <<>>
      BY <2>1, <2>4
    <3>2. first = start /\ start < Len(table)
      BY <2>2, <3>1 DEF LengthInv
    <3>3. OffsetOf(start) = Len(buffer)
      BY <3>1, NothingPending
    <3>4. ~(OffsetOf(start) < Len(buffer))
      BY <2>3, <3>3
    <3>5. ~detected => SameAhead(SoFar, tail)
      BY <3>1, <3>4 DEF FootnoteInv
    <3>6. QED
      BY <3>1, <3>2, <3>5
  <2>5. QED
    BY <2>1, <2>2, <2>3, <2>4, CompactKeepsFootnotes
<1>10. CASE Reset
  <2>1. /\ dropped' = <<>> /\ buffer' = <<>> /\ tail' = <<>>
        /\ detected' = FALSE /\ pc' = "idle"
    BY <1>10 DEF Reset
  <2>2. QED
    BY <2>1, NoFootnotesNext
<1>11. CASE UNCHANGED vars
  <2>1. UNCHANGED <<buffer, dropped, tail, detected, closed, pc, start, table>>
    BY <1>11 DEF vars, text
  <2>2. OffsetOf(start)' = OffsetOf(start)
    BY <2>1 DEF OffsetOf
  <2>3. ~closed /\ ~detected => \/ SameAhead(SoFar, tail)
                                \/ /\ pc = "finalize" /\ pc' = "finalize"
                                   /\ OffsetOf(start)' = OffsetOf(start)
    BY <2>1, <2>2 DEF FootnoteInv
  <2>4. pc' = "normalize" => ~closed
    BY <2>1 DEF FootnoteInv
  <2>5. QED
    BY <2>1, <2>3, <2>4, SameFootnotes
<1>12. QED
  BY <1>1, <1>2, <1>3, <1>4, <1>5, <1>6, <1>7, <1>8, <1>9, <1>10, <1>11
  DEF Next, NextOn

(***************************************************************************)
(* A footnote has been detected exactly if there is one in all of the text *)
(* received, for every window that a footnote but for one bracket fits     *)
(* into, every cut into chunks, every limit of the buffer and every        *)
(* number of finalize calls in between.                                    *)
(***************************************************************************)
THEOREM FootnotesAreSeen == Spec => []FootnoteSeen
<1>1. Init => FootnoteInv
  BY NoFootnotes DEF Init
<1>2. ScanInv /\ LengthInv /\ FootnoteInv /\ [Next]_vars => FootnoteInv'
  BY FootnoteInvKept
<1>3. FootnoteInv => FootnoteSeen
  BY DEF FootnoteInv, FootnoteSeen, SoFar
<1>4. QED
  BY <1>1, <1>2, <1>3, ScanInvHolds, LengthInvHolds, PTL DEF Spec
=============================================================================
