-------------------------- MODULE TerminatorProofs --------------------------
(***************************************************************************)
(* Proofs about the display of the pending text.  For every text, every    *)
(* choice of options and every window of at least two bytes,               *)
(* terminate_markdown loses nothing but an image or a URL that is not      *)
(* complete and adds nothing but markers.  With all repairs on, and for    *)
(* every window, text that ends with a letter is shown with no code, no    *)
(* mathematics and no emphasis of one kind left open.                      *)
(***************************************************************************)
EXTENDS Terminator, TextIntakeProofs

(***************************************************************************)
(* What a display is made of.                                              *)
(***************************************************************************)
Sign == Char \cup Marks

-----------------------------------------------------------------------------
(***************************************************************************)
(* A part of a sequence, in terms of elements.                             *)
(***************************************************************************)
LEMMA PartIs ==
  ASSUME NEW s \in Seq(Sign), NEW a \in Nat, NEW b \in Nat,
         1 <= a, a <= b + 1, b <= Len(s)
  PROVE  \E p \in Seq(Sign) :
           /\ p = SubSeq(s, a, b) /\ Len(p) = (b - a) + 1
           /\ \A k \in 1..Len(p) : p[k] = s[(a + k) - 1]
<1>1. \A k \in a..b : s[k] \in Sign
  OBVIOUS
<1>2. SubSeq(s, a, b) \in Seq(Sign)
  BY <1>1, SubSeqProperties
<1>3. Len(SubSeq(s, a, b)) = (b - a) + 1
  OBVIOUS
<1>4. ASSUME NEW k \in 1..Len(SubSeq(s, a, b))
      PROVE  SubSeq(s, a, b)[k] = s[(a + k) - 1]
  <2>1. k \in 1..(b - a) + 1
    BY <1>3
  <2>2. QED
    BY <2>1
<1>5. QED
  BY <1>2, <1>3, <1>4

(***************************************************************************)
(* The beginning of a sequence.                                            *)
(***************************************************************************)
LEMMA HeadPartIs ==
  ASSUME NEW C, NEW s \in Seq(C), NEW n \in 0..Len(s)
  PROVE  /\ SubSeq(s, 1, n) \in Seq(C) /\ Len(SubSeq(s, 1, n)) = n
         /\ \A k \in 1..n : SubSeq(s, 1, n)[k] = s[k]
<1>1. n \in Nat /\ Len(s) \in Nat /\ n <= Len(s)
  OBVIOUS
<1>2. \A k \in 1..n : s[k] \in C
  BY <1>1
<1>3. SubSeq(s, 1, n) \in Seq(C)
  BY <1>1, <1>2, SubSeqProperties
<1>4. Len(SubSeq(s, 1, n)) = n
  BY <1>1
<1>5. \A k \in 1..n : SubSeq(s, 1, n)[k] = s[k]
  BY <1>1
<1>6. QED
  BY <1>3, <1>4, <1>5

(***************************************************************************)
(* The rest of a sequence.                                                 *)
(***************************************************************************)
LEMMA RestIs ==
  ASSUME NEW C, NEW s \in Seq(C), NEW n \in 0..Len(s)
  PROVE  /\ From(s, n) \in Seq(C) /\ Len(From(s, n)) = Len(s) - n
         /\ \A k \in 1..Len(s) - n : From(s, n)[k] = s[n + k]
<1>1. n \in Nat /\ Len(s) \in Nat /\ n <= Len(s)
  OBVIOUS
<1>2. \A k \in n + 1 .. Len(s) : s[k] \in C
  BY <1>1
<1>3. SubSeq(s, n + 1, Len(s)) \in Seq(C)
  BY <1>1, <1>2, SubSeqProperties
<1>4. Len(SubSeq(s, n + 1, Len(s))) = Len(s) - n
  BY <1>1
<1>5. \A k \in 1..Len(s) - n : SubSeq(s, n + 1, Len(s))[k] = s[n + k]
  BY <1>1
<1>6. QED
  BY <1>3, <1>4, <1>5 DEF From

(***************************************************************************)
(* Two sequences in a row.                                                 *)
(***************************************************************************)
LEMMA JoinIs ==
  ASSUME NEW C, NEW s \in Seq(C), NEW t \in Seq(C)
  PROVE  /\ s \o t \in Seq(C) /\ Len(s \o t) = Len(s) + Len(t)
         /\ \A k \in 1..Len(s) : (s \o t)[k] = s[k]
         /\ \A k \in 1..Len(t) : (s \o t)[Len(s) + k] = t[k]
OBVIOUS

(***************************************************************************)
(* The smallest and the largest number of a set.                           *)
(***************************************************************************)
LEMMA MinOf ==
  ASSUME NEW S, S \subseteq Nat, S # {}
  PROVE  Min(S) \in S /\ \A n \in S : Min(S) <= n
BY LeastExists DEF Min

(***************************************************************************)
(* The largest one, of a set that is bounded.                              *)
(***************************************************************************)
LEMMA MaxOf ==
  ASSUME NEW N \in Nat, NEW S, S \subseteq 0..N, S # {}
  PROVE  Max(S) \in S /\ \A n \in S : n <= Max(S)
<1> DEFINE T == {N - n : n \in S}
<1>1. T \subseteq Nat /\ T # {}
  <2>1. \A n \in S : N - n \in Nat
    OBVIOUS
  <2>2. PICK n \in S : TRUE
    OBVIOUS
  <2>3. QED
    BY <2>1, <2>2
<1>2. PICK m \in T : \A n \in T : m <= n
  BY <1>1, LeastExists
<1>3. PICK x \in S : m = N - x
  BY <1>2
<1>4. \A n \in S : n <= x
  <2>1. SUFFICES ASSUME NEW n \in S PROVE n <= x
    OBVIOUS
  <2>2. N - n \in T
    OBVIOUS
  <2>3. N - x <= N - n
    BY <1>2, <1>3, <2>2
  <2>4. QED
    BY <2>3
<1>5. QED
  BY <1>3, <1>4 DEF Max

-----------------------------------------------------------------------------
(***************************************************************************)
(* d begins with the first m characters of w, and adds markers; or it has  *)
(* an underscore n characters after the beginning of w besides.            *)
(***************************************************************************)
Kept(w, m, d) ==
  /\ d \in Seq(Sign) /\ m <= Len(d)
  /\ \A k \in 1..m : d[k] = w[k]
  /\ \A k \in m + 1 .. Len(d) : d[k] \in Marks

KeptAround(w, n, m, d) ==
  /\ d \in Seq(Sign) /\ m < Len(d)
  /\ \A k \in 1..n : d[k] = w[k]
  /\ d[n + 1] = "_"
  /\ \A k \in n + 1 .. m : d[k + 1] = w[k]
  /\ \A k \in m + 2 .. Len(d) : d[k] \in Marks
  /\ Passed(SubSeq(w, n + 1, m))

Good(w, m, d) == Kept(w, m, d) \/ \E n \in 0..m : KeptAround(w, n, m, d)

(***************************************************************************)
(* Markers that are added keep it so.                                      *)
(***************************************************************************)
LEMMA KeptWithMarks ==
  ASSUME NEW w, NEW m \in Nat, NEW d, NEW a \in Seq(Marks), Kept(w, m, d)
  PROVE  Kept(w, m, d \o a)
<1>1. /\ d \in Seq(Sign) /\ a \in Seq(Sign) /\ m <= Len(d)
      /\ Len(d) \in Nat /\ Len(a) \in Nat
  <2>1. a \in Seq(Sign)
    BY DEF Sign
  <2>2. QED
    BY <2>1 DEF Kept
<1>2. /\ d \o a \in Seq(Sign) /\ Len(d \o a) = Len(d) + Len(a)
      /\ \A k \in 1..Len(d) : (d \o a)[k] = d[k]
      /\ \A k \in 1..Len(a) : (d \o a)[Len(d) + k] = a[k]
  BY ONLY <1>1, JoinIs
<1>3. PICK u : u = d \o a
  OBVIOUS
<1>4. \A k \in 1..m : u[k] = w[k]
  BY <1>1, <1>2, <1>3 DEF Kept
<1>5. ASSUME NEW k \in m + 1 .. Len(u)
      PROVE  u[k] \in Marks
  <2>1. CASE k <= Len(d)
    <3>1. k \in 1..Len(d) /\ k \in m + 1 .. Len(d)
      BY <1>1, <1>2, <1>3, <2>1
    <3>2. QED
      BY <1>2, <1>3, <3>1 DEF Kept
  <2>2. CASE k > Len(d)
    <3>1. k - Len(d) \in 1..Len(a) /\ k = Len(d) + (k - Len(d))
      BY <1>1, <1>2, <1>3, <2>2
    <3>2. u[k] = a[k - Len(d)]
      BY <1>2, <1>3, <3>1
    <3>3. QED
      BY <3>1, <3>2
  <2>3. QED
    BY <1>1, <2>1, <2>2
<1>6. u \in Seq(Sign) /\ m <= Len(u)
  BY <1>1, <1>2, <1>3
<1>7. QED
  BY <1>3, <1>4, <1>5, <1>6 DEF Kept

(***************************************************************************)
(* Also behind an underscore that was put in.                              *)
(***************************************************************************)
LEMMA AroundWithMarks ==
  ASSUME NEW w, NEW m \in Nat, NEW n \in 0..m, NEW d, NEW a \in Seq(Marks),
         KeptAround(w, n, m, d)
  PROVE  KeptAround(w, n, m, d \o a)
<1>1. /\ d \in Seq(Sign) /\ a \in Seq(Sign) /\ m < Len(d)
      /\ Len(d) \in Nat /\ Len(a) \in Nat /\ n \in Nat /\ n <= m
  <2>1. a \in Seq(Sign)
    BY DEF Sign
  <2>2. d \in Seq(Sign) /\ m < Len(d)
    BY DEF KeptAround
  <2>3. QED
    BY <2>1, <2>2
<1>2. /\ d \o a \in Seq(Sign) /\ Len(d \o a) = Len(d) + Len(a)
      /\ \A k \in 1..Len(d) : (d \o a)[k] = d[k]
      /\ \A k \in 1..Len(a) : (d \o a)[Len(d) + k] = a[k]
  BY ONLY <1>1, JoinIs
<1>3. PICK u : u = d \o a
  OBVIOUS
<1>4. \A k \in 1..m + 1 : u[k] = d[k]
  BY <1>1, <1>2, <1>3
<1>5. /\ \A k \in 1..n : u[k] = w[k]
      /\ u[n + 1] = "_"
      /\ \A k \in n + 1 .. m : u[k + 1] = w[k]
  <2>1. n + 1 \in 1..m + 1 /\ \A k \in 1..n : k \in 1..m + 1
    BY <1>1
  <2>2. \A k \in n + 1 .. m : k + 1 \in 1..m + 1
    BY <1>1
  <2>3. QED
    BY <1>4, <2>1, <2>2 DEF KeptAround
<1>6. ASSUME NEW k \in m + 2 .. Len(u)
      PROVE  u[k] \in Marks
  <2>1. CASE k <= Len(d)
    <3>1. k \in 1..Len(d) /\ k \in m + 2 .. Len(d)
      BY <1>1, <1>2, <1>3, <2>1
    <3>2. QED
      BY <1>2, <1>3, <3>1 DEF KeptAround
  <2>2. CASE k > Len(d)
    <3>1. k - Len(d) \in 1..Len(a) /\ k = Len(d) + (k - Len(d))
      BY <1>1, <1>2, <1>3, <2>2
    <3>2. u[k] = a[k - Len(d)]
      BY <1>2, <1>3, <3>1
    <3>3. QED
      BY <3>1, <3>2
  <2>3. QED
    BY <1>1, <2>1, <2>2
<1>7. u \in Seq(Sign) /\ m < Len(u)
  BY <1>1, <1>2, <1>3
<1>8. QED
  BY <1>3, <1>5, <1>6, <1>7 DEF KeptAround

(***************************************************************************)
(* So in either case.                                                      *)
(***************************************************************************)
LEMMA GoodWithMarks ==
  ASSUME NEW w, NEW m \in Nat, NEW d, NEW a \in Seq(Marks), Good(w, m, d)
  PROVE  Good(w, m, d \o a)
BY KeptWithMarks, AroundWithMarks DEF Good

(***************************************************************************)
(* The closing markers.                                                    *)
(***************************************************************************)
Closing ==
  {Bold, Triple, Strike, Dollars, <<"_", "_">>, <<"*">>, <<"tick">>,
   <<"LF">>, <<"]", "(">>, Url, <<")">>, ZeroWidthSpace}

(***************************************************************************)
(* They are markers.                                                       *)
(***************************************************************************)
LEMMA ClosingMarks == \A p \in Closing : p \in Seq(Marks)
<1>1. \A c, e \in Marks : <<c>> \in Seq(Marks) /\ <<c, e>> \in Seq(Marks)
                          /\ <<c, c, c>> \in Seq(Marks)
  OBVIOUS
<1>2. /\ "*" \in Marks /\ "_" \in Marks /\ "~" \in Marks /\ "tick" \in Marks
      /\ "$" \in Marks /\ "LF" \in Marks /\ "]" \in Marks /\ "(" \in Marks
      /\ ")" \in Marks
  BY DEF Marks
<1>3. Url \in Seq(Marks) /\ ZeroWidthSpace \in Seq(Marks)
  <2>1. Url[1] \in Marks /\ ZeroWidthSpace[1] \in Marks
    BY DEF Marks
  <2>2. Url = <<Url[1]>> /\ ZeroWidthSpace = <<ZeroWidthSpace[1]>>
    BY DEF Url, ZeroWidthSpace
  <2>3. QED
    BY <1>1, <2>1, <2>2
<1>4. QED
  BY <1>1, <1>2, <1>3 DEF Closing, Bold, Triple, Strike, Dollars

(***************************************************************************)
(* What one of the repairs does to a display that it closes at the end:    *)
(* nothing, or one or two closing markers.                                 *)
(***************************************************************************)
Closed(s, d) ==
  \/ d = s
  \/ \E p \in Closing : d = s \o p
  \/ \E p, q \in Closing : d = (s \o p) \o q

(***************************************************************************)
(* Such a repair keeps the text.                                           *)
(***************************************************************************)
LEMMA ClosedGood ==
  ASSUME NEW w, NEW m \in Nat, NEW s, NEW d, Closed(s, d)
  PROVE  /\ Good(w, m, s) => Good(w, m, d)
         /\ Kept(w, m, s) => Kept(w, m, d)
<1>1. CASE d = s
  BY <1>1
<1>2. ASSUME NEW p \in Closing, d = s \o p
      PROVE  /\ Good(w, m, s) => Good(w, m, d)
             /\ Kept(w, m, s) => Kept(w, m, d)
  BY <1>2, ClosingMarks, GoodWithMarks, KeptWithMarks
<1>3. ASSUME NEW p \in Closing, NEW q \in Closing, d = (s \o p) \o q
      PROVE  /\ Good(w, m, s) => Good(w, m, d)
             /\ Kept(w, m, s) => Kept(w, m, d)
  <2>1. /\ Good(w, m, s) => Good(w, m, s \o p)
        /\ Kept(w, m, s) => Kept(w, m, s \o p)
    BY ClosingMarks, GoodWithMarks, KeptWithMarks
  <2>2. /\ Good(w, m, s \o p) => Good(w, m, (s \o p) \o q)
        /\ Kept(w, m, s \o p) => Kept(w, m, (s \o p) \o q)
    BY ClosingMarks, GoodWithMarks, KeptWithMarks
  <2>3. QED
    BY <1>3, <2>1, <2>2
<1>4. QED
  BY <1>1, <1>2, <1>3 DEF Closed

(***************************************************************************)
(* Every repair but the one of a single underscore is one of these.        *)
(***************************************************************************)
LEMMA RepairsClose ==
  ASSUME NEW s
  PROVE  /\ Closed(s, CloseBoldItalic(s))
         /\ Closed(s, ClosePair(s, Bold))
         /\ Closed(s, ClosePair(s, <<"_", "_">>))
         /\ Closed(s, CloseAsterisk(s))
         /\ Closed(s, CloseInlineCode(s))
         /\ Closed(s, CloseStrike(s))
         /\ Closed(s, CloseKatex(s))
<1>1. /\ Bold \in Closing /\ Triple \in Closing /\ Strike \in Closing
      /\ Dollars \in Closing /\ <<"_", "_">> \in Closing /\ <<"*">> \in Closing
      /\ <<"tick">> \in Closing /\ <<"LF">> \in Closing
  BY DEF Closing
<1>2. Closed(s, s) /\ \A p \in Closing : Closed(s, s \o p)
  BY DEF Closed
<1>3. \A p, q \in Closing : Closed(s, (s \o p) \o q)
  BY DEF Closed
<1>4. CloseBoldItalic(s) \in {s, s \o Triple}
  BY DEF CloseBoldItalic
<1>5. \A p : ClosePair(s, p) \in {s, s \o p}
  BY DEF ClosePair
<1>6. CloseAsterisk(s) \in {s, s \o <<"*">>}
  BY DEF CloseAsterisk
<1>7. CloseInlineCode(s) \in {s, s \o <<"tick">>}
  BY DEF CloseInlineCode
<1>8. CloseStrike(s) \in {s, s \o Strike}
  BY DEF CloseStrike
<1>9. CloseKatex(s) \in {s, s \o Dollars, (s \o <<"LF">>) \o Dollars}
  BY DEF CloseKatex
<1>10. QED
  BY <1>1, <1>2, <1>3, <1>4, <1>5, <1>6, <1>7, <1>8, <1>9

(***************************************************************************)
(* An underscore put in after the first n characters.                      *)
(***************************************************************************)
WithUnderscore(t, n) == SubSeq(t, 1, n) \o <<"_">> \o From(t, n)

(***************************************************************************)
(* By elements.                                                            *)
(***************************************************************************)
LEMMA PutIn ==
  ASSUME NEW t \in Seq(Sign), NEW n \in 0..Len(t)
  PROVE  \E u \in Seq(Sign) :
           /\ u = WithUnderscore(t, n)
           /\ Len(u) = Len(t) + 1
           /\ \A k \in 1..n : u[k] = t[k]
           /\ u[n + 1] = "_"
           /\ \A k \in n + 1 .. Len(t) : u[k + 1] = t[k]
<1>1. n \in Nat /\ Len(t) \in Nat /\ n <= Len(t)
  OBVIOUS
<1>2. PICK v \in Seq(Sign) : v = <<"_">> /\ Len(v) = 1 /\ v[1] = "_"
  <2>1. \A c \in Sign : <<c>> \in Seq(Sign) /\ Len(<<c>>) = 1 /\ <<c>>[1] = c
    OBVIOUS
  <2>2. "_" \in Sign
    BY DEF Sign, Marks
  <2>3. QED
    BY ONLY <2>1, <2>2
<1>3. PICK a \in Seq(Sign) :
        /\ a = SubSeq(t, 1, n) /\ Len(a) = n
        /\ \A k \in 1..n : a[k] = t[k]
  <2>1. /\ SubSeq(t, 1, n) \in Seq(Sign) /\ Len(SubSeq(t, 1, n)) = n
        /\ \A k \in 1..n : SubSeq(t, 1, n)[k] = t[k]
    BY HeadPartIs
  <2>2. QED
    BY ONLY <2>1
<1>4. PICK b \in Seq(Sign) :
        /\ b = From(t, n) /\ Len(b) = Len(t) - n
        /\ \A k \in 1..Len(t) - n : b[k] = t[n + k]
  <2>1. /\ From(t, n) \in Seq(Sign) /\ Len(From(t, n)) = Len(t) - n
        /\ \A k \in 1..Len(t) - n : From(t, n)[k] = t[n + k]
    BY RestIs
  <2>2. QED
    BY ONLY <2>1
<1>5. PICK x \in Seq(Sign) :
        /\ x = a \o v /\ Len(x) = Len(a) + Len(v)
        /\ \A k \in 1..Len(a) : x[k] = a[k]
        /\ \A k \in 1..Len(v) : x[Len(a) + k] = v[k]
  <2>1. a \in Seq(Sign) /\ v \in Seq(Sign)
    OBVIOUS
  <2>2. /\ a \o v \in Seq(Sign) /\ Len(a \o v) = Len(a) + Len(v)
        /\ \A k \in 1..Len(a) : (a \o v)[k] = a[k]
        /\ \A k \in 1..Len(v) : (a \o v)[Len(a) + k] = v[k]
    BY ONLY <2>1, JoinIs
  <2>3. QED
    BY ONLY <2>2
<1>6. PICK u \in Seq(Sign) :
        /\ u = x \o b /\ Len(u) = Len(x) + Len(b)
        /\ \A k \in 1..Len(x) : u[k] = x[k]
        /\ \A k \in 1..Len(b) : u[Len(x) + k] = b[k]
  <2>1. x \in Seq(Sign) /\ b \in Seq(Sign)
    OBVIOUS
  <2>2. /\ x \o b \in Seq(Sign) /\ Len(x \o b) = Len(x) + Len(b)
        /\ \A k \in 1..Len(x) : (x \o b)[k] = x[k]
        /\ \A k \in 1..Len(b) : (x \o b)[Len(x) + k] = b[k]
    BY ONLY <2>1, JoinIs
  <2>3. QED
    BY ONLY <2>2
<1>7. u = WithUnderscore(t, n)
  <2>1. u = (a \o v) \o b
    BY <1>5, <1>6
  <2>2. QED
    BY <1>2, <1>3, <1>4, <2>1 DEF WithUnderscore
<1>8. Len(x) = n + 1 /\ Len(u) = Len(t) + 1 /\ Len(a) = n /\ Len(v) = 1
  <2>1. Len(a) = n /\ Len(v) = 1 /\ Len(b) = Len(t) - n
    BY ONLY <1>2, <1>3, <1>4
  <2>2. Len(x) = Len(a) + Len(v) /\ Len(u) = Len(x) + Len(b)
    BY ONLY <1>5, <1>6
  <2>3. QED
    BY ONLY <1>1, <2>1, <2>2
<1>9. \A k \in 1..n : u[k] = t[k]
  <2>1. \A k \in 1..n : k \in 1..Len(x) /\ k \in 1..Len(a)
    BY ONLY <1>1, <1>8
  <2>2. QED
    BY ONLY <1>3, <1>5, <1>6, <2>1
<1>10. u[n + 1] = "_"
  <2>1. n + 1 \in 1..Len(x) /\ 1 \in 1..Len(v)
    BY ONLY <1>1, <1>8
  <2>2. x[Len(a) + 1] = v[1]
    BY ONLY <1>5, <2>1
  <2>3. QED
    BY ONLY <1>2, <1>6, <1>8, <2>1, <2>2
<1>11. ASSUME NEW k \in n + 1 .. Len(t)
       PROVE  u[k + 1] = t[k]
  <2>1. k - n \in 1..Len(t) - n /\ k + 1 = (n + 1) + (k - n) /\ n + (k - n) = k
    BY ONLY <1>1, k \in n + 1 .. Len(t)
  <2>2. b[k - n] = t[n + (k - n)]
    BY ONLY <1>4, <2>1
  <2>3. u[Len(x) + (k - n)] = b[k - n]
    BY ONLY <1>4, <1>6, <2>1
  <2>4. QED
    BY ONLY <1>8, <2>1, <2>2, <2>3
<1>12. QED
  BY ONLY <1>7, <1>8, <1>9, <1>10, <1>11, u \in Seq(Sign)

(***************************************************************************)
(* An underscore goes behind the text, or before newlines or asterisks.    *)
(***************************************************************************)
LEMMA PutInKept ==
  ASSUME NEW w \in Seq(Char), NEW m \in 0..Len(w), NEW t, Kept(w, m, t),
         NEW n \in 0..Len(t), n < m => Passed(SubSeq(w, n + 1, m))
  PROVE  Good(w, m, WithUnderscore(t, n))
<1>1. /\ t \in Seq(Sign) /\ m <= Len(t) /\ m \in Nat /\ n \in Nat
      /\ Len(t) \in Nat /\ n <= Len(t)
  <2>1. t \in Seq(Sign) /\ m <= Len(t)
    BY DEF Kept
  <2>2. QED
    BY <2>1
<1>2. PICK u \in Seq(Sign) :
        /\ u = WithUnderscore(t, n)
        /\ Len(u) = Len(t) + 1
        /\ \A k \in 1..n : u[k] = t[k]
        /\ u[n + 1] = "_"
        /\ \A k \in n + 1 .. Len(t) : u[k + 1] = t[k]
  BY <1>1, PutIn
<1>3. /\ \A k \in 1..m : t[k] = w[k]
      /\ \A k \in m + 1 .. Len(t) : t[k] \in Marks
  BY DEF Kept
<1>12. u \in Seq(Sign)
  OBVIOUS
<1>13. Len(u) = Len(t) + 1
  BY ONLY <1>2
<1>4. CASE n >= m
  <2>1. ASSUME NEW k \in 1..m
        PROVE  u[k] = w[k]
    <3>1. k \in 1..n
      BY ONLY <1>1, <1>4, k \in 1..m
    <3>2. QED
      BY ONLY <1>2, <1>3, <3>1, k \in 1..m
  <2>2. ASSUME NEW k \in m + 1 .. Len(u)
        PROVE  u[k] \in Marks
    <3>0. k \in Nat /\ m + 1 <= k /\ k <= Len(t) + 1
      BY ONLY <1>1, <1>13, k \in m + 1 .. Len(u)
    <3>1. CASE k <= n
      <4>1. k \in 1..n /\ k \in m + 1 .. Len(t)
        BY ONLY <1>1, <3>0, <3>1
      <4>2. QED
        BY ONLY <1>2, <1>3, <4>1
    <3>2. CASE k = n + 1
      <4>1. "_" \in Marks
        BY DEF Marks
      <4>2. QED
        BY ONLY <1>2, <3>2, <4>1
    <3>3. CASE k > n + 1
      <4>1. k - 1 \in n + 1 .. Len(t) /\ (k - 1) + 1 = k /\ k - 1 \in m + 1 .. Len(t)
        BY ONLY <1>1, <1>4, <3>0, <3>3
      <4>2. u[(k - 1) + 1] = t[k - 1]
        BY ONLY <1>2, <4>1
      <4>3. QED
        BY ONLY <1>3, <4>1, <4>2
    <3>4. QED
      BY ONLY <1>1, <3>0, <3>1, <3>2, <3>3
  <2>3. m <= Len(u)
    BY ONLY <1>1, <1>13
  <2>4. Kept(w, m, u)
    BY ONLY <1>12, <2>1, <2>2, <2>3 DEF Kept
  <2>5. QED
    BY ONLY <1>2, <2>4 DEF Good
<1>5. CASE n < m
  <2>1. n \in 0..m /\ m < Len(u)
    BY ONLY <1>1, <1>13, <1>5
  <2>2. ASSUME NEW k \in 1..n
        PROVE  u[k] = w[k]
    <3>1. k \in 1..m
      BY ONLY <1>1, <1>5, k \in 1..n
    <3>2. QED
      BY ONLY <1>2, <1>3, <3>1, k \in 1..n
  <2>3. ASSUME NEW k \in n + 1 .. m
        PROVE  u[k + 1] = w[k]
    <3>1. k \in n + 1 .. Len(t) /\ k \in 1..m
      BY ONLY <1>1, k \in n + 1 .. m
    <3>2. QED
      BY ONLY <1>2, <1>3, <3>1
  <2>4. ASSUME NEW k \in m + 2 .. Len(u)
        PROVE  u[k] \in Marks
    <3>1. k - 1 \in n + 1 .. Len(t) /\ (k - 1) + 1 = k /\ k - 1 \in m + 1 .. Len(t)
      BY ONLY <1>1, <1>13, <1>5, k \in m + 2 .. Len(u)
    <3>2. u[(k - 1) + 1] = t[k - 1]
      BY ONLY <1>2, <3>1
    <3>3. QED
      BY ONLY <1>3, <3>1, <3>2
  <2>6. u[n + 1] = "_"
    BY ONLY <1>2
  <2>7. Passed(SubSeq(w, n + 1, m))
    BY <1>5
  <2>8. KeptAround(w, n, m, u)
    BY ONLY <1>12, <2>1, <2>2, <2>3, <2>4, <2>6, <2>7 DEF KeptAround
  <2>9. QED
    BY ONLY <1>2, <2>1, <2>8 DEF Good
<1>6. QED
  BY <1>1, <1>4, <1>5

(***************************************************************************)
(* So what handle_incomplete_single_underscore_italic does keeps the text. *)
(***************************************************************************)
LEMMA UnderscoreGood ==
  ASSUME NEW w \in Seq(Char), NEW m \in 0..Len(w), NEW t, Kept(w, m, t)
  PROVE  Good(w, m, CloseUnderscore(t))
<1>1. /\ t \in Seq(Sign) /\ m <= Len(t) /\ m \in Nat /\ Len(t) \in Nat
      /\ m <= Len(w) /\ Len(w) \in Nat
  <2>1. t \in Seq(Sign) /\ m <= Len(t)
    BY DEF Kept
  <2>2. QED
    BY <2>1
<1>2. \A k \in 1..m : t[k] = w[k]
  BY DEF Kept
<1> DEFINE S == {0} \cup {k \in DOMAIN t : t[k] # "LF"}
           n == IF Nested(t) THEN Len(t) - 2 ELSE Max(S)
           u == WithUnderscore(t, n)
<1>3. Max(S) \in S /\ \A k \in S : k <= Max(S)
  <2>1. S \subseteq 0..Len(t) /\ S # {}
    BY <1>1
  <2> HIDE DEF S
  <2>2. QED
    BY <1>1, <2>1, MaxOf
<1>4. CASE Nested(t)
  <2>1. Len(t) >= 2 /\ t[Len(t) - 1] = "*" /\ t[Len(t)] = "*"
    <3>1. Len(t) >= 2 /\ From(t, Len(t) - 2) = Bold
      BY <1>4 DEF Nested, EndsWith, Bold
    <3>2. Len(t) - 2 \in 0..Len(t) /\ Len(t) - (Len(t) - 2) = 2
      BY <1>1, <3>1
    <3>3. \A k \in 1..2 : From(t, Len(t) - 2)[k] = t[(Len(t) - 2) + k]
      BY <1>1, <3>2, RestIs
    <3>4. Bold[1] = "*" /\ Bold[2] = "*"
      BY DEF Bold
    <3>5. /\ (Len(t) - 2) + 1 = Len(t) - 1 /\ (Len(t) - 2) + 2 = Len(t)
          /\ 1 \in 1..2 /\ 2 \in 1..2
      BY <1>1
    <3>6. QED
      BY <3>1, <3>3, <3>4, <3>5
  <2>2. n \in 0..Len(t) /\ n = Len(t) - 2
    BY <1>1, <1>4, <2>1
  <2>3. ASSUME n < m
        PROVE  Passed(SubSeq(w, n + 1, m))
    <3>0. n + 1 \in Nat /\ 1 <= n + 1 /\ n + 1 <= m + 1 /\ m <= Len(w)
      BY <1>1, <2>2, <2>3
    <3>4. PICK p \in Seq(Char) :
            /\ p = SubSeq(w, n + 1, m) /\ Len(p) = (m - (n + 1)) + 1
            /\ \A k \in 1..Len(p) : p[k] = w[((n + 1) + k) - 1]
      BY ONLY <1>1, <3>0, w \in Seq(Char), SliceIs
    <3>6. n \in Nat /\ Len(t) - 1 = n + 1 /\ Len(t) = n + 2
      BY <1>1, <2>2
    <3>5. ((n + 1) + 1) - 1 = n + 1 /\ ((n + 1) + 2) - 1 = n + 2
      BY ONLY <3>6
    <3>1. CASE m = n + 1
      <4>1. Len(p) = 1
        <5>1. (m - (n + 1)) + 1 = 1
          BY ONLY <3>0, <3>1
        <5>2. QED
          BY ONLY <3>4, <5>1
      <4>2. p[1] = "*"
        <5>1. 1 \in 1..Len(p)
          BY ONLY <4>1
        <5>2. p[1] = w[n + 1]
          BY ONLY <3>4, <3>5, <5>1
        <5>3. n + 1 \in 1..m
          BY ONLY <3>1, <3>6
        <5>4. QED
          BY ONLY <1>2, <2>1, <3>6, <5>2, <5>3
      <4>3. p = <<p[1]>>
        BY <4>1
      <4>4. QED
        BY <3>4, <4>2, <4>3 DEF Passed
    <3>2. CASE m = n + 2
      <4>1. Len(p) = 2
        <5>1. (m - (n + 1)) + 1 = 2
          BY ONLY <3>0, <3>2, <3>6
        <5>2. QED
          BY ONLY <3>4, <5>1
      <4>2. p[1] = "*" /\ p[2] = "*"
        <5>1. 1 \in 1..Len(p) /\ 2 \in 1..Len(p)
          BY ONLY <4>1
        <5>2. p[1] = w[n + 1] /\ p[2] = w[n + 2]
          BY ONLY <3>4, <3>5, <5>1
        <5>3. n + 1 \in 1..m /\ n + 2 \in 1..m
          BY ONLY <3>2, <3>6
        <5>4. QED
          BY ONLY <1>2, <2>1, <3>6, <5>2, <5>3
      <4>3. p = <<p[1], p[2]>>
        BY <4>1
      <4>4. QED
        BY <3>4, <4>2, <4>3 DEF Passed, Bold
    <3>3. QED
      BY <1>1, <2>2, <2>3, <3>1, <3>2
  <2> HIDE DEF n
  <2>4. Good(w, m, u)
    BY <2>2, <2>3, PutInKept
  <2>5. QED
    <3>1. Kept(w, m, t) => Good(w, m, t)
      BY DEF Good
    <3>2. CloseUnderscore(t) \in {t, u}
      BY DEF CloseUnderscore, WithUnderscore, n
    <3>3. QED
      BY <2>4, <3>1, <3>2
<1>5. CASE ~Nested(t)
  <2>1. n = Max(S) /\ n \in 0..Len(t)
    BY <1>1, <1>3, <1>5
  <2>2. ASSUME n < m
        PROVE  Passed(SubSeq(w, n + 1, m))
    <3>1. \A k \in n + 1 .. m : w[k] = "LF"
      BY <1>1, <1>2, <1>3, <2>1
    <3>2. n + 1 \in Nat /\ 1 <= n + 1 /\ n + 1 <= m + 1 /\ m <= Len(w)
      BY <1>1, <2>1, <2>2
    <3>3. PICK p \in Seq(Char) :
            /\ p = SubSeq(w, n + 1, m) /\ Len(p) = (m - (n + 1)) + 1
            /\ \A k \in 1..Len(p) : p[k] = w[((n + 1) + k) - 1]
      BY ONLY <1>1, <3>2, w \in Seq(Char), SliceIs
    <3>4. ASSUME NEW k \in 1..Len(p)
          PROVE  p[k] = "LF"
      <4>1. n \in Nat /\ m \in Nat
        BY <1>1, <2>1
      <4>2. Len(p) = (m - (n + 1)) + 1
        BY ONLY <3>3
      <4>3. ((n + 1) + k) - 1 \in n + 1 .. m
        BY ONLY <4>1, <4>2, k \in 1..Len(p)
      <4>4. p[k] = w[((n + 1) + k) - 1]
        BY ONLY <3>3, k \in 1..Len(p)
      <4>5. QED
        BY ONLY <3>1, <4>3, <4>4
    <3>5. 1 \in DOMAIN p /\ DOMAIN p = 1..Len(p)
      BY <1>1, <2>1, <2>2, <3>3
    <3>6. Range(p) = {"LF"}
      BY <3>4, <3>5 DEF Range
    <3>7. QED
      BY <3>3, <3>6 DEF Passed
  <2> HIDE DEF n
  <2>3. Good(w, m, u)
    BY <2>1, <2>2, PutInKept
  <2>4. QED
    <3>1. Kept(w, m, t) => Good(w, m, t)
      BY DEF Good
    <3>2. CloseUnderscore(t) \in {t, u}
      BY DEF CloseUnderscore, WithUnderscore, n
    <3>3. QED
      BY <2>3, <3>1, <3>2
<1>6. QED
  BY <1>4, <1>5

(***************************************************************************)
(* All repairs of emphasis, code and mathematics together.                 *)
(***************************************************************************)
LEMMA MarkersGood ==
  ASSUME NEW w \in Seq(Char), NEW m \in 0..Len(w), NEW t, Kept(w, m, t)
  PROVE  Good(w, m, CloseMarkers(t))
<1>1. m \in Nat
  OBVIOUS
<1>2. PICK a : a = CloseBoldItalic(t)
  OBVIOUS
<1>3. PICK b : b = ClosePair(a, Bold)
  OBVIOUS
<1>4. PICK c : c = ClosePair(b, <<"_", "_">>)
  OBVIOUS
<1>5. PICK d : d = CloseAsterisk(c)
  OBVIOUS
<1>6. Kept(w, m, d)
  <2>1. Kept(w, m, a)
    BY <1>1, <1>2, RepairsClose, ClosedGood
  <2>2. Kept(w, m, b)
    BY <1>1, <1>3, <2>1, RepairsClose, ClosedGood
  <2>3. Kept(w, m, c)
    BY <1>1, <1>4, <2>2, RepairsClose, ClosedGood
  <2>4. QED
    BY <1>1, <1>5, <2>3, RepairsClose, ClosedGood
<1>7. PICK e : e = If("emphasis", CloseEmphasis(t), t)
  OBVIOUS
<1>8. Good(w, m, e)
  <2>1. CloseEmphasis(t) = CloseUnderscore(d)
    BY <1>2, <1>3, <1>4, <1>5 DEF CloseEmphasis
  <2>2. Good(w, m, CloseEmphasis(t))
    BY <1>6, <2>1, UnderscoreGood
  <2>3. Good(w, m, t)
    BY DEF Good
  <2>4. QED
    BY <1>7, <2>2, <2>3 DEF If
<1>9. PICK f : f = If("inline_code", CloseInlineCode(e), e)
  OBVIOUS
<1>10. Good(w, m, f)
  <2>1. Good(w, m, CloseInlineCode(e))
    BY <1>1, <1>8, RepairsClose, ClosedGood
  <2>2. QED
    BY <1>8, <1>9, <2>1 DEF If
<1>11. PICK g : g = If("strikethrough", CloseStrike(f), f)
  OBVIOUS
<1>12. Good(w, m, g)
  <2>1. Good(w, m, CloseStrike(f))
    BY <1>1, <1>10, RepairsClose, ClosedGood
  <2>2. QED
    BY <1>10, <1>11, <2>1 DEF If
<1>13. CloseMarkers(t) = If("katex_block", CloseKatex(g), g)
  BY <1>7, <1>9, <1>11 DEF CloseMarkers
<1>14. Good(w, m, CloseKatex(g))
  BY <1>1, <1>12, RepairsClose, ClosedGood
<1>15. QED
  BY <1>12, <1>13, <1>14 DEF If

-----------------------------------------------------------------------------
(***************************************************************************)
(* Two characters in a row.                                                *)
(***************************************************************************)
LEMMA TwoAt ==
  ASSUME NEW s \in Seq(Sign), NEW i \in 1..Len(s) - 1
  PROVE  SubSeq(s, i, i + 1) = <<s[i], s[i + 1]>>
<1>1. i \in Nat /\ Len(s) \in Nat /\ 1 <= i /\ i + 1 <= Len(s)
  OBVIOUS
<1>2. PICK p : p = SubSeq(s, i, i + 1)
  OBVIOUS
<1>3. p \in Seq(Sign) /\ Len(p) = 2 /\ p[1] = s[i] /\ p[2] = s[i + 1]
  <2>1. \A k \in i..i + 1 : s[k] \in Sign
    BY <1>1
  <2>2. SubSeq(s, i, i + 1) \in Seq(Sign)
    BY <1>1, <2>1, SubSeqProperties
  <2>3. Len(SubSeq(s, i, i + 1)) = 2
    BY <1>1
  <2>4. SubSeq(s, i, i + 1)[1] = s[i] /\ SubSeq(s, i, i + 1)[2] = s[i + 1]
    BY <1>1
  <2>5. QED
    BY <1>2, <2>2, <2>3, <2>4
<1>4. p = <<p[1], p[2]>>
  BY <1>3
<1>5. QED
  BY <1>2, <1>3, <1>4

(***************************************************************************)
(* Where the text of a link ends and its URL begins.                       *)
(***************************************************************************)
LEMMA LinkAt ==
  ASSUME NEW s \in Seq(Sign), NEW i
  PROVE  i \in Occurs(s, <<"]", "(">>)
           <=> i \in 1..Len(s) - 1 /\ s[i] = "]" /\ s[i + 1] = "("
<1>1. Len(s) \in Nat /\ Len(<<"]", "(">>) = 2
  OBVIOUS
<1>2. i \in Occurs(s, <<"]", "(">>)
        <=> i \in 1..Len(s) - 2 + 1 /\ SubSeq(s, i, i + 2 - 1) = <<"]", "(">>
  BY <1>1 DEF Occurs
<1>3. Len(s) - 2 + 1 = Len(s) - 1
  BY <1>1
<1>4. ASSUME i \in 1..Len(s) - 1
      PROVE  SubSeq(s, i, i + 2 - 1) = <<"]", "(">>
               <=> s[i] = "]" /\ s[i + 1] = "("
  <2>1. i + 2 - 1 = i + 1
    BY <1>4
  <2>2. SubSeq(s, i, i + 1) = <<s[i], s[i + 1]>>
    BY <1>4, TwoAt
  <2>3. \A a, b, c, d : <<a, b>> = <<c, d>> <=> a = c /\ b = d
    OBVIOUS
  <2>4. QED
    BY ONLY <2>1, <2>2, <2>3
<1>5. QED
  BY <1>2, <1>3, <1>4

(***************************************************************************)
(* A character in the rest of a text.                                      *)
(***************************************************************************)
LEMMA HasRest ==
  ASSUME NEW s \in Seq(Sign), NEW n \in 0..Len(s), NEW c
  PROVE  Has(From(s, n), c) <=> \E k \in n + 1 .. Len(s) : s[k] = c
<1>1. n \in Nat /\ Len(s) \in Nat /\ n <= Len(s)
  OBVIOUS
<1>2. PICK r \in Seq(Sign) :
        /\ r = From(s, n) /\ Len(r) = Len(s) - n
        /\ \A k \in 1..Len(s) - n : r[k] = s[n + k]
  <2>1. /\ From(s, n) \in Seq(Sign) /\ Len(From(s, n)) = Len(s) - n
        /\ \A k \in 1..Len(s) - n : From(s, n)[k] = s[n + k]
    BY RestIs
  <2>2. QED
    BY ONLY <2>1
<1>3. DOMAIN r = 1..Len(s) - n
  BY <1>2
<1>4. ASSUME NEW k \in 1..Len(s) - n, r[k] = c
      PROVE  \E x \in n + 1 .. Len(s) : s[x] = c
  <2>1. n + k \in n + 1 .. Len(s)
    BY ONLY <1>1, k \in 1..Len(s) - n
  <2>2. s[n + k] = c
    BY ONLY <1>2, <1>4, k \in 1..Len(s) - n
  <2>3. QED
    BY ONLY <2>1, <2>2
<1>5. ASSUME NEW k \in n + 1 .. Len(s), s[k] = c
      PROVE  \E x \in 1..Len(s) - n : r[x] = c
  <2>1. k - n \in 1..Len(s) - n /\ n + (k - n) = k
    BY ONLY <1>1, k \in n + 1 .. Len(s)
  <2>2. r[k - n] = c
    BY ONLY <1>2, <1>5, <2>1
  <2>3. QED
    BY ONLY <2>1, <2>2
<1>6. Has(r, c) <=> \E k \in 1..Len(s) - n : r[k] = c
  BY ONLY <1>3 DEF Has
<1>7. QED
  BY ONLY <1>2, <1>4, <1>5, <1>6

(***************************************************************************)
(* All of a text is kept where nothing is added but a zero-width space.    *)
(***************************************************************************)
Protected(w, p) ==
  /\ p \in Seq(Sign) /\ w \in Seq(Sign) /\ Len(w) \in Nat /\ Len(p) \in Nat
  /\ Len(w) <= Len(p)
  /\ \A k \in 1..Len(w) : p[k] = w[k]
  /\ \A k \in Len(w) + 1 .. Len(p) : p[k] = ZeroWidthSpace[1]

(***************************************************************************)
(* apply_setext_heading_protection does no more.                           *)
(***************************************************************************)
LEMMA ProtectedIs ==
  ASSUME NEW w \in Seq(Char), WithoutSingleSpace(w) = w, NEW p,
         p \in {w, ProtectSetext(w)}
  PROVE  Protected(w, p)
<1>1. w \in Seq(Sign) /\ Len(w) \in Nat
  BY DEF Sign
<1>2. PICK z \in Seq(Sign) :
        z = ZeroWidthSpace /\ Len(z) = 1 /\ z[1] = ZeroWidthSpace[1]
  <2>1. \A c \in Sign : <<c>> \in Seq(Sign) /\ Len(<<c>>) = 1 /\ <<c>>[1] = c
    OBVIOUS
  <2>2. ZeroWidthSpace[1] \in Sign
    BY DEF Sign, Marks
  <2>3. ZeroWidthSpace = <<ZeroWidthSpace[1]>>
    BY DEF ZeroWidthSpace
  <2>4. QED
    BY ONLY <2>1, <2>2, <2>3
<1>3. p \in {w, w \o z}
  BY <1>2 DEF ProtectSetext
<1>4. Protected(w, w)
  BY <1>1 DEF Protected
<1>5. PICK u : u = w \o z
  OBVIOUS
<1>6. Protected(w, u)
  <2>1. z \in Seq(Sign)
    OBVIOUS
  <2>2. /\ u \in Seq(Sign) /\ Len(u) = Len(w) + Len(z)
        /\ \A k \in 1..Len(w) : u[k] = w[k]
        /\ \A k \in 1..Len(z) : u[Len(w) + k] = z[k]
    BY ONLY <1>1, <1>5, <2>1, JoinIs
  <2>3. Len(u) = Len(w) + 1
    BY ONLY <1>2, <2>2
  <2>4. u[Len(w) + 1] = ZeroWidthSpace[1]
    BY ONLY <1>2, <2>2
  <2>5. \A k \in Len(w) + 1 .. Len(u) : u[k] = ZeroWidthSpace[1]
    BY ONLY <1>1, <2>3, <2>4
  <2>6. Len(u) \in Nat /\ Len(w) <= Len(u)
    BY ONLY <1>1, <2>3
  <2>7. QED
    BY ONLY <1>1, <2>2, <2>5, <2>6 DEF Protected
<1>7. QED
  BY <1>3, <1>4, <1>5, <1>6

(***************************************************************************)
(* A text that is all there has lost nothing.                              *)
(***************************************************************************)
LEMMA ProtectedKept ==
  ASSUME NEW w, NEW p, Protected(w, p)
  PROVE  Kept(w, Len(w), p) /\ Lost(w, Len(w))
<1>1. Kept(w, Len(w), p)
  <2>1. ZeroWidthSpace[1] \in Marks
    BY DEF Marks
  <2>2. QED
    BY <2>1 DEF Kept, Protected
<1>2. From(w, Len(w)) = <<>>
  <2>1. Len(w) \in Nat /\ w \in Seq(Sign)
    BY DEF Protected
  <2>2. Len(w) \in 0..Len(w) /\ Len(w) - Len(w) = 0
    BY <2>1
  <2>3. From(w, Len(w)) \in Seq(Sign) /\ Len(From(w, Len(w))) = 0
    BY <2>1, <2>2, RestIs
  <2>4. QED
    BY <2>3
<1>3. QED
  BY <1>1, <1>2 DEF Lost

(***************************************************************************)
(* An image that is not complete is lost, from its beginning.              *)
(***************************************************************************)
LEMMA ImageLost ==
  ASSUME NEW w, NEW p, Protected(w, p), NEW o \in 2..Len(w),
         p[o - 1] = "!", p[o] = "[", Unclosed(w, o) \/ UrlLacksEnd(w, o)
  PROVE  /\ o - 2 \in 0..Len(w) /\ Lost(w, o - 2)
         /\ Kept(w, o - 2, SubSeq(p, 1, o - 2))
<1>1. /\ w \in Seq(Sign) /\ p \in Seq(Sign) /\ Len(w) \in Nat
      /\ Len(p) \in Nat /\ Len(w) <= Len(p)
      /\ \A k \in 1..Len(w) : p[k] = w[k]
  BY DEF Protected
<1>2. /\ o - 2 \in Nat /\ o - 2 \in 0..Len(w) /\ o - 2 \in 0..Len(p)
      /\ (o - 2) + 2 = o /\ (o - 2) + 1 = o - 1
      /\ o - 1 \in 1..Len(w) /\ o \in 1..Len(w) /\ Len(w) - (o - 2) >= 2
  BY <1>1
<1>3. PICK r \in Seq(Sign) :
        /\ r = From(w, o - 2) /\ Len(r) = Len(w) - (o - 2)
        /\ \A k \in 1..Len(w) - (o - 2) : r[k] = w[(o - 2) + k]
  <2>1. /\ From(w, o - 2) \in Seq(Sign) /\ Len(From(w, o - 2)) = Len(w) - (o - 2)
        /\ \A k \in 1..Len(w) - (o - 2) : From(w, o - 2)[k] = w[(o - 2) + k]
    BY ONLY <1>1, <1>2, RestIs
  <2>2. QED
    BY ONLY <2>1
<1>4. Len(r) >= 2 /\ r[1] = "!" /\ r[2] = "["
  <2>1. 1 \in 1..Len(w) - (o - 2) /\ 2 \in 1..Len(w) - (o - 2)
    BY ONLY <1>1, <1>2
  <2>2. r[1] = w[o - 1] /\ r[2] = w[o]
    BY ONLY <1>2, <1>3, <2>1
  <2>3. w[o - 1] = "!" /\ w[o] = "["
    BY <1>1, <1>2
  <2>4. QED
    BY <1>2, <1>3, <2>2, <2>3
<1>5. Sequence!IsPrefix(<<"!", "[">>, r)
  <2>1. Len(r) \in Nat /\ 1 \in 1..Len(r) - 1
    BY <1>4
  <2>2. SubSeq(r, 1, 1 + 1) = <<"!", "[">>
    BY <1>4, <2>1, TwoAt
  <2>3. PICK v \in Seq(Sign) : v = <<"!", "[">> /\ Len(v) = 2 /\ v[1] = "!" /\ v[2] = "["
    <3>1. "!" \in Sign /\ "[" \in Sign
      BY <1>4
    <3>2. \A a, b \in Sign : /\ <<a, b>> \in Seq(Sign) /\ Len(<<a, b>>) = 2
                             /\ <<a, b>>[1] = a /\ <<a, b>>[2] = b
      OBVIOUS
    <3>3. /\ <<"!", "[">> \in Seq(Sign) /\ Len(<<"!", "[">>) = 2
          /\ <<"!", "[">>[1] = "!" /\ <<"!", "[">>[2] = "["
      BY ONLY <3>1, <3>2
    <3>4. QED
      BY ONLY <3>3
  <2>4. SubSeq(v, 1, 1 + 1) = <<"!", "[">>
    <3>1. 1 \in 1..Len(v) - 1
      BY ONLY <2>3
    <3>2. v \in Seq(Sign)
      OBVIOUS
    <3>3. SubSeq(v, 1, 1 + 1) = <<v[1], v[1 + 1]>>
      BY ONLY <3>1, <3>2, TwoAt
    <3>4. v[1] = "!" /\ v[1 + 1] = "["
      BY ONLY <2>3
    <3>5. QED
      BY ONLY <3>3, <3>4
  <2>5. 1 + 1 = 2
    OBVIOUS
  <2>6. Sequence!IsPrefix(v, r)
    BY ONLY <1>4, <2>2, <2>3, <2>4, <2>5 DEF Sequence!IsPrefix
  <2>7. QED
    BY <2>3, <2>6
<1>6. Lost(w, o - 2)
  BY <1>2, <1>3, <1>5 DEF Lost
<1>7. Kept(w, o - 2, SubSeq(p, 1, o - 2))
  <2>1. PICK q \in Seq(Sign) :
          /\ q = SubSeq(p, 1, o - 2) /\ Len(q) = o - 2
          /\ \A k \in 1..o - 2 : q[k] = p[k]
    <3>1. /\ SubSeq(p, 1, o - 2) \in Seq(Sign) /\ Len(SubSeq(p, 1, o - 2)) = o - 2
          /\ \A k \in 1..o - 2 : SubSeq(p, 1, o - 2)[k] = p[k]
      BY ONLY <1>1, <1>2, HeadPartIs
    <3>2. QED
      BY ONLY <3>1
  <2>2. ASSUME NEW k \in 1..o - 2
        PROVE  q[k] = w[k]
    <3>1. k \in 1..Len(w)
      BY ONLY <1>1, <1>2, k \in 1..o - 2
    <3>2. QED
      BY ONLY <1>1, <2>1, <3>1, k \in 1..o - 2
  <2>3. o - 2 <= Len(q) /\ \A k \in (o - 2) + 1 .. Len(q) : q[k] \in Marks
    BY ONLY <1>2, <2>1
  <2>4. q \in Seq(Sign)
    OBVIOUS
  <2>5. Kept(w, o - 2, q)
    BY ONLY <2>2, <2>3, <2>4 DEF Kept
  <2>6. QED
    BY ONLY <2>1, <2>5
<1>8. QED
  BY <1>2, <1>6, <1>7

(***************************************************************************)
(* Of a link that has no end its URL is lost, and another one added.       *)
(***************************************************************************)
LEMMA UrlLost ==
  ASSUME NEW w, NEW p, Protected(w, p), NEW i \in 1..Len(w) - 1,
         w[i] = "]", w[i + 1] = "(", \A k \in i + 2 .. Len(w) : w[k] # ")"
  PROVE  /\ i + 1 \in 0..Len(w) /\ Lost(w, i + 1)
         /\ Kept(w, i + 1, SubSeq(p, 1, i + 1) \o Url \o <<")">>)
<1>1. /\ w \in Seq(Sign) /\ p \in Seq(Sign) /\ Len(w) \in Nat
      /\ Len(p) \in Nat /\ Len(w) <= Len(p)
      /\ \A k \in 1..Len(w) : p[k] = w[k]
  BY DEF Protected
<1>2. /\ i + 1 \in Nat /\ i + 1 \in 0..Len(w) /\ i + 1 \in 0..Len(p)
      /\ i \in Nat /\ 1 <= i /\ (i + 1) + 1 = i + 2 /\ (i + 1) - 2 = i - 1
      /\ (i - 1) + 1 = i /\ (i - 1) + 2 = i + 1
  BY <1>1
<1>3. PICK q \in Seq(Sign) :
        /\ q = SubSeq(w, 1, i + 1) /\ Len(q) = i + 1
        /\ \A k \in 1..i + 1 : q[k] = w[k]
  <2>1. /\ SubSeq(w, 1, i + 1) \in Seq(Sign) /\ Len(SubSeq(w, 1, i + 1)) = i + 1
        /\ \A k \in 1..i + 1 : SubSeq(w, 1, i + 1)[k] = w[k]
    BY ONLY <1>1, <1>2, HeadPartIs
  <2>2. QED
    BY ONLY <2>1
<1>4. EndsWith(q, <<"]", "(">>)
  <2>1. Len(<<"]", "(">>) = 2 /\ Len(q) >= 2
    BY <1>2, <1>3
  <2>2. i \in 1..Len(q) - 1 /\ i \in 1..i + 1 /\ i + 1 \in 1..i + 1
    BY ONLY <1>2, <1>3
  <2>3. SubSeq(q, i, i + 1) = <<q[i], q[i + 1]>>
    BY <2>2, TwoAt
  <2>4. q[i] = "]" /\ q[i + 1] = "("
    BY <1>3, <2>2
  <2>5. From(q, Len(q) - 2) = SubSeq(q, i, i + 1)
    BY <1>2, <1>3 DEF From
  <2>6. QED
    BY <2>1, <2>3, <2>4, <2>5 DEF EndsWith
<1>5. ~Has(From(w, i + 1), ")")
  <2>1. Has(From(w, i + 1), ")") <=> \E k \in (i + 1) + 1 .. Len(w) : w[k] = ")"
    BY ONLY <1>1, <1>2, HasRest
  <2>2. QED
    BY <1>2, <2>1
<1>6. Lost(w, i + 1)
  BY <1>3, <1>4, <1>5 DEF Lost
<1>7. PICK x \in Seq(Sign) :
        /\ x = SubSeq(p, 1, i + 1) /\ Len(x) = i + 1
        /\ \A k \in 1..i + 1 : x[k] = p[k]
  <2>1. /\ SubSeq(p, 1, i + 1) \in Seq(Sign) /\ Len(SubSeq(p, 1, i + 1)) = i + 1
        /\ \A k \in 1..i + 1 : SubSeq(p, 1, i + 1)[k] = p[k]
    BY ONLY <1>1, <1>2, HeadPartIs
  <2>2. QED
    BY ONLY <2>1
<1>8. Kept(w, i + 1, x)
  <2>1. ASSUME NEW k \in 1..i + 1
        PROVE  x[k] = w[k]
    <3>1. k \in 1..Len(w)
      BY ONLY <1>1, <1>2, k \in 1..i + 1
    <3>2. QED
      BY ONLY <1>1, <1>7, <3>1, k \in 1..i + 1
  <2>2. i + 1 <= Len(x) /\ \A k \in (i + 1) + 1 .. Len(x) : x[k] \in Marks
    BY ONLY <1>2, <1>7
  <2>3. x \in Seq(Sign)
    OBVIOUS
  <2>4. QED
    BY ONLY <2>1, <2>2, <2>3 DEF Kept
<1>9. Kept(w, i + 1, x \o Url \o <<")">>)
  <2>1. Url \in Closing /\ <<")">> \in Closing
    BY DEF Closing
  <2>2. Closed(x, (x \o Url) \o <<")">>)
    BY <2>1 DEF Closed
  <2>3. Kept(w, i + 1, (x \o Url) \o <<")">>)
    BY <1>2, <1>8, <2>2, ClosedGood
  <2>4. QED
    BY <2>3
<1>10. QED
  BY <1>2, <1>6, <1>7, <1>9

(***************************************************************************)
(* The brackets of the text are those of what is displayed.                *)
(***************************************************************************)
LEMMA UnclosedToo ==
  ASSUME NEW w, NEW p, Protected(w, p), NEW o \in 1..Len(w), Unclosed(p, o)
  PROVE  Unclosed(w, o)
<1>1. /\ Len(w) \in Nat /\ Len(p) \in Nat /\ Len(w) <= Len(p)
      /\ \A k \in 1..Len(w) : p[k] = w[k]
  BY DEF Protected
<1>2. ASSUME NEW j \in o + 1 .. Len(w)
      PROVE  CountIn(w, "]", o + 1, j) <= CountIn(w, "[", o + 1, j)
  <2>1. \A k \in o + 1 .. j : p[k] = w[k]
    <3>1. \A k \in o + 1 .. j : k \in 1..Len(w)
      BY <1>1
    <3>2. QED
      BY ONLY <1>1, <3>1
  <2>2. \A c : {k \in o + 1 .. j : p[k] = c} = {k \in o + 1 .. j : w[k] = c}
    BY ONLY <2>1
  <2>3. \A c : CountIn(p, c, o + 1, j) = CountIn(w, c, o + 1, j)
    BY ONLY <2>2 DEF CountIn
  <2>4. j \in o + 1 .. Len(p)
    BY <1>1
  <2>5. CountIn(p, "]", o + 1, j) <= CountIn(p, "[", o + 1, j)
    BY <2>4 DEF Unclosed
  <2>6. QED
    BY ONLY <2>3, <2>5
<1>3. QED
  BY <1>2 DEF Unclosed

(***************************************************************************)
(* What is displayed, if it is not a zero-width space, is of the text.     *)
(***************************************************************************)
LEMMA InText ==
  ASSUME NEW w, NEW p, Protected(w, p), NEW k \in 1..Len(p),
         p[k] \in {"[", "]", "(", "!"}
  PROVE  k \in 1..Len(w) /\ w[k] = p[k]
<1>1. /\ Len(w) \in Nat /\ Len(p) \in Nat /\ Len(w) <= Len(p)
      /\ \A j \in 1..Len(w) : p[j] = w[j]
      /\ \A j \in Len(w) + 1 .. Len(p) : p[j] = ZeroWidthSpace[1]
  BY DEF Protected
<1>2. ZeroWidthSpace[1] = "ZWSP"
  BY DEF ZeroWidthSpace
<1>3. k \notin Len(w) + 1 .. Len(p)
  BY <1>1, <1>2
<1>4. QED
  BY <1>1, <1>3

(***************************************************************************)
(* The exclamation mark of an image is of the text, too.                   *)
(***************************************************************************)
LEMMA ImageInText ==
  ASSUME NEW w, NEW p, Protected(w, p), NEW o \in 1..Len(p), p[o] = "[",
         IsImage(p, o)
  PROVE  o \in 2..Len(w) /\ p[o - 1] = "!"
<1>1. p \in Seq(Sign) /\ Len(p) \in Nat /\ Len(w) \in Nat
  BY DEF Protected
<1>2. o - 1 \in DOMAIN p /\ p[o - 1] = "!"
  BY DEF IsImage, At
<1>3. o \in 1..Len(w)
  BY InText
<1>4. o - 1 \in 1..Len(p)
  BY <1>1, <1>2
<1>5. QED
  BY <1>1, <1>2, <1>3, <1>4

(***************************************************************************)
(* What fix_incomplete_link_or_image does keeps the text but for an image  *)
(* or a URL that is not complete.                                          *)
(***************************************************************************)
LEMMA LinkKept ==
  ASSUME NEW w, NEW p, Protected(w, p)
  PROVE  \E m \in 0..Len(w) : Lost(w, m) /\ Kept(w, m, FixLink(p))
<1>1. /\ w \in Seq(Sign) /\ p \in Seq(Sign) /\ Len(w) \in Nat
      /\ Len(p) \in Nat /\ Len(w) <= Len(p)
      /\ \A k \in 1..Len(w) : p[k] = w[k]
  BY DEF Protected
<1>2. CASE UrlMissing(p) # {}
  <2>1. PICK i : i = Max(UrlMissing(p))
    OBVIOUS
  <2>2. i \in UrlMissing(p)
    <3>1. UrlMissing(p) \subseteq Occurs(p, <<"]", "(">>)
      BY DEF UrlMissing
    <3>2. Occurs(p, <<"]", "(">>) \subseteq 0..Len(p)
      BY <1>1, LinkAt
    <3>3. QED
      BY <1>1, <1>2, <2>1, <3>1, <3>2, MaxOf
  <2>3. /\ i \in Occurs(p, <<"]", "(">>) /\ ~Has(From(p, i + 1), ")")
        /\ OpeningOf(p, i) # {}
    BY <2>2 DEF UrlMissing
  <2>4. i \in 1..Len(p) - 1 /\ p[i] = "]" /\ p[i + 1] = "("
    BY <1>1, <2>3, LinkAt
  <2>5. /\ i \in Nat /\ i \in 1..Len(p) /\ i + 1 \in 1..Len(p)
        /\ i + 1 \in 0..Len(p) /\ (i + 1) + 1 = i + 2
    BY <1>1, <2>4
  <2>6. i + 1 \in 1..Len(w) /\ i \in 1..Len(w) - 1
    <3>1. i + 1 \in 1..Len(w)
      BY <2>4, <2>5, InText
    <3>2. QED
      BY <1>1, <2>5, <3>1
  <2>7. w[i] = "]" /\ w[i + 1] = "("
    BY <1>1, <2>4, <2>5, <2>6, InText
  <2>8. \A k \in i + 2 .. Len(w) : w[k] # ")"
    <3>1. \A k \in (i + 1) + 1 .. Len(p) : p[k] # ")"
      BY ONLY <1>1, <2>3, <2>5, HasRest
    <3>2. \A k \in i + 2 .. Len(w) : k \in (i + 1) + 1 .. Len(p) /\ k \in 1..Len(w)
      BY ONLY <1>1, <2>5
    <3>3. QED
      BY ONLY <1>1, <3>1, <3>2
  <2>9. PICK o : o = Max(OpeningOf(p, i))
    OBVIOUS
  <2>10. o \in 1..i - 1 /\ p[o] = "["
    <3>1. OpeningOf(p, i) \subseteq 0..i
      BY <2>5 DEF OpeningOf
    <3>2. o \in OpeningOf(p, i)
      BY <2>3, <2>5, <2>9, <3>1, MaxOf
    <3>3. QED
      BY <3>2 DEF OpeningOf
  <2>11. FixLink(p) = IF IsImage(p, o) THEN SubSeq(p, 1, o - 2)
                      ELSE SubSeq(p, 1, i + 1) \o Url \o <<")">>
    BY <1>2, <2>1, <2>9 DEF FixLink
  <2>12. CASE IsImage(p, o)
    <3>1. o \in 1..Len(p)
      BY <2>5, <2>10
    <3>2. o \in 2..Len(w) /\ p[o - 1] = "!"
      BY <2>10, <2>12, <3>1, ImageInText
    <3>3. UrlLacksEnd(w, o)
      <4>1. i \in Occurs(w, <<"]", "(">>)
        BY <1>1, <2>6, <2>7, LinkAt
      <4>2. i + 1 \in 0..Len(w)
        BY <1>1, <2>6
      <4>3. ~Has(From(w, i + 1), ")")
        BY <1>1, <2>5, <2>8, <4>2, HasRest
      <4>4. i > o
        BY <2>5, <2>10
      <4>5. QED
        BY <4>1, <4>3, <4>4 DEF UrlLacksEnd
    <3>4. o - 2 \in 0..Len(w) /\ Lost(w, o - 2) /\ Kept(w, o - 2, SubSeq(p, 1, o - 2))
      BY <2>10, <3>2, <3>3, ImageLost
    <3>5. QED
      BY <2>11, <2>12, <3>4
  <2>13. CASE ~IsImage(p, o)
    <3>1. /\ i + 1 \in 0..Len(w) /\ Lost(w, i + 1)
          /\ Kept(w, i + 1, SubSeq(p, 1, i + 1) \o Url \o <<")">>)
      BY <2>6, <2>7, <2>8, UrlLost
    <3>2. QED
      BY <2>11, <2>13, <3>1
  <2>14. QED
    BY <2>12, <2>13
<1>3. CASE UrlMissing(p) = {} /\ TextMissing(p) # {}
  <2>1. PICK i : i = Max(TextMissing(p))
    OBVIOUS
  <2>2. i \in TextMissing(p)
    <3>1. TextMissing(p) \subseteq 0..Len(p)
      BY <1>1 DEF TextMissing
    <3>2. QED
      BY <1>1, <1>3, <2>1, <3>1, MaxOf
  <2>3. i \in 1..Len(p) /\ p[i] = "[" /\ Unclosed(p, i)
    BY <1>1, <2>2 DEF TextMissing
  <2>4. CASE IsImage(p, i)
    <3>1. i \in 2..Len(w) /\ p[i - 1] = "!"
      BY <2>3, <2>4, ImageInText
    <3>2. Unclosed(w, i)
      <4>1. i \in 1..Len(w)
        BY <3>1
      <4>2. QED
        BY <2>3, <4>1, UnclosedToo
    <3>3. i - 2 \in 0..Len(w) /\ Lost(w, i - 2) /\ Kept(w, i - 2, SubSeq(p, 1, i - 2))
      BY <2>3, <3>1, <3>2, ImageLost
    <3>4. FixLink(p) = SubSeq(p, 1, i - 2)
      BY <1>3, <2>1, <2>4 DEF FixLink
    <3>5. QED
      BY <3>3, <3>4
  <2>5. CASE ~IsImage(p, i)
    <3>1. FixLink(p) = ((p \o <<"]", "(">>) \o Url) \o <<")">>
      BY <1>3, <2>1, <2>5 DEF FixLink
    <3>2. Kept(w, Len(w), p) /\ Lost(w, Len(w))
      BY ProtectedKept
    <3>3. Url \in Closing /\ <<")">> \in Closing /\ <<"]", "(">> \in Closing
      BY DEF Closing
    <3>4. Kept(w, Len(w), p \o <<"]", "(">>)
      <4>1. Closed(p, p \o <<"]", "(">>)
        BY <3>3 DEF Closed
      <4>2. QED
        BY <1>1, <3>2, <4>1, ClosedGood
    <3>5. Kept(w, Len(w), ((p \o <<"]", "(">>) \o Url) \o <<")">>)
      <4>1. Closed(p \o <<"]", "(">>, ((p \o <<"]", "(">>) \o Url) \o <<")">>)
        BY <3>3 DEF Closed
      <4>2. QED
        BY <1>1, <3>4, <4>1, ClosedGood
    <3>6. Len(w) \in 0..Len(w)
      BY <1>1
    <3>7. QED
      BY <3>1, <3>2, <3>5, <3>6
  <2>6. QED
    BY <2>4, <2>5
<1>4. CASE UrlMissing(p) = {} /\ TextMissing(p) = {}
  <2>1. FixLink(p) = p
    BY <1>4 DEF FixLink
  <2>2. Len(w) \in 0..Len(w)
    BY <1>1
  <2>3. QED
    BY <2>1, <2>2, ProtectedKept
<1>5. QED
  BY <1>2, <1>3, <1>4

(***************************************************************************)
(* So does all of what is done to the window.                              *)
(***************************************************************************)
LEMMA TailGood ==
  ASSUME NEW w \in Seq(Char), WithoutSingleSpace(w) = w
  PROVE  \E m \in 0..Len(w) : Lost(w, m) /\ Good(w, m, TerminateTail(w))
<1>1. PICK p : p = If("setext_headings", ProtectSetext(w), w)
  OBVIOUS
<1>2. Protected(w, p)
  <2>1. p \in {w, ProtectSetext(w)}
    BY <1>1 DEF If
  <2>2. QED
    BY <2>1, ProtectedIs
<1>3. TerminateTail(w) \in {p, FixLink(p), CloseMarkers(FixLink(p))}
  BY <1>1 DEF TerminateTail
<1>4. CASE TerminateTail(w) = p
  <2>1. Len(w) \in 0..Len(w)
    OBVIOUS
  <2>2. QED
    BY <1>2, <1>4, <2>1, ProtectedKept DEF Good
<1>5. CASE TerminateTail(w) # p
  <2>1. PICK m \in 0..Len(w) : Lost(w, m) /\ Kept(w, m, FixLink(p))
    BY <1>2, LinkKept
  <2>2. Good(w, m, FixLink(p))
    BY <2>1 DEF Good
  <2>3. Good(w, m, CloseMarkers(FixLink(p)))
    BY <2>1, MarkersGood
  <2>4. QED
    BY <1>3, <1>5, <2>1, <2>2, <2>3
<1>6. QED
  BY <1>4, <1>5

-----------------------------------------------------------------------------
(***************************************************************************)
(* The end of a text, in terms of elements.                                *)
(***************************************************************************)
LEMMA EndsWithTwo ==
  ASSUME NEW s \in Seq(Sign), NEW a, NEW b
  PROVE  EndsWith(s, <<a, b>>)
           <=> Len(s) >= 2 /\ s[Len(s) - 1] = a /\ s[Len(s)] = b
<1>1. Len(s) \in Nat /\ Len(<<a, b>>) = 2
  OBVIOUS
<1>2. EndsWith(s, <<a, b>>)
        <=> Len(s) >= 2 /\ SubSeq(s, Len(s) - 2 + 1, Len(s)) = <<a, b>>
  BY <1>1 DEF EndsWith, From
<1>3. ASSUME Len(s) >= 2
      PROVE  SubSeq(s, Len(s) - 2 + 1, Len(s)) = <<s[Len(s) - 1], s[Len(s)]>>
  <2>1. /\ Len(s) - 2 + 1 = Len(s) - 1 /\ (Len(s) - 1) + 1 = Len(s)
        /\ Len(s) - 1 \in 1..Len(s) - 1
    BY ONLY <1>1, <1>3
  <2>2. SubSeq(s, Len(s) - 1, (Len(s) - 1) + 1)
          = <<s[Len(s) - 1], s[(Len(s) - 1) + 1]>>
    BY <2>1, TwoAt
  <2>3. QED
    BY ONLY <2>1, <2>2
<1>4. \A c, d : <<c, d>> = <<a, b>> <=> c = a /\ d = b
  OBVIOUS
<1>5. QED
  BY ONLY <1>2, <1>3, <1>4

(***************************************************************************)
(* One character at the end.                                               *)
(***************************************************************************)
LEMMA EndsWithOne ==
  ASSUME NEW s \in Seq(Sign), NEW a
  PROVE  EndsWith(s, <<a>>) <=> Len(s) >= 1 /\ s[Len(s)] = a
<1>1. Len(s) \in Nat /\ Len(<<a>>) = 1
  OBVIOUS
<1>2. EndsWith(s, <<a>>) <=> Len(s) >= 1 /\ From(s, Len(s) - 1) = <<a>>
  BY <1>1 DEF EndsWith
<1>3. ASSUME Len(s) >= 1
      PROVE  From(s, Len(s) - 1) = <<s[Len(s)]>>
  <2>1. /\ Len(s) - 1 \in 0..Len(s) /\ Len(s) - (Len(s) - 1) = 1
        /\ (Len(s) - 1) + 1 = Len(s)
    BY ONLY <1>1, <1>3
  <2>2. /\ From(s, Len(s) - 1) \in Seq(Sign)
        /\ Len(From(s, Len(s) - 1)) = Len(s) - (Len(s) - 1)
        /\ \A k \in 1..Len(s) - (Len(s) - 1) :
             From(s, Len(s) - 1)[k] = s[(Len(s) - 1) + k]
    BY <2>1, RestIs
  <2>3. PICK r \in Seq(Sign) : r = From(s, Len(s) - 1)
    BY <2>2
  <2>4. Len(r) = 1 /\ r[1] = s[Len(s)]
    BY ONLY <2>1, <2>2, <2>3
  <2>5. r = <<r[1]>>
    BY <2>4
  <2>6. QED
    BY ONLY <2>3, <2>4, <2>5
<1>4. \A c : <<c>> = <<a>> <=> c = a
  OBVIOUS
<1>5. QED
  BY ONLY <1>2, <1>3, <1>4

(***************************************************************************)
(* The rest of the rest.                                                   *)
(***************************************************************************)
LEMMA RestOfRest ==
  ASSUME NEW s \in Seq(Sign), NEW f \in 0..Len(s), NEW w, w = From(s, f),
         NEW m \in 0..Len(w)
  PROVE  f + m \in 0..Len(s) /\ From(w, m) = From(s, f + m)
<1>1. /\ w \in Seq(Sign) /\ Len(w) = Len(s) - f
      /\ \A k \in 1..Len(s) - f : w[k] = s[f + k]
  BY RestIs
<1>2. f \in Nat /\ m \in Nat /\ Len(s) \in Nat /\ f + m \in 0..Len(s)
  BY ONLY <1>1, f \in 0..Len(s), m \in 0..Len(w), s \in Seq(Sign)
<1>3. PICK a \in Seq(Sign) :
        /\ a = From(w, m) /\ Len(a) = Len(w) - m
        /\ \A k \in 1..Len(w) - m : a[k] = w[m + k]
  <2>1. /\ From(w, m) \in Seq(Sign) /\ Len(From(w, m)) = Len(w) - m
        /\ \A k \in 1..Len(w) - m : From(w, m)[k] = w[m + k]
    BY ONLY <1>1, m \in 0..Len(w), RestIs
  <2>2. QED
    BY ONLY <2>1
<1>4. PICK b \in Seq(Sign) :
        /\ b = From(s, f + m) /\ Len(b) = Len(s) - (f + m)
        /\ \A k \in 1..Len(s) - (f + m) : b[k] = s[(f + m) + k]
  <2>1. /\ From(s, f + m) \in Seq(Sign) /\ Len(From(s, f + m)) = Len(s) - (f + m)
        /\ \A k \in 1..Len(s) - (f + m) : From(s, f + m)[k] = s[(f + m) + k]
    BY ONLY <1>2, s \in Seq(Sign), RestIs
  <2>2. QED
    BY ONLY <2>1
<1>5. Len(a) = Len(b)
  <2>1. Len(w) - m = Len(s) - (f + m)
    BY ONLY <1>1, <1>2
  <2>2. QED
    BY ONLY <1>3, <1>4, <2>1
<1>6. ASSUME NEW k \in 1..Len(a)
      PROVE  a[k] = b[k]
  <2>1. /\ k \in 1..Len(w) - m /\ k \in 1..Len(s) - (f + m)
        /\ m + k \in 1..Len(s) - f /\ f + (m + k) = (f + m) + k
    <3>1. k \in 1..Len(w) - m
      BY ONLY <1>3, k \in 1..Len(a)
    <3>2. QED
      BY ONLY <1>1, <1>2, <3>1
  <2>2. QED
    BY ONLY <1>1, <1>3, <1>4, <2>1
<1>7. a = b
  BY <1>5, <1>6, SeqEqual
<1>8. QED
  BY <1>2, <1>3, <1>4, <1>7

(***************************************************************************)
(* Counting in the rest of a text is counting in the text.                 *)
(***************************************************************************)
LEMMA CountInRest ==
  ASSUME NEW s, NEW w, NEW f \in Nat, NEW a \in Nat, NEW b \in Nat, NEW c,
         \A k \in a..b : w[k] = s[f + k]
  PROVE  CountIn(w, c, a, b) = CountIn(s, c, f + a, f + b)
<1> DEFINE S == {k \in a..b : w[k] = c}
           T == {k \in f + a .. f + b : s[k] = c}
           g == [k \in S |-> f + k]
<1>1. IsFiniteSet(S)
  <2>1. a \in Int /\ b \in Int /\ S \in SUBSET (a..b)
    OBVIOUS
  <2>2. IsFiniteSet(a..b)
    BY <2>1, FS_Interval
  <2>3. QED
    BY ONLY <2>1, <2>2, FS_Subset
<1>2. \A k \in S : k \in Nat /\ f + k \in T
  OBVIOUS
<1>3. \A j \in T : j - f \in S /\ f + (j - f) = j
  <2>1. SUFFICES ASSUME NEW j \in T
                 PROVE  j - f \in S /\ f + (j - f) = j
    OBVIOUS
  <2>2. j \in f + a .. f + b /\ s[j] = c
    OBVIOUS
  <2>3. j - f \in a..b /\ f + (j - f) = j
    BY <2>2
  <2>4. w[j - f] = c
    BY <2>2, <2>3
  <2>5. QED
    BY <2>3, <2>4
<1> HIDE DEF S, T
<1>4. g \in [S -> T] /\ \A k \in S : g[k] = f + k
  BY <1>2
<1> HIDE DEF g
<1>5. g \in Injection(S, T)
  <2>1. ASSUME NEW x \in S, NEW y \in S, g[x] = g[y]
        PROVE  x = y
    BY <1>2, <1>4, <2>1
  <2>2. QED
    BY <1>4, <2>1 DEF Injection, IsInjective
<1>6. g \in Surjection(S, T)
  <2>1. ASSUME NEW j \in T
        PROVE  \E k \in S : g[k] = j
    BY <1>3, <1>4
  <2>2. QED
    BY <1>4, <2>1 DEF Surjection
<1>7. ExistsBijection(S, T)
  BY <1>5, <1>6 DEF ExistsBijection, Bijection
<1>8. Cardinality(T) = Cardinality(S)
  BY ONLY <1>1, <1>7, FS_Bijection
<1>9. QED
  BY <1>8 DEF CountIn, S, T

(***************************************************************************)
(* w is what is left of s behind its first f characters.                   *)
(***************************************************************************)
IsRest(s, f, w) ==
  /\ s \in Seq(Sign) /\ w \in Seq(Sign) /\ f \in 0..Len(s) /\ w = From(s, f)
  /\ f \in Nat /\ Len(s) \in Nat /\ Len(w) \in Nat /\ Len(w) = Len(s) - f
  /\ \A k \in 1..Len(w) : w[k] = s[f + k]

(***************************************************************************)
(* A bracket that is open in the rest of a text is open in the text.       *)
(***************************************************************************)
LEMMA UnclosedInWhole ==
  ASSUME NEW s, NEW f, NEW w, IsRest(s, f, w), NEW o \in Nat, Unclosed(w, o)
  PROVE  Unclosed(s, f + o)
<1>1. /\ f \in Nat /\ Len(s) \in Nat /\ Len(w) \in Nat /\ Len(w) = Len(s) - f
      /\ \A k \in 1..Len(w) : w[k] = s[f + k]
  BY DEF IsRest
<1>2. SUFFICES ASSUME NEW j \in (f + o) + 1 .. Len(s)
               PROVE  CountIn(s, "]", (f + o) + 1, j) <= CountIn(s, "[", (f + o) + 1, j)
  BY DEF Unclosed
<1>3. PICK i \in o + 1 .. Len(w) : i = j - f
  <2>1. j - f \in o + 1 .. Len(w)
    BY <1>1
  <2>2. QED
    BY <2>1
<1>4. i \in Nat /\ f + i = j /\ o + 1 \in Nat /\ f + (o + 1) = (f + o) + 1
  BY <1>1, <1>3
<1>5. \A k \in o + 1 .. i : w[k] = s[f + k]
  <2>1. \A k \in o + 1 .. i : k \in 1..Len(w)
    BY <1>1
  <2>2. QED
    BY ONLY <1>1, <2>1
<1>6. ASSUME NEW c
      PROVE  CountIn(w, c, o + 1, i) = CountIn(s, c, f + (o + 1), f + i)
  <2>1. PICK a \in Nat : a = o + 1
    BY ONLY <1>4
  <2>2. f \in Nat /\ a \in Nat /\ i \in Nat /\ \A k \in a..i : w[k] = s[f + k]
    BY ONLY <1>1, <1>4, <1>5, <2>1, a \in Nat
  <2>3. CountIn(w, c, a, i) = CountIn(s, c, f + a, f + i)
    BY ONLY <2>2, CountInRest
  <2>4. QED
    BY ONLY <2>1, <2>3
<1>7. CountIn(w, "]", o + 1, i) <= CountIn(w, "[", o + 1, i)
  BY DEF Unclosed
<1>8. QED
  BY ONLY <1>4, <1>6, <1>7

(***************************************************************************)
(* So is the URL of a link.                                                *)
(***************************************************************************)
LEMMA UrlLacksEndInWhole ==
  ASSUME NEW s, NEW f, NEW w, IsRest(s, f, w), NEW o \in Nat, UrlLacksEnd(w, o)
  PROVE  UrlLacksEnd(s, f + o)
<1>1. /\ s \in Seq(Sign) /\ w \in Seq(Sign) /\ f \in 0..Len(s) /\ w = From(s, f)
      /\ f \in Nat /\ Len(s) \in Nat /\ Len(w) \in Nat /\ Len(w) = Len(s) - f
      /\ \A k \in 1..Len(w) : w[k] = s[f + k]
  BY DEF IsRest
<1>2. PICK i \in Occurs(w, <<"]", "(">>) : i > o /\ ~Has(From(w, i + 1), ")")
  BY DEF UrlLacksEnd
<1>3. i \in 1..Len(w) - 1 /\ w[i] = "]" /\ w[i + 1] = "("
  BY ONLY <1>1, i \in Occurs(w, <<"]", "(">>), LinkAt
<1>4. /\ i \in 1..Len(w) /\ i + 1 \in 1..Len(w) /\ i + 1 \in 0..Len(w)
      /\ f + i \in 1..Len(s) - 1 /\ f + (i + 1) = (f + i) + 1 /\ i \in Nat
  BY ONLY <1>1, <1>3
<1>5. s[f + i] = "]" /\ s[(f + i) + 1] = "("
  BY ONLY <1>1, <1>3, <1>4
<1>6. f + i \in Occurs(s, <<"]", "(">>)
  BY ONLY <1>1, <1>4, <1>5, LinkAt
<1>7. From(w, i + 1) = From(s, (f + i) + 1)
  BY ONLY <1>1, <1>4, RestOfRest
<1>8. f + i > f + o
  BY ONLY <1>1, <1>2, <1>4, o \in Nat
<1>9. QED
  BY ONLY <1>2, <1>6, <1>7, <1>8 DEF UrlLacksEnd

(***************************************************************************)
(* What is lost of the rest of a text is lost of the text.                 *)
(***************************************************************************)
LEMMA LostInWhole ==
  ASSUME NEW s, NEW f, NEW w, IsRest(s, f, w), NEW m \in 0..Len(w), Lost(w, m)
  PROVE  f + m \in f..Len(s) /\ Lost(s, f + m)
<1>1. /\ s \in Seq(Sign) /\ w \in Seq(Sign) /\ f \in 0..Len(s) /\ w = From(s, f)
      /\ f \in Nat /\ Len(s) \in Nat /\ Len(w) \in Nat /\ Len(w) = Len(s) - f
      /\ \A k \in 1..Len(w) : w[k] = s[f + k]
  BY DEF IsRest
<1>2. /\ m \in Nat /\ f + m \in f..Len(s) /\ f + m \in 0..Len(s)
      /\ m + 2 \in Nat /\ f + (m + 2) = (f + m) + 2 /\ f + m \in Nat
  BY ONLY <1>1, m \in 0..Len(w)
<1>3. From(w, m) = From(s, f + m)
  BY ONLY <1>1, m \in 0..Len(w), RestOfRest
<1>4. Unclosed(w, m + 2) => Unclosed(s, (f + m) + 2)
  <2>1. Unclosed(w, m + 2) => Unclosed(s, f + (m + 2))
    BY <1>2, UnclosedInWhole
  <2>2. QED
    BY ONLY <1>2, <2>1
<1>5. UrlLacksEnd(w, m + 2) => UrlLacksEnd(s, (f + m) + 2)
  <2>1. UrlLacksEnd(w, m + 2) => UrlLacksEnd(s, f + (m + 2))
    BY <1>2, UrlLacksEndInWhole
  <2>2. QED
    BY ONLY <1>2, <2>1
<1>6. ASSUME EndsWith(SubSeq(w, 1, m), <<"]", "(">>)
      PROVE  EndsWith(SubSeq(s, 1, f + m), <<"]", "(">>)
  <2>1. PICK a \in Seq(Sign) :
          /\ a = SubSeq(w, 1, m) /\ Len(a) = m
          /\ \A k \in 1..m : a[k] = w[k]
    <3>1. /\ SubSeq(w, 1, m) \in Seq(Sign) /\ Len(SubSeq(w, 1, m)) = m
          /\ \A k \in 1..m : SubSeq(w, 1, m)[k] = w[k]
      BY ONLY <1>1, m \in 0..Len(w), HeadPartIs
    <3>2. QED
      BY ONLY <3>1
  <2>2. PICK b \in Seq(Sign) :
          /\ b = SubSeq(s, 1, f + m) /\ Len(b) = f + m
          /\ \A k \in 1..f + m : b[k] = s[k]
    <3>1. /\ SubSeq(s, 1, f + m) \in Seq(Sign) /\ Len(SubSeq(s, 1, f + m)) = f + m
          /\ \A k \in 1..f + m : SubSeq(s, 1, f + m)[k] = s[k]
      BY ONLY <1>1, <1>2, HeadPartIs
    <3>2. QED
      BY ONLY <3>1
  <2>3. EndsWith(a, <<"]", "(">>)
    BY ONLY <1>6, <2>1
  <2>4. m >= 2 /\ a[m - 1] = "]" /\ a[m] = "("
    <3>1. Len(a) >= 2 /\ a[Len(a) - 1] = "]" /\ a[Len(a)] = "("
      BY <2>3, EndsWithTwo
    <3>2. QED
      BY ONLY <2>1, <3>1
  <2>5. /\ m - 1 \in 1..m /\ m \in 1..m /\ m - 1 \in 1..Len(w) /\ m \in 1..Len(w)
        /\ f + (m - 1) = (f + m) - 1 /\ (f + m) - 1 \in 1..f + m
        /\ f + m \in 1..f + m /\ f + m >= 2
    BY ONLY <1>1, <1>2, <2>4, m \in 0..Len(w)
  <2>6. b[(f + m) - 1] = "]" /\ b[f + m] = "("
    <3>1. a[m - 1] = w[m - 1] /\ a[m] = w[m]
      BY ONLY <2>1, <2>5
    <3>2. w[m - 1] = s[(f + m) - 1] /\ w[m] = s[f + m]
      BY ONLY <1>1, <2>5
    <3>3. b[(f + m) - 1] = s[(f + m) - 1] /\ b[f + m] = s[f + m]
      BY ONLY <2>2, <2>5
    <3>4. QED
      BY ONLY <2>4, <3>1, <3>2, <3>3
  <2>7. Len(b) >= 2 /\ b[Len(b) - 1] = "]" /\ b[Len(b)] = "("
    BY ONLY <2>2, <2>5, <2>6
  <2>8. EndsWith(b, <<"]", "(">>)
    BY <2>7, EndsWithTwo
  <2>9. QED
    BY ONLY <2>2, <2>8
<1>7. Lost(s, f + m)
  BY ONLY <1>3, <1>4, <1>5, <1>6, Lost(w, m) DEF Lost
<1>8. QED
  BY <1>2, <1>7

(***************************************************************************)
(* What is kept of the rest of a text is kept of the text.                 *)
(***************************************************************************)
LEMMA KeptInWhole ==
  ASSUME NEW s, NEW f, NEW w, IsRest(s, f, w), NEW m \in 0..Len(w), NEW t,
         Kept(w, m, t)
  PROVE  Kept(s, f + m, SubSeq(s, 1, f) \o t)
<1>1. /\ s \in Seq(Sign) /\ f \in 0..Len(s)
      /\ f \in Nat /\ Len(s) \in Nat /\ Len(w) \in Nat /\ Len(w) = Len(s) - f
      /\ \A k \in 1..Len(w) : w[k] = s[f + k]
  BY DEF IsRest
<1>2. /\ t \in Seq(Sign) /\ m <= Len(t) /\ Len(t) \in Nat /\ m \in Nat
      /\ m <= Len(w)
      /\ \A k \in 1..m : t[k] = w[k]
      /\ \A k \in m + 1 .. Len(t) : t[k] \in Marks
  <2>1. t \in Seq(Sign)
    BY DEF Kept
  <2>2. QED
    BY <1>1, <2>1 DEF Kept
<1>3. PICK a \in Seq(Sign) :
        /\ a = SubSeq(s, 1, f) /\ Len(a) = f
        /\ \A k \in 1..f : a[k] = s[k]
  <2>1. /\ SubSeq(s, 1, f) \in Seq(Sign) /\ Len(SubSeq(s, 1, f)) = f
        /\ \A k \in 1..f : SubSeq(s, 1, f)[k] = s[k]
    BY ONLY <1>1, HeadPartIs
  <2>2. QED
    BY ONLY <2>1
<1>4. PICK d \in Seq(Sign) :
        /\ d = a \o t /\ Len(d) = Len(a) + Len(t)
        /\ \A k \in 1..Len(a) : d[k] = a[k]
        /\ \A k \in 1..Len(t) : d[Len(a) + k] = t[k]
  <2>1. a \in Seq(Sign) /\ t \in Seq(Sign)
    BY <1>2
  <2>2. /\ a \o t \in Seq(Sign) /\ Len(a \o t) = Len(a) + Len(t)
        /\ \A k \in 1..Len(a) : (a \o t)[k] = a[k]
        /\ \A k \in 1..Len(t) : (a \o t)[Len(a) + k] = t[k]
    BY ONLY <2>1, JoinIs
  <2>3. QED
    BY ONLY <2>2
<1>5. Len(d) = f + Len(t)
  BY ONLY <1>3, <1>4
<1>6. ASSUME NEW k \in 1..f + m
      PROVE  d[k] = s[k]
  <2>1. CASE k <= f
    <3>1. k \in 1..f /\ k \in 1..Len(a)
      BY ONLY <1>1, <1>2, <1>3, <2>1, k \in 1..f + m
    <3>2. QED
      BY ONLY <1>3, <1>4, <3>1
  <2>2. CASE k > f
    <3>1. /\ k - f \in 1..m /\ k - f \in 1..Len(t) /\ k - f \in 1..Len(w)
          /\ f + (k - f) = k
      BY ONLY <1>1, <1>2, <2>2, k \in 1..f + m
    <3>2. d[f + (k - f)] = t[k - f]
      BY ONLY <1>3, <1>4, <3>1
    <3>3. t[k - f] = w[k - f] /\ w[k - f] = s[f + (k - f)]
      BY ONLY <1>1, <1>2, <3>1
    <3>4. QED
      BY ONLY <3>1, <3>2, <3>3
  <2>3. QED
    BY <1>1, <2>1, <2>2
<1>7. ASSUME NEW k \in (f + m) + 1 .. Len(d)
      PROVE  d[k] \in Marks
  <2>1. /\ k - f \in m + 1 .. Len(t) /\ k - f \in 1..Len(t) /\ f + (k - f) = k
    BY ONLY <1>1, <1>2, <1>5, k \in (f + m) + 1 .. Len(d)
  <2>2. d[f + (k - f)] = t[k - f]
    BY ONLY <1>3, <1>4, <2>1
  <2>3. QED
    BY ONLY <1>2, <2>1, <2>2
<1>8. f + m <= Len(d)
  BY ONLY <1>1, <1>2, <1>5
<1>9. d \in Seq(Sign)
  OBVIOUS
<1>10. Kept(s, f + m, d)
  BY ONLY <1>6, <1>7, <1>8, <1>9 DEF Kept
<1>11. QED
  BY ONLY <1>3, <1>4, <1>10

(***************************************************************************)
(* Also with an underscore put in.                                         *)
(***************************************************************************)
LEMMA AroundInWhole ==
  ASSUME NEW s \in Seq(Char), NEW f, NEW w \in Seq(Char), IsRest(s, f, w),
         NEW m \in 0..Len(w), NEW n \in 0..m, NEW t, KeptAround(w, n, m, t)
  PROVE  KeptAround(s, f + n, f + m, SubSeq(s, 1, f) \o t)
<1>1. /\ s \in Seq(Sign) /\ f \in 0..Len(s)
      /\ f \in Nat /\ Len(s) \in Nat /\ Len(w) \in Nat /\ Len(w) = Len(s) - f
      /\ \A k \in 1..Len(w) : w[k] = s[f + k]
  BY DEF IsRest
<1>2. /\ t \in Seq(Sign) /\ m < Len(t) /\ Len(t) \in Nat /\ m \in Nat
      /\ m <= Len(w) /\ n \in Nat /\ n <= m
  <2>1. t \in Seq(Sign)
    BY DEF KeptAround
  <2>2. m < Len(t)
    BY DEF KeptAround
  <2>3. QED
    BY <1>1, <2>1, <2>2
<1>3. /\ \A k \in 1..n : t[k] = w[k]
      /\ t[n + 1] = "_"
      /\ \A k \in n + 1 .. m : t[k + 1] = w[k]
      /\ \A k \in m + 2 .. Len(t) : t[k] \in Marks
      /\ Passed(SubSeq(w, n + 1, m))
  BY DEF KeptAround
<1>4. PICK a \in Seq(Sign) :
        /\ a = SubSeq(s, 1, f) /\ Len(a) = f
        /\ \A k \in 1..f : a[k] = s[k]
  <2>1. /\ SubSeq(s, 1, f) \in Seq(Sign) /\ Len(SubSeq(s, 1, f)) = f
        /\ \A k \in 1..f : SubSeq(s, 1, f)[k] = s[k]
    BY ONLY <1>1, HeadPartIs
  <2>2. QED
    BY ONLY <2>1
<1>5. PICK d \in Seq(Sign) :
        /\ d = a \o t /\ Len(d) = Len(a) + Len(t)
        /\ \A k \in 1..Len(a) : d[k] = a[k]
        /\ \A k \in 1..Len(t) : d[Len(a) + k] = t[k]
  <2>1. a \in Seq(Sign) /\ t \in Seq(Sign)
    BY <1>2
  <2>2. /\ a \o t \in Seq(Sign) /\ Len(a \o t) = Len(a) + Len(t)
        /\ \A k \in 1..Len(a) : (a \o t)[k] = a[k]
        /\ \A k \in 1..Len(t) : (a \o t)[Len(a) + k] = t[k]
    BY ONLY <2>1, JoinIs
  <2>3. QED
    BY ONLY <2>2
<1>6. Len(d) = f + Len(t)
  BY ONLY <1>4, <1>5
<1>7. \A k \in 1..Len(t) : d[f + k] = t[k]
  BY ONLY <1>4, <1>5
<1>8. ASSUME NEW k \in 1..f + n
      PROVE  d[k] = s[k]
  <2>1. CASE k <= f
    <3>1. k \in 1..f /\ k \in 1..Len(a)
      BY ONLY <1>1, <1>2, <1>4, <2>1, k \in 1..f + n
    <3>2. QED
      BY ONLY <1>4, <1>5, <3>1
  <2>2. CASE k > f
    <3>1. /\ k - f \in 1..n /\ k - f \in 1..Len(t) /\ k - f \in 1..Len(w)
          /\ f + (k - f) = k
      BY ONLY <1>1, <1>2, <2>2, k \in 1..f + n
    <3>2. d[f + (k - f)] = t[k - f]
      BY ONLY <1>7, <3>1
    <3>3. t[k - f] = w[k - f] /\ w[k - f] = s[f + (k - f)]
      BY ONLY <1>1, <1>3, <3>1
    <3>4. QED
      BY ONLY <3>1, <3>2, <3>3
  <2>3. QED
    BY <1>1, <2>1, <2>2
<1>9. d[(f + n) + 1] = "_"
  <2>1. n + 1 \in 1..Len(t) /\ f + (n + 1) = (f + n) + 1
    BY ONLY <1>1, <1>2
  <2>2. QED
    BY ONLY <1>3, <1>7, <2>1
<1>10. ASSUME NEW k \in (f + n) + 1 .. f + m
       PROVE  d[k + 1] = s[k]
  <2>1. /\ k - f \in n + 1 .. m /\ (k - f) + 1 \in 1..Len(t) /\ k - f \in 1..Len(w)
        /\ f + (k - f) = k /\ f + ((k - f) + 1) = k + 1
    BY ONLY <1>1, <1>2, k \in (f + n) + 1 .. f + m
  <2>2. d[k + 1] = t[(k - f) + 1]
    BY ONLY <1>7, <2>1
  <2>3. t[(k - f) + 1] = w[k - f] /\ w[k - f] = s[k]
    BY ONLY <1>1, <1>3, <2>1
  <2>4. QED
    BY ONLY <2>2, <2>3
<1>11. ASSUME NEW k \in (f + m) + 2 .. Len(d)
       PROVE  d[k] \in Marks
  <2>1. /\ k - f \in m + 2 .. Len(t) /\ k - f \in 1..Len(t) /\ f + (k - f) = k
    BY ONLY <1>1, <1>2, <1>6, k \in (f + m) + 2 .. Len(d)
  <2>2. d[f + (k - f)] = t[k - f]
    BY ONLY <1>7, <2>1
  <2>3. QED
    BY ONLY <1>3, <2>1, <2>2
<1>12. SubSeq(s, (f + n) + 1, f + m) = SubSeq(w, n + 1, m)
  <2>1. PICK g \in Nat : g = f
    BY ONLY <1>1
  <2>2. PICK y \in Nat, z \in Nat, x \in Nat, v \in Nat :
          /\ y = n + 1 /\ z = m /\ x = (f + n) + 1 /\ v = f + m
          /\ 1 <= y /\ y <= z + 1 /\ z <= Len(w) /\ x = g + y /\ v = g + z
    <3>1. f \in Nat /\ n \in Nat /\ m \in Nat /\ n <= m /\ m <= Len(w)
      BY ONLY <1>1, <1>2
    <3>2. QED
      BY ONLY <2>1, <3>1
  <2>3. /\ Len(s) \in Nat /\ Len(w) \in Nat /\ Len(w) = Len(s) - g
        /\ \A k \in 1..Len(w) : w[k] = s[g + k]
    BY ONLY <1>1, <2>1
  <2>4. 1 <= y /\ y <= z + 1 /\ z <= Len(w) /\ x = g + y /\ v = g + z
    BY ONLY <2>2
  <2>5. 1 <= x /\ x <= v + 1 /\ v <= Len(s) /\ (v - x) + 1 = (z - y) + 1
    <3>1. Len(s) \in Nat /\ Len(w) = Len(s) - g
      BY ONLY <2>3
    <3>2. QED
      BY ONLY <2>4, <3>1, g \in Nat, y \in Nat, z \in Nat, x \in Nat, v \in Nat
  <2>6. PICK p \in Seq(Char) :
          /\ p = SubSeq(w, y, z) /\ Len(p) = (z - y) + 1
          /\ \A k \in 1..Len(p) : p[k] = w[(y + k) - 1]
    BY ONLY <2>4, w \in Seq(Char), y \in Nat, z \in Nat, SliceIs
  <2>7. PICK q \in Seq(Char) :
          /\ q = SubSeq(s, x, v) /\ Len(q) = (v - x) + 1
          /\ \A k \in 1..Len(q) : q[k] = s[(x + k) - 1]
    BY ONLY <2>5, s \in Seq(Char), x \in Nat, v \in Nat, SliceIs
  <2>8. Len(p) = Len(q)
    BY ONLY <2>5, <2>6, <2>7
  <2>9. ASSUME NEW k \in 1..Len(p)
        PROVE  q[k] = p[k]
    <3>1. k \in 1..(z - y) + 1 /\ k \in 1..Len(q)
      BY ONLY <2>6, <2>8, k \in 1..Len(p)
    <3>2. (y + k) - 1 \in 1..Len(w) /\ (x + k) - 1 = g + ((y + k) - 1)
      <4>1. Len(w) \in Nat
        BY ONLY <2>3
      <4>2. QED
        BY ONLY <2>4, <3>1, <4>1, g \in Nat, y \in Nat, z \in Nat, x \in Nat
    <3>3. p[k] = w[(y + k) - 1] /\ q[k] = s[g + ((y + k) - 1)]
      BY ONLY <2>6, <2>7, <3>1, <3>2, k \in 1..Len(p)
    <3>4. w[(y + k) - 1] = s[g + ((y + k) - 1)]
      BY ONLY <2>3, <3>2
    <3>5. QED
      BY ONLY <3>3, <3>4
  <2>10. q = p
    BY ONLY <2>8, <2>9, p \in Seq(Char), q \in Seq(Char), SeqEqual
  <2>11. QED
    BY ONLY <2>2, <2>6, <2>7, <2>10
<1>13. f + m < Len(d)
  BY ONLY <1>1, <1>2, <1>6
<1>14. d \in Seq(Sign)
  OBVIOUS
<1>15. Passed(SubSeq(s, (f + n) + 1, f + m))
  BY ONLY <1>3, <1>12
<1>16. KeptAround(s, f + n, f + m, d)
  BY ONLY <1>8, <1>9, <1>10, <1>11, <1>13, <1>14, <1>15 DEF KeptAround
<1>17. QED
  BY ONLY <1>4, <1>5, <1>16

-----------------------------------------------------------------------------
(***************************************************************************)
(* The same in the words of TextIsKept.                                    *)
(***************************************************************************)
LEMMA PrefixMarks ==
  ASSUME NEW v \in Seq(Sign), NEW d \in Seq(Sign), Len(v) <= Len(d),
         \A k \in 1..Len(v) : d[k] = v[k],
         \A k \in Len(v) + 1 .. Len(d) : d[k] \in Marks
  PROVE  OnlyMarksAfter(v, d)
<1>1. PICK n \in Nat : n = Len(v)
  OBVIOUS
<1>2. n \in 0..Len(v) /\ n \in 0..Len(d) /\ Len(d) \in Nat
  BY <1>1
<1>3. SubSeq(v, 1, n) = SubSeq(d, 1, n)
  <2>1. PICK a \in Seq(Sign) :
          /\ a = SubSeq(v, 1, n) /\ Len(a) = n
          /\ \A k \in 1..n : a[k] = v[k]
    <3>1. /\ SubSeq(v, 1, n) \in Seq(Sign) /\ Len(SubSeq(v, 1, n)) = n
          /\ \A k \in 1..n : SubSeq(v, 1, n)[k] = v[k]
      BY ONLY <1>2, v \in Seq(Sign), HeadPartIs
    <3>2. QED
      BY ONLY <3>1
  <2>2. PICK b \in Seq(Sign) :
          /\ b = SubSeq(d, 1, n) /\ Len(b) = n
          /\ \A k \in 1..n : b[k] = d[k]
    <3>1. /\ SubSeq(d, 1, n) \in Seq(Sign) /\ Len(SubSeq(d, 1, n)) = n
          /\ \A k \in 1..n : SubSeq(d, 1, n)[k] = d[k]
      BY ONLY <1>2, d \in Seq(Sign), HeadPartIs
    <3>2. QED
      BY ONLY <3>1
  <2>3. \A k \in 1..n : d[k] = v[k]
    BY <1>1
  <2>4. Len(a) = Len(b) /\ \A k \in 1..Len(a) : a[k] = b[k]
    BY ONLY <2>1, <2>2, <2>3
  <2>5. a = b
    BY <2>4, SeqEqual
  <2>6. QED
    BY ONLY <2>1, <2>2, <2>5
<1>4. Sequence!IsPrefix(v, d)
  BY <1>1, <1>3 DEF Sequence!IsPrefix
<1>5. Range(From(d, n)) \subseteq Marks
  <2>1. PICK r \in Seq(Sign) :
          /\ r = From(d, n) /\ Len(r) = Len(d) - n
          /\ \A k \in 1..Len(d) - n : r[k] = d[n + k]
    <3>1. /\ From(d, n) \in Seq(Sign) /\ Len(From(d, n)) = Len(d) - n
          /\ \A k \in 1..Len(d) - n : From(d, n)[k] = d[n + k]
      BY ONLY <1>2, d \in Seq(Sign), RestIs
    <3>2. QED
      BY ONLY <3>1
  <2>2. DOMAIN r = 1..Len(d) - n
    BY <2>1
  <2>3. ASSUME NEW k \in 1..Len(d) - n
        PROVE  r[k] \in Marks
    <3>1. n + k \in Len(v) + 1 .. Len(d)
      BY <1>1, <1>2
    <3>2. d[n + k] \in Marks
      BY <3>1
    <3>3. QED
      BY <2>1, <3>2
  <2>4. QED
    BY <2>1, <2>2, <2>3 DEF Range
<1>6. QED
  BY <1>1, <1>4, <1>5 DEF OnlyMarksAfter

(***************************************************************************)
(* Of a text that is kept, without an underscore put in.                   *)
(***************************************************************************)
LEMMA KeptMarks ==
  ASSUME NEW s \in Seq(Sign), NEW m \in 0..Len(s), NEW d, Kept(s, m, d)
  PROVE  OnlyMarksAfter(SubSeq(s, 1, m), d)
<1>1. PICK v \in Seq(Sign) :
        /\ v = SubSeq(s, 1, m) /\ Len(v) = m
        /\ \A k \in 1..m : v[k] = s[k]
  <2>1. /\ SubSeq(s, 1, m) \in Seq(Sign) /\ Len(SubSeq(s, 1, m)) = m
        /\ \A k \in 1..m : SubSeq(s, 1, m)[k] = s[k]
    BY HeadPartIs
  <2>2. QED
    BY ONLY <2>1
<1>2. /\ d \in Seq(Sign) /\ m <= Len(d)
      /\ \A k \in 1..m : d[k] = s[k]
      /\ \A k \in m + 1 .. Len(d) : d[k] \in Marks
  BY DEF Kept
<1>3. /\ Len(v) <= Len(d) /\ \A k \in 1..Len(v) : d[k] = v[k]
      /\ \A k \in Len(v) + 1 .. Len(d) : d[k] \in Marks
  BY ONLY <1>1, <1>2
<1>4. OnlyMarksAfter(v, d)
  BY ONLY <1>2, <1>3, v \in Seq(Sign), PrefixMarks
<1>5. QED
  BY ONLY <1>1, <1>4

(***************************************************************************)
(* With one.                                                               *)
(***************************************************************************)
LEMMA AroundMarks ==
  ASSUME NEW s \in Seq(Sign), NEW m \in 0..Len(s), NEW n \in 0..m, NEW d,
         KeptAround(s, n, m, d)
  PROVE  OnlyMarksAfter(SubSeq(s, 1, n) \o <<"_">> \o SubSeq(s, n + 1, m), d)
<1>1. m \in Nat /\ n \in Nat /\ n <= m /\ Len(s) \in Nat /\ m <= Len(s)
      /\ n \in 0..Len(s)
  OBVIOUS
<1>2. /\ d \in Seq(Sign) /\ m < Len(d)
      /\ \A k \in 1..n : d[k] = s[k]
      /\ d[n + 1] = "_"
      /\ \A k \in n + 1 .. m : d[k + 1] = s[k]
      /\ \A k \in m + 2 .. Len(d) : d[k] \in Marks
  BY DEF KeptAround
<1>3. PICK v \in Seq(Sign) :
        /\ v = SubSeq(s, 1, m) /\ Len(v) = m
        /\ \A k \in 1..m : v[k] = s[k]
  <2>1. /\ SubSeq(s, 1, m) \in Seq(Sign) /\ Len(SubSeq(s, 1, m)) = m
        /\ \A k \in 1..m : SubSeq(s, 1, m)[k] = s[k]
    BY HeadPartIs
  <2>2. QED
    BY ONLY <2>1
<1>4. PICK u \in Seq(Sign) :
        /\ u = WithUnderscore(v, n)
        /\ Len(u) = Len(v) + 1
        /\ \A k \in 1..n : u[k] = v[k]
        /\ u[n + 1] = "_"
        /\ \A k \in n + 1 .. Len(v) : u[k + 1] = v[k]
  <2>1. n \in 0..Len(v) /\ v \in Seq(Sign)
    BY <1>3
  <2>2. QED
    BY ONLY <2>1, PutIn
<1>5. SubSeq(v, 1, n) = SubSeq(s, 1, n) /\ From(v, n) = SubSeq(s, n + 1, m)
  <2>1. SubSeq(SubSeq(s, 1, m), 1, n) = SubSeq(s, 1, n)
    BY ONLY <1>1, s \in Seq(Sign)
  <2>2. SubSeq(SubSeq(s, 1, m), n + 1, m) = SubSeq(s, n + 1, m)
    BY ONLY <1>1, s \in Seq(Sign)
  <2>3. QED
    BY ONLY <1>3, <2>1, <2>2 DEF From
<1>6. u = SubSeq(s, 1, n) \o <<"_">> \o SubSeq(s, n + 1, m)
  BY ONLY <1>4, <1>5 DEF WithUnderscore
<1>7. Len(u) = m + 1
  BY ONLY <1>3, <1>4
<1>8. ASSUME NEW k \in 1..Len(u)
      PROVE  d[k] = u[k]
  <2>1. CASE k <= n
    <3>1. k \in 1..n /\ k \in 1..m
      BY ONLY <1>1, <1>7, <2>1, k \in 1..Len(u)
    <3>2. QED
      BY ONLY <1>2, <1>3, <1>4, <3>1
  <2>2. CASE k = n + 1
    BY ONLY <1>2, <1>4, <2>2
  <2>3. CASE k > n + 1
    <3>1. k - 1 \in n + 1 .. m /\ k - 1 \in 1..m /\ (k - 1) + 1 = k
      BY ONLY <1>1, <1>7, <2>3, k \in 1..Len(u)
    <3>2. d[(k - 1) + 1] = s[k - 1]
      BY ONLY <1>2, <3>1
    <3>3. u[(k - 1) + 1] = v[k - 1]
      BY ONLY <1>3, <1>4, <3>1
    <3>4. QED
      BY ONLY <1>3, <3>1, <3>2, <3>3
  <2>4. k \in Nat
    BY ONLY <1>1, <1>7, k \in 1..Len(u)
  <2>5. QED
    BY ONLY <1>1, <2>1, <2>2, <2>3, <2>4
<1>9. Len(u) <= Len(d) /\ \A k \in Len(u) + 1 .. Len(d) : d[k] \in Marks
  <2>1. d \in Seq(Sign)
    BY ONLY <1>2
  <2>2. Len(d) \in Nat /\ (m + 1) + 1 = m + 2
    BY ONLY <1>1, <2>1
  <2>3. m < Len(d)
    BY ONLY <1>2
  <2>4. Len(u) <= Len(d) /\ Len(u) + 1 = m + 2
    BY ONLY <1>1, <1>7, <2>2, <2>3
  <2>5. QED
    BY ONLY <1>2, <2>4
<1>10. OnlyMarksAfter(u, d)
  BY ONLY <1>2, <1>8, <1>9, u \in Seq(Sign), PrefixMarks
<1>11. QED
  BY ONLY <1>6, <1>10

-----------------------------------------------------------------------------
(***************************************************************************)
(* A text that does not end with a space, or that ends with two.           *)
(***************************************************************************)
NoLoneSpace(s) ==
  Len(s) >= 1 /\ s[Len(s)] = " " => Len(s) >= 2 /\ s[Len(s) - 1] = " "

(***************************************************************************)
(* trim_trailing_single_space leaves such a text as it is.                 *)
(***************************************************************************)
LEMMA NothingToTrim ==
  ASSUME NEW s \in Seq(Char), NoLoneSpace(s)
  PROVE  WithoutSingleSpace(s) = s
<1>1. s \in Seq(Sign)
  BY DEF Sign
<1>2. EndsWith(s, <<" ">>) <=> Len(s) >= 1 /\ s[Len(s)] = " "
  BY ONLY <1>1, EndsWithOne
<1>3. EndsWith(s, <<" ", " ">>)
        <=> Len(s) >= 2 /\ s[Len(s) - 1] = " " /\ s[Len(s)] = " "
  BY ONLY <1>1, EndsWithTwo
<1>4. QED
  BY <1>2, <1>3 DEF NoLoneSpace, WithoutSingleSpace

(***************************************************************************)
(* And it makes such a text of any other.                                  *)
(***************************************************************************)
LEMMA TrimIs ==
  ASSUME NEW t \in Seq(Char)
  PROVE  WithoutSingleSpace(t) \in Seq(Char) /\ NoLoneSpace(WithoutSingleSpace(t))
<1>1. t \in Seq(Sign) /\ Len(t) \in Nat
  BY DEF Sign
<1>2. EndsWith(t, <<" ">>) <=> Len(t) >= 1 /\ t[Len(t)] = " "
  BY ONLY <1>1, EndsWithOne
<1>3. EndsWith(t, <<" ", " ">>)
        <=> Len(t) >= 2 /\ t[Len(t) - 1] = " " /\ t[Len(t)] = " "
  BY ONLY <1>1, EndsWithTwo
<1>4. CASE EndsWith(t, <<" ">>) /\ ~EndsWith(t, <<" ", " ">>)
  <2>1. Len(t) - 1 \in 0..Len(t)
    <3>1. Len(t) >= 1
      BY ONLY <1>2, <1>4
    <3>2. Len(t) \in Nat
      BY ONLY <1>1
    <3>3. QED
      BY ONLY <3>1, <3>2
  <2>2. PICK s \in Seq(Char) :
          /\ s = SubSeq(t, 1, Len(t) - 1) /\ Len(s) = Len(t) - 1
          /\ \A k \in 1..Len(t) - 1 : s[k] = t[k]
    <3>1. /\ SubSeq(t, 1, Len(t) - 1) \in Seq(Char)
          /\ Len(SubSeq(t, 1, Len(t) - 1)) = Len(t) - 1
          /\ \A k \in 1..Len(t) - 1 : SubSeq(t, 1, Len(t) - 1)[k] = t[k]
      BY ONLY <2>1, t \in Seq(Char), HeadPartIs
    <3>2. QED
      BY ONLY <3>1
  <2>3. WithoutSingleSpace(t) = s
    BY <1>4, <2>2 DEF WithoutSingleSpace, Sequence!Front
  <2>4. NoLoneSpace(s)
    <3>1. ASSUME Len(s) >= 1 /\ s[Len(s)] = " "
          PROVE  FALSE
      <4>1. Len(t) >= 2 /\ Len(t) - 1 \in 1..Len(t) - 1
        <5>1. Len(s) = Len(t) - 1 /\ Len(s) >= 1
          BY ONLY <2>2, <3>1
        <5>2. Len(t) \in Nat
          BY ONLY <1>1
        <5>3. QED
          BY ONLY <5>1, <5>2
      <4>2. t[Len(t) - 1] = " "
        BY ONLY <2>2, <3>1, <4>1
      <4>3. QED
        BY ONLY <1>2, <1>3, <1>4, <4>1, <4>2
    <3>2. QED
      BY <3>1 DEF NoLoneSpace
  <2>5. QED
    BY <2>3, <2>4
<1>5. CASE ~(EndsWith(t, <<" ">>) /\ ~EndsWith(t, <<" ", " ">>))
  <2>1. WithoutSingleSpace(t) = t
    BY <1>5 DEF WithoutSingleSpace
  <2>2. NoLoneSpace(t)
    BY ONLY <1>2, <1>3, <1>5 DEF NoLoneSpace
  <2>3. QED
    BY <2>1, <2>2
<1>6. QED
  BY <1>4, <1>5

(***************************************************************************)
(* tail_window: two spaces at the end fit into a window of two bytes.      *)
(***************************************************************************)
LEMMA WindowIs ==
  ASSUME WindowBytes >= 2, NEW s \in Seq(Char), NoLoneSpace(s)
  PROVE  WindowStart(s) \in 0..Len(s) /\ NoLoneSpace(From(s, WindowStart(s)))
<1> DEFINE S == {n \in 0..Len(s) : BytesOf(From(s, n)) <= WindowBytes}
<1>1. Len(s) \in Nat /\ WindowBytes \in Nat
  <2>1. Len(s) \in Nat
    OBVIOUS
  <2>2. WindowBytes \in Nat
    BY ONLY TerminatorAssumption
  <2>3. QED
    BY ONLY <2>1, <2>2
<1>2. Len(s) \in S
  <2>1. Len(s) \in 0..Len(s) /\ Len(s) - Len(s) = 0
    BY <1>1
  <2>2. From(s, Len(s)) \in Seq(Char) /\ Len(From(s, Len(s))) = 0
    BY ONLY <2>1, s \in Seq(Char), RestIs
  <2>3. From(s, Len(s)) = <<>>
    BY <2>2
  <2>4. BytesOf(From(s, Len(s))) = 0
    BY ONLY <2>3, BytesEmpty
  <2>5. 0 <= WindowBytes
    BY <1>1
  <2>6. QED
    BY <2>1, <2>4, <2>5
<1>3. WindowStart(s) \in S /\ \A n \in S : WindowStart(s) <= n
  <2>1. S \subseteq Nat /\ S # {}
    BY <1>2
  <2>2. WindowStart(s) = Min(S)
    BY DEF WindowStart
  <2> HIDE DEF S
  <2>3. QED
    BY <2>1, <2>2, MinOf
<1>4. PICK f \in 0..Len(s) : f = WindowStart(s)
  BY <1>3
<1>5. PICK w \in Seq(Char) :
        /\ w = From(s, f) /\ Len(w) = Len(s) - f
        /\ \A k \in 1..Len(s) - f : w[k] = s[f + k]
  <2>1. /\ From(s, f) \in Seq(Char) /\ Len(From(s, f)) = Len(s) - f
        /\ \A k \in 1..Len(s) - f : From(s, f)[k] = s[f + k]
    BY ONLY s \in Seq(Char), f \in 0..Len(s), RestIs
  <2>2. QED
    BY ONLY <2>1
<1>6. ASSUME Len(w) >= 1 /\ w[Len(w)] = " "
      PROVE  Len(w) >= 2 /\ w[Len(w) - 1] = " "
  <2>1. /\ f \in Nat /\ Len(w) \in 1..Len(s) - f /\ f + Len(w) = Len(s)
        /\ Len(s) >= 1
    <3>1. Len(s) \in Nat
      BY ONLY <1>1
    <3>2. Len(w) = Len(s) - f
      BY ONLY <1>5
    <3>3. Len(w) >= 1
      BY ONLY <1>6
    <3>4. QED
      BY ONLY <3>1, <3>2, <3>3, f \in 0..Len(s)
  <2>2. s[Len(s)] = " "
    BY ONLY <1>5, <1>6, <2>1
  <2>3. Len(s) >= 2 /\ s[Len(s) - 1] = " "
    BY <2>1, <2>2 DEF NoLoneSpace
  <2>13. Len(s) \in Nat /\ Len(s) >= 2
    BY ONLY <1>1, <2>3
  <2>4. PICK a \in Nat : a = Len(s) - 1
    BY ONLY <2>13
  <2>5. /\ a \in 1..Len(s) /\ a + 1 = Len(s) /\ 1 <= a /\ a <= a + 1
        /\ a <= a + 1 /\ a + 1 <= Len(s) /\ a + 1 \in Nat /\ a + 1 \in 1..Len(s)
        /\ a - 1 \in 0..Len(s) /\ (a - 1) + 1 = a
    BY ONLY <2>4, <2>13
  <2>6. BytesOf(SubSeq(s, a, a + 1)) = 2
    <3>1. BytesOf(SubSeq(s, a, a + 1))
            = BytesOf(SubSeq(s, a, a)) + BytesOf(SubSeq(s, a + 1, a + 1))
      BY ONLY <2>5, a \in Nat, s \in Seq(Char), SliceBytes
    <3>2. BytesOf(SubSeq(s, a, a)) = Bytes[s[a]]
      BY ONLY <2>5, s \in Seq(Char), SliceOne
    <3>3. BytesOf(SubSeq(s, a + 1, a + 1)) = Bytes[s[a + 1]]
      BY ONLY <2>5, s \in Seq(Char), SliceOne
    <3>4. s[a] = " " /\ s[a + 1] = " "
      BY ONLY <2>2, <2>3, <2>4, <2>5
    <3>5. " " \in Char
      <4>1. s[a] \in Char
        BY ONLY <2>5, s \in Seq(Char)
      <4>2. QED
        BY ONLY <3>4, <4>1
    <3>6. Bytes[" "] = 1
      BY ONLY <3>5, TerminatorAssumption
    <3>7. QED
      <4>1. BytesOf(SubSeq(s, a, a)) = 1 /\ BytesOf(SubSeq(s, a + 1, a + 1)) = 1
        BY ONLY <3>2, <3>3, <3>4, <3>6
      <4>2. QED
        BY ONLY <3>1, <4>1
  <2>7. From(s, a - 1) = SubSeq(s, a, a + 1)
    BY ONLY <2>5 DEF From
  <2>8. a - 1 \in S
    BY <2>5, <2>6, <2>7
  <2>9. f <= a - 1
    BY ONLY <1>3, <1>4, <2>8
  <2>10. Len(w) >= 2 /\ Len(w) - 1 \in 1..Len(s) - f /\ f + (Len(w) - 1) = a
    BY ONLY <1>1, <1>5, <2>1, <2>4, <2>9, a \in Nat
  <2>11. w[Len(w) - 1] = s[a]
    BY ONLY <1>5, <2>10
  <2>12. QED
    BY ONLY <2>3, <2>4, <2>10, <2>11
<1>7. NoLoneSpace(w)
  BY ONLY <1>6 DEF NoLoneSpace
<1>8. QED
  BY <1>4, <1>5, <1>7

(***************************************************************************)
(* What terminate_markdown does to any text.                               *)
(***************************************************************************)
LEMMA TerminateKeeps ==
  ASSUME WindowBytes >= 2, NEW t \in Seq(Char)
  PROVE  LET s == WithoutSingleSpace(t)
         IN  \E m \in WindowStart(s)..Len(s) :
               /\ Lost(s, m)
               /\ \/ OnlyMarksAfter(SubSeq(s, 1, m), Terminate(t))
                  \/ \E n \in WindowStart(s)..m :
                       /\ Passed(SubSeq(s, n + 1, m))
                       /\ OnlyMarksAfter(SubSeq(s, 1, n) \o <<"_">>
                                            \o SubSeq(s, n + 1, m), Terminate(t))
<1>1. PICK s \in Seq(Char) : s = WithoutSingleSpace(t) /\ NoLoneSpace(s)
  BY TrimIs
<1>2. PICK f \in 0..Len(s) : f = WindowStart(s) /\ NoLoneSpace(From(s, f))
  BY <1>1, WindowIs
<1>3. PICK w \in Seq(Char) :
        /\ w = From(s, f) /\ Len(w) = Len(s) - f
        /\ \A k \in 1..Len(s) - f : w[k] = s[f + k]
  <2>1. /\ From(s, f) \in Seq(Char) /\ Len(From(s, f)) = Len(s) - f
        /\ \A k \in 1..Len(s) - f : From(s, f)[k] = s[f + k]
    BY ONLY s \in Seq(Char), f \in 0..Len(s), RestIs
  <2>2. QED
    BY ONLY <2>1
<1>4. IsRest(s, f, w)
  <2>1. s \in Seq(Sign) /\ w \in Seq(Sign)
    BY DEF Sign
  <2>2. Len(s) \in Nat /\ Len(w) \in Nat /\ f \in Nat
    BY <1>3
  <2>3. \A k \in 1..Len(w) : w[k] = s[f + k]
    BY ONLY <1>3
  <2>4. f \in 0..Len(s) /\ w = From(s, f) /\ Len(w) = Len(s) - f
    BY <1>3
  <2>5. QED
    BY ONLY <2>1, <2>2, <2>3, <2>4 DEF IsRest
<1>5. WithoutSingleSpace(w) = w
  BY <1>2, <1>3, NothingToTrim
<1>6. PICK m \in 0..Len(w) : Lost(w, m) /\ Good(w, m, TerminateTail(w))
  BY <1>5, TailGood
<1>7. f + m \in f..Len(s) /\ Lost(s, f + m)
  BY <1>4, <1>6, LostInWhole
<1>8. PICK d : d = SubSeq(s, 1, f) \o TerminateTail(w)
  OBVIOUS
<1>9. Terminate(t) = d
  BY <1>1, <1>2, <1>3, <1>8 DEF Terminate
<1>10. s \in Seq(Sign) /\ Len(s) \in Nat /\ f \in Nat /\ m \in Nat /\ f + m \in 0..Len(s)
  <2>1. s \in Seq(Sign) /\ Len(s) \in Nat
    BY DEF Sign
  <2>2. QED
    BY <1>7, <2>1
<1>11. CASE Kept(w, m, TerminateTail(w))
  <2>1. Kept(s, f + m, d)
    BY <1>4, <1>8, <1>11, KeptInWhole
  <2>2. OnlyMarksAfter(SubSeq(s, 1, f + m), d)
    BY ONLY <1>10, <2>1, KeptMarks
  <2>3. QED
    BY <1>1, <1>2, <1>7, <1>9, <2>2
<1>12. CASE ~Kept(w, m, TerminateTail(w))
  <2>1. PICK n \in 0..m : KeptAround(w, n, m, TerminateTail(w))
    BY <1>6, <1>12 DEF Good
  <2>2. KeptAround(s, f + n, f + m, d)
    BY <1>4, <1>8, <2>1, AroundInWhole
  <2>3. f + n \in f..f + m /\ f + n \in 0..f + m
    BY <1>10
  <2>4. OnlyMarksAfter(SubSeq(s, 1, f + n) \o <<"_">>
                         \o SubSeq(s, (f + n) + 1, f + m), d)
    BY ONLY <1>10, <2>2, <2>3, AroundMarks
  <2>5. Passed(SubSeq(s, (f + n) + 1, f + m))
    BY ONLY <2>2 DEF KeptAround
  <2>6. QED
    BY <1>1, <1>2, <1>7, <1>9, <2>3, <2>4, <2>5
<1>13. QED
  BY <1>11, <1>12

(***************************************************************************)
(* The display loses nothing of the pending text but what is not complete, *)
(* and adds nothing but markers, for every text, every chunking of it and  *)
(* every choice of repairs, if the window has room for two spaces.         *)
(***************************************************************************)
THEOREM TextStaysKept ==
  ASSUME WindowBytes >= 2
  PROVE  Spec => []TextIsKept
<1>1. ScanInv => TextIsKept
  <2>1. SUFFICES ASSUME ScanInv
                 PROVE  TextIsKept
    OBVIOUS
  <2>2. start \in Nat
    BY <2>1 DEF ScanInv
  <2>3. OffsetOf(start) \in 0..Len(buffer)
    BY <2>1, <2>2, OffsetType
  <2>5. Pending \in Seq(Char)
    <3>1. buffer \in Seq(Char)
      BY <2>1 DEF ScanInv
    <3>2. QED
      BY <2>3, <3>1, FromType DEF Pending
  <2>4. QED
    BY <2>5, TerminateKeeps DEF TextIsKept, Display
<1>2. QED
  BY <1>1, ScanInvHolds, PTL

-----------------------------------------------------------------------------
(***************************************************************************)
(* A text that ends with a letter.                                         *)
(***************************************************************************)
EndsInWord(w) ==
  /\ w \in Seq(Char) /\ Len(w) \in Nat /\ Len(w) >= 1
  /\ w[Len(w)] \in WordChar \ {"_"}

(***************************************************************************)
(* A letter is no marker.                                                  *)
(***************************************************************************)
LEMMA LetterIs ==
  ASSUME NEW c \in WordChar \ {"_"}
  PROVE  c \notin {" ", "LF", "_", "*", "~", "tick", "$", "-", "=", "none"}
<1>1. /\ WordChar \subseteq Char /\ "none" \notin Char
      /\ WordChar \cap {" ", "LF", "*", "~", "tick", "$", "-", "="} = {}
  BY ONLY TerminatorAssumption
<1>2. QED
  BY <1>1

(***************************************************************************)
(* Where two characters in a row occur.                                    *)
(***************************************************************************)
LEMMA PairAt ==
  ASSUME NEW s \in Seq(Sign), NEW i, NEW c
  PROVE  i \in Occurs(s, <<c, c>>)
           <=> i \in 1..Len(s) - 1 /\ s[i] = c /\ s[i + 1] = c
<1>1. Len(s) \in Nat /\ Len(<<c, c>>) = 2
  OBVIOUS
<1>2. i \in Occurs(s, <<c, c>>)
        <=> i \in 1..Len(s) - 2 + 1 /\ SubSeq(s, i, i + 2 - 1) = <<c, c>>
  BY <1>1 DEF Occurs
<1>3. Len(s) - 2 + 1 = Len(s) - 1
  BY <1>1
<1>4. ASSUME i \in 1..Len(s) - 1
      PROVE  SubSeq(s, i, i + 2 - 1) = <<c, c>> <=> s[i] = c /\ s[i + 1] = c
  <2>1. i + 2 - 1 = i + 1
    BY <1>4
  <2>2. SubSeq(s, i, i + 1) = <<s[i], s[i + 1]>>
    BY <1>4, TwoAt
  <2>3. \A a, b, e, d : <<a, b>> = <<e, d>> <=> a = e /\ b = d
    OBVIOUS
  <2>4. QED
    BY ONLY <2>1, <2>2, <2>3
<1>5. QED
  BY <1>2, <1>3, <1>4

(***************************************************************************)
(* Where three characters in a row occur.                                  *)
(***************************************************************************)
LEMMA TripleAt ==
  ASSUME NEW s \in Seq(Sign), NEW i, NEW c
  PROVE  i \in Occurs(s, <<c, c, c>>)
           <=> i \in 1..Len(s) - 2 /\ s[i] = c /\ s[i + 1] = c /\ s[i + 2] = c
<1>1. Len(s) \in Nat /\ Len(<<c, c, c>>) = 3
  OBVIOUS
<1>2. i \in Occurs(s, <<c, c, c>>)
        <=> i \in 1..Len(s) - 3 + 1 /\ SubSeq(s, i, i + 3 - 1) = <<c, c, c>>
  BY <1>1 DEF Occurs
<1>3. Len(s) - 3 + 1 = Len(s) - 2
  BY <1>1
<1>4. ASSUME i \in 1..Len(s) - 2
      PROVE  SubSeq(s, i, i + 3 - 1) = <<c, c, c>>
               <=> s[i] = c /\ s[i + 1] = c /\ s[i + 2] = c
  <2>1. i \in Nat /\ 1 <= i /\ i + 2 <= Len(s) /\ i + 3 - 1 = i + 2
    BY <1>1, <1>4
  <2>2. PICK p : p = SubSeq(s, i, i + 2)
    OBVIOUS
  <2>3. /\ p \in Seq(Sign) /\ Len(p) = 3 /\ p[1] = s[i] /\ p[2] = s[i + 1]
        /\ p[3] = s[i + 2]
    <3>1. \A k \in i..i + 2 : s[k] \in Sign
      BY <1>1, <2>1
    <3>2. SubSeq(s, i, i + 2) \in Seq(Sign)
      BY <1>1, <2>1, <3>1, SubSeqProperties
    <3>3. Len(SubSeq(s, i, i + 2)) = 3
      BY <1>1, <2>1
    <3>4. /\ SubSeq(s, i, i + 2)[1] = s[i] /\ SubSeq(s, i, i + 2)[2] = s[i + 1]
          /\ SubSeq(s, i, i + 2)[3] = s[i + 2]
      BY <1>1, <2>1
    <3>5. QED
      BY ONLY <2>2, <3>2, <3>3, <3>4
  <2>4. p = <<p[1], p[2], p[3]>>
    BY <2>3
  <2>5. \A a, b, e : <<a, b, e>> = <<c, c, c>> <=> a = c /\ b = c /\ e = c
    OBVIOUS
  <2>6. QED
    BY ONLY <2>1, <2>2, <2>3, <2>4, <2>5
<1>5. QED
  BY ONLY <1>2, <1>3, <1>4

(***************************************************************************)
(* Where one character occurs.                                             *)
(***************************************************************************)
LEMMA OneAt ==
  ASSUME NEW s \in Seq(Sign), NEW i, NEW c
  PROVE  i \in Occurs(s, <<c>>) <=> i \in 1..Len(s) /\ s[i] = c
<1>1. Len(s) \in Nat /\ Len(<<c>>) = 1
  OBVIOUS
<1>2. i \in Occurs(s, <<c>>)
        <=> i \in 1..Len(s) - 1 + 1 /\ SubSeq(s, i, i + 1 - 1) = <<c>>
  BY <1>1 DEF Occurs
<1>3. Len(s) - 1 + 1 = Len(s)
  BY <1>1
<1>4. ASSUME i \in 1..Len(s)
      PROVE  SubSeq(s, i, i + 1 - 1) = <<c>> <=> s[i] = c
  <2>1. i \in Nat /\ i + 1 - 1 = i /\ 1 <= i /\ i <= Len(s)
    BY <1>1, <1>4
  <2>2. PICK p : p = SubSeq(s, i, i)
    OBVIOUS
  <2>3. p \in Seq(Sign) /\ Len(p) = 1 /\ p[1] = s[i]
    <3>1. \A k \in i..i : s[k] \in Sign
      BY <1>1, <2>1
    <3>2. SubSeq(s, i, i) \in Seq(Sign)
      BY <1>1, <2>1, <3>1, SubSeqProperties
    <3>3. Len(SubSeq(s, i, i)) = 1
      BY <1>1, <2>1
    <3>4. SubSeq(s, i, i)[1] = s[i]
      BY <1>1, <2>1
    <3>5. QED
      BY ONLY <2>2, <3>2, <3>3, <3>4
  <2>4. p = <<p[1]>>
    BY <2>3
  <2>5. \A a : <<a>> = <<c>> <=> a = c
    OBVIOUS
  <2>6. QED
    BY ONLY <2>1, <2>2, <2>3, <2>4, <2>5
<1>5. QED
  BY ONLY <1>2, <1>3, <1>4

(***************************************************************************)
(* Without three backticks in a row there is no block of code.             *)
(***************************************************************************)
LEMMA NoBlock ==
  ASSUME NEW s, Occurs(s, Ticks) = {}
  PROVE  /\ Matches(s, Ticks) = {} /\ ~OddMatches(s, Ticks)
         /\ \A i : ~InBlock(s, i)
         /\ \A i : ~PartOfTicks(s, i)
         /\ ~InlineTriple(s) /\ ~InOpenBlock(s)
<1>1. Matches(s, Ticks) = {}
  BY DEF Matches
<1>2. Cardinality({}) % 2 = 0
  BY FS_EmptySet
<1>3. ~OddMatches(s, Ticks)
  BY <1>1, <1>2 DEF OddMatches
<1>4. ASSUME NEW i
      PROVE  ~InBlock(s, i)
  <2>1. {m \in Matches(s, Ticks) : m < i} = {}
    BY <1>1
  <2>2. QED
    BY <1>2, <2>1 DEF InBlock
<1>5. \A i : ~PartOfTicks(s, i)
  BY DEF PartOfTicks
<1>6. ~InlineTriple(s)
  BY DEF InlineTriple
<1>7. QED
  BY <1>1, <1>3, <1>4, <1>5, <1>6 DEF InOpenBlock

(***************************************************************************)
(* Without a backtick there is no code.                                    *)
(***************************************************************************)
LEMMA NoCode ==
  ASSUME NEW s \in Seq(Sign), ~Has(s, "tick")
  PROVE  /\ Occurs(s, Ticks) = {} /\ \A i \in Nat : i <= Len(s) + 1 => ~InCode(s, i)
         /\ CloseInlineCode(s) = s
<1>1. Len(s) \in Nat /\ \A i \in 1..Len(s) : s[i] # "tick"
  BY DEF Has
<1>2. Occurs(s, Ticks) = {}
  <2>1. ASSUME NEW i \in Occurs(s, Ticks)
        PROVE  FALSE
    <3>1. i \in 1..Len(s) - 2 /\ s[i] = "tick"
      BY TripleAt DEF Ticks
    <3>2. i \in 1..Len(s)
      BY <1>1, <3>1
    <3>3. QED
      BY <1>1, <3>1, <3>2
  <2>2. QED
    BY <2>1
<1>3. ASSUME NEW i \in Nat, i <= Len(s) + 1
      PROVE  ~InCode(s, i)
  <2>1. {k \in 1..i - 1 : /\ s[k] = "tick" /\ ~InBlock(s, k)
                          /\ \A m \in Matches(s, Ticks) : k \notin m..m + 2} = {}
    <3>1. \A k \in 1..i - 1 : k \in 1..Len(s)
      BY <1>1, <1>3
    <3>2. QED
      BY ONLY <1>1, <3>1
  <2>2. Cardinality({}) = 0 /\ ~(0 % 2 = 1)
    BY FS_EmptySet
  <2>3. ~InInline(s, i)
    BY ONLY <2>1, <2>2 DEF InInline
  <2>4. QED
    BY <1>2, <2>3, NoBlock DEF InCode
<1>4. CloseInlineCode(s) = s
  <2>1. {i \in DOMAIN s : s[i] = "tick" /\ ~PartOfTicks(s, i)} = {}
    BY <1>1
  <2>2. ~InlineTriple(s)
    BY <1>2, NoBlock
  <2>3. QED
    BY <2>1, <2>2 DEF CloseInlineCode
<1>5. QED
  BY <1>2, <1>3, <1>4

(***************************************************************************)
(* Without a dollar sign there is no mathematics.                          *)
(***************************************************************************)
LEMMA NoMath ==
  ASSUME NEW s \in Seq(Sign), ~Has(s, "$"), NEW i \in 1..Len(s)
  PROVE  ~InMath(s, i)
<1> DEFINE none == [skip |-> FALSE, inline |-> FALSE, block |-> FALSE]
           N == i - 1
           f == [k \in 0..N |-> none]
           g == CHOOSE g : g = [k \in 0..i - 1 |->
                  IF k = 0
                  THEN [skip |-> FALSE, inline |-> FALSE, block |-> FALSE]
                  ELSE ReadMath(s, g[k - 1], k)]
<1>1. N \in Nat /\ Len(s) \in Nat /\ N <= Len(s)
  OBVIOUS
<1>2. ASSUME NEW k \in 1..N
      PROVE  ReadMath(s, none, k) = none
  <2>1. k \in DOMAIN s
    BY <1>1
  <2>2. s[k] # "$" /\ At(s, k + 1) # "$"
    BY <2>1 DEF Has, At
  <2>3. QED
    BY <2>2 DEF ReadMath
<1>3. f = [k \in 0..i - 1 |-> IF k = 0 THEN none ELSE ReadMath(s, f[k - 1], k)]
  <2>1. ASSUME NEW k \in 0..N, k # 0
        PROVE  ReadMath(s, f[k - 1], k) = none
    <3>1. k \in 1..N /\ k - 1 \in 0..N
      BY <1>1, <2>1
    <3>2. f[k - 1] = none
      BY <3>1
    <3>3. QED
      BY <1>2, <3>1, <3>2
  <2> HIDE DEF none
  <2>2. QED
    BY <2>1
<1>4. g = [k \in 0..i - 1 |-> IF k = 0 THEN none ELSE ReadMath(s, g[k - 1], k)]
  BY <1>3
<1>5. MathBefore(s, i) = g[i - 1]
  BY DEF MathBefore
<1> HIDE DEF g
<1>6. \A n \in 0..N : f[n] = g[n]
  <2>1. f[0] = g[0]
    <3>1. 0 \in 0..N
      BY <1>1
    <3>2. g[0] = none
      BY <1>4, <3>1
    <3>3. QED
      BY <3>1, <3>2
  <2>2. ASSUME NEW n \in 1..N, f[n - 1] = g[n - 1]
        PROVE  f[n] = g[n]
    <3>1. n \in 0..N /\ n # 0 /\ n - 1 \in 0..N
      BY <1>1
    <3>2. g[n] = ReadMath(s, g[n - 1], n)
      BY <1>4, <3>1
    <3>3. f[n - 1] = none /\ f[n] = none
      BY <3>1
    <3>4. QED
      BY <1>2, <2>2, <3>2, <3>3
  <2>3. QED
    <3> HIDE DEF f, N
    <3>1. QED
      BY ONLY <1>1, <2>1, <2>2, StepwiseEqual
<1>7. g[i - 1] = none
  <2>1. i - 1 \in 0..N
    BY <1>1
  <2>2. QED
    BY <1>6, <2>1
<1>8. QED
  BY <1>5, <1>7 DEF InMath

-----------------------------------------------------------------------------
(***************************************************************************)
(* A marker that does not occur needs no partner.                          *)
(***************************************************************************)
LEMMA NoOccurrence ==
  ASSUME NEW s, NEW p, Occurs(s, p) = {}
  PROVE  /\ Matches(s, p) = {} /\ ~OddMatches(s, p)
         /\ LastMarker(s, p) = {} /\ InMarkup(s, p) = {}
         /\ ClosePair(s, p) = s
<1>1. Matches(s, p) = {}
  BY DEF Matches
<1>2. Cardinality({}) = 0 /\ ~(0 % 2 = 1)
  BY FS_EmptySet
<1>3. ~OddMatches(s, p)
  BY ONLY <1>1, <1>2 DEF OddMatches
<1>4. LastMarker(s, p) = {}
  BY DEF LastMarker
<1>5. InMarkup(s, p) = {}
  BY <1>4 DEF InMarkup
<1>6. ClosePair(s, p) = s
  BY <1>5 DEF ClosePair
<1>7. QED
  BY <1>1, <1>3, <1>4, <1>5, <1>6

(***************************************************************************)
(* Without a character there are no two or three of it.                    *)
(***************************************************************************)
LEMMA NoneOf ==
  ASSUME NEW s \in Seq(Sign), NEW c, ~Has(s, c)
  PROVE  Occurs(s, <<c, c>>) = {} /\ Occurs(s, <<c, c, c>>) = {}
<1>1. Len(s) \in Nat /\ \A i \in 1..Len(s) : s[i] # c
  BY DEF Has
<1>2. ASSUME NEW i \in Occurs(s, <<c, c>>)
      PROVE  FALSE
  <2>1. i \in 1..Len(s) - 1 /\ s[i] = c
    BY PairAt
  <2>2. i \in 1..Len(s)
    BY ONLY <1>1, <2>1
  <2>3. QED
    BY ONLY <1>1, <2>1, <2>2
<1>3. ASSUME NEW i \in Occurs(s, <<c, c, c>>)
      PROVE  FALSE
  <2>1. i \in 1..Len(s) - 2 /\ s[i] = c
    BY TripleAt
  <2>2. i \in 1..Len(s)
    BY ONLY <1>1, <2>1
  <2>3. QED
    BY ONLY <1>1, <2>1, <2>2
<1>4. QED
  BY ONLY <1>2, <1>3

(***************************************************************************)
(* The repairs of single markers have nothing to close if none counts.     *)
(***************************************************************************)
LEMMA NoneCounts ==
  ASSUME NEW s
  PROVE  /\ Asterisks(s) = {} => CloseAsterisk(s) = s
         /\ Underscores(s) = {} => CloseUnderscore(s) = s
         /\ Occurs(s, Triple) = {} => CloseBoldItalic(s) = s
         /\ Occurs(s, Strike) = {} => CloseStrike(s) = s
<1>1. ASSUME Asterisks(s) = {}
      PROVE  CloseAsterisk(s) = s
  <2>1. {i \in Asterisks(s) : At(s, i + 1) # "*"} = {}
    BY <1>1
  <2>2. QED
    BY <2>1 DEF CloseAsterisk
<1>2. Underscores(s) = {} => CloseUnderscore(s) = s
  BY DEF CloseUnderscore
<1>3. Occurs(s, Triple) = {} => CloseBoldItalic(s) = s
  BY NoOccurrence DEF CloseBoldItalic
<1>4. Occurs(s, Strike) = {} => CloseStrike(s) = s
  BY NoOccurrence DEF CloseStrike
<1>5. QED
  BY ONLY <1>1, <1>2, <1>3, <1>4

-----------------------------------------------------------------------------
(***************************************************************************)
(* balance_katex_block reads the text from the left.                       *)
(***************************************************************************)
NoPairs == [skip |-> FALSE, code |-> FALSE, pairs |-> 0]

PairStates == [skip : BOOLEAN, code : BOOLEAN, pairs : Nat]

ReadsPairs(f, s) ==
  /\ f[0] = NoPairs
  /\ \A n \in 1..Len(s) : f[n - 1] \in PairStates /\ f[n] = ReadPairs(s, f[n - 1], n)
  /\ f[Len(s)] \in PairStates

(***************************************************************************)
(* The recursion has a solution, and its last value counts the pairs.      *)
(***************************************************************************)
LEMMA PairsRead ==
  ASSUME NEW s \in Seq(Sign)
  PROVE  \E f : ReadsPairs(f, s) /\ DollarPairs(s) = f[Len(s)].pairs
<1> DEFINE L == Len(s)
           V == PairStates
           zero == NoPairs
           step == [n \in 1..L |-> [st \in V |-> ReadPairs(s, st, n)]]
           g == CHOOSE g : g = [k \in 0..Len(s) |->
                  IF k = 0 THEN [skip |-> FALSE, code |-> FALSE, pairs |-> 0]
                  ELSE ReadPairs(s, g[k - 1], k)]
<1>1. L \in Nat
  OBVIOUS
<1>2. zero \in V
  BY DEF NoPairs, PairStates
<1>3. ASSUME NEW st \in V, NEW n \in 1..L
      PROVE  ReadPairs(s, st, n) \in V
  <2>1. /\ st = [skip |-> st.skip, code |-> st.code, pairs |-> st.pairs]
        /\ st.skip \in BOOLEAN /\ st.code \in BOOLEAN /\ st.pairs \in Nat
    BY DEF PairStates
  <2>2. [st EXCEPT !.skip = FALSE] \in V
    BY <2>1 DEF PairStates
  <2>3. [st EXCEPT !.code = ~@] \in V
    <3>1. (~st.code) \in BOOLEAN
      OBVIOUS
    <3>2. PICK b \in BOOLEAN : b = ~st.code
      BY <3>1
    <3>3. [st EXCEPT !.code = b] \in V
      BY DEF PairStates
    <3>4. QED
      BY <3>2, <3>3
  <2>4. [st EXCEPT !.skip = TRUE, !.pairs = @ + 1] \in V
    <3>1. PICK x \in Nat : x = st.pairs + 1
      BY <2>1
    <3>2. PICK r : r = [st EXCEPT !.skip = TRUE, !.pairs = x]
      OBVIOUS
    <3>3. r = [skip |-> TRUE, code |-> st.code, pairs |-> x]
      BY ONLY <2>1, <3>2
    <3>4. r \in V
      BY ONLY <2>1, <3>3, x \in Nat DEF PairStates
    <3>5. [st EXCEPT !.skip = TRUE, !.pairs = @ + 1]
            = [st EXCEPT !.skip = TRUE, !.pairs = st.pairs + 1]
      OBVIOUS
    <3>6. QED
      BY ONLY <3>1, <3>2, <3>4, <3>5
  <2>5. QED
    BY ONLY <2>2, <2>3, <2>4, st \in V DEF ReadPairs
<1>4. step \in [1..L -> [V -> V]]
  BY <1>3
<1>5. PICK f : /\ f \in [0..L -> V]
               /\ f[0] = zero
               /\ \A n \in 1..L : f[n] = step[n][f[n - 1]]
  <2>1. L \in Nat /\ zero \in V /\ step \in [1..L -> [V -> V]]
    BY <1>1, <1>2, <1>4
  <2> HIDE DEF step, L, V, zero
  <2>2. QED
    BY ONLY <2>1, RecursionExists
<1>6. ASSUME NEW n \in 1..L
      PROVE  f[n - 1] \in V /\ f[n] = ReadPairs(s, f[n - 1], n)
  <2>1. n - 1 \in 0..L
    BY <1>1
  <2>2. f[n - 1] \in V
    <3> HIDE DEF V
    <3>1. QED
      BY <1>5, <2>1
  <2>3. step[n][f[n - 1]] = ReadPairs(s, f[n - 1], n)
    <3> HIDE DEF V
    <3>1. QED
      BY <2>2
  <2>4. QED
    BY ONLY <1>5, <2>2, <2>3, n \in 1..L
<1>7. f = [k \in 0..Len(s) |->
             IF k = 0 THEN [skip |-> FALSE, code |-> FALSE, pairs |-> 0]
             ELSE ReadPairs(s, f[k - 1], k)]
  <2>1. \A n \in 0..L : n # 0 => n \in 1..L
    BY <1>1
  <2>2. f[0] = [skip |-> FALSE, code |-> FALSE, pairs |-> 0]
    BY <1>5 DEF NoPairs
  <2>3. \A n \in 0..L : f[n] = IF n = 0 THEN [skip |-> FALSE, code |-> FALSE, pairs |-> 0]
                               ELSE ReadPairs(s, f[n - 1], n)
    BY ONLY <1>6, <2>1, <2>2
  <2>4. f = [n \in 0..L |-> f[n]]
    BY ONLY <1>5
  <2>5. QED
    BY ONLY <2>3, <2>4
<1>8. g = [k \in 0..Len(s) |->
             IF k = 0 THEN [skip |-> FALSE, code |-> FALSE, pairs |-> 0]
             ELSE ReadPairs(s, g[k - 1], k)]
  BY ONLY <1>7
<1>9. DollarPairs(s) = g[L].pairs
  BY DEF DollarPairs
<1> HIDE DEF g, step
<1>10. \A n \in 0..L : f[n] = g[n]
  <2>1. f[0] = g[0]
    <3>1. 0 \in 0..Len(s)
      BY <1>1
    <3>2. g[0] = NoPairs
      BY ONLY <1>8, <3>1 DEF NoPairs
    <3>3. QED
      BY ONLY <1>5, <3>2
  <2>2. ASSUME NEW n \in 1..L, f[n - 1] = g[n - 1]
        PROVE  f[n] = g[n]
    <3>1. n \in 0..L /\ n # 0
      BY <1>1
    <3>2. g[n] = ReadPairs(s, g[n - 1], n)
      BY ONLY <1>8, <3>1
    <3>3. QED
      BY ONLY <1>6, <2>2, <3>2, n \in 1..L
  <2>3. QED
    BY ONLY <1>1, <2>1, <2>2, StepwiseEqual
<1>11. L \in 0..L
  BY <1>1
<1>12. f[L] \in V
  <2> HIDE DEF V, L
  <2>1. QED
    BY ONLY <1>5, <1>11
<1>13. ReadsPairs(f, s)
  BY ONLY <1>5, <1>6, <1>12 DEF ReadsPairs
<1>14. QED
  BY ONLY <1>9, <1>10, <1>11, <1>13

(***************************************************************************)
(* Without a dollar sign there is no pair.                                 *)
(***************************************************************************)
LEMMA NoDollar ==
  ASSUME NEW s \in Seq(Sign), ~Has(s, "$")
  PROVE  DollarPairs(s) = 0 /\ CloseKatex(s) = s
<1> DEFINE L == Len(s)
<1>1. L \in Nat /\ Occurs(s, Dollars) = {}
  <2>1. L \in Nat
    OBVIOUS
  <2>2. Occurs(s, <<"$", "$">>) = {}
    BY ONLY s \in Seq(Sign), ~Has(s, "$"), NoneOf
  <2>3. QED
    BY ONLY <2>1, <2>2 DEF Dollars
<1>2. PICK f : ReadsPairs(f, s) /\ DollarPairs(s) = f[L].pairs
  BY PairsRead
<1> DEFINE g == [n \in 0..L |-> f[n].pairs]
           h == [n \in 0..L |-> 0]
<1>3. g[0] = h[0]
  BY <1>1, <1>2 DEF ReadsPairs, NoPairs
<1>4. ASSUME NEW n \in 1..L, g[n - 1] = h[n - 1]
      PROVE  g[n] = h[n]
  <2>1. n - 1 \in 0..L /\ n \in 0..L
    BY <1>1
  <2>2. f[n - 1].pairs = 0
    BY <1>4, <2>1
  <2>3. f[n] = ReadPairs(s, f[n - 1], n) /\ f[n - 1] \in PairStates
    BY ONLY <1>2, n \in 1..L DEF ReadsPairs
  <2>4. f[n].pairs = f[n - 1].pairs
    <3>1. PICK st \in PairStates : st = f[n - 1]
      BY ONLY <2>3
    <3>2. ReadPairs(s, st, n).pairs = st.pairs
      <4>1. /\ [st EXCEPT !.skip = FALSE].pairs = st.pairs
            /\ [st EXCEPT !.code = ~@].pairs = st.pairs
        BY ONLY st \in PairStates DEF PairStates
      <4>2. ReadPairs(s, st, n)
              \in {[st EXCEPT !.skip = FALSE], [st EXCEPT !.code = ~@], st}
        BY ONLY <1>1 DEF ReadPairs
      <4>3. QED
        BY ONLY <4>1, <4>2
    <3>3. QED
      BY ONLY <2>3, <3>1, <3>2
  <2>5. QED
    BY <2>1, <2>2, <2>4
<1>5. \A n \in 0..L : g[n] = h[n]
  <2> HIDE DEF g, h
  <2>1. QED
    BY ONLY <1>1, <1>3, <1>4, StepwiseEqual, ZenonT(30)
<1>6. f[L].pairs = 0
  <2>1. L \in 0..L
    BY ONLY <1>1
  <2>2. QED
    BY ONLY <1>5, <2>1
<1>7. QED
  <2>1. DollarPairs(s) = 0
    BY ONLY <1>2, <1>6
  <2>2. 0 % 2 = 0
    OBVIOUS
  <2>3. QED
    BY ONLY <2>1, <2>2 DEF CloseKatex

-----------------------------------------------------------------------------
(***************************************************************************)
(* A text that goes on with characters of M.                               *)
(***************************************************************************)
Extends(w, t, M) ==
  /\ w \in Seq(Sign) /\ t \in Seq(Sign) /\ Len(w) \in Nat /\ Len(t) \in Nat
  /\ Len(w) <= Len(t)
  /\ \A k \in 1..Len(w) : t[k] = w[k]
  /\ \A k \in Len(w) + 1 .. Len(t) : t[k] \in M

TicksOf(t) == {k \in 1..Len(t) : t[k] = "tick"}

TicksBefore(s, n) == {k \in 1..n : s[k] = "tick"}

(***************************************************************************)
(* Characters at the end make it go on.                                    *)
(***************************************************************************)
LEMMA JoinExtends ==
  ASSUME NEW w \in Seq(Sign), NEW M, NEW a \in Seq(Sign),
         \A k \in 1..Len(a) : a[k] \in M
  PROVE  Extends(w, w \o a, M) /\ Len(w \o a) = Len(w) + Len(a)
<1>1. Len(w) \in Nat /\ Len(a) \in Nat
  OBVIOUS
<1>2. /\ w \o a \in Seq(Sign) /\ Len(w \o a) = Len(w) + Len(a)
      /\ \A k \in 1..Len(w) : (w \o a)[k] = w[k]
      /\ \A k \in 1..Len(a) : (w \o a)[Len(w) + k] = a[k]
  BY ONLY w \in Seq(Sign), a \in Seq(Sign), JoinIs
<1>3. PICK u \in Seq(Sign) : u = w \o a
  BY ONLY <1>2
<1>4. ASSUME NEW k \in Len(w) + 1 .. Len(u)
      PROVE  u[k] \in M
  <2>1. Len(u) = Len(w) + Len(a)
    BY ONLY <1>2, <1>3
  <2>2. k - Len(w) \in 1..Len(a) /\ Len(w) + (k - Len(w)) = k
    BY ONLY <1>1, <2>1, k \in Len(w) + 1 .. Len(u)
  <2>3. u[k] = a[k - Len(w)] /\ a[k - Len(w)] \in M
    <3>1. u[Len(w) + (k - Len(w))] = a[k - Len(w)]
      BY ONLY <1>2, <1>3, <2>2
    <3>2. a[k - Len(w)] \in M
      BY <2>2
    <3>3. QED
      BY ONLY <2>2, <3>1, <3>2
  <2>4. QED
    BY ONLY <2>3
<1>5. Len(w) <= Len(u) /\ Len(u) \in Nat
  <2>1. Len(u) = Len(w) + Len(a)
    BY ONLY <1>2, <1>3
  <2>2. QED
    BY ONLY <1>1, <2>1
<1>6. Extends(w, u, M)
  BY ONLY <1>1, <1>2, <1>3, <1>4, <1>5, w \in Seq(Sign), u \in Seq(Sign) DEF Extends
<1>7. QED
  BY ONLY <1>2, <1>3, <1>6

(***************************************************************************)
(* And going on twice is going on.                                         *)
(***************************************************************************)
LEMMA ExtendsTwice ==
  ASSUME NEW w, NEW t, NEW u, NEW M, NEW N, Extends(w, t, M), Extends(t, u, N),
         N \subseteq M
  PROVE  Extends(w, u, M)
<1>1. /\ w \in Seq(Sign) /\ u \in Seq(Sign) /\ Len(w) \in Nat /\ Len(t) \in Nat
      /\ Len(u) \in Nat /\ Len(w) <= Len(t) /\ Len(t) <= Len(u)
  BY DEF Extends
<1>2. Len(w) <= Len(u)
  BY ONLY <1>1
<1>3. ASSUME NEW k \in 1..Len(w)
      PROVE  u[k] = w[k]
  <2>1. k \in 1..Len(t)
    BY ONLY <1>1, k \in 1..Len(w)
  <2>2. u[k] = t[k] /\ t[k] = w[k]
    BY <2>1 DEF Extends
  <2>3. QED
    BY ONLY <2>2
<1>4. ASSUME NEW k \in Len(w) + 1 .. Len(u)
      PROVE  u[k] \in M
  <2>1. CASE k <= Len(t)
    <3>1. k \in 1..Len(t) /\ k \in Len(w) + 1 .. Len(t)
      BY ONLY <1>1, <2>1, k \in Len(w) + 1 .. Len(u)
    <3>2. u[k] = t[k] /\ t[k] \in M
      BY <3>1 DEF Extends
    <3>3. QED
      BY ONLY <3>2
  <2>2. CASE ~(k <= Len(t))
    <3>1. k \in Len(t) + 1 .. Len(u)
      BY ONLY <1>1, <2>2, k \in Len(w) + 1 .. Len(u)
    <3>2. u[k] \in N
      BY <3>1 DEF Extends
    <3>3. QED
      BY <3>2
  <2>3. QED
    BY ONLY <2>1, <2>2
<1>5. QED
  BY ONLY <1>1, <1>2, <1>3, <1>4 DEF Extends

(***************************************************************************)
(* A text always goes on with nothing.                                     *)
(***************************************************************************)
LEMMA ExtendsItself ==
  ASSUME NEW w \in Seq(Sign), NEW M
  PROVE  Extends(w, w, M)
<1>1. Len(w) \in Nat
  OBVIOUS
<1>2. Len(w) + 1 .. Len(w) = {} /\ Len(w) <= Len(w)
  BY ONLY <1>1
<1>3. QED
  BY ONLY <1>1, <1>2, w \in Seq(Sign) DEF Extends

(***************************************************************************)
(* What goes on without backticks has the backticks it had, and no three   *)
(* in a row if there were none.                                            *)
(***************************************************************************)
LEMMA TicksStay ==
  ASSUME NEW w, NEW t, NEW M, Extends(w, t, M), "tick" \notin M
  PROVE  TicksOf(t) = TicksOf(w) /\ (Occurs(w, Ticks) = {} => Occurs(t, Ticks) = {})
<1>1. /\ w \in Seq(Sign) /\ t \in Seq(Sign) /\ Len(w) \in Nat /\ Len(t) \in Nat
      /\ Len(w) <= Len(t)
  BY DEF Extends
<1>2. ASSUME NEW k \in 1..Len(t), t[k] = "tick"
      PROVE  k \in 1..Len(w) /\ w[k] = "tick"
  <2>1. k \in 1..Len(w) \/ k \in Len(w) + 1 .. Len(t)
    BY ONLY <1>1, k \in 1..Len(t)
  <2>2. k \in 1..Len(w)
    BY <1>2, <2>1 DEF Extends
  <2>3. w[k] = t[k]
    BY <2>2 DEF Extends
  <2>4. QED
    BY ONLY <1>2, <2>2, <2>3
<1>3. ASSUME NEW k \in 1..Len(w), w[k] = "tick"
      PROVE  k \in 1..Len(t) /\ t[k] = "tick"
  <2>1. k \in 1..Len(t)
    BY ONLY <1>1, k \in 1..Len(w)
  <2>2. w[k] = t[k]
    BY DEF Extends
  <2>3. QED
    BY ONLY <1>3, <2>1, <2>2
<1>4. TicksOf(t) = TicksOf(w)
  BY ONLY <1>2, <1>3 DEF TicksOf
<1>5. ASSUME NEW i \in Occurs(t, Ticks)
      PROVE  i \in Occurs(w, Ticks)
  <2>1. i \in 1..Len(t) - 2 /\ t[i] = "tick" /\ t[i + 1] = "tick" /\ t[i + 2] = "tick"
    BY ONLY <1>1, i \in Occurs(t, Ticks), TripleAt DEF Ticks
  <2>2. i \in 1..Len(t) /\ i + 1 \in 1..Len(t) /\ i + 2 \in 1..Len(t)
    BY ONLY <1>1, <2>1
  <2>3. /\ w[i] = "tick" /\ w[i + 1] = "tick" /\ w[i + 2] = "tick"
        /\ i + 2 \in 1..Len(w)
    BY ONLY <1>2, <2>1, <2>2
  <2>4. i \in 1..Len(w) - 2
    BY ONLY <1>1, <2>1, <2>3
  <2>5. QED
    BY ONLY <1>1, <2>3, <2>4, TripleAt DEF Ticks
<1>6. QED
  BY ONLY <1>4, <1>5

-----------------------------------------------------------------------------
(***************************************************************************)
(* The number of backticks, one character after the other.                 *)
(***************************************************************************)
LEMMA TickStep ==
  ASSUME NEW s, NEW n \in Nat
  PROVE  /\ IsFiniteSet(TicksBefore(s, n)) /\ Cardinality(TicksBefore(s, n)) \in Nat
         /\ s[n + 1] = "tick" =>
              Cardinality(TicksBefore(s, n + 1)) = Cardinality(TicksBefore(s, n)) + 1
         /\ s[n + 1] # "tick" =>
              Cardinality(TicksBefore(s, n + 1)) = Cardinality(TicksBefore(s, n))
<1>1. IsFiniteSet(TicksBefore(s, n)) /\ Cardinality(TicksBefore(s, n)) \in Nat
  <2>1. IsFiniteSet(1..n)
    BY FS_Interval
  <2>2. TicksBefore(s, n) \subseteq 1..n
    BY DEF TicksBefore
  <2>3. IsFiniteSet(TicksBefore(s, n))
    BY ONLY <2>1, <2>2, FS_Subset
  <2>4. QED
    BY ONLY <2>3, FS_CardinalityType
<1>2. \A k : k \in 1..n + 1 <=> k \in 1..n \/ k = n + 1
  OBVIOUS
<1>3. ASSUME s[n + 1] = "tick"
      PROVE  Cardinality(TicksBefore(s, n + 1)) = Cardinality(TicksBefore(s, n)) + 1
  <2>1. TicksBefore(s, n + 1) = TicksBefore(s, n) \cup {n + 1}
    BY ONLY <1>2, <1>3 DEF TicksBefore
  <2>2. n + 1 \notin TicksBefore(s, n)
    BY DEF TicksBefore
  <2>3. QED
    BY ONLY <1>1, <2>1, <2>2, FS_AddElement
<1>4. ASSUME s[n + 1] # "tick"
      PROVE  TicksBefore(s, n + 1) = TicksBefore(s, n)
  BY ONLY <1>2, <1>4 DEF TicksBefore
<1>5. QED
  BY ONLY <1>1, <1>3, <1>4

(***************************************************************************)
(* Inline code is where the number of backticks so far is odd, and a       *)
(* character is skipped only if it is the second dollar sign of a pair.    *)
(***************************************************************************)
CodeIsOdd(f, s, n) ==
  /\ f[n].code <=> Cardinality(TicksBefore(s, n)) % 2 = 1
  /\ f[n].skip => n + 1 <= Len(s) /\ s[n + 1] = "$"

(***************************************************************************)
(* By the recursion, if no three backticks come together.                  *)
(***************************************************************************)
LEMMA CodeParity ==
  ASSUME NEW s \in Seq(Sign), Occurs(s, Ticks) = {}, NEW f, ReadsPairs(f, s)
  PROVE  \A n \in 0..Len(s) : CodeIsOdd(f, s, n)
<1> DEFINE S == {n \in Nat : n <= Len(s) => CodeIsOdd(f, s, n)}
<1>1. Len(s) \in Nat /\ \A k : ~PartOfTicks(s, k)
  BY NoBlock
<1>2. 0 \in S
  <2>1. f[0].code = FALSE /\ f[0].skip = FALSE
    BY DEF ReadsPairs, NoPairs
  <2>2. TicksBefore(s, 0) = {}
    BY DEF TicksBefore
  <2>3. Cardinality({}) = 0 /\ ~(0 % 2 = 1)
    BY FS_EmptySet
  <2>4. CodeIsOdd(f, s, 0)
    BY ONLY <2>1, <2>2, <2>3 DEF CodeIsOdd
  <2>5. QED
    BY <2>4
<1>3. ASSUME NEW n \in Nat, n \in S
      PROVE  n + 1 \in S
  <2>1. SUFFICES ASSUME n + 1 <= Len(s)
                 PROVE  CodeIsOdd(f, s, n + 1)
    OBVIOUS
  <2>2. CodeIsOdd(f, s, n) /\ n + 1 \in 1..Len(s) /\ (n + 1) - 1 = n
    BY <1>1, <1>3, <2>1
  <2>3. f[n] \in PairStates /\ f[n + 1] = ReadPairs(s, f[n], n + 1)
    BY ONLY <2>2, ReadsPairs(f, s) DEF ReadsPairs
  <2>4. PICK st \in PairStates : st = f[n]
    BY ONLY <2>3
  <2>5. PICK k \in Nat : k = n + 1
    OBVIOUS
  <2>6. PICK r : r = ReadPairs(s, st, k)
    OBVIOUS
  <2>7. f[k] = r /\ st.code \in BOOLEAN /\ st.skip \in BOOLEAN
    BY ONLY <2>3, <2>4, <2>5, <2>6, st \in PairStates DEF PairStates
  <2>8. /\ Cardinality(TicksBefore(s, n)) \in Nat
        /\ s[k] = "tick" =>
             Cardinality(TicksBefore(s, k)) = Cardinality(TicksBefore(s, n)) + 1
        /\ s[k] # "tick" =>
             Cardinality(TicksBefore(s, k)) = Cardinality(TicksBefore(s, n))
    BY ONLY <2>5, n \in Nat, TickStep
  <2>9. /\ st.code <=> Cardinality(TicksBefore(s, n)) % 2 = 1
        /\ st.skip => s[k] = "$"
    BY ONLY <2>2, <2>4, <2>5 DEF CodeIsOdd
  <2>10. CASE st.skip
    <3>1. r = [st EXCEPT !.skip = FALSE]
      BY ONLY <2>6, <2>10 DEF ReadPairs
    <3>2. r.skip = FALSE /\ r.code = st.code
      BY ONLY <3>1, st \in PairStates DEF PairStates
    <3>3. s[k] # "tick"
      BY ONLY <2>9, <2>10
    <3>4. QED
      BY ONLY <2>5, <2>7, <2>8, <2>9, <3>2, <3>3 DEF CodeIsOdd
  <2>11. CASE ~st.skip /\ s[k] = "tick"
    <3>1. r = [st EXCEPT !.code = ~@]
      BY ONLY <1>1, <2>6, <2>11 DEF ReadPairs
    <3>2. r.skip = st.skip /\ r.code = ~st.code
      BY ONLY <3>1, st \in PairStates DEF PairStates
    <3>3. \A c \in Nat : (c + 1) % 2 = 1 <=> ~(c % 2 = 1)
      OBVIOUS
    <3>4. Cardinality(TicksBefore(s, k)) % 2 = 1
            <=> ~(Cardinality(TicksBefore(s, n)) % 2 = 1)
      BY ONLY <2>8, <2>11, <3>3
    <3>5. ~r.skip /\ (r.code <=> ~st.code)
      BY ONLY <2>11, <3>2
    <3>6. QED
      BY ONLY <2>5, <2>7, <2>9, <3>4, <3>5 DEF CodeIsOdd
  <2>12. CASE ~st.skip /\ s[k] # "tick" /\ ~st.code /\ k \in Occurs(s, Dollars)
    <3>1. r = [st EXCEPT !.skip = TRUE, !.pairs = @ + 1]
      BY ONLY <1>1, <2>6, <2>12 DEF ReadPairs
    <3>2. r.code = st.code
      BY ONLY <3>1, st \in PairStates DEF PairStates
    <3>3. k \in 1..Len(s) - 1 /\ s[k + 1] = "$"
      BY ONLY <2>12, s \in Seq(Sign), PairAt DEF Dollars
    <3>4. k + 1 <= Len(s)
      BY ONLY <1>1, <3>3
    <3>5. QED
      BY ONLY <2>5, <2>7, <2>8, <2>9, <2>12, <3>2, <3>3, <3>4 DEF CodeIsOdd
  <2>13. CASE ~st.skip /\ s[k] # "tick" /\ ~(~st.code /\ k \in Occurs(s, Dollars))
    <3>1. r = st
      BY ONLY <2>6, <2>13 DEF ReadPairs
    <3>2. QED
      BY ONLY <2>5, <2>7, <2>8, <2>9, <2>13, <3>1 DEF CodeIsOdd
  <2>14. QED
    BY ONLY <2>10, <2>11, <2>12, <2>13
<1>4. \A n \in Nat : n \in S
  <2> HIDE DEF S
  <2>1. QED
    BY ONLY <1>2, <1>3, NatInductive
<1>5. \A n \in 0..Len(s) : n \in Nat /\ n <= Len(s)
  BY ONLY <1>1
<1>6. QED
  BY ONLY <1>4, <1>5

(***************************************************************************)
(* Two dollar signs at the end, on a line of their own or not, are a pair  *)
(* if they are not in inline code, and change nothing before them.         *)
(***************************************************************************)
LEMMA PairAdded ==
  ASSUME NEW s \in Seq(Sign), NEW u, Extends(s, u, {"LF", "$"}),
         Len(s) >= 1, s[Len(s)] # "$",
         Occurs(s, Ticks) = {}, Cardinality(TicksOf(s)) % 2 = 0,
         NEW e \in Nat, e \in {Len(s), Len(s) + 1}, Len(u) = e + 2,
         u[e + 1] = "$", u[e + 2] = "$", e = Len(s) + 1 => u[e] = "LF"
  PROVE  DollarPairs(s) \in Nat /\ DollarPairs(u) = DollarPairs(s) + 1
<1>1. /\ u \in Seq(Sign) /\ Len(s) \in Nat /\ Len(u) \in Nat /\ Len(s) <= Len(u)
      /\ \A k \in 1..Len(s) : u[k] = s[k]
  BY DEF Extends
<1>2. PICK N \in Nat : N = Len(s)
  BY <1>1
<1>3. Occurs(u, Ticks) = {}
  <2>1. "tick" \notin {"LF", "$"}
    OBVIOUS
  <2>2. QED
    BY <2>1, TicksStay
<1>4. PICK f : ReadsPairs(f, s) /\ DollarPairs(s) = f[Len(s)].pairs
  BY PairsRead
<1>5. PICK g : ReadsPairs(g, u) /\ DollarPairs(u) = g[Len(u)].pairs
  BY <1>1, PairsRead
<1>6. /\ \A k : ~PartOfTicks(s, k)
      /\ \A k : ~PartOfTicks(u, k)
  BY <1>3, NoBlock
<1>7. ASSUME NEW n \in 1..N, f[n - 1] = g[n - 1]
      PROVE  f[n] = g[n]
  <2>1. n \in 1..Len(s) /\ n \in 1..Len(u)
    BY ONLY <1>1, <1>2, n \in 1..N
  <2>2. f[n] = ReadPairs(s, f[n - 1], n) /\ g[n] = ReadPairs(u, g[n - 1], n)
    BY ONLY <1>4, <1>5, <2>1 DEF ReadsPairs
  <2>3. u[n] = s[n]
    BY ONLY <1>1, <2>1
  <2>4. n \in Occurs(s, Dollars) <=> n \in Occurs(u, Dollars)
    <3>1. n \in Occurs(s, Dollars)
            <=> n \in 1..Len(s) - 1 /\ s[n] = "$" /\ s[n + 1] = "$"
      BY ONLY s \in Seq(Sign), PairAt DEF Dollars
    <3>2. n \in Occurs(u, Dollars)
            <=> n \in 1..Len(u) - 1 /\ u[n] = "$" /\ u[n + 1] = "$"
      BY ONLY <1>1, PairAt DEF Dollars
    <3>3. CASE n = N
      <4>1. s[n] # "$"
        BY <1>2, <3>3
      <4>2. QED
        BY ONLY <2>3, <3>1, <3>2, <4>1
    <3>4. CASE n # N
      <4>1. n + 1 \in 1..Len(s) /\ n \in 1..Len(s) - 1 /\ n \in 1..Len(u) - 1
        BY ONLY <1>1, <1>2, <3>4, n \in 1..N
      <4>2. u[n + 1] = s[n + 1]
        BY ONLY <1>1, <4>1
      <4>3. QED
        BY ONLY <2>3, <3>1, <3>2, <4>1, <4>2
    <3>5. QED
      BY ONLY <3>3, <3>4
  <2>5. PICK st : st = f[n - 1]
    OBVIOUS
  <2>6. ReadPairs(s, st, n) = ReadPairs(u, st, n)
    BY ONLY <1>6, <2>3, <2>4 DEF ReadPairs
  <2>7. QED
    BY ONLY <1>7, <2>2, <2>5, <2>6
<1>8. g[N] = f[N]
  <2>1. f[0] = g[0]
    BY ONLY <1>4, <1>5 DEF ReadsPairs
  <2>2. \A n \in 0..N : f[n] = g[n]
    BY ONLY <1>7, <2>1, N \in Nat, StepwiseEqual, ZenonT(30)
  <2>3. N \in 0..N
    OBVIOUS
  <2>4. QED
    BY ONLY <2>2, <2>3
<1>9. PICK st \in PairStates : st = f[N]
  BY ONLY <1>2, <1>4 DEF ReadsPairs
<1>10. ~st.skip /\ ~st.code /\ st.pairs \in Nat /\ st.pairs = DollarPairs(s)
  <2>1. Len(s) \in 0..Len(s)
    BY ONLY <1>1
  <2>2. CodeIsOdd(f, s, Len(s))
    BY <1>4, <2>1, CodeParity
  <2>3. TicksBefore(s, Len(s)) = TicksOf(s)
    BY DEF TicksBefore, TicksOf
  <2>4. ~st.code
    <3>1. ~(Cardinality(TicksOf(s)) % 2 = 1)
      BY ONLY Cardinality(TicksOf(s)) % 2 = 0
    <3>2. QED
      BY ONLY <1>2, <1>9, <2>2, <2>3, <3>1 DEF CodeIsOdd
  <2>5. ~st.skip
    <3>1. ~(Len(s) + 1 <= Len(s))
      BY ONLY <1>1
    <3>2. QED
      BY ONLY <1>2, <1>9, <2>2, <3>1 DEF CodeIsOdd
  <2>6. st.pairs \in Nat
    BY ONLY st \in PairStates DEF PairStates
  <2>7. QED
    BY ONLY <1>2, <1>4, <1>9, <2>4, <2>5, <2>6
<1>11. g[e] = st
  <2>1. CASE e = N
    BY ONLY <1>8, <1>9, <2>1
  <2>2. CASE e = N + 1
    <3>1. e \in 1..Len(u) /\ e - 1 = N
      BY ONLY <1>1, <1>2, <2>2, Len(u) = e + 2, e \in Nat
    <3>2. g[e] = ReadPairs(u, g[N], e)
      <4>1. g[e] = ReadPairs(u, g[e - 1], e)
        BY ONLY <1>5, <3>1 DEF ReadsPairs
      <4>2. QED
        BY ONLY <3>1, <4>1
    <3>3. u[e] = "LF"
      BY ONLY <1>2, <2>2, e = Len(s) + 1 => u[e] = "LF"
    <3>4. e \notin Occurs(u, Dollars)
      BY ONLY <1>1, <3>3, PairAt DEF Dollars
    <3>5. ReadPairs(u, st, e) = st
      BY ONLY <1>10, <3>3, <3>4 DEF ReadPairs
    <3>6. QED
      BY ONLY <1>8, <1>9, <3>2, <3>5
  <2>3. QED
    BY ONLY <1>2, <2>1, <2>2, e \in {Len(s), Len(s) + 1}
<1>12. PICK a \in Nat : a = e + 1
  OBVIOUS
<1>13. PICK b \in Nat : b = e + 2
  OBVIOUS
<1>14. /\ a \in 1..Len(u) /\ a - 1 = e /\ b \in 1..Len(u) /\ b - 1 = a
       /\ b = Len(u) /\ a \in 1..Len(u) - 1 /\ a + 1 = b
  BY ONLY <1>1, <1>12, <1>13, Len(u) = e + 2, e \in Nat
<1>15. g[a] = ReadPairs(u, st, a) /\ g[b] = ReadPairs(u, g[a], b)
  <2>1. g[a] = ReadPairs(u, g[a - 1], a) /\ g[b] = ReadPairs(u, g[b - 1], b)
    BY ONLY <1>5, <1>14 DEF ReadsPairs
  <2>2. QED
    BY ONLY <1>11, <1>14, <2>1
<1>16. g[a] = [st EXCEPT !.skip = TRUE, !.pairs = @ + 1]
  <2>1. u[a] = "$" /\ u[a + 1] = "$"
    BY ONLY <1>12, <1>13, <1>14, u[e + 1] = "$", u[e + 2] = "$"
  <2>2. a \in Occurs(u, Dollars)
    BY ONLY <1>1, <1>14, <2>1, PairAt DEF Dollars
  <2>3. QED
    BY ONLY <1>10, <1>15, <2>1, <2>2 DEF ReadPairs
<1>17. PICK sk : sk = [st EXCEPT !.skip = TRUE, !.pairs = @ + 1]
  OBVIOUS
<1>18. sk.skip = TRUE /\ sk.pairs = st.pairs + 1
  BY ONLY <1>17, st \in PairStates DEF PairStates
<1>19. g[b].pairs = st.pairs + 1
  <2>1. g[b] = [sk EXCEPT !.skip = FALSE]
    BY ONLY <1>15, <1>16, <1>17, <1>18 DEF ReadPairs
  <2>2. [sk EXCEPT !.skip = FALSE].pairs = sk.pairs
    <3>1. sk = [skip |-> TRUE, code |-> st.code, pairs |-> st.pairs + 1]
      BY ONLY <1>17, st \in PairStates DEF PairStates
    <3>2. QED
      BY ONLY <3>1
  <2>3. QED
    BY ONLY <1>18, <2>1, <2>2
<1>20. QED
  BY ONLY <1>5, <1>10, <1>14, <1>19

(***************************************************************************)
(* No inline code is open at the end of a text if the number of backticks  *)
(* is even and no three come together.                                     *)
(***************************************************************************)
LEMMA InlineClosed ==
  ASSUME NEW s \in Seq(Sign), Occurs(s, Ticks) = {},
         Cardinality(TicksOf(s)) % 2 = 0
  PROVE  ~InInline(s, Len(s) + 1)
<1>1. Len(s) \in Nat /\ (Len(s) + 1) - 1 = Len(s)
  OBVIOUS
<1>2. Matches(s, Ticks) = {} /\ \A i : ~InBlock(s, i)
  BY NoBlock
<1>3. {k \in 1..(Len(s) + 1) - 1 :
         /\ s[k] = "tick" /\ ~InBlock(s, k)
         /\ \A m \in Matches(s, Ticks) : k \notin m..m + 2} = TicksOf(s)
  BY ONLY <1>1, <1>2 DEF TicksOf
<1>4. ~(Cardinality(TicksOf(s)) % 2 = 1)
  OBVIOUS
<1>5. QED
  BY ONLY <1>3, <1>4 DEF InInline

-----------------------------------------------------------------------------
(***************************************************************************)
(* What the repairs of emphasis add, and with them that of inline code.    *)
(***************************************************************************)
EmphasisMarks == {"*", "_"}

CodeMarks == {"*", "_", "tick"}

(***************************************************************************)
(* The closing markers of emphasis, of one character each.                 *)
(***************************************************************************)
LEMMA MarkersAre ==
  /\ \A p \in {Triple, Bold, <<"_", "_">>, <<"*">>} :
       p \in Seq(Sign) /\ \A k \in 1..Len(p) : p[k] \in EmphasisMarks
  /\ <<"tick">> \in Seq(Sign) /\ Len(<<"tick">>) = 1 /\ <<"tick">>[1] = "tick"
  /\ <<"*">> \in Seq(Sign) /\ Len(<<"*">>) = 1 /\ <<"*">>[1] = "*"
  /\ \A c \in {"*", "_", "~", "$"} :
       <<c, c>> \in Seq(Sign) /\ Len(<<c, c>>) = 2 /\ <<c, c>>[1] = c /\ <<c, c>>[2] = c
  /\ <<"LF">> \in Seq(Sign) /\ Len(<<"LF">>) = 1 /\ <<"LF">>[1] = "LF"
<1>1. \A c \in Sign : <<c>> \in Seq(Sign) /\ Len(<<c>>) = 1 /\ <<c>>[1] = c
  OBVIOUS
<1>2. \A c \in Sign : /\ <<c, c>> \in Seq(Sign) /\ Len(<<c, c>>) = 2
                      /\ <<c, c>>[1] = c /\ <<c, c>>[2] = c
  OBVIOUS
<1>3. \A c \in Sign : /\ <<c, c, c>> \in Seq(Sign) /\ Len(<<c, c, c>>) = 3
                      /\ <<c, c, c>>[1] = c /\ <<c, c, c>>[2] = c
                      /\ <<c, c, c>>[3] = c
  OBVIOUS
<1>4. {"*", "_", "~", "$", "tick", "LF"} \subseteq Sign
  BY DEF Sign, Marks
<1>5. ASSUME NEW c \in EmphasisMarks
      PROVE  /\ \A k \in 1..Len(<<c>>) : <<c>>[k] \in EmphasisMarks
             /\ \A k \in 1..Len(<<c, c>>) : <<c, c>>[k] \in EmphasisMarks
             /\ \A k \in 1..Len(<<c, c, c>>) : <<c, c, c>>[k] \in EmphasisMarks
  OBVIOUS
<1>6. \A c \in EmphasisMarks : c \in Sign
  BY ONLY <1>4 DEF EmphasisMarks
<1>7. "*" \in EmphasisMarks /\ "_" \in EmphasisMarks
  BY DEF EmphasisMarks
<1>8. \A p \in {Triple, Bold, <<"_", "_">>, <<"*">>} :
        p \in Seq(Sign) /\ \A k \in 1..Len(p) : p[k] \in EmphasisMarks
  <2>1. Triple \in Seq(Sign) /\ \A k \in 1..Len(Triple) : Triple[k] \in EmphasisMarks
    BY ONLY <1>3, <1>5, <1>6, <1>7 DEF Triple
  <2>2. Bold \in Seq(Sign) /\ \A k \in 1..Len(Bold) : Bold[k] \in EmphasisMarks
    BY ONLY <1>2, <1>5, <1>6, <1>7 DEF Bold
  <2>3. /\ <<"_", "_">> \in Seq(Sign)
        /\ \A k \in 1..Len(<<"_", "_">>) : <<"_", "_">>[k] \in EmphasisMarks
    BY ONLY <1>2, <1>5, <1>6, <1>7
  <2>4. <<"*">> \in Seq(Sign) /\ \A k \in 1..Len(<<"*">>) : <<"*">>[k] \in EmphasisMarks
    BY ONLY <1>1, <1>5, <1>6, <1>7
  <2>5. QED
    BY ONLY <2>1, <2>2, <2>3, <2>4
<1>9. QED
  BY ONLY <1>1, <1>2, <1>4, <1>8

(***************************************************************************)
(* handle_incomplete_single_underscore_italic puts the underscore in       *)
(* behind the last letter.                                                 *)
(***************************************************************************)
LEMMA UnderscoreExtends ==
  ASSUME NEW w, EndsInWord(w), NEW t, Extends(w, t, EmphasisMarks)
  PROVE  Extends(w, CloseUnderscore(t), EmphasisMarks)
<1>1. /\ w \in Seq(Sign) /\ t \in Seq(Sign) /\ Len(w) \in Nat /\ Len(t) \in Nat
      /\ Len(w) <= Len(t) /\ Len(w) >= 1
      /\ \A k \in 1..Len(w) : t[k] = w[k]
      /\ \A k \in Len(w) + 1 .. Len(t) : t[k] \in EmphasisMarks
  BY DEF Extends, EndsInWord
<1>2. t[Len(w)] \notin {"*", "LF"}
  <2>1. w[Len(w)] \notin {"*", "LF"}
    BY LetterIs DEF EndsInWord
  <2>2. Len(w) \in 1..Len(w)
    BY ONLY <1>1
  <2>3. QED
    BY ONLY <1>1, <2>1, <2>2
<1> DEFINE S == {0} \cup {k \in DOMAIN t : t[k] # "LF"}
<1>3. Max(S) \in S /\ \A k \in S : k <= Max(S)
  <2>1. S \subseteq 0..Len(t) /\ S # {}
    BY <1>1
  <2> HIDE DEF S
  <2>2. QED
    BY ONLY <1>1, <2>1, MaxOf
<1>4. PICK n : n = IF Nested(t) THEN Len(t) - 2 ELSE Max(S)
  OBVIOUS
<1>5. n \in Nat /\ Len(w) <= n /\ n <= Len(t)
  <2>1. CASE Nested(t)
    <3>1. EndsWith(t, <<"*", "*">>)
      BY <2>1 DEF Nested, Bold
    <3>2. Len(t) >= 2 /\ t[Len(t) - 1] = "*" /\ t[Len(t)] = "*"
      BY ONLY <1>1, <3>1, EndsWithTwo
    <3>3. Len(t) # Len(w) /\ Len(t) - 1 # Len(w)
      BY ONLY <1>2, <3>2
    <3>4. n = Len(t) - 2
      BY ONLY <1>4, <2>1
    <3>5. QED
      BY ONLY <1>1, <3>2, <3>3, <3>4
  <2>2. CASE ~Nested(t)
    <3>1. n = Max(S)
      BY ONLY <1>4, <2>2
    <3>2. Len(w) \in S
      <4>1. Len(w) \in DOMAIN t
        BY <1>1
      <4>2. QED
        BY <1>2, <4>1
    <3>3. Len(w) <= n
      BY ONLY <1>3, <3>1, <3>2
    <3>4. n \in 0..Len(t)
      BY <1>1, <1>3, <3>1
    <3>5. QED
      BY ONLY <1>1, <3>3, <3>4
  <2>3. QED
    BY ONLY <2>1, <2>2
<1>6. PICK u \in Seq(Sign) :
        /\ u = WithUnderscore(t, n)
        /\ Len(u) = Len(t) + 1
        /\ \A k \in 1..n : u[k] = t[k]
        /\ u[n + 1] = "_"
        /\ \A k \in n + 1 .. Len(t) : u[k + 1] = t[k]
  <2>1. n \in 0..Len(t)
    BY ONLY <1>1, <1>5
  <2>2. QED
    BY <1>1, <2>1, PutIn
<1>7. CloseUnderscore(t) \in {t, u}
  <2>1. CloseUnderscore(t) \in {t, WithUnderscore(t, n)}
    BY ONLY <1>4 DEF CloseUnderscore, WithUnderscore
  <2>2. QED
    BY ONLY <1>6, <2>1
<1>8. ASSUME NEW k \in 1..Len(w)
      PROVE  u[k] = w[k]
  <2>1. k \in 1..n
    BY ONLY <1>1, <1>5, k \in 1..Len(w)
  <2>2. QED
    BY ONLY <1>1, <1>6, <2>1, k \in 1..Len(w)
<1>9. ASSUME NEW k \in Len(w) + 1 .. Len(u)
      PROVE  u[k] \in EmphasisMarks
  <2>1. CASE k <= n
    <3>1. k \in 1..n /\ k \in Len(w) + 1 .. Len(t)
      BY ONLY <1>1, <1>5, <2>1, k \in Len(w) + 1 .. Len(u)
    <3>2. u[k] = t[k] /\ t[k] \in EmphasisMarks
      BY ONLY <1>1, <1>6, <3>1
    <3>3. QED
      BY ONLY <3>2
  <2>2. CASE k = n + 1
    BY ONLY <1>6, <2>2 DEF EmphasisMarks
  <2>3. CASE k > n + 1
    <3>1. Len(u) = Len(t) + 1
      BY ONLY <1>6
    <3>2. PICK j \in Nat : j = k - 1
      BY ONLY <1>1, <1>5, <2>3, <3>1, k \in Len(w) + 1 .. Len(u)
    <3>3. j \in n + 1 .. Len(t) /\ j \in Len(w) + 1 .. Len(t) /\ k = j + 1
      BY ONLY <1>1, <1>5, <2>3, <3>1, <3>2, k \in Len(w) + 1 .. Len(u)
    <3>4. u[k] = t[j] /\ t[j] \in EmphasisMarks
      BY ONLY <1>1, <1>6, <3>3
    <3>5. QED
      BY ONLY <3>4
  <2>4. k \in Nat
    BY ONLY <1>1, k \in Len(w) + 1 .. Len(u)
  <2>5. QED
    BY ONLY <1>5, <2>1, <2>2, <2>3, <2>4
<1>10. Len(u) \in Nat /\ Len(w) <= Len(u)
  <2>1. Len(u) = Len(t) + 1
    BY ONLY <1>6
  <2>2. QED
    BY ONLY <1>1, <2>1
<1>11. Extends(w, u, EmphasisMarks)
  BY ONLY <1>1, <1>8, <1>9, <1>10, u \in Seq(Sign) DEF Extends
<1>12. QED
  BY <1>7, <1>11

(***************************************************************************)
(* So all repairs of emphasis go on with markers of emphasis.              *)
(***************************************************************************)
LEMMA EmphasisExtends ==
  ASSUME NEW w, EndsInWord(w)
  PROVE  Extends(w, CloseEmphasis(w), EmphasisMarks)
<1>1. w \in Seq(Sign)
  <2>1. w \in Seq(Char)
    BY DEF EndsInWord
  <2>2. QED
    BY <2>1 DEF Sign
<1>2. ASSUME NEW t, Extends(w, t, EmphasisMarks),
             NEW p \in {Triple, Bold, <<"_", "_">>, <<"*">>}
      PROVE  Extends(w, t \o p, EmphasisMarks)
  <2>1. p \in Seq(Sign) /\ \A k \in 1..Len(p) : p[k] \in EmphasisMarks
    BY ONLY MarkersAre, p \in {Triple, Bold, <<"_", "_">>, <<"*">>}
  <2>2. t \in Seq(Sign)
    BY ONLY <1>2 DEF Extends
  <2>3. Extends(t, t \o p, EmphasisMarks)
    BY ONLY <2>1, <2>2, JoinExtends
  <2>4. QED
    BY ONLY <1>2, <2>3, ExtendsTwice
<1>3. Extends(w, w, EmphasisMarks)
  BY <1>1, ExtendsItself
<1>4. PICK a : a = CloseBoldItalic(w)
  OBVIOUS
<1>5. PICK b : b = ClosePair(a, Bold)
  OBVIOUS
<1>6. PICK c : c = ClosePair(b, <<"_", "_">>)
  OBVIOUS
<1>7. PICK d : d = CloseAsterisk(c)
  OBVIOUS
<1>8. Extends(w, a, EmphasisMarks)
  <2>1. a \in {w, w \o Triple}
    BY ONLY <1>4 DEF CloseBoldItalic
  <2>2. QED
    BY ONLY <1>2, <1>3, <2>1
<1>9. Extends(w, b, EmphasisMarks)
  <2>1. b \in {a, a \o Bold}
    BY ONLY <1>5 DEF ClosePair
  <2>2. QED
    BY ONLY <1>2, <1>8, <2>1
<1>10. Extends(w, c, EmphasisMarks)
  <2>1. c \in {b, b \o <<"_", "_">>}
    BY ONLY <1>6 DEF ClosePair
  <2>2. QED
    BY ONLY <1>2, <1>9, <2>1
<1>11. Extends(w, d, EmphasisMarks)
  <2>1. d \in {c, c \o <<"*">>}
    BY ONLY <1>7 DEF CloseAsterisk
  <2>2. QED
    BY ONLY <1>2, <1>10, <2>1
<1>12. CloseEmphasis(w) = CloseUnderscore(d)
  BY ONLY <1>4, <1>5, <1>6, <1>7 DEF CloseEmphasis
<1>13. QED
  BY <1>11, <1>12, UnderscoreExtends

-----------------------------------------------------------------------------
(***************************************************************************)
(* whitespace_or_markers_only: not where there is a letter.                *)
(***************************************************************************)
LEMMA TextAfter ==
  ASSUME NEW s \in Seq(Sign), NEW n \in 0..Len(s), NEW k \in n + 1 .. Len(s),
         s[k] \notin {" ", "LF", "_", "~", "*", "tick"}
  PROVE  ~NothingToClose(From(s, n))
<1>1. n \in Nat /\ Len(s) \in Nat /\ n <= Len(s) /\ k \in Nat
  <2>1. Len(s) \in Nat
    BY ONLY s \in Seq(Sign), LenProperties
  <2>2. QED
    BY ONLY <2>1, n \in 0..Len(s), k \in n + 1 .. Len(s)
<1>2. PICK r \in Seq(Sign) :
        /\ r = From(s, n) /\ Len(r) = Len(s) - n
        /\ \A j \in 1..Len(s) - n : r[j] = s[n + j]
  <2>1. /\ From(s, n) \in Seq(Sign) /\ Len(From(s, n)) = Len(s) - n
        /\ \A j \in 1..Len(s) - n : From(s, n)[j] = s[n + j]
    BY RestIs
  <2>2. QED
    BY ONLY <2>1
<1>3. k - n \in 1..Len(s) - n /\ n + (k - n) = k
  BY ONLY <1>1, k \in n + 1 .. Len(s)
<1>4. r[k - n] = s[k]
  BY ONLY <1>2, <1>3
<1>5. k - n \in DOMAIN r
  <2>1. DOMAIN r = 1..Len(s) - n
    BY ONLY <1>2, r \in Seq(Sign)
  <2>2. QED
    BY ONLY <1>3, <2>1
<1>6. ~NothingToClose(r)
  BY ONLY <1>4, <1>5, s[k] \notin {" ", "LF", "_", "~", "*", "tick"}
     DEF NothingToClose, IsBlank
<1>7. QED
  BY ONLY <1>2, <1>6

(***************************************************************************)
(* All backticks, or those up to the last.                                 *)
(***************************************************************************)
LEMMA TicksAre ==
  ASSUME NEW s \in Seq(Sign), NEW n \in 0..Len(s),
         \A k \in n + 1 .. Len(s) : s[k] # "tick"
  PROVE  TicksOf(s) = TicksBefore(s, n)
<1>1. Len(s) \in Nat /\ n \in Nat /\ n <= Len(s)
  OBVIOUS
<1>2. ASSUME NEW k \in 1..Len(s), s[k] = "tick"
      PROVE  k \in 1..n
  <2>1. k \notin n + 1 .. Len(s)
    BY <1>2
  <2>2. QED
    BY ONLY <1>1, <2>1, k \in 1..Len(s)
<1>3. \A k \in 1..n : k \in 1..Len(s)
  BY ONLY <1>1
<1>4. QED
  BY ONLY <1>2, <1>3 DEF TicksOf, TicksBefore

(***************************************************************************)
(* balance_inline_code: behind it the number of backticks is even.         *)
(***************************************************************************)
LEMMA CodeCloses ==
  ASSUME NEW w, EndsInWord(w), Occurs(w, Ticks) = {},
         NEW e, Extends(w, e, EmphasisMarks)
  PROVE  /\ Extends(w, CloseInlineCode(e), CodeMarks)
         /\ Occurs(CloseInlineCode(e), Ticks) = {}
         /\ Cardinality(TicksOf(CloseInlineCode(e))) % 2 = 0
<1>1. /\ w \in Seq(Sign) /\ e \in Seq(Sign) /\ Len(w) \in Nat /\ Len(e) \in Nat
      /\ Len(w) <= Len(e) /\ Len(w) >= 1
      /\ \A k \in 1..Len(w) : e[k] = w[k]
      /\ \A k \in Len(w) + 1 .. Len(e) : e[k] \in EmphasisMarks
  BY DEF Extends, EndsInWord
<1>2. e[Len(w)] \notin {" ", "LF", "_", "~", "*", "tick"}
  <2>1. w[Len(w)] \notin {" ", "LF", "_", "~", "*", "tick"}
    BY LetterIs DEF EndsInWord
  <2>2. Len(w) \in 1..Len(w)
    BY ONLY <1>1
  <2>3. QED
    BY ONLY <1>1, <2>1, <2>2
<1>3. TicksOf(e) = TicksOf(w) /\ Occurs(e, Ticks) = {}
  <2>1. "tick" \notin EmphasisMarks
    BY DEF EmphasisMarks
  <2>2. QED
    BY <2>1, TicksStay
<1>4. /\ ~OddMatches(e, Ticks) /\ Matches(e, Ticks) = {}
      /\ \A i : ~InBlock(e, i)
      /\ \A i : ~PartOfTicks(e, i)
      /\ ~InlineTriple(e)
  BY <1>3, NoBlock
<1>5. {i \in DOMAIN e : e[i] = "tick" /\ ~PartOfTicks(e, i)} = TicksOf(e)
  <2>1. DOMAIN e = 1..Len(e)
    BY <1>1
  <2>2. QED
    BY ONLY <1>4, <2>1 DEF TicksOf
<1>6. Extends(w, e, CodeMarks)
  BY DEF Extends, EmphasisMarks, CodeMarks
<1>7. TicksOf(e) = TicksBefore(e, Len(e)) /\ Cardinality(TicksOf(e)) \in Nat
  <2>1. TicksOf(e) = TicksBefore(e, Len(e))
    BY DEF TicksOf, TicksBefore
  <2>2. QED
    BY ONLY <1>1, <2>1, TickStep
<1>8. CASE Cardinality(TicksOf(e)) % 2 = 0
  <2>1. ~(Cardinality(TicksOf(e)) % 2 = 1)
    BY ONLY <1>8
  <2>2. CloseInlineCode(e) = e
    BY ONLY <1>4, <1>5, <2>1 DEF CloseInlineCode
  <2>3. QED
    BY ONLY <1>3, <1>6, <1>8, <2>2
<1>9. CASE Cardinality(TicksOf(e)) % 2 = 1
  <2>1. TicksOf(e) # {}
    <3>1. Cardinality({}) = 0 /\ ~(0 % 2 = 1)
      BY FS_EmptySet
    <3>2. QED
      BY ONLY <1>9, <3>1
  <2>2. TicksOf(e) \subseteq 0..Len(e)
    BY ONLY <1>1 DEF TicksOf
  <2>3. Max(TicksOf(e)) \in TicksOf(e) /\ \A n \in TicksOf(e) : n <= Max(TicksOf(e))
    BY ONLY <1>1, <2>1, <2>2, MaxOf
  <2>4. PICK m \in 1..Len(e) : m = Max(TicksOf(e)) /\ e[m] = "tick"
    BY ONLY <2>3 DEF TicksOf
  <2>5. \A k \in m + 1 .. Len(e) : e[k] # "tick"
    <3>1. SUFFICES ASSUME NEW k \in m + 1 .. Len(e), e[k] = "tick"
                   PROVE  FALSE
      OBVIOUS
    <3>2. k \in 1..Len(e) /\ ~(k <= m)
      BY ONLY <1>1, m \in 1..Len(e), k \in m + 1 .. Len(e)
    <3>3. k \in TicksOf(e)
      BY ONLY <3>1, <3>2 DEF TicksOf
    <3>4. QED
      BY ONLY <2>3, <2>4, <3>2, <3>3
  <2>6. PICK n \in Nat : n = m - 1 /\ n + 1 = m /\ m \in Nat
    BY ONLY <1>1, m \in 1..Len(e)
  <2>7. ~InCode(e, m)
    <3>1. TicksOf(e) = TicksBefore(e, m)
      <4>1. m \in 0..Len(e)
        BY ONLY <1>1, m \in 1..Len(e)
      <4>2. QED
        BY ONLY <1>1, <2>5, <4>1, TicksAre
    <3>2. /\ Cardinality(TicksBefore(e, m)) = Cardinality(TicksBefore(e, n)) + 1
          /\ Cardinality(TicksBefore(e, n)) \in Nat
      BY ONLY <2>4, <2>6, TickStep
    <3>3. \A c \in Nat : (c + 1) % 2 = 1 => ~(c % 2 = 1)
      OBVIOUS
    <3>4. ~(Cardinality(TicksBefore(e, n)) % 2 = 1)
      BY ONLY <1>9, <3>1, <3>2, <3>3
    <3>5. {k \in 1..m - 1 :
             /\ e[k] = "tick" /\ ~InBlock(e, k)
             /\ \A o \in Matches(e, Ticks) : k \notin o..o + 2} = TicksBefore(e, n)
      BY ONLY <1>4, <2>6 DEF TicksBefore
    <3>6. QED
      BY ONLY <1>4, <3>4, <3>5 DEF InInline, InCode
  <2>8. ~Has(From(e, m), "tick")
    <3>1. m \in 0..Len(e)
      BY ONLY <1>1, m \in 1..Len(e)
    <3>2. QED
      BY ONLY <1>1, <2>5, <3>1, HasRest
  <2>9. ~NothingToClose(From(e, m))
    <3>1. m \in 1..Len(w)
      BY ONLY <1>3, <2>3, <2>4 DEF TicksOf
    <3>2. m # Len(w)
      BY ONLY <1>2, <2>4
    <3>3. Len(w) \in m + 1 .. Len(e) /\ m \in 0..Len(e)
      BY ONLY <1>1, <3>1, <3>2
    <3>4. QED
      BY ONLY <1>1, <1>2, <3>3, TextAfter
  <2>10. CloseInlineCode(e) = e \o <<"tick">>
    BY ONLY <1>4, <1>5, <1>9, <2>1, <2>4, <2>7, <2>8, <2>9 DEF CloseInlineCode
  <2>11. PICK c : c = e \o <<"tick">>
    OBVIOUS
  <2>12. Extends(e, c, {"tick"}) /\ Len(c) = Len(e) + 1
    <3>1. /\ <<"tick">> \in Seq(Sign) /\ Len(<<"tick">>) = 1
          /\ \A k \in 1..Len(<<"tick">>) : <<"tick">>[k] \in {"tick"}
      <4>1. /\ <<"tick">> \in Seq(Sign) /\ Len(<<"tick">>) = 1
            /\ <<"tick">>[1] = "tick"
        BY ONLY MarkersAre
      <4>2. \A k \in 1..1 : k = 1
        OBVIOUS
      <4>3. QED
        BY ONLY <4>1, <4>2
    <3>2. QED
      BY ONLY <1>1, <2>11, <3>1, JoinExtends
  <2>13. Extends(w, c, CodeMarks)
    <3>1. {"tick"} \subseteq CodeMarks
      BY DEF CodeMarks
    <3>2. QED
      BY ONLY <1>6, <2>12, <3>1, ExtendsTwice
  <2>14. /\ c \in Seq(Sign) /\ \A k \in 1..Len(e) : c[k] = e[k]
         /\ c[Len(e) + 1] = "tick" /\ Len(c) = Len(e) + 1
    <3>1. /\ c \in Seq(Sign) /\ \A k \in 1..Len(e) : c[k] = e[k]
          /\ \A k \in Len(e) + 1 .. Len(c) : c[k] \in {"tick"}
      BY ONLY <2>12 DEF Extends
    <3>2. Len(e) + 1 \in Len(e) + 1 .. Len(c)
      BY ONLY <1>1, <2>12
    <3>3. QED
      BY ONLY <2>12, <3>1, <3>2
  <2>15. Cardinality(TicksOf(c)) % 2 = 0
    <3>1. TicksOf(c) = TicksBefore(c, Len(e) + 1)
      BY ONLY <2>14 DEF TicksOf, TicksBefore
    <3>2. TicksBefore(c, Len(e)) = TicksOf(e)
      BY ONLY <2>14 DEF TicksOf, TicksBefore
    <3>3. Cardinality(TicksOf(c)) = Cardinality(TicksOf(e)) + 1
      BY ONLY <1>1, <2>14, <3>1, <3>2, TickStep
    <3>4. \A x \in Nat : x % 2 = 1 => (x + 1) % 2 = 0
      OBVIOUS
    <3>5. QED
      BY ONLY <1>7, <1>9, <3>3, <3>4
  <2>16. ASSUME NEW i \in Occurs(c, Ticks)
         PROVE  FALSE
    <3>1. i \in 1..Len(c) - 2 /\ c[i] = "tick" /\ c[i + 1] = "tick" /\ c[i + 2] = "tick"
      BY ONLY <2>14, i \in Occurs(c, Ticks), TripleAt DEF Ticks
    <3>2. i \in Nat /\ 1 <= i /\ i + 1 <= Len(e)
      BY ONLY <1>1, <2>14, <3>1
    <3>3. CASE i + 1 = Len(e)
      <4>1. e[Len(e)] = "tick"
        <5>1. Len(e) \in 1..Len(e)
          BY ONLY <1>1
        <5>2. QED
          BY ONLY <2>14, <3>1, <3>3, <5>1
      <4>2. e[Len(e)] # "tick"
        <5>1. Len(e) = Len(w) \/ Len(e) \in Len(w) + 1 .. Len(e)
          BY ONLY <1>1
        <5>2. QED
          BY ONLY <1>1, <1>2, <5>1 DEF EmphasisMarks
      <4>3. QED
        BY ONLY <4>1, <4>2
    <3>4. CASE i + 1 # Len(e)
      <4>1. /\ i \in 1..Len(e) - 2 /\ i \in 1..Len(e) /\ i + 1 \in 1..Len(e)
            /\ i + 2 \in 1..Len(e)
        BY ONLY <1>1, <3>2, <3>4
      <4>2. e[i] = "tick" /\ e[i + 1] = "tick" /\ e[i + 2] = "tick"
        BY ONLY <2>14, <3>1, <4>1
      <4>3. i \in Occurs(e, Ticks)
        BY ONLY <1>1, <4>1, <4>2, TripleAt DEF Ticks
      <4>4. QED
        BY ONLY <1>3, <4>3
    <3>5. QED
      BY ONLY <3>3, <3>4
  <2>17. QED
    BY ONLY <2>10, <2>11, <2>13, <2>15, <2>16
<1>10. QED
  <2>1. \A c \in Nat : c % 2 = 0 \/ c % 2 = 1
    OBVIOUS
  <2>2. QED
    BY ONLY <1>7, <1>8, <1>9, <2>1

(***************************************************************************)
(* balance_katex_block: behind it the number of pairs of dollar signs is   *)
(* even, and no inline code is open if none was.                           *)
(***************************************************************************)
LEMMA KatexCloses ==
  ASSUME NEW s \in Seq(Sign), Len(s) >= 1, s[Len(s)] # "$",
         Occurs(s, Ticks) = {}, Cardinality(TicksOf(s)) % 2 = 0
  PROVE  /\ ~InInline(CloseKatex(s), Len(CloseKatex(s)) + 1)
         /\ DollarPairs(CloseKatex(s)) % 2 = 0
<1>1. Len(s) \in Nat /\ Extends(s, s, {"LF", "$"})
  BY ExtendsItself
<1>2. ASSUME NEW u, Extends(s, u, {"LF", "$"})
      PROVE  ~InInline(u, Len(u) + 1)
  <2>1. TicksOf(u) = TicksOf(s) /\ Occurs(u, Ticks) = {} /\ u \in Seq(Sign)
    <3>1. "tick" \notin {"LF", "$"}
      OBVIOUS
    <3>2. TicksOf(u) = TicksOf(s) /\ (Occurs(s, Ticks) = {} => Occurs(u, Ticks) = {})
      BY ONLY <1>2, <3>1, TicksStay
    <3>3. QED
      BY ONLY <1>2, <3>2, Occurs(s, Ticks) = {} DEF Extends
  <2>2. QED
    BY ONLY <2>1, Cardinality(TicksOf(s)) % 2 = 0, InlineClosed
<1>3. CASE DollarPairs(s) % 2 = 0
  <2>1. CloseKatex(s) = s
    BY ONLY <1>3 DEF CloseKatex
  <2>2. QED
    BY ONLY <1>1, <1>2, <1>3, <2>1
<1>4. CASE ~(DollarPairs(s) % 2 = 0)
  <2>1. CloseKatex(s) \in {s \o <<"LF">> \o Dollars, s \o Dollars}
    BY ONLY <1>4 DEF CloseKatex
  <2>2. \A c \in Nat : ~(c % 2 = 0) => (c + 1) % 2 = 0
    OBVIOUS
  <2>3. PICK d \in Seq(Sign) : d = Dollars /\ Len(d) = 2 /\ d[1] = "$" /\ d[2] = "$"
    BY ONLY MarkersAre DEF Dollars
  <2>4. \A k \in 1..Len(d) : d[k] \in {"LF", "$"}
    <3>1. \A k \in 1..2 : k = 1 \/ k = 2
      OBVIOUS
    <3>2. QED
      BY ONLY <2>3, <3>1
  <2>5. PICK l \in Seq(Sign) : l = <<"LF">> /\ Len(l) = 1 /\ l[1] = "LF"
    BY ONLY MarkersAre
  <2>6. \A k \in 1..Len(l) : l[k] \in {"LF", "$"}
    <3>1. \A k \in 1..1 : k = 1
      OBVIOUS
    <3>2. QED
      BY ONLY <2>5, <3>1
  <2>7. ASSUME NEW u, u = s \o Dollars
        PROVE  ~InInline(u, Len(u) + 1) /\ DollarPairs(u) % 2 = 0
    <3>1. Extends(s, u, {"LF", "$"}) /\ Len(u) = Len(s) + 2
      BY ONLY <2>3, <2>4, <2>7, s \in Seq(Sign), JoinExtends
    <3>2. u[Len(s) + 1] = "$" /\ u[Len(s) + 2] = "$"
      <4>1. \A k \in 1..Len(d) : (s \o d)[Len(s) + k] = d[k]
        BY ONLY s \in Seq(Sign), d \in Seq(Sign), JoinIs
      <4>2. 1 \in 1..2 /\ 2 \in 1..2
        OBVIOUS
      <4>3. QED
        BY ONLY <2>3, <2>7, <4>1, <4>2
    <3>3. Len(s) \in {Len(s), Len(s) + 1} /\ Len(s) # Len(s) + 1
      BY ONLY <1>1
    <3>4. PICK e \in Nat : e = Len(s)
      BY ONLY <1>1
    <3>5. DollarPairs(s) \in Nat /\ DollarPairs(u) = DollarPairs(s) + 1
      <4>1. /\ e \in {Len(s), Len(s) + 1} /\ Len(u) = e + 2 /\ u[e + 1] = "$"
            /\ u[e + 2] = "$" /\ (e = Len(s) + 1 => u[e] = "LF")
        BY ONLY <3>1, <3>2, <3>3, <3>4
      <4>2. QED
        BY <3>1, <4>1, PairAdded
    <3>6. QED
      BY ONLY <1>2, <1>4, <2>2, <3>1, <3>5
  <2>8. ASSUME NEW u, u = s \o <<"LF">> \o Dollars
        PROVE  ~InInline(u, Len(u) + 1) /\ DollarPairs(u) % 2 = 0
    <3>1. PICK v : v = s \o l
      OBVIOUS
    <3>2. Extends(s, v, {"LF", "$"}) /\ Len(v) = Len(s) + 1
      BY ONLY <2>5, <2>6, <3>1, s \in Seq(Sign), JoinExtends
    <3>3. v \in Seq(Sign)
      BY ONLY <3>2 DEF Extends
    <3>4. u = v \o d
      BY ONLY <2>3, <2>5, <2>8, <3>1
    <3>5. Extends(v, u, {"LF", "$"}) /\ Len(u) = Len(v) + 2
      BY ONLY <2>3, <2>4, <3>3, <3>4, JoinExtends
    <3>6. Extends(s, u, {"LF", "$"})
      <4>1. {"LF", "$"} \subseteq {"LF", "$"}
        OBVIOUS
      <4>2. QED
        BY ONLY <3>2, <3>5, <4>1, ExtendsTwice
    <3>7. PICK e \in Nat : e = Len(v)
      BY ONLY <3>5 DEF Extends
    <3>8. u[e + 1] = "$" /\ u[e + 2] = "$"
      <4>1. \A k \in 1..Len(d) : (v \o d)[Len(v) + k] = d[k]
        BY ONLY <3>3, d \in Seq(Sign), JoinIs
      <4>2. 1 \in 1..2 /\ 2 \in 1..2
        OBVIOUS
      <4>3. QED
        BY ONLY <2>3, <3>4, <3>7, <4>1, <4>2
    <3>9. u[e] = "LF"
      <4>1. v[Len(s) + 1] = l[1]
        <5>1. \A k \in 1..Len(l) : (s \o l)[Len(s) + k] = l[k]
          BY ONLY s \in Seq(Sign), l \in Seq(Sign), JoinIs
        <5>2. 1 \in 1..1
          OBVIOUS
        <5>3. QED
          BY ONLY <2>5, <3>1, <5>1, <5>2
      <4>2. e \in 1..Len(v)
        BY ONLY <1>1, <3>2, <3>7
      <4>3. u[e] = v[e]
        BY ONLY <3>5, <4>2 DEF Extends
      <4>4. QED
        BY ONLY <2>5, <3>2, <3>7, <4>1, <4>3
    <3>10. DollarPairs(s) \in Nat /\ DollarPairs(u) = DollarPairs(s) + 1
      <4>1. e \in {Len(s), Len(s) + 1} /\ Len(u) = e + 2
        BY ONLY <3>2, <3>5, <3>7
      <4>2. QED
        BY <3>6, <3>8, <3>9, <4>1, PairAdded
    <3>11. QED
      BY ONLY <1>2, <1>4, <2>2, <3>6, <3>10
  <2>9. QED
    BY ONLY <2>1, <2>7, <2>8
<1>5. QED
  BY ONLY <1>3, <1>4

(***************************************************************************)
(* What all repairs together do to a text that ends with a letter, where   *)
(* no three backticks come together.                                       *)
(***************************************************************************)
LEMMA CodeAndMathClosed ==
  ASSUME Repairs = AllRepairs, NEW w, EndsInWord(w), Occurs(w, Ticks) = {}
  PROVE  /\ ~InInline(CloseMarkers(w), Len(CloseMarkers(w)) + 1)
         /\ DollarPairs(CloseMarkers(w)) % 2 = 0
<1>1. PICK e : e = CloseEmphasis(w)
  OBVIOUS
<1>2. PICK c : c = CloseInlineCode(e)
  OBVIOUS
<1>3. PICK s : s = CloseStrike(c)
  OBVIOUS
<1>4. CloseMarkers(w) = CloseKatex(s)
  <2>1. {"emphasis", "inline_code", "strikethrough", "katex_block"} \subseteq Repairs
    BY DEF AllRepairs
  <2>2. QED
    BY ONLY <1>1, <1>2, <1>3, <2>1 DEF CloseMarkers, If
<1>5. /\ Extends(w, c, CodeMarks) /\ Occurs(c, Ticks) = {}
      /\ Cardinality(TicksOf(c)) % 2 = 0
  <2>1. Extends(w, e, EmphasisMarks)
    BY <1>1, EmphasisExtends
  <2>2. QED
    BY <1>2, <2>1, CodeCloses
<1>6. c \in Seq(Sign)
  BY ONLY <1>5 DEF Extends
<1>7. Extends(c, s, {"~"})
  <2>1. s \in {c, c \o Strike}
    BY ONLY <1>3 DEF CloseStrike
  <2>2. Strike \in Seq(Sign) /\ \A k \in 1..Len(Strike) : Strike[k] \in {"~"}
    <3>1. Strike \in Seq(Sign) /\ Len(Strike) = 2 /\ Strike[1] = "~" /\ Strike[2] = "~"
      BY ONLY MarkersAre DEF Strike
    <3>2. \A k \in 1..2 : k = 1 \/ k = 2
      OBVIOUS
    <3>3. QED
      BY ONLY <3>1, <3>2
  <2>3. Extends(c, c, {"~"}) /\ Extends(c, c \o Strike, {"~"})
    BY ONLY <1>6, <2>2, ExtendsItself, JoinExtends
  <2>4. QED
    BY ONLY <2>1, <2>3
<1>8. s \in Seq(Sign) /\ Occurs(s, Ticks) = {} /\ TicksOf(s) = TicksOf(c)
  <2>1. "tick" \notin {"~"}
    OBVIOUS
  <2>2. TicksOf(s) = TicksOf(c) /\ (Occurs(c, Ticks) = {} => Occurs(s, Ticks) = {})
    BY ONLY <1>7, <2>1, TicksStay
  <2>3. s \in Seq(Sign)
    BY ONLY <1>7 DEF Extends
  <2>4. QED
    BY ONLY <1>5, <2>2, <2>3
<1>9. Extends(w, s, CodeMarks \cup {"~"})
  <2>1. Extends(w, c, CodeMarks \cup {"~"})
    BY ONLY <1>5 DEF Extends
  <2>2. {"~"} \subseteq CodeMarks \cup {"~"}
    OBVIOUS
  <2>3. QED
    BY ONLY <1>7, <2>1, <2>2, ExtendsTwice
<1>10. Len(s) >= 1 /\ s[Len(s)] # "$"
  <2>1. /\ Len(w) \in Nat /\ Len(s) \in Nat /\ Len(w) <= Len(s)
        /\ \A k \in 1..Len(w) : s[k] = w[k]
        /\ \A k \in Len(w) + 1 .. Len(s) : s[k] \in CodeMarks \cup {"~"}
    BY ONLY <1>9 DEF Extends
  <2>2. Len(w) >= 1 /\ w[Len(w)] # "$"
    BY LetterIs DEF EndsInWord
  <2>3. Len(s) = Len(w) \/ Len(s) \in Len(w) + 1 .. Len(s)
    BY ONLY <2>1
  <2>4. Len(w) \in 1..Len(w)
    BY ONLY <2>1, <2>2
  <2>5. s[Len(s)] # "$"
    BY ONLY <2>1, <2>2, <2>3, <2>4 DEF CodeMarks
  <2>6. QED
    BY ONLY <2>1, <2>2, <2>5
<1>11. QED
  BY ONLY <1>4, <1>5, <1>8, <1>10, KatexCloses

-----------------------------------------------------------------------------
(***************************************************************************)
(* Without the characters it is about, a repair does nothing.              *)
(***************************************************************************)
LEMMA Idle ==
  ASSUME NEW s \in Seq(Sign)
  PROVE  /\ ~Has(s, "*") => /\ CloseBoldItalic(s) = s /\ ClosePair(s, Bold) = s
                            /\ CloseAsterisk(s) = s
         /\ ~Has(s, "_") => ClosePair(s, <<"_", "_">>) = s /\ CloseUnderscore(s) = s
         /\ ~Has(s, "~") => CloseStrike(s) = s
         /\ ~Has(s, "tick") => CloseInlineCode(s) = s
         /\ ~Has(s, "$") => CloseKatex(s) = s
<1>1. ASSUME ~Has(s, "*")
      PROVE  /\ CloseBoldItalic(s) = s /\ ClosePair(s, Bold) = s
             /\ CloseAsterisk(s) = s
  <2>1. Occurs(s, <<"*", "*">>) = {} /\ Occurs(s, <<"*", "*", "*">>) = {}
    BY ONLY <1>1, s \in Seq(Sign), NoneOf
  <2>2. Occurs(s, Bold) = {} /\ Occurs(s, Triple) = {}
    BY ONLY <2>1 DEF Bold, Triple
  <2>3. Asterisks(s) = {}
    BY ONLY <1>1 DEF Asterisks, Has
  <2>4. QED
    BY ONLY <2>2, <2>3, NoOccurrence, NoneCounts
<1>2. ASSUME ~Has(s, "_")
      PROVE  ClosePair(s, <<"_", "_">>) = s /\ CloseUnderscore(s) = s
  <2>1. Occurs(s, <<"_", "_">>) = {}
    BY ONLY <1>2, s \in Seq(Sign), NoneOf
  <2>2. Underscores(s) = {}
    BY ONLY <1>2 DEF Underscores, Has
  <2>3. QED
    BY ONLY <2>1, <2>2, NoOccurrence, NoneCounts
<1>3. ASSUME ~Has(s, "~")
      PROVE  CloseStrike(s) = s
  <2>1. Occurs(s, <<"~", "~">>) = {}
    BY ONLY <1>3, s \in Seq(Sign), NoneOf
  <2>2. QED
    BY ONLY <2>1, NoneCounts DEF Strike
<1>4. ~Has(s, "tick") => CloseInlineCode(s) = s
  BY ONLY s \in Seq(Sign), NoCode
<1>5. ~Has(s, "$") => CloseKatex(s) = s
  BY ONLY s \in Seq(Sign), NoDollar
<1>6. QED
  BY ONLY <1>1, <1>2, <1>3, <1>4, <1>5

(***************************************************************************)
(* A text goes on without a character that it does not have.               *)
(***************************************************************************)
LEMMA StillWithout ==
  ASSUME NEW w, NEW t, NEW M, Extends(w, t, M), NEW c, c \notin M, ~Has(w, c)
  PROVE  ~Has(t, c)
<1>1. /\ w \in Seq(Sign) /\ t \in Seq(Sign) /\ Len(w) \in Nat /\ Len(t) \in Nat
      /\ Len(w) <= Len(t)
      /\ \A k \in 1..Len(w) : t[k] = w[k]
      /\ \A k \in Len(w) + 1 .. Len(t) : t[k] \in M
  BY DEF Extends
<1>2. DOMAIN w = 1..Len(w) /\ DOMAIN t = 1..Len(t)
  BY ONLY <1>1
<1>3. \A k \in 1..Len(w) : w[k] # c
  BY ONLY <1>2, ~Has(w, c) DEF Has
<1>4. ASSUME NEW k \in 1..Len(t), t[k] = c
      PROVE  FALSE
  <2>1. k \in 1..Len(w) \/ k \in Len(w) + 1 .. Len(t)
    BY ONLY <1>1, k \in 1..Len(t)
  <2>2. QED
    BY ONLY <1>1, <1>3, <1>4, <2>1, c \notin M
<1>5. QED
  BY ONLY <1>2, <1>4 DEF Has

-----------------------------------------------------------------------------
(***************************************************************************)
(* All characters c come in pairs, and no two pairs in a row.              *)
(***************************************************************************)
Paired(s, c) ==
  \A i \in 1..Len(s) :
    s[i] = c => \E o \in Matches(s, <<c, c>>) :
                  (i = o \/ i = o + 1) /\ At(s, o - 1) # c /\ At(s, o + 2) # c

(***************************************************************************)
(* Then every occurrence of a pair is one of these.                        *)
(***************************************************************************)
LEMMA PairsApart ==
  ASSUME NEW s \in Seq(Sign), NEW c, Paired(s, c)
  PROVE  /\ Occurs(s, <<c, c>>) = Matches(s, <<c, c>>)
         /\ Occurs(s, <<c, c, c>>) = {}
         /\ \A i \in 1..Len(s) : s[i] = c =>
              \/ i - 1 \in 1..Len(s) /\ s[i - 1] = c
              \/ i + 1 \in 1..Len(s) /\ s[i + 1] = c
<1>1. Len(s) \in Nat /\ DOMAIN s = 1..Len(s)
  OBVIOUS
<1>2. \A o \in Occurs(s, <<c, c>>) :
        o \in 1..Len(s) - 1 /\ s[o] = c /\ s[o + 1] = c
  BY ONLY s \in Seq(Sign), PairAt
<1>3. \A o \in Matches(s, <<c, c>>) : o \in Occurs(s, <<c, c>>)
  BY DEF Matches
<1>4. ASSUME NEW i \in 1..Len(s) - 1, s[i] = c, s[i + 1] = c
      PROVE  i \in Matches(s, <<c, c>>) /\ At(s, i + 2) # c
  <2>1. i \in Nat /\ i \in 1..Len(s) /\ i + 1 \in 1..Len(s)
    BY ONLY <1>1, i \in 1..Len(s) - 1
  <2>2. PICK o \in Matches(s, <<c, c>>) :
          (i = o \/ i = o + 1) /\ At(s, o - 1) # c /\ At(s, o + 2) # c
    BY ONLY <1>4, <2>1, Paired(s, c) DEF Paired
  <2>3. o \in Nat
    BY ONLY <1>1, <1>2, <1>3
  <2>4. CASE i = o + 1
    <3>1. i + 1 = o + 2
      BY ONLY <2>3, <2>4
    <3>2. At(s, o + 2) = c
      BY ONLY <1>1, <1>4, <2>1, <3>1 DEF At
    <3>3. QED
      BY ONLY <2>2, <3>2
  <2>5. QED
    BY ONLY <2>2, <2>4
<1>5. Occurs(s, <<c, c>>) = Matches(s, <<c, c>>)
  BY ONLY <1>2, <1>3, <1>4
<1>6. ASSUME NEW i \in Occurs(s, <<c, c, c>>)
      PROVE  FALSE
  <2>1. i \in 1..Len(s) - 2 /\ s[i] = c /\ s[i + 1] = c /\ s[i + 2] = c
    BY ONLY s \in Seq(Sign), TripleAt, i \in Occurs(s, <<c, c, c>>)
  <2>2. i \in 1..Len(s) - 1 /\ i + 2 \in 1..Len(s)
    BY ONLY <1>1, <2>1
  <2>3. At(s, i + 2) = c
    BY ONLY <1>1, <2>1, <2>2 DEF At
  <2>4. QED
    BY ONLY <1>4, <2>1, <2>2, <2>3
<1>7. ASSUME NEW i \in 1..Len(s), s[i] = c
      PROVE  \/ i - 1 \in 1..Len(s) /\ s[i - 1] = c
             \/ i + 1 \in 1..Len(s) /\ s[i + 1] = c
  <2>1. PICK o \in Matches(s, <<c, c>>) : i = o \/ i = o + 1
    BY ONLY <1>7, Paired(s, c) DEF Paired
  <2>2. o \in 1..Len(s) - 1 /\ s[o] = c /\ s[o + 1] = c
    BY ONLY <1>2, <1>3
  <2>3. /\ o \in 1..Len(s) /\ o + 1 \in 1..Len(s) /\ o \in Nat
        /\ (i = o + 1 => i - 1 = o)
    BY ONLY <1>1, <2>2, i \in 1..Len(s)
  <2>4. QED
    BY ONLY <2>1, <2>2, <2>3
<1>8. QED
  BY ONLY <1>5, <1>6, <1>7

(***************************************************************************)
(* Markers that come in pairs are no single ones, and not three.           *)
(***************************************************************************)
LEMMA PairsAreNotSingle ==
  ASSUME NEW s \in Seq(Sign)
  PROVE  /\ Paired(s, "*") => /\ Asterisks(s) = {} /\ Occurs(s, Triple) = {}
                              /\ CloseAsterisk(s) = s /\ CloseBoldItalic(s) = s
         /\ Paired(s, "_") => Underscores(s) = {} /\ CloseUnderscore(s) = s
<1>1. DOMAIN s = 1..Len(s) /\ Len(s) \in Nat
  OBVIOUS
<1>2. ASSUME Paired(s, "*")
      PROVE  Asterisks(s) = {} /\ Occurs(s, Triple) = {}
  <2>1. Occurs(s, <<"*", "*", "*">>) = {}
    BY ONLY <1>2, s \in Seq(Sign), PairsApart
  <2>2. \A i \in 1..Len(s) : s[i] = "*" =>
          \/ i - 1 \in 1..Len(s) /\ s[i - 1] = "*"
          \/ i + 1 \in 1..Len(s) /\ s[i + 1] = "*"
    BY ONLY <1>2, s \in Seq(Sign), PairsApart
  <2>3. ASSUME NEW i \in Asterisks(s)
        PROVE  FALSE
    <3>1. /\ i \in 1..Len(s) /\ s[i] = "*" /\ At(s, i - 1) # "*"
          /\ At(s, i + 1) = "*" => At(s, i + 2) = "*"
      BY ONLY <1>1, i \in Asterisks(s) DEF Asterisks
    <3>2. i + 1 \in 1..Len(s) /\ s[i + 1] = "*"
      BY ONLY <1>1, <2>2, <3>1 DEF At
    <3>3. At(s, i + 1) = "*"
      BY ONLY <1>1, <3>2 DEF At
    <3>4. At(s, i + 2) = "*"
      BY ONLY <3>1, <3>3
    <3>5. i + 2 \in 1..Len(s) /\ s[i + 2] = "*"
      <4>1. "*" # "none"
        OBVIOUS
      <4>2. QED
        BY ONLY <1>1, <3>4, <4>1 DEF At
    <3>6. i \in 1..Len(s) - 2
      BY ONLY <1>1, <3>1, <3>5
    <3>7. i \in Occurs(s, <<"*", "*", "*">>)
      BY ONLY <3>1, <3>2, <3>5, <3>6, s \in Seq(Sign), TripleAt
    <3>8. QED
      BY ONLY <2>1, <3>7
  <2>4. QED
    BY ONLY <2>1, <2>3 DEF Triple
<1>3. ASSUME Paired(s, "_")
      PROVE  Underscores(s) = {}
  <2>1. \A i \in 1..Len(s) : s[i] = "_" =>
          \/ i - 1 \in 1..Len(s) /\ s[i - 1] = "_"
          \/ i + 1 \in 1..Len(s) /\ s[i + 1] = "_"
    BY ONLY <1>3, s \in Seq(Sign), PairsApart
  <2>2. ASSUME NEW i \in Underscores(s)
        PROVE  FALSE
    <3>1. i \in 1..Len(s) /\ s[i] = "_" /\ At(s, i - 1) # "_" /\ At(s, i + 1) # "_"
      BY ONLY <1>1, i \in Underscores(s) DEF Underscores
    <3>2. QED
      BY ONLY <1>1, <2>1, <3>1 DEF At
  <2>3. QED
    BY ONLY <2>2
<1>4. QED
  BY ONLY <1>2, <1>3, NoneCounts

-----------------------------------------------------------------------------
(***************************************************************************)
(* One character, or two equal ones, as a sequence.                        *)
(***************************************************************************)
LEMMA TwoEqual ==
  \A c : /\ Len(<<c, c>>) = 2 /\ <<c, c>>[1] = c
         /\ Len(<<c>>) = 1 /\ <<c>>[1] = c
OBVIOUS

(***************************************************************************)
(* Odd and even numbers.                                                   *)
(***************************************************************************)
LEMMA OddEven ==
  /\ Cardinality({}) = 0 /\ 0 % 2 = 0
  /\ \A x \in Nat : /\ x % 2 = 0 \/ x % 2 = 1
                    /\ x % 2 = 1 => (x + 1) % 2 = 0
                    /\ x % 2 = 0 => ~(x % 2 = 1)
BY FS_EmptySet

(***************************************************************************)
(* The same characters right before position i.                            *)
(***************************************************************************)
RunBefore(s, i) == {j \in 1..i - 1 : \A k \in j..i - 1 : s[k] = s[i]}

(***************************************************************************)
(* A pair more behind a letter is one that a search finds, and the others  *)
(* are those that it found before.                                         *)
(***************************************************************************)
LEMMA MatchesGrow ==
  ASSUME NEW w, EndsInWord(w), NEW c, c \in {"*", "_", "~"}, NEW v,
         Extends(w, v, {c}), Len(v) = Len(w) + 2
  PROVE  /\ Matches(v, <<c, c>>) = Matches(w, <<c, c>>) \cup {Len(w) + 1}
         /\ Len(w) + 1 \notin Matches(w, <<c, c>>)
         /\ \A o \in Matches(w, <<c, c>>) : o \in Nat /\ 1 <= o /\ o + 2 <= Len(w)
<1>1. /\ w \in Seq(Sign) /\ v \in Seq(Sign) /\ Len(w) \in Nat /\ Len(v) \in Nat
      /\ Len(w) >= 1
      /\ \A k \in 1..Len(w) : v[k] = w[k]
      /\ \A k \in Len(w) + 1 .. Len(v) : v[k] = c
  BY DEF Extends, EndsInWord
<1>2. w[Len(w)] # c /\ v[Len(w)] # c
  <2>1. w[Len(w)] # c
    BY LetterIs DEF EndsInWord
  <2>2. Len(w) \in 1..Len(w)
    BY ONLY <1>1
  <2>3. QED
    BY ONLY <1>1, <2>1, <2>2
<1>3. PICK p : p = <<c, c>> /\ Len(p) = 2
  BY ONLY TwoEqual
<1>4. /\ \A i : i \in Occurs(w, p)
                  <=> i \in 1..Len(w) - 1 /\ w[i] = c /\ w[i + 1] = c
      /\ \A i : i \in Occurs(v, p)
                  <=> i \in 1..Len(v) - 1 /\ v[i] = c /\ v[i + 1] = c
  BY ONLY <1>1, <1>3, PairAt
<1>5. /\ Matches(w, p) = {i \in Occurs(w, p) : Cardinality(RunBefore(w, i)) % 2 = 0}
      /\ Matches(v, p) = {i \in Occurs(v, p) : Cardinality(RunBefore(v, i)) % 2 = 0}
  BY ONLY <1>3 DEF Matches, RunBefore
<1>6. ASSUME NEW i \in Occurs(w, p)
      PROVE  /\ i \in Nat /\ 1 <= i /\ i + 2 <= Len(w) /\ i \in Occurs(v, p)
             /\ RunBefore(w, i) = RunBefore(v, i)
  <2>1. i \in 1..Len(w) - 1 /\ w[i] = c /\ w[i + 1] = c
    BY ONLY <1>4, i \in Occurs(w, p)
  <2>2. i + 1 # Len(w)
    BY ONLY <1>2, <2>1
  <2>3. /\ i \in Nat /\ 1 <= i /\ i + 2 <= Len(w) /\ i \in 1..Len(w)
        /\ i + 1 \in 1..Len(w) /\ i \in 1..Len(v) - 1
    BY ONLY <1>1, <2>1, <2>2, Len(v) = Len(w) + 2
  <2>4. i \in Occurs(v, p)
    <3>1. v[i] = c /\ v[i + 1] = c
      BY ONLY <1>1, <2>1, <2>3
    <3>2. QED
      BY ONLY <1>4, <2>3, <3>1
  <2>5. RunBefore(w, i) = RunBefore(v, i)
    <3>1. \A j \in 1..i - 1 : \A k \in j..i - 1 : k \in 1..Len(w)
      BY ONLY <1>1, <2>3
    <3>2. \A j \in 1..i - 1 : \A k \in j..i - 1 : v[k] = w[k]
      BY ONLY <1>1, <3>1
    <3>3. v[i] = w[i]
      BY ONLY <1>1, <2>3
    <3>4. QED
      BY ONLY <3>2, <3>3 DEF RunBefore
  <2>6. QED
    BY ONLY <2>3, <2>4, <2>5
<1>7. ASSUME NEW i \in Occurs(v, p), i # Len(w) + 1
      PROVE  i \in Occurs(w, p)
  <2>1. i \in 1..Len(v) - 1 /\ v[i] = c /\ v[i + 1] = c
    BY ONLY <1>4, i \in Occurs(v, p)
  <2>2. i # Len(w) /\ i + 1 # Len(w)
    BY ONLY <1>2, <2>1
  <2>3. i \in 1..Len(w) /\ i + 1 \in 1..Len(w) /\ i \in 1..Len(w) - 1
    BY ONLY <1>1, <1>7, <2>1, <2>2, Len(v) = Len(w) + 2
  <2>4. w[i] = c /\ w[i + 1] = c
    BY ONLY <1>1, <2>1, <2>3
  <2>5. QED
    BY ONLY <1>4, <2>3, <2>4
<1>8. PICK n \in Nat : n = Len(w) + 1
  BY ONLY <1>1
<1>9. n \in Matches(v, p)
  <2>1. /\ n \in 1..Len(v) - 1 /\ n \in Len(w) + 1 .. Len(v)
        /\ n + 1 \in Len(w) + 1 .. Len(v) /\ n - 1 = Len(w)
    BY ONLY <1>1, <1>8, Len(v) = Len(w) + 2
  <2>2. n \in Occurs(v, p) /\ v[n] = c
    BY ONLY <1>1, <1>4, <2>1
  <2>3. RunBefore(v, n) = {}
    <3>1. ASSUME NEW j \in 1..Len(w), \A k \in j..Len(w) : v[k] = c
          PROVE  FALSE
      <4>1. Len(w) \in j..Len(w)
        BY ONLY <1>1, j \in 1..Len(w)
      <4>2. QED
        BY ONLY <1>2, <3>1, <4>1
    <3>2. QED
      BY ONLY <2>1, <2>2, <3>1 DEF RunBefore
  <2>4. Cardinality({}) = 0 /\ 0 % 2 = 0
    BY ONLY OddEven
  <2>5. QED
    BY ONLY <1>5, <2>2, <2>3, <2>4
<1>10. n \notin Matches(w, p)
  <2>1. ~(n + 2 <= Len(w))
    BY ONLY <1>1, <1>8
  <2>2. QED
    BY ONLY <1>5, <1>6, <2>1
<1>11. Matches(v, p) = Matches(w, p) \cup {n}
  <2>1. \A i \in Matches(w, p) : i \in Matches(v, p)
    BY ONLY <1>5, <1>6
  <2>2. \A i \in Matches(v, p) : i = n \/ i \in Matches(w, p)
    BY ONLY <1>5, <1>6, <1>7, <1>8
  <2>3. QED
    BY ONLY <1>9, <2>1, <2>2
<1>12. \A o \in Matches(w, p) : o \in Nat /\ 1 <= o /\ o + 2 <= Len(w)
  BY ONLY <1>5, <1>6
<1>13. QED
  BY ONLY <1>3, <1>8, <1>10, <1>11, <1>12

(***************************************************************************)
(* So it makes an odd number of pairs even, and the pairs stay apart.      *)
(***************************************************************************)
LEMMA PairCloses ==
  ASSUME NEW w, EndsInWord(w), NEW c, c \in {"*", "_", "~"}, NEW v,
         Extends(w, v, {c}), Len(v) = Len(w) + 2
  PROVE  /\ OddMatches(w, <<c, c>>) => ~OddMatches(v, <<c, c>>)
         /\ Paired(w, c) => Paired(v, c)
<1>1. /\ w \in Seq(Sign) /\ v \in Seq(Sign) /\ Len(w) \in Nat /\ Len(v) \in Nat
      /\ Len(w) >= 1 /\ DOMAIN w = 1..Len(w) /\ DOMAIN v = 1..Len(v)
      /\ \A k \in 1..Len(w) : v[k] = w[k]
      /\ \A k \in Len(w) + 1 .. Len(v) : v[k] = c
  <2>1. /\ w \in Seq(Sign) /\ v \in Seq(Sign) /\ Len(w) \in Nat /\ Len(v) \in Nat
        /\ Len(w) >= 1
        /\ \A k \in 1..Len(w) : v[k] = w[k]
        /\ \A k \in Len(w) + 1 .. Len(v) : v[k] = c
    BY DEF Extends, EndsInWord
  <2>2. DOMAIN w = 1..Len(w) /\ DOMAIN v = 1..Len(v)
    BY ONLY <2>1
  <2>3. QED
    BY ONLY <2>1, <2>2
<1>2. v[Len(w)] # c /\ c # "none"
  <2>1. w[Len(w)] # c
    BY LetterIs DEF EndsInWord
  <2>2. Len(w) \in 1..Len(w)
    BY ONLY <1>1
  <2>3. QED
    BY ONLY <1>1, <2>1, <2>2, c \in {"*", "_", "~"}
<1>3. PICK p : p = <<c, c>>
  OBVIOUS
<1>4. PICK n \in Nat : n = Len(w) + 1 /\ Len(v) = n + 1
  BY ONLY <1>1, Len(v) = Len(w) + 2
<1>5. /\ Matches(v, p) = Matches(w, p) \cup {n} /\ n \notin Matches(w, p)
      /\ \A o \in Matches(w, p) : o \in Nat /\ 1 <= o /\ o + 2 <= Len(w)
  BY <1>3, <1>4, MatchesGrow
<1>6. ASSUME OddMatches(w, p)
      PROVE  ~OddMatches(v, p)
  <2>1. IsFiniteSet(Matches(w, p))
    <3>1. Matches(w, p) \subseteq 1..Len(w)
      BY ONLY <1>1, <1>5
    <3>2. IsFiniteSet(1..Len(w))
      BY ONLY <1>1, FS_Interval
    <3>3. QED
      BY ONLY <3>1, <3>2, FS_Subset
  <2>2. /\ Cardinality(Matches(v, p)) = Cardinality(Matches(w, p)) + 1
        /\ Cardinality(Matches(w, p)) \in Nat
    BY ONLY <1>5, <2>1, FS_AddElement, FS_CardinalityType
  <2>3. Cardinality(Matches(w, p)) % 2 = 1
    BY ONLY <1>6 DEF OddMatches
  <2>4. PICK x \in Nat : x = Cardinality(Matches(w, p))
    BY ONLY <2>2
  <2>5. x + 1 \in Nat /\ (x + 1) % 2 = 0
    BY ONLY <2>3, <2>4, OddEven
  <2>6. ~((x + 1) % 2 = 1)
    BY ONLY <2>5
  <2>7. QED
    BY ONLY <2>2, <2>4, <2>6 DEF OddMatches
<1>7. ASSUME Paired(w, c)
      PROVE  Paired(v, c)
  <2>1. SUFFICES ASSUME NEW i \in 1..Len(v), v[i] = c
                 PROVE  \E o \in Matches(v, p) :
                          (i = o \/ i = o + 1) /\ At(v, o - 1) # c /\ At(v, o + 2) # c
    BY <1>3, Zenon DEF Paired
  <2>2. CASE i \in 1..Len(w)
    <3>1. w[i] = c
      BY ONLY <1>1, <2>1, <2>2
    <3>2. PICK o \in Matches(w, p) :
            (i = o \/ i = o + 1) /\ At(w, o - 1) # c /\ At(w, o + 2) # c
      BY ONLY <1>3, <1>7, <2>2, <3>1 DEF Paired
    <3>3. o \in Nat /\ 1 <= o /\ o + 2 <= Len(w)
      BY ONLY <1>5
    <3>4. o + 2 \in 1..Len(w) /\ o + 2 \in 1..Len(v)
      BY ONLY <1>1, <1>4, <3>3
    <3>5. At(v, o + 2) = At(w, o + 2)
      BY ONLY <1>1, <3>4 DEF At
    <3>6. At(v, o - 1) = At(w, o - 1)
      <4>1. o - 1 \in 1..Len(w) <=> o - 1 \in 1..Len(v)
        BY ONLY <1>1, <1>4, <3>3
      <4>2. o - 1 \in 1..Len(w) => v[o - 1] = w[o - 1]
        BY ONLY <1>1
      <4>3. QED
        BY ONLY <1>1, <4>1, <4>2 DEF At
    <3>7. QED
      BY ONLY <1>5, <3>2, <3>5, <3>6
  <2>3. CASE i \notin 1..Len(w)
    <3>1. i = n \/ i = n + 1
      BY ONLY <1>1, <1>4, <2>3, i \in 1..Len(v)
    <3>2. n - 1 = Len(w) /\ n - 1 \in 1..Len(v) /\ n + 2 \notin 1..Len(v)
      BY ONLY <1>1, <1>4
    <3>3. At(v, n - 1) # c /\ At(v, n + 2) # c
      BY ONLY <1>1, <1>2, <3>2 DEF At
    <3>4. QED
      BY ONLY <1>5, <3>1, <3>3
  <2>4. QED
    BY ONLY <2>2, <2>3
<1>8. QED
  BY ONLY <1>3, <1>6, <1>7

(***************************************************************************)
(* The last of the pairs has text behind it.                               *)
(***************************************************************************)
LEMMA LastPair ==
  ASSUME NEW w, EndsInWord(w), NEW c, c \in {"*", "_", "~"}, Paired(w, c),
         OddMatches(w, <<c, c>>)
  PROVE  \E m \in 1..Len(w) - 1 :
           /\ m = Max(Occurs(w, <<c, c>>)) /\ LastMarker(w, <<c, c>>) = {m}
           /\ w[m] = c /\ w[m + 1] = c
<1>1. w \in Seq(Sign) /\ Len(w) \in Nat /\ Len(w) >= 1
  <2>1. w \in Seq(Char)
    BY DEF EndsInWord
  <2>2. w \in Seq(Sign)
    BY ONLY <2>1 DEF Sign
  <2>3. QED
    BY <2>2 DEF EndsInWord
<1>2. w[Len(w)] \notin {" ", "LF", "_", "~", "*", "tick"} /\ w[Len(w)] # c
  BY LetterIs DEF EndsInWord
<1>3. PICK p : p = <<c, c>> /\ Len(p) = 2 /\ p[1] = c
  BY ONLY TwoEqual
<1>4. /\ Occurs(w, p) = Matches(w, p)
      /\ \A i : i \in Occurs(w, p)
                  <=> i \in 1..Len(w) - 1 /\ w[i] = c /\ w[i + 1] = c
  <2>1. Occurs(w, <<c, c>>) = Matches(w, <<c, c>>)
    BY ONLY <1>1, Paired(w, c), PairsApart
  <2>2. \A i : i \in Occurs(w, <<c, c>>)
                 <=> i \in 1..Len(w) - 1 /\ w[i] = c /\ w[i + 1] = c
    BY ONLY <1>1, PairAt
  <2>3. QED
    BY ONLY <1>3, <2>1, <2>2
<1>5. Occurs(w, p) # {}
  BY ONLY <1>3, OddMatches(w, <<c, c>>), NoOccurrence
<1>6. Occurs(w, p) \subseteq 0..Len(w)
  BY ONLY <1>1, <1>4
<1>7. /\ Max(Occurs(w, p)) \in Occurs(w, p)
      /\ \A n \in Occurs(w, p) : n <= Max(Occurs(w, p))
  BY ONLY <1>1, <1>5, <1>6, MaxOf
<1>8. PICK m \in 1..Len(w) - 1 : m = Max(Occurs(w, p)) /\ w[m] = c /\ w[m + 1] = c
  BY ONLY <1>4, <1>7
<1>9. PICK n \in Nat : n = m + 1 /\ n = m + 2 - 1 /\ n \in 0..Len(w) /\ m \in Nat
  BY ONLY <1>1, m \in 1..Len(w) - 1
<1>10. \A k \in n + 1 .. Len(w) : w[k] # c
  <2>1. SUFFICES ASSUME NEW k \in n + 1 .. Len(w), w[k] = c
                 PROVE  FALSE
    OBVIOUS
  <2>2. k \in 1..Len(w) /\ k \in Nat /\ n + 1 <= k
    BY ONLY <1>1, n \in Nat, k \in n + 1 .. Len(w)
  <2>3. PICK o \in Matches(w, p) : k = o \/ k = o + 1
    BY ONLY <1>3, <2>1, <2>2, Paired(w, c) DEF Paired
  <2>4. o <= m /\ o \in 1..Len(w) - 1
    BY ONLY <1>4, <1>7, <1>8
  <2>5. QED
    BY ONLY <1>1, <1>9, <2>2, <2>3, <2>4
<1>11. ~Has(From(w, n), c)
  BY ONLY <1>1, <1>9, <1>10, HasRest
<1>12. ~NothingToClose(From(w, n))
  <2>1. n # Len(w)
    BY ONLY <1>2, <1>8, <1>9
  <2>2. Len(w) \in n + 1 .. Len(w)
    BY ONLY <1>1, <1>9, <2>1
  <2>3. QED
    BY ONLY <1>1, <1>2, <1>9, <2>2, TextAfter
<1>13. LastMarker(w, p) = {m}
  BY ONLY <1>3, <1>7, <1>8, <1>9, <1>11, <1>12 DEF LastMarker
<1>14. QED
  BY ONLY <1>3, <1>8, <1>13

-----------------------------------------------------------------------------
(***************************************************************************)
(* Text with emphasis of one kind.                                         *)
(***************************************************************************)
LEMMA OneKindIs ==
  ASSUME NEW s \in Seq(Sign), NEW c
  PROVE  /\ OfOneKind(s, <<c, c>>) => Paired(s, c)
         /\ OfOneKind(s, <<c, c>>) \/ OfOneKind(s, <<c>>) =>
              \A d \in {"*", "_", "~", "tick", "$", "ESC"} \ {c} : ~Has(s, d)
<1>1. PICK p : p = <<c, c>> /\ Len(p) = 2 /\ p[1] = c
  BY ONLY TwoEqual
<1>2. Range(<<c, c>>) = {c} /\ Range(<<c>>) = {c}
  BY DEF Range
<1>3. ASSUME OfOneKind(s, p)
      PROVE  Paired(s, c)
  <2>1. ASSUME NEW i \in 1..Len(s), s[i] = c
        PROVE  \E o \in Matches(s, p) :
                 (i = o \/ i = o + 1) /\ At(s, o - 1) # c /\ At(s, o + 2) # c
    <3>1. i \in DOMAIN s
      BY <2>1
    <3>2. PICK o \in Matches(s, p) :
            i \in o..o + Len(p) - 1 /\ At(s, o - 1) # p[1] /\ At(s, o + Len(p)) # p[1]
      BY ONLY <1>1, <1>3, <2>1, <3>1 DEF OfOneKind
    <3>3. o \in 1..Len(s) - 1
      <4>1. o \in Occurs(s, <<c, c>>)
        BY ONLY <1>1, o \in Matches(s, p) DEF Matches
      <4>2. QED
        BY ONLY <4>1, s \in Seq(Sign), PairAt
    <3>4. o \in Nat
      BY ONLY <3>3, s \in Seq(Sign)
    <3>5. i \in o..o + 2 - 1 /\ At(s, o - 1) # c /\ At(s, o + 2) # c
      BY ONLY <1>1, <3>2
    <3>6. i = o \/ i = o + 1
      BY ONLY <3>4, <3>5
    <3>7. QED
      BY ONLY <3>5, <3>6
  <2>2. QED
    BY <1>1, <2>1, Zenon DEF Paired
<1>4. ASSUME OfOneKind(s, <<c, c>>) \/ OfOneKind(s, <<c>>)
      PROVE  \A d \in {"*", "_", "~", "tick", "$", "ESC"} \ {c} : ~Has(s, d)
  BY ONLY <1>2, <1>4 DEF OfOneKind
<1>5. QED
  BY ONLY <1>1, <1>3, <1>4

(***************************************************************************)
(* With all options on, every repair has its turn.                         *)
(***************************************************************************)
LEMMA AllTurns ==
  ASSUME Repairs = AllRepairs, NEW w
  PROVE  CloseMarkers(w) = CloseKatex(CloseStrike(CloseInlineCode(CloseEmphasis(w))))
<1>1. {"emphasis", "inline_code", "strikethrough", "katex_block"} \subseteq Repairs
  BY DEF AllRepairs
<1>2. QED
  BY ONLY <1>1 DEF CloseMarkers, If

(***************************************************************************)
(* The repairs behind those of emphasis leave alone what has none of their *)
(* characters.                                                             *)
(***************************************************************************)
LEMMA LastTurnsIdle ==
  ASSUME NEW v \in Seq(Sign), ~Has(v, "tick"), ~Has(v, "~"), ~Has(v, "$")
  PROVE  CloseKatex(CloseStrike(CloseInlineCode(v))) = v
<1>1. CloseInlineCode(v) = v /\ CloseStrike(v) = v /\ CloseKatex(v) = v
  BY Idle
<1>2. QED
  BY ONLY <1>1

(***************************************************************************)
(* A text that ends with a letter is a text of a display.                  *)
(***************************************************************************)
LEMMA EndsInWordType ==
  ASSUME NEW w, EndsInWord(w)
  PROVE  w \in Seq(Sign) /\ Len(w) \in Nat /\ Len(w) >= 1
<1>1. w \in Seq(Char) /\ Len(w) \in Nat /\ Len(w) >= 1
  BY DEF EndsInWord
<1>2. w \in Seq(Sign)
  BY <1>1 DEF Sign
<1>3. QED
  BY <1>1, <1>2

(***************************************************************************)
(* A pair of markers behind the text.                                      *)
(***************************************************************************)
LEMMA PairBehind ==
  ASSUME NEW w \in Seq(Sign), NEW c, c \in {"*", "_", "~"}
  PROVE  Extends(w, w \o <<c, c>>, {c}) /\ Len(w \o <<c, c>>) = Len(w) + 2
<1>1. PICK p \in Seq(Sign) : p = <<c, c>> /\ Len(p) = 2 /\ p[1] = c /\ p[2] = c
  BY MarkersAre
<1>2. \A k \in 1..Len(p) : p[k] \in {c}
  <2>1. \A k \in 1..2 : k = 1 \/ k = 2
    BY ONLY OddEven
  <2>2. QED
    BY ONLY <1>1, <2>1
<1>3. QED
  BY ONLY <1>1, <1>2, w \in Seq(Sign), JoinExtends

(***************************************************************************)
(* handle_incomplete_bold and handle_incomplete_double_underscore_italic:  *)
(* what they leave open is a rule or a list item.                          *)
(***************************************************************************)
LEMMA PairHandled ==
  ASSUME NEW w, EndsInWord(w), NEW c, c \in {"*", "_", "~"}, Paired(w, c),
         ~Has(w, "tick"), NEW v, v = ClosePair(w, <<c, c>>)
  PROVE  /\ Extends(w, v, {c}) /\ Paired(v, c)
         /\ ~OddMatches(v, <<c, c>>) \/ LeftOpen(w, <<c, c>>)
<1>1. w \in Seq(Sign) /\ Len(w) \in Nat /\ Len(w) >= 1
  BY EndsInWordType
<1>2. PICK p : p = <<c, c>> /\ Len(p) = 2 /\ p[1] = c
  BY ONLY TwoEqual
<1>3. Extends(w, w \o p, {c}) /\ Len(w \o p) = Len(w) + 2
  BY ONLY <1>1, <1>2, c \in {"*", "_", "~"}, PairBehind
<1>4. CASE v = w \o p /\ OddMatches(w, p)
  <2>1. ~OddMatches(v, p) /\ Paired(v, c)
    BY <1>2, <1>3, <1>4, PairCloses
  <2>2. QED
    BY ONLY <1>2, <1>3, <1>4, <2>1
<1>5. CASE ~(v = w \o p /\ OddMatches(w, p))
  <2>1. v = w
    BY ONLY <1>2, <1>5, v = ClosePair(w, <<c, c>>) DEF ClosePair
  <2>2. Extends(w, v, {c})
    BY ONLY <1>1, <2>1, ExtendsItself
  <2>3. ASSUME OddMatches(w, p)
        PROVE  LeftOpen(w, p)
    <3>1. PICK m \in 1..Len(w) - 1 :
            m = Max(Occurs(w, p)) /\ LastMarker(w, p) = {m} /\ w[m] = c /\ w[m + 1] = c
      BY ONLY <1>2, <2>3, EndsInWord(w), c \in {"*", "_", "~"}, Paired(w, c),
              LastPair, ZenonT(30)
    <3>2. m \in Nat /\ m <= Len(w) + 1 /\ m \in 0..Len(w) /\ m + 1 \in 0..Len(w)
      BY ONLY <1>1, m \in 1..Len(w) - 1
    <3>3. ~InCode(w, m)
      BY ONLY <1>1, <3>2, ~Has(w, "tick"), NoCode
    <3>4. ~(\E i \in InMarkup(w, p) :
              ~(Has(From(w, i + 1), "LF") /\ AfterListMarker(w, i)))
      <4>1. v # w
              <=> /\ \E i \in InMarkup(w, p) :
                       ~(Has(From(w, i + 1), "LF") /\ AfterListMarker(w, i))
                  /\ OddMatches(w, p)
        <5>1. w \o p # w
          <6>1. Len(w) + 2 # Len(w)
            BY ONLY <1>1
          <6>2. QED
            BY ONLY <1>3, <6>1
        <5>2. QED
          BY ONLY <1>2, <5>1, v = ClosePair(w, <<c, c>>) DEF ClosePair
      <4>2. QED
        BY ONLY <2>1, <2>3, <4>1
    <3>5. CASE IsRule(w, m, c)
      BY ONLY <1>2, <3>1, <3>5 DEF LeftOpen
    <3>6. CASE ~IsRule(w, m, c)
      <4>1. m \in InMarkup(w, p)
        BY ONLY <1>2, <3>1, <3>3, <3>6 DEF InMarkup
      <4>2. Has(From(w, m + 1), "LF") /\ AfterListMarker(w, m)
        BY ONLY <3>4, <4>1
      <4>3. PICK n \in Nat : n = m + 1 /\ n \in 0..Len(w)
        BY ONLY <3>2
      <4>4. \E k \in n + 1 .. Len(w) : w[k] = "LF"
        BY ONLY <1>1, <4>2, <4>3, HasRest
      <4>5. \E k \in m + 1 .. Len(w) : w[k] = "LF"
        <5>1. \A k \in n + 1 .. Len(w) : k \in m + 1 .. Len(w)
          BY ONLY <1>1, <3>2, <4>3
        <5>2. QED
          BY ONLY <4>4, <5>1
      <4>6. Has(From(w, m), "LF")
        BY ONLY <1>1, <3>2, <4>5, HasRest
      <4>7. QED
        BY ONLY <3>1, <4>2, <4>6 DEF LeftOpen
    <3>7. QED
      BY ONLY <3>5, <3>6
  <2>4. QED
    BY ONLY <1>2, <2>1, <2>2, <2>3, Paired(w, c)
<1>6. QED
  BY ONLY <1>4, <1>5

(***************************************************************************)
(* All repairs together, if the emphasis is bold.                          *)
(***************************************************************************)
LEMMA BoldClosed ==
  ASSUME Repairs = AllRepairs, NEW w, EndsInWord(w), OfOneKind(w, Bold)
  PROVE  ~OddMatches(CloseMarkers(w), Bold) \/ LeftOpen(w, Bold)
<1>1. w \in Seq(Sign)
  BY EndsInWordType
<1>2. /\ Paired(w, "*")
      /\ \A d \in {"*", "_", "~", "tick", "$", "ESC"} \ {"*"} : ~Has(w, d)
  BY <1>1, OneKindIs DEF Bold
<1>3. ~Has(w, "_") /\ ~Has(w, "~") /\ ~Has(w, "tick") /\ ~Has(w, "$")
  BY ONLY <1>2
<1>4. PICK v : v = ClosePair(w, Bold)
  OBVIOUS
<1>5. /\ Extends(w, v, {"*"}) /\ Paired(v, "*")
      /\ ~OddMatches(v, Bold) \/ LeftOpen(w, Bold)
  BY <1>2, <1>3, <1>4, PairHandled DEF Bold
<1>6. v \in Seq(Sign)
  BY ONLY <1>5 DEF Extends
<1>7. ~Has(v, "_") /\ ~Has(v, "~") /\ ~Has(v, "tick") /\ ~Has(v, "$")
  <2>1. "_" \notin {"*"} /\ "~" \notin {"*"} /\ "tick" \notin {"*"} /\ "$" \notin {"*"}
    OBVIOUS
  <2>2. QED
    BY ONLY <1>3, <1>5, <2>1, StillWithout
<1>8. CloseBoldItalic(w) = w
  BY ONLY <1>1, <1>2, PairsAreNotSingle
<1>9. CloseAsterisk(v) = v
  BY ONLY <1>5, <1>6, PairsAreNotSingle
<1>10. ClosePair(v, <<"_", "_">>) = v /\ CloseUnderscore(v) = v
  BY ONLY <1>6, <1>7, Idle
<1>11. CloseEmphasis(w) = v
  BY ONLY <1>4, <1>8, <1>9, <1>10 DEF CloseEmphasis
<1>12. CloseMarkers(w) = v
  BY <1>6, <1>7, <1>11, AllTurns, LastTurnsIdle
<1>13. QED
  BY ONLY <1>5, <1>12

(***************************************************************************)
(* If it is of two underscores.                                            *)
(***************************************************************************)
LEMMA DoubleClosed ==
  ASSUME Repairs = AllRepairs, NEW w, EndsInWord(w), OfOneKind(w, <<"_", "_">>)
  PROVE  ~OddMatches(CloseMarkers(w), <<"_", "_">>) \/ LeftOpen(w, <<"_", "_">>)
<1>1. w \in Seq(Sign)
  BY EndsInWordType
<1>2. /\ Paired(w, "_")
      /\ \A d \in {"*", "_", "~", "tick", "$", "ESC"} \ {"_"} : ~Has(w, d)
  BY <1>1, OneKindIs
<1>3. ~Has(w, "*") /\ ~Has(w, "~") /\ ~Has(w, "tick") /\ ~Has(w, "$")
  BY ONLY <1>2
<1>4. PICK v : v = ClosePair(w, <<"_", "_">>)
  OBVIOUS
<1>5. /\ Extends(w, v, {"_"}) /\ Paired(v, "_")
      /\ ~OddMatches(v, <<"_", "_">>) \/ LeftOpen(w, <<"_", "_">>)
  BY <1>2, <1>3, <1>4, PairHandled
<1>6. v \in Seq(Sign)
  BY ONLY <1>5 DEF Extends
<1>7. ~Has(v, "*") /\ ~Has(v, "~") /\ ~Has(v, "tick") /\ ~Has(v, "$")
  <2>1. "*" \notin {"_"} /\ "~" \notin {"_"} /\ "tick" \notin {"_"} /\ "$" \notin {"_"}
    OBVIOUS
  <2>2. QED
    BY ONLY <1>3, <1>5, <2>1, StillWithout
<1>8. CloseBoldItalic(w) = w /\ ClosePair(w, Bold) = w
  BY ONLY <1>1, <1>3, Idle
<1>9. CloseAsterisk(v) = v
  BY ONLY <1>6, <1>7, Idle
<1>10. CloseUnderscore(v) = v
  BY ONLY <1>5, <1>6, PairsAreNotSingle
<1>11. CloseEmphasis(w) = v
  BY ONLY <1>4, <1>8, <1>9, <1>10 DEF CloseEmphasis
<1>12. CloseMarkers(w) = v
  BY <1>6, <1>7, <1>11, AllTurns, LastTurnsIdle
<1>13. QED
  BY ONLY <1>5, <1>12

(***************************************************************************)
(* If it is struck through.                                                *)
(***************************************************************************)
LEMMA StrikeClosed ==
  ASSUME Repairs = AllRepairs, NEW w, EndsInWord(w), OfOneKind(w, Strike)
  PROVE  ~OddMatches(CloseMarkers(w), Strike)
<1>1. w \in Seq(Sign)
  BY EndsInWordType
<1>2. /\ Paired(w, "~")
      /\ \A d \in {"*", "_", "~", "tick", "$", "ESC"} \ {"~"} : ~Has(w, d)
  BY <1>1, OneKindIs DEF Strike
<1>3. ~Has(w, "*") /\ ~Has(w, "_") /\ ~Has(w, "tick") /\ ~Has(w, "$")
  BY ONLY <1>2
<1>4. PICK v : v = CloseStrike(w)
  OBVIOUS
<1>5. Extends(w, w \o Strike, {"~"}) /\ Len(w \o Strike) = Len(w) + 2
  <2>1. "~" \in {"*", "_", "~"}
    OBVIOUS
  <2>2. QED
    BY ONLY <1>1, <2>1, PairBehind DEF Strike
<1>6. v \in {w, w \o Strike}
  BY ONLY <1>4 DEF CloseStrike
<1>7. Extends(w, v, {"~"})
  BY ONLY <1>1, <1>5, <1>6, ExtendsItself
<1>8. ~OddMatches(v, Strike)
  <2>1. CASE OddMatches(w, Strike)
    <3>1. \E m \in 1..Len(w) - 1 : LastMarker(w, Strike) = {m}
      BY <1>2, <2>1, LastPair DEF Strike
    <3>2. v = w \o Strike
      BY ONLY <1>4, <2>1, <3>1 DEF CloseStrike
    <3>3. QED
      BY <1>5, <2>1, <3>2, PairCloses DEF Strike
  <2>2. CASE ~OddMatches(w, Strike)
    BY ONLY <1>4, <2>2 DEF CloseStrike
  <2>3. QED
    BY ONLY <2>1, <2>2
<1>9. v \in Seq(Sign) /\ ~Has(v, "$")
  <2>1. "$" \notin {"~"}
    OBVIOUS
  <2>2. ~Has(v, "$")
    BY ONLY <1>3, <1>7, <2>1, StillWithout
  <2>3. QED
    BY ONLY <1>7, <2>2 DEF Extends
<1>10. /\ CloseBoldItalic(w) = w /\ ClosePair(w, Bold) = w /\ CloseAsterisk(w) = w
       /\ ClosePair(w, <<"_", "_">>) = w /\ CloseUnderscore(w) = w
       /\ CloseInlineCode(w) = w
  BY ONLY <1>1, <1>3, Idle
<1>11. CloseEmphasis(w) = w
  BY ONLY <1>10 DEF CloseEmphasis
<1>12. CloseKatex(v) = v
  BY ONLY <1>9, Idle
<1>13. CloseMarkers(w) = v
  BY <1>4, <1>10, <1>11, <1>12, AllTurns
<1>14. QED
  BY ONLY <1>8, <1>13

-----------------------------------------------------------------------------
(***************************************************************************)
(* No two of the characters c in a row.                                    *)
(***************************************************************************)
Isolated(s, c) ==
  \A i \in 1..Len(s) : s[i] = c => At(s, i - 1) # c /\ At(s, i + 1) # c

(***************************************************************************)
(* So it is where emphasis is of single markers.                           *)
(***************************************************************************)
LEMMA IsolatedIs ==
  ASSUME NEW s \in Seq(Sign), NEW c
  PROVE  /\ OfOneKind(s, <<c>>) => Isolated(s, c)
         /\ Isolated(s, c) => Occurs(s, <<c, c>>) = {} /\ Occurs(s, <<c, c, c>>) = {}
<1>1. Len(s) \in Nat /\ DOMAIN s = 1..Len(s)
  OBVIOUS
<1>2. PICK p : p = <<c>> /\ Len(p) = 1 /\ p[1] = c
  BY ONLY TwoEqual
<1>3. ASSUME OfOneKind(s, p), NEW i \in 1..Len(s), s[i] = c
      PROVE  At(s, i - 1) # c /\ At(s, i + 1) # c
  <2>1. PICK o \in Matches(s, p) :
          i \in o..o + Len(p) - 1 /\ At(s, o - 1) # p[1] /\ At(s, o + Len(p)) # p[1]
    BY ONLY <1>1, <1>2, <1>3, i \in 1..Len(s) DEF OfOneKind
  <2>2. o \in 1..Len(s)
    <3>1. o \in Occurs(s, <<c>>)
      BY ONLY <1>2, o \in Matches(s, p) DEF Matches
    <3>2. QED
      BY ONLY <3>1, s \in Seq(Sign), OneAt
  <2>3. i \in o..o + 1 - 1 /\ At(s, o - 1) # c /\ At(s, o + 1) # c
    BY ONLY <1>2, <2>1
  <2>4. i = o
    BY ONLY <1>1, <2>2, <2>3
  <2>5. QED
    BY ONLY <2>3, <2>4
<1>4. ASSUME Isolated(s, c), NEW i \in 1..Len(s) - 1, s[i] = c, s[i + 1] = c
      PROVE  FALSE
  <2>1. i \in 1..Len(s) /\ i + 1 \in 1..Len(s)
    BY ONLY <1>1, i \in 1..Len(s) - 1
  <2>2. At(s, i + 1) = c
    BY ONLY <1>1, <1>4, <2>1 DEF At
  <2>3. QED
    BY ONLY <1>4, <2>1, <2>2 DEF Isolated
<1>5. ASSUME Isolated(s, c)
      PROVE  Occurs(s, <<c, c>>) = {}
  <2>1. \A i \in Occurs(s, <<c, c>>) :
          i \in 1..Len(s) - 1 /\ s[i] = c /\ s[i + 1] = c
    BY ONLY s \in Seq(Sign), PairAt
  <2>2. QED
    BY ONLY <1>4, <1>5, <2>1
<1>6. ASSUME Isolated(s, c)
      PROVE  Occurs(s, <<c, c, c>>) = {}
  <2>1. \A i \in Occurs(s, <<c, c, c>>) :
          i \in 1..Len(s) - 2 /\ s[i] = c /\ s[i + 1] = c
    BY ONLY s \in Seq(Sign), TripleAt
  <2>2. \A i \in 1..Len(s) - 2 : i \in 1..Len(s) - 1
    BY ONLY <1>1
  <2>3. QED
    BY ONLY <1>4, <1>6, <2>1, <2>2
<1>7. OfOneKind(s, p) => Isolated(s, c)
  BY ONLY <1>3 DEF Isolated
<1>8. QED
  BY ONLY <1>2, <1>5, <1>6, <1>7

(***************************************************************************)
(* Two texts of which one is the other with one character behind it that   *)
(* is not the last one: what is before and behind a character stays.       *)
(***************************************************************************)
LEMMA Neighbours ==
  ASSUME NEW w, NEW v, NEW M, Extends(w, v, M), NEW i \in Nat, i < Len(w)
  PROVE  /\ At(v, i - 1) = At(w, i - 1) /\ At(v, i) = At(w, i)
         /\ At(v, i + 1) = At(w, i + 1)
<1>1. /\ w \in Seq(Sign) /\ v \in Seq(Sign) /\ Len(w) \in Nat /\ Len(v) \in Nat
      /\ Len(w) <= Len(v)
      /\ \A k \in 1..Len(w) : v[k] = w[k]
  BY DEF Extends
<1>2. DOMAIN w = 1..Len(w) /\ DOMAIN v = 1..Len(v)
  BY ONLY <1>1
<1>3. /\ i - 1 \in 1..Len(w) <=> i - 1 \in 1..Len(v)
      /\ i \in 1..Len(w) <=> i \in 1..Len(v)
      /\ i + 1 \in 1..Len(w) <=> i + 1 \in 1..Len(v)
  BY ONLY <1>1, i \in Nat, i < Len(w)
<1>4. QED
  BY ONLY <1>1, <1>2, <1>3 DEF At

(***************************************************************************)
(* Where the line of a position begins.                                    *)
(***************************************************************************)
LEMMA LineStartIs ==
  ASSUME NEW s, NEW i \in Nat \ {0}
  PROVE  LineStart(s, i) \in Nat /\ 1 <= LineStart(s, i) /\ LineStart(s, i) <= i
<1> DEFINE S == {1} \cup {k + 1 : k \in {j \in 1..i - 1 : s[j] = "LF"}}
<1>1. \A x \in S : x \in Nat /\ 1 <= x /\ x <= i
  OBVIOUS
<1>2. S \subseteq 0..i /\ S # {}
  BY <1>1
<1>3. LineStart(s, i) = Max(S)
  BY DEF LineStart
<1> HIDE DEF S
<1>4. Max(S) \in S
  BY ONLY <1>2, i \in Nat \ {0}, MaxOf
<1>5. QED
  BY ONLY <1>1, <1>3, <1>4

(***************************************************************************)
(* What of the line is before a position does not depend on what is added. *)
(***************************************************************************)
LEMMA SameLineBefore ==
  ASSUME NEW w, NEW v, NEW M, Extends(w, v, M), NEW i \in 1..Len(w)
  PROVE  LineBefore(v, i) = LineBefore(w, i)
<1>1. /\ w \in Seq(Sign) /\ v \in Seq(Sign) /\ Len(w) \in Nat /\ Len(v) \in Nat
      /\ Len(w) <= Len(v)
      /\ \A k \in 1..Len(w) : v[k] = w[k]
  BY DEF Extends
<1>2. i \in Nat \ {0} /\ i \in Nat /\ 1 <= i /\ i <= Len(w)
  BY ONLY <1>1, i \in 1..Len(w)
<1>3. \A j \in 1..i - 1 : v[j] = w[j]
  <2>1. \A j \in 1..i - 1 : j \in 1..Len(w)
    BY ONLY <1>1, <1>2
  <2>2. QED
    BY ONLY <1>1, <2>1
<1>4. LineStart(v, i) = LineStart(w, i)
  BY ONLY <1>3 DEF LineStart
<1>5. PICK a \in Nat : a = LineStart(w, i) /\ 1 <= a /\ a <= i
  BY ONLY <1>2, LineStartIs
<1>6. PICK b \in Nat : b = i - 1 /\ a <= b + 1 /\ b <= Len(w) /\ b <= Len(v)
  BY ONLY <1>1, <1>2, <1>5
<1>7. PICK x \in Seq(Sign) :
        /\ x = SubSeq(w, a, b) /\ Len(x) = (b - a) + 1
        /\ \A k \in 1..Len(x) : x[k] = w[(a + k) - 1]
  <2>1. w \in Seq(Sign) /\ 1 <= a /\ a <= b + 1 /\ b <= Len(w)
    BY ONLY <1>1, <1>5, <1>6
  <2>2. QED
    BY ONLY <2>1, a \in Nat, b \in Nat, PartIs
<1>8. PICK y \in Seq(Sign) :
        /\ y = SubSeq(v, a, b) /\ Len(y) = (b - a) + 1
        /\ \A k \in 1..Len(y) : y[k] = v[(a + k) - 1]
  <2>1. v \in Seq(Sign) /\ 1 <= a /\ a <= b + 1 /\ b <= Len(v)
    BY ONLY <1>1, <1>5, <1>6
  <2>2. QED
    BY ONLY <2>1, a \in Nat, b \in Nat, PartIs
<1>9. Len(x) = Len(y)
  BY ONLY <1>7, <1>8
<1>10. ASSUME NEW k \in 1..Len(x)
       PROVE  x[k] = y[k]
  <2>1. k \in 1..(b - a) + 1
    BY ONLY <1>7, k \in 1..Len(x)
  <2>2. (a + k) - 1 \in 1..Len(w)
    BY ONLY <1>1, <1>5, <1>6, <2>1, a \in Nat, b \in Nat
  <2>3. k \in 1..Len(y)
    BY ONLY <1>9, k \in 1..Len(x)
  <2>4. QED
    BY ONLY <1>1, <1>7, <1>8, <2>2, <2>3, k \in 1..Len(x)
<1>11. x = y
  BY ONLY <1>9, <1>10, x \in Seq(Sign), y \in Seq(Sign), SeqEqual
<1>12. QED
  BY ONLY <1>4, <1>5, <1>6, <1>7, <1>8, <1>11 DEF LineBefore

(***************************************************************************)
(* The end of a text that got one character more.                          *)
(***************************************************************************)
LEMMA OneBehind ==
  ASSUME NEW w, EndsInWord(w), NEW c, c \in {"*", "_"}, NEW v,
         Extends(w, v, {c}), Len(v) = Len(w) + 1
  PROVE  /\ w[Len(w)] # c /\ v[Len(w) + 1] = c
         /\ At(v, (Len(w) + 1) - 1) # c /\ At(v, (Len(w) + 1) + 1) = "none"
         /\ Isolated(w, c) => Isolated(v, c)
<1>1. /\ w \in Seq(Sign) /\ v \in Seq(Sign) /\ Len(w) \in Nat /\ Len(v) \in Nat
      /\ Len(w) >= 1
      /\ \A k \in 1..Len(w) : v[k] = w[k]
      /\ \A k \in Len(w) + 1 .. Len(v) : v[k] = c
  BY DEF Extends, EndsInWord
<1>2. DOMAIN w = 1..Len(w) /\ DOMAIN v = 1..Len(v)
  BY ONLY <1>1
<1>3. w[Len(w)] # c /\ c # "none"
  BY LetterIs DEF EndsInWord
<1>4. PICK n \in Nat : n = Len(w) + 1
  BY ONLY <1>1
<1>5. /\ n \in Len(w) + 1 .. Len(v) /\ n - 1 = Len(w) /\ n - 1 \in 1..Len(w)
      /\ n - 1 \in 1..Len(v) /\ n + 1 \notin 1..Len(v)
  BY ONLY <1>1, <1>4, Len(v) = Len(w) + 1
<1>6. v[n] = c /\ At(v, n - 1) # c /\ At(v, n + 1) = "none"
  BY ONLY <1>1, <1>2, <1>3, <1>5 DEF At
<1>7. ASSUME Isolated(w, c), NEW i \in 1..Len(v), v[i] = c
      PROVE  At(v, i - 1) # c /\ At(v, i + 1) # c
  <2>1. CASE i = n
    BY ONLY <1>3, <1>6, <2>1
  <2>2. CASE i # n
    <3>1. i \in 1..Len(w)
      BY ONLY <1>1, <1>4, <2>2, Len(v) = Len(w) + 1, i \in 1..Len(v)
    <3>2. w[i] = c
      BY ONLY <1>1, <1>7, <3>1
    <3>3. i \in Nat /\ i < Len(w)
      BY ONLY <1>1, <1>3, <3>1, <3>2
    <3>4. At(v, i - 1) = At(w, i - 1) /\ At(v, i + 1) = At(w, i + 1)
      BY ONLY <3>3, Extends(w, v, {c}), Neighbours
    <3>5. QED
      BY ONLY <1>7, <3>1, <3>2, <3>4 DEF Isolated
  <2>3. QED
    BY ONLY <2>1, <2>2
<1>8. Isolated(w, c) => Isolated(v, c)
  BY ONLY <1>7 DEF Isolated
<1>9. QED
  BY ONLY <1>3, <1>4, <1>6, <1>8

-----------------------------------------------------------------------------
(***************************************************************************)
(* The asterisks and underscores that count, where no two come together    *)
(* and there is no code and no mathematics.                                *)
(***************************************************************************)
SingleAsterisks(s) ==
  {i \in 1..Len(s) : s[i] = "*" /\ ~InWord(s, i) /\ ~IsListMarker(s, i)}

SingleUnderscores(s) ==
  {i \in 1..Len(s) : s[i] = "_" /\ ~InUrl(s, i) /\ ~InWord(s, i)}

PlainText(s) == ~Has(s, "tick") /\ ~Has(s, "$") /\ ~Has(s, "ESC")

(***************************************************************************)
(* The two definitions agree there.                                        *)
(***************************************************************************)
LEMMA SinglesAre ==
  ASSUME NEW s \in Seq(Sign), PlainText(s)
  PROVE  /\ Isolated(s, "*") =>
              /\ Asterisks(s) = SingleAsterisks(s)
              /\ \A i \in Asterisks(s) : At(s, i + 1) # "*"
         /\ Isolated(s, "_") => Underscores(s) = SingleUnderscores(s)
<1>1. Len(s) \in Nat /\ DOMAIN s = 1..Len(s)
  OBVIOUS
<1>2. ASSUME NEW i \in 1..Len(s)
      PROVE  Plain(s, i)
  <2>1. At(s, i - 1) # "ESC"
    <3>1. \A k \in 1..Len(s) : s[k] # "ESC"
      BY ONLY <1>1, PlainText(s) DEF PlainText, Has
    <3>2. "none" # "ESC"
      OBVIOUS
    <3>3. QED
      BY ONLY <1>1, <3>1, <3>2 DEF At
  <2>2. ~InCode(s, i)
    <3>1. ~Has(s, "tick")
      BY ONLY PlainText(s) DEF PlainText
    <3>2. i \in Nat /\ i <= Len(s) + 1
      BY ONLY <1>1, i \in 1..Len(s)
    <3>3. QED
      BY ONLY <3>1, <3>2, s \in Seq(Sign), NoCode
  <2>3. ~InMath(s, i)
    <3>1. ~Has(s, "$")
      BY ONLY PlainText(s) DEF PlainText
    <3>2. QED
      BY ONLY <3>1, s \in Seq(Sign), i \in 1..Len(s), NoMath
  <2>4. QED
    BY ONLY <2>1, <2>2, <2>3 DEF Plain
<1>3. ASSUME Isolated(s, "*")
      PROVE  Asterisks(s) = SingleAsterisks(s)
  <2>1. \A i \in 1..Len(s) : s[i] = "*" => At(s, i - 1) # "*" /\ At(s, i + 1) # "*"
    BY ONLY <1>3 DEF Isolated
  <2>2. QED
    BY ONLY <1>1, <1>2, <2>1 DEF Asterisks, SingleAsterisks
<1>4. ASSUME Isolated(s, "*"), NEW i \in Asterisks(s)
      PROVE  At(s, i + 1) # "*"
  BY ONLY <1>1, <1>4, i \in Asterisks(s) DEF Asterisks, Isolated
<1>5. ASSUME Isolated(s, "_")
      PROVE  Underscores(s) = SingleUnderscores(s)
  <2>1. \A i \in 1..Len(s) : s[i] = "_" => At(s, i - 1) # "_" /\ At(s, i + 1) # "_"
    BY ONLY <1>5 DEF Isolated
  <2>2. QED
    BY ONLY <1>1, <1>2, <2>1 DEF Underscores, SingleUnderscores
<1>6. QED
  BY ONLY <1>3, <1>4, <1>5

(***************************************************************************)
(* A number is even if it is that of a set with an odd number of elements  *)
(* and one more.                                                           *)
(***************************************************************************)
LEMMA OneMoreIsEven ==
  ASSUME NEW L \in Nat, NEW S, S \subseteq 1..L, NEW n, n \notin S,
         Cardinality(S) % 2 = 1
  PROVE  Cardinality(S \cup {n}) % 2 = 0
<1>1. IsFiniteSet(S)
  <2>1. IsFiniteSet(1..L)
    BY ONLY L \in Nat, FS_Interval
  <2>2. QED
    BY ONLY <2>1, S \subseteq 1..L, FS_Subset
<1>2. Cardinality(S \cup {n}) = Cardinality(S) + 1 /\ Cardinality(S) \in Nat
  BY ONLY <1>1, n \notin S, FS_AddElement, FS_CardinalityType
<1>3. PICK x \in Nat : x = Cardinality(S)
  BY ONLY <1>2
<1>4. (x + 1) % 2 = 0
  BY ONLY <1>3, Cardinality(S) % 2 = 1, OddEven
<1>5. QED
  BY ONLY <1>2, <1>3, <1>4

(***************************************************************************)
(* Without characters that make code, mathematics or an escape, there are  *)
(* none behind an asterisk or underscore either.                           *)
(***************************************************************************)
LEMMA PlainStays ==
  ASSUME NEW w, NEW v, NEW c, c \in {"*", "_"}, Extends(w, v, {c}), PlainText(w)
  PROVE  PlainText(v)
<1>1. "tick" \notin {c} /\ "$" \notin {c} /\ "ESC" \notin {c}
  BY ONLY c \in {"*", "_"}
<1>2. ~Has(w, "tick") /\ ~Has(w, "$") /\ ~Has(w, "ESC")
  BY ONLY PlainText(w) DEF PlainText
<1>3. ~Has(v, "tick") /\ ~Has(v, "$") /\ ~Has(v, "ESC")
  BY ONLY <1>1, <1>2, Extends(w, v, {c}), StillWithout
<1>4. QED
  BY ONLY <1>3 DEF PlainText

(***************************************************************************)
(* handle_incomplete_single_asterisk_italic: one asterisk more counts.     *)
(***************************************************************************)
LEMMA AsteriskBehind ==
  ASSUME NEW w, EndsInWord(w), Isolated(w, "*"), PlainText(w), NEW v,
         Extends(w, v, {"*"}), Len(v) = Len(w) + 1
  PROVE  /\ Asterisks(v) = Asterisks(w) \cup {Len(w) + 1}
         /\ Asterisks(w) \subseteq 1..Len(w) /\ Len(w) + 1 \notin Asterisks(w)
<1>1. /\ w \in Seq(Sign) /\ v \in Seq(Sign) /\ Len(w) \in Nat /\ Len(v) \in Nat
      /\ \A k \in 1..Len(w) : v[k] = w[k]
  BY DEF Extends
<1>2. /\ w[Len(w)] # "*" /\ v[Len(w) + 1] = "*"
      /\ At(v, (Len(w) + 1) + 1) = "none" /\ Isolated(v, "*")
  <2>1. "*" \in {"*", "_"}
    OBVIOUS
  <2>2. QED
    BY <2>1, OneBehind
<1>3. PlainText(v)
  <2>1. "*" \in {"*", "_"}
    OBVIOUS
  <2>2. QED
    BY <2>1, PlainStays
<1>4. Asterisks(w) = SingleAsterisks(w) /\ Asterisks(v) = SingleAsterisks(v)
  BY ONLY <1>1, <1>2, <1>3, Isolated(w, "*"), PlainText(w), SinglesAre
<1>5. PICK n \in Nat : n = Len(w) + 1 /\ n \in 1..Len(v) /\ n \notin 1..Len(w)
  BY ONLY <1>1, Len(v) = Len(w) + 1
<1>6. n \in SingleAsterisks(v)
  <2>1. "none" \notin WordChar /\ "none" # " "
    <3>1. WordChar \subseteq Char
      BY ONLY TerminatorAssumption
    <3>2. "none" \notin Char
      BY ONLY TerminatorAssumption
    <3>3. QED
      BY ONLY <3>1, <3>2
  <2>2. ~InWord(v, n) /\ ~IsListMarker(v, n)
    BY ONLY <1>2, <1>5, <2>1 DEF InWord, IsListMarker
  <2>3. QED
    BY ONLY <1>2, <1>5, <2>2 DEF SingleAsterisks
<1>7. ASSUME NEW i \in 1..Len(w)
      PROVE  i \in SingleAsterisks(v) <=> i \in SingleAsterisks(w)
  <2>1. v[i] = w[i] /\ i \in 1..Len(v)
    BY ONLY <1>1, i \in 1..Len(w), Len(v) = Len(w) + 1
  <2>2. CASE w[i] = "*"
    <3>1. i \in Nat /\ i < Len(w)
      BY ONLY <1>1, <1>2, <2>2, i \in 1..Len(w)
    <3>2. At(v, i - 1) = At(w, i - 1) /\ At(v, i + 1) = At(w, i + 1)
      BY ONLY <3>1, Extends(w, v, {"*"}), Neighbours
    <3>3. LineBefore(v, i) = LineBefore(w, i)
      BY ONLY i \in 1..Len(w), Extends(w, v, {"*"}), SameLineBefore
    <3>4. InWord(v, i) <=> InWord(w, i)
      BY ONLY <3>2 DEF InWord
    <3>5. IsListMarker(v, i) <=> IsListMarker(w, i)
      BY ONLY <3>2, <3>3 DEF IsListMarker
    <3>6. QED
      BY ONLY <2>1, <3>4, <3>5, i \in 1..Len(w) DEF SingleAsterisks
  <2>3. CASE w[i] # "*"
    BY ONLY <2>1, <2>3 DEF SingleAsterisks
  <2>4. QED
    BY ONLY <2>2, <2>3
<1>8. \A i \in 1..Len(v) : i = n \/ i \in 1..Len(w)
  BY ONLY <1>1, <1>5, Len(v) = Len(w) + 1
<1>9. SingleAsterisks(v) = SingleAsterisks(w) \cup {n}
  <2>1. /\ \A i \in SingleAsterisks(v) : i \in 1..Len(v)
        /\ \A i \in SingleAsterisks(w) : i \in 1..Len(w)
    BY DEF SingleAsterisks
  <2>2. QED
    BY ONLY <1>6, <1>7, <1>8, <2>1
<1>10. SingleAsterisks(w) \subseteq 1..Len(w)
  BY DEF SingleAsterisks
<1>11. QED
  BY ONLY <1>4, <1>5, <1>9, <1>10

(***************************************************************************)
(* All repairs together, if the emphasis is of single asterisks.           *)
(***************************************************************************)
LEMMA AsteriskClosed ==
  ASSUME Repairs = AllRepairs, NEW w, EndsInWord(w), OfOneKind(w, <<"*">>)
  PROVE  Cardinality(Asterisks(CloseMarkers(w))) % 2 = 0
<1>1. w \in Seq(Sign) /\ Len(w) \in Nat
  BY EndsInWordType
<1>2. \A d \in {"*", "_", "~", "tick", "$", "ESC"} \ {"*"} : ~Has(w, d)
  BY ONLY <1>1, OfOneKind(w, <<"*">>), OneKindIs
<1>3. ~Has(w, "_") /\ ~Has(w, "~") /\ ~Has(w, "tick") /\ ~Has(w, "$") /\ ~Has(w, "ESC")
  BY ONLY <1>2
<1>4. PlainText(w)
  BY ONLY <1>3 DEF PlainText
<1>5. Isolated(w, "*") /\ Occurs(w, Bold) = {} /\ Occurs(w, Triple) = {}
  BY ONLY <1>1, OfOneKind(w, <<"*">>), IsolatedIs DEF Bold, Triple
<1>6. CloseBoldItalic(w) = w /\ ClosePair(w, Bold) = w /\ ClosePair(w, <<"_", "_">>) = w
  BY ONLY <1>1, <1>3, <1>5, NoneCounts, NoOccurrence, Idle
<1>7. PICK v : v = CloseAsterisk(w)
  OBVIOUS
<1>8. Extends(w, w \o <<"*">>, {"*"}) /\ Len(w \o <<"*">>) = Len(w) + 1
  <2>1. PICK p \in Seq(Sign) : p = <<"*">> /\ Len(p) = 1 /\ p[1] = "*"
    BY ONLY MarkersAre
  <2>2. \A k \in 1..Len(p) : p[k] \in {"*"}
    <3>1. \A k \in 1..1 : k = 1
      OBVIOUS
    <3>2. QED
      BY ONLY <2>1, <3>1
  <2>3. QED
    BY ONLY <1>1, <2>1, <2>2, JoinExtends
<1>9. v \in {w, w \o <<"*">>}
  BY ONLY <1>7 DEF CloseAsterisk
<1>10. Extends(w, v, {"*"})
  BY ONLY <1>1, <1>8, <1>9, ExtendsItself
<1>11. v \in Seq(Sign) /\ ~Has(v, "_") /\ ~Has(v, "~") /\ ~Has(v, "tick") /\ ~Has(v, "$")
  <2>1. "_" \notin {"*"} /\ "~" \notin {"*"} /\ "tick" \notin {"*"} /\ "$" \notin {"*"}
    OBVIOUS
  <2>2. ~Has(v, "_") /\ ~Has(v, "~") /\ ~Has(v, "tick") /\ ~Has(v, "$")
    BY ONLY <1>3, <1>10, <2>1, StillWithout
  <2>3. QED
    BY ONLY <1>10, <2>2 DEF Extends
<1>12. CloseMarkers(w) = v
  <2>1. CloseUnderscore(v) = v
    BY ONLY <1>11, Idle
  <2>2. CloseEmphasis(w) = v
    BY ONLY <1>6, <1>7, <2>1 DEF CloseEmphasis
  <2>3. QED
    BY <1>11, <2>2, AllTurns, LastTurnsIdle
<1>13. /\ Asterisks(w \o <<"*">>) = Asterisks(w) \cup {Len(w) + 1}
       /\ Asterisks(w) \subseteq 1..Len(w) /\ Len(w) + 1 \notin Asterisks(w)
  BY <1>4, <1>5, <1>8, AsteriskBehind
<1>14. {i \in Asterisks(w) : At(w, i + 1) # "*"} = Asterisks(w)
  BY ONLY <1>1, <1>4, <1>5, SinglesAre
<1>15. CASE Cardinality(Asterisks(w)) % 2 = 1
  <2>1. Asterisks(w) # {}
    BY ONLY <1>15, OddEven
  <2>2. Asterisks(w) \subseteq Nat
    BY ONLY <1>1, <1>13
  <2>3. Min(Asterisks(w)) \in Asterisks(w)
    BY ONLY <2>1, <2>2, MinOf
  <2>4. PICK m \in 1..Len(w) : m = Min(Asterisks(w)) /\ w[m] = "*"
    BY ONLY <1>13, <2>3 DEF Asterisks
  <2>5. ~NothingToClose(From(w, m))
    <3>1. w[Len(w)] \notin {" ", "LF", "_", "~", "*", "tick"}
      BY LetterIs DEF EndsInWord
    <3>2. m # Len(w)
      BY ONLY <2>4, <3>1
    <3>3. m \in 0..Len(w) /\ Len(w) \in m + 1 .. Len(w)
      BY ONLY <1>1, <3>2, m \in 1..Len(w)
    <3>4. QED
      BY ONLY <1>1, <3>1, <3>3, TextAfter
  <2>6. v = w \o <<"*">>
    BY ONLY <1>7, <1>14, <1>15, <2>1, <2>4, <2>5 DEF CloseAsterisk
  <2>7. Cardinality(Asterisks(w) \cup {Len(w) + 1}) % 2 = 0
    BY ONLY <1>1, <1>13, <1>15, OneMoreIsEven
  <2>8. QED
    BY ONLY <1>12, <1>13, <2>6, <2>7
<1>16. CASE ~(Cardinality(Asterisks(w)) % 2 = 1)
  <2>1. v = w
    BY ONLY <1>7, <1>16 DEF CloseAsterisk
  <2>2. Cardinality(Asterisks(w)) \in Nat
    <3>1. IsFiniteSet(1..Len(w))
      BY ONLY <1>1, FS_Interval
    <3>2. QED
      BY ONLY <1>13, <3>1, FS_Subset, FS_CardinalityType
  <2>3. Cardinality(Asterisks(w)) % 2 = 0
    BY ONLY <1>16, <2>2, OddEven
  <2>4. QED
    BY ONLY <1>12, <2>1, <2>3
<1>17. QED
  BY ONLY <1>15, <1>16

(***************************************************************************)
(* A part of a text is the same in a text that goes on.                    *)
(***************************************************************************)
LEMMA SameSlices ==
  ASSUME NEW w, NEW v, NEW M, Extends(w, v, M), NEW a \in Nat, NEW b \in Nat,
         1 <= a, a <= b + 1, b <= Len(w)
  PROVE  SubSeq(v, a, b) = SubSeq(w, a, b)
<1>1. /\ w \in Seq(Sign) /\ v \in Seq(Sign) /\ Len(w) \in Nat /\ Len(v) \in Nat
      /\ Len(w) <= Len(v)
      /\ \A k \in 1..Len(w) : v[k] = w[k]
  BY ONLY Extends(w, v, M) DEF Extends
<1>2. b <= Len(v)
  BY ONLY <1>1, b \in Nat, b <= Len(w)
<1>3. PICK x \in Seq(Sign) :
        /\ x = SubSeq(w, a, b) /\ Len(x) = (b - a) + 1
        /\ \A k \in 1..Len(x) : x[k] = w[(a + k) - 1]
  <2>1. w \in Seq(Sign)
    BY ONLY <1>1
  <2>2. QED
    BY ONLY <2>1, a \in Nat, b \in Nat, 1 <= a, a <= b + 1, b <= Len(w), PartIs
<1>4. PICK y \in Seq(Sign) :
        /\ y = SubSeq(v, a, b) /\ Len(y) = (b - a) + 1
        /\ \A k \in 1..Len(y) : y[k] = v[(a + k) - 1]
  <2>1. v \in Seq(Sign)
    BY ONLY <1>1
  <2>2. QED
    BY ONLY <2>1, <1>2, a \in Nat, b \in Nat, 1 <= a, a <= b + 1, PartIs
<1>5. Len(x) = Len(y)
  BY ONLY <1>3, <1>4
<1>6. ASSUME NEW k \in 1..Len(x)
      PROVE  x[k] = y[k]
  <2>1. k \in 1..(b - a) + 1
    BY ONLY <1>3, k \in 1..Len(x)
  <2>2. (a + k) - 1 \in 1..Len(w)
    BY ONLY <1>1, <2>1, a \in Nat, b \in Nat, 1 <= a, b <= Len(w)
  <2>3. k \in 1..Len(y)
    BY ONLY <1>5, k \in 1..Len(x)
  <2>4. QED
    BY ONLY <1>1, <1>3, <1>4, <2>2, <2>3, k \in 1..Len(x)
<1>7. x = y
  BY ONLY <1>5, <1>6, x \in Seq(Sign), y \in Seq(Sign), SeqEqual
<1>8. QED
  BY ONLY <1>3, <1>4, <1>7

(***************************************************************************)
(* is_within_link_or_image_url: an underscore behind the text neither ends *)
(* a URL nor is in one.                                                    *)
(***************************************************************************)
LEMMA SameUrl ==
  ASSUME NEW w, NEW v, Extends(w, v, {"_"}), Len(v) = Len(w) + 1
  PROVE  /\ \A i \in 1..Len(w) : InUrl(v, i) <=> InUrl(w, i)
         /\ ~InUrl(v, Len(w) + 1)
<1>1. /\ w \in Seq(Sign) /\ v \in Seq(Sign) /\ Len(w) \in Nat /\ Len(v) \in Nat
      /\ Len(w) <= Len(v)
      /\ \A k \in 1..Len(w) : v[k] = w[k]
  BY ONLY Extends(w, v, {"_"}) DEF Extends
<1>2. DOMAIN w = 1..Len(w) /\ DOMAIN v = 1..Len(v)
  BY ONLY <1>1
<1>3. PICK n \in Nat : n = Len(w) + 1 /\ Len(v) = n /\ n \in Len(w) + 1 .. Len(v)
  BY ONLY <1>1, Len(v) = Len(w) + 1
<1>4. v[n] = "_"
  BY ONLY <1>3, Extends(w, v, {"_"}) DEF Extends
<1>5. \A j \in n..Len(v) : j = n
  BY ONLY <1>1, <1>3
<1>6. ~InUrl(v, n)
  <2>1. "_" # ")"
    OBVIOUS
  <2>2. QED
    BY ONLY <1>4, <1>5, <2>1 DEF InUrl
<1>7. ASSUME NEW i \in 1..Len(w)
      PROVE  InUrl(v, i) <=> InUrl(w, i)
  <2>1. i \in Nat /\ 1 <= i /\ i <= Len(w)
    BY ONLY <1>1, i \in 1..Len(w)
  <2>2. PICK stops : stops = {j \in 1..i - 1 : w[j] \in {"LF", ")", "("}}
    OBVIOUS
  <2>3. {j \in 1..i - 1 : v[j] \in {"LF", ")", "("}} = stops
    <3>1. \A j \in 1..i - 1 : j \in 1..Len(w)
      BY ONLY <1>1, <2>1
    <3>2. \A j \in 1..i - 1 : v[j] = w[j]
      BY ONLY <1>1, <3>1
    <3>3. QED
      BY ONLY <2>2, <3>2
  <2>4. (\E j \in i..Len(v) : v[j] = ")" /\ ~Has(SubSeq(v, i, j), "LF"))
          <=> \E j \in i..Len(w) : w[j] = ")" /\ ~Has(SubSeq(w, i, j), "LF")
    <3>1. ASSUME NEW j \in i..Len(w)
          PROVE  /\ j \in i..Len(v) /\ v[j] = w[j]
                 /\ SubSeq(v, i, j) = SubSeq(w, i, j)
      <4>1. j \in Nat /\ i <= j /\ j <= Len(w) /\ j \in 1..Len(w) /\ i <= j + 1
        BY ONLY <1>1, <2>1, j \in i..Len(w)
      <4>2. j \in i..Len(v)
        BY ONLY <1>1, <2>1, <4>1
      <4>3. SubSeq(v, i, j) = SubSeq(w, i, j)
        BY ONLY <2>1, <4>1, Extends(w, v, {"_"}), SameSlices
      <4>4. QED
        BY ONLY <1>1, <4>1, <4>2, <4>3
    <3>2. ASSUME NEW j \in i..Len(v), v[j] = ")"
          PROVE  j \in i..Len(w)
      <4>1. j # n
        BY ONLY <1>4, <3>2
      <4>2. QED
        BY ONLY <1>1, <1>3, <2>1, <4>1, j \in i..Len(v)
    <3>3. QED
      BY ONLY <3>1, <3>2
  <2>5. CASE stops = {}
    BY ONLY <2>2, <2>3, <2>5 DEF InUrl
  <2>6. CASE stops # {}
    <3>1. stops \subseteq 0..Len(w)
      BY ONLY <1>1, <2>1, <2>2
    <3>2. Max(stops) \in stops
      BY ONLY <1>1, <2>6, <3>1, MaxOf
    <3>3. PICK x \in Nat : x = Max(stops) /\ x < Len(w) /\ x \in 1..Len(w)
      <4>1. \A j \in stops : j \in 1..i - 1
        BY ONLY <2>2
      <4>2. \A j \in 1..i - 1 : j \in Nat /\ j < Len(w) /\ j \in 1..Len(w)
        BY ONLY <1>1, <2>1
      <4>3. QED
        BY ONLY <3>2, <4>1, <4>2
    <3>4. x \in 1..Len(w)
      BY ONLY <3>3
    <3>5. v[x] = w[x] /\ At(v, x - 1) = At(w, x - 1)
      BY ONLY <1>1, <3>3, <3>4, Extends(w, v, {"_"}), Neighbours
    <3>6. InUrl(w, i) <=> /\ stops # {} /\ w[x] = "(" /\ At(w, x - 1) = "]"
                          /\ \E j \in i..Len(w) : w[j] = ")" /\ ~Has(SubSeq(w, i, j), "LF")
      BY ONLY <2>2, <3>3 DEF InUrl
    <3>7. InUrl(v, i) <=> /\ stops # {} /\ v[x] = "(" /\ At(v, x - 1) = "]"
                          /\ \E j \in i..Len(v) : v[j] = ")" /\ ~Has(SubSeq(v, i, j), "LF")
      BY ONLY <2>3, <3>3 DEF InUrl
    <3>8. QED
      BY ONLY <2>4, <3>5, <3>6, <3>7
  <2>7. QED
    BY ONLY <2>5, <2>6
<1>8. QED
  BY ONLY <1>3, <1>6, <1>7

(***************************************************************************)
(* handle_incomplete_single_underscore_italic: one underscore more counts. *)
(***************************************************************************)
LEMMA UnderscoreBehind ==
  ASSUME NEW w, EndsInWord(w), Isolated(w, "_"), PlainText(w), NEW v,
         Extends(w, v, {"_"}), Len(v) = Len(w) + 1
  PROVE  /\ Underscores(v) = Underscores(w) \cup {Len(w) + 1}
         /\ Underscores(w) \subseteq 1..Len(w) /\ Len(w) + 1 \notin Underscores(w)
<1>1. /\ w \in Seq(Sign) /\ v \in Seq(Sign) /\ Len(w) \in Nat /\ Len(v) \in Nat
      /\ \A k \in 1..Len(w) : v[k] = w[k]
  BY DEF Extends
<1>2. /\ w[Len(w)] # "_" /\ v[Len(w) + 1] = "_"
      /\ At(v, (Len(w) + 1) + 1) = "none" /\ Isolated(v, "_")
  <2>1. "_" \in {"*", "_"}
    OBVIOUS
  <2>2. QED
    BY <2>1, OneBehind
<1>3. PlainText(v)
  <2>1. "_" \in {"*", "_"}
    OBVIOUS
  <2>2. QED
    BY <2>1, PlainStays
<1>4. Underscores(w) = SingleUnderscores(w) /\ Underscores(v) = SingleUnderscores(v)
  BY ONLY <1>1, <1>2, <1>3, Isolated(w, "_"), PlainText(w), SinglesAre
<1>5. PICK n \in Nat : n = Len(w) + 1 /\ n \in 1..Len(v) /\ n \notin 1..Len(w)
  BY ONLY <1>1, Len(v) = Len(w) + 1
<1>6. n \in SingleUnderscores(v)
  <2>1. "none" \notin WordChar
    <3>1. WordChar \subseteq Char
      BY ONLY TerminatorAssumption
    <3>2. "none" \notin Char
      BY ONLY TerminatorAssumption
    <3>3. QED
      BY ONLY <3>1, <3>2
  <2>2. ~InWord(v, n)
    BY ONLY <1>2, <1>5, <2>1 DEF InWord
  <2>3. ~InUrl(v, n)
    BY ONLY <1>5, Extends(w, v, {"_"}), Len(v) = Len(w) + 1, SameUrl
  <2>4. QED
    BY ONLY <1>2, <1>5, <2>2, <2>3 DEF SingleUnderscores
<1>7. ASSUME NEW i \in 1..Len(w)
      PROVE  i \in SingleUnderscores(v) <=> i \in SingleUnderscores(w)
  <2>1. v[i] = w[i] /\ i \in 1..Len(v)
    BY ONLY <1>1, i \in 1..Len(w), Len(v) = Len(w) + 1
  <2>2. CASE w[i] = "_"
    <3>1. i \in Nat /\ i < Len(w)
      <4>1. i # Len(w)
        BY ONLY <1>2, <2>2
      <4>2. Len(w) \in Nat
        BY ONLY <1>1
      <4>3. QED
        BY ONLY <4>1, <4>2, i \in 1..Len(w)
    <3>2. At(v, i - 1) = At(w, i - 1) /\ At(v, i + 1) = At(w, i + 1)
      BY ONLY <3>1, Extends(w, v, {"_"}), Neighbours
    <3>3. InUrl(v, i) <=> InUrl(w, i)
      BY ONLY i \in 1..Len(w), Extends(w, v, {"_"}), Len(v) = Len(w) + 1, SameUrl
    <3>4. InWord(v, i) <=> InWord(w, i)
      BY ONLY <3>2 DEF InWord
    <3>5. QED
      BY ONLY <2>1, <3>3, <3>4, i \in 1..Len(w) DEF SingleUnderscores
  <2>3. CASE w[i] # "_"
    BY ONLY <2>1, <2>3 DEF SingleUnderscores
  <2>4. QED
    BY ONLY <2>2, <2>3
<1>8. \A i \in 1..Len(v) : i = n \/ i \in 1..Len(w)
  BY ONLY <1>1, <1>5, Len(v) = Len(w) + 1
<1>9. SingleUnderscores(v) = SingleUnderscores(w) \cup {n}
  <2>1. /\ \A i \in SingleUnderscores(v) : i \in 1..Len(v)
        /\ \A i \in SingleUnderscores(w) : i \in 1..Len(w)
    BY DEF SingleUnderscores
  <2>2. QED
    BY ONLY <1>6, <1>7, <1>8, <2>1
<1>10. SingleUnderscores(w) \subseteq 1..Len(w)
  BY DEF SingleUnderscores
<1>11. QED
  BY ONLY <1>4, <1>5, <1>9, <1>10

(***************************************************************************)
(* Without asterisks the underscore goes behind the last letter.           *)
(***************************************************************************)
LEMMA UnderscorePlace ==
  ASSUME NEW w, EndsInWord(w), ~Has(w, "*"), Underscores(w) # {},
         Underscores(w) \subseteq 1..Len(w), Cardinality(Underscores(w)) % 2 = 1
  PROVE  /\ Extends(w, CloseUnderscore(w), {"_"})
         /\ Len(CloseUnderscore(w)) = Len(w) + 1
<1>1. w \in Seq(Sign) /\ Len(w) \in Nat /\ Len(w) >= 1 /\ DOMAIN w = 1..Len(w)
  BY EndsInWordType
<1>2. w[Len(w)] \notin {" ", "LF", "_", "~", "*", "tick"}
  BY LetterIs DEF EndsInWord
<1>3. ~Nested(w)
  <2>1. EndsWith(w, <<"*", "*">>) => Len(w) >= 2 /\ w[Len(w)] = "*"
    BY ONLY <1>1, EndsWithTwo
  <2>2. QED
    BY ONLY <1>2, <2>1 DEF Nested, Bold
<1>4. Max({0} \cup {k \in DOMAIN w : w[k] # "LF"}) = Len(w)
  <2>1. PICK S : S = {0} \cup {k \in DOMAIN w : w[k] # "LF"}
    OBVIOUS
  <2>2. S \subseteq 0..Len(w) /\ S # {} /\ Len(w) \in S
    <3>1. Len(w) \in 1..Len(w) /\ 0 \in 0..Len(w)
          /\ \A k \in 1..Len(w) : k \in 0..Len(w)
      BY ONLY <1>1
    <3>2. w[Len(w)] # "LF"
      BY ONLY <1>2
    <3>3. QED
      BY ONLY <1>1, <2>1, <3>1, <3>2
  <2>3. Max(S) \in S /\ \A n \in S : n <= Max(S)
    BY ONLY <1>1, <2>2, MaxOf
  <2>4. PICK x \in 0..Len(w) : x = Max(S) /\ Len(w) <= x
    BY ONLY <2>2, <2>3
  <2>5. Len(w) \in Nat
    BY ONLY <1>1
  <2>6. x = Len(w)
    BY ONLY <2>4, <2>5
  <2>7. QED
    BY ONLY <2>1, <2>4, <2>6
<1>5. Min(Underscores(w)) \in Underscores(w)
  <2>1. Underscores(w) \subseteq Nat
    BY ONLY <1>1, Underscores(w) \subseteq 1..Len(w)
  <2>2. QED
    BY ONLY <2>1, Underscores(w) # {}, MinOf
<1>6. PICK m \in 1..Len(w) : m = Min(Underscores(w)) /\ w[m] = "_"
  BY ONLY <1>5, Underscores(w) \subseteq 1..Len(w) DEF Underscores
<1>7. ~NothingToClose(From(w, m))
  <2>1. m # Len(w)
    BY ONLY <1>2, <1>6
  <2>2. m \in 0..Len(w) /\ Len(w) \in m + 1 .. Len(w)
    <3>1. Len(w) \in Nat
      BY ONLY <1>1
    <3>2. QED
      BY ONLY <2>1, <3>1, m \in 1..Len(w)
  <2>3. QED
    BY ONLY <1>1, <1>2, <2>2, TextAfter
<1>8. CloseUnderscore(w) = WithUnderscore(w, Len(w))
  BY ONLY <1>3, <1>4, <1>6, <1>7, Underscores(w) # {},
     Cardinality(Underscores(w)) % 2 = 1 DEF CloseUnderscore, WithUnderscore
<1>9. PICK u \in Seq(Sign) :
        /\ u = WithUnderscore(w, Len(w))
        /\ Len(u) = Len(w) + 1
        /\ \A k \in 1..Len(w) : u[k] = w[k]
        /\ u[Len(w) + 1] = "_"
  <2>1. Len(w) \in 0..Len(w)
    BY ONLY <1>1
  <2>2. QED
    BY ONLY <1>1, <2>1, PutIn
<1>10. Extends(w, u, {"_"})
  <2>1. Len(u) = Len(w) + 1
    BY ONLY <1>9
  <2>2. Len(u) \in Nat /\ Len(w) <= Len(u)
    BY ONLY <1>1, <2>1
  <2>3. \A k \in Len(w) + 1 .. Len(u) : k = Len(w) + 1
    BY ONLY <1>1, <2>1
  <2>4. \A k \in Len(w) + 1 .. Len(u) : u[k] \in {"_"}
    BY ONLY <1>9, <2>3
  <2>5. QED
    BY ONLY <1>1, <1>9, <2>2, <2>4, u \in Seq(Sign) DEF Extends
<1>11. QED
  BY ONLY <1>8, <1>9, <1>10

(***************************************************************************)
(* All repairs together, if the emphasis is of single underscores.         *)
(***************************************************************************)
LEMMA UnderscoreClosed ==
  ASSUME Repairs = AllRepairs, NEW w, EndsInWord(w), OfOneKind(w, <<"_">>)
  PROVE  Cardinality(Underscores(CloseMarkers(w))) % 2 = 0
<1>1. w \in Seq(Sign) /\ Len(w) \in Nat
  BY EndsInWordType
<1>2. \A d \in {"*", "_", "~", "tick", "$", "ESC"} \ {"_"} : ~Has(w, d)
  BY ONLY <1>1, OfOneKind(w, <<"_">>), OneKindIs
<1>3. ~Has(w, "*") /\ ~Has(w, "~") /\ ~Has(w, "tick") /\ ~Has(w, "$") /\ ~Has(w, "ESC")
  BY ONLY <1>2
<1>4. PlainText(w)
  BY ONLY <1>3 DEF PlainText
<1>5. Isolated(w, "_") /\ Occurs(w, <<"_", "_">>) = {}
  BY ONLY <1>1, OfOneKind(w, <<"_">>), IsolatedIs
<1>6. /\ CloseBoldItalic(w) = w /\ ClosePair(w, Bold) = w /\ CloseAsterisk(w) = w
      /\ ClosePair(w, <<"_", "_">>) = w
  <2>1. ClosePair(w, <<"_", "_">>) = w
    BY ONLY <1>5, NoOccurrence
  <2>2. CloseBoldItalic(w) = w /\ ClosePair(w, Bold) = w /\ CloseAsterisk(w) = w
    BY ONLY <1>1, <1>3, Idle
  <2>3. QED
    BY ONLY <2>1, <2>2
<1>7. Underscores(w) \subseteq 1..Len(w)
  <2>1. DOMAIN w = 1..Len(w)
    BY ONLY <1>1
  <2>2. Underscores(w) \subseteq DOMAIN w
    BY ONLY DEF Underscores
  <2>3. QED
    BY ONLY <2>1, <2>2
<1>8. PICK v : v = CloseUnderscore(w)
  OBVIOUS
<1>9. CloseEmphasis(w) = v
  BY ONLY <1>6, <1>8 DEF CloseEmphasis
<1>10. CASE Cardinality(Underscores(w)) % 2 = 1
  <2>1. Underscores(w) # {}
    BY ONLY <1>10, OddEven
  <2>2. Extends(w, v, {"_"}) /\ Len(v) = Len(w) + 1
    BY <1>3, <1>7, <1>8, <1>10, <2>1, UnderscorePlace
  <2>3. /\ Underscores(v) = Underscores(w) \cup {Len(w) + 1}
        /\ Len(w) + 1 \notin Underscores(w)
    BY <1>4, <1>5, <2>2, UnderscoreBehind
  <2>4. Cardinality(Underscores(v)) % 2 = 0
    BY ONLY <1>1, <1>7, <1>10, <2>3, OneMoreIsEven
  <2>5. v \in Seq(Sign) /\ ~Has(v, "~") /\ ~Has(v, "tick") /\ ~Has(v, "$")
    <3>1. "~" \notin {"_"} /\ "tick" \notin {"_"} /\ "$" \notin {"_"}
      OBVIOUS
    <3>2. ~Has(v, "~") /\ ~Has(v, "tick") /\ ~Has(v, "$")
      BY ONLY <1>3, <2>2, <3>1, StillWithout
    <3>3. QED
      BY ONLY <2>2, <3>2 DEF Extends
  <2>6. CloseMarkers(w) = v
    BY <1>9, <2>5, AllTurns, LastTurnsIdle
  <2>7. QED
    BY ONLY <2>4, <2>6
<1>11. CASE ~(Cardinality(Underscores(w)) % 2 = 1)
  <2>1. v = w
    BY ONLY <1>8, <1>11 DEF CloseUnderscore
  <2>2. CloseMarkers(w) = w
    BY <1>1, <1>3, <1>9, <2>1, AllTurns, LastTurnsIdle
  <2>3. Cardinality(Underscores(w)) \in Nat
    <3>1. IsFiniteSet(1..Len(w))
      BY ONLY <1>1, FS_Interval
    <3>2. QED
      BY ONLY <1>7, <3>1, FS_Subset, FS_CardinalityType
  <2>4. Cardinality(Underscores(w)) % 2 = 0
    BY ONLY <1>11, <2>3, OddEven
  <2>5. QED
    BY ONLY <2>2, <2>4
<1>12. QED
  BY ONLY <1>10, <1>11

-----------------------------------------------------------------------------
(***************************************************************************)
(* NothingLeftOpen, for a window w of which d is shown.                    *)
(***************************************************************************)
NothingOpen(w, d) ==
  /\ Occurs(w, Ticks) = {} =>
       ~InInline(d, Len(d) + 1) /\ DollarPairs(d) % 2 = 0
  /\ \A p \in {Bold, <<"_", "_">>} :
       OfOneKind(w, p) => ~OddMatches(d, p) \/ LeftOpen(w, p)
  /\ OfOneKind(w, Strike) => ~OddMatches(d, Strike)
  /\ OfOneKind(w, <<"*">>) => Cardinality(Asterisks(d)) % 2 = 0
  /\ OfOneKind(w, <<"_">>) => Cardinality(Underscores(d)) % 2 = 0

(***************************************************************************)
(* The repairs close what a window that ends with a letter leaves open.    *)
(***************************************************************************)
LEMMA MarkersClosed ==
  ASSUME Repairs = AllRepairs, NEW w, EndsInWord(w)
  PROVE  NothingOpen(w, CloseMarkers(w))
<1>1. Occurs(w, Ticks) = {} =>
        /\ ~InInline(CloseMarkers(w), Len(CloseMarkers(w)) + 1)
        /\ DollarPairs(CloseMarkers(w)) % 2 = 0
  BY ONLY Repairs = AllRepairs, EndsInWord(w), CodeAndMathClosed
<1>2. OfOneKind(w, Bold) => ~OddMatches(CloseMarkers(w), Bold) \/ LeftOpen(w, Bold)
  BY ONLY Repairs = AllRepairs, EndsInWord(w), BoldClosed
<1>3. OfOneKind(w, <<"_", "_">>) =>
        ~OddMatches(CloseMarkers(w), <<"_", "_">>) \/ LeftOpen(w, <<"_", "_">>)
  BY ONLY Repairs = AllRepairs, EndsInWord(w), DoubleClosed
<1>4. OfOneKind(w, Strike) => ~OddMatches(CloseMarkers(w), Strike)
  BY ONLY Repairs = AllRepairs, EndsInWord(w), StrikeClosed
<1>5. OfOneKind(w, <<"*">>) => Cardinality(Asterisks(CloseMarkers(w))) % 2 = 0
  BY ONLY Repairs = AllRepairs, EndsInWord(w), AsteriskClosed
<1>6. OfOneKind(w, <<"_">>) => Cardinality(Underscores(CloseMarkers(w))) % 2 = 0
  BY ONLY Repairs = AllRepairs, EndsInWord(w), UnderscoreClosed
<1>7. \A p \in {Bold, <<"_", "_">>} :
        OfOneKind(w, p) => ~OddMatches(CloseMarkers(w), p) \/ LeftOpen(w, p)
  BY ONLY <1>2, <1>3
<1>8. QED
  BY ONLY <1>1, <1>4, <1>5, <1>6, <1>7 DEF NothingOpen

(***************************************************************************)
(* Nor is anything open in an empty window, as there is when the last      *)
(* character alone does not fit.                                           *)
(***************************************************************************)
LEMMA EmptyClosed ==
  ASSUME Repairs = AllRepairs, NEW w, w = <<>>
  PROVE  /\ CloseMarkers(w) = w /\ NothingOpen(w, w)
         /\ WithoutSingleSpace(w) = w /\ ProtectSetext(w) = w
<1>1. w \in Seq(Sign) /\ w \in Seq(Char) /\ Len(w) = 0 /\ DOMAIN w = {}
  OBVIOUS
<1>2. \A c : ~Has(w, c)
  BY ONLY <1>1 DEF Has
<1>3. /\ CloseBoldItalic(w) = w /\ ClosePair(w, Bold) = w /\ CloseAsterisk(w) = w
      /\ ClosePair(w, <<"_", "_">>) = w /\ CloseUnderscore(w) = w
  BY ONLY <1>1, <1>2, Idle
<1>4. CloseMarkers(w) = w
  <2>1. CloseEmphasis(w) = w
    BY ONLY <1>3 DEF CloseEmphasis
  <2>2. CloseKatex(CloseStrike(CloseInlineCode(w))) = w
    BY ONLY <1>1, <1>2, LastTurnsIdle
  <2>3. QED
    BY ONLY <2>1, <2>2, Repairs = AllRepairs, AllTurns
<1>5. \A c : ~OddMatches(w, <<c, c>>)
  BY ONLY <1>1, <1>2, NoneOf, NoOccurrence
<1>6. ~InInline(w, Len(w) + 1) /\ DollarPairs(w) % 2 = 0
  <2>1. Occurs(w, Ticks) = {}
    BY ONLY <1>1, <1>2, NoneOf DEF Ticks
  <2>2. TicksOf(w) = {}
    BY ONLY <1>1 DEF TicksOf
  <2>3. Cardinality(TicksOf(w)) % 2 = 0
    BY ONLY <2>2, OddEven
  <2>4. DollarPairs(w) = 0
    BY ONLY <1>1, <1>2, NoDollar
  <2>5. QED
    BY ONLY <1>1, <2>1, <2>3, <2>4, InlineClosed, OddEven
<1>7. Cardinality(Asterisks(w)) % 2 = 0 /\ Cardinality(Underscores(w)) % 2 = 0
  <2>1. Asterisks(w) = {} /\ Underscores(w) = {}
    BY ONLY <1>1 DEF Asterisks, Underscores
  <2>2. QED
    BY ONLY <2>1, OddEven
<1>8. NothingOpen(w, w)
  <2>1. ~OddMatches(w, Bold) /\ ~OddMatches(w, <<"_", "_">>) /\ ~OddMatches(w, Strike)
    BY ONLY <1>5 DEF Bold, Strike
  <2>2. QED
    BY ONLY <1>6, <1>7, <2>1 DEF NothingOpen
<1>9. WithoutSingleSpace(w) = w
  <2>1. NoLoneSpace(w)
    <3>1. Len(w) = 0
      BY ONLY <1>1
    <3>2. ~(Len(w) >= 1)
      BY ONLY <3>1
    <3>3. QED
      BY ONLY <3>2 DEF NoLoneSpace
  <2>2. QED
    BY ONLY <1>1, <2>1, NothingToTrim
<1>10. ProtectSetext(w) = w
  BY ONLY <1>1, <1>9 DEF ProtectSetext
<1>11. QED
  BY ONLY <1>4, <1>8, <1>9, <1>10

(***************************************************************************)
(* apply_setext_heading_protection: a line that ends with a letter makes   *)
(* no heading.                                                             *)
(***************************************************************************)
LEMMA NoSetext ==
  ASSUME NEW w, EndsInWord(w)
  PROVE  WithoutSingleSpace(w) = w /\ ProtectSetext(w) = w
<1>1. w \in Seq(Sign) /\ Len(w) \in Nat /\ Len(w) >= 1
  BY EndsInWordType
<1>2. w \in Seq(Char) /\ w[Len(w)] \notin {" ", "LF", "-", "="}
  BY LetterIs DEF EndsInWord
<1>3. WithoutSingleSpace(w) = w
  <2>1. NoLoneSpace(w)
    BY ONLY <1>2 DEF NoLoneSpace
  <2>2. QED
    BY ONLY <1>2, <2>1, NothingToTrim
<1>4. PICK n \in Nat : n = Len(w) + 1 /\ n \in Nat \ {0} /\ n - 1 = Len(w)
  BY ONLY <1>1
<1>5. PICK a \in Nat : a = LineStart(w, n) /\ 1 <= a /\ a <= n
  BY ONLY <1>4, LineStartIs
<1>6. PICK last \in Seq(Sign) :
        /\ last = LineBefore(w, n) /\ Len(last) = (Len(w) - a) + 1
        /\ \A k \in 1..Len(last) : last[k] = w[(a + k) - 1]
  <2>1. a <= Len(w) + 1 /\ Len(w) <= Len(w)
    BY ONLY <1>1, <1>4, <1>5
  <2>2. PICK p \in Seq(Sign) :
          /\ p = SubSeq(w, a, Len(w)) /\ Len(p) = (Len(w) - a) + 1
          /\ \A k \in 1..Len(p) : p[k] = w[(a + k) - 1]
    BY ONLY <1>1, <1>5, <2>1, a \in Nat, PartIs
  <2>3. p = LineBefore(w, n)
    BY ONLY <1>4, <1>5, <2>2 DEF LineBefore
  <2>4. QED
    BY ONLY <2>2, <2>3
<1>7. Trim(last) \notin {<<"-">>, <<"-", "-">>, <<"=">>, <<"=", "=">>}
  <2>1. Len(last) \in Nat /\ DOMAIN last = 1..Len(last)
    BY ONLY last \in Seq(Sign)
  <2>2. CASE Len(last) = 0
    <3>1. Trim(last) = <<>>
      BY ONLY <2>1, <2>2 DEF Trim
    <3>2. QED
      BY ONLY <3>1
  <2>3. CASE Len(last) # 0
    <3>1. PICK L \in Nat : L = Len(last) /\ 1 <= L
      <4>1. Len(last) \in Nat
        BY ONLY <2>1
      <4>2. QED
        BY ONLY <2>3, <4>1
    <3>2. last[L] \notin {" ", "LF", "-", "="}
      <4>1. L \in 1..Len(last) /\ (a + L) - 1 = Len(w)
        BY ONLY <1>1, <1>6, <3>1, a \in Nat
      <4>2. last[L] = w[Len(w)]
        BY ONLY <1>6, <4>1
      <4>3. QED
        BY ONLY <1>2, <4>2
    <3>3. PICK S : S = {k \in DOMAIN last : ~IsBlank(last[k])}
      OBVIOUS
    <3>4. L \in S /\ S \subseteq 0..L /\ S \subseteq Nat /\ S # {}
      <4>1. L \in 1..L /\ \A k \in 1..L : k \in 0..L /\ k \in Nat
        BY ONLY <3>1
      <4>2. QED
        BY ONLY <2>1, <3>1, <3>2, <3>3, <4>1 DEF IsBlank
    <3>5. Min(S) \in S /\ Max(S) \in S /\ L <= Max(S)
      BY ONLY <3>4, MinOf, MaxOf
    <3>6. PICK x \in 0..L : x = Max(S) /\ L <= x
      BY ONLY <3>4, <3>5
    <3>7. x = L
      BY ONLY <3>1, <3>6
    <3>8. PICK m \in 1..L : m = Min(S)
      BY ONLY <2>1, <3>1, <3>3, <3>5
    <3>9. Trim(last) = SubSeq(last, m, L)
      BY ONLY <3>3, <3>4, <3>6, <3>7, <3>8 DEF Trim
    <3>10. m \in Nat /\ 1 <= m /\ m <= L /\ m <= L + 1 /\ L <= Len(last)
      BY ONLY <3>1, m \in 1..L
    <3>11. PICK p \in Seq(Sign) :
             /\ p = SubSeq(last, m, L) /\ Len(p) = (L - m) + 1
             /\ \A k \in 1..Len(p) : p[k] = last[(m + k) - 1]
      BY ONLY <3>1, <3>10, last \in Seq(Sign), PartIs
    <3>12. p[Len(p)] = last[L]
      <4>1. Len(p) \in 1..Len(p) /\ (m + Len(p)) - 1 = L
        BY ONLY <3>1, <3>10, <3>11
      <4>2. QED
        BY ONLY <3>11, <4>1
    <3>13. p[Len(p)] \notin {"-", "="}
      BY ONLY <3>2, <3>12
    <3>14. \A c \in {"-", "="} : <<c>>[Len(<<c>>)] = c /\ <<c, c>>[Len(<<c, c>>)] = c
      OBVIOUS
    <3>15. p \notin {<<"-">>, <<"-", "-">>, <<"=">>, <<"=", "=">>}
      BY ONLY <3>13, <3>14
    <3>16. QED
      BY ONLY <3>9, <3>11, <3>15
  <2>4. QED
    BY ONLY <2>2, <2>3
<1>8. ProtectSetext(w) = w
  BY ONLY <1>3, <1>4, <1>6, <1>7 DEF ProtectSetext
<1>9. QED
  BY ONLY <1>3, <1>8

(***************************************************************************)
(* terminate_markdown of a window in which no link is completed.           *)
(***************************************************************************)
LEMMA TailClosed ==
  ASSUME Repairs = AllRepairs, NEW w, w = <<>> \/ EndsInWord(w), FixLink(w) = w
  PROVE  NothingOpen(w, TerminateTail(w))
<1>1. w \in Seq(Sign) /\ ProtectSetext(w) = w
  <2>1. CASE w = <<>>
    BY ONLY <2>1, Repairs = AllRepairs, EmptyClosed
  <2>2. CASE EndsInWord(w)
    BY ONLY <2>2, NoSetext, EndsInWordType
  <2>3. QED
    BY <2>1, <2>2
<1>2. NothingOpen(w, CloseMarkers(w))
  <2>1. CASE w = <<>>
    BY ONLY <2>1, Repairs = AllRepairs, EmptyClosed
  <2>2. CASE EndsInWord(w)
    BY ONLY <2>2, Repairs = AllRepairs, MarkersClosed
  <2>3. QED
    BY <2>1, <2>2
<1>3. If("setext_headings", ProtectSetext(w), w) = w
  BY ONLY <1>1 DEF If
<1>4. CASE Occurs(w, Ticks) = {}
  <2>1. ~InOpenBlock(w)
    BY ONLY <1>4, NoOccurrence DEF InOpenBlock
  <2>2. TerminateTail(w) = CloseMarkers(w)
    BY ONLY <1>3, <2>1, FixLink(w) = w DEF TerminateTail
  <2>3. QED
    BY ONLY <1>2, <2>2
<1>5. CASE Occurs(w, Ticks) # {}
  <2>1. Has(w, "tick")
    BY ONLY <1>1, <1>5, NoneOf DEF Ticks
  <2>2. \A c \in {"*", "_", "~"} : ~OfOneKind(w, <<c, c>>) /\ ~OfOneKind(w, <<c>>)
    <3>1. \A c \in {"*", "_", "~"} : "tick" \in {"*", "_", "~", "tick", "$", "ESC"} \ {c}
      OBVIOUS
    <3>2. QED
      BY ONLY <1>1, <2>1, <3>1, OneKindIs
  <2>3. QED
    BY ONLY <1>5, <2>2 DEF NothingOpen, Bold, Strike
<1>6. QED
  BY ONLY <1>4, <1>5

-----------------------------------------------------------------------------
(***************************************************************************)
(* tail_window: a window of any size.                                      *)
(***************************************************************************)
LEMMA SomeWindow ==
  ASSUME NEW s \in Seq(Char)
  PROVE  WindowStart(s) \in 0..Len(s)
<1> DEFINE S == {n \in 0..Len(s) : BytesOf(From(s, n)) <= WindowBytes}
<1>1. Len(s) \in Nat
  OBVIOUS
<1>2. Len(s) \in S
  <2>1. Len(s) \in 0..Len(s) /\ Len(s) - Len(s) = 0
    BY <1>1
  <2>2. From(s, Len(s)) \in Seq(Char) /\ Len(From(s, Len(s))) = 0
    BY ONLY <2>1, s \in Seq(Char), RestIs
  <2>3. From(s, Len(s)) = <<>>
    BY <2>2
  <2>4. BytesOf(From(s, Len(s))) = 0
    BY ONLY <2>3, BytesEmpty
  <2>5. WindowBytes \in Nat
    BY ONLY TerminatorAssumption
  <2>6. QED
    BY <2>1, <2>4, <2>5
<1>3. S \subseteq Nat /\ S # {}
  BY <1>2
<1>4. WindowStart(s) = Min(S)
  BY DEF WindowStart
<1>5. S \subseteq 0..Len(s)
  OBVIOUS
<1> HIDE DEF S
<1>6. QED
  BY ONLY <1>3, <1>4, <1>5, MinOf

(***************************************************************************)
(* The end of a text that ends with a letter is empty or ends with it too. *)
(***************************************************************************)
LEMMA RestEnds ==
  ASSUME NEW s, EndsInWord(s), NEW f \in 0..Len(s)
  PROVE  From(s, f) = <<>> \/ EndsInWord(From(s, f))
<1>1. s \in Seq(Char) /\ Len(s) \in Nat /\ s[Len(s)] \in WordChar \ {"_"}
  BY DEF EndsInWord
<1>2. PICK w \in Seq(Char) :
        /\ w = From(s, f) /\ Len(w) = Len(s) - f
        /\ \A k \in 1..Len(s) - f : w[k] = s[f + k]
  <2>1. /\ From(s, f) \in Seq(Char) /\ Len(From(s, f)) = Len(s) - f
        /\ \A k \in 1..Len(s) - f : From(s, f)[k] = s[f + k]
    BY ONLY <1>1, f \in 0..Len(s), RestIs
  <2>2. QED
    BY ONLY <2>1
<1>3. CASE f = Len(s)
  <2>1. Len(w) = 0
    <3>1. Len(s) \in Nat /\ Len(w) = Len(s) - f
      BY ONLY <1>1, <1>2
    <3>2. QED
      BY ONLY <1>3, <3>1
  <2>2. w = <<>>
    BY ONLY <2>1, w \in Seq(Char)
  <2>3. QED
    BY ONLY <1>2, <2>2
<1>4. CASE f # Len(s)
  <2>1. Len(s) \in Nat
    BY ONLY <1>1
  <2>2. PICK n \in Nat : n = Len(s) - f /\ n >= 1 /\ n \in 1..Len(s) - f /\ f + n = Len(s)
    BY ONLY <2>1, <1>4, f \in 0..Len(s)
  <2>3. Len(w) = n /\ w[n] = s[Len(s)]
    BY ONLY <1>2, <2>2
  <2>4. QED
    BY ONLY <1>1, <1>2, <2>2, <2>3 DEF EndsInWord
<1>5. QED
  BY ONLY <1>3, <1>4

(***************************************************************************)
(* What is behind the first part of a text that was put together.          *)
(***************************************************************************)
LEMMA BehindFirst ==
  ASSUME NEW a \in Seq(Sign), NEW b \in Seq(Sign)
  PROVE  From(a \o b, Len(a)) = b
<1>1. Len(a) \in Nat /\ Len(b) \in Nat
  OBVIOUS
<1>2. PICK d \in Seq(Sign) :
        /\ d = a \o b /\ Len(d) = Len(a) + Len(b)
        /\ \A k \in 1..Len(b) : d[Len(a) + k] = b[k]
  <2>1. /\ a \o b \in Seq(Sign) /\ Len(a \o b) = Len(a) + Len(b)
        /\ \A k \in 1..Len(b) : (a \o b)[Len(a) + k] = b[k]
    BY ONLY a \in Seq(Sign), b \in Seq(Sign), JoinIs
  <2>2. QED
    BY ONLY <2>1
<1>3. Len(a) \in 0..Len(d) /\ Len(d) - Len(a) = Len(b)
  BY ONLY <1>1, <1>2
<1>4. PICK r \in Seq(Sign) :
        /\ r = From(d, Len(a)) /\ Len(r) = Len(d) - Len(a)
        /\ \A k \in 1..Len(d) - Len(a) : r[k] = d[Len(a) + k]
  <2>1. /\ From(d, Len(a)) \in Seq(Sign) /\ Len(From(d, Len(a))) = Len(d) - Len(a)
        /\ \A k \in 1..Len(d) - Len(a) : From(d, Len(a))[k] = d[Len(a) + k]
    BY ONLY <1>3, d \in Seq(Sign), RestIs
  <2>2. QED
    BY ONLY <2>1
<1>5. Len(r) = Len(b) /\ \A k \in 1..Len(r) : r[k] = b[k]
  BY ONLY <1>2, <1>3, <1>4
<1>6. r = b
  BY ONLY <1>5, r \in Seq(Sign), b \in Seq(Sign), SeqEqual
<1>7. QED
  BY ONLY <1>2, <1>4, <1>6

(***************************************************************************)
(* terminate_markdown of a text that ends with a letter.                   *)
(***************************************************************************)
LEMMA TerminateCloses ==
  ASSUME Repairs = AllRepairs, NEW t \in Seq(Char), EndsInLetter(t), NEW w,
         w = From(WithoutSingleSpace(t), WindowStart(WithoutSingleSpace(t))),
         FixLink(w) = w
  PROVE  NothingOpen(w, From(Terminate(t), WindowStart(WithoutSingleSpace(t))))
<1>1. EndsInWord(t)
  <2>1. t # <<>> /\ Sequence!Last(t) \in WordChar \ {"_"}
    BY ONLY EndsInLetter(t) DEF EndsInLetter
  <2>2. Len(t) \in Nat /\ Len(t) # 0
    <3>1. t # <<>>
      BY ONLY <2>1
    <3>2. QED
      BY ONLY <3>1, t \in Seq(Char), EmptySeq, LenProperties
  <2>3. Len(t) \in Nat /\ Len(t) >= 1
    BY ONLY <2>2
  <2>4. t[Len(t)] \in WordChar \ {"_"}
    BY ONLY <2>1 DEF Sequence!Last
  <2>5. QED
    BY ONLY <2>3, <2>4, t \in Seq(Char) DEF EndsInWord
<1>2. WithoutSingleSpace(t) = t
  BY ONLY <1>1, NoSetext
<1>3. PICK f \in 0..Len(t) : f = WindowStart(t) /\ w = From(t, f)
  BY ONLY <1>2, t \in Seq(Char), SomeWindow,
     w = From(WithoutSingleSpace(t), WindowStart(WithoutSingleSpace(t)))
<1>4. w = <<>> \/ EndsInWord(w)
  BY ONLY <1>1, <1>3, RestEnds
<1>5. NothingOpen(w, TerminateTail(w))
  BY ONLY <1>4, Repairs = AllRepairs, FixLink(w) = w, TailClosed
<1>6. PICK b \in Seq(Sign) : b = TerminateTail(w)
  <2>1. w \in Seq(Char) /\ WithoutSingleSpace(w) = w
    <3>1. CASE w = <<>>
      BY ONLY <3>1, Repairs = AllRepairs, EmptyClosed
    <3>2. CASE EndsInWord(w)
      BY ONLY <3>2, NoSetext DEF EndsInWord
    <3>3. QED
      BY ONLY <1>4, <3>1, <3>2
  <2>2. \E m \in 0..Len(w) : Good(w, m, TerminateTail(w))
    BY ONLY <2>1, TailGood
  <2>3. QED
    BY ONLY <2>2 DEF Good, Kept, KeptAround
<1>7. PICK a \in Seq(Sign) : a = SubSeq(t, 1, f) /\ Len(a) = f
  <2>1. t \in Seq(Sign)
    BY ONLY <1>1, EndsInWordType
  <2>2. QED
    BY ONLY <2>1, f \in 0..Len(t), HeadPartIs
<1>8. Terminate(t) = a \o b
  BY ONLY <1>2, <1>3, <1>6, <1>7 DEF Terminate
<1>9. From(a \o b, f) = b
  BY ONLY <1>7, a \in Seq(Sign), b \in Seq(Sign), BehindFirst
<1>10. QED
  BY ONLY <1>2, <1>3, <1>5, <1>6, <1>8, <1>9

(***************************************************************************)
(* Where text is being written the display leaves no code, no mathematics  *)
(* and no emphasis of one kind open, for every text, every chunking of it  *)
(* and every window, if all repairs are on.                                *)
(***************************************************************************)
THEOREM NothingStaysOpen ==
  ASSUME Repairs = AllRepairs
  PROVE  Spec => []NothingLeftOpen
<1>1. ScanInv => NothingLeftOpen
  <2>1. SUFFICES ASSUME ScanInv, EndsInLetter(Pending), FixLink(Window) = Window
                 PROVE  NothingOpen(Window, Shown)
    BY DEF NothingLeftOpen, NothingOpen
  <2>2. start \in Nat
    BY <2>1 DEF ScanInv
  <2>3. OffsetOf(start) \in 0..Len(buffer)
    BY <2>1, <2>2, OffsetType
  <2>4. Pending \in Seq(Char)
    <3>1. buffer \in Seq(Char)
      BY <2>1 DEF ScanInv
    <3>2. QED
      BY <2>3, <3>1, FromType DEF Pending
  <2>5. Window = From(WithoutSingleSpace(Pending),
                      WindowStart(WithoutSingleSpace(Pending)))
    BY DEF Window
  <2>6. NothingOpen(Window, From(Terminate(Pending),
                                 WindowStart(WithoutSingleSpace(Pending))))
    BY ONLY <2>1, <2>4, <2>5, Repairs = AllRepairs, TerminateCloses
  <2>7. QED
    BY ONLY <2>6 DEF Shown, Display
<1>2. QED
  BY <1>1, ScanInvHolds, PTL
=============================================================================
