-------------------------- MODULE ReferenceProofs --------------------------
(***************************************************************************)
(* Proofs about ReferenceSync and AnalyzedStream: an update names every    *)
(* block that a definition in it makes stale and no block that its         *)
(* consumer does not have, so an adapter that parses only those again      *)
(* holds what a parser would make of the whole document.                   *)
(***************************************************************************)
EXTENDS AnalyzedStream, SyncProofs

-----------------------------------------------------------------------------
(***************************************************************************)
(* Maps from some members of S to T.                                       *)
(***************************************************************************)
Partial(S, T) == UNION {[A -> T] : A \in SUBSET S}

(***************************************************************************)
(* Membership, by keys and values.                                         *)
(***************************************************************************)
LEMMA PartialIs ==
  ASSUME NEW S, NEW T
  PROVE  /\ \A f \in Partial(S, T) :
              /\ DOMAIN f \subseteq S /\ f \in [DOMAIN f -> T]
              /\ \A x \in DOMAIN f : f[x] \in T
         /\ \A A \in SUBSET S : \A f \in [A -> T] : f \in Partial(S, T)
BY DEF Partial

(***************************************************************************)
(* The empty map.                                                          *)
(***************************************************************************)
LEMMA NoEntryTyped ==
  ASSUME NEW S, NEW T
  PROVE  NoEntry \in Partial(S, T) /\ DOMAIN NoEntry = {}
<1>1. DOMAIN NoEntry = {} /\ NoEntry \in [{} -> T]
  BY DEF NoEntry
<1>2. QED
  BY <1>1, PartialIs

(***************************************************************************)
(* Inserting entries keeps the others.                                     *)
(***************************************************************************)
LEMMA InsertIs ==
  ASSUME NEW f, NEW g
  PROVE  /\ DOMAIN Insert(f, g) = DOMAIN f \cup DOMAIN g
         /\ \A x \in DOMAIN g : Insert(f, g)[x] = g[x]
         /\ \A x \in DOMAIN f : x \notin DOMAIN g => Insert(f, g)[x] = f[x]
BY DEF Insert

(***************************************************************************)
(* The same of one key.                                                    *)
(***************************************************************************)
LEMMA InsertOther ==
  ASSUME NEW f, NEW g, NEW x, x \notin DOMAIN g
  PROVE  /\ x \in DOMAIN Insert(f, g) <=> x \in DOMAIN f
         /\ x \in DOMAIN f => Insert(f, g)[x] = f[x]
BY DEF Insert

(***************************************************************************)
(* A map with entries inserted is a map of the same type.                  *)
(***************************************************************************)
LEMMA InsertTyped ==
  ASSUME NEW S, NEW T, NEW f \in Partial(S, T), NEW g \in Partial(S, T)
  PROVE  Insert(f, g) \in Partial(S, T)
<1>1. /\ DOMAIN f \subseteq S /\ \A x \in DOMAIN f : f[x] \in T
      /\ DOMAIN g \subseteq S /\ \A x \in DOMAIN g : g[x] \in T
  BY PartialIs
<1> DEFINE A == DOMAIN f \cup DOMAIN g
<1>2. Insert(f, g) \in [A -> T]
  BY <1>1 DEF Insert
<1>3. A \in SUBSET S
  BY <1>1
<1> HIDE DEF A
<1>4. QED
  BY <1>2, <1>3, PartialIs

(***************************************************************************)
(* Inserting nothing changes nothing.                                      *)
(***************************************************************************)
LEMMA InsertNone ==
  ASSUME NEW S, NEW T, NEW f \in Partial(S, T), NEW g, DOMAIN g = {}
  PROVE  Insert(f, g) = f
<1>1. f \in [DOMAIN f -> T]
  BY PartialIs
<1>2. f = [x \in DOMAIN f |-> f[x]]
  BY <1>1
<1>3. DOMAIN f \cup DOMAIN g = DOMAIN f
  OBVIOUS
<1>4. Insert(f, g) = [x \in DOMAIN f |-> f[x]]
  BY <1>3 DEF Insert
<1>5. QED
  BY <1>2, <1>4

-----------------------------------------------------------------------------
(***************************************************************************)
(* The labels that a block uses and defines.                               *)
(***************************************************************************)
LEMMA LabelsOf ==
  ASSUME NEW raw \in Seq(Text)
  PROVE  UsesOf(raw) \subseteq Label /\ DefinedBy(raw) \subseteq Label
<1>1. \A k \in DOMAIN raw : raw[k] \in Text
  OBVIOUS
<1>2. \A t \in Text : Uses[t] \subseteq Label /\ Defines[t] \subseteq Label
  BY LabelAssumption
<1>3. QED
  BY <1>1, <1>2 DEF UsesOf, DefinedBy

-----------------------------------------------------------------------------
(***************************************************************************)
(* A definition in block d makes what was parsed of block b stale.         *)
(***************************************************************************)
Touches(b, d) ==
  /\ b.kind # "CodeFence" /\ d.kind # "CodeFence"
  /\ UsesOf(b.raw) \cap DefinedBy(d.raw) # {}

IdsTo(bs, n) == {bs[k].id : k \in 1..n}

(***************************************************************************)
(* The index has the users of every label among the first n blocks.        *)
(***************************************************************************)
Indexed(idx, bs, n) ==
  /\ idx \in [Label -> SUBSET IdsTo(bs, n)]
  /\ \A k \in 1..n :
       bs[k].kind # "CodeFence" =>
         \A l \in UsesOf(bs[k].raw) : bs[k].id \in idx[l]

(***************************************************************************)
(* The set names only some of the first n blocks, and all of those that a  *)
(* later block behind the first m makes stale.                             *)
(***************************************************************************)
Announced(named, bs, m, n) ==
  /\ named \subseteq IdsTo(bs, n)
  /\ \A k, j \in 1..n :
       /\ Invalidates /\ k < j /\ m < j
       /\ bs[k].id # bs[j].id /\ Touches(bs[k], bs[j])
       => bs[k].id \in named

PushState == [index : [Label -> SUBSET Nat], flagged : SUBSET Nat]

(***************************************************************************)
(* The fields of a block.                                                  *)
(***************************************************************************)
LEMMA PartsOfBlock ==
  ASSUME NEW b \in Block
  PROVE  b.id \in Nat /\ b.raw \in Seq(Text) /\ b.kind \in Mode
BY DEF Block

(***************************************************************************)
(* The types of what a push does.                                          *)
(***************************************************************************)
LEMMA PushTyped ==
  ASSUME NEW st \in PushState, NEW b \in Block
  PROVE  Push(st, b) \in PushState
<1>1. b.id \in Nat /\ b.raw \in Seq(Text)
  BY PartsOfBlock
<1>2. st.index \in [Label -> SUBSET Nat] /\ st.flagged \in SUBSET Nat
  BY DEF PushState
<1> DEFINE idx == IndexBlock(st.index, b)
<1>3. idx \in [Label -> SUBSET Nat]
  BY <1>1, <1>2 DEF IndexBlock
<1>4. DefinedBy(b.raw) \subseteq Label
  BY <1>1, LabelsOf
<1>5. FlagUsers(idx, b) \subseteq Nat
  <2> HIDE DEF idx
  <2>1. \A l \in DefinedBy(b.raw) : idx[l] \subseteq Nat
    BY <1>3, <1>4
  <2>2. QED
    BY <2>1 DEF FlagUsers
<1>6. Push(st, b) = [index |-> idx,
                     flagged |-> st.flagged \cup FlagUsers(idx, b)]
  BY DEF Push
<1> HIDE DEF idx
<1>7. QED
  BY <1>2, <1>3, <1>5, <1>6 DEF PushState

(***************************************************************************)
(* The recursion that PushAll stands for.                                  *)
(***************************************************************************)
LEMMA PushAllIs ==
  ASSUME NEW st, st \in PushState, NEW bs, bs \in Seq(Block)
  PROVE  \E f : /\ f \in [0..Len(bs) -> PushState]
                /\ f[0] = st
                /\ \A n \in 1..Len(bs) : f[n] = Push(f[n - 1], bs[n])
                /\ PushAll(st, bs) = f[Len(bs)]
<1> DEFINE L == Len(bs)
           V == PushState
           first == st
           step == [n \in 1..L |-> [v \in V |-> Push(v, bs[n])]]
           g == CHOOSE g : g = [k \in 0..L |->
                                  IF k = 0 THEN st ELSE Push(g[k - 1], bs[k])]
<1>1. L \in Nat /\ first \in V /\ \A n \in 1..L : bs[n] \in Block
  OBVIOUS
<1>2. step \in [1..L -> [V -> V]]
  BY <1>1, PushTyped
<1>3. PICK f : /\ f \in [0..L -> V]
               /\ f[0] = first
               /\ \A n \in 1..L : f[n] = step[n][f[n - 1]]
  <2>1. L \in Nat /\ first \in V /\ step \in [1..L -> [V -> V]]
    BY <1>1, <1>2
  <2> HIDE DEF step, first, L, V
  <2>2. QED
    BY ONLY <2>1, RecursionExists
<1>4. ASSUME NEW n \in 1..L
      PROVE  f[n] = Push(f[n - 1], bs[n])
  <2>1. n - 1 \in 0..L
    BY <1>1
  <2>2. f[n - 1] \in V
    BY <1>3, <2>1
  <2>3. QED
    BY <1>3, <2>2
<1>5. f = [k \in 0..L |-> IF k = 0 THEN st ELSE Push(f[k - 1], bs[k])]
  <2> HIDE DEF step, V
  <2>1. \A k \in 0..L : k # 0 => k \in 1..L
    BY <1>1
  <2>2. QED
    BY <1>3, <1>4, <2>1
<1>6. g = [k \in 0..L |-> IF k = 0 THEN st ELSE Push(g[k - 1], bs[k])]
  BY <1>5
<1>7. PushAll(st, bs) = g[L]
  BY DEF PushAll
<1> HIDE DEF g, step, V
<1>8. \A k \in 0..L : f[k] = g[k]
  <2>1. f[0] = g[0]
    BY <1>1, <1>3, <1>6
  <2>2. ASSUME NEW n \in 1..L, f[n - 1] = g[n - 1]
        PROVE  f[n] = g[n]
    <3>1. n \in 0..L /\ n # 0
      BY <1>1
    <3>2. QED
      BY <1>4, <1>6, <2>2, <3>1
  <2>3. L \in Nat
    BY <1>1
  <2> HIDE DEF L
  <2>4. QED
    BY ONLY <2>1, <2>2, <2>3, StepwiseEqual
<1>9. L \in 0..L
  BY <1>1
<1>10. PushAll(st, bs) = f[L]
  BY <1>7, <1>8, <1>9
<1>11. QED
  BY <1>3, <1>4, <1>10 DEF V

-----------------------------------------------------------------------------
(***************************************************************************)
(* The maps from labels to definitions; what one line and one block add.   *)
(***************************************************************************)
Definitions == Partial(Label, Text)

Collected(d, t) == Insert(d, [l \in Defines[t] |-> t])

DefinedAfter(d, b) == IF b.kind = "CodeFence" THEN d ELSE Collect(d, b.raw)

(***************************************************************************)
(* The definitions after one line.                                         *)
(***************************************************************************)
LEMMA CollectedTyped ==
  ASSUME NEW d \in Definitions, NEW t \in Text
  PROVE  Collected(d, t) \in Definitions
<1>1. Defines[t] \in SUBSET Label
  BY LabelAssumption
<1>2. [l \in Defines[t] |-> t] \in [Defines[t] -> Text]
  OBVIOUS
<1>3. [l \in Defines[t] |-> t] \in Partial(Label, Text)
  BY <1>1, <1>2, PartialIs
<1>4. QED
  BY <1>3, InsertTyped DEF Definitions, Collected

(***************************************************************************)
(* The recursion that Collect stands for.                                  *)
(***************************************************************************)
LEMMA CollectIs ==
  ASSUME NEW d, d \in Definitions, NEW raw, raw \in Seq(Text)
  PROVE  \E f : /\ f \in [0..Len(raw) -> Definitions]
                /\ f[0] = d
                /\ \A n \in 1..Len(raw) : f[n] = Collected(f[n - 1], raw[n])
                /\ Collect(d, raw) = f[Len(raw)]
<1> DEFINE L == Len(raw)
           V == Definitions
           first == d
           step == [n \in 1..L |-> [v \in V |-> Collected(v, raw[n])]]
           g == CHOOSE g : g = [k \in 0..L |->
                                  IF k = 0 THEN d
                                  ELSE Insert(g[k - 1],
                                     [l \in Defines[raw[k]] |-> raw[k]])]
<1>1. L \in Nat /\ first \in V /\ \A n \in 1..L : raw[n] \in Text
  OBVIOUS
<1>2. step \in [1..L -> [V -> V]]
  BY <1>1, CollectedTyped
<1>3. PICK f : /\ f \in [0..L -> V]
               /\ f[0] = first
               /\ \A n \in 1..L : f[n] = step[n][f[n - 1]]
  <2>1. L \in Nat /\ first \in V /\ step \in [1..L -> [V -> V]]
    BY <1>1, <1>2
  <2> HIDE DEF step, first, L, V
  <2>2. QED
    BY ONLY <2>1, RecursionExists
<1>4. ASSUME NEW n \in 1..L
      PROVE  f[n] = Collected(f[n - 1], raw[n])
  <2>1. n - 1 \in 0..L
    BY <1>1
  <2>2. f[n - 1] \in V
    BY <1>3, <2>1
  <2>3. QED
    BY <1>3, <2>2
<1>5. f = [k \in 0..L |-> IF k = 0 THEN d
                         ELSE Insert(f[k - 1],
                                     [l \in Defines[raw[k]] |-> raw[k]])]
  <2> HIDE DEF step, V
  <2>1. \A k \in 0..L : k # 0 => k \in 1..L
    BY <1>1
  <2>2. QED
    BY <1>3, <1>4, <2>1 DEF Collected
<1>6. g = [k \in 0..L |-> IF k = 0 THEN d
                         ELSE Insert(g[k - 1],
                                     [l \in Defines[raw[k]] |-> raw[k]])]
  BY <1>5
<1>7. Collect(d, raw) = g[L]
  BY DEF Collect
<1> HIDE DEF g, step, V
<1>8. \A k \in 0..L : f[k] = g[k]
  <2>1. f[0] = g[0]
    BY <1>1, <1>3, <1>6
  <2>2. ASSUME NEW n \in 1..L, f[n - 1] = g[n - 1]
        PROVE  f[n] = g[n]
    <3>1. n \in 0..L /\ n # 0
      BY <1>1
    <3>2. QED
      BY <1>4, <1>6, <2>2, <3>1 DEF Collected
  <2>3. L \in Nat
    BY <1>1
  <2> HIDE DEF L
  <2>4. QED
    BY ONLY <2>1, <2>2, <2>3, StepwiseEqual
<1>9. L \in 0..L
  BY <1>1
<1>10. Collect(d, raw) = f[L]
  BY <1>7, <1>8, <1>9
<1>11. QED
  BY <1>3, <1>4, <1>10 DEF V

(***************************************************************************)
(* Definitions with those of a text are definitions.                       *)
(***************************************************************************)
LEMMA CollectTyped ==
  ASSUME NEW d \in Definitions, NEW raw \in Seq(Text)
  PROVE  Collect(d, raw) \in Definitions
<1>1. PICK f : /\ f \in [0..Len(raw) -> Definitions]
               /\ f[0] = d
               /\ \A n \in 1..Len(raw) : f[n] = Collected(f[n - 1], raw[n])
               /\ Collect(d, raw) = f[Len(raw)]
  BY CollectIs
<1>2. Len(raw) \in 0..Len(raw)
  OBVIOUS
<1>3. QED
  BY <1>1, <1>2

(***************************************************************************)
(* A text changes nothing about the labels that it does not define.        *)
(***************************************************************************)
LEMMA CollectKeeps ==
  ASSUME NEW d \in Definitions, NEW raw \in Seq(Text), NEW l,
         l \notin DefinedBy(raw)
  PROVE  /\ l \in DOMAIN Collect(d, raw) <=> l \in DOMAIN d
         /\ l \in DOMAIN d => Collect(d, raw)[l] = d[l]
<1>1. PICK f : /\ f \in [0..Len(raw) -> Definitions]
               /\ f[0] = d
               /\ \A n \in 1..Len(raw) : f[n] = Collected(f[n - 1], raw[n])
               /\ Collect(d, raw) = f[Len(raw)]
  BY CollectIs
<1> DEFINE Same(e) == /\ l \in DOMAIN e <=> l \in DOMAIN d
                      /\ l \in DOMAIN d => e[l] = d[l]
           S == {n \in Nat : n <= Len(raw) => Same(f[n])}
<1>2. 0 \in S
  BY <1>1
<1>3. ASSUME NEW n \in Nat, n \in S
      PROVE  n + 1 \in S
  <2>1. SUFFICES ASSUME n + 1 <= Len(raw)
                 PROVE  Same(f[n + 1])
    OBVIOUS
  <2>2. n + 1 \in 1..Len(raw) /\ (n + 1) - 1 = n /\ Same(f[n])
    BY <1>3, <2>1
  <2>3. f[n + 1] = Collected(f[n], raw[n + 1])
    BY <1>1, <2>2
  <2>4. l \notin Defines[raw[n + 1]]
    BY <2>2 DEF DefinedBy
  <2> DEFINE e == [m \in Defines[raw[n + 1]] |-> raw[n + 1]]
  <2>5. f[n + 1] = Insert(f[n], e) /\ l \notin DOMAIN e
    BY <2>3, <2>4 DEF Collected
  <2> HIDE DEF e
  <2>6. /\ l \in DOMAIN Insert(f[n], e) <=> l \in DOMAIN f[n]
        /\ l \in DOMAIN f[n] => Insert(f[n], e)[l] = f[n][l]
    BY <2>5, InsertOther
  <2>7. QED
    BY <2>2, <2>5, <2>6
<1> HIDE DEF S
<1>4. \A n \in Nat : n \in S
  BY <1>2, <1>3, NatInductive
<1>5. Len(raw) \in Nat
  OBVIOUS
<1>6. QED
  BY <1>1, <1>4, <1>5 DEF S

(***************************************************************************)
(* A text without definitions changes nothing.                             *)
(***************************************************************************)
LEMMA CollectNone ==
  ASSUME NEW d \in Definitions, NEW raw \in Seq(Text), DefinedBy(raw) = {}
  PROVE  Collect(d, raw) = d
<1>1. Collect(d, raw) \in Definitions
  BY CollectTyped
<1> DEFINE e == Collect(d, raw)
<1>2. \A l : (l \in DOMAIN e <=> l \in DOMAIN d)
             /\ (l \in DOMAIN d => e[l] = d[l])
  BY CollectKeeps
<1>3. d \in [DOMAIN d -> Text] /\ e \in [DOMAIN e -> Text]
  BY <1>1, PartialIs DEF Definitions
<1> HIDE DEF e
<1>4. DOMAIN e = DOMAIN d
  BY <1>2
<1>5. e = d
  BY <1>2, <1>3, <1>4
<1>6. QED
  BY <1>5 DEF e

(***************************************************************************)
(* The definitions after one block.                                        *)
(***************************************************************************)
LEMMA DefinedTyped ==
  ASSUME NEW d \in Definitions, NEW b \in Block
  PROVE  DefinedAfter(d, b) \in Definitions
BY PartsOfBlock, CollectTyped DEF DefinedAfter

(***************************************************************************)
(* The recursion that DefinitionsIn stands for.                            *)
(***************************************************************************)
LEMMA DefinitionsAre ==
  ASSUME NEW bs, bs \in Seq(Block)
  PROVE  \E f : /\ f \in [0..Len(bs) -> Definitions]
                /\ f[0] = NoEntry
                /\ \A n \in 1..Len(bs) : f[n] = DefinedAfter(f[n - 1], bs[n])
                /\ DefinitionsIn(bs) = f[Len(bs)]
<1> DEFINE L == Len(bs)
           V == Definitions
           first == NoEntry
           step == [n \in 1..L |-> [v \in V |-> DefinedAfter(v, bs[n])]]
           g == CHOOSE g : g = [k \in 0..L |->
                                  IF k = 0 THEN NoEntry
                                  ELSE IF bs[k].kind = "CodeFence" THEN g[k - 1]
                              ELSE Collect(g[k - 1], bs[k].raw)]
<1>1. L \in Nat /\ first \in V /\ \A n \in 1..L : bs[n] \in Block
  BY NoEntryTyped DEF Definitions
<1>2. step \in [1..L -> [V -> V]]
  BY <1>1, DefinedTyped
<1>3. PICK f : /\ f \in [0..L -> V]
               /\ f[0] = first
               /\ \A n \in 1..L : f[n] = step[n][f[n - 1]]
  <2>1. L \in Nat /\ first \in V /\ step \in [1..L -> [V -> V]]
    BY <1>1, <1>2
  <2> HIDE DEF step, first, L, V
  <2>2. QED
    BY ONLY <2>1, RecursionExists
<1>4. ASSUME NEW n \in 1..L
      PROVE  f[n] = DefinedAfter(f[n - 1], bs[n])
  <2>1. n - 1 \in 0..L
    BY <1>1
  <2>2. f[n - 1] \in V
    BY <1>3, <2>1
  <2>3. QED
    BY <1>3, <2>2
<1>5. f = [k \in 0..L |-> IF k = 0 THEN NoEntry
                         ELSE IF bs[k].kind = "CodeFence" THEN f[k - 1]
                              ELSE Collect(f[k - 1], bs[k].raw)]
  <2> HIDE DEF step, V
  <2>1. \A k \in 0..L : k # 0 => k \in 1..L
    BY <1>1
  <2>2. QED
    BY <1>3, <1>4, <2>1 DEF DefinedAfter
<1>6. g = [k \in 0..L |-> IF k = 0 THEN NoEntry
                         ELSE IF bs[k].kind = "CodeFence" THEN g[k - 1]
                              ELSE Collect(g[k - 1], bs[k].raw)]
  BY <1>5
<1>7. DefinitionsIn(bs) = g[L]
  BY DEF DefinitionsIn
<1> HIDE DEF g, step, V
<1>8. \A k \in 0..L : f[k] = g[k]
  <2>1. f[0] = g[0]
    BY <1>1, <1>3, <1>6
  <2>2. ASSUME NEW n \in 1..L, f[n - 1] = g[n - 1]
        PROVE  f[n] = g[n]
    <3>1. n \in 0..L /\ n # 0
      BY <1>1
    <3>2. QED
      BY <1>4, <1>6, <2>2, <3>1 DEF DefinedAfter
  <2>3. L \in Nat
    BY <1>1
  <2> HIDE DEF L
  <2>4. QED
    BY ONLY <2>1, <2>2, <2>3, StepwiseEqual
<1>9. L \in 0..L
  BY <1>1
<1>10. DefinitionsIn(bs) = f[L]
  BY <1>7, <1>8, <1>9
<1>11. QED
  BY <1>3, <1>4, <1>10 DEF V

(***************************************************************************)
(* The users of a label that a block defines are flagged.                  *)
(***************************************************************************)
LEMMA FlagUsersHas ==
  ASSUME NEW idx, NEW b, Invalidates, b.kind # "CodeFence",
         NEW l \in DefinedBy(b.raw), NEW i \in idx[l], i # b.id
  PROVE  i \in FlagUsers(idx, b)
BY DEF FlagUsers

-----------------------------------------------------------------------------
\* The index and the announcements are those of the first n blocks.
Pushes(st, bs, m, n) ==
  Indexed(st.index, bs, n) /\ Announced(st.flagged, bs, m, n)

(***************************************************************************)
(* Pushing a block keeps the index and announces whom its definitions      *)
(* make stale.                                                             *)
(***************************************************************************)
LEMMA PushKeeps ==
  ASSUME NEW bs \in Seq(Block), NEW m \in Nat, NEW n \in Nat,
         n + 1 <= Len(bs), m <= n,
         NEW st \in PushState, Pushes(st, bs, m, n)
  PROVE  Pushes(Push(st, bs[n + 1]), bs, m, n + 1)
<1>1. PICK b \in Block : b = bs[n + 1]
  OBVIOUS
<1>2. PICK idx : idx = IndexBlock(st.index, b)
  OBVIOUS
<1>3. b.raw \in Seq(Text) /\ UsesOf(b.raw) \subseteq Label
      /\ DefinedBy(b.raw) \subseteq Label
  BY PartsOfBlock, LabelsOf
<1>4. /\ 1..n + 1 = (1..n) \cup {n + 1}
      /\ IdsTo(bs, n + 1) = IdsTo(bs, n) \cup {b.id}
  <2>1. 1..n + 1 = (1..n) \cup {n + 1}
    OBVIOUS
  <2>2. QED
    BY <1>1, <2>1 DEF IdsTo
<1>5. /\ st.index \in [Label -> SUBSET IdsTo(bs, n)]
      /\ st.flagged \subseteq IdsTo(bs, n)
  BY DEF Pushes, Indexed, Announced
<1>6. /\ idx \in [Label -> SUBSET IdsTo(bs, n + 1)]
      /\ \A l \in Label : st.index[l] \subseteq idx[l]
      /\ b.kind # "CodeFence" => \A l \in UsesOf(b.raw) : b.id \in idx[l]
  <2>1. CASE b.kind = "CodeFence"
    BY <1>2, <1>4, <1>5, <2>1 DEF IndexBlock
  <2>2. CASE b.kind # "CodeFence"
    <3>1. idx = [l \in Label |-> IF l \in UsesOf(b.raw)
                                 THEN st.index[l] \cup {b.id} ELSE st.index[l]]
      BY <1>2, <2>2 DEF IndexBlock
    <3>2. QED
      BY <1>3, <1>4, <1>5, <3>1
  <2>3. QED
    BY <2>1, <2>2
<1>7. PICK new : new = FlagUsers(idx, b)
  OBVIOUS
<1>8. Push(st, b).index = idx /\ Push(st, b).flagged = st.flagged \cup new
  BY <1>2, <1>7 DEF Push
<1>9. Indexed(idx, bs, n + 1)
  <2>1. ASSUME NEW k \in 1..n, bs[k].kind # "CodeFence",
               NEW l \in UsesOf(bs[k].raw)
        PROVE  bs[k].id \in idx[l]
    <3>1. bs[k].id \in st.index[l]
      BY <2>1 DEF Pushes, Indexed
    <3>2. bs[k] \in Block
      OBVIOUS
    <3>3. l \in Label
      BY <3>2, PartsOfBlock, LabelsOf
    <3>4. QED
      BY <1>6, <3>1, <3>3
  <2>2. QED
    BY <1>1, <1>4, <1>6, <2>1 DEF Indexed
<1>10. st.flagged \cup new \subseteq IdsTo(bs, n + 1)
  <2>1. \A l \in DefinedBy(b.raw) : idx[l] \subseteq IdsTo(bs, n + 1)
    BY <1>3, <1>6
  <2>2. new \subseteq IdsTo(bs, n + 1)
    BY <1>7, <2>1 DEF FlagUsers
  <2>3. QED
    BY <1>4, <1>5, <2>2
<1>11. ASSUME Invalidates, NEW k \in 1..n + 1, NEW j \in 1..n + 1, k < j,
              m < j, bs[k].id # bs[j].id, Touches(bs[k], bs[j])
       PROVE  bs[k].id \in st.flagged \cup new
  <2>1. CASE j # n + 1
    <3>1. k \in 1..n /\ j \in 1..n
      BY <1>11, <2>1
    <3>2. QED
      BY <1>11, <3>1 DEF Pushes, Announced
  <2>2. CASE j = n + 1
    <3>1. k \in 1..n /\ bs[j] = b
      BY <1>1, <1>11, <2>2
    <3>2. PICK l : l \in UsesOf(bs[k].raw) /\ l \in DefinedBy(b.raw)
      BY <1>11, <3>1 DEF Touches
    <3>3. bs[k].id \in st.index[l]
      BY <1>11, <3>1, <3>2 DEF Pushes, Indexed, Touches
    <3>4. bs[k].id \in idx[l]
      BY <1>3, <1>6, <3>2, <3>3
    <3>5. b.kind # "CodeFence"
      BY <1>11, <3>1 DEF Touches
    <3>6. Invalidates /\ b.kind # "CodeFence"
      BY <1>11, <3>5
    <3>7. bs[k].id # b.id
      BY <1>11, <3>1
    <3>8. bs[k].id \in new
      BY <1>7, <3>2, <3>4, <3>6, <3>7, FlagUsersHas
    <3>9. QED
      BY <3>8
  <2>3. QED
    BY <2>1, <2>2
<1>12. Announced(st.flagged \cup new, bs, m, n + 1)
  BY <1>10, <1>11 DEF Announced
<1>13. QED
  BY <1>1, <1>8, <1>9, <1>12 DEF Pushes

(***************************************************************************)
(* So does pushing all blocks behind the first c.                          *)
(***************************************************************************)
LEMMA PushAllKeeps ==
  ASSUME NEW bs \in Seq(Block), NEW c \in Nat, c <= Len(bs), NEW m \in Nat,
         m <= c, NEW st \in PushState, Pushes(st, bs, m, c)
  PROVE  LET e == PushAll(st, SubSeq(bs, c + 1, Len(bs)))
         IN  e \in PushState /\ Pushes(e, bs, m, Len(bs))
<1>1. PICK new \in Seq(Block) :
        /\ new = SubSeq(bs, c + 1, Len(bs))
        /\ Len(new) = Len(bs) - c
        /\ \A n \in 1..Len(new) : new[n] = bs[c + n]
  <2>1. /\ SubSeq(bs, c + 1, Len(bs)) \in Seq(Block)
        /\ Len(SubSeq(bs, c + 1, Len(bs))) = Len(bs) - c
        /\ \A n \in 1..Len(bs) - c :
             SubSeq(bs, c + 1, Len(bs))[n] = bs[c + n]
    OBVIOUS
  <2>2. QED
    BY <2>1
<1>2. PICK f : /\ f \in [0..Len(new) -> PushState]
               /\ f[0] = st
               /\ \A n \in 1..Len(new) : f[n] = Push(f[n - 1], new[n])
               /\ PushAll(st, new) = f[Len(new)]
  BY PushAllIs
<1> DEFINE S == {n \in Nat : n <= Len(new) => Pushes(f[n], bs, m, c + n)}
<1>3. 0 \in S
  BY <1>2
<1>4. ASSUME NEW n \in Nat, n \in S
      PROVE  n + 1 \in S
  <2>1. SUFFICES ASSUME n + 1 <= Len(new)
                 PROVE  Pushes(f[n + 1], bs, m, c + (n + 1))
    OBVIOUS
  <2>2. Pushes(f[n], bs, m, c + n)
    BY <1>4, <2>1
  <2>3. f[n] \in PushState /\ n + 1 \in 1..Len(new) /\ (n + 1) - 1 = n
    BY <1>2, <2>1
  <2>4. f[n + 1] = Push(f[n], bs[c + (n + 1)])
    BY <1>1, <1>2, <2>3
  <2>5. PICK i \in Nat : i = c + n /\ i + 1 = c + (n + 1)
    OBVIOUS
  <2>6. i + 1 <= Len(bs) /\ m <= i
    BY <1>1, <2>1, <2>5
  <2>7. Pushes(Push(f[n], bs[i + 1]), bs, m, i + 1)
    BY <2>2, <2>3, <2>5, <2>6, PushKeeps
  <2>8. QED
    BY <2>4, <2>5, <2>7
<1> HIDE DEF S
<1>5. \A n \in Nat : n \in S
  BY <1>3, <1>4, NatInductive
<1>6. PICK N \in Nat : N = Len(new) /\ c + N = Len(bs) /\ N \in 0..Len(new)
  <2>1. Len(new) \in Nat /\ c + Len(new) = Len(bs)
    BY <1>1
  <2>2. Len(new) \in 0..Len(new)
    BY <2>1
  <2>3. QED
    BY <2>1, <2>2
<1>7. Pushes(f[N], bs, m, Len(bs)) /\ f[N] \in PushState
  <2>1. N <= Len(new) => Pushes(f[N], bs, m, c + N)
    BY <1>5 DEF S
  <2>2. N <= Len(new) /\ f[N] \in PushState
    BY <1>2, <1>6
  <2>3. QED
    BY ONLY <1>6, <2>1, <2>2
<1>8. QED
  BY <1>1, <1>2, <1>6, <1>7

-----------------------------------------------------------------------------
(***************************************************************************)
(* The stream's side.  During a call the index and the flagged blocks are  *)
(* those of the blocks committed so far; between calls nothing is flagged. *)
(***************************************************************************)
IndexInv ==
  /\ [index |-> index, flagged |-> flagged] \in PushState
  /\ Indexed(index, cur.committed, Len(cur.committed))
  /\ pc = "lines" =>
       /\ ~report.reset /\ report.mark <= Len(cur.committed)
       /\ Announced(flagged, cur.committed, report.mark, Len(cur.committed))
  /\ pc = "idle" => flagged = {}

(***************************************************************************)
(* The steps of a call as far as blocks go: the switch to a single block,  *)
(* and those that keep the blocks that are committed.                      *)
(***************************************************************************)
Drop == /\ report'.reset /\ report'.mark = 0
        /\ cur'.committed = <<>> /\ pc' = "idle"

Goes == /\ ~report'.reset /\ IsPrefixOf(cur.committed, cur'.committed)
        /\ report'.mark <= Len(cur.committed)
        /\ \/ pc = "idle" /\ report'.mark = Len(cur.committed)
           \/ pc = "lines" /\ report'.mark = report.mark

CallStep == \/ \E chunk \in Chunk, cr \in BOOLEAN : AppendChunk(chunk, cr)
            \/ ProcessLine \/ FinishAppend
            \/ AppendNothing \/ FinalizeNothingNew \/ Finalize

(***************************************************************************)
(* Every step of a call is one of them.                                    *)
(***************************************************************************)
LEMMA CallStepIs ==
  ASSUME TypeOK, IndexInv, CallStep
  PROVE  Drop \/ Goes
<1>1. cur.committed \in Seq(Block) /\ Len(cur.committed) \in Nat
  BY CursorFields DEF TypeOK
<1>2. IsPrefixOf(cur.committed, cur.committed)
  BY <1>1 DEF IsPrefixOf
<1>3. [Next]_vars
  BY DEF CallStep, Next, NextOn
<1>4. ASSUME NEW chunk \in Chunk, NEW cr \in BOOLEAN, AppendChunk(chunk, cr)
      PROVE  Drop \/ Goes
  <2>1. pc = "idle" /\ (EnterSingleBlock(lines') \/ EnterLoop)
    BY <1>4 DEF AppendChunk, MayAppend
  <2>2. CASE EnterSingleBlock(lines')
    BY <2>2 DEF EnterSingleBlock, FreshCursor, Drop
  <2>3. CASE EnterLoop
    <3>1. cur' = cur /\ ~report'.reset /\ report'.mark = Len(cur.committed)
      BY <2>3 DEF EnterLoop
    <3>2. QED
      BY <1>1, <1>2, <2>1, <3>1 DEF Goes
  <2>4. QED
    BY <2>1, <2>2, <2>3
<1>5. CASE ProcessLine \/ FinishAppend
  <2>1. pc = "lines" /\ report' = report
    BY <1>5 DEF ProcessLine, FinishAppend
  <2>2. ~Drops
    BY <2>1 DEF Drops, Reset, AppendChunk, MayAppend
  <2>3. IsPrefixOf(cur.committed, cur'.committed)
    BY <1>3, <2>2, KeepsStep DEF Committed
  <2>4. QED
    BY <2>1, <2>3 DEF Goes, IndexInv
<1>6. CASE AppendNothing
  <2>1. /\ cur' = cur /\ ~report'.reset /\ pc = "idle"
        /\ report'.mark = Len(cur.committed)
    BY <1>6 DEF AppendNothing, MayAppend
  <2>2. QED
    BY <1>1, <1>2, <2>1 DEF Goes
<1>7. CASE FinalizeNothingNew \/ Finalize
  <2>1. /\ report'.final /\ ~report'.reset /\ pc = "idle"
        /\ report'.mark = Len(cur.committed)
    BY <1>7 DEF FinalizeNothingNew, Finalize, FinalReport
  <2>2. ~Drops
    BY <2>1 DEF Drops, Reset, EnterSingleBlock
  <2>3. IsPrefixOf(cur.committed, cur'.committed)
    BY <1>3, <2>2, KeepsStep DEF Committed
  <2>4. QED
    BY <1>1, <2>1, <2>3 DEF Goes
<1>8. QED
  BY <1>4, <1>5, <1>6, <1>7 DEF CallStep

(***************************************************************************)
(* What has been said of some blocks holds when others follow them.        *)
(***************************************************************************)
LEMMA PrefixPushes ==
  ASSUME NEW s \in Seq(Block), NEW t \in Seq(Block), IsPrefixOf(s, t),
         NEW st, NEW m, Pushes(st, s, m, Len(s))
  PROVE  Len(s) <= Len(t) /\ Pushes(st, t, m, Len(s))
<1>1. Len(s) \in Nat /\ Len(s) <= Len(t) /\ \A k \in 1..Len(s) : t[k] = s[k]
  BY DEF IsPrefixOf
<1>2. IdsTo(t, Len(s)) = IdsTo(s, Len(s))
  BY <1>1 DEF IdsTo
<1>3. Indexed(st.index, t, Len(s))
  BY <1>1, <1>2 DEF Pushes, Indexed
<1>4. Announced(st.flagged, t, m, Len(s))
  <2>1. st.flagged \subseteq IdsTo(t, Len(s))
    BY <1>2 DEF Pushes, Announced
  <2>2. ASSUME NEW k \in 1..Len(s), NEW j \in 1..Len(s),
               Invalidates, k < j, m < j, t[k].id # t[j].id,
               Touches(t[k], t[j])
        PROVE  t[k].id \in st.flagged
    <3>1. t[k] = s[k] /\ t[j] = s[j]
      BY <1>1
    <3>2. QED
      BY <2>2, <3>1 DEF Pushes, Announced
  <2>3. QED
    BY <2>1, <2>2 DEF Announced
<1>5. QED
  BY <1>1, <1>3, <1>4 DEF Pushes

(***************************************************************************)
(* The index and the flagged blocks after a step of a call are those of    *)
(* the blocks committed then.                                              *)
(***************************************************************************)
LEMMA PushedIs ==
  ASSUME TypeOK, TypeOK', IndexInv, CallStep
  PROVE  /\ Pushed \in PushState
         /\ Pushes(Pushed, cur'.committed, report'.mark, Len(cur'.committed))
         /\ report'.mark \in Nat /\ report'.mark <= Len(cur'.committed)
<1>1. cur.committed \in Seq(Block) /\ cur'.committed \in Seq(Block)
  <2>1. cur \in Cursor /\ cur' \in Cursor
    BY DEF TypeOK
  <2>2. QED
    BY <2>1, CursorFields
<1>2. CASE Drop
  <2>1. Pushed = [index |-> EmptyIndex, flagged |-> {}]
    BY <1>2 DEF Drop, Pushed
  <2>2. Pushed.index = [l \in Label |-> {}] /\ Pushed.flagged = {}
    BY <2>1 DEF EmptyIndex
  <2>3. Pushed \in PushState
    BY <2>1 DEF PushState, EmptyIndex
  <2>4. cur'.committed = <<>> /\ Len(cur'.committed) = 0 /\ report'.mark = 0
    BY <1>2 DEF Drop
  <2>5. Indexed(Pushed.index, cur'.committed, 0)
    BY <2>2 DEF Indexed
  <2>6. Announced(Pushed.flagged, cur'.committed, 0, 0)
    BY <2>2 DEF Announced
  <2>7. QED
    BY <2>3, <2>4, <2>5, <2>6 DEF Pushes
<1>3. CASE Goes
  <2>1. PICK m : m = report'.mark
    OBVIOUS
  <2>2. m \in Nat /\ m <= Len(cur.committed)
    BY <1>3, <2>1 DEF TypeOK, Goes
  <2>3. PICK st : st = [index |-> index, flagged |-> flagged]
    OBVIOUS
  <2>4. st \in PushState /\ st.index = index /\ st.flagged = flagged
    BY <2>3 DEF IndexInv
  <2>5. Pushes(st, cur.committed, m, Len(cur.committed))
    <3>1. Indexed(index, cur.committed, Len(cur.committed))
      BY DEF IndexInv
    <3>2. Announced(flagged, cur.committed, m, Len(cur.committed))
      <4>1. CASE pc = "idle" /\ m = Len(cur.committed)
        <5>1. flagged = {}
          BY <4>1 DEF IndexInv
        <5>2. \A j \in 1..Len(cur.committed) : ~(m < j)
          BY <1>1, <4>1
        <5>3. QED
          BY <5>1, <5>2 DEF Announced
      <4>2. CASE pc = "lines" /\ m = report.mark
        BY <4>2 DEF IndexInv
      <4>3. QED
        BY <1>3, <2>1, <4>1, <4>2 DEF Goes
    <3>3. QED
      BY <2>4, <3>1, <3>2 DEF Pushes
  <2>6. PICK bs \in Seq(Block) : bs = cur'.committed
    BY <1>1
  <2>7. PICK c \in Nat : c = Len(cur.committed)
    BY <1>1
  <2>8. c <= Len(bs) /\ Pushes(st, bs, m, c)
    BY <1>1, <1>3, <2>5, <2>6, <2>7, PrefixPushes DEF Goes
  <2>9. Pushed = PushAll(st, SubSeq(bs, c + 1, Len(bs)))
    BY <1>3, <2>3, <2>6, <2>7 DEF Goes, Pushed, NewlyCommitted
  <2>10. Pushed \in PushState /\ Pushes(Pushed, bs, m, Len(bs))
    BY <2>2, <2>4, <2>7, <2>8, <2>9, PushAllKeeps
  <2>11. m <= Len(bs)
    BY <2>2, <2>7, <2>8
  <2>12. QED
    BY <2>1, <2>2, <2>6, <2>10, <2>11
<1>4. QED
  BY <1>2, <1>3, CallStepIs

(***************************************************************************)
(* Every update under way names blocks of the view after it: all those     *)
(* that its own blocks make stale.                                         *)
(***************************************************************************)
Names(v, u, named) ==
  LET bs == v.committed
  IN  /\ Len(u.committed) <= Len(bs)
      /\ Announced(named, bs, Len(bs) - Len(u.committed), Len(bs))

AllNamed(f) ==
  \A n \in 1..Len(updates) : Names(f[n], updates[n], invalidations[n])

NamedInv ==
  /\ invalidations \in Seq(SUBSET Nat)
  /\ Len(invalidations) = Len(updates)
  /\ \E f : IsAfter(f, view, updates) /\ AllNamed(f)

(***************************************************************************)
(* A step of the producer is a step of a call, and sends an update when    *)
(* the call ends.                                                          *)
(***************************************************************************)
LEMMA ProducerSteps ==
  ASSUME NEW chunks, NEW calls, chunks = Chunk,
         ProduceReferences(chunks, calls)
  PROVE  /\ CallStep /\ view' = view
         /\ \/ /\ pc' = "idle"
               /\ \E u : /\ u = Update(FALSE)' \/ u = Update(TRUE)'
                         /\ updates' = Append(updates, u)
               /\ invalidations' = Append(invalidations, Pushed.flagged)
               /\ flagged' = {}
            \/ /\ pc' # "idle" /\ updates' = updates
               /\ invalidations' = invalidations /\ flagged' = Pushed.flagged
         /\ index' = Pushed.index
<1>1. CASE ProduceByAppend(chunks, calls)
  <2>1. PICK shown : Leave(shown, calls)
    BY <1>1 DEF ProduceByAppend, AppendFirst, AppendFurther
  <2>2. CallStep /\ view' = view
    BY <1>1 DEF ProduceByAppend, AppendFirst, AppendFurther, CallStep
  <2>3. pc' = "idle" => \E u : /\ u = Update(FALSE)' \/ u = Update(TRUE)'
                               /\ updates' = Append(updates, u)
    BY <2>1 DEF Leave, Return, ReturnOwned, ReturnRef
  <2>4. pc' # "idle" => updates' = updates
    BY <2>1 DEF Leave
  <2>5. QED
    BY <2>2, <2>3, <2>4 DEF ProduceReferences
<1>2. CASE ProduceByEmptyAppend(calls) \/ ProduceByFinalize
  <2>1. CallStep /\ view' = view
    BY <1>2 DEF ProduceByEmptyAppend, ProduceByFinalize, CallStep
  <2>2. pc' = "idle"
    BY <1>2 DEF ProduceByEmptyAppend, ProduceByFinalize, AppendNothing,
       MayAppend, FinalizeNothingNew, Finalize
  <2>3. \E u : /\ u = Update(FALSE)' \/ u = Update(TRUE)'
               /\ updates' = Append(updates, u)
    BY <1>2 DEF ProduceByEmptyAppend, ProduceByFinalize, Return, ReturnOwned,
       ReturnRef
  <2>4. QED
    BY <2>1, <2>2, <2>3 DEF ProduceReferences
<1>3. QED
  BY <1>1, <1>2 DEF ProduceReferences

(***************************************************************************)
(* The steps of the larger system are steps of the producer and the        *)
(* consumer.                                                               *)
(***************************************************************************)
LEMMA ReferenceIsSync ==
  ASSUME [ReferenceNext]_referenceVars
  PROVE  [SyncNext]_syncVars
<1>1. CASE ReferenceNext
  BY <1>1 DEF ReferenceNext, ReferenceNextOn, ProduceReferences,
     ApplyReferences, NewReferences, SyncNext, SyncNextOn
<1>2. CASE UNCHANGED referenceVars
  BY <1>2 DEF referenceVars
<1>3. QED
  BY <1>1, <1>2

(***************************************************************************)
(* A new document has neither an index nor updates.                        *)
(***************************************************************************)
LEMMA FreshReferences ==
  /\ [index |-> EmptyIndex, flagged |-> {}] \in PushState
  /\ \A bs : Indexed(EmptyIndex, bs, 0)
<1>1. [index |-> EmptyIndex, flagged |-> {}] \in PushState
  BY DEF PushState, EmptyIndex
<1>2. \A bs : Indexed(EmptyIndex, bs, 0)
  BY DEF Indexed, EmptyIndex
<1>3. QED
  BY <1>1, <1>2

(***************************************************************************)
(* Every step keeps the index that of the committed blocks.                *)
(***************************************************************************)
LEMMA IndexKept ==
  ASSUME TypeOK, TypeOK', IndexInv, [ReferenceNext]_referenceVars
  PROVE  IndexInv'
<1>1. CASE ProduceReferences(Chunk, {"append", "append_ref"})
  <2>1. CallStep /\ index' = Pushed.index
    BY <1>1, ProducerSteps
  <2>2. /\ Pushed \in PushState
        /\ Pushes(Pushed, cur'.committed, report'.mark, Len(cur'.committed))
        /\ report'.mark <= Len(cur'.committed)
    BY <2>1, PushedIs
  <2>3. Indexed(index, cur.committed, Len(cur.committed))'
    BY <2>1, <2>2 DEF Pushes, Indexed
  <2>4. CASE pc' = "idle"
    <3>1. flagged' = {}
      BY <1>1, <2>4 DEF ProduceReferences
    <3>2. [index |-> index, flagged |-> flagged]' \in PushState
      BY <2>1, <2>2, <3>1 DEF PushState
    <3>3. QED
      BY <2>3, <2>4, <3>1, <3>2 DEF IndexInv, PushState
  <2>5. CASE pc' # "idle"
    <3>1. flagged' = Pushed.flagged
      BY <1>1, <2>5 DEF ProduceReferences
    <3>2. [index |-> index, flagged |-> flagged]' \in PushState
      BY <2>1, <2>2, <3>1 DEF PushState
    <3>3. ~report'.reset
      BY <2>1, <2>5, CallStepIs DEF Drop, Goes
    <3>4. Announced(flagged, cur.committed, report.mark, Len(cur.committed))'
      BY <2>2, <3>1 DEF Pushes, Announced
    <3>5. QED
      BY <2>2, <2>3, <2>5, <3>2, <3>3, <3>4 DEF IndexInv, PushState
  <2>6. QED
    BY <2>4, <2>5
<1>2. CASE ApplyReferences \/ UNCHANGED referenceVars
  <2>1. UNCHANGED <<vars, index, flagged>>
    BY <1>2 DEF ApplyReferences, Apply, referenceVars, syncVars
  <2>2. QED
    BY <2>1 DEF vars, IndexInv, Indexed, Announced, PushState
<1>3. CASE NewReferences
  <2>1. /\ index' = EmptyIndex /\ flagged' = {}
        /\ cur'.committed = <<>> /\ pc' = "idle"
    BY <1>3 DEF NewReferences, NewDocument, Reset, FreshCursor
  <2>2. Len(cur'.committed) = 0
    BY <2>1
  <2>3. QED
    BY <2>1, <2>2, FreshReferences DEF IndexInv, PushState, Indexed
<1>4. QED
  BY <1>1, <1>2, <1>3 DEF ReferenceNext, ReferenceNextOn

(***************************************************************************)
(* The update of a call that ends names what its blocks make stale.        *)
(***************************************************************************)
LEMMA SentIsNamed ==
  ASSUME SyncInv, SyncInv', UpdatesInv', IndexInv, NamedInv, CallStep,
         pc' = "idle", view' = view,
         NEW u, u = Update(FALSE)' \/ u = Update(TRUE)',
         updates' = Append(updates, u),
         invalidations' = Append(invalidations, Pushed.flagged)
  PROVE  NamedInv'
<1>1. PICK f : IsAfter(f, view, updates) /\ AllNamed(f)
  BY DEF NamedInv
<1>2. /\ updates \in Seq(UpdateRecord) /\ TypeOK /\ TypeOK'
      /\ Len(updates) \in Nat /\ invalidations \in Seq(SUBSET Nat)
      /\ Len(invalidations) = Len(updates)
  BY DEF SyncInv, NamedInv
<1>3. PICK N \in Nat : N = Len(updates)
  BY <1>2
<1>4. u \in UpdateRecord
  BY <1>2, UpdateIsTypedNext DEF UpdateTyped
<1>5. PICK g : /\ IsAfter(g, view, Append(updates, u))
               /\ \A n \in 0..Len(updates) : g[n] = f[n]
  BY <1>1, <1>2, <1>4, AfterAppend
<1>6. PICK h : /\ IsAfter(h, view', updates')
               /\ h[Len(updates')].committed = cur'.committed
  BY DEF UpdatesInv, InStep
<1>7. /\ Len(updates') = N + 1 /\ updates'[N + 1] = u
      /\ \A n \in 1..N : updates'[n] = updates[n]
  BY <1>2, <1>3, <1>4, AppendTyped
<1>8. g[N + 1].committed = cur'.committed
  <2>1. IsAfter(g, view', updates')
    BY <1>5
  <2>2. N + 1 \in Nat /\ Len(updates') \in Nat
    BY <1>7
  <2>3. IsAfter(h, view', updates')
    BY <1>6
  <2>4. \A n \in Nat : n <= Len(updates') => g[n] = h[n]
    BY ONLY <2>1, <2>2, <2>3, AfterUnique
  <2>5. g[N + 1] = h[N + 1]
    BY <1>7, <2>2, <2>4
  <2>6. QED
    BY <1>6, <1>7, <2>5
<1>9. /\ Pushed \in PushState
      /\ Pushes(Pushed, cur'.committed, report'.mark, Len(cur'.committed))
      /\ report'.mark \in Nat /\ report'.mark <= Len(cur'.committed)
  BY <1>2, PushedIs
<1>10. PICK bs \in Seq(Block) : bs = cur'.committed
  <2>1. cur' \in Cursor
    BY <1>2 DEF TypeOK
  <2>2. QED
    BY <2>1, CursorFields
<1>11. PICK m \in Nat : m = report'.mark
  BY <1>9
<1>12. u.committed = SubSeq(bs, m + 1, Len(bs))
  <2>1. CASE u = Update(FALSE)'
    BY <1>10, <1>11, <2>1 DEF Update
  <2>2. CASE u = Update(TRUE)'
    BY <1>10, <1>11, <2>2 DEF Update
  <2>3. QED
    BY <2>1, <2>2
<1>13. Len(u.committed) = Len(bs) - m /\ m <= Len(bs)
  <2>1. m <= Len(bs)
    BY <1>9, <1>10, <1>11
  <2>2. QED
    BY <1>12, <2>1
<1>14. Names(g[N + 1], u, Pushed.flagged)
  <2>1. Announced(Pushed.flagged, bs, m, Len(bs))
    BY <1>9, <1>10, <1>11 DEF Pushes
  <2>2. g[N + 1].committed = bs
    BY <1>8, <1>10
  <2>3. Len(bs) - Len(u.committed) = m /\ Len(u.committed) <= Len(bs)
    BY <1>13
  <2>4. QED
    BY <2>1, <2>2, <2>3 DEF Names
<1>15. Pushed.flagged \in SUBSET Nat
  BY <1>9 DEF PushState
<1>16. /\ invalidations' \in Seq(SUBSET Nat) /\ Len(invalidations') = N + 1
       /\ invalidations'[N + 1] = Pushed.flagged
       /\ \A n \in 1..N : invalidations'[n] = invalidations[n]
  BY <1>2, <1>3, <1>15, AppendTyped
<1>17. ASSUME NEW n \in 1..N + 1
       PROVE  Names(g[n], updates'[n], invalidations'[n])
  <2>1. CASE n = N + 1
    BY <1>7, <1>14, <1>16, <2>1
  <2>2. CASE n # N + 1
    <3>1. n \in 1..N /\ n \in 0..Len(updates) /\ n \in 1..Len(updates)
      BY <1>3, <2>2
    <3>2. Names(f[n], updates[n], invalidations[n])
      BY <1>1, <3>1 DEF AllNamed
    <3>3. g[n] = f[n] /\ updates'[n] = updates[n]
          /\ invalidations'[n] = invalidations[n]
      BY <1>5, <1>7, <1>16, <3>1
    <3>4. QED
      BY <3>2, <3>3
  <2>3. QED
    BY <2>1, <2>2
<1>18. AllNamed(g)'
  BY <1>7, <1>17 DEF AllNamed, Names, Announced
<1>19. IsAfter(g, view, updates)'
  BY <1>5
<1>20. QED
  BY <1>7, <1>16, <1>18, <1>19 DEF NamedInv

(***************************************************************************)
(* The view is typed after each of the updates under way.                  *)
(***************************************************************************)
LEMMA AfterTyped ==
  ASSUME NEW f, NEW v \in ViewRecord, NEW us \in Seq(UpdateRecord),
         IsAfter(f, v, us), NEW n \in Nat, n <= Len(us)
  PROVE  f[n].committed \in Seq(Block)
<1> DEFINE S == {k \in Nat : k <= Len(us) => f[k].committed \in Seq(Block)}
<1>1. Len(us) \in Nat
  OBVIOUS
<1>2. 0 \in S
  <2>1. f[0] = v
    BY <1>1, AfterStep
  <2>2. QED
    BY <2>1 DEF ViewRecord
<1>3. ASSUME NEW k \in Nat, k \in S
      PROVE  k + 1 \in S
  <2>1. SUFFICES ASSUME k + 1 <= Len(us)
                 PROVE  f[k + 1].committed \in Seq(Block)
    OBVIOUS
  <2>2. f[k + 1] = ApplyTo(f[k], us[k + 1])
    BY <1>1, <2>1, AfterStep
  <2>3. us[k + 1] \in UpdateRecord
    BY <2>1
  <2>4. us[k + 1].committed \in Seq(Block)
    BY <2>3 DEF UpdateRecord
  <2>5. f[k].committed \in Seq(Block)
    BY <1>1, <1>3, <2>1
  <2>6. f[k].committed \o us[k + 1].committed \in Seq(Block)
    BY <2>4, <2>5
  <2>7. QED
    BY <2>2, <2>4, <2>6 DEF ApplyTo
<1> HIDE DEF S
<1>4. \A k \in Nat : k \in S
  BY <1>2, <1>3, NatInductive
<1>5. QED
  BY <1>4 DEF S

(***************************************************************************)
(* Every step keeps the updates naming what they must.                     *)
(***************************************************************************)
LEMMA NamedKept ==
  ASSUME SyncInv, SyncInv', UpdatesInv', IndexInv, NamedInv,
         [ReferenceNext]_referenceVars
  PROVE  NamedInv'
<1>1. PICK f : IsAfter(f, view, updates) /\ AllNamed(f)
  BY DEF NamedInv
<1>2. /\ updates \in Seq(UpdateRecord) /\ invalidations \in Seq(SUBSET Nat)
      /\ Len(invalidations) = Len(updates) /\ Len(updates) \in Nat
  BY DEF SyncInv, NamedInv
<1>3. CASE /\ updates' = updates /\ view' = view
           /\ invalidations' = invalidations
  <2>1. AllNamed(f)'
    BY <1>1, <1>3 DEF AllNamed, Names, Announced
  <2>2. IsAfter(f, view, updates)'
    BY <1>1, <1>3
  <2>3. QED
    BY <1>2, <1>3, <2>1, <2>2 DEF NamedInv
<1>4. CASE ProduceReferences(Chunk, {"append", "append_ref"})
  <2>1. /\ CallStep /\ view' = view
        /\ \/ /\ pc' = "idle"
              /\ \E u : /\ u = Update(FALSE)' \/ u = Update(TRUE)'
                        /\ updates' = Append(updates, u)
              /\ invalidations' = Append(invalidations, Pushed.flagged)
           \/ updates' = updates /\ invalidations' = invalidations
    BY <1>4, ProducerSteps
  <2>2. CASE updates' = updates /\ invalidations' = invalidations
    BY <1>3, <2>1, <2>2
  <2>3. CASE /\ pc' = "idle"
             /\ \E u : /\ u = Update(FALSE)' \/ u = Update(TRUE)'
                       /\ updates' = Append(updates, u)
             /\ invalidations' = Append(invalidations, Pushed.flagged)
    BY <2>1, <2>3, SentIsNamed
  <2>4. QED
    BY <2>1, <2>2, <2>3
<1>5. CASE ApplyReferences
  <2>1. /\ updates # <<>> /\ view' = ApplyTo(view, Head(updates))
        /\ updates' = Tail(updates) /\ invalidations' = Tail(invalidations)
    BY <1>5 DEF ApplyReferences, Apply
  <2>2. PICK g : /\ IsAfter(g, view', updates')
                 /\ \A n \in 0..Len(updates) - 1 : g[n] = f[n + 1]
    BY <1>1, <1>2, <2>1, AfterApply
  <2>3. PICK N \in Nat : N + 1 = Len(updates) /\ Len(updates) - 1 = N
    <3>1. Len(updates) >= 1
      BY <1>2, <2>1, FirstOf
    <3>2. Len(updates) - 1 \in Nat /\ (Len(updates) - 1) + 1 = Len(updates)
      BY <1>2, <3>1
    <3>3. QED
      BY <3>2
  <2>4. /\ Len(updates') = N /\ \A n \in 1..N : updates'[n] = updates[n + 1]
    BY <1>2, <2>1, <2>3, TailTyped
  <2>5. /\ invalidations' \in Seq(SUBSET Nat) /\ Len(invalidations') = N
        /\ \A n \in 1..N : invalidations'[n] = invalidations[n + 1]
    <3>1. invalidations # <<>>
      BY <1>2, <2>3
    <3>2. QED
      BY <1>2, <2>1, <2>3, <3>1
  <2>6. ASSUME NEW n \in 1..N
        PROVE  Names(g[n], updates'[n], invalidations'[n])
    <3>1. n + 1 \in 1..Len(updates) /\ n \in 0..Len(updates) - 1
      BY <2>3
    <3>2. Names(f[n + 1], updates[n + 1], invalidations[n + 1])
      BY <1>1, <3>1 DEF AllNamed
    <3>3. g[n] = f[n + 1] /\ updates'[n] = updates[n + 1]
          /\ invalidations'[n] = invalidations[n + 1]
      BY <2>2, <2>4, <2>5, <3>1
    <3>4. QED
      BY <3>2, <3>3
  <2>7. AllNamed(g)'
    BY <2>4, <2>6 DEF AllNamed, Names, Announced
  <2>8. IsAfter(g, view, updates)'
    BY <2>2
  <2>9. QED
    BY <2>4, <2>5, <2>7, <2>8 DEF NamedInv
<1>6. CASE NewReferences
  <2>1. updates' = <<>> /\ invalidations' = <<>> /\ view' = EmptyView
    BY <1>6 DEF NewReferences, NewDocument
  <2>2. PICK g : IsAfter(g, view', updates')
    BY <2>1, AfterNone
  <2>3. Len(updates') = 0 /\ Len(invalidations') = 0
        /\ invalidations' \in Seq(SUBSET Nat)
    BY <2>1
  <2>4. AllNamed(g)'
    BY <2>3 DEF AllNamed
  <2>5. QED
    BY <2>2, <2>3, <2>4 DEF NamedInv
<1>7. CASE UNCHANGED referenceVars
  BY <1>3, <1>7 DEF referenceVars, syncVars
<1>8. QED
  BY <1>4, <1>5, <1>6, <1>7 DEF ReferenceNext, ReferenceNextOn

(***************************************************************************)
(* It all holds at the start.                                              *)
(***************************************************************************)
LEMMA InitReferences ==
  ASSUME ReferenceInit
  PROVE  IndexInv /\ NamedInv
<1>1. /\ index = EmptyIndex /\ flagged = {} /\ invalidations = <<>>
      /\ updates = <<>> /\ cur.committed = <<>> /\ pc = "idle"
  BY DEF ReferenceInit, SyncInit, Init, FreshCursor
<1>2. Len(cur.committed) = 0 /\ Len(updates) = 0 /\ Len(invalidations) = 0
      /\ invalidations \in Seq(SUBSET Nat)
  BY <1>1
<1>3. IndexInv
  BY <1>1, <1>2, FreshReferences DEF IndexInv, PushState, Indexed
<1>4. PICK f : IsAfter(f, view, updates)
  BY <1>1, AfterNone
<1>5. AllNamed(f)
  BY <1>2 DEF AllNamed
<1>6. QED
  BY <1>2, <1>3, <1>4, <1>5 DEF NamedInv

(***************************************************************************)
(* An update names only blocks that its consumer has then: for every       *)
(* caller, every classification of lines, every label and definition, and  *)
(* however many updates are under way.                                     *)
(***************************************************************************)
THEOREM FlaggedStaysKnown == ReferenceSpec => []FlaggedIsKnown
<1> DEFINE Inv == SyncInv /\ SingleUnknown /\ UpdatesInv /\ IndexInv /\ NamedInv
<1>1. ReferenceInit => Inv
  BY InitSyncTyped, InitUpdates, InitReferences DEF ReferenceInit
<1>2. Inv /\ [ReferenceNext]_referenceVars => Inv'
  <2> SUFFICES ASSUME Inv, [ReferenceNext]_referenceVars
               PROVE  Inv'
    OBVIOUS
  <2>1. [SyncNext]_syncVars
    BY ReferenceIsSync
  <2>2. SyncInv' /\ TypeOK /\ TypeOK'
    BY <2>1, SyncTyped DEF SyncInv
  <2>3. SingleUnknown'
    BY <2>1, <2>2, SingleUnknownKept
  <2>4. UpdatesInv'
    BY <2>1, <2>2, <2>3, UpdatesKept
  <2>5. IndexInv' /\ NamedInv'
    BY <2>2, <2>4, IndexKept, NamedKept
  <2>6. QED
    BY <2>2, <2>3, <2>4, <2>5
<1>3. Inv => FlaggedIsKnown
  <2> SUFFICES ASSUME SyncInv, NamedInv
               PROVE  FlaggedIsKnown
    OBVIOUS
  <2>1. PICK f : IsAfter(f, view, updates) /\ AllNamed(f)
    BY DEF NamedInv
  <2>2. Len(updates) \in Nat /\ updates \in Seq(UpdateRecord)
    BY DEF SyncInv
  <2> DEFINE g == CHOOSE g : IsAfter(g, view, updates)
  <2>3. IsAfter(g, view, updates)
    BY <2>1
  <2>4. (\A n \in DOMAIN updates :
           invalidations[n] \subseteq
             {g[n].committed[k].id : k \in DOMAIN g[n].committed})
        => FlaggedIsKnown
    BY DEF FlaggedIsKnown, IsAfter
  <2> HIDE DEF g
  <2>5. \A n \in Nat : n <= Len(updates) => f[n] = g[n]
    BY <2>1, <2>2, <2>3, AfterUnique
  <2>6. ASSUME NEW n \in DOMAIN updates
        PROVE  invalidations[n] \subseteq
                 {g[n].committed[k].id : k \in DOMAIN g[n].committed}
    <3>1. n \in 1..Len(updates) /\ n \in Nat /\ n <= Len(updates)
      BY <2>2
    <3>2. PICK bs : bs = f[n].committed /\ bs = g[n].committed
      BY <2>5, <3>1
    <3>3. invalidations[n] \subseteq IdsTo(bs, Len(bs))
      BY <2>1, <3>1, <3>2 DEF AllNamed, Names, Announced
    <3>4. bs \in Seq(Block)
      BY <2>2, <2>1, <3>1, <3>2, AfterTyped DEF SyncInv
    <3>5. DOMAIN bs = 1..Len(bs)
      BY <3>4
    <3>6. QED
      BY <3>2, <3>3, <3>5 DEF IdsTo
  <2>7. QED
    BY <2>4, <2>6
<1>4. QED
  BY <1>1, <1>2, <1>3, PTL DEF ReferenceSpec

-----------------------------------------------------------------------------
(***************************************************************************)
(* A committed block of fenced code begins with a line that starts a       *)
(* fence.                                                                  *)
(***************************************************************************)
FencedRight(b) == b.kind = "CodeFence" => b.raw # <<>> /\ Fenced(b.raw)

Fences(bs) == \A k \in 1..Len(bs) : FencedRight(bs[k])

Fine(ls, c) == FenceFirst(ls, c) /\ Fences(c.committed)

(***************************************************************************)
(* One block more.                                                         *)
(***************************************************************************)
LEMMA FencesAppend ==
  ASSUME NEW bs \in Seq(Block), NEW b \in Block, Fences(bs), FencedRight(b)
  PROVE  Fences(Append(bs, b))
<1> DEFINE done == Append(bs, b)
<1>1. /\ Len(bs) \in Nat /\ Len(done) = Len(bs) + 1
      /\ done[Len(bs) + 1] = b
      /\ \A k \in 1..Len(bs) : done[k] = bs[k]
  BY AppendTyped
<1> HIDE DEF done
<1>2. ASSUME NEW k \in 1..Len(done)
      PROVE  FencedRight(done[k])
  <2>1. CASE k = Len(bs) + 1
    BY <1>1, <2>1
  <2>2. CASE k # Len(bs) + 1
    <3>1. k \in 1..Len(bs)
      BY <1>1, <2>2
    <3>2. QED
      BY <1>1, <3>1 DEF Fences
  <2>3. QED
    BY <2>1, <2>2
<1>3. Fences(done)
  BY <1>2 DEF Fences
<1>4. QED
  BY <1>3 DEF done

(***************************************************************************)
(* commit_block.                                                           *)
(***************************************************************************)
LEMMA FineCommit ==
  ASSUME NEW ls \in Seq(Text), NEW c \in Cursor, NEW i \in Nat, i < Len(ls),
         Fine(ls, c)
  PROVE  Commit(ls, c, i) \in Cursor /\ Fine(ls, Commit(ls, c, i))
<1>1. c.start \in Nat /\ c.committed \in Seq(Block)
  BY CursorFields
<1>2. CASE i < c.start
  BY <1>2, CommitLater
<1>3. CASE c.start <= i
  <2> DEFINE raw == LinesOf(ls, c.start, i)
             b == BlockAt(c, raw)
             e == Commit(ls, c, i)
  <2>1. /\ e \in Cursor /\ b \in Block
        /\ e.committed = IF AllBlank(raw) THEN c.committed
                         ELSE Append(c.committed, b)
        /\ Len(raw) = i + 1 - c.start
        /\ \A j \in 1..Len(raw) : raw[j] = ls[c.start + j]
    BY <1>1, <1>3, CommitShape
  <2>2. e.mode = "Unknown"
    BY <1>3, CommitMode
  <2>3. b.kind = KindForMode(c.mode) /\ b.raw = raw
    BY DEF BlockAt
  <2> HIDE DEF e, b, raw
  <2>4. FencedRight(b)
    <3>1. 1 \in 1..Len(raw)
      BY <1>1, <1>3, <2>1
    <3>2. raw[1] = ls[c.start + 1] /\ raw # <<>>
      BY <2>1, <3>1
    <3>3. b.kind = "CodeFence" => c.mode = "CodeFence"
      BY <2>3 DEF KindForMode
    <3>4. QED
      BY <2>3, <3>2, <3>3 DEF FencedRight, Fenced, Fine, FenceFirst
  <2>5. Fences(e.committed)
    BY <1>1, <2>1, <2>4, FencesAppend DEF Fine
  <2>6. QED
    BY <2>1, <2>2, <2>5 DEF Fine, FenceFirst, e
<1>4. QED
  BY <1>1, <1>2, <1>3

(***************************************************************************)
(* maybe_commit_single_line.                                               *)
(***************************************************************************)
LEMMA FineSingleLine ==
  ASSUME NEW ls \in Seq(Text), NEW c \in Cursor, NEW i \in Nat, i < Len(ls),
         Fine(ls, c)
  PROVE  /\ CommitSingleLine(ls, c, i) \in Cursor
         /\ Fine(ls, CommitSingleLine(ls, c, i))
BY FineCommit DEF CommitSingleLine

(***************************************************************************)
(* A cursor with the blocks of another and no fence.                       *)
(***************************************************************************)
LEMMA FineOther ==
  ASSUME NEW ls, NEW c, NEW e, Fences(c.committed),
         e.committed = c.committed, e.mode # "CodeFence"
  PROVE  Fine(ls, e)
BY DEF Fine, FenceFirst

(***************************************************************************)
(* update_mode_with_line.                                                  *)
(***************************************************************************)
LEMMA FineUpdate ==
  ASSUME NEW ls \in Seq(Text), NEW c \in Cursor, NEW i \in Nat, i < Len(ls),
         Fine(ls, c),
         c.mode = "Unknown" => \/ c.start = i
                               \/ StartMode(ls[i + 1]) # "CodeFence"
  PROVE  Fine(ls, UpdateMode(ls, c, i))
<1>1. /\ c.start \in Nat /\ c.mode \in Mode /\ ls[i + 1] \in Text
      /\ Fences(c.committed)
  BY CursorFields DEF Fine
<1>2. CASE c.mode = "Unknown"
  <2> DEFINE e == StartAt(c, ls[i + 1])
  <2>1. /\ e \in Cursor /\ e.mode = StartMode(ls[i + 1])
        /\ e.start = c.start /\ e.committed = c.committed
    BY <1>1, StartAtFields
  <2>2. UpdateMode(ls, c, i) = CommitSingleLine(ls, e, i)
    BY <1>2 DEF UpdateMode
  <2> HIDE DEF e
  <2>3. Fine(ls, e)
    BY <1>1, <1>2, <2>1 DEF Fine, FenceFirst
  <2>4. QED
    BY <2>1, <2>2, <2>3, FineSingleLine
<1>3. CASE c.mode = "CodeFence"
  <2>1. UpdateMode(ls, c, i) \in {c, Commit(ls, c, i)}
    BY <1>3 DEF UpdateMode, CloseFence
  <2>2. QED
    BY <2>1, FineCommit
<1>4. CASE c.mode \in {"CustomBoundary", "MathBlock", "HtmlBlock"}
  <2> DEFINE e == [c EXCEPT !.inner = Scan[<<c.inner, ls[i + 1]>>]]
  <2>1. Scan[<<c.inner, ls[i + 1]>>] \in Inner
    BY <1>1, CursorFields, PayloadType
  <2>2. e \in Cursor /\ e.committed = c.committed /\ e.mode = c.mode
    BY <2>1 DEF Cursor
  <2>3. UpdateMode(ls, c, i) \in {e, Commit(ls, e, i)}
    BY <1>4 DEF UpdateMode, CloseOnLine
  <2> HIDE DEF e
  <2>4. Fine(ls, e)
    BY <1>1, <1>4, <2>2, FineOther
  <2>5. QED
    BY <2>2, <2>3, <2>4, FineCommit
<1>5. CASE c.mode = "Paragraph"
  <2> DEFINE h == [c EXCEPT !.mode = "Heading"]
             r == [c EXCEPT !.mode = "Table"]
  <2>1. /\ h \in Cursor /\ h.committed = c.committed /\ h.mode = "Heading"
        /\ r \in Cursor /\ r.committed = c.committed /\ r.mode = "Table"
    BY DEF Cursor, Mode
  <2>2. UpdateMode(ls, c, i) \in {c, r, Commit(ls, h, i)}
    BY <1>5 DEF UpdateMode, UpgradeParagraph
  <2> HIDE DEF h, r
  <2>3. Fine(ls, h) /\ Fine(ls, r)
    BY <1>1, <2>1, FineOther
  <2>4. QED
    BY <2>1, <2>2, <2>3, FineCommit
<1>6. CASE c.mode \notin {"Unknown", "CodeFence", "CustomBoundary",
                          "MathBlock", "HtmlBlock", "Paragraph"}
  <2>1. UpdateMode(ls, c, i) = c
    BY <1>1, <1>6 DEF UpdateMode
  <2>2. QED
    BY <2>1
<1>7. QED
  BY <1>2, <1>3, <1>4, <1>5, <1>6

(***************************************************************************)
(* A block that opens at line i.                                           *)
(***************************************************************************)
LEMMA FineOpen ==
  ASSUME NEW ls \in Seq(Text), NEW c \in Cursor, NEW i \in Nat, i < Len(ls),
         c.start = i, Fences(c.committed)
  PROVE  Fine(ls, OpenBlock(ls, c, i))
<1> DEFINE t == ls[i + 1]
           d == StartAt(c, t)
           e == CommitSingleLine(ls, d, i)
<1>1. /\ d \in Cursor /\ d.mode = StartMode(t)
      /\ d.start = c.start /\ d.committed = c.committed
  BY StartAtFields
<1>2. OpenBlock(ls, c, i) = UpdateMode(ls, e, i)
  BY DEF OpenBlock
<1> HIDE DEF d
<1>3. Fine(ls, d)
  BY <1>1 DEF Fine, FenceFirst
<1>4. e \in Cursor /\ Fine(ls, e)
  BY <1>1, <1>3, FineSingleLine
<1>5. e.mode = "Unknown" => e.start = i \/ StartMode(t) # "CodeFence"
  <2>1. CASE d.mode \in {"Heading", "ThematicBreak"}
    BY <1>1, <2>1
  <2>2. CASE d.mode \notin {"Heading", "ThematicBreak"}
    BY <1>1, <2>2 DEF CommitSingleLine
  <2>3. QED
    BY <2>1, <2>2
<1> HIDE DEF e
<1>6. QED
  BY <1>2, <1>4, <1>5, FineUpdate

(***************************************************************************)
(* process_line.                                                           *)
(***************************************************************************)
LEMMA FineProcess ==
  ASSUME NEW ls \in Seq(Text), NEW c \in Cursor, NEW i \in Nat, i < Len(ls),
         c.start <= i, c.start < i => FirstMode(ls, c), Fine(ls, c)
  PROVE  Fine(ls, Process(ls, c, i))
<1>0. c.start \in Nat
  BY CursorFields
<1>1. CASE i = c.start
  BY <1>1, FineOpen DEF Process, Fine
<1>2. CASE i # c.start /\ Boundary(ls, c, i)
  <2> DEFINE e == Commit(ls, c, i - 1)
  <2>1. i - 1 \in Nat /\ i - 1 < Len(ls) /\ c.start <= i - 1
        /\ (i - 1) + 1 = i
    BY <1>0, <1>2
  <2>2. e \in Cursor /\ e.start = i /\ Fine(ls, e)
    BY <2>1, FineCommit, CommitShape
  <2>3. Process(ls, c, i) = OpenBlock(ls, e, i)
    BY <1>2 DEF Process
  <2> HIDE DEF e
  <2>4. QED
    BY <2>2, <2>3, FineOpen DEF Fine
<1>3. CASE i # c.start /\ ~Boundary(ls, c, i)
  <2>1. c.mode # "Unknown"
    BY <1>0, <1>3, FirstModeKnown
  <2>2. QED
    BY <1>3, <2>1, FineUpdate DEF Process
<1>4. QED
  BY <1>1, <1>2, <1>3

(***************************************************************************)
(* process_incomplete_tail_boundary.                                       *)
(***************************************************************************)
LEMMA FineTail ==
  ASSUME NEW ls \in Seq(Text), ls # <<>>, NEW c \in Cursor, Fine(ls, c)
  PROVE  Fences(TailBoundary(ls, c).committed)
<1>1. CASE Len(ls) - 1 >= 1 /\ Boundary(ls, c, Len(ls) - 1)
  <2>1. PICK i \in Nat : i = Len(ls) - 1 - 1
    BY <1>1
  <2>2. i < Len(ls) /\ ls[Len(ls) - 1 + 1] \in Text
    BY <1>1, <2>1
  <2> DEFINE e == Commit(ls, c, i)
  <2>3. e \in Cursor /\ Fine(ls, e)
    BY <2>2, FineCommit
  <2>4. TailBoundary(ls, c) = StartAt(e, ls[Len(ls) - 1 + 1])
    BY <1>1, <2>1 DEF TailBoundary
  <2> HIDE DEF e
  <2>5. TailBoundary(ls, c).committed = e.committed
    BY <2>2, <2>3, <2>4, StartAtFields
  <2>6. QED
    BY <2>3, <2>5 DEF Fine
<1>2. CASE ~(Len(ls) - 1 >= 1 /\ Boundary(ls, c, Len(ls) - 1))
  <2>1. TailBoundary(ls, c) = c
    BY <1>2 DEF TailBoundary
  <2>2. QED
    BY <2>1 DEF Fine
<1>3. QED
  BY <1>1, <1>2

(***************************************************************************)
(* finalize.                                                               *)
(***************************************************************************)
LEMMA FineRest ==
  ASSUME NEW ls \in Seq(Text), NEW c \in Cursor, Fences(c.committed),
         SingleMode \/ FenceFirst(ls, c), NEW b \in Block,
         PendingOf(ls, c) = <<b>>
  PROVE  FencedRight(b)
<1>1. CASE SingleMode
  <2>1. PendingOf(ls, c)[1].kind = "Unknown"
    BY <1>1 DEF PendingOf
  <2>2. QED
    BY <2>1 DEF FencedRight
<1>2. CASE ~SingleMode
  <2> DEFINE e == [c EXCEPT !.mode = PendingMode(ls, c)]
             raw == LinesOf(ls, c.start, Len(ls) - 1)
  <2>1. c.start \in Nat /\ Len(ls) \in Nat
    BY CursorFields
  <2>2. c.start < Len(ls) /\ b = BlockAt(e, raw)
    <3>1. PICK x : x = BlockAt(e, raw)
      OBVIOUS
    <3>2. PendingOf(ls, c) = <<x>> /\ ~(c.start >= Len(ls))
      BY <1>2, <3>1 DEF PendingOf
    <3> HIDE DEF e, raw
    <3>3. x = b
      BY <3>2
    <3>4. c.start < Len(ls)
      BY <2>1, <3>2
    <3>5. QED
      BY <3>1, <3>3, <3>4
  <2>3. raw # <<>> /\ raw[1] = ls[c.start + 1]
    <3>1. /\ raw \in Seq(Text) /\ Len(raw) = Len(ls) - c.start
          /\ \A j \in 1..Len(ls) - c.start : raw[j] = ls[c.start + j]
      BY <2>1, <2>2, RestOfLines
    <3> HIDE DEF raw
    <3>2. 1 \in 1..Len(ls) - c.start
      BY <2>1, <2>2
    <3>3. Len(raw) # 0
      BY <2>1, <2>2, <3>1
    <3>4. QED
      BY <3>1, <3>2, <3>3
  <2>4. e.mode = PendingMode(ls, c)
    BY DEF Cursor
  <2>5. b.raw = raw /\ b.kind = KindForMode(PendingMode(ls, c))
    BY <2>2, <2>4 DEF BlockAt
  <2>6. PendingMode(ls, c) = "CodeFence"
          => StartMode(ls[c.start + 1]) = "CodeFence"
    BY <1>2 DEF PendingMode, FenceFirst
  <2> HIDE DEF raw
  <2>7. QED
    BY <2>3, <2>5, <2>6 DEF FencedRight, Fenced, KindForMode
<1>3. QED
  BY <1>1, <1>2

(***************************************************************************)
(* The committed blocks of fenced code begin with a fence.                 *)
(***************************************************************************)
KindInv == Fences(cur.committed)

(***************************************************************************)
(* Every step to a document that is split into blocks keeps that.          *)
(***************************************************************************)
LEMMA SplitKinds ==
  ASSUME ResetAfterFinalize, IInv, ModeInv, FenceInv, KindInv, [Next]_vars,
         Split'
  PROVE  KindInv'
<1>1. CASE Starts
  BY <1>1 DEF Starts, FreshCursor, KindInv, Fences
<1>2. ASSUME Split, Stays \/ Extends \/ Reads \/ Returns \/ KeepsBlanks
                    \/ CommitsNone
      PROVE  KindInv'
  <2>0. /\ lines \in Seq(Text) /\ lines # <<>> /\ Len(lines) \in Nat
        /\ processed \in Nat /\ cur \in Cursor
        /\ cur.start <= processed /\ processed < Len(lines)
    BY <1>2, SplitFacts
  <2>1. /\ cur.start < processed => FirstMode(lines, cur)
        /\ Fine(lines, cur)
    BY <1>2 DEF ModeInv, FenceInv, KindInv, Fine, FenceFirst
  <2>2. CASE Stays \/ Extends
    <3>1. cur' = cur
      BY <2>2 DEF Stays, Extends
    <3>2. QED
      BY <3>1 DEF KindInv
  <2>3. CASE Reads
    <3>1. cur' = Process(lines, cur, processed)
      BY <2>3 DEF Reads
    <3>2. Fine(lines, Process(lines, cur, processed))
      BY <2>0, <2>1, FineProcess
    <3>3. QED
      BY <3>1, <3>2 DEF Fine, KindInv
  <2>4. CASE Returns
    <3> DEFINE c == TailBoundary(lines, cur)
    <3>1. Compact(lines, c, processed)
      BY <2>4 DEF Returns
    <3>2. c \in Cursor
      BY <2>0, KeepsTail DEF KeepsCommitted
    <3>3. Fences(c.committed)
      BY <2>0, <2>1, FineTail
    <3> HIDE DEF c
    <3>4. cur'.committed = c.committed
      BY <2>0, <3>1, <3>2, CompactType
    <3>5. QED
      BY <3>3, <3>4 DEF KindInv
  <2> DEFINE ls == FinalLines(lines)
             c == SettleMode(ls, cur)
  <2>5. ls \in Seq(Text) /\ ls # <<>>
    BY <2>0, FinalLinesFacts
  <2>6. c \in Cursor /\ c.committed = cur.committed
    <3> HIDE DEF ls
    <3>1. c \in Cursor
      BY <2>0, <2>5, KeepsSettle DEF KeepsCommitted
    <3>2. c.committed = cur.committed
      BY <2>0 DEF SettleMode, StartAt, Cursor
    <3>3. QED
      BY <3>1, <3>2
  <2>7. CASE KeepsBlanks
    <3>1. cur' = c
      BY <2>7 DEF KeepsBlanks
    <3> HIDE DEF c
    <3>2. QED
      BY <2>1, <2>6, <3>1 DEF Fine, KindInv
  <2>8. CASE CommitsNone
    <3>1. Compact(ls, c, processed)
      BY <2>8 DEF CommitsNone
    <3> HIDE DEF c, ls
    <3>2. cur'.committed = c.committed
      BY <2>0, <2>5, <2>6, <3>1, CompactType
    <3>3. QED
      BY <2>1, <2>6, <3>2 DEF Fine, KindInv
  <2>9. QED
    BY <1>2, <2>2, <2>3, <2>4, <2>7, <2>8
<1>3. QED
  BY <1>1, <1>2, SplitSteps

(***************************************************************************)
(* So does every step to a finalized document.                             *)
(***************************************************************************)
LEMMA ClosedKinds ==
  ASSUME ResetAfterFinalize, IInv, FenceInv, KindInv, [Next]_vars, closed'
  PROVE  KindInv'
<1>0. closed \in BOOLEAN
  BY DEF IInv, TypeOK
<1>1. CASE closed
  <2>1. pc = "idle" /\ NothingNew
    BY <1>1 DEF IInv, ClosedInv, NothingNew
  <2>2. ~Reset
    BY DEF Reset
  <2>3. cur' = cur
    BY <1>1, <2>1, <2>2 DEF Next, NextOn, vars, AppendChunk, AppendNothing,
       MayAppend, ProcessLine, FinishAppend, IndexFault, FinalizeNothingNew,
       Finalize
  <2>4. QED
    BY <2>3 DEF KindInv
<1>2. CASE ~closed
  <2>1. Finalize
    BY <1>0, <1>2 DEF Next, NextOn, vars, AppendChunk, AppendNothing,
       ProcessLine, FinishAppend, IndexFault, FinalizeNothingNew, Reset
  <2> DEFINE ls == FinalLines(lines)
             c == SettleMode(ls, cur)
             e == CommitRest(ls, c)
  <2>2. PendingOf(ls, c) # <<>> /\ Compact(ls, e, processed)
    BY <2>1, FinalizeCases
  <2>3. /\ ls \in Seq(Text) /\ ls # <<>> /\ cur \in Cursor
        /\ processed \in Nat /\ lines \in Seq(Text) /\ lines # <<>>
    BY <2>1, FinalizeOpen
  <2>4. SingleMode \/ FenceFirst(ls, c)
    <3>1. SUFFICES ASSUME ~SingleMode
                   PROVE  FenceFirst(ls, c)
      OBVIOUS
    <3>2. Split
      BY <1>2, <3>1 DEF Split
    <3>3. FenceFirst(lines, cur) /\ cur.start \in Nat
          /\ cur.start < Len(lines) /\ Len(lines) \in Nat
      <4>1. /\ cur.start <= processed /\ processed < Len(lines)
            /\ cur.start \in Nat /\ Len(lines) \in Nat /\ processed \in Nat
        BY <3>2, SplitFacts
      <4>2. QED
        BY <3>2, <4>1 DEF FenceInv, FenceFirst
    <3>4. cur.start + 1 \in 1..Len(lines)
      BY <3>3
    <3>5. ls[cur.start + 1] = lines[cur.start + 1]
      BY <2>3, <3>4, FinalLinesFacts
    <3>6. lines[cur.start + 1] \in Text
      BY <2>3, <3>4
    <3>7. c = cur \/ c = StartAt(cur, ls[cur.start + 1])
      BY DEF SettleMode
    <3> HIDE DEF c, ls
    <3>8. CASE c = cur
      BY <3>3, <3>5, <3>8 DEF FenceFirst
    <3>9. CASE c = StartAt(cur, ls[cur.start + 1])
      <4>1. /\ c.mode = StartMode(ls[cur.start + 1])
            /\ c.start = cur.start
        BY <2>3, <3>5, <3>6, <3>9, StartAtFields
      <4>2. QED
        BY <4>1 DEF FenceFirst
    <3>10. QED
      BY <3>7, <3>8, <3>9
  <2> HIDE DEF ls
  <2>5. c \in Cursor /\ c.committed = cur.committed
    <3>1. c \in Cursor
      BY <2>3, KeepsSettle DEF KeepsCommitted
    <3>2. c.committed = cur.committed
      BY DEF SettleMode, StartAt, Cursor
    <3>3. QED
      BY <3>1, <3>2
  <2> HIDE DEF c
  <2>6. PICK b \in Block : PendingOf(ls, c) = <<b>>
    BY <2>2, <2>3, <2>5, PendingOne
  <2> DEFINE done == Append(c.committed, b)
  <2>7. e.committed = done /\ e \in Cursor
    <3>1. e \in Cursor
      BY <2>3, <2>5, KeepsRest DEF KeepsCommitted
    <3>2. c.committed \o <<b>> = Append(c.committed, b)
      BY <2>5, CursorFields
    <3>3. e.committed = c.committed \o <<b>>
      BY <2>2, <2>5, <2>6 DEF CommitRest, Cursor
    <3>4. QED
      BY <3>1, <3>2, <3>3
  <2>8. cur'.committed = done
    <3> HIDE DEF e
    <3>1. cur'.committed = e.committed
      BY <2>2, <2>3, <2>7, CompactType
    <3>2. QED
      BY <2>7, <3>1
  <2>9. Fences(c.committed) /\ c.committed \in Seq(Block)
    BY <2>5, CursorFields DEF KindInv
  <2>10. FencedRight(b)
    BY <2>3, <2>4, <2>5, <2>6, <2>9, FineRest
  <2>11. Fences(done)
    BY <2>9, <2>10, FencesAppend
  <2>12. QED
    BY <2>8, <2>11 DEF KindInv
<1>3. QED
  BY <1>0, <1>1, <1>2

(***************************************************************************)
(* So does every step.                                                     *)
(***************************************************************************)
LEMMA KindKept ==
  ASSUME ResetAfterFinalize, IInv, IInv', ModeInv, FenceInv, KindInv,
         [Next]_vars
  PROVE  KindInv'
<1>1. CASE closed'
  BY <1>1, ClosedKinds
<1>2. CASE ~closed' /\ SingleMode'
  <2>1. cur'.committed = <<>>
    BY <1>2 DEF IInv, SingleInv
  <2>2. QED
    BY <2>1 DEF KindInv, Fences
<1>3. CASE ~closed' /\ ~SingleMode'
  <2>1. Split'
    BY <1>3 DEF Split
  <2>2. QED
    BY <2>1, SplitKinds
<1>4. QED
  BY <1>1, <1>2, <1>3

(***************************************************************************)
(* So do those of the view, now and after each of the updates under way.   *)
(***************************************************************************)
AllFenced(f) == \A n \in 0..Len(updates) : Fences(f[n].committed)

ViewKinds == \E f : IsAfter(f, view, updates) /\ AllFenced(f)

(***************************************************************************)
(* The update that a call sends keeps that.                                *)
(***************************************************************************)
LEMMA KindsSent ==
  ASSUME SyncInv, UpdatesInv', KindInv', ViewKinds, pc' = "idle",
         view' = view, NEW u \in UpdateRecord, updates' = Append(updates, u)
  PROVE  ViewKinds'
<1>1. PICK f : IsAfter(f, view, updates) /\ AllFenced(f)
  BY DEF ViewKinds
<1>2. updates \in Seq(UpdateRecord)
  BY DEF SyncInv
<1>3. PICK g : /\ IsAfter(g, view, Append(updates, u))
               /\ \A n \in 0..Len(updates) : g[n] = f[n]
  BY <1>1, <1>2, AfterAppend
<1>4. PICK h : IsAfter(h, view', updates') /\ InStep(h[Len(updates)])'
  BY DEF UpdatesInv
<1>5. Len(updates) \in Nat /\ Len(updates') = Len(updates) + 1
  BY <1>2, AppendTyped
<1> DEFINE w == g[Len(updates')]
<1>6. w = h[Len(updates')]
  <2> DEFINE us == updates'
             v == view'
             N == Len(us)
  <2>1. /\ IsAfter(g, v, us) /\ IsAfter(h, v, us)
        /\ N \in Nat /\ N <= N
    BY <1>3, <1>4, <1>5
  <2> HIDE DEF us, v
  <2>2. g[N] = h[N]
    BY ONLY <2>1, AfterUnique
  <2>3. QED
    BY <2>2 DEF us
<1>7. w.committed = cur'.committed
  BY <1>4, <1>6 DEF InStep
<1>8. Fences(w.committed)
  BY <1>7 DEF KindInv
<1> HIDE DEF w
<1>9. ASSUME NEW n \in 0..Len(updates')
      PROVE  Fences(g[n].committed)
  <2>1. CASE n = Len(updates')
    BY <1>8, <2>1 DEF w
  <2>2. CASE n # Len(updates')
    <3>1. n \in 0..Len(updates)
      BY <1>5, <2>2
    <3>2. QED
      BY <1>1, <1>3, <3>1 DEF AllFenced
  <2>3. QED
    BY <2>1, <2>2
<1>10. IsAfter(g, view, updates)'
  BY <1>3
<1>11. AllFenced(g)'
  BY <1>9 DEF AllFenced, Fences, FencedRight, Fenced
<1>12. QED
  BY <1>10, <1>11 DEF ViewKinds

(***************************************************************************)
(* Every step keeps it.                                                    *)
(***************************************************************************)
LEMMA KindsKept ==
  ASSUME SyncInv, TypeOK', UpdatesInv', KindInv', ViewKinds,
         [ReferenceNext]_referenceVars
  PROVE  ViewKinds'
<1>1. PICK f : IsAfter(f, view, updates) /\ AllFenced(f)
  BY DEF ViewKinds
<1>2. updates \in Seq(UpdateRecord)
  BY DEF SyncInv
<1>3. Update(FALSE)' \in UpdateRecord /\ Update(TRUE)' \in UpdateRecord
  BY UpdateIsTypedNext DEF UpdateTyped
<1>4. CASE updates' = updates /\ view' = view
  BY <1>1, <1>4 DEF ViewKinds, AllFenced, Fences, FencedRight, Fenced
<1>5. CASE ProduceReferences(Chunk, {"append", "append_ref"})
  <2>1. /\ view' = view
        /\ \/ /\ pc' = "idle"
              /\ \E u : /\ u = Update(FALSE)' \/ u = Update(TRUE)'
                        /\ updates' = Append(updates, u)
           \/ updates' = updates
    BY <1>5, ProducerSteps
  <2>2. CASE updates' = updates
    BY <1>4, <2>1, <2>2
  <2>3. CASE /\ pc' = "idle"
             /\ \E u : /\ u = Update(FALSE)' \/ u = Update(TRUE)'
                       /\ updates' = Append(updates, u)
    <3>1. PICK u \in UpdateRecord : updates' = Append(updates, u)
      BY <1>3, <2>3
    <3>2. QED
      BY <2>1, <2>3, <3>1, KindsSent
  <2>4. QED
    BY <2>1, <2>2, <2>3
<1>6. CASE ApplyReferences
  <2>1. /\ updates # <<>> /\ view' = ApplyTo(view, Head(updates))
        /\ updates' = Tail(updates)
    BY <1>6 DEF ApplyReferences, Apply
  <2>2. PICK g : /\ IsAfter(g, view', updates')
                 /\ \A n \in 0..Len(updates) - 1 : g[n] = f[n + 1]
    BY <1>1, <1>2, <2>1, AfterApply
  <2>3. Len(updates) \in Nat /\ Len(updates') = Len(updates) - 1
    BY <1>2, <2>1, TailTyped
  <2>4. ASSUME NEW n \in 0..Len(updates')
        PROVE  Fences(g[n].committed)
    <3>1. n \in 0..Len(updates) - 1 /\ n + 1 \in 0..Len(updates)
      BY <2>3
    <3>2. QED
      BY <1>1, <2>2, <3>1 DEF AllFenced
  <2>5. IsAfter(g, view, updates)'
    BY <2>2
  <2>6. AllFenced(g)'
    BY <2>4 DEF AllFenced, Fences, FencedRight, Fenced
  <2>7. QED
    BY <2>5, <2>6 DEF ViewKinds
<1>7. CASE NewReferences
  <2>1. updates' = <<>> /\ view' = EmptyView
    BY <1>7 DEF NewReferences, NewDocument
  <2>2. PICK g : IsAfter(g, view', updates') /\ g[Len(updates')] = EmptyView
    BY <2>1, AfterNone
  <2>3. Len(updates') = 0
    BY <2>1
  <2>4. Fences(EmptyView.committed)
    BY DEF EmptyView, Fences
  <2>5. \A n \in 0..Len(updates') : Fences(g[n].committed)
    BY <2>2, <2>3, <2>4
  <2>6. AllFenced(g)'
    BY <2>5 DEF AllFenced, Fences, FencedRight, Fenced
  <2>7. IsAfter(g, view, updates)'
    BY <2>2
  <2>8. QED
    BY <2>6, <2>7 DEF ViewKinds
<1>8. CASE UNCHANGED referenceVars
  BY <1>4, <1>8 DEF referenceVars, syncVars
<1>9. QED
  BY <1>5, <1>6, <1>7, <1>8 DEF ReferenceNext, ReferenceNextOn

(***************************************************************************)
(* It all holds at the start.                                              *)
(***************************************************************************)
LEMMA InitKinds ==
  ASSUME ReferenceInit
  PROVE  KindInv /\ ViewKinds
<1>1. updates = <<>> /\ view = EmptyView /\ cur.committed = <<>>
  BY DEF ReferenceInit, SyncInit, Init, FreshCursor
<1>2. PICK f : IsAfter(f, view, updates) /\ f[Len(updates)] = EmptyView
  BY <1>1, AfterNone
<1>3. Len(updates) = 0
  BY <1>1
<1>4. Fences(EmptyView.committed) /\ Fences(cur.committed)
  BY <1>1 DEF EmptyView, Fences
<1>5. AllFenced(f)
  BY <1>2, <1>3, <1>4 DEF AllFenced
<1>6. QED
  BY <1>2, <1>4, <1>5 DEF ViewKinds, KindInv

-----------------------------------------------------------------------------
(***************************************************************************)
(* The adapter's side: its state and what a parser makes of a block.       *)
(***************************************************************************)
ParsedBlock == [raw : Seq(Text), links : Definitions]

AdapterState ==
  [raw : Partial(Nat, Seq(Text)), parsed : Partial(Nat, ParsedBlock),
   definitions : Definitions]

(***************************************************************************)
(* A parser's result has its type, and depends only on the definitions of  *)
(* the labels that the text uses.                                          *)
(***************************************************************************)
LEMMA ParseTyped ==
  ASSUME NEW raw \in Seq(Text), NEW d \in Definitions
  PROVE  Parse(raw, d) \in ParsedBlock
<1> DEFINE links == IF Fenced(raw) THEN {} ELSE UsesOf(raw) \cap DOMAIN d
           of == [l \in links |-> d[l]]
<1>1. DOMAIN d \subseteq Label /\ \A l \in DOMAIN d : d[l] \in Text
  BY PartialIs DEF Definitions
<1>2. links \in SUBSET Label /\ links \subseteq DOMAIN d
  BY <1>1
<1>3. Parse(raw, d) = [raw |-> raw, links |-> of]
  BY DEF Parse
<1> HIDE DEF links
<1>4. of \in [links -> Text]
  BY <1>1, <1>2
<1> HIDE DEF of
<1>5. of \in Definitions
  BY <1>2, <1>4, PartialIs DEF Definitions
<1>6. QED
  BY <1>3, <1>5 DEF ParsedBlock

\* d and e say the same of the labels that raw uses.
SameFor(raw, d, e) ==
  \A l \in UsesOf(raw) : /\ l \in DOMAIN d <=> l \in DOMAIN e
                         /\ l \in DOMAIN d => d[l] = e[l]

(***************************************************************************)
(* The parser's result is the same when the definitions of the labels it   *)
(* uses are.                                                               *)
(***************************************************************************)
LEMMA ParseSame ==
  ASSUME NEW raw, NEW d, NEW e, Fenced(raw) \/ SameFor(raw, d, e)
  PROVE  Parse(raw, d) = Parse(raw, e)
<1> DEFINE links(m) == IF Fenced(raw) THEN {} ELSE UsesOf(raw) \cap DOMAIN m
<1>1. links(d) = links(e) /\ \A l \in links(d) : d[l] = e[l]
  BY DEF SameFor
<1>2. \A m : Parse(raw, m) = [raw |-> raw, links |-> [l \in links(m) |-> m[l]]]
  BY DEF Parse
<1> HIDE DEF links
<1>3. [l \in links(d) |-> d[l]] = [l \in links(e) |-> e[l]]
  BY <1>1
<1>4. QED
  BY <1>2, <1>3

(***************************************************************************)
(* An entry for one block.                                                 *)
(***************************************************************************)
LEMMA EntryTyped ==
  ASSUME NEW i \in Nat, NEW T, NEW t \in T
  PROVE  [j \in {i} |-> t] \in Partial(Nat, T)
<1> DEFINE f == [j \in {i} |-> t]
<1>1. f \in [{i} -> T] /\ {i} \in SUBSET Nat
  OBVIOUS
<1> HIDE DEF f
<1>2. f \in Partial(Nat, T)
  BY <1>1, PartialIs
<1>3. QED
  BY <1>2 DEF f

(***************************************************************************)
(* A block more keeps the type of the adapter.                             *)
(***************************************************************************)
LEMMA AddBlockTyped ==
  ASSUME NEW a \in AdapterState, NEW b \in Block
  PROVE  AddBlock(a, b) \in AdapterState
<1>1. b.id \in Nat /\ b.raw \in Seq(Text)
  BY PartsOfBlock
<1>2. /\ a.raw \in Partial(Nat, Seq(Text))
      /\ a.parsed \in Partial(Nat, ParsedBlock)
      /\ a.definitions \in Definitions
  BY DEF AdapterState
<1> DEFINE d == Collect(a.definitions, b.raw)
           p == Parse(b.raw, d)
           r == [i \in {b.id} |-> b.raw]
           q == [i \in {b.id} |-> p]
<1>3. d \in Definitions
  BY <1>1, <1>2, CollectTyped
<1>4. AddBlock(a, b) = [raw |-> Insert(a.raw, r), parsed |-> Insert(a.parsed, q),
                        definitions |-> d]
  BY DEF AddBlock
<1> HIDE DEF d
<1>5. p \in ParsedBlock
  BY <1>1, <1>3, ParseTyped
<1> HIDE DEF p
<1>6. r \in Partial(Nat, Seq(Text)) /\ q \in Partial(Nat, ParsedBlock)
  BY <1>1, <1>5, EntryTyped
<1> HIDE DEF r, q
<1>7. /\ Insert(a.raw, r) \in Partial(Nat, Seq(Text))
      /\ Insert(a.parsed, q) \in Partial(Nat, ParsedBlock)
  BY <1>2, <1>6, InsertTyped
<1>8. QED
  BY <1>3, <1>4, <1>7 DEF AdapterState

(***************************************************************************)
(* The recursion that AddAll stands for.                                   *)
(***************************************************************************)
LEMMA AddAllIs ==
  ASSUME NEW a, a \in AdapterState, NEW bs, bs \in Seq(Block)
  PROVE  \E f : /\ f \in [0..Len(bs) -> AdapterState]
                /\ f[0] = a
                /\ \A n \in 1..Len(bs) : f[n] = AddBlock(f[n - 1], bs[n])
                /\ AddAll(a, bs) = f[Len(bs)]
<1> DEFINE L == Len(bs)
           V == AdapterState
           first == a
           step == [n \in 1..L |-> [v \in V |-> AddBlock(v, bs[n])]]
           g == CHOOSE g : g = [k \in 0..L |->
                             IF k = 0 THEN a ELSE AddBlock(g[k - 1], bs[k])]
<1>1. L \in Nat /\ first \in V /\ \A n \in 1..L : bs[n] \in Block
  OBVIOUS
<1>2. step \in [1..L -> [V -> V]]
  BY <1>1, AddBlockTyped
<1>3. PICK f : /\ f \in [0..L -> V]
               /\ f[0] = first
               /\ \A n \in 1..L : f[n] = step[n][f[n - 1]]
  <2>1. L \in Nat /\ first \in V /\ step \in [1..L -> [V -> V]]
    BY <1>1, <1>2
  <2> HIDE DEF step, first, L, V
  <2>2. QED
    BY ONLY <2>1, RecursionExists
<1>4. ASSUME NEW n \in 1..L
      PROVE  f[n] = AddBlock(f[n - 1], bs[n])
  <2>1. n - 1 \in 0..L
    BY <1>1
  <2>2. f[n - 1] \in V
    BY <1>3, <2>1
  <2>3. QED
    BY <1>3, <2>2
<1>5. f = [k \in 0..L |-> IF k = 0 THEN a ELSE AddBlock(f[k - 1], bs[k])]
  <2> HIDE DEF step, V
  <2>1. \A k \in 0..L : k # 0 => k \in 1..L
    BY <1>1
  <2>2. QED
    BY <1>3, <1>4, <2>1
<1>6. g = [k \in 0..L |-> IF k = 0 THEN a ELSE AddBlock(g[k - 1], bs[k])]
  BY <1>5
<1>7. AddAll(a, bs) = g[L]
  BY DEF AddAll
<1> HIDE DEF g, step, V
<1>8. \A k \in 0..L : f[k] = g[k]
  <2>1. f[0] = g[0]
    BY <1>1, <1>3, <1>6
  <2>2. ASSUME NEW n \in 1..L, f[n - 1] = g[n - 1]
        PROVE  f[n] = g[n]
    <3>1. n \in 0..L /\ n # 0
      BY <1>1
    <3>2. QED
      BY <1>4, <1>6, <2>2, <3>1
  <2>3. L \in Nat
    BY <1>1
  <2> HIDE DEF L
  <2>4. QED
    BY ONLY <2>1, <2>2, <2>3, StepwiseEqual
<1>9. L \in 0..L
  BY <1>1
<1>10. AddAll(a, bs) = f[L]
  BY <1>7, <1>8, <1>9
<1>11. QED
  BY <1>3, <1>4, <1>10 DEF V

-----------------------------------------------------------------------------
(***************************************************************************)
(* D has the definitions of the first blocks of bs.                        *)
(***************************************************************************)
IsDefined(D, bs) ==
  /\ D \in [0..Len(bs) -> Definitions]
  /\ D[0] = NoEntry
  /\ \A n \in 1..Len(bs) : D[n] = DefinedAfter(D[n - 1], bs[n])

(***************************************************************************)
(* The adapter has the first n blocks, each parsed with the definitions of *)
(* the first p, where p is the number of blocks that it had then: at least *)
(* the block itself and the m blocks of earlier updates.                   *)
(***************************************************************************)
ParsedAt(a, bs, D, m, n, k) ==
  \E p \in k..n : m <= p /\ a.parsed[bs[k].id] = Parse(bs[k].raw, D[p])

Fresh(a, bs, D, m, n) ==
  /\ a \in AdapterState
  /\ DOMAIN a.raw = IdsTo(bs, n) /\ DOMAIN a.parsed = IdsTo(bs, n)
  /\ a.definitions = D[n]
  /\ \A k \in 1..n : /\ a.raw[bs[k].id] = bs[k].raw
                     /\ ParsedAt(a, bs, D, m, n, k)

(***************************************************************************)
(* Fenced code defines nothing.                                            *)
(***************************************************************************)
NoneInFences(bs) ==
  \A k \in 1..Len(bs) : bs[k].kind = "CodeFence" => DefinedBy(bs[k].raw) = {}

(***************************************************************************)
(* Then collecting from every block collects what the document defines.    *)
(***************************************************************************)
LEMMA CollectsAll ==
  ASSUME NEW bs \in Seq(Block), NEW n \in 1..Len(bs), NEW d \in Definitions,
         NoneInFences(bs)
  PROVE  Collect(d, bs[n].raw) = DefinedAfter(d, bs[n])
<1>1. bs[n] \in Block
  OBVIOUS
<1>2. bs[n].raw \in Seq(Text)
  BY <1>1, PartsOfBlock
<1>3. bs[n].kind = "CodeFence" => DefinedBy(bs[n].raw) = {}
  BY DEF NoneInFences
<1>4. QED
  BY <1>2, <1>3, CollectNone DEF DefinedAfter

(***************************************************************************)
(* A block more.                                                           *)
(***************************************************************************)
LEMMA FreshAdd ==
  ASSUME NEW bs \in Seq(Block), DistinctIds(bs), NoneInFences(bs),
         NEW D, IsDefined(D, bs), NEW m \in Nat, NEW n \in Nat, m <= n,
         n + 1 <= Len(bs), NEW a, Fresh(a, bs, D, m, n)
  PROVE  Fresh(AddBlock(a, bs[n + 1]), bs, D, m, n + 1)
<1>1. PICK b \in Block : b = bs[n + 1]
  OBVIOUS
<1>2. b.id \in Nat /\ b.raw \in Seq(Text)
  BY PartsOfBlock
<1>3. /\ 1..n + 1 = (1..n) \cup {n + 1}
      /\ IdsTo(bs, n + 1) = IdsTo(bs, n) \cup {b.id}
  <2>1. 1..n + 1 = (1..n) \cup {n + 1}
    OBVIOUS
  <2>2. QED
    BY <1>1, <2>1 DEF IdsTo
<1> DEFINE d == Collect(a.definitions, b.raw)
           q == Parse(b.raw, d)
           r1 == [i \in {b.id} |-> b.raw]
           q1 == [i \in {b.id} |-> q]
           e == AddBlock(a, b)
<1>4. d = D[n + 1]
  <2>1. n + 1 \in 1..Len(bs) /\ n \in 0..Len(bs) /\ (n + 1) - 1 = n
    OBVIOUS
  <2>2. D[n] \in Definitions /\ D[n + 1] = DefinedAfter(D[n], bs[n + 1])
    BY <2>1 DEF IsDefined
  <2>3. a.definitions = D[n]
    BY DEF Fresh
  <2>4. QED
    BY <1>1, <2>1, <2>2, <2>3, CollectsAll
<1>5. /\ e.raw = Insert(a.raw, r1) /\ e.parsed = Insert(a.parsed, q1)
      /\ e.definitions = d
  BY DEF AddBlock
<1>6. e \in AdapterState
  BY AddBlockTyped DEF Fresh
<1> HIDE DEF e, d, q
<1>7. /\ DOMAIN r1 = {b.id} /\ r1[b.id] = b.raw
      /\ DOMAIN q1 = {b.id} /\ q1[b.id] = q
  OBVIOUS
<1> HIDE DEF r1, q1
<1>8. /\ DOMAIN e.raw = IdsTo(bs, n + 1) /\ DOMAIN e.parsed = IdsTo(bs, n + 1)
      /\ e.raw[b.id] = b.raw /\ e.parsed[b.id] = q
  <2>1. /\ DOMAIN Insert(a.raw, r1) = DOMAIN a.raw \cup DOMAIN r1
        /\ \A x \in DOMAIN r1 : Insert(a.raw, r1)[x] = r1[x]
    BY InsertIs
  <2>2. /\ DOMAIN Insert(a.parsed, q1) = DOMAIN a.parsed \cup DOMAIN q1
        /\ \A x \in DOMAIN q1 : Insert(a.parsed, q1)[x] = q1[x]
    BY InsertIs
  <2>3. DOMAIN a.raw = IdsTo(bs, n) /\ DOMAIN a.parsed = IdsTo(bs, n)
    BY DEF Fresh
  <2>4. QED
    BY <1>3, <1>5, <1>7, <2>1, <2>2, <2>3
<1>9. ASSUME NEW k \in 1..n + 1
      PROVE  e.raw[bs[k].id] = bs[k].raw /\ ParsedAt(e, bs, D, m, n + 1, k)
  <2>1. CASE k = n + 1
    <3>1. q = Parse(b.raw, D[n + 1])
      BY <1>4 DEF q
    <3>2. n + 1 \in k..n + 1 /\ m <= n + 1
      BY <2>1
    <3>3. QED
      BY <1>1, <1>8, <2>1, <3>1, <3>2 DEF ParsedAt
  <2>2. CASE k # n + 1
    <3>1. k \in 1..n /\ k \in DOMAIN bs /\ n + 1 \in DOMAIN bs
      BY <2>2
    <3>2. bs[k].id # b.id
      BY <1>1, <2>2, <3>1 DEF DistinctIds
    <3>3. PICK p \in k..n :
            m <= p /\ a.parsed[bs[k].id] = Parse(bs[k].raw, D[p])
      BY <3>1 DEF Fresh, ParsedAt
    <3>4. bs[k].id \in DOMAIN a.raw /\ bs[k].id \in DOMAIN a.parsed
          /\ a.raw[bs[k].id] = bs[k].raw
      BY <3>1 DEF Fresh, IdsTo
    <3>5. PICK i : i = bs[k].id /\ i \notin DOMAIN r1 /\ i \notin DOMAIN q1
      BY <1>7, <3>2
    <3>6. e.raw[i] = a.raw[i] /\ e.parsed[i] = a.parsed[i]
      BY <1>5, <3>4, <3>5, InsertOther
    <3>7. p \in k..n + 1
      OBVIOUS
    <3>8. QED
      BY <3>3, <3>4, <3>5, <3>6, <3>7 DEF ParsedAt
  <2>3. QED
    BY <2>1, <2>2
<1>10. e.definitions = D[n + 1]
  BY <1>4, <1>5
<1>11. Fresh(e, bs, D, m, n + 1)
  BY <1>6, <1>8, <1>9, <1>10 DEF Fresh
<1>12. QED
  BY <1>1, <1>11 DEF e

(***************************************************************************)
(* All blocks of an update.                                                *)
(***************************************************************************)
LEMMA FreshAddAll ==
  ASSUME NEW bs \in Seq(Block), DistinctIds(bs), NoneInFences(bs),
         NEW D, IsDefined(D, bs), NEW m \in Nat, m <= Len(bs),
         NEW new \in Seq(Block), Len(new) = Len(bs) - m,
         \A n \in 1..Len(new) : new[n] = bs[m + n],
         NEW a, Fresh(a, bs, D, m, m)
  PROVE  Fresh(AddAll(a, new), bs, D, m, Len(bs))
<1>1. a \in AdapterState
  BY DEF Fresh
<1>2. PICK f : /\ f \in [0..Len(new) -> AdapterState]
               /\ f[0] = a
               /\ \A n \in 1..Len(new) : f[n] = AddBlock(f[n - 1], new[n])
               /\ AddAll(a, new) = f[Len(new)]
  BY <1>1, AddAllIs
<1> DEFINE S == {n \in Nat : n <= Len(new) => Fresh(f[n], bs, D, m, m + n)}
<1>3. 0 \in S
  BY <1>2
<1>4. ASSUME NEW n \in Nat, n \in S
      PROVE  n + 1 \in S
  <2>1. SUFFICES ASSUME n + 1 <= Len(new)
                 PROVE  Fresh(f[n + 1], bs, D, m, m + (n + 1))
    OBVIOUS
  <2>2. Fresh(f[n], bs, D, m, m + n)
    BY <1>4, <2>1
  <2>3. n + 1 \in 1..Len(new) /\ (n + 1) - 1 = n
    BY <2>1
  <2>4. f[n + 1] = AddBlock(f[n], bs[m + (n + 1)])
    BY <1>2, <2>3
  <2>5. PICK i \in Nat : i = m + n /\ i + 1 = m + (n + 1)
    OBVIOUS
  <2>6. i + 1 <= Len(bs) /\ m <= i
    BY <2>1, <2>5
  <2>7. Fresh(AddBlock(f[n], bs[i + 1]), bs, D, m, i + 1)
    BY <2>2, <2>5, <2>6, FreshAdd
  <2>8. QED
    BY <2>4, <2>5, <2>7
<1> HIDE DEF S
<1>5. \A n \in Nat : n \in S
  BY <1>3, <1>4, NatInductive
<1>6. PICK N \in Nat : N = Len(new) /\ m + N = Len(bs)
  OBVIOUS
<1>7. Fresh(f[N], bs, D, m, Len(bs))
  <2>1. N <= Len(new) => Fresh(f[N], bs, D, m, m + N)
    BY <1>5 DEF S
  <2>2. N <= Len(new)
    BY <1>6
  <2>3. QED
    BY ONLY <1>6, <2>1, <2>2
<1>8. QED
  BY <1>2, <1>6, <1>7

(***************************************************************************)
(* A block that the update does not name is parsed as it would be again:   *)
(* no block since then defines a label that it uses.                       *)
(***************************************************************************)
LEMMA UnnamedIsFresh ==
  ASSUME NEW bs \in Seq(Block), DistinctIds(bs), NoneInFences(bs), Fences(bs),
         Invalidates, NEW D, IsDefined(D, bs), NEW m \in Nat, NEW named,
         Announced(named, bs, m, Len(bs)), NEW k \in 1..Len(bs),
         bs[k].id \notin named, NEW p \in k..Len(bs), m <= p
  PROVE  Parse(bs[k].raw, D[p]) = Parse(bs[k].raw, D[Len(bs)])
<1>0. Len(bs) \in Nat /\ p \in Nat /\ k <= p /\ p <= Len(bs)
  OBVIOUS
<1>1. CASE Fenced(bs[k].raw)
  BY <1>1, ParseSame
<1>2. CASE ~Fenced(bs[k].raw)
  <2>1. bs[k].kind # "CodeFence"
    BY <1>2 DEF Fences, FencedRight
  <2>2. ASSUME NEW j \in 1..Len(bs), p < j
        PROVE  UsesOf(bs[k].raw) \cap DefinedBy(bs[j].raw) = {}
    <3>1. CASE bs[j].kind = "CodeFence"
      BY <3>1 DEF NoneInFences
    <3>2. CASE bs[j].kind # "CodeFence"
      <4>1. k < j /\ m < j
        BY <1>0, <2>2
      <4>2. k \in DOMAIN bs /\ j \in DOMAIN bs /\ k # j
        BY <4>1
      <4>3. bs[k].id # bs[j].id
        BY <4>2 DEF DistinctIds
      <4>4. ~Touches(bs[k], bs[j])
        BY <4>1, <4>3 DEF Announced
      <4>5. QED
        BY <2>1, <3>2, <4>4 DEF Touches
    <3>3. QED
      BY <3>1, <3>2
  <2> DEFINE raw == bs[k].raw
             S == {n \in Nat : p + n <= Len(bs) => SameFor(raw, D[p], D[p + n])}
  <2> HIDE DEF raw
  <2>3. 0 \in S
    <3>1. p + 0 = p
      BY <1>0
    <3>2. QED
      BY <3>1 DEF SameFor
  <2>4. ASSUME NEW n \in Nat, n \in S
        PROVE  n + 1 \in S
    <3>1. SUFFICES ASSUME p + (n + 1) <= Len(bs)
                   PROVE  SameFor(raw, D[p], D[p + (n + 1)])
      OBVIOUS
    <3>2. PICK i \in Nat : i = p + n /\ i + 1 = p + (n + 1)
      BY <1>0
    <3>3. SameFor(raw, D[p], D[i])
      <4>1. p + n <= Len(bs)
        BY <1>0, <3>1
      <4>2. QED
        BY <2>4, <3>2, <4>1
    <3>4. i + 1 \in 1..Len(bs) /\ i \in 0..Len(bs) /\ (i + 1) - 1 = i
          /\ p < i + 1
      BY <1>0, <3>1, <3>2
    <3>5. D[i] \in Definitions /\ D[i + 1] = DefinedAfter(D[i], bs[i + 1])
      BY <3>4 DEF IsDefined
    <3>6. PICK next : next = bs[i + 1].raw /\ next \in Seq(Text)
      <4>1. bs[i + 1] \in Block
        BY <3>4
      <4>2. QED
        BY <4>1, PartsOfBlock
    <3>7. D[i + 1] = Collect(D[i], next)
      BY <3>4, <3>5, <3>6, CollectsAll
    <3>8. UsesOf(raw) \cap DefinedBy(next) = {}
      BY <2>2, <3>4, <3>6 DEF raw
    <3>9. SameFor(raw, D[i], D[i + 1])
      <4>1. ASSUME NEW l \in UsesOf(raw)
            PROVE  /\ l \in DOMAIN D[i] <=> l \in DOMAIN D[i + 1]
                   /\ l \in DOMAIN D[i] => D[i][l] = D[i + 1][l]
        <5>1. l \notin DefinedBy(next)
          BY <3>8
        <5>2. /\ l \in DOMAIN Collect(D[i], next) <=> l \in DOMAIN D[i]
              /\ l \in DOMAIN D[i] => Collect(D[i], next)[l] = D[i][l]
          BY <3>5, <3>6, <5>1, CollectKeeps
        <5>3. QED
          BY <3>7, <5>2
      <4>2. QED
        BY <4>1 DEF SameFor
    <3>10. SameFor(raw, D[p], D[i + 1])
      BY <3>3, <3>9 DEF SameFor
    <3>11. QED
      BY <3>2, <3>10
  <2> HIDE DEF S
  <2>5. \A n \in Nat : n \in S
    BY <2>3, <2>4, NatInductive
  <2>6. PICK n \in Nat : p + n = Len(bs)
    <3>1. Len(bs) - p \in Nat /\ p + (Len(bs) - p) = Len(bs)
      BY <1>0
    <3>2. QED
      BY <3>1
  <2>7. SameFor(raw, D[p], D[Len(bs)])
    <3>1. p + n <= Len(bs) => SameFor(raw, D[p], D[p + n])
      BY <2>5 DEF S
    <3>2. QED
      BY <1>0, <2>6, <3>1
  <2>8. QED
    BY <2>7, ParseSame DEF raw
<1>3. QED
  BY <1>1, <1>2

(***************************************************************************)
(* apply_update: add the blocks, then parse again what the update names.   *)
(***************************************************************************)
LEMMA FreshAgain ==
  ASSUME NEW bs \in Seq(Block), DistinctIds(bs), NoneInFences(bs), Fences(bs),
         Invalidates, NEW D, IsDefined(D, bs), NEW m \in Nat, NEW named,
         Announced(named, bs, m, Len(bs)),
         NEW a, Fresh(a, bs, D, m, Len(bs))
  PROVE  Fresh(ParseAgain(a, named), bs, D, Len(bs), Len(bs))
<1>0. Len(bs) \in Nat /\ Len(bs) \in 0..Len(bs)
  OBVIOUS
<1>1. /\ a.raw \in Partial(Nat, Seq(Text))
      /\ a.parsed \in Partial(Nat, ParsedBlock)
      /\ a.definitions \in Definitions /\ a.definitions = D[Len(bs)]
      /\ DOMAIN a.raw = IdsTo(bs, Len(bs))
      /\ DOMAIN a.parsed = IdsTo(bs, Len(bs))
  BY DEF Fresh, AdapterState
<1> DEFINE ids == named \cap DOMAIN a.raw
           q == [i \in ids |-> Parse(a.raw[i], a.definitions)]
           e == ParseAgain(a, named)
<1>2. /\ e = [a EXCEPT !.parsed = Insert(a.parsed, q)]
      /\ DOMAIN q = ids
  BY DEF ParseAgain
<1>3. q \in Partial(Nat, ParsedBlock)
  <2>1. ids \in SUBSET Nat /\ \A i \in ids : a.raw[i] \in Seq(Text)
    BY <1>1, PartialIs
  <2>2. q \in [ids -> ParsedBlock]
    BY <1>1, <2>1, ParseTyped
  <2> HIDE DEF q, ids
  <2>3. QED
    BY <2>1, <2>2, PartialIs
<1>4. \A i \in ids : q[i] = Parse(a.raw[i], D[Len(bs)])
  BY <1>1
<1>5. Insert(a.parsed, q) \in Partial(Nat, ParsedBlock)
  <2> HIDE DEF q, ids
  <2>1. QED
    BY <1>1, <1>3, InsertTyped
<1> HIDE DEF e, q
<1>6. /\ e \in AdapterState /\ e.raw = a.raw
      /\ e.definitions = a.definitions /\ e.parsed = Insert(a.parsed, q)
  <2>1. a \in AdapterState
    BY DEF Fresh
  <2>2. QED
    BY <1>2, <1>5, <2>1 DEF AdapterState
<1>7. DOMAIN e.parsed = IdsTo(bs, Len(bs))
  <2>1. DOMAIN Insert(a.parsed, q) = DOMAIN a.parsed \cup DOMAIN q
    BY InsertIs
  <2>2. QED
    BY <1>1, <1>2, <1>6, <2>1
<1>8. ASSUME NEW k \in 1..Len(bs)
      PROVE  /\ e.raw[bs[k].id] = bs[k].raw
             /\ ParsedAt(e, bs, D, Len(bs), Len(bs), k)
  <2>1. PICK i : i = bs[k].id
    OBVIOUS
  <2>2. i \in DOMAIN a.raw /\ i \in DOMAIN a.parsed /\ a.raw[i] = bs[k].raw
    BY <1>1, <2>1 DEF Fresh, IdsTo
  <2>3. e.parsed[i] = Parse(bs[k].raw, D[Len(bs)])
    <3>1. CASE i \in named
      <4>1. i \in DOMAIN q
        BY <1>2, <2>2, <3>1
      <4>2. \A x \in DOMAIN q : Insert(a.parsed, q)[x] = q[x]
        BY InsertIs
      <4>3. QED
        BY <1>2, <1>4, <1>6, <2>2, <4>1, <4>2
    <3>2. CASE i \notin named
      <4>1. i \notin DOMAIN q
        BY <1>2, <3>2
      <4>2. Insert(a.parsed, q)[i] = a.parsed[i]
        BY <2>2, <4>1, InsertOther
      <4>3. PICK p \in k..Len(bs) :
              m <= p /\ a.parsed[bs[k].id] = Parse(bs[k].raw, D[p])
        BY DEF Fresh, ParsedAt
      <4>4. Parse(bs[k].raw, D[p]) = Parse(bs[k].raw, D[Len(bs)])
        BY <2>1, <3>2, <4>3, UnnamedIsFresh
      <4>5. QED
        BY <1>6, <2>1, <4>2, <4>3, <4>4
    <3>3. QED
      BY <3>1, <3>2
  <2>4. Len(bs) \in k..Len(bs)
    BY <1>0
  <2>5. QED
    BY <1>0, <1>6, <2>1, <2>2, <2>3, <2>4 DEF ParsedAt
<1>9. Fresh(e, bs, D, Len(bs), Len(bs))
  BY <1>1, <1>6, <1>7, <1>8 DEF Fresh
<1>10. QED
  BY <1>9 DEF e

(***************************************************************************)
(* The definitions of the first blocks do not change when others follow.   *)
(***************************************************************************)
LEMMA SameDefinitions ==
  ASSUME NEW s, s \in Seq(Block), NEW t, t \in Seq(Block), IsPrefixOf(s, t),
         NEW D, IsDefined(D, s), NEW E, IsDefined(E, t)
  PROVE  \A n \in 0..Len(s) : D[n] = E[n]
<1>1. Len(s) \in Nat /\ Len(s) <= Len(t) /\ \A k \in 1..Len(s) : t[k] = s[k]
  BY DEF IsPrefixOf
<1>2. D[0] = E[0]
  BY DEF IsDefined
<1>3. ASSUME NEW n \in 1..Len(s), D[n - 1] = E[n - 1]
      PROVE  D[n] = E[n]
  <2>1. n \in 1..Len(t)
    BY <1>1
  <2>2. D[n] = DefinedAfter(D[n - 1], s[n]) /\ E[n] = DefinedAfter(E[n - 1], t[n])
    BY <2>1 DEF IsDefined
  <2>3. QED
    BY <1>1, <1>3, <2>2
<1>4. PICK L : L = Len(s) /\ L \in Nat
  BY <1>1
<1>5. ASSUME NEW n \in 1..L, D[n - 1] = E[n - 1]
      PROVE  D[n] = E[n]
  BY <1>3, <1>4, <1>5
<1>6. \A n \in 0..L : D[n] = E[n]
  <2>1. L \in Nat
    BY <1>4
  <2>2. QED
    BY ONLY <1>2, <1>5, <2>1, StepwiseEqual
<1>7. QED
  BY <1>4, <1>6

-----------------------------------------------------------------------------
(***************************************************************************)
(* The adapter has the blocks of the view, each parsed with all the        *)
(* definitions of the view.                                                *)
(***************************************************************************)
AdapterInv ==
  \E D : /\ IsDefined(D, view.committed)
         /\ Fresh(adapter, view.committed, D, Len(view.committed),
                  Len(view.committed))

(***************************************************************************)
(* A new adapter has no block.                                             *)
(***************************************************************************)
LEMMA FreshNew ==
  ASSUME NEW bs, NEW D, IsDefined(D, bs)
  PROVE  Fresh(NewAdapter, bs, D, 0, 0)
<1>1. /\ NewAdapter.raw = NoEntry /\ NewAdapter.parsed = NoEntry
      /\ NewAdapter.definitions = NoEntry
      /\ NewAdapter = [raw |-> NoEntry, parsed |-> NoEntry,
                       definitions |-> NoEntry]
  BY DEF NewAdapter
<1>2. DOMAIN NoEntry = {}
  BY DEF NoEntry
<1>3. /\ NoEntry \in Partial(Nat, Seq(Text))
      /\ NoEntry \in Partial(Nat, ParsedBlock)
      /\ NoEntry \in Partial(Label, Text)
  BY NoEntryTyped
<1> HIDE DEF NoEntry
<1>4. NewAdapter \in AdapterState
  BY <1>1, <1>3 DEF AdapterState, Definitions
<1>5. IdsTo(bs, 0) = {}
  BY DEF IdsTo
<1>6. D[0] = NoEntry
  BY DEF IsDefined
<1>7. QED
  BY <1>1, <1>2, <1>4, <1>5, <1>6 DEF Fresh

(***************************************************************************)
(* Some D has the definitions, and DefinitionsIn is its last.              *)
(***************************************************************************)
LEMMA DefinedExists ==
  ASSUME NEW bs \in Seq(Block)
  PROVE  \E D : IsDefined(D, bs) /\ DefinitionsIn(bs) = D[Len(bs)]
<1>1. PICK f : /\ f \in [0..Len(bs) -> Definitions]
               /\ f[0] = NoEntry
               /\ \A n \in 1..Len(bs) : f[n] = DefinedAfter(f[n - 1], bs[n])
               /\ DefinitionsIn(bs) = f[Len(bs)]
  BY DefinitionsAre
<1>2. IsDefined(f, bs)
  BY <1>1 DEF IsDefined
<1>3. QED
  BY <1>1, <1>2

(***************************************************************************)
(* Every D that has them ends with DefinitionsIn.                          *)
(***************************************************************************)
LEMMA LastDefined ==
  ASSUME NEW bs \in Seq(Block), NEW D, IsDefined(D, bs)
  PROVE  DefinitionsIn(bs) = D[Len(bs)]
<1>1. PICK E : IsDefined(E, bs) /\ DefinitionsIn(bs) = E[Len(bs)]
  BY DefinedExists
<1>2. IsPrefixOf(bs, bs) /\ Len(bs) \in 0..Len(bs)
  BY DEF IsPrefixOf
<1>3. \A n \in 0..Len(bs) : D[n] = E[n]
  BY <1>1, <1>2, SameDefinitions
<1>4. QED
  BY <1>1, <1>2, <1>3

(***************************************************************************)
(* What is fresh for the first blocks stays so when others follow.         *)
(***************************************************************************)
LEMMA FreshPrefix ==
  ASSUME NEW s \in Seq(Block), NEW t \in Seq(Block), IsPrefixOf(s, t),
         NEW D, IsDefined(D, s), NEW E, IsDefined(E, t),
         NEW a, Fresh(a, s, D, Len(s), Len(s))
  PROVE  Fresh(a, t, E, Len(s), Len(s))
<1>1. PICK m \in Nat : m = Len(s)
  OBVIOUS
<1>2. m <= Len(t) /\ \A k \in 1..m : t[k] = s[k]
  BY <1>1 DEF IsPrefixOf
<1>3. D[m] = E[m]
  <2>1. \A n \in 0..Len(s) : D[n] = E[n]
    BY SameDefinitions
  <2>2. QED
    BY <1>1, <2>1
<1>4. IdsTo(t, m) = IdsTo(s, m)
  BY <1>2 DEF IdsTo
<1>5. Fresh(a, s, D, m, m)
  BY <1>1
<1>6. ASSUME NEW k \in 1..m
      PROVE  a.raw[t[k].id] = t[k].raw /\ ParsedAt(a, t, E, m, m, k)
  <2>1. a.raw[s[k].id] = s[k].raw
    BY <1>5 DEF Fresh
  <2>2. PICK p \in k..m : m <= p /\ a.parsed[s[k].id] = Parse(s[k].raw, D[p])
    BY <1>5 DEF Fresh, ParsedAt
  <2>3. p = m
    BY <2>2
  <2>4. t[k] = s[k]
    BY <1>2
  <2>5. QED
    BY <1>3, <2>1, <2>2, <2>3, <2>4 DEF ParsedAt
<1>7. Fresh(a, t, E, m, m)
  BY <1>3, <1>4, <1>5, <1>6 DEF Fresh
<1>8. QED
  BY <1>1, <1>7

(***************************************************************************)
(* apply_update, as a whole.                                               *)
(***************************************************************************)
LEMMA FreshApply ==
  ASSUME Invalidates, NEW v \in ViewRecord, NEW u \in UpdateRecord,
         NEW w, w = ApplyTo(v, u), NEW named, Names(w, u, named),
         DistinctIds(w.committed), NoneInFences(w.committed),
         Fences(w.committed), NEW a, NEW D, IsDefined(D, v.committed),
         Fresh(a, v.committed, D, Len(v.committed), Len(v.committed))
  PROVE  \E E : /\ IsDefined(E, w.committed)
                /\ Fresh(ApplyUpdate(a, u, named), w.committed, E,
                         Len(w.committed), Len(w.committed))
<1>1. PICK bs, vs, new : /\ bs = w.committed /\ vs = v.committed
                         /\ new = u.committed
  OBVIOUS
<1>2. vs \in Seq(Block) /\ new \in Seq(Block)
  BY <1>1 DEF ViewRecord, UpdateRecord
<1>3. bs = IF u.reset THEN new ELSE vs \o new
  BY <1>1 DEF ApplyTo
<1>4. bs \in Seq(Block) /\ Len(bs) \in Nat /\ Len(new) \in Nat
  BY <1>2, <1>3
<1>5. PICK E : IsDefined(E, bs)
  BY <1>4, DefinedExists
<1>6. Len(new) <= Len(bs)
      /\ Announced(named, bs, Len(bs) - Len(new), Len(bs))
  BY <1>1 DEF Names
<1>7. PICK m \in Nat : m = Len(bs) - Len(new)
  BY <1>4, <1>6
<1>8. m <= Len(bs) /\ Len(new) = Len(bs) - m
  BY <1>4, <1>6, <1>7
<1> DEFINE base == IF u.reset THEN NewAdapter ELSE a
<1>9. /\ Fresh(base, bs, E, m, m)
      /\ \A n \in 1..Len(new) : new[n] = bs[m + n]
  <2>1. CASE u.reset
    <3>1. m = 0 /\ bs = new /\ base = NewAdapter
      BY <1>3, <1>4, <1>7, <2>1
    <3>2. \A n \in 1..Len(new) : m + n = n
      BY <3>1
    <3>3. QED
      BY <1>5, <3>1, <3>2, FreshNew
  <2>2. CASE ~u.reset
    <3>1. bs = vs \o new /\ base = a
      BY <1>3, <2>2
    <3>2. m = Len(vs) /\ \A n \in 1..Len(new) : new[n] = bs[m + n]
      BY <1>2, <1>7, <3>1
    <3>3. IsPrefixOf(vs, bs)
      BY <1>2, <3>1, PrefixOfConcat
    <3>4. Fresh(a, bs, E, Len(vs), Len(vs))
      BY <1>1, <1>2, <1>4, <1>5, <3>3, FreshPrefix
    <3>5. QED
      BY <3>1, <3>2, <3>4
  <2>3. QED
    BY <2>1, <2>2
<1>10. ApplyUpdate(a, u, named) = ParseAgain(AddAll(base, new), named)
  BY <1>1 DEF ApplyUpdate
<1> HIDE DEF base
<1>11. DistinctIds(bs) /\ NoneInFences(bs) /\ Fences(bs)
  BY <1>1
<1>12. Fresh(AddAll(base, new), bs, E, m, Len(bs))
  BY <1>2, <1>4, <1>5, <1>8, <1>9, <1>11, FreshAddAll
<1>13. Announced(named, bs, m, Len(bs))
  BY <1>6, <1>7
<1>14. Fresh(ParseAgain(AddAll(base, new), named), bs, E, Len(bs), Len(bs))
  BY <1>4, <1>5, <1>11, <1>12, <1>13, FreshAgain
<1>15. QED
  BY <1>1, <1>5, <1>10, <1>14

(***************************************************************************)
(* The assumption about the documents: no line that is committed as part   *)
(* of fenced code looks like a definition.  The adapter collects           *)
(* definitions from fenced code too.                                       *)
(***************************************************************************)
FencesDefineNothing == NoneInFences(view.committed)

(***************************************************************************)
(* Every step keeps the adapter fresh.                                     *)
(***************************************************************************)
LEMMA AdapterKept ==
  ASSUME Invalidates, SyncInv, KeysInv, ViewKinds, NamedInv, AdapterInv,
         FencesDefineNothing', [ReferenceNext]_referenceVars
  PROVE  AdapterInv'
<1>1. /\ updates \in Seq(UpdateRecord) /\ Len(updates) \in Nat
      /\ view \in ViewRecord
  BY DEF SyncInv
<1>2. CASE view' = view /\ adapter' = adapter
  <2>1. PICK D : /\ IsDefined(D, view.committed)
                 /\ Fresh(adapter, view.committed, D, Len(view.committed),
                          Len(view.committed))
    BY DEF AdapterInv
  <2>2. PICK vs, a : /\ vs = view.committed /\ vs = view'.committed
                     /\ a = adapter /\ a = adapter'
    BY <1>2
  <2>3. IsDefined(D, vs) /\ Fresh(a, vs, D, Len(vs), Len(vs))
    BY <2>1, <2>2
  <2>4. QED
    BY <2>2, <2>3 DEF AdapterInv
<1>3. CASE ApplyReferences
  <2>1. /\ updates # <<>> /\ view' = ApplyTo(view, Head(updates))
        /\ adapter' = ApplyUpdate(adapter, Head(updates), Head(invalidations))
    BY <1>3 DEF ApplyReferences, Apply
  <2>2. PICK u \in UpdateRecord : u = Head(updates) /\ u = updates[1]
    BY <1>1, <2>1, TailTyped
  <2>3. /\ 1 \in 1..Len(updates) /\ 1 \in 0..Len(updates)
        /\ 0 + 1 <= Len(updates)
    <3>1. Len(updates) >= 1
      BY <1>1, <2>1, FirstOf
    <3>2. QED
      BY <1>1, <3>1
  <2>4. PICK named : named = Head(invalidations) /\ named = invalidations[1]
    BY DEF NamedInv
  <2>5. PICK w : w = ApplyTo(view, u) /\ w = view'
    BY <2>1, <2>2
  <2>6. ASSUME NEW f, IsAfter(f, view, updates)
        PROVE  f[1] = w
    <3>1. /\ f[0] = view
          /\ \A n \in Nat : n + 1 <= Len(updates) =>
               f[n + 1] = ApplyTo(f[n], updates[n + 1])
      BY <1>1, <2>6, AfterStep
    <3>2. f[0 + 1] = ApplyTo(f[0], updates[0 + 1])
      BY <2>3, <3>1
    <3>3. QED
      BY <2>2, <2>5, <3>1, <3>2
  <2>7. Names(w, u, named)
    <3>1. PICK f : IsAfter(f, view, updates) /\ AllNamed(f)
      BY DEF NamedInv
    <3>2. QED
      BY <2>2, <2>3, <2>4, <2>6, <3>1 DEF AllNamed
  <2>8. Fences(w.committed)
    <3>1. PICK f : IsAfter(f, view, updates) /\ AllFenced(f)
      BY DEF ViewKinds
    <3>2. QED
      BY <2>3, <2>6, <3>1 DEF AllFenced
  <2>9. DistinctIds(w.committed)
    <3>1. PICK f : /\ IsAfter(f, view, updates)
                   /\ \A n \in 0..Len(updates) : KeysDistinct(f[n])
      BY DEF KeysInv
    <3>2. DistinctIds(w.committed \o w.pending)
      BY <2>3, <2>6, <3>1 DEF KeysDistinct
    <3>3. w.committed \in Seq(Block) /\ w.pending \in Seq(Block)
      BY <1>1, <2>5 DEF ApplyTo, ViewRecord, UpdateRecord
    <3>4. PICK bs \in Seq(Block) : bs = w.committed
      BY <3>3
    <3>5. DistinctIds(bs \o <<>>) /\ bs \o <<>> = bs
      BY <3>2, <3>3, <3>4, PrefixIds
    <3>6. QED
      BY <3>4, <3>5
  <2>10. NoneInFences(w.committed)
    BY <2>5 DEF FencesDefineNothing, NoneInFences
  <2>11. PICK D : /\ IsDefined(D, view.committed)
                  /\ Fresh(adapter, view.committed, D, Len(view.committed),
                           Len(view.committed))
    BY DEF AdapterInv
  <2>12. \E E : /\ IsDefined(E, w.committed)
                /\ Fresh(ApplyUpdate(adapter, u, named), w.committed, E,
                         Len(w.committed), Len(w.committed))
    BY <1>1, <2>5, <2>7, <2>8, <2>9, <2>10, <2>11, FreshApply
  <2>13. adapter' = ApplyUpdate(adapter, u, named)
    BY <2>1, <2>2, <2>4
  <2>14. QED
    BY <2>5, <2>12, <2>13 DEF AdapterInv
<1>4. CASE NewReferences
  <2>1. view' = EmptyView /\ adapter' = NewAdapter
    BY <1>4 DEF NewReferences, NewDocument
  <2>2. view'.committed = <<>>
    BY <2>1 DEF EmptyView
  <2>3. PICK bs \in Seq(Block) : bs = view'.committed /\ Len(bs) = 0
    <3>1. <<>> \in Seq(Block) /\ Len(<<>>) = 0
      OBVIOUS
    <3>2. QED
      BY <2>2, <3>1
  <2>4. PICK D : IsDefined(D, bs)
    BY <2>3, DefinedExists
  <2>5. Fresh(NewAdapter, bs, D, Len(bs), Len(bs))
    BY <2>3, <2>4, FreshNew
  <2>6. QED
    BY <2>1, <2>3, <2>4, <2>5 DEF AdapterInv
<1>5. CASE ProduceReferences(Chunk, {"append", "append_ref"})
  <2>1. view' = view /\ adapter' = adapter
    <3>1. view' = view
      BY <1>5, ProducerSteps
    <3>2. QED
      BY <1>5, <3>1 DEF ProduceReferences
  <2>2. QED
    BY <1>2, <2>1
<1>6. CASE UNCHANGED referenceVars
  BY <1>2, <1>6 DEF referenceVars, syncVars
<1>7. QED
  BY <1>3, <1>4, <1>5, <1>6 DEF ReferenceNext, ReferenceNextOn

(***************************************************************************)
(* It is fresh at the start.                                               *)
(***************************************************************************)
LEMMA InitAdapter ==
  ASSUME ReferenceInit
  PROVE  AdapterInv
<1>1. view = EmptyView /\ adapter = NewAdapter
  BY DEF ReferenceInit, SyncInit
<1>2. PICK bs \in Seq(Block) : bs = view.committed /\ Len(bs) = 0
  <2>1. <<>> \in Seq(Block) /\ Len(<<>>) = 0
    OBVIOUS
  <2>2. view.committed = <<>>
    BY <1>1 DEF EmptyView
  <2>3. QED
    BY <2>1, <2>2
<1>3. PICK D : IsDefined(D, bs)
  BY <1>2, DefinedExists
<1>4. Fresh(NewAdapter, bs, D, Len(bs), Len(bs))
  BY <1>2, <1>3, FreshNew
<1>5. QED
  BY <1>1, <1>2, <1>3, <1>4 DEF AdapterInv

(***************************************************************************)
(* The adapter's parsed blocks are those of the view, each parsed with     *)
(* every definition of the view, before it or after it, however late the   *)
(* consumer is: for a caller that asks for invalidation, resets after a    *)
(* finalize, does not ask for a buffer limit together with a single block, *)
(* and has no definition inside fenced code.                               *)
(***************************************************************************)
THEOREM ParsedStaysFresh ==
  ASSUME Invalidates, ResetAfterFinalize, SingleBlock => MaxBufferBytes = {},
         StableFences
  PROVE  ReferenceSpec /\ []FencesDefineNothing => []ParsedIsFresh
<1> DEFINE Inv == /\ SyncInv /\ SingleUnknown /\ UpdatesInv /\ IInv
                  /\ SnapshotInv /\ ClosedIsFinal /\ KeysInv
                  /\ ModeInv /\ FenceInv /\ KindInv /\ ViewKinds
                  /\ IndexInv /\ NamedInv /\ AdapterInv
<1>1. ReferenceInit => Inv
  <2> SUFFICES ASSUME ReferenceInit
               PROVE  Inv
    OBVIOUS
  <2>1. SyncInit /\ Init
    BY DEF ReferenceInit, SyncInit
  <2>2. /\ SyncInv /\ SingleUnknown /\ UpdatesInv /\ IInv /\ SnapshotInv
        /\ ClosedIsFinal /\ KeysInv
    BY <2>1, InitSyncTyped, InitUpdates, InitKeys, InitKeeps
  <2>3. ModeInv /\ FenceInv
    BY <2>1, InitDisplay
  <2>4. KindInv /\ ViewKinds /\ IndexInv /\ NamedInv /\ AdapterInv
    BY InitKinds, InitReferences, InitAdapter
  <2>5. QED
    BY <2>2, <2>3, <2>4
<1>2. Inv /\ FencesDefineNothing' /\ [ReferenceNext]_referenceVars => Inv'
  <2> SUFFICES ASSUME Inv, FencesDefineNothing',
                      [ReferenceNext]_referenceVars
               PROVE  Inv'
    OBVIOUS
  <2>1. [SyncNext]_syncVars /\ [Next]_vars
    BY ReferenceIsSync, SyncIsStream
  <2>2. SyncInv' /\ TypeOK /\ TypeOK'
    BY <2>1, SyncTyped DEF SyncInv
  <2>3. SingleUnknown'
    BY <2>1, <2>2, SingleUnknownKept
  <2>4. UpdatesInv'
    BY <2>1, <2>2, <2>3, UpdatesKept
  <2>5. IInv' /\ SnapshotInv'
    BY <2>1, NextKeeps, SnapshotInvKept
  <2>6. ClosedIsFinal'
    BY <2>1, ClosedIsFinalKept
  <2>7. ShownDistinct'
    BY <2>5, <2>6, ShownIsDistinctNext
  <2>8. KeysInv'
    BY <2>1, <2>2, <2>4, <2>7, KeysKept
  <2>9. ModeInv' /\ FenceInv'
    BY <2>1, <2>5, ModeInvKept, FenceInvKept
  <2>10. KindInv'
    BY <2>1, <2>5, KindKept
  <2>11. ViewKinds'
    BY <2>2, <2>4, <2>10, KindsKept
  <2>12. IndexInv' /\ NamedInv'
    BY <2>2, <2>4, IndexKept, NamedKept
  <2>13. AdapterInv'
    BY AdapterKept
  <2>14. QED
    BY <2>2, <2>3, <2>4, <2>5, <2>6, <2>8, <2>9, <2>10, <2>11, <2>12, <2>13
<1>3. Inv => ParsedIsFresh
  <2> SUFFICES ASSUME SyncInv, AdapterInv
               PROVE  ParsedIsFresh
    OBVIOUS
  <2>1. PICK bs \in Seq(Block) : bs = view.committed
    BY DEF SyncInv, ViewRecord
  <2>2. PICK L \in Nat : L = Len(bs) /\ DOMAIN bs = 1..L
    BY <2>1
  <2>3. PICK D : IsDefined(D, bs) /\ Fresh(adapter, bs, D, L, L)
    BY <2>1, <2>2 DEF AdapterInv
  <2>4. DefinitionsIn(bs) = D[L]
    BY <2>2, <2>3, LastDefined
  <2>5. DOMAIN adapter.parsed = {bs[k].id : k \in DOMAIN bs}
    BY <2>2, <2>3 DEF Fresh, IdsTo
  <2>6. ASSUME NEW k \in DOMAIN bs
        PROVE  adapter.parsed[bs[k].id] = Parse(bs[k].raw, DefinitionsIn(bs))
    <3>1. k \in 1..L
      BY <2>2
    <3>2. PICK p \in k..L :
            L <= p /\ adapter.parsed[bs[k].id] = Parse(bs[k].raw, D[p])
      BY <2>3, <3>1 DEF Fresh, ParsedAt
    <3>3. p = L
      BY <2>2, <3>2
    <3>4. QED
      BY <2>4, <3>2, <3>3
  <2>7. QED
    BY <2>1, <2>5, <2>6 DEF ParsedIsFresh
<1>4. QED
  BY <1>1, <1>2, <1>3, PTL DEF ReferenceSpec

-----------------------------------------------------------------------------
(***************************************************************************)
(* AnalyzedStream.  Inserting twice is inserting what is inserted.         *)
(***************************************************************************)
LEMMA InsertInsert ==
  ASSUME NEW f, NEW g, NEW h
  PROVE  Insert(Insert(f, g), h) = Insert(f, Insert(g, h))
<1> DEFINE F == DOMAIN f
           G == DOMAIN g
           H == DOMAIN h
           value(x) == IF x \in H THEN h[x] ELSE IF x \in G THEN g[x] ELSE f[x]
<1>1. Insert(Insert(f, g), h) = [x \in (F \cup G) \cup H |-> value(x)]
  <2>1. DOMAIN Insert(f, g) = F \cup G
        /\ \A x \in F \cup G :
             Insert(f, g)[x] = IF x \in G THEN g[x] ELSE f[x]
    BY DEF Insert
  <2>2. Insert(Insert(f, g), h)
          = [x \in DOMAIN Insert(f, g) \cup H |->
               IF x \in H THEN h[x] ELSE Insert(f, g)[x]]
    BY DEF Insert
  <2>3. QED
    BY <2>1, <2>2
<1>2. Insert(f, Insert(g, h)) = [x \in F \cup (G \cup H) |-> value(x)]
  <2>1. DOMAIN Insert(g, h) = G \cup H
        /\ \A x \in G \cup H :
             Insert(g, h)[x] = IF x \in H THEN h[x] ELSE g[x]
    BY DEF Insert
  <2>2. Insert(f, Insert(g, h))
          = [x \in F \cup DOMAIN Insert(g, h) |->
               IF x \in DOMAIN Insert(g, h) THEN Insert(g, h)[x] ELSE f[x]]
    BY DEF Insert
  <2>3. QED
    BY <2>1, <2>2
<1>3. (F \cup G) \cup H = F \cup (G \cup H)
  OBVIOUS
<1>4. QED
  BY <1>1, <1>2, <1>3

(***************************************************************************)
(* One step of the recursion of Metas.                                     *)
(***************************************************************************)
MetaMap == Partial(Nat, {Meta(b) : b \in Block})

MetaEntry(b) == [i \in {b.id} |-> Meta(b)]

AddMeta(d, b) == IF ~HasMeta(b) THEN d ELSE Insert(d, MetaEntry(b))

(***************************************************************************)
(* It keeps the type.                                                      *)
(***************************************************************************)
LEMMA AddMetaTyped ==
  ASSUME NEW d \in MetaMap, NEW b \in Block
  PROVE  AddMeta(d, b) \in MetaMap
<1>1. b.id \in Nat /\ Meta(b) \in {Meta(c) : c \in Block}
  BY PartsOfBlock
<1>2. MetaEntry(b) \in MetaMap
  BY <1>1, EntryTyped DEF MetaEntry, MetaMap
<1>3. Insert(d, MetaEntry(b)) \in MetaMap
  BY <1>2, InsertTyped DEF MetaMap
<1>4. QED
  BY <1>3 DEF AddMeta

(***************************************************************************)
(* The recursion that Metas stands for.                                    *)
(***************************************************************************)
LEMMA MetasAre ==
  ASSUME NEW bs, bs \in Seq(Block)
  PROVE  \E f : /\ f \in [0..Len(bs) -> MetaMap]
                /\ f[0] = NoEntry
                /\ \A n \in 1..Len(bs) : f[n] = AddMeta(f[n - 1], bs[n])
                /\ Metas(bs) = f[Len(bs)]
<1> DEFINE L == Len(bs)
           V == MetaMap
           first == NoEntry
           step == [n \in 1..L |-> [v \in V |-> AddMeta(v, bs[n])]]
           g == CHOOSE g : g = [k \in 0..L |->
                  IF k = 0 THEN NoEntry
                  ELSE IF ~HasMeta(bs[k]) THEN g[k - 1]
                  ELSE Insert(g[k - 1], [i \in {bs[k].id} |-> Meta(bs[k])])]
<1>1. L \in Nat /\ first \in V /\ \A n \in 1..L : bs[n] \in Block
  BY NoEntryTyped DEF MetaMap
<1>2. step \in [1..L -> [V -> V]]
  BY <1>1, AddMetaTyped
<1>3. PICK f : /\ f \in [0..L -> V]
               /\ f[0] = first
               /\ \A n \in 1..L : f[n] = step[n][f[n - 1]]
  <2>1. L \in Nat /\ first \in V /\ step \in [1..L -> [V -> V]]
    BY <1>1, <1>2
  <2> HIDE DEF step, first, L, V
  <2>2. QED
    BY ONLY <2>1, RecursionExists
<1>4. ASSUME NEW n \in 1..L
      PROVE  f[n] = AddMeta(f[n - 1], bs[n])
  <2>1. n - 1 \in 0..L
    BY <1>1
  <2>2. f[n - 1] \in V
    BY <1>3, <2>1
  <2>3. QED
    BY <1>3, <2>2
<1>5. f = [k \in 0..L |->
             IF k = 0 THEN NoEntry
             ELSE IF ~HasMeta(bs[k]) THEN f[k - 1]
             ELSE Insert(f[k - 1], [i \in {bs[k].id} |-> Meta(bs[k])])]
  <2> HIDE DEF step, V
  <2>1. \A k \in 0..L : k # 0 => k \in 1..L
    BY <1>1
  <2>2. QED
    BY <1>3, <1>4, <2>1 DEF AddMeta, MetaEntry
<1>6. g = [k \in 0..L |->
             IF k = 0 THEN NoEntry
             ELSE IF ~HasMeta(bs[k]) THEN g[k - 1]
             ELSE Insert(g[k - 1], [i \in {bs[k].id} |-> Meta(bs[k])])]
  BY <1>5
<1>7. Metas(bs) = g[L]
  BY DEF Metas
<1> HIDE DEF g, step, V
<1>8. \A k \in 0..L : f[k] = g[k]
  <2>1. f[0] = g[0]
    BY <1>1, <1>3, <1>6
  <2>2. ASSUME NEW n \in 1..L, f[n - 1] = g[n - 1]
        PROVE  f[n] = g[n]
    <3>1. n \in 0..L /\ n # 0
      BY <1>1
    <3>2. QED
      BY <1>4, <1>6, <2>2, <3>1 DEF AddMeta, MetaEntry
  <2>3. L \in Nat
    BY <1>1
  <2> HIDE DEF L
  <2>4. QED
    BY ONLY <2>1, <2>2, <2>3, StepwiseEqual
<1>9. L \in 0..L
  BY <1>1
<1>10. Metas(bs) = f[L]
  BY <1>7, <1>8, <1>9
<1>11. QED
  BY <1>3, <1>4, <1>10 DEF V

(***************************************************************************)
(* Without blocks there is no metadata.                                    *)
(***************************************************************************)
LEMMA MetasOfNone == Metas(<<>>) = NoEntry
<1>1. PICK bs \in Seq(Block) : bs = <<>> /\ Len(bs) = 0
  <2>1. <<>> \in Seq(Block) /\ Len(<<>>) = 0
    OBVIOUS
  <2>2. QED
    BY <2>1
<1>2. Metas(bs) = NoEntry
  BY <1>1, MetasAre
<1>3. QED
  BY <1>1, <1>2

(***************************************************************************)
(* The metadata of the blocks of two updates is that of one with what is   *)
(* found in the other inserted.                                            *)
(***************************************************************************)
LEMMA MetasConcat ==
  ASSUME NEW s \in Seq(Block), NEW t \in Seq(Block)
  PROVE  Metas(s \o t) = Insert(Metas(s), Metas(t))
<1>1. PICK bs \in Seq(Block) : bs = s \o t
  <2>1. s \o t \in Seq(Block)
    OBVIOUS
  <2>2. QED
    BY <2>1, Zenon
<1>2. PICK m, l \in Nat : m = Len(s) /\ l = Len(t)
  OBVIOUS
<1>3. /\ Len(bs) = m + l
      /\ \A n \in 1..m : bs[n] = s[n]
      /\ \A n \in 1..l : bs[m + n] = t[n]
  BY <1>1, <1>2
<1>4. PICK f : /\ f \in [0..Len(bs) -> MetaMap]
               /\ f[0] = NoEntry
               /\ \A n \in 1..Len(bs) : f[n] = AddMeta(f[n - 1], bs[n])
               /\ Metas(bs) = f[Len(bs)]
  BY MetasAre
<1>5. PICK g : /\ g \in [0..Len(s) -> MetaMap]
               /\ g[0] = NoEntry
               /\ \A n \in 1..Len(s) : g[n] = AddMeta(g[n - 1], s[n])
               /\ Metas(s) = g[Len(s)]
  BY MetasAre
<1>6. PICK h : /\ h \in [0..Len(t) -> MetaMap]
               /\ h[0] = NoEntry
               /\ \A n \in 1..Len(t) : h[n] = AddMeta(h[n - 1], t[n])
               /\ Metas(t) = h[Len(t)]
  BY MetasAre
<1>7. f[m] = Metas(s) /\ Metas(s) \in MetaMap
  <2> DEFINE R == {n \in Nat : n <= m => f[n] = g[n]}
  <2>1. 0 \in R
    BY <1>4, <1>5
  <2>2. ASSUME NEW n \in Nat, n \in R
        PROVE  n + 1 \in R
    <3>1. SUFFICES ASSUME n + 1 <= m
                   PROVE  f[n + 1] = g[n + 1]
      OBVIOUS
    <3>2. /\ n + 1 \in 1..Len(bs) /\ n + 1 \in 1..Len(s) /\ n + 1 \in 1..m
          /\ (n + 1) - 1 = n
      BY <1>2, <1>3, <3>1
    <3>3. f[n] = g[n]
      BY <2>2, <3>1
    <3>4. QED
      BY <1>3, <1>4, <1>5, <3>2, <3>3
  <2> HIDE DEF R
  <2>3. m \in R
    BY <2>1, <2>2, NatInductive
  <2>4. f[m] = g[m]
    BY <2>3 DEF R
  <2>5. m \in 0..m
    OBVIOUS
  <2>6. QED
    BY <1>2, <1>5, <2>4, <2>5
<1> DEFINE M == Metas(s)
           S == {n \in Nat : n <= l => f[m + n] = Insert(M, h[n])}
<1>8. 0 \in S
  <2>1. DOMAIN NoEntry = {} /\ M \in Partial(Nat, {Meta(b) : b \in Block})
    BY <1>7 DEF NoEntry, MetaMap
  <2>2. Insert(M, NoEntry) = M
    BY <2>1, InsertNone
  <2>3. m + 0 = m
    OBVIOUS
  <2>4. QED
    BY <1>6, <1>7, <2>2, <2>3
<1>9. ASSUME NEW n \in Nat, n \in S
      PROVE  n + 1 \in S
  <2>1. SUFFICES ASSUME n + 1 <= l
                 PROVE  f[m + (n + 1)] = Insert(M, h[n + 1])
    OBVIOUS
  <2>2. f[m + n] = Insert(M, h[n])
    BY <1>9, <2>1
  <2>3. /\ m + (n + 1) \in 1..Len(bs) /\ (m + (n + 1)) - 1 = m + n
        /\ n + 1 \in 1..Len(t) /\ (n + 1) - 1 = n /\ n + 1 \in 1..l
    <3>1. m + (n + 1) \in 1..m + l /\ n + 1 \in 1..l
      BY <2>1
    <3>2. (m + (n + 1)) - 1 = m + n /\ (n + 1) - 1 = n
      OBVIOUS
    <3>3. QED
      BY <1>2, <1>3, <3>1, <3>2
  <2>4. PICK b : b = t[n + 1] /\ b = bs[m + (n + 1)]
    BY <1>3, <2>3
  <2>5. f[m + (n + 1)] = AddMeta(Insert(M, h[n]), b)
    BY <1>4, <2>2, <2>3, <2>4
  <2>6. h[n + 1] = AddMeta(h[n], b)
    BY <1>6, <2>3, <2>4
  <2>7. AddMeta(Insert(M, h[n]), b) = Insert(M, AddMeta(h[n], b))
    BY InsertInsert DEF AddMeta
  <2>8. QED
    BY <2>5, <2>6, <2>7
<1> HIDE DEF S
<1>10. l \in S
  BY <1>8, <1>9, NatInductive
<1>11. f[m + l] = Insert(M, h[l])
  BY <1>10 DEF S
<1>12. QED
  BY <1>1, <1>2, <1>3, <1>4, <1>6, <1>11

(***************************************************************************)
(* An AnalyzedStream is an MdStream of which only append and finalize are  *)
(* called, or one that is not wrapped.                                     *)
(***************************************************************************)
LEMMA AnalyzedSteps ==
  ASSUME [AnalyzedNext]_analyzedVars
  PROVE  [ReferenceNext]_referenceVars
<1>1. CASE ProduceAnalyzed(Chunk)
  <2>1. ProduceReferences(Chunk, {"append"})
    BY <1>1 DEF ProduceAnalyzed
  <2>2. ASSUME NEW shown, Leave(shown, {"append"})
        PROVE  Leave(shown, {"append", "append_ref"})
    BY <2>2 DEF Leave, Return
  <2>3. ProduceByAppend(Chunk, {"append"})
          => ProduceByAppend(Chunk, {"append", "append_ref"})
    BY <2>2 DEF ProduceByAppend, AppendFirst, AppendFurther
  <2>4. ProduceByEmptyAppend({"append"})
          => ProduceByEmptyAppend({"append", "append_ref"})
    BY DEF ProduceByEmptyAppend, Return
  <2>5. ProduceReferences(Chunk, {"append", "append_ref"})
    BY <2>1, <2>3, <2>4 DEF ProduceReferences
  <2>6. QED
    BY <2>5 DEF ReferenceNext, ReferenceNextOn
<1>2. CASE NewAnalyzed
  BY <1>2 DEF NewAnalyzed, ReferenceNext, ReferenceNextOn
<1>3. CASE /\ IF wrapped THEN ApplyReferences
              ELSE ReferenceNextOn(Chunk, {"append", "append_ref"})
  BY <1>3 DEF ReferenceNext, ReferenceNextOn
<1>4. CASE UNCHANGED analyzedVars
  BY <1>4 DEF analyzedVars
<1>5. QED
  BY <1>1, <1>2, <1>3, <1>4 DEF AnalyzedNext, AnalyzedNextOn

(***************************************************************************)
(* AnalyzedStream implements the stream with its consumer: what is proved  *)
(* of that holds of an application that analyzes.                          *)
(***************************************************************************)
THEOREM AnalyzedIsReference == AnalyzedSpec => ReferenceSpec
<1>1. AnalyzedInit => ReferenceInit
  BY DEF AnalyzedInit
<1>2. [AnalyzedNext]_analyzedVars => [ReferenceNext]_referenceVars
  BY AnalyzedSteps
<1>3. QED
  BY <1>1, <1>2, PTL DEF AnalyzedSpec, ReferenceSpec

(***************************************************************************)
(* The metadata is that of the blocks which the updates sent so far leave. *)
(***************************************************************************)
MetaOf(f) == committedMeta = Metas(f[Len(updates)].committed)

MetaInv == wrapped => \E f : IsAfter(f, view, updates) /\ MetaOf(f)

(***************************************************************************)
(* Every step keeps that.                                                  *)
(***************************************************************************)
LEMMA MetaKept ==
  ASSUME SyncInv, SyncInv', MetaInv, [AnalyzedNext]_analyzedVars
  PROVE  MetaInv'
<1> SUFFICES ASSUME wrapped'
             PROVE  \E g : /\ IsAfter(g, view', updates')
                           /\ committedMeta' = Metas(g[Len(updates')].committed)
  BY DEF MetaInv, MetaOf
<1>1. wrapped
  BY DEF AnalyzedNext, AnalyzedNextOn, analyzedVars
<1>2. PICK f : IsAfter(f, view, updates) /\ MetaOf(f)
  BY <1>1 DEF MetaInv
<1>3. /\ updates \in Seq(UpdateRecord) /\ Len(updates) \in Nat
      /\ view \in ViewRecord /\ TypeOK'
  BY DEF SyncInv
<1>4. CASE /\ view' = view /\ updates' = updates
           /\ committedMeta' = committedMeta
  BY <1>2, <1>4 DEF MetaOf
<1>5. CASE ProduceAnalyzed(Chunk)
  <2>1. /\ view' = view
        /\ \/ /\ pc' = "idle"
              /\ \E u : /\ u = Update(FALSE)' \/ u = Update(TRUE)'
                        /\ updates' = Append(updates, u)
           \/ pc' # "idle" /\ updates' = updates
    <3>1. ProduceReferences(Chunk, {"append"})
      BY <1>5 DEF ProduceAnalyzed
    <3>2. QED
      BY <3>1, ProducerSteps
  <2>2. CASE pc' # "idle" /\ updates' = updates
    <3>1. committedMeta' = committedMeta
      BY <1>5, <2>2 DEF ProduceAnalyzed
    <3>2. QED
      BY <1>4, <2>1, <2>2, <3>1
  <2>3. CASE /\ pc' = "idle"
             /\ \E u : /\ u = Update(FALSE)' \/ u = Update(TRUE)'
                       /\ updates' = Append(updates, u)
    <3>1. PICK u \in UpdateRecord : updates' = Append(updates, u)
      BY <1>3, <2>3, UpdateIsTypedNext DEF UpdateTyped
    <3>2. PICK N \in Nat : N = Len(updates)
      BY <1>3
    <3>3. Len(updates') = N + 1 /\ updates'[N + 1] = u
      BY <1>3, <3>1, <3>2, AppendTyped
    <3>4. committedMeta'
            = Insert(IF u.reset THEN NoEntry ELSE committedMeta,
                     Metas(u.committed))
      BY <1>5, <2>3, <3>3 DEF ProduceAnalyzed, AnalyzeUpdate
    <3>5. PICK g : /\ IsAfter(g, view, Append(updates, u))
                   /\ g[Len(updates) + 1] = ApplyTo(f[Len(updates)], u)
      BY <1>2, <1>3, AfterAppend
    <3>6. PICK v : v = f[N]
      OBVIOUS
    <3>7. v.committed \in Seq(Block) /\ u.committed \in Seq(Block)
      <4>1. N <= Len(updates)
        BY <3>2
      <4>2. f[N].committed \in Seq(Block)
        BY <1>2, <1>3, <4>1, AfterTyped
      <4>3. QED
        BY <3>6, <4>2 DEF UpdateRecord
    <3>8. committedMeta = Metas(v.committed)
      BY <1>2, <3>2, <3>6 DEF MetaOf
    <3>9. g[N + 1].committed = IF u.reset THEN u.committed
                               ELSE v.committed \o u.committed
      BY <3>2, <3>5, <3>6 DEF ApplyTo
    <3>10. committedMeta' = Metas(g[N + 1].committed)
      <4>1. CASE u.reset
        <5>1. Insert(Metas(<<>>), Metas(u.committed))
                = Metas(<<>> \o u.committed)
          <6>1. <<>> \in Seq(Block)
            OBVIOUS
          <6>2. QED
            BY <3>7, <6>1, MetasConcat
        <5>2. <<>> \o u.committed = u.committed
          BY <3>7
        <5>3. QED
          BY <3>4, <3>9, <4>1, <5>1, <5>2, MetasOfNone
      <4>2. CASE ~u.reset
        BY <3>4, <3>7, <3>8, <3>9, <4>2, MetasConcat
      <4>3. QED
        BY <4>1, <4>2
    <3>11. IsAfter(g, view', updates')
      BY <2>1, <3>1, <3>5
    <3>12. QED
      BY <3>3, <3>10, <3>11
  <2>4. QED
    BY <2>1, <2>2, <2>3
<1>6. CASE NewAnalyzed
  <2>1. updates' = <<>> /\ view' = EmptyView /\ committedMeta' = NoEntry
    BY <1>6 DEF NewAnalyzed, NewReferences, NewDocument
  <2>2. PICK g : IsAfter(g, view', updates') /\ g[Len(updates')] = EmptyView
    BY <2>1, AfterNone
  <2>3. Metas(g[Len(updates')].committed) = NoEntry
    BY <2>2, MetasOfNone DEF EmptyView
  <2>4. QED
    BY <2>1, <2>2, <2>3
<1>7. CASE /\ ApplyReferences
           /\ UNCHANGED <<committedMeta, pendingMeta>>
  <2>1. /\ updates # <<>> /\ view' = ApplyTo(view, Head(updates))
        /\ updates' = Tail(updates)
    BY <1>7 DEF ApplyReferences, Apply
  <2>2. PICK g : /\ IsAfter(g, view', updates')
                 /\ g[Len(updates) - 1] = f[Len(updates)]
    BY <1>2, <1>3, <2>1, AfterApply
  <2>3. Len(updates') = Len(updates) - 1
    BY <1>3, <2>1, TailTyped
  <2>4. QED
    BY <1>2, <1>7, <2>2, <2>3 DEF MetaOf
<1>8. CASE UNCHANGED analyzedVars
  BY <1>4, <1>8 DEF analyzedVars, referenceVars, syncVars
<1>9. QED
  BY <1>1, <1>5, <1>6, <1>7, <1>8 DEF AnalyzedNext, AnalyzedNextOn

(***************************************************************************)
(* Between calls the metadata is that of the committed blocks, for every   *)
(* caller and every analyzer that looks at one block at a time, also after *)
(* a switch to a single block has begun to use the ids again.              *)
(***************************************************************************)
THEOREM MetaStaysOfCommitted == AnalyzedSpec => []MetaOfCommitted
<1> DEFINE Inv == SyncInv /\ SingleUnknown /\ UpdatesInv /\ MetaInv
<1>1. AnalyzedInit => Inv
  <2> SUFFICES ASSUME AnalyzedInit
               PROVE  Inv
    OBVIOUS
  <2>1. ReferenceInit /\ SyncInit /\ committedMeta = NoEntry
    BY DEF AnalyzedInit, ReferenceInit
  <2>2. SyncInv /\ SingleUnknown /\ UpdatesInv
    BY <2>1, InitSyncTyped, InitUpdates
  <2>3. updates = <<>> /\ view = EmptyView
    BY <2>1 DEF SyncInit
  <2>4. PICK f : IsAfter(f, view, updates) /\ f[Len(updates)] = EmptyView
    BY <2>3, AfterNone
  <2>5. MetaOf(f)
    BY <2>1, <2>4, MetasOfNone DEF MetaOf, EmptyView
  <2>6. QED
    BY <2>2, <2>4, <2>5 DEF MetaInv
<1>2. Inv /\ [AnalyzedNext]_analyzedVars => Inv'
  <2> SUFFICES ASSUME Inv, [AnalyzedNext]_analyzedVars
               PROVE  Inv'
    OBVIOUS
  <2>1. [SyncNext]_syncVars
    BY AnalyzedSteps, ReferenceIsSync
  <2>2. SyncInv' /\ TypeOK
    BY <2>1, SyncTyped DEF SyncInv
  <2>3. SingleUnknown'
    BY <2>1, <2>2, SingleUnknownKept
  <2>4. UpdatesInv'
    BY <2>1, <2>2, <2>3, UpdatesKept
  <2>5. MetaInv'
    BY <2>2, MetaKept
  <2>6. QED
    BY <2>2, <2>3, <2>4, <2>5
<1>3. Inv => MetaOfCommitted
  <2> SUFFICES ASSUME SyncInv, UpdatesInv, MetaInv, wrapped, pc = "idle"
               PROVE  committedMeta = Metas(cur.committed)
    BY DEF MetaOfCommitted
  <2>1. PICK f : IsAfter(f, view, updates) /\ MetaOf(f)
    BY DEF MetaInv
  <2>2. PICK g : /\ IsAfter(g, view, updates)
                 /\ g[Len(updates)].committed = cur.committed
    BY DEF UpdatesInv, InStep
  <2>3. Len(updates) \in Nat
    BY DEF SyncInv
  <2>4. f[Len(updates)] = g[Len(updates)]
    BY <2>1, <2>2, <2>3, AfterUnique
  <2>5. QED
    BY <2>1, <2>2, <2>4 DEF MetaOf
<1>4. QED
  BY <1>1, <1>2, <1>3, PTL DEF AnalyzedSpec

-----------------------------------------------------------------------------
(***************************************************************************)
(* When no call is running every complete line has been scanned, except    *)
(* those of a blank block that finalize has kept.                          *)
(***************************************************************************)
RestBlank(ls, c) == AllBlank(LinesOf(ls, c.start, Len(ls) - 1))

ScannedOrBlank(ls, c, n) == n = Len(ls) - 1 \/ RestBlank(ls, c)

IdleInv == Split /\ pc = "idle" => ScannedOrBlank(lines, cur, processed)

(***************************************************************************)
(* maybe_compact_buffer leaves the count of unscanned lines as it is.      *)
(***************************************************************************)
LEMMA ScannedRebased ==
  ASSUME NEW ls, Len(ls) \in Nat, NEW c, c.start \in Nat,
         NEW n, n = Len(ls) - 1, Rebased(ls, c, n)
  PROVE  processed' = Len(lines') - 1
BY DEF Rebased

(***************************************************************************)
(* Every step keeps IdleInv.                                               *)
(***************************************************************************)
LEMMA IdleInvKept ==
  ASSUME ResetAfterFinalize, IInv, IdleInv, [Next]_vars
  PROVE  IdleInv'
<1>1. SUFFICES ASSUME Split', pc' = "idle"
               PROVE  ScannedOrBlank(lines, cur, processed)'
  BY DEF IdleInv
<1>2. CASE Starts
  <2>1. Len(lines') = 1 /\ processed' = 0
    BY <1>2 DEF Starts
  <2>2. QED
    BY <2>1 DEF ScannedOrBlank
<1>3. ASSUME Split, Stays \/ Extends \/ Reads \/ Returns \/ KeepsBlanks
                    \/ CommitsNone
      PROVE  ScannedOrBlank(lines, cur, processed)'
  <2>0. /\ lines \in Seq(Text) /\ lines # <<>> /\ Len(lines) \in Nat
        /\ doc \in Seq(Text) /\ doc # <<>>
        /\ processed \in Nat /\ cur \in Cursor /\ cur.start \in Nat
        /\ Sound(lines, doc, cur, processed)
        /\ cur.start <= processed /\ processed < Len(lines)
    BY <1>3, SplitFacts
  <2>1. CASE Stays
    BY <1>1, <1>3, <2>1 DEF Stays, IdleInv, ScannedOrBlank, RestBlank
  <2>2. CASE Extends \/ Reads
    BY <1>1, <2>2 DEF Extends, Reads
  <2>3. CASE Returns
    <3> DEFINE c == TailBoundary(lines, cur)
    <3>1. processed = Len(lines) - 1 /\ Compact(lines, c, processed)
      BY <2>3 DEF Returns
    <3>2. Sound(lines, doc, c, processed)
      BY <2>0, <3>1, TailBoundarySound
    <3>3. c \in Cursor /\ c.start \in Nat
      BY <3>2 DEF Sound, Cursor
    <3> HIDE DEF c
    <3>4. Rebased(lines, c, processed)
      BY <2>0, <3>1, <3>2, CompactRebased
    <3>5. processed' = Len(lines') - 1
      BY <2>0, <3>1, <3>3, <3>4, ScannedRebased
    <3>6. QED
      BY <3>5 DEF ScannedOrBlank
  <2> DEFINE ls == FinalLines(lines)
             c == SettleMode(ls, cur)
  <2>4. /\ ls \in Seq(Text) /\ ls # <<>> /\ processed < Len(ls)
        /\ Sound(ls, FinalLines(doc), cur, processed)
    BY <2>0, FinalLinesFacts, FinalSound
  <2>5. Len(ls) \in Nat /\ cur.start < Len(ls)
    <3>1. Len(ls) \in Nat
      BY <2>4
    <3>2. QED
      BY <2>0, <2>4, <3>1
  <2>6. c \in Cursor /\ c.start = cur.start
    BY <2>0, <2>4, <2>5, SettleFields
  <2>7. PendingOf(ls, c) # <<>>
          => PendingOf(ls, c)[1].raw = LinesOf(ls, c.start, Len(ls) - 1)
    <3>1. ~SingleMode
      BY <1>3 DEF Split
    <3>2. QED
      BY <3>1 DEF PendingOf, BlockAt
  <2>8. CASE KeepsBlanks
    <3>1. lines' = ls /\ cur' = c /\ processed' = processed
          /\ RestIsBlank(ls, c)
      BY <2>8 DEF KeepsBlanks
    <3> HIDE DEF c, ls
    <3>2. RestBlank(ls, c)
      BY <2>7, <3>1 DEF RestIsBlank, RestBlank
    <3>3. QED
      BY <3>1, <3>2 DEF ScannedOrBlank
  <2>9. CASE CommitsNone
    <3>1. Compact(ls, c, processed) /\ PendingOf(ls, c) = <<>>
      BY <2>9 DEF CommitsNone
    <3>2. FinalLines(doc) \in Seq(Text)
      BY <2>0, FinalLinesFacts
    <3>3. Sound(ls, FinalLines(doc), c, processed)
      BY <2>0, <2>4, <3>2, SettleModeSound
    <3> HIDE DEF c, ls
    <3>4. Rebased(ls, c, processed)
      BY <2>0, <2>4, <3>1, <3>2, <3>3, CompactRebased
    <3>5. LinesOf(ls, c.start, Len(ls) - 1) = <<EmptyText>>
      <4>1. ~SingleMode
        BY <1>3 DEF Split
      <4>2. ~(c.start >= Len(ls))
        BY <2>0, <2>5, <2>6
      <4>3. QED
        BY <3>1, <4>1, <4>2 DEF PendingOf
    <3>6. Len(LinesOf(ls, c.start, Len(ls) - 1)) = Len(ls) - c.start
      <4>1. Len(ls) - 1 \in Nat /\ Len(ls) - 1 < Len(ls)
            /\ c.start <= Len(ls) - 1
        BY <2>0, <2>5, <2>6
      <4>2. Len(LinesOf(ls, c.start, Len(ls) - 1)) = Len(ls) - 1 + 1 - c.start
        BY <2>4, <2>6, <4>1, CommitShape
      <4>3. QED
        BY <2>0, <2>5, <2>6, <4>2
    <3>7. processed = Len(ls) - 1
      <4>1. Len(ls) - c.start = 1
        BY <3>5, <3>6
      <4>2. QED
        BY <2>0, <2>4, <2>5, <2>6, <4>1
    <3>8. processed' = Len(lines') - 1
      BY <2>0, <2>5, <2>6, <3>4, <3>7, ScannedRebased
    <3>9. QED
      BY <3>8 DEF ScannedOrBlank
  <2>10. QED
    BY <1>3, <2>1, <2>2, <2>3, <2>8, <2>9
<1>4. QED
  BY <1>1, <1>2, <1>3, SplitSteps

-----------------------------------------------------------------------------
(***************************************************************************)
(* The payloads of one scanner, and how they end a block.                  *)
(***************************************************************************)
LEMMA MathPayload ==
  ASSUME ScannersAgree, NEW odd \in BOOLEAN, NEW t \in Text
  PROVE  LET p == [scanner |-> "math", odd |-> odd]
         IN  /\ p \in Inner
             /\ p \in Shut <=> ~odd
             /\ Scan[<<p, t>>]
                  = [scanner |-> "math",
                     odd |-> odd # (CountDollars(Found[t]) % 2 = 1)]
<1> DEFINE p == [scanner |-> "math", odd |-> odd]
<1>1. p \in Inner /\ p.scanner = "math" /\ p.odd = odd
  BY DEF ScannersAgree
<1>2. p # Closed
  BY <1>1 DEF Closed
<1>3. p \in Shut <=> ~odd
  BY <1>1, <1>2 DEF ScannersAgree, EndsBlock
<1>4. Scan[<<p, t>>] = UpdateMath(p, Found[t])
  BY <1>1 DEF ScannersAgree, UpdateScanner
<1>5. UpdateMath(p, Found[t])
        = [scanner |-> "math",
           odd |-> odd # (CountDollars(Found[t]) % 2 = 1)]
  BY DEF UpdateMath
<1>6. QED
  BY <1>1, <1>3, <1>4, <1>5

(***************************************************************************)
(* The count of the dollar pairs of a line is a number.                    *)
(***************************************************************************)
LEMMA DollarsCounted ==
  ASSUME NEW t \in Text
  PROVE  CountDollars(Found[t]) \in Nat
<1>1. IsFiniteSet(DOMAIN Found[t])
  BY FoundAssumption
<1>2. {k \in DOMAIN Found[t] : Found[t][k].is = "$$"} \subseteq DOMAIN Found[t]
  OBVIOUS
<1>3. IsFiniteSet({k \in DOMAIN Found[t] : Found[t][k].is = "$$"})
  BY <1>1, <1>2, FS_Subset
<1>4. QED
  BY <1>3, FS_CardinalityType DEF CountDollars

(***************************************************************************)
(* What a formula has read of its first lines is the parity of the dollars *)
(* that MathAnalyzer counts in them.                                       *)
(***************************************************************************)
LEMMA MathAgrees ==
  ASSUME ScannersAgree, NEW b, b.raw \in Seq(Text), b.raw # <<>>,
         b.kind = "MathBlock", StartMode(b.raw[1]) = "MathBlock"
  PROVE  CompletedAt(b, Len(b.raw)) <=> Balanced(b.raw)
<1> DEFINE raw == b.raw
           N == Len(raw)
           count == [k \in 1..N |-> CountDollars(Found[raw[k]])]
           step == [k \in 1..N |-> [v \in Nat |-> v + count[k]]]
<1>1. N \in Nat /\ 1 \in 1..N /\ N \in 1..N
  OBVIOUS
<1>2. \A k \in 1..N : raw[k] \in Text
  OBVIOUS
<1>3. \A k \in 1..N : count[k] = CountDollars(Found[raw[k]]) /\ count[k] \in Nat
  BY <1>2, DollarsCounted
<1> HIDE DEF count
<1>4. step \in [1..N -> [Nat -> Nat]]
  <2>1. ASSUME NEW k \in 1..N
        PROVE  [v \in Nat |-> v + count[k]] \in [Nat -> Nat]
    BY <1>3
  <2>2. QED
    BY <2>1
<1>5. PICK d : /\ d \in [0..N -> Nat]
               /\ d[0] = 0
               /\ \A n \in 1..N : d[n] = step[n][d[n - 1]]
  <2> DEFINE V == Nat
             first == 0
  <2>1. N \in Nat /\ first \in V /\ step \in [1..N -> [V -> V]]
    BY <1>1, <1>4
  <2> HIDE DEF step, N, V, first
  <2>2. \E d : /\ d \in [0..N -> V]
               /\ d[0] = first
               /\ \A n \in 1..N : d[n] = step[n][d[n - 1]]
    BY ONLY <2>1, RecursionExists
  <2>3. QED
    BY <2>2 DEF V, first
<1>6. \A n \in 1..N : d[n - 1] \in Nat /\ d[n] \in Nat
                    /\ d[n] = d[n - 1] + count[n]
  <2>1. \A n \in 1..N : n - 1 \in 0..N /\ n \in 0..N
    BY <1>1
  <2>2. QED
    BY <1>5, <2>1
<1> HIDE DEF step
<1>7. Balanced(raw) <=> d[N] % 2 = 0
  <2> DEFINE body(g) == [k \in 0..N |-> IF k = 0 THEN 0
                           ELSE g[k - 1] + CountDollars(Found[raw[k]])]
             IsRead(g) == g = body(g)
             g == CHOOSE g : IsRead(g)
  <2>1. ASSUME NEW k \in 0..N
        PROVE  d[k] = body(d)[k]
    <3>1. CASE k = 0
      BY <1>5, <3>1
    <3>2. CASE k # 0
      <4>1. k \in 1..N
        BY <1>1, <3>2
      <4>2. QED
        BY <1>3, <1>6, <3>2, <4>1
    <3>3. QED
      BY <3>1, <3>2
  <2>2. d = body(d)
    BY <1>5, <2>1
  <2>3. IsRead(g)
    BY <2>2
  <2>4. Balanced(raw) <=> g[N] % 2 = 0
    BY DEF Balanced
  <2> HIDE DEF g
  <2>5. g[0] = d[0]
    BY <1>1, <1>5, <2>3
  <2>6. ASSUME NEW n \in 1..N, g[n - 1] = d[n - 1]
        PROVE  g[n] = d[n]
    <3>1. n \in 0..N /\ n # 0
      BY <1>1
    <3>2. g[n] = g[n - 1] + CountDollars(Found[raw[n]])
      BY <2>3, <3>1
    <3>3. QED
      BY <1>3, <1>6, <2>6, <3>2
  <2>7. \A n \in 0..N : g[n] = d[n]
    <3> HIDE DEF N
    <3>1. QED
      BY ONLY <1>1, <2>5, <2>6, StepwiseEqual
  <2>8. QED
    BY <1>1, <2>4, <2>7
<1> DEFINE f == [n \in 0..N |-> [scanner |-> "math", odd |-> d[n] % 2 = 1]]
<1>8. Enter[raw[1]] = [scanner |-> "math", odd |-> FALSE]
  <2>1. ~Has(raw[1], "plugin") /\ ~Has(raw[1], "fence") /\ ~Has(raw[1], "html")
        /\ Has(raw[1], "math")
    BY DEF StartMode
  <2>2. raw[1] \in Text
    BY <1>1, <1>2
  <2>3. QED
    BY <2>1, <2>2 DEF ScannersAgree, EnterScanner
<1>9. ASSUME NEW j \in 1..N
      PROVE  f[j] = Scan[<<IF j = 1 THEN Enter[raw[1]] ELSE f[j - 1], raw[j]>>]
  <2> DEFINE odd == d[j - 1] % 2 = 1
  <2>1. (IF j = 1 THEN Enter[raw[1]] ELSE f[j - 1])
          = [scanner |-> "math", odd |-> odd]
    <3>1. CASE j = 1
      <4>1. odd = FALSE
        BY <1>5, <3>1
      <4>2. QED
        BY <1>8, <3>1, <4>1
    <3>2. CASE j # 1
      <4>1. j - 1 \in 0..N
        OBVIOUS
      <4>2. QED
        BY <3>2, <4>1
    <3>3. QED
      BY <3>1, <3>2
  <2>2. odd \in BOOLEAN /\ raw[j] \in Text
    BY <1>2
  <2>3. (d[j] % 2 = 1) <=> (odd # (count[j] % 2 = 1))
    <3>1. d[j - 1] \in Nat /\ count[j] \in Nat /\ d[j] = d[j - 1] + count[j]
      BY <1>3, <1>6
    <3>2. ASSUME NEW a \in Nat, NEW c \in Nat
          PROVE  ((a + c) % 2 = 1) <=> ((a % 2 = 1) # (c % 2 = 1))
      OBVIOUS
    <3>3. QED
      BY <3>1, <3>2
  <2>4. f[j] = [scanner |-> "math", odd |-> d[j] % 2 = 1]
    OBVIOUS
  <2> HIDE DEF odd, f
  <2>5. Scan[<<[scanner |-> "math", odd |-> odd], raw[j]>>]
          = [scanner |-> "math", odd |-> odd # (count[j] % 2 = 1)]
    BY <1>3, <2>2, MathPayload
  <2>6. QED
    BY <2>1, <2>3, <2>4, <2>5
<1>10. PayloadAt(b)[N] = f[N]
  <2>1. IsPayload(f, raw, 0, N)
    <3>1. 0 + 1 = 1 /\ \A j \in 1..N : 0 + j = j
      OBVIOUS
    <3> HIDE DEF f, N
    <3>2. QED
      BY <1>9, <3>1 DEF IsPayload
  <2> HIDE DEF f
  <2>2. QED
    BY <1>1, <2>1, PayloadIs
<1>11. f[N] \in Shut <=> ~(d[N] % 2 = 1)
  <2>1. f[N] = [scanner |-> "math", odd |-> d[N] % 2 = 1]
    OBVIOUS
  <2>2. (d[N] % 2 = 1) \in BOOLEAN /\ raw[N] \in Text
    BY <1>1, <1>2
  <2> HIDE DEF f
  <2>3. QED
    BY <2>1, <2>2, MathPayload
<1>12. CompletedAt(b, N) <=> f[N] \in Shut
  BY <1>10 DEF CompletedAt
<1>13. d[N] \in Nat
  BY <1>1, <1>6
<1>14. QED
  BY <1>7, <1>11, <1>12, <1>13

(***************************************************************************)
(* A fence has one header, and CodeFenceAnalyzer and the splitter take the *)
(* same lines for its end.                                                 *)
(***************************************************************************)
LEMMA FenceAgrees ==
  ASSUME ScannersAgree, NEW raw, raw \in Seq(Text), raw # <<>>,
         StartMode(raw[1]) = "CodeFence"
  PROVE  \E h : /\ Header(raw) = {h}
                /\ \A t \in Text : Scan[<<Enter[raw[1]], t>>] \in Shut
                                    <=> FenceEnd(Found[t], h.char, h.length)
<1> DEFINE line == Found[raw[1]]
           ch == CHOOSE c \in FenceStart(line) : TRUE
           length == RunLength(line, ch)
           p == [scanner |-> "code", char |-> ch, length |-> length]
           h == [char |-> ch, length |-> length, info |-> Tail(line)]
<1>1. raw[1] \in Text
  OBVIOUS
<1>2. ~Has(raw[1], "plugin") /\ Has(raw[1], "fence")
  BY DEF StartMode
<1>3. Matching(line) = {} /\ FenceStart(line) # {}
  BY <1>1, <1>2 DEF ScannersAgree
<1>4. Enter[raw[1]] = p
  BY <1>1, <1>3 DEF ScannersAgree, EnterScanner, EnterFence
<1>5. FenceStart(line) = {ch}
  <2>1. ch \in FenceStart(line)
    BY <1>3
  <2>2. ASSUME NEW c \in FenceStart(line), NEW e \in FenceStart(line)
        PROVE  c = e
    <3>1. RunLength(line, c) >= 3 /\ RunLength(line, e) >= 3
      BY DEF FenceStart
    <3>2. ~(0 >= 3)
      OBVIOUS
    <3>3. line[1].char = c /\ line[1].char = e
      BY <3>1, <3>2 DEF RunLength
    <3>4. QED
      BY <3>3
  <2>3. QED
    BY <2>1, <2>2
<1> HIDE DEF ch
<1>6. Header(raw) = {h}
  BY <1>5 DEF Header
<1>7. p \in Inner /\ p.scanner = "code" /\ p.char = ch /\ p.length = length
  BY <1>1, <1>4, InnerAssumption
<1>8. p \notin Shut
  <2>1. p # Closed
    BY <1>7 DEF Closed
  <2>2. ~EndsBlock(p)
    BY <1>7, <2>1 DEF EndsBlock
  <2>3. QED
    BY <2>2 DEF ScannersAgree
<1>9. ASSUME NEW t \in Text
      PROVE  Scan[<<p, t>>] \in Shut <=> FenceEnd(Found[t], h.char, h.length)
  <2>1. Scan[<<p, t>>] = IF FenceEnd(Found[t], ch, length) THEN Closed ELSE p
    BY <1>7 DEF ScannersAgree, UpdateScanner
  <2>2. Scan[<<p, t>>] \in Inner
    BY <1>7, InnerAssumption
  <2>3. Scan[<<p, t>>] = Closed => Scan[<<p, t>>] \in Shut
    BY <2>2 DEF ScannersAgree, EndsBlock
  <2>4. QED
    BY <1>8, <2>1, <2>3
<1>10. QED
  BY <1>4, <1>6, <1>9

-----------------------------------------------------------------------------
(***************************************************************************)
(* What the analyzer says of a pending block, and that between calls it is *)
(* about the block that the last call has returned.                        *)
(***************************************************************************)
Analysis(pending) == {[meta |-> Meta(b), hints |-> Hints(b)] : b \in Range(pending)}

PendingMetaInv ==
  wrapped /\ pc = "idle" =>
    \/ pendingMeta = Analysis(ReturnedPending(FALSE))
    \/ pendingMeta = Analysis(ReturnedPending(TRUE))

(***************************************************************************)
(* The pending block of an update is the one that is returned.             *)
(***************************************************************************)
UpdatePending ==
  /\ Update(FALSE).pending = ReturnedPending(FALSE)
  /\ Update(TRUE).pending = ReturnedPending(TRUE)

(***************************************************************************)
(* It is so after a step.                                                  *)
(***************************************************************************)
LEMMA UpdatePendingNext == UpdatePending'
<1>1. UpdatePending
  BY DEF UpdatePending, Update
<1>2. QED
  BY <1>1, PTL

(***************************************************************************)
(* Of no block there is nothing to say.                                    *)
(***************************************************************************)
LEMMA NothingAnalyzed == Analysis(<<>>) = {}
BY DEF Analysis, Range

(***************************************************************************)
(* Every step keeps PendingMetaInv.                                        *)
(***************************************************************************)
LEMMA PendingMetaKept ==
  ASSUME SyncInv, PendingMetaInv, [AnalyzedNext]_analyzedVars
  PROVE  PendingMetaInv'
<1> SUFFICES ASSUME wrapped', pc' = "idle"
             PROVE  \/ pendingMeta' = Analysis(ReturnedPending(FALSE)')
                    \/ pendingMeta' = Analysis(ReturnedPending(TRUE)')
  BY DEF PendingMetaInv, Analysis, Meta, FenceMeta, MathMeta, TagMeta, Hints,
     Header, Balanced, LastNonEmpty, FenceIsClosed
<1>1. wrapped
  BY DEF AnalyzedNext, AnalyzedNextOn, analyzedVars
<1>2. CASE UNCHANGED <<vars, pendingMeta>>
  <2>1. /\ lines' = lines /\ cur' = cur /\ detected' = detected
        /\ report' = report /\ pc = "idle" /\ pendingMeta' = pendingMeta
    BY <1>2 DEF vars
  <2>2. PendingOf(lines, cur)' = PendingOf(lines, cur)
    BY <2>1 DEF PendingOf, SingleMode
  <2>3. /\ ReturnedPending(FALSE)' = ReturnedPending(FALSE)
        /\ ReturnedPending(TRUE)' = ReturnedPending(TRUE)
    BY <2>1, <2>2 DEF ReturnedPending
  <2>4. QED
    BY <1>1, <2>1, <2>3 DEF PendingMetaInv
<1>3. CASE ProduceAnalyzed(Chunk)
  <2>1. PICK u : /\ u = Update(FALSE)' \/ u = Update(TRUE)'
                 /\ updates' = Append(updates, u)
    <3>1. ProduceReferences(Chunk, {"append"})
      BY <1>3 DEF ProduceAnalyzed
    <3>2. QED
      BY <3>1, ProducerSteps
  <2>2. updates'[Len(updates')] = u
    BY <2>1 DEF SyncInv
  <2>3. pendingMeta' = Analysis(u.pending)
    BY <1>3, <2>2 DEF ProduceAnalyzed, AnalyzeUpdate, Analysis
  <2>4. \/ u.pending = ReturnedPending(FALSE)'
        \/ u.pending = ReturnedPending(TRUE)'
    BY <2>1, UpdatePendingNext DEF UpdatePending
  <2>5. QED
    BY <2>3, <2>4
<1>4. CASE NewAnalyzed
  <2>1. Reset /\ pendingMeta' = {}
    BY <1>4 DEF NewAnalyzed, NewReferences, NewDocument
  <2>2. lines' = <<EmptyText>> /\ cur'.start = 0 /\ ~report'.final
    BY <2>1 DEF Reset, FreshCursor
  <2>3. PendingOf(lines, cur)' = <<>>
    BY <2>2, FreshPendingNext
  <2>4. ReturnedPending(FALSE)' = <<>>
    BY <2>2, <2>3 DEF ReturnedPending
  <2>5. QED
    BY <2>1, <2>4, NothingAnalyzed
<1>5. QED
  BY <1>1, <1>2, <1>3, <1>4 DEF AnalyzedNext, AnalyzedNextOn, analyzedVars,
     referenceVars, syncVars, ApplyReferences, Apply

-----------------------------------------------------------------------------
(***************************************************************************)
(* The lines with text.                                                    *)
(***************************************************************************)
Filled == {t \in Text : ~Blank(t)}

(***************************************************************************)
(* The hints for a pending block all of whose complete lines are scanned:  *)
(* none of them has completed it.                                          *)
(***************************************************************************)
LEMMA FenceHintRight ==
  ASSUME ScannersAgree, NEW b, b.raw \in Seq(Text), b.kind = "CodeFence",
         StartMode(b.raw[1]) = "CodeFence",
         NEW filled, filled = {k \in 2..Len(b.raw) : ~Blank(b.raw[k])},
         filled # {},
         \A k \in 2..Len(b.raw) - 1 : ~CompletedAt(b, k)
  PROVE  ~FenceIsClosed(b.raw) <=> \A k \in filled : ~CompletedAt(b, k)
<1> DEFINE raw == b.raw
<1>1. Len(raw) \in Nat /\ raw # <<>>
  BY DEF AllBlank
<1>2. PICK h : /\ Header(raw) = {h}
               /\ \A t \in Text : Scan[<<Enter[raw[1]], t>>] \in Shut
                                   <=> FenceEnd(Found[t], h.char, h.length)
  BY <1>1, FenceAgrees
<1>3. ASSUME NEW k \in 2..Len(raw)
      PROVE  CompletedAt(b, k) <=> FenceEnd(Found[raw[k]], h.char, h.length)
  <2>1. raw[k] \in Text /\ k > 1
    OBVIOUS
  <2>2. QED
    BY <1>2, <2>1 DEF CompletedAt
<1>4. FenceIsClosed(raw) <=> \E k \in LastNonEmpty(raw) :
                               FenceEnd(Found[raw[k]], h.char, h.length)
  BY <1>2 DEF FenceIsClosed
<1>5. ASSUME NEW k \in LastNonEmpty(raw)
      PROVE  k \in filled
  <2>1. PICK n \in filled : TRUE
    OBVIOUS
  <2>2. /\ k \in 1..Len(raw) /\ ~Blank(raw[k])
        /\ n <= k /\ n \in 2..Len(raw)
    BY <2>1 DEF LastNonEmpty
  <2>3. QED
    BY <2>2
<1>6. ASSUME NEW k \in filled, CompletedAt(b, k)
      PROVE  k \in LastNonEmpty(raw)
  <2>1. k \in 2..Len(raw) /\ ~Blank(raw[k]) /\ ~(k \in 2..Len(raw) - 1)
    BY <1>6
  <2>2. k = Len(raw)
    BY <1>1, <2>1
  <2>3. QED
    BY <1>1, <2>1, <2>2 DEF LastNonEmpty
<1>7. \A k \in filled : k \in 2..Len(raw)
  OBVIOUS
<1>8. QED
  BY <1>3, <1>4, <1>5, <1>6, <1>7

(***************************************************************************)
(* The block has the rest of the lines.                                    *)
(***************************************************************************)
HasRest(b) ==
  /\ b.kind = KindForMode(PendingMode(lines, cur))
  /\ b.raw = LinesOf(lines, cur.start, Len(lines) - 1)
  /\ b.raw \in Seq(Text) /\ b.raw # <<>>
  /\ Len(b.raw) = Len(lines) - cur.start
  /\ \A j \in 1..Len(b.raw) : b.raw[j] = lines[cur.start + j]

(***************************************************************************)
(* The pending block of a document that is split into blocks has them.     *)
(***************************************************************************)
LEMMA PendingHasRest ==
  ASSUME IInv, Split, NEW b, PendingOf(lines, cur) = <<b>>
  PROVE  HasRest(b)
<1>1. ~SingleMode /\ <<b>> # <<>>
  BY DEF Split
<1>2. PendingOf(lines, cur)
        = <<BlockAt([cur EXCEPT !.mode = PendingMode(lines, cur)],
                    LinesOf(lines, cur.start, Len(lines) - 1))>>
  BY <1>1 DEF PendingOf
<1>3. b = BlockAt([cur EXCEPT !.mode = PendingMode(lines, cur)],
                  LinesOf(lines, cur.start, Len(lines) - 1))
  BY <1>2
<1>4. /\ b.raw = LinesOf(lines, cur.start, Len(lines) - 1)
      /\ b.kind = KindForMode(PendingMode(lines, cur))
  BY <1>3 DEF BlockAt, IInv, TypeOK, Cursor
<1>5. /\ lines \in Seq(Text) /\ Len(lines) \in Nat /\ cur \in Cursor
      /\ cur.start \in Nat /\ cur.start < Len(lines)
  BY SplitFacts
<1>6. /\ Len(lines) - 1 \in Nat /\ Len(lines) - 1 < Len(lines)
      /\ cur.start <= Len(lines) - 1
  BY <1>5
<1>7. /\ b.raw \in Seq(Text) /\ Len(b.raw) = Len(lines) - 1 + 1 - cur.start
      /\ \A j \in 1..Len(b.raw) : b.raw[j] = lines[cur.start + j]
  BY <1>4, <1>5, <1>6, CommitShape
<1>8. Len(b.raw) = Len(lines) - cur.start /\ b.raw # <<>>
  BY <1>5, <1>7
<1>9. QED
  BY <1>4, <1>7, <1>8 DEF HasRest

(***************************************************************************)
(* What HintsRight says of a pending block, for the hints that its text    *)
(* gets under a kind.                                                      *)
(***************************************************************************)
HintsAgree(b, kind) ==
  LET filled == {k \in 2..Len(b.raw) : ~Blank(b.raw[k])}
      hints == Hints([b EXCEPT !.kind = kind])
  IN  /\ b.kind = "CodeFence" /\ filled # {} =>
           ("UNCLOSED_CODE_FENCE" \in hints
              <=> \A k \in filled : ~CompletedAt(b, k))
      /\ "UNBALANCED_MATH" \in hints
           <=> b.kind = "MathBlock" /\ ~CompletedAt(b, Len(b.raw))

(***************************************************************************)
(* The hints that a block gets under a kind.                               *)
(***************************************************************************)
LEMMA HintsOf ==
  ASSUME NEW b, b \in Block, NEW kind \in Mode
  PROVE  LET e == [b EXCEPT !.kind = kind]
         IN  /\ "UNCLOSED_CODE_FENCE" \in Hints(e)
                  <=> kind = "CodeFence" /\ ~FenceIsClosed(b.raw)
             /\ "UNBALANCED_MATH" \in Hints(e)
                  <=> kind = "MathBlock" /\ ~Balanced(b.raw)
<1> DEFINE e == [b EXCEPT !.kind = kind]
<1>1. e.kind = kind /\ e.raw = b.raw
  BY DEF Block
<1> HIDE DEF e
<1>2. /\ "UNCLOSED_CODE_FENCE" \in Hints(e)
           <=> kind = "CodeFence" /\ ~FenceIsClosed(b.raw)
      /\ "UNBALANCED_MATH" \in Hints(e)
           <=> kind = "MathBlock" /\ ~Balanced(b.raw)
  BY <1>1 DEF Hints
<1>3. QED
  BY <1>2 DEF e

(***************************************************************************)
(* The hints for the pending block of a document that is split into        *)
(* blocks.  Of the kind that a fast update gives it, and of the one that   *)
(* current_pending_info does, either both are that of a fence or a formula *)
(* or none is.                                                             *)
(***************************************************************************)
LEMMA SplitHints ==
  ASSUME ScannersAgree, PlainBlanks, IInv, Split, pc = "idle",
         ModeInv, IdleInv, EndsInv,
         BeginsIn(lines, cur, "MathBlock", Filled),
         NEW b, PendingOf(lines, cur) = <<b>>, Len(b.raw) > 1,
         NEW kind \in {b.kind, KindForMode(cur.mode)}
  PROVE  HintsAgree(b, kind)
<1> DEFINE raw == b.raw
           filled == {k \in 2..Len(raw) : ~Blank(raw[k])}
<1>0. PendingOf(lines, cur) # <<>>
  OBVIOUS
<1>1. /\ lines \in Seq(Text) /\ Len(lines) \in Nat /\ cur \in Cursor
      /\ cur.start \in Nat /\ cur.start < Len(lines) /\ processed \in Nat
      /\ cur.mode \in Mode
  BY SplitFacts, CursorFields
<1>2. /\ b.kind = KindForMode(PendingMode(lines, cur))
      /\ raw = LinesOf(lines, cur.start, Len(lines) - 1)
      /\ raw \in Seq(Text) /\ raw # <<>>
      /\ Len(raw) = Len(lines) - cur.start
      /\ \A j \in 1..Len(raw) : raw[j] = lines[cur.start + j]
  BY PendingHasRest DEF HasRest
<1>3. b \in Block /\ b.kind \in Mode /\ kind \in Mode
  <2>1. PICK e \in Block : PendingOf(lines, cur) = <<e>>
    BY <1>0, <1>1, PendingOne
  <2>2. b \in Block
    BY <2>1
  <2>3. KindForMode(cur.mode) \in Mode
    BY <1>1 DEF KindForMode, Mode
  <2>4. QED
    BY <2>2, <2>3 DEF Block
<1>4. /\ "UNCLOSED_CODE_FENCE" \in Hints([b EXCEPT !.kind = kind])
           <=> kind = "CodeFence" /\ ~FenceIsClosed(raw)
      /\ "UNBALANCED_MATH" \in Hints([b EXCEPT !.kind = kind])
           <=> kind = "MathBlock" /\ ~Balanced(raw)
  BY <1>3, HintsOf
<1>5. 1 \in 1..Len(raw) /\ raw[1] = lines[cur.start + 1] /\ raw[1] \in Text
  <2>1. 1 \in 1..Len(raw)
    BY <1>1, <1>2
  <2>2. QED
    BY <1>2, <2>1
<1> HIDE DEF filled
<1>6. SUFFICES /\ b.kind = "CodeFence" /\ filled # {} =>
                    (kind = "CodeFence" /\ ~FenceIsClosed(raw)
                       <=> \A k \in filled : ~CompletedAt(b, k))
               /\ kind = "MathBlock" /\ ~Balanced(raw)
                    <=> b.kind = "MathBlock" /\ ~CompletedAt(b, Len(raw))
  BY <1>4 DEF HintsAgree, filled
<1>7. CASE RestBlank(lines, cur)
  <2>1. \A k \in 1..Len(raw) : Blank(raw[k])
    BY <1>2, <1>7 DEF RestBlank, AllBlank
  <2>2. filled = {}
    BY <2>1 DEF filled
  <2>3. cur.mode # "MathBlock"
    BY <1>5, <2>1 DEF BeginsIn, Filled
  <2>4. StartMode(raw[1]) # "MathBlock"
    <3>1. Blank(raw[1])
      BY <1>5, <2>1
    <3>2. ~Has(raw[1], "math")
      BY <1>5, <3>1 DEF PlainBlanks, Starter, Has
    <3>3. QED
      BY <3>2 DEF StartMode
  <2>5. b.kind # "MathBlock" /\ KindForMode(cur.mode) # "MathBlock"
    BY <1>2, <1>5, <2>3, <2>4 DEF PendingMode, KindForMode
  <2>6. QED
    BY <2>2, <2>5
<1>8. CASE processed = Len(lines) - 1
  <2>1. cur.start < processed
    BY <1>1, <1>2, <1>8
  <2>2. FirstMode(lines, cur) /\ StillOpen(lines, cur, processed)
    BY <2>1 DEF ModeInv, EndsInv, ReadRight
  <2>3. b.kind = KindForMode(cur.mode) /\ kind = b.kind
    BY <1>2, <2>2, FirstModeKnown DEF PendingMode
  <2>4. /\ b.kind = "CodeFence" => StartMode(raw[1]) = "CodeFence"
        /\ b.kind = "MathBlock" => StartMode(raw[1]) = "MathBlock"
        /\ b.kind = "CodeFence" => cur.mode = "CodeFence"
    BY <1>5, <2>2, <2>3 DEF FirstMode, KindForMode
  <2>5. b.kind = "MathBlock" => (CompletedAt(b, Len(raw)) <=> Balanced(raw))
    BY <1>2, <2>4, MathAgrees
  <2>6. ASSUME b.kind = "CodeFence", filled # {}
        PROVE  ~FenceIsClosed(raw) <=> \A k \in filled : ~CompletedAt(b, k)
    <3>1. ASSUME NEW k \in 2..Len(raw) - 1
          PROVE  ~CompletedAt(b, k)
      <4>1. /\ cur.start + k \in cur.start + 2 .. processed
            /\ k \in 1..Len(raw)
        BY <1>1, <1>2, <1>8
      <4>2. Scan[<<Enter[raw[1]], lines[cur.start + k]>>] \notin Shut
        BY <1>5, <2>2, <2>4, <2>6, <4>1 DEF StillOpen, FenceOpen
      <4>3. raw[k] = lines[cur.start + k]
        BY <1>2, <4>1
      <4>4. QED
        BY <2>6, <4>2, <4>3 DEF CompletedAt
    <3>2. QED
      BY <1>2, <2>4, <2>6, <3>1, FenceHintRight DEF filled
  <2>7. QED
    BY <2>3, <2>5, <2>6
<1>9. QED
  BY <1>7, <1>8 DEF IdleInv, ScannedOrBlank

(***************************************************************************)
(* What a sequence of one element holds.                                   *)
(***************************************************************************)
LEMMA RangeOfOne ==
  ASSUME NEW s, NEW x, DOMAIN s = {1}, s[1] = x
  PROVE  Range(s) = {x}
<1>1. \A y : y \in Range(s) <=> y = x
  BY DEF Range
<1>2. QED
  BY <1>1

(***************************************************************************)
(* The block that the last call has returned, whatever its kind says.      *)
(***************************************************************************)
LEMMA ReturnedBlock ==
  ASSUME NEW b, b \in Block, PendingOf(lines, cur) = <<b>>, ~report.final,
         NEW fast \in BOOLEAN
  PROVE  \E kind \in {b.kind, KindForMode(cur.mode)} :
           Range(ReturnedPending(fast)) = {[b EXCEPT !.kind = kind]}
<1>1. [b EXCEPT !.kind = b.kind] = b
  BY DEF Block
<1>2. Range(ReturnedPending(FALSE)) = {[b EXCEPT !.kind = b.kind]}
  <2>1. ReturnedPending(FALSE) = <<b>>
    BY DEF ReturnedPending
  <2>2. DOMAIN <<b>> = {1} /\ (<<b>>)[1] = b
    OBVIOUS
  <2>3. Range(<<b>>) = {b}
    BY <2>2, RangeOfOne
  <2>4. QED
    BY <1>1, <2>1, <2>3
<1>3. Range(ReturnedPending(TRUE)) = {[b EXCEPT !.kind = KindForMode(cur.mode)]}
  <2> DEFINE p == <<b>>
             f == [k \in DOMAIN p |-> [p[k] EXCEPT !.kind = KindForMode(cur.mode)]]
  <2>1. ReturnedPending(TRUE) = f
    BY DEF ReturnedPending
  <2>2. DOMAIN p = {1} /\ p[1] = b
    OBVIOUS
  <2> HIDE DEF p
  <2>3. DOMAIN f = {1} /\ f[1] = [b EXCEPT !.kind = KindForMode(cur.mode)]
    BY <2>2
  <2> HIDE DEF f
  <2>4. QED
    BY <2>1, <2>3, RangeOfOne
<1>4. QED
  BY <1>2, <1>3

(***************************************************************************)
(* The pending block of a single block is of no kind.                      *)
(***************************************************************************)
LEMMA SingleHints ==
  ASSUME SingleMode, SingleUnknown, NEW b, b \in Block,
         PendingOf(lines, cur) = <<b>>,
         NEW kind \in {b.kind, KindForMode(cur.mode)}
  PROVE  HintsAgree(b, kind)
<1>1. b.kind = "Unknown"
  <2>1. PendingOf(lines, cur) # <<>>
    OBVIOUS
  <2>2. <<b>> = <<[id |-> 1, kind |-> "Unknown", from |-> cur.base,
                   raw |-> lines]>>
    BY <2>1 DEF PendingOf
  <2>3. QED
    BY <2>2
<1>2. kind \notin {"CodeFence", "MathBlock"} /\ kind \in Mode
  BY <1>1 DEF SingleUnknown, KindForMode, Mode
<1>3. "UNBALANCED_MATH" \notin Hints([b EXCEPT !.kind = kind])
  BY <1>2, HintsOf
<1>4. QED
  BY <1>1, <1>3 DEF HintsAgree

(***************************************************************************)
(* The invariants give HintsRight.                                         *)
(***************************************************************************)
LEMMA HintsFollow ==
  ASSUME ScannersAgree, PlainBlanks, IInv, SingleUnknown, ModeInv, EndsInv,
         IdleInv, ClosedIsFinal, PendingMetaInv,
         Split => BeginsIn(lines, cur, "MathBlock", Filled)
  PROVE  HintsRight
<1>1. SUFFICES ASSUME NEW b \in Range(StreamPending), wrapped, pc = "idle",
                      Len(b.raw) > 1
               PROVE  \E kind : /\ HintsAgree(b, kind)
                                /\ \E found \in pendingMeta :
                                     found.hints = Hints([b EXCEPT !.kind = kind])
  BY DEF HintsRight, HintsAgree
<1>2. ~report.final /\ PendingOf(lines, cur) # <<>>
  BY <1>1 DEF StreamPending, Range
<1>3. PICK e \in Block : PendingOf(lines, cur) = <<e>>
  BY <1>2, PendingOne DEF IInv, TypeOK
<1>4. b = e
  BY <1>1, <1>2, <1>3 DEF StreamPending, Range
<1>5. b \in Block /\ PendingOf(lines, cur) = <<b>>
  BY <1>3, <1>4
<1>6. PICK kind \in {b.kind, KindForMode(cur.mode)} :
             \E s : Range(s) = {[b EXCEPT !.kind = kind]}
                    /\ pendingMeta = Analysis(s)
  BY <1>1, <1>2, <1>5, ReturnedBlock DEF PendingMetaInv
<1>7. \E found \in pendingMeta : found.hints = Hints([b EXCEPT !.kind = kind])
  <2> DEFINE r == [b EXCEPT !.kind = kind]
  <2> HIDE DEF r
  <2>1. PICK s : Range(s) = {r} /\ pendingMeta = Analysis(s)
    BY <1>6 DEF r
  <2>2. [meta |-> Meta(r), hints |-> Hints(r)] \in Analysis(s)
    BY <2>1 DEF Analysis
  <2>4. \E found \in pendingMeta : found.hints = Hints(r)
    BY <2>1, <2>2
  <2>5. QED
    BY <2>4 DEF r
<1>8. HintsAgree(b, kind)
  <2>1. CASE SingleMode
    BY <1>5, <2>1, SingleHints
  <2>2. CASE ~SingleMode
    <3>1. Split
      BY <1>2, <2>2 DEF Split, ClosedIsFinal
    <3>2. QED
      BY <1>1, <1>5, <3>1, SplitHints
  <2>3. QED
    BY <2>1, <2>2
<1>9. QED
  BY <1>7, <1>8

(***************************************************************************)
(* AnalyzedStream.HintsRight holds in every behaviour, for every fence,    *)
(* formula and line in between: BlockHintAnalyzer, which sees the text of  *)
(* the pending block and nothing of the splitter, calls a fence unclosed   *)
(* or a formula unbalanced exactly as long as the splitter has not seen    *)
(* the end of it, at every return of append and finalize.                  *)
(***************************************************************************)
THEOREM HintsStayRight ==
  ASSUME ResetAfterFinalize, SingleBlock => MaxBufferBytes = {},
         PlainBlanks, FilledStaysFilled, ScannersAgree
  PROVE  AnalyzedSpec => []HintsRight
<1> DEFINE Begins == Split => BeginsIn(lines, cur, "MathBlock", Filled)
           Inv == /\ SyncInv /\ SingleUnknown /\ IInv /\ ModeInv /\ EndsInv
                  /\ IdleInv /\ ClosedIsFinal /\ PendingMetaInv /\ Begins
<1>1. AnalyzedInit => Inv
  <2> SUFFICES ASSUME AnalyzedInit
               PROVE  Inv
    OBVIOUS
  <2>1. SyncInit /\ Init /\ pendingMeta = {}
    BY DEF AnalyzedInit, ReferenceInit, SyncInit
  <2>2. SyncInv /\ SingleUnknown /\ IInv /\ ModeInv /\ ClosedIsFinal
    BY <2>1, InitSyncTyped, InitUpdates, InitKeys, InitKeeps, InitDisplay
  <2>3. /\ FreshCursor(0).start = 0 /\ FreshCursor(0).committed = <<>>
        /\ FreshCursor(0).mode = "Unknown"
    BY FreshShape DEF FreshCursor
  <2>4. EndsInv
    BY <2>1, <2>3 DEF Init, EndsInv, ReadRight, Ending
  <2>5. lines = <<EmptyText>> /\ processed = 0 /\ cur.start = 0
        /\ cur.mode = "Unknown"
    BY <2>1, <2>3 DEF Init
  <2>6. IdleInv /\ Begins
    BY <2>5 DEF IdleInv, ScannedOrBlank, BeginsIn
  <2>7. PendingMetaInv
    <3>1. ReturnedPending(FALSE) = <<>>
      BY <2>5, FreshPending DEF ReturnedPending
    <3>2. QED
      BY <2>1, <3>1, NothingAnalyzed DEF PendingMetaInv
  <2>8. QED
    BY <2>2, <2>4, <2>6, <2>7
<1>2. Inv /\ [AnalyzedNext]_analyzedVars => Inv'
  <2> SUFFICES ASSUME Inv, [AnalyzedNext]_analyzedVars
               PROVE  Inv'
    OBVIOUS
  <2>1. [SyncNext]_syncVars /\ [Next]_vars
    BY AnalyzedSteps, ReferenceIsSync, SyncIsStream
  <2>2. SyncInv' /\ TypeOK
    BY <2>1, SyncTyped DEF SyncInv
  <2>3. SingleUnknown' /\ ClosedIsFinal'
    BY <2>1, <2>2, SingleUnknownKept, ClosedIsFinalKept
  <2>4. IInv' /\ ModeInv'
    BY <2>1, NextKeeps, ModeInvKept
  <2>5. EndsInv'
    BY <2>1, SplitEnds, ClosedEnds DEF EndsInv
  <2>6. IdleInv' /\ PendingMetaInv'
    BY <2>1, IdleInvKept, PendingMetaKept
  <2>7. Begins'
    <3>1. \A t \in Text : StartMode(t) = "MathBlock" => t \in Filled
      BY DEF StartMode, Has, Filled, PlainBlanks, Starter
    <3>2. \A pair \in Grows : pair[1] \in Filled => pair[2] \in Filled
      BY TextAssumption DEF Filled, FilledStaysFilled
    <3>3. Split' => BeginsIn(lines, cur, "MathBlock", Filled)'
      BY <2>1, <3>1, <3>2, BeginsKept
    <3>4. QED
      BY <3>3
  <2>8. QED
    BY <2>2, <2>3, <2>4, <2>5, <2>6, <2>7
<1>3. Inv => HintsRight
  BY HintsFollow
<1>4. QED
  BY <1>1, <1>2, <1>3, PTL DEF AnalyzedSpec
=============================================================================
