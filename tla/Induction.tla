----------------------------- MODULE Induction -----------------------------
(***************************************************************************)
(* Induction over the natural numbers as a statement about sets.  The      *)
(* theorems of NaturalsInduction take an operator as a parameter, which    *)
(* the provers cannot instantiate; a set they can.  The lemmas rest on the *)
(* well-foundedness of strict inclusion between finite sets.               *)
(***************************************************************************)
EXTENDS Integers, FiniteSets, FiniteSetTheorems, TLAPS

(***************************************************************************)
(* Every non-empty set of natural numbers has a least element.             *)
(***************************************************************************)
LEMMA LeastExists ==
  ASSUME NEW S, S \subseteq Nat, S # {}
  PROVE  \E m \in S : \A n \in S : m <= n
<1>1. PICK N \in S : TRUE
  OBVIOUS
<1> DEFINE Below(n) == 0..(n - 1)
           T == {Below(n) : n \in {k \in S : k <= N}}
           R == StrictSubsetOrdering(0..N)
           F == FiniteSubsetsOf(0..N)
<1>2. IsWellFoundedOn(R, F)
  BY FS_StrictSubsetOrderingWellFounded
<1>3. T \subseteq F
  <2>1. \A n \in Nat : IsFiniteSet(Below(n))
    BY FS_Interval
  <2>2. QED
    BY <1>1, <2>1 DEF FiniteSubsetsOf
<1>4. T # {}
  BY <1>1
<1>5. PICK x \in T : \A y \in T : <<y, x>> \notin R
  <2> HIDE DEF T, R, F
  <2>1. QED
    BY <1>2, <1>3, <1>4, WFMin
<1>6. PICK m \in S : m <= N /\ x = Below(m)
  OBVIOUS
<1>7. ASSUME NEW n \in S, n < m
      PROVE  FALSE
  <2>1. Below(n) \in T
    BY <1>1, <1>6, <1>7
  <2>2. Below(n) \subseteq Below(m) /\ Below(n) # Below(m)
    <3>1. n \in Below(m) /\ n \notin Below(n)
      BY <1>7
    <3>2. QED
      BY <1>7, <3>1
  <2>3. Below(n) \subseteq 0..N /\ Below(m) \subseteq 0..N
    BY <1>1, <1>6, <1>7
  <2>4. QED
    BY <1>5, <1>6, <2>1, <2>2, <2>3 DEF StrictSubsetOrdering
<1>8. QED
  BY <1>7

(***************************************************************************)
(* A set with 0 in it, and with n + 1 for every n in it, has all of Nat.   *)
(***************************************************************************)
LEMMA NatInductive ==
  ASSUME NEW S, 0 \in S, \A n \in Nat : n \in S => n + 1 \in S
  PROVE  \A n \in Nat : n \in S
<1> DEFINE T == {n \in Nat : n \notin S}
<1>1. SUFFICES ASSUME T # {}
               PROVE  FALSE
  OBVIOUS
<1>2. PICK m \in T : \A n \in T : m <= n
  BY <1>1, LeastExists
<1>3. m # 0 /\ m \in Nat
  BY <1>2
<1>4. m - 1 \in Nat /\ m - 1 \notin T
  BY <1>2, <1>3
<1>5. (m - 1) + 1 \in S
  BY <1>4
<1>6. QED
  BY <1>2, <1>3, <1>5

(***************************************************************************)
(* Two functions that agree at 0, and at n whenever they agree at n - 1,   *)
(* agree.                                                                  *)
(***************************************************************************)
LEMMA StepwiseEqual ==
  ASSUME NEW N \in Nat, NEW f, NEW g, f[0] = g[0],
         \A n \in 1..N : f[n - 1] = g[n - 1] => f[n] = g[n]
  PROVE  \A n \in 0..N : f[n] = g[n]
<1> DEFINE S == {n \in Nat : n <= N => f[n] = g[n]}
<1>1. 0 \in S
  OBVIOUS
<1>2. ASSUME NEW n \in Nat, n \in S
      PROVE  n + 1 \in S
  <2>1. CASE n + 1 <= N
    <3>1. n + 1 \in 1..N /\ (n + 1) - 1 = n /\ n <= N
      BY <2>1
    <3>2. QED
      BY <1>2, <3>1
  <2>2. CASE ~(n + 1 <= N)
    BY <2>2
  <2>3. QED
    BY <2>1, <2>2
<1> HIDE DEF S
<1>3. \A n \in Nat : n \in S
  BY <1>1, <1>2, NatInductive
<1>4. QED
  BY <1>3 DEF S

(***************************************************************************)
(* A recursion over the numbers up to L has a solution, with values in V   *)
(* if its start and its steps have.                                        *)
(***************************************************************************)
LEMMA RecursionExists ==
  ASSUME NEW V, NEW base \in V, NEW L \in Nat,
         NEW step \in [1..L -> [V -> V]]
  PROVE  \E f :
           /\ f \in [0..L -> V]
           /\ f[0] = base
           /\ \A n \in 1..L : f[n] = step[n][f[n - 1]]
<1> DEFINE Solves(f, N) ==
             f[0] = base /\ \A n \in 1..N : f[n] = step[n][f[n - 1]]
           S == {N \in Nat : N <= L => \E f \in [0..N -> V] : Solves(f, N)}
<1>1. 0 \in S
  <2> DEFINE f == [n \in 0..0 |-> base]
  <2>1. f \in [0..0 -> V] /\ f[0] = base /\ 1..0 = {}
    OBVIOUS
  <2>2. QED
    BY <2>1
<1>2. ASSUME NEW N \in Nat, N \in S
      PROVE  N + 1 \in S
  <2>1. SUFFICES ASSUME N + 1 <= L
                 PROVE  \E g \in [0..N + 1 -> V] : Solves(g, N + 1)
    OBVIOUS
  <2>2. PICK f \in [0..N -> V] : Solves(f, N)
    BY <1>2, <2>1
  <2> DEFINE last == step[N + 1][f[N]]
             g == [n \in 0..N + 1 |-> IF n <= N THEN f[n] ELSE last]
  <2>3. last \in V
    BY <2>1, <2>2
  <2>4. g \in [0..N + 1 -> V]
    BY <2>2, <2>3
  <2>5. \A n \in 0..N : g[n] = f[n]
    OBVIOUS
  <2>6. g[N + 1] = last
    OBVIOUS
  <2> HIDE DEF g
  <2>7. ASSUME NEW n \in 1..N + 1
        PROVE  g[n] = step[n][g[n - 1]]
    <3>1. CASE n \in 1..N
      <4>1. n \in 0..N /\ n - 1 \in 0..N
        BY <3>1
      <4>2. QED
        BY <2>2, <2>5, <3>1, <4>1
    <3>2. CASE n = N + 1
      <4>1. n - 1 = N /\ N \in 0..N
        BY <3>2
      <4>2. QED
        BY <2>5, <2>6, <3>2, <4>1
    <3>3. QED
      BY <3>1, <3>2
  <2>8. g[0] = base
    BY <2>2, <2>5
  <2>9. QED
    BY <2>4, <2>7, <2>8
<1> HIDE DEF S
<1>3. \A n \in Nat : n \in S
  BY <1>1, <1>2, NatInductive
<1>4. QED
  BY <1>3 DEF S
=============================================================================
