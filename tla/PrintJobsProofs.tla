-------------------------- MODULE PrintJobsProofs --------------------------
(***************************************************************************)
(* Proofs about PrintJobs, for any filaments, spools, jobs and clients.    *)
(*                                                                         *)
(* What a usage list, a ledger or a sum comes to is proved by induction    *)
(* over the sequence, in the form of sets of numbers that have 0 and the   *)
(* successor of each member (AllNaturals).                                 *)
(***************************************************************************)
EXTENDS PrintJobs, TLAPS, FiniteSetTheorems, WellFoundedInduction

-----------------------------------------------------------------------------
(* Induction, and functions defined by it.                                 *)

LEMMA AllNaturals ==
    ASSUME NEW T, T \subseteq Nat, 0 \in T, \A n \in T : n + 1 \in T
    PROVE  T = Nat
<1> DEFINE R == OpToRel(<, Nat)
<1> DEFINE U == Nat \ T
<1> SUFFICES ASSUME U # {} PROVE FALSE
  OBVIOUS
<1>1. \E x \in U : \A y \in U : ~(<<y, x>> \in R)
  <2>1. IsWellFoundedOn(R, Nat)
    BY NatLessThanWellFounded
  <2>2. U \subseteq Nat
    OBVIOUS
  <2> HIDE DEF R, U
  <2> QED
    BY <2>1, <2>2, WFMin
<1>2. PICK x \in U : \A y \in U : ~(<<y, x>> \in R)
  BY <1>1
<1>3. x \in Nat /\ x # 0
  OBVIOUS
<1>4. x - 1 \in Nat /\ (x - 1) + 1 = x
  BY <1>3
<1>5. <<x - 1, x>> \in R
  BY <1>3, <1>4 DEF OpToRel
<1>6. x - 1 \notin U
  BY <1>2, <1>5
<1> QED
  BY <1>3, <1>4, <1>6

\* A function that is given by its first value and its steps exists.
Exists(V, first, step, N) ==
    \E g \in [0..N -> V] : g[0] = first /\ \A n \in 1..N : g[n] = step[n][g[n - 1]]

LEMMA Recursion ==
    ASSUME NEW V, NEW first \in V, NEW step \in [Nat -> [V -> V]], NEW N \in Nat
    PROVE  Exists(V, first, step, N)
<1> DEFINE Upto(m, g) == g[0] = first /\ \A n \in 1..m : g[n] = step[n][g[n - 1]]
<1> DEFINE T == {m \in Nat : \E g \in [0..m -> V] : Upto(m, g)}
<1>1. 0 \in T
  <2> DEFINE g == [n \in 0..0 |-> first]
  <2>1. g \in [0..0 -> V] /\ Upto(0, g)
    OBVIOUS
  <2> QED
    BY <2>1
<1>2. ASSUME NEW m \in T PROVE m + 1 \in T
  <2>1. PICK g \in [0..m -> V] : Upto(m, g)
    OBVIOUS
  <2> DEFINE h == [n \in 0..(m + 1) |-> IF n = m + 1 THEN step[m + 1][g[m]] ELSE g[n]]
  <2>2. m \in Nat /\ m \in 0..m /\ m + 1 \in Nat
    OBVIOUS
  <2>3. h \in [0..(m + 1) -> V]
    BY <2>2
  <2>4. ASSUME NEW n \in 1..(m + 1)
        PROVE  h[n] = step[n][h[n - 1]]
    <3>1. CASE n = m + 1
      <4>1. h[n] = step[m + 1][g[m]] /\ h[n - 1] = g[m]
        BY <3>1, <2>2
      <4> QED
        BY <4>1, <3>1, <2>2
    <3>2. CASE n \in 1..m
      <4>1. h[n] = g[n] /\ h[n - 1] = g[n - 1]
        BY <3>2, <2>2
      <4> QED
        BY <4>1, <3>2, <2>1
    <3> QED
      BY <3>1, <3>2, <2>2
  <2>5. h[0] = first
    BY <2>1, <2>2
  <2>6. Upto(m + 1, h)
    BY <2>4, <2>5
  <2> HIDE DEF h, Upto
  <2> QED
    BY <2>2, <2>3, <2>6
<1>3. T = Nat
  <2>1. T \subseteq Nat
    OBVIOUS
  <2> HIDE DEF T
  <2> QED
    BY <1>1, <1>2, <2>1, AllNaturals
<1> QED
  BY <1>3 DEF Exists

-----------------------------------------------------------------------------
(* Sums and subsequences.                                                  *)

Numbered(S) == \A x \in S : x.debited \in Nat

Sums(seq, I) ==
    CHOOSE sum : sum = [n \in 0..Len(seq) |->
        IF n = 0 THEN 0 ELSE sum[n - 1] + (IF n \in I THEN seq[n].debited ELSE 0)]
Kept(seq, I) ==
    CHOOSE kept : kept = [n \in 0..Len(seq) |->
        IF n = 0 THEN <<>> ELSE IF n \in I THEN Append(kept[n - 1], seq[n]) ELSE kept[n - 1]]

LEMMA TotalIsLast == \A seq, I : Total(seq, I) = Sums(seq, I)[Len(seq)]
  BY DEF Total, Sums
LEMMA OnlyIsLast == \A seq, I : Only(seq, I) = Kept(seq, I)[Len(seq)]
  BY DEF Only, Kept

LEMMA SumsUnfold ==
    ASSUME NEW S, NEW seq \in Seq(S), Numbered(S), NEW I
    PROVE  /\ Sums(seq, I) \in [0..Len(seq) -> Nat]
           /\ Sums(seq, I)[0] = 0
           /\ \A n \in 1..Len(seq) : Sums(seq, I)[n] =
                 Sums(seq, I)[n - 1] + (IF n \in I THEN seq[n].debited ELSE 0)
<1> DEFINE step == [n \in Nat |-> [v \in Nat |->
                      IF n \in I /\ n \in 1..Len(seq) THEN v + seq[n].debited ELSE v]]
<1> DEFINE Is(g) == g = [n \in 0..Len(seq) |->
                      IF n = 0 THEN 0 ELSE g[n - 1] + (IF n \in I THEN seq[n].debited ELSE 0)]
<1>1. Len(seq) \in Nat /\ \A n \in 1..Len(seq) : seq[n] \in S /\ seq[n].debited \in Nat
  BY DEF Numbered
<1>2. /\ step \in [Nat -> [Nat -> Nat]]
      /\ \A n \in 1..Len(seq), v \in Nat :
            step[n][v] = IF n \in I THEN v + seq[n].debited ELSE v
  BY <1>1
<1> HIDE DEF step
<1>3. \E g \in [0..Len(seq) -> Nat] :
         g[0] = 0 /\ \A n \in 1..Len(seq) : g[n] = step[n][g[n - 1]]
  <2>1. 0 \in Nat /\ Len(seq) \in Nat /\ step \in [Nat -> [Nat -> Nat]]
    BY <1>1, <1>2
  <2>2. Exists(Nat, 0, step, Len(seq))
    BY <2>1, Recursion
  <2> QED
    BY <2>2 DEF Exists
<1>4. PICK g \in [0..Len(seq) -> Nat] :
         g[0] = 0 /\ \A n \in 1..Len(seq) : g[n] = step[n][g[n - 1]]
  BY <1>3
<1>5. ASSUME NEW n \in 0..Len(seq), n # 0
      PROVE  step[n][g[n - 1]] = g[n - 1] + (IF n \in I THEN seq[n].debited ELSE 0)
  <2>1. n \in 1..Len(seq) /\ n - 1 \in 0..Len(seq) /\ n \in Nat
    BY <1>1, <1>5
  <2>2. g[n - 1] \in Nat /\ seq[n].debited \in Nat
    BY <2>1, <1>1
  <2>3. step[n][g[n - 1]] = IF n \in I THEN g[n - 1] + seq[n].debited ELSE g[n - 1]
    BY <2>1, <2>2, <1>2
  <2> QED
    BY <2>2, <2>3
<1>6. Is(g)
  <2>1. ASSUME NEW n \in 0..Len(seq)
        PROVE  g[n] = IF n = 0 THEN 0 ELSE g[n - 1] + (IF n \in I THEN seq[n].debited ELSE 0)
    <3>1. g[n] = IF n = 0 THEN 0 ELSE step[n][g[n - 1]]
      BY <1>4, <1>1
    <3> QED
      BY <3>1, <1>5
  <2> QED
    BY <2>1
<1>7. Is(Sums(seq, I))
  <2> QED
    BY <1>6 DEF Sums
<1>8. Sums(seq, I)[0] = 0 /\ \A n \in 1..Len(seq) : Sums(seq, I)[n] =
                 Sums(seq, I)[n - 1] + (IF n \in I THEN seq[n].debited ELSE 0)
  <2> DEFINE s == Sums(seq, I)
  <2> HIDE DEF s
  <2>1. Is(s) => s[0] = 0 /\ \A n \in 1..Len(seq) : s[n] =
                 s[n - 1] + (IF n \in I THEN seq[n].debited ELSE 0)
    BY <1>1
  <2> QED
    BY <2>1, <1>7 DEF s
<1>9. Sums(seq, I) \in [0..Len(seq) -> Nat]
  <2> DEFINE s == Sums(seq, I)
  <2> DEFINE T == {n \in Nat : n <= Len(seq) => s[n] \in Nat}
  <2> HIDE DEF s
  <2>1. 0 \in T
    BY <1>8 DEF s
  <2>2. ASSUME NEW n \in T PROVE n + 1 \in T
    <3>1. n + 1 <= Len(seq) => n + 1 \in 1..Len(seq) /\ s[n] \in Nat
      BY <1>1
    <3>2. n + 1 \in 1..Len(seq) => s[n + 1] = s[n] + (IF n + 1 \in I THEN seq[n + 1].debited ELSE 0)
      BY <1>8, <1>1 DEF s
    <3>3. n + 1 \in 1..Len(seq) => seq[n + 1].debited \in Nat
      BY <1>1
    <3> QED
      BY <3>1, <3>2, <3>3
  <2>3. T = Nat
    <3>1. T \subseteq Nat
      OBVIOUS
    <3> HIDE DEF T
    <3> QED
      BY <2>1, <2>2, <3>1, AllNaturals
  <2>4. \A n \in 0..Len(seq) : s[n] \in Nat
    BY <2>3, <1>1
  <2>5. s = [n \in 0..Len(seq) |-> IF n = 0 THEN 0 ELSE s[n - 1] + (IF n \in I THEN seq[n].debited ELSE 0)]
    BY <1>7 DEF s
  <2>6. s = [n \in 0..Len(seq) |-> s[n]]
    BY <2>5
  <2> QED
    BY <2>4, <2>6 DEF s
<1> QED
  BY <1>8, <1>9

LEMMA KeptUnfold ==
    ASSUME NEW S, NEW seq \in Seq(S), NEW I
    PROVE  /\ Kept(seq, I)[0] = <<>>
           /\ \A n \in 1..Len(seq) : Kept(seq, I)[n] =
                 IF n \in I THEN Append(Kept(seq, I)[n - 1], seq[n]) ELSE Kept(seq, I)[n - 1]
           /\ \A n \in 0..Len(seq) : Kept(seq, I)[n] \in Seq(S)
<1> DEFINE step == [n \in Nat |-> [v \in Seq(S) |->
                      IF n \in I /\ n \in 1..Len(seq) THEN Append(v, seq[n]) ELSE v]]
<1> DEFINE Is(g) == g = [n \in 0..Len(seq) |->
              IF n = 0 THEN <<>> ELSE IF n \in I THEN Append(g[n - 1], seq[n]) ELSE g[n - 1]]
<1>1. Len(seq) \in Nat /\ \A n \in 1..Len(seq) : seq[n] \in S
  OBVIOUS
<1>2. /\ step \in [Nat -> [Seq(S) -> Seq(S)]]
      /\ \A n \in 1..Len(seq), v \in Seq(S) :
            step[n][v] = IF n \in I THEN Append(v, seq[n]) ELSE v
  BY <1>1
<1> HIDE DEF step
<1>3. \E g \in [0..Len(seq) -> Seq(S)] :
         g[0] = <<>> /\ \A n \in 1..Len(seq) : g[n] = step[n][g[n - 1]]
  <2>1. <<>> \in Seq(S) /\ Len(seq) \in Nat /\ step \in [Nat -> [Seq(S) -> Seq(S)]]
    BY <1>1, <1>2
  <2>2. Exists(Seq(S), <<>>, step, Len(seq))
    BY <2>1, Recursion
  <2> QED
    BY <2>2 DEF Exists
<1>4. PICK g \in [0..Len(seq) -> Seq(S)] :
         g[0] = <<>> /\ \A n \in 1..Len(seq) : g[n] = step[n][g[n - 1]]
  BY <1>3
<1>5. ASSUME NEW n \in 0..Len(seq), n # 0
      PROVE  step[n][g[n - 1]] = IF n \in I THEN Append(g[n - 1], seq[n]) ELSE g[n - 1]
  <2>1. n \in 1..Len(seq) /\ n - 1 \in 0..Len(seq) /\ n \in Nat
    BY <1>1, <1>5
  <2>2. g[n - 1] \in Seq(S)
    BY <2>1
  <2> QED
    BY <2>1, <2>2, <1>2
<1>6. Is(g)
  <2>1. ASSUME NEW n \in 0..Len(seq)
        PROVE  g[n] = IF n = 0 THEN <<>> ELSE IF n \in I THEN Append(g[n - 1], seq[n]) ELSE g[n - 1]
    <3>1. g[n] = IF n = 0 THEN <<>> ELSE step[n][g[n - 1]]
      BY <1>4, <1>1
    <3> QED
      BY <3>1, <1>5
  <2> QED
    BY <2>1
<1>7. Is(Kept(seq, I))
  <2> QED
    BY <1>6 DEF Kept
<1>8. Kept(seq, I)[0] = <<>> /\ \A n \in 1..Len(seq) : Kept(seq, I)[n] =
           IF n \in I THEN Append(Kept(seq, I)[n - 1], seq[n]) ELSE Kept(seq, I)[n - 1]
  <2> DEFINE s == Kept(seq, I)
  <2> HIDE DEF s
  <2>1. ASSUME Is(s), NEW n \in 0..Len(seq)
        PROVE  s[n] = IF n = 0 THEN <<>>
                      ELSE IF n \in I THEN Append(s[n - 1], seq[n]) ELSE s[n - 1]
    BY <2>1
  <2>2. \A n \in 0..Len(seq) : s[n] = IF n = 0 THEN <<>>
                      ELSE IF n \in I THEN Append(s[n - 1], seq[n]) ELSE s[n - 1]
    BY <2>1, <1>7 DEF s
  <2>3. s[0] = <<>>
    BY <2>2, <1>1
  <2>4. ASSUME NEW n \in 1..Len(seq)
        PROVE  s[n] = IF n \in I THEN Append(s[n - 1], seq[n]) ELSE s[n - 1]
    <3>1. n \in 0..Len(seq) /\ n # 0
      BY <1>1
    <3> QED
      BY <2>2, <3>1
  <2> QED
    BY <2>3, <2>4 DEF s
<1>9. \A n \in 0..Len(seq) : Kept(seq, I)[n] \in Seq(S)
  <2> DEFINE s == Kept(seq, I)
  <2> DEFINE T == {n \in Nat : n <= Len(seq) => s[n] \in Seq(S)}
  <2> HIDE DEF s
  <2>0. s[0] = <<>> /\ <<>> \in Seq(S) /\ 0 \in Nat
    BY <1>8 DEF s
  <2>1. 0 \in T
    BY <2>0
  <2>2. ASSUME NEW n \in T PROVE n + 1 \in T
    <3>1. n + 1 <= Len(seq) => n + 1 \in 1..Len(seq) /\ s[n] \in Seq(S)
      BY <1>1
    <3>2. n + 1 \in 1..Len(seq) => s[n + 1] = IF n + 1 \in I THEN Append(s[n], seq[n + 1]) ELSE s[n]
      BY <1>8, <1>1 DEF s
    <3>3. n + 1 \in 1..Len(seq) => seq[n + 1] \in S
      BY <1>1
    <3>4. ASSUME n + 1 <= Len(seq) PROVE s[n + 1] \in Seq(S)
      <4>1. n + 1 \in 1..Len(seq) /\ s[n] \in Seq(S) /\ seq[n + 1] \in S
        BY <3>1, <3>3, <3>4
      <4>2. Append(s[n], seq[n + 1]) \in Seq(S)
        BY <4>1
      <4> QED
        BY <4>1, <4>2, <3>2
    <3> QED
      BY <3>4
  <2>3. T = Nat
    <3>1. T \subseteq Nat
      OBVIOUS
    <3> HIDE DEF T
    <3> QED
      BY <2>1, <2>2, <3>1, AllNaturals
  <2> QED
    BY <2>3, <1>1 DEF s
<1> QED
  BY <1>8, <1>9

LEMMA TotalType ==
    ASSUME NEW S, NEW seq \in Seq(S), Numbered(S), NEW I
    PROVE  Total(seq, I) \in Nat
<1>1. Sums(seq, I) \in [0..Len(seq) -> Nat] /\ Len(seq) \in 0..Len(seq)
  BY SumsUnfold
<1> QED
  BY <1>1, TotalIsLast

\* A sum depends on what is debited at its indices.
LEMMA SumsEqual ==
    ASSUME NEW S, NEW seq \in Seq(S), Numbered(S), NEW I,
           NEW R, NEW other \in Seq(R), Numbered(R), NEW J,
           NEW n \in Nat, n <= Len(seq), n <= Len(other),
           \A i \in 1..n : /\ i \in I <=> i \in J
                           /\ i \in I => seq[i].debited = other[i].debited
    PROVE  Sums(seq, I)[n] = Sums(other, J)[n]
<1> DEFINE a == Sums(seq, I)
<1> DEFINE b == Sums(other, J)
<1>1. /\ a[0] = 0 /\ b[0] = 0
      /\ \A m \in 1..Len(seq) : a[m] = a[m - 1] + (IF m \in I THEN seq[m].debited ELSE 0)
      /\ \A m \in 1..Len(other) : b[m] = b[m - 1] + (IF m \in J THEN other[m].debited ELSE 0)
  BY SumsUnfold
<1> HIDE DEF a, b
<1> DEFINE T == {m \in Nat : m <= n => a[m] = b[m]}
<1>2. 0 \in T
  BY <1>1
<1>3. ASSUME NEW m \in T PROVE m + 1 \in T
  <2>1. ASSUME m + 1 <= n PROVE a[m + 1] = b[m + 1]
    <3>1. /\ m + 1 \in 1..n /\ m + 1 \in 1..Len(seq) /\ m + 1 \in 1..Len(other)
          /\ a[m] = b[m] /\ (m + 1) - 1 = m
      BY <2>1
    <3>2. a[m + 1] = a[m] + (IF m + 1 \in I THEN seq[m + 1].debited ELSE 0)
      BY <3>1, <1>1
    <3>3. b[m + 1] = b[m] + (IF m + 1 \in J THEN other[m + 1].debited ELSE 0)
      BY <3>1, <1>1
    <3> QED
      BY <3>1, <3>2, <3>3
  <2> QED
    BY <2>1
<1>4. T = Nat
  <2>1. T \subseteq Nat
    OBVIOUS
  <2> HIDE DEF T
  <2> QED
    BY <1>2, <1>3, <2>1, AllNaturals
<1> QED
  BY <1>4 DEF a, b

LEMMA TotalEqual ==
    ASSUME NEW S, NEW seq \in Seq(S), Numbered(S), NEW I,
           NEW R, NEW other \in Seq(R), Numbered(R), NEW J,
           Len(seq) = Len(other),
           \A i \in 1..Len(seq) : /\ i \in I <=> i \in J
                                  /\ i \in I => seq[i].debited = other[i].debited
    PROVE  Total(seq, I) = Total(other, J)
<1>1. Len(seq) \in Nat /\ Len(seq) <= Len(other)
  OBVIOUS
<1>2. Sums(seq, I)[Len(seq)] = Sums(other, J)[Len(seq)]
  BY <1>1, SumsEqual
<1> QED
  BY <1>2, TotalIsLast

LEMMA TotalAppend ==
    ASSUME NEW S, NEW seq \in Seq(S), Numbered(S), NEW x \in S, NEW I, NEW J,
           \A i \in 1..Len(seq) : i \in I <=> i \in J
    PROVE  Total(Append(seq, x), I) =
              Total(seq, J) + (IF Len(seq) + 1 \in I THEN x.debited ELSE 0)
<1> DEFINE more == Append(seq, x)
<1>1. /\ more \in Seq(S) /\ Len(more) = Len(seq) + 1 /\ Len(seq) \in Nat
      /\ \A i \in 1..Len(seq) : more[i] = seq[i]
      /\ more[Len(seq) + 1] = x
  OBVIOUS
<1> HIDE DEF more
<1>2. Sums(more, I)[Len(seq)] = Sums(seq, J)[Len(seq)]
  BY <1>1, SumsEqual
<1>3. \A m \in 1..Len(more) :
         Sums(more, I)[m] = Sums(more, I)[m - 1] + (IF m \in I THEN more[m].debited ELSE 0)
  BY <1>1, SumsUnfold
<1>4. Len(more) \in 1..Len(more) /\ Len(more) - 1 = Len(seq)
  BY <1>1
<1>5. Sums(more, I)[Len(more)] =
         Sums(more, I)[Len(seq)] + (IF Len(seq) + 1 \in I THEN x.debited ELSE 0)
  BY <1>1, <1>3, <1>4
<1> QED
  BY <1>2, <1>5, TotalIsLast DEF more

\* The sum over two sets of indices that have none in common.
LEMMA TotalSplit ==
    ASSUME NEW S, NEW seq \in Seq(S), Numbered(S), NEW I, NEW J, NEW K,
           \A i \in 1..Len(seq) : /\ i \in K <=> i \in I \/ i \in J
                                  /\ ~(i \in I /\ i \in J)
    PROVE  Total(seq, K) = Total(seq, I) + Total(seq, J)
<1> DEFINE a == Sums(seq, I)
<1> DEFINE b == Sums(seq, J)
<1> DEFINE c == Sums(seq, K)
<1>1. /\ a[0] = 0 /\ b[0] = 0 /\ c[0] = 0
      /\ a \in [0..Len(seq) -> Nat] /\ b \in [0..Len(seq) -> Nat] /\ c \in [0..Len(seq) -> Nat]
      /\ \A m \in 1..Len(seq) : a[m] = a[m - 1] + (IF m \in I THEN seq[m].debited ELSE 0)
      /\ \A m \in 1..Len(seq) : b[m] = b[m - 1] + (IF m \in J THEN seq[m].debited ELSE 0)
      /\ \A m \in 1..Len(seq) : c[m] = c[m - 1] + (IF m \in K THEN seq[m].debited ELSE 0)
  BY SumsUnfold
<1>2. Len(seq) \in Nat /\ \A m \in 1..Len(seq) : seq[m].debited \in Nat
  BY DEF Numbered
<1> HIDE DEF a, b, c
<1> DEFINE T == {m \in Nat : m <= Len(seq) => c[m] = a[m] + b[m]}
<1>3. 0 \in T
  BY <1>1
<1>4. ASSUME NEW m \in T PROVE m + 1 \in T
  <2>1. ASSUME m + 1 <= Len(seq) PROVE c[m + 1] = a[m + 1] + b[m + 1]
    <3>1. /\ m + 1 \in 1..Len(seq) /\ (m + 1) - 1 = m /\ m \in 0..Len(seq)
          /\ c[m] = a[m] + b[m]
      BY <2>1, <1>2
    <3>2. a[m] \in Nat /\ b[m] \in Nat /\ seq[m + 1].debited \in Nat
      BY <3>1, <1>1, <1>2
    <3>3. a[m + 1] = a[m] + (IF m + 1 \in I THEN seq[m + 1].debited ELSE 0)
      BY <3>1, <1>1
    <3>4. b[m + 1] = b[m] + (IF m + 1 \in J THEN seq[m + 1].debited ELSE 0)
      BY <3>1, <1>1
    <3>5. c[m + 1] = c[m] + (IF m + 1 \in K THEN seq[m + 1].debited ELSE 0)
      BY <3>1, <1>1
    <3> QED
      BY <3>1, <3>2, <3>3, <3>4, <3>5
  <2> QED
    BY <2>1
<1>5. T = Nat
  <2>1. T \subseteq Nat
    OBVIOUS
  <2> HIDE DEF T
  <2> QED
    BY <1>3, <1>4, <2>1, AllNaturals
<1>6. c[Len(seq)] = a[Len(seq)] + b[Len(seq)]
  BY <1>2, <1>5
<1> QED
  BY <1>6, TotalIsLast DEF a, b, c

LEMMA TotalNone ==
    ASSUME NEW S, NEW seq \in Seq(S), Numbered(S), NEW I,
           \A i \in 1..Len(seq) : i \notin I
    PROVE  Total(seq, I) = 0
<1>1. Total(seq, I) = Total(seq, I) + Total(seq, I)
  BY TotalSplit
<1>2. Total(seq, I) \in Nat
  BY TotalType
<1> QED
  BY <1>1, <1>2

LEMMA TotalOne ==
    ASSUME NEW S, NEW seq \in Seq(S), Numbered(S), NEW k \in 1..Len(seq)
    PROVE  Total(seq, {k}) = seq[k].debited
<1> DEFINE a == Sums(seq, {k})
<1>1. /\ a[0] = 0
      /\ \A m \in 1..Len(seq) : a[m] = a[m - 1] + (IF m \in {k} THEN seq[m].debited ELSE 0)
  BY SumsUnfold
<1>2. Len(seq) \in Nat /\ \A m \in 1..Len(seq) : seq[m].debited \in Nat
  BY DEF Numbered
<1> HIDE DEF a
<1> DEFINE T == {m \in Nat : m <= Len(seq) => a[m] = IF m < k THEN 0 ELSE seq[k].debited}
<1>3. 0 \in T
  BY <1>1, <1>2
<1>4. ASSUME NEW m \in T PROVE m + 1 \in T
  <2>1. ASSUME m + 1 <= Len(seq)
        PROVE  a[m + 1] = IF m + 1 < k THEN 0 ELSE seq[k].debited
    <3>1. /\ m + 1 \in 1..Len(seq) /\ (m + 1) - 1 = m
          /\ a[m] = IF m < k THEN 0 ELSE seq[k].debited
      BY <2>1, <1>2
    <3>2. a[m + 1] = a[m] + (IF m + 1 = k THEN seq[k].debited ELSE 0)
      BY <3>1, <1>1
    <3>3. seq[k].debited \in Nat
      BY <1>2
    <3> QED
      BY <3>1, <3>2, <3>3, <1>2
  <2> QED
    BY <2>1
<1>5. T = Nat
  <2>1. T \subseteq Nat
    OBVIOUS
  <2> HIDE DEF T
  <2> QED
    BY <1>3, <1>4, <2>1, AllNaturals
<1>6. a[Len(seq)] = seq[k].debited
  BY <1>2, <1>5
<1> QED
  BY <1>6, TotalIsLast DEF a

LEMMA OnlyType ==
    ASSUME NEW S, NEW seq \in Seq(S), NEW I
    PROVE  Only(seq, I) \in Seq(S)
<1>1. Len(seq) \in 0..Len(seq)
  OBVIOUS
<1> QED
  BY <1>1, KeptUnfold, OnlyIsLast

\* The sum over what is left.
LEMMA TotalOnly ==
    ASSUME NEW S, NEW seq \in Seq(S), Numbered(S), NEW I, NEW P
    PROVE  Total(Only(seq, I), {k \in 1..Len(Only(seq, I)) : Only(seq, I)[k] \in P}) =
           Total(seq, {i \in 1..Len(seq) : i \in I /\ seq[i] \in P})
<1> DEFINE J == {i \in 1..Len(seq) : i \in I /\ seq[i] \in P}
<1> DEFINE In(s) == {k \in 1..Len(s) : s[k] \in P}
<1> DEFINE b == Sums(seq, J)
<1> DEFINE kept == Kept(seq, I)
<1>1. /\ b[0] = 0 /\ b \in [0..Len(seq) -> Nat]
      /\ \A m \in 1..Len(seq) : b[m] = b[m - 1] + (IF m \in J THEN seq[m].debited ELSE 0)
  BY SumsUnfold
<1>2. /\ kept[0] = <<>>
      /\ \A n \in 1..Len(seq) : kept[n] =
            IF n \in I THEN Append(kept[n - 1], seq[n]) ELSE kept[n - 1]
      /\ \A n \in 0..Len(seq) : kept[n] \in Seq(S)
  BY KeptUnfold
<1>3. Len(seq) \in Nat /\ \A m \in 1..Len(seq) : seq[m] \in S /\ seq[m].debited \in Nat
  BY DEF Numbered
<1> HIDE DEF b, kept
<1> DEFINE T == {m \in Nat : m <= Len(seq) => Total(kept[m], In(kept[m])) = b[m]}
<1>4. 0 \in T
  <2>1. kept[0] \in Seq(S) /\ Len(kept[0]) = 0
    BY <1>2, <1>3
  <2>2. Total(kept[0], In(kept[0])) = 0
    BY <2>1, TotalNone
  <2> QED
    BY <2>2, <1>1
<1>5. ASSUME NEW m \in T PROVE m + 1 \in T
  <2>1. ASSUME m + 1 <= Len(seq) PROVE Total(kept[m + 1], In(kept[m + 1])) = b[m + 1]
    <3>1. /\ m + 1 \in 1..Len(seq) /\ (m + 1) - 1 = m /\ m \in 0..Len(seq)
          /\ Total(kept[m], In(kept[m])) = b[m]
      BY <2>1, <1>3
    <3>2. b[m + 1] = b[m] + (IF m + 1 \in J THEN seq[m + 1].debited ELSE 0)
      BY <3>1, <1>1
    <3>3. b[m] \in Nat /\ seq[m + 1] \in S /\ kept[m] \in Seq(S)
      BY <3>1, <1>1, <1>2, <1>3
    <3>4. kept[m + 1] = IF m + 1 \in I THEN Append(kept[m], seq[m + 1]) ELSE kept[m]
      BY <3>1, <1>2
    <3>5. CASE m + 1 \in I
      <4> DEFINE more == Append(kept[m], seq[m + 1])
      <4>1. /\ Len(more) = Len(kept[m]) + 1 /\ Len(kept[m]) \in Nat
            /\ \A i \in 1..Len(kept[m]) : more[i] = kept[m][i]
            /\ more[Len(kept[m]) + 1] = seq[m + 1]
        BY <3>3
      <4>2. \A i \in 1..Len(kept[m]) : i \in In(more) <=> i \in In(kept[m])
        BY <4>1
      <4>3. Len(kept[m]) + 1 \in In(more) <=> m + 1 \in J
        BY <4>1, <3>1, <3>5
      <4>4. Total(more, In(more)) = Total(kept[m], In(kept[m]))
               + (IF Len(kept[m]) + 1 \in In(more) THEN seq[m + 1].debited ELSE 0)
        <5> HIDE DEF In
        <5> QED
          BY <3>3, <4>2, TotalAppend
      <4> HIDE DEF more, In, J
      <4>5. Total(more, In(more)) = b[m + 1]
        BY <4>3, <4>4, <3>1, <3>2
      <4>6. kept[m + 1] = more
        BY <3>4, <3>5 DEF more
      <4> QED
        BY <4>5, <4>6
    <3>6. CASE m + 1 \notin I
      <4>1. kept[m + 1] = kept[m] /\ m + 1 \notin J
        BY <3>4, <3>6
      <4>2. b[m + 1] = b[m]
        BY <4>1, <3>2, <3>3
      <4> HIDE DEF In, J
      <4> QED
        BY <4>1, <4>2, <3>1
    <3> QED
      BY <3>5, <3>6
  <2> HIDE DEF In
  <2> QED
    BY <2>1
<1>6. T = Nat
  <2>1. T \subseteq Nat
    OBVIOUS
  <2> HIDE DEF T
  <2> QED
    BY <1>4, <1>5, <2>1, AllNaturals
<1>7. Total(kept[Len(seq)], In(kept[Len(seq)])) = b[Len(seq)]
  <2> HIDE DEF In
  <2> QED
    BY <1>3, <1>6
<1>8. kept[Len(seq)] = Only(seq, I) /\ b[Len(seq)] = Total(seq, J)
  BY TotalIsLast, OnlyIsLast DEF b, kept
<1> HIDE DEF J
<1>9. Total(Only(seq, I), In(Only(seq, I))) = Total(seq, J)
  <2> HIDE DEF In
  <2> QED
    BY <1>7, <1>8
<1> QED
  BY <1>9 DEF J


-----------------------------------------------------------------------------
(* Where an element is found.                                              *)

LEMMA MinIn ==
    ASSUME NEW S \in SUBSET Nat, S # {}
    PROVE  Min(S) \in S /\ \A x \in S : Min(S) <= x
<1> DEFINE R == OpToRel(<, Nat)
<1>1. IsWellFoundedOn(R, Nat)
  BY NatLessThanWellFounded
<1>2. \E x \in S : \A y \in S : ~(<<y, x>> \in R)
  <2> HIDE DEF R
  <2> QED
    BY <1>1, WFMin
<1>3. PICK x \in S : \A y \in S : ~(<<y, x>> \in R)
  BY <1>2
<1>4. ASSUME NEW y \in S PROVE x <= y
  <2>1. x \in Nat /\ y \in Nat
    OBVIOUS
  <2>2. y < x => <<y, x>> \in R
    BY <2>1 DEF OpToRel
  <2> HIDE DEF R
  <2>3. ~(y < x)
    BY <1>3, <2>2
  <2> QED
    BY <2>1, <2>3
<1> QED
  BY <1>4 DEF Min

LEMMA IndexOfIn ==
    ASSUME NEW d \in Doc, NEW s
    PROVE  /\ IndexOf(d, s) \in 0..Len(d.spools)
           /\ IndexOf(d, s) # 0 => IndexOf(d, s) \in DOMAIN d.spools
                                   /\ d.spools[IndexOf(d, s)].id = s
           /\ IndexOf(d, s) = 0 => \A i \in DOMAIN d.spools : d.spools[i].id # s
<1> DEFINE I == {i \in 1..Len(d.spools) : d.spools[i].id = s}
<1>1. IndexOf(d, s) = IF I # {} THEN Min(I) ELSE 0
  BY DEF IndexOf, SelectInSeq
<1>2. d.spools \in Seq(Spool) /\ Len(d.spools) \in Nat /\ DOMAIN d.spools = 1..Len(d.spools)
  BY DEF Doc
<1>3. I # {} => Min(I) \in I
  BY MinIn
<1> HIDE DEF I
<1>4. CASE I = {}
  BY <1>1, <1>2, <1>4 DEF I
<1>5. CASE I # {}
  <2>1. IndexOf(d, s) \in I
    BY <1>1, <1>3, <1>5
  <2> QED
    BY <2>1, <1>2 DEF I
<1> QED
  BY <1>4, <1>5

LEMMA PickIn ==
    ASSUME NEW d \in Doc
    PROVE  Pick(d) # 0 => Pick(d) \in DOMAIN d.spools
<1> DEFINE I == {i \in 1..Len(d.spools) : d.spools[i].weight > 0}
<1>1. d.spools \in Seq(Spool) /\ Len(d.spools) \in Nat /\ DOMAIN d.spools = 1..Len(d.spools)
  BY DEF Doc
<1>2. I # {} => Min(I) \in I
  <2>1. I \in SUBSET Nat
    OBVIOUS
  <2> HIDE DEF I
  <2> QED
    BY <2>1, MinIn
<1>3. Pick(d) = LET full == IF I # {} THEN Min(I) ELSE 0
                IN IF full # 0 THEN full ELSE IF d.spools # <<>> THEN 1 ELSE 0
  BY DEF Pick, SelectInSeq
<1>4. d.spools # <<>> => 1 \in 1..Len(d.spools)
  BY <1>1
<1>5. CASE I = {}
  BY <1>1, <1>3, <1>4, <1>5
<1>6. CASE I # {}
  <2>1. Min(I) \in 1..Len(d.spools)
    BY <1>2, <1>6
  <2> HIDE DEF I
  <2> QED
    BY <2>1, <1>1, <1>3, <1>4, <1>6
<1> QED
  BY <1>5, <1>6

LEMMA EntryOfIn ==
    ASSUME NEW ledger \in Seq(Entry), NEW j, NEW grams
    PROVE  /\ EntryOf(ledger, j, grams) # 0 =>
                 EntryOf(ledger, j, grams) \in DOMAIN ledger
                 /\ ledger[EntryOf(ledger, j, grams)].job = j
           /\ EntryOf(ledger, j, grams) = 0 => \A k \in DOMAIN ledger : ledger[k].job # j
<1> DEFINE I == {i \in 1..Len(ledger) : ledger[i].job = j /\ ledger[i].grams = grams}
<1> DEFINE J == {i \in 1..Len(ledger) : ledger[i].job = j}
<1>1. Len(ledger) \in Nat /\ DOMAIN ledger = 1..Len(ledger)
  OBVIOUS
<1>2. (I # {} => Min(I) \in I) /\ (J # {} => Min(J) \in J)
  <2>1. I \in SUBSET Nat /\ J \in SUBSET Nat
    OBVIOUS
  <2> HIDE DEF I, J
  <2> QED
    BY <2>1, MinIn
<1>3. EntryOf(ledger, j, grams) =
         LET exact == IF I # {} THEN Min(I) ELSE 0
         IN IF exact # 0 THEN exact ELSE IF J # {} THEN Min(J) ELSE 0
  BY DEF EntryOf, SelectInSeq
<1>4. I \subseteq J /\ 0 \notin J
  OBVIOUS
<1>5. CASE J = {}
  BY <1>1, <1>3, <1>4, <1>5
<1>6. CASE J # {}
  <2>1. EntryOf(ledger, j, grams) \in J
    <3> HIDE DEF I, J
    <3> QED
      BY <1>2, <1>3, <1>4, <1>6
  <2> QED
    BY <2>1, <1>1
<1> QED
  BY <1>5, <1>6

-----------------------------------------------------------------------------
(* What is written has its type.                                           *)

LEMMA EntriesNumbered == Numbered(Entry) /\ Numbered(Row)
  BY DEF Numbered, Entry, Row

LEMMA LeastOf ==
    ASSUME NEW a \in Nat, NEW b \in Nat
    PROVE  Least(a, b) \in Nat /\ Least(a, b) <= a /\ a - Least(a, b) \in Nat
BY DEF Least

LEMMA DebitType ==
    ASSUME NEW sp \in Spool, NEW job \in Jobs \cup {None}, NEW grams \in Nat
    PROVE  LET d == Least(sp.weight, grams) IN
           /\ Debit(sp, job, grams) =
                 [id |-> sp.id, weight |-> sp.weight - d,
                  ledger |-> Append(sp.ledger, [job |-> job, grams |-> grams, debited |-> d])]
           /\ Debit(sp, job, grams) \in Spool
           /\ Last(Debit(sp, job, grams).ledger) = [job |-> job, grams |-> grams, debited |-> d]
<1> DEFINE d == Least(sp.weight, grams)
<1> DEFINE e == [job |-> job, grams |-> grams, debited |-> d]
<1>1. d \in Nat /\ sp.weight - d \in Nat /\ sp.ledger \in Seq(Entry)
  BY LeastOf DEF Spool
<1>2. Debit(sp, job, grams) = [id |-> sp.id, weight |-> sp.weight - d, ledger |-> Append(sp.ledger, e)]
  <2>1. Debit(sp, job, grams) = [sp EXCEPT !.weight = sp.weight - d, !.ledger = Append(sp.ledger, e)]
    BY DEF Debit
  <2> HIDE DEF d, e
  <2> QED
    BY <2>1 DEF Spool
<1> HIDE DEF d
<1>3. e \in Entry
  BY <1>1 DEF Entry
<1>4. Append(sp.ledger, e) \in Seq(Entry) /\ Last(Append(sp.ledger, e)) = e
  <2> HIDE DEF e
  <2> QED
    BY <1>1, <1>3 DEF Last
<1>5. Debit(sp, job, grams) \in Spool
  <2> HIDE DEF e
  <2> QED
    BY <1>1, <1>2, <1>4 DEF Spool
<1> QED
  BY <1>2, <1>4, <1>5 DEF d

LEMMA CapType ==
    ASSUME NEW ledger \in Seq(Entry)
    PROVE  Cap(ledger) \in Seq(Entry)
BY OnlyType DEF Cap

LEMMA CapDocType ==
    ASSUME NEW d \in Doc, NEW ids
    PROVE  /\ CapDoc(d, ids) \in Doc
           /\ CapDoc(d, ids).ver = d.ver /\ CapDoc(d, ids).parent = d.parent
           /\ CapDoc(d, ids).gross = d.gross
           /\ Len(CapDoc(d, ids).spools) = Len(d.spools)
           /\ \A i \in DOMAIN d.spools : /\ CapDoc(d, ids).spools[i].id = d.spools[i].id
                                         /\ CapDoc(d, ids).spools[i].weight = d.spools[i].weight
                                         /\ CapDoc(d, ids).spools[i].ledger =
                                              IF d.spools[i].id \in ids THEN Cap(d.spools[i].ledger)
                                              ELSE d.spools[i].ledger
<1> DEFINE sps == [i \in DOMAIN d.spools |->
        IF d.spools[i].id \in ids THEN [d.spools[i] EXCEPT !.ledger = Cap(@)] ELSE d.spools[i]]
<1>1. d.spools \in Seq(Spool) /\ DOMAIN d.spools = 1..Len(d.spools) /\ Len(d.spools) \in Nat
  BY DEF Doc
<1>2. ASSUME NEW i \in DOMAIN d.spools
      PROVE  /\ sps[i] \in Spool
             /\ sps[i].id = d.spools[i].id /\ sps[i].weight = d.spools[i].weight
             /\ sps[i].ledger = IF d.spools[i].id \in ids THEN Cap(d.spools[i].ledger)
                                ELSE d.spools[i].ledger
  <2>1. d.spools[i] \in Spool
    BY <1>1
  <2>2. Cap(d.spools[i].ledger) \in Seq(Entry)
    BY <2>1, CapType DEF Spool
  <2> QED
    BY <2>1, <2>2 DEF Spool
<1>3. sps \in Seq(Spool) /\ Len(sps) = Len(d.spools)
  <2>1. DOMAIN sps = 1..Len(d.spools) /\ sps = [i \in 1..Len(d.spools) |-> sps[i]]
    BY <1>1
  <2>2. sps \in [1..Len(d.spools) -> Spool]
    BY <1>1, <1>2, <2>1
  <2> HIDE DEF sps
  <2> QED
    BY <1>1, <2>1, <2>2
<1>4. CapDoc(d, ids) = [d EXCEPT !.spools = sps]
  BY DEF CapDoc
<1> HIDE DEF sps
<1> QED
  BY <1>2, <1>3, <1>4 DEF Doc

-----------------------------------------------------------------------------
(* The usages of a job, one after another.                                 *)

Accs == [docs : [Fils -> Doc \cup {NoFil}], rows : Seq(Row), ok : BOOLEAN]
Accounts(usage) == {acc \in Accs : \A i \in DOMAIN usage : acc.docs[usage[i].fil] # NoFil}

RowOf(u, s, taken) == [fil |-> u.fil, spool |-> s, grams |-> u.grams, debited |-> taken]
Lighter(sp, job, grams, taken) ==
    [id |-> sp.id, weight |-> sp.weight - taken,
     ledger |-> Append(sp.ledger, [job |-> job, grams |-> grams, debited |-> taken])]

Passed(acc, a, u) ==
    /\ a.docs = acc.docs /\ a.rows = Append(acc.rows, RowOf(u, None, 0))
    /\ a.ok = (acc.ok /\ u.spool = None)
Taking(acc, a, u, job, i, taken) ==
    LET d == acc.docs[u.fil] IN
    /\ i \in DOMAIN d.spools /\ taken \in Nat /\ taken <= d.spools[i].weight
    /\ a.docs = [acc.docs EXCEPT ![u.fil] =
                   [d EXCEPT !.spools = [@ EXCEPT ![i] = Lighter(d.spools[i], job, u.grams, taken)]]]
    /\ a.rows = Append(acc.rows, RowOf(u, d.spools[i].id, taken))
    /\ a.ok = acc.ok

LEMMA ApplyUsageEffect ==
    ASSUME NEW job \in Jobs, NEW u \in Usage, NEW acc \in Accs, acc.docs[u.fil] # NoFil
    PROVE  LET a == ApplyUsage(job, acc, u) IN
           Passed(acc, a, u) \/ \E i, taken : Taking(acc, a, u, job, i, taken)
<1> DEFINE d == acc.docs[u.fil]
<1> DEFINE i == IF u.spool = None THEN Pick(d) ELSE IndexOf(d, u.spool)
<1> DEFINE row == RowOf(u, None, 0)
<1> DEFINE sp == Debit(d.spools[i], job, u.grams)
<1> DEFINE a == ApplyUsage(job, acc, u)
<1> DEFINE taken == Least(d.spools[i].weight, u.grams)
<1>1. d \in Doc /\ u.grams \in Nat /\ job \in Jobs \cup {None}
  BY DEF Accs, Usage
<1>2. i # 0 => i \in DOMAIN d.spools
  <2> HIDE DEF d
  <2> QED
    BY <1>1, IndexOfIn, PickIn
<1>3. a = IF i = 0
          THEN [acc EXCEPT !.rows = Append(acc.rows, row), !.ok = acc.ok /\ u.spool = None]
          ELSE [acc EXCEPT !.docs = [acc.docs EXCEPT ![u.fil] =
                                       [d EXCEPT !.spools = [d.spools EXCEPT ![i] = sp]]],
                           !.rows = Append(acc.rows, [row EXCEPT !.spool = sp.id,
                                              !.debited = Last(sp.ledger).debited])]
  <2> HIDE DEF i, sp
  <2> QED
    BY DEF ApplyUsage, RowOf, i, sp
<1> HIDE DEF d, i, sp, a, row, taken
<1>4. CASE i = 0
  <2>1. Passed(acc, a, u)
    BY <1>3, <1>4 DEF Passed, Accs, row
  <2> QED
    BY <2>1 DEF a
<1>5. CASE i # 0
  <2>1. d.spools[i] \in Spool
    BY <1>1, <1>2, <1>5 DEF Doc
  <2>2. /\ sp = Lighter(d.spools[i], job, u.grams, taken)
        /\ Last(sp.ledger).debited = taken
        /\ taken \in Nat /\ taken <= d.spools[i].weight
    <3> DEFINE x == d.spools[i]
    <3> DEFINE e == [job |-> job, grams |-> u.grams, debited |-> taken]
    <3> HIDE DEF x
    <3>1. x \in Spool /\ x.weight \in Nat /\ sp = Debit(x, job, u.grams)
          /\ taken = Least(x.weight, u.grams)
      BY <2>1 DEF Spool, x, sp, taken
    <3>2. taken \in Nat /\ taken <= x.weight
      BY <3>1, <1>1, LeastOf
    <3>3. /\ sp = [id |-> x.id, weight |-> x.weight - taken, ledger |-> Append(x.ledger, e)]
          /\ Last(sp.ledger) = e
      BY <3>1, <1>1, DebitType
    <3> QED
      BY <3>2, <3>3 DEF Lighter, x
  <2>3. sp.id = d.spools[i].id
    BY <2>2 DEF Lighter
  <2>4. [row EXCEPT !.spool = sp.id, !.debited = Last(sp.ledger).debited] =
            RowOf(u, d.spools[i].id, taken)
    <3> DEFINE s == sp.id
    <3> DEFINE x == Last(sp.ledger).debited
    <3> HIDE DEF s, x
    <3>1. [row EXCEPT !.spool = s, !.debited = x] = [[row EXCEPT !.spool = s] EXCEPT !.debited = x]
      OBVIOUS
    <3>2. [row EXCEPT !.spool = s] = RowOf(u, s, 0)
      BY DEF RowOf, row
    <3>3. [RowOf(u, s, 0) EXCEPT !.debited = x] = RowOf(u, s, x)
      BY DEF RowOf
    <3>4. [row EXCEPT !.spool = s, !.debited = x] = RowOf(u, s, x)
      BY <3>1, <3>2, <3>3
    <3>5. s = d.spools[i].id /\ x = taken
      BY <2>2, <2>3 DEF s, x
    <3>6. [row EXCEPT !.spool = s, !.debited = x] = RowOf(u, d.spools[i].id, taken)
      BY <3>4, <3>5
    <3> QED
      BY <3>6 DEF s, x
  <2>5. /\ a.docs = [acc.docs EXCEPT ![u.fil] = [d EXCEPT !.spools = [d.spools EXCEPT ![i] = sp]]]
        /\ a.rows = Append(acc.rows, RowOf(u, d.spools[i].id, taken))
        /\ a.ok = acc.ok
    BY <1>3, <1>5, <2>4 DEF Accs
  <2>6. Taking(acc, a, u, job, i, taken)
    BY <1>2, <1>5, <2>2, <2>5 DEF Taking, d
  <2> QED
    BY <2>6 DEF a
<1> QED
  BY <1>4, <1>5

LEMMA LighterType ==
    ASSUME NEW sp \in Spool, NEW job \in Jobs, NEW grams \in Nat, NEW taken \in Nat,
           taken <= sp.weight
    PROVE  Lighter(sp, job, grams, taken) \in Spool
<1> DEFINE e == [job |-> job, grams |-> grams, debited |-> taken]
<1>1. sp.weight - taken \in Nat /\ sp.ledger \in Seq(Entry) /\ e \in Entry
  BY DEF Spool, Entry
<1> HIDE DEF e
<1>2. Append(sp.ledger, e) \in Seq(Entry)
  BY <1>1
<1> QED
  BY <1>1, <1>2 DEF Lighter, Spool, e

LEMMA ApplyUsageType ==
    ASSUME NEW usage \in Seq(Usage), NEW job \in Jobs, NEW u \in Usage,
           NEW acc \in Accounts(usage), acc.docs[u.fil] # NoFil
    PROVE  ApplyUsage(job, acc, u) \in Accounts(usage)
<1> DEFINE a == ApplyUsage(job, acc, u)
<1> DEFINE d == acc.docs[u.fil]
<1>1. acc \in Accs /\ d \in Doc /\ u \in Usage
  BY DEF Accounts, Accs, Usage
<1>2. a.rows \in Seq(Row) /\ a.ok \in BOOLEAN
      /\ a.docs \in [Fils -> Doc \cup {NoFil}] /\ \A f \in Fils : acc.docs[f] # NoFil => a.docs[f] # NoFil
  <2> HIDE DEF a
  <2>1. ASSUME Passed(acc, a, u)
        PROVE  <1>2!1 /\ <1>2!2
    <3>1. RowOf(u, None, 0) \in Row /\ acc.rows \in Seq(Row)
      BY <1>1 DEF RowOf, Row, Usage, Accs
    <3>2. Append(acc.rows, RowOf(u, None, 0)) \in Seq(Row)
      BY <3>1
    <3> QED
      BY <2>1, <3>2, <1>1 DEF Passed, Accs
  <2>2. ASSUME NEW i, NEW taken, Taking(acc, a, u, job, i, taken)
        PROVE  <1>2!1 /\ <1>2!2
    <3> DEFINE sp == Lighter(d.spools[i], job, u.grams, taken)
    <3>1. /\ i \in DOMAIN d.spools /\ taken \in Nat /\ taken <= d.spools[i].weight
          /\ a.docs = [acc.docs EXCEPT ![u.fil] = [d EXCEPT !.spools = [d.spools EXCEPT ![i] = sp]]]
          /\ a.rows = Append(acc.rows, RowOf(u, d.spools[i].id, taken))
          /\ a.ok = acc.ok
      <4> HIDE DEF sp
      <4> QED
        BY <2>2 DEF Taking, sp
    <3> HIDE DEF d
    <3>2. d.spools \in Seq(Spool) /\ d.spools[i] \in Spool
      BY <1>1, <3>1 DEF Doc
    <3>3. sp \in Spool
      BY <1>1, <3>1, <3>2, LighterType DEF Usage
    <3>4. RowOf(u, d.spools[i].id, taken) \in Row /\ acc.rows \in Seq(Row)
      BY <1>1, <3>1, <3>2 DEF RowOf, Row, Usage, Accs, Spool
    <3>5. Append(acc.rows, RowOf(u, d.spools[i].id, taken)) \in Seq(Row)
      BY <3>4
    <3> HIDE DEF sp
    <3>6. [d.spools EXCEPT ![i] = sp] \in Seq(Spool)
      BY <3>1, <3>2, <3>3
    <3>7. [d EXCEPT !.spools = [d.spools EXCEPT ![i] = sp]] \in Doc
      BY <1>1, <3>6 DEF Doc
    <3>8. [d EXCEPT !.spools = [d.spools EXCEPT ![i] = sp]] # NoFil
      BY <3>7, PrintJobsAssumption
    <3> QED
      BY <3>1, <3>5, <3>7, <3>8, <1>1 DEF Accs
  <2> QED
    BY <1>1, <2>1, <2>2, ApplyUsageEffect DEF a
<1>3. a \in Accs
  <2>1. a = [docs |-> a.docs, rows |-> a.rows, ok |-> a.ok]
    BY <1>1 DEF ApplyUsage, Accs
  <2> HIDE DEF a
  <2> QED
    BY <2>1, <1>2 DEF Accs
<1>4. \A n \in DOMAIN usage : usage[n].fil \in Fils
  <2>1. \A n \in DOMAIN usage : usage[n] \in Usage
    OBVIOUS
  <2> QED
    BY <2>1 DEF Usage
<1> HIDE DEF a
<1>5. \A n \in DOMAIN usage : a.docs[usage[n].fil] # NoFil
  BY <1>2, <1>4 DEF Accounts
<1> QED
  BY <1>3, <1>5 DEF Accounts, a

Accounting(job, usage, docs) ==
    CHOOSE done : done = [n \in 0..Len(usage) |->
        IF n = 0 THEN [docs |-> docs, rows |-> <<>>, ok |-> TRUE]
        ELSE ApplyUsage(job, done[n - 1], usage[n])]

LEMMA AppliedIsLast ==
    \A job, usage, docs : Applied(job, usage, docs) = Accounting(job, usage, docs)[Len(usage)]
  BY DEF Applied, Accounting

\* A job may debit these documents.
Debitable(usage, docs) ==
    /\ docs \in [Fils -> Doc \cup {NoFil}]
    /\ \A i \in DOMAIN usage : docs[usage[i].fil] # NoFil

LEMMA AccountingUnfold ==
    ASSUME NEW usage \in Seq(Usage), NEW job \in Jobs, NEW docs, Debitable(usage, docs)
    PROVE  /\ Accounting(job, usage, docs)[0] = [docs |-> docs, rows |-> <<>>, ok |-> TRUE]
           /\ \A n \in 1..Len(usage) : Accounting(job, usage, docs)[n] =
                 ApplyUsage(job, Accounting(job, usage, docs)[n - 1], usage[n])
           /\ \A n \in 0..Len(usage) : Accounting(job, usage, docs)[n] \in Accounts(usage)
<1> DEFINE V == Accounts(usage)
<1> DEFINE first == [docs |-> docs, rows |-> <<>>, ok |-> TRUE]
<1> DEFINE step == [n \in Nat |-> [acc \in V |->
                      IF n \in 1..Len(usage) THEN ApplyUsage(job, acc, usage[n]) ELSE acc]]
<1> DEFINE Is(g) == g = [n \in 0..Len(usage) |->
              IF n = 0 THEN first ELSE ApplyUsage(job, g[n - 1], usage[n])]
<1>1. Len(usage) \in Nat /\ \A n \in 1..Len(usage) : usage[n] \in Usage
  OBVIOUS
<1>2. \A n \in 1..Len(usage), acc \in V : ApplyUsage(job, acc, usage[n]) \in V
  BY <1>1, ApplyUsageType DEF Accounts
<1>3. first \in V
  <2>1. <<>> \in Seq(Row)
    OBVIOUS
  <2> QED
    BY <2>1 DEF Accounts, Accs, Debitable
<1> HIDE DEF V, first
<1>4. /\ step \in [Nat -> [V -> V]]
      /\ \A n \in 1..Len(usage), acc \in V : step[n][acc] = ApplyUsage(job, acc, usage[n])
  BY <1>1, <1>2
<1> HIDE DEF step
<1>5. \E g \in [0..Len(usage) -> V] :
         g[0] = first /\ \A n \in 1..Len(usage) : g[n] = step[n][g[n - 1]]
  <2>1. Exists(V, first, step, Len(usage))
    BY <1>1, <1>3, <1>4, Recursion
  <2> QED
    BY <2>1 DEF Exists
<1>6. PICK g \in [0..Len(usage) -> V] :
         g[0] = first /\ \A n \in 1..Len(usage) : g[n] = step[n][g[n - 1]]
  BY <1>5
<1>7. ASSUME NEW n \in 0..Len(usage), n # 0
      PROVE  step[n][g[n - 1]] = ApplyUsage(job, g[n - 1], usage[n])
  <2>1. n \in 1..Len(usage) /\ n - 1 \in 0..Len(usage)
    BY <1>1, <1>7
  <2>2. g[n - 1] \in V
    BY <2>1
  <2> QED
    BY <2>1, <2>2, <1>4
<1>8. Is(g)
  <2>1. ASSUME NEW n \in 0..Len(usage)
        PROVE  g[n] = IF n = 0 THEN first ELSE ApplyUsage(job, g[n - 1], usage[n])
    <3>1. g[n] = IF n = 0 THEN first ELSE step[n][g[n - 1]]
      BY <1>6, <1>1
    <3> QED
      BY <3>1, <1>7
  <2> QED
    BY <2>1
<1> DEFINE s == Accounting(job, usage, docs)
<1>9. Is(s)
  BY <1>8 DEF Accounting, first
<1> HIDE DEF s
<1>10. \A n \in 0..Len(usage) : s[n] = IF n = 0 THEN first ELSE ApplyUsage(job, s[n - 1], usage[n])
  <2>1. ASSUME Is(s), NEW n \in 0..Len(usage)
        PROVE  s[n] = IF n = 0 THEN first ELSE ApplyUsage(job, s[n - 1], usage[n])
    BY <2>1
  <2> QED
    BY <2>1, <1>9
<1>11. s[0] = first
  BY <1>10, <1>1
<1>12. ASSUME NEW n \in 1..Len(usage)
       PROVE  s[n] = ApplyUsage(job, s[n - 1], usage[n])
  <2>1. n \in 0..Len(usage) /\ n # 0
    BY <1>1
  <2> QED
    BY <1>10, <2>1
<1> DEFINE T == {n \in Nat : n <= Len(usage) => s[n] \in V}
<1>13. 0 \in T
  BY <1>3, <1>11
<1>14. ASSUME NEW n \in T PROVE n + 1 \in T
  <2>1. ASSUME n + 1 <= Len(usage) PROVE s[n + 1] \in V
    <3>1. n + 1 \in 1..Len(usage) /\ s[n] \in V /\ (n + 1) - 1 = n
      BY <2>1, <1>1
    <3> QED
      BY <3>1, <1>2, <1>12
  <2> QED
    BY <2>1
<1>15. T = Nat
  <2>1. T \subseteq Nat
    OBVIOUS
  <2> HIDE DEF T
  <2> QED
    BY <1>13, <1>14, <2>1, AllNaturals
<1>16. \A n \in 0..Len(usage) : s[n] \in V
  BY <1>15, <1>1
<1> QED
  BY <1>11, <1>12, <1>16 DEF s, V, first

\* What holds at the start of a job and through each usage holds at its end.
LEMMA AppliedKeeps ==
    ASSUME NEW usage \in Seq(Usage), NEW job \in Jobs, NEW docs, Debitable(usage, docs),
           NEW Q, [docs |-> docs, rows |-> <<>>, ok |-> TRUE] \in Q[0],
           \A n \in 1..Len(usage) : \A acc \in Accounts(usage) :
               acc \in Q[n - 1] => ApplyUsage(job, acc, usage[n]) \in Q[n]
    PROVE  /\ Applied(job, usage, docs) \in Accounts(usage)
           /\ Applied(job, usage, docs) \in Q[Len(usage)]
<1> DEFINE s == Accounting(job, usage, docs)
<1>1. /\ s[0] = [docs |-> docs, rows |-> <<>>, ok |-> TRUE]
      /\ \A n \in 1..Len(usage) : s[n] = ApplyUsage(job, s[n - 1], usage[n])
      /\ \A n \in 0..Len(usage) : s[n] \in Accounts(usage)
  BY AccountingUnfold
<1>2. Len(usage) \in Nat
  OBVIOUS
<1> HIDE DEF s
<1> DEFINE T == {n \in Nat : n <= Len(usage) => s[n] \in Q[n]}
<1>3. 0 \in T
  BY <1>1
<1>4. ASSUME NEW n \in T PROVE n + 1 \in T
  <2>1. ASSUME n + 1 <= Len(usage) PROVE s[n + 1] \in Q[n + 1]
    <3>1. n + 1 \in 1..Len(usage) /\ n \in 0..Len(usage) /\ s[n] \in Q[n] /\ (n + 1) - 1 = n
      BY <2>1, <1>2
    <3>2. s[n + 1] = ApplyUsage(job, s[n], usage[n + 1]) /\ s[n] \in Accounts(usage)
      BY <3>1, <1>1
    <3> QED
      BY <3>1, <3>2
  <2> QED
    BY <2>1
<1>5. T = Nat
  <2>1. T \subseteq Nat
    OBVIOUS
  <2> HIDE DEF T
  <2> QED
    BY <1>3, <1>4, <2>1, AllNaturals
<1>6. s[Len(usage)] \in Q[Len(usage)] /\ s[Len(usage)] \in Accounts(usage)
  BY <1>1, <1>2, <1>5
<1> QED
  BY <1>6, AppliedIsLast DEF s

\* What a job does to a spool: a grows into b.
OneRow(rows, f) ==
    \A i, k \in DOMAIN rows : rows[i].fil = f /\ rows[k].fil = f => i = k
Grown(a, b) == (Len(a.ledger) + 1)..Len(b.ledger)
Longer(a, b, job, rows, f) ==
    /\ b.id = a.id
    /\ Len(a.ledger) <= Len(b.ledger)
    /\ \A k \in 1..Len(a.ledger) : b.ledger[k] = a.ledger[k]
    /\ \A k \in Grown(a, b) : b.ledger[k].job = job
    /\ b.weight + Debited(b.ledger) = a.weight + Debited(a.ledger)
    /\ a.id \in SpoolsOf(rows, f) \/ b = a
    /\ OneRow(rows, f) => Len(b.ledger) <= Len(a.ledger) + 1

LEMMA RowsAppend ==
    ASSUME NEW rows \in Seq(Row), NEW x \in Row, NEW f
    PROVE  /\ SpoolsOf(Append(rows, x), f) =
                 SpoolsOf(rows, f) \cup (IF x.fil = f THEN {x.spool} \ {None} ELSE {})
           /\ OneRow(Append(rows, x), f) => OneRow(rows, f)
           /\ OneRow(Append(rows, x), f) /\ x.fil = f => SpoolsOf(rows, f) = {}
<1> DEFINE more == Append(rows, x)
<1>1. /\ more \in Seq(Row) /\ Len(more) = Len(rows) + 1 /\ Len(rows) \in Nat
      /\ DOMAIN more = 1..(Len(rows) + 1) /\ DOMAIN rows = 1..Len(rows)
      /\ \A i \in 1..Len(rows) : more[i] = rows[i]
      /\ more[Len(rows) + 1] = x
  OBVIOUS
<1> HIDE DEF more
<1>2. SpoolsOf(more, f) =
         SpoolsOf(rows, f) \cup (IF x.fil = f THEN {x.spool} \ {None} ELSE {})
  <2>1. ASSUME NEW y PROVE y \in SpoolsOf(more, f) <=>
            y # None /\ \E i \in 1..(Len(rows) + 1) : more[i].fil = f /\ more[i].spool = y
    BY <1>1 DEF SpoolsOf
  <2>2. ASSUME NEW y PROVE y \in SpoolsOf(rows, f) <=>
            y # None /\ \E i \in 1..Len(rows) : rows[i].fil = f /\ rows[i].spool = y
    BY <1>1 DEF SpoolsOf
  <2>3. ASSUME NEW y
        PROVE  (\E i \in 1..(Len(rows) + 1) : more[i].fil = f /\ more[i].spool = y) <=>
               \/ \E i \in 1..Len(rows) : rows[i].fil = f /\ rows[i].spool = y
               \/ x.fil = f /\ x.spool = y
    BY <1>1
  <2> QED
    BY <2>1, <2>2, <2>3
<1>4. OneRow(more, f) => OneRow(rows, f)
  BY <1>1 DEF OneRow
<1>5. ASSUME OneRow(more, f), x.fil = f PROVE SpoolsOf(rows, f) = {}
  <2>1. ASSUME NEW i \in 1..Len(rows) PROVE rows[i].fil # f
    <3>1. i \in DOMAIN more /\ Len(rows) + 1 \in DOMAIN more /\ i # Len(rows) + 1
      BY <1>1
    <3> QED
      BY <3>1, <1>1, <1>5 DEF OneRow
  <2> QED
    BY <2>1, <1>1 DEF SpoolsOf
<1> QED
  BY <1>2, <1>4, <1>5 DEF more

LEMMA TakenAppend ==
    ASSUME NEW rows \in Seq(Row), NEW x \in Row, NEW f, NEW s
    PROVE  TakenBy(Append(rows, x), f, s) =
                 TakenBy(rows, f, s) + (IF x.fil = f /\ x.spool = s THEN x.debited ELSE 0)
<1> DEFINE more == Append(rows, x)
<1>1. /\ more \in Seq(Row) /\ Len(more) = Len(rows) + 1 /\ Len(rows) \in Nat
      /\ DOMAIN more = 1..(Len(rows) + 1) /\ DOMAIN rows = 1..Len(rows)
      /\ \A i \in 1..Len(rows) : more[i] = rows[i]
      /\ more[Len(rows) + 1] = x
  OBVIOUS
<1> HIDE DEF more
<1>3. TakenBy(more, f, s) = TakenBy(rows, f, s) + (IF x.fil = f /\ x.spool = s THEN x.debited ELSE 0)
  <2> DEFINE I == {i \in DOMAIN more : more[i].fil = f /\ more[i].spool = s}
  <2> DEFINE J == {i \in DOMAIN rows : rows[i].fil = f /\ rows[i].spool = s}
  <2>1. \A i \in 1..Len(rows) : i \in I <=> i \in J
    BY <1>1
  <2>2. Len(rows) + 1 \in I <=> x.fil = f /\ x.spool = s
    BY <1>1
  <2> HIDE DEF I, J
  <2>3. Total(more, I) = Total(rows, J) + (IF Len(rows) + 1 \in I THEN x.debited ELSE 0)
    BY <2>1, TotalAppend, EntriesNumbered DEF more
  <2> QED
    BY <2>2, <2>3 DEF TakenBy, I, J
<1> QED
  BY <1>3 DEF more

LEMMA DebitedAppend ==
    ASSUME NEW ledger \in Seq(Entry), NEW e \in Entry
    PROVE  Debited(Append(ledger, e)) = Debited(ledger) + (IF e.job # None THEN e.debited ELSE 0)
<1> DEFINE more == Append(ledger, e)
<1> DEFINE I == {i \in DOMAIN more : more[i].job # None}
<1> DEFINE J == {i \in DOMAIN ledger : ledger[i].job # None}
<1>1. /\ DOMAIN more = 1..(Len(ledger) + 1) /\ DOMAIN ledger = 1..Len(ledger)
      /\ \A i \in 1..Len(ledger) : more[i] = ledger[i]
      /\ more[Len(ledger) + 1] = e /\ Len(ledger) \in Nat
  OBVIOUS
<1>2. \A i \in 1..Len(ledger) : i \in I <=> i \in J
  BY <1>1
<1>3. Len(ledger) + 1 \in I <=> e.job # None
  BY <1>1
<1> HIDE DEF I, J
<1>4. Total(more, I) = Total(ledger, J) + (IF Len(ledger) + 1 \in I THEN e.debited ELSE 0)
  BY <1>2, TotalAppend, EntriesNumbered
<1> QED
  BY <1>3, <1>4 DEF Debited, I, J

LEMMA DebitedType ==
    ASSUME NEW ledger \in Seq(Entry)
    PROVE  Debited(ledger) \in Nat
BY TotalType, EntriesNumbered DEF Debited

LEMMA LongerStays ==
    ASSUME NEW a, NEW b, NEW job, NEW rows \in Seq(Row), NEW f, NEW x \in Row,
           Longer(a, b, job, rows, f)
    PROVE  Longer(a, b, job, Append(rows, x), f)
<1>1. SpoolsOf(rows, f) \subseteq SpoolsOf(Append(rows, x), f)
  BY RowsAppend
<1>2. OneRow(Append(rows, x), f) => OneRow(rows, f)
  BY RowsAppend
<1> QED
  BY <1>1, <1>2 DEF Longer

LEMMA LongerStep ==
    ASSUME NEW a \in Spool, NEW b \in Spool, NEW job \in Jobs, NEW rows \in Seq(Row),
           NEW u \in Usage, NEW taken \in Nat, taken <= b.weight,
           Longer(a, b, job, rows, u.fil)
    PROVE  LET c == Lighter(b, job, u.grams, taken)
               more == Append(rows, RowOf(u, b.id, taken))
           IN /\ Longer(a, c, job, more, u.fil)
              /\ Total(c.ledger, Grown(a, c)) = Total(b.ledger, Grown(a, b)) + taken
              /\ Len(a.ledger) < Len(c.ledger)
<1> DEFINE e == [job |-> job, grams |-> u.grams, debited |-> taken]
<1> DEFINE c == Lighter(b, job, u.grams, taken)
<1> DEFINE x == RowOf(u, b.id, taken)
<1> DEFINE more == Append(rows, x)
<1>1. /\ c.id = b.id /\ c.weight = b.weight - taken /\ c.ledger = Append(b.ledger, e)
      /\ b.ledger \in Seq(Entry) /\ b.weight \in Nat /\ b.id \in Spools /\ e \in Entry
      /\ e.job = job /\ e.debited = taken /\ job # None /\ b.id # None
      /\ a.ledger \in Seq(Entry) /\ a.weight \in Nat
  BY PrintJobsAssumption DEF Lighter, Spool, Entry, Usage
<1>2. x \in Row /\ x.fil = u.fil /\ x.spool = b.id
  BY <1>1 DEF RowOf, Row, Usage
<1> HIDE DEF c, e, x
<1>3. /\ Len(c.ledger) = Len(b.ledger) + 1 /\ Len(a.ledger) \in Nat /\ Len(b.ledger) \in Nat
      /\ \A k \in 1..Len(b.ledger) : c.ledger[k] = b.ledger[k]
      /\ c.ledger[Len(b.ledger) + 1] = e
  BY <1>1
<1>4. /\ b.id = a.id /\ Len(a.ledger) <= Len(b.ledger)
      /\ \A k \in 1..Len(a.ledger) : b.ledger[k] = a.ledger[k]
      /\ \A k \in Grown(a, b) : b.ledger[k].job = job
      /\ b.weight + Debited(b.ledger) = a.weight + Debited(a.ledger)
      /\ a.id \in SpoolsOf(rows, u.fil) \/ b = a
      /\ OneRow(rows, u.fil) => Len(b.ledger) <= Len(a.ledger) + 1
  BY DEF Longer
<1>5. \A k \in 1..Len(a.ledger) : c.ledger[k] = a.ledger[k]
  BY <1>3, <1>4
<1>6. ASSUME NEW k \in Grown(a, c) PROVE c.ledger[k].job = job
  <2>1. k \in Grown(a, b) \/ k = Len(b.ledger) + 1
    BY <1>3, <1>4 DEF Grown
  <2>2. k \in Grown(a, b) => k \in 1..Len(b.ledger)
    BY <1>3 DEF Grown
  <2> QED
    BY <2>1, <2>2, <1>1, <1>3, <1>4
<1>7. c.weight + Debited(c.ledger) = a.weight + Debited(a.ledger)
  <2>1. Debited(c.ledger) = Debited(b.ledger) + taken
    BY <1>1, DebitedAppend
  <2>2. Debited(b.ledger) \in Nat
    BY <1>1, DebitedType
  <2> QED
    BY <2>1, <2>2, <1>1, <1>4
<1>8. a.id \in SpoolsOf(more, u.fil)
  <2>1. SpoolsOf(more, u.fil) = SpoolsOf(rows, u.fil) \cup ({x.spool} \ {None})
    BY <1>2, RowsAppend
  <2> HIDE DEF more
  <2> QED
    BY <2>1, <1>1, <1>2, <1>4
<1>9. OneRow(more, u.fil) => Len(c.ledger) <= Len(a.ledger) + 1
  <2>1. OneRow(more, u.fil) => SpoolsOf(rows, u.fil) = {}
    BY <1>2, RowsAppend
  <2> HIDE DEF more
  <2> QED
    BY <2>1, <1>3, <1>4
<1> HIDE DEF more
<1>10. Total(c.ledger, Grown(a, c)) = Total(b.ledger, Grown(a, b)) + taken
  <2>1. \A i \in 1..Len(b.ledger) : i \in Grown(a, c) <=> i \in Grown(a, b)
    BY <1>3 DEF Grown
  <2>2. Len(b.ledger) + 1 \in Grown(a, c)
    BY <1>3, <1>4 DEF Grown
  <2>3. Total(c.ledger, Grown(a, c)) = Total(b.ledger, Grown(a, b))
            + (IF Len(b.ledger) + 1 \in Grown(a, c) THEN e.debited ELSE 0)
    BY <1>1, <2>1, TotalAppend, EntriesNumbered
  <2> QED
    BY <2>2, <2>3, <1>1
<1>11. Longer(a, c, job, more, u.fil)
  <2>1. c.id = a.id /\ Len(a.ledger) <= Len(c.ledger)
    BY <1>1, <1>3, <1>4
  <2>2. \A k \in Grown(a, c) : c.ledger[k].job = job
    BY <1>6
  <2> QED
    BY <2>1, <2>2, <1>5, <1>7, <1>8, <1>9 DEF Longer
<1> QED
  BY <1>3, <1>4, <1>10, <1>11 DEF c, x, more

\* What a job does to a filament: d becomes e.
Distinct(d) == \A i, k \in DOMAIN d.spools : d.spools[i].id = d.spools[k].id => i = k
Charge(d, e, job, rows, f) ==
    /\ e.ver = d.ver /\ e.gross = d.gross /\ e.parent = d.parent
    /\ Len(e.spools) = Len(d.spools)
    /\ \A i \in DOMAIN d.spools : Longer(d.spools[i], e.spools[i], job, rows, f)
    /\ Distinct(d) => \A i \in DOMAIN d.spools :
          /\ Total(e.spools[i].ledger, Grown(d.spools[i], e.spools[i])) =
                TakenBy(rows, f, d.spools[i].id)
          /\ d.spools[i].id \in SpoolsOf(rows, f) =>
                Len(d.spools[i].ledger) < Len(e.spools[i].ledger)

LEMMA ChargeStart ==
    ASSUME NEW d \in Doc, NEW job, NEW f
    PROVE  Charge(d, d, job, <<>>, f)
<1>1. /\ DOMAIN <<>> = {} /\ <<>> \in Seq(Row) /\ d.spools \in Seq(Spool)
      /\ DOMAIN d.spools = 1..Len(d.spools)
  BY DEF Doc
<1>2. SpoolsOf(<<>>, f) = {}
  BY <1>1 DEF SpoolsOf
<1>3. ASSUME NEW i \in DOMAIN d.spools
      PROVE  /\ Longer(d.spools[i], d.spools[i], job, <<>>, f)
             /\ Total(d.spools[i].ledger, Grown(d.spools[i], d.spools[i])) = 0
             /\ TakenBy(<<>>, f, d.spools[i].id) = 0
  <2> DEFINE a == d.spools[i]
  <2>0. a \in Spool
    BY <1>1
  <2> HIDE DEF a
  <2>1. a \in Spool /\ a.ledger \in Seq(Entry) /\ Len(a.ledger) \in Nat
    BY <2>0 DEF Spool
  <2>2. Grown(a, a) = {}
    BY <2>1 DEF Grown
  <2>3. Longer(a, a, job, <<>>, f)
    BY <2>1, <2>2 DEF Longer
  <2>4. Total(a.ledger, Grown(a, a)) = 0
    BY <2>1, <2>2, TotalNone, EntriesNumbered
  <2>5. TakenBy(<<>>, f, a.id) = 0
    BY <1>1, TotalNone, EntriesNumbered DEF TakenBy
  <2> QED
    BY <2>3, <2>4, <2>5 DEF a
<1> QED
  BY <1>2, <1>3 DEF Charge

LEMMA ChargePassed ==
    ASSUME NEW d, NEW e, NEW job, NEW rows \in Seq(Row), NEW f, NEW x \in Row,
           Charge(d, e, job, rows, f), x.fil = f => x.spool = None,
           None \notin {d.spools[i].id : i \in DOMAIN d.spools}
    PROVE  Charge(d, e, job, Append(rows, x), f)
<1>1. SpoolsOf(Append(rows, x), f) = SpoolsOf(rows, f)
  <2>1. SpoolsOf(Append(rows, x), f) =
           SpoolsOf(rows, f) \cup (IF x.fil = f THEN {x.spool} \ {None} ELSE {})
    BY RowsAppend
  <2>2. (IF x.fil = f THEN {x.spool} \ {None} ELSE {}) = {}
    OBVIOUS
  <2> QED
    BY <2>1, <2>2
<1>2. ASSUME NEW i \in DOMAIN d.spools
      PROVE  TakenBy(Append(rows, x), f, d.spools[i].id) = TakenBy(rows, f, d.spools[i].id)
  <2>1. TakenBy(rows, f, d.spools[i].id) \in Nat
    BY TotalType, EntriesNumbered DEF TakenBy
  <2> QED
    BY <2>1, TakenAppend
<1>3. \A i \in DOMAIN d.spools : Longer(d.spools[i], e.spools[i], job, Append(rows, x), f)
  BY LongerStays DEF Charge
<1> QED
  BY <1>1, <1>2, <1>3 DEF Charge

LEMMA ChargeTaken ==
    ASSUME NEW d \in Doc, NEW e \in Doc, NEW job \in Jobs, NEW rows \in Seq(Row),
           NEW u \in Usage, NEW n \in DOMAIN e.spools, NEW taken \in Nat,
           taken <= e.spools[n].weight, Charge(d, e, job, rows, u.fil)
    PROVE  Charge(d, [e EXCEPT !.spools = [@ EXCEPT ![n] = Lighter(e.spools[n], job, u.grams, taken)]],
                  job, Append(rows, RowOf(u, e.spools[n].id, taken)), u.fil)
<1> DEFINE c == Lighter(e.spools[n], job, u.grams, taken)
<1> DEFINE g == [e EXCEPT !.spools = [e.spools EXCEPT ![n] = c]]
<1> DEFINE x == RowOf(u, e.spools[n].id, taken)
<1> DEFINE more == Append(rows, x)
<1> DEFINE f == u.fil
<1>1. /\ d.spools \in Seq(Spool) /\ e.spools \in Seq(Spool)
      /\ Len(e.spools) = Len(d.spools)
      /\ DOMAIN d.spools = 1..Len(d.spools) /\ DOMAIN e.spools = DOMAIN d.spools
  BY DEF Doc, Charge
<1>2. /\ \A i \in DOMAIN d.spools : d.spools[i] \in Spool /\ e.spools[i] \in Spool
      /\ e.spools[n] \in Spool /\ d.spools[n] \in Spool /\ n \in DOMAIN d.spools
  BY <1>1
<1>3. x \in Row /\ x.fil = f /\ x.spool = e.spools[n].id /\ x.debited = taken /\ f \in Fils
  BY <1>2 DEF RowOf, Row, Usage, Spool
<1>4. \A i \in DOMAIN d.spools :
         Longer(d.spools[i], e.spools[i], job, rows, f) /\ e.spools[i].id = d.spools[i].id
  BY DEF Charge, Longer
<1> HIDE DEF c
<1>5. /\ g.ver = d.ver /\ g.gross = d.gross /\ g.parent = d.parent
      /\ Len(g.spools) = Len(d.spools)
      /\ \A i \in DOMAIN d.spools : g.spools[i] = IF i = n THEN c ELSE e.spools[i]
  BY <1>1 DEF Charge, Doc
<1> HIDE DEF g, x, f
<1>6. /\ Longer(d.spools[n], c, job, more, f)
      /\ Total(c.ledger, Grown(d.spools[n], c)) =
            Total(e.spools[n].ledger, Grown(d.spools[n], e.spools[n])) + taken
      /\ Len(d.spools[n].ledger) < Len(c.ledger)
  BY <1>2, <1>4, LongerStep DEF c, x, f
<1>7. ASSUME NEW i \in DOMAIN d.spools
      PROVE  Longer(d.spools[i], g.spools[i], job, more, f)
  BY <1>3, <1>4, <1>5, <1>6, LongerStays
<1>8. SpoolsOf(more, f) = SpoolsOf(rows, f) \cup ({x.spool} \ {None})
  BY <1>3, RowsAppend
<1>9. ASSUME Distinct(d), NEW i \in DOMAIN d.spools
      PROVE  /\ Total(g.spools[i].ledger, Grown(d.spools[i], g.spools[i])) =
                   TakenBy(more, f, d.spools[i].id)
             /\ d.spools[i].id \in SpoolsOf(more, f) =>
                   Len(d.spools[i].ledger) < Len(g.spools[i].ledger)
  <2>1. /\ Total(e.spools[i].ledger, Grown(d.spools[i], e.spools[i])) = TakenBy(rows, f, d.spools[i].id)
        /\ d.spools[i].id \in SpoolsOf(rows, f) => Len(d.spools[i].ledger) < Len(e.spools[i].ledger)
    BY <1>9 DEF Charge, f
  <2>2. TakenBy(more, f, d.spools[i].id) =
           TakenBy(rows, f, d.spools[i].id) + (IF x.spool = d.spools[i].id THEN taken ELSE 0)
    BY <1>3, TakenAppend
  <2>3. TakenBy(rows, f, d.spools[i].id) \in Nat
    BY TotalType, EntriesNumbered DEF TakenBy
  <2>4. CASE i = n
    BY <2>1, <2>2, <2>4, <1>3, <1>4, <1>5, <1>6
  <2>5. CASE i # n
    <3>1. x.spool # d.spools[i].id
      BY <2>5, <1>2, <1>3, <1>4, <1>9 DEF Distinct
    <3>2. g.spools[i] = e.spools[i]
      BY <2>5, <1>5
    <3> HIDE DEF more
    <3> QED
      BY <2>1, <2>2, <2>3, <3>1, <3>2, <1>8
  <2> QED
    BY <2>4, <2>5
<1>10. Charge(d, g, job, more, f)
  <2> HIDE DEF more
  <2> QED
    BY <1>5, <1>7, <1>9 DEF Charge
<1> QED
  BY <1>10 DEF c, g, x, more, f

\* What Applied comes to.
Charging(usage, docs, job, acc) ==
    /\ acc \in Accounts(usage)
    /\ \A k \in DOMAIN acc.rows : acc.rows[k].fil = usage[k].fil
    /\ \A f \in Fils : docs[f] = NoFil => acc.docs[f] = NoFil
    /\ \A f \in Fils : docs[f] # NoFil =>
          acc.docs[f] # NoFil /\ Charge(docs[f], acc.docs[f], job, acc.rows, f)

LEMMA NoneIsNoSpool ==
    ASSUME NEW d \in Doc
    PROVE  None \notin {d.spools[i].id : i \in DOMAIN d.spools}
<1>1. \A i \in DOMAIN d.spools : d.spools[i] \in Spool
  BY DEF Doc
<1>2. \A i \in DOMAIN d.spools : d.spools[i].id \in Spools
  BY <1>1 DEF Spool
<1> QED
  BY <1>2, PrintJobsAssumption

LEMMA ChargingStep ==
    ASSUME NEW usage \in Seq(Usage), NEW job \in Jobs, NEW docs, Debitable(usage, docs),
           NEW n \in 1..Len(usage), NEW acc \in Accounts(usage),
           Len(acc.rows) = n - 1, Charging(usage, docs, job, acc)
    PROVE  /\ Len(ApplyUsage(job, acc, usage[n]).rows) = n
           /\ Charging(usage, docs, job, ApplyUsage(job, acc, usage[n]))
<1> DEFINE u == usage[n]
<1> DEFINE a == ApplyUsage(job, acc, u)
<1>1. /\ u \in Usage /\ n \in Nat /\ acc \in Accs /\ acc.docs[u.fil] # NoFil
      /\ acc.rows \in Seq(Row) /\ u.fil \in Fils
  <2>1. u \in Usage
    OBVIOUS
  <2> QED
    BY <2>1 DEF Accounts, Accs, Usage
<1>2. a \in Accounts(usage)
  BY <1>1, ApplyUsageType
<1>3. /\ \A k \in DOMAIN acc.rows : acc.rows[k].fil = usage[k].fil
      /\ \A f \in Fils : docs[f] = NoFil => acc.docs[f] = NoFil
      /\ \A f \in Fils : docs[f] # NoFil =>
            acc.docs[f] # NoFil /\ Charge(docs[f], acc.docs[f], job, acc.rows, f)
      /\ \A f \in Fils : docs[f] # NoFil => docs[f] \in Doc /\ acc.docs[f] \in Doc
  BY <1>1 DEF Charging, Debitable, Accs
<1>4. ASSUME NEW x \in Row, x.fil = u.fil, a.rows = Append(acc.rows, x)
      PROVE  Len(a.rows) = n /\ \A k \in DOMAIN a.rows : a.rows[k].fil = usage[k].fil
  <2>1. /\ Len(a.rows) = n /\ DOMAIN a.rows = 1..n /\ DOMAIN acc.rows = 1..(n - 1)
        /\ \A k \in 1..(n - 1) : a.rows[k] = acc.rows[k]
        /\ a.rows[n] = x
    BY <1>1, <1>4
  <2> HIDE DEF a
  <2> QED
    BY <2>1, <1>3, <1>4
<1>5. \A f \in Fils : docs[f] # NoFil => None \notin {docs[f].spools[i].id : i \in DOMAIN docs[f].spools}
  BY <1>3, NoneIsNoSpool
<1>6. Passed(acc, a, u) \/ \E i, taken : Taking(acc, a, u, job, i, taken)
  BY <1>1, ApplyUsageEffect
<1> HIDE DEF a, u
<1>7. CASE Passed(acc, a, u)
  <2>1. RowOf(u, None, 0) \in Row /\ RowOf(u, None, 0).fil = u.fil /\ RowOf(u, None, 0).spool = None
    BY <1>1 DEF RowOf, Row, Usage
  <2>2. a.docs = acc.docs /\ a.rows = Append(acc.rows, RowOf(u, None, 0))
    BY <1>7 DEF Passed
  <2>3. ASSUME NEW f \in Fils, docs[f] # NoFil
        PROVE  Charge(docs[f], a.docs[f], job, a.rows, f)
    BY <1>1, <1>3, <1>5, <2>1, <2>2, <2>3, ChargePassed
  <2> QED
    BY <1>2, <1>3, <1>4, <2>1, <2>2, <2>3 DEF Charging, a, u
<1>8. ASSUME NEW i, NEW taken, Taking(acc, a, u, job, i, taken)
      PROVE  Len(a.rows) = n /\ Charging(usage, docs, job, a)
  <2> DEFINE d == acc.docs[u.fil]
  <2> DEFINE x == RowOf(u, d.spools[i].id, taken)
  <2> DEFINE e == [d EXCEPT !.spools = [@ EXCEPT ![i] = Lighter(d.spools[i], job, u.grams, taken)]]
  <2>1. /\ i \in DOMAIN d.spools /\ taken \in Nat /\ taken <= d.spools[i].weight
        /\ a.docs = [acc.docs EXCEPT ![u.fil] = e]
        /\ a.rows = Append(acc.rows, x)
    BY <1>8 DEF Taking
  <2> HIDE DEF e
  <2>2. d \in Doc /\ docs[u.fil] # NoFil /\ docs[u.fil] \in Doc
    BY <1>1, <1>3 DEF Accs
  <2>3. d.spools[i] \in Spool /\ d.spools[i].id \in Spools
    <3> HIDE DEF d
    <3>1. d.spools \in Seq(Spool)
      BY <2>2 DEF Doc
    <3>2. d.spools[i] \in Spool
      BY <2>1, <3>1
    <3> QED
      BY <3>2 DEF Spool
  <2>4. x \in Row /\ x.fil = u.fil
    BY <2>1, <2>3, <1>1 DEF RowOf, Row, Usage
  <2>5. Charge(docs[u.fil], e, job, a.rows, u.fil)
    <3>1. Charge(docs[u.fil], d, job, acc.rows, u.fil)
      BY <1>1, <1>3, <2>2
    <3> HIDE DEF d
    <3> DEFINE o == docs[u.fil]
    <3> HIDE DEF o
    <3>2. /\ o \in Doc /\ d \in Doc /\ acc.rows \in Seq(Row) /\ u \in Usage /\ i \in DOMAIN d.spools
          /\ taken \in Nat /\ taken <= d.spools[i].weight /\ Charge(o, d, job, acc.rows, u.fil)
      BY <3>1, <1>1, <2>1, <2>2 DEF o
    <3>3. Charge(o, [d EXCEPT !.spools = [@ EXCEPT ![i] = Lighter(d.spools[i], job, u.grams, taken)]],
                 job, Append(acc.rows, RowOf(u, d.spools[i].id, taken)), u.fil)
      BY <3>2, ChargeTaken
    <3> QED
      BY <3>3, <2>1 DEF e, o
  <2>6. ASSUME NEW f \in Fils, docs[f] # NoFil
        PROVE  a.docs[f] # NoFil /\ Charge(docs[f], a.docs[f], job, a.rows, f)
    <3>1. CASE f = u.fil
      <4>1. a.docs[f] = e
        BY <3>1, <2>1, <1>1 DEF Accs
      <4>2. e # NoFil
        <5>1. a.docs[u.fil] # NoFil
          BY <1>2 DEF Accounts, u
        <5> QED
          BY <5>1, <4>1, <3>1
      <4> QED
        BY <4>1, <4>2, <3>1, <2>5
    <3>2. CASE f # u.fil
      <4>1. a.docs[f] = acc.docs[f]
        BY <3>2, <2>1, <1>1 DEF Accs
      <4> HIDE DEF d, x
      <4>2. Charge(docs[f], acc.docs[f], job, acc.rows, f)
            /\ None \notin {docs[f].spools[k].id : k \in DOMAIN docs[f].spools}
        BY <2>6, <1>3, <1>5
      <4>3. Charge(docs[f], acc.docs[f], job, Append(acc.rows, x), f)
        BY <4>2, <2>4, <3>2, <1>1, ChargePassed
      <4> QED
        BY <4>1, <4>3, <2>1, <2>6, <1>3
    <3> QED
      BY <3>1, <3>2
  <2>7. \A f \in Fils : docs[f] = NoFil => a.docs[f] = NoFil
    BY <2>1, <2>2, <1>1, <1>3 DEF Accs
  <2>8. Len(a.rows) = n /\ \A k \in DOMAIN a.rows : a.rows[k].fil = usage[k].fil
    <3> HIDE DEF x
    <3> QED
      BY <1>4, <2>1, <2>4
  <2> QED
    BY <1>2, <2>6, <2>7, <2>8 DEF Charging
<1> QED
  BY <1>6, <1>7, <1>8 DEF a, u

LEMMA AppliedCharges ==
    ASSUME NEW usage \in Seq(Usage), NEW job \in Jobs, NEW docs, Debitable(usage, docs)
    PROVE  /\ Len(Applied(job, usage, docs).rows) = Len(usage)
           /\ Charging(usage, docs, job, Applied(job, usage, docs))
<1> DEFINE Q == [n \in Nat |->
        {acc \in Accounts(usage) : Len(acc.rows) = n /\ Charging(usage, docs, job, acc)}]
<1> DEFINE first == [docs |-> docs, rows |-> <<>>, ok |-> TRUE]
<1>1. first \in Q[0]
  <2>1. /\ first.docs = docs /\ first.rows = <<>> /\ first.ok = TRUE /\ <<>> \in Seq(Row)
        /\ Len(first.rows) = 0 /\ DOMAIN first.rows = {}
    OBVIOUS
  <2>2. first \in Accounts(usage)
    BY <2>1 DEF Accounts, Accs, Debitable
  <2>3. ASSUME NEW f \in Fils, docs[f] # NoFil
        PROVE  Charge(docs[f], docs[f], job, <<>>, f)
    BY <2>3, ChargeStart DEF Debitable
  <2> HIDE DEF first
  <2>4. Charging(usage, docs, job, first)
    BY <2>1, <2>2, <2>3 DEF Charging
  <2> QED
    BY <2>1, <2>2, <2>4
<1>2. ASSUME NEW n \in 1..Len(usage), NEW acc \in Accounts(usage), acc \in Q[n - 1]
      PROVE  ApplyUsage(job, acc, usage[n]) \in Q[n]
  <2>1. n \in Nat /\ n - 1 \in Nat
    OBVIOUS
  <2>2. Len(acc.rows) = n - 1 /\ Charging(usage, docs, job, acc)
    BY <1>2, <2>1
  <2>3. /\ Len(ApplyUsage(job, acc, usage[n]).rows) = n
        /\ Charging(usage, docs, job, ApplyUsage(job, acc, usage[n]))
    BY <2>2, ChargingStep
  <2>4. ApplyUsage(job, acc, usage[n]) \in Accounts(usage)
    BY <2>3 DEF Charging
  <2> QED
    BY <2>1, <2>3, <2>4
<1>3. Len(usage) \in Nat
  OBVIOUS
<1> HIDE DEF Q
<1>4. Applied(job, usage, docs) \in Q[Len(usage)]
  BY <1>1, <1>2, AppliedKeeps
<1> QED
  BY <1>3, <1>4 DEF Q

-----------------------------------------------------------------------------
(* Types, and what they need: the documents a job read line up with the    *)
(* stored ones while their versions agree, versions only go up, and a      *)
(* record is not deleted before it is written.                             *)

FilType == [Fils -> Doc \cup {NoFil}]
ReqType == JobReq \cup DeleteReq \cup PromoteReq \cup {Idle}
Reading == {"check", "migrate"}
Early == {"check", "migrate", "save"}

SameSpools(d, e) ==
    /\ Len(e.spools) = Len(d.spools)
    /\ \A i \in DOMAIN d.spools : e.spools[i].id = d.spools[i].id

\* A filament stays, and changes its list of spools under a new version only.
Evolves(F, G) ==
    \A f \in Fils : F[f] # NoFil =>
        /\ G[f] # NoFil /\ F[f].ver <= G[f].ver
        /\ F[f].ver = G[f].ver => SameSpools(F[f], G[f])

FitsFil(r, F, f) ==
    /\ r.docs[f] # NoFil /\ F[f] # NoFil /\ r.docs[f].ver <= F[f].ver
    /\ r.docs[f].ver = F[f].ver /\ (r.pc \in Reading \/ SpoolsOf(r.rows, f) # {})
          => SameSpools(r.docs[f], F[f])
FitsRows(r) ==
    /\ r.todo \subseteq FilsOf(r.usage)
    /\ r.pc \notin Reading => Len(r.rows) = Len(r.usage)
                              /\ \A k \in DOMAIN r.rows : r.rows[k].fil = r.usage[k].fil
Fits(r, F) ==
    /\ r.kind = "job" => FitsRows(r) /\ \A f \in FilsOf(r.usage) : FitsFil(r, F, f)
    /\ r.kind = "promote" => F[r.from] # NoFil

Based ==
    \A f \in Fils : fil[f] # NoFil =>
        \A i \in DOMAIN fil[f].spools : base[fil[f].spools[i].id] # None

\* The record of a job that is not through is not there, nor being deleted.
Hidden(j) == ~hist[j].live /\ \A d \in Clients : req[d].kind = "delete" => req[d].job # j
LiveAnswered == \A j \in Jobs : hist[j].live => hist[j].rows # <<>> /\ answer[j] # None
DeletesAnswered ==
    \A c \in Clients : req[c].kind = "delete" =>
        Len(hist[req[c].job].rows) = Len(req[c].rows) /\ answer[req[c].job] # None
JobsAnswered ==
    \A c \in Clients : req[c].kind = "job" =>
        /\ answer[req[c].job] # None
        /\ req[c].pc = "undo" => req[c].undo # None
        /\ req[c].pc \in Early => Hidden(req[c].job)
OneRequest ==
    \A c, d \in Clients : req[c].kind = "job" /\ req[d].kind = "job" /\ req[c].job = req[d].job
        => c = d
Booked == LiveAnswered /\ DeletesAnswered /\ JobsAnswered /\ OneRequest

TInv == TypeOK /\ Based /\ Booked /\ \A c \in Clients : Fits(req[c], fil)

LEMMA SameSpoolsChain ==
    \A d, e, g : SameSpools(d, e) /\ SameSpools(e, g) /\ DOMAIN d.spools = DOMAIN e.spools
                    => SameSpools(d, g)
  BY DEF SameSpools

LEMMA FilsOfIn ==
    ASSUME NEW u \in Usages
    PROVE  /\ u \in Seq(Usage) /\ Len(u) \in Nat \ {0} /\ DOMAIN u = 1..Len(u)
           /\ FilsOf(u) \subseteq Fils /\ FilsOf(u) # {}
           /\ \A i \in DOMAIN u : u[i] \in Usage /\ u[i].fil \in FilsOf(u)
<1>1. u \in Seq(Usage) /\ u # <<>>
  BY PrintJobsAssumption
<1>2. Len(u) \in Nat \ {0} /\ DOMAIN u = 1..Len(u) /\ \A i \in DOMAIN u : u[i] \in Usage
  BY <1>1
<1>3. \A i \in DOMAIN u : u[i].fil \in Fils
  BY <1>2 DEF Usage
<1>4. 1 \in DOMAIN u
  BY <1>2
<1> QED
  BY <1>1, <1>2, <1>3, <1>4 DEF FilsOf

LEMMA FilDoc ==
    ASSUME NEW F \in FilType, NEW f \in Fils, F[f] # NoFil
    PROVE  /\ F[f] \in Doc /\ F[f].ver \in Nat /\ F[f].spools \in Seq(Spool)
           /\ F[f].gross \in Nat \cup {None} /\ F[f].parent \in Fils \cup {None}
           /\ DOMAIN F[f].spools = 1..Len(F[f].spools) /\ Len(F[f].spools) \in Nat
           /\ \A i \in DOMAIN F[f].spools : F[f].spools[i] \in Spool
<1>1. F[f] \in Doc
  BY DEF FilType
<1>2. F[f].spools \in Seq(Spool)
  BY <1>1 DEF Doc
<1> QED
  BY <1>1, <1>2 DEF Doc

LEMMA DocIsNotNoFil == \A d \in Doc : d # NoFil
  BY PrintJobsAssumption

LEMMA SpoolFields ==
    ASSUME NEW sp \in Spool
    PROVE  sp.id \in Spools /\ sp.weight \in Nat /\ sp.ledger \in Seq(Entry)
           /\ DOMAIN sp.ledger = 1..Len(sp.ledger) /\ Len(sp.ledger) \in Nat
           /\ \A k \in DOMAIN sp.ledger : sp.ledger[k] \in Entry
<1>1. sp.id \in Spools /\ sp.weight \in Nat /\ sp.ledger \in Seq(Entry)
  BY DEF Spool
<1> QED
  BY <1>1

\* One filament is written.
LEMMA EvolvesOne ==
    ASSUME NEW F \in FilType, NEW f \in Fils, F[f] # NoFil, NEW e \in Doc,
           F[f].ver <= e.ver, F[f].ver = e.ver => SameSpools(F[f], e)
    PROVE  [F EXCEPT ![f] = e] \in FilType /\ Evolves(F, [F EXCEPT ![f] = e])
<1>1. e # NoFil /\ \A g \in Fils : F[g] # NoFil => F[g].ver \in Nat
  BY FilDoc, DocIsNotNoFil
<1> QED
  BY <1>1 DEF FilType, Evolves, SameSpools

LEMMA EvolvesNot == \A F \in FilType : Evolves(F, F)
<1>1. ASSUME NEW F \in FilType, NEW f \in Fils, F[f] # NoFil PROVE F[f].ver \in Nat
  BY <1>1, FilDoc
<1> QED
  BY <1>1 DEF Evolves, SameSpools

\* A request that is let alone fits what the others write.
LEMMA FitsEvolves ==
    ASSUME NEW F \in FilType, NEW G \in FilType, Evolves(F, G), NEW r \in ReqType, Fits(r, F)
    PROVE  Fits(r, G)
<1>1. CASE r.kind = "job"
  <2>1. r \in JobReq
    BY <1>1 DEF ReqType, DeleteReq, PromoteReq, Idle
  <2>2. r.docs \in FilType /\ r.usage \in Usages
    BY <2>1 DEF JobReq, FilType
  <2>3. ASSUME NEW f \in FilsOf(r.usage) PROVE FitsFil(r, G, f)
    <3>1. f \in Fils /\ FitsFil(r, F, f)
      BY <1>1, <2>2, FilsOfIn DEF Fits
    <3>2. r.docs[f] # NoFil /\ F[f] # NoFil /\ r.docs[f].ver <= F[f].ver
      BY <3>1 DEF FitsFil
    <3>3. /\ r.docs[f].ver \in Nat /\ F[f].ver \in Nat
          /\ DOMAIN F[f].spools = 1..Len(F[f].spools)
          /\ DOMAIN r.docs[f].spools = 1..Len(r.docs[f].spools)
      BY <2>2, <3>1, <3>2, FilDoc
    <3>4. /\ G[f] # NoFil /\ F[f].ver <= G[f].ver
          /\ F[f].ver = G[f].ver => SameSpools(F[f], G[f])
      BY <3>1, <3>2 DEF Evolves
    <3>5. G[f].ver \in Nat
      BY <3>1, <3>4, FilDoc
    <3>6. ASSUME r.docs[f].ver = G[f].ver, r.pc \in Reading \/ SpoolsOf(r.rows, f) # {}
          PROVE  SameSpools(r.docs[f], G[f])
      <4>1. r.docs[f].ver = F[f].ver /\ F[f].ver = G[f].ver
        BY <3>2, <3>3, <3>4, <3>5, <3>6
      <4>2. SameSpools(r.docs[f], F[f]) /\ SameSpools(F[f], G[f])
        BY <4>1, <3>1, <3>4, <3>6 DEF FitsFil
      <4>3. DOMAIN r.docs[f].spools = DOMAIN F[f].spools
        BY <4>2, <3>3 DEF SameSpools
      <4> QED
        BY <4>2, <4>3, SameSpoolsChain
    <3>7. r.docs[f].ver <= G[f].ver
      BY <3>2, <3>3, <3>4, <3>5
    <3> QED
      BY <3>2, <3>4, <3>6, <3>7 DEF FitsFil
  <2> QED
    BY <1>1, <2>3 DEF Fits
<1>2. CASE r.kind # "job"
  <2>1. r.kind = "promote" => r.from \in Fils
    BY DEF ReqType, PromoteReq, DeleteReq, JobReq, Idle
  <2> QED
    BY <1>2, <2>1 DEF Fits, Evolves
<1> QED
  BY <1>1, <1>2

LEMMA KindOf ==
    ASSUME NEW r \in ReqType
    PROVE  /\ r.kind = "job" => r \in JobReq
           /\ r.kind = "delete" => r \in DeleteReq
           /\ r.kind = "promote" => r \in PromoteReq
           /\ r.kind = "idle" => r = Idle
           /\ r \in JobReq => r.kind = "job"
           /\ r \in DeleteReq => r.kind = "delete"
           /\ r \in PromoteReq => r.kind = "promote"
           /\ r = Idle => r.kind = "idle"
BY DEF ReqType, JobReq, DeleteReq, PromoteReq, Idle

HistFollows ==
    \A j \in Jobs : Len(hist'[j].rows) = Len(hist[j].rows) /\ (hist'[j].live => hist[j].live)
AnswersStay == \A j \in Jobs : answer[j] # None => answer'[j] # None

\* A request goes on, or ends, without a record being written.
LEMMA BookedKept ==
    ASSUME TypeOK, Booked, hist' \in [Jobs -> Hist], HistFollows, AnswersStay,
           NEW c \in Clients, NEW r \in ReqType, req' = [req EXCEPT ![c] = r],
           r.kind = "job" =>
              /\ req[c].kind = "job" /\ r.job = req[c].job
              /\ r.pc = "undo" => r.undo # None
              /\ r.pc \in Early => req[c].pc \in Early,
           r.kind = "delete" => req[c].kind = "delete" /\ r.job = req[c].job /\ r.rows = req[c].rows
    PROVE  Booked'
<1>1. req \in [Clients -> ReqType] /\ hist \in [Jobs -> Hist]
  BY DEF TypeOK, ReqType
<1>2. \A d \in Clients : req'[d] = IF d = c THEN r ELSE req[d]
  BY <1>1
<1>3. \A d \in Clients : /\ req[d].kind = "job" => req[d].job \in Jobs
                         /\ req[d].kind = "delete" => req[d].job \in Jobs
  BY <1>1, KindOf DEF JobReq, DeleteReq
<1>4. LiveAnswered'
  <2>1. ASSUME NEW j \in Jobs, hist'[j].live PROVE hist'[j].rows # <<>> /\ answer'[j] # None
    <3>1. hist[j].rows # <<>> /\ answer[j] # None
      BY <2>1 DEF Booked, LiveAnswered, HistFollows
    <3>2. hist[j].rows \in Seq(Row) /\ hist'[j].rows \in Seq(Row)
      BY <1>1 DEF Hist
    <3>3. Len(hist[j].rows) # 0 /\ Len(hist'[j].rows) = Len(hist[j].rows)
      BY <3>1, <3>2 DEF HistFollows
    <3> QED
      BY <3>1, <3>2, <3>3 DEF AnswersStay
  <2> QED
    BY <2>1 DEF LiveAnswered
<1>5. DeletesAnswered'
  <2>1. ASSUME NEW d \in Clients, req'[d].kind = "delete"
        PROVE  Len(hist'[req'[d].job].rows) = Len(req'[d].rows) /\ answer'[req'[d].job] # None
    <3>1. req[d].kind = "delete" /\ req'[d].job = req[d].job /\ req'[d].rows = req[d].rows
      BY <1>2, <2>1
    <3>2. Len(hist[req[d].job].rows) = Len(req[d].rows) /\ answer[req[d].job] # None
      BY <3>1 DEF Booked, DeletesAnswered
    <3>3. req[d].job \in Jobs
      BY <1>3, <3>1
    <3> QED
      BY <3>1, <3>2, <3>3 DEF HistFollows, AnswersStay
  <2> QED
    BY <2>1 DEF DeletesAnswered
<1>6. ASSUME NEW d \in Clients, req'[d].kind = "job"
      PROVE  /\ req[d].kind = "job" /\ req'[d].job = req[d].job
             /\ req'[d].pc \in Early => req[d].pc \in Early
             /\ req'[d].pc = "undo" => req'[d].undo # None
  BY <1>2, <1>6 DEF Booked, JobsAnswered
<1>7. ASSUME NEW d \in Clients, req'[d].kind = "delete"
      PROVE  req[d].kind = "delete" /\ req'[d].job = req[d].job
  BY <1>2, <1>7
<1>8. ASSUME NEW j \in Jobs, Hidden(j) PROVE Hidden(j)'
  BY <1>7, <1>8 DEF Hidden, HistFollows
<1>9. JobsAnswered'
  <2>1. ASSUME NEW d \in Clients, req'[d].kind = "job"
        PROVE  /\ answer'[req'[d].job] # None
               /\ req'[d].pc = "undo" => req'[d].undo # None
               /\ req'[d].pc \in Early => Hidden(req[d].job)' /\ req'[d].job = req[d].job
    <3>1. req[d].job \in Jobs /\ answer[req[d].job] # None
      BY <1>3, <1>6, <2>1 DEF Booked, JobsAnswered
    <3>2. req'[d].pc \in Early => Hidden(req[d].job)
      BY <1>6, <2>1 DEF Booked, JobsAnswered
    <3> QED
      BY <1>6, <1>8, <2>1, <3>1, <3>2 DEF AnswersStay
  <2> QED
    BY <2>1 DEF JobsAnswered, Hidden
<1>10. OneRequest'
  BY <1>6 DEF Booked, OneRequest
<1> QED
  BY <1>4, <1>5, <1>9, <1>10 DEF Booked

BaseType == [Spools -> Int \cup {None}]
AnswerType == [Jobs -> Answers \cup {None}]
HolderType == [Fils -> Clients \cup {None}]

\* The rest of the state, and that of one request, keep their types.
LEMMA TypedStep ==
    ASSUME TInv, NEW c \in Clients, NEW r \in ReqType, req' = [req EXCEPT ![c] = r],
           fil' \in FilType, Evolves(fil, fil'), Fits(r, fil'), Booked',
           base' \in BaseType, Based', hist' \in [Jobs -> Hist], answer' \in AnswerType,
           holder' \in HolderType, replica' = replica, logs' \in Nat, fails' \in Nat
    PROVE  TInv'
<1>1. TypeOK /\ req \in [Clients -> ReqType] /\ fil \in FilType
  BY DEF TInv, TypeOK, ReqType, FilType
<1>2. TypeOK'
  BY <1>1 DEF TypeOK, FilType, ReqType, BaseType, AnswerType, HolderType
<1>3. ASSUME NEW d \in Clients PROVE Fits(req'[d], fil')
  <2>1. CASE d = c
    BY <1>1, <2>1
  <2>2. CASE d # c
    <3>1. req'[d] = req[d] /\ req[d] \in ReqType /\ Fits(req[d], fil)
      BY <1>1, <2>2 DEF TInv
    <3> QED
      BY <3>1, <1>1, FitsEvolves
  <2> QED
    BY <2>1, <2>2
<1> QED
  BY <1>2, <1>3 DEF TInv

\* A spool that is in a document now was in one before.
LEMMA BasedKept ==
    ASSUME Based, base' = base,
           \A f \in Fils : fil'[f] # NoFil => \A i \in DOMAIN fil'[f].spools :
               \E g \in Fils : fil[g] # NoFil /\ \E k \in DOMAIN fil[g].spools :
                   fil'[f].spools[i].id = fil[g].spools[k].id
    PROVE  Based'
BY DEF Based

LEMMA BasedSame ==
    ASSUME Based, UNCHANGED <<fil, base>>
    PROVE  Based'
BY DEF Based

\* One filament is written, with the spools it had.
LEMMA BasedOne ==
    ASSUME TypeOK, Based, base' = base, NEW f \in Fils, NEW e \in Doc, fil[f] # NoFil,
           SameSpools(fil[f], e), fil' = [fil EXCEPT ![f] = e]
    PROVE  Based'
<1>1. fil \in FilType
  BY DEF TypeOK, FilType
<1>2. DOMAIN fil[f].spools = 1..Len(fil[f].spools) /\ e.spools \in Seq(Spool)
  BY <1>1, FilDoc DEF Doc
<1>3. DOMAIN e.spools = DOMAIN fil[f].spools
  BY <1>2 DEF SameSpools
<1>4. ASSUME NEW g \in Fils, fil'[g] # NoFil, NEW i \in DOMAIN fil'[g].spools
      PROVE  base'[fil'[g].spools[i].id] # None
  <2>1. CASE g = f
    <3>1. fil'[g] = e /\ i \in DOMAIN fil[f].spools
      BY <1>1, <1>3, <1>4, <2>1 DEF FilType
    <3> QED
      BY <3>1, <2>1 DEF Based, SameSpools
  <2>2. CASE g # f
    BY <2>2, <1>1, <1>4 DEF Based, FilType
  <2> QED
    BY <2>1, <2>2
<1> QED
  BY <1>4 DEF Based

LEMMA AnswerStep ==
    ASSUME TypeOK, NEW j \in Jobs, NEW a \in Answers, Answer(j, a)
    PROVE  answer' \in AnswerType /\ AnswersStay
<1>1. a # None /\ answer \in AnswerType
  BY PrintJobsAssumption DEF TypeOK, AnswerType
<1> QED
  BY <1>1 DEF Answer, AnswersStay, AnswerType

LEMMA AnswerNot ==
    ASSUME TypeOK, answer' = answer
    PROVE  answer' \in AnswerType /\ AnswersStay
BY DEF TypeOK, AnswerType, AnswersStay

LEMMA HistNot ==
    ASSUME TypeOK, hist' = hist
    PROVE  hist' \in [Jobs -> Hist] /\ HistFollows
BY DEF TypeOK, HistFollows

LEMMA FilNot ==
    ASSUME TInv, fil' = fil, base' = base
    PROVE  fil' \in FilType /\ Evolves(fil, fil') /\ base' \in BaseType /\ Based'
<1>1. fil \in FilType /\ base \in BaseType /\ Based
  BY DEF TInv, TypeOK, FilType, BaseType
<1> QED
  BY <1>1, EvolvesNot, BasedSame

LEMMA HolderNot ==
    ASSUME TypeOK, holder' = holder
    PROVE  holder' \in HolderType
BY DEF TypeOK, HolderType

LEMMA DoneHolder ==
    ASSUME TypeOK, NEW c, Done(c)
    PROVE  req' = [req EXCEPT ![c] = Idle] /\ holder' \in HolderType
BY DEF TypeOK, HolderType, Done, Step

LEMMA IdleFits == Idle \in ReqType /\ \A F : Fits(Idle, F)
  BY DEF ReqType, Fits, Idle

LEMMA DoneBooked ==
    ASSUME TInv, NEW c \in Clients, Done(c), hist' \in [Jobs -> Hist], HistFollows, AnswersStay
    PROVE  Booked'
<1>1. req' = [req EXCEPT ![c] = Idle] /\ TypeOK /\ Booked /\ Idle \in ReqType
      /\ Idle.kind # "job" /\ Idle.kind # "delete"
  BY IdleFits DEF TInv, Done, Step, Idle
<1> QED
  BY <1>1, BookedKept

\* A request ends.
LEMMA DoneStep ==
    ASSUME TInv, NEW c \in Clients, Done(c),
           fil' \in FilType, Evolves(fil, fil'), base' \in BaseType, Based',
           hist' \in [Jobs -> Hist], Booked', answer' \in AnswerType,
           replica' = replica, logs' \in Nat, fails' \in Nat
    PROVE  TInv'
<1>1. /\ req' = [req EXCEPT ![c] = Idle] /\ holder' \in HolderType
      /\ Idle \in ReqType /\ Fits(Idle, fil')
  BY DoneHolder, IdleFits DEF TInv
<1> QED
  BY <1>1, TypedStep

\* A job goes on.
LEMMA JobGoes ==
    ASSUME TInv, NEW c \in Clients, req[c].kind = "job", NEW r \in JobReq,
           req' = [req EXCEPT ![c] = r], r.job = req[c].job,
           r.pc = "undo" => r.undo # None, r.pc \in Early => req[c].pc \in Early,
           fil' \in FilType, Evolves(fil, fil'), Fits(r, fil'), base' \in BaseType, Based',
           UNCHANGED <<hist, answer>>, holder' \in HolderType, replica' = replica,
           logs' \in Nat, fails' \in Nat
    PROVE  TInv'
<1>1. TypeOK /\ Booked /\ r \in ReqType /\ r.kind = "job"
  BY DEF TInv, ReqType, JobReq
<1>2. hist' \in [Jobs -> Hist] /\ HistFollows /\ answer' \in AnswerType /\ AnswersStay
  BY <1>1, HistNot, AnswerNot
<1>3. Booked'
  BY <1>1, <1>2, BookedKept
<1> QED
  BY <1>1, <1>2, <1>3, TypedStep

LEMMA FitsGoes ==
    ASSUME NEW F, NEW q \in JobReq, NEW r \in JobReq, Fits(q, F),
           r.docs = q.docs, r.usage = q.usage, r.rows = q.rows, r.todo \subseteq FilsOf(r.usage),
           r.pc \in Reading <=> q.pc \in Reading
    PROVE  Fits(r, F)
<1>1. q.kind = "job" /\ r.kind = "job"
  BY DEF JobReq
<1> QED
  BY <1>1 DEF Fits, FitsRows, FitsFil

\* A job reads on, or starts to take back what it did.
LEMMA JobGoesQuietly ==
    ASSUME TInv, NEW c \in Clients, req[c].kind = "job", NEW r \in JobReq,
           req' = [req EXCEPT ![c] = r], r.job = req[c].job,
           r.docs = req[c].docs, r.usage = req[c].usage, r.rows = req[c].rows,
           r.todo \subseteq FilsOf(r.usage), r.pc \in Reading <=> req[c].pc \in Reading,
           r.pc = "undo" => r.undo # None, r.pc \in Early => req[c].pc \in Early,
           UNCHANGED <<fil, base, hist, answer>>, holder' \in HolderType, replica' = replica,
           logs' \in Nat, fails' \in Nat
    PROVE  TInv'
<1>1. req[c] \in ReqType /\ Fits(req[c], fil)
  BY DEF TInv, TypeOK, ReqType
<1>2. req[c] \in JobReq
  BY <1>1, KindOf
<1>3. fil' \in FilType /\ Evolves(fil, fil') /\ base' \in BaseType /\ Based'
  BY FilNot
<1>4. Fits(r, fil')
  BY <1>1, <1>2, FitsGoes
<1> QED
  BY <1>3, <1>4, JobGoes

LEMMA JobTyped ==
    ASSUME TInv, NEW c \in Clients, req[c].kind = "job"
    PROVE  /\ req[c] \in JobReq /\ Fits(req[c], fil) /\ FitsRows(req[c])
           /\ req[c].usage \in Usages /\ FilsOf(req[c].usage) \subseteq Fils
           /\ req[c].todo \subseteq FilsOf(req[c].usage) /\ req[c].job \in Jobs
           /\ req[c].docs \in FilType /\ fil \in FilType /\ req[c].rows \in Seq(Row)
           /\ TypeOK /\ holder \in HolderType /\ logs \in Nat /\ fails \in Nat
           /\ \A f \in FilsOf(req[c].usage) : FitsFil(req[c], fil, f)
           /\ req[c].pc = "undo" => req[c].undo # None
<1>1. req[c] \in ReqType /\ Fits(req[c], fil) /\ TypeOK /\ fil \in FilType
  BY DEF TInv, TypeOK, ReqType, FilType
<1>2. req[c] \in JobReq
  BY <1>1, KindOf
<1>3. req[c].usage \in Usages /\ req[c].docs \in FilType /\ req[c].job \in Jobs /\ req[c].rows \in Seq(Row)
  BY <1>2 DEF JobReq, FilType
<1>4. FilsOf(req[c].usage) \subseteq Fils
  BY <1>3, FilsOfIn
<1>5. FitsRows(req[c]) /\ \A f \in FilsOf(req[c].usage) : FitsFil(req[c], fil, f)
  BY <1>1 DEF Fits
<1>6. req[c].pc = "undo" => req[c].undo # None
  BY DEF TInv, Booked, JobsAnswered
<1> QED
  BY <1>1, <1>2, <1>3, <1>4, <1>5, <1>6 DEF FitsRows, TypeOK, HolderType

LEMMA PostJobTyped ==
    ASSUME TInv, NEW c \in Clients, NEW j \in Jobs, NEW u \in Usages, PostJob(c, j, u)
    PROVE  TInv'
<1> DEFINE docs == [f \in Fils |-> IF f \in FilsOf(u) THEN fil[f] ELSE NoFil]
<1> DEFINE r == [kind |-> "job",
                 pc |-> IF Cardinality(FilsOf(u)) > 1 THEN "check" ELSE "migrate",
                 job |-> j, usage |-> u, docs |-> docs,
                 todo |-> FilsOf(u), saved |-> {}, rows |-> <<>>, undo |-> None, unsafe |-> FALSE]
<1>1. /\ req[c] = Idle /\ answer[j] = None
      /\ \A i \in DOMAIN u : fil[u[i].fil] # NoFil
      /\ req' = [req EXCEPT ![c] = r] /\ Answer(j, "posted")
      /\ UNCHANGED <<fil, hist, holder, replica, logs, fails, base>>
  BY DEF PostJob, Step
<1>2. TypeOK /\ fil \in FilType /\ req \in [Clients -> ReqType] /\ Booked /\ answer \in AnswerType
  BY DEF TInv, TypeOK, FilType, ReqType, AnswerType
<1>3. docs \in FilType /\ \A f \in FilsOf(u) : f \in Fils /\ docs[f] = fil[f] /\ fil[f] # NoFil
  BY <1>1, <1>2, FilsOfIn DEF FilType, FilsOf
<1> HIDE DEF docs
<1>4. r \in JobReq
  <2>1. <<>> \in Seq(Row) /\ FilsOf(u) \subseteq Fils
    BY FilsOfIn
  <2> QED
    BY <2>1, <1>3 DEF JobReq, FilType
<1>5. Fits(r, fil)
  <2>1. ASSUME NEW f \in FilsOf(u) PROVE FitsFil(r, fil, f)
    <3>1. r.docs[f] = fil[f] /\ fil[f] # NoFil /\ fil[f].ver \in Nat
      BY <1>2, <1>3, FilDoc
    <3> QED
      BY <3>1 DEF FitsFil, SameSpools
  <2>2. r.kind = "job" /\ r.pc \in Reading /\ r.todo = FilsOf(r.usage) /\ r.usage = u
    BY DEF Reading
  <2> HIDE DEF r
  <2> QED
    BY <2>1, <2>2 DEF Fits, FitsRows
<1>6. /\ fil' \in FilType /\ Evolves(fil, fil') /\ base' \in BaseType /\ Based'
      /\ hist' \in [Jobs -> Hist] /\ HistFollows /\ answer' \in AnswerType /\ AnswersStay
      /\ holder' \in HolderType
  BY <1>1, <1>2, FilNot, HistNot, AnswerStep, HolderNot DEF Answers
<1>7. r.kind = "job" /\ r.job = j /\ r.pc # "undo" /\ r \in ReqType
  BY <1>4 DEF ReqType
<1> HIDE DEF r
<1>8. /\ \A d \in Clients : req'[d] = IF d = c THEN r ELSE req[d]
      /\ Idle.kind = "idle" /\ hist' = hist
      /\ \A i \in Jobs : answer'[i] = IF i = j THEN "posted" ELSE answer[i]
      /\ "posted" # None
  BY <1>1, <1>2, PrintJobsAssumption DEF Idle, Answer, AnswerType, Answers
<1>9. /\ ~hist[j].live
      /\ \A d \in Clients : req[d].kind \in {"job", "delete"} => req[d].job # j
  BY <1>1, <1>2 DEF Booked, LiveAnswered, DeletesAnswered, JobsAnswered
<1>10. Booked'
  <2>1. LiveAnswered'
    BY <1>2, <1>8 DEF Booked, LiveAnswered
  <2>2. ASSUME NEW d \in Clients, req'[d].kind = "delete"
        PROVE  d # c /\ req'[d] = req[d]
    BY <1>7, <1>8, <2>2
  <2>3. DeletesAnswered'
    <3>1. ASSUME NEW d \in Clients, req'[d].kind = "delete"
          PROVE  Len(hist'[req'[d].job].rows) = Len(req'[d].rows) /\ answer'[req'[d].job] # None
      <4>1. req[d].kind = "delete" /\ req'[d] = req[d] /\ req[d] \in ReqType
        BY <2>2, <3>1, <1>2
      <4>2. req[d].job \in Jobs
        BY <4>1, KindOf DEF DeleteReq
      <4> QED
        BY <4>1, <4>2, <1>2, <1>8 DEF Booked, DeletesAnswered
    <3> QED
      BY <3>1 DEF DeletesAnswered
  <2>4. ASSUME NEW d \in Clients, req'[d].kind = "job"
        PROVE  /\ answer'[req'[d].job] # None
               /\ req'[d].pc = "undo" => req'[d].undo # None
               /\ req'[d].pc \in Early => /\ ~hist'[req'[d].job].live
                      /\ \A e \in Clients : req'[e].kind = "delete" => req'[e].job # req'[d].job
    <3>1. CASE d = c
      <4>1. req'[d] = r
        BY <1>8, <3>1
      <4>2. ~hist'[j].live /\ \A e \in Clients : req'[e].kind = "delete" => req'[e].job # j
        BY <1>8, <1>9, <2>2
      <4> QED
        BY <4>1, <4>2, <1>7, <1>8
    <3>2. CASE d # c
      <4>1. req'[d] = req[d] /\ req[d].kind = "job" /\ req[d] \in ReqType
        BY <1>2, <1>8, <2>4, <3>2
      <4>2. req[d].job \in Jobs
        BY <4>1, KindOf DEF JobReq
      <4>3. /\ answer[req[d].job] # None
            /\ req[d].pc = "undo" => req[d].undo # None
            /\ req[d].pc \in Early => Hidden(req[d].job)
        BY <4>1, <1>2 DEF Booked, JobsAnswered
      <4>4. Hidden(req[d].job) =>
               /\ ~hist'[req[d].job].live
               /\ \A e \in Clients : req'[e].kind = "delete" => req'[e].job # req[d].job
        BY <1>8, <2>2 DEF Hidden
      <4> QED
        BY <4>1, <4>2, <4>3, <4>4, <1>8
    <3> QED
      BY <3>1, <3>2
  <2>5. JobsAnswered'
    BY <2>4 DEF JobsAnswered, Hidden
  <2>6. OneRequest'
    BY <1>2, <1>7, <1>8, <1>9 DEF Booked, OneRequest
  <2> QED
    BY <2>1, <2>3, <2>5, <2>6 DEF Booked
<1>11. Fits(r, fil')
  BY <1>1, <1>5
<1> QED
  BY <1>1, <1>2, <1>6, <1>7, <1>10, <1>11, TypedStep DEF TypeOK

LEMMA CheckLegacyTyped ==
    ASSUME TInv, NEW c \in Clients, NEW f \in Fils, CheckLegacy(c, f)
    PROVE  TInv'
<1> DEFINE r == [req[c] EXCEPT !.todo = @ \ {f}]
<1>1. /\ req[c].kind = "job" /\ f \in req[c].todo
      /\ \/ Done(c) /\ Answer(req[c].job, "refused")
         \/ req' = [req EXCEPT ![c] = r] /\ UNCHANGED <<holder, answer>>
      /\ UNCHANGED <<fil, hist, replica, logs, fails, base>>
  BY DEF CheckLegacy, Step
<1>2. /\ req[c] \in JobReq /\ FitsRows(req[c]) /\ req[c].job \in Jobs /\ TypeOK
      /\ logs \in Nat /\ fails \in Nat /\ req[c].todo \subseteq FilsOf(req[c].usage)
      /\ req[c].pc = "undo" => req[c].undo # None
  BY <1>1, JobTyped
<1>3. /\ fil' \in FilType /\ Evolves(fil, fil') /\ base' \in BaseType /\ Based'
      /\ hist' \in [Jobs -> Hist] /\ HistFollows
  BY <1>1, <1>2, FilNot, HistNot
<1>4. CASE Done(c) /\ Answer(req[c].job, "refused")
  <2>1. answer' \in AnswerType /\ AnswersStay
    BY <1>2, <1>4, AnswerStep DEF Answers
  <2>2. Booked'
    BY <1>3, <1>4, <2>1, DoneBooked
  <2> QED
    BY <1>1, <1>2, <1>3, <1>4, <2>1, <2>2, DoneStep
<1>5. CASE req' = [req EXCEPT ![c] = r] /\ UNCHANGED <<holder, answer>>
  <2>1. r \in JobReq /\ r.job = req[c].job /\ r.docs = req[c].docs /\ r.usage = req[c].usage
        /\ r.rows = req[c].rows /\ r.pc = req[c].pc /\ r.undo = req[c].undo
        /\ r.todo \subseteq FilsOf(r.usage)
    BY <1>2 DEF JobReq
  <2>2. holder' \in HolderType
    BY <1>2, <1>5, HolderNot
  <2> HIDE DEF r
  <2> QED
    BY <1>1, <1>2, <1>5, <2>1, <2>2, JobGoesQuietly
<1> QED
  BY <1>1, <1>4, <1>5

LEMMA CheckedTyped ==
    ASSUME TInv, NEW c \in Clients, Checked(c)
    PROVE  TInv'
<1> DEFINE r == [req[c] EXCEPT !.pc = "migrate", !.todo = FilsOf(req[c].usage)]
<1>1. /\ req[c].kind = "job" /\ req[c].pc = "check" /\ req' = [req EXCEPT ![c] = r]
      /\ UNCHANGED <<fil, hist, holder, replica, logs, fails, base, answer>>
  BY DEF Checked, Step
<1>2. req[c] \in JobReq /\ TypeOK /\ logs \in Nat /\ fails \in Nat
      /\ FilsOf(req[c].usage) \subseteq Fils
  BY <1>1, JobTyped
<1>3. r \in JobReq /\ r.job = req[c].job /\ r.docs = req[c].docs /\ r.usage = req[c].usage
      /\ r.rows = req[c].rows /\ r.pc = "migrate" /\ r.todo = FilsOf(r.usage)
  BY <1>2 DEF JobReq
<1>4. holder' \in HolderType
  BY <1>1, <1>2, HolderNot
<1> HIDE DEF r
<1>5. (r.pc \in Reading <=> req[c].pc \in Reading) /\ req[c].pc \in Early /\ r.pc # "undo"
  BY <1>1, <1>3 DEF Reading, Early
<1> QED
  BY <1>1, <1>2, <1>3, <1>4, <1>5, JobGoesQuietly

\* A document a job reads takes its place among those it read.
LEMMA FitsRead ==
    ASSUME NEW G \in FilType, NEW q \in JobReq, NEW r \in JobReq, Fits(q, G), NEW f \in Fils,
           NEW d \in Doc, r.docs = [q.docs EXCEPT ![f] = d], r.usage = q.usage, r.rows = q.rows,
           r.pc = q.pc, r.todo \subseteq FilsOf(r.usage), G[f] # NoFil, d.ver <= G[f].ver,
           d.ver = G[f].ver /\ (r.pc \in Reading \/ SpoolsOf(r.rows, f) # {}) => SameSpools(d, G[f])
    PROVE  Fits(r, G)
<1>1. q.kind = "job" /\ r.kind = "job" /\ q.docs \in FilType /\ FilsOf(q.usage) \subseteq Fils
  BY FilsOfIn DEF JobReq, FilType
<1>2. FitsRows(r)
  BY <1>1 DEF Fits, FitsRows
<1>3. ASSUME NEW g \in FilsOf(r.usage) PROVE FitsFil(r, G, g)
  <2>1. g \in Fils /\ FitsFil(q, G, g)
    BY <1>1 DEF Fits
  <2>2. CASE g = f
    <3>1. r.docs[g] = d /\ d # NoFil
      BY <1>1, <2>1, <2>2, DocIsNotNoFil DEF FilType
    <3> QED
      BY <3>1, <2>2 DEF FitsFil
  <2>3. CASE g # f
    <3>1. r.docs[g] = q.docs[g]
      BY <1>1, <2>1, <2>3 DEF FilType
    <3> QED
      BY <3>1, <2>1 DEF FitsFil
  <2> QED
    BY <2>2, <2>3
<1> QED
  BY <1>1, <1>2, <1>3 DEF Fits

LEMMA MigrateNext ==
    ASSUME TInv, NEW c \in Clients, NEW f \in Fils, NEW d \in Doc,
           req[c].kind = "job", req[c].pc = "migrate", f \in req[c].todo,
           req' = [req EXCEPT ![c] = [req[c] EXCEPT !.docs[f] = d, !.todo = @ \ {f}]],
           holder' \in HolderType, UNCHANGED <<answer, hist, replica, logs, fails>>,
           fil' \in FilType, Evolves(fil, fil'), base' \in BaseType, Based',
           fil'[f] # NoFil, d.ver <= fil'[f].ver, d.ver = fil'[f].ver => SameSpools(d, fil'[f])
    PROVE  TInv'
<1> DEFINE q == req[c]
<1> DEFINE r == [q EXCEPT !.docs[f] = d, !.todo = @ \ {f}]
<1>1. /\ q \in JobReq /\ Fits(q, fil) /\ q.docs \in FilType /\ fil \in FilType /\ TypeOK
      /\ q.todo \subseteq FilsOf(q.usage) /\ logs \in Nat /\ fails \in Nat /\ q \in ReqType
  BY JobTyped DEF ReqType
<1>2. Fits(q, fil')
  BY <1>1, FitsEvolves
<1> HIDE DEF q
<1>3. /\ r.docs = [q.docs EXCEPT ![f] = d] /\ r.usage = q.usage /\ r.rows = q.rows
      /\ r.pc = q.pc /\ r.todo = q.todo \ {f} /\ r.job = q.job
  BY <1>1 DEF JobReq
<1>4. r \in JobReq
  <2>1. [q.docs EXCEPT ![f] = d] \in [Fils -> Doc \cup {NoFil}]
    BY <1>1 DEF FilType
  <2> QED
    BY <1>1, <2>1 DEF JobReq
<1>5. req' = [req EXCEPT ![c] = r]
  BY DEF q
<1> HIDE DEF r
<1>6. Fits(r, fil')
  <2> DEFINE G == fil'
  <2>1. G \in FilType /\ Fits(q, G) /\ G[f] # NoFil /\ d.ver <= G[f].ver
        /\ (d.ver = G[f].ver => SameSpools(d, G[f]))
    BY <1>2
  <2> HIDE DEF G
  <2>2. Fits(r, G)
    BY <2>1, <1>1, <1>3, <1>4, FitsRead
  <2> QED
    BY <2>2 DEF G
<1>7. r.pc # "undo" /\ q.pc \in Early
  BY <1>3 DEF Early, q
<1> QED
  BY <1>1, <1>3, <1>4, <1>5, <1>6, <1>7, JobGoes DEF q

LEMMA MigrateTyped ==
    ASSUME TInv, NEW c \in Clients, NEW f \in Fils, Migrate(c, f)
    PROVE  TInv'
<1> DEFINE q == req[c]
<1> DEFINE next(d) == /\ req' = [req EXCEPT ![c] = [q EXCEPT !.docs[f] = d, !.todo = @ \ {f}]]
                      /\ holder' = IF Whole(q) THEN [holder EXCEPT ![f] = c] ELSE holder
                      /\ UNCHANGED answer
<1> DEFINE new(s) == [fil[f] EXCEPT !.ver = @ + 1, !.gross = None,
                         !.spools = <<[id |-> s, weight |-> fil[f].gross, ledger |-> <<>>]>>]
<1>1. /\ q.kind = "job" /\ q.pc = "migrate" /\ f \in q.todo
      /\ UNCHANGED <<hist, replica, logs, fails>>
      /\ \/ next(q.docs[f]) /\ UNCHANGED <<fil, base>>
         \/ Done(c) /\ Answer(q.job, "refused") /\ UNCHANGED <<fil, base>>
         \/ next(fil[f]) /\ UNCHANGED <<fil, base>>
         \/ IsLegacy(fil[f]) /\ \E s \in Spools : /\ base[s] = None
                              /\ fil' = [fil EXCEPT ![f] = new(s)]
                              /\ base' = [base EXCEPT ![s] = fil[f].gross]
                              /\ next(new(s))
  BY DEF Migrate, Step
<1>2. /\ q \in JobReq /\ Fits(q, fil) /\ q.docs \in FilType /\ fil \in FilType /\ TypeOK
      /\ q.todo \subseteq FilsOf(q.usage) /\ logs \in Nat /\ fails \in Nat /\ q.job \in Jobs
      /\ FitsFil(q, fil, f)
  BY <1>1, JobTyped
<1>3. /\ q.docs[f] # NoFil /\ fil[f] # NoFil /\ q.docs[f].ver <= fil[f].ver
      /\ q.docs[f].ver = fil[f].ver => SameSpools(q.docs[f], fil[f])
  BY <1>1, <1>2 DEF FitsFil, Reading
<1>4. /\ q.docs[f] \in Doc /\ fil[f] \in Doc /\ fil[f].ver \in Nat
      /\ fil[f].gross \in Nat \cup {None}
  BY <1>2, <1>3, FilDoc
<1>5. (IF Whole(q) THEN [holder EXCEPT ![f] = c] ELSE holder) \in HolderType
  BY <1>2 DEF TypeOK, HolderType
<1>6. CASE next(q.docs[f]) /\ UNCHANGED <<fil, base>>
  <2>1. fil' \in FilType /\ Evolves(fil, fil') /\ base' \in BaseType /\ Based'
    BY <1>6, FilNot
  <2> QED
    BY <1>1, <1>2, <1>3, <1>4, <1>5, <1>6, <2>1, MigrateNext
<1>7. CASE Done(c) /\ Answer(q.job, "refused") /\ UNCHANGED <<fil, base>>
  <2>1. /\ fil' \in FilType /\ Evolves(fil, fil') /\ base' \in BaseType /\ Based'
        /\ hist' \in [Jobs -> Hist] /\ HistFollows
        /\ answer' \in AnswerType /\ AnswersStay
    BY <1>1, <1>2, <1>7, FilNot, HistNot, AnswerStep DEF Answers
  <2>2. Booked'
    BY <1>7, <2>1, DoneBooked
  <2> QED
    BY <1>1, <1>2, <1>7, <2>1, <2>2, DoneStep
<1>8. CASE next(fil[f]) /\ UNCHANGED <<fil, base>>
  <2>1. fil' \in FilType /\ Evolves(fil, fil') /\ base' \in BaseType /\ Based'
    BY <1>8, FilNot
  <2>2. SameSpools(fil[f], fil[f])
    BY DEF SameSpools
  <2>3. /\ fil'[f] = fil[f] /\ fil[f].ver <= fil'[f].ver /\ fil'[f] # NoFil
        /\ fil[f].ver = fil'[f].ver => SameSpools(fil[f], fil'[f])
        /\ holder' \in HolderType
        /\ req' = [req EXCEPT ![c] = [req[c] EXCEPT !.docs[f] = fil[f], !.todo = @ \ {f}]]
    BY <1>3, <1>4, <1>5, <1>8, <2>2
  <2> QED
    BY <1>1, <1>4, <1>8, <2>1, <2>3, MigrateNext
<1>9. ASSUME IsLegacy(fil[f]), NEW s \in Spools, base[s] = None,
             fil' = [fil EXCEPT ![f] = new(s)], base' = [base EXCEPT ![s] = fil[f].gross],
             next(new(s))
      PROVE  TInv'
  <2> DEFINE sp == [id |-> s, weight |-> fil[f].gross, ledger |-> <<>>]
  <2>1. fil[f].gross \in Nat
    BY <1>4, <1>9 DEF IsLegacy
  <2>2. <<>> \in Seq(Entry)
    OBVIOUS
  <2>3. sp \in Spool
    BY <2>1, <2>2 DEF Spool
  <2>4. <<sp>> \in Seq(Spool) /\ DOMAIN <<sp>> = {1} /\ <<sp>>[1].id = s
    <3>1. sp.id = s
      OBVIOUS
    <3> HIDE DEF sp
    <3> QED
      BY <2>3, <3>1
  <2> HIDE DEF sp
  <2>5. new(s) = [fil[f] EXCEPT !.ver = fil[f].ver + 1, !.gross = None, !.spools = <<sp>>]
    BY DEF sp
  <2>6. new(s) \in Doc /\ new(s).ver = fil[f].ver + 1 /\ new(s).spools = <<sp>>
    <3> DEFINE o == fil[f]
    <3> DEFINE sps == <<sp>>
    <3> HIDE DEF o, sps
    <3>1. o \in Doc /\ o.ver + 1 \in Nat /\ sps \in Seq(Spool)
      BY <1>4, <2>4 DEF o, sps
    <3>2. [o EXCEPT !.ver = o.ver + 1, !.gross = None, !.spools = sps] =
             [ver |-> o.ver + 1, gross |-> None, parent |-> o.parent, spools |-> sps]
      <4>1. [o EXCEPT !.ver = o.ver + 1, !.gross = None, !.spools = sps] =
               [[[o EXCEPT !.ver = o.ver + 1] EXCEPT !.gross = None] EXCEPT !.spools = sps]
        OBVIOUS
      <4>2. [o EXCEPT !.ver = o.ver + 1] =
               [ver |-> o.ver + 1, gross |-> o.gross, parent |-> o.parent, spools |-> o.spools]
        BY <3>1 DEF Doc
      <4>3. [[ver |-> o.ver + 1, gross |-> o.gross, parent |-> o.parent, spools |-> o.spools]
                EXCEPT !.gross = None] =
               [ver |-> o.ver + 1, gross |-> None, parent |-> o.parent, spools |-> o.spools]
        OBVIOUS
      <4>4. [[ver |-> o.ver + 1, gross |-> None, parent |-> o.parent, spools |-> o.spools]
                EXCEPT !.spools = sps] =
               [ver |-> o.ver + 1, gross |-> None, parent |-> o.parent, spools |-> sps]
        OBVIOUS
      <4> QED
        BY <4>1, <4>2, <4>3, <4>4
    <3>3. [ver |-> o.ver + 1, gross |-> None, parent |-> o.parent, spools |-> sps] \in Doc
      BY <3>1 DEF Doc
    <3> HIDE DEF new
    <3> QED
      BY <2>5, <3>2, <3>3 DEF o, sps
  <2> DEFINE d == new(s)
  <2>7. /\ d \in Doc /\ d.ver = fil[f].ver + 1 /\ d.spools = <<sp>>
        /\ fil' = [fil EXCEPT ![f] = d]
        /\ req' = [req EXCEPT ![c] = [q EXCEPT !.docs[f] = d, !.todo = @ \ {f}]]
        /\ holder' \in HolderType /\ answer' = answer
    BY <1>5, <1>9, <2>6
  <2> HIDE DEF d, new
  <2>8. fil' \in FilType /\ Evolves(fil, fil')
    <3>1. fil[f].ver <= d.ver /\ fil[f].ver # d.ver
      BY <2>7, <1>4
    <3> QED
      BY <2>7, <3>1, <1>2, <1>3, EvolvesOne
  <2>9. fil'[f] = d /\ \A g \in Fils : g # f => fil'[g] = fil[g]
    BY <2>7, <1>2 DEF FilType
  <2>10. base' \in BaseType /\ base'[s] # None /\ \A t \in Spools : base[t] # None => base'[t] # None
    BY <1>2, <1>9, <2>1, PrintJobsAssumption DEF TypeOK, BaseType
  <2>11. ASSUME NEW g \in Fils, fil'[g] # NoFil, NEW i \in DOMAIN fil'[g].spools
         PROVE  base'[fil'[g].spools[i].id] # None
    <3>1. CASE g = f
      <4>1. fil'[g].spools = <<sp>> /\ i = 1
        BY <3>1, <2>4, <2>7, <2>9, <2>11
      <4> QED
        BY <4>1, <2>4, <2>10
    <3>2. CASE g # f
      <4>1. fil'[g] = fil[g]
        BY <3>2, <2>9
      <4>2. fil[g].spools[i] \in Spool
        BY <4>1, <2>11, <1>2, FilDoc
      <4> QED
        BY <4>1, <4>2, <2>10, <2>11 DEF TInv, Based, Spool
    <3> QED
      BY <3>1, <3>2
  <2>12. Based'
    BY <2>11 DEF Based
  <2>13. /\ fil'[f] # NoFil /\ d.ver <= fil'[f].ver
         /\ d.ver = fil'[f].ver => SameSpools(d, fil'[f])
    BY <2>7, <2>9, <1>4, DocIsNotNoFil DEF SameSpools
  <2> QED
    BY <1>1, <2>7, <2>8, <2>10, <2>12, <2>13, MigrateNext
<1> QED
  BY <1>1, <1>6, <1>7, <1>8, <1>9

\* The record of a job is written.
LEMMA RecordedBooked ==
    ASSUME TInv, NEW c \in Clients, req[c].kind = "job", req[c].pc \in Early,
           NEW rows \in Seq(Row), rows # <<>>, hist' = Recorded(req[c], rows), AnswersStay,
           NEW r \in ReqType, req' = [req EXCEPT ![c] = r], r.kind # "delete",
           r.kind = "job" => r.job = req[c].job /\ r.pc \notin Early /\ (r.pc = "undo" => r.undo # None)
    PROVE  Booked' /\ hist' \in [Jobs -> Hist]
<1> DEFINE j == req[c].job
<1>1. /\ j \in Jobs /\ TypeOK /\ hist \in [Jobs -> Hist] /\ Booked
      /\ \A d \in Clients : req'[d] = IF d = c THEN r ELSE req[d]
  BY JobTyped DEF TInv, TypeOK
<1> HIDE DEF j
<1>2. hist' = [hist EXCEPT ![j] = [rows |-> rows, live |-> TRUE]]
  BY DEF Recorded, j
<1>3. [rows |-> rows, live |-> TRUE] \in Hist
  BY DEF Hist
<1>4. hist' \in [Jobs -> Hist]
  BY <1>1, <1>2, <1>3
<1>5. \A i \in Jobs : IF i = j THEN hist'[i].rows = rows /\ hist'[i].live ELSE hist'[i] = hist[i]
  BY <1>1, <1>2
<1>6. Hidden(j) /\ answer[j] # None
  BY <1>1 DEF Booked, JobsAnswered, j
<1>7. \A d \in Clients : d # c /\ req[d].kind \in {"job", "delete"} => req[d].job \in Jobs \ {j}
  <2>1. ASSUME NEW d \in Clients, d # c, req[d].kind \in {"job", "delete"}
        PROVE  req[d].job \in Jobs \ {j}
    <3>1. req[d] \in ReqType
      BY <1>1 DEF TypeOK, ReqType
    <3>2. req[d].job \in Jobs
      BY <2>1, <3>1, KindOf DEF JobReq, DeleteReq
    <3> QED
      BY <2>1, <3>2, <1>1, <1>6 DEF Booked, OneRequest, Hidden, j
  <2> QED
    BY <2>1
<1>8. LiveAnswered'
  BY <1>1, <1>5, <1>6 DEF Booked, LiveAnswered, AnswersStay
<1>9. DeletesAnswered'
  <2>1. ASSUME NEW d \in Clients, req'[d].kind = "delete"
        PROVE  Len(hist'[req'[d].job].rows) = Len(req'[d].rows) /\ answer'[req'[d].job] # None
    <3>1. d # c /\ req'[d] = req[d] /\ req[d].kind = "delete"
      BY <1>1, <2>1
    <3>2. req[d].job \in Jobs /\ req[d].job # j
      BY <1>7, <3>1
    <3> QED
      BY <3>1, <3>2, <1>1, <1>5 DEF Booked, DeletesAnswered, AnswersStay
  <2> QED
    BY <2>1 DEF DeletesAnswered
<1>10. ASSUME NEW i \in Jobs, i # j, Hidden(i) PROVE Hidden(i)'
  BY <1>1, <1>5, <1>10 DEF Hidden
<1>11. JobsAnswered'
  <2>1. ASSUME NEW d \in Clients, req'[d].kind = "job"
        PROVE  /\ answer'[req'[d].job] # None
               /\ req'[d].pc = "undo" => req'[d].undo # None
               /\ req'[d].pc \in Early => req'[d].job = req[d].job /\ Hidden(req[d].job)'
    <3>1. CASE d = c
      BY <3>1, <1>1, <1>6, <2>1 DEF AnswersStay, j
    <3>2. CASE d # c
      <4>1. req'[d] = req[d] /\ req[d].kind = "job"
        BY <3>2, <1>1, <2>1
      <4>2. req[d].job \in Jobs /\ req[d].job # j
        BY <3>2, <4>1, <1>7
      <4>3. /\ answer[req[d].job] # None
            /\ req[d].pc = "undo" => req[d].undo # None
            /\ req[d].pc \in Early => Hidden(req[d].job)
        BY <4>1, <1>1 DEF Booked, JobsAnswered
      <4> QED
        BY <4>1, <4>2, <4>3, <1>10 DEF AnswersStay
    <3> QED
      BY <3>1, <3>2
  <2> QED
    BY <2>1 DEF JobsAnswered, Hidden
<1>12. OneRequest'
  <2>1. ASSUME NEW d \in Clients, req'[d].kind = "job" PROVE req[d].kind = "job" /\ req'[d].job = req[d].job
    BY <1>1, <2>1
  <2> QED
    BY <2>1, <1>1 DEF Booked, OneRequest
<1> QED
  BY <1>4, <1>8, <1>9, <1>11, <1>12 DEF Booked

LEMMA ChargeSpools ==
    ASSUME NEW d \in Doc, NEW e \in Doc, NEW job, NEW rows, NEW f, Charge(d, e, job, rows, f)
    PROVE  e.ver = d.ver /\ SameSpools(d, e)
BY DEF Charge, SameSpools, Longer

LEMMA RowsOf ==
    ASSUME NEW u \in Usages, NEW rows \in Seq(Row), Len(rows) = Len(u),
           \A k \in DOMAIN rows : rows[k].fil = u[k].fil
    PROVE  rows # <<>> /\ \A f : SpoolsOf(rows, f) # {} => f \in FilsOf(u)
<1>1. u \in Seq(Usage) /\ Len(u) # 0 /\ DOMAIN u = DOMAIN rows
  BY FilsOfIn
<1> QED
  BY <1>1 DEF SpoolsOf, FilsOf

LEMMA TransactTyped ==
    ASSUME TInv, NEW c \in Clients, Transact(c)
    PROVE  TInv'
<1> DEFINE q == req[c]
<1> DEFINE done == Applied(q.job, q.usage, fil)
<1> DEFINE new(f) == LET ids == SpoolsOf(done.rows, f) IN
                     IF ids = {} THEN fil[f]
                     ELSE [CapDoc(done.docs[f], ids) EXCEPT !.ver = @ + 1]
<1>1. /\ q.kind = "job" /\ q.pc = "migrate" /\ Done(c)
      /\ \/ /\ fil' = [f \in Fils |-> new(f)]
            /\ hist' = Recorded(q, done.rows) /\ Answer(q.job, "created")
         \/ Answer(q.job, "refused") /\ UNCHANGED <<fil, hist>>
      /\ UNCHANGED <<replica, logs, fails, base>>
  BY DEF Transact
<1>2. /\ q \in JobReq /\ fil \in FilType /\ TypeOK /\ q.usage \in Usages
      /\ logs \in Nat /\ fails \in Nat /\ q.job \in Jobs
      /\ \A f \in FilsOf(q.usage) : FitsFil(q, fil, f)
  BY <1>1, JobTyped
<1>3. /\ q.usage \in Seq(Usage) /\ Debitable(q.usage, fil)
  BY <1>2, FilsOfIn DEF Debitable, FilType, FitsFil
<1> HIDE DEF q
<1>4. Len(done.rows) = Len(q.usage) /\ Charging(q.usage, fil, q.job, done)
  BY <1>2, <1>3, AppliedCharges
<1> HIDE DEF done
<1>5. /\ done \in Accs /\ done.rows \in Seq(Row)
      /\ \A k \in DOMAIN done.rows : done.rows[k].fil = q.usage[k].fil
  BY <1>4 DEF Charging, Accounts, Accs
<1>6. done.rows # <<>> /\ \A f : SpoolsOf(done.rows, f) # {} => f \in FilsOf(q.usage)
  BY <1>2, <1>4, <1>5, RowsOf
<1>7. CASE Answer(q.job, "refused") /\ UNCHANGED <<fil, hist>>
  <2>1. /\ fil' \in FilType /\ Evolves(fil, fil') /\ base' \in BaseType /\ Based'
        /\ hist' \in [Jobs -> Hist] /\ HistFollows
        /\ answer' \in AnswerType /\ AnswersStay
    BY <1>1, <1>2, <1>7, FilNot, HistNot, AnswerStep DEF Answers
  <2>2. Booked'
    BY <1>1, <2>1, DoneBooked
  <2> QED
    BY <1>1, <1>2, <2>1, <2>2, DoneStep
<1>8. CASE /\ fil' = [f \in Fils |-> new(f)]
           /\ hist' = Recorded(q, done.rows) /\ Answer(q.job, "created")
  <2>1. ASSUME NEW f \in Fils
        PROVE  \/ new(f) = fil[f]
               \/ /\ fil[f] # NoFil /\ new(f) \in Doc
                  /\ new(f).ver = fil[f].ver + 1 /\ SameSpools(fil[f], new(f))
    <3>1. CASE SpoolsOf(done.rows, f) = {}
      BY <3>1
    <3>2. CASE SpoolsOf(done.rows, f) # {}
      <4> DEFINE e == done.docs[f]
      <4> DEFINE g == CapDoc(e, SpoolsOf(done.rows, f))
      <4>1. fil[f] # NoFil /\ fil[f] \in Doc /\ fil[f].ver \in Nat
            /\ DOMAIN fil[f].spools = 1..Len(fil[f].spools)
        BY <3>2, <1>2, <1>6, FilDoc DEF FitsFil
      <4>2. e # NoFil /\ Charge(fil[f], e, q.job, done.rows, f) /\ e \in Doc
        BY <4>1, <1>4, <1>5 DEF Charging, Accs
      <4>3. e.ver = fil[f].ver /\ SameSpools(fil[f], e)
        BY <4>1, <4>2, ChargeSpools
      <4>4. e.spools \in Seq(Spool) /\ DOMAIN e.spools = DOMAIN fil[f].spools
        BY <4>1, <4>2, <4>3 DEF Doc, SameSpools
      <4> HIDE DEF e
      <4>5. /\ g \in Doc /\ g.ver = e.ver
            /\ Len(g.spools) = Len(e.spools)
            /\ \A i \in DOMAIN e.spools : g.spools[i].id = e.spools[i].id
        BY <4>2, CapDocType
      <4>6. new(f) = [g EXCEPT !.ver = @ + 1]
        BY <3>2 DEF e
      <4> HIDE DEF g, new
      <4>7. new(f) \in Doc /\ new(f).ver = fil[f].ver + 1 /\ new(f).spools = g.spools
        BY <4>1, <4>3, <4>5, <4>6 DEF Doc
      <4>8. SameSpools(fil[f], new(f))
        BY <4>3, <4>4, <4>5, <4>7 DEF SameSpools
      <4> QED
        BY <4>1, <4>7, <4>8
    <3> QED
      BY <3>1, <3>2
  <2> HIDE DEF new
  <2>2. \A f \in Fils : fil'[f] = new(f)
    BY <1>8
  <2>3. fil' \in FilType
    BY <2>1, <1>2, <1>8 DEF FilType
  <2>4. Evolves(fil, fil')
    <3>1. ASSUME NEW f \in Fils, fil[f] # NoFil
          PROVE  /\ fil'[f] # NoFil /\ fil[f].ver <= fil'[f].ver
                 /\ fil[f].ver = fil'[f].ver => SameSpools(fil[f], fil'[f])
      <4>1. fil[f].ver \in Nat
        BY <3>1, <1>2, FilDoc
      <4>2. CASE new(f) = fil[f]
        BY <4>1, <4>2, <2>2, <3>1 DEF SameSpools
      <4>3. CASE new(f) \in Doc /\ new(f).ver = fil[f].ver + 1 /\ SameSpools(fil[f], new(f))
        BY <4>1, <4>3, <2>2, DocIsNotNoFil
      <4> QED
        BY <4>2, <4>3, <2>1
    <3> QED
      BY <3>1 DEF Evolves
  <2>5. Based'
    <3>1. ASSUME NEW f \in Fils, fil'[f] # NoFil, NEW i \in DOMAIN fil'[f].spools
          PROVE  fil[f] # NoFil /\ \E k \in DOMAIN fil[f].spools :
                     fil'[f].spools[i].id = fil[f].spools[k].id
      <4>1. CASE new(f) = fil[f]
        BY <4>1, <2>2, <3>1
      <4>2. CASE fil[f] # NoFil /\ new(f) \in Doc /\ SameSpools(fil[f], new(f))
        <5>1. DOMAIN fil[f].spools = 1..Len(fil[f].spools)
          BY <4>2, <1>2, FilDoc
        <5>2. new(f).spools \in Seq(Spool)
          BY <4>2 DEF Doc
        <5>3. DOMAIN new(f).spools = DOMAIN fil[f].spools
          BY <4>2, <5>1, <5>2 DEF SameSpools
        <5> QED
          BY <4>2, <5>3, <2>2, <3>1 DEF SameSpools
      <4> QED
        BY <4>1, <4>2, <2>1
    <3> QED
      BY <3>1, <1>1, BasedKept DEF TInv
  <2>6. answer' \in AnswerType /\ AnswersStay
    BY <1>2, <1>8, AnswerStep DEF Answers
  <2>7. Booked' /\ hist' \in [Jobs -> Hist]
    <3>1. req' = [req EXCEPT ![c] = Idle] /\ Idle \in ReqType /\ Idle.kind # "job" /\ Idle.kind # "delete"
      BY <1>1, IdleFits DEF Done, Step, Idle
    <3> QED
      BY <3>1, <1>1, <1>5, <1>6, <1>8, <2>6, RecordedBooked DEF q, Early
  <2>8. base' \in BaseType
    BY <1>1, <1>2 DEF TypeOK, BaseType
  <2> QED
    BY <1>1, <1>2, <2>3, <2>4, <2>5, <2>6, <2>7, <2>8, DoneStep
<1> QED
  BY <1>1, <1>7, <1>8

\* One filament is written, with the spools it had.
LEMMA FilWrite ==
    ASSUME TInv, NEW f \in Fils, fil[f] # NoFil, NEW e \in Doc, fil[f].ver <= e.ver,
           SameSpools(fil[f], e), fil' = [fil EXCEPT ![f] = e], base' = base
    PROVE  /\ fil' \in FilType /\ Evolves(fil, fil') /\ base' \in BaseType /\ Based'
           /\ fil'[f] = e
<1>1. TypeOK /\ Based /\ fil \in FilType /\ base \in BaseType
  BY DEF TInv, TypeOK, FilType, BaseType
<1>2. [fil EXCEPT ![f] = e] \in FilType /\ Evolves(fil, [fil EXCEPT ![f] = e])
  BY <1>1, EvolvesOne
<1>3. Based'
  BY <1>1, BasedOne
<1>4. fil'[f] = e
  BY <1>1 DEF FilType
<1> QED
  BY <1>1, <1>2, <1>3, <1>4

LEMMA SameSpoolsBack ==
    ASSUME NEW d \in Doc, NEW e \in Doc, SameSpools(d, e)
    PROVE  SameSpools(e, d) /\ DOMAIN d.spools = DOMAIN e.spools
<1>1. d.spools \in Seq(Spool) /\ e.spools \in Seq(Spool)
  BY DEF Doc
<1>2. DOMAIN d.spools = 1..Len(d.spools) /\ DOMAIN e.spools = 1..Len(e.spools)
  BY <1>1
<1> QED
  BY <1>2 DEF SameSpools

LEMMA WrittenType ==
    ASSUME fil \in FilType, NEW f \in Fils, fil[f] # NoFil, NEW d \in Doc, NEW ids,
           SameSpools(d, fil[f])
    PROVE  /\ Written(d, ids, f) \in Doc
           /\ Written(d, ids, f).ver = fil[f].ver + 1 /\ Written(d, ids, f).ver \in Nat
           /\ fil[f].ver \in Nat /\ fil[f].ver <= Written(d, ids, f).ver
           /\ SameSpools(fil[f], Written(d, ids, f))
           /\ Written(d, ids, f).gross = fil[f].gross /\ Written(d, ids, f).parent = fil[f].parent
           /\ \A i \in DOMAIN fil[f].spools : Written(d, ids, f).spools[i] =
                 IF fil[f].spools[i].id \in ids THEN d.spools[i] ELSE fil[f].spools[i]
<1> DEFINE o == fil[f]
<1> DEFINE w == Written(d, ids, f)
<1> DEFINE sps == [i \in DOMAIN o.spools |-> IF o.spools[i].id \in ids THEN d.spools[i] ELSE o.spools[i]]
<1>1. /\ o \in Doc /\ o.ver \in Nat /\ DOMAIN o.spools = 1..Len(o.spools) /\ Len(o.spools) \in Nat
      /\ \A i \in DOMAIN o.spools : o.spools[i] \in Spool
  BY FilDoc
<1>2. w = [o EXCEPT !.ver = o.ver + 1, !.spools = sps]
  BY DEF Written
<1> HIDE DEF o, w
<1>3. DOMAIN d.spools = DOMAIN o.spools /\ \A i \in DOMAIN o.spools : o.spools[i].id = d.spools[i].id
  BY <1>1, SameSpoolsBack DEF SameSpools, o
<1>4. \A i \in DOMAIN o.spools : d.spools[i] \in Spool
  BY <1>3 DEF Doc
<1>5. sps \in Seq(Spool) /\ Len(sps) = Len(o.spools)
  <2>1. sps \in [1..Len(o.spools) -> Spool]
    BY <1>1, <1>4
  <2> HIDE DEF sps
  <2> QED
    BY <2>1, <1>1
<1>6. \A i \in DOMAIN o.spools : sps[i] = IF o.spools[i].id \in ids THEN d.spools[i] ELSE o.spools[i]
  OBVIOUS
<1> HIDE DEF sps
<1>7. w \in Doc /\ w.ver = o.ver + 1 /\ w.gross = o.gross /\ w.parent = o.parent /\ w.spools = sps
  <2>1. o.ver + 1 \in Nat /\ o \in Doc /\ sps \in Seq(Spool)
    BY <1>1, <1>5
  <2> DEFINE u == [o EXCEPT !.ver = o.ver + 1]
  <2>2. u \in Doc /\ u.ver = o.ver + 1 /\ u.gross = o.gross /\ u.parent = o.parent
    BY <2>1 DEF Doc
  <2>3. w = [u EXCEPT !.spools = sps]
    BY <1>2
  <2> HIDE DEF u
  <2> QED
    BY <2>1, <2>2, <2>3 DEF Doc
<1>8. SameSpools(o, w)
  BY <1>3, <1>5, <1>6, <1>7 DEF SameSpools
<1> QED
  BY <1>1, <1>6, <1>7, <1>8 DEF o, w

LEMMA ApplyTyped ==
    ASSUME TInv, NEW c \in Clients, Apply(c)
    PROVE  TInv'
<1> DEFINE q == req[c]
<1> DEFINE done == Applied(q.job, q.usage, q.docs)
<1> DEFINE r == [q EXCEPT !.pc = "save", !.docs = done.docs, !.rows = done.rows,
                          !.todo = FilsOf(q.usage)]
<1>1. /\ q.kind = "job" /\ q.pc = "migrate"
      /\ \/ req' = [req EXCEPT ![c] = r] /\ UNCHANGED <<holder, answer>>
         \/ Done(c) /\ Answer(q.job, "refused")
      /\ UNCHANGED <<fil, hist, replica, logs, fails, base>>
  BY DEF Apply, Step
<1>2. /\ q \in JobReq /\ fil \in FilType /\ TypeOK /\ q.usage \in Usages /\ q.docs \in FilType
      /\ logs \in Nat /\ fails \in Nat /\ q.job \in Jobs /\ FilsOf(q.usage) \subseteq Fils
      /\ \A f \in FilsOf(q.usage) : FitsFil(q, fil, f)
  BY <1>1, JobTyped
<1>3. q.usage \in Seq(Usage) /\ Debitable(q.usage, q.docs)
  BY <1>2, FilsOfIn DEF Debitable, FilType, FitsFil
<1>4. /\ fil' \in FilType /\ Evolves(fil, fil') /\ base' \in BaseType /\ Based'
      /\ hist' \in [Jobs -> Hist] /\ HistFollows
  BY <1>1, <1>2, FilNot, HistNot
<1>5. CASE Done(c) /\ Answer(q.job, "refused")
  <2>1. answer' \in AnswerType /\ AnswersStay
    BY <1>2, <1>5, AnswerStep DEF Answers
  <2>2. Booked'
    BY <1>4, <1>5, <2>1, DoneBooked
  <2> QED
    BY <1>1, <1>2, <1>4, <1>5, <2>1, <2>2, DoneStep
<1>6. CASE req' = [req EXCEPT ![c] = r] /\ UNCHANGED <<holder, answer>>
  <2> HIDE DEF q
  <2>1. Len(done.rows) = Len(q.usage) /\ Charging(q.usage, q.docs, q.job, done)
    BY <1>2, <1>3, AppliedCharges
  <2> HIDE DEF done
  <2>2. /\ done.docs \in FilType /\ done.rows \in Seq(Row)
        /\ \A k \in DOMAIN done.rows : done.rows[k].fil = q.usage[k].fil
        /\ \A f \in Fils : q.docs[f] # NoFil =>
              done.docs[f] # NoFil /\ Charge(q.docs[f], done.docs[f], q.job, done.rows, f)
    BY <2>1 DEF Charging, Accounts, Accs, FilType
  <2>3. /\ r \in JobReq /\ r.kind = "job" /\ r.job = q.job /\ r.docs = done.docs /\ r.usage = q.usage
        /\ r.rows = done.rows /\ r.pc = "save" /\ r.todo = FilsOf(r.usage)
    BY <1>2, <2>2 DEF JobReq, FilType
  <2> HIDE DEF r
  <2>4. ASSUME NEW f \in FilsOf(q.usage) PROVE FitsFil(r, fil, f)
    <3>1. /\ f \in Fils /\ q.docs[f] # NoFil /\ fil[f] # NoFil /\ q.docs[f].ver <= fil[f].ver
          /\ q.docs[f].ver = fil[f].ver => SameSpools(q.docs[f], fil[f])
      BY <1>1, <1>2 DEF FitsFil, Reading, q
    <3>2. /\ q.docs[f] \in Doc /\ done.docs[f] \in Doc /\ fil[f] \in Doc /\ done.docs[f] # NoFil
          /\ Charge(q.docs[f], done.docs[f], q.job, done.rows, f)
      BY <1>2, <2>2, <3>1 DEF FilType
    <3>3. done.docs[f].ver = q.docs[f].ver /\ SameSpools(q.docs[f], done.docs[f])
      BY <3>2, ChargeSpools
    <3>4. SameSpools(done.docs[f], q.docs[f]) /\ DOMAIN q.docs[f].spools = DOMAIN done.docs[f].spools
      BY <3>2, <3>3, SameSpoolsBack
    <3>5. q.docs[f].ver = fil[f].ver => SameSpools(done.docs[f], fil[f])
      BY <3>1, <3>4, SameSpoolsChain
    <3> QED
      BY <2>3, <3>1, <3>2, <3>3, <3>5 DEF FitsFil
  <2>5. FitsRows(r)
    BY <2>1, <2>2, <2>3 DEF FitsRows
  <2>6. Fits(r, fil')
    BY <1>1, <2>3, <2>4, <2>5 DEF Fits
  <2>7. holder' \in HolderType
    BY <1>2, <1>6, HolderNot
  <2>8. r.pc # "undo" /\ q.pc \in Early
    BY <1>1, <2>3 DEF Early, q
  <2> QED
    BY <1>1, <1>2, <1>4, <1>6, <2>3, <2>6, <2>7, <2>8, JobGoes DEF q
<1> QED
  BY <1>1, <1>5, <1>6

Own(f, j, ids, sp) == sp.id \in ids /\ EntriesOf(j, f, sp.id) # {}
Others(ledger, j) == Only(ledger, {k \in DOMAIN ledger : ledger[k].job # j})
Back(f, j, rows, sp) ==
    [id |-> sp.id, weight |-> sp.weight + TakenBy(rows, f, sp.id), ledger |-> Others(sp.ledger, j)]

LEMMA TakenType ==
    ASSUME NEW rows \in Seq(Row), NEW f, NEW s
    PROVE  TakenBy(rows, f, s) \in Nat
BY TotalType, EntriesNumbered DEF TakenBy

\* w is o, of whose spools those in ids have got back what job j took.
IsBack(w, o, f, j, rows, ids) ==
    /\ w \in Doc
    /\ w.gross = o.gross /\ w.parent = o.parent
    /\ w.ver = IF \E i \in DOMAIN o.spools : Own(f, j, ids, o.spools[i]) THEN o.ver + 1 ELSE o.ver
    /\ o.ver \in Nat /\ o.ver <= w.ver /\ SameSpools(o, w)
    /\ \A i \in DOMAIN o.spools : w.spools[i] =
          IF Own(f, j, ids, o.spools[i]) THEN Back(f, j, rows, o.spools[i]) ELSE o.spools[i]

LEMMA PulledType ==
    ASSUME fil \in FilType, NEW f \in Fils, fil[f] # NoFil, NEW j, NEW rows \in Seq(Row),
           NEW ids
    PROVE  IsBack(Pulled(f, j, rows, ids), fil[f], f, j, rows, ids)
<1> DEFINE o == fil[f]
<1> DEFINE w == Pulled(f, j, rows, ids)
<1> DEFINE v == IF \E i \in DOMAIN o.spools : Own(f, j, ids, o.spools[i]) THEN o.ver + 1 ELSE o.ver
<1> DEFINE back(sp) == IF Own(f, j, ids, sp)
                       THEN [sp EXCEPT !.ledger = Others(sp.ledger, j),
                                       !.weight = sp.weight + TakenBy(rows, f, sp.id)]
                       ELSE sp
<1> DEFINE sps == [i \in DOMAIN o.spools |-> back(o.spools[i])]
<1>1. /\ o \in Doc /\ o.ver \in Nat /\ DOMAIN o.spools = 1..Len(o.spools) /\ Len(o.spools) \in Nat
      /\ \A i \in DOMAIN o.spools : o.spools[i] \in Spool
  BY FilDoc
<1>2. w = [o EXCEPT !.ver = v, !.spools = sps]
  BY DEF Pulled, Own, Others
<1>3. ASSUME NEW sp \in Spool
      PROVE  back(sp) \in Spool /\ back(sp).id = sp.id
             /\ back(sp) = IF Own(f, j, ids, sp) THEN Back(f, j, rows, sp) ELSE sp
  <2> DEFINE l == Others(sp.ledger, j)
  <2> DEFINE x == sp.weight + TakenBy(rows, f, sp.id)
  <2>1. l \in Seq(Entry) /\ x \in Nat
    BY SpoolFields, OnlyType, TakenType DEF Others
  <2> HIDE DEF l, x
  <2>2. [sp EXCEPT !.ledger = l, !.weight = x] = [id |-> sp.id, weight |-> x, ledger |-> l]
    <3>1. [sp EXCEPT !.ledger = l, !.weight = x] = [[sp EXCEPT !.ledger = l] EXCEPT !.weight = x]
      OBVIOUS
    <3>2. [sp EXCEPT !.ledger = l] = [id |-> sp.id, weight |-> sp.weight, ledger |-> l]
      BY DEF Spool
    <3>3. [[id |-> sp.id, weight |-> sp.weight, ledger |-> l] EXCEPT !.weight = x] =
             [id |-> sp.id, weight |-> x, ledger |-> l]
      OBVIOUS
    <3> QED
      BY <3>1, <3>2, <3>3
  <2>3. [id |-> sp.id, weight |-> x, ledger |-> l] \in Spool
    BY <2>1 DEF Spool
  <2>4. back(sp) = IF Own(f, j, ids, sp) THEN [id |-> sp.id, weight |-> x, ledger |-> l] ELSE sp
    BY <2>2 DEF l, x
  <2>5. [id |-> sp.id, weight |-> x, ledger |-> l] = Back(f, j, rows, sp)
    BY DEF Back, l, x
  <2> HIDE DEF back
  <2> QED
    BY <2>3, <2>4, <2>5
<1> HIDE DEF back
<1>4. sps \in Seq(Spool) /\ Len(sps) = Len(o.spools)
  <2>1. sps \in [1..Len(o.spools) -> Spool]
    BY <1>1, <1>3
  <2> HIDE DEF sps
  <2> QED
    BY <2>1, <1>1
<1>5. \A i \in DOMAIN o.spools : sps[i] = back(o.spools[i])
  OBVIOUS
<1>6. v \in Nat /\ o.ver <= v
  BY <1>1
<1> HIDE DEF sps, o, w, v
<1>7. w \in Doc /\ w.ver = v /\ w.gross = o.gross /\ w.parent = o.parent /\ w.spools = sps
  <2> DEFINE u == [o EXCEPT !.ver = v]
  <2>1. u \in Doc /\ u.ver = v /\ u.gross = o.gross /\ u.parent = o.parent
    BY <1>1, <1>6 DEF Doc
  <2>2. w = [u EXCEPT !.spools = sps]
    BY <1>2
  <2> HIDE DEF u
  <2> QED
    BY <1>4, <2>1, <2>2 DEF Doc
<1>8. SameSpools(o, w)
  BY <1>1, <1>3, <1>4, <1>5, <1>7 DEF SameSpools
<1>9. \A i \in DOMAIN o.spools : w.spools[i] =
          IF Own(f, j, ids, o.spools[i]) THEN Back(f, j, rows, o.spools[i]) ELSE o.spools[i]
  BY <1>1, <1>3, <1>5, <1>7
<1> QED
  <2>1. w.ver = IF \E i \in DOMAIN o.spools : Own(f, j, ids, o.spools[i]) THEN o.ver + 1 ELSE o.ver
    BY <1>7 DEF v
  <2>2. IsBack(w, o, f, j, rows, ids)
    BY <1>1, <1>6, <1>7, <1>8, <1>9, <2>1 DEF IsBack
  <2> QED
    BY <2>2 DEF o, w

LEMMA UndoFilTyped ==
    ASSUME TInv, NEW c \in Clients, NEW f \in Fils, UndoFil(c, f)
    PROVE  TInv'
<1> DEFINE q == req[c]
<1> DEFINE un == q.unsafe \/ (f \in q.saved /\ ~HasEntries(f, q.job, q.rows))
<1> DEFINE r == [q EXCEPT !.todo = @ \ {f}, !.unsafe = un]
<1>1. /\ q.kind = "job" /\ q.pc = "undo" /\ f \in q.todo /\ req' = [req EXCEPT ![c] = r]
      /\ fil' = [fil EXCEPT ![f] = Pulled(f, q.job, q.rows, SpoolsOf(q.rows, f))]
      /\ UNCHANGED <<hist, holder, replica, logs, fails, base, answer>>
  BY DEF UndoFil, Step
<1>2. /\ q \in JobReq /\ fil \in FilType /\ TypeOK /\ q.rows \in Seq(Row) /\ Fits(q, fil)
      /\ logs \in Nat /\ fails \in Nat /\ q.todo \subseteq FilsOf(q.usage)
      /\ FitsFil(q, fil, f) /\ q.undo # None /\ q \in ReqType
  BY <1>1, JobTyped DEF ReqType
<1>3. fil[f] # NoFil
  BY <1>2 DEF FitsFil
<1>4. un \in BOOLEAN
  BY <1>2 DEF JobReq
<1> HIDE DEF un
<1>5. r \in JobReq /\ r.job = q.job /\ r.docs = q.docs /\ r.usage = q.usage /\ r.undo = q.undo
      /\ r.rows = q.rows /\ r.pc = q.pc /\ r.todo \subseteq FilsOf(r.usage)
  BY <1>2, <1>4 DEF JobReq
<1>6. /\ fil' \in FilType /\ Evolves(fil, fil') /\ base' \in BaseType /\ Based'
  <2> DEFINE w == Pulled(f, q.job, q.rows, SpoolsOf(q.rows, f))
  <2>0. IsBack(w, fil[f], f, q.job, q.rows, SpoolsOf(q.rows, f))
    BY <1>2, <1>3, PulledType
  <2>1. w \in Doc /\ fil[f].ver <= w.ver /\ SameSpools(fil[f], w)
    BY <2>0 DEF IsBack
  <2> HIDE DEF w
  <2> QED
    BY <1>1, <1>3, <2>1, FilWrite DEF w
<1> HIDE DEF r, q
<1>7. Fits(q, fil')
  BY <1>2, <1>6, FitsEvolves
<1>8. Fits(r, fil')
  BY <1>2, <1>5, <1>7, FitsGoes
<1>9. holder' \in HolderType
  BY <1>1, <1>2, HolderNot
<1>10. req[c].kind = "job" /\ r.undo # None /\ r.job = req[c].job /\ req[c].pc = r.pc
       /\ req' = [req EXCEPT ![c] = r]
  BY <1>1, <1>2, <1>5 DEF q
<1> QED
  BY <1>1, <1>2, <1>5, <1>6, <1>8, <1>9, <1>10, JobGoes

LEMMA UndoFailsTyped ==
    ASSUME TInv, NEW c \in Clients, NEW f \in Fils, UndoFails(c, f)
    PROVE  TInv'
<1> DEFINE q == req[c]
<1> DEFINE r == [q EXCEPT !.todo = @ \ {f}, !.unsafe = TRUE]
<1>0. PICK n \in 0..Len(q.rows) :
          fil' = [fil EXCEPT ![f] = Pulled(f, q.job, q.rows, SpoolsOf(SubSeq(q.rows, 1, n), f))]
  BY DEF UndoFails
<1> DEFINE ids == SpoolsOf(SubSeq(q.rows, 1, n), f)
<1>1. /\ q.kind = "job" /\ q.pc = "undo" /\ f \in q.todo /\ req' = [req EXCEPT ![c] = r]
      /\ fil' = [fil EXCEPT ![f] = Pulled(f, q.job, q.rows, ids)]
      /\ UNCHANGED <<hist, holder, replica, logs, base, answer>> /\ fails' = fails + 1
  BY <1>0 DEF UndoFails, Step, Fault
<1> HIDE DEF ids
<1>2. /\ q \in JobReq /\ fil \in FilType /\ TypeOK /\ q.rows \in Seq(Row) /\ Fits(q, fil)
      /\ logs \in Nat /\ fails \in Nat /\ q.todo \subseteq FilsOf(q.usage)
      /\ FitsFil(q, fil, f) /\ q.undo # None /\ q \in ReqType
  BY <1>1, JobTyped DEF ReqType
<1>3. fil[f] # NoFil
  BY <1>2 DEF FitsFil
<1>5. r \in JobReq /\ r.job = q.job /\ r.docs = q.docs /\ r.usage = q.usage /\ r.undo = q.undo
      /\ r.rows = q.rows /\ r.pc = q.pc /\ r.todo \subseteq FilsOf(r.usage)
  BY <1>2 DEF JobReq
<1>6. /\ fil' \in FilType /\ Evolves(fil, fil') /\ base' \in BaseType /\ Based'
  <2> DEFINE w == Pulled(f, q.job, q.rows, ids)
  <2>0. IsBack(w, fil[f], f, q.job, q.rows, ids)
    BY <1>2, <1>3, PulledType
  <2>1. w \in Doc /\ fil[f].ver <= w.ver /\ SameSpools(fil[f], w)
    BY <2>0 DEF IsBack
  <2> HIDE DEF w
  <2> QED
    BY <1>1, <1>3, <2>1, FilWrite DEF w
<1> HIDE DEF r, q
<1>7. Fits(q, fil')
  BY <1>2, <1>6, FitsEvolves
<1>8. Fits(r, fil')
  BY <1>2, <1>5, <1>7, FitsGoes
<1>9. holder' \in HolderType /\ fails' \in Nat
  BY <1>1, <1>2, HolderNot
<1>10. req[c].kind = "job" /\ r.undo # None /\ r.job = req[c].job /\ req[c].pc = r.pc
       /\ req' = [req EXCEPT ![c] = r]
  BY <1>1, <1>2, <1>5 DEF q
<1> QED
  BY <1>1, <1>2, <1>5, <1>6, <1>8, <1>9, <1>10, JobGoes

\* What a job writes of a document it read, where the versions agree.
LEMMA WrittenByJob ==
    ASSUME TInv, NEW c \in Clients, req[c].kind = "job", req[c].pc \notin Reading,
           NEW f \in FilsOf(req[c].usage), SpoolsOf(req[c].rows, f) # {},
           MaySave(req[c].docs[f], f), NEW d \in Doc, SameSpools(req[c].docs[f], d),
           fil' = [fil EXCEPT ![f] = Written(d, SpoolsOf(req[c].rows, f), f)], base' = base
    PROVE  /\ fil' \in FilType /\ Evolves(fil, fil') /\ base' \in BaseType /\ Based'
           /\ fil'[f] = Written(d, SpoolsOf(req[c].rows, f), f)
           /\ SameSpools(req[c].docs[f], fil'[f]) /\ SameSpools(d, fil[f])
<1> DEFINE o == req[c].docs[f]
<1> DEFINE w == Written(d, SpoolsOf(req[c].rows, f), f)
<1>1. /\ fil \in FilType /\ f \in Fils /\ FitsFil(req[c], fil, f) /\ req[c].docs \in FilType
  BY JobTyped
<1>2. o # NoFil /\ fil[f] # NoFil /\ SameSpools(o, fil[f]) /\ o \in Doc /\ fil[f] \in Doc
  BY <1>1, FilDoc DEF FitsFil, MaySave
<1> HIDE DEF o
<1>3. /\ SameSpools(d, o) /\ DOMAIN d.spools = DOMAIN o.spools
      /\ DOMAIN o.spools = DOMAIN fil[f].spools
  BY <1>2, SameSpoolsBack DEF o
<1>4. SameSpools(d, fil[f])
  BY <1>2, <1>3, SameSpoolsChain
<1>5. w \in Doc /\ fil[f].ver <= w.ver /\ SameSpools(fil[f], w)
  BY <1>1, <1>2, <1>4, WrittenType
<1> HIDE DEF w
<1>6. /\ fil' \in FilType /\ Evolves(fil, fil') /\ base' \in BaseType /\ Based' /\ fil'[f] = w
  BY <1>1, <1>2, <1>5, FilWrite DEF w
<1>7. SameSpools(o, w)
  BY <1>2, <1>3, <1>5, SameSpoolsChain
<1> QED
  BY <1>4, <1>6, <1>7 DEF o, w

LEMMA SaveFilTyped ==
    ASSUME TInv, NEW c \in Clients, NEW f \in Fils, SaveFil(c, f)
    PROVE  TInv'
<1> DEFINE q == req[c]
<1> DEFINE ids == SpoolsOf(q.rows, f)
<1> DEFINE d == [q.docs[f] EXCEPT !.ver = fil'[f].ver]
<1> DEFINE ok == [q EXCEPT !.todo = @ \ {f}, !.saved = @ \cup {f}, !.docs[f].ver = fil'[f].ver]
<1> DEFINE no == [q EXCEPT !.pc = "undo", !.todo = FilsOf(q.usage), !.undo = "retry"]
<1>1. /\ q.kind = "job" /\ q.pc = "save" /\ f \in q.todo
      /\ UNCHANGED <<hist, holder, replica, logs, fails, base, answer>>
      /\ \/ /\ ids = {} \/ MaySave(q.docs[f], f)
            /\ fil' = IF ids = {} THEN fil ELSE [fil EXCEPT ![f] = Written(q.docs[f], ids, f)]
            /\ req' = [req EXCEPT ![c] = ok]
         \/ req' = [req EXCEPT ![c] = no] /\ UNCHANGED fil
  BY DEF SaveFil, Step
<1>2. /\ q \in JobReq /\ fil \in FilType /\ TypeOK /\ q.rows \in Seq(Row) /\ Fits(q, fil)
      /\ logs \in Nat /\ fails \in Nat /\ q.todo \subseteq FilsOf(q.usage)
      /\ FitsFil(q, fil, f) /\ q \in ReqType /\ FilsOf(q.usage) \subseteq Fils
      /\ q.docs \in FilType /\ f \in FilsOf(q.usage)
  BY <1>1, JobTyped DEF ReqType
<1>3. holder' \in HolderType
  BY <1>1, <1>2, HolderNot
<1>4. q.pc \notin Reading /\ q.pc \in Early
  BY <1>1 DEF Reading, Early
<1>5. q.docs[f] # NoFil /\ fil[f] # NoFil /\ q.docs[f] \in Doc /\ fil[f].ver \in Nat
  BY <1>2, FilDoc DEF FitsFil
<1>6. CASE req' = [req EXCEPT ![c] = no] /\ UNCHANGED fil
  <2>1. /\ no \in JobReq /\ no.job = q.job /\ no.docs = q.docs /\ no.usage = q.usage
        /\ no.rows = q.rows /\ no.pc = "undo" /\ no.undo = "retry" /\ no.todo = FilsOf(no.usage)
    BY <1>2 DEF JobReq
  <2>2. no.undo # None /\ (no.pc \in Reading <=> q.pc \in Reading) /\ (no.pc \in Early => q.pc \in Early)
    BY <1>4, <2>1, PrintJobsAssumption DEF Answers, Reading
  <2> HIDE DEF no
  <2> QED
    BY <1>1, <1>2, <1>3, <1>6, <2>1, <2>2, JobGoesQuietly
<1>7. CASE /\ ids = {} \/ MaySave(q.docs[f], f)
           /\ fil' = IF ids = {} THEN fil ELSE [fil EXCEPT ![f] = Written(q.docs[f], ids, f)]
           /\ req' = [req EXCEPT ![c] = ok]
  <2>1. /\ fil' \in FilType /\ Evolves(fil, fil') /\ base' \in BaseType /\ Based'
        /\ fil'[f] # NoFil
        /\ ids # {} => SameSpools(q.docs[f], fil'[f])
    <3>1. CASE ids = {}
      BY <1>1, <1>5, <1>7, <3>1, FilNot
    <3>2. CASE ids # {}
      <4>1. SameSpools(q.docs[f], q.docs[f])
        BY DEF SameSpools
      <4>2. fil' = [fil EXCEPT ![f] = Written(q.docs[f], ids, f)] /\ MaySave(q.docs[f], f)
        BY <1>7, <3>2
      <4>3. /\ fil' \in FilType /\ Evolves(fil, fil') /\ base' \in BaseType /\ Based'
            /\ SameSpools(q.docs[f], fil'[f])
        BY <1>1, <1>2, <1>4, <1>5, <3>2, <4>1, <4>2, WrittenByJob
      <4> QED
        BY <4>3, <1>5 DEF Evolves
    <3> QED
      BY <3>1, <3>2
  <2> DEFINE G == fil'
  <2> HIDE DEF G
  <2>2. G \in FilType /\ G[f] # NoFil /\ (ids # {} => SameSpools(q.docs[f], G[f]))
    BY <2>1 DEF G
  <2>3. G[f].ver \in Nat
    BY <2>2, FilDoc
  <2>4. d = [q.docs[f] EXCEPT !.ver = G[f].ver]
    BY DEF G
  <2>5. ok = [q EXCEPT !.todo = @ \ {f}, !.saved = @ \cup {f}, !.docs = [@ EXCEPT ![f] = d]]
    BY <1>2, <2>4 DEF JobReq, FilType, G
  <2> HIDE DEF d, ok
  <2>6. d \in Doc /\ d.ver = G[f].ver /\ d.spools = q.docs[f].spools
    BY <1>5, <2>3, <2>4 DEF Doc
  <2>7. [q.docs EXCEPT ![f] = d] \in [Fils -> Doc \cup {NoFil}]
    BY <1>2, <2>6 DEF FilType
  <2>8. /\ ok \in JobReq /\ ok.job = q.job /\ ok.docs = [q.docs EXCEPT ![f] = d]
        /\ ok.usage = q.usage /\ ok.rows = q.rows /\ ok.pc = q.pc
        /\ ok.todo \subseteq FilsOf(ok.usage)
    BY <1>2, <2>5, <2>7 DEF JobReq
  <2>9. d.ver = G[f].ver /\ (ok.pc \in Reading \/ SpoolsOf(ok.rows, f) # {}) => SameSpools(d, G[f])
    BY <1>4, <2>2, <2>6, <2>8 DEF SameSpools
  <2>10. Fits(q, G)
    <3>1. Evolves(fil, G)
      BY <2>1 DEF G
    <3> QED
      BY <1>2, <2>2, <3>1, FitsEvolves
  <2>11. d.ver <= G[f].ver
    BY <2>3, <2>6
  <2> HIDE DEF q, ids
  <2>12. Fits(ok, G)
    BY <1>2, <2>2, <2>6, <2>8, <2>9, <2>10, <2>11, FitsRead
  <2>13. Fits(ok, fil')
    BY <2>12 DEF G
  <2>14. ok.pc # "undo" /\ (ok.pc \in Early => q.pc \in Early)
    BY <1>1, <2>8
  <2> QED
    BY <1>1, <1>2, <1>3, <1>7, <2>1, <2>8, <2>13, <2>14, JobGoes DEF q
<1> QED
  BY <1>1, <1>6, <1>7

\* A call fails, and the job takes back what it did.
LEMMA FailingFits ==
    ASSUME TInv, NEW c \in Clients, req[c].kind = "job", req[c].pc = "save"
    PROVE  LET r == [req[c] EXCEPT !.pc = "undo", !.todo = FilsOf(req[c].usage), !.undo = "error"]
           IN /\ r \in JobReq /\ r.kind = "job" /\ r.job = req[c].job /\ r.pc = "undo"
              /\ r.undo # None
              /\ \A F : Fits(req[c], F) => Fits(r, F)
<1> DEFINE q == req[c]
<1> DEFINE r == [q EXCEPT !.pc = "undo", !.todo = FilsOf(q.usage), !.undo = "error"]
<1>1. q \in JobReq /\ FilsOf(q.usage) \subseteq Fils
  BY JobTyped
<1>2. /\ r \in JobReq /\ r.job = q.job /\ r.docs = q.docs /\ r.usage = q.usage /\ r.kind = "job"
      /\ r.rows = q.rows /\ r.pc = "undo" /\ r.undo = "error" /\ r.todo = FilsOf(r.usage)
  BY <1>1 DEF JobReq
<1> HIDE DEF r
<1>3. ASSUME NEW F, Fits(q, F) PROVE Fits(r, F)
  BY <1>1, <1>2, <1>3, FitsGoes DEF Reading
<1>4. r.undo # None
  BY <1>2, PrintJobsAssumption DEF Answers
<1> QED
  BY <1>2, <1>3, <1>4 DEF r

LEMMA SaveFailsTyped ==
    ASSUME TInv, NEW c \in Clients, NEW f \in Fils, SaveFails(c, f)
    PROVE  TInv'
<1> DEFINE q == req[c]
<1> DEFINE ids == SpoolsOf(q.rows, f)
<1> DEFINE r == [q EXCEPT !.pc = "undo", !.todo = FilsOf(q.usage), !.undo = "error"]
<1>1. /\ q.kind = "job" /\ q.pc = "save" /\ f \in q.todo
      /\ UNCHANGED <<hist, holder, replica, logs, base, answer>> /\ fails' = fails + 1
      /\ \/ UNCHANGED fil
         \/ /\ ids # {} /\ MaySave(q.docs[f], f)
            /\ fil' = [fil EXCEPT ![f] = Written(q.docs[f], ids, f)]
      /\ req' = [req EXCEPT ![c] = r]
  BY DEF SaveFails, Step, Fault
<1>2. /\ q \in ReqType /\ fil \in FilType /\ TypeOK /\ Fits(q, fil)
      /\ logs \in Nat /\ fails \in Nat /\ q.todo \subseteq FilsOf(q.usage)
      /\ FitsFil(q, fil, f) /\ q.docs \in FilType /\ f \in FilsOf(q.usage)
  BY <1>1, JobTyped DEF ReqType
<1>3. /\ r \in JobReq /\ r.kind = "job" /\ r.job = q.job /\ r.pc = "undo" /\ r.undo # None
      /\ \A F : Fits(q, F) => Fits(r, F)
  BY <1>1, FailingFits
<1>4. holder' \in HolderType /\ fails' \in Nat /\ q.pc \in Early /\ q.pc \notin Reading
  BY <1>1, <1>2, HolderNot DEF Early, Reading
<1>5. fil' \in FilType /\ Evolves(fil, fil') /\ base' \in BaseType /\ Based'
  <2>1. CASE UNCHANGED fil
    BY <1>1, <2>1, FilNot
  <2>2. CASE /\ ids # {} /\ MaySave(q.docs[f], f)
             /\ fil' = [fil EXCEPT ![f] = Written(q.docs[f], ids, f)]
    <3>1. q.docs[f] \in Doc /\ SameSpools(q.docs[f], q.docs[f])
      BY <1>1, <1>2, FilDoc DEF FitsFil, SameSpools
    <3> QED
      BY <1>1, <1>2, <1>4, <2>2, <3>1, WrittenByJob
  <2> QED
    BY <1>1, <2>1, <2>2
<1> HIDE DEF r
<1>6. Fits(r, fil')
  BY <1>2, <1>3, <1>5, FitsEvolves
<1> QED
  BY <1>1, <1>2, <1>3, <1>4, <1>5, <1>6, JobGoes

LEMMA RecordTyped ==
    ASSUME TInv, NEW c \in Clients, Record(c)
    PROVE  TInv'
<1> DEFINE q == req[c]
<1> DEFINE r == [q EXCEPT !.pc = "trim", !.todo = FilsOf(q.usage)]
<1>1. /\ q.kind = "job" /\ q.pc = "save" /\ hist' = Recorded(q, q.rows)
      /\ Answer(q.job, "created") /\ req' = [req EXCEPT ![c] = r]
      /\ UNCHANGED <<fil, holder, replica, logs, fails, base>>
  BY DEF Record, Step
<1>2. /\ q \in JobReq /\ fil \in FilType /\ TypeOK /\ Fits(q, fil) /\ FitsRows(q)
      /\ logs \in Nat /\ fails \in Nat /\ q.job \in Jobs /\ q.usage \in Usages
      /\ q.rows \in Seq(Row) /\ FilsOf(q.usage) \subseteq Fils
  BY <1>1, JobTyped
<1>3. /\ r \in JobReq /\ r.job = q.job /\ r.docs = q.docs /\ r.usage = q.usage /\ r.kind = "job"
      /\ r.rows = q.rows /\ r.pc = "trim" /\ r.todo = FilsOf(r.usage)
  BY <1>2 DEF JobReq
<1>4. answer' \in AnswerType /\ AnswersStay /\ holder' \in HolderType
  BY <1>1, <1>2, AnswerStep, HolderNot DEF Answers
<1>5. fil' \in FilType /\ Evolves(fil, fil') /\ base' \in BaseType /\ Based'
  BY <1>1, FilNot
<1> HIDE DEF r, q
<1>6. Fits(r, fil')
  BY <1>1, <1>2, <1>3, FitsGoes DEF Reading
<1>7. q.rows # <<>>
  BY <1>1, <1>2, RowsOf DEF FitsRows, Reading
<1>8. r \in ReqType /\ r.kind # "delete" /\ r.pc \notin Early /\ r.pc # "undo" /\ q.pc \in Early
  BY <1>1, <1>3 DEF ReqType, Early
<1>9. Booked' /\ hist' \in [Jobs -> Hist]
  BY <1>1, <1>2, <1>3, <1>4, <1>7, <1>8, RecordedBooked DEF q
<1> QED
  BY <1>1, <1>2, <1>3, <1>4, <1>5, <1>6, <1>8, <1>9, TypedStep

LEMMA RecordFailsTyped ==
    ASSUME TInv, NEW c \in Clients, RecordFails(c)
    PROVE  TInv'
<1> DEFINE q == req[c]
<1> DEFINE r == [q EXCEPT !.pc = "undo", !.todo = FilsOf(q.usage), !.undo = "error"]
<1>1. /\ q.kind = "job" /\ q.pc = "save" /\ req' = [req EXCEPT ![c] = r] /\ fails' = fails + 1
      /\ UNCHANGED hist \/ hist' = Recorded(q, q.rows)
      /\ UNCHANGED <<fil, holder, replica, logs, base, answer>>
  BY DEF RecordFails, Step, Fault
<1>2. /\ q \in JobReq /\ fil \in FilType /\ TypeOK /\ Fits(q, fil) /\ FitsRows(q)
      /\ logs \in Nat /\ fails \in Nat /\ q.job \in Jobs /\ q.usage \in Usages
      /\ q.rows \in Seq(Row) /\ FilsOf(q.usage) \subseteq Fils
  BY <1>1, JobTyped
<1>3. /\ r \in JobReq /\ r.kind = "job" /\ r.job = q.job /\ r.pc = "undo" /\ r.undo # None
      /\ \A F : Fits(q, F) => Fits(r, F)
  BY <1>1, FailingFits
<1>4. answer' \in AnswerType /\ AnswersStay /\ holder' \in HolderType /\ fails' \in Nat
  BY <1>1, <1>2, AnswerNot, HolderNot
<1>5. fil' \in FilType /\ Evolves(fil, fil') /\ base' \in BaseType /\ Based'
  BY <1>1, FilNot
<1> HIDE DEF r, q
<1>6. Fits(r, fil')
  BY <1>1, <1>2, <1>3
<1>7. q.rows # <<>>
  BY <1>1, <1>2, RowsOf DEF FitsRows, Reading
<1>8. r \in ReqType /\ r.kind # "delete" /\ r.pc \notin Early /\ q.pc \in Early
  BY <1>1, <1>3 DEF ReqType, Early
<1>9. Booked' /\ hist' \in [Jobs -> Hist]
  <2>1. CASE hist' = Recorded(q, q.rows)
    BY <1>1, <1>2, <1>3, <1>4, <1>7, <1>8, <2>1, RecordedBooked DEF q
  <2>2. CASE UNCHANGED hist
    <3>1. hist' \in [Jobs -> Hist] /\ HistFollows /\ Booked
      BY <1>2, <2>2, HistNot DEF TInv
    <3> QED
      BY <1>1, <1>2, <1>3, <1>4, <1>8, <3>1, BookedKept DEF q
  <2> QED
    BY <1>1, <2>1, <2>2
<1> QED
  BY <1>1, <1>2, <1>3, <1>4, <1>5, <1>6, <1>8, <1>9, TypedStep

\* What a trim saves: the same spools, with the ledgers of its documents.
LEMMA LedgersOfType ==
    ASSUME fil \in FilType, NEW f \in Fils, fil[f] # NoFil, NEW d \in Doc, SameSpools(d, fil[f])
    PROVE  /\ LedgersOf(d, f) \in Doc /\ SameSpools(d, LedgersOf(d, f))
           /\ DOMAIN LedgersOf(d, f).spools = DOMAIN d.spools
           /\ \A i \in DOMAIN d.spools : /\ LedgersOf(d, f).spools[i].id = d.spools[i].id
                                         /\ LedgersOf(d, f).spools[i].ledger = d.spools[i].ledger
<1> DEFINE o == fil[f]
           sp(i) == [d.spools[i] EXCEPT !.weight = o.spools[i].weight]
           sps == [i \in DOMAIN d.spools |-> sp(i)]
           w == LedgersOf(d, f)
<1>1. /\ o \in Doc /\ d.spools \in Seq(Spool) /\ o.spools \in Seq(Spool)
      /\ DOMAIN d.spools = DOMAIN o.spools /\ DOMAIN d.spools = 1..Len(d.spools)
      /\ Len(d.spools) \in Nat /\ \A i \in DOMAIN o.spools : o.spools[i] \in Spool
  BY FilDoc, SameSpoolsBack DEF Doc
<1>2. w = [d EXCEPT !.spools = sps]
  BY DEF LedgersOf
<1> HIDE DEF o, w
<1>3. ASSUME NEW i \in DOMAIN d.spools
      PROVE  sp(i) \in Spool /\ sp(i).id = d.spools[i].id /\ sp(i).ledger = d.spools[i].ledger
  <2>1. d.spools[i] \in Spool /\ o.spools[i] \in Spool
    <3>1. d.spools[i] \in Spool
      BY <1>1
    <3> QED
      BY <1>1, <3>1
  <2>2. o.spools[i].weight \in Nat
    BY <2>1, SpoolFields
  <2> QED
    BY <2>1, <2>2 DEF Spool
<1> HIDE DEF sp
<1>4. sps \in Seq(Spool) /\ Len(sps) = Len(d.spools) /\ DOMAIN sps = DOMAIN d.spools
  <2>1. sps \in [1..Len(d.spools) -> Spool]
    BY <1>1, <1>3
  <2> HIDE DEF sps
  <2> QED
    BY <2>1, <1>1
<1>5. \A i \in DOMAIN d.spools : sps[i] = sp(i)
  OBVIOUS
<1> HIDE DEF sps
<1>6. w \in Doc /\ w.spools = sps
  BY <1>2, <1>4 DEF Doc
<1>7. SameSpools(d, w)
  BY <1>3, <1>4, <1>5, <1>6 DEF SameSpools
<1> QED
  BY <1>3, <1>4, <1>5, <1>6, <1>7 DEF w

\* A trim saves where the versions agree, so over the spools it has read.
LEMMA LedgersFit ==
    ASSUME TInv, NEW c \in Clients, req[c].kind = "job", req[c].pc \notin Reading,
           NEW f \in FilsOf(req[c].usage), SpoolsOf(req[c].rows, f) # {},
           MaySave(req[c].docs[f], f), NEW d \in Doc, SameSpools(req[c].docs[f], d)
    PROVE  /\ LedgersOf(d, f) \in Doc /\ SameSpools(req[c].docs[f], LedgersOf(d, f))
           /\ DOMAIN LedgersOf(d, f).spools = DOMAIN d.spools
           /\ \A i \in DOMAIN d.spools : /\ LedgersOf(d, f).spools[i].id = d.spools[i].id
                                         /\ LedgersOf(d, f).spools[i].ledger = d.spools[i].ledger
<1> DEFINE o == req[c].docs[f]
<1>1. /\ fil \in FilType /\ f \in Fils /\ FitsFil(req[c], fil, f) /\ req[c].docs \in FilType
  BY JobTyped
<1>2. o # NoFil /\ fil[f] # NoFil /\ SameSpools(o, fil[f]) /\ o \in Doc /\ fil[f] \in Doc
  BY <1>1, FilDoc DEF FitsFil, MaySave
<1> HIDE DEF o
<1>3. /\ SameSpools(o, d) /\ SameSpools(d, o) /\ DOMAIN d.spools = DOMAIN o.spools
  BY <1>2, SameSpoolsBack DEF o
<1>4. SameSpools(d, fil[f])
  BY <1>2, <1>3, SameSpoolsChain
<1>5. /\ LedgersOf(d, f) \in Doc /\ SameSpools(d, LedgersOf(d, f))
      /\ DOMAIN LedgersOf(d, f).spools = DOMAIN d.spools
      /\ \A i \in DOMAIN d.spools : /\ LedgersOf(d, f).spools[i].id = d.spools[i].id
                                    /\ LedgersOf(d, f).spools[i].ledger = d.spools[i].ledger
  BY <1>1, <1>2, <1>4, LedgersOfType
<1>6. SameSpools(o, LedgersOf(d, f))
  BY <1>3, <1>5, SameSpoolsChain
<1> QED
  BY <1>5, <1>6 DEF o

LEMMA TrimTyped ==
    ASSUME TInv, NEW c \in Clients, NEW f \in Fils, Trim(c, f)
    PROVE  TInv'
<1> DEFINE q == req[c]
<1> DEFINE ids == SpoolsOf(q.rows, f)
<1> DEFINE d == CapDoc(q.docs[f], ids)
<1> DEFINE r == [q EXCEPT !.todo = @ \ {f}]
<1>1. /\ q.kind = "job" /\ q.pc = "trim" /\ f \in q.todo /\ req' = [req EXCEPT ![c] = r]
      /\ fil' = IF d # q.docs[f] /\ MaySave(q.docs[f], f)
                THEN [fil EXCEPT ![f] = Written(LedgersOf(d, f), ids, f)] ELSE fil
      /\ UNCHANGED <<hist, holder, replica, logs, fails, base, answer>>
  BY DEF Trim, Step
<1>2. /\ q \in JobReq /\ q \in ReqType /\ fil \in FilType /\ TypeOK /\ Fits(q, fil)
      /\ logs \in Nat /\ fails \in Nat /\ q.todo \subseteq FilsOf(q.usage)
      /\ FitsFil(q, fil, f) /\ q.docs \in FilType /\ f \in FilsOf(q.usage)
  BY <1>1, JobTyped DEF ReqType
<1>3. /\ r \in JobReq /\ r.job = q.job /\ r.docs = q.docs /\ r.usage = q.usage /\ r.kind = "job"
      /\ r.rows = q.rows /\ r.pc = q.pc /\ r.todo \subseteq FilsOf(r.usage)
  BY <1>2 DEF JobReq
<1>4. q.docs[f] \in Doc /\ DOMAIN q.docs[f].spools = 1..Len(q.docs[f].spools)
  BY <1>2, FilDoc DEF FitsFil
<1>5. d \in Doc /\ SameSpools(q.docs[f], d)
  BY <1>4, CapDocType DEF SameSpools
<1>6. ids = {} => d = q.docs[f]
  <2> DEFINE o == q.docs[f]
  <2> HIDE DEF o
  <2>1. o \in Doc /\ o.spools = [i \in DOMAIN o.spools |-> o.spools[i]]
    BY <1>4 DEF Doc, o
  <2>2. ASSUME ids = {} PROVE CapDoc(o, ids) = [o EXCEPT !.spools = [i \in DOMAIN o.spools |-> o.spools[i]]]
    BY <2>2 DEF CapDoc
  <2>3. [o EXCEPT !.spools = o.spools] = o
    BY <2>1 DEF Doc
  <2>4. ids = {} => CapDoc(o, ids) = o
    BY <2>1, <2>2, <2>3
  <2> QED
    BY <2>4 DEF o
<1>7. fil' \in FilType /\ Evolves(fil, fil') /\ base' \in BaseType /\ Based'
  <2>1. CASE fil' = fil
    BY <1>1, <2>1, FilNot
  <2>2. CASE /\ d # q.docs[f] /\ MaySave(q.docs[f], f)
             /\ fil' = [fil EXCEPT ![f] = Written(LedgersOf(d, f), ids, f)]
    <3>1. ids # {} /\ q.pc \notin Reading
      BY <1>1, <1>6, <2>2 DEF Reading
    <3> HIDE DEF d
    <3>2. LedgersOf(d, f) \in Doc /\ SameSpools(q.docs[f], LedgersOf(d, f))
      BY <1>1, <1>2, <1>5, <2>2, <3>1, LedgersFit
    <3> QED
      BY <1>1, <1>2, <2>2, <3>1, <3>2, WrittenByJob
  <2> QED
    BY <1>1, <2>1, <2>2
<1> HIDE DEF r, q
<1>8. Fits(q, fil')
  BY <1>2, <1>7, FitsEvolves
<1>9. Fits(r, fil') /\ holder' \in HolderType
  BY <1>1, <1>2, <1>3, <1>8, FitsGoes, HolderNot
<1>10. r.pc # "undo" /\ (r.pc \in Early => q.pc \in Early)
  BY <1>1, <1>3
<1> QED
  BY <1>1, <1>2, <1>3, <1>7, <1>9, <1>10, JobGoes DEF q

\* The ends of a job.
LEMMA EndedTyped ==
    ASSUME TInv, NEW c \in Clients, Done(c), UNCHANGED <<fil, hist, replica, logs, base>>,
           fails' \in Nat, answer' \in AnswerType, AnswersStay
    PROVE  TInv'
<1>1. /\ fil' \in FilType /\ Evolves(fil, fil') /\ base' \in BaseType /\ Based'
      /\ hist' \in [Jobs -> Hist] /\ HistFollows /\ logs' \in Nat
  BY FilNot, HistNot DEF TInv, TypeOK
<1>2. Booked'
  BY <1>1, DoneBooked
<1> QED
  BY <1>1, <1>2, DoneStep

LEMMA TrimmedTyped ==
    ASSUME TInv, NEW c \in Clients, Trimmed(c)
    PROVE  TInv'
<1>1. Done(c) /\ UNCHANGED <<fil, hist, replica, logs, fails, base, answer>> /\ fails \in Nat /\ TypeOK
  BY DEF Trimmed, TInv, TypeOK
<1> QED
  BY <1>1, AnswerNot, EndedTyped

LEMMA UndoneTyped ==
    ASSUME TInv, NEW c \in Clients, Undone(c)
    PROVE  TInv'
<1> DEFINE a == IF req[c].unsafe THEN "unsafe" ELSE req[c].undo
<1>1. /\ req[c].kind = "job" /\ req[c].pc = "undo" /\ Done(c) /\ Answer(req[c].job, a)
      /\ UNCHANGED <<fil, hist, replica, logs, fails, base>>
  BY DEF Undone
<1>2. req[c] \in JobReq /\ req[c].undo # None /\ req[c].job \in Jobs /\ TypeOK /\ fails \in Nat
  BY <1>1, JobTyped
<1>3. a \in Answers
  BY <1>2 DEF JobReq, Answers
<1> HIDE DEF a
<1>4. answer' \in AnswerType /\ AnswersStay
  BY <1>1, <1>2, <1>3, AnswerStep
<1> QED
  BY <1>1, <1>2, <1>4, EndedTyped

LEMMA FailTyped ==
    ASSUME TInv, NEW c \in Clients, Fail(c)
    PROVE  TInv'
<1>1. /\ Done(c) /\ UNCHANGED <<fil, hist, replica, logs, base>> /\ fails' = fails + 1
      /\ IF req[c].kind = "job" THEN Answer(req[c].job, "error") ELSE UNCHANGED answer
  BY DEF Fail, Fault
<1>2. TypeOK /\ fails' \in Nat
  BY <1>1 DEF TInv, TypeOK
<1>3. answer' \in AnswerType /\ AnswersStay
  <2>1. CASE req[c].kind = "job"
    <3>1. req[c].job \in Jobs
      BY <2>1, JobTyped
    <3> QED
      BY <1>1, <1>2, <2>1, <3>1, AnswerStep DEF Answers
  <2>2. CASE req[c].kind # "job"
    BY <1>1, <1>2, <2>2, AnswerNot
  <2> QED
    BY <2>1, <2>2
<1> QED
  BY <1>1, <1>2, <1>3, EndedTyped

\* The deletion of a record.
LEMMA DeleteTyped ==
    ASSUME TInv, NEW c \in Clients, req[c].kind = "delete"
    PROVE  /\ req[c] \in DeleteReq /\ req[c].job \in Jobs /\ req[c].rows \in Seq(Row)
           /\ req[c].i \in Nat \ {0} /\ req[c].target \in Fils
           /\ fil \in FilType /\ TypeOK /\ logs \in Nat /\ fails \in Nat
           /\ Len(hist[req[c].job].rows) = Len(req[c].rows)
           /\ hist[req[c].job] \in Hist /\ Fits(req[c], fil)
<1>1. req[c] \in ReqType /\ TypeOK /\ fil \in FilType /\ hist \in [Jobs -> Hist] /\ Fits(req[c], fil)
  BY DEF TInv, TypeOK, ReqType, FilType
<1>2. req[c] \in DeleteReq
  BY <1>1, KindOf
<1>3. Len(hist[req[c].job].rows) = Len(req[c].rows)
  BY DEF TInv, Booked, DeletesAnswered
<1> QED
  BY <1>1, <1>2, <1>3 DEF DeleteReq, TypeOK

LEMMA DeleteJobTyped ==
    ASSUME TInv, NEW c \in Clients, NEW j \in Jobs, DeleteJob(c, j)
    PROVE  TInv'
<1> DEFINE r == [kind |-> "delete", job |-> j, rows |-> hist[j].rows, i |-> 1,
                 target |-> hist[j].rows[1].fil, hop |-> 0]
<1>1. /\ req[c] = Idle /\ hist[j].live /\ req' = [req EXCEPT ![c] = r] /\ Answer(j, "deleting")
      /\ UNCHANGED <<fil, hist, holder, replica, logs, fails, base>>
  BY DEF DeleteJob, Step
<1>2. TypeOK /\ fil \in FilType /\ hist \in [Jobs -> Hist] /\ req \in [Clients -> ReqType]
      /\ logs \in Nat /\ fails \in Nat /\ Booked
  BY DEF TInv, TypeOK, FilType, ReqType
<1>3. hist[j].rows \in Seq(Row) /\ hist[j].rows # <<>>
  BY <1>1, <1>2 DEF Booked, LiveAnswered, Hist
<1>4. hist[j].rows[1] \in Row
  BY <1>3
<1>5. r \in ReqType /\ r.kind = "delete" /\ r.job = j /\ r.rows = hist[j].rows
  BY <1>3, <1>4 DEF ReqType, DeleteReq, Row
<1> HIDE DEF r
<1>6. /\ fil' \in FilType /\ Evolves(fil, fil') /\ base' \in BaseType /\ Based'
      /\ hist' \in [Jobs -> Hist] /\ HistFollows /\ holder' \in HolderType
      /\ answer' \in AnswerType /\ AnswersStay
  BY <1>1, <1>2, FilNot, HistNot, HolderNot, AnswerStep DEF Answers
<1>7. Fits(r, fil')
  BY <1>5 DEF Fits
<1>8. \A d \in Clients : req'[d] = IF d = c THEN r ELSE req[d]
  BY <1>1, <1>2
<1>9. Booked'
  <2>1. answer'[j] # None
    BY <1>1, <1>2, <1>6 DEF Booked, LiveAnswered, AnswersStay
  <2>2. LiveAnswered'
    BY <1>1, <1>2, <1>6 DEF Booked, LiveAnswered, AnswersStay
  <2>3. DeletesAnswered'
    <3>1. ASSUME NEW d \in Clients, req'[d].kind = "delete"
          PROVE  Len(hist'[req'[d].job].rows) = Len(req'[d].rows) /\ answer'[req'[d].job] # None
      <4>1. CASE d = c
        BY <4>1, <1>1, <1>5, <1>8, <2>1
      <4>2. CASE d # c
        <5>1. req[d].kind = "delete" /\ req'[d] = req[d]
          BY <4>2, <1>8, <3>1
        <5>2. req[d].job \in Jobs
          BY <5>1, <1>2, KindOf DEF DeleteReq
        <5> QED
          BY <5>1, <5>2, <1>1, <1>2, <1>6 DEF Booked, DeletesAnswered, AnswersStay
      <4> QED
        BY <4>1, <4>2
    <3> QED
      BY <3>1 DEF DeletesAnswered
  <2>4. JobsAnswered'
    <3>1. ASSUME NEW d \in Clients, req'[d].kind = "job"
          PROVE  /\ answer'[req'[d].job] # None
                 /\ req'[d].pc = "undo" => req'[d].undo # None
                 /\ req'[d].pc \in Early => Hidden(req[d].job)' /\ req'[d].job = req[d].job
      <4>1. d # c /\ req[d].kind = "job" /\ req'[d] = req[d]
        BY <1>5, <1>8, <3>1
      <4>2. req[d].job \in Jobs
        BY <4>1, <1>2, KindOf DEF JobReq
      <4>3. /\ answer[req[d].job] # None
            /\ req[d].pc = "undo" => req[d].undo # None
            /\ req[d].pc \in Early => Hidden(req[d].job)
        BY <4>1, <1>2 DEF Booked, JobsAnswered
      <4>4. req[d].pc \in Early => req[d].job # j
        BY <4>3, <1>1 DEF Hidden
      <4>5. ASSUME req[d].pc \in Early PROVE Hidden(req[d].job)'
        <5>1. ~hist'[req[d].job].live
          BY <4>3, <4>5, <1>1 DEF Hidden
        <5>2. ASSUME NEW e \in Clients, req'[e].kind = "delete" PROVE req'[e].job # req[d].job
          <6>1. CASE e = c
            BY <6>1, <4>4, <4>5, <1>5, <1>8
          <6>2. CASE e # c
            BY <6>2, <5>2, <4>3, <4>5, <1>8 DEF Hidden
          <6> QED
            BY <6>1, <6>2
        <5> QED
          BY <4>1, <5>1, <5>2 DEF Hidden
      <4> QED
        BY <4>1, <4>2, <4>3, <4>5, <1>6 DEF AnswersStay
    <3> QED
      BY <3>1 DEF JobsAnswered, Hidden
  <2>5. OneRequest'
    BY <1>2, <1>5, <1>8 DEF Booked, OneRequest
  <2> QED
    BY <2>2, <2>3, <2>4, <2>5 DEF Booked
<1> QED
  BY <1>1, <1>2, <1>5, <1>6, <1>7, <1>9, TypedStep

\* What a row pays back into a spool.
LEMMA RefundedType ==
    ASSUME NEW sp \in Spool, NEW r
    PROVE  LET k == EntryOf(sp.ledger, r.job, r.rows[r.i].grams)
           IN /\ Refunded(sp, r) \in Spool /\ Refunded(sp, r).id = sp.id
              /\ k = 0 => Refunded(sp, r) = sp
              /\ k # 0 => /\ k \in DOMAIN sp.ledger /\ sp.ledger[k].job = r.job
                          /\ Refunded(sp, r) =
                               [id |-> sp.id, weight |-> sp.weight + sp.ledger[k].debited,
                                ledger |-> Only(sp.ledger, DOMAIN sp.ledger \ {k})]
<1> DEFINE k == EntryOf(sp.ledger, r.job, r.rows[r.i].grams)
<1> DEFINE l == Only(sp.ledger, DOMAIN sp.ledger \ {k})
<1> DEFINE x == sp.weight + sp.ledger[k].debited
<1>1. sp.ledger \in Seq(Entry) /\ sp.weight \in Nat
  BY SpoolFields
<1>2. k # 0 => k \in DOMAIN sp.ledger /\ sp.ledger[k].job = r.job
  BY <1>1, EntryOfIn
<1>3. k = 0 => Refunded(sp, r) = sp
  BY DEF Refunded
<1>4. k # 0 => Refunded(sp, r) = [sp EXCEPT !.weight = x, !.ledger = l]
  BY DEF Refunded
<1> HIDE DEF k
<1>5. l \in Seq(Entry)
  BY <1>1, OnlyType
<1>6. k # 0 => x \in Nat
  <2>1. k # 0 => sp.ledger[k] \in Entry
    BY <1>1, <1>2
  <2>2. k # 0 => sp.ledger[k].debited \in Nat
    BY <2>1 DEF Entry
  <2> QED
    BY <1>1, <2>2
<1> HIDE DEF l, x
<1>7. [sp EXCEPT !.weight = x, !.ledger = l] = [id |-> sp.id, weight |-> x, ledger |-> l]
  <2>1. [sp EXCEPT !.weight = x, !.ledger = l] = [[sp EXCEPT !.weight = x] EXCEPT !.ledger = l]
    OBVIOUS
  <2>2. [sp EXCEPT !.weight = x] = [id |-> sp.id, weight |-> x, ledger |-> sp.ledger]
    BY DEF Spool
  <2>3. [[id |-> sp.id, weight |-> x, ledger |-> sp.ledger] EXCEPT !.ledger = l] =
           [id |-> sp.id, weight |-> x, ledger |-> l]
    OBVIOUS
  <2> QED
    BY <2>1, <2>2, <2>3
<1>8. k # 0 => [id |-> sp.id, weight |-> x, ledger |-> l] \in Spool
  BY <1>5, <1>6, SpoolFields DEF Spool
<1>9. Refunded(sp, r) \in Spool /\ Refunded(sp, r).id = sp.id
  BY <1>3, <1>4, <1>7, <1>8
<1> QED
  BY <1>2, <1>3, <1>4, <1>7, <1>9 DEF k, l, x

LEMMA NextRowType ==
    ASSUME NEW r \in DeleteReq, r.i <= Len(r.rows)
    PROVE  NextRow(r) \in DeleteReq /\ NextRow(r).kind = "delete"
           /\ NextRow(r).job = r.job /\ NextRow(r).rows = r.rows
<1> DEFINE t == IF r.i < Len(r.rows) THEN r.rows[r.i + 1].fil ELSE r.target
<1>1. r.rows \in Seq(Row) /\ r.i \in Nat \ {0} /\ r.target \in Fils /\ Len(r.rows) \in Nat
      /\ DOMAIN r.rows = 1..Len(r.rows)
  BY DEF DeleteReq
<1>2. t \in Fils
  <2>1. r.i < Len(r.rows) => r.i + 1 \in DOMAIN r.rows
    BY <1>1
  <2>2. r.i < Len(r.rows) => r.rows[r.i + 1] \in Row
    BY <1>1, <2>1
  <2> QED
    BY <1>1, <2>2 DEF Row
<1>3. NextRow(r) = [r EXCEPT !.i = r.i + 1, !.hop = 0, !.target = t]
  BY DEF NextRow
<1> HIDE DEF t
<1>4. r.i + 1 \in Nat \ {0}
  BY <1>1
<1>5. NextRow(r) = [[[r EXCEPT !.i = r.i + 1] EXCEPT !.hop = 0] EXCEPT !.target = t]
  BY <1>3
<1> DEFINE a == [r EXCEPT !.i = r.i + 1]
<1> DEFINE b == [a EXCEPT !.hop = 0]
<1>6. a \in DeleteReq /\ a.kind = "delete" /\ a.job = r.job /\ a.rows = r.rows
  BY <1>4 DEF DeleteReq
<1>7. NextRow(r) = [b EXCEPT !.target = t]
  BY <1>5
<1> HIDE DEF a
<1>8. b \in DeleteReq /\ b.kind = "delete" /\ b.job = r.job /\ b.rows = r.rows
  BY <1>6 DEF DeleteReq
<1> HIDE DEF b
<1> QED
  BY <1>2, <1>7, <1>8 DEF DeleteReq

\* One spool of a filament is written.
LEMMA OneSpoolWritten ==
    ASSUME fil \in FilType, NEW f \in Fils, fil[f] # NoFil, NEW i \in DOMAIN fil[f].spools,
           NEW sp \in Spool, sp.id = fil[f].spools[i].id, NEW v \in Nat, fil[f].ver <= v
    PROVE  LET o == fil[f]
               e == [[o EXCEPT !.ver = v] EXCEPT !.spools = [o.spools EXCEPT ![i] = sp]]
           IN /\ e \in Doc /\ o.ver <= e.ver /\ e.ver = v /\ SameSpools(o, e)
              /\ e.parent = o.parent /\ e.gross = o.gross
              /\ DOMAIN e.spools = DOMAIN o.spools
              /\ \A k \in DOMAIN o.spools : e.spools[k] = IF k = i THEN sp ELSE o.spools[k]
<1> DEFINE o == fil[f]
<1> DEFINE sps == [o.spools EXCEPT ![i] = sp]
<1> DEFINE u == [o EXCEPT !.ver = v]
<1>1. /\ o \in Doc /\ o.ver \in Nat /\ DOMAIN o.spools = 1..Len(o.spools) /\ Len(o.spools) \in Nat
      /\ o.spools \in Seq(Spool) /\ sp.id = o.spools[i].id /\ i \in DOMAIN o.spools /\ o.ver <= v
  BY FilDoc
<1> HIDE DEF o
<1>2. /\ sps \in Seq(Spool) /\ Len(sps) = Len(o.spools) /\ DOMAIN sps = DOMAIN o.spools
      /\ \A k \in DOMAIN o.spools : sps[k] = IF k = i THEN sp ELSE o.spools[k]
  BY <1>1
<1>3. u \in Doc /\ u.ver = v /\ u.parent = o.parent /\ u.gross = o.gross
  BY <1>1 DEF Doc
<1> HIDE DEF sps, u
<1> DEFINE e == [u EXCEPT !.spools = sps]
<1>4. e \in Doc /\ e.ver = v /\ e.parent = o.parent /\ e.gross = o.gross /\ e.spools = sps
  BY <1>2, <1>3 DEF Doc
<1> HIDE DEF e
<1>5. SameSpools(o, e)
  BY <1>1, <1>2, <1>4 DEF SameSpools
<1>6. e \in Doc /\ o.ver <= e.ver /\ e.ver = v /\ SameSpools(o, e)
      /\ e.parent = o.parent /\ e.gross = o.gross
      /\ DOMAIN e.spools = DOMAIN o.spools
      /\ \A k \in DOMAIN o.spools : e.spools[k] = IF k = i THEN sp ELSE o.spools[k]
  BY <1>1, <1>2, <1>4, <1>5
<1> QED
  BY <1>6 DEF e, u, sps, o

LEMMA RowAt ==
    ASSUME NEW rows \in Seq(Row), NEW n \in Nat \ {0}, n <= Len(rows)
    PROVE  rows[n] \in Row
<1>1. n \in 1..Len(rows)
  OBVIOUS
<1> QED
  BY <1>1

LEMMA RefundRowTyped ==
    ASSUME TInv, NEW c \in Clients, RefundRow(c)
    PROVE  TInv'
<1> DEFINE q == req[c]
<1> DEFINE f == q.target
<1> DEFINE hopped == [q EXCEPT !.target = FilNow(q), !.hop = 1]
<1> DEFINE i == IF fil[f] = NoFil THEN 0 ELSE IndexOf(fil[f], q.rows[q.i].spool)
<1> DEFINE sp == Refunded(fil[f].spools[i], q)
<1>1. /\ q.kind = "delete" /\ q.i <= Len(q.rows)
      /\ \/ req' = [req EXCEPT ![c] = NextRow(q)] /\ UNCHANGED fil
         \/ req' = [req EXCEPT ![c] = hopped] /\ UNCHANGED fil
         \/ /\ req' = [req EXCEPT ![c] = NextRow(q)]
            /\ i # 0
            /\ fil' = [fil EXCEPT ![f].ver = @ + 1, ![f].spools[i] = sp]
      /\ UNCHANGED <<hist, holder, replica, logs, fails, base, answer>>
  BY DEF RefundRow, Step
<1>2. /\ q \in DeleteReq /\ q.job \in Jobs /\ q.rows \in Seq(Row) /\ q.i \in Nat \ {0}
      /\ f \in Fils /\ fil \in FilType /\ TypeOK /\ logs \in Nat /\ fails \in Nat
      /\ Len(hist[q.job].rows) = Len(q.rows) /\ hist[q.job] \in Hist
  BY <1>1, DeleteTyped
<1>3. hopped \in DeleteReq /\ hopped.kind = "delete" /\ hopped.job = q.job /\ hopped.rows = q.rows
  <2>1. hist[q.job].rows \in Seq(Row)
    BY <1>2 DEF Hist
  <2>2. q.i \in Nat \ {0} /\ q.i <= Len(hist[q.job].rows)
    BY <1>1, <1>2
  <2>3. hist[q.job].rows[q.i] \in Row
    <3> HIDE DEF q
    <3> QED
      BY <2>1, <2>2, RowAt
  <2>4. FilNow(q) \in Fils
    BY <2>3 DEF FilNow, Row
  <2> QED
    BY <1>2, <2>4 DEF DeleteReq
<1>4. NextRow(q) \in DeleteReq /\ NextRow(q).kind = "delete" /\ NextRow(q).job = q.job
      /\ NextRow(q).rows = q.rows
  BY <1>1, <1>2, NextRowType
<1>5. PICK r \in DeleteReq : /\ req' = [req EXCEPT ![c] = r] /\ r.kind = "delete"
                             /\ r.job = q.job /\ r.rows = q.rows
  <2> HIDE DEF hopped
  <2> QED
    BY <1>1, <1>3, <1>4
<1>6. fil' \in FilType /\ Evolves(fil, fil') /\ base' \in BaseType /\ Based'
  <2>1. CASE UNCHANGED fil
    BY <1>1, <2>1, FilNot
  <2>2. CASE i # 0 /\ fil' = [fil EXCEPT ![f].ver = @ + 1, ![f].spools[i] = sp]
    <3> DEFINE o == fil[f]
    <3>1. fil[f] # NoFil /\ o \in Doc /\ o.ver \in Nat /\ i = IndexOf(o, q.rows[q.i].spool)
      BY <1>2, <2>2, FilDoc
    <3>2. i \in DOMAIN o.spools
      BY <2>2, <3>1, IndexOfIn
    <3>3. fil[f].spools[i] \in Spool
      BY <1>2, <3>1, <3>2, FilDoc
    <3>4. sp \in Spool /\ sp.id = fil[f].spools[i].id
      <4> HIDE DEF q
      <4> QED
        BY <3>3, RefundedType
    <3>5. fil' = [fil EXCEPT ![f] =
                    [[o EXCEPT !.ver = o.ver + 1] EXCEPT !.spools = [o.spools EXCEPT ![i] = sp]]]
      BY <1>2, <2>2, <3>1 DEF FilType, Doc
    <3> HIDE DEF sp, i
    <3> DEFINE e == [[o EXCEPT !.ver = o.ver + 1] EXCEPT !.spools = [o.spools EXCEPT ![i] = sp]]
    <3>6. o.ver + 1 \in Nat /\ o.ver <= o.ver + 1
      BY <3>1
    <3>7. e \in Doc /\ o.ver <= e.ver /\ SameSpools(o, e)
      BY <1>2, <3>1, <3>2, <3>4, <3>6, OneSpoolWritten
    <3> HIDE DEF e
    <3> QED
      BY <1>1, <1>2, <3>1, <3>5, <3>7, FilWrite DEF e
  <2> QED
    BY <1>1, <2>1, <2>2
<1> HIDE DEF q
<1>7. hist' \in [Jobs -> Hist] /\ HistFollows /\ answer' \in AnswerType /\ AnswersStay
      /\ holder' \in HolderType
  BY <1>1, <1>2, HistNot, AnswerNot, HolderNot
<1>8. r \in ReqType /\ Fits(r, fil')
  BY <1>5 DEF ReqType, Fits
<1>9. Booked'
  <2>1. TypeOK /\ Booked
    BY DEF TInv
  <2>2. r.kind # "job" /\ req[c].kind = "delete" /\ r.job = req[c].job /\ r.rows = req[c].rows
    BY <1>1, <1>5 DEF q
  <2> QED
    BY <1>5, <1>7, <1>8, <2>1, <2>2, BookedKept
<1> QED
  BY <1>1, <1>2, <1>5, <1>6, <1>7, <1>8, <1>9, TypedStep

LEMMA TombstoneTyped ==
    ASSUME TInv, NEW c \in Clients, Tombstone(c)
    PROVE  TInv'
<1> DEFINE j == req[c].job
<1>1. /\ req[c].kind = "delete" /\ hist' = [hist EXCEPT ![j].live = FALSE] /\ Done(c)
      /\ UNCHANGED <<fil, replica, logs, fails, base, answer>>
  BY DEF Tombstone
<1>2. /\ j \in Jobs /\ TypeOK /\ logs \in Nat /\ fails \in Nat /\ hist[j] \in Hist
      /\ hist \in [Jobs -> Hist]
  BY <1>1, DeleteTyped DEF TypeOK
<1>3. hist' \in [Jobs -> Hist] /\ HistFollows
  <2> DEFINE H == [hist EXCEPT ![j].live = FALSE]
  <2>1. H \in [Jobs -> Hist]
    BY <1>2 DEF Hist
  <2>2. \A k \in Jobs : H[k].rows = hist[k].rows /\ (H[k].live => hist[k].live)
    BY <1>2 DEF Hist
  <2> QED
    BY <1>1, <2>1, <2>2 DEF HistFollows
<1>4. /\ fil' \in FilType /\ Evolves(fil, fil') /\ base' \in BaseType /\ Based'
      /\ answer' \in AnswerType /\ AnswersStay
  BY <1>1, <1>2, FilNot, AnswerNot
<1>5. Booked'
  BY <1>1, <1>3, <1>4, DoneBooked
<1> QED
  BY <1>1, <1>2, <1>3, <1>4, <1>5, DoneStep

\* The promotion: the copy has the spools of the parent.
LEMMA PromoteTyped ==
    ASSUME TInv, NEW c \in Clients, NEW f \in Fils, Promote(c, f)
    PROVE  TInv'
<1> DEFINE copy == [fil[f] EXCEPT !.ver = 0, !.parent = f]
<1> DEFINE moved == {fil[f].spools[i].id : i \in DOMAIN fil[f].spools}
<1>1. PICK v \in Fils :
      /\ \/ fil[v] # NoFil /\ UNCHANGED fil
         \/ fil[v] = NoFil /\ fil' = [fil EXCEPT ![v] = copy]
      /\ req' = [req EXCEPT ![c] =
                   [kind |-> "promote", pc |-> "remap", from |-> f, to |-> v, moved |-> moved]]
  BY DEF Promote, Step
<1>2. /\ req[c] = Idle /\ fil[f] # NoFil /\ holder' = [holder EXCEPT ![f] = c]
      /\ UNCHANGED <<hist, replica, logs, fails, base, answer>>
  BY DEF Promote
<1> DEFINE r == [kind |-> "promote", pc |-> "remap", from |-> f, to |-> v, moved |-> moved]
<1>3. TypeOK /\ fil \in FilType /\ req \in [Clients -> ReqType] /\ logs \in Nat /\ fails \in Nat
      /\ base \in BaseType /\ Based /\ Booked /\ holder \in HolderType
  BY DEF TInv, TypeOK, FilType, ReqType, BaseType, HolderType
<1>4. /\ fil[f] \in Doc /\ fil[f].spools \in Seq(Spool)
      /\ \A i \in DOMAIN fil[f].spools : fil[f].spools[i] \in Spool
  BY <1>2, <1>3, FilDoc
<1>5. moved \subseteq Spools
  BY <1>4, SpoolFields
<1>6. copy \in Doc /\ copy.spools = fil[f].spools
  <2> DEFINE o == fil[f]
  <2> HIDE DEF o
  <2>1. o \in Doc
    BY <1>4 DEF o
  <2> DEFINE u == [o EXCEPT !.ver = 0]
  <2>2. u \in Doc /\ u.spools = o.spools
    BY <2>1 DEF Doc
  <2> HIDE DEF u
  <2>3. [u EXCEPT !.parent = f] \in Doc /\ [u EXCEPT !.parent = f].spools = u.spools
    BY <2>2 DEF Doc
  <2>4. copy = [u EXCEPT !.parent = f]
    BY DEF u, o
  <2> QED
    BY <2>2, <2>3, <2>4 DEF o
<1>7. r \in ReqType /\ r.kind = "promote" /\ r.from = f
  BY <1>5 DEF ReqType, PromoteReq
<1> HIDE DEF copy, r
<1>8. fil' \in FilType /\ Evolves(fil, fil')
  <2>1. CASE UNCHANGED fil
    BY <1>3, <2>1, EvolvesNot
  <2>2. CASE fil[v] = NoFil /\ fil' = [fil EXCEPT ![v] = copy]
    <3>1. [fil EXCEPT ![v] = copy] \in FilType
      BY <1>3, <1>6 DEF FilType
    <3>2. ASSUME NEW g \in Fils, fil[g] # NoFil
          PROVE  [fil EXCEPT ![v] = copy][g] = fil[g] /\ fil[g].ver \in Nat
      BY <1>3, <2>2, <3>2, FilDoc DEF FilType
    <3>3. Evolves(fil, [fil EXCEPT ![v] = copy])
      BY <3>2 DEF Evolves, SameSpools
    <3> QED
      BY <2>2, <3>1, <3>3
  <2> QED
    BY <1>1, <2>1, <2>2
<1>9. base' \in BaseType /\ Based'
  <2>1. ASSUME NEW g \in Fils, fil'[g] # NoFil, NEW i \in DOMAIN fil'[g].spools
        PROVE  \E h \in Fils : fil[h] # NoFil /\ \E k \in DOMAIN fil[h].spools :
                   fil'[g].spools[i].id = fil[h].spools[k].id
    <3>1. CASE fil'[g] = fil[g]
      BY <2>1, <3>1
    <3>2. CASE fil'[g] = copy
      BY <2>1, <3>2, <1>2, <1>6
    <3> QED
      BY <1>1, <1>3, <3>1, <3>2 DEF FilType
  <2> QED
    BY <1>2, <1>3, <2>1, BasedKept
<1>10. hist' \in [Jobs -> Hist] /\ HistFollows /\ answer' \in AnswerType /\ AnswersStay
  BY <1>2, <1>3, HistNot, AnswerNot
<1>11. holder' \in HolderType
  BY <1>2, <1>3 DEF HolderType
<1>12. Fits(r, fil')
  BY <1>2, <1>7, <1>8 DEF Fits, Evolves
<1>13. Booked'
  BY <1>1, <1>3, <1>7, <1>10, BookedKept DEF r
<1> QED
  BY <1>1, <1>2, <1>3, <1>7, <1>8, <1>9, <1>10, <1>11, <1>12, <1>13, TypedStep DEF r

LEMMA PromotingTyped ==
    ASSUME TInv, NEW c \in Clients, req[c].kind = "promote"
    PROVE  /\ req[c] \in PromoteReq /\ req[c].from \in Fils /\ req[c].to \in Fils
           /\ fil[req[c].from] # NoFil /\ fil \in FilType /\ TypeOK
           /\ logs \in Nat /\ fails \in Nat /\ hist \in [Jobs -> Hist] /\ Booked
<1>1. req[c] \in ReqType /\ Fits(req[c], fil) /\ fil \in FilType /\ TypeOK /\ Booked
  BY DEF TInv, TypeOK, ReqType, FilType
<1>2. req[c] \in PromoteReq
  BY <1>1, KindOf
<1> QED
  BY <1>1, <1>2 DEF PromoteReq, Fits, TypeOK

\* The rows of the spools that move name the copy.
LEMMA RemapRows ==
    ASSUME hist \in [Jobs -> Hist], NEW c \in Clients, req[c] \in PromoteReq, Remap(c)
    PROVE  /\ hist' \in [Jobs -> Hist]
           /\ \A j \in Jobs : /\ hist'[j].live = hist[j].live
                              /\ Len(hist'[j].rows) = Len(hist[j].rows)
                              /\ \A i \in DOMAIN hist[j].rows : hist'[j].rows[i] =
                                    IF hist[j].rows[i].fil = req[c].from
                                       /\ hist[j].rows[i].spool \in req[c].moved
                                    THEN [hist[j].rows[i] EXCEPT !.fil = req[c].to]
                                    ELSE hist[j].rows[i]
<1> DEFINE r == req[c]
<1> DEFINE follow(row) == IF row.fil = r.from /\ row.spool \in r.moved
                          THEN [row EXCEPT !.fil = r.to] ELSE row
<1> DEFINE rows(j) == [i \in DOMAIN hist[j].rows |-> follow(hist[j].rows[i])]
<1>1. hist' = [j \in Jobs |-> [hist[j] EXCEPT !.rows = rows(j)]]
  BY DEF Remap
<1>2. r.to \in Fils
  BY DEF PromoteReq
<1> HIDE DEF r
<1>3. \A row \in Row : follow(row) \in Row
  BY <1>2 DEF Row
<1> HIDE DEF follow
<1>4. ASSUME NEW j \in Jobs
      PROVE  /\ rows(j) \in Seq(Row) /\ Len(rows(j)) = Len(hist[j].rows)
             /\ \A i \in DOMAIN hist[j].rows : rows(j)[i] = follow(hist[j].rows[i])
  <2> DEFINE s == hist[j].rows
  <2>1. s \in Seq(Row) /\ DOMAIN s = 1..Len(s) /\ Len(s) \in Nat
    BY DEF Hist
  <2>2. rows(j) \in [1..Len(s) -> Row]
    BY <1>3, <2>1
  <2>3. \A i \in DOMAIN s : rows(j)[i] = follow(s[i])
    OBVIOUS
  <2> HIDE DEF rows, s
  <2>4. rows(j) \in Seq(Row) /\ Len(rows(j)) = Len(s)
    BY <2>1, <2>2
  <2> QED
    BY <2>3, <2>4 DEF s
<1> HIDE DEF rows
<1>5. ASSUME NEW j \in Jobs
      PROVE  hist'[j] \in Hist /\ hist'[j].live = hist[j].live /\ hist'[j].rows = rows(j)
  <2>1. hist'[j] = [hist[j] EXCEPT !.rows = rows(j)]
    BY <1>1
  <2> QED
    BY <1>4, <2>1 DEF Hist
<1>6. hist' \in [Jobs -> Hist]
  BY <1>1, <1>5
<1> QED
  BY <1>4, <1>5, <1>6 DEF follow, r

LEMMA RemapTyped ==
    ASSUME TInv, NEW c \in Clients, Remap(c)
    PROVE  TInv'
<1> DEFINE q == req[c]
<1> DEFINE r == [q EXCEPT !.pc = "complete"]
<1>1. /\ q.kind = "promote" /\ q.pc = "remap" /\ req' = [req EXCEPT ![c] = r]
      /\ UNCHANGED <<fil, holder, replica, logs, fails, base, answer>>
  BY DEF Remap, Step
<1>2. /\ q \in PromoteReq /\ fil[q.from] # NoFil /\ fil \in FilType /\ TypeOK
      /\ logs \in Nat /\ fails \in Nat /\ hist \in [Jobs -> Hist] /\ Booked
  BY <1>1, PromotingTyped
<1>3. hist' \in [Jobs -> Hist] /\ HistFollows
  BY <1>2, RemapRows DEF HistFollows
<1>4. r \in ReqType /\ r.kind = "promote" /\ r.from = q.from
  BY <1>2 DEF ReqType, PromoteReq
<1> HIDE DEF r, q
<1>5. /\ fil' \in FilType /\ Evolves(fil, fil') /\ base' \in BaseType /\ Based'
      /\ answer' \in AnswerType /\ AnswersStay /\ holder' \in HolderType
  BY <1>1, <1>2, FilNot, AnswerNot, HolderNot
<1>6. Fits(r, fil')
  BY <1>1, <1>2, <1>4 DEF Fits
<1>7. Booked'
  BY <1>1, <1>2, <1>3, <1>4, <1>5, BookedKept
<1> QED
  BY <1>1, <1>2, <1>3, <1>4, <1>5, <1>6, <1>7, TypedStep

LEMMA ClearedType ==
    ASSUME NEW d \in Doc
    PROVE  /\ Cleared(d) \in Doc /\ Cleared(d).ver = d.ver + 1 /\ Cleared(d).spools = <<>>
           /\ Cleared(d).gross = None /\ Cleared(d).parent = d.parent
<1> DEFINE u == [d EXCEPT !.ver = d.ver + 1]
<1> DEFINE w == [u EXCEPT !.spools = <<>>]
<1>1. <<>> \in Seq(Spool) /\ d.ver + 1 \in Nat
  BY DEF Doc
<1>2. Cleared(d) = [w EXCEPT !.gross = None]
  BY DEF Cleared
<1>3. u \in Doc /\ u.ver = d.ver + 1 /\ u.parent = d.parent
  BY <1>1 DEF Doc
<1> HIDE DEF u
<1>4. w \in Doc /\ w.ver = d.ver + 1 /\ w.parent = d.parent /\ w.spools = <<>>
  BY <1>1, <1>3 DEF Doc
<1> HIDE DEF w
<1> QED
  BY <1>2, <1>4 DEF Doc

LEMMA CompleteTyped ==
    ASSUME TInv, NEW c \in Clients, Complete(c)
    PROVE  TInv'
<1> DEFINE f == req[c].from
<1>1. /\ req[c].kind = "promote" /\ fil' = [fil EXCEPT ![f] = Cleared(fil[f])] /\ Done(c)
      /\ UNCHANGED <<hist, replica, logs, fails, base, answer>>
  BY DEF Complete
<1>2. /\ f \in Fils /\ fil[f] # NoFil /\ fil \in FilType /\ TypeOK
      /\ logs \in Nat /\ fails \in Nat /\ hist \in [Jobs -> Hist] /\ Booked
  BY <1>1, PromotingTyped
<1> HIDE DEF f
<1> DEFINE e == Cleared(fil[f])
<1>3. e \in Doc /\ fil[f].ver \in Nat /\ e.ver = fil[f].ver + 1 /\ e.spools = <<>>
  BY <1>2, FilDoc, ClearedType
<1> HIDE DEF e
<1>4. fil[f].ver <= e.ver /\ fil[f].ver # e.ver
  BY <1>3
<1>5. fil' = [fil EXCEPT ![f] = e]
  BY <1>1 DEF e
<1>6. fil' \in FilType /\ Evolves(fil, fil')
  BY <1>2, <1>3, <1>4, <1>5, EvolvesOne
<1>7. base' \in BaseType /\ Based'
  <2>1. ASSUME NEW g \in Fils, fil'[g] # NoFil, NEW i \in DOMAIN fil'[g].spools
        PROVE  base'[fil'[g].spools[i].id] # None
    <3>1. g # f
      BY <1>2, <1>3, <1>5, <2>1 DEF FilType
    <3> QED
      BY <3>1, <2>1, <1>1, <1>2, <1>5 DEF TInv, Based, FilType
  <2> QED
    BY <1>1, <1>2, <2>1 DEF Based, TypeOK, BaseType
<1>8. hist' \in [Jobs -> Hist] /\ HistFollows /\ answer' \in AnswerType /\ AnswersStay
  BY <1>1, <1>2, HistNot, AnswerNot
<1>9. Booked'
  BY <1>1, <1>8, DoneBooked
<1> QED
  BY <1>1, <1>2, <1>6, <1>7, <1>8, <1>9, DoneStep

\* The requests are let alone.
LEMMA TypedRest ==
    ASSUME TInv, fil' \in FilType, Evolves(fil, fil'), base' \in BaseType, Based',
           UNCHANGED <<hist, holder, replica, req, answer>>, logs' \in Nat, fails' \in Nat
    PROVE  TInv'
<1>1. TypeOK /\ req \in [Clients -> ReqType] /\ fil \in FilType /\ Booked
  BY DEF TInv, TypeOK, ReqType, FilType
<1>2. TypeOK'
  BY <1>1 DEF TypeOK, FilType, BaseType
<1>3. ASSUME NEW d \in Clients PROVE Fits(req'[d], fil')
  BY <1>1, FitsEvolves DEF TInv
<1>4. Booked'
  BY <1>1 DEF Booked, LiveAnswered, DeletesAnswered, JobsAnswered, OneRequest, Hidden
<1> QED
  BY <1>2, <1>3, <1>4 DEF TInv

\* One filament is written, and what one of its spools would weigh.
LEMMA SpoolTyped ==
    ASSUME TInv, NEW f \in Fils, fil[f] # NoFil, NEW e \in Doc, fil[f].ver <= e.ver,
           SameSpools(fil[f], e), fil' = [fil EXCEPT ![f] = e],
           NEW s, NEW b \in Int, base' = [base EXCEPT ![s] = b]
    PROVE  fil' \in FilType /\ Evolves(fil, fil') /\ base' \in BaseType /\ Based'
<1>1. fil \in FilType /\ base \in BaseType /\ Based
  BY DEF TInv, TypeOK, FilType, BaseType
<1>2. fil' \in FilType /\ Evolves(fil, fil')
  BY <1>1, EvolvesOne
<1>3. b # None /\ base' \in BaseType
  BY <1>1, PrintJobsAssumption DEF BaseType
<1>4. \A t \in Spools : base[t] # None => base'[t] # None
  BY <1>1, <1>3 DEF BaseType
<1>5. fil[f] \in Doc /\ SameSpools(e, fil[f]) /\ DOMAIN e.spools = DOMAIN fil[f].spools
  BY <1>1, FilDoc, SameSpoolsBack
<1>6. ASSUME NEW g \in Fils, fil'[g] # NoFil, NEW k \in DOMAIN fil'[g].spools
      PROVE  base'[fil'[g].spools[k].id] # None
  <2> DEFINE G == fil'
  <2>1. G \in FilType /\ G[g] # NoFil /\ k \in DOMAIN G[g].spools
    BY <1>2, <1>6
  <2> HIDE DEF G
  <2>2. G[g].spools[k].id \in Spools
    BY <2>1, FilDoc, SpoolFields
  <2>3. PICK t \in Spools : t = fil'[g].spools[k].id
    BY <2>2 DEF G
  <2>4. CASE g = f
    <3>1. t = fil[f].spools[k].id /\ k \in DOMAIN fil[f].spools
      BY <1>1, <1>5, <1>6, <2>3, <2>4 DEF FilType, SameSpools
    <3> QED
      BY <3>1, <1>1, <1>4, <2>3 DEF Based
  <2>5. CASE g # f
    <3>1. fil'[g] = fil[g]
      BY <1>1, <2>5 DEF FilType
    <3> QED
      BY <3>1, <1>1, <1>4, <1>6, <2>3 DEF Based
  <2> QED
    BY <2>4, <2>5
<1> QED
  BY <1>2, <1>3, <1>6 DEF Based

LEMMA LogUsageTyped ==
    ASSUME TInv, NEW f \in Fils, NEW i, LogUsage(f, i)
    PROVE  TInv'
<1> DEFINE o == fil[f]
<1> DEFINE old == fil[f].spools[i]
<1> DEFINE sp == Debit(old, None, 1)
<1> DEFINE new == [sp EXCEPT !.ledger = Cap(sp.ledger)]
<1>1. /\ fil[f] # NoFil /\ i \in DOMAIN fil[f].spools
      /\ fil' = [fil EXCEPT ![f].ver = @ + 1, ![f].spools[i] = new]
      /\ base' = [base EXCEPT ![sp.id] = @ - (old.weight - sp.weight)]
      /\ logs' = logs + 1 /\ UNCHANGED <<hist, holder, replica, req, fails, answer>>
  BY DEF LogUsage
<1>2. fil \in FilType /\ base \in BaseType /\ Based /\ logs \in Nat /\ fails \in Nat
  BY DEF TInv, TypeOK, FilType, BaseType
<1>3. o \in Doc /\ o.ver \in Nat /\ old \in Spool /\ o.spools \in Seq(Spool)
  BY <1>1, <1>2, FilDoc
<1>4. sp \in Spool /\ sp.id = old.id
  <2> HIDE DEF old
  <2>1. None \in Jobs \cup {None} /\ 1 \in Nat
    OBVIOUS
  <2> DEFINE l == Append(old.ledger, [job |-> None, grams |-> 1, debited |-> Least(old.weight, 1)])
  <2>2. sp \in Spool /\ sp = [id |-> old.id, weight |-> old.weight - Least(old.weight, 1), ledger |-> l]
    BY <1>3, <2>1, DebitType
  <2> HIDE DEF l, sp
  <2> QED
    BY <2>2
<1>5. fil' = [fil EXCEPT ![f] =
                [[o EXCEPT !.ver = o.ver + 1] EXCEPT !.spools = [o.spools EXCEPT ![i] = new]]]
  BY <1>1, <1>2, <1>3 DEF FilType, Doc
<1> HIDE DEF sp
<1>6. new \in Spool /\ new.id = old.id
  <2> DEFINE l == Cap(sp.ledger)
  <2>1. sp.ledger \in Seq(Entry)
    BY <1>4, SpoolFields
  <2>2. l \in Seq(Entry)
    BY <2>1, CapType
  <2> HIDE DEF l
  <2>3. [sp EXCEPT !.ledger = l] \in Spool /\ [sp EXCEPT !.ledger = l].id = sp.id
    BY <1>4, <2>2 DEF Spool
  <2>4. new = [sp EXCEPT !.ledger = l]
    BY DEF l
  <2> HIDE DEF new
  <2>5. new.id = sp.id
    BY <2>3, <2>4
  <2> QED
    BY <1>4, <2>3, <2>4, <2>5
<1>7. base[new.id] \in Int /\ sp.weight \in Nat /\ old.weight \in Nat
  BY <1>1, <1>2, <1>3, <1>4, <1>6 DEF Based, BaseType, Spool
<1> DEFINE b == base[new.id] - (old.weight - sp.weight)
<1>8. b \in Int /\ base' = [base EXCEPT ![new.id] = b]
  <2>1. new.id = sp.id
    BY <1>4, <1>6
  <2> HIDE DEF new, old
  <2>2. b \in Int
    BY <1>7
  <2>3. base' = [base EXCEPT ![new.id] = b]
    BY <1>1, <2>1
  <2> QED
    BY <2>2, <2>3
<1> HIDE DEF b, new
<1>9. o.ver + 1 \in Nat /\ o.ver <= o.ver + 1 /\ logs' \in Nat
  BY <1>1, <1>2, <1>3
<1> DEFINE e == [[o EXCEPT !.ver = o.ver + 1] EXCEPT !.spools = [o.spools EXCEPT ![i] = new]]
<1>10. e \in Doc /\ o.ver <= e.ver /\ SameSpools(o, e)
  BY <1>1, <1>2, <1>6, <1>9, OneSpoolWritten
<1> HIDE DEF e
<1>11. fil' \in FilType /\ Evolves(fil, fil') /\ base' \in BaseType /\ Based'
  BY <1>1, <1>5, <1>8, <1>10, SpoolTyped DEF e
<1> QED
  BY <1>1, <1>2, <1>9, <1>11, TypedRest

LEMMA WeighTyped ==
    ASSUME TInv, NEW f \in Fils, NEW i, Weigh(f, i)
    PROVE  TInv'
<1> DEFINE o == fil[f]
<1> DEFINE old == fil[f].spools[i]
<1>1. PICK w \in {0, 1} :
          /\ fil' = [fil EXCEPT ![f].spools[i].weight = w]
          /\ base' = [base EXCEPT ![old.id] = w + Debited(old.ledger)]
  BY DEF Weigh
<1>2. /\ fil[f] # NoFil /\ i \in DOMAIN fil[f].spools
      /\ logs' = logs + 1 /\ UNCHANGED <<hist, holder, replica, req, fails, answer>>
  BY DEF Weigh
<1>3. fil \in FilType /\ logs \in Nat /\ fails \in Nat
  BY DEF TInv, TypeOK, FilType
<1>4. o \in Doc /\ o.ver \in Nat /\ old \in Spool /\ o.spools \in Seq(Spool)
  BY <1>2, <1>3, FilDoc
<1> DEFINE new == [old EXCEPT !.weight = w]
<1>5. new \in Spool /\ new.id = old.id
  <2>1. w \in Nat /\ old \in Spool
    BY <1>4
  <2> HIDE DEF old
  <2> QED
    BY <2>1 DEF Spool
<1>6. fil' = [fil EXCEPT ![f] =
                [[o EXCEPT !.ver = o.ver] EXCEPT !.spools = [o.spools EXCEPT ![i] = new]]]
  <2>1. [o EXCEPT !.ver = o.ver] = o
    BY <1>4 DEF Doc
  <2>2. fil' = [fil EXCEPT ![f] = [o EXCEPT !.spools = [o.spools EXCEPT ![i] = new]]]
    BY <1>1, <1>3, <1>4 DEF FilType, Doc
  <2> QED
    BY <2>1, <2>2
<1>7. Debited(old.ledger) \in Nat
  BY <1>4, SpoolFields, DebitedType
<1>8. w + Debited(old.ledger) \in Int /\ o.ver <= o.ver /\ logs' \in Nat
  BY <1>2, <1>3, <1>4, <1>7
<1> HIDE DEF new
<1>9. base' = [base EXCEPT ![new.id] = w + Debited(old.ledger)]
  BY <1>1, <1>5
<1> DEFINE e == [[o EXCEPT !.ver = o.ver] EXCEPT !.spools = [o.spools EXCEPT ![i] = new]]
<1>10. e \in Doc /\ o.ver <= e.ver /\ SameSpools(o, e)
  BY <1>2, <1>3, <1>4, <1>5, <1>8, OneSpoolWritten
<1> HIDE DEF e
<1>11. fil' \in FilType /\ Evolves(fil, fil') /\ base' \in BaseType /\ Based'
  BY <1>2, <1>6, <1>8, <1>9, <1>10, SpoolTyped DEF e
<1> QED
  BY <1>2, <1>3, <1>8, <1>11, TypedRest

LEMMA CrashTyped ==
    ASSUME TInv, Crash
    PROVE  TInv'
<1>1. /\ req' = [d \in Clients |-> Idle] /\ holder' = [f \in Fils |-> None] /\ fails' = fails + 1
      /\ UNCHANGED <<fil, hist, replica, logs, base, answer>>
  BY DEF Crash, Fault
<1>2. TypeOK /\ Booked /\ Idle \in ReqType
  BY IdleFits DEF TInv
<1>3. TypeOK'
  BY <1>1, <1>2 DEF TypeOK, ReqType
<1>4. Based'
  BY <1>1, FilNot DEF TInv
<1>5. \A d \in Clients : req'[d] = Idle /\ Idle.kind # "job" /\ Idle.kind # "delete"
  BY <1>1 DEF Idle
<1>6. Booked'
  BY <1>1, <1>2, <1>5 DEF Booked, LiveAnswered, DeletesAnswered, JobsAnswered, OneRequest
<1>7. \A d \in Clients : Fits(req'[d], fil')
  BY <1>5, IdleFits
<1> QED
  BY <1>3, <1>4, <1>6, <1>7 DEF TInv

LEMMA TInit == Init => TInv
<1> SUFFICES ASSUME Init PROVE TInv
  OBVIOUS
<1> DEFINE held(s) == {f \in Fils : fil[f] # NoFil /\ IndexOf(fil[f], s) # 0}
<1>1. fil \in FilType /\ hist \in [Jobs -> Hist] /\ req = [c \in Clients |-> Idle]
      /\ \A j \in Jobs : hist[j].live => hist[j].rows # <<>>
  BY PrintJobsAssumption DEF Init, FilType
<1>2. ASSUME NEW s \in Spools
      PROVE  /\ base[s] \in Int \cup {None}
             /\ held(s) # {} => base[s] # None
  <2>1. CASE held(s) = {}
    BY <2>1 DEF Init
  <2>2. CASE held(s) # {}
    <3> DEFINE f == CHOOSE f \in held(s) : TRUE
    <3> DEFINE sp == fil[f].spools[IndexOf(fil[f], s)]
    <3>1. base[s] = sp.weight + Debited(sp.ledger)
      BY <2>2 DEF Init
    <3>2. f \in Fils /\ fil[f] # NoFil /\ IndexOf(fil[f], s) # 0
      BY <2>2
    <3> HIDE DEF f
    <3>3. sp \in Spool
      BY <3>2, <1>1, FilDoc, IndexOfIn
    <3>4. sp.weight \in Nat /\ Debited(sp.ledger) \in Nat
      BY <3>3, SpoolFields, DebitedType
    <3> HIDE DEF sp
    <3>5. base[s] \in Int
      BY <3>1, <3>4
    <3> QED
      BY <3>5, PrintJobsAssumption
  <2> QED
    BY <2>1, <2>2
<1>3. base \in BaseType
  <2>1. base = [s \in Spools |-> base[s]]
    BY DEF Init
  <2> HIDE DEF held
  <2> QED
    BY <1>2, <2>1 DEF BaseType
<1>4. Based
  <2>1. ASSUME NEW f \in Fils, fil[f] # NoFil, NEW i \in DOMAIN fil[f].spools
        PROVE  base[fil[f].spools[i].id] # None
    <3> DEFINE s == fil[f].spools[i].id
    <3>1. fil[f] \in Doc /\ fil[f].spools[i] \in Spool
      BY <1>1, <2>1, FilDoc
    <3>2. s \in Spools /\ IndexOf(fil[f], s) # 0
      BY <2>1, <3>1, IndexOfIn, SpoolFields
    <3>3. f \in held(s)
      BY <2>1, <3>2
    <3> HIDE DEF s, held
    <3>4. base[s] # None
      BY <1>2, <3>2, <3>3
    <3> QED
      BY <3>4 DEF s
  <2> QED
    BY <2>1 DEF Based
<1>5. TypeOK
  <2>1. answer \in AnswerType /\ holder \in HolderType /\ replica \in BOOLEAN
        /\ logs \in Nat /\ fails \in Nat
    BY DEF Init, AnswerType, HolderType, Answers
  <2>2. req \in [Clients -> ReqType]
    BY <1>1, IdleFits
  <2> QED
    BY <1>1, <1>3, <2>1, <2>2 DEF TypeOK, FilType, ReqType, AnswerType, HolderType, BaseType
<1>6. \A d \in Clients : req[d] = Idle /\ Idle.kind # "job" /\ Idle.kind # "delete"
  BY <1>1 DEF Idle
<1>7. LiveAnswered
  <2>1. \A j \in Jobs : hist[j].live => answer[j] = "created"
    BY DEF Init
  <2>2. "created" # None
    BY PrintJobsAssumption DEF Answers
  <2> QED
    BY <1>1, <2>1, <2>2 DEF LiveAnswered
<1>8. Booked
  BY <1>6, <1>7 DEF Booked, DeletesAnswered, JobsAnswered, OneRequest
<1>9. \A d \in Clients : Fits(req[d], fil)
  BY <1>6, IdleFits
<1> QED
  BY <1>4, <1>5, <1>8, <1>9 DEF TInv

LEMMA TNext == TInv /\ [Next]_vars => TInv'
<1> SUFFICES ASSUME TInv, [Next]_vars PROVE TInv'
  OBVIOUS
<1>1. ASSUME NEW c \in Clients, Requests(c) PROVE TInv'
  BY <1>1, PostJobTyped, DeleteJobTyped, PromoteTyped DEF Requests
<1>2. ASSUME NEW c \in Clients, JobStep(c) PROVE TInv'
  BY <1>2, CheckLegacyTyped, MigrateTyped, SaveFilTyped, TrimTyped, UndoFilTyped, CheckedTyped,
     TransactTyped, ApplyTyped, RecordTyped, TrimmedTyped, UndoneTyped DEF JobStep
<1>3. ASSUME NEW c \in Clients, DeleteStep(c) \/ PromoteStep(c) PROVE TInv'
  BY <1>3, RefundRowTyped, TombstoneTyped, RemapTyped, CompleteTyped DEF DeleteStep, PromoteStep
<1>4. ASSUME NEW c \in Clients, Failures(c) PROVE TInv'
  BY <1>4, FailTyped, RecordFailsTyped, SaveFailsTyped, UndoFailsTyped DEF Failures
<1>5. ASSUME NEW f \in Fils, NEW i, LogUsage(f, i) \/ Weigh(f, i) PROVE TInv'
  BY <1>5, LogUsageTyped, WeighTyped
<1>6. CASE UNCHANGED vars
  BY <1>6, FilNot, TypedRest DEF vars, TInv, TypeOK
<1> QED
  BY <1>1, <1>2, <1>3, <1>4, <1>5, <1>6, CrashTyped DEF Next, Handle

\* Every variable keeps its type, whatever is posted, deleted, promoted, logged
\* or weighed at the same time: every document, record and request has the shape
\* the routes give it, and no weight goes below zero (clampedRemaining in
\* usage/route.ts and print-history/route.ts).
THEOREM Typed == Spec => []TypeOK
<1>1. TInv => TypeOK
  BY DEF TInv
<1> QED
  BY <1>1, TInit, TNext, PTL DEF Spec

-----------------------------------------------------------------------------
(* The keys: who holds which.                                              *)

\* What a request holds: the key of its only filament, from the last migration
\* on, or that of the filament it promotes.
Held(r) ==
    CASE r.kind = "job" /\ Whole(r)
            /\ (r.pc \notin Reading \/ (r.pc = "migrate" /\ r.todo = {})) -> FilsOf(r.usage)
      [] r.kind = "promote" -> {r.from}
      [] OTHER -> {}

HInv == \A f \in Fils, c \in Clients : holder[f] = c <=> f \in Held(req[c])

LEMMA FilsFinite ==
    ASSUME NEW u \in Usages
    PROVE  IsFiniteSet(FilsOf(u))
<1> DEFINE g == [i \in DOMAIN u |-> u[i].fil]
<1>1. DOMAIN u = 1..Len(u) /\ Len(u) \in Nat
  BY FilsOfIn
<1>2. IsFiniteSet(DOMAIN u)
  BY <1>1, FS_Interval
<1>3. g \in Surjection(DOMAIN u, FilsOf(u))
  BY DEF Surjection, FilsOf
<1> QED
  BY <1>2, <1>3, FS_Surjection

LEMMA WholeIsOne ==
    ASSUME NEW r, r.usage \in Usages, Whole(r), NEW f \in FilsOf(r.usage)
    PROVE  FilsOf(r.usage) = {f}
BY FilsFinite, FS_Singleton DEF Whole

\* A request goes on with the keys it has.
LEMMA HeldStays ==
    ASSUME TypeOK, HInv, NEW c \in Clients, NEW r, req' = [req EXCEPT ![c] = r],
           holder' = holder, Held(r) = Held(req[c])
    PROVE  HInv'
<1>1. \A d \in Clients : req'[d] = IF d = c THEN r ELSE req[d]
  BY DEF TypeOK
<1>2. \A d \in Clients : Held(req'[d]) = Held(req[d])
  BY <1>1
<1>3. \A f \in Fils, d \in Clients : holder'[f] = d <=> f \in Held(req'[d])
  BY <1>2 DEF HInv
<1> QED
  BY <1>3 DEF HInv

\* It takes a key that is free.
LEMMA HeldTakes ==
    ASSUME TypeOK, HInv, NEW c \in Clients, NEW r, req' = [req EXCEPT ![c] = r],
           NEW f \in Fils, Free(f), holder' = [holder EXCEPT ![f] = c],
           Held(req[c]) = {}, Held(r) = {f}
    PROVE  HInv'
<1>1. \A d \in Clients : req'[d] = IF d = c THEN r ELSE req[d]
  BY DEF TypeOK
<1>2. \A g \in Fils : holder'[g] = IF g = f THEN c ELSE holder[g]
  BY DEF TypeOK
<1>3. \A d \in Clients : f \notin Held(req[d])
  BY PrintJobsAssumption DEF HInv, Free
<1>4. \A g \in Fils, d \in Clients : holder'[g] = d <=> g \in Held(req'[d])
  BY <1>1, <1>2, <1>3 DEF HInv
<1> QED
  BY <1>4 DEF HInv

\* It ends, and lets go of what it has.
LEMMA HeldDone ==
    ASSUME TypeOK, HInv, NEW c \in Clients, Done(c)
    PROVE  HInv'
<1>1. \A d \in Clients : req'[d] = IF d = c THEN Idle ELSE req[d]
  BY DEF TypeOK, Done, Step
<1>2. \A g \in Fils : holder'[g] = IF holder[g] = c THEN None ELSE holder[g]
  BY DEF TypeOK, Done
<1>3. Held(Idle) = {}
  BY DEF Held, Idle
<1>4. \A g \in Fils, d \in Clients : holder'[g] = d <=> g \in Held(req'[d])
  BY <1>1, <1>2, <1>3, PrintJobsAssumption DEF HInv
<1> QED
  BY <1>4 DEF HInv

LEMMA JobHeld ==
    ASSUME NEW q \in JobReq, NEW r \in JobReq, r.usage = q.usage,
           q.pc \notin Reading \/ (q.pc = "migrate" /\ q.todo = {}),
           r.pc \notin Reading \/ (r.pc = "migrate" /\ r.todo = {})
    PROVE  Held(r) = Held(q)
BY DEF Held, JobReq, Whole

LEMMA ReadingHeld ==
    ASSUME NEW q \in JobReq, q.pc = "check" \/ (q.pc = "migrate" /\ q.todo # {})
    PROVE  Held(q) = {}
BY DEF Held, JobReq, Reading

LEMMA HNextJob ==
    ASSUME TInv, HInv, NEW c \in Clients, JobStep(c)
    PROVE  HInv'
<1> DEFINE q == req[c]
<1>1. TypeOK /\ q.kind = "job"
  BY DEF TInv, JobStep, CheckLegacy, Checked, Migrate, Transact, Apply, SaveFil, Record, Trim,
     Trimmed, UndoFil, Undone
<1>2. q \in JobReq /\ q.usage \in Usages /\ FilsOf(q.usage) \subseteq Fils /\ FilsOf(q.usage) # {}
      /\ q.todo \subseteq FilsOf(q.usage)
  BY <1>1, JobTyped, FilsOfIn
<1>3. ASSUME Done(c) PROVE HInv'
  BY <1>1, <1>3, HeldDone
<1>4. ASSUME NEW r, req' = [req EXCEPT ![c] = r], holder' = holder, Held(r) = Held(q) PROVE HInv'
  BY <1>1, <1>4, HeldStays
<1>5. ASSUME NEW f \in Fils, CheckLegacy(c, f) PROVE HInv'
  <2> DEFINE r == [q EXCEPT !.todo = @ \ {f}]
  <2>1. q.pc = "check" /\ (Done(c) \/ (req' = [req EXCEPT ![c] = r] /\ holder' = holder))
    BY <1>5 DEF CheckLegacy, Step
  <2>2. r \in JobReq /\ r.pc = q.pc
    BY <1>2 DEF JobReq
  <2>3. Held(r) = Held(q)
    BY <1>2, <2>1, <2>2, ReadingHeld
  <2> QED
    BY <1>3, <1>4, <2>1, <2>3
<1>6. ASSUME Checked(c) PROVE HInv'
  <2> DEFINE r == [q EXCEPT !.pc = "migrate", !.todo = FilsOf(q.usage)]
  <2>1. q.pc = "check" /\ req' = [req EXCEPT ![c] = r] /\ holder' = holder
    BY <1>6 DEF Checked, Step
  <2>2. r \in JobReq /\ r.pc = "migrate" /\ r.todo # {}
    BY <1>2 DEF JobReq
  <2>3. Held(r) = Held(q)
    BY <1>2, <2>1, <2>2, ReadingHeld
  <2> QED
    BY <1>4, <2>1, <2>3
<1>7. ASSUME NEW f \in Fils, Migrate(c, f) PROVE HInv'
  <2>1. /\ q.pc = "migrate" /\ f \in q.todo /\ Free(f)
        /\ \/ Done(c)
           \/ \E d : /\ req' = [req EXCEPT ![c] = [q EXCEPT !.docs[f] = d, !.todo = @ \ {f}]]
                     /\ holder' = IF Whole(q) THEN [holder EXCEPT ![f] = c] ELSE holder
    BY <1>7 DEF Migrate, Step
  <2>2. ASSUME NEW d, req' = [req EXCEPT ![c] = [q EXCEPT !.docs[f] = d, !.todo = @ \ {f}]],
               holder' = IF Whole(q) THEN [holder EXCEPT ![f] = c] ELSE holder
        PROVE  HInv'
    <3> DEFINE r == [q EXCEPT !.docs[f] = d, !.todo = @ \ {f}]
    <3>1. r.kind = "job" /\ r.pc = "migrate" /\ r.usage = q.usage /\ r.todo = q.todo \ {f}
      BY <1>2, <2>1 DEF JobReq
    <3>2. Held(q) = {}
      BY <1>2, <2>1, ReadingHeld
    <3> HIDE DEF r, q
    <3>3. CASE Whole(q)
      <4>1. FilsOf(q.usage) = {f} /\ r.todo = {} /\ Whole(r)
        BY <1>2, <2>1, <3>1, <3>3, WholeIsOne DEF Whole
      <4>2. Held(r) = {f}
        BY <3>1, <4>1 DEF Held
      <4> QED
        BY <1>1, <2>1, <2>2, <3>2, <3>3, <4>2, HeldTakes DEF r, q
    <3>4. CASE ~Whole(q)
      <4>1. ~Whole(r)
        BY <3>1, <3>4 DEF Whole
      <4>2. Held(r) = {}
        BY <3>1, <4>1 DEF Held
      <4> QED
        BY <1>4, <2>2, <3>2, <3>4, <4>2 DEF r, q
    <3> QED
      BY <3>3, <3>4
  <2> QED
    BY <1>3, <2>1, <2>2
<1>8. ASSUME Apply(c) PROVE HInv'
  <2> DEFINE done == Applied(q.job, q.usage, q.docs)
  <2> DEFINE r == [q EXCEPT !.pc = "save", !.docs = done.docs, !.rows = done.rows,
                            !.todo = FilsOf(q.usage)]
  <2>1. q.pc = "migrate" /\ q.todo = {}
        /\ (Done(c) \/ (req' = [req EXCEPT ![c] = r] /\ holder' = holder))
    BY <1>8 DEF Apply, Step
  <2> HIDE DEF done
  <2>2. r.kind = "job" /\ r.pc = "save" /\ r.usage = q.usage
    BY <1>2 DEF JobReq
  <2>3. Held(r) = Held(q)
    <3> HIDE DEF r
    <3> QED
      BY <1>1, <2>1, <2>2 DEF Held, Whole, Reading
  <2> QED
    BY <1>3, <1>4, <2>1, <2>3
<1>9. ASSUME NEW r, req' = [req EXCEPT ![c] = r], holder' = holder, q.pc \notin Reading,
             r.kind = "job", r.usage = q.usage, r.pc \notin Reading
      PROVE  HInv'
  <2>1. Held(r) = Held(q)
    BY <1>1, <1>9 DEF Held, Whole
  <2> QED
    BY <1>4, <1>9, <2>1
<1>12. ASSUME NEW f \in Fils, SaveFil(c, f) PROVE HInv'
  <2> DEFINE ok == [q EXCEPT !.todo = @ \ {f}, !.saved = @ \cup {f}, !.docs[f].ver = fil'[f].ver]
  <2> DEFINE no == [q EXCEPT !.pc = "undo", !.todo = FilsOf(q.usage), !.undo = "retry"]
  <2>1. /\ q.pc = "save" /\ holder' = holder
        /\ req' = [req EXCEPT ![c] = ok] \/ req' = [req EXCEPT ![c] = no]
    BY <1>12 DEF SaveFil, Step
  <2>2. ok.kind = "job" /\ ok.usage = q.usage /\ ok.pc = "save"
    BY <1>2, <2>1 DEF JobReq
  <2>3. no.kind = "job" /\ no.usage = q.usage /\ no.pc = "undo"
    BY <1>2 DEF JobReq
  <2> HIDE DEF ok, no
  <2> QED
    BY <1>9, <2>1, <2>2, <2>3 DEF Reading
<1>13. ASSUME NEW f \in Fils, Trim(c, f) PROVE HInv'
  <2> DEFINE r == [q EXCEPT !.todo = @ \ {f}]
  <2>1. q.pc = "trim" /\ holder' = holder /\ req' = [req EXCEPT ![c] = r]
    BY <1>13 DEF Trim, Step
  <2>2. r.kind = "job" /\ r.usage = q.usage /\ r.pc = "trim"
    BY <1>2, <2>1 DEF JobReq
  <2> HIDE DEF r
  <2> QED
    BY <1>9, <2>1, <2>2 DEF Reading
<1>14. ASSUME NEW f \in Fils, UndoFil(c, f) PROVE HInv'
  <2> DEFINE un == q.unsafe \/ (f \in q.saved /\ ~HasEntries(f, q.job, q.rows))
  <2> DEFINE r == [q EXCEPT !.todo = @ \ {f}, !.unsafe = un]
  <2>1. q.pc = "undo" /\ holder' = holder /\ req' = [req EXCEPT ![c] = r]
    BY <1>14 DEF UndoFil, Step
  <2> HIDE DEF un
  <2>2. r.kind = "job" /\ r.usage = q.usage /\ r.pc = "undo"
    BY <1>2, <2>1 DEF JobReq
  <2> HIDE DEF r
  <2> QED
    BY <1>9, <2>1, <2>2 DEF Reading
<1>10. ASSUME Record(c) PROVE HInv'
  <2> DEFINE r == [q EXCEPT !.pc = "trim", !.todo = FilsOf(q.usage)]
  <2>1. q.pc = "save" /\ req' = [req EXCEPT ![c] = r] /\ holder' = holder
    BY <1>10 DEF Record, Step
  <2>2. r.kind = "job" /\ r.pc = "trim" /\ r.usage = q.usage
    BY <1>2 DEF JobReq
  <2>3. Held(r) = Held(q)
    <3> HIDE DEF r
    <3> QED
      BY <1>1, <2>1, <2>2 DEF Held, Whole, Reading
  <2> QED
    BY <1>4, <2>1, <2>3
<1>11. ASSUME Transact(c) \/ Trimmed(c) \/ Undone(c) PROVE HInv'
  BY <1>3, <1>11 DEF Transact, Trimmed, Undone
<1> QED
  BY <1>5, <1>6, <1>7, <1>8, <1>10, <1>11, <1>12, <1>13, <1>14 DEF JobStep

LEMMA HNextRest ==
    ASSUME TInv, HInv, NEW c \in Clients,
           Requests(c) \/ DeleteStep(c) \/ PromoteStep(c) \/ Failures(c)
    PROVE  HInv'
<1> DEFINE q == req[c]
<1>1. TypeOK
  BY DEF TInv
<1>2. ASSUME Done(c) PROVE HInv'
  BY <1>1, <1>2, HeldDone
<1>3. ASSUME NEW r, req' = [req EXCEPT ![c] = r], holder' = holder, Held(r) = Held(q) PROVE HInv'
  BY <1>1, <1>3, HeldStays
<1>4. Held(Idle) = {}
  BY DEF Held, Idle
<1>5. ASSUME NEW j \in Jobs, NEW u \in Usages, PostJob(c, j, u) PROVE HInv'
  <2> DEFINE docs == [f \in Fils |-> IF f \in FilsOf(u) THEN fil[f] ELSE NoFil]
  <2> DEFINE r == [kind |-> "job",
                   pc |-> IF Cardinality(FilsOf(u)) > 1 THEN "check" ELSE "migrate",
                   job |-> j, usage |-> u, docs |-> docs,
                   todo |-> FilsOf(u), saved |-> {}, rows |-> <<>>, undo |-> None,
                   unsafe |-> FALSE]
  <2>1. req' = [req EXCEPT ![c] = r] /\ holder' = holder /\ q = Idle
    BY <1>5 DEF PostJob, Step
  <2>2. r.kind = "job" /\ r.pc \in Reading /\ r.todo # {}
    BY FilsOfIn DEF Reading
  <2> HIDE DEF r
  <2>3. Held(r) = {}
    BY <2>2 DEF Held
  <2> QED
    BY <1>3, <1>4, <2>1, <2>3
<1>6. ASSUME NEW j \in Jobs, DeleteJob(c, j) PROVE HInv'
  <2> DEFINE r == [kind |-> "delete", job |-> j, rows |-> hist[j].rows, i |-> 1,
                   target |-> hist[j].rows[1].fil, hop |-> 0]
  <2>1. req' = [req EXCEPT ![c] = r] /\ holder' = holder /\ q = Idle
    BY <1>6 DEF DeleteJob, Step
  <2>2. Held(r) = {}
    BY DEF Held
  <2> HIDE DEF r
  <2> QED
    BY <1>3, <1>4, <2>1, <2>2
<1>7. ASSUME NEW f \in Fils, Promote(c, f) PROVE HInv'
  <2> DEFINE moved == {fil[f].spools[i].id : i \in DOMAIN fil[f].spools}
  <2> DEFINE r(v) == [kind |-> "promote", pc |-> "remap", from |-> f, to |-> v, moved |-> moved]
  <2>1. PICK v \in Fils : req' = [req EXCEPT ![c] = r(v)]
    BY <1>7 DEF Promote, Step
  <2>2. q = Idle /\ Free(f) /\ holder' = [holder EXCEPT ![f] = c]
    BY <1>7 DEF Promote
  <2>3. Held(r(v)) = {f}
    BY DEF Held
  <2> HIDE DEF r
  <2> QED
    BY <1>1, <1>4, <2>1, <2>2, <2>3, HeldTakes
<1>8. ASSUME RefundRow(c) PROVE HInv'
  <2>1. q \in DeleteReq /\ holder' = holder /\ q.kind = "delete" /\ q.i <= Len(q.rows)
    BY <1>8, DeleteTyped DEF RefundRow
  <2>2. NextRow(q).kind = "delete" /\ [q EXCEPT !.target = FilNow(q), !.hop = 1].kind = "delete"
    BY <2>1, NextRowType DEF DeleteReq
  <2>3. PICK r : req' = [req EXCEPT ![c] = r] /\ r.kind = "delete"
    BY <1>8, <2>2 DEF RefundRow, Step
  <2>4. Held(r) = {} /\ Held(q) = {}
    BY <2>1, <2>3 DEF Held
  <2> QED
    BY <1>3, <2>1, <2>3, <2>4
<1>9. ASSUME Remap(c) PROVE HInv'
  <2> DEFINE r == [q EXCEPT !.pc = "complete"]
  <2>1. q \in PromoteReq /\ holder' = holder /\ req' = [req EXCEPT ![c] = r]
    BY <1>9, PromotingTyped DEF Remap, Step
  <2>2. r.kind = "promote" /\ r.from = q.from /\ q.kind = "promote"
    BY <2>1 DEF PromoteReq
  <2>3. Held(r) = Held(q)
    <3> HIDE DEF r
    <3> QED
      BY <2>2 DEF Held
  <2> QED
    BY <1>3, <2>1, <2>3
<1>10. ASSUME NEW r, req' = [req EXCEPT ![c] = r], holder' = holder, q.kind = "job",
              q.pc \notin Reading, r.kind = "job", r.usage = q.usage, r.pc \notin Reading
       PROVE  HInv'
  <2>1. Held(r) = Held(q)
    BY <1>10 DEF Held, Whole
  <2> QED
    BY <1>3, <1>10, <2>1
<1> DEFINE undo == [q EXCEPT !.pc = "undo", !.todo = FilsOf(q.usage), !.undo = "error"]
<1>11. ASSUME NEW f \in Fils, SaveFails(c, f) PROVE HInv'
  <2>1. q.kind = "job" /\ q.pc = "save" /\ holder' = holder /\ req' = [req EXCEPT ![c] = undo]
    BY <1>11 DEF SaveFails, Step
  <2>2. undo.kind = "job" /\ undo.usage = q.usage /\ undo.pc = "undo"
    BY <2>1, FailingFits, JobTyped DEF JobReq
  <2> HIDE DEF undo
  <2> QED
    BY <1>10, <2>1, <2>2 DEF Reading
<1>12. ASSUME RecordFails(c) PROVE HInv'
  <2>1. q.kind = "job" /\ q.pc = "save" /\ holder' = holder /\ req' = [req EXCEPT ![c] = undo]
    BY <1>12 DEF RecordFails, Step
  <2>2. undo.kind = "job" /\ undo.usage = q.usage /\ undo.pc = "undo"
    BY <2>1, FailingFits, JobTyped DEF JobReq
  <2> HIDE DEF undo
  <2> QED
    BY <1>10, <2>1, <2>2 DEF Reading
<1>13. ASSUME NEW f \in Fils, UndoFails(c, f) PROVE HInv'
  <2> DEFINE r == [q EXCEPT !.todo = @ \ {f}, !.unsafe = TRUE]
  <2>1. q.kind = "job" /\ q.pc = "undo" /\ holder' = holder /\ req' = [req EXCEPT ![c] = r]
    BY <1>13 DEF UndoFails, Step
  <2>2. r.kind = "job" /\ r.usage = q.usage /\ r.pc = "undo"
    BY <2>1, JobTyped DEF JobReq
  <2> HIDE DEF r
  <2> QED
    BY <1>10, <2>1, <2>2 DEF Reading
<1> QED
  BY <1>2, <1>5, <1>6, <1>7, <1>8, <1>9, <1>11, <1>12, <1>13
  DEF Requests, DeleteStep, PromoteStep, Failures, Tombstone, Complete, Fail

LEMMA HNext == TInv /\ HInv /\ [Next]_vars => HInv'
<1> SUFFICES ASSUME TInv, HInv, [Next]_vars PROVE HInv'
  OBVIOUS
<1>1. ASSUME UNCHANGED <<req, holder>> PROVE HInv'
  BY <1>1 DEF HInv
<1>2. CASE Crash
  <2>1. \A d \in Clients : req'[d] = Idle
    BY <1>2 DEF Crash
  <2>2. \A f \in Fils : holder'[f] = None
    BY <1>2 DEF Crash
  <2>3. Held(Idle) = {} /\ \A d \in Clients : d # None
    BY PrintJobsAssumption DEF Held, Idle
  <2>4. \A f \in Fils, d \in Clients : holder'[f] = d <=> f \in Held(req'[d])
    BY <2>1, <2>2, <2>3
  <2> QED
    BY <2>4 DEF HInv
<1>3. ASSUME NEW f \in Fils, NEW i, LogUsage(f, i) \/ Weigh(f, i) PROVE HInv'
  BY <1>1, <1>3 DEF LogUsage, Weigh
<1>4. CASE UNCHANGED vars
  BY <1>1, <1>4 DEF vars
<1> QED
  BY <1>2, <1>3, <1>4, HNextJob, HNextRest DEF Next, Handle

LEMMA HInit == Init => HInv
<1>1. Held(Idle) = {}
  BY DEF Held, Idle
<1> QED
  BY <1>1, PrintJobsAssumption DEF Init, HInv

LEMMA HeldWaitsForNothing ==
    ASSUME TInv, HInv, NEW f \in Fils, holder[f] # None
    PROVE  holder[f] \in Clients /\ WaitsFor(holder[f]) = {}
<1> DEFINE d == holder[f]
<1> DEFINE q == req[d]
<1>1. d \in Clients /\ f \in Held(q)
  BY DEF TInv, TypeOK, HInv
<1> HIDE DEF d
<1>2. CASE q.kind = "promote"
  <2>1. WaitsFor(d) = {}
    BY <1>2 DEF WaitsFor
  <2> QED
    BY <1>1, <2>1 DEF d
<1>3. CASE q.kind = "job"
  <2>1. q \in JobReq /\ q.usage \in Usages /\ q.todo \subseteq FilsOf(q.usage)
    BY <1>1, <1>3, JobTyped
  <2>2. /\ Whole(q) /\ f \in FilsOf(q.usage)
        /\ q.pc \notin Reading \/ (q.pc = "migrate" /\ q.todo = {})
    BY <1>1, <1>3 DEF Held
  <2>3. FilsOf(q.usage) = {f}
    BY <2>1, <2>2, WholeIsOne
  <2>4. \A g \in q.todo : q.pc \notin Reading /\ MayUse(d, g)
    BY <2>1, <2>2, <2>3 DEF MayUse, d
  <2>5. WaitsFor(d) = {g \in q.todo : IF q.pc \in Reading THEN ~Free(g) ELSE ~MayUse(d, g)}
    BY <1>3 DEF WaitsFor, Reading
  <2> QED
    BY <1>1, <2>4, <2>5 DEF d
<1>4. CASE q.kind # "promote" /\ q.kind # "job"
  BY <1>1, <1>4 DEF Held
<1> QED
  BY <1>1, <1>2, <1>3, <1>4 DEF d

LEMMA NobodyWaitsInACircle == TInv /\ HInv => NoCircularWait
<1> SUFFICES ASSUME TInv, HInv, NEW c \in Clients, NEW f \in Fils, f \in WaitsFor(c)
             PROVE  holder[f] \in Clients \ {c} /\ WaitsFor(holder[f]) = {}
  BY DEF NoCircularWait
<1> DEFINE q == req[c]
<1>1. holder[f] # None
  <2>1. CASE q.kind = "job"
    <3>1. q \in JobReq /\ q.usage \in Usages /\ q.todo \subseteq FilsOf(q.usage)
      BY <2>1, JobTyped
    <3>2. f \in q.todo /\ IF q.pc \in Reading THEN ~Free(f) ELSE ~MayUse(c, f)
      BY <2>1 DEF WaitsFor, Reading
    <3>3. ASSUME q.pc \notin Reading, Whole(q) PROVE FALSE
      <4>1. f \in Held(q)
        BY <2>1, <3>1, <3>2, <3>3 DEF Held
      <4>2. holder[f] = c
        BY <4>1 DEF HInv
      <4> QED
        BY <3>2, <3>3, <4>2 DEF MayUse
    <3>4. q.pc \notin Reading => ~Free(f)
      BY <3>2, <3>3 DEF MayUse
    <3> QED
      BY <3>2, <3>4 DEF Free
  <2>2. CASE q.kind = "delete"
    BY <2>2 DEF WaitsFor, Free
  <2>3. CASE q.kind # "job" /\ q.kind # "delete"
    BY <2>3 DEF WaitsFor
  <2> QED
    BY <2>1, <2>2, <2>3
<1>2. holder[f] \in Clients /\ WaitsFor(holder[f]) = {}
  BY <1>1, HeldWaitsForNothing
<1>3. holder[f] # c
  BY <1>2
<1> QED
  BY <1>2, <1>3

\* A request that waits for the key of a filament waits for another that is not
\* waiting itself: nobody holds two keys ("never hold two filament keys at
\* once", print-history/route.ts), and what is under a key does not take it
\* again, so the routes cannot come to a standstill.
THEOREM NoStandstill == Spec => []NoCircularWait
<1>1. Init => TInv /\ HInv
  BY TInit, HInit
<1>2. TInv /\ HInv /\ [Next]_vars => (TInv /\ HInv)'
  BY TNext, HNext
<1> QED
  BY <1>1, <1>2, NobodyWaitsInACircle, PTL DEF Spec

-----------------------------------------------------------------------------
(* Who left entries in the ledgers.                                        *)

Named(ledger) == {ledger[k].job : k \in DOMAIN ledger}
Marks(d, j) ==
    {d.spools[i].id : i \in {n \in DOMAIN d.spools : j \in Named(d.spools[n].ledger)}}

LEMMA OnlyRange ==
    ASSUME NEW S, NEW seq \in Seq(S), NEW I
    PROVE  {Only(seq, I)[k] : k \in DOMAIN Only(seq, I)} = {seq[i] : i \in DOMAIN seq \cap I}
<1> DEFINE kept == Kept(seq, I)
<1> DEFINE Img(s) == {s[k] : k \in DOMAIN s}
<1>1. /\ kept[0] = <<>>
      /\ \A n \in 1..Len(seq) : kept[n] =
            IF n \in I THEN Append(kept[n - 1], seq[n]) ELSE kept[n - 1]
      /\ \A n \in 0..Len(seq) : kept[n] \in Seq(S)
  BY KeptUnfold
<1>2. Len(seq) \in Nat /\ DOMAIN seq = 1..Len(seq) /\ \A m \in 1..Len(seq) : seq[m] \in S
  OBVIOUS
<1> HIDE DEF kept
<1> DEFINE T == {m \in Nat : m <= Len(seq) => Img(kept[m]) = {seq[i] : i \in (1..m) \cap I}}
<1>3. 0 \in T
  <2>1. Img(kept[0]) = {} /\ 1..0 = {}
    BY <1>1
  <2> QED
    BY <2>1
<1> HIDE DEF Img
<1>4. ASSUME NEW m \in T PROVE m + 1 \in T
  <2>1. ASSUME m + 1 <= Len(seq)
        PROVE  Img(kept[m + 1]) = {seq[i] : i \in (1..(m + 1)) \cap I}
    <3>1. /\ m + 1 \in 1..Len(seq) /\ (m + 1) - 1 = m /\ m \in 0..Len(seq)
          /\ Img(kept[m]) = {seq[i] : i \in (1..m) \cap I}
      BY <2>1, <1>2
    <3>2. kept[m] \in Seq(S) /\ seq[m + 1] \in S
      BY <3>1, <1>1, <1>2
    <3>3. kept[m + 1] = IF m + 1 \in I THEN Append(kept[m], seq[m + 1]) ELSE kept[m]
      BY <3>1, <1>1
    <3>4. 1..(m + 1) = (1..m) \cup {m + 1}
      BY <3>1
    <3>5. CASE m + 1 \in I
      <4> DEFINE more == Append(kept[m], seq[m + 1])
      <4>1. /\ DOMAIN more = DOMAIN kept[m] \cup {Len(kept[m]) + 1}
            /\ \A i \in DOMAIN kept[m] : more[i] = kept[m][i]
            /\ more[Len(kept[m]) + 1] = seq[m + 1]
        BY <3>2
      <4> HIDE DEF more
      <4>2. Img(more) = Img(kept[m]) \cup {seq[m + 1]}
        BY <4>1 DEF Img
      <4>3. {seq[i] : i \in (1..(m + 1)) \cap I} = {seq[i] : i \in (1..m) \cap I} \cup {seq[m + 1]}
        BY <3>4, <3>5
      <4>4. kept[m + 1] = more
        BY <3>3, <3>5 DEF more
      <4> QED
        BY <4>2, <4>3, <4>4, <3>1
    <3>6. CASE m + 1 \notin I
      <4>1. (1..(m + 1)) \cap I = (1..m) \cap I
        BY <3>4, <3>6
      <4> QED
        BY <4>1, <3>1, <3>3, <3>6
    <3> QED
      BY <3>5, <3>6
  <2> QED
    BY <2>1
<1>5. T = Nat
  <2>1. T \subseteq Nat
    OBVIOUS
  <2> HIDE DEF T
  <2> QED
    BY <1>3, <1>4, <2>1, AllNaturals
<1>6. Img(kept[Len(seq)]) = {seq[i] : i \in (1..Len(seq)) \cap I}
  <2>1. Len(seq) \in T
    BY <1>5, <1>2
  <2> QED
    BY <2>1
<1> QED
  BY <1>6, <1>2, OnlyIsLast DEF kept, Img

LEMMA NamedOnly ==
    ASSUME NEW ledger \in Seq(Entry), NEW I
    PROVE  Named(Only(ledger, I)) \subseteq Named(ledger)
           /\ \A j : (\A k \in DOMAIN ledger : k \in I => ledger[k].job # j)
                        => j \notin Named(Only(ledger, I))
<1>1. {Only(ledger, I)[k] : k \in DOMAIN Only(ledger, I)} = {ledger[i] : i \in DOMAIN ledger \cap I}
  BY OnlyRange
<1>2. \A k \in DOMAIN Only(ledger, I) : \E i \in DOMAIN ledger \cap I : Only(ledger, I)[k] = ledger[i]
  BY <1>1
<1> QED
  BY <1>2 DEF Named

LEMMA NamedCap ==
    ASSUME NEW ledger \in Seq(Entry)
    PROVE  Named(Cap(ledger)) \subseteq Named(ledger)
BY NamedOnly DEF Cap

\* With one spool to an id, the mark of a job on a spool is an entry of it.
LEMMA EntriesAreMarks ==
    ASSUME fil \in FilType, NEW f \in Fils, NEW j \in Jobs, NEW s
    PROVE  /\ fil[f] = NoFil => EntriesOf(j, f, s) = {}
           /\ fil[f] # NoFil /\ s \notin Marks(fil[f], j) => EntriesOf(j, f, s) = {}
           /\ fil[f] # NoFil /\ Distinct(fil[f]) /\ s \in Marks(fil[f], j)
                 => EntriesOf(j, f, s) # {}
<1>1. CASE fil[f] = NoFil
  BY <1>1 DEF EntriesOf
<1>2. CASE fil[f] # NoFil
  <2> DEFINE d == fil[f]
  <2> DEFINE n == IndexOf(d, s)
  <2>1. d \in Doc
    BY <1>2, FilDoc
  <2>2. /\ n # 0 => n \in DOMAIN d.spools /\ d.spools[n].id = s
        /\ n = 0 => \A i \in DOMAIN d.spools : d.spools[i].id # s
    BY <2>1, IndexOfIn
  <2>3. EntriesOf(j, f, s) = IF n = 0 THEN {}
                             ELSE {k \in DOMAIN d.spools[n].ledger : d.spools[n].ledger[k].job = j}
    BY <1>2 DEF EntriesOf
  <2> HIDE DEF d, n
  <2>4. s \notin Marks(d, j) => EntriesOf(j, f, s) = {}
    BY <2>2, <2>3 DEF Marks, Named
  <2>5. Distinct(d) /\ s \in Marks(d, j) => EntriesOf(j, f, s) # {}
    <3> SUFFICES ASSUME Distinct(d), s \in Marks(d, j) PROVE EntriesOf(j, f, s) # {}
      OBVIOUS
    <3>1. PICK i \in DOMAIN d.spools : d.spools[i].id = s /\ j \in Named(d.spools[i].ledger)
      BY DEF Marks
    <3>2. n # 0 /\ n = i
      BY <3>1, <2>2 DEF Distinct
    <3> QED
      BY <3>1, <3>2, <2>3 DEF Named
  <2> QED
    BY <1>2, <2>4, <2>5 DEF d
<1> QED
  BY <1>1, <1>2

\* Nothing was taken yet for a job that is not posted, is still reading, or was
\* told to retry.
Clean(j) ==
    \/ answer[j] \in {None, "retry"}
    \/ \E c \in Clients : req[c].kind = "job" /\ req[c].job = j /\ req[c].pc \in Reading
CleanIsUnmarked ==
    \A j \in Jobs : Clean(j) =>
        hist[j] = NoRow /\ \A f \in Fils : fil[f] # NoFil => Marks(fil[f], j) = {}

\* A document that may still be written has nobody's entries but those there.
Reads(r, F) ==
    r.kind = "job" /\ r.pc # "undo" => \A f \in FilsOf(r.usage) :
        r.docs[f].ver = F[f].ver /\ (r.pc \in Reading \/ SpoolsOf(r.rows, f) # {})
            => \A j \in Jobs \ {r.job} : Marks(r.docs[f], j) \subseteq Marks(F[f], j)

Distincts == \A f \in Fils : fil[f] # NoFil => Distinct(fil[f])
Engaged ==
    \A c \in Clients : req[c].kind \in {"job", "delete"} => answer[req[c].job] \notin {None, "retry"}
Retrying(r) == r.kind = "job" /\ (r.pc \in Early \/ (r.pc = "undo" /\ r.undo = "retry"))
NoRecord == \A c \in Clients : Retrying(req[c]) => Hidden(req[c].job) /\ hist[req[c].job] = NoRow

CInv == CleanIsUnmarked /\ Distincts /\ Engaged /\ NoRecord /\ \A c \in Clients : Reads(req[c], fil)

\* How filaments change: nobody's entries are added but those of J, and under
\* the same version none goes either.  A new filament has the spools of another.
TameFil(d, e, J) ==
    /\ e.parent = d.parent
    /\ d.ver = e.ver => \A j \in Jobs : Marks(d, j) \subseteq Marks(e, j)
    /\ Distinct(d) => Distinct(e)
    /\ \A j \in Jobs \ J : Marks(e, j) \subseteq Marks(d, j)
Tame(F, G, J) ==
    /\ \A f \in Fils : F[f] # NoFil => G[f] # NoFil /\ TameFil(F[f], G[f], J)
    /\ \A g \in Fils : F[g] = NoFil /\ G[g] # NoFil =>
          \E f \in Fils : F[f] # NoFil /\ G[g].spools = F[f].spools

LEMMA TameSpools ==
    ASSUME NEW d \in Doc, NEW e \in Doc, SameSpools(d, e), e.parent = d.parent, NEW J,
           \A i \in DOMAIN d.spools : \A j \in Jobs \ J :
               j \in Named(e.spools[i].ledger) => j \in Named(d.spools[i].ledger),
           d.ver = e.ver => \A i \in DOMAIN d.spools :
               Named(d.spools[i].ledger) \subseteq Named(e.spools[i].ledger)
    PROVE  TameFil(d, e, J)
<1>1. DOMAIN e.spools = DOMAIN d.spools /\ \A i \in DOMAIN d.spools : e.spools[i].id = d.spools[i].id
  BY SameSpoolsBack DEF SameSpools
<1>2. Distinct(d) => Distinct(e)
  BY <1>1 DEF Distinct
<1>3. ASSUME NEW j \in Jobs \ J PROVE Marks(e, j) \subseteq Marks(d, j)
  BY <1>1 DEF Marks
<1>4. ASSUME d.ver = e.ver, NEW j \in Jobs PROVE Marks(d, j) \subseteq Marks(e, j)
  BY <1>1, <1>4 DEF Marks
<1> QED
  BY <1>2, <1>3, <1>4 DEF TameFil

LEMMA TameNot == \A F, J : Tame(F, F, J)
BY DEF Tame, TameFil

LEMMA TameOne ==
    ASSUME NEW F \in FilType, NEW f \in Fils, F[f] # NoFil, NEW e \in Doc, NEW J,
           TameFil(F[f], e, J)
    PROVE  Tame(F, [F EXCEPT ![f] = e], J)
<1> DEFINE G == [F EXCEPT ![f] = e]
<1>1. G[f] = e /\ e # NoFil /\ \A g \in Fils : g # f => G[g] = F[g]
  BY DocIsNotNoFil DEF FilType
<1> HIDE DEF G
<1>2. \A g \in Fils : g # f => TameFil(F[g], G[g], J)
  BY <1>1 DEF TameFil
<1> QED
  BY <1>1, <1>2 DEF Tame, G

LEMMA MarksWritten ==
    ASSUME fil \in FilType, NEW f \in Fils, fil[f] # NoFil, NEW d \in Doc, NEW ids,
           SameSpools(d, fil[f]), NEW j
    PROVE  LET w == Written(d, ids, f) IN
           /\ Marks(w, j) \subseteq (Marks(fil[f], j) \ ids) \cup (Marks(d, j) \cap ids)
           /\ Marks(d, j) \cap ids \subseteq Marks(w, j)
           /\ Marks(fil[f], j) \ ids \subseteq Marks(w, j)
<1> DEFINE w == Written(d, ids, f)
<1> DEFINE o == fil[f]
<1>1. /\ w \in Doc /\ SameSpools(o, w)
      /\ \A i \in DOMAIN o.spools : w.spools[i] =
            IF o.spools[i].id \in ids THEN d.spools[i] ELSE o.spools[i]
  BY WrittenType
<1>2. o \in Doc
  BY FilDoc
<1> HIDE DEF w, o
<1>3. DOMAIN w.spools = DOMAIN o.spools /\ \A i \in DOMAIN o.spools : w.spools[i].id = o.spools[i].id
  BY <1>1, <1>2, SameSpoolsBack DEF SameSpools
<1>4. DOMAIN d.spools = DOMAIN o.spools /\ \A i \in DOMAIN o.spools : o.spools[i].id = d.spools[i].id
  BY <1>2, SameSpoolsBack DEF SameSpools, o
<1> QED
  BY <1>1, <1>3, <1>4 DEF Marks, w, o

LEMMA TameWritten ==
    ASSUME fil \in FilType, NEW f \in Fils, fil[f] # NoFil, NEW d \in Doc, NEW ids,
           SameSpools(d, fil[f]), NEW J, \A j \in Jobs \ J : Marks(d, j) \subseteq Marks(fil[f], j)
    PROVE  Tame(fil, [fil EXCEPT ![f] = Written(d, ids, f)], J)
<1> DEFINE w == Written(d, ids, f)
<1>1. /\ w \in Doc /\ w.ver = fil[f].ver + 1 /\ fil[f].ver \in Nat /\ w.parent = fil[f].parent
      /\ SameSpools(fil[f], w)
  BY WrittenType
<1>2. \A j : Marks(w, j) \subseteq Marks(fil[f], j) \cup Marks(d, j)
  BY MarksWritten
<1>3. fil[f] \in Doc
  BY FilDoc
<1> HIDE DEF w
<1>4. Distinct(fil[f]) => Distinct(w)
  BY <1>1, <1>3, SameSpoolsBack DEF Distinct, SameSpools
<1>5. w.ver # fil[f].ver
  BY <1>1
<1>6. TameFil(fil[f], w, J)
  BY <1>1, <1>2, <1>4, <1>5 DEF TameFil
<1> QED
  BY <1>1, <1>6, TameOne DEF w

LEMMA ReadsKept ==
    ASSUME NEW F \in FilType, NEW G \in FilType, Evolves(F, G), NEW J, Tame(F, G, J),
           NEW r \in ReqType, Fits(r, F), Reads(r, F)
    PROVE  Reads(r, G)
<1> SUFFICES ASSUME r.kind = "job", r.pc # "undo", NEW f \in FilsOf(r.usage),
                    r.docs[f].ver = G[f].ver, r.pc \in Reading \/ SpoolsOf(r.rows, f) # {},
                    NEW j \in Jobs \ {r.job}
             PROVE  Marks(r.docs[f], j) \subseteq Marks(G[f], j)
  BY DEF Reads
<1>1. r \in JobReq /\ FitsFil(r, F, f)
  BY KindOf DEF Fits
<1>2. f \in Fils /\ r.docs \in FilType
  BY <1>1, FilsOfIn DEF JobReq, FilType
<1>3. r.docs[f] # NoFil /\ F[f] # NoFil /\ r.docs[f].ver <= F[f].ver
  BY <1>1 DEF FitsFil
<1>4. G[f] # NoFil /\ F[f].ver <= G[f].ver
  BY <1>2, <1>3 DEF Evolves
<1>5. r.docs[f].ver \in Nat /\ F[f].ver \in Nat /\ G[f].ver \in Nat
  BY <1>2, <1>3, <1>4, FilDoc
<1>6. r.docs[f].ver = F[f].ver /\ F[f].ver = G[f].ver
  BY <1>3, <1>4, <1>5
<1>7. Marks(r.docs[f], j) \subseteq Marks(F[f], j)
  BY <1>6 DEF Reads
<1>8. Marks(F[f], j) \subseteq Marks(G[f], j)
  BY <1>2, <1>3, <1>6 DEF Tame, TameFil
<1> QED
  BY <1>7, <1>8

LEMMA DistinctsKept ==
    ASSUME Distincts, NEW J, Tame(fil, fil', J)
    PROVE  Distincts'
<1> SUFFICES ASSUME NEW g \in Fils, fil'[g] # NoFil PROVE Distinct(fil'[g])
  BY DEF Distincts
<1>1. CASE fil[g] # NoFil
  BY <1>1 DEF Tame, TameFil, Distincts
<1>2. CASE fil[g] = NoFil
  <2>1. PICK f \in Fils : fil[f] # NoFil /\ fil'[g].spools = fil[f].spools
    BY <1>2 DEF Tame
  <2>2. Distinct(fil[f])
    BY <2>1 DEF Distincts
  <2> QED
    BY <2>1, <2>2 DEF Distinct
<1> QED
  BY <1>1, <1>2

\* Who had left nothing has left nothing, if the step is not his.
LEMMA Unmarked ==
    ASSUME NEW J, Tame(fil, fil', J), NEW j \in Jobs \ J,
           \A f \in Fils : fil[f] # NoFil => Marks(fil[f], j) = {}
    PROVE  \A f \in Fils : fil'[f] # NoFil => Marks(fil'[f], j) = {}
<1> SUFFICES ASSUME NEW g \in Fils, fil'[g] # NoFil PROVE Marks(fil'[g], j) = {}
  OBVIOUS
<1>1. CASE fil[g] # NoFil
  <2>1. Marks(fil'[g], j) \subseteq Marks(fil[g], j)
    BY <1>1 DEF Tame, TameFil
  <2> QED
    BY <2>1, <1>1
<1>2. CASE fil[g] = NoFil
  <2>1. PICK f \in Fils : fil[f] # NoFil /\ fil'[g].spools = fil[f].spools
    BY <1>2 DEF Tame
  <2>2. Marks(fil'[g], j) = Marks(fil[f], j)
    BY <2>1 DEF Marks
  <2> QED
    BY <2>1, <2>2
<1> QED
  BY <1>1, <1>2

\* Only its job may put a record where there was none.
Untouched(q, r) ==
    \A j \in Jobs : hist[j] = NoRow =>
        hist'[j] = NoRow \/ (q.kind = "job" /\ q.job = j /\ ~Retrying(r))
NotNewlyClean == \A j \in Jobs : answer'[j] \in {None, "retry"} => answer[j] \in {None, "retry"}

LEMMA CleanStep ==
    ASSUME TInv, CInv, NEW J, Tame(fil, fil', J), NEW c \in Clients, NEW r \in ReqType,
           req' = [req EXCEPT ![c] = r], Untouched(req[c], r), NotNewlyClean,
           r.kind = "job" /\ r.pc \in Reading => Clean(r.job),
           \A j \in Jobs \cap J : ~Clean(j)'
    PROVE  CleanIsUnmarked'
<1> SUFFICES ASSUME NEW j \in Jobs, Clean(j)'
             PROVE  hist'[j] = NoRow /\ \A f \in Fils : fil'[f] # NoFil => Marks(fil'[f], j) = {}
  BY DEF CleanIsUnmarked
<1>1. req \in [Clients -> ReqType] /\ CleanIsUnmarked /\ Engaged /\ OneRequest
  BY DEF TInv, TypeOK, ReqType, CInv, Booked
<1>2. req'[c] = r /\ \A d \in Clients : d # c => req'[d] = req[d]
  BY <1>1
<1>3. Clean(j)
  <2>1. CASE answer'[j] \in {None, "retry"}
    BY <2>1 DEF NotNewlyClean, Clean
  <2>2. ASSUME NEW d \in Clients, req'[d].kind = "job", req'[d].job = j, req'[d].pc \in Reading
        PROVE  Clean(j)
    BY <2>2, <1>2 DEF Clean
  <2> QED
    BY <2>1, <2>2 DEF Clean
<1>4. hist[j] = NoRow /\ \A f \in Fils : fil[f] # NoFil => Marks(fil[f], j) = {}
  BY <1>1, <1>3 DEF CleanIsUnmarked
<1>5. \A f \in Fils : fil'[f] # NoFil => Marks(fil'[f], j) = {}
  BY <1>4, Unmarked
<1>6. hist'[j] = NoRow
  <2> SUFFICES ASSUME req[c].kind = "job", req[c].job = j, ~Retrying(r) PROVE FALSE
    BY <1>4 DEF Untouched
  <2>1. answer'[j] \notin {None, "retry"}
    BY <1>1 DEF Engaged, NotNewlyClean
  <2>2. PICK d \in Clients : req'[d].kind = "job" /\ req'[d].job = j /\ req'[d].pc \in Reading
    BY <2>1 DEF Clean
  <2>3. d # c
    BY <2>2, <1>2 DEF Retrying, Early, Reading
  <2> QED
    BY <2>2, <2>3, <1>1, <1>2 DEF OneRequest
<1> QED
  BY <1>5, <1>6

LEMMA NoRecordStep ==
    ASSUME TInv, CInv, NEW c \in Clients, NEW r \in ReqType, req' = [req EXCEPT ![c] = r],
           Untouched(req[c], r),
           Retrying(r) => Clean(r.job) \/ (Retrying(req[c]) /\ req[c].job = r.job),
           r.kind = "delete" =>
               (req[c].kind = "delete" /\ req[c].job = r.job) \/ hist[r.job].live
    PROVE  NoRecord'
<1>1. req \in [Clients -> ReqType] /\ CleanIsUnmarked /\ Engaged /\ OneRequest /\ NoRecord
  BY DEF TInv, TypeOK, ReqType, CInv, Booked
<1>2. req'[c] = r /\ \A d \in Clients : d # c => req'[d] = req[d]
  BY <1>1
<1> DEFINE Absent(j) == Hidden(j) /\ hist[j] = NoRow
<1> DEFINE AbsentNow(j) == /\ ~hist'[j].live /\ hist'[j] = NoRow
                           /\ \A d \in Clients : req'[d].kind = "delete" => req'[d].job # j
<1>3. ASSUME NEW j \in Jobs, Clean(j) PROVE Absent(j)
  <2>1. hist[j] = NoRow
    BY <1>1, <1>3 DEF CleanIsUnmarked
  <2>2. CASE answer[j] \in {None, "retry"}
    BY <2>1, <2>2, <1>1 DEF Engaged, Hidden, NoRow
  <2>3. ASSUME NEW d \in Clients, req[d].kind = "job", req[d].job = j, req[d].pc \in Reading
        PROVE  Absent(j)
    <3>1. Retrying(req[d])
      BY <2>3 DEF Retrying, Reading, Early
    <3> QED
      BY <3>1, <2>3, <1>1 DEF NoRecord
  <2> QED
    BY <1>3, <2>2, <2>3 DEF Clean
<1>4. ASSUME NEW j \in Jobs, Absent(j), hist'[j] = NoRow PROVE AbsentNow(j)
  <2>1. ~hist'[j].live
    BY <1>4 DEF NoRow
  <2>2. ASSUME NEW d \in Clients, req'[d].kind = "delete" PROVE req'[d].job # j
    <3>1. CASE d # c
      BY <3>1, <2>2, <1>2, <1>4 DEF Hidden
    <3>2. CASE d = c
      BY <3>2, <2>2, <1>2, <1>4 DEF Hidden
    <3> QED
      BY <3>1, <3>2
  <2> QED
    BY <2>1, <2>2, <1>4 DEF Hidden
<1> SUFFICES ASSUME NEW d \in Clients, Retrying(req'[d])
             PROVE  AbsentNow(req'[d].job)
  BY DEF NoRecord, Hidden
<1>5. req'[d] \in ReqType
  BY <1>1, <1>2
<1>6. req'[d].kind = "job" /\ req'[d].job \in Jobs
  BY <1>5, KindOf DEF Retrying, JobReq
<1> HIDE DEF Absent, AbsentNow
<1>7. CASE d # c
  <2> DEFINE j == req[d].job
  <2>1. Absent(j) /\ j \in Jobs /\ req[d].kind = "job" /\ req'[d].job = j
    BY <1>1, <1>2, <1>6, <1>7 DEF NoRecord, Absent
  <2>2. hist'[j] = NoRow
    BY <2>1, <1>1, <1>7 DEF Untouched, OneRequest, Absent
  <2> HIDE DEF j
  <2> QED
    BY <2>1, <2>2, <1>4
<1>8. CASE d = c
  <2>1. Absent(r.job) /\ r.job \in Jobs
    BY <1>1, <1>2, <1>3, <1>6, <1>8 DEF NoRecord, Absent
  <2>2. hist'[r.job] = NoRow
    BY <2>1, <1>2, <1>8 DEF Untouched, Absent
  <2> QED
    BY <2>1, <2>2, <1>2, <1>4, <1>8
<1> QED
  BY <1>7, <1>8

LEMMA MarkStep ==
    ASSUME TInv, CInv, fil' \in FilType, Evolves(fil, fil'), NEW J, Tame(fil, fil', J),
           NEW c \in Clients, NEW r \in ReqType, req' = [req EXCEPT ![c] = r], Reads(r, fil'),
           Untouched(req[c], r), NotNewlyClean,
           r.kind = "job" /\ r.pc \in Reading => Clean(r.job),
           Retrying(r) => Clean(r.job) \/ (Retrying(req[c]) /\ req[c].job = r.job),
           r.kind = "delete" =>
               (req[c].kind = "delete" /\ req[c].job = r.job) \/ hist[r.job].live,
           r.kind \in {"job", "delete"} => answer'[r.job] \notin {None, "retry"},
           \A j \in Jobs \cap J : ~Clean(j)'
    PROVE  CInv'
<1>1. /\ req \in [Clients -> ReqType] /\ fil \in FilType /\ Distincts /\ Engaged
      /\ \A d \in Clients : Fits(req[d], fil) /\ Reads(req[d], fil)
  BY DEF TInv, TypeOK, ReqType, CInv, FilType
<1>2. req'[c] = r /\ \A d \in Clients : d # c => req'[d] = req[d]
  BY <1>1
<1>3. CleanIsUnmarked'
  BY CleanStep
<1>4. NoRecord'
  BY NoRecordStep
<1>5. Distincts'
  BY <1>1, DistinctsKept
<1>6. Engaged'
  <2> SUFFICES ASSUME NEW d \in Clients, req'[d].kind \in {"job", "delete"}
               PROVE  answer'[req'[d].job] \notin {None, "retry"}
    BY DEF Engaged
  <2>1. CASE d = c
    BY <2>1, <1>2
  <2>2. CASE d # c
    <3>1. req[d].kind \in {"job", "delete"} /\ req'[d] = req[d] /\ req[d] \in ReqType
      BY <2>2, <1>1, <1>2
    <3>2. req[d].job \in Jobs
      BY <3>1, KindOf DEF JobReq, DeleteReq
    <3>3. answer[req[d].job] \notin {None, "retry"}
      BY <3>1, <1>1 DEF Engaged
    <3> QED
      BY <3>1, <3>2, <3>3 DEF NotNewlyClean
  <2> QED
    BY <2>1, <2>2
<1>7. \A d \in Clients : Reads(req'[d], fil')
  <2> SUFFICES ASSUME NEW d \in Clients PROVE Reads(req'[d], fil')
    OBVIOUS
  <2>1. CASE d # c
    BY <2>1, <1>1, <1>2, ReadsKept
  <2> QED
    BY <2>1, <1>2
<1> QED
  BY <1>3, <1>4, <1>5, <1>6, <1>7 DEF CInv

\* A job that is through reading may leave entries.
LEMMA NotClean ==
    ASSUME TInv, NEW c \in Clients, req[c].kind = "job", NEW r \in ReqType,
           req' = [req EXCEPT ![c] = r], r.kind = "job" => r.pc \notin Reading,
           NEW j \in Jobs, req[c].job = j, answer'[j] \notin {None, "retry"}
    PROVE  ~Clean(j)'
<1>1. req \in [Clients -> ReqType] /\ OneRequest
  BY DEF TInv, TypeOK, ReqType, Booked
<1>2. req'[c] = r /\ \A d \in Clients : d # c => req'[d] = req[d]
  BY <1>1
<1>3. ASSUME NEW d \in Clients, req'[d].kind = "job", req'[d].job = j, req'[d].pc \in Reading
      PROVE  FALSE
  <2>1. d # c
    BY <1>2, <1>3
  <2> QED
    BY <2>1, <1>1, <1>2, <1>3 DEF OneRequest
<1>4. ~(\E d \in Clients : req'[d].kind = "job" /\ req'[d].job = j /\ req'[d].pc \in Reading)
  BY <1>3
<1>5. answer'[j] \notin {None, "retry"}
  OBVIOUS
<1> QED
  BY <1>4, <1>5 DEF Clean

LEMMA SameRecords ==
    ASSUME hist' = hist, NEW q, NEW r
    PROVE  Untouched(q, r)
BY DEF Untouched

\* A job goes on.
LEMMA JobMarks ==
    ASSUME TInv, CInv, fil' \in FilType, Evolves(fil, fil'), NEW J, Tame(fil, fil', J),
           NEW c \in Clients, NEW r \in JobReq, req[c].kind = "job", req[c].job = r.job,
           req' = [req EXCEPT ![c] = r], Reads(r, fil'), UNCHANGED <<hist, answer>>,
           Retrying(r) => Retrying(req[c]), r.pc \in Reading => req[c].pc \in Reading,
           J \subseteq {r.job}, J # {} => r.pc \notin Reading
    PROVE  CInv'
<1>1. r \in ReqType /\ r.kind = "job" /\ r.job \in Jobs
  BY KindOf DEF ReqType, JobReq
<1>2. answer'[r.job] \notin {None, "retry"}
  BY DEF CInv, Engaged
<1>3. Untouched(req[c], r) /\ NotNewlyClean
  BY SameRecords DEF NotNewlyClean
<1>4. r.pc \in Reading => Clean(r.job)
  BY DEF Clean
<1>5. ASSUME NEW j \in Jobs \cap J PROVE ~Clean(j)'
  <2>1. r.pc \notin Reading /\ j = req[c].job
    BY <1>5
  <2> QED
    BY <1>1, <1>2, <2>1, NotClean
<1> QED
  BY <1>1, <1>2, <1>3, <1>4, <1>5, MarkStep

\* A request ends, and writes nothing.
LEMMA EndMarks ==
    ASSUME TInv, CInv, NEW c \in Clients, Done(c), UNCHANGED <<fil, hist>>, NotNewlyClean
    PROVE  CInv'
<1>1. fil \in FilType /\ req' = [req EXCEPT ![c] = Idle]
  BY DEF TInv, TypeOK, FilType, Done, Step
<1>2. fil' \in FilType /\ Evolves(fil, fil') /\ Tame(fil, fil', {})
  BY <1>1, EvolvesNot, TameNot
<1>3. Idle \in ReqType /\ ~Retrying(Idle) /\ Idle.kind = "idle"
  BY DEF Idle, ReqType, Retrying
<1>4. Reads(Idle, fil') /\ Untouched(req[c], Idle)
  BY <1>3, SameRecords DEF Reads
<1>5. \A j \in Jobs \cap {} : ~Clean(j)'
  OBVIOUS
<1> QED
  BY <1>1, <1>2, <1>3, <1>4, <1>5, MarkStep

LEMMA Answered ==
    ASSUME TypeOK, NEW j \in Jobs, NEW a \in Answers \ {"retry"}, Answer(j, a)
    PROVE  NotNewlyClean /\ answer'[j] \notin {None, "retry"}
<1>1. \A i \in Jobs : answer'[i] = IF i = j THEN a ELSE answer[i]
  BY DEF TypeOK, Answer
<1>2. a \notin {None, "retry"}
  BY PrintJobsAssumption
<1> QED
  BY <1>1, <1>2 DEF NotNewlyClean

\* At the start nobody left an entry but the jobs on record.
OrderlyStock ==
    /\ \A f \in Fils : Stock[f] # NoFil => Distinct(Stock[f])
    /\ \A j \in Jobs : ~Past[j].live =>
          Past[j] = NoRow /\ \A f \in Fils : Stock[f] # NoFil => Marks(Stock[f], j) = {}

LEMMA MarksInit ==
    ASSUME OrderlyStock, Init
    PROVE  CInv
<1>1. \A c \in Clients : req[c] = Idle /\ Idle.kind = "idle"
  BY DEF Init, Idle
<1>2. fil = Stock /\ hist = Past
  BY DEF Init
<1>3. "created" \notin {None, "retry"}
  BY PrintJobsAssumption DEF Answers
<1>4. ASSUME NEW j \in Jobs, Clean(j) PROVE ~hist[j].live
  <2>1. answer[j] \in {None, "retry"}
    BY <1>1, <1>4 DEF Clean
  <2>2. answer[j] = IF hist[j].live THEN "created" ELSE None
    BY DEF Init
  <2> QED
    BY <2>1, <2>2, <1>3
<1>5. CleanIsUnmarked
  BY <1>2, <1>4 DEF CleanIsUnmarked, OrderlyStock
<1>6. Distincts
  BY <1>2 DEF Distincts, OrderlyStock
<1> QED
  BY <1>1, <1>5, <1>6 DEF CInv, Engaged, NoRecord, Retrying, Reads

LEMMA PostJobMarks ==
    ASSUME TInv, CInv, NEW c \in Clients, NEW j \in Jobs, NEW u \in Usages, PostJob(c, j, u)
    PROVE  CInv'
<1> DEFINE docs == [f \in Fils |-> IF f \in FilsOf(u) THEN fil[f] ELSE NoFil]
<1> DEFINE r == [kind |-> "job",
                 pc |-> IF Cardinality(FilsOf(u)) > 1 THEN "check" ELSE "migrate",
                 job |-> j, usage |-> u, docs |-> docs,
                 todo |-> FilsOf(u), saved |-> {}, rows |-> <<>>, undo |-> None, unsafe |-> FALSE]
<1>1. /\ req[c] = Idle /\ answer[j] = None
      /\ req' = [req EXCEPT ![c] = r] /\ Answer(j, "posted")
      /\ UNCHANGED <<fil, hist, holder, replica, logs, fails, base>>
  BY DEF PostJob, Step
<1>2. TypeOK /\ fil \in FilType /\ req \in [Clients -> ReqType]
  BY DEF TInv, TypeOK, FilType, ReqType
<1>3. TInv'
  BY PostJobTyped
<1>4. req'[c] = r /\ req'[c] \in ReqType
  BY <1>1, <1>2, <1>3 DEF TInv, TypeOK, ReqType
<1>5. \A f \in FilsOf(u) : r.docs[f] = fil[f]
  BY FilsOfIn
<1>6. r.kind = "job" /\ r.job = j /\ r.pc \in Reading /\ r.usage = u
  BY DEF Reading
<1> HIDE DEF r
<1>7. Reads(r, fil')
  BY <1>1, <1>5, <1>6 DEF Reads
<1>8. NotNewlyClean /\ answer'[j] \notin {None, "retry"}
  BY <1>1, <1>2, Answered DEF Answers
<1>9. Clean(r.job)
  BY <1>1, <1>6 DEF Clean
<1>10. fil' \in FilType /\ Evolves(fil, fil') /\ Tame(fil, fil', {}) /\ Untouched(req[c], r)
  BY <1>1, <1>2, EvolvesNot, TameNot, SameRecords
<1>11. \A i \in Jobs \cap {} : ~Clean(i)'
  OBVIOUS
<1> QED
  BY <1>1, <1>4, <1>6, <1>7, <1>8, <1>9, <1>10, <1>11, MarkStep

LEMMA RefusedMarks ==
    ASSUME TInv, CInv, NEW c \in Clients, req[c].kind = "job", Done(c),
           NEW a \in Answers \ {"retry"}, Answer(req[c].job, a), UNCHANGED <<fil, hist>>
    PROVE  CInv'
<1>1. req[c].job \in Jobs /\ TypeOK
  BY JobTyped
<1> QED
  BY <1>1, Answered, EndMarks

\* A job reads on, or turns back.
LEMMA QuietMarks ==
    ASSUME TInv, CInv, NEW c \in Clients, req[c].kind = "job", NEW r \in JobReq,
           req' = [req EXCEPT ![c] = r], r.job = req[c].job, UNCHANGED <<fil, hist, answer>>,
           r.pc = "undo" \/
              (/\ r.docs = req[c].docs /\ r.usage = req[c].usage /\ r.rows = req[c].rows
               /\ (r.pc \in Reading <=> req[c].pc \in Reading) /\ req[c].pc # "undo"),
           Retrying(r) => Retrying(req[c])
    PROVE  CInv'
<1>1. fil \in FilType /\ Reads(req[c], fil)
  BY DEF TInv, TypeOK, FilType, CInv
<1>2. fil' \in FilType /\ Evolves(fil, fil') /\ Tame(fil, fil', {})
  BY <1>1, EvolvesNot, TameNot
<1>3. Reads(r, fil')
  BY <1>1 DEF Reads
<1>4. r.pc \in Reading => req[c].pc \in Reading
  BY DEF Reading
<1> DEFINE J == {}
<1>5. J \subseteq {r.job} /\ (J # {} => r.pc \notin Reading) /\ req[c].job = r.job
      /\ Tame(fil, fil', J)
  BY <1>2
<1> HIDE DEF J
<1> QED
  BY <1>2, <1>3, <1>4, <1>5, JobMarks

LEMMA CheckLegacyMarks ==
    ASSUME TInv, CInv, NEW c \in Clients, NEW f \in Fils, CheckLegacy(c, f)
    PROVE  CInv'
<1> DEFINE r == [req[c] EXCEPT !.todo = @ \ {f}]
<1>1. /\ req[c].kind = "job" /\ req[c].pc = "check"
      /\ \/ Done(c) /\ Answer(req[c].job, "refused")
         \/ req' = [req EXCEPT ![c] = r] /\ answer' = answer
      /\ UNCHANGED <<fil, hist, replica, logs, fails, base>>
  BY DEF CheckLegacy, Step
<1>2. req[c] \in JobReq
  BY <1>1, JobTyped
<1>3. "refused" \in Answers \ {"retry"}
  BY DEF Answers
<1>4. CASE req' = [req EXCEPT ![c] = r] /\ answer' = answer
  <2>1. r \in JobReq /\ r.job = req[c].job /\ r.docs = req[c].docs /\ r.usage = req[c].usage
        /\ r.rows = req[c].rows /\ r.pc = req[c].pc /\ r.undo = req[c].undo /\ r.kind = req[c].kind
    BY <1>2 DEF JobReq
  <2> HIDE DEF r
  <2>2. Retrying(r) => Retrying(req[c])
    BY <2>1 DEF Retrying
  <2> QED
    BY <1>1, <1>4, <2>1, <2>2, QuietMarks
<1> QED
  BY <1>1, <1>3, <1>4, RefusedMarks

LEMMA CheckedMarks ==
    ASSUME TInv, CInv, NEW c \in Clients, Checked(c)
    PROVE  CInv'
<1> DEFINE r == [req[c] EXCEPT !.pc = "migrate", !.todo = FilsOf(req[c].usage)]
<1>1. /\ req[c].kind = "job" /\ req[c].pc = "check" /\ req' = [req EXCEPT ![c] = r]
      /\ UNCHANGED <<fil, hist, holder, replica, logs, fails, base, answer>>
  BY DEF Checked, Step
<1>2. req[c] \in JobReq /\ FilsOf(req[c].usage) \subseteq Fils
  BY <1>1, JobTyped
<1>3. r \in JobReq /\ r.job = req[c].job /\ r.docs = req[c].docs /\ r.usage = req[c].usage
      /\ r.rows = req[c].rows /\ r.pc = "migrate"
  BY <1>2 DEF JobReq
<1> HIDE DEF r
<1>4. /\ (r.pc \in Reading <=> req[c].pc \in Reading) /\ req[c].pc # "undo"
      /\ Retrying(r) => Retrying(req[c])
  BY <1>1, <1>3 DEF Reading, Retrying, Early
<1> QED
  BY <1>1, <1>3, <1>4, QuietMarks

\* A roll from before there were spools becomes the spool s.
Migrated(d, s) ==
    [d EXCEPT !.ver = @ + 1, !.gross = None,
              !.spools = <<[id |-> s, weight |-> d.gross, ledger |-> <<>>]>>]

LEMMA MigratedType ==
    ASSUME NEW o \in Doc, IsLegacy(o), NEW s \in Spools, NEW e, e = Migrated(o, s)
    PROVE  /\ e \in Doc /\ e.ver = o.ver + 1 /\ e.gross = None /\ o.ver \in Nat
           /\ e.parent = o.parent /\ DOMAIN e.spools = {1} /\ Len(e.spools) = 1
           /\ e.spools[1] \in Spool /\ e.spools[1].id = s /\ e.spools[1].weight = o.gross
           /\ e.spools[1].ledger = <<>>
<1> DEFINE sp == [id |-> s, weight |-> o.gross, ledger |-> <<>>]
<1>1. o.gross \in Nat /\ o.ver \in Nat /\ o.parent \in Fils \cup {None}
  BY DEF IsLegacy, Doc
<1>2. <<>> \in Seq(Entry)
  OBVIOUS
<1>3. sp \in Spool /\ sp.id = s /\ sp.weight = o.gross /\ sp.ledger = <<>>
  BY <1>1, <1>2 DEF Spool
<1>4. e = [o EXCEPT !.ver = o.ver + 1, !.gross = None, !.spools = <<sp>>]
  BY DEF Migrated
<1> HIDE DEF sp
<1> DEFINE sps == <<sp>>
<1>5. sps \in Seq(Spool) /\ DOMAIN sps = {1} /\ sps[1] = sp /\ Len(sps) = 1
  BY <1>3
<1>6. e = [o EXCEPT !.ver = o.ver + 1, !.gross = None, !.spools = sps]
  BY <1>4
<1> HIDE DEF sps
<1> DEFINE a == [o EXCEPT !.ver = o.ver + 1]
<1> DEFINE b == [a EXCEPT !.gross = None]
<1>7. e = [b EXCEPT !.spools = sps]
  BY <1>6
<1>8. a \in Doc /\ a.ver = o.ver + 1 /\ a.parent = o.parent
  BY <1>1 DEF Doc
<1> HIDE DEF a
<1>9. b \in Doc /\ b.ver = a.ver /\ b.parent = a.parent /\ b.gross = None
  BY <1>8 DEF Doc
<1> HIDE DEF b
<1>10. e \in Doc /\ e.ver = b.ver /\ e.parent = b.parent /\ e.gross = None /\ e.spools = sps
  BY <1>5, <1>7, <1>9 DEF Doc
<1> QED
  BY <1>1, <1>3, <1>5, <1>8, <1>9, <1>10

\* What a migration comes to: the job reads the filament, as it was or under
\* its first spool, or is refused.
Rereads(c, f, d) ==
    /\ answer' = answer
    /\ req' = [req EXCEPT ![c] = [req[c] EXCEPT !.docs[f] = d, !.todo = @ \ {f}]]
    /\ \/ d = req[c].docs[f] /\ UNCHANGED <<fil, base>>
       \/ d = fil[f] /\ UNCHANGED <<fil, base>>
       \/ /\ IsLegacy(fil[f]) /\ fil' = [fil EXCEPT ![f] = d] /\ ~HasVariants(f)
          /\ \E s \in Spools : /\ base[s] = None /\ d = Migrated(fil[f], s)
                               /\ base' = [base EXCEPT ![s] = fil[f].gross]

LEMMA MigrateEffect ==
    ASSUME TInv, NEW c \in Clients, NEW f \in Fils, Migrate(c, f)
    PROVE  /\ req[c].kind = "job" /\ req[c].pc = "migrate" /\ f \in req[c].todo /\ Free(f)
           /\ fil[f] \in Doc /\ req[c].docs[f] \in Doc /\ UNCHANGED <<hist, replica, logs, fails>>
           /\ \/ Done(c) /\ Answer(req[c].job, "refused") /\ UNCHANGED <<fil, base>>
              \/ \E d \in Doc : Rereads(c, f, d)
<1> DEFINE q == req[c]
<1> DEFINE new(s) == [fil[f] EXCEPT !.ver = @ + 1, !.gross = None,
                         !.spools = <<[id |-> s, weight |-> fil[f].gross, ledger |-> <<>>]>>]
<1> DEFINE next(d) == /\ req' = [req EXCEPT ![c] = [q EXCEPT !.docs[f] = d, !.todo = @ \ {f}]]
                      /\ UNCHANGED answer
<1>1. /\ q.kind = "job" /\ q.pc = "migrate" /\ f \in q.todo /\ Free(f)
      /\ UNCHANGED <<hist, replica, logs, fails>>
      /\ \/ next(q.docs[f]) /\ UNCHANGED <<fil, base>>
         \/ Done(c) /\ Answer(q.job, "refused") /\ UNCHANGED <<fil, base>>
         \/ next(fil[f]) /\ UNCHANGED <<fil, base>>
         \/ IsLegacy(fil[f]) /\ ~HasVariants(f)
            /\ \E s \in Spools : /\ base[s] = None
                              /\ fil' = [fil EXCEPT ![f] = new(s)]
                              /\ base' = [base EXCEPT ![s] = fil[f].gross]
                              /\ next(new(s))
  <2>1. IsLegacy(fil[f]) /\ ~(HasVariants(f) /\ fil[f].spools = <<>>) => ~HasVariants(f)
    BY DEF IsLegacy
  <2> QED
    BY <2>1 DEF Migrate, Step
<1>2. FitsFil(q, fil, f) /\ q.docs \in FilType /\ fil \in FilType
  BY <1>1, JobTyped
<1>3. q.docs[f] \in Doc /\ fil[f] \in Doc
  BY <1>2, FilDoc DEF FitsFil
<1>4. ASSUME NEW s \in Spools, IsLegacy(fil[f]) PROVE new(s) \in Doc /\ new(s) = Migrated(fil[f], s)
  <2>1. new(s) = Migrated(fil[f], s)
    BY DEF Migrated
  <2> HIDE DEF new
  <2>2. \A o \in Doc : IsLegacy(o) => Migrated(o, s) \in Doc
    BY MigratedType
  <2> QED
    BY <2>1, <2>2, <1>3, <1>4
<1> HIDE DEF new
<1>5. CASE IsLegacy(fil[f]) /\ ~HasVariants(f)
           /\ \E s \in Spools : /\ base[s] = None
                              /\ fil' = [fil EXCEPT ![f] = new(s)]
                              /\ base' = [base EXCEPT ![s] = fil[f].gross]
                              /\ next(new(s))
  <2>1. PICK s \in Spools : /\ base[s] = None
                              /\ fil' = [fil EXCEPT ![f] = new(s)]
                              /\ base' = [base EXCEPT ![s] = fil[f].gross]
                              /\ next(new(s))
    BY <1>5
  <2> DEFINE d == new(s)
  <2>2. d \in Doc /\ d = Migrated(fil[f], s)
    BY <1>4, <1>5
  <2> HIDE DEF d
  <2>3. fil' = [fil EXCEPT ![f] = d] /\ next(d)
    BY <2>1 DEF d
  <2>4. Rereads(c, f, d)
    BY <1>5, <2>1, <2>2, <2>3 DEF Rereads
  <2> QED
    BY <1>1, <1>3, <2>2, <2>4
<1>6. next(q.docs[f]) /\ UNCHANGED <<fil, base>> => Rereads(c, f, q.docs[f])
  BY DEF Rereads
<1>7. next(fil[f]) /\ UNCHANGED <<fil, base>> => Rereads(c, f, fil[f])
  BY DEF Rereads
<1> QED
  BY <1>1, <1>3, <1>5, <1>6, <1>7

LEMMA MigratedTame ==
    ASSUME fil \in FilType, NEW f \in Fils, fil[f] \in Doc, IsLegacy(fil[f]), NEW s \in Spools,
           NEW d, d = Migrated(fil[f], s), fil' = [fil EXCEPT ![f] = d]
    PROVE  /\ fil' \in FilType /\ Evolves(fil, fil') /\ Tame(fil, fil', {})
           /\ fil[f] # NoFil /\ fil'[f] = d
<1>1. /\ d \in Doc /\ d.ver = fil[f].ver + 1 /\ fil[f].ver \in Nat /\ d.parent = fil[f].parent
      /\ DOMAIN d.spools = {1} /\ d.spools[1].ledger = <<>>
  BY MigratedType
<1>2. fil[f] # NoFil /\ fil'[f] = d
  BY DocIsNotNoFil DEF FilType
<1>3. \A j : Marks(d, j) = {}
  BY <1>1 DEF Marks, Named
<1>4. Distinct(d)
  BY <1>1 DEF Distinct
<1>5. fil[f].ver # d.ver /\ fil[f].ver <= d.ver
  BY <1>1
<1>6. TameFil(fil[f], d, {})
  BY <1>1, <1>3, <1>4, <1>5 DEF TameFil
<1> QED
  BY <1>1, <1>2, <1>5, <1>6, TameOne, EvolvesOne

LEMMA MigrateMarks ==
    ASSUME TInv, CInv, NEW c \in Clients, NEW f \in Fils, Migrate(c, f)
    PROVE  CInv' /\ Tame(fil, fil', {})
<1> DEFINE q == req[c]
<1>1. /\ q.kind = "job" /\ q.pc = "migrate" /\ fil[f] \in Doc /\ q.docs[f] \in Doc
      /\ UNCHANGED <<hist, replica, logs, fails>>
      /\ \/ Done(c) /\ Answer(q.job, "refused") /\ UNCHANGED <<fil, base>>
         \/ \E d \in Doc : Rereads(c, f, d)
  BY MigrateEffect
<1>2. q \in JobReq /\ fil \in FilType /\ Fits(q, fil) /\ Reads(q, fil) /\ q.usage \in Usages
  BY <1>1, JobTyped DEF CInv
<1>3. CASE Done(c) /\ Answer(q.job, "refused") /\ UNCHANGED <<fil, base>>
  <2>1. "refused" \in Answers \ {"retry"}
    BY DEF Answers
  <2> QED
    BY <1>1, <1>3, <2>1, RefusedMarks, TameNot
<1>4. ASSUME NEW d \in Doc, Rereads(c, f, d) PROVE CInv' /\ Tame(fil, fil', {})
  <2> DEFINE r == [q EXCEPT !.docs[f] = d, !.todo = @ \ {f}]
  <2> DEFINE J == {}
  <2>1. answer' = answer /\ req' = [req EXCEPT ![c] = r]
    BY <1>4 DEF Rereads
  <2>2. \/ fil' = fil /\ (d = q.docs[f] \/ d = fil[f])
        \/ /\ IsLegacy(fil[f]) /\ fil' = [fil EXCEPT ![f] = d]
           /\ \E s \in Spools : d = Migrated(fil[f], s)
    BY <1>4 DEF Rereads
  <2>3. /\ r \in JobReq /\ r.docs = [q.docs EXCEPT ![f] = d]
        /\ r.usage = q.usage /\ r.rows = q.rows /\ r.pc = q.pc /\ r.job = q.job /\ r.kind = "job"
        /\ r.undo = q.undo
    <3> HIDE DEF q
    <3>1. /\ r.docs = [q.docs EXCEPT ![f] = d] /\ r.todo = q.todo \ {f}
          /\ r.usage = q.usage /\ r.rows = q.rows /\ r.pc = q.pc /\ r.job = q.job
          /\ r.undo = q.undo /\ r.saved = q.saved /\ r.kind = "job" /\ r.unsafe = q.unsafe
      BY <1>2 DEF JobReq
    <3>2. [q.docs EXCEPT ![f] = d] \in [Fils -> Doc \cup {NoFil}]
      BY <1>2 DEF JobReq
    <3>3. r \in JobReq
      BY <1>2, <3>2 DEF JobReq
    <3> QED
      BY <3>1, <3>3
  <2> HIDE DEF r, J, q
  <2>4. fil' \in FilType /\ Evolves(fil, fil') /\ Tame(fil, fil', J) /\ (d = q.docs[f] \/ d = fil'[f])
    <3>1. CASE fil' = fil /\ (d = q.docs[f] \/ d = fil[f])
      BY <3>1, <1>2, EvolvesNot, TameNot
    <3>2. CASE IsLegacy(fil[f]) /\ fil' = [fil EXCEPT ![f] = d] /\ \E s \in Spools : d = Migrated(fil[f], s)
      <4>1. PICK s \in Spools : d = Migrated(fil[f], s)
        BY <3>2
      <4> QED
        BY <3>2, <4>1, <1>1, <1>2, MigratedTame DEF J
    <3> QED
      BY <3>1, <3>2, <2>2
  <2>5. Reads(q, fil')
    BY <1>2, <2>4, ReadsKept DEF ReqType
  <2>6. Reads(r, fil')
    <3> SUFFICES ASSUME NEW g \in FilsOf(r.usage), r.docs[g].ver = fil'[g].ver, NEW j \in Jobs \ {r.job}
                 PROVE  Marks(r.docs[g], j) \subseteq Marks(fil'[g], j)
      BY DEF Reads
    <3>1. g \in Fils /\ r.docs[g] = IF g = f THEN d ELSE q.docs[g]
      BY <1>2, <2>3, FilsOfIn DEF JobReq
    <3>2. q.kind = "job" /\ q.pc # "undo" /\ q.pc \in Reading
      BY <1>1 DEF Reading
    <3>3. CASE g = f /\ d = fil'[f]
      BY <3>1, <3>3
    <3>4. CASE g # f \/ d = q.docs[f]
      BY <3>1, <3>2, <3>4, <2>3, <2>5 DEF Reads
    <3> QED
      BY <3>3, <3>4, <2>4
  <2>7. /\ J \subseteq {r.job} /\ (J # {} => r.pc \notin Reading)
        /\ Retrying(r) => Retrying(q) /\ (r.pc \in Reading => q.pc \in Reading)
    BY <1>1, <2>3 DEF J, Retrying, Early, Reading
  <2>8. CInv'
    BY <1>1, <2>1, <2>3, <2>4, <2>6, <2>7, JobMarks DEF q
  <2> QED
    BY <2>4, <2>8 DEF J
<1> QED
  BY <1>1, <1>3, <1>4

LEMMA ChargeMarks ==
    ASSUME NEW d \in Doc, NEW e \in Doc, NEW job, NEW rows, NEW f, Charge(d, e, job, rows, f)
    PROVE  /\ \A j : j # job => Marks(e, j) \subseteq Marks(d, j)
           /\ Marks(e, job) \subseteq Marks(d, job) \cup SpoolsOf(rows, f)
           /\ Distinct(d) => Distinct(e)
<1>1. DOMAIN d.spools = 1..Len(d.spools) /\ DOMAIN e.spools = 1..Len(e.spools)
  BY DEF Doc
<1>2. DOMAIN e.spools = DOMAIN d.spools
  BY <1>1 DEF Charge
<1>3. ASSUME NEW i \in DOMAIN d.spools
      PROVE  /\ e.spools[i].id = d.spools[i].id
             /\ \A j : j # job /\ j \in Named(e.spools[i].ledger) => j \in Named(d.spools[i].ledger)
             /\ d.spools[i].id \in SpoolsOf(rows, f) \/ e.spools[i] = d.spools[i]
  <2> DEFINE a == d.spools[i]
  <2> DEFINE b == e.spools[i]
  <2>1. Longer(a, b, job, rows, f) /\ a \in Spool /\ b \in Spool
    BY <1>2 DEF Charge, Doc
  <2> HIDE DEF a, b
  <2>2. /\ DOMAIN a.ledger = 1..Len(a.ledger) /\ Len(a.ledger) \in Nat
        /\ DOMAIN b.ledger = 1..Len(b.ledger) /\ Len(b.ledger) \in Nat
    BY <2>1, SpoolFields
  <2>3. ASSUME NEW k \in DOMAIN b.ledger, b.ledger[k].job # job
        PROVE  k \in DOMAIN a.ledger /\ b.ledger[k] = a.ledger[k]
    <3>1. k \notin Grown(a, b)
      BY <2>1, <2>3 DEF Longer
    <3>2. k \in DOMAIN a.ledger
      BY <3>1, <2>2 DEF Grown
    <3> QED
      BY <3>2, <2>1, <2>2 DEF Longer
  <2>4. \A j : j # job /\ j \in Named(b.ledger) => j \in Named(a.ledger)
    BY <2>3 DEF Named
  <2> QED
    BY <2>1, <2>4 DEF Longer, a, b
<1>4. Distinct(d) => Distinct(e)
  BY <1>2, <1>3 DEF Distinct
<1>5. \A j : j # job => Marks(e, j) \subseteq Marks(d, j)
  BY <1>2, <1>3 DEF Marks
<1>6. Marks(e, job) \subseteq Marks(d, job) \cup SpoolsOf(rows, f)
  BY <1>2, <1>3 DEF Marks
<1> QED
  BY <1>4, <1>5, <1>6

LEMMA CappedMarks ==
    ASSUME NEW d \in Doc, NEW ids
    PROVE  /\ \A j : Marks(CapDoc(d, ids), j) \subseteq Marks(d, j)
           /\ Distinct(d) => Distinct(CapDoc(d, ids))
<1> DEFINE g == CapDoc(d, ids)
<1>1. /\ g \in Doc /\ Len(g.spools) = Len(d.spools)
      /\ \A i \in DOMAIN d.spools : /\ g.spools[i].id = d.spools[i].id
                                    /\ g.spools[i].ledger = IF d.spools[i].id \in ids
                                                            THEN Cap(d.spools[i].ledger)
                                                            ELSE d.spools[i].ledger
  BY CapDocType
<1> HIDE DEF g
<1>2. DOMAIN d.spools = 1..Len(d.spools) /\ DOMAIN g.spools = 1..Len(g.spools)
  BY <1>1 DEF Doc
<1>3. DOMAIN g.spools = DOMAIN d.spools
  BY <1>1, <1>2
<1>4. ASSUME NEW i \in DOMAIN d.spools
      PROVE  Named(g.spools[i].ledger) \subseteq Named(d.spools[i].ledger)
  <2>1. d.spools[i] \in Spool
    BY DEF Doc
  <2>2. d.spools[i].ledger \in Seq(Entry)
    BY <2>1, SpoolFields
  <2>3. Named(Cap(d.spools[i].ledger)) \subseteq Named(d.spools[i].ledger)
    BY <2>2, NamedCap
  <2> QED
    BY <1>1, <2>3
<1>5. Distinct(d) => Distinct(g)
  BY <1>1, <1>3 DEF Distinct
<1>6. \A j : Marks(g, j) \subseteq Marks(d, j)
  BY <1>1, <1>3, <1>4 DEF Marks
<1> QED
  BY <1>5, <1>6 DEF g

LEMMA ApplyMarks ==
    ASSUME TInv, CInv, NEW c \in Clients, Apply(c)
    PROVE  CInv'
<1> DEFINE q == req[c]
<1> DEFINE done == Applied(q.job, q.usage, q.docs)
<1> DEFINE r == [q EXCEPT !.pc = "save", !.docs = done.docs, !.rows = done.rows,
                          !.todo = FilsOf(q.usage)]
<1>1. /\ q.kind = "job" /\ q.pc = "migrate"
      /\ \/ req' = [req EXCEPT ![c] = r] /\ UNCHANGED <<holder, answer>>
         \/ Done(c) /\ Answer(q.job, "refused")
      /\ UNCHANGED <<fil, hist, replica, logs, fails, base>>
  BY DEF Apply, Step
<1>2. /\ q \in JobReq /\ fil \in FilType /\ TypeOK /\ q.usage \in Usages /\ q.docs \in FilType
      /\ q.job \in Jobs /\ FilsOf(q.usage) \subseteq Fils /\ Reads(q, fil)
      /\ \A f \in FilsOf(q.usage) : FitsFil(q, fil, f)
  BY <1>1, JobTyped DEF CInv
<1>3. q.usage \in Seq(Usage) /\ Debitable(q.usage, q.docs)
  BY <1>2, FilsOfIn DEF Debitable, FilType, FitsFil
<1>4. CASE Done(c) /\ Answer(q.job, "refused")
  <2>1. "refused" \in Answers \ {"retry"}
    BY DEF Answers
  <2> QED
    BY <1>1, <1>4, <2>1, RefusedMarks
<1>5. CASE req' = [req EXCEPT ![c] = r] /\ UNCHANGED <<holder, answer>>
  <2>1. q.pc \in Reading /\ q.pc # "undo" /\ q.kind = "job"
    BY <1>1 DEF Reading
  <2> HIDE DEF q
  <2>2. Charging(q.usage, q.docs, q.job, done)
    BY <1>2, <1>3, AppliedCharges
  <2> HIDE DEF done
  <2>3. /\ done.docs \in FilType /\ done.rows \in Seq(Row)
        /\ \A f \in Fils : q.docs[f] # NoFil =>
              done.docs[f] # NoFil /\ Charge(q.docs[f], done.docs[f], q.job, done.rows, f)
    BY <2>2 DEF Charging, Accounts, Accs, FilType
  <2>4. /\ r \in JobReq /\ r.kind = "job" /\ r.job = q.job /\ r.docs = done.docs /\ r.usage = q.usage
        /\ r.rows = done.rows /\ r.pc = "save"
    BY <1>2, <2>3 DEF JobReq, FilType
  <2> HIDE DEF r
  <2>5. Reads(r, fil)
    <3> SUFFICES ASSUME NEW f \in FilsOf(q.usage), done.docs[f].ver = fil[f].ver, NEW j \in Jobs \ {q.job}
                 PROVE  Marks(done.docs[f], j) \subseteq Marks(fil[f], j)
      BY <2>4 DEF Reads
    <3>1. f \in Fils /\ q.docs[f] # NoFil
      BY <1>2 DEF FitsFil
    <3>2. /\ q.docs[f] \in Doc /\ done.docs[f] \in Doc
          /\ Charge(q.docs[f], done.docs[f], q.job, done.rows, f)
      BY <1>2, <2>3, <3>1 DEF FilType
    <3>3. done.docs[f].ver = q.docs[f].ver
      BY <3>2 DEF Charge
    <3>4. Marks(q.docs[f], j) \subseteq Marks(fil[f], j)
      BY <3>3, <2>1, <1>2 DEF Reads
    <3>5. Marks(done.docs[f], j) \subseteq Marks(q.docs[f], j)
      BY <3>2, ChargeMarks
    <3> QED
      BY <3>4, <3>5
  <2> DEFINE J == {}
  <2>6. /\ fil' \in FilType /\ Evolves(fil, fil') /\ Tame(fil, fil', J) /\ Reads(r, fil')
        /\ J \subseteq {r.job} /\ (J # {} => r.pc \notin Reading)
    BY <1>1, <1>2, <2>5, EvolvesNot, TameNot
  <2>7. (Retrying(r) => Retrying(q)) /\ (r.pc \in Reading => q.pc \in Reading)
    BY <1>1, <2>1, <2>4 DEF Retrying, Early, Reading
  <2> HIDE DEF J
  <2> QED
    BY <1>1, <1>5, <2>4, <2>6, <2>7, JobMarks DEF q
<1> QED
  BY <1>1, <1>4, <1>5

\* A job has its record written.
LEMMA RecordedMarks ==
    ASSUME TInv, CInv, NEW c \in Clients, req[c].kind = "job",
           fil' \in FilType, Evolves(fil, fil'), NEW J, Tame(fil, fil', J), J \subseteq {req[c].job},
           NEW rows, hist' = hist \/ hist' = Recorded(req[c], rows),
           answer' = answer \/ Answer(req[c].job, "created"),
           NEW r \in ReqType, req' = [req EXCEPT ![c] = r], Reads(r, fil'), ~Retrying(r),
           r.kind = "idle" \/ (r.kind = "job" /\ r.job = req[c].job)
    PROVE  CInv'
<1> DEFINE j == req[c].job
<1>1. TypeOK /\ j \in Jobs /\ hist \in [Jobs -> Hist] /\ Engaged
  BY JobTyped DEF TypeOK, CInv
<1>2. NotNewlyClean /\ answer'[j] \notin {None, "retry"}
  <2>1. CASE answer' = answer
    BY <2>1, <1>1 DEF NotNewlyClean, Engaged
  <2>2. CASE Answer(j, "created")
    BY <2>2, <1>1, Answered DEF Answers
  <2> QED
    BY <2>1, <2>2
<1>3. Untouched(req[c], r)
  <2>1. CASE hist' = hist
    BY <2>1, SameRecords
  <2>2. CASE hist' = Recorded(req[c], rows)
    <3>1. \A i \in Jobs : i # j => hist'[i] = hist[i]
      BY <2>2, <1>1 DEF Recorded
    <3> QED
      BY <3>1 DEF Untouched
  <2> QED
    BY <2>1, <2>2
<1>4. r.kind = "job" => r.pc \notin Reading
  BY DEF Retrying, Reading, Early
<1>6. \A i \in Jobs \cap J : ~Clean(i)'
  <2>1. \A i \in Jobs \cap J : i = j
    OBVIOUS
  <2> SUFFICES ASSUME NEW i \in Jobs \cap J PROVE ~Clean(i)'
    OBVIOUS
  <2>2. i \in Jobs /\ i = req[c].job /\ answer'[i] \notin {None, "retry"}
    BY <2>1, <1>2
  <2> QED
    BY <2>2, <1>4, NotClean
<1> HIDE DEF j
<1>7. r.kind \in {"job", "delete"} => answer'[r.job] \notin {None, "retry"}
  BY <1>2 DEF j
<1>8. ~(r.kind = "job" /\ r.pc \in Reading) /\ r.kind # "delete"
  BY <1>4
<1> QED
  BY <1>2, <1>3, <1>6, <1>7, <1>8, MarkStep

LEMMA TransactMarks ==
    ASSUME TInv, CInv, NEW c \in Clients, Transact(c)
    PROVE  CInv' /\ Tame(fil, fil', {req[c].job})
<1> DEFINE q == req[c]
<1> DEFINE done == Applied(q.job, q.usage, fil)
<1> DEFINE new(f) == LET ids == SpoolsOf(done.rows, f) IN
                     IF ids = {} THEN fil[f]
                     ELSE [CapDoc(done.docs[f], ids) EXCEPT !.ver = @ + 1]
<1>1. /\ q.kind = "job" /\ q.pc = "migrate" /\ Done(c)
      /\ \/ /\ fil' = [f \in Fils |-> new(f)]
            /\ hist' = Recorded(q, done.rows) /\ Answer(q.job, "created")
         \/ Answer(q.job, "refused") /\ UNCHANGED <<fil, hist>>
      /\ UNCHANGED <<replica, logs, fails, base>>
  BY DEF Transact
<1>2. /\ q \in JobReq /\ fil \in FilType /\ TypeOK /\ q.usage \in Usages
      /\ q.job \in Jobs
      /\ \A f \in FilsOf(q.usage) : FitsFil(q, fil, f)
  BY <1>1, JobTyped
<1>3. /\ q.usage \in Seq(Usage) /\ Debitable(q.usage, fil)
  BY <1>2, FilsOfIn DEF Debitable, FilType, FitsFil
<1> HIDE DEF q
<1>4. Len(done.rows) = Len(q.usage) /\ Charging(q.usage, fil, q.job, done)
  BY <1>2, <1>3, AppliedCharges
<1> HIDE DEF done
<1>5. /\ done \in Accs /\ done.rows \in Seq(Row)
      /\ \A k \in DOMAIN done.rows : done.rows[k].fil = q.usage[k].fil
  BY <1>4 DEF Charging, Accounts, Accs
<1>6. done.rows # <<>> /\ \A f : SpoolsOf(done.rows, f) # {} => f \in FilsOf(q.usage)
  BY <1>2, <1>4, <1>5, RowsOf
<1>7. CASE Answer(q.job, "refused") /\ UNCHANGED <<fil, hist>>
  <2>1. "refused" \in Answers \ {"retry"}
    BY DEF Answers
  <2> QED
    BY <1>1, <1>7, <2>1, RefusedMarks, TameNot DEF q
<1>8. CASE /\ fil' = [f \in Fils |-> new(f)]
           /\ hist' = Recorded(q, done.rows) /\ Answer(q.job, "created")
  <2>1. ASSUME NEW f \in Fils
        PROVE  \/ new(f) = fil[f]
               \/ /\ fil[f] # NoFil /\ new(f) \in Doc
                  /\ new(f).ver = fil[f].ver + 1 /\ TameFil(fil[f], new(f), {q.job})
    <3>1. CASE SpoolsOf(done.rows, f) = {}
      BY <3>1
    <3>2. CASE SpoolsOf(done.rows, f) # {}
      <4> DEFINE e == done.docs[f]
      <4> DEFINE g == CapDoc(e, SpoolsOf(done.rows, f))
      <4>1. fil[f] # NoFil /\ fil[f] \in Doc /\ fil[f].ver \in Nat
            /\ DOMAIN fil[f].spools = 1..Len(fil[f].spools)
        BY <3>2, <1>2, <1>6, FilDoc DEF FitsFil
      <4>2. e # NoFil /\ Charge(fil[f], e, q.job, done.rows, f) /\ e \in Doc
        BY <4>1, <1>4, <1>5 DEF Charging, Accs
      <4>3. e.ver = fil[f].ver /\ e.parent = fil[f].parent
        BY <4>2 DEF Charge
      <4>4. /\ \A j : j # q.job => Marks(e, j) \subseteq Marks(fil[f], j)
            /\ Distinct(fil[f]) => Distinct(e)
        BY <4>1, <4>2, ChargeMarks
      <4> HIDE DEF e
      <4>5. /\ g \in Doc /\ g.ver = e.ver /\ g.parent = e.parent
            /\ \A j : Marks(g, j) \subseteq Marks(e, j)
            /\ Distinct(e) => Distinct(g)
        BY <4>2, CapDocType, CappedMarks
      <4>6. new(f) = [g EXCEPT !.ver = @ + 1]
        BY <3>2 DEF e
      <4> HIDE DEF g, new
      <4>7. new(f) \in Doc /\ new(f).ver = fil[f].ver + 1 /\ new(f).spools = g.spools
            /\ new(f).parent = g.parent
        BY <4>1, <4>3, <4>5, <4>6 DEF Doc
      <4>8. (\A j : Marks(new(f), j) = Marks(g, j)) /\ (Distinct(g) => Distinct(new(f)))
        BY <4>7 DEF Marks, Distinct
      <4>9. fil[f].ver # new(f).ver
        BY <4>1, <4>7
      <4>10. TameFil(fil[f], new(f), {q.job})
        BY <4>3, <4>4, <4>5, <4>7, <4>8, <4>9 DEF TameFil
      <4> QED
        BY <4>1, <4>7, <4>10
    <3> QED
      BY <3>1, <3>2
  <2> HIDE DEF new
  <2>2. \A f \in Fils : fil'[f] = new(f)
    BY <1>8
  <2>3. Tame(fil, fil', {q.job})
    <3>1. ASSUME NEW f \in Fils, fil[f] # NoFil
          PROVE  fil'[f] # NoFil /\ TameFil(fil[f], fil'[f], {q.job})
      BY <3>1, <2>1, <2>2, DocIsNotNoFil DEF TameFil
    <3>2. ASSUME NEW f \in Fils, fil[f] = NoFil PROVE fil'[f] = NoFil
      BY <3>2, <2>1, <2>2
    <3> QED
      BY <3>1, <3>2 DEF Tame
  <2>4. fil' \in FilType /\ Evolves(fil, fil')
    <3>1. fil' \in FilType
      BY TransactTyped DEF TInv, TypeOK, FilType
    <3>2. ASSUME NEW f \in Fils, fil[f] # NoFil
          PROVE  /\ fil'[f] # NoFil /\ fil[f].ver <= fil'[f].ver
                 /\ fil[f].ver = fil'[f].ver => SameSpools(fil[f], fil'[f])
      <4>1. fil[f].ver \in Nat
        BY <3>2, <1>2, FilDoc
      <4>2. CASE new(f) = fil[f]
        BY <4>1, <4>2, <2>2, <3>2 DEF SameSpools
      <4>3. CASE new(f) \in Doc /\ new(f).ver = fil[f].ver + 1
        BY <4>1, <4>3, <2>2, DocIsNotNoFil
      <4> QED
        BY <4>2, <4>3, <2>1
    <3> QED
      BY <3>1, <3>2 DEF Evolves
  <2>5. req' = [req EXCEPT ![c] = Idle] /\ Idle \in ReqType /\ Idle.kind = "idle"
        /\ ~Retrying(Idle) /\ Reads(Idle, fil')
    BY <1>1, IdleFits DEF Done, Step, Idle, Retrying, Reads
  <2> DEFINE J == {req[c].job}
  <2>6. Tame(fil, fil', J) /\ J \subseteq {req[c].job}
    BY <2>3 DEF q
  <2>7. hist' = Recorded(req[c], done.rows) /\ Answer(req[c].job, "created") /\ req[c].kind = "job"
    BY <1>1, <1>8 DEF q
  <2> HIDE DEF J
  <2>8. CInv'
    BY <2>4, <2>5, <2>6, <2>7, RecordedMarks
  <2> QED
    BY <2>3, <2>8 DEF q
<1> QED
  BY <1>1, <1>7, <1>8 DEF q

\* A job writes what it has of a filament it read.
LEMMA WrittenTame ==
    ASSUME TInv, CInv, NEW c \in Clients, req[c].kind = "job", req[c].pc \notin Reading,
           req[c].pc # "undo", NEW f \in FilsOf(req[c].usage), SpoolsOf(req[c].rows, f) # {},
           MaySave(req[c].docs[f], f), NEW d \in Doc, SameSpools(req[c].docs[f], d),
           \A j \in Jobs \ {req[c].job} : Marks(d, j) \subseteq Marks(req[c].docs[f], j),
           fil' = [fil EXCEPT ![f] = Written(d, SpoolsOf(req[c].rows, f), f)], base' = base
    PROVE  /\ fil' \in FilType /\ Evolves(fil, fil') /\ Tame(fil, fil', {req[c].job})
           /\ fil'[f] = Written(d, SpoolsOf(req[c].rows, f), f) /\ SameSpools(d, fil[f])
           /\ \A j \in Jobs \ {req[c].job} : Marks(req[c].docs[f], j) \subseteq Marks(fil[f], j)
<1>1. /\ fil \in FilType /\ f \in Fils /\ FitsFil(req[c], fil, f) /\ Reads(req[c], fil)
  BY JobTyped DEF CInv
<1>2. /\ fil' \in FilType /\ Evolves(fil, fil') /\ SameSpools(d, fil[f])
      /\ fil'[f] = Written(d, SpoolsOf(req[c].rows, f), f)
  BY WrittenByJob
<1>3. fil[f] # NoFil
  BY <1>1 DEF FitsFil
<1>4. \A j \in Jobs \ {req[c].job} : Marks(req[c].docs[f], j) \subseteq Marks(fil[f], j)
  BY <1>1 DEF Reads, MaySave
<1> DEFINE J == {req[c].job}
<1>5. \A j \in Jobs \ J : Marks(d, j) \subseteq Marks(fil[f], j)
  BY <1>4
<1> HIDE DEF J
<1>6. Tame(fil, [fil EXCEPT ![f] = Written(d, SpoolsOf(req[c].rows, f), f)], J)
  BY <1>1, <1>2, <1>3, <1>5, TameWritten
<1> QED
  BY <1>2, <1>4, <1>6 DEF J

LEMMA SaveFilMarks ==
    ASSUME TInv, CInv, NEW c \in Clients, NEW f \in Fils, SaveFil(c, f)
    PROVE  CInv' /\ Tame(fil, fil', {req[c].job})
<1> DEFINE q == req[c]
<1> DEFINE ids == SpoolsOf(q.rows, f)
<1> DEFINE d == [q.docs[f] EXCEPT !.ver = fil'[f].ver]
<1> DEFINE ok == [q EXCEPT !.todo = @ \ {f}, !.saved = @ \cup {f}, !.docs[f].ver = fil'[f].ver]
<1> DEFINE no == [q EXCEPT !.pc = "undo", !.todo = FilsOf(q.usage), !.undo = "retry"]
<1>1. /\ q.kind = "job" /\ q.pc = "save" /\ f \in q.todo
      /\ UNCHANGED <<hist, holder, replica, logs, fails, base, answer>>
      /\ \/ /\ ids = {} \/ MaySave(q.docs[f], f)
            /\ fil' = IF ids = {} THEN fil ELSE [fil EXCEPT ![f] = Written(q.docs[f], ids, f)]
            /\ req' = [req EXCEPT ![c] = ok]
         \/ req' = [req EXCEPT ![c] = no] /\ UNCHANGED fil
  BY DEF SaveFil, Step
<1>2. /\ q \in JobReq /\ fil \in FilType /\ Fits(q, fil) /\ Reads(q, fil)
      /\ q.todo \subseteq FilsOf(q.usage) /\ q \in ReqType /\ FilsOf(q.usage) \subseteq Fils
      /\ FitsFil(q, fil, f) /\ q.docs \in FilType /\ f \in FilsOf(q.usage)
  BY <1>1, JobTyped DEF ReqType, CInv
<1>3. q.pc \notin Reading /\ q.pc \in Early /\ q.pc # "undo"
  BY <1>1 DEF Reading, Early
<1>4. q.docs[f] # NoFil /\ fil[f] # NoFil /\ q.docs[f] \in Doc /\ fil[f].ver \in Nat
  BY <1>2, FilDoc DEF FitsFil
<1>5. CASE req' = [req EXCEPT ![c] = no] /\ UNCHANGED fil
  <2>1. no \in JobReq /\ no.job = q.job /\ no.pc = "undo"
    BY <1>2 DEF JobReq
  <2> HIDE DEF no
  <2>2. Retrying(req[c])
    BY <1>1 DEF Retrying, Early
  <2> QED
    BY <1>1, <1>5, <2>1, <2>2, QuietMarks, TameNot
<1>6. CASE /\ ids = {} \/ MaySave(q.docs[f], f)
           /\ fil' = IF ids = {} THEN fil ELSE [fil EXCEPT ![f] = Written(q.docs[f], ids, f)]
           /\ req' = [req EXCEPT ![c] = ok]
  <2>1. /\ fil' \in FilType /\ Evolves(fil, fil') /\ Tame(fil, fil', {q.job}) /\ fil'[f] # NoFil
        /\ ids # {} => /\ fil'[f] = Written(q.docs[f], ids, f) /\ SameSpools(q.docs[f], fil[f])
                       /\ \A j \in Jobs \ {q.job} : Marks(q.docs[f], j) \subseteq Marks(fil[f], j)
    <3>1. CASE ids = {}
      BY <1>2, <1>4, <1>6, <3>1, EvolvesNot, TameNot
    <3>2. CASE ids # {}
      <4>1. SameSpools(q.docs[f], q.docs[f])
        BY DEF SameSpools
      <4>2. fil' = [fil EXCEPT ![f] = Written(q.docs[f], ids, f)] /\ MaySave(q.docs[f], f)
        BY <1>6, <3>2
      <4>3. /\ fil' \in FilType /\ Evolves(fil, fil') /\ Tame(fil, fil', {q.job})
            /\ fil'[f] = Written(q.docs[f], ids, f) /\ SameSpools(q.docs[f], fil[f])
            /\ \A j \in Jobs \ {q.job} : Marks(q.docs[f], j) \subseteq Marks(fil[f], j)
        BY <1>1, <1>2, <1>3, <1>4, <3>2, <4>1, <4>2, WrittenTame
      <4> QED
        BY <4>3, <1>4 DEF Evolves
    <3> QED
      BY <3>1, <3>2
  <2>2. ASSUME ids # {}, NEW j \in Jobs \ {q.job}
        PROVE  Marks(q.docs[f], j) \subseteq Marks(fil'[f], j)
    <3> HIDE DEF q, ids
    <3>1. /\ Marks(q.docs[f], j) \cap ids \subseteq Marks(Written(q.docs[f], ids, f), j)
          /\ Marks(fil[f], j) \ ids \subseteq Marks(Written(q.docs[f], ids, f), j)
      BY <1>2, <1>4, <2>1, <2>2, MarksWritten
    <3> QED
      BY <3>1, <2>1, <2>2
  <2> DEFINE G == fil'
  <2> HIDE DEF G
  <2>3. G \in FilType /\ G[f] # NoFil /\ Tame(fil, G, {q.job}) /\ Evolves(fil, G)
        /\ \A j \in Jobs \ {q.job} : ids # {} => Marks(q.docs[f], j) \subseteq Marks(G[f], j)
    BY <2>1, <2>2 DEF G
  <2>4. G[f].ver \in Nat
    BY <2>3, FilDoc
  <2>5. d = [q.docs[f] EXCEPT !.ver = G[f].ver]
    BY DEF G
  <2>6. ok = [q EXCEPT !.todo = @ \ {f}, !.saved = @ \cup {f}, !.docs = [@ EXCEPT ![f] = d]]
    BY <1>2, <2>5 DEF JobReq, FilType, G
  <2> HIDE DEF d, ok
  <2>7. d \in Doc /\ d.spools = q.docs[f].spools
    BY <1>4, <2>4, <2>5 DEF Doc
  <2>8. [q.docs EXCEPT ![f] = d] \in [Fils -> Doc \cup {NoFil}]
    BY <1>2, <2>7 DEF FilType
  <2>9. /\ ok \in JobReq /\ ok.job = q.job /\ ok.docs = [q.docs EXCEPT ![f] = d]
        /\ ok.usage = q.usage /\ ok.rows = q.rows /\ ok.pc = q.pc /\ ok.kind = "job"
    BY <1>2, <2>6, <2>8 DEF JobReq
  <2>10. Reads(q, G)
    BY <1>2, <2>3, ReadsKept
  <2>11. Reads(ok, G)
    <3> SUFFICES ASSUME NEW g \in FilsOf(q.usage), ok.docs[g].ver = G[g].ver,
                        SpoolsOf(q.rows, g) # {}, NEW j \in Jobs \ {q.job}
                 PROVE  Marks(ok.docs[g], j) \subseteq Marks(G[g], j)
      BY <1>3, <2>9 DEF Reads
    <3>1. g \in Fils /\ ok.docs[g] = IF g = f THEN d ELSE q.docs[g]
      BY <1>2, <2>9 DEF FilType
    <3>2. CASE g = f
      <4>1. Marks(d, j) = Marks(q.docs[f], j)
        BY <2>7 DEF Marks
      <4> QED
        BY <3>1, <3>2, <4>1, <2>3
    <3>3. CASE g # f
      BY <3>1, <3>3, <1>1, <1>3, <2>10 DEF Reads
    <3> QED
      BY <3>2, <3>3
  <2> DEFINE J == {q.job}
  <2>12. J \subseteq {ok.job} /\ (J # {} => ok.pc \notin Reading) /\ Tame(fil, G, J)
    BY <1>3, <2>3, <2>9
  <2>13. (Retrying(ok) => Retrying(q)) /\ (ok.pc \in Reading => q.pc \in Reading)
    BY <1>1, <2>9 DEF Retrying, Early
  <2> HIDE DEF J
  <2>14. CInv'
    BY <1>1, <1>6, <2>3, <2>9, <2>11, <2>12, <2>13, JobMarks DEF G
  <2> QED
    BY <2>1, <2>14
<1> QED
  BY <1>1, <1>5, <1>6

LEMMA SaveFailsMarks ==
    ASSUME TInv, CInv, NEW c \in Clients, NEW f \in Fils, SaveFails(c, f)
    PROVE  CInv' /\ Tame(fil, fil', {req[c].job})
<1> DEFINE q == req[c]
<1> DEFINE ids == SpoolsOf(q.rows, f)
<1> DEFINE r == [q EXCEPT !.pc = "undo", !.todo = FilsOf(q.usage), !.undo = "error"]
<1>1. /\ q.kind = "job" /\ q.pc = "save" /\ f \in q.todo
      /\ UNCHANGED <<hist, holder, replica, logs, base, answer>> /\ fails' = fails + 1
      /\ \/ UNCHANGED fil
         \/ /\ ids # {} /\ MaySave(q.docs[f], f)
            /\ fil' = [fil EXCEPT ![f] = Written(q.docs[f], ids, f)]
      /\ req' = [req EXCEPT ![c] = r]
  BY DEF SaveFails, Step, Fault
<1>2. /\ fil \in FilType /\ FitsFil(q, fil, f) /\ q.docs \in FilType /\ f \in FilsOf(q.usage)
  BY <1>1, JobTyped
<1>3. /\ r \in JobReq /\ r.kind = "job" /\ r.job = q.job /\ r.pc = "undo"
  BY <1>1, FailingFits
<1>4. r.undo = "error"
  BY <1>1, JobTyped DEF JobReq
<1>5. q.pc \notin Reading /\ q.pc # "undo"
  BY <1>1 DEF Reading
<1>6. fil' \in FilType /\ Evolves(fil, fil') /\ Tame(fil, fil', {q.job})
  <2>1. CASE UNCHANGED fil
    BY <1>2, <2>1, EvolvesNot, TameNot
  <2>2. CASE /\ ids # {} /\ MaySave(q.docs[f], f)
             /\ fil' = [fil EXCEPT ![f] = Written(q.docs[f], ids, f)]
    <3>1. q.docs[f] \in Doc /\ SameSpools(q.docs[f], q.docs[f])
      BY <1>1, <1>2, FilDoc DEF FitsFil, SameSpools
    <3> QED
      BY <1>1, <1>2, <1>5, <2>2, <3>1, WrittenTame
  <2> QED
    BY <1>1, <2>1, <2>2
<1> HIDE DEF r
<1>7. Reads(r, fil') /\ r.pc \notin Reading /\ ~Retrying(r)
  BY <1>3, <1>4 DEF Reads, Reading, Retrying, Early
<1> DEFINE J == {q.job}
<1>8. J \subseteq {r.job} /\ Tame(fil, fil', J)
  BY <1>3, <1>6
<1> HIDE DEF J
<1>9. CInv'
  BY <1>1, <1>3, <1>6, <1>7, <1>8, JobMarks
<1> QED
  BY <1>6, <1>9

LEMMA RecordMarks ==
    ASSUME TInv, CInv, NEW c \in Clients, Record(c)
    PROVE  CInv'
<1> DEFINE q == req[c]
<1> DEFINE r == [q EXCEPT !.pc = "trim", !.todo = FilsOf(q.usage)]
<1>1. /\ q.kind = "job" /\ q.pc = "save" /\ hist' = Recorded(q, q.rows)
      /\ Answer(q.job, "created") /\ req' = [req EXCEPT ![c] = r]
      /\ UNCHANGED <<fil, holder, replica, logs, fails, base>>
  BY DEF Record, Step
<1>2. q \in JobReq /\ fil \in FilType /\ FilsOf(q.usage) \subseteq Fils /\ Reads(q, fil)
  BY <1>1, JobTyped DEF CInv
<1>3. /\ r \in JobReq /\ r.job = q.job /\ r.docs = q.docs /\ r.usage = q.usage /\ r.kind = "job"
      /\ r.rows = q.rows /\ r.pc = "trim"
  BY <1>2 DEF JobReq
<1> HIDE DEF r
<1>4. ~Retrying(r) /\ r \in ReqType
  BY <1>3 DEF Retrying, Early, ReqType
<1>5. Reads(r, fil)
  BY <1>1, <1>2, <1>3 DEF Reads, Reading
<1> DEFINE J == {}
<1>6. fil' \in FilType /\ Evolves(fil, fil') /\ Tame(fil, fil', J) /\ Reads(r, fil')
      /\ J \subseteq {req[c].job}
  BY <1>1, <1>2, <1>5, EvolvesNot, TameNot
<1> HIDE DEF J
<1> QED
  BY <1>1, <1>3, <1>4, <1>6, RecordedMarks

LEMMA RecordFailsMarks ==
    ASSUME TInv, CInv, NEW c \in Clients, RecordFails(c)
    PROVE  CInv'
<1> DEFINE q == req[c]
<1> DEFINE r == [q EXCEPT !.pc = "undo", !.todo = FilsOf(q.usage), !.undo = "error"]
<1>1. /\ q.kind = "job" /\ q.pc = "save" /\ req' = [req EXCEPT ![c] = r]
      /\ UNCHANGED hist \/ hist' = Recorded(q, q.rows)
      /\ UNCHANGED <<fil, holder, replica, logs, base, answer>>
  BY DEF RecordFails, Step, Fault
<1>2. fil \in FilType /\ q \in JobReq
  BY <1>1, JobTyped
<1>3. /\ r \in JobReq /\ r.kind = "job" /\ r.job = q.job /\ r.pc = "undo"
  BY <1>1, FailingFits
<1>4. r.undo = "error"
  BY <1>2 DEF JobReq
<1> HIDE DEF r
<1>5. ~Retrying(r) /\ r \in ReqType /\ Reads(r, fil)
  BY <1>3, <1>4 DEF Retrying, Early, ReqType, Reads
<1> DEFINE J == {}
<1>6. fil' \in FilType /\ Evolves(fil, fil') /\ Tame(fil, fil', J) /\ Reads(r, fil')
      /\ J \subseteq {req[c].job}
  BY <1>1, <1>2, <1>5, EvolvesNot, TameNot
<1> HIDE DEF J
<1> QED
  BY <1>1, <1>3, <1>5, <1>6, RecordedMarks

LEMMA TrimMarks ==
    ASSUME TInv, CInv, NEW c \in Clients, NEW f \in Fils, Trim(c, f)
    PROVE  CInv' /\ Tame(fil, fil', {req[c].job})
<1> DEFINE q == req[c]
<1> DEFINE ids == SpoolsOf(q.rows, f)
<1> DEFINE d == CapDoc(q.docs[f], ids)
<1> DEFINE r == [q EXCEPT !.todo = @ \ {f}]
<1>1. /\ q.kind = "job" /\ q.pc = "trim" /\ f \in q.todo /\ req' = [req EXCEPT ![c] = r]
      /\ fil' = IF d # q.docs[f] /\ MaySave(q.docs[f], f)
                THEN [fil EXCEPT ![f] = Written(LedgersOf(d, f), ids, f)] ELSE fil
      /\ UNCHANGED <<hist, holder, replica, logs, fails, base, answer>>
  BY DEF Trim, Step
<1>2. /\ q \in JobReq /\ q \in ReqType /\ fil \in FilType /\ Fits(q, fil) /\ Reads(q, fil)
      /\ FitsFil(q, fil, f) /\ q.docs \in FilType /\ f \in FilsOf(q.usage)
  BY <1>1, JobTyped DEF ReqType, CInv
<1>3. /\ r \in JobReq /\ r.job = q.job /\ r.docs = q.docs /\ r.usage = q.usage /\ r.kind = "job"
      /\ r.rows = q.rows /\ r.pc = q.pc
  BY <1>2 DEF JobReq
<1>4. q.docs[f] \in Doc /\ DOMAIN q.docs[f].spools = 1..Len(q.docs[f].spools)
  BY <1>2, FilDoc DEF FitsFil
<1>5. d \in Doc /\ SameSpools(q.docs[f], d) /\ \A j : Marks(d, j) \subseteq Marks(q.docs[f], j)
  BY <1>4, CapDocType, CappedMarks DEF SameSpools
<1>6. ids = {} => d = q.docs[f]
  <2> DEFINE o == q.docs[f]
  <2> HIDE DEF o
  <2>1. o \in Doc /\ o.spools = [i \in DOMAIN o.spools |-> o.spools[i]]
    BY <1>4 DEF Doc, o
  <2>2. ASSUME ids = {} PROVE CapDoc(o, ids) = [o EXCEPT !.spools = [i \in DOMAIN o.spools |-> o.spools[i]]]
    BY <2>2 DEF CapDoc
  <2>3. [o EXCEPT !.spools = o.spools] = o
    BY <2>1 DEF Doc
  <2>4. ids = {} => CapDoc(o, ids) = o
    BY <2>1, <2>2, <2>3
  <2> QED
    BY <2>4 DEF o
<1>7. fil' \in FilType /\ Evolves(fil, fil') /\ Tame(fil, fil', {q.job})
  <2>1. CASE fil' = fil
    BY <1>2, <2>1, EvolvesNot, TameNot
  <2>2. CASE /\ d # q.docs[f] /\ MaySave(q.docs[f], f)
             /\ fil' = [fil EXCEPT ![f] = Written(LedgersOf(d, f), ids, f)]
    <3>1. ids # {} /\ q.pc \notin Reading /\ q.pc # "undo"
      BY <1>1, <1>6, <2>2 DEF Reading
    <3> HIDE DEF d
    <3> DEFINE e == LedgersOf(d, f)
    <3>2. /\ e \in Doc /\ SameSpools(q.docs[f], e) /\ DOMAIN e.spools = DOMAIN d.spools
          /\ \A i \in DOMAIN d.spools : /\ e.spools[i].id = d.spools[i].id
                                        /\ e.spools[i].ledger = d.spools[i].ledger
      BY <1>1, <1>2, <1>5, <2>2, <3>1, LedgersFit
    <3>3. fil' = [fil EXCEPT ![f] = Written(e, ids, f)]
      BY <2>2
    <3> HIDE DEF e
    <3>4. \A j : Marks(e, j) = Marks(d, j)
      BY <3>2 DEF Marks
    <3>5. \A j : Marks(e, j) \subseteq Marks(q.docs[f], j)
      BY <1>5, <3>4
    <3> QED
      BY <1>1, <1>2, <2>2, <3>1, <3>2, <3>3, <3>5, WrittenTame
  <2> QED
    BY <1>1, <2>1, <2>2
<1> HIDE DEF r, d
<1> DEFINE J == {q.job}
<1>8. J \subseteq {r.job} /\ Tame(fil, fil', J)
  BY <1>3, <1>7
<1> HIDE DEF J
<1>9. Reads(q, fil')
  BY <1>2, <1>7, <1>8, ReadsKept
<1>10. Reads(r, fil') /\ r.pc \notin Reading /\ ~Retrying(r)
  BY <1>1, <1>3, <1>9 DEF Reads, Reading, Retrying, Early
<1>11. CInv'
  BY <1>1, <1>3, <1>7, <1>8, <1>10, JobMarks
<1> QED
  BY <1>7, <1>11

LEMMA TrimmedMarks ==
    ASSUME TInv, CInv, NEW c \in Clients, Trimmed(c)
    PROVE  CInv'
BY EndMarks DEF Trimmed, NotNewlyClean

LEMMA FailMarks ==
    ASSUME TInv, CInv, NEW c \in Clients, Fail(c)
    PROVE  CInv'
<1>1. /\ Done(c) /\ UNCHANGED <<fil, hist>>
      /\ IF req[c].kind = "job" THEN Answer(req[c].job, "error") ELSE UNCHANGED answer
  BY DEF Fail
<1>2. CASE req[c].kind = "job"
  <2>1. "error" \in Answers \ {"retry"}
    BY DEF Answers
  <2> QED
    BY <1>1, <1>2, <2>1, RefusedMarks
<1>3. CASE req[c].kind # "job"
  BY <1>1, <1>3, EndMarks DEF NotNewlyClean
<1> QED
  BY <1>2, <1>3

\* Putting w in the place of f takes no other job's entry away, and those of j from ids.
TakesBack(w, f, j, ids) ==
    /\ [fil EXCEPT ![f] = w] \in FilType /\ Evolves(fil, [fil EXCEPT ![f] = w])
    /\ Tame(fil, [fil EXCEPT ![f] = w], {})
    /\ Distinct(fil[f]) => Marks(w, j) \cap ids = {}

LEMMA PulledTame ==
    ASSUME fil \in FilType, NEW f \in Fils, fil[f] # NoFil, NEW j, NEW rows \in Seq(Row),
           NEW ids
    PROVE  TakesBack(Pulled(f, j, rows, ids), f, j, ids)
<1> DEFINE o == fil[f]
<1> DEFINE w == Pulled(f, j, rows, ids)
<1>0. IsBack(w, o, f, j, rows, ids)
  BY PulledType
<1> HIDE DEF w
<1>1. /\ w \in Doc /\ w.parent = o.parent
      /\ w.ver = IF \E i \in DOMAIN o.spools : Own(f, j, ids, o.spools[i])
                 THEN o.ver + 1 ELSE o.ver
      /\ o.ver \in Nat /\ o.ver <= w.ver /\ SameSpools(o, w)
      /\ \A i \in DOMAIN o.spools : w.spools[i] =
            IF Own(f, j, ids, o.spools[i]) THEN Back(f, j, rows, o.spools[i])
            ELSE o.spools[i]
  <2> HIDE DEF o
  <2> QED
    BY <1>0 DEF IsBack
<1>2. o \in Doc /\ DOMAIN w.spools = DOMAIN o.spools
      /\ \A i \in DOMAIN o.spools : w.spools[i].id = o.spools[i].id
  BY <1>1, FilDoc, SameSpoolsBack DEF SameSpools
<1>3. ASSUME NEW i \in DOMAIN o.spools
      PROVE  /\ Named(w.spools[i].ledger) \subseteq Named(o.spools[i].ledger)
             /\ Own(f, j, ids, o.spools[i]) => j \notin Named(w.spools[i].ledger)
  <2>1. o.spools[i] \in Spool
    BY <1>2 DEF Doc
  <2> DEFINE l == o.spools[i].ledger
  <2>2. l \in Seq(Entry)
    BY <2>1, SpoolFields
  <2> HIDE DEF l
  <2>3. /\ Named(Others(l, j)) \subseteq Named(l) /\ j \notin Named(Others(l, j))
    BY <2>2, NamedOnly DEF Others
  <2>4. Own(f, j, ids, o.spools[i]) => w.spools[i].ledger = Others(l, j)
    <3>1. Own(f, j, ids, o.spools[i]) => w.spools[i] = Back(f, j, rows, o.spools[i])
      BY <1>1
    <3>2. Back(f, j, rows, o.spools[i]).ledger = Others(l, j)
      BY DEF Back, l
    <3> QED
      BY <3>1, <3>2
  <2>5. ~Own(f, j, ids, o.spools[i]) => w.spools[i] = o.spools[i]
    BY <1>1
  <2> HIDE DEF o
  <2> QED
    BY <2>3, <2>4, <2>5 DEF l
<1>4. w.ver = o.ver => \A i \in DOMAIN o.spools : w.spools[i] = o.spools[i]
  <2>1. o.ver + 1 # o.ver
    BY <1>1
  <2> QED
    BY <1>1, <2>1
<1>5. TameFil(o, w, {})
  <2> HIDE DEF o
  <2> DEFINE J == {}
  <2>1. \A i \in DOMAIN o.spools : \A k \in Jobs \ J :
            k \in Named(w.spools[i].ledger) => k \in Named(o.spools[i].ledger)
    BY <1>3
  <2>2. o.ver = w.ver => \A i \in DOMAIN o.spools :
            Named(o.spools[i].ledger) \subseteq Named(w.spools[i].ledger)
    BY <1>4
  <2> HIDE DEF J
  <2>3. TameFil(o, w, J)
    BY <1>1, <1>2, <2>1, <2>2, TameSpools
  <2> QED
    BY <2>3 DEF J
<1>6. Tame(fil, [fil EXCEPT ![f] = w], {})
  BY <1>1, <1>5, TameOne
<1>7. [fil EXCEPT ![f] = w] \in FilType /\ Evolves(fil, [fil EXCEPT ![f] = w])
  BY <1>1, EvolvesOne
<1>8. ASSUME Distinct(o), NEW s \in Marks(w, j), s \in ids
      PROVE  FALSE
  <2>1. PICK i \in DOMAIN o.spools : o.spools[i].id = s /\ j \in Named(w.spools[i].ledger)
    BY <1>2, <1>8 DEF Marks
  <2>2. ~Own(f, j, ids, o.spools[i])
    BY <2>1, <1>3
  <2>3. EntriesOf(j, f, s) = {}
    BY <2>1, <2>2, <1>8 DEF Own
  <2>4. j \in Named(o.spools[i].ledger) /\ IndexOf(o, s) = i
    <3>1. j \in Named(o.spools[i].ledger)
      BY <2>1, <1>3
    <3>2. IndexOf(o, s) # 0 /\ IndexOf(o, s) \in DOMAIN o.spools /\ o.spools[IndexOf(o, s)].id = s
      <4> HIDE DEF o
      <4> QED
        BY <1>2, <2>1, IndexOfIn
    <3> QED
      BY <3>1, <3>2, <2>1, <1>8 DEF Distinct
  <2>5. IndexOf(fil[f], s) # 0
    BY <2>4, <1>2 DEF Doc
  <2>6. EntriesOf(j, f, s) = {k \in DOMAIN o.spools[i].ledger : o.spools[i].ledger[k].job = j}
    BY <2>4, <2>5 DEF EntriesOf
  <2> QED
    BY <2>3, <2>4, <2>6 DEF Named
<1> HIDE DEF o
<1>9. TakesBack(w, f, j, ids)
  BY <1>6, <1>7, <1>8 DEF o, TakesBack
<1> QED
  BY <1>9 DEF w

\* What UndoFil and UndoFails have in common.
Undoing(c, f, ids, un) ==
    /\ req[c].kind = "job" /\ req[c].pc = "undo" /\ f \in req[c].todo /\ un \in BOOLEAN
    /\ fil' = [fil EXCEPT ![f] = Pulled(f, req[c].job, req[c].rows, ids)]
    /\ req' = [req EXCEPT ![c] = [req[c] EXCEPT !.todo = @ \ {f}, !.unsafe = un]]
    /\ UNCHANGED <<hist, answer>>

LEMMA UndoMarks ==
    ASSUME TInv, CInv, NEW c \in Clients, NEW f \in Fils, NEW ids, NEW un,
           Undoing(c, f, ids, un)
    PROVE  CInv' /\ Tame(fil, fil', {})
<1>0. /\ req[c].kind = "job" /\ req[c].pc = "undo" /\ f \in req[c].todo /\ un \in BOOLEAN
      /\ fil' = [fil EXCEPT ![f] = Pulled(f, req[c].job, req[c].rows, ids)]
      /\ req' = [req EXCEPT ![c] = [req[c] EXCEPT !.todo = @ \ {f}, !.unsafe = un]]
      /\ UNCHANGED <<hist, answer>>
  BY DEF Undoing
<1> DEFINE q == req[c]
<1> DEFINE r == [q EXCEPT !.todo = @ \ {f}, !.unsafe = un]
<1>1. /\ q \in JobReq /\ fil \in FilType /\ q.rows \in Seq(Row) /\ FitsFil(q, fil, f)
      /\ req' = [req EXCEPT ![c] = r]
  BY <1>0, JobTyped
<1>2. r \in JobReq /\ r.job = q.job /\ r.pc = q.pc /\ r.kind = "job" /\ r.undo = q.undo
  BY <1>0, <1>1 DEF JobReq
<1>3. fil[f] # NoFil
  BY <1>1 DEF FitsFil
<1> DEFINE J == {}
<1>4. fil' \in FilType /\ Evolves(fil, fil') /\ Tame(fil, fil', J)
  <2> DEFINE w == Pulled(f, q.job, q.rows, ids)
  <2>1. fil' = [fil EXCEPT ![f] = w] /\ w = Pulled(f, q.job, q.rows, ids)
    BY <1>0
  <2>2. TakesBack(w, f, q.job, ids)
    BY <1>1, <1>3, PulledTame
  <2> HIDE DEF w, q, r
  <2> QED
    BY <2>1, <2>2 DEF TakesBack
<1> HIDE DEF r
<1>5. Reads(r, fil') /\ r.pc \notin Reading /\ (Retrying(r) => Retrying(q)) /\ J \subseteq {r.job}
  BY <1>0, <1>2 DEF Reads, Reading, Retrying
<1> HIDE DEF J
<1>6. CInv'
  BY <1>0, <1>1, <1>2, <1>4, <1>5, JobMarks
<1> QED
  BY <1>4, <1>6 DEF J

LEMMA UndoneMarks ==
    ASSUME TInv, CInv, NEW c \in Clients, Undone(c),
           req[c].undo = "retry" /\ ~req[c].unsafe =>
               \A f \in Fils : fil[f] # NoFil => Marks(fil[f], req[c].job) = {}
    PROVE  CInv'
<1> DEFINE q == req[c]
<1>1. /\ q.kind = "job" /\ q.pc = "undo" /\ Done(c)
      /\ Answer(q.job, IF q.unsafe THEN "unsafe" ELSE q.undo)
      /\ UNCHANGED <<fil, hist, replica, logs, fails, base>>
  BY DEF Undone
<1>2. q \in JobReq /\ q.undo # None /\ q.job \in Jobs /\ TypeOK
  BY <1>1, JobTyped
<1>3. CASE q.unsafe \/ q.undo # "retry"
  <2>1. (IF q.unsafe THEN "unsafe" ELSE q.undo) \in Answers \ {"retry"}
    BY <1>2, <1>3 DEF JobReq, Answers
  <2> QED
    BY <1>1, <2>1, RefusedMarks
<1>4. CASE q.undo = "retry" /\ ~q.unsafe
  <2>1. /\ req \in [Clients -> ReqType] /\ OneRequest /\ CleanIsUnmarked /\ Engaged /\ NoRecord
        /\ Distincts /\ \A d \in Clients : Reads(req[d], fil)
    BY DEF TInv, TypeOK, ReqType, Booked, CInv
  <2>2. Hidden(q.job) /\ hist[q.job] = NoRow
    BY <1>1, <1>4, <2>1 DEF NoRecord, Retrying
  <2>3. /\ req'[c] = Idle /\ Idle.kind = "idle" /\ \A d \in Clients : d # c => req'[d] = req[d]
    BY <1>1, <2>1 DEF Done, Step, Idle
  <2>4. \A j \in Jobs : j # q.job => answer'[j] = answer[j]
    BY <1>1, <1>2 DEF Answer, TypeOK
  <2>5. CleanIsUnmarked'
    <3> SUFFICES ASSUME NEW j \in Jobs, Clean(j)'
                 PROVE  hist[j] = NoRow /\ \A f \in Fils : fil[f] # NoFil => Marks(fil[f], j) = {}
      BY <1>1 DEF CleanIsUnmarked
    <3>1. CASE j = q.job
      BY <3>1, <1>4, <2>2
    <3>2. CASE j # q.job
      <4>1. Clean(j)
        BY <3>2, <2>3, <2>4 DEF Clean
      <4> QED
        BY <4>1, <2>1 DEF CleanIsUnmarked
    <3> QED
      BY <3>1, <3>2
  <2>6. Distincts'
    BY <1>1, <2>1 DEF Distincts
  <2>7. Engaged'
    <3> SUFFICES ASSUME NEW d \in Clients, req'[d].kind \in {"job", "delete"}
                 PROVE  answer'[req'[d].job] \notin {None, "retry"}
      BY DEF Engaged
    <3>1. d # c /\ req'[d] = req[d] /\ req[d] \in ReqType
      BY <2>1, <2>3
    <3>2. req[d].job \in Jobs
      BY <3>1, KindOf DEF JobReq, DeleteReq
    <3>3. req[d].job # q.job
      BY <3>1, <1>1, <2>1, <2>2 DEF OneRequest, Hidden
    <3> QED
      BY <3>1, <3>2, <3>3, <2>1, <2>4 DEF Engaged
  <2>8. NoRecord'
    <3> SUFFICES ASSUME NEW d \in Clients, Retrying(req'[d])
                 PROVE  /\ ~hist'[req'[d].job].live /\ hist'[req'[d].job] = NoRow
                        /\ \A e \in Clients : req'[e].kind = "delete" => req'[e].job # req'[d].job
      BY DEF NoRecord, Hidden
    <3>1. d # c /\ req'[d] = req[d]
      BY <2>3 DEF Retrying
    <3>2. Hidden(req[d].job) /\ hist[req[d].job] = NoRow
      BY <3>1, <2>1 DEF NoRecord
    <3>3. \A e \in Clients : req'[e].kind = "delete" => req'[e] = req[e]
      BY <2>3
    <3> QED
      BY <3>1, <3>2, <3>3, <1>1 DEF Hidden
  <2>9. \A d \in Clients : Reads(req'[d], fil')
    BY <1>1, <2>1, <2>3 DEF Reads
  <2> QED
    BY <2>5, <2>6, <2>7, <2>8, <2>9 DEF CInv
<1> QED
  BY <1>3, <1>4

\* A request that leaves no entries goes on, or ends.
LEMMA OtherMarks ==
    ASSUME TInv, CInv, NEW c \in Clients, NEW r \in ReqType, req' = [req EXCEPT ![c] = r],
           r.kind # "job", fil' \in FilType, Evolves(fil, fil'), Tame(fil, fil', {}),
           \A j \in Jobs : hist[j] = NoRow => hist'[j] = NoRow, NotNewlyClean,
           r.kind = "delete" =>
               /\ (req[c].kind = "delete" /\ req[c].job = r.job) \/ hist[r.job].live
               /\ answer'[r.job] \notin {None, "retry"}
    PROVE  CInv'
<1>1. Reads(r, fil') /\ ~Retrying(r) /\ Untouched(req[c], r)
  BY DEF Reads, Retrying, Untouched
<1>2. \A j \in Jobs \cap {} : ~Clean(j)'
  OBVIOUS
<1> QED
  BY <1>1, <1>2, MarkStep

LEMMA DeleteJobMarks ==
    ASSUME TInv, CInv, NEW c \in Clients, NEW j \in Jobs, DeleteJob(c, j)
    PROVE  CInv'
<1> DEFINE r == [kind |-> "delete", job |-> j, rows |-> hist[j].rows, i |-> 1,
                 target |-> hist[j].rows[1].fil, hop |-> 0]
<1>1. /\ req[c] = Idle /\ hist[j].live /\ req' = [req EXCEPT ![c] = r] /\ Answer(j, "deleting")
      /\ UNCHANGED <<fil, hist, holder, replica, logs, fails, base>>
  BY DEF DeleteJob, Step
<1>2. TypeOK /\ fil \in FilType /\ req \in [Clients -> ReqType]
  BY DEF TInv, TypeOK, FilType, ReqType
<1>3. r.kind = "delete" /\ r.job = j
  OBVIOUS
<1>4. req'[c] = r /\ req'[c] \in ReqType
  BY <1>1, <1>2, DeleteJobTyped DEF TInv, TypeOK, ReqType
<1> HIDE DEF r
<1>5. NotNewlyClean /\ answer'[j] \notin {None, "retry"}
  BY <1>1, <1>2, Answered DEF Answers
<1>6. fil' \in FilType /\ Evolves(fil, fil') /\ Tame(fil, fil', {})
  BY <1>1, <1>2, EvolvesNot, TameNot
<1> QED
  BY <1>1, <1>3, <1>4, <1>5, <1>6, OtherMarks

LEMMA OneSpoolTame ==
    ASSUME fil \in FilType, NEW f \in Fils, fil[f] # NoFil, NEW i \in DOMAIN fil[f].spools,
           NEW sp \in Spool, sp.id = fil[f].spools[i].id, NEW v \in Nat, fil[f].ver <= v,
           Named(sp.ledger) \subseteq Named(fil[f].spools[i].ledger) \cup {None},
           v = fil[f].ver => Named(fil[f].spools[i].ledger) \subseteq Named(sp.ledger),
           NEW e, e = [[fil[f] EXCEPT !.ver = v] EXCEPT !.spools = [fil[f].spools EXCEPT ![i] = sp]]
    PROVE  /\ [fil EXCEPT ![f] = e] \in FilType /\ Evolves(fil, [fil EXCEPT ![f] = e])
           /\ Tame(fil, [fil EXCEPT ![f] = e], {})
<1> DEFINE o == fil[f]
<1> DEFINE sps == [o.spools EXCEPT ![i] = sp]
<1> DEFINE u == [o EXCEPT !.ver = v]
<1>0. /\ o \in Doc /\ o.ver \in Nat /\ DOMAIN o.spools = 1..Len(o.spools) /\ Len(o.spools) \in Nat
      /\ o.spools \in Seq(Spool) /\ sp.id = o.spools[i].id /\ i \in DOMAIN o.spools /\ o.ver <= v
      /\ e = [u EXCEPT !.spools = sps]
  BY FilDoc
<1> HIDE DEF o
<1>1. /\ sps \in Seq(Spool) /\ Len(sps) = Len(o.spools) /\ DOMAIN sps = DOMAIN o.spools
      /\ \A k \in DOMAIN o.spools : sps[k] = IF k = i THEN sp ELSE o.spools[k]
  BY <1>0
<1>11. u \in Doc /\ u.ver = v /\ u.parent = o.parent /\ u.gross = o.gross
  BY <1>0 DEF Doc
<1> HIDE DEF sps, u
<1>12. e \in Doc /\ e.ver = v /\ e.parent = o.parent /\ e.spools = sps
  BY <1>0, <1>1, <1>11 DEF Doc
<1>2. /\ e \in Doc /\ o.ver <= e.ver /\ e.ver = v /\ SameSpools(o, e)
      /\ e.parent = o.parent /\ DOMAIN e.spools = DOMAIN o.spools
      /\ \A k \in DOMAIN o.spools : e.spools[k] = IF k = i THEN sp ELSE o.spools[k]
  <2>1. SameSpools(o, e)
    BY <1>0, <1>1, <1>12 DEF SameSpools
  <2> QED
    BY <2>1, <1>0, <1>1, <1>12
<1> USE DEF o
<1>3. o \in Doc
  BY FilDoc
<1> DEFINE J == {}
<1>4. \A k \in DOMAIN o.spools : \A j \in Jobs \ J :
          j \in Named(e.spools[k].ledger) => j \in Named(o.spools[k].ledger)
  BY <1>2, PrintJobsAssumption
<1>5. o.ver = e.ver => \A k \in DOMAIN o.spools :
          Named(o.spools[k].ledger) \subseteq Named(e.spools[k].ledger)
  BY <1>2
<1> HIDE DEF J
<1>6. TameFil(o, e, J)
  <2> HIDE DEF o
  <2> QED
    BY <1>2, <1>3, <1>4, <1>5, TameSpools
<1>7. Tame(fil, [fil EXCEPT ![f] = e], J)
  BY <1>2, <1>6, TameOne
<1>8. [fil EXCEPT ![f] = e] \in FilType /\ Evolves(fil, [fil EXCEPT ![f] = e])
  BY <1>2, EvolvesOne
<1> QED
  BY <1>7, <1>8 DEF J

LEMMA RefundRowMarks ==
    ASSUME TInv, CInv, NEW c \in Clients, RefundRow(c)
    PROVE  CInv' /\ Tame(fil, fil', {})
<1> DEFINE q == req[c]
<1> DEFINE f == q.target
<1> DEFINE hopped == [q EXCEPT !.target = FilNow(q), !.hop = 1]
<1> DEFINE i == IF fil[f] = NoFil THEN 0 ELSE IndexOf(fil[f], q.rows[q.i].spool)
<1> DEFINE sp == Refunded(fil[f].spools[i], q)
<1>1. /\ q.kind = "delete" /\ q.i <= Len(q.rows)
      /\ \/ req' = [req EXCEPT ![c] = NextRow(q)] /\ UNCHANGED fil
         \/ req' = [req EXCEPT ![c] = hopped] /\ UNCHANGED fil
         \/ /\ req' = [req EXCEPT ![c] = NextRow(q)]
            /\ i # 0
            /\ fil' = [fil EXCEPT ![f].ver = @ + 1, ![f].spools[i] = sp]
      /\ UNCHANGED <<hist, holder, replica, logs, fails, base, answer>>
  BY DEF RefundRow, Step
<1>2. /\ q \in DeleteReq /\ q.job \in Jobs /\ q.rows \in Seq(Row) /\ q.i \in Nat \ {0}
      /\ f \in Fils /\ fil \in FilType /\ req \in [Clients -> ReqType]
      /\ answer[q.job] \notin {None, "retry"}
  BY <1>1, DeleteTyped DEF CInv, Engaged, TypeOK, ReqType
<1>3. hopped.kind = "delete" /\ hopped.job = q.job
  BY <1>2 DEF DeleteReq
<1>4. NextRow(q).kind = "delete" /\ NextRow(q).job = q.job
  BY <1>1, <1>2, NextRowType
<1>5. \E r : req' = [req EXCEPT ![c] = r] /\ r.kind = "delete" /\ r.job = q.job
  <2> HIDE DEF hopped
  <2> QED
    BY <1>1, <1>3, <1>4
<1>6. PICK r : req' = [req EXCEPT ![c] = r] /\ r.kind = "delete" /\ r.job = q.job
  BY <1>5
<1>7. r \in ReqType
  <2>1. req'[c] = r /\ req'[c] \in ReqType
    BY <1>2, <1>6, RefundRowTyped DEF TInv, TypeOK, ReqType
  <2> QED
    BY <2>1
<1>8. fil' \in FilType /\ Evolves(fil, fil') /\ Tame(fil, fil', {})
  <2>1. CASE UNCHANGED fil
    BY <1>2, <2>1, EvolvesNot, TameNot
  <2>2. CASE i # 0 /\ fil' = [fil EXCEPT ![f].ver = @ + 1, ![f].spools[i] = sp]
    <3> DEFINE o == fil[f]
    <3>1. fil[f] # NoFil /\ o \in Doc /\ o.ver \in Nat /\ i = IndexOf(o, q.rows[q.i].spool)
      BY <1>2, <2>2, FilDoc
    <3>2. i \in DOMAIN o.spools
      BY <2>2, <3>1, IndexOfIn
    <3>3. fil[f].spools[i] \in Spool
      BY <1>2, <3>1, <3>2, FilDoc
    <3>4. fil' = [fil EXCEPT ![f] =
                    [[o EXCEPT !.ver = o.ver + 1] EXCEPT !.spools = [o.spools EXCEPT ![i] = sp]]]
      BY <1>2, <2>2, <3>1 DEF FilType, Doc
    <3> DEFINE old == fil[f].spools[i]
    <3>5. sp \in Spool /\ sp.id = old.id /\ Named(sp.ledger) \subseteq Named(old.ledger)
      <4> HIDE DEF q, old
      <4> DEFINE k == EntryOf(old.ledger, q.job, q.rows[q.i].grams)
      <4>1. /\ Refunded(old, q) \in Spool /\ Refunded(old, q).id = old.id
            /\ k = 0 => Refunded(old, q) = old
            /\ k # 0 => Refunded(old, q) =
                          [id |-> old.id, weight |-> old.weight + old.ledger[k].debited,
                           ledger |-> Only(old.ledger, DOMAIN old.ledger \ {k})]
        BY <3>3, RefundedType DEF old
      <4>2. old.ledger \in Seq(Entry)
        BY <3>3, SpoolFields DEF old
      <4> HIDE DEF k
      <4>3. Named(Only(old.ledger, DOMAIN old.ledger \ {k})) \subseteq Named(old.ledger)
        BY <4>2, NamedOnly
      <4>4. Named(Refunded(old, q).ledger) \subseteq Named(old.ledger)
        BY <4>1, <4>3
      <4> QED
        BY <4>1, <4>4 DEF old
    <3>6. o.ver + 1 \in Nat /\ o.ver <= o.ver + 1 /\ o.ver + 1 # o.ver
      BY <3>1
    <3>7. sp.id = fil[f].spools[i].id /\ Named(sp.ledger) \subseteq Named(fil[f].spools[i].ledger) \cup {None}
          /\ i \in DOMAIN fil[f].spools
      BY <3>2, <3>5
    <3> DEFINE v == o.ver + 1
    <3>8. v \in Nat /\ fil[f].ver <= v /\ v # fil[f].ver
      BY <3>6
    <3> DEFINE e == [[fil[f] EXCEPT !.ver = v] EXCEPT !.spools = [fil[f].spools EXCEPT ![i] = sp]]
    <3>9. fil' = [fil EXCEPT ![f] = e] /\ fil[f] # NoFil
      BY <3>1, <3>4
    <3>10. e = [[fil[f] EXCEPT !.ver = v] EXCEPT !.spools = [fil[f].spools EXCEPT ![i] = sp]]
      OBVIOUS
    <3> HIDE DEF sp, i, v, o, f, old, e
    <3>11. /\ [fil EXCEPT ![f] = e] \in FilType /\ Evolves(fil, [fil EXCEPT ![f] = e])
           /\ Tame(fil, [fil EXCEPT ![f] = e], {})
      BY <1>2, <3>5, <3>7, <3>8, <3>9, <3>10, OneSpoolTame
    <3> QED
      BY <3>9, <3>11
  <2> QED
    BY <1>1, <2>1, <2>2
<1>9. NotNewlyClean /\ \A j \in Jobs : hist[j] = NoRow => hist'[j] = NoRow
  BY <1>1 DEF NotNewlyClean
<1>10. CInv'
  <2>1. req[c].kind = "delete" /\ req[c].job = r.job /\ answer'[r.job] \notin {None, "retry"}
        /\ r.kind # "job"
    BY <1>1, <1>2, <1>6
  <2> QED
    BY <1>6, <1>7, <1>8, <1>9, <2>1, OtherMarks
<1> QED
  BY <1>8, <1>10

LEMMA TombstoneMarks ==
    ASSUME TInv, CInv, NEW c \in Clients, Tombstone(c)
    PROVE  CInv'
<1> DEFINE j == req[c].job
<1>1. /\ req[c].kind = "delete" /\ hist' = [hist EXCEPT ![j].live = FALSE]
      /\ req' = [req EXCEPT ![c] = Idle] /\ UNCHANGED <<fil, answer>>
  BY DEF Tombstone, Done, Step
<1>2. /\ j \in Jobs /\ fil \in FilType /\ hist \in [Jobs -> Hist]
  BY <1>1, DeleteTyped DEF TypeOK
<1>3. \A i \in Jobs : hist[i] = NoRow => hist'[i] = NoRow
  <2>1. \A h \in Hist : ~h.live => [h EXCEPT !.live = FALSE] = h
    BY DEF Hist
  <2>2. \A i \in Jobs : hist'[i] = IF i = j THEN [hist[i] EXCEPT !.live = FALSE] ELSE hist[i]
    BY <1>1, <1>2
  <2>3. ~NoRow.live
    BY DEF NoRow
  <2> QED
    BY <1>2, <2>1, <2>2, <2>3
<1>4. fil' \in FilType /\ Evolves(fil, fil') /\ Tame(fil, fil', {}) /\ NotNewlyClean
  BY <1>1, <1>2, EvolvesNot, TameNot DEF NotNewlyClean
<1>5. Idle \in ReqType /\ Idle.kind # "job" /\ Idle.kind # "delete"
  BY IdleFits DEF Idle
<1> QED
  BY <1>1, <1>3, <1>4, <1>5, OtherMarks

\* The requests are let alone.
LEMMA MarkRest ==
    ASSUME TInv, CInv, fil' \in FilType, Evolves(fil, fil'), Tame(fil, fil', {}),
           UNCHANGED <<hist, req, answer>>
    PROVE  CInv'
<1>1. /\ req \in [Clients -> ReqType] /\ fil \in FilType /\ Distincts /\ CleanIsUnmarked
      /\ \A d \in Clients : Fits(req[d], fil) /\ Reads(req[d], fil)
  BY DEF TInv, TypeOK, ReqType, CInv, FilType
<1> DEFINE J == {}
<1>2. Tame(fil, fil', J) /\ \A j \in Jobs : j \in Jobs \ J
  OBVIOUS
<1> HIDE DEF J
<1>3. \A d \in Clients : Reads(req'[d], fil')
  BY <1>1, <1>2, ReadsKept
<1>4. ASSUME NEW j \in Jobs, Clean(j)'
      PROVE  hist'[j] = NoRow /\ \A f \in Fils : fil'[f] # NoFil => Marks(fil'[f], j) = {}
  <2>1. Clean(j)
    BY <1>4 DEF Clean
  <2>2. hist[j] = NoRow /\ \A f \in Fils : fil[f] # NoFil => Marks(fil[f], j) = {}
    BY <1>1, <2>1 DEF CleanIsUnmarked
  <2>3. \A f \in Fils : fil'[f] # NoFil => Marks(fil'[f], j) = {}
    BY <1>2, <2>2, Unmarked
  <2> QED
    BY <2>2, <2>3
<1>5. CleanIsUnmarked'
  BY <1>4 DEF CleanIsUnmarked
<1>6. Distincts'
  BY <1>1, <1>2, DistinctsKept
<1>7. Engaged' /\ NoRecord'
  BY DEF CInv, Engaged, NoRecord, Hidden
<1> QED
  BY <1>3, <1>5, <1>6, <1>7 DEF CInv

LEMMA LogUsageMarks ==
    ASSUME TInv, CInv, NEW f \in Fils, NEW i, LogUsage(f, i)
    PROVE  CInv' /\ Tame(fil, fil', {}) /\ req' = req
<1> DEFINE o == fil[f]
<1> DEFINE old == fil[f].spools[i]
<1> DEFINE sp == Debit(old, None, 1)
<1> DEFINE new == [sp EXCEPT !.ledger = Cap(sp.ledger)]
<1>1. /\ fil[f] # NoFil /\ i \in DOMAIN fil[f].spools
      /\ fil' = [fil EXCEPT ![f].ver = @ + 1, ![f].spools[i] = new]
      /\ UNCHANGED <<hist, holder, replica, req, fails, answer>>
  BY DEF LogUsage
<1>2. fil \in FilType
  BY DEF TInv, TypeOK, FilType
<1>3. o \in Doc /\ o.ver \in Nat /\ old \in Spool /\ o.spools \in Seq(Spool)
  BY <1>1, <1>2, FilDoc
<1> DEFINE x == [job |-> None, grams |-> 1, debited |-> Least(old.weight, 1)]
<1> DEFINE l == Append(old.ledger, x)
<1>4. sp \in Spool /\ sp.id = old.id /\ sp.ledger = l
  <2> HIDE DEF old
  <2>1. None \in Jobs \cup {None} /\ 1 \in Nat
    OBVIOUS
  <2>2. sp \in Spool /\ sp = [id |-> old.id, weight |-> old.weight - Least(old.weight, 1), ledger |-> l]
    BY <1>3, <2>1, DebitType
  <2> HIDE DEF l, sp
  <2> QED
    BY <2>2
<1>5. fil' = [fil EXCEPT ![f] =
                [[o EXCEPT !.ver = o.ver + 1] EXCEPT !.spools = [o.spools EXCEPT ![i] = new]]]
  BY <1>1, <1>2, <1>3 DEF FilType, Doc
<1> HIDE DEF sp
<1> DEFINE c == Cap(sp.ledger)
<1>6. new \in Spool /\ new.id = old.id /\ new.ledger = c /\ sp.ledger \in Seq(Entry)
  <2>1. sp.ledger \in Seq(Entry)
    BY <1>4, SpoolFields
  <2>2. c \in Seq(Entry)
    BY <2>1, CapType
  <2> HIDE DEF c
  <2>3. [sp EXCEPT !.ledger = c] \in Spool /\ [sp EXCEPT !.ledger = c].id = sp.id
        /\ [sp EXCEPT !.ledger = c].ledger = c
    BY <1>4, <2>2 DEF Spool
  <2>4. new = [sp EXCEPT !.ledger = c]
    BY DEF c
  <2> HIDE DEF new
  <2>5. new.id = sp.id /\ new.ledger = c
    BY <2>3, <2>4
  <2> QED
    BY <1>4, <2>1, <2>3, <2>4, <2>5
<1>7. Named(l) \subseteq Named(old.ledger) \cup {None}
  <2>1. old.ledger \in Seq(Entry) /\ x.job = None
    BY <1>3, SpoolFields
  <2> DEFINE h == old.ledger
  <2>2. h \in Seq(Entry)
    BY <2>1
  <2> HIDE DEF h, x
  <2>3. \A k \in DOMAIN Append(h, x) : Append(h, x)[k] = x \/ (k \in DOMAIN h /\ Append(h, x)[k] = h[k])
    BY <2>2
  <2>4. Named(Append(h, x)) \subseteq Named(h) \cup {None}
    BY <2>1, <2>3 DEF Named
  <2> QED
    BY <2>4 DEF h
<1> HIDE DEF l, new
<1>8. Named(new.ledger) \subseteq Named(old.ledger) \cup {None}
  <2>1. Named(c) \subseteq Named(l)
    BY <1>4, <1>6, NamedCap
  <2> QED
    BY <1>6, <1>7, <2>1
<1> DEFINE v == o.ver + 1
<1>9. v \in Nat /\ fil[f].ver <= v /\ v # fil[f].ver
  BY <1>3
<1>10. new \in Spool /\ new.id = fil[f].spools[i].id
       /\ Named(new.ledger) \subseteq Named(fil[f].spools[i].ledger) \cup {None}
  BY <1>6, <1>8
<1> DEFINE e == [[fil[f] EXCEPT !.ver = v] EXCEPT !.spools = [fil[f].spools EXCEPT ![i] = new]]
<1>11. fil' = [fil EXCEPT ![f] = e]
  BY <1>5
<1>12. e = [[fil[f] EXCEPT !.ver = v] EXCEPT !.spools = [fil[f].spools EXCEPT ![i] = new]]
  OBVIOUS
<1> HIDE DEF o, old, v, e
<1>13. /\ [fil EXCEPT ![f] = e] \in FilType /\ Evolves(fil, [fil EXCEPT ![f] = e])
       /\ Tame(fil, [fil EXCEPT ![f] = e], {})
  BY <1>1, <1>2, <1>9, <1>10, <1>12, OneSpoolTame
<1>14. fil' \in FilType /\ Evolves(fil, fil') /\ Tame(fil, fil', {})
  BY <1>11, <1>13
<1> QED
  BY <1>1, <1>14, MarkRest

LEMMA WeighMarks ==
    ASSUME TInv, CInv, NEW f \in Fils, NEW i, Weigh(f, i)
    PROVE  CInv' /\ Tame(fil, fil', {}) /\ req' = req
<1> DEFINE o == fil[f]
<1> DEFINE old == fil[f].spools[i]
<1>1. PICK w \in {0, 1} : fil' = [fil EXCEPT ![f].spools[i].weight = w]
  BY DEF Weigh
<1>2. /\ fil[f] # NoFil /\ i \in DOMAIN fil[f].spools
      /\ UNCHANGED <<hist, holder, replica, req, fails, answer>>
  BY DEF Weigh
<1>3. fil \in FilType
  BY DEF TInv, TypeOK, FilType
<1>4. o \in Doc /\ o.ver \in Nat /\ old \in Spool /\ o.spools \in Seq(Spool)
  BY <1>2, <1>3, FilDoc
<1> DEFINE new == [old EXCEPT !.weight = w]
<1>5. new \in Spool /\ new.id = old.id /\ new.ledger = old.ledger
  <2>1. w \in Nat /\ old \in Spool
    BY <1>4
  <2> HIDE DEF old
  <2> QED
    BY <2>1 DEF Spool
<1>6. fil' = [fil EXCEPT ![f] =
                [[o EXCEPT !.ver = o.ver] EXCEPT !.spools = [o.spools EXCEPT ![i] = new]]]
  <2>1. [o EXCEPT !.ver = o.ver] = o
    BY <1>4 DEF Doc
  <2>2. fil' = [fil EXCEPT ![f] = [o EXCEPT !.spools = [o.spools EXCEPT ![i] = new]]]
    BY <1>1, <1>3, <1>4 DEF FilType, Doc
  <2> QED
    BY <2>1, <2>2
<1> HIDE DEF new
<1> DEFINE v == o.ver
<1>9. v \in Nat /\ fil[f].ver <= v
  BY <1>4
<1>10. new \in Spool /\ new.id = fil[f].spools[i].id
       /\ Named(new.ledger) \subseteq Named(fil[f].spools[i].ledger) \cup {None}
       /\ Named(fil[f].spools[i].ledger) \subseteq Named(new.ledger)
  BY <1>5
<1> DEFINE e == [[fil[f] EXCEPT !.ver = v] EXCEPT !.spools = [fil[f].spools EXCEPT ![i] = new]]
<1>11. fil' = [fil EXCEPT ![f] = e]
  BY <1>6
<1>12. e = [[fil[f] EXCEPT !.ver = v] EXCEPT !.spools = [fil[f].spools EXCEPT ![i] = new]]
  OBVIOUS
<1> HIDE DEF o, old, v, e
<1>13. /\ [fil EXCEPT ![f] = e] \in FilType /\ Evolves(fil, [fil EXCEPT ![f] = e])
       /\ Tame(fil, [fil EXCEPT ![f] = e], {})
  BY <1>2, <1>3, <1>9, <1>10, <1>12, OneSpoolTame
<1>14. fil' \in FilType /\ Evolves(fil, fil') /\ Tame(fil, fil', {})
  BY <1>11, <1>13
<1> QED
  BY <1>2, <1>14, MarkRest

LEMMA CrashMarks ==
    ASSUME TInv, CInv, Crash
    PROVE  CInv' /\ \A c \in Clients : req'[c] = Idle
<1>1. /\ \A d \in Clients : req'[d] = Idle
      /\ UNCHANGED <<fil, hist, answer>>
  BY DEF Crash
<1>2. Idle.kind = "idle"
  BY DEF Idle
<1>3. ASSUME NEW j \in Jobs, Clean(j)' PROVE Clean(j)
  BY <1>1, <1>2, <1>3 DEF Clean
<1>4. CleanIsUnmarked'
  BY <1>1, <1>3 DEF CleanIsUnmarked, CInv
<1>5. Distincts'
  BY <1>1 DEF Distincts, CInv
<1>6. Engaged' /\ NoRecord' /\ \A d \in Clients : Reads(req'[d], fil')
  BY <1>1, <1>2 DEF Engaged, NoRecord, Retrying, Reads
<1> QED
  BY <1>1, <1>4, <1>5, <1>6 DEF CInv

LEMMA PromoteMarks ==
    ASSUME TInv, CInv, NEW c \in Clients, NEW f \in Fils, Promote(c, f)
    PROVE  /\ CInv' /\ Tame(fil, fil', {}) /\ req[c] = Idle
           /\ \E r : /\ req' = [req EXCEPT ![c] = r] /\ r.kind = "promote" /\ r.from = f
                     /\ r.to \in Fils /\ fil[f] # NoFil /\ fil[f].parent = None
                     /\ fil'[r.to] # NoFil /\ fil'[r.to].parent = f
                     /\ \A g \in Fils : fil[g] = NoFil /\ fil'[g] # NoFil =>
                           g = r.to /\ fil'[g].spools = fil[f].spools
<1> DEFINE copy == [fil[f] EXCEPT !.ver = 0, !.parent = f]
<1> DEFINE moved == {fil[f].spools[i].id : i \in DOMAIN fil[f].spools}
<1>1. PICK v \in Fils :
      /\ \/ fil[v] # NoFil /\ fil[v].parent = f /\ UNCHANGED fil
         \/ fil[v] = NoFil /\ fil' = [fil EXCEPT ![v] = copy]
      /\ req' = [req EXCEPT ![c] =
                   [kind |-> "promote", pc |-> "remap", from |-> f, to |-> v, moved |-> moved]]
  BY DEF Promote, Step
<1>2. /\ req[c] = Idle /\ fil[f] # NoFil /\ fil[f].parent = None
      /\ UNCHANGED <<hist, replica, logs, fails, base, answer>>
  BY DEF Promote
<1> DEFINE r == [kind |-> "promote", pc |-> "remap", from |-> f, to |-> v, moved |-> moved]
<1>3. fil \in FilType /\ req \in [Clients -> ReqType]
  BY DEF TInv, TypeOK, FilType, ReqType
<1>4. fil[f] \in Doc
  BY <1>2, <1>3, FilDoc
<1>6. copy \in Doc /\ copy.spools = fil[f].spools /\ copy.parent = f
  <2> DEFINE o == fil[f]
  <2> HIDE DEF o
  <2>1. o \in Doc
    BY <1>4 DEF o
  <2> DEFINE u == [o EXCEPT !.ver = 0]
  <2>2. u \in Doc /\ u.spools = o.spools
    BY <2>1 DEF Doc
  <2> HIDE DEF u
  <2>3. /\ [u EXCEPT !.parent = f] \in Doc /\ [u EXCEPT !.parent = f].spools = u.spools
        /\ [u EXCEPT !.parent = f].parent = f
    BY <2>2 DEF Doc
  <2>4. copy = [u EXCEPT !.parent = f]
    BY DEF u, o
  <2> QED
    BY <2>2, <2>3, <2>4 DEF o
<1>7. r.kind = "promote" /\ r.from = f /\ r.to = v /\ req' = [req EXCEPT ![c] = r]
  BY <1>1
<1>71. r \in ReqType
  <2>1. TInv'
    BY PromoteTyped
  <2>2. req'[c] = r
    BY <1>3, <1>7
  <2> HIDE DEF r
  <2> QED
    BY <2>1, <2>2 DEF TInv, TypeOK, ReqType
<1> HIDE DEF copy, r
<1>72. copy # NoFil
  BY <1>6, DocIsNotNoFil
<1>8. /\ fil' \in FilType /\ Evolves(fil, fil') /\ Tame(fil, fil', {})
      /\ fil'[v] # NoFil /\ fil'[v].parent = f
      /\ \A g \in Fils : fil[g] = NoFil /\ fil'[g] # NoFil =>
            g = v /\ fil'[g].spools = fil[f].spools
  <2>1. CASE fil[v] # NoFil /\ fil[v].parent = f /\ UNCHANGED fil
    <3>1. fil' \in FilType /\ Evolves(fil, fil') /\ Tame(fil, fil', {})
      BY <1>3, <2>1, EvolvesNot, TameNot
    <3> QED
      BY <2>1, <3>1
  <2>2. CASE fil[v] = NoFil /\ fil' = [fil EXCEPT ![v] = copy]
    <3> DEFINE G == [fil EXCEPT ![v] = copy]
    <3>0. G[v] = copy /\ \A g \in Fils : g # v => G[g] = fil[g]
      BY <1>3 DEF FilType
    <3>1. G \in FilType
      BY <1>3, <1>6 DEF FilType
    <3> HIDE DEF G
    <3>2. ASSUME NEW g \in Fils, fil[g] # NoFil
          PROVE  G[g] = fil[g] /\ fil[g].ver \in Nat
      BY <1>3, <2>2, <3>0, <3>2, FilDoc
    <3>3. Evolves(fil, G)
      BY <3>2 DEF Evolves, SameSpools
    <3>4. \A g \in Fils : fil[g] = NoFil /\ G[g] # NoFil => g = v
      BY <3>0
    <3>5. Tame(fil, G, {})
      BY <1>2, <1>6, <3>0, <3>2, <3>4 DEF Tame, TameFil
    <3>6. fil' = G
      BY <2>2 DEF G
    <3> QED
      BY <1>6, <1>72, <3>0, <3>1, <3>3, <3>4, <3>5, <3>6
  <2> QED
    BY <1>1, <2>1, <2>2
<1>9. CInv'
  <2>1. r.kind # "job" /\ r.kind # "delete" /\ NotNewlyClean
        /\ \A j \in Jobs : hist[j] = NoRow => hist'[j] = NoRow
    BY <1>2, <1>7 DEF NotNewlyClean
  <2> QED
    BY <1>7, <1>71, <1>8, <2>1, OtherMarks
<1>10. v \in Fils
  OBVIOUS
<1> QED
  BY <1>2, <1>7, <1>8, <1>9, <1>10

LEMMA RemapMarks ==
    ASSUME TInv, CInv, NEW c \in Clients, Remap(c)
    PROVE  /\ CInv' /\ fil' = fil /\ req[c].kind = "promote"
           /\ \E r : /\ req' = [req EXCEPT ![c] = r] /\ r.kind = "promote"
                     /\ r.from = req[c].from /\ r.to = req[c].to
<1> DEFINE q == req[c]
<1> DEFINE r == [q EXCEPT !.pc = "complete"]
<1>1. /\ q.kind = "promote" /\ q.pc = "remap" /\ req' = [req EXCEPT ![c] = r]
      /\ UNCHANGED <<fil, holder, replica, logs, fails, base, answer>>
  BY DEF Remap, Step
<1>2. q \in PromoteReq /\ fil \in FilType /\ TypeOK /\ hist \in [Jobs -> Hist]
  BY <1>1, PromotingTyped
<1>3. \A j \in Jobs : hist[j] = NoRow => hist'[j] = NoRow
  <2> SUFFICES ASSUME NEW j \in Jobs, hist[j] = NoRow PROVE hist'[j] = NoRow
    OBVIOUS
  <2>1. hist' \in [Jobs -> Hist] /\ hist'[j].live = hist[j].live
        /\ Len(hist'[j].rows) = Len(hist[j].rows)
    BY <1>2, RemapRows
  <2>2. hist[j].live = FALSE /\ Len(hist[j].rows) = 0
    BY DEF NoRow
  <2> DEFINE h == hist'[j]
  <2>3. h \in Hist /\ h.live = FALSE /\ Len(h.rows) = 0
    BY <2>1, <2>2
  <2> HIDE DEF h
  <2>4. h.rows \in Seq(Row) /\ h = [rows |-> h.rows, live |-> h.live]
    BY <2>3 DEF Hist
  <2>5. h.rows = <<>>
    BY <2>3, <2>4
  <2>6. h = NoRow
    BY <2>3, <2>4, <2>5 DEF NoRow
  <2> QED
    BY <2>6 DEF h
<1>4. r \in ReqType /\ r.kind = "promote" /\ r.from = q.from /\ r.to = q.to
  BY <1>2 DEF ReqType, PromoteReq
<1> HIDE DEF r, q
<1>5. fil' \in FilType /\ Evolves(fil, fil') /\ Tame(fil, fil', {}) /\ NotNewlyClean
  BY <1>1, <1>2, EvolvesNot, TameNot DEF NotNewlyClean
<1>6. CInv'
  BY <1>1, <1>3, <1>4, <1>5, OtherMarks
<1> QED
  BY <1>1, <1>4, <1>6 DEF q

LEMMA CompleteMarks ==
    ASSUME TInv, CInv, NEW c \in Clients, Complete(c)
    PROVE  /\ CInv' /\ Tame(fil, fil', {}) /\ req[c].kind = "promote"
           /\ req' = [req EXCEPT ![c] = Idle]
           /\ fil'[req[c].from].spools = <<>> /\ fil'[req[c].from] # NoFil
           /\ \A g \in Fils : fil[g] = NoFil => fil'[g] = NoFil
<1> DEFINE f == req[c].from
<1>1. /\ req[c].kind = "promote" /\ fil' = [fil EXCEPT ![f] = Cleared(fil[f])]
      /\ req' = [req EXCEPT ![c] = Idle]
      /\ UNCHANGED <<hist, replica, logs, fails, base, answer>>
  BY DEF Complete, Done, Step
<1>2. f \in Fils /\ fil[f] # NoFil /\ fil \in FilType
  BY <1>1, PromotingTyped
<1> HIDE DEF f
<1> DEFINE e == Cleared(fil[f])
<1>3. /\ e \in Doc /\ fil[f].ver \in Nat /\ e.ver = fil[f].ver + 1 /\ e.spools = <<>>
      /\ e.parent = fil[f].parent
  BY <1>2, FilDoc, ClearedType
<1> HIDE DEF e
<1>4. fil[f].ver <= e.ver /\ fil[f].ver # e.ver
  BY <1>3
<1>5. fil' = [fil EXCEPT ![f] = e]
  BY <1>1 DEF e
<1>6. fil' \in FilType /\ Evolves(fil, fil')
  BY <1>2, <1>3, <1>4, <1>5, EvolvesOne
<1>7. TameFil(fil[f], e, {})
  BY <1>3, <1>4 DEF TameFil, Distinct, Marks
<1>8. Tame(fil, fil', {})
  BY <1>2, <1>3, <1>5, <1>7, TameOne
<1>9. Idle \in ReqType /\ Idle.kind # "job" /\ Idle.kind # "delete"
  BY IdleFits DEF Idle
<1>10. NotNewlyClean /\ \A j \in Jobs : hist[j] = NoRow => hist'[j] = NoRow
  BY <1>1 DEF NotNewlyClean
<1>11. CInv'
  BY <1>1, <1>6, <1>8, <1>9, <1>10, OtherMarks
<1>12. fil'[f] = e /\ e # NoFil /\ \A g \in Fils : g # f => fil'[g] = fil[g]
  BY <1>2, <1>3, <1>5, DocIsNotNoFil DEF FilType
<1> QED
  BY <1>1, <1>2, <1>3, <1>8, <1>11, <1>12 DEF f

-----------------------------------------------------------------------------
(* A job that may still be told to retry: what it left, and where.         *)

MayRetry(r) ==
    r.kind = "job" /\ (r.pc = "save" \/ (r.pc = "undo" /\ r.undo = "retry" /\ ~r.unsafe))

\* The filaments it saved and has not yet been taken back from.
Left(r) == IF r.pc = "save" THEN r.saved ELSE r.saved \cap r.todo

\* The compensation will notice: an entry is gone from where it was saved.
Lost(r, F) == \E f \in Left(r) : ~(SpoolsOf(r.rows, f) \subseteq Marks(F[f], r.job))

\* A promotion that is under way copied what the job had saved, and will clear it.
Copied(r, Q, g, s) ==
    \E d \in Clients : /\ Q[d].kind = "promote" /\ Q[d].to = g /\ Q[d].from \in Left(r)
                       /\ s \in SpoolsOf(r.rows, Q[d].from)

Explained(r, F, Q, g, s) ==
    (g \in Left(r) /\ s \in SpoolsOf(r.rows, g)) \/ Lost(r, F) \/ Copied(r, Q, g, s)

Tidy(r) ==
    /\ r.saved \subseteq FilsOf(r.usage)
    /\ r.pc \in Reading => r.saved = {}
    /\ r.pc = "save" => r.saved \cap r.todo = {}
Traced(r, F, Q) ==
    r.kind = "job" =>
        /\ Tidy(r)
        /\ MayRetry(r) => \A g \in Fils : F[g] # NoFil =>
              \A s \in Marks(F[g], r.job) : Explained(r, F, Q, g, s)
Promoting(r, F) == r.kind = "promote" => F[r.to] # NoFil /\ F[r.to].parent = r.from

RInv == \A c \in Clients : Traced(req[c], fil, req) /\ Promoting(req[c], fil)

\* Filaments come by promotion, and promotions go by clearing what they copied.
Announced(F, G, Q) ==
    \A g \in Fils : F[g] = NoFil /\ G[g] # NoFil =>
        \E d \in Clients : /\ Q[d].kind = "promote" /\ Q[d].to = g /\ Q[d].from \in Fils
                           /\ F[Q[d].from] # NoFil /\ F[Q[d].from].parent = None
                           /\ G[g].spools = F[Q[d].from].spools
Goes(q, r, G) ==
    q.kind = "promote" => \/ r.kind = "promote" /\ r.from = q.from /\ r.to = q.to
                          \/ G[q.from].spools = <<>>

LEMMA TraceKept ==
    ASSUME NEW J, Tame(fil, fil', J), NEW r, Traced(r, fil, req),
           r.kind = "job" => /\ r.job \in Jobs \ J
                             /\ \A f \in FilsOf(r.usage) : f \in Fils /\ fil[f] # NoFil,
           \A d \in Clients : Promoting(req[d], fil) /\ Goes(req[d], req'[d], fil'),
           Announced(fil, fil', req')
    PROVE  Traced(r, fil', req')
<1> SUFFICES ASSUME r.kind = "job", MayRetry(r), NEW g \in Fils, fil'[g] # NoFil,
                    NEW s \in Marks(fil'[g], r.job)
             PROVE  Explained(r, fil', req', g, s)
  BY DEF Traced
<1>1. /\ \A f \in Left(r) : f \in Fils /\ fil[f] # NoFil
      /\ \A h \in Fils : fil[h] # NoFil =>
            \A t \in Marks(fil[h], r.job) : Explained(r, fil, req, h, t)
  BY DEF Traced, Tidy, Left
<1>2. Lost(r, fil) => Lost(r, fil')
  <2> SUFFICES ASSUME NEW f \in Left(r), ~(SpoolsOf(r.rows, f) \subseteq Marks(fil[f], r.job))
               PROVE  Lost(r, fil')
    BY DEF Lost
  <2>1. Marks(fil'[f], r.job) \subseteq Marks(fil[f], r.job)
    BY <1>1 DEF Tame, TameFil
  <2> QED
    BY <2>1 DEF Lost
<1>3. ASSUME NEW h, NEW t, Copied(r, req, h, t)
      PROVE  Copied(r, req', h, t) \/ Lost(r, fil')
  <2>1. PICK d \in Clients : /\ req[d].kind = "promote" /\ req[d].to = h /\ req[d].from \in Left(r)
                             /\ t \in SpoolsOf(r.rows, req[d].from)
    BY <1>3 DEF Copied
  <2>2. CASE req'[d].kind = "promote" /\ req'[d].from = req[d].from /\ req'[d].to = req[d].to
    BY <2>1, <2>2 DEF Copied
  <2>3. CASE fil'[req[d].from].spools = <<>>
    <3>1. Marks(fil'[req[d].from], r.job) = {}
      BY <2>3 DEF Marks
    <3> QED
      BY <2>1, <3>1 DEF Lost
  <2> QED
    BY <2>1, <2>2, <2>3 DEF Goes
<1>4. CASE fil[g] # NoFil
  <2>1. s \in Marks(fil[g], r.job)
    BY <1>4 DEF Tame, TameFil
  <2>2. Explained(r, fil, req, g, s)
    BY <1>1, <1>4, <2>1
  <2> QED
    BY <2>2, <1>2, <1>3 DEF Explained
<1>5. CASE fil[g] = NoFil
  <2>1. PICK d \in Clients :
           /\ req'[d].kind = "promote" /\ req'[d].to = g /\ req'[d].from \in Fils
           /\ fil[req'[d].from] # NoFil /\ fil[req'[d].from].parent = None
           /\ fil'[g].spools = fil[req'[d].from].spools
    BY <1>5 DEF Announced
  <2> DEFINE h == req'[d].from
  <2>2. s \in Marks(fil[h], r.job)
    BY <2>1 DEF Marks
  <2>3. Explained(r, fil, req, h, s)
    BY <1>1, <2>1, <2>2
  <2>4. ~Copied(r, req, h, s)
    <3> SUFFICES ASSUME NEW e \in Clients, req[e].kind = "promote", req[e].to = h,
                        req[e].from \in Left(r)
                 PROVE  FALSE
      BY DEF Copied
    <3>1. fil[h].parent = req[e].from
      BY DEF Promoting
    <3>2. req[e].from \in Fils
      BY <1>1
    <3> QED
      BY <2>1, <3>1, <3>2, PrintJobsAssumption
  <2>5. h \in Left(r) /\ s \in SpoolsOf(r.rows, h) => Copied(r, req', g, s)
    BY <2>1 DEF Copied
  <2> QED
    BY <2>3, <2>4, <2>5, <1>2 DEF Explained
<1> QED
  BY <1>4, <1>5

LEMMA PromotingKept ==
    ASSUME NEW J, Tame(fil, fil', J), NEW r, Promoting(r, fil), r.kind = "promote" => r.to \in Fils
    PROVE  Promoting(r, fil')
BY DEF Promoting, Tame, TameFil

\* What TraceKept asks of a request that is under way.
LEMMA TraceTyped ==
    ASSUME TInv, NEW c \in Clients
    PROVE  /\ req[c].kind = "job" => /\ req[c].job \in Jobs /\ req[c] \in JobReq
                                     /\ \A f \in FilsOf(req[c].usage) : f \in Fils /\ fil[f] # NoFil
           /\ req[c].kind = "promote" => req[c].to \in Fils
<1>1. ASSUME req[c].kind = "job"
      PROVE  req[c].job \in Jobs /\ req[c] \in JobReq
             /\ \A f \in FilsOf(req[c].usage) : f \in Fils /\ fil[f] # NoFil
  BY <1>1, JobTyped DEF FitsFil
<1> QED
  BY <1>1, PromotingTyped

\* One request takes a step.
LEMMA TraceStep ==
    ASSUME TInv, RInv, NEW J, Tame(fil, fil', J), NEW c \in Clients,
           J = {} \/ (req[c].kind = "job" /\ J = {req[c].job}),
           NEW r, req' = [req EXCEPT ![c] = r], Announced(fil, fil', req'), Goes(req[c], r, fil'),
           Traced(r, fil', req'), Promoting(r, fil')
    PROVE  RInv'
<1>1. req'[c] = r /\ \A d \in Clients : d # c => req'[d] = req[d]
  BY DEF TInv, TypeOK
<1>2. \A d \in Clients : Promoting(req[d], fil) /\ Goes(req[d], req'[d], fil')
  BY <1>1 DEF RInv, Goes
<1>3. ASSUME NEW d \in Clients, d # c
      PROVE  Traced(req[d], fil', req') /\ Promoting(req[d], fil')
  <2>1. Traced(req[d], fil, req) /\ Promoting(req[d], fil)
    BY DEF RInv
  <2>2. req[d].kind = "job" => req[d].job \in Jobs \ J
    BY <1>3, TraceTyped DEF TInv, Booked, OneRequest
  <2>3. Promoting(req[d], fil')
    BY <2>1, TraceTyped, PromotingKept
  <2>4. req[d].kind = "job" => /\ req[d].job \in Jobs \ J
                               /\ \A f \in FilsOf(req[d].usage) : f \in Fils /\ fil[f] # NoFil
    BY <2>2, TraceTyped
  <2> QED
    BY <1>2, <2>1, <2>3, <2>4, TraceKept
<1>4. \A d \in Clients : Traced(req'[d], fil', req') /\ Promoting(req'[d], fil')
  BY <1>1, <1>3
<1> QED
  BY <1>4 DEF RInv

\* The requests are let alone.
LEMMA TraceRest ==
    ASSUME TInv, RInv, Tame(fil, fil', {}), req' = req, Announced(fil, fil', req)
    PROVE  RInv'
<1> DEFINE J == {}
<1>0. Tame(fil, fil', J) /\ \A j \in Jobs : j \in Jobs \ J
  OBVIOUS
<1> HIDE DEF J
<1>1. \A d \in Clients : Promoting(req[d], fil) /\ Goes(req[d], req'[d], fil')
  BY DEF RInv, Goes
<1>2. ASSUME NEW d \in Clients
      PROVE  Traced(req[d], fil', req') /\ Promoting(req[d], fil')
  <2>1. Traced(req[d], fil, req) /\ Promoting(req[d], fil)
    BY DEF RInv
  <2>2. Promoting(req[d], fil')
    BY <1>0, <2>1, TraceTyped, PromotingKept
  <2>3. req[d].kind = "job" => /\ req[d].job \in Jobs \ J
                               /\ \A f \in FilsOf(req[d].usage) : f \in Fils /\ fil[f] # NoFil
    BY <1>0, TraceTyped
  <2> QED
    BY <1>0, <1>1, <2>1, <2>2, <2>3, TraceKept
<1>3. \A d \in Clients : Traced(req'[d], fil', req') /\ Promoting(req'[d], fil')
  BY <1>2
<1> QED
  BY <1>3 DEF RInv

\* A write to a filament that is there adds none.
Steady(F, G) == \A g \in Fils : F[g] = NoFil => G[g] = NoFil

LEMMA SteadyOne ==
    ASSUME fil \in FilType, NEW f \in Fils, fil[f] # NoFil, NEW e,
           fil' = fil \/ fil' = [fil EXCEPT ![f] = e]
    PROVE  Steady(fil, fil')
BY DEF Steady, FilType

LEMMA SteadyAnnounces ==
    ASSUME NEW F, NEW G, Steady(F, G), NEW Q
    PROVE  Announced(F, G, Q)
BY DEF Steady, Announced

LEMMA JobSteady ==
    ASSUME TInv, NEW c \in Clients, req[c].kind = "job", NEW f \in req[c].todo, NEW e,
           fil' = fil \/ fil' = [fil EXCEPT ![f] = e]
    PROVE  Steady(fil, fil')
<1>1. f \in Fils /\ fil[f] # NoFil /\ fil \in FilType
  BY JobTyped DEF FitsFil
<1> QED
  BY <1>1, SteadyOne

\* Who has nothing to be told to retry for.
LEMMA QuietTrace ==
    ASSUME TInv, RInv, NEW J, Tame(fil, fil', J), NEW c \in Clients,
           J = {} \/ (req[c].kind = "job" /\ J = {req[c].job}), Steady(fil, fil'),
           NEW r, req' = [req EXCEPT ![c] = r], req[c].kind # "promote", r.kind # "promote",
           ~MayRetry(r), r.kind = "job" => Tidy(r)
    PROVE  RInv'
<1>1. Traced(r, fil', req') /\ Promoting(r, fil') /\ Goes(req[c], r, fil')
  BY DEF Traced, Promoting, Goes
<1>2. Announced(fil, fil', req')
  BY SteadyAnnounces
<1> QED
  BY <1>1, <1>2, TraceStep

LEMMA EndTrace ==
    ASSUME TInv, RInv, NEW J, Tame(fil, fil', J), NEW c \in Clients,
           J = {} \/ (req[c].kind = "job" /\ J = {req[c].job}), Steady(fil, fil'),
           req[c].kind # "promote", req' = [req EXCEPT ![c] = Idle]
    PROVE  RInv'
<1>1. Idle.kind = "idle" /\ ~MayRetry(Idle)
  BY DEF Idle, MayRetry
<1> QED
  BY <1>1, QuietTrace

LEMMA EndsQuietly ==
    ASSUME TInv, RInv, NEW c \in Clients, fil' = fil, req[c].kind # "promote",
           req' = [req EXCEPT ![c] = Idle]
    PROVE  RInv'
<1> DEFINE J == {}
<1>1. Tame(fil, fil', J) /\ Steady(fil, fil') /\ J = {}
  BY TameNot DEF Steady
<1> HIDE DEF J
<1> QED
  BY <1>1, EndTrace

LEMMA GoesQuietly ==
    ASSUME TInv, RInv, NEW c \in Clients, Tame(fil, fil', {}), Steady(fil, fil'),
           NEW r, req' = [req EXCEPT ![c] = r], req[c].kind # "promote", r.kind # "promote",
           ~MayRetry(r), r.kind = "job" => Tidy(r)
    PROVE  RInv'
<1> DEFINE J == {}
<1>1. Tame(fil, fil', J) /\ J = {}
  OBVIOUS
<1> HIDE DEF J
<1> QED
  BY <1>1, QuietTrace

LEMMA NotSaved ==
    ASSUME TInv, RInv, NEW c \in Clients, req[c].kind = "job"
    PROVE  /\ req[c] \in JobReq /\ Tidy(req[c])
           /\ req[c].pc \in Reading => req[c].saved = {}
BY JobTyped DEF RInv, Traced, Tidy

LEMMA ReadingTrace ==
    ASSUME TInv, RInv, NEW c \in Clients, NEW f \in Fils,
           (\E j \in Jobs, u \in Usages : PostJob(c, j, u)) \/ CheckLegacy(c, f) \/ Checked(c)
    PROVE  RInv'
<1>1. fil' = fil /\ Tame(fil, fil', {}) /\ Steady(fil, fil')
  BY TameNot DEF PostJob, CheckLegacy, Checked, Steady
<1>2. ASSUME NEW j \in Jobs, NEW u \in Usages, PostJob(c, j, u) PROVE RInv'
  <2> DEFINE pc == IF Cardinality(FilsOf(u)) > 1 THEN "check" ELSE "migrate"
  <2> DEFINE docs == [g \in Fils |-> IF g \in FilsOf(u) THEN fil[g] ELSE NoFil]
  <2> DEFINE r == [kind |-> "job", pc |-> pc, job |-> j, usage |-> u, docs |-> docs,
                   todo |-> FilsOf(u), saved |-> {}, rows |-> <<>>, undo |-> None, unsafe |-> FALSE]
  <2>1. req[c] = Idle /\ req' = [req EXCEPT ![c] = r]
    BY <1>2 DEF PostJob, Step
  <2>2. Idle.kind = "idle" /\ pc \in Reading
    BY DEF Idle, Reading
  <2>3. r.kind = "job" /\ r.pc = pc /\ r.saved = {}
    OBVIOUS
  <2> HIDE DEF r, pc
  <2>4. Tidy(r) /\ ~MayRetry(r)
    BY <2>2, <2>3 DEF Tidy, MayRetry, Reading
  <2> QED
    BY <1>1, <2>1, <2>2, <2>3, <2>4, GoesQuietly
<1>3. CASE CheckLegacy(c, f)
  <2> DEFINE r == [req[c] EXCEPT !.todo = @ \ {f}]
  <2>1. /\ req[c].kind = "job" /\ req[c].pc = "check"
        /\ req' = [req EXCEPT ![c] = Idle] \/ req' = [req EXCEPT ![c] = r]
    BY <1>3 DEF CheckLegacy, Done, Step
  <2>2. req[c].saved = {} /\ req[c] \in JobReq
    BY <2>1, NotSaved DEF Reading
  <2>3. r.kind = "job" /\ r.pc = "check" /\ r.saved = {}
    BY <2>1, <2>2 DEF JobReq
  <2> HIDE DEF r
  <2>4. Tidy(r) /\ ~MayRetry(r)
    BY <2>3 DEF Tidy, MayRetry
  <2>5. CASE req' = [req EXCEPT ![c] = Idle]
    BY <1>1, <2>1, <2>5, EndsQuietly
  <2>6. CASE req' = [req EXCEPT ![c] = r]
    BY <1>1, <2>1, <2>3, <2>4, <2>6, GoesQuietly
  <2> QED
    BY <2>1, <2>5, <2>6
<1>4. CASE Checked(c)
  <2> DEFINE r == [req[c] EXCEPT !.pc = "migrate", !.todo = FilsOf(req[c].usage)]
  <2>1. /\ req[c].kind = "job" /\ req[c].pc = "check" /\ req' = [req EXCEPT ![c] = r]
    BY <1>4 DEF Checked, Step
  <2>2. req[c].saved = {} /\ req[c] \in JobReq
    BY <2>1, NotSaved DEF Reading
  <2>3. r.kind = "job" /\ r.pc = "migrate" /\ r.saved = {}
    BY <2>1, <2>2 DEF JobReq
  <2> HIDE DEF r
  <2>4. Tidy(r) /\ ~MayRetry(r)
    BY <2>3 DEF Tidy, MayRetry
  <2> QED
    BY <1>1, <2>1, <2>3, <2>4, GoesQuietly
<1> QED
  BY <1>2, <1>3, <1>4

LEMMA MigrateTrace ==
    ASSUME TInv, CInv, RInv, NEW c \in Clients, NEW f \in Fils, Migrate(c, f)
    PROVE  RInv'
<1> DEFINE q == req[c]
<1>1. /\ q.kind = "job" /\ q.pc = "migrate" /\ f \in q.todo
      /\ \/ Done(c) /\ UNCHANGED fil
         \/ \E d \in Doc : Rereads(c, f, d)
  BY MigrateEffect
<1>2. Tame(fil, fil', {})
  BY MigrateMarks
<1>3. q \in JobReq /\ q.saved = {}
  BY <1>1, NotSaved DEF Reading
<1>4. CASE Done(c) /\ UNCHANGED fil
  BY <1>1, <1>4, EndsQuietly DEF Done, Step
<1>5. ASSUME NEW d \in Doc, Rereads(c, f, d) PROVE RInv'
  <2> DEFINE r == [q EXCEPT !.docs[f] = d, !.todo = @ \ {f}]
  <2>1. req' = [req EXCEPT ![c] = r] /\ (fil' = fil \/ fil' = [fil EXCEPT ![f] = d])
    BY <1>5 DEF Rereads
  <2>2. Steady(fil, fil')
    BY <1>1, <2>1, JobSteady
  <2>3. r.kind = "job" /\ r.pc = "migrate" /\ r.saved = {}
    BY <1>1, <1>3 DEF JobReq
  <2> HIDE DEF r
  <2>4. Tidy(r) /\ ~MayRetry(r)
    BY <2>3 DEF Tidy, MayRetry
  <2>5. req[c].kind # "promote" /\ r.kind # "promote"
    BY <1>1, <2>3
  <2> HIDE DEF q
  <2> QED
    BY <1>2, <2>1, <2>2, <2>4, <2>5, GoesQuietly
<1> QED
  BY <1>1, <1>4, <1>5

LEMMA TransactTrace ==
    ASSUME TInv, CInv, RInv, NEW c \in Clients, Transact(c)
    PROVE  RInv'
<1> DEFINE q == req[c]
<1> DEFINE done == Applied(q.job, q.usage, fil)
<1> DEFINE new(f) == [CapDoc(done.docs[f], SpoolsOf(done.rows, f)) EXCEPT !.ver = @ + 1]
<1>1. /\ q.kind = "job" /\ req' = [req EXCEPT ![c] = Idle]
      /\ \/ fil' = [f \in Fils |-> IF SpoolsOf(done.rows, f) = {} THEN fil[f] ELSE new(f)]
         \/ UNCHANGED fil
  BY DEF Transact, Done, Step
<1>2. /\ q \in JobReq /\ fil \in FilType /\ q.usage \in Usages /\ q.job \in Jobs
      /\ \A f \in FilsOf(q.usage) : FitsFil(q, fil, f)
  BY <1>1, JobTyped
<1>3. Tame(fil, fil', {req[c].job})
  BY TransactMarks
<1>4. \A f : SpoolsOf(done.rows, f) # {} => f \in FilsOf(q.usage)
  <2>1. /\ q.usage \in Seq(Usage) /\ Debitable(q.usage, fil)
    BY <1>2, FilsOfIn DEF Debitable, FilType, FitsFil
  <2> HIDE DEF q
  <2>2. Len(done.rows) = Len(q.usage) /\ Charging(q.usage, fil, q.job, done)
    BY <1>2, <2>1, AppliedCharges
  <2> HIDE DEF done
  <2>3. /\ done \in Accs /\ done.rows \in Seq(Row)
        /\ \A k \in DOMAIN done.rows : done.rows[k].fil = q.usage[k].fil
    BY <2>2 DEF Charging, Accounts, Accs
  <2> QED
    BY <1>2, <2>2, <2>3, RowsOf
<1> HIDE DEF new, done
<1>5. Steady(fil, fil')
  <2> SUFFICES ASSUME NEW f \in Fils, fil[f] = NoFil PROVE fil'[f] = NoFil
    BY DEF Steady
  <2>1. SpoolsOf(done.rows, f) = {}
    BY <1>2, <1>4 DEF FitsFil
  <2> QED
    BY <1>1, <2>1
<1> DEFINE J == {req[c].job}
<1>6. Tame(fil, fil', J) /\ J = {req[c].job} /\ req[c].kind = "job" /\ req[c].kind # "promote"
  BY <1>1, <1>3
<1> HIDE DEF J
<1> QED
  BY <1>1, <1>5, <1>6, EndTrace

LEMMA ApplyTrace ==
    ASSUME TInv, CInv, RInv, NEW c \in Clients, Apply(c)
    PROVE  RInv'
<1> DEFINE q == req[c]
<1> DEFINE done == Applied(q.job, q.usage, q.docs)
<1> DEFINE r == [q EXCEPT !.pc = "save", !.docs = done.docs, !.rows = done.rows,
                          !.todo = FilsOf(q.usage)]
<1>1. /\ q.kind = "job" /\ q.pc = "migrate" /\ fil' = fil
      /\ \/ req' = [req EXCEPT ![c] = Idle]
         \/ req' = [req EXCEPT ![c] = r]
  BY DEF Apply, Done, Step
<1>2. q \in JobReq /\ q.saved = {} /\ q.job \in Jobs
  BY <1>1, NotSaved, JobTyped DEF Reading
<1>3. CASE req' = [req EXCEPT ![c] = Idle]
  BY <1>1, <1>3, EndsQuietly
<1>4. CASE req' = [req EXCEPT ![c] = r]
  <2>1. r.kind = "job" /\ r.pc = "save" /\ r.saved = {} /\ r.job = q.job
    BY <1>2 DEF JobReq
  <2>2. Clean(q.job)
    BY <1>1 DEF Clean, Reading
  <2>3. \A f \in Fils : fil[f] # NoFil => Marks(fil[f], q.job) = {}
    BY <1>2, <2>2 DEF CInv, CleanIsUnmarked
  <2> HIDE DEF r
  <2>4. Traced(r, fil', req') /\ Promoting(r, fil') /\ Goes(q, r, fil')
    BY <1>1, <2>1, <2>3 DEF Traced, Tidy, Reading, Promoting, Goes
  <2> DEFINE J == {}
  <2>5. Tame(fil, fil', J) /\ J = {} /\ Announced(fil, fil', req')
    BY <1>1, TameNot DEF Announced
  <2> HIDE DEF J
  <2> QED
    BY <1>4, <2>4, <2>5, TraceStep
<1> QED
  BY <1>1, <1>3, <1>4

\* No promotion copies a filament the job holds the key of.
LEMMA NotPromoted ==
    ASSUME TInv, HInv, NEW c \in Clients, req[c].kind = "job", NEW f \in Fils, MayUse(c, f),
           NEW d \in Clients, req[d].kind = "promote"
    PROVE  req[d].from # f
<1> SUFFICES ASSUME req[d].from = f PROVE FALSE
  OBVIOUS
<1>1. holder[f] = d
  BY DEF HInv, Held
<1>2. holder[f] = c \/ holder[f] = None
  BY DEF MayUse, Free
<1> QED
  BY <1>1, <1>2, PrintJobsAssumption

\* A save: what it wrote is what it saved.
LEMMA SavedTrace ==
    ASSUME TInv, CInv, RInv, NEW c \in Clients, NEW f \in Fils, req[c].kind = "job",
           req[c].pc = "save", f \in req[c].todo,
           NEW J, Tame(fil, fil', J), J = {req[c].job},
           \/ fil' = fil
           \/ /\ MaySave(req[c].docs[f], f) /\ SpoolsOf(req[c].rows, f) # {}
              /\ fil' = [fil EXCEPT ![f] =
                           Written(req[c].docs[f], SpoolsOf(req[c].rows, f), f)],
           NEW r, r.kind = "job", r.pc = "save", r.job = req[c].job, r.usage = req[c].usage,
           r.rows = req[c].rows, r.saved = req[c].saved \cup {f}, r.todo = req[c].todo \ {f},
           req' = [req EXCEPT ![c] = r]
    PROVE  RInv'
<1> DEFINE q == req[c]
<1>1. /\ q \in JobReq /\ fil \in FilType /\ q.todo \subseteq FilsOf(q.usage) /\ FitsFil(q, fil, f)
      /\ q.docs \in FilType /\ q.kind = "job"
  BY JobTyped
<1>2. Tidy(q) /\ \A g \in Fils : fil[g] # NoFil =>
              \A s \in Marks(fil[g], q.job) : Explained(q, fil, req, g, s)
  BY DEF RInv, Traced, MayRetry
<1>3. Tidy(r)
  BY <1>1, <1>2 DEF Tidy, Reading
<1>4. Left(q) = q.saved /\ Left(r) = q.saved \cup {f} /\ f \notin q.saved
  BY <1>2 DEF Left, Tidy
<1>5. \A g \in Fils : g # f => fil'[g] = fil[g]
  BY <1>1 DEF FilType
<1>6. q.saved \subseteq Fils
  BY <1>1 DEF JobReq
<1> HIDE DEF q
<1>7. Lost(q, fil) => Lost(r, fil')
  <2> SUFFICES ASSUME NEW g \in q.saved, ~(SpoolsOf(q.rows, g) \subseteq Marks(fil[g], q.job))
               PROVE  Lost(r, fil')
    BY <1>4 DEF Lost
  <2>1. g \in Left(r) /\ fil'[g] = fil[g]
    BY <1>4, <1>5, <1>6
  <2>2. ~(SpoolsOf(r.rows, g) \subseteq Marks(fil'[g], r.job))
    BY <2>1 DEF q
  <2> QED
    BY <2>1, <2>2 DEF Lost
<1>8. \A g, s : Copied(q, req, g, s) => Copied(r, req', g, s)
  <2> SUFFICES ASSUME NEW g, NEW s, NEW d \in Clients, req[d].kind = "promote", req[d].to = g,
                      req[d].from \in Left(q), s \in SpoolsOf(q.rows, req[d].from)
               PROVE  Copied(r, req', g, s)
    BY DEF Copied
  <2>1. d # c /\ req'[d] = req[d]
    BY <1>1 DEF TInv, TypeOK, q
  <2>2. req'[d].from \in Left(r) /\ s \in SpoolsOf(r.rows, req'[d].from)
    BY <1>4, <2>1 DEF q
  <2> QED
    BY <2>1, <2>2 DEF Copied
<1>9. ASSUME NEW g \in Fils, fil[g] # NoFil, NEW s \in Marks(fil[g], q.job)
      PROVE  Explained(r, fil', req', g, s)
  <2>1. Explained(q, fil, req, g, s)
    BY <1>2, <1>9
  <2>2. g \in Left(q) /\ s \in SpoolsOf(q.rows, g) => g \in Left(r) /\ s \in SpoolsOf(r.rows, g)
    BY <1>4 DEF q
  <2> QED
    BY <1>7, <1>8, <2>1, <2>2 DEF Explained
<1>10. ASSUME NEW g \in Fils, fil'[g] # NoFil, NEW s \in Marks(fil'[g], r.job)
       PROVE  Explained(r, fil', req', g, s)
  <2>0. r.job = q.job
    BY DEF q
  <2>1. CASE g # f \/ fil' = fil
    <3>1. fil'[g] = fil[g]
      BY <1>5, <2>1
    <3> QED
      BY <2>0, <3>1, <1>9, <1>10
  <2>2. CASE g = f /\ fil' # fil
    <3> DEFINE ids == SpoolsOf(q.rows, f)
    <3> DEFINE d == q.docs[f]
    <3> DEFINE w == Written(d, ids, f)
    <3>1. /\ MaySave(d, f) /\ ids # {} /\ fil' = [fil EXCEPT ![f] = w]
      BY <2>2 DEF q
    <3>2. d \in Doc /\ fil[f] # NoFil /\ SameSpools(d, fil[f])
      BY <1>1, <3>1, FilDoc DEF FitsFil, MaySave, FilType
    <3>3. Marks(w, q.job) \subseteq (Marks(fil[f], q.job) \ ids) \cup (Marks(d, q.job) \cap ids)
      <4> HIDE DEF d, ids
      <4> QED
        BY <1>1, <3>2, MarksWritten
    <3>4. fil'[f] = w
      BY <1>1, <3>1 DEF FilType
    <3> HIDE DEF w, d
    <3>5. s \in Marks(fil[f], q.job) \/ s \in ids
      BY <1>10, <2>0, <2>2, <3>3, <3>4
    <3>6. CASE s \in Marks(fil[f], q.job)
      BY <1>9, <2>2, <3>2, <3>6
    <3>7. CASE s \in ids
      <4>1. f \in Left(r) /\ s \in SpoolsOf(r.rows, f)
        BY <1>4, <3>7 DEF q
      <4> QED
        BY <2>2, <4>1 DEF Explained
    <3> QED
      BY <3>5, <3>6, <3>7
  <2> QED
    BY <2>1, <2>2
<1>11. Traced(r, fil', req') /\ Promoting(r, fil') /\ Goes(req[c], r, fil')
  BY <1>3, <1>10 DEF Traced, Promoting, Goes
<1>12. Announced(fil, fil', req')
  <2>1. Steady(fil, fil')
    BY JobSteady
  <2> QED
    BY <2>1, SteadyAnnounces
<1> QED
  BY <1>11, <1>12, TraceStep

LEMMA SaveFilTrace ==
    ASSUME TInv, CInv, RInv, NEW c \in Clients, NEW f \in Fils, SaveFil(c, f)
    PROVE  RInv'
<1> DEFINE q == req[c]
<1> DEFINE ids == SpoolsOf(q.rows, f)
<1> DEFINE ok == [q EXCEPT !.todo = @ \ {f}, !.saved = @ \cup {f}, !.docs[f].ver = fil'[f].ver]
<1> DEFINE r == [q EXCEPT !.pc = "undo", !.todo = FilsOf(q.usage), !.undo = "retry"]
<1>1. /\ q.kind = "job" /\ q.pc = "save" /\ f \in q.todo
      /\ \/ /\ ids = {} \/ MaySave(q.docs[f], f)
            /\ fil' = IF ids = {} THEN fil ELSE [fil EXCEPT ![f] = Written(q.docs[f], ids, f)]
            /\ req' = [req EXCEPT ![c] = ok]
         \/ /\ req' = [req EXCEPT ![c] = r]
            /\ UNCHANGED fil
  BY DEF SaveFil, Step
<1>2. q \in JobReq
  BY <1>1, JobTyped
<1> DEFINE J == {q.job}
<1>3. Tame(fil, fil', J) /\ J = {q.job}
  BY SaveFilMarks
<1> HIDE DEF J
<1>4. CASE /\ ids = {} \/ MaySave(q.docs[f], f)
           /\ fil' = IF ids = {} THEN fil ELSE [fil EXCEPT ![f] = Written(q.docs[f], ids, f)]
           /\ req' = [req EXCEPT ![c] = ok]
  <2>1. /\ ok.kind = "job" /\ ok.pc = "save" /\ ok.job = q.job /\ ok.usage = q.usage
        /\ ok.rows = q.rows /\ ok.saved = q.saved \cup {f} /\ ok.todo = q.todo \ {f}
    BY <1>1, <1>2 DEF JobReq
  <2> HIDE DEF ok
  <2>2. \/ fil' = fil
        \/ /\ MaySave(q.docs[f], f) /\ ids # {}
           /\ fil' = [fil EXCEPT ![f] = Written(q.docs[f], ids, f)]
    BY <1>4
  <2> QED
    BY <1>1, <1>3, <1>4, <2>1, <2>2, SavedTrace
<1>5. CASE req' = [req EXCEPT ![c] = r] /\ UNCHANGED fil
  <2>1. /\ r.kind = "job" /\ r.pc = "undo" /\ r.job = q.job /\ r.usage = q.usage
        /\ r.rows = q.rows /\ r.saved = q.saved /\ r.todo = FilsOf(q.usage)
    BY <1>1, <1>2 DEF JobReq
  <2> HIDE DEF r
  <2>2. Tidy(q) /\ \A g \in Fils : fil[g] # NoFil =>
              \A s \in Marks(fil[g], q.job) : Explained(q, fil, req, g, s)
    BY <1>1 DEF RInv, Traced, MayRetry
  <2>3. Tidy(r) /\ Left(r) = Left(q)
    BY <1>1, <2>1, <2>2 DEF Tidy, Reading, Left
  <2>4. Lost(q, fil) => Lost(r, fil')
    BY <1>5, <2>1, <2>3 DEF Lost
  <2>5. \A g, s : Copied(q, req, g, s) => Copied(r, req', g, s)
    <3> SUFFICES ASSUME NEW g, NEW s, NEW d \in Clients, req[d].kind = "promote", req[d].to = g,
                        req[d].from \in Left(q), s \in SpoolsOf(q.rows, req[d].from)
                 PROVE  Copied(r, req', g, s)
      BY DEF Copied
    <3>1. d # c /\ req'[d] = req[d]
      BY <1>1, <1>5 DEF TInv, TypeOK
    <3> QED
      BY <2>1, <2>3, <3>1 DEF Copied
  <2>6. \A g, s : Explained(q, fil, req, g, s) => Explained(r, fil', req', g, s)
    BY <2>1, <2>3, <2>4, <2>5 DEF Explained
  <2>7. Traced(r, fil', req') /\ Promoting(r, fil') /\ Goes(q, r, fil')
    BY <1>1, <1>5, <2>1, <2>2, <2>3, <2>6 DEF Traced, Promoting, Goes
  <2>8. Announced(fil, fil', req')
    BY <1>5 DEF Announced
  <2> QED
    BY <1>1, <1>3, <1>5, <2>7, <2>8, TraceStep
<1> QED
  BY <1>1, <1>4, <1>5

LEMMA FailingTrace ==
    ASSUME TInv, CInv, RInv, NEW c \in Clients, NEW f \in Fils, SaveFails(c, f) \/ RecordFails(c)
    PROVE  RInv'
<1> DEFINE q == req[c]
<1> DEFINE r == [q EXCEPT !.pc = "undo", !.todo = FilsOf(q.usage), !.undo = "error"]
<1> DEFINE w == Written(q.docs[f], SpoolsOf(q.rows, f), f)
<1> DEFINE J == {q.job}
<1>1. /\ q.kind = "job" /\ req' = [req EXCEPT ![c] = r]
      /\ fil' = fil \/ (f \in q.todo /\ fil' = [fil EXCEPT ![f] = w])
  BY DEF SaveFails, RecordFails, Step
<1>2. q \in JobReq /\ Tidy(q)
  BY <1>1, NotSaved
<1>3. r.kind = "job" /\ r.pc = "undo" /\ r.undo = "error" /\ r.saved = q.saved /\ r.usage = q.usage
  BY <1>1, <1>2 DEF JobReq
<1> HIDE DEF r, w
<1>4. Tidy(r) /\ ~MayRetry(r)
  BY <1>2, <1>3 DEF Tidy, MayRetry, Reading
<1>5. Tame(fil, fil', J)
  <2>1. CASE SaveFails(c, f)
    BY <2>1, SaveFailsMarks
  <2>2. CASE RecordFails(c)
    <3>1. fil' = fil
      BY <2>2 DEF RecordFails
    <3> QED
      BY <3>1, TameNot
  <2> QED
    BY <2>1, <2>2
<1>6. Steady(fil, fil')
  <2>1. CASE fil' = fil
    BY <2>1 DEF Steady
  <2>2. CASE f \in q.todo /\ fil' = [fil EXCEPT ![f] = w]
    BY <1>1, <2>2, JobSteady
  <2> QED
    BY <1>1, <2>1, <2>2
<1>7. J = {q.job}
  OBVIOUS
<1> HIDE DEF J
<1> QED
  BY <1>1, <1>3, <1>4, <1>5, <1>6, <1>7, QuietTrace

LEMMA EndTraces ==
    ASSUME TInv, CInv, RInv, NEW c \in Clients, NEW f \in Fils,
           Record(c) \/ Trim(c, f) \/ Trimmed(c) \/ UndoFails(c, f)
    PROVE  RInv'
<1> DEFINE q == req[c]
<1>1. q.kind = "job" /\ q.pc \in {"save", "trim", "undo"}
  BY DEF Record, Trim, Trimmed, UndoFails
<1>2. q \in JobReq /\ Tidy(q)
  BY <1>1, NotSaved
<1>3. CASE Record(c)
  <2> DEFINE r == [q EXCEPT !.pc = "trim", !.todo = FilsOf(q.usage)]
  <2>1. req' = [req EXCEPT ![c] = r] /\ fil' = fil
    BY <1>3 DEF Record, Step
  <2>2. r.kind = "job" /\ r.pc = "trim" /\ r.saved = q.saved /\ r.usage = q.usage
    BY <1>1, <1>2 DEF JobReq
  <2> HIDE DEF r
  <2>3. Tidy(r) /\ ~MayRetry(r) /\ Tame(fil, fil', {}) /\ Steady(fil, fil')
    BY <1>2, <2>1, <2>2, TameNot DEF Tidy, MayRetry, Reading, Steady
  <2> QED
    BY <1>1, <2>1, <2>2, <2>3, GoesQuietly
<1>4. CASE Trim(c, f)
  <2> DEFINE r == [q EXCEPT !.todo = @ \ {f}]
  <2> DEFINE w == Written(LedgersOf(CapDoc(q.docs[f], SpoolsOf(q.rows, f)), f), SpoolsOf(q.rows, f), f)
  <2> DEFINE J == {q.job}
  <2>1. /\ req' = [req EXCEPT ![c] = r] /\ f \in q.todo /\ q.pc = "trim"
        /\ fil' = fil \/ fil' = [fil EXCEPT ![f] = w]
    BY <1>4 DEF Trim, Step
  <2>2. r.kind = "job" /\ r.pc = "trim" /\ r.saved = q.saved /\ r.usage = q.usage
    BY <1>1, <1>2, <2>1 DEF JobReq
  <2>3. Tame(fil, fil', J) /\ J = {q.job}
    BY <1>4, TrimMarks
  <2> HIDE DEF r, w, J
  <2>4. Tidy(r) /\ ~MayRetry(r)
    BY <1>2, <2>2 DEF Tidy, MayRetry, Reading
  <2>5. Steady(fil, fil')
    BY <1>1, <2>1, JobSteady
  <2> QED
    BY <1>1, <2>1, <2>2, <2>3, <2>4, <2>5, QuietTrace
<1>5. CASE Trimmed(c)
  BY <1>1, <1>5, EndsQuietly DEF Trimmed, Done, Step
<1>6. CASE UndoFails(c, f)
  <2> DEFINE r == [q EXCEPT !.todo = @ \ {f}, !.unsafe = TRUE]
  <2>0. PICK n \in 0..Len(q.rows) :
            fil' = [fil EXCEPT ![f] = Pulled(f, q.job, q.rows, SpoolsOf(SubSeq(q.rows, 1, n), f))]
    BY <1>6 DEF UndoFails
  <2> DEFINE ids == SpoolsOf(SubSeq(q.rows, 1, n), f)
  <2> DEFINE w == Pulled(f, q.job, q.rows, ids)
  <2>1. /\ req' = [req EXCEPT ![c] = r] /\ f \in q.todo /\ q.pc = "undo"
        /\ fil' = [fil EXCEPT ![f] = w]
        /\ UNCHANGED <<hist, answer>>
    BY <1>6, <2>0 DEF UndoFails, Step
  <2> HIDE DEF ids
  <2>2. r.kind = "job" /\ r.pc = "undo" /\ r.saved = q.saved /\ r.usage = q.usage /\ r.unsafe
    BY <1>1, <1>2, <2>1 DEF JobReq
  <2>3. Tame(fil, fil', {})
    <3>1. Undoing(c, f, ids, TRUE)
      BY <1>6, <2>1 DEF UndoFails, Undoing
    <3> QED
      BY <3>1, UndoMarks
  <2> HIDE DEF r, w
  <2>4. Tidy(r) /\ ~MayRetry(r)
    BY <1>2, <2>2 DEF Tidy, MayRetry, Reading
  <2>5. Steady(fil, fil')
    BY <1>1, <2>1, JobSteady
  <2> QED
    BY <1>1, <2>1, <2>2, <2>3, <2>4, <2>5, GoesQuietly
<1> QED
  BY <1>3, <1>4, <1>5, <1>6

\* The compensation: a filament it is through with has none of its entries left.
LEMMA UndoFilTrace ==
    ASSUME TInv, HInv, CInv, RInv, NEW c \in Clients, NEW f \in Fils, UndoFil(c, f)
    PROVE  RInv'
<1> DEFINE q == req[c]
<1> DEFINE un == q.unsafe \/ (f \in q.saved /\ ~HasEntries(f, q.job, q.rows))
<1> DEFINE r == [q EXCEPT !.todo = @ \ {f}, !.unsafe = un]
<1> DEFINE w == Pulled(f, q.job, q.rows, SpoolsOf(q.rows, f))
<1>1. /\ q.kind = "job" /\ q.pc = "undo" /\ f \in q.todo /\ MayUse(c, f)
      /\ fil' = [fil EXCEPT ![f] = w] /\ req' = [req EXCEPT ![c] = r]
      /\ UNCHANGED <<hist, holder, replica, logs, fails, base, answer>>
  BY DEF UndoFil, Step
<1>2. /\ q \in JobReq /\ Tidy(q) /\ fil \in FilType /\ q.rows \in Seq(Row) /\ fil[f] # NoFil
      /\ q.unsafe \in BOOLEAN /\ q.job \in Jobs
      /\ \A g \in FilsOf(q.usage) : g \in Fils /\ fil[g] # NoFil
  BY <1>1, NotSaved, JobTyped DEF FitsFil, JobReq
<1>3. un \in BOOLEAN
  OBVIOUS
<1>4. Tame(fil, fil', {})
  <2> DEFINE ids == SpoolsOf(q.rows, f)
  <2>1. Undoing(c, f, ids, un)
    BY <1>1, <1>3 DEF Undoing
  <2> HIDE DEF ids, un
  <2> QED
    BY <2>1, UndoMarks
<1>5. Distinct(fil[f]) /\ Marks(w, q.job) \cap SpoolsOf(q.rows, f) = {} /\ fil'[f] = w
  <2>1. Distinct(fil[f])
    BY <1>2 DEF CInv, Distincts
  <2>2. w = Pulled(f, q.job, q.rows, SpoolsOf(q.rows, f))
    OBVIOUS
  <2>3. fil'[f] = w
    BY <1>1, <1>2 DEF FilType
  <2>4. Distinct(fil[f]) => Marks(w, q.job) \cap SpoolsOf(q.rows, f) = {}
    <3>1. TakesBack(w, f, q.job, SpoolsOf(q.rows, f))
      BY <1>2, PulledTame
    <3> HIDE DEF w, q
    <3> QED
      BY <3>1 DEF TakesBack
  <2> QED
    BY <2>1, <2>3, <2>4
<1>6. /\ r.kind = "job" /\ r.pc = "undo" /\ r.saved = q.saved /\ r.usage = q.usage
      /\ r.rows = q.rows /\ r.job = q.job /\ r.undo = q.undo /\ r.todo = q.todo \ {f}
      /\ r.unsafe = un
  BY <1>1, <1>2 DEF JobReq
<1> HIDE DEF r, w
<1>7. Steady(fil, fil')
  BY <1>1, JobSteady
<1>8. Tidy(r)
  BY <1>2, <1>6 DEF Tidy, Reading
<1>9. CASE ~MayRetry(r)
  BY <1>1, <1>4, <1>6, <1>7, <1>8, <1>9, GoesQuietly
<1>10. CASE MayRetry(r)
  <2>1. ~un /\ MayRetry(q) /\ ~q.unsafe
    BY <1>1, <1>6, <1>10 DEF MayRetry
  <2>2. Left(q) = q.saved \cap q.todo /\ Left(r) = Left(q) \ {f}
    BY <1>1, <1>6 DEF Left
  <2>3. \A g \in Fils : fil[g] # NoFil =>
              \A s \in Marks(fil[g], q.job) : Explained(q, fil, req, g, s)
    BY <1>1, <2>1 DEF RInv, Traced
  <2>4. \A g \in Fils : g # f => fil'[g] = fil[g]
    BY <1>1, <1>2 DEF FilType
  <2>5. Lost(q, fil) => Lost(r, fil')
    <3> SUFFICES ASSUME NEW g \in Left(q), ~(SpoolsOf(q.rows, g) \subseteq Marks(fil[g], q.job))
                 PROVE  Lost(r, fil')
      BY DEF Lost
    <3>1. CASE g = f
      <4>1. PICK t \in SpoolsOf(q.rows, f) : t \notin Marks(fil[f], q.job)
        BY <3>1
      <4>2. EntriesOf(q.job, f, t) = {}
        BY <1>2, <4>1, EntriesAreMarks
      <4>3. ~HasEntries(f, q.job, q.rows)
        BY <4>1, <4>2 DEF HasEntries
      <4> QED
        BY <2>1, <2>2, <3>1, <4>3
    <3>2. CASE g # f
      <4>1. g \in Left(r) /\ g \in Fils
        BY <1>2, <2>2, <3>2 DEF Tidy
      <4>2. fil'[g] = fil[g]
        BY <2>4, <3>2, <4>1
      <4> QED
        BY <1>6, <4>1, <4>2 DEF Lost
    <3> QED
      BY <3>1, <3>2
  <2>6. \A g, s : Copied(q, req, g, s) => Copied(r, req', g, s)
    <3> SUFFICES ASSUME NEW g, NEW s, NEW d \in Clients, req[d].kind = "promote", req[d].to = g,
                        req[d].from \in Left(q), s \in SpoolsOf(q.rows, req[d].from)
                 PROVE  Copied(r, req', g, s)
      BY DEF Copied
    <3>1. d # c /\ req'[d] = req[d]
      BY <1>1 DEF TInv, TypeOK
    <3>2. req[d].from # f
      BY <1>1, NotPromoted
    <3> QED
      BY <1>6, <2>2, <3>1, <3>2 DEF Copied
  <2>7. ASSUME NEW g \in Fils, fil'[g] # NoFil, NEW s \in Marks(fil'[g], r.job)
        PROVE  Explained(r, fil', req', g, s)
    <3>1. fil[g] # NoFil
      BY <2>7, <1>7 DEF Steady
    <3> DEFINE J == {}
    <3>2. q.job \in Jobs \ J /\ Tame(fil, fil', J)
      BY <1>2, <1>4
    <3> HIDE DEF J
    <3>3. s \in Marks(fil[g], q.job)
      BY <1>6, <2>7, <3>1, <3>2 DEF Tame, TameFil
    <3>4. Explained(q, fil, req, g, s)
      BY <2>3, <3>1, <3>3
    <3>5. g \in Left(q) /\ s \in SpoolsOf(q.rows, g) => g \in Left(r) /\ s \in SpoolsOf(r.rows, g)
      BY <1>5, <1>6, <2>2, <2>7
    <3> QED
      BY <2>5, <2>6, <3>4, <3>5 DEF Explained
  <2>8. Traced(r, fil', req') /\ Promoting(r, fil') /\ Goes(q, r, fil')
    BY <1>1, <1>6, <1>8, <2>7 DEF Traced, Promoting, Goes
  <2>9. Announced(fil, fil', req')
    BY <1>7, SteadyAnnounces
  <2> DEFINE J == {}
  <2>10. Tame(fil, fil', J) /\ J = {}
    BY <1>4
  <2> HIDE DEF J
  <2> QED
    BY <1>1, <2>8, <2>9, <2>10, TraceStep
<1> QED
  BY <1>9, <1>10

\* The job is told to retry: nothing of it is left.
LEMMA UndoneTrace ==
    ASSUME TInv, CInv, RInv, NEW c \in Clients, Undone(c)
    PROVE  CInv' /\ RInv'
<1> DEFINE q == req[c]
<1>1. /\ q.kind = "job" /\ q.pc = "undo" /\ q.todo = {} /\ fil' = fil
      /\ req' = [req EXCEPT ![c] = Idle]
  BY DEF Undone, Done, Step
<1>2. ASSUME q.undo = "retry", ~q.unsafe, NEW f \in Fils, fil[f] # NoFil
      PROVE  Marks(fil[f], q.job) = {}
  <2>1. MayRetry(q) /\ Left(q) = {}
    BY <1>1, <1>2 DEF MayRetry, Left
  <2>2. \A s \in Marks(fil[f], q.job) : Explained(q, fil, req, f, s)
    BY <1>1, <1>2, <2>1 DEF RInv, Traced
  <2> QED
    BY <2>1, <2>2 DEF Explained, Lost, Copied
<1>3. CInv'
  BY <1>2, UndoneMarks
<1>4. RInv'
  BY <1>1, EndsQuietly
<1> QED
  BY <1>3, <1>4

LEMMA DeleteTraces ==
    ASSUME TInv, CInv, RInv, NEW c \in Clients, (\E j \in Jobs : DeleteJob(c, j)) \/ DeleteStep(c)
    PROVE  CInv' /\ RInv'
<1>1. ASSUME NEW j \in Jobs, DeleteJob(c, j) PROVE CInv' /\ RInv'
  <2> DEFINE r == [kind |-> "delete", job |-> j, rows |-> hist[j].rows, i |-> 1,
                   target |-> hist[j].rows[1].fil, hop |-> 0]
  <2>1. req[c] = Idle /\ req' = [req EXCEPT ![c] = r] /\ fil' = fil
    BY <1>1 DEF DeleteJob, Step
  <2>2. r.kind = "delete" /\ Idle.kind = "idle"
    BY DEF Idle
  <2> HIDE DEF r
  <2>3. ~MayRetry(r) /\ Tame(fil, fil', {}) /\ Steady(fil, fil')
    BY <2>1, <2>2, TameNot DEF MayRetry, Steady
  <2>4. RInv'
    BY <2>1, <2>2, <2>3, GoesQuietly
  <2> QED
    BY <1>1, <2>4, DeleteJobMarks
<1>2. CASE RefundRow(c)
  <2> DEFINE q == req[c]
  <2> DEFINE f == q.target
  <2> DEFINE hopped == [q EXCEPT !.target = FilNow(q), !.hop = 1]
  <2> DEFINE i == IF fil[f] = NoFil THEN 0 ELSE IndexOf(fil[f], q.rows[q.i].spool)
  <2> DEFINE sp == Refunded(fil[f].spools[i], q)
  <2>1. /\ q.kind = "delete" /\ q.i <= Len(q.rows)
        /\ req' = [req EXCEPT ![c] = NextRow(q)] \/ req' = [req EXCEPT ![c] = hopped]
        /\ \/ UNCHANGED fil
           \/ i # 0 /\ fil' = [fil EXCEPT ![f].ver = @ + 1, ![f].spools[i] = sp]
    BY <1>2 DEF RefundRow, Step
  <2>2. q \in DeleteReq /\ q.rows \in Seq(Row) /\ q.i \in Nat \ {0} /\ f \in Fils /\ fil \in FilType
    BY <2>1, DeleteTyped
  <2>3. hopped.kind = "delete" /\ NextRow(q).kind = "delete"
    <3>1. hopped.kind = "delete"
      BY <2>2 DEF DeleteReq
    <3>2. NextRow(q).kind = "delete"
      BY <2>1, <2>2, NextRowType
    <3> QED
      BY <3>1, <3>2
  <2> HIDE DEF hopped
  <2>4. \E r : req' = [req EXCEPT ![c] = r] /\ r.kind = "delete"
    BY <2>1, <2>3
  <2>5. PICK r : req' = [req EXCEPT ![c] = r] /\ r.kind = "delete"
    BY <2>4
  <2>6. i # 0 => fil[f] # NoFil
    OBVIOUS
  <2> HIDE DEF i, sp, f
  <2>7. Steady(fil, fil')
    <3>1. CASE UNCHANGED fil
      BY <3>1 DEF Steady
    <3>2. CASE i # 0 /\ fil' = [fil EXCEPT ![f].ver = @ + 1, ![f].spools[i] = sp]
      <4>1. \A g \in Fils : g # f => fil'[g] = fil[g]
        BY <2>2, <3>2 DEF FilType
      <4> QED
        BY <2>6, <3>2, <4>1 DEF Steady
    <3> QED
      BY <2>1, <3>1, <3>2
  <2>8. CInv' /\ Tame(fil, fil', {})
    BY <1>2, RefundRowMarks
  <2>9. ~MayRetry(r)
    BY <2>5 DEF MayRetry
  <2> QED
    BY <2>1, <2>5, <2>7, <2>8, <2>9, GoesQuietly
<1>3. CASE Tombstone(c)
  <2>1. req[c].kind = "delete" /\ fil' = fil /\ req' = [req EXCEPT ![c] = Idle]
    BY <1>3 DEF Tombstone, Done, Step
  <2> QED
    BY <1>3, <2>1, TombstoneMarks, EndsQuietly
<1> QED
  BY <1>1, <1>2, <1>3 DEF DeleteStep

LEMMA PromoteTraces ==
    ASSUME TInv, CInv, RInv, NEW c \in Clients,
           (\E f \in Fils : Promote(c, f)) \/ PromoteStep(c)
    PROVE  CInv' /\ RInv'
<1> DEFINE J == {}
<1>0. J = {} /\ req \in [Clients -> ReqType] /\ Idle.kind = "idle"
  BY DEF TInv, TypeOK, ReqType, Idle
<1> HIDE DEF J
<1>1. ASSUME NEW f \in Fils, Promote(c, f) PROVE CInv' /\ RInv'
  <2>1. CInv' /\ Tame(fil, fil', {}) /\ req[c] = Idle
    BY <1>1, PromoteMarks
  <2>2. PICK r : /\ req' = [req EXCEPT ![c] = r] /\ r.kind = "promote" /\ r.from = f
                 /\ r.to \in Fils /\ fil[f] # NoFil /\ fil[f].parent = None
                 /\ fil'[r.to] # NoFil /\ fil'[r.to].parent = f
                 /\ \A g \in Fils : fil[g] = NoFil /\ fil'[g] # NoFil =>
                       g = r.to /\ fil'[g].spools = fil[f].spools
    BY <1>1, PromoteMarks
  <2>3. req'[c] = r
    BY <1>0, <2>2
  <2>4. Announced(fil, fil', req')
    BY <2>2, <2>3 DEF Announced
  <2>5. Traced(r, fil', req') /\ Promoting(r, fil') /\ Goes(req[c], r, fil')
    BY <1>0, <2>1, <2>2 DEF Traced, Promoting, Goes
  <2>6. RInv'
    BY <1>0, <2>1, <2>2, <2>4, <2>5, TraceStep
  <2> QED
    BY <2>1, <2>6
<1>2. CASE Remap(c)
  <2>1. CInv' /\ fil' = fil /\ req[c].kind = "promote"
    BY <1>2, RemapMarks
  <2>2. PICK r : /\ req' = [req EXCEPT ![c] = r] /\ r.kind = "promote"
                 /\ r.from = req[c].from /\ r.to = req[c].to
    BY <1>2, RemapMarks
  <2>3. Traced(r, fil', req') /\ Goes(req[c], r, fil') /\ Promoting(r, fil')
    BY <2>1, <2>2 DEF Traced, Goes, Promoting, RInv
  <2>4. Tame(fil, fil', J) /\ Announced(fil, fil', req')
    BY <2>1, TameNot DEF Announced
  <2>5. RInv'
    BY <1>0, <2>2, <2>3, <2>4, TraceStep
  <2> QED
    BY <2>1, <2>5
<1>3. CASE Complete(c)
  <2>1. /\ CInv' /\ Tame(fil, fil', {}) /\ req[c].kind = "promote"
        /\ req' = [req EXCEPT ![c] = Idle]
        /\ fil'[req[c].from].spools = <<>>
        /\ \A g \in Fils : fil[g] = NoFil => fil'[g] = NoFil
    BY <1>3, CompleteMarks
  <2>2. Traced(Idle, fil', req') /\ Promoting(Idle, fil') /\ Goes(req[c], Idle, fil')
        /\ Announced(fil, fil', req')
    BY <1>0, <2>1 DEF Traced, Promoting, Goes, Announced
  <2>3. RInv'
    BY <1>0, <2>1, <2>2, TraceStep
  <2> QED
    BY <2>1, <2>3
<1> QED
  BY <1>1, <1>2, <1>3 DEF PromoteStep

LEMMA ShortTraces ==
    ASSUME TInv, CInv, RInv, NEW f \in Fils, NEW i, LogUsage(f, i) \/ Weigh(f, i)
    PROVE  CInv' /\ RInv'
<1>1. fil \in FilType /\ fil[f] # NoFil
  BY DEF TInv, TypeOK, FilType, LogUsage, Weigh
<1>2. \A g \in Fils : g # f => fil'[g] = fil[g]
  BY <1>1 DEF LogUsage, Weigh, FilType
<1>3. Announced(fil, fil', req)
  BY <1>1, <1>2 DEF Announced
<1>4. CInv' /\ Tame(fil, fil', {}) /\ req' = req
  BY LogUsageMarks, WeighMarks
<1> QED
  BY <1>3, <1>4, TraceRest

LEMMA JobTraces ==
    ASSUME TInv, HInv, CInv, RInv, NEW c \in Clients, JobStep(c)
    PROVE  CInv' /\ RInv'
<1>1. ASSUME NEW f \in Fils, CheckLegacy(c, f) \/ Migrate(c, f) PROVE CInv' /\ RInv'
  BY <1>1, CheckLegacyMarks, MigrateMarks, ReadingTrace, MigrateTrace
<1>2. ASSUME NEW f \in Fils, SaveFil(c, f) \/ Trim(c, f) PROVE CInv' /\ RInv'
  BY <1>2, SaveFilMarks, TrimMarks, SaveFilTrace, EndTraces
<1>3. ASSUME NEW f \in Fils, UndoFil(c, f) PROVE CInv' /\ RInv'
  <2> DEFINE un == req[c].unsafe
                   \/ (f \in req[c].saved /\ ~HasEntries(f, req[c].job, req[c].rows))
  <2> DEFINE ids == SpoolsOf(req[c].rows, f)
  <2>1. req[c].kind = "job"
    BY <1>3 DEF UndoFil
  <2>2. un \in BOOLEAN
    BY <2>1, JobTyped DEF JobReq
  <2>3. CInv'
    <3>1. Undoing(c, f, ids, un)
      BY <1>3, <2>2 DEF UndoFil, Step, Undoing
    <3> HIDE DEF un, ids
    <3> QED
      BY <3>1, UndoMarks
  <2> QED
    BY <1>3, <2>3, UndoFilTrace
<1>4. Fils # {}
  <2>1. req[c].kind = "job"
    BY DEF JobStep, CheckLegacy, Migrate, SaveFil, Trim, UndoFil, Checked, Transact, Apply, Record,
       Trimmed, Undone
  <2> QED
    BY <2>1, JobTyped, FilsOfIn
<1>5. CASE Checked(c) \/ Transact(c) \/ Apply(c)
  BY <1>4, <1>5, CheckedMarks, ReadingTrace, TransactMarks, TransactTrace, ApplyMarks, ApplyTrace
<1>6. CASE Record(c) \/ Trimmed(c) \/ Undone(c)
  BY <1>4, <1>6, RecordMarks, TrimmedMarks, EndTraces, UndoneTrace
<1> QED
  BY <1>1, <1>2, <1>3, <1>5, <1>6 DEF JobStep

LEMMA FailTraces ==
    ASSUME TInv, CInv, RInv, "promote" \notin Faulty, NEW c \in Clients, Failures(c)
    PROVE  CInv' /\ RInv'
<1>1. CASE Fail(c)
  <2>1. fil' = fil /\ req[c].kind # "promote" /\ req' = [req EXCEPT ![c] = Idle]
    BY <1>1 DEF Fail, Done, Step
  <2> QED
    BY <1>1, <2>1, FailMarks, EndsQuietly
<1>2. ASSUME NEW f \in Fils, SaveFails(c, f) PROVE CInv' /\ RInv'
  BY <1>2, SaveFailsMarks, FailingTrace
<1>3. CASE RecordFails(c)
  <2>1. Fils # {}
    BY <1>3, JobTyped, FilsOfIn DEF RecordFails
  <2> QED
    BY <1>3, <2>1, RecordFailsMarks, FailingTrace
<1>4. ASSUME NEW f \in Fils, UndoFails(c, f) PROVE CInv' /\ RInv'
  <2>0. PICK n \in 0..Len(req[c].rows) :
            fil' = [fil EXCEPT ![f] = Pulled(f, req[c].job, req[c].rows,
                                             SpoolsOf(SubSeq(req[c].rows, 1, n), f))]
    BY <1>4 DEF UndoFails
  <2> DEFINE ids == SpoolsOf(SubSeq(req[c].rows, 1, n), f)
  <2>1. Undoing(c, f, ids, TRUE)
    BY <1>4, <2>0 DEF UndoFails, Step, Undoing
  <2> HIDE DEF ids
  <2>2. CInv'
    BY <2>1, UndoMarks
  <2> QED
    BY <1>4, <2>2, EndTraces
<1> QED
  BY <1>1, <1>2, <1>3, <1>4 DEF Failures

LEMMA RNext ==
    ASSUME "promote" \notin Faulty, TInv, HInv, CInv, RInv, [Next]_vars
    PROVE  CInv' /\ RInv'
<1>1. ASSUME NEW c \in Clients, Requests(c) PROVE CInv' /\ RInv'
  <2>1. ASSUME NEW j \in Jobs, NEW u \in Usages, PostJob(c, j, u) PROVE CInv' /\ RInv'
    <3>1. Fils # {}
      BY FilsOfIn
    <3> QED
      BY <2>1, <3>1, PostJobMarks, ReadingTrace
  <2> QED
    BY <1>1, <2>1, DeleteTraces, PromoteTraces DEF Requests
<1>2. ASSUME NEW c \in Clients, Handle(c) PROVE CInv' /\ RInv'
  BY <1>2, JobTraces, DeleteTraces, PromoteTraces DEF Handle
<1>3. ASSUME NEW f \in Fils, NEW i, LogUsage(f, i) \/ Weigh(f, i) PROVE CInv' /\ RInv'
  BY <1>3, ShortTraces
<1>4. CASE Crash
  <2>1. CInv' /\ \A d \in Clients : req'[d] = Idle
    BY <1>4, CrashMarks
  <2>2. \A d \in Clients : Traced(req'[d], fil', req') /\ Promoting(req'[d], fil')
    BY <2>1 DEF Traced, Promoting, Idle
  <2> QED
    BY <2>1, <2>2 DEF RInv
<1>5. CASE UNCHANGED vars
  <2>1. fil \in FilType /\ fil' = fil /\ UNCHANGED <<hist, req, answer>>
    BY <1>5 DEF vars, TInv, TypeOK, FilType
  <2>2. fil' \in FilType /\ Evolves(fil, fil') /\ Tame(fil, fil', {}) /\ Announced(fil, fil', req)
    BY <2>1, EvolvesNot, TameNot DEF Announced
  <2> QED
    BY <2>1, <2>2, MarkRest, TraceRest
<1>6. ASSUME NEW c \in Clients, Failures(c) PROVE CInv' /\ RInv'
  BY <1>6, FailTraces
<1> QED
  BY <1>1, <1>2, <1>3, <1>4, <1>5, <1>6 DEF Next

LEMMA NothingIsLeft == TInv /\ CInv => RetryIsSafe
<1> SUFFICES ASSUME TInv, CInv, NEW j \in Jobs, answer[j] = "retry"
             PROVE  hist[j] = NoRow /\ \A f \in Fils, s \in Spools : EntriesOf(j, f, s) = {}
  BY DEF RetryIsSafe
<1>1. hist[j] = NoRow /\ \A f \in Fils : fil[f] # NoFil => Marks(fil[f], j) = {}
  BY DEF CInv, CleanIsUnmarked, Clean
<1>2. fil \in FilType
  BY DEF TInv, TypeOK, FilType
<1>3. ASSUME NEW f \in Fils, NEW s \in Spools PROVE EntriesOf(j, f, s) = {}
  BY <1>1, <1>2, EntriesAreMarks
<1> QED
  BY <1>1, <1>3

\* A print job that was told "please retry" (409, print-history/route.ts) left
\* nothing behind, so the retry does not debit a second time: every entry it
\* saved is where it saved it, or on the copy a promotion is about to make the
\* only one, in which case the compensation misses it and the answer is not
\* "retry".  The stock is orderly, and no promotion is cut short (a copy would
\* stay that nobody takes back).
THEOREM NoDoubleDebit ==
    ASSUME OrderlyStock, "promote" \notin Faulty
    PROVE  Spec => []RetryIsSafe
<1>1. Init => TInv /\ HInv /\ CInv /\ RInv
  <2>1. Init => RInv
    BY DEF Init, RInv, Traced, Promoting, Idle
  <2> QED
    BY <2>1, TInit, HInit, MarksInit
<1>2. TInv /\ HInv /\ CInv /\ RInv /\ [Next]_vars => (TInv /\ HInv /\ CInv /\ RInv)'
  BY TNext, HNext, RNext
<1> QED
  BY <1>1, <1>2, NothingIsLeft, PTL DEF Spec
=============================================================================
