--------------------------- MODULE DecisionProofs ---------------------------
(***************************************************************************)
(* What the readers of CallerNames make of a subject's text, for words of  *)
(* any length over any characters.                                         *)
(*                                                                         *)
(* The readers cut a text at its separators and drop the escapes: what     *)
(* they give is the text between some of its positions.  The argument goes *)
(* over these positions, which are a finite set of numbers in their order, *)
(* and over a text that is grown by one piece at a time.  Induction over   *)
(* numbers is SetInduction: a set of numbers that has zero and every       *)
(* successor has all, because what it misses would have a least one.       *)
(***************************************************************************)
EXTENDS CallerChecks, SequenceTheorems, FunctionTheorems, FiniteSetTheorems,
        WellFoundedInduction, TLAPS

---------------------------------------------------------------------------
(* Numbers: the least one of a set, and induction *)

\* A set of numbers has a least one, because 0..m is a least set among the 0..k.
LEMMA LeastNumber ==
    ASSUME NEW S \in SUBSET Nat, S # {}
    PROVE  Min(S) \in S /\ \A k \in S : Min(S) <= k
<1> DEFINE R == StrictSubsetOrdering(Nat)
           T == {0..k : k \in S}
<1>1. T \subseteq FiniteSubsetsOf(Nat) /\ T # {}
  <2>1. \A k \in S : IsFiniteSet(0..k) /\ 0..k \in SUBSET Nat
    BY FS_Interval
  <2> QED  BY <2>1 DEF FiniteSubsetsOf
<1>2. IsWellFoundedOn(R, FiniteSubsetsOf(Nat))
  BY FS_StrictSubsetOrderingWellFounded
<1> HIDE DEF R, T
<1>3. PICK t \in T : \A u \in T : <<u, t>> \notin R
  BY <1>1, <1>2, WFMin
<1>4. PICK m \in S : t = 0..m
  BY DEF T
<1>5. ASSUME NEW k \in S, k < m PROVE FALSE
  <2>1. 0..k \in T /\ 0..k \subseteq 0..m /\ m \in 0..m /\ m \notin 0..k
    BY <1>5 DEF T
  <2>2. <<0..k, 0..m>> \in R
    BY <2>1 DEF R, StrictSubsetOrdering
  <2> QED  BY <1>3, <1>4, <2>1, <2>2
<1>6. m \in S /\ \A k \in S : m <= k
  BY <1>5
<1> QED  BY <1>6 DEF Min

\* Induction without an operator as a parameter: what holds is given as the set of the numbers it holds of.
LEMMA SetInduction ==
    ASSUME NEW S, 0 \in S, \A n \in Nat : n \in S => n + 1 \in S
    PROVE  \A n \in Nat : n \in S
<1> DEFINE missing == {n \in Nat : n \notin S}
           m == Min(missing)
<1> SUFFICES ASSUME missing # {} PROVE FALSE
  OBVIOUS
<1>1. m \in missing /\ \A k \in missing : m <= k
  BY LeastNumber
<1> HIDE DEF m
<1>2. m \in Nat /\ m # 0 /\ m \notin S
  BY <1>1
<1>3. m - 1 \in Nat /\ m - 1 < m
  BY <1>2
<1>4. m - 1 \in S
  BY <1>1, <1>3
<1> QED  BY <1>2, <1>3, <1>4

---------------------------------------------------------------------------
(* Positions *)

Increasing(e, n) == \A i, j \in 1..n : i < j => e[i] < e[j]

\* An ascending enumeration of a set is the one that Ordered gives.
Enumerates(e, n, S) ==
    Increasing(e, n) /\ (\A i \in 1..n : e[i] \in S) /\ (\A y \in S : \E i \in 1..n : y = e[i])

LEMMA OrderedIs ==
    ASSUME NEW n \in Nat, NEW e \in [1..n -> Nat], NEW S, Enumerates(e, n, S)
    PROVE  Cardinality(S) = n /\ IsFiniteSet(S) /\ Ordered(S) = e
<1> Increasing(e, n) /\ S = {e[i] : i \in 1..n}
  BY DEF Enumerates
<1>1. ASSUME NEW m \in 0..n
      PROVE  LET T == {e[i] : i \in 1..m} IN IsFiniteSet(T) /\ Cardinality(T) = m
  <2> DEFINE T == {e[i] : i \in 1..m}
             f == [i \in 1..m |-> e[i]]
  <2>1. f \in Bijection(1..m, T)
    <3>1. f \in [1..m -> T]
      OBVIOUS
    <3>2. \A i, j \in 1..m : f[i] = f[j] => i = j
      <4>1. \A i, j \in 1..m : i < j \/ j < i \/ i = j
        OBVIOUS
      <4>2. 1..m \subseteq 1..n
        OBVIOUS
      <4>3. \A i \in 1..m : f[i] = e[i] /\ e[i] \in Nat
        BY <4>2
      <4> HIDE DEF f
      <4> QED  BY <4>1, <4>2, <4>3 DEF Increasing
    <3>3. \A t \in T : \E i \in 1..m : f[i] = t
      OBVIOUS
    <3> HIDE DEF f, T
    <3> QED  BY <3>1, <3>2, <3>3, Fun_IsBij
  <2>2. ExistsBijection(1..m, T)
    BY <2>1 DEF ExistsBijection
  <2>3. IsFiniteSet(1..m) /\ Cardinality(1..m) = m
    BY FS_Interval
  <2> HIDE DEF T
  <2>4. IsFiniteSet(T) /\ Cardinality(T) = m
    BY <2>2, <2>3, FS_Bijection
  <2> QED  BY <2>4 DEF T
<1>2. Cardinality(S) = n /\ IsFiniteSet(S)
  <2>1. n \in 0..n
    OBVIOUS
  <2> QED  BY <1>1, <2>1
<1>3. ASSUME NEW k \in 1..n PROVE Cardinality({y \in S : y < e[k]}) = k - 1
  <2>1. {y \in S : y < e[k]} = {e[i] : i \in 1..(k - 1)}
    <3>1. \A i \in 1..n : e[i] \in Nat
      OBVIOUS
    <3>2. \A i \in 1..n : e[i] < e[k] <=> i < k
      BY <3>1 DEF Increasing
    <3>3. \A i : i \in 1..(k - 1) <=> i \in 1..n /\ i < k
      OBVIOUS
    <3>4. ASSUME NEW y PROVE y \in {z \in S : z < e[k]} <=> y \in {e[i] : i \in 1..(k - 1)}
      BY <3>2, <3>3
    <3> QED  BY <3>4
  <2>2. k - 1 \in 0..n
    OBVIOUS
  <2> QED  BY <1>1, <2>1, <2>2
<1>4. ASSUME NEW k \in 1..n
      PROVE  (CHOOSE x \in S : Cardinality({y \in S : y < x}) = k - 1) = e[k]
  <2>1. \A x \in S : Cardinality({y \in S : y < x}) = k - 1 => x = e[k]
    BY <1>3
  <2>2. e[k] \in S /\ Cardinality({y \in S : y < e[k]}) = k - 1
    BY <1>3
  <2> QED  BY <2>1, <2>2
<1>5. Ordered(S) = [k \in 1..n |-> CHOOSE x \in S : Cardinality({y \in S : y < x}) = k - 1]
  BY <1>2 DEF Ordered
<1> QED  BY <1>2, <1>4, <1>5

---------------------------------------------------------------------------
(* FlattenSeq *)

\* The sequences one after the other: the k-th begins behind off[k].
Laid(flat, seqs, off) ==
    /\ off \in [1..(Len(seqs) + 1) -> Nat]
    /\ off[1] = 0 /\ Len(flat) = off[Len(seqs) + 1]
    /\ \A k \in 1..Len(seqs) : off[k + 1] = off[k] + Len(seqs[k])
    /\ \A k \in 1..Len(seqs) : \A j \in 1..Len(seqs[k]) : flat[off[k] + j] = seqs[k][j]

\* One sequence behind another.
Joins(r, s, t) ==
    /\ Len(r) = Len(s) + Len(t)
    /\ \A i \in 1..Len(s) : i \in 1..Len(r) /\ r[i] = s[i]
    /\ \A j \in 1..Len(t) : Len(s) + j \in 1..Len(r) /\ r[Len(s) + j] = t[j]

LEMMA JoinIs ==
    ASSUME NEW A, NEW s \in Seq(A), NEW t \in Seq(A)
    PROVE  s \o t \in Seq(A) /\ Joins(s \o t, s, t)
<1>1. s \o t \in Seq(A) /\ Len(s \o t) = Len(s) + Len(t) /\ Len(s) \in Nat /\ Len(t) \in Nat
  OBVIOUS
<1>2. ASSUME NEW j \in 1..Len(t) PROVE (s \o t)[Len(s) + j] = t[j]
  <2>1. Len(s) + j \in 1..(Len(s) + Len(t)) /\ Len(s) + j > Len(s) /\ (Len(s) + j) - Len(s) = j
    BY <1>1
  <2>2. (s \o t)[Len(s) + j] = t[(Len(s) + j) - Len(s)]
    BY <2>1, <1>1, ConcatProperties
  <2> QED  BY <2>1, <2>2
<1>3. ASSUME NEW i \in 1..Len(s) PROVE (s \o t)[i] = s[i]
  BY <1>1, ConcatProperties
<1> QED  BY <1>1, <1>2, <1>3 DEF Joins

\* What the recursive function of FlattenSeq has at each of its first m places.
Joined(f, seqs, m) == \A i \in 1..m : f[i] = IF i = 1 THEN seqs[i] ELSE f[i - 1] \o seqs[i]

LEMMA JoinExists ==
    ASSUME NEW A, NEW seqs \in Seq(Seq(A)), NEW n \in 0..Len(seqs)
    PROVE  \E f \in [1..n -> Seq(A)] : Joined(f, seqs, n)
<1> DEFINE Can(m) == m \in 0..Len(seqs) => \E f \in [1..m -> Seq(A)] : Joined(f, seqs, m)
           K == {m \in Nat : Can(m)}
<1>1. Can(0)
  <2> DEFINE f == [i \in 1..0 |-> <<>>]
  <2>1. f \in [1..0 -> Seq(A)] /\ Joined(f, seqs, 0)
    BY DEF Joined
  <2> QED  BY <2>1
<1>2. ASSUME NEW m \in Nat, Can(m) PROVE Can(m + 1)
  <2> SUFFICES ASSUME m + 1 \in 0..Len(seqs)
               PROVE  \E f \in [1..(m + 1) -> Seq(A)] : Joined(f, seqs, m + 1)
    OBVIOUS
  <2>1. m \in 0..Len(seqs) /\ seqs[m + 1] \in Seq(A)
    OBVIOUS
  <2>2. PICK f \in [1..m -> Seq(A)] : Joined(f, seqs, m)
    BY <1>2, <2>1
  <2> DEFINE last == IF m = 0 THEN seqs[m + 1] ELSE f[m] \o seqs[m + 1]
             g == [i \in 1..(m + 1) |-> IF i = m + 1 THEN last ELSE f[i]]
  <2>3. last \in Seq(A)
    <3>1. m # 0 => m \in 1..m
      OBVIOUS
    <3>2. m # 0 => f[m] \in Seq(A)
      BY <3>1
    <3> QED  BY <2>1, <3>2
  <2>4. g \in [1..(m + 1) -> Seq(A)]
    <3> HIDE DEF last
    <3> QED  BY <2>3
  <2>5. ASSUME NEW i \in 1..(m + 1) PROVE g[i] = IF i = 1 THEN seqs[i] ELSE g[i - 1] \o seqs[i]
    <3>1. CASE i = m + 1
      <4>1. g[i] = last
        BY <3>1
      <4>2. m # 0 => g[m] = f[m] /\ i - 1 = m
        BY <3>1
      <4>3. m = 0 <=> i = 1
        BY <3>1
      <4> HIDE DEF g
      <4> QED  BY <3>1, <4>1, <4>2, <4>3
    <3>2. CASE i \in 1..m
      <4>1. g[i] = f[i]
        <5>1. i # m + 1
          BY <3>2
        <5> HIDE DEF last
        <5> QED  BY <5>1
      <4>2. i # 1 => i - 1 \in 1..m /\ g[i - 1] = f[i - 1]
        BY <3>2
      <4>3. f[i] = IF i = 1 THEN seqs[i] ELSE f[i - 1] \o seqs[i]
        BY <2>2, <3>2 DEF Joined
      <4> HIDE DEF g
      <4> QED  BY <4>1, <4>2, <4>3
    <3> QED  BY <3>1, <3>2
  <2> HIDE DEF g
  <2> QED  BY <2>4, <2>5 DEF Joined
<1>3. \A m \in Nat : m \in K
  <2>1. 0 \in K
    BY <1>1
  <2>2. \A m \in Nat : m \in K => m + 1 \in K
    BY <1>2
  <2> HIDE DEF K
  <2> QED  BY <2>1, <2>2, SetInduction
<1>4. n \in Nat
  OBVIOUS
<1> QED  BY <1>3, <1>4

LEMMA FlattenLays ==
    ASSUME NEW A, NEW seqs \in Seq(Seq(A))
    PROVE  FlattenSeq(seqs) \in Seq(A) /\ \E off : Laid(FlattenSeq(seqs), seqs, off)
<1> DEFINE n == Len(seqs)
           Solves(h) == h = [i \in 1..n |-> IF i = 1 THEN seqs[i] ELSE h[i - 1] \o seqs[i]]
           F == CHOOSE h : Solves(h)
<1>1. n \in Nat /\ \A i \in 1..n : seqs[i] \in Seq(A)
  OBVIOUS
<1>2. PICK f \in [1..n -> Seq(A)] : Joined(f, seqs, n)
  <2>1. n \in 0..Len(seqs)
    OBVIOUS
  <2> HIDE DEF n
  <2> QED  BY <2>1, JoinExists
<1>3. Solves(f)
  <2> HIDE DEF n
  <2> QED  BY <1>2 DEF Joined
<1>4. Solves(F)
  BY <1>3
<1>5. Len(seqs) # 0 => FlattenSeq(seqs) = F[n]
  BY DEF FlattenSeq
<1> HIDE DEF n, F
<1>6. Joined(F, seqs, n)
  BY <1>4 DEF Joined
<1> DEFINE off == [k \in 1..(n + 1) |-> IF k = 1 THEN 0 ELSE Len(F[k - 1])]
           Begins(i) == \A k \in 1..i : \A j \in 1..Len(seqs[k]) :
                            off[k] + j \in 1..Len(F[i]) /\ F[i][off[k] + j] = seqs[k][j]
           Good(i) == i \in 1..n => /\ F[i] \in Seq(A) /\ off[i + 1] = Len(F[i])
                                    /\ off[i] \in Nat /\ off[i + 1] = off[i] + Len(seqs[i])
                                    /\ Begins(i)
           G == {i \in Nat : Good(i)}
<1>7. ASSUME NEW i \in Nat, Good(i) PROVE Good(i + 1)
  <2> SUFFICES ASSUME i + 1 \in 1..n
               PROVE  /\ F[i + 1] \in Seq(A) /\ off[(i + 1) + 1] = Len(F[i + 1])
                      /\ off[i + 1] \in Nat /\ off[(i + 1) + 1] = off[i + 1] + Len(seqs[i + 1])
                      /\ Begins(i + 1)
    OBVIOUS
  <2>1. off[(i + 1) + 1] = Len(F[i + 1])
    <3>1. (i + 1) + 1 \in 1..(n + 1) /\ (i + 1) + 1 # 1 /\ ((i + 1) + 1) - 1 = i + 1
      BY <1>1
    <3> QED  BY <3>1
  <2>2. seqs[i + 1] \in Seq(A) /\ Len(seqs[i + 1]) \in Nat
    BY <1>1
  <2>3. CASE i = 0
    <3>1. F[i + 1] = seqs[i + 1] /\ off[i + 1] = 0
      <4>1. i + 1 = 1 /\ 1 \in 1..n /\ 1 \in 1..(n + 1)
        BY <2>3, <1>1
      <4> QED  BY <1>6, <4>1 DEF Joined
    <3>2. ASSUME NEW k \in 1..(i + 1), NEW j \in 1..Len(seqs[k])
          PROVE  off[k] + j \in 1..Len(F[i + 1]) /\ F[i + 1][off[k] + j] = seqs[k][j]
      <4>1. k = i + 1
        BY <2>3
      <4> HIDE DEF off
      <4> QED  BY <3>1, <4>1, <2>2
    <3> HIDE DEF off
    <3> QED  BY <2>1, <2>2, <3>1, <3>2
  <2>4. CASE i # 0
    <3>1. i \in 1..n /\ i + 1 # 1 /\ (i + 1) - 1 = i
      BY <2>4, <1>1
    <3>2. F[i + 1] = F[i] \o seqs[i + 1]
      BY <1>6, <3>1 DEF Joined
    <3>3. F[i] \in Seq(A) /\ off[i + 1] = Len(F[i]) /\ Begins(i) /\ Len(F[i]) \in Nat
      BY <1>7, <3>1, SMTT(30)
    <3>4. F[i + 1] \in Seq(A) /\ Len(F[i + 1]) = Len(F[i]) + Len(seqs[i + 1])
      BY <3>2, <3>3, <2>2
    <3>6. /\ \A q \in 1..Len(F[i]) : q \in 1..Len(F[i + 1]) /\ F[i + 1][q] = F[i][q]
          /\ \A q \in 1..Len(seqs[i + 1]) :
                Len(F[i]) + q \in 1..Len(F[i + 1]) /\ F[i + 1][Len(F[i]) + q] = seqs[i + 1][q]
      <4> HIDE DEF off, Begins, Good
      <4>1. F[i] \in Seq(A)
        BY <3>3
      <4>2. Joins(F[i + 1], F[i], seqs[i + 1])
        BY <3>2, <4>1, <2>2, JoinIs
      <4> QED  BY <4>2 DEF Joins
    <3>5. ASSUME NEW k \in 1..(i + 1), NEW j \in 1..Len(seqs[k])
          PROVE  off[k] + j \in 1..Len(F[i + 1]) /\ F[i + 1][off[k] + j] = seqs[k][j]
      <4>1. CASE k = i + 1
        <5>1. j \in 1..Len(seqs[i + 1]) /\ off[k] = Len(F[i])
          BY <4>1, <3>3
        <5> HIDE DEF off
        <5> QED  BY <3>6, <4>1, <5>1
      <4>2. CASE k \in 1..i
        <5>1. off[k] + j \in 1..Len(F[i]) /\ F[i][off[k] + j] = seqs[k][j]
          BY <3>3, <4>2
        <5> HIDE DEF off
        <5> QED  BY <3>6, <5>1
      <4> QED  BY <4>1, <4>2
    <3> HIDE DEF off
    <3> QED  BY <2>1, <2>2, <3>3, <3>4, <3>5
  <2> QED  BY <2>3, <2>4
<1>8. \A i \in Nat : i \in G
  <2>1. 0 \in G
    OBVIOUS
  <2>2. \A i \in Nat : i \in G => i + 1 \in G
    <3> HIDE DEF Good
    <3> QED  BY <1>7
  <2> HIDE DEF G
  <2> QED  BY <2>1, <2>2, SetInduction
<1>9. \A i \in 1..n : Good(i)
  <2> HIDE DEF Good
  <2> QED  BY <1>8
<1>10. CASE n = 0
  <2>1. seqs = <<>>
    BY <1>10 DEF n
  <2>2. FlattenSeq(seqs) = <<>>
    BY <2>1 DEF FlattenSeq
  <2>3. Laid(<<>>, seqs, [k \in 1..1 |-> 0])
    BY <2>1 DEF Laid
  <2> QED  BY <2>2, <2>3
<1>11. CASE n # 0
  <2>1. n \in 1..n /\ FlattenSeq(seqs) = F[n]
    BY <1>1, <1>5, <1>11 DEF n
  <2>2. Laid(F[n], seqs, off)
    <3>1. off[1] = 0
      BY <1>1
    <3>2. \A k \in 1..n : off[k] \in Nat /\ off[k + 1] \in Nat /\ off[k + 1] = off[k] + Len(seqs[k])
      <4>1. \A k \in 1..n : off[k] \in Nat /\ off[k + 1] = off[k] + Len(seqs[k]) /\ Len(seqs[k]) \in Nat
        <5> HIDE DEF off
        <5> QED  BY <1>9, <1>1
      <4> HIDE DEF off
      <4> QED  BY <4>1
    <3>3. Len(F[n]) = off[n + 1]
      BY <1>9, <2>1
    <3>4. off \in [1..(n + 1) -> Nat]
      <4>1. \A k \in 1..(n + 1) : off[k] \in Nat
        <5>1. n + 1 \in Nat
          BY <1>1
        <5>2. \A k \in 1..(n + 1) : k \in 1..n \/ k = n + 1
          BY <1>1
        <5> HIDE DEF off
        <5> QED  BY <3>2, <2>1, <5>2
      <4>2. off = [k \in 1..(n + 1) |-> off[k]]
        OBVIOUS
      <4> HIDE DEF off
      <4> QED  BY <4>1, <4>2
    <3>5. \A k \in 1..n : \A j \in 1..Len(seqs[k]) : F[n][off[k] + j] = seqs[k][j]
      BY <1>9, <2>1, ZenonT(30)
    <3> HIDE DEF off
    <3> QED  BY <3>1, <3>2, <3>3, <3>4, <3>5 DEF Laid, n
  <2>3. F[n] \in Seq(A)
    BY <1>9, <2>1
  <2> HIDE DEF off
  <2> QED  BY <2>1, <2>2, <2>3
<1> QED  BY <1>10, <1>11

---------------------------------------------------------------------------
(* The text of a subject *)

\* The characters, by name.
Blank == " "
Equal == "="
Backslash == "\\"
Comma == ","
Slash == "/"

\* Which backslashes stand for the next character is settled from left to right.
LEMMA EscapingIs ==
    ASSUME NEW W, NEW s \in Seq(W), NEW M \in SUBSET (1..Len(s)),
           \A i \in 1..Len(s) : i \in M <=> i \in 1..(Len(s) - 1) /\ s[i] = Backslash /\ i - 1 \notin M
    PROVE  Escaping(s) = M
<1> DEFINE n == Len(s)
           Solves(h) == h = [i \in 0..n |-> i \in 1..(n - 1) /\ s[i] = Backslash /\ ~h[i - 1]]
           F == CHOOSE h : Solves(h)
           g == [i \in 0..n |-> i \in M]
<1>1. n \in Nat
  OBVIOUS
<1> HIDE DEF n
<1>2. Solves(g)
  <2>1. ASSUME NEW i \in 0..n PROVE (i \in M) = (i \in 1..(n - 1) /\ s[i] = Backslash /\ ~g[i - 1])
    <3>1. CASE i = 0
      <4>1. i \notin M /\ i \notin 1..(n - 1)
        BY <3>1 DEF n
      <4> QED  BY <4>1
    <3>2. CASE i # 0
      <4>1. i \in 1..n /\ i - 1 \in 0..n
        BY <3>2, <1>1
      <4>2. g[i - 1] = (i - 1 \in M)
        BY <4>1
      <4>3. i \in M <=> i \in 1..(n - 1) /\ s[i] = Backslash /\ i - 1 \notin M
        BY <4>1 DEF n
      <4> HIDE DEF g
      <4>4. i \in M <=> i \in 1..(n - 1) /\ s[i] = Backslash /\ ~g[i - 1]
        BY <4>2, <4>3, Zenon
      <4> QED  BY <4>4, SMT
    <3> QED  BY <3>1, <3>2
  <2> QED  BY <2>1
<1>3. Solves(F)
  BY <1>2
<1> DEFINE Agrees(i) == i \in 0..n => (F[i] <=> i \in M)
           G == {i \in Nat : Agrees(i)}
<1>4. \A i \in 0..n : F[i] = (i \in 1..(n - 1) /\ s[i] = Backslash /\ ~F[i - 1])
  <2> HIDE DEF F
  <2> QED  BY <1>3
<1>5. Escaping(s) = {i \in DOMAIN s : F[i]}
  BY DEF Escaping, Backslash, n
<1> HIDE DEF F
<1>6. Agrees(0)
  <2>1. 0 \notin M /\ 0 \notin 1..(n - 1)
    BY DEF n
  <2> QED  BY <1>4, <2>1
<1>7. ASSUME NEW i \in Nat, Agrees(i) PROVE Agrees(i + 1)
  <2> SUFFICES ASSUME i + 1 \in 0..n PROVE F[i + 1] <=> i + 1 \in M
    OBVIOUS
  <2>1. i + 1 \in 1..n /\ i \in 0..n /\ (i + 1) - 1 = i
    BY <1>1
  <2>2. F[i] <=> i \in M
    BY <1>7, <2>1
  <2>3. i + 1 \in M <=> i + 1 \in 1..(n - 1) /\ s[i + 1] = Backslash /\ i \notin M
    BY <2>1 DEF n
  <2>4. F[i + 1] = (i + 1 \in 1..(n - 1) /\ s[i + 1] = Backslash /\ ~F[i])
    BY <1>4, <2>1
  <2> QED  BY <2>2, <2>3, <2>4
<1>8. \A i \in Nat : i \in G
  <2>1. 0 \in G
    BY <1>6
  <2>2. \A i \in Nat : i \in G => i + 1 \in G
    <3> HIDE DEF Agrees
    <3> QED  BY <1>7
  <2> HIDE DEF G
  <2> QED  BY <2>1, <2>2, SetInduction
<1>9. \A i \in 1..n : F[i] <=> i \in M
  <2>1. \A i \in 1..n : i \in Nat /\ i \in 0..n
    BY <1>1
  <2> QED  BY <1>8, <2>1
<1>10. DOMAIN s = 1..n /\ M \subseteq 1..n
  BY DEF n
<1> QED  BY <1>5, <1>9, <1>10

\* What stands at the positions of an ascending enumeration, and at all positions.
Through(s, e, n) == [i \in 1..n |-> s[e[i]]]

LEMMA PickedIs ==
    ASSUME NEW W, NEW s \in Seq(W), NEW n \in Nat, NEW e \in [1..n -> 1..Len(s)],
           NEW S, Enumerates(e, n, S)
    PROVE  Picked(s, S) = Through(s, e, n)
<1>1. e \in [1..n -> Nat]
  OBVIOUS
<1>2. Cardinality(S) = n /\ Ordered(S) = e
  BY <1>1, OrderedIs
<1> QED  BY <1>2 DEF Picked, Through

LEMMA PickedAll ==
    ASSUME NEW W, NEW s \in Seq(W)
    PROVE  Picked(s, DOMAIN s) = s
<1> DEFINE n == Len(s)
           e == [i \in 1..n |-> i]
<1>1. n \in Nat /\ DOMAIN s = 1..n
  OBVIOUS
<1> HIDE DEF n
<1>2. e \in [1..n -> 1..n] /\ Enumerates(e, n, 1..n)
  BY <1>1 DEF Increasing, Enumerates
<1> HIDE DEF e
<1>3. Picked(s, 1..n) = Through(s, e, n)
  <2>1. e \in [1..n -> 1..Len(s)]
    BY <1>2 DEF n
  <2> QED  BY <1>1, <1>2, <2>1, PickedIs
<1> QED  BY <1>1, <1>3 DEF e, Through

LEMMA SliceIs ==
    ASSUME NEW W, NEW s, NEW t \in Seq(W), NEW m \in Int, NEW to \in Int, to = m + Len(t),
           \A j \in 1..Len(t) : s[m + j] = t[j]
    PROVE  SubSeq(s, m + 1, to) = t
<1>1. Len(t) \in Nat /\ \A j \in 1..Len(t) : t[j] \in W
  OBVIOUS
<1>2. ASSUME NEW i \in (m + 1)..to PROVE s[i] \in W
  <2>1. i - m \in 1..Len(t) /\ m + (i - m) = i
    BY <1>1
  <2> QED  BY <1>1, <2>1
<1>3. /\ SubSeq(s, m + 1, to) \in Seq(W)
      /\ Len(SubSeq(s, m + 1, to)) = IF m + 1 <= to THEN to - (m + 1) + 1 ELSE 0
      /\ \A i \in 1..(to - (m + 1) + 1) : SubSeq(s, m + 1, to)[i] = s[(m + 1) + i - 1]
  BY <1>2, SubSeqProperties
<1>4. Len(SubSeq(s, m + 1, to)) = Len(t)
  BY <1>1, <1>3
<1>5. ASSUME NEW j \in 1..Len(t) PROVE SubSeq(s, m + 1, to)[j] = t[j]
  <2>1. j \in 1..(to - (m + 1) + 1) /\ (m + 1) + j - 1 = m + j
    BY <1>1
  <2> QED  BY <1>3, <2>1
<1> QED  BY <1>3, <1>4, <1>5, SeqEqual

\* The text d consists of the parts, each but the first behind a separator at off.
Spelled(d, sep, parts, off) ==
    /\ off \in [1..(Len(parts) + 1) -> Nat]
    /\ off[1] = 0 /\ off[Len(parts) + 1] = Len(d) + 1
    /\ \A k \in 1..Len(parts) : off[k + 1] = off[k] + Len(parts[k]) + 1
    /\ \A k \in 1..Len(parts) : \A j \in 1..Len(parts[k]) : d[off[k] + j] = parts[k][j]
    /\ \A k \in 2..Len(parts) : d[off[k]] = sep

\* What goes up at every step goes up throughout, and passes every number on its way.
LEMMA Steps ==
    ASSUME NEW n \in Nat, NEW off \in [1..(n + 1) -> Nat], \A k \in 1..n : off[k] < off[k + 1]
    PROVE  /\ Increasing(off, n + 1)
           /\ \A p \in Nat : off[1] <= p /\ p < off[n + 1] => \E k \in 1..n : off[k] <= p /\ p < off[k + 1]
<1> DEFINE Before(j) == j \in 1..(n + 1) => \A i \in 1..(n + 1) : i < j => off[i] < off[j]
           B == {j \in Nat : Before(j)}
<1>1. \A j \in Nat : j \in B
  <2>1. 0 \in B
    OBVIOUS
  <2>2. ASSUME NEW j \in Nat, Before(j) PROVE Before(j + 1)
    <3> SUFFICES ASSUME j + 1 \in 1..(n + 1), NEW i \in 1..(n + 1), i < j + 1 PROVE off[i] < off[j + 1]
      OBVIOUS
    <3>1. j \in 1..n /\ j \in 1..(n + 1) /\ (i < j \/ i = j)
      OBVIOUS
    <3>2. off[j] < off[j + 1] /\ off[j] \in Nat /\ off[i] \in Nat /\ off[j + 1] \in Nat
      BY <3>1
    <3>3. off[i] <= off[j]
      BY <2>2, <3>1, <3>2
    <3> QED  BY <3>2, <3>3
  <2>3. \A j \in Nat : j \in B => j + 1 \in B
    <3> HIDE DEF Before
    <3> QED  BY <2>2
  <2> HIDE DEF B
  <2> QED  BY <2>1, <2>3, SetInduction
<1>2. Increasing(off, n + 1)
  <2>1. \A j \in 1..(n + 1) : j \in Nat
    OBVIOUS
  <2> QED  BY <1>1, <2>1 DEF Increasing
<1>3. ASSUME NEW p \in Nat, off[1] <= p, p < off[n + 1]
      PROVE  \E k \in 1..n : off[k] <= p /\ p < off[k + 1]
  <2> DEFINE Found(j) == j \in 1..(n + 1) /\ p < off[j] => \E k \in 1..n : off[k] <= p /\ p < off[k + 1]
             S == {j \in Nat : Found(j)}
  <2>1. \A j \in Nat : j \in S
    <3>1. 0 \in S
      OBVIOUS
    <3>2. ASSUME NEW j \in Nat, Found(j) PROVE Found(j + 1)
      <4> SUFFICES ASSUME j + 1 \in 1..(n + 1), p < off[j + 1]
                   PROVE  \E k \in 1..n : off[k] <= p /\ p < off[k + 1]
        OBVIOUS
      <4>1. j # 0
        BY <1>3
      <4>2. j \in 1..n /\ j \in 1..(n + 1) /\ off[j] \in Nat
        BY <4>1
      <4> QED  BY <3>2, <4>2
    <3>3. \A j \in Nat : j \in S => j + 1 \in S
      <4> HIDE DEF Found
      <4> QED  BY <3>2
    <3> HIDE DEF S
    <3> QED  BY <3>1, <3>3, SetInduction
  <2>2. n + 1 \in Nat /\ n + 1 \in 1..(n + 1) /\ p < off[n + 1]
    BY <1>3
  <2> QED  BY <2>1, <2>2
<1> QED  BY <1>2, <1>3

\* The separators come one after the other, and every position is a separator's or some part's.
LEMMA WrittenInOrder ==
    ASSUME NEW W, NEW d \in Seq(W), NEW parts \in Seq(Seq(W)), NEW sep, NEW off, Spelled(d, sep, parts, off)
    PROVE  /\ Increasing(off, Len(parts) + 1)
           /\ \A p \in 1..Len(d) : \E k \in 1..Len(parts) :
                  off[k] <= p /\ p < off[k + 1] /\ (p = off[k] \/ p - off[k] \in 1..Len(parts[k]))
<1> DEFINE n == Len(parts)
<1>1. n \in Nat /\ Len(d) \in Nat /\ \A k \in 1..n : parts[k] \in Seq(W) /\ Len(parts[k]) \in Nat
  <2>1. n \in Nat /\ Len(d) \in Nat /\ \A k \in 1..n : parts[k] \in Seq(W)
    OBVIOUS
  <2>2. \A t \in Seq(W) : Len(t) \in Nat
    OBVIOUS
  <2> HIDE DEF n
  <2> QED  BY <2>1, <2>2
<1> HIDE DEF n
<1>2. /\ off \in [1..(n + 1) -> Nat] /\ off[1] = 0 /\ off[n + 1] = Len(d) + 1
      /\ \A k \in 1..n : off[k + 1] = off[k] + Len(parts[k]) + 1
  BY DEF Spelled, n
<1>3. \A k \in 1..n : off[k] \in Nat /\ off[k] < off[k + 1]
  <2> TAKE k \in 1..n
  <2>1. k \in 1..(n + 1) /\ off[k + 1] = off[k] + Len(parts[k]) + 1 /\ Len(parts[k]) \in Nat
    BY <1>1, <1>2
  <2>2. off[k] \in Nat
    BY <1>2, <2>1
  <2> QED  BY <2>1, <2>2
<1>4. Increasing(off, n + 1)
  BY <1>1, <1>2, <1>3, Steps
<1>5. ASSUME NEW p \in 1..Len(d)
      PROVE  \E k \in 1..n : off[k] <= p /\ p < off[k + 1] /\ (p = off[k] \/ p - off[k] \in 1..Len(parts[k]))
  <2>1. p \in Nat /\ off[1] <= p /\ p < off[n + 1]
    BY <1>1, <1>2
  <2>2. PICK k \in 1..n : off[k] <= p /\ p < off[k + 1]
    BY <2>1, <1>1, <1>2, <1>3, Steps
  <2>3. off[k + 1] = off[k] + Len(parts[k]) + 1 /\ off[k] \in Nat /\ Len(parts[k]) \in Nat
    BY <1>1, <1>2, <1>3
  <2>4. p = off[k] \/ p - off[k] \in 1..Len(parts[k])
    BY <2>2, <2>3
  <2> QED  BY <2>2, <2>4
<1> QED  BY <1>4, <1>5 DEF n

LEMMA PartsAre ==
    ASSUME NEW W, NEW d \in Seq(W), NEW parts \in Seq(Seq(W)), NEW sep, NEW off, Spelled(d, sep, parts, off),
           parts # <<>>, NEW cuts,
           \A k \in 2..Len(parts) : off[k] \in cuts,
           \A p \in cuts : \E k \in 2..Len(parts) : p = off[k]
    PROVE  Parts(d, cuts) = parts
<1> DEFINE n == Len(parts)
           S == cuts \cup {0, Len(d) + 1}
<1>1. n \in Nat \ {0} /\ n + 1 \in Nat /\ off \in [1..(n + 1) -> Nat]
  BY DEF Spelled
<1>2. Enumerates(off, n + 1, S)
  <2>1. \A k \in 1..(n + 1) : k = 1 \/ k \in 2..n \/ k = n + 1
    BY <1>1
  <2>2. off[1] = 0 /\ off[n + 1] = Len(d) + 1 /\ 1 \in 1..(n + 1) /\ n + 1 \in 1..(n + 1)
    BY <1>1 DEF Spelled
  <2>3. Increasing(off, n + 1)
    BY WrittenInOrder
  <2>4. \A k \in 2..n : k \in 1..(n + 1)
    BY <1>1
  <2>5. \A k \in 1..(n + 1) : off[k] \in S
    BY <2>1, <2>2
  <2>6. \A y \in S : \E k \in 1..(n + 1) : y = off[k]
    BY <2>2, <2>4
  <2> HIDE DEF n, S
  <2> QED  BY <2>3, <2>5, <2>6 DEF Enumerates, n
<1>3. Ordered(S) = off
  <2> HIDE DEF S, n
  <2> QED  BY <1>1, <1>2, OrderedIs
<1>4. Len(off) = n + 1
  BY <1>1
<1>5. ASSUME NEW k \in 1..n PROVE SubSeq(d, off[k] + 1, off[k + 1] - 1) = parts[k]
  <2>1. /\ off[k] \in Nat /\ Len(parts[k]) \in Nat /\ parts[k] \in Seq(W)
        /\ off[k + 1] = off[k] + Len(parts[k]) + 1
        /\ \A j \in 1..Len(parts[k]) : d[off[k] + j] = parts[k][j]
    <3>1. parts[k] \in Seq(W) /\ k \in 1..(n + 1)
      BY <1>1
    <3>2. Len(parts[k]) \in Nat
      BY <3>1
    <3> HIDE DEF n
    <3> QED  BY <1>1, <3>1, <3>2 DEF Spelled, n
  <2> DEFINE t == parts[k]
             m == off[k]
             to == off[k + 1] - 1
  <2>2. m \in Int /\ to \in Int /\ to = m + Len(t) /\ t \in Seq(W)
    BY <2>1
  <2>3. \A j \in 1..Len(t) : d[m + j] = t[j]
    BY <2>1
  <2> HIDE DEF t, m, to
  <2>4. SubSeq(d, m + 1, to) = t
    BY <2>2, <2>3, SliceIs
  <2> QED  BY <2>4 DEF t, m, to
<1>6. Parts(d, cuts) = [k \in 1..n |-> SubSeq(d, off[k] + 1, off[k + 1] - 1)]
  <2>1. Len(off) - 1 = n
    BY <1>1, <1>4
  <2> HIDE DEF n
  <2> QED  BY <1>3, <2>1 DEF Parts
<1>7. Parts(d, cuts) = [k \in 1..n |-> parts[k]]
  BY <1>5, <1>6
<1> QED  BY <1>7

LEMMA MinIs ==
    ASSUME NEW S \in SUBSET Int, NEW m \in S, \A k \in S : m <= k
    PROVE  Min(S) = m
<1>1. \A x \in S : (\A k \in S : x <= k) => x = m
  OBVIOUS
<1> QED  BY <1>1 DEF Min

LEMMA MaxIs ==
    ASSUME NEW S \in SUBSET Int, NEW m \in S, \A k \in S : m >= k
    PROVE  Max(S) = m
<1>1. \A x \in S : (\A k \in S : x >= k) => x = m
  OBVIOUS
<1> QED  BY <1>1 DEF Max

Trimmed(s) == s # <<>> => s[1] # Blank /\ s[Len(s)] # Blank

LEMMA TrimKeeps ==
    ASSUME NEW W, NEW s \in Seq(W), Trimmed(s)
    PROVE  TrimSpace(s) = s
<1> DEFINE kept == {i \in DOMAIN s : s[i] # Blank}
<1>1. CASE s = <<>>
  BY <1>1 DEF TrimSpace
<1>2. CASE s # <<>>
  <2>1. Len(s) \in Nat /\ DOMAIN s = 1..Len(s) /\ Len(s) > 0
    BY <1>2
  <2>2. 1 \in kept /\ Len(s) \in kept /\ kept \in SUBSET Int /\ kept \subseteq 1..Len(s)
    <3>1. s[1] # Blank /\ s[Len(s)] # Blank
      BY <1>2 DEF Trimmed
    <3>2. 1 \in 1..Len(s) /\ Len(s) \in 1..Len(s)
      BY <2>1
    <3>3. kept \subseteq 1..Len(s)
      BY <2>1
    <3>4. kept \in SUBSET Int
      BY <2>1
    <3> QED  BY <2>1, <3>1, <3>2, <3>3, <3>4
  <2>3. Min(kept) = 1 /\ Max(kept) = Len(s)
    <3> HIDE DEF kept
    <3>1. \A k \in kept : 1 <= k /\ Len(s) >= k
      BY <2>1, <2>2
    <3> QED  BY <2>2, <3>1, MinIs, MaxIs
  <2>4. SubSeq(s, 1, Len(s)) = s
    BY SubSeqFull
  <2>5. TrimSpace(s) = IF kept = {} THEN <<>> ELSE SubSeq(s, Min(kept), Max(kept))
    BY DEF TrimSpace, Blank
  <2> HIDE DEF kept
  <2> QED  BY <2>2, <2>3, <2>4, <2>5
<1> QED  BY <1>1, <1>2

\* An attribute as it is written: its type, an equals sign and its value.
Attribute(type, value) == <<type, Equal>> \o value

Spells(p, type, value) ==
    /\ Len(p) = 2 + Len(value) /\ p[1] = type /\ p[2] = Equal
    /\ \A j \in 1..Len(value) : p[2 + j] = value[j]

LEMMA AttributeIs ==
    ASSUME NEW W, Equal \in W, NEW type \in W, NEW value \in Seq(W)
    PROVE  Attribute(type, value) \in Seq(W) /\ Spells(Attribute(type, value), type, value)
<1> DEFINE s == <<type, Equal>>
<1>1. s \in Seq(W) /\ Len(s) = 2 /\ s[1] = type /\ s[2] = Equal
  OBVIOUS
<1> HIDE DEF s
<1>2. s \o value \in Seq(W) /\ Joins(s \o value, s, value)
  BY <1>1, JoinIs
<1> DEFINE r == s \o value
<1>3. r = Attribute(type, value)
  BY DEF Attribute, s
<1>4. r \in Seq(W) /\ Joins(r, s, value)
  BY <1>2
<1> HIDE DEF r
<1>5. Len(r) = 2 + Len(value) /\ r[1] = type /\ r[2] = Equal /\ \A j \in 1..Len(value) : r[2 + j] = value[j]
  BY <1>1, <1>4 DEF Joins
<1> QED  BY <1>3, <1>4, <1>5 DEF Spells

Attributed(type, value, n) == [k \in 1..n |-> Attribute(type[k], value[k])]
Typed(type, value, n) == [k \in 1..n |-> [type |-> <<type[k]>>, value |-> value[k]]]

EqualsIn(p) == {i \in DOMAIN p : p[i] = Equal}

\* An attribute is cut at its first equals sign, and nothing is trimmed away.
LEMMA FieldIs ==
    ASSUME NEW W, Equal \in W, NEW t \in W, t # Equal, t # Blank, NEW v \in Seq(W), Trimmed(v),
           NEW p, p = Attribute(t, v)
    PROVE  /\ p \in Seq(W) /\ Trimmed(p) /\ TrimSpace(p) = p /\ EqualsIn(p) # {} /\ Min(EqualsIn(p)) = 2
           /\ TrimSpace(SubSeq(p, 1, 2 - 1)) = <<t>>
           /\ TrimSpace(SubSeq(p, 2 + 1, Len(p))) = v
<1>1. /\ p \in Seq(W) /\ Len(v) \in Nat /\ Len(p) = 2 + Len(v) /\ p[1] = t /\ p[2] = Equal
      /\ \A j \in 1..Len(v) : p[2 + j] = v[j]
  <2>1. p \in Seq(W) /\ Spells(p, t, v)
    BY AttributeIs
  <2> QED  BY <2>1 DEF Spells
<1>2. Trimmed(p)
  <2>1. CASE v = <<>>
    <3>1. Len(p) = 2
      BY <1>1, <2>1
    <3> QED  BY <1>1, <3>1 DEF Trimmed, Equal, Blank
  <2>2. CASE v # <<>>
    <3>1. Len(v) \in 1..Len(v)
      BY <1>1, <2>2
    <3>2. v[Len(v)] # Blank
      BY <2>2 DEF Trimmed
    <3>3. p[Len(p)] = v[Len(v)]
      BY <1>1, <3>1
    <3> QED  BY <1>1, <3>2, <3>3 DEF Trimmed
  <2> QED  BY <2>1, <2>2
<1>3. TrimSpace(p) = p
  BY <1>1, <1>2, TrimKeeps
<1>4. EqualsIn(p) # {} /\ Min(EqualsIn(p)) = 2
  <2>1. DOMAIN p = 1..Len(p)
    BY <1>1
  <2>2. 2 \in EqualsIn(p)
    BY <1>1, <2>1 DEF EqualsIn
  <2>3. EqualsIn(p) \in SUBSET Int
    BY <1>1, <2>1 DEF EqualsIn
  <2>4. \A i \in EqualsIn(p) : 2 <= i
    BY <1>1, <2>1 DEF EqualsIn
  <2> QED  BY <2>2, <2>3, <2>4, MinIs
<1>5. TrimSpace(SubSeq(p, 1, 2 - 1)) = <<t>>
  <2> DEFINE one == <<t>>
  <2>1. one \in Seq(W) /\ Len(one) = 1 /\ one[1] = t
    OBVIOUS
  <2> HIDE DEF one
  <2>2. SubSeq(p, 1, 2 - 1) = one
    <3>1. \A j \in 1..Len(one) : p[0 + j] = one[j]
      BY <1>1, <2>1
    <3>2. 0 \in Int /\ 1 \in Int /\ 1 = 0 + Len(one)
      BY <2>1
    <3>3. SubSeq(p, 0 + 1, 1) = one
      BY <2>1, <3>1, <3>2, SliceIs
    <3> QED  BY <3>3
  <2>3. Trimmed(one)
    BY <2>1 DEF Trimmed
  <2>4. TrimSpace(one) = one
    BY <2>1, <2>3, TrimKeeps
  <2> QED  BY <2>2, <2>4 DEF one
<1>6. TrimSpace(SubSeq(p, 2 + 1, Len(p))) = v
  <2>1. 2 \in Int /\ Len(p) \in Int
    BY <1>1
  <2>2. SubSeq(p, 2 + 1, Len(p)) = v
    BY <1>1, <2>1, SliceIs
  <2>3. TrimSpace(v) = v
    BY TrimKeeps
  <2> QED  BY <2>2, <2>3
<1> QED  BY <1>1, <1>2, <1>3, <1>4, <1>5, <1>6

\* What is written as attributes is read as them.
LEMMA FieldsAre ==
    ASSUME NEW W, Equal \in W, NEW n \in Nat, NEW type \in [1..n -> W \ {Equal, Blank}],
           NEW value \in [1..n -> Seq(W)], \A k \in 1..n : Trimmed(value[k])
    PROVE  Fields(Attributed(type, value, n)) = Typed(type, value, n)
<1> DEFINE pairs == Attributed(type, value, n)
           trimmed == [k \in DOMAIN pairs |-> TrimSpace(pairs[k])]
           kept == {k \in DOMAIN pairs : EqualsIn(trimmed[k]) # {} /\ Min(EqualsIn(trimmed[k])) > 1}
           typed == Picked(trimmed, kept)
<1>1. ASSUME NEW k \in 1..n
      PROVE  LET p == Attribute(type[k], value[k])
             IN  /\ p \in Seq(W) /\ TrimSpace(p) = p /\ EqualsIn(p) # {} /\ Min(EqualsIn(p)) = 2
                 /\ TrimSpace(SubSeq(p, 1, 2 - 1)) = <<type[k]>>
                 /\ TrimSpace(SubSeq(p, 2 + 1, Len(p))) = value[k]
  <2>1. type[k] \in W /\ type[k] # Equal /\ type[k] # Blank /\ value[k] \in Seq(W) /\ Trimmed(value[k])
    OBVIOUS
  <2> QED  BY <2>1, FieldIs, SMTT(30)
<1>2. DOMAIN pairs = 1..n /\ \A k \in 1..n : pairs[k] = Attribute(type[k], value[k])
  BY DEF Attributed
<1>3. trimmed = pairs /\ pairs \in Seq(Seq(W)) /\ Len(pairs) = n
  <2>1. pairs = [k \in 1..n |-> pairs[k]] /\ \A k \in 1..n : pairs[k] \in Seq(W) /\ TrimSpace(pairs[k]) = pairs[k]
    <3> QED  BY <1>1, <1>2 DEF Attributed
  <2> HIDE DEF pairs
  <2> QED  BY <1>2, <2>1
<1>4. kept = DOMAIN pairs
  <2>1. \A k \in 1..n : EqualsIn(trimmed[k]) # {} /\ Min(EqualsIn(trimmed[k])) > 1
    <3>1. \A k \in 1..n : trimmed[k] = Attribute(type[k], value[k])
      BY <1>2, <1>3
    <3> HIDE DEF trimmed
    <3> QED  BY <1>1, <3>1
  <2> HIDE DEF trimmed
  <2> QED  BY <1>2, <2>1
<1>5. typed = pairs
  <2> HIDE DEF trimmed, kept, pairs
  <2>1. Picked(pairs, DOMAIN pairs) = pairs
    BY <1>3, PickedAll
  <2> QED  BY <1>3, <1>4, <2>1
<1>6. Fields(pairs) = [k \in DOMAIN typed |->
            LET at == Min(EqualsIn(typed[k]))
            IN  [type |-> TrimSpace(SubSeq(typed[k], 1, at - 1)),
                 value |-> TrimSpace(SubSeq(typed[k], at + 1, Len(typed[k])))]]
  BY DEF Fields, EqualsIn, Equal
<1> HIDE DEF typed
<1>7. ASSUME NEW k \in 1..n
      PROVE  (LET at == Min(EqualsIn(typed[k]))
              IN  [type |-> TrimSpace(SubSeq(typed[k], 1, at - 1)),
                   value |-> TrimSpace(SubSeq(typed[k], at + 1, Len(typed[k])))])
             = [type |-> <<type[k]>>, value |-> value[k]]
  <2>1. typed[k] = Attribute(type[k], value[k])
    BY <1>2, <1>5
  <2> QED  BY <1>1, <2>1
<1> QED  BY <1>2, <1>5, <1>6, <1>7 DEF Typed

\* A text is cut into its parts when exactly the separators between them are no part of an escape.
LEMMA CutIs ==
    ASSUME NEW W, NEW d \in Seq(W), NEW parts \in Seq(Seq(W)), NEW sep, NEW off, Spelled(d, sep, parts, off),
           parts # <<>>, NEW escapes,
           \A k \in 1..Len(parts) : \A j \in 1..Len(parts[k]) :
               parts[k][j] = sep => off[k] + j - 1 \in escapes,
           \A k \in 2..Len(parts) : off[k] - 1 \notin escapes
    PROVE  Cut(d, sep, escapes) = parts
<1> DEFINE cuts == {i \in DOMAIN d : d[i] = sep /\ i - 1 \notin escapes}
           n == Len(parts)
<1>1. n \in Nat /\ DOMAIN d = 1..Len(d) /\ Len(d) \in Nat /\ off \in [1..(n + 1) -> Nat]
      /\ off[1] = 0 /\ off[n + 1] = Len(d) + 1
  BY DEF Spelled
<1>2. Increasing(off, n + 1)
  BY WrittenInOrder
<1>3. \A k \in 2..n : off[k] \in cuts
  <2> HIDE DEF n
  <2> TAKE k \in 2..n
  <2>1. 1 \in 1..(n + 1) /\ k \in 1..(n + 1) /\ n + 1 \in 1..(n + 1) /\ 1 < k /\ k < n + 1
    BY <1>1
  <2>2. off[1] < off[k] /\ off[k] < off[n + 1] /\ off[k] \in Nat
    BY <1>1, <1>2, <2>1 DEF Increasing
  <2>3. d[off[k]] = sep /\ off[k] - 1 \notin escapes
    BY DEF Spelled, n
  <2>4. off[k] \in 1..Len(d)
    BY <1>1, <2>2
  <2> QED  BY <1>1, <2>3, <2>4
<1>4. \A p \in cuts : \E k \in 2..n : p = off[k]
  <2> TAKE p \in cuts
  <2>1. p \in 1..Len(d) /\ d[p] = sep /\ p - 1 \notin escapes
    BY <1>1
  <2>2. PICK k \in 1..n : p = off[k] \/ p - off[k] \in 1..Len(parts[k])
    BY <2>1, WrittenInOrder
  <2> HIDE DEF n, cuts
  <2>3. k \in 1..(n + 1) /\ off[k] \in Nat
    BY <1>1
  <2>4. ASSUME p - off[k] \in 1..Len(parts[k]) PROVE FALSE
    <3>1. off[k] + (p - off[k]) = p /\ off[k] + (p - off[k]) - 1 = p - 1
      BY <2>1, <2>3
    <3>2. d[off[k] + (p - off[k])] = parts[k][p - off[k]]
      BY <2>4 DEF Spelled, n
    <3>3. parts[k][p - off[k]] = sep => off[k] + (p - off[k]) - 1 \in escapes
      BY <2>4 DEF n
    <3> QED  BY <2>1, <3>1, <3>2, <3>3
  <2>5. p = off[k] /\ k # 1
    BY <1>1, <2>1, <2>2, <2>4
  <2> QED  BY <2>5, <1>1
<1>5. Parts(d, cuts) = parts
  <2> HIDE DEF cuts
  <2> QED  BY <1>3, <1>4, PartsAre
<1> QED  BY <1>5 DEF Cut

LEMMA SplitUnescapedIs ==
    ASSUME NEW W, NEW d \in Seq(W), NEW parts \in Seq(Seq(W)), NEW sep, NEW off, Spelled(d, sep, parts, off),
           parts # <<>>,
           \A k \in 1..Len(parts) : \A j \in 1..Len(parts[k]) :
               parts[k][j] = sep => off[k] + j - 1 \in Escaping(d),
           \A k \in 2..Len(parts) : off[k] - 1 \notin Escaping(d)
    PROVE  SplitUnescaped(d, sep) = parts
BY CutIs, SMTT(30) DEF SplitUnescaped

LEMMA SplitIs ==
    ASSUME NEW W, NEW d \in Seq(W), NEW parts \in Seq(Seq(W)), NEW sep, NEW off, Spelled(d, sep, parts, off),
           parts # <<>>, \A k \in 1..Len(parts) : \A j \in 1..Len(parts[k]) : parts[k][j] # sep
    PROVE  Split(d, sep) = parts
BY CutIs, SMTT(30) DEF Split

\* The backslashes of a value that stand for the character after them.
Escapes(M, s) ==
    /\ M \in SUBSET (1..(Len(s) - 1))
    /\ \A i \in 1..Len(s) : i \in M <=> s[i] = Backslash /\ i - 1 \notin M

\* In the text of a subject exactly the backslashes escape that do so within their value.
LEMMA TextEscapes ==
    ASSUME NEW W, Equal \in W, NEW n \in Nat \ {0}, NEW type \in [1..n -> W \ {Backslash}],
           NEW enc \in [1..n -> Seq(W)], NEW M, \A k \in 1..n : Escapes(M[k], enc[k]),
           NEW sep, sep # Backslash, NEW d \in Seq(W), NEW off, Spelled(d, sep, Attributed(type, enc, n), off)
    PROVE  \A k \in 1..n :
               /\ off[k] \notin Escaping(d) /\ off[k] + 1 \notin Escaping(d) /\ off[k] + 2 \notin Escaping(d)
               /\ \A i \in 1..Len(enc[k]) : off[k] + 2 + i \in Escaping(d) <=> i \in M[k]
<1> DEFINE parts == Attributed(type, enc, n)
           E == {p \in 1..Len(d) : \E k \in 1..n : p - off[k] - 2 \in M[k]}
<1>1. parts \in Seq(Seq(W)) /\ Len(parts) = n /\ \A k \in 1..n : Spells(parts[k], type[k], enc[k])
  <2>1. \A k \in 1..n : Attribute(type[k], enc[k]) \in Seq(W) /\ Spells(Attribute(type[k], enc[k]), type[k], enc[k])
    <3> TAKE k \in 1..n
    <3>1. type[k] \in W /\ enc[k] \in Seq(W)
      OBVIOUS
    <3> QED  BY <3>1, AttributeIs
  <2> QED  BY <2>1 DEF Attributed
<1> HIDE DEF parts
<1>2. /\ \A k \in 1..n : Len(enc[k]) \in Nat /\ Len(parts[k]) = 2 + Len(enc[k])
      /\ Len(d) \in Nat
      /\ off \in [1..(n + 1) -> Nat] /\ off[1] = 0 /\ off[n + 1] = Len(d) + 1
  <2>1. \A k \in 1..n : enc[k] \in Seq(W)
    OBVIOUS
  <2>2. \A t \in Seq(W) : Len(t) \in Nat
    OBVIOUS
  <2>3. Spelled(d, sep, parts, off)
    BY DEF parts
  <2> QED  BY <1>1, <2>1, <2>2, <2>3 DEF Spelled, Spells
<1>3. \A k \in 1..n : off[k] \in Nat /\ off[k + 1] = off[k] + Len(enc[k]) + 3
  <2> TAKE k \in 1..n
  <2>1. off[k + 1] = off[k] + Len(parts[k]) + 1
    BY <1>1 DEF Spelled, parts
  <2>2. k \in 1..(n + 1)
    OBVIOUS
  <2>3. off[k] \in Nat
    BY <1>2, <2>2
  <2> QED  BY <1>2, <2>1, <2>3
<1>4. \A k \in 1..n :
          /\ d[off[k] + 1] = type[k] /\ d[off[k] + 2] = Equal
          /\ \A i \in 1..Len(enc[k]) : d[off[k] + 2 + i] = enc[k][i]
  <2> TAKE k \in 1..n
  <2>1. \A j \in 1..Len(parts[k]) : d[off[k] + j] = parts[k][j]
    BY <1>1 DEF Spelled, parts
  <2> DEFINE o == off[k]
             all == Len(parts[k])
             len == Len(enc[k])
  <2>2. o \in Nat /\ len \in Nat /\ all = 2 + len
    BY <1>2, <1>3
  <2>3. parts[k][1] = type[k] /\ parts[k][2] = Equal /\ \A i \in 1..len : parts[k][2 + i] = enc[k][i]
    BY <1>1 DEF Spells
  <2>4. \A j \in 1..all : d[o + j] = parts[k][j]
    BY <2>1
  <2> HIDE DEF o, all, len
  <2>5. 1 \in 1..all /\ 2 \in 1..all /\ \A i \in 1..len : 2 + i \in 1..all /\ o + (2 + i) = o + 2 + i
    BY <2>2
  <2>6. d[o + 1] = type[k] /\ d[o + 2] = Equal
    BY <2>3, <2>4, <2>5
  <2>7. \A i \in 1..len : d[o + 2 + i] = enc[k][i]
    BY <2>3, <2>4, <2>5
  <2> QED  BY <2>6, <2>7 DEF o, len
<1>5. Increasing(off, n + 1) /\ \A p \in 1..Len(d) : \E k \in 1..n : off[k] <= p /\ p < off[k + 1]
  BY <1>1, WrittenInOrder DEF parts
<1>6. \A k \in 1..n : \A i \in M[k] : i \in 1..(Len(enc[k]) - 1)
  BY DEF Escapes
<1>7. ASSUME NEW k \in 1..n, NEW p \in 1..Len(d), off[k] <= p, p < off[k + 1]
      PROVE  p \in E <=> p - off[k] - 2 \in M[k]
  <2>1. ASSUME NEW h \in 1..n, p - off[h] - 2 \in M[h] PROVE h = k
    <3>1. off[h] \in Nat /\ off[h + 1] = off[h] + Len(enc[h]) + 3 /\ Len(enc[h]) \in Nat
      BY <1>2, <1>3
    <3>2. off[h] <= p /\ p < off[h + 1]
      <4> DEFINE o == off[h]
                 next == off[h + 1]
                 len == Len(enc[h])
      <4>1. p - o - 2 \in 1..(len - 1)
        BY <1>6, <2>1
      <4>2. o \in Nat /\ len \in Nat /\ next = o + len + 3 /\ p \in Nat
        BY <1>2, <3>1
      <4> HIDE DEF o, next, len
      <4>3. o <= p /\ p < next
        BY <4>1, <4>2
      <4> QED  BY <4>3 DEF o, next
    <3>3. ASSUME h < k PROVE FALSE
      <4>1. off[h + 1] <= off[k]
        <5>1. h + 1 \in 1..(n + 1) /\ k \in 1..(n + 1) /\ (h + 1 < k \/ h + 1 = k)
          BY <3>3
        <5>2. off[h + 1] \in Nat /\ off[k] \in Nat
          BY <1>3, <3>1
        <5> QED  BY <1>5, <5>1, <5>2 DEF Increasing
      <4>2. off[k] \in Nat /\ off[h + 1] \in Nat /\ p \in Nat
        <5>1. h + 1 \in 1..(n + 1)
          OBVIOUS
        <5>2. p \in Nat
          BY <1>2
        <5> QED  BY <1>2, <1>3, <5>1, <5>2
      <4> QED  BY <1>7, <3>2, <4>1, <4>2
    <3>4. ASSUME k < h PROVE FALSE
      <4>1. off[k + 1] <= off[h]
        <5>1. k + 1 \in 1..(n + 1) /\ h \in 1..(n + 1) /\ (k + 1 < h \/ k + 1 = h)
          BY <3>4
        <5>2. off[k + 1] \in Nat /\ off[h] \in Nat
          BY <1>2, <1>3, SMTT(30)
        <5> QED  BY <1>5, <5>1, <5>2 DEF Increasing
      <4>2. off[k + 1] \in Nat
        BY <1>2, <1>3, SMTT(30)
      <4> QED  BY <1>7, <3>1, <3>2, <4>1, <4>2
    <3> QED  BY <3>3, <3>4
  <2> QED  BY <2>1
<1>8. ASSUME NEW p \in 1..Len(d)
      PROVE  p \in E <=> p \in 1..(Len(d) - 1) /\ d[p] = Backslash /\ p - 1 \notin E
  <2> HIDE DEF E
  <2>1. PICK k \in 1..n : off[k] <= p /\ p < off[k + 1]
    BY <1>5
  <2>2. off[k] \in Nat /\ off[k + 1] = off[k] + Len(enc[k]) + 3 /\ Len(enc[k]) \in Nat
    BY <1>2, <1>3
  <2>3. p \in E <=> p - off[k] - 2 \in M[k]
    BY <1>7, <2>1
  <2>4. CASE p - off[k] \in {0, 1, 2}
    <3>1. p \notin E
      <4> DEFINE q == p - off[k] - 2
                 len == Len(enc[k])
      <4>1. q \in {-2, -1, 0}
        <5>1. p \in Nat
          BY <1>2
        <5> QED  BY <2>2, <2>4, <5>1
      <4>2. q \in M[k] => q \in 1..(len - 1)
        BY <1>6
      <4>3. len \in Nat /\ (p \in E <=> q \in M[k])
        BY <2>2, <2>3
      <4> HIDE DEF q, len
      <4> QED  BY <4>1, <4>2, <4>3
    <3>2. d[p] # Backslash
      <4>1. CASE p - off[k] = 0
        <5>1. p = off[k] /\ k \in 2..n
          <6>1. p \in Nat /\ p # 0
            BY <1>2
          <6>2. p = off[k]
            BY <2>2, <4>1, <6>1
          <6>3. k # 1
            BY <1>2, <6>1, <6>2
          <6> QED  BY <6>2, <6>3
        <5>2. d[off[k]] = sep
          BY <1>1, <5>1 DEF Spelled, parts
        <5> QED  BY <5>1, <5>2
      <4>2. CASE p - off[k] = 1
        <5>1. p = off[k] + 1 /\ type[k] # Backslash
          BY <2>2, <4>2
        <5> QED  BY <1>4, <5>1
      <4>3. CASE p - off[k] = 2
        <5>1. p = off[k] + 2
          BY <2>2, <4>3
        <5> QED  BY <1>4, <5>1 DEF Equal, Backslash
      <4> QED  BY <2>4, <4>1, <4>2, <4>3
    <3> QED  BY <3>1, <3>2
  <2>5. CASE p - off[k] \notin {0, 1, 2}
    <3> DEFINE i == p - off[k] - 2
    <3> DEFINE o == off[k]
               len == Len(enc[k])
    <3>0. p \in Nat /\ o \in Nat /\ len \in Nat /\ o <= p /\ p < o + len + 3 /\ p - o \notin {0, 1, 2}
      BY <1>2, <2>1, <2>2, <2>5
    <3> HIDE DEF o, len
    <3>9. p - o - 2 \in 1..len /\ p = o + 2 + (p - o - 2) /\ (p - o - 2) - 1 = (p - 1) - o - 2
          /\ p - 1 # 0 /\ p - 1 \in Nat /\ o <= p - 1
      BY <3>0
    <3>1. i \in 1..Len(enc[k]) /\ p = off[k] + 2 + i /\ i - 1 = (p - 1) - off[k] - 2
      BY <3>9 DEF o, len
    <3>2. p - 1 \in 1..Len(d) /\ off[k] <= p - 1 /\ p - 1 < off[k + 1]
      <4>1. off[k] <= p - 1 /\ p - 1 # 0 /\ p - 1 \in Nat /\ p \in Nat
        BY <3>0, <3>9 DEF o
      <4>2. off[k + 1] \in Nat
        BY <2>2
      <4>3. p <= Len(d)
        OBVIOUS
      <4> QED  BY <1>2, <2>1, <4>1, <4>2, <4>3, SMTT(30)
    <3>3. p - 1 \in E <=> i - 1 \in M[k]
      BY <1>7, <3>1, <3>2
    <3>4. d[p] = enc[k][i]
      BY <1>4, <3>1
    <3>5. i \in M[k] <=> enc[k][i] = Backslash /\ i - 1 \notin M[k]
      BY <3>1 DEF Escapes
    <3>6. i \in M[k] => p \in 1..(Len(d) - 1)
      <4> SUFFICES ASSUME i \in M[k] PROVE p < Len(d)
        BY <1>2
      <4>1. i <= Len(enc[k]) - 1
        BY <1>6, <2>2
      <4>2. off[k + 1] <= off[n + 1]
        <5>1. k + 1 \in 1..(n + 1) /\ n + 1 \in 1..(n + 1) /\ (k + 1 < n + 1 \/ k + 1 = n + 1)
          OBVIOUS
        <5>2. off[k + 1] \in Nat /\ off[n + 1] \in Nat
          BY <1>2, <2>2
        <5> QED  BY <1>5, <5>1, <5>2 DEF Increasing
      <4>3. i \in Nat /\ Len(d) \in Nat /\ p \in Nat /\ off[n + 1] = Len(d) + 1
        BY <1>2, <2>2, <3>0, <3>1, SMTT(30)
      <4>4. p = off[k] + 2 + i /\ off[k + 1] = off[k] + Len(enc[k]) + 3
        BY <2>2, <3>1
      <4>5. off[k] \in Nat /\ Len(enc[k]) \in Nat
        BY <2>2
      <4> DEFINE all == Len(d)
      <4>6. all \in Nat /\ len \in Nat /\ off[n + 1] = all + 1 /\ i <= len - 1 /\ off[k + 1] = off[k] + len + 3
        BY <4>1, <4>3, <4>4, <4>5 DEF len
      <4> DEFINE x == off[k]
                 y == off[k + 1]
                 z == off[n + 1]
      <4>8. /\ i \in Nat /\ p \in Nat /\ x \in Nat /\ len \in Nat /\ all \in Nat
            /\ y = x + len + 3 /\ z = all + 1 /\ y <= z /\ p = x + 2 + i /\ i <= len - 1
        <5> HIDE DEF i
        <5> QED  BY <3>0, <4>2, <4>3, <4>4, <4>5, <4>6
      <4> HIDE DEF i, all, x, y, z
      <4>7. p < all
        BY <4>8
      <4> QED  BY <4>7 DEF all
    <3>7. p \in E <=> i \in M[k]
      BY <2>3
    <3> HIDE DEF i
    <3> QED  BY <3>3, <3>4, <3>5, <3>6, <3>7
  <2> QED  BY <2>4, <2>5
<1>9. Escaping(d) = E
  <2>1. E \in SUBSET (1..Len(d))
    OBVIOUS
  <2> HIDE DEF E
  <2> QED  BY <1>8, <2>1, EscapingIs
<1> HIDE DEF E
<1>10. ASSUME NEW k \in 1..n
       PROVE  /\ off[k] \notin E /\ off[k] + 1 \notin E /\ off[k] + 2 \notin E
              /\ \A i \in 1..Len(enc[k]) : off[k] + 2 + i \in E <=> i \in M[k]
  <2>1. off[k] \in Nat /\ off[k + 1] = off[k] + Len(enc[k]) + 3 /\ Len(enc[k]) \in Nat
    BY <1>2, <1>3
  <2>2. off[k + 1] <= Len(d) + 1
    <3>1. k + 1 \in 1..(n + 1) /\ n + 1 \in 1..(n + 1) /\ (k + 1 < n + 1 \/ k + 1 = n + 1)
      OBVIOUS
    <3>2. off[k + 1] \in Nat /\ off[n + 1] \in Nat
      BY <1>2, <2>1
    <3> QED  BY <1>2, <1>5, <3>1, <3>2 DEF Increasing
  <2>3. \A c \in 0..(Len(enc[k]) + 2) : off[k] + c \in E <=> off[k] + c # 0 /\ c - 2 \in M[k]
    <3> TAKE c \in 0..(Len(enc[k]) + 2)
    <3>1. CASE off[k] + c = 0
      <4>1. 0 \notin E
        BY DEF E
      <4> QED  BY <3>1, <4>1
    <3>2. CASE off[k] + c # 0
      <4>1. off[k] + c \in 1..Len(d) /\ off[k] <= off[k] + c /\ off[k] + c < off[k + 1]
            /\ (off[k] + c) - off[k] - 2 = c - 2
        <5> DEFINE o == off[k]
                   len == Len(enc[k])
                   all == Len(d)
        <5>1. o \in Nat /\ len \in Nat /\ all \in Nat /\ off[k + 1] = o + len + 3 /\ off[k + 1] <= all + 1
              /\ c \in 0..(len + 2) /\ o + c # 0
          BY <1>2, <2>1, <2>2, <3>2
        <5> HIDE DEF o, len, all
        <5>2. o + c \in 1..all /\ o <= o + c /\ o + c < off[k + 1] /\ (o + c) - o - 2 = c - 2
          BY <5>1
        <5> QED  BY <5>2 DEF o, all
      <4> QED  BY <1>7, <3>2, <4>1
    <3> QED  BY <3>1, <3>2
  <2>4. \A c \in {-2, -1, 0} : c \notin M[k]
    BY <1>6
  <2>5. off[k] \notin E /\ off[k] + 1 \notin E /\ off[k] + 2 \notin E
    <3>1. 0 \in 0..(Len(enc[k]) + 2) /\ 1 \in 0..(Len(enc[k]) + 2) /\ 2 \in 0..(Len(enc[k]) + 2)
          /\ off[k] + 0 = off[k] /\ 0 - 2 = -2 /\ 1 - 2 = -1 /\ 2 - 2 = 0
      BY <2>1
    <3> QED  BY <2>3, <2>4, <3>1
  <2>6. ASSUME NEW i \in 1..Len(enc[k]) PROVE off[k] + 2 + i \in E <=> i \in M[k]
    <3>1. 2 + i \in 0..(Len(enc[k]) + 2) /\ off[k] + (2 + i) = off[k] + 2 + i /\ (2 + i) - 2 = i /\ off[k] + (2 + i) # 0
      BY <2>1, SMTT(30)
    <3> QED  BY <2>3, <3>1
  <2> QED  BY <2>5, <2>6
<1> QED  BY <1>9, <1>10

---------------------------------------------------------------------------
(* The two ways to write a value *)

\* How a value stands in a text: no separator of its own that no backslash stands before, and it is read back.
Encodes(M, s, value, sep) ==
    /\ Escapes(M, s) /\ Trimmed(s)
    /\ \A i \in 1..Len(s) : s[i] = sep => i - 1 \in M
    /\ UnescapeDN(s) = value

LEMMA LaidInOrder ==
    ASSUME NEW A, NEW seqs \in Seq(Seq(A)), \A k \in 1..Len(seqs) : seqs[k] # <<>>,
           NEW flat, NEW off, Laid(flat, seqs, off)
    PROVE  /\ Increasing(off, Len(seqs) + 1)
           /\ \A p \in 1..Len(flat) : \E k \in 1..Len(seqs) : off[k] < p /\ p <= off[k + 1]
<1> DEFINE n == Len(seqs)
<1>1. n \in Nat /\ \A k \in 1..n : seqs[k] \in Seq(A) /\ seqs[k] # <<>>
  OBVIOUS
<1>2. \A t \in Seq(A) : t # <<>> => Len(t) \in Nat /\ Len(t) > 0
  OBVIOUS
<1> HIDE DEF n
<1>3. /\ off \in [1..(n + 1) -> Nat] /\ off[1] = 0 /\ off[n + 1] = Len(flat)
      /\ \A k \in 1..n : off[k + 1] = off[k] + Len(seqs[k])
  BY DEF Laid, n
<1>4. \A k \in 1..n : off[k] < off[k + 1] /\ off[k] \in Nat /\ off[k + 1] \in Nat
  <2> TAKE k \in 1..n
  <2>1. k \in 1..(n + 1)
    BY <1>1
  <2>2. off[k] \in Nat
    BY <1>3, <2>1
  <2>3. off[k + 1] = off[k] + Len(seqs[k]) /\ Len(seqs[k]) \in Nat /\ Len(seqs[k]) > 0
    BY <1>1, <1>2, <1>3
  <2> QED  BY <2>2, <2>3
<1>5. Increasing(off, n + 1)
  BY <1>1, <1>3, <1>4, Steps
<1>6. ASSUME NEW p \in 1..Len(flat) PROVE \E k \in 1..n : off[k] < p /\ p <= off[k + 1]
  <2>1. Len(flat) \in Nat
    <3>1. n + 1 \in 1..(n + 1)
      BY <1>1
    <3> QED  BY <1>3, <3>1
  <2>2. p - 1 \in Nat /\ off[1] <= p - 1 /\ p - 1 < off[n + 1]
    BY <1>3, <2>1
  <2>3. PICK k \in 1..n : off[k] <= p - 1 /\ p - 1 < off[k + 1]
    BY <1>1, <1>3, <1>4, <2>2, Steps
  <2>4. off[k] < p /\ p <= off[k + 1]
    BY <1>4, <2>1, <2>3
  <2> QED  BY <2>4
<1> QED  BY <1>5, <1>6 DEF n

\* A sign is a character, or a character behind a backslash, as a comma and a backslash are.
Quoting(u) == Len(u) = 2
IsSign(u, W) == \E c \in W : u = <<Backslash, c>> \/ (u = <<c>> /\ c # Comma /\ c # Backslash)

LEMMA SignIs ==
    ASSUME NEW W, Backslash \in W, NEW u, IsSign(u, W)
    PROVE  /\ u \in Seq(W) /\ u # <<>> /\ Last(u) \in W
           /\ Quoting(u) => Len(u) = 2 /\ u[1] = Backslash /\ u[2] = Last(u)
           /\ ~Quoting(u) => Len(u) = 1 /\ u[1] = Last(u) /\ Last(u) # Comma /\ Last(u) # Backslash
<1>1. PICK c \in W : u = <<Backslash, c>> \/ (u = <<c>> /\ c # Comma /\ c # Backslash)
  BY DEF IsSign
<1>2. CASE u = <<Backslash, c>>
  <2>1. u \in Seq(W) /\ u # <<>> /\ Len(u) = 2 /\ u[1] = Backslash /\ u[2] = c
    BY <1>2
  <2> QED  BY <2>1 DEF Quoting, Last
<1>3. CASE u = <<c>> /\ c # Comma /\ c # Backslash
  <2>1. u \in Seq(W) /\ u # <<>> /\ Len(u) = 1 /\ u[1] = c
    BY <1>3
  <2> QED  BY <1>3, <2>1 DEF Quoting, Last
<1> QED  BY <1>1, <1>2, <1>3

\* A value whose characters stand behind each other in a text, those of Q behind a backslash.
InRow(s, v, off, Q, W) ==
    /\ s \in Seq(W) /\ off \in [1..(Len(v) + 1) -> Nat] /\ off[1] = 0 /\ off[Len(v) + 1] = Len(s)
    /\ Increasing(off, Len(v) + 1) /\ \A p \in 1..Len(s) : \E k \in 1..Len(v) : off[k] < p /\ p <= off[k + 1]
    /\ \A k \in 1..Len(v) :
           /\ off[k + 1] <= Len(s) /\ s[off[k + 1]] = v[k]
           /\ k \in Q => off[k + 1] = off[k] + 2 /\ s[off[k] + 1] = Backslash
           /\ k \notin Q => off[k + 1] = off[k] + 1 /\ v[k] # Comma /\ v[k] # Backslash

\* What stands behind the backslashes is read back.
LEMMA RowIsRead ==
    ASSUME NEW W, NEW v \in Seq(W), Trimmed(v), NEW s, NEW off, NEW Q, InRow(s, v, off, Q, W)
    PROVE  \E M : Encodes(M, s, v, Comma)
<1> DEFINE n == Len(v)
<1>1. n \in Nat /\ DOMAIN v = 1..n /\ \A k \in 1..n : v[k] \in W
  OBVIOUS
<1>8. off \in [1..(n + 1) -> Nat] /\ off[1] = 0 /\ off[n + 1] = Len(s)
  BY DEF InRow
<1>7. Increasing(off, n + 1) /\ \A p \in 1..Len(s) : \E k \in 1..n : off[k] < p /\ p <= off[k + 1]
  BY DEF InRow
<1>5. s \in Seq(W) /\ Len(s) \in Nat /\ DOMAIN s = 1..Len(s)
  <2>1. s \in Seq(W)
    BY DEF InRow
  <2> QED  BY <2>1
<1>2. \A k \in 1..n : /\ off[k + 1] <= Len(s) /\ s[off[k + 1]] = v[k]
                      /\ k \in Q => off[k + 1] = off[k] + 2 /\ s[off[k] + 1] = Backslash
                      /\ k \notin Q => off[k + 1] = off[k] + 1 /\ v[k] # Comma /\ v[k] # Backslash
  BY DEF InRow
<1> HIDE DEF n
<1>9. ASSUME NEW k \in 1..n
      PROVE  /\ off[k] \in Nat /\ off[k + 1] \in Nat /\ off[k + 1] <= Len(s) /\ s[off[k + 1]] = v[k]
             /\ k \in Q => off[k + 1] = off[k] + 2 /\ s[off[k] + 1] = Backslash
             /\ k \notin Q => off[k + 1] = off[k] + 1 /\ v[k] # Comma /\ v[k] # Backslash
  <2>1. k \in 1..(n + 1) /\ k + 1 \in 1..(n + 1)
    BY <1>1
  <2>2. off[k] \in Nat /\ off[k + 1] \in Nat
    BY <1>8, <2>1
  <2> QED  BY <1>2, <2>2
<1> DEFINE M == {p \in 1..Len(s) : \E k \in 1..n : k \in Q /\ p = off[k] + 1}
<1>10. ASSUME NEW k \in 1..n, NEW p \in 1..Len(s), off[k] < p, p <= off[k + 1]
       PROVE  p \in M <=> k \in Q /\ p = off[k] + 1
  <2>1. ASSUME NEW h \in 1..n, h \in Q, p = off[h] + 1 PROVE h = k
    <3>1. off[h] < p /\ p <= off[h + 1] /\ off[h] \in Nat /\ off[h + 1] \in Nat
      BY <1>9, <2>1
    <3>2. off[k] \in Nat /\ off[k + 1] \in Nat
      BY <1>9
    <3>3. ASSUME h < k PROVE FALSE
      <4>1. h + 1 \in 1..(n + 1) /\ k \in 1..(n + 1) /\ (h + 1 < k \/ h + 1 = k)
        BY <1>1, <3>3
      <4>2. off[h + 1] <= off[k]
        BY <1>7, <3>1, <3>2, <4>1 DEF Increasing
      <4> QED  BY <1>5, <1>10, <3>1, <3>2, <4>2
    <3>4. ASSUME k < h PROVE FALSE
      <4>1. k + 1 \in 1..(n + 1) /\ h \in 1..(n + 1) /\ (k + 1 < h \/ k + 1 = h)
        BY <1>1, <3>4
      <4>2. off[k + 1] <= off[h]
        BY <1>7, <3>1, <3>2, <4>1 DEF Increasing
      <4> QED  BY <1>5, <1>10, <3>1, <3>2, <4>2
    <3> QED  BY <3>3, <3>4
  <2> QED  BY <2>1
<1>11. M \in SUBSET (1..Len(s))
  OBVIOUS
<1> HIDE DEF M
<1>12. \A k \in 1..n : off[k] \notin M /\ off[k + 1] \notin M
  <2>1. ASSUME NEW k \in 1..n PROVE off[k + 1] \notin M
    <3>1. off[k] < off[k + 1] /\ off[k + 1] <= Len(s) /\ off[k] \in Nat /\ off[k + 1] \in Nat
      BY <1>9
    <3>2. off[k + 1] \in 1..Len(s) /\ off[k + 1] <= off[k + 1]
      BY <1>5, <3>1
    <3> QED  BY <1>9, <1>10, <3>1, <3>2
  <2>2. ASSUME NEW k \in 1..n PROVE off[k] \notin M
    <3>1. CASE k = 1
      BY <1>8, <1>11, <3>1
    <3>2. CASE k # 1
      <4>1. k - 1 \in 1..n /\ (k - 1) + 1 = k
        BY <1>1, <3>2
      <4> QED  BY <2>1, <4>1
    <3> QED  BY <3>1, <3>2
  <2> QED  BY <2>1, <2>2
<1>13. ASSUME NEW p \in 1..Len(s)
       PROVE  /\ p \in M <=> s[p] = Backslash /\ p - 1 \notin M
              /\ p \in M => p \in 1..(Len(s) - 1)
              /\ s[p] = Comma => p - 1 \in M
              /\ p \notin M => \E k \in 1..n : p = off[k + 1]
  <2>1. PICK k \in 1..n : off[k] < p /\ p <= off[k + 1]
    BY <1>7
  <2>2. p \in M <=> k \in Q /\ p = off[k] + 1
    BY <1>10, <2>1
  <2>3. /\ off[k] \in Nat /\ off[k + 1] \in Nat /\ off[k + 1] <= Len(s) /\ s[off[k + 1]] = v[k]
        /\ p \in Nat /\ Len(s) \in Nat
    BY <1>5, <1>9
  <2>4. off[k] \notin M
    BY <1>12
  <2>5. CASE k \in Q /\ p = off[k] + 1
    <3>0. Comma # Backslash
      BY DEF Comma, Backslash
    <3>1. s[p] = Backslash /\ off[k + 1] = off[k] + 2 /\ p - 1 = off[k] /\ Comma # Backslash
      <4>1. s[off[k] + 1] = Backslash /\ off[k + 1] = off[k] + 2
        BY <1>9, <2>5
      <4>2. p - 1 = off[k]
        BY <2>3, <2>5
      <4> QED  BY <2>5, <3>0, <4>1, <4>2
    <3>2. p \in 1..(Len(s) - 1)
      BY <2>3, <2>5, <3>1
    <3> QED  BY <2>2, <2>4, <2>5, <3>1, <3>2
  <2>6. CASE k \in Q /\ p # off[k] + 1
    <3>1. off[k + 1] = off[k] + 2
      BY <1>9, <2>6
    <3>2. p = off[k + 1] /\ p - 1 = off[k] + 1
      BY <2>1, <2>3, <2>6, <3>1
    <3>3. p - 1 \in 1..Len(s) /\ off[k] < p - 1 /\ p - 1 <= off[k + 1]
      BY <2>3, <3>1, <3>2
    <3>4. p - 1 \in M
      BY <1>10, <2>6, <3>2, <3>3
    <3> QED  BY <2>2, <2>6, <3>2, <3>4
  <2>7. CASE k \notin Q
    <3>1. p = off[k + 1]
      BY <1>9, <2>1, <2>3, <2>7
    <3>2. s[p] # Comma /\ s[p] # Backslash
      BY <1>9, <2>3, <2>7, <3>1
    <3> QED  BY <2>2, <2>7, <3>1, <3>2
  <2> QED  BY <2>5, <2>6, <2>7
<1>14. Escapes(M, s)
  <2>1. \A p \in 1..Len(s) : p \in M <=> s[p] = Backslash /\ p - 1 \notin M
    BY <1>13
  <2>2. M \in SUBSET (1..(Len(s) - 1))
    BY <1>11, <1>13
  <2> QED  BY <2>1, <2>2 DEF Escapes
<1>15. UnescapeDN(s) = v
  <2>1. Escaping(s) = M
    <3>1. \A p \in 1..Len(s) : p \in M <=> p \in 1..(Len(s) - 1) /\ s[p] = Backslash /\ p - 1 \notin M
      BY <1>13
    <3> QED  BY <1>5, <1>11, <3>1, EscapingIs
  <2> DEFINE e == [k \in 1..n |-> off[k + 1]]
             kept == DOMAIN s \ Escaping(s)
  <2>2. e \in [1..n -> 1..Len(s)]
    <3>1. \A k \in 1..n : off[k + 1] \in 1..Len(s)
      <4> TAKE k \in 1..n
      <4>1. off[k + 1] # 0
        BY <1>9
      <4> QED  BY <1>5, <1>9, <4>1
    <3> QED  BY <3>1
  <2>3. Enumerates(e, n, kept)
    <3>1. Increasing(e, n)
      <4>1. ASSUME NEW i \in 1..n, NEW j \in 1..n, i < j PROVE e[i] < e[j]
        <5>1. i + 1 \in 1..(n + 1) /\ j + 1 \in 1..(n + 1) /\ i + 1 < j + 1
          BY <1>1, <4>1
        <5>2. off[i + 1] < off[j + 1]
          BY <1>7, <5>1 DEF Increasing
        <5> QED  BY <5>2
      <4> HIDE DEF e
      <4> QED  BY <4>1 DEF Increasing
    <3>2. \A k \in 1..n : e[k] \in kept
      BY <1>5, <1>12, <2>1, <2>2
    <3>3. \A y \in kept : \E k \in 1..n : y = e[k]
      BY <1>5, <1>13, <2>1
    <3> HIDE DEF e, kept
    <3> QED  BY <3>1, <3>2, <3>3 DEF Enumerates
  <2>4. Picked(s, kept) = Through(s, e, n)
    <3> HIDE DEF e, kept
    <3> QED  BY <1>1, <1>5, <2>2, <2>3, PickedIs
  <2>5. Through(s, e, n) = [k \in 1..n |-> v[k]]
    BY <1>9 DEF Through
  <2>6. v = [k \in 1..n |-> v[k]]
    BY <1>1
  <2> QED  BY <2>4, <2>5, <2>6 DEF UnescapeDN
<1>16. Trimmed(s)
  <2> SUFFICES ASSUME s # <<>> PROVE s[1] # Blank /\ s[Len(s)] # Blank
    BY DEF Trimmed
  <2>1. n # 0
    <3>1. n = 0 => Len(s) = 0
      BY <1>8
    <3> QED  BY <1>5, <3>1
  <2>2. v # <<>> /\ 1 \in 1..n /\ n \in 1..n
    BY <1>1, <2>1 DEF n
  <2>3. v[1] # Blank /\ v[n] # Blank
    BY <2>2 DEF Trimmed, n
  <2>4. s[Len(s)] = v[n]
    BY <1>8, <1>9, <2>2
  <2>5. s[1] = Backslash \/ s[1] = v[1]
    <3>1. CASE 1 \in Q
      BY <1>8, <1>9, <2>2, <3>1
    <3>2. CASE 1 \notin Q
      BY <1>8, <1>9, <2>2, <3>2
    <3> QED  BY <3>1, <3>2
  <2>6. Backslash # Blank
    BY DEF Backslash, Blank
  <2> QED  BY <2>3, <2>4, <2>5, <2>6
<1>17. Encodes(M, s, v, Comma)
  BY <1>13, <1>14, <1>15, <1>16 DEF Encodes
<1> QED  BY <1>17

\* And so is a value from its signs.
LEMMA SignsAreRead ==
    ASSUME NEW W, Backslash \in W, NEW units \in Seq(Seq(W)), \A k \in 1..Len(units) : IsSign(units[k], W),
           NEW v, v = [k \in DOMAIN units |-> Last(units[k])], Trimmed(v), NEW s, s = FlattenSeq(units)
    PROVE  s \in Seq(W) /\ \E M : Encodes(M, s, v, Comma)
<1> DEFINE n == Len(units)
<1>1. n \in Nat /\ DOMAIN units = 1..n
  OBVIOUS
<1>3. \A k \in 1..n : /\ units[k] # <<>> /\ v[k] = Last(units[k]) /\ v[k] \in W
                      /\ Quoting(units[k]) => Len(units[k]) = 2 /\ units[k][1] = Backslash /\ units[k][2] = v[k]
                      /\ ~Quoting(units[k]) => Len(units[k]) = 1 /\ units[k][1] = v[k]
                                               /\ v[k] # Comma /\ v[k] # Backslash
  <2> TAKE k \in 1..n
  <2>1. IsSign(units[k], W) /\ v[k] = Last(units[k])
    OBVIOUS
  <2> QED  BY <2>1, SignIs
<1>2. v \in Seq(W) /\ Len(v) = n /\ v = [k \in 1..n |-> v[k]]
  <2>1. v = [k \in 1..n |-> v[k]]
    OBVIOUS
  <2> HIDE DEF n
  <2> QED  BY <1>1, <1>3, <2>1
<1>4. s = FlattenSeq(units) /\ Len(units) = n
  OBVIOUS
<1> HIDE DEF n
<1>5. s \in Seq(W) /\ Len(s) \in Nat /\ DOMAIN s = 1..Len(s)
  <2>1. s \in Seq(W)
    BY <1>4, FlattenLays
  <2> QED  BY <2>1
<1>6. PICK off : Laid(s, units, off)
  BY <1>4, FlattenLays
<1>7. Increasing(off, n + 1) /\ \A p \in 1..Len(s) : \E k \in 1..n : off[k] < p /\ p <= off[k + 1]
  BY <1>3, <1>4, <1>6, LaidInOrder
<1>8. off \in [1..(n + 1) -> Nat] /\ off[1] = 0 /\ off[n + 1] = Len(s)
  BY <1>4, <1>6 DEF Laid
<1> DEFINE Q == {k \in 1..n : Quoting(units[k])}
<1>9. ASSUME NEW k \in 1..n
      PROVE  /\ off[k + 1] <= Len(s) /\ s[off[k + 1]] = v[k]
             /\ k \in Q => off[k + 1] = off[k] + 2 /\ s[off[k] + 1] = Backslash
             /\ k \notin Q => off[k + 1] = off[k] + 1 /\ v[k] # Comma /\ v[k] # Backslash
  <2>1. k \in 1..(n + 1) /\ k + 1 \in 1..(n + 1) /\ n + 1 \in 1..(n + 1) /\ (k + 1 < n + 1 \/ k + 1 = n + 1)
    BY <1>1
  <2>2. off[k] \in Nat /\ off[k + 1] \in Nat
    BY <1>8, <2>1
  <2>3. off[k + 1] <= Len(s)
    BY <1>5, <1>7, <1>8, <2>1, <2>2 DEF Increasing
  <2>4. off[k + 1] = off[k] + Len(units[k]) /\ \A j \in 1..Len(units[k]) : s[off[k] + j] = units[k][j]
    BY <1>4, <1>6 DEF Laid
  <2>5. /\ Quoting(units[k]) => Len(units[k]) = 2 /\ units[k][1] = Backslash /\ units[k][2] = v[k]
        /\ ~Quoting(units[k]) => Len(units[k]) = 1 /\ units[k][1] = v[k] /\ v[k] # Comma /\ v[k] # Backslash
    BY <1>3
  <2>6. 1 \in 1..2 /\ 2 \in 1..2 /\ 1 \in 1..1
    OBVIOUS
  <2>7. CASE Quoting(units[k])
    BY <2>2, <2>3, <2>4, <2>5, <2>6, <2>7
  <2>8. CASE ~Quoting(units[k])
    BY <2>2, <2>3, <2>4, <2>5, <2>6, <2>8
  <2> QED  BY <2>7, <2>8
<1> HIDE DEF Q
<1>10. InRow(s, v, off, Q, W)
  BY <1>2, <1>5, <1>7, <1>8, <1>9 DEF InRow
<1> QED  BY <1>2, <1>5, <1>10, RowIsRead

\* Sequences of one element each, in a row.
LEMMA FlattenOnes ==
    ASSUME NEW W, NEW v \in Seq(W)
    PROVE  FlattenSeq([k \in DOMAIN v |-> <<v[k]>>]) = v
<1> DEFINE n == Len(v)
           units == [k \in 1..n |-> <<v[k]>>]
           s == FlattenSeq(units)
<1>1. n \in Nat /\ DOMAIN v = 1..n /\ \A k \in 1..n : v[k] \in W
  OBVIOUS
<1>2. s = FlattenSeq(units)
  OBVIOUS
<1> HIDE DEF s, n
<1>3. units \in Seq(Seq(W)) /\ Len(units) = n /\ \A k \in 1..n : units[k] = <<v[k]>>
  <2>1. \A k \in 1..n : <<v[k]>> \in Seq(W)
    BY <1>1
  <2> QED  BY <1>1, <2>1
<1>4. \A k \in 1..n : Len(units[k]) = 1 /\ units[k][1] = v[k]
  BY <1>3
<1> HIDE DEF units
<1>5. s \in Seq(W)
  BY <1>2, <1>3, FlattenLays
<1>6. PICK off : Laid(s, units, off)
  BY <1>2, <1>3, FlattenLays
<1>7. /\ off[1] = 0 /\ off[n + 1] = Len(s) /\ \A k \in 1..n : off[k + 1] = off[k] + 1
      /\ \A k \in 1..n : s[off[k] + 1] = v[k]
  <2>1. 1 \in 1..1
    OBVIOUS
  <2> QED  BY <1>3, <1>4, <1>6, <2>1 DEF Laid
<1> DEFINE Even(k) == k \in 0..n => off[k + 1] = k
           K == {k \in Nat : Even(k)}
<1>8. \A k \in Nat : k \in K
  <2>1. 0 \in K
    BY <1>7
  <2>2. ASSUME NEW k \in Nat, Even(k) PROVE Even(k + 1)
    <3> SUFFICES ASSUME k + 1 \in 0..n PROVE off[(k + 1) + 1] = k + 1
      OBVIOUS
    <3>1. k + 1 \in 1..n /\ k \in 0..n
      BY <1>1
    <3>2. off[(k + 1) + 1] = off[k + 1] + 1
      BY <1>7, <3>1
    <3> QED  BY <2>2, <3>1, <3>2
  <2>3. \A k \in Nat : k \in K => k + 1 \in K
    <3> HIDE DEF Even
    <3> QED  BY <2>2
  <2> HIDE DEF K
  <2> QED  BY <2>1, <2>3, SetInduction
<1>9. Len(s) = n
  <2>1. n \in 0..n
    BY <1>1
  <2> QED  BY <1>1, <1>7, <1>8, <2>1
<1>10. ASSUME NEW k \in 1..n PROVE s[k] = v[k]
  <2>1. k - 1 \in Nat /\ k - 1 \in 0..n /\ (k - 1) + 1 = k
    BY <1>1
  <2>2. off[(k - 1) + 1] = k - 1
    BY <1>8, <2>1
  <2>3. off[k] + 1 = k
    BY <2>1, <2>2
  <2> QED  BY <1>7, <2>3
<1>11. s = v
  BY <1>5, <1>9, <1>10, SeqEqual DEF n
<1> QED  BY <1>1, <1>11 DEF s, units

\* The digits are no separators.
LEMMA DigitsAre ==
    \A d \in Digits : d # Comma /\ d # Backslash /\ d # Blank /\ d # Equal /\ d # Slash
  BY DEF Digits, Comma, Backslash, Blank, Equal, Slash

\* The signs of the characters of a value, one character behind the other.
Spelt(v) == [k \in DOMAIN v |->
    IF v[k] \in Coded THEN << <<"\\", Hex[v[k]][1]>>, <<Hex[v[k]][2]>> >>
    ELSE IF Quotes(v, k) THEN << <<"\\", v[k]>> >>
    ELSE << <<v[k]>> >>]

LEMMA SpeltIs ==
    ASSUME NEW W, Digits \subseteq W, Backslash \in W, NEW v \in Seq(W), NEW k \in 1..Len(v)
    PROVE  LET w == Spelt(v)[k]
           IN  /\ w \in Seq(Seq(W)) /\ w # <<>> /\ \A j \in 1..Len(w) : IsSign(w[j], W)
               /\ v[k] \in Coded => Len(w) = 2
               /\ v[k] \notin Coded => Len(w) = 1
               /\ v[k] # Blank => Last(w[1]) # Blank /\ Last(w[Len(w)]) # Blank
<1> DEFINE w == Spelt(v)[k]
           c == v[k]
<1>1. c \in W /\ DOMAIN v = 1..Len(v)
  OBVIOUS
<1>2. w = IF c \in Coded THEN << <<Backslash, Hex[c][1]>>, <<Hex[c][2]>> >>
          ELSE IF Quotes(v, k) THEN << <<Backslash, c>> >> ELSE << <<c>> >>
  BY <1>1 DEF Spelt, Backslash
<1>3. ~Quotes(v, k) => c # Comma /\ c # Backslash
  BY DEF Quotes, Quoted, Comma, Backslash
<1> HIDE DEF w, c
<1>4. \A d : Last(<<d>>) = d /\ Last(<<Backslash, d>>) = d
  BY DEF Last
<1>5. \A d \in W : <<Backslash, d>> \in Seq(W) /\ <<d>> \in Seq(W) /\ IsSign(<<Backslash, d>>, W)
  BY DEF IsSign
<1>6. \A d \in W : d # Comma /\ d # Backslash => IsSign(<<d>>, W)
  BY DEF IsSign
<1>7. CASE c \in Coded
  <2> DEFINE d == Hex[c][1]
             e == Hex[c][2]
  <2>1. d \in Digits /\ e \in Digits
    <3>1. Hex[c] \in Digits \X Digits
      BY <1>7, CodedAssumption
    <3> QED  BY <3>1
  <2>2. w = << <<Backslash, d>>, <<e>> >>
    BY <1>2, <1>7
  <2> HIDE DEF d, e
  <2>3. d \in W /\ e \in W /\ d # Blank /\ e # Blank /\ e # Comma /\ e # Backslash
    BY <2>1, DigitsAre
  <2>4. w \in Seq(Seq(W)) /\ Len(w) = 2 /\ w # <<>> /\ w[1] = <<Backslash, d>> /\ w[2] = <<e>>
    BY <1>5, <2>2, <2>3
  <2>5. \A j \in 1..2 : IsSign(w[j], W)
    <3>1. IsSign(w[1], W) /\ IsSign(w[2], W) /\ \A j \in 1..2 : j = 1 \/ j = 2
      BY <1>5, <1>6, <2>3, <2>4
    <3> QED  BY <3>1
  <2> QED  BY <1>4, <1>7, <2>3, <2>4, <2>5 DEF w, c
<1>8. CASE c \notin Coded
  <2>1. PICK u : w = <<u>> /\ u \in Seq(W) /\ IsSign(u, W) /\ Last(u) = c
    <3>1. CASE Quotes(v, k)
      BY <1>1, <1>2, <1>4, <1>5, <1>8, <3>1
    <3>2. CASE ~Quotes(v, k)
      BY <1>1, <1>2, <1>3, <1>4, <1>5, <1>6, <1>8, <3>2
    <3> QED  BY <3>1, <3>2
  <2>2. w \in Seq(Seq(W)) /\ Len(w) = 1 /\ w # <<>> /\ w[1] = u
    BY <2>1
  <2> QED  BY <1>8, <2>1, <2>2 DEF w, c
<1> QED  BY <1>7, <1>8

\* The signs of a value, in a row.
LEMMA SignsAre ==
    ASSUME NEW W, Digits \subseteq W, Backslash \in W, NEW v \in Seq(W)
    PROVE  LET signs == Signs(v)
           IN  /\ signs \in Seq(Seq(W)) /\ \A j \in 1..Len(signs) : IsSign(signs[j], W)
               /\ v # <<>> => signs # <<>>
               /\ \A k \in 1..Len(v) : v[k] \in Coded => Len(signs) > 1
               /\ Trimmed(v) => Trimmed(Bare(v))
<1> DEFINE n == Len(v)
           w == Spelt(v)
           signs == Signs(v)
           m == Len(signs)
<1>1. n \in Nat /\ DOMAIN v = 1..n
  OBVIOUS
<1>2. \A k \in 1..n : /\ w[k] \in Seq(Seq(W)) /\ w[k] # <<>> /\ \A j \in 1..Len(w[k]) : IsSign(w[k][j], W)
                      /\ v[k] \in Coded => Len(w[k]) = 2
                      /\ v[k] # Blank => Last(w[k][1]) # Blank /\ Last(w[k][Len(w[k])]) # Blank
  BY SpeltIs
<1>3. w \in Seq(Seq(Seq(W))) /\ Len(w) = n
  <2>1. w = [k \in 1..n |-> w[k]]
    BY <1>1 DEF Spelt
  <2> HIDE DEF w, n
  <2> QED  BY <1>1, <1>2, <2>1, SMTT(30)
<1>4. signs = FlattenSeq(w)
  BY DEF Signs, Spelt
<1>5. signs \in Seq(Seq(W)) /\ \E off : Laid(signs, w, off)
  <2> HIDE DEF w, signs
  <2> QED  BY <1>3, <1>4, FlattenLays
<1>6. PICK off : Laid(signs, w, off)
  BY <1>5
<1>7. Bare(v) = [j \in 1..m |-> Last(signs[j])] /\ m \in Nat
  BY <1>5 DEF Bare
<1> HIDE DEF w, n, signs
<1>8. Increasing(off, n + 1) /\ \A p \in 1..m : \E k \in 1..n : off[k] < p /\ p <= off[k + 1]
  BY <1>2, <1>3, <1>6, LaidInOrder
<1>9. /\ off \in [1..(n + 1) -> Nat] /\ off[1] = 0 /\ off[n + 1] = m
      /\ \A k \in 1..n : off[k + 1] = off[k] + Len(w[k])
      /\ \A k \in 1..n : \A j \in 1..Len(w[k]) : signs[off[k] + j] = w[k][j]
  BY <1>3, <1>6 DEF Laid
<1>10. \A k \in 1..n : /\ off[k] \in Nat /\ off[k + 1] \in Nat /\ off[k + 1] <= m
                       /\ Len(w[k]) \in Nat /\ Len(w[k]) > 0
  <2> TAKE k \in 1..n
  <2>1. k \in 1..(n + 1) /\ k + 1 \in 1..(n + 1) /\ n + 1 \in 1..(n + 1) /\ (k + 1 < n + 1 \/ k + 1 = n + 1)
    BY <1>1
  <2>2. off[k] \in Nat /\ off[k + 1] \in Nat
    BY <1>9, <2>1
  <2>3. off[k + 1] <= m
    BY <1>7, <1>8, <1>9, <2>1, <2>2 DEF Increasing
  <2>4. w[k] \in Seq(Seq(W)) /\ w[k] # <<>>
    BY <1>2
  <2>5. Len(w[k]) \in Nat /\ Len(w[k]) > 0
    BY <2>4
  <2> QED  BY <2>2, <2>3, <2>5
<1>11. \A j \in 1..m : IsSign(signs[j], W)
  <2> TAKE p \in 1..m
  <2>1. PICK k \in 1..n : off[k] < p /\ p <= off[k + 1]
    BY <1>8
  <2>2. p - off[k] \in 1..Len(w[k]) /\ off[k] + (p - off[k]) = p
    BY <1>7, <1>9, <1>10, <2>1, SMTT(30)
  <2>3. signs[p] = w[k][p - off[k]]
    BY <1>9, <2>2
  <2> QED  BY <1>2, <2>2, <2>3
<1>12. \A k \in 1..n : m > 0 /\ (v[k] \in Coded => m > 1)
  <2> TAKE k \in 1..n
  <2>1. off[k + 1] = off[k] + Len(w[k]) /\ (v[k] \in Coded => Len(w[k]) = 2)
    BY <1>2, <1>9
  <2>2. off[k] \in Nat /\ off[k + 1] <= m /\ Len(w[k]) \in Nat /\ Len(w[k]) > 0
    BY <1>10
  <2> DEFINE a == off[k]
             b == off[k + 1]
             c == Len(w[k])
             coded == v[k] \in Coded
  <2>3. a \in Nat /\ c \in Nat /\ c > 0 /\ b = a + c /\ b <= m /\ m \in Nat /\ (coded => c = 2)
    BY <1>7, <2>1, <2>2
  <2> HIDE DEF a, b, c, coded
  <2>4. m > 0 /\ (coded => m > 1)
    BY <2>3
  <2> QED  BY <2>4 DEF coded
<1>13. ASSUME Trimmed(v) PROVE Trimmed(Bare(v))
  <2> SUFFICES ASSUME m # 0 PROVE Last(signs[1]) # Blank /\ Last(signs[m]) # Blank
    <3>1. Bare(v) # <<>> => m # 0 /\ Len(Bare(v)) = m /\ Bare(v)[1] = Last(signs[1]) /\ Bare(v)[m] = Last(signs[m])
      BY <1>7
    <3> QED  BY <3>1 DEF Trimmed
  <2>1. n # 0
    BY <1>1, <1>7, <1>9
  <2>2. 1 \in 1..n /\ n \in 1..n /\ v # <<>>
    BY <1>1, <2>1 DEF n
  <2>3. v[1] # Blank /\ v[n] # Blank
    BY <1>13, <2>2 DEF Trimmed, n
  <2>4. signs[1] = w[1][1]
    <3>1. 1 \in 1..Len(w[1]) /\ off[1] + 1 = 1
      BY <1>9, <1>10, <2>2
    <3> QED  BY <1>9, <2>2, <3>1
  <2>5. signs[m] = w[n][Len(w[n])]
    <3>1. Len(w[n]) \in 1..Len(w[n]) /\ off[n] + Len(w[n]) = m
      BY <1>9, <1>10, <2>2
    <3> QED  BY <1>9, <2>2, <3>1
  <2> QED  BY <1>2, <2>2, <2>3, <2>4, <2>5
<1>14. v # <<>> => signs # <<>>
  <2> SUFFICES ASSUME v # <<>> PROVE signs # <<>>
    OBVIOUS
  <2>1. 1 \in 1..n
    BY <1>1 DEF n
  <2>2. m > 0
    BY <1>12, <2>1
  <2> QED  BY <2>2
<1> QED  BY <1>5, <1>11, <1>12, <1>13, <1>14 DEF n, signs

\* A value is read back from its escaped form, except that the digits of a coded byte are read for it.
LEMMA EscapedIs ==
    ASSUME NEW W, Digits \subseteq W, Backslash \in W, NEW v \in Seq(W), Trimmed(v)
    PROVE  /\ Escaped(v) \in Seq(W) /\ Bare(v) \in Seq(W) /\ Trimmed(Bare(v)) /\ (v # <<>> => Bare(v) # <<>>)
           /\ \E M : Encodes(M, Escaped(v), Bare(v), Comma)
<1> DEFINE signs == Signs(v)
<1>1. /\ signs \in Seq(Seq(W)) /\ \A j \in 1..Len(signs) : IsSign(signs[j], W)
      /\ (v # <<>> => signs # <<>>) /\ Trimmed(Bare(v))
  BY SignsAre
<1>2. Bare(v) = [j \in DOMAIN signs |-> Last(signs[j])] /\ Escaped(v) = FlattenSeq(signs)
  BY DEF Bare, Escaped
<1> HIDE DEF signs
<1>3. Escaped(v) \in Seq(W) /\ \E M : Encodes(M, Escaped(v), Bare(v), Comma)
  BY <1>1, <1>2, SignsAreRead
<1>4. Bare(v) \in Seq(W) /\ (v # <<>> => Bare(v) # <<>>)
  <2>1. \A j \in 1..Len(signs) : Last(signs[j]) \in W
    BY <1>1, SignIs
  <2>2. DOMAIN signs = 1..Len(signs) /\ Len(signs) \in Nat /\ (signs # <<>> => Len(signs) # 0)
    BY <1>1
  <2>3. Bare(v) \in Seq(W) /\ Len(Bare(v)) = Len(signs)
    BY <1>2, <2>1, <2>2
  <2> QED  BY <1>1, <2>2, <2>3
<1> QED  BY <1>1, <1>3, <1>4

\* A value without coded bytes is read back as it is, and stands for itself if nothing in it is marked.
LEMMA LegibleIs ==
    ASSUME NEW W, NEW v \in Seq(W), \A k \in 1..Len(v) : v[k] \notin Coded
    PROVE  /\ Bare(v) = v
           /\ Trimmed(v) /\ (\A k \in 1..Len(v) : v[k] \notin Marked) => Escaped(v) = v
<1> DEFINE n == Len(v)
           units == [k \in 1..n |-> IF Quotes(v, k) THEN <<"\\", v[k]>> ELSE <<v[k]>>]
           A == Seq(W \cup {"\\"})
<1>1. n \in Nat /\ DOMAIN v = 1..n /\ \A k \in 1..n : v[k] \in W
  OBVIOUS
<1>2. \A k \in 1..n : Spelt(v)[k] = <<units[k]>>
  BY <1>1 DEF Spelt
<1>3. \A k \in 1..n : units[k] \in A /\ Last(units[k]) = v[k]
  <2> TAKE k \in 1..n
  <2>1. <<"\\", v[k]>> \in A /\ <<v[k]>> \in A /\ Last(<<"\\", v[k]>>) = v[k] /\ Last(<<v[k]>>) = v[k]
    BY <1>1 DEF Last
  <2> QED  BY <2>1
<1>4. DOMAIN units = 1..n /\ DOMAIN Spelt(v) = 1..n
  BY <1>1 DEF Spelt
<1>5. ASSUME Trimmed(v), \A k \in 1..n : v[k] \notin Marked
      PROVE  \A k \in 1..n : units[k] = <<v[k]>>
  <2> SUFFICES ASSUME NEW k \in 1..n PROVE ~Quotes(v, k)
    OBVIOUS
  <2>1. v # <<>> /\ v[1] # Blank /\ v[n] # Blank
    BY <1>1, <1>5 DEF Trimmed
  <2>2. v[k] \notin Quoted /\ v[k] # "#"
    BY <1>5 DEF Marked
  <2> QED  BY <2>1, <2>2 DEF Quotes, Blank
<1>6. Spelt(v) = [k \in DOMAIN units |-> <<units[k]>>]
  BY <1>2, <1>4 DEF Spelt
<1>7. units \in Seq(A)
  <2> HIDE DEF A, n
  <2> QED  BY <1>1, <1>3
<1> HIDE DEF units, A, n
<1>8. Signs(v) = units
  <2>1. Signs(v) = FlattenSeq(Spelt(v))
    BY DEF Signs, Spelt
  <2> QED  BY <1>6, <1>7, <2>1, FlattenOnes
<1>9. Bare(v) = v
  <2>1. Bare(v) = [k \in 1..n |-> v[k]]
    BY <1>3, <1>4, <1>8 DEF Bare
  <2>2. v = [k \in 1..n |-> v[k]]
    BY <1>1
  <2> QED  BY <2>1, <2>2
<1>10. ASSUME Trimmed(v), \A k \in 1..n : v[k] \notin Marked PROVE Escaped(v) = v
  <2>1. units = [k \in DOMAIN v |-> <<v[k]>>]
    <3>1. units = [k \in 1..n |-> units[k]]
      BY <1>4 DEF units
    <3> QED  BY <1>1, <1>5, <1>10, <3>1
  <2> QED  BY <1>8, <2>1, FlattenOnes DEF Escaped
<1> QED  BY <1>9, <1>10 DEF n

\* A value without special characters stands for itself.
LEMMA PlainIs ==
    ASSUME NEW W, NEW v \in Seq(W), Trimmed(v), NEW sep, \A i \in 1..Len(v) : v[i] # sep /\ v[i] # Backslash
    PROVE  Encodes({}, v, v, sep) /\ Escaping(v) = {}
<1>1. Escapes({}, v)
  BY DEF Escapes
<1>2. Escaping(v) = {}
  <2>1. {} \in SUBSET (1..Len(v))
    OBVIOUS
  <2> QED  BY <2>1, EscapingIs
<1>3. UnescapeDN(v) = v
  BY <1>2, PickedAll DEF UnescapeDN
<1> QED  BY <1>1, <1>2, <1>3 DEF Encodes

---------------------------------------------------------------------------
(* Texts of attributes *)

\* The text d of n attributes, of which the k-th begins behind off[k].
IsText(d, sep, type, enc, n, off, W) ==
    /\ n \in Nat \ {0} /\ Equal \in W /\ sep # Backslash /\ sep # Equal
    /\ type \in [1..n -> W \ {Equal, Blank, Backslash, sep}]
    /\ enc \in [1..n -> Seq(W)] /\ \A k \in 1..n : Trimmed(enc[k])
    /\ d \in Seq(W) /\ Spelled(d, sep, Attributed(type, enc, n), off)

ReadBack(fields) == [k \in DOMAIN fields |-> [fields[k] EXCEPT !.value = UnescapeDN(@)]]

\* Attributes whose values are encoded for a separator are read back from their text.
LEMMA ReadIs ==
    ASSUME NEW W, NEW n, NEW sep, NEW type, NEW enc, NEW d, NEW off, IsText(d, sep, type, enc, n, off, W),
           NEW value, NEW M, \A k \in 1..n : Encodes(M[k], enc[k], value[k], sep)
    PROVE  ReadBack(Fields(SplitUnescaped(d, sep))) = Typed(type, value, n)
<1> /\ n \in Nat \ {0} /\ Equal \in W /\ sep # Backslash /\ sep # Equal
    /\ type \in [1..n -> W \ {Equal, Blank, Backslash, sep}] /\ type \in [1..n -> W \ {Equal, Blank}]
    /\ type \in [1..n -> W] /\ enc \in [1..n -> Seq(W)] /\ \A k \in 1..n : Trimmed(enc[k])
    /\ d \in Seq(W) /\ Spelled(d, sep, Attributed(type, enc, n), off)
  BY DEF IsText
<1> DEFINE parts == Attributed(type, enc, n)
<1>1. parts \in Seq(Seq(W)) /\ Len(parts) = n /\ \A k \in 1..n : Spells(parts[k], type[k], enc[k])
  <2>1. \A k \in 1..n : Attribute(type[k], enc[k]) \in Seq(W) /\ Spells(Attribute(type[k], enc[k]), type[k], enc[k])
    <3> TAKE k \in 1..n
    <3>1. type[k] \in W /\ enc[k] \in Seq(W)
      OBVIOUS
    <3> QED  BY <3>1, AttributeIs
  <2> QED  BY <2>1 DEF Attributed
<1>2. \A k \in 1..n : Escapes(M[k], enc[k]) /\ Trimmed(enc[k])
                      /\ (\A i \in 1..Len(enc[k]) : enc[k][i] = sep => i - 1 \in M[k])
  BY DEF Encodes
<1>3. \A k \in 1..n :
          /\ off[k] \notin Escaping(d) /\ off[k] + 1 \notin Escaping(d) /\ off[k] + 2 \notin Escaping(d)
          /\ \A i \in 1..Len(enc[k]) : off[k] + 2 + i \in Escaping(d) <=> i \in M[k]
  <2>1. type \in [1..n -> W \ {Backslash}]
    OBVIOUS
  <2> QED  BY <1>2, <2>1, TextEscapes
<1>4. \A k \in 1..n : off[k] \in Nat /\ enc[k] \in Seq(W) /\ Len(enc[k]) \in Nat
  <2>1. off \in [1..(n + 1) -> Nat]
    <3> HIDE DEF parts
    <3> QED  BY <1>1 DEF Spelled, parts
  <2>2. \A t \in Seq(W) : Len(t) \in Nat
    OBVIOUS
  <2> TAKE k \in 1..n
  <2>3. k \in 1..(n + 1) /\ enc[k] \in Seq(W)
    OBVIOUS
  <2> QED  BY <2>1, <2>2, <2>3
<1>5. ASSUME NEW k \in 1..n, NEW j \in 1..Len(parts[k]), parts[k][j] = sep
      PROVE  off[k] + j - 1 \in Escaping(d)
  <2> HIDE DEF parts
  <2> DEFINE o == off[k]
             len == Len(enc[k])
             part == parts[k]
  <2>1. /\ o \in Nat /\ len \in Nat /\ Len(part) = 2 + len /\ part[1] = type[k] /\ part[2] = Equal
        /\ \A i \in 1..len : part[2 + i] = enc[k][i]
    BY <1>1, <1>4 DEF Spells
  <2>2. type[k] # sep
    OBVIOUS
  <2>3. \A i \in 1..len : o + 2 + i \in Escaping(d) <=> i \in M[k]
    BY <1>3
  <2>4. \A i \in 1..len : enc[k][i] = sep => i - 1 \in M[k]
    BY <1>2
  <2>5. \A i \in M[k] : i \in 1..(len - 1)
    BY <1>2 DEF Escapes
  <2>6. j \in 1..Len(part) /\ part[j] = sep
    BY <1>5
  <2> HIDE DEF o, len, part
  <2>7. j # 1 /\ j # 2
    BY <2>1, <2>2, <2>6
  <2>8. j - 2 \in 1..len /\ j = 2 + (j - 2) /\ o + j - 1 = o + 2 + ((j - 2) - 1)
    BY <2>1, <2>6, <2>7
  <2>9. part[2 + (j - 2)] = enc[k][j - 2]
    BY <2>1, <2>8
  <2>10. (j - 2) - 1 \in M[k]
    BY <2>4, <2>6, <2>8, <2>9
  <2>11. (j - 2) - 1 \in 1..len
    BY <2>1, <2>5, <2>10
  <2>12. o + 2 + ((j - 2) - 1) \in Escaping(d)
    BY <2>3, <2>10, <2>11
  <2> QED  BY <2>8, <2>12 DEF o
<1>6. ASSUME NEW k \in 2..n PROVE off[k] - 1 \notin Escaping(d)
  <2>1. k - 1 \in 1..n /\ (k - 1) + 1 = k
    OBVIOUS
  <2> DEFINE h == k - 1
             o == off[h]
             len == Len(enc[h])
  <2>2. off[h + 1] = off[h] + Len(parts[h]) + 1
    <3> HIDE DEF h, parts
    <3>1. h \in 1..n
      BY <2>1 DEF h
    <3> QED  BY <1>1, <3>1 DEF Spelled, parts
  <2>3. h \in 1..n /\ o \in Nat /\ len \in Nat /\ Len(parts[h]) = 2 + len /\ h + 1 = k
    <3> HIDE DEF parts
    <3> QED  BY <1>1, <1>4, <2>1 DEF Spells
  <2>4. o + 2 \notin Escaping(d) /\ \A i \in 1..len : o + 2 + i \in Escaping(d) <=> i \in M[h]
    BY <1>3, <2>1
  <2>5. len \notin M[h]
    <3>1. M[h] \in SUBSET (1..(len - 1))
      BY <1>2, <2>1 DEF Escapes
    <3> HIDE DEF len, h
    <3> QED  BY <2>3, <3>1
  <2>6. off[k] = o + 2 + len + 1
    <3>1. off[k] = o + (2 + len) + 1
      <4>1. off[h + 1] = off[k]
        BY <2>3
      <4> HIDE DEF parts, h
      <4> QED  BY <2>2, <2>3, <4>1
    <3> HIDE DEF o, len, h
    <3> QED  BY <2>3, <3>1
  <2> HIDE DEF o, len, h
  <2>7. off[k] - 1 = o + 2 + len
    BY <2>3, <2>6
  <2>8. CASE len = 0
    <3>1. o + 2 + len = o + 2
      BY <2>3, <2>8
    <3> QED  BY <2>4, <2>7, <3>1
  <2>9. CASE len # 0
    <3>1. len \in 1..len
      BY <2>3, <2>9
    <3> QED  BY <2>4, <2>5, <2>7, <3>1
  <2> QED  BY <2>8, <2>9
<1>7. SplitUnescaped(d, sep) = parts
  <2>1. Spelled(d, sep, parts, off) /\ parts # <<>>
    BY <1>1
  <2> HIDE DEF parts
  <2> QED  BY <1>1, <1>5, <1>6, <2>1, SplitUnescapedIs
<1>8. Fields(parts) = Typed(type, enc, n)
  <2>1. n \in Nat /\ type \in [1..n -> W \ {Equal, Blank}]
    OBVIOUS
  <2> QED  BY <1>2, <2>1, FieldsAre
<1>9. ReadBack(Typed(type, enc, n)) = Typed(type, value, n)
  <2>1. \A k \in 1..n : UnescapeDN(enc[k]) = value[k]
    BY DEF Encodes
  <2>2. DOMAIN Typed(type, enc, n) = 1..n
        /\ \A k \in 1..n : Typed(type, enc, n)[k] = [type |-> <<type[k]>>, value |-> enc[k]]
    BY DEF Typed
  <2>3. \A k \in 1..n : [Typed(type, enc, n)[k] EXCEPT !.value = UnescapeDN(@)]
                        = [type |-> <<type[k]>>, value |-> value[k]]
    <3> TAKE k \in 1..n
    <3> DEFINE r == [type |-> <<type[k]>>, value |-> enc[k]]
    <3>1. Typed(type, enc, n)[k] = r /\ UnescapeDN(r.value) = value[k]
      BY <2>1, <2>2
    <3>2. [r EXCEPT !.value = UnescapeDN(@)] = [type |-> <<type[k]>>, value |-> UnescapeDN(r.value)]
      OBVIOUS
    <3> HIDE DEF r
    <3> QED  BY <3>1, <3>2
  <2> QED  BY <2>2, <2>3 DEF ReadBack, Typed
<1> QED  BY <1>7, <1>8, <1>9

Preceded(sep, type, enc, n) == [k \in 1..n |-> <<sep, type[k], Equal>> \o enc[k]]

\* What is put together with a separator in front of every attribute is written so from its second character on.
LEMMA TextWritten ==
    ASSUME NEW W, Equal \in W, NEW sep \in W, NEW n \in Nat \ {0}, NEW type \in [1..n -> W],
           NEW enc \in [1..n -> Seq(W)], NEW flat, flat = FlattenSeq(Preceded(sep, type, enc, n))
    PROVE  /\ flat \in Seq(W) /\ flat # <<>> /\ flat[1] = sep
           /\ \E off : Spelled(Tail(flat), sep, Attributed(type, enc, n), off)
<1> DEFINE seqs == Preceded(sep, type, enc, n)
           parts == Attributed(type, enc, n)
<1>1. ASSUME NEW k \in 1..n
      PROVE  /\ seqs[k] \in Seq(W) /\ Len(seqs[k]) = 3 + Len(enc[k]) /\ seqs[k][1] = sep
             /\ Len(enc[k]) \in Nat /\ Len(parts[k]) = 2 + Len(enc[k])
             /\ \A j \in 1..Len(parts[k]) : seqs[k][1 + j] = parts[k][j]
  <2> DEFINE a == <<sep, type[k], Equal>>
             e == enc[k]
             r == a \o e
             p == Attribute(type[k], enc[k])
  <2>1. type[k] \in W /\ e \in Seq(W) /\ Len(e) \in Nat
    OBVIOUS
  <2>2. a \in Seq(W) /\ Len(a) = 3 /\ a[1] = sep /\ a[2] = type[k] /\ a[3] = Equal
    BY <2>1
  <2>3. seqs[k] = r /\ parts[k] = p
    BY DEF Preceded, Attributed
  <2>4. p \in Seq(W) /\ Spells(p, type[k], e)
    BY <2>1, AttributeIs
  <2> HIDE DEF a, e
  <2>5. r \in Seq(W) /\ Joins(r, a, e)
    BY <2>1, <2>2, JoinIs
  <2> HIDE DEF r, p
  <2>6. Len(r) = 3 + Len(e) /\ r[1] = sep /\ r[2] = type[k] /\ r[3] = Equal /\ \A j \in 1..Len(e) : r[3 + j] = e[j]
    BY <2>2, <2>5 DEF Joins
  <2>7. Len(p) = 2 + Len(e) /\ p[1] = type[k] /\ p[2] = Equal /\ \A j \in 1..Len(e) : p[2 + j] = e[j]
    BY <2>4 DEF Spells
  <2>8. ASSUME NEW j \in 1..Len(p) PROVE r[1 + j] = p[j]
    <3>1. CASE j = 1
      BY <2>6, <2>7, <3>1
    <3>2. CASE j = 2
      BY <2>6, <2>7, <3>2
    <3>3. CASE j \notin {1, 2}
      <4>1. j - 2 \in 1..Len(e) /\ 2 + (j - 2) = j /\ 3 + (j - 2) = 1 + j
        BY <2>1, <2>7, <3>3
      <4>2. p[2 + (j - 2)] = e[j - 2] /\ r[3 + (j - 2)] = e[j - 2]
        BY <2>6, <2>7, <4>1
      <4> QED  BY <4>1, <4>2
    <3> QED  BY <3>1, <3>2, <3>3
  <2> QED  BY <2>1, <2>3, <2>5, <2>6, <2>7, <2>8 DEF e
<1>2. seqs \in Seq(Seq(W)) /\ Len(seqs) = n
  <2>1. \A k \in 1..n : seqs[k] \in Seq(W)
    BY <1>1
  <2>2. seqs = [k \in 1..n |-> seqs[k]]
    BY DEF Preceded
  <2> HIDE DEF seqs
  <2> QED  BY <2>1, <2>2, SMTT(30)
<1>3. parts = [k \in 1..n |-> parts[k]] /\ Len(parts) = n
  BY DEF Attributed
<1> HIDE DEF seqs, parts
<1>4. flat \in Seq(W)
  BY <1>2, FlattenLays DEF seqs
<1>5. PICK off : Laid(flat, seqs, off)
  BY <1>2, FlattenLays DEF seqs
<1>6. /\ off \in [1..(n + 1) -> Nat] /\ off[1] = 0 /\ Len(flat) = off[n + 1]
      /\ \A k \in 1..n : off[k + 1] = off[k] + Len(seqs[k])
      /\ \A k \in 1..n : \A j \in 1..Len(seqs[k]) : flat[off[k] + j] = seqs[k][j]
  BY <1>2, <1>5 DEF Laid
<1>7. \A k \in 1..n : off[k] \in Nat /\ off[k + 1] = off[k] + Len(parts[k]) + 1
  <2> TAKE k \in 1..n
  <2>1. k \in 1..(n + 1)
    OBVIOUS
  <2>2. off[k] \in Nat
    BY <1>6, <2>1
  <2> DEFINE o == off[k]
             len == Len(enc[k])
  <2>3. o \in Nat /\ len \in Nat /\ off[k + 1] = o + (3 + len) /\ Len(parts[k]) = 2 + len
    BY <1>1, <1>6, <2>2
  <2> HIDE DEF o, len
  <2>4. off[k + 1] = o + (2 + len) + 1
    BY <2>3
  <2> QED  BY <2>2, <2>3, <2>4 DEF o
<1>8. flat # <<>> /\ flat[1] = sep
  <2>1. 1 \in 1..n /\ 1 \in 1..Len(seqs[1])
    <3>1. 1 \in 1..n
      OBVIOUS
    <3>2. Len(seqs[1]) = 3 + Len(enc[1]) /\ Len(enc[1]) \in Nat
      BY <1>1, <3>1
    <3> QED  BY <3>1, <3>2
  <2>2. flat[0 + 1] = seqs[1][1]
    BY <1>6, <2>1
  <2>3. flat # <<>>
    <3>1. Len(flat) = 0 => off[n + 1] = 0
      BY <1>6
    <3>2. \A k \in 1..n : off[k] < off[k + 1]
      <4> TAKE k \in 1..n
      <4>1. off[k + 1] = off[k] + Len(parts[k]) + 1 /\ off[k] \in Nat /\ Len(parts[k]) = 2 + Len(enc[k]) /\ Len(enc[k]) \in Nat
        BY <1>1, <1>7
      <4> QED  BY <4>1
    <3>3. off[n] < off[n + 1] /\ off[n] \in Nat
      BY <1>7, <3>2
    <3>4. off[n + 1] # 0
      <4>1. n + 1 \in 1..(n + 1)
        OBVIOUS
      <4>2. off[n + 1] \in Nat
        BY <1>6, <4>1
      <4> QED  BY <3>3, <4>2
    <3> QED  BY <3>1, <3>4
  <2> QED  BY <1>1, <2>1, <2>2, <2>3
<1> DEFINE d == Tail(flat)
<1>9. /\ d \in Seq(W) /\ Len(d) = Len(flat) - 1 /\ Len(flat) \in Nat
      /\ \A i \in 1..(Len(flat) - 1) : d[i] = flat[i + 1]
  BY <1>4, <1>8, HeadTailProperties
<1> HIDE DEF d
<1>10. \A k \in 1..n : off[k + 1] <= Len(flat)
  <2>1. \A k \in 1..n : off[k] < off[k + 1]
    <3> TAKE k \in 1..n
    <3>1. off[k + 1] = off[k] + Len(parts[k]) + 1 /\ off[k] \in Nat /\ Len(parts[k]) = 2 + Len(enc[k]) /\ Len(enc[k]) \in Nat
      BY <1>1, <1>7
    <3> QED  BY <3>1
  <2>2. Increasing(off, n + 1)
    BY <1>6, <2>1, Steps
  <2> TAKE k \in 1..n
  <2>3. k + 1 \in 1..(n + 1) /\ n + 1 \in 1..(n + 1) /\ (k + 1 < n + 1 \/ k + 1 = n + 1)
    OBVIOUS
  <2>4. off[k + 1] \in Nat /\ off[n + 1] \in Nat
    BY <1>6, <2>3
  <2> QED  BY <1>6, <2>2, <2>3, <2>4 DEF Increasing
<1>11. ASSUME NEW k \in 1..n, NEW j \in 1..Len(parts[k]) PROVE d[off[k] + j] = parts[k][j]
  <2> DEFINE o == off[k]
             len == Len(enc[k])
             all == Len(flat)
  <2>1. /\ o \in Nat /\ len \in Nat /\ all \in Nat /\ j \in 1..(2 + len) /\ off[k + 1] = o + (2 + len) + 1
        /\ off[k + 1] <= all /\ Len(seqs[k]) = 3 + len
    BY <1>1, <1>7, <1>9, <1>10
  <2>2. \A i \in 1..(all - 1) : d[i] = flat[i + 1]
    BY <1>9
  <2>3. \A i \in 1..(3 + len) : flat[o + i] = seqs[k][i]
    BY <1>6, <2>1
  <2> HIDE DEF o, len, all
  <2>4. o + j \in 1..(all - 1) /\ (o + j) + 1 = o + (1 + j) /\ 1 + j \in 1..(3 + len)
    BY <2>1
  <2>5. d[o + j] = seqs[k][1 + j]
    BY <2>2, <2>3, <2>4
  <2> QED  BY <1>1, <2>5 DEF o
<1>12. ASSUME NEW k \in 2..n PROVE d[off[k]] = sep
  <2> DEFINE all == Len(flat)
             o == off[k]
             len == Len(enc[k])
  <2>1. k \in 1..n /\ k - 1 \in 1..n /\ (k - 1) + 1 = k
    OBVIOUS
  <2>2. o \in Nat /\ o # 0
    <3>1. off[(k - 1) + 1] = off[k - 1] + Len(parts[k - 1]) + 1 /\ off[k - 1] \in Nat /\ Len(parts[k - 1]) = 2 + Len(enc[k - 1])
          /\ Len(enc[k - 1]) \in Nat
      BY <1>1, <1>7, <2>1
    <3>2. off[(k - 1) + 1] # 0
      BY <3>1
    <3> QED  BY <1>7, <2>1, <3>2
  <2>3. all \in Nat /\ len \in Nat /\ off[k + 1] = o + (2 + len) + 1 /\ off[k + 1] <= all /\ Len(seqs[k]) = 3 + len
    BY <1>1, <1>7, <1>9, <1>10, <2>1
  <2>4. \A i \in 1..(all - 1) : d[i] = flat[i + 1]
    BY <1>9
  <2>5. \A i \in 1..(3 + len) : flat[o + i] = seqs[k][i]
    BY <1>6, <2>1, <2>3
  <2> HIDE DEF o, len, all
  <2>6. o \in 1..(all - 1) /\ 1 \in 1..(3 + len)
    BY <2>2, <2>3
  <2>7. d[o] = seqs[k][1]
    BY <2>4, <2>5, <2>6
  <2> QED  BY <1>1, <2>1, <2>7 DEF o
<1>13. off[n + 1] = Len(d) + 1
  BY <1>6, <1>9
<1>14. Spelled(d, sep, parts, off)
  BY <1>3, <1>6, <1>7, <1>11, <1>12, <1>13 DEF Spelled
<1> QED  BY <1>4, <1>8, <1>14 DEF d, parts

---------------------------------------------------------------------------
(* Subjects *)

\* A subject over an alphabet: its types are words, and no value begins or ends with a blank.
IsSubject(subject, Word) ==
    /\ subject \in Seq(Word \X Seq(Word)) /\ subject # <<>>
    /\ \A k \in 1..Len(subject) : subject[k][1] \notin Specials \cup {" "} /\ Trimmed(subject[k][2])

TypesOf(subject) == [k \in 1..Len(subject) |-> subject[k][1]]
ValuesOf(subject) == [k \in 1..Len(subject) |-> subject[k][2]]
EscapedOf(subject) == [k \in 1..Len(subject) |-> Escaped(subject[k][2])]
ReadsOf(subject) == [k \in 1..Len(subject) |-> Bare(subject[k][2])]
Understood(subject) == Typed(TypesOf(subject), ReadsOf(subject), Len(subject))

\* What is true of a subject's types and values, by themselves.
LEMMA SubjectIs ==
    ASSUME NEW Word, Specials \cup Digits \subseteq Word, NEW subject, IsSubject(subject, Word)
    PROVE  /\ Len(subject) \in Nat \ {0} /\ DOMAIN subject = 1..Len(subject)
           /\ {Equal, Comma, Slash, Backslash} \subseteq Word
           /\ TypesOf(subject) \in [1..Len(subject) -> Word \ {Equal, Blank, Backslash, Comma, Slash}]
           /\ ValuesOf(subject) \in [1..Len(subject) -> Seq(Word)]
           /\ \A k \in 1..Len(subject) : Trimmed(ValuesOf(subject)[k])
           /\ EscapedOf(subject) \in [1..Len(subject) -> Seq(Word)]
           /\ ReadsOf(subject) \in [1..Len(subject) -> Seq(Word)]
           /\ \A k \in 1..Len(subject) : Trimmed(ReadsOf(subject)[k])
                   /\ \E M : Encodes(M, EscapedOf(subject)[k], ReadsOf(subject)[k], Comma)
           /\ \A k \in 1..Len(subject) : ValuesOf(subject)[k] # <<>> => ReadsOf(subject)[k] # <<>>
<1> DEFINE n == Len(subject)
<1>1. n \in Nat \ {0} /\ DOMAIN subject = 1..n /\ \A k \in 1..n : subject[k] \in Word \X Seq(Word)
  <2> DEFINE A == Word \X Seq(Word)
  <2>1. subject \in Seq(A) /\ subject # <<>>
    BY DEF IsSubject
  <2> HIDE DEF A
  <2>2. n \in Nat \ {0} /\ DOMAIN subject = 1..n /\ \A k \in 1..n : subject[k] \in A
    BY <2>1
  <2> QED  BY <2>2 DEF A
<1>2. {Equal, Comma, Slash, Backslash} \subseteq Word /\ Digits \subseteq Word
  BY DEF Specials, Marked, Quoted, Equal, Comma, Slash, Backslash
<1>3. \A k \in 1..n : subject[k][1] \in Word /\ subject[k][2] \in Seq(Word)
  BY <1>1
<1>4. \A k \in 1..n : subject[k][1] \notin {Equal, Blank, Backslash, Comma, Slash} /\ Trimmed(subject[k][2])
  BY DEF IsSubject, Specials, Marked, Quoted, Equal, Blank, Comma, Slash, Backslash
<1>5. \A k \in 1..n : LET v == subject[k][2]
                     IN  /\ Escaped(v) \in Seq(Word) /\ Bare(v) \in Seq(Word) /\ Trimmed(Bare(v))
                         /\ (v # <<>> => Bare(v) # <<>>) /\ \E M : Encodes(M, Escaped(v), Bare(v), Comma)
  <2>1. Backslash \in Word
    BY <1>2
  <2> QED  BY <1>2, <1>3, <1>4, <2>1, EscapedIs
<1> HIDE DEF n
<1> QED  BY <1>1, <1>2, <1>3, <1>4, <1>5 DEF TypesOf, ValuesOf, EscapedOf, ReadsOf, n

\* The two forms, put together from types and values.
LEMMA FormsAre ==
    ASSUME NEW Word, Specials \cup Digits \subseteq Word, NEW subject, IsSubject(subject, Word)
    PROVE  /\ RFC2253(subject)
              = Tail(FlattenSeq(Preceded(Comma, TypesOf(subject), EscapedOf(subject), Len(subject))))
           /\ Oneline(subject)
              = FlattenSeq(Preceded(Slash, TypesOf(subject), ValuesOf(subject), Len(subject)))
<1>1. DOMAIN subject = 1..Len(subject)
  BY SubjectIs
<1>2. [k \in DOMAIN subject |-> <<",", subject[k][1], "=">> \o Escaped(subject[k][2])]
      = Preceded(Comma, TypesOf(subject), EscapedOf(subject), Len(subject))
  BY <1>1 DEF Preceded, TypesOf, EscapedOf, Comma, Equal
<1>3. [k \in DOMAIN subject |-> <<"/", subject[k][1], "=">> \o subject[k][2]]
      = Preceded(Slash, TypesOf(subject), ValuesOf(subject), Len(subject))
  BY <1>1 DEF Preceded, TypesOf, ValuesOf, Slash, Equal
<1> QED  BY <1>2, <1>3 DEF RFC2253, Oneline

\* No character is in a text that is in no part of it.
LEMMA NotInText ==
    ASSUME NEW W, NEW n, NEW sep, NEW type, NEW enc, NEW d, NEW off, IsText(d, sep, type, enc, n, off, W),
           NEW c, c # sep, c # Equal, \A k \in 1..n : type[k] # c /\ \A i \in 1..Len(enc[k]) : enc[k][i] # c
    PROVE  \A p \in 1..Len(d) : d[p] # c
<1> /\ n \in Nat \ {0} /\ Equal \in W /\ sep # Backslash /\ sep # Equal
    /\ type \in [1..n -> W \ {Equal, Blank, Backslash, sep}] /\ type \in [1..n -> W \ {Equal, Blank}]
    /\ type \in [1..n -> W] /\ enc \in [1..n -> Seq(W)] /\ \A k \in 1..n : Trimmed(enc[k])
    /\ d \in Seq(W) /\ Spelled(d, sep, Attributed(type, enc, n), off)
  BY DEF IsText
<1> DEFINE parts == Attributed(type, enc, n)
<1>1. parts \in Seq(Seq(W)) /\ Len(parts) = n /\ \A k \in 1..n : Spells(parts[k], type[k], enc[k])
  <2>1. \A k \in 1..n : Attribute(type[k], enc[k]) \in Seq(W) /\ Spells(Attribute(type[k], enc[k]), type[k], enc[k])
    <3> TAKE k \in 1..n
    <3>1. type[k] \in W /\ enc[k] \in Seq(W)
      OBVIOUS
    <3> QED  BY <3>1, AttributeIs
  <2> QED  BY <2>1 DEF Attributed
<1>2. Spelled(d, sep, parts, off)
  OBVIOUS
<1> HIDE DEF parts
<1> TAKE p \in 1..Len(d)
<1>3. PICK k \in 1..n : off[k] <= p /\ (p = off[k] \/ p - off[k] \in 1..Len(parts[k]))
  BY <1>1, <1>2, WrittenInOrder
<1>4. off[k] \in Nat /\ p \in Nat /\ Len(enc[k]) \in Nat /\ off[1] = 0
  <2>0. off \in [1..(n + 1) -> Nat] /\ off[1] = 0
    BY <1>1, <1>2 DEF Spelled
  <2>1. off[k] \in Nat /\ off[1] = 0
    BY <2>0
  <2>2. Len(d) \in Nat /\ enc[k] \in Seq(W)
    OBVIOUS
  <2> QED  BY <2>1, <2>2
<1>5. CASE p = off[k]
  <2>1. k \in 2..n
    BY <1>4, <1>5
  <2> QED  BY <1>1, <1>2, <1>5, <2>1 DEF Spelled
<1>6. CASE p # off[k]
  <2> DEFINE j == p - off[k]
             len == Len(enc[k])
  <2>1. j \in 1..Len(parts[k]) /\ off[k] + j = p
    BY <1>3, <1>4, <1>6
  <2>2. d[off[k] + j] = parts[k][j]
    BY <1>1, <1>2, <2>1 DEF Spelled
  <2> HIDE DEF j
  <2>3. parts[k][j] # c
    <3>1. Len(parts[k]) = 2 + len /\ parts[k][1] = type[k] /\ parts[k][2] = Equal
          /\ \A i \in 1..len : parts[k][2 + i] = enc[k][i]
      BY <1>1 DEF Spells
    <3>2. \A i \in 1..len : enc[k][i] # c
      OBVIOUS
    <3>3. len \in Nat
      BY <1>4
    <3> HIDE DEF len
    <3>4. CASE j \in {1, 2}
      BY <3>1, <3>4
    <3>5. CASE j \notin {1, 2}
      <4>1. j - 2 \in 1..len /\ 2 + (j - 2) = j
        BY <2>1, <3>1, <3>3, <3>5
      <4> QED  BY <3>1, <3>2, <4>1
    <3> QED  BY <3>4, <3>5
  <2> QED  BY <2>1, <2>2, <2>3
<1> QED  BY <1>5, <1>6

\* A text of attributes begins with a type and neither begins nor ends with a blank.
LEMMA TextTrimmed ==
    ASSUME NEW W, NEW n, NEW sep, NEW type, NEW enc, NEW d, NEW off, IsText(d, sep, type, enc, n, off, W)
    PROVE  d # <<>> /\ d[1] = type[1] /\ d[1] # Blank /\ d[Len(d)] # Blank
<1> /\ n \in Nat \ {0} /\ Equal \in W /\ sep # Backslash /\ sep # Equal
    /\ type \in [1..n -> W \ {Equal, Blank, Backslash, sep}] /\ type \in [1..n -> W \ {Equal, Blank}]
    /\ type \in [1..n -> W] /\ enc \in [1..n -> Seq(W)] /\ \A k \in 1..n : Trimmed(enc[k])
    /\ d \in Seq(W) /\ Spelled(d, sep, Attributed(type, enc, n), off)
  BY DEF IsText
<1> DEFINE parts == Attributed(type, enc, n)
<1>1. \A k \in 1..n : parts[k] \in Seq(W) /\ Trimmed(parts[k]) /\ Spells(parts[k], type[k], enc[k])
  <2> TAKE k \in 1..n
  <2>1. type[k] \in W /\ type[k] # Equal /\ type[k] # Blank /\ enc[k] \in Seq(W) /\ Trimmed(enc[k])
    OBVIOUS
  <2>2. LET p == Attribute(type[k], enc[k]) IN p \in Seq(W) /\ Trimmed(p)
    BY <2>1, FieldIs
  <2>3. Spells(Attribute(type[k], enc[k]), type[k], enc[k])
    BY <2>1, AttributeIs
  <2> QED  BY <2>2, <2>3 DEF Attributed
<1>2. Len(parts) = n /\ Spelled(d, sep, parts, off)
  BY DEF Attributed
<1> HIDE DEF parts
<1>3. ASSUME NEW k \in 1..n
      PROVE  LET len == Len(parts[k])
             IN  /\ len \in Nat /\ len >= 2 /\ off[k] \in Nat /\ off[k + 1] = off[k] + len + 1
                 /\ parts[k][1] = type[k] /\ parts[k][len] # Blank
                 /\ \A j \in 1..len : d[off[k] + j] = parts[k][j]
  <2>0. off \in [1..(n + 1) -> Nat]
    BY <1>2 DEF Spelled
  <2>1. off[k] \in Nat
    BY <2>0
  <2>2. enc[k] \in Seq(W) /\ parts[k] \in Seq(W) /\ Trimmed(parts[k]) /\ Spells(parts[k], type[k], enc[k])
    BY <1>1
  <2>3. Len(enc[k]) \in Nat /\ Len(parts[k]) = 2 + Len(enc[k]) /\ parts[k][1] = type[k]
    BY <2>2 DEF Spells
  <2>4. parts[k] # <<>>
    BY <2>3
  <2>5. parts[k][Len(parts[k])] # Blank
    BY <2>2, <2>4 DEF Trimmed
  <2>6. off[k + 1] = off[k] + Len(parts[k]) + 1 /\ \A j \in 1..Len(parts[k]) : d[off[k] + j] = parts[k][j]
    BY <1>2 DEF Spelled
  <2> QED  BY <2>1, <2>3, <2>5, <2>6
<1>4. off[1] = 0 /\ off[n + 1] = Len(d) + 1 /\ 1 \in 1..n /\ n \in 1..n
  BY <1>2 DEF Spelled
<1>5. d[1] = type[1]
  <2> DEFINE len == Len(parts[1])
  <2>1. len \in Nat /\ len >= 2 /\ parts[1][1] = type[1] /\ \A j \in 1..len : d[off[1] + j] = parts[1][j]
    BY <1>3, <1>4
  <2> HIDE DEF len
  <2>2. 1 \in 1..len /\ off[1] + 1 = 1
    BY <1>4, <2>1
  <2> QED  BY <2>1, <2>2
<1>6. d[Len(d)] # Blank /\ d # <<>>
  <2> DEFINE len == Len(parts[n])
             o == off[n]
             all == Len(d)
  <2>1. /\ len \in Nat /\ len >= 2 /\ o \in Nat /\ off[n + 1] = o + len + 1 /\ off[n + 1] = all + 1
        /\ parts[n][len] # Blank /\ \A j \in 1..len : d[o + j] = parts[n][j]
    BY <1>3, <1>4
  <2>2. all \in Nat
    OBVIOUS
  <2>3. all # 0 => d # <<>>
    OBVIOUS
  <2> HIDE DEF len, o, all
  <2>4. len \in 1..len /\ o + len = all /\ all # 0
    BY <2>1, <2>2
  <2>5. d[all] = parts[n][len]
    BY <2>1, <2>4
  <2> QED  BY <2>1, <2>3, <2>4, <2>5 DEF all
<1> QED  BY <1>4, <1>5, <1>6

\* What is true of the values of a plain subject.
LEMMA PlainValues ==
    ASSUME NEW Word, NEW subject, IsSubject(subject, Word), IsPlain(subject)
    PROVE  /\ \A k \in 1..Len(subject) : \A i \in 1..Len(subject[k][2]) :
                  subject[k][2][i] \notin {Comma, Slash, Backslash}
           /\ ReadsOf(subject) = ValuesOf(subject) /\ EscapedOf(subject) = ValuesOf(subject)
<1>1. ASSUME NEW k \in 1..Len(subject)
      PROVE  LET v == subject[k][2]
             IN  /\ v \in Seq(Word) /\ Trimmed(v) /\ \A i \in 1..Len(v) : v[i] \notin Marked
  <2> DEFINE v == subject[k][2]
             A == Word \X Seq(Word)
  <2>1. subject \in Seq(A) /\ Trimmed(v)
    BY DEF IsSubject
  <2> HIDE DEF A
  <2>2. DOMAIN subject = 1..Len(subject) /\ subject[k] \in A
    BY <2>1
  <2>3. v \in Seq(Word)
    BY <2>2 DEF A
  <2>4. Range(v) \cap Marked = {}
    BY <2>2 DEF IsPlain
  <2> HIDE DEF v
  <2>5. \A i \in 1..Len(v) : v[i] \in Range(v)
    BY <2>3 DEF Range
  <2> QED  BY <2>1, <2>3, <2>4, <2>5 DEF v
<1>2. \A c : c \notin Marked => c \notin {Comma, Slash, Backslash} /\ c \notin Coded
  BY DEF Marked, Quoted, Comma, Slash, Backslash
<1>3. \A k \in 1..Len(subject) : Bare(subject[k][2]) = subject[k][2] /\ Escaped(subject[k][2]) = subject[k][2]
  <2> TAKE k \in 1..Len(subject)
  <2> DEFINE v == subject[k][2]
  <2>1. v \in Seq(Word) /\ Trimmed(v) /\ \A i \in 1..Len(v) : v[i] \notin Marked
    BY <1>1
  <2> HIDE DEF v
  <2>2. \A i \in 1..Len(v) : v[i] \notin Coded
    BY <1>2, <2>1
  <2>3. Bare(v) = v /\ Escaped(v) = v
    BY <2>1, <2>2, LegibleIs
  <2> QED  BY <2>3 DEF v
<1> QED  BY <1>1, <1>2, <1>3 DEF ReadsOf, ValuesOf, EscapedOf

\* The escaped form, between commas.
LEMMA TextRFC ==
    ASSUME NEW Word, Specials \cup Digits \subseteq Word, NEW subject, IsSubject(subject, Word), NEW dn, dn = RFC2253(subject)
    PROVE  /\ dn \in Seq(Word) /\ TrimSpace(dn) = dn /\ Body(dn) = dn /\ Separator(dn) = Comma
           /\ \E off : Spelled(dn, Comma, Attributed(TypesOf(subject), EscapedOf(subject), Len(subject)), off)
           /\ ParseDN(dn) = Understood(subject)
<1> DEFINE n == Len(subject)
           type == TypesOf(subject)
           enc == EscapedOf(subject)
           value == ReadsOf(subject)
           flat == FlattenSeq(Preceded(Comma, type, enc, n))
<1>1. /\ n \in Nat \ {0} /\ Equal \in Word /\ Comma \in Word /\ Backslash \in Word
      /\ type \in [1..n -> Word \ {Equal, Blank, Backslash, Comma, Slash}]
      /\ enc \in [1..n -> Seq(Word)] /\ value \in [1..n -> Seq(Word)] /\ \A k \in 1..n : Trimmed(value[k])
  BY SubjectIs
<1>2. dn = Tail(flat)
  BY FormsAre
<1>4. \A k \in 1..n : \E M : Encodes(M, enc[k], value[k], Comma)
  BY SubjectIs
<1> HIDE DEF n, type, enc, value
<1> DEFINE M == [k \in 1..n |-> CHOOSE M : Encodes(M, enc[k], value[k], Comma)]
<1>5. \A k \in 1..n : Encodes(M[k], enc[k], value[k], Comma)
  BY <1>4
<1> HIDE DEF M
<1>6. \A k \in 1..n : Trimmed(enc[k])
  BY <1>5 DEF Encodes
<1>7. type \in [1..n -> Word] /\ type \in [1..n -> Word \ {Equal, Blank}]
      /\ type \in [1..n -> Word \ {Equal, Blank, Backslash, Comma}]
  BY <1>1
<1>8. flat \in Seq(Word) /\ flat # <<>> /\ \E off : Spelled(Tail(flat), Comma, Attributed(type, enc, n), off)
  BY <1>1, <1>7, TextWritten
<1>9. PICK off : Spelled(dn, Comma, Attributed(type, enc, n), off)
  BY <1>2, <1>8
<1>10. dn \in Seq(Word)
  BY <1>2, <1>8, HeadTailProperties
<1>17. IsText(dn, Comma, type, enc, n, off, Word)
  <2>1. Comma # Backslash /\ Comma # Equal
    BY DEF Comma, Backslash, Equal
  <2> QED  BY <1>1, <1>6, <1>7, <1>9, <1>10, <2>1 DEF IsText
<1>11. dn # <<>> /\ dn[1] = type[1] /\ dn[1] # Blank /\ dn[Len(dn)] # Blank
  BY <1>17, TextTrimmed
<1>12. TrimSpace(dn) = dn
  BY <1>10, <1>11, TrimKeeps DEF Trimmed
<1>13. ~IsOneLine(dn)
  <2>1. Head(dn) = dn[1] /\ type[1] # Slash
    BY <1>1, <1>10, <1>11
  <2> QED  BY <1>11, <2>1 DEF IsOneLine, Slash
<1>14. Body(dn) = dn /\ Separator(dn) = Comma
  BY <1>13 DEF Body, Separator, Comma
<1>15. ReadBack(Fields(SplitUnescaped(dn, Comma))) = Typed(type, value, n)
  BY <1>5, <1>17, ReadIs
<1>16. ParseDN(dn) = Typed(type, value, n)
  BY <1>12, <1>14, <1>15 DEF ParseDN, ReadBack
<1> QED  BY <1>9, <1>10, <1>12, <1>14, <1>16 DEF Understood, n, type, enc, value

\* The older form, between slashes.
LEMMA TextOneline ==
    ASSUME NEW Word, Specials \cup Digits \subseteq Word, NEW subject, IsSubject(subject, Word), IsPlain(subject),
           NEW dn, dn = Oneline(subject)
    PROVE  /\ dn \in Seq(Word) /\ dn # <<>> /\ dn[1] = Slash /\ TrimSpace(dn) = dn
           /\ Body(dn) = Tail(dn) /\ Separator(dn) = Slash /\ \A p \in 1..Len(dn) : dn[p] # Comma
           /\ \E off : Spelled(Tail(dn), Slash, Attributed(TypesOf(subject), ValuesOf(subject), Len(subject)), off)
           /\ ParseDN(dn) = Understood(subject)
<1> DEFINE n == Len(subject)
           type == TypesOf(subject)
           value == ValuesOf(subject)
           body == Tail(dn)
<1>1. /\ n \in Nat \ {0} /\ Equal \in Word /\ Slash \in Word
      /\ type \in [1..n -> Word \ {Equal, Blank, Backslash, Comma, Slash}]
      /\ value \in [1..n -> Seq(Word)] /\ \A k \in 1..n : Trimmed(value[k])
  BY SubjectIs
<1>2. dn = FlattenSeq(Preceded(Slash, type, value, n))
  BY FormsAre
<1>3. (\A k \in 1..n : \A i \in 1..Len(value[k]) : value[k][i] \notin {Comma, Slash, Backslash})
      /\ Understood(subject) = Typed(type, value, n)
  BY PlainValues DEF ValuesOf, Understood
<1> HIDE DEF n, type, value
<1>4. type \in [1..n -> Word] /\ type \in [1..n -> Word \ {Equal, Blank}]
      /\ type \in [1..n -> Word \ {Equal, Blank, Backslash, Slash}]
  BY <1>1
<1>5. dn \in Seq(Word) /\ dn # <<>> /\ dn[1] = Slash /\ \E off : Spelled(body, Slash, Attributed(type, value, n), off)
  <2> DEFINE flat == FlattenSeq(Preceded(Slash, type, value, n))
  <2>1. /\ flat \in Seq(Word) /\ flat # <<>> /\ flat[1] = Slash
        /\ \E off : Spelled(Tail(flat), Slash, Attributed(type, value, n), off)
    BY <1>1, <1>4, TextWritten
  <2>2. dn = flat
    BY <1>2
  <2> HIDE DEF flat
  <2> QED  BY <2>1, <2>2
<1>6. PICK off : Spelled(body, Slash, Attributed(type, value, n), off)
  BY <1>5
<1>7. /\ body \in Seq(Word) /\ Len(body) = Len(dn) - 1 /\ Len(dn) \in Nat \ {0}
      /\ \A i \in 1..Len(body) : body[i] = dn[i + 1]
  BY <1>5, HeadTailProperties
<1> HIDE DEF body
<1>16. IsText(body, Slash, type, value, n, off, Word)
  <2>1. Slash # Backslash /\ Slash # Equal
    BY DEF Slash, Backslash, Equal
  <2> QED  BY <1>1, <1>4, <1>6, <1>7, <2>1 DEF IsText
<1>8. body # <<>> /\ body[1] # Blank /\ body[Len(body)] # Blank
  BY <1>16, TextTrimmed
<1>9. \A p \in 1..Len(body) : body[p] # Comma
  <2>1. Comma # Slash /\ Comma # Equal
    BY DEF Comma, Slash, Equal
  <2>2. \A k \in 1..n : type[k] # Comma /\ \A i \in 1..Len(value[k]) : value[k][i] # Comma
    BY <1>1, <1>3
  <2> QED  BY <1>16, <2>1, <2>2, NotInText
<1>10. \A p \in 1..Len(dn) : dn[p] # Comma
  <2> TAKE p \in 1..Len(dn)
  <2>1. CASE p = 1
    BY <1>5, <2>1 DEF Comma, Slash
  <2>2. CASE p # 1
    <3>1. p - 1 \in 1..Len(body) /\ (p - 1) + 1 = p
      BY <1>7, <2>2
    <3> QED  BY <1>7, <1>9, <3>1
  <2> QED  BY <2>1, <2>2
<1>11. TrimSpace(dn) = dn
  <2>1. Len(body) \in 1..Len(body) /\ Len(body) + 1 = Len(dn)
    <3>1. Len(body) # 0
      BY <1>7, <1>8
    <3> QED  BY <1>7, <3>1
  <2>2. dn[Len(dn)] = body[Len(body)]
    BY <1>7, <2>1
  <2>3. dn[1] # Blank
    BY <1>5 DEF Slash, Blank
  <2> QED  BY <1>5, <1>8, <2>2, <2>3, TrimKeeps DEF Trimmed
<1>12. IsOneLine(dn)
  <2>1. Head(dn) = dn[1]
    BY <1>5
  <2>2. Comma \notin Range(dn)
    BY <1>5, <1>10 DEF Range
  <2> QED  BY <1>5, <2>1, <2>2 DEF IsOneLine, Slash, Comma
<1>13. Body(dn) = body /\ Separator(dn) = Slash
  BY <1>12 DEF Body, Separator, Slash, body
<1>14. ReadBack(Fields(SplitUnescaped(body, Slash))) = Typed(type, value, n)
  <2> DEFINE M == [k \in 1..n |-> {}]
  <2>2. \A k \in 1..n : Encodes(M[k], value[k], value[k], Slash)
    <3> TAKE k \in 1..n
    <3>1. value[k] \in Seq(Word) /\ Trimmed(value[k]) /\ M[k] = {}
      BY <1>1
    <3>2. \A i \in 1..Len(value[k]) : value[k][i] # Slash /\ value[k][i] # Backslash
      BY <1>3
    <3> QED  BY <3>1, <3>2, PlainIs
  <2> HIDE DEF M
  <2> QED  BY <1>16, <2>2, ReadIs
<1>15. ParseDN(dn) = Typed(type, value, n)
  BY <1>11, <1>13, <1>14 DEF ParseDN, ReadBack
<1> QED  BY <1>3, <1>5, <1>6, <1>10, <1>11, <1>13, <1>15 DEF n, type, value, body

---------------------------------------------------------------------------
(* The two simpler readers *)

\* Between separators that stand in no value, the parts are the attributes.
LEMMA SplitPlain ==
    ASSUME NEW W, NEW n, NEW sep, NEW type, NEW value, NEW d, NEW off, IsText(d, sep, type, value, n, off, W),
           \A k \in 1..n : \A i \in 1..Len(value[k]) : value[k][i] # sep
    PROVE  Split(d, sep) = Attributed(type, value, n) /\ Fields(Split(d, sep)) = Typed(type, value, n)
<1> DEFINE parts == Attributed(type, value, n)
<1>1. /\ n \in Nat \ {0} /\ Equal \in W /\ sep # Equal /\ type \in [1..n -> W \ {Equal, Blank, Backslash, sep}]
      /\ type \in [1..n -> W \ {Equal, Blank}] /\ value \in [1..n -> Seq(W)] /\ \A k \in 1..n : Trimmed(value[k])
      /\ d \in Seq(W) /\ Spelled(d, sep, parts, off)
  BY DEF IsText
<1>2. parts \in Seq(Seq(W)) /\ Len(parts) = n /\ \A k \in 1..n : Spells(parts[k], type[k], value[k])
  <2>1. \A k \in 1..n : Attribute(type[k], value[k]) \in Seq(W)
                        /\ Spells(Attribute(type[k], value[k]), type[k], value[k])
    <3> TAKE k \in 1..n
    <3>1. type[k] \in W /\ value[k] \in Seq(W)
      BY <1>1
    <3> QED  BY <1>1, <3>1, AttributeIs
  <2> QED  BY <1>1, <2>1 DEF Attributed
<1>3. \A k \in 1..n : \A j \in 1..Len(parts[k]) : parts[k][j] # sep
  <2> HIDE DEF parts
  <2> SUFFICES ASSUME NEW k \in 1..n, NEW j \in 1..Len(parts[k]) PROVE parts[k][j] # sep
    OBVIOUS
  <2> DEFINE v == value[k]
  <2>1. v \in Seq(W) /\ type[k] # sep /\ \A i \in 1..Len(v) : v[i] # sep
    BY <1>1
  <2>2. Len(parts[k]) = 2 + Len(v) /\ parts[k][1] = type[k] /\ parts[k][2] = Equal
        /\ \A i \in 1..Len(v) : parts[k][2 + i] = v[i]
    BY <1>2 DEF Spells
  <2>3. Len(v) \in Nat
    BY <2>1
  <2> HIDE DEF v
  <2>4. CASE j \in {1, 2}
    BY <1>1, <2>1, <2>2, <2>4
  <2>5. CASE j \notin {1, 2}
    <3>1. j - 2 \in 1..Len(v) /\ 2 + (j - 2) = j
      BY <2>2, <2>3, <2>5
    <3> QED  BY <2>1, <2>2, <3>1
  <2> QED  BY <2>4, <2>5
<1>4. parts # <<>>
  BY <1>1, <1>2
<1>5. Split(d, sep) = parts
  <2> HIDE DEF parts
  <2> QED  BY <1>1, <1>2, <1>3, <1>4, SplitIs
<1>6. Fields(parts) = Typed(type, value, n)
  BY <1>1, FieldsAre
<1> QED  BY <1>5, <1>6

\* Without a separator the text is its only part.
LEMMA SplitWhole ==
    ASSUME NEW W, NEW d \in Seq(W), NEW sep, \A p \in 1..Len(d) : d[p] # sep
    PROVE  Split(d, sep) = <<d>>
<1> DEFINE parts == <<d>>
           off == [k \in 1..2 |-> IF k = 1 THEN 0 ELSE Len(d) + 1]
<1>1. parts \in Seq(Seq(W)) /\ Len(parts) = 1 /\ parts # <<>> /\ parts[1] = d /\ Len(d) \in Nat
  OBVIOUS
<1>2. off \in [1..2 -> Nat] /\ off[1] = 0 /\ off[2] = Len(d) + 1
  BY <1>1
<1> HIDE DEF parts, off
<1>3. \A k \in 1..1 : k = 1
  OBVIOUS
<1>4. \A j \in 1..Len(d) : d[0 + j] = d[j]
  OBVIOUS
<1>5. Spelled(d, sep, parts, off)
  BY <1>1, <1>2, <1>3, <1>4 DEF Spelled
<1>6. \A k \in 1..Len(parts) : \A j \in 1..Len(parts[k]) : parts[k][j] # sep
  BY <1>1, <1>3
<1>7. Split(d, sep) = parts
  BY <1>1, <1>5, <1>6, SplitIs
<1> QED  BY <1>7 DEF parts

\* A separator in front of the text is behind an empty part.
Behind(flat, sep, d, parts, off, W) ==
    /\ flat \in Seq(W) /\ flat # <<>> /\ flat[1] = sep /\ d = Tail(flat)
    /\ parts \in Seq(Seq(W)) /\ parts # <<>> /\ Spelled(d, sep, parts, off)
    /\ \A k \in 1..Len(parts) : \A j \in 1..Len(parts[k]) : parts[k][j] # sep

LEMMA SplitBehind ==
    ASSUME NEW W, NEW flat, NEW sep, NEW d, NEW parts, NEW off, Behind(flat, sep, d, parts, off, W)
    PROVE  Split(flat, sep) = <<<<>>>> \o parts
<1>  flat \in Seq(W) /\ flat # <<>> /\ flat[1] = sep /\ d = Tail(flat)
  BY DEF Behind
<1>  parts \in Seq(Seq(W)) /\ parts # <<>> /\ Spelled(d, sep, parts, off)
     /\ \A k \in 1..Len(parts) : \A j \in 1..Len(parts[k]) : parts[k][j] # sep
  BY DEF Behind
<1> DEFINE first == <<<<>>>>
           all == first \o parts
           n == Len(parts)
           begin == [k \in 1..(n + 2) |-> IF k = 1 THEN 0 ELSE off[k - 1] + 1]
<1>1. n \in Nat \ {0}
  OBVIOUS
<1>2. first \in Seq(Seq(W)) /\ Len(first) = 1 /\ first[1] = <<>>
  <2>1. <<>> \in Seq(W)
    OBVIOUS
  <2> QED  BY <2>1
<1> HIDE DEF first
<1>3. all \in Seq(Seq(W)) /\ Joins(all, first, parts)
  BY <1>2, JoinIs
<1> HIDE DEF all
<1>4. Len(all) = n + 1 /\ all[1] = <<>> /\ \A k \in 1..n : all[1 + k] = parts[k]
  <2>1. Len(all) = 1 + n
    BY <1>2, <1>3 DEF Joins
  <2>2. all[1] = <<>>
    BY <1>2, <1>3 DEF Joins
  <2>3. \A k \in 1..n : all[1 + k] = parts[k]
    BY <1>2, <1>3 DEF Joins
  <2> QED  BY <1>1, <2>1, <2>2, <2>3
<1>5. Len(flat) \in Nat \ {0} /\ Len(d) = Len(flat) - 1 /\ \A i \in 1..Len(d) : d[i] = flat[i + 1]
  BY HeadTailProperties
<1>6. d \in Seq(W)
  BY HeadTailProperties
<1> HIDE DEF n
<1>7. /\ off \in [1..(n + 1) -> Nat] /\ off[1] = 0 /\ off[n + 1] = Len(d) + 1
      /\ \A k \in 1..n : off[k + 1] = off[k] + Len(parts[k]) + 1
      /\ \A k \in 1..n : \A j \in 1..Len(parts[k]) : d[off[k] + j] = parts[k][j]
      /\ \A k \in 2..n : d[off[k]] = sep
  BY DEF Spelled, n
<1>8. Increasing(off, n + 1)
  BY <1>6, WrittenInOrder DEF n
<1>9. \A k \in 1..(n + 1) : off[k] \in Nat /\ off[k] <= Len(d) + 1 /\ (k # 1 => off[k] # 0) /\ (k # n + 1 => off[k] < Len(d) + 1)
  <2> TAKE k \in 1..(n + 1)
  <2>1. 1 \in 1..(n + 1) /\ n + 1 \in 1..(n + 1) /\ (k # 1 => 1 < k) /\ (k # n + 1 => k < n + 1)
    BY <1>1
  <2>2. off[k] \in Nat /\ off[n + 1] \in Nat
    BY <1>7, <2>1
  <2> QED  BY <1>7, <1>8, <2>1, <2>2 DEF Increasing
<1>10. begin \in [1..(n + 2) -> Nat] /\ begin[1] = 0 /\ \A k \in 1..(n + 1) : begin[k + 1] = off[k] + 1
  <2>1. \A k \in 1..(n + 2) : k # 1 => k - 1 \in 1..(n + 1)
    BY <1>1
  <2>2. \A k \in 1..(n + 2) : (IF k = 1 THEN 0 ELSE off[k - 1] + 1) \in Nat
    BY <1>9, <2>1
  <2>3. \A k \in 1..(n + 1) : k + 1 \in 1..(n + 2) /\ k + 1 # 1 /\ (k + 1) - 1 = k
    BY <1>1
  <2>4. 1 \in 1..(n + 2)
    BY <1>1
  <2> QED  BY <2>2, <2>3, <2>4
<1> HIDE DEF begin
<1>11. begin \in [1..(Len(all) + 1) -> Nat] /\ begin[Len(all) + 1] = Len(flat) + 1
  <2>1. Len(all) + 1 = n + 2 /\ n + 1 \in 1..(n + 1) /\ (n + 1) + 1 = n + 2
    BY <1>1, <1>4
  <2>2. begin[(n + 1) + 1] = off[n + 1] + 1
    BY <1>10, <2>1
  <2>3. off[n + 1] + 1 = Len(flat) + 1
    BY <1>5, <1>7
  <2> QED  BY <1>10, <2>1, <2>2, <2>3
<1>12. ASSUME NEW k \in 1..Len(all)
       PROVE  /\ begin[k + 1] = begin[k] + Len(all[k]) + 1
              /\ \A j \in 1..Len(all[k]) : flat[begin[k] + j] = all[k][j]
              /\ k # 1 => flat[begin[k]] = sep
  <2>1. CASE k = 1
    <3>1. Len(all[k]) = 0 /\ begin[k] = 0
      BY <1>4, <1>10, <2>1
    <3>2. begin[1 + 1] = off[1] + 1 /\ off[1] = 0
      <4>1. 1 \in 1..(n + 1)
        BY <1>1
      <4> QED  BY <1>7, <1>10, <4>1
    <3> QED  BY <2>1, <3>1, <3>2
  <2>2. CASE k # 1
    <3> DEFINE h == k - 1
               part == parts[h]
               len == Len(part)
               o == off[h]
    <3>1. h \in 1..n /\ 1 + h = k /\ h + 1 = k /\ h \in 1..(n + 1) /\ h + 1 \in 1..(n + 1)
      BY <1>1, <1>4, <2>2
    <3>2. part \in Seq(W)
      BY <3>1 DEF n
    <3>3. len \in Nat
      BY <3>2
    <3> HIDE DEF h
    <3>4. all[k] = part /\ o \in Nat /\ off[h + 1] = o + len + 1
      BY <1>4, <1>7, <1>9, <3>1
    <3>5. begin[k] = o + 1 /\ begin[k + 1] = off[h + 1] + 1
      <4>1. begin[h + 1] = o + 1 /\ begin[(h + 1) + 1] = off[h + 1] + 1
        BY <1>10, <3>1
      <4> QED  BY <3>1, <4>1
    <3>6. off[h + 1] <= Len(d) + 1 /\ o <= Len(d) /\ (h # 1 => o # 0)
      <4>1. h # n + 1 /\ o < Len(d) + 1
        BY <1>1, <1>9, <3>1
      <4> QED  BY <1>5, <1>9, <3>1, <3>4, <4>1
    <3>7. \A j \in 1..len : d[o + j] = part[j]
      BY <1>7, <3>1
    <3>8. h # 1 => d[o] = sep
      <4>1. h # 1 => h \in 2..n
        BY <3>1
      <4> QED  BY <1>7, <4>1
    <3>9. h = 1 => o = 0
      BY <1>7
    <3> HIDE DEF part, len, o
    <3>10. begin[k + 1] = begin[k] + len + 1
      BY <3>3, <3>4, <3>5
    <3>11. ASSUME NEW j \in 1..len PROVE flat[begin[k] + j] = part[j]
      <4>1. o + j \in 1..Len(d) /\ (o + j) + 1 = (o + 1) + j
        BY <1>5, <3>3, <3>4, <3>6
      <4> QED  BY <1>5, <3>5, <3>7, <4>1
    <3>12. flat[begin[k]] = sep
      <4>1. CASE h = 1
        BY <3>5, <3>9, <4>1
      <4>2. CASE h # 1
        <5>1. o \in 1..Len(d)
          BY <1>5, <3>4, <3>6, <4>2
        <5> QED  BY <1>5, <3>5, <3>8, <4>2, <5>1
      <4> QED  BY <4>1, <4>2
    <3> QED  BY <3>4, <3>10, <3>11, <3>12 DEF len
  <2> QED  BY <2>1, <2>2
<1>13. Spelled(flat, sep, all, begin)
  <2>1. begin[1] = 0 /\ \A k \in 2..Len(all) : k \in 1..Len(all) /\ k # 1
    BY <1>10
  <2> QED  BY <1>11, <1>12, <2>1 DEF Spelled
<1>14. ASSUME NEW k \in 1..Len(all), NEW j \in 1..Len(all[k]) PROVE all[k][j] # sep
  <2>1. CASE k = 1
    <3>1. Len(all[k]) = 0
      BY <1>4, <2>1
    <3> QED  BY <3>1
  <2>2. CASE k # 1
    <3>1. k - 1 \in 1..n /\ 1 + (k - 1) = k
      BY <1>1, <1>4, <2>2
    <3>2. all[k] = parts[k - 1]
      BY <1>4, <3>1
    <3>3. \A i \in 1..Len(parts[k - 1]) : parts[k - 1][i] # sep
      BY <3>1 DEF n
    <3> QED  BY <3>2, <3>3
  <2> QED  BY <2>1, <2>2
<1>15. all # <<>>
  BY <1>1, <1>4
<1>16. Split(flat, sep) = all
  BY <1>3, <1>13, <1>14, <1>15, SplitIs, ZenonT(30)
<1> QED  BY <1>16 DEF all, first

Cn == "CN"

NamesAnAgent(part) == Len(part) > 1 /\ part[1] = Cn /\ part[2] = Equal

\* Trimmed parts, of which the m-th is the first that is a name.
FirstNamed(parts, m, v, W) ==
    /\ parts \in Seq(Seq(W)) /\ Equal \in W /\ Cn \in W /\ v \in Seq(W) /\ Trimmed(v)
    /\ m \in 1..Len(parts) /\ parts[m] = Attribute(Cn, v)
    /\ \A k \in 1..Len(parts) : k < m => ~NamesAnAgent(parts[k])

LEMMA FirstCNIs ==
    ASSUME NEW W, NEW parts, NEW m, NEW v, FirstNamed(parts, m, v, W)
    PROVE  FirstCN(parts) = v
<1> DEFINE named == {k \in DOMAIN parts : NamesAnAgent(parts[k])}
<1>1. parts \in Seq(Seq(W)) /\ Equal \in W /\ Cn \in W /\ v \in Seq(W) /\ Trimmed(v)
  BY DEF FirstNamed
<1>2. m \in 1..Len(parts) /\ parts[m] = Attribute(Cn, v) /\ \A k \in 1..Len(parts) : k < m => ~NamesAnAgent(parts[k])
  BY DEF FirstNamed
<1>3. FirstCN(parts) = IF named = {} THEN <<>> ELSE TrimSpace(SubSeq(parts[Min(named)], 3, Len(parts[Min(named)])))
  BY DEF FirstCN, NamesAnAgent, Cn, Equal
<1>5. DOMAIN parts = 1..Len(parts) /\ Len(parts) \in Nat
  BY <1>1
<1>6. NamesAnAgent(parts[m]) /\ TrimSpace(SubSeq(parts[m], 3, Len(parts[m]))) = v
  <2> DEFINE p == Attribute(Cn, v)
  <2>1. p \in Seq(W) /\ Spells(p, Cn, v) /\ Len(v) \in Nat
    BY <1>1, AttributeIs
  <2>2. TrimSpace(SubSeq(p, 2 + 1, Len(p))) = v
    <3>1. Cn # Equal /\ Cn # Blank
      BY DEF Cn, Equal, Blank
    <3> QED  BY <1>1, <3>1, FieldIs
  <2> HIDE DEF p
  <2>3. NamesAnAgent(p)
    BY <2>1 DEF Spells, NamesAnAgent
  <2>4. parts[m] = p
    BY <1>2 DEF p
  <2>5. 2 + 1 = 3
    OBVIOUS
  <2> QED  BY <2>2, <2>3, <2>4, <2>5
<1>7. m \in named /\ \A k \in named : m <= k
  BY <1>2, <1>5, <1>6
<1>8. named \in SUBSET Int
  BY <1>5
<1> HIDE DEF named
<1>9. Min(named) = m
  BY <1>7, <1>8, MinIs
<1>10. named # {}
  BY <1>7
<1> QED  BY <1>3, <1>6, <1>9, <1>10

\* Parts that are trimmed already.
AllTrimmed(parts, W) ==
    parts \in Seq(Seq(W)) /\ \A k \in 1..Len(parts) : TrimSpace(parts[k]) = parts[k]

LEMMA TrimmedPartsAre ==
    ASSUME NEW W, NEW s, NEW sep, NEW parts, Split(s, sep) = parts, AllTrimmed(parts, W)
    PROVE  TrimmedParts(s, sep) = parts
<1>1. parts \in Seq(Seq(W)) /\ \A k \in 1..Len(parts) : TrimSpace(parts[k]) = parts[k]
  BY DEF AllTrimmed
<1>2. TrimmedParts(s, sep) = [k \in DOMAIN parts |-> TrimSpace(parts[k])]
  BY DEF TrimmedParts
<1>3. DOMAIN parts = 1..Len(parts) /\ parts = [k \in 1..Len(parts) |-> parts[k]]
  BY <1>1
<1>4. [k \in DOMAIN parts |-> TrimSpace(parts[k])] = [k \in 1..Len(parts) |-> parts[k]]
  BY <1>1, <1>3
<1> QED  BY <1>2, <1>3, <1>4

\* The first part between commas, or else between slashes, that is a name is taken for the agent's.
LEMMA AgentIs ==
    ASSUME NEW W, NEW dn, NEW commas, NEW slashes, NEW all, all = commas \o slashes,
           Split(dn, Comma) = commas, Split(dn, Slash) = slashes,
           AllTrimmed(commas, W), AllTrimmed(slashes, W),
           NEW m, NEW v, FirstNamed(all, m, v, W)
    PROVE  AgentCN(dn) = v
<1>1. TrimmedParts(dn, Comma) = commas
  BY TrimmedPartsAre
<1>2. TrimmedParts(dn, Slash) = slashes
  BY TrimmedPartsAre
<1>3. AgentCN(dn) = FirstCN(TrimmedParts(dn, Comma) \o TrimmedParts(dn, Slash))
  BY DEF AgentCN, Comma, Slash
<1>4. AgentCN(dn) = FirstCN(all)
  BY <1>1, <1>2, <1>3
<1>5. FirstCN(all) = v
  BY FirstCNIs
<1> QED  BY <1>4, <1>5

\* Every part of a text of attributes is trimmed already.
LEMMA PartsTrimmed ==
    ASSUME NEW W, NEW n, NEW sep, NEW type, NEW value, NEW d, NEW off, IsText(d, sep, type, value, n, off, W)
    PROVE  LET parts == Attributed(type, value, n)
           IN  /\ parts \in Seq(Seq(W)) /\ Len(parts) = n /\ n \in Nat \ {0}
               /\ \A k \in 1..n : TrimSpace(parts[k]) = parts[k] /\ parts[k] = Attribute(type[k], value[k])
<1> DEFINE parts == Attributed(type, value, n)
<1>1. /\ n \in Nat \ {0} /\ Equal \in W /\ type \in [1..n -> W \ {Equal, Blank}] /\ value \in [1..n -> Seq(W)]
      /\ \A k \in 1..n : Trimmed(value[k])
  BY DEF IsText
<1>2. \A k \in 1..n : LET p == Attribute(type[k], value[k]) IN p \in Seq(W) /\ TrimSpace(p) = p
  <2> TAKE k \in 1..n
  <2>1. type[k] \in W /\ type[k] # Equal /\ type[k] # Blank /\ value[k] \in Seq(W) /\ Trimmed(value[k])
    BY <1>1
  <2> QED  BY <1>1, <2>1, FieldIs
<1>3. \A k \in 1..n : parts[k] = Attribute(type[k], value[k])
  BY DEF Attributed
<1>4. parts = [k \in 1..n |-> parts[k]]
  BY DEF Attributed
<1> HIDE DEF parts
<1> QED  BY <1>1, <1>2, <1>3, <1>4 DEF parts

\* The readers without escapes take a plain subject for what it is, in its escaped form.
LEMMA PlainRFC ==
    ASSUME NEW Word, Specials \cup Digits \subseteq Word, NEW subject, IsSubject(subject, Word), IsPlain(subject),
           NEW dn, dn = RFC2253(subject)
    PROVE  /\ Fields(Split(Body(TrimSpace(dn)), Separator(TrimSpace(dn)))) = Understood(subject)
           /\ subject[1][1] = "CN" => AgentCN(dn) = subject[1][2]
<1> DEFINE n == Len(subject)
           type == TypesOf(subject)
           value == ValuesOf(subject)
           parts == Attributed(type, value, n)
<1>1. /\ n \in Nat \ {0} /\ Equal \in Word
      /\ type \in [1..n -> Word \ {Equal, Blank, Backslash, Comma, Slash}]
      /\ value \in [1..n -> Seq(Word)] /\ \A k \in 1..n : Trimmed(value[k])
  BY SubjectIs
<1>2. \A k \in 1..n : \A i \in 1..Len(value[k]) : value[k][i] \notin {Comma, Slash, Backslash}
  BY PlainValues DEF ValuesOf
<1>3. EscapedOf(subject) = value /\ ReadsOf(subject) = value
  BY PlainValues
<1>4. dn \in Seq(Word) /\ TrimSpace(dn) = dn /\ Body(dn) = dn /\ Separator(dn) = Comma
  BY TextRFC
<1>5. PICK off : Spelled(dn, Comma, parts, off)
  BY <1>3, TextRFC
<1>6. type[1] = subject[1][1] /\ value[1] = subject[1][2] /\ 1 \in 1..n
  BY <1>1 DEF TypesOf, ValuesOf
<1>7. Understood(subject) = Typed(type, value, n)
  BY <1>3 DEF Understood
<1> HIDE DEF n, type, value
<1>8. IsText(dn, Comma, type, value, n, off, Word)
  <2>1. Comma # Backslash /\ Comma # Equal
    BY DEF Comma, Backslash, Equal
  <2>2. type \in [1..n -> Word \ {Equal, Blank, Backslash, Comma}]
    BY <1>1
  <2> QED  BY <1>1, <1>4, <1>5, <2>1, <2>2 DEF IsText
<1>9. Split(dn, Comma) = parts /\ Fields(Split(dn, Comma)) = Typed(type, value, n)
  <2>1. \A k \in 1..n : \A i \in 1..Len(value[k]) : value[k][i] # Comma
    BY <1>2
  <2> QED  BY <1>8, <2>1, SplitPlain
<1>10. Split(dn, Slash) = <<dn>>
  <2>1. Slash # Comma /\ Slash # Equal
    BY DEF Slash, Comma, Equal
  <2>2. \A k \in 1..n : type[k] # Slash /\ \A i \in 1..Len(value[k]) : value[k][i] # Slash
    BY <1>1, <1>2
  <2>3. \A p \in 1..Len(dn) : dn[p] # Slash
    BY <1>8, <2>1, <2>2, NotInText
  <2> QED  BY <1>4, <2>3, SplitWhole
<1>11. ASSUME subject[1][1] = "CN" PROVE AgentCN(dn) = subject[1][2]
  <2> DEFINE slashes == <<dn>>
             all == parts \o slashes
  <2>1. slashes \in Seq(Seq(Word)) /\ Len(slashes) = 1 /\ slashes[1] = dn
    BY <1>4
  <2>2. parts \in Seq(Seq(Word)) /\ Len(parts) = n /\ \A k \in 1..n : TrimSpace(parts[k]) = parts[k]
                                                                     /\ parts[k] = Attribute(type[k], value[k])
    BY <1>8, PartsTrimmed
  <2>3. type[1] = Cn /\ Cn \in Word /\ value[1] \in Seq(Word) /\ Trimmed(value[1])
    <3>1. type[1] = Cn
      BY <1>6, <1>11 DEF Cn
    <3> QED  BY <1>1, <1>6, <3>1
  <2>4. \A k \in 1..Len(slashes) : TrimSpace(slashes[k]) = slashes[k]
    BY <1>4, <2>1
  <2>5. Split(dn, Comma) = parts /\ Split(dn, Slash) = slashes
    BY <1>9, <1>10
  <2> HIDE DEF parts, slashes
  <2>6. all \in Seq(Seq(Word)) /\ Joins(all, parts, slashes)
    BY <2>1, <2>2, JoinIs
  <2>7. 1 \in 1..Len(all) /\ all[1] = Attribute(Cn, value[1])
    BY <1>6, <2>2, <2>3, <2>6 DEF Joins
  <2>8. \A k \in 1..Len(all) : ~(k < 1)
    OBVIOUS
  <2>9. FirstNamed(all, 1, value[1], Word)
    BY <1>1, <2>3, <2>6, <2>7, <2>8 DEF FirstNamed, Joins
  <2>10. AllTrimmed(parts, Word) /\ AllTrimmed(slashes, Word)
    BY <2>1, <2>2, <2>4 DEF AllTrimmed
  <2>11. all = parts \o slashes
    BY DEF all
  <2> HIDE DEF all
  <2>12. AgentCN(dn) = value[1]
    BY <2>5, <2>9, <2>10, <2>11, AgentIs
  <2> QED  BY <1>6, <2>12
<1> QED  BY <1>4, <1>7, <1>9, <1>11

\* And in its older form.
LEMMA PlainOneline ==
    ASSUME NEW Word, Specials \cup Digits \subseteq Word, NEW subject, IsSubject(subject, Word), IsPlain(subject),
           NEW dn, dn = Oneline(subject)
    PROVE  /\ Fields(Split(Body(TrimSpace(dn)), Separator(TrimSpace(dn)))) = Understood(subject)
           /\ subject[1][1] = "CN" => AgentCN(dn) = subject[1][2]
<1> DEFINE n == Len(subject)
           type == TypesOf(subject)
           value == ValuesOf(subject)
           parts == Attributed(type, value, n)
           body == Tail(dn)
<1>1. /\ n \in Nat \ {0} /\ Equal \in Word
      /\ type \in [1..n -> Word \ {Equal, Blank, Backslash, Comma, Slash}]
      /\ value \in [1..n -> Seq(Word)] /\ \A k \in 1..n : Trimmed(value[k])
  BY SubjectIs
<1>2. \A k \in 1..n : \A i \in 1..Len(value[k]) : value[k][i] \notin {Comma, Slash, Backslash}
  BY PlainValues DEF ValuesOf
<1>3. /\ dn \in Seq(Word) /\ dn # <<>> /\ dn[1] = Slash /\ TrimSpace(dn) = dn
      /\ Body(dn) = body /\ Separator(dn) = Slash /\ \A p \in 1..Len(dn) : dn[p] # Comma
  BY TextOneline
<1>4. PICK off : Spelled(body, Slash, parts, off)
  BY TextOneline
<1>5. type[1] = subject[1][1] /\ value[1] = subject[1][2] /\ 1 \in 1..n
  BY <1>1 DEF TypesOf, ValuesOf
<1>6. Understood(subject) = Typed(type, value, n)
  BY PlainValues DEF Understood
<1>7. body \in Seq(Word)
  BY <1>3, HeadTailProperties
<1> HIDE DEF n, type, value
<1>8. IsText(body, Slash, type, value, n, off, Word)
  <2>1. Slash # Backslash /\ Slash # Equal
    BY DEF Slash, Backslash, Equal
  <2>2. type \in [1..n -> Word \ {Equal, Blank, Backslash, Slash}]
    BY <1>1
  <2> QED  BY <1>1, <1>4, <1>7, <2>1, <2>2 DEF IsText
<1>9. Split(body, Slash) = parts /\ Fields(Split(body, Slash)) = Typed(type, value, n)
  <2>1. \A k \in 1..n : \A i \in 1..Len(value[k]) : value[k][i] # Slash
    BY <1>2
  <2> QED  BY <1>8, <2>1, SplitPlain
<1>10. Split(dn, Comma) = <<dn>>
  BY <1>3, SplitWhole
<1>11. parts \in Seq(Seq(Word)) /\ Len(parts) = n /\ \A k \in 1..n : TrimSpace(parts[k]) = parts[k]
                                                                    /\ parts[k] = Attribute(type[k], value[k])
  BY <1>8, PartsTrimmed
<1>12. Split(dn, Slash) = <<<<>>>> \o parts
  <2>1. \A k \in 1..Len(parts) : \A j \in 1..Len(parts[k]) : parts[k][j] # Slash
    <3> HIDE DEF parts
    <3> SUFFICES ASSUME NEW k \in 1..n, NEW j \in 1..Len(parts[k]) PROVE parts[k][j] # Slash
      BY <1>11
    <3> DEFINE v == value[k]
    <3>1. type[k] \in Word /\ type[k] # Slash /\ v \in Seq(Word) /\ Equal # Slash
      BY <1>1 DEF Equal, Slash
    <3>2. Spells(parts[k], type[k], v) /\ Len(v) \in Nat
      BY <1>1, <1>11, <3>1, AttributeIs
    <3>3. \A i \in 1..Len(v) : v[i] # Slash
      BY <1>2
    <3> HIDE DEF v
    <3>4. CASE j \in {1, 2}
      BY <3>1, <3>2, <3>4 DEF Spells
    <3>5. CASE j \notin {1, 2}
      <4>1. j - 2 \in 1..Len(v) /\ 2 + (j - 2) = j
        BY <3>2, <3>5 DEF Spells
      <4> QED  BY <3>2, <3>3, <4>1 DEF Spells
    <3> QED  BY <3>4, <3>5
  <2>2. parts # <<>>
    BY <1>1, <1>11
  <2>3. Split(body, Slash) = parts /\ body = Tail(dn)
    BY <1>9
  <2> HIDE DEF parts, body
  <2>4. parts \in Seq(Seq(Word))
    BY <1>11
  <2>5. Behind(dn, Slash, body, parts, off, Word)
    BY <1>3, <1>4, <2>1, <2>2, <2>3, <2>4 DEF Behind
  <2> QED  BY <2>5, SplitBehind
<1>13. ASSUME subject[1][1] = "CN" PROVE AgentCN(dn) = subject[1][2]
  <2> DEFINE empty == <<<<>>>>
             commas == <<dn>>
             slashes == empty \o parts
             all == commas \o slashes
  <2>1. commas \in Seq(Seq(Word)) /\ Len(commas) = 1 /\ commas[1] = dn
    BY <1>3
  <2>2. empty \in Seq(Seq(Word)) /\ Len(empty) = 1 /\ empty[1] = <<>>
    <3>1. <<>> \in Seq(Word)
      OBVIOUS
    <3> QED  BY <3>1
  <2>3. type[1] = Cn /\ Cn \in Word /\ value[1] \in Seq(Word) /\ Trimmed(value[1])
    <3>1. type[1] = Cn
      BY <1>5, <1>13 DEF Cn
    <3> QED  BY <1>1, <1>5, <3>1
  <2>4. Split(dn, Comma) = commas /\ Split(dn, Slash) = slashes
    BY <1>10, <1>12
  <2> HIDE DEF empty, commas, parts
  <2>5. slashes \in Seq(Seq(Word)) /\ Joins(slashes, empty, parts)
    BY <1>11, <2>2, JoinIs
  <2> HIDE DEF slashes
  <2>6. all \in Seq(Seq(Word)) /\ Joins(all, commas, slashes)
    BY <2>1, <2>5, JoinIs
  <2> HIDE DEF all
  <2>7. Len(slashes) = 1 + n /\ slashes[1] = <<>> /\ \A k \in 1..n : slashes[1 + k] = parts[k]
    <3>1. Len(slashes) = 1 + n
      BY <1>11, <2>2, <2>5 DEF Joins
    <3>2. slashes[1] = <<>>
      BY <2>2, <2>5 DEF Joins
    <3>3. \A k \in 1..n : slashes[1 + k] = parts[k]
      BY <1>11, <2>2, <2>5 DEF Joins
    <3> QED  BY <3>1, <3>2, <3>3
  <2>8. Len(all) = 2 + n /\ all[1] = dn /\ all[2] = <<>> /\ all[3] = parts[1]
    <3>1. Len(all) = 1 + Len(slashes) /\ all[1] = dn /\ \A k \in 1..Len(slashes) : all[1 + k] = slashes[k]
      <4>1. Len(all) = 1 + Len(slashes)
        BY <2>1, <2>6 DEF Joins
      <4>2. all[1] = dn
        BY <2>1, <2>6 DEF Joins
      <4>3. \A k \in 1..Len(slashes) : all[1 + k] = slashes[k]
        BY <2>1, <2>6 DEF Joins
      <4> QED  BY <4>1, <4>2, <4>3
    <3>2. 1 \in 1..Len(slashes) /\ 2 \in 1..Len(slashes) /\ 1 + 1 = 2 /\ 1 + 2 = 3
      BY <1>1, <2>7
    <3>3. all[1 + 1] = slashes[1] /\ all[1 + 2] = slashes[2]
      BY <3>1, <3>2
    <3>4. slashes[1 + 1] = parts[1]
      BY <1>5, <2>7
    <3>5. 2 + n = 1 + (1 + n)
      BY <1>1
    <3> QED  BY <2>7, <3>1, <3>2, <3>3, <3>4, <3>5
  <2>9. 3 \in 1..Len(all) /\ all[3] = Attribute(Cn, value[1])
    BY <1>1, <1>5, <1>11, <2>3, <2>8
  <2>10. ASSUME NEW k \in 1..Len(all), k < 3 PROVE ~NamesAnAgent(all[k])
    <3>1. CASE k = 1
      <4>1. dn[1] # Cn
        BY <1>3 DEF Slash, Cn
      <4> QED  BY <2>8, <3>1, <4>1 DEF NamesAnAgent
    <3>2. CASE k = 2
      <4>1. Len(all[k]) = 0
        BY <2>8, <3>2
      <4> QED  BY <4>1 DEF NamesAnAgent
    <3> QED  BY <2>10, <3>1, <3>2
  <2>11. \A k \in 1..Len(commas) : TrimSpace(commas[k]) = commas[k]
    BY <1>3, <2>1
  <2>12. \A k \in 1..Len(slashes) : TrimSpace(slashes[k]) = slashes[k]
    <3> TAKE k \in 1..Len(slashes)
    <3>1. CASE k = 1
      <4>1. TrimSpace(<<>>) = <<>>
        <5>1. <<>> \in Seq(Word) /\ Trimmed(<<>>)
          BY DEF Trimmed
        <5> QED  BY <5>1, TrimKeeps
      <4> QED  BY <2>7, <3>1, <4>1
    <3>2. CASE k # 1
      <4>1. k - 1 \in 1..n /\ 1 + (k - 1) = k
        BY <1>1, <2>7, <3>2
      <4>2. slashes[k] = parts[k - 1]
        BY <2>7, <4>1
      <4> QED  BY <1>11, <4>1, <4>2
    <3> QED  BY <3>1, <3>2
  <2>13. AgentCN(dn) = value[1]
    <3>1. FirstNamed(all, 3, value[1], Word)
      BY <1>1, <2>3, <2>6, <2>9, <2>10 DEF FirstNamed
    <3>2. AllTrimmed(commas, Word) /\ AllTrimmed(slashes, Word)
      BY <2>1, <2>5, <2>11, <2>12 DEF AllTrimmed
    <3>3. all = commas \o slashes
      BY DEF all
    <3> QED  BY <2>4, <3>1, <3>2, <3>3, AgentIs
  <2> QED  BY <1>5, <2>13
<1> QED  BY <1>3, <1>6, <1>9, <1>13

---------------------------------------------------------------------------
(* The routes *)

\* What the readers look up in the attributes they understood.
LEMMA FirstIs ==
    ASSUME NEW n \in Nat, NEW type, NEW value, NEW key, NEW k \in 1..n, type[k] = key,
           \A i \in 1..n : i < k => type[i] # key
    PROVE  FirstOf(Typed(type, value, n), key) = value[k]
<1> DEFINE fields == Typed(type, value, n)
           at == {i \in DOMAIN fields : fields[i].type = <<key>>}
<1>1. FirstOf(fields, key) = IF at = {} THEN <<>> ELSE fields[Min(at)].value
  BY DEF FirstOf
<1>2. DOMAIN fields = 1..n /\ \A i \in 1..n : fields[i].type = <<type[i]>> /\ fields[i].value = value[i]
  BY DEF Typed
<1> HIDE DEF fields
<1>3. \A i \in 1..n : i \in at <=> type[i] = key
  BY <1>2
<1>4. k \in at /\ \A i \in at : k <= i
  <2> SUFFICES ASSUME NEW i \in at PROVE k <= i
    BY <1>3
  <2>1. i \in 1..n /\ type[i] = key
    BY <1>2, <1>3
  <2> QED  BY <2>1
<1>5. at \in SUBSET Int
  BY <1>2
<1> HIDE DEF at
<1>6. Min(at) = k
  BY <1>4, <1>5, MinIs
<1>7. at # {}
  BY <1>4
<1> QED  BY <1>1, <1>2, <1>6, <1>7 DEF fields

LEMMA HasIs ==
    ASSUME NEW Word, Specials \cup Digits \subseteq Word, NEW subject, IsSubject(subject, Word), NEW key, NEW want
    PROVE  HasValue(Understood(subject), key, want) <=> want \in Attributes(Read(subject), key)
<1> DEFINE n == Len(subject)
           fields == Understood(subject)
           read == Read(subject)
<1>1. n \in Nat \ {0} /\ DOMAIN subject = 1..n
  BY SubjectIs
<1>2. DOMAIN fields = 1..n /\ \A k \in 1..n : fields[k].type = <<subject[k][1]>> /\ fields[k].value = Bare(subject[k][2])
  BY DEF Understood, Typed, TypesOf, ReadsOf
<1>3. DOMAIN read = 1..n /\ \A k \in 1..n : read[k][1] = subject[k][1] /\ read[k][2] = Bare(subject[k][2])
  BY <1>1 DEF Read
<1> HIDE DEF n, fields, read
<1>4. HasValue(fields, key, want) <=> \E k \in 1..n : subject[k][1] = key /\ Bare(subject[k][2]) = want
  BY <1>2 DEF HasValue
<1>5. want \in Attributes(read, key) <=> \E k \in 1..n : subject[k][1] = key /\ Bare(subject[k][2]) = want
  BY <1>3 DEF Attributes
<1> QED  BY <1>4, <1>5 DEF fields, read

\* No value but the word itself is read as a word of one character that is not coded.
LEMMA WordIs ==
    ASSUME NEW W, Digits \subseteq W, Backslash \in W, NEW v \in Seq(W), NEW c \in W, c \notin Coded
    PROVE  Bare(v) = <<c>> <=> v = <<c>>
<1> DEFINE signs == Signs(v)
<1>1. signs \in Seq(Seq(W)) /\ \A k \in 1..Len(v) : v[k] \in Coded => Len(signs) > 1
  BY SignsAre
<1>2. Bare(v) = [j \in 1..Len(signs) |-> Last(signs[j])] /\ Len(signs) \in Nat
  BY <1>1 DEF Bare
<1>3. Len(Bare(v)) = Len(signs)
  <2> HIDE DEF signs
  <2> QED  BY <1>2
<1>4. ASSUME \A k \in 1..Len(v) : v[k] \notin Coded PROVE Bare(v) = v
  BY <1>4, LegibleIs
<1> HIDE DEF signs
<1>5. ASSUME Bare(v) = <<c>> PROVE v = <<c>>
  <2>1. Len(signs) = 1
    BY <1>3, <1>5
  <2> QED  BY <1>1, <1>4, <1>5, <2>1
<1>6. ASSUME v = <<c>> PROVE Bare(v) = <<c>>
  <2>1. \A k \in 1..Len(v) : v[k] = c
    BY <1>6
  <2> QED  BY <1>4, <1>6, <2>1
<1> QED  BY <1>5, <1>6

\* So a policy is read where it stands, and nowhere else.
LEMMA PolicyIs ==
    ASSUME NEW Word, Specials \cup Digits \subseteq Word, NEW subject, IsSubject(subject, Word), NEW key,
           NEW word \in {"scanner-sensor", "agent-endpoint"}
    PROVE  <<word>> \in Attributes(Read(subject), key) <=> <<word>> \in Attributes(subject, key)
<1> DEFINE n == Len(subject)
           read == Read(subject)
           W == Word \cup {word}
<1>1. n \in Nat \ {0} /\ DOMAIN subject = 1..n /\ Backslash \in W /\ Digits \subseteq W
  BY SubjectIs
<1>2. \A k \in 1..n : subject[k][2] \in Seq(Word)
  <2>1. ValuesOf(subject) \in [1..n -> Seq(Word)]
    BY SubjectIs
  <2> QED  BY <2>1 DEF ValuesOf
<1>3. word \in W /\ word \notin Coded
  BY CodedAssumption
<1>4. \A k \in 1..n : subject[k][2] \in Seq(W)
  BY <1>2
<1>5. DOMAIN read = 1..n /\ \A k \in 1..n : read[k][1] = subject[k][1] /\ read[k][2] = Bare(subject[k][2])
  BY <1>1 DEF Read
<1> HIDE DEF n, read, W
<1>6. \A k \in 1..n : Bare(subject[k][2]) = <<word>> <=> subject[k][2] = <<word>>
  <2> TAKE k \in 1..n
  <2> DEFINE v == subject[k][2]
  <2>1. v \in Seq(W)
    BY <1>4
  <2> HIDE DEF v
  <2>2. Bare(v) = <<word>> <=> v = <<word>>
    BY <1>1, <1>3, <2>1, WordIs
  <2> QED  BY <2>2 DEF v
<1>7. <<word>> \in Attributes(read, key) <=> \E k \in 1..n : subject[k][1] = key /\ Bare(subject[k][2]) = <<word>>
  <2>1. Attributes(read, key) = {read[k][2] : k \in {i \in 1..n : subject[i][1] = key}}
    BY <1>5 DEF Attributes
  <2> QED  BY <1>5, <2>1
<1>8. <<word>> \in Attributes(subject, key) <=> \E k \in 1..n : subject[k][1] = key /\ subject[k][2] = <<word>>
  BY <1>1 DEF Attributes
<1> QED  BY <1>6, <1>7, <1>8 DEF read

\* A subject without coded bytes is read back as it is.
LEMMA LegibleSubject ==
    ASSUME NEW Word, Specials \cup Digits \subseteq Word, NEW subject, IsSubject(subject, Word), IsLegible(subject)
    PROVE  Read(subject) = subject
<1> DEFINE n == Len(subject)
           A == Word \X Seq(Word)
<1>1. subject \in Seq(A)
  BY DEF IsSubject
<1> HIDE DEF A
<1>2. n \in Nat /\ DOMAIN subject = 1..n /\ subject = [k \in 1..n |-> subject[k]] /\ \A k \in 1..n : subject[k] \in A
  BY <1>1
<1>3. \A k \in 1..n : <<subject[k][1], Bare(subject[k][2])>> = subject[k]
  <2> TAKE k \in 1..n
  <2> DEFINE v == subject[k][2]
  <2>1. v \in Seq(Word) /\ subject[k] = <<subject[k][1], v>>
    BY <1>2 DEF A
  <2>2. Range(v) \cap Coded = {}
    BY <1>2 DEF IsLegible
  <2> HIDE DEF v
  <2>3. \A i \in 1..Len(v) : v[i] \in Range(v)
    BY <2>1 DEF Range
  <2>4. Bare(v) = v
    BY <2>1, <2>2, <2>3, LegibleIs
  <2> QED  BY <2>1, <2>4 DEF v
<1> QED  BY <1>2, <1>3 DEF Read

\* The subject of a certificate that the CA signs: a name, a policy and a tenant that are not empty come
\* first, whatever attributes follow.
IsCertificate(subject, Word) ==
    /\ IsSubject(subject, Word) /\ Len(subject) > 2
    /\ subject[1][1] = "CN" /\ subject[2][1] = "OU" /\ subject[3][1] = "O"
    /\ subject[1][2] # <<>> /\ subject[3][2] # <<>>

LEMMA IdentityIs ==
    ASSUME NEW Word, Specials \cup Digits \subseteq Word, NEW subject, IsCertificate(subject, Word)
    PROVE  LET read == Read(subject)
           IN  /\ FirstOf(Understood(subject), "CN") = read[1][2] /\ read[1][2] # <<>>
               /\ FirstOf(Understood(subject), "O") = read[3][2] /\ read[3][2] # <<>>
               /\ Identity(Understood(subject)) = Means(read)
<1> DEFINE n == Len(subject)
           type == TypesOf(subject)
           value == ReadsOf(subject)
           read == Read(subject)
<1>1. n \in Nat \ {0} /\ n > 2
  BY SubjectIs DEF IsCertificate
<1>2. type[1] = "CN" /\ type[2] = "OU" /\ type[3] = "O"
  BY <1>1 DEF TypesOf, IsCertificate
<1>3. value[1] = read[1][2] /\ value[2] = read[2][2] /\ value[3] = read[3][2]
  BY <1>1, SubjectIs DEF ReadsOf, Read, IsCertificate
<1>4. "CN" # "O" /\ "CN" # "OU" /\ "OU" # "O"
  OBVIOUS
<1>5. Understood(subject) = Typed(type, value, n)
  BY DEF Understood
<1>10. value[1] # <<>> /\ value[3] # <<>>
  <2>1. ValuesOf(subject)[1] # <<>> /\ ValuesOf(subject)[3] # <<>>
    BY <1>1 DEF ValuesOf, IsCertificate
  <2>2. 1 \in 1..n /\ 3 \in 1..n
    BY <1>1
  <2> QED  BY <2>1, <2>2, SubjectIs DEF IsCertificate
<1> HIDE DEF n, type, value, read
<1>6. 1 \in 1..n /\ 2 \in 1..n /\ 3 \in 1..n
  BY <1>1
<1>7. FirstOf(Understood(subject), "CN") = value[1]
  <2>1. \A i \in 1..n : ~(i < 1)
    BY <1>1
  <2>2. type[1] = Cn /\ \A i \in 1..n : i < 1 => type[i] # Cn
    BY <1>2, <2>1 DEF Cn
  <2>3. FirstOf(Typed(type, value, n), Cn) = value[1]
    BY <1>1, <1>6, <2>2, FirstIs
  <2> QED  BY <1>5, <2>3 DEF Cn
<1>8. FirstOf(Understood(subject), "OU") = value[2]
  <2>1. \A i \in 1..n : i < 2 => i = 1
    BY <1>1
  <2>2. \A i \in 1..n : i < 2 => type[i] # "OU"
    BY <1>2, <1>4, <2>1
  <2> QED  BY <1>1, <1>2, <1>5, <1>6, <2>2, FirstIs
<1>9. FirstOf(Understood(subject), "O") = value[3]
  <2>1. \A i \in 1..n : i < 3 => i = 1 \/ i = 2
    BY <1>1
  <2>2. \A i \in 1..n : i < 3 => type[i] # "O"
    BY <1>2, <1>4, <2>1
  <2> QED  BY <1>1, <1>2, <1>5, <1>6, <2>2, FirstIs
<1> QED  BY <1>3, <1>7, <1>8, <1>9, <1>10 DEF Identity, Means, read

\* Whatever characters and attributes its certificate has, however long they are, and whoever is let in:
\* every route takes a caller for what the certificate says, in either form of the text, with the digits of
\* a coded byte for the byte. No value ends with a blank, which the readers would cut off behind its backslash.
THEOREM CallersAreRead ==
    ASSUME NEW Word, Specials \cup Digits \subseteq Word, NEW subject, IsCertificate(subject, Word),
           NEW known, NEW allowedO, NEW allowedOU
    PROVE  CallerIsExact(subject, known, allowedO, allowedOU)
<1>  IsSubject(subject, Word)
  BY DEF IsCertificate
<1>12. IsLegible(subject) => Read(subject) = subject
  BY LegibleSubject
<1> SUFFICES ASSUME NEW dn \in Texts(subject)
             PROVE  LET read == Read(subject)
                        units == Attributes(subject, "OU")
                        tenant == read[3][2]
                        sensor == PolicyScannerSensor \in units
                        endpoint == PolicyAgentEndpoint \in units
                        requester == allowedO \in Attributes(read, "O") /\ allowedOU \in Attributes(read, "OU")
                    IN  /\ AuthorizeReporter(dn) = Expected(read, sensor)
                        /\ AuthorizeSensor(dn, known) = Expected(read, sensor /\ tenant \in known)
                        /\ AuthorizeEndpoint(dn, known) = Expected(read, endpoint /\ tenant \in known)
                        /\ AuthorizeRequester(dn, allowedO, allowedOU) = Expected(read, requester)
                        /\ IsPlain(subject) => RenewCaller(dn) = Means(subject) /\ AgentCN(dn) = subject[1][2]
  BY <1>12 DEF CallerIsExact
<1>1. dn = RFC2253(subject) \/ (IsPlain(subject) /\ dn = Oneline(subject))
  BY DEF Texts
<1> DEFINE f == Understood(subject)
           read == Read(subject)
           units == Attributes(read, "OU")
           tenant == read[3][2]
           says == Attributes(subject, "OU")
<1>2. ParseDN(dn) = f
  BY <1>1, TextRFC, TextOneline
<1>3. /\ FirstOf(f, "CN") = read[1][2] /\ FirstOf(f, "O") = tenant /\ Identity(f) = Means(read)
      /\ read[1][2] # <<>> /\ tenant # <<>>
  BY IdentityIs
<1>4. /\ PolicyScannerSensor \in units <=> PolicyScannerSensor \in says
      /\ PolicyAgentEndpoint \in units <=> PolicyAgentEndpoint \in says
  BY PolicyIs DEF PolicyScannerSensor, PolicyAgentEndpoint
<1>5. \A want : HasValue(f, "OU", want) <=> want \in units
  BY HasIs
<1>6. \A want : HasValue(f, "O", want) <=> want \in Attributes(read, "O")
  BY HasIs
<1>7. ASSUME IsPlain(subject) PROVE RenewCaller(dn) = Means(subject) /\ AgentCN(dn) = subject[1][2]
  <2>1. subject[1][1] = "CN"
    BY DEF IsCertificate
  <2>2. Fields(Split(Body(TrimSpace(dn)), Separator(TrimSpace(dn)))) = f /\ AgentCN(dn) = subject[1][2]
    BY <1>1, <1>7, <2>1, PlainRFC, PlainOneline
  <2>3. read = subject
    <3>1. IsLegible(subject)
      BY <1>7 DEF IsPlain, IsLegible, Marked
    <3> QED  BY <1>12, <3>1
  <2> HIDE DEF f, read
  <2> QED  BY <1>3, <2>2, <2>3 DEF RenewCaller
<1> HIDE DEF f, read, units, tenant, says
<1>8. AuthorizeReporter(dn) = Expected(read, PolicyScannerSensor \in says)
  BY <1>2, <1>3, <1>4, <1>5 DEF AuthorizeReporter, Expected
<1>9. AuthorizeSensor(dn, known) = Expected(read, PolicyScannerSensor \in says /\ tenant \in known)
  BY <1>2, <1>3, <1>4, <1>5 DEF AuthorizeSensor, Expected
<1>10. AuthorizeEndpoint(dn, known) = Expected(read, PolicyAgentEndpoint \in says /\ tenant \in known)
  BY <1>2, <1>3, <1>4, <1>5 DEF AuthorizeEndpoint, Expected
<1>11. AuthorizeRequester(dn, allowedO, allowedOU)
         = Expected(read, allowedO \in Attributes(read, "O") /\ allowedOU \in units)
  BY <1>2, <1>3, <1>5, <1>6 DEF AuthorizeRequester, Expected
<1> QED  BY <1>7, <1>8, <1>9, <1>10, <1>11 DEF read, units, tenant, says

=============================================================================
