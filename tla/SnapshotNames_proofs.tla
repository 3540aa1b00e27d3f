-------------------------- MODULE SnapshotNames_proofs --------------------------
(***************************************************************************)
(* Machine-checked proofs about SnapshotNames: IdsAreRead and              *)
(* RestoresOwnSchedule for every set of schedules and backups and any      *)
(* names they may have.  What strings.Split returns is proved by counting  *)
(* the cuts below each cut; the invariant says how the backups of a        *)
(* behaviour got their names and ids.                                      *)
(***************************************************************************)
EXTENDS SnapshotNames, FiniteSetTheorems, SequenceTheorems, WellFoundedInduction, TLAPS

-------------------------------------------------------------------------------
(* Split                                                                   *)

(* The cuts of a string are finitely many, and counting those below a cut  *)
(* numbers them from 0, each with a number of its own.                     *)
LEMMA CutsFinite ==
    ASSUME NEW s \in Seq(STRING), NEW sep
    PROVE  /\ Cuts(s, sep) \subseteq 0..(Len(s) + 1)
           /\ IsFiniteSet(Cuts(s, sep))
           /\ \A S \in SUBSET Cuts(s, sep) : IsFiniteSet(S)
<1>1. Cuts(s, sep) \subseteq 0..(Len(s) + 1)
  BY DEF Cuts
<1>2. IsFiniteSet(0..(Len(s) + 1))
  BY FS_Interval
<1> QED BY <1>1, <1>2, FS_Subset

LEMMA BelowGrows ==
    ASSUME NEW S, IsFiniteSet(S), S \subseteq Nat, NEW i \in S, NEW j \in S, i < j
    PROVE  /\ Below(S, i) \in Nat
           /\ Below(S, j) \in Nat
           /\ Below(S, i) < Below(S, j)
<1> DEFINE A == {x \in S : x < i}
           B == {x \in S : x < j}
<1>1. IsFiniteSet(B) /\ IsFiniteSet(A)
  BY FS_Subset
<1>2. A \subseteq B /\ i \in B /\ i \notin A
  <2>1. i \in Nat /\ j \in Nat /\ \A x \in S : x \in Nat
    OBVIOUS
  <2>2. \A x \in A : x \in B
    BY <2>1
  <2>3. i \in B
    BY <2>1
  <2>4. ~ (i < i)
    BY <2>1
  <2>5. i \notin A
    BY <2>4
  <2> QED BY <2>2, <2>3, <2>5
<1>3. A \in SUBSET (B \ {i})
  BY <1>2
<1>4. IsFiniteSet(B \ {i}) /\ Cardinality(B \ {i}) = Cardinality(B) - 1
  BY <1>1, <1>2, FS_RemoveElement
<1>5. Cardinality(A) <= Cardinality(B \ {i})
  BY <1>3, <1>4, FS_Subset
<1>6. Cardinality(A) \in Nat /\ Cardinality(B) \in Nat
  BY <1>1, FS_CardinalityType
<1> QED BY <1>4, <1>5, <1>6 DEF Below

LEMMA BelowOnce ==
    ASSUME NEW S, IsFiniteSet(S), S \subseteq Nat, NEW i \in S
    PROVE  Cut(S, Below(S, i)) = i
<1> SUFFICES ASSUME NEW j \in S, Below(S, j) = Below(S, i) PROVE j = i
  BY DEF Cut
<1>1. ~ (i < j)
  <2> SUFFICES ASSUME i < j PROVE FALSE
    OBVIOUS
  <2>1. /\ Below(S, i) \in Nat
        /\ Below(S, i) < Below(S, j)
    BY BelowGrows
  <2> QED BY <2>1
<1>2. ~ (j < i)
  <2> SUFFICES ASSUME j < i PROVE FALSE
    OBVIOUS
  <2>1. /\ Below(S, i) \in Nat
        /\ Below(S, j) < Below(S, i)
    BY BelowGrows
  <2> QED BY <2>1
<1>3. i \in Nat /\ j \in Nat
  OBVIOUS
<1> QED BY <1>1, <1>2, <1>3

(* What stands where in a string of two parts and a separator.             *)
LEMMA Joined ==
    ASSUME NEW T, NEW u \in Seq(T), NEW v \in Seq(T), NEW sep \in T,
           NEW s, s = u \o <<sep>> \o v
    PROVE  /\ s \in Seq(T)
           /\ Len(s) = Len(u) + 1 + Len(v)
           /\ \A i \in 1..Len(u) : s[i] = u[i]
           /\ s[Len(u) + 1] = sep
           /\ \A i \in 1..Len(v) : s[Len(u) + 1 + i] = v[i]
           /\ SubSeq(s, 1, Len(u)) = u
           /\ SubSeq(s, Len(u) + 2, Len(s)) = v
<1> DEFINE t == u \o <<sep>>
<1>1. <<sep>> \in Seq(T) /\ Len(<<sep>>) = 1 /\ <<sep>>[1] = sep
  OBVIOUS
<1>2. /\ t \in Seq(T) /\ Len(t) = Len(u) + 1
      /\ \A i \in 1..(Len(u) + 1) : t[i] = IF i <= Len(u) THEN u[i] ELSE <<sep>>[i - Len(u)]
  BY <1>1, ConcatProperties
<1>3. Len(u) \in Nat /\ Len(v) \in Nat
  BY LenProperties
<1>4. t[Len(u) + 1] = sep
  BY <1>1, <1>2, <1>3
<1> HIDE DEF t
<1>5. /\ t \o v \in Seq(T) /\ Len(t \o v) = Len(t) + Len(v)
      /\ \A i \in 1..(Len(t) + Len(v)) : (t \o v)[i] = IF i <= Len(t) THEN t[i] ELSE v[i - Len(t)]
  BY <1>2, ConcatProperties
<1>6. s = t \o v
  BY DEF t
<1>7. /\ s \in Seq(T) /\ Len(s) = Len(u) + 1 + Len(v)
      /\ \A i \in 1..Len(u) : s[i] = u[i]
      /\ s[Len(u) + 1] = sep
      /\ \A i \in 1..Len(v) : s[Len(u) + 1 + i] = v[i]
  <2> HIDE DEF t
  <2>1. s \in Seq(T) /\ Len(s) = Len(u) + 1 + Len(v)
    BY <1>2, <1>5, <1>6
  <2>2. ASSUME NEW i \in 1..Len(u) PROVE s[i] = u[i]
    <3>1. i \in 1..(Len(t) + Len(v)) /\ i <= Len(t) /\ i \in 1..(Len(u) + 1) /\ i <= Len(u)
      BY <1>2, <1>3
    <3>2. s[i] = t[i] /\ t[i] = u[i]
      BY <1>2, <1>5, <1>6, <3>1
    <3> QED BY <3>2
  <2>3. s[Len(u) + 1] = sep
    <3>1. Len(u) + 1 \in 1..(Len(t) + Len(v)) /\ Len(u) + 1 <= Len(t)
      BY <1>2, <1>3
    <3> QED BY <1>4, <1>5, <1>6, <3>1
  <2>4. ASSUME NEW i \in 1..Len(v) PROVE s[Len(u) + 1 + i] = v[i]
    <3>1. /\ Len(u) + 1 + i \in 1..(Len(t) + Len(v)) /\ ~ (Len(u) + 1 + i <= Len(t))
          /\ (Len(u) + 1 + i) - Len(t) = i
      BY <1>2, <1>3
    <3> QED BY <1>5, <1>6, <3>1
  <2> QED BY <2>1, <2>2, <2>3, <2>4
<1>8. SubSeq(s, 1, Len(u)) = u
  <2>1. \A i \in 1..Len(u) : s[i] \in T
    BY <1>7, ElementOfSeq
  <2>2. /\ SubSeq(s, 1, Len(u)) \in Seq(T)
        /\ Len(SubSeq(s, 1, Len(u))) = IF 1 <= Len(u) THEN Len(u) - 1 + 1 ELSE 0
        /\ \A i \in 1..(Len(u) - 1 + 1) : SubSeq(s, 1, Len(u))[i] = s[1 + i - 1]
    BY <1>3, <2>1, SubSeqProperties
  <2>3. /\ Len(SubSeq(s, 1, Len(u))) = Len(u)
        /\ \A i \in 1..Len(u) : SubSeq(s, 1, Len(u))[i] = u[i]
    BY <1>3, <1>7, <2>2
  <2> QED BY <2>2, <2>3, SeqEqual
<1>9. SubSeq(s, Len(u) + 2, Len(s)) = v
  <2> DEFINE w == SubSeq(s, Len(u) + 2, Len(s))
  <2>1. \A i \in (Len(u) + 2)..Len(s) : s[i] \in T
    BY <1>3, <1>7, ElementOfSeq
  <2>2. /\ w \in Seq(T)
        /\ Len(w) = IF Len(u) + 2 <= Len(s) THEN Len(s) - (Len(u) + 2) + 1 ELSE 0
        /\ \A i \in 1..(Len(s) - (Len(u) + 2) + 1) : w[i] = s[Len(u) + 2 + i - 1]
    BY <1>3, <1>7, <2>1, SubSeqProperties
  <2> HIDE DEF w
  <2>3. Len(w) = Len(v)
    BY <1>3, <1>7, <2>2
  <2>4. ASSUME NEW i \in 1..Len(v) PROVE w[i] = v[i]
    <3>1. i \in 1..(Len(s) - (Len(u) + 2) + 1) /\ Len(u) + 2 + i - 1 = Len(u) + 1 + i
      BY <1>3, <1>7
    <3> QED BY <1>7, <2>2, <3>1
  <2>5. w = v
    BY <2>2, <2>3, <2>4, SeqEqual
  <2> QED BY <2>5 DEF w
<1> QED BY <1>7, <1>8, <1>9

LEMMA SubSeqSame ==
    ASSUME NEW T, NEW s, NEW r, NEW m \in Int, NEW n \in Int,
           \A i \in m..n : s[i] = r[i] /\ s[i] \in T
    PROVE  SubSeq(s, m, n) = SubSeq(r, m, n)
<1>1. \A i \in m..n : s[i] \in T /\ r[i] \in T
  OBVIOUS
<1>2. /\ SubSeq(s, m, n) \in Seq(T)
      /\ Len(SubSeq(s, m, n)) = IF m <= n THEN n - m + 1 ELSE 0
      /\ \A i \in 1..(n - m + 1) : SubSeq(s, m, n)[i] = s[m + i - 1]
  BY <1>1, SubSeqProperties
<1>3. /\ SubSeq(r, m, n) \in Seq(T)
      /\ Len(SubSeq(r, m, n)) = IF m <= n THEN n - m + 1 ELSE 0
      /\ \A i \in 1..(n - m + 1) : SubSeq(r, m, n)[i] = r[m + i - 1]
  BY <1>1, SubSeqProperties
<1>4. ASSUME NEW i \in 1..Len(SubSeq(s, m, n))
      PROVE  SubSeq(s, m, n)[i] = SubSeq(r, m, n)[i]
  <2>1. i \in 1..(n - m + 1) /\ m + i - 1 \in m..n
    BY <1>2
  <2> QED BY <1>2, <1>3, <2>1
<1>5. Len(SubSeq(s, m, n)) = Len(SubSeq(r, m, n))
  BY <1>2, <1>3
<1> QED BY <1>2, <1>3, <1>4, <1>5, SeqEqual

(* The numbers of the cuts in a string with one separator or with two.     *)
LEMMA CutsOfTwo ==
    ASSUME NEW c1 \in Nat, NEW c2 \in Nat, 0 < c1, c1 < c2, NEW C, C = {0, c1, c2}
    PROVE  /\ Cardinality(C) = 3
           /\ Cut(C, 0) = 0
           /\ Cut(C, 1) = c1
           /\ Cut(C, 2) = c2
<1>1. /\ {j \in C : j < 0} = {}
      /\ {j \in C : j < c1} = {0}
      /\ {j \in C : j < c2} = {0} \cup {c1}
      /\ C = ({0} \cup {c1}) \cup {c2}
  OBVIOUS
<1>2. Cardinality({}) = 0 /\ Cardinality({0}) = 1 /\ IsFiniteSet({0})
  BY FS_EmptySet, FS_Singleton
<1>3. Cardinality({0} \cup {c1}) = 2 /\ IsFiniteSet({0} \cup {c1})
  <2>1. c1 \notin {0}
    OBVIOUS
  <2> QED BY <1>2, <2>1, FS_AddElement
<1>4. Cardinality(C) = 3 /\ IsFiniteSet(C)
  <2>1. c2 \notin {0} \cup {c1}
    OBVIOUS
  <2> QED BY <1>1, <1>3, <2>1, FS_AddElement
<1>5. Below(C, 0) = 0 /\ Below(C, c1) = 1 /\ Below(C, c2) = 2
  BY <1>1, <1>2, <1>3 DEF Below
<1>6. C \subseteq Nat /\ 0 \in C /\ c1 \in C /\ c2 \in C
  OBVIOUS
<1>7. /\ Cut(C, Below(C, 0)) = 0
      /\ Cut(C, Below(C, c1)) = c1
      /\ Cut(C, Below(C, c2)) = c2
  BY <1>4, <1>6, BelowOnce
<1> QED BY <1>4, <1>5, <1>7

LEMMA CutsOfThree ==
    ASSUME NEW c1 \in Nat, NEW c2 \in Nat, NEW c3 \in Nat, 0 < c1, c1 < c2, c2 < c3,
           NEW C, C = {0, c1, c2, c3}
    PROVE  /\ Cardinality(C) = 4
           /\ Cut(C, 0) = 0
           /\ Cut(C, 1) = c1
           /\ Cut(C, 2) = c2
           /\ Cut(C, 3) = c3
<1> DEFINE B == {0, c1, c2}
<1>1. /\ {j \in C : j < 0} = {}
      /\ {j \in C : j < c1} = {0}
      /\ {j \in C : j < c2} = {0} \cup {c1}
      /\ {j \in C : j < c3} = B
      /\ B = ({0} \cup {c1}) \cup {c2}
      /\ C = B \cup {c3}
  OBVIOUS
<1>2. Cardinality({}) = 0 /\ Cardinality({0}) = 1 /\ IsFiniteSet({0})
  BY FS_EmptySet, FS_Singleton
<1>3. Cardinality({0} \cup {c1}) = 2 /\ IsFiniteSet({0} \cup {c1})
  <2>1. c1 \notin {0}
    OBVIOUS
  <2> QED BY <1>2, <2>1, FS_AddElement
<1>4. Cardinality(B) = 3 /\ IsFiniteSet(B)
  <2>1. c2 \notin {0} \cup {c1}
    OBVIOUS
  <2> QED BY <1>1, <1>3, <2>1, FS_AddElement
<1>5. Cardinality(C) = 4 /\ IsFiniteSet(C)
  <2>1. c3 \notin B
    OBVIOUS
  <2>2. C = B \cup {c3}
    BY <1>1
  <2> HIDE DEF B
  <2> QED BY <1>4, <2>1, <2>2, FS_AddElement
<1>6. Below(C, 0) = 0 /\ Below(C, c1) = 1 /\ Below(C, c2) = 2 /\ Below(C, c3) = 3
  BY <1>1, <1>2, <1>3, <1>4 DEF Below
<1>7. C \subseteq Nat /\ 0 \in C /\ c1 \in C /\ c2 \in C /\ c3 \in C
  OBVIOUS
<1>8. /\ Cut(C, Below(C, 0)) = 0
      /\ Cut(C, Below(C, c1)) = c1
      /\ Cut(C, Below(C, c2)) = c2
      /\ Cut(C, Below(C, c3)) = c3
  BY <1>5, <1>7, BelowOnce
<1> QED BY <1>5, <1>6, <1>8

(* A string is split where its parts meet, when these do not hold the      *)
(* separator themselves.                                                   *)
LEMMA SplitInTwo ==
    ASSUME NEW T, NEW u \in Seq(T), NEW v \in Seq(T), NEW sep \in T,
           sep \notin Range(u), sep \notin Range(v)
    PROVE  Split(u \o <<sep>> \o v, sep) = <<u, v>>
<1> DEFINE s == u \o <<sep>> \o v
           C == Cuts(s, sep)
           c1 == Len(u) + 1
           c2 == Len(s) + 1
<1>1. /\ s \in Seq(T) /\ Len(s) = Len(u) + 1 + Len(v)
      /\ \A i \in 1..Len(u) : s[i] = u[i]
      /\ s[c1] = sep
      /\ \A i \in 1..Len(v) : s[c1 + i] = v[i]
      /\ SubSeq(s, 1, Len(u)) = u
      /\ SubSeq(s, Len(u) + 2, Len(s)) = v
  BY Joined
<1> HIDE DEF s
<1>2. /\ Len(u) \in Nat /\ Len(v) \in Nat /\ Len(s) \in Nat
      /\ DOMAIN u = 1..Len(u) /\ DOMAIN v = 1..Len(v)
  BY <1>1, LenProperties
<1>3. ASSUME NEW i \in 1..Len(s), s[i] = sep PROVE i = c1
  <2>1. ASSUME i < c1 PROVE FALSE
    <3>1. i \in 1..Len(u)
      BY <1>2, <2>1
    <3>2. u[i] = sep
      BY <1>1, <1>3, <3>1
    <3> QED BY <1>2, <3>1, <3>2 DEF Range
  <2>2. ASSUME i > c1 PROVE FALSE
    <3>1. i - c1 \in 1..Len(v)
      BY <1>1, <1>2, <2>2
    <3>2. v[i - c1] = sep
      <4>1. i = c1 + (i - c1)
        BY <1>2
      <4> QED BY <1>1, <1>3, <3>1, <4>1
    <3> QED BY <1>2, <3>1, <3>2 DEF Range
  <2> QED BY <1>2, <2>1, <2>2
<1>4. C = {0, c1, c2}
  BY <1>1, <1>2, <1>3 DEF Cuts
<1>5. c1 \in Nat /\ c2 \in Nat /\ 0 < c1 /\ c1 < c2
  BY <1>1, <1>2
<1>6. /\ Cardinality(C) = 3
      /\ Cut(C, 0) = 0
      /\ Cut(C, 1) = c1
      /\ Cut(C, 2) = c2
  <2> HIDE DEF C, c1, c2
  <2> QED BY <1>4, <1>5, CutsOfTwo
<1>7. Split(s, sep) = [k \in 1..2 |-> SubSeq(s, Cut(C, k - 1) + 1, Cut(C, k) - 1)]
  BY <1>6 DEF Split
<1> HIDE DEF C
<1>8. ASSUME NEW k \in 1..2
      PROVE  SubSeq(s, Cut(C, k - 1) + 1, Cut(C, k) - 1) = IF k = 1 THEN u ELSE v
  <2>1. CASE k = 1
    <3>1. Cut(C, k - 1) + 1 = 1 /\ Cut(C, k) - 1 = Len(u)
      BY <1>2, <1>6, <2>1
    <3> QED BY <1>1, <2>1, <3>1
  <2>2. CASE k = 2
    <3>1. Cut(C, k - 1) + 1 = Len(u) + 2 /\ Cut(C, k) - 1 = Len(s)
      BY <1>2, <1>6, <2>2
    <3> QED BY <1>1, <2>2, <3>1
  <2> QED BY <2>1, <2>2
<1>9. Split(s, sep) = [k \in 1..2 |-> IF k = 1 THEN u ELSE v]
  BY <1>7, <1>8
<1>10. \A x, y : [k \in 1..2 |-> IF k = 1 THEN x ELSE y] = <<x, y>>
  OBVIOUS
<1>11. Split(s, sep) = <<u, v>>
  BY <1>9, <1>10
<1> QED BY <1>11 DEF s

LEMMA SplitInThree ==
    ASSUME NEW T, NEW u \in Seq(T), NEW v \in Seq(T), NEW w \in Seq(T), NEW sep \in T,
           sep \notin Range(u), sep \notin Range(v), sep \notin Range(w)
    PROVE  Split(u \o <<sep>> \o v \o <<sep>> \o w, sep) = <<u, v, w>>
<1> DEFINE r == u \o <<sep>> \o v
           s == r \o <<sep>> \o w
           C == Cuts(s, sep)
           c1 == Len(u) + 1
           c2 == Len(r) + 1
           c3 == Len(s) + 1
<1>1. /\ r \in Seq(T) /\ Len(r) = Len(u) + 1 + Len(v)
      /\ \A i \in 1..Len(u) : r[i] = u[i]
      /\ r[c1] = sep
      /\ \A i \in 1..Len(v) : r[c1 + i] = v[i]
      /\ SubSeq(r, 1, Len(u)) = u
      /\ SubSeq(r, Len(u) + 2, Len(r)) = v
  BY Joined
<1> HIDE DEF r
<1>2. /\ s \in Seq(T) /\ Len(s) = Len(r) + 1 + Len(w)
      /\ \A i \in 1..Len(r) : s[i] = r[i]
      /\ s[c2] = sep
      /\ \A i \in 1..Len(w) : s[c2 + i] = w[i]
      /\ SubSeq(s, 1, Len(r)) = r
      /\ SubSeq(s, Len(r) + 2, Len(s)) = w
  <2>1. s = r \o <<sep>> \o w
    OBVIOUS
  <2>2. r \in Seq(T)
    BY <1>1
  <2> HIDE DEF s
  <2> QED BY <2>1, <2>2, Joined
<1> HIDE DEF s
<1>3. /\ Len(u) \in Nat /\ Len(v) \in Nat /\ Len(w) \in Nat /\ Len(r) \in Nat /\ Len(s) \in Nat
      /\ DOMAIN u = 1..Len(u) /\ DOMAIN v = 1..Len(v) /\ DOMAIN w = 1..Len(w)
  BY <1>1, <1>2, LenProperties
<1>4. ASSUME NEW i \in 1..Len(s), s[i] = sep PROVE i = c1 \/ i = c2
  <2>1. CASE i < c1
    <3>1. i \in 1..Len(u) /\ i \in 1..Len(r)
      BY <1>1, <1>3, <2>1
    <3>2. u[i] = sep
      BY <1>1, <1>2, <1>4, <3>1
    <3> QED BY <1>3, <3>1, <3>2 DEF Range
  <2>2. CASE c1 < i /\ i < c2
    <3>1. i - c1 \in 1..Len(v) /\ i = c1 + (i - c1) /\ i \in 1..Len(r)
      BY <1>1, <1>3, <2>2
    <3>2. v[i - c1] = sep
      BY <1>1, <1>2, <1>4, <3>1
    <3> QED BY <1>3, <3>1, <3>2 DEF Range
  <2>3. CASE c2 < i
    <3>1. i - c2 \in 1..Len(w) /\ i = c2 + (i - c2)
      BY <1>2, <1>3, <2>3
    <3>2. w[i - c2] = sep
      BY <1>2, <1>4, <3>1
    <3> QED BY <1>3, <3>1, <3>2 DEF Range
  <2> QED BY <1>3, <2>1, <2>2, <2>3
<1>5. s[c1] = sep /\ c1 \in 1..Len(s) /\ c2 \in 1..Len(s)
  <2>1. c1 \in 1..Len(r) /\ c1 \in 1..Len(s) /\ c2 \in 1..Len(s)
    BY <1>1, <1>2, <1>3
  <2> QED BY <1>1, <1>2, <2>1
<1>6. C = {0, c1, c2, c3}
  BY <1>2, <1>4, <1>5 DEF Cuts
<1>7. c1 \in Nat /\ c2 \in Nat /\ c3 \in Nat /\ 0 < c1 /\ c1 < c2 /\ c2 < c3
  BY <1>1, <1>2, <1>3
<1>8. /\ Cardinality(C) = 4
      /\ Cut(C, 0) = 0 /\ Cut(C, 1) = c1 /\ Cut(C, 2) = c2 /\ Cut(C, 3) = c3
  <2> HIDE DEF C, c1, c2, c3
  <2> QED BY <1>6, <1>7, CutsOfThree
<1>9. Split(s, sep) = [k \in 1..3 |-> SubSeq(s, Cut(C, k - 1) + 1, Cut(C, k) - 1)]
  BY <1>8 DEF Split
<1> HIDE DEF C
<1>10. SubSeq(s, 1, Len(u)) = u /\ SubSeq(s, Len(u) + 2, Len(r)) = v
  <2>1. \A i \in 1..Len(u) : i \in 1..Len(r) /\ i \in 1..Len(s)
    BY <1>1, <1>2, <1>3
  <2>2. \A i \in 1..Len(u) : s[i] = u[i] /\ s[i] \in T
    BY <1>1, <1>2, <2>1, ElementOfSeq
  <2>3. SubSeq(s, 1, Len(u)) = SubSeq(u, 1, Len(u))
    BY <1>3, <2>2, SubSeqSame
  <2>4. \A i \in (Len(u) + 2)..Len(r) : s[i] = r[i] /\ s[i] \in T
    BY <1>1, <1>2, <1>3, ElementOfSeq
  <2>5. SubSeq(s, Len(u) + 2, Len(r)) = SubSeq(r, Len(u) + 2, Len(r))
    BY <1>3, <2>4, SubSeqSame
  <2>6. SubSeq(u, 1, Len(u)) = u
    BY SubSeqFull
  <2> QED BY <1>1, <2>3, <2>5, <2>6
<1>11. ASSUME NEW k \in 1..3
       PROVE  SubSeq(s, Cut(C, k - 1) + 1, Cut(C, k) - 1) =
                IF k = 1 THEN u ELSE IF k = 2 THEN v ELSE w
  <2>1. CASE k = 1
    <3>1. Cut(C, k - 1) + 1 = 1 /\ Cut(C, k) - 1 = Len(u)
      BY <1>3, <1>8, <2>1
    <3> QED BY <1>10, <2>1, <3>1
  <2>2. CASE k = 2
    <3>1. Cut(C, k - 1) + 1 = Len(u) + 2 /\ Cut(C, k) - 1 = Len(r)
      BY <1>3, <1>8, <2>2
    <3> QED BY <1>10, <2>2, <3>1
  <2>3. CASE k = 3
    <3>1. Cut(C, k - 1) + 1 = Len(r) + 2 /\ Cut(C, k) - 1 = Len(s)
      BY <1>3, <1>8, <2>3
    <3> QED BY <1>2, <2>3, <3>1
  <2> QED BY <2>1, <2>2, <2>3
<1>12. Split(s, sep) = [k \in 1..3 |-> IF k = 1 THEN u ELSE IF k = 2 THEN v ELSE w]
  BY <1>9, <1>11
<1>13. \A x, y, z : [k \in 1..3 |-> IF k = 1 THEN x ELSE IF k = 2 THEN y ELSE z] = <<x, y, z>>
  OBVIOUS
<1>14. Split(s, sep) = <<u, v, w>>
  BY <1>12, <1>13
<1> QED BY <1>14 DEF r, s

(* A set of numbers with a bound has a greatest one.                       *)
LEMMA Least ==
    ASSUME NEW S \in SUBSET Nat, S # {}
    PROVE  \E k \in S : \A x \in S : k <= x
<1> DEFINE R == {ss \in Nat \X Nat : ss[1] < ss[2]}
<1>1. IsWellFoundedOn(R, Nat)
  BY NatLessThanWellFounded DEF OpToRel
<1>2. PICK k \in S : \A x \in S : ~ (<<x, k>> \in R)
  <2> HIDE DEF R
  <2> QED BY <1>1, WFMin
<1>3. ASSUME NEW x \in S, x < k PROVE FALSE
  <2>1. <<x, k>> \in R
    BY <1>3
  <2> QED BY <1>2, <2>1
<1> QED BY <1>3

LEMMA Greatest ==
    ASSUME NEW D \in SUBSET Nat, 0 \in D, NEW n \in Nat, \A x \in D : x <= n
    PROVE  \E c \in D : \A x \in D : x <= c
<1> DEFINE S == {k \in Nat : \A x \in D : x <= k}
<1>1. PICK k \in S : \A x \in S : k <= x
  <2>1. S \in SUBSET Nat /\ n \in S
    OBVIOUS
  <2> HIDE DEF S
  <2> QED BY <2>1, Least
<1>2. k \in Nat /\ \A x \in D : x <= k
  OBVIOUS
<1>3. ASSUME k \notin D PROVE FALSE
  <2>1. k # 0 /\ k - 1 \in Nat
    BY <1>2, <1>3
  <2>2. ASSUME NEW x \in D PROVE x <= k - 1
    <3>1. x \in Nat /\ x <= k /\ x # k
      BY <1>2, <1>3
    <3> QED BY <1>2, <3>1
  <2>3. k - 1 \in S
    BY <2>1, <2>2
  <2>4. ~ (k <= k - 1)
    BY <1>2
  <2> QED BY <1>1, <2>3, <2>4
<1> QED BY <1>2, <1>3

(* The last part is what follows the last separator, and it is the second  *)
(* one at least if there is a separator.                                   *)
LEMMA LastPart ==
    ASSUME NEW T, NEW s \in Seq(T), NEW sep
    PROVE  \E c \in Cuts(s, sep) :
               /\ c \in Nat /\ c <= Len(s)
               /\ \A x \in Cuts(s, sep) : x <= c \/ x = Len(s) + 1
               /\ Last(Split(s, sep)) = SubSeq(s, c + 1, Len(s))
               /\ c > 0 => Len(Split(s, sep)) >= 2
<1> DEFINE C == Cuts(s, sep)
           e == Len(s) + 1
           D == C \ {e}
<1>1. /\ Len(s) \in Nat /\ C \subseteq 0..e /\ 0 \in C /\ e \in C
      /\ \A x \in C : x \in Nat /\ x <= e /\ (x # e => x < e /\ x <= Len(s))
  BY LenProperties DEF Cuts
<1>2. IsFiniteSet(C)
  <2>1. IsFiniteSet(0..e)
    BY <1>1, FS_Interval
  <2> HIDE DEF C
  <2> QED BY <1>1, <2>1, FS_Subset
<1> HIDE DEF C
<1>3. PICK c \in D : \A x \in D : x <= c
  <2>1. /\ D \in SUBSET Nat /\ 0 \in D
        /\ \A x \in D : x <= Len(s)
    <3>1. \A x \in D : x \in C /\ x # e
      OBVIOUS
    <3>2. \A x \in D : x \in Nat /\ x <= Len(s)
      BY <1>1, <3>1
    <3>3. 0 \in D
      BY <1>1
    <3> HIDE DEF D
    <3> QED BY <3>2, <3>3
  <2> HIDE DEF D
  <2> QED BY <1>1, <2>1, Greatest
<1>4. c \in C /\ c \in Nat /\ c <= Len(s) /\ \A x \in C : x <= c \/ x = e
  BY <1>1, <1>3
<1>5. IsFiniteSet(D) /\ Cardinality(D) = Cardinality(C) - 1
  BY <1>1, <1>2, FS_RemoveElement
<1>6. IsFiniteSet(D \ {c}) /\ Cardinality(D \ {c}) = Cardinality(D) - 1
  <2> HIDE DEF D
  <2> QED BY <1>3, <1>5, FS_RemoveElement
<1>7. Cardinality(C) \in Nat /\ Cardinality(D) \in Nat /\ Cardinality(D \ {c}) \in Nat
  BY <1>2, <1>5, <1>6, FS_CardinalityType
<1>8. Below(C, e) = Cardinality(C) - 1
  <2>1. \A j \in C : j < e <=> j # e
    BY <1>1
  <2>2. {j \in C : j < e} = D
    BY <2>1
  <2> QED BY <1>5, <2>2 DEF Below
<1>9. Below(C, c) = Cardinality(C) - 2
  <2>1. \A j \in C : j < c <=> j \in D /\ j # c
    BY <1>1, <1>3, <1>4
  <2>2. {j \in C : j < c} = D \ {c}
    BY <2>1
  <2>3. Below(C, c) = Cardinality(D \ {c})
    BY <2>2 DEF Below
  <2> HIDE DEF D
  <2> QED BY <1>5, <1>6, <1>7, <2>3
<1>10. C \subseteq Nat
  BY <1>1
<1>11. Cut(C, Cardinality(C) - 1) = e /\ Cut(C, Cardinality(C) - 2) = c
  BY <1>1, <1>2, <1>4, <1>8, <1>9, <1>10, BelowOnce
<1> DEFINE n == Cardinality(C) - 1
<1>12. n \in Nat /\ n >= 1
  BY <1>5, <1>6, <1>7
<1>13. Split(s, sep) = [k \in 1..n |-> SubSeq(s, Cut(C, k - 1) + 1, Cut(C, k) - 1)]
  BY DEF Split, C
<1>14. Cut(C, n) - 1 = Len(s) /\ Cut(C, n - 1) + 1 = c + 1
  <2>1. n - 1 = Cardinality(C) - 2
    BY <1>7
  <2> QED BY <1>1, <1>11, <2>1
<1>15. c > 0 => n >= 2
  <2> SUFFICES ASSUME c > 0 PROVE n >= 2
    OBVIOUS
  <2>1. 0 \in D \ {c}
    BY <1>1, <1>4
  <2>2. Cardinality(D \ {c}) # 0
    BY <1>6, <2>1, FS_EmptySet
  <2> QED BY <1>5, <1>6, <1>7, <2>2
<1> HIDE DEF n
<1>16. Len(Split(s, sep)) = n /\ Split(s, sep)[n] = SubSeq(s, Cut(C, n - 1) + 1, Cut(C, n) - 1)
  <2> DEFINE f == [k \in 1..n |-> SubSeq(s, Cut(C, k - 1) + 1, Cut(C, k) - 1)]
  <2>1. Len(f) = n
    BY <1>12
  <2>2. f[n] = SubSeq(s, Cut(C, n - 1) + 1, Cut(C, n) - 1)
    <3>1. n \in 1..n
      BY <1>12
    <3> QED BY <3>1, Zenon
  <2> QED BY <1>13, <2>1, <2>2
<1>17. Last(Split(s, sep)) = SubSeq(s, c + 1, Len(s))
  BY <1>14, <1>16 DEF Last
<1> QED BY <1>4, <1>15, <1>16, <1>17 DEF C
-------------------------------------------------------------------------------
(* The names of backups                                                    *)

Token == Range(TokenOrder)

LEMMA Tokens ==
    /\ "-" \in Token /\ "." \in Token /\ "pvc" \in Token /\ "-velero-bkp-" \in Token
    /\ \A st \in Range(Stamps) : /\ st \in Token
                                 /\ st \notin {"-", ".", "pvc", "-velero-bkp-"}
<1>1. \A st \in Range(Stamps) : st \notin {"-", ".", "pvc", "-velero-bkp-"}
  BY DEF Range, Stamps
<1> QED BY <1>1, TokensAssumption DEF Token

(* A scheduled backup's name is the schedule's and two tokens.             *)
LEMMA Stamped ==
    ASSUME NEW sch \in Seq(Token), NEW st \in Range(Stamps)
    PROVE  /\ sch \o <<"-", st>> \in Seq(Token)
           /\ Len(sch \o <<"-", st>>) = Len(sch) + 2 /\ Len(sch) \in Nat
           /\ \A i \in 1..Len(sch) : (sch \o <<"-", st>>)[i] = sch[i]
           /\ (sch \o <<"-", st>>)[Len(sch) + 1] = "-"
           /\ (sch \o <<"-", st>>)[Len(sch) + 2] = st
           /\ SubSeq(sch \o <<"-", st>>, 1, Len(sch)) = sch
<1> DEFINE v == <<"-", st>>
           name == sch \o <<"-", st>>
<1>1. v \in Seq(Token) /\ Len(v) = 2 /\ v[1] = "-" /\ v[2] = st
  BY Tokens
<1>2. /\ sch \o v \in Seq(Token) /\ Len(sch \o v) = Len(sch) + Len(v)
      /\ \A i \in 1..(Len(sch) + Len(v)) :
            (sch \o v)[i] = IF i <= Len(sch) THEN sch[i] ELSE v[i - Len(sch)]
  <2> HIDE DEF v
  <2> QED BY <1>1, ConcatProperties
<1>3. name = sch \o v
  OBVIOUS
<1> HIDE DEF v, name
<1>4. Len(sch) \in Nat
  BY LenProperties
<1>5. name \in Seq(Token) /\ Len(name) = Len(sch) + 2
  BY <1>1, <1>2, <1>3
<1>6. /\ \A i \in 1..Len(sch) : name[i] = sch[i]
      /\ name[Len(sch) + 1] = "-" /\ name[Len(sch) + 2] = st
  <2>1. \A i \in 1..Len(sch) : i \in 1..(Len(sch) + Len(v)) /\ i <= Len(sch)
    BY <1>1, <1>4
  <2>2. /\ Len(sch) + 1 \in 1..(Len(sch) + Len(v)) /\ ~ (Len(sch) + 1 <= Len(sch))
        /\ Len(sch) + 2 \in 1..(Len(sch) + Len(v)) /\ ~ (Len(sch) + 2 <= Len(sch))
        /\ (Len(sch) + 1) - Len(sch) = 1 /\ (Len(sch) + 2) - Len(sch) = 2
    BY <1>1, <1>4
  <2> QED BY <1>1, <1>2, <1>3, <2>1, <2>2
<1>7. SubSeq(name, 1, Len(sch)) = sch
  <2>1. \A i \in 1..Len(sch) : name[i] = sch[i] /\ name[i] \in Token
    BY <1>6, ElementOfSeq
  <2>2. SubSeq(name, 1, Len(sch)) = SubSeq(sch, 1, Len(sch))
    BY <1>4, <2>1, SubSeqSame
  <2> QED BY <2>2, SubSeqFull
<1> QED BY <1>4, <1>5, <1>6, <1>7 DEF name

(* GetScheduleName takes the timestamp off a scheduled backup's name, and  *)
(* finds none in another's.                                                *)
LEMMA StampIsTaken ==
    ASSUME NEW sch \in Seq(Token), NEW st \in Range(Stamps), NEW otherwise
    PROVE  WithoutStamp(sch \o <<"-", st>>, otherwise) = sch
<1> DEFINE name == sch \o <<"-", st>>
<1>1. /\ name \in Seq(Token) /\ Len(name) = Len(sch) + 2 /\ Len(sch) \in Nat
      /\ name[Len(sch) + 1] = "-" /\ name[Len(sch) + 2] = st
      /\ SubSeq(name, 1, Len(sch)) = sch
  BY Stamped
<1> HIDE DEF name
<1> DEFINE C == Cuts(name, "-")
<1>2. PICK c \in C : /\ c \in Nat /\ c <= Len(name)
                     /\ \A x \in C : x <= c \/ x = Len(name) + 1
                     /\ Last(Split(name, "-")) = SubSeq(name, c + 1, Len(name))
                     /\ c > 0 => Len(Split(name, "-")) >= 2
  BY <1>1, LastPart
<1>3. c = Len(sch) + 1
  <2>1. Len(sch) + 1 \in C
    BY <1>1 DEF Cuts
  <2>2. c = 0 \/ name[c] = "-"
    BY <1>1, <1>2 DEF Cuts
  <2>3. name[Len(sch) + 2] # "-"
    BY <1>1, Tokens
  <2>4. c >= Len(sch) + 1
    BY <1>1, <1>2, <2>1
  <2> QED BY <1>1, <1>2, <2>2, <2>3, <2>4
<1> DEFINE last == SubSeq(name, Len(sch) + 2, Len(sch) + 2)
<1>4. Last(Split(name, "-")) = last
  <2>1. c + 1 = Len(sch) + 2
    BY <1>1, <1>3
  <2> QED BY <1>1, <1>2, <2>1
<1>5. Len(last) = 1 /\ last[1] = st
  BY <1>1, SubSeqProperties, Tokens
<1>6. Len(Split(name, "-")) >= 2 /\ HasStamp(Last(Split(name, "-")))
  <2>1. c > 0
    BY <1>1, <1>3
  <2> HIDE DEF last
  <2> QED BY <1>2, <1>4, <1>5, <2>1 DEF HasStamp
<1>7. WithoutStamp(name, otherwise) = SubSeq(name, 1, Len(name) - 2)
  BY <1>6 DEF WithoutStamp
<1>8. Len(name) - 2 = Len(sch)
  BY <1>1
<1> QED BY <1>1, <1>7, <1>8 DEF name

LEMMA NoStampToTake ==
    ASSUME NEW name \in Seq(Token), Last(name) \notin Range(Stamps), NEW otherwise
    PROVE  WithoutStamp(name, otherwise) = otherwise
<1>1. Len(name) \in Nat
  BY LenProperties
<1>2. PICK c \in Cuts(name, "-") :
         /\ c \in Nat /\ c <= Len(name)
         /\ Last(Split(name, "-")) = SubSeq(name, c + 1, Len(name))
  BY LastPart
<1> DEFINE last == SubSeq(name, c + 1, Len(name))
<1>3. \A i \in (c + 1)..Len(name) : name[i] \in Token
  BY <1>1, <1>2, ElementOfSeq
<1>4. /\ Len(last) = 1 => c + 1 <= Len(name) /\ Len(name) - (c + 1) + 1 = 1
      /\ \A i \in 1..(Len(name) - (c + 1) + 1) : last[i] = name[(c + 1) + i - 1]
  BY <1>1, <1>2, <1>3, SubSeqProperties
<1> HIDE DEF last
<1>5. ASSUME Len(last) = 1 PROVE last[1] = Last(name)
  <2>2. Len(name) - (c + 1) + 1 = 1
    BY <1>4, <1>5
  <2>3. c + 1 = Len(name) /\ (c + 1) + 1 - 1 = Len(name)
    BY <1>1, <1>2, <2>2
  <2>4. last[1] = name[(c + 1) + 1 - 1]
    BY <1>4, <2>2
  <2> QED BY <2>3, <2>4 DEF Last
<1>6. ~ HasStamp(last)
  BY <1>5 DEF HasStamp
<1>7. Last(Split(name, "-")) = last
  BY <1>2 DEF last
<1> QED BY <1>6, <1>7 DEF WithoutStamp
-------------------------------------------------------------------------------
(* How the backups of a behaviour got their names and their ids.           *)
Named(b) ==
    /\ \E old \in BOOLEAN : b.id = GenerateSnapshotID(b.schedule, b.name, old)
    /\ \/ /\ b.schedule \in setup.schedules
          /\ \E st \in Range(Stamps) : b.name = b.schedule \o <<"-", st>>
       \/ b.schedule = <<>> /\ b.name \in setup.singles

NamesInv ==
    /\ setup \in Setups
    /\ IsFiniteSet(backups)
    /\ \A b \in backups : Named(b)

LEMMA NamesInvInit == Init => NamesInv
BY FS_EmptySet DEF Init, NamesInv

LEMMA BackupKeepsNames ==
    ASSUME NamesInv, setup' = setup, NEW schedule, NEW name, NEW old \in BOOLEAN,
           Backup(schedule, name, old),
           \/ /\ schedule \in setup.schedules
              /\ \E st \in Range(Stamps) : name = schedule \o <<"-", st>>
           \/ schedule = <<>> /\ name \in setup.singles
    PROVE  NamesInv'
<1> DEFINE b == [name |-> name, schedule |-> schedule, id |-> GenerateSnapshotID(schedule, name, old)]
<1>1. backups' = backups \cup {b}
  BY DEF Backup
<1>2. IsFiniteSet(backups')
  <2> HIDE DEF b
  <2> QED BY <1>1, FS_AddElement DEF NamesInv
<1>3. Named(b)
  BY DEF Named
<1>4. \A x : Named(x)' <=> Named(x)
  BY DEF Named, GenerateSnapshotID
<1> HIDE DEF b
<1> QED BY <1>1, <1>2, <1>3, <1>4 DEF NamesInv

LEMMA NamesInvStep == NamesInv /\ [Next]_vars => NamesInv'
<1> SUFFICES ASSUME NamesInv, [Next]_vars PROVE NamesInv'
  OBVIOUS
<1>1. ASSUME NEW s \in setup.schedules, ScheduledBackup(s), setup' = setup PROVE NamesInv'
  <2> DEFINE k == Cardinality(Made(s)) + 1
  <2>1. Cardinality(Made(s)) \in Nat
    BY FS_Subset, FS_CardinalityType DEF NamesInv, Made
  <2>2. k \in DOMAIN Stamps
    <3>1. Cardinality(Made(s)) < Rounds /\ Rounds \in 0..3
      BY <1>1, RoundsAssumption DEF ScheduledBackup, Stamps
    <3>2. DOMAIN Stamps = 1..3
      BY DEF Stamps
    <3> QED BY <2>1, <3>1, <3>2
  <2>3. Stamps[k] \in Range(Stamps)
    BY <2>2 DEF Range
  <2>4. PICK old \in BOOLEAN : Backup(s, s \o <<"-", Stamps[k]>>, old)
    BY <1>1 DEF ScheduledBackup
  <2> HIDE DEF k
  <2> QED BY <1>1, <2>3, <2>4, BackupKeepsNames
<1>2. ASSUME NEW name \in setup.singles, SingleBackup(name), setup' = setup PROVE NamesInv'
  BY <1>2, BackupKeepsNames DEF SingleBackup
<1>3. ASSUME backups' = backups, setup' = setup PROVE NamesInv'
  BY <1>3 DEF NamesInv, Named, GenerateSnapshotID
<1> QED BY <1>1, <1>2, <1>3 DEF Next, Restore, vars

LEMMA SpecNames == Spec => []NamesInv
BY NamesInvInit, NamesInvStep, PTL DEF Spec

(* What a backup's name says of it.                                        *)
LEMMA NameOf ==
    ASSUME NamesInv, NEW b \in backups
    PROVE  /\ setup.plugin \in {"zfs", "cstor"}
           /\ b.schedule \in Seq(Token) /\ b.name \in Seq(Token)
           /\ b.schedule # <<>> => /\ b.schedule \in setup.schedules
                                  /\ \E st \in Range(Stamps) : b.name = b.schedule \o <<"-", st>>
           /\ b.schedule = <<>> => b.name \in setup.singles /\ b.name # <<>>
           /\ GetScheduleName(b.name) = ScheduleOf(b)
<1>1. /\ setup \in Setups /\ setup.plugin \in {"zfs", "cstor"}
      /\ \A name \in setup.schedules \cup setup.singles : name \in Seq(Token) /\ name # <<>>
      /\ \A name \in setup.singles : Last(name) \notin Range(Stamps)
  BY SetupsAssumption, NamesAssumption DEF NamesInv, Token
<1>2. <<>> \in Seq(Token)
  BY EmptySeq
<1>3. CASE /\ b.schedule \in setup.schedules
           /\ \E st \in Range(Stamps) : b.name = b.schedule \o <<"-", st>>
  <2>1. PICK st \in Range(Stamps) : b.name = b.schedule \o <<"-", st>>
    BY <1>3
  <2>2. b.schedule \in Seq(Token) /\ b.schedule # <<>>
    BY <1>1, <1>3
  <2>3. b.name \in Seq(Token)
    BY <2>1, <2>2, Stamped
  <2>4. \A otherwise : WithoutStamp(b.name, otherwise) = b.schedule
    BY <2>1, <2>2, StampIsTaken
  <2> QED BY <1>1, <1>3, <2>2, <2>3, <2>4 DEF GetScheduleName, ScheduleOf
<1>4. CASE b.schedule = <<>> /\ b.name \in setup.singles
  <2>1. b.name \in Seq(Token) /\ b.name # <<>> /\ Last(b.name) \notin Range(Stamps)
    BY <1>1, <1>4
  <2>2. \A otherwise : WithoutStamp(b.name, otherwise) = otherwise
    BY <2>1, NoStampToTake
  <2> QED BY <1>1, <1>2, <1>4, <2>1, <2>2 DEF GetScheduleName, ScheduleOf
<1> QED BY <1>3, <1>4 DEF NamesInv, Named

LEMMA TokensOfStamped ==
    ASSUME NEW sch \in Seq(Token), NEW st \in Range(Stamps),
           NEW name, name = sch \o <<"-", st>>
    PROVE  Range(name) = Range(sch) \cup {"-", st}
<1>1. /\ name \in Seq(Token) /\ Len(name) = Len(sch) + 2 /\ Len(sch) \in Nat
      /\ \A i \in 1..Len(sch) : name[i] = sch[i]
      /\ name[Len(sch) + 1] = "-"
      /\ name[Len(sch) + 2] = st
  BY Stamped
<1>2. DOMAIN name = 1..(Len(sch) + 2) /\ DOMAIN sch = 1..Len(sch)
  BY <1>1, LenProperties
<1>3. \A i \in 1..(Len(sch) + 2) : i \in 1..Len(sch) \/ i = Len(sch) + 1 \/ i = Len(sch) + 2
  BY <1>1
<1>4. ASSUME NEW tok \in Range(name) PROVE tok \in Range(sch) \cup {"-", st}
  <2>1. PICK i \in 1..(Len(sch) + 2) : tok = name[i]
    BY <1>2 DEF Range
  <2>2. CASE i \in 1..Len(sch)
    BY <1>1, <1>2, <2>1, <2>2 DEF Range
  <2>3. CASE i = Len(sch) + 1 \/ i = Len(sch) + 2
    BY <1>1, <2>1, <2>3
  <2> QED BY <1>3, <2>2, <2>3
<1>5. ASSUME NEW tok \in Range(sch) PROVE tok \in Range(name)
  <2>1. PICK i \in 1..Len(sch) : tok = sch[i]
    BY <1>2 DEF Range
  <2>2. i \in DOMAIN name /\ tok = name[i]
    BY <1>1, <1>2, <2>1
  <2> QED BY <2>2 DEF Range
<1>6. "-" \in Range(name) /\ st \in Range(name)
  <2>1. Len(sch) + 1 \in DOMAIN name /\ Len(sch) + 2 \in DOMAIN name
    BY <1>1, <1>2
  <2> QED BY <1>1, <2>1 DEF Range
<1> QED BY <1>4, <1>5, <1>6

LEMMA Separators ==
    ASSUME NamesInv, NEW b \in backups
    PROVE  /\ setup.plugin = "zfs" /\ Undotted(b) => /\ "." \notin Range(b.name)
                                                     /\ "." \notin Range(b.schedule)
           /\ setup.plugin = "cstor" => "-velero-bkp-" \notin Range(b.name)
           /\ setup.plugin = "zfs" => "pvc" \notin Range(b.schedule)
<1>1. /\ setup.plugin = "cstor" =>
            \A name \in setup.schedules \cup setup.singles : "-velero-bkp-" \notin Range(name)
      /\ setup.plugin = "zfs" => \A name \in setup.schedules : "pvc" \notin Range(name)
  <2>1. "pvc" \in Range(volume)
    BY DEF volume, Range
  <2> QED BY <2>1, NamesAssumption DEF NamesInv
<1>2. CASE b.schedule # <<>>
  <2>1. PICK st \in Range(Stamps) : b.name = b.schedule \o <<"-", st>>
    BY <1>2, NameOf
  <2>2. b.schedule \in Seq(Token) /\ b.schedule \in setup.schedules
    BY <1>2, NameOf
  <2>3. Range(b.name) = Range(b.schedule) \cup {"-", st}
    BY <2>1, <2>2, TokensOfStamped
  <2>4. "-velero-bkp-" \notin {"-", st}
    BY Tokens
  <2> QED BY <1>1, <2>2, <2>3, <2>4 DEF Undotted
<1>3. CASE b.schedule = <<>>
  <2>1. b.name \in setup.singles
    BY <1>3, NameOf
  <2>2. Range(<<>>) = {}
    BY DEF Range
  <2> QED BY <1>1, <1>3, <2>1, <2>2 DEF Undotted
<1> QED BY <1>2, <1>3

LEMMA Volume ==
    /\ volume \in Seq(Token) /\ Len(volume) = 1 /\ volume[1] = "pvc" /\ Range(volume) = {"pvc"}
    /\ "." \notin Range(volume) /\ "-velero-bkp-" \notin Range(volume)
<1>1. Range(volume) = {"pvc"}
  BY DEF Range, volume
<1> QED BY <1>1, Tokens DEF volume

(* GetInfoFromSnapshotID finds in an id what GenerateSnapshotID put there. *)
LEMMA IdIsRead ==
    ASSUME NamesInv, NEW b \in backups, Undotted(b)
    PROVE  GetInfoFromSnapshotID(b.id) = <<volume, ScheduleOf(b), b.name>>
<1>1. /\ setup.plugin \in {"zfs", "cstor"}
      /\ b.schedule \in Seq(Token) /\ b.name \in Seq(Token)
      /\ GetScheduleName(b.name) = ScheduleOf(b)
  BY NameOf
<1>2. PICK old \in BOOLEAN : b.id = GenerateSnapshotID(b.schedule, b.name, old)
  BY DEF NamesInv, Named
<1>3. CASE setup.plugin = "cstor"
  <2>1. b.id = volume \o <<"-velero-bkp-">> \o b.name
    BY <1>2, <1>3 DEF GenerateSnapshotID
  <2>2. Split(b.id, "-velero-bkp-") = <<volume, b.name>>
    BY <1>1, <1>3, <2>1, Separators, Volume, Tokens, SplitInTwo
  <2> QED BY <1>1, <1>3, <2>2 DEF GetInfoFromSnapshotID
<1>4. CASE setup.plugin = "zfs" /\ old
  <2>1. b.id = volume \o <<".">> \o b.name
    BY <1>2, <1>4 DEF GenerateSnapshotID
  <2>2. Split(b.id, ".") = <<volume, b.name>>
    BY <1>1, <1>4, <2>1, Separators, Volume, Tokens, SplitInTwo
  <2>3. GetInfoFromSnapshotID(b.id) = <<volume, GetScheduleName(b.name), b.name>>
    <3> DEFINE parts == <<volume, b.name>>
    <3>1. Len(parts) = 2 /\ parts[1] = volume /\ parts[2] = b.name
      OBVIOUS
    <3> HIDE DEF parts
    <3>2. Split(b.id, IF setup.plugin = "zfs" THEN "." ELSE "-velero-bkp-") = parts
      BY <1>4, <2>2 DEF parts
    <3> QED BY <3>1, <3>2 DEF GetInfoFromSnapshotID
  <2> QED BY <1>1, <2>3
<1>5. CASE setup.plugin = "zfs" /\ ~old
  <2>1. b.id = volume \o <<".">> \o b.schedule \o <<".">> \o b.name
    BY <1>2, <1>5 DEF GenerateSnapshotID
  <2>2. Split(b.id, ".") = <<volume, b.schedule, b.name>>
    BY <1>1, <1>5, <2>1, Separators, Volume, Tokens, SplitInThree
  <2> QED BY <1>5, <2>2 DEF GetInfoFromSnapshotID, ScheduleOf
<1> QED BY <1>1, <1>3, <1>4, <1>5

(* IdsAreRead: every id of a backup, old or new, of either plugin, is read *)
(* back as the volume, the schedule and the name it was made from, however *)
(* many backups there are and whatever their names, as long as the ZFS     *)
(* plugin's have no dot in them.                                           *)
THEOREM IdsRead == Spec => []IdsAreRead
<1>1. NamesInv => IdsAreRead
  BY IdIsRead DEF IdsAreRead
<1> QED BY <1>1, SpecNames, PTL
-------------------------------------------------------------------------------
(* The list of a restore                                                   *)

LEMMA PrefixTokens ==
    ASSUME NEW T, NEW s \in Seq(T), NEW t \in Seq(T)
    PROVE  IsPrefix(s, t) <=> Len(s) <= Len(t) /\ \A i \in 1..Len(s) : s[i] = t[i]
<1>1. /\ Len(s) \in Nat /\ Len(t) \in Nat
      /\ \A i \in 1..Len(s) : s[i] \in T
      /\ \A i \in 1..Len(t) : t[i] \in T
  BY LenProperties, ElementOfSeq
<1>2. SubSeq(s, 1, Len(s)) = s
  BY SubSeqFull
<1>3. ASSUME Len(s) <= Len(t), \A i \in 1..Len(s) : s[i] = t[i]
      PROVE  IsPrefix(s, t)
  <2>1. SubSeq(s, 1, Len(s)) = SubSeq(t, 1, Len(s))
    BY <1>1, <1>3, SubSeqSame
  <2> QED BY <1>3, <2>1 DEF IsPrefix
<1>4. ASSUME IsPrefix(s, t), NEW i \in 1..Len(s)
      PROVE  Len(s) <= Len(t) /\ s[i] = t[i]
  <2>1. Len(s) <= Len(t) /\ SubSeq(t, 1, Len(s)) = s
    BY <1>2, <1>4 DEF IsPrefix
  <2>2. \A j \in 1..Len(s) : t[j] \in T
    BY <1>1, <2>1
  <2>3. \A j \in 1..(Len(s) - 1 + 1) : SubSeq(t, 1, Len(s))[j] = t[1 + j - 1]
    BY <1>1, <2>2, SubSeqProperties
  <2>4. i \in 1..(Len(s) - 1 + 1) /\ 1 + i - 1 = i
    BY <1>1
  <2> QED BY <2>1, <2>3, <2>4
<1>5. IsPrefix(s, t) => Len(s) <= Len(t)
  BY DEF IsPrefix
<1> QED BY <1>3, <1>4, <1>5

(* No name comes before itself, and a name with more at its end does not   *)
(* come before it either.                                                  *)
LEMMA NotLess ==
    ASSUME NEW s \in Seq(Token), NEW t \in Seq(Token), Len(s) <= Len(t),
           \A i \in 1..Len(s) : s[i] = t[i]
    PROVE  ~ Less(t, s)
<1>1. Len(s) \in Nat /\ Len(t) \in Nat
  BY LenProperties
<1>2. ~ IsStrictPrefix(t, s)
  <2>1. SUFFICES ASSUME IsPrefix(t, s), t # s PROVE FALSE
    BY DEF IsStrictPrefix
  <2>2. Len(t) <= Len(s)
    BY <2>1, PrefixTokens
  <2>3. Len(s) = Len(t)
    BY <1>1, <2>2
  <2> QED BY <2>1, <2>3, SeqEqual
<1>3. ASSUME NEW i \in 1..Len(t), i <= Len(s), Rank(t[i]) < Rank(s[i]) PROVE FALSE
  <2>1. i \in 1..Len(s)
    BY <1>1, <1>3
  <2>2. s[i] \in Token /\ s[i] = t[i]
    BY <2>1, ElementOfSeq
  <2>3. Rank(s[i]) \in DOMAIN TokenOrder
    BY <2>2 DEF Rank, Token, Range
  <2>4. Rank(s[i]) \in Nat
    <3>1. DOMAIN TokenOrder = 1..Len(TokenOrder) /\ Len(TokenOrder) \in Nat
      BY TokensAssumption, LenProperties
    <3> QED BY <2>3, <3>1
  <2>5. Rank(t[i]) = Rank(s[i])
    BY <2>2
  <2> QED BY <1>3, <2>4, <2>5
<1> QED BY <1>2, <1>3 DEF Less

(* The files of a volume's backups: what the ZFS plugin puts before a      *)
(* backup's name is what it looks for, for this schedule and no other.     *)
LEMMA FileTokens ==
    ASSUME NEW sch \in Seq(Token)
    PROVE  LET f == sch \o <<"-">> \o volume
           IN  /\ f \in Seq(Token) /\ Len(f) = Len(sch) + 2
               /\ \A i \in 1..Len(sch) : f[i] = sch[i]
               /\ f[Len(sch) + 1] = "-"
               /\ f[Len(sch) + 2] = "pvc"
<1> DEFINE f == sch \o <<"-">> \o volume
<1>1. "-" \in Token /\ volume \in Seq(Token)
  BY Tokens, Volume
<1>2. /\ f \in Seq(Token) /\ Len(f) = Len(sch) + 1 + Len(volume)
      /\ \A i \in 1..Len(sch) : f[i] = sch[i]
      /\ f[Len(sch) + 1] = "-"
      /\ \A i \in 1..Len(volume) : f[Len(sch) + 1 + i] = volume[i]
  <2>1. f = sch \o <<"-">> \o volume
    OBVIOUS
  <2> HIDE DEF f
  <2> QED BY <1>1, <2>1, Joined
<1> HIDE DEF f
<1>3. Len(sch) \in Nat
  BY LenProperties
<1>4. Len(f) = Len(sch) + 2 /\ f[Len(sch) + 2] = "pvc"
  <2>1. 1 \in 1..Len(volume) /\ Len(sch) + 1 + 1 = Len(sch) + 2
    BY <1>3, Volume
  <2> QED BY <1>2, <1>3, <2>1, Volume
<1> QED BY <1>2, <1>4 DEF f

LEMMA FileOfOneSchedule ==
    ASSUME NEW s \in Seq(Token), "pvc" \notin Range(s),
           NEW u \in Seq(Token), "pvc" \notin Range(u), NEW name \in Seq(Token)
    PROVE  IsPrefix(s \o <<"-">> \o volume, u \o <<"-">> \o volume \o <<"-">> \o name) <=> s = u
<1> DEFINE f == s \o <<"-">> \o volume
           g == u \o <<"-">> \o volume
           r == g \o <<"-">> \o name
<1>1. /\ f \in Seq(Token) /\ Len(f) = Len(s) + 2
      /\ \A i \in 1..Len(s) : f[i] = s[i]
      /\ f[Len(s) + 1] = "-"
      /\ f[Len(s) + 2] = "pvc"
  BY FileTokens
<1>2. /\ g \in Seq(Token) /\ Len(g) = Len(u) + 2
      /\ \A i \in 1..Len(u) : g[i] = u[i]
      /\ g[Len(u) + 1] = "-"
      /\ g[Len(u) + 2] = "pvc"
  BY FileTokens
<1>3. s = u => f = g
  OBVIOUS
<1> HIDE DEF f, g
<1>4. /\ r \in Seq(Token) /\ Len(r) = Len(g) + 1 + Len(name)
      /\ \A i \in 1..Len(g) : r[i] = g[i]
  <2>1. r = g \o <<"-">> \o name
    OBVIOUS
  <2>2. g \in Seq(Token) /\ "-" \in Token
    BY <1>2, Tokens
  <2> HIDE DEF r
  <2> QED BY <2>1, <2>2, Joined
<1> HIDE DEF r
<1>5. /\ Len(s) \in Nat /\ Len(u) \in Nat /\ Len(name) \in Nat
      /\ \A i \in 1..Len(s) : s[i] # "pvc"
      /\ \A i \in 1..Len(u) : u[i] # "pvc"
  BY LenProperties DEF Range
<1>6. IsPrefix(f, r) <=> Len(f) <= Len(r) /\ \A i \in 1..Len(f) : f[i] = r[i]
  <2>1. f \in Seq(Token) /\ r \in Seq(Token)
    BY <1>1, <1>4
  <2> QED BY <2>1, PrefixTokens
<1>7. ASSUME s = u PROVE IsPrefix(f, r)
  BY <1>2, <1>3, <1>5, <1>6, <1>7, <1>4
<1>8. ASSUME IsPrefix(f, r) PROVE s = u
  <2>1. \A i \in 1..Len(f) : f[i] = r[i]
    BY <1>6, <1>8
  <2>2. ~ (Len(s) < Len(u))
    <3>1. SUFFICES ASSUME Len(s) < Len(u) PROVE FALSE
      OBVIOUS
    <3>2. Len(s) + 2 \in 1..Len(f) /\ Len(s) + 2 \in 1..Len(g)
      BY <1>1, <1>2, <1>5, <3>1
    <3>3. g[Len(s) + 2] = "pvc"
      BY <1>1, <1>4, <2>1, <3>2
    <3>4. Len(s) + 2 \in 1..Len(u) \/ Len(s) + 2 = Len(u) + 1
      BY <1>5, <3>1
    <3> QED BY <1>2, <1>5, <3>3, <3>4
  <2>3. ~ (Len(u) < Len(s))
    <3>1. SUFFICES ASSUME Len(u) < Len(s) PROVE FALSE
      OBVIOUS
    <3>2. Len(u) + 2 \in 1..Len(f) /\ Len(u) + 2 \in 1..Len(g)
      BY <1>1, <1>2, <1>5, <3>1
    <3>3. f[Len(u) + 2] = "pvc"
      BY <1>2, <1>4, <2>1, <3>2
    <3>4. Len(u) + 2 \in 1..Len(s) \/ Len(u) + 2 = Len(s) + 1
      BY <1>5, <3>1
    <3> QED BY <1>1, <1>5, <3>3, <3>4
  <2>4. Len(s) = Len(u)
    BY <1>5, <2>2, <2>3
  <2>5. ASSUME NEW i \in 1..Len(s) PROVE s[i] = u[i]
    <3>1. i \in 1..Len(f) /\ i \in 1..Len(g) /\ i \in 1..Len(u)
      BY <1>1, <1>2, <1>5, <2>4
    <3> QED BY <1>1, <1>2, <1>4, <2>1, <3>1
  <2> QED BY <2>4, <2>5, SeqEqual
<1> QED BY <1>7, <1>8 DEF f, g, r

LEMMA PlainFile ==
    ASSUME NEW name \in Seq(Token), NEW r, r = <<>> \o volume \o <<"-">> \o name
    PROVE  /\ r \in Seq(Token) /\ r[1] = "pvc"
           /\ IsPrefix(volume, r)
<1>1. volume \in Seq(Token) /\ "-" \in Token
  BY Volume, Tokens
<1>2. <<>> \o volume = volume
  BY <1>1, ConcatEmptySeq
<1>3. r = volume \o <<"-">> \o name
  BY <1>2
<1>4. /\ r \in Seq(Token) /\ Len(r) = Len(volume) + 1 + Len(name)
      /\ \A i \in 1..Len(volume) : r[i] = volume[i]
  BY <1>1, <1>3, Joined
<1>5. Len(name) \in Nat
  BY LenProperties
<1>6. Len(volume) <= Len(r) /\ 1 \in 1..Len(volume)
  BY <1>4, <1>5, Volume
<1>7. IsPrefix(volume, r) <=> Len(volume) <= Len(r) /\ \A i \in 1..Len(volume) : volume[i] = r[i]
  <2>1. \A T : \A s, t \in Seq(T) :
           IsPrefix(s, t) <=> Len(s) <= Len(t) /\ \A i \in 1..Len(s) : s[i] = t[i]
    BY PrefixTokens
  <2> QED BY <1>1, <1>4, <2>1, Zenon
<1> QED BY <1>4, <1>6, <1>7, Volume

(* A scheduled backup's name begins with its schedule.                     *)
LEMMA ScheduleIsPrefix ==
    ASSUME NEW sch \in Seq(Token), NEW st \in Range(Stamps)
    PROVE  /\ IsPrefix(sch, sch \o <<"-", st>>)
           /\ Len(sch) <= Len(sch \o <<"-", st>>)
           /\ \A i \in 1..Len(sch) : sch[i] = (sch \o <<"-", st>>)[i]
<1> DEFINE name == sch \o <<"-", st>>
<1>1. /\ name \in Seq(Token) /\ Len(name) = Len(sch) + 2 /\ Len(sch) \in Nat
      /\ \A i \in 1..Len(sch) : name[i] = sch[i]
  BY Stamped
<1> HIDE DEF name
<1>2. IsPrefix(sch, name) <=> Len(sch) <= Len(name) /\ \A i \in 1..Len(sch) : sch[i] = name[i]
  <2>1. name \in Seq(Token)
    BY <1>1
  <2> QED BY <2>1, PrefixTokens
<1>3. Len(sch) <= Len(name)
  BY <1>1
<1> QED BY <1>1, <1>2, <1>3 DEF name

(* What the ZFS plugin lists for a schedule are its backups.               *)
LEMMA ZfsLists ==
    ASSUME NamesInv, setup.plugin = "zfs", NEW b \in backups, b.schedule # <<>>, NEW x \in backups
    PROVE  IsPrefix(b.schedule, x.name) /\ IsPrefix(FileName(b.schedule), RemoteFile(x))
               <=> x.schedule = b.schedule
<1> DEFINE S == b.schedule
<1>1. /\ S \in Seq(Token) /\ "pvc" \notin Range(S) /\ S # <<>>
      /\ x.schedule \in Seq(Token) /\ "pvc" \notin Range(x.schedule) /\ x.name \in Seq(Token)
  BY NameOf, Separators
<1>2. FileName(S) = S \o <<"-">> \o volume
  BY DEF FileName
<1> HIDE DEF S
<1>3. CASE x.schedule # <<>>
  <2>1. RemoteFile(x) = x.schedule \o <<"-">> \o volume \o <<"-">> \o x.name
    BY <1>3 DEF RemoteFile
  <2>2. IsPrefix(FileName(S), RemoteFile(x)) <=> S = x.schedule
    BY <1>1, <1>2, <2>1, FileOfOneSchedule
  <2>3. IsPrefix(x.schedule, x.name)
    <3>1. PICK st \in Range(Stamps) : x.name = x.schedule \o <<"-", st>>
      BY <1>3, NameOf
    <3> QED BY <1>1, <3>1, ScheduleIsPrefix
  <2> QED BY <2>2, <2>3 DEF S
<1>4. CASE x.schedule = <<>>
  <2> DEFINE r == RemoteFile(x)
             f == FileName(S)
  <2>1. r = <<>> \o volume \o <<"-">> \o x.name
    BY <1>4 DEF RemoteFile
  <2> HIDE DEF r, f
  <2>2. r \in Seq(Token) /\ r[1] = "pvc"
    BY <1>1, <2>1, PlainFile
  <2>3. /\ f \in Seq(Token) /\ Len(f) = Len(S) + 2
        /\ \A i \in 1..Len(S) : f[i] = S[i]
    <3>1. S \in Seq(Token) /\ f = S \o <<"-">> \o volume
      BY <1>1, <1>2 DEF f
    <3> QED BY <3>1, FileTokens
  <2>4. Len(S) \in Nat \ {0} /\ DOMAIN S = 1..Len(S)
    BY <1>1, EmptySeq, LenProperties
  <2>5. ASSUME IsPrefix(f, r) PROVE FALSE
    <3>1. \A i \in 1..Len(f) : f[i] = r[i]
      <4>1. f \in Seq(Token) /\ r \in Seq(Token)
        BY <2>2, <2>3
      <4> QED BY <2>5, <4>1, PrefixTokens
    <3>2. 1 \in 1..Len(f) /\ 1 \in 1..Len(S)
      BY <2>3, <2>4
    <3>3. S[1] = "pvc"
      BY <2>2, <2>3, <3>1, <3>2
    <3> QED BY <1>1, <2>4, <3>2, <3>3 DEF Range
  <2> QED BY <1>1, <1>4, <2>5 DEF r, f, S
<1> QED BY <1>3, <1>4

(* What the cStor plugin lists for a schedule are its backups too, when no *)
(* name of another begins with its name.                                   *)
LEMMA CstorLists ==
    ASSUME NamesInv, setup.plugin = "cstor", ToldApart, NEW b \in backups, NEW x \in backups
    PROVE  IsPrefix(ScheduleOf(b), x.name) /\ IsPrefix(FileName(ScheduleOf(b)), RemoteFile(x))
               <=> ScheduleOf(x) = ScheduleOf(b)
<1>1. ASSUME NEW y \in backups
      PROVE  /\ ScheduleOf(y) \in setup.schedules \cup setup.singles
             /\ ScheduleOf(y) \in Seq(Token)
             /\ y.name \in Seq(Token)
             /\ IsPrefix(ScheduleOf(y), y.name)
             /\ Len(ScheduleOf(y)) <= Len(y.name)
             /\ \A i \in 1..Len(ScheduleOf(y)) : ScheduleOf(y)[i] = y.name[i]
  <2>1. y.schedule \in Seq(Token) /\ y.name \in Seq(Token)
    BY NameOf
  <2>2. CASE y.schedule # <<>>
    <3>1. PICK st \in Range(Stamps) : y.name = y.schedule \o <<"-", st>>
      BY <2>2, NameOf
    <3>2. ScheduleOf(y) = y.schedule /\ y.schedule \in setup.schedules
      BY <2>2, NameOf DEF ScheduleOf
    <3>3. /\ IsPrefix(y.schedule, y.name)
          /\ Len(y.schedule) <= Len(y.name)
          /\ \A i \in 1..Len(y.schedule) : y.schedule[i] = y.name[i]
      BY <2>1, <3>1, ScheduleIsPrefix
    <3> QED BY <2>1, <3>2, <3>3
  <2>3. CASE y.schedule = <<>>
    <3>1. ScheduleOf(y) = y.name /\ y.name \in setup.singles
      BY <2>3, NameOf DEF ScheduleOf
    <3>2. Len(y.name) \in Nat
      BY <2>1, LenProperties
    <3> QED BY <2>1, <3>1, <3>2, PrefixTokens
  <2> QED BY <2>2, <2>3
<1>2. IsPrefix(FileName(ScheduleOf(b)), RemoteFile(x))
  <2>1. FileName(ScheduleOf(b)) = volume /\ RemoteFile(x) = <<>> \o volume \o <<"-">> \o x.name
    BY DEF FileName, RemoteFile
  <2> QED BY <1>1, <2>1, PlainFile
<1>3. ASSUME IsPrefix(ScheduleOf(b), x.name) PROVE ScheduleOf(x) = ScheduleOf(b)
  <2> DEFINE S == ScheduleOf(b)
             u == ScheduleOf(x)
  <2>1. S \in Seq(Token) /\ u \in Seq(Token) /\ x.name \in Seq(Token)
    BY <1>1
  <2>2. /\ Len(u) <= Len(x.name) /\ \A i \in 1..Len(u) : u[i] = x.name[i]
        /\ {S, u} \subseteq setup.schedules \cup setup.singles
    BY <1>1
  <2>3. IsPrefix(S, x.name)
    BY <1>3
  <2> HIDE DEF S, u
  <2>4. Len(S) <= Len(x.name) /\ \A i \in 1..Len(S) : S[i] = x.name[i]
    BY <2>1, <2>3, PrefixTokens
  <2>5. Len(S) \in Nat /\ Len(u) \in Nat
    BY <2>1, LenProperties
  <2>6. CASE Len(S) <= Len(u)
    <3>1. \A i \in 1..Len(S) : S[i] = u[i]
      BY <2>2, <2>4, <2>5, <2>6
    <3>2. IsPrefix(S, u)
      BY <2>1, <2>6, <3>1, PrefixTokens
    <3> QED BY <2>2, <3>2 DEF ToldApart, S, u
  <2>7. CASE Len(u) <= Len(S)
    <3>1. \A i \in 1..Len(u) : u[i] = S[i]
      BY <2>2, <2>4, <2>5, <2>7
    <3>2. IsPrefix(u, S)
      BY <2>1, <2>7, <3>1, PrefixTokens
    <3> QED BY <2>2, <3>2 DEF ToldApart, S, u
  <2> QED BY <2>5, <2>6, <2>7
<1> QED BY <1>1, <1>2, <1>3

(* A restore is given the backups of its schedule up to its own.           *)
LEMMA RestoreList ==
    ASSUME NamesInv, ToldApart, NEW b \in backups, Undotted(b)
    PROVE  ToRestore(<<volume, ScheduleOf(b), b.name>>) =
               {x.name : x \in {y \in backups :
                                    ScheduleOf(y) = ScheduleOf(b) /\ (y = b \/
                                        (b.schedule # <<>> /\ Less(y.name, b.name)))}}
<1> DEFINE info == <<volume, ScheduleOf(b), b.name>>
           Own == {x.name : x \in {y \in backups :
                                    ScheduleOf(y) = ScheduleOf(b) /\ (y = b \/
                                        (b.schedule # <<>> /\ Less(y.name, b.name)))}}
<1>1. info[2] = ScheduleOf(b) /\ info[3] = b.name
  OBVIOUS
<1>2. setup.plugin \in {"zfs", "cstor"}
  BY NameOf
<1> HIDE DEF info
<1>3. CASE setup.plugin = "zfs" /\ b.schedule = <<>>
  <2>1. ToRestore(info) = {b.name}
    BY <1>1, <1>3 DEF ToRestore, ScheduleOf
  <2>2. Own = {b.name}
    BY <1>3
  <2> QED BY <2>1, <2>2 DEF info
<1>4. CASE ~ (setup.plugin = "zfs" /\ b.schedule = <<>>)
  <2> DEFINE Listed == {x \in backups : IsPrefix(ScheduleOf(b), x.name)
                                          /\ IsPrefix(FileName(ScheduleOf(b)), RemoteFile(x))}
  <2>1. ToRestore(info) = {n \in {x.name : x \in Listed} : n = b.name \/ Less(n, b.name)}
    BY <1>1, <1>4 DEF ToRestore, ScheduleOf, GetSnapListFromCloud
  <2>2. ASSUME NEW x \in backups PROVE x \in Listed <=> ScheduleOf(x) = ScheduleOf(b)
    <3>1. CASE setup.plugin = "zfs"
      BY <1>4, <3>1, ZfsLists DEF ScheduleOf
    <3>2. CASE setup.plugin = "cstor"
      BY <3>2, CstorLists
    <3> QED BY <1>2, <3>1, <3>2
  <2>3. ASSUME NEW x \in backups, ScheduleOf(x) = ScheduleOf(b), Less(x.name, b.name)
        PROVE  b.schedule # <<>>
    <3>1. SUFFICES ASSUME b.schedule = <<>> PROVE FALSE
      OBVIOUS
    <3>2. ScheduleOf(b) = b.name /\ b.name \in Seq(Token)
      BY <1>2, <1>4, <3>1, NameOf DEF ScheduleOf
    <3>3. x.name \in Seq(Token)
      BY NameOf
    <3>4. Len(b.name) <= Len(x.name) /\ \A i \in 1..Len(b.name) : b.name[i] = x.name[i]
      <4>1. CASE x.schedule # <<>>
        <5>1. PICK st \in Range(Stamps) : x.name = x.schedule \o <<"-", st>>
          BY <4>1, NameOf
        <5>2. x.schedule = b.name
          BY <2>3, <3>2, <4>1 DEF ScheduleOf
        <5> QED BY <3>2, <5>1, <5>2, ScheduleIsPrefix
      <4>2. CASE x.schedule = <<>>
        <5>1. x.name = b.name
          BY <1>2, <1>4, <2>3, <3>1, <3>2, <4>2 DEF ScheduleOf
        <5>2. Len(b.name) \in Nat
          BY <3>2, LenProperties
        <5> QED BY <5>1, <5>2
      <4> QED BY <4>1, <4>2
    <3> QED BY <2>3, <3>2, <3>3, <3>4, NotLess
  <2> HIDE DEF Listed
  <2>4. ASSUME NEW n \in ToRestore(info) PROVE n \in Own
    <3>1. PICK x \in Listed : n = x.name /\ (n = b.name \/ Less(n, b.name))
      BY <2>1
    <3>2. x \in backups /\ ScheduleOf(x) = ScheduleOf(b)
      BY <2>2, <3>1 DEF Listed
    <3> QED BY <2>3, <3>1, <3>2
  <2>5. ASSUME NEW n \in Own PROVE n \in ToRestore(info)
    BY <2>1, <2>2
  <2> QED BY <2>4, <2>5 DEF info
<1> QED BY <1>3, <1>4

(* RestoresOwnSchedule: whatever schedules and backups a volume has, a     *)
(* restore puts together the snapshots of the schedule of the backup it is *)
(* asked for, up to that one, and none of a backup whose name begins       *)
(* alike; in the cStor plugin, as long as no name begins with another.     *)
THEOREM OwnScheduleRestored == Spec => []RestoresOwnSchedule
<1>1. NamesInv => RestoresOwnSchedule
  <2> SUFFICES ASSUME NamesInv, ToldApart, NEW b \in backups, Undotted(b), b.id = target
               PROVE  ToRestore(GetInfoFromSnapshotID(target)) =
                        {x.name : x \in {y \in backups :
                                    ScheduleOf(y) = ScheduleOf(b) /\ (y = b \/
                                        (b.schedule # <<>> /\ Less(y.name, b.name)))}}
    BY DEF RestoresOwnSchedule
  <2>1. GetInfoFromSnapshotID(target) = <<volume, ScheduleOf(b), b.name>>
    BY IdIsRead
  <2> QED BY <2>1, RestoreList
<1> QED BY <1>1, SpecNames, PTL
===============================================================================
