------------------------- MODULE ContainersProofs -------------------------
(***************************************************************************)
(* Proofs about the containers that offf-convert and offf-collect make and *)
(* publish: Merkle trees of any size and their inclusion proofs, what a    *)
(* published container holds, what an accepted one can be relied on for,   *)
(* and what is read of an image.                                           *)
(*                                                                         *)
(* A recursive function is known once some function has its equation: it   *)
(* is built up to each number and the parts agree.  Induction over the     *)
(* numbers is NatInd: a set of numbers without a number would have a least *)
(* one.                                                                    *)
(***************************************************************************)
EXTENDS Containers, ChunkQuestions, FiniteSetTheorems, TLAPS

-----------------------------------------------------------------------------
(* Numbers and sequences.                                                  *)

\* Numbers have a least one.
LEMMA Least ==
    ASSUME NEW S \in SUBSET Nat, S # {}
    PROVE  \E n \in S : \A m \in S : n <= m
<1>1. \E x \in S : \A y \in S : ~ (<<y, x>> \in OpToRel(<, Nat))
  BY NatLessThanWellFounded, WFMin, S \subseteq Nat
<1>2. PICK x \in S : \A y \in S : ~ (<<y, x>> \in OpToRel(<, Nat)) BY <1>1
<1>3. \A y \in S : ~ (y < x)
  <2>0. S \subseteq Nat OBVIOUS
  <2> QED BY <1>2, <2>0 DEF OpToRel
<1>4. S \subseteq Nat /\ x \in S BY <1>2
<1>5. \A y \in S : x <= y BY <1>3, <1>4
<1> QED BY <1>4, <1>5

\* Min of the community modules is it.
LEMMA LeastIsMin ==
    ASSUME NEW S \in SUBSET Nat, S # {}
    PROVE  Min(S) \in S /\ \A m \in S : Min(S) <= m
<1>1. \E n \in S : \A m \in S : n <= m BY Least
<1> QED BY <1>1 DEF Min

\* Induction over the numbers: a set that has 0 and the next of each of its
\* numbers has them all.
LEMMA NatInd ==
    ASSUME NEW S, 0 \in S, \A n \in Nat : n \in S => n + 1 \in S
    PROVE  \A n \in Nat : n \in S
<1> SUFFICES ASSUME Nat \ S # {} PROVE FALSE OBVIOUS
<1>1. PICK n \in Nat \ S : \A m \in Nat \ S : n <= m BY Least, Nat \ S \in SUBSET Nat
<1>2. n # 0 BY <1>1
<1>3. n - 1 \in Nat /\ n - 1 \in S BY <1>1, <1>2
<1> QED BY <1>1, <1>3

\* f[i] joins the first i of the sequences s.
Flattens(f, s, m) == f = [i \in 1 .. m |-> IF i = 1 THEN s[i] ELSE f[i - 1] \o s[i]]

\* Such a function exists for any number of sequences.
LEMMA FlattenExists == ASSUME NEW s PROVE \A m \in Nat : \E f : Flattens(f, s, m)
<1> DEFINE S == {m \in Nat : \E f : Flattens(f, s, m)}
<1>1. 0 \in S
  <2>1. Flattens(<<>>, s, 0) BY DEF Flattens
  <2> QED BY <2>1
<1>2. ASSUME NEW m \in Nat, m \in S PROVE m + 1 \in S
  <2>1. PICK f : Flattens(f, s, m) BY <1>2
  <2> DEFINE last == IF m + 1 = 1 THEN s[m + 1] ELSE f[m] \o s[m + 1]
             g == [i \in 1 .. m + 1 |-> IF i = m + 1 THEN last ELSE f[i]]
  <2>2. ASSUME NEW i \in 1 .. m + 1 PROVE g[i] = IF i = 1 THEN s[i] ELSE g[i - 1] \o s[i]
    <3>1. CASE i = m + 1
      <4>1. g[i] = last BY <3>1
      <4>2. i # 1 => g[i - 1] = f[m] BY <3>1
      <4> QED BY <3>1, <4>1, <4>2
    <3>2. CASE i # m + 1
      <4>1. i \in 1 .. m BY <3>2
      <4>2. g[i] = f[i] BY <3>2
      <4>3. i # 1 => g[i - 1] = f[i - 1] BY <3>2, <4>1
      <4>4. f[i] = IF i = 1 THEN s[i] ELSE f[i - 1] \o s[i] BY <2>1, <4>1 DEF Flattens
      <4> HIDE DEF g
      <4> QED BY <4>2, <4>3, <4>4
    <3> QED BY <3>1, <3>2
  <2>3. g = [i \in 1 .. m + 1 |-> g[i]] OBVIOUS
  <2> HIDE DEF g
  <2>4. Flattens(g, s, m + 1) BY <2>2, <2>3 DEF Flattens
  <2> QED BY <2>4
<1> HIDE DEF S
<1>3. \A m \in Nat : m \in S BY <1>1, <1>2, NatInd
<1> QED BY <1>3 DEF S

\* What FlattenSeq joins, one sequence after the other.
LEMMA FlattenIs ==
    ASSUME NEW s, Len(s) \in Nat \ {0}
    PROVE  \E f : Flattens(f, s, Len(s)) /\ FlattenSeq(s) = f[Len(s)]
<1> DEFINE f == CHOOSE f : Flattens(f, s, Len(s))
<1>1. \E g : Flattens(g, s, Len(s)) BY FlattenExists
<1>2. Flattens(f, s, Len(s)) BY <1>1
<1>3. FlattenSeq(s) = f[Len(s)] BY DEF FlattenSeq, Flattens
<1> HIDE DEF f
<1> QED BY <1>2, <1>3

\* Singletons are joined to the sequence of what they hold.
LEMMA FlattenSingles ==
    ASSUME NEW n \in Nat, NEW x
    PROVE  FlattenSeq([k \in 1 .. n |-> <<x[k]>>]) = [k \in 1 .. n |-> x[k]]
<1> DEFINE s == [k \in 1 .. n |-> <<x[k]>>]
           X == {x[k] : k \in 1 .. n}
<1>1. s \in Seq({<<x[k]>> : k \in 1 .. n}) /\ Len(s) = n
  <2>1. \A k \in 1 .. n : <<x[k]>> \in {<<x[j]>> : j \in 1 .. n} OBVIOUS
  <2> QED BY <2>1
<1>2. \A k \in 1 .. n : s[k] = <<x[k]>> OBVIOUS
<1>3. CASE n = 0
  <2>1. s = <<>> BY <1>3
  <2>2. [k \in 1 .. n |-> x[k]] = <<>> BY <1>3
  <2>3. FlattenSeq(s) = s BY <1>1, <1>3 DEF FlattenSeq
  <2> QED BY <2>1, <2>2, <2>3
<1>4. CASE n # 0
  <2> HIDE DEF s
  <2>1. PICK f : Flattens(f, s, n) /\ FlattenSeq(s) = f[n] BY <1>1, <1>4, FlattenIs
  <2> DEFINE P(m) == m \in 1 .. n => f[m] = [k \in 1 .. m |-> x[k]]
             S == {m \in Nat : P(m)}
  <2>2. \A m \in 1 .. n : f[m] = IF m = 1 THEN s[m] ELSE f[m - 1] \o s[m] BY <2>1 DEF Flattens
  <2>3. 0 \in S OBVIOUS
  <2>4. ASSUME NEW m \in Nat, m \in S PROVE m + 1 \in S
    <3> SUFFICES ASSUME m + 1 \in 1 .. n PROVE f[m + 1] = [k \in 1 .. m + 1 |-> x[k]] OBVIOUS
    <3>1. CASE m = 0
      <4>1. f[1] = <<x[1]>> BY <1>2, <2>2, <3>1
      <4>2. <<x[1]>> = [k \in 1 .. 1 |-> x[k]] OBVIOUS
      <4> QED BY <3>1, <4>1, <4>2
    <3>2. CASE m # 0
      <4> DEFINE a == [k \in 1 .. m |-> x[k]]
                 b == [k \in 1 .. m + 1 |-> x[k]]
                 w == x[m + 1]
      <4>1. f[m] = a BY <2>4, <3>2
      <4>2. f[m + 1] = a \o <<w>>
        <5>1. m + 1 # 1 /\ (m + 1) - 1 = m BY <3>2
        <5>2. s[m + 1] = <<w>> BY <1>2
        <5> HIDE DEF a, w
        <5> QED BY <2>2, <4>1, <5>1, <5>2
      <4>3. a \in Seq(X) /\ Len(a) = m /\ w \in X /\ \A k \in 1 .. m : a[k] = x[k]
        <5>1. \A k \in 1 .. m : x[k] \in X OBVIOUS
        <5>2. w \in X OBVIOUS
        <5> HIDE DEF X
        <5> QED BY <5>1, <5>2
      <4>4. b \in Seq(X) /\ Len(b) = m + 1 /\ \A k \in 1 .. m + 1 : b[k] = x[k]
        <5>1. \A k \in 1 .. m + 1 : x[k] \in X OBVIOUS
        <5> HIDE DEF X
        <5> QED BY <5>1
      <4>5. b[m + 1] = w BY <4>4
      <4> HIDE DEF a, b, w, X
      <4>6. a \o <<w>> \in Seq(X) /\ Len(a \o <<w>>) = m + 1 BY <4>3
      <4>7. \A k \in 1 .. m + 1 : (a \o <<w>>)[k] = b[k] BY <4>3, <4>4, <4>5
      <4>8. a \o <<w>> = b BY <4>4, <4>6, <4>7
      <4> QED BY <4>2, <4>8 DEF b
    <3> QED BY <3>1, <3>2
  <2> HIDE DEF S
  <2>5. \A m \in Nat : m \in S BY <2>3, <2>4, NatInd
  <2>6. n \in 1 .. n BY <1>4
  <2> QED BY <2>1, <2>5, <2>6 DEF S, s
<1> QED BY <1>3, <1>4

\* What joining sequences gives: its length, its beginning and its end.
IsJoined(f, s, m, X) ==
    /\ f[1] = s[1]
    /\ \A i \in 1 .. m :
          /\ f[i] \in Seq(X) /\ Len(f[i]) >= Len(s[1])
          /\ i + 1 <= m => Len(f[i + 1]) = Len(f[i]) + Len(s[i + 1])
          /\ \A j \in 1 .. Len(s[1]) : f[i][j] = s[1][j]
          /\ f[i][Len(f[i])] = s[i][Len(s[i])]

\* Joining adds the lengths and keeps the beginning and the end.
LEMMA Joined ==
    ASSUME NEW X, NEW s, NEW m \in Nat \ {0}, \A i \in 1 .. m : s[i] \in Seq(X) /\ s[i] # <<>>,
           NEW f, Flattens(f, s, m)
    PROVE  IsJoined(f, s, m, X)
<1> DEFINE Good(i) == /\ f[i] \in Seq(X) /\ Len(f[i]) >= Len(s[1])
                      /\ \A j \in 1 .. Len(s[1]) : f[i][j] = s[1][j]
                      /\ f[i][Len(f[i])] = s[i][Len(s[i])]
           S == {i \in Nat : i \in 1 .. m => Good(i)}
<1>0. \A i \in 1 .. m : f[i] = IF i = 1 THEN s[i] ELSE f[i - 1] \o s[i] BY DEF Flattens
<1>1. f[1] = s[1] BY <1>0
<1>2. ASSUME NEW i \in Nat, i \in 1 .. m, i + 1 \in 1 .. m PROVE f[i + 1] = f[i] \o s[i + 1]
  <2>1. i + 1 # 1 /\ (i + 1) - 1 = i BY <1>2
  <2> QED BY <1>0, <1>2, <2>1
<1>3. 0 \in S OBVIOUS
<1>4. Good(1)
  <2>1. 1 \in 1 .. m OBVIOUS
  <2>2. s[1] \in Seq(X) BY <2>1
  <2> QED BY <1>1, <2>2
<1>5. ASSUME NEW i \in Nat, i \in 1 .. m, Good(i), i + 1 \in 1 .. m PROVE Good(i + 1)
  <2> DEFINE a == f[i]  b == s[i + 1]  c == f[i + 1]  e == s[1]
  <2>1. c = a \o b BY <1>2, <1>5
  <2>2. a \in Seq(X) /\ Len(a) >= Len(e) /\ \A j \in 1 .. Len(e) : a[j] = e[j] BY <1>5
  <2>3. b \in Seq(X) /\ b # <<>> /\ e \in Seq(X) BY <1>5
  <2> HIDE DEF a, b, c, e
  <2>4. c \in Seq(X) /\ Len(c) = Len(a) + Len(b) BY <2>1, <2>2, <2>3
  <2>5. Len(a) \in Nat /\ Len(b) \in Nat \ {0} /\ Len(e) \in Nat BY <2>2, <2>3
  <2>6. Len(c) >= Len(e) BY <2>2, <2>4, <2>5
  <2>7. \A j \in 1 .. Len(a) : c[j] = a[j] BY <2>1, <2>2, <2>3
  <2>8. \A j \in 1 .. Len(e) : c[j] = e[j] BY <2>2, <2>5, <2>7
  <2>9. c[Len(c)] = b[Len(b)]
    <3>1. \A j \in 1 .. Len(b) : c[Len(a) + j] = b[j] BY <2>1, <2>2, <2>3
    <3>2. Len(b) \in 1 .. Len(b) BY <2>5
    <3> QED BY <2>4, <3>1, <3>2
  <2> QED BY <2>4, <2>6, <2>8, <2>9 DEF a, b, c, e
<1>6. ASSUME NEW i \in Nat, i \in S PROVE i + 1 \in S
  <2> HIDE DEF Good
  <2> SUFFICES ASSUME i + 1 \in 1 .. m PROVE Good(i + 1) OBVIOUS
  <2>1. CASE i = 0 BY <1>4, <2>1
  <2>2. CASE i # 0
    <3>1. i \in 1 .. m BY <2>2
    <3>2. Good(i) BY <1>6, <3>1
    <3> QED BY <1>5, <3>1, <3>2
  <2> QED BY <2>1, <2>2
<1>7. \A i \in Nat : i \in S
  <2> HIDE DEF S
  <2> QED BY <1>3, <1>6, NatInd
<1>8. \A i \in 1 .. m : Good(i)
  <2> HIDE DEF Good
  <2> QED BY <1>7
<1>9. ASSUME NEW i \in 1 .. m, i + 1 <= m PROVE Len(f[i + 1]) = Len(f[i]) + Len(s[i + 1])
  <2>1. i \in Nat /\ i + 1 \in 1 .. m BY <1>9
  <2>2. f[i + 1] = f[i] \o s[i + 1] BY <1>2, <2>1
  <2>3. f[i] \in Seq(X) /\ s[i + 1] \in Seq(X) BY <1>8, <2>1
  <2> QED BY <2>2, <2>3
<1> QED BY <1>1, <1>8, <1>9 DEF IsJoined

-----------------------------------------------------------------------------
(* The Merkle tree.                                                        *)

\* The levels of a tree as a function of their number.
LevelOf(f, leaves, domain) == f = [k \in domain |-> IF k = 0 THEN leaves ELSE NextLevel(f[k - 1])]

\* Two such functions agree where both are defined.
LEMMA LevelOfAgree ==
    ASSUME NEW leaves, NEW n \in Nat, NEW m \in Nat, NEW f, NEW g, n <= m,
           LevelOf(f, leaves, 0 .. n), LevelOf(g, leaves, 0 .. m)
    PROVE  \A k \in 0 .. n : f[k] = g[k]
<1> DEFINE S == {k \in Nat : k <= n => f[k] = g[k]}
<1>0. /\ \A k \in 0 .. n : f[k] = IF k = 0 THEN leaves ELSE NextLevel(f[k - 1])
      /\ \A k \in 0 .. m : g[k] = IF k = 0 THEN leaves ELSE NextLevel(g[k - 1])
  BY DEF LevelOf
<1>1. 0 \in S BY <1>0
<1>2. ASSUME NEW k \in Nat, k \in S PROVE k + 1 \in S
  <2> SUFFICES ASSUME k + 1 <= n PROVE f[k + 1] = g[k + 1] OBVIOUS
  <2>1. f[k] = g[k] /\ (k + 1) - 1 = k BY <1>2
  <2>2. k + 1 \in 0 .. n /\ k + 1 \in 0 .. m OBVIOUS
  <2> QED BY <1>0, <2>1, <2>2
<1>3. \A k \in Nat : k \in S
  <2> HIDE DEF S
  <2> QED BY <1>1, <1>2, NatInd
<1> QED BY <1>3

\* There is one up to each level.
LEMMA LevelOfUpTo == ASSUME NEW leaves PROVE \A n \in Nat : \E f : LevelOf(f, leaves, 0 .. n)
<1> DEFINE S == {n \in Nat : \E f : LevelOf(f, leaves, 0 .. n)}
<1>1. 0 \in S
  <2> DEFINE g == [k \in 0 .. 0 |-> leaves]
  <2>1. LevelOf(g, leaves, 0 .. 0) BY DEF LevelOf
  <2> QED BY <2>1
<1>2. ASSUME NEW n \in Nat, n \in S PROVE n + 1 \in S
  <2>1. PICK f : LevelOf(f, leaves, 0 .. n) BY <1>2
  <2> DEFINE last == IF n + 1 = 0 THEN leaves ELSE NextLevel(f[n])
             g == [k \in 0 .. n + 1 |-> IF k = n + 1 THEN last ELSE f[k]]
  <2>2. ASSUME NEW k \in 0 .. n + 1 PROVE g[k] = IF k = 0 THEN leaves ELSE NextLevel(g[k - 1])
    <3>1. CASE k = n + 1
      <4>1. g[k] = last /\ g[k - 1] = f[n] BY <3>1
      <4> QED BY <3>1, <4>1
    <3>2. CASE k # n + 1
      <4>1. k \in 0 .. n /\ g[k] = f[k] BY <3>2
      <4>2. k # 0 => g[k - 1] = f[k - 1] BY <3>2
      <4>3. f[k] = IF k = 0 THEN leaves ELSE NextLevel(f[k - 1]) BY <2>1, <4>1 DEF LevelOf
      <4> HIDE DEF g
      <4> QED BY <4>1, <4>2, <4>3
    <3> QED BY <3>1, <3>2
  <2>3. g = [k \in 0 .. n + 1 |-> g[k]] OBVIOUS
  <2> HIDE DEF g
  <2>4. LevelOf(g, leaves, 0 .. n + 1) BY <2>2, <2>3 DEF LevelOf
  <2> QED BY <2>4
<1>3. \A n \in Nat : n \in S
  <2> HIDE DEF S
  <2> QED BY <1>1, <1>2, NatInd
<1> QED BY <1>3

\* So there is one for all levels.
LEMMA LevelOfExists == ASSUME NEW leaves PROVE \E f : LevelOf(f, leaves, Nat)
<1> DEFINE F(n) == CHOOSE f : LevelOf(f, leaves, 0 .. n)
           h == [k \in Nat |-> F(k)[k]]
<1>1. ASSUME NEW n \in Nat PROVE LevelOf(F(n), leaves, 0 .. n)
  <2>1. \E f : LevelOf(f, leaves, 0 .. n) BY LevelOfUpTo
  <2> QED BY <2>1
<1>2. ASSUME NEW k \in Nat PROVE h[k] = IF k = 0 THEN leaves ELSE NextLevel(h[k - 1])
  <2>1. h[k] = F(k)[k] OBVIOUS
  <2>2. k # 0 => h[k - 1] = F(k)[k - 1]
    <3> SUFFICES ASSUME k # 0 PROVE h[k - 1] = F(k)[k - 1] OBVIOUS
    <3>1. k - 1 \in Nat /\ k - 1 <= k /\ k - 1 \in 0 .. k - 1 OBVIOUS
    <3>2. h[k - 1] = F(k - 1)[k - 1] BY <3>1
    <3>3. LevelOf(F(k - 1), leaves, 0 .. k - 1) /\ LevelOf(F(k), leaves, 0 .. k) BY <1>1, <3>1
    <3> HIDE DEF F, h
    <3> QED BY <3>1, <3>2, <3>3, LevelOfAgree
  <2>3. LevelOf(F(k), leaves, 0 .. k) BY <1>1
  <2> HIDE DEF F, h
  <2>4. F(k)[k] = IF k = 0 THEN leaves ELSE NextLevel(F(k)[k - 1])
    <3>1. k \in 0 .. k OBVIOUS
    <3> QED BY <2>3, <3>1 DEF LevelOf
  <2> QED BY <2>1, <2>2, <2>4
<1>3. h = [k \in Nat |-> h[k]] OBVIOUS
<1> HIDE DEF h
<1>4. LevelOf(h, leaves, Nat) BY <1>2, <1>3 DEF LevelOf
<1> QED BY <1>4

\* The number of the node of a proof in each level, as generate_merkle_proof
\* computes it.
IndexAt(f, sequence, domain) == f = [k \in domain |-> IF k <= 1 THEN sequence ELSE f[k - 1] \div 2]

\* Two such functions agree where both are defined.
LEMMA IndexAtAgree ==
    ASSUME NEW sequence, NEW n \in Nat, NEW m \in Nat, NEW f, NEW g, n <= m,
           IndexAt(f, sequence, 0 .. n), IndexAt(g, sequence, 0 .. m)
    PROVE  \A k \in 0 .. n : f[k] = g[k]
<1> DEFINE S == {k \in Nat : k <= n => f[k] = g[k]}
<1>0. /\ \A k \in 0 .. n : f[k] = IF k <= 1 THEN sequence ELSE f[k - 1] \div 2
      /\ \A k \in 0 .. m : g[k] = IF k <= 1 THEN sequence ELSE g[k - 1] \div 2
  BY DEF IndexAt
<1>1. 0 \in S BY <1>0
<1>2. ASSUME NEW k \in Nat, k \in S PROVE k + 1 \in S
  <2> SUFFICES ASSUME k + 1 <= n PROVE f[k + 1] = g[k + 1] OBVIOUS
  <2>1. f[k] = g[k] /\ (k + 1) - 1 = k BY <1>2
  <2>2. k + 1 \in 0 .. n /\ k + 1 \in 0 .. m OBVIOUS
  <2> QED BY <1>0, <2>1, <2>2
<1>3. \A k \in Nat : k \in S
  <2> HIDE DEF S
  <2> QED BY <1>1, <1>2, NatInd
<1> QED BY <1>3

\* There is one up to each level.
LEMMA IndexAtUpTo == ASSUME NEW sequence PROVE \A n \in Nat : \E f : IndexAt(f, sequence, 0 .. n)
<1> DEFINE S == {n \in Nat : \E f : IndexAt(f, sequence, 0 .. n)}
<1>1. 0 \in S
  <2> DEFINE g == [k \in 0 .. 0 |-> sequence]
  <2>1. IndexAt(g, sequence, 0 .. 0) BY DEF IndexAt
  <2> QED BY <2>1
<1>2. ASSUME NEW n \in Nat, n \in S PROVE n + 1 \in S
  <2>1. PICK f : IndexAt(f, sequence, 0 .. n) BY <1>2
  <2> DEFINE last == IF n + 1 <= 1 THEN sequence ELSE f[n] \div 2
             g == [k \in 0 .. n + 1 |-> IF k = n + 1 THEN last ELSE f[k]]
  <2>2. ASSUME NEW k \in 0 .. n + 1 PROVE g[k] = IF k <= 1 THEN sequence ELSE g[k - 1] \div 2
    <3>1. CASE k = n + 1
      <4>1. g[k] = last /\ g[k - 1] = f[n] BY <3>1
      <4> QED BY <3>1, <4>1
    <3>2. CASE k # n + 1
      <4>1. k \in 0 .. n /\ g[k] = f[k] BY <3>2
      <4>2. k # 0 => g[k - 1] = f[k - 1] BY <3>2
      <4>3. f[k] = IF k <= 1 THEN sequence ELSE f[k - 1] \div 2 BY <2>1, <4>1 DEF IndexAt
      <4> HIDE DEF g
      <4> QED BY <4>1, <4>2, <4>3
    <3> QED BY <3>1, <3>2
  <2>3. g = [k \in 0 .. n + 1 |-> g[k]] OBVIOUS
  <2> HIDE DEF g
  <2>4. IndexAt(g, sequence, 0 .. n + 1) BY <2>2, <2>3 DEF IndexAt
  <2> QED BY <2>4
<1>3. \A n \in Nat : n \in S
  <2> HIDE DEF S
  <2> QED BY <1>1, <1>2, NatInd
<1> QED BY <1>3

\* So there is one for all levels.
LEMMA IndexAtExists == ASSUME NEW sequence PROVE \E f : IndexAt(f, sequence, Nat)
<1> DEFINE F(n) == CHOOSE f : IndexAt(f, sequence, 0 .. n)
           h == [k \in Nat |-> F(k)[k]]
<1>1. ASSUME NEW n \in Nat PROVE IndexAt(F(n), sequence, 0 .. n)
  <2>1. \E f : IndexAt(f, sequence, 0 .. n) BY IndexAtUpTo
  <2> QED BY <2>1
<1>2. ASSUME NEW k \in Nat PROVE h[k] = IF k <= 1 THEN sequence ELSE h[k - 1] \div 2
  <2>1. h[k] = F(k)[k] OBVIOUS
  <2>2. k # 0 => h[k - 1] = F(k)[k - 1]
    <3> SUFFICES ASSUME k # 0 PROVE h[k - 1] = F(k)[k - 1] OBVIOUS
    <3>1. k - 1 \in Nat /\ k - 1 <= k /\ k - 1 \in 0 .. k - 1 OBVIOUS
    <3>2. h[k - 1] = F(k - 1)[k - 1] BY <3>1
    <3>3. IndexAt(F(k - 1), sequence, 0 .. k - 1) /\ IndexAt(F(k), sequence, 0 .. k) BY <1>1, <3>1
    <3> HIDE DEF F, h
    <3> QED BY <3>1, <3>2, <3>3, IndexAtAgree
  <2>3. IndexAt(F(k), sequence, 0 .. k) BY <1>1
  <2> HIDE DEF F, h
  <2>4. F(k)[k] = IF k <= 1 THEN sequence ELSE F(k)[k - 1] \div 2
    <3>1. k \in 0 .. k OBVIOUS
    <3> QED BY <2>3, <3>1 DEF IndexAt
  <2> QED BY <2>1, <2>2, <2>4
<1>3. h = [k \in Nat |-> h[k]] OBVIOUS
<1> HIDE DEF h
<1>4. IndexAt(h, sequence, Nat) BY <1>2, <1>3 DEF IndexAt
<1> QED BY <1>4

\* A function of a number that is computed from that of its half.
Halving(f, a, e, domain) == f = [k \in domain |-> IF k <= 1 THEN a ELSE e[k] + f[Half(k)]]

\* Half of a number greater than one is smaller and not zero.
LEMMA HalfIs == \A k \in Nat : k > 1 => Half(k) \in 1 .. k - 1
BY DEF Half

\* Two functions computed from the halves agree where both are defined.
LEMMA HalvingAgree ==
    ASSUME NEW a, NEW e, NEW n \in Nat, NEW m \in Nat, NEW f, NEW g, n <= m,
           Halving(f, a, e, 0 .. n), Halving(g, a, e, 0 .. m)
    PROVE  \A k \in 0 .. n : f[k] = g[k]
<1> DEFINE S == {i \in Nat : \A k \in 0 .. i : k <= n => f[k] = g[k]}
<1>0. /\ \A k \in 0 .. n : f[k] = IF k <= 1 THEN a ELSE e[k] + f[Half(k)]
      /\ \A k \in 0 .. m : g[k] = IF k <= 1 THEN a ELSE e[k] + g[Half(k)]
  BY DEF Halving
<1>1. 0 \in S BY <1>0
<1>2. ASSUME NEW i \in Nat, i \in S PROVE i + 1 \in S
  <2>1. ASSUME i + 1 <= n PROVE f[i + 1] = g[i + 1]
    <3>1. i + 1 \in 0 .. n /\ i + 1 \in 0 .. m BY <2>1
    <3>2. CASE i + 1 <= 1 BY <1>0, <3>1, <3>2
    <3>3. CASE i + 1 > 1
      <4>1. Half(i + 1) \in 1 .. (i + 1) - 1 BY <3>3, HalfIs
      <4>2. Half(i + 1) \in 0 .. i /\ Half(i + 1) <= n BY <2>1, <4>1
      <4>3. f[Half(i + 1)] = g[Half(i + 1)] BY <1>2, <4>2
      <4>4. ~(i + 1 <= 1) BY <3>3
      <4> QED BY <1>0, <3>1, <4>3, <4>4
    <3> QED BY <3>2, <3>3
  <2>2. ASSUME NEW k \in 0 .. i + 1, k <= n PROVE f[k] = g[k]
    <3>1. CASE k = i + 1 BY <2>1, <2>2, <3>1
    <3>2. CASE k \in 0 .. i BY <1>2, <2>2, <3>2
    <3> QED BY <3>1, <3>2
  <2> QED BY <2>2
<1>3. \A k \in Nat : k \in S
  <2> HIDE DEF S
  <2> QED BY <1>1, <1>2, NatInd
<1>4. n \in S BY <1>3
<1> QED BY <1>4

\* In particular at the last number of the smaller.
LEMMA HalvingsAgree ==
    ASSUME NEW a, NEW e, NEW m \in Nat, NEW n \in Nat, n <= m, NEW f, NEW g,
           Halving(f, a, e, 0 .. n), Halving(g, a, e, 0 .. m)
    PROVE  f[n] = g[n]
BY HalvingAgree

\* There is one up to each number.
LEMMA HalvingUpTo == ASSUME NEW a, NEW e PROVE \A n \in Nat : \E f : Halving(f, a, e, 0 .. n)
<1> DEFINE S == {n \in Nat : \E f : Halving(f, a, e, 0 .. n)}
<1>1. 0 \in S
  <2> DEFINE g == [k \in 0 .. 0 |-> a]
  <2>1. Halving(g, a, e, 0 .. 0) BY DEF Halving
  <2> QED BY <2>1
<1>2. ASSUME NEW n \in Nat, n \in S PROVE n + 1 \in S
  <2>1. PICK f : Halving(f, a, e, 0 .. n) BY <1>2
  <2> DEFINE last == IF n + 1 <= 1 THEN a ELSE e[n + 1] + f[Half(n + 1)]
             g == [k \in 0 .. n + 1 |-> IF k = n + 1 THEN last ELSE f[k]]
  <2>2. ASSUME NEW k \in 0 .. n + 1 PROVE g[k] = IF k <= 1 THEN a ELSE e[k] + g[Half(k)]
    <3>0. ~(k <= 1) => Half(k) \in 0 .. n + 1 /\ Half(k) # n + 1
      <4>1. ~(k <= 1) => Half(k) \in 1 .. k - 1 BY HalfIs
      <4> QED BY <4>1
    <3>1. ~(k <= 1) => g[Half(k)] = f[Half(k)] BY <3>0
    <3>2. CASE k = n + 1
      <4>1. g[k] = last BY <3>2
      <4> QED BY <3>1, <3>2, <4>1
    <3>3. CASE k # n + 1
      <4>1. k \in 0 .. n /\ g[k] = f[k] BY <3>3
      <4>2. f[k] = IF k <= 1 THEN a ELSE e[k] + f[Half(k)] BY <2>1, <4>1 DEF Halving
      <4> HIDE DEF g
      <4> QED BY <3>1, <4>1, <4>2
    <3> QED BY <3>2, <3>3
  <2>3. g = [k \in 0 .. n + 1 |-> g[k]] OBVIOUS
  <2> HIDE DEF g
  <2>4. Halving(g, a, e, 0 .. n + 1) BY <2>2, <2>3 DEF Halving
  <2> QED BY <2>4
<1>3. \A n \in Nat : n \in S
  <2> HIDE DEF S
  <2> QED BY <1>1, <1>2, NatInd
<1> QED BY <1>3

\* Its values are numbers.
LEMMA HalvingValues ==
    ASSUME NEW a \in Nat, NEW e \in [Nat -> Nat], NEW h, Halving(h, a, e, Nat)
    PROVE  \A k \in Nat : h[k] \in Nat
<1>0. \A k \in Nat : h[k] = IF k <= 1 THEN a ELSE e[k] + h[Half(k)] BY DEF Halving
<1> DEFINE S == {i \in Nat : \A k \in 0 .. i : h[k] \in Nat}
<1>1. 0 \in S BY <1>0
<1>2. ASSUME NEW i \in Nat, i \in S PROVE i + 1 \in S
  <2>1. h[i + 1] \in Nat
    <3>1. CASE i + 1 <= 1 BY <1>0, <3>1
    <3>2. CASE i + 1 > 1
      <4>1. Half(i + 1) \in 1 .. (i + 1) - 1 BY <3>2, HalfIs
      <4>2. Half(i + 1) \in 0 .. i BY <4>1
      <4>3. h[Half(i + 1)] \in Nat /\ e[i + 1] \in Nat BY <1>2, <4>2
      <4>4. h[i + 1] = e[i + 1] + h[Half(i + 1)] BY <1>0, <3>2
      <4> QED BY <4>3, <4>4
    <3> QED BY <3>1, <3>2
  <2>2. ASSUME NEW k \in 0 .. i + 1 PROVE h[k] \in Nat
    <3>1. CASE k = i + 1 BY <2>1, <3>1
    <3>2. CASE k \in 0 .. i BY <1>2, <3>2
    <3> QED BY <3>1, <3>2
  <2> QED BY <2>2
<1>3. \A i \in Nat : i \in S
  <2> HIDE DEF S
  <2> QED BY <1>1, <1>2, NatInd
<1>4. ASSUME NEW k \in Nat PROVE h[k] \in Nat
  <2>1. k \in S /\ k \in 0 .. k BY <1>3
  <2> QED BY <2>1
<1> QED BY <1>4

\* So there is one for all numbers.
LEMMA HalvingExists ==
    ASSUME NEW a \in Nat, NEW e \in [Nat -> Nat]
    PROVE  \E f \in [Nat -> Nat] : Halving(f, a, e, Nat)
<1> DEFINE F(n) == CHOOSE f : Halving(f, a, e, 0 .. n)
           h == [k \in Nat |-> F(k)[k]]
<1>1. ASSUME NEW n \in Nat PROVE Halving(F(n), a, e, 0 .. n)
  <2>1. \E f : Halving(f, a, e, 0 .. n) BY HalvingUpTo
  <2> QED BY <2>1
<1>2. ASSUME NEW k \in Nat PROVE h[k] = IF k <= 1 THEN a ELSE e[k] + h[Half(k)]
  <2>1. h[k] = F(k)[k] OBVIOUS
  <2>2. k > 1 => h[Half(k)] = F(k)[Half(k)]
    <3> SUFFICES ASSUME k > 1 PROVE h[Half(k)] = F(k)[Half(k)] OBVIOUS
    <3> DEFINE q == Half(k)
               G == F(k)
               H == F(q)
    <3>0. q \in 1 .. k - 1 BY HalfIs
    <3>1. q \in Nat /\ k \in Nat /\ q <= k /\ q \in 0 .. q BY <3>0
    <3>2. h[q] = H[q] BY <3>1
    <3>3. Halving(H, a, e, 0 .. q) /\ Halving(G, a, e, 0 .. k) BY <1>1, <3>1
    <3> HIDE DEF F, h, G, H, q
    <3>4. H[q] = G[q] BY <3>1, <3>3, HalvingsAgree
    <3>5. h[q] = G[q] BY <3>2, <3>4
    <3> QED BY <3>5 DEF q, G
  <2>3. Halving(F(k), a, e, 0 .. k) BY <1>1
  <2> HIDE DEF F, h
  <2>4. F(k)[k] = IF k <= 1 THEN a ELSE e[k] + F(k)[Half(k)]
    <3>1. k \in 0 .. k OBVIOUS
    <3> QED BY <2>3, <3>1 DEF Halving
  <2> QED BY <2>1, <2>2, <2>4
<1>3. h = [k \in Nat |-> h[k]] OBVIOUS
<1> HIDE DEF h
<1>4. Halving(h, a, e, Nat) BY <1>2, <1>3 DEF Halving
<1>5. \A k \in Nat : h[k] \in Nat BY <1>4, HalvingValues
<1>6. h \in [Nat -> Nat] BY <1>3, <1>5
<1> QED BY <1>4, <1>6

\* What Depth and Nodes compute.
LEMMA DepthIs ==
    \A n \in Nat : Depth(n) \in Nat /\ Depth(n) = IF n <= 1 THEN 0 ELSE 1 + Depth(Half(n))
<1> DEFINE e == [k \in Nat |-> 1]
           d == CHOOSE d : d = [k \in Nat |-> IF k <= 1 THEN 0 ELSE 1 + d[Half(k)]]
<1>1. PICK f \in [Nat -> Nat] : Halving(f, 0, e, Nat)
  <2>1. e \in [Nat -> Nat] OBVIOUS
  <2> HIDE DEF e
  <2> QED BY <2>1, HalvingExists
<1>2. f = [k \in Nat |-> IF k <= 1 THEN 0 ELSE 1 + f[Half(k)]] BY <1>1 DEF Halving
<1>3. d = [k \in Nat |-> IF k <= 1 THEN 0 ELSE 1 + d[Half(k)]] BY <1>2
<1>4. \A n : Depth(n) = d[n] BY DEF Depth
<1>5. Halving(d, 0, e, Nat)
  <2> HIDE DEF d
  <2>1. [k \in Nat |-> IF k <= 1 THEN 0 ELSE 1 + d[Half(k)]] = [k \in Nat |-> IF k <= 1 THEN 0 ELSE e[k] + d[Half(k)]]
    OBVIOUS
  <2> HIDE DEF e
  <2> QED BY <1>3, <2>1 DEF Halving
<1>6. \A k \in Nat : d[k] = IF k <= 1 THEN 0 ELSE 1 + d[Half(k)]
  <2> HIDE DEF d
  <2> QED BY <1>3
<1> HIDE DEF d
<1>7. \A k \in Nat : d[k] \in Nat
  <2>1. e \in [Nat -> Nat] OBVIOUS
  <2> HIDE DEF e
  <2> QED BY <1>5, <2>1, HalvingValues
<1> QED BY <1>4, <1>6, <1>7

\* What Nodes computes: a level and the nodes above it.
LEMMA NodesIs ==
    \A n \in Nat : Nodes(n) \in Nat /\ Nodes(n) = IF n <= 1 THEN 1 ELSE n + Nodes(Half(n))
<1> DEFINE e == [k \in Nat |-> k]
           c == CHOOSE c : c = [k \in Nat |-> IF k <= 1 THEN 1 ELSE k + c[Half(k)]]
<1>1. PICK f \in [Nat -> Nat] : Halving(f, 1, e, Nat)
  <2>1. e \in [Nat -> Nat] OBVIOUS
  <2> HIDE DEF e
  <2> QED BY <2>1, HalvingExists
<1>2. f = [k \in Nat |-> IF k <= 1 THEN 1 ELSE k + f[Half(k)]]
  <2>1. [k \in Nat |-> IF k <= 1 THEN 1 ELSE k + f[Half(k)]] = [k \in Nat |-> IF k <= 1 THEN 1 ELSE e[k] + f[Half(k)]]
    OBVIOUS
  <2> HIDE DEF e
  <2> QED BY <1>1, <2>1 DEF Halving
<1>3. c = [k \in Nat |-> IF k <= 1 THEN 1 ELSE k + c[Half(k)]] BY <1>2
<1>4. \A n : Nodes(n) = c[n] BY DEF Nodes
<1>5. Halving(c, 1, e, Nat)
  <2> HIDE DEF c
  <2>1. [k \in Nat |-> IF k <= 1 THEN 1 ELSE k + c[Half(k)]] = [k \in Nat |-> IF k <= 1 THEN 1 ELSE e[k] + c[Half(k)]]
    OBVIOUS
  <2> HIDE DEF e
  <2> QED BY <1>3, <2>1 DEF Halving
<1>6. \A k \in Nat : c[k] = IF k <= 1 THEN 1 ELSE k + c[Half(k)]
  <2> HIDE DEF c
  <2> QED BY <1>3
<1> HIDE DEF c
<1>7. \A k \in Nat : c[k] \in Nat
  <2>1. e \in [Nat -> Nat] OBVIOUS
  <2> HIDE DEF e
  <2> QED BY <1>5, <2>1, HalvingValues
<1> QED BY <1>4, <1>6, <1>7

\* The levels of a tree, each computed from the one below it.
LEMMA LevelsAre ==
    ASSUME NEW leaves
    PROVE  \E lv : /\ LevelOf(lv, leaves, Nat)
                   /\ Levels(leaves) = [k \in 1 .. Depth(Len(leaves)) + 1 |-> lv[k - 1]]
<1> DEFINE lv == CHOOSE f : f = [k \in Nat |-> IF k = 0 THEN leaves ELSE NextLevel(f[k - 1])]
<1>1. \E f : LevelOf(f, leaves, Nat) BY LevelOfExists
<1>2. LevelOf(lv, leaves, Nat) BY <1>1 DEF LevelOf
<1>3. Levels(leaves) = [k \in 1 .. Depth(Len(leaves)) + 1 |-> lv[k - 1]] BY DEF Levels
<1> HIDE DEF lv
<1> QED BY <1>2, <1>3

\* The nodes of the next level, each of two of this one.
LEMMA NextLevelIs ==
    ASSUME NEW nodes, Len(nodes) \in Nat
    PROVE  /\ Len(NextLevel(nodes)) = Half(Len(nodes)) /\ DOMAIN NextLevel(nodes) = 1 .. Half(Len(nodes))
           /\ \A i \in 1 .. Half(Len(nodes)) :
                 NextLevel(nodes)[i] =
                    <<nodes[2 * i - 1], IF 2 * i <= Len(nodes) THEN nodes[2 * i] ELSE nodes[2 * i - 1]>>
<1> DEFINE N(i) == <<nodes[2 * i - 1], IF 2 * i <= Len(nodes) THEN nodes[2 * i] ELSE nodes[2 * i - 1]>>
           h == Half(Len(nodes))
<1>1. NextLevel(nodes) = [i \in 1 .. h |-> N(i)] BY DEF NextLevel
<1>2. h \in Nat BY DEF Half
<1> HIDE DEF N, h
<1>3. [i \in 1 .. h |-> N(i)] \in Seq({N(i) : i \in 1 .. h}) /\ Len([i \in 1 .. h |-> N(i)]) = h
  <2>1. \A i \in 1 .. h : N(i) \in {N(j) : j \in 1 .. h} OBVIOUS
  <2> QED BY <1>2, <2>1
<1>4. \A i \in 1 .. h : NextLevel(nodes)[i] = N(i) BY <1>1
<1>5. Len(NextLevel(nodes)) = h /\ DOMAIN NextLevel(nodes) = 1 .. h BY <1>1, <1>3
<1> QED BY <1>4, <1>5 DEF N, h

\* A level has half the nodes of the one below it; the last has one.
LEMMA LevelFacts ==
    ASSUME NEW leaves, Len(leaves) \in Nat \ {0}, NEW lv, LevelOf(lv, leaves, Nat)
    PROVE  LET D == Depth(Len(leaves)) IN
           /\ D \in Nat /\ lv[0] = leaves
           /\ \A k \in 0 .. D : Len(lv[k]) \in Nat \ {0}
           /\ \A k \in 0 .. D - 1 : /\ lv[k + 1] = NextLevel(lv[k]) /\ Len(lv[k]) > 1
                                    /\ Len(lv[k + 1]) = Half(Len(lv[k]))
           /\ Len(lv[D]) = 1
<1> DEFINE D == Depth(Len(leaves))
           S == {k \in Nat : k <= D => Len(lv[k]) \in Nat \ {0} /\ Depth(Len(lv[k])) = D - k}
<1>1. D \in Nat BY DepthIs
<1>2. lv[0] = leaves /\ \A k \in Nat : lv[k + 1] = NextLevel(lv[k])
  <2>1. \A k \in Nat : lv[k] = IF k = 0 THEN leaves ELSE NextLevel(lv[k - 1]) BY DEF LevelOf
  <2>2. ASSUME NEW k \in Nat PROVE lv[k + 1] = NextLevel(lv[k])
    <3>1. k + 1 \in Nat /\ k + 1 # 0 /\ (k + 1) - 1 = k OBVIOUS
    <3> QED BY <2>1, <3>1
  <2> QED BY <2>1, <2>2
<1>3. ASSUME NEW h \in Nat \ {0}, Depth(h) # 0
      PROVE  h > 1 /\ Half(h) \in Nat \ {0} /\ Depth(h) = 1 + Depth(Half(h)) /\ Depth(Half(h)) \in Nat
  <2>1. h > 1 BY <1>3, DepthIs
  <2>2. Half(h) \in Nat \ {0} BY <2>1, HalfIs
  <2> QED BY <2>1, <2>2, DepthIs
<1>4. 0 \in S
  <2>1. lv[0] = leaves BY <1>2
  <2>2. Len(lv[0]) = Len(leaves) BY <2>1
  <2>3. Depth(Len(lv[0])) = D BY <2>2
  <2> HIDE DEF D
  <2>4. D = D - 0 BY <1>1
  <2>5. Len(lv[0]) \in Nat \ {0} /\ Depth(Len(lv[0])) = D - 0 BY <2>2, <2>3, <2>4
  <2> QED BY <2>5
<1>5. ASSUME NEW k \in Nat, k + 1 <= D, Len(lv[k]) \in Nat \ {0}, Depth(Len(lv[k])) = D - k
      PROVE  Len(lv[k]) > 1 /\ Len(lv[k + 1]) = Half(Len(lv[k])) /\ Len(lv[k + 1]) \in Nat \ {0}
             /\ Depth(Len(lv[k + 1])) = D - (k + 1)
  <2> DEFINE h == Len(lv[k])
  <2>1. h \in Nat \ {0} /\ Depth(h) = D - k BY <1>5
  <2>2. Len(lv[k + 1]) = Half(h) BY <1>2, <2>1, NextLevelIs
  <2> HIDE DEF h, D
  <2>3. Depth(h) # 0 BY <1>1, <1>5, <2>1
  <2>4. h > 1 /\ Half(h) \in Nat \ {0} /\ Depth(h) = 1 + Depth(Half(h)) /\ Depth(Half(h)) \in Nat BY <1>3, <2>1, <2>3
  <2>5. Depth(Half(h)) = D - (k + 1) BY <1>1, <2>1, <2>4
  <2> QED BY <2>2, <2>4, <2>5 DEF h
<1>6. ASSUME NEW k \in Nat, k \in S PROVE k + 1 \in S
  <2> HIDE DEF D
  <2> SUFFICES ASSUME k + 1 <= D PROVE Len(lv[k + 1]) \in Nat \ {0} /\ Depth(Len(lv[k + 1])) = D - (k + 1) OBVIOUS
  <2>1. k <= D BY <1>1
  <2> QED BY <1>5, <1>6, <2>1
<1>7. \A k \in Nat : k \in S
  <2> HIDE DEF S
  <2> QED BY <1>4, <1>6, NatInd
<1> HIDE DEF D
<1>8. \A k \in 0 .. D : Len(lv[k]) \in Nat \ {0} /\ Depth(Len(lv[k])) = D - k BY <1>1, <1>7
<1>9. \A k \in 0 .. D - 1 : /\ lv[k + 1] = NextLevel(lv[k]) /\ Len(lv[k]) > 1
                            /\ Len(lv[k + 1]) = Half(Len(lv[k]))
  <2> SUFFICES ASSUME NEW k \in 0 .. D - 1
               PROVE  lv[k + 1] = NextLevel(lv[k]) /\ Len(lv[k]) > 1 /\ Len(lv[k + 1]) = Half(Len(lv[k]))
    OBVIOUS
  <2>1. k \in Nat /\ k + 1 <= D /\ k \in 0 .. D BY <1>1
  <2> QED BY <1>2, <1>5, <1>8, <2>1
<1>10. Len(lv[D]) = 1
  <2> DEFINE h == Len(lv[D])
  <2>1. D \in 0 .. D BY <1>1
  <2>2. h \in Nat \ {0} /\ Depth(h) = D - D BY <1>8, <2>1
  <2> HIDE DEF h
  <2>3. Depth(h) = 0 BY <1>1, <2>2
  <2>4. h > 1 => Half(h) \in Nat BY <2>2, HalfIs
  <2>5. h <= 1
    <3>1. h > 1 => Depth(h) = 1 + Depth(Half(h)) /\ Depth(Half(h)) \in Nat BY <2>2, <2>4, DepthIs
    <3> QED BY <2>2, <2>3, <3>1
  <2>6. h = 1 BY <2>2, <2>5
  <2> QED BY <2>6 DEF h
<1> QED BY <1>1, <1>2, <1>8, <1>9, <1>10 DEF D

\* The nodes of all levels are of one set.
LEMMA LevelsInSeq ==
    ASSUME NEW L, NEW leaves \in Seq(L), leaves # <<>>, NEW lv, LevelOf(lv, leaves, Nat)
    PROVE  \E X : \A k \in 0 .. Depth(Len(leaves)) : lv[k] \in Seq(X)
<1> DEFINE D == Depth(Len(leaves))
           V(k) == {lv[k][i] : i \in 1 .. Len(lv[k])}
           X == UNION {V(k) : k \in 0 .. D}
<1>0. Len(leaves) \in Nat \ {0} OBVIOUS
<1>1. /\ D \in Nat /\ lv[0] = leaves
      /\ \A k \in 0 .. D : Len(lv[k]) \in Nat \ {0}
      /\ \A k \in 0 .. D - 1 : lv[k + 1] = NextLevel(lv[k])
  BY <1>0, LevelFacts
<1> HIDE DEF D
<1>2. ASSUME NEW k \in 0 .. D PROVE \E F : lv[k] = [i \in 1 .. Len(lv[k]) |-> F[i]]
  <2>1. CASE k = 0
    <3>1. leaves = [i \in 1 .. Len(leaves) |-> leaves[i]] OBVIOUS
    <3> QED BY <1>1, <2>1, <3>1
  <2>2. CASE k # 0
    <3> DEFINE j == k - 1
    <3>1. j \in 0 .. D - 1 /\ j \in 0 .. D /\ j + 1 = k BY <1>1, <2>2
    <3>2. lv[k] = NextLevel(lv[j]) BY <1>1, <3>1
    <3>3. Len(lv[j]) \in Nat BY <1>1, <3>1
    <3> HIDE DEF j
    <3> DEFINE N(i) == <<lv[j][2 * i - 1], IF 2 * i <= Len(lv[j]) THEN lv[j][2 * i] ELSE lv[j][2 * i - 1]>>
    <3>4. NextLevel(lv[j]) = [i \in 1 .. Half(Len(lv[j])) |-> N(i)] BY DEF NextLevel
    <3>5. Len(lv[k]) = Half(Len(lv[j])) BY <3>2, <3>3, NextLevelIs
    <3> HIDE DEF N
    <3>6. lv[k] = [i \in 1 .. Len(lv[k]) |-> N(i)] BY <3>2, <3>4, <3>5
    <3> DEFINE F == [i \in 1 .. Len(lv[k]) |-> N(i)]
    <3>7. lv[k] = F BY <3>6
    <3>8. F = [i \in 1 .. Len(lv[k]) |-> F[i]] OBVIOUS
    <3> HIDE DEF F
    <3> QED BY <3>7, <3>8
  <2> QED BY <2>1, <2>2
<1>3. ASSUME NEW k \in 0 .. D PROVE lv[k] \in Seq(X)
  <2> DEFINE n == Len(lv[k])
  <2>1. n \in Nat BY <1>1
  <2>2. PICK F : lv[k] = [i \in 1 .. n |-> F[i]] BY <1>2
  <2>3. \A i \in 1 .. n : lv[k][i] \in V(k) OBVIOUS
  <2>4. V(k) \subseteq X OBVIOUS
  <2> HIDE DEF X, V, n
  <2>5. \A i \in 1 .. n : F[i] \in X
    <3>1. \A i \in 1 .. n : lv[k][i] = F[i] BY <2>2
    <3> QED BY <2>3, <2>4, <3>1
  <2> QED BY <2>1, <2>2, <2>5
<1> HIDE DEF X
<1> QED BY <1>3 DEF D

\* merkle_tree.bin as it is written is accepted when it is read: it has the
\* number of nodes, each the hash of the two below it, the leaves are those of
\* the chunks and the last node is the root (serialize_merkle_tree and
\* parse_and_validate_merkle_tree), for any number of leaves.
THEOREM TreeRoundTrip ==
    ASSUME NEW L, NEW leaves \in Seq(L), leaves # <<>>
    PROVE  LET file == serialize_merkle_tree(leaves) IN
           Accepts(file) /\ LeavesOf(file) = leaves /\ file.tail = merkle_root(leaves)
<1> DEFINE n == Len(leaves)
           D == Depth(n)
           s == Levels(leaves)
           nodes == FlattenSeq(s)
<1>1. n \in Nat \ {0} OBVIOUS
<1>2. PICK lv : LevelOf(lv, leaves, Nat) /\ s = [k \in 1 .. D + 1 |-> lv[k - 1]] BY LevelsAre
<1>3. /\ D \in Nat /\ lv[0] = leaves
      /\ \A k \in 0 .. D : Len(lv[k]) \in Nat \ {0}
      /\ \A k \in 0 .. D - 1 : Len(lv[k]) > 1 /\ Len(lv[k + 1]) = Half(Len(lv[k]))
      /\ Len(lv[D]) = 1
  BY <1>1, <1>2, LevelFacts
<1>4. PICK X : \A k \in 0 .. D : lv[k] \in Seq(X) BY <1>2, LevelsInSeq
<1> HIDE DEF s, D
<1>5. ASSUME NEW i \in 1 .. D + 1
      PROVE  s[i] = lv[i - 1] /\ s[i] \in Seq(X) /\ s[i] # <<>> /\ Len(s[i]) \in Nat \ {0}
  <2>1. i - 1 \in 0 .. D BY <1>3
  <2>2. s[i] = lv[i - 1] BY <1>2
  <2>3. lv[i - 1] \in Seq(X) /\ Len(lv[i - 1]) \in Nat \ {0} BY <1>3, <1>4, <2>1
  <2> QED BY <2>2, <2>3
<1>6. Len(s) = D + 1
  <2>1. s \in Seq(Seq(X)) BY <1>2, <1>3, <1>5
  <2> QED BY <1>2, <1>3, <2>1
<1>7. PICK f : Flattens(f, s, D + 1) /\ nodes = f[D + 1]
  <2>1. Len(s) \in Nat \ {0} BY <1>3, <1>6
  <2> QED BY <1>6, <2>1, FlattenIs
<1> HIDE DEF nodes
<1>8. /\ f[1] = s[1]
      /\ \A i \in 1 .. D + 1 :
            /\ f[i] \in Seq(X) /\ Len(f[i]) >= Len(s[1])
            /\ i + 1 <= D + 1 => Len(f[i + 1]) = Len(f[i]) + Len(s[i + 1])
            /\ \A j \in 1 .. Len(s[1]) : f[i][j] = s[1][j]
            /\ f[i][Len(f[i])] = s[i][Len(s[i])]
  <2> DEFINE m == D + 1
  <2>1. m \in Nat \ {0} BY <1>3
  <2>2. \A i \in 1 .. m : s[i] \in Seq(X) /\ s[i] # <<>> BY <1>5
  <2>3. Flattens(f, s, m) BY <1>7
  <2> HIDE DEF m
  <2>4. IsJoined(f, s, m, X) BY <2>1, <2>2, <2>3, Joined
  <2> QED BY <2>4 DEF m, IsJoined
<1>9. 1 \in 1 .. D + 1 /\ D + 1 \in 1 .. D + 1 /\ s[1] = leaves /\ s[D + 1] = lv[D]
  <2>1. 1 \in 1 .. D + 1 /\ D + 1 \in 1 .. D + 1 BY <1>3
  <2>2. (D + 1) - 1 = D /\ 1 - 1 = 0 BY <1>3
  <2> QED BY <1>3, <1>5, <2>1, <2>2
<1>10. nodes \in Seq(X) /\ Len(nodes) >= n /\ (\A j \in 1 .. n : nodes[j] = leaves[j]) /\ nodes[Len(nodes)] = lv[D][1]
  BY <1>3, <1>7, <1>8, <1>9
<1>11. SubSeq(nodes, 1, n) = leaves
  <2> DEFINE t == SubSeq(nodes, 1, n)
  <2>1. Len(nodes) \in Nat BY <1>10
  <2>2. t \in Seq(X) /\ Len(t) = n /\ \A j \in 1 .. n : t[j] = nodes[j] BY <1>1, <1>10, <2>1
  <2> HIDE DEF t
  <2>3. \A j \in 1 .. n : t[j] = leaves[j] BY <1>10, <2>2
  <2> QED BY <2>2, <2>3 DEF t
<1>12. Len(nodes) = Nodes(n)
  <2> DEFINE Left(h) == IF h > 1 THEN Nodes(Half(h)) ELSE 0
             P(i) == Len(f[i]) + Left(Len(lv[i - 1])) = Nodes(n)
             S == {i \in Nat : i \in 1 .. D + 1 => P(i)}
  <2>1. ASSUME NEW h \in Nat \ {0} PROVE Nodes(h) = h + Left(h) /\ Nodes(h) \in Nat /\ Left(h) \in Nat
    <3>1. h > 1 => Half(h) \in Nat BY HalfIs
    <3>2. h > 1 => Nodes(h) = h + Nodes(Half(h)) /\ Nodes(Half(h)) \in Nat BY <3>1, NodesIs
    <3>3. h <= 1 => Nodes(h) = 1 /\ h = 1 BY NodesIs
    <3> QED BY <3>2, <3>3
  <2>2. 0 \in S OBVIOUS
  <2>3. P(1)
    <3>1. f[1] = leaves /\ lv[1 - 1] = leaves BY <1>3, <1>8, <1>9
    <3>2. Nodes(n) = n + Left(n) BY <1>1, <2>1
    <3> HIDE DEF Left
    <3> QED BY <3>1, <3>2
  <2>4. ASSUME NEW i \in Nat, i \in 1 .. D, P(i) PROVE P(i + 1)
    <3> DEFINE h == Len(lv[i - 1])
               g == Len(lv[i])
    <3>1. /\ i \in 1 .. D + 1 /\ i + 1 \in 1 .. D + 1 /\ i - 1 \in 0 .. D - 1 /\ i \in 0 .. D
          /\ (i - 1) + 1 = i /\ (i + 1) - 1 = i
      BY <1>3, <2>4
    <3>2. h > 1 /\ g = Half(h) /\ g \in Nat \ {0} BY <1>3, <3>1
    <3>3. s[i + 1] = lv[i] BY <1>5, <3>1
    <3>4. Len(f[i + 1]) = Len(f[i]) + g
      <4>1. i + 1 <= D + 1 BY <1>3, <3>1
      <4>2. Len(f[i + 1]) = Len(f[i]) + Len(s[i + 1]) BY <1>8, <3>1, <4>1
      <4> QED BY <3>3, <4>2
    <3>5. Len(f[i]) \in Nat BY <1>8, <3>1
    <3>6. Len(f[i]) + Left(h) = Nodes(n) BY <2>4
    <3>7. Left(h) = Nodes(g) BY <3>2
    <3>8. Nodes(g) = g + Left(g) /\ Left(g) \in Nat BY <2>1, <3>2
    <3>9. Nodes(n) \in Nat BY <1>1, <2>1
    <3> HIDE DEF h, g, Left
    <3>10. Len(f[i + 1]) + Left(g) = Nodes(n)
      <4> DEFINE x == Len(f[i])  y == Len(f[i + 1])
      <4>1. y = x + g /\ x \in Nat /\ x + Nodes(g) = Nodes(n) BY <3>4, <3>5, <3>6, <3>7
      <4> HIDE DEF x, y
      <4>2. g \in Nat BY <3>2
      <4>3. y + Left(g) = Nodes(n) BY <3>8, <3>9, <4>1, <4>2
      <4> QED BY <4>3 DEF y
    <3> QED BY <3>1, <3>10 DEF g
  <2>5. ASSUME NEW i \in Nat, i \in S PROVE i + 1 \in S
    <3> HIDE DEF P
    <3> SUFFICES ASSUME i + 1 \in 1 .. D + 1 PROVE P(i + 1) OBVIOUS
    <3>1. CASE i = 0 BY <2>3, <3>1
    <3>2. CASE i # 0
      <4>1. i \in 1 .. D /\ i \in 1 .. D + 1 BY <1>3, <3>2
      <4>2. P(i) BY <2>5, <4>1
      <4> QED BY <2>4, <4>1, <4>2
    <3> QED BY <3>1, <3>2
  <2>6. \A i \in Nat : i \in S
    <3> HIDE DEF S
    <3> QED BY <2>2, <2>5, NatInd
  <2>7. P(D + 1)
    <3> HIDE DEF P
    <3>1. D + 1 \in Nat BY <1>3
    <3> QED BY <1>9, <2>6, <3>1
  <2>8. Left(Len(lv[D])) = 0 BY <1>3
  <2>9. (D + 1) - 1 = D BY <1>3
  <2>10. Len(f[D + 1]) \in Nat BY <1>8, <1>9
  <2> HIDE DEF Left
  <2> QED BY <1>7, <2>7, <2>8, <2>9, <2>10
<1>13. merkle_root(leaves) = lv[D][1]
  <2>1. Last(s) = s[D + 1] BY <1>6 DEF Last
  <2>2. merkle_root(leaves) = Last(s)[1] BY DEF merkle_root, s
  <2> QED BY <1>9, <2>1, <2>2
<1> DEFINE file == [leaf_count |-> n, nodes |-> nodes, tail |-> merkle_root(leaves)]
<1>14. serialize_merkle_tree(leaves) = file BY DEF serialize_merkle_tree, nodes, s
<1>15. file.leaf_count = n /\ file.nodes = nodes /\ file.tail = merkle_root(leaves) OBVIOUS
<1> HIDE DEF file, n
<1>16. LeavesOf(file) = leaves BY <1>11, <1>15 DEF LeavesOf
<1>17. Consistent(nodes, n) BY <1>11 DEF Consistent, nodes, s
<1>18. file.tail = Last(file.nodes) BY <1>10, <1>13, <1>15 DEF Last
<1>19. Accepts(file) BY <1>1, <1>12, <1>15, <1>17, <1>18 DEF Accepts
<1> QED BY <1>14, <1>15, <1>16, <1>19

\* Two levels of as many nodes that have the same level above them are equal:
\* a node above holds the two below it.
LEMMA NextLevelBinds ==
    ASSUME NEW X, NEW a \in Seq(X), NEW b \in Seq(X), Len(a) = Len(b), NextLevel(a) = NextLevel(b)
    PROVE  a = b
<1> DEFINE n == Len(a)
<1>1. n \in Nat /\ Len(a) = n /\ Len(b) = n OBVIOUS
<1>2. ASSUME NEW i \in 1 .. Half(n)
      PROVE  /\ a[2 * i - 1] = b[2 * i - 1]
             /\ 2 * i <= n => a[2 * i] = b[2 * i]
  <2> DEFINE va == <<a[2 * i - 1], IF 2 * i <= n THEN a[2 * i] ELSE a[2 * i - 1]>>
             vb == <<b[2 * i - 1], IF 2 * i <= n THEN b[2 * i] ELSE b[2 * i - 1]>>
  <2>1. NextLevel(a)[i] = va BY <1>1, NextLevelIs
  <2>2. NextLevel(b)[i] = vb BY <1>1, NextLevelIs
  <2>3. va = vb BY <2>1, <2>2
  <2>4. va[1] = vb[1] /\ va[2] = vb[2] BY <2>3
  <2> QED BY <2>4
<1> HIDE DEF n
<1>3. ASSUME NEW j \in 1 .. n PROVE a[j] = b[j]
  <2> DEFINE i == Half(j)
  <2>1. i \in 1 .. Half(n) /\ (2 * i = j \/ 2 * i - 1 = j) BY <1>1 DEF Half
  <2> HIDE DEF i
  <2>2. 2 * i = j => 2 * i <= n BY <1>1
  <2> QED BY <1>2, <2>1, <2>2
<1> QED BY <1>1, <1>3

\* The root of a tree binds its leaves: two trees over as many leaves that have
\* the same root have the same leaves in the same order.  (The number is needed,
\* and merkle_tree.bin has it: the last node of an odd level is paired with
\* itself, so that a leaf more may leave the root as it is.)
THEOREM RootBinds ==
    ASSUME NEW L, NEW a \in Seq(L), NEW b \in Seq(L), a # <<>>, Len(a) = Len(b),
           merkle_root(a) = merkle_root(b)
    PROVE  a = b
<1> DEFINE D == Depth(Len(a))
<1>0. Len(a) \in Nat \ {0} /\ Len(b) = Len(a) /\ b # <<>> OBVIOUS
<1>1. PICK la : LevelOf(la, a, Nat) /\ Levels(a) = [k \in 1 .. D + 1 |-> la[k - 1]] BY LevelsAre
<1>2. PICK lb : LevelOf(lb, b, Nat) /\ Levels(b) = [k \in 1 .. D + 1 |-> lb[k - 1]] BY <1>0, LevelsAre
<1>3. /\ D \in Nat /\ la[0] = a
      /\ \A k \in 0 .. D - 1 : la[k + 1] = NextLevel(la[k]) /\ Len(la[k + 1]) = Half(Len(la[k]))
      /\ Len(la[D]) = 1
  BY <1>0, <1>1, LevelFacts
<1>4. /\ lb[0] = b
      /\ \A k \in 0 .. D - 1 : lb[k + 1] = NextLevel(lb[k]) /\ Len(lb[k + 1]) = Half(Len(lb[k]))
      /\ Len(lb[D]) = 1
  BY <1>0, <1>2, LevelFacts
<1>5. PICK X : \A k \in 0 .. D : la[k] \in Seq(X) BY <1>1, LevelsInSeq
<1>6. PICK Y : \A k \in 0 .. D : lb[k] \in Seq(Y) BY <1>0, <1>2, LevelsInSeq
<1> DEFINE Z == X \cup Y
<1> HIDE DEF D
<1>7. \A k \in 0 .. D : la[k] \in Seq(Z) /\ lb[k] \in Seq(Z) BY <1>5, <1>6
<1> HIDE DEF Z
<1>8. \A k \in 0 .. D : Len(la[k]) = Len(lb[k])
  <2> DEFINE S == {k \in Nat : k <= D => Len(la[k]) = Len(lb[k])}
  <2>1. 0 \in S BY <1>0, <1>3, <1>4
  <2>2. ASSUME NEW k \in Nat, k \in S PROVE k + 1 \in S
    <3> SUFFICES ASSUME k + 1 <= D PROVE Len(la[k + 1]) = Len(lb[k + 1]) OBVIOUS
    <3>1. k \in 0 .. D - 1 /\ k <= D BY <1>3
    <3>2. Len(la[k]) = Len(lb[k]) BY <2>2, <3>1
    <3> QED BY <1>3, <1>4, <3>1, <3>2
  <2> HIDE DEF S
  <2>3. \A k \in Nat : k \in S BY <2>1, <2>2, NatInd
  <2> QED BY <1>3, <2>3 DEF S
<1>9. la[D] = lb[D]
  <2>1. merkle_root(a) = la[D][1] /\ merkle_root(b) = lb[D][1]
    <3>1. Last(Levels(a)) = la[D]
      <4>1. Len(Levels(a)) = D + 1 /\ (D + 1) - 1 = D /\ D + 1 \in 1 .. D + 1 BY <1>1, <1>3, <1>7
      <4> QED BY <1>1, <4>1 DEF Last
    <3>2. Last(Levels(b)) = lb[D]
      <4>1. Len(Levels(b)) = D + 1 /\ (D + 1) - 1 = D /\ D + 1 \in 1 .. D + 1 BY <1>2, <1>3, <1>7
      <4> QED BY <1>2, <4>1 DEF Last
    <3> QED BY <1>0, <3>1, <3>2 DEF merkle_root
  <2>2. D \in 0 .. D BY <1>3
  <2>3. la[D] \in Seq(Z) /\ lb[D] \in Seq(Z) BY <1>7, <2>2
  <2>4. la[D][1] = lb[D][1] BY <2>1
  <2> QED BY <1>3, <1>4, <2>3, <2>4
<1>10. la[0] = lb[0]
  <2> DEFINE S == {j \in Nat : j <= D => la[D - j] = lb[D - j]}
  <2>1. 0 \in S
    <3>1. D - 0 = D BY <1>3
    <3> QED BY <1>9, <3>1
  <2>2. ASSUME NEW j \in Nat, j \in S PROVE j + 1 \in S
    <3> DEFINE k == D - (j + 1)
    <3> SUFFICES ASSUME j + 1 <= D PROVE la[k] = lb[k] OBVIOUS
    <3>1. k \in 0 .. D - 1 /\ k \in 0 .. D /\ k + 1 = D - j /\ j <= D BY <1>3
    <3>2. la[D - j] = lb[D - j] BY <2>2, <3>1
    <3> HIDE DEF k
    <3>3. NextLevel(la[k]) = NextLevel(lb[k]) BY <1>3, <1>4, <3>1, <3>2
    <3>4. la[k] \in Seq(Z) /\ lb[k] \in Seq(Z) /\ Len(la[k]) = Len(lb[k]) BY <1>7, <1>8, <3>1
    <3> QED BY <3>3, <3>4, NextLevelBinds
  <2> HIDE DEF S
  <2>3. \A j \in Nat : j \in S BY <2>1, <2>2, NatInd
  <2>4. D \in S BY <1>3, <2>3
  <2>5. D - D = 0 /\ D <= D BY <1>3
  <2> QED BY <2>4, <2>5 DEF S
<1> QED BY <1>3, <1>4, <1>10

\* A merkle_tree.bin that is accepted, and has the number of leaves and the root
\* of a tree, is the file of that tree: whatever else was changed in it would
\* have been noticed (parse_and_validate_merkle_tree, and verify's comparison
\* with the root in the manifest).
THEOREM AcceptedTreeBinds ==
    ASSUME NEW L, NEW leaves \in Seq(L), leaves # <<>>,
           NEW file, file.nodes \in Seq(L), Accepts(file),
           file.leaf_count = Len(leaves), file.tail = merkle_root(leaves)
    PROVE  LeavesOf(file) = leaves /\ file.nodes = serialize_merkle_tree(leaves).nodes
<1> DEFINE n == Len(leaves)
           given == LeavesOf(file)
           again == serialize_merkle_tree(given)
<1>1. n \in Nat \ {0} OBVIOUS
<1>2. n <= Len(file.nodes) /\ Len(file.nodes) = Nodes(n)
  <2>1. Len(file.nodes) = Nodes(n) BY DEF Accepts
  <2>2. n <= 1 \/ (Nodes(n) = n + Nodes(Half(n)) /\ Half(n) \in Nat) BY <1>1, NodesIs, HalfIs
  <2>3. Half(n) \in Nat => Nodes(Half(n)) \in Nat BY NodesIs
  <2>4. n <= 1 => Nodes(n) = 1 BY <1>1, NodesIs
  <2> HIDE DEF n
  <2> QED BY <1>1, <2>1, <2>2, <2>3, <2>4
<1>3. given \in Seq(L) /\ Len(given) = n /\ given # <<>>
  <2>1. given = SubSeq(file.nodes, 1, n) BY DEF LeavesOf
  <2> HIDE DEF given, n
  <2>2. given \in Seq(L) /\ Len(given) = n BY <1>1, <1>2, <2>1
  <2> QED BY <1>1, <2>2
<1>4. Accepts(again) /\ again.tail = merkle_root(given) BY <1>3, TreeRoundTrip
<1>5. again.nodes = file.nodes
  <2>1. again.nodes = FlattenSeq(Levels(given)) BY DEF serialize_merkle_tree
  <2>2. file.nodes = FlattenSeq(Levels(SubSeq(file.nodes, 1, n))) BY DEF Accepts, Consistent
  <2>3. given = SubSeq(file.nodes, 1, n) BY DEF LeavesOf
  <2> HIDE DEF given, again, n
  <2> QED BY <2>1, <2>2, <2>3
<1>6. merkle_root(given) = merkle_root(leaves)
  <2>1. again.tail = Last(again.nodes) BY <1>4 DEF Accepts
  <2>2. file.tail = Last(file.nodes) BY DEF Accepts
  <2> HIDE DEF given, again
  <2> QED BY <1>4, <1>5, <2>1, <2>2
<1> HIDE DEF given, n
<1>7. given = leaves
  <2>1. Len(given) = Len(leaves) BY <1>3 DEF n
  <2> QED BY <1>3, <1>6, <2>1, RootBinds
<1>8. again.nodes = serialize_merkle_tree(leaves).nodes BY <1>7
<1> QED BY <1>5, <1>7, <1>8 DEF given

\* The nodes of a stored tree are of one set.
LEMMA NodesListed ==
    ASSUME NEW L, NEW leaves \in Seq(L), leaves # <<>>
    PROVE  \E X : serialize_merkle_tree(leaves).nodes \in Seq(X)
<1> DEFINE D == Depth(Len(leaves))
           s == Levels(leaves)
           nodes == FlattenSeq(s)
           m == D + 1
<1>0. Len(leaves) \in Nat \ {0} OBVIOUS
<1>1. PICK lv : LevelOf(lv, leaves, Nat) /\ s = [k \in 1 .. D + 1 |-> lv[k - 1]] BY LevelsAre
<1>2. D \in Nat /\ \A k \in 0 .. D : Len(lv[k]) \in Nat \ {0} BY <1>0, <1>1, LevelFacts
<1>3. PICK X : \A k \in 0 .. D : lv[k] \in Seq(X) BY <1>1, LevelsInSeq
<1> HIDE DEF s, D
<1>4. \A i \in 1 .. m : s[i] \in Seq(X) /\ s[i] # <<>>
  <2> SUFFICES ASSUME NEW i \in 1 .. m PROVE s[i] \in Seq(X) /\ s[i] # <<>> OBVIOUS
  <2>1. i - 1 \in 0 .. D BY <1>2
  <2>2. s[i] = lv[i - 1] BY <1>1
  <2>3. lv[i - 1] \in Seq(X) /\ Len(lv[i - 1]) \in Nat \ {0} BY <1>2, <1>3, <2>1
  <2> QED BY <2>2, <2>3
<1>5. m \in Nat \ {0} /\ Len(s) = m
  <2>1. s \in Seq(Seq(X)) BY <1>1, <1>2, <1>4
  <2> QED BY <1>1, <1>2, <2>1
<1> HIDE DEF m
<1>6. PICK f : Flattens(f, s, m) /\ nodes = f[m] BY <1>5, FlattenIs
<1>7. IsJoined(f, s, m, X) BY <1>4, <1>5, <1>6, Joined
<1>8. f[m] \in Seq(X)
  <2>1. m \in 1 .. m BY <1>5
  <2> QED BY <1>7, <2>1 DEF IsJoined
<1>9. serialize_merkle_tree(leaves).nodes = nodes BY DEF serialize_merkle_tree, s
<1> QED BY <1>6, <1>8, <1>9

\* A tree over more leaves has more nodes.
LEMMA NodesGrow == \A n \in Nat : \A c, m \in 1 .. n : c < m => Nodes(c) < Nodes(m)
<1> DEFINE S == {n \in Nat : \A c, m \in 1 .. n : c < m => Nodes(c) < Nodes(m)}
<1>1. 0 \in S OBVIOUS
<1>2. ASSUME NEW n \in Nat, n \in S PROVE n + 1 \in S
  <2> SUFFICES ASSUME NEW c \in 1 .. n + 1, NEW m \in 1 .. n + 1, c < m PROVE Nodes(c) < Nodes(m) OBVIOUS
  <2>1. CASE m \in 1 .. n
    <3>1. c \in 1 .. n BY <2>1
    <3> QED BY <1>2, <2>1, <3>1
  <2>2. CASE m \notin 1 .. n
    <3> DEFINE p == Half(c)
               q == Half(m)
    <3>1. m = n + 1 /\ m > 1 /\ c \in Nat /\ m \in Nat BY <2>2
    <3>2. q \in 1 .. n /\ p <= q /\ p \in Nat /\ (c > 1 => p \in 1 .. n) BY <3>1 DEF Half
    <3>3. Nodes(m) = m + Nodes(q) /\ Nodes(q) \in Nat BY <3>1, <3>2, NodesIs
    <3>4. CASE c = 1
      <4>1. Nodes(c) = 1 BY <3>4, NodesIs
      <4> HIDE DEF q
      <4> QED BY <3>1, <3>3, <4>1
    <3>5. CASE c # 1
      <4>1. Nodes(c) = c + Nodes(p) /\ Nodes(p) \in Nat BY <3>1, <3>2, <3>5, NodesIs
      <4> HIDE DEF p, q
      <4>2. p \in 1 .. n /\ (p = q \/ p < q) BY <3>1, <3>2, <3>5
      <4>3. Nodes(p) <= Nodes(q)
        <5>1. CASE p = q BY <3>3, <5>1
        <5>2. CASE p < q
          <6>1. Nodes(p) < Nodes(q) BY <1>2, <3>2, <4>2, <5>2
          <6> QED BY <3>3, <4>1, <6>1
        <5> QED BY <4>2, <5>1, <5>2
      <4> QED BY <3>1, <3>3, <4>1, <4>3
    <3> QED BY <3>4, <3>5
  <2> QED BY <2>1, <2>2
<1>3. \A n \in Nat : n \in S
  <2> HIDE DEF S
  <2> QED BY <1>1, <1>2, NatInd
<1> QED BY <1>3

\* A merkle_tree.bin is accepted exactly if it is that of the tree, also when
\* any of its nodes were changed, or its count and the root at its end
\* (parse_and_validate_merkle_tree): the nodes give the root and how many of
\* them are leaves, and the count and the root give the nodes.
THEOREM StoredTreeBinds ==
    ASSUME NEW L, NEW leaves \in Seq(L), leaves # <<>>,
           NEW count \in Nat, NEW nodes \in Seq(L), NEW tail,
           LET stored == serialize_merkle_tree(leaves) IN
               nodes = stored.nodes \/ (count = stored.leaf_count /\ tail = stored.tail)
    PROVE  LET file == [leaf_count |-> count, nodes |-> nodes, tail |-> tail] IN
               Accepts(file) <=> file = serialize_merkle_tree(leaves)
<1> DEFINE file == [leaf_count |-> count, nodes |-> nodes, tail |-> tail]
           stored == serialize_merkle_tree(leaves)
           n == Len(leaves)
<1>1. file.leaf_count = count /\ file.nodes = nodes /\ file.tail = tail OBVIOUS
<1>2. /\ stored = [leaf_count |-> n, nodes |-> stored.nodes, tail |-> merkle_root(leaves)]
      /\ stored.leaf_count = n /\ stored.tail = merkle_root(leaves)
  BY DEF serialize_merkle_tree
<1>3. Accepts(stored) BY TreeRoundTrip
<1>4. n \in Nat \ {0} OBVIOUS
<1>5. nodes = stored.nodes \/ (count = stored.leaf_count /\ tail = stored.tail) OBVIOUS
<1> HIDE DEF stored, file
<1>6. ASSUME Accepts(file), nodes = stored.nodes PROVE count = n /\ tail = stored.tail
  <2>1. Len(nodes) = Nodes(count) /\ count > 0 /\ tail = Last(nodes) BY <1>1, <1>6 DEF Accepts
  <2>2. Len(nodes) = Nodes(n) /\ stored.tail = Last(nodes) BY <1>2, <1>3, <1>6 DEF Accepts
  <2> HIDE DEF n
  <2>3. Nodes(count) \in Nat /\ Nodes(n) \in Nat BY <1>4, NodesIs
  <2>4. ~(count < n)
    <3> SUFFICES ASSUME count < n PROVE FALSE OBVIOUS
    <3>1. count \in 1 .. n /\ n \in 1 .. n BY <1>4, <2>1
    <3>2. Nodes(count) < Nodes(n) BY <1>4, <3>1, NodesGrow
    <3> QED BY <2>1, <2>2, <2>3, <3>2
  <2>5. ~(n < count)
    <3> SUFFICES ASSUME n < count PROVE FALSE OBVIOUS
    <3>1. count \in 1 .. count /\ n \in 1 .. count BY <1>4
    <3>2. Nodes(n) < Nodes(count) BY <3>1, NodesGrow
    <3> QED BY <2>1, <2>2, <2>3, <3>2
  <2> QED BY <1>4, <2>1, <2>2, <2>4, <2>5
<1>7. ASSUME Accepts(file), count = stored.leaf_count, tail = stored.tail PROVE nodes = stored.nodes
  <2>1. file.nodes \in Seq(L) /\ file.leaf_count = Len(leaves) /\ file.tail = merkle_root(leaves)
    BY <1>1, <1>2, <1>7
  <2>2. file.nodes = serialize_merkle_tree(leaves).nodes BY <1>7, <2>1, AcceptedTreeBinds
  <2> QED BY <1>1, <2>2 DEF stored
<1> HIDE DEF n
<1>8. ASSUME Accepts(file) PROVE file = stored
  <2>1. count = n /\ nodes = stored.nodes /\ tail = merkle_root(leaves) BY <1>2, <1>5, <1>6, <1>7, <1>8
  <2> QED BY <1>2, <2>1 DEF file
<1>9. ASSUME file = stored PROVE Accepts(file) BY <1>3, <1>9
<1> QED BY <1>8, <1>9 DEF file, stored

\* The hash that a proof leads to: verify_merkle_proof's loop over the siblings.
HashWith(acc, s) == IF s.position = "left" THEN <<s.hash, acc>> ELSE <<acc, s.hash>>

\* The hash that the siblings of a proof lead to.
HashUp(leaf, siblings) ==
    FoldLeft(LAMBDA acc, s : IF s.position = "left" THEN <<s.hash, acc>> ELSE <<acc, s.hash>>, leaf, siblings)

\* What the fold over the siblings is for each subset of them.
Folding(g, leaf, seq, m) ==
    g = [s \in SUBSET (1 .. m) |-> IF s = {} THEN leaf ELSE HashWith(g[s \ {Max(s)}], seq[Max(s)])]

\* A set of numbers up to m that has m has it as its greatest.
LEMMA MaxOfLast == ASSUME NEW m \in Nat, NEW s \in SUBSET (1 .. m), m \in s PROVE Max(s) = m
<1>1. \A y \in s : m >= y OBVIOUS
<1>2. \A x \in s : (\A y \in s : x >= y) => x = m OBVIOUS
<1> QED BY <1>1, <1>2 DEF Max

\* The fold exists: subsets with the last number are computed from the others.
LEMMA FoldingExists == ASSUME NEW leaf, NEW seq PROVE \A m \in Nat : \E g : Folding(g, leaf, seq, m)
<1> DEFINE S == {m \in Nat : \E g : Folding(g, leaf, seq, m)}
<1>1. 0 \in S
  <2> DEFINE g == [s \in SUBSET (1 .. 0) |-> leaf]
  <2>1. SUBSET (1 .. 0) = {{}} OBVIOUS
  <2>2. Folding(g, leaf, seq, 0) BY <2>1 DEF Folding
  <2> QED BY <2>2
<1>2. ASSUME NEW m \in Nat, m \in S PROVE m + 1 \in S
  <2>1. PICK f : Folding(f, leaf, seq, m) BY <1>2
  <2> DEFINE n == m + 1
             g == [s \in SUBSET (1 .. n) |-> IF n \in s THEN HashWith(f[s \ {n}], seq[n]) ELSE f[s]]
  <2>2. n \in Nat /\ n \notin 1 .. m /\ 1 .. n = (1 .. m) \cup {n} OBVIOUS
  <2>3. \A s \in SUBSET (1 .. m) : f[s] = IF s = {} THEN leaf ELSE HashWith(f[s \ {Max(s)}], seq[Max(s)])
    BY <2>1 DEF Folding
  <2> HIDE DEF n
  <2>4. ASSUME NEW s \in SUBSET (1 .. n)
        PROVE  g[s] = IF s = {} THEN leaf ELSE HashWith(g[s \ {Max(s)}], seq[Max(s)])
    <3>1. CASE n \in s
      <4>1. Max(s) = n BY <2>2, <3>1, MaxOfLast
      <4>2. g[s] = HashWith(f[s \ {n}], seq[n]) BY <3>1
      <4>3. s \ {n} \in SUBSET (1 .. n) /\ n \notin s \ {n} OBVIOUS
      <4>4. g[s \ {n}] = f[s \ {n}] BY <4>3
      <4>5. s # {} BY <3>1
      <4> HIDE DEF g
      <4> QED BY <4>1, <4>2, <4>4, <4>5
    <3>2. CASE n \notin s
      <4>1. s \in SUBSET (1 .. m) BY <2>2, <3>2
      <4>2. g[s] = f[s] BY <3>2
      <4>3. s \ {Max(s)} \in SUBSET (1 .. n) /\ n \notin s \ {Max(s)} BY <3>2
      <4>4. g[s \ {Max(s)}] = f[s \ {Max(s)}] BY <4>3
      <4> HIDE DEF g
      <4> QED BY <2>3, <4>1, <4>2, <4>4
    <3> QED BY <3>1, <3>2
  <2>5. g = [s \in SUBSET (1 .. n) |-> g[s]] OBVIOUS
  <2> HIDE DEF g
  <2>6. Folding(g, leaf, seq, n) BY <2>4, <2>5 DEF Folding
  <2> QED BY <2>6 DEF n
<1>3. \A m \in Nat : m \in S
  <2> HIDE DEF S
  <2> QED BY <1>1, <1>2, NatInd
<1> QED BY <1>3

\* The loop of the verification is such a fold.
LEMMA HashUpIs ==
    ASSUME NEW leaf, NEW seq, NEW m \in Nat, DOMAIN seq = 1 .. m
    PROVE  \E g : Folding(g, leaf, seq, m) /\ HashUp(leaf, seq) = g[1 .. m]
<1> DEFINE g == CHOOSE g : Folding(g, leaf, seq, m)
<1>1. \E h : Folding(h, leaf, seq, m) BY FoldingExists
<1>2. Folding(g, leaf, seq, m) BY <1>1
<1>3. HashUp(leaf, seq) = g[1 .. m] BY DEF HashUp, FoldLeft, MapThenFoldSet, Folding, HashWith
<1> HIDE DEF g
<1> QED BY <1>2, <1>3

\* The siblings of a proof are those of the nodes on the way up.
LEMMA SiblingsAre ==
    ASSUME NEW leaves, NEW sequence
    PROVE  \E idx : /\ IndexAt(idx, sequence, Nat)
                    /\ generate_merkle_proof(leaves, sequence) =
                         [leaf_sequence |-> sequence, leaf_hash |-> leaves[sequence + 1],
                          siblings |-> [k \in 1 .. Len(Levels(leaves)) - 1 |-> Sibling(Levels(leaves)[k], idx[k])],
                          root |-> Last(Levels(leaves))[1]]
<1> DEFINE idx == CHOOSE f : f = [k \in Nat |-> IF k <= 1 THEN sequence ELSE f[k - 1] \div 2]
<1>1. \E f : IndexAt(f, sequence, Nat) BY IndexAtExists
<1>2. IndexAt(idx, sequence, Nat) BY <1>1 DEF IndexAt
<1>3. generate_merkle_proof(leaves, sequence) =
                         [leaf_sequence |-> sequence, leaf_hash |-> leaves[sequence + 1],
                          siblings |-> [k \in 1 .. Len(Levels(leaves)) - 1 |-> Sibling(Levels(leaves)[k], idx[k])],
                          root |-> Last(Levels(leaves))[1]]
  BY DEF generate_merkle_proof
<1> HIDE DEF idx
<1> QED BY <1>2, <1>3

\* A node hashed with its sibling is the node above the two.
LEMMA ParentOf ==
    ASSUME NEW nodes, Len(nodes) \in Nat, NEW i \in 0 .. Len(nodes) - 1
    PROVE  /\ i \div 2 \in 0 .. Half(Len(nodes)) - 1
           /\ HashWith(nodes[i + 1], Sibling(nodes, i)) = NextLevel(nodes)[i \div 2 + 1]
<1> DEFINE n == Len(nodes)
           j == i \div 2 + 1
<1>1. n \in Nat /\ i \in Nat /\ i < n OBVIOUS
<1>2. j \in 1 .. Half(n) /\ i \div 2 \in 0 .. Half(n) - 1 BY <1>1 DEF Half
<1>3. NextLevel(nodes)[j] = <<nodes[2 * j - 1], IF 2 * j <= n THEN nodes[2 * j] ELSE nodes[2 * j - 1]>>
  BY <1>1, <1>2, NextLevelIs
<1>4. CASE i % 2 = 0
  <2>1. 2 * j - 1 = i + 1 /\ 2 * j = i + 2 BY <1>1, <1>4
  <2>2. Sibling(nodes, i) = [position |-> "right", hash |-> IF i + 1 < n THEN nodes[i + 2] ELSE nodes[i + 1]]
    BY <1>4 DEF Sibling
  <2>3. (i + 1 < n) = (i + 2 <= n) BY <1>1
  <2> HIDE DEF n, j
  <2>4. HashWith(nodes[i + 1], Sibling(nodes, i)) = <<nodes[i + 1], IF i + 2 <= n THEN nodes[i + 2] ELSE nodes[i + 1]>>
    BY <2>2, <2>3 DEF HashWith
  <2>5. NextLevel(nodes)[j] = <<nodes[i + 1], IF i + 2 <= n THEN nodes[i + 2] ELSE nodes[i + 1]>>
    BY <1>3, <2>1
  <2> QED BY <1>2, <2>4, <2>5 DEF j, n
<1>5. CASE i % 2 # 0
  <2>1. 2 * j - 1 = i /\ 2 * j = i + 1 /\ i + 1 <= n BY <1>1, <1>5
  <2>2. Sibling(nodes, i) = [position |-> "left", hash |-> nodes[i]] BY <1>5 DEF Sibling
  <2> HIDE DEF n, j
  <2>3. HashWith(nodes[i + 1], Sibling(nodes, i)) = <<nodes[i], nodes[i + 1]>> BY <2>2 DEF HashWith
  <2>4. NextLevel(nodes)[j] = <<nodes[i], nodes[i + 1]>> BY <1>3, <2>1
  <2> QED BY <1>2, <2>3, <2>4 DEF j, n
<1> QED BY <1>4, <1>5

\* The proof that offf-convert and offf-verify generate for a chunk leads from
\* its hash to the root of the tree, whatever the number of chunks and
\* wherever the chunk is (generate_merkle_proof, verify_merkle_proof).
THEOREM ProofsVerify ==
    ASSUME NEW L, NEW leaves \in Seq(L), NEW sequence \in 0 .. Len(leaves) - 1
    PROVE  verify_merkle_proof(leaves[sequence + 1], sequence, generate_merkle_proof(leaves, sequence),
                               merkle_root(leaves))
<1> DEFINE n == Len(leaves)
           D == Depth(n)
           s == Levels(leaves)
           leaf == leaves[sequence + 1]
<1>1. n \in Nat \ {0} /\ leaves # <<>> /\ sequence \in Nat /\ sequence < n OBVIOUS
<1>2. PICK lv : LevelOf(lv, leaves, Nat) /\ s = [k \in 1 .. D + 1 |-> lv[k - 1]] BY LevelsAre
<1>3. /\ D \in Nat /\ lv[0] = leaves
      /\ \A k \in 0 .. D : Len(lv[k]) \in Nat \ {0}
      /\ \A k \in 0 .. D - 1 : lv[k + 1] = NextLevel(lv[k]) /\ Len(lv[k + 1]) = Half(Len(lv[k]))
      /\ Len(lv[D]) = 1
  BY <1>1, <1>2, LevelFacts
<1>4. PICK idx : /\ IndexAt(idx, sequence, Nat)
                 /\ generate_merkle_proof(leaves, sequence) =
                      [leaf_sequence |-> sequence, leaf_hash |-> leaf,
                       siblings |-> [k \in 1 .. Len(s) - 1 |-> Sibling(s[k], idx[k])],
                       root |-> Last(s)[1]]
  BY SiblingsAre
<1> HIDE DEF s, D
<1>5. Len(s) = D + 1 /\ \A i \in 1 .. D + 1 : s[i] = lv[i - 1]
  <2> DEFINE V == {lv[i - 1] : i \in 1 .. D + 1}
  <2>1. \A i \in 1 .. D + 1 : lv[i - 1] \in V OBVIOUS
  <2> HIDE DEF V
  <2>2. s \in Seq(V) BY <1>2, <1>3, <2>1
  <2> QED BY <1>2, <1>3, <2>2
<1> DEFINE up == [k \in 1 .. D |-> Sibling(s[k], idx[k])]
<1>6. [k \in 1 .. Len(s) - 1 |-> Sibling(s[k], idx[k])] = up BY <1>3, <1>5
<1>7. DOMAIN up = 1 .. D /\ \A k \in 1 .. D : up[k] = Sibling(lv[k - 1], idx[k])
  <2>1. ASSUME NEW k \in 1 .. D PROVE s[k] = lv[k - 1]
    <3>1. k \in 1 .. D + 1 BY <1>3
    <3> QED BY <1>5, <3>1
  <2> QED BY <2>1
<1> HIDE DEF up
<1>8. PICK g : Folding(g, leaf, up, D) /\ HashUp(leaf, up) = g[1 .. D]
  <2>1. D \in Nat /\ DOMAIN up = 1 .. D BY <1>3, <1>7
  <2> HIDE DEF leaf
  <2> QED BY <2>1, HashUpIs
<1>9. idx[1] = sequence /\ \A k \in Nat : k # 0 => idx[k + 1] = idx[k] \div 2
  <2> DEFINE H(x) == x \div 2
  <2>1. \A k \in Nat : idx[k] = IF k <= 1 THEN sequence ELSE H(idx[k - 1]) BY <1>4 DEF IndexAt
  <2> HIDE DEF H
  <2>2. ASSUME NEW k \in Nat, k # 0 PROVE idx[k + 1] = H(idx[k])
    <3>1. k + 1 \in Nat /\ ~(k + 1 <= 1) /\ (k + 1) - 1 = k BY <2>2
    <3> QED BY <2>1, <3>1
  <2>3. idx[1] = sequence BY <2>1
  <2> QED BY <2>2, <2>3 DEF H
<1>10. /\ g[{}] = leaf
       /\ \A k \in Nat : k + 1 <= D => g[1 .. k + 1] = HashWith(g[1 .. k], up[k + 1])
  <2>1. \A t \in SUBSET (1 .. D) : g[t] = IF t = {} THEN leaf ELSE HashWith(g[t \ {Max(t)}], up[Max(t)])
    BY <1>8 DEF Folding
  <2>2. g[{}] = leaf BY <2>1
  <2>3. ASSUME NEW k \in Nat, k + 1 <= D PROVE g[1 .. k + 1] = HashWith(g[1 .. k], up[k + 1])
    <3> DEFINE t == 1 .. k + 1
    <3>1. t \in SUBSET (1 .. D) /\ t # {}
      <4>1. k + 1 \in t OBVIOUS
      <4>2. \A x \in t : x \in 1 .. D BY <1>3, <2>3
      <4> HIDE DEF t
      <4> QED BY <4>1, <4>2
    <3>2. Max(t) = k + 1
      <4>1. k + 1 \in Nat /\ t \in SUBSET (1 .. k + 1) /\ k + 1 \in t OBVIOUS
      <4> HIDE DEF t
      <4> QED BY <4>1, MaxOfLast
    <3>3. t \ {k + 1} = 1 .. k OBVIOUS
    <3> HIDE DEF t
    <3>4. g[t] = HashWith(g[1 .. k], up[k + 1]) BY <2>1, <3>1, <3>2, <3>3
    <3> QED BY <3>4 DEF t
  <2> QED BY <2>2, <2>3
<1> DEFINE P(k) == idx[k + 1] \in 0 .. Len(lv[k]) - 1 /\ g[1 .. k] = lv[k][idx[k + 1] + 1]
           S == {k \in Nat : k <= D => P(k)}
<1>11. 0 \in S
  <2>1. 1 .. 0 = {} /\ 0 + 1 = 1 OBVIOUS
  <2>2. P(0) BY <1>1, <1>3, <1>9, <1>10, <2>1
  <2> HIDE DEF P
  <2> QED BY <2>2
<1>12. ASSUME NEW k \in Nat, k + 1 <= D, P(k) PROVE P(k + 1)
  <2> DEFINE nodes == lv[k]
             i == idx[k + 1]
  <2>1. k \in 0 .. D - 1 /\ k \in 0 .. D BY <1>3, <1>12
  <2>2. Len(nodes) \in Nat /\ lv[k + 1] = NextLevel(nodes) /\ Len(lv[k + 1]) = Half(Len(nodes)) BY <1>3, <2>1
  <2>3. i \in 0 .. Len(nodes) - 1 /\ g[1 .. k] = nodes[i + 1] BY <1>12
  <2>4. idx[(k + 1) + 1] = i \div 2 BY <1>9
  <2>5. up[k + 1] = Sibling(nodes, i)
    <3>1. k + 1 \in 1 .. D /\ (k + 1) - 1 = k BY <1>12
    <3> QED BY <1>7, <3>1
  <2>6. g[1 .. k + 1] = HashWith(g[1 .. k], up[k + 1]) BY <1>10, <1>12
  <2> HIDE DEF nodes, i
  <2>7. /\ i \div 2 \in 0 .. Half(Len(nodes)) - 1
        /\ HashWith(nodes[i + 1], Sibling(nodes, i)) = NextLevel(nodes)[i \div 2 + 1]
    BY <2>2, <2>3, ParentOf
  <2>8. g[1 .. k + 1] = lv[k + 1][i \div 2 + 1] BY <2>2, <2>3, <2>5, <2>6, <2>7
  <2> QED BY <2>2, <2>4, <2>7, <2>8
<1>13. ASSUME NEW k \in Nat, k \in S PROVE k + 1 \in S
  <2> HIDE DEF P
  <2> SUFFICES ASSUME k + 1 <= D PROVE P(k + 1) OBVIOUS
  <2>1. k <= D BY <1>3
  <2>2. P(k) BY <1>13, <2>1
  <2> QED BY <1>12, <2>2
<1>14. \A k \in Nat : k \in S
  <2> HIDE DEF S
  <2> QED BY <1>11, <1>13, NatInd
<1>15. P(D)
  <2> HIDE DEF P
  <2> QED BY <1>3, <1>14
<1>16. g[1 .. D] = lv[D][1]
  <2>1. idx[D + 1] = 0 BY <1>3, <1>15
  <2>2. idx[D + 1] + 1 = 1 BY <2>1
  <2> QED BY <1>15, <2>2
<1>17. Last(s)[1] = lv[D][1] /\ merkle_root(leaves) = lv[D][1]
  <2>1. D + 1 \in 1 .. D + 1 /\ (D + 1) - 1 = D BY <1>3
  <2>2. Last(s) = lv[D] BY <1>5, <2>1 DEF Last
  <2>3. merkle_root(leaves) = Last(s)[1] BY <1>1 DEF merkle_root, s
  <2> QED BY <2>2, <2>3
<1> DEFINE proof == generate_merkle_proof(leaves, sequence)
<1>18. /\ proof.leaf_sequence = sequence /\ proof.leaf_hash = leaf
       /\ proof.siblings = up /\ proof.root = lv[D][1]
  BY <1>4, <1>6, <1>17
<1> HIDE DEF proof, leaf
<1>19. verify_merkle_proof(leaf, sequence, proof, merkle_root(leaves))
          = /\ proof.leaf_sequence = sequence
            /\ proof.leaf_hash = leaf
            /\ merkle_root(leaves) = HashUp(leaf, proof.siblings)
            /\ proof.root = merkle_root(leaves)
  BY DEF verify_merkle_proof, HashUp
<1>20. verify_merkle_proof(leaf, sequence, proof, merkle_root(leaves)) BY <1>8, <1>16, <1>17, <1>18, <1>19
<1> QED BY <1>20 DEF leaf, proof

-----------------------------------------------------------------------------
(* Types.                                                                  *)

\* What a converter or collector can be doing.
ToolSteps ==
    {"idle", "mkdir", "chunks", "tree", "map", "leaves", "acquisition", "provenance", "manifest", "hmac",
     "check", "publish", "clear", "open", "store", "log", "edges", "complete", "done", "failed", "crashed"}

\* Type correctness.
Types ==
    /\ run \in [Tools -> ToolSteps]
    /\ damage \in Nat
    /\ DOMAIN out = Outputs
    /\ comp \in {"none", "zstd"} /\ key \in BOOLEAN
    /\ image \in [Converters -> Images \cup {<<>>}]
    /\ DOMAIN rows = Converters /\ DOMAIN tmp = Converters
    /\ files \in [Collectors -> FileTrees \cup {<<>>}]
    /\ target \in [Collectors -> Outputs \cup {None}]
    /\ DOMAIN listed = Collectors
    /\ met \subseteq Collectors

\* A step of one tool leaves the others where they are.
LEMMA StepOfOne ==
    ASSUME run \in [Tools -> ToolSteps], NEW p \in Tools, NEW from, NEW to \in ToolSteps, Step(p, from, to)
    PROVE  /\ run[p] = from /\ run'[p] = to
           /\ run' \in [Tools -> ToolSteps]
           /\ \A q \in Tools \ {p} : run'[q] = run[q]
BY DEF Step

\* Type correctness of the initial states.
LEMMA TypesInit == Init => Types
<1> SUFFICES ASSUME Init PROVE Types OBVIOUS
<1>1. run \in [Tools -> ToolSteps] /\ damage \in Nat /\ DOMAIN out = Outputs
  BY DEF Init, InitPublication, ToolSteps
<1>2. comp \in {"none", "zstd"} /\ key \in BOOLEAN
  BY ConversionAssumption DEF Init, InitConversion
<1>3. /\ image \in [Converters -> Images \cup {<<>>}]
      /\ DOMAIN rows = Converters /\ DOMAIN tmp = Converters
  BY DEF Init, InitConversion
<1>4. /\ files \in [Collectors -> FileTrees \cup {<<>>}]
      /\ target \in [Collectors -> Outputs \cup {None}]
      /\ DOMAIN listed = Collectors /\ met \subseteq Collectors
  BY DEF Init, InitCollection
<1> QED BY <1>1, <1>2, <1>3, <1>4 DEF Types

\* The final rename keeps the types.
LEMMA RenameTypes ==
    ASSUME Types, NEW p \in Tools, NEW o, NEW dir, Rename(p, o, dir)
    PROVE  run' \in [Tools -> ToolSteps] /\ DOMAIN out' = Outputs
BY StepOfOne DEF Types, Rename, ToolSteps

\* So does the start of a tool.
LEMMA BeginTypes ==
    ASSUME Types, NEW p \in Tools, NEW o, NEW to \in ToolSteps, Begin(p, o, to)
    PROVE  run' \in [Tools -> ToolSteps]
<1>1. (IF out[o] # Absent THEN "failed" ELSE to) \in ToolSteps BY DEF ToolSteps
<1> QED BY <1>1, StepOfOne DEF Types, Begin

\* The files of a container without its chunks.
FilesList == {"tree", "map", "leaves", "acquisition", "provenance", "manifest", "hmac"}

\* They are the steps of a converter after the chunks, in this order.
LEMMA FilesAre ==
    /\ DOMAIN Files = 1 .. 7 /\ Len(Files) = 7
    /\ Files[1] = "tree" /\ Files[2] = "map" /\ Files[3] = "leaves" /\ Files[4] = "acquisition"
    /\ Files[5] = "provenance" /\ Files[6] = "manifest" /\ Files[7] = "hmac"
    /\ Range(Files) = FilesList
<1>1. /\ DOMAIN Files = 1 .. 7 /\ Len(Files) = 7
      /\ Files[1] = "tree" /\ Files[2] = "map" /\ Files[3] = "leaves" /\ Files[4] = "acquisition"
      /\ Files[5] = "provenance" /\ Files[6] = "manifest" /\ Files[7] = "hmac"
  BY DEF Files
<1>2. \A n \in 1 .. 7 : n \in {1, 2, 3, 4, 5, 6, 7} OBVIOUS
<1>3. Range(Files) \subseteq FilesList BY <1>1, <1>2 DEF Range, FilesList
<1>4. FilesList \subseteq Range(Files)
  <2> SUFFICES ASSUME NEW f \in FilesList PROVE \E n \in 1 .. 7 : Files[n] = f BY <1>1 DEF Range
  <2> QED BY <1>1 DEF FilesList
<1> QED BY <1>1, <1>3, <1>4

\* Each step of a converter keeps the types.
LEMMA ConvertTypes ==
    ASSUME Types, NEW p \in Converters, Convert(p), UNCHANGED collectVars
    PROVE  Types'
<1> USE DEF Types
<1>0. p \in Tools BY DEF Tools
<1>a. /\ files' \in [Collectors -> FileTrees \cup {<<>>}]
      /\ target' \in [Collectors -> Outputs \cup {None}]
      /\ DOMAIN listed' = Collectors /\ met' \subseteq Collectors
  BY DEF collectVars
<1>1. CASE Start(p)
  <2>1. run' \in [Tools -> ToolSteps] BY <1>0, <1>1, BeginTypes DEF Start, ToolSteps
  <2> QED BY <1>a, <1>1, <2>1 DEF Start
<1>2. CASE MakeTmp(p)
  <2>1. run' \in [Tools -> ToolSteps] BY <1>0, <1>2, StepOfOne DEF MakeTmp, ToolSteps
  <2> QED BY <1>a, <1>2, <2>1 DEF MakeTmp
<1>3. CASE BadArgument(p)
  <2>1. run' \in [Tools -> ToolSteps] BY <1>0, <1>3, StepOfOne DEF BadArgument, ToolSteps
  <2> QED BY <1>a, <1>3, <2>1 DEF BadArgument, convertVars
<1>4. CASE WriteChunk(p)
  <2>1. run' \in [Tools -> ToolSteps] BY <1>0, <1>4, StepOfOne DEF WriteChunk, ToolSteps
  <2> QED BY <1>a, <1>4, <2>1 DEF WriteChunk
<1>5. CASE EndOfImage(p)
  <2>1. (IF rows[p] = <<>> THEN "failed" ELSE "tree") \in ToolSteps BY DEF ToolSteps
  <2>2. run' \in [Tools -> ToolSteps] BY <1>0, <1>5, <2>1, StepOfOne DEF EndOfImage
  <2> QED BY <1>a, <1>5, <2>2 DEF EndOfImage
<1>6. CASE WriteFile(p)
  <2>1. PICK n \in DOMAIN Files :
          /\ Step(p, Files[n], IF n < Len(Files) THEN Files[n + 1] ELSE "check")
          /\ tmp' = [tmp EXCEPT ![p][Files[n]] = FileContent(Files[n], p)]
          /\ UNCHANGED <<image, comp, key, rows, out, damage>>
    BY <1>6 DEF WriteFile
  <2>2. (IF n < Len(Files) THEN Files[n + 1] ELSE "check") \in ToolSteps
    BY FilesAre DEF ToolSteps
  <2>3. run' \in [Tools -> ToolSteps] BY <1>0, <2>1, <2>2, StepOfOne
  <2> QED BY <1>a, <2>1, <2>3
<1>7. CASE SelfCheck(p)
  <2>1. run' \in [Tools -> ToolSteps] BY <1>0, <1>7, StepOfOne DEF SelfCheck, ToolSteps
  <2> QED BY <1>a, <1>7, <2>1 DEF SelfCheck, convertVars
<1>8. CASE Publish(p)
  <2>1. run' \in [Tools -> ToolSteps] /\ DOMAIN out' = Outputs BY <1>0, <1>8, RenameTypes DEF Publish
  <2> QED BY <1>a, <1>8, <2>1 DEF Publish
<1>9. CASE Fail(p)
  <2>1. run' \in [Tools -> ToolSteps] BY <1>0, <1>9, StepOfOne DEF Fail, ToolSteps
  <2> QED BY <1>a, <1>9, <2>1 DEF Fail
<1>10. CASE Crash(p)
  <2>1. run' \in [Tools -> ToolSteps] BY <1>0, <1>10, StepOfOne DEF Crash, ToolSteps
  <2> QED BY <1>a, <1>10, <2>1 DEF Crash, convertVars
<1> QED BY <1>1, <1>2, <1>3, <1>4, <1>5, <1>6, <1>7, <1>8, <1>9, <1>10 DEF Convert

\* Each step of a collector keeps the types.
LEMMA CollectTypes ==
    ASSUME Types, NEW p \in Collectors, Collect(p), UNCHANGED convertVars
    PROVE  Types'
<1> USE DEF Types
<1>0. p \in Tools BY DEF Tools
<1>a. /\ comp' \in {"none", "zstd"} /\ key' \in BOOLEAN
      /\ image' \in [Converters -> Images \cup {<<>>}]
      /\ DOMAIN rows' = Converters /\ DOMAIN tmp' = Converters
  BY DEF convertVars
<1>1. CASE BeginCollection(p)
  <2>1. run' \in [Tools -> ToolSteps] BY <1>0, <1>1, BeginTypes DEF BeginCollection, ToolSteps
  <2>2. damage' = damage BY <1>1 DEF BeginCollection
  <2>3. met' \subseteq Collectors BY <1>1 DEF BeginCollection, Running
  <2> QED BY <1>a, <1>1, <2>1, <2>2, <2>3 DEF BeginCollection
<1>2. CASE Clear(p)
  <2>1. run' \in [Tools -> ToolSteps] BY <1>0, <1>2, StepOfOne DEF Clear, ToolSteps
  <2> QED BY <1>a, <1>2, <2>1 DEF Clear
<1>3. CASE MakeShared(p)
  <2>1. run' \in [Tools -> ToolSteps] BY <1>0, <1>3, StepOfOne DEF MakeShared, ToolSteps
  <2> QED BY <1>a, <1>3, <2>1 DEF MakeShared
<1>4. CASE OpenLog(p)
  <2>1. run' \in [Tools -> ToolSteps] BY <1>0, <1>4, StepOfOne DEF OpenLog, ToolSteps
  <2> QED BY <1>a, <1>4, <2>1 DEF OpenLog
<1>5. CASE Store(p)
  <2>1. run' \in [Tools -> ToolSteps] BY <1>0, <1>5, StepOfOne DEF Store, ToolSteps
  <2> QED BY <1>a, <1>5, <2>1 DEF Store
<1>6. CASE LogFile(p)
  <2>1. run' \in [Tools -> ToolSteps] BY <1>0, <1>6, StepOfOne DEF LogFile, Log, ToolSteps
  <2> QED BY <1>a, <1>6, <2>1 DEF LogFile, Log
<1>7. CASE WriteIndex(p)
  <2>1. run' \in [Tools -> ToolSteps] BY <1>0, <1>7, StepOfOne DEF WriteIndex, ToolSteps
  <2> QED BY <1>a, <1>7, <2>1 DEF WriteIndex
<1>8. CASE WriteEdges(p)
  <2>1. run' \in [Tools -> ToolSteps] BY <1>0, <1>8, StepOfOne DEF WriteEdges, ToolSteps
  <2> QED BY <1>a, <1>8, <2>1 DEF WriteEdges
<1>9. CASE WriteAcquisition(p)
  <2>1. run' \in [Tools -> ToolSteps] BY <1>0, <1>9, StepOfOne DEF WriteAcquisition, ToolSteps
  <2> QED BY <1>a, <1>9, <2>1 DEF WriteAcquisition
<1>10. CASE WriteManifest(p)
  <2>1. run' \in [Tools -> ToolSteps] BY <1>0, <1>10, StepOfOne DEF WriteManifest, ToolSteps
  <2> QED BY <1>a, <1>10, <2>1 DEF WriteManifest
<1>11. CASE Complete(p)
  <2>1. run' \in [Tools -> ToolSteps] BY <1>0, <1>11, StepOfOne DEF Complete, Log, ToolSteps
  <2> QED BY <1>a, <1>11, <2>1 DEF Complete, Log
<1>12. CASE PublishCollection(p)
  <2>1. run' \in [Tools -> ToolSteps] /\ DOMAIN out' = Outputs
    BY <1>0, <1>12, RenameTypes DEF PublishCollection
  <2> QED BY <1>a, <1>12, <2>1 DEF PublishCollection
<1>13. CASE FailCollection(p)
  <2>1. run' \in [Tools -> ToolSteps] BY <1>0, <1>13, StepOfOne DEF FailCollection, ToolSteps
  <2> QED BY <1>a, <1>13, <2>1 DEF FailCollection
<1>14. CASE CrashCollection(p)
  <2>1. run' \in [Tools -> ToolSteps] BY <1>0, <1>14, StepOfOne DEF CrashCollection, ToolSteps
  <2> QED BY <1>a, <1>14, <2>1 DEF CrashCollection, collectVars
<1> QED BY <1>1, <1>2, <1>3, <1>4, <1>5, <1>6, <1>7, <1>8, <1>9, <1>10, <1>11, <1>12, <1>13, <1>14 DEF Collect

\* So does each step.
LEMMA TypesNext == Types /\ [Next]_vars => Types'
<1> SUFFICES ASSUME Types, [Next]_vars PROVE Types' OBVIOUS
<1>1. CASE UNCHANGED vars
  BY <1>1 DEF Types, vars, convertVars, collectVars
<1>2. CASE \E p \in Converters : Convert(p) /\ UNCHANGED collectVars
  BY <1>2, ConvertTypes
<1>3. CASE \E p \in Collectors : Collect(p) /\ UNCHANGED convertVars
  BY <1>3, CollectTypes
<1>4. CASE DamageImage /\ UNCHANGED collectVars
  <2>1. /\ damage' = damage + 1 /\ UNCHANGED run /\ UNCHANGED convertVars /\ UNCHANGED collectVars
        /\ DOMAIN out' = DOMAIN out
    BY <1>4 DEF DamageImage, Damages
  <2> QED BY <2>1 DEF Types, convertVars, collectVars
<1>5. CASE DamageCollection /\ UNCHANGED convertVars
  <2>1. /\ damage' = damage + 1 /\ UNCHANGED run /\ UNCHANGED convertVars /\ UNCHANGED collectVars
        /\ DOMAIN out' = DOMAIN out
    BY <1>5 DEF DamageCollection, Damages
  <2> QED BY <2>1 DEF Types, convertVars, collectVars
<1> QED BY <1>1, <1>2, <1>3, <1>4, <1>5 DEF Next

-----------------------------------------------------------------------------
(* What a converter has in its directory.                                  *)

\* The rows of the first n blocks of an image, and the chunks of them.
RowsUpTo(c, img, n) == [k \in 1 .. n |-> Row(k - 1, c, img[k])]

\* The chunks of them, by their hash: equal blocks have one.
ChunksUpTo(c, img, n) == [h \in {Sha(img[k]) : k \in 1 .. n} |-> Compress(c, h[1])]

\* A container with these chunks and nothing else.
Chunked(c, img, n) == [EmptyContainer EXCEPT !.chunks = ChunksUpTo(c, img, n)]

\* The container of an image before its file number k is written.
Made(c, ky, img, k) ==
    LET map == RowsUpTo(c, img, Len(img)) IN
    [chunks      |-> ChunksUpTo(c, img, Len(img)),
     tree        |-> IF k > 1 THEN serialize_merkle_tree(LeafHashes(map)) ELSE Missing,
     map         |-> IF k > 2 THEN map ELSE Missing,
     leaves      |-> IF k > 3 THEN LeafRows(map) ELSE Missing,
     acquisition |-> IF k > 4 THEN "acquired" ELSE Missing,
     provenance  |-> IF k > 5 THEN <<"converted">> ELSE Missing,
     manifest    |-> IF k > 6 THEN ManifestOf(img) ELSE Missing,
     hmac        |-> IF k > 7 /\ ky THEN ManifestOf(img) ELSE Missing]

\* A converter has in its directory exactly what it has written so far.
ConvOk(s, img, r, t, c, ky) ==
    /\ s # "idle" => img \in Images
    /\ s \in {"idle", "mkdir"} => r = <<>>
    /\ s = "chunks" => \E n \in 0 .. Len(img) :
           r = RowsUpTo(c, img, n) /\ t = Chunked(c, img, n)
    /\ \A k \in 1 .. 7 : s = Files[k] =>
           r = RowsUpTo(c, img, Len(img)) /\ t = Made(c, ky, img, k) /\ img # <<>>
    /\ s \in {"check", "publish"} => t = Made(c, ky, img, 8) /\ img # <<>>

\* The same of the converter p of the model.
Converting(p) == ConvOk(run[p], image[p], rows[p], tmp[p], comp, key)

\* The invariant of the conversions.
ConvInv == \A p \in Converters : Converting(p)

\* An image is a sequence of blocks.
LEMMA ImageFacts ==
    ASSUME NEW img \in Images
    PROVE  img \in Seq(Blocks) /\ Len(img) \in Nat /\ DOMAIN img = 1 .. Len(img) /\ (img = <<>> <=> Len(img) = 0)
<1>1. img \in Seq(Blocks) BY ConversionAssumption
<1> QED BY <1>1

\* The rows of the first n blocks, and that the next is appended to them.
LEMMA RowsUpToFacts ==
    ASSUME NEW c, NEW img, NEW n \in Nat
    PROVE  /\ Len(RowsUpTo(c, img, n)) = n
           /\ DOMAIN RowsUpTo(c, img, n) = 1 .. n
           /\ RowsUpTo(c, img, n) \in Seq({Row(k - 1, c, img[k]) : k \in 1 .. n})
           /\ (RowsUpTo(c, img, n) = <<>> <=> n = 0)
           /\ Append(RowsUpTo(c, img, n), Row(n, c, img[n + 1])) = RowsUpTo(c, img, n + 1)
<1> DEFINE R(k) == Row(k - 1, c, img[k])
           S == {R(k) : k \in 1 .. n + 1}
           f == [k \in 1 .. n |-> R(k)]
           g == [k \in 1 .. n + 1 |-> R(k)]
<1>1. RowsUpTo(c, img, n) = f /\ RowsUpTo(c, img, n + 1) = g BY DEF RowsUpTo
<1>2. R(n + 1) = Row(n, c, img[n + 1]) OBVIOUS
<1> HIDE DEF R
<1>a. f \in Seq(S)
  <2>1. \A k \in 1 .. n : R(k) \in S OBVIOUS
  <2> HIDE DEF S
  <2> QED BY <2>1
<1>b. g \in Seq(S)
  <2>1. \A k \in 1 .. n + 1 : R(k) \in S OBVIOUS
  <2> HIDE DEF S
  <2> QED BY <2>1
<1>c. Len(f) = n /\ Len(g) = n + 1
  <2> HIDE DEF S
  <2> QED BY <1>a, <1>b
<1>d. f \in Seq({R(k) : k \in 1 .. n})
  <2> DEFINE Z == {R(k) : k \in 1 .. n}
  <2>1. \A k \in 1 .. n : R(k) \in Z OBVIOUS
  <2> HIDE DEF Z
  <2>2. f \in Seq(Z) BY <2>1
  <2> QED BY <2>2 DEF Z
<1>3. f \in Seq(S) /\ g \in Seq(S) /\ Len(f) = n /\ Len(g) = n + 1 /\ f \in Seq({R(k) : k \in 1 .. n})
  BY <1>a, <1>b, <1>c, <1>d
<1>4. f = <<>> <=> n = 0
  <2> HIDE DEF S, f
  <2> QED BY <1>3
<1>5. R(n + 1) \in S OBVIOUS
<1>6. Append(f, R(n + 1)) = g
  <2> HIDE DEF S
  <2>1. Append(f, R(n + 1)) \in Seq(S) /\ Len(Append(f, R(n + 1))) = n + 1 BY <1>3, <1>5
  <2>2. \A k \in 1 .. n + 1 : Append(f, R(n + 1))[k] = g[k]
    <3> SUFFICES ASSUME NEW k \in 1 .. n + 1 PROVE Append(f, R(n + 1))[k] = g[k] OBVIOUS
    <3>1. CASE k = n + 1 BY <3>1, <1>3, <1>5
    <3>2. CASE k \in 1 .. n BY <3>2, <1>3, <1>5
    <3> QED BY <3>1, <3>2
  <2> QED BY <1>3, <2>1, <2>2
<1>7. DOMAIN f = 1 .. n OBVIOUS
<1>8. f \in Seq({Row(k - 1, c, img[k]) : k \in 1 .. n}) BY <1>3 DEF R
<1> HIDE DEF f, g
<1> QED BY <1>1, <1>2, <1>3, <1>4, <1>6, <1>7, <1>8

\* The next chunk is the one of the next block, whether it is there or not.
LEMMA NextChunk ==
    ASSUME NEW c, NEW img, NEW n \in Nat
    PROVE  write_chunk(Chunked(c, img, n), c, img[n + 1]) = Chunked(c, img, n + 1)
<1> DEFINE b == img[n + 1]
           t == Chunked(c, img, n)
           D(m) == {Sha(img[k]) : k \in 1 .. m}
           old == ChunksUpTo(c, img, n)
           new == ChunksUpTo(c, img, n + 1)
<1>1. D(n + 1) = D(n) \cup {Sha(b)}
  <2>1. 1 .. n + 1 = 1 .. n \cup {n + 1} OBVIOUS
  <2> QED BY <2>1
<1>2. DOMAIN old = D(n) /\ DOMAIN new = D(n + 1) BY DEF ChunksUpTo
<1>3. \A h \in D(n) : old[h] = Compress(c, h[1]) BY DEF ChunksUpTo
<1>4. new = [h \in D(n + 1) |-> Compress(c, h[1])] BY DEF ChunksUpTo
<1>5. old = [h \in D(n) |-> Compress(c, h[1])] BY DEF ChunksUpTo
<1>6. t.chunks = old BY DEF EmptyContainer, Chunked
<1>7. CASE Sha(b) \in D(n)
  <2>1. D(n + 1) = D(n) BY <1>1, <1>7
  <2>2. new = old BY <1>4, <1>5, <2>1
  <2>3. write_chunk(t, c, b) = t BY <1>2, <1>6, <1>7 DEF write_chunk
  <2> QED BY <2>2, <2>3 DEF Chunked
<1>8. CASE Sha(b) \notin D(n)
  <2>1. Sha(b)[1] = b BY DEF Sha
  <2> DEFINE w == WithFile(old, Sha(b), Compress(c, b))
  <2>2. w = [h \in D(n + 1) |-> IF h \in D(n) THEN old[h] ELSE Compress(c, b)]
    BY <1>1, <1>2 DEF WithFile
  <2>3. \A h \in D(n + 1) : w[h] = new[h]
    <3> SUFFICES ASSUME NEW h \in D(n + 1) PROVE w[h] = new[h] OBVIOUS
    <3> HIDE DEF D, w, old, new
    <3>1. CASE h \in D(n) BY <3>1, <2>2, <1>3, <1>4
    <3>2. CASE h = Sha(b) BY <3>2, <2>2, <2>1, <1>4, <1>8
    <3> QED BY <3>1, <3>2, <1>1
  <2>4. w = new
    <3> HIDE DEF D, w, old, new
    <3> QED BY <2>2, <2>3, <1>4
  <2>5. write_chunk(t, c, b) = [t EXCEPT !.chunks = w] BY <1>2, <1>6, <1>8 DEF write_chunk
  <2>6. [t EXCEPT !.chunks = w] = [EmptyContainer EXCEPT !.chunks = w] BY DEF EmptyContainer, Chunked
  <2> QED BY <2>4, <2>5, <2>6 DEF Chunked
<1> QED BY <1>7, <1>8

\* Before the first chunk the container is empty.
LEMMA NoChunks == ASSUME NEW c, NEW img PROVE Chunked(c, img, 0) = EmptyContainer
<1>1. ChunksUpTo(c, img, 0) = <<>>
  <2>1. {Sha(img[k]) : k \in 1 .. 0} = {} OBVIOUS
  <2>2. ChunksUpTo(c, img, 0) = [h \in {} |-> Compress(c, h[1])] BY <2>1 DEF ChunksUpTo
  <2>3. [h \in {} |-> Compress(c, h[1])] = <<>> OBVIOUS
  <2> QED BY <2>2, <2>3
<1> QED BY <1>1 DEF EmptyContainer, Chunked

\* A step of a converter leaves the state of the others.
LEMMA ConvertFrame ==
    ASSUME Types, NEW p \in Converters, Convert(p), NEW q \in Converters \ {p}
    PROVE  /\ run'[q] = run[q] /\ image'[q] = image[q] /\ rows'[q] = rows[q] /\ tmp'[q] = tmp[q]
           /\ comp' = comp /\ key' = key
<1>0. p \in Tools /\ q \in Tools BY DEF Tools
<1>1. \A from, to : Step(p, from, to) => run'[q] = run[q] BY <1>0 DEF Step, Types
<1>2. run'[q] = run[q]
  BY <1>1 DEF Convert, Start, Begin, MakeTmp, BadArgument, WriteChunk, EndOfImage, WriteFile, SelfCheck,
              Publish, Rename, Fail, Crash
<1>3. comp' = comp /\ key' = key /\ image'[q] = image[q]
  BY DEF Types, Convert, Start, MakeTmp, BadArgument, WriteChunk, EndOfImage, WriteFile, SelfCheck, Publish,
         Fail, Crash, convertVars
<1>4. rows'[q] = rows[q]
  BY DEF Types, Convert, Start, MakeTmp, BadArgument, WriteChunk, EndOfImage, WriteFile, SelfCheck, Publish,
         Fail, Crash, convertVars
<1>5. tmp'[q] = tmp[q]
  BY DEF Types, Convert, Start, MakeTmp, BadArgument, WriteChunk, EndOfImage, WriteFile, SelfCheck, Publish,
         Fail, Crash, convertVars
<1> QED BY <1>2, <1>3, <1>4, <1>5

\* What is known of a converter that is in none of the steps that write.
LEMMA ConvElsewhere ==
    ASSUME NEW s, s \notin {"idle", "mkdir", "chunks", "check", "publish"} \cup FilesList,
           NEW img \in Images, NEW r, NEW t, NEW c, NEW ky
    PROVE  ConvOk(s, img, r, t, c, ky)
<1>1. \A k \in 1 .. 7 : Files[k] \in FilesList BY FilesAre DEF Range
<1> QED BY <1>1 DEF ConvOk

\* Start: a converter that begins has an image.
LEMMA ConvertingStart ==
    ASSUME Types, NEW p \in Converters, Converting(p), Start(p)
    PROVE  Converting(p)'
<1>0. p \in Tools BY DEF Tools
<1>1. run[p] = "idle" /\ run'[p] \in {"mkdir", "failed"} BY <1>0 DEF Start, Begin, Step, Types
<1>2. rows[p] = <<>> BY <1>1 DEF Converting, ConvOk
<1>3. image'[p] \in Images BY DEF Start, Types
<1>4. rows'[p] = rows[p] BY DEF Start
<1>5. CASE run'[p] = "mkdir"
  <2>1. \A k \in 1 .. 7 : Files[k] # "mkdir"
    <3>1. \A k \in 1 .. 7 : Files[k] \in FilesList BY FilesAre DEF Range
    <3> QED BY <3>1 DEF FilesList
  <2> QED BY <1>2, <1>3, <1>4, <1>5, <2>1 DEF Converting, ConvOk
<1>6. CASE run'[p] = "failed"
  <2>1. "failed" \notin {"idle", "mkdir", "chunks", "check", "publish"} \cup FilesList BY DEF FilesList
  <2>2. ConvOk("failed", image'[p], rows'[p], tmp'[p], comp', key') BY <1>3, <2>1, ConvElsewhere
  <2> QED BY <1>6, <2>2 DEF Converting
<1> QED BY <1>1, <1>5, <1>6

\* MakeTmp: the directory is empty.
LEMMA ConvertingMkdir ==
    ASSUME Types, NEW p \in Converters, Converting(p), MakeTmp(p)
    PROVE  Converting(p)'
<1>0. p \in Tools BY DEF Tools
<1>1. run[p] = "mkdir" /\ run'[p] = "chunks" BY <1>0 DEF MakeTmp, Step, Types
<1>2. rows[p] = <<>> /\ image[p] \in Images BY <1>1 DEF Converting, ConvOk
<1>3. rows'[p] = <<>> /\ image'[p] = image[p] /\ tmp'[p] = EmptyContainer BY <1>2 DEF MakeTmp, Types
<1>4. 0 \in 0 .. Len(image'[p]) BY <1>2, <1>3, ImageFacts
<1>5. rows'[p] = RowsUpTo(comp', image'[p], 0) BY <1>3, RowsUpToFacts
<1>6. tmp'[p] = Chunked(comp', image'[p], 0) BY <1>3, NoChunks
<1>7. \A k \in 1 .. 7 : Files[k] # "chunks"
  <2>1. \A k \in 1 .. 7 : Files[k] \in FilesList BY FilesAre DEF Range
  <2> QED BY <2>1 DEF FilesList
<1> QED BY <1>1, <1>2, <1>3, <1>4, <1>5, <1>6, <1>7 DEF Converting, ConvOk

\* WriteChunk: one block more has a row and a chunk.
LEMMA ConvertingChunk ==
    ASSUME Types, NEW p \in Converters, Converting(p), WriteChunk(p)
    PROVE  Converting(p)'
<1>0. p \in Tools BY DEF Tools
<1>1. run[p] = "chunks" /\ run'[p] = "chunks" BY <1>0 DEF WriteChunk, Step, Types
<1>2. image[p] \in Images BY <1>1 DEF Converting, ConvOk
<1>3. PICK n \in 0 .. Len(image[p]) :
        /\ rows[p] = RowsUpTo(comp, image[p], n)
        /\ tmp[p] = Chunked(comp, image[p], n)
  BY <1>1 DEF Converting, ConvOk
<1>a. n \in Nat BY <1>2, ImageFacts
<1>b. Len(RowsUpTo(comp, image[p], n)) = n BY <1>a, RowsUpToFacts
<1>4. n \in Nat /\ Len(rows[p]) = n BY <1>3, <1>a, <1>b
<1>5. n < Len(image[p]) BY <1>4 DEF WriteChunk
<1>6. n + 1 \in 0 .. Len(image[p]) BY <1>2, <1>4, <1>5, ImageFacts
<1>7. /\ image'[p] = image[p] /\ comp' = comp /\ key' = key
      /\ rows'[p] = Append(rows[p], Row(n, comp, image[p][n + 1]))
      /\ tmp'[p] = write_chunk(tmp[p], comp, image[p][n + 1])
  BY <1>4 DEF WriteChunk, Types
<1>c. Append(RowsUpTo(comp, image[p], n), Row(n, comp, image[p][n + 1])) = RowsUpTo(comp, image[p], n + 1)
  BY <1>a, RowsUpToFacts
<1>8. rows'[p] = RowsUpTo(comp, image[p], n + 1) BY <1>3, <1>7, <1>c
<1>d. write_chunk(tmp[p], comp, image[p][n + 1])
          = Chunked(comp, image[p], n + 1)
  BY <1>a, <1>3, NextChunk
<1>9. tmp'[p] = Chunked(comp, image[p], n + 1) BY <1>7, <1>d
<1>10. \A k \in 1 .. 7 : Files[k] # "chunks"
  <2>1. \A k \in 1 .. 7 : Files[k] \in FilesList BY FilesAre DEF Range
  <2> QED BY <2>1 DEF FilesList
<1> QED BY <1>1, <1>2, <1>6, <1>7, <1>8, <1>9, <1>10 DEF Converting, ConvOk

\* EndOfImage: all blocks have them.
LEMMA ConvertingEndOfImage ==
    ASSUME Types, NEW p \in Converters, Converting(p), EndOfImage(p)
    PROVE  Converting(p)'
<1>0. p \in Tools BY DEF Tools
<1>1. run[p] = "chunks" /\ run'[p] = (IF rows[p] = <<>> THEN "failed" ELSE "tree")
  BY <1>0 DEF EndOfImage, Step, Types
<1>2. image[p] \in Images BY <1>1 DEF Converting, ConvOk
<1>3. PICK n \in 0 .. Len(image[p]) :
        /\ rows[p] = RowsUpTo(comp, image[p], n)
        /\ tmp[p] = Chunked(comp, image[p], n)
  BY <1>1 DEF Converting, ConvOk
<1>a. n \in Nat BY <1>2, ImageFacts
<1>b. Len(RowsUpTo(comp, image[p], n)) = n BY <1>a, RowsUpToFacts
<1>4. n \in Nat /\ Len(rows[p]) = n BY <1>3, <1>a, <1>b
<1>5. n = Len(image[p]) BY <1>4 DEF EndOfImage
<1>6. image'[p] = image[p] /\ comp' = comp /\ key' = key /\ rows'[p] = rows[p] BY DEF EndOfImage
<1>7. CASE rows[p] = <<>>
  <2>1. "failed" \notin {"idle", "mkdir", "chunks", "check", "publish"} \cup FilesList BY DEF FilesList
  <2>2. ConvOk("failed", image'[p], rows'[p], tmp'[p], comp', key') BY <1>2, <1>6, <2>1, ConvElsewhere
  <2> QED BY <1>1, <1>7, <2>2 DEF Converting
<1>8. CASE rows[p] # <<>>
  <2>1. run'[p] = "tree" BY <1>1, <1>8
  <2>2. tmp'[p] = tmp[p] BY <1>8 DEF EndOfImage
  <2>3. image[p] # <<>> BY <1>2, <1>3, <1>4, <1>5, <1>8, RowsUpToFacts, ImageFacts
  <2>4. tmp'[p] = Made(comp, key, image[p], 1) BY <1>3, <1>5, <2>2 DEF Made, EmptyContainer, Chunked
  <2>5. \A k \in 1 .. 7 : Files[k] = "tree" => k = 1 BY FilesAre
  <2> QED BY <1>2, <1>3, <1>5, <1>6, <2>1, <2>3, <2>4, <2>5 DEF Converting, ConvOk
<1> QED BY <1>7, <1>8

\* The steps that write the files are no others.
LEMMA FilesDiffer ==
    /\ \A k, n \in 1 .. 7 : Files[k] = Files[n] => k = n
    /\ \A k \in 1 .. 7 : Files[k] \in FilesList
    /\ \A k \in 1 .. 7 : Files[k] \notin {"idle", "mkdir", "chunks", "check", "publish", "done", "failed", "crashed"}
<1>1. \A k \in 1 .. 7 : Files[k] \in FilesList BY FilesAre DEF Range
<1>2. \A k, n \in 1 .. 7 : Files[k] = Files[n] => k = n
  <2> SUFFICES ASSUME NEW k \in 1 .. 7, NEW n \in 1 .. 7, Files[k] = Files[n] PROVE k = n OBVIOUS
  <2>1. k \in {1, 2, 3, 4, 5, 6, 7} /\ n \in {1, 2, 3, 4, 5, 6, 7} OBVIOUS
  <2> QED BY <2>1, FilesAre
<1> QED BY <1>1, <1>2 DEF FilesList

\* Each file is made of what was written before it.
LEMMA NextFile ==
    ASSUME NEW p \in Converters, NEW n \in 1 .. 7, key \in BOOLEAN,
           tmp[p] = Made(comp, key, image[p], n), rows[p] = RowsUpTo(comp, image[p], Len(image[p]))
    PROVE  [tmp[p] EXCEPT ![Files[n]] = FileContent(Files[n], p)] = Made(comp, key, image[p], n + 1)
<1>0. n \in {1, 2, 3, 4, 5, 6, 7} OBVIOUS
<1>1. CASE n = 1
  <2>1. FileContent("tree", p) = serialize_merkle_tree(LeafHashes(rows[p])) BY DEF FileContent
  <2> QED BY <1>1, <2>1, FilesAre DEF Made
<1>2. CASE n = 2
  <2>1. FileContent("map", p) = rows[p] BY DEF FileContent
  <2> QED BY <1>2, <2>1, FilesAre DEF Made
<1>3. CASE n = 3
  <2>1. FileContent("leaves", p) = LeafRows(rows[p]) BY DEF FileContent
  <2> QED BY <1>3, <2>1, FilesAre DEF Made
<1>4. CASE n = 4
  <2>1. FileContent("acquisition", p) = "acquired" BY DEF FileContent
  <2> QED BY <1>4, <2>1, FilesAre DEF Made
<1>5. CASE n = 5
  <2>1. FileContent("provenance", p) = <<"converted">> BY DEF FileContent
  <2> QED BY <1>5, <2>1, FilesAre DEF Made
<1>6. CASE n = 6
  <2>1. FileContent("manifest", p) = ManifestOf(image[p]) BY DEF FileContent
  <2> QED BY <1>6, <2>1, FilesAre DEF Made
<1>7. CASE n = 7
  <2>1. FileContent("hmac", p) = IF key THEN tmp[p].manifest ELSE Missing BY DEF FileContent
  <2>2. tmp[p].manifest = ManifestOf(image[p]) BY <1>7 DEF Made
  <2>3. FileContent("hmac", p) = IF key THEN ManifestOf(image[p]) ELSE Missing BY <2>1, <2>2
  <2> HIDE DEF FileContent
  <2> QED BY <1>7, <2>3, FilesAre DEF Made
<1> QED BY <1>0, <1>1, <1>2, <1>3, <1>4, <1>5, <1>6, <1>7

\* WriteFile: what is written is what the container has next.
LEMMA ConvertingFile ==
    ASSUME Types, NEW p \in Converters, Converting(p), WriteFile(p)
    PROVE  Converting(p)'
<1>0. p \in Tools BY DEF Tools
<1>1. PICK n \in DOMAIN Files :
        /\ Step(p, Files[n], IF n < Len(Files) THEN Files[n + 1] ELSE "check")
        /\ tmp' = [tmp EXCEPT ![p][Files[n]] = FileContent(Files[n], p)]
        /\ UNCHANGED <<image, comp, key, rows, out, damage>>
  BY DEF WriteFile
<1>2. n \in 1 .. 7 BY FilesAre
<1>3. run[p] = Files[n] /\ run'[p] = (IF n < 7 THEN Files[n + 1] ELSE "check")
  BY <1>0, <1>1, FilesAre DEF Step, Types
<1>4. /\ rows[p] = RowsUpTo(comp, image[p], Len(image[p]))
      /\ tmp[p] = Made(comp, key, image[p], n) /\ image[p] # <<>>
  BY <1>2, <1>3 DEF Converting, ConvOk
<1>5. image[p] \in Images
  <2>1. run[p] # "idle" BY <1>2, <1>3, FilesDiffer
  <2> QED BY <2>1 DEF Converting, ConvOk
<1>6. tmp'[p] = [tmp[p] EXCEPT ![Files[n]] = FileContent(Files[n], p)]
  BY <1>1 DEF Types
<1>7. tmp'[p] = Made(comp, key, image[p], n + 1)
  BY <1>2, <1>4, <1>6, NextFile DEF Types
<1>8. image'[p] = image[p] /\ comp' = comp /\ key' = key /\ rows'[p] = rows[p] BY <1>1
<1>9. CASE n < 7
  <2>1. n + 1 \in 1 .. 7 BY <1>2, <1>9
  <2>2. run'[p] = Files[n + 1] BY <1>3, <1>9
  <2>3. \A k \in 1 .. 7 : run'[p] = Files[k] => k = n + 1 BY <2>1, <2>2, FilesDiffer
  <2>4. run'[p] \notin {"idle", "mkdir", "chunks", "check", "publish"} BY <2>1, <2>2, FilesDiffer
  <2> QED BY <1>4, <1>5, <1>7, <1>8, <2>3, <2>4 DEF Converting, ConvOk
<1>10. CASE n = 7
  <2>1. run'[p] = "check" BY <1>3, <1>10
  <2>2. \A k \in 1 .. 7 : Files[k] # "check" BY FilesDiffer
  <2> QED BY <1>4, <1>5, <1>7, <1>8, <1>10, <2>1, <2>2 DEF Converting, ConvOk
<1> QED BY <1>2, <1>9, <1>10

\* SelfCheck: the container is complete.
LEMMA ConvertingCheck ==
    ASSUME Types, NEW p \in Converters, Converting(p), SelfCheck(p)
    PROVE  Converting(p)'
<1>0. p \in Tools BY DEF Tools
<1>1. run[p] = "check" /\ run'[p] = "publish" BY <1>0 DEF SelfCheck, Step, Types
<1>2. tmp[p] = Made(comp, key, image[p], 8) /\ image[p] # <<>> /\ image[p] \in Images
  BY <1>1 DEF Converting, ConvOk
<1>3. image' = image /\ comp' = comp /\ key' = key /\ rows' = rows /\ tmp' = tmp
  BY DEF SelfCheck, convertVars
<1>4. tmp[p].manifest # Missing BY DEF SelfCheck, Parses
<1>5. \A k \in 1 .. 7 : Files[k] # "publish" BY FilesDiffer
<1> QED BY <1>1, <1>2, <1>3, <1>4, <1>5 DEF Converting, ConvOk

\* BadArgument, Fail, Crash and Publish end the run.
LEMMA ConvertingEnds ==
    ASSUME Types, NEW p \in Converters, Converting(p),
           BadArgument(p) \/ Publish(p) \/ Fail(p) \/ Crash(p)
    PROVE  Converting(p)'
<1>0. p \in Tools BY DEF Tools
<1>1. run'[p] \in Ended
  BY <1>0, StepOfOne DEF Types, BadArgument, Publish, Rename, Fail, Crash, Step, Ended
<1>2. run[p] # "idle"
  <2>1. BadArgument(p) \/ Publish(p) => run[p] # "idle" BY DEF BadArgument, Publish, Rename, Step
  <2>2. Fail(p) => run[p] # "idle"
    <3>1. "idle" \notin {"chunks", "check"} \cup Range(Files) BY FilesAre DEF FilesList
    <3> QED BY <3>1 DEF Fail, Step
  <2>3. Crash(p) => run[p] # "idle" BY DEF Crash
  <2> QED BY <2>1, <2>2, <2>3
<1>3. image'[p] = image[p] BY DEF BadArgument, Publish, Fail, Crash, convertVars
<1>4. image[p] \in Images BY <1>2 DEF Converting, ConvOk
<1>5. run'[p] \notin {"idle", "mkdir", "chunks", "check", "publish"} \cup FilesList
  BY <1>1 DEF Ended, FilesList
<1> QED BY <1>3, <1>4, <1>5, ConvElsewhere DEF Converting

\* The invariant of the conversions holds initially.
LEMMA ConvInvInit == Init => ConvInv
<1> SUFFICES ASSUME Init, NEW p \in Converters PROVE Converting(p) BY DEF ConvInv
<1>1. run[p] = "idle" /\ rows[p] = <<>> BY DEF Init, InitPublication, InitConversion, Tools
<1>2. \A k \in 1 .. 7 : Files[k] # "idle" BY FilesDiffer
<1> QED BY <1>1, <1>2 DEF Converting, ConvOk

\* Each step keeps it.
LEMMA ConvInvNext == Types /\ ConvInv /\ [Next]_vars => ConvInv'
<1> SUFFICES ASSUME Types, ConvInv, [Next]_vars, NEW q \in Converters PROVE Converting(q)'
  BY DEF ConvInv
<1>0. Converting(q) /\ q \in Tools BY DEF ConvInv, Tools
<1>a. ASSUME run'[q] = run[q], UNCHANGED convertVars PROVE Converting(q)'
  BY <1>a, <1>0 DEF convertVars, Converting
<1>1. CASE UNCHANGED vars
  BY <1>1, <1>a DEF vars
<1>2. CASE \E p \in Converters : Convert(p)
  <2>1. PICK p \in Converters : Convert(p) BY <1>2
  <2>2. CASE p = q
    BY <2>1, <2>2, <1>0, ConvertingStart, ConvertingMkdir, ConvertingChunk, ConvertingEndOfImage, ConvertingFile,
       ConvertingCheck, ConvertingEnds DEF Convert
  <2>3. CASE p # q
    <3>1. q \in Converters \ {p} BY <2>3
    <3>2. /\ run'[q] = run[q] /\ image'[q] = image[q] /\ rows'[q] = rows[q] /\ tmp'[q] = tmp[q]
          /\ comp' = comp /\ key' = key
      BY <2>1, <3>1, ConvertFrame
    <3> QED BY <1>0, <3>2 DEF Converting
  <2> QED BY <2>2, <2>3
<1>3. CASE \E p \in Collectors : Collect(p) /\ UNCHANGED convertVars
  <2>1. PICK p \in Collectors : Collect(p) BY <1>3
  <2>2. p # q /\ p \in Tools BY ToolsAssumption DEF Tools
  <2>3. \A from, to : Step(p, from, to) => run'[q] = run[q] BY <1>0, <2>2 DEF Step, Types
  <2>4. run'[q] = run[q]
    BY <2>1, <2>3 DEF Collect, BeginCollection, Begin, Clear, MakeShared, OpenLog, Store, LogFile, Log, WriteIndex,
       WriteEdges, WriteAcquisition, WriteManifest, Complete, PublishCollection, Rename, FailCollection, CrashCollection
  <2> QED BY <1>3, <2>4, <1>a
<1>4. CASE DamageImage
  BY <1>4, <1>a DEF DamageImage, Damages
<1>5. CASE DamageCollection /\ UNCHANGED convertVars
  BY <1>5, <1>a DEF DamageCollection, Damages
<1> QED BY <1>1, <1>2, <1>3, <1>4, <1>5 DEF Next

-----------------------------------------------------------------------------
(* What the collectors have in theirs.                                     *)

\* The first n rows of the index of a collector: its root, and then its files.
ListedUpTo(p, tree, n) == [k \in 1 .. n |-> IF k = 1 THEN RootRow(p) ELSE FileRow(tree[k - 1])]

\* What is known of a collector: that it has files, and which rows it listed.
CollectorOk(s, p, tree, at, l) ==
    /\ s # "idle" => tree \in FileTrees /\ at \in Outputs
    /\ s \in {"store", "log"} => \E n \in 1 .. Len(tree) + 1 : l = ListedUpTo(p, tree, n)

\* The files of a collection.
IsCollectionRecord(d) ==
    d = [objects |-> d.objects, provenance |-> d.provenance, index |-> d.index, edges |-> d.edges,
         acquisition |-> d.acquisition, manifest |-> d.manifest]

\* The index and the manifest are each that of some collector that was started.
CollectionOk(d, begun, fs) ==
    /\ IsCollectionRecord(d)
    /\ d.index \in {Missing} \cup {IndexOf(q, fs[q]) : q \in begun}
    /\ d.manifest \in {Missing} \cup {CollectionManifest(q, fs[q]) : q \in begun}

\* The collectors that were started.
Begun == {q \in Collectors : run[q] # "idle"}

\* The same of the collector p of the model.
Collecting(p) == CollectorOk(run[p], p, files[p], target[p], listed[p])

\* The invariant of the collections.
CollectInv ==
    /\ \A p \in Collectors : Collecting(p)
    /\ shared = Absent \/ CollectionOk(shared, Begun, files)

\* A file tree is a sequence.
LEMMA TreeFacts ==
    ASSUME NEW tree \in FileTrees
    PROVE  Len(tree) \in Nat /\ DOMAIN tree = 1 .. Len(tree)
<1>1. tree \in Seq(Range(tree)) BY CollectionAssumption
<1> QED BY <1>1

\* The next object is appended to those listed.
LEMMA ListedFacts ==
    ASSUME NEW p, NEW tree, NEW n \in Nat \ {0}
    PROVE  /\ Len(ListedUpTo(p, tree, n)) = n
           /\ Append(ListedUpTo(p, tree, n), FileRow(tree[n])) = ListedUpTo(p, tree, n + 1)
<1> DEFINE R(k) == IF k = 1 THEN RootRow(p) ELSE FileRow(tree[k - 1])
           S == {R(k) : k \in 1 .. n + 1}
           f == [k \in 1 .. n |-> R(k)]
           g == [k \in 1 .. n + 1 |-> R(k)]
<1>1. ListedUpTo(p, tree, n) = f /\ ListedUpTo(p, tree, n + 1) = g BY DEF ListedUpTo
<1>2. R(n + 1) = FileRow(tree[n]) OBVIOUS
<1>3. \A k \in 1 .. n + 1 : R(k) \in S OBVIOUS
<1> HIDE DEF R, S
<1>4. f \in Seq(S) /\ g \in Seq(S) BY <1>3
<1>5. Len(f) = n /\ Len(g) = n + 1 BY <1>4
<1>6. Append(f, R(n + 1)) \in Seq(S) /\ Len(Append(f, R(n + 1))) = n + 1 BY <1>3, <1>4, <1>5
<1>7. \A k \in 1 .. n + 1 : Append(f, R(n + 1))[k] = g[k]
  <2> SUFFICES ASSUME NEW k \in 1 .. n + 1 PROVE Append(f, R(n + 1))[k] = g[k] OBVIOUS
  <2>1. CASE k = n + 1 BY <2>1, <1>3, <1>4, <1>5
  <2>2. CASE k \in 1 .. n BY <2>2, <1>3, <1>4, <1>5
  <2> QED BY <2>1, <2>2
<1>8. Append(f, R(n + 1)) = g
  <2> HIDE DEF f, g
  <2>1. DOMAIN Append(f, R(n + 1)) = 1 .. n + 1 /\ DOMAIN g = 1 .. n + 1 BY <1>4, <1>5, <1>6
  <2> QED BY <1>4, <1>5, <1>6, <1>7, <2>1
<1> HIDE DEF f, g
<1> QED BY <1>1, <1>2, <1>5, <1>8

\* What is known of a collection stays true when more collectors begin.
LEMMA CollectionOkMore ==
    ASSUME NEW d, NEW begun, NEW fs, CollectionOk(d, begun, fs),
           NEW more, NEW gs, begun \subseteq more, \A q \in begun : gs[q] = fs[q]
    PROVE  CollectionOk(d, more, gs)
<1>1. {IndexOf(q, fs[q]) : q \in begun} \subseteq {IndexOf(q, gs[q]) : q \in more} OBVIOUS
<1>2. {CollectionManifest(q, fs[q]) : q \in begun} \subseteq {CollectionManifest(q, gs[q]) : q \in more} OBVIOUS
<1> QED BY <1>1, <1>2 DEF CollectionOk

\* What a step of one collector leaves alone.
LEMMA CollectFrame ==
    ASSUME Types, NEW p \in Collectors, Collect(p)
    PROVE  /\ run[p] # "idle" => files' = files /\ target' = target
           /\ \A q \in Tools \ {p} : run'[q] = run[q]
           /\ \A q \in Collectors \ {p} : files'[q] = files[q] /\ target'[q] = target[q] /\ listed'[q] = listed[q]
           /\ run'[p] # "idle"
           /\ Begun \subseteq Begun' /\ p \in Begun'
           /\ \A q \in Begun : files'[q] = files[q]
<1>0. p \in Tools BY DEF Tools
<1>1. \A from, to : Step(p, from, to) => run[p] = from /\ run'[p] = to /\ \A q \in Tools \ {p} : run'[q] = run[q]
  BY <1>0 DEF Step, Types
<1>2. \A q \in Tools \ {p} : run'[q] = run[q]
  BY <1>1 DEF Collect, BeginCollection, Begin, Clear, MakeShared, OpenLog, Store, LogFile, Log, WriteIndex,
     WriteEdges, WriteAcquisition, WriteManifest, Complete, PublishCollection, Rename, FailCollection, CrashCollection
<1>3. run'[p] # "idle"
  <2>1. BeginCollection(p) => run'[p] # "idle" BY <1>1 DEF BeginCollection, Begin
  <2>2. CrashCollection(p) => run'[p] # "idle" BY <1>1 DEF CrashCollection
  <2> QED
    BY <1>1, <2>1, <2>2 DEF Collect, Clear, MakeShared, OpenLog, Store, LogFile, Log, WriteIndex, WriteEdges,
       WriteAcquisition, WriteManifest, Complete, PublishCollection, Rename, FailCollection
<1>4. BeginCollection(p) => run[p] = "idle" BY <1>1 DEF BeginCollection, Begin
<1>5. run[p] # "idle" => files' = files /\ target' = target
  BY <1>4 DEF Collect, Clear, MakeShared, OpenLog, Store, LogFile, Log, WriteIndex, WriteEdges,
       WriteAcquisition, WriteManifest, Complete, PublishCollection, FailCollection, CrashCollection, collectVars
<1>6. \A q \in Collectors \ {p} : files'[q] = files[q] /\ target'[q] = target[q]
  BY DEF Types, Collect, BeginCollection, Clear, MakeShared, OpenLog, Store, LogFile, Log, WriteIndex, WriteEdges,
       WriteAcquisition, WriteManifest, Complete, PublishCollection, FailCollection, CrashCollection, collectVars
<1>7. \A q \in Collectors \ {p} : listed'[q] = listed[q]
  BY DEF Types, Collect, BeginCollection, Clear, MakeShared, OpenLog, Store, LogFile, Log, WriteIndex, WriteEdges,
       WriteAcquisition, WriteManifest, Complete, PublishCollection, FailCollection, CrashCollection, collectVars
<1>8. Begun \subseteq Begun' /\ p \in Begun' BY <1>2, <1>3 DEF Begun, Tools
<1>9. \A q \in Begun : files'[q] = files[q] BY <1>5, <1>6 DEF Begun
<1> QED BY <1>2, <1>3, <1>5, <1>6, <1>7, <1>8, <1>9

\* How each step keeps what is known of the collector itself.
LEMMA CollectingNext ==
    ASSUME Types, NEW p \in Collectors, Collecting(p), Collect(p)
    PROVE  Collecting(p)'
<1>0. p \in Tools BY DEF Tools
<1>s. \A from, to : Step(p, from, to) => run[p] = from /\ run'[p] = to
  BY <1>0 DEF Step, Types
<1>1. CASE BeginCollection(p)
  <2>1. run'[p] \in {"clear", "failed"} BY <1>1, <1>s DEF BeginCollection, Begin
  <2>2. files'[p] \in FileTrees /\ target'[p] \in Outputs BY <1>1 DEF BeginCollection, Types
  <2> QED BY <2>1, <2>2 DEF Collecting, CollectorOk
<1>2. ASSUME run[p] # "idle", run'[p] \notin {"store", "log"}, files' = files, target' = target
      PROVE  Collecting(p)'
  BY <1>2 DEF Collecting, CollectorOk
<1>3. CASE OpenLog(p)
  <2>1. run[p] = "open" /\ run'[p] = "store" BY <1>3, <1>s DEF OpenLog
  <2>2. files[p] \in FileTrees /\ target[p] \in Outputs BY <2>1 DEF Collecting, CollectorOk
  <2>3. listed'[p] = <<RootRow(p)>> /\ files'[p] = files[p] /\ target'[p] = target[p] BY <1>3 DEF OpenLog, Types
  <2>4. <<RootRow(p)>> = ListedUpTo(p, files[p], 1) BY DEF ListedUpTo
  <2>5. 1 \in 1 .. Len(files[p]) + 1 BY <2>2, TreeFacts
  <2> QED BY <2>1, <2>2, <2>3, <2>4, <2>5 DEF Collecting, CollectorOk
<1>4. CASE Store(p)
  <2>1. run[p] = "store" /\ run'[p] = "log" BY <1>4, <1>s DEF Store
  <2>2. files[p] \in FileTrees /\ target[p] \in Outputs BY <2>1 DEF Collecting, CollectorOk
  <2>3. PICK n \in 1 .. Len(files[p]) + 1 : listed[p] = ListedUpTo(p, files[p], n)
    BY <2>1 DEF Collecting, CollectorOk
  <2>4. n \in Nat \ {0} /\ Len(files[p]) \in Nat BY <2>2, TreeFacts
  <2>5. Len(listed[p]) = n BY <2>3, <2>4, ListedFacts
  <2>6. n <= Len(files[p]) BY <1>4, <2>5 DEF Store
  <2>7. listed'[p] = Append(listed[p], FileRow(files[p][n])) /\ files'[p] = files[p] /\ target'[p] = target[p]
    BY <1>4, <2>5 DEF Store, Types
  <2>8. Append(ListedUpTo(p, files[p], n), FileRow(files[p][n])) = ListedUpTo(p, files[p], n + 1)
    BY <2>4, ListedFacts
  <2>9. listed'[p] = ListedUpTo(p, files[p], n + 1) BY <2>3, <2>7, <2>8
  <2>10. n + 1 \in 1 .. Len(files[p]) + 1 BY <2>4, <2>6
  <2> QED BY <2>1, <2>2, <2>7, <2>9, <2>10 DEF Collecting, CollectorOk
<1>5. CASE LogFile(p)
  <2>1. run[p] = "log" /\ run'[p] = "store" BY <1>5, <1>s DEF LogFile, Log
  <2>2. files' = files /\ target' = target /\ listed' = listed BY <1>5 DEF LogFile, Log
  <2> QED BY <2>1, <2>2 DEF Collecting, CollectorOk
<1>6. CASE Clear(p) BY <1>2, <1>6, <1>s DEF Clear
<1>7. CASE MakeShared(p) BY <1>2, <1>7, <1>s DEF MakeShared
<1>8. CASE WriteIndex(p) BY <1>2, <1>8, <1>s DEF WriteIndex
<1>9. CASE WriteEdges(p) BY <1>2, <1>9, <1>s DEF WriteEdges
<1>10. CASE WriteAcquisition(p) BY <1>2, <1>10, <1>s DEF WriteAcquisition
<1>11. CASE WriteManifest(p) BY <1>2, <1>11, <1>s DEF WriteManifest
<1>12. CASE Complete(p) BY <1>2, <1>12, <1>s DEF Complete, Log
<1>13. CASE PublishCollection(p) BY <1>2, <1>13, <1>s DEF PublishCollection, Rename
<1>14. CASE FailCollection(p) BY <1>2, <1>14, <1>s DEF FailCollection
<1>15. CASE CrashCollection(p) BY <1>2, <1>15, <1>s DEF CrashCollection, Running, collectVars
<1> QED
  BY <1>1, <1>3, <1>4, <1>5, <1>6, <1>7, <1>8, <1>9, <1>10, <1>11, <1>12, <1>13, <1>14, <1>15 DEF Collect

\* An empty directory is a collection in the making.
LEMMA EmptyCollectionOk == ASSUME NEW begun, NEW fs PROVE CollectionOk(EmptyCollection, begun, fs)
BY DEF CollectionOk, EmptyCollection, IsCollectionRecord

\* Writing a table or document of the collection does no harm to the others.
LEMMA CollectionOkUpdates ==
    ASSUME NEW begun, NEW fs, NEW d, CollectionOk(d, begun, fs)
    PROVE  /\ \A x : CollectionOk([d EXCEPT !.objects = x], begun, fs)
           /\ \A x : CollectionOk([d EXCEPT !.provenance = x], begun, fs)
           /\ \A x : CollectionOk([d EXCEPT !.edges = x], begun, fs)
           /\ \A x : CollectionOk([d EXCEPT !.acquisition = x], begun, fs)
           /\ \A q \in begun : CollectionOk([d EXCEPT !.index = IndexOf(q, fs[q])], begun, fs)
           /\ \A q \in begun : CollectionOk([d EXCEPT !.manifest = CollectionManifest(q, fs[q])], begun, fs)
<1> DEFINE IX == {Missing} \cup {IndexOf(q, fs[q]) : q \in begun}
           MF == {Missing} \cup {CollectionManifest(q, fs[q]) : q \in begun}
<1>1. IsCollectionRecord(d) /\ d.index \in IX /\ d.manifest \in MF BY DEF CollectionOk
<1>2. \A q \in begun : IndexOf(q, fs[q]) \in IX /\ CollectionManifest(q, fs[q]) \in MF OBVIOUS
<1>3. \A e : CollectionOk(e, begun, fs) <=> IsCollectionRecord(e) /\ e.index \in IX /\ e.manifest \in MF
  BY DEF CollectionOk
<1> HIDE DEF IX, MF
<1>4. ASSUME NEW x PROVE CollectionOk([d EXCEPT !.objects = x], begun, fs) BY <1>1, <1>3 DEF IsCollectionRecord
<1>5. ASSUME NEW x PROVE CollectionOk([d EXCEPT !.provenance = x], begun, fs) BY <1>1, <1>3 DEF IsCollectionRecord
<1>6. ASSUME NEW x PROVE CollectionOk([d EXCEPT !.edges = x], begun, fs) BY <1>1, <1>3 DEF IsCollectionRecord
<1>7. ASSUME NEW x PROVE CollectionOk([d EXCEPT !.acquisition = x], begun, fs) BY <1>1, <1>3 DEF IsCollectionRecord
<1>8. ASSUME NEW x \in IX PROVE CollectionOk([d EXCEPT !.index = x], begun, fs) BY <1>1, <1>3 DEF IsCollectionRecord
<1>9. ASSUME NEW x \in MF PROVE CollectionOk([d EXCEPT !.manifest = x], begun, fs) BY <1>1, <1>3 DEF IsCollectionRecord
<1> QED BY <1>2, <1>4, <1>5, <1>6, <1>7, <1>8, <1>9

\* Whatever a collector writes, what lies in the shared directory is in order.
LEMMA SharedNext ==
    ASSUME Types, CollectInv, NEW p \in Collectors, Collect(p)
    PROVE  (shared = Absent \/ CollectionOk(shared, Begun, files))'
<1>0. p \in Tools BY DEF Tools
<1>s. \A from, to : Step(p, from, to) => run[p] = from BY DEF Step
<1>f. Begun \subseteq Begun' /\ p \in Begun' /\ \A q \in Begun : files'[q] = files[q] BY CollectFrame
<1>1. shared = Absent \/ CollectionOk(shared, Begun', files')
  <2>1. \A d : CollectionOk(d, Begun, files) => CollectionOk(d, Begun', files') BY <1>f, CollectionOkMore
  <2> QED BY <2>1 DEF CollectInv
<1>2. CollectionOk(Base, Begun', files') BY <1>1, EmptyCollectionOk DEF Base
<1>3. CASE shared' = shared BY <1>1, <1>3
<1>4. CASE shared' = Absent BY <1>4
<1>5. CASE shared' = Base BY <1>2, <1>5
<1>6. CASE BeginCollection(p) BY <1>3, <1>6 DEF BeginCollection
<1>7. CASE Clear(p) BY <1>4, <1>7 DEF Clear
<1>8. CASE MakeShared(p) BY <1>5, <1>8 DEF MakeShared
<1>9. CASE OpenLog(p)
  <2>1. PICK x : shared' = [Base EXCEPT !.provenance = x] BY <1>9 DEF OpenLog
  <2> QED BY <1>2, <2>1, CollectionOkUpdates
<1>10. CASE Store(p)
  <2>1. PICK x : shared' = [Base EXCEPT !.objects = x] BY <1>10 DEF Store
  <2> QED BY <1>2, <2>1, CollectionOkUpdates
<1>11. ASSUME NEW from, NEW event, NEW to, Log(p, from, event, to)
       PROVE  (shared = Absent \/ CollectionOk(shared, Begun, files))'
  <2>1. shared # Absent BY <1>11 DEF Log, Base, EmptyCollection
  <2>2. PICK x : shared' = [shared EXCEPT !.provenance = x] BY <1>11 DEF Log
  <2> QED BY <1>1, <2>1, <2>2, CollectionOkUpdates
<1>12. CASE LogFile(p) BY <1>11, <1>12 DEF LogFile
<1>13. CASE WriteIndex(p)
  <2>1. run[p] = "store" BY <1>13, <1>s DEF WriteIndex
  <2>2. files[p] \in FileTrees BY <2>1 DEF CollectInv, Collecting, CollectorOk
  <2>3. PICK n \in 1 .. Len(files[p]) + 1 : listed[p] = ListedUpTo(p, files[p], n)
    BY <2>1 DEF CollectInv, Collecting, CollectorOk
  <2>4. n \in Nat \ {0} /\ Len(files[p]) \in Nat BY <2>2, TreeFacts
  <2>5. Len(listed[p]) = n BY <2>3, <2>4, ListedFacts
  <2>6. n = Len(files[p]) + 1 BY <1>13, <2>4, <2>5 DEF WriteIndex
  <2>7. listed[p] = IndexOf(p, files[p]) BY <2>3, <2>6 DEF ListedUpTo, IndexOf
  <2>8. shared' = [Base EXCEPT !.index = IndexOf(p, files'[p])] BY <1>13, <2>7 DEF WriteIndex
  <2> QED BY <1>2, <1>f, <2>8, CollectionOkUpdates
<1>14. CASE WriteEdges(p)
  <2>1. shared # Absent BY <1>14 DEF WriteEdges, Base, EmptyCollection
  <2>2. PICK x : shared' = [shared EXCEPT !.edges = x] BY <1>14 DEF WriteEdges
  <2> QED BY <1>1, <2>1, <2>2, CollectionOkUpdates
<1>15. CASE WriteAcquisition(p)
  <2>1. shared # Absent BY <1>15 DEF WriteAcquisition
  <2>2. PICK x : shared' = [shared EXCEPT !.acquisition = x] BY <1>15 DEF WriteAcquisition
  <2> QED BY <1>1, <2>1, <2>2, CollectionOkUpdates
<1>16. CASE WriteManifest(p)
  <2>1. shared # Absent BY <1>16 DEF WriteManifest
  <2>2. shared' = [shared EXCEPT !.manifest = CollectionManifest(p, files'[p])] BY <1>16 DEF WriteManifest
  <2> QED BY <1>1, <1>f, <2>1, <2>2, CollectionOkUpdates
<1>17. CASE Complete(p) BY <1>11, <1>17 DEF Complete
<1>18. CASE PublishCollection(p) BY <1>3, <1>4, <1>18 DEF PublishCollection
<1>19. CASE FailCollection(p) BY <1>4, <1>19 DEF FailCollection
<1>20. CASE CrashCollection(p) BY <1>3, <1>20 DEF CrashCollection, collectVars
<1> QED
  BY <1>6, <1>7, <1>8, <1>9, <1>10, <1>12, <1>13, <1>14, <1>15, <1>16, <1>17, <1>18, <1>19, <1>20 DEF Collect

\* The invariant of the collections holds initially.
LEMMA CollectInvInit == Init => CollectInv
<1> SUFFICES ASSUME Init PROVE CollectInv OBVIOUS
<1>1. \A p \in Collectors : run[p] = "idle" BY DEF Init, InitPublication, Tools
<1> QED BY <1>1 DEF CollectInv, Collecting, CollectorOk, Init, InitCollection

\* Each step keeps it.
LEMMA CollectInvNext == Types /\ CollectInv /\ [Next]_vars => CollectInv'
<1> SUFFICES ASSUME Types, CollectInv, [Next]_vars PROVE CollectInv' OBVIOUS
<1>a. ASSUME \A q \in Collectors : run'[q] = run[q], UNCHANGED collectVars PROVE CollectInv'
  <2>1. Begun' = Begun BY <1>a DEF Begun
  <2>2. \A q \in Collectors : Collecting(q)' BY <1>a DEF CollectInv, Collecting, collectVars
  <2> QED BY <1>a, <2>1, <2>2 DEF CollectInv, collectVars
<1>1. CASE UNCHANGED vars
  BY <1>1, <1>a DEF vars
<1>2. CASE \E p \in Converters : Convert(p) /\ UNCHANGED collectVars
  <2>1. PICK p \in Converters : Convert(p) BY <1>2
  <2>2. p \in Tools /\ p \notin Collectors BY ToolsAssumption DEF Tools
  <2>3. \A from, to : Step(p, from, to) => \A q \in Collectors : run'[q] = run[q] BY <2>2 DEF Step, Types, Tools
  <2>4. \A q \in Collectors : run'[q] = run[q]
    BY <2>1, <2>3 DEF Convert, Start, Begin, MakeTmp, BadArgument, WriteChunk, EndOfImage, WriteFile, SelfCheck,
              Publish, Rename, Fail, Crash
  <2> QED BY <1>2, <2>4, <1>a
<1>3. CASE \E p \in Collectors : Collect(p)
  <2>1. PICK p \in Collectors : Collect(p) BY <1>3
  <2>2. Collecting(p)' BY <2>1, CollectingNext DEF CollectInv
  <2>3. ASSUME NEW q \in Collectors \ {p} PROVE Collecting(q)'
    <3>1. run'[q] = run[q] /\ files'[q] = files[q] /\ target'[q] = target[q] /\ listed'[q] = listed[q]
      BY <2>1, CollectFrame DEF Tools
    <3>2. Collecting(q) BY DEF CollectInv
    <3> QED BY <3>1, <3>2 DEF Collecting
  <2>4. (shared = Absent \/ CollectionOk(shared, Begun, files))' BY <2>1, SharedNext
  <2> QED BY <2>2, <2>3, <2>4 DEF CollectInv
<1>4. CASE DamageImage /\ UNCHANGED collectVars
  BY <1>4, <1>a DEF DamageImage, Damages
<1>5. CASE DamageCollection
  BY <1>5, <1>a DEF DamageCollection, Damages
<1> QED BY <1>1, <1>2, <1>3, <1>4, <1>5 DEF Next

-----------------------------------------------------------------------------
(* What is at the outputs.                                                 *)

\* The fields of a container.
ContainerFiles == {"chunks"} \cup FilesList

\* A record with them.
IsContainerRecord(c) == c = [n \in ContainerFiles |-> c[n]]

\* The map of a container of an image, damaged or not.
Maps(c) == {Missing, Garbled} \cup {RowsUpTo(c, img, Len(img)) : img \in Images}

\* A signature is that of the manifest of an image.
Sidecars == {Missing} \cup {ManifestOf(img) : img \in Images}

\* The provenance is lost, emptied or what was written.
Histories == {Missing, <<>>, <<"converted">>}

\* A container of an image, damaged or not.
ImageKept(d, c) ==
    IsContainerRecord(d) /\ d.map \in Maps(c) /\ d.hmac \in Sidecars /\ d.provenance \in Histories

\* The rows that an index can have.
IndexRows ==
    {RootRow(p) : p \in Collectors} \cup {FileRow(f) : f \in UNION {Range(tree) : tree \in FileTrees}}

\* A collection, damaged or not.
CollectionKept(d) == IsCollectionRecord(d) /\ d.index \in {Missing, Garbled} \cup Seq(IndexRows)

\* What is known of a conversion that was reported as done.
DoneOk(p) ==
    /\ image[p] # <<>>
    /\ IsImage(out[Main])
    /\ \A q \in Converters \ {p} : run[q] # "done"
    /\ damage = 0 => out[Main] = Made(comp, key, image[p], 8)

\* The invariant of the outputs.
OutInv ==
    /\ \A o \in Outputs : out[o] = Absent \/ CollectionKept(out[o]) \/ (o = Main /\ ImageKept(out[o], comp))
    /\ \A o \in Outputs : damage = 0 /\ IsCollection(out[o]) => CollectionOk(out[o], Begun, files)
    /\ \A p \in Converters : run[p] = "done" => DoneOk(p)
    /\ IsImage(out[Main]) => \E p \in Converters : run[p] = "done"

\* The map of an image in the terms of the rows.
LEMMA MapOfIs ==
    /\ \A img \in Images : MapOf(img) = RowsUpTo(comp, img, Len(img))
    /\ comp' = comp => \A img \in Images : MapOf(img)' = MapOf(img)
<1>1. \A img \in Images : DOMAIN img = 1 .. Len(img) BY ImageFacts
<1> QED BY <1>1 DEF MapOf, RowsUpTo

\* A container is one of an image, a collection is none.
LEMMA Kinds ==
    /\ ~IsImage(Absent) /\ ~IsCollection(Absent)
    /\ \A d : IsContainerRecord(d) => IsImage(d) /\ ~IsCollection(d)
    /\ \A d : IsCollectionRecord(d) => IsCollection(d) /\ ~IsImage(d)
<1>1. ~IsImage(Absent) /\ ~IsCollection(Absent) BY DEF IsImage, IsCollection
<1>2. ASSUME NEW d, IsContainerRecord(d) PROVE IsImage(d) /\ ~IsCollection(d)
  <2>1. DOMAIN d = ContainerFiles BY <1>2 DEF IsContainerRecord
  <2>2. DOMAIN Absent = {"absent"} BY DEF Absent
  <2>3. "chunks" \in DOMAIN d /\ "objects" \notin DOMAIN d /\ "chunks" \notin DOMAIN Absent
    BY <2>1, <2>2 DEF ContainerFiles, FilesList
  <2> QED BY <2>3 DEF IsImage, IsCollection
<1>3. ASSUME NEW d, IsCollectionRecord(d) PROVE IsCollection(d) /\ ~IsImage(d)
  <2>1. DOMAIN d = {"objects", "provenance", "index", "edges", "acquisition", "manifest"}
    BY <1>3 DEF IsCollectionRecord
  <2>2. DOMAIN Absent = {"absent"} BY DEF Absent
  <2>3. "objects" \in DOMAIN d /\ "chunks" \notin DOMAIN d /\ "objects" \notin DOMAIN Absent BY <2>1, <2>2
  <2> QED BY <2>3 DEF IsImage, IsCollection
<1> QED BY <1>1, <1>2, <1>3

\* A complete container is one of an image.
LEMMA MadeKept ==
    ASSUME NEW c, NEW ky \in BOOLEAN, NEW img \in Images
    PROVE  ImageKept(Made(c, ky, img, 8), c)
<1> DEFINE m == Made(c, ky, img, 8)
<1>1. m.map = RowsUpTo(c, img, Len(img)) /\ m.provenance = <<"converted">> BY DEF Made
<1>2. m.hmac = IF ky THEN ManifestOf(img) ELSE Missing BY DEF Made
<1>3. IsContainerRecord(m) BY DEF Made, IsContainerRecord, ContainerFiles, FilesList
<1> HIDE DEF m
<1>4. m.map \in Maps(c) BY <1>1 DEF Maps
<1>5. m.hmac \in Sidecars BY <1>2 DEF Sidecars
<1>6. m.provenance \in Histories BY <1>1 DEF Histories
<1>7. ImageKept(m, c) BY <1>3, <1>4, <1>5, <1>6 DEF ImageKept
<1> QED BY <1>7 DEF m

\* The index of a collection has only such rows.
LEMMA IndexKept ==
    ASSUME NEW q \in Collectors, NEW tree \in FileTrees
    PROVE  IndexOf(q, tree) \in Seq(IndexRows)
<1>1. Len(tree) \in Nat /\ DOMAIN tree = 1 .. Len(tree) BY TreeFacts
<1> DEFINE R(k) == IF k = 1 THEN RootRow(q) ELSE FileRow(tree[k - 1])
<1>2. ASSUME NEW k \in 1 .. Len(tree) + 1 PROVE R(k) \in IndexRows
  <2>1. CASE k = 1 BY <2>1 DEF IndexRows
  <2>2. CASE k # 1
    <3>1. k - 1 \in DOMAIN tree BY <1>1, <2>2
    <3>2. tree[k - 1] \in Range(tree) BY <3>1 DEF Range
    <3> QED BY <2>2, <3>2 DEF IndexRows
  <2> QED BY <2>1, <2>2
<1>3. IndexOf(q, tree) = [k \in 1 .. Len(tree) + 1 |-> R(k)] BY DEF IndexOf
<1> HIDE DEF R
<1> QED BY <1>1, <1>2, <1>3

\* A collection in the making is a collection.
LEMMA CollectionOkKept ==
    ASSUME NEW d, NEW begun, begun \subseteq Collectors, NEW fs, \A q \in begun : fs[q] \in FileTrees,
           CollectionOk(d, begun, fs)
    PROVE  CollectionKept(d)
BY IndexKept DEF CollectionOk, CollectionKept

\* What an update leaves of a function.
LEMMA RecordUpdate ==
    ASSUME NEW d, NEW names, d = [n \in names |-> d[n]], NEW f, NEW x
    PROVE  /\ [d EXCEPT ![f] = x] = [n \in names |-> IF n = f THEN x ELSE d[n]]
           /\ [d EXCEPT ![f] = x] = [n \in names |-> [d EXCEPT ![f] = x][n]]
OBVIOUS

\* One file of a container is replaced by something it may hold.
LEMMA ImageKeptUpdate ==
    ASSUME NEW c, NEW d, ImageKept(d, c), NEW f \in FilesList, NEW x,
           f = "map" => x \in Maps(c), f = "hmac" => x \in Sidecars, f = "provenance" => x \in Histories
    PROVE  ImageKept([d EXCEPT ![f] = x], c)
<1> DEFINE e == [d EXCEPT ![f] = x]
<1>1. IsContainerRecord(d) /\ d.map \in Maps(c) /\ d.hmac \in Sidecars /\ d.provenance \in Histories
  BY DEF ImageKept
<1>2. IsContainerRecord(e) BY <1>1, RecordUpdate DEF IsContainerRecord
<1>3. "map" \in ContainerFiles /\ "hmac" \in ContainerFiles /\ "provenance" \in ContainerFiles
  BY DEF ContainerFiles, FilesList
<1>4. \A n \in ContainerFiles : e[n] = IF n = f THEN x ELSE d[n] BY <1>1, RecordUpdate DEF IsContainerRecord
<1> HIDE DEF e
<1>6. e.map \in Maps(c) BY <1>1, <1>3, <1>4
<1>7. e.hmac \in Sidecars BY <1>1, <1>3, <1>4
<1>8. e.provenance \in Histories BY <1>1, <1>3, <1>4
<1>9. ImageKept(e, c) BY <1>2, <1>6, <1>7, <1>8 DEF ImageKept
<1> QED BY <1>9 DEF e

\* A damaged container is still one of an image.
LEMMA DamagedImageKept ==
    ASSUME NEW c, ImageKept(c, comp), NEW d \in DamagedFiles(c) \cup DamagedChunks(c)
    PROVE  ImageKept(d, comp)
<1>1. Missing \in Maps(comp) /\ Garbled \in Maps(comp) /\ Missing \in Sidecars /\ Missing \in Histories
      /\ <<>> \in Histories
  BY DEF Maps, Sidecars, Histories
<1>2. ASSUME NEW f \in Range(Files), d = [c EXCEPT ![f] = Missing] PROVE ImageKept(d, comp)
  <2>1. f \in FilesList BY FilesAre
  <2> QED BY <1>1, <1>2, <2>1, ImageKeptUpdate
<1>3. ASSUME NEW f \in {"tree", "map", "acquisition", "manifest"}, d = [c EXCEPT ![f] = Garbled]
      PROVE  ImageKept(d, comp)
  <2>1. f \in FilesList /\ f # "hmac" /\ f # "provenance" BY DEF FilesList
  <2> QED BY <1>1, <1>3, <2>1, ImageKeptUpdate
<1>4. ASSUME NEW f \in {"tree", "map", "leaves", "manifest", "hmac"}, NEW img \in Images \ {<<>>},
             d = [c EXCEPT ![f] = Other(f, img)]
      PROVE  ImageKept(d, comp)
  <2>1. f \in FilesList /\ f # "provenance" BY DEF FilesList
  <2>2. f = "map" => Other(f, img) \in Maps(comp)
    <3>1. Other("map", img) = MapOf(img) BY DEF Other
    <3>2. MapOf(img) \in Maps(comp) BY MapOfIs DEF Maps
    <3> QED BY <3>1, <3>2
  <2>3. f = "hmac" => Other(f, img) \in Sidecars
    <3>1. Other("hmac", img) = ManifestOf(img) BY DEF Other
    <3> QED BY <3>1 DEF Sidecars
  <2> QED BY <1>4, <2>1, <2>2, <2>3, ImageKeptUpdate
<1>5. ASSUME NEW x, d = [c EXCEPT !.manifest = x] PROVE ImageKept(d, comp)
  <2>1. "manifest" \in FilesList BY DEF FilesList
  <2>2. ImageKept([c EXCEPT !["manifest"] = x], comp) BY <2>1, ImageKeptUpdate
  <2> QED BY <1>5, <2>2
<1>6. CASE d = [c EXCEPT !.provenance = <<>>]
  <2>1. "provenance" \in FilesList BY DEF FilesList
  <2>2. ImageKept([c EXCEPT !["provenance"] = <<>>], comp) BY <1>1, <2>1, ImageKeptUpdate
  <2> QED BY <1>6, <2>2
<1>7. ASSUME NEW x, d = [c EXCEPT !.chunks = x] PROVE ImageKept(d, comp)
  <2>1. IsContainerRecord(c) /\ c.map \in Maps(comp) /\ c.hmac \in Sidecars /\ c.provenance \in Histories
    BY DEF ImageKept
  <2>2. IsContainerRecord(d) BY <1>7, <2>1, RecordUpdate DEF IsContainerRecord
  <2>3. d.map = c.map /\ d.hmac = c.hmac /\ d.provenance = c.provenance
    BY <1>7, <2>1 DEF IsContainerRecord, ContainerFiles, FilesList
  <2> QED BY <2>1, <2>2, <2>3 DEF ImageKept
<1>8. CASE d \in DamagedFiles(c)
  <2>1. \/ d \in {[c EXCEPT ![f] = Missing] : f \in Range(Files)}
        \/ d \in {[c EXCEPT ![f] = Garbled] : f \in {"tree", "map", "acquisition", "manifest"}}
        \/ d \in {[c EXCEPT ![f] = Other(f, img)] :
                     f \in {"tree", "map", "leaves", "manifest", "hmac"}, img \in Images \ {<<>>}}
        \/ d = [c EXCEPT !.manifest = NoHashes]
        \/ d = [c EXCEPT !.provenance = <<>>]
    BY <1>8 DEF DamagedFiles
  <2> QED BY <2>1, <1>2, <1>3, <1>4, <1>5, <1>6
<1>9. CASE d \in DamagedChunks(c)
  <2>1. PICK h \in DOMAIN c.chunks :
          d \in {[c EXCEPT !.chunks[h] = other] : other \in {Compress(comp, b) : b \in Blocks} \cup {Garbled}}
                \cup {[c EXCEPT !.chunks = [g \in DOMAIN @ \ {h} |-> @[g]]]}
    BY <1>9 DEF DamagedChunks
  <2>2. \E x : d = [c EXCEPT !.chunks = x]
    <3>1. CASE \E other : d = [c EXCEPT !.chunks[h] = other]
      <4>1. PICK other : d = [c EXCEPT !.chunks[h] = other] BY <3>1
      <4>2. d = [c EXCEPT !.chunks = [c.chunks EXCEPT ![h] = other]] BY <4>1
      <4> QED BY <4>2
    <3>2. CASE d = [c EXCEPT !.chunks = [g \in DOMAIN @ \ {h} |-> @[g]]]
      <4>1. d = [c EXCEPT !.chunks = [g \in DOMAIN c.chunks \ {h} |-> c.chunks[g]]] BY <3>2
      <4> QED BY <4>1
    <3> QED BY <2>1, <3>1, <3>2
  <2> QED BY <2>2, <1>7
<1> QED BY <1>8, <1>9

\* A damaged collection is still a collection.
LEMMA DamagedCollectionKept ==
    ASSUME NEW c, CollectionKept(c), NEW d \in DamagedCollections(c)
    PROVE  CollectionKept(d)
<1>1. IsCollectionRecord(c) /\ c.index \in {Missing, Garbled} \cup Seq(IndexRows) BY DEF CollectionKept
<1>2. ASSUME NEW f \in {"index", "edges", "manifest"}, NEW bad \in {Missing, Garbled}, d = [c EXCEPT ![f] = bad]
      PROVE  CollectionKept(d)
  <2>1. CASE f = "index"
    <3>1. d = [c EXCEPT !.index = bad] BY <1>2, <2>1
    <3>2. IsCollectionRecord(d) /\ d.index = bad BY <1>1, <3>1 DEF IsCollectionRecord
    <3> QED BY <3>2 DEF CollectionKept
  <2>2. CASE f \in {"edges", "manifest"}
    <3>1. IsCollectionRecord(d) /\ d.index = c.index BY <1>1, <1>2, <2>2 DEF IsCollectionRecord
    <3> QED BY <1>1, <3>1 DEF CollectionKept
  <2> QED BY <2>1, <2>2
<1>3. ASSUME NEW x, d = [c EXCEPT !.objects = x] PROVE CollectionKept(d)
  <2>1. IsCollectionRecord(d) /\ d.index = c.index BY <1>1, <1>3 DEF IsCollectionRecord
  <2> QED BY <1>1, <2>1 DEF CollectionKept
<1>4. ASSUME NEW n \in DOMAIN c.index, Parses(c.index), d = [c EXCEPT !.index = RemoveAt(@, n)]
      PROVE  CollectionKept(d)
  <2>1. c.index \in Seq(IndexRows) BY <1>1, <1>4 DEF Parses
  <2>2. RemoveAt(c.index, n) \in Seq(IndexRows) BY <2>1, <1>4 DEF RemoveAt
  <2>3. d = [c EXCEPT !.index = RemoveAt(c.index, n)] BY <1>4
  <2>4. IsCollectionRecord(d) /\ d.index = RemoveAt(c.index, n) BY <1>1, <2>3 DEF IsCollectionRecord
  <2> QED BY <2>2, <2>4 DEF CollectionKept
<1>5. CASE d \in DamagedTables(c) BY <1>2, <1>5 DEF DamagedTables
<1>6. CASE d \in DamagedObjects(c)
  <2>1. PICK h \in DOMAIN c.objects :
          d \in {[c EXCEPT !.objects[h] = x] : x \in Blocks \cup {Garbled}}
                \cup {[c EXCEPT !.objects = [g \in DOMAIN @ \ {h} |-> @[g]]]}
    BY <1>6 DEF DamagedObjects
  <2>2. CASE \E x : d = [c EXCEPT !.objects[h] = x]
    <3>1. PICK x : d = [c EXCEPT !.objects[h] = x] BY <2>2
    <3>2. d = [c EXCEPT !.objects = [c.objects EXCEPT ![h] = x]] BY <3>1
    <3> QED BY <3>2, <1>3
  <2>3. CASE d = [c EXCEPT !.objects = [g \in DOMAIN @ \ {h} |-> @[g]]]
    <3>1. d = [c EXCEPT !.objects = [g \in DOMAIN c.objects \ {h} |-> c.objects[g]]] BY <2>3
    <3> QED BY <3>1, <1>3
  <2> QED BY <2>1, <2>2, <2>3
<1>7. CASE Parses(c.index) /\ d \in {[c EXCEPT !.index = RemoveAt(@, n)] : n \in DOMAIN c.index}
  BY <1>4, <1>7
<1> QED BY <1>5, <1>6, <1>7 DEF DamagedCollections

\* A step of a converter publishes its directory to the free output, or leaves
\* the outputs and what the converters that are done have.
LEMMA ConvertOut ==
    ASSUME Types, NEW p \in Converters, Convert(p)
    PROVE  /\ damage' = damage
           /\ \/ /\ run[p] = "publish" /\ out[Main] = Absent
                 /\ run' = [run EXCEPT ![p] = "done"] /\ out' = [out EXCEPT ![Main] = tmp[p]]
                 /\ image' = image
              \/ /\ out' = out
                 /\ run[p] # "done" /\ run'[p] # "done"
<1>0. p \in Tools BY DEF Tools
<1>1. \A from, to : Step(p, from, to) => run[p] = from /\ run'[p] = to
  BY <1>0 DEF Step, Types
<1>2. CASE Start(p) \/ MakeTmp(p) \/ BadArgument(p) \/ WriteChunk(p) \/ EndOfImage(p)
  BY <1>1, <1>2 DEF Start, Begin, MakeTmp, BadArgument, WriteChunk, EndOfImage
<1>3. CASE WriteFile(p)
  <2>1. PICK n \in 1 .. 7 : Step(p, Files[n], IF n < Len(Files) THEN Files[n + 1] ELSE "check")
    BY <1>3, FilesAre DEF WriteFile
  <2>2. Files[n] # "done" BY FilesDiffer
  <2>3. (IF n < Len(Files) THEN Files[n + 1] ELSE "check") # "done"
    <3>1. n < Len(Files) => n + 1 \in 1 .. 7 BY FilesAre
    <3> QED BY <3>1, FilesDiffer
  <2>4. out' = out /\ damage' = damage BY <1>3 DEF WriteFile
  <2> QED BY <1>1, <2>1, <2>2, <2>3, <2>4
<1>4. CASE SelfCheck(p) BY <1>1, <1>4 DEF SelfCheck
<1>5. CASE Fail(p)
  <2>1. PICK from \in {"chunks", "check"} \cup Range(Files) : Step(p, from, "failed") BY <1>5 DEF Fail
  <2>2. from # "done" BY FilesAre DEF FilesList
  <2>3. out' = out /\ damage' = damage BY <1>5 DEF Fail
  <2> QED BY <1>1, <2>1, <2>2, <2>3
<1>6. CASE Crash(p)
  <2>1. run[p] # "done" /\ run'[p] = "crashed" BY <1>1, <1>6 DEF Crash, Ended
  <2> QED BY <1>6, <2>1 DEF Crash
<1>7. CASE Publish(p)
  <2>1. damage' = damage /\ image' = image /\ run[p] = "publish" BY <1>7 DEF Publish, Rename
  <2>2. CASE tmp[p] # Absent /\ out[Main] = Absent
    <3>1. run' = [run EXCEPT ![p] = "done"] /\ out' = [out EXCEPT ![Main] = tmp[p]]
      BY <1>7, <2>2 DEF Publish, Rename, Step
    <3> QED BY <2>1, <2>2, <3>1
  <2>3. CASE ~(tmp[p] # Absent /\ out[Main] = Absent)
    <3>1. Step(p, "publish", "failed") /\ out' = out BY <1>7, <2>3 DEF Publish, Rename
    <3> QED BY <1>1, <2>1, <3>1
  <2> QED BY <2>2, <2>3
<1> QED BY <1>2, <1>3, <1>4, <1>5, <1>6, <1>7 DEF Convert

\* A step of a collector does the same.
LEMMA CollectOut ==
    ASSUME Types, NEW p \in Collectors, Collect(p)
    PROVE  /\ damage' = damage
           /\ \/ /\ run[p] = "publish" /\ out[target[p]] = Absent /\ shared # Absent
                 /\ run'[p] = "done" /\ out' = [out EXCEPT ![target[p]] = shared]
                 /\ files' = files /\ target' = target /\ met' = met
              \/ /\ out' = out
                 /\ run[p] # "done" /\ run'[p] # "done"
<1>0. p \in Tools BY DEF Tools
<1>1. \A from, to : Step(p, from, to) => run[p] = from /\ run'[p] = to
  BY <1>0 DEF Step, Types
<1>2. CASE PublishCollection(p)
  <2>1. damage' = damage /\ run[p] = "publish" /\ files' = files /\ target' = target /\ met' = met
    BY <1>2 DEF PublishCollection, Rename
  <2>2. CASE shared # Absent /\ out[target[p]] = Absent
    <3>1. Step(p, "publish", "done") /\ out' = [out EXCEPT ![target[p]] = shared]
      BY <1>2, <2>2 DEF PublishCollection, Rename
    <3> QED BY <1>1, <2>1, <2>2, <3>1
  <2>3. CASE ~(shared # Absent /\ out[target[p]] = Absent)
    <3>1. Step(p, "publish", "failed") /\ out' = out BY <1>2, <2>3 DEF PublishCollection, Rename
    <3> QED BY <1>1, <2>1, <3>1
  <2> QED BY <2>2, <2>3
<1>3. CASE CrashCollection(p)
  <2>1. run[p] # "done" /\ run'[p] = "crashed" BY <1>1, <1>3 DEF CrashCollection, Running, Ended
  <2> QED BY <1>3, <2>1 DEF CrashCollection
<1>4. CASE BeginCollection(p) BY <1>1, <1>4 DEF BeginCollection, Begin
<1>5. CASE Clear(p) \/ MakeShared(p) \/ OpenLog(p) \/ Store(p) \/ LogFile(p) \/ WriteIndex(p)
           \/ WriteEdges(p) \/ WriteAcquisition(p) \/ WriteManifest(p) \/ Complete(p)
  BY <1>1, <1>5 DEF Clear, MakeShared, OpenLog, Store, LogFile, Log, WriteIndex, WriteEdges, WriteAcquisition,
                    WriteManifest, Complete
<1>6. CASE FailCollection(p)
  BY <1>1, <1>6 DEF FailCollection
<1> QED BY <1>2, <1>3, <1>4, <1>5, <1>6 DEF Collect

\* What is published stays right when outputs, damage and the converters that
\* are done stay as they are.
LEMMA OutInvQuiet ==
    ASSUME OutInv, out' = out, damage' = damage, comp' = comp, key' = key,
           \A q \in Converters : run'[q] = "done" <=> run[q] = "done",
           \A q \in Converters : run[q] = "done" => image'[q] = image[q],
           Begun \subseteq Begun', \A q \in Begun : files'[q] = files[q]
    PROVE  OutInv'
<1>1. (\A o \in Outputs : out[o] = Absent \/ CollectionKept(out[o]) \/ (o = Main /\ ImageKept(out[o], comp)))'
  BY DEF OutInv
<1>2. (\A o \in Outputs : damage = 0 /\ IsCollection(out[o]) => CollectionOk(out[o], Begun, files))'
  <2>1. ASSUME NEW o \in Outputs, damage = 0, IsCollection(out[o])
        PROVE  CollectionOk(out[o], Begun', files')
    BY <2>1, CollectionOkMore DEF OutInv
  <2> QED BY <2>1
<1>3. (\A p \in Converters : run[p] = "done" => DoneOk(p))'
  <2>1. ASSUME NEW p \in Converters, run'[p] = "done" PROVE DoneOk(p)'
    <3>1. run[p] = "done" /\ image'[p] = image[p] /\ DoneOk(p) BY <2>1 DEF OutInv
    <3> QED BY <3>1 DEF DoneOk
  <2> QED BY <2>1
<1>4. (IsImage(out[Main]) => \E p \in Converters : run[p] = "done")'
  BY DEF OutInv
<1> QED BY <1>1, <1>2, <1>3, <1>4 DEF OutInv

\* The invariant of the outputs holds initially.
LEMMA OutInvInit == Init => OutInv
<1> SUFFICES ASSUME Init PROVE OutInv OBVIOUS
<1>1. \A o \in Outputs : out[o] = Absent BY DEF Init, InitPublication
<1>2. \A p \in Converters : run[p] # "done" BY DEF Init, InitPublication, Tools
<1>3. Main \in Outputs BY ConversionAssumption
<1> QED BY <1>1, <1>2, <1>3, Kinds DEF OutInv

\* A converter publishes.
LEMMA OutInvConverted ==
    ASSUME Types, ConvInv, OutInv, NEW p \in Converters,
           run[p] = "publish", out[Main] = Absent, damage' = damage, comp' = comp, key' = key,
           run' = [run EXCEPT ![p] = "done"], out' = [out EXCEPT ![Main] = tmp[p]],
           image' = image, files' = files
    PROVE  OutInv'
<1>0. p \in Tools /\ Main \in Outputs BY ConversionAssumption DEF Tools
<1>1. image[p] \in Images /\ image[p] # <<>> /\ tmp[p] = Made(comp, key, image[p], 8)
  BY DEF ConvInv, Converting, ConvOk
<1>2. ImageKept(tmp[p], comp)
  <2>1. key \in BOOLEAN BY DEF Types
  <2> QED BY <1>1, <2>1, MadeKept
<1>3. IsImage(tmp[p]) /\ ~IsCollection(tmp[p]) BY <1>2, Kinds DEF ImageKept
<1>4. out'[Main] = tmp[p] /\ \A o \in Outputs \ {Main} : out'[o] = out[o] BY <1>0 DEF Types
<1>5. run'[p] = "done" /\ \A q \in Tools \ {p} : run'[q] = run[q] BY <1>0 DEF Types
<1>6. \A q \in Converters : run[q] # "done" BY Kinds DEF OutInv, DoneOk
<1>7. Begun' = Begun
  <2>1. \A q \in Collectors : run'[q] # "idle" <=> run[q] # "idle" BY <1>0, <1>5 DEF Tools
  <2> QED BY <2>1 DEF Begun
<1>8. (\A o \in Outputs : out[o] = Absent \/ CollectionKept(out[o]) \/ (o = Main /\ ImageKept(out[o], comp)))'
  BY <1>2, <1>4 DEF OutInv
<1>9. (\A o \in Outputs : damage = 0 /\ IsCollection(out[o]) => CollectionOk(out[o], Begun, files))'
  <2>1. ASSUME NEW o \in Outputs, damage = 0, IsCollection(out'[o]) PROVE CollectionOk(out'[o], Begun, files)
    <3>1. out'[o] = out[o] BY <2>1, <1>3, <1>4
    <3> QED BY <2>1, <3>1 DEF OutInv
  <2> QED BY <2>1, <1>7
<1>10. (\A q \in Converters : run[q] = "done" => DoneOk(q))'
  <2>1. ASSUME NEW q \in Converters, run'[q] = "done" PROVE DoneOk(q)'
    <3>1. q = p BY <1>5, <1>6, <2>1 DEF Tools
    <3>2. \A r \in Converters \ {p} : run'[r] # "done" BY <1>5, <1>6 DEF Tools
    <3> QED BY <1>1, <1>3, <1>4, <3>1, <3>2 DEF DoneOk
  <2> QED BY <2>1
<1>11. (IsImage(out[Main]) => \E q \in Converters : run[q] = "done")' BY <1>5
<1> QED BY <1>8, <1>9, <1>10, <1>11 DEF OutInv

\* A collector publishes.
LEMMA OutInvCollected ==
    ASSUME Types, CollectInv, OutInv, NEW p \in Collectors,
           run[p] = "publish", shared # Absent, out[target[p]] = Absent, damage' = damage, comp' = comp, key' = key,
           run' \in [Tools -> ToolSteps], run'[p] = "done", \A q \in Tools \ {p} : run'[q] = run[q],
           out' = [out EXCEPT ![target[p]] = shared], image' = image, files' = files
    PROVE  OutInv'
<1> DEFINE t == target[p]
<1>0. p \in Tools /\ Main \in Outputs BY ConversionAssumption DEF Tools
<1>1. t \in Outputs BY DEF CollectInv, Collecting, CollectorOk
<1>2. CollectionOk(shared, Begun, files) BY DEF CollectInv
<1>3. CollectionKept(shared)
  <2>1. Begun \subseteq Collectors BY DEF Begun
  <2>2. \A q \in Begun : files[q] \in FileTrees BY DEF Begun, CollectInv, Collecting, CollectorOk
  <2> QED BY <1>2, <2>1, <2>2, CollectionOkKept
<1>4. IsCollection(shared) /\ ~IsImage(shared) BY <1>3, Kinds DEF CollectionKept
<1>5. out'[t] = shared /\ \A o \in Outputs \ {t} : out'[o] = out[o] BY <1>1 DEF Types
<1>6. Begun' = Begun BY <1>0 DEF Begun, Tools
<1>7. \A q \in Converters : run'[q] = run[q] BY <1>0, ToolsAssumption DEF Tools
<1> HIDE DEF t
<1>8. (\A o \in Outputs : out[o] = Absent \/ CollectionKept(out[o]) \/ (o = Main /\ ImageKept(out[o], comp)))'
  BY <1>3, <1>5 DEF OutInv
<1>9. (\A o \in Outputs : damage = 0 /\ IsCollection(out[o]) => CollectionOk(out[o], Begun, files))'
  <2>1. ASSUME NEW o \in Outputs, damage = 0, IsCollection(out'[o]) PROVE CollectionOk(out'[o], Begun, files)
    <3>1. CASE o = t BY <3>1, <1>2, <1>5
    <3>2. CASE o # t
      <4>1. out'[o] = out[o] BY <3>2, <1>5
      <4> QED BY <2>1, <4>1 DEF OutInv
    <3> QED BY <3>1, <3>2
  <2> QED BY <2>1, <1>6
<1>10. \A q \in Converters : run[q] = "done" => t # Main BY Kinds DEF OutInv, DoneOk, t
<1>11. (\A q \in Converters : run[q] = "done" => DoneOk(q))'
  <2>1. ASSUME NEW q \in Converters, run'[q] = "done" PROVE DoneOk(q)'
    <3>1. run[q] = "done" /\ DoneOk(q) BY <1>7, <2>1 DEF OutInv
    <3>2. out'[Main] = out[Main] BY <1>0, <1>5, <1>10, <3>1
    <3> QED BY <1>7, <3>1, <3>2 DEF DoneOk
  <2> QED BY <2>1
<1>12. (IsImage(out[Main]) => \E q \in Converters : run[q] = "done")'
  <2>1. ASSUME IsImage(out'[Main]) PROVE \E q \in Converters : run'[q] = "done"
    <3>1. t # Main BY <1>4, <1>5, <2>1
    <3>2. out'[Main] = out[Main] BY <1>0, <1>5, <3>1
    <3> QED BY <1>7, <2>1, <3>2 DEF OutInv
  <2> QED BY <2>1
<1> QED BY <1>8, <1>9, <1>11, <1>12 DEF OutInv

\* What is published is damaged.
LEMMA OutInvDamaged ==
    ASSUME Types, OutInv, NEW o \in Outputs, NEW dir,
           \/ CollectionKept(dir) /\ IsCollection(out[o])
           \/ o = Main /\ ImageKept(dir, comp) /\ IsImage(out[Main]),
           damage' = damage + 1, out' = [out EXCEPT ![o] = dir], run' = run, comp' = comp, key' = key,
           image' = image
    PROVE  OutInv'
<1>0. Main \in Outputs BY ConversionAssumption
<1>1. out'[o] = dir /\ \A u \in Outputs \ {o} : out'[u] = out[u] BY DEF Types
<1>2. damage' # 0 BY DEF Types
<1>3. (\A u \in Outputs : out[u] = Absent \/ CollectionKept(out[u]) \/ (u = Main /\ ImageKept(out[u], comp)))'
  BY <1>1 DEF OutInv
<1>4. IsImage(out'[Main]) <=> IsImage(out[Main])
  <2>1. CASE o # Main BY <1>0, <1>1, <2>1
  <2>2. CASE o = Main /\ ImageKept(dir, comp) /\ IsImage(out[Main])
    BY <1>1, <2>2, Kinds DEF ImageKept
  <2>3. CASE o = Main /\ CollectionKept(dir) /\ IsCollection(out[o])
    <3>1. ~IsImage(dir) BY <2>3, Kinds DEF CollectionKept
    <3>2. ~IsImage(out[o])
      <4>1. (out[o] # Absent /\ ~IsImage(out[o])) \/ ImageKept(out[o], comp)
        BY <2>3, Kinds DEF OutInv, CollectionKept
      <4>2. ~ImageKept(out[o], comp) BY <2>3, Kinds DEF ImageKept
      <4> QED BY <4>1, <4>2
    <3> QED BY <1>1, <2>3, <3>1, <3>2
  <2> QED BY <2>1, <2>2, <2>3
<1>5. (\A q \in Converters : run[q] = "done" => DoneOk(q))'
  BY <1>2, <1>4 DEF OutInv, DoneOk
<1> QED BY <1>2, <1>3, <1>4, <1>5 DEF OutInv

\* Each step keeps it.
LEMMA OutInvNext == Types /\ ConvInv /\ CollectInv /\ OutInv /\ [Next]_vars => OutInv'
<1> SUFFICES ASSUME Types, ConvInv, CollectInv, OutInv, [Next]_vars PROVE OutInv' OBVIOUS
<1>1. CASE UNCHANGED vars
  <2>1. out' = out /\ damage' = damage /\ comp' = comp /\ key' = key /\ run' = run /\ image' = image
        /\ files' = files
    BY <1>1 DEF vars, convertVars, collectVars
  <2>2. Begun' = Begun BY <2>1 DEF Begun
  <2> QED BY <2>1, <2>2, OutInvQuiet
<1>2. ASSUME NEW p \in Converters, Convert(p), UNCHANGED collectVars PROVE OutInv'
  <2>0. p \in Tools /\ files' = files BY <1>2 DEF collectVars, Tools
  <2>1. \A q \in Converters \ {p} : run'[q] = run[q] /\ image'[q] = image[q] BY <1>2, ConvertFrame
  <2>2. comp' = comp /\ key' = key
    BY <1>2 DEF Convert, Start, MakeTmp, BadArgument, WriteChunk, EndOfImage, WriteFile, SelfCheck, Publish,
                Fail, Crash, convertVars
  <2>3. CASE /\ run[p] = "publish" /\ out[Main] = Absent
             /\ run' = [run EXCEPT ![p] = "done"] /\ out' = [out EXCEPT ![Main] = tmp[p]]
             /\ image' = image
    BY <1>2, <2>0, <2>2, <2>3, ConvertOut, OutInvConverted
  <2>4. CASE out' = out /\ run[p] # "done" /\ run'[p] # "done"
    <3>1. \A from, to : Step(p, from, to) => \A q \in Tools \ {p} : run'[q] = run[q]
      BY <2>0 DEF Step, Types
    <3>2. \A q \in Tools \ {p} : run'[q] = run[q]
      BY <1>2, <3>1 DEF Convert, Start, Begin, MakeTmp, BadArgument, WriteChunk, EndOfImage, WriteFile, SelfCheck,
                        Publish, Rename, Fail, Crash
    <3>3. Begun' = Begun BY <2>0, <3>2, ToolsAssumption DEF Begun, Tools
    <3>4. damage' = damage BY <1>2, ConvertOut
    <3> QED BY <2>0, <2>1, <2>2, <2>4, <3>3, <3>4, OutInvQuiet
  <2> QED BY <1>2, <2>3, <2>4, ConvertOut
<1>3. ASSUME NEW p \in Collectors, Collect(p), UNCHANGED convertVars PROVE OutInv'
  <2>0. p \in Tools /\ comp' = comp /\ key' = key /\ image' = image BY <1>3 DEF convertVars, Tools
  <2>1. \A q \in Tools \ {p} : run'[q] = run[q] BY <1>3, CollectFrame
  <2>2. CASE /\ run[p] = "publish" /\ out[target[p]] = Absent /\ shared # Absent
             /\ run'[p] = "done" /\ out' = [out EXCEPT ![target[p]] = shared]
             /\ files' = files
    <3>1. run' \in [Tools -> ToolSteps]
      <4>1. Types' BY <1>3, CollectTypes
      <4> QED BY <4>1 DEF Types
    <3>2. damage' = damage BY <1>3, CollectOut
    <3> QED BY <2>0, <2>1, <2>2, <3>1, <3>2, OutInvCollected
  <2>3. CASE out' = out /\ run[p] # "done" /\ run'[p] # "done"
    <3>1. \A q \in Converters : run'[q] = run[q] BY <2>0, <2>1, ToolsAssumption DEF Tools
    <3>2. Begun \subseteq Begun' /\ \A q \in Begun : files'[q] = files[q] BY <1>3, CollectFrame
    <3>3. damage' = damage BY <1>3, CollectOut
    <3> QED BY <2>0, <2>3, <3>1, <3>2, <3>3, OutInvQuiet
  <2> QED BY <1>3, <2>2, <2>3, CollectOut
<1>4. CASE DamageImage /\ UNCHANGED collectVars
  <2>1. PICK dir \in DamagedFiles(out[Main]) \cup DamagedChunks(out[Main]) : Damages(Main, dir)
    BY <1>4 DEF DamageImage
  <2>2. IsImage(out[Main]) BY <1>4 DEF DamageImage
  <2>3. Main \in Outputs BY ConversionAssumption
  <2>4. ImageKept(out[Main], comp) BY <2>2, <2>3, Kinds DEF OutInv, CollectionKept
  <2>5. ImageKept(dir, comp) BY <2>4, DamagedImageKept
  <2>6. damage' = damage + 1 /\ out' = [out EXCEPT ![Main] = dir] /\ run' = run BY <2>1 DEF Damages
  <2>7. comp' = comp /\ key' = key /\ image' = image BY <1>4 DEF DamageImage, convertVars
  <2> QED BY <2>2, <2>3, <2>5, <2>6, <2>7, OutInvDamaged
<1>5. CASE DamageCollection /\ UNCHANGED convertVars
  <2>1. PICK o \in Outputs : IsCollection(out[o]) /\ \E dir \in DamagedCollections(out[o]) : Damages(o, dir)
    BY <1>5 DEF DamageCollection
  <2>2. PICK dir \in DamagedCollections(out[o]) : Damages(o, dir) BY <2>1
  <2>3. CollectionKept(out[o]) BY <2>1, Kinds DEF OutInv, ImageKept
  <2>4. CollectionKept(dir) BY <2>3, DamagedCollectionKept
  <2>5. damage' = damage + 1 /\ out' = [out EXCEPT ![o] = dir] /\ run' = run BY <2>2 DEF Damages
  <2>6. comp' = comp /\ key' = key /\ image' = image BY <1>5 DEF convertVars
  <2> QED BY <2>1, <2>4, <2>5, <2>6, OutInvDamaged
<1> QED BY <1>1, <1>2, <1>3, <1>4, <1>5 DEF Next

-----------------------------------------------------------------------------
(* A collector that works alone.                                           *)

\* The objects of the first n files, by their hash.
ObjectsUpTo(tree, n) == [h \in {Sha(tree[k].content) : k \in 1 .. n} |-> h[1]]

\* The provenance of a collection of n files.
EventsOf(p) == {<<p, event>> : event \in {"started", "collected", "completed"}}

\* A collection holds the first n files that p was given, and events of p.
OwnPart(d, p, tree, n) ==
    IsCollectionRecord(d) /\ d.objects = ObjectsUpTo(tree, n) /\ d.provenance \in Seq(EventsOf(p))

\* The same when all is there.
OwnWhole(d, p, tree) ==
    /\ OwnPart(d, p, tree, Len(tree))
    /\ d.index = IndexOf(p, tree) /\ d.edges = EdgesOf(p, tree) /\ d.manifest = CollectionManifest(p, tree)

\* What a collector that works alone has in the temporary directory.
AloneOk(s, p, tree, l, d) ==
    /\ s = "mkdir" => d = Absent
    /\ s = "open" => d = EmptyCollection
    /\ s \in {"store", "log"} => \E n \in 1 .. Len(tree) + 1 : l = ListedUpTo(p, tree, n) /\ OwnPart(d, p, tree, n - 1)
    /\ s \in {"edges", "acquisition", "manifest", "complete", "publish"} =>
          OwnPart(d, p, tree, Len(tree)) /\ d.index = IndexOf(p, tree)
    /\ s \in {"acquisition", "manifest", "complete", "publish"} => d.edges = EdgesOf(p, tree)
    /\ s \in {"complete", "publish"} => d.manifest = CollectionManifest(p, tree)

\* What is known of a collector that met no other.
Alone(p) == AloneOk(run[p], p, files[p], listed[p], shared)

\* The invariant of the collectors that met no other.
OwnInv ==
    /\ \A p \in Running \ met : Running = {p} /\ Alone(p)
    /\ \A p \in Collectors \ met : run[p] = "done" /\ damage = 0 => OwnWhole(out[target[p]], p, files[p])

\* The fields of a collection.
CollectionFiles == {"objects", "provenance", "index", "edges", "acquisition", "manifest"}

\* What a write to a collection leaves of it.
LEMMA Written ==
    ASSUME NEW d, IsCollectionRecord(d), NEW f \in CollectionFiles, NEW x, NEW e, e = [d EXCEPT ![f] = x]
    PROVE  IsCollectionRecord(e) /\ e[f] = x /\ \A n \in CollectionFiles \ {f} : e[n] = d[n]
<1>1. d = [n \in CollectionFiles |-> d[n]] BY DEF IsCollectionRecord, CollectionFiles
<1>2. e = [n \in CollectionFiles |-> IF n = f THEN x ELSE d[n]] BY <1>1, RecordUpdate
<1>3. e = [n \in CollectionFiles |-> e[n]] BY <1>2
<1>4. IsCollectionRecord(e) BY <1>3 DEF IsCollectionRecord, CollectionFiles
<1> QED BY <1>2, <1>4

\* Storing the next file adds its object, or finds it there.
LEMMA OwnObjects ==
    ASSUME NEW tree, NEW n \in Nat \ {0}
    PROVE  WithFile(ObjectsUpTo(tree, n - 1), Sha(tree[n].content), tree[n].content) = ObjectsUpTo(tree, n)
<1> DEFINE A == {Sha(tree[k].content) : k \in 1 .. n - 1}
           B == {Sha(tree[k].content) : k \in 1 .. n}
<1>1. B = A \cup {Sha(tree[n].content)} OBVIOUS
<1>2. Sha(tree[n].content)[1] = tree[n].content BY DEF Sha
<1> HIDE DEF A, B
<1>3. WithFile([h \in A |-> h[1]], Sha(tree[n].content), tree[n].content) = [h \in B |-> h[1]]
  BY <1>1, <1>2 DEF WithFile
<1> QED BY <1>3 DEF A, B, ObjectsUpTo

\* Before the first file there are none.
LEMMA NoObjects == ASSUME NEW tree PROVE ObjectsUpTo(tree, 0) = <<>>
<1>1. {Sha(tree[k].content) : k \in 1 .. 0} = {} OBVIOUS
<1> QED BY <1>1 DEF ObjectsUpTo

\* A directory with objects is there.
LEMMA OwnNotAbsent == ASSUME NEW d, IsCollectionRecord(d) PROVE d # Absent
BY Kinds DEF IsCollection

\* Each step of a collector that works alone.
LEMMA AloneNext ==
    ASSUME Types, CollectInv, NEW p \in Collectors, run[p] \notin Ended \cup {"idle"}, Alone(p), Collect(p)
    PROVE  Alone(p)'
<1>0. p \in Tools BY DEF Tools
<1>s. \A from, to : Step(p, from, to) => run[p] = from /\ run'[p] = to
  BY <1>0 DEF Step, Types
<1>f. files[p] \in FileTrees BY DEF CollectInv, Collecting, CollectorOk, Ended
<1>l. Len(files[p]) \in Nat BY <1>f, TreeFacts
<1>1. run[p] # "idle" BY DEF Ended
<1>2. ~BeginCollection(p) BY <1>1, <1>s DEF BeginCollection, Begin
<1>3. files'[p] = files[p] BY <1>1, CollectFrame
<1>b. ASSUME NEW n, OwnPart(shared, p, files[p], n) PROVE Base = shared
  BY <1>b, OwnNotAbsent DEF OwnPart, Base
<1>4. CASE Clear(p)
  <2>1. run'[p] = "mkdir" /\ shared' = Absent BY <1>4, <1>s DEF Clear
  <2> QED BY <2>1 DEF Alone, AloneOk
<1>5. CASE MakeShared(p)
  <2>1. run[p] = "mkdir" /\ run'[p] = "open" BY <1>5, <1>s DEF MakeShared
  <2>2. shared = Absent BY <2>1 DEF Alone, AloneOk
  <2>3. shared' = EmptyCollection BY <1>5, <2>2 DEF MakeShared, Base
  <2> QED BY <2>1, <2>3 DEF Alone, AloneOk
<1>6. CASE OpenLog(p)
  <2>1. run[p] = "open" /\ run'[p] = "store" BY <1>6, <1>s DEF OpenLog
  <2>2. shared = EmptyCollection BY <2>1 DEF Alone, AloneOk
  <2>3. IsCollectionRecord(EmptyCollection) /\ EmptyCollection.provenance = Missing /\ EmptyCollection.objects = <<>>
    BY DEF EmptyCollection, IsCollectionRecord
  <2>4. Base = EmptyCollection BY <2>2 DEF Base
  <2> DEFINE log == <<>> \o <<<<p, "started">>>>
  <2>5. shared' = [EmptyCollection EXCEPT !.provenance = log]
    BY <1>6, <2>3, <2>4 DEF OpenLog
  <2>6. log \in Seq(EventsOf(p))
    <3>1. <<p, "started">> \in EventsOf(p) BY DEF EventsOf
    <3> QED BY <3>1
  <2> HIDE DEF log
  <2>7. IsCollectionRecord(shared') /\ shared'.provenance \in Seq(EventsOf(p)) /\ shared'.objects = <<>>
    <3>1. "provenance" \in CollectionFiles /\ "objects" \in CollectionFiles BY DEF CollectionFiles
    <3>2. IsCollectionRecord(shared') /\ shared'["provenance"] = log
          /\ \A m \in CollectionFiles \ {"provenance"} : shared'[m] = EmptyCollection[m]
      BY <2>3, <2>5, <3>1, Written
    <3> QED BY <2>3, <2>6, <3>1, <3>2
  <2>8. OwnPart(shared', p, files'[p], 1 - 1) BY <2>7, NoObjects DEF OwnPart
  <2>9. listed'[p] = ListedUpTo(p, files'[p], 1)
    <3>1. listed'[p] = <<RootRow(p)>> BY <1>6 DEF OpenLog, Types
    <3>2. ListedUpTo(p, files'[p], 1) = <<RootRow(p)>> BY DEF ListedUpTo
    <3> QED BY <3>1, <3>2
  <2>10. 1 \in 1 .. Len(files'[p]) + 1 BY <1>3, <1>l
  <2> HIDE DEF Alone
  <2> QED BY <2>1, <2>8, <2>9, <2>10 DEF Alone, AloneOk
<1>7. CASE Store(p)
  <2>1. run[p] = "store" /\ run'[p] = "log" BY <1>7, <1>s DEF Store
  <2>2. PICK n \in 1 .. Len(files[p]) + 1 :
          listed[p] = ListedUpTo(p, files[p], n) /\ OwnPart(shared, p, files[p], n - 1)
    BY <2>1 DEF Alone, AloneOk
  <2>3. n \in Nat \ {0} BY <1>l
  <2>4. Len(listed[p]) = n BY <2>2, <2>3, ListedFacts
  <2>5. n <= Len(files[p]) BY <1>7, <2>4 DEF Store
  <2>6. Base = shared BY <2>2, <1>b
  <2>7. shared' = [shared EXCEPT !.objects = WithFile(shared.objects, Sha(files[p][n].content), files[p][n].content)]
    BY <1>7, <2>4, <2>6 DEF Store
  <2>8. listed'[p] = Append(listed[p], FileRow(files[p][n])) BY <1>7, <2>4 DEF Store, Types
  <2>9. listed'[p] = ListedUpTo(p, files[p], n + 1) BY <2>2, <2>3, <2>8, ListedFacts
  <2>10. shared' = [shared EXCEPT !.objects = ObjectsUpTo(files[p], n)] BY <2>2, <2>3, <2>7, OwnObjects DEF OwnPart
  <2>11. OwnPart(shared', p, files[p], (n + 1) - 1)
    <3>1. (n + 1) - 1 = n BY <2>3
    <3>2. IsCollectionRecord(shared) /\ shared.provenance \in Seq(EventsOf(p)) BY <2>2 DEF OwnPart
    <3>3. IsCollectionRecord(shared') /\ shared'.objects = ObjectsUpTo(files[p], n)
          /\ shared'.provenance = shared.provenance
      <4>1. "objects" \in CollectionFiles /\ "provenance" \in CollectionFiles BY DEF CollectionFiles
      <4> QED BY <2>10, <3>2, <4>1, Written
    <3> QED BY <3>1, <3>2, <3>3 DEF OwnPart
  <2>12. n + 1 \in 1 .. Len(files[p]) + 1 BY <2>3, <2>5, <1>l
  <2> QED BY <1>3, <2>1, <2>9, <2>11, <2>12 DEF Alone, AloneOk
<1>8. ASSUME NEW from, NEW event \in {"started", "collected", "completed"}, NEW to, Log(p, from, event, to),
             NEW n, OwnPart(shared, p, files[p], n)
      PROVE  /\ OwnPart(shared', p, files'[p], n)
             /\ shared'.index = shared.index /\ shared'.edges = shared.edges /\ shared'.manifest = shared.manifest
  <2> DEFINE log == Append(shared.provenance, <<p, event>>)
  <2>1. shared' = [shared EXCEPT !.provenance = log] BY <1>8 DEF Log
  <2>2. /\ IsCollectionRecord(shared)
        /\ shared.provenance \in Seq(EventsOf(p)) /\ shared.objects = ObjectsUpTo(files[p], n)
    BY <1>8 DEF OwnPart
  <2>3. log \in Seq(EventsOf(p))
    <3>1. <<p, event>> \in EventsOf(p) BY <1>8 DEF EventsOf
    <3> QED BY <2>2, <3>1
  <2> HIDE DEF log
  <2>4. IsCollectionRecord(shared') /\ shared'.objects = shared.objects
        /\ shared'.provenance = log
        /\ shared'.index = shared.index /\ shared'.edges = shared.edges /\ shared'.manifest = shared.manifest
    <3>1. /\ "provenance" \in CollectionFiles /\ "objects" \in CollectionFiles /\ "index" \in CollectionFiles
          /\ "edges" \in CollectionFiles /\ "manifest" \in CollectionFiles
      BY DEF CollectionFiles
    <3>2. IsCollectionRecord(shared') /\ shared'["provenance"] = log
          /\ \A m \in CollectionFiles \ {"provenance"} : shared'[m] = shared[m]
      BY <2>1, <2>2, <3>1, Written
    <3> QED BY <3>1, <3>2
  <2> QED BY <1>3, <2>2, <2>3, <2>4 DEF OwnPart
<1>9. CASE LogFile(p)
  <2>1. run[p] = "log" /\ run'[p] = "store" BY <1>9, <1>s DEF LogFile, Log
  <2>2. PICK n \in 1 .. Len(files[p]) + 1 :
          listed[p] = ListedUpTo(p, files[p], n) /\ OwnPart(shared, p, files[p], n - 1)
    BY <2>1 DEF Alone, AloneOk
  <2>3. Log(p, "log", "collected", "store") BY <1>9 DEF LogFile
  <2>4. OwnPart(shared', p, files'[p], n - 1) BY <2>2, <2>3, <1>8
  <2>5. listed' = listed BY <2>3 DEF Log
  <2> QED BY <1>3, <2>1, <2>2, <2>4, <2>5 DEF Alone, AloneOk
<1>10. CASE WriteIndex(p)
  <2>1. run[p] = "store" /\ run'[p] = "edges" BY <1>10, <1>s DEF WriteIndex
  <2>2. PICK n \in 1 .. Len(files[p]) + 1 :
          listed[p] = ListedUpTo(p, files[p], n) /\ OwnPart(shared, p, files[p], n - 1)
    BY <2>1 DEF Alone, AloneOk
  <2>3. n \in Nat \ {0} BY <1>l
  <2>4. Len(listed[p]) = n BY <2>2, <2>3, ListedFacts
  <2>5. n = Len(files[p]) + 1 BY <1>10, <1>l, <2>4 DEF WriteIndex
  <2>6. listed[p] = IndexOf(p, files[p]) BY <2>2, <2>5 DEF ListedUpTo, IndexOf
  <2>7. Base = shared BY <2>2, <1>b
  <2>8. shared' = [shared EXCEPT !.index = IndexOf(p, files[p])] BY <1>10, <2>6, <2>7 DEF WriteIndex
  <2>9. n - 1 = Len(files[p]) BY <1>l, <2>5
  <2>10. OwnPart(shared, p, files[p], Len(files[p])) BY <2>2, <2>9
  <2>11. OwnPart(shared', p, files[p], Len(files[p])) /\ shared'.index = IndexOf(p, files[p])
    <3>1. IsCollectionRecord(shared) /\ "index" \in CollectionFiles BY <2>10 DEF OwnPart, CollectionFiles
    <3>2. IsCollectionRecord(shared') /\ \A m \in CollectionFiles \ {"index"} : shared'[m] = shared[m]
      BY <2>8, <3>1, Written
    <3>3. shared'["index"] = IndexOf(p, files[p]) BY <2>8, <3>1, Written
    <3> QED BY <2>10, <3>2, <3>3 DEF OwnPart, CollectionFiles
  <2> QED BY <1>3, <2>1, <2>11 DEF Alone, AloneOk
<1>11. CASE WriteEdges(p)
  <2>1. run[p] = "edges" /\ run'[p] = "acquisition" BY <1>11, <1>s DEF WriteEdges
  <2>2. OwnPart(shared, p, files[p], Len(files[p])) /\ shared.index = IndexOf(p, files[p])
    BY <2>1 DEF Alone, AloneOk
  <2>3. shared' = [shared EXCEPT !.edges = EdgesOf(p, files[p])] BY <1>11 DEF WriteEdges
  <2>4. OwnPart(shared', p, files[p], Len(files[p])) /\ shared'.index = IndexOf(p, files[p])
        /\ shared'.edges = EdgesOf(p, files[p])
    <3>1. IsCollectionRecord(shared) /\ "edges" \in CollectionFiles BY <2>2 DEF OwnPart, CollectionFiles
    <3>2. IsCollectionRecord(shared') /\ \A m \in CollectionFiles \ {"edges"} : shared'[m] = shared[m]
      BY <2>3, <3>1, Written
    <3>3. shared'["edges"] = EdgesOf(p, files[p]) BY <2>3, <3>1, Written
    <3> QED BY <2>2, <3>2, <3>3 DEF OwnPart, CollectionFiles
  <2> QED BY <1>3, <2>1, <2>4 DEF Alone, AloneOk
<1>12. CASE WriteAcquisition(p)
  <2>1. run[p] = "acquisition" /\ run'[p] = "manifest" BY <1>12, <1>s DEF WriteAcquisition
  <2>2. OwnPart(shared, p, files[p], Len(files[p])) /\ shared.index = IndexOf(p, files[p])
        /\ shared.edges = EdgesOf(p, files[p])
    BY <2>1 DEF Alone, AloneOk
  <2>3. shared' = [shared EXCEPT !.acquisition = "acquired"] BY <1>12 DEF WriteAcquisition
  <2>4. OwnPart(shared', p, files[p], Len(files[p])) /\ shared'.index = IndexOf(p, files[p])
        /\ shared'.edges = EdgesOf(p, files[p])
    <3>1. IsCollectionRecord(shared) /\ "acquisition" \in CollectionFiles BY <2>2 DEF OwnPart, CollectionFiles
    <3>2. IsCollectionRecord(shared') /\ \A m \in CollectionFiles \ {"acquisition"} : shared'[m] = shared[m]
      BY <2>3, <3>1, Written
    <3>3. shared'["acquisition"] = "acquired" BY <2>3, <3>1, Written
    <3> QED BY <2>2, <3>2, <3>3 DEF OwnPart, CollectionFiles
  <2> QED BY <1>3, <2>1, <2>4 DEF Alone, AloneOk
<1>13. CASE WriteManifest(p)
  <2>1. run[p] = "manifest" /\ run'[p] = "complete" BY <1>13, <1>s DEF WriteManifest
  <2>2. OwnPart(shared, p, files[p], Len(files[p])) /\ shared.index = IndexOf(p, files[p])
        /\ shared.edges = EdgesOf(p, files[p])
    BY <2>1 DEF Alone, AloneOk
  <2>3. shared' = [shared EXCEPT !.manifest = CollectionManifest(p, files[p])] BY <1>13 DEF WriteManifest
  <2>4. OwnPart(shared', p, files[p], Len(files[p])) /\ shared'.index = IndexOf(p, files[p])
        /\ shared'.edges = EdgesOf(p, files[p]) /\ shared'.manifest = CollectionManifest(p, files[p])
    <3>1. IsCollectionRecord(shared) /\ "manifest" \in CollectionFiles BY <2>2 DEF OwnPart, CollectionFiles
    <3>2. IsCollectionRecord(shared') /\ \A m \in CollectionFiles \ {"manifest"} : shared'[m] = shared[m]
      BY <2>3, <3>1, Written
    <3>3. shared'["manifest"] = CollectionManifest(p, files[p]) BY <2>3, <3>1, Written
    <3> QED BY <2>2, <3>2, <3>3 DEF OwnPart, CollectionFiles
  <2> QED BY <1>3, <2>1, <2>4 DEF Alone, AloneOk
<1>14. CASE Complete(p)
  <2>1. run[p] = "complete" /\ run'[p] = "publish" BY <1>14, <1>s DEF Complete, Log
  <2>2. OwnPart(shared, p, files[p], Len(files[p])) /\ shared.index = IndexOf(p, files[p])
        /\ shared.edges = EdgesOf(p, files[p]) /\ shared.manifest = CollectionManifest(p, files[p])
    BY <2>1 DEF Alone, AloneOk
  <2>3. Log(p, "complete", "completed", "publish") BY <1>14 DEF Complete
  <2>4. OwnPart(shared', p, files'[p], Len(files[p])) /\ shared'.index = shared.index
        /\ shared'.edges = shared.edges /\ shared'.manifest = shared.manifest
    BY <2>2, <2>3, <1>8
  <2> QED BY <1>3, <2>1, <2>2, <2>4 DEF Alone, AloneOk
<1>15. CASE PublishCollection(p)
  <2>1. run'[p] \in {"done", "failed"} BY <1>15, <1>s DEF PublishCollection, Rename
  <2> QED BY <2>1 DEF Alone, AloneOk
<1>16. CASE FailCollection(p)
  <2>1. run'[p] = "failed" BY <1>16, <1>s DEF FailCollection
  <2> QED BY <2>1 DEF Alone, AloneOk
<1>17. CASE CrashCollection(p)
  <2>1. run'[p] = "crashed" BY <1>17, <1>s DEF CrashCollection
  <2> QED BY <2>1 DEF Alone, AloneOk
<1> QED
  BY <1>2, <1>4, <1>5, <1>6, <1>7, <1>9, <1>10, <1>11, <1>12, <1>13, <1>14, <1>15, <1>16, <1>17 DEF Collect

\* The invariant of the lone collectors holds initially.
LEMMA OwnInvInit == Init => OwnInv
<1> SUFFICES ASSUME Init PROVE OwnInv OBVIOUS
<1>1. \A p \in Collectors : run[p] = "idle" BY DEF Init, InitPublication, Tools
<1> QED BY <1>1 DEF OwnInv, Running, Ended

\* When no collector takes a step.
LEMMA OwnInvQuiet ==
    ASSUME OwnInv, UNCHANGED collectVars, \A q \in Collectors : run'[q] = run[q],
           damage' = 0 => damage = 0 /\ \A o : out'[o] = out[o] \/ out[o] = Absent
    PROVE  OwnInv'
<1>1. files' = files /\ target' = target /\ listed' = listed /\ shared' = shared /\ met' = met BY DEF collectVars
<1>2. Running' = Running BY DEF Running
<1>3. (\A p \in Running \ met : Running = {p} /\ Alone(p))'
  <2>1. ASSUME NEW p \in Running \ met PROVE Running = {p} /\ Alone(p)'
    <3>1. Running = {p} /\ Alone(p) BY DEF OwnInv
    <3>2. p \in Collectors BY DEF Running
    <3>3. run'[p] = run[p] BY <3>2
    <3> QED BY <1>1, <3>1, <3>3 DEF Alone
  <2> QED BY <1>1, <1>2, <2>1
<1>4. (\A p \in Collectors \ met : run[p] = "done" /\ damage = 0 => OwnWhole(out[target[p]], p, files[p]))'
  <2>1. ASSUME NEW p \in Collectors \ met, run'[p] = "done", damage' = 0
        PROVE  OwnWhole(out'[target[p]], p, files[p])
    <3>1. OwnWhole(out[target[p]], p, files[p]) BY <2>1 DEF OwnInv
    <3>2. out[target[p]] # Absent BY <3>1, OwnNotAbsent DEF OwnWhole, OwnPart
    <3>3. out'[target[p]] = out[target[p]] BY <2>1, <3>2
    <3> QED BY <3>1, <3>3
  <2> QED BY <1>1, <2>1
<1> QED BY <1>3, <1>4 DEF OwnInv

\* A step of a collector.
LEMMA OwnInvCollects ==
    ASSUME Types, CollectInv, OwnInv, NEW q \in Collectors, Collect(q)
    PROVE  OwnInv'
<1>0. q \in Tools /\ \A p \in Collectors : p \in Tools BY DEF Tools
<1>s. \A from, to : Step(q, from, to) => run[q] = from /\ run'[q] = to
  BY <1>0 DEF Step, Types
<1>1. \A p \in Collectors \ {q} :
         run'[p] = run[p] /\ files'[p] = files[p] /\ target'[p] = target[p] /\ listed'[p] = listed[p]
  BY <1>0, CollectFrame
<1>2. CASE BeginCollection(q)
  <2>1. run[q] = "idle" /\ run'[q] \in {"clear", "failed"} BY <1>2, <1>s DEF BeginCollection, Begin
  <2>2. met' = IF Running = {} THEN met ELSE met \cup Running \cup {q} BY <1>2 DEF BeginCollection
  <2>3. out' = out /\ damage' = damage BY <1>2 DEF BeginCollection
  <2>4. Running' \subseteq Running \cup {q} BY <1>1 DEF Running
  <2>5. ASSUME NEW p \in Running', p \notin met' PROVE Running' = {p} /\ Alone(p)'
    <3>1. p \in Collectors BY DEF Running
    <3>2. p \in Running \cup {q} BY <2>4
    <3>3. Running = {} BY <2>2, <2>5, <3>2
    <3>4. p = q BY <3>2, <3>3
    <3>5. Running' = {p} BY <2>4, <2>5, <3>3, <3>4
    <3>6. Alone(p)' BY <2>1, <3>4 DEF Alone, AloneOk
    <3> QED BY <3>5, <3>6
  <2>6. ASSUME NEW p \in Collectors, p \notin met', run'[p] = "done", damage' = 0
        PROVE  OwnWhole(out'[target'[p]], p, files'[p])
    <3>1. p # q BY <2>1, <2>6
    <3>2. run[p] = "done" /\ p \notin met /\ damage = 0 BY <1>1, <2>2, <2>3, <2>6, <3>1
    <3>3. OwnWhole(out[target[p]], p, files[p]) BY <3>2 DEF OwnInv
    <3> QED BY <1>1, <2>3, <3>1, <3>3
  <2> QED BY <2>5, <2>6 DEF OwnInv
<1>3. CASE ~BeginCollection(q)
  <2>1. q \in Running
    <3>1. CASE CrashCollection(q) BY <3>1 DEF CrashCollection
    <3>2. CASE ~CrashCollection(q)
      BY <1>3, <3>2, <1>s DEF Collect, Clear, MakeShared, OpenLog, Store, LogFile, Log, WriteIndex, WriteEdges,
         WriteAcquisition, WriteManifest, Complete, PublishCollection, Rename, FailCollection, Running, Ended
    <3> QED BY <3>1, <3>2
  <2>2. met' = met
    BY <1>3 DEF Collect, Clear, MakeShared, OpenLog, Store, LogFile, Log, WriteIndex, WriteEdges, WriteAcquisition,
       WriteManifest, Complete, PublishCollection, FailCollection, CrashCollection, collectVars
  <2>3. run[q] \notin Ended \cup {"idle"} BY <2>1 DEF Running
  <2>4. Running' \subseteq Running BY <1>1, <2>1 DEF Running
  <2>5. ASSUME NEW p \in Running', p \notin met' PROVE Running' = {p} /\ Alone(p)'
    <3>1. p \in Running \ met BY <2>2, <2>4, <2>5
    <3>2. Running = {p} /\ Alone(p) BY <3>1 DEF OwnInv
    <3>3. p = q BY <2>1, <3>2
    <3>4. Running' = {p} BY <2>4, <2>5, <3>2
    <3>5. Alone(p)' BY <2>3, <3>2, <3>3, AloneNext
    <3> QED BY <3>4, <3>5
  <2>6. ASSUME NEW p \in Collectors, p \notin met', run'[p] = "done", damage' = 0
        PROVE  OwnWhole(out'[target'[p]], p, files'[p])
    <3>1. damage = 0 /\ p \notin met BY <2>2, <2>6, CollectOut
    <3>2. CASE p = q
      <4>1. /\ run[q] = "publish" /\ out' = [out EXCEPT ![target[q]] = shared]
            /\ files' = files /\ target' = target
        BY <2>6, <3>2, CollectOut
      <4>2. Alone(q) BY <2>1, <3>1, <3>2 DEF OwnInv
      <4>3. OwnWhole(shared, q, files[q]) BY <4>1, <4>2 DEF Alone, AloneOk, OwnWhole
      <4>4. target[q] \in Outputs BY <4>1 DEF CollectInv, Collecting, CollectorOk
      <4>5. out'[target[q]] = shared BY <4>1, <4>4 DEF Types
      <4> QED BY <3>2, <4>1, <4>3, <4>5
    <3>3. CASE p # q
      <4>1. run[p] = "done" /\ files'[p] = files[p] /\ target'[p] = target[p] BY <1>1, <2>6, <3>3
      <4>2. OwnWhole(out[target[p]], p, files[p]) BY <3>1, <4>1 DEF OwnInv
      <4>3. out[target[p]] # Absent BY <4>2, OwnNotAbsent DEF OwnWhole, OwnPart
      <4>4. out'[target[p]] = out[target[p]]
        <5>1. CASE out' = out BY <5>1
        <5>2. CASE out[target[q]] = Absent /\ out' = [out EXCEPT ![target[q]] = shared]
          BY <4>3, <5>2
        <5> QED BY <5>1, <5>2, CollectOut
      <4> QED BY <4>1, <4>2, <4>4
    <3> QED BY <3>2, <3>3
  <2> QED BY <2>5, <2>6 DEF OwnInv
<1> QED BY <1>2, <1>3

\* Each step keeps it.
LEMMA OwnInvNext == Types /\ CollectInv /\ OwnInv /\ [Next]_vars => OwnInv'
<1> SUFFICES ASSUME Types, CollectInv, OwnInv, [Next]_vars PROVE OwnInv' OBVIOUS
<1>1. CASE UNCHANGED vars
  <2>1. out' = out /\ damage' = damage /\ run' = run /\ UNCHANGED collectVars BY <1>1 DEF vars
  <2> QED BY <2>1, OwnInvQuiet
<1>2. ASSUME NEW p \in Converters, Convert(p), UNCHANGED collectVars PROVE OwnInv'
  <2>0. p \in Tools BY DEF Tools
  <2>1. \A from, to : Step(p, from, to) => \A q \in Tools \ {p} : run'[q] = run[q] BY <2>0 DEF Step, Types
  <2>2. \A q \in Tools \ {p} : run'[q] = run[q]
    BY <1>2, <2>1 DEF Convert, Start, Begin, MakeTmp, BadArgument, WriteChunk, EndOfImage, WriteFile, SelfCheck,
                      Publish, Rename, Fail, Crash
  <2>3. \A q \in Collectors : run'[q] = run[q] BY <2>2, ToolsAssumption DEF Tools
  <2>4. damage' = damage BY <1>2, ConvertOut
  <2>5. \A o : out'[o] = out[o] \/ out[o] = Absent
    <3>1. CASE out' = out BY <3>1
    <3>2. CASE out[Main] = Absent /\ out' = [out EXCEPT ![Main] = tmp[p]]
      <4>1. ASSUME NEW o PROVE out'[o] = out[o] \/ out[o] = Absent
        BY <3>2
      <4> QED BY <4>1
    <3> QED BY <1>2, <3>1, <3>2, ConvertOut
  <2> QED BY <1>2, <2>3, <2>4, <2>5, OwnInvQuiet
<1>3. ASSUME NEW p \in Collectors, Collect(p) PROVE OwnInv'
  BY <1>3, OwnInvCollects
<1>4. CASE DamageImage /\ UNCHANGED collectVars
  <2>1. damage' = damage + 1 /\ run' = run BY <1>4 DEF DamageImage, Damages
  <2>2. damage' # 0 BY <2>1 DEF Types
  <2> QED BY <1>4, <2>1, <2>2, OwnInvQuiet
<1>5. CASE DamageCollection
  <2>1. damage' = damage + 1 /\ run' = run /\ UNCHANGED collectVars BY <1>5 DEF DamageCollection, Damages
  <2>2. damage' # 0 BY <2>1 DEF Types
  <2> QED BY <2>1, <2>2, OwnInvQuiet
<1> QED BY <1>1, <1>2, <1>3, <1>4, <1>5 DEF Next

-----------------------------------------------------------------------------
(* Collections that are accepted.                                          *)

\* The row that find_object gives for an id; 0 when there is none.
FirstRow(index, id) == SelectInSeq(index, LAMBDA r : r.object_id = id)

\* The row that is read for an id is the first with it.
LEMMA FirstRowHasId ==
    ASSUME NEW index, Len(index) \in Nat, NEW id, NEW k \in 1 .. Len(index), index[k].object_id = id
    PROVE  FirstRow(index, id) \in 1 .. Len(index) /\ index[FirstRow(index, id)].object_id = id
<1> DEFINE I == {i \in 1 .. Len(index) : index[i].object_id = id}
<1>1. I \in SUBSET Nat /\ I # {} OBVIOUS
<1>2. Min(I) \in I BY <1>1, LeastIsMin
<1>3. FirstRow(index, id) = Min(I) BY <1>1 DEF SelectInSeq, FirstRow
<1> QED BY <1>2, <1>3

\* What the rows of an index are.
LEMMA RowsAre ==
    ASSUME NEW r \in IndexRows
    PROVE  \/ r.object_id[1] = "root" /\ r.storage_ref = None
           \/ \E x : x # "root" /\ r.object_id = Sha(x) /\ r.storage_ref = Sha(x)
<1>1. CASE \E p \in Collectors : r = RootRow(p) BY <1>1 DEF RootRow
<1>2. CASE \E f \in UNION {Range(tree) : tree \in FileTrees} : r = FileRow(f)
  <2>1. PICK tree \in FileTrees : \E f \in Range(tree) : r = FileRow(f) BY <1>2
  <2>2. PICK n \in DOMAIN tree : r = FileRow(tree[n]) BY <2>1 DEF Range
  <2>3. tree[n].content # "root" BY CollectionAssumption
  <2> QED BY <2>2, <2>3 DEF FileRow
<1> QED BY <1>1, <1>2 DEF IndexRows

\* Hashes differ when what they hash does, and from the ids of the roots;
\* what is read for a hash has it.
LEMMA ShaFacts ==
    /\ \A x : Sha(x)[1] = x
    /\ \A x, y : Sha(x) = Sha(y) => x = y
    /\ \A p, x : Sha(x) # RootRow(p).object_id
    /\ \A x, dir : read_evidence_object(dir, x) # Unread => Sha(read_evidence_object(dir, x)[1]) = x
<1>1. \A x : Sha(x)[1] = x BY DEF Sha
<1>2. \A x, y : Sha(x) = Sha(y) => x = y BY <1>1
<1>3. \A p, x : Sha(x) # RootRow(p).object_id
  <2>1. \A x : Len(Sha(x)) = 1 BY DEF Sha
  <2>2. \A p : Len(RootRow(p).object_id) = 2 BY DEF RootRow
  <2> QED BY <2>1, <2>2
<1>4. \A x, dir : read_evidence_object(dir, x) # Unread => Sha(read_evidence_object(dir, x)[1]) = x
  BY DEF read_evidence_object, Unread
<1> QED BY <1>1, <1>2, <1>3, <1>4

\* In an accepted collection each file that is listed can be read.
LEMMA ReadableOfKept == OutInv => AcceptedReadable
<1> SUFFICES ASSUME OutInv, NEW o \in Outputs, IsCollection(out[o]), verify_file_collection(out[o]),
                    NEW n \in DOMAIN out[o].index, out[o].index[n].storage_ref # None
             PROVE  /\ ReadFile(out[o], out[o].index[n].object_id) # Unread
                    /\ Sha(ReadFile(out[o], out[o].index[n].object_id)[1]) = out[o].index[n].object_id
  BY DEF AcceptedReadable
<1> DEFINE dir == out[o]
           id == dir.index[n].object_id
           k == FirstRow(dir.index, id)
<1>1. CollectionKept(dir) BY Kinds DEF OutInv, ImageKept
<1>2. dir.index \in Seq(IndexRows) BY <1>1 DEF CollectionKept, verify_file_collection, Parses
<1>3. Len(dir.index) \in Nat /\ DOMAIN dir.index = 1 .. Len(dir.index) BY <1>2
<1>4. \A m \in DOMAIN dir.index : dir.index[m] \in IndexRows BY <1>2
<1>5. k \in DOMAIN dir.index /\ dir.index[k].object_id = id
  <2>1. n \in 1 .. Len(dir.index) /\ dir.index[n].object_id = id BY <1>3
  <2> HIDE DEF dir, id
  <2> QED BY <1>3, <2>1, FirstRowHasId
<1>6. PICK x : x # "root" /\ id = Sha(x) BY <1>4, RowsAre
<1>7. id[1] # "root" BY <1>6, ShaFacts
<1>8. dir.index[k].storage_ref = id
  <2>1. PICK y : dir.index[k].object_id = Sha(y) /\ dir.index[k].storage_ref = Sha(y)
    BY <1>4, <1>5, <1>7, RowsAre
  <2> QED BY <1>5, <2>1
<1>9. dir.index[n].storage_ref = id
  <2>1. PICK y : id = Sha(y) /\ dir.index[n].storage_ref = Sha(y) BY <1>4, <1>7, RowsAre
  <2> QED BY <2>1
<1>10. read_evidence_object(dir, id) # Unread
  BY <1>5, <1>7, <1>8 DEF verify_file_collection
<1>11. k # 0 /\ dir.index[k].storage_ref # None BY <1>3, <1>5, <1>8, <1>9
<1>12. ReadFile(dir, id) = read_evidence_object(dir, id)
  BY <1>8, <1>11 DEF ReadFile, FirstRow
<1> HIDE DEF dir, id, k
<1>13. ReadFile(dir, id) # Unread /\ Sha(ReadFile(dir, id)[1]) = id BY <1>10, <1>12, ShaFacts
<1> QED BY <1>13 DEF dir, id

\* The rows of the index of a whole tree.
LEMMA IndexRange ==
    ASSUME NEW p, NEW tree \in FileTrees
    PROVE  /\ Range(IndexOf(p, tree)) = {RootRow(p)} \cup {FileRow(f) : f \in Range(tree)}
           /\ DOMAIN IndexOf(p, tree) = 1 .. Len(tree) + 1
<1> DEFINE I == IndexOf(p, tree)
<1>1. Len(tree) \in Nat /\ DOMAIN tree = 1 .. Len(tree) BY TreeFacts
<1>2. DOMAIN I = 1 .. Len(tree) + 1 BY DEF IndexOf
<1>3. I[1] = RootRow(p) BY <1>1 DEF IndexOf
<1>4. \A n \in 1 .. Len(tree) : I[n + 1] = FileRow(tree[n]) BY <1>1 DEF IndexOf
<1>5. \A k \in DOMAIN I : k = 1 \/ \E n \in 1 .. Len(tree) : k = n + 1
  <2> SUFFICES ASSUME NEW k \in DOMAIN I, k # 1 PROVE \E n \in 1 .. Len(tree) : k = n + 1 OBVIOUS
  <2>1. k - 1 \in 1 .. Len(tree) /\ k = (k - 1) + 1 BY <1>1, <1>2
  <2> QED BY <2>1
<1> HIDE DEF I
<1>6. ASSUME NEW r \in Range(I) PROVE r \in {RootRow(p)} \cup {FileRow(f) : f \in Range(tree)}
  <2>1. PICK k \in DOMAIN I : r = I[k] BY DEF Range
  <2>2. CASE k = 1 BY <1>3, <2>1, <2>2
  <2>3. ASSUME NEW n \in 1 .. Len(tree), k = n + 1 PROVE r \in {FileRow(f) : f \in Range(tree)}
    <3>1. tree[n] \in Range(tree) BY <1>1 DEF Range
    <3> QED BY <1>4, <2>1, <2>3, <3>1
  <2> QED BY <1>5, <2>2, <2>3
<1>7. RootRow(p) \in Range(I)
  <2>1. 1 \in DOMAIN I BY <1>1, <1>2
  <2> QED BY <1>3, <2>1 DEF Range
<1>8. ASSUME NEW f \in Range(tree) PROVE FileRow(f) \in Range(I)
  <2>1. PICK n \in DOMAIN tree : f = tree[n] BY DEF Range
  <2>2. n + 1 \in DOMAIN I /\ I[n + 1] = FileRow(f) BY <1>1, <1>2, <1>4, <2>1
  <2> QED BY <2>2 DEF Range
<1> QED BY <1>2, <1>6, <1>7, <1>8 DEF I

\* An accepted collection that was not damaged is that of one collector.
LEMMA OneOfKept == Types /\ CollectInv /\ OutInv => AcceptedIsOne
<1> SUFFICES ASSUME Types, CollectInv, OutInv, NEW o \in Outputs, IsCollection(out[o]), damage = 0,
                    verify_file_collection(out[o])
             PROVE  \E p \in Collectors :
                       /\ Range(out[o].index) = {RootRow(p)} \cup {FileRow(f) : f \in Range(files[p])}
                       /\ out[o].manifest.object_count = Len(files[p])
  BY DEF AcceptedIsOne
<1> DEFINE dir == out[o]
<1>1. CollectionOk(dir, Begun, files) BY DEF OutInv
<1>2. dir.index # Missing /\ dir.manifest # Missing BY DEF verify_file_collection, Parses
<1>3. PICK q \in Begun : dir.index = IndexOf(q, files[q]) BY <1>1, <1>2 DEF CollectionOk
<1>4. PICK r \in Begun : dir.manifest = CollectionManifest(r, files[r]) BY <1>1, <1>2 DEF CollectionOk
<1>5. q \in Collectors /\ files[q] \in FileTrees BY DEF Begun, CollectInv, Collecting, CollectorOk
<1>6. dir.manifest.root_id = RootRow(r).object_id /\ dir.manifest.object_count = Len(files[r])
  BY <1>4 DEF CollectionManifest
<1>7. PICK n \in DOMAIN dir.index : dir.index[n].object_id = RootRow(r).object_id
  BY <1>6 DEF verify_file_collection, RootListed
<1>8. dir.index[n] \in {RootRow(q)} \cup {FileRow(f) : f \in Range(files[q])}
  <2>1. dir.index[n] \in Range(IndexOf(q, files[q])) BY <1>3 DEF Range
  <2> QED BY <1>5, <2>1, IndexRange
<1>9. \A f : FileRow(f).object_id # RootRow(r).object_id
  <2>1. ASSUME NEW f PROVE FileRow(f).object_id # RootRow(r).object_id
    <3>1. FileRow(f).object_id = Sha(f.content) BY DEF FileRow
    <3>2. Sha(f.content) # RootRow(r).object_id BY ShaFacts
    <3> QED BY <3>1, <3>2
  <2> QED BY <2>1
<1>10. RootRow(q).object_id = RootRow(r).object_id BY <1>7, <1>8, <1>9
<1>11. q = r BY <1>10 DEF RootRow
<1> QED BY <1>3, <1>5, <1>6, <1>11, IndexRange

\* What a lone collector published is its own.
LEMMA OwnOfAlone == Types /\ CollectInv /\ OwnInv => OwnFilesPublished
<1> SUFFICES ASSUME Types, CollectInv, OwnInv, NEW p \in Collectors, run[p] = "done", p \notin met, damage = 0
             PROVE  LET dir == out[target[p]] IN
                    /\ Range(dir.index) = {RootRow(p)} \cup {FileRow(f) : f \in Range(files[p])}
                    /\ DOMAIN dir.objects = {Sha(f.content) : f \in Range(files[p])}
                    /\ \A n \in DOMAIN dir.provenance : dir.provenance[n][1] = p
                    /\ verify_file_collection(dir)
  BY DEF OwnFilesPublished
<1> DEFINE dir == out[target[p]]
           tree == files[p]
<1>1. OwnWhole(dir, p, tree) BY DEF OwnInv
<1>2. tree \in FileTrees BY DEF CollectInv, Collecting, CollectorOk
<1>3. Len(tree) \in Nat /\ DOMAIN tree = 1 .. Len(tree) BY <1>2, TreeFacts
<1>4. dir.index = IndexOf(p, tree) /\ dir.edges = EdgesOf(p, tree) /\ dir.manifest = CollectionManifest(p, tree)
      /\ dir.objects = ObjectsUpTo(tree, Len(tree)) /\ dir.provenance \in Seq(EventsOf(p))
  BY <1>1 DEF OwnWhole, OwnPart
<1> HIDE DEF dir, tree
<1>5. Range(dir.index) = {RootRow(p)} \cup {FileRow(f) : f \in Range(tree)} BY <1>2, <1>4, IndexRange
<1>6. DOMAIN dir.objects = {Sha(f.content) : f \in Range(tree)}
  <2>1. DOMAIN dir.objects = {Sha(tree[k].content) : k \in 1 .. Len(tree)} BY <1>4 DEF ObjectsUpTo
  <2>2. {Sha(tree[k].content) : k \in 1 .. Len(tree)} = {Sha(f.content) : f \in Range(tree)} BY <1>3 DEF Range
  <2> QED BY <2>1, <2>2
<1>7. \A n \in DOMAIN dir.provenance : dir.provenance[n][1] = p
  <2>1. \A n \in DOMAIN dir.provenance : dir.provenance[n] \in EventsOf(p) BY <1>4
  <2> QED BY <2>1 DEF EventsOf
<1>8. Parses(dir.index) /\ Parses(dir.edges) /\ Parses(dir.manifest)
  <2>1. \A mark \in {Missing, Garbled} :
           IndexOf(p, tree) # mark /\ EdgesOf(p, tree) # mark /\ CollectionManifest(p, tree) # mark
    BY <1>2, CollectionAssumption
  <2> QED BY <1>4, <2>1 DEF Parses
<1>9. RootListed(dir)
  <2>1. 1 \in DOMAIN dir.index /\ dir.index[1] = RootRow(p)
    <3>1. DOMAIN dir.index = 1 .. Len(tree) + 1 BY <1>2, <1>4, IndexRange
    <3> QED BY <1>3, <1>4, <3>1 DEF IndexOf
  <2>2. dir.manifest.root_id = RootRow(p).object_id BY <1>4 DEF CollectionManifest
  <2> QED BY <2>1, <2>2 DEF RootListed
<1>10. ASSUME NEW n \in DOMAIN dir.index
       PROVE  \/ dir.index[n].object_id[1] = "root"
              \/ read_evidence_object(dir, dir.index[n].storage_ref) # Unread
  <2>1. dir.index[n] \in {RootRow(p)} \cup {FileRow(f) : f \in Range(tree)} BY <1>5 DEF Range
  <2>2. CASE dir.index[n] = RootRow(p) BY <2>2 DEF RootRow
  <2>3. CASE \E f \in Range(tree) : dir.index[n] = FileRow(f)
    <3>1. PICK f \in Range(tree) : dir.index[n] = FileRow(f) BY <2>3
    <3> DEFINE h == Sha(f.content)
    <3>2. dir.index[n].storage_ref = h BY <3>1 DEF FileRow
    <3>3. h \in DOMAIN dir.objects BY <1>6
    <3>4. dir.objects[h] = f.content BY <1>4, <3>3, ShaFacts DEF ObjectsUpTo
    <3>5. read_evidence_object(dir, h) = <<f.content>> BY <3>3, <3>4 DEF read_evidence_object
    <3>6. <<f.content>> # Unread BY DEF Unread
    <3> QED BY <3>2, <3>5, <3>6
  <2> QED BY <2>1, <2>2, <2>3
<1>11. verify_file_collection(dir) BY <1>8, <1>9, <1>10 DEF verify_file_collection
<1> QED BY <1>5, <1>6, <1>7, <1>11 DEF dir, tree

\* The setting of the converters is one of those there are, and stays.
SettingOk == <<comp, key>> \in Settings

\* Initially.
LEMMA SettingInit == Init => SettingOk
<1> SUFFICES ASSUME Init PROVE SettingOk OBVIOUS
<1>1. PICK s \in Settings : comp = s[1] /\ key = s[2] BY DEF Init, InitConversion
<1>2. s = <<s[1], s[2]>> BY ConversionAssumption
<1> QED BY <1>1, <1>2 DEF SettingOk

\* It is never changed.
LEMMA SettingNext == SettingOk /\ [Next]_vars => SettingOk'
<1> SUFFICES ASSUME SettingOk, [Next]_vars PROVE SettingOk' OBVIOUS
<1>1. ASSUME NEW p \in Converters, Convert(p) PROVE comp' = comp /\ key' = key
  BY <1>1 DEF Convert, Start, MakeTmp, BadArgument, WriteChunk, EndOfImage, WriteFile, SelfCheck, Publish,
              Fail, Crash, convertVars
<1>2. comp' = comp /\ key' = key
  BY <1>1 DEF Next, vars, convertVars, DamageImage
<1> QED BY <1>2 DEF SettingOk

\* The inductive invariant of conversions, collections and their outputs.
Inv == Types /\ SettingOk /\ ConvInv /\ CollectInv /\ OutInv /\ OwnInv

\* Every reachable state satisfies it.
THEOREM Inductive == Spec => []Inv
<1>1. Init => Inv BY TypesInit, SettingInit, ConvInvInit, CollectInvInit, OutInvInit, OwnInvInit DEF Inv
<1>2. Inv /\ [Next]_vars => Inv'
  BY TypesNext, SettingNext, ConvInvNext, CollectInvNext, OutInvNext, OwnInvNext DEF Inv
<1> QED BY <1>1, <1>2, PTL DEF Spec

\* A collector that no other one ran with has published its own files and
\* nothing else, whatever a crashed one had left in the temporary directory;
\* each file that an accepted collection lists reads back with its hash,
\* whatever was damaged; and an accepted collection is that of one run even when
\* two wrote to the same directory (collect, verify_file_collection,
\* read_evidence_file_verified).
THEOREM CollectionIsWhole == Spec => []CollectionWhole
<1>1. Inv => CollectionWhole BY OwnOfAlone, ReadableOfKept, OneOfKept DEF Inv, CollectionWhole
<1> QED BY <1>1, Inductive, PTL

-----------------------------------------------------------------------------
(* Containers that are accepted.                                           *)

\* A chunk that is read is the one the row names.
LEMMA ReadIsBlock ==
    ASSUME NEW c, NEW k, NEW cm, NEW b, read_chunk(c, Row(k, cm, b)) # Unread
    PROVE  read_chunk(c, Row(k, cm, b)) = <<b>>
<1>1. Row(k, cm, b).plaintext_sha256 = Sha(b) BY DEF Row
<1> DEFINE r == Row(k, cm, b)
           plain == Decode(r.compression, c.chunks[r.plaintext_sha256])
<1>2. read_chunk(c, r) = <<plain>> /\ Sha(plain) = r.plaintext_sha256 BY DEF read_chunk
<1> HIDE DEF r, plain
<1>3. Sha(plain) = Sha(b) BY <1>1, <1>2 DEF r
<1>4. plain = b BY <1>3, ShaFacts
<1> QED BY <1>2, <1>4 DEF r

\* An image is the sequence of its blocks.
LEMMA SequenceIs == ASSUME NEW img \in Images PROVE img = [k \in 1 .. Len(img) |-> img[k]]
BY ImageFacts

\* The map of an image is one, and has a row for each block.
LEMMA MapFacts ==
    ASSUME SettingOk, NEW img \in Images
    PROVE  /\ MapOf(img) = RowsUpTo(comp, img, Len(img))
           /\ Len(MapOf(img)) = Len(img) /\ DOMAIN MapOf(img) = 1 .. Len(img) /\ Len(img) \in Nat
           /\ \A k \in 1 .. Len(img) : MapOf(img)[k] = Row(k - 1, comp, img[k])
           /\ Parses(MapOf(img))
<1>1. MapOf(img) = RowsUpTo(comp, img, Len(img)) BY MapOfIs
<1>2. Len(img) \in Nat BY ImageFacts
<1>3. Len(MapOf(img)) = Len(img) /\ DOMAIN MapOf(img) = 1 .. Len(img)
  <2>1. Len(RowsUpTo(comp, img, Len(img))) = Len(img) /\ DOMAIN RowsUpTo(comp, img, Len(img)) = 1 .. Len(img)
    BY <1>2, RowsUpToFacts
  <2> QED BY <1>1, <2>1
<1>4. \A k \in 1 .. Len(img) : MapOf(img)[k] = Row(k - 1, comp, img[k]) BY <1>1 DEF RowsUpTo
<1>5. Parses(MapOf(img))
  <2> DEFINE setting == <<comp, key>>
  <2>1. setting \in Settings BY DEF SettingOk
  <2>2. setting[1] = comp OBVIOUS
  <2>3. \A mark \in {Missing, Garbled} : [n \in DOMAIN img |-> Row(n - 1, setting[1], img[n])] # mark
    <3> HIDE DEF setting
    <3> QED BY <2>1, ImageFilesAssumption
  <2>4. \A mark \in {Missing, Garbled} : MapOf(img) # mark BY <2>2, <2>3 DEF MapOf
  <2> QED BY <2>4 DEF Parses
<1> QED BY <1>1, <1>2, <1>3, <1>4, <1>5

\* What the full verification has seen of a container.
LEMMA VerifiedWhole ==
    ASSUME NEW c, NEW k, NEW proof, verify(c, k, None, proof)
    PROVE  /\ Parses(c.manifest) /\ Parses(c.map) /\ SourceOk(c)
           /\ DOMAIN c.map # {} /\ \A n \in DOMAIN c.map : read_chunk(c, c.map[n]) # Unread
<1>1. Parses(c.manifest) /\ Parses(c.map) /\ SourceOk(c) BY DEF verify, WholeOk
<1>2. Selected(c, None) = DOMAIN c.map BY DEF Selected
<1> QED BY <1>1, <1>2 DEF verify, ChunksOk

\* With the manifest of an image the source hash is that of the image.
LEMMA ManifestPins ==
    ASSUME NEW img \in Images, NEW c, c.manifest = ManifestOf(img), SourceOk(c)
    PROVE  Restored(c) = img
<1>1. c.manifest.source_sha256 = img BY DEF ManifestOf
<1>2. img # None BY ConversionAssumption
<1> QED BY <1>1, <1>2 DEF SourceOk, Hashed

\* A converter that was started has an image.
LEMMA ImageOfDone ==
    ASSUME ConvInv, NEW p \in Converters, run[p] = "done"
    PROVE  image[p] \in Images
BY DEF ConvInv, Converting, ConvOk

\* AcceptedRestores: the source hash of the manifest pins the image.
LEMMA Restores == ConvInv => AcceptedRestores
<1> SUFFICES ASSUME ConvInv, NEW p \in Converters, run[p] = "done", out[Main].manifest = ManifestOf(image[p]),
                    verify(out[Main], FALSE, None, None)
             PROVE  Restored(out[Main]) = image[p]
  BY DEF AcceptedRestores
<1> QED BY ImageOfDone, ManifestPins, VerifiedWhole

\* What is at the output of the conversions is a container of an image.
LEMMA OutIsKept == OutInv /\ IsImage(out[Main]) => ImageKept(out[Main], comp)
<1>1. Main \in Outputs BY ConversionAssumption
<1> QED BY <1>1, Kinds DEF OutInv, CollectionKept

\* KeyPinsImage: the sidecar signs the manifest of an image, and that pins it.
LEMMA Pins == OutInv => KeyPinsImage
<1> SUFFICES ASSUME OutInv, IsImage(out[Main]), verify(out[Main], TRUE, None, None)
             PROVE  /\ Restored(out[Main]) \in Images
                    /\ out[Main].manifest = ManifestOf(Restored(out[Main]))
  BY DEF KeyPinsImage
<1> DEFINE c == out[Main]
<1>1. c.hmac \in Sidecars BY OutIsKept DEF ImageKept
<1>2. c.hmac # Missing /\ c.hmac = c.manifest BY DEF verify, HmacOk
<1>3. PICK img \in Images : c.manifest = ManifestOf(img) BY <1>1, <1>2 DEF Sidecars
<1>4. SourceOk(c) BY VerifiedWhole
<1>5. Restored(c) = img BY <1>3, <1>4, ManifestPins
<1> QED BY <1>3, <1>5

\* SubsetSees: the chosen rows are those of their blocks, and a chunk that is
\* read has the hash in its row.
LEMMA Sees == SettingOk /\ ConvInv /\ OutInv => SubsetSees
<1> SUFFICES ASSUME SettingOk, ConvInv, OutInv, NEW p \in Converters, run[p] = "done", out[Main].map = MapOf(image[p]),
                    NEW seqs \in (SUBSET (0 .. Len(image[p]) - 1)) \ {{}}
             PROVE  LET c == out[Main]
                        subset == [seqs |-> seqs, ids |-> {}]
                        intact == \A n \in seqs : read_chunk(c, c.map[n + 1]) = <<image[p][n + 1]>>
                        others == /\ Parses(c.manifest) /\ Parses(c.acquisition)
                                  /\ c.provenance \notin {Missing, <<>>} /\ Missing \notin {c.leaves, c.tree}
                    IN  /\ verify(c, FALSE, subset, None) => intact
                        /\ intact /\ others => verify(c, FALSE, subset, None)
  BY DEF SubsetSees
<1> DEFINE c == out[Main]
           img == image[p]
           subset == [seqs |-> seqs, ids |-> {}]
<1>1. img \in Images BY ImageOfDone
<1>2. Len(img) \in Nat /\ c.map = MapOf(img) BY <1>1, ImageFacts
<1>3. DOMAIN c.map = 1 .. Len(img) /\ Parses(c.map) /\ \A k \in 1 .. Len(img) : c.map[k] = Row(k - 1, comp, img[k])
  BY <1>1, <1>2, MapFacts
<1>4. subset # None BY <1>1, ConversionAssumption
<1>5. subset.seqs = seqs /\ subset.ids = {} OBVIOUS
<1>7. seqs \subseteq 0 .. Len(img) - 1 /\ seqs # {}
  <2>1. seqs \in SUBSET (0 .. Len(img) - 1) /\ seqs # {} OBVIOUS
  <2> QED BY <2>1
<1> HIDE DEF c, img, subset
<1>6. Selected(c, subset) = {n \in 1 .. Len(img) : n - 1 \in seqs}
  <2>1. \A n \in 1 .. Len(img) : c.map[n].sequence = n - 1
    <3>1. \A n \in 1 .. Len(img) : Row(n - 1, comp, img[n]).sequence = n - 1 BY DEF Row
    <3> QED BY <1>3, <3>1
  <2> QED BY <1>3, <1>4, <1>5, <2>1 DEF Selected
<1>8. \A n \in seqs : n + 1 \in Selected(c, subset) BY <1>2, <1>6, <1>7
<1>9. ASSUME verify(c, FALSE, subset, None), NEW n \in seqs
      PROVE  read_chunk(c, c.map[n + 1]) = <<img[n + 1]>>
  <2>1. n + 1 \in 1 .. Len(img) BY <1>2, <1>7
  <2>2. read_chunk(c, c.map[n + 1]) # Unread BY <1>8, <1>9 DEF verify, ChunksOk
  <2>3. c.map[n + 1] = Row((n + 1) - 1, comp, img[n + 1]) BY <1>3, <2>1
  <2> QED BY <2>2, <2>3, ReadIsBlock
<1>10. ASSUME \A n \in seqs : read_chunk(c, c.map[n + 1]) = <<img[n + 1]>>,
              Parses(c.manifest), Parses(c.acquisition), c.provenance \notin {Missing, <<>>},
              Missing \notin {c.leaves, c.tree}
       PROVE  verify(c, FALSE, subset, None)
  <2>1. HmacOk(c, FALSE) BY DEF HmacOk
  <2>2. ChunksOk(c, Selected(c, subset))
    <3>1. Selected(c, subset) # {} BY <1>7, <1>8
    <3>2. ASSUME NEW n \in Selected(c, subset) PROVE read_chunk(c, c.map[n]) # Unread
      <4>1. n - 1 \in seqs /\ (n - 1) + 1 = n BY <1>6
      <4>2. read_chunk(c, c.map[n]) = <<img[n]>> BY <1>10, <4>1
      <4> QED BY <4>2 DEF Unread
    <3> QED BY <3>1, <3>2 DEF ChunksOk
  <2>3. Len(c.provenance) > 0
    <3>1. IsImage(c) BY DEF OutInv, DoneOk, c
    <3>2. c.provenance \in Histories BY <3>1, OutIsKept DEF ImageKept, c
    <3>3. c.provenance = <<"converted">> BY <1>10, <3>2 DEF Histories
    <3> QED BY <3>3
  <2>4. \A n \in 1 .. 6 : required_files(c)[n] # Missing
    BY <1>3, <1>10 DEF required_files, Parses
  <2> QED BY <1>3, <1>4, <1>10, <2>1, <2>2, <2>3, <2>4 DEF verify
<1> QED BY <1>9, <1>10 DEF c, img, subset

-----------------------------------------------------------------------------
(* What is exported.                                                       *)

\* Which rows of a map an export can read.
LEMMA ReadableRows ==
    ASSUME NEW c, NEW X, c.map \in Seq(X)
    PROVE  /\ (\A n \in DOMAIN c.map : read_chunk(c, c.map[n]) # Unread) => Readable(c) = c.map
           /\ \E m \in 0 .. Len(c.map) : /\ DOMAIN Readable(c) = 1 .. m
                                         /\ \A n \in 1 .. m : read_chunk(c, c.map[n]) # Unread
<1> DEFINE I == {i \in 1 .. Len(c.map) : read_chunk(c, c.map[i]) = Unread}
           bad == IF I # {} THEN Min(I) ELSE 0
<1>1. Readable(c) = IF bad = 0 THEN c.map ELSE SubSeq(c.map, 1, bad - 1) BY DEF Readable, SelectInSeq
<1>2. Len(c.map) \in Nat /\ DOMAIN c.map = 1 .. Len(c.map) OBVIOUS
<1>3. I \in SUBSET Nat OBVIOUS
<1>4. CASE I = {}
  <2>1. Readable(c) = c.map BY <1>1, <1>4
  <2>2. \A n \in 1 .. Len(c.map) : read_chunk(c, c.map[n]) # Unread BY <1>4
  <2>3. Len(c.map) \in 0 .. Len(c.map) BY <1>2
  <2> HIDE DEF I, bad
  <2> QED BY <1>2, <2>1, <2>2, <2>3
<1>5. CASE I # {}
  <2>1. bad \in I /\ \A m \in I : bad <= m BY <1>3, <1>5, LeastIsMin
  <2>2. bad \in 1 .. Len(c.map) /\ read_chunk(c, c.map[bad]) = Unread BY <2>1
  <2>3. \A n \in 1 .. bad - 1 : n \in 1 .. Len(c.map) /\ read_chunk(c, c.map[n]) # Unread
    <3> SUFFICES ASSUME NEW n \in 1 .. bad - 1 PROVE n \in 1 .. Len(c.map) /\ read_chunk(c, c.map[n]) # Unread OBVIOUS
    <3>1. n \in 1 .. Len(c.map) /\ ~(bad <= n) BY <1>2, <2>2
    <3>2. n \notin I BY <2>1, <3>1
    <3> QED BY <3>1, <3>2
  <2> HIDE DEF I, bad
  <2>4. Readable(c) = SubSeq(c.map, 1, bad - 1) BY <1>1, <2>2
  <2>5. DOMAIN Readable(c) = 1 .. bad - 1
    <3>1. bad - 1 \in 0 .. Len(c.map) BY <1>2, <2>2
    <3>2. SubSeq(c.map, 1, bad - 1) \in Seq(X) /\ Len(SubSeq(c.map, 1, bad - 1)) = bad - 1 BY <1>2, <3>1
    <3> QED BY <2>4, <3>2
  <2>6. bad - 1 \in 0 .. Len(c.map) BY <1>2, <2>2
  <2>7. ~(\A n \in DOMAIN c.map : read_chunk(c, c.map[n]) # Unread) BY <1>2, <2>2
  <2> QED BY <2>3, <2>5, <2>6, <2>7
<1> QED BY <1>4, <1>5

\* What an export writes before it looks at the hash.
ExportOutput(c) == FlattenSeq([n \in DOMAIN Readable(c) |-> read_chunk(c, c.map[n])])

\* How an export ends.
LEMMA ExportIs ==
    ASSUME NEW c, Parses(c.manifest), Parses(c.map), c.map # <<>>
    PROVE  /\ Readable(c) = c.map /\ SourceOk(c) => export(c) = [ok |-> TRUE, output |-> ExportOutput(c)]
           /\ export(c).ok => Readable(c) = c.map /\ SourceOk(c) /\ export(c).output = ExportOutput(c)
           /\ export(c).output \in {Missing, ExportOutput(c)}
<1>1. CASE Readable(c) # c.map
  <2>1. export(c) = [ok |-> FALSE, output |-> ExportOutput(c)] BY <1>1 DEF export, ExportOutput
  <2> QED BY <1>1, <2>1
<1>2. CASE Readable(c) = c.map /\ SourceOk(c)
  <2>1. export(c) = [ok |-> TRUE, output |-> ExportOutput(c)] BY <1>2 DEF export, ExportOutput
  <2> QED BY <1>2, <2>1
<1>3. CASE Readable(c) = c.map /\ ~SourceOk(c)
  <2>1. export(c) = [ok |-> FALSE, output |-> Missing] BY <1>3 DEF export, ExportOutput
  <2> QED BY <1>3, <2>1
<1> QED BY <1>1, <1>2, <1>3

\* An export that writes anything has read the manifest and the map.
LEMMA ExportNeeds ==
    ASSUME NEW c, export(c).ok \/ export(c).output # Missing
    PROVE  Parses(c.manifest) /\ Parses(c.map) /\ c.map # <<>>
<1> SUFFICES ASSUME ~(Parses(c.manifest) /\ Parses(c.map) /\ c.map # <<>>) PROVE FALSE OBVIOUS
<1>1. export(c) = [ok |-> FALSE, output |-> Missing] BY DEF export
<1> QED BY <1>1

\* A map that can be parsed is a sequence.
LEMMA KeptMap ==
    ASSUME OutInv, NEW p \in Converters, run[p] = "done", Parses(out[Main].map)
    PROVE  \E X : out[Main].map \in Seq(X)
<1>1. IsImage(out[Main]) BY DEF OutInv, DoneOk
<1>2. out[Main].map \in Maps(comp) BY <1>1, OutIsKept DEF ImageKept
<1>3. PICK img \in Images : out[Main].map = RowsUpTo(comp, img, Len(img)) BY <1>2 DEF Maps, Parses
<1>4. Len(img) \in Nat BY ImageFacts
<1>5. RowsUpTo(comp, img, Len(img)) \in Seq({Row(k - 1, comp, img[k]) : k \in 1 .. Len(img)}) BY <1>4, RowsUpToFacts
<1> QED BY <1>3, <1>5

\* ExportsImage: the bytes written are the blocks of the rows read.
LEMMA Exports == SettingOk /\ ConvInv /\ OutInv => ExportsImage
<1> SUFFICES ASSUME SettingOk, ConvInv, OutInv, NEW p \in Converters, run[p] = "done"
             PROVE  LET c == out[Main] IN
                    /\ verify(c, FALSE, None, None) => export(c).ok
                    /\ export(c).ok /\ c.manifest = ManifestOf(image[p]) => export(c).output = image[p]
                    /\ export(c).output # Missing /\ c.map = MapOf(image[p]) => IsPrefix(export(c).output, image[p])
  BY DEF ExportsImage
<1> DEFINE c == out[Main]
           img == image[p]
<1>1. img \in Images BY ImageOfDone
<1>2. Parses(c.map) => \E X : c.map \in Seq(X) BY KeptMap
<1> HIDE DEF c, img
<1>3. ASSUME verify(c, FALSE, None, None) PROVE export(c).ok
  <2>1. Parses(c.manifest) /\ Parses(c.map) /\ SourceOk(c) /\ DOMAIN c.map # {}
        /\ \A n \in DOMAIN c.map : read_chunk(c, c.map[n]) # Unread
    BY <1>3, VerifiedWhole
  <2>2. PICK X : c.map \in Seq(X) BY <1>2, <2>1
  <2>3. c.map # <<>> BY <2>1
  <2>4. Readable(c) = c.map BY <2>1, <2>2, ReadableRows
  <2> QED BY <2>1, <2>3, <2>4, ExportIs
<1>4. ASSUME export(c).ok, c.manifest = ManifestOf(img) PROVE export(c).output = img
  <2>1. Readable(c) = c.map /\ SourceOk(c) /\ export(c).output = ExportOutput(c) BY <1>4, ExportNeeds, ExportIs
  <2>2. ExportOutput(c) = Restored(c) BY <2>1 DEF ExportOutput, Restored
  <2>3. Restored(c) = img BY <1>1, <1>4, <2>1, ManifestPins
  <2> QED BY <2>1, <2>2, <2>3
<1>5. ASSUME export(c).output # Missing, c.map = MapOf(img) PROVE IsPrefix(export(c).output, img)
  <2>1. export(c).output = ExportOutput(c) BY <1>5, ExportNeeds, ExportIs
  <2>2. PICK X : c.map \in Seq(X) BY <1>2, <1>5, ExportNeeds
  <2>3. PICK m \in 0 .. Len(c.map) : /\ DOMAIN Readable(c) = 1 .. m
                                     /\ \A n \in 1 .. m : read_chunk(c, c.map[n]) # Unread
    BY <2>2, ReadableRows
  <2>4. Len(c.map) = Len(img) /\ Len(img) \in Nat /\ \A k \in 1 .. Len(img) : c.map[k] = Row(k - 1, comp, img[k])
    BY <1>1, <1>5, MapFacts
  <2>5. \A n \in 1 .. m : read_chunk(c, c.map[n]) = <<img[n]>>
    <3> SUFFICES ASSUME NEW n \in 1 .. m PROVE read_chunk(c, c.map[n]) = <<img[n]>> OBVIOUS
    <3>1. n \in 1 .. Len(img) BY <2>4
    <3>2. c.map[n] = Row(n - 1, comp, img[n]) BY <2>4, <3>1
    <3> QED BY <2>3, <3>2, ReadIsBlock
  <2>6. m \in Nat /\ m <= Len(img) BY <2>4
  <2>7. ExportOutput(c) = [k \in 1 .. m |-> img[k]]
    <3>1. FlattenSeq([k \in 1 .. m |-> read_chunk(c, c.map[k])]) = [k \in 1 .. m |-> img[k]]
      <4>1. [k \in 1 .. m |-> read_chunk(c, c.map[k])] = [k \in 1 .. m |-> <<img[k]>>] BY <2>5
      <4>2. FlattenSeq([k \in 1 .. m |-> <<img[k]>>]) = [k \in 1 .. m |-> img[k]] BY <2>6, FlattenSingles
      <4> QED BY <4>1, <4>2
    <3> QED BY <2>3, <3>1 DEF ExportOutput
  <2>8. IsPrefix([k \in 1 .. m |-> img[k]], img)
    <3> DEFINE w == [k \in 1 .. m |-> img[k]]
    <3>1. img \in Seq(Blocks) /\ DOMAIN img = 1 .. Len(img) BY <1>1, ImageFacts
    <3>2. \A k \in 1 .. m : img[k] \in Blocks BY <2>6, <3>1
    <3>3. w \in Seq(Blocks) /\ Len(w) = m /\ \A k \in 1 .. m : w[k] = img[k] BY <2>6, <3>2
    <3> HIDE DEF w
    <3>4. SubSeq(w, 1, m) \in Seq(Blocks) /\ Len(SubSeq(w, 1, m)) = m /\ \A k \in 1 .. m : SubSeq(w, 1, m)[k] = w[k]
      BY <2>6, <3>3
    <3>5. SubSeq(img, 1, m) \in Seq(Blocks) /\ Len(SubSeq(img, 1, m)) = m
          /\ \A k \in 1 .. m : SubSeq(img, 1, m)[k] = img[k]
      BY <2>6, <3>1
    <3>6. SubSeq(w, 1, m) = SubSeq(img, 1, m)
      <4> DEFINE u == SubSeq(w, 1, m)
                 v == SubSeq(img, 1, m)
      <4>1. u \in Seq(Blocks) /\ v \in Seq(Blocks) /\ Len(u) = Len(v) /\ \A k \in 1 .. Len(u) : u[k] = v[k]
        BY <3>3, <3>4, <3>5
      <4> HIDE DEF u, v
      <4>2. u = v BY <4>1
      <4> QED BY <4>2 DEF u, v
    <3> QED BY <2>6, <3>3, <3>6 DEF IsPrefix, w
  <2> QED BY <2>1, <2>7, <2>8
<1> QED BY <1>3, <1>4, <1>5 DEF c, img

\* What offf-verify accepts of a damaged container can be relied on as far as it
\* looked: in full, it restores the image; of a selection, each chunk chosen gives
\* its block; with a key, the image is one that was signed. What offf-export
\* writes is the image, or a beginning of it (verify, export).
THEOREM VouchedFor == Spec => []ImageVouched
<1>1. Inv => ImageVouched BY Restores, Sees, Pins, Exports DEF Inv, ImageVouched
<1> QED BY <1>1, Inductive, PTL

-----------------------------------------------------------------------------
(* What is published.                                                      *)

\* A chunk that was written is read.
LEMMA ReadMade ==
    ASSUME NEW c, NEW cm \in {"none", "zstd"}, NEW img, NEW n \in Nat, c.chunks = ChunksUpTo(cm, img, n),
           NEW k \in 1 .. n, img[k] \in Blocks
    PROVE  read_chunk(c, Row(k - 1, cm, img[k])) = <<img[k]>>
<1> DEFINE b == img[k]
           r == Row(k - 1, cm, b)
           stored == Compress(cm, b)
<1>1. r.plaintext_sha256 = Sha(b) /\ r.compression = cm /\ r.stored_sha256 = Sha(stored) BY DEF Row
<1>2. Sha(b) \in DOMAIN c.chunks BY DEF ChunksUpTo
<1>3. c.chunks[Sha(b)] = stored
  <2>1. c.chunks[Sha(b)] = Compress(cm, Sha(b)[1]) BY <1>2 DEF ChunksUpTo
  <2> QED BY <2>1, ShaFacts
<1>4. Decode(cm, stored) = b
  <2>1. CASE cm = "none" BY <2>1 DEF Decode, Compress
  <2>2. CASE cm = "zstd"
    <3>1. stored = <<"zstd", b>> BY <2>2 DEF Compress
    <3>2. cm # "none" BY <2>2
    <3>3. stored[2] = b BY <3>1
    <3> HIDE DEF stored, b
    <3>4. \E x \in Blocks : stored = <<"zstd", x>> BY <3>1 DEF b
    <3> QED BY <3>2, <3>3, <3>4 DEF Decode
  <2> QED BY <2>1, <2>2
<1> HIDE DEF r, b, stored
<1>5. read_chunk(c, r) = <<b>> BY <1>1, <1>2, <1>3, <1>4 DEF read_chunk
<1> QED BY <1>5 DEF r, b

\* The files of the container of an image, and none of them is missing.
LEMMA FilesOf ==
    ASSUME SettingOk, NEW img \in Images, img # <<>>, NEW c, c = Made(comp, key, img, 8)
    PROVE  /\ c.chunks = ChunksUpTo(comp, img, Len(img))
           /\ c.map = MapOf(img) /\ c.tree = serialize_merkle_tree(LeafHashes(c.map)) /\ c.leaves = LeafRows(c.map)
           /\ c.acquisition = "acquired" /\ c.provenance = <<"converted">> /\ c.manifest = ManifestOf(img)
           /\ c.hmac = (IF key THEN c.manifest ELSE Missing)
           /\ Parses(c.tree) /\ Parses(c.map) /\ Parses(c.manifest) /\ Parses(c.acquisition)
           /\ \A n \in 1 .. 6 : required_files(c)[n] # Missing
<1>1. MapOf(img) = RowsUpTo(comp, img, Len(img)) /\ Parses(MapOf(img)) BY MapFacts
<1>2. /\ c.chunks = ChunksUpTo(comp, img, Len(img))
      /\ c.map = MapOf(img) /\ c.tree = serialize_merkle_tree(LeafHashes(c.map)) /\ c.leaves = LeafRows(c.map)
      /\ c.acquisition = "acquired" /\ c.provenance = <<"converted">> /\ c.manifest = ManifestOf(img)
  BY <1>1 DEF Made
<1>3. c.hmac = IF key THEN c.manifest ELSE Missing BY <1>2 DEF Made
<1>4. ASSUME NEW mark \in {Missing, Garbled}
      PROVE  /\ "acquired" # mark /\ <<"converted">> # mark /\ LeafRows(c.map) # mark
             /\ serialize_merkle_tree(LeafHashes(c.map)) # mark /\ ManifestOf(img) # mark
  <2> DEFINE setting == <<comp, key>>
             map == [n \in DOMAIN img |-> Row(n - 1, setting[1], img[n])]
  <2>1. setting \in Settings /\ setting[1] = comp BY DEF SettingOk
  <2>2. map = c.map BY <1>2 DEF MapOf
  <2> HIDE DEF setting
  <2>3. /\ "acquired" # mark /\ <<"converted">> # mark /\ LeafRows(map) # mark
        /\ serialize_merkle_tree(LeafHashes(map)) # mark /\ ManifestOf(img) # mark
    BY <2>1, ImageFilesAssumption
  <2> HIDE DEF map
  <2> QED BY <2>2, <2>3
<1>5. Parses(c.tree) /\ Parses(c.map) /\ Parses(c.manifest) /\ Parses(c.acquisition) BY <1>1, <1>2, <1>4 DEF Parses
<1>6. \A n \in 1 .. 6 : required_files(c)[n] # Missing
  <2> DEFINE m == c.manifest  a == c.acquisition  p == c.map  l == c.leaves  t == c.tree  h == c.provenance
  <2>1. m # Missing /\ a # Missing /\ p # Missing /\ t # Missing BY <1>5 DEF Parses
  <2>2. l # Missing /\ h # Missing BY <1>2, <1>4
  <2>3. required_files(c) = <<m, a, p, l, t, h>> BY DEF required_files
  <2> HIDE DEF m, a, p, l, t, h
  <2>4. \A n \in 1 .. 6 : <<m, a, p, l, t, h>>[n] \in {m, a, p, l, t, h}
    <3>1. ASSUME NEW n \in 1 .. 6 PROVE <<m, a, p, l, t, h>>[n] \in {m, a, p, l, t, h}
      <4>1. n = 1 \/ n = 2 \/ n = 3 \/ n = 4 \/ n = 5 \/ n = 6 OBVIOUS
      <4> QED BY <4>1
    <3> QED BY <3>1
  <2> QED BY <2>1, <2>2, <2>3, <2>4
<1> QED BY <1>2, <1>3, <1>5, <1>6

\* What a conversion published is accepted by the full verification, and the
\* proof of each chunk verifies.
LEMMA AcceptedMade ==
    ASSUME SettingOk, comp \in {"none", "zstd"}, NEW img \in Images, img # <<>>, NEW c, c = Made(comp, key, img, 8),
           NEW k \in {key, FALSE}, NEW proof \in {None} \cup 0 .. Len(c.map) - 1
    PROVE  verify(c, k, None, proof)
<1> DEFINE n == Len(img)
           leaves == LeafHashes(c.map)
<1>0. /\ c.chunks = ChunksUpTo(comp, img, Len(img))
      /\ c.map = MapOf(img) /\ c.tree = serialize_merkle_tree(LeafHashes(c.map)) /\ c.leaves = LeafRows(c.map)
      /\ c.acquisition = "acquired" /\ c.provenance = <<"converted">> /\ c.manifest = ManifestOf(img)
      /\ c.hmac = (IF key THEN c.manifest ELSE Missing)
      /\ Parses(c.tree) /\ Parses(c.map) /\ Parses(c.manifest) /\ Parses(c.acquisition)
      /\ \A i \in 1 .. 6 : required_files(c)[i] # Missing
  BY FilesOf
<1>1. /\ n \in Nat \ {0} /\ Len(c.map) = n /\ DOMAIN c.map = 1 .. n /\ DOMAIN img = 1 .. n
      /\ \A i \in 1 .. n : c.map[i] = Row(i - 1, comp, img[i])
      /\ \A i \in 1 .. n : img[i] \in Blocks
  <2>1. n \in Nat \ {0} /\ DOMAIN img = 1 .. n /\ img \in Seq(Blocks) BY ImageFacts
  <2>2. \A i \in 1 .. n : img[i] \in Blocks BY <2>1
  <2>3. Len(MapOf(img)) = Len(img) /\ DOMAIN MapOf(img) = 1 .. Len(img)
        /\ \A i \in 1 .. Len(img) : MapOf(img)[i] = Row(i - 1, comp, img[i])
    BY MapFacts
  <2> QED BY <1>0, <2>1, <2>2, <2>3
<1> HIDE DEF n
<1>2. ASSUME NEW i \in 1 .. n PROVE read_chunk(c, c.map[i]) = <<img[i]>>
  <2>1. i \in 1 .. n /\ img[i] \in Blocks /\ c.map[i] = Row(i - 1, comp, img[i]) BY <1>1
  <2>2. c.chunks = ChunksUpTo(comp, img, n) BY <1>0 DEF n
  <2>3. read_chunk(c, Row(i - 1, comp, img[i])) = <<img[i]>> BY <1>1, <2>1, <2>2, ReadMade
  <2> QED BY <2>1, <2>3
<1>3. HmacOk(c, k) BY <1>0 DEF HmacOk, Parses
<1>4. ChunksOk(c, Selected(c, None))
  <2>1. Selected(c, None) = 1 .. n BY <1>1 DEF Selected
  <2>2. 1 \in 1 .. n BY <1>1
  <2>3. ASSUME NEW i \in 1 .. n PROVE read_chunk(c, c.map[i]) # Unread
    <3>1. read_chunk(c, c.map[i]) = <<img[i]>> BY <1>2
    <3>2. <<img[i]>> # <<>> OBVIOUS
    <3> QED BY <3>1, <3>2 DEF Unread
  <2> QED BY <2>1, <2>2, <2>3 DEF ChunksOk
<1>5. leaves = [i \in 1 .. n |-> Sha(img[i])]
  <2>1. ASSUME NEW i \in 1 .. n PROVE c.map[i].plaintext_sha256 = Sha(img[i])
    <3>1. c.map[i] = Row(i - 1, comp, img[i]) BY <1>1
    <3>2. Row(i - 1, comp, img[i]).plaintext_sha256 = Sha(img[i]) BY DEF Row
    <3> QED BY <3>1, <3>2
  <2> QED BY <1>1, <2>1 DEF LeafHashes
<1> DEFINE L == {Sha(img[i]) : i \in 1 .. n}
<1>6. leaves \in Seq(L) /\ Len(leaves) = n /\ leaves # <<>> /\ \A i \in 1 .. n : leaves[i] = Sha(img[i])
  <2>1. \A i \in 1 .. n : Sha(img[i]) \in L OBVIOUS
  <2> HIDE DEF L, leaves
  <2>2. leaves \in Seq(L) /\ Len(leaves) = n BY <1>1, <1>5, <2>1
  <2>3. leaves # <<>> BY <1>1, <2>2
  <2>4. \A i \in 1 .. n : leaves[i] = Sha(img[i]) BY <1>5
  <2> QED BY <2>2, <2>3, <2>4
<1>7. c.manifest.merkle_root_sha256 = merkle_root(leaves) /\ c.manifest.source_sha256 = img
  <2>1. [i \in DOMAIN img |-> Sha(img[i])] = leaves BY <1>1, <1>5
  <2> HIDE DEF leaves
  <2> QED BY <1>0, <2>1 DEF ManifestOf
<1>8. Hashed(c) BY <1>7, ConversionAssumption DEF Hashed
<1> HIDE DEF leaves, L
<1>9. TreeOk(c)
  <2>1. c.tree = serialize_merkle_tree(leaves) BY <1>0 DEF leaves
  <2>2. Accepts(c.tree) /\ LeavesOf(c.tree) = leaves /\ c.tree.tail = merkle_root(leaves)
    <3> DEFINE file == serialize_merkle_tree(leaves)
    <3>1. Accepts(file) /\ LeavesOf(file) = leaves /\ file.tail = merkle_root(leaves) BY <1>6, TreeRoundTrip
    <3> QED BY <2>1, <3>1
  <2> QED BY <1>0, <1>7, <2>2 DEF TreeOk, leaves
<1>10. ProofOk(c, proof)
  <2>1. CASE proof = None BY <2>1 DEF ProofOk
  <2>2. CASE proof \in 0 .. Len(c.map) - 1
    <3> DEFINE i == proof + 1
    <3>1. proof \in 0 .. Len(leaves) - 1 /\ i \in 1 .. n /\ proof < n /\ i - 1 = proof BY <1>1, <1>6, <2>2
    <3>2. verify_merkle_proof(leaves[i], proof, generate_merkle_proof(leaves, proof), merkle_root(leaves))
      BY <1>6, <3>1, ProofsVerify
    <3> HIDE DEF i
    <3>3. c.map[i] = Row(i - 1, comp, img[i]) BY <1>1, <3>1
    <3>4. c.map[i].sequence = proof /\ c.map[i].plaintext_sha256 = leaves[i] BY <1>6, <3>1, <3>3 DEF Row
    <3>5. verify_merkle_proof(c.map[i].plaintext_sha256, proof,
             generate_merkle_proof(LeafHashes(c.map), proof), c.manifest.merkle_root_sha256)
      BY <1>7, <3>2, <3>4 DEF leaves
    <3>6. i \in DOMAIN c.map /\ proof < Len(c.map) BY <1>1, <3>1
    <3> QED BY <1>8, <3>4, <3>5, <3>6 DEF ProofOk
  <2> QED BY <2>1, <2>2
<1>11. SourceOk(c)
  <2>1. FlattenSeq([i \in 1 .. n |-> read_chunk(c, c.map[i])]) = [i \in 1 .. n |-> img[i]]
    <3>1. n \in Nat BY <1>1
    <3>2. [i \in 1 .. n |-> read_chunk(c, c.map[i])] = [i \in 1 .. n |-> <<img[i]>>] BY <1>2
    <3>3. FlattenSeq([i \in 1 .. n |-> <<img[i]>>]) = [i \in 1 .. n |-> img[i]] BY <3>1, FlattenSingles
    <3> QED BY <3>2, <3>3
  <2>2. Restored(c) = [i \in 1 .. n |-> img[i]] BY <1>1, <2>1 DEF Restored
  <2>3. [i \in 1 .. n |-> img[i]] = img BY SequenceIs DEF n
  <2> QED BY <1>7, <2>2, <2>3 DEF SourceOk
<1>12. WholeOk(c, proof) BY <1>0, <1>9, <1>10, <1>11 DEF WholeOk
<1>13. Len(c.provenance) > 0
  <2>1. Len(<<"converted">>) = 1 OBVIOUS
  <2>2. c.provenance = <<"converted">> BY <1>0
  <2>3. Len(c.provenance) = 1 BY <2>1, <2>2
  <2> QED BY <2>3
<1> QED BY <1>0, <1>3, <1>4, <1>12, <1>13 DEF verify

\* PublishedIsWhole follows from the invariants.
LEMMA Whole == Types /\ SettingOk /\ ConvInv /\ OutInv => PublishedIsWhole
<1> SUFFICES ASSUME Types, SettingOk, ConvInv, OutInv PROVE PublishedIsWhole OBVIOUS
<1>1. comp \in {"none", "zstd"} BY DEF Types
<1>2. ConvertedIsPublished
  <2> SUFFICES ASSUME NEW p \in Converters, run[p] = "done"
               PROVE  /\ \A q \in Converters \ {p} : run[q] # "done"
                      /\ IsImage(out[Main])
                      /\ damage = 0 => /\ out[Main].map = MapOf(image[p])
                                      /\ out[Main].manifest = ManifestOf(image[p])
                                      /\ out[Main].hmac = (IF key THEN out[Main].manifest ELSE Missing)
    BY DEF ConvertedIsPublished
  <2>1. DoneOk(p) BY DEF OutInv
  <2>2. image[p] \in Images BY ImageOfDone
  <2>3. ASSUME damage = 0
        PROVE  /\ out[Main].map = MapOf(image[p])
               /\ out[Main].manifest = ManifestOf(image[p])
               /\ out[Main].hmac = (IF key THEN out[Main].manifest ELSE Missing)
    BY <2>1, <2>2, <2>3, FilesOf DEF DoneOk
  <2> QED BY <2>1, <2>3 DEF DoneOk
<1>3. PublishedAccepted
  <2> SUFFICES ASSUME IsImage(out[Main]), damage = 0, NEW k \in {key, FALSE},
                      NEW proof \in {None} \cup 0 .. Len(out[Main].map) - 1
               PROVE  verify(out[Main], k, None, proof)
    BY DEF PublishedAccepted
  <2>1. PICK p \in Converters : run[p] = "done" BY DEF OutInv
  <2>2. DoneOk(p) BY <2>1 DEF OutInv
  <2>3. image[p] \in Images BY <2>1, ImageOfDone
  <2>4. image[p] # <<>> /\ out[Main] = Made(comp, key, image[p], 8) BY <2>2 DEF DoneOk
  <2> QED BY <1>1, <2>3, <2>4, AcceptedMade
<1> QED BY <1>2, <1>3 DEF PublishedIsWhole

\* What offf-convert reports as done is there, and no other conversion was
\* told so; offf-verify accepts it in full, with its key and without one, and
\* the proof of each of its chunks (convert, self_check_container, verify).
THEOREM PublishedWhole == Spec => []PublishedIsWhole
<1>1. Inv => PublishedIsWhole BY Whole DEF Inv
<1> QED BY <1>1, Inductive, PTL

-----------------------------------------------------------------------------
(* Ranges of an image, read from its chunks.                               *)

\* The chunks of a map are pieces of the image, none of them empty, and no two
\* hold the same byte; some may be missing, and some not good.
Pieces(chunks, img) ==
    /\ IsFiniteSet(DOMAIN chunks) /\ DOMAIN chunks \subseteq Nat
    /\ \A n \in DOMAIN chunks :
          /\ chunks[n] = [off |-> chunks[n].off, data |-> chunks[n].data, good |-> chunks[n].good]
          /\ chunks[n].off \in Nat /\ Len(chunks[n].data) \in Nat \ {0}
          /\ DOMAIN chunks[n].data = 1 .. Len(chunks[n].data)
          /\ \A i \in 1 .. Len(chunks[n].data) :
                chunks[n].data[i] \in Nat /\ chunks[n].data[i] = img[chunks[n].off + i - 1]
    /\ \A n, m \in DOMAIN chunks :
          n # m => End(chunks[n]) <= chunks[m].off \/ End(chunks[m]) <= chunks[n].off

\* The bytes of chunk c.
Positions(c) == c.off .. End(c) - 1

\* Among subsets of a finite set there is one that has none of the others in it.
LEMMA SubsetLeast ==
    ASSUME NEW S, IsFiniteSet(S), NEW D \in SUBSET (SUBSET S), D # {}
    PROVE  \E s \in D : \A t \in D : t \subseteq s => t = s
<1>1. IsWellFoundedOn(StrictSubsetOrdering(S), SUBSET S)
  BY FS_StrictSubsetOrderingWellFounded, FS_FiniteSubsetsOfFinite
<1>2. PICK s \in D : \A t \in D : ~(<<t, s>> \in StrictSubsetOrdering(S)) BY <1>1, WFMin
<1>3. ASSUME NEW t \in D, t \subseteq s, t # s PROVE FALSE
  <2>1. t \in SUBSET S /\ s \in SUBSET S BY <1>2, <1>3
  <2>2. <<t, s>> \in StrictSubsetOrdering(S) BY <1>3, <2>1 DEF StrictSubsetOrdering
  <2> QED BY <1>2, <2>2
<1> QED BY <1>3

\* Induction over the subsets of a finite set: a collection that has each one
\* whose own subsets it has, has them all.
LEMMA SubsetInd ==
    ASSUME NEW S, IsFiniteSet(S), NEW C,
           \A s \in SUBSET S : (\A t \in SUBSET s : t # s => t \in C) => s \in C
    PROVE  \A s \in SUBSET S : s \in C
<1> DEFINE D == (SUBSET S) \ C
<1> SUFFICES ASSUME D # {} PROVE FALSE OBVIOUS
<1>1. D \in SUBSET (SUBSET S) OBVIOUS
<1> HIDE DEF D
<1>2. \E s \in D : \A t \in D : t \subseteq s => t = s BY <1>1, SubsetLeast
<1> USE DEF D
<1>3. PICK s \in D : \A t \in D : t \subseteq s => t = s BY <1>2
<1>4. PICK t \in SUBSET s : t # s /\ t \notin C OBVIOUS
<1>5. t \in D BY <1>3, <1>4
<1> QED BY <1>3, <1>4, <1>5

\* A finite set of numbers has a greatest one.
LEMMA MaxIs ==
    ASSUME NEW S \in SUBSET Nat, IsFiniteSet(S), S # {}
    PROVE  Max(S) \in S /\ \A y \in S : Max(S) >= y
<1> DEFINE C == {s \in SUBSET S : s # {} => \E x \in s : \A y \in s : x >= y}
<1>1. ASSUME NEW s \in SUBSET S, \A t \in SUBSET s : t # s => t \in C PROVE s \in C
  <2> SUFFICES ASSUME s # {} PROVE \E x \in s : \A y \in s : x >= y OBVIOUS
  <2>1. PICK z : z \in s OBVIOUS
  <2>2. s \subseteq Nat OBVIOUS
  <2>3. CASE s \ {z} = {}
    <3>1. \A y \in s : y = z BY <2>3
    <3> QED BY <2>1, <2>2, <3>1
  <2>4. CASE s \ {z} # {}
    <3>1. s \ {z} \in C BY <1>1, <2>1
    <3>2. PICK x \in s \ {z} : \A y \in s \ {z} : x >= y BY <2>4, <3>1
    <3>3. x \in Nat /\ z \in Nat /\ (x >= z \/ z >= x) BY <2>1, <2>2
    <3>4. CASE x >= z BY <3>2, <3>4
    <3>5. CASE z >= x
      <4>1. ASSUME NEW y \in s PROVE z >= y
        <5>1. CASE y = z BY <3>3, <5>1
        <5>2. CASE y # z
          <6>1. x >= y /\ y \in Nat BY <2>2, <3>2, <5>2
          <6> QED BY <3>3, <3>5, <6>1
        <5> QED BY <5>1, <5>2
      <4> QED BY <2>1, <4>1
    <3> QED BY <3>3, <3>4, <3>5
  <2> QED BY <2>3, <2>4
<1> HIDE DEF C
<1>2. \A s \in SUBSET S : s \in C BY <1>1, SubsetInd
<1>3. S \in C BY <1>2
<1>4. \E x \in S : \A y \in S : x >= y BY <1>3 DEF C
<1> QED BY <1>4 DEF Max

\* An element of a set.
Choice(s) == CHOOSE x \in s : TRUE

\* The sets of g have no element in common, and none but those of U.
Disjoint(g, S, U) ==
    /\ \A x \in S : g[x] \subseteq U
    /\ \A x, y \in S : x # y => g[x] \cap g[y] = {}

\* The elements of the sets of s, together.
AllOf(g, s) == UNION {g[x] : x \in s}

\* One set less is so many elements less.
Adds(g, s, x) == Cardinality(AllOf(g, s)) = Cardinality(g[x]) + Cardinality(AllOf(g, s \ {x}))

\* The sum over disjoint sets has one summand less without one of them.
LEMMA OneSetLess ==
    ASSUME NEW S, NEW U, IsFiniteSet(U), NEW g, Disjoint(g, S, U), NEW s \in SUBSET S, NEW x \in s
    PROVE  Adds(g, s, x)
<1> DEFINE A == g[x]
           B == AllOf(g, s \ {x})
<1>1. IsFiniteSet(A) /\ IsFiniteSet(B)
  <2>1. A \subseteq U /\ B \subseteq U BY DEF Disjoint, AllOf
  <2> QED BY <2>1, FS_Subset
<1>2. A \cap B = {} BY DEF Disjoint, AllOf
<1>3. AllOf(g, s) = A \cup B BY DEF AllOf
<1>4. Cardinality({}) = 0 /\ Cardinality(A) \in Nat /\ Cardinality(B) \in Nat
  BY <1>1, FS_EmptySet, FS_CardinalityType
<1> HIDE DEF A, B
<1>5. Cardinality(A \cup B) = Cardinality(A) + Cardinality(B) - Cardinality(A \cap B) BY <1>1, FS_Union
<1>6. Cardinality(A \cap B) = 0 BY <1>2, <1>4
<1>7. Cardinality(A \cup B) = Cardinality(A) + Cardinality(B) BY <1>4, <1>5, <1>6
<1> QED BY <1>3, <1>7 DEF A, B, Adds

\* it is what MapThenSumSet computes the sum of v with.
Summing(it, v, S) ==
    it = [s \in SUBSET S |-> IF s = {} THEN 0 ELSE v[Choice(s)] + it[s \ {Choice(s)}]]

\* There is such a function: it counts what the sets have together.
LEMMA SummingExists ==
    ASSUME NEW S, NEW U, IsFiniteSet(U), NEW g, Disjoint(g, S, U),
           NEW v, \A x \in S : v[x] = Cardinality(g[x])
    PROVE  \E it : Summing(it, v, S)
<1> DEFINE it == [s \in SUBSET S |-> Cardinality(AllOf(g, s))]
<1>1. ASSUME NEW s \in SUBSET S
      PROVE  it[s] = IF s = {} THEN 0 ELSE v[Choice(s)] + it[s \ {Choice(s)}]
  <2>1. CASE s = {}
    <3>1. AllOf(g, s) = {} BY <2>1 DEF AllOf
    <3> QED BY <2>1, <3>1, FS_EmptySet
  <2>2. CASE s # {}
    <3>1. Choice(s) \in s /\ v[Choice(s)] = Cardinality(g[Choice(s)]) BY <2>2 DEF Choice
    <3>2. Adds(g, s, Choice(s)) BY <3>1, OneSetLess
    <3>3. s \ {Choice(s)} \in SUBSET S OBVIOUS
    <3>4. it[s] = Cardinality(AllOf(g, s)) OBVIOUS
    <3>5. it[s \ {Choice(s)}] = Cardinality(AllOf(g, s \ {Choice(s)})) BY <3>3
    <3> HIDE DEF it
    <3> QED BY <2>2, <3>1, <3>2, <3>4, <3>5 DEF Adds
  <2> QED BY <2>1, <2>2
<1>2. it = [s \in SUBSET S |-> it[s]] OBVIOUS
<1> HIDE DEF it
<1>3. Summing(it, v, S) BY <1>1, <1>2 DEF Summing
<1> QED BY <1>3

\* And any such function does.
LEMMA SummingCounts ==
    ASSUME NEW S, IsFiniteSet(S), NEW U, IsFiniteSet(U), NEW g, Disjoint(g, S, U),
           NEW v, \A x \in S : v[x] = Cardinality(g[x]),
           NEW it, Summing(it, v, S)
    PROVE  it[S] = Cardinality(AllOf(g, S))
<1> DEFINE C == {s \in SUBSET S : it[s] = Cardinality(AllOf(g, s))}
<1>0. \A s \in SUBSET S : it[s] = IF s = {} THEN 0 ELSE v[Choice(s)] + it[s \ {Choice(s)}]
  BY DEF Summing
<1>1. ASSUME NEW s \in SUBSET S, s = {} PROVE s \in C
  <2>1. it[s] = 0 BY <1>0, <1>1
  <2>2. AllOf(g, s) = {} BY <1>1 DEF AllOf
  <2> QED BY <2>1, <2>2, FS_EmptySet
<1>2. ASSUME NEW s \in SUBSET S, s # {}, \A t \in SUBSET s : t # s => t \in C
      PROVE  s \in C
  <2>1. Choice(s) \in s /\ v[Choice(s)] = Cardinality(g[Choice(s)]) BY <1>2 DEF Choice
  <2>2. Adds(g, s, Choice(s)) BY <2>1, OneSetLess
  <2>3. s \ {Choice(s)} \in C BY <1>2, <2>1
  <2>4. it[s \ {Choice(s)}] = Cardinality(AllOf(g, s \ {Choice(s)})) BY <2>3
  <2>5. it[s] = v[Choice(s)] + it[s \ {Choice(s)}] BY <1>0, <1>2
  <2> QED BY <2>1, <2>2, <2>4, <2>5 DEF Adds
<1> HIDE DEF C
<1>3. \A s \in SUBSET S : s \in C BY <1>1, <1>2, SubsetInd
<1> QED BY <1>3 DEF C

\* The sum of the overlaps is the number of bytes that the chunks have of the
\* range.
LEMMA FilledIs ==
    ASSUME NEW chunks, NEW img, Pieces(chunks, img), NEW offset \in Nat, NEW end \in Nat,
           offset < end, NEW T, T = Touching(chunks, offset, end)
    PROVE  Filled(chunks, T, offset, end)
               = Cardinality(UNION {Positions(chunks[n]) \cap (offset .. end - 1) : n \in T})
<1> DEFINE U == offset .. end - 1
           g == [n \in T |-> Positions(chunks[n]) \cap U]
           v == [n \in T |-> Overlap(chunks[n], offset, end)]
<1>1. IsFiniteSet(T) /\ T \subseteq DOMAIN chunks
  <2>1. T \subseteq DOMAIN chunks /\ IsFiniteSet(DOMAIN chunks) BY DEF Touching, Pieces
  <2> QED BY <2>1, FS_Subset
<1>2. IsFiniteSet(U) BY FS_Interval
<1>3. ASSUME NEW n \in T PROVE v[n] = Cardinality(g[n])
  <2> DEFINE a == chunks[n].off
             e == End(chunks[n])
             lo == IF a > offset THEN a ELSE offset
             hi == IF e < end THEN e ELSE end
  <2>1. a \in Nat /\ e \in Nat
    <3>1. a \in Nat /\ Len(chunks[n].data) \in Nat BY <1>1 DEF Pieces
    <3> QED BY <3>1 DEF End
  <2>2. a < end /\ e > offset BY DEF Touching, Overlaps
  <2>3. v[n] = hi - lo BY DEF Overlap
  <2>4. g[n] = (a .. e - 1) \cap (offset .. end - 1) BY DEF Positions
  <2>5. a < e
    <3>1. a \in Nat /\ Len(chunks[n].data) \in Nat \ {0} BY <1>1 DEF Pieces
    <3> QED BY <3>1 DEF End
  <2> HIDE DEF a, e, v, g
  <2>6. g[n] = lo .. hi - 1 BY <2>1, <2>2, <2>4, <2>5
  <2>7. lo \in Int /\ hi \in Int /\ hi - 1 \in Int /\ ~(lo > hi - 1) /\ (hi - 1) - lo + 1 = hi - lo
    BY <2>1, <2>2, <2>5
  <2> HIDE DEF lo, hi
  <2>8. Cardinality(lo .. hi - 1) = (hi - 1) - lo + 1 BY <2>7, FS_Interval
  <2> QED BY <2>3, <2>6, <2>7, <2>8
<1>4. Disjoint(g, T, U)
  <2>1. \A n \in T : g[n] \subseteq U OBVIOUS
  <2>2. ASSUME NEW n \in T, NEW m \in T, n # m PROVE g[n] \cap g[m] = {}
    <3> DEFINE a == chunks[n].off
               b == End(chunks[n])
               c == chunks[m].off
               d == End(chunks[m])
    <3>1. b <= c \/ d <= a BY <1>1, <2>2 DEF Pieces
    <3>2. a \in Nat /\ b \in Nat /\ c \in Nat /\ d \in Nat
      <4>1. n \in DOMAIN chunks /\ m \in DOMAIN chunks BY <1>1
      <4>2. ASSUME NEW k \in DOMAIN chunks PROVE chunks[k].off \in Nat /\ End(chunks[k]) \in Nat
        <5>1. chunks[k].off \in Nat /\ Len(chunks[k].data) \in Nat BY DEF Pieces
        <5> DEFINE at == chunks[k].off
                   len == Len(chunks[k].data)
        <5>2. End(chunks[k]) = at + len BY DEF End
        <5> HIDE DEF at, len
        <5>3. at + len \in Nat BY <5>1 DEF at, len
        <5> QED BY <5>1, <5>2, <5>3
      <4> QED BY <4>1, <4>2
    <3>3. g[n] \subseteq a .. b - 1 /\ g[m] \subseteq c .. d - 1 BY DEF Positions
    <3> HIDE DEF a, b, c, d, g
    <3>4. (a .. b - 1) \cap (c .. d - 1) = {} BY <3>1, <3>2
    <3> QED BY <3>3, <3>4
  <2> QED BY <2>1, <2>2 DEF Disjoint
<1> DEFINE Sums(it) == it = [s \in SUBSET T |-> IF s = {} THEN 0
               ELSE Overlap(chunks[CHOOSE x \in s : TRUE], offset, end) + it[s \ {CHOOSE x \in s : TRUE}]]
<1>5. Filled(chunks, T, offset, end) = (CHOOSE it : Sums(it))[T]
  BY DEF Filled, MapThenSumSet, MapThenFoldSet
<1>6. \A s \in SUBSET T : s # {} => v[Choice(s)] = Overlap(chunks[Choice(s)], offset, end)
  BY DEF Choice
<1>7. ASSUME NEW it PROVE Summing(it, v, T) <=> Sums(it)
  <2> HIDE DEF v
  <2> QED BY <1>6 DEF Summing, Choice
<1> HIDE DEF Sums, v, g, U
<1>8. Sums(CHOOSE it : Sums(it))
  <2>1. \E it : Summing(it, v, T) BY <1>2, <1>3, <1>4, SummingExists
  <2> QED BY <1>7, <2>1
<1>9. (CHOOSE it : Sums(it))[T] = Cardinality(AllOf(g, T)) BY <1>1, <1>2, <1>3, <1>4, <1>7, <1>8, SummingCounts
<1>10. AllOf(g, T) = UNION {Positions(chunks[n]) \cap (offset .. end - 1) : n \in T} BY DEF AllOf, g, U
<1> QED BY <1>5, <1>9, <1>10

\* The places of a chunk are numbers.
LEMMA ChunkAt ==
    ASSUME NEW chunks, NEW img, Pieces(chunks, img), NEW n \in DOMAIN chunks
    PROVE  chunks[n].off \in Nat /\ End(chunks[n]) \in Nat /\ chunks[n].off < End(chunks[n])
<1>1. chunks[n].off \in Nat /\ Len(chunks[n].data) \in Nat \ {0} BY DEF Pieces
<1> QED BY <1>1 DEF End

\* A place is in a chunk if it is one of its positions.
LEMMA HoldsIs ==
    ASSUME NEW chunks, NEW img, Pieces(chunks, img), NEW n \in DOMAIN chunks, NEW pos \in Nat
    PROVE  Holds(chunks[n], pos) <=> pos \in Positions(chunks[n])
<1> DEFINE a == chunks[n].off
           e == End(chunks[n])
<1>1. a \in Nat /\ e \in Nat BY ChunkAt
<1>2. Positions(chunks[n]) = a .. e - 1 BY DEF Positions
<1>3. Holds(chunks[n], pos) <=> a <= pos /\ pos < e BY DEF Holds
<1> HIDE DEF a, e
<1> QED BY <1>1, <1>2, <1>3

\* No two chunks have the same place.
LEMMA OneHolder ==
    ASSUME NEW chunks, NEW img, Pieces(chunks, img), NEW pos \in Nat,
           NEW n \in DOMAIN chunks, NEW m \in DOMAIN chunks,
           Holds(chunks[n], pos), Holds(chunks[m], pos)
    PROVE  n = m
<1> DEFINE a == chunks[n].off
           b == End(chunks[n])
           c == chunks[m].off
           d == End(chunks[m])
<1> SUFFICES ASSUME n # m PROVE FALSE OBVIOUS
<1>1. b <= c \/ d <= a BY DEF Pieces
<1>2. a \in Nat /\ b \in Nat /\ c \in Nat /\ d \in Nat BY ChunkAt
<1>3. a <= pos /\ pos < b /\ c <= pos /\ pos < d BY DEF Holds
<1> HIDE DEF a, b, c, d
<1> QED BY <1>1, <1>2, <1>3

\* Where a chunk has a place, its byte there is that of the image.
LEMMA ByteHeld ==
    ASSUME NEW chunks, NEW img, Pieces(chunks, img), NEW pos \in Nat,
           NEW n \in DOMAIN chunks, Holds(chunks[n], pos)
    PROVE  LET j == pos - chunks[n].off + 1
           IN  j \in DOMAIN chunks[n].data /\ chunks[n].data[j] = img[pos] /\ img[pos] \in Nat
<1> DEFINE a == chunks[n].off
           j == pos - a + 1
<1>1. a \in Nat /\ Len(chunks[n].data) \in Nat BY DEF Pieces
<1>2. a <= pos /\ pos < a + Len(chunks[n].data) BY DEF Holds, End
<1>3. j \in 1 .. Len(chunks[n].data)
  <2> HIDE DEF a
  <2> QED BY <1>1, <1>2
<1>4. a + j - 1 = pos
  <2> HIDE DEF a
  <2> QED BY <1>1
<1> HIDE DEF j
<1>5. /\ j \in DOMAIN chunks[n].data
      /\ chunks[n].data[j] \in Nat /\ chunks[n].data[j] = img[a + j - 1]
  BY <1>3 DEF Pieces
<1> HIDE DEF a
<1>6. j \in DOMAIN chunks[n].data /\ chunks[n].data[j] = img[pos] /\ img[pos] \in Nat BY <1>4, <1>5
<1> QED BY <1>6 DEF a, j

\* What the chunks that touch a range tell of it: some of them is not good if
\* the range is harmed, and they count less than its length if it is not held.
Tells(chunks, offset, length) ==
    LET T     == Touching(chunks, offset, offset + length)
        range == offset .. offset + length - 1
    IN  /\ T \subseteq DOMAIN chunks /\ IsFiniteSet(T)
        /\ \A n \in DOMAIN chunks : n \in T <=> \E pos \in range : Holds(chunks[n], pos)
        /\ (\E n \in T : ~chunks[n].good) <=> ~Unharmed(chunks, range)
        /\ Filled(chunks, T, offset, offset + length) < length <=> ~Held(chunks, range)

\* Tells holds of every range of every map, as its chunks do not overlap.
LEMMA TouchingTell ==
    ASSUME NEW chunks, NEW img, Pieces(chunks, img), NEW offset \in Nat, NEW length \in Nat \ {0}
    PROVE  Tells(chunks, offset, length)
<1> DEFINE T == Touching(chunks, offset, offset + length)
           range == offset .. offset + length - 1
<1> DEFINE end == offset + length
           joined == UNION {Positions(chunks[n]) \cap range : n \in T}
           filled == Filled(chunks, T, offset, end)
<1>0. end \in Nat /\ range = offset .. end - 1 /\ range \subseteq Nat /\ offset < end OBVIOUS
<1>9. T = Touching(chunks, offset, end) OBVIOUS
<1> HIDE DEF range
<1>1. T \subseteq DOMAIN chunks /\ IsFiniteSet(T)
  <2>1. T \subseteq DOMAIN chunks /\ IsFiniteSet(DOMAIN chunks) BY DEF Touching, Pieces
  <2> QED BY <2>1, FS_Subset
<1>2. ASSUME NEW n \in DOMAIN chunks
      PROVE  n \in T <=> \E pos \in range : Holds(chunks[n], pos)
  <2> DEFINE a == chunks[n].off
             e == End(chunks[n])
             lo == IF a > offset THEN a ELSE offset
  <2>1. a \in Nat /\ e \in Nat /\ a < e BY ChunkAt
  <2>2. n \in T <=> a < end /\ e > offset BY DEF Touching, Overlaps
  <2> HIDE DEF T
  <2>3. \A pos : Holds(chunks[n], pos) <=> a <= pos /\ pos < e BY DEF Holds
  <2> HIDE DEF a, e
  <2>4. ASSUME a < end, e > offset PROVE lo \in offset .. end - 1 /\ a <= lo /\ lo < e
    BY <1>0, <2>1, <2>4
  <2>5. ASSUME NEW pos \in offset .. end - 1, a <= pos, pos < e PROVE a < end /\ e > offset
    BY <1>0, <2>1, <2>5
  <2> HIDE DEF lo, end
  <2> QED BY <1>0, <2>2, <2>3, <2>4, <2>5
<1> HIDE DEF end, T
<1>3. (\E n \in T : ~chunks[n].good) <=> ~Unharmed(chunks, range) BY <1>1, <1>2 DEF Unharmed
<1>4. joined = range <=> Held(chunks, range)
  <2>1. \A n \in DOMAIN chunks, pos \in range : Holds(chunks[n], pos) <=> pos \in Positions(chunks[n])
    BY <1>0, HoldsIs
  <2> QED BY <1>1, <1>2, <2>1 DEF Held
<1>5. filled = Cardinality(joined)
  <2>1. joined = UNION {Positions(chunks[n]) \cap (offset .. end - 1) : n \in T} BY <1>0
  <2> HIDE DEF joined
  <2> QED BY <1>0, <1>9, <2>1, FilledIs
<1>6. IsFiniteSet(range) /\ Cardinality(range) = length
  <2>1. end - 1 \in Int /\ ~(offset > end - 1) /\ (end - 1) - offset + 1 = length BY DEF end
  <2> QED BY <1>0, <2>1, FS_Interval
<1>7. filled < length <=> ~Held(chunks, range)
  <2>0. joined \subseteq range OBVIOUS
  <2> HIDE DEF joined, filled
  <2>1. IsFiniteSet(joined) /\ Cardinality(joined) <= length /\ (Cardinality(joined) = length => joined = range)
    BY <1>6, <2>0, FS_Subset
  <2>2. Cardinality(joined) \in Nat BY <2>1, FS_CardinalityType
  <2> QED BY <1>4, <1>5, <1>6, <2>1, <2>2
<1>8. \A n \in DOMAIN chunks : n \in T <=> \E pos \in range : Holds(chunks[n], pos) BY <1>2
<1> HIDE DEF filled
<1> QED BY <1>1, <1>3, <1>7, <1>8 DEF end, T, range, filled, Tells

\* The bytes of a range of the image.
BytesAt(img, offset, length) == [i \in 1 .. length |-> img[offset + i - 1]]

\* What is put together from the chunks that touch a range.
LEMMA AssembleIs ==
    ASSUME NEW chunks, NEW img, Pieces(chunks, img), NEW offset \in Nat, NEW length \in Nat \ {0},
           Held(chunks, offset .. offset + length - 1)
    PROVE  Assemble(chunks, Touching(chunks, offset, offset + length), offset, length)
               = BytesAt(img, offset, length)
<1> DEFINE T == Touching(chunks, offset, offset + length)
           range == offset .. offset + length - 1
           holders(pos) == {n \in T : Holds(chunks[n], pos)}
           byte(pos) == IF holders(pos) = {} THEN 0
                        ELSE chunks[Max(holders(pos))].data[pos - chunks[Max(holders(pos))].off + 1]
<1>1. T \subseteq DOMAIN chunks /\ \A n \in DOMAIN chunks : \A pos \in range : Holds(chunks[n], pos) => n \in T
  <2>1. Tells(chunks, offset, length) BY TouchingTell
  <2> QED BY <2>1 DEF Tells
<1> HIDE DEF T
<1>2. ASSUME NEW pos \in range PROVE byte(pos) = img[pos]
  <2>1. pos \in Nat OBVIOUS
  <2>2. PICK n \in DOMAIN chunks : Holds(chunks[n], pos) BY DEF Held
  <2> HIDE DEF range
  <2>3. holders(pos) = {n}
    <3>1. n \in holders(pos) BY <1>1, <2>2
    <3>2. ASSUME NEW m \in holders(pos) PROVE m = n BY <1>1, <2>1, <2>2, OneHolder
    <3> HIDE DEF holders
    <3> QED BY <3>1, <3>2
  <2> HIDE DEF holders
  <2>4. Max(holders(pos)) = n
    <3>1. n \in Nat BY DEF Pieces
    <3>2. \A y \in {n} : n >= y BY <3>1
    <3> QED BY <2>3, <3>2 DEF Max
  <2>5. chunks[n].data[pos - chunks[n].off + 1] = img[pos] BY <2>1, <2>2, ByteHeld
  <2> QED BY <2>3, <2>4, <2>5
<1>3. ASSUME NEW i \in 1 .. length PROVE byte(offset + i - 1) = img[offset + i - 1]
  <2>1. offset + i - 1 \in range OBVIOUS
  <2> HIDE DEF byte, range
  <2> QED BY <1>2, <2>1
<1>4. Assemble(chunks, T, offset, length) = [i \in 1 .. length |-> byte(offset + i - 1)] BY DEF Assemble
<1> HIDE DEF byte
<1>5. Assemble(chunks, T, offset, length) = BytesAt(img, offset, length) BY <1>3, <1>4 DEF BytesAt
<1> QED BY <1>5 DEF T

\* A range of an image, read from chunks of which some may be missing and some
\* damaged: the bytes of the image if every byte of it is in some chunk and
\* each chunk that has one is good, and otherwise an error, never zeros or the
\* bytes of another place (read_bytes_at, for any map and any range).
THEOREM RangesReadExactly ==
    ASSUME NEW chunks, NEW img, Pieces(chunks, img), NEW offset \in Nat, NEW length \in Nat
    PROVE  read_bytes_at(chunks, offset, length) =
               IF Covered(chunks, <<offset, length>>) THEN BytesAt(img, offset, length) ELSE NotRead
<1> DEFINE end == offset + length
           range == offset .. offset + length - 1
           T == Touching(chunks, offset, end)
           filled == Filled(chunks, T, offset, end)
           read == read_bytes_at(chunks, offset, length)
           covered == Held(chunks, range) /\ Unharmed(chunks, range)
<1> SUFFICES read = IF covered THEN BytesAt(img, offset, length) ELSE NotRead BY DEF Covered
<1>1. read = IF length = 0 THEN <<>>
             ELSE IF \E n \in T : ~chunks[n].good THEN NotRead
             ELSE IF filled < length THEN NotRead
             ELSE Assemble(chunks, T, offset, length)
  BY DEF read_bytes_at
<1>3. CASE length = 0
  <2>1. range = {} BY <1>3
  <2>2. covered
    <3> HIDE DEF range
    <3> QED BY <2>1 DEF Held, Unharmed
  <2>3. BytesAt(img, offset, length) = <<>> BY <1>3 DEF BytesAt
  <2> HIDE DEF covered, read
  <2> QED BY <1>1, <1>3, <2>2, <2>3
<1>4. CASE length # 0
  <2>0. length \in Nat \ {0} BY <1>4
  <2>4. Tells(chunks, offset, length) BY <2>0, TouchingTell
  <2>1. (\E n \in T : ~chunks[n].good) <=> ~Unharmed(chunks, range) BY <2>4 DEF Tells
  <2>2. filled < length <=> ~Held(chunks, range) BY <2>4 DEF Tells
  <2>3. Held(chunks, range) => Assemble(chunks, T, offset, length) = BytesAt(img, offset, length)
    BY <2>0, AssembleIs
  <2> HIDE DEF T, filled, read, range
  <2> QED BY <1>1, <1>4, <2>1, <2>2, <2>3
<1> QED BY <1>3, <1>4

\* The bytes of a range that is held are no error.
LEMMA BytesAreBytes ==
    ASSUME NEW chunks, NEW img, Pieces(chunks, img), NEW offset \in Nat, NEW length \in Nat,
           Covered(chunks, <<offset, length>>)
    PROVE  BytesAt(img, offset, length) # NotRead
<1> SUFFICES ASSUME BytesAt(img, offset, length) = NotRead PROVE FALSE OBVIOUS
<1>1. length = 1 /\ img[offset + 1 - 1] = -1
  <2>1. DOMAIN BytesAt(img, offset, length) = 1 .. length BY DEF BytesAt
  <2>2. DOMAIN NotRead = 1 .. 1 /\ NotRead[1] = -1 BY DEF NotRead
  <2>3. 1 .. length = 1 .. 1 BY <2>1, <2>2
  <2>4. length = 1 BY <2>3
  <2>5. BytesAt(img, offset, length)[1] = img[offset + 1 - 1] BY <2>4 DEF BytesAt
  <2> QED BY <2>2, <2>4, <2>5
<1>2. offset \in offset .. offset + length - 1 BY <1>1
<1>3. PICK n \in DOMAIN chunks : Holds(chunks[n], offset) BY <1>2 DEF Covered, Held
<1>4. img[offset] \in Nat BY <1>3, ByteHeld
<1>5. offset + 1 - 1 = offset OBVIOUS
<1>6. img[offset] = -1 BY <1>1, <1>5
<1> QED BY <1>4, <1>6

\* The extents of a file, whichever and however many: the ranges of the image
\* one after the other if all of them can be read, and otherwise an error.
THEOREM ExtentsReadExactly ==
    ASSUME NEW chunks, NEW img, Pieces(chunks, img), NEW extents,
           \A n \in DOMAIN extents : extents[n] = <<extents[n][1], extents[n][2]>>
                                     /\ extents[n][1] \in Nat /\ extents[n][2] \in Nat
    PROVE  reconstruct_from_extents(chunks, extents) =
               IF \A n \in DOMAIN extents : Covered(chunks, extents[n])
               THEN FlattenSeq([n \in DOMAIN extents |-> BytesAt(img, extents[n][1], extents[n][2])])
               ELSE NotRead
<1> DEFINE parts == [n \in DOMAIN extents |-> read_bytes_at(chunks, extents[n][1], extents[n][2])]
           ranges == [n \in DOMAIN extents |-> BytesAt(img, extents[n][1], extents[n][2])]
           covered(n) == Covered(chunks, extents[n])
<1>1. ASSUME NEW n \in DOMAIN extents
      PROVE  parts[n] = (IF covered(n) THEN ranges[n] ELSE NotRead) /\ (covered(n) => ranges[n] # NotRead)
  <2> DEFINE a == extents[n][1]
             b == extents[n][2]
  <2>1. a \in Nat /\ b \in Nat /\ extents[n] = <<a, b>> OBVIOUS
  <2>2. parts[n] = read_bytes_at(chunks, a, b) /\ ranges[n] = BytesAt(img, a, b) OBVIOUS
  <2> HIDE DEF a, b, parts, ranges
  <2>3. read_bytes_at(chunks, a, b) = IF Covered(chunks, <<a, b>>) THEN BytesAt(img, a, b) ELSE NotRead
    BY <2>1, RangesReadExactly
  <2>4. covered(n) => ranges[n] # NotRead BY <2>1, <2>2, BytesAreBytes
  <2> QED BY <2>1, <2>2, <2>3, <2>4
<1>2. CASE \A n \in DOMAIN extents : covered(n)
  <2>1. \A n \in DOMAIN extents : parts[n] = ranges[n] /\ parts[n] # NotRead BY <1>1, <1>2
  <2>2. parts = ranges BY <2>1
  <2> HIDE DEF parts, ranges
  <2>3. reconstruct_from_extents(chunks, extents) = FlattenSeq(parts)
    BY <2>1 DEF reconstruct_from_extents, parts
  <2> QED BY <1>2, <2>2, <2>3 DEF ranges
<1>3. CASE \E n \in DOMAIN extents : ~covered(n)
  <2>1. \E n \in DOMAIN extents : parts[n] = NotRead BY <1>1, <1>3
  <2>2. reconstruct_from_extents(chunks, extents) = NotRead BY <2>1 DEF reconstruct_from_extents
  <2> QED BY <1>3, <2>2
<1> QED BY <1>2, <1>3

-----------------------------------------------------------------------------
(* Ranges of an image, read through the cache.                             *)

\* What may be in a cache: chunks that could be read, each with its bytes.
Entries(chunks) == {<<n, chunks[n].data>> : n \in {m \in DOMAIN chunks : chunks[m].good}}

\* A cache of entries, no larger than it may be.
CacheSound(cache, chunks) == cache \in Seq(Entries(chunks)) /\ Len(cache) <= MAX_CACHED_CHUNKS

\* After an eviction there is room for one entry.
LEMMA RoomSound ==
    ASSUME NEW chunks, NEW cache, CacheSound(cache, chunks)
    PROVE  CacheSound(Room(cache), chunks) /\ Len(Room(cache)) < MAX_CACHED_CHUNKS
<1>1. cache \in Seq(Entries(chunks)) /\ Len(cache) <= MAX_CACHED_CHUNKS BY DEF CacheSound
<1>2. MAX_CACHED_CHUNKS \in Nat \ {0} BY CacheAssumption
<1>3. CASE Len(cache) >= MAX_CACHED_CHUNKS
  <2>1. cache # <<>> BY <1>1, <1>2, <1>3
  <2>2. Tail(cache) \in Seq(Entries(chunks)) /\ Len(Tail(cache)) = Len(cache) - 1 BY <1>1, <2>1
  <2>3. Room(cache) = Tail(cache) BY <1>3 DEF Room
  <2> QED BY <1>1, <1>2, <2>2, <2>3 DEF CacheSound
<1>4. CASE ~(Len(cache) >= MAX_CACHED_CHUNKS)
  <2>1. Room(cache) = cache BY <1>4 DEF Room
  <2> QED BY <1>1, <1>2, <1>4, <2>1 DEF CacheSound
<1> QED BY <1>3, <1>4

\* A chunk that is cached could be read, and its bytes are its own.
LEMMA PlainIs ==
    ASSUME NEW chunks, NEW cache, CacheSound(cache, chunks), NEW n, Cached(cache, n)
    PROVE  n \in DOMAIN chunks /\ chunks[n].good /\ Plain(cache, n) = chunks[n].data
<1> DEFINE k == CHOOSE k \in DOMAIN cache : cache[k][1] = n
<1>1. k \in DOMAIN cache /\ cache[k][1] = n BY DEF Cached
<1> HIDE DEF k
<1>2. cache[k] \in Entries(chunks) BY <1>1 DEF CacheSound
<1>3. PICK m \in DOMAIN chunks : chunks[m].good /\ cache[k] = <<m, chunks[m].data>> BY <1>2 DEF Entries
<1>4. m = n /\ cache[k][2] = chunks[n].data BY <1>1, <1>3
<1>5. Plain(cache, n) = cache[k][2] BY DEF Plain, k
<1> QED BY <1>3, <1>4, <1>5

\* A chunk that is cached or can be read is cached when it was fetched, and
\* the cache is as sound as it was and no longer than it may be.
LEMMA FetchKeeps ==
    ASSUME NEW chunks, NEW cache, CacheSound(cache, chunks),
           NEW n \in DOMAIN chunks, Cached(cache, n) \/ chunks[n].good
    PROVE  CacheSound(Fetch(cache, chunks, n), chunks) /\ Cached(Fetch(cache, chunks, n), n)
<1>1. CASE Cached(cache, n)
  <2>1. Fetch(cache, chunks, n) = cache BY <1>1 DEF Fetch
  <2> QED BY <1>1, <2>1
<1>2. CASE ~Cached(cache, n)
  <2> DEFINE room == Room(cache)
             entry == <<n, chunks[n].data>>
  <2>1. room \in Seq(Entries(chunks)) /\ Len(room) < MAX_CACHED_CHUNKS BY RoomSound DEF CacheSound
  <2>2. entry \in Entries(chunks) BY <1>2 DEF Entries
  <2>3. Fetch(cache, chunks, n) = Append(room, entry) BY <1>2 DEF Fetch
  <2>4. entry[1] = n OBVIOUS
  <2> HIDE DEF room, entry
  <2>5. /\ Append(room, entry) \in Seq(Entries(chunks)) /\ Len(Append(room, entry)) = Len(room) + 1
        /\ Append(room, entry)[Len(room) + 1] = entry /\ Len(room) \in Nat
    BY <2>1, <2>2
  <2> DEFINE new == Append(room, entry)
  <2> HIDE DEF new
  <2>6. Len(room) + 1 \in DOMAIN new BY <2>5 DEF new
  <2>7. Cached(new, n) BY <2>4, <2>5, <2>6 DEF Cached, new
  <2>8. Len(new) <= MAX_CACHED_CHUNKS
    <3>1. Len(new) = Len(room) + 1 BY <2>5 DEF new
    <3>2. MAX_CACHED_CHUNKS \in Nat BY CacheAssumption
    <3> QED BY <2>1, <2>5, <3>1, <3>2
  <2>9. CacheSound(new, chunks) BY <2>5, <2>8 DEF CacheSound, new
  <2> QED BY <2>3, <2>7, <2>9 DEF new
<1> QED BY <1>1, <1>2

\* it holds what read_at has when it went through each set of chunks.
Reads(it, S, chunks, offset, zeros) ==
    it = [s \in SUBSET S |-> IF s = {} THEN zeros
                             ELSE Visit(chunks, offset, Max(s), it[s \ {Max(s)}])]

\* Two such functions agree on the sets they both have.
LEMMA ReadsAgree ==
    ASSUME NEW S \in SUBSET Nat, IsFiniteSet(S), NEW R \in SUBSET S,
           NEW chunks, NEW offset, NEW zeros,
           NEW f, Reads(f, S, chunks, offset, zeros), NEW g, Reads(g, R, chunks, offset, zeros)
    PROVE  \A s \in SUBSET R : f[s] = g[s]
<1> DEFINE C == {s \in SUBSET R : f[s] = g[s]}
<1>0. IsFiniteSet(R) BY FS_Subset
<1>1. ASSUME NEW s \in SUBSET R, \A t \in SUBSET s : t # s => t \in C PROVE s \in C
  <2>1. s \in SUBSET S OBVIOUS
  <2>2. f[s] = IF s = {} THEN zeros ELSE Visit(chunks, offset, Max(s), f[s \ {Max(s)}])
    BY <2>1 DEF Reads
  <2>3. g[s] = IF s = {} THEN zeros ELSE Visit(chunks, offset, Max(s), g[s \ {Max(s)}]) BY DEF Reads
  <2>4. CASE s = {} BY <2>2, <2>3, <2>4
  <2>5. CASE s # {}
    <3>1. s \in SUBSET Nat /\ IsFiniteSet(s) BY <1>0, FS_Subset
    <3>2. Max(s) \in s BY <2>5, <3>1, MaxIs
    <3>3. s \ {Max(s)} \in C BY <1>1, <3>2
    <3>4. f[s \ {Max(s)}] = g[s \ {Max(s)}] BY <3>3
    <3> QED BY <2>2, <2>3, <2>5, <3>4
  <2> QED BY <2>4, <2>5
<1> HIDE DEF C
<1>2. \A s \in SUBSET R : s \in C BY <1>0, <1>1, SubsetInd
<1> QED BY <1>2 DEF C

\* And there is one.
LEMMA ReadsExist ==
    ASSUME NEW S \in SUBSET Nat, IsFiniteSet(S), NEW chunks, NEW offset, NEW zeros
    PROVE  \E it : Reads(it, S, chunks, offset, zeros)
<1> DEFINE Has(s, it) == Reads(it, s, chunks, offset, zeros)
           C == {s \in SUBSET S : \E it : Has(s, it)}
<1>1. ASSUME NEW s \in SUBSET S, \A t \in SUBSET s : t # s => t \in C PROVE s \in C
  <2> DEFINE of(t) == CHOOSE it : Has(t, it)
             less(t) == t \ {Max(t)}
             val(t) == IF t = {} THEN zeros ELSE Visit(chunks, offset, Max(t), of(less(t))[less(t)])
             it == [t \in SUBSET s |-> val(t)]
  <2>0. s \in SUBSET Nat /\ IsFiniteSet(s) BY FS_Subset
  <2>1. ASSUME NEW t \in SUBSET s, t # s PROVE Has(t, of(t)) /\ of(t)[t] = val(t)
    <3>1. \E g : Has(t, g) BY <1>1, <2>1
    <3>2. Has(t, of(t)) BY <3>1
    <3> HIDE DEF of
    <3>3. of(t)[t] = IF t = {} THEN zeros ELSE Visit(chunks, offset, Max(t), of(t)[less(t)])
      BY <3>2 DEF Reads
    <3>4. CASE t = {} BY <3>2, <3>3, <3>4
    <3>5. CASE t # {}
      <4>1. t \in SUBSET Nat /\ IsFiniteSet(t) BY <2>0, FS_Subset
      <4>2. Max(t) \in t BY <3>5, <4>1, MaxIs
      <4> DEFINE u == less(t)
      <4>3. u \in SUBSET t /\ u \in SUBSET s /\ u # s BY <4>2
      <4>4. Has(u, of(u))
        <5>1. \E g : Has(u, g) BY <1>1, <4>3
        <5> QED BY <5>1 DEF of
      <4> HIDE DEF u
      <4>5. of(t)[u] = of(u)[u]
        <5> DEFINE f == of(t)
                   g == of(u)
        <5>1. Has(t, f) /\ Has(u, g) BY <3>2, <4>4
        <5> HIDE DEF f, g
        <5>2. \A r \in SUBSET u : f[r] = g[r] BY <4>1, <4>3, <5>1, ReadsAgree
        <5> QED BY <5>2 DEF f, g
      <4> QED BY <3>2, <3>3, <3>5, <4>5 DEF u
    <3> QED BY <3>2, <3>4, <3>5
  <2>2. ASSUME NEW t \in SUBSET s, t # {} PROVE val(t) = Visit(chunks, offset, Max(t), it[less(t)])
    <3>1. t \in SUBSET Nat /\ IsFiniteSet(t) BY <2>0, FS_Subset
    <3>2. Max(t) \in t BY <2>2, <3>1, MaxIs
    <3> DEFINE u == less(t)
    <3>3. u \in SUBSET s /\ u # s BY <3>2
    <3> HIDE DEF u
    <3>4. of(u)[u] = val(u) BY <2>1, <3>3
    <3>5. it[u] = val(u) BY <3>3
    <3> HIDE DEF it, of
    <3> QED BY <2>2, <3>4, <3>5 DEF u
  <2>3. it = [t \in SUBSET s |-> IF t = {} THEN zeros ELSE Visit(chunks, offset, Max(t), it[t \ {Max(t)}])]
    <3>1. \A t \in SUBSET s : t = {} => val(t) = zeros OBVIOUS
    <3> HIDE DEF val
    <3>2. it = [t \in SUBSET s |-> val(t)] OBVIOUS
    <3> HIDE DEF it
    <3>3. \A t \in SUBSET s : val(t) = IF t = {} THEN zeros ELSE Visit(chunks, offset, Max(t), it[less(t)])
      BY <2>2, <3>1
    <3> QED BY <3>2, <3>3
  <2> HIDE DEF it
  <2>4. Has(s, it) BY <2>3 DEF Reads
  <2> HIDE DEF Has
  <2> QED BY <2>4
<1> HIDE DEF C, Has
<1>2. \A s \in SUBSET S : s \in C BY <1>1, SubsetInd
<1>3. S \in C BY <1>2
<1>4. \E it : Has(S, it) BY <1>3 DEF C
<1> QED BY <1>4 DEF Has

\* What was copied of a range out of the chunks of s.
PartOf(chunks, s, img, offset, length) ==
    [i \in 1 .. length |-> IF \E n \in s : Holds(chunks[n], offset + i - 1) THEN img[offset + i - 1] ELSE 0]

\* What was copied is never taken for an error.
LEMMA PartIsBytes ==
    ASSUME NEW chunks, NEW img, Pieces(chunks, img), NEW offset \in Nat, NEW length \in Nat,
           NEW s \in SUBSET DOMAIN chunks
    PROVE  PartOf(chunks, s, img, offset, length) # NotRead
<1> DEFINE part == PartOf(chunks, s, img, offset, length)
<1> SUFFICES ASSUME part = NotRead PROVE FALSE OBVIOUS
<1>1. DOMAIN part = 1 .. length BY DEF PartOf
<1>2. DOMAIN NotRead = 1 .. 1 /\ NotRead[1] = -1 BY DEF NotRead
<1>3. 1 .. length = 1 .. 1 BY <1>1, <1>2
<1>4. length = 1 BY <1>3
<1> DEFINE pos == offset + 1 - 1
<1>5. part[1] = IF \E n \in s : Holds(chunks[n], pos) THEN img[pos] ELSE 0 BY <1>4 DEF PartOf
<1>6. pos \in Nat OBVIOUS
<1> HIDE DEF pos, part
<1>7. CASE \E n \in s : Holds(chunks[n], pos)
  <2>1. PICK n \in s : Holds(chunks[n], pos) BY <1>7
  <2>2. img[pos] \in Nat BY <1>6, <2>1, ByteHeld
  <2>3. img[pos] = -1 BY <1>2, <1>5, <1>7
  <2> QED BY <2>2, <2>3
<1>8. CASE ~\E n \in s : Holds(chunks[n], pos) BY <1>2, <1>5, <1>8
<1> QED BY <1>7, <1>8

\* The bytes of chunk n copied over others.
Copied(chunks, n, others, offset, length) ==
    LET at(i) == (offset + i - 1) - chunks[n].off + 1
    IN  [i \in 1 .. length |-> IF at(i) \in DOMAIN chunks[n].data THEN chunks[n].data[at(i)] ELSE others[i]]

\* What a visit to one more chunk makes of it.
LEMMA OneMorePart ==
    ASSUME NEW chunks, NEW img, Pieces(chunks, img), NEW offset \in Nat, NEW length \in Nat,
           NEW s \in SUBSET DOMAIN chunks, NEW n \in s
    PROVE  Copied(chunks, n, PartOf(chunks, s \ {n}, img, offset, length), offset, length)
               = PartOf(chunks, s, img, offset, length)
<1> DEFINE at(i)  == (offset + i - 1) - chunks[n].off + 1
           before == PartOf(chunks, s \ {n}, img, offset, length)
           copied(i) == IF at(i) \in DOMAIN chunks[n].data THEN chunks[n].data[at(i)] ELSE before[i]
           part == PartOf(chunks, s, img, offset, length)
<1>1. ASSUME NEW i \in 1 .. length PROVE copied(i) = part[i]
  <2> DEFINE pos == offset + i - 1
             j == pos - chunks[n].off + 1
             others == \E m \in s \ {n} : Holds(chunks[m], pos)
  <2>0. pos \in Nat /\ at(i) = j OBVIOUS
  <2>1. part[i] = IF \E m \in s : Holds(chunks[m], pos) THEN img[pos] ELSE 0 BY DEF PartOf
  <2>2. before[i] = IF others THEN img[pos] ELSE 0 BY DEF PartOf
  <2> HIDE DEF pos, before, part, j, at
  <2>3. CASE Holds(chunks[n], pos)
    <3>1. j \in DOMAIN chunks[n].data /\ chunks[n].data[j] = img[pos] BY <2>0, <2>3, ByteHeld DEF j
    <3>2. part[i] = img[pos] BY <2>1, <2>3
    <3> QED BY <2>0, <3>1, <3>2
  <2>4. CASE ~Holds(chunks[n], pos)
    <3>1. j \notin DOMAIN chunks[n].data
      <4> DEFINE a == chunks[n].off
                 len == Len(chunks[n].data)
      <4>1. a \in Nat /\ len \in Nat /\ DOMAIN chunks[n].data = 1 .. len BY DEF Pieces
      <4>2. ~(a <= pos /\ pos < a + len) BY <2>4 DEF Holds, End
      <4>3. j = pos - a + 1 BY DEF j
      <4> HIDE DEF a, len
      <4> QED BY <2>0, <4>1, <4>2, <4>3
    <3>2. others <=> \E m \in s : Holds(chunks[m], pos) BY <2>4
    <3> QED BY <2>0, <2>1, <2>2, <3>1, <3>2
  <2> QED BY <2>3, <2>4
<1>2. part = [i \in 1 .. length |-> part[i]] BY DEF PartOf
<1> HIDE DEF copied, part
<1>3. [i \in 1 .. length |-> copied(i)] = part BY <1>1, <1>2
<1> QED BY <1>3 DEF copied, part, Copied

\* What read_at has when it went through the chunks of s: their bytes, or an
\* error if one of them is not good; and a sound cache.
ReadSoFar(st, chunks, s, img, offset, length) ==
    /\ st = [cache |-> st.cache, bytes |-> st.bytes]
    /\ CacheSound(st.cache, chunks)
    /\ st.bytes = IF \A n \in s : chunks[n].good THEN PartOf(chunks, s, img, offset, length) ELSE NotRead

\* The visit of one more chunk adds its bytes, or ends the read with an error.
LEMMA VisitReads ==
    ASSUME NEW chunks, NEW img, Pieces(chunks, img), NEW offset \in Nat, NEW length \in Nat,
           NEW s \in SUBSET DOMAIN chunks, NEW n \in s,
           NEW st, ReadSoFar(st, chunks, s \ {n}, img, offset, length)
    PROVE  ReadSoFar(Visit(chunks, offset, n, st), chunks, s, img, offset, length)
<1> DEFINE part == PartOf(chunks, s, img, offset, length)
           before == PartOf(chunks, s \ {n}, img, offset, length)
           next == Visit(chunks, offset, n, st)
<1>0. CacheSound(st.cache, chunks) /\ st = [cache |-> st.cache, bytes |-> st.bytes] BY DEF ReadSoFar
<1>1. st.bytes = IF \A m \in s \ {n} : chunks[m].good THEN before ELSE NotRead BY DEF ReadSoFar
<1>2. before # NotRead BY PartIsBytes
<1>3. CASE st.bytes = NotRead
  <2>1. next = st BY <1>3 DEF Visit
  <2>2. ~\A m \in s : chunks[m].good BY <1>1, <1>2, <1>3
  <2> HIDE DEF next, part
  <2> QED BY <1>0, <1>3, <2>1, <2>2 DEF ReadSoFar, part, next
<1>4. CASE st.bytes # NotRead /\ ~Cached(st.cache, n) /\ ~chunks[n].good
  <2>1. next = [cache |-> Room(st.cache), bytes |-> NotRead] BY <1>4 DEF Visit
  <2>2. /\ next.cache = Room(st.cache) /\ next.bytes = NotRead
        /\ next = [cache |-> next.cache, bytes |-> next.bytes]
    BY <2>1
  <2>3. CacheSound(next.cache, chunks) BY <1>0, <2>2, RoomSound
  <2> HIDE DEF next
  <2> QED BY <1>4, <2>2, <2>3 DEF ReadSoFar, next
<1>5. CASE st.bytes # NotRead /\ (Cached(st.cache, n) \/ chunks[n].good)
  <2> DEFINE c == Fetch(st.cache, chunks, n)
             at(i) == (offset + i - 1) - chunks[n].off + 1
             copy == [i \in DOMAIN st.bytes |->
                        IF Cached(c, n) /\ at(i) \in DOMAIN Plain(c, n) THEN Plain(c, n)[at(i)] ELSE st.bytes[i]]
  <2>1. next = [cache |-> c, bytes |-> copy] BY <1>5 DEF Visit
  <2>2. CacheSound(c, chunks) /\ Cached(c, n) BY <1>0, <1>5, FetchKeeps
  <2> HIDE DEF c
  <2>3. chunks[n].good /\ Plain(c, n) = chunks[n].data BY <2>2, PlainIs
  <2>4. st.bytes = before /\ \A m \in s \ {n} : chunks[m].good BY <1>1, <1>5
  <2>5. DOMAIN before = 1 .. length BY DEF PartOf
  <2>6. copy = Copied(chunks, n, before, offset, length)
    <3> HIDE DEF before
    <3> QED BY <2>2, <2>3, <2>4, <2>5 DEF Copied
  <2>7. copy = part
    <3> HIDE DEF copy
    <3> QED BY <2>6, OneMorePart
  <2>8. \A m \in s : chunks[m].good BY <2>3, <2>4
  <2> HIDE DEF copy, part, next
  <2>9. next.cache = c /\ next.bytes = part /\ next = [cache |-> next.cache, bytes |-> next.bytes]
    BY <2>1, <2>7
  <2> QED BY <2>2, <2>8, <2>9 DEF ReadSoFar, part, next
<1> QED BY <1>3, <1>4, <1>5

\* A range that is read through a cache, whatever was read through it before
\* and however few chunks it holds, is what is read without one; and the cache
\* is left sound and no longer than it may be (ChunkCache::read_at).
THEOREM CacheReadsExactly ==
    ASSUME NEW chunks, NEW img, Pieces(chunks, img), NEW offset \in Nat, NEW length \in Nat,
           NEW cache, CacheSound(cache, chunks)
    PROVE  /\ read_at(cache, chunks, offset, length).bytes = read_bytes_at(chunks, offset, length)
           /\ CacheSound(read_at(cache, chunks, offset, length).cache, chunks)
<1> DEFINE end == offset + length
           range == offset .. offset + length - 1
           T == Touching(chunks, offset, end)
           filled == Filled(chunks, T, offset, end)
           zeros == [cache |-> cache, bytes |-> [i \in 1 .. length |-> 0]]
           Sums(it) == it = [s \in SUBSET T |-> IF s = {} THEN zeros
                                                ELSE Visit(chunks, offset, Max(s), it[s \ {Max(s)}])]
           last == (CHOOSE it : Sums(it))[T]
           done == read_at(cache, chunks, offset, length)
           covered == Held(chunks, range) /\ Unharmed(chunks, range)
           bytes == BytesAt(img, offset, length)
<1>1. done = IF length = 0 THEN [cache |-> cache, bytes |-> <<>>]
             ELSE IF filled < length THEN [last EXCEPT !.bytes = NotRead] ELSE last
  BY DEF read_at, MapThenFoldSet
<1>2. read_bytes_at(chunks, offset, length) = IF covered THEN bytes ELSE NotRead
  BY RangesReadExactly DEF Covered
<1>3. CASE length = 0
  <2>1. read_bytes_at(chunks, offset, length) = <<>> BY <1>3 DEF read_bytes_at
  <2>2. done.bytes = <<>> /\ done.cache = cache BY <1>1, <1>3
  <2> QED BY <2>1, <2>2
<1>4. CASE length # 0
  <2>0. length \in Nat \ {0} BY <1>4
  <2>1. Tells(chunks, offset, length) BY <2>0, TouchingTell
  <2>2. T \subseteq DOMAIN chunks /\ IsFiniteSet(T) BY <2>1 DEF Tells
  <2>3. (\E n \in T : ~chunks[n].good) <=> ~Unharmed(chunks, range) BY <2>1 DEF Tells
  <2>4. filled < length <=> ~Held(chunks, range) BY <2>1 DEF Tells
  <2>5. \A n \in DOMAIN chunks : \A pos \in range : Holds(chunks[n], pos) => n \in T BY <2>1 DEF Tells
  <2>6. T \in SUBSET Nat BY <2>2 DEF Pieces
  <2> DEFINE it == CHOOSE it : Sums(it)
             Good(s) == ReadSoFar(it[s], chunks, s, img, offset, length)
             C == {s \in SUBSET T : Good(s)}
  <2> HIDE DEF T
  <2>7. Sums(it)
    <3>1. \E f : Reads(f, T, chunks, offset, zeros) BY <2>2, <2>6, ReadsExist
    <3>2. \E f : Sums(f) BY <3>1 DEF Reads
    <3> QED BY <3>2
  <2> HIDE DEF it
  <2>8. \A s \in SUBSET T : it[s] = IF s = {} THEN zeros ELSE Visit(chunks, offset, Max(s), it[s \ {Max(s)}])
    BY <2>7
  <2>9. ASSUME NEW s \in SUBSET T, \A t \in SUBSET s : t # s => t \in C PROVE s \in C
    <3>1. CASE s = {}
      <4>0. /\ zeros.cache = cache /\ zeros.bytes = [i \in 1 .. length |-> 0]
            /\ zeros = [cache |-> zeros.cache, bytes |-> zeros.bytes]
        OBVIOUS
      <4> HIDE DEF zeros
      <4>5. it[s] = zeros BY <2>8, <3>1
      <4>1. /\ it[s].cache = cache /\ it[s].bytes = [i \in 1 .. length |-> 0]
            /\ it[s] = [cache |-> it[s].cache, bytes |-> it[s].bytes]
        BY <4>0, <4>5
      <4>2. PartOf(chunks, s, img, offset, length) = [i \in 1 .. length |-> 0] BY <3>1 DEF PartOf
      <4>3. \A n \in s : chunks[n].good BY <3>1
      <4>4. Good(s) BY <4>1, <4>2, <4>3 DEF ReadSoFar
      <4> QED BY <4>4
    <3>2. CASE s # {}
      <4> DEFINE n == Max(s)
      <4>1. s \in SUBSET Nat /\ IsFiniteSet(s) BY <2>2, <2>6, FS_Subset
      <4>2. n \in s BY <3>2, <4>1, MaxIs
      <4>3. it[s] = Visit(chunks, offset, n, it[s \ {n}]) BY <2>8, <3>2
      <4> HIDE DEF n
      <4>4. s \ {n} \in C BY <2>9, <4>2
      <4>5. ReadSoFar(it[s \ {n}], chunks, s \ {n}, img, offset, length) BY <4>4
      <4>6. s \in SUBSET DOMAIN chunks BY <2>2
      <4>7. ReadSoFar(Visit(chunks, offset, n, it[s \ {n}]), chunks, s, img, offset, length)
        BY <4>2, <4>5, <4>6, VisitReads
      <4>8. Good(s) BY <4>3, <4>7
      <4> QED BY <4>8
    <3> QED BY <3>1, <3>2
  <2> HIDE DEF C
  <2>10. \A s \in SUBSET T : s \in C BY <2>2, <2>9, SubsetInd
  <2>11. T \in C BY <2>10
  <2>12. ReadSoFar(it[T], chunks, T, img, offset, length) BY <2>11 DEF C
  <2>13. last = it[T] BY DEF it
  <2> HIDE DEF last
  <2>14. CacheSound(last.cache, chunks) BY <2>12, <2>13 DEF ReadSoFar
  <2>15. last.bytes = IF \A n \in T : chunks[n].good THEN PartOf(chunks, T, img, offset, length) ELSE NotRead
    BY <2>12, <2>13 DEF ReadSoFar
  <2>16. ASSUME Held(chunks, range) PROVE PartOf(chunks, T, img, offset, length) = bytes
    <3>1. ASSUME NEW i \in 1 .. length PROVE \E n \in T : Holds(chunks[n], offset + i - 1)
      <4>1. offset + i - 1 \in range OBVIOUS
      <4> HIDE DEF range
      <4> QED BY <2>5, <2>16, <4>1 DEF Held
    <3> QED BY <3>1 DEF PartOf, BytesAt
  <2> DEFINE failed == [last EXCEPT !.bytes = NotRead]
  <2>17. failed.cache = last.cache /\ failed.bytes = NotRead
    <3>1. last = [cache |-> last.cache, bytes |-> last.bytes] BY <2>12, <2>13 DEF ReadSoFar
    <3>2. ASSUME NEW c, NEW b, last = [cache |-> c, bytes |-> b]
          PROVE  failed.cache = c /\ failed.bytes = NotRead
      BY <3>2
    <3> QED BY <3>1, <3>2
  <2>18. last.bytes # NotRead => Unharmed(chunks, range) BY <2>3, <2>15
  <2>19. Unharmed(chunks, range) => last.bytes = PartOf(chunks, T, img, offset, length) BY <2>3, <2>15
  <2> HIDE DEF done, filled, failed, range, bytes
  <2>20. CASE filled < length
    <3>1. done.bytes = NotRead /\ done.cache = last.cache BY <1>1, <1>4, <2>17, <2>20 DEF failed
    <3> QED BY <1>2, <2>4, <2>14, <2>20, <3>1 DEF done
  <2>21. CASE ~(filled < length)
    <3>1. done = last BY <1>1, <1>4, <2>21 DEF failed
    <3>2. Held(chunks, range) BY <2>4, <2>21
    <3>3. last.bytes = IF covered THEN bytes ELSE NotRead BY <2>16, <2>18, <2>19, <3>2
    <3> QED BY <1>2, <2>14, <3>1, <3>3 DEF done
  <2> QED BY <2>20, <2>21
<1> QED BY <1>3, <1>4

-----------------------------------------------------------------------------
(* The chunks that a range needs.                                          *)

\* A map without its other chunks.
Only(chunks, S) == [n \in S |-> chunks[n]]

\* Some of the pieces of an image are pieces of it.
LEMMA OnlyPieces ==
    ASSUME NEW chunks, NEW img, Pieces(chunks, img), NEW S \in SUBSET DOMAIN chunks
    PROVE  Pieces(Only(chunks, S), img)
<1> DEFINE only == Only(chunks, S)
<1>1. DOMAIN only = S /\ \A n \in S : only[n] = chunks[n] BY DEF Only
<1> HIDE DEF only
<1>2. IsFiniteSet(S) /\ S \subseteq Nat
  <2>1. IsFiniteSet(DOMAIN chunks) /\ DOMAIN chunks \subseteq Nat BY DEF Pieces
  <2> QED BY <2>1, FS_Subset
<1>3. \A n \in S :
          /\ only[n] = [off |-> only[n].off, data |-> only[n].data, good |-> only[n].good]
          /\ only[n].off \in Nat /\ Len(only[n].data) \in Nat \ {0}
          /\ DOMAIN only[n].data = 1 .. Len(only[n].data)
          /\ \A i \in 1 .. Len(only[n].data) :
                only[n].data[i] \in Nat /\ only[n].data[i] = img[only[n].off + i - 1]
  BY <1>1 DEF Pieces
<1>4. \A n, m \in S : n # m => End(only[n]) <= only[m].off \/ End(only[m]) <= only[n].off
  BY <1>1 DEF Pieces
<1>5. Pieces(only, img) BY <1>1, <1>2, <1>3, <1>4 DEF Pieces
<1> QED BY <1>5 DEF only

\* The references of a range are enough to read it, and without any one of
\* them it cannot be read (chunk_refs_for_range, for any map of good chunks).
THEOREM RefsReadExactly ==
    ASSUME NEW chunks, NEW img, Pieces(chunks, img), \A n \in DOMAIN chunks : chunks[n].good,
           NEW offset \in Nat, NEW length \in Nat
    PROVE  LET refs == chunk_refs_for_range(chunks, offset, length)
               all  == read_bytes_at(chunks, offset, length)
           IN  /\ read_bytes_at(Only(chunks, refs), offset, length) = all
               /\ all # NotRead =>
                     \A n \in refs : read_bytes_at(Only(chunks, refs \ {n}), offset, length) = NotRead
<1> DEFINE refs == chunk_refs_for_range(chunks, offset, length)
           all == read_bytes_at(chunks, offset, length)
           range == offset .. offset + length - 1
           bytes == BytesAt(img, offset, length)
           some(S) == read_bytes_at(Only(chunks, S), offset, length)
<1> SUFFICES some(refs) = all /\ (all # NotRead => \A n \in refs : some(refs \ {n}) = NotRead)
  OBVIOUS
<1>1. CASE length = 0
  <2>1. refs = {} BY <1>1 DEF chunk_refs_for_range
  <2>2. all = <<>> BY <1>1 DEF read_bytes_at
  <2>3. some({}) = <<>> BY <1>1 DEF read_bytes_at
  <2> HIDE DEF refs, all, some
  <2> QED BY <2>1, <2>2, <2>3
<1>2. CASE length # 0
  <2>0. length \in Nat \ {0} BY <1>2
  <2>1. Tells(chunks, offset, length) BY <2>0, TouchingTell
  <2>2. refs = Touching(chunks, offset, offset + length)
    BY <1>2 DEF chunk_refs_for_range, Touching
  <2>3. refs \subseteq DOMAIN chunks BY <2>1, <2>2 DEF Tells
  <2>4. \A n \in DOMAIN chunks : n \in refs <=> \E pos \in range : Holds(chunks[n], pos)
    BY <2>1, <2>2 DEF Tells
  <2> HIDE DEF refs
  <2>5. ASSUME NEW S \in SUBSET DOMAIN chunks
        PROVE  some(S) = IF \A pos \in range : \E n \in S : Holds(chunks[n], pos) THEN bytes ELSE NotRead
    <3> DEFINE only == Only(chunks, S)
    <3>1. DOMAIN only = S /\ \A n \in S : only[n] = chunks[n] BY DEF Only
    <3>2. Pieces(only, img) BY OnlyPieces
    <3> HIDE DEF only
    <3>3. read_bytes_at(only, offset, length)
             = IF Held(only, range) /\ Unharmed(only, range) THEN bytes ELSE NotRead
      BY <3>2, RangesReadExactly DEF Covered
    <3>4. Unharmed(only, range) BY <3>1 DEF Unharmed
    <3>5. Held(only, range) <=> \A pos \in range : \E n \in S : Holds(chunks[n], pos) BY <3>1 DEF Held
    <3> HIDE DEF range, bytes
    <3> QED BY <3>3, <3>4, <3>5 DEF only
  <2>6. all = IF \A pos \in range : \E n \in DOMAIN chunks : Holds(chunks[n], pos) THEN bytes ELSE NotRead
    <3>1. all = IF Held(chunks, range) /\ Unharmed(chunks, range) THEN bytes ELSE NotRead
      BY RangesReadExactly DEF Covered
    <3>2. Unharmed(chunks, range) BY DEF Unharmed
    <3> HIDE DEF all, range, bytes
    <3> QED BY <3>1, <3>2 DEF Held
  <2>7. some(refs) = all
    <3>1. some(refs) = IF \A pos \in range : \E n \in refs : Holds(chunks[n], pos) THEN bytes ELSE NotRead
      BY <2>3, <2>5
    <3>2. (\A pos \in range : \E n \in refs : Holds(chunks[n], pos))
              <=> \A pos \in range : \E n \in DOMAIN chunks : Holds(chunks[n], pos)
      BY <2>3, <2>4
    <3> HIDE DEF some, all, bytes, range
    <3> QED BY <2>6, <3>1, <3>2
  <2>8. ASSUME NEW n \in refs PROVE some(refs \ {n}) = NotRead
    <3>1. PICK pos \in range : Holds(chunks[n], pos) BY <2>3, <2>4
    <3>2. pos \in Nat OBVIOUS
    <3>3. ~\E m \in refs \ {n} : Holds(chunks[m], pos) BY <2>3, <3>1, <3>2, OneHolder
    <3>4. refs \ {n} \in SUBSET DOMAIN chunks BY <2>3
    <3>5. some(refs \ {n}) = IF \A p \in range : \E m \in refs \ {n} : Holds(chunks[m], p) THEN bytes ELSE NotRead
      BY <2>5, <3>4
    <3> HIDE DEF some, bytes, range
    <3> QED BY <3>1, <3>3, <3>5
  <2> QED BY <2>7, <2>8
<1> QED BY <1>1, <1>2

-----------------------------------------------------------------------------
(* The questions that are asked about ranges, for images of any size.      *)

\* As many more of something is at least as much.
LEMMA LessTimes ==
    ASSUME NEW a \in Nat, NEW b \in Nat, a <= b, NEW c \in Nat
    PROVE  a * c <= b * c
OBVIOUS

\* Every chunk of a conversion begins in the image.
LEMMA CutCount ==
    ASSUME NEW size \in Nat \ {0}, NEW n \in 1 .. (ImageSize + size - 1) \div size
    PROVE  (n - 1) * size < ImageSize /\ n * size = (n - 1) * size + size /\ (n - 1) * size \in Nat
<1> DEFINE q == (ImageSize + size - 1) \div size
<1>0. ImageSize \in Nat BY QuestionAssumption
<1>1. q \in Nat /\ q * size <= ImageSize + size - 1 BY <1>0
<1>2. n \in Nat /\ n <= q BY <1>1
<1> HIDE DEF q
<1>3. n * size <= q * size BY <1>1, <1>2, LessTimes
<1>4. n * size = (n - 1) * size + size /\ (n - 1) * size \in Nat /\ q * size \in Nat /\ n * size \in Nat BY <1>1, <1>2
<1> QED BY <1>0, <1>1, <1>3, <1>4

\* The image of the questions.
Bytes == [pos \in Nat |-> Byte(pos)]

\* The lesser of two numbers.
LEMMA LesserOf ==
    ASSUME NEW a \in Nat, NEW b \in Nat
    PROVE  Min({a, b}) \in Nat /\ Min({a, b}) <= a /\ (a # 0 /\ b # 0 => Min({a, b}) # 0)
<1> DEFINE m == CHOOSE x \in {a, b} : \A y \in {a, b} : x <= y
<1>1. \E x \in {a, b} : \A y \in {a, b} : x <= y
  <2>1. CASE a <= b BY <2>1
  <2>2. CASE ~(a <= b) BY <2>2
  <2> QED BY <2>1, <2>2
<1>2. m \in {a, b} /\ \A y \in {a, b} : m <= y BY <1>1
<1> HIDE DEF m
<1>3. m \in Nat /\ m <= a /\ (a # 0 /\ b # 0 => m # 0) BY <1>2
<1> QED BY <1>3 DEF Min, m

\* Chunk n of a conversion.
LEMMA CutIs ==
    ASSUME NEW size \in Nat \ {0}, NEW n \in DOMAIN Cut(size)
    PROVE  /\ Cut(size)[n].off = (n - 1) * size /\ Len(Cut(size)[n].data) \in 1 .. size
           /\ DOMAIN Cut(size)[n].data = 1 .. Len(Cut(size)[n].data)
           /\ \A i \in 1 .. Len(Cut(size)[n].data) :
                 Cut(size)[n].data[i] = Byte(Cut(size)[n].off + i - 1)
<1> DEFINE at == (n - 1) * size
           len == Min({size, ImageSize - at})
           data == [i \in 1 .. len |-> Byte(at + i - 1)]
           c == Cut(size)[n]
<1>1. n \in 1 .. (ImageSize + size - 1) \div size BY DEF Cut
<1>2. at < ImageSize /\ at \in Nat BY <1>1, CutCount
<1>3. c.off = at /\ c.data = data BY <1>1 DEF Cut
<1> HIDE DEF at, c
<1>4. len \in Nat /\ len <= size /\ len # 0
  <2>1. ImageSize - at \in Nat /\ ImageSize - at # 0 BY <1>2, QuestionAssumption
  <2> QED BY <2>1, LesserOf
<1> HIDE DEF len
<1>5. Len(data) = len /\ DOMAIN data = 1 .. len /\ \A i \in 1 .. len : data[i] = Byte(at + i - 1) BY <1>4
<1> HIDE DEF data
<1>6. Len(c.data) \in 1 .. size BY <1>3, <1>4, <1>5
<1>7. c.off = at /\ DOMAIN c.data = 1 .. Len(c.data) BY <1>3, <1>5
<1>8. \A i \in 1 .. Len(c.data) : c.data[i] = Byte(c.off + i - 1) BY <1>3, <1>5
<1> QED BY <1>6, <1>7, <1>8 DEF c, at

\* Two chunks of it lie one behind the other.
LEMMA CutApart ==
    ASSUME NEW size \in Nat \ {0}, NEW n \in DOMAIN Cut(size), NEW m \in DOMAIN Cut(size), n < m
    PROVE  End(Cut(size)[n]) <= Cut(size)[m].off
<1> DEFINE len == Len(Cut(size)[n].data)
<1>1. Cut(size)[n].off = (n - 1) * size /\ len \in 1 .. size BY CutIs
<1>2. Cut(size)[m].off = (m - 1) * size BY CutIs
<1>3. n \in 1 .. (ImageSize + size - 1) \div size /\ m \in 1 .. (ImageSize + size - 1) \div size BY DEF Cut
<1>4. n * size = (n - 1) * size + size /\ (n - 1) * size \in Nat /\ (m - 1) * size \in Nat BY <1>3, CutCount
<1>5. n * size <= (m - 1) * size
  <2>1. n \in Nat /\ m - 1 \in Nat /\ n <= m - 1 BY <1>3
  <2> QED BY <2>1, LessTimes
<1>6. End(Cut(size)[n]) = (n - 1) * size + len BY <1>1 DEF End
<1> HIDE DEF len
<1> QED BY <1>1, <1>2, <1>4, <1>5, <1>6

\* What is left of a conversion are pieces of its image.
LEMMA SparedPieces ==
    ASSUME NEW size \in Nat \ {0}, NEW lost, NEW bad
    PROVE  Pieces(Spared(size, lost, bad), Bytes)
<1> DEFINE map == Spared(size, lost, bad)
           whole == Cut(size)
<1>1. DOMAIN map \subseteq DOMAIN whole /\ \A n \in DOMAIN map : map[n] = [whole[n] EXCEPT !.good = (n # bad)]
  BY DEF Spared
<1>2. \A n \in DOMAIN whole : whole[n] = [off |-> whole[n].off, good |-> TRUE, data |-> whole[n].data]
  BY DEF Cut
<1>3. DOMAIN whole \subseteq Nat /\ IsFiniteSet(DOMAIN whole)
  <2>1. DOMAIN whole = 1 .. (ImageSize + size - 1) \div size BY DEF Cut
  <2>2. (ImageSize + size - 1) \div size \in Int BY QuestionAssumption
  <2>3. IsFiniteSet(1 .. (ImageSize + size - 1) \div size) BY <2>2, FS_Interval
  <2> QED BY <2>1, <2>3
<1> HIDE DEF map, whole
<1>4. ASSUME NEW n \in DOMAIN map
      PROVE  /\ n \in DOMAIN whole /\ map[n].off = whole[n].off /\ map[n].data = whole[n].data
             /\ map[n] = [off |-> map[n].off, data |-> map[n].data, good |-> map[n].good]
  <2>1. n \in DOMAIN whole /\ map[n] = [whole[n] EXCEPT !.good = (n # bad)] BY <1>1
  <2>2. ASSUME NEW a, NEW b, whole[n] = [off |-> a, good |-> TRUE, data |-> b]
        PROVE  /\ map[n].off = a /\ map[n].data = b
               /\ map[n] = [off |-> map[n].off, data |-> map[n].data, good |-> map[n].good]
    BY <2>1, <2>2
  <2> QED BY <1>2, <2>1, <2>2
<1>5. IsFiniteSet(DOMAIN map) /\ DOMAIN map \subseteq Nat BY <1>1, <1>3, FS_Subset
<1>6. ASSUME NEW n \in DOMAIN map
      PROVE  /\ map[n] = [off |-> map[n].off, data |-> map[n].data, good |-> map[n].good]
             /\ map[n].off \in Nat /\ Len(map[n].data) \in Nat \ {0}
             /\ DOMAIN map[n].data = 1 .. Len(map[n].data)
             /\ \A i \in 1 .. Len(map[n].data) :
                   map[n].data[i] \in Nat /\ map[n].data[i] = Bytes[map[n].off + i - 1]
  <2> DEFINE c == whole[n]
             len == Len(c.data)
  <2>1. map[n].off = c.off /\ map[n].data = c.data BY <1>4
  <2>2. c.off = (n - 1) * size /\ len \in 1 .. size /\ DOMAIN c.data = 1 .. len BY <1>4, CutIs DEF whole
  <2>3. \A i \in 1 .. len : c.data[i] = Byte(c.off + i - 1) BY <1>4, CutIs DEF whole
  <2>4. c.off \in Nat
    <3>1. n \in 1 .. (ImageSize + size - 1) \div size BY <1>4 DEF whole, Cut
    <3> QED BY <2>2, <3>1, CutCount
  <2>5. len \in Nat \ {0} BY <2>2
  <2> HIDE DEF c, len
  <2>6. ASSUME NEW i \in 1 .. len PROVE c.data[i] \in Nat /\ c.data[i] = Bytes[c.off + i - 1]
    <3> DEFINE pos == c.off + i - 1
    <3>1. pos \in Nat BY <2>4, <2>5
    <3>2. c.data[i] = Byte(pos) BY <2>3
    <3> HIDE DEF pos
    <3>3. Byte(pos) \in Nat /\ Bytes[pos] = Byte(pos) BY <3>1 DEF Byte, Bytes
    <3> QED BY <3>2, <3>3 DEF pos
  <2> QED BY <1>4, <2>1, <2>2, <2>4, <2>5, <2>6 DEF len
<1>7. ASSUME NEW n \in DOMAIN map, NEW m \in DOMAIN map, n # m
      PROVE  End(map[n]) <= map[m].off \/ End(map[m]) <= map[n].off
  <2>1. n \in Nat /\ m \in Nat BY <1>5
  <2>2. End(map[n]) = End(whole[n]) /\ End(map[m]) = End(whole[m]) BY <1>4 DEF End
  <2>3. n < m \/ m < n BY <1>7, <2>1
  <2>4. CASE n < m BY <1>4, <2>2, <2>4, CutApart DEF whole
  <2>5. CASE m < n BY <1>4, <2>2, <2>5, CutApart DEF whole
  <2> QED BY <2>3, <2>4, <2>5
<1>8. Pieces(map, Bytes) BY <1>5, <1>6, <1>7 DEF Pieces
<1> QED BY <1>8 DEF map

\* Questions are about pieces of the image, and about ranges.
RangesAsked ==
    question.kind = "ranges" =>
        /\ Pieces(question.map, Bytes)
        /\ question.one \in Nat \X Nat /\ question.two \in Nat \X Nat

\* No question is asked at first.
LEMMA AskedInit == question.kind \notin {"tree", "proof", "ranges"} => RangesAsked
BY DEF RangesAsked

\* Every question about ranges is about pieces of the image.
LEMMA AskedNext ==
    ASSUME RangesAsked, [question'.kind \in {"tree", "proof", "ranges"} => AskChunks]_question
    PROVE  RangesAsked'
<1>1. ASSUME question'.kind # "ranges" PROVE RangesAsked' BY <1>1 DEF RangesAsked
<1>2. CASE UNCHANGED question BY <1>2 DEF RangesAsked
<1>4. CASE AskTree
  <2>1. question'.kind = "tree" BY <1>4 DEF AskTree
  <2> QED BY <1>1, <2>1
<1>5. CASE AskProof
  <2>1. question'.kind = "proof" BY <1>5 DEF AskProof
  <2> QED BY <1>1, <2>1
<1>6. CASE AskRanges
  <2>1. PICK size \in 1 .. ImageSize - 1 : \E lost \in SUBSET DOMAIN Cut(size), bad \in DOMAIN Cut(size) \cup {0} :
            /\ bad \notin lost
            /\ \E one, two \in Ranges :
                  question' = [kind |-> "ranges", one |-> one, two |-> two, map |-> Spared(size, lost, bad)]
    BY <1>6 DEF AskRanges
  <2>2. PICK lost, bad : \E one, two \in Ranges :
            question' = [kind |-> "ranges", one |-> one, two |-> two, map |-> Spared(size, lost, bad)]
    BY <2>1
  <2>3. PICK one \in Ranges, two \in Ranges :
            question' = [kind |-> "ranges", one |-> one, two |-> two, map |-> Spared(size, lost, bad)]
    BY <2>2
  <2>4. question'.map = Spared(size, lost, bad) /\ question'.one = one /\ question'.two = two BY <2>3
  <2>5. size \in Nat \ {0} OBVIOUS
  <2>6. Pieces(question'.map, Bytes) BY <2>4, <2>5, SparedPieces
  <2>7. Ranges \subseteq Nat \X Nat BY DEF Ranges
  <2>8. question'.one \in Nat \X Nat /\ question'.two \in Nat \X Nat BY <2>4, <2>7
  <2>9. Bytes' = Bytes BY DEF Bytes, Byte
  <2> QED BY <2>6, <2>8 DEF RangesAsked, Pieces, End, Bytes, Byte
<1>7. CASE question'.kind \notin {"tree", "proof", "ranges"} BY <1>1, <1>7
<1> QED BY <1>2, <1>4, <1>5, <1>6, <1>7 DEF AskChunks

\* Two sequences are joined in one.
LEMMA FlattenTwo == ASSUME NEW x, NEW y PROVE FlattenSeq(<<x, y>>) = x \o y
<1> DEFINE s == <<x, y>>
<1>1. Len(s) = 2 /\ s[1] = x /\ s[2] = y OBVIOUS
<1> HIDE DEF s
<1>2. Len(s) \in Nat \ {0} BY <1>1
<1>3. PICK f : Flattens(f, s, Len(s)) /\ FlattenSeq(s) = f[Len(s)] BY <1>2, FlattenIs
<1>4. f[1] = s[1] /\ f[2] = f[1] \o s[2] BY <1>1, <1>3 DEF Flattens
<1> QED BY <1>1, <1>3, <1>4 DEF s

\* The bytes of a range of the questions are those of its place in the image.
LEMMA PairIs ==
    ASSUME NEW r \in Nat \X Nat
    PROVE  /\ r[1] \in Nat /\ r[2] \in Nat /\ r = <<r[1], r[2]>>
           /\ BytesOf(r) = BytesAt(Bytes, r[1], r[2])
<1>1. r[1] \in Nat /\ r[2] \in Nat /\ r = <<r[1], r[2]>> OBVIOUS
<1>2. ASSUME NEW i \in 1 .. r[2] PROVE Byte(r[1] + i - 1) = Bytes[r[1] + i - 1]
  <2>1. r[1] + i - 1 \in Nat BY <1>1
  <2> QED BY <2>1 DEF Bytes
<1>3. BytesOf(r) = BytesAt(Bytes, r[1], r[2]) BY <1>2 DEF BytesOf, BytesAt
<1> QED BY <1>1, <1>3

\* Questions about ranges, read directly.
LEMMA AnswersDirect == RangesAsked => RangeReadExact
<1> SUFFICES ASSUME RangesAsked, question.kind = "ranges", NEW r \in {question.one, question.two}
             PROVE  read_bytes_at(question.map, r[1], r[2])
                        = IF Covered(question.map, r) THEN BytesOf(r) ELSE NotRead
  BY DEF RangeReadExact
<1>1. Pieces(question.map, Bytes) /\ r \in Nat \X Nat BY DEF RangesAsked
<1>2. r[1] \in Nat /\ r[2] \in Nat /\ r = <<r[1], r[2]>> /\ BytesOf(r) = BytesAt(Bytes, r[1], r[2])
  BY <1>1, PairIs
<1> DEFINE a == r[1]
           b == r[2]
<1> HIDE DEF a, b
<1>3. read_bytes_at(question.map, a, b) = IF Covered(question.map, <<a, b>>) THEN BytesAt(Bytes, a, b) ELSE NotRead
  BY <1>1, <1>2, RangesReadExactly DEF a, b
<1> QED BY <1>2, <1>3 DEF a, b

\* Questions about ranges, read as the extents of a file.
LEMMA AnswersExtents == RangesAsked => ExtentsReadExact
<1> SUFFICES ASSUME RangesAsked, question.kind = "ranges" PROVE ExtentsReadExact BY DEF ExtentsReadExact
<1> DEFINE map == question.map
           one == question.one
           two == question.two
           extents == <<one, two>>
           parts == [n \in DOMAIN extents |-> BytesAt(Bytes, extents[n][1], extents[n][2])]
<1>1. Pieces(map, Bytes) /\ one \in Nat \X Nat /\ two \in Nat \X Nat BY DEF RangesAsked
<1>2. DOMAIN extents = {1, 2} /\ extents[1] = one /\ extents[2] = two OBVIOUS
<1>3. \A r \in {one, two} : /\ r = <<r[1], r[2]>> /\ r[1] \in Nat /\ r[2] \in Nat
                            /\ BytesOf(r) = BytesAt(Bytes, r[1], r[2])
  BY <1>1, PairIs
<1>4. parts = <<BytesOf(one), BytesOf(two)>> BY <1>2, <1>3
<1> HIDE DEF map, one, two, extents, parts
<1>5. \A n \in DOMAIN extents : extents[n] = <<extents[n][1], extents[n][2]>>
                                /\ extents[n][1] \in Nat /\ extents[n][2] \in Nat
  BY <1>2, <1>3
<1>6. reconstruct_from_extents(map, extents)
          = IF \A n \in DOMAIN extents : Covered(map, extents[n]) THEN FlattenSeq(parts) ELSE NotRead
  BY <1>1, <1>5, ExtentsReadExactly DEF parts
<1>7. FlattenSeq(parts) = BytesOf(one) \o BytesOf(two) BY <1>4, FlattenTwo
<1>8. (\A n \in DOMAIN extents : Covered(map, extents[n])) <=> Covered(map, one) /\ Covered(map, two) BY <1>2
<1>9. reconstruct_from_extents(map, extents)
          = IF Covered(map, one) /\ Covered(map, two) THEN BytesOf(one) \o BytesOf(two) ELSE NotRead
  BY <1>6, <1>7, <1>8
<1> QED BY <1>9 DEF ExtentsReadExact, map, one, two, extents

\* Questions about ranges, read one after the other through the cache.
LEMMA AnswersCached == RangesAsked => CacheIsTransparent
<1> SUFFICES ASSUME RangesAsked, question.kind = "ranges" PROVE CacheIsTransparent BY DEF CacheIsTransparent
<1> DEFINE map == question.map
           one == question.one
           two == question.two
           first == read_at(<<>>, map, one[1], one[2])
           second == read_at(first.cache, map, two[1], two[2])
<1>1. Pieces(map, Bytes) /\ one[1] \in Nat /\ one[2] \in Nat /\ two[1] \in Nat /\ two[2] \in Nat
  BY DEF RangesAsked
<1>2. CacheSound(<<>>, map) BY CacheAssumption DEF CacheSound
<1> HIDE DEF map, one, two
<1>3. CacheSound(first.cache, map) BY <1>1, <1>2, CacheReadsExactly
<1> HIDE DEF first
<1>4. second.bytes = read_bytes_at(map, two[1], two[2]) /\ CacheSound(second.cache, map)
  BY <1>1, <1>3, CacheReadsExactly
<1>5. Len(second.cache) <= MAX_CACHED_CHUNKS BY <1>4 DEF CacheSound
<1> QED BY <1>4, <1>5 DEF CacheIsTransparent, map, one, two, first

\* Questions about ranges, read from the chunks that are referred to.
LEMMA AnswersRefs == RangesAsked => RefsSuffice
<1> SUFFICES ASSUME RangesAsked, question.kind = "ranges", NEW r \in {question.one, question.two}
             PROVE  LET map     == [n \in DOMAIN question.map |-> [question.map[n] EXCEPT !.good = TRUE]]
                        only(S) == [n \in S |-> map[n]]
                        refs    == chunk_refs_for_range(map, r[1], r[2])
                        all     == read_bytes_at(map, r[1], r[2])
                    IN  /\ read_bytes_at(only(refs), r[1], r[2]) = all
                        /\ all # NotRead => \A n \in refs : read_bytes_at(only(refs \ {n}), r[1], r[2]) = NotRead
  BY DEF RefsSuffice
<1> DEFINE was == question.map
           map == [n \in DOMAIN was |-> [was[n] EXCEPT !.good = TRUE]]
<1>1. Pieces(was, Bytes) /\ r[1] \in Nat /\ r[2] \in Nat BY DEF RangesAsked
<1> HIDE DEF was
<1>2. Pieces(map, Bytes) /\ \A n \in DOMAIN map : map[n].good
  <2>1. DOMAIN map = DOMAIN was /\ \A n \in DOMAIN was : map[n] = [was[n] EXCEPT !.good = TRUE] OBVIOUS
  <2> HIDE DEF map
  <2>2. ASSUME NEW n \in DOMAIN was
        PROVE  /\ map[n].off = was[n].off /\ map[n].data = was[n].data /\ map[n].good
               /\ map[n] = [off |-> map[n].off, data |-> map[n].data, good |-> map[n].good]
    <3>1. was[n] = [off |-> was[n].off, data |-> was[n].data, good |-> was[n].good] BY <1>1 DEF Pieces
    <3>2. ASSUME NEW a, NEW b, NEW c, was[n] = [off |-> a, data |-> b, good |-> c]
          PROVE  map[n] = [off |-> a, data |-> b, good |-> TRUE]
      BY <2>1, <3>2
    <3>3. map[n] = [off |-> was[n].off, data |-> was[n].data, good |-> TRUE] BY <3>1, <3>2
    <3> QED BY <3>3
  <2>3. \A n \in DOMAIN was : End(map[n]) = End(was[n]) BY <2>2 DEF End
  <2>4. IsFiniteSet(DOMAIN map) /\ DOMAIN map \subseteq Nat BY <1>1, <2>1 DEF Pieces
  <2>5. ASSUME NEW n \in DOMAIN was
        PROVE  /\ was[n].off \in Nat /\ Len(was[n].data) \in Nat \ {0}
               /\ DOMAIN was[n].data = 1 .. Len(was[n].data)
               /\ \A i \in 1 .. Len(was[n].data) :
                     was[n].data[i] \in Nat /\ was[n].data[i] = Bytes[was[n].off + i - 1]
    BY <1>1 DEF Pieces
  <2>6. \A n, m \in DOMAIN was : n # m => End(was[n]) <= was[m].off \/ End(was[m]) <= was[n].off
    BY <1>1 DEF Pieces
  <2>7. \A n, m \in DOMAIN map : n # m => End(map[n]) <= map[m].off \/ End(map[m]) <= map[n].off
    BY <2>1, <2>2, <2>3, <2>6
  <2>8. ASSUME NEW n \in DOMAIN map
        PROVE  /\ map[n] = [off |-> map[n].off, data |-> map[n].data, good |-> map[n].good]
               /\ map[n].off \in Nat /\ Len(map[n].data) \in Nat \ {0}
               /\ DOMAIN map[n].data = 1 .. Len(map[n].data)
               /\ \A i \in 1 .. Len(map[n].data) :
                     map[n].data[i] \in Nat /\ map[n].data[i] = Bytes[map[n].off + i - 1]
    BY <2>1, <2>2, <2>5
  <2>9. Pieces(map, Bytes) BY <2>4, <2>7, <2>8 DEF Pieces
  <2> QED BY <2>1, <2>2, <2>9
<1> HIDE DEF map
<1>3. LET refs == chunk_refs_for_range(map, r[1], r[2])
          all  == read_bytes_at(map, r[1], r[2])
      IN  /\ read_bytes_at(Only(map, refs), r[1], r[2]) = all
          /\ all # NotRead => \A n \in refs : read_bytes_at(Only(map, refs \ {n}), r[1], r[2]) = NotRead
  BY <1>1, <1>2, RefsReadExactly
<1> QED BY <1>3 DEF Only, map, was

\* A range, read directly or through the cache, or the extents of a file, gives
\* the very bytes of the image or an error, and the references of a range are
\* those it needs: what the run asks of an image of five bytes and a cache of
\* two chunks, for images of any size, any cache, whatever is missing or
\* damaged, and whatever other questions there are.
THEOREM RangesAnswered == ChunkSpec => []ReadsExact
<1>1. RangesAsked /\ [question'.kind \in {"tree", "proof", "ranges"} => AskChunks]_question => RangesAsked'
  BY AskedNext
<1>2. RangesAsked => ReadsExact BY AnswersDirect, AnswersExtents, AnswersCached, AnswersRefs DEF ReadsExact
<1> QED BY AskedInit, <1>1, <1>2, PTL DEF ChunkSpec, OnlyAsked

-----------------------------------------------------------------------------
(* The questions that are asked about trees, for any number of leaves.     *)

\* The leaves of the questions are all different.
LEMMA LeavesAre ==
    ASSUME NEW n \in Nat
    PROVE  /\ LeavesUpTo(n) \in Seq({<<k>> : k \in 1 .. n}) /\ Len(LeavesUpTo(n)) = n
           /\ \A k \in 1 .. n : LeavesUpTo(n)[k] = <<k>>
BY DEF LeavesUpTo

\* A file with one change, or none.
OneChange(file, stored) ==
    \/ file = stored
    \/ \E k \in DOMAIN stored.nodes : file = [stored EXCEPT !.nodes[k] = Noise]
    \/ file = [stored EXCEPT !.tail = Noise]
    \/ \E c \in Nat : file = [stored EXCEPT !.leaf_count = c]

\* Whatever one change there is, the file is accepted only if it is the tree's.
LEMMA OneChangeSeen ==
    ASSUME NEW n \in Nat \ {0}, NEW file, OneChange(file, serialize_merkle_tree(LeavesUpTo(n)))
    PROVE  Accepts(file) <=> file = serialize_merkle_tree(LeavesUpTo(n))
<1> DEFINE leaves == LeavesUpTo(n)
           stored == serialize_merkle_tree(leaves)
           K == {<<k>> : k \in 1 .. n}
<1>1. leaves \in Seq(K) /\ Len(leaves) = n BY LeavesAre
<1> HIDE DEF leaves, K
<1>2. leaves # <<>> BY <1>1
<1>3. PICK X : stored.nodes \in Seq(X) BY <1>1, <1>2, NodesListed
<1> DEFINE L == X \cup K \cup {Noise}
<1>4. leaves \in Seq(L) /\ stored.nodes \in Seq(L) BY <1>1, <1>3
<1>5. stored.leaf_count \in Nat
      /\ stored = [leaf_count |-> stored.leaf_count, nodes |-> stored.nodes, tail |-> stored.tail]
  <2>1. stored.leaf_count = n BY <1>1 DEF serialize_merkle_tree
  <2>2. stored = [leaf_count |-> stored.leaf_count, nodes |-> stored.nodes, tail |-> stored.tail]
    BY DEF serialize_merkle_tree
  <2> QED BY <2>1, <2>2
<1> DEFINE File(c, m, t) == [leaf_count |-> c, nodes |-> m, tail |-> t]
           Is(c, m, t) == /\ file = File(c, m, t)
                          /\ m = stored.nodes \/ (c = stored.leaf_count /\ t = stored.tail)
           Shaped == \E c \in Nat, m \in Seq(L) : \E t : Is(c, m, t)
<1>6. Shaped
  <2> HIDE DEF stored
  <2>0. OneChange(file, stored) BY DEF stored, leaves
  <2>1. CASE file = stored BY <1>4, <1>5, <2>1
  <2>2. ASSUME NEW k \in DOMAIN stored.nodes, file = [stored EXCEPT !.nodes[k] = Noise] PROVE Shaped
    <3> DEFINE m == [stored.nodes EXCEPT ![k] = Noise]
    <3>1. m \in Seq(L)
      <4>1. Noise \in L OBVIOUS
      <4> HIDE DEF L
      <4> QED BY <1>4, <4>1
    <3>2. file = File(stored.leaf_count, m, stored.tail) BY <1>5, <2>2
    <3> HIDE DEF m, File
    <3> QED BY <1>5, <3>1, <3>2
  <2>3. ASSUME file = [stored EXCEPT !.tail = Noise] PROVE Shaped
    <3>1. file = File(stored.leaf_count, stored.nodes, Noise) BY <1>5, <2>3
    <3> HIDE DEF File
    <3> QED BY <1>4, <1>5, <3>1
  <2>4. ASSUME NEW c \in Nat, file = [stored EXCEPT !.leaf_count = c] PROVE Shaped
    <3>1. file = File(c, stored.nodes, stored.tail) BY <1>5, <2>4
    <3> HIDE DEF File
    <3> QED BY <1>4, <3>1
  <2> QED BY <2>0, <2>1, <2>2, <2>3, <2>4 DEF OneChange
<1>7. PICK c \in Nat, m \in Seq(L) : \E t : Is(c, m, t) BY <1>6
<1>8. PICK t : Is(c, m, t) BY <1>7
<1> HIDE DEF L
<1>9. Accepts(File(c, m, t)) <=> File(c, m, t) = stored BY <1>2, <1>4, <1>8, StoredTreeBinds
<1> QED BY <1>8, <1>9 DEF stored, leaves

\* The proof of one chunk holds for no other chunk and no other place.
LEMMA OneProof ==
    ASSUME NEW n \in Nat, NEW of \in 0 .. n - 1, NEW leaf \in 0 .. n - 1, NEW at \in 0 .. n - 1
    PROVE  LET leaves == LeavesUpTo(n) IN
           verify_merkle_proof(leaves[leaf + 1], at, generate_merkle_proof(leaves, of), merkle_root(leaves))
               <=> of = leaf /\ of = at
<1> DEFINE leaves == LeavesUpTo(n)
           proof == generate_merkle_proof(leaves, of)
           K == {<<k>> : k \in 1 .. n}
<1>1. leaves \in Seq(K) /\ Len(leaves) = n /\ \A k \in 1 .. n : leaves[k] = <<k>> BY LeavesAre
<1>2. proof.leaf_sequence = of /\ proof.leaf_hash = leaves[of + 1] BY DEF generate_merkle_proof
<1> HIDE DEF leaves, proof, K
<1>3. verify_merkle_proof(leaves[of + 1], of, proof, merkle_root(leaves))
  <2>1. of \in 0 .. Len(leaves) - 1 BY <1>1
  <2> QED BY <1>1, <2>1, ProofsVerify DEF proof
<1>4. ASSUME verify_merkle_proof(leaves[leaf + 1], at, proof, merkle_root(leaves))
      PROVE  of = leaf /\ of = at
  <2>1. of = at /\ leaves[of + 1] = leaves[leaf + 1] BY <1>2, <1>4 DEF verify_merkle_proof
  <2>2. of + 1 \in 1 .. n /\ leaf + 1 \in 1 .. n OBVIOUS
  <2>3. <<of + 1>> = <<leaf + 1>> BY <1>1, <2>1, <2>2
  <2>4. of + 1 = leaf + 1 BY <2>3
  <2> QED BY <2>1, <2>4
<1> QED BY <1>3, <1>4 DEF leaves, proof

\* Questions are about trees with at most one change, and about leaves that are
\* there.
TreesAsked ==
    /\ question.kind = "tree" =>
          question.n \in Nat \ {0} /\ OneChange(question.file, serialize_merkle_tree(LeavesUpTo(question.n)))
    /\ question.kind = "proof" =>
          /\ question.n \in Nat
          /\ question.of \in 0 .. question.n - 1 /\ question.leaf \in 0 .. question.n - 1
          /\ question.at \in 0 .. question.n - 1

\* Every question about trees has at most one change.
LEMMA TreesNext ==
    ASSUME TreesAsked, [question'.kind \in {"tree", "proof", "ranges"} => AskChunks]_question
    PROVE  TreesAsked'
<1>1. ASSUME question'.kind \notin {"tree", "proof"} PROVE TreesAsked' BY <1>1 DEF TreesAsked
<1>2. CASE UNCHANGED question BY <1>2 DEF TreesAsked
<1>4. CASE AskTree
  <2> DEFINE ask(n, changed) == question' = [kind |-> "tree", n |-> n, file |-> changed]
             stored(n) == serialize_merkle_tree(LeavesUpTo(n))
  <2>1. PICK n \in 1 .. MaxLeaves :
            \/ ask(n, stored(n))
            \/ \E k \in DOMAIN stored(n).nodes : ask(n, [stored(n) EXCEPT !.nodes[k] = Noise])
            \/ ask(n, [stored(n) EXCEPT !.tail = Noise])
            \/ \E c \in 0 .. MaxLeaves + 1 : ask(n, [stored(n) EXCEPT !.leaf_count = c])
    BY <1>4 DEF AskTree
  <2> DEFINE old == stored(n)
  <2>2. ASSUME NEW f, ask(n, f) PROVE question'.kind = "tree" /\ question'.n = n /\ question'.file = f BY <2>2
  <2> HIDE DEF ask
  <2>3. 0 .. MaxLeaves + 1 \subseteq Nat /\ n \in Nat \ {0} BY QuestionAssumption
  <2> HIDE DEF stored
  <2> DEFINE Is == question'.kind = "tree" /\ question'.n = n /\ OneChange(question'.file, old)
  <2>4. ASSUME ask(n, old) PROVE Is BY <2>2, <2>4 DEF OneChange
  <2>5. ASSUME NEW k \in DOMAIN old.nodes, ask(n, [old EXCEPT !.nodes[k] = Noise]) PROVE Is
    BY <2>2, <2>5 DEF OneChange
  <2>6. ASSUME ask(n, [old EXCEPT !.tail = Noise]) PROVE Is BY <2>2, <2>6 DEF OneChange
  <2>7. ASSUME NEW c \in 0 .. MaxLeaves + 1, ask(n, [old EXCEPT !.leaf_count = c]) PROVE Is
    BY <2>2, <2>3, <2>7 DEF OneChange
  <2>8. Is BY <2>1, <2>4, <2>5, <2>6, <2>7
  <2> QED BY <2>3, <2>8 DEF TreesAsked, stored
<1>5. CASE AskProof
  <2>1. PICK n \in 1 .. MaxLeaves : \E of, leaf, at \in 0 .. n - 1 :
            question' = [kind |-> "proof", n |-> n, of |-> of, leaf |-> leaf, at |-> at]
    BY <1>5 DEF AskProof
  <2>2. PICK of \in 0 .. n - 1, leaf \in 0 .. n - 1, at \in 0 .. n - 1 :
            question' = [kind |-> "proof", n |-> n, of |-> of, leaf |-> leaf, at |-> at]
    BY <2>1
  <2>3. /\ question'.kind = "proof" /\ question'.n = n
        /\ question'.of = of /\ question'.leaf = leaf /\ question'.at = at
    BY <2>2
  <2> QED BY <2>3 DEF TreesAsked
<1>6. CASE AskRanges
  <2>1. question'.kind = "ranges" BY <1>6 DEF AskRanges
  <2> QED BY <1>1, <2>1
<1>7. CASE question'.kind \notin {"tree", "proof", "ranges"} BY <1>1, <1>7
<1> QED BY <1>2, <1>4, <1>5, <1>6, <1>7 DEF AskChunks

\* merkle_tree.bin is accepted exactly if nothing in it was changed, and the
\* proof of a chunk holds for that chunk and its place only: what the run
\* asks for up to seven leaves, for every number of them, whatever other
\* questions there are.
THEOREM TreesBound == ChunkSpec => []TreesBind
<1>1. question.kind \notin {"tree", "proof", "ranges"} => TreesAsked BY DEF TreesAsked
<1>2. TreesAsked => TreesBind
  <2>1. ASSUME TreesAsked PROVE TreeBinds BY <2>1, OneChangeSeen DEF TreesAsked, TreeBinds
  <2>2. ASSUME TreesAsked PROVE ProofBinds BY <2>2, OneProof DEF TreesAsked, ProofBinds
  <2> QED BY <2>1, <2>2 DEF TreesBind
<1>3. TreesAsked /\ [question'.kind \in {"tree", "proof", "ranges"} => AskChunks]_question => TreesAsked'
  BY TreesNext
<1> QED BY <1>1, <1>2, <1>3, PTL DEF ChunkSpec, OnlyAsked
=============================================================================
