---------------------------- MODULE DeckTheorems ----------------------------
(***************************************************************************)
(* What DeckValidation, DeckReview and StoryPlanning state of a deck, from *)
(* the template it is planned with to its score, for decks, templates and  *)
(* lists of bullets of any length and any limits.                          *)
(*                                                                         *)
(* Most of it is about recursion over the slides of a deck.  The first     *)
(* lemmas say that such a recursion defines something, and give induction  *)
(* in a form without operators: a set of numbers with 0 that has n + 1     *)
(* with every n.                                                           *)
(***************************************************************************)
EXTENDS DeckReview, StoryPlanning, FiniteSetTheorems, SequenceTheorems,
        WellFoundedInduction, TLAPS

-----------------------------------------------------------------------------
(* Induction and recursion.                                                *)

(* A set of natural numbers has a least one.                               *)
LEMMA LeastNat ==
  ASSUME NEW S, S \subseteq Nat, S # {}
  PROVE  \E n \in S : \A m \in S : n <= m
<1> DEFINE R == OpToRel(<, Nat)
<1>1. IsWellFoundedOn(R, Nat)
  BY NatLessThanWellFounded
<1>2. \E x \in S : \A y \in S : ~ (<<y, x>> \in R)
  <2> HIDE DEF R
  <2> QED BY <1>1, WFMin
<1>3. PICK x \in S : \A y \in S : ~ (<<y, x>> \in R)
  BY <1>2
<1>4. ASSUME NEW y \in S, y < x PROVE FALSE
  <2>1. <<y, x>> \in Nat \X Nat OBVIOUS
  <2>2. <<y, x>>[1] < <<y, x>>[2] BY <1>4
  <2>3. R = {ss \in Nat \X Nat : ss[1] < ss[2]} BY DEF OpToRel
  <2> HIDE DEF R
  <2>4. <<y, x>> \in R BY <2>1, <2>2, <2>3
  <2> QED BY <2>4, <1>3
<1>5. \A y \in S : x <= y BY <1>4
<1> QED BY <1>5

(* Induction up to N.                                                      *)
LEMMA NatUpTo ==
  ASSUME NEW N \in Nat, NEW T, 0 \in T, \A n \in 0 .. N - 1 : n \in T => n + 1 \in T
  PROVE  0 .. N \subseteq T
<1> DEFINE Bad == {n \in 0 .. N : n \notin T}
<1>1. SUFFICES ASSUME Bad # {} PROVE FALSE
  BY DEF Bad
<1>2. PICK n \in Bad : \A m \in Bad : n <= m
  <2>1. Bad \subseteq Nat OBVIOUS
  <2> HIDE DEF Bad
  <2> QED BY <1>1, <2>1, LeastNat
<1>3. n # 0 /\ n \in 0 .. N
  OBVIOUS
<1>4. n - 1 \in 0 .. N - 1 /\ n - 1 \in 0 .. N
  BY <1>3
<1>5. n - 1 \in T
  <2>1. n - 1 \notin Bad
    <3>1. ~(n <= n - 1) BY <1>3
    <3> QED BY <3>1, <1>2
  <2> QED BY <2>1, <1>4
<1> QED BY <1>4, <1>5

(* A recursion over 1 .. N, with a function for each by, has a solution. *)
Solves(f, N, S, base, by) == /\ f \in [0 .. N -> S] /\ f[0] = base
                             /\ \A n \in 1 .. N : f[n] = by[n][f[n - 1]]
Steps(N, S) == [1 .. N -> [S -> S]]

LEMMA RecursionExists ==
  ASSUME NEW N \in Nat, NEW S, NEW base \in S, NEW by \in Steps(N, S)
  PROVE  \E f : Solves(f, N, S, base, by)
<1> USE DEF Steps
<1> DEFINE Good(k, f) == /\ f \in [0 .. k -> S] /\ f[0] = base
                         /\ \A n \in 1 .. k : f[n] = by[n][f[n - 1]]
           T == {k \in 0 .. N : \E f : Good(k, f)}
<1>1. 0 \in T
  <2>1. Good(0, [n \in 0 .. 0 |-> base])
    OBVIOUS
  <2> HIDE DEF Good
  <2> QED BY <2>1
<1>2. ASSUME NEW k \in 0 .. N - 1, k \in T PROVE k + 1 \in T
  <2>1. PICK f : Good(k, f)
    BY <1>2
  <2> DEFINE g == [n \in 0 .. k + 1 |-> IF n = k + 1 THEN by[k + 1][f[k]] ELSE f[n]]
  <2>2. by[k + 1] \in [S -> S] /\ f[k] \in S
    BY <2>1
  <2>3. g \in [0 .. k + 1 -> S]
    BY <2>1, <2>2
  <2>4. \A n \in 0 .. k : g[n] = f[n]
    OBVIOUS
  <2>5. g[k + 1] = by[k + 1][g[k]]
    OBVIOUS
  <2>6. ASSUME NEW n \in 1 .. k + 1 PROVE g[n] = by[n][g[n - 1]]
    <3>1. CASE n = k + 1
      BY <3>1, <2>5
    <3>2. CASE n # k + 1
      <4>1. n \in 1 .. k /\ n \in 0 .. k /\ n - 1 \in 0 .. k BY <3>2
      <4> HIDE DEF g
      <4> QED BY <4>1, <2>4, <2>1
    <3> QED BY <3>1, <3>2
  <2>7. Good(k + 1, g)
    <3>1. g[0] = base BY <2>1, <2>4
    <3> HIDE DEF g
    <3> QED BY <2>3, <3>1, <2>6
  <2> HIDE DEF Good, g
  <2> QED BY <2>7
<1>3. N \in T
  <2> HIDE DEF T
  <2>1. \A k \in 0 .. N - 1 : k \in T => k + 1 \in T
    BY <1>2
  <2>2. 0 .. N \subseteq T
    BY <1>1, <2>1, NatUpTo
  <2> QED
    BY <2>2
<1> QED
  BY <1>3 DEF Solves

(* And only one, whatever it is outside of S.                              *)
Follows(g, N, S, base, by) ==
  g[0] = base /\ \A n \in 1 .. N : g[n - 1] \in S => g[n] = by[n][g[n - 1]]

LEMMA SolutionsAgree ==
  ASSUME NEW N \in Nat, NEW S, NEW base, NEW by, NEW f, NEW g,
         Solves(f, N, S, base, by), Follows(g, N, S, base, by)
  PROVE  g[N] = f[N]
<1> DEFINE T == {n \in 0 .. N : g[n] = f[n]}
<1>1. /\ f \in [0 .. N -> S] /\ f[0] = base /\ \A n \in 1 .. N : f[n] = by[n][f[n - 1]]
      /\ g[0] = base /\ \A n \in 1 .. N : g[n - 1] \in S => g[n] = by[n][g[n - 1]]
  BY DEF Solves, Follows
<1>2. 0 \in T
  BY <1>1
<1>3. ASSUME NEW n \in 0 .. N - 1, n \in T PROVE n + 1 \in T
  <2>1. n + 1 \in 1 .. N /\ n + 1 \in 0 .. N /\ (n + 1) - 1 = n /\ n \in 0 .. N
    OBVIOUS
  <2>2. g[n] = f[n] /\ f[n] \in S
    BY <1>1, <1>3, <2>1
  <2>3. g[n + 1] = by[n + 1][g[n]] /\ f[n + 1] = by[n + 1][f[n]]
    BY <1>1, <2>1, <2>2
  <2> QED
    BY <2>1, <2>2, <2>3
<1>4. 0 .. N \subseteq T
  <2> HIDE DEF T
  <2>1. \A n \in 0 .. N - 1 : n \in T => n + 1 \in T
    BY <1>3
  <2> QED
    BY <1>2, <2>1, NatUpTo
<1> QED
  BY <1>4

-----------------------------------------------------------------------------
(* Lists put behind one another.                                           *)

LEMMA ConcatPlaces ==
  ASSUME NEW A, NEW s \in Seq(A), NEW t \in Seq(A)
  PROVE  /\ s \o t \in Seq(A) /\ Len(s) \in Nat /\ Len(t) \in Nat
         /\ Len(s \o t) = Len(s) + Len(t)
         /\ \A k \in 1 .. Len(s) : (s \o t)[k] = s[k]
         /\ \A j \in 1 .. Len(t) : (s \o t)[Len(s) + j] = t[j]
<1>1. Len(s) \in Nat /\ Len(t) \in Nat
  BY LenProperties
<1>2. /\ s \o t \in Seq(A) /\ Len(s \o t) = Len(s) + Len(t)
      /\ \A i \in 1 .. Len(s) + Len(t) : (s \o t)[i] = IF i <= Len(s) THEN s[i] ELSE t[i - Len(s)]
  BY ConcatProperties
<1>3. ASSUME NEW k \in 1 .. Len(s) PROVE (s \o t)[k] = s[k]
  BY <1>1, <1>2
<1>4. ASSUME NEW j \in 1 .. Len(t) PROVE (s \o t)[Len(s) + j] = t[j]
  <2>1. Len(s) + j \in 1 .. Len(s) + Len(t) /\ ~(Len(s) + j <= Len(s)) /\ (Len(s) + j) - Len(s) = j
    BY <1>1
  <2> QED
    BY <2>1, <1>2
<1> QED
  BY <1>1, <1>2, <1>3, <1>4

(* The lists that FlattenSeq makes one after the other.                    *)
LEMMA FlattenPrefixes ==
  ASSUME NEW A, NEW s \in Seq(Seq(A))
  PROVE  \E f \in [0 .. Len(s) -> Seq(A)] :
            /\ f[0] = <<>> /\ \A n \in 1 .. Len(s) : f[n] = f[n - 1] \o s[n]
            /\ FlattenSeq(s) = f[Len(s)]
<1> DEFINE N == Len(s)
           by == [n \in 1 .. N |-> [x \in Seq(A) |-> x \o s[n]]]
           list == CHOOSE h : h = [i \in 1 .. Len(s) |-> IF i = 1 THEN s[i] ELSE h[i - 1] \o s[i]]
<1>0. N \in Nat /\ \A n \in 1 .. N : s[n] \in Seq(A)
  OBVIOUS
<1>1. by \in [1 .. N -> [Seq(A) -> Seq(A)]]
  OBVIOUS
<1>2. PICK f \in [0 .. N -> Seq(A)] : f[0] = <<>> /\ \A n \in 1 .. N : f[n] = by[n][f[n - 1]]
  <2>1. <<>> \in Seq(A) /\ by \in Steps(N, Seq(A))
    BY <1>1 DEF Steps
  <2> HIDE DEF by, N
  <2>2. \E f : Solves(f, N, Seq(A), <<>>, by)
    BY <1>0, <2>1, RecursionExists
  <2> QED
    BY <2>2 DEF Solves
<1>3. f[0] = <<>>
  BY <1>2
<1>4. ASSUME NEW n \in 1 .. N PROVE f[n] = f[n - 1] \o s[n]
  <2>1. f[n] = by[n][f[n - 1]]
    BY <1>2
  <2>2. n - 1 \in 0 .. N
    BY <1>0
  <2>3. f[n - 1] \in Seq(A)
    BY <2>2
  <2> QED
    BY <2>1, <2>3
<1> HIDE DEF by
<1>5. FlattenSeq(s) = f[N]
  <2>1. CASE N = 0
    <3>1. s = <<>>
      BY <2>1
    <3>2. FlattenSeq(s) = s
      BY <2>1 DEF FlattenSeq
    <3> QED
      BY <3>1, <3>2, <2>1, <1>3
  <2>2. CASE N # 0
    <3> DEFINE g == [n \in 1 .. N |-> f[n]]
    <3>1. ASSUME NEW i \in 1 .. N PROVE g[i] = IF i = 1 THEN s[i] ELSE g[i - 1] \o s[i]
      <4>1. CASE i = 1
        <5>1. f[i] = f[0] \o s[i] /\ s[i] \in Seq(A)
          <6>1. i - 1 = 0
            BY <4>1
          <6> QED
            BY <6>1, <1>4, <1>0
        <5> QED
          BY <5>1, <4>1, <1>3
      <4>2. CASE i # 1
        <5>1. i - 1 \in 1 .. N
          BY <4>2, <1>0
        <5> QED
          BY <5>1, <4>2, <1>4
      <4> QED
        BY <4>1, <4>2
    <3>2. g = [i \in 1 .. Len(s) |-> IF i = 1 THEN s[i] ELSE g[i - 1] \o s[i]]
      <4>1. g = [i \in 1 .. N |-> g[i]]
        OBVIOUS
      <4> HIDE DEF g
      <4> QED
        BY <3>1, <4>1
    <3>3. list = [i \in 1 .. Len(s) |-> IF i = 1 THEN s[i] ELSE list[i - 1] \o s[i]]
      <4> HIDE DEF g
      <4> QED
        BY <3>2
    <3>4. FlattenSeq(s) = list[Len(s)]
      BY <2>2 DEF FlattenSeq
    <3> DEFINE T == {n \in 0 .. N : n = 0 \/ list[n] = f[n]}
    <3> HIDE DEF list, g
    <3>5. 0 \in T
      BY <1>0
    <3>6. ASSUME NEW n \in 0 .. N - 1, n \in T PROVE n + 1 \in T
      <4>1. n + 1 \in 1 .. N /\ (n + 1) - 1 = n
        BY <1>0
      <4>2. f[n + 1] = f[n] \o s[n + 1]
        BY <4>1, <1>4
      <4>3. list[n + 1] = IF n + 1 = 1 THEN s[n + 1] ELSE list[n] \o s[n + 1]
        BY <3>3, <4>1
      <4>4. CASE n = 0
        <5>1. s[n + 1] \in Seq(A)
          BY <4>1
        <5> QED
          BY <5>1, <4>4, <4>1, <4>2, <4>3, <1>3
      <4>5. CASE n # 0
        <5>1. list[n] = f[n] /\ n + 1 # 1
          BY <4>5, <3>6
        <5>2. list[n + 1] = f[n + 1]
          BY <5>1, <4>2, <4>3
        <5> QED
          BY <5>2, <4>1
      <4> QED
        BY <4>4, <4>5
    <3>7. N \in T
      <4> HIDE DEF T, N
      <4>1. \A n \in 0 .. N - 1 : n \in T => n + 1 \in T
        BY <3>6
      <4>2. 0 .. N \subseteq T
        BY <1>0, <3>5, <4>1, NatUpTo
      <4> QED
        BY <4>2, <1>0
    <3> QED
      BY <3>7, <3>4, <2>2
  <2> QED
    BY <2>1, <2>2
<1> QED
  BY <1>3, <1>4, <1>5

(* Where each of the lists begins in what they are flattened to.           *)
Starts(start, s, flat) ==
  /\ start \in [0 .. Len(s) -> Nat] /\ start[0] = 0 /\ start[Len(s)] = Len(flat)
  /\ \A i \in 1 .. Len(s) :
        /\ start[i] = start[i - 1] + Len(s[i]) /\ start[i] <= Len(flat)
        /\ \A j \in 1 .. Len(s[i]) : flat[start[i - 1] + j] = s[i][j]
  /\ \A k \in 1 .. Len(flat) : \E i \in 1 .. Len(s) : \E j \in 1 .. Len(s[i]) : k = start[i - 1] + j

LEMMA FlattenProperties ==
  ASSUME NEW A, NEW s \in Seq(Seq(A))
  PROVE  FlattenSeq(s) \in Seq(A) /\ \E start : Starts(start, s, FlattenSeq(s))
<1> DEFINE N == Len(s)
<1>0. N \in Nat /\ \A n \in 1 .. N : s[n] \in Seq(A)
  OBVIOUS
<1>1. PICK f \in [0 .. N -> Seq(A)] :
            /\ f[0] = <<>> /\ \A n \in 1 .. N : f[n] = f[n - 1] \o s[n]
            /\ FlattenSeq(s) = f[N]
  BY FlattenPrefixes
<1> HIDE DEF N
<1> DEFINE start == [n \in 0 .. N |-> Len(f[n])]
           Good(m) == /\ \A i \in 1 .. m :
                           /\ start[i] <= Len(f[m])
                           /\ \A j \in 1 .. Len(s[i]) : f[m][start[i - 1] + j] = s[i][j]
                      /\ \A k \in 1 .. Len(f[m]) :
                           \E i \in 1 .. m : \E j \in 1 .. Len(s[i]) : k = start[i - 1] + j
           T == {m \in 0 .. N : Good(m)}
<1> HIDE DEF Good, T
<1>2. start \in [0 .. N -> Nat] /\ start[0] = 0
  BY <1>0, <1>1
<1>3. ASSUME NEW i \in 1 .. N
      PROVE  i - 1 \in 0 .. N /\ f[i] = f[i - 1] \o s[i] /\ start[i] = start[i - 1] + Len(s[i])
  <2>1. i - 1 \in 0 .. N /\ i \in 0 .. N
    BY <1>0
  <2>2. f[i] = f[i - 1] \o s[i] /\ f[i - 1] \in Seq(A) /\ s[i] \in Seq(A)
    BY <1>0, <1>1, <2>1
  <2>3. Len(f[i]) = Len(f[i - 1]) + Len(s[i])
    BY <2>2, ConcatProperties
  <2> QED
    BY <2>1, <2>2, <2>3
<1>4. 0 \in T
  <2>1. 1 .. Len(f[0]) = {} /\ 1 .. 0 = {}
    BY <1>1
  <2>2. Good(0)
    BY <2>1 DEF Good
  <2> QED
    BY <2>2, <1>0 DEF T
<1>5. ASSUME NEW m \in 0 .. N - 1, m \in T PROVE m + 1 \in T
  <2>0. m + 1 \in 1 .. N /\ (m + 1) - 1 = m /\ m \in 0 .. N /\ m + 1 \in 0 .. N
    BY <1>0
  <2>1. /\ f[m + 1] = f[m] \o s[m + 1] /\ f[m] \in Seq(A) /\ s[m + 1] \in Seq(A)
        /\ start[m + 1] = start[m] + Len(s[m + 1]) /\ start[m] = Len(f[m]) /\ start[m + 1] = Len(f[m + 1])
    BY <2>0, <1>3, <1>0
  <2>2. /\ Len(f[m + 1]) = Len(f[m]) + Len(s[m + 1])
        /\ \A k \in 1 .. Len(f[m]) : f[m + 1][k] = f[m][k]
        /\ \A j \in 1 .. Len(s[m + 1]) : f[m + 1][Len(f[m]) + j] = s[m + 1][j]
        /\ Len(f[m]) \in Nat /\ Len(s[m + 1]) \in Nat
    <3> DEFINE x == f[m]
               y == s[m + 1]
    <3>1. x \in Seq(A) /\ y \in Seq(A) /\ f[m + 1] = x \o y
      BY <2>1
    <3> HIDE DEF x, y
    <3>2. /\ Len(x) \in Nat /\ Len(y) \in Nat
          /\ Len(x \o y) = Len(x) + Len(y)
          /\ \A k \in 1 .. Len(x) : (x \o y)[k] = x[k]
          /\ \A j \in 1 .. Len(y) : (x \o y)[Len(x) + j] = y[j]
      BY <3>1, ConcatPlaces
    <3> QED
      BY <3>1, <3>2 DEF x, y
  <2>3. Good(m)
    BY <1>5 DEF T
  <2> HIDE DEF start
  <2>4. ASSUME NEW i \in 1 .. m + 1
        PROVE  /\ start[i] <= Len(f[m + 1])
               /\ \A j \in 1 .. Len(s[i]) : f[m + 1][start[i - 1] + j] = s[i][j]
    <3>1. CASE i = m + 1
      <4>1. i - 1 = m
        BY <3>1, <2>0
      <4>2. start[m + 1] <= Len(f[m + 1])
        BY <2>1, <2>2
      <4>3. \A j \in 1 .. Len(s[m + 1]) : f[m + 1][start[m] + j] = s[m + 1][j]
        BY <2>1, <2>2
      <4> QED
        BY <3>1, <4>1, <4>2, <4>3
    <3>2. CASE i # m + 1
      <4>1. i \in 1 .. m /\ i \in 1 .. N /\ i \in 0 .. N
        BY <3>2, <2>0, <1>0
      <4>2. /\ start[i] \in Nat /\ start[i - 1] \in Nat /\ start[i] = start[i - 1] + Len(s[i])
            /\ Len(s[i]) \in Nat
        <5>1. i - 1 \in 0 .. N /\ start[i] = start[i - 1] + Len(s[i])
          BY <4>1, <1>3
        <5>2. start[i] \in Nat /\ start[i - 1] \in Nat
          BY <4>1, <5>1, <1>2
        <5> QED
          BY <5>1, <5>2, <4>1, <1>0, LenProperties
      <4>3. start[i] <= Len(f[m]) /\ \A j \in 1 .. Len(s[i]) : f[m][start[i - 1] + j] = s[i][j]
        BY <4>1, <2>3 DEF Good
      <4>4. ASSUME NEW j \in 1 .. Len(s[i]) PROVE f[m + 1][start[i - 1] + j] = s[i][j]
        <5> DEFINE k == start[i - 1] + j
        <5>1. k \in 1 .. Len(f[m])
          <6>1. start[i - 1] + Len(s[i]) <= Len(f[m]) /\ Len(f[m]) \in Nat
            BY <4>2, <4>3, <2>2
          <6> QED
            BY <6>1, <4>2
        <5>2. f[m][k] = s[i][j]
          BY <4>3
        <5> HIDE DEF k
        <5>3. f[m + 1][k] = s[i][j]
          BY <5>1, <5>2, <2>2
        <5> QED
          BY <5>3 DEF k
      <4>5. start[i] <= Len(f[m + 1])
        <5> DEFINE x == Len(f[m])
                   y == Len(s[m + 1])
                   z == Len(f[m + 1])
        <5>1. x \in Nat /\ y \in Nat /\ z = x + y /\ start[i] <= x /\ start[i] \in Nat
          BY <2>2, <4>2, <4>3
        <5> HIDE DEF x, y, z
        <5>2. start[i] <= z
          BY <5>1
        <5> QED
          BY <5>2 DEF z
      <4> QED
        BY <4>4, <4>5
    <3> QED
      BY <3>1, <3>2
  <2>5. ASSUME NEW k \in 1 .. Len(f[m + 1])
        PROVE  \E i \in 1 .. m + 1 : \E j \in 1 .. Len(s[i]) : k = start[i - 1] + j
    <3>1. CASE k <= Len(f[m])
      <4>1. k \in 1 .. Len(f[m])
        BY <3>1, <2>1
      <4>2. PICK i \in 1 .. m : \E j \in 1 .. Len(s[i]) : k = start[i - 1] + j
        BY <4>1, <2>3 DEF Good
      <4>3. i \in 1 .. m + 1
        BY <2>0
      <4> QED
        BY <4>2, <4>3
    <3>2. CASE ~(k <= Len(f[m]))
      <4> DEFINE j == k - Len(f[m])
      <4>0. /\ Len(f[m]) \in Nat /\ Len(s[m + 1]) \in Nat /\ start[m] = Len(f[m])
            /\ k \in 1 .. Len(f[m]) + Len(s[m + 1])
        BY <2>1, <2>2
      <4>1. j \in 1 .. Len(s[m + 1]) /\ k = start[m] + j
        <5> DEFINE x == Len(f[m])
                   y == Len(s[m + 1])
        <5>1. x \in Nat /\ y \in Nat /\ k \in 1 .. x + y /\ ~(k <= x) /\ start[m] = x
          BY <3>2, <4>0
        <5> HIDE DEF x, y
        <5>2. k - x \in 1 .. y /\ k = start[m] + (k - x)
          BY <5>1
        <5> QED
          BY <5>2 DEF x, y
      <4>2. m + 1 \in 1 .. m + 1
        BY <2>0
      <4> QED
        BY <4>1, <4>2, <2>0
    <3> QED
      BY <3>1, <3>2
  <2>6. Good(m + 1)
    BY <2>4, <2>5 DEF Good
  <2> QED
    BY <2>0, <2>6 DEF T
<1>6. Good(N)
  <2>1. \A m \in 0 .. N - 1 : m \in T => m + 1 \in T
    BY <1>5
  <2>2. 0 .. N \subseteq T
    BY <1>0, <1>4, <2>1, NatUpTo
  <2>3. N \in T
    BY <2>2, <1>0
  <2> QED
    BY <2>3 DEF T
<1>7. start[N] = Len(FlattenSeq(s)) /\ FlattenSeq(s) = f[N] /\ f[N] \in Seq(A)
  BY <1>0, <1>1
<1> HIDE DEF start
<1>8. Starts(start, s, FlattenSeq(s))
  BY <1>2, <1>3, <1>6, <1>7 DEF Starts, N, Good
<1> QED
  BY <1>7, <1>8

-----------------------------------------------------------------------------
(* The recursions of the models, one step after the other.                 *)

LEMMA SumSteps ==
  ASSUME NEW s \in Seq(Nat)
  PROVE  \E f \in [0 .. Len(s) -> Nat] :
            /\ f[0] = 0 /\ \A n \in 1 .. Len(s) : f[n] = f[n - 1] + s[n]
            /\ Sum(s) = f[Len(s)]
<1> DEFINE N == Len(s)
           by == [n \in 1 .. N |-> [x \in Nat |-> x + s[n]]]
           sum == CHOOSE g : g = [n \in 0 .. Len(s) |-> IF n = 0 THEN 0 ELSE g[n - 1] + s[n]]
<1>0. N \in Nat /\ \A n \in 1 .. N : s[n] \in Nat
  OBVIOUS
<1>1. by \in Steps(N, Nat)
  BY <1>0 DEF Steps
<1>2. PICK f : Solves(f, N, Nat, 0, by)
  <2> HIDE DEF by, N
  <2> QED
    BY <1>0, <1>1, RecursionExists
<1>3. f \in [0 .. N -> Nat] /\ f[0] = 0
  BY <1>2 DEF Solves
<1>4. ASSUME NEW n \in 1 .. N PROVE f[n] = f[n - 1] + s[n]
  <2>1. f[n] = by[n][f[n - 1]]
    <3> HIDE DEF by
    <3> QED
      BY <1>2 DEF Solves
  <2>2. n - 1 \in 0 .. N
    BY <1>0
  <2>3. f[n - 1] \in Nat
    BY <2>2, <1>3
  <2> QED
    BY <2>1, <2>3
<1> HIDE DEF by
<1>5. f = [n \in 0 .. Len(s) |-> IF n = 0 THEN 0 ELSE f[n - 1] + s[n]]
  <2>1. ASSUME NEW n \in 0 .. N PROVE f[n] = IF n = 0 THEN 0 ELSE f[n - 1] + s[n]
    <3>1. n = 0 \/ n \in 1 .. N
      BY <1>0
    <3> QED
      BY <3>1, <1>3, <1>4
  <2>2. f = [n \in 0 .. N |-> f[n]]
    BY <1>3
  <2> QED
    BY <2>1, <2>2
<1>6. sum = [n \in 0 .. Len(s) |-> IF n = 0 THEN 0 ELSE sum[n - 1] + s[n]]
  BY <1>5
<1>7. Sum(s) = sum[N]
  BY DEF Sum
<1> HIDE DEF sum
<1>8. sum[0] = 0
  <2>1. 0 \in 0 .. N
    BY <1>0
  <2> QED
    BY <2>1, <1>6
<1>9. ASSUME NEW n \in 1 .. N, sum[n - 1] \in Nat PROVE sum[n] = by[n][sum[n - 1]]
  <2>1. n \in 0 .. N /\ n # 0
    BY <1>0
  <2>2. sum[n] = sum[n - 1] + s[n]
    BY <2>1, <1>6
  <2>3. by[n] = [x \in Nat |-> x + s[n]]
    BY DEF by
  <2> QED
    BY <2>2, <2>3, <1>9
<1>10. sum[N] = f[N]
  <2>1. Follows(sum, N, Nat, 0, by) /\ N \in Nat
    BY <1>0, <1>8, <1>9 DEF Follows
  <2> HIDE DEF N
  <2> QED
    BY <1>2, <2>1, SolutionsAgree
<1> QED
  BY <1>3, <1>4, <1>7, <1>10

LEMMA SumType == ASSUME NEW s \in Seq(Nat) PROVE Sum(s) \in Nat
<1>1. PICK f \in [0 .. Len(s) -> Nat] : Sum(s) = f[Len(s)]
  BY SumSteps
<1>2. Len(s) \in 0 .. Len(s)
  OBVIOUS
<1> QED
  BY <1>1, <1>2

LEMMA SumOfZeros == ASSUME NEW s \in Seq(Nat), \A n \in 1 .. Len(s) : s[n] = 0 PROVE Sum(s) = 0
<1> DEFINE N == Len(s)
<1>0. N \in Nat
  OBVIOUS
<1>1. PICK f \in [0 .. N -> Nat] : f[0] = 0 /\ (\A n \in 1 .. N : f[n] = f[n - 1] + s[n]) /\ Sum(s) = f[N]
  BY SumSteps
<1> DEFINE T == {n \in 0 .. N : f[n] = 0}
<1>2. 0 \in T
  BY <1>0, <1>1
<1>3. ASSUME NEW n \in 0 .. N - 1, n \in T PROVE n + 1 \in T
  <2>1. n + 1 \in 1 .. N /\ n + 1 \in 0 .. N /\ (n + 1) - 1 = n
    BY <1>0
  <2>2. f[n + 1] = f[n] + s[n + 1] /\ s[n + 1] = 0
    BY <2>1, <1>1
  <2> QED
    BY <2>1, <2>2, <1>3
<1>4. N \in T
  <2> HIDE DEF T, N
  <2>1. \A n \in 0 .. N - 1 : n \in T => n + 1 \in T
    BY <1>3
  <2>2. 0 .. N \subseteq T
    BY <1>0, <1>2, <2>1, NatUpTo
  <2> QED
    BY <2>2, <1>0
<1> QED
  BY <1>1, <1>4

(* Lists of the same lengths begin at the same places.                     *)
LEMMA StartsAgree ==
  ASSUME NEW A, NEW s \in Seq(Seq(A)), NEW t \in Seq(Seq(A)), NEW u, NEW v, NEW p, NEW q,
         NEW m \in Nat, m <= Len(s), m <= Len(t),
         Starts(p, s, u), Starts(q, t, v), \A i \in 1 .. m : Len(s[i]) = Len(t[i])
  PROVE  \A i \in 0 .. m : p[i] = q[i]
<1> DEFINE T == {i \in 0 .. m : p[i] = q[i]}
<1>0. Len(s) \in Nat /\ Len(t) \in Nat
  OBVIOUS
<1>1. /\ p[0] = 0 /\ \A i \in 1 .. Len(s) : p[i] = p[i - 1] + Len(s[i])
      /\ q[0] = 0 /\ \A i \in 1 .. Len(t) : q[i] = q[i - 1] + Len(t[i])
  BY DEF Starts
<1>2. 0 \in T
  BY <1>1
<1>3. ASSUME NEW n \in 0 .. m - 1, n \in T PROVE n + 1 \in T
  <2>1. /\ n + 1 \in 1 .. m /\ n + 1 \in 0 .. m /\ (n + 1) - 1 = n
        /\ n + 1 \in 1 .. Len(s) /\ n + 1 \in 1 .. Len(t)
    BY <1>0
  <2>2. p[n + 1] = p[n] + Len(s[n + 1]) /\ q[n + 1] = q[n] + Len(t[n + 1])
    BY <1>1, <2>1
  <2> QED
    BY <2>1, <2>2, <1>3
<1>4. 0 .. m \subseteq T
  <2> HIDE DEF T
  <2>1. \A n \in 0 .. m - 1 : n \in T => n + 1 \in T
    BY <1>3
  <2> QED
    BY <1>2, <2>1, NatUpTo
<1> QED
  BY <1>4

(* The places of the lists determine what they are flattened to.           *)
LEMMA FlattenUnique ==
  ASSUME NEW A, NEW s \in Seq(Seq(A)), NEW flat \in Seq(A), NEW start, Starts(start, s, flat)
  PROVE  FlattenSeq(s) = flat
<1> DEFINE all == FlattenSeq(s)
<1>1. all \in Seq(A) /\ \E p : Starts(p, s, all)
  BY FlattenProperties
<1> HIDE DEF all
<1>2. PICK p : Starts(p, s, all)
  BY <1>1
<1>3. Len(s) \in Nat /\ Len(s) <= Len(s) /\ \A i \in 1 .. Len(s) : Len(s[i]) = Len(s[i])
  OBVIOUS
<1>4. \A i \in 0 .. Len(s) : p[i] = start[i]
  BY <1>2, <1>3, StartsAgree
<1>5. Len(all) = Len(flat) /\ Len(all) \in Nat
  <2>1. Len(s) \in 0 .. Len(s)
    BY <1>3
  <2>2. p[Len(s)] = Len(all) /\ start[Len(s)] = Len(flat)
    BY <1>2 DEF Starts
  <2> QED
    BY <2>1, <2>2, <1>4, <1>1
<1>6. ASSUME NEW k \in 1 .. Len(all) PROVE all[k] = flat[k]
  <2>1. PICK i \in 1 .. Len(s) : \E j \in 1 .. Len(s[i]) : k = p[i - 1] + j
    BY <1>2 DEF Starts
  <2>2. PICK j \in 1 .. Len(s[i]) : k = p[i - 1] + j
    BY <2>1
  <2>3. all[p[i - 1] + j] = s[i][j]
    BY <1>2 DEF Starts
  <2>4. flat[start[i - 1] + j] = s[i][j]
    BY DEF Starts
  <2>5. i - 1 \in 0 .. Len(s)
    BY <1>3
  <2>6. p[i - 1] = start[i - 1]
    BY <2>5, <1>4
  <2> QED
    BY <2>2, <2>3, <2>4, <2>6
<1>7. all = flat
  BY <1>1, <1>5, <1>6, SeqEqual
<1> QED
  BY <1>7 DEF all

(* What the first lists are flattened to.                                  *)
LEMMA FlattenOfPrefix ==
  ASSUME NEW A, NEW s \in Seq(Seq(A)), NEW start, Starts(start, s, FlattenSeq(s)), NEW m \in 0 .. Len(s)
  PROVE  Len(FlattenSeq(SubSeq(s, 1, m))) = start[m]
<1> DEFINE t == SubSeq(s, 1, m)
<1>0. Len(s) \in Nat /\ m \in Nat /\ m <= Len(s)
  OBVIOUS
<1>1. t \in Seq(Seq(A)) /\ Len(t) = m /\ \A i \in 1 .. m : t[i] = s[i]
  BY <1>0
<1> HIDE DEF t
<1>2. PICK q : Starts(q, t, FlattenSeq(t))
  BY <1>1, FlattenProperties
<1>3. \A i \in 1 .. m : Len(t[i]) = Len(s[i])
  BY <1>1
<1>4. m <= Len(t)
  BY <1>0, <1>1
<1>5. \A i \in 0 .. m : q[i] = start[i]
  BY <1>0, <1>1, <1>2, <1>3, <1>4, StartsAgree
<1>6. q[m] = Len(FlattenSeq(t))
  BY <1>1, <1>2 DEF Starts
<1>7. Len(FlattenSeq(t)) = start[m]
  BY <1>5, <1>6
<1> QED
  BY <1>7 DEF t

-----------------------------------------------------------------------------
(* The types of a plan.                                                    *)

LEMMA ReplacementProperties ==
  ASSUME NEW last
  PROVE  /\ SlideType[Replacement(last)] \in SlideTypes
         /\ SlideType[Replacement(last)] # last
<1> DEFINE I == {i \in 1 .. Len(SlideType) : SlideType[i] # last /\ SlideType[i] # "title"}
<1>1. /\ Len(SlideType) = 6 /\ SlideType[2] = "content" /\ SlideType[3] = "chart"
      /\ \A i \in 1 .. 6 : SlideType[i] \in SlideTypes
  BY DEF SlideType, SlideTypes
<1>2. I # {} /\ I \subseteq Nat
  <2>1. CASE last # "content"
    BY <1>1, <2>1
  <2>2. CASE last = "content"
    BY <1>1, <2>2
  <2> QED
    BY <2>1, <2>2
<1>3. Replacement(last) = Min(I)
  BY <1>2 DEF Replacement, SelectInSeq
<1>4. Min(I) \in I
  <2> HIDE DEF I
  <2>1. \E n \in I : \A m \in I : n <= m
    BY <1>2, LeastNat
  <2> QED
    BY <2>1 DEF Min
<1> QED
  BY <1>1, <1>3, <1>4

PassedTypes(T) == [out : Seq(T), run : 0 .. 2, last : T]

LEMMA DiversifyStepType ==
  ASSUME NEW T, SlideTypes \subseteq T, NEW acc \in PassedTypes(T), NEW type \in T
  PROVE  DiversifyStep(acc, type) \in PassedTypes(T)
<1> DEFINE other == SlideType[Replacement(acc.last)]
<1>1. other \in T
  BY ReplacementProperties
<1> HIDE DEF other
<1>2. acc.out \in Seq(T) /\ acc.run \in 0 .. 2 /\ acc.last \in T
  BY DEF PassedTypes
<1>3. Append(acc.out, other) \in Seq(T) /\ Append(acc.out, type) \in Seq(T)
  BY <1>1, <1>2
<1>4. /\ [out |-> Append(acc.out, other), run |-> 1, last |-> other] \in PassedTypes(T)
      /\ [out |-> Append(acc.out, type), run |-> 1, last |-> type] \in PassedTypes(T)
      /\ ~(acc.run + 1 > 2) => [out |-> Append(acc.out, type), run |-> acc.run + 1, last |-> type] \in PassedTypes(T)
  BY <1>1, <1>2, <1>3 DEF PassedTypes
<1> QED
  BY <1>4 DEF DiversifyStep, other

LEMMA DiversifySteps ==
  ASSUME NEW T, SlideTypes \subseteq T, NEW types \in Seq(T)
  PROVE  \E f \in [0 .. Len(types) -> PassedTypes(T)] :
            /\ f[0] = NothingPassed
            /\ \A n \in 1 .. Len(types) : f[n] = DiversifyStep(f[n - 1], types[n])
            /\ Diversify(types) = f[Len(types)].out
<1> DEFINE N == Len(types)
           S == PassedTypes(T)
           by == [n \in 1 .. N |-> [acc \in S |-> DiversifyStep(acc, types[n])]]
           passed == CHOOSE g : g = [n \in 0 .. Len(types) |-> IF n = 0 THEN NothingPassed
                                                    ELSE DiversifyStep(g[n - 1], types[n])]
<1>0. N \in Nat /\ \A n \in 1 .. N : types[n] \in T
  OBVIOUS
<1>1. NothingPassed \in S
  BY DEF NothingPassed, PassedTypes, SlideTypes
<1>2. by \in Steps(N, S)
  <2> HIDE DEF S
  <2>1. \A n \in 1 .. N : \A acc \in S : DiversifyStep(acc, types[n]) \in S
    BY <1>0, DiversifyStepType DEF S
  <2> QED
    BY <2>1 DEF Steps
<1>3. PICK f : Solves(f, N, S, NothingPassed, by)
  <2> HIDE DEF by, N, S
  <2> QED
    BY <1>0, <1>1, <1>2, RecursionExists
<1> HIDE DEF S
<1>4. f \in [0 .. N -> S] /\ f[0] = NothingPassed
  BY <1>3 DEF Solves
<1>5. ASSUME NEW n \in 1 .. N PROVE f[n] = DiversifyStep(f[n - 1], types[n])
  <2>1. f[n] = by[n][f[n - 1]]
    <3> HIDE DEF by
    <3> QED
      BY <1>3 DEF Solves
  <2>2. n - 1 \in 0 .. N
    BY <1>0
  <2>3. f[n - 1] \in S
    BY <2>2, <1>4
  <2> QED
    BY <2>1, <2>3
<1> HIDE DEF by
<1>6. f = [n \in 0 .. Len(types) |-> IF n = 0 THEN NothingPassed ELSE DiversifyStep(f[n - 1], types[n])]
  <2>1. ASSUME NEW n \in 0 .. N
        PROVE  f[n] = IF n = 0 THEN NothingPassed ELSE DiversifyStep(f[n - 1], types[n])
    <3>1. n = 0 \/ n \in 1 .. N
      BY <1>0
    <3> QED
      BY <3>1, <1>4, <1>5
  <2>2. f = [n \in 0 .. N |-> f[n]]
    BY <1>4
  <2> QED
    BY <2>1, <2>2
<1>7. passed = [n \in 0 .. Len(types) |-> IF n = 0 THEN NothingPassed
                                    ELSE DiversifyStep(passed[n - 1], types[n])]
  BY <1>6
<1>8. Diversify(types) = passed[N].out
  BY DEF Diversify
<1> HIDE DEF passed
<1>9. passed[0] = NothingPassed
  <2>1. 0 \in 0 .. N
    BY <1>0
  <2> QED
    BY <2>1, <1>7
<1>10. ASSUME NEW n \in 1 .. N, passed[n - 1] \in S PROVE passed[n] = by[n][passed[n - 1]]
  <2>1. n \in 0 .. N /\ n # 0
    BY <1>0
  <2>2. passed[n] = DiversifyStep(passed[n - 1], types[n])
    BY <2>1, <1>7
  <2>3. by[n] = [acc \in S |-> DiversifyStep(acc, types[n])]
    BY DEF by
  <2> QED
    BY <2>2, <2>3, <1>10
<1>11. passed[N] = f[N]
  <2>1. Follows(passed, N, S, NothingPassed, by) /\ N \in Nat
    BY <1>0, <1>9, <1>10 DEF Follows
  <2> HIDE DEF N
  <2> QED
    BY <1>3, <2>1, SolutionsAgree
<1> QED
  BY <1>4, <1>5, <1>8, <1>11 DEF S

(* What the loop over the types has seen to after n of them.               *)
Varied(out) == \A i \in 3 .. Len(out) : ~(out[i] = out[i - 1] /\ out[i] = out[i - 2])
OnlyThirds(types, out) ==
  \A i \in 1 .. Len(out) : out[i] # types[i] => i > 2 /\ types[i] = out[i - 1] /\ types[i] = out[i - 2]
Counted(acc) ==
  Len(acc.out) > 0 =>
     /\ acc.out[Len(acc.out)] = acc.last /\ acc.run \in 1 .. 2
     /\ acc.run = 1 /\ Len(acc.out) > 1 => acc.out[Len(acc.out) - 1] # acc.last
     /\ acc.run = 2 => Len(acc.out) > 1 /\ acc.out[Len(acc.out) - 1] = acc.last
Diverse(T, types, n, acc) ==
  /\ acc \in PassedTypes(T) /\ Len(acc.out) = n
  /\ Counted(acc) /\ Varied(acc.out) /\ OnlyThirds(types, acc.out)

LEMMA DiverseStep ==
  ASSUME NEW T, SlideTypes \subseteq T, NEW types \in Seq(T), NEW n \in 0 .. Len(types) - 1,
         NEW acc, Diverse(T, types, n, acc)
  PROVE  Diverse(T, types, n + 1, DiversifyStep(acc, types[n + 1]))
<1> DEFINE type == types[n + 1]
           out == acc.out
           other == SlideType[Replacement(acc.last)]
           next == DiversifyStep(acc, type)
<1> SUFFICES Diverse(T, types, n + 1, next)
  OBVIOUS
<1>0. Len(types) \in Nat /\ n \in Nat /\ n + 1 \in 1 .. Len(types)
  OBVIOUS
<1>1. /\ acc \in PassedTypes(T) /\ out \in Seq(T) /\ acc.run \in 0 .. 2 /\ acc.last \in T /\ Len(out) = n
      /\ Varied(out) /\ OnlyThirds(types, out)
      /\ n > 0 => /\ out[n] = acc.last /\ acc.run \in 1 .. 2
                  /\ acc.run = 1 /\ n > 1 => out[n - 1] # acc.last
                  /\ acc.run = 2 => n > 1 /\ out[n - 1] = acc.last
      /\ (out = <<>>) = (n = 0)
  <2>1. /\ acc \in PassedTypes(T) /\ Len(out) = n /\ Counted(acc) /\ Varied(out) /\ OnlyThirds(types, out)
    BY DEF Diverse
  <2>2. out \in Seq(T) /\ acc.run \in 0 .. 2 /\ acc.last \in T
    BY <2>1 DEF PassedTypes
  <2>3. (out = <<>>) = (n = 0)
    BY <2>1, <2>2
  <2> QED
    BY <2>1, <2>2, <2>3 DEF Counted
<1>2. type \in T /\ other \in T /\ other # acc.last
  BY <1>0, ReplacementProperties
<1>3. next \in PassedTypes(T)
  BY <1>1, <1>2, DiversifyStepType
<1> HIDE DEF type, other
<1> DEFINE Fits(x, r) ==
             /\ next = [out |-> Append(out, x), run |-> r, last |-> x]
             /\ r = 1 /\ n > 0 => out[n] # x
             /\ r = 2 => n > 0 /\ out[n] = x /\ (n > 1 => out[n - 1] # x)
             /\ x # type => n > 1 /\ type = out[n] /\ type = out[n - 1]
<1>4. ASSUME NEW x \in T, NEW r \in 1 .. 2, Fits(x, r)
      PROVE  Diverse(T, types, n + 1, next)
  <2> DEFINE o == Append(out, x)
  <2>1. o \in Seq(T) /\ Len(o) = n + 1 /\ o[n + 1] = x /\ \A i \in 1 .. n : o[i] = out[i]
    BY <1>1, <1>0
  <2>2. next.out = o /\ next.run = r /\ next.last = x
    BY <1>4
  <2> HIDE DEF o, next
  <2>3. Counted(next)
    <3>1. (n + 1) - 1 = n
      BY <1>0
    <3>2. n > 0 => o[n] = out[n]
      BY <2>1, <1>0
    <3>3. r = 1 /\ n + 1 > 1 => o[n] # x
      BY <3>2, <1>4, <1>0
    <3>4. r = 2 => n + 1 > 1 /\ o[n] = x
      BY <3>2, <1>4, <1>0
    <3> QED
      BY <2>1, <2>2, <3>1, <3>3, <3>4 DEF Counted
  <2>4. Varied(o)
    <3>1. ASSUME NEW i \in 3 .. n + 1 PROVE ~(o[i] = o[i - 1] /\ o[i] = o[i - 2])
      <4>1. CASE i = n + 1
        <5>1. n \in 1 .. n /\ n - 1 \in 1 .. n /\ n > 1 /\ i - 1 = n /\ i - 2 = n - 1
          BY <4>1, <1>0
        <5>2. o[n] = out[n] /\ o[n - 1] = out[n - 1]
          BY <5>1, <2>1
        <5>3. ~(x = out[n] /\ x = out[n - 1])
          BY <5>1, <1>4
        <5> QED
          BY <4>1, <5>1, <5>2, <5>3, <2>1
      <4>2. CASE i # n + 1
        <5>1. i \in 3 .. n /\ i \in 1 .. n /\ i - 1 \in 1 .. n /\ i - 2 \in 1 .. n
          BY <4>2, <1>0
        <5>2. ~(out[i] = out[i - 1] /\ out[i] = out[i - 2])
          BY <5>1, <1>1 DEF Varied
        <5> QED
          BY <5>1, <5>2, <2>1
      <4> QED
        BY <4>1, <4>2
    <3> QED
      BY <3>1, <2>1 DEF Varied
  <2>5. OnlyThirds(types, o)
    <3>1. ASSUME NEW i \in 1 .. n + 1, o[i] # types[i]
          PROVE  i > 2 /\ types[i] = o[i - 1] /\ types[i] = o[i - 2]
      <4>1. CASE i = n + 1
        <5>1. x # type
          BY <4>1, <3>1, <2>1 DEF type
        <5>2. n > 1 /\ type = out[n] /\ type = out[n - 1]
          BY <5>1, <1>4
        <5>3. n \in 1 .. n /\ n - 1 \in 1 .. n /\ i - 1 = n /\ i - 2 = n - 1 /\ i > 2
          BY <4>1, <1>0, <5>2
        <5>4. types[i] = type /\ o[n] = out[n] /\ o[n - 1] = out[n - 1]
          BY <4>1, <5>3, <2>1 DEF type
        <5> QED
          BY <5>2, <5>3, <5>4
      <4>2. CASE i # n + 1
        <5>1. i \in 1 .. n
          BY <4>2, <1>0
        <5>2. out[i] # types[i]
          BY <5>1, <3>1, <2>1
        <5>3. i > 2 /\ types[i] = out[i - 1] /\ types[i] = out[i - 2]
          BY <5>1, <5>2, <1>1 DEF OnlyThirds
        <5>4. i - 1 \in 1 .. n /\ i - 2 \in 1 .. n
          BY <5>1, <5>3, <1>0
        <5> QED
          BY <5>3, <5>4, <2>1
      <4> QED
        BY <4>1, <4>2
    <3> QED
      BY <3>1, <2>1 DEF OnlyThirds
  <2> QED
    BY <1>3, <2>1, <2>2, <2>3, <2>4, <2>5 DEF Diverse
<1> HIDE DEF out
<1>5. CASE n > 0 /\ type = acc.last /\ acc.run + 1 > 2
  <2>1. out # <<>> /\ acc.run = 2
    BY <1>5, <1>1
  <2>2. next = [out |-> Append(out, other), run |-> 1, last |-> other]
    BY <1>5, <2>1 DEF DiversifyStep, other, out
  <2>3. /\ n > 1 /\ out[n] = acc.last /\ out[n - 1] = acc.last
    BY <1>5, <2>1, <1>1
  <2> HIDE DEF next
  <2>4. Fits(other, 1)
    BY <1>2, <1>5, <2>2, <2>3
  <2> HIDE DEF Fits
  <2> QED
    BY <1>2, <1>4, <2>4
<1>6. CASE n > 0 /\ type = acc.last /\ ~(acc.run + 1 > 2)
  <2>1. out # <<>> /\ acc.run = 1
    BY <1>6, <1>1
  <2>2. next = [out |-> Append(out, type), run |-> 2, last |-> type]
    BY <1>6, <2>1 DEF DiversifyStep, out
  <2>3. /\ out[n] = acc.last /\ (n > 1 => out[n - 1] # acc.last)
    BY <1>6, <2>1, <1>1
  <2> HIDE DEF next
  <2>4. Fits(type, 2)
    BY <1>2, <1>6, <2>2, <2>3
  <2> HIDE DEF Fits
  <2> QED
    BY <1>2, <1>4, <2>4
<1>7. CASE ~(n > 0 /\ type = acc.last)
  <2>1. out = <<>> \/ type # acc.last
    BY <1>7, <1>1, <1>0
  <2>2. next = [out |-> Append(out, type), run |-> 1, last |-> type]
    BY <2>1 DEF DiversifyStep, out
  <2>3. n > 0 => out[n] # type
    BY <1>7, <1>1
  <2> HIDE DEF next
  <2>4. Fits(type, 1)
    BY <2>2, <2>3
  <2> HIDE DEF Fits
  <2> QED
    BY <1>2, <1>4, <2>4
<1> QED
  BY <1>5, <1>6, <1>7

LEMMA DiversifyProperties ==
  ASSUME NEW T, SlideTypes \subseteq T, NEW types \in Seq(T)
  PROVE  /\ Diversify(types) \in Seq(T) /\ Len(Diversify(types)) = Len(types)
         /\ Varied(Diversify(types)) /\ OnlyThirds(types, Diversify(types))
<1> DEFINE N == Len(types)
<1>0. N \in Nat
  OBVIOUS
<1>1. PICK f \in [0 .. N -> PassedTypes(T)] :
            /\ f[0] = NothingPassed
            /\ \A n \in 1 .. N : f[n] = DiversifyStep(f[n - 1], types[n])
            /\ Diversify(types) = f[N].out
  BY DiversifySteps
<1> DEFINE Good == {n \in 0 .. N : Diverse(T, types, n, f[n])}
<1>2. 0 \in Good
  <2>1. Diverse(T, types, 0, NothingPassed)
    BY DEF Diverse, NothingPassed, PassedTypes, SlideTypes, Counted, Varied, OnlyThirds
  <2> QED
    BY <2>1, <1>0, <1>1
<1>3. ASSUME NEW n \in 0 .. N - 1, n \in Good PROVE n + 1 \in Good
  <2>1. n + 1 \in 1 .. N /\ n + 1 \in 0 .. N /\ (n + 1) - 1 = n
    BY <1>0
  <2>2. f[n + 1] = DiversifyStep(f[n], types[n + 1])
    BY <1>1, <2>1
  <2>3. Diverse(T, types, n, f[n])
    BY <1>3
  <2>4. Diverse(T, types, n + 1, DiversifyStep(f[n], types[n + 1]))
    BY <2>3, DiverseStep
  <2> QED
    BY <2>1, <2>2, <2>4
<1>4. N \in Good
  <2> HIDE DEF Good, N
  <2>1. \A n \in 0 .. N - 1 : n \in Good => n + 1 \in Good
    BY <1>3
  <2>2. 0 .. N \subseteq Good
    BY <1>0, <1>2, <2>1, NatUpTo
  <2> QED
    BY <2>2, <1>0
<1>5. Diverse(T, types, N, f[N])
  BY <1>4
<1> HIDE DEF N
<1> QED
  BY <1>1, <1>5 DEF Diverse, PassedTypes, N

SectionsOf(M, T) == Seq([name : M, types : Seq(T)])
TypeLists(sections) == [k \in DOMAIN sections |-> sections[k].types]

LEMMA SectionsProperties ==
  ASSUME NEW M, NEW T, NEW sections \in SectionsOf(M, T)
  PROVE  /\ DOMAIN sections = 1 .. Len(sections) /\ Len(sections) \in Nat
         /\ \A k \in 1 .. Len(sections) : /\ sections[k] \in [name : M, types : Seq(T)]
                                          /\ sections[k].name \in M /\ sections[k].types \in Seq(T)
<1> DEFINE R == [name : M, types : Seq(T)]
<1>1. sections \in Seq(R)
  BY DEF SectionsOf
<1>2. \A r \in R : r.name \in M /\ r.types \in Seq(T)
  OBVIOUS
<1> HIDE DEF R
<1>3. /\ DOMAIN sections = 1 .. Len(sections) /\ Len(sections) \in Nat
      /\ \A k \in 1 .. Len(sections) : sections[k] \in R
  BY <1>1
<1> QED
  BY <1>2, <1>3 DEF R

LEMMA TypeListsType ==
  ASSUME NEW M, NEW T, NEW sections \in SectionsOf(M, T)
  PROVE  /\ TypeLists(sections) \in Seq(Seq(T)) /\ Len(TypeLists(sections)) = Len(sections)
         /\ \A k \in 1 .. Len(sections) : TypeLists(sections)[k] = sections[k].types
         /\ AllTypes(sections) = FlattenSeq(TypeLists(sections))
         /\ AllTypes(sections) \in Seq(T)
<1> DEFINE lists == TypeLists(sections)
<1>1. /\ DOMAIN sections = 1 .. Len(sections) /\ Len(sections) \in Nat
      /\ \A k \in 1 .. Len(sections) : sections[k].types \in Seq(T)
  BY SectionsProperties
<1>2. /\ lists \in Seq(Seq(T)) /\ Len(lists) = Len(sections)
      /\ \A k \in 1 .. Len(sections) : lists[k] = sections[k].types
  BY <1>1 DEF TypeLists
<1>3. AllTypes(sections) = FlattenSeq(lists)
  BY DEF AllTypes, TypeLists
<1> HIDE DEF lists
<1>4. FlattenSeq(lists) \in Seq(T)
  BY <1>2, FlattenProperties
<1> QED
  BY <1>2, <1>3, <1>4 DEF lists

(* The sections get their shares of the types back.                        *)
LEMMA EnforceProperties ==
  ASSUME NEW M, NEW T, SlideTypes \subseteq T, NEW sections \in SectionsOf(M, T)
  PROVE  /\ EnforceVisualDiversity(sections) \in SectionsOf(M, T)
         /\ Len(EnforceVisualDiversity(sections)) = Len(sections)
         /\ \A k \in 1 .. Len(sections) :
               /\ EnforceVisualDiversity(sections)[k].name = sections[k].name
               /\ Len(EnforceVisualDiversity(sections)[k].types) = Len(sections[k].types)
         /\ AllTypes(EnforceVisualDiversity(sections)) = Diversify(AllTypes(sections))
<1> DEFINE N == Len(sections)
           s == TypeLists(sections)
           all == Diversify(AllTypes(sections))
           before(k) == Len(AllTypes(SubSeq(sections, 1, k - 1)))
           share(k) == SubSeq(all, before(k) + 1, before(k) + Len(sections[k].types))
           e == EnforceVisualDiversity(sections)
<1>0. /\ N \in Nat /\ DOMAIN sections = 1 .. N
      /\ \A k \in 1 .. N : sections[k].name \in M /\ sections[k].types \in Seq(T)
  BY SectionsProperties
<1>1. /\ s \in Seq(Seq(T)) /\ Len(s) = N /\ AllTypes(sections) = FlattenSeq(s) /\ FlattenSeq(s) \in Seq(T)
      /\ \A k \in 1 .. N : s[k] = sections[k].types
  BY TypeListsType
<1> HIDE DEF s
<1>2. all \in Seq(T) /\ Len(all) = Len(FlattenSeq(s))
  BY <1>1, DiversifyProperties
<1> HIDE DEF all
<1>3. PICK start : Starts(start, s, FlattenSeq(s))
  BY <1>1, FlattenProperties
<1>4. ASSUME NEW k \in 1 .. N PROVE before(k) = start[k - 1]
  <2> DEFINE t == SubSeq(sections, 1, k - 1)
  <2>1. /\ k - 1 \in 0 .. N /\ k - 1 \in Nat
        /\ t \in SectionsOf(M, T) /\ Len(t) = k - 1 /\ \A i \in 1 .. k - 1 : t[i] = sections[i]
    <3> DEFINE R == [name : M, types : Seq(T)]
    <3>1. sections \in Seq(R)
      BY DEF SectionsOf
    <3> HIDE DEF R
    <3>2. t \in Seq(R) /\ Len(t) = k - 1 /\ \A i \in 1 .. k - 1 : t[i] = sections[i]
      BY <1>0, <3>1
    <3> QED
      BY <1>0, <3>2 DEF SectionsOf, R
  <2> HIDE DEF t
  <2>2. /\ TypeLists(t) \in Seq(Seq(T)) /\ Len(TypeLists(t)) = k - 1
        /\ \A i \in 1 .. k - 1 : TypeLists(t)[i] = t[i].types
        /\ AllTypes(t) = FlattenSeq(TypeLists(t))
    <3>1. /\ TypeLists(t) \in Seq(Seq(T)) /\ Len(TypeLists(t)) = Len(t)
          /\ \A i \in 1 .. Len(t) : TypeLists(t)[i] = t[i].types
          /\ AllTypes(t) = FlattenSeq(TypeLists(t))
      <4>1. t \in SectionsOf(M, T)
        BY <2>1
      <4> QED
        BY <4>1, TypeListsType
    <3> QED
      BY <2>1, <3>1
  <2>3. SubSeq(s, 1, k - 1) \in Seq(Seq(T)) /\ Len(SubSeq(s, 1, k - 1)) = k - 1
        /\ \A i \in 1 .. k - 1 : SubSeq(s, 1, k - 1)[i] = s[i]
    BY <1>1, <2>1
  <2>4. ASSUME NEW i \in 1 .. k - 1 PROVE TypeLists(t)[i] = SubSeq(s, 1, k - 1)[i]
    <3>1. i \in 1 .. N
      BY <1>0
    <3> QED
      BY <3>1, <2>1, <2>2, <2>3, <1>1
  <2>5. TypeLists(t) = SubSeq(s, 1, k - 1)
    BY <2>2, <2>3, <2>4, SeqEqual
  <2>6. Len(FlattenSeq(SubSeq(s, 1, k - 1))) = start[k - 1]
    BY <1>1, <1>3, <2>1, FlattenOfPrefix
  <2> QED
    BY <2>2, <2>5, <2>6 DEF t
<1>5. ASSUME NEW k \in 1 .. N
      PROVE  /\ start[k - 1] \in Nat /\ start[k] = start[k - 1] + Len(s[k]) /\ start[k] <= Len(all)
             /\ Len(s[k]) \in Nat /\ s[k] = sections[k].types
             /\ e[k] = Section(sections[k].name, share(k))
  <2>1. k - 1 \in 0 .. N /\ k \in 1 .. Len(s)
    BY <1>0, <1>1
  <2>2. start \in [0 .. N -> Nat] /\ start[k] = start[k - 1] + Len(s[k]) /\ start[k] <= Len(all)
    BY <2>1, <1>1, <1>2, <1>3 DEF Starts
  <2>3. Len(s[k]) \in Nat
    BY <1>1, LenProperties
  <2> QED
    BY <1>0, <1>1, <2>1, <2>2, <2>3 DEF EnforceVisualDiversity, all
<1> HIDE DEF before, share, e
<1>6. ASSUME NEW k \in 1 .. N
      PROVE  /\ share(k) \in Seq(T) /\ Len(share(k)) = Len(s[k])
             /\ \A j \in 1 .. Len(s[k]) : share(k)[j] = all[start[k - 1] + j]
  <2> DEFINE a == start[k - 1]
             b == Len(s[k])
  <2>1. a \in Nat /\ b \in Nat /\ a + b <= Len(all) /\ share(k) = SubSeq(all, a + 1, a + b)
    BY <1>4, <1>5 DEF share
  <2> HIDE DEF a, b
  <2>2. /\ SubSeq(all, a + 1, a + b) \in Seq(T) /\ Len(SubSeq(all, a + 1, a + b)) = b
        /\ \A j \in 1 .. b : SubSeq(all, a + 1, a + b)[j] = all[a + j]
    BY <1>2, <2>1
  <2> QED
    BY <2>1, <2>2 DEF a, b
<1>7. e = [k \in 1 .. N |-> e[k]]
  BY <1>0 DEF e, EnforceVisualDiversity
<1>8. /\ e \in SectionsOf(M, T) /\ Len(e) = N
      /\ \A k \in 1 .. N : e[k].name = sections[k].name /\ e[k].types = share(k)
  <2>1. \A k \in 1 .. N : e[k] = [name |-> sections[k].name, types |-> share(k)]
    BY <1>5 DEF Section
  <2> DEFINE R == [name : M, types : Seq(T)]
  <2>2. \A k \in 1 .. N : e[k] \in R
    <3>1. \A k \in 1 .. N : sections[k].name \in M /\ share(k) \in Seq(T)
      BY <1>0, <1>6
    <3>2. ASSUME NEW k \in 1 .. N PROVE e[k] \in R
      <4>1. sections[k].name \in M /\ share(k) \in Seq(T)
        BY <3>1
      <4>2. [name |-> sections[k].name, types |-> share(k)] \in R
        BY <4>1
      <4> QED
        BY <2>1, <4>2
    <3> QED
      BY <3>2
  <2>3. e \in SectionsOf(M, T) /\ Len(e) = N
    <3>1. e \in Seq(R) /\ Len(e) = N
      <4> HIDE DEF R
      <4> QED
        BY <1>0, <1>7, <2>2
    <3> QED
      BY <3>1 DEF SectionsOf
  <2>4. ASSUME NEW k \in 1 .. N PROVE e[k].name = sections[k].name /\ e[k].types = share(k)
    <3>1. e[k] = [name |-> sections[k].name, types |-> share(k)]
      BY <2>1
    <3> QED
      BY <3>1
  <2> QED
    BY <2>3, <2>4
<1> DEFINE r == TypeLists(e)
<1>9. /\ r \in Seq(Seq(T)) /\ Len(r) = N /\ AllTypes(e) = FlattenSeq(r)
      /\ \A k \in 1 .. N : r[k] = share(k)
  <2>1. /\ r \in Seq(Seq(T)) /\ Len(r) = Len(e) /\ AllTypes(e) = FlattenSeq(r)
        /\ \A k \in 1 .. Len(e) : r[k] = e[k].types
    BY <1>8, TypeListsType
  <2> HIDE DEF r
  <2> QED
    BY <2>1, <1>8
<1> HIDE DEF r
<1>10. Starts(start, r, all)
  <2>1. \A k \in 1 .. N : Len(r[k]) = Len(s[k])
    BY <1>6, <1>9
  <2>2. start \in [0 .. Len(r) -> Nat] /\ start[0] = 0 /\ start[Len(r)] = Len(all)
    BY <1>1, <1>2, <1>3, <1>9 DEF Starts
  <2>3. \A k \in 1 .. Len(r) : start[k] = start[k - 1] + Len(r[k]) /\ start[k] <= Len(all)
    BY <2>1, <1>5, <1>9
  <2>4. \A k \in 1 .. Len(r) : \A j \in 1 .. Len(r[k]) : all[start[k - 1] + j] = r[k][j]
    BY <2>1, <1>6, <1>9
  <2>5. \A i \in 1 .. Len(all) : \E k \in 1 .. Len(r) : \E j \in 1 .. Len(r[k]) : i = start[k - 1] + j
    <3>1. ASSUME NEW i \in 1 .. Len(all)
          PROVE  \E k \in 1 .. Len(r) : \E j \in 1 .. Len(r[k]) : i = start[k - 1] + j
      <4>1. PICK k \in 1 .. N : \E j \in 1 .. Len(s[k]) : i = start[k - 1] + j
        BY <1>1, <1>2, <1>3 DEF Starts
      <4> QED
        BY <4>1, <2>1, <1>9
    <3> QED
      BY <3>1
  <2> QED
    BY <2>2, <2>3, <2>4, <2>5 DEF Starts
<1>11. AllTypes(e) = all
  BY <1>2, <1>9, <1>10, FlattenUnique
<1>12. \A k \in 1 .. N : e[k].name = sections[k].name /\ Len(e[k].types) = Len(sections[k].types)
  BY <1>1, <1>6, <1>8
<1> QED
  BY <1>8, <1>11, <1>12 DEF e, all

(* One list more, and a list with one element more.                        *)
LEMMA FlattenAppended ==
  ASSUME NEW A, NEW s \in Seq(Seq(A)), NEW x \in Seq(A)
  PROVE  Len(FlattenSeq(Append(s, x))) = Len(FlattenSeq(s)) + Len(x)
<1> DEFINE t == Append(s, x)
<1>0. Len(s) \in Nat /\ Len(s) + 1 \in 1 .. Len(s) + 1 /\ (Len(s) + 1) - 1 = Len(s)
  OBVIOUS
<1>1. t \in Seq(Seq(A)) /\ Len(t) = Len(s) + 1 /\ t[Len(s) + 1] = x
  OBVIOUS
<1>2. SubSeq(t, 1, Len(s)) = s
  <2>1. SubSeq(t, 1, Len(s)) \in Seq(Seq(A)) /\ Len(SubSeq(t, 1, Len(s))) = Len(s)
    BY <1>0, <1>1
  <2>2. \A i \in 1 .. Len(s) : SubSeq(t, 1, Len(s))[i] = s[i]
    BY <1>0, <1>1
  <2> HIDE DEF t
  <2> QED
    BY <2>1, <2>2, SeqEqual
<1> HIDE DEF t
<1>3. PICK start : Starts(start, t, FlattenSeq(t))
  BY <1>1, FlattenProperties
<1>4. Len(s) \in 0 .. Len(t)
  BY <1>0, <1>1
<1>5. Len(FlattenSeq(SubSeq(t, 1, Len(s)))) = start[Len(s)]
  BY <1>1, <1>3, <1>4, FlattenOfPrefix
<1>6. start[Len(s) + 1] = start[Len(s)] + Len(x) /\ start[Len(s) + 1] = Len(FlattenSeq(t))
  BY <1>0, <1>1, <1>3 DEF Starts
<1>7. Len(FlattenSeq(t)) = Len(FlattenSeq(s)) + Len(x)
  BY <1>2, <1>5, <1>6
<1> QED
  BY <1>7 DEF t

LEMMA FlattenLonger ==
  ASSUME NEW A, NEW s \in Seq(Seq(A)), NEW t \in Seq(Seq(A)), Len(t) = Len(s), NEW m \in 1 .. Len(s),
         Len(t[m]) = Len(s[m]) + 1, \A i \in 1 .. Len(s) : i # m => Len(t[i]) = Len(s[i])
  PROVE  Len(FlattenSeq(t)) = Len(FlattenSeq(s)) + 1
<1> DEFINE N == Len(s)
           Extra(i) == IF i < m THEN 0 ELSE 1
<1>0. N \in Nat /\ m \in Nat
  OBVIOUS
<1>1. PICK p : Starts(p, s, FlattenSeq(s))
  BY FlattenProperties
<1>2. PICK q : Starts(q, t, FlattenSeq(t))
  BY FlattenProperties
<1>3. /\ p \in [0 .. N -> Nat] /\ p[0] = 0 /\ p[N] = Len(FlattenSeq(s))
      /\ q \in [0 .. N -> Nat] /\ q[0] = 0 /\ q[N] = Len(FlattenSeq(t))
      /\ \A i \in 1 .. N : p[i] = p[i - 1] + Len(s[i]) /\ q[i] = q[i - 1] + Len(t[i])
  BY <1>1, <1>2 DEF Starts
<1>4. \A i \in 1 .. N : Len(s[i]) \in Nat
  BY LenProperties
<1> DEFINE T == {i \in 0 .. N : q[i] = p[i] + Extra(i)}
<1>5. 0 \in T
  BY <1>0, <1>3
<1>6. ASSUME NEW n \in 0 .. N - 1, n \in T PROVE n + 1 \in T
  <2>1. n + 1 \in 1 .. N /\ n + 1 \in 0 .. N /\ (n + 1) - 1 = n /\ n \in 0 .. N /\ n \in Nat
    BY <1>0
  <2>2. p[n + 1] = p[n] + Len(s[n + 1]) /\ q[n + 1] = q[n] + Len(t[n + 1]) /\ p[n] \in Nat /\ Len(s[n + 1]) \in Nat
    BY <2>1, <1>3, <1>4
  <2>3. q[n] = p[n] + Extra(n)
    BY <1>6
  <2>4. Len(t[n + 1]) = Len(s[n + 1]) + (IF n + 1 = m THEN 1 ELSE 0)
    <3>1. CASE n + 1 = m
      BY <3>1
    <3>2. CASE n + 1 # m
      <4>1. Len(t[n + 1]) = Len(s[n + 1])
        BY <3>2, <2>1
      <4> QED
        BY <4>1, <3>2, <2>2
    <3> QED
      BY <3>1, <3>2
  <2>5. Extra(n + 1) = Extra(n) + (IF n + 1 = m THEN 1 ELSE 0)
    BY <2>1, <1>0
  <2>6. Extra(n) \in Nat
    OBVIOUS
  <2>7. q[n + 1] = p[n + 1] + Extra(n + 1)
    <3> DEFINE a == p[n]
               b == Len(s[n + 1])
               c == Extra(n)
               d == IF n + 1 = m THEN 1 ELSE 0
    <3>1. a \in Nat /\ b \in Nat /\ c \in Nat /\ d \in Nat
      BY <2>2, <2>6
    <3>2. p[n + 1] = a + b /\ q[n + 1] = (a + c) + (b + d) /\ Extra(n + 1) = c + d
      BY <2>2, <2>3, <2>4, <2>5
    <3> HIDE DEF a, b, c, d, Extra
    <3> QED
      BY <3>1, <3>2
  <2> QED
    BY <2>1, <2>7
<1>7. N \in T
  <2> HIDE DEF T, N
  <2>1. \A n \in 0 .. N - 1 : n \in T => n + 1 \in T
    BY <1>6
  <2>2. 0 .. N \subseteq T
    BY <1>0, <1>5, <2>1, NatUpTo
  <2> QED
    BY <2>2, <1>0
<1>8. Extra(N) = 1
  BY <1>0
<1> QED
  BY <1>3, <1>7, <1>8

-----------------------------------------------------------------------------
(* The sections of a template.                                             *)

SlidesOf(M, T) == [section : M, type : T]
NamesSection(sections, k, slide) == sections[k].name = slide.section

LEMMA FiledNew ==
  ASSUME NEW M, NEW T, NEW sections \in SectionsOf(M, T), NEW slide \in SlidesOf(M, T),
         ~ \E k \in 1 .. Len(sections) : NamesSection(sections, k, slide)
  PROVE  /\ Filed(sections, slide) \in SectionsOf(M, T)
         /\ Len(Filed(sections, slide)) = Len(sections) + 1
         /\ Filed(sections, slide)[Len(sections) + 1] = Section(slide.section, <<slide.type>>)
         /\ \A k \in 1 .. Len(sections) : Filed(sections, slide)[k] = sections[k]
         /\ Len(AllTypes(Filed(sections, slide))) = Len(AllTypes(sections)) + 1
<1> DEFINE R == [name : M, types : Seq(T)]
           new == Section(slide.section, <<slide.type>>)
           t == Append(sections, new)
<1>0. /\ DOMAIN sections = 1 .. Len(sections) /\ Len(sections) \in Nat
      /\ \A k \in 1 .. Len(sections) : sections[k].types \in Seq(T)
  BY SectionsProperties
<1>1. Filed(sections, slide) = t
  BY <1>0 DEF Filed, NamesSection
<1>2. slide.section \in M /\ slide.type \in T
  BY DEF SlidesOf
<1>3. new \in R /\ sections \in Seq(R) /\ new.types = <<slide.type>>
  BY <1>2 DEF Section, SectionsOf
<1> HIDE DEF new, R
<1>4. t \in Seq(R) /\ Len(t) = Len(sections) + 1 /\ t[Len(sections) + 1] = new
      /\ \A k \in 1 .. Len(sections) : t[k] = sections[k]
  BY <1>0, <1>3
<1> HIDE DEF t
<1>5. t \in SectionsOf(M, T)
  BY <1>4 DEF SectionsOf, R
<1> DEFINE s == TypeLists(sections)
           x == <<slide.type>>
<1>6. /\ s \in Seq(Seq(T)) /\ Len(s) = Len(sections) /\ AllTypes(sections) = FlattenSeq(s)
      /\ \A k \in 1 .. Len(sections) : s[k] = sections[k].types
  BY TypeListsType
<1>7. /\ TypeLists(t) \in Seq(Seq(T)) /\ Len(TypeLists(t)) = Len(t) /\ AllTypes(t) = FlattenSeq(TypeLists(t))
      /\ \A k \in 1 .. Len(t) : TypeLists(t)[k] = t[k].types
  BY <1>5, TypeListsType
<1>8. x \in Seq(T) /\ Len(x) = 1
  BY <1>2
<1> HIDE DEF s, x
<1>9. TypeLists(t) = Append(s, x)
  <2>1. /\ Append(s, x) \in Seq(Seq(T)) /\ Len(Append(s, x)) = Len(sections) + 1
        /\ Append(s, x)[Len(sections) + 1] = x
        /\ \A k \in 1 .. Len(sections) : Append(s, x)[k] = s[k]
    BY <1>0, <1>6, <1>8
  <2>2. ASSUME NEW k \in 1 .. Len(sections) + 1 PROVE TypeLists(t)[k] = Append(s, x)[k]
    <3>1. CASE k = Len(sections) + 1
      BY <3>1, <2>1, <1>3, <1>4, <1>7 DEF x
    <3>2. CASE k # Len(sections) + 1
      <4>1. k \in 1 .. Len(sections)
        BY <3>2, <1>0
      <4> QED
        BY <4>1, <2>1, <1>4, <1>6, <1>7
    <3> QED
      BY <3>1, <3>2
  <2> QED
    BY <2>1, <2>2, <1>4, <1>7, SeqEqual
<1>10. Len(FlattenSeq(Append(s, x))) = Len(FlattenSeq(s)) + 1
  BY <1>6, <1>8, FlattenAppended
<1> QED
  BY <1>1, <1>4, <1>5, <1>6, <1>7, <1>9, <1>10 DEF new

LEMMA FiledOld ==
  ASSUME NEW M, NEW T, NEW sections \in SectionsOf(M, T), NEW slide \in SlidesOf(M, T),
         NEW m \in 1 .. Len(sections), NamesSection(sections, m, slide),
         \A k \in 1 .. Len(sections) : NamesSection(sections, k, slide) => k = m
  PROVE  /\ Filed(sections, slide) \in SectionsOf(M, T)
         /\ Len(Filed(sections, slide)) = Len(sections)
         /\ Filed(sections, slide)[m].name = sections[m].name
         /\ Len(Filed(sections, slide)[m].types) = Len(sections[m].types) + 1
         /\ \A k \in 1 .. Len(sections) : k # m => Filed(sections, slide)[k] = sections[k]
         /\ Len(AllTypes(Filed(sections, slide))) = Len(AllTypes(sections)) + 1
<1> DEFINE N == Len(sections)
           R == [name : M, types : Seq(T)]
           longer == Section(slide.section, Append(sections[m].types, slide.type))
           t == [k \in 1 .. N |-> IF k = m THEN longer ELSE sections[k]]
<1>0. /\ DOMAIN sections = 1 .. N /\ N \in Nat
      /\ \A k \in 1 .. N : sections[k].types \in Seq(T) /\ sections[k] \in R
  BY SectionsProperties
<1>1. Filed(sections, slide) = t
  BY <1>0 DEF Filed, NamesSection
<1>2. slide.section \in M /\ slide.type \in T
  BY DEF SlidesOf
<1>3. /\ longer \in R /\ longer.name = sections[m].name /\ longer.types \in Seq(T)
      /\ Len(longer.types) = Len(sections[m].types) + 1
  <2> DEFINE l == Append(sections[m].types, slide.type)
  <2>1. l \in Seq(T) /\ Len(l) = Len(sections[m].types) + 1
    BY <1>0, <1>2
  <2> HIDE DEF l
  <2>2. longer = [name |-> slide.section, types |-> l]
    BY DEF Section, l
  <2>3. slide.section = sections[m].name
    BY DEF NamesSection
  <2> QED
    BY <1>2, <2>1, <2>2, <2>3
<1> HIDE DEF longer, R
<1>4. /\ t \in Seq(R) /\ Len(t) = N /\ t[m] = longer
      /\ \A k \in 1 .. N : k # m => t[k] = sections[k]
  BY <1>0, <1>3
<1> HIDE DEF t
<1>5. t \in SectionsOf(M, T)
  BY <1>4 DEF SectionsOf, R
<1> DEFINE s == TypeLists(sections)
           u == TypeLists(t)
<1>6. /\ s \in Seq(Seq(T)) /\ Len(s) = N /\ AllTypes(sections) = FlattenSeq(s)
      /\ \A k \in 1 .. N : s[k] = sections[k].types
  BY TypeListsType
<1>7. /\ u \in Seq(Seq(T)) /\ Len(u) = N /\ AllTypes(t) = FlattenSeq(u)
      /\ \A k \in 1 .. N : u[k] = t[k].types
  BY <1>4, <1>5, TypeListsType
<1> HIDE DEF s, u
<1>8. Len(u[m]) = Len(s[m]) + 1 /\ \A i \in 1 .. Len(s) : i # m => Len(u[i]) = Len(s[i])
  BY <1>3, <1>4, <1>6, <1>7
<1>9. m \in 1 .. Len(s) /\ Len(u) = Len(s)
  BY <1>6, <1>7
<1>10. Len(FlattenSeq(u)) = Len(FlattenSeq(s)) + 1
  BY <1>6, <1>7, <1>8, <1>9, FlattenLonger
<1> QED
  BY <1>1, <1>3, <1>4, <1>5, <1>6, <1>7, <1>10

LEMMA TemplateSteps ==
  ASSUME NEW M, NEW T, NEW slides \in Seq(SlidesOf(M, T))
  PROVE  \E f \in [0 .. Len(slides) -> SectionsOf(M, T)] :
            /\ f[0] = <<>> /\ \A n \in 1 .. Len(slides) : f[n] = Filed(f[n - 1], slides[n])
            /\ TemplateSections(slides) = f[Len(slides)]
<1> DEFINE N == Len(slides)
           S == {x \in SectionsOf(M, T) : \A k, l \in 1 .. Len(x) : x[k].name = x[l].name => k = l}
           by == [n \in 1 .. N |-> [x \in S |-> Filed(x, slides[n])]]
           filed == CHOOSE g : g = [n \in 0 .. Len(slides) |-> IF n = 0 THEN <<>>
                                                    ELSE Filed(g[n - 1], slides[n])]
<1>0. N \in Nat /\ \A n \in 1 .. N : slides[n] \in SlidesOf(M, T)
  OBVIOUS
<1>1. <<>> \in S
  BY DEF SectionsOf
<1>2. by \in Steps(N, S)
  <2>1. ASSUME NEW n \in 1 .. N, NEW x \in S PROVE Filed(x, slides[n]) \in S
    <3> DEFINE y == Filed(x, slides[n])
    <3>0. /\ x \in SectionsOf(M, T) /\ slides[n] \in SlidesOf(M, T)
          /\ Len(x) \in Nat /\ \A k, l \in 1 .. Len(x) : x[k].name = x[l].name => k = l
      BY <1>0, SectionsProperties
    <3> HIDE DEF y
    <3>1. CASE \E k \in 1 .. Len(x) : NamesSection(x, k, slides[n])
      <4>1. PICK m \in 1 .. Len(x) : NamesSection(x, m, slides[n])
        BY <3>1
      <4>2. \A k \in 1 .. Len(x) : NamesSection(x, k, slides[n]) => k = m
        BY <4>1, <3>0 DEF NamesSection
      <4>3. /\ y \in SectionsOf(M, T) /\ Len(y) = Len(x) /\ y[m].name = x[m].name
            /\ \A k \in 1 .. Len(x) : k # m => y[k] = x[k]
        BY <3>0, <4>1, <4>2, FiledOld DEF y
      <4>4. \A k \in 1 .. Len(y) : y[k].name = x[k].name
        BY <4>3
      <4>5. y \in S
        BY <4>3, <4>4, <3>0
      <4> QED
        BY <4>5 DEF y
    <3>2. CASE ~ \E k \in 1 .. Len(x) : NamesSection(x, k, slides[n])
      <4>1. /\ y \in SectionsOf(M, T) /\ Len(y) = Len(x) + 1
            /\ y[Len(x) + 1] = Section(slides[n].section, <<slides[n].type>>)
            /\ \A k \in 1 .. Len(x) : y[k] = x[k]
        BY <3>0, <3>2, FiledNew DEF y
      <4>2. y[Len(x) + 1].name = slides[n].section
        BY <4>1 DEF Section
      <4>3. \A k \in 1 .. Len(x) : y[k].name # slides[n].section
        BY <4>1, <3>2 DEF NamesSection
      <4>4. ASSUME NEW k \in 1 .. Len(y), NEW l \in 1 .. Len(y), y[k].name = y[l].name PROVE k = l
        <5>1. (k \in 1 .. Len(x) \/ k = Len(x) + 1) /\ (l \in 1 .. Len(x) \/ l = Len(x) + 1)
          BY <4>1, <3>0
        <5> QED
          BY <5>1, <4>1, <4>2, <4>3, <4>4, <3>0
      <4>5. y \in S
        BY <4>1, <4>4
      <4> QED
        BY <4>5 DEF y
    <3> QED
      BY <3>1, <3>2
  <2> HIDE DEF S
  <2> QED
    BY <2>1 DEF Steps
<1>3. PICK f : Solves(f, N, S, <<>>, by)
  <2> HIDE DEF by, N, S
  <2> QED
    BY <1>0, <1>1, <1>2, RecursionExists
<1>13. S \subseteq SectionsOf(M, T)
  OBVIOUS
<1> HIDE DEF S
<1>4. f \in [0 .. N -> S] /\ f[0] = <<>>
  BY <1>3 DEF Solves
<1>5. ASSUME NEW n \in 1 .. N PROVE f[n] = Filed(f[n - 1], slides[n])
  <2>1. f[n] = by[n][f[n - 1]]
    <3> HIDE DEF by
    <3> QED
      BY <1>3 DEF Solves
  <2>2. n - 1 \in 0 .. N
    BY <1>0
  <2>3. f[n - 1] \in S
    BY <2>2, <1>4
  <2> QED
    BY <2>1, <2>3
<1> HIDE DEF by
<1>6. f = [n \in 0 .. Len(slides) |-> IF n = 0 THEN <<>> ELSE Filed(f[n - 1], slides[n])]
  <2>1. ASSUME NEW n \in 0 .. N PROVE f[n] = IF n = 0 THEN <<>> ELSE Filed(f[n - 1], slides[n])
    <3>1. n = 0 \/ n \in 1 .. N
      BY <1>0
    <3> QED
      BY <3>1, <1>4, <1>5
  <2>2. f = [n \in 0 .. N |-> f[n]]
    BY <1>4
  <2> QED
    BY <2>1, <2>2
<1>7. filed = [n \in 0 .. Len(slides) |-> IF n = 0 THEN <<>> ELSE Filed(filed[n - 1], slides[n])]
  BY <1>6
<1>8. TemplateSections(slides) = filed[N]
  BY DEF TemplateSections
<1> HIDE DEF filed
<1>9. filed[0] = <<>>
  <2>1. 0 \in 0 .. N
    BY <1>0
  <2> QED
    BY <2>1, <1>7
<1>10. ASSUME NEW n \in 1 .. N, filed[n - 1] \in S PROVE filed[n] = by[n][filed[n - 1]]
  <2>1. n \in 0 .. N /\ n # 0
    BY <1>0
  <2>2. filed[n] = Filed(filed[n - 1], slides[n])
    BY <2>1, <1>7
  <2>3. by[n] = [x \in S |-> Filed(x, slides[n])]
    BY DEF by
  <2> QED
    BY <2>2, <2>3, <1>10
<1>11. filed[N] = f[N]
  <2>1. Follows(filed, N, S, <<>>, by) /\ N \in Nat
    BY <1>0, <1>9, <1>10 DEF Follows
  <2> HIDE DEF N
  <2> QED
    BY <1>3, <2>1, SolutionsAgree
<1>12. f \in [0 .. N -> SectionsOf(M, T)]
  BY <1>4, <1>13
<1> QED
  BY <1>4, <1>5, <1>8, <1>11, <1>12

(* What the sections hold after n slides were filed.                       *)
SlidesIn(slides, n, name) == {i \in 1 .. n : slides[i].section = name}
FiledRight(M, T, slides, n, x) ==
  /\ x \in SectionsOf(M, T) /\ Len(AllTypes(x)) = n
  /\ \A k, l \in 1 .. Len(x) : x[k].name = x[l].name => k = l
  /\ \A k \in 1 .. Len(x) : Len(x[k].types) = Cardinality(SlidesIn(slides, n, x[k].name))
  /\ \A i \in 1 .. n : \E k \in 1 .. Len(x) : NamesSection(x, k, slides[i])

LEMMA FiledStep ==
  ASSUME NEW M, NEW T, NEW slides \in Seq(SlidesOf(M, T)), NEW n \in 0 .. Len(slides) - 1,
         NEW x, FiledRight(M, T, slides, n, x)
  PROVE  FiledRight(M, T, slides, n + 1, Filed(x, slides[n + 1]))
<1> DEFINE slide == slides[n + 1]
           y == Filed(x, slide)
<1>0. /\ Len(slides) \in Nat /\ n \in Nat /\ n + 1 \in 1 .. Len(slides) /\ slide \in SlidesOf(M, T)
      /\ n + 1 \in 1 .. n + 1
  OBVIOUS
<1>1. /\ x \in SectionsOf(M, T) /\ Len(x) \in Nat /\ Len(AllTypes(x)) = n
      /\ \A k, l \in 1 .. Len(x) : x[k].name = x[l].name => k = l
      /\ \A k \in 1 .. Len(x) : Len(x[k].types) = Cardinality(SlidesIn(slides, n, x[k].name))
      /\ \A i \in 1 .. n : \E k \in 1 .. Len(x) : NamesSection(x, k, slides[i])
  BY SectionsProperties DEF FiledRight
<1> SUFFICES FiledRight(M, T, slides, n + 1, y)
  OBVIOUS
<1>2. ASSUME NEW name, name # slide.section
      PROVE  SlidesIn(slides, n + 1, name) = SlidesIn(slides, n, name)
  BY <1>0, <1>2 DEF SlidesIn
<1>3. /\ IsFiniteSet(SlidesIn(slides, n, slide.section))
      /\ Cardinality(SlidesIn(slides, n + 1, slide.section)) = Cardinality(SlidesIn(slides, n, slide.section)) + 1
  <2> DEFINE F == SlidesIn(slides, n, slide.section)
  <2>1. IsFiniteSet(1 .. n)
    BY <1>0, FS_Interval
  <2>2. F \subseteq 1 .. n /\ n + 1 \notin F /\ SlidesIn(slides, n + 1, slide.section) = F \cup {n + 1}
    BY <1>0 DEF SlidesIn
  <2> HIDE DEF F
  <2>3. IsFiniteSet(F)
    BY <2>1, <2>2, FS_Subset
  <2>4. Cardinality(F \cup {n + 1}) = Cardinality(F) + 1
    BY <2>2, <2>3, FS_AddElement
  <2> QED
    BY <2>2, <2>3, <2>4 DEF F
<1> HIDE DEF slide, y
<1>4. CASE \E k \in 1 .. Len(x) : NamesSection(x, k, slide)
  <2>1. PICK m \in 1 .. Len(x) : NamesSection(x, m, slide)
    BY <1>4
  <2>2. \A k \in 1 .. Len(x) : NamesSection(x, k, slide) => k = m
    BY <2>1, <1>1 DEF NamesSection
  <2>3. /\ y \in SectionsOf(M, T) /\ Len(y) = Len(x) /\ y[m].name = x[m].name
        /\ Len(y[m].types) = Len(x[m].types) + 1
        /\ \A k \in 1 .. Len(x) : k # m => y[k] = x[k]
        /\ Len(AllTypes(y)) = Len(AllTypes(x)) + 1
    BY <1>0, <1>1, <2>1, <2>2, FiledOld DEF y
  <2>4. \A k \in 1 .. Len(x) : y[k].name = x[k].name
    BY <2>3
  <2>5. ASSUME NEW k \in 1 .. Len(x)
        PROVE  Len(y[k].types) = Cardinality(SlidesIn(slides, n + 1, y[k].name))
    <3>1. CASE k = m
      BY <3>1, <1>1, <1>3, <2>1, <2>3 DEF NamesSection
    <3>2. CASE k # m
      <4>1. x[k].name # slide.section
        BY <3>2, <2>2 DEF NamesSection
      <4>2. SlidesIn(slides, n + 1, x[k].name) = SlidesIn(slides, n, x[k].name)
        BY <4>1, <1>2
      <4> QED
        BY <3>2, <4>2, <1>1, <2>3
    <3> QED
      BY <3>1, <3>2
  <2>6. ASSUME NEW i \in 1 .. n + 1 PROVE \E k \in 1 .. Len(x) : NamesSection(y, k, slides[i])
    <3>1. i = n + 1 \/ i \in 1 .. n
      BY <1>0
    <3>2. \E k \in 1 .. Len(x) : NamesSection(x, k, slides[i])
      BY <3>1, <1>1, <2>1 DEF slide
    <3> QED
      BY <3>2, <2>4 DEF NamesSection
  <2>7. \A k, l \in 1 .. Len(y) : y[k].name = y[l].name => k = l
    BY <1>1, <2>3, <2>4
  <2>8. Len(AllTypes(y)) = n + 1
    BY <1>1, <2>3
  <2> QED
    BY <2>3, <2>5, <2>6, <2>7, <2>8 DEF FiledRight
<1>5. CASE ~ \E k \in 1 .. Len(x) : NamesSection(x, k, slide)
  <2>1. /\ y \in SectionsOf(M, T) /\ Len(y) = Len(x) + 1
        /\ y[Len(x) + 1] = Section(slide.section, <<slide.type>>)
        /\ \A k \in 1 .. Len(x) : y[k] = x[k]
        /\ Len(AllTypes(y)) = Len(AllTypes(x)) + 1
    BY <1>0, <1>1, <1>5, FiledNew DEF y
  <2>2. y[Len(x) + 1].name = slide.section /\ Len(y[Len(x) + 1].types) = 1
    BY <2>1 DEF Section
  <2>3. \A k \in 1 .. Len(x) : y[k].name # slide.section
    BY <2>1, <1>5 DEF NamesSection
  <2>4. \A k \in 1 .. Len(y) : k \in 1 .. Len(x) \/ k = Len(x) + 1
    BY <2>1, <1>1
  <2>5. ASSUME NEW k \in 1 .. Len(y)
        PROVE  Len(y[k].types) = Cardinality(SlidesIn(slides, n + 1, y[k].name))
    <3>1. CASE k = Len(x) + 1
      <4>1. SlidesIn(slides, n, slide.section) = {}
        <5>1. \A i \in 1 .. n : slides[i].section # slide.section
          BY <1>1, <1>5 DEF NamesSection
        <5> QED
          BY <5>1 DEF SlidesIn
      <4>2. Cardinality(SlidesIn(slides, n + 1, slide.section)) = 1
        BY <4>1, <1>3, FS_EmptySet
      <4> QED
        BY <3>1, <4>2, <2>2
    <3>2. CASE k \in 1 .. Len(x)
      <4>1. SlidesIn(slides, n + 1, y[k].name) = SlidesIn(slides, n, y[k].name)
        BY <3>2, <2>3, <1>2
      <4> QED
        BY <3>2, <4>1, <1>1, <2>1
    <3> QED
      BY <3>1, <3>2, <2>4
  <2>6. ASSUME NEW i \in 1 .. n + 1 PROVE \E k \in 1 .. Len(y) : NamesSection(y, k, slides[i])
    <3>1. CASE i = n + 1
      <4>1. Len(x) + 1 \in 1 .. Len(y)
        BY <1>1, <2>1
      <4> QED
        BY <4>1, <3>1, <2>2 DEF NamesSection, slide
    <3>2. CASE i # n + 1
      <4>1. i \in 1 .. n
        BY <3>2, <1>0
      <4>2. PICK k \in 1 .. Len(x) : NamesSection(x, k, slides[i])
        BY <4>1, <1>1
      <4>3. k \in 1 .. Len(y)
        BY <1>1, <2>1
      <4> QED
        BY <4>2, <4>3, <2>1 DEF NamesSection
    <3> QED
      BY <3>1, <3>2
  <2>7. ASSUME NEW k \in 1 .. Len(y), NEW l \in 1 .. Len(y), y[k].name = y[l].name PROVE k = l
    <3>1. (k \in 1 .. Len(x) \/ k = Len(x) + 1) /\ (l \in 1 .. Len(x) \/ l = Len(x) + 1)
      BY <2>4
    <3> QED
      BY <3>1, <2>1, <2>2, <2>3, <2>7, <1>1
  <2>8. Len(AllTypes(y)) = n + 1
    BY <1>1, <2>1
  <2> QED
    BY <2>1, <2>5, <2>6, <2>7, <2>8 DEF FiledRight
<1> QED
  BY <1>4, <1>5

LEMMA TemplateProperties ==
  ASSUME NEW M, NEW T, NEW slides \in Seq(SlidesOf(M, T))
  PROVE  FiledRight(M, T, slides, Len(slides), TemplateSections(slides))
<1> DEFINE N == Len(slides)
<1>0. N \in Nat
  OBVIOUS
<1>1. PICK f \in [0 .. N -> SectionsOf(M, T)] :
            /\ f[0] = <<>> /\ \A n \in 1 .. N : f[n] = Filed(f[n - 1], slides[n])
            /\ TemplateSections(slides) = f[N]
  BY TemplateSteps
<1> DEFINE Good == {n \in 0 .. N : FiledRight(M, T, slides, n, f[n])}
<1>2. 0 \in Good
  <2>1. 0 \in 0 .. N /\ 1 .. 0 = {} /\ <<>> \in SectionsOf(M, T) /\ Len(<<>>) = 0
    BY <1>0 DEF SectionsOf
  <2>2. Len(AllTypes(<<>>)) = 0
    <3>1. AllTypes(<<>>) = FlattenSeq(TypeLists(<<>>)) /\ TypeLists(<<>>) \in Seq(Seq(T)) /\ Len(TypeLists(<<>>)) = 0
      BY <2>1, TypeListsType
    <3>2. PICK p : Starts(p, TypeLists(<<>>), FlattenSeq(TypeLists(<<>>)))
      BY <3>1, FlattenProperties
    <3> QED
      BY <3>1, <3>2 DEF Starts
  <2>3. FiledRight(M, T, slides, 0, <<>>)
    BY <2>1, <2>2 DEF FiledRight
  <2> QED
    BY <2>1, <2>3, <1>1
<1>3. ASSUME NEW n \in 0 .. N - 1, n \in Good PROVE n + 1 \in Good
  <2>1. n + 1 \in 1 .. N /\ n + 1 \in 0 .. N /\ (n + 1) - 1 = n
    BY <1>0
  <2>2. f[n + 1] = Filed(f[n], slides[n + 1])
    BY <1>1, <2>1
  <2>3. FiledRight(M, T, slides, n, f[n])
    BY <1>3
  <2>4. FiledRight(M, T, slides, n + 1, Filed(f[n], slides[n + 1]))
    BY <2>3, FiledStep
  <2> QED
    BY <2>1, <2>2, <2>4
<1>4. N \in Good
  <2> HIDE DEF Good, N
  <2>1. \A n \in 0 .. N - 1 : n \in Good => n + 1 \in Good
    BY <1>3
  <2>2. 0 .. N \subseteq Good
    BY <1>0, <1>2, <2>1, NatUpTo
  <2> QED
    BY <2>2, <1>0
<1> QED
  BY <1>1, <1>4

-----------------------------------------------------------------------------
(* The plan of the storyboarding agent.                                    *)

PlanNames == Sections \cup {"Title", "Agenda", "Problem", "Analysis", "Evidence", "Recommendations",
                            "Conclusion"}
PlanTypes == Types \cup SlideTypes

LEMMA MaxOfTwo == ASSUME NEW a \in Int, NEW b \in Int PROVE Max({a, b}) \in {a, b} /\ Max({a, b}) >= a
<1>1. \E x \in {a, b} : \A y \in {a, b} : x >= y
  OBVIOUS
<1>2. Max({a, b}) \in {a, b} /\ \A y \in {a, b} : Max({a, b}) >= y
  BY <1>1 DEF Max
<1> QED
  BY <1>2

LEMMA SharesType ==
  ASSUME NEW remaining \in Nat
  PROVE  /\ Shares(remaining).problem \in Nat /\ Shares(remaining).analysis \in Nat
         /\ Shares(remaining).evidence \in Nat /\ Shares(remaining).advice \in Nat
         /\ Shares(remaining).conclusion \in Nat
<1> DEFINE problem == Max({1, (remaining * 15) \div 100})
           analysis == Max({2, (remaining * 30) \div 100})
           evidence == Max({2, (remaining * 25) \div 100})
           advice == Max({1, (remaining * 20) \div 100})
           conclusion == Max({1, remaining - problem - analysis - evidence - advice})
<1>1. /\ (remaining * 15) \div 100 \in Int /\ (remaining * 30) \div 100 \in Int
      /\ (remaining * 25) \div 100 \in Int /\ (remaining * 20) \div 100 \in Int
  OBVIOUS
<1>2. problem \in Int /\ problem >= 1
  BY <1>1, MaxOfTwo
<1>3. analysis \in Int /\ analysis >= 2
  BY <1>1, MaxOfTwo
<1>4. evidence \in Int /\ evidence >= 2
  BY <1>1, MaxOfTwo
<1>5. advice \in Int /\ advice >= 1
  BY <1>1, MaxOfTwo
<1> HIDE DEF problem, analysis, evidence, advice
<1>6. remaining - problem - analysis - evidence - advice \in Int
  BY <1>2, <1>3, <1>4, <1>5
<1>7. conclusion \in Int /\ conclusion >= 1
  BY <1>6, MaxOfTwo
<1> HIDE DEF conclusion
<1>8. Shares(remaining) = [problem |-> problem, analysis |-> analysis, evidence |-> evidence,
                           advice |-> advice, conclusion |-> conclusion]
  BY DEF Shares, problem, analysis, evidence, advice, conclusion
<1> QED
  BY <1>2, <1>3, <1>4, <1>5, <1>7, <1>8

LEMMA DiverseTypesType ==
  ASSUME NEW T, NEW count \in Nat, NEW a \in T, NEW b \in T, NEW c \in T, NEW d \in T
  PROVE  DiverseTypes(count, <<a, b, c, d>>) \in Seq(T)
<1> DEFINE p == <<a, b, c, d>>
<1>1. Len(p) = 4 /\ p[1] \in T /\ p[2] \in T /\ p[3] \in T /\ p[4] \in T
  OBVIOUS
<1> HIDE DEF p
<1>2. ASSUME NEW i \in 1 .. count PROVE p[((i - 1) % Len(p)) + 1] \in T
  <2>1. (i - 1) % 4 \in 0 .. 3
    OBVIOUS
  <2>2. (i - 1) % 4 = 0 \/ (i - 1) % 4 = 1 \/ (i - 1) % 4 = 2 \/ (i - 1) % 4 = 3
    BY <2>1
  <2> QED
    BY <2>2, <1>1
<1>3. DiverseTypes(count, p) \in Seq(T)
  BY <1>2 DEF DiverseTypes
<1> QED
  BY <1>3 DEF p

LEMMA DefaultSectionsType ==
  ASSUME NEW n \in Nat, n >= 2
  PROVE  DefaultSections(n) \in SectionsOf(PlanNames, PlanTypes)
<1> DEFINE R == [name : PlanNames, types : Seq(PlanTypes)]
           share == Shares(n - 2)
<1>0. /\ "title" \in PlanTypes /\ "content" \in PlanTypes /\ "chart" \in PlanTypes
      /\ "table" \in PlanTypes /\ "comparison" \in PlanTypes /\ "metric" \in PlanTypes
  BY DEF PlanTypes, SlideTypes
<1>1. /\ share.problem \in Nat /\ share.analysis \in Nat /\ share.evidence \in Nat
      /\ share.advice \in Nat /\ share.conclusion \in Nat
  BY SharesType
<1> HIDE DEF share
<1>2. ASSUME NEW name \in PlanNames, NEW types \in Seq(PlanTypes) PROVE Section(name, types) \in R
  BY DEF Section
<1>3. /\ "Title" \in PlanNames /\ "Agenda" \in PlanNames /\ "Problem" \in PlanNames
      /\ "Analysis" \in PlanNames /\ "Evidence" \in PlanNames /\ "Recommendations" \in PlanNames
      /\ "Conclusion" \in PlanNames
  BY DEF PlanNames
<1> HIDE DEF R
<1>4. ASSUME NEW count \in Nat PROVE Repeat("content", count) \in Seq(PlanTypes)
  BY <1>0 DEF Repeat
<1> DEFINE a == Section("Title", <<"title">>)
           b == Section("Agenda", <<"content">>)
           c == Section("Problem", IF share.problem > 1 THEN <<"content", "chart">> ELSE <<"content">>)
           d == Section("Analysis", DiverseTypes(share.analysis, <<"content", "chart", "table", "metric">>))
           e == Section("Evidence", DiverseTypes(share.evidence, <<"chart", "comparison", "table", "metric">>))
           f == Section("Recommendations",
                        IF share.advice > 1 THEN Append(Repeat("content", share.advice - 1), "comparison")
                        ELSE <<"content">>)
           g == Section("Conclusion", Repeat("content", share.conclusion))
<1>5. a \in R /\ b \in R
  <2>1. <<"title">> \in Seq(PlanTypes) /\ <<"content">> \in Seq(PlanTypes)
    BY <1>0
  <2> QED
    BY <2>1, <1>2, <1>3
<1>6. c \in R
  <2>1. (IF share.problem > 1 THEN <<"content", "chart">> ELSE <<"content">>) \in Seq(PlanTypes)
    BY <1>0
  <2> QED
    BY <2>1, <1>2, <1>3
<1>7. d \in R
  <2>1. DiverseTypes(share.analysis, <<"content", "chart", "table", "metric">>) \in Seq(PlanTypes)
    BY <1>0, <1>1, DiverseTypesType
  <2> QED
    BY <2>1, <1>2, <1>3
<1>8. e \in R
  <2>1. DiverseTypes(share.evidence, <<"chart", "comparison", "table", "metric">>) \in Seq(PlanTypes)
    BY <1>0, <1>1, DiverseTypesType
  <2> QED
    BY <2>1, <1>2, <1>3
<1>9. f \in R
  <2> DEFINE types == IF share.advice > 1 THEN Append(Repeat("content", share.advice - 1), "comparison")
                      ELSE <<"content">>
  <2>1. types \in Seq(PlanTypes)
    <3>1. CASE share.advice > 1
      <4>1. share.advice - 1 \in Nat
        BY <3>1, <1>1
      <4>2. Repeat("content", share.advice - 1) \in Seq(PlanTypes)
        BY <4>1, <1>4
      <4> QED
        BY <3>1, <4>2, <1>0
    <3>2. CASE ~(share.advice > 1)
      BY <3>2, <1>0
    <3> QED
      BY <3>1, <3>2
  <2> HIDE DEF types
  <2>2. Section("Recommendations", types) \in R
    BY <2>1, <1>2, <1>3
  <2> QED
    BY <2>2 DEF types
<1>10. g \in R
  BY <1>1, <1>2, <1>3, <1>4
<1>11. DefaultSections(n) = <<a, b, c, d, e, f, g>>
  BY DEF DefaultSections, share
<1> HIDE DEF a, b, c, d, e, f, g
<1>12. <<a, b, c, d, e, f, g>> \in Seq(R)
  BY <1>5, <1>6, <1>7, <1>8, <1>9, <1>10
<1> QED
  BY <1>11, <1>12 DEF SectionsOf, R

-----------------------------------------------------------------------------
(* What a plan keeps of its template, and what a prompt keeps of its limit. *)

KeepsTemplate(slides, types, before, sections) ==
  /\ Len(types) = Len(slides)
  /\ \A i \in DOMAIN types : types[i] # before[i] =>
        i > 2 /\ before[i] = types[i - 1] /\ before[i] = types[i - 2]
  /\ \A k \in DOMAIN sections :
        Len(sections[k].types) = Cardinality({i \in DOMAIN slides : slides[i].section = sections[k].name})
PlanKeeps(p, slides) ==
  /\ p.sections \in SectionsOf(PlanNames, PlanTypes)
  /\ Varied(AllTypes(p.sections))
  /\ slides # <<>> => KeepsTemplate(slides, AllTypes(p.sections), AllTypes(TemplateSections(slides)), p.sections)

LEMMA TemplatesType ==
  ASSUME NEW slides \in Templates
  PROVE  slides \in Seq(SlidesOf(PlanNames, PlanTypes))
<1>1. PICK n \in 0 .. MaxTemplate : slides \in [1 .. n -> [section : Sections, type : Types]]
  BY DEF Templates
<1>2. n \in Nat
  BY StoryAssumption
<1> DEFINE R == SlidesOf(PlanNames, PlanTypes)
<1>3. \A i \in 1 .. n : slides[i] \in R
  BY <1>1 DEF PlanNames, PlanTypes, SlidesOf
<1> HIDE DEF R
<1>4. slides \in [1 .. n -> R]
  BY <1>1, <1>3
<1>5. slides \in Seq(R)
  BY <1>2, <1>4
<1> QED
  BY <1>5 DEF R

(* Whatever the template and the topic, the plan has the slides of the     *)
(* template in their sections, and none of a type a third time in a row.   *)
LEMMA PlanProperties ==
  ASSUME NEW complexity \in Complexity, NEW slides \in Templates
  PROVE  PlanKeeps(PresentationPlan(complexity, slides), slides)
<1> DEFINE n == SlideCount(complexity, slides)
           sections == IF slides # <<>> THEN TemplateSections(slides) ELSE DefaultSections(n)
           e == EnforceVisualDiversity(sections)
           p == PresentationPlan(complexity, slides)
<1>0. slides \in Seq(SlidesOf(PlanNames, PlanTypes)) /\ DOMAIN slides = 1 .. Len(slides)
  BY TemplatesType
<1>1. p.sections = e
  BY DEF PresentationPlan
<1>2. slides # <<>> => FiledRight(PlanNames, PlanTypes, slides, Len(slides), TemplateSections(slides))
  BY <1>0, TemplateProperties
<1>3. sections \in SectionsOf(PlanNames, PlanTypes)
  <2>1. CASE slides # <<>>
    BY <2>1, <1>2 DEF FiledRight
  <2>2. CASE slides = <<>>
    <3>1. n = 7 \/ n = 12 \/ n = 18
      BY <2>2 DEF SlideCount, Complexity
    <3>2. n \in Nat /\ n >= 2
      BY <3>1
    <3> HIDE DEF n
    <3>3. DefaultSections(n) \in SectionsOf(PlanNames, PlanTypes)
      BY <3>2, DefaultSectionsType
    <3> QED
      BY <2>2, <3>3
  <2> QED
    BY <2>1, <2>2
<1>4. SlideTypes \subseteq PlanTypes
  BY DEF PlanTypes
<1> HIDE DEF p
<1>5. slides # <<>> => sections = TemplateSections(slides)
  OBVIOUS
<1> HIDE DEF sections
<1>6. /\ e \in SectionsOf(PlanNames, PlanTypes) /\ Len(e) = Len(sections)
      /\ \A k \in 1 .. Len(sections) : /\ e[k].name = sections[k].name
                                       /\ Len(e[k].types) = Len(sections[k].types)
      /\ AllTypes(e) = Diversify(AllTypes(sections))
  BY <1>3, <1>4, EnforceProperties
<1>7. AllTypes(sections) \in Seq(PlanTypes)
  BY <1>3, TypeListsType
<1>8. /\ AllTypes(e) \in Seq(PlanTypes) /\ Len(AllTypes(e)) = Len(AllTypes(sections))
      /\ Varied(AllTypes(e)) /\ OnlyThirds(AllTypes(sections), AllTypes(e))
  BY <1>4, <1>6, <1>7, DiversifyProperties
<1> HIDE DEF e
<1>9. ASSUME slides # <<>>
      PROVE  KeepsTemplate(slides, AllTypes(e), AllTypes(TemplateSections(slides)), e)
  <2>1. /\ Len(AllTypes(sections)) = Len(slides)
        /\ \A k \in 1 .. Len(sections) :
              Len(sections[k].types) = Cardinality(SlidesIn(slides, Len(slides), sections[k].name))
    BY <1>2, <1>5, <1>9 DEF FiledRight
  <2>2. Len(AllTypes(e)) = Len(slides)
    BY <1>8, <2>1
  <2>3. DOMAIN AllTypes(e) = 1 .. Len(AllTypes(e)) /\ DOMAIN e = 1 .. Len(sections)
    <3>1. DOMAIN AllTypes(e) = 1 .. Len(AllTypes(e))
      BY <1>8
    <3>2. DOMAIN e = 1 .. Len(e)
      BY <1>6, SectionsProperties
    <3> QED
      BY <3>1, <3>2, <1>6
  <2>4. \A i \in DOMAIN AllTypes(e) : AllTypes(e)[i] # AllTypes(sections)[i] =>
          /\ i > 2 /\ AllTypes(sections)[i] = AllTypes(e)[i - 1]
          /\ AllTypes(sections)[i] = AllTypes(e)[i - 2]
    BY <1>8, <2>3 DEF OnlyThirds
  <2>5. ASSUME NEW k \in DOMAIN e
        PROVE  Len(e[k].types) = Cardinality({i \in DOMAIN slides : slides[i].section = e[k].name})
    <3>1. k \in 1 .. Len(sections)
      BY <2>3
    <3>2. Len(e[k].types) = Cardinality(SlidesIn(slides, Len(slides), e[k].name))
      BY <3>1, <1>6, <2>1
    <3> QED
      BY <3>2, <1>0 DEF SlidesIn
  <2> QED
    BY <1>5, <1>9, <2>2, <2>4, <2>5 DEF KeepsTemplate
<1>10. PlanKeeps(p, slides)
  BY <1>1, <1>6, <1>8, <1>9 DEF PlanKeeps, p
<1> QED
  BY <1>10 DEF p

LEMMA FormatPlanType ==
  ASSUME NEW p, p.sections \in SectionsOf(PlanNames, PlanTypes)
  PROVE  FormatPlan(p) \in Nat
<1>1. Len(p.sections) \in Nat
  BY SectionsProperties
<1>2. AllTypes(p.sections) \in Seq(PlanTypes)
  BY TypeListsType
<1>3. Len(AllTypes(p.sections)) \in Nat
  BY <1>2
<1> DEFINE a == Len(p.sections)
           b == Len(AllTypes(p.sections))
<1>4. FormatPlan(p) = 34 + 30 * a + 15 * b
  BY DEF FormatPlan
<1>5. a \in Nat /\ b \in Nat
  BY <1>1, <1>3
<1> HIDE DEF a, b
<1>6. 34 + 30 * a + 15 * b \in Nat
  BY <1>5
<1> QED
  BY <1>4, <1>6

LEMMA QuarterOfSum ==
  ASSUME NEW a \in Nat, NEW b \in Nat
  PROVE  /\ EstimateTokens(a) \in Nat
         /\ EstimateTokens(a + b) <= EstimateTokens(a) + EstimateTokens(b) + 1
         /\ EstimateTokens(3 + 4 * a) = a
  BY DEF EstimateTokens

PromptWithin(p) == p.tokens <= p.limit + 1 \/ (p.data = 0 /\ p.bare >= p.limit)

(* Whatever the sizes of the plan and of the texts, the prompt has its     *)
(* limit and a token at most, or nothing that could be left out.           *)
LEMMA PromptProperties ==
  ASSUME NEW tpl \in PromptTemplates, NEW p, p.sections \in SectionsOf(PlanNames, PlanTypes),
         NEW research \in Nat, NEW data \in Nat, NEW designed \in BOOLEAN
  PROVE  PromptWithin(GeneratePrompt(tpl, p, research, data, designed))
<1> DEFINE base == tpl.user + FormatPlan(p) + (IF tpl.told THEN research ELSE 0)
           room(d) == IF tpl.told THEN d ELSE 0
           tokens(d) == EstimateTokens(tpl.system) + EstimateTokens(base + room(d))
           whole == tokens(data + FormatDesign(designed))
           left == tpl.recommended - tokens(0)
           kept == IF left > 0 THEN TruncateToTokenLimit(data, left) ELSE 0
           r == GeneratePrompt(tpl, p, research, data, designed)
<1>0. tpl.user \in Nat /\ tpl.system \in Nat /\ tpl.recommended \in Nat /\ tpl.told \in BOOLEAN
  <2>1. tpl = ClaudeTemplate \/ tpl = OpenAITemplate \/ tpl = GroqTemplate \/ tpl = LocalTemplate
    BY DEF PromptTemplates
  <2>2. CASE tpl = ClaudeTemplate
    BY <2>2 DEF ClaudeTemplate
  <2>3. CASE tpl = OpenAITemplate
    BY <2>3 DEF OpenAITemplate
  <2>4. CASE tpl = GroqTemplate
    BY <2>4 DEF GroqTemplate
  <2>5. CASE tpl = LocalTemplate
    BY <2>5 DEF LocalTemplate
  <2> QED
    BY <2>1, <2>2, <2>3, <2>4, <2>5
<1>1. base \in Nat
  BY <1>0, FormatPlanType
<1>2. r = IF whole <= tpl.recommended
            THEN [tokens |-> whole, limit |-> tpl.recommended, bare |-> tokens(0),
                  data |-> data, design |-> designed]
            ELSE [tokens |-> tokens(kept), limit |-> tpl.recommended, bare |-> tokens(0),
                  data |-> kept, design |-> FALSE]
  BY DEF GeneratePrompt
<1> HIDE DEF r, base
<1>3. \A d \in Nat : room(d) \in Nat /\ tokens(d) \in Nat
  <2>1. EstimateTokens(tpl.system) \in Nat
    BY <1>0, QuarterOfSum
  <2>2. \A d \in Nat : room(d) \in Nat
    BY <1>0
  <2>3. \A d \in Nat : EstimateTokens(base + room(d)) \in Nat
    <3>1. ASSUME NEW d \in Nat PROVE EstimateTokens(base + room(d)) \in Nat
      <4>1. base + room(d) \in Nat
        BY <1>1, <2>2
      <4> QED
        BY <4>1 DEF EstimateTokens
    <3> QED
      BY <3>1
  <2> QED
    BY <2>1, <2>2, <2>3
<1> DEFINE a == EstimateTokens(tpl.system)
           b == EstimateTokens(base)
<1>8. a \in Nat /\ b \in Nat /\ tokens(0) = a + b
  <2>1. base + room(0) = base
    BY <1>1
  <2> QED
    BY <2>1, <1>0, <1>1, QuarterOfSum
<1>4. CASE whole <= tpl.recommended
  <2>1. r.tokens = whole /\ r.limit = tpl.recommended
    BY <1>2, <1>4
  <2>2. whole \in Nat
    <3>1. data + FormatDesign(designed) \in Nat
      BY DEF FormatDesign
    <3> QED
      BY <3>1, <1>3
  <2> HIDE DEF whole
  <2>3. r.tokens <= r.limit + 1
    BY <1>0, <1>4, <2>1, <2>2
  <2> QED
    BY <2>3 DEF PromptWithin, r
<1>5. CASE ~(whole <= tpl.recommended) /\ ~(left > 0)
  <2>1. r.data = 0 /\ r.limit = tpl.recommended /\ r.bare = a + b
    BY <1>2, <1>5, <1>8
  <2>2. a + b >= tpl.recommended
    BY <1>0, <1>5, <1>8
  <2> QED
    BY <2>1, <2>2 DEF PromptWithin, r
<1>6. CASE ~(whole <= tpl.recommended) /\ left > 0
  <2>1. r.tokens = tokens(kept) /\ r.limit = tpl.recommended /\ kept = TruncateToTokenLimit(data, left)
    BY <1>2, <1>6
  <2>2. left \in Nat /\ left = tpl.recommended - (a + b)
    BY <1>0, <1>6, <1>8
  <2> DEFINE c == EstimateTokens(kept)
  <2>3. kept \in Nat /\ c \in Nat /\ c <= left
    <3> HIDE DEF left
    <3>1. CASE EstimateTokens(data) <= left
      <4>1. kept = data
        BY <3>1, <2>1 DEF TruncateToTokenLimit
      <4> HIDE DEF kept
      <4> QED
        BY <4>1, <3>1, QuarterOfSum
    <3>2. CASE ~(EstimateTokens(data) <= left)
      <4>1. kept = 3 + 4 * left
        BY <3>2, <2>1 DEF TruncateToTokenLimit
      <4> HIDE DEF kept
      <4>2. EstimateTokens(3 + 4 * left) = left
        BY <2>2, QuarterOfSum
      <4> QED
        BY <4>1, <4>2, <2>2
    <3> QED
      BY <3>1, <3>2
  <2> HIDE DEF kept, left
  <2>4. EstimateTokens(base + room(kept)) <= b + c + 1
    <3>1. CASE tpl.told
      BY <3>1, <1>1, <2>3, QuarterOfSum
    <3>2. CASE ~tpl.told
      <4>1. base + room(kept) = base
        BY <3>2, <1>1
      <4> QED
        BY <4>1, <1>8, <2>3
    <3> QED
      BY <3>1, <3>2
  <2>5. r.tokens = a + EstimateTokens(base + room(kept)) /\ EstimateTokens(base + room(kept)) \in Nat
    <3>1. base + room(kept) \in Nat
      BY <1>1, <1>3, <2>3
    <3>2. EstimateTokens(base + room(kept)) \in Nat
      BY <3>1 DEF EstimateTokens
    <3> QED
      BY <2>1, <3>2
  <2> HIDE DEF a, b, c, room, tokens
  <2>6. r.tokens <= r.limit + 1
    <3> DEFINE y == EstimateTokens(base + room(kept))
    <3>1. /\ a \in Nat /\ b \in Nat /\ c \in Nat /\ y \in Nat /\ tpl.recommended \in Nat
          /\ y <= b + c + 1 /\ c <= tpl.recommended - (a + b) /\ r.tokens = a + y /\ r.limit = tpl.recommended
      BY <1>0, <1>8, <2>1, <2>2, <2>3, <2>4, <2>5
    <3> HIDE DEF y
    <3> QED
      BY <3>1
  <2> QED
    BY <2>6 DEF PromptWithin, r
<1> QED
  BY <1>4, <1>5, <1>6

StoryInv ==
  /\ step \in {"storyboard", "prompt", "done"}
  /\ template \in Templates
  /\ Planned => PlanKeeps(plan, template)
  /\ step = "done" => PromptWithin(prompt)

LEMMA StoryInvariant == StorySpec => []StoryInv
<1>1. StoryInit => StoryInv
  BY DEF StoryInit, StoryInv, Planned
<1>2. StoryInv /\ [StoryNext]_storyVars => StoryInv'
  <2>1. SUFFICES ASSUME StoryInv, [StoryNext]_storyVars PROVE StoryInv'
    OBVIOUS
  <2>2. CASE Storyboard
    <3>1. PICK words \in {5, 20, 40}, signals \in BOOLEAN :
            plan' = PresentationPlan(TopicComplexity(words, signals), template)
      BY <2>2 DEF Storyboard
    <3>2. TopicComplexity(words, signals) \in Complexity
      BY DEF TopicComplexity, Complexity
    <3>3. PlanKeeps(plan', template)
      BY <2>1, <3>1, <3>2, PlanProperties DEF StoryInv
    <3>4. step' = "prompt" /\ template' = template /\ prompt' = prompt
      BY <2>2 DEF Storyboard
    <3>5. template' \in Templates
      BY <2>1, <3>4 DEF StoryInv
    <3> QED
      BY <3>3, <3>4, <3>5 DEF StoryInv, Planned
  <2>3. CASE WritePrompt
    <3>1. PICK tpl \in PromptTemplates, research \in TextSizes, data \in TextSizes, designed \in BOOLEAN :
            prompt' = GeneratePrompt(tpl, plan, research, data, designed)
      BY <2>3 DEF WritePrompt
    <3>2. research \in Nat /\ data \in Nat
      BY StoryAssumption
    <3>3. step = "prompt" /\ step' = "done" /\ template' = template /\ plan' = plan
      BY <2>3 DEF WritePrompt
    <3>4. PlanKeeps(plan, template) /\ template \in Templates
      BY <2>1, <3>3 DEF StoryInv, Planned
    <3>5. plan.sections \in SectionsOf(PlanNames, PlanTypes)
      BY <3>4 DEF PlanKeeps
    <3>6. PromptWithin(prompt')
      BY <3>1, <3>2, <3>5, PromptProperties
    <3> QED
      BY <3>3, <3>4, <3>6 DEF StoryInv, Planned
  <2>4. CASE UNCHANGED storyVars
    BY <2>1, <2>4 DEF StoryInv, storyVars, Planned
  <2> QED
    BY <2>1, <2>2, <2>3, <2>4 DEF StoryNext
<1> QED
  BY <1>1, <1>2, PTL DEF StorySpec

(* A plan has no three slides of a type in a row, a slide of the template  *)
(* keeps its type unless the two before it have it, and its sections keep  *)
(* their slides: for every template and topic (_run_storyboarding).        *)
THEOREM PlansFollowTemplates == StorySpec => []PlanFollowsTemplate
<1>1. StoryInv => PlanFollowsTemplate
  <2>1. SUFFICES ASSUME StoryInv, Planned
        PROVE  /\ Varied(AllTypes(plan.sections))
               /\ template # <<>> => KeepsTemplate(template, AllTypes(plan.sections),
                                                   AllTypes(TemplateSections(template)), plan.sections)
    BY DEF PlanFollowsTemplate, Varied, KeepsTemplate
  <2> QED
    BY <2>1 DEF StoryInv, PlanKeeps
<1> QED
  BY <1>1, StoryInvariant, PTL

(* A prompt is as long as its provider recommends, and a token at most, or *)
(* it has lost all its data and the rest alone is too long: for every plan *)
(* and all sizes of the findings and of the data (generate_prompt).        *)
THEOREM PromptsFit == StorySpec => []PromptFits
<1>1. StoryInv => PromptFits
  BY DEF StoryInv, PromptFits, PromptWithin
<1> QED
  BY <1>1, StoryInvariant, PTL

-----------------------------------------------------------------------------
(* The passes of the validation agent, slide by slide.                     *)

LEMMA SlideFields ==
  ASSUME NEW s \in Slide
  PROVE  /\ s.of \in Nat /\ s.number \in Nat /\ s.bare \in BOOLEAN
         /\ s.type \in SlideTypes \cup {"absent", "other"} /\ s.hint \in Hints \cup {"absent", "other"}
         /\ s.title \in [words : Nat, kind : {"plain", "chart", "table", "absent"}, section : 0 .. 7]
         /\ s.title.words \in Nat /\ s.title.section \in 0 .. 7
         /\ s.bullets \in SUBSET Seq(Bullet) /\ s.chart \in Charts /\ s.table \in Tables
         /\ s.comparison \in Comparisons /\ s.metric \in BOOLEAN /\ s.highlight \in Nat
         /\ s.subtitle \in Nat /\ s.icon \in BOOLEAN
         /\ s.root.bullets \in SUBSET Seq(Bullet) /\ s.root.panel \in Seq(Bullet) /\ s.root.chart \in Charts
         /\ s.root.table \in Tables /\ s.root.comparison \in Comparisons /\ s.root.metric \in BOOLEAN
  BY DEF Slide

(* What a slide has of its bullets.                                        *)
LEMMA BulletsOfOne == ASSUME NEW s, NEW b, s.bullets = {b} PROVE Bullets(s) = b
<1>1. Bullets(s) = CHOOSE x \in {b} : TRUE
  BY DEF Bullets
<1> QED
  BY <1>1

LEMMA BulletsType ==
  ASSUME NEW s, s.bullets \in SUBSET Seq(Bullet)
  PROVE  Bullets(s) \in Seq(Bullet)
<1>1. CASE s.bullets = {}
  BY <1>1 DEF Bullets
<1>2. CASE s.bullets # {}
  <2>1. \E b \in s.bullets : TRUE
    BY <1>2
  <2>2. (CHOOSE b \in s.bullets : TRUE) \in s.bullets
    BY <2>1
  <2> QED
    BY <2>2, <1>2 DEF Bullets
<1> QED
  BY <1>1, <1>2

LEMMA OneListIs == ASSUME NEW S, OneList(S), S # {} PROVE \E x : S = {x}
  BY DEF OneList

LEMMA NamesProperties ==
  ASSUME NEW bs \in Seq(Bullet)
  PROVE  /\ Names(bs) \in Seq(Nat) /\ Len(Names(bs)) = Len(bs) /\ Len(bs) \in Nat
         /\ \A i \in 1 .. Len(bs) : Names(bs)[i] = bs[i].name
<1> DEFINE n == Len(bs)
<1>1. n \in Nat /\ DOMAIN bs = 1 .. n /\ \A i \in 1 .. n : bs[i] \in Bullet
  OBVIOUS
<1>2. \A i \in 1 .. n : bs[i].name \in Nat
  BY <1>1 DEF Bullet
<1> QED
  BY <1>1, <1>2 DEF Names

LEMMA PrefixIf ==
  ASSUME NEW A, NEW s \in Seq(A), NEW t \in Seq(A), Len(s) <= Len(t), \A i \in 1 .. Len(s) : s[i] = t[i]
  PROVE  IsPrefix(s, t)
<1>1. Len(s) \in Nat /\ Len(t) \in Nat
  OBVIOUS
<1>2. /\ SubSeq(s, 1, Len(s)) \in Seq(A) /\ Len(SubSeq(s, 1, Len(s))) = Len(s)
      /\ \A i \in 1 .. Len(s) : SubSeq(s, 1, Len(s))[i] = s[i]
  BY <1>1
<1>3. /\ SubSeq(t, 1, Len(s)) \in Seq(A) /\ Len(SubSeq(t, 1, Len(s))) = Len(s)
      /\ \A i \in 1 .. Len(s) : SubSeq(t, 1, Len(s))[i] = t[i]
  BY <1>1
<1>4. SubSeq(s, 1, Len(s)) = SubSeq(t, 1, Len(s))
  BY <1>2, <1>3, SeqEqual
<1> QED
  BY <1>4 DEF IsPrefix

LEMMA PrefixOnlyIf ==
  ASSUME NEW A, NEW s \in Seq(A), NEW t \in Seq(A), IsPrefix(s, t)
  PROVE  Len(s) <= Len(t) /\ \A i \in 1 .. Len(s) : s[i] = t[i]
<1>1. Len(s) \in Nat /\ Len(t) \in Nat /\ Len(s) <= Len(t) /\ SubSeq(s, 1, Len(s)) = SubSeq(t, 1, Len(s))
  BY DEF IsPrefix
<1>2. \A i \in 1 .. Len(s) : SubSeq(s, 1, Len(s))[i] = s[i] /\ SubSeq(t, 1, Len(s))[i] = t[i]
  BY <1>1
<1> QED
  BY <1>1, <1>2

(* The first n, and the others.                                            *)
LEMMA FirstProperties ==
  ASSUME NEW A, NEW s \in Seq(A), NEW n \in Nat
  PROVE  /\ FirstOf(s, n) \in Seq(A) /\ Len(FirstOf(s, n)) = AtMost(Len(s), n)
         /\ AtMost(Len(s), n) \in Nat /\ AtMost(Len(s), n) <= n /\ AtMost(Len(s), n) <= Len(s)
         /\ \A i \in 1 .. AtMost(Len(s), n) : FirstOf(s, n)[i] = s[i]
         /\ Len(s) <= n => AtMost(Len(s), n) = Len(s)
         /\ Len(s) > n => AtMost(Len(s), n) = n
<1> DEFINE m == AtMost(Len(s), n)
<1>1. /\ Len(s) \in Nat /\ m \in Nat /\ m <= n /\ m <= Len(s) /\ (Len(s) <= n => m = Len(s))
      /\ (Len(s) > n => m = n)
  BY DEF AtMost
<1> HIDE DEF m
<1>2. /\ SubSeq(s, 1, m) \in Seq(A) /\ Len(SubSeq(s, 1, m)) = m
      /\ \A i \in 1 .. m : SubSeq(s, 1, m)[i] = s[i]
  BY <1>1
<1> QED
  BY <1>1, <1>2 DEF FirstOf, m

LEMMA AfterProperties ==
  ASSUME NEW A, NEW s \in Seq(A), NEW n \in Nat, n <= Len(s)
  PROVE  /\ AfterFirst(s, n) \in Seq(A) /\ Len(AfterFirst(s, n)) = Len(s) - n
         /\ \A i \in 1 .. Len(s) - n : AfterFirst(s, n)[i] = s[n + i]
<1> DEFINE m == Len(s)
<1>1. m \in Nat /\ n + 1 \in Nat /\ n + 1 >= 1
  OBVIOUS
<1>2. /\ SubSeq(s, n + 1, m) \in Seq(A) /\ Len(SubSeq(s, n + 1, m)) = m - n
      /\ \A i \in 1 .. m - n : SubSeq(s, n + 1, m)[i] = s[n + i]
  BY <1>1
<1> QED
  BY <1>2 DEF AfterFirst

(* A slide of the LLM, and what the passes make of it one after the other. *)
GivenSlide(g, i) == g \in Slide /\ g.of = i /\ OneList(g.bullets) /\ OneList(g.root.bullets)
Drafted(s, i) == s \in Slide /\ s.of = i /\ OneList(s.bullets)
Opening(s) == s.type = "title" /\ s.chart = "none" /\ s.table = "none" /\ s.comparison = "none"
HasAll(s, g) == ~Shadowed(g) => Names(Bullets(s)) = GivenBullets(g)
Filled(s, g) == /\ s.table \in {"norows", "stray"} => GivenRowless(g)
                /\ s.comparison = "oldhollow" => GivenHollow(g)
HasFirst(s, g) ==
  ~Shadowed(g) => IF s.type = "title"
                  THEN IsPrefix(FirstOf(GivenBullets(g), MaxBullets), Names(Bullets(s)))
                  ELSE IsPrefix(GivenBullets(g), Names(Bullets(s)))

LEMMA GivenBulletsType ==
  ASSUME NEW i, NEW g, GivenSlide(g, i)
  PROVE  GivenBullets(g) \in Seq(Nat)
<1> DEFINE b == Bullets(g)
           r == Bullets(g.root)
           l == IF b # <<>> THEN b ELSE IF r # <<>> THEN r ELSE g.root.panel
<1>1. /\ g.bullets \in SUBSET Seq(Bullet) /\ g.root.bullets \in SUBSET Seq(Bullet)
      /\ g.root.panel \in Seq(Bullet)
  BY SlideFields DEF GivenSlide
<1>2. b \in Seq(Bullet) /\ r \in Seq(Bullet)
  BY <1>1, BulletsType
<1> HIDE DEF b, r
<1>3. l \in Seq(Bullet)
  BY <1>1, <1>2
<1>4. GivenBullets(g) = Names(l)
  BY DEF GivenBullets, b, r
<1> HIDE DEF l
<1> QED
  BY <1>3, <1>4, NamesProperties

(* The bullets of a field.                                                 *)
ListIn(lists) == IF lists = {} THEN <<>> ELSE CHOOSE b \in lists : TRUE
LEMMA BulletsIn == \A s : Bullets(s) = ListIn(s.bullets)
  BY DEF Bullets, ListIn

LEMMA NormalisedKeeps ==
  ASSUME NEW i, NEW g, GivenSlide(g, i)
  PROVE  Drafted(Normalised(g), i) /\ HasAll(Normalised(g), g) /\ Filled(Normalised(g), g)
<1> DEFINE moved == IF g.bullets = {} THEN g.root.bullets ELSE g.bullets
           empty == moved \in {{}, {<<>>}}
           lists == IF empty /\ g.root.panel # <<>> THEN {g.root.panel} ELSE moved
           s == Normalised(g)
<1>1. g \in Slide /\ g.of = i /\ OneList(g.bullets) /\ OneList(g.root.bullets)
  BY DEF GivenSlide
<1>2. g.root.panel \in Seq(Bullet) /\ moved \in SUBSET Seq(Bullet) /\ OneList(moved)
  BY <1>1, SlideFields
<1>3. s = [g EXCEPT !.bullets = lists, !.chart = Else(@, g.root.chart), !.table = Else(@, RootTable(g.root)),
                    !.comparison = Else(@, RootComparison(g.root)), !.metric = @ \/ g.root.metric,
                    !.root = NoRoot]
  BY DEF Normalised
<1>4. lists \in SUBSET Seq(Bullet) /\ OneList(lists)
  BY <1>2 DEF OneList
<1>5. /\ Else(g.chart, g.root.chart) \in Charts /\ Else(g.table, RootTable(g.root)) \in Tables
      /\ Else(g.comparison, RootComparison(g.root)) \in Comparisons /\ (g.metric \/ g.root.metric) \in BOOLEAN
  BY <1>1, SlideFields DEF Else, RootTable, RootComparison, Charts, Tables, Comparisons
<1>6. NoRoot \in [bullets : SUBSET Seq(Bullet), panel : Seq(Bullet), chart : Charts,
                  table : Tables, comparison : Comparisons, metric : BOOLEAN]
  BY DEF NoRoot, Charts, Tables, Comparisons
<1> HIDE DEF lists, s
<1>7. s \in Slide /\ s.of = i /\ s.bullets = lists
  BY <1>1, <1>3, <1>4, <1>5, <1>6 DEF Slide
<1>9. Filled(s, g)
  <2>1. s.table = Else(g.table, RootTable(g.root)) /\ s.comparison = Else(g.comparison, RootComparison(g.root))
    BY <1>1, <1>3 DEF Slide
  <2> QED
    BY <2>1 DEF Filled, Else, RootTable, RootComparison, GivenRowless, GivenHollow
<1>8. ASSUME ~Shadowed(g) PROVE Names(Bullets(s)) = GivenBullets(g)
  <2> DEFINE panel == g.root.panel
             b == Bullets(g)
             r == Bullets(g.root)
             m == ListIn(moved)
             l == IF m = <<>> THEN panel ELSE m
  <2>1. (moved = {} => m = <<>>) /\ (\A x : moved = {x} => m = x)
    <3>1. \A x : (CHOOSE y \in {x} : TRUE) = x
      OBVIOUS
    <3> QED
      BY <3>1 DEF ListIn
  <2>2. moved = {} \/ \E x : moved = {x}
    BY <1>2, OneListIs
  <2>3. empty <=> m = <<>>
    <3> HIDE DEF m, moved
    <3>1. CASE moved = {}
      BY <2>1, <3>1
    <3>2. ASSUME NEW x, moved = {x} PROVE empty <=> m = <<>>
      BY <2>1, <3>2
    <3> QED
      BY <2>2, <3>1, <3>2
  <2>4. Bullets(s) = l
    <3> HIDE DEF m, moved
    <3>1. CASE m = <<>> /\ panel # <<>>
      <4>1. lists = {panel} /\ l = panel
        BY <2>3, <3>1 DEF lists
      <4> QED
        BY <4>1, <1>7, BulletsOfOne
    <3>2. CASE m = <<>> /\ panel = <<>>
      <4>1. lists = moved /\ l = <<>> /\ moved \in {{}, {<<>>}}
        BY <2>3, <3>2 DEF lists
      <4>2. CASE moved = {}
        BY <4>1, <4>2, <1>7 DEF Bullets
      <4>3. CASE moved = {<<>>}
        BY <4>1, <4>3, <1>7, BulletsOfOne
      <4> QED
        BY <4>1, <4>2, <4>3
    <3>3. CASE m # <<>>
      <4>1. PICK x : moved = {x}
        BY <2>1, <2>2, <3>3
      <4>2. lists = {m} /\ l = m
        BY <2>1, <2>3, <3>3, <4>1 DEF lists
      <4> QED
        BY <4>2, <1>7, BulletsOfOne
    <3> QED
      BY <3>1, <3>2, <3>3
  <2>5. GivenBullets(g) = Names(IF b # <<>> THEN b ELSE IF r # <<>> THEN r ELSE panel)
    BY DEF GivenBullets
  <2>6. l = IF b # <<>> THEN b ELSE IF r # <<>> THEN r ELSE panel
    <3>1. CASE g.bullets = {}
      <4>1. b = <<>> /\ moved = g.root.bullets
        BY <3>1 DEF Bullets
      <4>2. m = r
        BY <4>1, BulletsIn
      <4> HIDE DEF m, b, r, moved
      <4> QED
        BY <4>1, <4>2
    <3>2. CASE g.bullets # {}
      <4>1. moved = g.bullets
        BY <3>2
      <4>2. m = b
        BY <3>2, <4>1, BulletsIn
      <4>3. b = <<>> => r = <<>>
        <5>1. SUFFICES ASSUME b = <<>> PROVE r = <<>>
          OBVIOUS
        <5>2. PICK x : g.bullets = {x}
          BY <1>1, <3>2, OneListIs
        <5>3. b = x
          BY <5>2, BulletsOfOne
        <5> HIDE DEF b
        <5>4. g.bullets = {<<>>}
          BY <5>1, <5>2, <5>3
        <5> QED
          BY <5>4, <1>8 DEF Shadowed
      <4> HIDE DEF m, b, r, moved
      <4> QED
        BY <4>2, <4>3
    <3> QED
      BY <3>1, <3>2
  <2> HIDE DEF l
  <2> QED
    BY <2>4, <2>5, <2>6
<1> QED
  BY <1>4, <1>7, <1>8, <1>9 DEF Drafted, HasAll, s

LEMMA InferredKeeps ==
  ASSUME NEW i \in Nat, NEW s, NEW g, Drafted(s, i), HasAll(s, g), Filled(s, g)
  PROVE  /\ Drafted(TypeInferred(s, i), i) /\ HasAll(TypeInferred(s, i), g) /\ Filled(TypeInferred(s, i), g)
         /\ i = 1 => Opening(TypeInferred(s, i))
<1> DEFINE t == TypeInferred(s, i)
<1>1. s \in Slide /\ s.of = i /\ OneList(s.bullets)
  BY DEF Drafted
<1>2. /\ t \in Slide /\ t.of = i /\ t.bullets = s.bullets /\ (i = 1 => Opening(t))
      /\ t.table \in {s.table, "none"} /\ t.comparison \in {s.comparison, "none"}
  <2>1. CASE i = 1
    <3>1. t = [s EXCEPT !.type = "title", !.chart = "none", !.table = "none", !.comparison = "none"]
      BY <2>1 DEF TypeInferred
    <3> HIDE DEF t
    <3> QED
      BY <3>1, <1>1 DEF Slide, Opening, SlideTypes, Charts, Tables, Comparisons
  <2>2. CASE i # 1 /\ s.type \in {"content", "absent"}
    <3>1. t = [s EXCEPT !.type = Inferred(s)]
      BY <2>2 DEF TypeInferred
    <3>2. Inferred(s) \in SlideTypes \cup {"absent", "other"}
      BY <1>1, SlideFields DEF Inferred, SlideTypes
    <3> HIDE DEF t
    <3> QED
      BY <3>1, <3>2, <2>2, <1>1 DEF Slide
  <2>3. CASE i # 1 /\ s.type \notin {"content", "absent"}
    <3>1. t = s
      BY <2>3 DEF TypeInferred
    <3> HIDE DEF t
    <3> QED
      BY <3>1, <2>3, <1>1
  <2> QED
    BY <2>1, <2>2, <2>3
<1> HIDE DEF t
<1>3. Bullets(t) = Bullets(s)
  BY <1>2 DEF Bullets
<1>4. Filled(t, g)
  BY <1>2 DEF Filled
<1> QED
  BY <1>1, <1>2, <1>3, <1>4 DEF Drafted, HasAll, t

LEMMA CorrectedKeeps ==
  ASSUME NEW i, NEW s, NEW g, Drafted(s, i), HasAll(s, g), Filled(s, g)
  PROVE  /\ Drafted(Corrected(s), i) /\ HasAll(Corrected(s), g) /\ Filled(Corrected(s), g)
         /\ Corrected(s).type \in SlideTypes
         /\ Opening(s) => Opening(Corrected(s))
<1> DEFINE type == KnownType(s.type)
           t == Corrected(s)
<1>1. s \in Slide /\ s.of = i /\ OneList(s.bullets)
  BY DEF Drafted
<1>2. type \in SlideTypes /\ (s.type = "title" => type = "title")
  BY <1>1, SlideFields DEF KnownType, SlideTypes
<1> DEFINE title == IF s.title.kind = "absent" THEN [words |-> 2, kind |-> "plain", section |-> 0] ELSE s.title
           hint == KnownHint(s.hint, type)
           chart == ListedChart(s.chart, type)
           table == HeadedTable(s.table, type)
           comparison == ColumnComparison(s.comparison, type)
<1>3. t = [s EXCEPT !.bare = FALSE, !.type = type, !.title = title, !.hint = hint,
                    !.chart = chart, !.table = table, !.comparison = comparison]
  BY <1>1, SlideFields DEF Corrected, Slide
<1> HIDE DEF type, t
<1>4. title \in [words : Nat, kind : {"plain", "chart", "table", "absent"}, section : 0 .. 7]
  BY <1>1, SlideFields
<1>5. hint \in Hints \cup {"absent", "other"}
  <2>1. DefaultHint(type) \in Hints
    BY <1>2 DEF DefaultHint, TypeToHint, Hints
  <2>2. "bullet-left" \in Hints
    BY DEF Hints
  <2>3. s.hint \in Hints \cup {"absent", "other"}
    BY <1>1, SlideFields
  <2> QED
    BY <2>1, <2>2, <2>3 DEF KnownHint
<1>6. chart \in Charts /\ table \in Tables /\ comparison \in Comparisons
  BY <1>1, SlideFields DEF ListedChart, HeadedTable, ColumnComparison, Charts, Tables, Comparisons
<1>7. type = "title" => chart = s.chart /\ table = s.table /\ comparison = s.comparison
  BY DEF ListedChart, HeadedTable, ColumnComparison
<1>12. table \in {s.table, "made"} /\ comparison \in {s.comparison, "made"}
  BY DEF HeadedTable, ColumnComparison
<1> HIDE DEF title, hint, chart, table, comparison
<1>8. t \in Slide /\ t.of = i /\ t.bullets = s.bullets
  BY <1>1, <1>2, <1>3, <1>4, <1>5, <1>6 DEF Slide
<1>9. t.type = type /\ t.chart = chart /\ t.table = table /\ t.comparison = comparison
  BY <1>1, <1>3 DEF Slide
<1>10. Bullets(t) = Bullets(s)
  BY <1>8 DEF Bullets
<1>11. Opening(s) => Opening(t)
  BY <1>2, <1>7, <1>9 DEF Opening
<1>13. Filled(t, g)
  BY <1>9, <1>12 DEF Filled
<1> QED
  BY <1>1, <1>2, <1>8, <1>9, <1>10, <1>11, <1>13 DEF Drafted, HasAll, t

LEMMA MadeProperties ==
  ASSUME NEW n \in Nat
  PROVE  MadeBullets(n) \in Seq(Bullet) /\ Len(MadeBullets(n)) = n
<1>1. MadeBullet(5) \in Bullet
  BY DEF MadeBullet, Bullet
<1> QED
  BY <1>1 DEF MadeBullets

(* Every type gets what it must have, after what it has.                   *)
LEMMA EnoughProperties ==
  ASSUME NEW s \in Slide, s.type \in SlideTypes
  PROVE  /\ EnoughBullets(s) \in Seq(Bullet)
         /\ s.type = "title" => EnoughBullets(s) = FirstOf(Bullets(s), MaxBullets)
         /\ s.type # "title" => /\ Len(Bullets(s)) <= Len(EnoughBullets(s))
                                /\ \A i \in 1 .. Len(Bullets(s)) : EnoughBullets(s)[i] = Bullets(s)[i]
         /\ s.type = "content" => Len(EnoughBullets(s)) >= MinBullets
<1> DEFINE b == Bullets(s)
           e == EnoughBullets(s)
<1>0. MinBullets \in 0 .. 4 /\ MaxBullets \in Nat
  BY DeckAssumption
<1>1. b \in Seq(Bullet) /\ Len(b) \in Nat /\ s.title.words \in Nat
  BY SlideFields, BulletsType
<1> HIDE DEF b
<1>2. CASE s.type = "title"
  <2>1. e = FirstOf(b, MaxBullets)
    BY <1>2 DEF EnoughBullets, b
  <2>2. FirstOf(b, MaxBullets) \in Seq(Bullet)
    BY <1>0, <1>1, FirstProperties
  <2> QED
    BY <1>2, <2>1, <2>2 DEF b
<1>3. CASE s.type = "content" /\ b = <<>>
  <2> DEFINE first == <<MadeBullet(2 + s.title.words)>>
             others == MadeBullets(3)
  <2>1. e = first \o others
    BY <1>3 DEF EnoughBullets, b
  <2>2. first \in Seq(Bullet) /\ Len(first) = 1
    BY <1>1 DEF MadeBullet, Bullet
  <2>3. others \in Seq(Bullet) /\ Len(others) = 3
    BY MadeProperties
  <2> HIDE DEF first, others
  <2>4. first \o others \in Seq(Bullet) /\ Len(first \o others) = Len(first) + Len(others)
    BY <2>2, <2>3, ConcatPlaces
  <2> HIDE DEF e
  <2>5. e \in Seq(Bullet) /\ Len(e) >= MinBullets /\ Len(b) <= Len(e) /\ 1 .. Len(b) = {}
    BY <1>0, <1>3, <2>1, <2>2, <2>3, <2>4
  <2> QED
    BY <1>3, <2>5 DEF b, e
<1>4. CASE s.type = "content" /\ b # <<>>
  <2> DEFINE k == IF Len(b) < MinBullets THEN MinBullets - Len(b) ELSE 0
             made == MadeBullets(k)
  <2>1. e = b \o made
    BY <1>4 DEF EnoughBullets, b
  <2>2. k \in Nat /\ Len(b) + k >= MinBullets
    BY <1>0, <1>1
  <2> HIDE DEF k
  <2>3. made \in Seq(Bullet) /\ Len(made) = k
    BY <2>2, MadeProperties
  <2> HIDE DEF made, e
  <2>4. e \in Seq(Bullet) /\ Len(e) = Len(b) + k /\ \A i \in 1 .. Len(b) : e[i] = b[i]
    BY <1>1, <2>1, <2>3, ConcatPlaces
  <2> QED
    BY <1>1, <1>4, <2>2, <2>4 DEF b, e
<1>5. CASE s.type \notin {"title", "content"}
  <2>1. e = IF b = <<>> THEN MadeBullets(IF s.type \in {"chart", "metric"} THEN 3 ELSE 2) ELSE b
    BY <1>5 DEF EnoughBullets, b, SlideTypes
  <2>2. MadeBullets(3) \in Seq(Bullet) /\ MadeBullets(2) \in Seq(Bullet)
    BY MadeProperties
  <2> HIDE DEF e
  <2>3. CASE b = <<>>
    <3>1. e \in Seq(Bullet) /\ Len(b) = 0 /\ Len(e) \in Nat /\ 1 .. Len(b) = {}
      BY <2>1, <2>2, <2>3
    <3> QED
      BY <1>5, <3>1 DEF b, e
  <2>4. CASE b # <<>>
    BY <1>1, <1>5, <2>1, <2>4 DEF b, e
  <2> QED
    BY <2>3, <2>4
<1> QED
  BY <1>2, <1>3, <1>4, <1>5

(* A slide that is complete: what a pass after it may still cut is not     *)
(* what makes it one.                                                      *)
Complete(s, g) == /\ s.type \in SlideTypes /\ s.hint = TypeToHint[s.type] /\ Renders(s, g)

LEMMA CompletedKeeps ==
  ASSUME NEW i, NEW s, NEW g, Drafted(s, i), GivenSlide(g, i), HasAll(s, g), Filled(s, g),
         s.type \in SlideTypes
  PROVE  /\ Drafted(Completed(s), i) /\ HasFirst(Completed(s), g) /\ Complete(Completed(s), g)
         /\ Opening(s) => Opening(Completed(s))
<1> DEFINE t == Completed(s)
           e == EnoughBullets(s)
           chart == IF s.type = "chart" THEN CompleteChart(s.chart) ELSE s.chart
           table == IF s.type = "table" THEN CompleteTable(s.table) ELSE s.table
           comparison == IF s.type = "comparison" THEN CompleteComparison(s.comparison) ELSE s.comparison
           metric == s.metric \/ s.type = "metric"
           highlight == IF s.type # "title" /\ s.highlight = 0 THEN 2 + s.title.words ELSE s.highlight
           subtitle == IF s.type = "title" THEN CompleteSubtitle(s.subtitle, Bullets(s)) ELSE s.subtitle
<1>0. MaxBullets \in Nat
  BY DeckAssumption
<1>1. s \in Slide /\ s.of = i
  BY DEF Drafted
<1>2. t = [s EXCEPT !.hint = TypeToHint[s.type], !.bullets = {e}, !.chart = chart, !.table = table,
                    !.comparison = comparison, !.metric = metric, !.highlight = highlight, !.subtitle = subtitle]
  BY <1>1, SlideFields DEF Completed, Slide
<1> HIDE DEF t
<1>3. /\ e \in Seq(Bullet)
      /\ s.type = "title" => e = FirstOf(Bullets(s), MaxBullets)
      /\ s.type # "title" => /\ Len(Bullets(s)) <= Len(e)
                             /\ \A k \in 1 .. Len(Bullets(s)) : e[k] = Bullets(s)[k]
      /\ s.type = "content" => Len(e) >= MinBullets
  BY <1>1, EnoughProperties
<1> HIDE DEF e
<1>4. /\ chart \in Charts /\ table \in Tables /\ comparison \in Comparisons
      /\ metric \in BOOLEAN /\ highlight \in Nat /\ subtitle \in Nat
      /\ TypeToHint[s.type] \in Hints
  BY <1>1, SlideFields, DeckAssumption
     DEF CompleteSubtitle, AtMost, CompleteChart, CompleteTable, CompleteComparison, Charts, Tables, Comparisons, TypeToHint, Hints, SlideTypes
<1>5. /\ s.type = "chart" => chart \notin {"none", "categories"}
      /\ s.type = "table" => table # "none" /\ (table \in {"good", "made"} \/ GivenRowless(g))
      /\ s.type = "comparison" => /\ comparison \in {"columns", "made", "hollow"}
                                  /\ comparison # "hollow" \/ GivenHollow(g)
      /\ s.type = "metric" => metric
      /\ s.type = "title" => chart = s.chart /\ table = s.table /\ comparison = s.comparison
  <2>1. s.chart \in Charts /\ s.table \in Tables /\ s.comparison \in Comparisons
    BY <1>1, SlideFields
  <2>2. CompleteChart(s.chart) \notin {"none", "categories"}
    BY DEF CompleteChart
  <2>3. /\ CompleteTable(s.table) # "none"
        /\ CompleteTable(s.table) \in {"good", "made"} \/ GivenRowless(g)
    BY <2>1 DEF CompleteTable, Tables, Filled
  <2>4. /\ CompleteComparison(s.comparison) \in {"columns", "made", "hollow"}
        /\ CompleteComparison(s.comparison) # "hollow" \/ GivenHollow(g)
    BY <2>1 DEF CompleteComparison, Comparisons, Filled
  <2> QED
    BY <2>2, <2>3, <2>4
<1> HIDE DEF chart, table, comparison, metric, highlight, subtitle
<1>6. t \in Slide /\ t.of = i /\ t.bullets = {e}
  BY <1>1, <1>2, <1>3, <1>4 DEF Slide
<1>7. /\ t.type = s.type /\ t.hint = TypeToHint[s.type] /\ t.chart = chart /\ t.table = table
      /\ t.comparison = comparison /\ t.metric = metric
  BY <1>1, <1>2 DEF Slide
<1>8. Bullets(t) = e
  BY <1>6, BulletsOfOne
<1>9. Renders(t, g)
  <2> DEFINE f == Flattened(t)
  <2>1. f = [type |-> t.type, bullets |-> e, chart |-> chart # "none", table |-> table # "none",
             cells |-> table \in {"good", "made"}, columns |-> comparison \in {"columns", "made", "hollow"},
             metric |-> metric]
    BY <1>7, <1>8 DEF Flattened
  <2>2. /\ f.type = s.type /\ f.bullets = e /\ f.chart = (chart # "none") /\ f.table = (table # "none")
        /\ f.cells = (table \in {"good", "made"}) /\ f.columns = (comparison \in {"columns", "made", "hollow"})
        /\ f.metric = metric
    BY <2>1, <1>7
  <2> HIDE DEF f
  <2>3. ShownAs(f) = t.type
    BY <1>5, <1>7, <2>2 DEF ShownAs
  <2>4. /\ t.type = "content" => Len(f.bullets) >= MinBullets
        /\ t.type = "chart" => t.chart # "categories"
        /\ t.type = "table" => f.cells \/ GivenRowless(g)
        /\ t.type = "comparison" => t.comparison # "hollow" \/ GivenHollow(g)
        /\ t.type = "metric" => f.metric
    BY <1>3, <1>5, <1>7, <2>2
  <2> QED
    BY <2>3, <2>4 DEF Renders, f
<1>10. Opening(s) => Opening(t)
  BY <1>5, <1>7 DEF Opening
<1>11. ASSUME ~Shadowed(g)
       PROVE  IF t.type = "title" THEN IsPrefix(FirstOf(GivenBullets(g), MaxBullets), Names(Bullets(t)))
              ELSE IsPrefix(GivenBullets(g), Names(Bullets(t)))
  <2> DEFINE b == Bullets(s)
             G == GivenBullets(g)
  <2>1. b \in Seq(Bullet) /\ Len(b) \in Nat
    BY <1>1, SlideFields, BulletsType
  <2>2. G = Names(b)
    BY <1>11 DEF HasAll
  <2> HIDE DEF b, G
  <2>3. /\ Names(b) \in Seq(Nat) /\ Len(Names(b)) = Len(b) /\ \A k \in 1 .. Len(b) : Names(b)[k] = b[k].name
    BY <2>1, NamesProperties
  <2>4. /\ Names(e) \in Seq(Nat) /\ Len(Names(e)) = Len(e) /\ \A k \in 1 .. Len(e) : Names(e)[k] = e[k].name
    BY <1>3, NamesProperties
  <2>5. CASE s.type = "title"
    <3> DEFINE m == AtMost(Len(b), MaxBullets)
    <3>1. /\ Len(e) = m /\ m \in Nat /\ m <= Len(b) /\ \A k \in 1 .. m : e[k] = b[k]
      <4>1. e = FirstOf(b, MaxBullets)
        BY <2>5, <1>3 DEF b
      <4>2. /\ Len(FirstOf(b, MaxBullets)) = m /\ m \in Nat /\ m <= Len(b)
            /\ \A k \in 1 .. m : FirstOf(b, MaxBullets)[k] = b[k]
        BY <1>0, <2>1, FirstProperties
      <4> QED
        BY <4>1, <4>2
    <3>2. /\ FirstOf(G, MaxBullets) \in Seq(Nat) /\ Len(FirstOf(G, MaxBullets)) = m
          /\ \A k \in 1 .. m : FirstOf(G, MaxBullets)[k] = G[k]
      <4>1. G \in Seq(Nat) /\ Len(G) = Len(b)
        BY <2>2, <2>3
      <4> QED
        BY <1>0, <4>1, FirstProperties
    <3> HIDE DEF m
    <3>3. \A k \in 1 .. m : FirstOf(G, MaxBullets)[k] = Names(e)[k]
      <4>1. ASSUME NEW k \in 1 .. m PROVE FirstOf(G, MaxBullets)[k] = Names(e)[k]
        <5>1. k \in 1 .. Len(e) /\ k \in 1 .. Len(b)
          BY <2>1, <3>1
        <5>2. Names(e)[k] = e[k].name /\ Names(b)[k] = b[k].name /\ e[k] = b[k]
          BY <2>3, <2>4, <3>1, <5>1
        <5>3. FirstOf(G, MaxBullets)[k] = Names(b)[k]
          BY <2>2, <3>2
        <5> QED
          BY <5>2, <5>3
      <4> QED
        BY <4>1
    <3>4. IsPrefix(FirstOf(G, MaxBullets), Names(e))
      BY <2>4, <3>1, <3>2, <3>3, PrefixIf
    <3> QED
      BY <2>5, <3>4, <1>7, <1>8 DEF G
  <2>6. CASE s.type # "title"
    <3>1. Len(b) <= Len(e) /\ \A k \in 1 .. Len(b) : e[k] = b[k]
      BY <2>6, <1>3 DEF b
    <3>2. Len(e) \in Nat
      BY <1>3
    <3>3. \A k \in 1 .. Len(b) : Names(b)[k] = Names(e)[k]
      <4>1. ASSUME NEW k \in 1 .. Len(b) PROVE Names(b)[k] = Names(e)[k]
        <5>1. k \in 1 .. Len(e)
          BY <2>1, <3>1, <3>2
        <5> QED
          BY <2>3, <2>4, <3>1, <5>1
      <4> QED
        BY <4>1
    <3>4. IsPrefix(Names(b), Names(e))
      BY <2>3, <2>4, <3>1, <3>3, PrefixIf
    <3> QED
      BY <2>6, <2>2, <3>4, <1>7, <1>8 DEF G
  <2> QED
    BY <2>5, <2>6
<1> QED
  BY <1>6, <1>7, <1>9, <1>10, <1>11 DEF Drafted, Complete, HasFirst, OneList, t

LEMMA FlattenFew ==
  ASSUME NEW A, NEW x \in Seq(A), NEW y \in Seq(A)
  PROVE  FlattenSeq(<<x>>) = x /\ FlattenSeq(<<x, y>>) = x \o y
<1>1. <<>> \o x = x
  OBVIOUS
<1>2. FlattenSeq(<<x>>) = x
  <2> DEFINE s == <<x>>
  <2>1. s \in Seq(Seq(A)) /\ Len(s) = 1 /\ s[1] = x
    OBVIOUS
  <2> HIDE DEF s
  <2>2. PICK f \in [0 .. Len(s) -> Seq(A)] :
            /\ f[0] = <<>> /\ \A n \in 1 .. Len(s) : f[n] = f[n - 1] \o s[n]
            /\ FlattenSeq(s) = f[Len(s)]
    BY <2>1, FlattenPrefixes
  <2>3. f[1] = f[0] \o s[1]
    <3>1. 1 \in 1 .. Len(s) /\ 1 - 1 = 0
      BY <2>1
    <3> QED
      BY <2>2, <3>1
  <2> QED
    BY <1>1, <2>1, <2>2, <2>3 DEF s
<1>3. FlattenSeq(<<x, y>>) = x \o y
  <2> DEFINE s == <<x, y>>
  <2>1. s \in Seq(Seq(A)) /\ Len(s) = 2 /\ s[1] = x /\ s[2] = y
    OBVIOUS
  <2> HIDE DEF s
  <2>2. PICK f \in [0 .. Len(s) -> Seq(A)] :
            /\ f[0] = <<>> /\ \A n \in 1 .. Len(s) : f[n] = f[n - 1] \o s[n]
            /\ FlattenSeq(s) = f[Len(s)]
    BY <2>1, FlattenPrefixes
  <2>3. f[1] = f[0] \o s[1] /\ f[2] = f[1] \o s[2]
    <3>1. 1 \in 1 .. Len(s) /\ 1 - 1 = 0 /\ 2 \in 1 .. Len(s) /\ 2 - 1 = 1
      BY <2>1
    <3> QED
      BY <2>2, <3>1
  <2> QED
    BY <1>1, <2>1, <2>2, <2>3 DEF s
<1> QED
  BY <1>2, <1>3

LEMMA CutProperties ==
  ASSUME NEW bs \in Seq(Bullet)
  PROVE  /\ CutBullets(bs) \in Seq(Bullet) /\ Len(CutBullets(bs)) = Len(bs) /\ Len(bs) \in Nat
         /\ \A k \in 1 .. Len(bs) : CutBullets(bs)[k].name = bs[k].name /\ CutBullets(bs)[k].words <= MaxWords
         /\ Names(CutBullets(bs)) = Names(bs)
<1> DEFINE n == Len(bs)
           c == CutBullets(bs)
<1>0. MaxWords \in Nat
  BY DeckAssumption
<1>1. n \in Nat /\ DOMAIN bs = 1 .. n /\ \A k \in 1 .. n : bs[k] \in Bullet
  OBVIOUS
<1>2. c = [k \in 1 .. n |-> [bs[k] EXCEPT !.words = AtMost(@, MaxWords)]]
  BY <1>1 DEF CutBullets
<1> HIDE DEF c
<1>3. ASSUME NEW k \in 1 .. n
      PROVE  c[k] \in Bullet /\ c[k].name = bs[k].name /\ c[k].words <= MaxWords
  <2>1. bs[k] \in Bullet /\ bs[k].words \in Nat
    BY <1>1 DEF Bullet
  <2>2. c[k] = [bs[k] EXCEPT !.words = AtMost(bs[k].words, MaxWords)]
    BY <1>2
  <2>3. AtMost(bs[k].words, MaxWords) \in Nat /\ AtMost(bs[k].words, MaxWords) <= MaxWords
    BY <1>0, <2>1 DEF AtMost
  <2> QED
    BY <2>1, <2>2, <2>3 DEF Bullet
<1>4. c \in Seq(Bullet) /\ Len(c) = n
  <2>1. c \in [1 .. n -> Bullet]
    <3>1. c = [k \in 1 .. n |-> c[k]]
      BY <1>2
    <3> QED
      BY <3>1, <1>3
  <2> QED
    BY <2>1, <1>1
<1>5. Names(c) = Names(bs)
  <2>1. DOMAIN c = 1 .. n
    BY <1>1, <1>4
  <2> QED
    BY <2>1, <1>1, <1>3 DEF Names
<1> QED
  BY <1>1, <1>3, <1>4, <1>5 DEF c

LEMMA NamesOfFirst ==
  ASSUME NEW bs \in Seq(Bullet), NEW n \in Nat
  PROVE  Names(FirstOf(bs, n)) = FirstOf(Names(bs), n)
<1> DEFINE f == FirstOf(bs, n)
           m == AtMost(Len(bs), n)
<1>1. /\ f \in Seq(Bullet) /\ Len(f) = m /\ m \in Nat /\ m <= Len(bs)
      /\ \A k \in 1 .. m : f[k] = bs[k]
  BY FirstProperties
<1>2. /\ Names(bs) \in Seq(Nat) /\ Len(Names(bs)) = Len(bs) /\ Len(bs) \in Nat
      /\ \A k \in 1 .. Len(bs) : Names(bs)[k] = bs[k].name
  BY NamesProperties
<1>3. /\ FirstOf(Names(bs), n) \in Seq(Nat) /\ Len(FirstOf(Names(bs), n)) = m
      /\ \A k \in 1 .. m : FirstOf(Names(bs), n)[k] = Names(bs)[k]
  <2> DEFINE s == Names(bs)
  <2>1. s \in Seq(Nat) /\ Len(s) = Len(bs)
    BY <1>2
  <2> HIDE DEF s
  <2>2. /\ FirstOf(s, n) \in Seq(Nat) /\ Len(FirstOf(s, n)) = AtMost(Len(s), n)
        /\ \A k \in 1 .. AtMost(Len(s), n) : FirstOf(s, n)[k] = s[k]
    BY <2>1, FirstProperties
  <2> QED
    BY <2>1, <2>2 DEF s
<1> HIDE DEF f, m
<1>4. /\ Names(f) \in Seq(Nat) /\ Len(Names(f)) = m /\ \A k \in 1 .. m : Names(f)[k] = f[k].name
  BY <1>1, NamesProperties
<1>5. ASSUME NEW k \in 1 .. m PROVE Names(f)[k] = FirstOf(Names(bs), n)[k]
  <2>1. k \in 1 .. Len(bs)
    BY <1>1, <1>2
  <2> QED
    BY <2>1, <1>1, <1>2, <1>3, <1>4
<1>6. Names(f) = FirstOf(Names(bs), n)
  BY <1>3, <1>4, <1>5, SeqEqual
<1> QED
  BY <1>6 DEF f

LEMMA SplitInTwo ==
  ASSUME NEW A, NEW s \in Seq(A), NEW n \in Nat, n <= Len(s)
  PROVE  FirstOf(s, n) \o AfterFirst(s, n) = s
<1> DEFINE f == FirstOf(s, n)
           a == AfterFirst(s, n)
           N == Len(s)
<1>1. f \in Seq(A) /\ Len(f) = n /\ \A k \in 1 .. n : f[k] = s[k]
  <2>1. AtMost(Len(s), n) = n
    BY DEF AtMost
  <2> QED
    BY <2>1, FirstProperties
<1>2. a \in Seq(A) /\ Len(a) = N - n /\ \A k \in 1 .. N - n : a[k] = s[n + k]
  BY AfterProperties
<1>3. N \in Nat /\ n <= N
  OBVIOUS
<1> HIDE DEF f, a, N
<1>4. /\ f \o a \in Seq(A) /\ Len(f \o a) = n + (N - n)
      /\ \A k \in 1 .. n : (f \o a)[k] = f[k]
      /\ \A k \in 1 .. N - n : (f \o a)[n + k] = a[k]
  <2>1. f \in Seq(A) /\ a \in Seq(A) /\ Len(f) = n /\ Len(a) = N - n
    BY <1>1, <1>2
  <2>2. /\ f \o a \in Seq(A) /\ Len(f \o a) = Len(f) + Len(a)
        /\ \A k \in 1 .. Len(f) : (f \o a)[k] = f[k]
        /\ \A k \in 1 .. Len(a) : (f \o a)[Len(f) + k] = a[k]
    <3>1. f \in Seq(A) /\ a \in Seq(A)
      BY <2>1
    <3> QED
      BY <3>1, ConcatPlaces
  <2> QED
    BY <2>1, <2>2
<1>5. ASSUME NEW k \in 1 .. N PROVE (f \o a)[k] = s[k]
  <2>1. CASE k <= n
    BY <2>1, <1>1, <1>4
  <2>2. CASE ~(k <= n)
    <3>1. k - n \in 1 .. N - n /\ n + (k - n) = k
      BY <2>2, <1>3
    <3>2. (f \o a)[n + (k - n)] = a[k - n] /\ a[k - n] = s[n + (k - n)]
      BY <3>1, <1>2, <1>4
    <3> QED
      BY <3>1, <3>2
  <2> QED
    BY <2>1, <2>2
<1>6. Len(f \o a) = N
  BY <1>3, <1>4
<1>7. f \o a = s
  BY <1>4, <1>5, <1>6, SeqEqual DEF N
<1> QED
  BY <1>7 DEF f, a

LEMMA DensityType == ASSUME NEW s \in Slide PROVE Density(s) \in Nat
<1> DEFINE b == Bullets(s)
           w == [i \in DOMAIN b |-> b[i].words]
           d == IF ShownData(s) THEN DataWords ELSE 0
<1>1. b \in Seq(Bullet)
  BY SlideFields, BulletsType
<1> HIDE DEF b
<1>2. w \in Seq(Nat)
  <2>1. DOMAIN b = 1 .. Len(b) /\ Len(b) \in Nat /\ \A i \in 1 .. Len(b) : b[i] \in Bullet
    BY <1>1
  <2>2. \A i \in 1 .. Len(b) : b[i].words \in Nat
    BY <2>1 DEF Bullet
  <2> QED
    BY <2>1, <2>2
<1> HIDE DEF w
<1>3. Sum(w) \in Nat
  BY <1>2, SumType
<1>4. s.title.words \in Nat /\ s.subtitle \in Nat /\ s.highlight \in Nat
  BY SlideFields
<1>5. d \in Nat
  BY DeckAssumption
<1>6. Density(s) = s.title.words + s.subtitle + s.highlight + Sum(w) + d
  BY DEF Density, w, b
<1> HIDE DEF d
<1> QED
  BY <1>3, <1>4, <1>5, <1>6

(* Completeness is about data, and about bullets on content slides only.   *)
LEMMA CompleteAlike ==
  ASSUME NEW s, NEW t, NEW g, Complete(s, g), t.type = s.type, t.hint = s.hint, t.chart = s.chart,
         t.table = s.table, t.comparison = s.comparison, t.metric = s.metric,
         s.type = "content" => Len(Bullets(t)) >= MinBullets
  PROVE  Complete(t, g)
<1> DEFINE f == Flattened(s)
           e == Flattened(t)
<1>1. /\ f.type = s.type /\ f.chart = (s.chart # "none") /\ f.table = (s.table # "none")
      /\ f.cells = (s.table \in {"good", "made"})
      /\ f.columns = (s.comparison \in {"columns", "made", "hollow"}) /\ f.metric = s.metric
  BY DEF Flattened
<1>2. /\ e.type = s.type /\ e.chart = (s.chart # "none") /\ e.table = (s.table # "none")
      /\ e.cells = (s.table \in {"good", "made"})
      /\ e.columns = (s.comparison \in {"columns", "made", "hollow"}) /\ e.metric = s.metric
      /\ e.bullets = Bullets(t)
  BY DEF Flattened
<1>3. /\ s.type \in SlideTypes /\ s.hint = TypeToHint[s.type] /\ ShownAs(f) = s.type
      /\ s.type = "chart" => s.chart # "categories"
      /\ s.type = "table" => f.cells \/ GivenRowless(g)
      /\ s.type = "comparison" => s.comparison # "hollow" \/ GivenHollow(g)
      /\ s.type = "metric" => f.metric
  BY DEF Complete, Renders
<1> HIDE DEF f, e
<1>4. ShownAs(e) = ShownAs(f)
  BY <1>1, <1>2 DEF ShownAs
<1>5. Renders(t, g)
  <2>1. /\ ShownAs(e) = t.type
        /\ t.type = "content" => Len(e.bullets) >= MinBullets
        /\ t.type = "chart" => t.chart # "categories"
        /\ t.type = "table" => e.cells \/ GivenRowless(g)
        /\ t.type = "comparison" => t.comparison # "hollow" \/ GivenHollow(g)
        /\ t.type = "metric" => e.metric
    BY <1>1, <1>2, <1>3, <1>4
  <2> QED
    BY <2>1 DEF Renders, e
<1> QED
  BY <1>3, <1>5 DEF Complete

LEMMA CompleteBullets ==
  ASSUME NEW s, NEW g, Complete(s, g), s.type = "content"
  PROVE  Len(Bullets(s)) >= MinBullets
<1>1. Flattened(s).bullets = Bullets(s)
  BY DEF Flattened
<1> QED
  BY <1>1 DEF Complete, Renders

(* A slide whose bullets are cut to the first of them is still complete.   *)
LEMMA CutIsComplete ==
  ASSUME NEW s \in Slide, NEW g, Complete(s, g), NEW t, t.type = s.type, t.hint = s.hint, t.chart = s.chart,
         t.table = s.table, t.comparison = s.comparison, t.metric = s.metric,
         Bullets(t) = FirstOf(CutBullets(Bullets(s)), MaxBullets)
  PROVE  Complete(t, g)
<1> DEFINE b == Bullets(s)
<1>0. MaxBullets \in Nat /\ MinBullets \in Nat /\ MinBullets <= MaxBullets
  BY DeckAssumption
<1>1. b \in Seq(Bullet)
  BY SlideFields, BulletsType
<1>2. s.type = "content" => Len(b) >= MinBullets
  BY CompleteBullets
<1> DEFINE c == CutBullets(b)
<1>3. c \in Seq(Bullet) /\ Len(c) = Len(b) /\ Len(b) \in Nat
  BY <1>1, CutProperties
<1> HIDE DEF c
<1>4. /\ Len(FirstOf(c, MaxBullets)) = AtMost(Len(c), MaxBullets)
      /\ Len(c) <= MaxBullets => AtMost(Len(c), MaxBullets) = Len(c)
      /\ Len(c) > MaxBullets => AtMost(Len(c), MaxBullets) = MaxBullets
  BY <1>0, <1>3, FirstProperties
<1>5. Bullets(t) = FirstOf(c, MaxBullets)
  BY DEF c
<1> HIDE DEF b
<1>6. s.type = "content" => Len(Bullets(t)) >= MinBullets
  BY <1>0, <1>2, <1>3, <1>4, <1>5
<1> QED
  BY <1>6, CompleteAlike

LEMMA ReducedKeeps ==
  ASSUME NEW i, NEW s, NEW g, Drafted(s, i), Complete(s, g)
  PROVE  /\ Drafted(Reduced(s), i) /\ Complete(Reduced(s), g) /\ Reduced(s).type = s.type
         /\ Opening(s) => Opening(Reduced(s))
         /\ Density(s) \in Nat
         /\ ~(Density(s) > DenseWords) => Reduced(s) = s
         /\ Density(s) > DenseWords => Names(Bullets(Reduced(s))) = FirstOf(Names(Bullets(s)), MaxBullets)
<1> DEFINE b == Bullets(s)
           f == FirstOf(CutBullets(b), MaxBullets)
           t == Reduced(s)
<1>0. MaxBullets \in Nat /\ DenseWords \in Nat /\ MaxTitle \in Nat /\ MaxHighlight \in Nat
  BY DeckAssumption
<1>1. s \in Slide /\ s.of = i /\ OneList(s.bullets) /\ Density(s) \in Nat
  BY DensityType DEF Drafted
<1>2. CASE ~(Density(s) > DenseWords)
  <2>1. t = s
    BY <1>0, <1>1, <1>2 DEF Reduced
  <2> QED
    BY <1>1, <1>2, <2>1
<1>3. CASE Density(s) > DenseWords
  <2> DEFINE title == [s.title EXCEPT !.words = AtMost(@, MaxTitle)]
             highlight == AtMost(s.highlight, MaxHighlight)
  <2>1. t = [s EXCEPT !.title = title, !.bullets = {f}, !.highlight = highlight]
    BY <1>0, <1>1, <1>3, SlideFields DEF Reduced, Slide
  <2>2. title \in [words : Nat, kind : {"plain", "chart", "table", "absent"}, section : 0 .. 7]
    <3>1. AtMost(s.title.words, MaxTitle) \in Nat
      BY <1>0, <1>1, SlideFields DEF AtMost
    <3>2. s.title \in [words : Nat, kind : {"plain", "chart", "table", "absent"}, section : 0 .. 7]
      BY <1>1, SlideFields
    <3> QED
      BY <3>1, <3>2
  <2>3. highlight \in Nat
    BY <1>0, <1>1, SlideFields DEF AtMost
  <2>4. b \in Seq(Bullet)
    BY <1>1, SlideFields, BulletsType
  <2> DEFINE c == CutBullets(b)
  <2>5. c \in Seq(Bullet) /\ Names(c) = Names(b)
    BY <2>4, CutProperties
  <2>6. f \in Seq(Bullet) /\ Names(f) = FirstOf(Names(c), MaxBullets)
    <3> HIDE DEF c
    <3>1. FirstOf(c, MaxBullets) \in Seq(Bullet) /\ Names(FirstOf(c, MaxBullets)) = FirstOf(Names(c), MaxBullets)
      BY <1>0, <2>5, FirstProperties, NamesOfFirst
    <3> QED
      BY <3>1 DEF c
  <2> HIDE DEF t, title, highlight, f, b
  <2>7. t \in Slide /\ t.of = i /\ t.bullets = {f}
    BY <1>1, <2>1, <2>2, <2>3, <2>6 DEF Slide
  <2>8. /\ t.type = s.type /\ t.hint = s.hint /\ t.chart = s.chart /\ t.table = s.table
        /\ t.comparison = s.comparison /\ t.metric = s.metric
    BY <1>1, <2>1 DEF Slide
  <2>9. Bullets(t) = f
    BY <2>7, BulletsOfOne
  <2>10. Complete(t, g)
    BY <1>1, <2>8, <2>9, CutIsComplete DEF f, b
  <2>11. Opening(s) => Opening(t)
    BY <2>8 DEF Opening
  <2>12. Drafted(t, i)
    BY <2>7 DEF Drafted, OneList
  <2> QED
    BY <1>1, <1>3, <2>5, <2>6, <2>8, <2>9, <2>10, <2>11, <2>12 DEF t, b
<1> QED
  BY <1>2, <1>3

(* A slide as it is in the validated deck.                                 *)
Fits(t) ==
  /\ \A b \in Range(Bullets(t)) : b.words <= MaxWords
  /\ t.of # 0 => t.title.words <= MaxTitle /\ Len(Bullets(t)) <= MaxBullets
FinalSlide(t, gs) ==
  /\ t \in Slide /\ OneList(t.bullets)
  /\ t.type \in SlideTypes /\ t.hint = TypeToHint[t.type]
  /\ t.of # 0 => Renders(t, gs[t.of])
  /\ Fits(t)

LEMMA ParsedProperties ==
  ASSUME NEW s \in Slide, NEW gs, Complete(s, gs[s.of])
  PROVE  /\ FinalSlide(Parsed(s), gs) /\ Parsed(s).of = s.of /\ (Opening(s) => Opening(Parsed(s)))
         /\ Bullets(Parsed(s)) = FirstOf(CutBullets(Bullets(s)), MaxBullets)
         /\ Parsed(s).type = s.type
<1> DEFINE b == Bullets(s)
           c == CutBullets(b)
           f == FirstOf(c, MaxBullets)
           title == [s.title EXCEPT !.words = AtMost(@, MaxTitle)]
           t == Parsed(s)
<1>0. MaxBullets \in Nat /\ MaxTitle \in Nat /\ MaxWords \in Nat
  BY DeckAssumption
<1>1. t = [s EXCEPT !.title = title, !.bullets = {f}]
  BY SlideFields DEF Parsed, Slide
<1>2. /\ title \in [words : Nat, kind : {"plain", "chart", "table", "absent"}, section : 0 .. 7]
      /\ title.words <= MaxTitle
  <2>1. AtMost(s.title.words, MaxTitle) \in Nat /\ AtMost(s.title.words, MaxTitle) <= MaxTitle
    BY <1>0, SlideFields DEF AtMost
  <2>2. s.title \in [words : Nat, kind : {"plain", "chart", "table", "absent"}, section : 0 .. 7]
    BY SlideFields
  <2> QED
    BY <2>1, <2>2
<1>3. b \in Seq(Bullet)
  BY SlideFields, BulletsType
<1>4. c \in Seq(Bullet) /\ Len(c) = Len(b) /\ \A k \in 1 .. Len(b) : c[k].words <= MaxWords
  BY <1>3, CutProperties
<1> HIDE DEF c
<1>5. /\ f \in Seq(Bullet) /\ Len(f) <= MaxBullets /\ Len(f) <= Len(c) /\ Len(f) \in Nat
      /\ \A k \in 1 .. Len(f) : f[k] = c[k]
  BY <1>0, <1>4, FirstProperties
<1> HIDE DEF f, title, t, b
<1>6. t \in Slide /\ t.bullets = {f} /\ t.of = s.of /\ t.title = title
  BY <1>1, <1>2, <1>5 DEF Slide
<1>7. /\ t.type = s.type /\ t.hint = s.hint /\ t.chart = s.chart /\ t.table = s.table
      /\ t.comparison = s.comparison /\ t.metric = s.metric
  BY <1>1 DEF Slide
<1>8. Bullets(t) = f
  BY <1>6, BulletsOfOne
<1>9. Complete(t, gs[s.of])
  BY <1>7, <1>8, CutIsComplete DEF f, c, b
<1>10. Fits(t)
  <2>1. ASSUME NEW x \in Range(f) PROVE x.words <= MaxWords
    <3>1. PICK k \in 1 .. Len(f) : x = f[k]
      BY <1>5 DEF Range
    <3>2. k \in 1 .. Len(b)
      <4>1. Len(b) \in Nat
        BY <1>3
      <4> QED
        BY <4>1, <1>4, <1>5
    <3> QED
      BY <3>1, <3>2, <1>4, <1>5
  <2> QED
    BY <2>1, <1>2, <1>5, <1>6, <1>8 DEF Fits
<1>11. FinalSlide(t, gs)
  BY <1>6, <1>9, <1>10 DEF FinalSlide, Complete, OneList
<1>12. Opening(s) => Opening(t)
  BY <1>7 DEF Opening
<1> QED
  BY <1>6, <1>7, <1>8, <1>11, <1>12 DEF t, f, c, b

LEMMA OverflowProperties ==
  ASSUME NEW s \in Slide, NEW gs, Complete(s, gs[s.of]), Len(Bullets(s)) > MaxBullets
  PROVE  /\ FinalSlide(Overflow(s), gs) /\ Overflow(s).of = 0
         /\ Bullets(Overflow(s)) = AfterFirst(CutBullets(Bullets(s)), MaxBullets)
<1> DEFINE b == Bullets(s)
           c == CutBullets(b)
           f == AfterFirst(c, MaxBullets)
           title == [s.title EXCEPT !.words = @ + 1]
           t == Overflow(s)
<1>0. MaxBullets \in Nat /\ MaxWords \in Nat
  BY DeckAssumption
<1>1. title \in [words : Nat, kind : {"plain", "chart", "table", "absent"}, section : 0 .. 7]
  <2>1. s.title.words + 1 \in Nat
    BY SlideFields
  <2>2. s.title \in [words : Nat, kind : {"plain", "chart", "table", "absent"}, section : 0 .. 7]
    BY SlideFields
  <2> QED
    BY <2>1, <2>2
<1>2. s.type \in SlideTypes /\ s.hint = TypeToHint[s.type] /\ s.type \in SlideTypes \cup {"absent", "other"}
      /\ s.hint \in Hints \cup {"absent", "other"}
  BY SlideFields DEF Complete
<1>3. b \in Seq(Bullet) /\ Len(b) \in Nat
  BY SlideFields, BulletsType
<1>4. c \in Seq(Bullet) /\ Len(c) = Len(b) /\ \A k \in 1 .. Len(b) : c[k].words <= MaxWords
  BY <1>3, CutProperties
<1>5. MaxBullets <= Len(c)
  BY <1>0, <1>3, <1>4
<1> HIDE DEF c
<1>6. /\ f \in Seq(Bullet) /\ Len(f) = Len(c) - MaxBullets
      /\ \A k \in 1 .. Len(c) - MaxBullets : f[k] = c[MaxBullets + k]
  BY <1>0, <1>4, <1>5, AfterProperties
<1>7. NoRoot \in [bullets : SUBSET Seq(Bullet), panel : Seq(Bullet), chart : Charts,
                  table : Tables, comparison : Comparisons, metric : BOOLEAN]
  BY DEF NoRoot, Charts, Tables, Comparisons
<1>8. t = [of |-> 0, number |-> 0, bare |-> FALSE, type |-> s.type, hint |-> s.hint,
           title |-> title, bullets |-> {f}, chart |-> "none", table |-> "none", comparison |-> "none",
           metric |-> FALSE, highlight |-> 0, subtitle |-> 0, icon |-> FALSE, root |-> NoRoot]
  BY DEF Overflow, c, b
<1> HIDE DEF f, t, b, title
<1>9. t \in Slide
  <2>1. "none" \in Charts /\ "none" \in Tables /\ "none" \in Comparisons /\ {f} \in SUBSET Seq(Bullet)
    BY <1>6 DEF Charts, Tables, Comparisons
  <2> QED
    BY <1>1, <1>2, <1>7, <1>8, <2>1 DEF Slide
<1>10. t.of = 0 /\ t.bullets = {f} /\ t.type = s.type /\ t.hint = s.hint
  BY <1>8
<1>11. Bullets(t) = f
  BY <1>10, BulletsOfOne
<1>12. Fits(t)
  <2>1. ASSUME NEW x \in Range(f) PROVE x.words <= MaxWords
    <3>1. PICK k \in 1 .. Len(c) - MaxBullets : x = f[k]
      BY <1>6 DEF Range
    <3>2. MaxBullets + k \in 1 .. Len(b)
      BY <1>0, <1>3, <1>4
    <3> QED
      BY <3>1, <3>2, <1>4, <1>6
  <2> QED
    BY <2>1, <1>10, <1>11 DEF Fits
<1>13. FinalSlide(t, gs)
  BY <1>2, <1>9, <1>10, <1>12 DEF FinalSlide, OneList
<1> QED
  BY <1>10, <1>11, <1>13 DEF t, f, c, b

(* One slide or two, with all the bullets of the one that is split.        *)
LEMMA SplitProperties ==
  ASSUME NEW s \in Slide, NEW gs, Complete(s, gs[s.of])
  PROVE  /\ Split(s) \in Seq(Slide) /\ Len(Split(s)) \in 1 .. 2
         /\ \A j \in 1 .. Len(Split(s)) : FinalSlide(Split(s)[j], gs)
         /\ Split(s)[1].of = s.of /\ (Opening(s) => Opening(Split(s)[1]))
         /\ Len(Split(s)) = 2 => Split(s)[2].of = 0
         /\ Names(FlattenSeq([j \in 1 .. Len(Split(s)) |-> Bullets(Split(s)[j])])) = Names(Bullets(s))
<1> DEFINE b == Bullets(s)
           c == CutBullets(b)
           p == Parsed(s)
           o == Overflow(s)
<1>0. MaxBullets \in Nat
  BY DeckAssumption
<1>1. b \in Seq(Bullet) /\ Len(b) \in Nat
  BY SlideFields, BulletsType
<1>2. c \in Seq(Bullet) /\ Len(c) = Len(b) /\ Names(c) = Names(b)
  BY <1>1, CutProperties
<1>3. /\ FinalSlide(p, gs) /\ p.of = s.of /\ (Opening(s) => Opening(p)) /\ Bullets(p) = FirstOf(c, MaxBullets)
  BY ParsedProperties
<1> HIDE DEF p, o
<1>4. FirstOf(c, MaxBullets) \in Seq(Bullet)
  <2> HIDE DEF c
  <2> QED
    BY <1>0, <1>2, FirstProperties
<1>5. p \in Slide
  BY <1>3 DEF FinalSlide
<1>6. CASE Len(b) <= MaxBullets
  <2>1. Split(s) = <<p>>
    BY <1>6 DEF Split, p
  <2>2. /\ <<p>> \in Seq(Slide) /\ Len(<<p>>) = 1 /\ <<p>>[1] = p
    BY <1>5
  <2>3. FirstOf(c, MaxBullets) = c
    <3> HIDE DEF c
    <3>1. /\ Len(FirstOf(c, MaxBullets)) = AtMost(Len(c), MaxBullets) /\ AtMost(Len(c), MaxBullets) = Len(c)
          /\ \A i \in 1 .. AtMost(Len(c), MaxBullets) : FirstOf(c, MaxBullets)[i] = c[i]
      <4>1. Len(c) <= MaxBullets
        BY <1>2, <1>6
      <4> QED
        BY <4>1, <1>0, <1>2, FirstProperties
    <3> QED
      BY <3>1, <1>2, <1>4, SeqEqual
  <2>4. [j \in 1 .. Len(Split(s)) |-> Bullets(Split(s)[j])] = <<c>>
    <3>1. [j \in 1 .. 1 |-> Bullets(<<p>>[j])] = <<Bullets(p)>>
      OBVIOUS
    <3> QED
      BY <3>1, <1>3, <2>1, <2>2, <2>3
  <2>5. FlattenSeq(<<c>>) = c
    <3> HIDE DEF c
    <3> QED
      BY <1>2, FlattenFew
  <2>6. Names(FlattenSeq([j \in 1 .. Len(Split(s)) |-> Bullets(Split(s)[j])])) = Names(b)
    BY <1>2, <2>4, <2>5
  <2>7. \A j \in 1 .. 1 : <<p>>[j] = p
    OBVIOUS
  <2> QED
    BY <1>3, <2>1, <2>2, <2>6, <2>7
<1>7. CASE ~(Len(b) <= MaxBullets)
  <2>0. /\ FinalSlide(o, gs) /\ o.of = 0 /\ Bullets(o) = AfterFirst(c, MaxBullets)
    <3>1. Len(Bullets(s)) > MaxBullets
      BY <1>0, <1>1, <1>7
    <3> QED
      BY <3>1, OverflowProperties DEF o
  <2>1. Split(s) = <<p, o>>
    BY <1>7 DEF Split, p, o
  <2>2. o \in Slide
    BY <2>0 DEF FinalSlide
  <2>3. <<p, o>> \in Seq(Slide) /\ Len(<<p, o>>) = 2 /\ <<p, o>>[1] = p /\ <<p, o>>[2] = o
    BY <1>5, <2>2
  <2>4. MaxBullets <= Len(c)
    BY <1>0, <1>1, <1>2, <1>7
  <2>5. AfterFirst(c, MaxBullets) \in Seq(Bullet) /\ FirstOf(c, MaxBullets) \o AfterFirst(c, MaxBullets) = c
    <3> HIDE DEF c
    <3> QED
      BY <1>0, <1>2, <2>4, AfterProperties, SplitInTwo
  <2>6. [j \in 1 .. Len(Split(s)) |-> Bullets(Split(s)[j])] = <<FirstOf(c, MaxBullets), AfterFirst(c, MaxBullets)>>
    <3>1. [j \in 1 .. 2 |-> Bullets(<<p, o>>[j])] = <<Bullets(p), Bullets(o)>>
      OBVIOUS
    <3> QED
      BY <3>1, <1>3, <2>0, <2>1, <2>3
  <2>7. FlattenSeq(<<FirstOf(c, MaxBullets), AfterFirst(c, MaxBullets)>>) = c
    BY <1>4, <2>5, FlattenFew
  <2>8. Names(FlattenSeq([j \in 1 .. Len(Split(s)) |-> Bullets(Split(s)[j])])) = Names(b)
    BY <1>2, <2>6, <2>7
  <2>9. \A j \in 1 .. 2 : <<p, o>>[j] = p \/ <<p, o>>[j] = o
    OBVIOUS
  <2> QED
    BY <1>3, <2>0, <2>1, <2>3, <2>8, <2>9
<1> QED
  BY <1>6, <1>7

-----------------------------------------------------------------------------
(* The deck that apply_content_constraints leaves.                         *)

(* A number is nothing that any of this depends on.                        *)
LEMMA NumberedKeeps ==
  ASSUME NEW s, NEW gs, FinalSlide(s, gs), NEW k \in Nat, NEW t, t = [s EXCEPT !.number = k]
  PROVE  /\ FinalSlide(t, gs) /\ t.number = k /\ t.of = s.of /\ t.bullets = s.bullets /\ t.type = s.type
         /\ t.title = s.title /\ Bullets(t) = Bullets(s) /\ (Opening(s) => Opening(t))
<1>1. s \in Slide
  BY DEF FinalSlide
<1>2. t \in Slide /\ t.number = k
  BY <1>1 DEF Slide
<1>3. /\ t.of = s.of /\ t.bullets = s.bullets /\ t.type = s.type /\ t.hint = s.hint /\ t.title = s.title
      /\ t.chart = s.chart /\ t.table = s.table /\ t.comparison = s.comparison /\ t.metric = s.metric
  BY <1>1 DEF Slide
<1>4. Bullets(t) = Bullets(s)
  BY <1>3 DEF Bullets
<1>5. Flattened(t) = Flattened(s)
  BY <1>3, <1>4 DEF Flattened
<1>6. Renders(t, gs[t.of]) = Renders(s, gs[s.of])
  BY <1>3, <1>5 DEF Renders
<1>7. Fits(t) = Fits(s)
  BY <1>3, <1>4 DEF Fits
<1>8. Opening(s) => Opening(t)
  BY <1>3 DEF Opening
<1> QED
  BY <1>2, <1>3, <1>4, <1>6, <1>7, <1>8 DEF FinalSlide

LEMMA ThankYouIsFinal ==
  ASSUME NEW gs PROVE FinalSlide(ThankYou, gs) /\ Bullets(ThankYou) = <<>> /\ Opening(ThankYou)
<1>1. NoRoot \in [bullets : SUBSET Seq(Bullet), panel : Seq(Bullet), chart : Charts,
                  table : Tables, comparison : Comparisons, metric : BOOLEAN]
  BY DEF NoRoot, Charts, Tables, Comparisons
<1>2. "none" \in Charts /\ "none" \in Tables /\ "none" \in Comparisons /\ {<<>>} \in SUBSET Seq(Bullet)
      /\ "title" \in SlideTypes /\ "centered" \in Hints /\ TypeToHint["title"] = "centered"
  BY DEF Charts, Tables, Comparisons, SlideTypes, Hints, TypeToHint
<1>3. ThankYou \in Slide
  BY <1>1, <1>2 DEF ThankYou, Slide
<1>4. ThankYou.bullets = {<<>>} /\ ThankYou.of = 0 /\ ThankYou.type = "title" /\ ThankYou.hint = "centered"
  BY DEF ThankYou
<1>5. Bullets(ThankYou) = <<>>
  BY <1>4, BulletsOfOne
<1>6. Fits(ThankYou)
  BY <1>4, <1>5 DEF Fits, Range
<1>7. FinalSlide(ThankYou, gs)
  BY <1>2, <1>3, <1>4, <1>6 DEF FinalSlide, OneList
<1>8. Opening(ThankYou)
  BY DEF ThankYou, Opening
<1> QED
  BY <1>5, <1>7, <1>8

(* Every slide of d is found in e with its bullets, and no other slide is  *)
(* taken for one.                                                          *)
Arranged(start, d, e, gs) ==
  /\ e \in Seq(Slide) /\ \A k \in 1 .. Len(e) : FinalSlide(e[k], gs) /\ e[k].number = k
  /\ start \in [0 .. Len(d) -> Nat] /\ start[0] = 0 /\ Len(e) = start[Len(d)] + 1
  /\ \A i \in 1 .. Len(d) :
        /\ start[i] - start[i - 1] \in 1 .. 2 /\ start[i] < Len(e)
        /\ e[start[i - 1] + 1].of = i
        /\ Names(FlattenSeq([j \in 1 .. start[i] - start[i - 1] |-> Bullets(e[start[i - 1] + j])])) =
             Names(Bullets(Reduced(d[i])))
  /\ \A k \in 1 .. Len(e) : e[k].of # 0 => \E i \in 1 .. Len(d) : k = start[i - 1] + 1 /\ e[k].of = i
  /\ \A k \in 1 .. Len(e) - 1 : e[k].of # 0 \/ \E i \in 1 .. Len(d) : start[i] - start[i - 1] = 2
  /\ Opening(e[1]) /\ e[Len(e)].type = "title" /\ e[Len(e)].of = 0
  /\ e[Len(e)].title.words = 2 /\ Bullets(e[Len(e)]) = <<>>

LEMMA ConstrainedProperties ==
  ASSUME NEW d \in Seq(Slide), NEW gs, \A i \in 1 .. Len(d) : Drafted(d[i], i) /\ Complete(d[i], gs[i]),
         Len(d) > 0 => Opening(d[1])
  PROVE  \E start : Arranged(start, d, Constrained(d), gs)
<1> DEFINE N == Len(d)
           lists == [i \in DOMAIN d |-> Split(Reduced(d[i]))]
           flat == FlattenSeq(lists)
           all == Append(flat, ThankYou)
           e == Constrained(d)
<1>0. N \in Nat /\ DOMAIN d = 1 .. N
  OBVIOUS
<1>1. ASSUME NEW i \in 1 .. N
      PROVE  /\ lists[i] = Split(Reduced(d[i]))
             /\ lists[i] \in Seq(Slide) /\ Len(lists[i]) \in 1 .. 2
             /\ \A j \in 1 .. Len(lists[i]) : FinalSlide(lists[i][j], gs)
             /\ lists[i][1].of = i /\ (Opening(d[i]) => Opening(lists[i][1]))
             /\ Len(lists[i]) = 2 => lists[i][2].of = 0
             /\ Names(FlattenSeq([j \in 1 .. Len(lists[i]) |-> Bullets(lists[i][j])])) = Names(Bullets(Reduced(d[i])))
  <2> DEFINE r == Reduced(d[i])
  <2>1. Drafted(r, i) /\ Complete(r, gs[i]) /\ (Opening(d[i]) => Opening(r))
    BY ReducedKeeps
  <2>2. r \in Slide /\ r.of = i
    BY <2>1 DEF Drafted
  <2>3. lists[i] = Split(r)
    BY <1>0
  <2> HIDE DEF r, lists
  <2>4. /\ Split(r) \in Seq(Slide) /\ Len(Split(r)) \in 1 .. 2
        /\ \A j \in 1 .. Len(Split(r)) : FinalSlide(Split(r)[j], gs)
        /\ Split(r)[1].of = r.of /\ (Opening(r) => Opening(Split(r)[1]))
        /\ Len(Split(r)) = 2 => Split(r)[2].of = 0
        /\ Names(FlattenSeq([j \in 1 .. Len(Split(r)) |-> Bullets(Split(r)[j])])) = Names(Bullets(r))
    BY <2>1, <2>2, SplitProperties
  <2> QED
    BY <2>1, <2>2, <2>3, <2>4 DEF r
<1>2. lists \in Seq(Seq(Slide)) /\ Len(lists) = N
  <2>1. lists = [i \in 1 .. N |-> lists[i]]
    BY <1>0
  <2> HIDE DEF lists
  <2>2. \A i \in 1 .. N : lists[i] \in Seq(Slide)
    BY <1>1
  <2>3. lists \in [1 .. N -> Seq(Slide)]
    BY <2>1, <2>2
  <2> QED
    BY <1>0, <2>3
<1> HIDE DEF lists
<1>2a. \A i \in 1 .. N : Len(lists[i]) \in 1 .. 2
  BY <1>1
<1>2b. ASSUME NEW i \in 1 .. N PROVE 1 \in 1 .. Len(lists[i])
  <2> DEFINE n == Len(lists[i])
  <2>1. n \in 1 .. 2
    BY <1>2a
  <2> HIDE DEF n
  <2>2. 1 \in 1 .. n
    BY <2>1
  <2> QED
    BY <2>2 DEF n
<1>2c. \A i \in 1 .. N : i # 0
  BY <1>0
<1>3. flat \in Seq(Slide) /\ \E start : Starts(start, lists, flat)
  BY <1>2, FlattenProperties
<1> HIDE DEF flat
<1>4. PICK start : Starts(start, lists, flat)
  BY <1>3
<1> DEFINE M == Len(flat)
<1>5. /\ M \in Nat /\ start \in [0 .. N -> Nat] /\ start[0] = 0 /\ start[N] = M
      /\ \A i \in 1 .. N : /\ start[i] = start[i - 1] + Len(lists[i]) /\ start[i] <= M
                           /\ \A j \in 1 .. Len(lists[i]) : flat[start[i - 1] + j] = lists[i][j]
      /\ \A k \in 1 .. M : \E i \in 1 .. N : \E j \in 1 .. Len(lists[i]) : k = start[i - 1] + j
  BY <1>2, <1>3, <1>4 DEF Starts
<1>6. /\ all \in Seq(Slide) /\ Len(all) = M + 1 /\ all[M + 1] = ThankYou
      /\ \A k \in 1 .. M : all[k] = flat[k]
  <2>1. ThankYou \in Slide
    BY ThankYouIsFinal DEF FinalSlide
  <2> QED
    BY <1>3, <2>1
<1> HIDE DEF all, M
<1>7. e = [k \in 1 .. M + 1 |-> [all[k] EXCEPT !.number = k]]
  <2>1. DOMAIN all = 1 .. M + 1
    BY <1>6
  <2>2. Constrained(d) = [k \in DOMAIN all |-> [all[k] EXCEPT !.number = k]]
    BY DEF Constrained, all, flat, lists
  <2> QED
    BY <2>1, <2>2
<1> HIDE DEF e
<1>8. ASSUME NEW i \in 1 .. N, NEW j \in 1 .. Len(lists[i])
      PROVE  start[i - 1] + j \in 1 .. M /\ flat[start[i - 1] + j] = lists[i][j]
  <2>1. i - 1 \in 0 .. N /\ start[i] <= M /\ start[i] = start[i - 1] + Len(lists[i])
    BY <1>0, <1>5
  <2>2. start[i - 1] \in Nat /\ Len(lists[i]) \in Nat
    BY <1>1, <1>5, <2>1
  <2>3. start[i - 1] + j \in 1 .. M
    BY <1>5, <2>1, <2>2
  <2> QED
    BY <1>5, <2>3
<1>9. ASSUME NEW k \in 1 .. M + 1 PROVE FinalSlide(all[k], gs)
  <2>1. CASE k = M + 1
    BY <2>1, <1>6, ThankYouIsFinal
  <2>2. CASE k # M + 1
    <3>1. k \in 1 .. M
      BY <2>2, <1>5
    <3>2. PICK i \in 1 .. N : \E j \in 1 .. Len(lists[i]) : k = start[i - 1] + j
      BY <3>1, <1>5
    <3>3. PICK j \in 1 .. Len(lists[i]) : k = start[i - 1] + j
      BY <3>2
    <3>4. flat[k] = lists[i][j]
      BY <3>3, <1>8
    <3> QED
      BY <3>1, <3>4, <1>1, <1>6
  <2> QED
    BY <2>1, <2>2
<1>10. ASSUME NEW k \in 1 .. M + 1
       PROVE  /\ FinalSlide(e[k], gs) /\ e[k].number = k /\ e[k].of = all[k].of /\ e[k].type = all[k].type
              /\ e[k].title = all[k].title /\ Bullets(e[k]) = Bullets(all[k])
              /\ (Opening(all[k]) => Opening(e[k]))
  <2>1. e[k] = [all[k] EXCEPT !.number = k] /\ k \in Nat /\ FinalSlide(all[k], gs)
    BY <1>5, <1>7, <1>9
  <2> QED
    BY <2>1, NumberedKeeps
<1>11. e \in Seq(Slide) /\ Len(e) = M + 1
  <2>1. \A k \in 1 .. M + 1 : e[k] \in Slide
    BY <1>10 DEF FinalSlide
  <2>2. e = [k \in 1 .. M + 1 |-> e[k]]
    BY <1>7
  <2>3. e \in [1 .. M + 1 -> Slide]
    BY <2>1, <2>2
  <2> QED
    BY <1>5, <2>3
<1>12. ASSUME NEW i \in 1 .. N
       PROVE  /\ start[i] - start[i - 1] = Len(lists[i]) /\ start[i] - start[i - 1] \in 1 .. 2 /\ start[i] < M + 1
              /\ e[start[i - 1] + 1].of = i
              /\ Names(FlattenSeq([j \in 1 .. start[i] - start[i - 1] |-> Bullets(e[start[i - 1] + j])])) =
                   Names(Bullets(Reduced(d[i])))
  <2>1. i - 1 \in 0 .. N /\ i \in 0 .. N /\ start[i] <= M /\ start[i] = start[i - 1] + Len(lists[i])
    BY <1>0, <1>5
  <2>2. start[i - 1] \in Nat /\ start[i] \in Nat /\ Len(lists[i]) \in 1 .. 2
    BY <1>1, <1>5, <2>1
  <2>3. start[i] - start[i - 1] = Len(lists[i]) /\ start[i] < M + 1
    <3>1. M \in Nat
      BY <1>5
    <3> HIDE DEF M, N
    <3> QED
      BY <3>1, <2>1, <2>2
  <2>4. ASSUME NEW j \in 1 .. Len(lists[i])
        PROVE  /\ Bullets(e[start[i - 1] + j]) = Bullets(lists[i][j])
               /\ e[start[i - 1] + j].of = lists[i][j].of
    <3> DEFINE k == start[i - 1] + j
    <3>1. k \in 1 .. M /\ flat[k] = lists[i][j]
      BY <1>8
    <3> HIDE DEF k
    <3>2. k \in 1 .. M + 1
      BY <3>1, <1>5
    <3>3. all[k] = lists[i][j]
      BY <3>1, <1>6
    <3>4. Bullets(e[k]) = Bullets(lists[i][j]) /\ e[k].of = lists[i][j].of
      BY <3>2, <3>3, <1>10
    <3> QED
      BY <3>4 DEF k
  <2>5. [j \in 1 .. start[i] - start[i - 1] |-> Bullets(e[start[i - 1] + j])]
          = [j \in 1 .. Len(lists[i]) |-> Bullets(lists[i][j])]
    BY <2>3, <2>4
  <2>6. 1 \in 1 .. Len(lists[i])
    BY <1>2b
  <2>7. e[start[i - 1] + 1].of = i
    BY <1>1, <2>4, <2>6
  <2>8. start[i] - start[i - 1] \in 1 .. 2
    BY <2>2, <2>3
  <2> QED
    BY <1>1, <2>3, <2>5, <2>7, <2>8
<1>13. ASSUME NEW k \in 1 .. M + 1
       PROVE  /\ e[k].of # 0 => \E i \in 1 .. N : k = start[i - 1] + 1 /\ e[k].of = i
              /\ k \in 1 .. M => e[k].of # 0 \/ \E i \in 1 .. N : start[i] - start[i - 1] = 2
  <2>1. CASE k = M + 1
    <3>1. e[k].of = 0
      BY <2>1, <1>6, <1>10 DEF ThankYou
    <3> QED
      BY <3>1, <2>1, <1>5
  <2>2. CASE k # M + 1
    <3>1. k \in 1 .. M
      BY <2>2, <1>5
    <3>2. PICK i \in 1 .. N : \E j \in 1 .. Len(lists[i]) : k = start[i - 1] + j
      BY <3>1, <1>5
    <3>3. PICK j \in 1 .. Len(lists[i]) : k = start[i - 1] + j
      BY <3>2
    <3>4. e[k].of = lists[i][j].of
      <4>1. flat[k] = lists[i][j]
        BY <3>3, <1>8
      <4>2. all[k] = lists[i][j]
        BY <3>1, <4>1, <1>6
      <4> QED
        BY <4>2, <1>10
    <3>5. Len(lists[i]) \in 1 .. 2 /\ start[i] - start[i - 1] = Len(lists[i]) /\ i # 0
      <4>1. start[i] - start[i - 1] = Len(lists[i])
        BY <1>12
      <4> QED
        BY <4>1, <1>2a, <1>2c
    <3>6. j = 1 \/ (j = 2 /\ Len(lists[i]) = 2)
      <4> DEFINE n == Len(lists[i])
      <4>1. n \in 1 .. 2 /\ j \in 1 .. n
        BY <3>3, <3>5
      <4> HIDE DEF n
      <4>2. j = 1 \/ (j = 2 /\ n = 2)
        BY <4>1
      <4> QED
        BY <4>2 DEF n
    <3>7. CASE j = 1
      <4>1. e[k].of = i
        BY <3>4, <3>7, <1>1
      <4> QED
        BY <4>1, <3>3, <3>5, <3>7
    <3>8. CASE j = 2 /\ Len(lists[i]) = 2
      <4>1. e[k].of = 0
        BY <3>4, <3>8, <1>1
      <4> QED
        BY <4>1, <3>5, <3>8
    <3> QED
      BY <3>6, <3>7, <3>8
  <2> QED
    BY <2>1, <2>2
<1>14. Opening(e[1])
  <2>0. 1 \in 1 .. M + 1
    BY <1>5
  <2>1. CASE N = 0
    <3>1. M = 0
      BY <1>5, <2>1
    <3> QED
      BY <3>1, <2>0, <1>6, <1>10, ThankYouIsFinal
  <2>2. CASE N # 0
    <3>1. 1 \in 1 .. N /\ 1 - 1 = 0 /\ N > 0
      BY <2>2, <1>0
    <3>2. 1 \in 1 .. Len(lists[1])
      BY <3>1, <1>2b
    <3>2a. start[1 - 1] + 1 \in 1 .. M /\ flat[start[1 - 1] + 1] = lists[1][1]
      BY <3>1, <3>2, <1>8
    <3>2b. start[1 - 1] + 1 = 1
      BY <1>5
    <3>3. 1 \in 1 .. M /\ flat[1] = lists[1][1]
      BY <3>2a, <3>2b
    <3>4. all[1] = lists[1][1]
      BY <3>3, <1>6
    <3>5. Opening(lists[1][1])
      BY <3>1, <1>1
    <3> QED
      BY <2>0, <3>4, <3>5, <1>10
  <2> QED
    BY <2>1, <2>2
<1>15. /\ e[M + 1].type = "title" /\ e[M + 1].of = 0 /\ e[M + 1].title.words = 2
       /\ Bullets(e[M + 1]) = <<>>
  <2>1. M + 1 \in 1 .. M + 1
    BY <1>5
  <2>2. ThankYou.type = "title" /\ ThankYou.of = 0 /\ ThankYou.title.words = 2
    BY DEF ThankYou
  <2> QED
    BY <2>1, <2>2, <1>6, <1>10, ThankYouIsFinal
<1>16. Arranged(start, d, e, gs)
  <2>1. Len(e) - 1 = M
    BY <1>5, <1>11
  <2>2. \A k \in 1 .. Len(e) - 1 : e[k].of # 0 \/ \E i \in 1 .. N : start[i] - start[i - 1] = 2
    <3>1. \A k \in 1 .. M : k \in 1 .. M + 1
      BY <1>5
    <3> QED
      BY <3>1, <2>1, <1>13
  <2>3. \A k \in 1 .. Len(e) : e[k].of # 0 => \E i \in 1 .. N : k = start[i - 1] + 1 /\ e[k].of = i
    BY <1>11, <1>13
  <2>4. \A k \in 1 .. Len(e) : FinalSlide(e[k], gs) /\ e[k].number = k
    BY <1>10, <1>11
  <2>5. \A i \in 1 .. N :
           /\ start[i] - start[i - 1] \in 1 .. 2 /\ start[i] < Len(e)
           /\ e[start[i - 1] + 1].of = i
           /\ Names(FlattenSeq([j \in 1 .. start[i] - start[i - 1] |-> Bullets(e[start[i - 1] + j])])) =
                Names(Bullets(Reduced(d[i])))
    BY <1>11, <1>12
  <2>6. /\ e[Len(e)].type = "title" /\ e[Len(e)].of = 0 /\ e[Len(e)].title.words = 2
        /\ Bullets(e[Len(e)]) = <<>>
    BY <1>11, <1>15
  <2> QED
    BY <1>5, <1>11, <1>14, <2>2, <2>3, <2>4, <2>5, <2>6 DEF Arranged
<1> QED
  BY <1>16 DEF e

-----------------------------------------------------------------------------
(* The invariant of the passes.                                            *)

(* A slide that is twice as long puts all that follow one place further.   *)
Spaced(start, N) == /\ start \in [0 .. N -> Nat] /\ start[0] = 0
                    /\ \A n \in 1 .. N : start[n] - start[n - 1] \in 1 .. 2
LEMMA SplitMovesOn ==
  ASSUME NEW N \in Nat, NEW start, Spaced(start, N), NEW i \in 1 .. N, start[i] - start[i - 1] = 2
  PROVE  start[N] >= N + 1
<1> DEFINE T == {n \in 0 .. N : start[n] >= IF n >= i THEN n + 1 ELSE n}
<1>0. /\ start \in [0 .. N -> Nat] /\ start[0] = 0
      /\ \A n \in 1 .. N : start[n] - start[n - 1] \in 1 .. 2
  BY DEF Spaced
<1>1. 0 \in T
  BY <1>0
<1>2. ASSUME NEW n \in 0 .. N - 1, n \in T PROVE n + 1 \in T
  <2>1. n + 1 \in 1 .. N /\ n + 1 \in 0 .. N /\ n \in 0 .. N /\ (n + 1) - 1 = n
    OBVIOUS
  <2>2. start[n + 1] \in Nat /\ start[n] \in Nat
    BY <1>0, <2>1
  <2>3. start[n + 1] - start[n] \in 1 .. 2 /\ (n + 1 = i => start[n + 1] - start[n] = 2)
    BY <1>0, <2>1
  <2>4. start[n] >= IF n >= i THEN n + 1 ELSE n
    BY <1>2
  <2>5. start[n + 1] >= IF n + 1 >= i THEN n + 2 ELSE n + 1
    BY <2>1, <2>2, <2>3, <2>4
  <2> QED
    BY <2>1, <2>5
<1>3. 0 .. N \subseteq T
  <2> HIDE DEF T
  <2> QED
    BY <1>1, <1>2, NatUpTo
<1>4. N \in T
  BY <1>3
<1> QED
  BY <1>4

(* A slide before the pass p, with the slide of the answer it comes from.  *)
Passes == {"normalise", "infer", "correct", "complete", "constrain"}
Kept(p, s, g, i) ==
  /\ Drafted(s, i)
  /\ p = "normalise" => s = g
  /\ p \in {"infer", "correct", "complete"} => HasAll(s, g) /\ Filled(s, g)
  /\ p = "complete" => s.type \in SlideTypes
  /\ p = "constrain" => HasFirst(s, g) /\ Complete(s, g)
  /\ p \in {"correct", "complete", "constrain"} /\ i = 1 => Opening(s)
AllKept(p, e, g) ==
  /\ g \in Seq(Slide) /\ \A i \in 1 .. Len(g) : GivenSlide(g[i], i)
  /\ e \in Seq(Slide) /\ Len(e) = Len(g)
  /\ \A i \in 1 .. Len(g) : Kept(p, e[i], g[i], i)

(* A deck after the last pass.                                             *)
Repaired(e, g) ==
  /\ e \in Seq(Slide) /\ Len(e) >= 1
  /\ \A k \in 1 .. Len(e) : FinalSlide(e[k], g) /\ e[k].number = k
  /\ Opening(e[1]) /\ e[1].of = IF g = <<>> THEN 0 ELSE 1
  /\ e[Len(e)].type = "title" /\ e[Len(e)].of = 0
  /\ e[Len(e)].title.words = 2 /\ Bullets(e[Len(e)]) = <<>>
  /\ Len(e) = Len(g) + 1 => \A k \in 1 .. Len(e) - 1 : e[k].of # 0

DeckInv ==
  /\ answer \in Answers
  /\ stage \in Passes => AllKept(stage, deck, given)
  /\ stage \in {"done", "refined", "scored"} => total = Len(deck) /\ Repaired(deck, given)

LEMMA KeptByPass ==
  ASSUME NEW i \in Nat, NEW s, NEW g, GivenSlide(g, i)
  PROVE  /\ Kept("normalise", s, g, i) => Kept("infer", Normalised(s), g, i)
         /\ Kept("infer", s, g, i) => Kept("correct", TypeInferred(s, i), g, i)
         /\ Kept("correct", s, g, i) => Kept("complete", Corrected(s), g, i)
         /\ Kept("correct", s, g, i) /\ SlideConforms(s) => Kept("complete", s, g, i)
         /\ Kept("complete", s, g, i) => Kept("constrain", Completed(s), g, i)
<1>1. Kept("normalise", s, g, i) => Kept("infer", Normalised(s), g, i)
  BY NormalisedKeeps DEF Kept
<1>2. Kept("infer", s, g, i) => Kept("correct", TypeInferred(s, i), g, i)
  BY InferredKeeps DEF Kept
<1>3. Kept("correct", s, g, i) => Kept("complete", Corrected(s), g, i)
  BY CorrectedKeeps DEF Kept
<1>4. Kept("correct", s, g, i) /\ SlideConforms(s) => Kept("complete", s, g, i)
  BY DEF Kept, SlideConforms, SchemaTypes
<1>5. Kept("complete", s, g, i) => Kept("constrain", Completed(s), g, i)
  BY CompletedKeeps DEF Kept
<1> QED
  BY <1>1, <1>2, <1>3, <1>4, <1>5

(* What holds after a pass for every slide holds for the deck.             *)
LEMMA AllByOne ==
  ASSUME NEW p, NEW q, NEW d, NEW g, AllKept(p, d, g), NEW e, DOMAIN e = DOMAIN d,
         e = [i \in DOMAIN e |-> e[i]],
         \A i \in 1 .. Len(g) : GivenSlide(g[i], i) /\ Kept(p, d[i], g[i], i) => Kept(q, e[i], g[i], i)
  PROVE  AllKept(q, e, g)
<1>1. /\ g \in Seq(Slide) /\ d \in Seq(Slide) /\ Len(d) = Len(g)
      /\ \A i \in 1 .. Len(g) : GivenSlide(g[i], i) /\ Kept(p, d[i], g[i], i)
  BY DEF AllKept
<1>2. Len(g) \in Nat /\ DOMAIN e = 1 .. Len(g)
  BY <1>1
<1>3. \A i \in 1 .. Len(g) : Kept(q, e[i], g[i], i)
  BY <1>1
<1>4. \A i \in 1 .. Len(g) : e[i] \in Slide
  BY <1>3 DEF Kept, Drafted
<1>5. e \in [1 .. Len(g) -> Slide]
  BY <1>2, <1>4
<1>6. e \in Seq(Slide) /\ Len(e) = Len(g)
  BY <1>2, <1>5
<1> QED
  BY <1>1, <1>3, <1>6 DEF AllKept

LEMMA RepairedByConstraints ==
  ASSUME NEW d, NEW g, AllKept("constrain", d, g)
  PROVE  Repaired(Constrained(d), g)
<1> DEFINE N == Len(d)
           e == Constrained(d)
<1>1. /\ g \in Seq(Slide) /\ d \in Seq(Slide) /\ N = Len(g) /\ N \in Nat
      /\ \A i \in 1 .. N : Drafted(d[i], i) /\ Complete(d[i], g[i]) /\ (i = 1 => Opening(d[i]))
  BY DEF AllKept, Kept
<1>2. N > 0 => Opening(d[1])
  BY <1>1
<1>3. PICK start : Arranged(start, d, e, g)
  BY <1>1, <1>2, ConstrainedProperties
<1> HIDE DEF e
<1>4. /\ start \in [0 .. N -> Nat] /\ start[0] = 0 /\ Len(e) = start[N] + 1
      /\ \A i \in 1 .. N : start[i] - start[i - 1] \in 1 .. 2
      /\ \A i \in 1 .. N : e[start[i - 1] + 1].of = i
      /\ \A k \in 1 .. Len(e) - 1 : e[k].of # 0 \/ \E i \in 1 .. N : start[i] - start[i - 1] = 2
      /\ e[Len(e)].of = 0
  BY <1>3 DEF Arranged
<1>5. e[1].of = IF g = <<>> THEN 0 ELSE 1
  <2>1. CASE N = 0
    <3>1. g = <<>> /\ Len(e) = 1
      BY <2>1, <1>1, <1>4
    <3> QED
      BY <3>1, <1>4
  <2>2. CASE N # 0
    <3>1. g # <<>> /\ 1 \in 1 .. N /\ 1 - 1 = 0
      BY <2>2, <1>1
    <3>2. e[start[1 - 1] + 1].of = 1
      BY <3>1, <1>4
    <3>3. start[1 - 1] + 1 = 1
      BY <3>1, <1>4
    <3> QED
      BY <3>1, <3>2, <3>3
  <2> QED
    BY <2>1, <2>2
<1>6. ASSUME Len(e) = Len(g) + 1, NEW k \in 1 .. Len(e) - 1 PROVE e[k].of # 0
  <2>1. SUFFICES ASSUME NEW i \in 1 .. N, start[i] - start[i - 1] = 2 PROVE FALSE
    BY <1>4
  <2>2. start[N] >= N + 1
    <3>1. start \in [0 .. N -> Nat] /\ start[0] = 0 /\ N \in Nat
      BY <1>1, <1>4
    <3>2. \A n \in 1 .. N : start[n] - start[n - 1] \in 1 .. 2
      BY <1>4
    <3>3. Spaced(start, N)
      BY <3>1, <3>2 DEF Spaced
    <3> HIDE DEF N
    <3> QED
      BY <2>1, <3>1, <3>3, SplitMovesOn
  <2>3. start[N] \in Nat /\ N \in Nat
    BY <1>1, <1>4
  <2>4. start[N] + 1 = N + 1
    BY <1>1, <1>4, <1>6
  <2> HIDE DEF N
  <2> QED
    BY <2>2, <2>3, <2>4
<1>7. Len(e) >= 1
  <2>1. start[N] \in Nat
    BY <1>1, <1>4
  <2> QED
    BY <2>1, <1>4
<1> QED
  BY <1>3, <1>5, <1>6, <1>7 DEF Arranged, Repaired, e

(* Icons and highlights are nothing that any of this depends on.           *)
Enhanced(s, icon, highlight) == [s EXCEPT !.icon = icon, !.highlight = highlight]
LEMMA RefinedSlide ==
  ASSUME NEW s, NEW gs, FinalSlide(s, gs), NEW icon \in BOOLEAN, NEW highlight \in Nat, NEW t,
         t = Enhanced(s, icon, highlight)
  PROVE  /\ FinalSlide(t, gs) /\ t.number = s.number /\ t.of = s.of /\ t.type = s.type /\ t.hint = s.hint
         /\ t.chart = s.chart /\ t.table = s.table /\ t.comparison = s.comparison
         /\ t.title = s.title /\ Bullets(t) = Bullets(s) /\ (Opening(s) => Opening(t))
         /\ t.icon = icon /\ t.highlight = highlight
<1>1. s \in Slide
  BY DEF FinalSlide
<1>2. t \in Slide /\ t.icon = icon /\ t.highlight = highlight
  BY <1>1 DEF Slide, Enhanced
<1>3. /\ t.of = s.of /\ t.bullets = s.bullets /\ t.type = s.type /\ t.hint = s.hint /\ t.title = s.title
      /\ t.chart = s.chart /\ t.table = s.table /\ t.comparison = s.comparison /\ t.metric = s.metric
      /\ t.number = s.number
  BY <1>1 DEF Slide, Enhanced
<1>4. Bullets(t) = Bullets(s)
  BY <1>3 DEF Bullets
<1>5. Flattened(t) = Flattened(s)
  BY <1>3, <1>4 DEF Flattened
<1>6. Renders(t, gs[t.of]) = Renders(s, gs[s.of])
  BY <1>3, <1>5 DEF Renders
<1>7. Fits(t) = Fits(s)
  BY <1>3, <1>4 DEF Fits
<1>8. Opening(s) => Opening(t)
  BY <1>3 DEF Opening
<1> QED
  BY <1>2, <1>3, <1>4, <1>6, <1>7, <1>8 DEF FinalSlide

LEMMA RefinedDeck ==
  ASSUME NEW d, NEW g, Repaired(d, g), NEW icons, NEW highlights
  PROVE  /\ Repaired(Refined(d, icons, highlights), g)
         /\ Len(Refined(d, icons, highlights)) = Len(d)
         /\ \A k \in 1 .. Len(d) :
              LET t == Refined(d, icons, highlights)[k]
              IN /\ FinalSlide(d[k], g) /\ FinalSlide(t, g) /\ t.number = d[k].number /\ t.of = d[k].of
                 /\ t.type = d[k].type /\ t.hint = d[k].hint
                 /\ t.chart = d[k].chart /\ t.table = d[k].table /\ t.comparison = d[k].comparison
                 /\ t.title = d[k].title /\ Bullets(t) = Bullets(d[k]) /\ (Opening(d[k]) => Opening(t))
<1> DEFINE N == Len(d)
           e == Refined(d, icons, highlights)
<1>1. /\ d \in Seq(Slide) /\ N \in Nat /\ N >= 1
      /\ \A k \in 1 .. N : FinalSlide(d[k], g)
  BY DEF Repaired
<1> DEFINE iconOf(i) == (SaidOf(icons, i) = "text") \/ (d[i].icon /\ SaidOf(icons, i) = "nothing")
           highlightOf(i) == CASE SaidOf(highlights, i) = "text" -> 10
                               [] SaidOf(highlights, i) = "empty" -> 0
                               [] OTHER -> d[i].highlight
<1>2. e = [i \in 1 .. N |-> [d[i] EXCEPT !.icon = iconOf(i), !.highlight = highlightOf(i)]]
  <2>1. ASSUME NEW i \in 1 .. N
        PROVE  [d[i] EXCEPT !.icon = (SaidOf(icons, i) = "text") \/ (@ /\ SaidOf(icons, i) = "nothing"),
                            !.highlight = CASE SaidOf(highlights, i) = "text" -> 10
                                            [] SaidOf(highlights, i) = "empty" -> 0
                                            [] OTHER -> @]
               = [d[i] EXCEPT !.icon = iconOf(i), !.highlight = highlightOf(i)]
    <3>1. d[i] \in Slide
      BY <1>1
    <3> QED
      BY <3>1 DEF Slide
  <2> QED
    BY <1>1, <2>1 DEF Refined
<1>2a. \A i \in 1 .. N : iconOf(i) \in BOOLEAN /\ (d[i].highlight \in Nat => highlightOf(i) \in Nat)
  OBVIOUS
<1> HIDE DEF iconOf, highlightOf
<1> HIDE DEF e
<1>3. ASSUME NEW k \in 1 .. N
      PROVE  /\ FinalSlide(d[k], g) /\ FinalSlide(e[k], g) /\ e[k].number = d[k].number /\ e[k].of = d[k].of
             /\ e[k].type = d[k].type /\ e[k].hint = d[k].hint
             /\ e[k].chart = d[k].chart /\ e[k].table = d[k].table /\ e[k].comparison = d[k].comparison
             /\ e[k].title = d[k].title /\ Bullets(e[k]) = Bullets(d[k]) /\ (Opening(d[k]) => Opening(e[k]))
  <2> DEFINE s == d[k]
             t == e[k]
             icon == iconOf(k)
             highlight == highlightOf(k)
  <2>1. FinalSlide(s, g)
    BY <1>1
  <2>2. s.highlight \in Nat /\ s.icon \in BOOLEAN
    BY <2>1 DEF FinalSlide, Slide
  <2>3. icon \in BOOLEAN
    BY <1>2a
  <2>4. highlight \in Nat
    BY <1>2a, <2>2
  <2>5. t = Enhanced(s, icon, highlight)
    BY <1>2 DEF Enhanced
  <2> HIDE DEF s, t
  <2>6. /\ FinalSlide(t, g) /\ t.number = s.number /\ t.of = s.of /\ t.type = s.type /\ t.hint = s.hint
        /\ t.chart = s.chart /\ t.table = s.table /\ t.comparison = s.comparison
        /\ t.title = s.title /\ Bullets(t) = Bullets(s) /\ (Opening(s) => Opening(t))
    <3> HIDE DEF icon, highlight
    <3> QED
      BY <2>1, <2>3, <2>4, <2>5, RefinedSlide
  <2> QED
    BY <2>1, <2>6 DEF s, t
<1>4. e \in Seq(Slide) /\ Len(e) = N
  <2>1. \A k \in 1 .. N : e[k] \in Slide
    BY <1>3 DEF FinalSlide
  <2>2. e = [k \in 1 .. N |-> e[k]]
    BY <1>2
  <2>3. e \in [1 .. N -> Slide]
    BY <2>1, <2>2
  <2> QED
    BY <1>1, <2>3
<1>5. Repaired(e, g)
  <2>1. 1 \in 1 .. N /\ N \in 1 .. N
    BY <1>1
  <2>2. /\ \A k \in 1 .. N : d[k].number = k
        /\ Opening(d[1]) /\ d[1].of = IF g = <<>> THEN 0 ELSE 1
        /\ d[N].type = "title" /\ d[N].of = 0 /\ d[N].title.words = 2 /\ Bullets(d[N]) = <<>>
        /\ N = Len(g) + 1 => \A k \in 1 .. N - 1 : d[k].of # 0
    BY DEF Repaired
  <2>3. \A k \in 1 .. N : FinalSlide(e[k], g) /\ e[k].number = k
    BY <1>3, <2>2
  <2>4. Opening(e[1]) /\ e[1].of = IF g = <<>> THEN 0 ELSE 1
    BY <1>3, <2>1, <2>2
  <2>5. e[N].type = "title" /\ e[N].of = 0 /\ e[N].title.words = 2 /\ Bullets(e[N]) = <<>>
    BY <1>3, <2>1, <2>2
  <2>6. N = Len(g) + 1 => \A k \in 1 .. N - 1 : e[k].of # 0
    <3>1. \A k \in 1 .. N - 1 : k \in 1 .. N
      BY <1>1
    <3> QED
      BY <1>3, <2>2, <3>1
  <2> QED
    BY <1>1, <1>4, <2>3, <2>4, <2>5, <2>6 DEF Repaired
<1> QED
  BY <1>3, <1>4, <1>5 DEF e

LEMMA DeckInvariant == ReviewSpec => []DeckInv
<1>1. ReviewInit => DeckInv
  BY DEF ReviewInit, Init, DeckInv, Passes
<1>2. DeckInv /\ [ReviewNext]_reviewVars => DeckInv'
  <2>1. SUFFICES ASSUME DeckInv, [ReviewNext]_reviewVars PROVE DeckInv'
    OBVIOUS
  <2>2. CASE RunLLMProvider
    <3>1. answer' = answer /\ answer \in Answers /\ total' = total
      BY <2>1, <2>2 DEF RunLLMProvider, DeckInv
    <3>2. CASE stage' = "failed"
      BY <3>1, <3>2 DEF DeckInv, Passes
    <3>3. CASE stage' # "failed"
      <4>1. given' = Understood(answer) /\ deck' = given' /\ stage' = "normalise"
        BY <2>2, <3>3 DEF RunLLMProvider
      <4>2. SlidesGiven(answer.slides)
        BY <3>1, DeckAssumption
      <4>3. Understood(answer) = answer.slides \/ Understood(answer) = <<>>
        BY DEF Understood
      <4>4. SlidesGiven(<<>>)
        BY DEF SlidesGiven
      <4>5. SlidesGiven(given')
        BY <4>1, <4>2, <4>3, <4>4
      <4>6. AllKept("normalise", deck', given')
        BY <4>1, <4>5 DEF SlidesGiven, AllKept, Kept, GivenSlide, Drafted
      <4> QED
        BY <3>1, <4>1, <4>6 DEF DeckInv
    <3> QED
      BY <3>2, <3>3
  <2>3. ASSUME stage = "normalise" \/ stage = "infer" \/ stage = "correct" \/ stage = "complete" \/ stage = "constrain"
        PROVE  /\ AllKept(stage, deck, given) /\ DOMAIN deck = 1 .. Len(given) /\ Len(given) \in Nat
               /\ \A i \in 1 .. Len(given) : i \in Nat
    <3>1. AllKept(stage, deck, given)
      BY <2>1, <2>3 DEF DeckInv, Passes
    <3> QED
      BY <3>1 DEF AllKept
  <2>4. CASE NormaliseSlideFields
    <3>1. /\ stage = "normalise" /\ stage' = "infer" /\ answer' = answer /\ given' = given
          /\ deck' = [i \in DOMAIN deck |-> Normalised(deck[i])]
      BY <2>4 DEF NormaliseSlideFields
    <3>2. \A i \in 1 .. Len(given) :
             GivenSlide(given[i], i) /\ Kept("normalise", deck[i], given[i], i)
             => Kept("infer", deck'[i], given[i], i)
      BY <2>3, <3>1, KeptByPass
    <3>3. AllKept("infer", deck', given)
      BY <2>3, <3>1, <3>2, AllByOne
    <3> QED
      BY <2>1, <3>1, <3>3 DEF DeckInv
  <2>5. CASE InferSlideTypes
    <3>1. /\ stage = "infer" /\ stage' = "correct" /\ answer' = answer /\ given' = given
          /\ deck' = [i \in DOMAIN deck |-> TypeInferred(deck[i], i)]
      BY <2>5 DEF InferSlideTypes
    <3>2. \A i \in 1 .. Len(given) :
             GivenSlide(given[i], i) /\ Kept("infer", deck[i], given[i], i)
             => Kept("correct", deck'[i], given[i], i)
      BY <2>3, <3>1, KeptByPass
    <3>3. AllKept("correct", deck', given)
      BY <2>3, <3>1, <3>2, AllByOne
    <3> QED
      BY <2>1, <3>1, <3>3 DEF DeckInv
  <2>6. CASE AutoCorrect
    <3>1. /\ stage = "correct" /\ stage' = "complete" /\ answer' = answer /\ given' = given
          /\ deck' = IF Conforms(deck) THEN deck ELSE [i \in DOMAIN deck |-> Corrected(deck[i])]
      BY <2>6 DEF AutoCorrect
    <3>2. \A i \in 1 .. Len(given) :
             GivenSlide(given[i], i) /\ Kept("correct", deck[i], given[i], i)
             => Kept("complete", deck'[i], given[i], i)
      <4>1. CASE Conforms(deck)
        <5>1. \A i \in 1 .. Len(given) : SlideConforms(deck[i])
          BY <2>3, <3>1, <4>1 DEF Conforms
        <5> QED
          BY <2>3, <3>1, <4>1, <5>1, KeptByPass
      <4>2. CASE ~Conforms(deck)
        BY <2>3, <3>1, <4>2, KeptByPass
      <4> QED
        BY <4>1, <4>2
    <3>3. DOMAIN deck' = DOMAIN deck /\ deck' = [i \in DOMAIN deck' |-> deck'[i]]
      <4>1. deck = [i \in DOMAIN deck |-> deck[i]]
        BY <2>3, <3>1 DEF AllKept
      <4> QED
        BY <3>1, <4>1
    <3>4. AllKept("complete", deck', given)
      BY <2>3, <3>1, <3>2, <3>3, AllByOne
    <3> QED
      BY <2>1, <3>1, <3>4 DEF DeckInv
  <2>7. CASE ValidateContentCompleteness
    <3>1. /\ stage = "complete" /\ stage' = "constrain" /\ answer' = answer /\ given' = given
          /\ deck' = [i \in DOMAIN deck |-> Completed(deck[i])]
      BY <2>7 DEF ValidateContentCompleteness
    <3>2. \A i \in 1 .. Len(given) :
             GivenSlide(given[i], i) /\ Kept("complete", deck[i], given[i], i)
             => Kept("constrain", deck'[i], given[i], i)
      BY <2>3, <3>1, KeptByPass
    <3>3. AllKept("constrain", deck', given)
      BY <2>3, <3>1, <3>2, AllByOne
    <3> QED
      BY <2>1, <3>1, <3>3 DEF DeckInv
  <2>8. CASE ApplyContentConstraints
    <3>1. /\ stage = "constrain" /\ stage' = "done" /\ answer' = answer /\ given' = given
          /\ deck' = Constrained(deck) /\ total' = Len(deck')
      BY <2>8 DEF ApplyContentConstraints
    <3>2. Repaired(deck', given')
      BY <2>3, <3>1, RepairedByConstraints
    <3> QED
      BY <2>1, <3>1, <3>2 DEF DeckInv, Passes
  <2>9. CASE RefineInBatches
    <3>1. /\ stage = "done" /\ stage' \in {"failed", "refined"}
          /\ answer' = answer /\ given' = given /\ total' = total
      BY <2>9 DEF RefineInBatches
    <3>2. PICK icons \in IconAnswers(deck), highlights \in HighlightAnswers(deck) :
            deck' = Refined(deck, icons, highlights)
      BY <2>9 DEF RefineInBatches
    <3>3. Repaired(deck, given) /\ total = Len(deck)
      BY <2>1, <3>1 DEF DeckInv
    <3>4. Repaired(deck', given') /\ total' = Len(deck')
      BY <3>1, <3>2, <3>3, RefinedDeck
    <3> QED
      BY <2>1, <3>1, <3>4 DEF DeckInv, Passes
  <2>10. CASE RefineAlone
    BY <2>1, <2>10 DEF RefineAlone, DeckInv, Passes
  <2>11. CASE ScorePresentation
    <3>1. /\ stage = "refined" /\ stage' = "scored" /\ answer' = answer /\ given' = given /\ deck' = deck
          /\ total' = total
      BY <2>11 DEF ScorePresentation
    <3> QED
      BY <2>1, <3>1 DEF DeckInv, Passes
  <2>12. CASE UNCHANGED reviewVars
    BY <2>1, <2>12 DEF DeckInv, reviewVars
  <2> QED
    BY <2>1, <2>2, <2>4, <2>5, <2>6, <2>7, <2>8, <2>9, <2>10, <2>11, <2>12 DEF ReviewNext, Validate, Next
<1> QED
  BY <1>1, <1>2, PTL DEF ReviewSpec

(* From whatever mixture of shapes the LLM answered with, the deck can be  *)
(* shown: every slide has what its type needs, but for rows and sides that *)
(* were given empty, and the layout of its type, the deck is framed and    *)
(* numbered, and the texts fit (validate, all its passes).                 *)
THEOREM DecksArePresentable == ReviewSpec => []DeckIsPresentable
<1>1. DeckInv => DeckIsPresentable
  <2>1. SUFFICES ASSUME DeckInv, Done PROVE EverySlideRenders /\ DeckIsFramed /\ TextsFit
    BY DEF DeckIsPresentable
  <2>2. total = Len(deck) /\ Repaired(deck, given)
    BY <2>1 DEF DeckInv, Done
  <2>3. /\ DOMAIN deck = 1 .. Len(deck) /\ \A k \in 1 .. Len(deck) : FinalSlide(deck[k], given) /\ deck[k].number = k
        /\ Opening(deck[1]) /\ deck[1].of = IF given = <<>> THEN 0 ELSE 1
        /\ deck[Len(deck)].type = "title"
    BY <2>2 DEF Repaired
  <2>4. EverySlideRenders
    BY <2>3 DEF FinalSlide, EverySlideRenders
  <2>5. DeckIsFramed
    BY <2>2, <2>3 DEF DeckIsFramed, Opening, Last
  <2>6. TextsFit
    BY <2>3 DEF FinalSlide, Fits, TextsFit
  <2> QED
    BY <2>4, <2>5, <2>6
<1> QED
  BY <1>1, DeckInvariant, PTL

-----------------------------------------------------------------------------
(* The scores.                                                             *)

LEMMA ScoredTypeIs ==
  ASSUME NEW t, NEW gs, FinalSlide(t, gs)
  PROVE  ScoredType(t) = IF t.type = "metric" THEN "content" ELSE t.type
<1>1. t.type \in SlideTypes /\ t.hint = TypeToHint[t.type]
  BY DEF FinalSlide
<1>2. CASE t.type = "metric"
  <2>1. t.hint = "highlight-metric"
    BY <1>1, <1>2 DEF TypeToHint
  <2> QED
    BY <1>2, <2>1 DEF ScoredType, SchemaTypes
<1>3. CASE t.type = "content"
  <2>1. t.hint = "bullet-left"
    BY <1>1, <1>3 DEF TypeToHint
  <2> QED
    BY <1>3, <2>1 DEF ScoredType, SchemaTypes
<1>4. CASE t.type \notin {"metric", "content"}
  BY <1>1, <1>4 DEF ScoredType, SchemaTypes
<1> QED
  BY <1>2, <1>3, <1>4

(* What the slides of a deck have in common is counted in natural numbers. *)
LEMMA CountType ==
  ASSUME NEW N \in Nat, NEW S \in SUBSET (1 .. N)
  PROVE  IsFiniteSet(S) /\ Count(S) \in Nat
<1>1. IsFiniteSet(1 .. N)
  BY FS_Interval
<1>2. IsFiniteSet(S)
  BY <1>1, FS_Subset
<1> QED
  BY <1>2, FS_CardinalityType DEF Count

LEMMA NoPenalty == \A p \in Nat, most \in Nat : Penalty(p, 0, most) = 0
  BY DEF Penalty, AtMost

LEMMA NothingCounted == Count({}) = 0
  BY FS_EmptySet DEF Count

(* A deck without overflow slides loses nothing for its data.              *)
LEMMA DataIsAccurate ==
  ASSUME NEW d, NEW g, Repaired(d, g), Len(d) = Len(g) + 1
  PROVE  DataAccuracy(d) = Points(10)
<1> DEFINE charts == OfTypes(d, {"chart"})
           tables == OfTypes(d, {"table"})
           comparisons == OfTypes(d, {"comparison"})
<1>1. /\ DOMAIN d = 1 .. Len(d) /\ Len(d) \in Nat /\ \A k \in 1 .. Len(d) : FinalSlide(d[k], g)
      /\ d[Len(d)].type = "title" /\ \A k \in 1 .. Len(d) - 1 : d[k].of # 0
  BY DEF Repaired
<1>2. ASSUME NEW k \in 1 .. Len(d), ScoredType(d[k]) \in {"chart", "table", "comparison"}
      PROVE  d[k].type = ScoredType(d[k]) /\ d[k].of # 0 /\ Renders(d[k], g[d[k].of])
  <2>1. FinalSlide(d[k], g)
    BY <1>1
  <2>2. d[k].type = ScoredType(d[k])
    BY <2>1, <1>2, ScoredTypeIs
  <2>3. k # Len(d)
    BY <1>1, <1>2, <2>2
  <2>4. k \in 1 .. Len(d) - 1
    BY <1>1, <2>3
  <2> QED
    BY <1>1, <2>1, <2>2, <2>4 DEF FinalSlide
<1>3. {i \in charts : d[i].chart = "none"} = {} /\ ~ \E i \in charts : d[i].of = 0
  <2>1. ASSUME NEW i \in charts PROVE d[i].chart # "none" /\ d[i].of # 0
    <3>1. i \in 1 .. Len(d) /\ ScoredType(d[i]) = "chart"
      BY <1>1 DEF OfTypes
    <3>2. d[i].type = "chart" /\ d[i].of # 0 /\ Renders(d[i], g[d[i].of])
      BY <3>1, <1>2
    <3> QED
      BY <3>2 DEF Renders, Flattened, ShownAs
  <2> QED
    BY <2>1
<1>4. {i \in tables : d[i].table = "none"} = {}
  <2>1. ASSUME NEW i \in tables PROVE d[i].table # "none"
    <3>1. i \in 1 .. Len(d) /\ ScoredType(d[i]) = "table"
      BY <1>1 DEF OfTypes
    <3>2. d[i].type = "table" /\ Renders(d[i], g[d[i].of])
      BY <3>1, <1>2
    <3> QED
      BY <3>2 DEF Renders, Flattened, ShownAs
  <2> QED
    BY <2>1
<1>5. {i \in comparisons : d[i].comparison = "none"} = {}
  <2>1. ASSUME NEW i \in comparisons PROVE d[i].comparison # "none"
    <3>1. i \in 1 .. Len(d) /\ ScoredType(d[i]) = "comparison"
      BY <1>1 DEF OfTypes
    <3>2. d[i].type = "comparison" /\ Renders(d[i], g[d[i].of])
      BY <3>1, <1>2
    <3> QED
      BY <3>2 DEF Renders, Flattened, ShownAs
  <2> QED
    BY <2>1
<1>6. DataAccuracy(d) = Bounded(Points(10) - Penalty(70, 0, 210) - Penalty(70, 0, 210) - Penalty(35, 0, 140) - 0)
  <2> DEFINE a == {i \in charts : d[i].chart = "none"}
             b == {i \in tables : d[i].table = "none"}
             c == {i \in comparisons : d[i].comparison = "none"}
             e == If(\E i \in charts : d[i].of = 0, 35)
  <2>1. DataAccuracy(d) = Bounded(Points(10) - Penalty(70, Count(a), 210) - Penalty(70, Count(b), 210)
                                  - Penalty(35, Count(c), 140) - e)
    BY DEF DataAccuracy
  <2>2. e = 0
    BY <1>3 DEF If
  <2>3. a = {} /\ b = {} /\ c = {}
    BY <1>3, <1>4, <1>5
  <2> HIDE DEF a, b, c, e
  <2> QED
    BY <2>1, <2>2, <2>3, NothingCounted
<1> QED
  BY <1>6, NoPenalty DEF Bounded, Points

(* ... and for its texts only what jargon costs.                           *)
LEMMA TextsAreClear ==
  ASSUME NEW d, NEW g, Repaired(d, g), Len(d) = Len(g) + 1, NEW jargon \in BOOLEAN
  PROVE  Clarity(d, jargon) = Points(10) - If(jargon, Points(1))
<1> DEFINE long == {i \in DOMAIN d : LongTitle(d[i])}
           full == {i \in DOMAIN d : Len(Bullets(d[i])) > BulletLimit}
           words == [i \in DOMAIN d |-> Count({k \in DOMAIN Bullets(d[i]) : Bullets(d[i])[k].words > WordLimit})]
<1>0. /\ MaxTitle \in Nat /\ MaxBullets \in Nat /\ MaxWords \in Nat
      /\ TitleLimit \in Nat /\ MaxTitle <= TitleLimit /\ 2 <= TitleLimit
      /\ BulletLimit \in Nat /\ MaxBullets <= BulletLimit
      /\ WordLimit \in Nat /\ MaxWords <= WordLimit
  BY DeckAssumption, ReviewAssumption
<1>1. /\ DOMAIN d = 1 .. Len(d) /\ Len(d) \in Nat /\ \A k \in 1 .. Len(d) : FinalSlide(d[k], g)
      /\ d[Len(d)].title.words = 2 /\ Bullets(d[Len(d)]) = <<>>
      /\ \A k \in 1 .. Len(d) - 1 : d[k].of # 0
  BY DEF Repaired
<1>2. ASSUME NEW k \in 1 .. Len(d)
      PROVE  /\ ~LongTitle(d[k]) /\ ~(Len(Bullets(d[k])) > BulletLimit)
             /\ \A b \in Range(Bullets(d[k])) : ~(b.words > WordLimit)
             /\ Bullets(d[k]) \in Seq(Bullet)
  <2>1. /\ d[k].bullets \in SUBSET Seq(Bullet) /\ d[k].title.words \in Nat
        /\ Fits(d[k])
    BY <1>1, SlideFields DEF FinalSlide
  <2>2. Bullets(d[k]) \in Seq(Bullet)
    BY <2>1, BulletsType
  <2>3. \A b \in Range(Bullets(d[k])) : ~(b.words > WordLimit)
    <3>1. SUFFICES ASSUME NEW b \in Range(Bullets(d[k])) PROVE ~(b.words > WordLimit)
      OBVIOUS
    <3>2. b \in Bullet /\ b.words <= MaxWords
      BY <2>1, <2>2, <3>1 DEF Fits, Range
    <3>3. b.words \in Nat
      BY <3>2 DEF Bullet
    <3> QED
      BY <1>0, <3>2, <3>3
  <2>4. Len(Bullets(d[k])) \in Nat
    BY <2>2
  <2>5. CASE k = Len(d)
    <3>1. d[k].title.words = 2 /\ Len(Bullets(d[k])) = 0
      BY <1>1, <2>5
    <3> QED
      BY <1>0, <2>2, <2>3, <3>1 DEF LongTitle
  <2>6. CASE k # Len(d)
    <3>1. k \in 1 .. Len(d) - 1
      BY <1>1, <2>6
    <3>2. d[k].title.words <= MaxTitle /\ Len(Bullets(d[k])) <= MaxBullets
      BY <1>1, <2>1, <3>1 DEF Fits
    <3> QED
      BY <1>0, <2>1, <2>2, <2>3, <2>4, <3>2 DEF LongTitle
  <2> QED
    BY <2>5, <2>6
<1>3. long = {} /\ full = {}
  BY <1>1, <1>2
<1>4. words \in Seq(Nat) /\ Sum(words) = 0
  <2>1. ASSUME NEW i \in 1 .. Len(d) PROVE words[i] = 0
    <3>1. {k \in DOMAIN Bullets(d[i]) : Bullets(d[i])[k].words > WordLimit} = {}
      BY <1>2 DEF Range
    <3> QED
      BY <1>1, <3>1, NothingCounted
  <2>2. DOMAIN words = 1 .. Len(d) /\ words = [i \in 1 .. Len(d) |-> words[i]]
    BY <1>1
  <2> HIDE DEF words
  <2>3. words \in [1 .. Len(d) -> Nat]
    BY <2>1, <2>2
  <2>4. words \in Seq(Nat) /\ Len(words) = Len(d)
    BY <1>1, <2>3
  <2>5. \A i \in 1 .. Len(words) : words[i] = 0
    BY <2>1, <2>4
  <2> QED
    BY <2>4, <2>5, SumOfZeros
<1>5. Clarity(d, jargon) = Bounded(Points(10) - Penalty(21, Count(long), 140) - Penalty(35, Count(full), 140)
                                   - Penalty(14, Sum(words), 140) - If(jargon, 70))
  BY DEF Clarity
<1>6. Clarity(d, jargon) = Bounded(Points(10) - Penalty(21, 0, 140) - Penalty(35, 0, 140)
                                   - Penalty(14, 0, 140) - If(jargon, 70))
  <2> HIDE DEF long, full, words
  <2> QED
    BY <1>3, <1>4, <1>5, NothingCounted
<1>7. Clarity(d, jargon) = Bounded(Points(10) - If(jargon, 70))
  BY <1>6, NoPenalty DEF Points, If
<1> QED
  BY <1>7 DEF Bounded, Points, If

(* The scorer finds nothing to object to in the data of a deck that the    *)
(* validation agent repaired without splitting a slide, and in its texts   *)
(* nothing but jargon, so the two agents agree on what a slide needs       *)
(* (validate, then score).                                                 *)
THEOREM RepairedDecksAreAccepted == ReviewSpec => []RepairedDeckIsAccepted
<1>1. DeckInv => RepairedDeckIsAccepted
  <2>1. SUFFICES ASSUME DeckInv, stage = "scored", Len(deck) = Len(given) + 1
                 PROVE  /\ DataAccuracy(deck) = Points(10)
                        /\ \A jargon \in BOOLEAN : Clarity(deck, jargon) = Points(10) - If(jargon, Points(1))
    BY DEF RepairedDeckIsAccepted
  <2>2. Repaired(deck, given)
    BY <2>1 DEF DeckInv
  <2> QED
    BY <2>1, <2>2, DataIsAccurate, TextsAreClear
<1> QED
  BY <1>1, DeckInvariant, PTL

(* The order of the sections is a sequence of them.                        *)
LEMMA FoundOrderType ==
  ASSUME NEW named \in Seq(0 .. 7)
  PROVE  FoundOrder(named) \in Seq(0 .. 7)
<1> DEFINE N == Len(named)
           R == Seq(0 .. 7)
           next(n, x) == IF named[n] = 0 \/ Contains(x, named[n]) THEN x ELSE Append(x, named[n])
           by == [n \in 1 .. N |-> [x \in R |-> next(n, x)]]
           found == CHOOSE g : g = [n \in 0 .. Len(named) |-> IF n = 0 THEN <<>>
                                      ELSE IF named[n] = 0 \/ Contains(g[n - 1], named[n]) THEN g[n - 1]
                                      ELSE Append(g[n - 1], named[n])]
<1>0. N \in Nat /\ \A n \in 1 .. N : named[n] \in 0 .. 7
  OBVIOUS
<1>1. <<>> \in R /\ by \in Steps(N, R)
  <2>1. \A n \in 1 .. N, x \in R : next(n, x) \in R
    BY <1>0
  <2> HIDE DEF next, R
  <2>2. by \in Steps(N, R)
    BY <2>1 DEF Steps
  <2> QED
    BY <2>2 DEF R
<1>2. PICK f : Solves(f, N, R, <<>>, by)
  <2> HIDE DEF by, N, R
  <2> QED
    BY <1>0, <1>1, RecursionExists
<1> HIDE DEF R
<1>3. f \in [0 .. N -> R] /\ f[0] = <<>>
  BY <1>2 DEF Solves
<1>4. ASSUME NEW n \in 1 .. N PROVE f[n] = next(n, f[n - 1])
  <2>1. f[n] = by[n][f[n - 1]]
    <3> HIDE DEF by
    <3> QED
      BY <1>2 DEF Solves
  <2>2. n - 1 \in 0 .. N
    BY <1>0
  <2>3. f[n - 1] \in R
    BY <2>2, <1>3
  <2> HIDE DEF next
  <2> QED
    BY <2>1, <2>3
<1>5. f = [n \in 0 .. Len(named) |-> IF n = 0 THEN <<>>
             ELSE IF named[n] = 0 \/ Contains(f[n - 1], named[n]) THEN f[n - 1]
             ELSE Append(f[n - 1], named[n])]
  <2>1. ASSUME NEW n \in 0 .. N
        PROVE  f[n] = IF n = 0 THEN <<>>
                      ELSE IF named[n] = 0 \/ Contains(f[n - 1], named[n]) THEN f[n - 1]
                      ELSE Append(f[n - 1], named[n])
    <3>1. n = 0 \/ n \in 1 .. N
      BY <1>0
    <3> QED
      BY <3>1, <1>0, <1>3, <1>4
  <2>2. f = [n \in 0 .. N |-> f[n]]
    BY <1>3
  <2> QED
    BY <2>1, <2>2
<1>6. found = [n \in 0 .. Len(named) |-> IF n = 0 THEN <<>>
                 ELSE IF named[n] = 0 \/ Contains(found[n - 1], named[n]) THEN found[n - 1]
                 ELSE Append(found[n - 1], named[n])]
  BY <1>5
<1>7. FoundOrder(named) = found[N]
  BY DEF FoundOrder
<1> HIDE DEF found
<1>8. found[0] = <<>>
  <2>1. 0 \in 0 .. N
    BY <1>0
  <2> QED
    BY <2>1, <1>6
<1>9. ASSUME NEW n \in 1 .. N, found[n - 1] \in R PROVE found[n] = by[n][found[n - 1]]
  <2>1. n \in 0 .. N /\ n # 0
    BY <1>0
  <2>2. found[n] = next(n, found[n - 1])
    BY <2>1, <1>6
  <2> HIDE DEF next
  <2> QED
    BY <2>2, <1>9
<1>10. found[N] = f[N]
  <2>1. Follows(found, N, R, <<>>, by) /\ N \in Nat
    <3> HIDE DEF by
    <3> QED
      BY <1>0, <1>8, <1>9 DEF Follows
  <2> HIDE DEF by, N
  <2> QED
    BY <1>2, <2>1, SolutionsAgree
<1>11. f[N] \in R
  <2>1. N \in 0 .. N
    BY <1>0
  <2> QED
    BY <2>1, <1>3
<1> QED
  BY <1>7, <1>10, <1>11 DEF R

(* A dimension is a number, and so is a penalty.                           *)
LEMMA PenaltyType == \A p \in Nat, n \in Nat, most \in Nat : Penalty(p, n, most) \in Int
  BY DEF Penalty, AtMost
LEMMA IfType == \A c \in BOOLEAN, n \in Nat : If(c, n) \in Int
  BY DEF If
LEMMA BoundedKeeps ==
  /\ \A n \in Int : Bounded(n) \in Int
  /\ \A m \in Int, n \in Int : m <= n => Bounded(m) <= Bounded(n)
  /\ \A m \in Int, n \in Int : m - 70 <= n => Bounded(m) - 70 <= Bounded(n)
  BY DEF Bounded, Points

(* Two decks that differ in icons and highlights only.                     *)
Alike(d, e) ==
  /\ d \in Seq(Slide) /\ e \in Seq(Slide) /\ Len(e) = Len(d) /\ Len(d) >= 1
  /\ \A k \in 1 .. Len(d) :
        /\ e[k].type = d[k].type /\ e[k].hint = d[k].hint /\ e[k].of = d[k].of
        /\ e[k].chart = d[k].chart /\ e[k].table = d[k].table /\ e[k].comparison = d[k].comparison
        /\ e[k].title = d[k].title /\ Bullets(e[k]) = Bullets(d[k])

LEMMA AlikeScored ==
  ASSUME NEW d, NEW e, Alike(d, e)
  PROVE  /\ Len(d) \in Nat /\ Len(d) >= 1 /\ Len(e) = Len(d)
         /\ DOMAIN d = 1 .. Len(d) /\ DOMAIN e = DOMAIN d
         /\ \A k \in DOMAIN d : ScoredType(e[k]) = ScoredType(d[k])
         /\ \A types : OfTypes(e, types) = OfTypes(d, types)
         /\ \A types : OfTypes(d, types) \subseteq DOMAIN d
<1>1. /\ Len(d) \in Nat /\ Len(d) >= 1 /\ Len(e) = Len(d) /\ DOMAIN d = 1 .. Len(d) /\ DOMAIN e = DOMAIN d
      /\ \A k \in DOMAIN d : e[k].type = d[k].type /\ e[k].hint = d[k].hint
  BY DEF Alike
<1>2. \A k \in DOMAIN d : ScoredType(e[k]) = ScoredType(d[k])
  BY <1>1 DEF ScoredType
<1>3. \A types : OfTypes(e, types) = OfTypes(d, types)
  BY <1>1, <1>2 DEF OfTypes
<1>4. \A types : OfTypes(d, types) \subseteq DOMAIN d
  BY DEF OfTypes
<1> QED
  BY <1>1, <1>2, <1>3, <1>4

LEMMA DepthKept ==
  ASSUME NEW d, NEW e, Alike(d, e)
  PROVE  ContentDepth(e) = ContentDepth(d) /\ ContentDepth(d) \in Int
<1> DEFINE n == Len(d)
           content == OfTypes(d, {"content", "chart", "table", "comparison"})
           data == OfTypes(d, {"chart", "table"})
           empty(x) == {i \in content : /\ Bullets(x[i]) = <<>>
                                        /\ x[i].chart = "none" /\ x[i].table = "none"}
           depth(none, bullets) ==
             Bounded(Points(10) - If(10 * Count(content) < 6 * n, 140)
                     - Penalty(35, Count(none), 210)
                     - If(content = {} \/ bullets < 2 * Count(content), 105)
                     - If(100 * Count(data) < 15 * n, 70))
<1>1. n \in Nat /\ content \subseteq 1 .. n /\ data \subseteq 1 .. n
      /\ OfTypes(e, {"content", "chart", "table", "comparison"}) = content /\ OfTypes(e, {"chart", "table"}) = data
      /\ Len(e) = n /\ DOMAIN e = DOMAIN d /\ DOMAIN d = 1 .. n
  BY AlikeScored
<1>2. \A i \in 1 .. n : Bullets(e[i]) = Bullets(d[i]) /\ e[i].chart = d[i].chart /\ e[i].table = d[i].table
  BY DEF Alike
<1> HIDE DEF content, data
<1>3. empty(e) = empty(d) /\ empty(d) \subseteq 1 .. n
  BY <1>1, <1>2
<1>4. BulletCount(e, content) = BulletCount(d, content)
  BY <1>1, <1>2 DEF BulletCount
<1>5. ContentDepth(d) = depth(empty(d), BulletCount(d, content))
  BY DEF ContentDepth, content, data
<1>6. ContentDepth(e) = depth(empty(e), BulletCount(e, content))
  BY <1>1 DEF ContentDepth, content, data
<1>7. depth(empty(d), BulletCount(d, content)) \in Int
  <2> DEFINE a == If(10 * Count(content) < 6 * n, 140)
             b == Penalty(35, Count(empty(d)), 210)
             c == If(content = {} \/ BulletCount(d, content) < 2 * Count(content), 105)
             f == If(100 * Count(data) < 15 * n, 70)
  <2>1. Count(empty(d)) \in Nat
    <3> HIDE DEF empty
    <3> QED
      BY <1>1, <1>3, CountType
  <2>2. b \in Int
    BY <2>1, PenaltyType
  <2>3. a \in Int /\ c \in Int /\ f \in Int
    BY DEF If
  <2> HIDE DEF a, b, c, f
  <2>4. Points(10) - a - b - c - f \in Int
    BY <2>2, <2>3 DEF Points
  <2>5. Bounded(Points(10) - a - b - c - f) \in Int
    BY <2>4, BoundedKeeps
  <2> QED
    BY <2>5 DEF a, b, c, f
<1> QED
  BY <1>3, <1>4, <1>5, <1>6, <1>7

LEMMA ClarityKept ==
  ASSUME NEW d, NEW e, Alike(d, e), NEW jargon \in BOOLEAN
  PROVE  Clarity(e, jargon) = Clarity(d, jargon) /\ Clarity(d, jargon) \in Int
<1> DEFINE n == Len(d)
           long(x) == {i \in DOMAIN x : LongTitle(x[i])}
           full(x) == {i \in DOMAIN x : Len(Bullets(x[i])) > BulletLimit}
           wordy(b) == Count({k \in DOMAIN b : b[k].words > WordLimit})
           words(x) == [i \in DOMAIN x |-> wordy(Bullets(x[i]))]
           clarity(l, f, w) == Bounded(Points(10) - Penalty(21, l, 140) - Penalty(35, f, 140)
                                       - Penalty(14, w, 140) - If(jargon, 70))
<1>1. n \in Nat /\ DOMAIN e = DOMAIN d /\ DOMAIN d = 1 .. n
  BY AlikeScored
<1>2. \A i \in 1 .. n : Bullets(e[i]) = Bullets(d[i]) /\ e[i].title = d[i].title /\ d[i] \in Slide
  BY <1>1 DEF Alike
<1>3. long(e) = long(d) /\ long(d) \subseteq 1 .. n
  BY <1>1, <1>2 DEF LongTitle
<1>4. full(e) = full(d) /\ full(d) \subseteq 1 .. n
  BY <1>1, <1>2
<1>5. words(e) = words(d)
  <2> HIDE DEF wordy
  <2> QED
    BY <1>1, <1>2
<1>6. words(d) \in Seq(Nat)
  <2>1. ASSUME NEW i \in 1 .. n PROVE words(d)[i] \in Nat
    <3> DEFINE b == Bullets(d[i])
               S == {k \in DOMAIN b : b[k].words > WordLimit}
    <3>1. b \in Seq(Bullet)
      BY <1>2, SlideFields, BulletsType
    <3> HIDE DEF b
    <3>2. Len(b) \in Nat /\ S \in SUBSET (1 .. Len(b))
      BY <3>1
    <3>3. Count(S) \in Nat
      <4> HIDE DEF S
      <4> QED
        BY <3>2, CountType
    <3>4. words(d)[i] = Count(S)
      BY <1>1 DEF b
    <3> QED
      BY <3>3, <3>4
  <2>2. words(d) = [i \in 1 .. n |-> words(d)[i]]
    BY <1>1
  <2> DEFINE w == words(d)
  <2>3. w = [i \in 1 .. n |-> w[i]] /\ \A i \in 1 .. n : w[i] \in Nat
    BY <2>1, <2>2
  <2> HIDE DEF w
  <2>4. w \in [1 .. n -> Nat]
    BY <2>3
  <2>5. w \in Seq(Nat)
    BY <1>1, <2>4
  <2> QED
    BY <2>5 DEF w
<1>7. Clarity(d, jargon) = clarity(Count(long(d)), Count(full(d)), Sum(words(d)))
  BY DEF Clarity
<1>8. Clarity(e, jargon) = clarity(Count(long(e)), Count(full(e)), Sum(words(e)))
  BY DEF Clarity
<1> HIDE DEF long, full, words
<1>9. Count(long(d)) \in Nat /\ Count(full(d)) \in Nat /\ Sum(words(d)) \in Nat
  BY <1>1, <1>3, <1>4, <1>6, CountType, SumType
<1>10. clarity(Count(long(d)), Count(full(d)), Sum(words(d))) \in Int
  <2> DEFINE a == Penalty(21, Count(long(d)), 140)
             b == Penalty(35, Count(full(d)), 140)
             c == Penalty(14, Sum(words(d)), 140)
             j == If(jargon, 70)
  <2>1. a \in Int /\ b \in Int /\ c \in Int /\ j \in Int
    BY <1>9, PenaltyType, IfType
  <2> HIDE DEF a, b, c, j
  <2>2. Points(10) - a - b - c - j \in Int
    BY <2>1 DEF Points
  <2>3. Bounded(Points(10) - a - b - c - j) \in Int
    BY <2>2, BoundedKeeps
  <2> QED
    BY <2>3 DEF a, b, c, j
<1> QED
  BY <1>3, <1>4, <1>5, <1>7, <1>8, <1>10

LEMMA AccuracyKept ==
  ASSUME NEW d, NEW e, Alike(d, e)
  PROVE  DataAccuracy(e) = DataAccuracy(d) /\ DataAccuracy(d) \in Int
<1> DEFINE n == Len(d)
           charts == OfTypes(d, {"chart"})
           tables == OfTypes(d, {"table"})
           comparisons == OfTypes(d, {"comparison"})
           a(x) == {i \in charts : x[i].chart = "none"}
           b(x) == {i \in tables : x[i].table = "none"}
           c(x) == {i \in comparisons : x[i].comparison = "none"}
           f(x) == If(\E i \in charts : x[i].of = 0, 35)
           accuracy(k, l, m, o) ==
             Bounded(Points(10) - Penalty(70, k, 210) - Penalty(70, l, 210) - Penalty(35, m, 140) - o)
<1>1. /\ n \in Nat /\ charts \subseteq 1 .. n /\ tables \subseteq 1 .. n /\ comparisons \subseteq 1 .. n
      /\ OfTypes(e, {"chart"}) = charts /\ OfTypes(e, {"table"}) = tables
      /\ OfTypes(e, {"comparison"}) = comparisons
  BY AlikeScored
<1>2. \A i \in 1 .. n : /\ e[i].chart = d[i].chart /\ e[i].table = d[i].table
                        /\ e[i].comparison = d[i].comparison /\ e[i].of = d[i].of
  BY DEF Alike
<1> DEFINE sum(x, p, q, r) ==
             accuracy(Count({i \in p : x[i].chart = "none"}), Count({i \in q : x[i].table = "none"}),
                      Count({i \in r : x[i].comparison = "none"}), If(\E i \in p : x[i].of = 0, 35))
<1>3. DataAccuracy(d) = accuracy(Count(a(d)), Count(b(d)), Count(c(d)), f(d))
  BY DEF DataAccuracy
<1>4. DataAccuracy(e) = accuracy(Count(a(e)), Count(b(e)), Count(c(e)), f(e))
  <2>1. DataAccuracy(e) = sum(e, OfTypes(e, {"chart"}), OfTypes(e, {"table"}), OfTypes(e, {"comparison"}))
    BY DEF DataAccuracy
  <2>2. DataAccuracy(e) = sum(e, charts, tables, comparisons)
    <3> HIDE DEF sum, charts, tables, comparisons
    <3> QED
      BY <1>1, <2>1
  <2> QED
    BY <2>2
<1> HIDE DEF sum
<1> HIDE DEF charts, tables, comparisons
<1>5. /\ a(e) = a(d) /\ b(e) = b(d) /\ c(e) = c(d)
      /\ a(d) \subseteq 1 .. n /\ b(d) \subseteq 1 .. n /\ c(d) \subseteq 1 .. n
  BY <1>1, <1>2
<1>6. f(e) = f(d) /\ f(d) \in Int
  <2>1. (\E i \in charts : e[i].of = 0) <=> (\E i \in charts : d[i].of = 0)
    BY <1>1, <1>2
  <2> QED
    BY <2>1 DEF If
<1> HIDE DEF a, b, c, f
<1>7. Count(a(d)) \in Nat /\ Count(b(d)) \in Nat /\ Count(c(d)) \in Nat
  BY <1>1, <1>5, CountType
<1>8. accuracy(Count(a(d)), Count(b(d)), Count(c(d)), f(d)) \in Int
  <2> DEFINE k == Penalty(70, Count(a(d)), 210)
             l == Penalty(70, Count(b(d)), 210)
             m == Penalty(35, Count(c(d)), 140)
  <2>1. k \in Int /\ l \in Int /\ m \in Int
    BY <1>7, PenaltyType
  <2> HIDE DEF k, l, m
  <2>2. Points(10) - k - l - m - f(d) \in Int
    BY <2>1, <1>6 DEF Points
  <2>3. Bounded(Points(10) - k - l - m - f(d)) \in Int
    BY <2>2, BoundedKeeps
  <2> QED
    BY <2>3 DEF k, l, m
<1> QED
  BY <1>3, <1>4, <1>5, <1>6, <1>8

LEMMA CoherenceKept ==
  ASSUME NEW d, NEW e, Alike(d, e)
  PROVE  StructureCoherence(e) = StructureCoherence(d) /\ StructureCoherence(d) \in Int
<1> DEFINE n == Len(d)
           found == FoundOrder(Named(d))
           backward == {k \in 1 .. Len(found) - 1 : found[k + 1] < found[k]}
           a(x) == If(ScoredType(x[1]) # "title", 70)
           b(x) == If(Last(x).title.section # 7, 35)
           coherence(m, k, o, p) ==
             Bounded(Points(10) - 40 * (7 - m) - Penalty(35, k, 140) - o - p)
<1>1. /\ n \in Nat /\ n >= 1 /\ Len(e) = n /\ DOMAIN e = DOMAIN d /\ DOMAIN d = 1 .. n
      /\ \A i \in 1 .. n : ScoredType(e[i]) = ScoredType(d[i])
  BY AlikeScored
<1>2. \A i \in 1 .. n : e[i].title = d[i].title /\ d[i] \in Slide
  BY <1>1 DEF Alike
<1>3. Named(e) = Named(d) /\ Named(d) \in Seq(0 .. 7)
  <2>1. Named(e) = Named(d)
    BY <1>1, <1>2 DEF Named
  <2>2. \A i \in 1 .. n : d[i].title.section \in 0 .. 7
    BY <1>2, SlideFields
  <2>3. Named(d) \in [1 .. n -> 0 .. 7]
    BY <1>1, <2>2 DEF Named
  <2> QED
    BY <1>1, <2>1, <2>3
<1>4. StructureCoherence(d) = coherence(Len(found), Count(backward), a(d), b(d))
  BY DEF StructureCoherence
<1>5. StructureCoherence(e) = coherence(Len(found), Count(backward), a(e), b(e))
  BY <1>3 DEF StructureCoherence
<1>6. found \in Seq(0 .. 7)
  BY <1>3, FoundOrderType
<1> HIDE DEF found
<1>7. Len(found) \in Nat /\ Count(backward) \in Nat
  <2>1. Len(found) \in Nat
    BY <1>6
  <2>2. backward \subseteq 1 .. Len(found)
    BY <2>1
  <2> HIDE DEF backward
  <2> QED
    BY <2>1, <2>2, CountType
<1>8. a(e) = a(d) /\ b(e) = b(d) /\ a(d) \in Int /\ b(d) \in Int
  <2>1. 1 \in 1 .. n /\ n \in 1 .. n
    BY <1>1
  <2>2. Last(e).title = Last(d).title
    BY <1>1, <1>2, <2>1 DEF Last
  <2>3. ScoredType(e[1]) = ScoredType(d[1])
    BY <1>1, <2>1
  <2> QED
    BY <2>2, <2>3 DEF If
<1> HIDE DEF backward, a, b
<1>9. coherence(Len(found), Count(backward), a(d), b(d)) \in Int
  <2> DEFINE m == Len(found)
             k == Penalty(35, Count(backward), 140)
             o == a(d)
             p == b(d)
  <2>1. m \in Int /\ k \in Int /\ o \in Int /\ p \in Int
    BY <1>7, <1>8, PenaltyType
  <2> HIDE DEF m, k, o, p
  <2>2. Points(10) - 40 * (7 - m) - k - o - p \in Int
    BY <2>1 DEF Points
  <2>3. Bounded(Points(10) - 40 * (7 - m) - k - o - p) \in Int
    BY <2>2, BoundedKeeps
  <2> QED
    BY <2>3 DEF m, k, o, p
<1> QED
  BY <1>4, <1>5, <1>8, <1>9

(* Icons and highlights count for one point, which a deck that keeps those *)
(* it has does not lose.                                                   *)
Keeping(d, e) == \A k \in 1 .. Len(d) : KeepsLooks(d[k], e[k])
LEMMA AppealGrows ==
  ASSUME NEW d, NEW e, Alike(d, e)
  PROVE  /\ VisualAppeal(d) \in Int /\ VisualAppeal(e) \in Int
         /\ VisualAppeal(d) - 70 <= VisualAppeal(e)
         /\ Keeping(d, e) => VisualAppeal(d) <= VisualAppeal(e)
<1> DEFINE n == Len(d)
           types(x) == {ScoredType(x[i]) : i \in DOMAIN x}
           dense(x) == {i \in DOMAIN x : Dense(x[i])}
           icons(x) == {i \in DOMAIN x : x[i].icon}
           highlights(x) == {i \in DOMAIN x : x[i].highlight # 0}
           a(x) == If(Count(types(x)) < 2, 140)
           b(x) == If(\E i \in 1 .. Len(x) - 2 : /\ ScoredType(x[i]) = ScoredType(x[i + 1])
                                                 /\ ScoredType(x[i]) = ScoredType(x[i + 2]), 105)
           c(x) == If(10 * (Count(icons(x)) + Count(highlights(x))) < 2 * Len(x), 70)
           appeal(x) == Points(10) - a(x) - b(x) - Penalty(35, Count(dense(x)), 140)
                        - Penalty(21, Count(dense(x)), 105) - c(x)
<1>1. /\ n \in Nat /\ n >= 1 /\ Len(e) = n /\ DOMAIN e = DOMAIN d /\ DOMAIN d = 1 .. n
      /\ \A i \in 1 .. n : ScoredType(e[i]) = ScoredType(d[i])
  BY AlikeScored
<1>2. \A i \in 1 .. n : Bullets(e[i]) = Bullets(d[i])
  BY DEF Alike
<1>3. VisualAppeal(d) = Bounded(appeal(d)) /\ VisualAppeal(e) = Bounded(appeal(e))
  BY DEF VisualAppeal
<1>4. a(e) = a(d) /\ a(d) \in Int
  <2>1. types(e) = types(d)
    BY <1>1
  <2> HIDE DEF types
  <2> QED
    BY <2>1 DEF If
<1>5. b(e) = b(d) /\ b(d) \in Int
  <2>1. \A i \in 1 .. n - 2 : i \in 1 .. n /\ i + 1 \in 1 .. n /\ i + 2 \in 1 .. n
    BY <1>1
  <2>2. (\E i \in 1 .. Len(e) - 2 : ScoredType(e[i]) = ScoredType(e[i + 1]) /\ ScoredType(e[i]) = ScoredType(e[i + 2]))
        <=> (\E i \in 1 .. n - 2 : ScoredType(d[i]) = ScoredType(d[i + 1]) /\ ScoredType(d[i]) = ScoredType(d[i + 2]))
    BY <1>1, <2>1
  <2> QED
    BY <2>2 DEF If
<1>6. dense(e) = dense(d) /\ dense(d) \subseteq 1 .. n
  BY <1>1, <1>2 DEF Dense
<1>7. /\ icons(d) \subseteq 1 .. n /\ icons(e) \subseteq 1 .. n
      /\ Keeping(d, e) => icons(d) \subseteq icons(e)
  BY <1>1 DEF Keeping, KeepsLooks
<1>8. /\ highlights(d) \subseteq 1 .. n /\ highlights(e) \subseteq 1 .. n
      /\ Keeping(d, e) => highlights(d) \subseteq highlights(e)
  BY <1>1 DEF Keeping, KeepsLooks
<1> HIDE DEF a, b, dense, icons, highlights
<1>9. /\ Count(icons(d)) \in Nat /\ Count(icons(e)) \in Nat
      /\ Count(highlights(d)) \in Nat /\ Count(highlights(e)) \in Nat
      /\ Keeping(d, e) => /\ Count(icons(d)) <= Count(icons(e))
                         /\ Count(highlights(d)) <= Count(highlights(e))
      /\ Count(dense(d)) \in Nat
  <2>2. /\ IsFiniteSet(icons(e)) /\ Count(icons(e)) \in Nat /\ Count(icons(d)) \in Nat
        /\ IsFiniteSet(highlights(e)) /\ Count(highlights(e)) \in Nat /\ Count(highlights(d)) \in Nat
        /\ Count(dense(d)) \in Nat
    BY <1>1, <1>6, <1>7, <1>8, CountType
  <2>3. Keeping(d, e) => Count(icons(d)) <= Count(icons(e))
    BY <1>7, <2>2, FS_Subset DEF Count
  <2>4. Keeping(d, e) => Count(highlights(d)) <= Count(highlights(e))
    BY <1>8, <2>2, FS_Subset DEF Count
  <2> QED
    BY <2>2, <2>3, <2>4
<1>10. c(d) \in 0 .. 70 /\ c(e) \in 0 .. 70 /\ (Keeping(d, e) => c(e) <= c(d))
  <2> DEFINE v == Count(icons(d)) + Count(highlights(d))
             w == Count(icons(e)) + Count(highlights(e))
  <2>1. v \in Nat /\ w \in Nat /\ (Keeping(d, e) => v <= w)
    BY <1>9
  <2>2. c(d) = If(10 * v < 2 * n, 70) /\ c(e) = If(10 * w < 2 * n, 70)
    BY <1>1
  <2> HIDE DEF v, w, c
  <2>3. Keeping(d, e) => (10 * w < 2 * n => 10 * v < 2 * n)
    BY <1>1, <2>1
  <2> QED
    BY <2>2, <2>3 DEF If
<1> HIDE DEF c
<1>11. /\ appeal(d) \in Int /\ appeal(e) \in Int /\ appeal(d) - 70 <= appeal(e)
       /\ Keeping(d, e) => appeal(d) <= appeal(e)
  <2> DEFINE k == Penalty(35, Count(dense(d)), 140)
             l == Penalty(21, Count(dense(d)), 105)
             f == a(d)
             g == b(d)
             o == c(d)
             p == c(e)
  <2>1. /\ k \in Int /\ l \in Int /\ f \in Int /\ g \in Int /\ o \in 0 .. 70 /\ p \in 0 .. 70
        /\ Keeping(d, e) => p <= o
    BY <1>4, <1>5, <1>9, <1>10, PenaltyType
  <2>2. appeal(d) = Points(10) - f - g - k - l - o /\ appeal(e) = Points(10) - f - g - k - l - p
    BY <1>4, <1>5, <1>6
  <2> HIDE DEF appeal, k, l, f, g, o, p
  <2> QED
    BY <2>1, <2>2 DEF Points
<1> HIDE DEF appeal
<1> QED
  BY <1>3, <1>11, BoundedKeeps

LEMMA RefinedIsAlike ==
  ASSUME NEW d, NEW g, Repaired(d, g), NEW icons, NEW highlights, NEW e, e = Refined(d, icons, highlights)
  PROVE  Alike(d, e)
<1>1. /\ Repaired(e, g) /\ Len(e) = Len(d)
      /\ \A k \in 1 .. Len(d) :
           /\ e[k].of = d[k].of /\ e[k].type = d[k].type /\ e[k].hint = d[k].hint
           /\ e[k].chart = d[k].chart /\ e[k].table = d[k].table /\ e[k].comparison = d[k].comparison
           /\ e[k].title = d[k].title /\ Bullets(e[k]) = Bullets(d[k])
  BY RefinedDeck
<1>2. d \in Seq(Slide) /\ e \in Seq(Slide) /\ Len(d) >= 1
  BY <1>1 DEF Repaired
<1> QED
  BY <1>1, <1>2 DEF Alike

(* Refinement costs no points unless an answer has an empty text, and then *)
(* a fifth of a point, whichever calls of the LLM fail and whichever slides *)
(* the answers name (enhance_slides, then score).                          *)
THEOREM RefinementPaysAlways == ReviewSpec => RefinementPays
<1> DEFINE loss(jargon) == CompositeScore(deck, jargon) - CompositeScore(deck', jargon)
           Pays == stage = "done" =>
                     \A jargon \in BOOLEAN :
                       /\ loss(jargon) <= 4 * Points(1)
                       /\ (\A i \in DOMAIN deck : KeepsLooks(deck[i], deck'[i])) => loss(jargon) <= 0
<1>1. DeckInv /\ (RefineInBatches \/ RefineAlone) => Pays
  <2>1. SUFFICES ASSUME DeckInv, RefineInBatches \/ RefineAlone, NEW jargon \in BOOLEAN
                 PROVE  /\ loss(jargon) <= 4 * Points(1)
                        /\ (\A i \in DOMAIN deck : KeepsLooks(deck[i], deck'[i])) => loss(jargon) <= 0
    OBVIOUS
  <2>2. Repaired(deck, given)
    BY <2>1 DEF DeckInv, RefineInBatches, RefineAlone
  <2>3. Alike(deck, deck')
    <3>1. CASE RefineInBatches
      <4>1. PICK icons, highlights : deck' = Refined(deck, icons, highlights)
        BY <3>1 DEF RefineInBatches
      <4> QED
        BY <2>2, <4>1, RefinedIsAlike
    <3>2. CASE RefineAlone
      <4>1. deck' = deck
        BY <3>2 DEF RefineAlone
      <4> QED
        BY <2>2, <4>1 DEF Repaired, Alike
    <3> QED
      BY <2>1, <3>1, <3>2
  <2>4. DOMAIN deck = 1 .. Len(deck)
    BY <2>2 DEF Repaired
  <2>5. /\ ContentDepth(deck') = ContentDepth(deck) /\ ContentDepth(deck) \in Int
        /\ StructureCoherence(deck') = StructureCoherence(deck) /\ StructureCoherence(deck) \in Int
        /\ DataAccuracy(deck') = DataAccuracy(deck) /\ DataAccuracy(deck) \in Int
        /\ Clarity(deck', jargon) = Clarity(deck, jargon) /\ Clarity(deck, jargon) \in Int
    BY <2>3, DepthKept, CoherenceKept, AccuracyKept, ClarityKept
  <2>6. /\ VisualAppeal(deck) \in Int /\ VisualAppeal(deck') \in Int
        /\ VisualAppeal(deck) - 70 <= VisualAppeal(deck')
        /\ Keeping(deck, deck') => VisualAppeal(deck) <= VisualAppeal(deck')
    BY <2>3, AppealGrows
  <2>7. loss(jargon) = 4 * (VisualAppeal(deck) - VisualAppeal(deck'))
    BY <2>5, <2>6 DEF CompositeScore
  <2> HIDE DEF loss
  <2>8. (\A i \in DOMAIN deck : KeepsLooks(deck[i], deck'[i])) => Keeping(deck, deck')
    BY <2>4 DEF Keeping
  <2> QED
    BY <2>6, <2>7, <2>8 DEF Points
<1>2. DeckInv /\ [ReviewNext]_reviewVars => [Pays]_reviewVars
  <2>1. SUFFICES ASSUME DeckInv, ReviewNext, stage = "done" PROVE Pays
    BY DEF Pays
  <2>2. RefineInBatches \/ RefineAlone
    BY <2>1 DEF ReviewNext, Validate, Next, RunLLMProvider, NormaliseSlideFields, InferSlideTypes, AutoCorrect,
                ValidateContentCompleteness, ApplyContentConstraints, ScorePresentation
  <2> HIDE DEF Pays
  <2> QED
    BY <1>1, <2>1, <2>2
<1>3. RefinementPays <=> [][Pays]_reviewVars
  BY DEF RefinementPays
<1> HIDE DEF Pays
<1> QED
  BY <1>2, <1>3, DeckInvariant, PTL DEF ReviewSpec

-----------------------------------------------------------------------------
(* The bullets that are shown.                                             *)

(* A slide is found at its place.                                          *)
PlaceOf(e, i) == CHOOSE k \in DOMAIN e : e[k].of = i
Shown(e, n, i) ==
  LET k == PlaceOf(e, i)
      next == IF i = n THEN Len(e) ELSE PlaceOf(e, i + 1)
  IN Names(FlattenSeq([j \in 1 .. (next - k) |-> Bullets(e[k + j - 1])]))

LEMMA PlaceIs ==
  ASSUME NEW start, NEW d \in Seq(Slide), NEW e, NEW gs, Arranged(start, d, e, gs), NEW i \in 1 .. Len(d)
  PROVE  PlaceOf(e, i) = start[i - 1] + 1 /\ start[i - 1] \in Nat /\ start[i] \in Nat
<1> DEFINE N == Len(d)
           M == Len(e)
           k == start[i - 1] + 1
<1>1. /\ N \in Nat /\ M \in Nat /\ DOMAIN e = 1 .. M /\ i # 0
      /\ start \in [0 .. N -> Nat] /\ i - 1 \in 0 .. N /\ i \in 0 .. N
  BY DEF Arranged
<1>2. start[i - 1] \in Nat /\ start[i] \in Nat
  BY <1>1
<1>3. start[i] - start[i - 1] \in 1 .. 2 /\ start[i] < M /\ e[k].of = i
  BY DEF Arranged
<1>4. k \in 1 .. M
  BY <1>1, <1>2, <1>3
<1>5. ASSUME NEW m \in 1 .. M, e[m].of = i PROVE m = k
  <2>1. PICK j \in 1 .. N : m = start[j - 1] + 1 /\ e[m].of = j
    BY <1>1, <1>5 DEF Arranged
  <2>2. j = i
    BY <1>5, <2>1
  <2> QED
    BY <2>1, <2>2
<1> HIDE DEF k
<1>6. PlaceOf(e, i) = k
  BY <1>1, <1>3, <1>4, <1>5 DEF PlaceOf
<1> QED
  BY <1>2, <1>6 DEF k

LEMMA ShownIs ==
  ASSUME NEW start, NEW d \in Seq(Slide), NEW e, NEW gs, Arranged(start, d, e, gs), NEW i \in 1 .. Len(d)
  PROVE  Shown(e, Len(d), i) = Names(Bullets(Reduced(d[i])))
<1> DEFINE N == Len(d)
           k == PlaceOf(e, i)
           next == IF i = N THEN Len(e) ELSE PlaceOf(e, i + 1)
<1>1. k = start[i - 1] + 1 /\ start[i - 1] \in Nat /\ start[i] \in Nat
  BY PlaceIs
<1>2. N \in Nat /\ start[i] - start[i - 1] \in 1 .. 2 /\ Len(e) = start[N] + 1
      /\ Names(FlattenSeq([j \in 1 .. start[i] - start[i - 1] |-> Bullets(e[start[i - 1] + j])])) =
           Names(Bullets(Reduced(d[i])))
  BY DEF Arranged
<1>3. next = start[i] + 1
  <2>1. CASE i = N
    BY <1>2, <2>1
  <2>2. CASE i # N
    <3>1. i + 1 \in 1 .. N /\ (i + 1) - 1 = i
      BY <1>2, <2>2
    <3>2. PlaceOf(e, i + 1) = start[(i + 1) - 1] + 1
      BY <3>1, PlaceIs
    <3> QED
      BY <2>2, <3>1, <3>2
  <2> QED
    BY <2>1, <2>2
<1>4. Shown(e, N, i) = Names(FlattenSeq([j \in 1 .. (next - k) |-> Bullets(e[k + j - 1])]))
  BY DEF Shown
<1> HIDE DEF k, next
<1>5. next - k = start[i] - start[i - 1]
  BY <1>1, <1>3
<1>6. \A j \in 1 .. start[i] - start[i - 1] : k + j - 1 = start[i - 1] + j
  BY <1>1, <1>2
<1>7. [j \in 1 .. (next - k) |-> Bullets(e[k + j - 1])]
        = [j \in 1 .. start[i] - start[i - 1] |-> Bullets(e[start[i - 1] + j])]
  BY <1>5, <1>6
<1> QED
  BY <1>2, <1>4, <1>7

(* The first of a list that begins another begin the first of the other.   *)
LEMMA FirstOfPrefix ==
  ASSUME NEW A, NEW s \in Seq(A), NEW t \in Seq(A), NEW n \in Nat,
         IsPrefix(s, t) \/ IsPrefix(FirstOf(s, n), t)
  PROVE  IsPrefix(FirstOf(s, n), FirstOf(t, n))
<1> DEFINE p == FirstOf(s, n)
           q == FirstOf(t, n)
<1>1. /\ p \in Seq(A) /\ Len(p) = AtMost(Len(s), n) /\ AtMost(Len(s), n) <= n /\ AtMost(Len(s), n) <= Len(s)
      /\ AtMost(Len(s), n) \in Nat /\ \A i \in 1 .. AtMost(Len(s), n) : p[i] = s[i]
  BY FirstProperties
<1>2. /\ q \in Seq(A) /\ Len(q) = AtMost(Len(t), n) /\ AtMost(Len(t), n) \in Nat
      /\ \A i \in 1 .. AtMost(Len(t), n) : q[i] = t[i]
      /\ Len(t) <= n => AtMost(Len(t), n) = Len(t)
      /\ Len(t) > n => AtMost(Len(t), n) = n
  BY FirstProperties
<1> HIDE DEF p, q
<1>3. Len(p) \in Nat /\ Len(q) \in Nat /\ Len(s) \in Nat /\ Len(t) \in Nat
  BY <1>1, <1>2
<1>4. Len(p) <= Len(t) /\ \A i \in 1 .. Len(p) : p[i] = t[i]
  <2>1. CASE IsPrefix(s, t)
    <3>1. Len(s) <= Len(t) /\ \A i \in 1 .. Len(s) : s[i] = t[i]
      BY <2>1, PrefixOnlyIf
    <3>2. \A i \in 1 .. Len(p) : i \in 1 .. Len(s)
      BY <1>1, <1>3
    <3> QED
      BY <1>1, <1>3, <3>1, <3>2
  <2>2. CASE IsPrefix(FirstOf(s, n), t)
    <3>1. IsPrefix(p, t) /\ p \in Seq(A)
      BY <1>1, <2>2 DEF p
    <3> QED
      BY <3>1, PrefixOnlyIf
  <2> QED
    BY <2>1, <2>2
<1>5. Len(p) <= Len(q)
  BY <1>1, <1>2, <1>3, <1>4
<1>6. \A i \in 1 .. Len(p) : i \in 1 .. Len(q)
  BY <1>3, <1>5
<1>7. \A i \in 1 .. Len(p) : p[i] = q[i]
  BY <1>2, <1>4, <1>6
<1>8. IsPrefix(p, q)
  <2>1. p \in Seq(A) /\ q \in Seq(A)
    BY <1>1, <1>2
  <2> QED
    BY <1>5, <1>7, <2>1, PrefixIf
<1> QED
  BY <1>8 DEF p, q

LEMMA ReducedBullets ==
  ASSUME NEW i, NEW s, NEW g, Drafted(s, i), GivenSlide(g, i), HasFirst(s, g), ~Shadowed(g)
  PROVE  IF s.type = "title" \/ Density(s) > DenseWords
         THEN IsPrefix(FirstOf(GivenBullets(g), MaxBullets), Names(Bullets(Reduced(s))))
         ELSE IsPrefix(GivenBullets(g), Names(Bullets(Reduced(s))))
<1> DEFINE b == Bullets(s)
           c == CutBullets(b)
           r == Reduced(s)
<1>0. MaxBullets \in Nat /\ DenseWords \in Nat /\ s \in Slide /\ Density(s) \in Nat
  BY DeckAssumption, DensityType DEF Drafted
<1>1. b \in Seq(Bullet) /\ Names(b) \in Seq(Nat) /\ GivenBullets(g) \in Seq(Nat)
  <2>1. s.bullets \in SUBSET Seq(Bullet)
    BY <1>0, SlideFields
  <2>2. Bullets(s) \in Seq(Bullet)
    BY <2>1, BulletsType
  <2> QED
    BY <2>2, NamesProperties, GivenBulletsType
<1>2. CASE Density(s) <= DenseWords
  <2>1. r = s /\ ~(Density(s) > DenseWords)
    BY <1>0, <1>2 DEF Reduced
  <2> QED
    BY <2>1 DEF HasFirst
<1>3. CASE ~(Density(s) <= DenseWords)
  <2>1. Density(s) > DenseWords
    BY <1>0, <1>3
  <2>2. r.bullets = {FirstOf(c, MaxBullets)}
    BY <1>0, <1>3 DEF Reduced, Slide
  <2>3. Bullets(r) = FirstOf(c, MaxBullets)
    <3> HIDE DEF r, c
    <3> QED
      BY <2>2, BulletsOfOne
  <2>4. c \in Seq(Bullet) /\ Names(c) = Names(b)
    BY <1>1, CutProperties
  <2>5. Names(Bullets(r)) = FirstOf(Names(b), MaxBullets)
    <3> HIDE DEF r, c, b
    <3>1. Names(FirstOf(c, MaxBullets)) = FirstOf(Names(c), MaxBullets)
      BY <1>0, <2>4, NamesOfFirst
    <3> QED
      BY <2>3, <2>4, <3>1
  <2>6. IsPrefix(GivenBullets(g), Names(b)) \/ IsPrefix(FirstOf(GivenBullets(g), MaxBullets), Names(b))
    BY DEF HasFirst
  <2>7. IsPrefix(FirstOf(GivenBullets(g), MaxBullets), FirstOf(Names(b), MaxBullets))
    <3> HIDE DEF b
    <3> QED
      BY <1>0, <1>1, <2>6, FirstOfPrefix
  <2> QED
    BY <2>1, <2>5, <2>7
<1> QED
  BY <1>2, <1>3

(* No bullet of the LLM is lost or moved: a slide has all it was given, in *)
(* order, on itself and on its overflow slide, and a slide that is too     *)
(* dense or a title slide the first four, unless they are at the root of a *)
(* slide whose content has an empty list (apply_content_constraints).      *)
THEOREM BulletsAlwaysSurvive == ReviewSpec => BulletsSurvive
<1>1. DeckInv /\ ApplyContentConstraints => \A i \in DOMAIN given : ~Shadowed(given[i]) => AllShown(i)
  <2>1. SUFFICES ASSUME DeckInv, ApplyContentConstraints, NEW i \in DOMAIN given, ~Shadowed(given[i])
                 PROVE  AllShown(i)
    OBVIOUS
  <2>2. AllKept("constrain", deck, given) /\ deck' = Constrained(deck) /\ given' = given
    BY <2>1 DEF DeckInv, Passes, ApplyContentConstraints
  <2>3. /\ deck \in Seq(Slide) /\ given \in Seq(Slide) /\ Len(deck) = Len(given) /\ Len(given) \in Nat
        /\ \A n \in 1 .. Len(deck) : /\ Drafted(deck[n], n) /\ Complete(deck[n], given[n])
                                     /\ GivenSlide(given[n], n) /\ HasFirst(deck[n], given[n])
                                     /\ (n = 1 => Opening(deck[n]))
    BY <2>2 DEF AllKept, Kept
  <2>4. i \in 1 .. Len(deck)
    BY <2>1, <2>3
  <2>5. PICK start : Arranged(start, deck, deck', given)
    <3>1. \A n \in 1 .. Len(deck) : Drafted(deck[n], n) /\ Complete(deck[n], given[n])
      BY <2>3
    <3>2. Len(deck) > 0 => Opening(deck[1])
      BY <2>3
    <3>3. \E start : Arranged(start, deck, Constrained(deck), given)
      BY <2>3, <3>1, <3>2, ConstrainedProperties
    <3> QED
      BY <2>2, <3>3
  <2>6. Shown(deck', Len(deck), i) = Names(Bullets(Reduced(deck[i])))
    BY <2>3, <2>4, <2>5, ShownIs
  <2>7. ShownBullets(i)' = Shown(deck', Len(deck), i)
    BY <2>2, <2>3 DEF ShownBullets, FinalOf, Shown, PlaceOf
  <2>8. Drafted(deck[i], i) /\ GivenSlide(given[i], i) /\ HasFirst(deck[i], given[i])
    BY <2>3, <2>4
  <2>9. IF deck[i].type = "title" \/ Density(deck[i]) > DenseWords
        THEN IsPrefix(FirstOf(GivenBullets(given[i]), MaxBullets), Names(Bullets(Reduced(deck[i]))))
        ELSE IsPrefix(GivenBullets(given[i]), Names(Bullets(Reduced(deck[i]))))
    BY <2>1, <2>8, ReducedBullets
  <2> QED
    BY <2>6, <2>7, <2>9 DEF AllShown
<1>2. DeckInv /\ [ReviewNext]_reviewVars
      => [ApplyContentConstraints => \A i \in DOMAIN given : ~Shadowed(given[i]) => AllShown(i)]_vars
  BY <1>1
<1> QED
  BY <1>2, DeckInvariant, PTL DEF ReviewSpec, BulletsSurvive

=============================================================================
