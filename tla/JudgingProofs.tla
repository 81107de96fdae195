---------------------------- MODULE JudgingProofs ----------------------------
(***************************************************************************)
(* What Judging promises, for every pool of findings, every bound on how   *)
(* many are raw, every overlap and every set of similar titles, verdicts   *)
(* and filters.                                                            *)
(*                                                                         *)
(* The invariant has two halves. While dedup works, the findings are those *)
(* whose bucket still waits, those of the open bucket and the members of   *)
(* the groups (Built); the union-find of the open bucket is a forest whose *)
(* heights fall towards the roots (Forest), so the walk of find ends at a  *)
(* root, and two of its members share a root only if the pairs compared so *)
(* far connect them, and always when they should merge (Joins). When every *)
(* pair has been compared the trees are the components of the bucket       *)
(* (Part). While the arbiter works, every group is in one place, in a      *)
(* batch still to come or among the verdicts (JudgedOnce), the answers     *)
(* used are the verdicts given (Answered), and no warning means no verdict *)
(* made up (Told).                                                         *)
(***************************************************************************)
EXTENDS Judging, FiniteSetTheorems, SequenceTheorems, WellFoundedInduction, TLAPS

------------------------------------------------------------------------------
(* Positions. *)

LEMMA AscendingEnumerates ==
  ASSUME NEW S \in SUBSET Nat, IsFiniteSet(S)
  PROVE  LET a == Ascending(S)
         IN  /\ a \in Seq(S)
             /\ Len(a) = Cardinality(S) /\ DOMAIN a = 1..Len(a)
             /\ ToSet(a) = S
             /\ \A p, q \in DOMAIN a : p < q => a[p] < a[q]
<1> DEFINE below(x) == {y \in S : y <= x}
           n == Cardinality(S)
           rank == [x \in S |-> Cardinality(below(x))]
<1>1. n \in Nat /\ IsFiniteSet(1..n) /\ Cardinality(1..n) = n
  BY FS_CardinalityType, FS_Interval
<1>2. ASSUME NEW x \in S
      PROVE  IsFiniteSet(below(x)) /\ Cardinality(below(x)) \in 1..n
  <2>1. below(x) \in SUBSET S /\ x \in below(x)
    OBVIOUS
  <2>2. IsFiniteSet(below(x)) /\ Cardinality(below(x)) <= n
    BY <2>1, FS_Subset
  <2>3. Cardinality(below(x)) # 0
    BY <2>1, <2>2, FS_EmptySet
  <2> QED
    BY <1>1, <2>2, <2>3, FS_CardinalityType
<1>3. ASSUME NEW x \in S, NEW y \in S, x < y
      PROVE  Cardinality(below(x)) < Cardinality(below(y))
  <2>1. below(x) \in SUBSET below(y)
    <3> SUFFICES ASSUME NEW z \in S, z <= x PROVE z <= y
      OBVIOUS
    <3>1. x \in Nat /\ y \in Nat /\ z \in Nat
      OBVIOUS
    <3> QED
      BY <1>3, <3>1
  <2>2. y \in below(y) /\ y \notin below(x)
    BY <1>3
  <2>3. /\ Cardinality(below(x)) <= Cardinality(below(y))
        /\ Cardinality(below(x)) # Cardinality(below(y))
    BY <1>2, <2>1, <2>2, FS_Subset
  <2>4. Cardinality(below(x)) \in Nat /\ Cardinality(below(y)) \in Nat
    BY <1>2, FS_CardinalityType
  <2> QED
    BY <2>3, <2>4
<1>4. rank \in [S -> 1..n]
  BY <1>2
<1>5. \A x, y \in S : x < y => rank[x] < rank[y]
  BY <1>3
<1>6. \A x \in S : rank[x] = Cardinality({y \in S : y <= x})
  OBVIOUS
<1> HIDE DEF rank, n
<1>7. rank \in Injection(S, 1..n)
  <2>1. \A x, y \in S : x \in Nat /\ y \in Nat /\ rank[x] \in Nat /\ rank[y] \in Nat
    BY <1>4
  <2>2. \A x, y \in S : rank[x] = rank[y] => x = y
    BY <1>5, <2>1
  <2> QED
    BY <1>4, <2>2 DEF Injection, IsInjective
<1>8. rank \in Surjection(S, 1..n)
  BY <1>1, <1>7, FS_Injection DEF n
<1>9. \A p \in 1..n : Nth(S, p) \in S /\ rank[Nth(S, p)] = p
  <2> TAKE p \in 1..n
  <2>1. PICK x \in S : rank[x] = p
    BY <1>8 DEF Surjection
  <2> QED
    BY <1>6, <2>1 DEF Nth
<1> DEFINE a == Ascending(S)
<1>10. a = [p \in 1..n |-> Nth(S, p)]
  BY DEF Ascending, n
<1> HIDE DEF a
<1>11. a \in Seq(S) /\ Len(a) = n /\ DOMAIN a = 1..n
  <2>1. a \in [1..n -> S]
    BY <1>9, <1>10
  <2> QED
    BY <1>1, <1>10, <2>1, IsASeq, LenProperties
<1>12. \A x \in S : rank[x] \in 1..n /\ a[rank[x]] = x
  <2> TAKE x \in S
  <2>1. rank[x] \in 1..n
    BY <1>4
  <2>2. Nth(S, rank[x]) \in S /\ rank[Nth(S, rank[x])] = rank[x]
    BY <2>1, <1>9
  <2>3. Nth(S, rank[x]) = x
    BY <2>2, <1>7 DEF Injection, IsInjective
  <2> QED
    BY <1>10, <2>1, <2>3
<1>13. ToSet(a) = S
  <2>1. ToSet(a) \subseteq S
    BY <1>9, <1>10, <1>11 DEF ToSet
  <2>2. ASSUME NEW x \in S PROVE x \in ToSet(a)
    BY <1>11, <1>12 DEF ToSet
  <2> QED
    BY <2>1, <2>2
<1>14. ASSUME NEW p \in 1..n, NEW q \in 1..n, p < q PROVE a[p] < a[q]
  <2>1. a[p] \in S /\ a[q] \in S /\ rank[a[p]] = p /\ rank[a[q]] = q
    BY <1>9, <1>10
  <2>2. /\ p \in Int /\ q \in Int
        /\ \A x \in S : x \in Nat
    BY <1>1
  <2>3. a[q] < a[p] => q < p
    BY <1>5, <2>1
  <2>4. a[p] # a[q]
    BY <1>14, <2>1, <2>2
  <2>5. a[p] \in Nat /\ a[q] \in Nat
    BY <2>1, <2>2
  <2> QED
    BY <1>14, <2>2, <2>3, <2>4, <2>5
<1> QED
  BY <1>11, <1>13, <1>14 DEF a, n

(* The places of a concatenation. *)
LEMMA Places ==
  ASSUME NEW X, NEW s \in Seq(X), NEW t \in Seq(X)
  PROVE  LET u == s \o t
             m == Len(s)
             n == Len(t)
         IN  /\ u \in Seq(X) /\ m \in Nat /\ n \in Nat
             /\ DOMAIN u = 1..(m + n)
             /\ \A p \in 1..m : p \in DOMAIN u /\ u[p] = s[p]
             /\ \A q \in 1..n : m + q \in DOMAIN u /\ u[m + q] = t[q]
             /\ \A p \in DOMAIN u : p \in 1..m \/ \E q \in 1..n : p = m + q
<1> DEFINE u == s \o t
           m == Len(s)
           n == Len(t)
<1>1. m \in Nat /\ n \in Nat
  BY LenProperties
<1>2. /\ u \in Seq(X) /\ Len(u) = m + n
      /\ \A p \in 1..(m + n) : u[p] = IF p <= m THEN s[p] ELSE t[p - m]
  BY ConcatProperties
<1> HIDE DEF u, m, n
<1>3. DOMAIN u = 1..(m + n)
  BY <1>2, LenProperties
<1>4. \A p \in 1..m : p \in DOMAIN u /\ u[p] = s[p]
  <2> TAKE p \in 1..m
  <2>1. p \in 1..(m + n) /\ p <= m
    BY <1>1
  <2> QED
    BY <1>2, <1>3, <2>1
<1>5. \A q \in 1..n : m + q \in DOMAIN u /\ u[m + q] = t[q]
  <2> TAKE q \in 1..n
  <2>1. m + q \in 1..(m + n) /\ ~(m + q <= m) /\ (m + q) - m = q
    BY <1>1
  <2> QED
    BY <1>2, <1>3, <2>1
<1>6. \A p \in DOMAIN u : p \in 1..m \/ \E q \in 1..n : p = m + q
  <2> TAKE p \in DOMAIN u
  <2>1. p \in 1..m \/ (p - m \in 1..n /\ p = m + (p - m))
    BY <1>1, <1>3
  <2> QED
    BY <2>1
<1> QED
  BY <1>1, <1>2, <1>3, <1>4, <1>5, <1>6 DEF u, m, n

------------------------------------------------------------------------------
(* Components. *)

Closed(C, M) == \A p \in M : p[1] \in C => p[2] \in C

LEMMA MinimalNat ==
  ASSUME NEW T \in SUBSET Nat, T # {}
  PROVE  \E m \in T : \A k \in T : m <= k
<1>1. PICK m \in T : \A k \in T : <<k, m>> \notin OpToRel(<, Nat)
  BY NatLessThanWellFounded, WFMin
<1>2. \A k \in T : ~(k < m) /\ k \in Nat /\ m \in Nat
  BY <1>1 DEF OpToRel
<1>3. \A k \in T : m <= k
  BY <1>2
<1> QED
  BY <1>3

LEMMA PartsAreComponents ==
  ASSUME NEW S, IsFiniteSet(S), NEW M \in SUBSET (S \X S),
         NEW P \in SUBSET SUBSET S, UNION P = S,
         \A X \in P :
           /\ X # {} /\ Closed(X, M)
           /\ \A C \in SUBSET S : Closed(C, M) /\ C \cap X # {} => X \subseteq C
  PROVE  Components(S, M) = P
<1> DEFINE Least(C) == {x \in S : \A D \in SUBSET S : C \subseteq D /\ Closed(D, M) => x \in D}
           Stepped(f) == [C \in SUBSET S |->
                           IF Grown(C, M) = C THEN C ELSE f[Grown(C, M)]]
           closure == CHOOSE f : f = Stepped(f)
<1>1. ASSUME NEW C \in SUBSET S
      PROVE  /\ Grown(C, M) \in SUBSET S /\ C \subseteq Grown(C, M)
             /\ Grown(C, M) = C <=> Closed(C, M)
             /\ \A D : C \subseteq D /\ Closed(D, M) => Grown(C, M) \subseteq D
  BY DEF Grown, Closed
<1>2. ASSUME NEW C \in SUBSET S
      PROVE  Least(C) = IF Grown(C, M) = C THEN C ELSE Least(Grown(C, M))
  <2>1. CASE Grown(C, M) = C
    BY <1>1, <2>1
  <2>2. CASE Grown(C, M) # C
    BY <1>1, <2>2
  <2> QED
    BY <2>1, <2>2
<1>3. closure = Stepped(closure)
  <2> DEFINE g == [C \in SUBSET S |-> Least(C)]
  <2>1. g = Stepped(g)
    <3>1. \A C \in SUBSET S : g[C] = Stepped(g)[C]
      BY <1>1, <1>2
    <3> QED
      BY <3>1
  <2> QED
    BY <2>1
<1>4. Components(S, M) = {closure[{x}] : x \in S}
  BY DEF Components
<1> HIDE DEF closure
<1>5. ASSUME NEW C \in SUBSET S
      PROVE  closure[C] = IF Grown(C, M) = C THEN C ELSE closure[Grown(C, M)]
  BY <1>3
<1> HIDE DEF Least
<1>6. \A C \in SUBSET S : closure[C] = Least(C)
  <2> DEFINE wrong == {C \in SUBSET S : closure[C] # Least(C)}
             left(C) == Cardinality(S \ C)
  <2> SUFFICES ASSUME wrong # {} PROVE FALSE
    OBVIOUS
  <2>1. ASSUME NEW C \in SUBSET S PROVE IsFiniteSet(S \ C) /\ left(C) \in Nat
    <3>1. (S \ C) \in SUBSET S
      OBVIOUS
    <3> QED
      BY <3>1, FS_Subset, FS_CardinalityType
  <2> DEFINE T == {left(C) : C \in wrong}
  <2>2. \A C \in wrong : left(C) \in Nat
    BY <2>1
  <2> HIDE DEF left
  <2>3. T \in SUBSET Nat /\ T # {}
    BY <2>2
  <2>4. PICK n \in T : \A k \in T : n <= k
    BY <2>3, MinimalNat
  <2>5. PICK C \in wrong : n = left(C)
    BY <2>4
  <2>6. Grown(C, M) # C
    BY <1>2, <1>5, <2>5
  <2>7. Grown(C, M) \in wrong
    BY <1>1, <1>2, <1>5, <2>5, <2>6
  <2> DEFINE A == S \ Grown(C, M)
             B == S \ C
  <2>8. PICK x \in S : x \in Grown(C, M) /\ x \notin C
    <3>1. C \subseteq Grown(C, M) /\ Grown(C, M) \subseteq S
      BY <1>1, <2>5
    <3> QED
      BY <2>6, <3>1
  <2>9. A \in SUBSET B /\ A # B
    BY <1>1, <2>5, <2>8
  <2>10. IsFiniteSet(B) /\ Cardinality(B) \in Nat /\ Cardinality(A) \in Nat
    <3>1. Grown(C, M) \in SUBSET S /\ C \in SUBSET S
      BY <1>1, <2>5
    <3> QED
      BY <2>1, <3>1 DEF left
  <2>11. Cardinality(B) <= Cardinality(A)
    <3>1. left(Grown(C, M)) \in T
      BY <2>7
    <3>2. left(C) <= left(Grown(C, M))
      BY <2>4, <2>5, <3>1
    <3> QED
      BY <3>2 DEF left
  <2> HIDE DEF A, B
  <2>12. Cardinality(A) <= Cardinality(B) /\ Cardinality(A) # Cardinality(B)
    BY <2>9, <2>10, FS_Subset
  <2> QED
    BY <2>10, <2>11, <2>12
<1>7. ASSUME NEW X \in P, NEW x \in X
      PROVE  Least({x}) = X
  <2>1. Closed(X, M) /\ X \in SUBSET S /\ x \in S
    OBVIOUS
  <2>2. Least({x}) \subseteq X
    BY <2>1 DEF Least
  <2>3. ASSUME NEW D \in SUBSET S, {x} \subseteq D, Closed(D, M) PROVE X \subseteq D
    <3>1. x \in D \cap X
      BY <2>3
    <3> QED
      BY <2>3, <3>1
  <2>4. X \subseteq Least({x})
    BY <2>1, <2>3 DEF Least
  <2> QED
    BY <2>2, <2>4
<1>8. ASSUME NEW X \in P, NEW x \in X PROVE x \in S /\ closure[{x}] = X
  <2>1. x \in S /\ {x} \in SUBSET S
    OBVIOUS
  <2> QED
    BY <1>6, <1>7, <2>1
<1>9. ASSUME NEW x \in S PROVE closure[{x}] \in P
  <2>1. PICK X \in P : x \in X
    OBVIOUS
  <2> QED
    BY <1>8, <2>1
<1>10. ASSUME NEW X \in P PROVE \E x \in S : closure[{x}] = X
  <2>1. PICK x \in S : x \in X
    OBVIOUS
  <2> QED
    BY <1>8, <2>1
<1>11. ASSUME NEW X PROVE X \in Components(S, M) <=> X \in P
  <2>1. X \in Components(S, M) <=> \E x \in S : X = closure[{x}]
    BY <1>4
  <2> QED
    BY <1>9, <1>10, <2>1, ZenonT(40)
<1> QED
  BY <1>11

------------------------------------------------------------------------------
(* The union-find. *)

LEMMA UpTo ==
  ASSUME NEW n \in Nat, NEW T \in SUBSET (0..n), 0 \in T,
         \A k \in T : k < n => k + 1 \in T
  PROVE  T = 0..n
<1> SUFFICES ASSUME (0..n) \ T # {} PROVE FALSE
  OBVIOUS
<1>1. (0..n) \ T \in SUBSET Nat
  OBVIOUS
<1>2. PICK m \in (0..n) \ T : \A k \in (0..n) \ T : m <= k
  BY <1>1, MinimalNat
<1>3. m \in 1..n /\ m - 1 \in 0..n
  BY <1>2
<1>4. m - 1 \in T
  BY <1>2, <1>3
<1>5. m \in T
  BY <1>3, <1>4
<1> QED
  BY <1>2, <1>5

Forest(p, rep, h) ==
  /\ rep \in [DOMAIN p -> DOMAIN p]
  /\ h \in [DOMAIN p -> Nat]
  /\ \A x \in DOMAIN p :
       /\ p[x] \in DOMAIN p
       /\ rep[p[x]] = rep[x]
       /\ p[rep[x]] = rep[x]
       /\ p[x] = x => rep[x] = x
       /\ p[x] # x => h[x] < h[p[x]]

LEMMA HalveKeeps ==
  ASSUME NEW n \in Nat, NEW at \in [root : 1..n, parent : [1..n -> 1..n]],
         NEW rep, NEW h, Forest(at.parent, rep, h)
  PROVE  LET b == Halve(at)
         IN  /\ b \in [root : 1..n, parent : [1..n -> 1..n]]
             /\ Forest(b.parent, rep, h)
             /\ rep[b.root] = rep[at.root]
             /\ at.parent[at.root] = at.root => b = at
             /\ at.parent[at.root] # at.root => h[at.root] < h[b.root]
<1> DEFINE p == at.parent
           r == at.root
           up == p[p[r]]
           q == [p EXCEPT ![r] = up]
<1>1. r \in 1..n /\ p \in [1..n -> 1..n] /\ DOMAIN p = 1..n
  OBVIOUS
<1>2. CASE p[r] = r
  <2>1. Halve(at) = at
    BY <1>2 DEF Halve
  <2> QED
    BY <1>2, <2>1
<1>3. CASE p[r] # r
  <2>1. Halve(at) = [root |-> up, parent |-> q]
    BY <1>3 DEF Halve
  <2> HIDE DEF p, r
  <2>2. /\ rep \in [1..n -> 1..n] /\ h \in [1..n -> Nat]
        /\ \A x \in 1..n :
             /\ p[x] \in 1..n /\ rep[p[x]] = rep[x] /\ p[rep[x]] = rep[x]
             /\ p[x] = x => rep[x] = x
             /\ p[x] # x => h[x] < h[p[x]]
    BY <1>1 DEF Forest, p
  <2>3. up \in 1..n /\ rep[up] = rep[r] /\ p[r] \in 1..n
    BY <1>1, <2>2
  <2>4. h[r] < h[up]
    <3>1. h[r] < h[p[r]]
      BY <1>1, <1>3, <2>2
    <3>2. up = p[r] \/ h[p[r]] < h[up]
      BY <2>2, <2>3
    <3>3. h[r] \in Nat /\ h[p[r]] \in Nat /\ h[up] \in Nat
      BY <1>1, <2>2, <2>3
    <3> HIDE DEF up
    <3> QED
      BY <3>1, <3>2, <3>3, SMTT(20)
  <2>5. up # r
    <3>1. h[r] \in Nat
      BY <1>1, <2>2
    <3> QED
      BY <2>4, <3>1
  <2> HIDE DEF up
  <2>6. q \in [1..n -> 1..n] /\ q[r] = up /\ \A x \in 1..n : x # r => q[x] = p[x]
    BY <1>1, <2>3
  <2> HIDE DEF q
  <2>7. Forest(q, rep, h)
    <3>1. ASSUME NEW x \in 1..n
          PROVE  /\ q[x] \in 1..n /\ rep[q[x]] = rep[x] /\ q[rep[x]] = rep[x]
                 /\ q[x] = x => rep[x] = x
                 /\ q[x] # x => h[x] < h[q[x]]
      <4>1. rep[x] \in 1..n /\ rep[x] # r
        BY <1>1, <1>3, <2>2
      <4>2. q[rep[x]] = rep[x]
        BY <2>2, <2>6, <4>1
      <4>3. CASE x = r
        BY <2>3, <2>4, <2>5, <2>6, <4>2, <4>3
      <4>4. CASE x # r
        BY <2>2, <2>6, <4>2, <4>4
      <4> QED
        BY <4>3, <4>4
    <3> QED
      BY <2>2, <2>6, <3>1 DEF Forest
  <2>8. Halve(at).root = up /\ Halve(at).parent = q
    BY <2>1
  <2>9. Halve(at) \in [root : 1..n, parent : [1..n -> 1..n]]
    <3> DEFINE A == 1..n
               B == [1..n -> 1..n]
    <3>1. up \in A /\ q \in B
      BY <2>3, <2>6
    <3> HIDE DEF A, B
    <3>2. Halve(at) \in [root : A, parent : B]
      BY <2>1, <3>1
    <3> QED
      BY <3>2 DEF A, B
  <2> QED
    BY <1>3, <2>3, <2>4, <2>7, <2>8, <2>9 DEF p, r
<1> QED
  BY <1>2, <1>3

(* Each step of the walk that is not at a root yet goes higher, so after as many
   steps as there are members it has found the root. *)
LEMMA FindsRoot ==
  ASSUME NEW n \in Nat, NEW p \in [1..n -> 1..n],
         NEW rep, NEW h, Forest(p, rep, h), NEW x \in 1..n
  PROVE  /\ Find(p, x).root = rep[x]
         /\ Find(p, x).parent \in [1..n -> 1..n]
         /\ Forest(Find(p, x).parent, rep, h)
<1> DEFINE At == [root : 1..n, parent : [1..n -> 1..n]]
           start == [root |-> x, parent |-> p]
           Stepped(m, w) == [k \in 0..m |-> IF k = 0 THEN start ELSE Halve(w[k - 1])]
           walk == CHOOSE w : w = Stepped(n, w)
           low(r) == {y \in 1..n : h[y] <= h[r]}
<1>1. Len(p) = n
  BY LenProperties, IsASeq
<1>2. Find(p, x) = walk[n]
  BY <1>1 DEF Find
<1>3. walk = Stepped(n, walk)
  <2> DEFINE T == {m \in 0..n : \E w : w = Stepped(m, w)}
  <2>1. 0 \in T
    <3> DEFINE w == [k \in 0..0 |-> start]
    <3> HIDE DEF start
    <3>1. \A k \in 0..0 : w[k] = IF k = 0 THEN start ELSE Halve(w[k - 1])
      OBVIOUS
    <3>2. w = Stepped(0, w)
      BY <3>1
    <3>3. 0 \in 0..n
      OBVIOUS
    <3> HIDE DEF Stepped, w
    <3> QED
      BY <3>2, <3>3
  <2>2. ASSUME NEW m \in T, m < n PROVE m + 1 \in T
    <3>1. PICK w : w = Stepped(m, w)
      OBVIOUS
    <3> DEFINE v == [k \in 0..(m + 1) |-> IF k = m + 1 THEN Halve(w[m]) ELSE w[k]]
    <3> HIDE DEF start
    <3>2. \A k \in 0..(m + 1) : v[k] = IF k = 0 THEN start ELSE Halve(v[k - 1])
      <4> TAKE k \in 0..(m + 1)
      <4>1. \A l \in 0..m : w[l] = IF l = 0 THEN start ELSE Halve(w[l - 1])
        BY <3>1
      <4>2. CASE k = m + 1
        BY <4>2
      <4>3. CASE k # m + 1
        BY <4>1, <4>3
      <4> QED
        BY <4>2, <4>3
    <3>3. v = Stepped(m + 1, v)
      BY <3>2
    <3>4. m + 1 \in 0..n
      BY <2>2
    <3> HIDE DEF Stepped, v
    <3> QED
      BY <3>3, <3>4
  <2> HIDE DEF Stepped
  <2>3. T \in SUBSET (0..n) /\ n \in 0..n
    OBVIOUS
  <2> HIDE DEF T
  <2>4. T = 0..n
    BY <2>1, <2>2, <2>3, UpTo
  <2>5. n \in T
    BY <2>3, <2>4
  <2>6. \E w : w = Stepped(n, w)
    BY <2>5 DEF T
  <2> QED
    BY <2>6
<1> HIDE DEF walk
<1>4. walk[0] = start /\ \A k \in 1..n : walk[k] = Halve(walk[k - 1])
  <2> HIDE DEF start
  <2>1. \A k \in 0..n : walk[k] = IF k = 0 THEN start ELSE Halve(walk[k - 1])
    BY <1>3
  <2> QED
    BY <2>1
<1> HIDE DEF Stepped
<1>5. /\ rep \in [1..n -> 1..n] /\ h \in [1..n -> Nat]
  BY DEF Forest
<1>6. ASSUME NEW r \in 1..n
      PROVE  /\ IsFiniteSet(low(r)) /\ Cardinality(low(r)) \in Nat
             /\ Cardinality(low(r)) > 0 /\ Cardinality(low(r)) <= n
             /\ \A u \in 1..n : h[r] < h[u] => Cardinality(low(r)) < Cardinality(low(u))
  <2>1. IsFiniteSet(1..n) /\ Cardinality(1..n) = n
    BY FS_Interval
  <2>2. ASSUME NEW u \in 1..n
        PROVE  /\ IsFiniteSet(low(u)) /\ Cardinality(low(u)) \in Nat
               /\ Cardinality(low(u)) > 0 /\ Cardinality(low(u)) <= n
    <3>1. low(u) \in SUBSET (1..n) /\ u \in low(u)
      BY <1>5
    <3>2. IsFiniteSet(low(u)) /\ Cardinality(low(u)) <= n
      BY <2>1, <3>1, FS_Subset
    <3>3. Cardinality(low(u)) # 0 /\ Cardinality(low(u)) \in Nat
      BY <3>1, <3>2, FS_EmptySet, FS_CardinalityType
    <3> QED
      BY <3>2, <3>3
  <2>3. ASSUME NEW u \in 1..n, h[r] < h[u]
        PROVE  Cardinality(low(r)) < Cardinality(low(u))
    <3>1. h[r] \in Nat /\ h[u] \in Nat /\ \A y \in 1..n : h[y] \in Nat
      BY <1>5
    <3>2. \A y \in 1..n : h[y] <= h[r] => h[y] <= h[u]
      <4> TAKE y \in 1..n
      <4>1. h[y] \in Nat
        BY <3>1
      <4>2. \A a, b, c \in Nat : a <= b /\ b < c => a <= c
        OBVIOUS
      <4> QED
        BY <2>3, <3>1, <4>1, <4>2
    <3>3. low(r) \in SUBSET low(u) /\ u \in low(u) /\ u \notin low(r)
      <4>1. low(r) \in SUBSET low(u)
        BY <3>2
      <4>2. h[u] <= h[u] /\ ~(h[u] <= h[r])
        BY <2>3, <3>1
      <4> QED
        BY <4>1, <4>2
    <3>4. Cardinality(low(r)) <= Cardinality(low(u)) /\ Cardinality(low(r)) # Cardinality(low(u))
      BY <2>2, <3>3, FS_Subset
    <3> HIDE DEF low
    <3> QED
      BY <2>2, <3>4
  <2> QED
    BY <2>2, <2>3
<1> HIDE DEF low
<1> DEFINE Good(at) == at \in At /\ Forest(at.parent, rep, h) /\ rep[at.root] = rep[x]
           Done(at) == at.parent[at.root] = at.root
           T == {k \in 0..n : /\ Good(walk[k])
                              /\ Done(walk[k]) \/ Cardinality(low(walk[k].root)) > k}
<1>7. 0 \in T
  <2>1. start \in At /\ start.root = x /\ start.parent = p
    OBVIOUS
  <2>2. Cardinality(low(x)) > 0
    BY <1>6
  <2>3. Good(walk[0]) /\ walk[0].root = x
    BY <1>4, <2>1
  <2>4. Cardinality(low(walk[0].root)) > 0 /\ 0 \in 0..n
    BY <2>2, <2>3
  <2> HIDE DEF Good, Done
  <2> QED
    BY <2>3, <2>4
<1>8. ASSUME NEW k \in T, k < n PROVE k + 1 \in T
  <2> DEFINE a == walk[k]
             b == walk[k + 1]
  <2>1. b = Halve(a)
    BY <1>4, <1>8
  <2>2. Good(a) /\ (Done(a) \/ Cardinality(low(a.root)) > k)
    OBVIOUS
  <2>. k \in 0..n /\ k + 1 \in 0..n
    BY <1>8
  <2> HIDE DEF a, b
  <2>3. /\ Good(b)
        /\ Done(a) => b = a
        /\ ~Done(a) => h[a.root] < h[b.root]
        /\ a.root \in 1..n /\ b.root \in 1..n
    BY <2>1, <2>2, HalveKeeps
  <2>4. CASE Done(a)
    BY <1>8, <2>3, <2>4 DEF b
  <2>5. CASE ~Done(a)
    <3>1. Cardinality(low(a.root)) < Cardinality(low(b.root))
      BY <1>6, <2>2, <2>3, <2>5
    <3>2. Cardinality(low(a.root)) \in Nat /\ Cardinality(low(b.root)) \in Nat
      BY <1>6, <2>2, <2>3
    <3>3. Cardinality(low(a.root)) > k
      BY <2>2, <2>5
    <3>4. Cardinality(low(b.root)) > k + 1
      BY <3>1, <3>2, <3>3
    <3> QED
      BY <1>8, <2>3, <3>4 DEF b
  <2> QED
    BY <2>4, <2>5
<1>9. n \in T
  <2>1. T \in SUBSET (0..n)
    OBVIOUS
  <2> HIDE DEF T
  <2>2. T = 0..n
    BY <1>7, <1>8, <2>1, UpTo
  <2> QED
    BY <2>2
<1>10. Good(walk[n]) /\ Done(walk[n])
  <2>1. Good(walk[n]) /\ (Done(walk[n]) \/ Cardinality(low(walk[n].root)) > n)
    BY <1>9
  <2>2. walk[n].root \in 1..n
    BY <2>1
  <2>3. Cardinality(low(walk[n].root)) \in Nat /\ Cardinality(low(walk[n].root)) <= n
    BY <1>6, <2>2
  <2> HIDE DEF Good, Done
  <2> QED
    BY <2>1, <2>3
<1>11. rep[walk[n].root] = walk[n].root
  BY <1>10 DEF Forest
<1> QED
  BY <1>2, <1>10, <1>11

LEMMA UnionMerges ==
  ASSUME NEW n \in Nat, NEW p \in [1..n -> 1..n],
         NEW rep, NEW h, Forest(p, rep, h), NEW a \in 1..n, NEW b \in 1..n
  PROVE  /\ Union(p, a, b) \in [1..n -> 1..n]
         /\ \E g : Forest(Union(p, a, b),
                          [x \in 1..n |-> IF rep[x] = rep[a] THEN rep[b] ELSE rep[x]], g)
<1> DEFINE fa == Find(p, a)
           fb == Find(fa.parent, b)
           ra == rep[a]
           rb == rep[b]
           f == fb.parent
           q == [f EXCEPT ![ra] = rb]
           merged == [x \in 1..n |-> IF rep[x] = ra THEN rb ELSE rep[x]]
           g == [x \in 1..n |-> IF rep[x] = rb THEN h[x] + h[ra] + 1 ELSE h[x]]
<1>1. fa.root = ra /\ fa.parent \in [1..n -> 1..n] /\ Forest(fa.parent, rep, h)
  BY FindsRoot
<1> HIDE DEF fa
<1>2. fb.root = rb /\ f \in [1..n -> 1..n] /\ Forest(f, rep, h)
  <2> DEFINE e == fa.parent
  <2>1. e \in [1..n -> 1..n] /\ Forest(e, rep, h)
    BY <1>1
  <2> HIDE DEF e
  <2>2. /\ Find(e, b).root = rep[b]
        /\ Find(e, b).parent \in [1..n -> 1..n]
        /\ Forest(Find(e, b).parent, rep, h)
    BY <2>1, FindsRoot
  <2> QED
    BY <2>2 DEF e
<1>3. Union(p, a, b) = q
  BY <1>1, <1>2 DEF Union, fa
<1> HIDE DEF fb, f
<1>4. /\ rep \in [1..n -> 1..n] /\ h \in [1..n -> Nat]
      /\ \A x \in 1..n :
           /\ f[x] \in 1..n /\ rep[f[x]] = rep[x] /\ f[rep[x]] = rep[x]
           /\ f[x] = x => rep[x] = x
           /\ f[x] # x => h[x] < h[f[x]]
  BY <1>2 DEF Forest
<1>5. ra \in 1..n /\ rb \in 1..n /\ rep[ra] = ra /\ rep[rb] = rb
  BY <1>4
<1> HIDE DEF ra, rb
<1>6. q \in [1..n -> 1..n] /\ q[ra] = rb /\ \A x \in 1..n : x # ra => q[x] = f[x]
  BY <1>2, <1>5
<1>7. CASE ra = rb
  <2>1. q = f
    <3>1. \A x \in 1..n : q[x] = f[x]
      BY <1>4, <1>5, <1>6, <1>7
    <3> QED
      BY <1>2, <1>6, <3>1
  <2>2. merged = rep
    <3>1. \A x \in 1..n : merged[x] = rep[x]
      BY <1>7
    <3> QED
      BY <1>4, <3>1
  <2>3. Forest(q, merged, h)
    BY <1>2, <2>1, <2>2
  <2> HIDE DEF q, merged
  <2>4. Union(p, a, b) \in [1..n -> 1..n] /\ \E e : Forest(Union(p, a, b), merged, e)
    BY <1>3, <1>6, <2>3
  <2> QED
    BY <2>4 DEF merged, ra, rb
<1>8. CASE ra # rb
  <2>1. g \in [1..n -> Nat] /\ merged \in [1..n -> 1..n]
    <3>0. h[ra] \in Nat /\ \A x \in 1..n : h[x] \in Nat
      BY <1>4, <1>5
    <3>1. \A x \in 1..n : h[x] \in Nat /\ h[x] + h[ra] + 1 \in Nat
      BY <3>0
    <3>2. \A x \in 1..n : rep[x] \in 1..n
      BY <1>4
    <3> QED
      BY <1>5, <3>1, <3>2
  <2>2. \A x \in 1..n : /\ g[x] = IF rep[x] = rb THEN h[x] + h[ra] + 1 ELSE h[x]
                        /\ merged[x] = IF rep[x] = ra THEN rb ELSE rep[x]
    OBVIOUS
  <2> HIDE DEF g, merged, q
  <2>3. ASSUME NEW x \in 1..n
        PROVE  /\ q[x] \in 1..n /\ merged[q[x]] = merged[x] /\ q[merged[x]] = merged[x]
               /\ q[x] = x => merged[x] = x
               /\ q[x] # x => g[x] < g[q[x]]
    <3>1. CASE x = ra
      <4>0. f[rb] = rb
        BY <1>4, <1>5
      <4>1. q[x] = rb /\ merged[x] = rb /\ merged[rb] = rb /\ q[rb] = rb
        BY <1>5, <1>6, <1>8, <2>2, <3>1, <4>0
      <4>2. g[x] = h[x] /\ g[rb] = h[rb] + h[x] + 1
        BY <1>5, <1>8, <2>2, <3>1
      <4>3. h[x] \in Nat /\ h[rb] \in Nat
        BY <1>4, <1>5
      <4> QED
        BY <1>5, <1>8, <3>1, <4>1, <4>2, <4>3
    <3>2. CASE x # ra
      <4>1. q[x] = f[x] /\ f[x] \in 1..n /\ rep[f[x]] = rep[x]
        BY <1>4, <1>6, <3>2
      <4>2. merged[q[x]] = merged[x]
        BY <2>2, <4>1
      <4>3. q[merged[x]] = merged[x]
        <5>1. f[rb] = rb
          BY <1>4, <1>5
        <5>2. rep[x] \in 1..n /\ f[rep[x]] = rep[x]
          BY <1>4
        <5> QED
          BY <1>5, <1>6, <1>8, <2>2, <5>1, <5>2
      <4>4. q[x] = x => merged[x] = x
        BY <1>4, <2>2, <3>2, <4>1
      <4>5. ASSUME q[x] # x PROVE g[x] < g[q[x]]
        <5>1. h[x] < h[f[x]]
          BY <1>4, <4>1, <4>5
        <5>2. h[x] \in Nat /\ h[f[x]] \in Nat /\ h[ra] \in Nat
          BY <1>4, <1>5, <4>1
        <5>3. \/ g[x] = h[x] /\ g[f[x]] = h[f[x]]
              \/ g[x] = h[x] + h[ra] + 1 /\ g[f[x]] = h[f[x]] + h[ra] + 1
          BY <2>2, <4>1
        <5>4. g[x] < g[f[x]]
          BY <5>1, <5>2, <5>3
        <5> QED
          BY <4>1, <5>4
      <4> QED
        BY <4>1, <4>2, <4>3, <4>4, <4>5
    <3> QED
      BY <3>1, <3>2
  <2>4. Forest(q, merged, g)
    BY <1>6, <2>1, <2>3 DEF Forest
  <2>5. Union(p, a, b) \in [1..n -> 1..n] /\ \E e : Forest(Union(p, a, b), merged, e)
    BY <1>3, <1>6, <2>4, SMTT(20) DEF q
  <2> QED
    BY <2>5 DEF merged, ra, rb
<1> QED
  BY <1>7, <1>8

(* One cluster for each tree, and its members in order. *)
LEMMA ClustersAreTrees ==
  ASSUME NEW n \in Nat, NEW p \in [1..n -> 1..n], NEW rep, NEW h, Forest(p, rep, h)
  PROVE  LET cs == Clusters(p)
             tree(k) == {l \in 1..n : rep[l] = rep[k]}
         IN  /\ Len(cs) \in Nat /\ DOMAIN cs = 1..Len(cs)
             /\ \A c \in DOMAIN cs : \E k \in 1..n : cs[c] = Ascending(tree(k))
             /\ \A k \in 1..n : \E c \in DOMAIN cs : cs[c] = Ascending(tree(k))
             /\ \A c, d \in DOMAIN cs : cs[c] = cs[d] => c = d
<1> DEFINE cs == Clusters(p)
           tree(k) == {l \in 1..n : rep[l] = rep[k]}
           root == [k \in DOMAIN p |-> Find(p, k).root]
           S == {k \in 1..n : \A l \in 1..n : rep[l] = rep[k] => k <= l}
           firsts == Ascending(S)
<1>1. rep \in [1..n -> 1..n]
  BY DEF Forest
<1>2. root = rep
  <2>1. \A k \in 1..n : Find(p, k).root = rep[k]
    BY FindsRoot, SMTT(20)
  <2>2. \A k \in 1..n : root[k] = rep[k]
    BY <2>1
  <2> QED
    BY <1>1, <2>2
<1>3. Firsts(rep) = S
  BY <1>1 DEF Firsts
<1>4. cs = [c \in DOMAIN firsts |-> Ascending({k \in 1..n : rep[k] = rep[firsts[c]]})]
  BY <1>2, <1>3 DEF Clusters
<1>5. S \in SUBSET Nat /\ IsFiniteSet(S)
  <2>1. S \in SUBSET (1..n) /\ IsFiniteSet(1..n)
    BY FS_Interval
  <2> QED
    BY <2>1, FS_Subset
<1>6. /\ firsts \in Seq(S) /\ DOMAIN firsts = 1..Len(firsts) /\ ToSet(firsts) = S
      /\ \A c, d \in DOMAIN firsts : c < d => firsts[c] < firsts[d]
  BY <1>5, AscendingEnumerates
<1>7. Len(firsts) \in Nat /\ \A c \in DOMAIN firsts : firsts[c] \in S
  BY <1>6, LenProperties, ElementOfSeq
<1>8. \A k \in S : k \in 1..n /\ \A l \in 1..n : rep[l] = rep[k] => k <= l
  OBVIOUS
<1>9. \A k \in 1..n : \E l \in S : rep[l] = rep[k]
  <2> TAKE k \in 1..n
  <2>1. tree(k) \in SUBSET Nat /\ k \in tree(k)
    OBVIOUS
  <2>2. PICK m \in tree(k) : \A l \in tree(k) : m <= l
    BY <2>1, MinimalNat
  <2> QED
    BY <2>2
<1> HIDE DEF S, firsts, cs
<1>10. DOMAIN cs = 1..Len(firsts) /\ Len(cs) = Len(firsts)
  BY <1>4, <1>6, <1>7, LenProperties
<1>11. \A c \in DOMAIN cs : firsts[c] \in 1..n /\ cs[c] = Ascending(tree(firsts[c]))
  BY <1>4, <1>6, <1>7, <1>8, <1>10
<1>12. ASSUME NEW k \in 1..n PROVE \E c \in DOMAIN cs : cs[c] = Ascending(tree(k))
  <2>1. PICK l \in S : rep[l] = rep[k]
    BY <1>9
  <2>2. PICK c \in DOMAIN firsts : firsts[c] = l
    BY <1>6 DEF ToSet
  <2>3. tree(l) = tree(k)
    BY <2>1
  <2> QED
    BY <1>6, <1>10, <1>11, <2>2, <2>3
<1>13. ASSUME NEW c \in DOMAIN cs, NEW d \in DOMAIN cs, cs[c] = cs[d]
       PROVE  c = d
  <2> DEFINE k == firsts[c]
             l == firsts[d]
  <2>1. k \in S /\ l \in S /\ k \in 1..n /\ l \in 1..n
    BY <1>6, <1>7, <1>8, <1>10
  <2>2. Ascending(tree(k)) = Ascending(tree(l))
    BY <1>11, <1>13
  <2>3. \A m \in 1..n : ToSet(Ascending(tree(m))) = tree(m)
    <3> TAKE m \in 1..n
    <3>1. tree(m) \in SUBSET (1..n) /\ IsFiniteSet(1..n) /\ tree(m) \in SUBSET Nat
      BY FS_Interval
    <3> QED
      BY <3>1, FS_Subset, AscendingEnumerates
  <2>4. tree(k) = tree(l)
    BY <2>1, <2>2, <2>3
  <2>5. k <= l /\ l <= k
    BY <1>8, <2>1, <2>4
  <2>6. ~(k < l) /\ ~(l < k)
    BY <2>1, <2>5
  <2>7. c \in Nat /\ d \in Nat /\ c \in DOMAIN firsts /\ d \in DOMAIN firsts
    BY <1>6, <1>7, <1>10
  <2> QED
    BY <1>6, <2>6, <2>7
<1> QED
  BY <1>6, <1>7, <1>10, <1>11, <1>12, <1>13, ZenonT(40) DEF cs

------------------------------------------------------------------------------
(* The inductive invariant. *)

Members(g) == ToSet(groups[g].members)
Waiting(k) == BucketOf(raw[k]) \in keys
Open(k)    == k \in ToSet(idxs)

DedupDomains ==
  /\ raw \in Seq(Pool) /\ Len(raw) <= MaxRaw
  /\ config \in [samePath : BOOLEAN, exactBoost : BOOLEAN]
  /\ keys \subseteq {BucketOf(raw[k]) : k \in DOMAIN raw}
  /\ parent \in [1..Len(parent) -> 1..Len(parent)] /\ Len(parent) \in Nat
  /\ i \in Nat /\ j \in Nat

(* The open bucket holds all findings of a key, in order, and its trees join
   what was compared so far: no pair that should merge is apart, and no tree is
   larger than those pairs make it. *)
Pair(a, b)   == ShouldMerge(raw[idxs[a]], raw[idxs[b]])
Passed(a, b) == a < i \/ (a = i /\ b < j)

Joins(rep) ==
  /\ \A a, b \in DOMAIN idxs : a < b /\ Passed(a, b) /\ Pair(a, b) => rep[a] = rep[b]
  /\ \A C \in SUBSET DOMAIN idxs :
       (\A a \in C, b \in DOMAIN idxs : Pair(a, b) => b \in C)
         => \A a \in C, b \in DOMAIN idxs : rep[a] = rep[b] => b \in C

Bucket ==
  idxs # <<>> =>
    /\ \E key \in Nat \ keys :
         idxs = Ascending({k \in DOMAIN raw : BucketOf(raw[k]) = key})
    /\ i \in 1..Len(idxs) /\ j \in (i + 1)..(Len(idxs) + 1)
    /\ j > Len(idxs) => i = Len(idxs)
    /\ Len(parent) = Len(idxs)
    /\ \E rep, h : Forest(parent, rep, h) /\ Joins(rep)

(* A component of the findings under "should merge". *)
Part(X) ==
  /\ X # {} /\ X \subseteq DOMAIN raw
  /\ Closed(X, MergingPairs)
  /\ \A C \in SUBSET DOMAIN raw : Closed(C, MergingPairs) /\ C \cap X # {} => X \subseteq C

Built ==
  /\ groups \in Seq([id : Nat, path : Nat, start : Int, end : Int,
                     members : Seq(DOMAIN raw), sources : Seq({f.scanner : f \in Pool})])
  /\ \A g \in DOMAIN groups :
       /\ groups[g] = BuildFinding(g, groups[g].members)
       /\ Part(Members(g))
       /\ \A k, l \in DOMAIN groups[g].members :
            k < l => groups[g].members[k] < groups[g].members[l]
       /\ \A k \in Members(g) : ~Waiting(k) /\ ~Open(k)
  /\ \A g, h \in DOMAIN groups : g # h => Members(g) \cap Members(h) = {}
  /\ \A k \in DOMAIN raw : Waiting(k) \/ Open(k) \/ \E g \in DOMAIN groups : k \in Members(g)

DedupInv == DedupDomains /\ Bucket /\ Built

(* Where the arbiter is. *)
JudgeDomains ==
  /\ mode \in {"per_file", "per_group"}
  /\ stage \in {"idle", "tool", "json", "judged", "warned", "reported"}
  /\ usage \in BOOLEAN /\ failed \in BOOLEAN
  /\ arbiterStatus \in {"pending", "ok", "partial", "failed"}
  /\ allowed \subseteq AllVerdicts
  /\ warnings \subseteq {"arbiter_failed", "arbiter_partial"}
  /\ batches \in Seq(Seq(ToSet(groups)))
  /\ finals \in Seq(Verdicts)

Stages ==
  /\ stage = "idle" => finals = <<>> /\ batches = <<>> /\ answered = {}
  /\ stage # "idle" => Grouped
  /\ batches # <<>> <=> stage \in {"tool", "json"}
  /\ stage \notin {"warned", "reported"} => warnings = {}
  /\ stage # "reported" => shown = {}

(* Every group is judged or in one batch still to come, once. *)
JudgedOnce ==
  /\ \A f, e \in DOMAIN finals : finals[f].id = finals[e].id => f = e
  /\ \A b, c \in DOMAIN batches : \A k \in DOMAIN batches[b], l \in DOMAIN batches[c] :
       batches[b][k].id = batches[c][l].id => b = c /\ k = l
  /\ \A f \in DOMAIN finals, b \in DOMAIN batches : finals[f].id \notin Ids(batches[b])
  /\ stage # "idle" => \A g \in DOMAIN groups :
       \/ \E f \in DOMAIN finals : finals[f].id = g
       \/ \E b \in DOMAIN batches : g \in Ids(batches[b])

Answered ==
  /\ VerdictsFromArbiter
  /\ \A a \in answered : \E f \in DOMAIN finals : a = <<finals[f].id, finals[f].verdict>>

Told ==
  /\ stage \in {"warned", "reported"} /\ warnings = {} =>
       \A f \in DOMAIN finals : ~IsFallback(finals[f])
  /\ stage = "reported" =>
       shown = {finals[f].id : f \in {e \in DOMAIN finals : finals[e].verdict \in allowed}}

JudgeInv == JudgeDomains /\ Stages /\ JudgedOnce /\ Answered /\ Told

IInv == DedupInv /\ JudgeInv

------------------------------------------------------------------------------
(* Pairs of findings, and what a group shows of its members. *)

LEMMA MergeSymmetric ==
  ASSUME NEW f \in Pool, NEW g \in Pool
  PROVE  ShouldMerge(f, g) <=> ShouldMerge(g, f)
<1>1. f.start \in Int /\ f.end \in Int /\ g.start \in Int /\ g.end \in Int
  BY DedupAssumption
<1>2. Degenerate(f, g) <=> Degenerate(g, f)
  BY DEF Degenerate
<1>3. Smaller(f.end, g.end) = Smaller(g.end, f.end)
  BY <1>1 DEF Smaller
<1>4. Larger(f.start, g.start) = Larger(g.start, f.start)
  BY <1>1 DEF Larger
<1>5. Intersection(f, g) = Intersection(g, f)
  BY <1>2, <1>3, <1>4 DEF Intersection
<1>6. Length(f) \in Int /\ Length(g) \in Int /\ Intersection(f, g) \in Int
  BY <1>1 DEF Length, Intersection, Smaller, Larger
<1>7. \A percent : OverlapAtLeast(f, g, percent) <=> OverlapAtLeast(g, f, percent)
  <2> TAKE percent
  <2>1. Length(f) + Length(g) - Intersection(f, g) = Length(g) + Length(f) - Intersection(g, f)
    BY <1>5, <1>6
  <2> QED
    BY <1>5, <2>1, Zenon DEF OverlapAtLeast
<1>8. SimilarTitle(f, g) <=> SimilarTitle(g, f)
  <2>1. {f.title, g.title} = {g.title, f.title}
    OBVIOUS
  <2> QED
    BY <2>1 DEF SimilarTitle
<1> QED
  BY <1>7, <1>8 DEF ShouldMerge

LEMMA GroupShowsMembers ==
  ASSUME raw \in Seq(Pool), NEW id \in Nat,
         NEW members \in Seq(DOMAIN raw), members # <<>>
  PROVE  LET b == BuildFinding(id, members)
         IN  /\ b \in [id : Nat, path : Nat, start : Int, end : Int,
                       members : Seq(DOMAIN raw), sources : Seq({f.scanner : f \in Pool})]
             /\ b.id = id /\ b.members = members
             /\ (\E k \in ToSet(members) : ~Unresolved(raw[k])) => ~Unresolved(b)
             /\ ToSet(b.sources) = {raw[k].scanner : k \in ToSet(members)}
             /\ Len(b.sources) = Cardinality(ToSet(b.sources))
<1> DEFINE n == Len(members)
           best == raw[Best(members)]
           located == {k \in DOMAIN members : ~Unresolved(raw[members[k]])}
           scanner == [k \in DOMAIN members |-> raw[members[k]].scanner]
           F == Firsts(scanner)
           firsts == Ascending(F)
           sources == Sources(members)
           Scanners == {f.scanner : f \in Pool}
           b == BuildFinding(id, members)
<1>1. /\ n \in Nat \ {0} /\ DOMAIN members = 1..n
      /\ \A k \in 1..n : members[k] \in DOMAIN raw
      /\ DOMAIN raw = 1..Len(raw) /\ Len(raw) \in Nat
      /\ \A k \in DOMAIN raw : raw[k] \in Pool
  BY EmptySeq, LenProperties, ElementOfSeq
<1>2. IsFiniteSet(1..n) /\ 1..n \in SUBSET Nat /\ 1 \in 1..n
  <2>1. IsFiniteSet(1..n)
    BY <1>1, FS_Interval
  <2> HIDE DEF n
  <2> QED
    BY <1>1, <2>1
<1> HIDE DEF n
<1>3. \E k \in 1..n : /\ Best(members) = members[k]
                      /\ located # {} => k \in located
  <2>1. CASE located = {}
    <3>1. Best(members) = members[1]
      BY <2>1 DEF Best
    <3> QED
      BY <1>2, <2>1, <3>1
  <2>2. CASE located # {}
    <3>1. located \in SUBSET (1..n) /\ located \in SUBSET Nat
      BY <1>1, <1>2
    <3>2. Best(members) = members[Nth(located, 1)]
      BY <2>2 DEF Best
    <3> HIDE DEF located
    <3>3. IsFiniteSet(located)
      BY <1>2, <3>1, FS_Subset
    <3>4. Cardinality(located) \in Nat /\ Cardinality(located) # 0
      BY <2>2, <3>3, FS_CardinalityType, FS_EmptySet
    <3>5. /\ Ascending(located) \in Seq(located)
          /\ Len(Ascending(located)) = Cardinality(located)
      BY <3>1, <3>3, AscendingEnumerates
    <3>6. 1 \in 1..Cardinality(located)
      BY <3>4
    <3>7. Ascending(located)[1] \in located
      BY <3>5, <3>6, ElementOfSeq
    <3>8. Ascending(located)[1] = Nth(located, 1)
      BY <3>6 DEF Ascending
    <3> QED
      BY <3>1, <3>2, <3>7, <3>8
  <2> QED
    BY <2>1, <2>2
<1>4. best \in Pool
  BY <1>1, <1>3
<1>5. ASSUME NEW k \in ToSet(members), ~Unresolved(raw[k])
      PROVE  ~Unresolved(best)
  <2>1. PICK l \in 1..n : members[l] = k
    BY <1>1 DEF ToSet
  <2>2. l \in located
    BY <1>1, <1>5, <2>1
  <2> QED
    BY <1>3, <2>2
<1>6. /\ F \in SUBSET (1..n) /\ F \in SUBSET Nat /\ IsFiniteSet(F)
      /\ \A k, l \in F : scanner[k] = scanner[l] => k = l
      /\ \A k \in 1..n : \E l \in F : scanner[l] = scanner[k]
  <2>1. F \in SUBSET (1..n) /\ F \in SUBSET Nat
    BY <1>1, <1>2 DEF Firsts
  <2>2. IsFiniteSet(F)
    BY <1>2, <2>1, FS_Subset
  <2>3. ASSUME NEW k \in F, NEW l \in F, scanner[k] = scanner[l] PROVE k = l
    <3>1. k <= l /\ l <= k
      BY <1>1, <2>3 DEF Firsts
    <3>2. k \in Nat /\ l \in Nat
      BY <2>1
    <3> QED
      BY <3>1, <3>2
  <2>4. ASSUME NEW k \in 1..n PROVE \E l \in F : scanner[l] = scanner[k]
    <3> DEFINE same == {l \in 1..n : scanner[l] = scanner[k]}
    <3>1. same \in SUBSET Nat /\ k \in same
      BY <1>2
    <3>2. PICK m \in same : \A l \in same : m <= l
      BY <3>1, MinimalNat
    <3>3. m \in F
      BY <1>1, <3>2 DEF Firsts
    <3> QED
      BY <3>2, <3>3
  <2> QED
    BY <2>1, <2>2, <2>3, <2>4
<1>7. \A k \in 1..n : scanner[k] = raw[members[k]].scanner /\ scanner[k] \in Scanners
  BY <1>1
<1>8. /\ firsts \in Seq(F) /\ Len(firsts) = Cardinality(F)
      /\ DOMAIN firsts = 1..Len(firsts) /\ ToSet(firsts) = F
      /\ \A p, q \in DOMAIN firsts : p < q => firsts[p] < firsts[q]
  BY <1>6, AscendingEnumerates
<1>9. sources = [m \in DOMAIN firsts |-> scanner[firsts[m]]]
  BY DEF Sources
<1>10. b = [id |-> id, path |-> best.path, start |-> best.start, end |-> best.end,
            members |-> members, sources |-> sources]
  BY DEF BuildFinding
<1> HIDE DEF scanner, F, firsts, sources, best, b
<1>11. Len(firsts) \in Nat /\ \A m \in DOMAIN firsts : firsts[m] \in F
  BY <1>8, LenProperties, ElementOfSeq
<1>12. sources \in Seq(Scanners) /\ Len(sources) = Len(firsts)
  <2>1. \A m \in 1..Len(firsts) : scanner[firsts[m]] \in Scanners
    BY <1>6, <1>7, <1>8, <1>11
  <2> HIDE DEF Scanners
  <2>2. sources \in Seq(Scanners)
    <3>1. sources = [m \in 1..Len(firsts) |-> scanner[firsts[m]]]
      BY <1>8, <1>9
    <3> QED
      BY <1>11, <2>1, <3>1, IsASeq
  <2> QED
    BY <1>8, <1>9, <1>11, <2>2, LenProperties
<1>13. ToSet(sources) = {raw[k].scanner : k \in ToSet(members)}
  <2>1. ASSUME NEW m \in DOMAIN sources
        PROVE  \E k \in ToSet(members) : sources[m] = raw[k].scanner
    BY <1>1, <1>6, <1>7, <1>9, <1>11, <2>1 DEF ToSet
  <2>2. ASSUME NEW k \in ToSet(members)
        PROVE  raw[k].scanner \in ToSet(sources)
    <3>1. PICK l \in 1..n : members[l] = k
      BY <1>1 DEF ToSet
    <3>2. PICK e \in F : scanner[e] = scanner[l]
      BY <1>6
    <3>3. PICK m \in DOMAIN firsts : firsts[m] = e
      BY <1>8 DEF ToSet
    <3>4. sources[m] = raw[k].scanner
      BY <1>7, <1>9, <3>1, <3>2, <3>3
    <3> QED
      BY <1>9, <3>3, <3>4 DEF ToSet
  <2> QED
    BY <2>1, <2>2, SMTT(20) DEF ToSet
<1>14. Len(sources) = Cardinality(ToSet(sources))
  <2> DEFINE D == 1..Len(firsts)
  <2>1. DOMAIN sources = D /\ IsFiniteSet(D) /\ Cardinality(D) = Len(firsts)
    BY <1>8, <1>9, <1>11, FS_Interval
  <2>2. ASSUME NEW p \in D, NEW q \in D, sources[p] = sources[q] PROVE p = q
    <3>1. p \in DOMAIN firsts /\ q \in DOMAIN firsts /\ firsts[p] \in F /\ firsts[q] \in F
      BY <1>8, <1>11
    <3>2. firsts[p] = firsts[q]
      BY <1>6, <1>9, <2>2, <3>1
    <3>3. firsts[p] \in Nat
      BY <1>6, <3>1
    <3>4. ~(p < q) /\ ~(q < p)
      BY <1>8, <3>1, <3>2, <3>3
    <3> QED
      BY <1>11, <3>4
  <2>3. sources \in Bijection(D, ToSet(sources))
    <3>1. sources \in [D -> ToSet(sources)]
      BY <1>8, <1>9, <2>1 DEF ToSet
    <3>2. \A e \in ToSet(sources) : \E p \in D : sources[p] = e
      BY <2>1 DEF ToSet
    <3> QED
      BY <2>2, <3>1, <3>2 DEF Bijection, Injection, Surjection, IsInjective
  <2>4. ExistsBijection(D, ToSet(sources))
    BY <2>3 DEF ExistsBijection
  <2>5. Cardinality(ToSet(sources)) = Cardinality(D)
    BY <2>1, <2>4, FS_Bijection
  <2> QED
    BY <1>12, <2>1, <2>5
<1>15. b \in [id : Nat, path : Nat, start : Int, end : Int,
              members : Seq(DOMAIN raw), sources : Seq(Scanners)]
  <2>1. best.path \in Nat /\ best.start \in Int /\ best.end \in Int
    BY <1>4, DedupAssumption
  <2> QED
    BY <1>10, <1>12, <2>1
<1>16. Unresolved(b) <=> Unresolved(best)
  BY <1>10 DEF Unresolved
<1> QED
  <2>1. b.id = id /\ b.members = members /\ b.sources = sources
    BY <1>10
  <2> QED
    BY <1>5, <1>13, <1>14, <1>15, <1>16, <2>1 DEF b

------------------------------------------------------------------------------
(* Dedup keeps its half of the invariant. *)

(* Nothing in it looks at more than raw and config. *)
LEMMA SameFindings ==
  ASSUME raw' = raw, config' = config
  PROVE  /\ \A f : BucketOf(f)' = BucketOf(f)
         /\ \A f, g : ShouldMerge(f, g)' <=> ShouldMerge(f, g)
         /\ MergingPairs' = MergingPairs
         /\ \A X : Part(X)' <=> Part(X)
         /\ \A id, members : BuildFinding(id, members)' = BuildFinding(id, members)
<1>1. \A f : BucketOf(f)' = BucketOf(f)
  BY DEF BucketOf
<1>2. \A f, g : ShouldMerge(f, g)' <=> ShouldMerge(f, g)
  BY DEF ShouldMerge
<1>3. MergingPairs' = MergingPairs
  <2>1. \A k, l : MergeRaw(k, l)' <=> MergeRaw(k, l)
    BY <1>1, <1>2 DEF MergeRaw
  <2> QED
    BY <2>1 DEF MergingPairs
<1>4. \A X : Part(X)' <=> Part(X)
  BY <1>3 DEF Part
<1>5. \A id, members : BuildFinding(id, members)' = BuildFinding(id, members)
  <2>1. \A members : Best(members)' = Best(members)
    BY DEF Best
  <2>2. \A members : Sources(members)' = Sources(members)
    BY DEF Sources
  <2> QED
    BY <2>1, <2>2 DEF BuildFinding
<1> QED
  BY <1>1, <1>2, <1>3, <1>4, <1>5

LEMMA DedupInvInit == DedupInit => DedupInv
<1> SUFFICES ASSUME DedupInit PROVE DedupInv
  OBVIOUS
<1>1. raw \in Seq(Pool) /\ Len(raw) <= MaxRaw
  <2>1. PICK n \in 0..MaxRaw : raw \in [1..n -> Pool]
    BY DEF DedupInit
  <2>2. n \in Nat /\ n <= MaxRaw
    BY <2>1, DedupAssumption
  <2>3. raw = [k \in 1..n |-> raw[k]] /\ \A k \in 1..n : raw[k] \in Pool
    BY <2>1
  <2>4. raw \in Seq(Pool)
    BY <2>2, <2>3, IsASeq
  <2>5. DOMAIN raw = 1..n
    BY <2>1
  <2> QED
    BY <2>2, <2>4, <2>5, LenProperties
<1>2. parent \in [1..Len(parent) -> 1..Len(parent)] /\ Len(parent) \in Nat
  BY EmptySeq, LenProperties DEF DedupInit
<1>3. DedupDomains
  BY <1>1, <1>2 DEF DedupDomains, DedupInit
<1>4. Bucket
  BY DEF Bucket, DedupInit
<1>5. Built
  <2>1. groups = <<>> /\ DOMAIN groups = {} /\ \A k \in DOMAIN raw : Waiting(k)
    BY DEF DedupInit, Waiting
  <2> QED
    BY <2>1, EmptySeq DEF Built
<1> QED
  BY <1>3, <1>4, <1>5 DEF DedupInv

LEMMA OpenBucketKeeps == DedupInv /\ OpenBucket => DedupInv'
<1> SUFFICES ASSUME DedupInv, OpenBucket PROVE DedupInv'
  OBVIOUS
<1> DEFINE key == CHOOSE k \in keys : \A l \in keys : k <= l
           B == {k \in DOMAIN raw : BucketOf(raw[k]) = key}
           n == Len(idxs')
<1>1. /\ raw' = raw /\ config' = config /\ groups' = groups
      /\ idxs = <<>> /\ keys # {}
      /\ keys' = keys \ {key} /\ idxs' = Ascending(B)
      /\ parent' = [k \in DOMAIN idxs' |-> k] /\ i' = 1 /\ j' = 2
  BY DEF OpenBucket
<1>2. /\ raw \in Seq(Pool) /\ DOMAIN raw = 1..Len(raw) /\ Len(raw) \in Nat
      /\ \A k \in DOMAIN raw : raw[k] \in Pool /\ BucketOf(raw[k]) \in Nat
  <2>1. raw \in Seq(Pool) /\ DOMAIN raw = 1..Len(raw) /\ Len(raw) \in Nat
    BY LenProperties DEF DedupInv, DedupDomains
  <2>2. \A k \in DOMAIN raw : raw[k] \in Pool
    BY <2>1, ElementOfSeq
  <2> QED
    BY <2>1, <2>2, DedupAssumption DEF BucketOf
<1>3. keys \subseteq {BucketOf(raw[k]) : k \in DOMAIN raw} /\ keys \in SUBSET Nat
  BY <1>2 DEF DedupInv, DedupDomains
<1>4. key \in keys /\ key \in Nat
  <2>1. \E k \in keys : \A l \in keys : k <= l
    BY <1>1, <1>3, MinimalNat
  <2> QED
    BY <1>3, <2>1
<1> HIDE DEF key
<1>5. B \in SUBSET Nat /\ IsFiniteSet(B) /\ B # {}
  <2>1. IsFiniteSet(1..Len(raw)) /\ B \in SUBSET (1..Len(raw))
    BY <1>2, FS_Interval
  <2>2. B # {}
    BY <1>3, <1>4
  <2> QED
    BY <2>1, <2>2, FS_Subset
<1>6. /\ idxs' \in Seq(B) /\ ToSet(idxs') = B /\ DOMAIN idxs' = 1..n /\ n = Cardinality(B)
  BY <1>1, <1>5, AscendingEnumerates
<1>7. n \in Nat \ {0}
  BY <1>5, <1>6, FS_CardinalityType, FS_EmptySet
<1> HIDE DEF n
<1>8. parent' \in [1..n -> 1..n] /\ Len(parent') = n
  <2>1. parent' = [k \in 1..n |-> k]
    BY <1>1, <1>6
  <2>2. parent' \in Seq(1..n)
    BY <1>7, <2>1, IsASeq
  <2>3. DOMAIN parent' = 1..n
    BY <2>1
  <2> QED
    BY <1>7, <2>1, <2>2, <2>3, LenProperties
<1>9. DedupDomains'
  <2>1. keys' \subseteq {BucketOf(raw[k])' : k \in DOMAIN raw}
    BY <1>1, <1>3, SameFindings
  <2> QED
    BY <1>1, <1>7, <1>8, <2>1 DEF DedupInv, DedupDomains
<1>10. Bucket'
  <2>6. PICK rep : rep \in [1..n -> 1..n] /\ \A x \in 1..n : rep[x] = x
    <3> DEFINE f == [x \in 1..n |-> x]
    <3>1. f \in [1..n -> 1..n] /\ \A x \in 1..n : f[x] = x
      OBVIOUS
    <3> HIDE DEF f
    <3> QED
      BY <3>1
  <2>7. PICK h : h \in [1..n -> Nat]
    <3>1. [x \in 1..n |-> 0] \in [1..n -> Nat]
      OBVIOUS
    <3> QED
      BY <3>1
  <2>1. Forest(parent', rep, h)
    <3>1. DOMAIN parent' = 1..n /\ \A x \in 1..n : parent'[x] = x
      BY <1>1, <1>6
    <3> QED
      BY <2>6, <2>7, <3>1 DEF Forest
  <2>2. Joins(rep)'
    <3>1. DOMAIN idxs' = 1..n /\ i' = 1 /\ j' = 2
      BY <1>1, <1>6
    <3>2. ASSUME NEW a \in 1..n, NEW b \in 1..n, a < b PROVE ~Passed(a, b)'
      BY <1>7, <3>1, <3>2 DEF Passed
    <3>3. \A a, b \in 1..n : rep[a] = rep[b] => a = b
      BY <2>6
    <3> QED
      BY <3>1, <3>2, <3>3 DEF Joins
  <2>3. idxs' = Ascending({k \in DOMAIN raw' : BucketOf(raw[k])' = key})
    BY <1>1, SameFindings
  <2>4. key \in Nat \ keys'
    BY <1>1, <1>4
  <2>5. i' \in 1..n /\ j' \in (i' + 1)..(n + 1) /\ (j' > n => i' = n)
    BY <1>1, <1>7
  <2> QED
    BY <1>8, <2>1, <2>2, <2>3, <2>4, <2>5 DEF Bucket, n
<1>11. Built'
  <2>1. \A k \in DOMAIN raw : ~Waiting(k) => ~Waiting(k)' /\ ~Open(k)'
    BY <1>1, <1>4, <1>6, SameFindings DEF Waiting, Open
  <2>2. \A k \in DOMAIN raw : Waiting(k) => Waiting(k)' \/ Open(k)'
    BY <1>1, <1>6, SameFindings DEF Waiting, Open
  <2>3. \A k : ~Open(k)
    BY <1>1 DEF Open, ToSet
  <2>4. \A g : Members(g)' = Members(g)
    BY <1>1 DEF Members
  <2>5. Built
    BY DEF DedupInv
  <2>6. \A g \in DOMAIN groups : Members(g) \subseteq DOMAIN raw
    BY <2>5 DEF Built, Part
  <2> QED
    BY <1>1, <2>1, <2>2, <2>3, <2>4, <2>5, <2>6, SameFindings DEF Built
<1> QED
  BY <1>9, <1>10, <1>11 DEF DedupInv

(* What is known of the open bucket and its findings. *)
LEMMA OpenBucketIs ==
  ASSUME DedupInv, idxs # <<>>
  PROVE  /\ Len(idxs) \in Nat \ {0} /\ DOMAIN idxs = 1..Len(idxs)
         /\ \E key \in Nat \ keys :
              ToSet(idxs) = {k \in DOMAIN raw : BucketOf(raw[k]) = key}
         /\ \A a \in DOMAIN idxs : idxs[a] \in DOMAIN raw /\ raw[idxs[a]] \in Pool
         /\ \A a, b \in DOMAIN idxs : a < b => idxs[a] < idxs[b]
         /\ \A a, b \in DOMAIN idxs : Pair(a, b) <=> Pair(b, a)
         /\ parent \in [1..Len(idxs) -> 1..Len(idxs)]
         /\ i \in 1..Len(idxs) /\ j \in (i + 1)..(Len(idxs) + 1)
         /\ j > Len(idxs) => i = Len(idxs)
<1>1. PICK key \in Nat \ keys :
        idxs = Ascending({k \in DOMAIN raw : BucketOf(raw[k]) = key})
  BY DEF DedupInv, Bucket
<1> DEFINE B == {k \in DOMAIN raw : BucketOf(raw[k]) = key}
<1>2. /\ raw \in Seq(Pool) /\ DOMAIN raw = 1..Len(raw) /\ Len(raw) \in Nat
      /\ \A k \in DOMAIN raw : raw[k] \in Pool
  BY LenProperties, ElementOfSeq DEF DedupInv, DedupDomains
<1>3. B \in SUBSET Nat /\ IsFiniteSet(B)
  <2>1. IsFiniteSet(1..Len(raw)) /\ B \in SUBSET (1..Len(raw))
    BY <1>2, FS_Interval
  <2> QED
    BY <2>1, FS_Subset
<1>4. /\ idxs \in Seq(B) /\ ToSet(idxs) = B /\ DOMAIN idxs = 1..Len(idxs)
      /\ \A a, b \in DOMAIN idxs : a < b => idxs[a] < idxs[b]
  BY <1>1, <1>3, AscendingEnumerates
<1>5. Len(idxs) \in Nat \ {0}
  BY <1>4, EmptySeq
<1>6. \A a \in DOMAIN idxs : idxs[a] \in B
  BY <1>4, ElementOfSeq
<1>7. \A a \in DOMAIN idxs : idxs[a] \in DOMAIN raw /\ raw[idxs[a]] \in Pool
  BY <1>2, <1>6
<1>8. \A a, b \in DOMAIN idxs : Pair(a, b) <=> Pair(b, a)
  BY <1>7, MergeSymmetric DEF Pair
<1>9. parent \in [1..Len(idxs) -> 1..Len(idxs)]
  BY DEF DedupInv, DedupDomains, Bucket
<1>10. /\ i \in 1..Len(idxs) /\ j \in (i + 1)..(Len(idxs) + 1)
       /\ j > Len(idxs) => i = Len(idxs)
  BY DEF DedupInv, Bucket
<1> QED
  BY <1>1, <1>4, <1>5, <1>7, <1>8, <1>9, <1>10

LEMMA CompareKeeps == DedupInv /\ Compare => DedupInv'
<1> SUFFICES ASSUME DedupInv, Compare PROVE DedupInv'
  OBVIOUS
<1> DEFINE n == Len(idxs)
           D == 1..n
<1>1. /\ raw' = raw /\ config' = config /\ groups' = groups
      /\ keys' = keys /\ idxs' = idxs /\ idxs # <<>> /\ j <= n
      /\ i' = NextPair[1] /\ j' = NextPair[2]
      /\ parent' = IF Pair(i, j) THEN Union(parent, i, j) ELSE parent
  BY DEF Compare, Pair
<1>2. /\ n \in Nat \ {0} /\ DOMAIN idxs = D
      /\ \A a, b \in D : Pair(a, b) <=> Pair(b, a)
      /\ parent \in [D -> D]
      /\ i \in D /\ j \in (i + 1)..(n + 1)
  BY <1>1, OpenBucketIs
<1>3. PICK rep, h : Forest(parent, rep, h) /\ Joins(rep)
  BY <1>1 DEF DedupInv, Bucket
<1> HIDE DEF n
<1>4. i \in D /\ j \in D /\ i < j /\ i \in Nat /\ j \in Nat
  BY <1>1, <1>2
<1>5. rep \in [D -> D]
  BY <1>2, <1>3 DEF Forest
<1>6. \/ j < n /\ i' = i /\ j' = j + 1
      \/ j = n /\ i' = i + 1 /\ j' = i + 2
  <2>1. NextPair = IF j < n THEN <<i, j + 1>> ELSE <<i + 1, i + 2>>
    BY DEF NextPair, n
  <2> QED
    BY <1>1, <1>2, <1>4, <2>1
<1>7. \A a, b \in D : a < b /\ Passed(a, b)' => Passed(a, b) \/ (a = i /\ b = j)
  <2> TAKE a, b \in D
  <2>1. a \in Nat /\ b \in Nat /\ b <= n /\ n \in Nat
    BY <1>2
  <2>2. CASE j < n /\ i' = i /\ j' = j + 1
    BY <1>4, <2>1, <2>2 DEF Passed
  <2>3. CASE j = n /\ i' = i + 1 /\ j' = i + 2
    BY <1>4, <2>1, <2>3 DEF Passed
  <2> QED
    BY <1>6, <2>2, <2>3
<1>8. /\ parent' \in [D -> D]
      /\ \E newrep, newh : Forest(parent', newrep, newh) /\ Joins(newrep)'
  <2>1. \A a, b : Pair(a, b)' <=> Pair(a, b)
    BY <1>1, SameFindings DEF Pair
  <2>2. CASE ~Pair(i, j)
    <3>1. \A a, b \in D : a < b /\ Passed(a, b)' /\ Pair(a, b) => rep[a] = rep[b]
      BY <1>2, <1>3, <1>7, <2>2 DEF Joins
    <3>2. Joins(rep)'
      BY <1>1, <1>2, <1>3, <2>1, <3>1 DEF Joins
    <3> QED
      BY <1>1, <1>2, <1>3, <2>2, <3>2
  <2>3. CASE Pair(i, j)
    <3>1. PICK merged : merged = [x \in D |-> IF rep[x] = rep[i] THEN rep[j] ELSE rep[x]]
      OBVIOUS
    <3>2. parent' = Union(parent, i, j)
      BY <1>1, <2>3
    <3>3. parent' \in [D -> D] /\ \E g : Forest(parent', merged, g)
      BY <1>2, <1>3, <1>4, <3>1, <3>2, UnionMerges
    <3>4. \A x \in D : merged[x] = IF rep[x] = rep[i] THEN rep[j] ELSE rep[x]
      BY <3>1
    <3>5. \A a, b \in D : a < b /\ Passed(a, b)' /\ Pair(a, b) => merged[a] = merged[b]
      <4> SUFFICES ASSUME NEW a \in D, NEW b \in D, a < b, Passed(a, b)', Pair(a, b)
                   PROVE  merged[a] = merged[b]
        OBVIOUS
      <4>1. CASE Passed(a, b)
        <5>1. rep[a] = rep[b]
          BY <1>2, <1>3, <4>1 DEF Joins
        <5> QED
          BY <3>4, <5>1
      <4>2. CASE a = i /\ b = j
        BY <3>4, <4>2
      <4> QED
        BY <1>7, <4>1, <4>2
    <3>6. ASSUME NEW C \in SUBSET D, \A a \in C, b \in D : Pair(a, b) => b \in C,
                 NEW a \in C, NEW b \in D, merged[a] = merged[b]
          PROVE  b \in C
      <4>1. \A c \in C, d \in D : rep[c] = rep[d] => d \in C
        BY <1>2, <1>3, <3>6 DEF Joins
      <4>2. i \in C <=> j \in C
        BY <1>2, <1>4, <2>3, <3>6
      <4>3. CASE rep[a] = rep[b]
        BY <4>1, <4>3
      <4>4. CASE rep[a] = rep[i] /\ rep[j] = rep[b]
        <5>1. i \in C
          BY <1>4, <4>1, <4>4
        <5> QED
          BY <4>1, <4>2, <4>4, <5>1
      <4>5. CASE rep[a] = rep[j] /\ rep[i] = rep[b]
        <5>1. j \in C
          BY <1>4, <4>1, <4>5
        <5> QED
          BY <4>1, <4>2, <4>5, <5>1
      <4> QED
        BY <3>4, <3>6, <4>3, <4>4, <4>5
    <3>7. Joins(merged)'
      BY <1>1, <1>2, <2>1, <3>5, <3>6 DEF Joins
    <3> QED
      BY <3>3, <3>7
  <2> QED
    BY <2>2, <2>3
<1>9. Len(parent') = n
  BY <1>2, <1>8, IsASeq, LenProperties
<1>10. DedupDomains'
  <2>1. keys' \subseteq {BucketOf(raw[k])' : k \in DOMAIN raw}
    BY <1>1, SameFindings DEF DedupInv, DedupDomains
  <2>2. i' \in Nat /\ j' \in Nat
    BY <1>4, <1>6
  <2> QED
    BY <1>1, <1>2, <1>8, <1>9, <2>1, <2>2 DEF DedupInv, DedupDomains
<1>11. Bucket'
  <2>1. PICK key \in Nat \ keys : idxs = Ascending({k \in DOMAIN raw : BucketOf(raw[k]) = key})
    BY <1>1 DEF DedupInv, Bucket
  <2>2. idxs' = Ascending({k \in DOMAIN raw' : BucketOf(raw[k])' = key})
    <3>1. {k \in DOMAIN raw' : BucketOf(raw[k])' = key}
            = {k \in DOMAIN raw : BucketOf(raw[k]) = key}
      BY <1>1, SameFindings
    <3> QED
      BY <1>1, <2>1, <3>1
  <2>3. i' \in 1..n /\ j' \in (i' + 1)..(n + 1) /\ (j' > n => i' = n)
    <3>1. CASE j < n /\ i' = i /\ j' = j + 1
      BY <1>2, <1>4, <3>1
    <3>2. CASE j = n /\ i' = i + 1 /\ j' = i + 2
      BY <1>2, <1>4, <3>2
    <3> QED
      BY <1>6, <3>1, <3>2
  <2>4. Len(idxs') = n /\ keys' = keys
    BY <1>1 DEF n
  <2> QED
    BY <1>8, <1>9, <2>2, <2>3, <2>4 DEF Bucket
<1>12. Built'
  <2>1. \A k : (Waiting(k)' <=> Waiting(k)) /\ (Open(k)' <=> Open(k))
    BY <1>1, SameFindings DEF Waiting, Open
  <2>2. \A g : Members(g)' = Members(g)
    BY <1>1 DEF Members
  <2>3. Built
    BY DEF DedupInv
  <2> QED
    BY <1>1, <2>1, <2>2, <2>3, SameFindings DEF Built
<1> QED
  BY <1>10, <1>11, <1>12 DEF DedupInv

(* Once all pairs are compared, the findings of a tree are a component. *)
LEMMA TreesAreParts ==
  ASSUME DedupInv, idxs # <<>>, j > Len(idxs),
         NEW rep, NEW h, Forest(parent, rep, h), Joins(rep), NEW x \in DOMAIN idxs
  PROVE  Part({idxs[y] : y \in {z \in DOMAIN idxs : rep[z] = rep[x]}})
<1> DEFINE D == DOMAIN idxs
           tree == {z \in D : rep[z] = rep[x]}
           X == {idxs[y] : y \in tree}
<1>1. PICK key \in Nat \ keys : ToSet(idxs) = {k \in DOMAIN raw : BucketOf(raw[k]) = key}
  BY OpenBucketIs
<1>2. /\ Len(idxs) \in Nat \ {0} /\ D = 1..Len(idxs)
      /\ \A a \in D : idxs[a] \in DOMAIN raw
      /\ \A a, b \in D : a < b => idxs[a] < idxs[b]
      /\ \A a, b \in D : Pair(a, b) <=> Pair(b, a)
      /\ i = Len(idxs)
  BY OpenBucketIs
<1>3. X # {} /\ X \subseteq DOMAIN raw
  BY <1>2
<1>4. \A a \in D, l \in DOMAIN raw :
        <<idxs[a], l>> \in MergingPairs <=> \E b \in D : l = idxs[b] /\ Pair(a, b)
  <2> TAKE a \in D, l \in DOMAIN raw
  <2>1. \A k \in DOMAIN raw : k \in ToSet(idxs) <=> BucketOf(raw[k]) = key
    BY <1>1
  <2>2. idxs[a] \in DOMAIN raw /\ idxs[a] \in ToSet(idxs)
    BY <1>2 DEF ToSet
  <2>3. <<idxs[a], l>> \in MergingPairs <=> MergeRaw(idxs[a], l)
    BY <2>2 DEF MergingPairs
  <2>4. MergeRaw(idxs[a], l) <=> l \in ToSet(idxs) /\ ShouldMerge(raw[idxs[a]], raw[l])
    BY <2>1, <2>2 DEF MergeRaw
  <2>5. l \in ToSet(idxs) <=> \E b \in D : l = idxs[b]
    BY DEF ToSet
  <2> QED
    BY <2>3, <2>4, <2>5 DEF Pair
<1>5. \A a, b \in D : Pair(a, b) => rep[a] = rep[b]
  <2> SUFFICES ASSUME NEW a \in D, NEW b \in D, Pair(a, b) PROVE rep[a] = rep[b]
    OBVIOUS
  <2>1. CASE a < b
    <3>1. Passed(a, b)
      BY <1>2, <2>1 DEF Passed
    <3> QED
      BY <2>1, <3>1 DEF Joins
  <2>2. CASE b < a
    <3>1. Passed(b, a) /\ Pair(b, a)
      BY <1>2, <2>2 DEF Passed
    <3> QED
      BY <2>2, <3>1 DEF Joins
  <2>3. CASE a = b
    BY <2>3
  <2> QED
    BY <1>2, <2>1, <2>2, <2>3
<1>6. Closed(X, MergingPairs)
  <2> SUFFICES ASSUME NEW p \in MergingPairs, p[1] \in X PROVE p[2] \in X
    BY DEF Closed
  <2>1. p = <<p[1], p[2]>> /\ p[2] \in DOMAIN raw
    BY DEF MergingPairs
  <2>2. PICK a \in tree : p[1] = idxs[a]
    OBVIOUS
  <2>3. PICK b \in D : p[2] = idxs[b] /\ Pair(a, b)
    BY <1>4, <2>1, <2>2
  <2>4. rep[b] = rep[x]
    BY <1>5, <2>2, <2>3
  <2> QED
    BY <2>3, <2>4
<1>7. ASSUME NEW C \in SUBSET DOMAIN raw, Closed(C, MergingPairs), C \cap X # {}
      PROVE  X \subseteq C
  <2> DEFINE E == {a \in D : idxs[a] \in C}
  <2>1. \A a \in E, b \in D : Pair(a, b) => b \in E
    <3> SUFFICES ASSUME NEW a \in E, NEW b \in D, Pair(a, b) PROVE idxs[b] \in C
      OBVIOUS
    <3>1. <<idxs[a], idxs[b]>> \in MergingPairs
      BY <1>2, <1>4
    <3> QED
      BY <1>7, <3>1 DEF Closed
  <2>2. \A a \in E, b \in D : rep[a] = rep[b] => b \in E
    BY <2>1 DEF Joins
  <2>3. PICK a \in tree : idxs[a] \in C
    BY <1>7
  <2>4. \A b \in tree : b \in E
    BY <2>2, <2>3
  <2> QED
    BY <2>4
<1> QED
  BY <1>3, <1>6, <1>7 DEF Part

LEMMA ClustersAreGroups ==
  ASSUME DedupInv, idxs # <<>>, j > Len(idxs)
  PROVE  LET cs == Clusters(parent)
             members(c) == [k \in DOMAIN cs[c] |-> idxs[cs[c][k]]]
         IN  /\ Len(cs) \in Nat /\ DOMAIN cs = 1..Len(cs)
             /\ \A c \in DOMAIN cs :
                  /\ members(c) \in Seq(DOMAIN raw) /\ members(c) # <<>>
                  /\ \A k, l \in DOMAIN members(c) : k < l => members(c)[k] < members(c)[l]
                  /\ Part(ToSet(members(c))) /\ ToSet(members(c)) \subseteq ToSet(idxs)
             /\ \A c, d \in DOMAIN cs :
                  c # d => ToSet(members(c)) \cap ToSet(members(d)) = {}
             /\ \A k \in ToSet(idxs) : \E c \in DOMAIN cs : k \in ToSet(members(c))
<1> DEFINE cs == Clusters(parent)
           members(c) == [k \in DOMAIN cs[c] |-> idxs[cs[c][k]]]
           n == Len(idxs)
           D == 1..n
<1>1. PICK rep, h : Forest(parent, rep, h) /\ Joins(rep)
  BY DEF DedupInv, Bucket
<1> DEFINE tree(x) == {y \in D : rep[y] = rep[x]}
<1>2. /\ n \in Nat \ {0} /\ DOMAIN idxs = D /\ parent \in [D -> D]
      /\ \A a \in D : idxs[a] \in DOMAIN raw
      /\ \A a, b \in D : a < b => idxs[a] < idxs[b]
      /\ DOMAIN raw \subseteq Nat
  <2>1. DOMAIN raw = 1..Len(raw) /\ Len(raw) \in Nat
    BY LenProperties DEF DedupInv, DedupDomains
  <2>2. DOMAIN raw \subseteq Nat
    BY <2>1
  <2> QED
    BY <2>2, OpenBucketIs
<1>3. /\ Len(cs) \in Nat /\ DOMAIN cs = 1..Len(cs)
      /\ \A c \in DOMAIN cs : \E x \in D : cs[c] = Ascending(tree(x))
      /\ \A x \in D : \E c \in DOMAIN cs : cs[c] = Ascending(tree(x))
      /\ \A c, d \in DOMAIN cs : cs[c] = cs[d] => c = d
  BY <1>1, <1>2, ClustersAreTrees
<1> HIDE DEF cs
<1>4. ASSUME NEW x \in D
      PROVE  /\ Ascending(tree(x)) \in Seq(tree(x)) /\ ToSet(Ascending(tree(x))) = tree(x)
             /\ Len(Ascending(tree(x))) \in Nat \ {0}
             /\ DOMAIN Ascending(tree(x)) = 1..Len(Ascending(tree(x)))
             /\ \A p, q \in DOMAIN Ascending(tree(x)) :
                  p < q => Ascending(tree(x))[p] < Ascending(tree(x))[q]
             /\ Part({idxs[y] : y \in tree(x)})
  <2>1. IsFiniteSet(D) /\ tree(x) \in SUBSET D /\ D \in SUBSET Nat /\ x \in tree(x)
    <3>1. IsFiniteSet(D)
      BY <1>2, FS_Interval
    <3> QED
      BY <1>2, <3>1
  <2>2. IsFiniteSet(tree(x)) /\ tree(x) \in SUBSET Nat
    BY <2>1, FS_Subset
  <2>3. Cardinality(tree(x)) \in Nat /\ Cardinality(tree(x)) # 0
    BY <2>1, <2>2, FS_CardinalityType, FS_EmptySet
  <2>4. Part({idxs[y] : y \in {z \in DOMAIN idxs : rep[z] = rep[x]}})
    BY <1>1, <1>2, TreesAreParts
  <2>5. Part({idxs[y] : y \in tree(x)})
    BY <1>2, <2>4
  <2> HIDE DEF tree
  <2> QED
    BY <2>2, <2>3, <2>5, AscendingEnumerates
<1>5. ASSUME NEW c \in DOMAIN cs, NEW x \in D, cs[c] = Ascending(tree(x))
      PROVE  /\ members(c) \in Seq(DOMAIN raw) /\ members(c) # <<>>
             /\ \A k, l \in DOMAIN members(c) : k < l => members(c)[k] < members(c)[l]
             /\ ToSet(members(c)) = {idxs[y] : y \in tree(x)}
  <2> DEFINE s == cs[c]
             m == members(c)
  <2>1. /\ s \in Seq(tree(x)) /\ ToSet(s) = tree(x) /\ Len(s) \in Nat \ {0}
        /\ DOMAIN s = 1..Len(s)
        /\ \A p, q \in DOMAIN s : p < q => s[p] < s[q]
    BY <1>4, <1>5
  <2>2. \A k \in 1..Len(s) : s[k] \in tree(x)
    BY <2>1, ElementOfSeq
  <2>3. m = [k \in 1..Len(s) |-> idxs[s[k]]]
    BY <2>1
  <2> HIDE DEF s
  <2>4. \A k \in 1..Len(s) : idxs[s[k]] \in DOMAIN raw
    BY <1>2, <2>2
  <2>5. m \in Seq(DOMAIN raw)
    BY <2>1, <2>3, <2>4, IsASeq
  <2>6. DOMAIN m = 1..Len(s) /\ 1 \in DOMAIN m
    BY <2>1, <2>3
  <2>7. m # <<>>
    BY <2>6
  <2>8. \A k, l \in DOMAIN m : k < l => m[k] < m[l]
    BY <1>2, <2>1, <2>2, <2>3
  <2>9. ToSet(m) = {idxs[y] : y \in tree(x)}
    <3>1. \A k \in 1..Len(s) : m[k] = idxs[s[k]] /\ s[k] \in tree(x)
      BY <2>2, <2>3
    <3>2. \A y \in tree(x) : \E k \in 1..Len(s) : m[k] = idxs[y]
      <4> TAKE y \in tree(x)
      <4>1. PICK k \in 1..Len(s) : s[k] = y
        BY <2>1 DEF ToSet
      <4> QED
        BY <2>3, <4>1
    <3> HIDE DEF m
    <3>3. ToSet(m) = {m[k] : k \in 1..Len(s)}
      BY <2>6 DEF ToSet
    <3>4. \A e \in ToSet(m) : \E y \in tree(x) : e = idxs[y]
      BY <3>1, <3>3
    <3>5. \A y \in tree(x) : idxs[y] \in ToSet(m)
      BY <3>2, <3>3
    <3> QED
      BY <3>4, <3>5
  <2> QED
    BY <2>5, <2>7, <2>8, <2>9
<1>6. \A c \in DOMAIN cs : \E x \in D : ToSet(members(c)) = {idxs[y] : y \in tree(x)} /\ cs[c] = Ascending(tree(x))
  BY <1>3, <1>5
<1>7. \A y, z \in D : idxs[y] = idxs[z] => y = z
  <2>1. \A y \in D : idxs[y] \in Nat
    BY <1>2
  <2> QED
    BY <1>2, <2>1
<1>8. ASSUME NEW c \in DOMAIN cs, NEW d \in DOMAIN cs, NEW k \in ToSet(members(c)), k \in ToSet(members(d))
      PROVE  c = d
  <2>1. PICK x \in D : ToSet(members(c)) = {idxs[y] : y \in tree(x)} /\ cs[c] = Ascending(tree(x))
    BY <1>6
  <2>2. PICK z \in D : ToSet(members(d)) = {idxs[y] : y \in tree(z)} /\ cs[d] = Ascending(tree(z))
    BY <1>6
  <2> HIDE DEF members
  <2>3. \E y \in tree(x), w \in tree(z) : idxs[y] = k /\ idxs[w] = k
    BY <1>8, <2>1, <2>2
  <2>4. rep[x] = rep[z]
    BY <1>7, <2>3
  <2>5. tree(x) = tree(z)
    BY <2>4
  <2> QED
    BY <1>3, <2>1, <2>2, <2>5
<1>9. ASSUME NEW k \in ToSet(idxs) PROVE \E c \in DOMAIN cs : k \in ToSet(members(c))
  <2>1. PICK x \in D : k = idxs[x]
    BY <1>2 DEF ToSet
  <2>2. PICK c \in DOMAIN cs : cs[c] = Ascending(tree(x))
    BY <1>3
  <2>3. ToSet(members(c)) = {idxs[y] : y \in tree(x)}
    BY <1>5, <2>2
  <2> HIDE DEF members
  <2> QED
    BY <2>1, <2>3
<1>10. ASSUME NEW c \in DOMAIN cs
       PROVE  /\ members(c) \in Seq(DOMAIN raw) /\ members(c) # <<>>
              /\ \A k, l \in DOMAIN members(c) : k < l => members(c)[k] < members(c)[l]
              /\ Part(ToSet(members(c))) /\ ToSet(members(c)) \subseteq ToSet(idxs)
  <2>1. PICK x \in D : cs[c] = Ascending(tree(x))
    BY <1>3
  <2>2. Part({idxs[y] : y \in tree(x)}) /\ {idxs[y] : y \in tree(x)} \subseteq ToSet(idxs)
    BY <1>2, <1>4 DEF ToSet
  <2> QED
    BY <1>5, <2>1, <2>2
<1>11. \A c, d \in DOMAIN cs : c # d => ToSet(members(c)) \cap ToSet(members(d)) = {}
  BY <1>8
<1> QED
  BY <1>3, <1>9, <1>10, <1>11 DEF cs

LEMMA CloseBucketKeeps == DedupInv /\ CloseBucket => DedupInv'
<1> SUFFICES ASSUME DedupInv, CloseBucket PROVE DedupInv'
  OBVIOUS
<1> DEFINE cs == Clusters(parent)
           members(c) == [k \in DOMAIN cs[c] |-> idxs[cs[c][k]]]
           m == Len(groups)
           n == Len(cs)
           fresh == [c \in DOMAIN cs |-> BuildFinding(m + c, members(c))]
           G == [id : Nat, path : Nat, start : Int, end : Int,
                 members : Seq(DOMAIN raw), sources : Seq({f.scanner : f \in Pool})]
<1>1. /\ raw' = raw /\ config' = config /\ keys' = keys /\ parent' = parent
      /\ i' = i /\ j' = j /\ idxs # <<>> /\ j > Len(idxs) /\ idxs' = <<>>
      /\ groups' = groups \o fresh
  BY DEF CloseBucket
<1>2. /\ n \in Nat /\ DOMAIN cs = 1..n
      /\ \A c \in DOMAIN cs :
           /\ members(c) \in Seq(DOMAIN raw) /\ members(c) # <<>>
           /\ \A k, l \in DOMAIN members(c) : k < l => members(c)[k] < members(c)[l]
           /\ Part(ToSet(members(c))) /\ ToSet(members(c)) \subseteq ToSet(idxs)
      /\ \A c, d \in DOMAIN cs : c # d => ToSet(members(c)) \cap ToSet(members(d)) = {}
      /\ \A k \in ToSet(idxs) : \E c \in DOMAIN cs : k \in ToSet(members(c))
  BY <1>1, ClustersAreGroups
<1>3. PICK key \in Nat \ keys : ToSet(idxs) = {k \in DOMAIN raw : BucketOf(raw[k]) = key}
  BY <1>1, OpenBucketIs
<1>4. /\ raw \in Seq(Pool) /\ groups \in Seq(G) /\ m \in Nat /\ DOMAIN groups = 1..m
  BY LenProperties DEF DedupInv, DedupDomains, Built
<1>5. Built
  BY DEF DedupInv
<1> HIDE DEF cs, members, n, m
<1>6. ASSUME NEW c \in 1..n
      PROVE  /\ fresh[c] \in G /\ fresh[c].members = members(c)
             /\ fresh[c] = BuildFinding(m + c, members(c))
  <2>1. m + c \in Nat /\ fresh[c] = BuildFinding(m + c, members(c))
    BY <1>2, <1>4
  <2>2. members(c) \in Seq(DOMAIN raw) /\ members(c) # <<>>
    BY <1>2
  <2>3. /\ BuildFinding(m + c, members(c))
             \in [id : Nat, path : Nat, start : Int, end : Int, members : Seq(DOMAIN raw),
                  sources : Seq({f.scanner : f \in Pool})]
        /\ BuildFinding(m + c, members(c)).members = members(c)
    BY <1>4, <2>1, <2>2, GroupShowsMembers
  <2> QED
    BY <2>1, <2>3
<1>7. fresh \in Seq(G) /\ Len(fresh) = n
  <2>1. fresh = [c \in 1..n |-> BuildFinding(m + c, members(c))]
    BY <1>2
  <2>2. \A c \in 1..n : BuildFinding(m + c, members(c)) \in G
    BY <1>6
  <2> HIDE DEF G, fresh
  <2>3. fresh \in Seq(G)
    BY <1>2, <2>1, <2>2, IsASeq
  <2>4. DOMAIN fresh = 1..n
    BY <2>1
  <2> QED
    BY <1>2, <2>3, <2>4, LenProperties
<1> HIDE DEF fresh, G
<1>8. /\ groups' \in Seq(G) /\ DOMAIN groups' = 1..(m + n)
      /\ \A g \in 1..m : g \in DOMAIN groups' /\ groups'[g] = groups[g]
      /\ \A c \in 1..n : m + c \in DOMAIN groups' /\ groups'[m + c] = fresh[c]
      /\ \A g \in DOMAIN groups' : g \in 1..m \/ \E c \in 1..n : g = m + c
  BY <1>1, <1>4, <1>7, Places DEF m
<1>9. \A g \in DOMAIN groups' : g \in 1..m \/ \E c \in 1..n : g = m + c
  BY <1>8
<1>10. /\ \A g \in 1..m : Members(g)' = Members(g)
       /\ \A c \in 1..n : \A g : g = m + c => Members(g)' = ToSet(members(c))
  <2>1. ASSUME NEW g \in 1..m PROVE Members(g)' = Members(g)
    BY <1>8 DEF Members
  <2>2. ASSUME NEW c \in 1..n, NEW g, g = m + c PROVE Members(g)' = ToSet(members(c))
    <3>1. groups'[g] = fresh[c]
      BY <1>8, <2>2
    <3> QED
      BY <1>6, <3>1 DEF Members
  <2>3. \A c \in 1..n : \A g : g = m + c => Members(g)' = ToSet(members(c))
    BY <2>2
  <2> QED
    BY <2>1, <2>3
<1>11. \A g \in DOMAIN groups' :
         /\ groups'[g] = BuildFinding(g, groups'[g].members)
         /\ Part(Members(g)')
         /\ \A k, l \in DOMAIN groups'[g].members :
              k < l => groups'[g].members[k] < groups'[g].members[l]
         /\ \A k \in Members(g)' : ~Waiting(k)
  <2>1. ASSUME NEW g \in 1..m
        PROVE  /\ groups'[g] = BuildFinding(g, groups'[g].members)
               /\ Part(Members(g)')
               /\ \A k, l \in DOMAIN groups'[g].members :
                    k < l => groups'[g].members[k] < groups'[g].members[l]
               /\ \A k \in Members(g)' : ~Waiting(k)
    BY <1>4, <1>5, <1>8, <1>10 DEF Built
  <2>2. ASSUME NEW c \in 1..n, NEW g, g = m + c
        PROVE  /\ groups'[g] = BuildFinding(g, groups'[g].members)
               /\ Part(Members(g)')
               /\ \A k, l \in DOMAIN groups'[g].members :
                    k < l => groups'[g].members[k] < groups'[g].members[l]
               /\ \A k \in Members(g)' : ~Waiting(k)
    <3>1. groups'[g] = fresh[c] /\ Members(g)' = ToSet(members(c))
      BY <1>8, <1>10, <2>2
    <3>2. groups'[g].members = members(c) /\ groups'[g] = BuildFinding(g, members(c))
      BY <1>6, <2>2, <3>1
    <3>3. \A k \in ToSet(idxs) : ~Waiting(k)
      BY <1>3 DEF Waiting
    <3> QED
      BY <1>2, <3>1, <3>2, <3>3
  <2> QED
    BY <1>9, <2>1, <2>2
<1>12. ASSUME NEW g \in DOMAIN groups', NEW h \in DOMAIN groups', NEW k \in Members(g)', k \in Members(h)'
       PROVE  g = h
  <2>1. ASSUME NEW e \in 1..m, k \in Members(e)' PROVE k \notin ToSet(idxs)
    <3>1. e \in DOMAIN groups /\ k \in Members(e)
      BY <1>4, <1>10, <2>1
    <3> QED
      BY <1>5, <3>1 DEF Built, Open
  <2>2. ASSUME NEW c \in 1..n, NEW e, e = m + c, k \in Members(e)' PROVE k \in ToSet(idxs)
    BY <1>2, <1>10, <2>2
  <2>3. CASE g \in 1..m /\ h \in 1..m
    BY <1>4, <1>5, <1>10, <1>12, <2>3 DEF Built
  <2>4. CASE \E c, d \in 1..n : g = m + c /\ h = m + d
    <3>1. PICK c \in 1..n, d \in 1..n : g = m + c /\ h = m + d
      BY <2>4
    <3>2. k \in ToSet(members(c)) /\ k \in ToSet(members(d))
      BY <1>10, <1>12, <3>1
    <3> QED
      BY <1>2, <3>1, <3>2
  <2> QED
    BY <1>9, <1>12, <2>1, <2>2, <2>3, <2>4
<1>13. ASSUME NEW k \in DOMAIN raw
       PROVE  Waiting(k) \/ \E g \in DOMAIN groups' : k \in Members(g)'
  <2>1. CASE k \in ToSet(idxs)
    <3>1. PICK c \in 1..n : k \in ToSet(members(c))
      BY <1>2, <2>1
    <3>2. PICK g \in DOMAIN groups' : g = m + c
      BY <1>2, <1>4, <1>8
    <3> QED
      BY <1>10, <3>1, <3>2
  <2>2. CASE \E g \in DOMAIN groups : k \in Members(g)
    <3>1. PICK g \in 1..m : k \in Members(g)
      BY <1>4, <2>2
    <3>2. g \in DOMAIN groups'
      BY <1>2, <1>4, <1>8
    <3> QED
      BY <1>10, <3>1, <3>2
  <2> QED
    BY <1>5, <2>1, <2>2 DEF Built, Open
<1>14. DedupDomains'
  <2>1. keys' \subseteq {BucketOf(raw[k])' : k \in DOMAIN raw}
    BY <1>1, SameFindings DEF DedupInv, DedupDomains
  <2> QED
    BY <1>1, <2>1 DEF DedupInv, DedupDomains
<1>15. Bucket'
  BY <1>1 DEF Bucket
<1>16. Built'
  <2>1. \A k : (Waiting(k)' <=> Waiting(k)) /\ ~Open(k)'
    BY <1>1, SameFindings DEF Waiting, Open, ToSet
  <2>2. \A g, h \in DOMAIN groups' : g # h => Members(g)' \cap Members(h)' = {}
    BY <1>12
  <2>3. G' = G
    BY <1>1 DEF G
  <2>4. \A g \in DOMAIN groups' :
          /\ groups'[g] = BuildFinding(g, groups[g].members)'
          /\ Part(Members(g))'
          /\ \A k, l \in DOMAIN groups'[g].members :
               k < l => groups'[g].members[k] < groups'[g].members[l]
          /\ \A k \in Members(g)' : ~Waiting(k)' /\ ~Open(k)'
    BY <1>1, <1>11, <2>1, SameFindings
  <2>5. \A k \in DOMAIN raw' :
          Waiting(k)' \/ Open(k)' \/ \E g \in DOMAIN groups' : k \in Members(g)'
    BY <1>1, <1>13, <2>1
  <2>6. groups' \in Seq(G')
    BY <1>8, <2>3
  <2> QED
    BY <2>2, <2>4, <2>5, <2>6 DEF Built, G
<1> QED
  BY <1>14, <1>15, <1>16 DEF DedupInv

LEMMA GroupIds ==
  ASSUME DedupInv
  PROVE  /\ DOMAIN groups = 1..Len(groups) /\ Len(groups) \in Nat
         /\ \A g \in DOMAIN groups :
              /\ groups[g].id = g /\ groups[g].path \in Nat
              /\ groups[g].members \in Seq(DOMAIN raw) /\ groups[g].members # <<>>
         /\ \A e \in ToSet(groups) : e.id \in DOMAIN groups /\ e = groups[e.id]
<1> DEFINE G == [id : Nat, path : Nat, start : Int, end : Int,
                 members : Seq(DOMAIN raw), sources : Seq({f.scanner : f \in Pool})]
<1>1. groups \in Seq(G) /\ Built
  BY DEF DedupInv, Built
<1> HIDE DEF G
<1>2. DOMAIN groups = 1..Len(groups) /\ Len(groups) \in Nat
  BY <1>1, LenProperties
<1>3. \A g \in DOMAIN groups : groups[g] \in G
  BY <1>1, <1>2, ElementOfSeq
<1>4. \A g \in DOMAIN groups :
        groups[g].path \in Nat /\ groups[g].members \in Seq(DOMAIN raw)
  BY <1>3 DEF G
<1>5. \A g \in DOMAIN groups : groups[g].members # <<>>
  <2> TAKE g \in DOMAIN groups
  <2>1. Members(g) # {}
    BY <1>1 DEF Built, Part
  <2> QED
    BY <2>1 DEF Members, ToSet
<1>6. \A g \in DOMAIN groups : groups[g].id = g
  <2> TAKE g \in DOMAIN groups
  <2>1. groups[g] = BuildFinding(g, groups[g].members)
    BY <1>1 DEF Built
  <2>2. \A m : BuildFinding(g, m).id = g
    BY DEF BuildFinding
  <2> QED
    BY <2>1, <2>2
<1> QED
  BY <1>2, <1>4, <1>5, <1>6 DEF ToSet

LEMMA FaithfulGroups == DedupInv => GroupsFaithful
<1> SUFFICES ASSUME DedupInv PROVE GroupsFaithful
  OBVIOUS
<1>1. /\ Built /\ raw \in Seq(Pool) /\ DOMAIN raw = 1..Len(raw) /\ Len(raw) \in Nat
      /\ DOMAIN groups = 1..Len(groups) /\ Len(groups) \in Nat
  BY LenProperties DEF DedupInv, DedupDomains, Built
<1>2. MembersAreComponents
  <2> SUFFICES ASSUME Grouped
               PROVE  {Members(g) : g \in DOMAIN groups} = Components(DOMAIN raw, MergingPairs)
    BY DEF MembersAreComponents, Members
  <2> DEFINE P == {Members(g) : g \in DOMAIN groups}
  <2>1. IsFiniteSet(DOMAIN raw)
    BY <1>1, FS_Interval
  <2>2. MergingPairs \in SUBSET ((DOMAIN raw) \X (DOMAIN raw))
    BY DEF MergingPairs
  <2>3. \A X \in P : Part(X)
    BY <1>1 DEF Built
  <2>4. \A k \in DOMAIN raw : \E g \in DOMAIN groups : k \in Members(g)
    <3>1. \A k \in DOMAIN raw : ~Waiting(k) /\ ~Open(k)
      BY DEF Grouped, Waiting, Open, ToSet
    <3> QED
      BY <1>1, <3>1 DEF Built
  <2>5. P \in SUBSET SUBSET DOMAIN raw /\ UNION P = DOMAIN raw
    <3>1. \A g \in DOMAIN groups : Members(g) \in SUBSET DOMAIN raw
      BY <1>1 DEF Built, Part
    <3>2. P \in SUBSET SUBSET DOMAIN raw
      BY <3>1
    <3>3. \A k \in DOMAIN raw : \E X \in P : k \in X
      BY <2>4
    <3> HIDE DEF P
    <3> QED
      BY <3>2, <3>3
  <2> HIDE DEF P
  <2>6. Components(DOMAIN raw, MergingPairs) = P
    BY <2>1, <2>2, <2>3, <2>5, PartsAreComponents DEF Part
  <2> QED
    BY <2>6 DEF P
<1>3. MembersOnceInOrder
  BY <1>1 DEF MembersOnceInOrder, Built, Members
<1>4. ASSUME NEW g \in DOMAIN groups
      PROVE  /\ (\E k \in ToSet(groups[g].members) : ~Unresolved(raw[k])) => ~Unresolved(groups[g])
             /\ ToSet(groups[g].sources) = {raw[k].scanner : k \in ToSet(groups[g].members)}
             /\ Len(groups[g].sources) = Cardinality(ToSet(groups[g].sources))
  <2> DEFINE m == groups[g].members
  <2>1. m \in Seq(DOMAIN raw) /\ m # <<>> /\ g \in Nat
    BY GroupIds
  <2>2. groups[g] = BuildFinding(g, m)
    BY <1>1 DEF Built
  <2> HIDE DEF m
  <2>3. /\ (\E k \in ToSet(m) : ~Unresolved(raw[k])) => ~Unresolved(BuildFinding(g, m))
        /\ ToSet(BuildFinding(g, m).sources) = {raw[k].scanner : k \in ToSet(m)}
        /\ Len(BuildFinding(g, m).sources) = Cardinality(ToSet(BuildFinding(g, m).sources))
    BY <1>1, <2>1, <2>2, GroupShowsMembers
  <2> QED
    BY <2>2, <2>3 DEF m
<1>5. ResolvedWhenPossible /\ EverySourceOnce
  BY <1>4 DEF ResolvedWhenPossible, EverySourceOnce
<1> QED
  BY <1>2, <1>3, <1>5 DEF GroupsFaithful

------------------------------------------------------------------------------
(* The arbiter keeps its half. *)

(* Every group is in one batch, at one place. *)
LEMMA BatchesCover ==
  ASSUME DedupInv
  PROVE  /\ Batches \in Seq(Seq(ToSet(groups)))
         /\ Batches = <<>> <=> groups = <<>>
         /\ \A b, c \in DOMAIN Batches : \A k \in DOMAIN Batches[b], l \in DOMAIN Batches[c] :
              Batches[b][k].id = Batches[c][l].id => b = c /\ k = l
         /\ \A g \in DOMAIN groups : \E b \in DOMAIN Batches : g \in Ids(Batches[b])
<1> DEFINE m == Len(groups)
           T == ToSet(groups)
<1>1. /\ DOMAIN groups = 1..m /\ m \in Nat
      /\ \A g \in DOMAIN groups : groups[g].id = g /\ groups[g].path \in Nat
  BY GroupIds
<1>2. groups = <<>> <=> m = 0
  <2>1. groups \in Seq(T)
    <3>1. PICK G : groups \in Seq(G)
      BY DEF DedupInv, Built
    <3>2. groups = [g \in 1..m |-> groups[g]] /\ \A g \in 1..m : groups[g] \in T
      BY <1>1, <3>1 DEF ToSet
    <3> QED
      BY <1>1, <3>2, IsASeq
  <2> QED
    BY <2>1, EmptySeq
<1>3. \A g \in 1..m : groups[g] \in T
  BY <1>1 DEF ToSet
<1> HIDE DEF m, T
<1>4. CASE mode = "per_group"
  <2>1. Batches = [g \in 1..m |-> <<groups[g]>>]
    BY <1>1, <1>4 DEF Batches
  <2>2. \A g \in 1..m : <<groups[g]>> \in Seq(T)
    BY <1>3
  <2>3. Batches \in Seq(Seq(T))
    BY <1>1, <2>1, <2>2, IsASeq
  <2>4. DOMAIN Batches = 1..m
    BY <2>1
  <2>5. Batches = <<>> <=> groups = <<>>
    BY <1>1, <1>2, <2>3, <2>4, EmptySeq, LenProperties
  <2>6. \A b \in 1..m : /\ DOMAIN Batches[b] = {1} /\ Batches[b][1].id = b
                        /\ b \in Ids(Batches[b])
    <3> TAKE b \in 1..m
    <3>1. Batches[b] = <<groups[b]>> /\ groups[b].id = b
      BY <1>1, <2>1
    <3>2. DOMAIN <<groups[b]>> = {1} /\ <<groups[b]>>[1] = groups[b]
      OBVIOUS
    <3> QED
      BY <3>1, <3>2 DEF Ids
  <2> QED
    BY <1>1, <2>3, <2>4, <2>5, <2>6 DEF T
<1>5. CASE mode # "per_group"
  <2> DEFINE P == {groups[g].path : g \in DOMAIN groups}
             at(b) == {g \in DOMAIN groups : groups[g].path = Paths[b]}
             of(b) == Ascending(at(b))
  <2>1. P \in SUBSET Nat /\ IsFiniteSet(P)
    <3> DEFINE f == [g \in 1..m |-> groups[g].path]
    <3>1. f \in Surjection(1..m, P)
      BY <1>1 DEF Surjection
    <3>2. IsFiniteSet(1..m)
      BY <1>1, FS_Interval
    <3> HIDE DEF f, P
    <3>3. IsFiniteSet(P)
      BY <3>1, <3>2, FS_Surjection
    <3> QED
      BY <1>1, <3>3 DEF P
  <2>2. /\ Paths \in Seq(P) /\ DOMAIN Paths = 1..Len(Paths) /\ ToSet(Paths) = P
        /\ \A b, c \in DOMAIN Paths : b < c => Paths[b] < Paths[c]
    BY <2>1, AscendingEnumerates DEF Paths
  <2>3. Len(Paths) \in Nat /\ \A b \in DOMAIN Paths : Paths[b] \in Nat
    BY <2>1, <2>2, LenProperties, ElementOfSeq
  <2>4. \A b, c \in DOMAIN Paths : Paths[b] = Paths[c] => b = c
    <3> SUFFICES ASSUME NEW b \in DOMAIN Paths, NEW c \in DOMAIN Paths,
                        Paths[b] = Paths[c], b # c
                 PROVE  FALSE
      OBVIOUS
    <3>1. b < c \/ c < b
      BY <2>2, <2>3
    <3> QED
      BY <2>2, <2>3, <3>1
  <2>5. ASSUME NEW b \in DOMAIN Paths
        PROVE  /\ of(b) \in Seq(at(b)) /\ DOMAIN of(b) = 1..Len(of(b)) /\ ToSet(of(b)) = at(b)
               /\ Len(of(b)) \in Nat
               /\ \A k, l \in DOMAIN of(b) : of(b)[k] = of(b)[l] => k = l
    <3>1. at(b) \in SUBSET (1..m) /\ IsFiniteSet(1..m)
      BY <1>1, FS_Interval
    <3>2. IsFiniteSet(at(b)) /\ at(b) \in SUBSET Nat
      BY <1>1, <3>1, FS_Subset
    <3> HIDE DEF at
    <3>3. /\ of(b) \in Seq(at(b)) /\ DOMAIN of(b) = 1..Len(of(b)) /\ ToSet(of(b)) = at(b)
          /\ \A k, l \in DOMAIN of(b) : k < l => of(b)[k] < of(b)[l]
      BY <3>2, AscendingEnumerates
    <3> HIDE DEF of
    <3>4. Len(of(b)) \in Nat /\ \A k \in DOMAIN of(b) : of(b)[k] \in Nat /\ k \in Nat
      BY <3>2, <3>3, LenProperties, ElementOfSeq
    <3>5. ASSUME NEW k \in DOMAIN of(b), NEW l \in DOMAIN of(b), of(b)[k] = of(b)[l], k # l
          PROVE  FALSE
      <4>1. k < l \/ l < k
        BY <3>4, <3>5
      <4> QED
        BY <3>3, <3>4, <3>5, <4>1
    <3> QED
      BY <3>3, <3>4, <3>5
  <2>6. Batches = [b \in 1..Len(Paths) |-> [k \in DOMAIN of(b) |-> groups[of(b)[k]]]]
    BY <1>5, <2>2 DEF Batches
  <2> HIDE DEF of
  <2>7. ASSUME NEW b \in DOMAIN Paths
        PROVE  /\ Batches[b] \in Seq(T) /\ DOMAIN Batches[b] = DOMAIN of(b)
               /\ \A k \in DOMAIN of(b) : Batches[b][k].id = of(b)[k] /\ of(b)[k] \in at(b)
               /\ Ids(Batches[b]) = at(b)
    <3>1. Batches[b] = [k \in 1..Len(of(b)) |-> groups[of(b)[k]]]
      BY <2>2, <2>5, <2>6
    <3>2. \A k \in 1..Len(of(b)) : of(b)[k] \in at(b)
      BY <2>5, ElementOfSeq
    <3>3. \A k \in 1..Len(of(b)) : groups[of(b)[k]] \in T /\ groups[of(b)[k]].id = of(b)[k]
      BY <1>1, <1>3, <3>2
    <3>4. Batches[b] \in Seq(T)
      BY <2>5, <3>1, <3>3, IsASeq
    <3>5. \A k \in 1..Len(of(b)) : Batches[b][k].id = of(b)[k]
      BY <3>1, <3>3
    <3>6. DOMAIN Batches[b] = 1..Len(of(b))
      BY <3>1
    <3>7. Ids(Batches[b]) = at(b)
      <4>1. Ids(Batches[b]) = {of(b)[k] : k \in 1..Len(of(b))}
        BY <3>5, <3>6 DEF Ids
      <4> QED
        BY <2>5, <4>1 DEF ToSet
    <3> QED
      BY <2>5, <3>2, <3>4, <3>5, <3>6, <3>7
  <2>8. DOMAIN Batches = DOMAIN Paths
    BY <2>2, <2>6
  <2>9. Batches \in Seq(Seq(T))
    BY <2>2, <2>3, <2>6, <2>7, IsASeq
  <2>10. \A b, c \in DOMAIN Batches : \A k \in DOMAIN Batches[b], l \in DOMAIN Batches[c] :
           Batches[b][k].id = Batches[c][l].id => b = c /\ k = l
    <3> SUFFICES ASSUME NEW b \in DOMAIN Paths, NEW c \in DOMAIN Paths,
                        NEW k \in DOMAIN of(b), NEW l \in DOMAIN of(c), of(b)[k] = of(c)[l]
                 PROVE  b = c /\ k = l
      BY <2>7, <2>8
    <3>1. of(b)[k] \in at(b) /\ of(c)[l] \in at(c)
      BY <2>7
    <3>2. Paths[b] = Paths[c]
      BY <3>1
    <3>3. b = c
      BY <2>4, <3>2
    <3> QED
      BY <2>5, <3>3
  <2>11. \A g \in DOMAIN groups : \E b \in DOMAIN Batches : g \in Ids(Batches[b])
    <3> TAKE g \in DOMAIN groups
    <3>1. PICK b \in DOMAIN Paths : Paths[b] = groups[g].path
      BY <2>2 DEF ToSet
    <3> QED
      BY <2>7, <2>8, <3>1
  <2>12. Batches = <<>> <=> groups = <<>>
    <3>1. Batches = <<>> <=> DOMAIN Batches = {}
      BY <2>3, <2>8, <2>9, EmptySeq, LenProperties
    <3>2. DOMAIN Paths = {} <=> P = {}
      <4>1. P = {Paths[b] : b \in DOMAIN Paths}
        BY <2>2 DEF ToSet
      <4> HIDE DEF P
      <4> QED
        BY <4>1
    <3>3. P = {} <=> m = 0
      <4>1. P = {} <=> DOMAIN groups = {}
        OBVIOUS
      <4>2. 1..m = {} <=> m = 0
        <5>1. m # 0 => 1 \in 1..m
          BY <1>1
        <5> QED
          BY <5>1
      <4> QED
        BY <1>1, <4>1, <4>2
    <3> QED
      BY <1>2, <2>8, <3>1, <3>2, <3>3
  <2> QED
    BY <2>9, <2>10, <2>11, <2>12 DEF T
<1> QED
  BY <1>4, <1>5

LEMMA JudgeInvInit == ArbiterInit => JudgeInv
<1> SUFFICES ASSUME ArbiterInit PROVE JudgeInv
  OBVIOUS
<1>1. /\ mode \in {"per_file", "per_group"} /\ stage = "idle" /\ batches = <<>>
      /\ finals = <<>> /\ usage = FALSE /\ failed = FALSE /\ answered = {}
      /\ warnings = {} /\ arbiterStatus = "pending" /\ allowed = {} /\ shown = {}
      /\ DOMAIN finals = {} /\ DOMAIN batches = {}
  BY DEF ArbiterInit
<1>2. JudgeDomains
  BY <1>1, EmptySeq DEF JudgeDomains
<1>3. Stages
  BY <1>1 DEF Stages
<1>4. JudgedOnce
  BY <1>1 DEF JudgedOnce
<1>5. Answered
  BY <1>1 DEF Answered, VerdictsFromArbiter, ToSet
<1>6. Told
  BY <1>1 DEF Told
<1> QED
  BY <1>2, <1>3, <1>4, <1>5, <1>6 DEF JudgeInv

(* Grouping is over before there is anything to judge. *)
LEMMA GroupStepKeeps == IInv /\ GroupStep => JudgeInv'
<1> SUFFICES ASSUME IInv, GroupStep PROVE JudgeInv'
  OBVIOUS
<1>1. ~Grouped
  BY DEF GroupStep, DedupNext, OpenBucket, Compare, CloseBucket, Grouped
<1>2. /\ stage = "idle" /\ finals = <<>> /\ batches = <<>> /\ answered = {}
      /\ warnings = {} /\ shown = {} /\ JudgeDomains
  BY <1>1 DEF IInv, JudgeInv, Stages
<1>3. /\ stage' = "idle" /\ finals' = <<>> /\ batches' = <<>> /\ answered' = {}
      /\ warnings' = {} /\ shown' = {} /\ DOMAIN finals' = {} /\ DOMAIN batches' = {}
      /\ mode' = mode /\ usage' = usage /\ failed' = failed
      /\ arbiterStatus' = arbiterStatus /\ allowed' = allowed
  BY <1>2 DEF GroupStep, judgeVars, reportVars
<1>4. JudgeDomains'
  <2>1. finals' \in Seq(Verdicts') /\ batches' \in Seq(Seq(ToSet(groups')))
    BY <1>3, EmptySeq
  <2> QED
    BY <1>2, <1>3, <2>1 DEF JudgeDomains
<1>5. Stages'
  BY <1>3 DEF Stages
<1>6. JudgedOnce'
  BY <1>3 DEF JudgedOnce
<1>7. Answered'
  BY <1>3 DEF Answered, VerdictsFromArbiter, ToSet
<1>8. Told'
  BY <1>3 DEF Told
<1> QED
  BY <1>4, <1>5, <1>6, <1>7, <1>8 DEF JudgeInv

LEMMA StartKeeps == IInv /\ JudgeStart => JudgeInv'
<1> SUFFICES ASSUME IInv, JudgeStart PROVE JudgeInv'
  OBVIOUS
<1>1. /\ Grouped /\ Grouped' /\ stage = "idle" /\ batches' = Batches
      /\ stage' = IF groups = <<>> THEN "judged" ELSE "tool"
      /\ groups' = groups /\ mode' = mode /\ finals' = finals /\ usage' = usage
      /\ failed' = failed /\ answered' = answered /\ warnings' = warnings
      /\ arbiterStatus' = arbiterStatus /\ allowed' = allowed /\ shown' = shown
  BY DEF JudgeStart, Start, dedupVars, reportVars, Grouped
<1>2. /\ finals = <<>> /\ answered = {} /\ warnings = {} /\ shown = {} /\ JudgeDomains
      /\ DOMAIN finals = {}
  BY <1>1 DEF IInv, JudgeInv, Stages
<1>3. /\ Batches \in Seq(Seq(ToSet(groups)))
      /\ Batches = <<>> <=> groups = <<>>
      /\ \A b, c \in DOMAIN Batches : \A k \in DOMAIN Batches[b], l \in DOMAIN Batches[c] :
           Batches[b][k].id = Batches[c][l].id => b = c /\ k = l
      /\ \A g \in DOMAIN groups : \E b \in DOMAIN Batches : g \in Ids(Batches[b])
  BY BatchesCover DEF IInv
<1>4. JudgeDomains'
  <2>1. finals' \in Seq(Verdicts') /\ batches' \in Seq(Seq(ToSet(groups')))
    BY <1>1, <1>2, <1>3, EmptySeq
  <2>2. stage' \in {"tool", "judged"}
    BY <1>1
  <2> QED
    BY <1>1, <1>2, <2>1, <2>2 DEF JudgeDomains
<1>5. Stages'
  BY <1>1, <1>2, <1>3 DEF Stages
<1>6. JudgedOnce'
  BY <1>1, <1>2, <1>3 DEF JudgedOnce, Ids
<1>7. Answered'
  BY <1>1, <1>2 DEF Answered, VerdictsFromArbiter, ToSet
<1>8. Told'
  BY <1>1 DEF Told
<1> QED
  BY <1>4, <1>5, <1>6, <1>7, <1>8 DEF JudgeInv
LEMMA HeadAndTail ==
  ASSUME NEW X, NEW s \in Seq(X), s # <<>>
  PROVE  /\ 1 \in DOMAIN s /\ Head(s) = s[1] /\ s[1] \in X
         /\ Tail(s) \in Seq(X)
         /\ \A p \in DOMAIN Tail(s) :
              p \in Nat /\ p + 1 \in DOMAIN s /\ p + 1 # 1 /\ Tail(s)[p] = s[p + 1]
         /\ \A p \in DOMAIN s : p # 1 => \E q \in DOMAIN Tail(s) : p = q + 1
<1>1. /\ Len(s) \in Nat \ {0} /\ DOMAIN s = 1..Len(s)
      /\ Head(s) \in X /\ Tail(s) \in Seq(X) /\ Len(Tail(s)) = Len(s) - 1
      /\ \A p \in 1..Len(Tail(s)) : Tail(s)[p] = s[p + 1]
  BY HeadTailProperties, LenProperties, EmptySeq
<1>2. 1 \in DOMAIN s /\ Head(s) = s[1] /\ s[1] \in X
  <2>1. 1 \in DOMAIN s
    BY <1>1
  <2>2. Head(s) = s[1]
    OBVIOUS
  <2> QED
    BY <1>1, <2>1, <2>2
<1>3. DOMAIN Tail(s) = 1..(Len(s) - 1)
  BY <1>1, LenProperties
<1>4. ASSUME NEW p \in DOMAIN Tail(s)
      PROVE  p \in Nat /\ p + 1 \in DOMAIN s /\ p + 1 # 1 /\ Tail(s)[p] = s[p + 1]
  <2>1. p \in 1..Len(Tail(s))
    BY <1>1, <1>3
  <2>2. Tail(s)[p] = s[p + 1]
    BY <1>1, <2>1
  <2>3. p \in Nat /\ p + 1 \in DOMAIN s /\ p + 1 # 1
    BY <1>1, <1>3
  <2> QED
    BY <2>2, <2>3
<1>5. ASSUME NEW p \in DOMAIN s, p # 1
      PROVE  \E q \in DOMAIN Tail(s) : p = q + 1
  <2>1. p - 1 \in 1..(Len(s) - 1) /\ p = (p - 1) + 1
    BY <1>1, <1>5
  <2> QED
    BY <1>3, <2>1
<1> QED
  BY <1>1, <1>2, <1>4, <1>5

(* The verdicts of one answer turn the first batch into verdicts of its groups
   and leave the other batches. *)
LEMMA AppliedVerdicts ==
  ASSUME IInv, NEW verdicts \in VerdictMaps, ApplyVerdicts(verdicts),
         stage \in {"tool", "json"}, groups' = groups
  PROVE  /\ finals' \in Seq(Verdicts') /\ batches' \in Seq(Seq(ToSet(groups')))
         /\ stage' \in {"tool", "judged"} /\ (batches' # <<>> <=> stage' = "tool")
         /\ JudgedOnce' /\ Answered'
<1> DEFINE B == batches[1]
           m == Len(finals)
           n == Len(B)
           t == [g \in DOMAIN B |-> Judged(B[g], verdicts)]
           T == ToSet(groups)
           Used == {<<id, verdicts[id]>> : id \in DOMAIN verdicts \cap Ids(B)}
<1>1. /\ DedupInv /\ JudgedOnce /\ Answered /\ Grouped
      /\ batches \in Seq(Seq(T)) /\ batches # <<>> /\ finals \in Seq(Verdicts)
  BY DEF IInv, JudgeInv, JudgeDomains, Stages
<1>2. /\ 1 \in DOMAIN batches /\ Head(batches) = B /\ B \in Seq(T)
      /\ Tail(batches) \in Seq(Seq(T))
      /\ \A p \in DOMAIN Tail(batches) :
           p \in Nat /\ p + 1 \in DOMAIN batches /\ p + 1 # 1 /\ Tail(batches)[p] = batches[p + 1]
      /\ \A p \in DOMAIN batches : p # 1 => \E q \in DOMAIN Tail(batches) : p = q + 1
  <2> HIDE DEF T
  <2>1. \A X : batches \in Seq(X) =>
          /\ 1 \in DOMAIN batches /\ Head(batches) = batches[1] /\ batches[1] \in X
          /\ Tail(batches) \in Seq(X)
          /\ \A p \in DOMAIN Tail(batches) :
               p \in Nat /\ p + 1 \in DOMAIN batches /\ p + 1 # 1 /\ Tail(batches)[p] = batches[p + 1]
          /\ \A p \in DOMAIN batches : p # 1 => \E q \in DOMAIN Tail(batches) : p = q + 1
    BY <1>1, HeadAndTail
  <2> QED
    BY <1>1, <2>1
<1>3. /\ finals' = finals \o t /\ batches' = Tail(batches)
      /\ stage' = IF Tail(batches) = <<>> THEN "judged" ELSE "tool"
      /\ answered' = answered \cup Used
  BY <1>2 DEF ApplyVerdicts
<1>4. /\ DOMAIN groups = 1..Len(groups)
      /\ \A e \in T : e.id \in DOMAIN groups /\ e = groups[e.id]
  BY <1>1, GroupIds
<1>5. DOMAIN B = 1..n /\ n \in Nat /\ \A k \in DOMAIN B : B[k] \in T
  BY <1>2, LenProperties, ElementOfSeq
<1>6. verdicts \in [DOMAIN verdicts -> Given] /\ Given \subseteq AllVerdicts
  <2>1. PICK D : verdicts \in [D -> Given]
    BY DEF VerdictMaps
  <2> QED
    BY <2>1, ArbiterAssumption
<1> HIDE DEF B, T, n, m
<1>7. \A k \in 1..n :
        /\ B[k].id \in DOMAIN groups
        /\ t[k] = Judged(B[k], verdicts) /\ t[k].id = B[k].id
        /\ t[k] \in Verdicts
  <2> TAKE k \in 1..n
  <2>1. t[k] = Judged(B[k], verdicts) /\ B[k].id \in DOMAIN groups
    BY <1>4, <1>5
  <2>2. Judged(B[k], verdicts) \in Verdicts /\ Judged(B[k], verdicts).id = B[k].id
    BY <1>6, <2>1 DEF Judged, Verdicts, FallbackReason, AllVerdicts
  <2> QED
    BY <2>1, <2>2
<1>8. t \in Seq(Verdicts) /\ Len(t) = n
  <2>1. t = [k \in 1..n |-> t[k]] /\ DOMAIN t = 1..n
    BY <1>5
  <2> HIDE DEF t
  <2>2. t \in Seq(Verdicts)
    BY <1>5, <1>7, <2>1, IsASeq
  <2> QED
    BY <1>5, <2>1, <2>2, LenProperties
<1> HIDE DEF t
<1>9. /\ \A k, l \in DOMAIN B : B[k].id = B[l].id => k = l
      /\ \A f \in DOMAIN finals : finals[f].id \notin Ids(B)
  BY <1>1, <1>2 DEF JudgedOnce, B
<1>10. /\ finals' \in Seq(Verdicts) /\ m \in Nat /\ DOMAIN finals = 1..m
       /\ DOMAIN finals' = 1..(m + n)
       /\ \A f \in 1..m : f \in DOMAIN finals' /\ finals'[f] = finals[f]
       /\ \A k \in 1..n : m + k \in DOMAIN finals' /\ finals'[m + k] = t[k]
       /\ \A f \in DOMAIN finals' : f \in 1..m \/ \E k \in 1..n : f = m + k
  <2>1. DOMAIN finals = 1..m
    BY <1>1, LenProperties DEF m
  <2> HIDE DEF Verdicts
  <2> QED
    BY <1>1, <1>3, <1>8, <2>1, Places DEF m
<1>11. Verdicts' = Verdicts
  BY DEF Verdicts
<1>12. JudgedOnce'
  <2>1. \A f, e \in DOMAIN finals' : finals'[f].id = finals'[e].id => f = e
    <3>1. \A f, e \in 1..m : finals'[f].id = finals'[e].id => f = e
      BY <1>1, <1>10 DEF JudgedOnce
    <3>2. \A k, l \in 1..n : finals'[m + k].id = finals'[m + l].id => k = l
      <4> TAKE k, l \in 1..n
      <4>1. finals'[m + k].id = B[k].id /\ finals'[m + l].id = B[l].id
        BY <1>7, <1>10
      <4> QED
        BY <1>5, <1>9, <4>1
    <3>3. \A f \in 1..m, k \in 1..n : finals'[f].id # finals'[m + k].id
      <4> TAKE f \in 1..m, k \in 1..n
      <4>1. finals'[f].id = finals[f].id /\ finals'[m + k].id = B[k].id
        BY <1>7, <1>10
      <4>2. B[k].id \in Ids(B)
        BY <1>5 DEF Ids
      <4> QED
        BY <1>10, <1>9, <4>1, <4>2
    <3> SUFFICES ASSUME NEW f \in DOMAIN finals', NEW e \in DOMAIN finals',
                        finals'[f].id = finals'[e].id
                 PROVE  f = e
      OBVIOUS
    <3> QED
      BY <1>10, <3>1, <3>2, <3>3
  <2>2. \A b, c \in DOMAIN batches' : \A k \in DOMAIN batches'[b], l \in DOMAIN batches'[c] :
          batches'[b][k].id = batches'[c][l].id => b = c /\ k = l
    <3> SUFFICES ASSUME NEW b \in DOMAIN batches', NEW c \in DOMAIN batches',
                        NEW k \in DOMAIN batches'[b], NEW l \in DOMAIN batches'[c],
                        batches'[b][k].id = batches'[c][l].id
                 PROVE  b = c /\ k = l
      OBVIOUS
    <3>1. /\ b \in Nat /\ c \in Nat /\ b + 1 \in DOMAIN batches /\ c + 1 \in DOMAIN batches
          /\ batches'[b] = batches[b + 1] /\ batches'[c] = batches[c + 1]
      BY <1>2, <1>3
    <3>2. b + 1 = c + 1 /\ k = l
      BY <1>1, <3>1 DEF JudgedOnce
    <3> QED
      BY <3>1, <3>2
  <2>3. \A f \in DOMAIN finals', b \in DOMAIN batches' : finals'[f].id \notin Ids(batches'[b])
    <3> SUFFICES ASSUME NEW f \in DOMAIN finals', NEW b \in DOMAIN batches'
                 PROVE  finals'[f].id \notin Ids(batches'[b])
      OBVIOUS
    <3>1. b + 1 \in DOMAIN batches /\ b + 1 # 1 /\ batches'[b] = batches[b + 1]
      BY <1>2, <1>3
    <3>2. CASE f \in 1..m
      BY <1>1, <1>10, <3>1, <3>2 DEF JudgedOnce
    <3>3. ASSUME NEW k \in 1..n, f = m + k
          PROVE  finals'[f].id \notin Ids(batches'[b])
      <4>1. finals'[f].id = batches[1][k].id /\ k \in DOMAIN batches[1]
        BY <1>5, <1>7, <1>10, <3>3 DEF B
      <4>2. \A l \in DOMAIN batches[b + 1] : batches[b + 1][l].id # batches[1][k].id
        BY <1>1, <1>2, <3>1, <4>1 DEF JudgedOnce
      <4> QED
        BY <3>1, <4>1, <4>2 DEF Ids
    <3> QED
      BY <1>10, <3>2, <3>3
  <2>4. \A g \in DOMAIN groups' :
          \/ \E f \in DOMAIN finals' : finals'[f].id = g
          \/ \E b \in DOMAIN batches' : g \in Ids(batches'[b])
    <3> TAKE g \in DOMAIN groups'
    <3>1. CASE \E f \in DOMAIN finals : finals[f].id = g
      BY <1>10, <3>1
    <3>2. CASE \E b \in DOMAIN batches : g \in Ids(batches[b])
      <4>1. PICK b \in DOMAIN batches : g \in Ids(batches[b])
        BY <3>2
      <4>2. CASE b = 1
        <5>1. PICK k \in DOMAIN B : B[k].id = g
          BY <4>1, <4>2 DEF Ids, B
        <5>2. finals'[m + k].id = g /\ m + k \in DOMAIN finals'
          BY <1>5, <1>7, <1>10, <5>1
        <5> QED
          BY <5>2
      <4>3. CASE b # 1
        BY <1>2, <1>3, <4>1, <4>3
      <4> QED
        BY <4>2, <4>3
    <3> QED
      BY <1>1, <3>1, <3>2 DEF JudgedOnce
  <2> QED
    BY <2>1, <2>2, <2>3, <2>4 DEF JudgedOnce, Ids
<1>13. Answered'
  <2>1. \A a \in answered' : \E f \in DOMAIN finals' : a = <<finals'[f].id, finals'[f].verdict>>
    <3> TAKE a \in answered'
    <3>1. CASE a \in answered
      BY <1>1, <1>10, <3>1 DEF Answered
    <3>2. CASE a \in Used
      <4>1. PICK id \in DOMAIN verdicts \cap Ids(B) : a = <<id, verdicts[id]>>
        BY <3>2
      <4>2. PICK k \in DOMAIN B : B[k].id = id
        BY <4>1 DEF Ids
      <4>3. Judged(B[k], verdicts) = [id |-> id, verdict |-> verdicts[id], reason |-> "given"]
        BY <4>1, <4>2 DEF Judged
      <4>4. t[k].id = id /\ t[k].verdict = verdicts[id] /\ k \in 1..n
        BY <1>5, <1>7, <4>3
      <4> QED
        BY <1>10, <4>1, <4>4
    <3> QED
      BY <1>3, <3>1, <3>2
  <2>2. \A f \in DOMAIN finals' :
          IF IsFallback(finals'[f])
          THEN finals'[f].verdict = "uncertain"
               /\ ~\E v \in AllVerdicts : <<finals'[f].id, v>> \in answered'
          ELSE <<finals'[f].id, finals'[f].verdict>> \in answered'
    <3> TAKE f \in DOMAIN finals'
    <3>1. CASE f \in 1..m
      <4>1. finals'[f] = finals[f] /\ f \in DOMAIN finals
        BY <1>10, <3>1
      <4>2. finals[f].id \notin Ids(B)
        BY <1>9, <4>1
      <4>3. IF IsFallback(finals[f])
            THEN finals[f].verdict = "uncertain"
                 /\ ~\E v \in AllVerdicts : <<finals[f].id, v>> \in answered
            ELSE <<finals[f].id, finals[f].verdict>> \in answered
        BY <1>1, <4>1 DEF Answered, VerdictsFromArbiter, ToSet
      <4>4. \A v : <<finals[f].id, v>> \in answered' <=> <<finals[f].id, v>> \in answered
        BY <1>3, <4>2
      <4> QED
        BY <4>1, <4>3, <4>4
    <3>2. ASSUME NEW k \in 1..n, f = m + k
          PROVE  IF IsFallback(finals'[f])
                 THEN finals'[f].verdict = "uncertain"
                      /\ ~\E v \in AllVerdicts : <<finals'[f].id, v>> \in answered'
                 ELSE <<finals'[f].id, finals'[f].verdict>> \in answered'
      <4>1. finals'[f] = Judged(B[k], verdicts)
        BY <1>7, <1>10, <3>2
      <4>2. B[k].id \in Ids(B)
        BY <1>5 DEF Ids
      <4>3. CASE B[k].id \in DOMAIN verdicts
        <5>1. finals'[f] = [id |-> B[k].id, verdict |-> verdicts[B[k].id], reason |-> "given"]
          BY <4>1, <4>3 DEF Judged
        <5>2. ~IsFallback(finals'[f]) /\ <<B[k].id, verdicts[B[k].id]>> \in Used
          BY <4>2, <4>3, <5>1 DEF IsFallback
        <5> QED
          BY <1>3, <5>1, <5>2
      <4>4. CASE B[k].id \notin DOMAIN verdicts
        <5>1. finals'[f] = [id |-> B[k].id, verdict |-> "uncertain",
                            reason |-> FallbackReason(verdicts)]
          BY <4>1, <4>4 DEF Judged
        <5>2. IsFallback(finals'[f]) /\ finals'[f].verdict = "uncertain" /\ finals'[f].id = B[k].id
          <6>1. FallbackReason(verdicts) \in {"arbiter unavailable", "arbiter omitted verdict"}
            BY DEF FallbackReason
          <6>2. finals'[f].reason = FallbackReason(verdicts)
            BY <5>1
          <6>3. IsFallback(finals'[f])
            BY <6>1, <6>2, Zenon DEF IsFallback
          <6> QED
            BY <5>1, <6>3
        <5>3. \A v : <<B[k].id, v>> \notin Used
          BY <4>4
        <5>4. \A v : <<B[k].id, v>> \notin answered
          <6> SUFFICES ASSUME NEW v, <<B[k].id, v>> \in answered PROVE FALSE
            OBVIOUS
          <6>1. PICK e \in DOMAIN finals : <<B[k].id, v>> = <<finals[e].id, finals[e].verdict>>
            BY <1>1 DEF Answered
          <6>2. finals[e].id \in Ids(B)
            BY <4>2, <6>1
          <6> QED
            BY <1>9, <6>2
        <5> QED
          BY <1>3, <5>2, <5>3, <5>4
      <4> QED
        BY <4>3, <4>4
    <3> QED
      BY <1>10, <3>1, <3>2
  <2>3. VerdictsFromArbiter'
    BY <2>2 DEF VerdictsFromArbiter, ToSet, IsFallback
  <2> QED
    BY <2>1, <2>3 DEF Answered
<1>14. /\ batches' \in Seq(Seq(ToSet(groups')))
       /\ stage' \in {"tool", "judged"} /\ (batches' # <<>> <=> stage' = "tool")
  BY <1>2, <1>3 DEF T
<1> QED
  BY <1>10, <1>11, <1>12, <1>13, <1>14
LEMMA AskKeeps ==
  IInv /\ (AskWithTools \/ AskForJson) /\ UNCHANGED dedupVars => JudgeInv'
<1> SUFFICES ASSUME IInv, AskWithTools \/ AskForJson, UNCHANGED dedupVars PROVE JudgeInv'
  OBVIOUS
<1>1. /\ JudgeDomains /\ Stages /\ JudgedOnce /\ Answered /\ Told
      /\ stage \in {"tool", "json"} /\ Grouped /\ warnings = {} /\ shown = {}
      /\ batches # <<>>
  BY DEF IInv, JudgeInv, Stages, AskWithTools, AskForJson
<1>2. /\ groups' = groups /\ mode' = mode /\ warnings' = warnings /\ shown' = shown
      /\ arbiterStatus' = arbiterStatus /\ allowed' = allowed
  BY DEF AskWithTools, AskForJson, reportVars
<1>3. usage' \in BOOLEAN /\ failed' \in BOOLEAN
  BY <1>1 DEF JudgeDomains, AskWithTools, AskForJson, CountTokens
<1>4. \/ /\ stage' = "json" /\ batches' = batches /\ finals' = finals /\ answered' = answered
      \/ \E verdicts \in VerdictMaps : ApplyVerdicts(verdicts)
  BY DEF AskWithTools, AskForJson
<1>5. /\ finals' \in Seq(Verdicts') /\ batches' \in Seq(Seq(ToSet(groups')))
      /\ stage' \in {"tool", "json", "judged"}
      /\ (batches' # <<>> <=> stage' \in {"tool", "json"})
      /\ JudgedOnce' /\ Answered'
  <2>1. CASE stage' = "json" /\ batches' = batches /\ finals' = finals /\ answered' = answered
    <3>1. Verdicts' = Verdicts
      BY <1>2 DEF Verdicts
    <3>2. JudgedOnce'
      BY <1>1, <1>2, <2>1 DEF JudgedOnce, Ids
    <3>3. Answered'
      BY <1>1, <2>1 DEF Answered, VerdictsFromArbiter, ToSet
    <3> QED
      BY <1>1, <1>2, <2>1, <3>1, <3>2, <3>3 DEF JudgeDomains
  <2>2. ASSUME NEW verdicts \in VerdictMaps, ApplyVerdicts(verdicts)
        PROVE  /\ finals' \in Seq(Verdicts') /\ batches' \in Seq(Seq(ToSet(groups')))
               /\ stage' \in {"tool", "judged"} /\ (batches' # <<>> <=> stage' = "tool")
               /\ JudgedOnce' /\ Answered'
    BY <1>1, <1>2, <2>2, AppliedVerdicts
  <2> QED
    BY <1>4, <2>1, <2>2
<1>6. JudgeDomains'
  BY <1>1, <1>2, <1>3, <1>5 DEF JudgeDomains
<1>7. Grouped'
  BY <1>1 DEF dedupVars, Grouped
<1>8. Stages'
  BY <1>1, <1>2, <1>5, <1>7 DEF Stages
<1>9. Told'
  BY <1>1, <1>2, <1>5 DEF Told
<1> QED
  BY <1>5, <1>6, <1>8, <1>9 DEF JudgeInv

(* A warning is left out only when the arbiter judged every group. *)
LEMMA WarnKeeps == IInv /\ Warn /\ UNCHANGED dedupVars => JudgeInv'
<1> SUFFICES ASSUME IInv, Warn, UNCHANGED dedupVars PROVE JudgeInv'
  OBVIOUS
<1>1. /\ JudgeDomains /\ Stages /\ JudgedOnce /\ Answered
      /\ stage = "judged" /\ stage' = "warned" /\ Grouped /\ Grouped' /\ shown = {}
      /\ batches = <<>>
  BY DEF IInv, JudgeInv, Stages, Warn, dedupVars, Grouped
<1>2. /\ groups' = groups /\ mode' = mode /\ batches' = batches /\ finals' = finals
      /\ usage' = usage /\ failed' = failed /\ answered' = answered
      /\ allowed' = allowed /\ shown' = shown
  BY DEF Warn
<1>3. JudgeDomains'
  <2>1. Verdicts' = Verdicts
    BY <1>2 DEF Verdicts
  <2>2. /\ warnings' \subseteq {"arbiter_failed", "arbiter_partial"}
        /\ arbiterStatus' \in {"pending", "ok", "partial", "failed"}
    BY <1>1 DEF Warn, JudgeDomains
  <2> QED
    BY <1>1, <1>2, <2>1, <2>2 DEF JudgeDomains
<1>4. Stages'
  BY <1>1, <1>2 DEF Stages
<1>5. JudgedOnce'
  BY <1>1, <1>2 DEF JudgedOnce, Ids
<1>6. Answered'
  BY <1>1, <1>2 DEF Answered, VerdictsFromArbiter, ToSet
<1>7. Told'
  <2> SUFFICES ASSUME warnings' = {}, NEW f \in DOMAIN finals, IsFallback(finals[f])
               PROVE  FALSE
    BY <1>1, <1>2 DEF Told, IsFallback
  <2>1. ~ArbiterOutage /\ ~ArbiterPartialOmission
    BY DEF Warn
  <2>2. \A e \in DOMAIN finals : IsFallback(finals[e])
    BY <2>1 DEF ArbiterPartialOmission
  <2>3. \A e \in ToSet(finals) : e.verdict = "uncertain" /\ IsFallback(e)
    BY <1>1, <2>2 DEF Answered, VerdictsFromArbiter, ToSet
  <2>4. finals # <<>>
    OBVIOUS
  <2> QED
    BY <2>1, <2>3, <2>4 DEF ArbiterOutage
<1> QED
  BY <1>3, <1>4, <1>5, <1>6, <1>7 DEF JudgeInv

LEMMA ReportKeeps == IInv /\ Report /\ UNCHANGED dedupVars => JudgeInv'
<1> SUFFICES ASSUME IInv, Report, UNCHANGED dedupVars PROVE JudgeInv'
  OBVIOUS
<1>1. /\ JudgeDomains /\ Stages /\ JudgedOnce /\ Answered /\ Told
      /\ stage = "warned" /\ stage' = "reported" /\ Grouped /\ Grouped'
      /\ batches = <<>>
  BY DEF IInv, JudgeInv, Stages, Report, dedupVars, Grouped
<1>2. /\ groups' = groups /\ mode' = mode /\ batches' = batches /\ finals' = finals
      /\ usage' = usage /\ failed' = failed /\ answered' = answered
      /\ warnings' = warnings /\ arbiterStatus' = arbiterStatus
  BY DEF Report
<1>3. JudgeDomains'
  <2>1. Verdicts' = Verdicts
    BY <1>2 DEF Verdicts
  <2>2. allowed' \subseteq AllVerdicts
    BY ArbiterAssumption DEF Report
  <2> QED
    BY <1>1, <1>2, <2>1, <2>2 DEF JudgeDomains
<1>4. Stages'
  BY <1>1, <1>2 DEF Stages
<1>5. JudgedOnce'
  BY <1>1, <1>2 DEF JudgedOnce, Ids
<1>6. Answered'
  BY <1>1, <1>2 DEF Answered, VerdictsFromArbiter, ToSet
<1>7. Told'
  <2>1. shown' = {finals[f].id : f \in {e \in DOMAIN finals : finals[e].verdict \in allowed'}}
    BY DEF Report, ToSet
  <2> QED
    BY <1>1, <1>2, <2>1 DEF Told, IsFallback
<1> QED
  BY <1>3, <1>4, <1>5, <1>6, <1>7 DEF JudgeInv

LEMMA DedupInvStays == DedupInv /\ UNCHANGED dedupVars => DedupInv'
<1> SUFFICES ASSUME DedupInv, UNCHANGED dedupVars PROVE DedupInv'
  OBVIOUS
<1>1. /\ raw' = raw /\ config' = config /\ keys' = keys /\ idxs' = idxs
      /\ parent' = parent /\ i' = i /\ j' = j /\ groups' = groups
  BY DEF dedupVars
<1>2. DedupDomains'
  BY <1>1 DEF DedupInv, DedupDomains, BucketOf
<1>3. Bucket'
  <2>1. \A a, b : Pair(a, b)' <=> Pair(a, b)
    BY <1>1 DEF Pair, ShouldMerge, SimilarTitle, OverlapAtLeast
  <2>2. \A a, b : Passed(a, b)' <=> Passed(a, b)
    BY <1>1 DEF Passed
  <2>3. \A rep : Joins(rep) => Joins(rep)'
    BY <1>1, <2>1, <2>2 DEF Joins
  <2> QED
    BY <1>1, <2>3 DEF DedupInv, Bucket, BucketOf
<1>4. Built'
  <2>1. \A id, members : BuildFinding(id, members)' = BuildFinding(id, members)
    BY <1>1 DEF BuildFinding, Best, Sources
  <2>2. MergingPairs' = MergingPairs
    BY <1>1 DEF MergingPairs, MergeRaw, BucketOf, ShouldMerge, SimilarTitle, OverlapAtLeast
  <2>3. \A X : Part(X)' <=> Part(X)
    BY <1>1, <2>2 DEF Part
  <2>4. \A k : (Waiting(k)' <=> Waiting(k)) /\ (Open(k)' <=> Open(k)) /\ Members(k)' = Members(k)
    BY <1>1 DEF Waiting, Open, Members, BucketOf
  <2> QED
    BY <1>1, <2>1, <2>3, <2>4 DEF DedupInv, Built
<1> QED
  BY <1>2, <1>3, <1>4 DEF DedupInv

LEMMA StutterKeeps == JudgeInv /\ UNCHANGED vars => JudgeInv'
<1> SUFFICES ASSUME JudgeInv, UNCHANGED vars PROVE JudgeInv'
  OBVIOUS
<1>1. /\ groups' = groups /\ mode' = mode /\ stage' = stage /\ batches' = batches
      /\ finals' = finals /\ usage' = usage /\ failed' = failed /\ answered' = answered
      /\ warnings' = warnings /\ arbiterStatus' = arbiterStatus /\ allowed' = allowed
      /\ shown' = shown /\ keys' = keys /\ idxs' = idxs
  BY DEF vars, dedupVars, judgeVars, reportVars
<1>2. JudgeDomains' /\ Stages'
  BY <1>1 DEF JudgeInv, JudgeDomains, Verdicts, Stages, Grouped
<1>3. JudgedOnce'
  BY <1>1 DEF JudgeInv, JudgedOnce, Ids
<1>4. Answered' /\ Told'
  BY <1>1 DEF JudgeInv, Answered, VerdictsFromArbiter, ToSet, IsFallback, Told
<1> QED
  BY <1>2, <1>3, <1>4 DEF JudgeInv

(* Grouping keeps the positions and the trees right while it works, and the
   arbiter every group in one place until it is judged (group.go:61-96,
   arbiter.go:69-104). *)
THEOREM Invariant == Spec => []IInv
<1>1. Init => IInv
  BY DedupInvInit, JudgeInvInit DEF Init, IInv
<1>2. IInv /\ [Next]_vars => IInv'
  <2> SUFFICES ASSUME IInv, [Next]_vars PROVE IInv'
    OBVIOUS
  <2>1. CASE GroupStep
    <3>1. DedupInv'
      BY <2>1, OpenBucketKeeps, CompareKeeps, CloseBucketKeeps DEF IInv, GroupStep, DedupNext
    <3> QED
      BY <2>1, <3>1, GroupStepKeeps DEF IInv
  <2>2. CASE JudgeStart
    BY <2>2, DedupInvStays, StartKeeps DEF IInv, JudgeStart
  <2>3. CASE JudgeStep
    <3>1. DedupInv'
      BY <2>3, DedupInvStays DEF IInv, JudgeStep
    <3>2. JudgeInv'
      BY <2>3, AskKeeps, WarnKeeps, ReportKeeps DEF JudgeStep, ArbiterNext
    <3> QED
      BY <3>1, <3>2 DEF IInv
  <2>4. CASE UNCHANGED vars
    BY <2>4, DedupInvStays, StutterKeeps DEF IInv, vars
  <2> QED
    BY <2>1, <2>2, <2>3, <2>4 DEF Next
<1> QED
  BY <1>1, <1>2, PTL DEF Spec
------------------------------------------------------------------------------
(* What the invariant promises. *)

LEMMA InvariantTypes == IInv => TypeOK
<1> SUFFICES ASSUME IInv PROVE TypeOK
  OBVIOUS
<1>1. DedupInv /\ DedupDomains /\ JudgeDomains /\ Stages /\ Answered /\ Told
  BY DEF IInv, DedupInv, JudgeInv
<1>2. idxs \in Seq(DOMAIN raw)
  <2>1. CASE idxs = <<>>
    BY <2>1, EmptySeq
  <2>2. CASE idxs # <<>>
    <3>1. /\ Len(idxs) \in Nat /\ DOMAIN idxs = 1..Len(idxs)
          /\ \A a \in DOMAIN idxs : idxs[a] \in DOMAIN raw
      BY <1>1, <2>2, OpenBucketIs
    <3>2. PICK S : idxs = Ascending(S)
      BY <1>1, <2>2 DEF DedupInv, Bucket
    <3>3. idxs = [a \in 1..Len(idxs) |-> idxs[a]]
      BY <3>1, <3>2 DEF Ascending
    <3> QED
      BY <3>1, <3>3, IsASeq
  <2> QED
    BY <2>1, <2>2
<1>3. parent \in Seq(DOMAIN parent)
  BY <1>1, IsASeq DEF DedupDomains
<1>4. \A g \in DOMAIN groups : groups[g].id = g /\ groups[g].members \in Seq(DOMAIN raw)
  BY <1>1, GroupIds
<1>5. \A b \in DOMAIN batches : batches[b] \in Seq(ToSet(groups))
  <2> DEFINE S == Seq(ToSet(groups))
  <2>1. batches \in Seq(S)
    BY <1>1 DEF JudgeDomains
  <2> HIDE DEF S
  <2>2. \A b \in DOMAIN batches : batches[b] \in S
    BY <2>1, ElementOfSeq, LenProperties
  <2> QED
    BY <2>2 DEF S
<1>6. \A f \in DOMAIN finals : finals[f].id \in DOMAIN groups /\ finals[f].verdict \in AllVerdicts
  <2>1. finals \in Seq(Verdicts)
    BY <1>1 DEF JudgeDomains
  <2>2. \A f \in DOMAIN finals : finals[f] \in Verdicts
    BY <2>1, ElementOfSeq, LenProperties
  <2> QED
    BY <2>2 DEF Verdicts
<1>7. answered \subseteq (DOMAIN groups) \X AllVerdicts
  BY <1>1, <1>6 DEF Answered
<1>8. shown \subseteq DOMAIN groups
  BY <1>1, <1>6 DEF Stages, Told
<1> QED
  BY <1>1, <1>2, <1>3, <1>4, <1>5, <1>7, <1>8 DEF TypeOK, DedupDomains, JudgeDomains

(* When nothing is left to judge, a group has one verdict. *)
LEMMA OneVerdictEach ==
  ASSUME IInv, stage = "reported", NEW g \in DOMAIN groups
  PROVE  \E f \in DOMAIN finals : \A e \in DOMAIN finals : finals[e].id = g <=> e = f
<1>1. JudgedOnce /\ Stages /\ DOMAIN batches = {}
  <2>1. JudgedOnce /\ Stages
    BY DEF IInv, JudgeInv
  <2> QED
    BY <2>1 DEF Stages
<1>2. PICK f \in DOMAIN finals : finals[f].id = g
  BY <1>1 DEF JudgedOnce
<1> QED
  BY <1>1, <1>2 DEF JudgedOnce

LEMMA InvariantJudges == IInv => EveryFindingJudgedOnce
<1> SUFFICES ASSUME IInv PROVE EveryFindingJudgedOnce
  OBVIOUS
<1>1. VerdictsFromArbiter
  BY DEF IInv, JudgeInv, Answered
<1>2. ASSUME stage = "reported", NEW k \in DOMAIN raw
      PROVE  Cardinality({f \in DOMAIN finals : k \in ToSet(groups[finals[f].id].members)}) = 1
  <2>1. Grouped /\ Built
    BY <1>2 DEF IInv, JudgeInv, Stages, DedupInv
  <2>2. ~Waiting(k) /\ ~Open(k)
    BY <2>1 DEF Grouped, Waiting, Open, ToSet
  <2>3. PICK g \in DOMAIN groups : k \in Members(g)
    BY <2>1, <2>2 DEF Built
  <2>4. \A h \in DOMAIN groups : k \in Members(h) => h = g
    BY <2>1, <2>3 DEF Built
  <2>5. PICK f \in DOMAIN finals : \A e \in DOMAIN finals : finals[e].id = g <=> e = f
    BY <1>2, OneVerdictEach
  <2>6. \A e \in DOMAIN finals : finals[e].id \in DOMAIN groups
    <3>1. finals \in Seq(Verdicts)
      BY DEF IInv, JudgeInv, JudgeDomains
    <3>2. \A e \in DOMAIN finals : finals[e] \in Verdicts
      BY <3>1, ElementOfSeq, LenProperties
    <3> QED
      BY <3>2 DEF Verdicts
  <2>7. {e \in DOMAIN finals : k \in ToSet(groups[finals[e].id].members)} = {f}
    BY <2>3, <2>4, <2>5, <2>6 DEF Members
  <2> QED
    BY <2>7, FS_Singleton
<1> QED
  BY <1>1, <1>2 DEF EveryFindingJudgedOnce

LEMMA InvariantHidesNothing == IInv => NothingHiddenSilently
<1> SUFFICES ASSUME IInv, stage = "reported", NEW g \in DOMAIN groups, warnings = {}, g \notin shown
             PROVE  \E v \in AllVerdicts \ allowed : <<g, v>> \in answered
  <2>1. IInv => \A g \in DOMAIN groups : groups[g].id = g
    BY GroupIds DEF IInv
  <2> QED
    BY <2>1 DEF NothingHiddenSilently
<1>1. PICK f \in DOMAIN finals : finals[f].id = g
  BY OneVerdictEach
<1>2. ~IsFallback(finals[f]) /\ (finals[f].verdict \in allowed => g \in shown)
  BY <1>1 DEF IInv, JudgeInv, Told
<1>3. <<g, finals[f].verdict>> \in answered
  BY <1>1, <1>2 DEF IInv, JudgeInv, Answered, VerdictsFromArbiter, ToSet
<1>4. finals[f].verdict \in AllVerdicts
  <2>1. answered \subseteq (DOMAIN groups) \X AllVerdicts
    BY InvariantTypes DEF TypeOK
  <2> QED
    BY <1>3, <2>1
<1> QED
  BY <1>2, <1>3, <1>4

(* Every variable of the grouping and of the judging keeps its domain. *)
THEOREM Typing == Spec => []TypeOK
  BY Invariant, InvariantTypes, PTL

(* Dedup's groups are exactly the components of "should merge" inside a bucket,
   for every set of findings and every order of the comparisons; each shows its
   members once, in order, with a resolved place if one has it, and each of its
   scanners once (Group and buildFinding, group.go:61-206). *)
THEOREM Faithful == Spec => []GroupsFaithful
<1>1. IInv => GroupsFaithful
  BY FaithfulGroups DEF IInv
<1> QED
  BY <1>1, Invariant, PTL

(* Every raw finding reaches the report in one group with one verdict, given by
   an answer for that group's own batch or else uncertain (Decide and
   applyVerdicts, arbiter.go:69-104 and 305-333). *)
THEOREM FindingsJudgedOnce == Spec => []EveryFindingJudgedOnce
  BY Invariant, InvariantJudges, PTL

(* A report without a warning leaves out only groups to which the arbiter gave a
   verdict the user filtered (andorra_review_render.go:28-111). *)
THEOREM HidesNothing == Spec => []NothingHiddenSilently
  BY Invariant, InvariantHidesNothing, PTL
===============================================================================
