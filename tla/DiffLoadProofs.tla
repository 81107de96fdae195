--------------------------- MODULE DiffLoadProofs ---------------------------
(***************************************************************************)
(* The load of the diffs, for every repository, every content and rule      *)
(* file, any number of edits and failing git commands, and the Runner the   *)
(* load shares with the tools.                                             *)
(*                                                                         *)
(* That each changed file is reviewed once is known when the diffs are      *)
(* dispatched; the invariant carries it there from the first git command:   *)
(*   RunnerInv  as many tokens as running commands;                        *)
(*   Typing     the domains, and what a list of diffs is made of;          *)
(*   Stages     which places a mode passes, and what is still empty there; *)
(*   Following  of each file under review that nobody touched, while no     *)
(*              failure was swallowed: at most one diff shows it, no diff   *)
(*              that shows it is binary, and if it changed it has a diff or *)
(*              is still to be listed or read as untracked.                *)
(* Where a comment points needs a second one, LinesInv:                     *)
(*   AllAligned the numbers counted from each hunk's header are those of    *)
(*              the lines in the two files the diff compares;               *)
(*   Honest     a comment's place is the place of its present quote in a    *)
(*              diff that names its file; without one, it has the quote it  *)
(*              came with, and in the end the last diff has no place for it.*)
(***************************************************************************)
EXTENDS DiffLoad, FiniteSetTheorems, SequenceTheorems, WellFoundedInduction, TLAPS

------------------------------------------------------------------------------
(* Numbers and sequences. *)

(* A set of numbers that is not empty has a least one. *)
LEMMA MinimalNat ==
  ASSUME NEW T \in SUBSET Nat, T # {}
  PROVE  \E m \in T : \A k \in T : m <= k
<1>1. PICK m \in T : \A k \in T : <<k, m>> \notin OpToRel(<, Nat)
  BY NatLessThanWellFounded, WFMin
<1>2. \A k \in T : ~(k < m) /\ k \in Nat /\ m \in Nat
  BY <1>1 DEF OpToRel
<1>3. \A k \in T : m <= k
  BY <1>2
<1> QED
  BY <1>3

(* Min, of the community modules, is the least number of a set that has one. *)
LEMMA MinIsIn ==
  ASSUME NEW T \in SUBSET Nat, T # {}
  PROVE  Min(T) \in T /\ \A k \in T : Min(T) <= k
<1>1. \E m \in T : \A k \in T : m <= k
  BY MinimalNat
<1> QED
  BY <1>1 DEF Min

(* Induction up to n, on a set of numbers instead of a predicate. *)
LEMMA UpTo ==
  ASSUME NEW n \in Nat, NEW T \in SUBSET (0..n), 0 \in T,
         \A k \in T : k < n => k + 1 \in T
  PROVE  T = 0..n
<1> SUFFICES ASSUME (0..n) \ T # {} PROVE FALSE
  OBVIOUS
<1>1. (0..n) \ T \in SUBSET Nat
  OBVIOUS
<1>2. PICK m \in (0..n) \ T : \A k \in (0..n) \ T : m <= k
  BY <1>1, MinimalNat
<1>3. m \in 1..n /\ m - 1 \in 0..n
  BY <1>2
<1>4. m - 1 \in T
  BY <1>2, <1>3
<1>5. m \in T
  BY <1>3, <1>4
<1> QED
  BY <1>2, <1>5

(* What Among computes, prefix by prefix. *)
Prefixes(s, K, u) ==
  u = [k \in 0..Len(s) |-> IF k = 0 THEN <<>>
                           ELSE IF s[k] \in K THEN Append(u[k - 1], s[k]) ELSE u[k - 1]]

LEMMA PrefixSteps ==
  ASSUME NEW S, NEW s \in Seq(S), NEW K, NEW u, Prefixes(s, K, u)
  PROVE  /\ DOMAIN u = 0..Len(s)
         /\ u[0] = <<>>
         /\ \A k \in 1..Len(s) :
              u[k] = IF s[k] \in K THEN Append(u[k - 1], s[k]) ELSE u[k - 1]
<1> DEFINE body(k) == IF k = 0 THEN <<>>
                      ELSE IF s[k] \in K THEN Append(u[k - 1], s[k]) ELSE u[k - 1]
<1>1. Len(s) \in Nat
  OBVIOUS
<1>2. u = [k \in 0..Len(s) |-> body(k)]
  BY DEF Prefixes
<1>3. \A k \in 1..Len(s) : k \in 0..Len(s) /\ k # 0
  BY <1>1
<1>4. \A k \in 1..Len(s) : body(k) = IF s[k] \in K THEN Append(u[k - 1], s[k]) ELSE u[k - 1]
  BY <1>3
<1>5. 0 \in 0..Len(s) /\ body(0) = <<>>
  BY <1>1
<1> HIDE DEF body
<1>6. DOMAIN u = 0..Len(s) /\ \A k \in 0..Len(s) : u[k] = body(k)
  BY <1>2
<1> QED
  BY <1>3, <1>4, <1>5, <1>6

(* Among is the last of its prefixes. *)
LEMMA AmongPrefixes ==
  ASSUME NEW S, NEW s \in Seq(S), NEW K
  PROVE  \E u : /\ Prefixes(s, K, u)
                /\ Among(s, K) = u[Len(s)]
                /\ u \in [0..Len(s) -> Seq(S)]
<1> DEFINE n == Len(s)
           to(u, m) == u = [k \in 0..m |-> IF k = 0 THEN <<>>
                              ELSE IF s[k] \in K THEN Append(u[k - 1], s[k]) ELSE u[k - 1]]
           T == {m \in 0..n : \E u : to(u, m)}
<1>1. n \in Nat
  OBVIOUS
<1>2. 0 \in T
  <2> DEFINE v == [k \in 0..0 |-> <<>>]
  <2>1. to(v, 0)
    OBVIOUS
  <2>2. \E u : to(u, 0)
    BY <2>1
  <2> QED
    BY <1>1, <2>2
<1>3. ASSUME NEW m \in T, m < n PROVE m + 1 \in T
  <2>1. PICK u : to(u, m)
    OBVIOUS
  <2> DEFINE new == IF s[m + 1] \in K THEN Append(u[m], s[m + 1]) ELSE u[m]
             v == [k \in 0..(m + 1) |-> IF k <= m THEN u[k] ELSE new]
  <2>2. m \in Nat /\ m + 1 \in 0..n
    BY <1>1, <1>3
  <2>3. /\ v[m + 1] = new /\ v[m] = u[m]
        /\ \A k \in 0..m : v[k] = u[k]
    BY <2>2
  <2>4. ASSUME NEW k \in 0..(m + 1), k # 0
        PROVE  v[k] = IF s[k] \in K THEN Append(v[k - 1], s[k]) ELSE v[k - 1]
    <3>1. CASE k = m + 1
      <4>1. k - 1 = m
        BY <2>2, <3>1
      <4> QED
        BY <2>3, <3>1, <4>1
    <3>2. CASE k # m + 1
      <4>1. k \in 0..m /\ k - 1 \in 0..m
        BY <2>2, <2>4, <3>2
      <4>2. u[k] = IF s[k] \in K THEN Append(u[k - 1], s[k]) ELSE u[k - 1]
        BY <2>1, <2>4, <4>1
      <4> QED
        BY <2>3, <4>1, <4>2
    <3> QED
      BY <3>1, <3>2
  <2>5. v[0] = <<>>
    <3>1. u[0] = <<>>
      BY <2>1, <2>2
    <3> QED
      BY <2>2, <2>3, <3>1
  <2>6. DOMAIN v = 0..(m + 1) /\ v = [k \in 0..(m + 1) |-> v[k]]
    OBVIOUS
  <2> HIDE DEF v
  <2>7. to(v, m + 1)
    BY <2>4, <2>5, <2>6
  <2> QED
    BY <2>2, <2>7
<1>4. T \in SUBSET (0..n)
  OBVIOUS
<1> HIDE DEF T, n
<1>5. T = 0..n
  BY <1>1, <1>2, <1>3, <1>4, UpTo
<1>6. n \in T
  BY <1>1, <1>5
<1>7. \E u : Prefixes(s, K, u)
  BY <1>6 DEF T, n, Prefixes
<1> DEFINE f == CHOOSE u : Prefixes(s, K, u)
<1>8. Prefixes(s, K, f)
  BY <1>7
<1>9. Among(s, K) = f[Len(s)]
  BY DEF Among, Prefixes
<1> HIDE DEF f
<1>10. f \in [0..Len(s) -> Seq(S)]
  <2> DEFINE V == {m \in 0..n : f[m] \in Seq(S)}
  <2>0. /\ f[0] = <<>>
        /\ \A k \in 1..n : f[k] = IF s[k] \in K THEN Append(f[k - 1], s[k]) ELSE f[k - 1]
    BY <1>8, PrefixSteps DEF n
  <2>1. 0 \in V
    <3>1. f[0] \in Seq(S)
      BY <2>0
    <3> QED
      BY <1>1, <3>1
  <2>2. ASSUME NEW m \in V, m < n PROVE m + 1 \in V
    <3>1. m + 1 \in 1..n /\ m + 1 # 0 /\ (m + 1) - 1 = m /\ f[m] \in Seq(S) /\ s[m + 1] \in S
      BY <1>1, <2>2, ElementOfSeq DEF n
    <3>2. f[m + 1] = IF s[m + 1] \in K THEN Append(f[m], s[m + 1]) ELSE f[m]
      BY <2>0, <3>1
    <3>3. f[m + 1] \in Seq(S)
      <4> HIDE DEF f
      <4>1. CASE s[m + 1] \in K
        BY <3>1, <3>2, <4>1, AppendProperties
      <4>2. CASE s[m + 1] \notin K
        BY <3>1, <3>2, <4>2
      <4> QED
        BY <4>1, <4>2
    <3> QED
      BY <1>1, <3>1, <3>3
  <2>3. V \in SUBSET (0..n)
    OBVIOUS
  <2> HIDE DEF V
  <2>4. V = 0..n
    BY <1>1, <2>1, <2>2, <2>3, UpTo
  <2>5. \A m \in 0..n : f[m] \in Seq(S)
    BY <2>4 DEF V
  <2> QED
    BY <1>8, <2>5, PrefixSteps DEF n, Prefixes
<1> QED
  BY <1>8, <1>9, <1>10

------------------------------------------------------------------------------
(* The semaphore. *)

RunnerInv == RunnerTypeOK /\ TokensAccounted

(* The running calls are finitely many, so they can be counted. *)
LEMMA RunningFinite == IsFiniteSet(Running) /\ Cardinality(Running) \in Nat
<1>1. IsFiniteSet(Callers)  BY RunnerAssumption
<1>2. Running \subseteq Callers  BY DEF Running
<1>3. IsFiniteSet(Running)  BY <1>1, <1>2, FS_Subset
<1> QED BY <1>3, FS_CardinalityType

(* A call that gets a token is one more running call. *)
LEMMA OneMoreRuns ==
  ASSUME RunnerInv, NEW c \in Callers, Acquire(c)
  PROVE  RunnerInv'
<1>1. c \notin Running  BY DEF Acquire, Running
<1>2. Running' = Running \cup {c}  BY DEF Acquire, Running, RunnerInv, RunnerTypeOK
<1>3. Cardinality(Running') = Cardinality(Running) + 1
  BY <1>1, <1>2, RunningFinite, FS_AddElement
<1>4. Cardinality(Running') <= MaxConcurrent
  BY <1>3, RunningFinite, RunnerAssumption DEF RunnerInv, TokensAccounted, Acquire
<1>5. sem' = Cardinality(Running')
  BY <1>3 DEF RunnerInv, TokensAccounted, Acquire
<1>6. RunnerTypeOK'  BY DEF RunnerInv, RunnerTypeOK, Acquire
<1> QED BY <1>4, <1>5, <1>6 DEF RunnerInv, TokensAccounted

(* A call that ends is one less, however it ends. *)
LEMMA OneLessRuns ==
  ASSUME RunnerInv, NEW c \in Callers, Finish(c)
  PROVE  RunnerInv'
<1>1. c \in Running  BY DEF Finish, Running
<1>2. Running' = Running \ {c}  BY DEF Finish, Running, RunnerInv, RunnerTypeOK
<1>3. Cardinality(Running') = Cardinality(Running) - 1
  BY <1>1, <1>2, RunningFinite, FS_RemoveElement
<1>4. Cardinality(Running) # 0  BY <1>1, RunningFinite, FS_EmptySet
<1>5. sem' = Cardinality(Running')
  BY <1>3 DEF RunnerInv, TokensAccounted, Finish
<1>6. sem' \in Nat /\ sem' <= MaxConcurrent
  BY <1>3, <1>4, <1>5, RunningFinite, RunnerAssumption DEF RunnerInv, TokensAccounted
<1>7. RunnerTypeOK'  BY <1>6 DEF RunnerInv, RunnerTypeOK, Finish
<1> QED BY <1>5, <1>6, <1>7 DEF RunnerInv, TokensAccounted

(* A step of a call that holds no token, before and after, leaves the running
   calls alone. *)
LEMMA SameRun ==
  ASSUME RunnerInv, NEW c \in Callers, Begin(c) \/ Cancelled(c) \/ ContextEnds(c)
  PROVE  RunnerInv'
<1>1. Running' = Running
  BY DEF Begin, Cancelled, ContextEnds, Running, RunnerInv, RunnerTypeOK
<1>2. sem' = sem  BY DEF Begin, Cancelled, ContextEnds
<1>3. RunnerTypeOK'  BY DEF Begin, Cancelled, ContextEnds, RunnerInv, RunnerTypeOK
<1> QED BY <1>1, <1>2, <1>3 DEF RunnerInv, TokensAccounted

LEMMA RunnerStarts == InitRunner => RunnerInv
<1> SUFFICES ASSUME InitRunner PROVE RunnerInv
  OBVIOUS
<1>1. Running = {}
  BY DEF InitRunner, Running
<1>2. Cardinality(Running) = 0
  BY <1>1, FS_EmptySet
<1> QED
  BY <1>2, RunnerAssumption DEF InitRunner, RunnerInv, RunnerTypeOK, TokensAccounted

LEMMA RunnerStutters == RunnerInv /\ UNCHANGED runner => RunnerInv'
BY DEF runner, RunnerInv, RunnerTypeOK, TokensAccounted, Running

(* Contexts that end leave the tokens alone. *)
LEMMA ContextsEnd ==
  ASSUME RunnerInv, UNCHANGED <<call, sem>>, NEW S, gone' = [c \in Callers |-> c \in S]
  PROVE  RunnerInv'
<1>1. Running' = Running
  BY DEF Running
<1>2. gone' \in [Callers -> BOOLEAN]
  OBVIOUS
<1>3. RunnerTypeOK'
  BY <1>2 DEF RunnerInv, RunnerTypeOK
<1> QED
  BY <1>1, <1>3 DEF RunnerInv, TokensAccounted

(* runner.go:13-15 for every number of callers and every capacity: tokens and
   running commands are always as many, and never more than the capacity. *)
THEOREM RunnerBounded == SpecRunner => []TokensAccounted
<1>1. RunnerInv /\ [NextRunner]_runner => RunnerInv'
  <2> SUFFICES ASSUME RunnerInv, [NextRunner]_runner PROVE RunnerInv'
    OBVIOUS
  <2>1. CASE NextRunner
    <3>1. PICK c \in Callers : Begin(c) \/ CallStep(c) \/ ContextEnds(c)
      BY <2>1 DEF NextRunner
    <3>2. CASE Acquire(c)
      BY <3>2, OneMoreRuns
    <3>3. CASE Finish(c)
      BY <3>3, OneLessRuns
    <3>4. CASE Begin(c) \/ Cancelled(c) \/ ContextEnds(c)
      BY <3>4, SameRun
    <3> QED
      BY <3>1, <3>2, <3>3, <3>4 DEF CallStep
  <2>2. CASE UNCHANGED runner
    BY <2>2, RunnerStutters
  <2> QED
    BY <2>1, <2>2
<1>2. RunnerInv => TokensAccounted
  BY DEF RunnerInv
<1> QED
  BY <1>1, <1>2, RunnerStarts, PTL DEF SpecRunner

(* Nothing is among nothing. *)
LEMMA AmongEmpty ==
  ASSUME NEW K
  PROVE  Among(<<>>, K) = <<>>
<1> DEFINE s == <<>>
           S == {K}
<1>1. s \in Seq(S) /\ Len(s) = 0
  OBVIOUS
<1> HIDE DEF s, S
<1>2. PICK u : Prefixes(s, K, u) /\ Among(s, K) = u[Len(s)]
  BY <1>1, AmongPrefixes
<1> DEFINE body(k) == IF k = 0 THEN <<>>
                      ELSE IF s[k] \in K THEN Append(u[k - 1], s[k]) ELSE u[k - 1]
<1>3. u[0] = <<>>
  <2>1. u = [k \in 0..0 |-> body(k)]
    BY <1>1, <1>2 DEF Prefixes
  <2>2. body(0) = <<>>
    OBVIOUS
  <2> HIDE DEF body
  <2> QED
    BY <2>1, <2>2
<1>4. Among(s, K) = <<>>
  BY <1>1, <1>2, <1>3
<1> QED
  BY <1>4 DEF s

(* One more entry is kept or not. *)
LEMMA AmongAppend ==
  ASSUME NEW S, NEW s \in Seq(S), NEW e \in S, NEW K
  PROVE  Among(Append(s, e), K) = IF e \in K THEN Append(Among(s, K), e) ELSE Among(s, K)
<1> DEFINE n == Len(s)
           t == Append(s, e)
<1>1. n \in Nat /\ t \in Seq(S) /\ Len(t) = n + 1 /\ t[n + 1] = e /\ \A k \in 1..n : t[k] = s[k]
  BY AppendProperties
<1> HIDE DEF t
<1>2. PICK u : Prefixes(s, K, u) /\ Among(s, K) = u[Len(s)]
  BY AmongPrefixes
<1>3. PICK v : Prefixes(t, K, v) /\ Among(t, K) = v[Len(t)]
  BY <1>1, AmongPrefixes
<1>4. /\ u[0] = <<>>
      /\ \A k \in 1..n : u[k] = IF s[k] \in K THEN Append(u[k - 1], s[k]) ELSE u[k - 1]
  BY <1>2, PrefixSteps
<1>5. /\ v[0] = <<>>
      /\ \A k \in 1..Len(t) : v[k] = IF t[k] \in K THEN Append(v[k - 1], t[k]) ELSE v[k - 1]
  BY <1>1, <1>3, PrefixSteps
<1> DEFINE T == {m \in 0..n : u[m] = v[m]}
<1>6. 0 \in T
  BY <1>1, <1>4, <1>5
<1> HIDE DEF n
<1>7. ASSUME NEW m \in T, m < n PROVE m + 1 \in T
  <2>1. /\ m + 1 \in 1..n /\ m + 1 \in 1..Len(t) /\ (m + 1) - 1 = m /\ u[m] = v[m]
        /\ t[m + 1] = s[m + 1]
    BY <1>1, <1>7
  <2>2. u[m + 1] = v[m + 1]
    BY <1>4, <1>5, <2>1
  <2> QED
    BY <1>1, <2>1, <2>2
<1>8. T \in SUBSET (0..n)
  OBVIOUS
<1> HIDE DEF T
<1>9. T = 0..n
  BY <1>1, <1>6, <1>7, <1>8, UpTo
<1>10. n \in 0..n /\ n + 1 \in 1..Len(t) /\ (n + 1) - 1 = n
  BY <1>1
<1>11. u[n] = v[n]
  BY <1>9, <1>10 DEF T
<1>12. v[n + 1] = IF e \in K THEN Append(v[n], e) ELSE v[n]
  BY <1>1, <1>5, <1>10
<1>13. Among(s, K) = v[n] /\ Among(t, K) = v[n + 1]
  BY <1>1, <1>2, <1>3, <1>11 DEF n
<1> QED
  BY <1>12, <1>13 DEF t

(* Filtering twice is filtering once by both. *)
LEMMA AmongTwice ==
  ASSUME NEW S, NEW s \in Seq(S), NEW K, NEW L
  PROVE  Among(Among(s, K), L) = Among(s, K \cap L)
<1> DEFINE n == Len(s)
           M == K \cap L
<1>1. n \in Nat /\ \A k \in 1..n : s[k] \in S
  BY ElementOfSeq
<1>2. PICK u : Prefixes(s, K, u) /\ Among(s, K) = u[Len(s)] /\ u \in [0..Len(s) -> Seq(S)]
  BY AmongPrefixes
<1>3. PICK w : Prefixes(s, M, w) /\ Among(s, M) = w[Len(s)]
  BY AmongPrefixes
<1>4. /\ u[0] = <<>>
      /\ \A k \in 1..n : u[k] = IF s[k] \in K THEN Append(u[k - 1], s[k]) ELSE u[k - 1]
  BY <1>2, PrefixSteps
<1>5. /\ w[0] = <<>>
      /\ \A k \in 1..n : w[k] = IF s[k] \in M THEN Append(w[k - 1], s[k]) ELSE w[k - 1]
  BY <1>3, PrefixSteps
<1> DEFINE T == {m \in 0..n : Among(u[m], L) = w[m]}
<1>6. 0 \in T
  <2>1. Among(u[0], L) = w[0]
    BY <1>4, <1>5, AmongEmpty
  <2> QED
    BY <1>1, <2>1
<1>7. u \in [0..n -> Seq(S)]
  BY <1>2
<1> HIDE DEF n
<1>8. ASSUME NEW m \in T, m < n PROVE m + 1 \in T
  <2>1. /\ m \in 0..n /\ m + 1 \in 1..n /\ (m + 1) - 1 = m /\ m + 1 \in 0..n
        /\ Among(u[m], L) = w[m] /\ s[m + 1] \in S
    BY <1>1, <1>8
  <2>2. u[m] \in Seq(S)
    BY <1>7, <2>1
  <2>3. /\ u[m + 1] = IF s[m + 1] \in K THEN Append(u[m], s[m + 1]) ELSE u[m]
        /\ w[m + 1] = IF s[m + 1] \in M THEN Append(w[m], s[m + 1]) ELSE w[m]
    BY <1>4, <1>5, <2>1
  <2>4. Among(Append(u[m], s[m + 1]), L) =
          IF s[m + 1] \in L THEN Append(Among(u[m], L), s[m + 1]) ELSE Among(u[m], L)
    <3> DEFINE a == u[m]
               x == s[m + 1]
    <3>1. a \in Seq(S) /\ x \in S
      BY <2>1, <2>2
    <3> HIDE DEF a, x
    <3>2. Among(Append(a, x), L) = IF x \in L THEN Append(Among(a, L), x) ELSE Among(a, L)
      BY <3>1, AmongAppend
    <3> QED
      BY <3>2 DEF a, x
  <2>5. Among(u[m + 1], L) = w[m + 1]
    <3>1. CASE s[m + 1] \in K
      <4>1. s[m + 1] \in M <=> s[m + 1] \in L
        BY <3>1
      <4> QED
        BY <2>1, <2>3, <2>4, <3>1, <4>1
    <3>2. CASE s[m + 1] \notin K
      <4>1. s[m + 1] \notin M
        BY <3>2
      <4> QED
        BY <2>1, <2>3, <3>2, <4>1
    <3> QED
      BY <3>1, <3>2
  <2> QED
    BY <2>1, <2>5
<1>9. T \in SUBSET (0..n)
  OBVIOUS
<1> HIDE DEF T
<1>10. T = 0..n
  BY <1>1, <1>6, <1>8, <1>9, UpTo
<1>11. n \in 0..n
  BY <1>1
<1>12. Among(u[n], L) = w[n]
  BY <1>10, <1>11 DEF T
<1> QED
  BY <1>2, <1>3, <1>12 DEF n

(* Only the entries decide. *)
LEMMA AmongSame ==
  ASSUME NEW S, NEW s \in Seq(S), NEW K, NEW L,
         \A k \in 1..Len(s) : s[k] \in K <=> s[k] \in L
  PROVE  Among(s, K) = Among(s, L)
<1> DEFINE n == Len(s)
<1>1. n \in Nat
  OBVIOUS
<1>2. PICK u : Prefixes(s, K, u) /\ Among(s, K) = u[Len(s)]
  BY AmongPrefixes
<1>3. PICK w : Prefixes(s, L, w) /\ Among(s, L) = w[Len(s)]
  BY AmongPrefixes
<1>4. /\ u[0] = <<>>
      /\ \A k \in 1..n : u[k] = IF s[k] \in K THEN Append(u[k - 1], s[k]) ELSE u[k - 1]
  BY <1>2, PrefixSteps
<1>5. /\ w[0] = <<>>
      /\ \A k \in 1..n : w[k] = IF s[k] \in L THEN Append(w[k - 1], s[k]) ELSE w[k - 1]
  BY <1>3, PrefixSteps
<1> DEFINE T == {m \in 0..n : u[m] = w[m]}
<1>6. 0 \in T
  BY <1>1, <1>4, <1>5
<1>7. \A k \in 1..n : s[k] \in K <=> s[k] \in L
  OBVIOUS
<1> HIDE DEF n
<1>8. ASSUME NEW m \in T, m < n PROVE m + 1 \in T
  <2>1. /\ m + 1 \in 1..n /\ (m + 1) - 1 = m /\ m + 1 \in 0..n /\ u[m] = w[m]
        /\ s[m + 1] \in K <=> s[m + 1] \in L
    BY <1>1, <1>7, <1>8
  <2>2. u[m + 1] = w[m + 1]
    BY <1>4, <1>5, <2>1
  <2> QED
    BY <2>1, <2>2
<1>9. T \in SUBSET (0..n)
  OBVIOUS
<1> HIDE DEF T
<1>10. T = 0..n
  BY <1>1, <1>6, <1>8, <1>9, UpTo
<1>11. u[n] = w[n]
  BY <1>1, <1>10 DEF T
<1> QED
  BY <1>2, <1>3, <1>11 DEF n

(* a keeps those of the first m entries of s that are in K: each entry of a comes
   from one position, and each position whose entry is in K is kept. *)
Keeps(s, m, K, a, e) ==
  /\ e \in [1..Len(a) -> 1..m]
  /\ \A j \in 1..Len(a) : a[j] = s[e[j]] /\ s[e[j]] \in K
  /\ \A i, j \in 1..Len(a) : e[i] = e[j] => i = j
  /\ \A k \in 1..m : s[k] \in K => \E j \in 1..Len(a) : e[j] = k

(* Among keeps every entry of K, in positions of its own. *)
LEMMA AmongEnumerates ==
  ASSUME NEW S, NEW s \in Seq(S), NEW K
  PROVE  /\ Among(s, K) \in Seq(S)
         /\ \E e : Keeps(s, Len(s), K, Among(s, K), e)
<1> DEFINE n == Len(s)
           good(a, e, m) == Keeps(s, m, K, a, e)
<1>1. n \in Nat /\ \A k \in 1..n : s[k] \in S
  BY ElementOfSeq
<1>2. PICK u : Prefixes(s, K, u) /\ Among(s, K) = u[Len(s)] /\ u \in [0..Len(s) -> Seq(S)]
  BY AmongPrefixes
<1>3. /\ u[0] = <<>>
      /\ \A k \in 1..n : u[k] = IF s[k] \in K THEN Append(u[k - 1], s[k]) ELSE u[k - 1]
  BY <1>2, PrefixSteps
<1>4. u \in [0..n -> Seq(S)] /\ Among(s, K) = u[n]
  BY <1>2
<1> DEFINE T == {m \in 0..n : \E e : good(u[m], e, m)}
<1> HIDE DEF n
<1>5. 0 \in T
  <2> DEFINE e == [j \in 1..0 |-> 0]
  <2>1. Len(u[0]) = 0
    BY <1>3
  <2>2. good(u[0], e, 0)
    BY <2>1 DEF Keeps
  <2> HIDE DEF e, good
  <2> QED
    BY <1>1, <2>2
<1>6. ASSUME NEW m \in T, m < n PROVE m + 1 \in T
  <2>1. /\ m \in Nat /\ m + 1 \in 1..n /\ (m + 1) - 1 = m /\ m + 1 \in 0..n /\ s[m + 1] \in S
        /\ \E e : good(u[m], e, m)
    BY <1>1, <1>6
  <2>2. PICK e : good(u[m], e, m)
    BY <2>1
  <2> DEFINE a == u[m]
             x == s[m + 1]
  <2>3. a \in Seq(S) /\ Len(a) \in Nat
    <3>1. m \in 0..n
      BY <1>1, <1>6
    <3> QED
      BY <1>4, <3>1
  <2>4. u[m + 1] = IF x \in K THEN Append(a, x) ELSE a
    BY <1>3, <2>1
  <2>5. good(a, e, m)
    BY <2>2
  <2>6. CASE x \notin K
    <3> HIDE DEF a
    <3>1. good(a, e, m + 1)
      <4>1. e \in [1..Len(a) -> 1..(m + 1)]
        <5>1. e \in [1..Len(a) -> 1..m]
          BY <2>5 DEF Keeps
        <5>2. 1..m \subseteq 1..(m + 1)
          BY <2>1
        <5> QED
          BY <5>1, <5>2
      <4>2. ASSUME NEW k \in 1..(m + 1), s[k] \in K PROVE \E j \in 1..Len(a) : e[j] = k
        <5>1. k \in 1..m
          BY <2>1, <2>6, <4>2
        <5> QED
          BY <2>5, <4>2, <5>1 DEF Keeps
      <4> QED
        BY <2>5, <4>1, <4>2 DEF Keeps
    <3>2. u[m + 1] = a
      BY <2>4, <2>6
    <3> HIDE DEF good
    <3> QED
      BY <2>1, <3>1, <3>2
  <2>7. CASE x \in K
    <3> DEFINE b == Append(a, x)
               l == Len(a)
               f == [j \in 1..(l + 1) |-> IF j <= l THEN e[j] ELSE m + 1]
    <3>1. Len(b) = l + 1 /\ b[l + 1] = x /\ \A j \in 1..l : b[j] = a[j]
      BY <2>1, <2>3, AppendProperties
    <3> HIDE DEF b, a, x
    <3>2. /\ e \in [1..l -> 1..m]
          /\ \A j \in 1..l : a[j] = s[e[j]] /\ s[e[j]] \in K
          /\ \A i, j \in 1..l : e[i] = e[j] => i = j
          /\ \A k \in 1..m : s[k] \in K => \E j \in 1..l : e[j] = k
      BY <2>5 DEF Keeps
    <3>3. l \in Nat /\ m \in Nat
      BY <2>1, <2>3
    <3> HIDE DEF l
    <3>4. /\ f \in [1..(l + 1) -> 1..(m + 1)]
          /\ f[l + 1] = m + 1
          /\ \A j \in 1..l : f[j] = e[j] /\ f[j] \in 1..m
      BY <3>2, <3>3
    <3> HIDE DEF f
    <3>5. \A j \in 1..(l + 1) : j = l + 1 \/ j \in 1..l
      BY <3>3
    <3>6. ASSUME NEW j \in 1..(l + 1) PROVE b[j] = s[f[j]] /\ s[f[j]] \in K
      BY <2>7, <3>1, <3>2, <3>4, <3>5 DEF x
    <3>7. ASSUME NEW i \in 1..(l + 1), NEW j \in 1..(l + 1), f[i] = f[j] PROVE i = j
      <4>1. m + 1 \notin 1..m
        BY <3>3
      <4>2. CASE i \in 1..l /\ j \in 1..l
        BY <3>2, <3>4, <3>7, <4>2
      <4>3. CASE i \in 1..l /\ j = l + 1
        BY <3>4, <3>7, <4>1, <4>3
      <4>4. CASE i = l + 1 /\ j \in 1..l
        BY <3>4, <3>7, <4>1, <4>4
      <4> QED
        BY <3>5, <3>7, <4>2, <4>3, <4>4
    <3>8. ASSUME NEW k \in 1..(m + 1), s[k] \in K PROVE \E j \in 1..(l + 1) : f[j] = k
      <4>1. CASE k = m + 1
        <5>1. l + 1 \in 1..(l + 1)
          BY <3>3
        <5> QED
          BY <3>4, <4>1, <5>1
      <4>2. CASE k # m + 1
        <5>1. k \in 1..m
          BY <3>3, <4>2
        <5>2. PICK j \in 1..l : e[j] = k
          BY <3>2, <3>8, <5>1
        <5>3. j \in 1..(l + 1)
          BY <3>3
        <5> QED
          BY <3>4, <5>2, <5>3
      <4> QED
        BY <4>1, <4>2
    <3>9. good(b, f, m + 1)
      BY <3>1, <3>4, <3>6, <3>7, <3>8 DEF Keeps
    <3>10. u[m + 1] = b
      BY <2>4, <2>7 DEF b
    <3> HIDE DEF good
    <3> QED
      BY <2>1, <3>9, <3>10
  <2> QED
    BY <2>6, <2>7
<1>7. T \in SUBSET (0..n)
  OBVIOUS
<1> HIDE DEF T
<1>8. T = 0..n
  BY <1>1, <1>5, <1>6, <1>7, UpTo
<1>9. n \in 0..n /\ u[n] \in Seq(S)
  BY <1>1, <1>4
<1>10. n \in T
  BY <1>8, <1>9
<1>11. \E e : good(Among(s, K), e, n)
  BY <1>4, <1>10 DEF T
<1> QED
  BY <1>4, <1>9, <1>11 DEF n
(* If every entry is kept, all are; if none is, nothing. *)
LEMMA AmongAll ==
  ASSUME NEW S, NEW s \in Seq(S), NEW K, \A k \in 1..Len(s) : s[k] \in K
  PROVE  Among(s, K) = s
<1> DEFINE n == Len(s)
           a == Among(s, K)
<1>1. n \in Nat /\ DOMAIN s = 1..n
  BY LenProperties
<1>2. PICK u : Prefixes(s, K, u) /\ Among(s, K) = u[Len(s)] /\ u \in [0..Len(s) -> Seq(S)]
  BY AmongPrefixes
<1>3. /\ u[0] = <<>>
      /\ \A k \in 1..n : u[k] = IF s[k] \in K THEN Append(u[k - 1], s[k]) ELSE u[k - 1]
  BY <1>2, PrefixSteps
<1>4. u \in [0..n -> Seq(S)]
  BY <1>2
<1>5. \A k \in 1..n : s[k] \in K /\ s[k] \in S
  BY ElementOfSeq
<1> DEFINE T == {m \in 0..n : Len(u[m]) = m /\ \A k \in 1..m : u[m][k] = s[k]}
<1> HIDE DEF n
<1>6. 0 \in T
  BY <1>1, <1>3
<1>7. ASSUME NEW m \in T, m < n PROVE m + 1 \in T
  <2>1. /\ m \in 0..n /\ m + 1 \in 1..n /\ (m + 1) - 1 = m /\ m + 1 \in 0..n
        /\ Len(u[m]) = m /\ \A k \in 1..m : u[m][k] = s[k]
    BY <1>1, <1>7
  <2>2. u[m + 1] = Append(u[m], s[m + 1]) /\ u[m] \in Seq(S) /\ s[m + 1] \in S
    BY <1>3, <1>4, <1>5, <2>1
  <2> DEFINE v == u[m]
             w == u[m + 1]
             x == s[m + 1]
  <2>3. w = Append(v, x) /\ v \in Seq(S) /\ x \in S /\ Len(v) = m
    BY <2>1, <2>2
  <2>4. \A k \in 1..m : v[k] = s[k]
    BY <2>1
  <2> HIDE DEF v, w, x
  <2>5. Len(w) = m + 1 /\ w[m + 1] = x /\ \A k \in 1..m : w[k] = v[k]
    BY <2>3, AppendProperties
  <2>6. \A k \in 1..(m + 1) : w[k] = s[k]
    BY <2>1, <2>4, <2>5 DEF x
  <2> QED
    BY <2>1, <2>5, <2>6 DEF w
<1>8. T \in SUBSET (0..n)
  OBVIOUS
<1> HIDE DEF T
<1>9. T = 0..n
  BY <1>1, <1>6, <1>7, <1>8, UpTo
<1>10. n \in T
  BY <1>1, <1>9
<1>11. a \in Seq(S) /\ Len(a) = n /\ \A k \in 1..n : a[k] = s[k]
  BY <1>1, <1>2, <1>4, <1>10 DEF T, n
<1> HIDE DEF a
<1>12. DOMAIN a = 1..n
  BY <1>11, LenProperties
<1>13. a = s
  BY <1>1, <1>11, <1>12, SeqEqual DEF n
<1> QED
  BY <1>13 DEF a

LEMMA AmongNone ==
  ASSUME NEW S, NEW s \in Seq(S), NEW K, \A k \in 1..Len(s) : s[k] \notin K
  PROVE  Among(s, K) = <<>>
<1>1. PICK e : Keeps(s, Len(s), K, Among(s, K), e)
  BY AmongEnumerates
<1> DEFINE a == Among(s, K)
<1>2. a \in Seq(S) /\ Len(a) \in Nat
  <2>1. a \in Seq(S)
    BY AmongEnumerates
  <2> HIDE DEF a
  <2> QED
    BY <2>1, LenProperties
<1> HIDE DEF a
<1>3. \A j \in 1..Len(a) : e[j] \in 1..Len(s) /\ s[e[j]] \in K
  BY <1>1 DEF Keeps, a
<1>4. Len(a) = 0
  <2> SUFFICES ASSUME Len(a) # 0 PROVE FALSE
    OBVIOUS
  <2>1. 1 \in 1..Len(a)
    BY <1>2
  <2> QED
    BY <1>3, <2>1
<1>5. a = <<>>
  BY <1>2, <1>4, EmptySeq
<1> QED
  BY <1>5 DEF a

(* Part by part. *)
LEMMA AmongConcat ==
  \A S, K : \A s, t \in Seq(S) : Among(s \o t, K) = Among(s, K) \o Among(t, K)
<1> SUFFICES ASSUME NEW S, NEW K, NEW s \in Seq(S), NEW t \in Seq(S)
             PROVE  Among(s \o t, K) = Among(s, K) \o Among(t, K)
  OBVIOUS
<1> DEFINE n == Len(t)
           part(m) == SubSeq(t, 1, m)
           T == {m \in 0..n : Among(s \o part(m), K) = Among(s, K) \o Among(part(m), K)}
<1>1. n \in Nat
  OBVIOUS
<1>2. Among(s, K) \in Seq(S)
  BY AmongEnumerates
<1> DEFINE a == Among(s, K)
<1>3. a \in Seq(S)
  BY <1>2
<1> HIDE DEF a
<1>4. 0 \in T
  <2>1. part(0) = <<>>
    BY SubSeqEmpty
  <2>2. s \o <<>> = s /\ a \o <<>> = a
    BY <1>3
  <2>3. Among(s \o part(0), K) = a \o Among(part(0), K)
    BY <2>1, <2>2, AmongEmpty DEF a
  <2> QED
    BY <1>1, <2>3 DEF a
<1>5. ASSUME NEW m \in T, m < n PROVE m + 1 \in T
  <2> DEFINE p == part(m)
             e == t[m + 1]
             b == Among(p, K)
             sp == s \o p
  <2>1. m \in 0..n /\ m + 1 \in 1..n /\ m + 1 \in 0..n /\ e \in S
    BY <1>1, <1>5, ElementOfSeq
  <2>2. part(m + 1) = Append(p, e)
    BY <2>1, <1>1, SMT
  <2>3. p \in Seq(S)
    BY <2>1, <1>1
  <2>4. b \in Seq(S)
    BY <2>3, AmongEnumerates
  <2>5. Among(sp, K) = a \o b
    BY <1>5 DEF a
  <2> HIDE DEF e, T, n
  <2>6. s \o Append(p, e) = Append(sp, e) /\ sp \in Seq(S)
    BY <2>1, <2>3 
  <2> HIDE DEF sp
  <2>7. Among(Append(sp, e), K) = IF e \in K THEN Append(a \o b, e) ELSE a \o b
    BY <2>1, <2>5, <2>6, AmongAppend
  <2> HIDE DEF p
  <2>8. Among(Append(p, e), K) = IF e \in K THEN Append(b, e) ELSE b
    BY <2>1, <2>3, AmongAppend
  <2> HIDE DEF b
  <2>9. a \o Append(b, e) = Append(a \o b, e)
    BY <1>3, <2>1, <2>4
  <2>10. Among(s \o part(m + 1), K) = a \o Among(part(m + 1), K)
    BY <2>2, <2>6, <2>7, <2>8, <2>9, Zenon
  <2> QED
    BY <2>1, <2>10 DEF T, a
<1>6. T \in SUBSET (0..n)
  OBVIOUS
<1> HIDE DEF T
<1>7. T = 0..n
  BY <1>1, <1>4, <1>5, <1>6, UpTo
<1>8. n \in T
  BY <1>1, <1>7
<1>9. part(n) = t
  BY SubSeqFull
<1> QED
  BY <1>8, <1>9 DEF T

------------------------------------------------------------------------------
(* The invariant. What a file and its diff are made of; A is the set of lines. *)
Lines == DOMAIN Norm
FileOf(A) == [is : {"text", "binary", "absent"}, top : Seq(A), end : Seq(A)]
LineOf(A) == [mark : {"", " ", "-", "+"}, text : A]
HunkOf(A) == [oldStart : Nat, newStart : Nat, raw : Seq(LineOf(A))]

Diffs == [oldPath : Files, newPath : Files \cup {DevNull}, isDeleted : BOOLEAN,
          isBinary : BOOLEAN, hunks : Seq(HunkOf(Lines)), content : Seq(Lines),
          old : FileOf(Lines), new : FileOf(Lines)]

DiffList(ds) == ds \in Seq(Diffs) /\ \A i \in 1..Len(ds) : ds[i].isDeleted <=> ds[i].newPath = DevNull

Typing ==
  /\ TypeOK
  /\ DiffList(diffs) /\ DiffList(queue) /\ DiffList(announced)
  /\ comment = [at |-> comment.at, path |-> comment.path, code |-> comment.code,
                asked |-> comment.asked, place |-> comment.place]

(* Which stages a mode passes, and what is still empty in them. *)
Stages ==
  /\ mode = "range" => hasHead /\ at \notin {"staged", "list", "read"} /\ listed = {}
  /\ mode = "workspace" => at # "base"
  /\ at \in {"start", "base", "diff", "staged"} => diffs = <<>>
  /\ at \in {"start", "base", "diff", "staged", "list", "parse"} => listed = {}

(* What the load knows of a file that nobody touched. *)
Shows(f)  == \E i \in 1..Len(diffs) : diffs[i].newPath = f
ToList(f) == at = "list" /\ worktree[f] # Absent /\ index[f] = Absent

Followed(f) ==
  /\ \A i, j \in 1..Len(diffs) : diffs[i].newPath = f /\ diffs[j].newPath = f => i = j
  /\ \A i \in 1..Len(diffs) : diffs[i].newPath = f => ~diffs[i].isBinary
  /\ Shows(f) => worktree[f] # Committed[f] \/ index[f] # Committed[f] \/ ~hasHead
  /\ Changed(f) => Shows(f) \/ ToList(f) \/ f \in listed
  /\ f \in listed => worktree[f] # Absent /\ index[f] = Absent
  /\ Shows(f) => ~ToList(f) /\ f \notin listed

(* The tracked diff was empty: no file under review differs from the commit. *)
NoneTracked ==
  hasHead => \A f \in Files \ touched :
               index[f] # Absent /\ worktree[f] # Absent => worktree[f] = Committed[f]

Following ==
  swallowed = {} =>
    /\ at = "staged" => NoneTracked
    /\ at \in {"list", "read", "parse"} => \A f \in Files : Reviewable(f) => Followed(f)

LoadInv == RunnerInv /\ Typing /\ Stages /\ Following /\ ChangesReviewedOnce

------------------------------------------------------------------------------
(* What git prints. *)

(* Marked lines are lines of a hunk. *)
LEMMA MarkedLines ==
  ASSUME NEW A, NEW mark \in {"", " ", "-", "+"}, NEW s \in Seq(A)
  PROVE  Marked(mark, s) \in Seq(LineOf(A))
<1> DEFINE n == Len(s)
           L == LineOf(A)
           line(i) == [mark |-> mark, text |-> s[i]]
<1>1. n \in Nat /\ DOMAIN s = 1..n
  BY LenProperties
<1>2. \A i \in 1..n : s[i] \in A
  BY ElementOfSeq
<1>3. \A i \in 1..n : line(i) \in L
  BY <1>2 DEF LineOf
<1> HIDE DEF line, n, L
<1>4. [i \in 1..n |-> line(i)] \in Seq(L)
  <2>1. [i \in 1..n |-> line(i)] \in [1..n -> L]
    BY <1>3
  <2> QED
    BY <1>1, <2>1, SeqDef
<1> QED
  BY <1>1, <1>4 DEF Marked, line, L

(* Max, of numbers with a bound, is one of them. *)
LEMMA MaxIsIn ==
  ASSUME NEW b \in Nat, NEW T \in SUBSET (0..b), T # {}
  PROVE  Max(T) \in T
<1> DEFINE U == {k \in 0..b : b - k \in T}
<1>1. U \in SUBSET Nat /\ U # {}
  <2>1. PICK x \in T : TRUE
    OBVIOUS
  <2>2. b - x \in 0..b /\ b - (b - x) = x
    BY <2>1
  <2>3. b - x \in U
    BY <2>1, <2>2
  <2>4. U \in SUBSET Nat
    OBVIOUS
  <2> HIDE DEF U
  <2> QED
    BY <2>3, <2>4
<1>2. PICK m \in U : \A k \in U : m <= k
  BY <1>1, MinimalNat
<1>3. m \in Nat /\ b - m \in T
  BY <1>2
<1>4. ASSUME NEW x \in T PROVE x <= b - m
  <2>1. x \in 0..b /\ b - x \in 0..b /\ b - (b - x) = x
    OBVIOUS
  <2>2. b - x \in U
    BY <2>1
  <2>3. m <= b - x
    BY <1>2, <2>2
  <2> QED
    BY <1>3, <2>1, <2>3
<1>5. \E x \in T : \A y \in T : x >= y
  <2>1. \A y \in T : y \in Nat
    OBVIOUS
  <2>2. b - m \in Nat
    BY <1>3, <2>1
  <2>3. \A y \in T : b - m >= y
    BY <1>4, <2>1, <2>2
  <2> QED
    BY <1>3, <2>3
<1> QED
  BY <1>5 DEF Max

(* A part of a sequence has its entries. *)
LEMMA PartOf ==
  ASSUME NEW A, NEW s \in Seq(A), NEW m \in Nat, NEW n \in Int, 1 <= m, n <= Len(s)
  PROVE  SubSeq(s, m, n) \in Seq(A)
<1>1. \A i \in m..n : s[i] \in A
  <2>1. Len(s) \in Nat
    OBVIOUS
  <2> QED
    BY <2>1, ElementOfSeq
<1> QED
  BY <1>1, SubSeqProperties

(* Where the files of a hunk part, where they meet again, and the lines it has. *)
Parts(old, new, raw) ==
  \E p, s \in Nat :
    /\ p + s <= Len(old) /\ p + s <= Len(new)
    /\ SubSeq(old, 1, p) = SubSeq(new, 1, p)
    /\ SubSeq(old, Len(old) - s + 1, Len(old)) = SubSeq(new, Len(new) - s + 1, Len(new))
    /\ raw = Marked(" ", SubSeq(old, 1, p))
               \o Marked("-", SubSeq(old, p + 1, Len(old) - s))
               \o Marked("+", SubSeq(new, p + 1, Len(new) - s))
               \o Marked(" ", SubSeq(old, Len(old) - s + 1, Len(old)))

(* A hunk has the two starts and its four parts. *)
LEMMA HunkIs ==
  ASSUME NEW A, NEW old \in Seq(A), NEW new \in Seq(A), NEW oldFirst, NEW newFirst
  PROVE  LET h == Hunk(old, new, oldFirst, newFirst)
         IN  /\ h = [oldStart |-> Start(old, oldFirst), newStart |-> Start(new, newFirst), raw |-> h.raw]
             /\ Parts(old, new, h.raw)
<1> DEFINE lo == Len(old)
           ln == Len(new)
           shorter == IF lo < ln THEN lo ELSE ln
           P == {k \in 0..shorter : SubSeq(old, 1, k) = SubSeq(new, 1, k)}
           p == Max(P)
           S == {k \in 0..(shorter - p) : SubSeq(old, lo - k + 1, lo) = SubSeq(new, ln - k + 1, ln)}
           s == Max(S)
<1>1. lo \in Nat /\ ln \in Nat /\ shorter \in Nat /\ shorter <= lo /\ shorter <= ln
  OBVIOUS
<1>2. p \in 0..shorter /\ SubSeq(old, 1, p) = SubSeq(new, 1, p)
  <2>1. SubSeq(old, 1, 0) = <<>> /\ SubSeq(new, 1, 0) = <<>>
    BY SubSeqEmpty
  <2>2. 0 \in P /\ P \in SUBSET (0..shorter)
    BY <1>1, <2>1
  <2> HIDE DEF P, shorter
  <2>3. p \in P
    BY <1>1, <2>2, MaxIsIn
  <2> QED
    BY <2>2, <2>3 DEF P
<1> HIDE DEF P, p, shorter
<1>3. s \in 0..(shorter - p) /\ SubSeq(old, lo - s + 1, lo) = SubSeq(new, ln - s + 1, ln)
  <2>1. shorter - p \in Nat
    BY <1>1, <1>2
  <2>2. SubSeq(old, lo - 0 + 1, lo) = <<>> /\ SubSeq(new, ln - 0 + 1, ln) = <<>>
    BY <1>1, SubSeqEmpty
  <2>3. 0 \in S /\ S \in SUBSET (0..(shorter - p))
    BY <2>1, <2>2
  <2> HIDE DEF S
  <2>4. s \in S
    BY <2>1, <2>3, MaxIsIn
  <2> QED
    BY <2>3, <2>4 DEF S
<1> HIDE DEF S, s, lo, ln
<1>4. p \in Nat /\ s \in Nat /\ p + s <= lo /\ p + s <= ln
  BY <1>1, <1>2, <1>3
<1> DEFINE raw == Marked(" ", SubSeq(old, 1, p))
                    \o Marked("-", SubSeq(old, p + 1, Len(old) - s))
                    \o Marked("+", SubSeq(new, p + 1, Len(new) - s))
                    \o Marked(" ", SubSeq(old, Len(old) - s + 1, Len(old)))
<1>5. Hunk(old, new, oldFirst, newFirst) =
        [oldStart |-> Start(old, oldFirst), newStart |-> Start(new, newFirst), raw |-> raw]
  BY DEF Hunk, s, S, p, P, shorter, lo, ln
<1>6. Parts(old, new, raw)
  BY <1>2, <1>3, <1>4 DEF Parts, lo, ln
<1> HIDE DEF raw
<1> QED
  BY <1>5, <1>6

(* An interval from 1 has one end. *)
LEMMA SameInterval ==
  ASSUME NEW m \in Nat, NEW n \in Nat, 1..m = 1..n
  PROVE  m = n
<1>1. ~(m < n)
  <2> SUFFICES ASSUME m < n PROVE FALSE
    OBVIOUS
  <2>1. n \in 1..n /\ n \notin 1..m
    OBVIOUS
  <2> QED
    BY <2>1
<1>2. ~(n < m)
  <2> SUFFICES ASSUME n < m PROVE FALSE
    OBVIOUS
  <2>1. m \in 1..m /\ m \notin 1..n
    OBVIOUS
  <2> QED
    BY <2>1
<1> QED
  BY <1>1, <1>2

(* The lines of s have the texts t. *)
Showing(s, t) == Len(s) = Len(t) /\ \A k \in 1..Len(t) : s[k].text = t[k]

AllMarked(s, sign) == \A k \in 1..Len(s) : s[k].mark = sign

(* Marked lines have the texts and the mark they were made of. *)
LEMMA MarkedShows ==
  ASSUME NEW A, NEW sign \in {"", " ", "-", "+"}, NEW s \in Seq(A)
  PROVE  /\ Marked(sign, s) \in Seq(LineOf(A))
         /\ Showing(Marked(sign, s), s)
         /\ AllMarked(Marked(sign, s), sign)
<1> DEFINE n == Len(s)
           m == Marked(sign, s)
<1>1. n \in Nat /\ DOMAIN s = 1..n
  BY LenProperties
<1>2. m \in Seq(LineOf(A))
  BY MarkedLines
<1>3. m = [i \in 1..n |-> [mark |-> sign, text |-> s[i]]]
  BY <1>1 DEF Marked
<1> HIDE DEF m
<1>4. DOMAIN m = 1..n /\ \A k \in 1..n : m[k].mark = sign /\ m[k].text = s[k]
  BY <1>3
<1> HIDE DEF n
<1>5. Len(m) = n
  <2>1. Len(m) \in Nat /\ 1..Len(m) = 1..n
    BY <1>2, <1>4, LenProperties
  <2> QED
    BY <1>1, <2>1, SameInterval
<1>6. Showing(m, s)
  BY <1>4, <1>5 DEF Showing, n
<1>7. AllMarked(m, sign)
  BY <1>4, <1>5 DEF AllMarked
<1> QED
  BY <1>2, <1>6, <1>7 DEF m

(* Texts put together. *)
LEMMA ShowingConcat ==
  ASSUME NEW L, NEW A, NEW s \in Seq(L), NEW t \in Seq(L), NEW a \in Seq(A), NEW b \in Seq(A),
         Showing(s, a), Showing(t, b)
  PROVE  Showing(s \o t, a \o b) /\ s \o t \in Seq(L) /\ a \o b \in Seq(A)
<1> DEFINE st == s \o t
           ab == a \o b
<1>1. /\ st \in Seq(L) /\ Len(st) = Len(s) + Len(t)
      /\ \A i \in 1..(Len(s) + Len(t)) : st[i] = IF i <= Len(s) THEN s[i] ELSE t[i - Len(s)]
  BY ConcatProperties
<1>2. /\ ab \in Seq(A) /\ Len(ab) = Len(a) + Len(b)
      /\ \A i \in 1..(Len(a) + Len(b)) : ab[i] = IF i <= Len(a) THEN a[i] ELSE b[i - Len(a)]
  BY ConcatProperties
<1>3. Len(a) \in Nat /\ Len(b) \in Nat
  BY LenProperties
<1> HIDE DEF st, ab
<1>4. Len(s) = Len(a) /\ Len(t) = Len(b)
  BY DEF Showing
<1>5. ASSUME NEW k \in 1..Len(ab) PROVE st[k].text = ab[k]
  <2>1. CASE k <= Len(a)
    <3>1. st[k] = s[k] /\ ab[k] = a[k] /\ k \in 1..Len(a)
      BY <1>1, <1>2, <1>3, <1>4, <2>1
    <3> QED
      BY <3>1 DEF Showing
  <2>2. CASE ~(k <= Len(a))
    <3>1. st[k] = t[k - Len(a)] /\ ab[k] = b[k - Len(a)] /\ k - Len(a) \in 1..Len(b)
      BY <1>1, <1>2, <1>3, <1>4, <2>2
    <3> QED
      BY <3>1 DEF Showing
  <2> QED
    BY <2>1, <2>2
<1>6. Showing(st, ab)
  BY <1>1, <1>2, <1>4, <1>5 DEF Showing
<1> QED
  BY <1>1, <1>2, <1>6 DEF st, ab

(* Four parts put together. *)
Joined(a, b, c, d) == a \o b \o c \o d

(* Four sequences put together are one. *)
LEMMA JoinedIn ==
  ASSUME NEW L, NEW a \in Seq(L), NEW b \in Seq(L), NEW c \in Seq(L), NEW d \in Seq(L)
  PROVE  Joined(a, b, c, d) \in Seq(L)
BY DEF Joined

AllIn(L, a, b, c, d) == a \in Seq(L) /\ b \in Seq(L) /\ c \in Seq(L) /\ d \in Seq(L)

(* What is kept of four parts put together is what is kept of each. *)
LEMMA JoinedAmong ==
  ASSUME NEW L, NEW K, NEW a, NEW b, NEW c, NEW d, AllIn(L, a, b, c, d)
  PROVE  Among(Joined(a, b, c, d), K) =
           Joined(Among(a, K), Among(b, K), Among(c, K), Among(d, K))
<1>0. a \in Seq(L) /\ b \in Seq(L) /\ c \in Seq(L) /\ d \in Seq(L)
  BY DEF AllIn
<1> DEFINE ab == a \o b
           abc == a \o b \o c
<1>1. Among(ab, K) = Among(a, K) \o Among(b, K)
  BY <1>0, AmongConcat, Zenon
<1>2. ab \in Seq(L)
  BY <1>0, ConcatProperties
<1>3. abc \in Seq(L)
  BY <1>0, ConcatProperties
<1>4. abc = ab \o c
  OBVIOUS
<1>5. a \o b \o c \o d = abc \o d
  OBVIOUS
<1> HIDE DEF ab, abc
<1>6. Among(ab \o c, K) = Among(ab, K) \o Among(c, K)
  BY <1>0, <1>2, AmongConcat, Zenon
<1>7. Among(abc \o d, K) = Among(abc, K) \o Among(d, K)
  BY <1>0, <1>3, AmongConcat, Zenon
<1> QED
  BY <1>1, <1>4, <1>5, <1>6, <1>7, Zenon DEF Joined

(* Four parts that show four texts show them put together. *)
LEMMA JoinedShows ==
  ASSUME NEW L, NEW A,
         NEW s \in Seq(L), NEW t \in Seq(L), NEW u \in Seq(L), NEW v \in Seq(L),
         NEW a \in Seq(A), NEW b \in Seq(A), NEW c \in Seq(A), NEW d \in Seq(A),
         Showing(s, a), Showing(t, b), Showing(u, c), Showing(v, d)
  PROVE  Showing(Joined(s, t, u, v), Joined(a, b, c, d))
<1> DEFINE m == s \o t
           x == a \o b
<1>1. m \in Seq(L) /\ x \in Seq(A) /\ Showing(m, x)
  BY ShowingConcat
<1> HIDE DEF m, x
<1> DEFINE n == m \o u
           y == x \o c
<1>2. n \in Seq(L) /\ y \in Seq(A) /\ Showing(n, y)
  BY <1>1, ShowingConcat
<1> HIDE DEF n, y
<1>3. Showing(n \o v, y \o d)
  BY <1>2, ShowingConcat
<1> QED
  BY <1>3 DEF n, y, m, x, Joined

(* The three parts of a file that two cuts make. *)
LEMMA ThreeParts ==
  ASSUME NEW A, NEW s \in Seq(A), NEW p \in Nat, NEW q \in Nat, p + q <= Len(s)
  PROVE  LET a == SubSeq(s, 1, p)
             b == SubSeq(s, p + 1, Len(s) - q)
             c == SubSeq(s, Len(s) - q + 1, Len(s))
         IN  /\ a \in Seq(A) /\ b \in Seq(A) /\ c \in Seq(A)
             /\ Joined(a, b, <<>>, c) = s /\ Joined(a, <<>>, b, c) = s
<1> DEFINE n == Len(s)
           m == n - q
<1>1. n \in Nat /\ m \in Nat /\ p <= m /\ m <= n
  OBVIOUS
<1>2. SubSeq(s, 1, p) \in Seq(A) /\ SubSeq(s, p + 1, m) \in Seq(A) /\ SubSeq(s, m + 1, n) \in Seq(A)
  <2>1. /\ 1 \in Nat /\ p \in Int /\ 1 <= 1 /\ p <= n
        /\ p + 1 \in Nat /\ m \in Int /\ 1 <= p + 1 /\ m <= n
        /\ m + 1 \in Nat /\ n \in Int /\ 1 <= m + 1 /\ n <= n
    BY <1>1
  <2> HIDE DEF m
  <2>2. SubSeq(s, 1, p) \in Seq(A)
    BY <2>1, PartOf
  <2>3. SubSeq(s, p + 1, m) \in Seq(A)
    BY <2>1, PartOf
  <2>4. SubSeq(s, m + 1, n) \in Seq(A)
    BY <2>1, PartOf
  <2> QED
    BY <2>2, <2>3, <2>4
<1>3. SubSeq(s, 1, p) \o SubSeq(s, p + 1, m) = SubSeq(s, 1, m)
  <2>1. 1 \in 1..(n + 1) /\ p \in (1 - 1)..n /\ m \in p..n
    BY <1>1
  <2> HIDE DEF m
  <2> QED
    BY <2>1, ConcatAdjacentSubSeq
<1>4. SubSeq(s, 1, m) \o SubSeq(s, m + 1, n) = SubSeq(s, 1, n)
  <2>1. 1 \in 1..(n + 1) /\ m \in (1 - 1)..n /\ n \in m..n
    BY <1>1
  <2> HIDE DEF m
  <2> QED
    BY <2>1, ConcatAdjacentSubSeq
<1>5. SubSeq(s, 1, n) = s
  BY SubSeqFull
<1> DEFINE a == SubSeq(s, 1, p)
           b == SubSeq(s, p + 1, m)
           c == SubSeq(s, m + 1, n)
<1>6. a \o b \o c = s
  BY <1>3, <1>4, <1>5
<1>7. a \in Seq(A) /\ b \in Seq(A) /\ c \in Seq(A)
  BY <1>2
<1> HIDE DEF a, b, c
<1>8. (a \o b) \o <<>> = a \o b /\ a \o <<>> = a
  BY <1>7
<1>9. Joined(a, b, <<>>, c) = s /\ Joined(a, <<>>, b, c) = s
  BY <1>6, <1>8, Zenon DEF Joined
<1> QED
  BY <1>7, <1>9 DEF a, b, c

(* No lines show no text. *)
LEMMA ShowingNothing == Showing(<<>>, <<>>)
<1> DEFINE none == <<>>
<1>1. Len(none) = 0 /\ \A k \in 1..0 : FALSE
  OBVIOUS
<1> HIDE DEF none
<1>2. Len(none) = Len(none) /\ \A k \in 1..Len(none) : FALSE
  BY <1>1
<1>3. Showing(none, none)
  BY <1>2, Zenon DEF Showing
<1> QED
  BY <1>3 DEF none

(* A side of a hunk are its lines without the other side's. *)
Sided(L, newSide) == {l \in L : OnSide(l, newSide)}

(* The side of a hunk, with the set of all lines that belong on it. *)
LEMMA SideIs ==
  ASSUME NEW L, NEW h, h.raw \in Seq(L), NEW newSide
  PROVE  Side(h, newSide) = Among(h.raw, Sided(L, newSide))
<1> DEFINE raw == h.raw
           side == {l \in L : OnSide(l, newSide)}
           R == {l \in Range(raw) : OnSide(l, newSide)}
<1>1. raw \in Seq(L)
  OBVIOUS
<1> HIDE DEF raw
<1>2. \A k \in 1..Len(raw) : raw[k] \in R <=> raw[k] \in side
  <2>1. \A k \in 1..Len(raw) : raw[k] \in L
    BY <1>1, ElementOfSeq
  <2>2. DOMAIN raw = 1..Len(raw)
    BY <1>1, LenProperties
  <2>3. \A k \in 1..Len(raw) : raw[k] \in Range(raw)
    BY <2>2 DEF Range
  <2> QED
    BY <2>1, <2>3
<1>3. Side(h, newSide) = Among(raw, R)
  BY DEF Side, raw
<1> HIDE DEF side, R
<1>4. Among(raw, R) = Among(raw, side)
  BY <1>1, <1>2, AmongSame
<1> QED
  BY <1>3, <1>4 DEF side, raw, Sided

(* Lines with one mark are on a side, or not, together. *)
LEMMA MarkOnSide ==
  ASSUME NEW L, NEW m \in Seq(L), NEW sign, AllMarked(m, sign), NEW newSide
  PROVE  Among(m, Sided(L, newSide)) = IF sign # (IF newSide THEN "-" ELSE "+") THEN m ELSE <<>>
<1> DEFINE K == {l \in L : OnSide(l, newSide)}
           away == IF newSide THEN "-" ELSE "+"
<1>1. \A k \in 1..Len(m) : m[k] \in L /\ m[k].mark = sign
  BY ElementOfSeq DEF AllMarked
<1>2. \A k \in 1..Len(m) : m[k] \in K <=> sign # away
  BY <1>1 DEF OnSide
<1> HIDE DEF K, away
<1>3. Among(m, K) = IF sign # away THEN m ELSE <<>>
  <2>1. CASE sign # away
    BY <1>2, <2>1, AmongAll
  <2>2. CASE sign = away
    BY <1>2, <2>2, AmongNone
  <2> QED
    BY <2>1, <2>2
<1> QED
  BY <1>3 DEF K, away, Sided

(* What four parts show when N keeps all but the second, and O all but the third. *)
LEMMA SidesShow ==
  ASSUME NEW A, NEW a, NEW b, NEW c, NEW d, AllIn(A, a, b, c, d),
         NEW L, NEW ma, NEW mb, NEW mc, NEW md, AllIn(L, ma, mb, mc, md),
         Showing(ma, a), Showing(mb, b), Showing(mc, c), Showing(md, d),
         NEW N, Among(ma, N) = ma, Among(mb, N) = <<>>, Among(mc, N) = mc, Among(md, N) = md,
         NEW O, Among(ma, O) = ma, Among(mb, O) = mb, Among(mc, O) = <<>>, Among(md, O) = md
  PROVE  /\ Showing(Among(Joined(ma, mb, mc, md), N), Joined(a, <<>>, c, d))
         /\ Showing(Among(Joined(ma, mb, mc, md), O), Joined(a, b, <<>>, d))
<1> DEFINE none == <<>>
<1>1. Among(Joined(ma, mb, mc, md), N) = Joined(Among(ma, N), Among(mb, N), Among(mc, N), Among(md, N))
  BY JoinedAmong
<1>2. Among(Joined(ma, mb, mc, md), O) = Joined(Among(ma, O), Among(mb, O), Among(mc, O), Among(md, O))
  BY JoinedAmong
<1>3. /\ Among(Joined(ma, mb, mc, md), N) = Joined(ma, none, mc, md)
      /\ Among(Joined(ma, mb, mc, md), O) = Joined(ma, mb, none, md)
  BY <1>1, <1>2, Zenon
<1>4. none \in Seq(L) /\ none \in Seq(A) /\ Showing(none, none)
  <2>1. none \in Seq(L)
    BY EmptySeq
  <2>2. none \in Seq(A)
    BY EmptySeq
  <2> QED
    BY <2>1, <2>2, ShowingNothing
<1> HIDE DEF none
<1>5. Showing(Joined(ma, none, mc, md), Joined(a, none, c, d))
  BY <1>4, JoinedShows DEF AllIn
<1>6. Showing(Joined(ma, mb, none, md), Joined(a, b, none, d))
  BY <1>4, JoinedShows DEF AllIn
<1> QED
  BY <1>3, <1>5, <1>6, Zenon DEF none

(* The sides of a hunk of four parts. *)
LEMMA SidesOfParts ==
  ASSUME NEW A, NEW a, NEW b, NEW c, NEW d, AllIn(A, a, b, c, d),
         NEW h, h.raw = Joined(Marked(" ", a), Marked("-", b), Marked("+", c), Marked(" ", d))
  PROVE  /\ h.raw \in Seq(LineOf(A))
         /\ Side(h, TRUE) \in Seq(LineOf(A)) /\ Showing(Side(h, TRUE), Joined(a, <<>>, c, d))
         /\ Side(h, FALSE) \in Seq(LineOf(A)) /\ Showing(Side(h, FALSE), Joined(a, b, <<>>, d))
<1> DEFINE L == LineOf(A)
           ma == Marked(" ", a)
           mb == Marked("-", b)
           mc == Marked("+", c)
           md == Marked(" ", d)
           N == Sided(L, TRUE)
           O == Sided(L, FALSE)
<1>1. {" ", "-", "+"} \subseteq {"", " ", "-", "+"}
  OBVIOUS
<1>2. a \in Seq(A) /\ b \in Seq(A) /\ c \in Seq(A) /\ d \in Seq(A)
  BY DEF AllIn
<1>3. ma \in Seq(L) /\ Showing(ma, a) /\ AllMarked(ma, " ")
  BY <1>1, <1>2, MarkedShows
<1>4. mb \in Seq(L) /\ Showing(mb, b) /\ AllMarked(mb, "-")
  BY <1>1, <1>2, MarkedShows
<1>5. mc \in Seq(L) /\ Showing(mc, c) /\ AllMarked(mc, "+")
  BY <1>1, <1>2, MarkedShows
<1>6. md \in Seq(L) /\ Showing(md, d) /\ AllMarked(md, " ")
  BY <1>1, <1>2, MarkedShows
<1>7. Among(ma, N) = ma /\ Among(ma, O) = ma
  <2>1. Among(ma, N) = IF " " # (IF TRUE THEN "-" ELSE "+") THEN ma ELSE <<>>
    BY <1>3, MarkOnSide
  <2>2. Among(ma, O) = IF " " # (IF FALSE THEN "-" ELSE "+") THEN ma ELSE <<>>
    BY <1>3, MarkOnSide
  <2> HIDE DEF ma, N, O
  <2> QED
    BY <2>1, <2>2
<1>8. Among(mb, N) = <<>> /\ Among(mb, O) = mb
  <2>1. Among(mb, N) = IF "-" # (IF TRUE THEN "-" ELSE "+") THEN mb ELSE <<>>
    BY <1>4, MarkOnSide
  <2>2. Among(mb, O) = IF "-" # (IF FALSE THEN "-" ELSE "+") THEN mb ELSE <<>>
    BY <1>4, MarkOnSide
  <2> HIDE DEF mb, N, O
  <2> QED
    BY <2>1, <2>2
<1>9. Among(mc, N) = mc /\ Among(mc, O) = <<>>
  <2>1. Among(mc, N) = IF "+" # (IF TRUE THEN "-" ELSE "+") THEN mc ELSE <<>>
    BY <1>5, MarkOnSide
  <2>2. Among(mc, O) = IF "+" # (IF FALSE THEN "-" ELSE "+") THEN mc ELSE <<>>
    BY <1>5, MarkOnSide
  <2> HIDE DEF mc, N, O
  <2> QED
    BY <2>1, <2>2
<1>10. Among(md, N) = md /\ Among(md, O) = md
  <2>1. Among(md, N) = IF " " # (IF TRUE THEN "-" ELSE "+") THEN md ELSE <<>>
    BY <1>6, MarkOnSide
  <2>2. Among(md, O) = IF " " # (IF FALSE THEN "-" ELSE "+") THEN md ELSE <<>>
    BY <1>6, MarkOnSide
  <2> HIDE DEF md, N, O
  <2> QED
    BY <2>1, <2>2
<1>11. AllIn(L, ma, mb, mc, md)
  BY <1>3, <1>4, <1>5, <1>6 DEF AllIn
<1>12. h.raw = Joined(ma, mb, mc, md)
  OBVIOUS
<1> HIDE DEF L, ma, mb, mc, md
<1>13. h.raw \in Seq(L)
  <2>1. Joined(ma, mb, mc, md) \in Seq(L)
    BY <1>3, <1>4, <1>5, <1>6, JoinedIn
  <2> QED
    BY <1>12, <2>1
<1>14. Side(h, TRUE) = Among(h.raw, N) /\ Side(h, FALSE) = Among(h.raw, O)
  BY <1>13, SideIs
<1> HIDE DEF N, O
<1>15. /\ Showing(Among(Joined(ma, mb, mc, md), N), Joined(a, <<>>, c, d))
       /\ Showing(Among(Joined(ma, mb, mc, md), O), Joined(a, b, <<>>, d))
  BY <1>3, <1>4, <1>5, <1>6, <1>7, <1>8, <1>9, <1>10, <1>11, SidesShow
<1>16. Among(h.raw, N) \in Seq(L) /\ Among(h.raw, O) \in Seq(L)
  BY <1>13, AmongEnumerates
<1>17. /\ h.raw \in Seq(L)
       /\ Side(h, TRUE) \in Seq(L) /\ Showing(Side(h, TRUE), Joined(a, <<>>, c, d))
       /\ Side(h, FALSE) \in Seq(L) /\ Showing(Side(h, FALSE), Joined(a, b, <<>>, d))
  BY <1>12, <1>13, <1>14, <1>15, <1>16, Zenon
<1> QED
  BY <1>17 DEF L

(* The new side of a hunk is the new file, the old side the old one. *)
Sides(h, L, old, new) ==
  /\ h.raw \in Seq(L)
  /\ Side(h, TRUE) \in Seq(L) /\ Showing(Side(h, TRUE), new)
  /\ Side(h, FALSE) \in Seq(L) /\ Showing(Side(h, FALSE), old)

(* For all two files, wherever they part and meet again. *)
LEMMA HunkSides ==
  ASSUME NEW A, NEW old \in Seq(A), NEW new \in Seq(A), NEW oldFirst, NEW newFirst
  PROVE  /\ Sides(Hunk(old, new, oldFirst, newFirst), LineOf(A), old, new)
         /\ Hunk(old, new, oldFirst, newFirst).oldStart = Start(old, oldFirst)
         /\ Hunk(old, new, oldFirst, newFirst).newStart = Start(new, newFirst)
<1> DEFINE h == Hunk(old, new, oldFirst, newFirst)
           lo == Len(old)
           ln == Len(new)
<1>1. /\ h = [oldStart |-> Start(old, oldFirst), newStart |-> Start(new, newFirst), raw |-> h.raw]
      /\ Parts(old, new, h.raw)
  BY HunkIs
<1> HIDE DEF h
<1>2. PICK p \in Nat, s \in Nat :
           /\ p + s <= lo /\ p + s <= ln
           /\ SubSeq(old, 1, p) = SubSeq(new, 1, p)
           /\ SubSeq(old, lo - s + 1, lo) = SubSeq(new, ln - s + 1, ln)
           /\ h.raw = Marked(" ", SubSeq(old, 1, p))
                        \o Marked("-", SubSeq(old, p + 1, lo - s))
                        \o Marked("+", SubSeq(new, p + 1, ln - s))
                        \o Marked(" ", SubSeq(old, lo - s + 1, lo))
  BY <1>1 DEF Parts
<1> DEFINE a == SubSeq(old, 1, p)
           b == SubSeq(old, p + 1, lo - s)
           c == SubSeq(new, p + 1, ln - s)
           d == SubSeq(old, lo - s + 1, lo)
<1>3. /\ a \in Seq(A) /\ b \in Seq(A) /\ c \in Seq(A) /\ d \in Seq(A)
      /\ Joined(a, b, <<>>, d) = old /\ Joined(a, <<>>, c, d) = new
  <2>1. a \in Seq(A) /\ b \in Seq(A) /\ d \in Seq(A) /\ Joined(a, b, <<>>, d) = old
    BY <1>2, ThreeParts
  <2>2. /\ c \in Seq(A)
        /\ Joined(SubSeq(new, 1, p), <<>>, c, SubSeq(new, ln - s + 1, ln)) = new
    BY <1>2, ThreeParts
  <2> QED
    BY <1>2, <2>1, <2>2
<1>4. h.oldStart = Start(old, oldFirst) /\ h.newStart = Start(new, newFirst)
  BY <1>1
<1>5. h.raw = Joined(Marked(" ", a), Marked("-", b), Marked("+", c), Marked(" ", d))
  BY <1>2 DEF Joined
<1> HIDE DEF a, b, c, d
<1>6. /\ h.raw \in Seq(LineOf(A))
      /\ Side(h, TRUE) \in Seq(LineOf(A)) /\ Showing(Side(h, TRUE), Joined(a, <<>>, c, d))
      /\ Side(h, FALSE) \in Seq(LineOf(A)) /\ Showing(Side(h, FALSE), Joined(a, b, <<>>, d))
  <2>1. AllIn(A, a, b, c, d)
    BY <1>3 DEF AllIn
  <2> QED
    BY <1>5, <2>1, SidesOfParts
<1>7. /\ h.raw \in Seq(LineOf(A))
      /\ Side(h, TRUE) \in Seq(LineOf(A)) /\ Showing(Side(h, TRUE), new)
      /\ Side(h, FALSE) \in Seq(LineOf(A)) /\ Showing(Side(h, FALSE), old)
  BY <1>3, <1>6, Zenon
<1>8. Sides(h, LineOf(A), old, new)
  BY <1>7 DEF Sides
<1> QED
  BY <1>4, <1>8 DEF h

(* Every line of a hunk is a line of one of the two files. *)
LEMMA HunkLines ==
  ASSUME NEW A, NEW old \in Seq(A), NEW new \in Seq(A),
         NEW oldFirst \in Nat \ {0}, NEW newFirst \in Nat \ {0}
  PROVE  Hunk(old, new, oldFirst, newFirst) \in HunkOf(A)
<1> DEFINE h == Hunk(old, new, oldFirst, newFirst)
           Q == Seq(LineOf(A))
<1>1. h = [oldStart |-> Start(old, oldFirst), newStart |-> Start(new, newFirst), raw |-> h.raw]
  BY HunkIs
<1>2. Sides(h, LineOf(A), old, new)
  BY HunkSides
<1>3. Start(old, oldFirst) \in Nat /\ Start(new, newFirst) \in Nat
  BY DEF Start
<1> HIDE DEF h
<1>4. h.raw \in Q
  BY <1>2 DEF Sides
<1> HIDE DEF Q
<1>5. h \in [oldStart : Nat, newStart : Nat, raw : Q]
  BY <1>1, <1>3, <1>4
<1> QED
  BY <1>5 DEF HunkOf, Q, h

(* The text of a file is a sequence of its lines. *)
LEMMA TextLines ==
  ASSUME NEW A, Gap \in A, NEW c \in FileOf(A)
  PROVE  Text(c) \in Seq(A)
<1>1. c.top \in Seq(A) /\ <<Gap>> \in Seq(A) /\ c.end \in Seq(A)
  BY DEF FileOf
<1>2. c.top \o <<Gap>> \o c.end \in Seq(A)
  BY <1>1
<1> QED
  BY <1>2 DEF Text

(* Also without Gap, for a file that is not there. *)
LEMMA HunksLines ==
  ASSUME NEW A, NEW old \in FileOf(A), NEW new \in FileOf(A),
         Text(old) \in Seq(A), Text(new) \in Seq(A)
  PROVE  GitHunks(old, new) \in Seq(HunkOf(A))
<1>1. /\ old.top \in Seq(A) /\ old.end \in Seq(A)
      /\ new.top \in Seq(A) /\ new.end \in Seq(A)
  BY DEF FileOf
<1>2. /\ 1 \in Nat \ {0} /\ Len(old.top) + 2 \in Nat \ {0} /\ Len(new.top) + 2 \in Nat \ {0}
  BY <1>1
<1> DEFINE whole == Hunk(Text(old), Text(new), 1, 1)
           top == Hunk(old.top, new.top, 1, 1)
           end == Hunk(old.end, new.end, Len(old.top) + 2, Len(new.top) + 2)
           H == HunkOf(A)
<1>3. whole \in H
  BY <1>2, HunkLines
<1>4. top \in H
  BY <1>1, <1>2, HunkLines
<1>5. end \in H
  BY <1>1, <1>2, HunkLines
<1> HIDE DEF whole, top, end, H
<1>6. <<>> \in Seq(H) /\ <<whole>> \in Seq(H) /\ <<top>> \in Seq(H) /\ <<end>> \in Seq(H)
  BY <1>3, <1>4, <1>5
<1> DEFINE one == IF old.top = new.top THEN <<>> ELSE <<top>>
           two == IF old.end = new.end THEN <<>> ELSE <<end>>
<1>7. one \in Seq(H) /\ two \in Seq(H)
  BY <1>6
<1> HIDE DEF one, two
<1>8. one \o two \in Seq(H)
  BY <1>7
<1>9. GitHunks(old, new) \in {<<>>, <<whole>>, one \o two}
  BY DEF GitHunks, whole, one, two, top, end
<1>10. GitHunks(old, new) \in Seq(H)
  BY <1>6, <1>8, <1>9
<1> QED
  BY <1>10 DEF H

Unmarked == Lines \ IsMarker
Content == Contents \cup {Absent}

(* A sequence whose entries are in A is a sequence over A. *)
LEMMA EntriesIn ==
  ASSUME NEW S, NEW s \in Seq(S), NEW A, \A i \in 1..Len(s) : s[i] \in A
  PROVE  s \in Seq(A)
<1>1. Len(s) \in Nat /\ DOMAIN s = 1..Len(s) /\ s \in [1..Len(s) -> S]
  BY LenProperties
<1>2. s \in [1..Len(s) -> A]
  BY <1>1
<1> QED
  BY <1>1, <1>2, SeqDef

(* A file is made of lines. *)
LEMMA ContentLines ==
  ASSUME NEW c \in Content
  PROVE  c \in FileOf(Lines) /\ Text(c) \in Seq(Lines)
<1>1. Gap \in Lines
  BY DiffAssumption DEF Lines
<1>2. c \in FileOf(Lines)
  <2>1. CASE c = Absent
    <3>1. <<>> \in Seq(Lines)
      OBVIOUS
    <3> QED
      BY <2>1, <3>1 DEF Absent, FileOf
  <2>2. CASE c \in Contents
    <3> DEFINE Q == Seq(Lines)
    <3>1. c \in [is : {"text", "binary"}, top : Q, end : Q]
      BY <2>2, DiffAssumption DEF Lines
    <3> HIDE DEF Q
    <3>2. c \in [is : {"text", "binary", "absent"}, top : Q, end : Q]
      BY <3>1
    <3> QED
      BY <3>2 DEF FileOf, Q
  <2> QED
    BY <2>1, <2>2 DEF Content
<1> QED
  BY <1>1, <1>2, TextLines

(* A plain file has no line that looks like git's note on binary files. *)
LEMMA PlainLines ==
  ASSUME NEW c \in Content, PlainText(c)
  PROVE  c \in FileOf(Unmarked) /\ Text(c) \in Seq(Unmarked) /\ c.is # "binary"
<1>1. CASE c = Absent
  <2>1. <<>> \in Seq(Unmarked)
    OBVIOUS
  <2> QED
    BY <1>1, <2>1 DEF Absent, FileOf, Text
<1>2. CASE c # Absent
  <2> DEFINE x == c.top
             y == <<Gap>>
             z == c.end
             t == (x \o y) \o z
  <2>1. c \in FileOf(Lines) /\ Text(c) \in Seq(Lines) /\ Gap \in Lines
    BY ContentLines, DiffAssumption DEF Lines
  <2>2. x \in Seq(Lines) /\ y \in Seq(Lines) /\ z \in Seq(Lines) /\ Len(y) = 1
    BY <2>1 DEF FileOf
  <2>3. Text(c) = t
    BY <1>2 DEF Text
  <2>4. c.is # "binary" /\ \A i \in DOMAIN t : t[i] \notin IsMarker
    BY <2>3 DEF PlainText
  <2>5. t \in Seq(Lines)
    BY <2>1, <2>3
  <2>6. t \in Seq(Unmarked)
    <3>1. DOMAIN t = 1..Len(t)
      BY <2>5, LenProperties
    <3>2. \A i \in 1..Len(t) : t[i] \in Lines
      BY <2>5, ElementOfSeq
    <3> HIDE DEF t
    <3>3. \A i \in 1..Len(t) : t[i] \in Unmarked
      BY <2>4, <3>1, <3>2 DEF Unmarked
    <3> QED
      BY <2>5, <3>3, EntriesIn
  <2>7. Len(x) \in Nat /\ Len(z) \in Nat
    BY <2>2
  <2> HIDE DEF x, y, z
  <2>8. /\ x \o y \in Seq(Lines) /\ Len(x \o y) = Len(x) + 1
        /\ \A i \in 1..Len(x) : (x \o y)[i] = x[i]
    <3>1. /\ x \o y \in Seq(Lines) /\ Len(x \o y) = Len(x) + Len(y)
          /\ \A i \in 1..Len(x) + Len(y) : (x \o y)[i] = IF i <= Len(x) THEN x[i] ELSE y[i - Len(x)]
      BY <2>2, ConcatProperties
    <3>2. \A i \in 1..Len(x) : i \in 1..Len(x) + Len(y) /\ i <= Len(x)
      BY <2>2, <2>7
    <3> QED
      BY <2>2, <3>1, <3>2
  <2>9. /\ Len(t) = Len(x) + 1 + Len(z)
        /\ \A i \in 1..Len(x) + 1 + Len(z) :
             t[i] = IF i <= Len(x) + 1 THEN (x \o y)[i] ELSE z[i - (Len(x) + 1)]
    <3> DEFINE w == x \o y
    <3>1. w \in Seq(Lines) /\ z \in Seq(Lines) /\ t = w \o z /\ Len(w) = Len(x) + 1
      BY <2>2, <2>8 DEF t
    <3> HIDE DEF w, t
    <3>2. /\ Len(w \o z) = Len(w) + Len(z)
          /\ \A i \in 1..Len(w) + Len(z) : (w \o z)[i] = IF i <= Len(w) THEN w[i] ELSE z[i - Len(w)]
      BY <3>1, ConcatProperties
    <3>3. /\ Len(t) = Len(w) + Len(z)
          /\ \A i \in 1..Len(w) + Len(z) : t[i] = IF i <= Len(w) THEN w[i] ELSE z[i - Len(w)]
      BY <3>1, <3>2
    <3> QED
      BY <3>1, <3>3 DEF w
  <2> HIDE DEF t
  <2>10. \A i \in 1..Len(t) : t[i] \in Unmarked
    BY <2>6, ElementOfSeq
  <2>11. \A i \in 1..Len(x) : x[i] \in Unmarked
    <3> SUFFICES ASSUME NEW i \in 1..Len(x) PROVE x[i] \in Unmarked
      OBVIOUS
    <3>1. i \in 1..Len(t) /\ i \in 1..Len(x) + 1 + Len(z) /\ i <= Len(x) + 1
      BY <2>7, <2>9
    <3> QED
      BY <2>8, <2>9, <2>10, <3>1
  <2>12. \A i \in 1..Len(z) : z[i] \in Unmarked
    <3> SUFFICES ASSUME NEW i \in 1..Len(z) PROVE z[i] \in Unmarked
      OBVIOUS
    <3> DEFINE k == Len(x) + 1 + i
    <3>1. /\ k \in 1..Len(t) /\ k \in 1..Len(x) + 1 + Len(z) /\ ~(k <= Len(x) + 1)
          /\ k - (Len(x) + 1) = i
      BY <2>7, <2>9
    <3> HIDE DEF k
    <3>2. t[k] = z[k - (Len(x) + 1)]
      BY <2>9, <3>1
    <3> QED
      BY <2>10, <3>1, <3>2
  <2>13. x \in Seq(Unmarked)
    BY <2>2, <2>11, EntriesIn
  <2>14. z \in Seq(Unmarked)
    BY <2>2, <2>12, EntriesIn
  <2>15. c \in FileOf(Unmarked)
    <3> DEFINE Q == Seq(Unmarked)
               R == Seq(Lines)
    <3>1. c \in [is : {"text", "binary", "absent"}, top : R, end : R] /\ c.top \in Q /\ c.end \in Q
      BY <2>1, <2>13, <2>14 DEF FileOf, x, z
    <3> HIDE DEF Q, R
    <3>2. c \in [is : {"text", "binary", "absent"}, top : Q, end : Q]
      BY <3>1
    <3> QED
      BY <3>2 DEF FileOf, Q
  <2> QED
    BY <2>3, <2>4, <2>6, <2>15
<1> QED
  BY <1>1, <1>2

(* Hunks without such a line are not taken for a binary file's. *)
LEMMA NotBinary ==
  ASSUME NEW old, NEW new, NEW hunks \in Seq(HunkOf(Unmarked)),
         old.is # "binary", new.is # "binary"
  PROVE  ~IsBinary(old, new, hunks)
<1> SUFFICES ASSUME NEW h \in DOMAIN hunks, NEW i \in DOMAIN hunks[h].raw
             PROVE  hunks[h].raw[i].text \notin IsMarker
  BY DEF IsBinary
<1> DEFINE H == HunkOf(Unmarked)
           L == LineOf(Unmarked)
           raw == hunks[h].raw
<1>1. hunks[h] \in H
  <2>1. h \in 1..Len(hunks)
    BY LenProperties
  <2> QED
    BY <2>1, ElementOfSeq
<1>2. raw \in Seq(L)
  BY <1>1 DEF HunkOf
<1> HIDE DEF raw, L
<1>3. i \in 1..Len(raw)
  BY <1>2, LenProperties DEF raw
<1>4. raw[i] \in L
  BY <1>2, <1>3, ElementOfSeq
<1>5. raw[i].text \in Unmarked
  BY <1>4 DEF L, LineOf
<1> QED
  BY <1>5 DEF Unmarked, raw

(* What the parser makes of one file. *)
LEMMA ParsedDiff ==
  ASSUME NEW oldPath \in Files, NEW newPath \in Files,
         NEW old \in FileOf(Lines), NEW new \in FileOf(Lines), NEW hunks \in Seq(HunkOf(Lines))
  PROVE  LET d == ParseDiffText(oldPath, newPath, old, new, hunks)
         IN  /\ d \in Diffs
             /\ d.newPath = IF new = Absent THEN DevNull ELSE newPath
             /\ d.isDeleted <=> d.newPath = DevNull
             /\ d.isBinary <=> IsBinary(old, new, hunks)
<1> DEFINE F == FileOf(Lines)
           Q == Seq(HunkOf(Lines))
           C == Seq(Lines)
           removed == new = Absent
           path == IF removed THEN DevNull ELSE newPath
           binary == IsBinary(old, new, hunks)
<1>1. /\ path \in Files \cup {DevNull} /\ removed \in BOOLEAN /\ <<>> \in C
      /\ removed <=> path = DevNull
  <2>1. newPath # DevNull
    BY DiffAssumption
  <2>2. <<>> \in C
    OBVIOUS
  <2> HIDE DEF C
  <2> QED
    BY <2>1, <2>2
<1>2. binary \in BOOLEAN
  BY DEF IsBinary
<1>3. ParseDiffText(oldPath, newPath, old, new, hunks) =
        [oldPath |-> oldPath, newPath |-> path, isDeleted |-> removed, isBinary |-> binary,
         hunks |-> hunks, content |-> <<>>, old |-> old, new |-> new]
  BY DEF ParseDiffText
<1>4. old \in F /\ new \in F /\ hunks \in Q
  OBVIOUS
<1>5. Diffs = [oldPath : Files, newPath : Files \cup {DevNull}, isDeleted : BOOLEAN,
               isBinary : BOOLEAN, hunks : Q, content : C, old : F, new : F]
  BY DEF Diffs
<1> HIDE DEF F, Q, C, removed, path, binary
<1>6. ParseDiffText(oldPath, newPath, old, new, hunks) \in Diffs
  BY <1>1, <1>2, <1>3, <1>4, <1>5
<1> DEFINE d == ParseDiffText(oldPath, newPath, old, new, hunks)
<1>7. d.newPath = path /\ d.isDeleted = removed /\ d.isBinary = binary
  BY <1>3
<1> HIDE DEF d
<1>8. /\ d \in Diffs /\ d.newPath = path
      /\ d.isDeleted <=> d.newPath = DevNull
      /\ d.isBinary <=> binary
  BY <1>1, <1>6, <1>7 DEF d
<1> QED
  BY <1>8 DEF path, removed, binary, d

(* A list of diffs compares two trees: it names each file that is in the new
   one and is not the same in the old one, once, and takes none of them for
   binary whose texts are plain. *)
Compares(ds, old, new) ==
  /\ DiffList(ds)
  /\ \A f \in Files :
       (\E i \in 1..Len(ds) : ds[i].newPath = f) <=> old[f] # new[f] /\ new[f] # Absent
  /\ \A f \in Files, i, j \in 1..Len(ds) : ds[i].newPath = f /\ ds[j].newPath = f => i = j
  /\ \A f \in Files, i \in 1..Len(ds) :
       ds[i].newPath = f /\ PlainText(old[f]) /\ PlainText(new[f]) => ~ds[i].isBinary

(* A git diff compares the trees it is given, renames included. *)
LEMMA GitCompares ==
  ASSUME NEW old \in [Files -> Content], NEW new \in [Files -> Content]
  PROVE  Compares(GitDiff(old, new), old, new)
<1> DEFINE R == Renames(old, new)
           r == IF R = {} THEN <<>> ELSE CHOOSE x \in R : TRUE
           from(f) == IF r # <<>> /\ f = r[2] THEN r[1] ELSE f
           shown == {f \in Files : old[f] # new[f]} \ (IF r = <<>> THEN {} ELSE {r[1]})
           parsedOf(f) == ParseDiffText(from(f), f, old[from(f)], new[f],
                                        HunksOf[<<old[from(f)], new[f]>>])
           diff == [f \in shown |-> parsedOf(f)]
           names == Among(FileOrder, shown)
           ds == [i \in DOMAIN names |-> diff[names[i]]]
<1>1. ASSUME NEW f \in Files
      PROVE  /\ from(f) \in Files
             /\ from(f) = f \/ old[from(f)] = new[f]
             /\ f \in shown => old[f] # new[f]
             /\ old[f] # new[f] /\ new[f] # Absent => f \in shown
  <2>1. CASE R = {}
    <3>1. r = <<>>
      BY <2>1
    <3> HIDE DEF r
    <3> QED
      BY <3>1
  <2>2. CASE R # {}
    <3>1. r \in R
      BY <2>2
    <3> HIDE DEF r
    <3>2. /\ r[1] \in Files /\ r[2] \in Files
          /\ new[r[1]] = Absent /\ new[r[2]] = old[r[1]]
      BY <3>1 DEF R, Renames
    <3> QED
      BY <3>2
  <2> QED
    BY <2>1, <2>2
<1>2. shown \in SUBSET Files
  OBVIOUS
<1>3. GitDiff(old, new) = ds
  <2>1. InOrder[shown] = names
    BY <1>2 DEF InOrder
  <2> QED
    BY <2>1 DEF GitDiff
<1> HIDE DEF shown, from
<1>4. ASSUME NEW f \in Files
      PROVE  /\ parsedOf(f) \in Diffs
             /\ parsedOf(f).newPath = IF new[f] = Absent THEN DevNull ELSE f
             /\ parsedOf(f).isDeleted <=> parsedOf(f).newPath = DevNull
             /\ PlainText(old[f]) /\ PlainText(new[f]) => ~parsedOf(f).isBinary
  <2> DEFINE a == old[from(f)]
             b == new[f]
             h == HunksOf[<<a, b>>]
  <2>1. a \in Content /\ b \in Content
    BY <1>1
  <2>2. h = GitHunks(a, b)
    BY <2>1 DEF HunksOf, Content
  <2>3. /\ a \in FileOf(Lines) /\ b \in FileOf(Lines)
        /\ Text(a) \in Seq(Lines) /\ Text(b) \in Seq(Lines)
    BY <2>1, ContentLines
  <2> HIDE DEF a, b, h
  <2>4. h \in Seq(HunkOf(Lines))
    BY <2>2, <2>3, HunksLines
  <2> DEFINE d == ParseDiffText(from(f), f, a, b, h)
  <2>5. /\ d \in Diffs
        /\ d.newPath = IF b = Absent THEN DevNull ELSE f
        /\ d.isDeleted <=> d.newPath = DevNull
        /\ d.isBinary <=> IsBinary(a, b, h)
    BY <1>1, <2>3, <2>4, ParsedDiff
  <2>6. ASSUME PlainText(old[f]), PlainText(new[f]) PROVE ~d.isBinary
    <3>1. PlainText(a) /\ PlainText(b)
      BY <1>1, <2>6 DEF a, b
    <3>2. /\ a \in FileOf(Unmarked) /\ Text(a) \in Seq(Unmarked) /\ a.is # "binary"
          /\ b \in FileOf(Unmarked) /\ Text(b) \in Seq(Unmarked) /\ b.is # "binary"
      BY <2>1, <3>1, PlainLines
    <3>3. h \in Seq(HunkOf(Unmarked))
      BY <2>2, <3>2, HunksLines
    <3>4. ~IsBinary(a, b, h)
      BY <3>2, <3>3, NotBinary
    <3> QED
      BY <2>5, <3>4
  <2> HIDE DEF d
  <2>7. parsedOf(f) = d /\ new[f] = b
    BY DEF d, a, b, h
  <2> HIDE DEF parsedOf
  <2> QED
    BY <2>5, <2>6, <2>7
<1> HIDE DEF parsedOf
<1>5. /\ FileOrder \in Seq(Files)
      /\ \A f \in Files : \E k \in 1..Len(FileOrder) : FileOrder[k] = f
      /\ \A k, l \in 1..Len(FileOrder) : FileOrder[k] = FileOrder[l] => k = l
  <2>1. FileOrder \in Seq(Files) /\ Range(FileOrder) = Files
    BY DiffAssumption
  <2>2. DOMAIN FileOrder = 1..Len(FileOrder)
    BY <2>1, LenProperties
  <2> QED
    BY <2>1, <2>2, DiffAssumption DEF Range
<1> DEFINE n == Len(names)
<1>6. names \in Seq(Files) /\ n \in Nat /\ DOMAIN names = 1..n
  <2>1. names \in Seq(Files)
    BY <1>5, AmongEnumerates
  <2> QED
    BY <2>1, LenProperties
<1>7. /\ \A i \in 1..n : names[i] \in shown
      /\ \A i, j \in 1..n : names[i] = names[j] => i = j
      /\ \A f \in shown : \E i \in 1..n : names[i] = f
  <2>1. PICK e \in [1..n -> 1..Len(FileOrder)] :
              /\ \A j \in 1..n : names[j] = FileOrder[e[j]] /\ FileOrder[e[j]] \in shown
              /\ \A i, j \in 1..n : e[i] = e[j] => i = j
              /\ \A k \in 1..Len(FileOrder) : FileOrder[k] \in shown => \E j \in 1..n : e[j] = k
    <3>1. \E e : Keeps(FileOrder, Len(FileOrder), shown, names, e)
      BY <1>5, AmongEnumerates
    <3> HIDE DEF names
    <3> QED
      BY <3>1 DEF Keeps
  <2> HIDE DEF names, n
  <2>2. \A i \in 1..n : names[i] \in shown
    BY <2>1
  <2>3. ASSUME NEW i \in 1..n, NEW j \in 1..n, names[i] = names[j] PROVE i = j
    <3>1. FileOrder[e[i]] = FileOrder[e[j]] /\ e[i] \in 1..Len(FileOrder) /\ e[j] \in 1..Len(FileOrder)
      BY <2>1, <2>3
    <3>2. e[i] = e[j]
      BY <1>5, <3>1
    <3> QED
      BY <2>1, <3>2
  <2>4. ASSUME NEW f \in shown PROVE \E i \in 1..n : names[i] = f
    <3>1. PICK k \in 1..Len(FileOrder) : FileOrder[k] = f
      BY <1>2, <1>5
    <3>2. PICK j \in 1..n : e[j] = k
      BY <2>1, <3>1
    <3> QED
      BY <2>1, <3>1, <3>2
  <2> QED
    BY <2>2, <2>3, <2>4
<1> HIDE DEF names, n
<1>8. \A i \in 1..n : ds[i] = parsedOf(names[i]) /\ names[i] \in Files
  BY <1>2, <1>6, <1>7
<1>9. ds \in Seq(Diffs) /\ Len(ds) = n
  <2>1. \A i \in 1..n : ds[i] \in Diffs
    BY <1>4, <1>8
  <2>2. ds = [i \in 1..n |-> ds[i]]
    BY <1>6
  <2> HIDE DEF ds
  <2>3. ds \in [1..n -> Diffs]
    BY <2>1, <2>2
  <2>4. ds \in Seq(Diffs)
    BY <1>6, <2>3, SeqDef
  <2> QED
    BY <1>6, <2>3, <2>4, LenProperties
<1> HIDE DEF ds
<1>10. DiffList(ds)
  BY <1>4, <1>8, <1>9 DEF DiffList
<1>11. \A i \in 1..n, f \in Files : ds[i].newPath = f <=> names[i] = f /\ new[f] # Absent
  <2> SUFFICES ASSUME NEW i \in 1..n, NEW f \in Files
               PROVE  ds[i].newPath = f <=> names[i] = f /\ new[f] # Absent
    OBVIOUS
  <2>1. ds[i].newPath = IF new[names[i]] = Absent THEN DevNull ELSE names[i]
    BY <1>4, <1>8
  <2>2. f # DevNull
    BY DiffAssumption
  <2> QED
    BY <2>1, <2>2
<1>12. ASSUME NEW f \in Files
       PROVE  (\E i \in 1..n : ds[i].newPath = f) <=> old[f] # new[f] /\ new[f] # Absent
  BY <1>1, <1>7, <1>11
<1>13. ASSUME NEW f \in Files, NEW i \in 1..n, NEW j \in 1..n,
              ds[i].newPath = f, ds[j].newPath = f
       PROVE  i = j
  BY <1>7, <1>11, <1>13
<1>14. ASSUME NEW f \in Files, NEW i \in 1..n, ds[i].newPath = f,
              PlainText(old[f]), PlainText(new[f])
       PROVE  ~ds[i].isBinary
  <2>1. names[i] = f
    BY <1>11, <1>14
  <2> QED
    BY <1>4, <1>8, <1>14, <2>1
<1> QED
  BY <1>3, <1>9, <1>10, <1>12, <1>13, <1>14 DEF Compares

(* The diff made up for an untracked file. *)
LEMMA UntrackedShown ==
  ASSUME NEW f \in Files, worktree[f] \in Contents
  PROVE  /\ UntrackedDiff(f) \in Diffs
         /\ UntrackedDiff(f).newPath = f /\ ~UntrackedDiff(f).isDeleted
         /\ PlainText(worktree[f]) => ~UntrackedDiff(f).isBinary
<1> DEFINE c == worktree[f]
           t == [c EXCEPT !.is = "text"]
           h == Hunk(<<>>, Text(c), 1, 1)
           raw == h.raw \o Marked("", <<"", "">>)
           hs == <<[h EXCEPT !.raw = raw]>>
           d == ParseDiffText(f, f, Absent, t, hs)
<1>1. UntrackedDiff(f) = d
  BY DEF UntrackedDiff
<1>2. c \in Content /\ c # Absent /\ c \in FileOf(Lines) /\ Text(c) \in Seq(Lines)
  <2>1. c \in Content
    BY DEF Content
  <2>2. c.is \in {"text", "binary"}
    BY DiffAssumption
  <2>3. Absent.is = "absent"
    BY DEF Absent
  <2> QED
    BY <2>1, <2>2, <2>3, ContentLines
<1>3. t \in FileOf(Lines) /\ t # Absent /\ t.is = "text"
  <2> HIDE DEF c
  <2>1. t.is = "text" /\ Absent.is = "absent"
    BY <1>2 DEF FileOf, Absent
  <2>2. t \in FileOf(Lines)
    BY <1>2 DEF FileOf
  <2> QED
    BY <2>1, <2>2
<1> HIDE DEF t
<1>4. ASSUME NEW A, "" \in A, Text(c) \in Seq(A)
      PROVE  hs \in Seq(HunkOf(A))
  <2>1. h \in HunkOf(A)
    <3>1. <<>> \in Seq(A) /\ 1 \in Nat \ {0}
      OBVIOUS
    <3> QED
      BY <1>4, <3>1, HunkLines
  <2>2. Marked("", <<"", "">>) \in Seq(LineOf(A))
    <3>1. <<"", "">> \in Seq(A)
      <4> DEFINE blank == ""
      <4>1. blank \in A
        BY <1>4
      <4> HIDE DEF blank
      <4>2. <<blank, blank>> \in Seq(A)
        BY <4>1
      <4> QED
        BY <4>2 DEF blank
    <3> QED
      BY <3>1, MarkedLines
  <2> HIDE DEF h
  <2>3. [h EXCEPT !.raw = raw] \in HunkOf(A)
    <3> DEFINE L == LineOf(A)
    <3>1. h \in [oldStart : Nat, newStart : Nat, raw : Seq(L)]
      BY <2>1 DEF HunkOf
    <3>2. raw \in Seq(L)
      <4> DEFINE m == Marked("", <<"", "">>)
      <4>1. m \in Seq(L) /\ h.raw \in Seq(L)
        BY <2>2, <3>1
      <4> HIDE DEF m, L
      <4>2. h.raw \o m \in Seq(L)
        BY <4>1, ConcatProperties
      <4> QED
        BY <4>2 DEF m
    <3> HIDE DEF raw, L
    <3>3. [h EXCEPT !.raw = raw] \in [oldStart : Nat, newStart : Nat, raw : Seq(L)]
      BY <3>1, <3>2
    <3> QED
      BY <3>3 DEF HunkOf, L
  <2> DEFINE H == HunkOf(A)
             x == [h EXCEPT !.raw = raw]
  <2>4. x \in H
    BY <2>3
  <2> HIDE DEF H, x
  <2>5. <<x>> \in Seq(H)
    BY <2>4
  <2> QED
    BY <2>5 DEF H, x
<1> HIDE DEF hs
<1>5. "" \in Lines /\ "" \in Unmarked
  BY DiffAssumption DEF Unmarked, Lines
<1>6. hs \in Seq(HunkOf(Lines))
  BY <1>2, <1>4, <1>5
<1>7. Absent \in FileOf(Lines)
  BY ContentLines DEF Content
<1>8. /\ d \in Diffs /\ d.newPath = f
      /\ d.isDeleted <=> d.newPath = DevNull
      /\ d.isBinary <=> IsBinary(Absent, t, hs)
  BY <1>3, <1>6, <1>7, ParsedDiff
<1>9. f # DevNull
  BY DiffAssumption
<1>10. ASSUME PlainText(c) PROVE ~d.isBinary
  <2>1. Text(c) \in Seq(Unmarked)
    BY <1>2, <1>10, PlainLines
  <2>2. hs \in Seq(HunkOf(Unmarked))
    BY <1>4, <1>5, <2>1
  <2>3. Absent.is # "binary" /\ t.is # "binary"
    BY <1>3 DEF Absent
  <2> QED
    BY <1>8, <2>2, <2>3, NotBinary
<1> HIDE DEF d
<1> QED
  BY <1>1, <1>8, <1>9, <1>10

------------------------------------------------------------------------------
(* The filters. *)

(* The diffs each filter lets pass. *)
NotIgnored == {d \in Diffs : ~IsPathExcluded(setup.ignored, EffectivePath(d))}
Wanted     == {d \in Diffs : ShouldReview(d)}
Small      == {d \in Diffs : ~TooLarge(d)}
Present    == {d \in Diffs : ~d.isDeleted}

(* The filters as the code has them, one list at a time. *)
LEMMA FiltersAre ==
  ASSUME NEW ds \in Seq(Diffs)
  PROVE  /\ Loaded(ds) = Among(ds, NotIgnored)
         /\ Filtered(ds) = Among(ds, Wanted)
         /\ Kept(ds) = Among(ds, Small)
         /\ WillReview(ds) = Among(ds, Wanted \cap Present)
         /\ DispatchOf(ds) = Among(ds, Present)
<1>1. \A k \in 1..Len(ds) : ds[k] \in Diffs /\ ds[k] \in Range(ds)
  <2>1. DOMAIN ds = 1..Len(ds)
    BY LenProperties
  <2> QED
    BY <2>1, ElementOfSeq DEF Range
<1>2. Loaded(ds) = Among(ds, NotIgnored)
  <2> DEFINE K == {d \in Range(ds) : ~IsPathExcluded(setup.ignored, EffectivePath(d))}
  <2>1. \A k \in 1..Len(ds) : ds[k] \in K <=> ds[k] \in NotIgnored
    BY <1>1 DEF NotIgnored
  <2> HIDE DEF K
  <2>2. Among(ds, K) = Among(ds, NotIgnored)
    BY <2>1, AmongSame
  <2> QED
    BY <2>2 DEF Loaded, K
<1>3. Filtered(ds) = Among(ds, Wanted)
  <2> DEFINE K == {d \in Range(ds) : ShouldReview(d)}
  <2>1. \A k \in 1..Len(ds) : ds[k] \in K <=> ds[k] \in Wanted
    BY <1>1 DEF Wanted
  <2> HIDE DEF K
  <2>2. Among(ds, K) = Among(ds, Wanted)
    BY <2>1, AmongSame
  <2> QED
    BY <2>2 DEF Filtered, K
<1>4. Kept(ds) = Among(ds, Small)
  <2> DEFINE K == {d \in Range(ds) : ~TooLarge(d)}
  <2>1. \A k \in 1..Len(ds) : ds[k] \in K <=> ds[k] \in Small
    BY <1>1 DEF Small
  <2> HIDE DEF K
  <2>2. Among(ds, K) = Among(ds, Small)
    BY <2>1, AmongSame
  <2> QED
    BY <2>2 DEF Kept, K
<1>5. WillReview(ds) = Among(ds, Wanted \cap Present)
  <2> DEFINE K == {d \in Range(ds) : ShouldReview(d) /\ ~d.isDeleted}
             M == Wanted \cap Present
  <2>1. \A k \in 1..Len(ds) : ds[k] \in K <=> ds[k] \in M
    BY <1>1 DEF Wanted, Present
  <2> HIDE DEF K, M
  <2>2. Among(ds, K) = Among(ds, M)
    BY <2>1, AmongSame
  <2> QED
    BY <2>2 DEF WillReview, K, M
<1>6. DispatchOf(ds) = Among(ds, Present)
  <2> DEFINE K == {d \in Range(ds) : ~d.isDeleted}
  <2>1. \A k \in 1..Len(ds) : ds[k] \in K <=> ds[k] \in Present
    BY <1>1 DEF Present
  <2> HIDE DEF K
  <2>2. Among(ds, K) = Among(ds, Present)
    BY <2>1, AmongSame
  <2> QED
    BY <2>2 DEF DispatchOf, K
<1> QED
  BY <1>2, <1>3, <1>4, <1>5, <1>6

(* What is kept of a list of diffs is one. *)
LEMMA KeptList ==
  ASSUME NEW ds, DiffList(ds), NEW K
  PROVE  DiffList(Among(ds, K))
<1> DEFINE a == Among(ds, K)
<1>1. ds \in Seq(Diffs) /\ \A i \in 1..Len(ds) : ds[i].isDeleted <=> ds[i].newPath = DevNull
  BY DEF DiffList
<1>2. a \in Seq(Diffs) /\ \E e : Keeps(ds, Len(ds), K, a, e)
  BY <1>1, AmongEnumerates
<1> HIDE DEF a
<1>3. PICK e : Keeps(ds, Len(ds), K, a, e)
  BY <1>2
<1>4. \A j \in 1..Len(a) : a[j] = ds[e[j]] /\ e[j] \in 1..Len(ds)
  BY <1>3 DEF Keeps
<1>5. \A j \in 1..Len(a) : a[j].isDeleted <=> a[j].newPath = DevNull
  BY <1>1, <1>4
<1>6. DiffList(a)
  BY <1>2, <1>5 DEF DiffList
<1> QED
  BY <1>6 DEF a

(* The run counts and dispatches what one filter of the loaded diffs lets pass. *)
LEMMA DispatchFilters ==
  ASSUME NEW ds, DiffList(ds)
  PROVE  LET kept == Kept(Filtered(Loaded(ds)))
             told == WillReview(Loaded(ds))
         IN  /\ DiffList(kept) /\ DiffList(told) /\ DiffList(DispatchOf(kept))
             /\ told = Among(ds, NotIgnored \cap Wanted \cap Present)
             /\ DispatchOf(kept) = Among(ds, NotIgnored \cap Wanted \cap Present \cap Small)
             /\ DispatchOf(kept) = Kept(told)
<1> DEFINE N == NotIgnored
           W == Wanted
           P == Present
           M == Small
           a == Among(ds, N)
           b == Among(a, W)
           c == Among(b, M)
           t == Among(a, W \cap P)
<1>1. ds \in Seq(Diffs)
  BY DEF DiffList
<1>2. DiffList(a) /\ DiffList(b) /\ DiffList(c) /\ DiffList(t)
  <2>1. DiffList(a)
    BY KeptList
  <2> HIDE DEF a
  <2>2. DiffList(b) /\ DiffList(t)
    BY <2>1, KeptList
  <2> HIDE DEF b, t
  <2>3. DiffList(c)
    BY <2>2, KeptList
  <2> QED
    BY <2>1, <2>2, <2>3
<1>3. a \in Seq(Diffs) /\ b \in Seq(Diffs) /\ c \in Seq(Diffs) /\ t \in Seq(Diffs)
  BY <1>2 DEF DiffList
<1>4. Loaded(ds) = a
  BY <1>1, FiltersAre
<1>5. Filtered(a) = b /\ WillReview(a) = t
  <2> HIDE DEF a
  <2> QED
    BY <1>3, FiltersAre
<1>6. Kept(b) = c
  <2> HIDE DEF b
  <2> QED
    BY <1>3, FiltersAre
<1>7. DispatchOf(c) = Among(c, P)
  <2> HIDE DEF c
  <2> QED
    BY <1>3, FiltersAre
<1>8. Kept(t) = Among(t, M)
  <2> HIDE DEF t
  <2> QED
    BY <1>3, FiltersAre
<1>9. DiffList(Among(c, P))
  <2> HIDE DEF c
  <2> QED
    BY <1>2, KeptList
<1> HIDE DEF N, W, P, M
<1>10. b = Among(ds, N \cap W)
  BY <1>1, AmongTwice
<1>11. c = Among(ds, (N \cap W) \cap M)
  <2> HIDE DEF b
  <2> QED
    BY <1>1, <1>10, AmongTwice DEF c
<1>12. Among(c, P) = Among(ds, ((N \cap W) \cap M) \cap P)
  <2> HIDE DEF c
  <2> QED
    BY <1>1, <1>11, AmongTwice
<1>13. t = Among(ds, N \cap (W \cap P))
  BY <1>1, AmongTwice
<1>14. Among(t, M) = Among(ds, (N \cap (W \cap P)) \cap M)
  <2> HIDE DEF t
  <2> QED
    BY <1>1, <1>13, AmongTwice
<1>15. /\ ((N \cap W) \cap M) \cap P = ((N \cap W) \cap P) \cap M
       /\ N \cap (W \cap P) = (N \cap W) \cap P
  OBVIOUS
<1> HIDE DEF a, b, c, t
<1>16. /\ Kept(Filtered(Loaded(ds))) = c
       /\ WillReview(Loaded(ds)) = t
  BY <1>4, <1>5, <1>6
<1>17. /\ DispatchOf(c) = Among(ds, ((N \cap W) \cap P) \cap M)
       /\ Kept(t) = Among(ds, ((N \cap W) \cap P) \cap M)
       /\ t = Among(ds, (N \cap W) \cap P)
  BY <1>7, <1>8, <1>12, <1>13, <1>14, <1>15
<1>18. DiffList(DispatchOf(c))
  BY <1>7, <1>9
<1> QED
  BY <1>2, <1>16, <1>17, <1>18 DEF N, W, P, M

------------------------------------------------------------------------------
(* The rule of a path. *)

NoText == ""

(* One layer: its first entry decides, unless that entry has no text. *)
LEMMA LayerAgrees ==
  ASSUME NEW rules, DOMAIN rules \in SUBSET Nat, NEW path, NEW source,
         Matching(rules, path) = {} \/ MatchRule(rules, path) # NoText
  PROVE  /\ MatchRuleDetail(rules, path, source).rule = MatchRule(rules, path)
         /\ MatchRuleDetail(rules, path, source) = NoRule <=> MatchRule(rules, path) = NoText
<1> DEFINE M == Matching(rules, path)
           some == {i \in M : rules[i].rule # NoText}
           detail == MatchRuleDetail(rules, path, source)
<1>1. CASE M = {}
  <2>1. some = {}
    BY <1>1
  <2>2. MatchRule(rules, path) = NoText /\ detail = NoRule
    BY <1>1, <2>1 DEF MatchRule, MatchRuleDetail, NoText
  <2>3. NoRule.rule = NoText
    BY DEF NoRule, NoText
  <2> HIDE DEF detail
  <2> QED
    BY <2>2, <2>3 DEF detail
<1>2. CASE M # {}
  <2> DEFINE m == Min(M)
  <2>1. M \in SUBSET Nat
    BY DEF Matching
  <2>2. m \in M /\ \A k \in M : m <= k
    BY <1>2, <2>1, MinIsIn
  <2>3. MatchRule(rules, path) = rules[m].rule /\ rules[m].rule # NoText
    BY <1>2 DEF MatchRule
  <2>4. m \in some /\ some \in SUBSET Nat
    BY <2>1, <2>2, <2>3
  <2>5. Min(some) \in some /\ \A k \in some : Min(some) <= k
    BY <2>4, MinIsIn
  <2> DEFINE n == Min(some)
  <2>6. n \in M /\ n \in Nat /\ m \in Nat /\ n <= m /\ m <= n
    BY <2>1, <2>2, <2>4, <2>5
  <2>7. some # {}
    BY <2>4
  <2>8. detail = [rule |-> rules[n].rule, source |-> source, path |-> rules[n].path]
    BY <2>7 DEF MatchRuleDetail, NoText
  <2> HIDE DEF n, m, detail, M, some
  <2>9. detail.rule = rules[m].rule
    <3>1. n = m
      BY <2>6, SMT
    <3>2. detail.rule = rules[n].rule
      BY <2>8
    <3> QED
      BY <3>1, <3>2
  <2>10. NoRule.rule = NoText
    BY DEF NoRule, NoText
  <2>11. detail # NoRule
    BY <2>3, <2>9, <2>10
  <2> QED
    BY <2>3, <2>9, <2>11 DEF detail
<1> QED
  BY <1>1, <1>2

(* The embedded rules have a text for every path. *)
LEMMA SystemAgrees ==
  ASSUME NEW path \in Files
  PROVE  MatchRuleDetail(SystemRules, path, "system").rule = MatchRule(SystemRules, path)
<1> DEFINE M == Matching(SystemRules, path)
           some == {i \in M : SystemRules[i].rule # NoText}
<1>1. M # {} /\ some = M
  BY RulesAssumption DEF Matching, NoText
<1> QED
  BY <1>1 DEF MatchRuleDetail, MatchRule, NoText

(* What is checked of a path is what reviews it, for all layers. *)
LEMMA ShownIsUsed ==
  ASSUME NEW ls \in Seq(Layers), NEW path \in Files,
         \A l \in DOMAIN ls : Matching(ls[l].rules, path) = {} \/ MatchRule(ls[l].rules, path) # NoText
  PROVE  ResolveDetail(ls, path).rule = Resolve(ls, path)
<1> DEFINE detail(l) == MatchRuleDetail(ls[l].rules, path, Sources[l])
           text(l) == MatchRule(ls[l].rules, path)
           D == {l \in DOMAIN ls : detail(l) # NoRule}
           T == {l \in DOMAIN ls : text(l) # NoText}
<1>1. DOMAIN ls = 1..Len(ls) /\ Len(ls) \in Nat
  BY LenProperties
<1>2. ASSUME NEW l \in DOMAIN ls
      PROVE  /\ detail(l).rule = text(l)
             /\ detail(l) = NoRule <=> text(l) = NoText
  <2>1. ls[l] \in Layers
    BY <1>1, ElementOfSeq
  <2>2. ls[l].rules \in Seq([path : SUBSET Files, rule : STRING])
    BY <2>1 DEF Layers
  <2> DEFINE rules == ls[l].rules
  <2>3. DOMAIN rules \in SUBSET Nat
    <3> DEFINE n == Len(rules)
    <3>1. DOMAIN rules = 1..n /\ n \in Nat
      BY <2>2, LenProperties
    <3> HIDE DEF n, rules
    <3>2. 1..n \in SUBSET Nat
      BY <3>1
    <3> QED
      BY <3>1, <3>2
  <2>4. Matching(rules, path) = {} \/ MatchRule(rules, path) # NoText
    OBVIOUS
  <2> HIDE DEF rules
  <2>5. /\ MatchRuleDetail(rules, path, Sources[l]).rule = MatchRule(rules, path)
        /\ MatchRuleDetail(rules, path, Sources[l]) = NoRule <=> MatchRule(rules, path) = NoText
    BY <2>3, <2>4, LayerAgrees
  <2> QED
    BY <2>5 DEF rules
<1>3. Resolve(ls, path) = IF T = {} THEN MatchRule(SystemRules, path) ELSE text(Min(T))
  BY DEF Resolve, NoText
<1>4. ResolveDetail(ls, path) =
        IF D = {} THEN MatchRuleDetail(SystemRules, path, "system") ELSE detail(Min(D))
  BY DEF ResolveDetail
<1> HIDE DEF detail, text
<1>5. D = T
  BY <1>2
<1>6. CASE T = {}
  BY <1>3, <1>4, <1>5, <1>6, SystemAgrees
<1>7. CASE T # {}
  <2>1. T \in SUBSET Nat
    <3> DEFINE n == Len(ls)
    <3>1. DOMAIN ls = 1..n /\ n \in Nat
      BY <1>1
    <3> HIDE DEF n
    <3>2. DOMAIN ls \subseteq Nat
      BY <3>1
    <3>3. T \subseteq DOMAIN ls
      OBVIOUS
    <3> QED
      BY <3>2, <3>3
  <2>2. Min(T) \in T
    BY <1>7, <2>1, MinIsIn
  <2>3. detail(Min(T)).rule = text(Min(T))
    BY <1>2, <2>2
  <2> QED
    BY <1>3, <1>4, <1>5, <1>7, <2>3
<1> QED
  BY <1>6, <1>7

LEMMA RulesAgree == setup \in Setups => RuleShownIsRuleUsed
<1> SUFFICES ASSUME setup \in Setups, NEW path \in Files, ~FirstEntryEmpty(path)
             PROVE  ResolveDetail(layers, path).rule = Resolve(layers, path)
  BY DEF RuleShownIsRuleUsed
<1>1. layers \in Seq(Layers)
  BY DiffAssumption DEF layers
<1>2. \A l \in DOMAIN layers :
        Matching(layers[l].rules, path) = {} \/ MatchRule(layers[l].rules, path) # NoText
  BY DEF FirstEntryEmpty, NoText
<1> QED
  BY <1>1, <1>2, ShownIsUsed

------------------------------------------------------------------------------
(* One file's part of the repository. *)

(* The filters on the path alone let f pass. *)
Admitted(f) == WhyExcluded(FileFilter(layers), f, FALSE) = NoText

LEMMA ReviewableIs ==
  ASSUME NEW f
  PROVE  Reviewable(f) <=>
           /\ f \notin touched \cup setup.ignored
           /\ \A c \in {worktree[f], index[f], Committed[f]} : PlainText(c)
           /\ Admitted(f)
BY Zenon DEF Reviewable, Admitted, NoText

LEMMA AdmittedStays ==
  ASSUME NEW f, UNCHANGED setup
  PROVE  Admitted(f)' <=> Admitted(f)
<1>1. layers' = layers
  BY DEF layers
<1>2. FileFilter(layers)' = FileFilter(layers)
  BY <1>1 DEF FileFilter
<1> QED
  BY <1>1, <1>2 DEF Admitted, WhyExcluded, IsUserExcluded, IsUserIncluded

(* What a step leaves of a file: under review after the step, it was before, and
   with the same contents. *)
LEMMA FileStays ==
  ASSUME NEW f \in Files, UNCHANGED <<mode, setup, hasHead>>, touched \subseteq touched',
         f \notin touched' => worktree'[f] = worktree[f] /\ index'[f] = index[f],
         Reviewable(f)'
  PROVE  /\ Reviewable(f)
         /\ Changed(f)' <=> Changed(f)
         /\ worktree'[f] = worktree[f] /\ index'[f] = index[f]
<1>1. /\ f \notin touched' \cup setup'.ignored
      /\ \A c \in {worktree'[f], index'[f], Committed[f]} : PlainText(c)
      /\ Admitted(f)'
  BY DEF Reviewable, Admitted, NoText
<1>2. Admitted(f)
  BY <1>1, AdmittedStays
<1>3. worktree'[f] = worktree[f] /\ index'[f] = index[f]
  BY <1>1
<1>4. Reviewable(f)
  BY <1>1, <1>2, <1>3, ReviewableIs
<1>5. Changed(f)' <=> Changed(f)
  BY <1>3 DEF Changed
<1> QED
  BY <1>3, <1>4, <1>5

(* A step that leaves alone what it does not mark as touched. *)
Apart ==
  /\ UNCHANGED <<mode, setup, hasHead>>
  /\ touched \subseteq touched'
  /\ \A f \in Files \ touched' : worktree'[f] = worktree[f] /\ index'[f] = index[f]

LEMMA RepoApart == UNCHANGED repo => Apart
BY DEF repo, Apart

LEMMA ApartKeeps ==
  ASSUME Apart, NEW f \in Files, Reviewable(f)'
  PROVE  /\ Reviewable(f)
         /\ Changed(f)' <=> Changed(f)
         /\ worktree'[f] = worktree[f] /\ index'[f] = index[f] /\ hasHead' = hasHead
BY FileStays DEF Apart

(* What ChangesReviewedOnce says of one file. *)
ReviewedOnce(f) ==
  /\ Changed(f) => \/ TimesQueued(f) = 1
                  \/ \E i \in DOMAIN announced : announced[i].newPath = f /\ TooLarge(announced[i])
  /\ TimesQueued(f) > 0 => worktree[f] # Committed[f] \/ index[f] # Committed[f] \/ ~hasHead
  /\ TimesQueued(f) <= 1

LEMMA ReviewedIs ==
  ChangesReviewedOnce <=>
    /\ at \in {"review", "done"} /\ swallowed = {} =>
         \A f \in Files : Reviewable(f) => ReviewedOnce(f)
    /\ at \in {"review", "done"} => queue = Kept(announced)
BY DEF ChangesReviewedOnce, ReviewedOnce

LEMMA ReviewedStays ==
  ASSUME ChangesReviewedOnce, Apart, UNCHANGED <<queue, announced, swallowed>>,
         at' \in {"review", "done"} => at \in {"review", "done"}
  PROVE  ChangesReviewedOnce'
<1>1. ASSUME at' \in {"review", "done"} PROVE queue' = Kept(announced')
  BY <1>1, ReviewedIs
<1>2. ASSUME at' \in {"review", "done"}, swallowed' = {}, NEW f \in Files, Reviewable(f)'
      PROVE  ReviewedOnce(f)'
  <2>1. ReviewedOnce(f)
    BY <1>2, ApartKeeps, ReviewedIs
  <2>2. TimesQueued(f)' = TimesQueued(f)
    BY DEF TimesQueued
  <2>3. /\ Changed(f)' <=> Changed(f)
        /\ worktree'[f] = worktree[f] /\ index'[f] = index[f] /\ hasHead' = hasHead
    BY <1>2, ApartKeeps
  <2> QED
    BY <2>1, <2>2, <2>3 DEF ReviewedOnce
<1> QED
  BY <1>1, <1>2 DEF ChangesReviewedOnce, ReviewedOnce

LEMMA NotYetReviewed ==
  ASSUME at' \notin {"review", "done"}
  PROVE  ChangesReviewedOnce'
BY DEF ChangesReviewedOnce

(* Two lists of diffs that show the same files. *)
SameDiffs == /\ Len(diffs') = Len(diffs)
             /\ \A i \in 1..Len(diffs) : /\ diffs'[i].newPath = diffs[i].newPath
                                        /\ diffs'[i].isBinary = diffs[i].isBinary

(* What is known of a file stays known while its contents and the diffs do. *)
LEMMA FollowedStays ==
  ASSUME NEW f \in Files, Followed(f), SameDiffs, UNCHANGED <<listed, at, hasHead>>,
         worktree'[f] = worktree[f], index'[f] = index[f], Changed(f)' <=> Changed(f)
  PROVE  Followed(f)'
<1>1. Shows(f)' <=> Shows(f)
  BY DEF Shows, SameDiffs
<1>2. ToList(f)' <=> ToList(f)
  BY DEF ToList
<1>3. /\ \A i, j \in 1..Len(diffs') : diffs'[i].newPath = f /\ diffs'[j].newPath = f => i = j
      /\ \A i \in 1..Len(diffs') : diffs'[i].newPath = f => ~diffs'[i].isBinary
  BY DEF SameDiffs, Followed
<1> QED
  BY <1>1, <1>2, <1>3 DEF Followed

LEMMA FollowingStays ==
  ASSUME Following, Apart, SameDiffs, UNCHANGED <<listed, at, swallowed>>
  PROVE  Following'
<1> SUFFICES ASSUME swallowed = {}
             PROVE  /\ at = "staged" => NoneTracked'
                    /\ at \in {"list", "read", "parse"} =>
                         \A f \in Files : Reviewable(f)' => Followed(f)'
  BY DEF Following
<1>1. ASSUME at = "staged" PROVE NoneTracked'
  <2>1. NoneTracked
    BY <1>1 DEF Following
  <2> QED
    BY <2>1 DEF NoneTracked, Apart
<1>2. ASSUME at \in {"list", "read", "parse"}, NEW f \in Files, Reviewable(f)'
      PROVE  Followed(f)'
  <2>1. /\ Reviewable(f)
        /\ Changed(f)' <=> Changed(f)
        /\ worktree'[f] = worktree[f] /\ index'[f] = index[f] /\ hasHead' = hasHead
    BY <1>2, ApartKeeps
  <2>2. Followed(f)
    BY <1>2, <2>1 DEF Following
  <2> QED
    BY <2>1, <2>2, FollowedStays
<1> QED
  BY <1>1, <1>2

LEMMA NotFollowing ==
  ASSUME at' \notin {"staged", "list", "read", "parse"}
  PROVE  Following'
BY DEF Following

LEMMA StagesStay ==
  ASSUME Stages, UNCHANGED <<mode, hasHead, at, listed>>, diffs = <<>> => diffs' = <<>>
  PROVE  Stages'
BY DEF Stages

(* A step of the semaphore, or of nothing. *)
LEMMA OutsideKeeps ==
  ASSUME LoadInv, RunnerInv', UNCHANGED <<repo, load, comment>>
  PROVE  LoadInv'
<1>1. Apart
  BY RepoApart
<1>2. /\ at' = at /\ swallowed' = swallowed /\ failures' = failures /\ listed' = listed
      /\ diffs' = diffs /\ parsed' = parsed /\ announced' = announced /\ queue' = queue
      /\ calling' = calling
  BY DEF load
<1>3. /\ mode' = mode /\ setup' = setup /\ hasHead' = hasHead /\ worktree' = worktree
      /\ index' = index /\ edits' = edits /\ touched' = touched
  BY DEF repo
<1>4. SameDiffs
  BY <1>2 DEF SameDiffs
<1>5. Following'
  BY <1>1, <1>2, <1>4, FollowingStays DEF LoadInv
<1>6. ChangesReviewedOnce'
  BY <1>1, <1>2, ReviewedStays DEF LoadInv
<1>7. Stages'
  BY <1>2, <1>3, StagesStay DEF LoadInv
<1>8. Typing'
  BY <1>2, <1>3 DEF LoadInv, RunnerInv, Typing, TypeOK, DiffList
<1> QED
  BY <1>5, <1>6, <1>7, <1>8 DEF LoadInv

------------------------------------------------------------------------------
(* The steps. *)

LEMMA MainCalls == Main \in Callers /\ Files \subseteq Callers
BY DiffAssumption

LEMMA Bounds == MaxEdits \in Nat /\ MaxFaults \in Nat
BY DiffAssumption, Zenon

LEMMA RunnerKeeps ==
  ASSUME LoadInv, NEW c \in Callers,
         \/ StartGit
         \/ GetToken(c) \/ GiveUp(c)
         \/ c \in Files /\ (ToolAnswered(c) \/ FileTimesOut(c))
  PROVE  LoadInv'
<1>1. RunnerInv
  BY DEF LoadInv
<1>2. UNCHANGED <<repo, load, comment>>
  BY DEF StartGit, GetToken, GiveUp, ToolAnswered, FileTimesOut
<1>3. CASE StartGit
  BY <1>1, <1>2, <1>3, MainCalls, SameRun, OutsideKeeps DEF StartGit
<1>4. CASE GetToken(c)
  BY <1>1, <1>2, <1>4, OneMoreRuns, OutsideKeeps DEF GetToken
<1>5. CASE GiveUp(c)
  BY <1>1, <1>2, <1>5, SameRun, OutsideKeeps DEF GiveUp
<1>6. CASE ToolAnswered(c)
  BY <1>1, <1>2, <1>6, OneLessRuns, OutsideKeeps DEF ToolAnswered
<1>7. CASE FileTimesOut(c)
  BY <1>1, <1>2, <1>7, SameRun, OutsideKeeps DEF FileTimesOut
<1> QED
  BY <1>3, <1>4, <1>5, <1>6, <1>7

LEMMA UserKeeps ==
  ASSUME LoadInv, NEW f \in Files, Edit(f) \/ GitAdd(f) \/ GitRmCached(f)
  PROVE  LoadInv'
<1>1. /\ MayTouch /\ edits < MaxEdits
      /\ edits' = edits + 1 /\ touched' = touched \cup {f}
      /\ UNCHANGED <<runner, mode, setup, hasHead, load, comment>>
  BY DEF Edit, GitAdd, GitRmCached, UserStep
<1>2. /\ at' = at /\ swallowed' = swallowed /\ failures' = failures /\ listed' = listed
      /\ diffs' = diffs /\ parsed' = parsed /\ announced' = announced /\ queue' = queue
      /\ calling' = calling
  BY <1>1 DEF load
<1>3. /\ worktree \in [Files -> Content] /\ index \in [Files -> Content]
  BY DEF LoadInv, Typing, TypeOK, Content
<1>4. \/ /\ \E c \in Content : worktree' = [worktree EXCEPT ![f] = c]
         /\ index' = index
      \/ /\ \E c \in Content : index' = [index EXCEPT ![f] = c]
         /\ worktree' = worktree
  <2>1. CASE Edit(f)
    BY <2>1 DEF Edit, Content
  <2>2. CASE GitAdd(f)
    BY <1>3, <2>2 DEF GitAdd
  <2>3. CASE GitRmCached(f)
    BY <2>3 DEF GitRmCached, Content
  <2> QED
    BY <2>1, <2>2, <2>3
<1>5. /\ worktree' \in [Files -> Content] /\ index' \in [Files -> Content]
      /\ \A g \in Files \ {f} : worktree'[g] = worktree[g] /\ index'[g] = index[g]
  BY <1>3, <1>4
<1>6. Apart
  BY <1>1, <1>5 DEF Apart
<1>7. SameDiffs
  BY <1>2 DEF SameDiffs
<1>8. Following'
  BY <1>2, <1>6, <1>7, FollowingStays DEF LoadInv
<1>9. ChangesReviewedOnce'
  BY <1>2, <1>6, ReviewedStays DEF LoadInv
<1>10. Stages'
  BY <1>1, <1>2, StagesStay DEF LoadInv
<1>11. RunnerInv'
  BY <1>1, RunnerStutters DEF LoadInv
<1>12. edits' \in 0..MaxEdits
  BY <1>1, Bounds DEF LoadInv, Typing, TypeOK
<1>13. Typing'
  BY <1>1, <1>2, <1>5, <1>11, <1>12 DEF LoadInv, RunnerInv, Typing, TypeOK, DiffList, Content
<1> QED
  BY <1>8, <1>9, <1>10, <1>11, <1>13 DEF LoadInv

LEMMA LoadBeginsKeeps == LoadInv /\ LoadBegins => LoadInv'
<1> SUFFICES ASSUME LoadInv, LoadBegins PROVE LoadInv'
  OBVIOUS
<1>1. /\ at = "start" /\ at' \in {"diff", "base"} /\ (mode = "workspace" => at' = "diff")
      /\ touched' = {}
      /\ UNCHANGED <<runner, mode, setup, hasHead, worktree, index, edits, swallowed, failures,
                     listed, diffs, parsed, announced, queue, calling, comment>>
  BY DEF LoadBegins, GoTo
<1>2. RunnerInv'
  BY <1>1, RunnerStutters DEF LoadInv
<1>3. Stages'
  BY <1>1 DEF LoadInv, Stages
<1>4. Following' /\ ChangesReviewedOnce'
  BY <1>1, NotFollowing, NotYetReviewed
<1>5. Typing'
  BY <1>1, <1>2 DEF LoadInv, RunnerInv, Typing, TypeOK, DiffList
<1> QED
  BY <1>2, <1>3, <1>4, <1>5 DEF LoadInv

LEMMA CallEnds == ASSUME LoadInv, Finish(Main) PROVE RunnerInv'
BY MainCalls, OneLessRuns DEF LoadInv

LEMMA FailuresCounted == LoadInv /\ (GitFails \/ GitWorks) => failures' \in 0..MaxFaults
BY Bounds DEF LoadInv, Typing, TypeOK, GitFails, GitWorks

(* The git commands of the load share what they leave alone. *)
LEMMA CommandTypes ==
  ASSUME LoadInv, RunnerInv', UNCHANGED <<repo, parsed, announced, queue, calling, comment>>,
         failures' \in 0..MaxFaults, DiffList(diffs'), listed' \subseteq Files,
         swallowed' \subseteq {"diff", "list"},
         at' \in {"diff", "staged", "list", "read", "parse", "failed"}
  PROVE  Typing'
<1>1. /\ mode' = mode /\ setup' = setup /\ hasHead' = hasHead /\ worktree' = worktree
      /\ index' = index /\ edits' = edits /\ touched' = touched
  BY DEF repo
<1>2. \A i \in DOMAIN diffs' : /\ diffs'[i].oldPath \in Files
                              /\ diffs'[i].newPath \in Files \cup {DevNull}
                              /\ diffs'[i].isDeleted <=> diffs'[i].newPath = DevNull
  <2>1. DOMAIN diffs' = 1..Len(diffs')
    BY LenProperties DEF DiffList
  <2>2. \A i \in 1..Len(diffs') : diffs'[i] \in Diffs
    BY ElementOfSeq DEF DiffList
  <2> QED
    BY <2>1, <2>2 DEF DiffList, Diffs
<1> QED
  BY <1>1, <1>2 DEF LoadInv, RunnerInv, Typing, TypeOK, DiffList

LEMMA MergeBaseKeeps == LoadInv /\ MergeBase => LoadInv'
<1> SUFFICES ASSUME LoadInv, MergeBase PROVE LoadInv'
  OBVIOUS
<1>1. /\ at = "base" /\ Finish(Main) /\ (GitWorks \/ GitFails) /\ at' \in {"diff", "failed"}
      /\ UNCHANGED <<repo, swallowed, listed, diffs, parsed, announced, queue, calling, comment>>
  BY DEF MergeBase, GoTo
<1>2. RunnerInv' /\ failures' \in 0..MaxFaults
  BY <1>1, CallEnds, FailuresCounted
<1>3. Stages'
  BY <1>1 DEF LoadInv, Stages, repo
<1>4. Following' /\ ChangesReviewedOnce'
  BY <1>1, NotFollowing, NotYetReviewed
<1>5. DiffList(diffs') /\ listed' \subseteq Files /\ swallowed' \subseteq {"diff", "list"}
  BY <1>1 DEF LoadInv, Typing, TypeOK, DiffList
<1>6. Typing'
  BY <1>1, <1>2, <1>5, CommandTypes
<1> QED
  BY <1>2, <1>3, <1>4, <1>6 DEF LoadInv

LEMMA Trees ==
  ASSUME LoadInv
  PROVE  /\ worktree \in [Files -> Content] /\ index \in [Files -> Content]
         /\ Committed \in [Files -> Content] /\ NoFile \in [Files -> Content]
         /\ OnlyIn(worktree, InIndex) \in [Files -> Content]
         /\ \A f \in Files : NoFile[f] = Absent
         /\ \A f \in Files : OnlyIn(worktree, InIndex)[f] =
                               IF index[f] # Absent THEN worktree[f] ELSE Absent
<1>1. /\ worktree \in [Files -> Content] /\ index \in [Files -> Content]
      /\ Committed \in [Files -> Content] /\ Absent \in Content
  BY DiffAssumption DEF LoadInv, Typing, TypeOK, Content
<1>2. NoFile \in [Files -> Content] /\ \A f \in Files : NoFile[f] = Absent
  BY <1>1 DEF NoFile
<1>3. /\ OnlyIn(worktree, InIndex) \in [Files -> Content]
      /\ \A f \in Files : OnlyIn(worktree, InIndex)[f] =
                            IF index[f] # Absent THEN worktree[f] ELSE Absent
  BY <1>1 DEF OnlyIn, InIndex
<1> QED
  BY <1>1, <1>2, <1>3

LEMMA AbsentPlain == PlainText(Absent)
BY DEF PlainText, Absent, Text

(* What is known of a file once git has compared two trees that are plain there. *)
LEMMA FollowedFrom ==
  ASSUME NEW old, NEW new, Compares(diffs', old, new), NEW f \in Files,
         PlainText(old[f]), PlainText(new[f]), listed' = {},
         old[f] # new[f] /\ new[f] # Absent =>
           /\ worktree'[f] # Committed[f] \/ index'[f] # Committed[f] \/ ~hasHead'
           /\ ~ToList(f)',
         Changed(f)' => (old[f] # new[f] /\ new[f] # Absent) \/ ToList(f)'
  PROVE  Followed(f)'
<1>1. Shows(f)' <=> old[f] # new[f] /\ new[f] # Absent
  BY DEF Compares, Shows
<1>2. \A i, j \in 1..Len(diffs') : diffs'[i].newPath = f /\ diffs'[j].newPath = f => i = j
  BY DEF Compares
<1>3. \A i \in 1..Len(diffs') : diffs'[i].newPath = f => ~diffs'[i].isBinary
  BY DEF Compares
<1>4. /\ Shows(f)' => worktree'[f] # Committed[f] \/ index'[f] # Committed[f] \/ ~hasHead'
      /\ Changed(f)' => Shows(f)' \/ ToList(f)' \/ f \in listed'
      /\ f \in listed' => worktree'[f] # Absent /\ index'[f] = Absent
      /\ Shows(f)' => ~ToList(f)' /\ f \notin listed'
  BY <1>1
<1> QED
  BY <1>2, <1>3, <1>4 DEF Followed

(* A file under review after a step that leaves the repository alone. *)
LEMMA StillReviewable ==
  ASSUME UNCHANGED repo, NEW f \in Files, Reviewable(f)'
  PROVE  /\ f \notin touched \cup setup.ignored
         /\ PlainText(worktree[f]) /\ PlainText(index[f]) /\ PlainText(Committed[f])
         /\ Reviewable(f)
         /\ Changed(f)' <=> Changed(f)
<1>1. Reviewable(f) /\ (Changed(f)' <=> Changed(f))
  BY RepoApart, ApartKeeps
<1> QED
  BY <1>1, ReviewableIs

LEMMA RangeDiffKeeps == LoadInv /\ RangeDiff => LoadInv'
<1> SUFFICES ASSUME LoadInv, RangeDiff PROVE LoadInv'
  OBVIOUS
<1>1. /\ at = "diff" /\ mode = "range" /\ Finish(Main) /\ (GitWorks \/ GitFails)
      /\ \/ at' = "parse" /\ diffs' = DiffRange
         \/ at' = "failed" /\ diffs' = diffs
      /\ UNCHANGED <<repo, swallowed, listed, parsed, announced, queue, calling, comment>>
  BY DEF RangeDiff, GoTo
<1>2. /\ mode' = mode /\ hasHead' = hasHead /\ worktree' = worktree /\ index' = index
      /\ hasHead /\ listed = {} /\ diffs = <<>>
  BY <1>1 DEF repo, LoadInv, Stages
<1>3. RunnerInv' /\ failures' \in 0..MaxFaults
  BY <1>1, CallEnds, FailuresCounted
<1>4. Compares(DiffRange, Committed, worktree)
  BY Trees, GitCompares DEF DiffRange
<1>5. Typing'
  <2>1. DiffList(diffs')
    BY <1>1, <1>4 DEF LoadInv, Typing, Compares
  <2>2. listed' \subseteq Files /\ swallowed' \subseteq {"diff", "list"}
    BY <1>1 DEF LoadInv, Typing, TypeOK
  <2> QED
    BY <1>1, <1>3, <2>1, <2>2, CommandTypes
<1>6. Stages'
  BY <1>1, <1>2 DEF LoadInv, Stages
<1>7. ChangesReviewedOnce'
  BY <1>1, NotYetReviewed
<1>8. Following'
  <2>1. CASE at' = "failed"
    BY <2>1, NotFollowing
  <2>2. CASE at' = "parse"
    <3> SUFFICES ASSUME NEW f \in Files, Reviewable(f)' PROVE Followed(f)'
      BY <2>2 DEF Following
    <3>1. PlainText(worktree[f]) /\ PlainText(Committed[f]) /\ (Changed(f)' <=> Changed(f))
      BY <1>1, StillReviewable
    <3>2. ~ToList(f)'
      BY <2>2 DEF ToList
    <3>3. Changed(f) => Committed[f] # worktree[f] /\ worktree[f] # Absent
      BY <1>1, <1>2 DEF Changed
    <3>4. diffs' = DiffRange /\ listed' = {}
      BY <1>1, <1>2, <2>2
    <3> QED
      BY <1>2, <1>4, <3>1, <3>2, <3>3, <3>4, FollowedFrom
  <2> QED
    BY <1>1, <2>1, <2>2
<1> QED
  BY <1>3, <1>5, <1>6, <1>7, <1>8 DEF LoadInv

LEMMA TrackedDiffKeeps == LoadInv /\ TrackedDiff => LoadInv'
<1> SUFFICES ASSUME LoadInv, TrackedDiff PROVE LoadInv'
  OBVIOUS
<1>1. /\ at = "diff" /\ mode = "workspace" /\ Finish(Main) /\ (GitWorks \/ GitFails)
      /\ UNCHANGED <<repo, listed, parsed, announced, queue, calling, comment>>
      /\ \/ /\ hasHead /\ diffs' = DiffHead /\ swallowed' = swallowed
            /\ at' = IF diffs' = <<>> THEN "staged" ELSE "list"
         \/ /\ hasHead => swallowed' = swallowed \cup {"diff"}
            /\ ~hasHead => swallowed' = swallowed
            /\ at' = "staged" /\ diffs' = diffs
  BY DEF TrackedDiff, GoTo
<1>2. /\ mode' = mode /\ hasHead' = hasHead /\ worktree' = worktree /\ index' = index
      /\ touched' = touched /\ listed = {} /\ diffs = <<>> /\ listed' = {}
  BY <1>1 DEF repo, LoadInv, Stages
<1>3. RunnerInv' /\ failures' \in 0..MaxFaults
  BY <1>1, CallEnds, FailuresCounted
<1> DEFINE tree == OnlyIn(worktree, InIndex)
<1>4. Compares(DiffHead, Committed, tree)
  BY Trees, GitCompares DEF DiffHead
<1>5. \A f \in Files : tree[f] = IF index[f] # Absent THEN worktree[f] ELSE Absent
  BY Trees
<1> HIDE DEF tree
<1>6. Typing'
  <2>1. DiffList(diffs')
    BY <1>1, <1>4 DEF LoadInv, Typing, Compares
  <2>2. listed' \subseteq Files /\ swallowed' \subseteq {"diff", "list"}
    BY <1>1 DEF LoadInv, Typing, TypeOK
  <2>3. at' \in {"staged", "list"}
    BY <1>1
  <2> QED
    BY <1>1, <1>3, <2>1, <2>2, <2>3, CommandTypes
<1>7. Stages'
  BY <1>1, <1>2 DEF LoadInv, Stages
<1>8. ChangesReviewedOnce'
  BY <1>1, NotYetReviewed
<1>9. Following'
  <2>1. CASE at' = "staged"
    <3> SUFFICES ASSUME swallowed' = {}, hasHead, NEW f \in Files \ touched,
                        index[f] # Absent, worktree[f] # Absent
                 PROVE  worktree[f] = Committed[f]
      BY <1>2, <2>1 DEF Following, NoneTracked
    <3>1. diffs' = DiffHead /\ diffs' = <<>>
      BY <1>1, <2>1
    <3>2. ~(Committed[f] # tree[f] /\ tree[f] # Absent)
      <4>1. Len(diffs') = 0
        BY <3>1
      <4> QED
        BY <1>4, <3>1, <4>1 DEF Compares
    <3> QED
      BY <1>5, <3>2
  <2>2. CASE at' = "list"
    <3> SUFFICES ASSUME NEW f \in Files, Reviewable(f)' PROVE Followed(f)'
      BY <2>2 DEF Following
    <3>1. /\ PlainText(worktree[f]) /\ PlainText(Committed[f]) /\ PlainText(tree[f])
          /\ Changed(f)' <=> Changed(f)
      BY <1>1, <1>5, StillReviewable, AbsentPlain
    <3>2. hasHead /\ diffs' = DiffHead
      BY <1>1, <2>2
    <3>3. ToList(f)' <=> worktree[f] # Absent /\ index[f] = Absent
      BY <1>2, <2>2 DEF ToList
    <3>4. Changed(f)' => (Committed[f] # tree[f] /\ tree[f] # Absent) \/ ToList(f)'
      BY <1>5, <3>1, <3>2, <3>3 DEF Changed
    <3>5. Committed[f] # tree[f] /\ tree[f] # Absent =>
            /\ worktree'[f] # Committed[f] \/ index'[f] # Committed[f] \/ ~hasHead'
            /\ ~ToList(f)'
      BY <1>2, <1>5, <3>3
    <3> QED
      BY <1>2, <1>4, <3>1, <3>2, <3>4, <3>5, FollowedFrom
  <2> QED
    BY <1>1, <2>1, <2>2
<1> QED
  BY <1>3, <1>6, <1>7, <1>8, <1>9 DEF LoadInv

LEMMA StagedDiffKeeps == LoadInv /\ StagedDiff => LoadInv'
<1> SUFFICES ASSUME LoadInv, StagedDiff PROVE LoadInv'
  OBVIOUS
<1>1. /\ at = "staged" /\ Finish(Main) /\ (GitWorks \/ GitFails)
      /\ \/ at' = "list" /\ diffs' = DiffStaged
         \/ at' = "failed" /\ diffs' = diffs
      /\ UNCHANGED <<repo, swallowed, listed, parsed, announced, queue, calling, comment>>
  BY DEF StagedDiff, GoTo
<1>2. /\ mode' = mode /\ hasHead' = hasHead /\ worktree' = worktree /\ index' = index
      /\ mode = "workspace" /\ listed = {} /\ listed' = {} /\ diffs = <<>>
  BY <1>1 DEF repo, LoadInv, Stages, Typing, TypeOK
<1>3. RunnerInv' /\ failures' \in 0..MaxFaults
  BY <1>1, CallEnds, FailuresCounted
<1> DEFINE tree == IF hasHead THEN Committed ELSE NoFile
<1>4. /\ Compares(DiffStaged, tree, index)
      /\ \A f \in Files : tree[f] = IF hasHead THEN Committed[f] ELSE Absent
  <2>1. tree \in [Files -> Content] /\ index \in [Files -> Content]
    BY Trees
  <2>2. Compares(GitDiff(tree, index), tree, index)
    <3> HIDE DEF tree
    <3> QED
      BY <2>1, GitCompares
  <2>3. \A f \in Files : tree[f] = IF hasHead THEN Committed[f] ELSE Absent
    BY Trees
  <2> QED
    BY <2>2, <2>3 DEF DiffStaged
<1> HIDE DEF tree
<1>5. Typing'
  <2>1. DiffList(diffs')
    BY <1>1, <1>4 DEF LoadInv, Typing, Compares
  <2>2. listed' \subseteq Files /\ swallowed' \subseteq {"diff", "list"}
    BY <1>1 DEF LoadInv, Typing, TypeOK
  <2> QED
    BY <1>1, <1>3, <2>1, <2>2, CommandTypes
<1>6. Stages'
  BY <1>1, <1>2 DEF LoadInv, Stages
<1>7. ChangesReviewedOnce'
  BY <1>1, NotYetReviewed
<1>8. Following'
  <2>1. CASE at' = "failed"
    BY <2>1, NotFollowing
  <2>2. CASE at' = "list"
    <3> SUFFICES ASSUME swallowed' = {}, NEW f \in Files, Reviewable(f)' PROVE Followed(f)'
      BY <2>2 DEF Following
    <3>1. /\ f \notin touched
          /\ PlainText(index[f]) /\ PlainText(Committed[f]) /\ PlainText(tree[f])
          /\ Changed(f)' <=> Changed(f)
      BY <1>1, <1>4, StillReviewable, AbsentPlain
    <3>2. NoneTracked
      BY <1>1 DEF LoadInv, Following
    <3>3. hasHead /\ index[f] # Absent /\ worktree[f] # Absent => worktree[f] = Committed[f]
      BY <3>1, <3>2 DEF NoneTracked
    <3>4. ToList(f)' <=> worktree[f] # Absent /\ index[f] = Absent
      BY <1>2, <2>2 DEF ToList
    <3>5. Changed(f)' => (tree[f] # index[f] /\ index[f] # Absent) \/ ToList(f)'
      <4> SUFFICES ASSUME Changed(f), index[f] # Absent PROVE tree[f] # index[f]
        BY <3>1, <3>4 DEF Changed
      <4>1. worktree[f] # Absent /\ (hasHead => worktree[f] # Committed[f])
        BY DEF Changed
      <4>2. ~hasHead
        BY <3>3, <4>1
      <4> QED
        BY <1>4, <4>2
    <3>6. tree[f] # index[f] /\ index[f] # Absent =>
            /\ worktree'[f] # Committed[f] \/ index'[f] # Committed[f] \/ ~hasHead'
            /\ ~ToList(f)'
      BY <1>2, <1>4, <3>4
    <3>7. diffs' = DiffStaged
      BY <1>1, <2>2
    <3> QED
      BY <1>2, <1>4, <3>1, <3>5, <3>6, <3>7, FollowedFrom
  <2> QED
    BY <1>1, <2>1, <2>2
<1> QED
  BY <1>3, <1>5, <1>6, <1>7, <1>8 DEF LoadInv

LEMMA ListUntrackedKeeps == LoadInv /\ ListUntracked => LoadInv'
<1> SUFFICES ASSUME LoadInv, ListUntracked PROVE LoadInv'
  OBVIOUS
<1>1. /\ at = "list" /\ at' = "read" /\ Finish(Main) /\ (GitWorks \/ GitFails)
      /\ \/ /\ swallowed' = swallowed
            /\ listed' = {f \in Files : /\ worktree[f] # Absent /\ index[f] = Absent
                                        /\ f \notin setup.ignored}
         \/ swallowed' = swallowed \cup {"list"} /\ listed' = listed
      /\ UNCHANGED <<repo, diffs, parsed, announced, queue, calling, comment>>
  BY DEF ListUntracked, GoTo, IsPathExcluded
<1>2. /\ mode' = mode /\ hasHead' = hasHead /\ worktree' = worktree /\ index' = index
      /\ mode = "workspace" /\ listed = {}
  BY <1>1 DEF repo, LoadInv, Stages, Typing, TypeOK
<1>3. RunnerInv' /\ failures' \in 0..MaxFaults
  BY <1>1, CallEnds, FailuresCounted
<1>4. Typing'
  <2>1. DiffList(diffs')
    BY <1>1 DEF LoadInv, Typing, DiffList
  <2>2. listed' \subseteq Files /\ swallowed' \subseteq {"diff", "list"}
    BY <1>1 DEF LoadInv, Typing, TypeOK
  <2> QED
    BY <1>1, <1>3, <2>1, <2>2, CommandTypes
<1>5. Stages'
  BY <1>1, <1>2 DEF LoadInv, Stages
<1>6. ChangesReviewedOnce'
  BY <1>1, NotYetReviewed
<1>7. Following'
  <2> SUFFICES ASSUME swallowed' = {}, NEW f \in Files, Reviewable(f)' PROVE Followed(f)'
    BY <1>1 DEF Following
  <2>1. /\ swallowed = {} /\ diffs' = diffs
        /\ listed' = {g \in Files : /\ worktree[g] # Absent /\ index[g] = Absent
                                    /\ g \notin setup.ignored}
    BY <1>1
  <2>2. f \notin setup.ignored /\ Reviewable(f) /\ (Changed(f)' <=> Changed(f))
    BY <1>1, StillReviewable
  <2>3. Followed(f)
    BY <1>1, <2>1, <2>2 DEF LoadInv, Following
  <2>4. f \in listed' <=> worktree[f] # Absent /\ index[f] = Absent
    BY <2>1, <2>2
  <2>5. /\ ToList(f) <=> f \in listed'
        /\ ~ToList(f)'
        /\ Shows(f)' <=> Shows(f)
    BY <1>1, <2>1, <2>4 DEF ToList, Shows
  <2>6. /\ \A i, j \in 1..Len(diffs') : diffs'[i].newPath = f /\ diffs'[j].newPath = f => i = j
        /\ \A i \in 1..Len(diffs') : diffs'[i].newPath = f => ~diffs'[i].isBinary
    BY <2>1, <2>3 DEF Followed
  <2>7. /\ Shows(f)' => worktree'[f] # Committed[f] \/ index'[f] # Committed[f] \/ ~hasHead'
        /\ Changed(f)' => Shows(f)' \/ f \in listed'
        /\ f \in listed' => worktree'[f] # Absent /\ index'[f] = Absent
        /\ Shows(f)' => f \notin listed'
    BY <1>2, <2>2, <2>3, <2>4, <2>5 DEF Followed
  <2> QED
    BY <2>5, <2>6, <2>7 DEF Followed
<1> QED
  BY <1>3, <1>4, <1>5, <1>6, <1>7 DEF LoadInv

LEMMA ReadUntrackedKeeps == LoadInv /\ ReadUntracked => LoadInv'
<1> SUFFICES ASSUME LoadInv, ReadUntracked PROVE LoadInv'
  OBVIOUS
<1>1. PICK g \in listed :
        /\ at = "read" /\ listed' = listed \ {g}
        /\ diffs' = IF worktree[g] = Absent THEN diffs ELSE Append(diffs, UntrackedDiff(g))
        /\ UNCHANGED <<runner, repo, at, swallowed, failures, parsed, announced, queue, calling, comment>>
  BY DEF ReadUntracked
<1>2. /\ mode' = mode /\ hasHead' = hasHead /\ worktree' = worktree /\ index' = index
      /\ mode = "workspace" /\ g \in Files /\ listed' \subseteq Files
  BY <1>1 DEF repo, LoadInv, Stages, Typing, TypeOK
<1>3. RunnerInv'
  BY <1>1, RunnerStutters DEF LoadInv
<1> DEFINE d == UntrackedDiff(g)
           n == Len(diffs)
<1>4. worktree[g] # Absent =>
        /\ d \in Diffs /\ d.newPath = g /\ ~d.isDeleted
        /\ PlainText(worktree[g]) => ~d.isBinary
  <2> SUFFICES ASSUME worktree[g] # Absent
               PROVE  /\ d \in Diffs /\ d.newPath = g /\ ~d.isDeleted
                      /\ PlainText(worktree[g]) => ~d.isBinary
    OBVIOUS
  <2>1. worktree[g] \in Contents
    BY <1>2 DEF LoadInv, Typing, TypeOK
  <2> QED
    BY <1>2, <2>1, UntrackedShown
<1>5. diffs \in Seq(Diffs) /\ n \in Nat
  <2>1. diffs \in Seq(Diffs)
    BY DEF LoadInv, Typing, DiffList
  <2> QED
    BY <2>1, LenProperties
<1> HIDE DEF d, n
<1>6. worktree[g] # Absent =>
        /\ diffs' \in Seq(Diffs) /\ Len(diffs') = n + 1 /\ diffs'[n + 1] = d
        /\ \A i \in 1..n : diffs'[i] = diffs[i]
  BY <1>1, <1>4, <1>5, AppendProperties DEF d, n
<1>7. DiffList(diffs')
  <2>1. CASE worktree[g] = Absent
    BY <1>1, <2>1 DEF LoadInv, Typing
  <2>2. CASE worktree[g] # Absent
    <3>1. g # DevNull
      BY <1>2, DiffAssumption, Zenon
    <3>2. \A i \in 1..(n + 1) : i = n + 1 \/ i \in 1..n
      BY <1>5
    <3>3. \A i \in 1..n : diffs[i].isDeleted <=> diffs[i].newPath = DevNull
      BY DEF LoadInv, Typing, DiffList, n
    <3>4. \A i \in 1..(n + 1) : diffs'[i].isDeleted <=> diffs'[i].newPath = DevNull
      BY <1>4, <1>6, <2>2, <3>1, <3>2, <3>3
    <3> QED
      BY <1>6, <2>2, <3>4 DEF DiffList
  <2> QED
    BY <2>1, <2>2
<1>8. Typing'
  <2>1. failures' \in 0..MaxFaults /\ swallowed' \subseteq {"diff", "list"} /\ at' = "read"
    BY <1>1 DEF LoadInv, Typing, TypeOK
  <2> QED
    BY <1>1, <1>2, <1>3, <1>7, <2>1, CommandTypes
<1>9. Stages'
  BY <1>1, <1>2 DEF LoadInv, Stages
<1>10. ChangesReviewedOnce'
  BY <1>1, NotYetReviewed
<1>11. Following'
  <2> SUFFICES ASSUME swallowed' = {}, NEW f \in Files, Reviewable(f)' PROVE Followed(f)'
    BY <1>1 DEF Following
  <2>1. Reviewable(f) /\ PlainText(worktree[f]) /\ (Changed(f)' <=> Changed(f))
    BY <1>1, StillReviewable
  <2>2. Followed(f)
    BY <1>1, <2>1 DEF LoadInv, Following
  <2>3. ~ToList(f)' /\ ~ToList(f)
    BY <1>1 DEF ToList
  <2>4. CASE f # g
    <3>1. /\ Shows(f)' <=> Shows(f)
          /\ \A i, j \in 1..Len(diffs') : diffs'[i].newPath = f /\ diffs'[j].newPath = f => i = j
          /\ \A i \in 1..Len(diffs') : diffs'[i].newPath = f => ~diffs'[i].isBinary
      <4>1. CASE worktree[g] = Absent
        BY <1>1, <2>2, <4>1 DEF Shows, Followed
      <4>2. CASE worktree[g] # Absent
        <5>1. diffs'[n + 1].newPath # f /\ 1..n \subseteq 1..(n + 1) /\ 1..Len(diffs') = 1..(n + 1)
          BY <1>4, <1>5, <1>6, <2>4, <4>2
        <5>2. \A i \in 1..(n + 1) : i = n + 1 \/ i \in 1..n
          BY <1>5
        <5>3. \A i \in 1..n : diffs'[i] = diffs[i]
          BY <1>6, <4>2
        <5> QED
          BY <2>2, <5>1, <5>2, <5>3 DEF Shows, Followed, n
      <4> QED
        BY <4>1, <4>2
    <3>2. f \in listed' <=> f \in listed
      BY <1>1, <2>4
    <3> QED
      BY <1>2, <2>1, <2>2, <2>3, <3>1, <3>2 DEF Followed
  <2>5. CASE f = g
    <3>1. worktree[f] # Absent /\ index[f] = Absent /\ ~Shows(f)
      BY <2>2, <2>5 DEF Followed
    <3>2. /\ \A i \in 1..n : diffs[i].newPath # f
          /\ \A i \in 1..(n + 1) : i = n + 1 \/ i \in 1..n
          /\ n + 1 \in 1..(n + 1)
      BY <1>5, <3>1 DEF Shows, n
    <3>3. /\ Len(diffs') = n + 1 /\ diffs'[n + 1] = d /\ d.newPath = f /\ ~d.isBinary
          /\ \A i \in 1..n : diffs'[i] = diffs[i]
      BY <1>4, <1>6, <2>1, <2>5, <3>1
    <3>4. \A i \in 1..(n + 1) : diffs'[i].newPath = f <=> i = n + 1
      BY <3>2, <3>3
    <3>5. /\ Shows(f)'
          /\ \A i, j \in 1..Len(diffs') : diffs'[i].newPath = f /\ diffs'[j].newPath = f => i = j
          /\ \A i \in 1..Len(diffs') : diffs'[i].newPath = f => ~diffs'[i].isBinary
      <4>1. Shows(f)'
        BY <3>2, <3>3, <3>4 DEF Shows
      <4> QED
        BY <3>3, <3>4, <4>1
    <3>6. worktree'[f] # Committed[f] \/ index'[f] # Committed[f]
      BY <1>2, <3>1
    <3>7. f \notin listed'
      BY <1>1, <2>5
    <3> QED
      BY <2>3, <3>5, <3>6, <3>7 DEF Followed
  <2> QED
    BY <2>4, <2>5
<1> QED
  BY <1>3, <1>7, <1>8, <1>9, <1>10, <1>11 DEF LoadInv

LEMMA AllReadKeeps == LoadInv /\ AllRead => LoadInv'
<1> SUFFICES ASSUME LoadInv, AllRead PROVE LoadInv'
  OBVIOUS
<1>1. /\ at = "read" /\ at' = "parse" /\ listed = {} /\ listed' = listed /\ diffs' = diffs
      /\ UNCHANGED <<runner, repo, swallowed, failures, parsed, announced, queue, calling, comment>>
  BY DEF AllRead, GoTo
<1>2. /\ mode' = mode /\ hasHead' = hasHead /\ worktree' = worktree /\ index' = index
  BY <1>1 DEF repo
<1>3. RunnerInv'
  BY <1>1, RunnerStutters DEF LoadInv
<1>4. Typing'
  <2>1. /\ failures' \in 0..MaxFaults /\ swallowed' \subseteq {"diff", "list"} /\ at' = "parse"
        /\ listed' \subseteq Files /\ DiffList(diffs')
    BY <1>1 DEF LoadInv, Typing, TypeOK, DiffList
  <2> QED
    BY <1>1, <1>3, <2>1, CommandTypes
<1>5. Stages'
  BY <1>1, <1>2 DEF LoadInv, Stages
<1>6. ChangesReviewedOnce'
  BY <1>1, NotYetReviewed
<1>7. Following'
  <2> SUFFICES ASSUME swallowed' = {}, NEW f \in Files, Reviewable(f)' PROVE Followed(f)'
    BY <1>1 DEF Following
  <2>1. Reviewable(f) /\ (Changed(f)' <=> Changed(f))
    BY <1>1, StillReviewable
  <2>2. Followed(f)
    BY <1>1, <2>1 DEF LoadInv, Following
  <2>3. ~ToList(f)' /\ ~ToList(f)
    BY <1>1 DEF ToList
  <2>4. Shows(f)' <=> Shows(f)
    BY <1>1 DEF Shows
  <2> QED
    BY <1>1, <1>2, <2>1, <2>2, <2>3, <2>4 DEF Followed
<1> QED
  BY <1>3, <1>4, <1>5, <1>6, <1>7 DEF LoadInv

(* finalizeDiff puts content into one diff and changes nothing else of it. *)
LEMMA FinalizeKeeps ==
  ASSUME LoadInv, RunnerInv', Unparsed, NEW content \in Seq(Lines), Finalize(content),
         failures' \in 0..MaxFaults
  PROVE  LoadInv'
<1>1. /\ at = "parse" /\ parsed < Len(diffs) /\ parsed \in Nat
      /\ diffs' = [diffs EXCEPT ![parsed + 1].content = content] /\ parsed' = parsed + 1
      /\ UNCHANGED <<repo, at, swallowed, listed, announced, queue, calling, comment>>
  BY DEF Unparsed, Finalize, LoadInv, Typing, TypeOK
<1>2. /\ mode' = mode /\ hasHead' = hasHead /\ worktree' = worktree /\ index' = index
      /\ setup' = setup /\ edits' = edits /\ touched' = touched
  BY <1>1 DEF repo
<1> DEFINE n == Len(diffs)
           k == parsed + 1
           d == [diffs[k] EXCEPT !.content = content]
<1>3. diffs \in Seq(Diffs) /\ n \in Nat /\ k \in 1..n
  <2>1. diffs \in Seq(Diffs)
    BY DEF LoadInv, Typing, DiffList
  <2>2. n \in Nat
    BY <2>1, LenProperties
  <2> QED
    BY <1>1, <2>1, <2>2
<1>4. diffs' = [diffs EXCEPT ![k] = d]
  BY <1>1
<1>5. diffs[k] \in Diffs
  BY <1>3, ElementOfSeq
<1>6. /\ d \in Diffs /\ d.newPath = diffs[k].newPath /\ d.isBinary = diffs[k].isBinary
      /\ d.isDeleted = diffs[k].isDeleted
  <2> DEFINE x == diffs[k]
             H == Seq(HunkOf(Lines))
             C == Seq(Lines)
             F == FileOf(Lines)
  <2>1. content \in C
    OBVIOUS
  <2>2. x \in [oldPath : Files, newPath : Files \cup {DevNull}, isDeleted : BOOLEAN,
               isBinary : BOOLEAN, hunks : H, content : C, old : F, new : F]
    BY <1>5 DEF Diffs
  <2> HIDE DEF x, H, C, F
  <2> DEFINE y == [x EXCEPT !.content = content]
  <2>3. /\ y \in [oldPath : Files, newPath : Files \cup {DevNull}, isDeleted : BOOLEAN,
                  isBinary : BOOLEAN, hunks : H, content : C, old : F, new : F]
        /\ y.newPath = x.newPath /\ y.isBinary = x.isBinary /\ y.isDeleted = x.isDeleted
    BY <2>1, <2>2
  <2> QED
    BY <2>3 DEF x, H, C, F, Diffs
<1> HIDE DEF d, n, k
<1>7. /\ diffs' \in Seq(Diffs) /\ Len(diffs') = n
      /\ \A i \in 1..n : diffs'[i] = IF i = k THEN d ELSE diffs[i]
  BY <1>3, <1>4, <1>6, ExceptSeq DEF n
<1>8. \A i \in 1..n : /\ diffs'[i].newPath = diffs[i].newPath
                      /\ diffs'[i].isBinary = diffs[i].isBinary
                      /\ diffs'[i].isDeleted = diffs[i].isDeleted
  BY <1>6, <1>7
<1>9. SameDiffs
  BY <1>7, <1>8 DEF SameDiffs, n
<1>10. DiffList(diffs')
  <2>1. \A i \in 1..n : diffs[i].isDeleted <=> diffs[i].newPath = DevNull
    BY DEF LoadInv, Typing, DiffList, n
  <2> QED
    BY <1>7, <1>8, <2>1 DEF DiffList
<1>11. Typing'
  <2>1. \A i \in DOMAIN diffs' : /\ diffs'[i].oldPath \in Files
                                /\ diffs'[i].newPath \in Files \cup {DevNull}
                                /\ diffs'[i].isDeleted <=> diffs'[i].newPath = DevNull
    <3>1. DOMAIN diffs' = 1..Len(diffs')
      BY <1>7, LenProperties
    <3>2. \A i \in 1..Len(diffs') : diffs'[i] \in Diffs
      BY <1>7, ElementOfSeq
    <3> QED
      BY <1>10, <3>1, <3>2 DEF DiffList, Diffs
  <2>2. parsed' \in Nat
    BY <1>1
  <2> QED
    BY <1>1, <1>2, <1>10, <2>1, <2>2 DEF LoadInv, RunnerInv, Typing, TypeOK, DiffList
<1>12. Following'
  BY <1>1, <1>9, RepoApart, FollowingStays DEF LoadInv
<1>13. Stages' /\ ChangesReviewedOnce'
  <2>1. Stages'
    BY <1>1, <1>2 DEF LoadInv, Stages
  <2> QED
    BY <1>1, <2>1, NotYetReviewed
<1> QED
  BY <1>11, <1>12, <1>13 DEF LoadInv

LEMMA FinalizingKeeps == LoadInv /\ (SkipDeleted \/ ReadFromDisk \/ ReadFromRef) => LoadInv'
<1> SUFFICES ASSUME LoadInv, SkipDeleted \/ ReadFromDisk \/ ReadFromRef PROVE LoadInv'
  OBVIOUS
<1>1. Unparsed
  BY DEF SkipDeleted, ReadFromDisk, ReadFromRef
<1> DEFINE text == Text(worktree[diffs[parsed + 1].newPath])
<1>2. ~diffs[parsed + 1].isDeleted => text \in Seq(Lines)
  <2> DEFINE k == parsed + 1
  <2>1. diffs \in Seq(Diffs) /\ parsed \in Nat /\ parsed < Len(diffs)
    BY <1>1 DEF LoadInv, Typing, TypeOK, DiffList, Unparsed
  <2>2. k \in 1..Len(diffs)
    BY <2>1
  <2> HIDE DEF k
  <2>3. diffs[k].isDeleted \/ diffs[k].newPath \in Files
    <3>1. diffs[k] \in Diffs
      BY <2>1, <2>2, ElementOfSeq
    <3>2. diffs[k].isDeleted <=> diffs[k].newPath = DevNull
      BY <2>2 DEF LoadInv, Typing, DiffList
    <3> QED
      BY <3>1, <3>2 DEF Diffs
  <2>4. diffs[k].newPath \in Files => Text(worktree[diffs[k].newPath]) \in Seq(Lines)
    BY Trees, ContentLines
  <2> QED
    BY <2>3, <2>4 DEF k
<1>3. <<>> \in Seq(Lines)
  OBVIOUS
<1> HIDE DEF text
<1>4. CASE SkipDeleted
  <2>1. Finalize(<<>>) /\ UNCHANGED <<runner, failures>>
    BY <1>4 DEF SkipDeleted
  <2>2. RunnerInv' /\ failures' \in 0..MaxFaults
    BY <2>1, RunnerStutters DEF LoadInv, Typing, TypeOK
  <2> QED
    BY <1>1, <1>3, <2>1, <2>2, FinalizeKeeps
<1>5. CASE ReadFromDisk
  <2>1. ~diffs[parsed + 1].isDeleted /\ Finalize(text) /\ UNCHANGED <<runner, failures>>
    BY <1>5 DEF ReadFromDisk, text
  <2>2. RunnerInv' /\ failures' \in 0..MaxFaults
    BY <2>1, RunnerStutters DEF LoadInv, Typing, TypeOK
  <2> QED
    BY <1>1, <1>2, <2>1, <2>2, FinalizeKeeps
<1>6. CASE ReadFromRef
  <2>1. /\ ~diffs[parsed + 1].isDeleted /\ Finish(Main) /\ (GitWorks \/ GitFails)
        /\ Finalize(text) \/ Finalize(<<>>)
    BY <1>6 DEF ReadFromRef, text
  <2>2. RunnerInv' /\ failures' \in 0..MaxFaults
    BY <2>1, CallEnds, FailuresCounted
  <2> QED
    BY <1>1, <1>2, <1>3, <2>1, <2>2, FinalizeKeeps
<1> QED
  BY <1>4, <1>5, <1>6

------------------------------------------------------------------------------
(* The dispatch. *)

(* A file that one diff shows is in what a filter keeps once or not at all. *)
LEMMA KeptOnce ==
  ASSUME NEW ds \in Seq(Diffs), NEW K, NEW f,
         \A i, j \in 1..Len(ds) : ds[i].newPath = f /\ ds[j].newPath = f => i = j
  PROVE  LET a == Among(ds, K)
             times == Cardinality({i \in DOMAIN a : a[i].newPath = f})
         IN  /\ times \in {0, 1}
             /\ times = 1 <=> \E i \in 1..Len(ds) : ds[i].newPath = f /\ ds[i] \in K
<1> DEFINE a == Among(ds, K)
           S == {i \in DOMAIN a : a[i].newPath = f}
<1>1. a \in Seq(Diffs) /\ \E e : Keeps(ds, Len(ds), K, a, e)
  BY AmongEnumerates
<1> HIDE DEF a
<1>2. PICK e : Keeps(ds, Len(ds), K, a, e)
  BY <1>1
<1>3. DOMAIN a = 1..Len(a)
  BY <1>1, LenProperties
<1>4. \A j \in 1..Len(a) : e[j] \in 1..Len(ds) /\ a[j] = ds[e[j]] /\ ds[e[j]] \in K
  BY <1>2 DEF Keeps
<1>5. \A i, j \in S : i = j
  <2> SUFFICES ASSUME NEW i \in S, NEW j \in S PROVE i = j
    OBVIOUS
  <2>1. i \in 1..Len(a) /\ j \in 1..Len(a) /\ ds[e[i]].newPath = f /\ ds[e[j]].newPath = f
    BY <1>3, <1>4
  <2>2. e[i] = e[j]
    BY <1>4, <2>1
  <2> QED
    BY <1>2, <2>1, <2>2 DEF Keeps
<1>6. S # {} <=> \E i \in 1..Len(ds) : ds[i].newPath = f /\ ds[i] \in K
  <2>1. ASSUME NEW j \in S PROVE \E i \in 1..Len(ds) : ds[i].newPath = f /\ ds[i] \in K
    BY <1>3, <1>4, <2>1
  <2>2. ASSUME NEW i \in 1..Len(ds), ds[i].newPath = f, ds[i] \in K PROVE S # {}
    <3>1. PICK j \in 1..Len(a) : e[j] = i
      BY <1>2, <2>2 DEF Keeps
    <3>2. j \in S
      BY <1>3, <1>4, <2>2, <3>1
    <3> QED
      BY <3>2
  <2> QED
    BY <2>1, <2>2
<1>7. CASE S = {}
  <2>1. Cardinality(S) = 0
    BY <1>7, FS_EmptySet
  <2> QED
    BY <1>6, <1>7, <2>1 DEF a
<1>8. CASE S # {}
  <2>1. PICK j : j \in S
    BY <1>8
  <2>2. S = {j}
    BY <1>5, <2>1
  <2>3. Cardinality(S) = 1
    BY <2>2, FS_Singleton
  <2> QED
    BY <1>6, <1>8, <2>3 DEF a
<1> QED
  BY <1>7, <1>8

(* The diff of a file under review passes every filter but the one on size. *)
LEMMA PassesFilters ==
  ASSUME NEW f \in Files, f \notin setup.ignored, Admitted(f),
         NEW d \in Diffs, d.newPath = f, ~d.isBinary, d.isDeleted <=> d.newPath = DevNull
  PROVE  d \in NotIgnored \cap Wanted \cap Present
<1>1. f # DevNull
  BY DiffAssumption, Zenon
<1>2. EffectivePath(d) = f
  BY <1>1 DEF EffectivePath
<1>3. d.isBinary = FALSE
  BY DEF Diffs
<1>4. ShouldReview(d)
  BY <1>2, <1>3, Zenon DEF ShouldReview, Admitted, NoText
<1>5. d \in NotIgnored
  BY <1>2 DEF NotIgnored, IsPathExcluded
<1>6. d \in Wanted
  BY <1>4 DEF Wanted
<1>7. d \in Present
  BY <1>1 DEF Present
<1> QED
  BY <1>5, <1>6, <1>7

(* What the filters make of the diffs of one followed file. *)
LEMMA DispatchedOnce ==
  ASSUME DiffList(diffs), NEW f \in Files, Reviewable(f), Followed(f), ~ToList(f), listed = {},
         UNCHANGED repo,
         LET told == NotIgnored \cap Wanted \cap Present
         IN  /\ announced' = Among(diffs, told)
             /\ queue' = Among(diffs, told \cap Small)
  PROVE  ReviewedOnce(f)'
<1> DEFINE told == NotIgnored \cap Wanted \cap Present
           K == told \cap Small
           n == Len(diffs)
<1>1. diffs \in Seq(Diffs) /\ \A i \in 1..n : diffs[i] \in Diffs
  <2>1. diffs \in Seq(Diffs)
    BY DEF DiffList
  <2> QED
    BY <2>1, ElementOfSeq
<1>2. /\ \A i, j \in 1..n : diffs[i].newPath = f /\ diffs[j].newPath = f => i = j
      /\ \A i \in 1..n : diffs[i].newPath = f => ~diffs[i].isBinary
      /\ Shows(f) => worktree[f] # Committed[f] \/ index[f] # Committed[f] \/ ~hasHead
      /\ Changed(f) => Shows(f)
  BY DEF Followed
<1>3. f \notin setup.ignored /\ Admitted(f)
  BY ReviewableIs
<1>4. \A i \in 1..n : diffs[i].newPath = f => diffs[i] \in told
  BY <1>1, <1>2, <1>3, PassesFilters DEF DiffList
<1>5. /\ TimesQueued(f)' \in {0, 1}
      /\ TimesQueued(f)' = 1 <=> \E i \in 1..n : diffs[i].newPath = f /\ diffs[i] \in K
  <2> HIDE DEF K
  <2>1. queue' = Among(diffs, K)
    BY DEF K
  <2>2. TimesQueued(f)' = Cardinality({i \in DOMAIN Among(diffs, K) : Among(diffs, K)[i].newPath = f})
    BY <2>1 DEF TimesQueued
  <2>3. \A i, j \in 1..Len(diffs) : diffs[i].newPath = f /\ diffs[j].newPath = f => i = j
    BY <1>2
  <2> DEFINE times == Cardinality({i \in DOMAIN Among(diffs, K) : Among(diffs, K)[i].newPath = f})
  <2>4. /\ times \in {0, 1}
        /\ times = 1 <=> \E i \in 1..Len(diffs) : diffs[i].newPath = f /\ diffs[i] \in K
    BY <1>1, <2>3, KeptOnce
  <2> QED
    BY <2>2, <2>4
<1>6. /\ worktree' = worktree /\ index' = index /\ hasHead' = hasHead
      /\ Changed(f)' <=> Changed(f)
  BY DEF repo, Changed
<1>7. ASSUME NEW i \in 1..n, diffs[i].newPath = f, diffs[i] \notin K
      PROVE  \E j \in DOMAIN announced' : announced'[j].newPath = f /\ TooLarge(announced'[j])
  <2>1. diffs[i] \in told /\ TooLarge(diffs[i])
    BY <1>1, <1>4, <1>7 DEF Small
  <2> HIDE DEF told
  <2>2. announced' = Among(diffs, told)
    BY DEF told
  <2>3. announced' \in Seq(Diffs) /\ \E e : Keeps(diffs, n, told, announced', e)
    BY <1>1, <2>2, AmongEnumerates
  <2>4. PICK e : Keeps(diffs, n, told, announced', e)
    BY <2>3
  <2>5. PICK j \in 1..Len(announced') : e[j] = i
    BY <2>1, <2>4 DEF Keeps
  <2>6. announced'[j] = diffs[i]
    BY <2>4, <2>5 DEF Keeps
  <2>7. j \in DOMAIN announced'
    BY <2>3, <2>5, LenProperties
  <2> QED
    BY <1>7, <2>1, <2>6, <2>7
<1>8. Changed(f)' => \/ TimesQueued(f)' = 1
                     \/ \E j \in DOMAIN announced' : announced'[j].newPath = f /\ TooLarge(announced'[j])
  <2> SUFFICES ASSUME Changed(f)', TimesQueued(f)' # 1
               PROVE  \E j \in DOMAIN announced' : announced'[j].newPath = f /\ TooLarge(announced'[j])
    OBVIOUS
  <2>1. PICK i \in 1..n : diffs[i].newPath = f
    BY <1>2, <1>6 DEF Shows
  <2>2. diffs[i] \notin K
    BY <1>5, <2>1
  <2> QED
    BY <1>7, <2>1, <2>2
<1>9. TimesQueued(f)' > 0 => worktree'[f] # Committed[f] \/ index'[f] # Committed[f] \/ ~hasHead'
  <2> SUFFICES ASSUME TimesQueued(f)' > 0
               PROVE  worktree'[f] # Committed[f] \/ index'[f] # Committed[f] \/ ~hasHead'
    OBVIOUS
  <2>1. TimesQueued(f)' = 1
    BY <1>5
  <2>2. Shows(f)
    BY <1>5, <2>1 DEF Shows
  <2> QED
    BY <1>2, <1>6, <2>2
<1>10. TimesQueued(f)' <= 1
  BY <1>5
<1>11. ReviewedOnce(f)' <=>
         /\ Changed(f)' => \/ TimesQueued(f)' = 1
                          \/ \E j \in DOMAIN announced' : announced'[j].newPath = f /\ TooLarge(announced'[j])
         /\ TimesQueued(f)' > 0 => worktree'[f] # Committed[f] \/ index'[f] # Committed[f] \/ ~hasHead'
         /\ TimesQueued(f)' <= 1
  BY DEF ReviewedOnce
<1> QED
  BY <1>8, <1>9, <1>10, <1>11

LEMMA DispatchKeeps == LoadInv /\ DispatchSubtasks => LoadInv'
<1> SUFFICES ASSUME LoadInv, DispatchSubtasks PROVE LoadInv'
  OBVIOUS
<1> DEFINE kept == Kept(Filtered(Loaded(diffs)))
           told == WillReview(Loaded(diffs))
           started == DispatchOf(kept)
<1>1. /\ at = "parse" /\ at' \in {"review", "done", "failed"}
      /\ announced' = told /\ diffs' = kept /\ queue' = started
      /\ calling' = {PathOf(queue'[i]) : i \in DOMAIN queue'} \ {DevNull}
      /\ UNCHANGED <<runner, repo, swallowed, failures, listed, parsed, comment>>
  BY DEF DispatchSubtasks, GoTo
<1>2. /\ mode' = mode /\ hasHead' = hasHead /\ worktree' = worktree /\ index' = index
      /\ setup' = setup /\ edits' = edits /\ touched' = touched
  BY <1>1 DEF repo
<1>3. DiffList(diffs)
  BY DEF LoadInv, Typing
<1>4. /\ DiffList(kept) /\ DiffList(told) /\ DiffList(started)
      /\ told = Among(diffs, NotIgnored \cap Wanted \cap Present)
      /\ started = Among(diffs, NotIgnored \cap Wanted \cap Present \cap Small)
      /\ started = Kept(told)
  BY <1>3, DispatchFilters
<1> HIDE DEF kept, told, started
<1>5. RunnerInv'
  BY <1>1, RunnerStutters DEF LoadInv
<1>6. Typing'
  <2>1. DiffList(diffs') /\ DiffList(queue') /\ DiffList(announced')
    BY <1>1, <1>4
  <2>2. \A i \in DOMAIN diffs' : /\ diffs'[i].oldPath \in Files
                                /\ diffs'[i].newPath \in Files \cup {DevNull}
                                /\ diffs'[i].isDeleted <=> diffs'[i].newPath = DevNull
    <3>1. DOMAIN diffs' = 1..Len(diffs')
      BY <2>1, LenProperties DEF DiffList
    <3>2. \A i \in 1..Len(diffs') : diffs'[i] \in Diffs
      BY <2>1, ElementOfSeq DEF DiffList
    <3> QED
      BY <2>1, <3>1, <3>2 DEF DiffList, Diffs
  <2>3. calling' \subseteq Files
    <3>1. DOMAIN queue' = 1..Len(queue')
      BY <2>1, LenProperties DEF DiffList
    <3>2. \A i \in 1..Len(queue') : queue'[i] \in Diffs
      BY <2>1, ElementOfSeq DEF DiffList
    <3> QED
      BY <1>1, <3>1, <3>2 DEF PathOf, Diffs
  <2> QED
    BY <1>1, <1>2, <1>5, <2>1, <2>2, <2>3 DEF LoadInv, RunnerInv, Typing, TypeOK, DiffList
<1>7. Stages'
  BY <1>1, <1>2 DEF LoadInv, Stages
<1>8. Following'
  BY <1>1, NotFollowing
<1>9. ChangesReviewedOnce'
  <2>1. queue' = Kept(announced')
    BY <1>1, <1>4
  <2>2. Kept(announced)' = Kept(announced')
    BY DEF Kept
  <2>3. ASSUME swallowed' = {}, NEW f \in Files, Reviewable(f)' PROVE ReviewedOnce(f)'
    <3>1. Reviewable(f)
      BY <1>1, <2>3, StillReviewable
    <3>2. listed = {} /\ ~ToList(f)
      BY <1>1 DEF LoadInv, Stages, ToList
    <3>3. Followed(f)
      BY <1>1, <2>3, <3>1 DEF LoadInv, Following
    <3> QED
      BY <1>1, <1>3, <1>4, <3>1, <3>2, <3>3, DispatchedOnce
  <2>4. ChangesReviewedOnce' <=>
          /\ at' \in {"review", "done"} /\ swallowed' = {} =>
               \A f \in Files : Reviewable(f)' => ReviewedOnce(f)'
          /\ at' \in {"review", "done"} => queue' = Kept(announced)'
    BY DEF ChangesReviewedOnce, ReviewedOnce
  <2> QED
    BY <2>1, <2>2, <2>3, <2>4
<1> QED
  BY <1>5, <1>6, <1>7, <1>8, <1>9 DEF LoadInv

------------------------------------------------------------------------------
(* The review, and the one comment that is followed. *)

Shaped(c) ==
  /\ c = [at |-> c.at, path |-> c.path, code |-> c.code, asked |-> c.asked, place |-> c.place]
  /\ c.at \in {"none", "new", "relocating", "kept", "final"}

(* Once the diffs are dispatched nothing but the tools' calls and the comment is
   left to change. *)
LEMMA AfterwardsKeeps ==
  ASSUME LoadInv, RunnerInv',
         UNCHANGED <<repo, swallowed, failures, listed, diffs, parsed, announced, queue>>,
         at' = at \/ (at = "review" /\ at' = "done"),
         calling' \subseteq Files, Shaped(comment')
  PROVE  LoadInv'
<1>1. Apart
  BY RepoApart
<1>2. /\ mode' = mode /\ setup' = setup /\ hasHead' = hasHead /\ worktree' = worktree
      /\ index' = index /\ edits' = edits /\ touched' = touched
  BY DEF repo
<1>3. Following'
  <2>1. CASE at' = at
    <3>1. SameDiffs
      BY DEF SameDiffs
    <3> QED
      BY <1>1, <2>1, <3>1, FollowingStays DEF LoadInv
  <2>2. CASE at' = "done"
    BY <2>2, NotFollowing
  <2> QED
    BY <2>1, <2>2
<1>4. ChangesReviewedOnce'
  BY <1>1, ReviewedStays DEF LoadInv
<1>5. Stages'
  BY <1>2 DEF LoadInv, Stages
<1>6. Typing'
  BY <1>2 DEF LoadInv, RunnerInv, Typing, TypeOK, DiffList, Shaped
<1> QED
  BY <1>3, <1>4, <1>5, <1>6 DEF LoadInv

LEMMA CommentShaped == LoadInv => Shaped(comment)
BY DEF LoadInv, Typing, TypeOK, Shaped

LEMMA PlaceShaped ==
  ASSUME NEW c, Shaped(c), NEW d, NEW code
  PROVE  Shaped(Place(c, d, code))
<1>1. CASE code = <<>>
  BY <1>1 DEF Place
<1>2. CASE code # <<>>
  <2> DEFINE found == ResolveComment(d, code)
  <2>1. Place(c, d, code) = [c EXCEPT !.place = found]
    BY <1>2 DEF Place
  <2> HIDE DEF found
  <2> QED
    BY <2>1 DEF Shaped
<1> QED
  BY <1>1, <1>2

LEMMA MarkShaped ==
  ASSUME NEW c, Shaped(c), NEW stage \in {"none", "new", "relocating", "kept", "final"}
  PROVE  Shaped([c EXCEPT !.at = stage])
BY DEF Shaped

LEMMA QuoteShaped ==
  ASSUME NEW c, Shaped(c), NEW code
  PROVE  Shaped([c EXCEPT !.at = "kept", !.code = code])
<1> DEFINE d == [c EXCEPT !.at = "kept", !.code = code]
<1>1. c = [at |-> c.at, path |-> c.path, code |-> c.code, asked |-> c.asked, place |-> c.place]
  BY DEF Shaped
<1>2. DOMAIN c = {"at", "path", "code", "asked", "place"}
  BY <1>1
<1>3. /\ d = [k \in DOMAIN c |-> IF k = "code" THEN code ELSE IF k = "at" THEN "kept" ELSE c[k]]
      /\ d.at = "kept"
  BY <1>2
<1> HIDE DEF d
<1>4. d = [at |-> d.at, path |-> d.path, code |-> d.code, asked |-> d.asked, place |-> d.place]
  BY <1>2, <1>3
<1>5. Shaped(d)
  BY <1>3, <1>4 DEF Shaped
<1> QED
  BY <1>5 DEF d

LEMMA ToolRunsGitKeeps == ASSUME LoadInv, NEW f \in Files, ToolRunsGit(f) PROVE LoadInv'
<1>1. RunnerInv /\ Shaped(comment) /\ calling \subseteq Files
  BY CommentShaped DEF LoadInv, Typing, TypeOK
<1>2. RunnerInv'
  BY <1>1, MainCalls, SameRun DEF ToolRunsGit
<1> QED
  BY <1>1, <1>2, AfterwardsKeeps DEF ToolRunsGit

LEMMA ReviewEndsKeeps == LoadInv /\ ReviewEnds => LoadInv'
<1> SUFFICES ASSUME LoadInv, ReviewEnds PROVE LoadInv'
  OBVIOUS
<1>1. UNCHANGED <<call, sem>> /\ gone' = [c \in Callers |-> c \in Files]
  BY DEF ReviewEnds
<1>2. RunnerInv'
  BY <1>1, ContextsEnd DEF LoadInv
<1> QED
  BY <1>2, CommentShaped, AfterwardsKeeps DEF ReviewEnds, GoTo

LEMMA CommentKeeps == LoadInv /\ CommentStep => LoadInv'
<1> SUFFICES ASSUME LoadInv, CommentStep PROVE LoadInv'
  OBVIOUS
<1>1. Shaped(comment) /\ calling \subseteq Files
  BY CommentShaped DEF LoadInv, Typing, TypeOK
<1>2. UNCHANGED <<runner, repo, load>>
  BY DEF CommentStep, AddComment, PlaceComment, ReLocateComment, ResolveLineNumbers
<1>3. RunnerInv'
  BY <1>2, RunnerStutters DEF LoadInv
<1>4. Shaped(comment')
  <2>1. ASSUME NEW f \in Files, AddComment(f) PROVE Shaped(comment')
    <3>1. PICK code \in Codes :
            comment' = [at |-> "new", path |-> f, code |-> code, asked |-> code, place |-> Unplaced]
      BY <2>1 DEF AddComment
    <3> QED
      BY <3>1 DEF Shaped
  <2>2. CASE PlaceComment
    <3> DEFINE named == Naming(diffs, comment.path) # {}
               d == FindDiff(diffs, comment.path)
               c == IF named THEN Place(comment, d, comment.code) ELSE comment
               stage == IF named /\ c.place = Unplaced THEN "relocating" ELSE "kept"
    <3>1. comment' = [c EXCEPT !.at = stage]
      BY <2>2 DEF PlaceComment
    <3>2. stage \in {"relocating", "kept"}
      OBVIOUS
    <3> HIDE DEF stage, d, named
    <3>3. Shaped(c)
      BY <1>1, PlaceShaped
    <3> HIDE DEF c
    <3> QED
      BY <3>1, <3>2, <3>3, MarkShaped
  <2>3. CASE ReLocateComment
    <3>1. CASE comment' = [comment EXCEPT !.at = "kept"]
      BY <1>1, <3>1, MarkShaped
    <3>2. ASSUME NEW code \in Codes \ {<<>>},
                 LET c == Place(comment, FindDiff(diffs, comment.path), code)
                 IN  comment' = IF c.place # Unplaced
                                  THEN [c EXCEPT !.at = "kept", !.code = code]
                                  ELSE [Restored(c, code) EXCEPT !.at = "kept"]
          PROVE  Shaped(comment')
      <4> DEFINE c == Place(comment, FindDiff(diffs, comment.path), code)
      <4>1. Shaped(c)
        BY <1>1, PlaceShaped
      <4>2. comment' = [c EXCEPT !.at = "kept", !.code = code] \/ comment' = [c EXCEPT !.at = "kept"]
        BY <3>2 DEF Restored
      <4> HIDE DEF c
      <4>3. Shaped([c EXCEPT !.at = "kept", !.code = code]) /\ Shaped([c EXCEPT !.at = "kept"])
        <5>1. Shaped([c EXCEPT !.at = "kept", !.code = code])
          BY <4>1, QuoteShaped
        <5>2. Shaped([c EXCEPT !.at = "kept"])
          BY <4>1, MarkShaped
        <5> QED
          BY <5>1, <5>2, Zenon
      <4> QED
        BY <4>2, <4>3, Zenon
    <3> QED
      BY <2>3, <3>1, <3>2 DEF ReLocateComment
  <2>4. CASE ResolveLineNumbers
    <3> DEFINE d == LastDiff(diffs, comment.path)
               tried == comment.place = Unplaced /\ Naming(diffs, comment.path) # {}
               c == IF tried THEN Place(comment, d, comment.code) ELSE comment
    <3>1. comment' = [c EXCEPT !.at = "final"]
      BY <2>4 DEF ResolveLineNumbers
    <3> HIDE DEF d, tried
    <3>2. Shaped(c)
      BY <1>1, PlaceShaped
    <3> HIDE DEF c
    <3> QED
      BY <3>1, <3>2, MarkShaped
  <2> QED
    BY <2>1, <2>2, <2>3, <2>4 DEF CommentStep
<1>5. /\ at' = at /\ calling' = calling
      /\ UNCHANGED <<swallowed, failures, listed, diffs, parsed, announced, queue>>
  BY <1>2 DEF load
<1> QED
  BY <1>1, <1>2, <1>3, <1>4, <1>5, AfterwardsKeeps

------------------------------------------------------------------------------
(* The invariant holds. *)

LEMMA LoadStarts == Init => LoadInv
<1> SUFFICES ASSUME Init PROVE LoadInv
  OBVIOUS
<1>1. /\ InitRunner
      /\ mode \in {"workspace", "range"} /\ setup \in Setups /\ hasHead \in BOOLEAN
      /\ mode = "range" => hasHead
      /\ \E s \in Starts : worktree = s.worktree /\ index = (IF hasHead THEN s.index ELSE NoFile)
      /\ edits = 0 /\ touched = {} /\ at = "start" /\ swallowed = {} /\ failures = 0
      /\ listed = {} /\ diffs = <<>> /\ parsed = 0 /\ announced = <<>> /\ queue = <<>>
      /\ calling = {} /\ comment = NoComment
  BY DEF Init
<1>2. RunnerInv
  BY <1>1, RunnerStarts
<1>3. /\ worktree \in [Files -> Contents \cup {Absent}]
      /\ index \in [Files -> Contents \cup {Absent}]
  <2>1. NoFile \in [Files -> Contents \cup {Absent}]
    BY DEF NoFile
  <2>2. Starts \subseteq [worktree : [Files -> Contents \cup {Absent}],
                          index : [Files -> Contents \cup {Absent}]]
    BY DiffAssumption, Zenon
  <2>3. PICK s \in Starts : worktree = s.worktree /\ index = (IF hasHead THEN s.index ELSE NoFile)
    BY <1>1
  <2> QED
    BY <2>1, <2>2, <2>3
<1>4. 0 \in 0..MaxEdits /\ 0 \in 0..MaxFaults
  BY Bounds
<1>5. Shaped(comment)
  BY <1>1 DEF NoComment, Shaped
<1>6. DiffList(<<>>)
  BY DEF DiffList
<1>7. TypeOK
  BY <1>1, <1>2, <1>3, <1>4, <1>5 DEF RunnerInv, TypeOK, Shaped
<1>8. Typing
  BY <1>1, <1>5, <1>6, <1>7 DEF Typing, Shaped
<1>9. Stages
  BY <1>1 DEF Stages
<1>10. Following
  BY <1>1 DEF Following
<1>11. ChangesReviewedOnce
  BY <1>1 DEF ChangesReviewedOnce
<1> QED
  BY <1>2, <1>8, <1>9, <1>10, <1>11 DEF LoadInv

LEMMA LoadStep == LoadInv /\ [Next]_vars => LoadInv'
<1> SUFFICES ASSUME LoadInv, [Next]_vars PROVE LoadInv'
  OBVIOUS
<1>1. CASE UserNext
  BY <1>1, UserKeeps DEF UserNext
<1>2. CASE LoadNext
  <2>1. CASE LoadBegins
    BY <2>1, LoadBeginsKeeps
  <2>2. CASE StartGit
    BY <2>2, MainCalls, RunnerKeeps
  <2>3. CASE MergeBase \/ RangeDiff
    BY <2>3, MergeBaseKeeps, RangeDiffKeeps
  <2>4. CASE TrackedDiff \/ StagedDiff
    BY <2>4, TrackedDiffKeeps, StagedDiffKeeps
  <2>5. CASE ListUntracked \/ ReadUntracked \/ AllRead
    BY <2>5, ListUntrackedKeeps, ReadUntrackedKeeps, AllReadKeeps
  <2>6. CASE SkipDeleted \/ ReadFromDisk \/ ReadFromRef
    BY <2>6, FinalizingKeeps
  <2>7. CASE DispatchSubtasks
    BY <2>7, DispatchKeeps
  <2> QED
    BY <1>2, <2>1, <2>2, <2>3, <2>4, <2>5, <2>6, <2>7 DEF LoadNext
<1>3. CASE ReviewEnds
  BY <1>3, ReviewEndsKeeps
<1>4. ASSUME NEW c \in Callers, GetToken(c) \/ GiveUp(c) PROVE LoadInv'
  BY <1>4, RunnerKeeps
<1>5. ASSUME NEW f \in Files, ToolAnswered(f) \/ FileTimesOut(f) PROVE LoadInv'
  BY <1>5, MainCalls, RunnerKeeps
<1>6. ASSUME NEW f \in Files, ToolRunsGit(f) PROVE LoadInv'
  BY <1>6, ToolRunsGitKeeps
<1>7. CASE CommentStep
  BY <1>7, CommentKeeps
<1>8. CASE UNCHANGED vars
  <2>1. UNCHANGED runner /\ UNCHANGED <<repo, load, comment>>
    BY <1>8 DEF vars
  <2>2. RunnerInv'
    BY <2>1, RunnerStutters DEF LoadInv
  <2> QED
    BY <2>1, <2>2, OutsideKeeps
<1> QED
  BY <1>1, <1>2, <1>3, <1>4, <1>5, <1>6, <1>7, <1>8 DEF Next, ProgramStep

(* The load's invariant: no step of the program, of the user or of a comment
   breaks it. *)
THEOREM LoadInvHolds == Spec => []LoadInv
<1>1. Init => LoadInv
  BY LoadStarts
<1>2. LoadInv /\ [Next]_vars => LoadInv'
  BY LoadStep
<1> QED
  BY <1>1, <1>2, PTL DEF Spec

(* Every variable of the load has its type, for all repositories, rule files and
   numbers of edits and failing commands. *)
THEOREM LoadTyped == Spec => []TypeOK
<1>1. LoadInv => TypeOK
  BY DEF LoadInv, Typing
<1> QED
  BY <1>1, LoadInvHolds, PTL

(* The Runner that the load and the tools of all files share accounts for its
   tokens, whatever they do with it (runner.go:13-15). *)
THEOREM LoadTokens == Spec => []TokensAccounted
<1>1. LoadInv => TokensAccounted
  BY DEF LoadInv, RunnerInv
<1> QED
  BY <1>1, LoadInvHolds, PTL

(* The rule that `ocr rules check` prints is the rule the model gets, for all
   rule.json layers, unless a layer's first entry for the path has no text. *)
THEOREM RulesShown == Spec => []RuleShownIsRuleUsed
<1>1. LoadInv => RuleShownIsRuleUsed
  BY RulesAgree DEF LoadInv, Typing, TypeOK
<1> QED
  BY <1>1, LoadInvHolds, PTL

(* A file that changed and that nobody touched while the workspace was read by
   one command after the other is reviewed exactly once, whatever happens to the
   files around it; the files announced are the files whose subtasks start and
   those dropped for size (git.go:131-145, 267-276, preview.go:73-113,
   agent.go:779-791). *)
THEOREM ChangesReviewed == Spec => []ChangesReviewedOnce
<1>1. LoadInv => ChangesReviewedOnce
  BY DEF LoadInv
<1> QED
  BY <1>1, LoadInvHolds, PTL
------------------------------------------------------------------------------
(* Where a comment is in the file. The numbers of a hunk's lines are those of the
   files it compares. *)

(* The lines of s are numbered from first, and are those of the text where it has
   lines and blank where it has none. *)
Reads(s, first, text) ==
  /\ first \in Nat /\ Len(s) \in Nat /\ DOMAIN s = 1..Len(s)
  /\ \A k \in 1..Len(s) :
       /\ s[k].num = first + k - 1
       /\ s[k].text = IF first + k - 1 \in 1..Len(text) THEN Norm[text[first + k - 1]] ELSE ""

(* Both sides of a hunk read the files it compares. *)
Fits(h, old, new) ==
  /\ Reads(ExtractSideLines(h, TRUE), h.newStart, new)
  /\ Len(ExtractSideLines(h, TRUE)) = Len(Side(h, TRUE))
  /\ Reads(ExtractSideLines(h, FALSE), h.oldStart, old)

(* s is the part of the text that begins at its line first. *)
PartFrom(s, first, text) ==
  \A k \in 1..Len(s) : first + k - 1 \in 1..Len(text) /\ text[first + k - 1] = s[k]

(* s is the part of the text from its line first, and blank beyond the text. *)
Continues(s, first, text) ==
  \A k \in 1..Len(s) : IF first + k - 1 \in 1..Len(text) THEN text[first + k - 1] = s[k]
                       ELSE Norm[s[k]] = ""

(* What a side shows from which line, and that it reads the text there. *)
FirstOf(h, newSide) == IF newSide THEN h.newStart ELSE h.oldStart

SideShows(h, newSide, L, s, first) ==
  /\ Side(h, newSide) \in Seq(L) /\ Showing(Side(h, newSide), s)
  /\ FirstOf(h, newSide) = first

SideFits(h, newSide, text) ==
  /\ Reads(ExtractSideLines(h, newSide), FirstOf(h, newSide), text)
  /\ Len(ExtractSideLines(h, newSide)) = Len(Side(h, newSide))

(* A side reads every text that its lines go on. *)
LEMMA SideReads ==
  ASSUME NEW L, NEW A, NEW h, NEW s \in Seq(A), NEW first \in Nat,
         NEW text, Continues(s, first, text)
  PROVE  \A newSide : SideShows(h, newSide, L, s, first) => SideFits(h, newSide, text)
<1> SUFFICES ASSUME NEW newSide, SideShows(h, newSide, L, s, first)
             PROVE  SideFits(h, newSide, text)
  OBVIOUS
<1>0. /\ Side(h, newSide) \in Seq(L) /\ Showing(Side(h, newSide), s)
      /\ FirstOf(h, newSide) = first
  BY DEF SideShows
<1> DEFINE side == Side(h, newSide)
           start == FirstOf(h, newSide)
           n == Len(s)
           out == ExtractSideLines(h, newSide)
           line(k) == [num |-> start + k - 1, text |-> Norm[side[k].text]]
<1>1. n \in Nat /\ Len(side) = n /\ DOMAIN side = 1..n /\ \A k \in 1..n : side[k].text = s[k]
  <2>1. n \in Nat /\ DOMAIN side = 1..Len(side)
    BY <1>0, LenProperties
  <2> QED
    BY <1>0, <2>1 DEF Showing
<1>2. start \in Nat /\ start = first
  BY <1>0
<1>3. out = [k \in 1..n |-> line(k)]
  BY <1>1 DEF ExtractSideLines, FirstOf
<1>4. \A k \in 1..n : line(k).num = start + k - 1 /\ line(k).text = Norm[side[k].text]
  OBVIOUS
<1> HIDE DEF out, line, side, start
<1>5. DOMAIN out = 1..n /\ \A k \in 1..n : out[k] = line(k)
  BY <1>3
<1>6. Len(out) = n
  BY <1>1, <1>3
<1>7. ASSUME NEW k \in 1..n
      PROVE  /\ out[k].num = start + k - 1
             /\ out[k].text = IF start + k - 1 \in 1..Len(text) THEN Norm[text[start + k - 1]] ELSE ""
  <2>1. IF start + k - 1 \in 1..Len(text) THEN text[start + k - 1] = s[k] ELSE Norm[s[k]] = ""
    BY <1>2 DEF Continues, n
  <2>2. out[k].num = start + k - 1 /\ out[k].text = Norm[s[k]]
    BY <1>1, <1>4, <1>5
  <2> QED
    BY <2>1, <2>2, Zenon
<1>8. Reads(out, start, text)
  BY <1>1, <1>2, <1>5, <1>6, <1>7 DEF Reads
<1> QED
  BY <1>1, <1>6, <1>8 DEF out, side, start, SideFits

(* A part of a text goes on like the text, from where git says it starts. *)
LEMMA PartContinues ==
  ASSUME NEW s, NEW first \in Nat \ {0}, NEW text, PartFrom(s, first, text), Len(s) \in Nat,
         s = <<>> => Len(s) = 0
  PROVE  Continues(s, Start(s, first), text) /\ Start(s, first) \in Nat
<1>1. Start(s, first) \in Nat
  BY DEF Start
<1>2. ASSUME NEW k \in 1..Len(s)
      PROVE  Start(s, first) = first /\ first + k - 1 \in 1..Len(text) /\ text[first + k - 1] = s[k]
  <2>1. s # <<>>
    BY <1>2
  <2> QED
    BY <2>1 DEF Start, PartFrom
<1> QED
  BY <1>1, <1>2 DEF Continues

(* A hunk fits every pair of files that have its sides where it says. *)
LEMMA HunkFits ==
  ASSUME NEW A, NEW old \in Seq(A), NEW new \in Seq(A),
         NEW oldFirst \in Nat \ {0}, NEW newFirst \in Nat \ {0},
         NEW oldText, PartFrom(old, oldFirst, oldText),
         NEW newText, PartFrom(new, newFirst, newText)
  PROVE  Fits(Hunk(old, new, oldFirst, newFirst), oldText, newText)
<1> DEFINE h == Hunk(old, new, oldFirst, newFirst)
           L == LineOf(A)
<1>0. /\ h.oldStart = Start(old, oldFirst) /\ h.newStart = Start(new, newFirst)
      /\ Sides(h, L, old, new)
  BY HunkSides
<1> HIDE DEF h, L
<1>1. /\ h.oldStart = Start(old, oldFirst) /\ h.newStart = Start(new, newFirst)
      /\ Side(h, TRUE) \in Seq(L) /\ Showing(Side(h, TRUE), new)
      /\ Side(h, FALSE) \in Seq(L) /\ Showing(Side(h, FALSE), old)
  BY <1>0, Zenon DEF Sides
<1>2. FirstOf(h, TRUE) = h.newStart /\ FirstOf(h, FALSE) = h.oldStart
  BY DEF FirstOf
<1>3. SideFits(h, TRUE, newText)
  <2> DEFINE first == Start(new, newFirst)
  <2>1. Continues(new, first, newText) /\ first \in Nat
    <3>1. Len(new) \in Nat /\ (new = <<>> => Len(new) = 0)
      OBVIOUS
    <3> QED
      BY <3>1, PartContinues
  <2> HIDE DEF first
  <2>2. \A newSide : SideShows(h, newSide, L, new, first) => SideFits(h, newSide, newText)
    BY <2>1, SideReads
  <2>3. SideShows(h, TRUE, L, new, first)
    BY <1>1, <1>2 DEF SideShows, first
  <2> QED
    BY <2>2, <2>3, Zenon
<1>4. SideFits(h, FALSE, oldText)
  <2> DEFINE first == Start(old, oldFirst)
  <2>1. Continues(old, first, oldText) /\ first \in Nat
    <3>1. Len(old) \in Nat /\ (old = <<>> => Len(old) = 0)
      OBVIOUS
    <3> QED
      BY <3>1, PartContinues
  <2> HIDE DEF first
  <2>2. \A newSide : SideShows(h, newSide, L, old, first) => SideFits(h, newSide, oldText)
    BY <2>1, SideReads
  <2>3. SideShows(h, FALSE, L, old, first)
    BY <1>1, <1>2 DEF SideShows, first
  <2> QED
    BY <2>2, <2>3, Zenon
<1>5. Fits(h, oldText, newText)
  BY <1>2, <1>3, <1>4 DEF Fits, SideFits
<1> QED
  BY <1>5 DEF h

(* The two sections of a file. *)
LEMMA Sections ==
  ASSUME NEW A, Gap \in A, NEW c \in FileOf(A), c # Absent
  PROVE  /\ PartFrom(c.top, 1, Text(c))
         /\ PartFrom(c.end, Len(c.top) + 2, Text(c))
<1> DEFINE t == c.top
           e == c.end
           g == <<Gap>>
           tg == t \o g
           all == tg \o e
<1>1. t \in Seq(A) /\ e \in Seq(A)
  BY DEF FileOf
<1>2. Text(c) = all
  BY DEF Text
<1>3. g \in Seq(A) /\ Len(g) = 1 /\ tg = t \o g
  OBVIOUS
<1> HIDE DEF t, e, g, tg
<1>4. /\ tg \in Seq(A) /\ Len(tg) = Len(t) + 1
      /\ \A i \in 1..(Len(t) + 1) : i <= Len(t) => tg[i] = t[i]
  <2>1. tg = Append(t, Gap)
    BY <1>1, <1>3 DEF g
  <2>2. /\ tg \in Seq(A) /\ Len(tg) = Len(t) + 1
        /\ \A i \in 1..Len(t) : tg[i] = t[i]
    BY <1>1, <2>1, AppendProperties
  <2>3. Len(t) \in Nat
    BY <1>1, LenProperties
  <2> QED
    BY <2>2, <2>3
<1>5. Len(t) \in Nat /\ Len(e) \in Nat
  BY <1>1, LenProperties
<1>6. /\ Len(all) = Len(t) + 1 + Len(e)
      /\ \A i \in 1..(Len(t) + 1 + Len(e)) :
           all[i] = IF i <= Len(t) + 1 THEN tg[i] ELSE e[i - (Len(t) + 1)]
  <2>1. /\ Len(all) = Len(tg) + Len(e)
        /\ \A i \in 1..(Len(tg) + Len(e)) : all[i] = IF i <= Len(tg) THEN tg[i] ELSE e[i - Len(tg)]
    BY <1>1, <1>4, ConcatProperties
  <2> HIDE DEF all
  <2> QED
    BY <1>4, <2>1
<1> HIDE DEF all
<1>7. ASSUME NEW k \in 1..Len(t) PROVE 1 + k - 1 \in 1..Len(all) /\ all[1 + k - 1] = t[k]
  <2>1. 1 + k - 1 = k /\ k \in 1..(Len(t) + 1) /\ k \in 1..(Len(t) + 1 + Len(e)) /\ k <= Len(t) + 1 /\ k <= Len(t)
    BY <1>5
  <2> QED
    BY <1>4, <1>6, <2>1
<1>8. ASSUME NEW k \in 1..Len(e)
      PROVE  (Len(t) + 2) + k - 1 \in 1..Len(all) /\ all[(Len(t) + 2) + k - 1] = e[k]
  <2> DEFINE i == (Len(t) + 2) + k - 1
  <2>1. i \in 1..(Len(t) + 1 + Len(e)) /\ ~(i <= Len(t) + 1) /\ i - (Len(t) + 1) = k
    BY <1>5
  <2> HIDE DEF i
  <2>2. i \in 1..Len(all) /\ all[i] = e[k]
    BY <1>6, <2>1
  <2> QED
    BY <2>2 DEF i
<1>9. PartFrom(t, 1, all) /\ PartFrom(e, Len(t) + 2, all)
  BY <1>7, <1>8 DEF PartFrom
<1> QED
  BY <1>2, <1>9 DEF t, e

(* A text is a part of itself. *)
LEMMA WholeText ==
  ASSUME NEW A, NEW s \in Seq(A)
  PROVE  PartFrom(s, 1, s)
<1>1. Len(s) \in Nat
  OBVIOUS
<1>2. \A k \in 1..Len(s) : 1 + k - 1 = k
  BY <1>1
<1> QED
  BY <1>2 DEF PartFrom

(* What git prints of two files fits them. *)
LEMMA HunksFit ==
  ASSUME NEW A, Gap \in A, NEW old \in FileOf(A), NEW new \in FileOf(A),
         Text(old) \in Seq(A), Text(new) \in Seq(A)
  PROVE  \A i \in 1..Len(GitHunks(old, new)) : Fits(GitHunks(old, new)[i], Text(old), Text(new))
<1> DEFINE whole == Hunk(Text(old), Text(new), 1, 1)
           top == Hunk(old.top, new.top, 1, 1)
           end == Hunk(old.end, new.end, Len(old.top) + 2, Len(new.top) + 2)
           fit(h) == Fits(h, Text(old), Text(new))
<1>1. /\ old.top \in Seq(A) /\ old.end \in Seq(A)
      /\ new.top \in Seq(A) /\ new.end \in Seq(A)
  BY DEF FileOf
<1>2. 1 \in Nat \ {0} /\ Len(old.top) + 2 \in Nat \ {0} /\ Len(new.top) + 2 \in Nat \ {0}
  BY <1>1
<1>3. fit(whole)
  <2>1. PartFrom(Text(old), 1, Text(old)) /\ PartFrom(Text(new), 1, Text(new))
    BY WholeText
  <2> QED
    BY <1>2, <2>1, HunkFits
<1>4. ASSUME old # Absent, new # Absent PROVE fit(top) /\ fit(end)
  <2>1. PartFrom(old.top, 1, Text(old)) /\ PartFrom(old.end, Len(old.top) + 2, Text(old))
    BY <1>4, Sections
  <2>2. PartFrom(new.top, 1, Text(new)) /\ PartFrom(new.end, Len(new.top) + 2, Text(new))
    BY <1>4, Sections
  <2>3. fit(top)
    BY <1>1, <1>2, <2>1, <2>2, HunkFits
  <2>4. fit(end)
    BY <1>1, <1>2, <2>1, <2>2, HunkFits
  <2> QED
    BY <2>3, <2>4
<1> HIDE DEF whole, top, end, fit
<1> DEFINE one == IF old.top = new.top THEN <<>> ELSE <<top>>
           two == IF old.end = new.end THEN <<>> ELSE <<end>>
           g == GitHunks(old, new)
<1>5. /\ Absent.is = "absent"
      /\ g = IF "binary" \in {old.is, new.is} THEN <<>>
             ELSE IF "absent" \in {old.is, new.is} THEN <<whole>> ELSE one \o two
  BY DEF GitHunks, whole, top, end, Absent
<1>6. CASE "binary" \in {old.is, new.is}
  <2>1. g = <<>>
    BY <1>5, <1>6
  <2> HIDE DEF g
  <2>2. \A i \in 1..Len(g) : fit(g[i])
    BY <2>1
  <2> QED
    BY <2>2 DEF g, fit
<1>7. CASE "binary" \notin {old.is, new.is} /\ "absent" \in {old.is, new.is}
  <2>1. g = <<whole>>
    BY <1>5, <1>7
  <2> HIDE DEF g
  <2>2. \A i \in 1..Len(g) : fit(g[i])
    BY <1>3, <2>1
  <2> QED
    BY <2>2 DEF g, fit
<1>8. CASE "binary" \notin {old.is, new.is} /\ "absent" \notin {old.is, new.is}
  <2>1. g = one \o two /\ old # Absent /\ new # Absent
    BY <1>5, <1>8
  <2>2. fit(top) /\ fit(end)
    BY <1>4, <2>1
  <2> HIDE DEF g, fit
  <2> DEFINE good == \A i \in 1..Len(g) : fit(g[i])
  <2>3. ASSUME old.top = new.top, old.end = new.end PROVE good
    <3>1. g = <<>>
      BY <2>1, <2>3
    <3> QED
      BY <3>1
  <2>4. ASSUME old.top = new.top, old.end # new.end PROVE good
    <3>1. g = <<end>>
      BY <2>1, <2>4
    <3> QED
      BY <2>2, <3>1
  <2>5. ASSUME old.top # new.top, old.end = new.end PROVE good
    <3>1. g = <<top>>
      BY <2>1, <2>5
    <3> QED
      BY <2>2, <3>1
  <2>6. ASSUME old.top # new.top, old.end # new.end PROVE good
    <3>1. g = <<top>> \o <<end>>
      BY <2>1, <2>6
    <3>2. Len(g) = 2 /\ g[1] = top /\ g[2] = end
      BY <3>1
    <3>3. \A i \in 1..Len(g) : i = 1 \/ i = 2
      BY <3>2
    <3> QED
      BY <2>2, <3>2, <3>3
  <2>7. good
    BY <2>3, <2>4, <2>5, <2>6
  <2> QED
    BY <2>7 DEF g, fit
<1> QED
  BY <1>6, <1>7, <1>8

(* Every hunk of a diff fits the two files the diff compares. *)
Aligned(d) ==
  \A h \in 1..Len(d.hunks) : Fits(d.hunks[h], Text(d.old), Text(d.new))

AllAligned(ds) == \A i \in 1..Len(ds) : Aligned(ds[i])

(* Parsing keeps the hunks and the files they compare. *)
LEMMA ParsedAligned ==
  ASSUME NEW oldPath, NEW newPath, NEW old, NEW new, NEW hunks,
         \A h \in 1..Len(hunks) : Fits(hunks[h], Text(old), Text(new))
  PROVE  Aligned(ParseDiffText(oldPath, newPath, old, new, hunks))
<1> DEFINE d == ParseDiffText(oldPath, newPath, old, new, hunks)
<1>1. d.hunks = hunks /\ d.old = old /\ d.new = new
  BY DEF ParseDiffText
<1> HIDE DEF d
<1>2. Aligned(d)
  BY <1>1 DEF Aligned
<1> QED
  BY <1>2 DEF d

(* Each diff git prints is of two files of the two trees. *)
LEMMA GitPrints ==
  ASSUME NEW old \in [Files -> Content], NEW new \in [Files -> Content]
  PROVE  \A i \in 1..Len(GitDiff(old, new)) : \E f, g \in Files :
           GitDiff(old, new)[i] =
             ParseDiffText(g, f, old[g], new[f], GitHunks(old[g], new[f]))
<1> DEFINE R == Renames(old, new)
           r == IF R = {} THEN <<>> ELSE CHOOSE x \in R : TRUE
           from(f) == IF r # <<>> /\ f = r[2] THEN r[1] ELSE f
           shown == {f \in Files : old[f] # new[f]} \ (IF r = <<>> THEN {} ELSE {r[1]})
           parsedOf(f) == ParseDiffText(from(f), f, old[from(f)], new[f],
                                        HunksOf[<<old[from(f)], new[f]>>])
           diff == [f \in shown |-> parsedOf(f)]
           names == Among(FileOrder, shown)
           ds == [i \in DOMAIN names |-> diff[names[i]]]
<1>1. ASSUME NEW f \in Files PROVE from(f) \in Files
  <2>1. CASE R = {}
    BY <2>1
  <2>2. CASE R # {}
    <3>1. r \in R
      BY <2>2
    <3> HIDE DEF r
    <3>2. r[1] \in Files
      BY <3>1 DEF R, Renames
    <3> QED
      BY <3>2
  <2> QED
    BY <2>1, <2>2
<1>2. shown \in SUBSET Files
  OBVIOUS
<1>3. GitDiff(old, new) = ds
  <2>1. InOrder[shown] = names
    BY <1>2 DEF InOrder
  <2> QED
    BY <2>1 DEF GitDiff
<1> HIDE DEF shown, from
<1>4. ASSUME NEW f \in Files
      PROVE  \E g \in Files : parsedOf(f) = ParseDiffText(g, f, old[g], new[f], GitHunks(old[g], new[f]))
  <2> DEFINE g == from(f)
  <2>1. g \in Files /\ old[g] \in Content /\ new[f] \in Content
    BY <1>1
  <2> HIDE DEF g
  <2>2. HunksOf[<<old[g], new[f]>>] = GitHunks(old[g], new[f])
    BY <2>1 DEF HunksOf, Content
  <2>3. parsedOf(f) = ParseDiffText(g, f, old[g], new[f], GitHunks(old[g], new[f]))
    BY <2>2 DEF g
  <2> QED
    BY <2>1, <2>3
<1> HIDE DEF parsedOf
<1> DEFINE n == Len(names)
<1>5. FileOrder \in Seq(Files)
  BY DiffAssumption
<1>6. names \in Seq(Files) /\ n \in Nat /\ DOMAIN names = 1..n
  <2>1. names \in Seq(Files)
    BY <1>5, AmongEnumerates
  <2> QED
    BY <2>1, LenProperties
<1>7. \A i \in 1..n : names[i] \in shown
  <2>1. \E e : Keeps(FileOrder, Len(FileOrder), shown, names, e)
    BY <1>5, AmongEnumerates
  <2> HIDE DEF names, n
  <2>2. \A i \in 1..Len(names) : names[i] \in shown
    BY <2>1 DEF Keeps
  <2> QED
    BY <2>2 DEF n
<1> HIDE DEF names, n
<1>8. \A i \in 1..n : ds[i] = parsedOf(names[i]) /\ names[i] \in Files
  BY <1>2, <1>6, <1>7
<1>9. Len(ds) = n
  BY <1>6
<1> HIDE DEF ds
<1> QED
  BY <1>3, <1>4, <1>8, <1>9

(* The diffs of a git command are aligned. *)
LEMMA GitAligned ==
  ASSUME NEW old \in [Files -> Content], NEW new \in [Files -> Content]
  PROVE  AllAligned(GitDiff(old, new))
<1> DEFINE ds == GitDiff(old, new)
<1>1. \A i \in 1..Len(ds) : \E f, g \in Files :
        ds[i] = ParseDiffText(g, f, old[g], new[f], GitHunks(old[g], new[f]))
  BY GitPrints
<1> HIDE DEF ds
<1>2. ASSUME NEW i \in 1..Len(ds) PROVE Aligned(ds[i])
  <2>1. PICK f \in Files, g \in Files :
          ds[i] = ParseDiffText(g, f, old[g], new[f], GitHunks(old[g], new[f]))
    BY <1>1
  <2> DEFINE a == old[g]
             b == new[f]
  <2>2. a \in Content /\ b \in Content
    OBVIOUS
  <2> HIDE DEF a, b
  <2>3. /\ Gap \in Lines /\ a \in FileOf(Lines) /\ b \in FileOf(Lines)
        /\ Text(a) \in Seq(Lines) /\ Text(b) \in Seq(Lines)
    BY <2>2, ContentLines, DiffAssumption DEF Lines
  <2>4. \A h \in 1..Len(GitHunks(a, b)) : Fits(GitHunks(a, b)[h], Text(a), Text(b))
    BY <2>3, HunksFit
  <2>5. Aligned(ParseDiffText(g, f, a, b, GitHunks(a, b)))
    BY <2>4, ParsedAligned
  <2> QED
    BY <2>1, <2>5 DEF a, b
<1>3. AllAligned(ds)
  BY <1>2 DEF AllAligned
<1> QED
  BY <1>3 DEF ds

(* The two blank lines at the end of a diff made up for an untracked file. *)
BlankTail == <<"", "">>

(* Two times the same. *)
LEMMA PairOf ==
  ASSUME NEW A, NEW b \in A
  PROVE  <<b, b>> \in Seq(A) /\ Len(<<b, b>>) = 2 /\ \A k \in 1..2 : <<b, b>>[k] = b
<1>1. <<b, b>> \in Seq(A) /\ Len(<<b, b>>) = 2 /\ <<b, b>>[1] = b /\ <<b, b>>[2] = b
  OBVIOUS
<1>2. \A k \in 1..2 : k = 1 \/ k = 2
  OBVIOUS
<1> QED
  BY <1>1, <1>2

(* They are lines of text without a mark. *)
LEMMA TailLines ==
  ASSUME NEW A, "" \in A
  PROVE  /\ BlankTail \in Seq(A) /\ Len(BlankTail) = 2 /\ \A k \in 1..2 : BlankTail[k] = ""
         /\ Marked("", BlankTail) \in Seq(LineOf(A)) /\ Showing(Marked("", BlankTail), BlankTail)
         /\ AllMarked(Marked("", BlankTail), "")
<1>1. BlankTail \in Seq(A) /\ Len(BlankTail) = 2 /\ \A k \in 1..2 : BlankTail[k] = ""
  BY PairOf, Zenon DEF BlankTail
<1>2. "" \in {"", " ", "-", "+"}
  OBVIOUS
<1>3. /\ Marked("", BlankTail) \in Seq(LineOf(A)) /\ Showing(Marked("", BlankTail), BlankTail)
      /\ AllMarked(Marked("", BlankTail), "")
  BY <1>1, <1>2, MarkedShows, Zenon
<1> QED
  BY <1>1, <1>3, Zenon

(* Lines without a mark are on both sides. *)
LEMMA TailOnSides ==
  ASSUME NEW L, NEW m \in Seq(L), AllMarked(m, "")
  PROVE  \A newSide : Among(m, Sided(L, newSide)) = m
<1> SUFFICES ASSUME NEW newSide PROVE Among(m, Sided(L, newSide)) = m
  OBVIOUS
<1>1. \A k \in 1..Len(m) : m[k] \in L /\ m[k].mark = ""
  BY ElementOfSeq DEF AllMarked
<1>2. \A k \in 1..Len(m) : m[k] \in Sided(L, newSide)
  BY <1>1 DEF OnSide, Sided
<1> DEFINE K == Sided(L, newSide)
<1> HIDE DEF K
<1>3. Among(m, K) = m
  BY <1>2, AmongAll DEF K
<1> QED
  BY <1>3 DEF K

(* A hunk with the tail shows it on both sides. *)
LEMMA TailedSides ==
  ASSUME NEW A, "" \in A, NEW old \in Seq(A), NEW new \in Seq(A),
         NEW g, Sides(g, LineOf(A), old, new),
         NEW h, h.raw = g.raw \o Marked("", BlankTail)
  PROVE  Sides(h, LineOf(A), old \o BlankTail, new \o BlankTail)
<1> DEFINE L == LineOf(A)
           m == Marked("", BlankTail)
           N == Sided(L, TRUE)
           O == Sided(L, FALSE)
<1>1. BlankTail \in Seq(A) /\ m \in Seq(L) /\ Showing(m, BlankTail) /\ AllMarked(m, "")
  BY TailLines
<1>2. /\ g.raw \in Seq(L)
      /\ Side(g, TRUE) \in Seq(L) /\ Showing(Side(g, TRUE), new)
      /\ Side(g, FALSE) \in Seq(L) /\ Showing(Side(g, FALSE), old)
  BY DEF Sides
<1>3. h.raw = g.raw \o m
  OBVIOUS
<1> HIDE DEF m, L
<1>4. h.raw \in Seq(L)
  <2>1. g.raw \o m \in Seq(L)
    BY <1>1, <1>2, ConcatProperties
  <2> QED
    BY <1>3, <2>1
<1>5. Among(m, N) = m /\ Among(m, O) = m
  <2>1. \A newSide : Among(m, Sided(L, newSide)) = m
    BY <1>1, TailOnSides
  <2> QED
    BY <2>1, Zenon
<1>6. Side(h, TRUE) = Among(h.raw, N) /\ Side(h, FALSE) = Among(h.raw, O)
  BY <1>4, SideIs
<1>7. Side(g, TRUE) = Among(g.raw, N) /\ Side(g, FALSE) = Among(g.raw, O)
  BY <1>2, SideIs
<1> HIDE DEF N, O
<1>8. /\ Among(g.raw \o m, N) = Among(g.raw, N) \o Among(m, N)
      /\ Among(g.raw \o m, O) = Among(g.raw, O) \o Among(m, O)
  BY <1>1, <1>2, AmongConcat, Zenon
<1>9. Side(h, TRUE) = Side(g, TRUE) \o m /\ Side(h, FALSE) = Side(g, FALSE) \o m
  BY <1>3, <1>5, <1>6, <1>7, <1>8, Zenon
<1>10. Showing(Side(g, TRUE) \o m, new \o BlankTail) /\ Side(g, TRUE) \o m \in Seq(L)
  BY <1>1, <1>2, ShowingConcat
<1>11. Showing(Side(g, FALSE) \o m, old \o BlankTail) /\ Side(g, FALSE) \o m \in Seq(L)
  BY <1>1, <1>2, ShowingConcat
<1>12. Sides(h, L, old \o BlankTail, new \o BlankTail)
  BY <1>4, <1>9, <1>10, <1>11, Zenon DEF Sides
<1> QED
  BY <1>12 DEF L

(* A text with blank lines after it goes on like the text. *)
Blank(l) == Norm[l] = ""

LEMMA TailContinues ==
  ASSUME NEW A, NEW t \in Seq(A), NEW u \in Seq(A), \A k \in 1..Len(u) : Blank(u[k])
  PROVE  Continues(t \o u, 1, t)
<1> DEFINE tt == t \o u
<1>2. Len(t) \in Nat /\ Len(u) \in Nat
  BY LenProperties
<1>3. Len(tt) = Len(t) + Len(u) /\ \A k \in 1..(Len(t) + Len(u)) : tt[k] = IF k <= Len(t) THEN t[k] ELSE u[k - Len(t)]
  BY ConcatProperties
<1> HIDE DEF tt
<1>4. ASSUME NEW k \in 1..Len(tt)
      PROVE  IF 1 + k - 1 \in 1..Len(t) THEN t[1 + k - 1] = tt[k] ELSE Blank(tt[k])
  <2>1. 1 + k - 1 = k /\ k \in 1..(Len(t) + Len(u))
    BY <1>2, <1>3
  <2>2. CASE k <= Len(t)
    <3>1. k \in 1..Len(t) /\ tt[k] = t[k]
      BY <1>2, <1>3, <2>1, <2>2
    <3> QED
      BY <2>1, <3>1
  <2>3. CASE ~(k <= Len(t))
    <3>1. k \notin 1..Len(t) /\ tt[k] = u[k - Len(t)] /\ k - Len(t) \in 1..Len(u)
      BY <1>2, <1>3, <2>1, <2>3
    <3>2. Blank(tt[k])
      BY <3>1
    <3> QED
      BY <2>1, <3>1, <3>2
  <2> QED
    BY <2>2, <2>3
<1>5. Continues(tt, 1, t)
  BY <1>4, Zenon DEF Continues, Blank
<1> QED
  BY <1>5 DEF tt

(* The diff made up for an untracked file is aligned, in spite of its tail. *)
LEMMA UntrackedAligned ==
  ASSUME NEW f \in Files, worktree[f] \in Contents
  PROVE  Aligned(UntrackedDiff(f))
<1> DEFINE none == <<>>
           c == worktree[f]
           t == [c EXCEPT !.is = "text"]
           text == Text(c)
           g == Hunk(none, text, 1, 1)
           h == [g EXCEPT !.raw = g.raw \o Marked("", BlankTail)]
           hs == <<h>>
           L == LineOf(Lines)
<1>1. UntrackedDiff(f) = ParseDiffText(f, f, Absent, t, hs)
  BY DEF UntrackedDiff, BlankTail
<1>2. c # Absent /\ c \in FileOf(Lines) /\ text \in Seq(Lines) /\ text # <<>>
  <2>1. c \in Content
    BY DEF Content
  <2>2. c.is \in {"text", "binary"}
    BY DiffAssumption
  <2>3. Absent.is = "absent"
    BY DEF Absent
  <2>4. c # Absent /\ c \in FileOf(Lines) /\ text \in Seq(Lines)
    BY <2>1, <2>2, <2>3, ContentLines
  <2> DEFINE x == c.top
             y == c.end
  <2>5. x \in Seq(Lines) /\ y \in Seq(Lines) /\ Gap \in Lines /\ text = x \o <<Gap>> \o y
    BY <2>4, DiffAssumption DEF FileOf, Text, Lines
  <2> HIDE DEF x, y, text
  <2>6. text # <<>>
    BY <2>5
  <2> QED
    BY <2>4, <2>6
<1>3. Text(t) = text /\ Text(Absent) = <<>>
  <2> HIDE DEF c
  <2>1. t.is = "text" /\ Absent.is = "absent" /\ t.top = c.top /\ t.end = c.end
    BY <1>2 DEF FileOf, Absent
  <2> HIDE DEF t
  <2> QED
    BY <1>2, <2>1 DEF Text
<1>4. "" \in Lines /\ Norm[""] = ""
  BY DiffAssumption DEF Lines
<1>5. none \in Seq(Lines)
  OBVIOUS
<1>6. /\ g.oldStart = Start(none, 1) /\ g.newStart = Start(text, 1)
      /\ Sides(g, L, none, text)
      /\ g = [oldStart |-> g.oldStart, newStart |-> g.newStart, raw |-> g.raw]
  <2> HIDE DEF text, none
  <2>1. /\ g.oldStart = Start(none, 1) /\ g.newStart = Start(text, 1)
        /\ Sides(g, L, none, text)
    BY <1>2, <1>5, HunkSides
  <2>2. g = [oldStart |-> Start(none, 1), newStart |-> Start(text, 1), raw |-> g.raw]
    BY <1>2, <1>5, HunkIs
  <2> QED
    BY <2>1, <2>2
<1>7. Start(none, 1) = 0 /\ Start(text, 1) = 1
  BY <1>2 DEF Start
<1> HIDE DEF g
<1>8. h.oldStart = 0 /\ h.newStart = 1 /\ h.raw = g.raw \o Marked("", BlankTail)
  BY <1>6, <1>7
<1> HIDE DEF h, c, text
<1>9. Sides(h, L, none \o BlankTail, text \o BlankTail)
  BY <1>2, <1>4, <1>5, <1>6, <1>8, TailedSides
<1>10. BlankTail \in Seq(Lines)
  BY <1>4, TailLines
<1>11. none \o BlankTail = BlankTail /\ text \o BlankTail \in Seq(Lines)
  BY <1>2, <1>10
<1> HIDE DEF none
<1>12. /\ Side(h, TRUE) \in Seq(L) /\ Showing(Side(h, TRUE), text \o BlankTail)
       /\ Side(h, FALSE) \in Seq(L) /\ Showing(Side(h, FALSE), BlankTail)
  BY <1>9, <1>11, Zenon DEF Sides
<1>13. SideFits(h, TRUE, text)
  <2> DEFINE s == text \o BlankTail
  <2>1. Continues(s, 1, text) /\ s \in Seq(Lines)
    <3>1. \A k \in 1..Len(BlankTail) : Blank(BlankTail[k])
      <4>1. Len(BlankTail) = 2 /\ \A k \in 1..2 : BlankTail[k] = ""
        BY <1>4, TailLines
      <4> QED
        BY <1>4, <4>1, Zenon DEF Blank
    <3> QED
      BY <1>2, <1>10, <1>11, <3>1, TailContinues
  <2>2. SideShows(h, TRUE, L, s, 1)
    BY <1>8, <1>12 DEF SideShows, FirstOf
  <2> HIDE DEF s
  <2>3. \A newSide : SideShows(h, newSide, L, s, 1) => SideFits(h, newSide, text)
    BY <2>1, SideReads
  <2> QED
    BY <2>2, <2>3, Zenon
<1>14. SideFits(h, FALSE, <<>>)
  <2>1. Continues(BlankTail, 0, <<>>)
    <3>1. Len(BlankTail) = 2 /\ \A k \in 1..2 : BlankTail[k] = ""
      BY <1>4, TailLines
    <3> DEFINE empty == <<>>
    <3>2. \A k \in 1..2 : 0 + k - 1 \notin 1..Len(empty)
      OBVIOUS
    <3>3. \A k \in 1..2 : Norm[BlankTail[k]] = ""
      BY <1>4, <3>1
    <3> HIDE DEF empty
    <3>4. Continues(BlankTail, 0, empty)
      BY <3>1, <3>2, <3>3 DEF Continues
    <3> QED
      BY <3>4 DEF empty
  <2>2. SideShows(h, FALSE, L, BlankTail, 0)
    BY <1>8, <1>12 DEF SideShows, FirstOf
  <2> DEFINE empty == <<>>
  <2> HIDE DEF empty
  <2>3. \A newSide : SideShows(h, newSide, L, BlankTail, 0) => SideFits(h, newSide, empty)
    BY <1>10, <2>1, SideReads DEF empty
  <2> QED
    BY <2>2, <2>3, Zenon DEF empty
<1>15. Fits(h, <<>>, text)
  <2>1. FirstOf(h, TRUE) = h.newStart /\ FirstOf(h, FALSE) = h.oldStart
    BY DEF FirstOf
  <2> QED
    BY <1>13, <1>14, <2>1 DEF Fits, SideFits
<1>16. \A i \in 1..Len(hs) : Fits(hs[i], Text(Absent), Text(t))
  <2>1. Len(hs) = 1 /\ hs[1] = h
    OBVIOUS
  <2>2. \A i \in 1..Len(hs) : i = 1
    BY <2>1
  <2> HIDE DEF hs
  <2> QED
    BY <1>3, <1>15, <2>1, <2>2
<1> HIDE DEF hs, t
<1>17. Aligned(ParseDiffText(f, f, Absent, t, hs))
  BY <1>16, ParsedAligned
<1> QED
  BY <1>1, <1>17

------------------------------------------------------------------------------
(* Searching the lines. *)

(* What is searched for: some lines, none of them blank. *)
Target(t) ==
  /\ Len(t) \in Nat \ {0} /\ DOMAIN t = 1..Len(t)
  /\ \A j \in 1..Len(t) : t[j] # ""

(* The text has the target's lines from its line first. *)
ReadAt(text, t, first) ==
  /\ first + Len(t) - 1 <= Len(text)
  /\ \A j \in DOMAIN t : Norm[text[first + j - 1]] = t[j]

(* A place that is the target's. *)
PlaceAt(text, t, p) ==
  /\ p # Unplaced
  /\ p.start \in Nat \ {0} /\ p.end = p.start + Len(t) - 1
  /\ ReadAt(text, t, p.start)

(* A run of lines that equals the target is where the numbers say. *)
LEMMA RunIsThere ==
  ASSUME NEW s, NEW first, NEW text, Reads(s, first, text), Len(text) \in Nat,
         NEW t, Target(t), NEW i \in Runs(s, t)
  PROVE  /\ i \in 1..Len(s) /\ i + Len(t) - 1 \in 1..Len(s)
         /\ s[i].num = first + i - 1 /\ s[i + Len(t) - 1].num = (first + i - 1) + Len(t) - 1
         /\ first + i - 1 \in Nat \ {0} /\ ReadAt(text, t, first + i - 1)
<1> DEFINE m == Len(t)
           n == Len(s)
           x == first + i - 1
<1>1. /\ m \in Nat \ {0} /\ DOMAIN t = 1..m /\ n \in Nat /\ first \in Nat
      /\ i \in 1..(n - m + 1)
      /\ \A j \in 1..m : s[i + j - 1].text = t[j]
  BY DEF Target, Reads, Runs
<1>2. i \in 1..n /\ i + m - 1 \in 1..n
  BY <1>1
<1>3. \A k \in 1..n :
        /\ s[k].num = first + k - 1
        /\ s[k].text = IF first + k - 1 \in 1..Len(text) THEN Norm[text[first + k - 1]] ELSE ""
  BY DEF Reads
<1>4. ASSUME NEW j \in 1..m
      PROVE  x + j - 1 \in 1..Len(text) /\ Norm[text[x + j - 1]] = t[j]
  <2> DEFINE k == i + j - 1
  <2>1. k \in 1..n /\ first + k - 1 = x + j - 1
    BY <1>1
  <2>2. s[k].text = t[j]
    BY <1>1
  <2>3. t[j] # ""
    BY DEF Target
  <2> HIDE DEF k, x, n, m
  <2>4. s[k].text = IF first + k - 1 \in 1..Len(text) THEN Norm[text[first + k - 1]] ELSE ""
    BY <1>3, <2>1
  <2> QED
    BY <2>1, <2>2, <2>3, <2>4, Zenon
<1>5. s[i].num = x /\ s[i + m - 1].num = x + m - 1
  <2>1. s[i].num = x
    BY <1>2, <1>3
  <2>2. s[i + m - 1].num = first + (i + m - 1) - 1
    BY <1>2, <1>3
  <2>3. first + (i + m - 1) - 1 = x + m - 1
    BY <1>1
  <2> QED
    BY <2>1, <2>2, <2>3
<1>6. 1 \in 1..m /\ m \in 1..m
  BY <1>1
<1>7. x + 1 - 1 \in 1..Len(text) /\ x + m - 1 \in 1..Len(text)
  BY <1>4, <1>6
<1>8. x \in Nat \ {0} /\ x + m - 1 <= Len(text)
  BY <1>1, <1>7
<1>9. ReadAt(text, t, x)
  BY <1>1, <1>4, <1>8 DEF ReadAt
<1> QED
  BY <1>2, <1>5, <1>8, <1>9

(* What is found is the target, and what is there is found. *)
LEMMA Matched ==
  ASSUME NEW s, NEW first, NEW text, Reads(s, first, text), Len(text) \in Nat,
         NEW t, Target(t)
  PROVE  IF Runs(s, t) = {} THEN MatchConsecutive(s, t) = Unplaced
                            ELSE PlaceAt(text, t, MatchConsecutive(s, t))
<1>1. t # <<>>
  <2>1. Len(t) # 0
    BY DEF Target
  <2>2. t = <<>> => Len(t) = 0
    OBVIOUS
  <2> QED
    BY <2>1, <2>2
<1>2. CASE Runs(s, t) = {}
  BY <1>2 DEF MatchConsecutive
<1>3. CASE Runs(s, t) # {}
  <2> DEFINE i == Min(Runs(s, t))
             p == MatchConsecutive(s, t)
             x == first + i - 1
  <2>1. i \in Runs(s, t)
    <3>1. Runs(s, t) \in SUBSET Nat
      <4>1. Runs(s, t) \in SUBSET (1..(Len(s) - Len(t) + 1))
        BY DEF Runs
      <4>2. Len(s) \in Nat /\ Len(t) \in Nat
        BY DEF Reads, Target
      <4> QED
        BY <4>1, <4>2
    <3> QED
      BY <1>3, <3>1, MinIsIn
  <2>2. p = [start |-> s[i].num, end |-> s[i + Len(t) - 1].num]
    BY <1>1, <1>3 DEF MatchConsecutive
  <2> HIDE DEF i, p
  <2>3. /\ s[i].num = x /\ s[i + Len(t) - 1].num = x + Len(t) - 1
        /\ x \in Nat \ {0} /\ ReadAt(text, t, x)
    BY <2>1, RunIsThere
  <2> HIDE DEF x
  <2>4. p.start = x /\ p.end = x + Len(t) - 1
    BY <2>2, <2>3
  <2>5. p # Unplaced
    BY <2>3, <2>4 DEF Unplaced
  <2>6. PlaceAt(text, t, p)
    BY <2>3, <2>4, <2>5 DEF PlaceAt
  <2> QED
    BY <1>3, <2>6 DEF p
<1> QED
  BY <1>2, <1>3

(* A target among the lines has a run. *)
LEMMA Missed ==
  ASSUME NEW s, NEW first, NEW text, Reads(s, first, text), Len(text) \in Nat,
         NEW t, Target(t), NEW x \in Nat \ {0}, x >= first, x + Len(t) <= first + Len(s),
         ReadAt(text, t, x)
  PROVE  Runs(s, t) # {}
<1> DEFINE m == Len(t)
           n == Len(s)
           i == x - first + 1
<1>1. /\ m \in Nat \ {0} /\ DOMAIN t = 1..m /\ n \in Nat /\ first \in Nat
  BY DEF Target, Reads
<1>2. i \in 1..(n - m + 1)
  BY <1>1
<1>3. ASSUME NEW j \in 1..m PROVE s[i + j - 1].text = t[j]
  <2> DEFINE k == i + j - 1
  <2>1. k \in 1..n /\ first + k - 1 = x + j - 1
    BY <1>1
  <2>2. x + j - 1 \in 1..Len(text)
    BY <1>1 DEF ReadAt
  <2>3. Norm[text[x + j - 1]] = t[j]
    BY <1>1 DEF ReadAt
  <2>4. s[k].text = IF first + k - 1 \in 1..Len(text) THEN Norm[text[first + k - 1]] ELSE ""
    BY <2>1 DEF Reads
  <2> HIDE DEF k
  <2>5. s[k].text = t[j]
    BY <2>1, <2>2, <2>3, <2>4, Zenon
  <2> QED
    BY <2>5 DEF k
<1> HIDE DEF i
<1>4. i \in Runs(s, t)
  BY <1>1, <1>2, <1>3 DEF Runs
<1> QED
  BY <1>4

(* The first place that is one. *)
LEMMA FirstFound ==
  ASSUME NEW places, NEW n \in Nat, DOMAIN places = 1..n
  PROVE  \/ FirstPlace(places) = Unplaced /\ \A i \in 1..n : places[i] = Unplaced
         \/ \E i \in 1..n : /\ FirstPlace(places) = places[i] /\ places[i] # Unplaced
                           /\ \A k \in 1..n : k < i => places[k] = Unplaced
<1> DEFINE found == {i \in 1..n : places[i] # Unplaced}
           m == Min(found)
<1>1. FirstPlace(places) = IF found = {} THEN Unplaced ELSE places[m]
  BY DEF FirstPlace
<1>2. found \in SUBSET Nat
  OBVIOUS
<1>3. CASE found = {}
  BY <1>1, <1>3
<1>4. CASE found # {}
  <2>1. m \in found /\ \A k \in found : m <= k
    BY <1>2, <1>4, MinIsIn
  <2> HIDE DEF m
  <2>2. \A k \in 1..n : k < m => k \notin found
    BY <1>2, <2>1
  <2> QED
    BY <1>1, <1>4, <2>1, <2>2
<1> QED
  BY <1>3, <1>4

(* One round after the other. *)
LEMMA TwoRounds ==
  ASSUME NEW n \in Nat, NEW a, DOMAIN a = 1..n, a = [h \in 1..n |-> a[h]],
         NEW b, DOMAIN b = 1..n, b = [h \in 1..n |-> b[h]]
  PROVE  /\ DOMAIN (a \o b) = 1..(n + n)
         /\ \A i \in 1..(n + n) : (a \o b)[i] = IF i <= n THEN a[i] ELSE b[i - n]
<1> DEFINE S == {a[h] : h \in 1..n} \cup {b[h] : h \in 1..n}
<1>1. a \in [1..n -> S] /\ b \in [1..n -> S]
  OBVIOUS
<1> HIDE DEF S
<1>2. a \in Seq(S) /\ b \in Seq(S)
  BY <1>1, SeqDef
<1>3. Len(a) = n /\ Len(b) = n
  <2>1. Len(a) \in Nat /\ 1..Len(a) = 1..n /\ Len(b) \in Nat /\ 1..Len(b) = 1..n
    BY <1>2, LenProperties
  <2> QED
    BY <2>1, SameInterval
<1> DEFINE c == a \o b
<1>4. /\ c \in Seq(S) /\ Len(c) = Len(a) + Len(b)
      /\ \A i \in 1..(Len(a) + Len(b)) : c[i] = IF i <= Len(a) THEN a[i] ELSE b[i - Len(a)]
  BY <1>2, ConcatProperties
<1> HIDE DEF c
<1>5. DOMAIN c = 1..Len(c)
  BY <1>4, LenProperties
<1>6. /\ DOMAIN c = 1..(n + n)
      /\ \A i \in 1..(n + n) : c[i] = IF i <= n THEN a[i] ELSE b[i - n]
  BY <1>3, <1>4, <1>5
<1> QED
  BY <1>6 DEF c

(* git's hunks have no note about a missing newline. *)
LEMMA NoNotes ==
  ASSUME NEW hunks \in Seq(HunkOf(Lines))
  PROVE  ParseHunks(hunks) = hunks
<1> DEFINE n == Len(hunks)
           L == LineOf(Lines)
           real(raw) == {l \in Range(raw) : l.mark # "\\"}
<1>1. n \in Nat /\ DOMAIN hunks = 1..n /\ \A h \in 1..n : hunks[h] \in HunkOf(Lines)
  BY LenProperties, ElementOfSeq
<1>2. ASSUME NEW h \in HunkOf(Lines)
      PROVE  [h EXCEPT !.raw = Among(@, real(@))] = h
  <2> DEFINE raw == h.raw
  <2>1. raw \in Seq(L) /\ h = [h EXCEPT !.raw = raw]
    BY DEF HunkOf
  <2> HIDE DEF raw, L
  <2>2. \A k \in 1..Len(raw) : raw[k] \in real(raw)
    <3>1. \A k \in 1..Len(raw) : raw[k] \in L
      BY <2>1, ElementOfSeq
    <3>2. DOMAIN raw = 1..Len(raw)
      BY <2>1, LenProperties
    <3>3. \A l \in L : l.mark # "\\"
      BY DEF L, LineOf
    <3> QED
      BY <3>1, <3>2, <3>3 DEF Range
  <2> HIDE DEF real
  <2>3. Among(raw, real(raw)) = raw
    BY <2>1, <2>2, AmongAll
  <2> QED
    BY <2>1, <2>3, Zenon DEF raw
<1> HIDE DEF n
<1>3. ParseHunks(hunks) = [h \in 1..n |-> [hunks[h] EXCEPT !.raw = Among(@, real(@))]]
  BY <1>1 DEF ParseHunks
<1> HIDE DEF real
<1>4. \A h \in 1..n : [hunks[h] EXCEPT !.raw = Among(@, real(@))] = hunks[h]
  BY <1>1, <1>2
<1>5. hunks = [h \in 1..n |-> hunks[h]]
  BY <1>1
<1> QED
  BY <1>3, <1>4, <1>5

(* What of a quote is searched for. *)
LEMMA TargetOf ==
  ASSUME NEW code \in Seq(Lines)
  PROVE  SplitAndNormalize(code) = <<>> \/ Target(SplitAndNormalize(code))
<1> DEFINE S == {Norm[l] : l \in Lines}
           lines == [i \in DOMAIN code |-> Norm[code[i]]]
           K == Range(lines) \ {""}
           t == SplitAndNormalize(code)
<1>1. t = Among(lines, K)
  BY DEF SplitAndNormalize
<1>2. lines \in Seq(S)
  <2>1. Len(code) \in Nat /\ DOMAIN code = 1..Len(code) /\ \A i \in 1..Len(code) : code[i] \in Lines
    BY LenProperties, ElementOfSeq
  <2>2. lines \in [1..Len(code) -> S]
    BY <2>1
  <2> HIDE DEF lines, S
  <2> QED
    BY <2>1, <2>2, SeqDef
<1> HIDE DEF lines, S
<1>3. t \in Seq(S) /\ \E e : Keeps(lines, Len(lines), K, t, e)
  <2> HIDE DEF K, t
  <2> QED
    BY <1>1, <1>2, AmongEnumerates
<1>4. \A j \in 1..Len(t) : t[j] \in K
  <2> HIDE DEF K, t
  <2> QED
    BY <1>3 DEF Keeps
<1> HIDE DEF t
<1>5. Len(t) \in Nat /\ DOMAIN t = 1..Len(t)
  BY <1>3, LenProperties
<1>6. Len(t) = 0 => t = <<>>
  BY <1>3, EmptySeq
<1>7. \A j \in 1..Len(t) : t[j] # ""
  BY <1>4
<1>8. t = <<>> \/ Target(t)
  BY <1>5, <1>6, <1>7 DEF Target
<1> QED
  BY <1>8 DEF t

(* The target in one hunk, on one side. *)
OnHunk(d, h, newSide, t) == MatchConsecutive(ExtractSideLines(d.hunks[h], newSide), t)

(* A place in a hunk is on a new side, or on an old one when no new side has one. *)
LEMMA HunkPlaces ==
  ASSUME NEW d, d.hunks \in Seq(HunkOf(Lines)), NEW code, NEW t, t = SplitAndNormalize(code)
  PROVE  LET p == ResolveFromHunk(d, code)
         IN  \/ p = Unplaced
             \/ \E h \in 1..Len(d.hunks) : p = OnHunk(d, h, TRUE, t)
             \/ \E h \in 1..Len(d.hunks) :
                  /\ p = OnHunk(d, h, FALSE, t)
                  /\ \A k \in 1..Len(d.hunks) : OnHunk(d, k, TRUE, t) = Unplaced
<1> DEFINE n == Len(d.hunks)
           a == [h \in 1..n |-> OnHunk(d, h, TRUE, t)]
           b == [h \in 1..n |-> OnHunk(d, h, FALSE, t)]
           p == ResolveFromHunk(d, code)
           ab == a \o b
<1>1. n \in Nat /\ DOMAIN d.hunks = 1..n /\ ParseHunks(d.hunks) = d.hunks
  BY LenProperties, NoNotes
<1>2. p = FirstPlace(ab)
  BY <1>1 DEF ResolveFromHunk, OnHunk
<1>3. \A h \in 1..n : a[h] = OnHunk(d, h, TRUE, t) /\ b[h] = OnHunk(d, h, FALSE, t)
  OBVIOUS
<1>4. DOMAIN a = 1..n /\ a = [h \in 1..n |-> a[h]] /\ DOMAIN b = 1..n /\ b = [h \in 1..n |-> b[h]]
  OBVIOUS
<1> HIDE DEF n, a, b, p
<1>5. /\ DOMAIN ab = 1..(n + n)
      /\ \A i \in 1..(n + n) : ab[i] = IF i <= n THEN a[i] ELSE b[i - n]
  BY <1>1, <1>4, TwoRounds
<1> HIDE DEF ab
<1>6. \/ p = Unplaced
      \/ \E i \in 1..(n + n) : /\ p = ab[i] /\ ab[i] # Unplaced
                               /\ \A k \in 1..(n + n) : k < i => ab[k] = Unplaced
  BY <1>1, <1>2, <1>5, FirstFound
<1>7. ASSUME NEW i \in 1..(n + n), p = ab[i], \A k \in 1..(n + n) : k < i => ab[k] = Unplaced
      PROVE  \/ \E h \in 1..n : p = OnHunk(d, h, TRUE, t)
             \/ \E h \in 1..n : /\ p = OnHunk(d, h, FALSE, t)
                               /\ \A k \in 1..n : OnHunk(d, k, TRUE, t) = Unplaced
  <2>1. CASE i <= n
    <3>1. i \in 1..n /\ ab[i] = a[i]
      BY <1>1, <1>5, <2>1
    <3> QED
      BY <1>3, <1>7, <3>1
  <2>2. CASE ~(i <= n)
    <3>1. i - n \in 1..n /\ ab[i] = b[i - n]
      BY <1>1, <1>5, <2>2
    <3>2. \A k \in 1..n : k \in 1..(n + n) /\ k < i /\ k <= n
      BY <1>1, <2>2
    <3>3. \A k \in 1..n : a[k] = Unplaced
      BY <1>5, <1>7, <3>2
    <3> QED
      BY <1>3, <1>7, <3>1, <3>3
  <2> QED
    BY <2>1, <2>2
<1>8. \/ p = Unplaced
      \/ \E h \in 1..n : p = OnHunk(d, h, TRUE, t)
      \/ \E h \in 1..n : /\ p = OnHunk(d, h, FALSE, t)
                         /\ \A k \in 1..n : OnHunk(d, k, TRUE, t) = Unplaced
  BY <1>6, <1>7
<1> QED
  BY <1>8 DEF p, n

(* The second place counts when the first is none. *)
LEMMA FirstOfTwo ==
  ASSUME NEW a, NEW b
  PROVE  FirstPlace(<<a, b>>) = IF a # Unplaced THEN a ELSE b
<1> DEFINE places == <<a, b>>
<1>1. DOMAIN places = 1..2 /\ places[1] = a /\ places[2] = b
  OBVIOUS
<1> HIDE DEF places
<1>2. \/ FirstPlace(places) = Unplaced /\ \A i \in 1..2 : places[i] = Unplaced
      \/ \E i \in 1..2 : /\ FirstPlace(places) = places[i] /\ places[i] # Unplaced
                        /\ \A k \in 1..2 : k < i => places[k] = Unplaced
  BY <1>1, FirstFound
<1>3. /\ 1 \in 1..2 /\ 2 \in 1..2 /\ 1 < 2
      /\ \A i \in 1..2 : i = 1 \/ i = 2
  OBVIOUS
<1>4. FirstPlace(places) = IF a # Unplaced THEN a ELSE b
  BY <1>1, <1>2, <1>3, Zenon
<1> QED
  BY <1>4 DEF places

(* p is where the target is in the new file, or in the old one when no hunk
   shows it in the new one. *)
PlacedAt(d, t, p) ==
  /\ p.end = p.start + Len(t) - 1
  /\ \/ ReadAt(Text(d.new), t, p.start)
     \/ /\ ReadAt(Text(d.old), t, p.start)
        /\ \A h \in 1..Len(d.hunks) : \A first \in 1..Len(Text(d.new)) :
             ~(/\ ReadAt(Text(d.new), t, first)
               /\ first >= d.hunks[h].newStart
               /\ first + Len(t) <= d.hunks[h].newStart + Len(Side(d.hunks[h], TRUE)))

(* The files of a diff, its hunks and its content are made of lines. *)
LEMMA DiffTexts ==
  ASSUME NEW d \in Diffs
  PROVE  /\ Text(d.old) \in Seq(Lines) /\ Text(d.new) \in Seq(Lines)
         /\ d.hunks \in Seq(HunkOf(Lines)) /\ d.content \in Seq(Lines)
<1>1. d.old \in FileOf(Lines) /\ d.new \in FileOf(Lines)
  BY DEF Diffs
<1>2. d.hunks \in Seq(HunkOf(Lines)) /\ d.content \in Seq(Lines)
  BY DEF Diffs
<1>3. Gap \in Lines
  BY DiffAssumption DEF Lines
<1>4. \A c \in FileOf(Lines) : Text(c) \in Seq(Lines)
  BY <1>3, TextLines
<1> QED
  BY <1>1, <1>2, <1>4

(* The content is searched from its first line to its last. *)
LEMMA ContentReads ==
  ASSUME NEW text \in Seq(Lines)
  PROVE  LET s == [i \in DOMAIN text |-> [num |-> i, text |-> Norm[text[i]]]]
         IN  Reads(s, 1, text) /\ Len(s) = Len(text)
<1> DEFINE n == Len(text)
           line(i) == [num |-> i, text |-> Norm[text[i]]]
           s == [i \in 1..n |-> line(i)]
<1>1. n \in Nat /\ DOMAIN text = 1..n
  BY LenProperties
<1>2. \A i \in 1..n : line(i).num = i /\ line(i).text = Norm[text[i]]
  OBVIOUS
<1> HIDE DEF line, n
<1>3. DOMAIN s = 1..n /\ \A i \in 1..n : s[i] = line(i)
  OBVIOUS
<1>4. Len(s) = n
  BY <1>1
<1> HIDE DEF s
<1>5. ASSUME NEW k \in 1..n
      PROVE  /\ s[k].num = 1 + k - 1
             /\ s[k].text = IF 1 + k - 1 \in 1..n THEN Norm[text[1 + k - 1]] ELSE ""
  <2>1. 1 + k - 1 = k
    BY <1>1
  <2> QED
    BY <1>2, <1>3, <2>1
<1>6. Reads(s, 1, text)
  BY <1>1, <1>3, <1>4, <1>5 DEF Reads, n
<1>7. s = [i \in DOMAIN text |-> line(i)]
  BY <1>1 DEF s
<1>8. Reads(s, 1, text) /\ Len(s) = Len(text)
  BY <1>4, <1>6 DEF n
<1> HIDE DEF s
<1> QED
  BY <1>7, <1>8 DEF line

(* A hunk of an aligned diff, searched on one side. *)
LEMMA OnHunkIs ==
  ASSUME NEW d \in Diffs, Aligned(d), NEW h \in 1..Len(d.hunks), NEW t, Target(t)
  PROVE  /\ OnHunk(d, h, TRUE, t) = Unplaced \/ PlaceAt(Text(d.new), t, OnHunk(d, h, TRUE, t))
         /\ OnHunk(d, h, FALSE, t) = Unplaced \/ PlaceAt(Text(d.old), t, OnHunk(d, h, FALSE, t))
         /\ OnHunk(d, h, TRUE, t) = Unplaced =>
              \A first \in Nat \ {0} :
                ~(/\ ReadAt(Text(d.new), t, first)
                  /\ first >= d.hunks[h].newStart
                  /\ first + Len(t) <= d.hunks[h].newStart + Len(Side(d.hunks[h], TRUE)))
<1> DEFINE g == d.hunks[h]
           new == Text(d.new)
           old == Text(d.old)
           s == ExtractSideLines(g, TRUE)
           o == ExtractSideLines(g, FALSE)
<1>1. Len(new) \in Nat /\ Len(old) \in Nat
  BY DiffTexts, LenProperties
<1>2. Reads(s, g.newStart, new) /\ Len(s) = Len(Side(g, TRUE)) /\ Reads(o, g.oldStart, old)
  BY DEF Aligned, Fits
<1>3. OnHunk(d, h, TRUE, t) = MatchConsecutive(s, t) /\ OnHunk(d, h, FALSE, t) = MatchConsecutive(o, t)
  BY DEF OnHunk
<1> HIDE DEF s, o, new, old, g
<1>4. IF Runs(s, t) = {} THEN MatchConsecutive(s, t) = Unplaced ELSE PlaceAt(new, t, MatchConsecutive(s, t))
  BY <1>1, <1>2, Matched
<1>5. IF Runs(o, t) = {} THEN MatchConsecutive(o, t) = Unplaced ELSE PlaceAt(old, t, MatchConsecutive(o, t))
  BY <1>1, <1>2, Matched
<1>6. ASSUME MatchConsecutive(s, t) = Unplaced, NEW first \in Nat \ {0},
             ReadAt(new, t, first), first >= g.newStart,
             first + Len(t) <= g.newStart + Len(Side(g, TRUE))
      PROVE  FALSE
  <2>1. Runs(s, t) # {}
    BY <1>1, <1>2, <1>6, Missed
  <2>2. PlaceAt(new, t, MatchConsecutive(s, t))
    BY <1>4, <2>1
  <2> QED
    BY <1>6, <2>2 DEF PlaceAt
<1> QED
  BY <1>3, <1>4, <1>5, <1>6, Zenon DEF new, old, g

(* Nothing of the quote to search for: no place. *)
LEMMA NothingSearched ==
  ASSUME NEW d \in Diffs, NEW code, SplitAndNormalize(code) = <<>>
  PROVE  ResolveComment(d, code) = Unplaced
<1> DEFINE t == SplitAndNormalize(code)
<1>1. \A s : MatchConsecutive(s, t) = Unplaced
  BY DEF MatchConsecutive
<1>2. ResolveFromFileContent(d, code) = Unplaced
  BY <1>1, Zenon DEF ResolveFromFileContent
<1>3. ResolveFromHunk(d, code) = Unplaced
  <2> HIDE DEF t
  <2>1. \A h, newSide : OnHunk(d, h, newSide, t) = Unplaced
    BY <1>1, Zenon DEF OnHunk
  <2>2. d.hunks \in Seq(HunkOf(Lines)) /\ t = SplitAndNormalize(code)
    BY DiffTexts DEF t
  <2>3. LET p == ResolveFromHunk(d, code)
        IN  \/ p = Unplaced
            \/ \E h \in 1..Len(d.hunks) : p = OnHunk(d, h, TRUE, t)
            \/ \E h \in 1..Len(d.hunks) :
                 /\ p = OnHunk(d, h, FALSE, t)
                 /\ \A k \in 1..Len(d.hunks) : OnHunk(d, k, TRUE, t) = Unplaced
    BY <2>2, HunkPlaces
  <2> QED
    BY <2>1, <2>3, Zenon
<1> QED
  BY <1>2, <1>3, FirstOfTwo, Zenon DEF ResolveComment

(* A comment is placed where its quote is, and not placed only if the new file
   does not have the quote. *)
LEMMA Resolved ==
  ASSUME NEW d \in Diffs, Aligned(d), Steady(d), NEW code \in Seq(Lines),
         NEW t, t = SplitAndNormalize(code), NEW p, p = ResolveComment(d, code)
  PROVE  /\ p # Unplaced => PlacedAt(d, t, p)
         /\ p = Unplaced /\ t # <<>> =>
              \A first \in 1..Len(Text(d.new)) : ~ReadAt(Text(d.new), t, first)
<1>1. CASE t = <<>>
  BY <1>1, NothingSearched
<1>2. CASE t # <<>>
  <2> DEFINE new == Text(d.new)
             old == Text(d.old)
             n == Len(d.hunks)
             a == ResolveFromHunk(d, code)
             b == ResolveFromFileContent(d, code)
             s == [i \in DOMAIN new |-> [num |-> i, text |-> Norm[new[i]]]]
             hidden(h, first) ==
               /\ ReadAt(new, t, first)
               /\ first >= d.hunks[h].newStart
               /\ first + Len(t) <= d.hunks[h].newStart + Len(Side(d.hunks[h], TRUE))
  <2>1. Target(t)
    BY <1>2, TargetOf
  <2>2. new \in Seq(Lines) /\ old \in Seq(Lines) /\ d.hunks \in Seq(HunkOf(Lines)) /\ Len(new) \in Nat
    BY DiffTexts, LenProperties
  <2>3. b = MatchConsecutive(s, t)
    BY DEF ResolveFromFileContent, Steady
  <2>4. Reads(s, 1, new) /\ Len(s) = Len(new)
    <3> HIDE DEF new
    <3> QED
      BY <2>2, ContentReads
  <2>5. p = IF a # Unplaced THEN a ELSE b
    BY FirstOfTwo, Zenon DEF ResolveComment
  <2>6. \/ a = Unplaced
        \/ \E h \in 1..n : a = OnHunk(d, h, TRUE, t)
        \/ \E h \in 1..n : /\ a = OnHunk(d, h, FALSE, t)
                           /\ \A k \in 1..n : OnHunk(d, k, TRUE, t) = Unplaced
    BY <2>2, HunkPlaces
  <2>7. \A h \in 1..n :
          /\ OnHunk(d, h, TRUE, t) = Unplaced \/ PlaceAt(new, t, OnHunk(d, h, TRUE, t))
          /\ OnHunk(d, h, FALSE, t) = Unplaced \/ PlaceAt(old, t, OnHunk(d, h, FALSE, t))
          /\ OnHunk(d, h, TRUE, t) = Unplaced => \A first \in Nat \ {0} : ~hidden(h, first)
    BY <2>1, OnHunkIs
  <2> HIDE DEF new, old, n, a, b, s, hidden
  <2>8. IF Runs(s, t) = {} THEN b = Unplaced ELSE PlaceAt(new, t, b)
    BY <2>1, <2>2, <2>3, <2>4, Matched
  <2>9. PlaceAt(new, t, p) => PlacedAt(d, t, p)
    BY DEF PlaceAt, PlacedAt, new
  <2>10. ASSUME PlaceAt(old, t, p), \A h \in 1..n : \A first \in Nat \ {0} : ~hidden(h, first)
         PROVE  PlacedAt(d, t, p)
    <3>1. \A first \in 1..Len(new) : first \in Nat \ {0}
      BY <2>2
    <3>2. \A h \in 1..n : \A first \in 1..Len(new) : ~hidden(h, first)
      BY <2>10, <3>1
    <3> QED
      BY <2>10, <3>2, Zenon DEF PlaceAt, PlacedAt, new, old, n, hidden
  <2>11. ASSUME p # Unplaced PROVE PlacedAt(d, t, p)
    <3>1. CASE a = Unplaced
      <4>1. PlaceAt(new, t, p)
        BY <2>5, <2>8, <2>11, <3>1
      <4> QED
        BY <2>9, <4>1
    <3>2. CASE a # Unplaced
      <4>1. p = a
        BY <2>5, <3>2
      <4>2. ASSUME NEW h \in 1..n, a = OnHunk(d, h, TRUE, t) PROVE PlacedAt(d, t, p)
        BY <2>7, <2>9, <2>11, <4>1, <4>2
      <4>3. ASSUME NEW h \in 1..n, a = OnHunk(d, h, FALSE, t),
                   \A k \in 1..n : OnHunk(d, k, TRUE, t) = Unplaced
            PROVE  PlacedAt(d, t, p)
        <5>1. PlaceAt(old, t, p)
          BY <2>7, <2>11, <4>1, <4>3
        <5>2. \A k \in 1..n : \A first \in Nat \ {0} : ~hidden(k, first)
          BY <2>7, <4>3
        <5> QED
          BY <2>10, <5>1, <5>2
      <4> QED
        BY <2>6, <3>2, <4>2, <4>3
    <3> QED
      BY <3>1, <3>2
  <2>12. ASSUME p = Unplaced, NEW first \in 1..Len(new), ReadAt(new, t, first) PROVE FALSE
    <3>1. first \in Nat \ {0} /\ first >= 1
      BY <2>2
    <3>2. first + Len(t) <= 1 + Len(s)
      <4>1. first + Len(t) - 1 <= Len(new) /\ Len(t) \in Nat
        BY <2>1, <2>12 DEF ReadAt, Target
      <4> QED
        BY <2>2, <2>4, <3>1, <4>1
    <3>3. Runs(s, t) # {}
      BY <2>1, <2>2, <2>4, <2>12, <3>1, <3>2, Missed
    <3>4. PlaceAt(new, t, b)
      BY <2>8, <3>3
    <3>5. b # Unplaced
      BY <3>4 DEF PlaceAt
    <3> QED
      BY <2>5, <2>12, <3>5
  <2> QED
    BY <2>11, <2>12 DEF new
<1> QED
  BY <1>1, <1>2

------------------------------------------------------------------------------
(* The second invariant: of every diff, that its hunks fit the files it compares,
   and of the comment, where it was found. *)

(* What is known of the comment: its place is the place of its quote in a diff
   that names its file; without a place it has the quote it came with. *)
Honest(c, ds) ==
  /\ c.code \in Seq(Lines)
  /\ c.at \in {"new", "relocating"} => c.place = Unplaced
  /\ c.at = "relocating" => Naming(ds, c.path) # {}
  /\ c.place # Unplaced => \E i \in Naming(ds, c.path) : c.place = ResolveComment(ds[i], c.code)
  /\ c.place = Unplaced => c.code = c.asked
  /\ c.at = "final" /\ c.place = Unplaced /\ Naming(ds, c.path) # {} =>
       c.code = <<>> \/ ResolveComment(LastDiff(ds, c.path), c.code) = Unplaced

LinesInv ==
  /\ AllAligned(diffs)
  /\ at # "done" => comment = NoComment
  /\ Honest(comment, diffs)

(* The diffs a path is looked up in. *)
LEMMA NamedDiffs ==
  ASSUME NEW ds \in Seq(Diffs), NEW path
  PROVE  /\ \A i \in Naming(ds, path) : i \in 1..Len(ds) /\ ds[i] \in Diffs
         /\ Naming(ds, path) # {} =>
              /\ \E i \in Naming(ds, path) : FindDiff(ds, path) = ds[i]
              /\ \E i \in Naming(ds, path) : LastDiff(ds, path) = ds[i]
<1> DEFINE N == Naming(ds, path)
           n == Len(ds)
<1>1. n \in Nat /\ DOMAIN ds = 1..n
  BY LenProperties
<1>2. N \in SUBSET (1..n)
  BY <1>1 DEF Naming
<1>3. \A i \in N : i \in 1..n /\ ds[i] \in Diffs
  BY <1>2, ElementOfSeq
<1>4. FindDiff(ds, path) = ds[Min(N)] /\ LastDiff(ds, path) = ds[Max(N)]
  BY DEF FindDiff, LastDiff
<1> HIDE DEF N, n
<1>5. ASSUME N # {} PROVE Min(N) \in N /\ Max(N) \in N
  <2>1. N \in SUBSET Nat /\ N \in SUBSET (0..n)
    BY <1>1, <1>2
  <2> QED
    BY <1>1, <1>5, <2>1, MinIsIn, MaxIsIn
<1>6. /\ \A i \in N : i \in 1..n /\ ds[i] \in Diffs
      /\ N # {} => /\ \E i \in N : FindDiff(ds, path) = ds[i]
                   /\ \E i \in N : LastDiff(ds, path) = ds[i]
  BY <1>3, <1>4, <1>5
<1> QED
  BY <1>6 DEF N, n

(* Steps that leave the diffs and the comment alone. *)
LEMMA LinesStay ==
  ASSUME LinesInv, diffs' = diffs, comment' = comment, at' = at \/ at # "done"
  PROVE  LinesInv'
BY Zenon DEF LinesInv

(* Until the review is over the diffs may change. *)
LEMMA NoCommentHonest == \A ds : Honest(NoComment, ds)
<1> SUFFICES ASSUME NEW ds PROVE Honest(NoComment, ds)
  OBVIOUS
<1>1. /\ NoComment.code = <<>> /\ NoComment.asked = <<>> /\ NoComment.place = Unplaced
      /\ NoComment.at = "none"
  BY DEF NoComment
<1>2. <<>> \in Seq(Lines)
  OBVIOUS
<1> QED
  BY <1>1, <1>2 DEF Honest

(* There is no comment while the diffs change. *)
LEMMA NewDiffs ==
  ASSUME LinesInv, at # "done", comment' = comment, AllAligned(diffs')
  PROVE  LinesInv'
<1>1. comment = NoComment
  BY DEF LinesInv
<1>2. Honest(comment', diffs')
  BY <1>1, NoCommentHonest, Zenon
<1>3. NoComment' = NoComment
  BY DEF NoComment
<1>4. AllAligned(diffs)' /\ Honest(comment, diffs)' /\ comment' = NoComment'
  BY <1>1, <1>2, <1>3
<1> QED
  BY <1>4 DEF LinesInv

(* What a filter keeps of aligned diffs. *)
LEMMA KeptAligned ==
  ASSUME NEW ds \in Seq(Diffs), AllAligned(ds), NEW K
  PROVE  AllAligned(Among(ds, K)) /\ Among(ds, K) \in Seq(Diffs)
<1> DEFINE a == Among(ds, K)
<1>1. a \in Seq(Diffs) /\ \E e : Keeps(ds, Len(ds), K, a, e)
  BY AmongEnumerates
<1> HIDE DEF a
<1>2. PICK e : Keeps(ds, Len(ds), K, a, e)
  BY <1>1
<1>3. \A j \in 1..Len(a) : a[j] = ds[e[j]] /\ e[j] \in 1..Len(ds)
  BY <1>2 DEF Keeps
<1>4. AllAligned(a)
  BY <1>3 DEF AllAligned
<1> QED
  BY <1>1, <1>4 DEF a

(* The filters of a run keep aligned diffs. *)
LEMMA DispatchAligns ==
  ASSUME NEW ds \in Seq(Diffs), AllAligned(ds)
  PROVE  AllAligned(Kept(Filtered(Loaded(ds))))
<1> DEFINE a == Loaded(ds)
           b == Filtered(a)
<1>1. AllAligned(a) /\ a \in Seq(Diffs)
  BY FiltersAre, KeptAligned
<1> HIDE DEF a
<1>2. AllAligned(b) /\ b \in Seq(Diffs)
  BY <1>1, FiltersAre, KeptAligned
<1> HIDE DEF b
<1>3. AllAligned(Kept(b))
  BY <1>2, FiltersAre, KeptAligned
<1> QED
  BY <1>3 DEF a, b

(* The fields that a step of the comment leaves or sets. *)
LEMMA PlaceIs ==
  ASSUME NEW c, Shaped(c), NEW d, NEW code
  PROVE  LET r == Place(c, d, code)
         IN  /\ Shaped(r) /\ r.at = c.at /\ r.path = c.path /\ r.code = c.code /\ r.asked = c.asked
             /\ r.place = IF code = <<>> THEN c.place ELSE ResolveComment(d, code)
<1>1. CASE code = <<>>
  BY <1>1 DEF Place
<1>2. CASE code # <<>>
  <2> DEFINE found == ResolveComment(d, code)
  <2>1. Place(c, d, code) = [c EXCEPT !.place = found]
    BY <1>2 DEF Place
  <2> HIDE DEF found
  <2>2. c = [at |-> c.at, path |-> c.path, code |-> c.code, asked |-> c.asked, place |-> c.place]
    BY DEF Shaped
  <2> DEFINE r == [c EXCEPT !.place = found]
  <2>3. /\ r.at = c.at /\ r.path = c.path /\ r.code = c.code /\ r.asked = c.asked /\ r.place = found
    BY <2>2
  <2>4. Shaped(r)
    BY <2>1, PlaceShaped DEF found
  <2> QED
    BY <1>2, <2>1, <2>3, <2>4 DEF found
<1> QED
  BY <1>1, <1>2

(* The same comment at another stage. *)
LEMMA MarkIs ==
  ASSUME NEW c, Shaped(c), NEW stage
  PROVE  LET r == [c EXCEPT !.at = stage]
         IN  r.at = stage /\ r.path = c.path /\ r.code = c.code /\ r.asked = c.asked /\ r.place = c.place
BY DEF Shaped

(* The same comment with another quote. *)
LEMMA QuoteIs ==
  ASSUME NEW c, Shaped(c), NEW code
  PROVE  LET r == [c EXCEPT !.at = "kept", !.code = code]
         IN  r.at = "kept" /\ r.path = c.path /\ r.code = code /\ r.asked = c.asked /\ r.place = c.place
BY DEF Shaped

(* A quote is made of lines. *)
LEMMA Codable == \A code \in Codes : code \in Seq(Lines)
BY DiffAssumption DEF Lines

(* A comment's steps. *)
LEMMA AddCommentHonest ==
  ASSUME NEW f \in Files, AddComment(f)
  PROVE  Honest(comment', diffs)
<1>1. PICK code \in Codes :
        comment' = [at |-> "new", path |-> f, code |-> code, asked |-> code, place |-> Unplaced]
  BY DEF AddComment
<1>2. /\ comment'.at = "new" /\ comment'.code = code /\ comment'.asked = code
      /\ comment'.place = Unplaced
  BY <1>1
<1>3. code \in Seq(Lines)
  BY Codable
<1> QED
  BY <1>2, <1>3 DEF Honest

(* The first search (relocation.go, resolveAndCollect). *)
LEMMA PlaceCommentHonest ==
  ASSUME LoadInv, LinesInv, PlaceComment
  PROVE  Honest(comment', diffs)
<1> DEFINE path == comment.path
           code == comment.code
           named == Naming(diffs, path) # {}
           d == FindDiff(diffs, path)
           c == IF named THEN Place(comment, d, code) ELSE comment
           stage == IF named /\ c.place = Unplaced THEN "relocating" ELSE "kept"
<1>1. comment.at = "new" /\ comment' = [c EXCEPT !.at = stage]
  BY DEF PlaceComment
<1>2. Shaped(comment)
  BY CommentShaped
<1>3. comment.place = Unplaced /\ code = comment.asked /\ code \in Seq(Lines)
  BY <1>1 DEF LinesInv, Honest
<1>4. diffs \in Seq(Diffs)
  BY DEF LoadInv, Typing, DiffList
<1>5. named => \E i \in Naming(diffs, path) : d = diffs[i]
  BY <1>4, NamedDiffs
<1> HIDE DEF d
<1>6. /\ Shaped(c) /\ c.path = path /\ c.code = code /\ c.asked = comment.asked
      /\ c.place # Unplaced => named /\ c.place = ResolveComment(d, code)
  <2>1. CASE named
    BY <1>2, <1>3, <2>1, PlaceIs
  <2>2. CASE ~named
    BY <1>2, <1>3, <2>2
  <2> QED
    BY <2>1, <2>2
<1>7. stage \in {"relocating", "kept"} /\ (stage = "relocating" => named /\ c.place = Unplaced)
  OBVIOUS
<1> HIDE DEF c, stage
<1>8. /\ comment'.at = stage /\ comment'.path = path /\ comment'.code = code
      /\ comment'.asked = comment.asked /\ comment'.place = c.place
  BY <1>1, <1>6, MarkIs
<1> QED
  BY <1>3, <1>5, <1>6, <1>7, <1>8 DEF Honest

(* The second search, for what the re-location task quotes, and the old quote restored. *)
LEMMA ReLocateHonest ==
  ASSUME LoadInv, LinesInv, ReLocateComment
  PROVE  Honest(comment', diffs)
<1> DEFINE path == comment.path
           d == FindDiff(diffs, path)
<1>1. Shaped(comment) /\ comment.at = "relocating"
  BY CommentShaped DEF ReLocateComment
<1>2. /\ comment.place = Unplaced /\ comment.code = comment.asked /\ comment.code \in Seq(Lines)
      /\ Naming(diffs, path) # {}
  BY <1>1 DEF LinesInv, Honest
<1>3. \E i \in Naming(diffs, path) : d = diffs[i]
  <2>1. diffs \in Seq(Diffs)
    BY DEF LoadInv, Typing, DiffList
  <2> QED
    BY <1>2, <2>1, NamedDiffs
<1> HIDE DEF d
<1>4. CASE comment' = [comment EXCEPT !.at = "kept"]
  <2>1. /\ comment'.at = "kept" /\ comment'.path = path /\ comment'.code = comment.code
        /\ comment'.asked = comment.asked /\ comment'.place = comment.place
    BY <1>1, <1>4, MarkIs
  <2> QED
    BY <1>2, <2>1 DEF Honest
<1>5. ASSUME NEW code \in Codes \ {<<>>},
             LET c == Place(comment, d, code)
             IN  comment' = IF c.place # Unplaced THEN [c EXCEPT !.at = "kept", !.code = code]
                            ELSE [Restored(c, code) EXCEPT !.at = "kept"]
      PROVE  Honest(comment', diffs)
  <2> DEFINE c == Place(comment, d, code)
  <2>1. /\ Shaped(c) /\ c.path = path /\ c.code = comment.code /\ c.asked = comment.asked
        /\ c.place = ResolveComment(d, code)
    BY <1>1, PlaceIs
  <2>2. code \in Seq(Lines)
    BY Codable
  <2>3. comment' = IF c.place # Unplaced THEN [c EXCEPT !.at = "kept", !.code = code]
                   ELSE [c EXCEPT !.at = "kept"]
    BY <1>5 DEF Restored
  <2> HIDE DEF c
  <2>4. CASE c.place # Unplaced
    <3>1. /\ comment'.at = "kept" /\ comment'.path = path /\ comment'.code = code
          /\ comment'.place = ResolveComment(d, code) /\ comment'.place # Unplaced
      BY <2>1, <2>3, <2>4, QuoteIs
    <3> QED
      BY <1>3, <2>2, <3>1 DEF Honest
  <2>5. CASE c.place = Unplaced
    <3>1. /\ comment'.at = "kept" /\ comment'.code = comment.code
          /\ comment'.asked = comment.asked /\ comment'.place = Unplaced
      BY <2>1, <2>3, <2>5, MarkIs
    <3> QED
      BY <1>2, <3>1 DEF Honest
  <2> QED
    BY <2>4, <2>5
<1> QED
  BY <1>4, <1>5 DEF ReLocateComment, d

(* The last search, when the review is over. *)
LEMMA ResolveLinesHonest ==
  ASSUME LoadInv, LinesInv, ResolveLineNumbers
  PROVE  Honest(comment', diffs)
<1> DEFINE path == comment.path
           code == comment.code
           d == LastDiff(diffs, path)
           tried == comment.place = Unplaced /\ Naming(diffs, path) # {}
           c == IF tried THEN Place(comment, d, code) ELSE comment
<1>1. Shaped(comment) /\ comment.at = "kept" /\ comment' = [c EXCEPT !.at = "final"]
  BY CommentShaped DEF ResolveLineNumbers
<1>2. /\ code \in Seq(Lines)
      /\ comment.place = Unplaced => code = comment.asked
      /\ comment.place # Unplaced =>
           \E i \in Naming(diffs, path) : comment.place = ResolveComment(diffs[i], code)
  BY DEF LinesInv, Honest
<1>3. tried => \E i \in Naming(diffs, path) : d = diffs[i]
  <2>1. diffs \in Seq(Diffs)
    BY DEF LoadInv, Typing, DiffList
  <2> QED
    BY <2>1, NamedDiffs
<1>4. /\ Shaped(c) /\ c.path = path /\ c.code = code /\ c.asked = comment.asked
      /\ ~tried => c.place = comment.place
      /\ tried => c.place = IF code = <<>> THEN Unplaced ELSE ResolveComment(d, code)
  <2> HIDE DEF d
  <2>1. CASE tried
    BY <1>1, <2>1, PlaceIs
  <2>2. CASE ~tried
    BY <1>1, <2>2
  <2> QED
    BY <2>1, <2>2
<1> HIDE DEF c
<1>5. /\ comment'.at = "final" /\ comment'.path = path /\ comment'.code = code
      /\ comment'.asked = comment.asked /\ comment'.place = c.place
  BY <1>1, <1>4, MarkIs
<1>6. c.place # Unplaced => \E i \in Naming(diffs, path) : c.place = ResolveComment(diffs[i], code)
  BY <1>2, <1>3, <1>4
<1>7. c.place = Unplaced => code = comment.asked
  BY <1>2, <1>4
<1>8. c.place = Unplaced /\ Naming(diffs, path) # {} => code = <<>> \/ ResolveComment(d, code) = Unplaced
  BY <1>4
<1> QED
  BY <1>2, <1>5, <1>6, <1>7, <1>8 DEF Honest

(* No step of the comment breaks it. *)
LEMMA CommentLines == LoadInv /\ LinesInv /\ CommentStep => LinesInv'
<1> SUFFICES ASSUME LoadInv, LinesInv, CommentStep PROVE LinesInv'
  OBVIOUS
<1>1. diffs' = diffs /\ at' = at
  BY DEF CommentStep, AddComment, PlaceComment, ReLocateComment, ResolveLineNumbers, load
<1>2. at = "done"
  <2>1. NoComment.at = "none"
    BY DEF NoComment
  <2>2. comment.at # "none" => at = "done"
    BY <2>1 DEF LinesInv
  <2> QED
    BY <2>2 DEF CommentStep, AddComment, PlaceComment, ReLocateComment, ResolveLineNumbers
<1>3. Honest(comment', diffs)
  BY AddCommentHonest, PlaceCommentHonest, ReLocateHonest, ResolveLinesHonest DEF CommentStep
<1>4. AllAligned(diffs)' /\ Honest(comment, diffs)'
  BY <1>1, <1>3 DEF LinesInv
<1> QED
  BY <1>1, <1>2, <1>4 DEF LinesInv

(* No step of the load does: each gives aligned diffs. *)
LEMMA LoadLines == LoadInv /\ LinesInv /\ LoadNext => LinesInv'
<1> SUFFICES ASSUME LoadInv, LinesInv, LoadNext PROVE LinesInv'
  OBVIOUS
<1>1. CASE LoadBegins \/ StartGit \/ MergeBase \/ ListUntracked \/ AllRead
  <2>1. diffs' = diffs /\ comment' = comment /\ (at' = at \/ at # "done")
    BY <1>1 DEF LoadBegins, StartGit, MergeBase, ListUntracked, AllRead, load
  <2> QED
    BY <2>1, LinesStay
<1>2. CASE RangeDiff
  <2>1. /\ at # "done" /\ comment' = comment
        /\ diffs' = diffs \/ diffs' = GitDiff(Committed, worktree)
    BY <1>2 DEF RangeDiff, DiffRange
  <2>2. AllAligned(GitDiff(Committed, worktree))
    BY Trees, GitAligned
  <2>3. AllAligned(diffs')
    BY <2>1, <2>2 DEF LinesInv
  <2> QED
    BY <2>1, <2>3, NewDiffs
<1>3. CASE TrackedDiff
  <2>1. /\ at # "done" /\ comment' = comment
        /\ diffs' = diffs \/ diffs' = DiffHead
    BY <1>3 DEF TrackedDiff
  <2>2. AllAligned(DiffHead)
    BY Trees, GitAligned DEF DiffHead
  <2>3. AllAligned(diffs')
    BY <2>1, <2>2 DEF LinesInv
  <2> QED
    BY <2>1, <2>3, NewDiffs
<1>4. CASE StagedDiff
  <2>1. /\ at # "done" /\ comment' = comment
        /\ diffs' = diffs \/ diffs' = DiffStaged
    BY <1>4 DEF StagedDiff
  <2>2. AllAligned(DiffStaged)
    <3>1. CASE hasHead
      BY <3>1, Trees, GitAligned DEF DiffStaged
    <3>2. CASE ~hasHead
      BY <3>2, Trees, GitAligned DEF DiffStaged
    <3> QED
      BY <3>1, <3>2
  <2>3. AllAligned(diffs')
    BY <2>1, <2>2 DEF LinesInv
  <2> QED
    BY <2>1, <2>3, NewDiffs
<1>5. CASE ReadUntracked
  <2>1. PICK g \in listed :
          /\ at = "read" /\ comment' = comment
          /\ diffs' = IF worktree[g] = Absent THEN diffs ELSE Append(diffs, UntrackedDiff(g))
    BY <1>5 DEF ReadUntracked
  <2>2. AllAligned(diffs')
    <3>1. CASE worktree[g] = Absent
      BY <2>1, <3>1 DEF LinesInv
    <3>2. CASE worktree[g] # Absent
      <4> DEFINE d == UntrackedDiff(g)
                 n == Len(diffs)
      <4>1. g \in Files /\ worktree[g] \in Contents
        BY <3>2 DEF LoadInv, Typing, TypeOK
      <4>2. d \in Diffs /\ Aligned(d)
        BY <4>1, UntrackedShown, UntrackedAligned
      <4>3. diffs \in Seq(Diffs) /\ diffs' = Append(diffs, d)
        BY <2>1, <3>2 DEF LoadInv, Typing, DiffList
      <4> HIDE DEF d
      <4>4. /\ n \in Nat /\ Len(diffs') = n + 1 /\ diffs'[n + 1] = d
            /\ \A i \in 1..n : diffs'[i] = diffs[i]
        BY <4>2, <4>3, AppendProperties, LenProperties
      <4>5. \A i \in 1..(n + 1) : i = n + 1 \/ i \in 1..n
        BY <4>4
      <4>6. \A i \in 1..n : Aligned(diffs[i])
        BY DEF LinesInv, AllAligned
      <4> HIDE DEF n
      <4>7. \A i \in 1..(n + 1) : Aligned(diffs'[i])
        BY <4>2, <4>4, <4>5, <4>6
      <4> QED
        BY <4>4, <4>7 DEF AllAligned
    <3> QED
      BY <3>1, <3>2
  <2> QED
    BY <2>1, <2>2, NewDiffs
<1>6. CASE SkipDeleted \/ ReadFromDisk \/ ReadFromRef
  <2>1. PICK content : Unparsed /\ Finalize(content)
    BY <1>6 DEF SkipDeleted, ReadFromDisk, ReadFromRef
  <2> DEFINE k == parsed + 1
  <2>2. /\ at # "done" /\ comment' = comment
        /\ diffs' = [diffs EXCEPT ![k].content = content]
    BY <2>1 DEF Unparsed, Finalize
  <2>3. diffs \in Seq(Diffs)
    BY DEF LoadInv, Typing, DiffList
  <2> HIDE DEF k
  <2>4. AllAligned(diffs')
    <3> DEFINE n == Len(diffs)
               d(i) == IF i = k THEN [diffs[i] EXCEPT !.content = content] ELSE diffs[i]
    <3>1. n \in Nat /\ DOMAIN diffs = 1..n
      BY <2>3, LenProperties
    <3>2. ASSUME NEW i \in 1..n
          PROVE  d(i).hunks = diffs[i].hunks /\ d(i).old = diffs[i].old /\ d(i).new = diffs[i].new
      <4>1. diffs[i] \in Diffs
        BY <2>3, ElementOfSeq
      <4> DEFINE x == diffs[i]
                 H == Seq(HunkOf(Lines))
                 C == Seq(Lines)
                 F == FileOf(Lines)
      <4>2. x \in [oldPath : Files, newPath : Files \cup {DevNull}, isDeleted : BOOLEAN,
                   isBinary : BOOLEAN, hunks : H, content : C, old : F, new : F]
        BY <4>1 DEF Diffs
      <4> HIDE DEF x, H, C, F
      <4> DEFINE y == [x EXCEPT !.content = content]
      <4>3. y.hunks = x.hunks /\ y.old = x.old /\ y.new = x.new
        BY <4>2
      <4>4. d(i) = y \/ d(i) = x
        BY DEF x
      <4> HIDE DEF d, y
      <4> QED
        BY <4>3, <4>4 DEF x
    <3> HIDE DEF n
    <3>3. diffs' = [i \in 1..n |-> d(i)]
      BY <2>2, <3>1
    <3> HIDE DEF d
    <3>4. Len(diffs') = n /\ \A i \in 1..n : diffs'[i] = d(i)
      BY <3>1, <3>3
    <3>5. \A i \in 1..n : Aligned(diffs[i])
      BY DEF LinesInv, AllAligned, n
    <3>6. ASSUME NEW i \in 1..n PROVE Aligned(diffs'[i])
      <4>1. Aligned(diffs[i])
        BY <3>5
      <4> QED
        BY <3>2, <3>4, <4>1 DEF Aligned
    <3> QED
      BY <3>4, <3>6 DEF AllAligned
  <2> QED
    BY <2>2, <2>4, NewDiffs
<1>7. CASE DispatchSubtasks
  <2>1. at # "done" /\ comment' = comment /\ diffs' = Kept(Filtered(Loaded(diffs)))
    BY <1>7 DEF DispatchSubtasks
  <2>2. diffs \in Seq(Diffs) /\ AllAligned(diffs)
    BY DEF LoadInv, Typing, DiffList, LinesInv
  <2>3. AllAligned(Kept(Filtered(Loaded(diffs))))
    BY <2>2, DispatchAligns
  <2> QED
    BY <2>1, <2>3, NewDiffs
<1> QED
  BY <1>1, <1>2, <1>3, <1>4, <1>5, <1>6, <1>7 DEF LoadNext

(* It holds before the load. *)
LEMMA LinesStart == Init => LinesInv
<1> SUFFICES ASSUME Init PROVE LinesInv
  OBVIOUS
<1>1. diffs = <<>> /\ comment = NoComment
  BY DEF Init
<1>2. AllAligned(<<>>)
  <2> DEFINE none == <<>>
  <2>1. \A i \in 1..Len(none) : FALSE
    OBVIOUS
  <2> HIDE DEF none
  <2>2. AllAligned(none)
    BY <2>1 DEF AllAligned
  <2> QED
    BY <2>2 DEF none
<1>3. Honest(NoComment, <<>>)
  BY NoCommentHonest
<1> QED
  BY <1>1, <1>2, <1>3 DEF LinesInv

(* No step at all breaks it. *)
LEMMA LinesStep == LoadInv /\ LinesInv /\ [Next]_vars => LinesInv'
<1> SUFFICES ASSUME LoadInv, LinesInv, [Next]_vars PROVE LinesInv'
  OBVIOUS
<1>1. CASE UserNext
  <2>1. UNCHANGED <<load, comment>>
    BY <1>1 DEF UserNext, Edit, GitAdd, GitRmCached, UserStep
  <2> QED
    BY <2>1, LinesStay DEF load
<1>2. CASE LoadNext
  BY <1>2, LoadLines
<1>3. CASE ReviewEnds
  BY <1>3, LinesStay DEF ReviewEnds
<1>4. ASSUME NEW c \in Callers, GetToken(c) \/ GiveUp(c) PROVE LinesInv'
  BY <1>4, LinesStay DEF GetToken, GiveUp, load
<1>5. ASSUME NEW f \in Files, ToolAnswered(f) \/ FileTimesOut(f) PROVE LinesInv'
  BY <1>5, LinesStay DEF ToolAnswered, FileTimesOut, load
<1>6. ASSUME NEW f \in Files, ToolRunsGit(f) PROVE LinesInv'
  BY <1>6, LinesStay DEF ToolRunsGit
<1>7. CASE CommentStep
  BY <1>7, CommentLines
<1>8. CASE UNCHANGED vars
  BY <1>8, LinesStay DEF vars, load
<1> QED
  BY <1>1, <1>2, <1>3, <1>4, <1>5, <1>6, <1>7, <1>8 DEF Next, ProgramStep

(* A quote of no lines has nothing to search for. *)
LEMMA EmptyQuote == SplitAndNormalize(<<>>) = <<>>
<1> DEFINE none == <<>>
           lines == [i \in DOMAIN none |-> Norm[none[i]]]
<1>1. lines = none
  OBVIOUS
<1>2. SplitAndNormalize(none) = Among(lines, Range(lines) \ {""})
  BY DEF SplitAndNormalize
<1>3. \A K : Among(none, K) = none
  BY AmongEmpty
<1> HIDE DEF none, lines
<1>4. SplitAndNormalize(none) = none
  BY <1>1, <1>2, <1>3, Zenon
<1> QED
  BY <1>4 DEF none

(* Of a quote without blank lines the whole quote is searched for. *)
LEMMA WholeQuote ==
  ASSUME NEW code \in Seq(Lines), ~QuotesBlank(code)
  PROVE  /\ DOMAIN SplitAndNormalize(code) = DOMAIN code
         /\ Len(SplitAndNormalize(code)) = Len(code)
         /\ \A i \in DOMAIN code : SplitAndNormalize(code)[i] = Norm[code[i]]
<1> DEFINE S == {Norm[l] : l \in Lines}
           lines == [i \in DOMAIN code |-> Norm[code[i]]]
           K == Range(lines) \ {""}
<1>1. Len(code) \in Nat /\ DOMAIN code = 1..Len(code) /\ \A i \in 1..Len(code) : code[i] \in Lines
  BY LenProperties, ElementOfSeq
<1>2. lines \in Seq(S) /\ DOMAIN lines = DOMAIN code /\ \A i \in DOMAIN code : lines[i] = Norm[code[i]]
  <2>1. lines \in [1..Len(code) -> S]
    BY <1>1
  <2>2. lines \in Seq(S)
    <3> HIDE DEF lines, S
    <3> QED
      BY <1>1, <2>1, SeqDef
  <2> QED
    BY <2>2
<1>3. \A i \in DOMAIN code : lines[i] \in K
  <2>1. \A i \in DOMAIN code : Norm[code[i]] # ""
    BY Zenon DEF QuotesBlank
  <2>2. \A i \in DOMAIN code : lines[i] = Norm[code[i]] /\ lines[i] \in Range(lines)
    <3> HIDE DEF lines
    <3> QED
      BY <1>2 DEF Range
  <2> HIDE DEF lines
  <2> QED
    BY <2>1, <2>2, Zenon DEF K
<1>4. SplitAndNormalize(code) = Among(lines, K)
  BY DEF SplitAndNormalize
<1> HIDE DEF lines, S, K
<1>5. Len(lines) = Len(code)
  BY <1>1, <1>2, LenProperties
<1>6. Among(lines, K) = lines
  BY <1>1, <1>2, <1>3, <1>5, AmongAll
<1> QED
  BY <1>2, <1>4, <1>5, <1>6

(* What is known of the diffs and the comment is what is promised of its lines. *)
LEMMA LinesTrue == LoadInv /\ LinesInv => LinesPointAtTheCode
<1> DEFINE named == {diffs[i] : i \in Naming(diffs, comment.path)}
           t == SplitAndNormalize(comment.code)
           text == Text(LastDiff(diffs, comment.path).new)
<1> SUFFICES ASSUME LoadInv, LinesInv, comment.at = "final", Naming(diffs, comment.path) # {},
                    \A d \in named : Steady(d)
             PROVE  /\ comment.place # Unplaced => \E d \in named : PlacedIn(d)
                    /\ comment.place = Unplaced =>
                         /\ comment.code = comment.asked
                         /\ Quoted # <<>> => \A first \in DOMAIN text : ~At(text, first)
                         /\ comment.code # <<>> /\ ~QuotesBlank(comment.code)
                              => ~HasLines(text, comment.code)
  BY DEF LinesPointAtTheCode
<1>1. Quoted = t /\ \A s, first : At(s, first) <=> ReadAt(s, t, first)
  BY DEF Quoted, At, ReadAt
<1>2. diffs \in Seq(Diffs) /\ AllAligned(diffs) /\ comment.code \in Seq(Lines)
  BY DEF LoadInv, Typing, DiffList, LinesInv, Honest
<1>3. ASSUME NEW i \in Naming(diffs, comment.path)
      PROVE  /\ diffs[i] \in Diffs /\ Aligned(diffs[i]) /\ Steady(diffs[i])
             /\ DOMAIN diffs[i].hunks = 1..Len(diffs[i].hunks)
             /\ DOMAIN Text(diffs[i].new) = 1..Len(Text(diffs[i].new))
  <2>1. i \in 1..Len(diffs) /\ diffs[i] \in Diffs
    BY <1>2, NamedDiffs
  <2>2. Aligned(diffs[i]) /\ Steady(diffs[i])
    BY <1>2, <2>1 DEF AllAligned
  <2>3. diffs[i].hunks \in Seq(HunkOf(Lines)) /\ Text(diffs[i].new) \in Seq(Lines)
    BY <2>1, DiffTexts
  <2> QED
    BY <2>1, <2>2, <2>3, LenProperties
<1>4. ASSUME comment.place # Unplaced PROVE \E d \in named : PlacedIn(d)
  <2>1. PICK i \in Naming(diffs, comment.path) : comment.place = ResolveComment(diffs[i], comment.code)
    BY <1>4 DEF LinesInv, Honest
  <2>2. PlacedAt(diffs[i], t, comment.place)
    BY <1>2, <1>3, <1>4, <2>1, Resolved
  <2>3. PlacedIn(diffs[i])
    <3> HIDE DEF t
    <3> QED
      BY <1>1, <1>3, <2>2, Zenon DEF PlacedIn, PlacedAt, InHunk
  <2> QED
    BY <2>3
<1>5. ASSUME comment.place = Unplaced, t # <<>>
      PROVE  \A x \in DOMAIN text : ~ReadAt(text, t, x)
  <2>1. PICK i \in Naming(diffs, comment.path) : LastDiff(diffs, comment.path) = diffs[i]
    BY <1>2, NamedDiffs
  <2>2. Unplaced = ResolveComment(diffs[i], comment.code)
    <3>1. comment.code # <<>>
      BY <1>5, EmptyQuote
    <3> QED
      BY <1>5, <2>1, <3>1 DEF LinesInv, Honest
  <2>3. \A x \in 1..Len(Text(diffs[i].new)) : ~ReadAt(Text(diffs[i].new), t, x)
    BY <1>2, <1>3, <1>5, <2>2, Resolved
  <2>4. text = Text(diffs[i].new) /\ DOMAIN text = 1..Len(text)
    BY <1>3, <2>1
  <2> HIDE DEF t, text
  <2> QED
    BY <2>3, <2>4
<1>6. ASSUME comment.place = Unplaced, comment.code # <<>>, ~QuotesBlank(comment.code)
      PROVE  ~HasLines(text, comment.code)
  <2>1. /\ DOMAIN t = DOMAIN comment.code /\ Len(t) = Len(comment.code)
        /\ \A j \in DOMAIN comment.code : t[j] = Norm[comment.code[j]]
    BY <1>2, <1>6, WholeQuote
  <2> HIDE DEF t, text
  <2>2. t # <<>>
    <3>1. Len(comment.code) # 0
      BY <1>2, <1>6, EmptySeq
    <3> QED
      BY <2>1, <3>1
  <2>3. \A x \in DOMAIN text : ~ReadAt(text, t, x)
    BY <1>5, <1>6, <2>2
  <2> QED
    BY <2>1, <2>3 DEF HasLines, ReadAt
<1>7. comment.place = Unplaced => comment.code = comment.asked
  BY DEF LinesInv, Honest
<1> HIDE DEF t, text
<1> QED
  BY <1>1, <1>4, <1>5, <1>6, <1>7

(* The diffs stay aligned and the comment honest, whatever git printed, whenever
   the files were edited and whichever searches found the quote. *)
THEOREM LinesInvHolds == Spec => []LinesInv
<1>1. Init => LinesInv
  BY LinesStart
<1>2. LoadInv /\ LinesInv /\ [Next]_vars => LinesInv'
  BY LinesStep
<1> QED
  BY <1>1, <1>2, LoadInvHolds, PTL DEF Spec

(* A comment that got lines points at the code it quotes, the quote's blank lines
   aside, in the new file or, when no hunk shows the quote there, in the old one. A
   comment without lines keeps the quote it came with, and the new file of the last
   diff that names its file does not have the quote's lines, the blank ones left out,
   in a row: a quote without blank lines is not in it (resolver.go, relocation.go,
   hunk.go). For all files, all edits, all quotes and all answers of the re-location
   task, of the diffs whose file did not change between git's diff and the reading of
   its content. *)
THEOREM LinesPoint == Spec => []LinesPointAtTheCode
<1>1. LoadInv /\ LinesInv => LinesPointAtTheCode
  BY LinesTrue
<1> QED
  BY <1>1, LoadInvHolds, LinesInvHolds, PTL

===============================================================================
