--------------------------- MODULE ReviewRunProofs ---------------------------
(***************************************************************************)
(* The inductive invariant of ReviewRun, for every number of diffs, every  *)
(* semaphore size, and every number and size of code_comment calls. It is  *)
(* built in layers:                                                        *)
(*   Types, SnapIsPrefix         the domains, and what a filter was shown; *)
(*   Control, WaitersWait        where goroutines and pool tasks can be;   *)
(*   RunCounters, PoolCounters   every counter is a cardinality.           *)
(* On top of that invariant Inv, what becomes of the comments: none is     *)
(* lost, none is dropped by a filter that was not asked about it, and a    *)
(* filter is asked about all its own:                                      *)
(*   Whereabouts                 every comment is in exactly one place;    *)
(*   OwnCallsDone,               when a filter takes its snapshot, its     *)
(*   RemovedWereShown            file's own calls are over;                *)
(*   Phases                      nothing moves when Run collects.          *)
(* The proof that a step keeps a layer uses the layers before it. At the   *)
(* end, that ReviewRun implements ReviewPromise.                           *)
(***************************************************************************)
EXTENDS ReviewRun, FiniteSetTheorems, SequenceTheorems, TLAPS

------------------------------------------------------------------------------
(* Layer 1: types, with the counters only known to be integers. *)

Types ==
  /\ kind \in [Diffs -> Kinds]
  /\ phase \in {"load", "dispatch", "await", "collect", "returned"}
  /\ cursor \in 1..(NumDiffs + 1)
  /\ pc \in [Diffs -> FilePcs]
  /\ outcome \in [Diffs -> Outcomes]
  /\ slots \in Int /\ wg \in Int /\ dispatched \in Int /\ failed \in Int
  /\ calls \in [Diffs -> 0..MaxCalls]
  /\ taskPc \in [Task -> {"none", "queued", "running", "done"}]
  /\ rest \in [Task -> Seq(Comment)]
  /\ poolCount \in Int /\ poolSlots \in Int
  /\ waiters \subseteq Diffs \cup {Main}
  /\ woken \subseteq Diffs \cup {Main}
  /\ collector \in [Path -> Seq(Comment)]
  /\ snap \in [Diffs -> Seq(Comment)]
  /\ found \subseteq Comment
  /\ removed \subseteq Comment
  /\ result \in [kind : {"none", "comments", "error"}, comments : SUBSET Comment]
  /\ panicked \in BOOLEAN

(* While a review filter is out, the list it was asked about is still a prefix
   of the list the collector has for its path. *)
SnapIsPrefix ==
  \A d \in Diffs : pc[d] = "filter" =>
    \A i \in DOMAIN snap[d] : i \in DOMAIN collector[d] /\ collector[d][i] = snap[d][i]

(* The numbers of a finite set S are its Nth(S, 1), Nth(S, 2), ... *)
LEMMA NthEnumerates ==
  ASSUME NEW S \in SUBSET Nat, IsFiniteSet(S)
  PROVE  /\ \A j \in 1..Cardinality(S) : Nth(S, j) \in S
         /\ \A i, j \in 1..Cardinality(S) : Nth(S, i) = Nth(S, j) => i = j
         /\ \A i \in S : \E j \in 1..Cardinality(S) : Nth(S, j) = i
<1> DEFINE below(i) == {k \in S : k <= i}
           n == Cardinality(S)
           rank == [i \in S |-> Cardinality(below(i))]
<1>1. \A i \in S : IsFiniteSet(below(i)) /\ Cardinality(below(i)) \in 1..n
  <2> TAKE i \in S
  <2>1. below(i) \in SUBSET S
    OBVIOUS
  <2>2. IsFiniteSet(below(i)) /\ Cardinality(below(i)) <= n
    BY <2>1, FS_Subset
  <2>3. i \in below(i)
    OBVIOUS
  <2>4. Cardinality(below(i)) # 0
    BY <2>2, <2>3, FS_EmptySet
  <2> QED
    BY <2>2, <2>4, FS_CardinalityType
<1>2. \A i, k \in S : i < k => Cardinality(below(i)) # Cardinality(below(k))
  <2> SUFFICES ASSUME NEW i \in S, NEW k \in S, i < k,
                      Cardinality(below(i)) = Cardinality(below(k))
               PROVE  FALSE
    OBVIOUS
  <2>1. below(i) \in SUBSET below(k)
    <3> SUFFICES ASSUME NEW x \in S, x <= i PROVE x <= k
      OBVIOUS
    <3>1. x \in Nat /\ i \in Nat /\ k \in Nat
      OBVIOUS
    <3> QED
      BY <3>1
  <2>2. below(k) = below(i)
    BY <1>1, <2>1, FS_Subset
  <2>3. k \in below(k) /\ k \notin below(i)
    OBVIOUS
  <2> QED
    BY <2>2, <2>3
<1>3. rank \in Injection(S, 1..n)
  <2>1. rank \in [S -> 1..n]
    BY <1>1
  <2>2. \A i, k \in S : rank[i] = rank[k] => i = k
    BY <1>2
  <2> QED
    BY <2>1, <2>2 DEF Injection, IsInjective
<1>4. n \in Nat /\ IsFiniteSet(1..n) /\ Cardinality(1..n) = n
  BY FS_CardinalityType, FS_Interval
<1>5. rank \in Surjection(S, 1..n)
  BY <1>3, <1>4, FS_Injection
<1>6. \A j \in 1..n : Nth(S, j) \in S /\ rank[Nth(S, j)] = j
  <2> TAKE j \in 1..n
  <2>1. PICK i \in S : rank[i] = j
    BY <1>5 DEF Surjection
  <2>2. \E k \in S : Cardinality(below(k)) = j
    BY <2>1
  <2> QED
    BY <2>2 DEF Nth
<1>7. \A i \in S : Nth(S, rank[i]) = i
  <2> TAKE i \in S
  <2>1. rank[i] \in 1..n
    BY <1>1
  <2>2. rank[Nth(S, rank[i])] = rank[i] /\ Nth(S, rank[i]) \in S
    BY <2>1, <1>6
  <2> QED
    BY <2>2, <1>3 DEF Injection, IsInjective
<1> QED
  BY <1>1, <1>6, <1>7

Injective(s) == \A i, j \in DOMAIN s : s[i] = s[j] => i = j

(* Removing by position keeps the other elements, each as often as it was. *)
LEMMA RemoveIndicesKeeps ==
  ASSUME NEW X, NEW s \in Seq(X), NEW I
  PROVE  /\ RemoveIndices(s, I) \in Seq(X)
         /\ Range(RemoveIndices(s, I)) = {s[i] : i \in DOMAIN s \ I}
         /\ Injective(s) => Injective(RemoveIndices(s, I))
<1> DEFINE kept == DOMAIN s \ I
           n == Cardinality(kept)
           R == RemoveIndices(s, I)
<1>1. DOMAIN s = 1..Len(s) /\ Len(s) \in Nat
  OBVIOUS
<1>2. kept \in SUBSET Nat /\ IsFiniteSet(kept)
  <2>1. IsFiniteSet(DOMAIN s)
    BY <1>1, FS_Interval
  <2>2. IsFiniteSet(kept)
    BY <2>1, FS_Difference
  <2>3. kept \in SUBSET Nat
    BY <1>1
  <2> QED
    BY <2>2, <2>3
<1>3. n \in Nat
  BY <1>2, FS_CardinalityType
<1>4. R = [j \in 1..n |-> s[Nth(kept, j)]]
  BY DEF RemoveIndices
<1>5. /\ \A j \in 1..n : Nth(kept, j) \in kept
      /\ \A i, j \in 1..n : Nth(kept, i) = Nth(kept, j) => i = j
      /\ \A i \in kept : \E j \in 1..n : Nth(kept, j) = i
  BY <1>2, NthEnumerates
<1> HIDE DEF kept, n, R
<1>6. \A j \in 1..n : s[Nth(kept, j)] \in X
  <2>1. \A i \in kept : s[i] \in X
    BY <1>1, ElementOfSeq DEF kept
  <2> QED
    BY <1>5, <2>1
<1>7. R \in Seq(X)
  BY <1>3, <1>4, <1>6, IsASeq
<1>8. Range(R) = {s[i] : i \in kept}
  BY <1>4, <1>5 DEF Range
<1>9. Injective(s) => Injective(R)
  BY <1>4, <1>5 DEF Injective, kept
<1> QED
  BY <1>7, <1>8, <1>9 DEF kept, R

(* The comments of the k-th code_comment call of d, as Submit makes them. *)
Batch(t, n, path) == [i \in 1..n |-> [task |-> t, pos |-> i, path |-> path[i]]]

LEMMA BatchType ==
  ASSUME NEW t \in Task, NEW n \in 1..MaxBatch, NEW path \in [1..n -> Path]
  PROVE  /\ Batch(t, n, path) \in Seq(Comment)
         /\ DOMAIN Batch(t, n, path) = 1..n
         /\ Injective(Batch(t, n, path))
         /\ \A c \in Range(Batch(t, n, path)) : c \in Comment /\ c.task = t
<1> DEFINE B == Batch(t, n, path)
<1>1. n \in Nat /\ \A i \in 1..n : i \in 1..MaxBatch
  BY RunAssumption
<1>2. \A i \in 1..n : [task |-> t, pos |-> i, path |-> path[i]] \in Comment
  BY <1>1 DEF Comment
<1>3. B \in Seq(Comment)
  BY <1>1, <1>2, IsASeq DEF Batch
<1>4. Injective(B)
  BY DEF Batch, Injective
<1> QED
  BY <1>2, <1>3, <1>4 DEF Batch, Range

LEMMA TypesInit == Init => Types
<1> SUFFICES ASSUME Init PROVE Types
  OBVIOUS
<1>1. <<>> \in Seq(Comment)
  BY EmptySeq
<1>2. 1 \in 1..(NumDiffs + 1) /\ 0 \in 0..MaxCalls
  BY RunAssumption
<1>3. result \in [kind : {"none", "comments", "error"}, comments : SUBSET Comment]
  BY DEF Init, Promise!NoAnswer
<1>4. /\ kind \in [Diffs -> Kinds]
      /\ pc \in [Diffs -> FilePcs]
      /\ outcome \in [Diffs -> Outcomes]
      /\ calls \in [Diffs -> 0..MaxCalls]
      /\ taskPc \in [Task -> {"none", "queued", "running", "done"}]
  BY <1>2 DEF Init, Kinds, FilePcs, Outcomes
<1>5. /\ rest \in [Task -> Seq(Comment)]
      /\ collector \in [Path -> Seq(Comment)]
      /\ snap \in [Diffs -> Seq(Comment)]
  BY <1>1 DEF Init
<1>6. /\ found \subseteq Comment /\ removed \subseteq Comment
      /\ waiters \subseteq Diffs \cup {Main} /\ woken \subseteq Diffs \cup {Main}
      /\ panicked \in BOOLEAN
  BY DEF Init
<1>7. /\ phase \in {"load", "dispatch", "await", "collect", "returned"}
      /\ cursor \in 1..(NumDiffs + 1)
      /\ slots \in Int /\ wg \in Int /\ dispatched \in Int /\ failed \in Int
      /\ poolCount \in Int /\ poolSlots \in Int
  BY <1>2 DEF Init
<1> QED
  BY <1>3, <1>4, <1>5, <1>6, <1>7 DEF Types

LEMMA TypesStep == Types /\ SnapIsPrefix /\ [Next]_vars => Types'
<1> SUFFICES ASSUME Types, SnapIsPrefix, [Next]_vars PROVE Types'
  OBVIOUS
<1> USE RunAssumption DEF Types
<1>1. CASE Load
  BY <1>1 DEF Load, Return, fileVars, poolVars, waitVars, histVars,
     Promise!Error, Promise!Comments
<1>2. CASE DispatchSkip
  BY <1>2 DEF DispatchSkip, fileVars, poolVars, waitVars, histVars
<1>3. CASE Dispatch
  BY <1>3 DEF Dispatch, poolVars, waitVars, histVars, Diffs, FilePcs
<1>4. CASE AllSubtasksDone
  BY <1>4 DEF AllSubtasksDone, AfterWait, Return, fileVars, poolVars, waitVars, histVars,
     Promise!Comments
<1>5. CASE Collect
  <2>1. Collected \subseteq Comment
    BY RangeOfSeq DEF Collected
  <2> QED
    BY <1>5, <2>1 DEF Collect, Return, fileVars, poolVars, waitVars, histVars,
       Promise!Error, Promise!Comments
<1>6. ASSUME NEW d \in Diffs, StartFails(d) PROVE Types'
  BY <1>6 DEF StartFails, Move, runVars, poolVars, waitVars, histVars, FilePcs, Outcomes
<1>7. ASSUME NEW d \in Diffs, StartSkips(d) PROVE Types'
  BY <1>7 DEF StartSkips, Move, runVars, poolVars, waitVars, histVars, FilePcs, Outcomes
<1>8. ASSUME NEW d \in Diffs, StartReview(d) PROVE Types'
  BY <1>8 DEF StartReview, Move, runVars, poolVars, waitVars, histVars, FilePcs
<1>9. ASSUME NEW d \in Diffs, Submit(d) PROVE Types'
  <2> DEFINE t == <<d, calls[d] + 1>>
  <2>1. t \in Task /\ calls[d] + 1 \in 0..MaxCalls
    BY <1>9 DEF Submit, Task
  <2>2. PICK n \in 1..MaxBatch : \E path \in [1..n -> Path] :
          /\ calls' = [calls EXCEPT ![d] = @ + 1]
          /\ taskPc' = [taskPc EXCEPT ![t] = "queued"]
          /\ rest' = [rest EXCEPT ![t] = Batch(t, n, path)]
          /\ poolCount' = poolCount + 1
          /\ found' = found \cup Range(Batch(t, n, path))
    BY <1>9 DEF Submit, Batch
  <2>3. PICK path \in [1..n -> Path] :
          /\ calls' = [calls EXCEPT ![d] = @ + 1]
          /\ taskPc' = [taskPc EXCEPT ![t] = "queued"]
          /\ rest' = [rest EXCEPT ![t] = Batch(t, n, path)]
          /\ poolCount' = poolCount + 1
          /\ found' = found \cup Range(Batch(t, n, path))
    BY <2>2
  <2> DEFINE B == Batch(t, n, path)
  <2>4. B \in Seq(Comment) /\ Range(B) \subseteq Comment
    BY <2>1, BatchType
  <2>5. calls' \in [Diffs -> 0..MaxCalls]
    BY <2>1, <2>3
  <2> HIDE DEF t, B
  <2>6. /\ taskPc' \in [Task -> {"none", "queued", "running", "done"}]
        /\ rest' \in [Task -> Seq(Comment)]
        /\ found' \subseteq Comment
        /\ poolCount' \in Int
    BY <2>1, <2>3, <2>4 DEF B
  <2> QED
    BY <1>9, <2>5, <2>6 DEF Submit, runVars, waitVars
<1>10. ASSUME NEW d \in Diffs, LoopFails(d) PROVE Types'
  BY <1>10 DEF LoopFails, Move, runVars, poolVars, waitVars, histVars, FilePcs, Outcomes
<1>11. ASSUME NEW d \in Diffs, LoopEnds(d) PROVE Types'
  BY <1>11 DEF LoopEnds, Move, runVars, poolVars, waitVars, histVars, FilePcs
<1>12. ASSUME NEW d \in Diffs, FilterStart(d) PROVE Types'
  <2>1. pc' \in [Diffs -> FilePcs] /\ outcome' \in [Diffs -> Outcomes]
    BY <1>12 DEF FilterStart, FilePcs, Outcomes
  <2>2. d \in Path
    BY DEF Path
  <2>3. snap' \in [Diffs -> Seq(Comment)]
    BY <1>12, <2>2 DEF FilterStart
  <2> QED
    BY <1>12, <2>1, <2>3 DEF FilterStart, runVars, poolVars, waitVars, histVars
<1>13. ASSUME NEW d \in Diffs, FilterEnds(d) PROVE Types'
  <2>1. PICK I \in SUBSET ValidPositions(d) :
          /\ collector' = [collector EXCEPT ![d] = RemoveIndices(collector[d], I)]
          /\ removed' = removed \cup {collector[d][i] : i \in I}
    BY <1>13 DEF FilterEnds
  <2>2. collector[d] \in Seq(Comment)
    BY DEF Path
  <2>3. RemoveIndices(collector[d], I) \in Seq(Comment)
    BY <2>2, RemoveIndicesKeeps
  <2>4. \A i \in I : collector[d][i] \in Comment
    BY <1>13, <2>2, ElementOfSeq DEF FilterEnds, Move, ValidPositions, SnapIsPrefix
  <2>5. removed' \subseteq Comment
    BY <2>1, <2>4
  <2>6. collector' \in [Path -> Seq(Comment)]
    BY <2>1, <2>3
  <2> QED
    BY <1>13, <2>5, <2>6 DEF FilterEnds, Move, runVars, waitVars, FilePcs, Outcomes
<1>14. ASSUME NEW d \in Diffs, Finish(d) PROVE Types'
  BY <1>14 DEF Finish, Move, Released, poolVars, waitVars, histVars, FilePcs
<1>15. ASSUME NEW w \in Diffs \cup {Main}, AwaitStep(w) PROVE Types'
  BY <1>15 DEF AwaitStep, AwaitReturns, AwaitBlocks, AwaitResumes, AwaitUnchanged, Proceeds,
     poolVars, waitVars, histVars, FilePcs
<1>16. ASSUME NEW t \in Task, TaskStarts(t) PROVE Types'
  BY <1>16 DEF TaskStarts, runVars, fileVars, waitVars, histVars
<1>17. ASSUME NEW t \in Task, TaskAdds(t) PROVE Types'
  BY <1>17, HeadTailProperties, AppendProperties, ZenonT(40)
  DEF TaskAdds, runVars, fileVars, waitVars, histVars, Comment
<1>18. ASSUME NEW t \in Task, TaskEnds(t) PROVE Types'
  BY <1>18 DEF TaskEnds, runVars, fileVars, histVars
<1>19. CASE UNCHANGED vars
  BY <1>19 DEF vars, runVars, fileVars, poolVars, waitVars, histVars
<1> QED
  BY <1>1, <1>2, <1>3, <1>4, <1>5, <1>6, <1>7, <1>8, <1>9, <1>10, <1>11, <1>12, <1>13,
     <1>14, <1>15, <1>16, <1>17, <1>18, <1>19
  DEF Next, RunStep, FileStep, TaskStep, Stopped

LEMMA SnapIsPrefixStep == Types /\ SnapIsPrefix /\ [Next]_vars => SnapIsPrefix'
<1> SUFFICES ASSUME Types, SnapIsPrefix, [Next]_vars PROVE SnapIsPrefix'
  OBVIOUS
<1>0. /\ pc \in [Diffs -> FilePcs] /\ snap \in [Diffs -> Seq(Comment)]
      /\ collector \in [Path -> Seq(Comment)] /\ Diffs \subseteq Path
  BY DEF Types, Path
<1> DEFINE Same == UNCHANGED <<snap, collector>>
                   /\ \A d \in Diffs : pc'[d] = "filter" => pc[d] = "filter"
<1>1. CASE RunStep
  <2>1. Same
    BY <1>0, <1>1 DEF RunStep, Load, DispatchSkip, Dispatch, AllSubtasksDone, Collect,
       fileVars, poolVars
  <2> QED
    BY <2>1 DEF SnapIsPrefix
<1>2. ASSUME NEW d \in Diffs,
             \/ StartFails(d) \/ StartSkips(d) \/ StartReview(d)
             \/ Submit(d) \/ LoopFails(d) \/ LoopEnds(d) \/ Finish(d)
      PROVE  SnapIsPrefix'
  <2>1. Same
    BY <1>0, <1>2 DEF StartFails, StartSkips, StartReview, Submit, LoopFails, LoopEnds, Finish,
       Move, poolVars
  <2> QED
    BY <2>1 DEF SnapIsPrefix
<1>3. ASSUME NEW d \in Diffs, FilterStart(d) PROVE SnapIsPrefix'
  BY <1>0, <1>3 DEF FilterStart, poolVars, SnapIsPrefix
<1>4. ASSUME NEW d \in Diffs, FilterEnds(d) PROVE SnapIsPrefix'
  <2>1. pc'[d] # "filter" /\ UNCHANGED snap
    BY <1>0, <1>4 DEF FilterEnds, Move
  <2>2. \A e \in Diffs \ {d} : pc'[e] = pc[e] /\ collector'[e] = collector[e]
    BY <1>0, <1>4 DEF FilterEnds, Move
  <2> QED
    BY <2>1, <2>2 DEF SnapIsPrefix
<1>5. ASSUME NEW w \in Diffs \cup {Main}, AwaitStep(w) PROVE SnapIsPrefix'
  <2>1. Same
    BY <1>0, <1>5 DEF AwaitStep, AwaitReturns, AwaitBlocks, AwaitResumes, AwaitUnchanged,
       Proceeds, poolVars
  <2> QED
    BY <2>1 DEF SnapIsPrefix
<1>6. ASSUME NEW t \in Task, TaskStarts(t) \/ TaskEnds(t) PROVE SnapIsPrefix'
  <2>1. Same
    BY <1>6 DEF TaskStarts, TaskEnds, fileVars
  <2> QED
    BY <2>1 DEF SnapIsPrefix
<1>7. ASSUME NEW t \in Task, TaskAdds(t) PROVE SnapIsPrefix'
  <2>1. PICK c \in Comment : collector' = [collector EXCEPT ![c.path] = Append(@, c)]
    <3>1. rest[t] \in Seq(Comment) /\ rest[t] # <<>>
      BY <1>7 DEF TaskAdds, Types
    <3>2. Head(rest[t]) \in Comment
      BY <3>1
    <3> QED
      BY <1>7, <3>2 DEF TaskAdds
  <2>2. \A d \in Diffs : \A i \in DOMAIN collector[d] :
          i \in DOMAIN collector'[d] /\ collector'[d][i] = collector[d][i]
    <3> SUFFICES ASSUME NEW d \in Diffs, NEW i \in DOMAIN collector[d]
                 PROVE  i \in DOMAIN collector'[d] /\ collector'[d][i] = collector[d][i]
      OBVIOUS
    <3>1. collector[d] \in Seq(Comment)
      BY <1>0
    <3>2. collector'[d] \in {collector[d], Append(collector[d], c)}
      BY <1>0, <2>1
    <3> QED
      BY <3>1, <3>2, AppendProperties, SMTT(20)
  <2> QED
    BY <1>7, <2>2 DEF TaskAdds, fileVars, SnapIsPrefix
<1>8. CASE UNCHANGED vars
  BY <1>8 DEF vars, fileVars, poolVars, SnapIsPrefix
<1> QED
  BY <1>1, <1>2, <1>3, <1>4, <1>5, <1>6, <1>7, <1>8 DEF Next, FileStep, TaskStep, Stopped

------------------------------------------------------------------------------
(* Layer 2: where the goroutines and the pool's tasks can be. *)

InPool(t) == taskPc[t] \in {"queued", "running"}

Control ==
  /\ \A d \in Diffs : pc[d] # "idle" <=> (kind[d] = "review" /\ d < cursor)
  /\ \A d \in Diffs : outcome[d] = "none" <=> pc[d] \notin {"finish", "done"}
  /\ phase = "load" => cursor = 1
  /\ \A d \in Diffs : calls[d] > 0 => pc[d] \notin {"idle", "start"}
  /\ \A d \in Diffs, k \in 1..MaxCalls : taskPc[<<d, k>>] = "none" <=> calls[d] < k
  /\ \A t \in Task : ~InPool(t) => rest[t] = <<>>

(* Who is registered with the pool's WaitGroup is inside Await. *)
WaitersWait ==
  /\ waiters \cap woken = {}
  /\ \A w \in waiters \cup woken : Awaits(w)

LEMMA ControlInit == Init => Control
<1> SUFFICES ASSUME Init PROVE Control
  OBVIOUS
<1>1. \A d \in Diffs : ~(d < 1)
  BY RunAssumption DEF Diffs
<1>2. \A d \in Diffs, k \in 1..MaxCalls : <<d, k>> \in Task /\ 0 < k
  BY DEF Task
<1> QED
  BY <1>1, <1>2 DEF Init, Control, InPool

LEMMA WaitersWaitInit == Init => WaitersWait
BY DEF Init, WaitersWait

LEMMA WaitersWaitStep == Types /\ Control /\ WaitersWait /\ [Next]_vars => WaitersWait'
<1> SUFFICES ASSUME Types, Control, WaitersWait, [Next]_vars PROVE WaitersWait'
  OBVIOUS
<1>0. /\ pc \in [Diffs -> FilePcs]
      /\ waiters \subseteq Diffs \cup {Main} /\ woken \subseteq Diffs \cup {Main}
      /\ \A d \in Diffs : d # Main
  BY RunAssumption DEF Types, Diffs, Main
<1> USE <1>0 DEF WaitersWait, Awaits
<1>1. CASE RunStep
  <2>1. UNCHANGED <<waiters, woken>> /\ phase # "await"
    BY <1>1 DEF RunStep, Load, DispatchSkip, Dispatch, AllSubtasksDone, Collect, waitVars
  <2>2. \A d \in Diffs : pc[d] = "await" => pc'[d] = "await"
    <3>1. CASE Dispatch
      <4>1. cursor \in Diffs
        BY <3>1 DEF Types, Dispatch, Diffs
      <4>2. pc[cursor] = "idle" /\ pc' = [pc EXCEPT ![cursor] = "start"]
        BY <3>1, <4>1 DEF Types, Dispatch, Control, Diffs
      <4> QED
        BY <4>2
    <3>2. CASE ~Dispatch
      BY <1>1, <3>2 DEF RunStep, Load, DispatchSkip, AllSubtasksDone, Collect, fileVars
    <3> QED
      BY <3>1, <3>2
  <2> QED
    BY <2>1, <2>2
<1>2. ASSUME NEW d \in Diffs, FileStep(d) PROVE WaitersWait'
  <2>1. UNCHANGED <<phase, waiters, woken>>
    BY <1>2 DEF FileStep, StartFails, StartSkips, StartReview, Submit, LoopFails, LoopEnds,
       FilterStart, FilterEnds, Finish, runVars, waitVars
  <2>2. pc[d] # "await" /\ \A e \in Diffs \ {d} : pc'[e] = pc[e]
    BY <1>2 DEF FileStep, StartFails, StartSkips, StartReview, Submit, LoopFails, LoopEnds,
       FilterStart, FilterEnds, Finish, Move
  <2> QED
    BY <2>1, <2>2
<1>3. ASSUME NEW w \in Diffs \cup {Main}, AwaitStep(w) PROVE WaitersWait'
  <2>1. CASE AwaitReturns(w)
    BY <2>1 DEF AwaitReturns, Proceeds, waitVars
  <2>2. CASE AwaitBlocks(w)
    BY <2>2 DEF AwaitBlocks
  <2>3. CASE AwaitResumes(w)
    BY <2>3 DEF AwaitResumes, Proceeds
  <2> QED
    BY <1>3, <2>1, <2>2, <2>3 DEF AwaitStep
<1>4. ASSUME NEW t \in Task, TaskStep(t) PROVE WaitersWait'
  BY <1>4 DEF TaskStep, TaskStarts, TaskAdds, TaskEnds, runVars, fileVars, waitVars
<1>5. CASE UNCHANGED vars
  BY <1>5 DEF vars, runVars, fileVars, waitVars
<1> QED
  BY <1>1, <1>2, <1>3, <1>4, <1>5 DEF Next, Stopped

(* A goroutine that moves on inside its conversation disturbs nothing here. *)
MovesInside ==
  /\ UNCHANGED <<kind, cursor, outcome, calls, taskPc, rest>>
  /\ phase' = "load" => phase = "load"
  /\ \A e \in Diffs : pc'[e] # "idle" <=> pc[e] # "idle"
  /\ \A e \in Diffs : pc'[e] \notin {"finish", "done"} <=> pc[e] \notin {"finish", "done"}
  /\ \A e \in Diffs : pc[e] \notin {"idle", "start"} => pc'[e] \notin {"idle", "start"}

LEMMA ControlFrame == Control /\ MovesInside => Control'
<1> SUFFICES ASSUME Control, MovesInside PROVE Control'
  OBVIOUS
<1> USE DEF MovesInside
<1>1. \A d \in Diffs : pc'[d] # "idle" <=> (kind'[d] = "review" /\ d < cursor')
  BY DEF Control
<1>2. \A d \in Diffs : outcome'[d] = "none" <=> pc'[d] \notin {"finish", "done"}
  BY DEF Control
<1>3. \A d \in Diffs : calls'[d] > 0 => pc'[d] \notin {"idle", "start"}
  BY DEF Control
<1>4. phase' = "load" => cursor' = 1
  BY DEF Control
<1>5. /\ \A d \in Diffs, k \in 1..MaxCalls : taskPc'[<<d, k>>] = "none" <=> calls'[d] < k
      /\ \A t \in Task : ~InPool(t)' => rest'[t] = <<>>
  BY DEF Control, InPool
<1> QED
  BY <1>1, <1>2, <1>3, <1>4, <1>5 DEF Control

LEMMA ControlStep == Types /\ WaitersWait /\ Control /\ [Next]_vars => Control'
<1> SUFFICES ASSUME Types, WaitersWait, Control, [Next]_vars PROVE Control'
  OBVIOUS
<1>0. /\ pc \in [Diffs -> FilePcs] /\ outcome \in [Diffs -> Outcomes]
      /\ calls \in [Diffs -> 0..MaxCalls] /\ rest \in [Task -> Seq(Comment)]
      /\ taskPc \in [Task -> {"none", "queued", "running", "done"}]
      /\ cursor \in 1..(NumDiffs + 1)
      /\ Diffs = 1..NumDiffs /\ NumDiffs \in Nat /\ MaxCalls \in Nat
      /\ Task = Diffs \X (1..MaxCalls)
  BY RunAssumption DEF Types, Diffs, Task
<1> USE <1>0 DEF Control, InPool
<1>1. CASE Load \/ DispatchSkip \/ AllSubtasksDone \/ Collect
  BY <1>1 DEF Load, DispatchSkip, AllSubtasksDone, AfterWait, Collect, Return, fileVars, poolVars
<1>2. CASE Dispatch
  <2>1. /\ cursor \in Diffs /\ kind[cursor] = "review" /\ pc[cursor] = "idle"
        /\ cursor' = cursor + 1 /\ pc' = [pc EXCEPT ![cursor] = "start"]
        /\ phase' # "load" /\ UNCHANGED <<kind, outcome, calls, taskPc, rest>>
    BY <1>2 DEF Dispatch, poolVars
  <2>2. \A d \in Diffs : pc'[d] # "idle" <=> (kind'[d] = "review" /\ d < cursor')
    BY <2>1
  <2>3. \A d \in Diffs : /\ pc'[d] \notin {"finish", "done"} <=> pc[d] \notin {"finish", "done"}
                         /\ pc[d] \notin {"idle", "start"} => pc'[d] \notin {"idle", "start"}
    BY <2>1
  <2> QED
    BY <2>1, <2>2, <2>3
<1>3. ASSUME NEW d \in Diffs, StartFails(d) \/ StartSkips(d) PROVE Control'
  <2>1. PICK o \in {"failed", "skipped"} : outcome' = [outcome EXCEPT ![d] = o]
    BY <1>3 DEF StartFails, StartSkips
  <2>2. /\ pc[d] = "start" /\ pc' = [pc EXCEPT ![d] = "finish"]
        /\ UNCHANGED <<kind, cursor, phase, calls, taskPc, rest>>
    BY <1>3 DEF StartFails, StartSkips, Move, runVars, poolVars
  <2> QED
    BY <2>1, <2>2
<1>4. ASSUME NEW d \in Diffs, StartReview(d) \/ LoopEnds(d) PROVE Control'
  <2>1. PICK q \in {"loop", "await"} : pc' = [pc EXCEPT ![d] = q]
    BY <1>4 DEF StartReview, LoopEnds, Move
  <2>2. pc[d] \in {"start", "loop"} /\ UNCHANGED <<kind, cursor, phase, outcome, calls, taskPc, rest>>
    BY <1>4 DEF StartReview, LoopEnds, Move, runVars, poolVars
  <2>3. \A e \in Diffs : /\ pc'[e] # "idle" <=> pc[e] # "idle"
                         /\ pc'[e] \notin {"finish", "done"} <=> pc[e] \notin {"finish", "done"}
                         /\ pc[e] \notin {"idle", "start"} => pc'[e] \notin {"idle", "start"}
    BY <2>1, <2>2
  <2>4. MovesInside
    BY <2>2, <2>3 DEF MovesInside
  <2> HIDE <1>0 DEF Control, InPool
  <2> QED
    BY <2>4, ControlFrame
<1>5. ASSUME NEW d \in Diffs, Submit(d) PROVE Control'
  <2> DEFINE t == <<d, calls[d] + 1>>
  <2>1. t \in Task
    BY <1>5 DEF Submit
  <2>2. /\ calls' = [calls EXCEPT ![d] = @ + 1]
        /\ taskPc' = [taskPc EXCEPT ![t] = "queued"]
        /\ \E B : rest' = [rest EXCEPT ![t] = B]
    BY <1>5 DEF Submit
  <2>3. UNCHANGED <<pc, outcome, kind, cursor, phase>> /\ pc[d] = "loop"
    BY <1>5 DEF Submit, runVars
  <2>4. \A e \in Diffs, k \in 1..MaxCalls : taskPc'[<<e, k>>] = "none" <=> calls'[e] < k
    <3> SUFFICES ASSUME NEW e \in Diffs, NEW k \in 1..MaxCalls
                 PROVE  taskPc'[<<e, k>>] = "none" <=> calls'[e] < k
      OBVIOUS
    <3>1. <<e, k>> \in Task /\ calls[e] \in Nat /\ (taskPc[<<e, k>>] = "none" <=> calls[e] < k)
      <4>1. <<e, k>> \in Task
        OBVIOUS
      <4>2. calls[e] \in Nat
        BY <1>0
      <4>3. taskPc[<<e, k>>] = "none" <=> calls[e] < k
        BY DEF Control
      <4> QED
        BY <4>1, <4>2, <4>3
    <3>2. CASE <<e, k>> = t
      BY <2>1, <2>2, <3>1, <3>2
    <3>3. CASE <<e, k>> # t
      <4>1. taskPc'[<<e, k>>] = taskPc[<<e, k>>]
        BY <2>1, <2>2, <3>1, <3>3
      <4>2. e # d \/ k # calls[d] + 1
        BY <3>3
      <4>3. calls'[e] = IF e = d THEN calls[d] + 1 ELSE calls[e]
        BY <2>2
      <4> QED
        BY <3>1, <4>1, <4>2, <4>3
    <3> QED
      BY <3>2, <3>3
  <2>5. \A u \in Task : ~InPool(u)' => rest'[u] = <<>>
    BY <2>1, <2>2
  <2>6. \A e \in Diffs : calls'[e] > 0 => pc'[e] \notin {"idle", "start"}
    BY <2>2, <2>3
  <2> QED
    BY <2>3, <2>4, <2>5, <2>6
<1>6. ASSUME NEW d \in Diffs, LoopFails(d) PROVE Control'
  BY <1>6 DEF LoopFails, Move, runVars, poolVars
<1>7. ASSUME NEW d \in Diffs, FilterStart(d) PROVE Control'
  BY <1>7 DEF FilterStart, runVars, poolVars
<1>8. ASSUME NEW d \in Diffs, FilterEnds(d) PROVE Control'
  BY <1>8 DEF FilterEnds, Move, runVars
<1>9. ASSUME NEW d \in Diffs, Finish(d) PROVE Control'
  BY <1>9 DEF Finish, Move, poolVars
<1>10. ASSUME NEW t \in Task, TaskStep(t) PROVE Control'
  <2>1. /\ UNCHANGED <<kind, cursor, phase, pc, outcome, calls>>
        /\ taskPc[t] # "none" /\ taskPc' \in {taskPc, [taskPc EXCEPT ![t] = "running"],
                                              [taskPc EXCEPT ![t] = "done"]}
    BY <1>10 DEF TaskStep, TaskStarts, TaskAdds, TaskEnds, runVars, fileVars
  <2>2. \A u \in Task : taskPc'[u] = "none" <=> taskPc[u] = "none"
    BY <2>1
  <2>3. \A u \in Task : ~InPool(u)' => rest'[u] = <<>>
    BY <1>10 DEF TaskStep, TaskStarts, TaskAdds, TaskEnds
  <2> QED
    BY <2>1, <2>2, <2>3
<1>11. ASSUME NEW w \in Diffs \cup {Main}, AwaitStep(w) PROVE Control'
  <2>1. UNCHANGED <<kind, cursor, outcome, calls, taskPc, rest>>
    BY <1>11 DEF AwaitStep, AwaitReturns, AwaitBlocks, AwaitResumes, AwaitUnchanged, poolVars
  <2>2. Awaits(w)
    BY <1>11 DEF AwaitStep, AwaitReturns, AwaitBlocks, AwaitResumes, WaitersWait
  <2>3. UNCHANGED <<phase, pc>> \/ Proceeds(w)
    BY <1>11 DEF AwaitStep, AwaitReturns, AwaitBlocks, AwaitResumes
  <2>4. phase' = "load" => phase = "load"
    BY <2>3 DEF Proceeds
  <2>5. pc' = pc \/ (w \in Diffs /\ pc[w] = "await" /\ pc' = [pc EXCEPT ![w] = "snapshot"])
    BY <2>2, <2>3 DEF Proceeds, Awaits
  <2>6. \A e \in Diffs : /\ pc'[e] # "idle" <=> pc[e] # "idle"
                         /\ pc'[e] \notin {"finish", "done"} <=> pc[e] \notin {"finish", "done"}
                         /\ pc'[e] \notin {"idle", "start"} <=> pc[e] \notin {"idle", "start"}
    BY <2>5
  <2>7. MovesInside
    BY <2>1, <2>4, <2>6 DEF MovesInside
  <2> HIDE <1>0 DEF Control, InPool
  <2> QED
    BY <2>7, ControlFrame
<1>12. CASE UNCHANGED vars
  BY <1>12 DEF vars, runVars, fileVars, poolVars
<1> QED
  BY <1>1, <1>2, <1>3, <1>4, <1>5, <1>6, <1>7, <1>8, <1>9, <1>10, <1>11, <1>12
  DEF Next, RunStep, FileStep, Stopped

------------------------------------------------------------------------------
(* Layer 3: every counter counts what it is there to count. *)

Started    == {d \in Diffs : pc[d] # "idle"}
FailedDone == {d \in Diffs : pc[d] = "done" /\ outcome[d] = "failed"}
Running    == {t \in Task : taskPc[t] = "running"}

RunCounters ==
  /\ slots = Cardinality(Active)
  /\ wg = Cardinality(Active)
  /\ Cardinality(Active) <= MaxConcurrency
  /\ dispatched = Cardinality(Started)
  /\ failed = Cardinality(FailedDone)

PoolCounters ==
  /\ poolCount = Cardinality(Pending)
  /\ poolSlots = Cardinality(Running)
  /\ Cardinality(Running) <= PoolSize

LEMMA FiniteCarriers ==
  /\ IsFiniteSet(Diffs) /\ IsFiniteSet(Task)
  /\ IsFiniteSet(Active) /\ IsFiniteSet(Started) /\ IsFiniteSet(FailedDone)
  /\ IsFiniteSet(Pending) /\ IsFiniteSet(Running)
<1>1. IsFiniteSet(Diffs) /\ IsFiniteSet(1..MaxCalls)
  BY RunAssumption, FS_Interval DEF Diffs
<1>2. IsFiniteSet(Task)
  BY <1>1, FS_Product DEF Task
<1>3. /\ Active \subseteq Diffs /\ Started \subseteq Diffs /\ FailedDone \subseteq Diffs
      /\ Pending \subseteq Task /\ Running \subseteq Task
  BY DEF Active, Started, FailedDone, Pending, Running
<1> QED
  BY <1>1, <1>2, <1>3, FS_Subset

LEMMA CountOneMore ==
  ASSUME NEW S, NEW x, IsFiniteSet(S), x \notin S
  PROVE  Cardinality(S \cup {x}) = Cardinality(S) + 1
BY FS_AddElement

LEMMA CountOneLess ==
  ASSUME NEW S, NEW x, IsFiniteSet(S), x \in S
  PROVE  /\ Cardinality(S \ {x}) = Cardinality(S) - 1
         /\ Cardinality(S) \in Nat \ {0}
<1>1. Cardinality(S) \in Nat /\ Cardinality(S) # 0
  BY FS_CardinalityType, FS_EmptySet
<1> QED
  BY <1>1, FS_RemoveElement

LEMMA CountersInit == Init => RunCounters /\ PoolCounters
<1> SUFFICES ASSUME Init PROVE RunCounters /\ PoolCounters
  OBVIOUS
<1>1. Active = {} /\ Started = {} /\ FailedDone = {} /\ Pending = {} /\ Running = {}
  BY DEF Init, Active, Started, FailedDone, Pending, Running
<1>2. Cardinality({}) = 0
  BY FS_EmptySet
<1> QED
  BY <1>1, <1>2, RunAssumption DEF Init, RunCounters, PoolCounters

(* Whoever takes a step of Await is inside Await; it moves to "snapshot" or
   "collect", or stays. *)
LEMMA AwaitStepMoves ==
  ASSUME NEW w \in Diffs \cup {Main}
  PROVE  WaitersWait /\ AwaitStep(w) =>
           /\ Awaits(w)
           /\ AwaitUnchanged
           /\ UNCHANGED <<phase, pc>> \/ (Proceeds(w) /\ poolCount = 0)
BY DEF WaitersWait, AwaitStep, AwaitReturns, AwaitBlocks, AwaitResumes

LEMMA RunCountersStep ==
  Types /\ Control /\ WaitersWait /\ RunCounters /\ [Next]_vars => RunCounters'
<1> SUFFICES ASSUME Types, Control, WaitersWait, RunCounters, [Next]_vars PROVE RunCounters'
  OBVIOUS
<1>0. /\ pc \in [Diffs -> FilePcs] /\ outcome \in [Diffs -> Outcomes]
      /\ cursor \in 1..(NumDiffs + 1) /\ Diffs = 1..NumDiffs /\ NumDiffs \in Nat
      /\ MaxConcurrency \in Nat
  BY RunAssumption DEF Types, Diffs
<1> DEFINE Counts == <<slots, wg, dispatched, failed>>
           Sets   == <<Active, Started, FailedDone>>
<1>1. UNCHANGED <<Counts, Sets>> => RunCounters'
  BY DEF RunCounters
<1>2. UNCHANGED <<pc, outcome>> => UNCHANGED Sets
  BY DEF Active, Started, FailedDone
<1>3. ASSUME NEW d \in Diffs, NEW q \in FilePcs \ {"idle", "done"},
             pc[d] \notin {"idle", "done"}, pc' = [pc EXCEPT ![d] = q],
             \A e \in Diffs \ {d} : outcome'[e] = outcome[e]
      PROVE  UNCHANGED Sets
  BY <1>0, <1>3 DEF Active, Started, FailedDone
<1>4. CASE Load \/ DispatchSkip \/ AllSubtasksDone \/ Collect
  <2>1. UNCHANGED <<Counts, pc, outcome>>
    BY <1>4 DEF Load, DispatchSkip, AllSubtasksDone, Collect, fileVars
  <2> QED
    BY <2>1, <1>1, <1>2
<1>5. CASE Dispatch
  <2>1. cursor \in Diffs /\ pc[cursor] = "idle"
    BY <1>0, <1>5 DEF Dispatch, Control
  <2>2. /\ Active' = Active \cup {cursor} /\ cursor \notin Active
        /\ Started' = Started \cup {cursor} /\ cursor \notin Started
        /\ FailedDone' = FailedDone
    BY <1>0, <1>5, <2>1 DEF Dispatch, Active, Started, FailedDone
  <2>3. /\ Cardinality(Active') = Cardinality(Active) + 1
        /\ Cardinality(Started') = Cardinality(Started) + 1
    BY <2>2, FiniteCarriers, CountOneMore
  <2>4. Cardinality(Active) \in Nat
    BY FiniteCarriers, FS_CardinalityType
  <2> QED
    BY <1>0, <1>5, <2>2, <2>3, <2>4 DEF Dispatch, SlotFree, RunCounters
<1>6. ASSUME NEW d \in Diffs,
             \/ StartFails(d) \/ StartSkips(d) \/ StartReview(d) \/ LoopFails(d)
             \/ LoopEnds(d) \/ FilterStart(d) \/ FilterEnds(d)
      PROVE  RunCounters'
  <2>1. UNCHANGED Counts
    BY <1>6 DEF StartFails, StartSkips, StartReview, LoopFails, LoopEnds, FilterStart, FilterEnds,
       runVars
  <2>2. pc[d] \notin {"idle", "done"}
    BY <1>6 DEF StartFails, StartSkips, StartReview, LoopFails, LoopEnds, FilterStart, FilterEnds,
       Move
  <2>3. PICK q \in FilePcs \ {"idle", "done"} : pc' = [pc EXCEPT ![d] = q]
    BY <1>6 DEF StartFails, StartSkips, StartReview, LoopFails, LoopEnds, FilterStart, FilterEnds,
       Move, FilePcs
  <2>4. \A e \in Diffs \ {d} : outcome'[e] = outcome[e]
    BY <1>0, <1>6 DEF StartFails, StartSkips, StartReview, LoopFails, LoopEnds, FilterStart,
       FilterEnds
  <2>5. UNCHANGED Sets
    BY <1>3, <2>2, <2>3, <2>4
  <2> QED
    BY <1>1, <2>1, <2>5
<1>7. ASSUME NEW d \in Diffs, Submit(d) PROVE RunCounters'
  <2>1. UNCHANGED <<Counts, pc, outcome>>
    BY <1>7 DEF Submit, runVars
  <2> QED
    BY <2>1, <1>1, <1>2
<1>8. ASSUME NEW d \in Diffs, Finish(d) PROVE RunCounters'
  <2>1. /\ Active' = Active \ {d} /\ d \in Active
        /\ Started' = Started
        /\ d \notin FailedDone
        /\ FailedDone' = IF outcome[d] = "failed" THEN FailedDone \cup {d} ELSE FailedDone
    BY <1>0, <1>8 DEF Finish, Move, Active, Started, FailedDone
  <2>2. Cardinality(Active') = Cardinality(Active) - 1 /\ Cardinality(Active) \in Nat \ {0}
    BY <2>1, FiniteCarriers, CountOneLess
  <2>3. Cardinality(FailedDone') = IF outcome[d] = "failed" THEN Cardinality(FailedDone) + 1
                                                           ELSE Cardinality(FailedDone)
    BY <2>1, FiniteCarriers, CountOneMore
  <2> QED
    BY <1>0, <1>8, <2>1, <2>2, <2>3 DEF Finish, Released, RunCounters
<1>9. ASSUME NEW w \in Diffs \cup {Main}, AwaitStep(w) PROVE RunCounters'
  <2>1. UNCHANGED <<Counts, outcome>>
    BY <1>9, AwaitStepMoves DEF AwaitUnchanged
  <2>2. \/ pc' = pc
        \/ w \in Diffs /\ pc[w] = "await" /\ pc' = [pc EXCEPT ![w] = "snapshot"]
    BY <1>9, AwaitStepMoves DEF Proceeds, Awaits
  <2>3. UNCHANGED Sets
    BY <1>2, <1>3, <2>1, <2>2 DEF FilePcs
  <2> QED
    BY <1>1, <2>1, <2>3
<1>10. ASSUME NEW t \in Task, TaskStep(t) PROVE RunCounters'
  <2>1. UNCHANGED <<Counts, pc, outcome>>
    BY <1>10 DEF TaskStep, TaskStarts, TaskAdds, TaskEnds, runVars, fileVars
  <2> QED
    BY <2>1, <1>1, <1>2
<1>11. CASE UNCHANGED vars
  BY <1>1, <1>2, <1>11 DEF vars, runVars, fileVars
<1> QED
  BY <1>4, <1>5, <1>6, <1>7, <1>8, <1>9, <1>10, <1>11
  DEF Next, RunStep, FileStep, Stopped

LEMMA PoolCountersStep ==
  Types /\ Control /\ WaitersWait /\ PoolCounters /\ [Next]_vars => PoolCounters'
<1> SUFFICES ASSUME Types, Control, WaitersWait, PoolCounters, [Next]_vars
             PROVE  PoolCounters'
  OBVIOUS
<1>0. /\ taskPc \in [Task -> {"none", "queued", "running", "done"}]
      /\ calls \in [Diffs -> 0..MaxCalls] /\ MaxCalls \in Nat
      /\ Task = Diffs \X (1..MaxCalls) /\ PoolSize \in Nat
      /\ Cardinality(Pending) \in Nat /\ Cardinality(Running) \in Nat
  BY RunAssumption, FiniteCarriers, FS_CardinalityType DEF Types, Task
<1>1. UNCHANGED <<poolCount, poolSlots, taskPc>> => PoolCounters'
  BY DEF PoolCounters, Pending, Running
<1>2. CASE RunStep
  BY <1>1, <1>2 DEF RunStep, Load, DispatchSkip, Dispatch, AllSubtasksDone, Collect, poolVars
<1>3. ASSUME NEW d \in Diffs,
             \/ StartFails(d) \/ StartSkips(d) \/ StartReview(d) \/ LoopFails(d)
             \/ LoopEnds(d) \/ FilterStart(d) \/ FilterEnds(d) \/ Finish(d)
      PROVE  PoolCounters'
  BY <1>1, <1>3 DEF StartFails, StartSkips, StartReview, LoopFails, LoopEnds, FilterStart,
     FilterEnds, Finish, poolVars
<1>4. ASSUME NEW d \in Diffs, Submit(d) PROVE PoolCounters'
  <2> DEFINE t == <<d, calls[d] + 1>>
  <2>1. t \in Task /\ taskPc[t] = "none"
    BY <1>0, <1>4 DEF Submit, Control
  <2>2. /\ taskPc' = [taskPc EXCEPT ![t] = "queued"]
        /\ poolCount' = poolCount + 1 /\ poolSlots' = poolSlots
    BY <1>4 DEF Submit
  <2> HIDE DEF t
  <2>3. Pending' = Pending \cup {t} /\ t \notin Pending /\ Running' = Running
    BY <1>0, <2>1, <2>2 DEF Pending, Running
  <2>4. Cardinality(Pending') = Cardinality(Pending) + 1
    BY <2>3, FiniteCarriers, CountOneMore
  <2> QED
    BY <2>2, <2>3, <2>4 DEF PoolCounters
<1>5. ASSUME NEW w \in Diffs \cup {Main}, AwaitStep(w) PROVE PoolCounters'
  BY <1>1, <1>5, AwaitStepMoves DEF AwaitUnchanged, poolVars
<1>6. ASSUME NEW t \in Task, TaskStarts(t) PROVE PoolCounters'
  <2>1. Pending' = Pending /\ Running' = Running \cup {t} /\ t \notin Running
    BY <1>0, <1>6 DEF TaskStarts, Pending, Running
  <2>2. Cardinality(Running') = Cardinality(Running) + 1
    BY <2>1, FiniteCarriers, CountOneMore
  <2> QED
    BY <1>0, <1>6, <2>1, <2>2 DEF TaskStarts, PoolCounters
<1>7. ASSUME NEW t \in Task, TaskAdds(t) PROVE PoolCounters'
  BY <1>1, <1>7 DEF TaskAdds
<1>8. ASSUME NEW t \in Task, TaskEnds(t) PROVE PoolCounters'
  <2>1. /\ Pending' = Pending \ {t} /\ t \in Pending
        /\ Running' = Running \ {t} /\ t \in Running
    BY <1>0, <1>8 DEF TaskEnds, Pending, Running
  <2>2. /\ Cardinality(Pending') = Cardinality(Pending) - 1
        /\ Cardinality(Running') = Cardinality(Running) - 1
    BY <2>1, FiniteCarriers, CountOneLess
  <2> QED
    BY <1>0, <1>8, <2>2 DEF TaskEnds, PoolCounters
<1>9. CASE UNCHANGED vars
  BY <1>1, <1>9 DEF vars, poolVars
<1> QED
  BY <1>2, <1>3, <1>4, <1>5, <1>6, <1>7, <1>8, <1>9 DEF Next, FileStep, TaskStep, Stopped

------------------------------------------------------------------------------
(* The invariant, and what follows from it. *)

Inv ==
  /\ Types /\ SnapIsPrefix
  /\ Control /\ WaitersWait
  /\ RunCounters /\ PoolCounters

LEMMA InvInit == Init => Inv
<1>1. Init => SnapIsPrefix
  BY DEF Init, SnapIsPrefix
<1> QED
  BY <1>1, TypesInit, ControlInit, WaitersWaitInit, CountersInit DEF Inv

LEMMA InvStep == Inv /\ [Next]_vars => Inv'
BY TypesStep, SnapIsPrefixStep, ControlStep, WaitersWaitStep, RunCountersStep, PoolCountersStep
DEF Inv

(* The layers above hold of every reachable state. *)
THEOREM InvHolds == Spec => []Inv
BY InvInit, InvStep, PTL DEF Spec

(* Every variable keeps its type, and no counter or semaphore ever goes below
   zero: each is the cardinality of the set it counts. *)
THEOREM TypeCorrect == Spec => []TypeOK
<1>1. Inv => TypeOK
  <2>1. Inv => /\ slots \in Nat /\ wg \in Nat /\ dispatched \in Nat /\ failed \in Nat
               /\ poolCount \in Nat /\ poolSlots \in Nat
    BY FiniteCarriers, FS_CardinalityType DEF Inv, RunCounters, PoolCounters
  <2> QED
    BY <2>1 DEF Inv, Types, TypeOK
<1> QED
  BY <1>1, InvHolds, PTL

(* For any number of diffs and calls, no more than MaxConcurrency files are
   reviewed at a time and no more than PoolSize pool tasks run at a time. *)
THEOREM ConcurrencyCorrect == Spec => []ConcurrencyBounded
<1>1. Inv => ConcurrencyBounded
  BY DEF Inv, RunCounters, PoolCounters, Running, ConcurrencyBounded
<1> QED
  BY <1>1, InvHolds, PTL
------------------------------------------------------------------------------
(* Sequences without repetition: appending a new element, and taking the first away. *)

LEMMA AppendNew ==
  ASSUME NEW X, NEW s \in Seq(X), NEW c \in X, c \notin Range(s), Injective(s)
  PROVE  Range(Append(s, c)) = Range(s) \cup {c} /\ Injective(Append(s, c))
<1> DEFINE a == Append(s, c)
           n == Len(s)
<1>1. /\ n \in Nat /\ DOMAIN s = 1..n /\ DOMAIN a = 1..(n + 1)
      /\ \A i \in 1..n : a[i] = s[i]
      /\ a[n + 1] = c
  BY AppendProperties
<1> HIDE DEF a, n
<1>2. 1..(n + 1) = 1..n \cup {n + 1}
  BY <1>1
<1>3. Range(a) = Range(s) \cup {c}
  BY <1>1, <1>2 DEF Range
<1>4. \A i \in 1..n : a[i] # c
  BY <1>1 DEF Range
<1>5. Injective(a)
  BY <1>1, <1>2, <1>4 DEF Injective
<1> QED
  BY <1>3, <1>5 DEF a

LEMMA HeadGoes ==
  ASSUME NEW X, NEW s \in Seq(X), s # <<>>, Injective(s)
  PROVE  /\ Head(s) \in X /\ Head(s) \in Range(s)
         /\ Range(Tail(s)) = Range(s) \ {Head(s)} /\ Injective(Tail(s))
<1> DEFINE r == Tail(s)
           n == Len(s)
<1>1. /\ n \in Nat \ {0} /\ DOMAIN s = 1..n /\ DOMAIN r = 1..(n - 1)
      /\ \A i \in 1..(n - 1) : r[i] = s[i + 1]
      /\ Head(s) = s[1] /\ Head(s) \in X
  BY HeadTailProperties
<1> HIDE DEF r, n
<1>2. \A i \in 1..n : i = 1 \/ (i - 1 \in 1..(n - 1) /\ (i - 1) + 1 = i)
  BY <1>1
<1>3. \A i \in 1..(n - 1) : i + 1 \in 1..n /\ i + 1 # 1
  BY <1>1
<1>4. 1 \in 1..n
  BY <1>1
<1>5. \A i \in 1..(n - 1) : r[i] \in Range(s) /\ r[i] # s[1]
  <2> SUFFICES ASSUME NEW i \in 1..(n - 1) PROVE r[i] \in Range(s) /\ r[i] # s[1]
    OBVIOUS
  <2>1. r[i] = s[i + 1] /\ i + 1 \in DOMAIN s /\ 1 \in DOMAIN s /\ i + 1 # 1
    BY <1>1, <1>3, <1>4
  <2>2. r[i] # s[1]
    BY <2>1 DEF Injective
  <2>3. r[i] \in Range(s)
    BY <2>1 DEF Range
  <2> QED
    BY <2>2, <2>3
<1>6. \A i \in 1..n : s[i] # s[1] => s[i] \in Range(r)
  <2> SUFFICES ASSUME NEW i \in 1..n, s[i] # s[1] PROVE s[i] \in Range(r)
    OBVIOUS
  <2>1. i - 1 \in 1..(n - 1) /\ r[i - 1] = s[i]
    BY <1>1, <1>2
  <2> QED
    BY <1>1, <2>1 DEF Range
<1>7. Range(r) = Range(s) \ {s[1]}
  BY <1>1, <1>5, <1>6 DEF Range
<1>8. Injective(r)
  <2> SUFFICES ASSUME NEW i \in 1..(n - 1), NEW j \in 1..(n - 1), r[i] = r[j] PROVE i = j
    BY <1>1 DEF Injective
  <2>1. s[i + 1] = s[j + 1] /\ i + 1 \in 1..n /\ j + 1 \in 1..n
    BY <1>1, <1>3
  <2>2. i + 1 = j + 1
    BY <1>1, <2>1 DEF Injective
  <2> QED
    BY <1>1, <2>2
<1> QED
  BY <1>1, <1>4, <1>7, <1>8 DEF Range, r

------------------------------------------------------------------------------
(* Every comment is waiting in its call, collected, or removed. *)

FoundSubmitted == \A c \in found : taskPc[c.task] # "none"

FoundSomewhere ==
  \A c \in found : \/ c \in Range(collector[c.path])
                   \/ c \in removed
                   \/ c \in Range(rest[c.task])

CollectedOnce ==
  \A p \in Path :
    /\ Injective(collector[p])
    /\ \A c \in Range(collector[p]) : c \in found /\ c.path = p /\ c \notin removed

WaitingOnce ==
  \A t \in Task :
    /\ Injective(rest[t])
    /\ \A c \in Range(rest[t]) :
         c \in found /\ c.task = t /\ c \notin removed /\ c \notin Range(collector[c.path])

Whereabouts ==
  /\ FoundSubmitted /\ FoundSomewhere
  /\ CollectedOnce /\ WaitingOnce
  /\ removed \subseteq found

LEMMA WhereaboutsInit == Init => Whereabouts
<1> SUFFICES ASSUME Init PROVE Whereabouts
  OBVIOUS
<1>1. Range(<<>>) = {} /\ Injective(<<>>)
  BY DEF Range, Injective
<1> QED
  BY <1>1 DEF Init, Whereabouts, FoundSubmitted, FoundSomewhere, CollectedOnce, WaitingOnce

(* Only three kinds of step move comments; the others leave them where they
   are, and a call once submitted stays submitted. *)
NoCommentMoves ==
  /\ UNCHANGED <<rest, collector, found, removed>>
  /\ \A t \in Task : taskPc[t] # "none" => taskPc'[t] # "none"

LEMMA CommentSteps ==
  Inv /\ [Next]_vars =>
    \/ \E d \in Diffs : Submit(d)
    \/ \E d \in Diffs : FilterEnds(d)
    \/ \E t \in Task : TaskAdds(t)
    \/ NoCommentMoves
<1> SUFFICES ASSUME Inv, [Next]_vars,
                    ~\E d \in Diffs : Submit(d),
                    ~\E d \in Diffs : FilterEnds(d),
                    ~\E t \in Task : TaskAdds(t)
             PROVE  NoCommentMoves
  OBVIOUS
<1>0. taskPc \in [Task -> {"none", "queued", "running", "done"}] /\ WaitersWait
  BY DEF Inv, Types
<1> USE DEF NoCommentMoves
<1>1. CASE RunStep
  BY <1>1 DEF RunStep, Load, DispatchSkip, Dispatch, AllSubtasksDone, Collect,
     poolVars, histVars
<1>2. ASSUME NEW d \in Diffs, FileStep(d) PROVE NoCommentMoves
  BY <1>2 DEF FileStep, StartFails, StartSkips, StartReview, LoopFails, LoopEnds, FilterStart,
     Finish, poolVars, histVars
<1>3. ASSUME NEW w \in Diffs \cup {Main}, AwaitStep(w) PROVE NoCommentMoves
  BY <1>0, <1>3, AwaitStepMoves DEF AwaitUnchanged, poolVars, histVars
<1>4. ASSUME NEW t \in Task, TaskStarts(t) \/ TaskEnds(t) PROVE NoCommentMoves
  BY <1>0, <1>4 DEF TaskStarts, TaskEnds, histVars
<1>5. CASE UNCHANGED vars
  BY <1>5 DEF vars, poolVars, histVars
<1> QED
  BY <1>1, <1>2, <1>3, <1>4, <1>5 DEF Next, TaskStep, Stopped

(* The three steps, in the terms of the layers. *)

LEMMA SubmitAdds ==
  ASSUME NEW d \in Diffs
  PROVE  Inv /\ Submit(d) =>
    \E t \in Task : \E B \in Seq(Comment) :
      /\ t[1] = d /\ taskPc[t] = "none" /\ rest[t] = <<>>
      /\ taskPc' = [taskPc EXCEPT ![t] = "queued"]
      /\ rest' = [rest EXCEPT ![t] = B]
      /\ found' = found \cup Range(B)
      /\ Injective(B) /\ \A c \in Range(B) : c.task = t
      /\ UNCHANGED <<collector, removed>>
<1> SUFFICES ASSUME Inv, Submit(d)
             PROVE  \E t \in Task : \E B \in Seq(Comment) :
                      /\ t[1] = d /\ taskPc[t] = "none" /\ rest[t] = <<>>
                      /\ taskPc' = [taskPc EXCEPT ![t] = "queued"]
                      /\ rest' = [rest EXCEPT ![t] = B]
                      /\ found' = found \cup Range(B)
                      /\ Injective(B) /\ \A c \in Range(B) : c.task = t
                      /\ UNCHANGED <<collector, removed>>
  OBVIOUS
<1> DEFINE t == <<d, calls[d] + 1>>
<1>1. t \in Task /\ t[1] = d
  BY RunAssumption DEF Inv, Types, Submit, Task
<1>2. taskPc[t] = "none" /\ rest[t] = <<>>
  <2>1. calls[d] + 1 \in 1..MaxCalls /\ calls[d] < calls[d] + 1
    BY RunAssumption DEF Inv, Types, Submit
  <2>2. taskPc[t] = "none"
    BY <2>1 DEF Inv, Control
  <2> QED
    BY <1>1, <2>2 DEF Inv, Control, InPool
<1>3. PICK n \in 1..MaxBatch : \E path \in [1..n -> Path] :
        /\ taskPc' = [taskPc EXCEPT ![t] = "queued"]
        /\ rest' = [rest EXCEPT ![t] = Batch(t, n, path)]
        /\ found' = found \cup Range(Batch(t, n, path))
  BY DEF Submit, Batch
<1>4. PICK path \in [1..n -> Path] :
        /\ taskPc' = [taskPc EXCEPT ![t] = "queued"]
        /\ rest' = [rest EXCEPT ![t] = Batch(t, n, path)]
        /\ found' = found \cup Range(Batch(t, n, path))
  BY <1>3
<1> DEFINE B == Batch(t, n, path)
<1>5. B \in Seq(Comment) /\ Injective(B) /\ \A c \in Range(B) : c.task = t
  BY <1>1, BatchType
<1>6. UNCHANGED <<collector, removed>>
  BY DEF Submit
<1> HIDE DEF t, B
<1> QED
  BY <1>1, <1>2, <1>4, <1>5, <1>6 DEF B

LEMMA FilterRemoves ==
  ASSUME NEW d \in Diffs
  PROVE  Inv /\ CollectedOnce /\ FilterEnds(d) =>
    \E R \in SUBSET Range(collector[d]) :
      /\ \A c \in R : c \in Range(snap[d])
      /\ removed' = removed \cup R
      /\ Range(collector'[d]) = Range(collector[d]) \ R
      /\ Injective(collector'[d])
      /\ \A p \in Path \ {d} : collector'[p] = collector[p]
      /\ UNCHANGED <<taskPc, rest, found, snap>>
      /\ pc[d] = "filter" /\ pc' = [pc EXCEPT ![d] = "finish"]
<1> SUFFICES ASSUME Inv, CollectedOnce, FilterEnds(d)
             PROVE  \E R \in SUBSET Range(collector[d]) :
                      /\ \A c \in R : c \in Range(snap[d])
                      /\ removed' = removed \cup R
                      /\ Range(collector'[d]) = Range(collector[d]) \ R
                      /\ Injective(collector'[d])
                      /\ \A p \in Path \ {d} : collector'[p] = collector[p]
                      /\ UNCHANGED <<taskPc, rest, found, snap>>
                      /\ pc[d] = "filter" /\ pc' = [pc EXCEPT ![d] = "finish"]
  OBVIOUS
<1>1. /\ d \in Path /\ collector \in [Path -> Seq(Comment)]
      /\ collector[d] \in Seq(Comment) /\ Injective(collector[d])
  BY DEF Inv, Types, Path, CollectedOnce
<1>2. PICK I \in SUBSET ValidPositions(d) :
        /\ collector' = [collector EXCEPT ![d] = RemoveIndices(collector[d], I)]
        /\ removed' = removed \cup {collector[d][i] : i \in I}
  BY DEF FilterEnds
<1>3. /\ pc[d] = "filter" /\ pc' = [pc EXCEPT ![d] = "finish"]
      /\ UNCHANGED <<taskPc, rest, found, snap>>
  BY DEF FilterEnds, Move
<1>4. \A i \in I : i \in DOMAIN collector[d] /\ i \in DOMAIN snap[d]
                   /\ collector[d][i] = snap[d][i]
  BY <1>3 DEF ValidPositions, Inv, SnapIsPrefix
<1> DEFINE s == collector[d]
           R == {s[i] : i \in I}
<1>5. R \in SUBSET Range(s) /\ \A c \in R : c \in Range(snap[d])
  BY <1>4 DEF Range
<1>6. collector'[d] = RemoveIndices(s, I) /\ \A p \in Path \ {d} : collector'[p] = collector[p]
  BY <1>1, <1>2
<1>7. Range(collector'[d]) = {s[i] : i \in DOMAIN s \ I} /\ Injective(collector'[d])
  BY <1>1, <1>6, RemoveIndicesKeeps
<1>8. {s[i] : i \in DOMAIN s \ I} = Range(s) \ R
  BY <1>1, <1>4 DEF Range, Injective
<1> HIDE DEF R, s
<1> QED
  BY <1>2, <1>3, <1>5, <1>6, <1>7, <1>8 DEF R, s

LEMMA AddMoves ==
  ASSUME NEW t \in Task
  PROVE  Inv /\ WaitingOnce /\ CollectedOnce /\ TaskAdds(t) =>
    \E c \in Range(rest[t]) :
      /\ c \in Comment
      /\ Range(collector'[c.path]) = Range(collector[c.path]) \cup {c}
      /\ Injective(collector'[c.path])
      /\ \A p \in Path \ {c.path} : collector'[p] = collector[p]
      /\ Range(rest'[t]) = Range(rest[t]) \ {c}
      /\ Injective(rest'[t])
      /\ \A u \in Task \ {t} : rest'[u] = rest[u]
      /\ UNCHANGED <<taskPc, found, removed>>
<1> SUFFICES ASSUME Inv, WaitingOnce, CollectedOnce, TaskAdds(t)
             PROVE  \E c \in Range(rest[t]) :
                      /\ c \in Comment
                      /\ Range(collector'[c.path]) = Range(collector[c.path]) \cup {c}
                      /\ Injective(collector'[c.path])
                      /\ \A p \in Path \ {c.path} : collector'[p] = collector[p]
                      /\ Range(rest'[t]) = Range(rest[t]) \ {c}
                      /\ Injective(rest'[t])
                      /\ \A u \in Task \ {t} : rest'[u] = rest[u]
                      /\ UNCHANGED <<taskPc, found, removed>>
  OBVIOUS
<1> DEFINE s == rest[t]
           c == Head(s)
<1>1. /\ s \in Seq(Comment) /\ s # <<>> /\ Injective(s)
      /\ rest \in [Task -> Seq(Comment)] /\ collector \in [Path -> Seq(Comment)]
  BY DEF Inv, Types, TaskAdds, WaitingOnce
<1>2. c \in Comment /\ c.path \in Path /\ c \in Range(s)
  <2>1. c \in Comment /\ c \in Range(s)
    BY <1>1, HeadGoes
  <2> QED
    BY <2>1 DEF Comment
<1>3. c \notin Range(collector[c.path]) /\ Injective(collector[c.path])
  BY <1>2 DEF WaitingOnce, CollectedOnce
<1>4. /\ collector' = [collector EXCEPT ![c.path] = Append(@, c)]
      /\ rest' = [rest EXCEPT ![t] = Tail(@)]
      /\ UNCHANGED <<taskPc, found, removed>>
  BY DEF TaskAdds, histVars
<1> DEFINE q == collector[c.path]
<1>5. q \in Seq(Comment) /\ collector'[c.path] = Append(q, c)
      /\ \A p \in Path \ {c.path} : collector'[p] = collector[p]
  BY <1>1, <1>2, <1>4
<1>6. rest'[t] = Tail(s) /\ \A u \in Task \ {t} : rest'[u] = rest[u]
  BY <1>1, <1>4
<1>7. Range(Append(q, c)) = Range(q) \cup {c} /\ Injective(Append(q, c))
  BY <1>2, <1>3, <1>5, AppendNew
<1>8. Range(Tail(s)) = Range(s) \ {c} /\ Injective(Tail(s))
  BY <1>1, HeadGoes
<1> HIDE DEF s, c, q
<1> QED
  BY <1>2, <1>4, <1>5, <1>6, <1>7, <1>8 DEF s, q

LEMMA WhereaboutsStep == Inv /\ Whereabouts /\ [Next]_vars => Whereabouts'
<1> SUFFICES ASSUME Inv, Whereabouts, [Next]_vars PROVE Whereabouts'
  OBVIOUS
<1>0. /\ found \subseteq Comment /\ removed \subseteq Comment
      /\ taskPc \in [Task -> {"none", "queued", "running", "done"}]
      /\ rest \in [Task -> Seq(Comment)] /\ collector \in [Path -> Seq(Comment)]
      /\ \A c \in Comment : c.task \in Task /\ c.path \in Path
      /\ Diffs \subseteq Path
  BY DEF Inv, Types, Comment, Path
<1> USE DEF Whereabouts
<1>1. ASSUME NEW d \in Diffs, Submit(d) PROVE Whereabouts'
  <2>1. PICK t \in Task : \E B \in Seq(Comment) :
          /\ t[1] = d /\ taskPc[t] = "none" /\ rest[t] = <<>>
          /\ taskPc' = [taskPc EXCEPT ![t] = "queued"]
          /\ rest' = [rest EXCEPT ![t] = B]
          /\ found' = found \cup Range(B)
          /\ Injective(B) /\ \A c \in Range(B) : c.task = t
          /\ UNCHANGED <<collector, removed>>
    BY <1>1, SubmitAdds
  <2>2. PICK B \in Seq(Comment) :
          /\ t[1] = d /\ taskPc[t] = "none" /\ rest[t] = <<>>
          /\ taskPc' = [taskPc EXCEPT ![t] = "queued"]
          /\ rest' = [rest EXCEPT ![t] = B]
          /\ found' = found \cup Range(B)
          /\ Injective(B) /\ \A c \in Range(B) : c.task = t
          /\ UNCHANGED <<collector, removed>>
    BY <2>1
  <2>3. \A c \in Range(B) : c \in Comment /\ c \notin found
    BY <2>2, RangeOfSeq DEF FoundSubmitted
  <2>4. rest'[t] = B /\ \A u \in Task \ {t} : rest'[u] = rest[u]
    BY <1>0, <2>2
  <2>5. FoundSubmitted'
    BY <1>0, <2>2 DEF FoundSubmitted
  <2>6. FoundSomewhere'
    <3> SUFFICES ASSUME NEW c \in found'
                 PROVE  \/ c \in Range(collector'[c.path])
                        \/ c \in removed'
                        \/ c \in Range(rest'[c.task])
      BY DEF FoundSomewhere
    <3>1. CASE c \in Range(B)
      BY <2>2, <2>4, <3>1
    <3>2. CASE c \in found
      <4>1. c.task \in Task /\ c.task # t
        BY <1>0, <2>2, <3>2 DEF FoundSubmitted
      <4> QED
        BY <2>2, <2>4, <3>2, <4>1 DEF FoundSomewhere
    <3> QED
      BY <2>2, <3>1, <3>2
  <2>7. CollectedOnce'
    BY <2>2 DEF CollectedOnce
  <2>8. WaitingOnce'
    <3> SUFFICES ASSUME NEW u \in Task
                 PROVE  /\ Injective(rest'[u])
                        /\ \A c \in Range(rest'[u]) :
                             /\ c \in found' /\ c.task = u /\ c \notin removed'
                             /\ c \notin Range(collector'[c.path])
      BY DEF WaitingOnce
    <3>1. CASE u = t
      <4>1. \A c \in Range(B) : c \notin removed
        BY <2>3
      <4>2. \A c \in Range(B) : c \notin Range(collector[c.path])
        BY <1>0, <2>3 DEF CollectedOnce
      <4> QED
        BY <2>2, <2>4, <3>1, <4>1, <4>2
    <3>2. CASE u # t
      BY <2>2, <2>4, <3>2 DEF WaitingOnce
    <3> QED
      BY <3>1, <3>2
  <2> QED
    BY <2>2, <2>5, <2>6, <2>7, <2>8
<1>2. ASSUME NEW d \in Diffs, FilterEnds(d) PROVE Whereabouts'
  <2>1. PICK R \in SUBSET Range(collector[d]) :
          /\ removed' = removed \cup R
          /\ Range(collector'[d]) = Range(collector[d]) \ R
          /\ Injective(collector'[d])
          /\ \A p \in Path \ {d} : collector'[p] = collector[p]
          /\ UNCHANGED <<taskPc, rest, found>>
    BY <1>2, FilterRemoves
  <2>2. \A c \in R : c \in found /\ c.path = d
    BY <1>0, <2>1 DEF CollectedOnce
  <2>3. \A p \in Path : Range(collector'[p]) \subseteq Range(collector[p])
    BY <2>1
  <2>4. FoundSubmitted' /\ removed' \subseteq found'
    BY <2>1, <2>2 DEF FoundSubmitted
  <2>5. FoundSomewhere'
    <3> SUFFICES ASSUME NEW c \in found
                 PROVE  \/ c \in Range(collector'[c.path])
                        \/ c \in removed'
                        \/ c \in Range(rest'[c.task])
      BY <2>1 DEF FoundSomewhere
    <3>1. c.path \in Path
      BY <1>0
    <3> QED
      BY <2>1, <3>1 DEF FoundSomewhere
  <2>6. CollectedOnce'
    <3> SUFFICES ASSUME NEW p \in Path
                 PROVE  /\ Injective(collector'[p])
                        /\ \A c \in Range(collector'[p]) :
                             c \in found' /\ c.path = p /\ c \notin removed'
      BY DEF CollectedOnce
    <3>1. CASE p = d
      BY <2>1, <3>1 DEF CollectedOnce
    <3>2. CASE p # d
      BY <2>1, <2>2, <3>2 DEF CollectedOnce
    <3> QED
      BY <3>1, <3>2
  <2>7. WaitingOnce'
    <3> SUFFICES ASSUME NEW u \in Task, NEW c \in Range(rest[u])
                 PROVE  c \notin removed' /\ c \notin Range(collector'[c.path])
      BY <2>1 DEF WaitingOnce
    <3>1. c \in found /\ c \notin removed /\ c \notin Range(collector[c.path])
      BY DEF WaitingOnce
    <3>2. c.path \in Path
      BY <1>0, <3>1
    <3> QED
      BY <2>1, <2>2, <2>3, <3>1, <3>2
  <2> QED
    BY <2>4, <2>5, <2>6, <2>7
<1>3. ASSUME NEW t \in Task, TaskAdds(t) PROVE Whereabouts'
  <2>1. PICK c \in Range(rest[t]) :
          /\ c \in Comment
          /\ Range(collector'[c.path]) = Range(collector[c.path]) \cup {c}
          /\ Injective(collector'[c.path])
          /\ \A p \in Path \ {c.path} : collector'[p] = collector[p]
          /\ Range(rest'[t]) = Range(rest[t]) \ {c}
          /\ Injective(rest'[t])
          /\ \A u \in Task \ {t} : rest'[u] = rest[u]
          /\ UNCHANGED <<taskPc, found, removed>>
    BY <1>3, AddMoves
  <2>2. c \in found /\ c.task = t /\ c \notin removed /\ c.path \in Path
    BY <1>0, <2>1 DEF WaitingOnce
  <2>3. FoundSubmitted'
    BY <2>1 DEF FoundSubmitted
  <2>4. FoundSomewhere'
    <3> SUFFICES ASSUME NEW x \in found
                 PROVE  \/ x \in Range(collector'[x.path])
                        \/ x \in removed'
                        \/ x \in Range(rest'[x.task])
      BY <2>1 DEF FoundSomewhere
    <3>1. x.path \in Path /\ x.task \in Task
      BY <1>0
    <3>2. CASE x = c
      BY <2>1, <3>2
    <3>3. CASE x # c
      <4>1. CASE x \in Range(collector[x.path])
        BY <2>1, <3>1, <4>1
      <4>2. CASE x \in removed
        BY <2>1, <4>2
      <4>3. CASE x \in Range(rest[x.task])
        BY <2>1, <3>1, <3>3, <4>3
      <4> QED
        BY <4>1, <4>2, <4>3 DEF FoundSomewhere
    <3> QED
      BY <3>2, <3>3
  <2>5. CollectedOnce'
    <3> SUFFICES ASSUME NEW p \in Path
                 PROVE  /\ Injective(collector'[p])
                        /\ \A x \in Range(collector'[p]) :
                             x \in found' /\ x.path = p /\ x \notin removed'
      BY DEF CollectedOnce
    <3>1. CASE p = c.path
      BY <2>1, <2>2, <3>1 DEF CollectedOnce
    <3>2. CASE p # c.path
      BY <2>1, <3>2 DEF CollectedOnce
    <3> QED
      BY <3>1, <3>2
  <2>6. WaitingOnce'
    <3> SUFFICES ASSUME NEW u \in Task
                 PROVE  /\ Injective(rest'[u])
                        /\ \A x \in Range(rest'[u]) :
                             /\ x \in found' /\ x.task = u /\ x \notin removed'
                             /\ x \notin Range(collector'[x.path])
      BY DEF WaitingOnce
    <3>1. Injective(rest'[u])
      BY <2>1 DEF WaitingOnce
    <3>2. ASSUME NEW x \in Range(rest'[u])
          PROVE  /\ x \in found' /\ x.task = u /\ x \notin removed'
                 /\ x \notin Range(collector'[x.path])
      <4>1. x \in Range(rest[u]) /\ (u = t => x # c)
        BY <2>1, <3>2
      <4>2. x \in found /\ x.task = u /\ x \notin removed /\ x \notin Range(collector[x.path])
        BY <4>1 DEF WaitingOnce
      <4>3. x # c /\ x.path \in Path
        BY <1>0, <2>2, <4>1, <4>2
      <4> QED
        BY <2>1, <4>2, <4>3
    <3> QED
      BY <3>1, <3>2
  <2> QED
    BY <2>1, <2>3, <2>4, <2>5, <2>6
<1>4. CASE NoCommentMoves
  <2>1. FoundSubmitted'
    BY <1>0, <1>4 DEF NoCommentMoves, FoundSubmitted
  <2> QED
    BY <1>4, <2>1 DEF NoCommentMoves, FoundSomewhere, CollectedOnce, WaitingOnce
<1> QED
  BY <1>1, <1>2, <1>3, <1>4, CommentSteps

------------------------------------------------------------------------------
(* The review filters. *)

(* After its Await, none of a file's own calls is in the pool. *)
OwnCallsDone ==
  \A d \in Diffs : pc[d] \in {"snapshot", "filter"} =>
    \A t \in Task : t[1] = d => ~InPool(t)

RemovedWereShown ==
  \A c \in removed : /\ c.path \in Diffs /\ c \in Range(snap[c.path])
                     /\ pc[c.path] \in {"finish", "done"}

LEMMA FiltersInit == Init => OwnCallsDone /\ RemovedWereShown /\ FilterSeesOwnComments
BY DEF Init, OwnCallsDone, RemovedWereShown, FilterSeesOwnComments

LEMMA OwnCallsDoneStep == Inv /\ OwnCallsDone /\ [Next]_vars => OwnCallsDone'
<1> SUFFICES ASSUME Inv, OwnCallsDone, [Next]_vars PROVE OwnCallsDone'
  OBVIOUS
<1>0. /\ pc \in [Diffs -> FilePcs] /\ taskPc \in [Task -> {"none", "queued", "running", "done"}]
      /\ WaitersWait
  BY DEF Inv, Types
<1> DEFINE After(d) == pc[d] \in {"snapshot", "filter"}
           NoneEnters == \A t \in Task : InPool(t)' => InPool(t)
           NoneComes  == \A d \in Diffs : After(d)' => After(d)
<1>1. NoneEnters /\ NoneComes => OwnCallsDone'
  BY DEF OwnCallsDone
<1>2. CASE RunStep
  <2>1. NoneEnters
    BY <1>2 DEF RunStep, Load, DispatchSkip, Dispatch, AllSubtasksDone, Collect, poolVars, InPool
  <2>2. NoneComes
    BY <1>0, <1>2 DEF RunStep, Load, DispatchSkip, Dispatch, AllSubtasksDone, Collect, fileVars
  <2> QED
    BY <1>1, <2>1, <2>2
<1>3. ASSUME NEW d \in Diffs, Submit(d) PROVE OwnCallsDone'
  <2>1. PICK t \in Task : t[1] = d /\ taskPc' = [taskPc EXCEPT ![t] = "queued"]
    BY <1>3, SubmitAdds
  <2>2. \A u \in Task : u[1] # d => taskPc'[u] = taskPc[u]
    BY <1>0, <2>1
  <2>3. pc[d] = "loop" /\ pc' = pc
    BY <1>3 DEF Submit
  <2> QED
    BY <2>2, <2>3 DEF OwnCallsDone, InPool
<1>4. ASSUME NEW d \in Diffs,
             \/ StartFails(d) \/ StartSkips(d) \/ StartReview(d) \/ LoopFails(d)
             \/ LoopEnds(d) \/ FilterStart(d) \/ FilterEnds(d) \/ Finish(d)
      PROVE  OwnCallsDone'
  <2>1. NoneEnters
    BY <1>4 DEF StartFails, StartSkips, StartReview, LoopFails, LoopEnds, FilterStart,
       FilterEnds, Finish, poolVars, InPool
  <2>2. NoneComes
    BY <1>0, <1>4 DEF StartFails, StartSkips, StartReview, LoopFails, LoopEnds, FilterStart,
       FilterEnds, Finish, Move
  <2> QED
    BY <1>1, <2>1, <2>2
<1>5. ASSUME NEW w \in Diffs \cup {Main}, AwaitStep(w) PROVE OwnCallsDone'
  <2>1. NoneEnters
    BY <1>0, <1>5, AwaitStepMoves DEF AwaitUnchanged, poolVars, InPool
  <2>2. CASE poolCount = 0
    <3>1. Pending = {}
      BY <2>2, FiniteCarriers, FS_EmptySet DEF Inv, PoolCounters
    <3>2. \A t \in Task : ~InPool(t)
      BY <3>1 DEF Pending, InPool
    <3> QED
      BY <2>1, <3>2 DEF OwnCallsDone
  <2>3. CASE pc' = pc
    BY <1>1, <2>1, <2>3
  <2> QED
    BY <1>0, <1>5, <2>2, <2>3, AwaitStepMoves
<1>6. ASSUME NEW t \in Task, TaskStep(t) PROVE OwnCallsDone'
  <2>1. NoneEnters
    BY <1>0, <1>6 DEF TaskStep, TaskStarts, TaskAdds, TaskEnds, InPool
  <2>2. NoneComes
    BY <1>6 DEF TaskStep, TaskStarts, TaskAdds, TaskEnds, fileVars
  <2> QED
    BY <1>1, <2>1, <2>2
<1>7. CASE UNCHANGED vars
  BY <1>7 DEF vars, fileVars, poolVars, OwnCallsDone, InPool
<1> QED
  BY <1>2, <1>3, <1>4, <1>5, <1>6, <1>7 DEF Next, FileStep, Stopped

(* A step that is no filter's leaves the filters' snapshots alone, and no file
   goes back to an earlier place. *)
LEMMA SnapSteps ==
  Inv /\ [Next]_vars =>
    \/ \E d \in Diffs : FilterStart(d)
    \/ \E d \in Diffs : FilterEnds(d)
    \/ /\ UNCHANGED <<snap, removed>>
       /\ \A d \in Diffs : /\ pc'[d] = "filter" => pc[d] = "filter"
                           /\ pc[d] \in {"finish", "done"} => pc'[d] \in {"finish", "done"}
<1> DEFINE Still == /\ UNCHANGED <<snap, removed>>
                    /\ \A d \in Diffs :
                         /\ pc'[d] = "filter" => pc[d] = "filter"
                         /\ pc[d] \in {"finish", "done"} => pc'[d] \in {"finish", "done"}
<1> SUFFICES ASSUME Inv, [Next]_vars,
                    ~\E d \in Diffs : FilterStart(d), ~\E d \in Diffs : FilterEnds(d)
             PROVE  Still
  OBVIOUS
<1>0. pc \in [Diffs -> FilePcs] /\ WaitersWait
  BY DEF Inv, Types
<1>1. CASE Dispatch
  <2>1. cursor \in Diffs /\ pc[cursor] = "idle"
    BY <1>1 DEF Dispatch, Inv, Types, Control, Diffs
  <2> QED
    BY <1>0, <1>1, <2>1 DEF Dispatch, histVars
<1>2. CASE Load \/ DispatchSkip \/ AllSubtasksDone \/ Collect
  BY <1>2 DEF Load, DispatchSkip, AllSubtasksDone, Collect, fileVars, histVars
<1>3. ASSUME NEW d \in Diffs,
             \/ StartFails(d) \/ StartSkips(d) \/ StartReview(d) \/ Submit(d)
             \/ LoopFails(d) \/ LoopEnds(d) \/ Finish(d)
      PROVE  Still
  BY <1>0, <1>3 DEF StartFails, StartSkips, StartReview, Submit, LoopFails, LoopEnds, Finish,
     Move, histVars
<1>4. ASSUME NEW w \in Diffs \cup {Main}, AwaitStep(w) PROVE Still
  <2>1. Awaits(w) /\ AwaitUnchanged /\ (UNCHANGED <<phase, pc>> \/ Proceeds(w))
    BY <1>0, <1>4, AwaitStepMoves
  <2> QED
    BY <1>0, <2>1 DEF Awaits, AwaitUnchanged, Proceeds, histVars
<1>5. ASSUME NEW t \in Task, TaskStep(t) PROVE Still
  BY <1>5 DEF TaskStep, TaskStarts, TaskAdds, TaskEnds, fileVars, histVars
<1>6. CASE UNCHANGED vars
  BY <1>6 DEF vars, fileVars, histVars
<1> QED
  BY <1>1, <1>2, <1>3, <1>4, <1>5, <1>6 DEF Next, RunStep, FileStep, Stopped

LEMMA FiltersStep ==
  Inv /\ Whereabouts /\ OwnCallsDone /\ RemovedWereShown /\ FilterSeesOwnComments /\ [Next]_vars
    => RemovedWereShown' /\ FilterSeesOwnComments'
<1> SUFFICES ASSUME Inv, Whereabouts, OwnCallsDone, RemovedWereShown, FilterSeesOwnComments,
                    [Next]_vars
             PROVE  RemovedWereShown' /\ FilterSeesOwnComments'
  OBVIOUS
<1>0. /\ pc \in [Diffs -> FilePcs] /\ snap \in [Diffs -> Seq(Comment)]
      /\ found \subseteq Comment
      /\ \A c \in Comment : c.task \in Task /\ c.path \in Path
      /\ Diffs \subseteq Path
  BY DEF Inv, Types, Comment, Path
<1>1. ASSUME NEW d \in Diffs, FilterStart(d) PROVE RemovedWereShown' /\ FilterSeesOwnComments'
  <2>1. /\ pc[d] = "snapshot" /\ UNCHANGED <<found, removed>>
        /\ \A e \in Diffs \ {d} : pc'[e] = pc[e] /\ snap'[e] = snap[e]
    BY <1>0, <1>1 DEF FilterStart, histVars
  <2>2. \A c \in removed : c.path \in Diffs \ {d}
    BY <2>1 DEF RemovedWereShown
  <2>3. RemovedWereShown'
    BY <2>1, <2>2 DEF RemovedWereShown
  <2>4. pc'[d] = "filter" => snap'[d] = collector[d]
    BY <1>0, <1>1 DEF FilterStart
  <2>5. \A c \in found : (c.task[1] = d /\ c.path = d) => c \in Range(collector[d])
    <3> SUFFICES ASSUME NEW c \in found, c.task[1] = d, c.path = d
                 PROVE  c \in Range(collector[d])
      OBVIOUS
    <3>1. c.task \in Task /\ ~InPool(c.task)
      BY <1>0, <2>1 DEF OwnCallsDone
    <3>2. rest[c.task] = <<>>
      BY <3>1 DEF Inv, Control
    <3>3. c \notin Range(rest[c.task])
      BY <3>2 DEF Range
    <3>4. c \notin removed
      BY <2>2
    <3> QED
      BY <3>3, <3>4 DEF Whereabouts, FoundSomewhere
  <2>6. FilterSeesOwnComments'
    BY <2>1, <2>4, <2>5 DEF FilterSeesOwnComments
  <2> QED
    BY <2>3, <2>6
<1>2. ASSUME NEW d \in Diffs, FilterEnds(d) PROVE RemovedWereShown' /\ FilterSeesOwnComments'
  <2>1. PICK R \in SUBSET Range(collector[d]) :
          /\ \A c \in R : c \in Range(snap[d])
          /\ removed' = removed \cup R
          /\ UNCHANGED <<found, snap>>
          /\ pc[d] = "filter" /\ pc' = [pc EXCEPT ![d] = "finish"]
    BY <1>2, FilterRemoves DEF Whereabouts
  <2>2. \A c \in R : c.path = d
    BY <1>0, <2>1 DEF Whereabouts, CollectedOnce
  <2>3. RemovedWereShown'
    BY <1>0, <2>1, <2>2 DEF RemovedWereShown
  <2>4. FilterSeesOwnComments'
    BY <1>0, <2>1 DEF FilterSeesOwnComments
  <2> QED
    BY <2>3, <2>4
<1>3. ASSUME UNCHANGED <<snap, removed>>,
             \A d \in Diffs : /\ pc'[d] = "filter" => pc[d] = "filter"
                              /\ pc[d] \in {"finish", "done"} => pc'[d] \in {"finish", "done"}
      PROVE  RemovedWereShown' /\ FilterSeesOwnComments'
  <2>1. RemovedWereShown'
    BY <1>3 DEF RemovedWereShown
  <2>2. \A c \in found' \ found : c.task \in Task /\ pc[c.task[1]] = "loop" /\ pc' = pc
    <3>1. ASSUME NEW d \in Diffs, Submit(d)
          PROVE  \A c \in found' \ found : c.task \in Task /\ pc[c.task[1]] = "loop" /\ pc' = pc
      <4>1. PICK t \in Task : \E B \in Seq(Comment) :
              /\ t[1] = d /\ found' = found \cup Range(B)
              /\ \A c \in Range(B) : c.task = t
        BY <3>1, SubmitAdds
      <4>2. pc[d] = "loop" /\ pc' = pc
        BY <3>1 DEF Submit
      <4> QED
        BY <4>1, <4>2
    <3>2. CASE found' = found
      BY <3>2
    <3> QED
      BY <3>1, <3>2, CommentSteps, FilterRemoves, AddMoves DEF NoCommentMoves, Whereabouts
  <2>3. FilterSeesOwnComments'
    <3> SUFFICES ASSUME NEW d \in Diffs, pc'[d] = "filter",
                        NEW c \in found', c.task[1] = d, c.path = d
                 PROVE  c \in Range(snap'[d])
      BY DEF FilterSeesOwnComments
    <3>1. c \in found
      BY <2>2
    <3> QED
      BY <1>3, <3>1 DEF FilterSeesOwnComments
  <2> QED
    BY <2>1, <2>3
<1> QED
  BY <1>1, <1>2, <1>3, SnapSteps

------------------------------------------------------------------------------
(* The end of a run. *)

Phases ==
  /\ phase \in {"await", "collect", "returned"} => Active = {}
  /\ phase = "collect" => Pending = {}
  /\ result.kind = "none" <=> phase # "returned"

LEMMA PhasesInit == Init => Phases /\ NoCommentLost
BY DEF Init, Phases, NoCommentLost, Promise!NoAnswer

(* When nothing was dispatched yet, nothing was found. *)
LEMMA NothingFound == Inv /\ Whereabouts /\ Started = {} => found = {}
<1> SUFFICES ASSUME Inv, Whereabouts, Started = {}, NEW c \in found PROVE FALSE
  OBVIOUS
<1>1. c.task \in Task /\ taskPc[c.task] # "none"
  BY DEF Inv, Types, Comment, Whereabouts, FoundSubmitted
<1>2. PICK d \in Diffs, k \in 1..MaxCalls : c.task = <<d, k>>
  BY <1>1 DEF Task
<1>3. ~(calls[d] < k) /\ calls[d] \in Nat
  BY <1>1, <1>2, RunAssumption DEF Inv, Control, Types
<1>4. calls[d] > 0
  BY <1>3
<1>5. pc[d] # "idle"
  BY <1>4 DEF Inv, Control
<1> QED
  BY <1>5 DEF Started

(* When Run reads the collector, everything found is there or was removed. *)
LEMMA CollectedAll ==
  Inv /\ Whereabouts /\ Phases /\ phase = "collect" => Collected = found \ removed
<1> SUFFICES ASSUME Inv, Whereabouts, Phases, phase = "collect"
             PROVE  Collected = found \ removed
  OBVIOUS
<1>1. found \subseteq Comment
  BY DEF Inv, Types
<1>2. \A c \in found : c.task \in Task /\ c.path \in Path /\ rest[c.task] = <<>>
  BY <1>1 DEF Phases, Pending, Inv, Control, InPool, Comment
<1>3. \A c \in found : c \in Range(collector[c.path]) \/ c \in removed
  BY <1>2 DEF Whereabouts, FoundSomewhere, Range
<1>4. Collected \subseteq found \ removed
  BY DEF Collected, Whereabouts, CollectedOnce
<1>5. found \ removed \subseteq Collected
  BY <1>2, <1>3 DEF Collected
<1> QED
  BY <1>4, <1>5

LEMMA PhasesStep ==
  Inv /\ Whereabouts /\ Phases /\ NoCommentLost /\ [Next]_vars => Phases' /\ NoCommentLost'
<1> SUFFICES ASSUME Inv, Whereabouts, Phases, NoCommentLost, [Next]_vars
             PROVE  Phases' /\ NoCommentLost'
  OBVIOUS
<1> DEFINE Goal == Phases' /\ NoCommentLost'
<1>0. /\ pc \in [Diffs -> FilePcs] /\ phase \in {"load", "dispatch", "await", "collect", "returned"}
      /\ taskPc \in [Task -> {"none", "queued", "running", "done"}] /\ WaitersWait
      /\ found \subseteq Comment
  BY DEF Inv, Types
<1>1. Started = {} => found = {}
  BY NothingFound
<1>2. phase = "load" => Active = {} /\ Started = {}
  <2> SUFFICES ASSUME phase = "load", NEW d \in Diffs PROVE pc[d] = "idle"
    BY DEF Active, Started
  <2>1. cursor = 1 /\ ~(d < 1)
    BY RunAssumption DEF Inv, Control, Diffs
  <2> QED
    BY <2>1 DEF Inv, Control
<1>3. UNCHANGED pc => UNCHANGED Active
  BY DEF Active
<1>4. CASE Load
  <2>1. UNCHANGED <<pc, found, removed>> /\ phase = "load"
    BY <1>4 DEF Load, fileVars, histVars
  <2>2. \/ phase' = "dispatch" /\ UNCHANGED result
        \/ phase' = "returned" /\ result' \in {Promise!Error, Promise!Comments({})}
    BY <1>4 DEF Load, Return
  <2> QED
    BY <1>1, <1>2, <1>3, <2>1, <2>2
    DEF Phases, NoCommentLost, Promise!Error, Promise!Comments
<1>5. CASE DispatchSkip \/ Dispatch
  BY <1>5 DEF DispatchSkip, Dispatch, Phases, NoCommentLost, histVars
<1>6. CASE AllSubtasksDone
  <2>1. UNCHANGED <<pc, found, removed>> /\ phase = "dispatch"
    BY <1>6 DEF AllSubtasksDone, fileVars, histVars
  <2>2. Active = {}
    BY <1>6, FiniteCarriers, FS_EmptySet DEF AllSubtasksDone, Inv, RunCounters
  <2>3. dispatched = 0 => Started = {}
    BY FiniteCarriers, FS_EmptySet DEF Inv, RunCounters
  <2>4. \/ phase' = "await" /\ UNCHANGED result
        \/ phase' = "returned" /\ result' = Promise!Comments({}) /\ Started = {}
    BY <1>6, <2>3 DEF AllSubtasksDone, AfterWait, Return
  <2> QED
    BY <1>1, <1>3, <2>1, <2>2, <2>4 DEF Phases, NoCommentLost, Promise!Comments
<1>7. CASE Collect
  <2>1. UNCHANGED <<pc, found, removed>> /\ phase = "collect" /\ phase' = "returned"
    BY <1>7 DEF Collect, Return, fileVars, histVars
  <2>2. result' \in {Promise!Error, Promise!Comments(found \ removed)}
    BY <1>7, CollectedAll DEF Collect, Return
  <2> QED
    BY <1>3, <2>1, <2>2 DEF Phases, NoCommentLost, Promise!Error, Promise!Comments
<1>8. ASSUME NEW d \in Diffs, FileStep(d) PROVE Goal
  <2>1. pc[d] \notin {"idle", "done"} /\ UNCHANGED <<phase, result>>
    BY <1>8 DEF FileStep, StartFails, StartSkips, StartReview, Submit, LoopFails, LoopEnds,
       FilterStart, FilterEnds, Finish, Move, runVars
  <2>2. phase \in {"load", "dispatch"}
    BY <1>0, <2>1 DEF Phases, Active
  <2> QED
    BY <2>1, <2>2 DEF Phases, NoCommentLost
<1>9. ASSUME NEW w \in Diffs \cup {Main}, AwaitStep(w) PROVE Goal
  <2>1. /\ Awaits(w) /\ AwaitUnchanged
        /\ UNCHANGED <<phase, pc>> \/ (Proceeds(w) /\ poolCount = 0)
    BY <1>0, <1>9, AwaitStepMoves
  <2>2. UNCHANGED <<result, taskPc, found, removed>>
    BY <2>1 DEF AwaitUnchanged, poolVars, histVars
  <2>3. UNCHANGED Pending
    BY <2>2 DEF Pending
  <2>4. CASE UNCHANGED <<phase, pc>>
    BY <1>3, <2>2, <2>3, <2>4 DEF Phases, NoCommentLost
  <2>5. CASE w = Main /\ Proceeds(w) /\ poolCount = 0
    <3>1. phase = "await" /\ phase' = "collect" /\ UNCHANGED pc
      BY <2>1, <2>5 DEF Proceeds, Awaits
    <3>2. Pending = {}
      BY <2>5, FiniteCarriers, FS_EmptySet DEF Inv, PoolCounters
    <3> QED
      BY <1>3, <2>2, <2>3, <3>1, <3>2 DEF Phases, NoCommentLost
  <2>6. CASE w # Main /\ Proceeds(w)
    <3>1. w \in Diffs /\ pc[w] = "await" /\ UNCHANGED phase
      BY <2>1, <2>6 DEF Proceeds, Awaits
    <3>2. phase \in {"load", "dispatch"}
      BY <1>0, <3>1 DEF Phases, Active
    <3> QED
      BY <2>2, <3>1, <3>2 DEF Phases, NoCommentLost
  <2> QED
    BY <2>1, <2>4, <2>5, <2>6
<1>10. ASSUME NEW t \in Task, TaskStep(t) PROVE Goal
  <2>1. UNCHANGED <<phase, result, pc, found, removed>>
    BY <1>10 DEF TaskStep, TaskStarts, TaskAdds, TaskEnds, runVars, fileVars, histVars
  <2>2. Pending' \subseteq Pending
    BY <1>0, <1>10 DEF TaskStep, TaskStarts, TaskAdds, TaskEnds, Pending
  <2> QED
    BY <1>3, <2>1, <2>2 DEF Phases, NoCommentLost
<1>11. CASE UNCHANGED vars
  <2>1. UNCHANGED <<phase, result, pc, found, removed, taskPc>>
    BY <1>11 DEF vars, runVars, fileVars, poolVars, histVars
  <2>2. UNCHANGED Pending
    BY <2>1 DEF Pending
  <2> QED
    BY <1>3, <2>1, <2>2 DEF Phases, NoCommentLost
<1> QED
  BY <1>4, <1>5, <1>6, <1>7, <1>8, <1>9, <1>10, <1>11 DEF Next, RunStep, Stopped

------------------------------------------------------------------------------
(* The inductive invariant, and the three properties it was built for. *)

CommentInv ==
  /\ Inv /\ Whereabouts
  /\ OwnCallsDone /\ RemovedWereShown /\ FilterSeesOwnComments
  /\ Phases /\ NoCommentLost

(* All the layers hold of every reachable state. *)
THEOREM CommentInvHolds == Spec => []CommentInv
<1>1. Init => CommentInv
  BY InvInit, WhereaboutsInit, FiltersInit, PhasesInit DEF CommentInv
<1>2. CommentInv /\ [Next]_vars => CommentInv'
  BY InvStep, WhereaboutsStep, OwnCallsDoneStep, FiltersStep, PhasesStep DEF CommentInv
<1> QED
  BY <1>1, <1>2, PTL DEF Spec

(* Whatever the number of files, calls, comments and workers: when a file's
   review filter asks its question, it has been given every comment the file's
   own conversation made on it. *)
THEOREM FilterSeesOwnCorrect == Spec => []FilterSeesOwnComments
<1>1. CommentInv => FilterSeesOwnComments
  BY DEF CommentInv
<1> QED
  BY <1>1, CommentInvHolds, PTL

(* A filter that names comments by position removes only comments it was
   shown, although other goroutines append to the list in between. *)
THEOREM FilterRemovesCorrect == Spec => []FilterRemovesOnlyShown
<1>1. CommentInv => FilterRemovesOnlyShown
  BY DEF CommentInv, RemovedWereShown, FilterRemovesOnlyShown
<1> QED
  BY <1>1, CommentInvHolds, PTL

(* The answer of a run is exactly the comments found and not removed by a
   filter. *)
THEOREM NoCommentLostCorrect == Spec => []NoCommentLost
<1>1. CommentInv => NoCommentLost
  BY DEF CommentInv
<1> QED
  BY <1>1, CommentInvHolds, PTL
------------------------------------------------------------------------------
(* The verdicts, as the instance in ReviewRun reads them off the run. *)
Verdict == [d \in Diffs |-> IF kind[d] # "review" THEN "excluded"
                            ELSE IF outcome[d] = "none" THEN "pending"
                            ELSE outcome[d]]

Unseen == UNCHANGED <<Verdict, found, removed, result>>

(* One more layer: what Run returned before it returned, and that it leaves
   the dispatch loop only at its end. *)
LastLayer ==
  /\ result.kind = "none" => result = Promise!NoAnswer
  /\ phase \in {"await", "collect"} => cursor = NumDiffs + 1

RefineInv == CommentInv /\ LastLayer

LEMMA RefineInvInit == Init => RefineInv
<1> SUFFICES ASSUME Init PROVE RefineInv
  OBVIOUS
<1>1. CommentInv
  BY InvInit, WhereaboutsInit, FiltersInit, PhasesInit DEF CommentInv
<1>2. LastLayer
  BY DEF Init, LastLayer
<1> QED
  BY <1>1, <1>2 DEF RefineInv

LEMMA RefineInvStep == RefineInv /\ [Next]_vars => RefineInv'
<1> SUFFICES ASSUME RefineInv, [Next]_vars PROVE RefineInv'
  OBVIOUS
<1>1. CommentInv'
  BY InvStep, WhereaboutsStep, OwnCallsDoneStep, FiltersStep, PhasesStep
  DEF RefineInv, CommentInv
<1> USE DEF LastLayer
<1>2. LastLayer'
  <2>1. LastLayer /\ cursor \in 1..(NumDiffs + 1) /\ NumDiffs \in Nat /\ WaitersWait
    BY RunAssumption DEF RefineInv, CommentInv, Inv, Types
  <2>2. UNCHANGED <<phase, cursor, result>> => LastLayer'
    BY <2>1
  <2>3. CASE Load \/ AllSubtasksDone \/ Collect
    BY <2>1, <2>3 DEF Load, AllSubtasksDone, AfterWait, Collect, Return,
       Promise!Error, Promise!Comments
  <2>4. CASE DispatchSkip \/ Dispatch
    BY <2>1, <2>4 DEF DispatchSkip, Dispatch
  <2>5. ASSUME NEW d \in Diffs, FileStep(d) PROVE UNCHANGED <<phase, cursor, result>>
    BY <2>5 DEF FileStep, StartFails, StartSkips, StartReview, Submit, LoopFails, LoopEnds,
       FilterStart, FilterEnds, Finish, runVars
  <2>6. ASSUME NEW w \in Diffs \cup {Main}, AwaitStep(w) PROVE LastLayer'
    BY <2>1, <2>6, AwaitStepMoves DEF Awaits, AwaitUnchanged, Proceeds
  <2>7. ASSUME NEW t \in Task, TaskStep(t) PROVE UNCHANGED <<phase, cursor, result>>
    BY <2>7 DEF TaskStep, TaskStarts, TaskAdds, TaskEnds, runVars
  <2>8. CASE UNCHANGED vars
    BY <2>2, <2>8 DEF vars, runVars
  <2> QED
    BY <2>2, <2>3, <2>4, <2>5, <2>6, <2>7, <2>8 DEF Next, RunStep, Stopped
<1> QED
  BY <1>1, <1>2 DEF RefineInv

LEMMA RefineInit == Init => Promise!Init
BY DEF Init, Promise!Init, Promise!NoAnswer

(* A file that gets its outcome settles its verdict. *)
LEMMA SettleStep ==
  ASSUME NEW d \in Diffs, NEW v \in {"ok", "skipped", "failed"}
  PROVE  /\ RefineInv
         /\ pc[d] \notin {"idle", "finish", "done"}
         /\ outcome' = [outcome EXCEPT ![d] = v]
         /\ UNCHANGED <<kind, found, result>>
         /\ \E R \in SUBSET found : /\ removed' = removed \cup R
                                    /\ \A c \in R : v = "ok" /\ c.path = d
         => Promise!Settle(d, v)
<1> SUFFICES ASSUME RefineInv,
                    pc[d] \notin {"idle", "finish", "done"},
                    outcome' = [outcome EXCEPT ![d] = v],
                    UNCHANGED <<kind, found, result>>,
                    NEW R \in SUBSET found, removed' = removed \cup R,
                    \A c \in R : v = "ok" /\ c.path = d
             PROVE  Promise!Settle(d, v)
  OBVIOUS
<1>1. outcome \in [Diffs -> Outcomes] /\ removed \subseteq found
      /\ phase \in {"load", "dispatch", "await", "collect", "returned"}
  BY DEF RefineInv, CommentInv, Inv, Types, Whereabouts
<1>2. kind[d] = "review" /\ outcome[d] = "none"
  BY DEF RefineInv, CommentInv, Inv, Control
<1>3. result = Promise!NoAnswer
  <2>1. d \in Active
    BY DEF Active
  <2>2. phase # "returned"
    BY <2>1 DEF RefineInv, CommentInv, Phases
  <2> QED
    BY <2>2 DEF RefineInv, CommentInv, Phases, LastLayer
<1>4. Verdict[d] = "pending" /\ Verdict' = [Verdict EXCEPT ![d] = v]
  <2>1. \A e \in Diffs : Verdict'[e] = [Verdict EXCEPT ![d] = v][e]
    BY <1>1, <1>2 DEF Verdict
  <2> QED
    BY <1>2, <2>1 DEF Verdict
<1>5. removed' \in SUBSET found /\ removed \subseteq removed'
      /\ \A c \in removed' \ removed : v = "ok" /\ c.path = d
  BY <1>1
<1> QED
  BY <1>3, <1>4, <1>5 DEF Promise!Settle, Verdict

LEMMA RefineFileStep ==
  ASSUME NEW d \in Diffs
  PROVE  RefineInv /\ FileStep(d) => Promise!Next \/ Unseen
<1> SUFFICES ASSUME RefineInv, FileStep(d) PROVE Promise!Next \/ Unseen
  OBVIOUS
<1>1. UNCHANGED <<kind, result>>
  BY DEF FileStep, StartFails, StartSkips, StartReview, Submit, LoopFails, LoopEnds,
     FilterStart, FilterEnds, Finish, runVars
<1>2. ASSUME NEW v \in {"ok", "skipped", "failed"},
             pc[d] \notin {"idle", "finish", "done"},
             outcome' = [outcome EXCEPT ![d] = v], UNCHANGED <<found, removed>>
      PROVE  Promise!Next
  <2>1. \E R \in SUBSET found : removed' = removed \cup R /\ \A c \in R : v = "ok" /\ c.path = d
    <3>1. removed' = removed \cup {} /\ {} \in SUBSET found
      BY <1>2
    <3> QED
      BY <3>1
  <2>2. Promise!Settle(d, v)
    BY <1>1, <1>2, <2>1, SettleStep
  <2> QED
    BY <2>2 DEF Promise!Next
<1>3. CASE StartFails(d) \/ LoopFails(d)
  BY <1>2, <1>3 DEF StartFails, LoopFails, Move, histVars
<1>4. CASE StartSkips(d)
  BY <1>2, <1>4 DEF StartSkips, Move, histVars
<1>5. CASE StartReview(d) \/ LoopEnds(d) \/ Finish(d)
  BY <1>1, <1>5 DEF StartReview, LoopEnds, Finish, histVars, Unseen, Verdict
<1>6. CASE FilterStart(d)
  <2>1. UNCHANGED <<found, removed>> /\ pc[d] = "snapshot"
    BY <1>6 DEF FilterStart, histVars
  <2>2. CASE outcome' = [outcome EXCEPT ![d] = "ok"]
    BY <1>2, <2>1, <2>2
  <2>3. CASE UNCHANGED outcome
    BY <1>1, <2>1, <2>3 DEF Unseen, Verdict
  <2> QED
    BY <1>6, <2>2, <2>3 DEF FilterStart
<1>7. CASE FilterEnds(d)
  <2>1. PICK R \in SUBSET Range(collector[d]) : /\ removed' = removed \cup R
                                               /\ UNCHANGED found
    BY <1>7, FilterRemoves DEF RefineInv, CommentInv, Whereabouts
  <2>2. \A c \in R : c \in found /\ c.path = d
    <3>1. d \in Path
      BY DEF Path
    <3> QED
      BY <2>1, <3>1 DEF RefineInv, CommentInv, Whereabouts, CollectedOnce
  <2>3. pc[d] = "filter" /\ outcome' = [outcome EXCEPT ![d] = "ok"]
    BY <1>7 DEF FilterEnds, Move
  <2>4. R \in SUBSET found
    BY <2>2
  <2>5. Promise!Settle(d, "ok")
    BY <1>1, <2>1, <2>2, <2>3, <2>4, SettleStep
  <2> QED
    BY <2>5 DEF Promise!Next
<1>8. CASE Submit(d)
  <2>1. pc[d] = "loop" /\ UNCHANGED <<outcome, removed>>
    BY <1>8 DEF Submit
  <2>2. found \subseteq found' /\ found' \subseteq Comment
    <3>1. PICK t \in Task : \E B \in Seq(Comment) : found' = found \cup Range(B)
      BY <1>8, SubmitAdds DEF RefineInv, CommentInv
    <3>2. PICK B \in Seq(Comment) : found' = found \cup Range(B)
      BY <3>1
    <3>3. Range(B) \subseteq Comment
      BY RangeOfSeq DEF Range
    <3> QED
      BY <3>2, <3>3 DEF RefineInv, CommentInv, Inv, Types
  <2>3. kind[d] = "review" /\ outcome[d] = "none"
    BY <2>1 DEF RefineInv, CommentInv, Inv, Control
  <2>4. result = Promise!NoAnswer
    <3>1. d \in Active
      BY <2>1 DEF Active
    <3>2. phase \in {"load", "dispatch", "await", "collect", "returned"} /\ phase # "returned"
      BY <3>1 DEF RefineInv, CommentInv, Phases, Inv, Types
    <3> QED
      BY <3>2 DEF RefineInv, CommentInv, Phases, LastLayer
  <2>5. Promise!Find(d)
    BY <1>1, <2>1, <2>2, <2>3, <2>4 DEF Promise!Find
  <2> QED
    BY <2>5 DEF Promise!Next
<1> QED
  BY <1>3, <1>4, <1>5, <1>6, <1>7, <1>8 DEF FileStep

LEMMA RefineLoad == RefineInv /\ Load => Promise!Next \/ Unseen
<1> SUFFICES ASSUME RefineInv, Load PROVE Promise!Next \/ Unseen
  OBVIOUS
<1>1. phase = "load" /\ UNCHANGED <<kind, outcome, found, removed>>
  BY DEF Load, fileVars, histVars
<1>2. \A d \in Diffs : pc[d] = "idle" /\ outcome[d] = "none"
  <2> TAKE d \in Diffs
  <2>1. cursor = 1 /\ ~(d < 1)
    BY <1>1, RunAssumption DEF RefineInv, CommentInv, Inv, Control, Diffs
  <2> QED
    BY <2>1 DEF RefineInv, CommentInv, Inv, Control
<1>3. found = {}
  BY <1>2, NothingFound DEF Started, RefineInv, CommentInv
<1>4. result = Promise!NoAnswer
  BY <1>1 DEF RefineInv, CommentInv, Phases, LastLayer
<1>5. CASE result' = Promise!Error
  <2>1. Promise!Abort
    BY <1>1, <1>2, <1>3, <1>4, <1>5 DEF Promise!Abort, Promise!Selected
  <2> QED
    BY <2>1 DEF Promise!Next
<1>6. CASE result' = Promise!Comments({}) /\ \A d \in Diffs : kind[d] = "unsupported"
  <2>1. Promise!Selected = {}
    BY <1>6 DEF Promise!Selected
  <2>2. found \ removed = {}
    BY <1>3
  <2>3. Promise!Answer
    BY <1>1, <1>4, <1>6, <2>1, <2>2 DEF Promise!Answer
  <2> QED
    BY <2>3 DEF Promise!Next
<1>7. CASE UNCHANGED result
  BY <1>1, <1>7 DEF Unseen, Verdict
<1> QED
  BY <1>5, <1>6, <1>7 DEF Load, Return

LEMMA RefineDone == RefineInv /\ AllSubtasksDone => Promise!Next \/ Unseen
<1> SUFFICES ASSUME RefineInv, AllSubtasksDone PROVE Promise!Next \/ Unseen
  OBVIOUS
<1>1. phase = "dispatch" /\ cursor > NumDiffs /\ UNCHANGED <<kind, outcome, found, removed>>
  BY DEF AllSubtasksDone, fileVars, histVars
<1>2. result = Promise!NoAnswer
  BY <1>1 DEF RefineInv, CommentInv, Phases, LastLayer
<1>3. CASE dispatched = 0 /\ result' = Promise!Comments({})
  <2>1. Started = {}
    BY <1>3, FiniteCarriers, FS_EmptySet DEF RefineInv, CommentInv, Inv, RunCounters
  <2>2. found \ removed = {}
    BY <2>1, NothingFound DEF RefineInv, CommentInv
  <2>3. \A d \in Diffs : kind[d] # "review"
    <3> SUFFICES ASSUME NEW d \in Diffs, kind[d] = "review" PROVE FALSE
      OBVIOUS
    <3>1. d < cursor
      BY <1>1, RunAssumption DEF RefineInv, CommentInv, Inv, Types, Diffs
    <3> QED
      BY <2>1, <3>1 DEF RefineInv, CommentInv, Inv, Control, Started
  <2>4. Promise!Selected = {}
    BY <2>3 DEF Promise!Selected
  <2>5. Promise!Answer
    BY <1>1, <1>2, <1>3, <2>2, <2>4 DEF Promise!Answer
  <2> QED
    BY <2>5 DEF Promise!Next
<1>4. CASE UNCHANGED result
  BY <1>1, <1>4 DEF Unseen, Verdict
<1> QED
  BY <1>3, <1>4 DEF AllSubtasksDone, Return

LEMMA RefineCollect == RefineInv /\ Collect => Promise!Next
<1> SUFFICES ASSUME RefineInv, Collect PROVE Promise!Next
  OBVIOUS
<1>1. /\ phase = "collect" /\ UNCHANGED <<kind, outcome, found, removed>>
      /\ result = Promise!NoAnswer /\ cursor = NumDiffs + 1 /\ Active = {}
  BY DEF Collect, fileVars, histVars, RefineInv, CommentInv, Phases, LastLayer
<1>2. \A d \in Diffs : kind[d] = "review" <=> d \in Started
  BY <1>1, RunAssumption DEF RefineInv, CommentInv, Inv, Control, Started, Diffs
<1>3. \A d \in Started : pc[d] = "done" /\ outcome[d] # "none"
  BY <1>1 DEF Started, Active, RefineInv, CommentInv, Inv, Control
<1>4. FailedDone = {d \in Started : outcome[d] = "failed"}
  BY <1>3 DEF Started, FailedDone
<1>5. AllSubtasksFailed <=> Started # {} /\ \A d \in Started : outcome[d] = "failed"
  <2>1. /\ IsFiniteSet(Started) /\ FailedDone \in SUBSET Started
        /\ failed = Cardinality(FailedDone) /\ dispatched = Cardinality(Started)
        /\ Cardinality(Started) \in Nat
    BY <1>4, FiniteCarriers, FS_CardinalityType DEF RefineInv, CommentInv, Inv, RunCounters
  <2>2. failed = dispatched <=> FailedDone = Started
    BY <2>1, FS_Subset
  <2>3. dispatched > 0 <=> Started # {}
    BY <2>1, FS_EmptySet
  <2> QED
    BY <1>4, <2>2, <2>3 DEF AllSubtasksFailed
<1>6. Collected = found \ removed
  BY <1>1, CollectedAll DEF RefineInv, CommentInv
<1>7. \A d \in Started : /\ Verdict[d] = outcome[d]
                         /\ Verdict[d] \notin {"pending", "excluded"}
  <2> TAKE d \in Started
  <2>1. d \in Diffs /\ outcome[d] \in Outcomes
    BY DEF Started, RefineInv, CommentInv, Inv, Types
  <2> QED
    BY <1>2, <1>3, <2>1 DEF Verdict, Outcomes
<1>8. Promise!Selected = Started
  <2>1. \A d \in Diffs : d \in Started <=> Verdict[d] # "excluded"
    BY <1>2, <1>7 DEF Verdict
  <2> QED
    BY <2>1 DEF Promise!Selected, Verdict, Started
<1>9. Verdict' = Verdict
  BY <1>1 DEF Verdict
<1>10. result' = IF Started # {} /\ \A d \in Started : Verdict[d] = "failed"
                   THEN Promise!Error ELSE Promise!Comments(found \ removed)
  BY <1>5, <1>6, <1>7 DEF Collect, Return
<1>11. Promise!Answer
  BY <1>1, <1>7, <1>8, <1>9, <1>10 DEF Promise!Answer, Verdict
<1> QED
  BY <1>11 DEF Promise!Next

LEMMA RefineStep == RefineInv /\ [Next]_vars => [Promise!Next]_(Promise!promiseVars)
<1> SUFFICES ASSUME RefineInv, [Next]_vars PROVE Promise!Next \/ Unseen
  BY DEF Unseen, Verdict, Promise!promiseVars
<1>1. CASE DispatchSkip \/ Dispatch
  BY <1>1 DEF DispatchSkip, Dispatch, fileVars, histVars, Unseen, Verdict
<1>2. ASSUME NEW w \in Diffs \cup {Main}, AwaitStep(w) PROVE Unseen
  BY <1>2, AwaitStepMoves DEF RefineInv, CommentInv, Inv, AwaitUnchanged, histVars, Unseen, Verdict
<1>3. ASSUME NEW t \in Task, TaskStep(t) PROVE Unseen
  BY <1>3 DEF TaskStep, TaskStarts, TaskAdds, TaskEnds, runVars, fileVars, histVars,
     Unseen, Verdict
<1>4. CASE UNCHANGED vars
  BY <1>4 DEF vars, runVars, fileVars, histVars, Unseen, Verdict
<1> QED
  BY <1>1, <1>2, <1>3, <1>4, RefineLoad, RefineDone, RefineCollect, RefineFileStep
  DEF Next, RunStep, Stopped

(* Every behaviour of the run, for any number of files, calls, comments and
   workers, is a behaviour of the promise its caller relies on. *)
THEOREM RunKeepsPromise == Spec => ImplementsPromise
BY RefineInvInit, RefineInvStep, RefineInit, RefineStep, PTL
DEF Spec, ImplementsPromise, Promise!Spec
=============================================================================
