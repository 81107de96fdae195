----------------------------- MODULE ToolLoopProofs -----------------------------
(***************************************************************************)
(* The safety properties of the review loop, for every request budget,     *)
(* every limit on empty rounds and every number of calls in a reply.       *)
(***************************************************************************)
EXTENDS ToolLoop, FiniteSetTheorems, FunctionTheorems, SequenceTheorems, TLAPS

(* A reply has finitely many comments, and its first call is one of them or
   not: the rest are those of the calls after it. *)
LEMMA CommentsFinite ==
  ASSUME NEW s \in Seq(Call)
  PROVE  IsFiniteSet(Comments(s)) /\ Cardinality(Comments(s)) \in Nat
<1>1. DOMAIN s = 1..Len(s) /\ Len(s) \in Nat  OBVIOUS
<1>2. IsFiniteSet(DOMAIN s)  BY <1>1, FS_Interval
<1>3. Comments(s) \in SUBSET DOMAIN s  BY DEF Comments
<1>4. IsFiniteSet(Comments(s))  BY <1>2, <1>3, FS_Subset
<1> QED BY <1>4, FS_CardinalityType

LEMMA CommentsOfTail ==
  ASSUME NEW s \in Seq(Call), s # <<>>
  PROVE  Cardinality(Comments(s)) = IF Head(s) = "code_comment"
                                      THEN Cardinality(Comments(Tail(s))) + 1
                                      ELSE Cardinality(Comments(Tail(s)))
<1> DEFINE rest == Comments(s) \ {1}
           f == [i \in Comments(Tail(s)) |-> i + 1]
<1>1. /\ Len(s) \in Nat \ {0} /\ DOMAIN s = 1..Len(s)
      /\ Tail(s) \in Seq(Call) /\ DOMAIN Tail(s) = 1..(Len(s) - 1)
      /\ Head(s) = s[1] /\ \A i \in 1..(Len(s) - 1) : Tail(s)[i] = s[i + 1]
  OBVIOUS
<1>2. f \in [Comments(Tail(s)) -> rest]
  <2> SUFFICES ASSUME NEW i \in Comments(Tail(s))  PROVE i + 1 \in rest
    OBVIOUS
  <2>1. i \in 1..(Len(s) - 1) /\ s[i + 1] = "code_comment"
    BY <1>1 DEF Comments
  <2> QED BY <1>1, <2>1 DEF Comments
<1>3. \A i, j \in Comments(Tail(s)) : f[i] = f[j] => i = j
  BY <1>1 DEF Comments
<1>4. \A k \in rest : \E i \in Comments(Tail(s)) : f[i] = k
  <2> SUFFICES ASSUME NEW k \in rest  PROVE \E i \in Comments(Tail(s)) : f[i] = k
    OBVIOUS
  <2>1. k \in 2..Len(s) /\ s[k] = "code_comment"  BY <1>1 DEF Comments
  <2>2. k - 1 \in 1..(Len(s) - 1) /\ (k - 1) + 1 = k  BY <1>1, <2>1
  <2>3. k - 1 \in Comments(Tail(s))  BY <1>1, <2>1, <2>2 DEF Comments
  <2> QED BY <2>2, <2>3
<1>5. f \in Bijection(Comments(Tail(s)), rest)
  BY <1>2, <1>3, <1>4 DEF Bijection, Injection, Surjection, IsInjective
<1>6. Cardinality(rest) = Cardinality(Comments(Tail(s)))
  BY <1>1, <1>5, CommentsFinite, FS_Bijection DEF ExistsBijection
<1>7. 1 \in Comments(s) <=> Head(s) = "code_comment"
  BY <1>1 DEF Comments
<1>8. Cardinality(rest) = IF 1 \in Comments(s) THEN Cardinality(Comments(s)) - 1
                                               ELSE Cardinality(Comments(s))
  BY CommentsFinite, FS_RemoveElement
<1> QED BY <1>1, <1>6, <1>7, <1>8, CommentsFinite

LEMMA TailOfCalls ==
  ASSUME NEW s \in Seq(Call), s # <<>>
  PROVE  /\ Len(s) \in Nat \ {0} /\ Tail(s) \in Seq(Call)
         /\ Len(s) = 1 <=> Tail(s) = <<>>
<1>1. /\ Len(s) \in Nat \ {0} /\ Tail(s) \in Seq(Call) /\ Len(Tail(s)) = Len(s) - 1
  BY HeadTailProperties, LenProperties, EmptySeq
<1>2. Tail(s) = <<>> <=> Len(Tail(s)) = 0  BY <1>1, EmptySeq
<1> QED BY <1>1, <1>2

LEMMA NoComments == Cardinality(Comments(<<>>)) = 0
<1>1. Comments(<<>>) = {}  BY DEF Comments
<1> QED BY <1>1, FS_EmptySet

-------------------------------------------------------------------------------
(* The inductive invariant. *)

(* Requests are counted down and up together, until one fails. *)
Counted == err \/ asked + budget = MaxToolRequestTimes

(* What the code knows of tool calls is what happened, and the loop is left
   with requests to spare only after a reply that had calls. *)
Seen ==
  /\ called = sawAnyToolCall
  /\ pc \in {"execute", "decide", "append"} => sawAnyToolCall
  /\ pc = "after" /\ budget > 0 => sawAnyToolCall
  /\ pc # "returned" => ~err /\ warnings \cap {"no_tool_calls", "incomplete_review"} = {}
  /\ "incomplete_review" \in warnings => called /\ ~err /\ budget = 0

(* An unfinished loop that ends with requests to spare gave up on something. *)
GivenUp ==
  pc = "after" /\ budget > 0 =>
    taskCompleted \/ tooLong \/ "no_valid_tool_results" \in warnings

(* A comment was handed on, or its call is still to be executed. *)
Handed ==
  /\ pc = "execute" => todo # <<>> /\ submitted + Cardinality(Comments(todo)) = received
  /\ pc # "execute" => submitted = received

(* The empty rounds counted are the last ones there were, and all of them. *)
EmptyRun ==
  /\ pc \notin {"after", "returned"} =>
       empties < MaxConsecutiveEmptyRounds /\ "no_valid_tool_results" \notin warnings
  /\ Len(validity) <= MaxConsecutiveEmptyRounds /\ empties <= Len(validity)
  /\ \A i \in 1..Len(validity) : i > Len(validity) - empties => validity[i] = FALSE
  /\ empties < Len(validity) => validity[Len(validity) - empties] = TRUE

Inv == TypeOK /\ Counted /\ Seen /\ GivenUp /\ Handed /\ EmptyRun /\ StopsReported

LEMMA InitInv == Init => Inv
<1> SUFFICES ASSUME Init  PROVE Inv  OBVIOUS
<1> USE LoopAssumption DEF Init
<1>1. TypeOK
  <2>1. /\ budget \in 0..MaxToolRequestTimes /\ empties \in 0..MaxConsecutiveEmptyRounds
        /\ asked \in Nat /\ received \in Nat /\ submitted \in Nat
    OBVIOUS
  <2>2. todo \in Seq(Call) /\ validity \in Seq(BOOLEAN)  BY EmptySeq
  <2> QED BY <2>1, <2>2 DEF TypeOK
<1>2. Counted  BY DEF Counted
<1>3. Seen /\ GivenUp  BY DEF Seen, GivenUp
<1>4. Handed  BY DEF Handed
<1>5. EmptyRun  BY DEF EmptyRun
<1>6. StopsReported
  BY DEF StopsReported, NoSilentDrop, UnfinishedIsReported,
         LimitWasReached, GivesUpAfterEmptyRun
<1> QED BY <1>1, <1>2, <1>3, <1>4, <1>5, <1>6 DEF Inv

(* Latest keeps the end of a sequence that is at most one too long. *)
LEMMA LatestKeepsTheEnd ==
  ASSUME NEW s \in Seq(BOOLEAN), Len(s) <= MaxConsecutiveEmptyRounds + 1
  PROVE  /\ Latest(s) \in Seq(BOOLEAN)
         /\ Len(Latest(s)) <= MaxConsecutiveEmptyRounds
         /\ Len(Latest(s)) = Len(s) \/ Len(Latest(s)) = MaxConsecutiveEmptyRounds
         /\ \A i \in 1..Len(Latest(s)) :
              Latest(s)[i] = s[i + Len(s) - Len(Latest(s))]
<1>1. CASE Len(s) <= MaxConsecutiveEmptyRounds
  BY <1>1, LoopAssumption DEF Latest
<1>2. CASE Len(s) = MaxConsecutiveEmptyRounds + 1
  <2>1. /\ Tail(s) \in Seq(BOOLEAN) /\ Len(Tail(s)) = Len(s) - 1
        /\ \A i \in 1..Len(Tail(s)) : Tail(s)[i] = s[i + 1]
    BY <1>2, LoopAssumption
  <2>2. Latest(s) = Tail(s)  BY <1>2, LoopAssumption DEF Latest
  <2> QED BY <1>2, <2>1, <2>2, LoopAssumption
<1> QED BY <1>1, <1>2, LoopAssumption

(* A reply: the request is counted, and its comments with it. *)
LEMMA RequestInv ==
  ASSUME Inv, Request
  PROVE  /\ budget' \in 0..MaxToolRequestTimes /\ asked' \in Nat
         /\ asked' + budget' = MaxToolRequestTimes
         /\ pc = "ask" /\ ~err
<1> USE LoopAssumption DEF Inv, TypeOK, Request, LoopGuard, Spent, Counted, Seen
<1>1. pc = "ask" /\ ~err /\ asked + budget = MaxToolRequestTimes /\ budget > 0  OBVIOUS
<1>2. asked < MaxToolRequestTimes  BY <1>1
<1> QED BY <1>1, <1>2

LEMMA ReplyInv == Inv /\ (ReplyWithoutCalls \/ ReplyWithCalls) => Inv'
<1>1. ASSUME Inv, ReplyWithoutCalls  PROVE Inv'
  <2> USE <1>1, RequestInv, LoopAssumption DEF Inv, ReplyWithoutCalls
  <2>1. TypeOK'  BY DEF TypeOK
  <2>2. Counted'  BY DEF Counted
  <2>3. Seen' /\ GivenUp'  BY DEF Seen, GivenUp
  <2>4. Handed'  BY DEF Handed
  <2>5. EmptyRun'  BY DEF EmptyRun
  <2>6. StopsReported'
    BY DEF StopsReported, NoSilentDrop, UnfinishedIsReported,
         LimitWasReached, GivesUpAfterEmptyRun
  <2> QED BY <2>1, <2>2, <2>3, <2>4, <2>5, <2>6
<1>2. ASSUME Inv, ReplyWithCalls  PROVE Inv'
  <2> USE LoopAssumption
  <2>1. PICK n \in 1..MaxCallsPerReply : \E calls \in [1..n -> Call] :
           todo' = calls /\ received' = Cardinality(Comments(calls))
    BY <1>2 DEF ReplyWithCalls
  <2>2. todo' \in Seq(Call) /\ todo' # <<>> /\ received' = Cardinality(Comments(todo'))
    BY <2>1
  <2>3. received' \in Nat  BY <2>2, CommentsFinite
  <2>4. /\ pc' = "execute" /\ sawAnyToolCall' = TRUE /\ called' = TRUE
        /\ taskCompleted' = FALSE /\ hasValidResult' = FALSE /\ submitted' = 0
        /\ UNCHANGED <<empties, warnings, err, validity, tooLong>> /\ Request
    BY <1>2 DEF ReplyWithCalls
  <2>5. TypeOK'  BY <1>2, <2>2, <2>3, <2>4, RequestInv DEF Inv, TypeOK
  <2>6. Counted'  BY <1>2, <2>4, RequestInv DEF Counted
  <2>7. Seen' /\ GivenUp'  BY <1>2, <2>4, RequestInv DEF Inv, Seen, GivenUp
  <2>8. Handed'  BY <2>2, <2>3, <2>4 DEF Handed
  <2>9. EmptyRun'  BY <1>2, <2>4, RequestInv DEF Inv, EmptyRun
  <2>10. StopsReported'
    BY <1>2, <2>4 DEF Inv, StopsReported, NoSilentDrop, UnfinishedIsReported,
         LimitWasReached, GivesUpAfterEmptyRun
  <2> QED BY <2>5, <2>6, <2>7, <2>8, <2>9, <2>10 DEF Inv
<1> QED BY <1>1, <1>2

(* A conversation that ends in an error gives no warning of its own. *)
LEMMA ErrorInv == Inv /\ (Cancelled \/ RequestFails) => Inv'
<1> SUFFICES ASSUME Inv, Cancelled \/ RequestFails  PROVE Inv'  OBVIOUS
<1>1. /\ pc = "ask" /\ pc' = "returned" /\ err' = TRUE
      /\ budget' \in 0..MaxToolRequestTimes /\ asked' \in Nat
      /\ UNCHANGED <<empties, sawAnyToolCall, todo, taskCompleted, hasValidResult,
                     warnings, called, received, submitted, validity, tooLong>>
  BY RequestInv DEF Cancelled, RequestFails, LoopGuard, Inv, TypeOK, histVars
<1>2. TypeOK'  BY <1>1 DEF Inv, TypeOK
<1>3. Counted'  BY <1>1 DEF Counted
<1>4. Seen' /\ GivenUp'  BY <1>1 DEF Inv, Seen, GivenUp
<1>5. Handed'  BY <1>1 DEF Inv, Handed
<1>6. EmptyRun'  BY <1>1 DEF Inv, EmptyRun
<1>7. StopsReported'
  BY <1>1 DEF Inv, Seen, StopsReported, NoSilentDrop, UnfinishedIsReported,
         LimitWasReached, GivesUpAfterEmptyRun
<1> QED BY <1>2, <1>3, <1>4, <1>5, <1>6, <1>7 DEF Inv

(* A call: a comment moves from the calls to the pool. *)
LEMMA ExecuteInv == Inv /\ Execute => Inv'
<1> SUFFICES ASSUME Inv, Execute  PROVE Inv'  OBVIOUS
<1> DEFINE call == Head(todo)
<1>1. /\ pc = "execute" /\ todo # <<>> /\ todo \in Seq(Call) /\ todo' = Tail(todo)
      /\ pc' = IF Len(todo) = 1 THEN "decide" ELSE "execute"
      /\ taskCompleted' \in BOOLEAN /\ hasValidResult' \in BOOLEAN
      /\ submitted' = IF call = "code_comment" THEN submitted + 1 ELSE submitted
      /\ UNCHANGED <<budget, empties, sawAnyToolCall, warnings, err, asked, called, received,
                     validity, tooLong>>
  BY DEF Inv, TypeOK, Handed, Execute, AfterExecute
<1>2. /\ Tail(todo) \in Seq(Call) /\ Len(todo) \in Nat \ {0}
      /\ Len(todo) = 1 <=> Tail(todo) = <<>>
  BY <1>1, TailOfCalls
<1>3. submitted' + Cardinality(Comments(todo')) = received' /\ submitted' \in Nat
  <2>1. submitted + Cardinality(Comments(todo)) = received /\ submitted \in Nat
    BY <1>1 DEF Inv, TypeOK, Handed
  <2>2. Cardinality(Comments(todo)) = IF call = "code_comment"
                                        THEN Cardinality(Comments(Tail(todo))) + 1
                                        ELSE Cardinality(Comments(Tail(todo)))
    BY <1>1, CommentsOfTail
  <2>3. Cardinality(Comments(Tail(todo))) \in Nat  BY <1>2, CommentsFinite
  <2> QED BY <1>1, <2>1, <2>2, <2>3
<1>4. TypeOK'  BY <1>1, <1>2, <1>3 DEF Inv, TypeOK
<1>5. Counted'  BY <1>1 DEF Inv, Counted
<1>6. Seen' /\ GivenUp'  BY <1>1 DEF Inv, Seen, GivenUp
<1>7. Handed'
  <2>1. CASE Len(todo) = 1
    <3>1. Cardinality(Comments(todo')) = 0  BY <2>1, <1>1, <1>2, NoComments
    <3> QED BY <2>1, <3>1, <1>1, <1>3 DEF Handed
  <2>2. CASE Len(todo) # 1  BY <2>2, <1>1, <1>2, <1>3 DEF Handed
  <2> QED BY <2>1, <2>2
<1>8. EmptyRun'  BY <1>1 DEF Inv, EmptyRun
<1>9. StopsReported'
  BY <1>1 DEF Inv, StopsReported, NoSilentDrop, UnfinishedIsReported,
         LimitWasReached, GivesUpAfterEmptyRun
<1> QED BY <1>4, <1>5, <1>6, <1>7, <1>8, <1>9 DEF Inv

(* The decision: one more empty round, the count starts again, or the loop is
   over. *)
LEMMA DecideInv == Inv /\ Decide => Inv'
<1> SUFFICES ASSUME Inv, Decide  PROVE Inv'  OBVIOUS
<1> USE LoopAssumption
<1>1. /\ pc = "decide" /\ pc' \in {"append", "after"}
      /\ warnings' \subseteq warnings \cup {"no_valid_tool_results"}
      /\ UNCHANGED <<budget, sawAnyToolCall, todo, taskCompleted, hasValidResult, err,
                     asked, called, received, submitted, tooLong>>
  BY DEF Decide
<1>2. /\ empties \in Nat /\ empties < MaxConsecutiveEmptyRounds /\ hasValidResult \in BOOLEAN
      /\ validity \in Seq(BOOLEAN) /\ Len(validity) \in Nat
      /\ Len(validity) <= MaxConsecutiveEmptyRounds /\ empties <= Len(validity)
      /\ \A i \in 1..Len(validity) : i > Len(validity) - empties => validity[i] = FALSE
      /\ empties < Len(validity) => validity[Len(validity) - empties] = TRUE
      /\ "no_valid_tool_results" \notin warnings
  BY <1>1 DEF Inv, TypeOK, EmptyRun
<1>3. Counted'  BY <1>1 DEF Inv, Counted
<1>4. Seen'  BY <1>1 DEF Inv, Seen
<1>5. Handed'  BY <1>1 DEF Inv, Handed
<1>6. (NoSilentDrop /\ UnfinishedIsReported /\ LimitWasReached)'
  BY <1>1 DEF NoSilentDrop, UnfinishedIsReported, LimitWasReached
<1>7. CASE taskCompleted
  <2>1. pc' = "after" /\ UNCHANGED <<empties, warnings, validity>>  BY <1>7 DEF Decide
  <2>2. TypeOK'  BY <1>1, <2>1 DEF Inv, TypeOK
  <2>3. EmptyRun'  BY <1>2, <2>1 DEF EmptyRun
  <2>4. GivesUpAfterEmptyRun'
    BY <2>1 DEF Inv, StopsReported, GivesUpAfterEmptyRun
  <2>5. GivenUp'  BY <1>1, <1>7 DEF GivenUp
  <2> QED BY <1>3, <1>4, <1>5, <1>6, <2>2, <2>3, <2>4, <2>5 DEF Inv, StopsReported
<1>8. CASE ~taskCompleted
  <2> DEFINE grown == Append(validity, hasValidResult)
  <2>1. /\ empties' = (IF hasValidResult THEN 0 ELSE empties + 1)
        /\ validity' = Latest(grown)
        /\ IF ~hasValidResult /\ empties' >= MaxConsecutiveEmptyRounds
             THEN pc' = "after" /\ warnings' = warnings \cup {"no_valid_tool_results"}
             ELSE pc' = "append" /\ UNCHANGED warnings
    BY <1>8 DEF Decide, NextEmpties
  <2>2. /\ grown \in Seq(BOOLEAN) /\ Len(grown) = Len(validity) + 1
        /\ grown[Len(grown)] = hasValidResult
        /\ \A i \in 1..Len(validity) : grown[i] = validity[i]
    BY <1>2, AppendProperties
  <2>3. /\ validity' \in Seq(BOOLEAN)
        /\ Len(validity') \in Nat /\ Len(validity') <= MaxConsecutiveEmptyRounds
        /\ Len(validity') = Len(grown) \/ Len(validity') = MaxConsecutiveEmptyRounds
        /\ \A i \in 1..Len(validity') : validity'[i] = grown[i + Len(grown) - Len(validity')]
    <3>1. grown \in Seq(BOOLEAN) /\ Len(grown) <= MaxConsecutiveEmptyRounds + 1
      BY <1>2, <2>2
    <3> HIDE DEF grown
    <3>2. Latest(grown) \in Seq(BOOLEAN)  BY <3>1, LatestKeepsTheEnd
    <3>3. Len(Latest(grown)) \in Nat  BY <3>2, LenProperties
    <3> QED BY <3>1, <3>2, <3>3, <2>1, LatestKeepsTheEnd
  <2>4. empties' \in 0..MaxConsecutiveEmptyRounds /\ empties' <= Len(grown)
    BY <1>2, <2>1, <2>2
  <2>5. empties' <= Len(validity')  BY <2>3, <2>4
  <2>6. \A k \in 1..Len(grown) : k > Len(grown) - empties' => grown[k] = FALSE
    <3> SUFFICES ASSUME NEW k \in 1..Len(grown), k > Len(grown) - empties'
                 PROVE  grown[k] = FALSE
      OBVIOUS
    <3>1. ~hasValidResult /\ empties' = empties + 1
      <4>1. CASE hasValidResult  BY <4>1, <2>1, <2>2, <1>2
      <4> QED BY <4>1, <2>1
    <3>2. CASE k = Len(grown)
      <4>1. grown[k] = hasValidResult  BY <3>2, <2>2
      <4> QED BY <4>1, <3>1, <1>2
    <3>3. CASE k # Len(grown)
      <4>1. k \in 1..Len(validity) /\ k > Len(validity) - empties
        BY <3>1, <3>3, <2>2, <1>2
      <4> QED BY <4>1, <1>2, <2>2
    <3> QED BY <3>2, <3>3
  <2>7. \A i \in 1..Len(validity') : i > Len(validity') - empties' => validity'[i] = FALSE
    <3> SUFFICES ASSUME NEW i \in 1..Len(validity'), i > Len(validity') - empties'
                 PROVE  validity'[i] = FALSE
      OBVIOUS
    <3> DEFINE k == i + Len(grown) - Len(validity')
    <3>1. Len(validity') <= Len(grown)
      BY <1>2, <2>2, <2>3, <2>1 DEF Latest
    <3>2. k \in 1..Len(grown) /\ k > Len(grown) - empties'
      BY <1>2, <2>2, <2>3, <2>4, <3>1
    <3>3. grown[k] = FALSE  BY <2>6, <3>2
    <3> QED BY <3>3, <2>3
  <2>8. empties' < Len(validity') => validity'[Len(validity') - empties'] = TRUE
    <3> SUFFICES ASSUME empties' < Len(validity')
                 PROVE  validity'[Len(validity') - empties'] = TRUE
      OBVIOUS
    <3> DEFINE i == Len(validity') - empties'
    <3>1. i \in 1..Len(validity')  BY <2>3, <2>4
    <3>2. validity'[i] = grown[Len(grown) - empties']
      <4>1. i + Len(grown) - Len(validity') = Len(grown) - empties'
        BY <1>2, <2>2, <2>3, <2>4
      <4> QED BY <3>1, <2>3, <4>1
    <3>3. CASE hasValidResult
      <4>1. empties' = 0 /\ Len(grown) - empties' = Len(grown)  BY <3>3, <1>2, <2>1, <2>2
      <4> QED BY <3>2, <3>3, <4>1, <1>2, <2>2
    <3>4. CASE ~hasValidResult
      <4>1. Len(validity') <= Len(grown)
        BY <1>2, <2>2, <2>3, <2>1 DEF Latest
      <4>2. /\ empties' = empties + 1 /\ Len(grown) - empties' = Len(validity) - empties
            /\ empties < Len(validity) /\ Len(validity) - empties \in 1..Len(validity)
        BY <3>4, <4>1, <1>2, <2>1, <2>2, <2>3
      <4> QED BY <3>2, <4>2, <1>2, <2>2
    <3> QED BY <3>3, <3>4
  <2>9. TypeOK'  BY <1>1, <2>1, <2>3, <2>4 DEF Inv, TypeOK, Warnings
  <2>10. EmptyRun'
    <3>1. pc' \notin {"after", "returned"} =>
            empties' < MaxConsecutiveEmptyRounds /\ "no_valid_tool_results" \notin warnings'
      BY <1>2, <2>1, <2>4
    <3> QED BY <3>1, <2>3, <2>5, <2>7, <2>8 DEF EmptyRun
  <2>11. "no_valid_tool_results" \in warnings' <=> empties' = MaxConsecutiveEmptyRounds
    BY <1>2, <2>1, <2>4
  <2>12. GivesUpAfterEmptyRun'
    <3>1. CASE empties' = MaxConsecutiveEmptyRounds
      <4>1. Len(validity') = MaxConsecutiveEmptyRounds  BY <3>1, <2>3, <2>5
      <4>2. \A i \in 1..MaxConsecutiveEmptyRounds : validity'[i] = FALSE
        BY <3>1, <4>1, <2>7
      <4>3. validity' = [i \in 1..MaxConsecutiveEmptyRounds |-> FALSE]
        BY <4>1, <4>2, <2>3
      <4> QED BY <3>1, <4>3, <2>11 DEF GivesUpAfterEmptyRun
    <3>2. CASE empties' # MaxConsecutiveEmptyRounds
      <4>1. ASSUME validity' = [i \in 1..MaxConsecutiveEmptyRounds |-> FALSE]
            PROVE  FALSE
        <5>1. Len(validity') = MaxConsecutiveEmptyRounds  BY <4>1, <2>3
        <5> DEFINE M == MaxConsecutiveEmptyRounds
                   e == empties'
        <5>2. M \in Nat /\ e \in Nat /\ e < M
          BY <3>2, <2>4
        <5>3. e < M /\ M - e \in 1..M
          <6> HIDE DEF M, e
          <6> QED BY <5>2
        <5>4. validity'[MaxConsecutiveEmptyRounds - empties'] = TRUE
          BY <2>8, <5>1, <5>3
        <5> QED BY <4>1, <5>3, <5>4
      <4> QED BY <3>2, <4>1, <2>11 DEF GivesUpAfterEmptyRun
    <3> QED BY <3>1, <3>2
  <2>13. GivenUp'  BY <2>1 DEF GivenUp
  <2> QED BY <1>3, <1>4, <1>5, <1>6, <2>9, <2>10, <2>12, <2>13 DEF Inv, StopsReported
<1> QED BY <1>7, <1>8

(* The two other steps towards the end of the loop. *)
LEMMA GoOnInv == Inv /\ (AppendRound \/ LoopExhausted) => Inv'
<1> SUFFICES ASSUME Inv, AppendRound \/ LoopExhausted  PROVE Inv'  OBVIOUS
<1>1. /\ \/ pc = "append" /\ pc' \in {"ask", "after"}
         \/ pc = "ask" /\ budget = 0 /\ pc' = "after"
      /\ pc = "append" /\ pc' = "after" => tooLong'
      /\ tooLong' \in BOOLEAN
      /\ UNCHANGED <<budget, empties, sawAnyToolCall, todo, taskCompleted, hasValidResult,
                     warnings, err, asked, called, received, submitted, validity>>
  BY DEF Inv, TypeOK, AppendRound, LoopExhausted, histVars
<1>2. TypeOK'  BY <1>1 DEF Inv, TypeOK
<1>3. Counted'  BY <1>1 DEF Inv, Counted
<1>4. Seen' /\ GivenUp'  BY <1>1 DEF Inv, Seen, GivenUp
<1>5. Handed'  BY <1>1 DEF Inv, Handed
<1>6. EmptyRun'  BY <1>1 DEF Inv, EmptyRun
<1>7. StopsReported'
  BY <1>1 DEF Inv, StopsReported, NoSilentDrop, UnfinishedIsReported,
         LimitWasReached, GivesUpAfterEmptyRun
<1> QED BY <1>2, <1>3, <1>4, <1>5, <1>6, <1>7 DEF Inv

(* The warnings after the loop. *)
LEMMA ReturnInv == Inv /\ Return => Inv'
<1> SUFFICES ASSUME Inv, Return  PROVE Inv'  OBVIOUS
<1>1. /\ pc = "after" /\ pc' = "returned" /\ ~err
      /\ warnings' = IF budget > 0 THEN warnings
                     ELSE warnings \cup IF sawAnyToolCall THEN {"incomplete_review"}
                                                          ELSE {"no_tool_calls"}
      /\ UNCHANGED <<budget, empties, sawAnyToolCall, todo, taskCompleted, hasValidResult,
                     err, asked, called, received, submitted, validity, tooLong>>
  BY DEF Inv, TypeOK, Seen, Return, BudgetSpent, histVars
<1>2. /\ called = sawAnyToolCall /\ (budget > 0 => sawAnyToolCall)
      /\ "no_tool_calls" \notin warnings /\ asked + budget = MaxToolRequestTimes
      /\ budget \in Nat /\ asked \in Nat /\ "incomplete_review" \notin warnings
      /\ budget > 0 => taskCompleted \/ tooLong \/ "no_valid_tool_results" \in warnings
  BY <1>1 DEF Inv, TypeOK, Seen, Counted, GivenUp
<1>3. TypeOK'  BY <1>1 DEF Inv, TypeOK, Warnings
<1>4. Counted'  BY <1>1 DEF Inv, Counted
<1>5. Seen' /\ GivenUp'
  <2>1. CASE budget > 0  BY <2>1, <1>1, <1>2 DEF Seen, GivenUp
  <2>2. CASE ~(budget > 0)  BY <2>2, <1>1, <1>2 DEF Seen, GivenUp
  <2> QED BY <2>1, <2>2
<1>6. Handed'  BY <1>1 DEF Inv, Handed
<1>7. EmptyRun'  BY <1>1 DEF Inv, EmptyRun
<1>8. NoSilentDrop'
  <2>1. CASE budget > 0  BY <2>1, <1>1, <1>2 DEF NoSilentDrop
  <2>2. CASE ~(budget > 0)  BY <2>2, <1>1, <1>2 DEF NoSilentDrop
  <2> QED BY <2>1, <2>2
<1>9. (UnfinishedIsReported /\ LimitWasReached)'
  <2>1. CASE budget > 0  BY <2>1, <1>1, <1>2 DEF UnfinishedIsReported, LimitWasReached
  <2>2. CASE ~(budget > 0)
    <3>1. budget = 0 /\ asked = MaxToolRequestTimes
      BY <2>2, <1>2, LoopAssumption
    <3> QED BY <2>2, <3>1, <1>1, <1>2 DEF UnfinishedIsReported, LimitWasReached
  <2> QED BY <2>1, <2>2
<1>10. GivesUpAfterEmptyRun'
  BY <1>1 DEF Inv, StopsReported, GivesUpAfterEmptyRun
<1> QED BY <1>3, <1>4, <1>5, <1>6, <1>7, <1>8, <1>9, <1>10 DEF Inv, StopsReported

LEMMA StutterInv == Inv /\ UNCHANGED vars => Inv'
<1> SUFFICES ASSUME Inv, UNCHANGED vars  PROVE Inv'  OBVIOUS
<1> USE DEF Inv, vars, loopVars, histVars
<1>1. TypeOK'  BY DEF TypeOK
<1>2. (Counted /\ Seen /\ GivenUp /\ Handed)'  BY DEF Counted, Seen, GivenUp, Handed
<1>3. EmptyRun'  BY DEF EmptyRun
<1>4. StopsReported'
  BY DEF StopsReported, NoSilentDrop, UnfinishedIsReported,
         LimitWasReached, GivesUpAfterEmptyRun
<1> QED BY <1>1, <1>2, <1>3, <1>4

LEMMA NextInv == Inv /\ [Next]_vars => Inv'
<1> SUFFICES ASSUME Inv, [Next]_vars  PROVE Inv'  OBVIOUS
<1>1. CASE Cancelled \/ RequestFails  BY <1>1, ErrorInv
<1>2. CASE ReplyWithoutCalls \/ ReplyWithCalls  BY <1>2, ReplyInv
<1>3. CASE Execute  BY <1>3, ExecuteInv
<1>4. CASE Decide  BY <1>4, DecideInv
<1>5. CASE AppendRound \/ LoopExhausted  BY <1>5, GoOnInv
<1>6. CASE Return  BY <1>6, ReturnInv
<1>7. CASE Stopped \/ UNCHANGED vars  BY <1>7, StutterInv DEF Stopped
<1> QED BY <1>1, <1>2, <1>3, <1>4, <1>5, <1>6, <1>7 DEF Next

(* Every reachable state of performLlmCodeReview satisfies the invariant. *)
THEOREM LoopInvariant == Spec => []Inv
<1> QED BY InitInv, NextInv, PTL DEF Spec

-------------------------------------------------------------------------------
(* TypeOK: the loop's variables keep their types, and the request budget of
   performLlmCodeReview is never overspent. *)
THEOREM TypeCorrect == Spec => []TypeOK
<1>1. Inv => TypeOK  BY DEF Inv
<1> QED BY <1>1, LoopInvariant, PTL

(* EveryCommentSubmitted: each usable code_comment call of a reply is handed to
   the pool, wherever in the reply it is and however the loop ends. *)
THEOREM CommentsCorrect == Spec => []EveryCommentSubmitted
<1>1. Inv => EveryCommentSubmitted  BY DEF Inv, Handed, EveryCommentSubmitted
<1> QED BY <1>1, LoopInvariant, PTL

(* StopsReported: a finished review in which no reply had a call says so; one that
   ended without task_done has a warning, unless its conversation stayed too long;
   the limit's warning is given only when every request was sent (with task_done in
   the last one or without); and the loop gives up exactly after a run of empty
   rounds. *)
THEOREM StopsCorrect == Spec => []StopsReported
<1>1. Inv => StopsReported  BY DEF Inv
<1> QED BY <1>1, LoopInvariant, PTL
================================================================================
