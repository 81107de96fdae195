------------------------------- MODULE ToolLoop -------------------------------
(***************************************************************************)
(* The review loop of one file: performLlmCodeReview and executeToolCall   *)
(* of internal/agent/agent.go. The model is asked up to                    *)
(* MaxToolRequestTimes times; each reply is no tool call, or a sequence of *)
(* calls that are all executed before the loop decides whether to go on.   *)
(*                                                                         *)
(* What addNextMessage does to the conversation is MemoryCompression's; it *)
(* appears here as its two results.                                        *)
(***************************************************************************)
EXTENDS Naturals, Sequences, FiniteSets

CONSTANTS
  MaxToolRequestTimes,        \* template setting, positive (template.Validate)
  MaxConsecutiveEmptyRounds,  \* 3 in the code
  MaxCallsPerReply            \* bound: tool calls in one reply

ASSUME LoopAssumption ==
  /\ MaxToolRequestTimes \in Nat \ {0}
  /\ MaxConsecutiveEmptyRounds \in Nat \ {0}
  /\ MaxCallsPerReply \in Nat \ {0}

(* A call of the reply: the end signal, a comment, a call the agent refuses
   (unknown tool, unregistered tool, unreadable arguments) or another tool. *)
Call == {"task_done", "code_comment", "refused", "tool"}

(* Where the usable comments of a reply are among its calls. *)
Comments(calls) == {i \in DOMAIN calls : calls[i] = "code_comment"}

Warnings == {"no_tool_calls", "incomplete_review", "no_valid_tool_results"}

VARIABLES
  pc,         \* "ask", "execute", "decide", "append", "after", "returned"
  budget,     \* toolReqCount
  empties,    \* consecutiveEmptyRounds
  sawAnyToolCall,
  todo,       \* calls of the reply not executed yet
  taskCompleted,
  hasValidResult,
  warnings,   \* types recorded for this file
  err,        \* performLlmCodeReview returned an error
  asked,      \* history: LLM requests sent, counted up to the limit
  called,     \* history: some reply held a tool call
  received,   \* history: usable code_comment calls in the last reply
  submitted,  \* history: those of them handed to the pool
  validity,   \* history: of the last replies with calls, had each a usable result?
  tooLong     \* history: addNextMessage gave up on the conversation

loopVars  == <<pc, budget, empties, sawAnyToolCall, todo, taskCompleted, hasValidResult>>
histVars  == <<asked, called, received, submitted, validity, tooLong>>
vars      == <<loopVars, warnings, err, histVars>>

Init ==
  /\ pc = "ask"
  /\ budget = MaxToolRequestTimes
  /\ empties = 0
  /\ sawAnyToolCall = FALSE
  /\ todo = <<>>
  /\ taskCompleted = FALSE
  /\ hasValidResult = FALSE
  /\ warnings = {}
  /\ err = FALSE
  /\ asked = 0
  /\ called = FALSE
  /\ received = 0
  /\ submitted = 0
  /\ validity = <<>>
  /\ tooLong = FALSE

(* for toolReqCount > 0 *)
LoopGuardOffByOne == pc = "ask" /\ budget >= 0  \* mutant
LoopGuard == pc = "ask" /\ budget > 0

RetriesAreFree == budget  \* mutant
Spent == budget - 1
Request ==
  /\ LoopGuard
  /\ budget' = Spent
  /\ asked' = IF asked < MaxToolRequestTimes THEN asked + 1 ELSE asked

(* The context is over before the request, or the request fails. *)
Cancelled ==
  /\ LoopGuard
  /\ pc' = "returned"
  /\ err' = TRUE
  /\ UNCHANGED <<budget, empties, sawAnyToolCall, todo, taskCompleted, hasValidResult,
                 warnings, histVars>>

RequestFails ==
  /\ Request
  /\ pc' = "returned"
  /\ err' = TRUE
  /\ UNCHANGED <<empties, sawAnyToolCall, todo, taskCompleted, hasValidResult,
                 warnings, called, received, submitted, validity, tooLong>>

(* No tool call in the reply: a reminder is appended and the loop goes on. *)
ReplyWithoutCallsMarksSeen ==  \* mutant: the flag is set before the length test
  /\ Request
  /\ sawAnyToolCall' = TRUE
  /\ UNCHANGED <<pc, empties, todo, taskCompleted, hasValidResult,
                 warnings, err, called, received, submitted, validity, tooLong>>
ReplyWithoutCalls ==
  /\ Request
  /\ UNCHANGED <<pc, empties, sawAnyToolCall, todo, taskCompleted, hasValidResult,
                 warnings, err, called, received, submitted, validity, tooLong>>

ReplyWithCalls ==
  /\ Request
  /\ \E n \in 1..MaxCallsPerReply : \E calls \in [1..n -> Call] :
       /\ todo' = calls
       /\ received' = Cardinality(Comments(calls))
  /\ pc' = "execute"
  /\ sawAnyToolCall' = TRUE
  /\ called' = TRUE
  /\ taskCompleted' = FALSE
  /\ hasValidResult' = FALSE
  /\ submitted' = 0
  /\ UNCHANGED <<empties, warnings, err, validity, tooLong>>

(* executeToolCall on the next call. Every refusal and every error is text
   for the model and so a usable result; only a tool that returns an empty
   text is not. *)
AfterExecuteStopsAtDone(call) ==  \* mutant: the loop over the calls breaks at task_done
  IF call = "task_done" \/ Len(todo) = 1 THEN "decide" ELSE "execute"
AfterExecute(call) == IF Len(todo) = 1 THEN "decide" ELSE "execute"

Execute ==
  /\ pc = "execute"
  /\ LET call == Head(todo) IN
       /\ pc' = AfterExecute(call)
       /\ taskCompleted' = (taskCompleted \/ call = "task_done")
       /\ submitted' = IF call = "code_comment" THEN submitted + 1 ELSE submitted
       /\ \/ /\ call \in {"code_comment", "refused", "tool"}
             /\ hasValidResult' = TRUE
          \/ /\ call \in {"task_done", "tool"}
             /\ UNCHANGED hasValidResult
  /\ todo' = Tail(todo)
  /\ UNCHANGED <<budget, empties, sawAnyToolCall, warnings, err, asked, called, received,
                 validity, tooLong>>

(* task_done ends the loop; so does the third reply in a row without a usable
   result, with a warning. *)
Latest(s) ==
  IF Len(s) <= MaxConsecutiveEmptyRounds THEN s ELSE Tail(s)

EmptiesNeverReset == IF hasValidResult THEN empties ELSE empties + 1  \* mutant
NextEmpties == IF hasValidResult THEN 0 ELSE empties + 1

Decide ==
  /\ pc = "decide"
  /\ IF taskCompleted
       THEN /\ pc' = "after"
            /\ UNCHANGED <<empties, warnings, validity>>
       ELSE /\ empties' = NextEmpties
            /\ validity' = Latest(Append(validity, hasValidResult))
            /\ IF ~hasValidResult /\ empties' >= MaxConsecutiveEmptyRounds
                 THEN /\ pc' = "after"
                      /\ warnings' = warnings \cup {"no_valid_tool_results"}
                 ELSE /\ pc' = "append"
                      /\ UNCHANGED warnings
  /\ UNCHANGED <<budget, sawAnyToolCall, todo, taskCompleted, hasValidResult, err,
                 asked, called, received, submitted, tooLong>>

(* addNextMessage: the loop goes on, or the conversation is still too long
   after compression and it stops. *)
AppendRound ==
  /\ pc = "append"
  /\ pc' \in {"ask", "after"}
  /\ tooLong' = (pc' = "after")
  /\ UNCHANGED <<budget, empties, sawAnyToolCall, todo, taskCompleted, hasValidResult,
                 warnings, err, asked, called, received, submitted, validity>>

LoopExhausted ==
  /\ pc = "ask"
  /\ budget = 0
  /\ pc' = "after"
  /\ UNCHANGED <<budget, empties, sawAnyToolCall, todo, taskCompleted, hasValidResult,
                 warnings, err, histVars>>

(* The warnings after the loop look at the remaining budget alone. *)
BudgetSpentStrictly == budget < 0  \* mutant
BudgetSpent == budget <= 0

Return ==
  /\ pc = "after"
  /\ pc' = "returned"
  /\ warnings' = IF ~BudgetSpent THEN warnings
                 ELSE warnings \cup IF sawAnyToolCall THEN {"incomplete_review"}
                                                      ELSE {"no_tool_calls"}
  /\ UNCHANGED <<budget, empties, sawAnyToolCall, todo, taskCompleted, hasValidResult,
                 err, histVars>>

Stopped == pc = "returned" /\ UNCHANGED vars

Next ==
  \/ Cancelled \/ RequestFails \/ ReplyWithoutCalls \/ ReplyWithCalls
  \/ Execute \/ Decide \/ AppendRound \/ LoopExhausted \/ Return
  \/ Stopped

Spec == Init /\ [][Next]_vars

(* The goroutine runs whenever it can; LLM and tool calls end. *)
FairSpec == Spec /\ WF_vars(Next)

------------------------------------------------------------------------------
(* Every variable has its type; the budget is never overspent. *)
TypeOK ==
  /\ pc \in {"ask", "execute", "decide", "append", "after", "returned"}
  /\ budget \in 0..MaxToolRequestTimes
  /\ empties \in 0..MaxConsecutiveEmptyRounds
  /\ sawAnyToolCall \in BOOLEAN /\ taskCompleted \in BOOLEAN /\ hasValidResult \in BOOLEAN
  /\ todo \in Seq(Call)
  /\ warnings \subseteq Warnings
  /\ err \in BOOLEAN /\ called \in BOOLEAN /\ tooLong \in BOOLEAN
  /\ asked \in Nat /\ received \in Nat /\ submitted \in Nat
  /\ validity \in Seq(BOOLEAN)

(* "the silent-drop failure mode. Surface it loudly" (agent.go:1033-1036): a
   review that ends without error says "no_tool_calls" exactly when no reply
   of the conversation held a tool call. *)
NoSilentDrop ==
  (pc = "returned" /\ ~err) => (called <=> "no_tool_calls" \notin warnings)

(* Every comment of a reply is handed to the pool, also one that comes after
   task_done in the same reply, however the loop then ends. *)
EveryCommentSubmitted ==
  pc \in {"append", "after", "returned"} => submitted = received

(* A review that ends without error and without task_done has left a warning,
   unless the loop gave up on a conversation that stayed too long: that stop
   (agent.go:1024-1027) leaves none when requests remain. *)
UnfinishedIsReported ==
  (pc = "returned" /\ ~err /\ ~taskCompleted /\ ~tooLong) => warnings # {}

(* "scanner hit the max tool-request limit" (agent.go:1041): incomplete_review is
   recorded only when every request was sent, and never next to no_tool_calls.
   The rest of its text, "without signaling task_done", is not part of the
   property: the code looks at the counter alone (agent.go:1030) and records it
   also when task_done came with the last request. *)
LimitWasReached ==
  (pc = "returned" /\ "incomplete_review" \in warnings) => called /\ asked = MaxToolRequestTimes

(* The loop gives up for want of usable results exactly when the last
   MaxConsecutiveEmptyRounds replies with calls all had none: a usable result
   in between starts the count again. *)
GivesUpAfterEmptyRun ==
  "no_valid_tool_results" \in warnings
    <=> validity = [i \in 1..MaxConsecutiveEmptyRounds |-> FALSE]

(* Which ends of a review leave which warning (agent.go:1010-1045): the four
   above together, with their exceptions. A review that ended early is silent
   only if its conversation stayed too long; a warning does not show that
   task_done was missing. *)
StopsReported ==
  NoSilentDrop /\ UnfinishedIsReported /\ LimitWasReached /\ GivesUpAfterEmptyRun

(* The loop ends, whatever the model answers. *)
LoopEnds == <>(pc = "returned")
=============================================================================
