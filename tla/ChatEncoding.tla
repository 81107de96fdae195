----------------------------- MODULE ChatEncoding -----------------------------
(***************************************************************************)
(* The messages a conversation of MemoryCompression stands for, and what   *)
(* the LLM clients send of them (internal/llm/client.go and                *)
(* bedrock_client.go). The providers refuse a request in which a tool call *)
(* is not followed at once by the results of all calls of its message, so  *)
(* whatever the loop, the compressions and the buffering of results do, the*)
(* calls and the results must stay together.                               *)
(*                                                                         *)
(* A message keeps its role, the tool calls it makes or answers, and its   *)
(* weight. The texts are left out.                                         *)
(***************************************************************************)
EXTENDS MemoryCompression, SequencesExt

CONSTANT CallsPerReply  \* tool calls of a reply that has some

ASSUME EncodingAssumption == CallsPerReply \in Nat \ {0}

------------------------------------------------------------------------------
(* The messages of the loop. *)

NewTextMessage(role, w)     == [role |-> role, ids |-> <<>>, w |-> w]
NewToolCallMessage(ids, w)  == [role |-> "assistant", ids |-> ids, w |-> w]
NewToolResultMessage(id)    == [role |-> "tool", ids |-> <<id>>, w |-> 0]

(* A reply without tool calls is a round whose reminder follows it. *)
TextOnly(t, i) == i < Len(t) /\ t[i + 1].kind = "reminder" /\ t[i + 1].id = t[i].id

Exchange(id, w) ==
  LET ids == [k \in 1..CallsPerReply |-> <<id, k>>]
  IN  <<NewToolCallMessage(ids, w)>> \o [k \in DOMAIN ids |-> NewToolResultMessage(ids[k])]

MessagesOf(t, i) ==
  CASE t[i].kind = "reminder" -> <<NewTextMessage("user", t[i].w)>>
    [] t[i].kind = "round" /\ TextOnly(t, i) -> <<NewTextMessage("assistant", t[i].w)>>
    [] t[i].kind = "round" /\ ~TextOnly(t, i) -> Exchange(t[i].id, t[i].w)

Frozen == <<NewTextMessage("system", 0), NewTextMessage("user", 0)>>

Messages(t) == Frozen \o FlattenSeq([i \in DOMAIN t |-> MessagesOf(t, i)])

------------------------------------------------------------------------------
(* The zones of partitionMessages, on the messages themselves. *)

(* groupIntoRounds: an assistant message and the tool messages right after it. *)
Assistants(ms) == {i \in 3..Len(ms) : ms[i].role = "assistant"}
RoundEnd(ms, i) ==
  Max({j \in i..Len(ms) : \A k \in (i + 1)..j : ms[k].role = "tool"})
GroupIntoRounds(ms) == {[first |-> i, last |-> RoundEnd(ms, i)] : i \in Assistants(ms)}

RoundTokens(ms, r) == MapThenSumSet(LAMBDA i : ms[i].w, r.first..r.last)

ComputeActiveZone(ms) ==
  LET rounds == GroupIntoRounds(ms)
  IN  {r \in rounds :
         MapThenSumSet(LAMBDA q : RoundTokens(ms, q),
                       {q \in rounds : q.first >= r.first}) <= WarnLimit}

PartitionBeforeResults(ms) ==  \* mutant: the cut is after the assistant message
  LET old == GroupIntoRounds(ms) \ ComputeActiveZone(ms)
  IN  IF old = {} THEN Len(ms) ELSE Max({r.first : r \in old})
PartitionMessages(ms) ==
  LET old == GroupIntoRounds(ms) \ ComputeActiveZone(ms)
  IN  IF old = {} THEN Len(ms) ELSE Max({r.last : r \in old})

------------------------------------------------------------------------------
(* The request. Anthropic, directly and on Bedrock, wants the results of one
   assistant turn in one user turn: they are buffered until a message of
   another role comes. System messages go elsewhere in the request. *)
NothingSent == [turns |-> <<>>, pendingToolResults |-> <<>>]

FlushEachAlone(s) ==  \* mutant: one user turn per result
  [turns |-> s.turns \o [k \in DOMAIN s.pendingToolResults |->
                           [role |-> "user", ids |-> <<s.pendingToolResults[k]>>]],
   pendingToolResults |-> <<>>]
FlushToolResults(s) ==
  IF s.pendingToolResults = <<>> THEN s
  ELSE [turns |-> Append(s.turns, [role |-> "user", ids |-> s.pendingToolResults]),
        pendingToolResults |-> <<>>]

AddMessage(s, m) ==
  CASE m.role = "tool"   -> [s EXCEPT !.pendingToolResults = @ \o m.ids]
    [] m.role = "system" -> FlushToolResults(s)
    [] OTHER -> [FlushToolResults(s) EXCEPT !.turns = Append(@, [role |-> m.role, ids |-> m.ids])]

BuildAnthropicParams(ms) == FlushToolResults(FoldLeft(AddMessage, NothingSent, ms)).turns

(* OpenAI takes the messages one for one, the results as tool messages. *)
BuildOpenAIParams(ms) == [i \in DOMAIN ms |-> [role |-> ms[i].role, ids |-> ms[i].ids]]

------------------------------------------------------------------------------
Answered(turn, next) == next = [role |-> "user", ids |-> turn.ids]

(* What Anthropic accepts: the user turn after an assistant turn with calls
   answers exactly those, and no other turn answers anything. *)
AnthropicAccepts(turns) ==
  \A i \in DOMAIN turns :
    /\ turns[i].role = "assistant" /\ turns[i].ids # <<>>
         => i < Len(turns) /\ Answered(turns[i], turns[i + 1])
    /\ turns[i].role = "user" /\ turns[i].ids # <<>>
         => i > 1 /\ turns[i - 1].role = "assistant" /\ Answered(turns[i - 1], turns[i])

(* What OpenAI accepts: the tool messages after an assistant message answer
   its calls, all of them, and there are no others. *)
OpenAIAccepts(ms) ==
  \A i \in DOMAIN ms :
    /\ ms[i].role = "assistant"
         => \A k \in DOMAIN ms[i].ids :
              i + k \in DOMAIN ms /\ ms[i + k] = [role |-> "tool", ids |-> <<ms[i].ids[k]>>]
    /\ ms[i].role = "tool"
         => \E j \in 1..(i - 1) : ms[j].role = "assistant" /\ ms[i].ids[1] \in Range(ms[j].ids)

(* At any moment, and whatever compressions came before, the request built
   from a conversation is one the providers accept, and so is the one a
   compression would leave: it cuts between a round and the next, never
   between calls and their results, and where MemoryCompression says
   (partitionMessages, agent.go:1285-1316; buildBedrockBody,
   bedrock_client.go:128-134). *)
TurnsPaired ==
  \A f \in Files :
    LET t    == conv[f].tail
        ms   == Messages(t)
        left == Frozen \o SubSeq(ms, PartitionMessages(ms) + 1, Len(ms))
    IN  /\ left = Messages(SubSeq(t, CompressEnd(t) + 1, Len(t)))
        /\ \A sent \in {ms, left} : /\ AnthropicAccepts(BuildAnthropicParams(sent))
                                    /\ OpenAIAccepts(BuildOpenAIParams(sent))
=============================================================================
