-------------------------- MODULE MemoryCompression --------------------------
(***************************************************************************)
(* The memory of the review conversations of one Agent                     *)
(* (internal/agent/agent.go: addNextMessage, partitionMessages,            *)
(* runCompression and the background compression job), with the files'     *)
(* goroutines running concurrently and sharing the Agent's one pendingJob. *)
(*                                                                         *)
(* A conversation is kept as what the properties tell apart: whose two     *)
(* frozen head messages it has, the rounds its appended summaries stand    *)
(* for, and the entries after the head. An entry is a round (an assistant  *)
(* message with its tool results) or the reminder sent when a reply had no *)
(* tool call. Token counts are weights.                                    *)
(***************************************************************************)
EXTENDS Naturals, Sequences, FiniteSets, FiniteSetsExt

CONSTANTS
  Files,         \* the files under review
  MaxRounds,     \* bound: replies of one file's conversation
  Weights,       \* token weights a round can have
  HeadTokens,    \* weight of the two frozen messages
  ReminderTokens,\* weight of the reminder to call a tool
  SummaryTokens, \* weight one compression adds to the second of them
  SoftLimit,     \* 60% of MaxTokens
  WarnLimit      \* 80% of MaxTokens

ASSUME CompressionAssumption ==
  /\ Files # {}
  /\ MaxRounds \in Nat
  /\ Weights \subseteq Nat \ {0}
  /\ ReminderTokens \in Nat \ {0}
  /\ SummaryTokens \in Nat
  /\ SoftLimit \in Nat /\ WarnLimit \in Nat /\ SoftLimit < WarnLimit
  /\ HeadTokens \in 0..WarnLimit  \* executeSubtask skips a longer prompt

NoReply == [id |-> <<>>, kind |-> "none", w |-> 0]
NoConv  == [head |-> "none"]  \* of a job whose slice nothing refers to any more

RoundId == Files \X (1..MaxRounds)
Entry   == [id : RoundId, kind : {"round", "reminder"}, w : Weights \cup {ReminderTokens}]
Conv    == [head : Files, summed : SUBSET RoundId, sums : Nat, tail : Seq(Entry)]

VARIABLES
  pc,        \* pc[f]: where f's goroutine is in its loop and in addNextMessage
  round,     \* round[f]: replies received
  conv,      \* conv[f]: the messages slice of f's loop
  reply,     \* reply[f]: the round addNextMessage is adding
  jobs,      \* every compression job started, in order
  pending    \* a.pendingJob: an index of jobs, or None

vars == <<pc, round, conv, reply, jobs, pending>>

None == 0

------------------------------------------------------------------------------
(* Pure parts. *)

Tokens(c) ==
  HeadTokens + c.sums * SummaryTokens
    + MapThenSumSet(LAMBDA i : c.tail[i].w, DOMAIN c.tail)

(* groupIntoRounds: reminders belong to no round. *)
RoundsOf(s) == {i \in DOMAIN s : s[i].kind = "round"}

(* computeActiveZoneSize, called with nothing reserved: the trailing rounds
   that fit the warning limit together. *)
ActiveRounds(s) ==
  {i \in RoundsOf(s) :
     MapThenSumSet(LAMBDA j : s[j].w, {j \in RoundsOf(s) : j >= i}) <= WarnLimit}

(* partitionMessages: how many entries after the head are compressed. When
   every round fits, all of them are. *)
CompressEnd(s) ==
  LET old == RoundsOf(s) \ ActiveRounds(s)
  IN  IF old = {} THEN Len(s) ELSE Max(old)

(* runCompression's three results: nothing to do; the rebuilt slice; and,
   after an LLM error or an empty summary, the frozen messages alone. *)
RebuiltOverlaps(c) ==  \* mutant: the copy of the active zone starts one early
  LET end == CompressEnd(c.tail)
  IN  [c EXCEPT !.summed = @ \cup {c.tail[i].id : i \in 1..end},
                !.sums = @ + 1,
                !.tail = SubSeq(@, end, Len(@))]
Rebuilt(c) ==
  LET end == CompressEnd(c.tail)
  IN  [c EXCEPT !.summed = @ \cup {c.tail[i].id : i \in 1..end},
                !.sums = @ + 1,
                !.tail = SubSeq(@, end + 1, Len(@))]
HeadOnly(c) == [c EXCEPT !.tail = <<>>]

RunCompression(c) ==
  IF c.tail = <<>> THEN {c} ELSE {Rebuilt(c), HeadOnly(c)}

------------------------------------------------------------------------------
Init ==
  /\ pc = [f \in Files |-> "call"]
  /\ round = [f \in Files |-> 0]
  /\ conv = [f \in Files |-> [head |-> f, summed |-> {}, sums |-> 0, tail |-> <<>>]]
  /\ reply = [f \in Files |-> NoReply]
  /\ jobs = <<>>
  /\ pending = None

Move(f, from, to) == pc[f] = from /\ pc' = [pc EXCEPT ![f] = to]

(* The loop asks the model at most MaxToolRequestTimes times. *)
BudgetLeftOffByOne(f) == round[f] <= MaxRounds  \* mutant
BudgetLeft(f) == round[f] < MaxRounds

(* The main-task LLM call returns tool calls, whose results make the round. *)
Respond(f) ==
  /\ Move(f, "call", "apply")
  /\ BudgetLeft(f)
  /\ round' = [round EXCEPT ![f] = @ + 1]
  /\ \E w \in Weights :
       reply' = [reply EXCEPT ![f] = [id |-> <<f, round[f] + 1>>, kind |-> "round", w |-> w]]
  /\ UNCHANGED <<conv, jobs, pending>>

(* It returns none: the text, if any, and a reminder are appended, with no
   look at the limits. *)
Remind(f) ==
  /\ Move(f, "call", "call")
  /\ BudgetLeft(f)
  /\ round' = [round EXCEPT ![f] = @ + 1]
  /\ LET entry(k, w) == [id |-> <<f, round[f] + 1>>, kind |-> k, w |-> w]
     IN \E text \in {<<>>} \cup {<<entry("round", w)>> : w \in Weights} :
          conv' = [conv EXCEPT ![f].tail = @ \o text \o <<entry("reminder", ReminderTokens)>>]
  /\ UNCHANGED <<reply, jobs, pending>>

(* task_done, an LLM error, the timeout or the round budget ends the loop. A
   job the file started stays pending. *)
LoopOver(f) ==
  /\ Move(f, "call", "done")
  /\ UNCHANGED <<round, conv, reply, jobs, pending>>

(* tryApplyPendingCompression: its second look at pendingJob under the lock
   makes it one step. The hard threshold is then measured on the result. *)
ClosedJobPending == pending # None /\ jobs[pending].state = "closed"
MeasureNext(c) == IF Tokens(c) > WarnLimit THEN "hard" ELSE "soft"

TryApplyKeepsPending(f) ==  \* mutant: pendingJob is not cleared
  /\ IF ClosedJobPending
       THEN /\ conv' = [conv EXCEPT ![f] = jobs[pending].conv]
            /\ jobs' = [jobs EXCEPT ![pending].uses = @ + 1]
       ELSE UNCHANGED <<conv, jobs>>
  /\ Move(f, "apply", MeasureNext(conv'[f]))
  /\ UNCHANGED <<round, reply, pending>>
TryApply(f) ==
  /\ IF ClosedJobPending
       THEN /\ conv' = [conv EXCEPT ![f] = jobs[pending].conv]
            /\ jobs' = [jobs EXCEPT ![pending].uses = @ + 1, ![pending].conv = NoConv]
            /\ pending' = None
       ELSE UNCHANGED <<conv, jobs, pending>>
  /\ Move(f, "apply", MeasureNext(conv'[f]))
  /\ UNCHANGED <<round, reply>>

(* A job leaves the pendingJob slot unused, cancelled or replaced. A finished
   one is garbage then; a running one is still to find out. *)
Retired(j) ==
  IF j = None THEN jobs
  ELSE IF jobs[j].state = "closed"
    THEN [jobs EXCEPT ![j] = [@ EXCEPT !.retired = TRUE, !.conv = NoConv]]
    ELSE [jobs EXCEPT ![j].retired = TRUE]

(* cancelPendingCompression *)
CancelContextOnly == jobs' = Retired(pending) /\ UNCHANGED pending  \* mutant: stays pending
CancelPending     == jobs' = Retired(pending) /\ pending' = None

(* The hard threshold, before the round is added. *)
CancelFirst(f) ==
  /\ Move(f, "hard", "compressing")
  /\ CancelPending
  /\ UNCHANGED <<round, conv, reply>>

CompressFirst(f) ==
  /\ Move(f, "compressing", "soft")
  /\ \E c \in RunCompression(conv[f]) : conv' = [conv EXCEPT ![f] = c]
  /\ UNCHANGED <<round, reply, jobs, pending>>

(* The soft threshold. pendingJob is read without the lock here and written
   under it in Trigger: another file's goroutine may set it in between. *)
Soft(f) ==
  /\ \/ /\ Tokens(conv[f]) > SoftLimit /\ pending = None
        /\ Move(f, "soft", "trigger")
     \/ /\ ~(Tokens(conv[f]) > SoftLimit /\ pending = None)
        /\ Move(f, "soft", "append")
  /\ UNCHANGED <<round, conv, reply, jobs, pending>>

(* triggerAsyncCompression: the snapshot is the conversation before the
   round is added. *)
Trigger(f) ==
  /\ Move(f, "trigger", "append")
  /\ jobs' = Append(Retired(pending), [conv |-> conv[f], state |-> "running",
                                       retired |-> FALSE, uses |-> 0])
  /\ pending' = Len(jobs) + 1
  /\ UNCHANGED <<round, conv, reply>>

(* The round is added; over the hard threshold there is one more, synchronous,
   compression, and still at it the loop stops. *)
After(c) == IF Tokens(c) < WarnLimit THEN "call" ELSE "done"

AppendRound(f) ==
  LET c == [conv[f] EXCEPT !.tail = Append(@, reply[f])]
  IN  /\ conv' = [conv EXCEPT ![f] = c]
      /\ reply' = [reply EXCEPT ![f] = NoReply]
      /\ \/ /\ Tokens(c) > WarnLimit
            /\ Move(f, "append", "final")
         \/ /\ Tokens(c) <= WarnLimit
            /\ Move(f, "append", After(c))
      /\ UNCHANGED <<round, jobs, pending>>

CancelLast(f) ==
  /\ Move(f, "final", "recompressing")
  /\ CancelPending
  /\ UNCHANGED <<round, conv, reply>>

CompressLast(f) ==
  /\ \E c \in RunCompression(conv[f]) :
       /\ conv' = [conv EXCEPT ![f] = c]
       /\ Move(f, "recompressing", After(c))
  /\ UNCHANGED <<round, reply, jobs, pending>>

(* The background goroutine: runCompression on the snapshot ends, and the
   result is kept only if this job is still the pending one. *)
JobEnds(j) ==
  /\ jobs[j].state = "running"
  /\ \/ /\ pending = j
        /\ \E c \in RunCompression(jobs[j].conv) :
             jobs' = [jobs EXCEPT ![j].state = "closed", ![j].conv = c]
     \/ /\ pending # j
        /\ jobs' = [jobs EXCEPT ![j].state = "closed", ![j].conv = NoConv]
  /\ UNCHANGED <<pc, round, conv, reply, pending>>

FileStep(f) ==
  \/ Respond(f) \/ Remind(f) \/ LoopOver(f) \/ TryApply(f) \/ CancelFirst(f)
  \/ CompressFirst(f) \/ Soft(f) \/ Trigger(f) \/ AppendRound(f)
  \/ CancelLast(f) \/ CompressLast(f)

Stopped ==
  /\ \A f \in Files : pc[f] = "done"
  /\ \A j \in DOMAIN jobs : jobs[j].state # "running"
  /\ UNCHANGED vars

Next ==
  \/ \E f \in Files : FileStep(f)
  \/ \E j \in DOMAIN jobs : JobEnds(j)
  \/ Stopped

Spec == Init /\ [][Next]_vars

------------------------------------------------------------------------------
(* Every variable has its type; the pending job is one that was started. *)
TypeOK ==
  /\ pc \in [Files -> {"call", "apply", "hard", "compressing", "soft", "trigger",
                       "append", "final", "recompressing", "done"}]
  /\ round \in [Files -> 0..MaxRounds]
  /\ conv \in [Files -> Conv]
  /\ reply \in [Files -> Entry \cup {NoReply}]
  /\ jobs \in Seq([conv : Conv \cup {NoConv}, state : {"running", "closed"},
                   retired : BOOLEAN, uses : Nat])
  /\ pending \in 0..Len(jobs)

(* The result of a background compression replaces one conversation, once,
   although every file's goroutine looks for it; and a job that left the slot
   unused, because a synchronous compression cancelled it or another file's job
   replaced it, never replaces a conversation later: its snapshot is older than
   what happened since (tryApplyPendingCompression, cancelPendingCompression,
   and the check at the end of the job). *)
JobUsedInTime ==
  [][/\ \A j \in DOMAIN jobs' : jobs'[j].uses <= 1
     /\ \A j \in DOMAIN jobs : jobs[j].retired => jobs'[j].uses = jobs[j].uses]_vars

(* The rounds a file's conversation shows to the model, word for word or in a
   summary. *)
Shown(c) == {c.tail[i].id : i \in RoundsOf(c.tail)} \cup c.summed

NoRoundTwice(c) ==
  /\ \A i, j \in RoundsOf(c.tail) : c.tail[i].id = c.tail[j].id => i = j
  /\ \A i \in RoundsOf(c.tail) : c.tail[i].id \notin c.summed

(* Whichever of the snapshot, rebuild, cancel and append steps came first, a
   round is never both summarised and still in the conversation, and never in
   it twice (partitionMessages' zones do not overlap); and a round the
   conversation shows goes away in two ways only: a synchronous compression
   that failed leaves the frozen messages alone (agent.go:1368), or the slice of
   a finished job, built from an older snapshot, takes the place of the
   conversation (agent.go:1441). *)
RoundsAccounted ==
  [][\A f \in Files :
       /\ NoRoundTwice(conv'[f])
       /\ ~(Shown(conv[f]) \subseteq Shown(conv'[f]))
            => \/ pc[f] \in {"compressing", "recompressing"} /\ conv'[f] = HeadOnly(conv[f])
               \/ pc[f] = "apply" /\ ClosedJobPending /\ conv'[f] = jobs[pending].conv]_vars

(* "Each bundle runs as a sub-agent with isolated context" (README.md:64): a
   file's conversation is about that file and holds only its rounds. *)
IsolatedContext ==
  \A f \in Files :
    /\ conv[f].head = f
    /\ \A i \in DOMAIN conv[f].tail : conv[f].tail[i].id[1] = f
    /\ \A r \in conv[f].summed : r[1] = f
=============================================================================
