------------------------------ MODULE ReviewRun ------------------------------
(***************************************************************************)
(* One review run of internal/agent/agent.go: Run, dispatchSubtasks, the   *)
(* per-file goroutines (executeSubtask), the shared CommentWorkerPool the  *)
(* code_comment calls are submitted to, the CommentCollector its tasks     *)
(* append to, and the review filter that removes comments by position.     *)
(*                                                                         *)
(* The per-file LLM loop is abstracted to what the rest of the run sees of *)
(* it: it submits up to MaxCalls code_comment calls and then completes or  *)
(* fails (module ToolLoop has its rounds).                                 *)
(*                                                                         *)
(* The collector is kept per path: every operation but Comments() works on *)
(* one path, and the order between paths is never looked at.               *)
(***************************************************************************)
EXTENDS Naturals, Sequences, FiniteSets, Functions, Positions

CONSTANTS
  NumDiffs,        \* number of parsed diffs
  MaxConcurrency,  \* size of dispatchSubtasks' semaphore
  PoolSize,        \* size of the CommentWorkerPool's semaphore
  MaxCalls,        \* bound: code_comment calls of one file's conversation
  MaxBatch,        \* bound: comments in one code_comment call
  OtherPaths       \* paths a model may comment on that are no diff of the run

ASSUME RunAssumption ==
  /\ NumDiffs \in Nat
  /\ MaxConcurrency \in Nat \ {0}
  /\ PoolSize \in Nat \ {0}
  /\ MaxCalls \in Nat
  /\ MaxBatch \in Nat

Diffs   == 1..NumDiffs
Main    == 0                       \* the goroutine that runs Run
Task    == Diffs \X (1..MaxCalls)  \* <<d, k>>: the k-th code_comment call made for d
Path    == Diffs \cup OtherPaths
Comment == [task : Task, pos : 1..MaxBatch, path : Path]

VARIABLES
  kind,        \* kind[d]: what the path and size filters find about diff d
  phase,       \* where Run is
  cursor,      \* dispatchSubtasks' loop index
  pc,          \* pc[d]: where d's goroutine is
  outcome,     \* outcome[d]: how executeSubtask ended, "none" before
  slots,       \* tokens in dispatchSubtasks' semaphore channel
  wg,          \* dispatchSubtasks' WaitGroup
  dispatched,  \* goroutines started
  failed,      \* a.subtaskFailed
  calls,       \* calls[d]: code_comment calls submitted for d
  taskPc,      \* taskPc[t]: "none", "queued", "running" or "done"
  rest,        \* rest[t]: comments of call t not yet in the collector
  poolCount,   \* the pool WaitGroup's counter
  waiters,     \* goroutines blocked in the pool's Wait
  woken,       \* goroutines Wait released that have not run yet
  poolSlots,   \* tokens in the pool's semaphore channel
  collector,   \* collector[p]: comments for path p, in insertion order
  snap,        \* snap[d]: the comments d's review filter was asked about
  found,       \* history: comments of every submitted call
  removed,     \* history: comments removed by a review filter
  result,      \* what Run returned
  panicked     \* the Go runtime aborted the process

runVars  == <<kind, phase, cursor, slots, wg, dispatched, failed, result>>
fileVars == <<pc, outcome, calls, snap>>
poolVars == <<taskPc, rest, poolCount, poolSlots, collector>>
waitVars == <<waiters, woken, panicked>>
histVars == <<found, removed>>
vars     == <<runVars, fileVars, poolVars, waitVars, histVars>>

Promise == INSTANCE ReviewPromise
  WITH verdict <- [d \in Diffs |-> IF kind[d] # "review" THEN "excluded"
                                   ELSE IF outcome[d] = "none" THEN "pending"
                                   ELSE outcome[d]],
       dropped <- removed,
       answer  <- result

Pending == {t \in Task : taskPc[t] \in {"queued", "running"}}
Active  == {d \in Diffs : pc[d] \notin {"idle", "done"}}
Collected == UNION {Range(collector[p]) : p \in Path}

Init ==
  /\ kind \in [Diffs -> {"review", "deleted", "unsupported", "large"}]
  /\ phase = "load"
  /\ cursor = 1
  /\ pc = [d \in Diffs |-> "idle"]
  /\ outcome = [d \in Diffs |-> "none"]
  /\ slots = 0
  /\ wg = 0
  /\ dispatched = 0
  /\ failed = 0
  /\ calls = [d \in Diffs |-> 0]
  /\ taskPc = [t \in Task |-> "none"]
  /\ rest = [t \in Task |-> <<>>]
  /\ poolCount = 0
  /\ waiters = {}
  /\ woken = {}
  /\ poolSlots = 0
  /\ collector = [p \in Path |-> <<>>]
  /\ snap = [d \in Diffs |-> <<>>]
  /\ found = {}
  /\ removed = {}
  /\ result = Promise!NoAnswer
  /\ panicked = FALSE

------------------------------------------------------------------------------
(* Run and dispatchSubtasks, on the main goroutine. *)

Return(r) == phase' = "returned" /\ result' = r

(* loadDiffs, filterDiffs, filterLargeDiffs: load failures and a run with
   nothing left end here. *)
Load ==
  /\ phase = "load"
  /\ \/ Return(Promise!Error)
     \/ /\ \A d \in Diffs : kind[d] = "unsupported"
        /\ Return(Promise!Comments({}))
     \/ /\ \E d \in Diffs : kind[d] # "unsupported"
        /\ \A d \in Diffs : kind[d] \in {"unsupported", "large"}
        /\ Return(Promise!Error)
     \/ /\ \E d \in Diffs : kind[d] \in {"review", "deleted"}
        /\ phase' = "dispatch"
        /\ UNCHANGED result
  /\ UNCHANGED <<kind, cursor, slots, wg, dispatched, failed,
                 fileVars, poolVars, waitVars, histVars>>

(* A diff the filters dropped is not in a.diffs any more; a deleted one is
   skipped by the loop. *)
DispatchSkip ==
  /\ phase = "dispatch"
  /\ cursor <= NumDiffs
  /\ kind[cursor] # "review"
  /\ cursor' = cursor + 1
  /\ UNCHANGED <<kind, phase, slots, wg, dispatched, failed, result,
                 fileVars, poolVars, waitVars, histVars>>

(* The send on the semaphore channel goes through. *)
SlotFreeOffByOne == slots <= MaxConcurrency  \* mutant
SlotFree == slots < MaxConcurrency

(* wg.Add(1), acquire the semaphore, start the goroutine. *)
DispatchWithoutAdd ==  \* mutant: wg.Add forgotten
  /\ phase = "dispatch"
  /\ cursor <= NumDiffs
  /\ kind[cursor] = "review"
  /\ SlotFree
  /\ slots' = slots + 1
  /\ dispatched' = dispatched + 1
  /\ pc' = [pc EXCEPT ![cursor] = "start"]
  /\ cursor' = cursor + 1
  /\ UNCHANGED <<kind, phase, wg, failed, result, outcome, calls, snap,
                 poolVars, waitVars, histVars>>
Dispatch ==
  /\ phase = "dispatch"
  /\ cursor <= NumDiffs
  /\ kind[cursor] = "review"
  /\ SlotFree
  /\ slots' = slots + 1
  /\ wg' = wg + 1
  /\ dispatched' = dispatched + 1
  /\ pc' = [pc EXCEPT ![cursor] = "start"]
  /\ cursor' = cursor + 1
  /\ UNCHANGED <<kind, phase, failed, result, outcome, calls, snap,
                 poolVars, waitVars, histVars>>

(* After wg.Wait(), the pool is awaited before the collector is read. *)
AfterWaitNoAwait == "collect"  \* mutant
AfterWait == "await"

(* wg.Wait() returns. *)
AllSubtasksDone ==
  /\ phase = "dispatch"
  /\ cursor > NumDiffs
  /\ wg = 0
  /\ \/ /\ dispatched = 0
        /\ Return(Promise!Comments({}))
     \/ /\ dispatched > 0
        /\ phase' = AfterWait
        /\ UNCHANGED result
  /\ UNCHANGED <<kind, cursor, slots, wg, dispatched, failed,
                 fileVars, poolVars, waitVars, histVars>>

AnySubtaskFailed == failed > 0  \* mutant
AllSubtasksFailed == failed > 0 /\ failed = dispatched

Collect ==
  /\ phase = "collect"
  /\ IF AllSubtasksFailed
       THEN Return(Promise!Error)
       ELSE Return(Promise!Comments(Collected))
  /\ UNCHANGED <<kind, cursor, slots, wg, dispatched, failed,
                 fileVars, poolVars, waitVars, histVars>>

------------------------------------------------------------------------------
(* executeSubtask, on the goroutine of diff d. *)

Move(d, from, to) == pc[d] = from /\ pc' = [pc EXCEPT ![d] = to]

(* The context is already over, or the prompt has no messages. *)
StartFails(d) ==
  /\ Move(d, "start", "finish")
  /\ outcome' = [outcome EXCEPT ![d] = "failed"]
  /\ UNCHANGED <<runVars, calls, snap, poolVars, waitVars, histVars>>

(* The rendered prompt is over 80% of max_tokens: a warning, and no review. *)
StartSkips(d) ==
  /\ Move(d, "start", "finish")
  /\ outcome' = [outcome EXCEPT ![d] = "skipped"]
  /\ UNCHANGED <<runVars, calls, snap, poolVars, waitVars, histVars>>

(* The plan phase, whose failure is tolerated, then the main loop begins. *)
StartReview(d) ==
  /\ Move(d, "start", "loop")
  /\ UNCHANGED <<runVars, outcome, calls, snap, poolVars, waitVars, histVars>>

(* executeToolCall for code_comment: CommentWorkerPool.Submit. *)
Submit(d) ==
  /\ pc[d] = "loop"
  /\ calls[d] < MaxCalls
  /\ LET t == <<d, calls[d] + 1>>
     IN \E n \in 1..MaxBatch : \E path \in [1..n -> Path] :
          LET batch == [i \in 1..n |-> [task |-> t, pos |-> i, path |-> path[i]]]
          IN /\ calls' = [calls EXCEPT ![d] = @ + 1]
             /\ taskPc' = [taskPc EXCEPT ![t] = "queued"]
             /\ rest' = [rest EXCEPT ![t] = batch]
             /\ poolCount' = poolCount + 1
             /\ found' = found \cup Range(batch)
  /\ UNCHANGED <<runVars, pc, outcome, snap, poolSlots, collector, waitVars, removed>>

(* performLlmCodeReview returns an error: no Await and no filter follow. *)
LoopFails(d) ==
  /\ Move(d, "loop", "finish")
  /\ outcome' = [outcome EXCEPT ![d] = "failed"]
  /\ UNCHANGED <<runVars, calls, snap, poolVars, waitVars, histVars>>

LoopEndsNoAwait(d) ==  \* mutant: the filter runs without Await
  /\ Move(d, "loop", "snapshot")
  /\ UNCHANGED <<runVars, outcome, calls, snap, poolVars, waitVars, histVars>>
LoopEnds(d) ==
  /\ Move(d, "loop", "await")
  /\ UNCHANGED <<runVars, outcome, calls, snap, poolVars, waitVars, histVars>>

(* executeReviewFilter takes the comments for its path. Without any, or
   without a filter template, it returns and the subtask is over. *)
FilterStart(d) ==
  /\ pc[d] = "snapshot"
  /\ \/ /\ pc' = [pc EXCEPT ![d] = "finish"]
        /\ outcome' = [outcome EXCEPT ![d] = "ok"]
        /\ UNCHANGED snap
     \/ /\ collector[d] # <<>>
        /\ pc' = [pc EXCEPT ![d] = "filter"]
        /\ snap' = [snap EXCEPT ![d] = collector[d]]
        /\ UNCHANGED outcome
  /\ UNCHANGED <<runVars, calls, poolVars, waitVars, histVars>>

(* RemoveByPathAndIndices: the positions in I go, the others keep their
   order. *)
RemoveIndices(s, I) ==
  LET kept == DOMAIN s \ I
  IN  [j \in 1..Cardinality(kept) |-> s[Nth(kept, j)]]

(* parseFilterResponse lets no position outside the snapshot through. *)
AnyPosition(d) == DOMAIN collector[d]  \* mutant: no range check
ValidPositions(d) == DOMAIN snap[d]

(* The filter's LLM call comes back: an error, an unparseable answer and an
   empty list leave the collector alone (I = {}). *)
FilterEnds(d) ==
  /\ Move(d, "filter", "finish")
  /\ outcome' = [outcome EXCEPT ![d] = "ok"]
  /\ \E I \in SUBSET ValidPositions(d) :
       /\ collector' = [collector EXCEPT ![d] = RemoveIndices(collector[d], I)]
       /\ removed' = removed \cup {collector[d][i] : i \in I}
  /\ UNCHANGED <<runVars, calls, snap, taskPc, rest, poolCount, poolSlots, waitVars, found>>

(* The semaphore token is released by a deferred call, failed or not. *)
ReleasedOnSuccess(d) == IF outcome[d] = "failed" THEN slots ELSE slots - 1  \* mutant
Released(d) == slots - 1

(* The deferred calls of the goroutine: count a failure, release the
   semaphore, wg.Done(). *)
Finish(d) ==
  /\ Move(d, "finish", "done")
  /\ failed' = IF outcome[d] = "failed" THEN failed + 1 ELSE failed
  /\ slots' = Released(d)
  /\ wg' = wg - 1
  /\ UNCHANGED <<kind, phase, cursor, dispatched, result, outcome, calls, snap,
                 poolVars, waitVars, histVars>>

------------------------------------------------------------------------------
(* CommentWorkerPool.Await, called by a file's goroutine and by Run. The
   pool's sync.WaitGroup is modelled as the Go library implements it: Wait
   returns at once when the counter is zero and otherwise registers a waiter;
   the Done that brings the counter to zero releases every waiter; a released
   waiter that finds the group in use again when it runs panics. *)

(* Who is inside Await, and where it goes on when Await returns. *)
Awaits(w)     == IF w = Main THEN phase = "await" ELSE pc[w] = "await"
Proceeds(w) ==
  IF w = Main
    THEN phase' = "collect" /\ UNCHANGED pc
    ELSE pc' = [pc EXCEPT ![w] = "snapshot"] /\ UNCHANGED phase

AwaitUnchanged ==
  UNCHANGED <<kind, cursor, slots, wg, dispatched, failed, result,
              outcome, calls, snap, poolVars, histVars>>

AwaitReturns(w) ==
  /\ Awaits(w)
  /\ w \notin waiters \cup woken
  /\ poolCount = 0
  /\ Proceeds(w)
  /\ UNCHANGED waitVars
  /\ AwaitUnchanged

AwaitBlocks(w) ==
  /\ Awaits(w)
  /\ w \notin waiters \cup woken
  /\ poolCount > 0
  /\ waiters' = waiters \cup {w}
  /\ UNCHANGED <<phase, pc, woken, panicked>>
  /\ AwaitUnchanged

AwaitResumes(w) ==
  /\ w \in woken
  /\ woken' = woken \ {w}
  /\ IF poolCount = 0 /\ waiters = {}
       THEN Proceeds(w) /\ UNCHANGED panicked
       ELSE panicked' = TRUE /\ UNCHANGED <<phase, pc>>
  /\ UNCHANGED waiters
  /\ AwaitUnchanged

------------------------------------------------------------------------------
(* A pool goroutine, running the code_comment call t. *)

TaskStarts(t) ==
  /\ taskPc[t] = "queued"
  /\ poolSlots < PoolSize
  /\ poolSlots' = poolSlots + 1
  /\ taskPc' = [taskPc EXCEPT ![t] = "running"]
  /\ UNCHANGED <<runVars, fileVars, rest, poolCount, collector, waitVars, histVars>>

(* resolveAndCollect: line resolution and re-location never drop the
   comment, so it is added whatever they find. *)
TaskAdds(t) ==
  /\ taskPc[t] = "running"
  /\ rest[t] # <<>>
  /\ LET c == Head(rest[t])
     IN collector' = [collector EXCEPT ![c.path] = Append(@, c)]
  /\ rest' = [rest EXCEPT ![t] = Tail(@)]
  /\ UNCHANGED <<runVars, fileVars, taskPc, poolCount, poolSlots, waitVars, histVars>>

(* The deferred release and wg.Done(). *)
TaskEnds(t) ==
  /\ taskPc[t] = "running"
  /\ rest[t] = <<>>
  /\ taskPc' = [taskPc EXCEPT ![t] = "done"]
  /\ poolSlots' = poolSlots - 1
  /\ poolCount' = poolCount - 1
  /\ IF poolCount = 1
       THEN woken' = woken \cup waiters /\ waiters' = {}
       ELSE UNCHANGED <<waiters, woken>>
  /\ UNCHANGED <<runVars, fileVars, rest, collector, panicked, histVars>>

------------------------------------------------------------------------------
RunStep == Load \/ DispatchSkip \/ Dispatch \/ AllSubtasksDone \/ Collect

FileStep(d) ==
  \/ StartFails(d) \/ StartSkips(d) \/ StartReview(d)
  \/ Submit(d) \/ LoopFails(d) \/ LoopEnds(d)
  \/ FilterStart(d) \/ FilterEnds(d) \/ Finish(d)

AwaitStep(w) == AwaitReturns(w) \/ AwaitBlocks(w) \/ AwaitResumes(w)

TaskStep(t) == TaskStarts(t) \/ TaskAdds(t) \/ TaskEnds(t)

(* The process is over: Run returned, or the runtime aborted it. *)
Stopped ==
  /\ phase = "returned" \/ panicked
  /\ UNCHANGED vars

Next ==
  \/ /\ ~panicked
     /\ \/ RunStep
        \/ \E d \in Diffs : FileStep(d)
        \/ \E w \in Diffs \cup {Main} : AwaitStep(w)
        \/ \E t \in Task : TaskStep(t)
  \/ Stopped

(* Go runs every goroutine that can run; LLM calls end, by answer or by the
   client's timeout. *)
Fairness ==
  /\ WF_vars(~panicked /\ RunStep)
  /\ \A d \in Diffs : WF_vars(~panicked /\ FileStep(d))
  /\ \A w \in Diffs \cup {Main} : WF_vars(~panicked /\ AwaitStep(w))
  /\ \A t \in Task : WF_vars(~panicked /\ TaskStep(t))

Spec == Init /\ [][Next]_vars
FairSpec == Spec /\ Fairness

------------------------------------------------------------------------------
(* Types, for TLC and as the first conjunct of the inductive invariant.    *)
Kinds    == {"review", "deleted", "unsupported", "large"}
Outcomes == {"none", "ok", "skipped", "failed"}
FilePcs  == {"idle", "start", "loop", "await", "snapshot", "filter", "finish", "done"}

(* Every variable has its type; counters never go below zero. *)
TypeOK ==
  /\ kind \in [Diffs -> Kinds]
  /\ phase \in {"load", "dispatch", "await", "collect", "returned"}
  /\ cursor \in 1..(NumDiffs + 1)
  /\ pc \in [Diffs -> FilePcs]
  /\ outcome \in [Diffs -> Outcomes]
  /\ slots \in Nat /\ wg \in Nat /\ dispatched \in Nat /\ failed \in Nat
  /\ calls \in [Diffs -> 0..MaxCalls]
  /\ taskPc \in [Task -> {"none", "queued", "running", "done"}]
  /\ rest \in [Task -> Seq(Comment)]
  /\ poolCount \in Nat /\ poolSlots \in Nat
  /\ waiters \subseteq Diffs \cup {Main}
  /\ woken \subseteq Diffs \cup {Main}
  /\ collector \in [Path -> Seq(Comment)]
  /\ snap \in [Diffs -> Seq(Comment)]
  /\ found \subseteq Comment
  /\ removed \subseteq Comment
  /\ result \in [kind : {"none", "comments", "error"}, comments : SUBSET Comment]
  /\ panicked \in BOOLEAN

(* No more file goroutines than MaxConcurrency work at a time, and no more
   pool goroutines than the pool was made for resolve comments at a time
   (agent.go: the two semaphore channels, released by deferred calls). *)
ConcurrencyBounded ==
  /\ Cardinality(Active) <= MaxConcurrency
  /\ Cardinality({t \in Task : taskPc[t] = "running"}) <= PoolSize

(* A diff's review filter is asked about every comment its own conversation
   made on it: none of them is still in the pool when the snapshot is taken
   (executeSubtask's Await before executeReviewFilter). *)
FilterSeesOwnComments ==
  \A d \in Diffs : pc[d] = "filter" =>
    \A c \in found : (c.task[1] = d /\ c.path = d) => c \in Range(snap[d])

(* A filter removes only comments it was asked about, although it names them
   by position and other files' goroutines append comments on the same path
   while its LLM call is out (executeReviewFilter, RemoveByPathAndIndices). *)
FilterRemovesOnlyShown ==
  \A c \in removed : c.path \in Diffs /\ c \in Range(snap[c.path])

(* Run's answer holds every comment any code_comment call reported, also of
   files whose review failed or timed out after the call, except the ones a
   review filter removed (dispatchSubtasks: wg.Wait, then Await, then
   Comments()). *)
NoCommentLost ==
  result.kind = "comments" => result.comments = found \ removed

(* The run implements the abstract promise: one verdict per selected diff,
   comments dropped only with the verdict of their own diff, an error exactly
   when every selected diff failed. *)
ImplementsPromise == Promise!Spec

(* Run comes back (or the runtime aborts the process): the semaphores, the
   two WaitGroups and the pool never leave every goroutine waiting. *)
RunEnds == <>(phase = "returned" \/ panicked)

(* "Await blocks until all submitted work has completed and returns
   aggregated results" (agent.go:233): the pool's Wait returns to every
   goroutine that called it. *)
AwaitReturnsToCaller == ~panicked
=============================================================================
