------------------------------ MODULE GitRunner ------------------------------
(***************************************************************************)
(* The limit on concurrent git subprocesses (internal/gitcmd/runner.go):   *)
(* every caller of one command shares a Runner, whose semaphore is a       *)
(* buffered channel. A call waits for a token or for its context, whichever *)
(* Go's select finds first, runs the command and gives the token back.     *)
(***************************************************************************)
EXTENDS Naturals, FiniteSets

CONSTANTS
  Callers,       \* goroutines that run git commands through the Runner
  MaxConcurrent  \* capacity of the semaphore: --max-git-procs, 16 when <= 0

ASSUME RunnerAssumption ==
  /\ IsFiniteSet(Callers)
  /\ MaxConcurrent \in Nat \ {0}

VARIABLES
  call,  \* call[c]: where c is in Run, Output, RunSplit or Stream
  sem,   \* tokens in the channel
  gone   \* gone[c]: the context c passes is cancelled or timed out

runner == <<call, sem, gone>>

InitRunner ==
  /\ call = [c \in Callers |-> "idle"]
  /\ sem = 0
  /\ gone = [c \in Callers |-> FALSE]

Begin(c) ==
  /\ call[c] = "idle"
  /\ call' = [call EXCEPT ![c] = "waiting"]
  /\ UNCHANGED <<sem, gone>>

(* acquire: a full channel makes the sender wait. *)
Acquire(c) ==
  /\ call[c] = "waiting"
  /\ sem < MaxConcurrent
  /\ sem' = sem + 1
  /\ call' = [call EXCEPT ![c] = "running"]
  /\ UNCHANGED gone

(* acquire's other branch: the call returns ctx.Err() before the deferred
   release is registered. *)
CancelledReleases(c) ==  \* mutant: release is deferred before acquire
  /\ call[c] = "waiting" /\ gone[c]
  /\ sem > 0
  /\ sem' = sem - 1
  /\ call' = [call EXCEPT ![c] = "idle"]
  /\ UNCHANGED gone
Cancelled(c) ==
  /\ call[c] = "waiting" /\ gone[c]
  /\ call' = [call EXCEPT ![c] = "idle"]
  /\ UNCHANGED <<sem, gone>>

(* The command exits, cannot be started, is killed because its context ended,
   or because the consumer of its output failed: in each case the deferred
   release takes a token out of the channel. *)
FinishKeepsToken(c) ==  \* mutant: a call whose context ended returns without release
  /\ call[c] = "running"
  /\ sem' = IF gone[c] THEN sem ELSE sem - 1
  /\ call' = [call EXCEPT ![c] = "idle"]
  /\ UNCHANGED gone
Finish(c) ==
  /\ call[c] = "running"
  /\ sem' = sem - 1
  /\ call' = [call EXCEPT ![c] = "idle"]
  /\ UNCHANGED gone

ContextEnds(c) ==
  /\ ~gone[c]
  /\ gone' = [gone EXCEPT ![c] = TRUE]
  /\ UNCHANGED <<call, sem>>

CallStep(c) == Acquire(c) \/ Cancelled(c) \/ Finish(c)

(* The Runner alone, for any number of callers and any capacity. *)
NextRunner == \E c \in Callers : Begin(c) \/ CallStep(c) \/ ContextEnds(c)
SpecRunner == InitRunner /\ [][NextRunner]_runner

------------------------------------------------------------------------------
Running == {c \in Callers : call[c] = "running"}

RunnerTypeOK ==
  /\ call \in [Callers -> {"idle", "waiting", "running"}]
  /\ sem \in Nat
  /\ gone \in [Callers -> BOOLEAN]

(* "the total system-wide subprocess count stays bounded" (runner.go:13-15):
   the channel holds one token for each running command and no other, however
   calls end, so no more than its capacity run and none is lost for good. *)
TokensAccounted ==
  /\ sem = Cardinality(Running)
  /\ Cardinality(Running) <= MaxConcurrent
=============================================================================
