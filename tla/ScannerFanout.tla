---------------------------- MODULE ScannerFanout ----------------------------
(***************************************************************************)
(* The ensemble's scanners: Orchestrator.Execute                           *)
(* (internal/ensemble/orchestrator.go), the run callback with its          *)
(* exhaustive loop (cmd/opencodereview/andorra_review.go) and the progress *)
(* file both keep up to date (cmd/opencodereview/progress.go). One         *)
(* goroutine per scanner, at most FanOut of them past the semaphore.       *)
(*                                                                         *)
(* A pass of a scanner is one Agent.Run, of which the orchestrator sees    *)
(* comments or an error: with the diffs given, Run's only errors mean no   *)
(* comments (ReviewRun) and wrap no context error, so the callback's       *)
(* branch for a deadline is never taken. What dedup and the arbiter do     *)
(* afterwards is Judging's; here they are the arbiter's three statuses.    *)
(***************************************************************************)
EXTENDS Integers, Grouping

CONSTANTS
  NumScanners,   \* enabled scanners
  Concurrencies, \* bound: values of --concurrency
  Issues,        \* what a comment can be about
  MergePairs,    \* pairs {i, j} of different issues that dedup merges
  Reports,       \* bound: sets of issues one pass may report
  MaxPasses,     \* exhaustiveSafetyCap (100)
  MaxFaults      \* bound: progress writes that fail

Scanners == 1..NumScanners
Comment  == (1..MaxPasses) \X Issues  \* of one scanner: the pass, and what it is about

ASSUME FanoutAssumption ==
  /\ NumScanners \in Nat \ {0}
  /\ Concurrencies \subseteq Int
  /\ Reports \subseteq SUBSET Issues
  /\ \A report \in Reports : IsFiniteSet(report)
  /\ MaxPasses \in Nat \ {0}
  /\ MaxFaults \in Nat

VARIABLES
  concurrency, serial, exhaustive, \* the run's settings; the last a set
  main,      \* "start", "fan", "failing", "arbiter", "judging", "closing", "done", "failed"
  launched,  \* scanners whose goroutine exists
  tokens,    \* tokens taken from the semaphore
  wg,        \* the WaitGroup's counter
  at,        \* per scanner: where its goroutine is
  pass,      \* iter + 1
  kept,      \* allComments: <<pass, issue>>
  err,       \* the callback's error is not nil
  results,   \* ScannerResult
  raw,       \* Result.Raw: <<scanner, pass, issue>>
  file,      \* the progress file
  faults,    \* writes of it that have failed
  reported,  \* history: every comment the scanner's passes returned
  dropped,   \* history: comments of the pass that ended the exhaustive loop
  timedOut   \* history: the last pass failed because every file timed out

settings == <<concurrency, serial, exhaustive>>
mainVars == <<main, launched, raw>>
semVars  == <<tokens, wg>>
scanVars == <<at, pass, kept, err, results, reported, dropped, timedOut>>
progVars == <<file, faults>>
vars     == <<settings, mainVars, semVars, scanVars, progVars>>
-------------------------------------------------------------------------------
(* The concurrency budget. *)

AtLeastOne(n) == IF n < 1 THEN 1 ELSE n
AtMost(n, limit) == IF n > limit THEN limit ELSE n

PerScanner == AtLeastOne(concurrency \div NumScanners)

FanOutUncapped == IF serial THEN 1 ELSE NumScanners  \* mutant: no cap
FanOut ==
  IF serial THEN 1 ELSE AtMost(AtLeastOne(concurrency \div PerScanner), NumScanners)
-------------------------------------------------------------------------------
(* The progress file. A failed write leaves the file as it was or cut short. *)

Missing    == [stage |-> "missing", scanners |-> <<>>, arbiter |-> "none"]
Unreadable == [stage |-> "unreadable", scanners |-> <<>>, arbiter |-> "none"]

Write(snap) ==
  \/ file' = snap /\ UNCHANGED faults
  \/ faults < MaxFaults /\ faults' = faults + 1 /\ file' \in {file, Unreadable}

(* Read, change, write under the reporter's mutex; a file that cannot be read is
   left alone, a missing one counts as an empty snapshot. *)
Snapshot == IF file = Missing THEN [Missing EXCEPT !.stage = "none"] ELSE file

Update(changed) == IF file = Unreadable THEN UNCHANGED progVars ELSE Write(changed)

SetScanner(snap, s, entry) ==
  [snap EXCEPT !.scanners = [t \in DOMAIN @ |-> IF t = s THEN entry ELSE @[t]]]

ProgressStart ==
  Write([stage |-> "scanners", arbiter |-> "pending",
         scanners |-> [s \in Scanners |-> [status |-> "pending", pass |-> 0, found |-> 0]]])

ScannerRunning(s, n) ==
  LET old == IF s \in DOMAIN file.scanners THEN file.scanners[s].found ELSE 0
  IN  Update(SetScanner([Snapshot EXCEPT !.stage = "scanners"], s,
                        [status |-> "running", pass |-> n, found |-> old]))

ScannerComplete(s, n, found, status) ==
  Update(SetScanner(Snapshot, s, [status |-> status, pass |-> n, found |-> found]))

ProgressArbiter(status) == Update([Snapshot EXCEPT !.stage = "arbiter", !.arbiter = status])

ProgressComplete == Update([Snapshot EXCEPT !.stage = "complete"])

(* Fail writes even when the old snapshot cannot be read. *)
ProgressFail ==
  Write([stage |-> "failed",
         scanners |-> file.scanners,
         arbiter |-> IF file = Unreadable THEN "pending" ELSE file.arbiter])
-------------------------------------------------------------------------------
NoResult == [status |-> "none", found |-> 0]

Init ==
  /\ concurrency \in Concurrencies
  /\ serial \in BOOLEAN
  /\ exhaustive \in SUBSET Scanners
  /\ main = "start"
  /\ launched = 0
  /\ raw = {}
  /\ tokens = 0
  /\ wg = 0
  /\ at = [s \in Scanners |-> "none"]
  /\ pass = [s \in Scanners |-> 0]
  /\ kept = [s \in Scanners |-> {}]
  /\ err = [s \in Scanners |-> FALSE]
  /\ results = [s \in Scanners |-> NoResult]
  /\ reported = [s \in Scanners |-> {}]
  /\ dropped = [s \in Scanners |-> {}]
  /\ timedOut = [s \in Scanners |-> FALSE]
  /\ file = Missing
  /\ faults = 0

StartRun ==
  /\ main = "start"
  /\ main' = "fan"
  /\ ProgressStart
  /\ UNCHANGED <<settings, launched, raw, semVars, scanVars>>

(* wg.Add, then the semaphore; only this goroutine waits for the WaitGroup, so
   that the counter is raised before the token is got shows nowhere. *)
SlotFree == tokens < FanOut

LaunchWithoutAdd ==  \* mutant: wg.Add forgotten
  /\ main = "fan" /\ launched < NumScanners
  /\ SlotFree
  /\ launched' = launched + 1
  /\ tokens' = tokens + 1
  /\ at' = [at EXCEPT ![launched'] = "begin"]
  /\ UNCHANGED <<settings, main, raw, wg, pass, kept, err, results, reported, dropped,
                 timedOut, progVars>>
Launch ==
  /\ main = "fan" /\ launched < NumScanners
  /\ SlotFree
  /\ launched' = launched + 1
  /\ tokens' = tokens + 1
  /\ wg' = wg + 1
  /\ at' = [at EXCEPT ![launched'] = "begin"]
  /\ UNCHANGED <<settings, main, raw, pass, kept, err, results, reported, dropped,
                 timedOut, progVars>>

(* The callback starts its next pass. *)
PassBegins(s) ==
  /\ at[s] = "begin"
  /\ at' = [at EXCEPT ![s] = "pass"]
  /\ pass' = [pass EXCEPT ![s] = @ + 1]
  /\ ScannerRunning(s, pass[s] + 1)
  /\ UNCHANGED <<settings, mainVars, semVars, kept, err, results, reported, dropped, timedOut>>

(* hasNewFindings compares numbers of groups. *)
MergesComments(c, d) == c[2] = d[2] \/ {c[2], d[2]} \in MergePairs
MergingPairs(comments) == {p \in comments \X comments : MergesComments(p[1], p[2])}
GroupCount(comments) == Cardinality(Components(comments, MergingPairs(comments)))
MoreThanNext(prior, next) ==  \* mutant: the wrong baseline
  next # {} /\ GroupCount(prior \cup next) > GroupCount(next)
HasNewFindings(prior, next) ==
  next # {} /\ GroupCount(prior \cup next) > GroupCount(prior)

Keep(s, comments, next) ==
  /\ kept' = [kept EXCEPT ![s] = @ \cup comments]
  /\ at' = [at EXCEPT ![s] = next]

(* The exhaustive loop has nothing more to do after this pass. *)
StopsAfter(s, comments) ==
  \/ pass[s] = 1 /\ comments = {}
  \/ pass[s] > 1 /\ ~HasNewFindings(kept[s], comments)

PassSucceeds(s) ==
  /\ at[s] = "pass"
  /\ \E report \in Reports :
       LET comments == {<<pass[s], i>> : i \in report}
       IN  /\ reported' = [reported EXCEPT ![s] = @ \cup comments]
           /\ \/ /\ s \notin exhaustive
                 /\ Keep(s, comments, "exit")
                 /\ UNCHANGED dropped
              \/ /\ s \in exhaustive /\ StopsAfter(s, comments)
                 /\ dropped' = [dropped EXCEPT ![s] = comments]
                 /\ Keep(s, {}, "exit")
              \/ /\ s \in exhaustive /\ ~StopsAfter(s, comments)
                 /\ Keep(s, comments, IF pass[s] < MaxPasses THEN "begin" ELSE "exit")
                 /\ UNCHANGED dropped
  /\ UNCHANGED <<settings, mainVars, semVars, pass, err, results, timedOut, progVars>>

PassFails(s) ==
  /\ at[s] = "pass"
  /\ err' = [err EXCEPT ![s] = TRUE]
  /\ \E deadline \in BOOLEAN : timedOut' = [timedOut EXCEPT ![s] = deadline]
  /\ Keep(s, {}, "exit")
  /\ UNCHANGED <<settings, mainVars, semVars, pass, results, reported, dropped, progVars>>

(* The deferred progress report and Execute's own switch each derive the
   scanner's status. *)
ErrorAnyway(s) == IF err[s] THEN "error" ELSE "ok"  \* mutant: findings ignored
ReportedStatus(s) ==
  IF err[s] THEN IF kept[s] # {} THEN "partial" ELSE "error" ELSE "ok"

CallbackReturns(s) ==
  /\ at[s] = "exit"
  /\ at' = [at EXCEPT ![s] = "returned"]
  /\ ScannerComplete(s, pass[s], Cardinality(kept[s]), ReportedStatus(s))
  /\ UNCHANGED <<settings, mainVars, semVars, pass, kept, err, results, reported, dropped, timedOut>>

ResultStatus(s) ==
  IF ~err[s] THEN "ok" ELSE IF kept[s] # {} THEN "partial" ELSE "error"

StoreResult(s) ==
  /\ at[s] = "returned"
  /\ results' = [results EXCEPT ![s] =
       [status |-> ResultStatus(s), found |-> Cardinality(kept[s])]]
  /\ at' = [at EXCEPT ![s] = "release"]
  /\ UNCHANGED <<settings, mainVars, semVars, pass, kept, err, reported, dropped, timedOut, progVars>>

ReleaseOnSuccess(s) ==  \* mutant: the release is not deferred
  /\ at[s] = "release"
  /\ tokens' = IF err[s] THEN tokens ELSE tokens - 1
  /\ at' = [at EXCEPT ![s] = "release_wg"]
  /\ UNCHANGED <<settings, mainVars, wg, pass, kept, err, results, reported, dropped,
                 timedOut, progVars>>
Release(s) ==
  /\ at[s] = "release"
  /\ tokens' = tokens - 1
  /\ at' = [at EXCEPT ![s] = "release_wg"]
  /\ UNCHANGED <<settings, mainVars, wg, pass, kept, err, results, reported, dropped,
                 timedOut, progVars>>

WgDone(s) ==
  /\ at[s] = "release_wg"
  /\ wg' = wg - 1
  /\ at' = [at EXCEPT ![s] = "gone"]
  /\ UNCHANGED <<settings, mainVars, tokens, pass, kept, err, results, reported, dropped,
                 timedOut, progVars>>

AllLaunched == launched = NumScanners  \* mutant: no wg.Wait
AllDone == launched = NumScanners /\ wg = 0

SucceededFully == {s \in Scanners : results[s].status = "ok"}  \* mutant
Succeeded == {s \in Scanners : results[s].status \in {"ok", "partial"}}

Aggregate ==
  /\ main = "fan" /\ AllDone
  /\ \/ /\ Succeeded = {}
        /\ main' = "failing"
        /\ UNCHANGED raw
     \/ /\ Succeeded # {}
        /\ main' = "arbiter"
        /\ raw' = UNION {{<<s, c[1], c[2]>> : c \in kept[s]} : s \in Scanners}
  /\ UNCHANGED <<settings, launched, semVars, scanVars, progVars>>

FailRun ==
  /\ main = "failing" /\ main' = "failed"
  /\ ProgressFail
  /\ UNCHANGED <<settings, launched, raw, semVars, scanVars>>

ArbiterStarts ==
  /\ main = "arbiter" /\ main' = "judging"
  /\ ProgressArbiter("running")
  /\ UNCHANGED <<settings, launched, raw, semVars, scanVars>>

ArbiterEnds ==
  /\ main = "judging" /\ main' = "closing"
  /\ \E status \in {"ok", "partial", "failed"} : ProgressArbiter(status)
  /\ UNCHANGED <<settings, launched, raw, semVars, scanVars>>

CompleteRun ==
  /\ main = "closing" /\ main' = "done"
  /\ ProgressComplete
  /\ UNCHANGED <<settings, launched, raw, semVars, scanVars>>

ScannerStep(s) ==
  \/ PassBegins(s) \/ PassSucceeds(s) \/ PassFails(s)
  \/ CallbackReturns(s) \/ StoreResult(s) \/ Release(s) \/ WgDone(s)

MainStep ==
  \/ StartRun \/ Launch \/ Aggregate
  \/ FailRun \/ ArbiterStarts \/ ArbiterEnds \/ CompleteRun

Next == MainStep \/ \E s \in Scanners : ScannerStep(s)

Spec == Init /\ [][Next]_vars

(* Goroutines are scheduled; a pass ends because Agent.Run does (RunEnds of
   ReviewRun) and its LLM calls have timeouts. *)
FairSpec == Spec /\ WF_vars(MainStep) /\ \A s \in Scanners : WF_vars(ScannerStep(s))
-------------------------------------------------------------------------------
Statuses == {"pending", "running", "ok", "partial", "error"}

TypeOK ==
  /\ concurrency \in Concurrencies /\ serial \in BOOLEAN /\ exhaustive \subseteq Scanners
  /\ main \in {"start", "fan", "failing", "arbiter", "judging", "closing", "done", "failed"}
  /\ launched \in 0..NumScanners
  /\ tokens \in 0..NumScanners /\ wg \in 0..NumScanners
  /\ at \in [Scanners -> {"none", "begin", "pass", "exit", "returned",
                          "release", "release_wg", "gone"}]
  /\ pass \in [Scanners -> 0..MaxPasses]
  /\ kept \in [Scanners -> SUBSET ((1..MaxPasses) \X Issues)]
  /\ err \in [Scanners -> BOOLEAN]
  /\ results \in [Scanners -> [status : {"none", "ok", "partial", "error"}, found : Nat]]
  /\ raw \subseteq Scanners \X (1..MaxPasses) \X Issues
  /\ file.stage \in {"missing", "unreadable", "none", "scanners", "arbiter", "complete", "failed"}
  /\ DOMAIN file.scanners \in {{}, Scanners}
  /\ \A s \in DOMAIN file.scanners : file.scanners[s].status \in Statuses
  /\ faults \in 0..MaxFaults

(* The file goroutines of all running agents together stay within --concurrency:
   the fan-out times the per-scanner share never exceeds the budget
   (andorra_review.go:412-431, orchestrator.go:96-115). *)
Running == {s \in Scanners : at[s] = "pass"}
BudgetKept == Cardinality(Running) * PerScanner <= AtLeastOne(concurrency)

(* Every comment a pass returned reaches dedup, except those of the pass that
   ended an exhaustive loop, in whatever order scanners end and fail; the run
   fails only when every scanner failed and no pass returned any
   (Execute, orchestrator.go:83-86 and 164-187). *)
ReachesDedup ==
  /\ main \in {"arbiter", "judging", "closing", "done"} =>
       \A s \in Scanners : \A c \in reported[s] \ dropped[s] : <<s, c[1], c[2]>> \in raw
  /\ main \in {"failing", "failed"} =>
       \A s \in Scanners : err[s] /\ reported[s] = {}

(* The progress file calls a scanner finished only when it is, with the status
   and count the result has; once the scanners are done it says so of each one,
   unless a write of it failed (progress.go:64-102, andorra_review.go:440-449). *)
Finished(s) == at[s] \in {"returned", "release", "release_wg", "gone"}
StatusTruthful ==
  /\ \A s \in DOMAIN file.scanners :
       file.scanners[s].status \in {"ok", "partial", "error"} =>
         /\ Finished(s)
         /\ at[s] \in {"release", "release_wg", "gone"} =>
              /\ file.scanners[s].status = results[s].status
              /\ file.scanners[s].found = results[s].found
  /\ faults = 0 /\ main \notin {"start", "fan"} =>
       \A s \in Scanners : file.scanners[s].status = results[s].status

(* The pass that ends an exhaustive scanner is thrown away. Each comment of it
   belongs to a group that has a kept comment, unless the pass joined groups
   that were apart before (hasNewFindings, andorra_review.go:789-808). *)
SaysNothingNew(old, next) ==
  LET all    == Components(old \cup next, MergingPairs(old \cup next))
      before == Components(old, MergingPairs(old))
  IN  \/ \A g \in all : g \cap old # {}
      \/ \E g \in all : Cardinality({b \in before : b \subseteq g}) > 1
DiscardsOnlyDuplicates ==
  \A s \in Scanners : dropped[s] # {} => SaysNothingNew(kept[s], dropped[s])

(* No finding is lost on the way from a scanner's passes to dedup: what a pass
   returned gets there, and what an exhaustive loop throws away it had found
   before. *)
NoFindingLost == ReachesDedup /\ DiscardsOnlyDuplicates

(* The abstract specification, and what its variables and Harmless are here. *)

Harmless == {p \in (SUBSET Comment) \X (SUBSET Comment) : SaysNothingNew(p[1], p[2])}

Settled == [s \in Scanners |-> IF results[s].status = "none" THEN "scanning"
                               ELSE results[s].status]

Outcome ==
  [kind |-> CASE main \in {"start", "fan"} -> "none"
              [] main \in {"failing", "failed"} -> "failure"
              [] OTHER -> "comments",
   comments |-> {<<f[1], <<f[2], f[3]>>>> : f \in raw}]

Promise == INSTANCE EnsemblePromise
  WITH status <- Settled, found <- kept, discarded <- dropped, answer <- Outcome

(* The scanning implements the promise: one status per scanner, after its last
   comment; nothing thrown away but what had been found; and one answer, after
   all of them, that fails only with nothing in hand (Execute,
   orchestrator.go:83-187). *)
KeepsPromise == Promise!Spec

(* "Timeouts are treated as non-fatal: keep whatever findings were produced before
   the deadline and let the review continue" (andorra_review.go:508-510). *)
TimeoutNotFatal ==
  \A s \in Scanners : timedOut[s] => results[s].status # "error"

(* The stage a poller sees never goes back: no scanner reports after the arbiter
   started, and nothing after the run ended (progress.go:64-160). *)
Rank(stage) ==
  CASE stage \in {"missing", "unreadable", "none"} -> 0
    [] stage = "scanners" -> 1
    [] stage = "arbiter" -> 2
    [] stage \in {"complete", "failed"} -> 3
StageForward == file' = Unreadable \/ Rank(file'.stage) >= Rank(file.stage)

(* Whoever polls the progress file is told the truth: neither a scanner's status
   nor the stage is ahead of the run, and the stage never goes back. *)
ProgressTruthful == [][StatusTruthful' /\ StageForward]_vars

(* The ensemble's scanning ends, and the run with it. *)
FanoutEnds == <>(main \in {"done", "failed"})
===============================================================================
