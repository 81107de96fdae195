-------------------------- MODULE ScannerFanoutProofs --------------------------
(***************************************************************************)
(* The ensemble's fan-out for every number of scanners, every value of     *)
(* --concurrency, every cap on passes and every merge relation; and, at    *)
(* the end, that it implements EnsemblePromise.                            *)
(***************************************************************************)
EXTENDS ScannerFanout, FiniteSetTheorems, WellFoundedInduction, TLAPS

(* The share of a scanner times the scanners that run at once fits the budget,
   whatever the two integer divisions round away. *)
LEMMA ShareFits ==
  ASSUME concurrency \in Int
  PROVE  /\ FanOut \in Int /\ PerScanner \in Nat \ {0}
         /\ FanOut * PerScanner <= AtLeastOne(concurrency)
<1> USE FanoutAssumption
<1> DEFINE share == PerScanner
           slots == concurrency \div share
<1>1. share \in Nat \ {0}  BY DEF PerScanner, AtLeastOne
<1>2. share <= AtLeastOne(concurrency)
  <2>1. concurrency \div NumScanners <= AtLeastOne(concurrency)
    BY DEF AtLeastOne
  <2> QED BY <2>1 DEF PerScanner, AtLeastOne
<1> HIDE DEF share
<1>3. slots \in Int /\ slots * share <= concurrency  BY <1>1
<1>4. AtLeastOne(slots) * share <= AtLeastOne(concurrency)
  BY <1>1, <1>2, <1>3 DEF AtLeastOne
<1>5. FanOut \in Int /\ FanOut <= AtLeastOne(slots) /\ AtLeastOne(slots) \in Int
  BY <1>3 DEF FanOut, AtMost, AtLeastOne, share
<1> HIDE DEF slots
<1>6. FanOut * share <= AtLeastOne(slots) * share  BY <1>1, <1>5
<1>7. AtLeastOne(concurrency) \in Int  BY DEF AtLeastOne
<1>8. FanOut * share \in Int /\ AtLeastOne(slots) * share \in Int  BY <1>1, <1>5
<1> QED BY <1>1, <1>4, <1>5, <1>6, <1>7, <1>8 DEF share

-------------------------------------------------------------------------------
(* Layer 1: types, and where the goroutines can be. *)

Mains == {"start", "fan", "failing", "arbiter", "judging", "closing", "done", "failed"}
Places == {"none", "begin", "pass", "exit", "returned", "release", "release_wg", "gone"}

Stages == {"missing", "unreadable", "none", "scanners", "arbiter", "complete", "failed"}
Entry == [status : Statuses, pass : Nat, found : Nat]
File == [stage : Stages,
         scanners : [{} -> Entry] \cup [Scanners -> Entry],
         arbiter : {"none", "pending", "running", "ok", "partial", "failed"}]

RunTypes ==
  /\ concurrency \in Concurrencies /\ serial \in BOOLEAN /\ exhaustive \subseteq Scanners
  /\ main \in Mains /\ launched \in 0..NumScanners
  /\ tokens \in Int /\ wg \in Int
  /\ raw \subseteq Scanners \X (1..MaxPasses) \X Issues

ScannerTypes ==
  /\ at \in [Scanners -> Places]
  /\ pass \in [Scanners -> 0..MaxPasses]
  /\ kept \in [Scanners -> SUBSET ((1..MaxPasses) \X Issues)]
  /\ \A s \in Scanners : IsFiniteSet(kept[s])
  /\ err \in [Scanners -> BOOLEAN]
  /\ results \in [Scanners -> [status : {"none", "ok", "partial", "error"}, found : Nat]]
  /\ reported \in [Scanners -> SUBSET ((1..MaxPasses) \X Issues)]
  /\ dropped \in [Scanners -> SUBSET ((1..MaxPasses) \X Issues)]

FileTypes == file \in File /\ faults \in 0..MaxFaults

(* A scanner that has not passed its last pass may begin another; while main is
   not fanning out, no scanner is on its way. *)
Control ==
  /\ \A s \in Scanners : at[s] = "none" <=> s > launched
  /\ \A s \in Scanners : at[s] \in {"none", "begin"} => pass[s] < MaxPasses
  /\ \A s \in Scanners : at[s] = "pass" => pass[s] >= 1
  /\ main = "start" => launched = 0 /\ file = Missing
  /\ main \notin {"start", "fan"} => \A s \in Scanners : at[s] = "gone"

(* Layer 2: the semaphore and the WaitGroup count the goroutines that hold them. *)
Holding == {s \in Scanners : at[s] \in {"begin", "pass", "exit", "returned", "release"}}
Registered == {s \in Scanners : at[s] \notin {"none", "gone"}}

Counters ==
  /\ tokens = Cardinality(Holding) /\ wg = Cardinality(Registered)
  /\ tokens <= FanOut /\ FanOut <= NumScanners

(* Layer 3: where a scanner's comments are, and what its result says of them. *)
Findings ==
  \A s \in Scanners :
    /\ reported[s] \subseteq kept[s] \cup dropped[s]
    /\ at[s] \in {"none", "begin", "pass"} => ~err[s] /\ dropped[s] = {}
    /\ err[s] => dropped[s] = {}
    /\ at[s] \in {"release", "release_wg", "gone"} =>
         results[s] = [status |-> ResultStatus(s), found |-> Cardinality(kept[s])]

Answer ==
  /\ main \in {"arbiter", "judging", "closing", "done"} =>
       raw = UNION {{<<s, c[1], c[2]>> : c \in kept[s]} : s \in Scanners}
  /\ main \in {"failing", "failed"} => Succeeded = {}

Base == RunTypes /\ ScannerTypes /\ FileTypes /\ Control
Inv == Base /\ Counters /\ Findings /\ Answer
-------------------------------------------------------------------------------
(* The file. *)

LEMMA FileFacts ==
  /\ Missing \in File /\ Unreadable \in File
  /\ DOMAIN Missing.scanners = {} /\ DOMAIN Unreadable.scanners = {}
  /\ Scanners # {}
  /\ \A f \in File : DOMAIN f.scanners \in {{}, Scanners}
                     /\ \A s \in DOMAIN f.scanners : f.scanners[s] \in Entry
<1>1. <<>> \in [{} -> Entry] /\ DOMAIN <<>> = {}  OBVIOUS
<1>2. Missing \in File /\ Unreadable \in File
  BY <1>1 DEF Missing, Unreadable, File, Stages
<1>3. Missing.scanners = <<>> /\ Unreadable.scanners = <<>>
  BY DEF Missing, Unreadable
<1>4. Scanners # {}
  <2>1. 1 \in Scanners  BY FanoutAssumption DEF Scanners
  <2> QED BY <2>1
<1>5. ASSUME NEW f \in File
      PROVE  DOMAIN f.scanners \in {{}, Scanners}
             /\ \A s \in DOMAIN f.scanners : f.scanners[s] \in Entry
  <2>1. f.scanners \in [{} -> Entry] \cup [Scanners -> Entry]  BY DEF File
  <2> QED BY <2>1
<1> QED BY <1>1, <1>2, <1>3, <1>4, <1>5

(* A write leaves what was to be written, what was there, or an unreadable file;
   without a fault the first. *)
LEMMA WriteLeaves ==
  ASSUME FileTypes, NEW snap \in File, Write(snap)
  PROVE  /\ FileTypes' /\ file' \in {snap, file, Unreadable}
         /\ faults' = 0 => faults = 0 /\ file' = snap
<1>1. Unreadable \in File /\ MaxFaults \in Nat  BY FileFacts, FanoutAssumption
<1> QED BY <1>1 DEF Write, FileTypes

LEMMA UpdateLeaves ==
  ASSUME FileTypes, NEW snap \in File, Update(snap)
  PROVE  /\ FileTypes' /\ file' \in {snap, file, Unreadable}
         /\ faults' = 0 => faults = 0
         /\ faults' = 0 /\ file # Unreadable => file' = snap
<1>1. CASE file = Unreadable
  BY <1>1 DEF Update, progVars, FileTypes
<1>2. CASE file # Unreadable
  BY <1>2, WriteLeaves DEF Update
<1> QED BY <1>1, <1>2

LEMMA SnapshotKeeps ==
  ASSUME FileTypes
  PROVE  /\ Snapshot \in File /\ Snapshot.scanners = file.scanners
         /\ Snapshot.stage = file.stage \/ (file.stage = "missing" /\ Snapshot.stage = "none")
<1>1. CASE file = Missing
  BY <1>1, FileFacts DEF Snapshot, Missing, File, Stages
<1>2. CASE file # Missing
  BY <1>2 DEF Snapshot, FileTypes
<1> QED BY <1>1, <1>2

(* Setting one scanner's entry changes that entry and nothing else. *)
LEMMA SetScannerKeeps ==
  ASSUME NEW f \in File, NEW s \in Scanners, NEW e \in Entry
  PROVE  /\ SetScanner(f, s, e) \in File
         /\ SetScanner(f, s, e).stage = f.stage
         /\ DOMAIN SetScanner(f, s, e).scanners = DOMAIN f.scanners
         /\ \A t \in DOMAIN f.scanners :
              SetScanner(f, s, e).scanners[t] = IF t = s THEN e ELSE f.scanners[t]
<1> DEFINE g == [t \in DOMAIN f.scanners |-> IF t = s THEN e ELSE f.scanners[t]]
<1>1. SetScanner(f, s, e) = [f EXCEPT !.scanners = g]  BY DEF SetScanner
<1>2. g \in [{} -> Entry] \cup [Scanners -> Entry]
  <2>1. \A t \in DOMAIN f.scanners : g[t] \in Entry  BY FileFacts
  <2>2. g \in [DOMAIN f.scanners -> Entry]  BY <2>1
  <2> QED BY <2>2, FileFacts
<1>3. DOMAIN g = DOMAIN f.scanners  OBVIOUS
<1> HIDE DEF g
<1>4. [f EXCEPT !.scanners = g] \in File  BY <1>2 DEF File
<1>5. [f EXCEPT !.scanners = g].scanners = g /\ [f EXCEPT !.scanners = g].stage = f.stage
  BY DEF File
<1> QED BY <1>1, <1>3, <1>4, <1>5 DEF g
-------------------------------------------------------------------------------
(* Scanners run only while main fans out. *)
LEMMA OnlyWhileFanning ==
  ASSUME Base, NEW s \in Scanners, at[s] \notin {"none", "gone"}
  PROVE  main = "fan"
<1>1. at[s] \in Places /\ main \in Mains  BY DEF Base, RunTypes, ScannerTypes
<1>2. main \in {"start", "fan"}  BY <1>1 DEF Base, Control
<1>3. main # "start"
  <2> SUFFICES ASSUME main = "start"  PROVE FALSE  OBVIOUS
  <2>1. launched = 0 /\ s > 0  BY FanoutAssumption DEF Base, Control, Scanners
  <2> QED BY <2>1 DEF Base, Control
<1> QED BY <1>2, <1>3

-------------------------------------------------------------------------------
(* Layer 1. *)

LEMMA BaseInit == Init => Base
<1> SUFFICES ASSUME Init PROVE Base  OBVIOUS
<1> USE FanoutAssumption DEF Init
<1>1. RunTypes  BY DEF RunTypes, Mains
<1>2. ScannerTypes  BY FS_EmptySet DEF ScannerTypes, Places, NoResult
<1>3. FileTypes  BY FileFacts DEF FileTypes
<1>4. Control  BY DEF Control, Scanners
<1> QED BY <1>1, <1>2, <1>3, <1>4 DEF Base

(* The file's types survive every action. *)
LEMMA RunningTypes ==
  ASSUME Base, NEW s \in Scanners, PassBegins(s)
  PROVE  FileTypes'
<1> DEFINE old == IF s \in DOMAIN file.scanners THEN file.scanners[s].found ELSE 0
           entry == [status |-> "running", pass |-> pass[s] + 1, found |-> old]
           snap == [Snapshot EXCEPT !.stage = "scanners"]
<1>1. old \in Nat  BY FileFacts DEF Base, FileTypes, Entry
<1>2. pass[s] + 1 \in Nat
  BY FanoutAssumption DEF Base, ScannerTypes
<1>3. entry \in Entry  BY <1>1, <1>2 DEF Entry, Statuses
<1>4. snap \in File  BY SnapshotKeeps DEF Base, File, Stages
<1>5. Update(SetScanner(snap, s, entry))  BY DEF PassBegins, ScannerRunning
<1> HIDE DEF old, entry, snap
<1>6. SetScanner(snap, s, entry) \in File  BY <1>3, <1>4, SetScannerKeeps
<1> QED BY <1>5, <1>6, UpdateLeaves DEF Base

(* The entry of a finished scanner. *)
Final(s) == [status |-> ReportedStatus(s), pass |-> pass[s], found |-> Cardinality(kept[s])]

LEMMA FinalIsEntry ==
  ASSUME Base, NEW s \in Scanners
  PROVE  Final(s) \in Entry /\ Cardinality(kept[s]) \in Nat
<1>1. Cardinality(kept[s]) \in Nat  BY FS_CardinalityType DEF Base, ScannerTypes
<1>2. pass[s] \in Nat  BY FanoutAssumption DEF Base, ScannerTypes
<1>3. ReportedStatus(s) \in Statuses  BY DEF ReportedStatus, Statuses
<1> QED BY <1>1, <1>2, <1>3 DEF Final, Entry

LEMMA CallbackTypes ==
  ASSUME Base, NEW s \in Scanners, CallbackReturns(s)
  PROVE  FileTypes'
<1>1. Update(SetScanner(Snapshot, s, Final(s)))
  BY DEF CallbackReturns, ScannerComplete, Final
<1>2. SetScanner(Snapshot, s, Final(s)) \in File
  BY FinalIsEntry, SnapshotKeeps, SetScannerKeeps DEF Base
<1> QED BY <1>1, <1>2, UpdateLeaves DEF Base

(* Scanners are finitely many, so whoever holds something can be counted. *)
LEMMA CountedFinite ==
  /\ IsFiniteSet(Holding) /\ Cardinality(Holding) \in Nat
  /\ IsFiniteSet(Registered) /\ Cardinality(Registered) \in Nat
<1>1. IsFiniteSet(Scanners)
  BY FanoutAssumption, FS_Interval DEF Scanners
<1>2. Holding \in SUBSET Scanners /\ Registered \in SUBSET Scanners
  BY DEF Holding, Registered
<1>3. IsFiniteSet(Holding) /\ IsFiniteSet(Registered)
  BY <1>1, <1>2, FS_Subset
<1> QED BY <1>3, FS_CardinalityType

(* The comments a pass returns are finitely many. *)
LEMMA PassReports ==
  ASSUME Base, NEW s \in Scanners, at[s] = "pass", NEW report \in Reports
  PROVE  {<<pass[s], i>> : i \in report} \in SUBSET ((1..MaxPasses) \X Issues)
         /\ IsFiniteSet({<<pass[s], i>> : i \in report})
<1> DEFINE n == pass[s]
           f == [i \in report |-> <<n, i>>]
           comments == {<<n, i>> : i \in report}
<1>1. n \in 1..MaxPasses  BY FanoutAssumption DEF Base, ScannerTypes, Control
<1>2. report \subseteq Issues /\ IsFiniteSet(report)  BY FanoutAssumption
<1> HIDE DEF n
<1>3. comments \in SUBSET ((1..MaxPasses) \X Issues)  BY <1>1, <1>2
<1>4. f \in Surjection(report, comments)  BY DEF Surjection
<1>5. IsFiniteSet(comments)  BY <1>2, <1>4, FS_Surjection
<1> QED BY <1>3, <1>5 DEF n

LEMMA PassSucceedsTypes ==
  ASSUME Base, NEW s \in Scanners, PassSucceeds(s)
  PROVE  ScannerTypes' /\ Control'
<1> USE DEF Base
<1>1. at[s] = "pass" /\ main = "fan"
  BY OnlyWhileFanning DEF PassSucceeds
<1>2. PICK report \in Reports :
        LET comments == {<<pass[s], i>> : i \in report}
        IN  /\ reported' = [reported EXCEPT ![s] = @ \cup comments]
            /\ \/ /\ s \notin exhaustive
                  /\ Keep(s, comments, "exit")
                  /\ UNCHANGED dropped
               \/ /\ s \in exhaustive /\ StopsAfter(s, comments)
                  /\ dropped' = [dropped EXCEPT ![s] = comments]
                  /\ Keep(s, {}, "exit")
               \/ /\ s \in exhaustive /\ ~StopsAfter(s, comments)
                  /\ Keep(s, comments, IF pass[s] < MaxPasses THEN "begin" ELSE "exit")
                  /\ UNCHANGED dropped
  BY DEF PassSucceeds
<1> DEFINE comments == {<<pass[s], i>> : i \in report}
<1>3. comments \in SUBSET ((1..MaxPasses) \X Issues) /\ IsFiniteSet(comments)
  BY <1>1, PassReports
<1> HIDE DEF comments
<1>4. reported' = [reported EXCEPT ![s] = @ \cup comments]
      /\ (dropped' = dropped \/ dropped' = [dropped EXCEPT ![s] = comments])
      /\ \E K \in {comments, {}}, next \in {"begin", "exit"} :
           Keep(s, K, next) /\ (next = "begin" => pass[s] < MaxPasses)
  BY <1>2 DEF comments
<1>5. PICK K \in {comments, {}}, next \in {"begin", "exit"} :
           Keep(s, K, next) /\ (next = "begin" => pass[s] < MaxPasses)
  BY <1>4
<1>6. K \in SUBSET ((1..MaxPasses) \X Issues) /\ IsFiniteSet(K)
  BY <1>3, <1>5, FS_EmptySet
<1>7. UNCHANGED <<pass, err, results, launched, main, file>>
  BY DEF PassSucceeds, mainVars, progVars
<1>8. kept' \in [Scanners -> SUBSET ((1..MaxPasses) \X Issues)]
      /\ at' \in [Scanners -> Places]
  BY <1>5, <1>6 DEF Keep, ScannerTypes, Places
<1>9. \A t \in Scanners : IsFiniteSet(kept'[t])
  BY <1>5, <1>6, FS_Union DEF Keep, ScannerTypes
<1>10. reported' \in [Scanners -> SUBSET ((1..MaxPasses) \X Issues)]
       /\ dropped' \in [Scanners -> SUBSET ((1..MaxPasses) \X Issues)]
  BY <1>3, <1>4 DEF ScannerTypes
<1>11. ScannerTypes'  BY <1>7, <1>8, <1>9, <1>10 DEF ScannerTypes
<1>12. Control'  BY <1>1, <1>5, <1>7 DEF Keep, Control, ScannerTypes
<1> QED BY <1>11, <1>12

LEMMA BaseStep == Base /\ Counters /\ [Next]_vars => Base'
<1> SUFFICES ASSUME Base, Counters, [Next]_vars PROVE Base'  OBVIOUS
<1> USE FanoutAssumption DEF Base
<1>1. CASE StartRun
  <2> DEFINE entries == [s \in Scanners |-> [status |-> "pending", pass |-> 0, found |-> 0]]
             snap == [stage |-> "scanners", arbiter |-> "pending", scanners |-> entries]
  <2>1. entries \in [Scanners -> Entry]  BY DEF Entry, Statuses
  <2>2. snap \in File /\ Write(snap)
    BY <1>1, <2>1 DEF File, Stages, StartRun, ProgressStart
  <2>3. FileTypes'  BY <2>2, WriteLeaves
  <2>4. RunTypes' /\ ScannerTypes'
    BY <1>1 DEF StartRun, RunTypes, ScannerTypes, settings, semVars, scanVars, Mains
  <2>5. Control'
    BY <1>1 DEF StartRun, Control, scanVars
  <2> QED BY <2>3, <2>4, <2>5
<1>2. CASE Launch
  <2>1. launched + 1 \in Scanners /\ launched' = launched + 1
        /\ at' = [at EXCEPT ![launched + 1] = "begin"]
    BY <1>2 DEF Launch, RunTypes, Scanners
  <2>2. RunTypes' /\ ScannerTypes' /\ FileTypes'
    BY <1>2, <2>1 DEF Launch, RunTypes, ScannerTypes, FileTypes, settings, progVars, Places
  <2>3. at[launched + 1] = "none"  BY <2>1 DEF Control, RunTypes
  <2>4. \A s \in Scanners : at'[s] = IF s = launched + 1 THEN "begin" ELSE at[s]
    BY <2>1 DEF ScannerTypes
  <2>5. \A s \in Scanners : s \in Int /\ launched \in Int
    BY DEF Scanners, RunTypes
  <2>6. Control'
    BY <1>2, <2>1, <2>3, <2>4, <2>5 DEF Launch, Control, progVars
  <2> QED BY <2>2, <2>6
<1>3. CASE Aggregate
  <2>1. \A s \in Scanners : at[s] = "gone"
    <3>1. Cardinality(Registered) = 0 /\ launched = NumScanners
      BY <1>3 DEF Aggregate, AllDone, Counters
    <3>2. IsFiniteSet(Registered)
      BY CountedFinite
    <3>3. Registered = {}  BY <3>1, <3>2, FS_EmptySet
    <3>4. \A s \in Scanners : at[s] # "none"  BY <3>1 DEF Control, Scanners
    <3> QED BY <3>3, <3>4 DEF Registered
  <2>2. \A s \in Scanners : \A c \in kept[s] :
          <<s, c[1], c[2]>> \in Scanners \X (1..MaxPasses) \X Issues
    BY DEF ScannerTypes
  <2>3. UNION {{<<s, c[1], c[2]>> : c \in kept[s]} : s \in Scanners}
          \subseteq Scanners \X (1..MaxPasses) \X Issues
    BY <2>2
  <2>4. RunTypes'
    BY <1>3, <2>3 DEF Aggregate, RunTypes, settings, semVars, Mains
  <2>5. ScannerTypes' /\ FileTypes'
    BY <1>3 DEF Aggregate, ScannerTypes, FileTypes, scanVars, progVars
  <2>6. Control'
    BY <1>3, <2>1 DEF Aggregate, Control, scanVars, progVars
  <2> QED BY <2>4, <2>5, <2>6
<1>4. CASE FailRun \/ ArbiterStarts \/ ArbiterEnds \/ CompleteRun
  <2>1. FileTypes'
    <3>1. CASE FailRun
      <4> DEFINE snap == [stage |-> "failed", scanners |-> file.scanners,
                          arbiter |-> IF file = Unreadable THEN "pending" ELSE file.arbiter]
      <4>1. snap \in File  BY DEF FileTypes, File, Stages
      <4> QED BY <3>1, <4>1, WriteLeaves DEF FailRun, ProgressFail
    <3>2. ASSUME NEW status \in {"running", "ok", "partial", "failed"},
                 ProgressArbiter(status)
          PROVE  FileTypes'
      <4>1. [Snapshot EXCEPT !.stage = "arbiter", !.arbiter = status] \in File
        BY SnapshotKeeps DEF File, Stages
      <4> QED BY <3>2, <4>1, UpdateLeaves DEF ProgressArbiter
    <3>3. CASE CompleteRun
      <4>1. [Snapshot EXCEPT !.stage = "complete"] \in File
        BY SnapshotKeeps DEF File, Stages
      <4> QED BY <3>3, <4>1, UpdateLeaves DEF CompleteRun, ProgressComplete
    <3> QED BY <1>4, <3>1, <3>2, <3>3 DEF ArbiterStarts, ArbiterEnds
  <2>2. RunTypes' /\ ScannerTypes' /\ UNCHANGED <<at, pass, launched>>
        /\ main \notin {"start", "fan"} /\ main' \notin {"start", "fan"}
    BY <1>4 DEF FailRun, ArbiterStarts, ArbiterEnds, CompleteRun, RunTypes, ScannerTypes,
       settings, semVars, scanVars, Mains
  <2>3. Control'  BY <2>2 DEF Control
  <2> QED BY <2>1, <2>2, <2>3
<1>5. ASSUME NEW s \in Scanners, ScannerStep(s)  PROVE Base'
  <2>1. at[s] \notin {"none", "gone"}
    BY <1>5 DEF ScannerStep, PassBegins, PassSucceeds, PassFails, CallbackReturns,
       StoreResult, Release, WgDone
  <2>2. main = "fan"  BY <2>1, OnlyWhileFanning
  <2>3. RunTypes'
    BY <1>5 DEF ScannerStep, PassBegins, PassSucceeds, PassFails, CallbackReturns,
       StoreResult, Release, WgDone, RunTypes, settings, mainVars, semVars
  <2>4. CASE PassBegins(s)
    <3>1. ScannerTypes'  BY <2>4 DEF PassBegins, ScannerTypes, Control, Places
    <3>2. Control'
      BY <2>2, <2>4 DEF PassBegins, ScannerTypes, Control, mainVars
    <3> QED BY <2>3, <2>4, <3>1, <3>2, RunningTypes
  <2>5. CASE PassSucceeds(s)
    BY <2>3, <2>5, PassSucceedsTypes DEF PassSucceeds, FileTypes, progVars
  <2>6. CASE PassFails(s)
    <3>1. kept' = [kept EXCEPT ![s] = @ \cup {}] /\ kept' = kept
          /\ at' = [at EXCEPT ![s] = "exit"]
      BY <2>6 DEF PassFails, Keep, ScannerTypes
    <3>2. ScannerTypes' /\ FileTypes'
      BY <2>6, <3>1 DEF PassFails, ScannerTypes, FileTypes, progVars, Places
    <3>3. Control'
      BY <2>2, <2>6, <3>1 DEF PassFails, ScannerTypes, Control, mainVars, progVars
    <3> QED BY <2>3, <3>2, <3>3
  <2>7. CASE CallbackReturns(s)
    <3>1. ScannerTypes'  BY <2>7 DEF CallbackReturns, ScannerTypes, Places
    <3>2. Control'
      BY <2>2, <2>7 DEF CallbackReturns, ScannerTypes, Control, mainVars
    <3> QED BY <2>3, <2>7, <3>1, <3>2, CallbackTypes
  <2>8. CASE StoreResult(s)
    <3>1. Cardinality(kept[s]) \in Nat  BY FinalIsEntry
    <3>2. ScannerTypes' /\ FileTypes'
      BY <2>8, <3>1 DEF StoreResult, ResultStatus, ScannerTypes, FileTypes, progVars, Places
    <3>3. Control'
      BY <2>2, <2>8 DEF StoreResult, ScannerTypes, Control, mainVars
    <3> QED BY <2>3, <3>2, <3>3
  <2>9. CASE Release(s) \/ WgDone(s)
    <3>1. ScannerTypes' /\ FileTypes'
      BY <2>9 DEF Release, WgDone, ScannerTypes, FileTypes, progVars, Places
    <3>2. Control'
      BY <2>2, <2>9 DEF Release, WgDone, ScannerTypes, Control, mainVars
    <3> QED BY <2>3, <3>1, <3>2
  <2> QED BY <1>5, <2>4, <2>5, <2>6, <2>7, <2>8, <2>9 DEF ScannerStep
<1>6. CASE UNCHANGED vars
  BY <1>6 DEF vars, settings, mainVars, semVars, scanVars, progVars, RunTypes, ScannerTypes,
     FileTypes, Control
<1> QED BY <1>1, <1>2, <1>3, <1>4, <1>5, <1>6 DEF Next, MainStep
-------------------------------------------------------------------------------
(* Layer 2. *)

LEMMA CountersInit == Init => Counters
<1> SUFFICES ASSUME Init PROVE Counters  OBVIOUS
<1> USE FanoutAssumption
<1>1. Holding = {} /\ Registered = {}  BY DEF Init, Holding, Registered
<1>2. FanOut \in Int /\ FanOut >= 0 /\ FanOut <= NumScanners
  BY ShareFits DEF Init, FanOut, AtMost, AtLeastOne
<1> QED BY <1>1, <1>2, FS_EmptySet DEF Init, Counters

LEMMA CountersStep == Base /\ Counters /\ [Next]_vars => Counters'
<1> SUFFICES ASSUME Base, Counters, [Next]_vars PROVE Counters'  OBVIOUS
<1> USE DEF Base
<1>0. UNCHANGED <<concurrency, serial>>
  BY DEF Next, MainStep, ScannerStep, StartRun, Launch, Aggregate, FailRun, ArbiterStarts,
     ArbiterEnds, CompleteRun, PassBegins, PassSucceeds, PassFails, CallbackReturns,
     StoreResult, Release, WgDone, settings, vars
<1>1. FanOut' = FanOut /\ FanOut \in Int
  <2>1. concurrency \in Int  BY FanoutAssumption DEF RunTypes
  <2> QED BY <1>0, <2>1, ShareFits DEF FanOut, PerScanner
<1>2. CASE Launch
  <2> DEFINE s == launched + 1
  <2>1. s \in Scanners /\ at' = [at EXCEPT ![s] = "begin"]
        /\ tokens' = tokens + 1 /\ wg' = wg + 1 /\ tokens < FanOut
    BY <1>2, FanoutAssumption DEF Launch, RunTypes, Scanners, SlotFree
  <2>2. at[s] = "none"  BY <2>1 DEF Control, RunTypes
  <2> HIDE DEF s
  <2>3. s \notin Holding /\ s \notin Registered  BY <2>2 DEF Holding, Registered
  <2>4. Holding' = Holding \cup {s} /\ Registered' = Registered \cup {s}
    BY <2>1 DEF Holding, Registered, ScannerTypes
  <2>5. Cardinality(Holding') = Cardinality(Holding) + 1
        /\ Cardinality(Registered') = Cardinality(Registered) + 1
    BY <2>3, <2>4, CountedFinite, FS_AddElement
  <2> QED BY <1>1, <2>1, <2>5, CountedFinite DEF Counters
<1>3. ASSUME NEW s \in Scanners, Release(s)  PROVE Counters'
  <2>1. at[s] = "release" /\ at' = [at EXCEPT ![s] = "release_wg"]
        /\ tokens' = tokens - 1 /\ wg' = wg
    BY <1>3 DEF Release
  <2>2. s \in Holding /\ Holding' = Holding \ {s} /\ Registered' = Registered
    BY <2>1 DEF Holding, Registered, ScannerTypes
  <2>3. Cardinality(Holding') = Cardinality(Holding) - 1
    BY <2>2, CountedFinite, FS_RemoveElement
  <2> QED BY <1>1, <2>1, <2>2, <2>3, CountedFinite DEF Counters
<1>4. ASSUME NEW s \in Scanners, WgDone(s)  PROVE Counters'
  <2>1. at[s] = "release_wg" /\ at' = [at EXCEPT ![s] = "gone"]
        /\ tokens' = tokens /\ wg' = wg - 1
    BY <1>4 DEF WgDone
  <2>2. s \in Registered /\ Registered' = Registered \ {s} /\ Holding' = Holding
    BY <2>1 DEF Holding, Registered, ScannerTypes
  <2>3. Cardinality(Registered') = Cardinality(Registered) - 1
    BY <2>2, CountedFinite, FS_RemoveElement
  <2> QED BY <1>1, <2>1, <2>2, <2>3, CountedFinite DEF Counters
<1>5. ASSUME NEW s \in Scanners,
             PassBegins(s) \/ PassSucceeds(s) \/ PassFails(s) \/ CallbackReturns(s)
               \/ StoreResult(s)
      PROVE  Counters'
  <2>1. /\ UNCHANGED <<tokens, wg>>
        /\ at[s] \in {"begin", "pass", "exit", "returned"}
        /\ \E p \in {"begin", "pass", "exit", "returned", "release"} :
             at' = [at EXCEPT ![s] = p]
    BY <1>5 DEF PassBegins, PassSucceeds, PassFails, CallbackReturns, StoreResult, Keep, semVars
  <2>2. Holding' = Holding /\ Registered' = Registered
    BY <2>1 DEF Holding, Registered, ScannerTypes
  <2> QED BY <1>1, <2>1, <2>2 DEF Counters
<1>6. CASE StartRun \/ Aggregate \/ FailRun \/ ArbiterStarts \/ ArbiterEnds \/ CompleteRun
           \/ UNCHANGED vars
  <2>1. UNCHANGED <<tokens, wg, at>>
    BY <1>6 DEF StartRun, Aggregate, FailRun, ArbiterStarts, ArbiterEnds, CompleteRun,
       semVars, scanVars, vars
  <2>2. Holding' = Holding /\ Registered' = Registered
    BY <2>1 DEF Holding, Registered
  <2> QED BY <1>1, <2>1, <2>2 DEF Counters
<1> QED BY <1>2, <1>3, <1>4, <1>5, <1>6 DEF Next, MainStep, ScannerStep
-------------------------------------------------------------------------------
(* Layer 3. *)

LEMMA FindingsInit == Init => Findings /\ Answer
<1> SUFFICES ASSUME Init PROVE Findings /\ Answer  OBVIOUS
<1>1. ASSUME NEW s \in Scanners
      PROVE  /\ reported[s] = {} /\ dropped[s] = {} /\ ~err[s] /\ at[s] = "none"
  BY DEF Init
<1>2. Findings  BY <1>1 DEF Findings
<1>3. Answer  BY DEF Init, Answer
<1> QED BY <1>2, <1>3

(* A stored result says how the scanner ended and how much it found. *)
LEMMA ResultSays ==
  ASSUME Findings, NEW s \in Scanners, at[s] \in {"release", "release_wg", "gone"}
  PROVE  results[s].status = ResultStatus(s) /\ results[s].found = Cardinality(kept[s])
<1> DEFINE status == ResultStatus(s)
           found == Cardinality(kept[s])
<1>1. results[s] = [status |-> status, found |-> found]  BY DEF Findings
<1> HIDE DEF status, found
<1>2. results[s].status = status /\ results[s].found = found  BY <1>1
<1> QED BY <1>2 DEF status, found

(* What a step does with one scanner's findings it does with no other's. *)
LEMMA FindingsStep == Base /\ Findings /\ [Next]_vars => Findings'
<1> SUFFICES ASSUME Base, Findings, [Next]_vars PROVE Findings'  OBVIOUS
<1> USE DEF Base
<1>1. CASE Launch
  <2>1. /\ launched + 1 \in Scanners /\ at' = [at EXCEPT ![launched + 1] = "begin"]
        /\ UNCHANGED <<kept, err, results, reported, dropped>>
    BY <1>1, FanoutAssumption DEF Launch, RunTypes, Scanners
  <2>2. at[launched + 1] = "none"  BY <2>1 DEF Control, RunTypes
  <2> QED BY <2>1, <2>2 DEF Findings, ScannerTypes, ResultStatus
<1>2. ASSUME NEW s \in Scanners, PassBegins(s) \/ CallbackReturns(s)  PROVE Findings'
  BY <1>2 DEF PassBegins, CallbackReturns, Findings, ScannerTypes, ResultStatus
<1>3. ASSUME NEW s \in Scanners, PassSucceeds(s)  PROVE Findings'
  <2>1. PICK comments :
          /\ reported' = [reported EXCEPT ![s] = @ \cup comments]
          /\ \/ /\ kept' = [kept EXCEPT ![s] = @ \cup comments]
                /\ UNCHANGED dropped
             \/ /\ dropped' = [dropped EXCEPT ![s] = comments]
                /\ kept' = [kept EXCEPT ![s] = @ \cup {}]
          /\ \E p \in {"begin", "exit"} :
               /\ at' = [at EXCEPT ![s] = p]
               /\ p = "begin" => UNCHANGED dropped
    BY <1>3 DEF PassSucceeds, Keep
  <2>2. at[s] = "pass" /\ UNCHANGED <<err, results>>  BY <1>3 DEF PassSucceeds
  <2>3. ~err[s] /\ dropped[s] = {}  BY <2>2 DEF Findings
  <2>4. \A t \in Scanners \ {s} : UNCHANGED <<reported[t], kept[t], dropped[t], at[t]>>
    BY <2>1 DEF ScannerTypes
  <2>5. reported'[s] \subseteq kept'[s] \cup dropped'[s]
    BY <2>1, <2>3 DEF Findings, ScannerTypes
  <2>6. at'[s] \in {"begin", "exit"} /\ (at'[s] = "begin" => dropped'[s] = {})
    BY <2>1, <2>3 DEF ScannerTypes
  <2> QED BY <2>2, <2>3, <2>4, <2>5, <2>6 DEF Findings, ResultStatus
<1>4. ASSUME NEW s \in Scanners, PassFails(s)  PROVE Findings'
  <2>1. /\ kept' = [kept EXCEPT ![s] = @ \cup {}] /\ kept' = kept
        /\ at[s] = "pass" /\ at' = [at EXCEPT ![s] = "exit"]
        /\ err' = [err EXCEPT ![s] = TRUE]
        /\ UNCHANGED <<results, reported, dropped>>
    BY <1>4 DEF PassFails, Keep, ScannerTypes
  <2> QED BY <2>1 DEF Findings, ScannerTypes, ResultStatus
<1>5. ASSUME NEW s \in Scanners, StoreResult(s)  PROVE Findings'
  BY <1>5 DEF StoreResult, Findings, ScannerTypes, ResultStatus
<1>6. ASSUME NEW s \in Scanners, Release(s) \/ WgDone(s)  PROVE Findings'
  BY <1>6 DEF Release, WgDone, Findings, ScannerTypes, ResultStatus
<1>7. CASE StartRun \/ Aggregate \/ FailRun \/ ArbiterStarts \/ ArbiterEnds \/ CompleteRun
           \/ UNCHANGED vars
  <2>1. UNCHANGED scanVars
    BY <1>7 DEF StartRun, Aggregate, FailRun, ArbiterStarts, ArbiterEnds, CompleteRun, vars
  <2> QED BY <2>1 DEF scanVars, Findings, ResultStatus
<1> QED BY <1>1, <1>2, <1>3, <1>4, <1>5, <1>6, <1>7 DEF Next, MainStep, ScannerStep

LEMMA AnswerStep == Base /\ Answer /\ [Next]_vars => Answer'
<1> SUFFICES ASSUME Base, Answer, [Next]_vars PROVE Answer'  OBVIOUS
<1>1. ASSUME NEW s \in Scanners, ScannerStep(s)  PROVE Answer'
  <2>1. at[s] \notin {"none", "gone"} /\ main' = main
    BY <1>1 DEF ScannerStep, PassBegins, PassSucceeds, PassFails, CallbackReturns,
       StoreResult, Release, WgDone, mainVars
  <2> QED BY <2>1, OnlyWhileFanning DEF Answer
<1>2. CASE Aggregate
  BY <1>2 DEF Aggregate, Answer, Succeeded, scanVars
<1>3. CASE StartRun \/ Launch
  BY <1>3 DEF StartRun, Launch, Answer
<1>4. CASE FailRun \/ ArbiterStarts \/ ArbiterEnds \/ CompleteRun \/ UNCHANGED vars
  BY <1>4 DEF FailRun, ArbiterStarts, ArbiterEnds, CompleteRun, vars, mainVars, scanVars,
     Answer, Succeeded
<1> QED BY <1>1, <1>2, <1>3, <1>4 DEF Next, MainStep
-------------------------------------------------------------------------------
(* Every reachable state of the fan-out satisfies the invariant. *)
THEOREM FanoutInvariant == Spec => []Inv
<1>1. Init => Inv
  BY BaseInit, CountersInit, FindingsInit DEF Inv
<1>2. Inv /\ [Next]_vars => Inv'
  BY BaseStep, CountersStep, FindingsStep, AnswerStep DEF Inv
<1> QED BY <1>1, <1>2, PTL DEF Spec

(* TypeOK: the fan-out's variables keep their types; in particular the WaitGroup
   never goes negative and the progress file is always one of those the reporter
   writes. *)
THEOREM TypeCorrect == Spec => []TypeOK
<1>1. Inv => TypeOK
  <2> SUFFICES ASSUME Inv PROVE TypeOK  OBVIOUS
  <2>1. tokens \in 0..NumScanners /\ wg \in 0..NumScanners
    <3>1. Registered \in SUBSET Scanners /\ IsFiniteSet(Scanners)
          /\ Cardinality(Scanners) = NumScanners
      BY FanoutAssumption, FS_Interval DEF Registered, Scanners
    <3>2. Cardinality(Registered) <= NumScanners  BY <3>1, FS_Subset
    <3> QED BY <3>2, CountedFinite, FanoutAssumption, ShareFits
         DEF Inv, Base, RunTypes, Counters
  <2>2. /\ file.stage \in Stages
        /\ DOMAIN file.scanners \in {{}, Scanners}
        /\ \A s \in DOMAIN file.scanners : file.scanners[s].status \in Statuses
    BY FileFacts DEF Inv, Base, FileTypes, File, Entry
  <2> QED BY <2>1, <2>2 DEF Inv, Base, RunTypes, ScannerTypes, FileTypes, TypeOK, Mains, Places, Stages
<1> QED BY <1>1, FanoutInvariant, PTL

(* BudgetKept: whatever --concurrency and however many scanners, the file
   goroutines of all running agents together stay within --concurrency. *)
THEOREM BudgetCorrect == Spec => []BudgetKept
<1>1. Inv => BudgetKept
  <2> SUFFICES ASSUME Inv PROVE BudgetKept  OBVIOUS
  <2>1. Running \in SUBSET Holding  BY DEF Running, Holding
  <2>2. Cardinality(Running) \in Nat /\ Cardinality(Running) <= Cardinality(Holding)
    BY <2>1, CountedFinite, FS_Subset, FS_CardinalityType
  <2>3. concurrency \in Int  BY FanoutAssumption DEF Inv, Base, RunTypes
  <2>4. FanOut \in Int /\ PerScanner \in Nat \ {0} /\ AtLeastOne(concurrency) \in Int
        /\ FanOut * PerScanner <= AtLeastOne(concurrency)
    BY <2>3, ShareFits DEF AtLeastOne
  <2>5. Cardinality(Running) <= FanOut
    BY <2>2, <2>4, CountedFinite DEF Inv, Counters
  <2>6. Cardinality(Running) * PerScanner <= FanOut * PerScanner
    BY <2>2, <2>4, <2>5
  <2>7. Cardinality(Running) * PerScanner \in Int /\ FanOut * PerScanner \in Int
    BY <2>2, <2>4
  <2> QED BY <2>4, <2>6, <2>7 DEF BudgetKept
<1> QED BY <1>1, FanoutInvariant, PTL

(* ReachesDedup: what a pass returned is part of the answer unless an exhaustive
   loop discarded it, and the run fails only when every scanner failed and none
   returned anything. *)
THEOREM FindingsReachDedup == Spec => []ReachesDedup
<1>1. Inv => ReachesDedup
  <2> SUFFICES ASSUME Inv PROVE ReachesDedup  OBVIOUS
  <2> USE DEF Inv
  <2>1. ASSUME main \in {"arbiter", "judging", "closing", "done"},
               NEW s \in Scanners, NEW c \in reported[s] \ dropped[s]
        PROVE  <<s, c[1], c[2]>> \in raw
    <3>1. c \in kept[s]  BY <2>1 DEF Findings
    <3>2. raw = UNION {{<<t, d[1], d[2]>> : d \in kept[t]} : t \in Scanners}
      BY <2>1 DEF Answer
    <3> QED BY <3>1, <3>2
  <2>2. ASSUME main \in {"failing", "failed"}, NEW s \in Scanners
        PROVE  err[s] /\ reported[s] = {}
    <3>1. at[s] = "gone"  BY <2>2 DEF Base, Control
    <3>2. results[s].status = ResultStatus(s)  BY <3>1, ResultSays
    <3>3. results[s].status \notin {"ok", "partial"}  BY <2>2 DEF Answer, Succeeded
    <3>4. err[s] /\ kept[s] = {}  BY <3>2, <3>3 DEF ResultStatus
    <3> QED BY <3>4 DEF Findings
  <2> QED BY <2>1, <2>2 DEF ReachesDedup
<1> QED BY <1>1, FanoutInvariant, PTL
-------------------------------------------------------------------------------
(***************************************************************************)
(* What the progress file tells a poller, for every number of scanners and *)
(* of failed writes.                                                       *)
(***************************************************************************)

(* What the file says of a scanner is what its result says or will say; without a
   failed write it says so of every scanner that has finished. *)
Told ==
  /\ \A s \in DOMAIN file.scanners :
       file.scanners[s].status \in {"ok", "partial", "error"} =>
         /\ Finished(s)
         /\ file.scanners[s].status = ReportedStatus(s)
         /\ file.scanners[s].found = Cardinality(kept[s])
  /\ faults = 0 /\ main # "start" =>
       /\ DOMAIN file.scanners = Scanners
       /\ \A s \in Scanners : Finished(s) => file.scanners[s].status = ReportedStatus(s)

(* How far the stage can be, given where main is. *)
Staged ==
  /\ main \in {"start", "fan", "failing", "arbiter"} => Rank(file.stage) <= 1
  /\ main \in {"judging", "closing"} => Rank(file.stage) <= 2
-------------------------------------------------------------------------------
LEMMA ToldInit == Init => Told /\ Staged
<1> SUFFICES ASSUME Init PROVE Told /\ Staged  OBVIOUS
<1>1. file = Missing /\ main = "start" /\ DOMAIN file.scanners = {}
      /\ file.stage = "missing"
  BY FileFacts DEF Init, Missing
<1> QED BY <1>1 DEF Told, Staged, Rank

(* What a finished scanner found and how it ended does not change any more. *)
LEMMA FinishedStays ==
  ASSUME Base, [Next]_vars, NEW s \in Scanners, Finished(s)
  PROVE  Finished(s)' /\ kept'[s] = kept[s] /\ ReportedStatus(s)' = ReportedStatus(s)
<1> USE DEF Base
<1>1. Finished(s)' /\ kept'[s] = kept[s] /\ err'[s] = err[s]
  <2>1. CASE Launch
    <3>1. /\ launched + 1 \in Scanners /\ at' = [at EXCEPT ![launched + 1] = "begin"]
          /\ UNCHANGED <<kept, err>>
      BY <2>1, FanoutAssumption DEF Launch, RunTypes, Scanners
    <3>2. at[launched + 1] = "none"  BY <3>1 DEF Control, RunTypes
    <3> QED BY <3>1, <3>2 DEF Finished, ScannerTypes
  <2>2. ASSUME NEW t \in Scanners, PassBegins(t) \/ PassSucceeds(t) \/ PassFails(t)
        PROVE  Finished(s)' /\ kept'[s] = kept[s] /\ err'[s] = err[s]
    <3>1. t # s  BY <2>2 DEF PassBegins, PassSucceeds, PassFails, Finished
    <3>2. at'[s] = at[s] /\ kept'[s] = kept[s] /\ err'[s] = err[s]
      BY <2>2, <3>1 DEF PassBegins, PassSucceeds, PassFails, Keep, ScannerTypes
    <3> QED BY <3>2 DEF Finished
  <2>3. ASSUME NEW t \in Scanners,
               CallbackReturns(t) \/ StoreResult(t) \/ Release(t) \/ WgDone(t)
        PROVE  Finished(s)' /\ kept'[s] = kept[s] /\ err'[s] = err[s]
    BY <2>3 DEF CallbackReturns, StoreResult, Release, WgDone, Finished, ScannerTypes
  <2>4. CASE StartRun \/ Aggregate \/ FailRun \/ ArbiterStarts \/ ArbiterEnds \/ CompleteRun
             \/ UNCHANGED vars
    <3>1. UNCHANGED scanVars
      BY <2>4 DEF StartRun, Aggregate, FailRun, ArbiterStarts, ArbiterEnds, CompleteRun, vars
    <3> QED BY <3>1 DEF scanVars, Finished
  <2> QED BY <2>1, <2>2, <2>3, <2>4 DEF Next, MainStep, ScannerStep
<1> QED BY <1>1 DEF ReportedStatus

(* A step that leaves the file alone, or writes the same entries, or none. *)
LEMMA SameEntriesTold ==
  ASSUME Base, Base', Told, [Next]_vars,
         file'.scanners = file.scanners \/ DOMAIN file'.scanners = {},
         faults' = 0 /\ main' # "start" =>
           faults = 0 /\ main # "start" /\ file'.scanners = file.scanners,
         \A s \in Scanners : Finished(s)' => Finished(s)
  PROVE  Told'
<1>1. DOMAIN file.scanners \subseteq Scanners /\ DOMAIN file'.scanners \subseteq Scanners
  BY FileFacts DEF Base, FileTypes
<1>2. ASSUME NEW s \in DOMAIN file'.scanners,
             file'.scanners[s].status \in {"ok", "partial", "error"}
      PROVE  /\ Finished(s)'
             /\ file'.scanners[s].status = ReportedStatus(s)'
             /\ file'.scanners[s].found = Cardinality(kept'[s])
  <2>1. s \in DOMAIN file.scanners /\ file'.scanners = file.scanners  BY <1>2
  <2>2. Finished(s) /\ file.scanners[s].status = ReportedStatus(s)
        /\ file.scanners[s].found = Cardinality(kept[s])
    BY <1>2, <2>1 DEF Told
  <2> QED BY <1>1, <2>1, <2>2, FinishedStays
<1>3. ASSUME faults' = 0, main' # "start"
      PROVE  /\ DOMAIN file'.scanners = Scanners
             /\ \A s \in Scanners : Finished(s)' =>
                  file'.scanners[s].status = ReportedStatus(s)'
  <2>1. faults = 0 /\ main # "start" /\ file'.scanners = file.scanners  BY <1>3
  <2> QED BY <2>1, FinishedStays DEF Told
<1> QED BY <1>2, <1>3 DEF Told

LEMMA ToldStep == Base /\ Base' /\ Told /\ [Next]_vars => Told'
<1> SUFFICES ASSUME Base, Base', Told, [Next]_vars PROVE Told'  OBVIOUS
<1>0. FileTypes /\ ScannerTypes  BY DEF Base
<1>1. CASE StartRun
  <2> DEFINE entries == [s \in Scanners |-> [status |-> "pending", pass |-> 0, found |-> 0]]
             snap == [stage |-> "scanners", arbiter |-> "pending", scanners |-> entries]
  <2>1. entries \in [Scanners -> Entry]  BY DEF Entry, Statuses
  <2>2. snap \in File /\ Write(snap) /\ snap.scanners = entries
    BY <1>1, <2>1 DEF File, Stages, StartRun, ProgressStart
  <2>3. file' \in {snap, file, Unreadable} /\ (faults' = 0 => file' = snap)
    BY <1>0, <2>2, WriteLeaves
  <2>4. DOMAIN Unreadable.scanners = {} /\ DOMAIN file.scanners = {}
    BY <1>1, FileFacts DEF StartRun, Base, Control
  <2>5. \A s \in Scanners : ~Finished(s)'
    <3>1. \A s \in Scanners : at'[s] = at[s] /\ s > launched
      BY <1>1, FanoutAssumption DEF StartRun, scanVars, Base, Control, Scanners
    <3> QED BY <3>1 DEF Finished, Base, Control
  <2>6. \A s \in DOMAIN file'.scanners : file'.scanners[s].status = "pending"
    BY <2>2, <2>3, <2>4
  <2>7. faults' = 0 => DOMAIN file'.scanners = Scanners
    BY <2>2, <2>3
  <2> QED BY <2>5, <2>6, <2>7 DEF Told
<1>2. CASE FailRun \/ ArbiterStarts \/ ArbiterEnds \/ CompleteRun
  <2>1. PICK snap \in File : snap.scanners = file.scanners /\ (Write(snap) \/ Update(snap))
    <3>1. CASE FailRun
      <4> DEFINE snap == [stage |-> "failed", scanners |-> file.scanners,
                          arbiter |-> IF file = Unreadable THEN "pending" ELSE file.arbiter]
      <4>1. snap \in File  BY <1>0 DEF FileTypes, File, Stages
      <4> QED BY <3>1, <4>1 DEF FailRun, ProgressFail
    <3>2. ASSUME NEW status \in {"running", "ok", "partial", "failed"},
                 ProgressArbiter(status)
          PROVE  \E snap \in File : snap.scanners = file.scanners /\ Update(snap)
      <4> DEFINE snap == [Snapshot EXCEPT !.stage = "arbiter", !.arbiter = status]
      <4>1. snap \in File /\ snap.scanners = file.scanners
        BY <1>0, SnapshotKeeps DEF File, Stages
      <4> QED BY <3>2, <4>1 DEF ProgressArbiter
    <3>3. CASE CompleteRun
      <4> DEFINE snap == [Snapshot EXCEPT !.stage = "complete"]
      <4>1. snap \in File /\ snap.scanners = file.scanners
        BY <1>0, SnapshotKeeps DEF File, Stages
      <4> QED BY <3>3, <4>1 DEF CompleteRun, ProgressComplete
    <3> QED BY <1>2, <3>1, <3>2, <3>3 DEF ArbiterStarts, ArbiterEnds
  <2>2. /\ file' \in {snap, file, Unreadable}
        /\ faults' = 0 => faults = 0
        /\ faults' = 0 /\ file # Unreadable => file' = snap
    BY <1>0, <2>1, WriteLeaves, UpdateLeaves
  <2>3. main # "start" /\ UNCHANGED at
    BY <1>2 DEF FailRun, ArbiterStarts, ArbiterEnds, CompleteRun, scanVars
  <2>4. faults = 0 => file # Unreadable
    BY <2>3, FileFacts DEF Told
  <2>5. \A s \in Scanners : Finished(s)' => Finished(s)  BY <2>3 DEF Finished
  <2>6. file'.scanners = file.scanners \/ DOMAIN file'.scanners = {}
    BY <2>1, <2>2, FileFacts
  <2>7. faults' = 0 /\ main' # "start" =>
          faults = 0 /\ main # "start" /\ file'.scanners = file.scanners
    BY <2>1, <2>2, <2>3, <2>4
  <2> QED BY <2>5, <2>6, <2>7, SameEntriesTold
<1>3. CASE Launch \/ Aggregate \/ UNCHANGED vars
  <2>1. UNCHANGED <<file, faults>> /\ (main' # "start" => main # "start")
    BY <1>3 DEF Launch, Aggregate, progVars, mainVars, vars
  <2>2. \A s \in Scanners : Finished(s)' => Finished(s)
    BY <1>0, <1>3 DEF Launch, Aggregate, scanVars, vars, Finished, ScannerTypes
  <2> QED BY <2>1, <2>2, SameEntriesTold
<1>4. ASSUME NEW s \in Scanners,
             PassSucceeds(s) \/ PassFails(s) \/ StoreResult(s) \/ Release(s) \/ WgDone(s)
      PROVE  Told'
  <2>1. UNCHANGED <<file, faults, main>>
    BY <1>4 DEF PassSucceeds, PassFails, StoreResult, Release, WgDone, progVars, mainVars
  <2>2. \A t \in Scanners : Finished(t)' => Finished(t)
    BY <1>0, <1>4 DEF PassSucceeds, PassFails, StoreResult, Release, WgDone, Keep, Finished,
       ScannerTypes
  <2> QED BY <2>1, <2>2, SameEntriesTold
<1>5. ASSUME NEW s \in Scanners, PassBegins(s)  PROVE Told'
  <2> DEFINE old == IF s \in DOMAIN file.scanners THEN file.scanners[s].found ELSE 0
             entry == [status |-> "running", pass |-> pass[s] + 1, found |-> old]
             base == [Snapshot EXCEPT !.stage = "scanners"]
             snap == SetScanner(base, s, entry)
  <2>1. old \in Nat /\ pass[s] + 1 \in Nat
    BY <1>0, FileFacts, FanoutAssumption DEF FileTypes, Entry, ScannerTypes
  <2>2. entry \in Entry /\ entry.status = "running"  BY <2>1 DEF Entry, Statuses
  <2>3. base \in File /\ base.scanners = file.scanners
    BY <1>0, SnapshotKeeps DEF File, Stages
  <2>4. Update(snap) /\ UNCHANGED <<main, kept, err>> /\ at = [at EXCEPT ![s] = "begin"]
        /\ at' = [at EXCEPT ![s] = "pass"]
    BY <1>0, <1>5 DEF PassBegins, ScannerRunning, mainVars, ScannerTypes
  <2> HIDE DEF old, entry, base
  <2>5. /\ snap \in File /\ DOMAIN snap.scanners = DOMAIN file.scanners
        /\ \A t \in DOMAIN file.scanners :
             snap.scanners[t] = IF t = s THEN entry ELSE file.scanners[t]
    BY <2>2, <2>3, SetScannerKeeps
  <2> HIDE DEF snap
  <2>6. /\ file' \in {snap, file, Unreadable}
        /\ faults' = 0 => faults = 0
        /\ faults' = 0 /\ file # Unreadable => file' = snap
    BY <1>0, <2>4, <2>5, UpdateLeaves
  <2>7. \A t \in Scanners : /\ Finished(t)' <=> Finished(t)
                            /\ ReportedStatus(t)' = ReportedStatus(t)
                            /\ ~Finished(s)
    BY <1>0, <2>4 DEF Finished, ReportedStatus, ScannerTypes
  <2>8. DOMAIN file.scanners \subseteq Scanners /\ DOMAIN Unreadable.scanners = {}
    BY <1>0, FileFacts DEF FileTypes
  <2>9. ASSUME NEW t \in DOMAIN file'.scanners,
               file'.scanners[t].status \in {"ok", "partial", "error"}
        PROVE  /\ Finished(t)'
               /\ file'.scanners[t].status = ReportedStatus(t)'
               /\ file'.scanners[t].found = Cardinality(kept'[t])
    <3>1. t \in DOMAIN file.scanners /\ file'.scanners[t] = file.scanners[t]
      BY <2>2, <2>5, <2>6, <2>8, <2>9
    <3> QED BY <2>4, <2>7, <2>8, <2>9, <3>1 DEF Told
  <2>10. ASSUME faults' = 0, main' # "start"
         PROVE  /\ DOMAIN file'.scanners = Scanners
                /\ \A t \in Scanners : Finished(t)' =>
                     file'.scanners[t].status = ReportedStatus(t)'
    <3>1. faults = 0 /\ main # "start" /\ DOMAIN file.scanners = Scanners
      BY <2>4, <2>6, <2>10 DEF Told
    <3>2. file # Unreadable  BY <2>8, <3>1, FileFacts
    <3>3. file' = snap  BY <2>6, <2>10, <3>2
    <3> QED BY <2>5, <2>7, <3>1, <3>3 DEF Told
  <2> QED BY <2>9, <2>10 DEF Told
<1>6. ASSUME NEW s \in Scanners, CallbackReturns(s)  PROVE Told'
  <2> DEFINE snap == SetScanner(Snapshot, s, Final(s))
  <2>1. Final(s) \in Entry /\ Snapshot \in File /\ Snapshot.scanners = file.scanners
    BY <1>0, FinalIsEntry, SnapshotKeeps
  <2>2. /\ Update(snap) /\ UNCHANGED <<main, kept, err>>
        /\ at' = [at EXCEPT ![s] = "returned"]
    BY <1>6 DEF CallbackReturns, ScannerComplete, mainVars, Final
  <2>3. /\ snap \in File /\ DOMAIN snap.scanners = DOMAIN file.scanners
        /\ \A t \in DOMAIN file.scanners :
             snap.scanners[t] = IF t = s THEN Final(s) ELSE file.scanners[t]
    BY <2>1, SetScannerKeeps
  <2> HIDE DEF snap
  <2>4. /\ file' \in {snap, file, Unreadable}
        /\ faults' = 0 => faults = 0
        /\ faults' = 0 /\ file # Unreadable => file' = snap
    BY <1>0, <2>2, <2>3, UpdateLeaves
  <2>5. \A t \in Scanners : /\ Finished(t)' <=> (t = s \/ Finished(t))
                            /\ ReportedStatus(t)' = ReportedStatus(t)
    BY <1>0, <2>2 DEF Finished, ReportedStatus, ScannerTypes
  <2>6. Final(s).status = ReportedStatus(s) /\ Final(s).found = Cardinality(kept[s])
    BY DEF Final
  <2>7. DOMAIN file.scanners \subseteq Scanners /\ DOMAIN Unreadable.scanners = {}
    BY <1>0, FileFacts DEF FileTypes
  <2>8. ASSUME NEW t \in DOMAIN file'.scanners,
               file'.scanners[t].status \in {"ok", "partial", "error"}
        PROVE  /\ Finished(t)'
               /\ file'.scanners[t].status = ReportedStatus(t)'
               /\ file'.scanners[t].found = Cardinality(kept'[t])
    <3>1. t \in DOMAIN file.scanners
          /\ (file'.scanners[t] = file.scanners[t]
              \/ (t = s /\ file'.scanners[t] = Final(s)))
      BY <2>3, <2>4, <2>7, <2>8
    <3> QED BY <2>2, <2>5, <2>6, <2>7, <2>8, <3>1 DEF Told
  <2>9. ASSUME faults' = 0, main' # "start"
        PROVE  /\ DOMAIN file'.scanners = Scanners
               /\ \A t \in Scanners : Finished(t)' =>
                    file'.scanners[t].status = ReportedStatus(t)'
    <3>1. faults = 0 /\ main # "start" /\ DOMAIN file.scanners = Scanners
      BY <2>2, <2>4, <2>9 DEF Told
    <3>2. file # Unreadable  BY <2>7, <3>1, FileFacts
    <3>3. file' = snap  BY <2>4, <2>9, <3>2
    <3> QED BY <2>3, <2>5, <2>6, <3>1, <3>3 DEF Told
  <2> QED BY <2>8, <2>9 DEF Told
<1> QED BY <1>1, <1>2, <1>3, <1>4, <1>5, <1>6 DEF Next, MainStep, ScannerStep

(* The stage: what each step may write, given where main is. *)
LEMMA StagedStep ==
  ASSUME Base, Staged, [Next]_vars
  PROVE  Staged' /\ StageForward
<1>0. FileTypes  BY DEF Base
<1>1. Unreadable.stage = "unreadable" /\ file.stage \in Stages
  BY <1>0 DEF Unreadable, FileTypes, File
<1>2. CASE UNCHANGED <<file, main>>
  BY <1>1, <1>2 DEF Staged, StageForward, Rank, Stages
<1>3. CASE Launch \/ Aggregate
  <2>1. file' = file /\ main = "fan" /\ main' \in {"fan", "failing", "arbiter"}
    BY <1>3 DEF Launch, Aggregate, progVars
  <2> QED BY <1>1, <2>1 DEF Staged, StageForward, Rank, Stages
<1>4. CASE StartRun
  <2>1. /\ main = "start" /\ main' = "fan"
        /\ file' = Unreadable \/ file'.stage \in {file.stage, "scanners"}
    BY <1>4 DEF StartRun, ProgressStart, Write
  <2> QED BY <1>1, <2>1 DEF Staged, StageForward, Rank, Stages
<1>5. ASSUME NEW s \in Scanners, PassBegins(s)  PROVE Staged' /\ StageForward
  <2>1. main = "fan" /\ main' = "fan"
    BY <1>5, OnlyWhileFanning DEF PassBegins, mainVars
  <2>2. file' \in {file, Unreadable} \/ file'.stage = "scanners"
    <3> DEFINE old == IF s \in DOMAIN file.scanners THEN file.scanners[s].found ELSE 0
               entry == [status |-> "running", pass |-> pass[s] + 1, found |-> old]
               base == [Snapshot EXCEPT !.stage = "scanners"]
    <3>1. base \in File /\ base.stage = "scanners"
      BY <1>0, SnapshotKeeps DEF File, Stages
    <3>2. SetScanner(base, s, entry).stage = "scanners"
      BY <3>1 DEF SetScanner, File
    <3> QED BY <1>5, <3>2 DEF PassBegins, ScannerRunning, Update, Write, progVars
  <2> QED BY <1>1, <2>1, <2>2 DEF Staged, StageForward, Rank, Stages
<1>6. ASSUME NEW s \in Scanners, CallbackReturns(s)  PROVE Staged' /\ StageForward
  <2>1. main = "fan" /\ main' = "fan"
    BY <1>6, OnlyWhileFanning DEF CallbackReturns, mainVars
  <2>2. SetScanner(Snapshot, s, Final(s)).stage = Snapshot.stage
    BY <1>0, SnapshotKeeps DEF SetScanner, File
  <2>3. file' \in {file, Unreadable} \/ file'.stage = Snapshot.stage
    BY <1>6, <2>2 DEF CallbackReturns, ScannerComplete, Update, Write, progVars, Final
  <2>4. file' = Unreadable \/ file'.stage = file.stage
        \/ (file.stage = "missing" /\ file'.stage = "none")
    BY <1>0, <2>3, SnapshotKeeps
  <2> QED BY <1>1, <2>1, <2>4 DEF Staged, StageForward, Rank, Stages
<1>7. ASSUME NEW s \in Scanners,
             PassSucceeds(s) \/ PassFails(s) \/ StoreResult(s) \/ Release(s) \/ WgDone(s)
      PROVE  UNCHANGED <<file, main>>
  BY <1>7 DEF PassSucceeds, PassFails, StoreResult, Release, WgDone, progVars, mainVars
<1>8. CASE FailRun \/ CompleteRun
  <2>1. main' \in {"failed", "done"}
    BY <1>8 DEF FailRun, CompleteRun
  <2>2. [Snapshot EXCEPT !.stage = "complete"].stage = "complete"
    BY <1>0, SnapshotKeeps DEF File
  <2>3. file' \in {file, Unreadable} \/ file'.stage \in {"failed", "complete"}
    <3>1. CASE FailRun
      BY <3>1 DEF FailRun, ProgressFail, Write
    <3>2. CASE CompleteRun
      BY <2>2, <3>2 DEF CompleteRun, ProgressComplete, Update, Write, progVars
    <3> QED BY <1>8, <3>1, <3>2
  <2> QED BY <1>1, <2>1, <2>3 DEF Staged, StageForward, Rank, Stages
<1>9. CASE ArbiterStarts \/ ArbiterEnds
  <2>1. main \in {"arbiter", "judging"} /\ main' \in {"judging", "closing"}
        /\ \E status \in {"running", "ok", "partial", "failed"} : ProgressArbiter(status)
    BY <1>9 DEF ArbiterStarts, ArbiterEnds
  <2>2. \A status :
          [Snapshot EXCEPT !.stage = "arbiter", !.arbiter = status].stage = "arbiter"
    BY <1>0, SnapshotKeeps DEF File
  <2>3. file' \in {file, Unreadable} \/ file'.stage = "arbiter"
    BY <2>1, <2>2 DEF ProgressArbiter, Update, Write, progVars
  <2> QED BY <1>1, <2>1, <2>3 DEF Staged, StageForward, Rank, Stages
<1>10. UNCHANGED vars => UNCHANGED <<file, main>>
  BY DEF vars, progVars, mainVars
<1> QED BY <1>2, <1>3, <1>4, <1>5, <1>6, <1>7, <1>8, <1>9, <1>10
     DEF Next, MainStep, ScannerStep
-------------------------------------------------------------------------------
(* Every reachable state keeps the file's account of the scanners and of the
   stage true, over the invariant of the fan-out itself. *)
THEOREM ProgressInvariant == Spec => [](Inv /\ Told /\ Staged)
<1>1. Init => Told /\ Staged
  BY ToldInit
<1>2. Inv /\ Inv' /\ Told /\ Staged /\ [Next]_vars => (Told /\ Staged)'
  BY ToldStep, StagedStep DEF Inv
<1> QED BY <1>1, <1>2, FanoutInvariant, PTL DEF Spec

(* ProgressTruthful: whoever polls the progress file is told of no scanner more
   than its result will say, and sees no stage go back. *)
THEOREM ProgressCorrect == Spec => ProgressTruthful
<1>1. Inv /\ Told => StatusTruthful
  <2> SUFFICES ASSUME Inv, Told PROVE StatusTruthful  OBVIOUS
  <2>1. DOMAIN file.scanners \subseteq Scanners
    BY FileFacts DEF Inv, Base, FileTypes
  <2>2. \A s \in Scanners : ReportedStatus(s) = ResultStatus(s)
    BY DEF ReportedStatus, ResultStatus
  <2>3. \A s \in Scanners : at[s] \in {"release", "release_wg", "gone"} =>
          results[s].status = ResultStatus(s) /\ results[s].found = Cardinality(kept[s])
    BY ResultSays DEF Inv
  <2>4. ASSUME faults = 0, main \notin {"start", "fan"}, NEW s \in Scanners
        PROVE  file.scanners[s].status = results[s].status
    <3>1. at[s] = "gone"  BY <2>4 DEF Inv, Base, Control
    <3>2. Finished(s)  BY <3>1 DEF Finished
    <3> QED BY <2>2, <2>3, <2>4, <3>1, <3>2 DEF Told
  <2>5. ASSUME NEW s \in DOMAIN file.scanners,
               file.scanners[s].status \in {"ok", "partial", "error"}
        PROVE  /\ Finished(s)
               /\ at[s] \in {"release", "release_wg", "gone"} =>
                    /\ file.scanners[s].status = results[s].status
                    /\ file.scanners[s].found = results[s].found
    BY <2>1, <2>2, <2>3, <2>5 DEF Told
  <2> QED BY <2>4, <2>5 DEF StatusTruthful
<1>2. Inv /\ Staged /\ [Next]_vars => StageForward
  BY StagedStep DEF Inv
<1>3. Inv /\ Staged /\ (Inv /\ Told)' /\ [Next]_vars => [StatusTruthful' /\ StageForward]_vars
  <2>1. (Inv /\ Told)' => StatusTruthful'  BY <1>1, PTL
  <2> QED BY <1>2, <2>1
<1> QED BY <1>3, ProgressInvariant, PTL DEF Spec, ProgressTruthful
-------------------------------------------------------------------------------
(***************************************************************************)
(* What an exhaustive loop throws away, for every relation between issues. *)
(* That no group is new is known of numbers of groups only; the groups are *)
(* compared by the map from a group of the kept comments to the group it   *)
(* is in with the new ones.                                                *)
(***************************************************************************)

Closed(C, M) == \A p \in M : p[1] \in C => p[2] \in C

(* What merges with C in any number of steps. *)
Reach(S, M, C) == {x \in S : \A D \in SUBSET S : C \subseteq D /\ Closed(D, M) => x \in D}

LEMMA MinimalNat ==
  ASSUME NEW T \in SUBSET Nat, T # {}
  PROVE  \E m \in T : \A k \in T : m <= k
<1>1. PICK m \in T : \A k \in T : <<k, m>> \notin OpToRel(<, Nat)
  BY NatLessThanWellFounded, WFMin
<1>2. \A k \in T : ~(k < m) /\ k \in Nat /\ m \in Nat  BY <1>1 DEF OpToRel
<1> QED BY <1>2

(* The growth of a set of comments stops, at what it reaches. *)
LEMMA ComponentsReach ==
  ASSUME NEW S, IsFiniteSet(S), NEW M \in SUBSET (S \X S)
  PROVE  Components(S, M) = {Reach(S, M, {x}) : x \in S}
<1> DEFINE Step(f) == [C \in SUBSET S |-> IF Grown(C, M) = C THEN C ELSE f[Grown(C, M)]]
           closure == CHOOSE f : f = Step(f)
           R(C) == Reach(S, M, C)
<1>1. ASSUME NEW C \in SUBSET S
      PROVE  /\ Grown(C, M) \in SUBSET S /\ C \subseteq Grown(C, M)
             /\ R(C) = IF Grown(C, M) = C THEN C ELSE R(Grown(C, M))
  <2>1. /\ Grown(C, M) \in SUBSET S /\ C \subseteq Grown(C, M)
        /\ Grown(C, M) = C <=> Closed(C, M)
        /\ \A D : C \subseteq D /\ Closed(D, M) => Grown(C, M) \subseteq D
    BY DEF Grown, Closed
  <2>2. CASE Grown(C, M) = C  BY <2>1, <2>2 DEF Reach
  <2>3. CASE Grown(C, M) # C  BY <2>1, <2>3 DEF Reach
  <2> QED BY <2>1, <2>2, <2>3
<1>2. closure = Step(closure)
  <2> DEFINE g == [C \in SUBSET S |-> R(C)]
  <2>1. \A C \in SUBSET S : g[C] = Step(g)[C]  BY <1>1
  <2>2. g = Step(g)  BY <2>1
  <2> QED BY <2>2
<1>3. Components(S, M) = {closure[{x}] : x \in S}  BY DEF Components
<1> HIDE DEF closure, R
<1>4. ASSUME NEW C \in SUBSET S
      PROVE  closure[C] = IF Grown(C, M) = C THEN C ELSE closure[Grown(C, M)]
  BY <1>2
<1>5. \A C \in SUBSET S : closure[C] = R(C)
  <2> DEFINE wrong == {C \in SUBSET S : closure[C] # R(C)}
             left(C) == Cardinality(S \ C)
             T == {left(C) : C \in wrong}
  <2> SUFFICES ASSUME wrong # {} PROVE FALSE  OBVIOUS
  <2>1. ASSUME NEW C \in SUBSET S PROVE IsFiniteSet(S \ C) /\ left(C) \in Nat
    <3>1. (S \ C) \in SUBSET S  OBVIOUS
    <3> QED BY <3>1, FS_Subset, FS_CardinalityType
  <2> HIDE DEF left
  <2>2. T \in SUBSET Nat /\ T # {}
    <3>1. \A C \in wrong : left(C) \in Nat  BY <2>1
    <3> QED BY <3>1
  <2>3. PICK C \in wrong : \A D \in wrong : left(C) <= left(D)
    <3>1. PICK n \in T : \A k \in T : n <= k  BY <2>2, MinimalNat
    <3> QED BY <3>1
  <2>4. Grown(C, M) # C /\ Grown(C, M) \in wrong  BY <1>1, <1>4, <2>3
  <2> DEFINE A == S \ Grown(C, M)
             B == S \ C
  <2>5. C \in SUBSET S /\ Grown(C, M) \in SUBSET S /\ C \subseteq Grown(C, M)
    BY <1>1, <2>3
  <2>6. A \in SUBSET B /\ A # B  BY <2>4, <2>5
  <2>7. /\ IsFiniteSet(B) /\ Cardinality(B) \in Nat /\ Cardinality(A) \in Nat
        /\ Cardinality(B) <= Cardinality(A)
    <3>1. left(C) <= left(Grown(C, M))  BY <2>3, <2>4
    <3> QED BY <2>1, <2>5, <3>1 DEF left
  <2> HIDE DEF A, B
  <2>8. Cardinality(A) <= Cardinality(B) /\ Cardinality(A) # Cardinality(B)
    BY <2>6, <2>7, FS_Subset
  <2> QED BY <2>7, <2>8
<1>6. \A x \in S : closure[{x}] = Reach(S, M, {x})  BY <1>5 DEF R
<1> QED BY <1>3, <1>6

LEMMA PairCardinality ==
  ASSUME NEW b, NEW c, b # c
  PROVE  Cardinality({b, c}) = 2
<1>1. {b, c} = {b} \cup {c} /\ c \notin {b}  OBVIOUS
<1>2. IsFiniteSet({b})  BY FS_Singleton
<1>3. Cardinality({b}) = 1  BY FS_Singleton
<1>4. Cardinality({b} \cup {c}) = Cardinality({b}) + 1  BY <1>1, <1>2, FS_AddElement
<1> QED BY <1>1, <1>3, <1>4

(* As many groups as before, or fewer, and none without a kept comment: unless
   two groups became one. *)
LEMMA NoMoreGroups ==
  ASSUME NEW A, NEW B, IsFiniteSet(A), IsFiniteSet(B), ~(GroupCount(A \cup B) > GroupCount(A))
  PROVE  SaysNothingNew(A, B)
<1> DEFINE S == A \cup B
           M == MergingPairs(S)
           N == MergingPairs(A)
           all == Components(S, M)
           before == Components(A, N)
           of(x) == Reach(S, M, {x})
           was(x) == Reach(A, N, {x})
<1> SUFFICES ASSUME \A g \in all : ~(Cardinality({b \in before : b \subseteq g}) > 1)
             PROVE  \A g \in all : g \cap A # {}
  BY DEF SaysNothingNew
<1>1. IsFiniteSet(S) /\ M \in SUBSET (S \X S) /\ N \in SUBSET (A \X A) /\ N \subseteq M
  BY FS_Union DEF MergingPairs
<1>2. all = {of(x) : x \in S} /\ before = {was(x) : x \in A}
  BY <1>1, ComponentsReach
<1>3. ~(Cardinality(all) > Cardinality(before))
  BY DEF GroupCount
<1> HIDE DEF S, M, N, all, before
<1>4. IsFiniteSet(all) /\ IsFiniteSet(before)
  <2>1. \A X, Y : IsFiniteSet(X) /\ (\E f : f \in Surjection(X, Y)) => IsFiniteSet(Y)
    BY FS_Surjection
  <2>2. [x \in S |-> of(x)] \in Surjection(S, all) /\ [x \in A |-> was(x)] \in Surjection(A, before)
    BY <1>2 DEF Surjection
  <2> QED BY <1>1, <2>1, <2>2
<1>5. \A b \in before : b \subseteq A /\ b # {}
  BY <1>2 DEF Reach
<1>6. \A b \in before : \E g \in all : b \subseteq g
  <2> TAKE b \in before
  <2>1. PICK x \in A : b = was(x)  BY <1>2
  <2>2. x \in S /\ of(x) \in all  BY <1>2 DEF S
  <2>3. Closed(of(x), M) /\ x \in of(x)  BY <1>1, <2>2 DEF Reach, Closed
  <2>4. Closed(of(x) \cap A, N) /\ {x} \subseteq of(x) \cap A  BY <1>1, <2>3 DEF Closed
  <2>5. was(x) \subseteq of(x)  BY <2>4 DEF Reach
  <2> QED BY <2>1, <2>2, <2>5
<1> DEFINE in == [b \in before |-> CHOOSE g \in all : b \subseteq g]
<1>7. in \in [before -> all] /\ \A b \in before : b \subseteq in[b]
  BY <1>6
<1> HIDE DEF in
<1>8. in \in Injection(before, all)
  <2> SUFFICES ASSUME NEW b \in before, NEW c \in before, in[b] = in[c], b # c PROVE FALSE
    BY <1>7 DEF Injection, IsInjective
  <2> DEFINE two == {d \in before : d \subseteq in[b]}
  <2>1. {b, c} \in SUBSET two /\ IsFiniteSet(two)
    <3>1. two \in SUBSET before  OBVIOUS
    <3>2. IsFiniteSet(two)  BY <1>4, <3>1, FS_Subset
    <3> QED BY <1>7, <3>2
  <2>2. in[b] \in all  BY <1>7
  <2>3. ~(Cardinality(two) > 1)  BY <2>2
  <2> HIDE DEF two
  <2>4. Cardinality({b, c}) <= Cardinality(two) /\ Cardinality(two) \in Nat
    BY <2>1, FS_Subset, FS_CardinalityType
  <2>5. Cardinality({b, c}) = 2  BY PairCardinality
  <2> QED BY <2>3, <2>4, <2>5
<1>9. in \in Surjection(before, all)
  <2>1. Cardinality(all) \in Nat /\ Cardinality(before) \in Nat
    BY <1>4, FS_CardinalityType
  <2>2. Cardinality(before) <= Cardinality(all) /\ (Cardinality(before) = Cardinality(all) => in \in Surjection(before, all))
    BY <1>4, <1>8, FS_Injection
  <2> QED BY <1>3, <2>1, <2>2
<1>10. ASSUME NEW g \in all PROVE g \cap A # {}
  <2>1. PICK b \in before : in[b] = g  BY <1>9 DEF Surjection
  <2> QED BY <1>5, <1>7, <2>1
<1> QED BY <1>10

Discarded ==
  \A s \in Scanners : dropped[s] # {} =>
    IsFiniteSet(dropped[s]) /\ ~(GroupCount(kept[s] \cup dropped[s]) > GroupCount(kept[s]))

(* Nothing is kept after something was thrown away. *)
LEMMA DiscardedStep == Base /\ Findings /\ Discarded /\ [Next]_vars => Discarded'
<1> SUFFICES ASSUME Base, Findings, Discarded, [Next]_vars PROVE Discarded'  OBVIOUS
<1> USE DEF Base
<1>1. ASSUME NEW s \in Scanners, PassSucceeds(s)  PROVE Discarded'
  <2>1. \A t \in Scanners \ {s} : kept'[t] = kept[t] /\ dropped'[t] = dropped[t]
    BY <1>1 DEF PassSucceeds, Keep, ScannerTypes
  <2>2. at[s] = "pass" /\ dropped[s] = {}  BY <1>1 DEF PassSucceeds, Findings
  <2>3. ASSUME dropped'[s] # {}
        PROVE  /\ IsFiniteSet(dropped'[s])
               /\ ~(GroupCount(kept'[s] \cup dropped'[s]) > GroupCount(kept'[s]))
    <3>1. PICK report \in Reports :
            LET comments == {<<pass[s], i>> : i \in report}
            IN  /\ StopsAfter(s, comments)
                /\ dropped' = [dropped EXCEPT ![s] = comments]
                /\ Keep(s, {}, "exit")
      BY <1>1, <2>2, <2>3 DEF PassSucceeds
    <3> DEFINE comments == {<<pass[s], i>> : i \in report}
    <3>2. dropped'[s] = comments /\ kept'[s] = kept[s]  BY <3>1 DEF Keep, ScannerTypes
    <3>3. IsFiniteSet(comments)  BY <2>2, PassReports
    <3>4. ~HasNewFindings(kept[s], comments) /\ comments # {}
      BY <2>3, <3>1, <3>2 DEF StopsAfter
    <3> HIDE DEF comments
    <3>5. ~(GroupCount(kept[s] \cup comments) > GroupCount(kept[s]))
      BY <3>4 DEF HasNewFindings
    <3> QED BY <3>2, <3>3, <3>5
  <2> QED BY <2>1, <2>3 DEF Discarded
<1>2. ASSUME NEW s \in Scanners, PassFails(s)  PROVE Discarded'
  <2>1. kept' = kept /\ dropped' = dropped  BY <1>2 DEF PassFails, Keep, ScannerTypes
  <2> QED BY <2>1 DEF Discarded
<1>3. ASSUME UNCHANGED <<kept, dropped>>  PROVE Discarded'
  BY <1>3 DEF Discarded
<1>4. ASSUME NEW s \in Scanners,
             PassBegins(s) \/ CallbackReturns(s) \/ StoreResult(s) \/ Release(s) \/ WgDone(s)
      PROVE  UNCHANGED <<kept, dropped>>
  BY <1>4 DEF PassBegins, CallbackReturns, StoreResult, Release, WgDone
<1>5. MainStep \/ UNCHANGED vars => UNCHANGED <<kept, dropped>>
  BY DEF MainStep, StartRun, Launch, Aggregate, FailRun, ArbiterStarts, ArbiterEnds,
     CompleteRun, vars, scanVars
<1> QED BY <1>1, <1>2, <1>3, <1>4, <1>5 DEF Next, ScannerStep

(* NoFindingLost: what a pass returned reaches dedup or, when it ended an exhaustive
   loop, had been found before, unless it joined groups (Execute,
   orchestrator.go:164-187; hasNewFindings, andorra_review.go:789-808). *)
THEOREM NothingLost == Spec => []NoFindingLost
<1>1. Init => Discarded  BY DEF Init, Discarded
<1>2. Inv /\ Discarded /\ [Next]_vars => Discarded'
  BY DiscardedStep DEF Inv
<1>3. Inv /\ Discarded => DiscardsOnlyDuplicates
  <2> SUFFICES ASSUME Inv, Discarded, NEW s \in Scanners, dropped[s] # {}
               PROVE  SaysNothingNew(kept[s], dropped[s])
    BY DEF DiscardsOnlyDuplicates
  <2>1. IsFiniteSet(kept[s])  BY DEF Inv, Base, ScannerTypes
  <2> QED BY <2>1, NoMoreGroups DEF Discarded
<1> QED BY <1>1, <1>2, <1>3, FanoutInvariant, FindingsReachDedup, PTL DEF Spec, NoFindingLost
-------------------------------------------------------------------------------
(***************************************************************************)
(* The scanning implements EnsemblePromise: a pass finds or discards, a    *)
(* stored result settles its scanner, Aggregate answers, and every other   *)
(* step shows the caller nothing.                                          *)
(***************************************************************************)

(* One more layer: a scanner has no result before it is stored, and the run no
   raw comments before it aggregates them. *)
Pending ==
  /\ \A s \in Scanners : at[s] \notin {"release", "release_wg", "gone"} => results[s] = NoResult
  /\ main \in {"start", "fan", "failing", "failed"} => raw = {}

RefineInv == Inv /\ Discarded /\ Pending

LEMMA PendingStep == Base /\ Pending /\ [Next]_vars => Pending'
<1> SUFFICES ASSUME Base, Pending, [Next]_vars PROVE Pending'  OBVIOUS
<1> USE DEF Base, RunTypes, ScannerTypes, Pending
<1>1. CASE Launch
  <2>1. launched + 1 \in Scanners /\ launched + 1 > launched
    BY <1>1, FanoutAssumption DEF Launch, Scanners
  <2>2. at[launched + 1] = "none"  BY <2>1 DEF Control
  <2> QED BY <1>1, <2>1, <2>2 DEF Launch
<1>2. ASSUME NEW s \in Scanners, ScannerStep(s)  PROVE Pending'
  <2>1. UNCHANGED <<main, raw>>
    BY <1>2 DEF ScannerStep, PassBegins, PassSucceeds, PassFails, CallbackReturns, StoreResult,
       Release, WgDone, mainVars
  <2>2. \A t \in Scanners \ {s} : UNCHANGED <<at[t], results[t]>>
    BY <1>2 DEF ScannerStep, PassBegins, PassSucceeds, PassFails, CallbackReturns, StoreResult,
       Release, WgDone, Keep
  <2>3. \/ at[s] \in {"release", "release_wg"} /\ at'[s] \in {"release_wg", "gone"}
        \/ at'[s] = "release"
        \/ at[s] \notin {"release", "release_wg", "gone"} /\ results' = results
    BY <1>2 DEF ScannerStep, PassBegins, PassSucceeds, PassFails, CallbackReturns, StoreResult,
       Release, WgDone, Keep
  <2> QED BY <2>1, <2>2, <2>3
<1>3. CASE StartRun \/ Aggregate \/ FailRun \/ ArbiterStarts \/ ArbiterEnds \/ CompleteRun
           \/ UNCHANGED vars
  <2>1. UNCHANGED <<at, results>>
    BY <1>3 DEF StartRun, Aggregate, FailRun, ArbiterStarts, ArbiterEnds, CompleteRun, vars,
       scanVars
  <2>2. main' \in {"start", "fan", "failing", "failed"} => raw' = {}
    BY <1>3 DEF StartRun, Aggregate, FailRun, ArbiterStarts, ArbiterEnds, CompleteRun, vars,
       mainVars
  <2> QED BY <2>1, <2>2
<1> QED BY <1>1, <1>2, <1>3 DEF Next, MainStep

(* What the refinement needs of every reachable state of Execute and its scanners. *)
THEOREM RefineInvariant == Spec => []RefineInv
<1>1. Init => Discarded /\ Pending  BY DEF Init, Discarded, Pending
<1>2. Inv /\ Discarded /\ Pending /\ [Next]_vars => Discarded' /\ Pending'
  BY DiscardedStep, PendingStep DEF Inv
<1> QED BY <1>1, <1>2, FanoutInvariant, PTL DEF Spec, RefineInv

Unseen == UNCHANGED <<Settled, kept, dropped, Outcome>>

LEMMA RefineInit == Init => Promise!Init
<1> SUFFICES ASSUME Init PROVE Promise!Init  OBVIOUS
<1>1. Settled = [s \in Scanners |-> "scanning"]  BY DEF Init, Settled, NoResult
<1>2. Outcome = Promise!NoAnswer  BY DEF Init, Outcome, Promise!NoAnswer
<1> QED BY <1>1, <1>2 DEF Init, Promise!Init

(* While main fans out, a scanner whose result is not stored is searching. *)
LEMMA StillScanning ==
  ASSUME RefineInv, NEW s \in Scanners, at[s] \notin {"none", "release", "release_wg", "gone"}
  PROVE  Settled[s] = "scanning" /\ Outcome = Promise!NoAnswer
<1>1. main = "fan"  BY OnlyWhileFanning DEF RefineInv, Inv
<1>2. raw = {}  BY <1>1 DEF RefineInv, Pending
<1>3. results[s].status = "none"  BY DEF RefineInv, Pending, NoResult
<1> QED BY <1>1, <1>2, <1>3 DEF Settled, Outcome, Promise!NoAnswer

LEMMA RefinePass ==
  ASSUME RefineInv, NEW s \in Scanners, PassSucceeds(s)
  PROVE  Promise!Next \/ Unseen
<1> USE DEF RefineInv, Inv, Base
<1>1. PICK report \in Reports :
        LET comments == {<<pass[s], i>> : i \in report}
        IN  \/ kept' = [kept EXCEPT ![s] = @ \cup comments] /\ UNCHANGED dropped
            \/ /\ StopsAfter(s, comments)
               /\ dropped' = [dropped EXCEPT ![s] = comments]
               /\ kept' = [kept EXCEPT ![s] = @ \cup {}]
  BY DEF PassSucceeds, Keep
<1> DEFINE comments == {<<pass[s], i>> : i \in report}
<1>2. at[s] = "pass" /\ dropped[s] = {} /\ UNCHANGED <<Settled, Outcome>>
  BY DEF PassSucceeds, Findings, mainVars, Settled, Outcome
<1>3. Settled[s] = "scanning" /\ Outcome = Promise!NoAnswer
  BY <1>2, StillScanning
<1>4. comments \in SUBSET Comment /\ IsFiniteSet(comments)
  BY <1>2, PassReports DEF Comment
<1>5. /\ kept \in [Scanners -> SUBSET Comment] /\ dropped \in [Scanners -> SUBSET Comment]
      /\ IsFiniteSet(kept[s])
  BY DEF ScannerTypes, Comment
<1>6. \/ kept' = [kept EXCEPT ![s] = @ \cup comments] /\ UNCHANGED dropped
      \/ /\ StopsAfter(s, comments)
         /\ dropped' = [dropped EXCEPT ![s] = comments]
         /\ UNCHANGED kept
  BY <1>1, <1>5
<1> HIDE DEF comments
<1>7. CASE kept' = [kept EXCEPT ![s] = @ \cup comments] /\ UNCHANGED dropped
  <2>1. kept'[s] = kept[s] \cup comments /\ kept' = [kept EXCEPT ![s] = kept'[s]]
    BY <1>5, <1>7
  <2>2. Promise!Find(s)
    BY <1>2, <1>3, <1>4, <1>5, <1>7, <2>1 DEF Promise!Find, Promise!Searching
  <2> QED BY <2>2 DEF Promise!Next
<1>8. CASE /\ StopsAfter(s, comments)
           /\ dropped' = [dropped EXCEPT ![s] = comments]
           /\ UNCHANGED kept
  <2>1. dropped'[s] = comments /\ dropped' = [dropped EXCEPT ![s] = dropped'[s]]
    BY <1>5, <1>8
  <2>2. CASE comments = {}
    <3>1. dropped' = dropped  BY <1>2, <1>5, <1>8, <2>2
    <3> QED BY <1>2, <1>8, <3>1 DEF Unseen
  <2>3. CASE comments # {}
    <3>1. ~(GroupCount(kept[s] \cup comments) > GroupCount(kept[s]))
      BY <1>8, <2>3 DEF StopsAfter, HasNewFindings
    <3>2. SaysNothingNew(kept[s], comments)  BY <1>4, <1>5, <3>1, NoMoreGroups
    <3>3. <<kept[s], comments>> \in Harmless  BY <1>4, <1>5, <3>2 DEF Harmless
    <3>4. Promise!Discard(s)
      BY <1>2, <1>3, <1>8, <2>1, <3>3 DEF Promise!Discard, Promise!Searching
    <3> QED BY <3>4 DEF Promise!Next
  <2> QED BY <2>2, <2>3
<1> QED BY <1>6, <1>7, <1>8

LEMMA RefineStore ==
  ASSUME RefineInv, NEW s \in Scanners, StoreResult(s)
  PROVE  Promise!Next
<1> USE DEF RefineInv, Inv, Base
<1> DEFINE v == ResultStatus(s)
<1>1. at[s] = "returned" /\ UNCHANGED <<kept, dropped, main, raw, err>>
  BY DEF StoreResult, mainVars
<1>2. Settled[s] = "scanning" /\ Outcome = Promise!NoAnswer
  BY <1>1, StillScanning
<1>3. /\ v \in {"ok", "partial", "error"}
      /\ v = "partial" => kept[s] # {} /\ dropped[s] = {}
      /\ v = "error" => kept[s] = {} /\ dropped[s] = {}
  BY DEF ResultStatus, Findings
<1> DEFINE r == [status |-> v, found |-> Cardinality(kept[s])]
<1>4. results' = [results EXCEPT ![s] = r]  BY DEF StoreResult
<1>5. r.status = v  OBVIOUS
<1> HIDE DEF v, r
<1>6. Settled' = [Settled EXCEPT ![s] = v]
  <2>1. \A t \in Scanners : Settled'[t] = [Settled EXCEPT ![s] = v][t]
    BY <1>3, <1>4, <1>5 DEF ScannerTypes, Settled
  <2> QED BY <2>1 DEF Settled
<1>7. Outcome' = Outcome  BY <1>1 DEF Outcome
<1>8. Promise!Settle(s, v)
  BY <1>1, <1>2, <1>3, <1>6, <1>7 DEF Promise!Settle
<1> QED BY <1>3, <1>8 DEF Promise!Next

LEMMA RefineAggregate == RefineInv /\ RefineInv' /\ Aggregate => Promise!Next
<1> SUFFICES ASSUME RefineInv, RefineInv', Aggregate PROVE Promise!Next  OBVIOUS
<1> USE DEF RefineInv, Inv, Base
<1>1. main = "fan" /\ raw = {} /\ UNCHANGED <<at, kept, dropped, results>>
  BY DEF Aggregate, Pending, scanVars
<1>2. Outcome = Promise!NoAnswer  BY <1>1 DEF Outcome, Promise!NoAnswer
<1>3. main' \in {"failing", "arbiter"}  BY DEF Aggregate
<1>4. \A s \in Scanners : at[s] = "gone"  BY <1>1, <1>3 DEF Control
<1>5. \A s \in Scanners : results[s].status \in {"ok", "partial", "error"}
  <2> TAKE s \in Scanners
  <2>1. results[s].status = ResultStatus(s)  BY <1>4, ResultSays
  <2> QED BY <2>1 DEF ResultStatus
<1>6. \A s \in Scanners : Settled[s] = results[s].status /\ Settled[s] # "scanning"
  BY <1>5 DEF Settled
<1>7. Succeeded = {} <=> \A s \in Scanners : Settled[s] = "error"
  BY <1>5, <1>6 DEF Succeeded
<1>8. Settled' = Settled  BY <1>1 DEF Settled
<1>9. Outcome' = IF \A s \in Scanners : Settled[s] = "error"
                   THEN Promise!Failure ELSE Promise!Comments(Promise!Everything)
  <2>1. CASE Succeeded = {}
    <3>1. main' = "failing" /\ raw' = {}  BY <1>1, <2>1 DEF Aggregate
    <3> QED BY <1>7, <2>1, <3>1 DEF Outcome, Promise!Failure
  <2>2. CASE Succeeded # {}
    <3>1. main' = "arbiter"
          /\ raw' = UNION {{<<s, c[1], c[2]>> : c \in kept[s]} : s \in Scanners}
      BY <2>2 DEF Aggregate
    <3>2. {<<f[1], <<f[2], f[3]>>>> : f \in raw'} = UNION {{s} \X kept[s] : s \in Scanners}
      <4>1. \A s \in Scanners : \A c \in kept[s] : c = <<c[1], c[2]>>
        BY DEF ScannerTypes
      <4>2. ASSUME NEW s \in Scanners, NEW c \in kept[s]
            PROVE  <<s, c>> \in {<<f[1], <<f[2], f[3]>>>> : f \in raw'}
        <5> DEFINE f == <<s, c[1], c[2]>>
        <5>1. f \in raw'  BY <3>1
        <5>2. <<f[1], <<f[2], f[3]>>>> = <<s, c>>  BY <4>1
        <5> HIDE DEF f
        <5> QED BY <5>1, <5>2
      <4>3. ASSUME NEW f \in raw'
            PROVE  <<f[1], <<f[2], f[3]>>>> \in UNION {{s} \X kept[s] : s \in Scanners}
        <5>1. PICK s \in Scanners : \E c \in kept[s] : f = <<s, c[1], c[2]>>  BY <3>1
        <5>2. PICK c \in kept[s] : f = <<s, c[1], c[2]>>  BY <5>1
        <5>3. <<f[1], <<f[2], f[3]>>>> = <<s, c>>  BY <4>1, <5>2
        <5> QED BY <5>3
      <4> QED BY <4>2, <4>3
    <3> QED BY <1>7, <2>2, <3>1, <3>2 DEF Outcome, Promise!Comments, Promise!Everything
  <2> QED BY <2>1, <2>2
<1>10. Promise!Answer  BY <1>1, <1>2, <1>6, <1>8, <1>9 DEF Promise!Answer
<1> QED BY <1>10 DEF Promise!Next

(* What the caller sees of the main goroutine's other steps: nothing. *)
LEMMA RefineMain ==
  RefineInv /\ (MainStep \/ UNCHANGED vars) /\ ~Aggregate => Unseen
<1> SUFFICES ASSUME RefineInv, MainStep \/ UNCHANGED vars, ~Aggregate PROVE Unseen  OBVIOUS
<1>1. UNCHANGED <<kept, dropped, results, raw>>
  BY DEF MainStep, StartRun, Launch, FailRun, ArbiterStarts, ArbiterEnds, CompleteRun, vars,
     mainVars, scanVars
<1>2. \/ main \in {"start", "fan"} /\ main' \in {"start", "fan"}
      \/ main \in {"failing", "failed"} /\ main' \in {"failing", "failed"}
      \/ /\ main \notin {"start", "fan", "failing", "failed"}
         /\ main' \notin {"start", "fan", "failing", "failed"}
      \/ main' = main
  BY DEF MainStep, StartRun, Launch, FailRun, ArbiterStarts, ArbiterEnds, CompleteRun, vars,
     mainVars
<1>3. Settled' = Settled  BY <1>1 DEF Settled
<1>4. Outcome' = Outcome
  <2>1. CASE main \in {"start", "fan"} /\ main' \in {"start", "fan"}
    BY <1>1, <2>1 DEF Outcome
  <2>2. CASE main \in {"failing", "failed"} /\ main' \in {"failing", "failed"}
    BY <1>1, <2>2 DEF Outcome
  <2>3. CASE main \notin {"start", "fan", "failing", "failed"}
             /\ main' \notin {"start", "fan", "failing", "failed"}
    BY <1>1, <2>3 DEF Outcome
  <2>4. CASE main' = main  BY <1>1, <2>4 DEF Outcome
  <2> QED BY <1>2, <2>1, <2>2, <2>3, <2>4
<1> QED BY <1>1, <1>3, <1>4 DEF Unseen

LEMMA RefineStep ==
  RefineInv /\ RefineInv' /\ [Next]_vars => [Promise!Next]_(Promise!promiseVars)
<1> SUFFICES ASSUME RefineInv, RefineInv', [Next]_vars PROVE Promise!Next \/ Unseen
  BY DEF Unseen, Promise!promiseVars
<1>1. ASSUME NEW s \in Scanners,
             PassBegins(s) \/ CallbackReturns(s) \/ Release(s) \/ WgDone(s)
      PROVE  Unseen
  BY <1>1 DEF PassBegins, CallbackReturns, Release, WgDone, mainVars, Unseen, Settled, Outcome
<1>2. ASSUME NEW s \in Scanners, PassFails(s)  PROVE Unseen
  <2>1. kept' = kept
    BY <1>2 DEF PassFails, Keep, RefineInv, Inv, Base, ScannerTypes
  <2> QED BY <1>2, <2>1 DEF PassFails, mainVars, Unseen, Settled, Outcome
<1> QED BY <1>1, <1>2, RefinePass, RefineStore, RefineAggregate, RefineMain
        DEF Next, ScannerStep

(* KeepsPromise: for any number of scanners and passes and any merge relation, a
   behaviour of the fan-out is one of the promise dedup and the arbiter rely on. *)
THEOREM FanoutKeepsPromise == Spec => KeepsPromise
BY RefineInvariant, RefineInit, RefineStep, PTL DEF Spec, KeepsPromise, Promise!Spec
===============================================================================
