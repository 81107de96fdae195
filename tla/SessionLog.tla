------------------------------ MODULE SessionLog ------------------------------
(***************************************************************************)
(* internal/session: the history of one review and the JSONL file it is    *)
(* streamed to, written by all goroutines of an Agent at once. A reviewed  *)
(* file's goroutine makes its main requests one after another and may      *)
(* compress its conversation; pool tasks re-locate comments of any file;   *)
(* background compressions may outlive Run, which waits for the others     *)
(* only. Plan and filter requests go the way of main ones.                 *)
(***************************************************************************)
EXTENDS SessionView, FiniteSets

CONSTANTS
  PoolTasks,    \* tasks of the comment worker pool that re-locate comments
  Jobs,         \* background compressions
  Calls,        \* bound: the tool calls a response may carry, sequences of names
  MaxRequests   \* bound: requests of the session

Main        == "main_task"
Compression == "memory_compression_task"
ReLocation  == "re_location_task"

ASSUME SessionAssumption ==
  /\ Types = {Main, Compression, ReLocation}
  /\ MaxRequests \in Nat
  /\ <<>> \in Calls /\ Calls \subseteq Seq(STRING)
  /\ Jobs \cap (Files \cup PoolTasks) = {}
  /\ IsFiniteSet(Files \cup PoolTasks \cup Jobs)

VARIABLES
  persist,   \* the session file could be created
  sessions,  \* FileSessions: requests so far, by file and task
  log,       \* records handed to the writer
  lastUUID,  \* the writer's parent for the next record
  failures,  \* llmFailures
  run,       \* "running", "ending", "ended"
  summary,   \* what Finalize read
  at,        \* where each goroutine is
  rec        \* its TaskRecord: file, type, no, of; and the calls still to execute

vars == <<persist, sessions, log, lastUUID, failures, run, summary, at, rec>>

Goroutines == Files \cup PoolTasks \cup Jobs
Requests   == {k \in DOMAIN log : log[k].kind = "llm_request"}
Asked      == MapThenSumSet(LAMBDA f : MapThenSumSet(LAMBDA t : sessions[f][t], Types),
                            DOMAIN sessions)
NoRecord   == [file |-> "none", type |-> Main, no |-> 0, of |-> 0, calls |-> <<>>, pos |-> 1]
-------------------------------------------------------------------------------
(* Random in the code; all that matters is that it is new. *)
NextUUID == Len(log) + 1

(* One record, under the writer's lock: chained to the one before. *)
ChainToRequest(record) ==  \* mutant: tool calls do not advance the chain
  /\ log' = IF persist THEN Append(log, record) ELSE log
  /\ lastUUID' = IF persist /\ record.kind # "tool_call" THEN record.uuid ELSE lastUUID
Write(record) ==
  /\ log' = IF persist THEN Append(log, record) ELSE log
  /\ lastUUID' = IF persist THEN record.uuid ELSE lastUUID

New ==
  /\ persist \in BOOLEAN
  /\ log = IF persist THEN <<[kind |-> "session_start", uuid |-> 1, parent |-> 0]>> ELSE <<>>
  /\ lastUUID = Len(log)
  /\ sessions = <<>>
  /\ failures = 0

Init ==
  /\ New
  /\ run = "running" /\ summary = NotEnded
  /\ at = [g \in Goroutines |-> "idle"]
  /\ rec = [g \in Goroutines |-> NoRecord]

(* Which requests a goroutine makes. A conversation is compressed after a main
   request of its file. *)
MayAsk(g, file, type) ==
  \/ g \in Files /\ file = g /\ type = Main
  \/ g \in Files \cup Jobs /\ type = Compression /\ (g \in Files => file = g)
       /\ file \in DOMAIN sessions /\ sessions[file][Main] > 0
  \/ g \in PoolTasks /\ type = ReLocation

GetOrCreateFileSession(g) ==
  /\ at[g] = "idle" /\ (run = "running" \/ g \in Jobs)
  /\ Cardinality({h \in Goroutines : at[h] = "got"}) + Asked < MaxRequests
  /\ \E file \in Files, type \in Types :
       /\ MayAsk(g, file, type)
       /\ sessions' = [f \in DOMAIN sessions \cup {file} |->
                        IF f \in DOMAIN sessions THEN sessions[f] ELSE [t \in Types |-> 0]]
       /\ rec' = [rec EXCEPT ![g] = [NoRecord EXCEPT !.file = file, !.type = type]]
  /\ at' = [at EXCEPT ![g] = "got"]
  /\ UNCHANGED <<persist, log, lastUUID, failures, run, summary>>

(* The number is given and the record written under the file session's lock. *)
SameNumber(file, type) == sessions[file][type]  \* mutant: without the + 1
NextNumber(file, type) == sessions[file][type] + 1

AppendTaskRecord(g) ==
  /\ at[g] = "got"
  /\ LET file == rec[g].file
         type == rec[g].type
         no   == NextNumber(file, type)
     IN  /\ sessions' = [sessions EXCEPT ![file][type] = @ + 1]
         /\ rec' = [rec EXCEPT ![g].no = no, ![g].of = NextUUID]
         /\ Write([kind |-> "llm_request", uuid |-> NextUUID, parent |-> lastUUID,
                   file |-> file, type |-> type, of |-> NextUUID, no |-> no])
  /\ at' = [at EXCEPT ![g] = "asked"]
  /\ UNCHANGED <<persist, failures, run, summary>>

(* Only main requests offer tools. *)
SetResponse(g) ==
  /\ at[g] = "asked"
  /\ \E calls \in IF rec[g].type = Main THEN Calls ELSE {<<>>}, empty \in BOOLEAN :
       /\ Write([kind |-> "llm_response", uuid |-> NextUUID, parent |-> lastUUID,
                 file |-> rec[g].file, type |-> rec[g].type, of |-> rec[g].of,
                 empty |-> empty, calls |-> calls])
       /\ rec' = [rec EXCEPT ![g].calls = calls]
       /\ at' = [at EXCEPT ![g] = IF calls = <<>> THEN "idle" ELSE "tools"]
  /\ UNCHANGED <<persist, sessions, failures, run, summary>>

(* An error, or a response without choices: written first, counted second. *)
SetError(g) ==
  /\ at[g] = "asked"
  /\ Write([kind |-> "llm_error", uuid |-> NextUUID, parent |-> lastUUID,
            file |-> rec[g].file, type |-> rec[g].type, of |-> rec[g].of])
  /\ at' = [at EXCEPT ![g] = "failed"]
  /\ UNCHANGED <<persist, sessions, failures, run, summary, rec>>

(* A failed main request ends the file, one without choices does not: an idle
   goroutine may always be one that has returned. *)
ForgetFailure(g) ==  \* mutant: not counted
  /\ at[g] = "failed"
  /\ at' = [at EXCEPT ![g] = "idle"]
  /\ UNCHANGED <<persist, sessions, log, lastUUID, failures, run, summary, rec>>
CountFailure(g) ==
  /\ at[g] = "failed"
  /\ failures' = failures + 1
  /\ at' = [at EXCEPT ![g] = "idle"]
  /\ UNCHANGED <<persist, sessions, log, lastUUID, run, summary, rec>>

(* The calls of a response in order; only one that worked leaves a record. *)
ExecuteToolCall(g) ==
  /\ at[g] = "tools"
  /\ \/ /\ Head(rec[g].calls) # "task_done"
        /\ Write([kind |-> "tool_call", uuid |-> NextUUID, parent |-> lastUUID,
                  file |-> rec[g].file, type |-> rec[g].type, of |-> rec[g].of,
                  pos |-> rec[g].pos])
     \/ UNCHANGED <<log, lastUUID>>
  /\ rec' = [rec EXCEPT ![g].calls = Tail(@), ![g].pos = @ + 1]
  /\ at' = [at EXCEPT ![g] = IF Len(rec[g].calls) = 1 THEN "idle" ELSE "tools"]
  /\ UNCHANGED <<persist, sessions, failures, run, summary>>

(* Run has waited for the files and for the pool; they make no more requests. *)
FinalizeEarly ==  \* mutant: the pool is not waited for
  /\ run = "running" /\ \A g \in Files : at[g] = "idle"
  /\ summary' = [failures |-> failures, files |-> DOMAIN sessions]
  /\ run' = "ending"
  /\ UNCHANGED <<persist, sessions, log, lastUUID, failures, at, rec>>
Finalize ==
  /\ run = "running" /\ \A g \in Files \cup PoolTasks : at[g] = "idle"
  /\ summary' = [failures |-> failures, files |-> DOMAIN sessions]
  /\ run' = "ending"
  /\ UNCHANGED <<persist, sessions, log, lastUUID, failures, at, rec>>

WriteSessionEnd ==
  /\ run = "ending"
  /\ Write([kind |-> "session_end", uuid |-> NextUUID, parent |-> lastUUID,
            summary |-> summary])
  /\ run' = "ended"
  /\ UNCHANGED <<persist, sessions, failures, summary, at, rec>>

Next ==
  \/ \E g \in Goroutines :
       \/ GetOrCreateFileSession(g) \/ AppendTaskRecord(g)
       \/ SetResponse(g) \/ SetError(g) \/ CountFailure(g)
       \/ ExecuteToolCall(g)
  \/ Finalize \/ WriteSessionEnd

Spec == Init /\ [][Next]_vars
-------------------------------------------------------------------------------
(* What the session file may hold now. The writer's buffer goes to disk whenever
   it is full, so while the file is open that is any part of the log from its
   start, the last line perhaps cut short; a crash leaves one of these. The end
   of the session is flushed and the file closed: later records never arrive. *)
FilePrefixes ==
  {SubSeq(log, 1, k) : k \in 0..Len(log)}
    \cup {SubSeq(log, 1, k) \o <<Torn>> : k \in 0..(Len(log) - 1)}

NeverClosed ==  \* mutant: flushed but not closed
  FilePrefixes
OnDisk ==
  IF persist /\ run = "ended"
  THEN {SubSeq(log, 1, CHOOSE k \in DOMAIN log : log[k].kind = "session_end")}
  ELSE FilePrefixes
-------------------------------------------------------------------------------
TypeOK ==
  /\ DOMAIN sessions \subseteq Files
  /\ sessions \in [DOMAIN sessions -> [Types -> Nat]]
  /\ lastUUID = Len(log)
  /\ failures \in Nat
  /\ run \in {"running", "ending", "ended"}
  /\ at \in [Goroutines -> {"idle", "got", "asked", "failed", "tools"}]

(* The records form one chain whatever goroutines wrote them, and the requests of
   a file and task are numbered from 1 in the order of the file, with no gap: a
   number is taken and written under one lock (AppendTaskRecord, history.go:171-188;
   persist.go:158-255). *)
RecordsInOrder ==
  \A k \in DOMAIN log :
    /\ log[k].parent = k - 1 /\ log[k].uuid = k
    /\ k \in Requests =>
         log[k].no = Cardinality({l \in Requests : l <= k /\ log[l].file = log[k].file
                                                          /\ log[l].type = log[k].type})

(* A file with a session_end is the whole review: every request of a file or of the
   pool is followed by its answer or error, every file it mentions is among
   files_reviewed, and llm_failures counts every error of theirs and none that the
   file does not show. Background compressions alone may be cut off (Finalize,
   history.go:151-166). *)
EndIsComplete ==
  persist /\ run = "ended" =>
    \A file \in OnDisk :
      LET end      == Last(file).summary
          ofKind(k, kinds) == file[k].kind \in kinds
          errors   == {k \in DOMAIN file : ofKind(k, {"llm_error"})}
          jobs     == {k \in errors : file[k].type = Compression}
          inBetween == {k \in DOMAIN file : ~ofKind(k, {"session_start", "session_end"})}
      IN  /\ \A k \in inBetween : file[k].file \in end.files
          /\ \A k \in inBetween :
               ofKind(k, {"llm_request"}) /\ file[k].type # Compression =>
                 \E l \in inBetween : /\ ofKind(l, {"llm_response", "llm_error"})
                                      /\ file[l].of = file[k].of
          /\ Cardinality(errors \ jobs) <= end.failures
          /\ end.failures <= Cardinality(errors)

(* On a card of the main task the response, the error and the results shown are
   those of its own request, and every answer in the file is shown: a file's main
   requests never overlap (LoadSession, store.go:331-445). *)
MainCardsTheirOwn ==
  \A file \in OnDisk, f \in Files :
    LET cards == LoadSession(file).cards[<<f, Main>>] IN
    /\ \A c \in DOMAIN cards :
         /\ {cards[c].response, cards[c].error} \subseteq {0, cards[c].of}
         /\ \A i \in DOMAIN cards[c].calls : cards[c].calls[i].result.of \in {0, cards[c].of}
    /\ \A k \in DOMAIN file :
         file[k].kind \in {"llm_response", "llm_error"} /\ file[k].file = f /\ file[k].type = Main
           => \E c \in DOMAIN cards : file[k].of \in {cards[c].response, cards[c].error}

(* The list of sessions and the page of a session agree on the start, the duration,
   the files and the failures, on a running, ended or crashed session (peekSession
   reads the last line only, store.go:117-189). *)
PeekAgreesWithLoad ==
  \A file \in OnDisk :
    LET view == LoadSession(file)
    IN  PeekSession(file) = [started |-> view.started, summary |-> view.summary]
===============================================================================
