--------------------------- MODULE SessionLogProofs ---------------------------
(***************************************************************************)
(* The inductive invariant of SessionLog, for any files, pool tasks and    *)
(* background compressions, any bound on the requests and any calls in the *)
(* responses. In layers; each uses the ones before it:                     *)
(*   Domains, Chain      the domains; one chain of records;                *)
(*   Working             what a goroutine at work is at work on;           *)
(*   Mentioned, Numbered the files and the request numbers of the log are  *)
(*                       those of the file sessions in memory;             *)
(*   Answers, Counted    a request without an answer has a goroutine that  *)
(*                       waits for it; an error not yet counted one that   *)
(*                       is about to count it;                             *)
(*   Quiet, Summed       what Finalize read stays true of the log, up to   *)
(*                       background compressions;                          *)
(*   Closed              the log up to its session_end is complete;        *)
(*   Asks                main requests of a file are its own goroutine's;  *)
(*   AllViewed           what the viewer shows of every part of the log    *)
(*                       from its start;                                   *)
(*   Facing              the last card is of the request at work.          *)
(***************************************************************************)
EXTENDS SessionLog, FiniteSetTheorems, SequenceTheorems, WellFoundedInduction, TLAPS

Between == {"llm_request", "llm_response", "llm_error", "tool_call"}
Answer  == {"llm_response", "llm_error"}

Summaries == [failures : Nat, files : SUBSET Files]

Record ==
  UNION {[kind : {"session_start"}, uuid : Nat, parent : Nat],
         [kind : {"llm_request"}, uuid : Nat, parent : Nat, file : Files, type : Types,
          of : Nat, no : Nat],
         [kind : {"llm_response"}, uuid : Nat, parent : Nat, file : Files, type : Types,
          of : Nat, empty : BOOLEAN, calls : Seq(STRING)],
         [kind : {"llm_error"}, uuid : Nat, parent : Nat, file : Files, type : Types,
          of : Nat],
         [kind : {"tool_call"}, uuid : Nat, parent : Nat, file : Files, type : Types,
          of : Nat, pos : Nat],
         [kind : {"session_end"}, uuid : Nat, parent : Nat, summary : Summaries]}

TaskRecord == [file : Files \cup {"none"}, type : Types, no : Nat, of : Nat,
               calls : Seq(STRING), pos : Nat]

Domains ==
  /\ persist \in BOOLEAN
  /\ DOMAIN sessions \subseteq Files
  /\ sessions \in [DOMAIN sessions -> [Types -> Nat]]
  /\ log \in Seq(Record)
  /\ failures \in Nat
  /\ run \in {"running", "ending", "ended"}
  /\ summary \in Summaries
  /\ at \in [Goroutines -> {"idle", "got", "asked", "failed", "tools"}]
  /\ rec \in [Goroutines -> TaskRecord]
  /\ ~persist => log = <<>>

Chain ==
  /\ lastUUID = Len(log)
  /\ \A k \in DOMAIN log : log[k].uuid = k /\ log[k].parent = k - 1

(* A goroutine at work has a file session, and only jobs outlive Run. *)
Working ==
  \A g \in Goroutines : at[g] # "idle" =>
    /\ rec[g].file \in DOMAIN sessions
    /\ g \in Jobs => rec[g].type = Compression
    /\ at[g] = "tools" => rec[g].calls # <<>>

Mentioned ==
  \A k \in DOMAIN log : log[k].kind \in Between => log[k].file \in DOMAIN sessions

RequestsOf(file, type) == {k \in Requests : log[k].file = file /\ log[k].type = type}

Numbered ==
  /\ persist => \A f \in DOMAIN sessions, t \in Types :
                  sessions[f][t] = Cardinality(RequestsOf(f, t))
  /\ \A k \in Requests :
       log[k].no = Cardinality({l \in RequestsOf(log[k].file, log[k].type) : l <= k})

Answered(k) == \E l \in DOMAIN log : log[l].kind \in Answer /\ log[l].of = k
AskedBy(g, k) == at[g] = "asked" /\ rec[g].of = k /\ rec[g].type = log[k].type

Answers ==
  \A k \in Requests : /\ log[k].of = k
                      /\ Answered(k) \/ \E g \in Goroutines : AskedBy(g, k)

Errors      == {k \in DOMAIN log : log[k].kind = "llm_error"}
PlainErrors == {k \in Errors : log[k].type # Compression}
Failed      == {g \in Goroutines : at[g] = "failed"}
PlainFailed == {g \in Failed : rec[g].type # Compression}

Counted ==
  persist => /\ failures + Cardinality(Failed) <= Cardinality(Errors)
             /\ Cardinality(PlainErrors) <= failures + Cardinality(PlainFailed)

Quiet ==
  run # "running" => /\ \A g \in Files \cup PoolTasks : at[g] = "idle"
                     /\ summary.files = DOMAIN sessions

Summed ==
  persist /\ run = "ending" =>
    /\ Cardinality(PlainErrors) <= summary.failures
    /\ summary.failures <= Cardinality(Errors)

(* Record e ends the session, and what precedes it is complete. *)
Whole(e) ==
  /\ log[e].kind = "session_end"
  /\ \A k \in DOMAIN log : log[k].kind = "session_end" => k = e
  /\ \A k \in 1..(e - 1) :
       /\ log[k].kind \in Between => log[k].file \in log[e].summary.files
       /\ log[k].kind = "llm_request" /\ log[k].type # Compression =>
            \E l \in 1..(e - 1) : log[l].kind \in Answer /\ log[l].of = log[k].of
  /\ Cardinality({k \in 1..(e - 1) : log[k].kind = "llm_error" /\ log[k].type # Compression})
       <= log[e].summary.failures
  /\ log[e].summary.failures <= Cardinality({k \in 1..(e - 1) : log[k].kind = "llm_error"})

Closed ==
  /\ run # "ended" => \A k \in DOMAIN log : log[k].kind # "session_end"
  /\ persist /\ run = "ended" => \E e \in DOMAIN log : Whole(e)

IInv ==
  /\ Domains /\ Chain /\ Working
  /\ Mentioned /\ Numbered /\ Answers
  /\ Counted /\ Quiet /\ Summed /\ Closed
------------------------------------------------------------------------------
(* What a write does to the log. *)

Logged(record) ==
  /\ persist /\ record \in Record
  /\ log' \in Seq(Record)
  /\ Len(log') = Len(log) + 1
  /\ DOMAIN log' = DOMAIN log \cup {Len(log) + 1}
  /\ Len(log) + 1 \notin DOMAIN log
  /\ \A k \in DOMAIN log : log'[k] = log[k]
  /\ log'[Len(log) + 1] = record
  /\ lastUUID' = record.uuid

LEMMA LogIndices == Domains => Len(log) \in Nat /\ DOMAIN log = 1..Len(log)
  BY LenProperties DEF Domains

LEMMA WriteLogs ==
  ASSUME Domains, NEW record \in Record, Write(record)
  PROVE  IF persist THEN Logged(record) ELSE UNCHANGED <<log, lastUUID>>
<1>1. CASE ~persist
  BY <1>1 DEF Write
<1>2. CASE persist
  <2>1. log \in Seq(Record) /\ log' = Append(log, record) /\ lastUUID' = record.uuid
    BY <1>2 DEF Write, Domains
  <2>2. /\ log' \in Seq(Record)
        /\ Len(log') = Len(log) + 1
        /\ \A k \in 1..Len(log) : log'[k] = log[k]
        /\ log'[Len(log) + 1] = record
    BY <2>1, AppendProperties
  <2>3. DOMAIN log' = 1..Len(log')
    BY <2>2, LenProperties
  <2>4. Len(log) \in Nat /\ DOMAIN log = 1..Len(log)
    BY LogIndices
  <2>5. DOMAIN log' = DOMAIN log \cup {Len(log) + 1} /\ Len(log) + 1 \notin DOMAIN log
    BY <2>2, <2>3, <2>4
  <2> QED
    BY <1>2, <2>1, <2>2, <2>4, <2>5 DEF Logged
<1> QED
  BY <1>1, <1>2

(* A record of the log by its kind. *)
LEMMA RecordKinds ==
  ASSUME NEW record \in Record
  PROVE  /\ record.kind \in {"session_start", "session_end"} \cup Between
         /\ record.kind \in Between => record.file \in Files
         /\ record.kind = "session_end" => record.summary \in Summaries
  BY DEF Record, Between

Wrote(kind) ==
  /\ Logged(log'[Len(log) + 1])
  /\ log'[Len(log) + 1].kind = kind
  /\ log'[Len(log) + 1].uuid = Len(log) + 1
  /\ log'[Len(log) + 1].parent = Len(log)

(* Goroutine g wrote a record of this kind about request "of". *)
WroteFor(g, kind, of) ==
  IF ~persist THEN UNCHANGED <<log, lastUUID>>
  ELSE /\ Wrote(kind)
       /\ log'[Len(log) + 1].file = rec[g].file
       /\ log'[Len(log) + 1].type = rec[g].type
       /\ log'[Len(log) + 1].of = of

LEMMA AtWork ==
  ASSUME Domains, Working, NEW g \in Goroutines, at[g] # "idle"
  PROVE  /\ rec[g] \in TaskRecord /\ rec[g].file \in Files /\ rec[g].type \in Types
         /\ rec[g].of \in Nat /\ rec[g].pos \in Nat
         /\ rec[g].file \in DOMAIN sessions
         /\ sessions[rec[g].file][rec[g].type] \in Nat
<1>1. rec[g] \in TaskRecord /\ rec[g].file \in DOMAIN sessions
  BY DEF Domains, Working
<1>2. /\ rec[g].file \in Files /\ rec[g].type \in Types
      /\ rec[g].of \in Nat /\ rec[g].pos \in Nat
  BY <1>1 DEF TaskRecord, Domains
<1>3. sessions[rec[g].file] \in [Types -> Nat]
  BY <1>1 DEF Domains
<1> QED
  BY <1>1, <1>2, <1>3

LEMMA RequestWritten ==
  ASSUME Domains, Chain, Working, NEW g \in Goroutines, AppendTaskRecord(g)
  PROVE  /\ WroteFor(g, "llm_request", Len(log) + 1)
         /\ persist => log'[Len(log) + 1].no = sessions[rec[g].file][rec[g].type] + 1
<1> DEFINE no == sessions[rec[g].file][rec[g].type] + 1
           r == [kind |-> "llm_request", uuid |-> Len(log) + 1, parent |-> lastUUID,
                 file |-> rec[g].file, type |-> rec[g].type, of |-> Len(log) + 1, no |-> no]
<1>1. at[g] # "idle" /\ Write(r)
  BY DEF AppendTaskRecord, NextUUID, NextNumber
<1>2. lastUUID = Len(log) /\ Len(log) \in Nat /\ no \in Nat
  BY <1>1, AtWork, LogIndices DEF Chain
<1>3. r \in Record
  BY <1>1, <1>2, AtWork DEF Record
<1> HIDE DEF no
<1>4. /\ r.kind = "llm_request" /\ r.uuid = Len(log) + 1 /\ r.parent = Len(log)
      /\ r.file = rec[g].file /\ r.type = rec[g].type /\ r.of = Len(log) + 1 /\ r.no = no
  BY <1>2
<1> HIDE DEF r
<1>5. IF persist THEN Logged(r) ELSE UNCHANGED <<log, lastUUID>>
  BY <1>1, <1>3, WriteLogs
<1> QED
  BY <1>4, <1>5 DEF WroteFor, Wrote, Logged, no

LEMMA ResponseWritten ==
  ASSUME Domains, Chain, Working, NEW g \in Goroutines, SetResponse(g)
  PROVE  WroteFor(g, "llm_response", rec[g].of)
<1>1. at[g] # "idle"
  BY DEF SetResponse
<1>2. PICK calls \in Calls \cup {<<>>}, empty \in BOOLEAN :
        Write([kind |-> "llm_response", uuid |-> Len(log) + 1, parent |-> lastUUID,
               file |-> rec[g].file, type |-> rec[g].type, of |-> rec[g].of,
               empty |-> empty, calls |-> calls])
  BY DEF SetResponse, NextUUID
<1> DEFINE r == [kind |-> "llm_response", uuid |-> Len(log) + 1, parent |-> lastUUID,
                 file |-> rec[g].file, type |-> rec[g].type, of |-> rec[g].of,
                 empty |-> empty, calls |-> calls]
<1>3. lastUUID = Len(log) /\ Len(log) \in Nat /\ calls \in Seq(STRING)
  BY LogIndices, SessionAssumption DEF Chain
<1>4. r \in Record
  BY <1>1, <1>3, AtWork DEF Record
<1>5. /\ r.kind = "llm_response" /\ r.uuid = Len(log) + 1 /\ r.parent = Len(log)
      /\ r.file = rec[g].file /\ r.type = rec[g].type /\ r.of = rec[g].of
  BY <1>3
<1>6. Write(r)
  BY <1>2
<1> HIDE DEF r
<1>7. IF persist THEN Logged(r) ELSE UNCHANGED <<log, lastUUID>>
  BY <1>4, <1>6, WriteLogs
<1> QED
  BY <1>5, <1>7 DEF WroteFor, Wrote, Logged

LEMMA ErrorWritten ==
  ASSUME Domains, Chain, Working, NEW g \in Goroutines, SetError(g)
  PROVE  WroteFor(g, "llm_error", rec[g].of)
<1> DEFINE r == [kind |-> "llm_error", uuid |-> Len(log) + 1, parent |-> lastUUID,
                 file |-> rec[g].file, type |-> rec[g].type, of |-> rec[g].of]
<1>1. at[g] # "idle" /\ Write(r)
  BY DEF SetError, NextUUID
<1>2. lastUUID = Len(log) /\ Len(log) \in Nat
  BY LogIndices DEF Chain
<1>3. r \in Record
  BY <1>1, <1>2, AtWork DEF Record
<1>4. /\ r.kind = "llm_error" /\ r.uuid = Len(log) + 1 /\ r.parent = Len(log)
      /\ r.file = rec[g].file /\ r.type = rec[g].type /\ r.of = rec[g].of
  BY <1>2
<1> HIDE DEF r
<1>5. IF persist THEN Logged(r) ELSE UNCHANGED <<log, lastUUID>>
  BY <1>1, <1>3, WriteLogs
<1> QED
  BY <1>4, <1>5 DEF WroteFor, Wrote, Logged

LEMMA ToolCallWritten ==
  ASSUME Domains, Chain, Working, NEW g \in Goroutines, ExecuteToolCall(g)
  PROVE  WroteFor(g, "tool_call", rec[g].of) \/ UNCHANGED <<log, lastUUID>>
<1> DEFINE r == [kind |-> "tool_call", uuid |-> Len(log) + 1, parent |-> lastUUID,
                 file |-> rec[g].file, type |-> rec[g].type, of |-> rec[g].of,
                 pos |-> rec[g].pos]
<1>1. CASE UNCHANGED <<log, lastUUID>>
  BY <1>1
<1>2. CASE Write(r)
  <2>1. at[g] # "idle"
    BY DEF ExecuteToolCall
  <2>2. lastUUID = Len(log) /\ Len(log) \in Nat
    BY LogIndices DEF Chain
  <2>3. r \in Record
    BY <2>1, <2>2, AtWork DEF Record
  <2>4. /\ r.kind = "tool_call" /\ r.uuid = Len(log) + 1 /\ r.parent = Len(log)
        /\ r.file = rec[g].file /\ r.type = rec[g].type /\ r.of = rec[g].of
    BY <2>2
  <2> HIDE DEF r
  <2>5. IF persist THEN Logged(r) ELSE UNCHANGED <<log, lastUUID>>
    BY <1>2, <2>3, WriteLogs
  <2> QED
    BY <2>4, <2>5 DEF WroteFor, Wrote, Logged
<1> QED
  BY <1>1, <1>2 DEF ExecuteToolCall, NextUUID

LEMMA EndWritten ==
  ASSUME Domains, Chain, WriteSessionEnd
  PROVE  IF persist THEN Wrote("session_end") /\ log'[Len(log) + 1].summary = summary
                    ELSE UNCHANGED <<log, lastUUID>>
<1> DEFINE r == [kind |-> "session_end", uuid |-> Len(log) + 1, parent |-> lastUUID,
                 summary |-> summary]
<1>1. Write(r)
  BY DEF WriteSessionEnd, NextUUID
<1>2. lastUUID = Len(log) /\ Len(log) \in Nat /\ summary \in Summaries
  BY LogIndices DEF Chain, Domains
<1>3. r \in Record
  BY <1>2 DEF Record
<1>4. /\ r.kind = "session_end" /\ r.uuid = Len(log) + 1 /\ r.parent = Len(log)
      /\ r.summary = summary
  BY <1>2
<1> HIDE DEF r
<1>5. IF persist THEN Logged(r) ELSE UNCHANGED <<log, lastUUID>>
  BY <1>1, <1>3, WriteLogs
<1> QED
  BY <1>4, <1>5 DEF Wrote, Logged
------------------------------------------------------------------------------
(* The actions, told apart once. *)

OneStep(g) ==
  \/ GetOrCreateFileSession(g) \/ AppendTaskRecord(g) \/ SetResponse(g)
  \/ SetError(g) \/ CountFailure(g) \/ ExecuteToolCall(g)

(* What a step does to the log: nothing, or one record, of the goroutine that took
   the step or of the end of the session. *)
LEMMA LogSteps ==
  ASSUME Domains, Chain, Working, [Next]_vars
  PROVE  \/ UNCHANGED <<log, lastUUID>>
         \/ run = "ending" /\ run' = "ended" /\ Wrote("session_end")
         \/ \E g \in Goroutines, kind \in Between :
              /\ at[g] # "idle" /\ OneStep(g) /\ Wrote(kind)
              /\ log'[Len(log) + 1].file = rec[g].file
              /\ log'[Len(log) + 1].type = rec[g].type
<1>1. CASE UNCHANGED vars
  BY <1>1 DEF vars
<1>2. ASSUME NEW g \in Goroutines, OneStep(g)
      PROVE  \/ UNCHANGED <<log, lastUUID>>
             \/ \E kind \in Between :
                  /\ at[g] # "idle" /\ Wrote(kind)
                  /\ log'[Len(log) + 1].file = rec[g].file
                  /\ log'[Len(log) + 1].type = rec[g].type
  <2>1. CASE GetOrCreateFileSession(g)
    BY <2>1 DEF GetOrCreateFileSession
  <2>2. CASE AppendTaskRecord(g)
    <3>1. at[g] # "idle"
      BY <2>2 DEF AppendTaskRecord
    <3> QED
      BY <2>2, <3>1, RequestWritten DEF WroteFor, Between
  <2>3. CASE SetResponse(g)
    <3>1. at[g] # "idle"
      BY <2>3 DEF SetResponse
    <3> QED
      BY <2>3, <3>1, ResponseWritten DEF WroteFor, Between
  <2>4. CASE SetError(g)
    <3>1. at[g] # "idle"
      BY <2>4 DEF SetError
    <3> QED
      BY <2>4, <3>1, ErrorWritten DEF WroteFor, Between
  <2>5. CASE CountFailure(g)
    BY <2>5 DEF CountFailure
  <2>6. CASE ExecuteToolCall(g)
    <3>1. at[g] # "idle"
      BY <2>6 DEF ExecuteToolCall
    <3> QED
      BY <2>6, <3>1, ToolCallWritten DEF WroteFor, Between
  <2> QED
    BY <1>2, <2>1, <2>2, <2>3, <2>4, <2>5, <2>6 DEF OneStep
<1>3. CASE Finalize
  BY <1>3 DEF Finalize
<1>4. CASE WriteSessionEnd
  <2>1. run = "ending" /\ run' = "ended"
    BY <1>4 DEF WriteSessionEnd
  <2> QED
    BY <1>4, <2>1, EndWritten
<1>5. ASSUME NEW g \in Goroutines, OneStep(g)
      PROVE  \/ UNCHANGED <<log, lastUUID>>
             \/ \E h \in Goroutines, kind \in Between :
                  /\ at[h] # "idle" /\ OneStep(h) /\ Wrote(kind)
                  /\ log'[Len(log) + 1].file = rec[h].file
                  /\ log'[Len(log) + 1].type = rec[h].type
  BY <1>2, <1>5
<1> QED
  BY <1>1, <1>3, <1>4, <1>5 DEF Next, OneStep

LEMMA DomainsInit == Init => Domains /\ Chain
<1> SUFFICES ASSUME Init PROVE Domains /\ Chain
  OBVIOUS
<1>1. persist \in BOOLEAN /\ failures \in Nat /\ sessions = <<>>
  BY DEF Init, New
<1>2. ASSUME persist PROVE Chain /\ log \in Seq(Record)
  <2> DEFINE r == [kind |-> "session_start", uuid |-> 1, parent |-> 0]
  <2>1. log = <<r>> /\ lastUUID = Len(log)
    BY <1>2 DEF Init, New
  <2>2. r \in Record /\ r.uuid = 1 /\ r.parent = 0
    BY DEF Record
  <2> HIDE DEF r
  <2>3. DOMAIN log = {1} /\ log[1] = r /\ Len(log) = 1
    BY <2>1
  <2> QED
    BY <1>2, <2>1, <2>2, <2>3 DEF Chain
<1>3. ASSUME ~persist PROVE Chain /\ log \in Seq(Record)
  BY <1>3 DEF Init, New, Chain
<1>4. log \in Seq(Record) /\ (~persist => log = <<>>) /\ Chain
  BY <1>2, <1>3 DEF Init, New
<1>5. sessions \in [DOMAIN sessions -> [Types -> Nat]] /\ DOMAIN sessions = {}
  BY <1>1
<1>6. run = "running" /\ summary \in Summaries
  BY DEF Init, Summaries, NotEnded
<1>7. at \in [Goroutines -> {"idle", "got", "asked", "failed", "tools"}]
  BY DEF Init
<1>8. rec \in [Goroutines -> TaskRecord]
  BY SessionAssumption DEF Init, TaskRecord, NoRecord
<1> QED
  BY <1>1, <1>4, <1>5, <1>6, <1>7, <1>8 DEF Domains

LEMMA DomainsStep ==
  ASSUME Domains, Chain, Working, [Next]_vars
  PROVE  Domains' /\ Chain'
<1>1. log' \in Seq(Record) /\ persist' = persist /\ (~persist' => log' = <<>>)
  <2>1. persist' = persist
    BY DEF Next, vars, GetOrCreateFileSession, AppendTaskRecord, SetResponse, SetError,
           CountFailure, ExecuteToolCall, Finalize, WriteSessionEnd
  <2> QED
    BY <2>1, LogSteps DEF Wrote, Logged, Domains
<1>2. Chain'
  <2>1. CASE UNCHANGED <<log, lastUUID>>
    BY <2>1 DEF Chain
  <2>2. ASSUME NEW kind, Wrote(kind)
        PROVE  Chain'
    <3>1. Len(log) \in Nat
      BY LogIndices
    <3> QED
      BY <2>2, <3>1 DEF Chain, Wrote, Logged
  <2> QED
    BY <2>1, <2>2, LogSteps
<1>3. ASSUME NEW g \in Goroutines, OneStep(g)
      PROVE  /\ DOMAIN sessions' \subseteq Files
             /\ sessions' \in [DOMAIN sessions' -> [Types -> Nat]]
             /\ failures' \in Nat /\ run' = run /\ summary' = summary
             /\ at' \in [Goroutines -> {"idle", "got", "asked", "failed", "tools"}]
             /\ rec' \in [Goroutines -> TaskRecord]
  <2>1. CASE GetOrCreateFileSession(g)
    <3>1. PICK file \in Files, type \in Types :
            /\ sessions' = [f \in DOMAIN sessions \cup {file} |->
                              IF f \in DOMAIN sessions THEN sessions[f] ELSE [t \in Types |-> 0]]
            /\ rec' = [rec EXCEPT ![g] = [NoRecord EXCEPT !.file = file, !.type = type]]
      BY <2>1 DEF GetOrCreateFileSession
    <3>2. [NoRecord EXCEPT !.file = file, !.type = type] \in TaskRecord
      <4>1. NoRecord \in TaskRecord
        BY SessionAssumption DEF NoRecord, TaskRecord
      <4> QED
        BY <4>1 DEF TaskRecord
    <3>3. rec' \in [Goroutines -> TaskRecord]
      BY <3>1, <3>2 DEF Domains
    <3>4. sessions' \in [DOMAIN sessions' -> [Types -> Nat]] /\ DOMAIN sessions' \subseteq Files
      BY <3>1 DEF Domains
    <3> QED
      BY <2>1, <3>3, <3>4 DEF GetOrCreateFileSession, Domains
  <2>2. CASE AppendTaskRecord(g)
    <3>1. at[g] # "idle"
      BY <2>2 DEF AppendTaskRecord
    <3> DEFINE f == rec[g].file
               t == rec[g].type
               no == sessions[f][t] + 1
    <3>2. f \in DOMAIN sessions /\ t \in Types /\ sessions[f][t] \in Nat /\ rec[g] \in TaskRecord
      BY <3>1, AtWork
    <3>3. no \in Nat /\ Len(log) + 1 \in Nat
      BY <3>2, LogIndices
    <3>4. /\ sessions' = [sessions EXCEPT ![f][t] = sessions[f][t] + 1]
          /\ rec' = [rec EXCEPT ![g].no = no, ![g].of = Len(log) + 1]
      BY <2>2 DEF AppendTaskRecord, NextNumber, NextUUID
    <3> HIDE DEF f, t
    <3>5. sessions' \in [DOMAIN sessions -> [Types -> Nat]]
      BY <3>2, <3>3, <3>4 DEF Domains
    <3> HIDE DEF no
    <3>6. rec' \in [Goroutines -> TaskRecord]
      BY <3>2, <3>3, <3>4 DEF Domains, TaskRecord
    <3> QED
      BY <2>2, <3>5, <3>6 DEF AppendTaskRecord, Domains
  <2>3. CASE SetResponse(g)
    <3>1. PICK calls \in Calls \cup {<<>>} :
            /\ rec' = [rec EXCEPT ![g].calls = calls]
            /\ at' = [at EXCEPT ![g] = IF calls = <<>> THEN "idle" ELSE "tools"]
      BY <2>3 DEF SetResponse
    <3>2. calls \in Seq(STRING)
      BY SessionAssumption
    <3>3. rec' \in [Goroutines -> TaskRecord]
      BY <3>1, <3>2 DEF Domains, TaskRecord
    <3> QED
      BY <2>3, <3>1, <3>3 DEF SetResponse, Domains
  <2>4. CASE SetError(g)
    BY <2>4 DEF SetError, Domains
  <2>5. CASE CountFailure(g)
    BY <2>5 DEF CountFailure, Domains
  <2>6. CASE ExecuteToolCall(g)
    <3>1. /\ rec' = [rec EXCEPT ![g].calls = Tail(rec[g].calls), ![g].pos = rec[g].pos + 1]
          /\ at[g] = "tools"
      BY <2>6 DEF ExecuteToolCall
    <3>2. rec[g] \in TaskRecord /\ rec[g].calls # <<>>
      BY <3>1 DEF Domains, Working
    <3>3. rec[g].calls \in Seq(STRING) /\ rec[g].pos + 1 \in Nat
      BY <3>2 DEF TaskRecord
    <3>4. Tail(rec[g].calls) \in Seq(STRING)
      BY <3>2, <3>3, HeadTailProperties
    <3>5. rec' \in [Goroutines -> TaskRecord]
      BY <3>1, <3>2, <3>3, <3>4 DEF Domains, TaskRecord
    <3> QED
      BY <2>6, <3>5 DEF ExecuteToolCall, Domains
  <2> QED
    BY <1>3, <2>1, <2>2, <2>3, <2>4, <2>5, <2>6 DEF OneStep
<1>4. CASE \E g \in Goroutines : OneStep(g)
  BY <1>1, <1>2, <1>3, <1>4 DEF Domains
<1>5. CASE UNCHANGED vars
  BY <1>1, <1>2, <1>5 DEF Domains, vars
<1>6. CASE Finalize
  <2>1. [failures |-> failures, files |-> DOMAIN sessions] \in Summaries
    BY DEF Domains, Summaries
  <2> QED
    BY <1>1, <1>2, <1>6, <2>1 DEF Finalize, Domains
<1>7. CASE WriteSessionEnd
  BY <1>1, <1>2, <1>7 DEF WriteSessionEnd, Domains
<1> QED
  BY <1>4, <1>5, <1>6, <1>7 DEF Next, OneStep
------------------------------------------------------------------------------
(* Where goroutines are. *)

LEMMA Asking ==
  ASSUME NEW g \in Goroutines, GetOrCreateFileSession(g)
  PROVE  \E file \in Files, type \in Types :
           /\ sessions' = [f \in DOMAIN sessions \cup {file} |->
                             IF f \in DOMAIN sessions THEN sessions[f] ELSE [t \in Types |-> 0]]
           /\ rec' = [rec EXCEPT ![g] = [NoRecord EXCEPT !.file = file, !.type = type]]
           /\ g \in Jobs => type = Compression /\ file \in DOMAIN sessions
<1>1. PICK file \in Files, type \in Types :
        /\ MayAsk(g, file, type)
        /\ sessions' = [f \in DOMAIN sessions \cup {file} |->
                          IF f \in DOMAIN sessions THEN sessions[f] ELSE [t \in Types |-> 0]]
        /\ rec' = [rec EXCEPT ![g] = [NoRecord EXCEPT !.file = file, !.type = type]]
  BY DEF GetOrCreateFileSession
<1>2. g \in Jobs => type = Compression /\ file \in DOMAIN sessions
  BY <1>1, SessionAssumption DEF MayAsk
<1> QED
  BY <1>1, <1>2

LEMMA SessionsStay ==
  ASSUME Domains, [Next]_vars
  PROVE  DOMAIN sessions \subseteq DOMAIN sessions'
<1>1. ASSUME NEW g \in Goroutines, OneStep(g) PROVE DOMAIN sessions \subseteq DOMAIN sessions'
  <2>1. CASE GetOrCreateFileSession(g)
    BY <2>1, Asking
  <2> QED
    BY <1>1, <2>1 DEF OneStep, AppendTaskRecord, SetResponse, SetError, CountFailure,
                      ExecuteToolCall
<1> QED
  BY <1>1 DEF Next, OneStep, Finalize, WriteSessionEnd, vars

LEMMA OthersStay ==
  ASSUME Domains, NEW g \in Goroutines, OneStep(g)
  PROVE  \A h \in Goroutines \ {g} : at'[h] = at[h] /\ rec'[h] = rec[h]
  BY DEF OneStep, GetOrCreateFileSession, AppendTaskRecord, SetResponse, SetError,
         CountFailure, ExecuteToolCall, Domains

LEMMA WorkingStep ==
  ASSUME Domains, Chain, Working, [Next]_vars
  PROVE  Working'
<1>2. ASSUME NEW g \in Goroutines, OneStep(g), at'[g] # "idle"
      PROVE  /\ rec'[g].file \in DOMAIN sessions'
             /\ g \in Jobs => rec'[g].type = Compression
             /\ at'[g] = "tools" => rec'[g].calls # <<>>
  <2>1. CASE GetOrCreateFileSession(g)
    <3>1. PICK file \in Files, type \in Types :
            /\ file \in DOMAIN sessions'
            /\ rec' = [rec EXCEPT ![g] = [NoRecord EXCEPT !.file = file, !.type = type]]
            /\ g \in Jobs => type = Compression
      BY <2>1, Asking
    <3>2. rec'[g] = [NoRecord EXCEPT !.file = file, !.type = type]
      BY <3>1 DEF Domains
    <3>3. rec'[g].file = file /\ rec'[g].type = type
      BY <3>2 DEF NoRecord
    <3>4. at'[g] = "got"
      BY <2>1 DEF GetOrCreateFileSession, Domains
    <3> QED
      BY <3>1, <3>3, <3>4
  <2>2. at[g] # "idle" /\ ~GetOrCreateFileSession(g) =>
          rec[g].file \in DOMAIN sessions' /\ (g \in Jobs => rec[g].type = Compression)
    BY SessionsStay DEF Working
  <2>3. CASE AppendTaskRecord(g)
    <3>1. /\ at[g] # "idle" /\ at'[g] = "asked"
          /\ rec'[g].file = rec[g].file /\ rec'[g].type = rec[g].type
      BY <2>3 DEF AppendTaskRecord, Domains, TaskRecord
    <3> QED
      BY <2>3, <3>1, SessionsStay DEF Working
  <2>4. CASE SetResponse(g)
    <3>1. PICK calls \in Calls \cup {<<>>} :
            /\ rec' = [rec EXCEPT ![g].calls = calls]
            /\ at' = [at EXCEPT ![g] = IF calls = <<>> THEN "idle" ELSE "tools"]
      BY <2>4 DEF SetResponse
    <3>2. /\ at[g] # "idle"
          /\ rec'[g].file = rec[g].file /\ rec'[g].type = rec[g].type
          /\ rec'[g].calls = calls /\ calls # <<>>
      BY <1>2, <2>4, <3>1 DEF SetResponse, Domains, TaskRecord
    <3> QED
      BY <3>2, SessionsStay DEF Working
  <2>5. CASE SetError(g) \/ CountFailure(g)
    BY <1>2, <2>5, SessionsStay DEF SetError, CountFailure, Domains, Working
  <2>6. CASE ExecuteToolCall(g)
    <3> DEFINE s == rec[g].calls
    <3>1. /\ rec' = [rec EXCEPT ![g].calls = Tail(s), ![g].pos = rec[g].pos + 1]
          /\ at' = [at EXCEPT ![g] = IF Len(s) = 1 THEN "idle" ELSE "tools"]
          /\ at[g] = "tools"
      BY <2>6 DEF ExecuteToolCall
    <3>2. rec[g] \in TaskRecord /\ s # <<>> /\ s \in Seq(STRING)
      BY <3>1 DEF Domains, Working, TaskRecord
    <3>3. Len(s) # 1
      BY <1>2, <3>1 DEF Domains
    <3> HIDE DEF s
    <3>4. Tail(s) # <<>>
      <4>1. Len(s) \in Nat \ {0} /\ Tail(s) \in Seq(STRING) /\ Len(Tail(s)) = Len(s) - 1
        BY <3>2, EmptySeq, HeadTailProperties
      <4>2. Len(Tail(s)) # 0
        BY <3>3, <4>1
      <4> QED
        BY <4>2, EmptySeq
    <3>5. /\ rec'[g].file = rec[g].file /\ rec'[g].type = rec[g].type
          /\ rec'[g].calls = Tail(s)
      BY <3>1, <3>2 DEF Domains, TaskRecord
    <3> QED
      BY <3>1, <3>4, <3>5, SessionsStay DEF Working
  <2> QED
    BY <1>2, <2>1, <2>3, <2>4, <2>5, <2>6 DEF OneStep
<1>3. CASE \E g \in Goroutines : OneStep(g)
  <2>1. PICK g \in Goroutines : OneStep(g)
    BY <1>3
  <2>2. ASSUME NEW h \in Goroutines \ {g}, at'[h] # "idle"
        PROVE  /\ rec'[h].file \in DOMAIN sessions'
               /\ h \in Jobs => rec'[h].type = Compression
               /\ at'[h] = "tools" => rec'[h].calls # <<>>
    BY <2>1, <2>2, OthersStay, SessionsStay DEF Working
  <2> QED
    BY <1>2, <2>1, <2>2 DEF Working
<1>4. CASE ~\E g \in Goroutines : OneStep(g)
  <2>1. UNCHANGED <<sessions, at, rec>>
    BY <1>4 DEF Next, OneStep, Finalize, WriteSessionEnd, vars
  <2> QED
    BY <2>1 DEF Working
<1> QED
  BY <1>3, <1>4

(* Once Run has waited, only background compressions take steps. *)
LEMMA OnlyJobs ==
  ASSUME Domains, Quiet, run # "running", NEW g \in Goroutines, OneStep(g)
  PROVE  g \in Jobs
<1>1. at[g] # "idle" \/ g \in Jobs
  BY DEF OneStep, GetOrCreateFileSession, AppendTaskRecord, SetResponse, SetError, CountFailure,
         ExecuteToolCall
<1> QED
  BY <1>1 DEF Quiet, Goroutines

LEMMA QuietStep ==
  ASSUME Domains, Quiet, [Next]_vars
  PROVE  Quiet'
<1> SUFFICES ASSUME run' # "running" PROVE Quiet'
  BY DEF Quiet
<1>1. ASSUME NEW g \in Goroutines, OneStep(g)
      PROVE  Quiet'
  <2>1. run' = run /\ summary' = summary
    BY <1>1 DEF OneStep, GetOrCreateFileSession, AppendTaskRecord, SetResponse, SetError,
                CountFailure, ExecuteToolCall
  <2>2. g \in Jobs
    BY <1>1, <2>1, OnlyJobs
  <2>3. \A h \in Files \cup PoolTasks : at'[h] = at[h]
    <3>1. \A h \in Files \cup PoolTasks : h # g /\ h \in Goroutines
      BY <2>2, SessionAssumption DEF Goroutines
    <3> QED
      BY <1>1, <3>1, OthersStay
  <2>4. DOMAIN sessions' = DOMAIN sessions
    <3>1. CASE GetOrCreateFileSession(g)
      BY <2>2, <3>1, Asking
    <3> QED
      BY <1>1, <3>1 DEF OneStep, AppendTaskRecord, SetResponse, SetError, CountFailure,
                        ExecuteToolCall
  <2> QED
    BY <2>1, <2>3, <2>4 DEF Quiet
<1>2. CASE Finalize
  BY <1>2 DEF Finalize, Quiet
<1>3. CASE WriteSessionEnd
  BY <1>3 DEF WriteSessionEnd, Quiet
<1>4. CASE UNCHANGED vars
  BY <1>4 DEF vars, Quiet
<1> QED
  BY <1>1, <1>2, <1>3, <1>4 DEF Next, OneStep
------------------------------------------------------------------------------
(* The log and the file sessions in memory. *)

LEMMA MentionedStep ==
  ASSUME Domains, Chain, Working, Mentioned, [Next]_vars
  PROVE  Mentioned'
<1>1. DOMAIN sessions \subseteq DOMAIN sessions'
  BY SessionsStay
<1>2. CASE UNCHANGED <<log, lastUUID>>
  BY <1>1, <1>2 DEF Mentioned
<1>3. ASSUME NEW kind, Wrote(kind),
             kind \in Between => log'[Len(log) + 1].file \in DOMAIN sessions
      PROVE  Mentioned'
  BY <1>1, <1>3 DEF Mentioned, Wrote, Logged
<1>4. ASSUME NEW g \in Goroutines, NEW kind \in Between, at[g] # "idle", Wrote(kind),
             log'[Len(log) + 1].file = rec[g].file
      PROVE  Mentioned'
  BY <1>3, <1>4 DEF Working
<1>5. CASE Wrote("session_end")
  <2>1. "session_end" \notin Between
    BY DEF Between
  <2> QED
    BY <1>3, <1>5, <2>1
<1> QED
  BY <1>2, <1>4, <1>5, LogSteps

LEMMA RequestsFinite ==
  ASSUME Domains, NEW f, NEW t
  PROVE  IsFiniteSet(RequestsOf(f, t)) /\ Cardinality(RequestsOf(f, t)) \in Nat
<1>1. RequestsOf(f, t) \in SUBSET (1..Len(log)) /\ Len(log) \in Nat
  BY LogIndices DEF RequestsOf, Requests
<1>2. IsFiniteSet(1..Len(log))
  BY <1>1, FS_Interval
<1>3. IsFiniteSet(RequestsOf(f, t))
  BY <1>1, <1>2, FS_Subset
<1> QED
  BY <1>3, FS_CardinalityType

(* Records of other kinds leave the requests as they are. *)
LEMMA OtherKinds ==
  ASSUME Domains, UNCHANGED <<log, lastUUID>> \/ \E kind \in Between \cup {"session_end"} :
                                                   kind # "llm_request" /\ Wrote(kind)
  PROVE  /\ Requests' = Requests
         /\ \A k \in Requests : log'[k] = log[k]
         /\ \A f, t : RequestsOf(f, t)' = RequestsOf(f, t)
<1>1. Requests' = Requests /\ \A k \in Requests : log'[k] = log[k]
  BY DEF Requests, Wrote, Logged
<1>2. ASSUME NEW f, NEW t PROVE RequestsOf(f, t)' = RequestsOf(f, t)
  BY <1>1 DEF RequestsOf
<1> QED
  BY <1>1, <1>2

LEMMA OtherSteps ==
  ASSUME Domains, Chain, Working, [Next]_vars, ~\E g \in Goroutines : AppendTaskRecord(g)
  PROVE  UNCHANGED <<log, lastUUID>> \/ \E kind \in Between \cup {"session_end"} :
                                          kind # "llm_request" /\ Wrote(kind)
<1>1. ASSUME NEW g \in Goroutines, OneStep(g)
      PROVE  UNCHANGED <<log, lastUUID>> \/ \E kind \in Between :
                                              kind # "llm_request" /\ Wrote(kind)
  <2>1. CASE GetOrCreateFileSession(g) \/ CountFailure(g)
    BY <2>1 DEF GetOrCreateFileSession, CountFailure
  <2>2. CASE SetResponse(g)
    BY <2>2, ResponseWritten DEF WroteFor, Between
  <2>3. CASE SetError(g)
    BY <2>3, ErrorWritten DEF WroteFor, Between
  <2>4. CASE ExecuteToolCall(g)
    BY <2>4, ToolCallWritten DEF WroteFor, Between
  <2> QED
    BY <1>1, <2>1, <2>2, <2>3, <2>4 DEF OneStep
<1>2. CASE WriteSessionEnd
  BY <1>2, EndWritten
<1> QED
  BY <1>1, <1>2 DEF Next, OneStep, Finalize, vars

(* With the requests, the numbers in the log and in memory stay. *)
LEMMA NumbersStay ==
  ASSUME Numbered, persist' = persist, Requests' = Requests,
         \A k \in Requests : log'[k] = log[k],
         \A f, t : RequestsOf(f, t)' = RequestsOf(f, t),
         persist => \A f \in DOMAIN sessions', t \in Types :
                      sessions'[f][t] = Cardinality(RequestsOf(f, t))
  PROVE  Numbered'
<1>1. ASSUME NEW k \in Requests
      PROVE  log'[k].no = Cardinality({l \in {m \in Requests' : log'[m].file = log'[k].file
                                                  /\ log'[m].type = log'[k].type} : l <= k})
  <2>1. log[k].no = Cardinality({l \in {m \in Requests : log[m].file = log[k].file
                                                  /\ log[m].type = log[k].type} : l <= k})
    BY DEF Numbered, RequestsOf
  <2>2. {m \in Requests' : log'[m].file = log'[k].file /\ log'[m].type = log'[k].type}
          = {m \in Requests : log[m].file = log[k].file /\ log[m].type = log[k].type}
    OBVIOUS
  <2> QED
    BY <2>1, <2>2
<1> QED
  BY <1>1 DEF Numbered, RequestsOf

LEMMA RequestNumbered ==
  ASSUME Domains, Chain, Working, Numbered, NEW g \in Goroutines, AppendTaskRecord(g)
  PROVE  Numbered'
<1> DEFINE file == rec[g].file
           type == rec[g].type
           n    == Len(log) + 1
           in(f, t) == {m \in Requests : log[m].file = f /\ log[m].type = t}
           out(f, t) == {m \in Requests' : log'[m].file = f /\ log'[m].type = t}
<1>1. /\ file \in DOMAIN sessions /\ type \in Types /\ sessions[file][type] \in Nat
      /\ sessions' = [sessions EXCEPT ![file][type] = sessions[file][type] + 1]
      /\ persist' = persist
  <2>1. at[g] # "idle"
    BY DEF AppendTaskRecord
  <2> QED
    BY <2>1, AtWork DEF AppendTaskRecord
<1>2. CASE ~persist
  <2>1. log' = <<>>
    BY <1>2, RequestWritten DEF WroteFor, Domains
  <2> QED
    BY <1>1, <1>2, <2>1 DEF Numbered, Requests
<1>3. CASE persist
  <2>1. /\ Wrote("llm_request") /\ log'[n].file = file /\ log'[n].type = type
        /\ log'[n].no = sessions[file][type] + 1
    BY <1>3, RequestWritten DEF WroteFor
  <2>2. /\ Requests' = Requests \cup {n} /\ n \notin Requests
        /\ \A m \in Requests : log'[m] = log[m] /\ m \in 1..(n - 1)
        /\ n \in Nat
    BY <2>1, LogIndices DEF Wrote, Logged, Requests
  <2> HIDE DEF n, file, type
  <2>3. ASSUME NEW f, NEW t
        PROVE  out(f, t) = IF f = file /\ t = type THEN in(f, t) \cup {n} ELSE in(f, t)
    BY <2>1, <2>2
  <2>4. \A f, t : RequestsOf(f, t) = in(f, t)
    BY DEF RequestsOf
  <2>5. IsFiniteSet(in(file, type)) /\ n \notin in(file, type)
    <3>1. IsFiniteSet(RequestsOf(file, type))
      BY RequestsFinite
    <3>2. n \notin in(file, type)
      BY <2>2
    <3> QED
      BY <2>4, <3>1, <3>2
  <2>6. Cardinality(in(file, type) \cup {n}) = Cardinality(in(file, type)) + 1
    BY <2>5, FS_AddElement
  <2>7. \A f \in DOMAIN sessions, t \in Types : sessions[f][t] = Cardinality(in(f, t))
    BY <1>3, <2>4 DEF Numbered
  <2>8. ASSUME NEW f \in DOMAIN sessions', NEW t \in Types
        PROVE  sessions'[f][t] = Cardinality(out(f, t))
    <3> HIDE DEF in, out
    <3>1. f \in DOMAIN sessions
      BY <1>1
    <3>2. CASE f = file /\ t = type
      <4>1. sessions'[f][t] = sessions[f][t] + 1
        BY <1>1, <3>2 DEF Domains
      <4> QED
        BY <2>3, <2>6, <2>7, <3>1, <3>2, <4>1
    <3>3. CASE ~(f = file /\ t = type)
      <4>1. sessions'[f][t] = sessions[f][t]
        BY <1>1, <3>1, <3>3 DEF Domains
      <4> QED
        BY <2>3, <2>7, <3>1, <3>3, <4>1
    <3> QED
      BY <3>2, <3>3
  <2>9. ASSUME NEW k \in Requests'
        PROVE  log'[k].no = Cardinality({l \in out(log'[k].file, log'[k].type) : l <= k})
    <3>1. CASE k = n
      <4>1. {l \in out(file, type) : l <= n} = in(file, type) \cup {n}
        BY <2>2, <2>3
      <4>2. log'[k].no = Cardinality(in(file, type)) + 1
        <5> HIDE DEF in
        <5> QED
          BY <1>1, <2>1, <2>7, <3>1
      <4> QED
        BY <2>1, <2>6, <3>1, <4>1, <4>2
    <3>2. CASE k # n
      <4>1. k \in Requests /\ log'[k] = log[k] /\ ~(n <= k)
        BY <2>2, <3>2
      <4>2. {l \in out(log[k].file, log[k].type) : l <= k}
              = {l \in in(log[k].file, log[k].type) : l <= k}
        BY <2>2, <2>3, <4>1
      <4>3. log[k].no = Cardinality({l \in in(log[k].file, log[k].type) : l <= k})
        BY <4>1 DEF Numbered, RequestsOf
      <4> QED
        BY <4>1, <4>2, <4>3
    <3> QED
      BY <3>1, <3>2
  <2> QED
    BY <2>8, <2>9 DEF Numbered, RequestsOf
<1> QED
  BY <1>2, <1>3

LEMMA NumberedStep ==
  ASSUME Domains, Chain, Working, Mentioned, Numbered, [Next]_vars
  PROVE  Numbered'
<1>1. CASE \E g \in Goroutines : AppendTaskRecord(g)
  BY <1>1, RequestNumbered
<1>2. CASE ~\E g \in Goroutines : AppendTaskRecord(g)
  <2>2. /\ persist' = persist /\ Requests' = Requests
        /\ \A k \in Requests : log'[k] = log[k]
        /\ \A f, t : RequestsOf(f, t)' = RequestsOf(f, t)
    <3>1. persist' = persist
      BY DEF Next, vars, GetOrCreateFileSession, AppendTaskRecord, SetResponse, SetError,
             CountFailure, ExecuteToolCall, Finalize, WriteSessionEnd
    <3> QED
      BY <1>2, <3>1, OtherSteps, OtherKinds
  <2>3. ASSUME persist, NEW f \in DOMAIN sessions', NEW t \in Types
        PROVE  sessions'[f][t] = Cardinality(RequestsOf(f, t))
    <3>1. CASE \E g \in Goroutines : GetOrCreateFileSession(g)
      <4>1. PICK file \in Files :
              sessions' = [h \in DOMAIN sessions \cup {file} |->
                             IF h \in DOMAIN sessions THEN sessions[h] ELSE [u \in Types |-> 0]]
        BY <3>1, Asking
      <4>2. CASE f \in DOMAIN sessions
        BY <2>3, <4>1, <4>2 DEF Numbered
      <4>3. CASE f \notin DOMAIN sessions
        <5>1. sessions'[f][t] = 0
          BY <4>1, <4>3
        <5>2. RequestsOf(f, t) = {}
          BY <4>3 DEF RequestsOf, Requests, Mentioned, Between
        <5> QED
          BY <5>1, <5>2, FS_EmptySet
      <4> QED
        BY <4>2, <4>3
    <3>2. CASE ~\E g \in Goroutines : GetOrCreateFileSession(g)
      <4>1. sessions' = sessions
        BY <1>2, <3>2 DEF Next, vars, SetResponse, SetError, CountFailure, ExecuteToolCall,
                          Finalize, WriteSessionEnd
      <4> QED
        BY <2>3, <4>1 DEF Numbered
    <3> QED
      BY <3>1, <3>2
  <2> QED
    BY <2>2, <2>3, NumbersStay
<1> QED
  BY <1>1, <1>2
------------------------------------------------------------------------------
(* Requests and their answers. *)

LEMMA AnswersStep ==
  ASSUME Domains, Chain, Working, Answers, [Next]_vars
  PROVE  Answers'
<1>1. ASSUME NEW k, Answered(k) PROVE Answered(k)'
  BY <1>1, LogSteps DEF Answered, Wrote, Logged
<1>2. ASSUME NEW k \in Requests, NEW g \in Goroutines, AskedBy(g, k), persist
      PROVE  Answered(k)' \/ AskedBy(g, k)'
  <2>1. ASSUME NEW kind \in Answer, Wrote(kind), log'[Len(log) + 1].of = k
        PROVE  Answered(k)'
    BY <2>1 DEF Answered, Wrote, Logged
  <2>2. CASE SetResponse(g)
    <3>1. Wrote("llm_response") /\ log'[Len(log) + 1].of = k
      BY <1>2, <2>2, ResponseWritten DEF WroteFor, AskedBy
    <3> QED
      BY <2>1, <3>1 DEF Answer
  <2>3. CASE SetError(g)
    <3>1. Wrote("llm_error") /\ log'[Len(log) + 1].of = k
      BY <1>2, <2>3, ErrorWritten DEF WroteFor, AskedBy
    <3> QED
      BY <2>1, <3>1 DEF Answer
  <2>4. CASE ~SetResponse(g) /\ ~SetError(g)
    <3>1. at[g] = "asked"
      BY <1>2 DEF AskedBy
    <3>2. at'[g] = at[g] /\ rec'[g] = rec[g]
      <4>1. ~OneStep(g)
        BY <2>4, <3>1 DEF OneStep, GetOrCreateFileSession, AppendTaskRecord, CountFailure,
                          ExecuteToolCall
      <4>2. CASE \E h \in Goroutines : OneStep(h)
        BY <4>1, <4>2, OthersStay
      <4>3. CASE ~\E h \in Goroutines : OneStep(h)
        BY <4>3 DEF Next, OneStep, Finalize, WriteSessionEnd, vars
      <4> QED
        BY <4>2, <4>3
    <3>3. log'[k] = log[k]
      BY LogSteps DEF Wrote, Logged, Requests
    <3> QED
      BY <1>2, <3>2, <3>3 DEF AskedBy
  <2> QED
    BY <2>2, <2>3, <2>4
<1>3. ASSUME NEW k \in Requests', k \in Requests, log'[k] = log[k]
      PROVE  log'[k].of = k /\ (Answered(k)' \/ \E g \in Goroutines : AskedBy(g, k)')
  <2>1. log[k].of = k /\ (Answered(k) \/ \E g \in Goroutines : AskedBy(g, k))
    BY <1>3 DEF Answers
  <2>2. persist
    BY <1>3 DEF Domains, Requests
  <2> QED
    BY <1>1, <1>2, <1>3, <2>1, <2>2
<1>4. CASE \E g \in Goroutines : AppendTaskRecord(g)
  <2>1. PICK g \in Goroutines : AppendTaskRecord(g)
    BY <1>4
  <2>2. CASE ~persist
    <3>1. log' = <<>>
      BY <2>1, <2>2, RequestWritten DEF WroteFor, Domains
    <3> QED
      BY <3>1 DEF Answers, Requests
  <2>3. CASE persist
    <3> DEFINE n == Len(log) + 1
    <3>1. Wrote("llm_request") /\ log'[n].of = n /\ log'[n].type = rec[g].type
      BY <2>1, <2>3, RequestWritten DEF WroteFor
    <3>2. \A k \in Requests' : k = n \/ (k \in Requests /\ log'[k] = log[k])
      BY <3>1 DEF Wrote, Logged, Requests
    <3>3. ASSUME NEW k, k = n
          PROVE  AskedBy(g, k)'
      <4>1. rec' = [rec EXCEPT ![g].no = NextNumber(rec[g].file, rec[g].type), ![g].of = k]
        BY <2>1, <3>3 DEF AppendTaskRecord, NextUUID
      <4>2. at'[g] = "asked"
        BY <2>1 DEF AppendTaskRecord, Domains
      <4>3. rec'[g].of = k /\ rec'[g].type = rec[g].type
        BY <4>1 DEF Domains, TaskRecord
      <4> QED
        BY <3>1, <3>3, <4>2, <4>3 DEF AskedBy
    <3> QED
      BY <1>3, <3>1, <3>2, <3>3 DEF Answers
  <2> QED
    BY <2>2, <2>3
<1>5. CASE ~\E g \in Goroutines : AppendTaskRecord(g)
  <2>1. Requests' = Requests /\ \A k \in Requests : log'[k] = log[k]
    BY <1>5, OtherSteps, OtherKinds
  <2> QED
    BY <1>3, <2>1 DEF Answers
<1> QED
  BY <1>4, <1>5
------------------------------------------------------------------------------
(* Errors, and the failures counted. *)

LEMMA ErrorsFinite ==
  ASSUME Domains
  PROVE  /\ IsFiniteSet(Errors) /\ Cardinality(Errors) \in Nat
         /\ IsFiniteSet(PlainErrors) /\ Cardinality(PlainErrors) \in Nat
         /\ IsFiniteSet(Failed) /\ Cardinality(Failed) \in Nat
         /\ IsFiniteSet(PlainFailed) /\ Cardinality(PlainFailed) \in Nat
<1>1. IsFiniteSet(Errors)
  <2>1. Errors \in SUBSET (1..Len(log)) /\ Len(log) \in Nat
    BY LogIndices DEF Errors
  <2>2. IsFiniteSet(1..Len(log))
    BY <2>1, FS_Interval
  <2> QED
    BY <2>1, <2>2, FS_Subset
<1>2. PlainErrors \in SUBSET Errors
  BY DEF PlainErrors
<1>3. IsFiniteSet(PlainErrors)
  BY <1>1, <1>2, FS_Subset
<1>4. IsFiniteSet(Goroutines) /\ Failed \in SUBSET Goroutines
  BY SessionAssumption DEF Goroutines, Failed
<1>5. IsFiniteSet(Failed)
  BY <1>4, FS_Subset
<1>6. PlainFailed \in SUBSET Failed
  BY DEF PlainFailed
<1>7. IsFiniteSet(PlainFailed)
  BY <1>5, <1>6, FS_Subset
<1> QED
  BY <1>1, <1>3, <1>5, <1>7, FS_CardinalityType

(* Any step but a SetError leaves the errors alone. *)
LEMMA ErrorsStay ==
  ASSUME Domains, Chain, Working, [Next]_vars, ~\E g \in Goroutines : SetError(g)
  PROVE  Errors' = Errors /\ PlainErrors' = PlainErrors
<1>1. UNCHANGED <<log, lastUUID>> \/ \E kind \in Between \cup {"session_end"} :
                                       kind # "llm_error" /\ Wrote(kind)
  <2>1. ASSUME NEW g \in Goroutines, OneStep(g)
        PROVE  UNCHANGED <<log, lastUUID>> \/ \E kind \in Between :
                                                kind # "llm_error" /\ Wrote(kind)
    <3>1. CASE GetOrCreateFileSession(g) \/ CountFailure(g)
      BY <3>1 DEF GetOrCreateFileSession, CountFailure
    <3>2. CASE SetResponse(g)
      BY <3>2, ResponseWritten DEF WroteFor, Between
    <3>3. CASE AppendTaskRecord(g)
      BY <3>3, RequestWritten DEF WroteFor, Between
    <3>4. CASE ExecuteToolCall(g)
      BY <3>4, ToolCallWritten DEF WroteFor, Between
    <3> QED
      BY <2>1, <3>1, <3>2, <3>3, <3>4 DEF OneStep
  <2>2. CASE WriteSessionEnd
    BY <2>2, EndWritten
  <2> QED
    BY <2>1, <2>2 DEF Next, OneStep, Finalize, vars
<1>2. Errors' = Errors /\ \A k \in Errors : log'[k] = log[k]
  BY <1>1 DEF Errors, Wrote, Logged
<1> QED
  BY <1>2 DEF PlainErrors

LEMMA ErrorAdded ==
  ASSUME Domains, Chain, Working, NEW g \in Goroutines, SetError(g), persist
  PROVE  /\ Len(log) + 1 \notin Errors
         /\ Errors' = Errors \cup {Len(log) + 1}
         /\ PlainErrors' = IF rec[g].type = Compression THEN PlainErrors
                           ELSE PlainErrors \cup {Len(log) + 1}
<1> DEFINE n == Len(log) + 1
<1>1. Wrote("llm_error") /\ log'[n].type = rec[g].type
  BY ErrorWritten DEF WroteFor
<1>2. n \notin Errors /\ Errors' = Errors \cup {n} /\ \A k \in Errors : log'[k] = log[k]
  BY <1>1 DEF Errors, Wrote, Logged
<1> HIDE DEF n
<1>3. PlainErrors' = IF rec[g].type = Compression THEN PlainErrors ELSE PlainErrors \cup {n}
  BY <1>1, <1>2 DEF PlainErrors
<1> QED
  BY <1>2, <1>3 DEF n

LEMMA CountedStep ==
  ASSUME Domains, Chain, Working, Counted, [Next]_vars
  PROVE  Counted'
<1>0. persist' = persist
  BY DEF Next, vars, GetOrCreateFileSession, AppendTaskRecord, SetResponse, SetError,
         CountFailure, ExecuteToolCall, Finalize, WriteSessionEnd
<1> SUFFICES ASSUME persist PROVE Counted'
  BY <1>0 DEF Counted
<1>1. /\ failures \in Nat
      /\ failures + Cardinality(Failed) <= Cardinality(Errors)
      /\ Cardinality(PlainErrors) <= failures + Cardinality(PlainFailed)
  BY DEF Counted, Domains
<1>2. CASE \E g \in Goroutines : SetError(g)
  <2>1. PICK g \in Goroutines : SetError(g)
    BY <1>2
  <2>2. g \notin Failed /\ failures' = failures /\ Failed' = Failed \cup {g}
    BY <2>1 DEF SetError, Failed, Domains
  <2>3. PlainFailed' = IF rec[g].type = Compression THEN PlainFailed ELSE PlainFailed \cup {g}
    BY <2>1, <2>2 DEF PlainFailed, SetError
  <2>4. g \notin PlainFailed
    BY <2>2 DEF PlainFailed
  <2> DEFINE n == Len(log) + 1
  <2>5. /\ n \notin Errors /\ Errors' = Errors \cup {n}
        /\ PlainErrors' = IF rec[g].type = Compression THEN PlainErrors ELSE PlainErrors \cup {n}
    BY <2>1, ErrorAdded
  <2> HIDE DEF n
  <2>6. n \notin PlainErrors
    BY <2>5 DEF PlainErrors
  <2>7. /\ Cardinality(Failed \cup {g}) = Cardinality(Failed) + 1
        /\ Cardinality(PlainFailed \cup {g}) = Cardinality(PlainFailed) + 1
        /\ Cardinality(Errors \cup {n}) = Cardinality(Errors) + 1
        /\ Cardinality(PlainErrors \cup {n}) = Cardinality(PlainErrors) + 1
    <3>1. Cardinality(Failed \cup {g}) = Cardinality(Failed) + 1
      BY <2>2, ErrorsFinite, FS_AddElement
    <3>2. Cardinality(PlainFailed \cup {g}) = Cardinality(PlainFailed) + 1
      BY <2>4, ErrorsFinite, FS_AddElement
    <3>3. Cardinality(Errors \cup {n}) = Cardinality(Errors) + 1
      BY <2>5, ErrorsFinite, FS_AddElement
    <3>4. Cardinality(PlainErrors \cup {n}) = Cardinality(PlainErrors) + 1
      BY <2>6, ErrorsFinite, FS_AddElement
    <3> QED
      BY <3>1, <3>2, <3>3, <3>4
  <2> QED
    BY <1>1, <2>2, <2>3, <2>5, <2>7, ErrorsFinite DEF Counted
<1>3. CASE \E g \in Goroutines : CountFailure(g)
  <2>1. PICK g \in Goroutines : CountFailure(g)
    BY <1>3
  <2>2. Errors' = Errors /\ PlainErrors' = PlainErrors
    BY <2>1 DEF CountFailure, Errors, PlainErrors
  <2>3. failures' = failures + 1 /\ g \in Failed /\ Failed' = Failed \ {g} /\ rec' = rec
    BY <2>1 DEF CountFailure, Failed, Domains
  <2>4. PlainFailed' = PlainFailed \ {g}
    BY <2>3 DEF PlainFailed
  <2>5. Cardinality(Failed \ {g}) = Cardinality(Failed) - 1
    BY <2>3, ErrorsFinite, FS_RemoveElement
  <2>6. Cardinality(PlainFailed \ {g}) \in {Cardinality(PlainFailed), Cardinality(PlainFailed) - 1}
    BY ErrorsFinite, FS_RemoveElement
  <2> QED
    BY <1>1, <2>2, <2>3, <2>4, <2>5, <2>6, ErrorsFinite DEF Counted
<1>4. CASE ~\E g \in Goroutines : SetError(g) \/ CountFailure(g)
  <2>1. Errors' = Errors /\ PlainErrors' = PlainErrors
    BY <1>4, ErrorsStay
  <2>2. failures' = failures
    BY <1>4 DEF Next, vars, GetOrCreateFileSession, AppendTaskRecord, SetResponse,
                ExecuteToolCall, Finalize, WriteSessionEnd
  <2>3. ASSUME NEW g \in Goroutines, OneStep(g) PROVE at[g] # "failed" /\ at'[g] # "failed"
    BY <1>4, <2>3 DEF OneStep, GetOrCreateFileSession, AppendTaskRecord, SetResponse,
                      ExecuteToolCall, Domains
  <2>4. Failed' = Failed /\ \A h \in Failed : rec'[h] = rec[h]
    <3>1. CASE \E g \in Goroutines : OneStep(g)
      <4>1. PICK g \in Goroutines : OneStep(g)
        BY <3>1
      <4> QED
        BY <2>3, <4>1, OthersStay DEF Failed
    <3>2. CASE ~\E g \in Goroutines : OneStep(g)
      <4>1. at' = at /\ rec' = rec
        BY <3>2 DEF Next, OneStep, Finalize, WriteSessionEnd, vars
      <4> QED
        BY <4>1 DEF Failed
    <3> QED
      BY <3>1, <3>2
  <2>5. PlainFailed' = PlainFailed
    BY <2>4 DEF PlainFailed
  <2> QED
    BY <1>1, <2>1, <2>2, <2>4, <2>5 DEF Counted
<1> QED
  BY <1>2, <1>3, <1>4

LEMMA SummedStep ==
  ASSUME Domains, Chain, Working, Counted, Quiet, Summed, [Next]_vars
  PROVE  Summed'
<1> SUFFICES ASSUME persist', run' = "ending" PROVE Summed'
  BY DEF Summed
<1>1. CASE Finalize
  <2>1. /\ persist /\ summary'.failures = failures
        /\ Errors' = Errors /\ PlainErrors' = PlainErrors
    BY <1>1 DEF Finalize, Errors, PlainErrors
  <2>2. PlainFailed = {}
    <3>1. \A g \in Failed : g \in Jobs /\ rec[g].type = Compression
      BY <1>1 DEF Finalize, Failed, Goroutines, Working
    <3> QED
      BY <3>1 DEF PlainFailed
  <2>3. Cardinality(PlainFailed) = 0
    BY <2>2, FS_EmptySet
  <2> QED
    BY <2>1, <2>3, ErrorsFinite DEF Summed, Counted, Domains
<1>2. CASE ~Finalize
  <2>1. run = "ending" /\ summary' = summary /\ persist
    BY <1>2 DEF Next, vars, GetOrCreateFileSession, AppendTaskRecord, SetResponse, SetError,
                CountFailure, ExecuteToolCall, WriteSessionEnd
  <2>2. CASE \E g \in Goroutines : SetError(g)
    <3>1. PICK g \in Goroutines : SetError(g)
      BY <2>2
    <3>2. g \in Jobs
      BY <2>1, <3>1, OnlyJobs DEF OneStep
    <3>3. rec[g].type = Compression
      BY <3>1, <3>2 DEF Working, SetError
    <3> DEFINE n == Len(log) + 1
    <3>4. PlainErrors' = PlainErrors /\ Errors' = Errors \cup {n} /\ n \notin Errors
      BY <2>1, <3>1, <3>3, ErrorAdded
    <3> HIDE DEF n
    <3>5. Cardinality(Errors \cup {n}) = Cardinality(Errors) + 1
      BY <3>4, ErrorsFinite, FS_AddElement
    <3>6. summary.failures \in Nat
      BY DEF Domains, Summaries
    <3> QED
      BY <2>1, <3>4, <3>5, <3>6, ErrorsFinite DEF Summed
  <2>3. CASE ~\E g \in Goroutines : SetError(g)
    BY <2>1, <2>3, ErrorsStay DEF Summed
  <2> QED
    BY <2>2, <2>3
<1> QED
  BY <1>1, <1>2
------------------------------------------------------------------------------
(* The end of the session. *)

(* A record after the end changes nothing of what the end says. *)
LEMMA WholeStays ==
  ASSUME Domains, NEW e \in DOMAIN log, Whole(e),
         UNCHANGED <<log, lastUUID>> \/ \E kind \in Between : Wrote(kind)
  PROVE  e \in DOMAIN log' /\ Whole(e)'
<1>1. CASE UNCHANGED <<log, lastUUID>>
  BY <1>1 DEF Whole
<1>2. ASSUME NEW kind \in Between, Wrote(kind)
      PROVE  e \in DOMAIN log' /\ Whole(e)'
  <2>1. /\ e \in DOMAIN log' /\ log'[e] = log[e]
        /\ \A k \in 1..(e - 1) : k \in DOMAIN log /\ log'[k] = log[k]
    BY <1>2, LogIndices DEF Wrote, Logged
  <2>2. \A k \in DOMAIN log' : log'[k].kind = "session_end" => k = e
    BY <1>2 DEF Wrote, Logged, Between, Whole
  <2>3. {k \in 1..(e - 1) : log'[k].kind = "llm_error" /\ log'[k].type # Compression}
          = {k \in 1..(e - 1) : log[k].kind = "llm_error" /\ log[k].type # Compression}
    BY <2>1
  <2>4. {k \in 1..(e - 1) : log'[k].kind = "llm_error"}
          = {k \in 1..(e - 1) : log[k].kind = "llm_error"}
    BY <2>1
  <2>5. \A k \in 1..(e - 1) :
          /\ log'[k].kind \in Between => log'[k].file \in log'[e].summary.files
          /\ log'[k].kind = "llm_request" /\ log'[k].type # Compression =>
               \E l \in 1..(e - 1) : log'[l].kind \in Answer /\ log'[l].of = log'[k].of
    <3>1. \A k \in 1..(e - 1) :
            /\ log[k].kind \in Between => log[k].file \in log[e].summary.files
            /\ log[k].kind = "llm_request" /\ log[k].type # Compression =>
                 \E l \in 1..(e - 1) : log[l].kind \in Answer /\ log[l].of = log[k].of
      BY DEF Whole
    <3> QED
      BY <2>1, <3>1
  <2> QED
    BY <2>1, <2>2, <2>3, <2>4, <2>5 DEF Whole
<1> QED
  BY <1>1, <1>2

LEMMA EndIsWhole ==
  ASSUME Domains, Chain, Working, Mentioned, Answers, Quiet, Summed, Closed,
         WriteSessionEnd, persist, NEW e, e = Len(log) + 1
  PROVE  e \in DOMAIN log' /\ Whole(e)'
<1>1. /\ Wrote("session_end") /\ log'[e].summary = summary /\ run = "ending"
      /\ log'[e].kind = "session_end"
  BY EndWritten DEF WriteSessionEnd, Wrote
<1>2. /\ e \in DOMAIN log' /\ 1..(e - 1) = DOMAIN log
      /\ DOMAIN log' = DOMAIN log \cup {e} /\ e \notin DOMAIN log
      /\ \A k \in DOMAIN log : log'[k] = log[k]
  <2>1. Len(log) \in Nat /\ DOMAIN log = 1..Len(log)
    BY LogIndices
  <2>2. e - 1 = Len(log)
    BY <2>1
  <2> QED
    BY <1>1, <2>1, <2>2 DEF Wrote, Logged
<1>3. \A k \in DOMAIN log' : log'[k].kind = "session_end" => k = e
  BY <1>1, <1>2 DEF Closed
<1>4. ASSUME NEW k \in DOMAIN log, log[k].kind \in Between
      PROVE  log[k].file \in summary.files
  BY <1>1, <1>4 DEF Mentioned, Quiet
<1>5. ASSUME NEW k \in DOMAIN log, log[k].kind = "llm_request", log[k].type # Compression
      PROVE  \E l \in DOMAIN log : log[l].kind \in Answer /\ log[l].of = log[k].of
  <2>1. log[k].of = k /\ (Answered(k) \/ \E g \in Goroutines : AskedBy(g, k))
    BY <1>5 DEF Answers, Requests
  <2>2. ~\E g \in Goroutines : AskedBy(g, k)
    <3> SUFFICES ASSUME NEW g \in Goroutines, AskedBy(g, k) PROVE FALSE
      OBVIOUS
    <3>1. at[g] = "asked" /\ rec[g].type # Compression
      BY <1>5 DEF AskedBy
    <3>2. g \in Jobs
      BY <1>1, <3>1 DEF Quiet, Goroutines
    <3> QED
      BY <3>1, <3>2 DEF Working
  <2> QED
    BY <2>1, <2>2 DEF Answered
<1>6. {k \in 1..(e - 1) : log'[k].kind = "llm_error" /\ log'[k].type # Compression}
        = PlainErrors
  BY <1>2 DEF PlainErrors, Errors
<1>7. {k \in 1..(e - 1) : log'[k].kind = "llm_error"} = Errors
  BY <1>2 DEF Errors
<1>8. /\ Cardinality(PlainErrors) <= log'[e].summary.failures
      /\ log'[e].summary.failures <= Cardinality(Errors)
  BY <1>1 DEF Summed
<1>9. \A k \in 1..(e - 1) :
        /\ log'[k].kind \in Between => log'[k].file \in log'[e].summary.files
        /\ log'[k].kind = "llm_request" /\ log'[k].type # Compression =>
             \E l \in 1..(e - 1) : log'[l].kind \in Answer /\ log'[l].of = log'[k].of
  <2> SUFFICES ASSUME NEW k \in 1..(e - 1)
               PROVE  /\ log'[k].kind \in Between => log'[k].file \in log'[e].summary.files
                      /\ log'[k].kind = "llm_request" /\ log'[k].type # Compression =>
                           \E l \in 1..(e - 1) : log'[l].kind \in Answer
                                                 /\ log'[l].of = log'[k].of
    OBVIOUS
  <2>1. k \in DOMAIN log /\ log'[k] = log[k]
    BY <1>2
  <2>2. \A l \in DOMAIN log : l \in 1..(e - 1) /\ log'[l] = log[l]
    BY <1>2
  <2> QED
    BY <1>1, <1>4, <1>5, <2>1, <2>2
<1> QED
  BY <1>1, <1>2, <1>3, <1>6, <1>7, <1>8, <1>9 DEF Whole

LEMMA ClosedStep ==
  ASSUME Domains, Chain, Working, Mentioned, Answers, Quiet, Summed, Closed, [Next]_vars
  PROVE  Closed'
<1>1. CASE WriteSessionEnd
  <2>1. run' = "ended" /\ persist' = persist
    BY <1>1 DEF WriteSessionEnd
  <2>2. CASE persist
    <3>1. PICK e : e = Len(log) + 1
      OBVIOUS
    <3>2. e \in DOMAIN log' /\ Whole(e)'
      BY <1>1, <2>2, <3>1, EndIsWhole
    <3> QED
      BY <2>1, <3>2 DEF Closed
  <2> QED
    BY <2>1, <2>2 DEF Closed
<1>2. CASE ~WriteSessionEnd
  <2>1. run' = "ended" <=> run = "ended"
    BY <1>2 DEF Next, vars, GetOrCreateFileSession, AppendTaskRecord, SetResponse, SetError,
                CountFailure, ExecuteToolCall, Finalize
  <2>2. persist' = persist
    BY <1>2 DEF Next, vars, GetOrCreateFileSession, AppendTaskRecord, SetResponse, SetError,
                CountFailure, ExecuteToolCall, Finalize
  <2>3. UNCHANGED <<log, lastUUID>> \/ \E kind \in Between : Wrote(kind)
    BY <2>1, LogSteps
  <2>4. CASE run # "ended"
    <3>1. \A k \in DOMAIN log' : log'[k].kind # "session_end"
      BY <2>3, <2>4 DEF Closed, Wrote, Logged, Between
    <3> QED
      BY <2>1, <2>4, <3>1 DEF Closed
  <2>5. CASE run = "ended"
    <3>1. ASSUME persist PROVE \E e \in DOMAIN log' : Whole(e)'
      <4>1. PICK e \in DOMAIN log : Whole(e)
        BY <2>5, <3>1 DEF Closed
      <4> QED
        BY <2>3, <4>1, WholeStays
    <3> QED
      BY <2>1, <2>2, <2>5, <3>1 DEF Closed
  <2> QED
    BY <2>4, <2>5
<1> QED
  BY <1>1, <1>2
------------------------------------------------------------------------------
(* The invariant, and what it says to a reader of the session file. *)

LEMMA InvariantInit == Init => IInv
<1> SUFFICES ASSUME Init PROVE IInv
  OBVIOUS
<1>1. Domains /\ Chain
  BY DomainsInit
<1>2. \A g \in Goroutines : at[g] = "idle"
  BY DEF Init
<1>3. run = "running" /\ failures = 0 /\ DOMAIN sessions = {}
  BY DEF Init, New
<1>4. \A k \in DOMAIN log : log[k].kind = "session_start"
  <2>1. ASSUME persist PROVE \A k \in DOMAIN log : log[k].kind = "session_start"
    <3> DEFINE r == [kind |-> "session_start", uuid |-> 1, parent |-> 0]
    <3>1. log = <<r>>
      BY <2>1 DEF Init, New
    <3>2. r.kind = "session_start"
      OBVIOUS
    <3> HIDE DEF r
    <3>3. DOMAIN log = {1} /\ log[1] = r
      BY <3>1
    <3> QED
      BY <3>2, <3>3
  <2>2. ASSUME ~persist PROVE DOMAIN log = {}
    BY <2>2 DEF Init, New
  <2> QED
    BY <2>1, <2>2
<1>5. Requests = {} /\ Errors = {} /\ PlainErrors = {} /\ Failed = {} /\ PlainFailed = {}
  BY <1>2, <1>4 DEF Requests, Errors, PlainErrors, Failed, PlainFailed
<1>6. Working /\ Quiet /\ Summed /\ Closed
  BY <1>2, <1>3, <1>4 DEF Working, Quiet, Summed, Closed
<1>7. Mentioned /\ Numbered /\ Answers
  BY <1>3, <1>4, <1>5 DEF Mentioned, Numbered, Answers, Between
<1>8. Counted
  BY <1>3, <1>5, FS_EmptySet DEF Counted
<1> QED
  BY <1>1, <1>6, <1>7, <1>8 DEF IInv

LEMMA InvariantStep == IInv /\ [Next]_vars => IInv'
<1> SUFFICES ASSUME IInv, [Next]_vars PROVE IInv'
  OBVIOUS
<1>1. /\ Domains /\ Chain /\ Working
      /\ Mentioned /\ Numbered /\ Answers
      /\ Counted /\ Quiet /\ Summed /\ Closed
  BY DEF IInv
<1>2. Domains' /\ Chain' /\ Working'
  BY <1>1, DomainsStep, WorkingStep
<1>3. Mentioned' /\ Numbered' /\ Answers'
  BY <1>1, MentionedStep, NumberedStep, AnswersStep
<1>4. Counted' /\ Quiet' /\ Summed' /\ Closed'
  BY <1>1, CountedStep, QuietStep, SummedStep, ClosedStep
<1> QED
  BY <1>2, <1>3, <1>4 DEF IInv

(* The inductive invariant holds in every reachable state, whatever the files, the
   goroutines and the calls (internal/session/history.go, persist.go). *)
THEOREM Invariant == Spec => []IInv
  BY InvariantInit, InvariantStep, PTL DEF Spec

(* The state keeps its types, and the writer's parent is always the last record it
   was handed. *)
THEOREM Typing == Spec => []TypeOK
<1>1. IInv => TypeOK
  BY DEF IInv, Domains, Chain, TypeOK
<1> QED
  BY <1>1, Invariant, PTL

(* One chain, and request numbers without gaps in the order of the file: in memory
   and in the log a file and task have the same number of requests whenever a number
   is given. *)
THEOREM InOrder == Spec => []RecordsInOrder
<1>1. IInv => RecordsInOrder
  <2> SUFFICES ASSUME IInv, NEW k \in DOMAIN log
               PROVE  /\ log[k].parent = k - 1 /\ log[k].uuid = k
                      /\ k \in Requests =>
                           log[k].no = Cardinality({l \in Requests :
                              l <= k /\ log[l].file = log[k].file /\ log[l].type = log[k].type})
    BY DEF RecordsInOrder
  <2>1. log[k].parent = k - 1 /\ log[k].uuid = k
    BY DEF IInv, Chain
  <2>2. {l \in RequestsOf(log[k].file, log[k].type) : l <= k}
          = {l \in Requests : l <= k /\ log[l].file = log[k].file /\ log[l].type = log[k].type}
    BY DEF RequestsOf
  <2> QED
    BY <2>1, <2>2 DEF IInv, Numbered
<1> QED
  BY <1>1, Invariant, PTL

(* A file that has its session_end is the whole review, background compressions
   apart: files, answers and failures agree with what Finalize summed up
   (history.go:151-166). *)
THEOREM Complete == Spec => []EndIsComplete
<1>1. IInv => EndIsComplete
  <2> SUFFICES ASSUME IInv, persist, run = "ended" PROVE EndIsComplete
    BY DEF EndIsComplete
  <2>1. PICK e \in DOMAIN log : Whole(e)
    BY DEF IInv, Closed
  <2>2. e \in 1..Len(log) /\ Len(log) \in Nat /\ log \in Seq(Record)
    BY <2>1, LogIndices DEF IInv, Domains
  <2>3. (CHOOSE k \in DOMAIN log : log[k].kind = "session_end") = e
    BY <2>1 DEF Whole
  <2> DEFINE file == SubSeq(log, 1, e)
  <2>4. OnDisk = {file}
    BY <2>3 DEF OnDisk
  <2>5. DOMAIN file = 1..e /\ (\A k \in 1..e : file[k] = log[k]) /\ Len(file) = e
    <3>1. \A k \in 1..e : log[k] \in Record
      BY <2>2, ElementOfSeq
    <3>2. 1 \in Int /\ e \in Int /\ 1 <= e /\ e - 1 + 1 = e /\ \A k \in 1..e : 1 + k - 1 = k
      BY <2>2
    <3>3. /\ file \in Seq(Record)
          /\ Len(file) = e
          /\ \A k \in 1..e : file[k] = log[k]
      BY <3>1, <3>2, SubSeqProperties
    <3> QED
      BY <3>3, LenProperties
  <2>6. Last(file) = log[e]
    BY <2>2, <2>5 DEF Last
  <2> HIDE DEF file
  <2> DEFINE end       == Last(file).summary
             errors    == {k \in DOMAIN file : file[k].kind \in {"llm_error"}}
             jobs      == {k \in errors : file[k].type = Compression}
             inBetween == {k \in DOMAIN file : file[k].kind \notin {"session_start", "session_end"}}
  <2>7. 1..e = 1..(e - 1) \cup {e}
    BY <2>2
  <2>8. \A k \in inBetween : k \in 1..(e - 1) /\ log[k].kind \in Between /\ file[k] = log[k]
    <3>1. \A k \in 1..e : log[k] \in Record
      BY <2>2, ElementOfSeq
    <3> QED
      BY <2>1, <2>5, <2>7, <3>1, RecordKinds DEF Whole
  <2>9. \A l \in 1..(e - 1) : log[l].kind \in Answer => l \in inBetween /\ file[l] = log[l]
    BY <2>5, <2>7 DEF Answer
  <2>10. errors = {k \in 1..(e - 1) : log[k].kind = "llm_error"}
    BY <2>1, <2>5, <2>7 DEF Whole
  <2>11. errors \ jobs
           = {k \in 1..(e - 1) : log[k].kind = "llm_error" /\ log[k].type # Compression}
    BY <2>5, <2>7, <2>10
  <2>12. Cardinality(errors \ jobs) <= end.failures /\ end.failures <= Cardinality(errors)
    BY <2>1, <2>6, <2>10, <2>11 DEF Whole
  <2>13. \A k \in inBetween : file[k].file \in end.files
    BY <2>1, <2>6, <2>8 DEF Whole
  <2>14. ASSUME NEW k \in inBetween, file[k].kind = "llm_request", file[k].type # Compression
         PROVE  \E l \in inBetween : file[l].kind \in Answer /\ file[l].of = file[k].of
    <3>1. PICK l \in 1..(e - 1) : log[l].kind \in Answer /\ log[l].of = log[k].of
      BY <2>1, <2>8, <2>14 DEF Whole
    <3> QED
      BY <2>8, <2>9, <3>1
  <2> QED
    BY <2>4, <2>12, <2>13, <2>14 DEF EndIsComplete, Answer
<1> QED
  BY <1>1, Invariant, PTL
------------------------------------------------------------------------------
(* Reading a file record by record. *)

(* A set of numbers that is not empty has a least one. *)
LEMMA MinimalNat ==
  ASSUME NEW T \in SUBSET Nat, T # {}
  PROVE  \E m \in T : \A k \in T : m <= k
<1>1. PICK m \in T : \A k \in T : <<k, m>> \notin OpToRel(<, Nat)
  BY NatLessThanWellFounded, WFMin
<1>2. \A k \in T : ~(k < m) /\ k \in Nat /\ m \in Nat
  BY <1>1 DEF OpToRel
<1>3. \A k \in T : m <= k
  BY <1>2
<1> QED
  BY <1>3

(* Induction up to n, on a set of numbers instead of a predicate. *)
LEMMA UpTo ==
  ASSUME NEW n \in Nat, NEW T \in SUBSET (0..n), 0 \in T,
         \A k \in T : k < n => k + 1 \in T
  PROVE  T = 0..n
<1> SUFFICES ASSUME (0..n) \ T # {} PROVE FALSE
  OBVIOUS
<1>1. (0..n) \ T \in SUBSET Nat
  OBVIOUS
<1>2. PICK m \in (0..n) \ T : \A k \in (0..n) \ T : m <= k
  BY <1>1, MinimalNat
<1>3. m \in 1..n /\ m - 1 \in 0..n
  BY <1>2
<1>4. m - 1 \in T
  BY <1>2, <1>3
<1>5. m \in T
  BY <1>3, <1>4
<1> QED
  BY <1>2, <1>5

(* The view of each prefix of the records s. *)
Reads(s, u) ==
  u = [k \in 0..Len(s) |-> IF k = 0 THEN EmptyView ELSE Show(u[k - 1], s[k])]

(* The first view is empty, and each later one shows a record more. *)
LEMMA ReadSteps ==
  ASSUME NEW S, NEW s \in Seq(S), NEW u, Reads(s, u)
  PROVE  /\ DOMAIN u = 0..Len(s)
         /\ u[0] = EmptyView
         /\ \A k \in 1..Len(s) : u[k] = Show(u[k - 1], s[k])
<1> DEFINE body(k) == IF k = 0 THEN EmptyView ELSE Show(u[k - 1], s[k])
<1>1. Len(s) \in Nat
  OBVIOUS
<1>2. u = [k \in 0..Len(s) |-> body(k)]
  BY DEF Reads
<1>3. \A k \in 1..Len(s) : k \in 0..Len(s) /\ k # 0
  BY <1>1
<1>4. \A k \in 1..Len(s) : body(k) = Show(u[k - 1], s[k])
  BY <1>3
<1>5. 0 \in 0..Len(s) /\ body(0) = EmptyView
  BY <1>1
<1> HIDE DEF body
<1>6. DOMAIN u = 0..Len(s) /\ \A k \in 0..Len(s) : u[k] = body(k)
  BY <1>2
<1> QED
  BY <1>3, <1>4, <1>5, <1>6

(* LoadSession is the last of these views. *)
LEMMA LoadReads ==
  ASSUME NEW S, NEW s \in Seq(S)
  PROVE  \E u : Reads(s, u) /\ LoadSession(s) = u[Len(s)]
<1> DEFINE n == Len(s)
           to(u, m) == u = [k \in 0..m |-> IF k = 0 THEN EmptyView
                                           ELSE Show(u[k - 1], s[k])]
           T == {m \in 0..n : \E u : to(u, m)}
<1>1. n \in Nat
  OBVIOUS
<1>2. 0 \in T
  <2> DEFINE v == [k \in 0..0 |-> EmptyView]
  <2>1. to(v, 0)
    OBVIOUS
  <2>2. \E u : to(u, 0)
    BY <2>1
  <2> QED
    BY <1>1, <2>2
<1>3. ASSUME NEW m \in T, m < n PROVE m + 1 \in T
  <2>1. PICK u : to(u, m)
    OBVIOUS
  <2> DEFINE new == Show(u[m], s[m + 1])
             v == [k \in 0..(m + 1) |-> IF k <= m THEN u[k] ELSE new]
  <2>2. m \in Nat /\ m + 1 \in 0..n
    BY <1>1, <1>3
  <2>3. /\ v[m + 1] = new /\ v[m] = u[m]
        /\ \A k \in 0..m : v[k] = u[k]
    BY <2>2
  <2>4. ASSUME NEW k \in 0..(m + 1), k # 0
        PROVE  v[k] = Show(v[k - 1], s[k])
    <3>1. CASE k = m + 1
      <4>1. k - 1 = m
        BY <2>2, <3>1
      <4> QED
        BY <2>3, <3>1, <4>1
    <3>2. CASE k # m + 1
      <4>1. k \in 0..m /\ k - 1 \in 0..m
        BY <2>2, <2>4, <3>2
      <4>2. u[k] = Show(u[k - 1], s[k])
        BY <2>1, <2>4, <4>1
      <4> QED
        BY <2>3, <4>1, <4>2
    <3> QED
      BY <3>1, <3>2
  <2>5. v[0] = EmptyView
    <3>1. u[0] = EmptyView
      BY <2>1, <2>2
    <3> QED
      BY <2>2, <2>3, <3>1
  <2>6. DOMAIN v = 0..(m + 1) /\ v = [k \in 0..(m + 1) |-> v[k]]
    OBVIOUS
  <2> HIDE DEF v
  <2>7. to(v, m + 1)
    BY <2>4, <2>5, <2>6
  <2> QED
    BY <2>2, <2>7
<1>4. T \in SUBSET (0..n)
  OBVIOUS
<1> HIDE DEF T, n
<1>5. T = 0..n
  BY <1>1, <1>2, <1>3, <1>4, UpTo
<1>6. n \in T
  BY <1>1, <1>5
<1>7. \E u : Reads(s, u)
  BY <1>6 DEF T, n, Reads
<1> DEFINE f == CHOOSE u : Reads(s, u)
<1>8. Reads(s, f)
  BY <1>7
<1>9. LoadSession(s) = f[Len(s)]
  BY DEF LoadSession, Reads
<1> HIDE DEF f
<1> QED
  BY <1>8, <1>9

(* An empty file shows nothing. *)
LEMMA NothingRead == LoadSession(<<>>) = EmptyView
<1>1. PICK u : Reads(<<>>, u) /\ LoadSession(<<>>) = u[Len(<<>>)]
  <2>1. <<>> \in Seq({})
    OBVIOUS
  <2> QED
    BY <2>1, LoadReads
<1>2. u[0] = EmptyView
  <2>1. <<>> \in Seq({})
    OBVIOUS
  <2> QED
    BY <1>1, <2>1, ReadSteps
<1> QED
  BY <1>1, <1>2

(* One more record read. *)
LEMMA ReadOn ==
  ASSUME NEW S, NEW s \in Seq(S), NEW r \in S
  PROVE  LoadSession(Append(s, r)) = Show(LoadSession(s), r)
<1> DEFINE t == Append(s, r)
<1>1. /\ t \in Seq(S) /\ Len(s) \in Nat /\ Len(t) = Len(s) + 1
      /\ \A k \in 1..Len(s) : t[k] = s[k]
      /\ t[Len(s) + 1] = r
  BY AppendProperties
<1> HIDE DEF t
<1>2. PICK u : Reads(s, u) /\ LoadSession(s) = u[Len(s)]
  BY LoadReads
<1>3. PICK v : Reads(t, v) /\ LoadSession(t) = v[Len(t)]
  BY <1>1, LoadReads
<1>4. u[0] = EmptyView /\ \A k \in 1..Len(s) : u[k] = Show(u[k - 1], s[k])
  BY <1>2, ReadSteps
<1>5. v[0] = EmptyView /\ \A k \in 1..Len(t) : v[k] = Show(v[k - 1], t[k])
  BY <1>1, <1>3, ReadSteps
<1> DEFINE T == {m \in 0..Len(s) : v[m] = u[m]}
<1>6. 0 \in T
  BY <1>1, <1>4, <1>5
<1>7. ASSUME NEW m \in T, m < Len(s) PROVE m + 1 \in T
  <2>1. m + 1 \in 1..Len(s) /\ m + 1 \in 1..Len(t) /\ (m + 1) - 1 = m /\ m + 1 \in 0..Len(s)
    BY <1>1, <1>7
  <2>2. v[m + 1] = u[m + 1]
    BY <1>1, <1>4, <1>5, <1>7, <2>1
  <2> QED
    BY <2>1, <2>2
<1>8. T \in SUBSET (0..Len(s))
  OBVIOUS
<1> HIDE DEF T
<1>9. T = 0..Len(s)
  BY <1>1, <1>6, <1>7, <1>8, UpTo
<1>10. v[Len(s)] = u[Len(s)]
  BY <1>1, <1>9 DEF T
<1>11. v[Len(s) + 1] = Show(v[Len(s)], t[Len(s) + 1])
  <2>1. Len(s) + 1 \in 1..Len(t) /\ (Len(s) + 1) - 1 = Len(s)
    BY <1>1
  <2> QED
    BY <1>5, <2>1
<1> QED
  BY <1>1, <1>2, <1>3, <1>10, <1>11 DEF t
------------------------------------------------------------------------------
(* What a record does to the cards. *)

ToolResult == [of : Nat, pos : Nat]
ShownCall  == [name : STRING, ok : BOOLEAN, result : ToolResult]
Card == [of : Nat, no : Nat, response : Nat, empty : BOOLEAN, error : Nat,
         calls : Seq(ShownCall)]
View == [started : BOOLEAN, summary : Summaries, cards : [Files \X Types -> Seq(Card)]]

(* W is V but for the cards of a file and task, which it has as given. *)
Changed(V, W, file, type, cards) ==
  /\ W \in View
  /\ W.started = V.started /\ W.summary = V.summary
  /\ W.cards[<<file, type>>] = cards
  /\ \A ft \in Files \X Types : ft # <<file, type>> => W.cards[ft] = V.cards[ft]

(* Replacing the cards of one file and task does just that. *)
LEMMA Changes ==
  ASSUME NEW V \in View, NEW file \in Files, NEW type \in Types, NEW cards \in Seq(Card), NEW W,
         W = [V EXCEPT !.cards = [V.cards EXCEPT ![<<file, type>>] = cards]]
  PROVE  Changed(V, W, file, type, cards)
<1> DEFINE C == [V.cards EXCEPT ![<<file, type>>] = cards]
<1>1. <<file, type>> \in Files \X Types /\ V.cards \in [Files \X Types -> Seq(Card)]
  BY DEF View
<1>2. /\ C \in [Files \X Types -> Seq(Card)]
      /\ C[<<file, type>>] = cards
      /\ \A ft \in Files \X Types : ft # <<file, type>> => C[ft] = V.cards[ft]
  BY <1>1
<1> HIDE DEF C
<1>3. W = [V EXCEPT !.cards = C]
  BY DEF C
<1>4. W \in View /\ W.started = V.started /\ W.summary = V.summary /\ W.cards = C
  BY <1>2, <1>3 DEF View
<1> QED
  BY <1>2, <1>4 DEF Changed

(* A request adds an empty card of its own. *)
LEMMA RequestShown ==
  ASSUME NEW V \in View, NEW r \in Record, r.kind = "llm_request", NEW W, W = Show(V, r)
  PROVE  \E card \in Card :
           /\ Changed(V, W, r.file, r.type, Append(V.cards[<<r.file, r.type>>], card))
           /\ card.of = r.of /\ card.response = 0 /\ card.empty /\ card.error = 0
           /\ card.calls = <<>>
<1> DEFINE card == [of |-> r.of, no |-> r.no, response |-> 0, empty |-> TRUE,
                    error |-> 0, calls |-> <<>>]
           old == V.cards[<<r.file, r.type>>]
<1>1. r.file \in Files /\ r.type \in Types /\ r.of \in Nat /\ r.no \in Nat
  BY DEF Record
<1>2. card \in Card /\ card.of = r.of /\ card.response = 0 /\ card.empty /\ card.error = 0
      /\ card.calls = <<>>
  BY <1>1 DEF Card
<1>3. old \in Seq(Card)
  BY <1>1 DEF View
<1>4. W = ShowRequest(V, r)
  BY DEF Show
<1> HIDE DEF card
<1>5. ShowRequest(V, r) = [V EXCEPT !.cards = [V.cards EXCEPT ![<<r.file, r.type>>] = Append(old, card)]]
  BY DEF ShowRequest, card, View
<1>6. Append(old, card) \in Seq(Card)
  BY <1>2, <1>3, AppendProperties
<1> HIDE DEF old
<1>7. Changed(V, W, r.file, r.type, Append(old, card))
  BY <1>1, <1>4, <1>5, <1>6, Changes
<1> QED
  BY <1>2, <1>7 DEF old

(* The last card changes. *)
LEMMA LastChanges ==
  ASSUME NEW V \in View, NEW r, r.file \in Files, r.type \in Types,
         V.cards[<<r.file, r.type>>] # <<>>, NEW card \in Card
  PROVE  LET old == V.cards[<<r.file, r.type>>]
         IN  /\ Changed(V, ChangeLast(V, r, card), r.file, r.type, [old EXCEPT ![Len(old)] = card])
             /\ old \in Seq(Card) /\ Last(old) \in Card /\ Last(old) = old[Len(old)]
             /\ Len(old) \in DOMAIN old /\ DOMAIN old = 1..Len(old) /\ Len(old) \in Nat
<1> DEFINE old == V.cards[<<r.file, r.type>>]
           new == [old EXCEPT ![Len(old)] = card]
<1>1. old \in Seq(Card) /\ old # <<>>
  BY DEF View
<1>2. Len(old) \in Nat /\ DOMAIN old = 1..Len(old) /\ Len(old) \in DOMAIN old
  <2>1. Len(old) \in Nat /\ DOMAIN old = 1..Len(old) /\ Len(old) # 0
    BY <1>1, EmptySeq, LenProperties
  <2> QED
    BY <2>1
<1>3. old[Len(old)] \in Card
  BY <1>1, <1>2, ElementOfSeq
<1>4. new \in Seq(Card)
  BY <1>1, <1>2, ExceptSeq
<1>5. ChangeLast(V, r, card) = [V EXCEPT !.cards = [V.cards EXCEPT ![<<r.file, r.type>>] = new]]
  BY DEF ChangeLast, View
<1> HIDE DEF new
<1>6. Changed(V, ChangeLast(V, r, card), r.file, r.type, new)
  BY <1>4, <1>5, Changes
<1> QED
  BY <1>1, <1>2, <1>3, <1>6 DEF new, Last

(* When there are cards, the last is one. *)
LEMMA LastCard ==
  ASSUME NEW V \in View, NEW r \in Record, r.kind \in Between,
         V.cards[<<r.file, r.type>>] # <<>>
  PROVE  /\ Last(V.cards[<<r.file, r.type>>]) \in Card
         /\ r.file \in Files /\ r.type \in Types /\ r.of \in Nat
<1>1. r.file \in Files /\ r.type \in Types /\ r.of \in Nat
  BY DEF Record, Between
<1> DEFINE s == V.cards[<<r.file, r.type>>]
<1>2. s \in Seq(Card) /\ s # <<>>
  BY <1>1 DEF View
<1>3. Len(s) \in 1..Len(s)
  <2>1. Len(s) \in Nat /\ Len(s) # 0
    BY <1>2, EmptySeq, LenProperties
  <2> QED
    BY <2>1
<1> HIDE DEF s
<1>4. Last(s) \in Card
  BY <1>2, <1>3, ElementOfSeq DEF Last
<1> QED
  BY <1>1, <1>4 DEF s

(* The last card after a response: its content if it had none, and the calls in any
   case. *)
TakesResponse(card, old, r) ==
  /\ card.of = old.of
  /\ old.empty => card.response = r.of /\ card.error = 0
  /\ ~old.empty => card.response = old.response /\ card.error = old.error
  /\ \A i \in DOMAIN card.calls :
       \/ card.calls[i].result.of = 0
       \/ \E j \in DOMAIN old.calls : card.calls[i] = old.calls[j]

LEMMA ResponseShown ==
  ASSUME NEW V \in View, NEW r \in Record, r.kind = "llm_response",
         V.cards[<<r.file, r.type>>] # <<>>,
         NEW old, old = Last(V.cards[<<r.file, r.type>>])
  PROVE  \E card \in Card : Show(V, r) = ChangeLast(V, r, card) /\ TakesResponse(card, old, r)
<1> DEFINE answered == IF old.empty
                       THEN [old EXCEPT !.response = r.of, !.empty = r.empty, !.error = 0]
                       ELSE old
           infos == [c \in DOMAIN r.calls |-> CallInfo(r.calls[c])]
           card == [answered EXCEPT !.calls = old.calls \o infos]
<1>0. r.kind \in Between
  BY DEF Between
<1>1. old \in Card /\ r.of \in Nat
  BY <1>0, LastCard
<1>2. r.empty \in BOOLEAN /\ r.calls \in Seq(STRING)
  BY DEF Record
<1>3. old.calls \in Seq(ShownCall) /\ old.response \in Nat /\ old.error \in Nat /\ old.of \in Nat
      /\ old.no \in Nat /\ old.empty \in BOOLEAN
  BY <1>1 DEF Card
<1>4. infos \in Seq(ShownCall) /\ \A i \in DOMAIN infos : infos[i].result.of = 0
  <2>1. DOMAIN r.calls = 1..Len(r.calls) /\ Len(r.calls) \in Nat
        /\ \A c \in DOMAIN r.calls : r.calls[c] \in STRING
    BY <1>2, LenProperties, ElementOfSeq
  <2>2. \A c \in DOMAIN r.calls : CallInfo(r.calls[c]) \in ShownCall
                                  /\ CallInfo(r.calls[c]).result.of = 0
    BY <2>1 DEF CallInfo, NoResult, ShownCall, ToolResult
  <2> DEFINE n == Len(r.calls)
  <2>3. infos \in [1..n -> ShownCall] /\ n \in Nat /\ DOMAIN infos = DOMAIN r.calls
        /\ \A c \in DOMAIN r.calls : infos[c].result.of = 0
    BY <2>1, <2>2
  <2> HIDE DEF infos, n
  <2>4. infos \in Seq(ShownCall)
    BY <2>3, SeqDef
  <2> QED
    BY <2>3, <2>4
<1> HIDE DEF infos
<1>5. /\ old.calls \o infos \in Seq(ShownCall)
      /\ \A i \in DOMAIN (old.calls \o infos) :
           \/ (old.calls \o infos)[i].result.of = 0
           \/ \E j \in DOMAIN old.calls : (old.calls \o infos)[i] = old.calls[j]
  <2> DEFINE a == old.calls
             s == a \o infos
  <2>1. /\ s \in Seq(ShownCall)
        /\ Len(s) = Len(a) + Len(infos)
        /\ \A i \in 1..Len(a) + Len(infos) :
             s[i] = IF i <= Len(a) THEN a[i] ELSE infos[i - Len(a)]
    BY <1>3, <1>4, ConcatProperties
  <2>2. /\ Len(a) \in Nat /\ DOMAIN a = 1..Len(a)
        /\ Len(infos) \in Nat /\ DOMAIN infos = 1..Len(infos)
        /\ DOMAIN s = 1..Len(s)
    <3> HIDE DEF s
    <3> QED
      BY <1>3, <1>4, <2>1, LenProperties
  <2> HIDE DEF s, a
  <2>3. ASSUME NEW i \in DOMAIN s
        PROVE  s[i].result.of = 0 \/ \E j \in DOMAIN a : s[i] = a[j]
    <3>1. CASE i <= Len(a)
      BY <2>1, <2>2, <2>3, <3>1
    <3>2. CASE ~(i <= Len(a))
      <4>1. i - Len(a) \in DOMAIN infos /\ s[i] = infos[i - Len(a)]
        BY <2>1, <2>2, <2>3, <3>2
      <4> QED
        BY <1>4, <4>1
    <3> QED
      BY <3>1, <3>2
  <2> QED
    BY <2>1, <2>3 DEF s, a
<1> DEFINE all == old.calls \o infos
<1>6. /\ all \in Seq(ShownCall)
      /\ \A i \in DOMAIN all : \/ all[i].result.of = 0
                             \/ \E j \in DOMAIN old.calls : all[i] = old.calls[j]
  BY <1>5
<1> HIDE DEF all
<1>7. answered \in Card /\ answered.of = old.of
      /\ (old.empty => answered.response = r.of /\ answered.error = 0)
      /\ (~old.empty => answered.response = old.response /\ answered.error = old.error)
      /\ answered.calls = old.calls
  BY <1>1, <1>2 DEF Card
<1>8. Show(V, r) = ChangeLast(V, r, card)
  <2>1. Show(V, r) = ShowResponse(V, r)
    BY DEF Show
  <2>2. ShowResponse(V, r) = ChangeLast(V, r, [answered EXCEPT !.calls = answered.calls \o infos])
    BY DEF ShowResponse, infos
  <2> QED
    BY <1>7, <2>1, <2>2
<1> HIDE DEF answered
<1>9. card \in Card /\ card.of = answered.of /\ card.response = answered.response
      /\ card.error = answered.error /\ card.calls = all
  <2>1. card = [answered EXCEPT !.calls = all]
    BY DEF all
  <2> HIDE DEF card
  <2> QED
    BY <1>6, <1>7, <2>1 DEF Card
<1> HIDE DEF card
<1> QED
  BY <1>6, <1>7, <1>8, <1>9 DEF TakesResponse

(* An error goes to the last card if that has none; nothing else changes. *)
LEMMA ErrorShown ==
  ASSUME NEW V \in View, NEW r \in Record, r.kind = "llm_error",
         V.cards[<<r.file, r.type>>] # <<>>,
         NEW old, old = Last(V.cards[<<r.file, r.type>>])
  PROVE  \/ Show(V, r) = V /\ old.error # 0
         \/ \E card \in Card :
              /\ Show(V, r) = ChangeLast(V, r, card)
              /\ card.of = old.of /\ card.response = old.response /\ card.calls = old.calls
              /\ card.error = r.of
<1> DEFINE card == [old EXCEPT !.error = r.of]
<1>1. r.kind \in Between
  BY DEF Between
<1>2. old \in Card /\ r.of \in Nat
  BY <1>1, LastCard
<1>3. Show(V, r) = ShowError(V, r)
  BY DEF Show
<1>4. ShowError(V, r) = IF old.error = 0 THEN ChangeLast(V, r, card) ELSE V
  BY DEF ShowError
<1>5. card \in Card /\ card.of = old.of /\ card.response = old.response
      /\ card.calls = old.calls /\ card.error = r.of
  BY <1>2 DEF Card
<1> HIDE DEF card
<1> QED
  BY <1>3, <1>4, <1>5

(* A result goes to at most one call of the last card. *)
LEMMA ToolCallShown ==
  ASSUME NEW V \in View, NEW r \in Record, r.kind = "tool_call",
         V.cards[<<r.file, r.type>>] # <<>>,
         NEW old, old = Last(V.cards[<<r.file, r.type>>])
  PROVE  \/ Show(V, r) = V
         \/ \E card \in Card :
              /\ Show(V, r) = ChangeLast(V, r, card)
              /\ card.of = old.of /\ card.response = old.response /\ card.error = old.error
              /\ \A i \in DOMAIN card.calls :
                   \/ card.calls[i].result.of = r.of
                   \/ \E j \in DOMAIN old.calls : card.calls[i] = old.calls[j]
<1> DEFINE open == {c \in DOMAIN old.calls : ~old.calls[c].ok}
           first == CHOOSE c \in open : \A d \in open : c <= d
           result == [of |-> r.of, pos |-> r.pos]
           card == [old EXCEPT !.calls[first].ok = TRUE, !.calls[first].result = result]
<1>1. r.kind \in Between /\ r.pos \in Nat
  BY DEF Between, Record
<1>2. old \in Card /\ r.of \in Nat
  BY <1>1, LastCard
<1>3. Show(V, r) = ShowToolCall(V, r)
  BY DEF Show
<1>4. ShowToolCall(V, r) = IF open = {} THEN V ELSE ChangeLast(V, r, card)
  BY DEF ShowToolCall
<1>5. CASE open = {}
  BY <1>3, <1>4, <1>5
<1>6. CASE open # {}
  <2> DEFINE s == old.calls
  <2>1. s \in Seq(ShownCall) /\ Len(s) \in Nat /\ DOMAIN s = 1..Len(s)
    BY <1>2, LenProperties DEF Card
  <2>2. first \in 1..Len(s)
    <3>1. open \in SUBSET Nat
      BY <2>1
    <3> HIDE DEF open
    <3>2. \E c \in open : \A d \in open : c <= d
      BY <1>6, <3>1, MinimalNat
    <3>3. first \in open
      BY <3>2
    <3> QED
      BY <2>1, <3>3 DEF open
  <2> HIDE DEF first
  <2> DEFINE new == [s[first] EXCEPT !.ok = TRUE, !.result = result]
  <2>3. s[first] \in ShownCall
    BY <2>1, <2>2, ElementOfSeq
  <2>4. result \in ToolResult /\ result.of = r.of
    BY <1>1, <1>2 DEF ToolResult
  <2> HIDE DEF result
  <2>5. new \in ShownCall /\ new.result.of = r.of
    BY <2>3, <2>4 DEF ShownCall
  <2>6. card = [old EXCEPT !.calls = [s EXCEPT ![first] = new]]
    BY <1>2, <2>1, <2>2, <2>3 DEF Card, ShownCall
  <2> HIDE DEF new
  <2> DEFINE t == [s EXCEPT ![first] = new]
  <2>7. t \in Seq(ShownCall) /\ Len(t) = Len(s)
        /\ \A j \in 1..Len(s) : t[j] = IF j = first THEN new ELSE s[j]
    BY <2>1, <2>2, <2>5, ExceptSeq
  <2> HIDE DEF t
  <2>8. DOMAIN t = 1..Len(s)
    BY <2>7, LenProperties
  <2>9. card = [old EXCEPT !.calls = t]
    BY <2>6 DEF t
  <2> HIDE DEF card
  <2>10. card \in Card /\ card.of = old.of /\ card.response = old.response
         /\ card.error = old.error /\ card.calls = t
    BY <1>2, <2>7, <2>9 DEF Card
  <2>11. \A i \in DOMAIN t : t[i].result.of = r.of \/ \E j \in DOMAIN s : t[i] = s[j]
    BY <2>1, <2>5, <2>7, <2>8
  <2> QED
    BY <1>3, <1>4, <1>6, <2>10, <2>11
<1> QED
  BY <1>5, <1>6
------------------------------------------------------------------------------
(* One more record, and the cards of a file's main requests. *)

About(r, f) == r.kind \in Between /\ r.file = f /\ r.type = Main

OwnCard(card) ==
  /\ {card.response, card.error} \subseteq {0, card.of}
  /\ \A i \in DOMAIN card.calls : card.calls[i].result.of \in {0, card.of}
AllOwn(cards) == \A c \in DOMAIN cards : OwnCard(cards[c])

Shows(cards, of)  == \E c \in DOMAIN cards : of \in {cards[c].response, cards[c].error}
Faces(cards, of)  == cards # <<>> /\ Last(cards).of = of
Awaits(cards, of) ==
  /\ Faces(cards, of)
  /\ Last(cards).empty /\ Last(cards).response = 0 /\ Last(cards).error = 0

(* Any record keeps a view a view, and touches the cards of its own file and task
   only. *)
LEMMA ShownOn ==
  ASSUME NEW V \in View, NEW r \in Record, NEW W, W = Show(V, r)
  PROVE  /\ W \in View
         /\ W.started <=> (V.started \/ r.kind = "session_start")
         /\ W.summary = IF r.kind = "session_end" THEN r.summary ELSE V.summary
         /\ \A f \in Files : ~About(r, f) => W.cards[<<f, Main>>] = V.cards[<<f, Main>>]
<1>1. r.kind \in {"session_start", "session_end"} \cup Between
  BY RecordKinds
<1>2. CASE r.kind = "session_start"
  <2>1. W = [V EXCEPT !.started = TRUE]
    BY <1>2 DEF Show
  <2> QED
    BY <1>2, <2>1 DEF View
<1>3. CASE r.kind = "session_end"
  <2>1. W = [V EXCEPT !.summary = r.summary] /\ r.summary \in Summaries
    BY <1>3, RecordKinds DEF Show
  <2> QED
    BY <1>3, <2>1 DEF View
<1>4. ASSUME r.kind \in Between, NEW cards, Changed(V, W, r.file, r.type, cards)
      PROVE  /\ W \in View
             /\ W.started <=> (V.started \/ r.kind = "session_start")
             /\ W.summary = IF r.kind = "session_end" THEN r.summary ELSE V.summary
             /\ \A f \in Files : ~About(r, f) => W.cards[<<f, Main>>] = V.cards[<<f, Main>>]
  <2>1. W \in View /\ W.started = V.started /\ W.summary = V.summary
    BY <1>4 DEF Changed
  <2>2. ASSUME NEW f \in Files, ~About(r, f) PROVE W.cards[<<f, Main>>] = V.cards[<<f, Main>>]
    <3>1. <<f, Main>> # <<r.file, r.type>> /\ <<f, Main>> \in Files \X Types
      BY <1>4, <2>2, SessionAssumption DEF About
    <3> QED
      BY <1>4, <3>1 DEF Changed
  <2>3. r.kind # "session_start" /\ r.kind # "session_end"
    BY <1>4 DEF Between
  <2>4. W.started <=> (V.started \/ r.kind = "session_start")
    BY <2>1, <2>3
  <2> QED
    BY <2>1, <2>2, <2>3, <2>4
<1>5. CASE r.kind = "llm_request"
  <2>1. r.kind \in Between
    BY <1>5 DEF Between
  <2>2. \E cards : Changed(V, W, r.file, r.type, cards)
    BY <1>5, RequestShown
  <2> QED
    BY <1>4, <2>1, <2>2
<1>6. CASE r.kind \in Between \ {"llm_request"}
  <2>1. CASE W = V
    <3>1. r.kind # "session_start" /\ r.kind # "session_end"
      BY <1>6 DEF Between
    <3>2. W.started <=> (V.started \/ r.kind = "session_start")
      BY <2>1, <3>1
    <3> QED
      BY <2>1, <3>1, <3>2
  <2>2. CASE V.cards[<<r.file, r.type>>] = <<>>
    <3>1. W = V
      BY <1>6, <2>2 DEF Show, Between
    <3> QED
      BY <2>1, <3>1
  <2>3. CASE V.cards[<<r.file, r.type>>] # <<>>
    <3>1. W = V \/ \E card \in Card : W = ChangeLast(V, r, card)
      <4>1. CASE r.kind = "llm_response"
        BY <2>3, <4>1, ResponseShown
      <4>2. CASE r.kind = "llm_error"
        BY <2>3, <4>2, ErrorShown
      <4>3. CASE r.kind = "tool_call"
        BY <2>3, <4>3, ToolCallShown
      <4> QED
        BY <1>6, <4>1, <4>2, <4>3 DEF Between
    <3>2. CASE \E card \in Card : W = ChangeLast(V, r, card)
      <4>1. r.file \in Files /\ r.type \in Types
        BY <1>6, <2>3, LastCard
      <4>2. PICK card \in Card : W = ChangeLast(V, r, card)
        BY <3>2
      <4> DEFINE old == V.cards[<<r.file, r.type>>]
      <4>3. Changed(V, W, r.file, r.type, [old EXCEPT ![Len(old)] = card])
        BY <2>3, <4>1, <4>2, LastChanges
      <4> HIDE DEF old
      <4> QED
        BY <1>4, <1>6, <4>3
    <3> QED
      BY <2>1, <3>1, <3>2
  <2> QED
    BY <2>2, <2>3
<1> QED
  BY <1>1, <1>2, <1>3, <1>5, <1>6

(* The last card replaced by one of the same request that forgets no answer. *)
LEMMA LastReplaced ==
  ASSUME NEW cards \in Seq(Card), cards # <<>>, NEW card \in Card, AllOwn(cards), OwnCard(card),
         card.of = Last(cards).of,
         \A of \in Nat \ {0} : of \in {Last(cards).response, Last(cards).error} =>
                                 of \in {card.response, card.error},
         NEW new, new = [cards EXCEPT ![Len(cards)] = card]
  PROVE  /\ AllOwn(new) /\ Faces(new, card.of)
         /\ \A of \in Nat \ {0} : Shows(cards, of) => Shows(new, of)
         /\ Shows(new, card.response) /\ Shows(new, card.error)
<1>1. Len(cards) \in 1..Len(cards) /\ Len(cards) \in Nat /\ DOMAIN cards = 1..Len(cards)
  <2>1. Len(cards) \in Nat /\ Len(cards) # 0 /\ DOMAIN cards = 1..Len(cards)
    BY EmptySeq, LenProperties
  <2> QED
    BY <2>1
<1>2. /\ new \in Seq(Card) /\ Len(new) = Len(cards)
      /\ \A j \in 1..Len(cards) : new[j] = IF j = Len(cards) THEN card ELSE cards[j]
  BY <1>1, ExceptSeq
<1>3. DOMAIN new = 1..Len(cards) /\ new # <<>>
  <2>1. DOMAIN new = 1..Len(cards) /\ Len(new) # 0
    BY <1>1, <1>2, LenProperties
  <2> QED
    BY <1>2, <2>1, EmptySeq
<1>4. AllOwn(new)
  BY <1>1, <1>2, <1>3 DEF AllOwn
<1>5. Last(new) = card /\ new[Len(cards)] = card
  BY <1>1, <1>2 DEF Last
<1>6. ASSUME NEW of \in Nat \ {0}, Shows(cards, of) PROVE Shows(new, of)
  <2>1. PICK c \in DOMAIN cards : of \in {cards[c].response, cards[c].error}
    BY <1>6 DEF Shows
  <2>2. CASE c = Len(cards)
    <3>1. of \in {card.response, card.error}
      BY <2>1, <2>2 DEF Last
    <3> QED
      BY <1>1, <1>3, <1>5, <3>1 DEF Shows
  <2>3. CASE c # Len(cards)
    <3>1. c \in DOMAIN new /\ new[c] = cards[c]
      BY <1>1, <1>2, <1>3, <2>3
    <3> QED
      BY <2>1, <3>1 DEF Shows
  <2> QED
    BY <2>2, <2>3
<1>7. Shows(new, card.response) /\ Shows(new, card.error)
  BY <1>1, <1>3, <1>5 DEF Shows
<1> QED
  BY <1>3, <1>4, <1>5, <1>6, <1>7 DEF Faces

(* A new card is of its own request, and no answer is lost. *)
LEMMA CardAppended ==
  ASSUME NEW cards \in Seq(Card), NEW card \in Card, AllOwn(cards), card.response = 0,
         card.error = 0, card.empty, card.calls = <<>>, NEW new, new = Append(cards, card)
  PROVE  /\ AllOwn(new) /\ Awaits(new, card.of)
         /\ \A of : Shows(cards, of) => Shows(new, of)
<1>1. /\ new \in Seq(Card) /\ Len(new) = Len(cards) + 1
      /\ \A j \in 1..Len(cards) : new[j] = cards[j]
      /\ new[Len(cards) + 1] = card
  BY AppendProperties
<1>2. Len(cards) \in Nat /\ DOMAIN cards = 1..Len(cards) /\ DOMAIN new = 1..Len(cards) + 1
      /\ new # <<>>
  <2>1. Len(cards) \in Nat /\ DOMAIN cards = 1..Len(cards) /\ DOMAIN new = 1..Len(new)
    BY <1>1, LenProperties
  <2>2. Len(new) # 0
    BY <1>1, <2>1
  <2> QED
    BY <1>1, <2>1, <2>2, EmptySeq
<1>3. OwnCard(card)
  BY DEF OwnCard
<1>4. AllOwn(new)
  BY <1>1, <1>2, <1>3 DEF AllOwn
<1>5. Last(new) = card
  BY <1>1 DEF Last
<1>6. \A of : Shows(cards, of) => Shows(new, of)
  BY <1>1, <1>2 DEF Shows
<1> QED
  BY <1>2, <1>4, <1>5, <1>6 DEF Awaits, Faces

(* A record of the request the last card faces. *)
LEMMA MainShown ==
  ASSUME NEW V \in View, NEW r \in Record, NEW W, W = Show(V, r),
         NEW f \in Files, About(r, f), NEW cards, cards = V.cards[<<f, Main>>],
         AllOwn(cards),
         r.kind \in Answer => Awaits(cards, r.of) /\ r.of # 0,
         r.kind = "tool_call" => Faces(cards, r.of)
  PROVE  LET new == W.cards[<<f, Main>>]
         IN  /\ AllOwn(new)
             /\ \A of \in Nat \ {0} : Shows(cards, of) => Shows(new, of)
             /\ r.kind \in Answer => Shows(new, r.of)
             /\ r.kind = "llm_request" => Awaits(new, r.of)
             /\ Faces(new, r.of)
<1> DEFINE new == W.cards[<<f, Main>>]
<1>1. <<r.file, r.type>> = <<f, Main>> /\ r.kind \in Between /\ cards \in Seq(Card)
  BY SessionAssumption DEF About, View
<1>2. r.of \in Nat /\ r.file \in Files /\ r.type \in Types
  BY <1>1 DEF Record, Between
<1>3. CASE r.kind = "llm_request"
  <2>1. PICK card \in Card :
          /\ Changed(V, W, f, Main, Append(cards, card))
          /\ card.of = r.of /\ card.response = 0 /\ card.empty /\ card.error = 0
          /\ card.calls = <<>>
    BY <1>1, <1>3, RequestShown DEF About
  <2>2. new = Append(cards, card)
    BY <2>1 DEF Changed
  <2> HIDE DEF new
  <2>3. AllOwn(new) /\ Awaits(new, card.of) /\ \A of : Shows(cards, of) => Shows(new, of)
    BY <1>1, <2>1, <2>2, CardAppended
  <2> QED
    BY <1>3, <2>1, <2>3 DEF Awaits, Answer, new
<1>4. ASSUME r.kind # "llm_request", cards # <<>>, NEW card \in Card,
             W = ChangeLast(V, r, card), OwnCard(card), card.of = Last(cards).of,
             \A of \in Nat \ {0} : of \in {Last(cards).response, Last(cards).error} =>
                                     of \in {card.response, card.error}
      PROVE  /\ AllOwn(new) /\ Faces(new, card.of)
             /\ \A of \in Nat \ {0} : Shows(cards, of) => Shows(new, of)
             /\ Shows(new, card.response) /\ Shows(new, card.error)
  <2>1. Changed(V, W, r.file, r.type, [cards EXCEPT ![Len(cards)] = card])
    BY <1>1, <1>2, <1>4, LastChanges
  <2>2. new = [cards EXCEPT ![Len(cards)] = card]
    BY <1>1, <2>1 DEF Changed
  <2> HIDE DEF new
  <2> QED
    BY <1>1, <1>4, <2>2, LastReplaced
<1>5. Faces(cards, r.of) => /\ cards # <<>> /\ OwnCard(Last(cards)) /\ Last(cards).of = r.of
                            /\ Last(cards) \in Card /\ V.cards[<<r.file, r.type>>] # <<>>
  <2>1. cards # <<>> => Len(cards) \in DOMAIN cards
    <3>1. Len(cards) \in Nat /\ DOMAIN cards = 1..Len(cards) /\ (cards # <<>> => Len(cards) # 0)
      BY <1>1, EmptySeq, LenProperties
    <3> QED
      BY <3>1
  <2>2. cards # <<>> => OwnCard(Last(cards))
    BY <2>1 DEF AllOwn, Last
  <2>3. cards # <<>> => Last(cards) \in Card
    BY <1>1, LastCard
  <2>4. V.cards[<<r.file, r.type>>] = cards
    BY <1>1, Zenon
  <2> QED
    BY <2>2, <2>3, <2>4, Zenon DEF Faces
<1>6. CASE r.kind = "llm_response"
  <2>1. Awaits(cards, r.of) /\ r.of # 0
    BY <1>6 DEF Answer
  <2> DEFINE old == Last(cards)
  <2>2. /\ cards # <<>> /\ OwnCard(old) /\ old.of = r.of /\ V.cards[<<r.file, r.type>>] # <<>>
        /\ old = Last(V.cards[<<r.file, r.type>>]) /\ old.empty /\ old.response = 0 /\ old.error = 0
    BY <1>1, <1>5, <2>1 DEF Awaits
  <2> HIDE DEF old
  <2>3. PICK card \in Card : Show(V, r) = ChangeLast(V, r, card) /\ TakesResponse(card, old, r)
    BY <1>6, <2>2, ResponseShown
  <2>4. /\ W = ChangeLast(V, r, card)
        /\ card.of = r.of /\ card.response = r.of /\ card.error = 0
        /\ \A i \in DOMAIN card.calls :
             \/ card.calls[i].result.of = 0
             \/ \E j \in DOMAIN old.calls : card.calls[i] = old.calls[j]
    BY <2>2, <2>3 DEF TakesResponse
  <2>5. OwnCard(card)
    <3>1. \A j \in DOMAIN old.calls : old.calls[j].result.of \in {0, r.of}
      BY <2>2 DEF OwnCard
    <3>2. \A i \in DOMAIN card.calls : card.calls[i].result.of \in {0, card.of}
      BY <2>4, <3>1
    <3>3. {card.response, card.error} \subseteq {0, card.of}
      BY <2>4
    <3> QED
      BY <3>2, <3>3 DEF OwnCard
  <2>6. /\ AllOwn(new) /\ Faces(new, r.of) /\ Shows(new, r.of)
        /\ \A of \in Nat \ {0} : Shows(cards, of) => Shows(new, of)
    <3>1. \A of \in Nat \ {0} : of \in {old.response, old.error} =>
                                  of \in {card.response, card.error}
      BY <2>2
    <3> HIDE DEF new
    <3> QED
      BY <1>4, <1>6, <2>2, <2>4, <2>5, <3>1 DEF old
  <2> QED
    BY <1>6, <2>6
<1>7. CASE r.kind = "llm_error"
  <2>1. Awaits(cards, r.of) /\ r.of # 0
    BY <1>7 DEF Answer
  <2> DEFINE old == Last(cards)
  <2>2. /\ cards # <<>> /\ OwnCard(old) /\ old.of = r.of /\ V.cards[<<r.file, r.type>>] # <<>>
        /\ old = Last(V.cards[<<r.file, r.type>>]) /\ old.response = 0 /\ old.error = 0
    BY <1>1, <1>5, <2>1 DEF Awaits
  <2> HIDE DEF old
  <2>3. PICK card \in Card :
           /\ W = ChangeLast(V, r, card)
           /\ card.of = r.of /\ card.response = 0 /\ card.error = r.of /\ card.calls = old.calls
    BY <1>7, <2>2, ErrorShown
  <2>4. OwnCard(card)
    BY <2>2, <2>3 DEF OwnCard
  <2>5. /\ AllOwn(new) /\ Faces(new, r.of) /\ Shows(new, r.of)
        /\ \A of \in Nat \ {0} : Shows(cards, of) => Shows(new, of)
    <3>1. \A of \in Nat \ {0} : of \in {old.response, old.error} =>
                                  of \in {card.response, card.error}
      BY <2>2
    <3> HIDE DEF new
    <3> QED
      BY <1>4, <1>7, <2>2, <2>3, <2>4, <3>1 DEF old
  <2> QED
    BY <1>7, <2>5
<1>8. CASE r.kind = "tool_call"
  <2> DEFINE old == Last(cards)
  <2>1. /\ cards # <<>> /\ OwnCard(old) /\ old.of = r.of /\ V.cards[<<r.file, r.type>>] # <<>>
        /\ old = Last(V.cards[<<r.file, r.type>>]) /\ Faces(cards, r.of)
    BY <1>1, <1>5, <1>8
  <2> HIDE DEF old
  <2>2. CASE W = V
    BY <1>8, <2>1, <2>2 DEF Answer
  <2>3. CASE \E card \in Card :
               /\ W = ChangeLast(V, r, card)
               /\ card.of = old.of /\ card.response = old.response /\ card.error = old.error
               /\ \A i \in DOMAIN card.calls :
                    \/ card.calls[i].result.of = r.of
                    \/ \E j \in DOMAIN old.calls : card.calls[i] = old.calls[j]
    <3>1. PICK card \in Card :
               /\ W = ChangeLast(V, r, card)
               /\ card.of = old.of /\ card.response = old.response /\ card.error = old.error
               /\ \A i \in DOMAIN card.calls :
                    \/ card.calls[i].result.of = r.of
                    \/ \E j \in DOMAIN old.calls : card.calls[i] = old.calls[j]
      BY <2>3
    <3>2. OwnCard(card)
      BY <2>1, <3>1 DEF OwnCard
    <3>3. /\ AllOwn(new) /\ Faces(new, r.of)
          /\ \A of \in Nat \ {0} : Shows(cards, of) => Shows(new, of)
      <4>1. \A of \in Nat \ {0} : of \in {old.response, old.error} =>
                                    of \in {card.response, card.error}
        BY <3>1
      <4> HIDE DEF new
      <4> QED
        BY <1>4, <1>8, <2>1, <3>1, <3>2, <4>1 DEF old
    <3> QED
      BY <1>8, <3>3 DEF Answer
  <2> QED
    BY <1>8, <2>1, <2>2, <2>3, ToolCallShown
<1> HIDE DEF new
<1>9. /\ AllOwn(new)
      /\ \A of \in Nat \ {0} : Shows(cards, of) => Shows(new, of)
      /\ r.kind \in Answer => Shows(new, r.of)
      /\ r.kind = "llm_request" => Awaits(new, r.of)
      /\ Faces(new, r.of)
  BY <1>1, <1>3, <1>6, <1>7, <1>8 DEF Between, new
<1> QED
  BY <1>9 DEF new
------------------------------------------------------------------------------
(* The viewer's page, on every part of the log from its start. *)

(* Main requests of a file are its own goroutine's. *)
Asks ==
  \A g \in Goroutines : at[g] # "idle" =>
    /\ rec[g].type = Main => g \in Files /\ rec[g].file = g
    /\ at[g] = "asked" => rec[g].of # 0

AllShown(file, f, cards) ==
  \A k \in DOMAIN file : About(file[k], f) /\ file[k].kind \in Answer =>
    file[k].of \in Nat \ {0} /\ Shows(cards, file[k].of)

MainCards(V, f) == V.cards[<<f, Main>>]

Viewed(file, V) ==
  /\ V \in View
  /\ V.started <=> \E k \in DOMAIN file : file[k].kind = "session_start"
  /\ (\A k \in DOMAIN file : file[k].kind # "session_end") => V.summary = NotEnded
  /\ \A f \in Files : AllOwn(MainCards(V, f)) /\ AllShown(file, f, MainCards(V, f))

AllViewed == \A k \in 0..Len(log) : Viewed(SubSeq(log, 1, k), LoadSession(SubSeq(log, 1, k)))

(* The last card of a file whose goroutine is at work on a main request is the card of
   that request, open as long as the answer has not come. *)
Facing ==
  \A f \in Files : persist /\ at[f] \in {"asked", "tools"} /\ rec[f].type = Main =>
    /\ Faces(MainCards(LoadSession(log), f), rec[f].of)
    /\ at[f] = "asked" => Awaits(MainCards(LoadSession(log), f), rec[f].of)

(* A record that finds on the last card what its writer left there. *)
Fits(V, r) ==
  \A f \in Files : About(r, f) =>
    /\ r.kind \in Answer => Awaits(MainCards(V, f), r.of) /\ r.of # 0
    /\ r.kind = "tool_call" => Faces(MainCards(V, f), r.of)

(* A part of the log with one more record that fits is shown as well as before. *)
LEMMA ViewedOn ==
  ASSUME NEW file \in Seq(Record), NEW V, Viewed(file, V), NEW r \in Record, Fits(V, r),
         NEW new, new = Append(file, r), NEW W, W = Show(V, r)
  PROVE  Viewed(new, W)
<1>1. /\ new \in Seq(Record) /\ Len(new) = Len(file) + 1 /\ Len(file) \in Nat
      /\ DOMAIN file = 1..Len(file) /\ DOMAIN new = 1..Len(new)
      /\ \A k \in DOMAIN file : new[k] = file[k]
      /\ new[Len(file) + 1] = r
  <2>1. /\ new \in Seq(Record) /\ Len(new) = Len(file) + 1
        /\ \A k \in 1..Len(file) : new[k] = file[k]
        /\ new[Len(file) + 1] = r
    BY AppendProperties
  <2> QED
    BY <2>1, LenProperties
<1>2. DOMAIN new = DOMAIN file \cup {Len(file) + 1}
  BY <1>1
<1>3. /\ V \in View
      /\ V.started <=> \E k \in DOMAIN file : file[k].kind = "session_start"
      /\ (\A k \in DOMAIN file : file[k].kind # "session_end") => V.summary = NotEnded
  BY DEF Viewed
<1>4. /\ W \in View
      /\ W.started <=> (V.started \/ r.kind = "session_start")
      /\ W.summary = IF r.kind = "session_end" THEN r.summary ELSE V.summary
      /\ \A f \in Files : ~About(r, f) => W.cards[<<f, Main>>] = V.cards[<<f, Main>>]
  BY <1>3, ShownOn
<1>5. W.started <=> \E k \in DOMAIN new : new[k].kind = "session_start"
  <2>1. (\E k \in DOMAIN new : new[k].kind = "session_start") <=>
          (\E k \in DOMAIN file : file[k].kind = "session_start") \/ r.kind = "session_start"
    BY <1>1, <1>2
  <2> QED
    BY <1>3, <1>4, <2>1, Zenon
<1>6. (\A k \in DOMAIN new : new[k].kind # "session_end") => W.summary = NotEnded
  BY <1>1, <1>2, <1>3, <1>4
<1>7. ASSUME NEW f \in Files
      PROVE  AllOwn(MainCards(W, f)) /\ AllShown(new, f, MainCards(W, f))
  <2> DEFINE cards == V.cards[<<f, Main>>]
             next  == W.cards[<<f, Main>>]
  <2>1. AllOwn(cards) /\ AllShown(file, f, cards)
    BY DEF Viewed, MainCards
  <2>2. /\ AllOwn(next)
        /\ \A of \in Nat \ {0} : Shows(cards, of) => Shows(next, of)
        /\ About(r, f) /\ r.kind \in Answer => Shows(next, r.of) /\ r.of \in Nat \ {0}
    <3>1. CASE About(r, f)
      <4>1. r.kind \in Answer => r.of \in Nat \ {0}
        BY <3>1 DEF Fits, Record, Answer
      <4>2. /\ r.kind \in Answer => Awaits(cards, r.of) /\ r.of # 0
            /\ r.kind = "tool_call" => Faces(cards, r.of)
        BY <3>1 DEF Fits, MainCards
      <4>3. /\ AllOwn(next)
            /\ \A of \in Nat \ {0} : Shows(cards, of) => Shows(next, of)
            /\ r.kind \in Answer => Shows(next, r.of)
        <5> HIDE DEF cards
        <5>1. cards = V.cards[<<f, Main>>]
          BY DEF cards
        <5>2. V \in View /\ AllOwn(cards)
          BY <1>3, <2>1
        <5> QED
          BY <3>1, <4>2, <5>1, <5>2, MainShown
      <4> QED
        BY <4>1, <4>3
    <3>2. CASE ~About(r, f)
      BY <1>4, <2>1, <3>2
    <3> QED
      BY <3>1, <3>2
  <2> HIDE DEF cards, next
  <2>3. AllShown(new, f, next)
    <3> SUFFICES ASSUME NEW k \in DOMAIN new, About(new[k], f), new[k].kind \in Answer
                 PROVE  new[k].of \in Nat \ {0} /\ Shows(next, new[k].of)
      BY DEF AllShown
    <3>1. CASE k \in DOMAIN file
      <4>1. new[k] = file[k]
        BY <1>1, <3>1
      <4>2. new[k].of \in Nat \ {0} /\ Shows(cards, new[k].of)
        BY <2>1, <3>1, <4>1 DEF AllShown
      <4> QED
        BY <2>2, <4>2
    <3>2. CASE k = Len(file) + 1
      BY <1>1, <2>2, <3>2
    <3> QED
      BY <1>2, <3>1, <3>2
  <2> QED
    BY <2>2, <2>3 DEF next, MainCards
<1> QED
  BY <1>4, <1>5, <1>6, <1>7 DEF Viewed

(* So is the empty file. *)
LEMMA NothingViewed == Viewed(<<>>, EmptyView)
<1>1. EmptyView \in View
  <2>1. NotEnded \in Summaries
    BY DEF NotEnded, Summaries
  <2>2. [ft \in Files \X Types |-> <<>>] \in [Files \X Types -> Seq(Card)]
    OBVIOUS
  <2> QED
    BY <2>1, <2>2 DEF EmptyView, View
<1>2. ~EmptyView.started /\ EmptyView.summary = NotEnded
  BY DEF EmptyView
<1>3. ASSUME NEW f \in Files PROVE MainCards(EmptyView, f) = <<>>
  <2>1. <<f, Main>> \in Files \X Types
    BY SessionAssumption
  <2> QED
    BY <2>1 DEF EmptyView, MainCards
<1>4. \A f \in Files : AllOwn(MainCards(EmptyView, f))
                       /\ AllShown(<<>>, f, MainCards(EmptyView, f))
  BY <1>3 DEF AllOwn, AllShown
<1> QED
  BY <1>1, <1>2, <1>4 DEF Viewed

(* Goroutines keep to their requests. *)
LEMMA AsksStep ==
  ASSUME Domains, Working, Asks, [Next]_vars
  PROVE  Asks'
<1>1. ASSUME NEW g \in Goroutines, OneStep(g), at'[g] # "idle"
      PROVE  /\ rec'[g].type = Main => g \in Files /\ rec'[g].file = g
             /\ at'[g] = "asked" => rec'[g].of # 0
  <2>1. CASE GetOrCreateFileSession(g)
    <3>1. PICK file \in Files, type \in Types :
            /\ MayAsk(g, file, type)
            /\ rec' = [rec EXCEPT ![g] = [NoRecord EXCEPT !.file = file, !.type = type]]
      BY <2>1 DEF GetOrCreateFileSession
    <3>2. rec'[g].file = file /\ rec'[g].type = type
      BY <3>1 DEF NoRecord, Domains
    <3>3. type = Main => g \in Files /\ file = g
      BY <3>1 DEF MayAsk, Main, Compression, ReLocation
    <3>4. at'[g] = "got"
      BY <2>1 DEF GetOrCreateFileSession, Domains
    <3> QED
      BY <3>2, <3>3, <3>4
  <2>2. at[g] # "idle" => (rec[g].type = Main => g \in Files /\ rec[g].file = g)
    BY DEF Asks
  <2>3. CASE AppendTaskRecord(g)
    <3>1. /\ at[g] # "idle"
          /\ rec' = [rec EXCEPT ![g].no = NextNumber(rec[g].file, rec[g].type), ![g].of = NextUUID]
      BY <2>3 DEF AppendTaskRecord
    <3>2. rec'[g].file = rec[g].file /\ rec'[g].type = rec[g].type /\ rec'[g].of = NextUUID
      BY <3>1 DEF Domains, TaskRecord
    <3>3. NextUUID # 0
      BY LogIndices DEF NextUUID
    <3> QED
      BY <2>2, <3>1, <3>2, <3>3
  <2>4. CASE SetResponse(g)
    <3>1. PICK calls :
            /\ rec' = [rec EXCEPT ![g].calls = calls]
            /\ at' = [at EXCEPT ![g] = IF calls = <<>> THEN "idle" ELSE "tools"]
      BY <2>4 DEF SetResponse
    <3>2. /\ at[g] # "idle" /\ at'[g] # "asked"
          /\ rec'[g].file = rec[g].file /\ rec'[g].type = rec[g].type
      BY <2>4, <3>1 DEF SetResponse, Domains, TaskRecord
    <3> QED
      BY <2>2, <3>2
  <2>5. CASE SetError(g) \/ CountFailure(g)
    BY <1>1, <2>2, <2>5 DEF SetError, CountFailure, Domains
  <2>6. CASE ExecuteToolCall(g)
    <3>1. /\ rec' = [rec EXCEPT ![g].calls = Tail(@), ![g].pos = @ + 1]
          /\ at[g] # "idle" /\ at'[g] # "asked"
      BY <2>6 DEF ExecuteToolCall, Domains
    <3>2. rec'[g].file = rec[g].file /\ rec'[g].type = rec[g].type
      BY <3>1 DEF Domains, TaskRecord
    <3> QED
      BY <2>2, <3>1, <3>2
  <2> QED
    BY <1>1, <2>1, <2>3, <2>4, <2>5, <2>6 DEF OneStep
<1>2. CASE \E g \in Goroutines : OneStep(g)
  <2>1. PICK g \in Goroutines : OneStep(g)
    BY <1>2
  <2>2. ASSUME NEW h \in Goroutines \ {g}, at'[h] # "idle"
        PROVE  /\ rec'[h].type = Main => h \in Files /\ rec'[h].file = h
               /\ at'[h] = "asked" => rec'[h].of # 0
    BY <2>1, <2>2, OthersStay DEF Asks
  <2> QED
    BY <1>1, <2>1, <2>2 DEF Asks
<1>3. CASE ~\E g \in Goroutines : OneStep(g)
  <2>1. UNCHANGED <<at, rec>>
    BY <1>3 DEF Next, OneStep, Finalize, WriteSessionEnd, vars
  <2> QED
    BY <2>1 DEF Asks
<1> QED
  BY <1>2, <1>3

(* A record written leaves every part of the log before it alone. *)
LEMMA LogAppended ==
  ASSUME Domains, NEW record, Logged(record)
  PROVE  /\ log' = Append(log, record) /\ record \in Record
         /\ \A k \in 0..Len(log) : SubSeq(log', 1, k) = SubSeq(log, 1, k)
<1>1. /\ log \in Seq(Record) /\ log' \in Seq(Record) /\ record \in Record
      /\ Len(log) \in Nat /\ DOMAIN log = 1..Len(log)
      /\ Len(log') = Len(log) + 1
      /\ \A k \in DOMAIN log : log'[k] = log[k]
      /\ log'[Len(log) + 1] = record
  BY LogIndices DEF Logged, Domains
<1> DEFINE s == Append(log, record)
<1>2. /\ s \in Seq(Record) /\ Len(s) = Len(log) + 1
      /\ \A k \in 1..Len(log) : s[k] = log[k]
      /\ s[Len(log) + 1] = record
  BY <1>1, AppendProperties
<1> HIDE DEF s
<1>3. \A k \in 1..Len(log') : log'[k] = s[k]
  BY <1>1, <1>2
<1>4. log' = s
  BY <1>1, <1>2, <1>3, SeqEqual
<1>5. ASSUME NEW k \in 0..Len(log) PROVE SubSeq(log', 1, k) = SubSeq(log, 1, k)
  <2>1. \A i \in 1..k : log[i] \in Record /\ log'[i] \in Record /\ log'[i] = log[i]
    BY <1>1, ElementOfSeq
  <2> DEFINE a == SubSeq(log, 1, k)
             b == SubSeq(log', 1, k)
  <2>2. /\ a \in Seq(Record) /\ Len(a) = k
        /\ \A i \in 1..k : a[i] = log[i]
    BY <1>1, <2>1, SubSeqProperties
  <2>3. /\ b \in Seq(Record) /\ Len(b) = k
        /\ \A i \in 1..k : b[i] = log'[i]
    BY <1>1, <2>1, SubSeqProperties
  <2> HIDE DEF a, b
  <2>4. b = a
    BY <2>1, <2>2, <2>3, SeqEqual
  <2> QED
    BY <2>4 DEF a, b
<1> QED
  BY <1>1, <1>4, <1>5 DEF s

(* The log is the longest of its parts. *)
LEMMA WholeLog ==
  ASSUME Domains
  PROVE  SubSeq(log, 1, Len(log)) = log /\ Len(log) \in 0..Len(log)
<1>1. log \in Seq(Record) /\ Len(log) \in Nat
  BY LogIndices DEF Domains
<1> QED
  BY <1>1, SubSeqFull

(* Every record fits what the viewer makes of the log before it. *)
LEMMA RecordFits ==
  ASSUME Domains, Chain, Working, Asks, Facing, [Next]_vars, persist
  PROVE  log' = log \/ (Logged(log'[Len(log) + 1]) /\ Fits(LoadSession(log), log'[Len(log) + 1]))
<1> DEFINE r == log'[Len(log) + 1]
           V == LoadSession(log)
<1>1. ASSUME NEW g \in Goroutines, NEW kind \in Between, Wrote(kind), at[g] # "idle",
             r.file = rec[g].file, r.type = rec[g].type,
             kind \in Answer => at[g] = "asked" /\ r.of = rec[g].of,
             kind = "tool_call" => at[g] = "tools" /\ r.of = rec[g].of
      PROVE  Logged(r) /\ Fits(V, r)
  <2>1. Logged(r) /\ r.kind = kind
    BY <1>1 DEF Wrote
  <2> HIDE DEF r, V
  <2>2. ASSUME NEW f \in Files, About(r, f)
        PROVE  /\ r.kind \in Answer => Awaits(MainCards(V, f), r.of) /\ r.of # 0
               /\ r.kind = "tool_call" => Faces(MainCards(V, f), r.of)
    <3>1. rec[g].type = Main /\ g = f
      BY <1>1, <2>2 DEF About, Asks
    <3> QED
      BY <1>1, <2>1, <3>1 DEF Facing, Asks, V
  <2> QED
    BY <2>1, <2>2 DEF Fits
<1>2. CASE Wrote("session_end")
  <2>1. Logged(r) /\ r.kind = "session_end"
    BY <1>2 DEF Wrote
  <2> QED
    BY <2>1 DEF Fits, About, Between
<1>3. ASSUME NEW g \in Goroutines, OneStep(g)
      PROVE  log' = log \/ (Logged(r) /\ Fits(V, r))
  <2> HIDE DEF V
  <2>1. CASE GetOrCreateFileSession(g) \/ CountFailure(g)
    BY <2>1 DEF GetOrCreateFileSession, CountFailure
  <2>2. CASE AppendTaskRecord(g)
    <3>1. at[g] # "idle" /\ "llm_request" \in Between \ Answer
      BY <2>2 DEF AppendTaskRecord, Between, Answer
    <3> QED
      BY <1>1, <2>2, <3>1, RequestWritten DEF WroteFor
  <2>3. CASE SetResponse(g)
    <3>1. at[g] = "asked" /\ "llm_response" \in Between
      BY <2>3 DEF SetResponse, Between
    <3> QED
      BY <1>1, <2>3, <3>1, ResponseWritten DEF WroteFor
  <2>4. CASE SetError(g)
    <3>1. at[g] = "asked" /\ "llm_error" \in Between
      BY <2>4 DEF SetError, Between
    <3> QED
      BY <1>1, <2>4, <3>1, ErrorWritten DEF WroteFor
  <2>5. CASE ExecuteToolCall(g)
    <3>1. at[g] = "tools" /\ "tool_call" \in Between \ Answer
      BY <2>5 DEF ExecuteToolCall, Between, Answer
    <3> QED
      BY <1>1, <2>5, <3>1, ToolCallWritten DEF WroteFor
  <2> QED
    BY <1>3, <2>1, <2>2, <2>3, <2>4, <2>5 DEF OneStep
<1>4. CASE WriteSessionEnd
  BY <1>2, <1>4, EndWritten
<1>5. CASE Finalize \/ UNCHANGED vars
  BY <1>5 DEF Finalize, vars
<1> QED
  BY <1>3, <1>4, <1>5 DEF Next, OneStep

LEMMA AllViewedStep ==
  ASSUME Domains, Chain, Working, Asks, AllViewed, Facing, [Next]_vars
  PROVE  AllViewed'
<1>1. CASE log' = log
  BY <1>1 DEF AllViewed
<1>2. CASE log' # log
  <2> DEFINE r == log'[Len(log) + 1]
  <2>1. persist
    <3>1. persist' = persist
      BY DEF Next, vars, GetOrCreateFileSession, AppendTaskRecord, SetResponse, SetError,
             CountFailure, ExecuteToolCall, Finalize, WriteSessionEnd
    <3>2. Domains'
      BY DomainsStep
    <3> QED
      BY <1>2, <3>1, <3>2 DEF Domains
  <2>2. Logged(r) /\ Fits(LoadSession(log), r)
    BY <1>2, <2>1, RecordFits
  <2> HIDE DEF r
  <2>3. /\ log' = Append(log, r) /\ r \in Record /\ log \in Seq(Record) /\ Len(log) \in Nat
        /\ Len(log') = Len(log) + 1 /\ log' \in Seq(Record)
        /\ \A k \in 0..Len(log) : SubSeq(log', 1, k) = SubSeq(log, 1, k)
    BY <2>2, LogAppended, LogIndices DEF Domains, Logged
  <2>4. Viewed(log, LoadSession(log))
    BY WholeLog DEF AllViewed
  <2>5. LoadSession(log') = Show(LoadSession(log), r)
    BY <2>3, ReadOn
  <2>6. Viewed(log', LoadSession(log'))
    BY <2>2, <2>3, <2>4, <2>5, ViewedOn
  <2>7. SubSeq(log', 1, Len(log) + 1) = log'
    BY <2>3, SubSeqFull
  <2>8. \A k \in 0..Len(log) : Viewed(SubSeq(log', 1, k), LoadSession(SubSeq(log', 1, k)))
    BY <2>3 DEF AllViewed
  <2>9. 0..Len(log') = 0..Len(log) \cup {Len(log) + 1}
    BY <2>3
  <2> QED
    BY <2>6, <2>7, <2>8, <2>9 DEF AllViewed
<1> QED
  BY <1>1, <1>2

LEMMA FacingStep ==
  ASSUME Domains, Chain, Working, Asks, AllViewed, Facing, [Next]_vars
  PROVE  Facing'
<1> SUFFICES ASSUME NEW f \in Files, persist', at'[f] \in {"asked", "tools"},
                    rec'[f].type = Main
             PROVE  /\ Faces(MainCards(LoadSession(log'), f), rec'[f].of)
                    /\ at'[f] = "asked" => Awaits(MainCards(LoadSession(log'), f), rec'[f].of)
  BY DEF Facing
<1> DEFINE r == log'[Len(log) + 1]
           V == LoadSession(log)
           W == LoadSession(log')
<1>0. persist /\ f \in Goroutines
  BY DEF Goroutines, Next, vars, GetOrCreateFileSession, AppendTaskRecord, SetResponse, SetError,
         CountFailure, ExecuteToolCall, Finalize, WriteSessionEnd
<1>1. V \in View /\ AllOwn(MainCards(V, f))
  BY WholeLog DEF AllViewed, Viewed
<1>2. CASE log' = log /\ at'[f] = at[f] /\ rec'[f].type = rec[f].type /\ rec'[f].of = rec[f].of
  BY <1>0, <1>2 DEF Facing
<1>3. ASSUME Logged(r), Fits(V, r)
      PROVE  /\ r \in Record /\ W = Show(V, r)
             /\ ~About(r, f) => MainCards(W, f) = MainCards(V, f)
             /\ About(r, f) => /\ Faces(MainCards(W, f), r.of)
                               /\ r.kind = "llm_request" => Awaits(MainCards(W, f), r.of)
  <2> HIDE DEF V, W, r
  <2>1. log' = Append(log, r) /\ r \in Record /\ log \in Seq(Record)
    BY <1>3, LogAppended DEF Domains
  <2>2. W = Show(V, r)
    BY <2>1, ReadOn DEF V, W
  <2>3. ~About(r, f) => MainCards(W, f) = MainCards(V, f)
    BY <1>1, <2>1, <2>2, ShownOn DEF MainCards
  <2>4. ASSUME About(r, f)
        PROVE  /\ Faces(MainCards(W, f), r.of)
               /\ r.kind = "llm_request" => Awaits(MainCards(W, f), r.of)
    <3> DEFINE cards == V.cards[<<f, Main>>]
               next  == W.cards[<<f, Main>>]
    <3>1. /\ r.kind \in Answer => Awaits(cards, r.of) /\ r.of # 0
          /\ r.kind = "tool_call" => Faces(cards, r.of)
          /\ AllOwn(cards)
      BY <1>1, <1>3, <2>4 DEF Fits, MainCards
    <3> HIDE DEF cards
    <3>2. cards = V.cards[<<f, Main>>]
      BY DEF cards
    <3>3. Faces(next, r.of) /\ (r.kind = "llm_request" => Awaits(next, r.of))
      BY <1>1, <2>1, <2>2, <2>4, <3>1, <3>2, MainShown
    <3> QED
      BY <3>3 DEF MainCards
  <2> QED
    BY <2>1, <2>2, <2>3, <2>4
<1>4. ASSUME at'[f] = at[f], rec'[f] = rec[f], Logged(r), Fits(V, r), ~About(r, f)
      PROVE  /\ Faces(MainCards(W, f), rec'[f].of)
             /\ at'[f] = "asked" => Awaits(MainCards(W, f), rec'[f].of)
  <2>1. MainCards(W, f) = MainCards(V, f)
    BY <1>3, <1>4
  <2>2. /\ Faces(MainCards(V, f), rec[f].of)
        /\ at[f] = "asked" => Awaits(MainCards(V, f), rec[f].of)
    BY <1>0, <1>4 DEF Facing
  <2> QED
    BY <1>4, <2>1, <2>2
<1>5. CASE OneStep(f)
  <2>1. at'[f] \notin {"got", "failed", "idle"}
    OBVIOUS
  <2>2. CASE AppendTaskRecord(f)
    <3>1. /\ at[f] = "got" /\ at'[f] = "asked"
          /\ rec'[f].file = rec[f].file /\ rec'[f].type = rec[f].type
          /\ rec'[f].of = Len(log) + 1
      BY <1>0, <2>2 DEF AppendTaskRecord, NextUUID, Domains, TaskRecord
    <3>2. Wrote("llm_request") /\ r.file = rec[f].file /\ r.type = rec[f].type
          /\ r.of = Len(log) + 1
      BY <1>0, <2>2, RequestWritten DEF WroteFor
    <3>3. Logged(r) /\ r.kind = "llm_request"
      BY <3>2 DEF Wrote
    <3>4. Fits(V, r)
      BY <3>3 DEF Fits, Answer
    <3>5. About(r, f)
      BY <1>0, <3>1, <3>2, <3>3 DEF About, Between, Asks
    <3> QED
      BY <1>3, <3>1, <3>2, <3>3, <3>4, <3>5
  <2>3. CASE SetResponse(f)
    <3>1. PICK calls :
            /\ rec' = [rec EXCEPT ![f].calls = calls]
            /\ at' = [at EXCEPT ![f] = IF calls = <<>> THEN "idle" ELSE "tools"]
      BY <2>3 DEF SetResponse
    <3>2. /\ at[f] = "asked" /\ at'[f] = "tools"
          /\ rec'[f].file = rec[f].file /\ rec'[f].type = rec[f].type
          /\ rec'[f].of = rec[f].of
      BY <1>0, <2>3, <3>1 DEF SetResponse, Domains, TaskRecord
    <3>3. Wrote("llm_response") /\ r.file = rec[f].file /\ r.type = rec[f].type
          /\ r.of = rec[f].of
      BY <1>0, <2>3, ResponseWritten DEF WroteFor
    <3>4. Logged(r) /\ r.kind = "llm_response"
      BY <3>3 DEF Wrote
    <3>5. Fits(V, r)
      <4>1. Len(log) + 1 \in DOMAIN log' /\ Len(log) + 1 \notin DOMAIN log
        BY <3>4 DEF Logged
      <4> QED
        BY <1>0, <4>1, RecordFits
    <3>6. About(r, f)
      BY <1>0, <3>2, <3>3, <3>4 DEF About, Between, Asks
    <3> QED
      BY <1>3, <3>2, <3>3, <3>4, <3>5, <3>6
  <2>4. CASE ExecuteToolCall(f)
    <3>1. /\ at[f] = "tools"
          /\ rec' = [rec EXCEPT ![f].calls = Tail(@), ![f].pos = @ + 1]
      BY <2>4 DEF ExecuteToolCall
    <3>2. /\ at'[f] = "tools"
          /\ rec'[f].file = rec[f].file /\ rec'[f].type = rec[f].type
          /\ rec'[f].of = rec[f].of
      BY <1>0, <2>4, <3>1 DEF ExecuteToolCall, Domains, TaskRecord
    <3>3. CASE log' = log
      BY <1>2, <3>1, <3>2, <3>3
    <3>4. CASE log' # log
      <4>1. Wrote("tool_call") /\ r.file = rec[f].file /\ r.type = rec[f].type
            /\ r.of = rec[f].of
        BY <1>0, <2>4, <3>4, ToolCallWritten DEF WroteFor
      <4>2. Logged(r) /\ r.kind = "tool_call"
        BY <4>1 DEF Wrote
      <4>3. Fits(V, r)
        BY <1>0, <3>4, RecordFits
      <4>4. About(r, f)
        BY <1>0, <3>1, <3>2, <4>1, <4>2 DEF About, Between, Asks
      <4> QED
        BY <1>3, <3>2, <4>1, <4>2, <4>3, <4>4
    <3> QED
      BY <3>3, <3>4
  <2>5. CASE GetOrCreateFileSession(f) \/ SetError(f) \/ CountFailure(f)
    <3>1. at'[f] \in {"got", "failed", "idle"}
      BY <1>0, <2>5 DEF GetOrCreateFileSession, SetError, CountFailure, Domains
    <3> QED
      BY <2>1, <3>1
  <2> QED
    BY <1>5, <2>2, <2>3, <2>4, <2>5 DEF OneStep
<1>6. CASE ~OneStep(f)
  <2>1. at'[f] = at[f] /\ rec'[f] = rec[f]
    <3>1. CASE \E g \in Goroutines : OneStep(g)
      BY <1>0, <1>6, <3>1, OthersStay
    <3>2. CASE ~\E g \in Goroutines : OneStep(g)
      BY <3>2 DEF Next, OneStep, Finalize, WriteSessionEnd, vars
    <3> QED
      BY <3>1, <3>2
  <2>2. CASE log' = log
    BY <1>2, <2>1, <2>2
  <2>3. CASE log' # log
    <3>1. Logged(r) /\ Fits(V, r)
      BY <1>0, <2>3, RecordFits
    <3>2. ~About(r, f)
      <4>1. CASE Wrote("session_end")
        BY <4>1 DEF Wrote, About, Between
      <4>2. ASSUME NEW g \in Goroutines, at[g] # "idle", OneStep(g),
                   r.file = rec[g].file, r.type = rec[g].type
            PROVE  ~About(r, f)
        BY <1>6, <4>2 DEF About, Asks
      <4> QED
        BY <2>3, <4>1, <4>2, LogSteps
    <3> QED
      BY <1>4, <2>1, <3>1, <3>2
  <2> QED
    BY <2>2, <2>3
<1> QED
  BY <1>5, <1>6
------------------------------------------------------------------------------
(* The viewer and the session file. *)

(* The invariant of the log and, on top of it, of what is shown. *)
VInv == IInv /\ Asks /\ AllViewed /\ Facing

LEMMA ViewsInit == Init => Asks /\ AllViewed /\ Facing
<1> SUFFICES ASSUME Init PROVE Asks /\ AllViewed /\ Facing
  OBVIOUS
<1>1. \A g \in Goroutines : at[g] = "idle"
  BY DEF Init
<1>2. Files \subseteq Goroutines
  BY DEF Goroutines
<1>3. Asks /\ Facing
  BY <1>1, <1>2 DEF Asks, Facing
<1>4. Domains
  BY DomainsInit
<1>5. SubSeq(log, 1, 0) = <<>>
  <2>1. log \in Seq(Record)
    BY <1>4 DEF Domains
  <2> QED
    BY <2>1, SubSeqEmpty
<1>6. Viewed(SubSeq(log, 1, 0), LoadSession(SubSeq(log, 1, 0)))
  BY <1>5, NothingRead, NothingViewed
<1>7. CASE log = <<>>
  <2>1. 0..Len(log) = {0}
    BY <1>7
  <2> QED
    BY <1>3, <1>6, <2>1 DEF AllViewed
<1>8. CASE log # <<>>
  <2> DEFINE r == [kind |-> "session_start", uuid |-> 1, parent |-> 0]
  <2>1. log = <<r>>
    BY <1>8 DEF Init, New
  <2>2. r \in Record /\ r.kind = "session_start"
    BY DEF Record
  <2> HIDE DEF r
  <2>3. Fits(EmptyView, r)
    BY <2>2 DEF Fits, About, Between
  <2>4. <<>> \in Seq(Record) /\ log = Append(<<>>, r) /\ 0..Len(log) = {0, 1}
    BY <2>1
  <2>5. LoadSession(log) = Show(EmptyView, r)
    BY <2>2, <2>4, NothingRead, ReadOn
  <2>6. Viewed(log, LoadSession(log))
    BY <2>2, <2>3, <2>4, <2>5, NothingViewed, ViewedOn
  <2>7. SubSeq(log, 1, 1) = log
    <3>1. Len(log) = 1
      BY <2>1
    <3> QED
      BY <1>4, <3>1, WholeLog
  <2> QED
    BY <1>3, <1>6, <2>4, <2>6, <2>7 DEF AllViewed
<1> QED
  BY <1>7, <1>8

(* One more line, cut short by a crash. *)
CutShort(part, file) == file = Append(part, Torn)

(* The first k records. *)
Part(k) == SubSeq(log, 1, k)

(* What may be on disk: a part of the log from its start, with no end of the session or
   just up to it, and perhaps a line cut short. *)
LEMMA DiskFiles ==
  ASSUME IInv, NEW file \in OnDisk
  PROVE  \E k \in 0..Len(log) :
           \/ /\ file = Part(k) \/ CutShort(Part(k), file)
              /\ \A l \in 1..k : log[l].kind # "session_end"
           \/ /\ file = Part(k) /\ k # 0 /\ log[k].kind = "session_end"
<1>0. /\ log \in Seq(Record) /\ Len(log) \in Nat /\ DOMAIN log = 1..Len(log)
      /\ ~persist => log = <<>>
  BY LogIndices DEF IInv, Domains
<1>1. CASE persist /\ run = "ended"
  <2>1. PICK e \in DOMAIN log : Whole(e)
    BY <1>1 DEF IInv, Closed
  <2>2. (CHOOSE k \in DOMAIN log : log[k].kind = "session_end") = e
    BY <2>1 DEF Whole
  <2>3. file = Part(e)
    BY <1>1, <2>2 DEF OnDisk, Part
  <2>4. log[e].kind = "session_end" /\ e # 0 /\ e \in 0..Len(log)
    BY <1>0, <2>1 DEF Whole
  <2> QED
    BY <2>3, <2>4
<1>2. CASE ~(persist /\ run = "ended")
  <2>1. file \in FilePrefixes
    BY <1>2 DEF OnDisk
  <2>2. \A l \in DOMAIN log : log[l].kind # "session_end"
    BY <1>0, <1>2 DEF IInv, Closed
  <2>3. ASSUME NEW k \in 0..Len(log) PROVE \A l \in 1..k : log[l].kind # "session_end"
    BY <1>0, <2>2
  <2>4. ASSUME NEW k \in 0..Len(log), file = Part(k) \o <<Torn>> PROVE CutShort(Part(k), file)
    <3> DEFINE S == Record \cup {Torn}
    <3>1. \A i \in 1..k : log[i] \in S
      BY <1>0, ElementOfSeq
    <3>2. Torn \in S
      OBVIOUS
    <3> HIDE DEF S
    <3>3. Part(k) \in Seq(S)
      BY <1>0, <3>1, SubSeqProperties DEF Part
    <3>4. Append(Part(k), Torn) = Part(k) \o <<Torn>>
      BY <3>2, <3>3, AppendIsConcat
    <3> QED
      BY <2>4, <3>4, Zenon DEF CutShort
  <2>5. CASE \E k \in 0..Len(log) : file = Part(k)
    BY <2>3, <2>5
  <2>6. CASE \E k \in 0..(Len(log) - 1) : file = Part(k) \o <<Torn>>
    <3>1. PICK k \in 0..(Len(log) - 1) : file = Part(k) \o <<Torn>>
      BY <2>6
    <3>2. k \in 0..Len(log)
      BY <1>0
    <3> QED
      BY <2>3, <2>4, <3>1, <3>2, Zenon
  <2> QED
    BY <2>1, <2>5, <2>6, Zenon DEF FilePrefixes, Part
<1> QED
  BY <1>1, <1>2

(* The part of the log, record by record. *)
LEMMA PartRead ==
  ASSUME Domains, AllViewed, NEW k \in 0..Len(log), NEW part, part = Part(k)
  PROVE  /\ part \in Seq(Record) /\ Len(part) = k /\ DOMAIN part = 1..k
         /\ \A l \in 1..k : part[l] = log[l]
         /\ Viewed(part, LoadSession(part))
<1>1. log \in Seq(Record) /\ Len(log) \in Nat
  BY LogIndices DEF Domains
<1>2. \A i \in 1..k : log[i] \in Record
  BY <1>1, ElementOfSeq
<1>3. part \in Seq(Record) /\ Len(part) = k /\ \A l \in 1..k : part[l] = log[l]
  BY <1>1, <1>2, SubSeqProperties DEF Part
<1>4. DOMAIN part = 1..k
  BY <1>3, LenProperties
<1> QED
  BY <1>3, <1>4 DEF AllViewed, Part

(* A line cut short is skipped. *)
LEMMA TornSkipped ==
  ASSUME NEW part \in Seq(Record), NEW file, CutShort(part, file)
  PROVE  /\ LoadSession(file) = LoadSession(part)
         /\ DOMAIN file = DOMAIN part \cup {Len(part) + 1} /\ Len(part) + 1 \notin DOMAIN part
         /\ \A k \in DOMAIN part : file[k] = part[k]
         /\ file[Len(part) + 1].kind = "torn" /\ Last(file) = file[Len(part) + 1] /\ file # <<>>
<1> DEFINE S == Record \cup {Torn}
<1>1. part \in Seq(S) /\ Torn \in S
  BY SeqMonotonic
<1> HIDE DEF S
<1>2. /\ file \in Seq(S) /\ Len(file) = Len(part) + 1
      /\ \A k \in 1..Len(part) : file[k] = part[k]
      /\ file[Len(part) + 1] = Torn
  BY <1>1, AppendProperties DEF CutShort
<1>3. LoadSession(file) = Show(LoadSession(part), Torn)
  BY <1>1, ReadOn DEF CutShort
<1>4. Show(LoadSession(part), Torn) = LoadSession(part) /\ Torn.kind = "torn"
  BY DEF Show, Torn
<1>5. Len(part) \in Nat /\ DOMAIN part = 1..Len(part) /\ DOMAIN file = 1..Len(part) + 1
  BY <1>1, <1>2, LenProperties
<1>6. file # <<>>
  BY <1>2, <1>5, EmptySeq
<1> QED
  BY <1>2, <1>3, <1>4, <1>5, <1>6 DEF Last

(* What the invariant says of the parts of the log, for what may be on disk. *)
LEMMA OwnOnDisk ==
  ASSUME VInv
  PROVE  MainCardsTheirOwn
<1>1. SUFFICES ASSUME NEW file \in OnDisk, NEW f \in Files
      PROVE  LET cards == LoadSession(file).cards[<<f, Main>>] IN
             AllOwn(cards) /\ AllShown(file, f, cards)
  BY DEF MainCardsTheirOwn, AllOwn, OwnCard, AllShown, Shows, About, Between, Answer
<1>2. PICK k \in 0..Len(log) :
        file = Part(k) \/ CutShort(Part(k), file)
  BY DiskFiles DEF VInv
<1> DEFINE part == Part(k)
<1>3. part \in Seq(Record) /\ Viewed(part, LoadSession(part))
  BY PartRead DEF VInv, IInv
<1> HIDE DEF part
<1> DEFINE cards == LoadSession(part).cards[<<f, Main>>]
<1>4. AllOwn(cards) /\ AllShown(part, f, cards)
  BY <1>3 DEF Viewed, MainCards
<1>5. CASE file = part
  BY <1>4, <1>5
<1>6. CASE CutShort(part, file)
  <2>1. /\ LoadSession(file) = LoadSession(part)
        /\ DOMAIN file = DOMAIN part \cup {Len(part) + 1}
        /\ \A l \in DOMAIN part : file[l] = part[l]
        /\ file[Len(part) + 1].kind = "torn"
    BY <1>3, <1>6, TornSkipped
  <2> HIDE DEF cards
  <2>2. AllShown(file, f, cards)
    BY <1>4, <2>1 DEF AllShown, About, Between
  <2> QED
    BY <1>4, <2>1, <2>2 DEF cards
<1> QED
  BY <1>2, <1>5, <1>6 DEF part

(* The same for the two readers. *)
LEMMA AgreesOnDisk ==
  ASSUME VInv
  PROVE  PeekAgreesWithLoad
<1> SUFFICES ASSUME NEW file \in OnDisk, NEW view, view = LoadSession(file)
             PROVE  PeekSession(file) = [started |-> view.started, summary |-> view.summary]
  BY DEF PeekAgreesWithLoad
<1>0. Domains /\ AllViewed /\ IInv
  BY DEF VInv, IInv
<1>1. SUFFICES /\ view.started \in BOOLEAN
               /\ view.started <=> \E k \in DOMAIN file : file[k].kind = "session_start"
               /\ view.summary = IF file # <<>> /\ Last(file).kind = "session_end"
                                 THEN Last(file).summary ELSE NotEnded
  <2> DEFINE b == \E k \in DOMAIN file : file[k].kind = "session_start"
  <2>1. b \in BOOLEAN
    OBVIOUS
  <2> HIDE DEF b
  <2>2. b = view.started
    BY <1>1, <2>1 DEF b
  <2> QED
    BY <1>1, <2>2 DEF PeekSession, b
<1>2. PICK k \in 0..Len(log) :
        \/ /\ file = Part(k) \/ CutShort(Part(k), file)
           /\ \A l \in 1..k : log[l].kind # "session_end"
        \/ /\ file = Part(k) /\ k # 0 /\ log[k].kind = "session_end"
  BY <1>0, DiskFiles
<1> DEFINE part == Part(k)
<1>3. /\ part \in Seq(Record) /\ Len(part) = k /\ DOMAIN part = 1..k
      /\ \A l \in 1..k : part[l] = log[l]
      /\ Viewed(part, LoadSession(part))
  BY <1>0, PartRead
<1>4. /\ LoadSession(part) \in View
      /\ LoadSession(part).started <=> \E l \in DOMAIN part : part[l].kind = "session_start"
      /\ (\A l \in DOMAIN part : part[l].kind # "session_end") =>
           LoadSession(part).summary = NotEnded
  BY <1>3 DEF Viewed
<1>5. LoadSession(part).started \in BOOLEAN
  BY <1>4 DEF View
<1> HIDE DEF part
<1>6. k \in Nat /\ (part # <<>> => k \in DOMAIN part /\ Last(part) = part[k])
  <2>1. k \in Nat /\ (part # <<>> => k # 0)
    BY <1>0, <1>3, LogIndices, EmptySeq
  <2> QED
    BY <1>3, <2>1 DEF Last
<1>7. CASE file = part /\ \A l \in 1..k : log[l].kind # "session_end"
  <2>1. view.summary = NotEnded
    BY <1>3, <1>4, <1>7
  <2>2. ~(file # <<>> /\ Last(file).kind = "session_end")
    BY <1>3, <1>6, <1>7
  <2> QED
    BY <1>4, <1>5, <1>7, <2>1, <2>2
<1>8. CASE CutShort(part, file) /\ \A l \in 1..k : log[l].kind # "session_end"
  <2>1. /\ LoadSession(file) = LoadSession(part)
        /\ DOMAIN file = DOMAIN part \cup {Len(part) + 1} /\ Len(part) + 1 \notin DOMAIN part
        /\ \A l \in DOMAIN part : file[l] = part[l]
        /\ file[Len(part) + 1].kind = "torn" /\ Last(file) = file[Len(part) + 1] /\ file # <<>>
    BY <1>3, <1>8, TornSkipped
  <2>2. view.summary = NotEnded
    BY <1>3, <1>4, <1>8, <2>1
  <2>3. view.started <=> \E l \in DOMAIN file : file[l].kind = "session_start"
    BY <1>4, <2>1
  <2> QED
    BY <1>4, <1>5, <2>1, <2>2, <2>3
<1>9. CASE file = part /\ k # 0 /\ log[k].kind = "session_end"
  <2>1. k - 1 \in 0..Len(log) /\ k \in 1..k /\ k \in 1..Len(log) /\ log \in Seq(Record)
    BY <1>0, <1>6, <1>9, LogIndices DEF Domains
  <2> DEFINE before == Part(k - 1)
  <2>2. before \in Seq(Record) /\ LoadSession(before) \in View
    BY <1>0, <2>1, PartRead DEF Viewed
  <2>3. part = Append(before, log[k]) /\ log[k] \in Record
    <3>1. 1 \in 1..Len(log)
      BY <2>1
    <3>2. part = before \o <<log[k]>> /\ log[k] \in Record
      BY <2>1, <3>1, SubSeqRecursiveSecond, ElementOfSeq DEF part, Part
    <3> HIDE DEF before
    <3>3. Append(before, log[k]) = before \o <<log[k]>>
      BY <2>2, <3>2, AppendIsConcat
    <3> QED
      BY <3>2, <3>3
  <2> HIDE DEF before
  <2>4. LoadSession(part) = Show(LoadSession(before), log[k])
    BY <2>2, <2>3, ReadOn
  <2>5. LoadSession(part).summary = log[k].summary
    BY <1>9, <2>2, <2>3, <2>4, ShownOn
  <2>6. file # <<>> /\ Last(file) = log[k]
    <3>1. part # <<>>
      BY <1>3, <1>9, EmptySeq
    <3> QED
      BY <1>3, <1>6, <1>9, <2>1, <3>1
  <2> QED
    BY <1>4, <1>5, <1>9, <2>5, <2>6
<1> QED
  BY <1>2, <1>7, <1>8, <1>9 DEF part

(* What the viewer shows of any part of the log from its start holds in every reachable
   state, with what each goroutine at work will find on its last card (LoadSession,
   internal/viewer/store.go:270-445; AppendTaskRecord, history.go:171-188). *)
THEOREM Views == Spec => []VInv
<1>1. Init => VInv
  BY InvariantInit, ViewsInit DEF VInv
<1>2. VInv /\ [Next]_vars => VInv'
  BY InvariantStep, AsksStep, AllViewedStep, FacingStep DEF VInv, IInv
<1> QED
  BY <1>1, <1>2, PTL DEF Spec

(* Cards of main requests: own answers, own results and no answer lost, on every file a
   crash or a reader may find (store.go:331-445). A record is written for the request
   that a file's goroutine waits for, and the last card is of that request. *)
THEOREM OwnCards == Spec => []MainCardsTheirOwn
  BY Views, OwnOnDisk, PTL

(* The list of sessions and the page of one agree on every such file: a session_end is
   the last record that reaches it (peekSession, store.go:117-189). *)
THEOREM PeekAgrees == Spec => []PeekAgreesWithLoad
  BY Views, AgreesOnDisk, PTL
===============================================================================
