--------------------------- MODULE EnsemblePromise ---------------------------
(***************************************************************************)
(* What the ensemble's scanning promises to dedup and the arbiter, without *)
(* goroutines, passes, the semaphore or the progress file: each scanner    *)
(* gets one status, when it has found all it finds; comments are thrown    *)
(* away only at the end of a scanner's search and only where that is       *)
(* harmless; and the one answer, once every scanner has its status, is a   *)
(* failure exactly when all of them are errors, and otherwise everything   *)
(* found. ScannerFanout implements this module.                            *)
(***************************************************************************)
CONSTANTS Scanners,
          Comment,   \* the comments a scanner can return
          Harmless   \* pairs <<found, more>>: more says nothing that found does not

VARIABLES status,    \* status[s]: "scanning", "ok", "partial" or "error"
          found,     \* found[s]: the comments of s that count
          discarded, \* discarded[s]: those thrown away
          answer     \* what Execute makes of it, NoAnswer before it does

promiseVars == <<status, found, discarded, answer>>

NoAnswer    == [kind |-> "none", comments |-> {}]
Failure     == [kind |-> "failure", comments |-> {}]
Comments(C) == [kind |-> "comments", comments |-> C]

Everything == UNION {{s} \X found[s] : s \in Scanners}

Init ==
  /\ status = [s \in Scanners |-> "scanning"]
  /\ found = [s \in Scanners |-> {}]
  /\ discarded = [s \in Scanners |-> {}]
  /\ answer = NoAnswer

Searching(s) == status[s] = "scanning" /\ discarded[s] = {} /\ answer = NoAnswer

(* A scanner reports more comments. *)
Find(s) ==
  /\ Searching(s)
  /\ found'[s] \in SUBSET Comment
  /\ found[s] \subseteq found'[s]
  /\ found' = [found EXCEPT ![s] = found'[s]]
  /\ UNCHANGED <<status, discarded, answer>>

(* Its last report is thrown away. *)
Discard(s) ==
  /\ Searching(s)
  /\ <<found[s], discarded'[s]>> \in Harmless
  /\ discarded' = [discarded EXCEPT ![s] = discarded'[s]]
  /\ UNCHANGED <<status, found, answer>>

(* The scanner is done: "partial" if an error came after findings, "error" if
   there was nothing but the error. *)
Settle(s, v) ==
  /\ status[s] = "scanning" /\ answer = NoAnswer
  /\ v = "partial" => found[s] # {} /\ discarded[s] = {}
  /\ v = "error" => found[s] = {} /\ discarded[s] = {}
  /\ status' = [status EXCEPT ![s] = v]
  /\ UNCHANGED <<found, discarded, answer>>

Answer ==
  /\ answer = NoAnswer
  /\ \A s \in Scanners : status[s] # "scanning"
  /\ answer' = IF \A s \in Scanners : status[s] = "error"
                 THEN Failure
                 ELSE Comments(Everything)
  /\ UNCHANGED <<status, found, discarded>>

Next ==
  \/ \E s \in Scanners : Find(s) \/ Discard(s)
  \/ \E s \in Scanners, v \in {"ok", "partial", "error"} : Settle(s, v)
  \/ Answer

Spec == Init /\ [][Next]_promiseVars
===============================================================================
