---------------------------- MODULE ReviewPromise ----------------------------
(***************************************************************************)
(* What one review run promises to its caller, without goroutines, pools   *)
(* or semaphores: every selected diff gets one verdict, comments found     *)
(* while a diff is pending can be dropped only by the verdict of the diff  *)
(* they are about, and the single answer is an error exactly when every    *)
(* selected diff failed, and otherwise everything found and not dropped.   *)
(* ReviewRun implements this module.                                       *)
(***************************************************************************)
CONSTANTS Diffs,    \* the parsed diffs of the run
          Comment   \* the possible review comments, records with a field path

VARIABLES verdict,  \* verdict[d]: "excluded", "pending", "ok", "skipped" or "failed"
          found,    \* comments the model reported through code_comment
          dropped,  \* comments a review filter removed
          answer    \* what Run returned, NoAnswer before it does

promiseVars == <<verdict, found, dropped, answer>>

NoAnswer    == [kind |-> "none", comments |-> {}]
Error       == [kind |-> "error", comments |-> {}]
Comments(C) == [kind |-> "comments", comments |-> C]

Selected == {d \in Diffs : verdict[d] # "excluded"}

Init ==
  /\ verdict \in [Diffs -> {"excluded", "pending"}]
  /\ found = {}
  /\ dropped = {}
  /\ answer = NoAnswer

(* The model reports new comments while reviewing d. *)
Find(d) ==
  /\ answer = NoAnswer
  /\ verdict[d] = "pending"
  /\ found' \in SUBSET Comment
  /\ found \subseteq found'
  /\ UNCHANGED <<verdict, dropped, answer>>

(* d gets its verdict v; only a completed review drops comments, and only
   comments about d that are not dropped yet. *)
Settle(d, v) ==
  /\ answer = NoAnswer
  /\ verdict[d] = "pending"
  /\ verdict' = [verdict EXCEPT ![d] = v]
  /\ dropped' \in SUBSET found
  /\ dropped \subseteq dropped'
  /\ \A c \in dropped' \ dropped : v = "ok" /\ c.path = d
  /\ UNCHANGED <<found, answer>>

(* The run gives up before any diff is reviewed. *)
Abort ==
  /\ answer = NoAnswer
  /\ \A d \in Selected : verdict[d] = "pending"
  /\ found = {}
  /\ answer' = Error
  /\ UNCHANGED <<verdict, found, dropped>>

(* Every selected diff has its verdict. *)
Answer ==
  /\ answer = NoAnswer
  /\ \A d \in Selected : verdict[d] # "pending"
  /\ answer' = IF Selected # {} /\ \A d \in Selected : verdict[d] = "failed"
                 THEN Error
                 ELSE Comments(found \ dropped)
  /\ UNCHANGED <<verdict, found, dropped>>

Next ==
  \/ \E d \in Diffs : Find(d)
  \/ \E d \in Diffs, v \in {"ok", "skipped", "failed"} : Settle(d, v)
  \/ Abort
  \/ Answer

Spec == Init /\ [][Next]_promiseVars
=============================================================================
