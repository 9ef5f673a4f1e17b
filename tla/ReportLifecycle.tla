-------------------------- MODULE ReportLifecycle ---------------------------
(***************************************************************************)
(* What the reports API promises about the status of a report, without     *)
(* jobs, workers or crashes: the life of a row of the reports table as a   *)
(* client that polls GET /reports/:id may observe it.  READY, FAILED and   *)
(* CANCELLED are final, a report that is being computed can be retried but *)
(* not cancelled.                                                          *)
(***************************************************************************)
EXTENDS Naturals

CONSTANTS Reports

VARIABLE status

Init == status = [r \in Reports |-> "ABSENT"]

Move(r, from, to) ==
  /\ status[r] \in from
  /\ status' = [status EXCEPT ![r] = to]

Submit(r)  == Move(r, {"ABSENT"}, "PENDING")
Start(r)   == Move(r, {"PENDING"}, "PROCESSING")
Deliver(r) == Move(r, {"PROCESSING"}, "READY")
GiveUp(r)  == Move(r, {"PROCESSING"}, "FAILED")
Withdraw(r) == Move(r, {"PENDING"}, "CANCELLED")

\* Back to PENDING: one report after a failed attempt, or any number of
\* orphans in one run of the recovery cron.
Retry ==
  \E R \in (SUBSET {r \in Reports : status[r] = "PROCESSING"}) \ {{}} :
    status' = [r \in Reports |-> IF r \in R THEN "PENDING" ELSE status[r]]

\* A delete that checked the status too early may still hit PROCESSING.
Remove(r) ==
  Move(r, {"PENDING", "PROCESSING", "READY", "FAILED", "CANCELLED"}, "DELETED")

Next ==
  \/ Retry
  \/ \E r \in Reports :
       \/ Submit(r) \/ Start(r) \/ Deliver(r) \/ GiveUp(r)
       \/ Withdraw(r) \/ Remove(r)

Spec == Init /\ [][Next]_status

=============================================================================
