----------------------- MODULE ActionRequestLifecycle -----------------------
(***************************************************************************)
(* The status of an ActionRequest                                          *)
(* (packages/approval-core/src/action-request-lifecycle.ts): the table of  *)
(* allowed transitions and the fold of a domain event into the status.     *)
(* Spec is the abstract promise the event log has to keep.                 *)
(***************************************************************************)

Terminal == {"executed", "rejected", "cancelled", "expired", "authorization_revoked",
             "authorization_check_failed", "execution_failed", "execution_unknown", "failed"}

Statuses == {"evaluating", "pending_approval", "approved", "executing"} \cup Terminal

(* ACTION_REQUEST_TRANSITIONS: a terminal status has no successor. *)
Transitions(s) ==
    CASE s = "evaluating"       -> {"pending_approval", "approved", "failed"}
      [] s = "pending_approval" -> {"approved", "rejected", "cancelled", "expired", "failed"}
      [] s = "approved"         -> {"executing", "authorization_revoked",
                                    "authorization_check_failed", "failed"}
      [] s = "executing"        -> {"executed", "execution_failed", "execution_unknown", "failed"}
      [] s \in Terminal         -> {}

CanTransition(from, to) == from = to \/ to \in Transitions(from)

(* targetOf: the status an event points to, the current one if to none.     *)
(* action.received only matters as the first event of a request.            *)
TargetOf(e, current) ==
    CASE e.type = "approval.approved"           -> "approved"
      [] e.type \in {"action.reauthorized", "action.execution_started",
                     "action.execution_accepted"} -> "executing"
      [] e.type = "action.completed"            -> e.detail
      [] e.type = "workflow.failed"             -> "failed"
      [] OTHER                                  -> current

AppliedAlways(current, e) == TargetOf(e, current)                        \* mutant

(* applyActionRequestEvent: an illegal transition is ignored. *)
Applied(current, e) ==
    LET target == TargetOf(e, current)
    IN  IF CanTransition(current, target) THEN target ELSE current

(* foldActionRequestStatus: where the fold of a materialized plan starts. *)
StatusOfPlan(approvalRequired) == IF approvalRequired THEN "pending_approval" ELSE "approved"

VARIABLE status

Init == status \in {StatusOfPlan(required) : required \in BOOLEAN}

Next == status' \in Transitions(status)

Spec == Init /\ [][Next]_status
=============================================================================
