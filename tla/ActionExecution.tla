--------------------------- MODULE ActionExecution ---------------------------
(***************************************************************************)
(* The execution phase of an approved ActionRequest: runActionExecution    *)
(* (approval-runtime-cloudflare/src/action-execution.ts) reauthorizes,     *)
(* looks the executor up and calls it in durable steps; the Workflow then  *)
(* projects the result, or records that an async executor accepted the     *)
(* action and ends.  In that case the run's end is delivered, at least     *)
(* once and by several workers, to ActionExecutionCompletionService.       *)
(*                                                                         *)
(* An approved projection never changes again (ApprovalWorkflow's          *)
(* ProjectionNeverRegresses), so the approval binding is read as fixed.    *)
(***************************************************************************)
EXTENDS Naturals, FiniteSets, EventLog

CONSTANTS Kinds,          \* kinds of executor registered: subset of {"sync", "async"}
          Guarantees,     \* subset of {"idempotent", "best_effort_at_most_once"}
          ExecuteRetries, \* retries of "execute action" for an idempotent executor
          StepRetries,    \* retries of every other durable step
          Workers,        \* workers that deliver completions
          Strays,         \* completions another adapter may deliver: [ref, status]
          NoResult        \* action_results holds no row

ASSUME ExecutionBounds == ExecuteRetries \in Nat /\ StepRetries \in Nat
ASSUME ExecutorsAssumption ==
    Kinds \subseteq {"sync", "async"} /\ Guarantees \subseteq {"idempotent", "best_effort_at_most_once"}

VARIABLES
    executor,  \* [kind, guarantee]
    exec,      \* the Workflow instance
    service,   \* the downstream service behind the executor, external
    result,    \* action_results row
    async,     \* action_async_executions row; status "absent": no row
    call,      \* worker -> its call of the completion port
    cancel     \* requestCancel: "idle" or "audit"

vars == <<executor, exec, service, result, async, call, cancel, log>>

Idempotent == executor.guarantee = "idempotent"

RunOutcomes == {"executed", "execution_failed"}
Failures == {"authorization_revoked", "authorization_check_failed",
             "execution_failed", "execution_unknown"}

(* What a durable step answers: evidence, when reauthorized; keyed, when    *)
(* the result names the idempotency key of a call.                          *)
Nothing == [type |-> "none"]
Answer(type) == [type |-> type]
Terminal(status, evidence, keyed) ==
    [type |-> "completed", status |-> status, evidence |-> evidence, keyed |-> keyed]

-----------------------------------------------------------------------------
(* Domain events of the phase.                                              *)
NoStart(l, evidence, keyed) == l                                          \* mutant

(* actionExecutionStartEvents *)
Started(l, evidence, keyed) ==
    LET reauthorized == IF evidence THEN Insert(l, Whole("action.reauthorized", "none")) ELSE l
    IN  IF keyed THEN Insert(reauthorized, Whole("action.execution_started", "none"))
        ELSE reauthorized

(* actionExecutionOutcomeEvents *)
Outcome(l, o) ==
    LET denial == CASE ~o.evidence /\ o.status = "authorization_revoked" ->
                         Insert(l, Whole("action.reauthorization_denied", "none"))
                    [] ~o.evidence /\ o.status = "authorization_check_failed" ->
                         Insert(l, Whole("action.reauthorization_check_failed", "none"))
                    [] OTHER -> l
        started == Started(denial, o.evidence, o.keyed)
        failed == IF o.status \in {"execution_failed", "execution_unknown"}
                  THEN Insert(started, Whole("action.execution_failed", "none")) ELSE started
    IN  Insert(failed, Whole("action.completed", o.status))

Accepted(l) == Insert(Started(l, TRUE, TRUE), Whole("action.execution_accepted", "none"))

-----------------------------------------------------------------------------
Idle == [pc |-> "idle"]

Init ==
    /\ executor \in [kind: Kinds, guarantee: Guarantees]
    /\ exec = [pc |-> "reauthorize", stage |-> "body", attempt |-> 0, got |-> Nothing]
    /\ service = [calls |-> 0, handled |-> 0, effects |-> 0, answer |-> "none",
                  run |-> "none", delivered |-> FALSE]
    /\ result = NoResult
    /\ async = [status |-> "absent", completion |-> "none"]
    /\ call = [w \in Workers |-> Idle]
    /\ cancel = "idle"
    /\ log = EmptyLog(FALSE)

At(pc, stage) == exec.pc = pc /\ exec.stage = stage

Got(answer) == exec' = [exec EXCEPT !.stage = "done", !.got = answer]

-----------------------------------------------------------------------------
(* The durable steps of runActionExecution.                                 *)

(* The plan or the approval binding does not hold, the check fails for good,*)
(* denies, or authorizes.                                                   *)
RunReauthorize ==
    /\ At("reauthorize", "body")
    /\ \/ Got(Answer("failed"))
       \/ \E status \in {"authorization_check_failed", "authorization_revoked"} :
            Got(Terminal(status, FALSE, FALSE))
       \/ Got(Answer("authorized"))
    /\ UNCHANGED <<executor, service, result, async, call, cancel, log>>

(* No executor is configured or registered, the registry refuses for good,  *)
(* or tells the guarantee.                                                  *)
RunDescribe ==
    /\ At("describe", "body")
    /\ \/ Got(Answer("failed"))
       \/ Got(Terminal("execution_failed", TRUE, FALSE))
       \/ Got(Answer("described"))
    /\ UNCHANGED <<executor, service, result, async, call, cancel, log>>

CallExecutor ==
    /\ At("execute", "body")
    /\ \/ /\ Got(Answer("failed")) /\ UNCHANGED service
       \/ /\ exec' = [exec EXCEPT !.stage = "called"]
          /\ service' = [service EXCEPT !.calls = @ + 1]
    /\ UNCHANGED <<executor, result, async, call, cancel, log>>

(* The service handles a call, whether or not anyone still waits for the    *)
(* answer; an idempotent one answers every call of the key alike.           *)
Handle ==
    /\ service.handled < service.calls
    /\ \E answer \in IF Idempotent /\ service.answer # "none" THEN {service.answer}
                     ELSE {"performed", "refused"} :
         LET fresh == answer = "performed" /\ ~(Idempotent /\ service.effects > 0)
         IN  service' = [service EXCEPT
                 !.handled = @ + 1, !.answer = answer,
                 !.effects = IF fresh THEN @ + 1 ELSE @,
                 !.run = IF fresh /\ executor.kind = "async" THEN "running" ELSE @]
    /\ UNCHANGED <<executor, exec, result, async, call, cancel, log>>

AlwaysFailed(retriable, guarantee) == "execution_failed"                  \* mutant
(* executorFailureStatus *)
FailureStatus(retriable, guarantee) ==
    IF retriable /\ guarantee = "best_effort_at_most_once" THEN "execution_unknown"
    ELSE "execution_failed"

(* The executor's answer, or a retriable error that a best effort executor  *)
(* is not asked again about (for an idempotent one it fails the attempt).   *)
RunExecute ==
    /\ At("execute", "called")
    /\ \/ /\ service.answer = "performed"
          /\ Got(IF executor.kind = "sync" THEN Terminal("executed", TRUE, TRUE)
                 ELSE Answer("accepted"))
       \/ /\ service.answer = "refused"
          /\ Got(Terminal(FailureStatus(FALSE, executor.guarantee), TRUE, TRUE))
       \/ /\ ~Idempotent
          /\ Got(Terminal(FailureStatus(TRUE, executor.guarantee), TRUE, TRUE))
    /\ UNCHANGED <<executor, service, result, async, call, cancel, log>>

-----------------------------------------------------------------------------
(* The steps of the Workflow after the execution.                           *)

(* recordAsyncAcceptance: INSERT OR IGNORE of the row with the events.      *)
RunAccept ==
    /\ At("accept", "body")
    /\ async' = IF async.status = "absent" THEN [async EXCEPT !.status = "accepted"] ELSE async
    /\ log' = Accepted(log)
    /\ Got(Answer("recorded"))
    /\ UNCHANGED <<executor, service, result, call, cancel>>

(* projectActionResult: the upsert of the row with the events.              *)
RunProject ==
    /\ At("project", "body")
    /\ result' = exec.outcome.status
    /\ log' = Outcome(log, exec.outcome)
    /\ Got(Answer("projected"))
    /\ UNCHANGED <<executor, service, async, call, cancel>>

(* failWorkflow *)
RunFail ==
    /\ At("fail", "body")
    /\ log' = Insert(log, Whole("workflow.failed", "none"))
    /\ Got(Answer("recorded"))
    /\ UNCHANGED <<executor, service, result, async, call, cancel>>

Enter(pc) == [pc |-> pc, stage |-> "body", attempt |-> 0, got |-> Nothing]
Project(outcome) == [pc |-> "project", stage |-> "body", attempt |-> 0, got |-> Nothing,
                     outcome |-> outcome]
Over(output) == [pc |-> "over", stage |-> "done", attempt |-> 0, got |-> Answer(output)]

(* The engine journals a step's answer and the code goes on.                *)
Journal ==
    /\ exec.pc # "over" /\ exec.stage = "done"
    /\ exec' = CASE exec.got.type = "failed"     -> Enter("fail")
                 [] exec.got.type = "completed"  -> Project(exec.got)
                 [] exec.got.type = "authorized" -> Enter("describe")
                 [] exec.got.type = "described"  -> Enter("execute")
                 [] exec.got.type = "accepted"   -> Enter("accept")
                 [] exec.got.type = "projected"  -> Over("completed")
                 [] exec.got.type = "recorded"   ->
                      Over(IF exec.pc = "accept" THEN "accepted" ELSE "failed")
    /\ UNCHANGED <<executor, service, result, async, call, cancel, log>>

AlwaysRetry(pc) == ExecuteRetries                                         \* mutant
RetryLimit(pc) ==
    IF pc # "execute" THEN StepRetries ELSE IF Idempotent THEN ExecuteRetries ELSE 0

(* What the catch of an exhausted step returns.                             *)
Exhausted(pc) ==
    CASE pc = "reauthorize" -> Project(Terminal("authorization_check_failed", FALSE, FALSE))
      [] pc = "describe"    -> Project(Terminal("execution_failed", TRUE, FALSE))
      [] pc = "execute"     ->
           Project(Terminal(FailureStatus(TRUE, executor.guarantee), TRUE, FALSE))
      [] pc \in {"accept", "project"} -> Enter("fail")
      [] pc = "fail"        -> Over("failed")

(* An attempt fails, times out or loses its answer at any point.            *)
AttemptFails ==
    /\ exec.pc # "over"
    /\ exec' = IF exec.attempt < RetryLimit(exec.pc)
               THEN [exec EXCEPT !.stage = "body", !.attempt = @ + 1, !.got = Nothing]
               ELSE Exhausted(exec.pc)
    /\ UNCHANGED <<executor, service, result, async, call, cancel, log>>

-----------------------------------------------------------------------------
(* The async run ends and its end is delivered to the completion port.      *)
RunEnds ==
    /\ service.run = "running"
    /\ \E outcome \in RunOutcomes : service' = [service EXCEPT !.run = outcome]
    /\ UNCHANGED <<executor, exec, result, async, call, cancel, log>>

Own == "run"   \* executionRef of the accepted run

(* AsyncExecutionCompletion; the port is for trusted adapters only: nobody  *)
(* but the run itself says that it executed the action.                     *)
Completions == RunOutcomes \cup {"execution_unknown"}
ASSUME StraysAssumption ==
    \A report \in Strays : report.status \in Completions
                           /\ ~(report.ref = Own /\ report.status = "executed")
ASSUME NoResultAssumption == NoResult \notin Failures \cup {"executed"}

(* complete answers execution_not_accepted when there is no row; the run's  *)
(* listener then fails and is called again.                                 *)
DeliveredAnyway(marks) == marks                                            \* mutant
DeliveredWithout(marks) == FALSE

CompleteLoad(w, report, marks) ==
    /\ call[w].pc = "idle"
    /\ IF async.status = "absent"
       THEN /\ service' = [service EXCEPT !.delivered = @ \/ DeliveredWithout(marks)]
            /\ UNCHANGED call
       ELSE /\ call' = [call EXCEPT ![w] = [pc |-> "loaded", report |-> report, marks |-> marks]]
            /\ UNCHANGED service
    /\ UNCHANGED <<executor, exec, result, async, cancel, log>>

(* WorkflowRuntime.finish calls the listener while the end is not marked    *)
(* delivered; another adapter calls whenever it has something to say.       *)
DeliverEnd(w) ==
    /\ service.run \in RunOutcomes /\ ~service.delivered
    /\ CompleteLoad(w, [ref |-> Own, status |-> service.run], TRUE)

DeliverStray(w) == \E report \in Strays : CompleteLoad(w, report, FALSE)

AnyRef(report) == TRUE                                                    \* mutant
BindingMatches(report) == report.ref = Own

Reject(w, code) == call' = [call EXCEPT ![w] = [pc |-> "reject", ref |-> call[w].report.ref,
                                                code |-> code]]

AnyRow(row) == row.status # "absent"                                      \* mutant
Settleable(row) == row.status \in {"accepted", "cancel_requested"}

(* settle: a compare-and-set on the status; the first completion wins.      *)
CompleteSettle(w) ==
    /\ call[w].pc = "loaded"
    /\ LET report == call[w].report
           project == [call EXCEPT ![w] = [pc |-> "project", marks |-> call[w].marks]]
       IN  \/ /\ ~BindingMatches(report)
              /\ Reject(w, "completion_binding_mismatch")
              /\ UNCHANGED async
           \/ /\ BindingMatches(report) /\ Settleable(async)
              /\ async' = [status |-> "completed", completion |-> report.status]
              /\ call' = project
           \/ /\ BindingMatches(report) /\ ~Settleable(async)
              /\ IF async.completion = report.status THEN call' = project
                 ELSE Reject(w, "completion_conflict")
              /\ UNCHANGED async
    /\ UNCHANGED <<executor, exec, service, result, cancel, log>>

RowStatus(row) == row.status                                              \* mutant
RecordedStatus(row) == row.completion

(* project, of the record that was settled.                                 *)
CompleteProject(w) ==
    /\ call[w].pc = "project"
    /\ result' = RecordedStatus(async)
    /\ log' = Outcome(log, Terminal(RecordedStatus(async), FALSE, TRUE))
    /\ call' = [call EXCEPT ![w] = IF @.marks THEN [pc |-> "mark"] ELSE Idle]
    /\ UNCHANGED <<executor, exec, service, async, cancel>>

CompleteReject(w) ==
    /\ call[w].pc = "reject"
    /\ log' = Audit(log, {Event("action.execution_completion_rejected",
                                <<call[w].ref, call[w].code>>, "none")})
    /\ call' = [call EXCEPT ![w] = Idle]
    /\ UNCHANGED <<executor, exec, service, result, async, cancel>>

(* finish saves completionDelivered once complete has succeeded.            *)
MarkDelivered(w) ==
    /\ call[w].pc = "mark"
    /\ service' = [service EXCEPT !.delivered = TRUE]
    /\ call' = [call EXCEPT ![w] = Idle]
    /\ UNCHANGED <<executor, exec, result, async, cancel, log>>

(* Storage fails, an answer is lost or the worker dies.                     *)
CompleteFails(w) ==
    /\ call[w].pc # "idle"
    /\ call' = [call EXCEPT ![w] = Idle]
    /\ UNCHANGED <<executor, exec, service, result, async, cancel, log>>

-----------------------------------------------------------------------------
(* requestCancel: the row, then the event.                                  *)
RequestCancel ==
    /\ cancel = "idle" /\ Settleable(async)
    /\ async' = [async EXCEPT !.status = "cancel_requested"]
    /\ cancel' = "audit"
    /\ UNCHANGED <<executor, exec, service, result, call, log>>

AuditCancel ==
    /\ cancel = "audit"
    /\ \/ log' = Audit(log, {Whole("action.execution_cancel_requested", "none")})
       \/ UNCHANGED log
    /\ cancel' = "idle"
    /\ UNCHANGED <<executor, exec, service, result, async, call>>

Step == RunReauthorize \/ RunDescribe \/ CallExecutor \/ RunExecute
        \/ RunAccept \/ RunProject \/ RunFail
Serve(w) == CompleteSettle(w) \/ CompleteProject(w) \/ CompleteReject(w) \/ MarkDelivered(w)

Next ==
    \/ Step \/ Journal \/ AttemptFails
    \/ Handle \/ RunEnds
    \/ \E w \in Workers : DeliverEnd(w) \/ DeliverStray(w) \/ Serve(w) \/ CompleteFails(w)
    \/ RequestCancel \/ AuditCancel

(* The engine keeps running steps; the sweeper comes by until the end is    *)
(* marked delivered, and storage does not fail every time.                  *)
Fairness ==
    /\ WF_vars(AttemptFails \/ Journal \/ Step)
    /\ \A w \in Workers : WF_vars(Serve(w))
    /\ SF_vars(\E w \in Workers : DeliverEnd(w))
    /\ SF_vars(\E w \in Workers : call[w].pc = "loaded" /\ call[w].marks /\ CompleteSettle(w))
    /\ SF_vars(\E w \in Workers : call[w].pc = "project" /\ call[w].marks /\ CompleteProject(w))

Spec == Init /\ [][Next]_vars
FairSpec == Spec /\ Fairness

-----------------------------------------------------------------------------
(* Types of the instance, the service and the two rows.                     *)
TypeOK ==
    /\ executor \in [kind: Kinds, guarantee: Guarantees]
    /\ exec.pc \in {"reauthorize", "describe", "execute", "accept", "project", "fail", "over"}
    /\ exec.stage \in {"body", "called", "done"} /\ exec.attempt \in 0..RetryLimit(exec.pc)
    /\ exec.pc = "project" => exec.outcome.status \in Failures \cup {"executed"}
    /\ service.handled \in 0..service.calls /\ service.effects \in 0..service.calls
    /\ service.run \in {"none", "running"} \cup RunOutcomes
    /\ result \in {NoResult, "executed"} \cup Failures
    /\ async.status \in {"absent", "accepted", "cancel_requested", "completed"}
    /\ log.status \in Lifecycle!Statuses
    /\ \A w \in Workers : call[w].pc \in {"idle", "loaded", "project", "reject", "mark"}

(* No retry, time-out or lost answer makes the side effect happen twice.    *)
EffectHappensOnce == service.effects <= 1

(* The recorded result tells what happened downstream: executed, that it    *)
(* did; an authorization failure, that no call was made; execution_failed   *)
(* of a best effort executor, that no call still under way can perform it.  *)
ResultIsTrue ==
    /\ result = "executed" =>
         service.effects > 0 /\ (executor.kind = "async" => service.run = "executed")
    /\ result \in {"authorization_revoked", "authorization_check_failed"} => service.calls = 0
    /\ result = "execution_failed" /\ executor.kind = "sync" /\ ~Idempotent => service.effects = 0

(* Once a result is recorded it never changes, and a completed async        *)
(* execution neither, whoever delivers, replays or cancels.                 *)
ResultIsFinal ==
    /\ [][result # NoResult => result' = result]_vars
    /\ [][async.status = "completed" => async' = async]_vars

(* The folded status and the recorded result agree; only an instance that   *)
(* recorded its own failure over a landed acceptance makes them differ.     *)
LogMatchesResult ==
    result # NoResult => log.status = result \/ (log.status = "failed" /\ async.status # "absent")

(* The end of an accepted run reaches the request's result, unless another  *)
(* adapter's contradictory completion was settled first (its result is then *)
(* that adapter's to record).                                               *)
EndIsRecorded ==
    (service.run \in RunOutcomes /\ async.status # "absent")
      ~> (result # NoResult \/ async.completion \notin {"none", service.run})
(* The result, the log and what happened downstream tell one story, and the *)
(* effect happened at most once.                                            *)
OutcomeIsTrue == TypeOK /\ EffectHappensOnce /\ ResultIsTrue /\ LogMatchesResult
=============================================================================
