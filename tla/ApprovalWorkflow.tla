--------------------------- MODULE ApprovalWorkflow ---------------------------
(***************************************************************************)
(* The approval phase of one ActionRequest in the Cloudflare runtime:      *)
(* runActionWorkflow (approval-runtime-cloudflare/src/workflow.ts) drives  *)
(* the interpreter in durable steps, the projection is a compare-and-set   *)
(* row in D1, decision commands are delivered to it at least once, and an  *)
(* operator may force-cancel the request at any time.                      *)
(*                                                                         *)
(* A durable step runs its body, which may fail or lose its answer at any  *)
(* point and is then run again from the start, until the engine journals   *)
(* the answer; wf.stage is where in the body the current attempt is.       *)
(***************************************************************************)
EXTENDS ApprovalFlow, EventLog

CONSTANTS Plans,          \* materialized plans
          StepRetries,    \* retries of a durable step
          CancelAttempts, \* MAX_CANCEL_ATTEMPTS
          MaxAttempts,    \* ApprovalDecisionRetryPolicy.maxAttempts
          MaxSends,       \* bound on the deliveries of one command
          MaxTime         \* bound on the clock while nothing waits

ASSUME WorkflowPlans == \A p \in Plans : PlanOK(p)
ASSUME WorkflowUsers == NoUser \notin Users /\ IsFiniteSet(Users)
ASSUME WorkflowBounds == /\ StepRetries \in Nat /\ CancelAttempts \in Nat \ {0}
                         /\ MaxAttempts \in Nat \ {0} /\ MaxSends \in Nat /\ MaxTime \in Nat

VARIABLES
    plan,     \* the request's materialized plan
    proj,     \* approval_runtime_projections row; version 0: no row yet
    wf,       \* the Workflow instance
    inbox,    \* decision events sent to the instance and not yet received
    cmds,     \* approval_commands
    cancel,   \* the force-cancel operation
    clock

vars == <<plan, proj, log, wf, inbox, cmds, cancel, clock>>

DurableSteps == {"initialize", "record", "activate", "expire"}
Over == {"settled", "failed", "errored", "terminated"}   \* the instance has ended

-----------------------------------------------------------------------------
(* Domain events.  Keys: the step, or the step and the decision's key.      *)
VoteEvent(s, d) ==
    Event(IF d.verdict = "approve" THEN "step.approved" ELSE "step.rejected", <<s, d.key>>, d.user)

OpenVoteEvents(tasks) ==                                                  \* mutant
    UNION {{VoteEvent(s, d) : d \in tasks[s].decisions} :
             s \in {t \in DOMAIN tasks : tasks[t].status = "pending"}}
VoteEvents(tasks) == UNION {{VoteEvent(s, d) : d \in tasks[s].decisions} : s \in DOMAIN tasks}

TaskEvents(tasks) ==
    VoteEvents(tasks)
    \cup {Event("step.activated", <<s>>, "none") : s \in DOMAIN tasks}
    \cup {Event("step.expired", <<s>>, "none") : s \in {t \in DOMAIN tasks : tasks[t].status = "expired"}}

(* actionRuntimeTransitionEvents, from the events of the state before.      *)
TaskEventsOnly(l, was, next) == Audit(l, TaskEvents(next.tasks) \ TaskEvents(was.tasks))  \* mutant
RuntimeEvents(l, was, next) ==
    LET told == Audit(l, TaskEvents(next.tasks) \ TaskEvents(was.tasks))
    IN  IF was.status = next.status THEN told
        ELSE IF next.status = "approved" THEN Insert(told, Whole("approval.approved", "none"))
        ELSE IF next.status \in {"rejected", "expired", "cancelled"}
             THEN Insert(told, Whole("action.completed", next.status))
        ELSE told

RejectedEvent(d, code) == Event("approval_decision.rejected", <<d.step, d.key>>, code)

-----------------------------------------------------------------------------
(* compareAndReplace and persistProjection.                                 *)
NoWriter == <<"nobody", 0>>
ForceCancel == <<"force-cancel", 0>>

IgnoreVersion(row, expected) == row.version > 0 \/ expected = 0           \* mutant
VersionHolds(row, expected) == row.version = expected

Replaced(row, rt, writer) == [version |-> row.version + 1, rt |-> rt, writer |-> writer]

(* The answers of a step body.                                              *)
NoAnswer == [type |-> "none"]
FailedAnswer == [type |-> "failed"]
RejectedAnswer(code) == [type |-> "decision_rejected", code |-> code]
Advanced(rt, version, superseded) ==
    [type |-> "advanced", rt |-> rt, version |-> version, superseded |-> superseded]

KeepOwn(row, rt, expected) == Advanced(rt, expected, TRUE)                \* mutant
AdoptClosed(row, rt, expected) == Advanced(row.rt, row.version, TRUE)

(* The answer when the version has moved.                                   *)
Moved(row, rt, expected, writer) ==
    IF row.writer = writer THEN Advanced(row.rt, row.version, FALSE)
    ELSE IF row.rt.status # "pending" THEN AdoptClosed(row, rt, expected)
    ELSE FailedAnswer

(* A step body writes rt; next is the stage it goes on to when it advanced. *)
Persist(rt, next) ==
    LET writer == <<wf.pc, wf.iter>>
        moved  == Moved(proj, rt, wf.version, writer)
    IN  IF VersionHolds(proj, wf.version)
        THEN /\ proj' = Replaced(proj, rt, writer)
             /\ log' = RuntimeEvents(log, wf.rt, rt)
             /\ wf' = [wf EXCEPT !.stage = next, !.got = Advanced(rt, proj.version + 1, FALSE)]
        ELSE /\ wf' = [wf EXCEPT !.stage = IF moved.type = "advanced" THEN next ELSE "done",
                                 !.got = moved]
             /\ UNCHANGED <<proj, log>>

BodyFails ==
    /\ wf' = [wf EXCEPT !.stage = "done", !.got = FailedAnswer]
    /\ UNCHANGED <<proj, log>>

Init ==
    /\ plan \in Plans
    /\ proj = [version |-> 0, rt |-> InitialState, writer |-> NoWriter]
    /\ log = EmptyLog(TRUE)
    /\ wf = [pc |-> "initialize", stage |-> "body", attempt |-> 0, iter |-> 0,
             rt |-> InitialState, version |-> 0, now |-> 0, until |-> NoExpiry,
             event |-> NoAnswer, got |-> NoAnswer]
    /\ inbox = << >>
    /\ cmds = [k \in DecisionKeys |-> [status |-> "absent"]]
    /\ cancel = [pc |-> "idle", attempt |-> 0]
    /\ clock = 0

-----------------------------------------------------------------------------
(* The bodies of the durable steps.  A provider error that is not retriable *)
(* fails the body; one that is makes the attempt fail (AttemptFails).       *)
Lists(tasks) == [Asked(plan, tasks) -> plan.answers]

AtBody(pc) == wf.pc = pc /\ wf.stage = "body"

(* Evaluate, with one result per answer of the resolver, then write.        *)
EvaluateThenWrite(results, tasks) ==
    /\ \/ \E next \in results : IF next.failed THEN BodyFails ELSE Persist(next.rt, "done")
       \/ Asked(plan, tasks) # {} /\ BodyFails
    /\ UNCHANGED <<plan, inbox, cmds, cancel, clock>>

RunInitialize ==
    /\ AtBody("initialize")
    /\ EvaluateThenWrite({Start(plan, wf.now, lists) : lists \in Lists(NoTasks)}, NoTasks)

RunActivate ==
    /\ AtBody("activate")
    /\ LET tasks == wf.rt.tasks
       IN  IF wf.rt.status = "pending"
           THEN EvaluateThenWrite({Advance(plan, wf.rt, wf.now, lists) : lists \in Lists(tasks)}, tasks)
           ELSE Persist(wf.rt, "done") /\ UNCHANGED <<plan, inbox, cmds, cancel, clock>>

RunExpire ==
    /\ AtBody("expire")
    /\ LET due == NextExpiry(wf.rt)
           tasks == ExpireTasks(wf.rt.tasks, due)
       IN  EvaluateThenWrite({Expire(plan, wf.rt, due, lists) : lists \in Lists(tasks)}, tasks)

RunRecord ==
    /\ AtBody("record")
    /\ LET d == wf.event
           asks == d.step \in plan.dynamic
       IN  \/ \E live \in IF asks THEN BOOLEAN ELSE {FALSE} :
                LET recorded == Record(plan, wf.rt, d, live)
                IN  IF recorded.kind = "rejected"
                    THEN /\ wf' = [wf EXCEPT !.stage = "reject",
                                             !.got = RejectedAnswer(recorded.reason)]
                         /\ UNCHANGED <<proj, log>>
                    ELSE Persist(recorded.rt, "resolve")
           \/ asks /\ BodyFails
    /\ UNCHANGED <<plan, inbox, cmds, cancel, clock>>

(* rejectDecision: the audit event must be new or the same as the stored    *)
(* one; otherwise the attempt can only fail.                                *)
AppendRejection ==
    /\ wf.pc = "record" /\ wf.stage = "reject"
    /\ LET e == RejectedEvent(wf.event, wf.got.code)
       IN  ~Contradicts(log, e) /\ log' = Audit(log, {e})
    /\ wf' = [wf EXCEPT !.stage = "resolve"]
    /\ UNCHANGED <<plan, proj, inbox, cmds, cancel, clock>>

(* resolveOutcome of the decision's command.                                *)
OnlyPending == {"pending"}                                                \* mutant
Unresolved == {"pending", "delivered"}

AppliedAnyway(answer) == IF answer.type = "advanced" THEN "applied" ELSE "rejected"   \* mutant
OutcomeOf(answer) ==
    IF answer.type = "advanced" /\ ~answer.superseded THEN "applied" ELSE "rejected"

ResolveOutcome ==
    /\ wf.pc = "record" /\ wf.stage = "resolve"
    /\ cmds' = [cmds EXCEPT ![wf.event.key].status =
                  IF @ \in Unresolved THEN OutcomeOf(wf.got) ELSE @]
    /\ wf' = [wf EXCEPT !.stage = "done"]
    /\ UNCHANGED <<plan, proj, log, inbox, cancel, clock>>

-----------------------------------------------------------------------------
(* The loop of runActionWorkflow.                                           *)

(* timeoutUntil: at least one second, counted from when the wait begins;    *)
(* without an expiry the wait (365 days) outlasts every bound.              *)
NoTimeout(expiry, now) == NoExpiry                                        \* mutant
Deadline(expiry, now) ==
    IF expiry = NoExpiry THEN NoExpiry
    ELSE clock + (IF expiry - now > 1 THEN expiry - now ELSE 1)

(* The instance at the top of the loop with state rt at logical time now.   *)
Loop(rt, version, now, iter) ==
    LET expiry == NextExpiry(rt)
        pc == IF rt.status # "pending" THEN "settled"
              ELSE IF expiry # NoExpiry /\ expiry <= now THEN "expire" ELSE "wait"
    IN  [wf EXCEPT !.pc = pc, !.stage = "body", !.attempt = 0, !.iter = iter,
                   !.rt = rt, !.version = version, !.now = now,
                   !.until = IF pc = "wait" THEN Deadline(expiry, now) ELSE NoExpiry,
                   !.event = NoAnswer, !.got = NoAnswer]

Later(t, u) == IF t > u THEN t ELSE u

(* The engine journals the answer of a step and the code goes on.           *)
Journal ==
    /\ wf.pc \in DurableSteps /\ wf.stage = "done"
    /\ LET got == wf.got
       IN  wf' = CASE got.type = "failed" ->
                        [wf EXCEPT !.pc = "fail", !.stage = "body", !.attempt = 0,
                                   !.until = NoExpiry, !.event = NoAnswer, !.got = NoAnswer]
                   [] got.type = "decision_rejected" ->
                        Loop(wf.rt, wf.version, Later(wf.event.at, wf.now), wf.iter + 1)
                   [] got.type = "advanced" /\ wf.pc = "initialize" ->
                        Loop(got.rt, got.version, wf.now, 0)
                   [] got.type = "advanced" /\ wf.pc = "activate" ->
                        Loop(got.rt, got.version, wf.now, wf.iter + 1)
                   [] got.type = "advanced" /\ wf.pc = "expire" ->
                        Loop(got.rt, got.version, NextExpiry(wf.rt), wf.iter + 1)
                   [] got.type = "advanced" /\ wf.pc = "record" ->
                        IF got.rt.status # "pending" /\ got.superseded
                        THEN Loop(got.rt, got.version, wf.event.at, wf.iter)
                        ELSE [wf EXCEPT !.pc = "activate", !.stage = "body", !.attempt = 0,
                                        !.rt = got.rt, !.version = got.version,
                                        !.now = wf.event.at, !.until = NoExpiry,
                                        !.event = NoAnswer, !.got = NoAnswer]
    /\ UNCHANGED <<plan, proj, log, inbox, cmds, cancel, clock>>

(* An attempt fails, or its answer is lost, at any point of the body; the   *)
(* last one ends the instance, or is swallowed by failWorkflow.             *)
AttemptFails ==
    /\ wf.pc \in DurableSteps \cup {"fail"}
    /\ wf' = IF wf.attempt < StepRetries
             THEN [wf EXCEPT !.stage = "body", !.attempt = @ + 1, !.got = NoAnswer]
             ELSE [wf EXCEPT !.pc = IF wf.pc = "fail" THEN "failed" ELSE "errored",
                             !.stage = "body", !.got = NoAnswer]
    /\ UNCHANGED <<plan, proj, log, inbox, cmds, cancel, clock>>

(* failWorkflow's "record workflow failure".                                *)
RecordFailure ==
    /\ wf.pc = "fail"
    /\ log' = Insert(log, Whole("workflow.failed", "none"))
    /\ wf' = [wf EXCEPT !.pc = "failed"]
    /\ UNCHANGED <<plan, proj, inbox, cmds, cancel, clock>>

ReceiveDecision ==
    /\ wf.pc = "wait" /\ inbox # << >>
    /\ wf' = [wf EXCEPT !.pc = "record", !.event = Head(inbox)]
    /\ inbox' = Tail(inbox)
    /\ UNCHANGED <<plan, proj, log, cmds, cancel, clock>>

(* It may win over an event that arrives as the wait ends.                  *)
WaitTimesOut ==
    /\ wf.pc = "wait" /\ wf.until # NoExpiry /\ wf.until <= clock
    /\ wf' = [wf EXCEPT !.pc = "expire", !.until = NoExpiry]
    /\ UNCHANGED <<plan, proj, log, inbox, cmds, cancel, clock>>

-----------------------------------------------------------------------------
(* Decision commands (approval-application/src/read-command.ts).            *)

(* accept: precheckDecision on the stored task, then createPending.         *)
Submit(k, s, u, v) ==
    /\ cmds[k].status = "absent"
    /\ s \in DOMAIN proj.rt.tasks
    /\ LET task == proj.rt.tasks[s]
       IN  /\ task.status = "pending"
           /\ u \notin Deciders(task) /\ u # plan.self[s]
           /\ s \in plan.dynamic \/ u \in task.candidates
    /\ cmds' = [cmds EXCEPT ![k] = [status |-> "pending", step |-> s, user |-> u, verdict |-> v,
                                    attempts |-> 0, sends |-> 0, hand |-> "free"]]
    /\ UNCHANGED <<plan, proj, log, wf, inbox, cancel, clock>>

(* process: claim a pending command nobody holds and send its event, which  *)
(* arrives or not whatever the sender is told; no event reaches an ended    *)
(* instance.                                                                *)
Deliver(k) ==
    /\ cmds[k].status = "pending" /\ cmds[k].hand = "free" /\ cmds[k].sends < MaxSends
    /\ \E arrives \in {FALSE} \cup {wf.pc \notin Over} : \E told \in {"sent", "refused"} :
         /\ told = "sent" => arrives
         /\ inbox' = IF arrives
                     THEN inbox \o <<[key |-> k, step |-> cmds[k].step, user |-> cmds[k].user,
                                      verdict |-> cmds[k].verdict, at |-> clock,
                                      bound |-> TRUE, commented |-> TRUE]>>
                     ELSE inbox
         /\ cmds' = [cmds EXCEPT ![k].hand = told, ![k].sends = @ + 1]
    /\ UNCHANGED <<plan, proj, log, wf, cancel, clock>>

(* finish or scheduleRetry, both from a pending command only.               *)
Conclude(k) ==
    /\ cmds[k].status # "absent" /\ cmds[k].hand \in {"sent", "refused"}
    /\ LET c == cmds[k]
           spent == c.attempts + 1 >= MaxAttempts
           next == IF c.hand = "sent" THEN "delivered" ELSE IF spent THEN "failed" ELSE "pending"
           retried == c.status = "pending" /\ c.hand = "refused" /\ ~spent
       IN  cmds' = [cmds EXCEPT ![k].status = IF @ = "pending" THEN next ELSE @,
                                ![k].attempts = IF retried THEN @ + 1 ELSE @,
                                ![k].hand = "free"]
    /\ UNCHANGED <<plan, proj, log, wf, inbox, cancel, clock>>

(* The worker dies between the two; the lease runs out (60 s).              *)
LeaseExpires(k) ==
    /\ cmds[k].status # "absent" /\ cmds[k].hand \in {"sent", "refused"}
    /\ cmds[k].sends < MaxSends
    /\ cmds' = [cmds EXCEPT ![k].hand = "free"]
    /\ UNCHANGED <<plan, proj, log, wf, inbox, cancel, clock>>

-----------------------------------------------------------------------------
(* WorkflowCancellationService.cancel (workflow-cancellation.ts).           *)
CancelIdle == [pc |-> "idle", attempt |-> 0]

CancelLoad ==
    /\ cancel.pc \in {"idle", "reload"} /\ proj.version > 0
    /\ cancel' = CASE proj.rt.status = "pending" ->
                        [pc |-> "loaded", attempt |-> cancel.attempt,
                         rt |-> proj.rt, version |-> proj.version]
                   [] proj.rt.status = "cancelled" -> [pc |-> "terminate", attempt |-> 0]
                   [] OTHER -> CancelIdle
    /\ UNCHANGED <<plan, proj, log, wf, inbox, cmds, clock>>

CancelWrite ==
    /\ cancel.pc = "loaded"
    /\ LET next == Cancel(cancel.rt)
       IN  IF VersionHolds(proj, cancel.version)
           THEN /\ proj' = Replaced(proj, next, ForceCancel)
                /\ log' = RuntimeEvents(log, cancel.rt, next)
                /\ cancel' = [pc |-> "terminate", attempt |-> 0]
           ELSE /\ cancel' = IF proj.writer = ForceCancel
                             THEN [pc |-> "terminate", attempt |-> 0]
                             ELSE IF cancel.attempt + 1 < CancelAttempts
                             THEN [pc |-> "reload", attempt |-> cancel.attempt + 1]
                             ELSE CancelIdle
                /\ UNCHANGED <<proj, log>>
    /\ UNCHANGED <<plan, wf, inbox, cmds, clock>>

(* terminate is best effort: the instance may already be over, or the call  *)
(* may fail (CancelFails).                                                  *)
Terminate ==
    /\ cancel.pc = "terminate"
    /\ wf' = IF wf.pc \in Over THEN wf
             ELSE [wf EXCEPT !.pc = "terminated", !.stage = "body", !.until = NoExpiry,
                             !.got = NoAnswer]
    /\ cancel' = CancelIdle
    /\ UNCHANGED <<plan, proj, log, inbox, cmds, clock>>

(* Storage or the Workflow binding fails, or the operator's call is lost.   *)
CancelFails ==
    /\ cancel.pc # "idle"
    /\ cancel' = CancelIdle
    /\ UNCHANGED <<plan, proj, log, wf, inbox, cmds, clock>>

-----------------------------------------------------------------------------
(* Time passes, past MaxTime only while a wait has still to time out.       *)
Tick ==
    /\ clock < MaxTime \/ (wf.pc = "wait" /\ wf.until # NoExpiry /\ clock < wf.until)
    /\ clock' = clock + 1
    /\ UNCHANGED <<plan, proj, log, wf, inbox, cmds, cancel>>

Body == RunInitialize \/ RunRecord \/ RunActivate \/ RunExpire \/ AppendRejection \/ ResolveOutcome

Next ==
    \/ Body \/ Journal \/ AttemptFails \/ RecordFailure
    \/ ReceiveDecision \/ WaitTimesOut
    \/ \E k \in DecisionKeys :
         \/ \E s \in plan.steps, u \in Users, v \in Verdict : Submit(k, s, u, v)
         \/ Deliver(k) \/ Conclude(k) \/ LeaseExpires(k)
    \/ CancelLoad \/ CancelWrite \/ Terminate \/ CancelFails
    \/ Tick

(* The engine keeps running steps and timers; nothing obliges people, the   *)
(* command workers or the operator to act, nor an attempt to succeed.       *)
Fairness ==
    /\ WF_vars(AttemptFails \/ Journal \/ RecordFailure \/ Body)
    /\ WF_vars(ReceiveDecision \/ WaitTimesOut)
    /\ WF_vars(Tick)

Spec == Init /\ [][Next]_vars
FairSpec == Spec /\ Fairness

-----------------------------------------------------------------------------
(* Types of the row, the cursor, the commands and the cancel operation.     *)
StepKinds == DurableSteps \cup {"fail"}

TypeOK ==
    /\ plan \in Plans
    /\ proj.version \in Nat /\ IsRuntimeState(plan, proj.rt)
    /\ IsRuntimeState(plan, wf.rt) /\ wf.version \in Nat
    /\ wf.pc \in StepKinds \cup Over \cup {"wait"}
    /\ wf.stage \in {"body", "reject", "resolve", "done"} /\ wf.attempt \in 0..StepRetries
    /\ wf.got.type \in {"none", "failed", "decision_rejected", "advanced"}
    /\ wf.got.type = "advanced" => IsRuntimeState(plan, wf.got.rt) /\ wf.got.version \in Nat
    /\ wf.pc = "record" => wf.event \in [key: DecisionKeys, step: plan.steps, user: Users,
                                         verdict: Verdict, at: Nat, bound: {TRUE}, commented: {TRUE}]
    /\ log.status \in Lifecycle!Statuses
    /\ \A k \in DecisionKeys : cmds[k].status \in {"absent", "pending", "delivered", "failed",
                                                    "applied", "rejected"}
    /\ cancel.pc \in {"idle", "loaded", "reload", "terminate"} /\ cancel.attempt \in 0..CancelAttempts
    /\ cancel.pc = "loaded" => IsRuntimeState(plan, cancel.rt) /\ cancel.version \in Nat
    /\ clock \in Nat

(* Keys of the votes the stored state holds.                                *)
CountedKeys == UNION {{d.key : d \in proj.rt.tasks[s].decisions} : s \in DOMAIN proj.rt.tasks}

(* A command told to be applied has its vote in the stored state, through   *)
(* retries, lost answers and a force-cancel that overtakes the step.        *)
AppliedCommandsCount == \A k \in DecisionKeys : cmds[k].status = "applied" => k \in CountedKeys

(* A closed request never reopens nor changes, an open one never loses a    *)
(* vote or a closed task, and versions only grow: two writers cannot        *)
(* overwrite each other.                                                    *)
ProjectionNeverRegresses ==
    [][/\ proj'.version >= proj.version
       /\ proj.rt.status # "pending" => proj'.rt = proj.rt
       /\ \A s \in DOMAIN proj.rt.tasks :
            /\ s \in DOMAIN proj'.rt.tasks
            /\ proj.rt.tasks[s].decisions \subseteq proj'.rt.tasks[s].decisions
            /\ proj.rt.tasks[s].status # "pending" =>
                 proj'.rt.tasks[s].status = proj.rt.tasks[s].status]_vars

(* The audit trail tells exactly the votes, activations and expiries of the *)
(* stored state.                                                            *)
AuditMatchesProjection ==
    {e \in log.events : e.type \in {"step.approved", "step.rejected", "step.activated",
                                    "step.expired"}} = TaskEvents(proj.rt.tasks)

(* The status readers fold from the events is the stored one, except that   *)
(* one instance that gave up shows as failed a request it left open, or one *)
(* it approved in an attempt whose answer was lost.                         *)
LogMatchesProjection ==
    \/ log.status = IF proj.rt.status = "pending" THEN "pending_approval" ELSE proj.rt.status
    \/ log.status = "failed" /\ wf.pc \in {"fail", "failed", "terminated"}
       /\ proj.rt.status \in {"pending", "approved", "cancelled"}

(* The request's status only moves along ActionRequestLifecycle.            *)
FollowsLifecycle == Lifecycle!Spec

(* The Workflow's own copy of the state is the stored one whenever it holds *)
(* the stored version, and an instance that ends regularly ends with it.    *)
CursorIsStored ==
    /\ wf.version <= proj.version
    /\ (wf.version = proj.version \/ wf.pc = "settled") => wf.rt = proj.rt

(* Every request whose steps expire reaches the end of its approval phase,  *)
(* whatever fails.                                                          *)
EventuallyOver == <>(wf.pc \in Over)

(* A decision the instance received is answered in its command, unless the  *)
(* instance is stopped or gives up.                                         *)
Answered(k) == cmds[k].status \in {"applied", "rejected", "failed"} \/ wf.pc \in Over \ {"settled"}

ReceivedIsAnswered ==
    \A k \in DecisionKeys : (wf.pc = "record" /\ wf.event.key = k) ~> Answered(k)

(* What the row, the log, the commands and the Workflow say of one request  *)
(* agrees, whichever of them was written last and whatever was lost.        *)
EverySourceAgrees ==
    /\ TypeOK
    /\ AuditMatchesProjection /\ LogMatchesProjection /\ CursorIsStored /\ AppliedCommandsCount

(* Neither the request nor a person who decided is left without an answer.  *)
EveryoneIsAnswered == EventuallyOver /\ ReceivedIsAnswered
=============================================================================
