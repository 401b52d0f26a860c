---------------------------- MODULE McpInvocation ----------------------------
(***************************************************************************)
(* One logical tools/call of the MCP gateway (approval-mcp/src/gateway.ts) *)
(* and the ActionRequest it commits                                        *)
(* (approval-application/src/action-request-service.ts).  The invocation   *)
(* row is reserved, prepared, then committed or completed under a lease;   *)
(* a caller that finds the lease expired takes it over and resumes.        *)
(*                                                                         *)
(* A call with the same key and other arguments is refused at once and     *)
(* changes nothing, so every call here carries the same arguments.  Lease  *)
(* tokens are unique: w.current says that the token of handler w is the    *)
(* row's.  Two commits never happen at the same instant.                   *)
(***************************************************************************)
EXTENDS EventLog, FiniteSets, Naturals

CONSTANTS Handlers,   \* concurrent tools/call, tasks/get and tasks/cancel requests
          Requests,   \* ActionRequest ids
          Nobody,     \* no ActionRequest id yet
          MaxFaults   \* bound on crashes, failed calls and leases that run out early

ASSUME HandlersAssumption == IsFiniteSet(Handlers) /\ Handlers # {}
ASSUME RequestsAssumption == IsFiniteSet(Requests) /\ Nobody \notin Requests
ASSUME FaultsAssumption == MaxFaults \in Nat

VARIABLES
    inv,      \* the mcp_invocations row: column is its status column, status the JSON's
    plans,    \* ActionRequests whose plan is in action_requests
    started,  \* ActionRequests whose approval Workflow runs
    result,   \* action_results status of the immediately executed request
    calls,    \* times the executor was called
    h,        \* the handlers
    faults    \* how many so far, and whether a lease ran out under its handler

vars == <<inv, plans, started, result, calls, log, h, faults>>
db == <<plans, started, result, calls, log>>

NoRow == [column |-> "absent", status |-> "absent", lease |-> "expired", request |-> Nobody,
          kind |-> "none", response |-> "none"]
Idle == [pc |-> "idle", intent |-> "none", current |-> FALSE, resume |-> FALSE,
         request |-> Nobody, kind |-> "none", copy |-> NoRow, response |-> "none"]

AlsoCompleted == {"reserved", "prepared", "completed"}                    \* mutant
Unfinished == {"reserved", "prepared"}
Committing == {"plan", "start", "reauthorize", "audit", "execute", "record", "finish"}
Failures   == {"execution_failed", "execution_unknown"}
Outcomes   == {"executed", "authorization_revoked", "authorization_check_failed"} \cup Failures

Init ==
    /\ inv = NoRow
    /\ plans = {} /\ started = {}
    /\ result = "none" /\ calls = 0
    /\ log = EmptyLog(FALSE)
    /\ h = [w \in Handlers |-> Idle]
    /\ faults = [count |-> 0, overrun |-> FALSE]

-----------------------------------------------------------------------------
(* The invocation repository (approval-d1/src/mcp-gateway-repository.ts).   *)

(* A new token: nobody else's token is the row's any more. *)
Granted(w, next) ==
    [v \in Handlers |-> IF v = w THEN [next EXCEPT !.current = TRUE]
                                 ELSE [h[v] EXCEPT !.current = FALSE]]

TokenHolds(w) == inv.column # "absent" /\ h[w].current

(* update: a patch of the row, fenced by the token; FALSE: the lease is lost. *)
Patched(w, patch) == IF TokenHolds(w) THEN inv' = patch ELSE UNCHANGED inv

WithStatus(row, s) == [row EXCEPT !.column = s, !.status = s]

OnlyReserved(row) == row.lease = "expired" /\ row.status = "reserved"    \* mutant
Stealable(row) == row.lease = "expired" /\ row.status \in Unfinished

(* release deletes an unfinished row, and with it every token. *)
Release(w) ==
    /\ inv' = IF TokenHolds(w) /\ inv.column \in Unfinished THEN NoRow ELSE inv
    /\ h' = [h EXCEPT ![w] = Idle]

-----------------------------------------------------------------------------
(* tools/call: reserve, or take over what an earlier call left behind.      *)
(* A finished invocation is answered from the row, one whose lease is held  *)
(* with "in progress", and the call changes nothing.                        *)
Call(w) ==
    /\ h[w].pc = "idle"
    /\ IF inv.column = "absent"
       THEN /\ inv' = [WithStatus(NoRow, "reserved") EXCEPT !.lease = "held"]
            /\ h' = Granted(w, [Idle EXCEPT !.pc = "admit", !.intent = "call"])
       ELSE /\ Stealable(inv)
            /\ h' = [h EXCEPT ![w] = [Idle EXCEPT !.pc = "take", !.intent = "call",
                                                  !.copy = inv, !.current = TRUE]]
            /\ UNCHANGED inv
    /\ UNCHANGED <<db, faults>>

(* tasks/get and tasks/cancel on a Task that is not committed yet.          *)
Ask(w, intent) ==
    /\ h[w].pc = "idle" /\ inv.status = "prepared" /\ inv.kind = "approval" /\ Stealable(inv)
    /\ h' = [h EXCEPT ![w] = [Idle EXCEPT !.pc = "take", !.intent = intent,
                                          !.copy = inv, !.current = TRUE]]
    /\ UNCHANGED <<inv, db, faults>>

Poll(w) == Ask(w, "poll")
CancelTask(w) == Ask(w, "cancel")

(* takeOver's UPDATE is guarded by the token, the lease and the status      *)
(* column, and writes the record it loaded before into record_json.         *)
TakeOver(w) ==
    /\ h[w].pc = "take"
    /\ LET copy == h[w].copy
           mine == [h[w] EXCEPT !.request = copy.request, !.kind = copy.kind, !.copy = NoRow]
       IN  IF TokenHolds(w) /\ inv.lease = "expired" /\ inv.column \in Unfinished
           THEN /\ inv' = [copy EXCEPT !.column = inv.column, !.lease = "held"]
                /\ h' = Granted(w,
                          IF mine.intent = "cancel" THEN [mine EXCEPT !.pc = "withdraw"]
                          ELSE IF copy.status = "reserved" THEN [mine EXCEPT !.pc = "admit"]
                          ELSE [mine EXCEPT !.pc = "plan", !.resume = TRUE])
           ELSE /\ h' = [h EXCEPT ![w] = Idle]
                /\ UNCHANGED inv
    /\ UNCHANGED <<db, faults>>

(* A call without Tasks capability hands a Task back before resuming it.    *)
HandBack(w) ==
    /\ h[w].pc = "plan" /\ h[w].resume /\ h[w].intent = "call" /\ h[w].kind = "approval"
    /\ Patched(w, [inv EXCEPT !.lease = "expired"])
    /\ h' = [h EXCEPT ![w] = Idle]
    /\ UNCHANGED <<db, faults>>

(* cancelTask: the owner withdraws an admission that was not committed.     *)
Withdraw(w) ==
    /\ h[w].pc = "withdraw"
    /\ Patched(w, [WithStatus(inv, "completed") EXCEPT !.lease = "expired",
                                                       !.response = "cancelled"])
    /\ h' = [h EXCEPT ![w] = Idle]
    /\ UNCHANGED <<db, faults>>

-----------------------------------------------------------------------------
(* admit: prepare has no side effect; a refused rate limit, invalid input,  *)
(* an error, or an approval the client cannot follow releases the key.      *)
Unused == {r \in Requests : r \notin plans /\ r # inv.request
                            /\ \A v \in Handlers : h[v].request # r}

AdmitRefused(w) ==
    /\ h[w].pc = "admit"
    /\ Release(w)
    /\ UNCHANGED <<db, faults>>

AdmitDenied(w) ==
    /\ h[w].pc = "admit"
    /\ h' = [h EXCEPT ![w].pc = "finish", ![w].response = "authorization_denied"]
    /\ UNCHANGED <<inv, db, faults>>

AdmitPrepared(w, r, kind) ==
    /\ h[w].pc = "admit" /\ r \in Unused
    /\ Patched(w, [WithStatus(inv, "prepared") EXCEPT !.request = r, !.kind = kind])
    /\ h' = [h EXCEPT ![w] = IF TokenHolds(w)
                             THEN [@ EXCEPT !.pc = "plan", !.resume = FALSE,
                                            !.request = r, !.kind = kind]
                             ELSE Idle]
    /\ UNCHANGED <<db, faults>>

-----------------------------------------------------------------------------
(* ActionRequestService.commit.                                             *)

(* A commit failure that a later call may recover from: the row stays       *)
(* prepared and its lease is given up.                                      *)
ReleaseKey(w) == Release(w)                                              \* mutant
Recoverable(w) ==
    /\ Patched(w, [inv EXCEPT !.lease = "expired"])
    /\ h' = [h EXCEPT ![w] = Idle]

(* Planned and audited.  A plan that is there is an error unless resuming.  *)
SavePlan(w) ==
    /\ h[w].pc = "plan"
    /\ LET r == h[w].request
       IN  IF r \notin plans \/ h[w].resume
           THEN /\ plans' = plans \cup {r}
                /\ h' = [h EXCEPT ![w].pc = IF h[w].kind = "approval" THEN "start" ELSE "reauthorize"]
           ELSE /\ h' = [h EXCEPT ![w].pc = "finish", ![w].response = "error"]
                /\ UNCHANGED plans
    /\ UNCHANGED <<inv, started, result, calls, log, faults>>

(* The Workflow's instance id is derived from the request: start is         *)
(* idempotent.                                                              *)
StartWorkflow(w) ==
    /\ h[w].pc = "start"
    /\ started' = started \cup {h[w].request}
    /\ h' = [h EXCEPT ![w].pc = "finish"]
    /\ UNCHANGED <<inv, plans, result, calls, log, faults>>

(* executeImmediately. *)
Reauthorize(w) ==
    /\ h[w].pc = "reauthorize"
    /\ \E answer \in {"allow", "authorization_revoked", "authorization_check_failed"} :
         h' = [h EXCEPT ![w].pc = IF answer = "allow" THEN "audit" ELSE "record",
                        ![w].response = answer]
    /\ UNCHANGED <<inv, db, faults>>

Reauthorized == Whole("action.reauthorized", "evidence")

(* The evidence carries the instant of the check, so appendMany refuses it  *)
(* when an earlier attempt recorded its own.                                *)
NoEvidence(l) == FALSE                                                   \* mutant
OtherEvidence(l) == HasKey(l, Reauthorized)

AuditStart(w) ==
    /\ h[w].pc = "audit"
    /\ log' = Insert(Insert(log, Reauthorized), Whole("action.execution_started", "none"))
    /\ IF OtherEvidence(log)
       THEN Recoverable(w)
       ELSE h' = [h EXCEPT ![w].pc = "execute"] /\ UNCHANGED inv
    /\ UNCHANGED <<plans, started, result, calls, faults>>

FailureStatus(retriable, atMostOnce) ==
    IF retriable /\ atMostOnce THEN "execution_unknown" ELSE "execution_failed"

Execute(w) ==
    /\ h[w].pc = "execute"
    /\ calls' = calls + 1
    /\ \E retriable, atMostOnce \in BOOLEAN :
       \E outcome \in {"executed", "accepted", FailureStatus(retriable, atMostOnce)} :
         h' = [h EXCEPT ![w].pc = "record", ![w].response = outcome]
    /\ UNCHANGED <<inv, plans, started, result, log, faults>>

(* What the call answers: an asynchronous execution has no answer yet and   *)
(* is reported as an unexpected status.                                     *)
AnswerAsIs(outcome) == outcome                                           \* mutant
AcceptedIsDone(outcome) == IF outcome = "accepted" THEN "executed" ELSE outcome  \* mutant
AnswerOf(outcome) == IF outcome = "accepted" THEN "error" ELSE outcome

(* recordResult's batch: the row is overwritten, the events are kept; an    *)
(* accepted execution only has its event.                                   *)
RecordResult(w) ==
    /\ h[w].pc = "record"
    /\ LET outcome == h[w].response
           completed == Whole("action.completed", outcome)
           failed == Whole("action.execution_failed", outcome)
       IN  /\ result' = IF outcome = "accepted" THEN result ELSE outcome
           /\ log' = IF outcome = "accepted"
                     THEN Insert(log, Whole("action.execution_accepted", "none"))
                     ELSE Insert(IF outcome \in Failures THEN Insert(log, failed) ELSE log, completed)
           /\ h' = [h EXCEPT ![w].pc = "finish", ![w].response = AnswerOf(outcome)]
    /\ UNCHANGED <<inv, plans, started, calls, faults>>

(* The gateway's last write: a Task is committed, any other call answered.  *)
Finish(w) ==
    /\ h[w].pc = "finish"
    /\ Patched(w, IF h[w].kind = "approval" /\ h[w].response = "none"
                  THEN [WithStatus(inv, "committed") EXCEPT !.lease = "expired"]
                  ELSE [WithStatus(inv, "completed") EXCEPT !.lease = "expired",
                                                            !.response = h[w].response])
    /\ h' = [h EXCEPT ![w] = Idle]
    /\ UNCHANGED <<db, faults>>

-----------------------------------------------------------------------------
Fault == faults.count < MaxFaults /\ faults' = [faults EXCEPT !.count = @ + 1]

(* A storage, starter or network call of the commit fails.                  *)
CommitFails(w) ==
    /\ h[w].pc \in {"plan", "start", "audit", "record"} /\ Fault
    /\ Recoverable(w)
    /\ UNCHANGED db

(* The isolate dies, or an answer is lost and the handler gives up.         *)
Crash(w) ==
    /\ h[w].pc # "idle" /\ Fault
    /\ h' = [h EXCEPT ![w] = Idle]
    /\ UNCHANGED <<inv, db>>

(* The handler that was granted the lease and still works on it. *)
Working == \E w \in Handlers : h[w].current /\ h[w].pc \notin {"idle", "take"}

(* leaseMs is meant to be longer than any handler works; nothing makes it   *)
(* so: a handler that is slower than its lease is a fault.                  *)
LeaseExpires ==
    /\ inv.lease = "held" /\ (Working => faults.count < MaxFaults)
    /\ inv' = [inv EXCEPT !.lease = "expired"]
    /\ faults' = IF Working THEN [count |-> faults.count + 1, overrun |-> TRUE] ELSE faults
    /\ UNCHANGED <<db, h>>

Work(w) ==
    \/ TakeOver(w) \/ Withdraw(w) \/ AdmitRefused(w) \/ AdmitDenied(w)
    \/ \E r \in Requests, kind \in {"immediate", "approval"} : AdmitPrepared(w, r, kind)
    \/ SavePlan(w) \/ StartWorkflow(w) \/ Reauthorize(w) \/ AuditStart(w)
    \/ Execute(w) \/ RecordResult(w) \/ Finish(w)

Next ==
    \/ \E w \in Handlers : \/ Call(w) \/ Poll(w) \/ CancelTask(w) \/ HandBack(w) \/ Work(w)
                           \/ CommitFails(w) \/ Crash(w)
    \/ LeaseExpires

Spec == Init /\ [][Next]_vars

(* Handlers run and leases expire; the client repeats a call that was not   *)
(* answered, not always when another handler is at it, and not always       *)
(* without the capability to follow a Task.                                 *)
Fairness ==
    /\ \A w \in Handlers : WF_vars(Work(w))
    /\ WF_vars(LeaseExpires)
    /\ SF_vars(\E w \in Handlers : Call(w))
    /\ SF_vars(\E w \in Handlers : SavePlan(w))

FairSpec == Spec /\ Fairness

-----------------------------------------------------------------------------
(* Types of the row (McpInvocationRecord) and of the handlers.              *)
Statuses == {"absent", "committed", "completed"} \cup Unfinished
Answers  == {"none", "error", "cancelled", "authorization_denied"} \cup Outcomes

TypeOK ==
    /\ inv \in [column: Statuses, status: Statuses, lease: {"held", "expired"},
                request: Requests \cup {Nobody}, kind: {"none", "immediate", "approval"},
                response: Answers]
    /\ plans \subseteq Requests /\ started \subseteq plans
    /\ result \in {"none"} \cup Outcomes
    /\ calls \in Nat
    /\ \A w \in Handlers :
         /\ h[w].pc \in {"idle", "take", "withdraw", "admit"} \cup Committing
         /\ h[w].request \in Requests \cup {Nobody} /\ h[w].current \in BOOLEAN
    /\ faults \in [count: 0..MaxFaults, overrun: BOOLEAN]

(* docs/mcp-gateway.md:150: repeating a call reaches the same ActionRequest *)
(* - crashes, takeovers and releases never commit a second one.             *)
OneRequestPerCall == Cardinality(plans) <= 1

(* The executor of an immediately executed request is called at most once,  *)
(* however often the commit is resumed.                                     *)
ExecutesAtMostOnce == calls <= 1

(* What a client was told stays the answer: a finished row is never taken   *)
(* over, removed or answered otherwise, whatever handlers it overtook.      *)
AnswerIsFinal == [][inv.status \in {"committed", "completed"} => inv' = inv]_vars

Answered == inv.status \in {"committed", "completed"}

(* Whatever became of the leases: a call that was told "executed" is one    *)
(* whose executor was called, and a Task the client may wait for is one     *)
(* whose Workflow runs, although takeOver may have written the row back.    *)
AnswerIsFounded ==
    Answered =>
        /\ inv.response = "executed" => calls = 1
        /\ inv.status = "committed" => inv.request \in started

(* An answer about an execution is the stored result; a refused call made   *)
(* no request, and a withdrawn one has not called the executor.             *)
AnswerIsTrue ==
    Answered =>
        /\ inv.response \in Outcomes => result = inv.response
        /\ inv.response = "authorization_denied" => plans = {}
        /\ inv.response = "cancelled" => calls = 0

(* A Task whose commit was interrupted is committed (or withdrawn) as long  *)
(* as its client keeps asking and no lease ran out under its handler.       *)
TasksAreCommitted ==
    (inv.status = "prepared" /\ inv.kind = "approval") ~> (Answered \/ faults.overrun)

(* Every answer is founded.  While no lease has run out under its handler,  *)
(* a call stands for one request and its answer is true of it.              *)
CallIsHonoured ==
    /\ AnswerIsFounded
    /\ faults.overrun \/ (OneRequestPerCall /\ AnswerIsTrue)

(* One execution behind one answer, and both for good.                      *)
OneLastingAnswer == []ExecutesAtMostOnce /\ AnswerIsFinal
=============================================================================
