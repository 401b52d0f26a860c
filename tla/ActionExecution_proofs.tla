----------------------- MODULE ActionExecution_proofs -----------------------
(***************************************************************************)
(* What follows an approval: the execution of the action, and the          *)
(* notification of its events.                                             *)
(* The execution, for any number of retries, workers and completions of    *)
(* other adapters: the effect happens at most once, the result and the     *)
(* folded status tell what happened downstream, and neither a result nor a *)
(* completion ever changes. The invariant says, for each phase of the      *)
(* instance, what has been told so far (PhaseOK), what the service has     *)
(* been asked (ServiceOK), and, once an acceptance is stored, what the     *)
(* log, the result and the calls of the port agree on (RowOK, CallsOK).    *)
(* Borne are the statuses that what happened bears out.                    *)
(* The notification, for any number of recipients, crons, consumers and    *)
(* troubles: deliveries recorded as sent were posted, and no recipient is  *)
(* lost out of sight. The invariant (OutboxInv) says what a consumer still *)
(* has to do, and that a recipient who is not settled has a message        *)
(* somewhere (Followed). The alerts that watch the outbox have an          *)
(* invariant of their own (AlertInv).                                      *)
(***************************************************************************)
EXTENDS ActionExecution, MCNotificationOutbox, FiniteSetTheorems, TLAPS

Auth == {"authorization_revoked", "authorization_check_failed"}
Verdicts == {o \in [type: {"completed"}, status: Failures \cup {"executed"}, evidence: BOOLEAN,
                    keyed: BOOLEAN] :
               (o.evidence <=> o.status \notin Auth) /\ (o.keyed => o.evidence)}
Answers == [type: {"none", "failed", "authorized", "described", "accepted", "projected",
                   "recorded", "completed"}]
Pcs == {"reauthorize", "describe", "execute", "accept", "project", "fail", "over"}
Plain == [pc: Pcs, stage: {"body", "called", "done"}, attempt: Nat, got: Answers \cup Verdicts]
Projecting == [pc: {"project"}, stage: {"body", "done"}, attempt: Nat, got: Answers \cup Verdicts,
               outcome: Verdicts]

Has(l, type) == \E f \in l.events : f.type = type /\ f.on = << >>

(* The statuses that what happened downstream bears out, and will.          *)
Borne == {status \in Failures \cup {"executed"} :
    /\ status = "executed" =>
         service.effects > 0 /\ (executor.kind = "async" => service.run = "executed")
    /\ status \in Auth => service.calls = 0
    /\ status = "execution_failed" /\ executor.kind = "sync" /\ ~Idempotent =>
         service.effects = 0 /\ service.handled = service.calls}

ServiceOK ==
    /\ executor \in [kind: Kinds, guarantee: Guarantees]
    /\ service \in [calls: Nat, handled: Nat, effects: Nat,
                    answer: {"none", "performed", "refused"},
                    run: {"none", "running"} \cup RunOutcomes, delivered: BOOLEAN]
    /\ service.handled <= service.calls /\ service.effects <= service.handled
    /\ service.effects <= 1
    /\ ~Idempotent => service.calls <= 1
    /\ service.answer = "performed" => service.effects > 0
    /\ service.answer # "none" => service.handled > 0
    /\ service.answer = "refused" /\ ~Idempotent => service.effects = 0
    /\ service.run # "none" => service.effects > 0

(* The answers a step may get.                                              *)
AnswersOf(pc) ==
    CASE pc = "reauthorize" -> {"none", "failed", "completed", "authorized"}
      [] pc = "describe" -> {"none", "failed", "completed", "described"}
      [] pc = "execute" -> {"none", "failed", "completed", "accepted"}
      [] pc \in {"accept", "fail"} -> {"none", "recorded"}
      [] pc = "project" -> {"none", "projected"}
      [] pc = "over" -> {"completed", "accepted", "failed"}

ExecOK ==
    /\ exec \in Plain \cup Projecting
    /\ exec.pc = "project" <=> exec \in Projecting
    /\ exec.attempt <= RetryLimit(exec.pc)
    /\ exec.got.type \in AnswersOf(exec.pc)
    /\ exec.stage = "done" <=> exec.got.type # "none"
    /\ exec.stage = "called" => exec.pc = "execute"
    /\ exec.pc \in {"reauthorize", "describe"} => service.calls = 0
    /\ exec.pc = "execute" =>
         service.calls <= IF exec.stage = "body" THEN exec.attempt ELSE exec.attempt + 1
    /\ exec.got.type = "completed" /\ exec.pc # "over" => exec.got \in Verdicts /\ exec.got.status \in Borne
    /\ exec.pc = "accept" \/ (exec.pc = "execute" /\ exec.got.type = "accepted") => executor.kind = "async"

IsLog(l) == l = [events |-> l.events, status |-> l.status] /\ l.status \in Lifecycle!Statuses

Untouched == log = EmptyLog(FALSE) /\ result = NoResult

(* Every event that Outcome would insert is there.                          *)
Told(l, o) ==
    /\ ~o.evidence /\ o.status = "authorization_revoked" => Has(l, "action.reauthorization_denied")
    /\ ~o.evidence /\ o.status = "authorization_check_failed" =>
         Has(l, "action.reauthorization_check_failed")
    /\ o.evidence => Has(l, "action.reauthorized")
    /\ o.keyed => Has(l, "action.execution_started")
    /\ o.status \in {"execution_failed", "execution_unknown"} => Has(l, "action.execution_failed")
    /\ Has(l, "action.completed")

(* As long as no acceptance is stored, only the instance tells anything.    *)
PhaseOK ==
    async.status = "absent" =>
      /\ async.completion = "none" /\ cancel = "idle"
      /\ \A w \in Workers : call[w].pc = "idle"
      /\ exec.pc \in {"reauthorize", "describe", "execute", "accept"} => Untouched
      /\ exec.pc = "project" =>
           /\ exec.outcome.status \in Borne
           /\ \/ Untouched
              \/ /\ Told(log, exec.outcome)
                 /\ log.status = exec.outcome.status /\ result = exec.outcome.status
      /\ result = NoResult \/ (log.status = result /\ result \in Borne)

RowOK ==
    /\ async \in [status: {"absent", "accepted", "cancel_requested", "completed"},
                  completion: {"none"} \cup Completions]
    /\ async.status = "completed" <=> async.completion # "none"
    /\ cancel \in {"idle", "audit"}
    /\ async.status # "absent" =>
         /\ exec.pc \in {"accept", "fail", "over"} /\ executor.kind = "async"
         /\ Has(log, "action.reauthorized") /\ Has(log, "action.execution_started")
         /\ Has(log, "action.execution_accepted")
         /\ log.status \in {"executing", "failed", async.completion}
         /\ Has(log, "action.completed") => async.completion # "none" /\ log.status # "executing"
         /\ ~Has(log, "action.completed") => log.status \in {"executing", "failed"} /\ result = NoResult
         /\ result \in {NoResult, async.completion}
         /\ async.completion # "none" => async.completion \in Borne

Reports == Strays \cup [ref: {Own}, status: RunOutcomes]
Calls == [pc: {"idle", "mark"}] \cup [pc: {"loaded"}, report: Reports, marks: BOOLEAN]
         \cup [pc: {"project"}, marks: BOOLEAN]
         \cup [pc: {"reject"}, ref: {r.ref : r \in Reports},
               code: {"completion_binding_mismatch", "completion_conflict"}]

(* The calls the rows and what happened downstream allow.                   *)
Sound == {c \in Calls :
    /\ c.pc = "loaded" => c \in [pc: {"loaded"}, report: Reports, marks: BOOLEAN]
                          /\ (BindingMatches(c.report) => c.report.status \in Borne)
    /\ c.pc = "project" => c \in [pc: {"project"}, marks: BOOLEAN] /\ async.status = "completed"}

CallsOK == call \in [Workers -> Sound]

IInv == ServiceOK /\ ExecOK /\ IsLog(log) /\ PhaseOK /\ RowOK /\ CallsOK

-----------------------------------------------------------------------------
(* What inserting an event does to the log and to its fold.                 *)
LEMMA HasWhole ==
    ASSUME NEW l, NEW t, NEW d
    PROVE  HasKey(l, Whole(t, d)) <=> Has(l, t)
BY DEF HasKey, SameKey, Whole, Event, Has

LEMMA InsertAgain ==
    ASSUME NEW l, NEW t, NEW d, Has(l, t)
    PROVE  Insert(l, Whole(t, d)) = l
BY HasWhole DEF Insert

LEMMA InsertNew ==
    ASSUME NEW l, NEW t, NEW d, ~Has(l, t)
    PROVE  Insert(l, Whole(t, d)) = [events |-> l.events \cup {Whole(t, d)},
                                    status |-> Lifecycle!Applied(l.status, Whole(t, d))]
BY HasWhole DEF Insert

LEMMA InsertHas ==
    ASSUME NEW l, NEW t, NEW d
    PROVE  \A u : Has(Insert(l, Whole(t, d)), u) <=> Has(l, u) \/ u = t
  <1> SUFFICES ASSUME NEW u PROVE Has(Insert(l, Whole(t, d)), u) <=> Has(l, u) \/ u = t
    OBVIOUS
  <1>1. CASE Has(l, t)
    BY <1>1, InsertAgain
  <1>2. CASE ~Has(l, t)
    <2>1. Insert(l, Whole(t, d)).events = l.events \cup {Whole(t, d)}
      BY <1>2, InsertNew
    <2>2. Whole(t, d).type = t /\ Whole(t, d).on = << >>
      BY DEF Whole, Event
    <2> QED BY <2>1, <2>2 DEF Has
  <1> QED BY <1>1, <1>2

LEMMA AppliedIsStatus ==
    ASSUME NEW s \in Lifecycle!Statuses, NEW e
    PROVE  Lifecycle!Applied(s, e) \in Lifecycle!Statuses
BY DEF Lifecycle!Applied, Lifecycle!CanTransition, Lifecycle!Transitions, Lifecycle!Statuses,
       Lifecycle!Terminal

LEMMA InsertIsLog ==
    ASSUME NEW l, IsLog(l), NEW t, NEW d
    PROVE  IsLog(Insert(l, Whole(t, d)))
  <1>1. CASE Has(l, t)
    BY <1>1, InsertAgain
  <1>2. CASE ~Has(l, t)
    BY <1>2, InsertNew, AppliedIsStatus DEF IsLog
  <1> QED BY <1>1, <1>2

(* Events that leave the status alone.                                      *)
QuietTypes == {"action.execution_failed", "action.reauthorization_denied",
          "action.reauthorization_check_failed"}

LEMMA QuietInsert ==
    ASSUME NEW l, IsLog(l), NEW t \in QuietTypes, NEW d
    PROVE  Insert(l, Whole(t, d)).status = l.status
  <1>1. Lifecycle!Applied(l.status, Whole(t, d)) = l.status
    BY DEF Lifecycle!Applied, Lifecycle!TargetOf, Lifecycle!CanTransition, Whole, Event, QuietTypes
  <1> QED BY <1>1, InsertAgain, InsertNew

StartTypes == {"action.reauthorized", "action.execution_started", "action.execution_accepted"}

LEMMA StartInsert ==
    ASSUME NEW l, IsLog(l), NEW t \in StartTypes, l.status \in {"approved", "executing"}, ~Has(l, t)
    PROVE  Insert(l, Whole(t, "none")).status = "executing"
  <1>1. Lifecycle!Applied(l.status, Whole(t, "none")) = "executing"
    <2>1. Lifecycle!TargetOf(Whole(t, "none"), l.status) = "executing"
      BY DEF Lifecycle!TargetOf, Whole, Event, StartTypes
    <2>2. Lifecycle!CanTransition(l.status, "executing")
      BY DEF Lifecycle!CanTransition, Lifecycle!Transitions, Lifecycle!Terminal
    <2> QED BY <2>1, <2>2 DEF Lifecycle!Applied
  <1> QED BY <1>1, InsertNew

LEMMA CompletedInsert ==
    ASSUME NEW l, IsLog(l), NEW d, ~Has(l, "action.completed")
    PROVE  Insert(l, Whole("action.completed", d)).status
             = IF Lifecycle!CanTransition(l.status, d) THEN d ELSE l.status
  <1>1. Lifecycle!Applied(l.status, Whole("action.completed", d))
          = IF Lifecycle!CanTransition(l.status, d) THEN d ELSE l.status
    BY DEF Lifecycle!Applied, Lifecycle!TargetOf, Whole, Event
  <1> QED BY <1>1, InsertNew

-----------------------------------------------------------------------------
(* Insert, when a condition holds.                                          *)
PutEvent(l, said, t, d) == IF said THEN Insert(l, Whole(t, d)) ELSE l

LEMMA PutIsLog ==
    ASSUME NEW l, IsLog(l), NEW said \in BOOLEAN, NEW t, NEW d
    PROVE  IsLog(PutEvent(l, said, t, d))
BY InsertIsLog DEF PutEvent

LEMMA PutHas ==
    ASSUME NEW l, NEW said \in BOOLEAN, NEW t, NEW d
    PROVE  \A u : Has(PutEvent(l, said, t, d), u) <=> Has(l, u) \/ (said /\ u = t)
BY InsertHas DEF PutEvent

LEMMA PutAgain ==
    ASSUME NEW l, NEW said \in BOOLEAN, NEW t, NEW d, said => Has(l, t)
    PROVE  PutEvent(l, said, t, d) = l
BY InsertAgain DEF PutEvent

Denied(o) == ~o.evidence /\ o.status = "authorization_revoked"
Unchecked(o) == ~o.evidence /\ o.status = "authorization_check_failed"
Failing(o) == o.status \in {"execution_failed", "execution_unknown"}

(* Outcome, one event after the other.                                      *)
Denial(l, o) == PutEvent(PutEvent(l, Denied(o), "action.reauthorization_denied", "none"),
                    Unchecked(o), "action.reauthorization_check_failed", "none")
Start(l, o) == PutEvent(PutEvent(l, o.evidence, "action.reauthorized", "none"),
                   o.keyed, "action.execution_started", "none")
Failure(l, o) == PutEvent(Start(Denial(l, o), o), Failing(o), "action.execution_failed", "none")

Bits(o) == o.evidence \in BOOLEAN /\ o.keyed \in BOOLEAN

LEMMA OutcomeInOrder ==
    ASSUME NEW l, NEW o, Bits(o)
    PROVE  Outcome(l, o) = Insert(Failure(l, o), Whole("action.completed", o.status))
  <1>1. Denial(l, o) = CASE ~o.evidence /\ o.status = "authorization_revoked" ->
                              Insert(l, Whole("action.reauthorization_denied", "none"))
                         [] ~o.evidence /\ o.status = "authorization_check_failed" ->
                              Insert(l, Whole("action.reauthorization_check_failed", "none"))
                         [] OTHER -> l
    BY DEF Denial, PutEvent, Denied, Unchecked, Bits
  <1>2. \A m : Start(m, o) = Started(m, o.evidence, o.keyed)
    BY DEF Start, PutEvent, Started, Bits
  <1>3. \A m : PutEvent(m, Failing(o), "action.execution_failed", "none")
                  = IF o.status \in {"execution_failed", "execution_unknown"}
                    THEN Insert(m, Whole("action.execution_failed", "none")) ELSE m
    BY DEF PutEvent, Failing
  <1> QED BY <1>1, <1>2, <1>3 DEF Outcome, Failure

LEMMA OutcomeSteps ==
    ASSUME NEW l, IsLog(l), NEW o, Bits(o)
    PROVE  /\ IsLog(Denial(l, o)) /\ IsLog(Start(Denial(l, o), o)) /\ IsLog(Failure(l, o))
           /\ Denial(l, o).status = l.status
           /\ Failure(l, o).status = Start(Denial(l, o), o).status
  <1>1. Denied(o) \in BOOLEAN /\ Unchecked(o) \in BOOLEAN /\ Failing(o) \in BOOLEAN
    BY DEF Denied, Unchecked, Failing
  <1>2. IsLog(PutEvent(l, Denied(o), "action.reauthorization_denied", "none"))
    BY <1>1, PutIsLog
  <1>3. IsLog(Denial(l, o))
    BY <1>1, <1>2, PutIsLog DEF Denial
  <1>4. IsLog(PutEvent(Denial(l, o), o.evidence, "action.reauthorized", "none"))
    BY <1>3, PutIsLog DEF Bits
  <1>5. IsLog(Start(Denial(l, o), o))
    BY <1>4, PutIsLog DEF Bits, Start
  <1>6. IsLog(Failure(l, o))
    BY <1>1, <1>5, PutIsLog DEF Failure
  <1>7. Denial(l, o).status = l.status
    BY <1>2, QuietInsert DEF Denial, PutEvent, QuietTypes
  <1>8. Failure(l, o).status = Start(Denial(l, o), o).status
    BY <1>5, QuietInsert DEF Failure, PutEvent, QuietTypes
  <1> QED BY <1>3, <1>5, <1>6, <1>7, <1>8

LEMMA OutcomeHas ==
    ASSUME NEW l, NEW o, Bits(o)
    PROVE  /\ \A u : Has(Denial(l, o), u) <=>
                 \/ Has(l, u)
                 \/ Denied(o) /\ u = "action.reauthorization_denied"
                 \/ Unchecked(o) /\ u = "action.reauthorization_check_failed"
           /\ \A u : Has(Start(Denial(l, o), o), u) <=>
                 \/ Has(Denial(l, o), u)
                 \/ o.evidence /\ u = "action.reauthorized"
                 \/ o.keyed /\ u = "action.execution_started"
           /\ \A u : Has(Failure(l, o), u) <=>
                 Has(Start(Denial(l, o), o), u) \/ (Failing(o) /\ u = "action.execution_failed")
           /\ \A u : Has(Outcome(l, o), u) <=>
                 \/ Has(Denial(l, o), u)
                 \/ o.evidence /\ u = "action.reauthorized"
                 \/ o.keyed /\ u = "action.execution_started"
                 \/ Failing(o) /\ u = "action.execution_failed"
                 \/ u = "action.completed"
  <1>1. Denied(o) \in BOOLEAN /\ Unchecked(o) \in BOOLEAN /\ Failing(o) \in BOOLEAN
    BY DEF Denied, Unchecked, Failing
  <1>2. \A u : Has(Denial(l, o), u) <=>
                 \/ Has(l, u)
                 \/ Denied(o) /\ u = "action.reauthorization_denied"
                 \/ Unchecked(o) /\ u = "action.reauthorization_check_failed"
    BY <1>1, PutHas DEF Denial
  <1>3. \A u : Has(Start(Denial(l, o), o), u) <=>
                 \/ Has(Denial(l, o), u)
                 \/ o.evidence /\ u = "action.reauthorized"
                 \/ o.keyed /\ u = "action.execution_started"
    BY PutHas DEF Start, Bits
  <1>4. \A u : Has(Failure(l, o), u) <=>
                 Has(Start(Denial(l, o), o), u) \/ (Failing(o) /\ u = "action.execution_failed")
    BY <1>1, PutHas DEF Failure
  <1>5. \A u : Has(Outcome(l, o), u) <=> Has(Failure(l, o), u) \/ u = "action.completed"
    BY OutcomeInOrder, InsertHas
  <1> QED BY <1>2, <1>3, <1>4, <1>5

LEMMA OutcomeTold ==
    ASSUME NEW l, NEW o, Bits(o)
    PROVE  Told(Outcome(l, o), o)
BY OutcomeHas DEF Told, Denied, Unchecked, Failing

(* Telling it again inserts nothing.                                        *)
LEMMA OutcomeAgain ==
    ASSUME NEW l, NEW o, Bits(o), Told(l, o)
    PROVE  Outcome(l, o) = l
  <1>1. Denied(o) \in BOOLEAN /\ Unchecked(o) \in BOOLEAN /\ Failing(o) \in BOOLEAN
    BY DEF Denied, Unchecked, Failing
  <1>2. Denial(l, o) = l
    <2>1. Denied(o) => Has(l, "action.reauthorization_denied")
      BY DEF Told, Denied
    <2>2. Unchecked(o) => Has(l, "action.reauthorization_check_failed")
      BY DEF Told, Unchecked
    <2> QED BY <1>1, <2>1, <2>2, PutAgain DEF Denial
  <1>3. Start(l, o) = l
    BY PutAgain DEF Start, Told, Bits
  <1>4. Failure(l, o) = l
    BY ZenonT(60), <1>1, <1>2, <1>3, PutAgain DEF Failure, Told, Failing
  <1> QED BY <1>4, OutcomeInOrder, InsertAgain DEF Told

LEMMA EmptyIsLog ==
    /\ IsLog(EmptyLog(FALSE)) /\ EmptyLog(FALSE).status = "approved"
    /\ \A u : ~Has(EmptyLog(FALSE), u)
BY DEF IsLog, EmptyLog, Has, Lifecycle!StatusOfPlan, Lifecycle!Statuses

LEMMA OutcomeIsLog ==
    ASSUME NEW l, IsLog(l), NEW o, Bits(o)
    PROVE  IsLog(Outcome(l, o))
BY OutcomeInOrder, OutcomeSteps, InsertIsLog

(* Of an instance's own verdict.                                            *)
LEMMA OutcomeOfEmpty ==
    ASSUME NEW o \in Verdicts
    PROVE  /\ Bits(o) /\ IsLog(Outcome(EmptyLog(FALSE), o))
           /\ Outcome(EmptyLog(FALSE), o).status = o.status
  <1> DEFINE l == EmptyLog(FALSE)
  <1>1. Bits(o)
    BY DEF Verdicts, Bits
  <1>2. IsLog(l) /\ l.status = "approved" /\ \A u : ~Has(l, u)
    BY EmptyIsLog
  <1> HIDE DEF l
  <1>3. /\ IsLog(Denial(l, o)) /\ IsLog(Failure(l, o)) /\ Denial(l, o).status = "approved"
        /\ Failure(l, o).status = Start(Denial(l, o), o).status
    BY <1>1, <1>2, OutcomeSteps
  <1>4. /\ ~Has(Denial(l, o), "action.reauthorized") /\ ~Has(Denial(l, o), "action.execution_started")
    BY <1>1, <1>2, OutcomeHas
  <1>5. CASE o.evidence
    <2> DEFINE m == Insert(Denial(l, o), Whole("action.reauthorized", "none"))
    <2>1. IsLog(m) /\ m.status = "executing" /\ ~Has(m, "action.execution_started")
      BY <1>3, <1>4, StartInsert, InsertIsLog, InsertHas DEF StartTypes
    <2> HIDE DEF m
    <2>2. Start(Denial(l, o), o) = PutEvent(m, o.keyed, "action.execution_started", "none")
      BY <1>5 DEF Start, PutEvent, m
    <2>3. Start(Denial(l, o), o).status = "executing"
      BY <2>1, <2>2, StartInsert DEF PutEvent, StartTypes
    <2>4. ~Has(Failure(l, o), "action.completed")
      BY <1>1, <1>2, OutcomeHas
    <2>5. Lifecycle!CanTransition("executing", o.status)
      BY <1>5 DEF Verdicts, Auth, Failures, Lifecycle!CanTransition, Lifecycle!Transitions, Lifecycle!Terminal
    <2>6. IsLog(Outcome(l, o)) /\ Outcome(l, o).status = o.status
      BY <1>1, <1>2, <1>3, <2>3, <2>4, <2>5, OutcomeInOrder, OutcomeIsLog, CompletedInsert
    <2> QED BY <1>1, <2>6 DEF l
  <1>6. CASE ~o.evidence
    <2>1. ~o.keyed /\ o.status \in Auth
      BY <1>6 DEF Verdicts
    <2>2. Start(Denial(l, o), o) = Denial(l, o)
      BY <1>6, <2>1 DEF Start, PutEvent
    <2>3. ~Has(Failure(l, o), "action.completed")
      BY <1>1, <1>2, OutcomeHas
    <2>4. Lifecycle!CanTransition("approved", o.status)
      BY <2>1 DEF Auth, Lifecycle!CanTransition, Lifecycle!Transitions, Lifecycle!Terminal
    <2>5. IsLog(Outcome(l, o)) /\ Outcome(l, o).status = o.status
      BY <1>1, <1>2, <1>3, <2>2, <2>3, <2>4, OutcomeInOrder, OutcomeIsLog, CompletedInsert
    <2> QED BY <1>1, <2>5 DEF l
  <1> QED BY <1>5, <1>6

(* Of the completion of an accepted run.                                    *)
LEMMA OutcomeOfRun ==
    ASSUME NEW l, IsLog(l), Has(l, "action.execution_started"), NEW c \in Completions
    PROVE  LET m == Outcome(l, Terminal(c, FALSE, TRUE))
           IN  /\ IsLog(m) /\ Has(m, "action.completed") /\ \A u : Has(l, u) => Has(m, u)
               /\ m.status = IF ~Has(l, "action.completed") /\ Lifecycle!CanTransition(l.status, c)
                             THEN c ELSE l.status
  <1> DEFINE o == Terminal(c, FALSE, TRUE)
  <1>1. o.status = c /\ ~o.evidence /\ o.keyed /\ Bits(o)
    BY DEF Terminal, Bits
  <1> HIDE DEF o
  <1>2. ~Denied(o) /\ ~Unchecked(o)
    BY <1>1 DEF Denied, Unchecked, Completions, RunOutcomes
  <1>3. Denial(l, o) = l
    BY <1>2 DEF Denial, PutEvent
  <1>4. Start(l, o) = l
    BY <1>1, InsertAgain DEF Start, PutEvent
  <1>5. IsLog(Failure(l, o)) /\ Failure(l, o).status = l.status
    BY <1>1, <1>3, <1>4, OutcomeSteps
  <1>6. Has(Failure(l, o), "action.completed") <=> Has(l, "action.completed")
    BY <1>1, <1>3, <1>4, OutcomeHas
  <1>7. Outcome(l, o) = Insert(Failure(l, o), Whole("action.completed", c))
    BY <1>1, OutcomeInOrder
  <1>8. IsLog(Outcome(l, o)) /\ Has(Outcome(l, o), "action.completed")
        /\ \A u : Has(l, u) => Has(Outcome(l, o), u)
    BY <1>1, OutcomeIsLog, OutcomeHas
  <1>9. Outcome(l, o).status = IF ~Has(l, "action.completed") /\ Lifecycle!CanTransition(l.status, c)
                              THEN c ELSE l.status
    BY <1>5, <1>6, <1>7, CompletedInsert, InsertAgain
  <1> QED BY <1>8, <1>9 DEF o

LEMMA AcceptedTwice ==
    ASSUME NEW l, \A t \in StartTypes : Has(l, t)
    PROVE  Accepted(l) = l
BY InsertAgain DEF Accepted, Started, StartTypes

LEMMA AcceptedOnce ==
    LET l == Accepted(EmptyLog(FALSE))
    IN  /\ IsLog(l) /\ l.status = "executing" /\ \A u : Has(l, u) <=> u \in StartTypes
  <1> DEFINE l1 == Insert(EmptyLog(FALSE), Whole("action.reauthorized", "none"))
             l2 == Insert(l1, Whole("action.execution_started", "none"))
             l3 == Insert(l2, Whole("action.execution_accepted", "none"))
  <1>1. IsLog(l1) /\ l1.status = "executing" /\ \A u : Has(l1, u) <=> u = "action.reauthorized"
    BY EmptyIsLog, StartInsert, InsertIsLog, InsertHas DEF StartTypes
  <1> HIDE DEF l1
  <1>2. /\ IsLog(l2) /\ l2.status = "executing"
        /\ \A u : Has(l2, u) <=> u \in {"action.reauthorized", "action.execution_started"}
    BY <1>1, StartInsert, InsertIsLog, InsertHas DEF StartTypes
  <1> HIDE DEF l2
  <1>3. IsLog(l3) /\ l3.status = "executing" /\ \A u : Has(l3, u) <=> u \in StartTypes
    BY <1>2, StartInsert, InsertIsLog, InsertHas DEF StartTypes
  <1>4. Accepted(EmptyLog(FALSE)) = l3
    BY DEF Accepted, Started, l1, l2
  <1> QED BY <1>3, <1>4

-----------------------------------------------------------------------------
LEMMA InitInv == Init => IInv
  <1> SUFFICES ASSUME Init PROVE IInv
    OBVIOUS
  <1>1. exec = [pc |-> "reauthorize", stage |-> "body", attempt |-> 0, got |-> Nothing]
    BY DEF Init
  <1>2. RetryLimit("reauthorize") \in Nat
    BY ExecutionBounds DEF RetryLimit
  <1>3. ServiceOK
    BY DEF Init, ServiceOK
  <1>4. ExecOK
    BY <1>1, <1>2 DEF Init, ExecOK, AnswersOf, Plain, Projecting, Pcs, Answers, Nothing
  <1>5. IsLog(log) /\ Untouched
    BY EmptyIsLog DEF Init, Untouched
  <1>6. \A w \in Workers : call[w] = Idle
    BY DEF Init
  <1>7. PhaseOK
    BY <1>1, <1>5, <1>6 DEF Init, PhaseOK, Idle, Untouched
  <1>8. RowOK
    BY DEF Init, RowOK
  <1>9. CallsOK
    BY <1>6 DEF Init, CallsOK, Sound, Calls, Idle
  <1> QED BY <1>3, <1>4, <1>5, <1>7, <1>8, <1>9 DEF IInv

(* A worker's call moves on, or all stay, and what they rely on still holds.*)
LEMMA CallsStay ==
    ASSUME CallsOK, Borne \subseteq Borne',
           async.status = "completed" => async'.status = "completed",
           call' = call \/ \E w \in Workers, c \in Sound' : call' = [call EXCEPT ![w] = c]
    PROVE  CallsOK'
  <1>1. Sound \subseteq Sound'
    BY DEF Sound
  <1> QED BY <1>1 DEF CallsOK
-----------------------------------------------------------------------------
(* The ways the instance goes on, while executor and service stay.          *)
Beginning == {"reauthorize", "describe", "execute"}
TellsNothing == UNCHANGED <<executor, service, result, async, call, cancel, log>>

LEMMA LimitIsNat == \A pc : RetryLimit(pc) \in Nat
BY ExecutionBounds DEF RetryLimit

LEMMA GotOK ==
    ASSUME IInv, UNCHANGED <<executor, service>>, NEW answer \in Answers \cup Verdicts, Got(answer),
           exec.stage # "done", exec.pc # "over", answer.type \in AnswersOf(exec.pc),
           answer.type # "none", answer.type = "completed" => answer \in Verdicts /\ answer.status \in Borne,
           answer.type = "accepted" => executor.kind = "async"
    PROVE  /\ ExecOK' /\ exec'.pc = exec.pc
           /\ exec.pc = "project" => exec'.outcome = exec.outcome
  <1>1. exec' = [exec EXCEPT !.stage = "done", !.got = answer]
    BY DEF Got
  <1>2. Borne' = Borne
    BY DEF Borne, Idempotent
  <1>3. \A pc : RetryLimit(pc)' = RetryLimit(pc)
    BY DEF RetryLimit, Idempotent
  <1>4. CASE exec \in Plain
    <2>1. exec' \in Plain /\ exec'.pc = exec.pc /\ exec'.stage = "done" /\ exec'.got = answer
          /\ exec'.attempt = exec.attempt
      BY <1>1, <1>4 DEF Plain
    <2>2. exec.pc # "project" /\ exec' \notin Projecting
      BY <1>4, <2>1 DEF IInv, ExecOK, Plain, Projecting
    <2>3. exec.attempt <= RetryLimit(exec.pc) /\ (exec.stage = "called" => exec.pc = "execute")
          /\ (exec.pc \in {"reauthorize", "describe"} => service.calls = 0)
          /\ (exec.pc = "execute" => service.calls <= exec.attempt + 1)
          /\ (exec.pc = "accept" => executor.kind = "async")
      BY <1>4 DEF IInv, ExecOK, ServiceOK, Plain
    <2> QED BY <1>2, <1>3, <2>1, <2>2, <2>3 DEF ExecOK
  <1>5. CASE exec \in Projecting
    <2>1. exec' \in Projecting /\ exec'.pc = exec.pc /\ exec'.stage = "done" /\ exec'.got = answer
          /\ exec'.attempt = exec.attempt /\ exec'.outcome = exec.outcome
      BY <1>1, <1>5 DEF Projecting
    <2>2. exec.pc = "project"
      BY <1>5 DEF Projecting
    <2> QED BY <1>2, <2>1, <2>2 DEF IInv, ExecOK, RetryLimit, Idempotent, AnswersOf
  <1> QED BY <1>4, <1>5 DEF IInv, ExecOK

LEMMA EnterOK ==
    ASSUME IInv, UNCHANGED <<executor, service>>, NEW pc \in Pcs \ {"project", "over"}, exec' = Enter(pc),
           pc \in Beginning => service.calls = 0, pc = "accept" => executor.kind = "async"
    PROVE  ExecOK' /\ exec'.pc = pc
  <1>1. exec' \in Plain /\ exec'.pc = pc /\ exec'.stage = "body" /\ exec'.attempt = 0
        /\ exec'.got.type = "none"
    BY DEF Enter, Plain, Nothing, Answers
  <1>2. exec' \notin Projecting
    BY <1>1 DEF Projecting
  <1>3. "none" \in AnswersOf(pc)
    BY DEF AnswersOf, Pcs
  <1>4. 0 <= RetryLimit(pc)'
    BY LimitIsNat DEF RetryLimit, Idempotent
  <1> QED BY <1>1, <1>2, <1>3, <1>4 DEF ExecOK, Beginning

LEMMA ProjectOK ==
    ASSUME IInv, UNCHANGED <<executor, service>>, NEW o \in Verdicts, exec' = Project(o)
    PROVE  ExecOK' /\ exec'.pc = "project" /\ exec'.outcome = o
  <1>1. exec' \in Projecting /\ exec'.pc = "project" /\ exec'.stage = "body" /\ exec'.attempt = 0
        /\ exec'.got.type = "none" /\ exec'.outcome = o
    BY DEF Project, Projecting, Nothing, Answers
  <1>2. "none" \in AnswersOf("project")
    BY DEF AnswersOf
  <1>3. 0 <= RetryLimit("project")'
    BY ExecutionBounds DEF RetryLimit
  <1> QED BY <1>1, <1>2, <1>3 DEF ExecOK

LEMMA OverOK ==
    ASSUME IInv, UNCHANGED <<executor, service>>, NEW output \in {"completed", "accepted", "failed"},
           exec' = Over(output)
    PROVE  ExecOK' /\ exec'.pc = "over"
  <1>1. exec' \in Plain /\ exec'.pc = "over" /\ exec'.stage = "done" /\ exec'.attempt = 0
        /\ exec'.got.type = output
    BY DEF Over, Plain, Answer, Answers, Pcs
  <1>2. exec' \notin Projecting
    BY <1>1 DEF Projecting
  <1>3. output \in AnswersOf("over")
    BY DEF AnswersOf
  <1>4. 0 <= RetryLimit("over")'
    BY ExecutionBounds DEF RetryLimit
  <1> QED BY <1>1, <1>2, <1>3, <1>4 DEF ExecOK

(* A step of the instance that tells nothing.                               *)
LEMMA ExecMoves ==
    ASSUME IInv, TellsNothing, ExecOK',
           exec'.pc \in Beginning \cup {"accept"} => exec.pc \in Beginning \cup {"accept"},
           exec'.pc = "project" =>
             \/ exec.pc = "project" /\ exec'.outcome = exec.outcome
             \/ exec.pc \in Beginning /\ exec'.outcome.status \in Borne,
           exec.pc \in {"accept", "fail", "over"} => exec'.pc \in {"accept", "fail", "over"}
    PROVE  IInv'
  <1>1. Borne' = Borne
    BY DEF Borne, Idempotent, TellsNothing
  <1>2. ServiceOK' /\ IsLog(log)'
    BY DEF IInv, ServiceOK, Idempotent, TellsNothing, IsLog
  <1>3. PhaseOK'
    <2>1. SUFFICES ASSUME async.status = "absent" PROVE PhaseOK'
      BY DEF PhaseOK, TellsNothing
    <2> QED BY <1>1, <2>1 DEF IInv, PhaseOK, TellsNothing, Untouched, Beginning, Told, Has
  <1>4. RowOK'
    BY <1>1 DEF IInv, RowOK, TellsNothing, Has
  <1>5. CallsOK'
    BY <1>1, CallsStay DEF IInv, TellsNothing
  <1> QED BY <1>2, <1>3, <1>4, <1>5 DEF IInv
LEMMA VerdictsOfSteps ==
    /\ \A status \in Auth : Terminal(status, FALSE, FALSE) \in Verdicts
    /\ \A status \in {"execution_failed", "execution_unknown"}, keyed \in BOOLEAN :
         Terminal(status, TRUE, keyed) \in Verdicts
    /\ Terminal("executed", TRUE, TRUE) \in Verdicts
    /\ \A status, evidence, keyed :
         Terminal(status, evidence, keyed).type = "completed"
         /\ Terminal(status, evidence, keyed).status = status
BY DEF Terminal, Verdicts, Auth, Failures

(* A verdict given before the executor was called, or for good.             *)
LEMMA UncalledBorne ==
    ASSUME ServiceOK, service.calls = 0
    PROVE  Auth \cup {"execution_failed"} \subseteq Borne
BY DEF ServiceOK, Borne, Auth, Failures

LEMMA RunReauthorizeInv == IInv /\ RunReauthorize => IInv'
  <1> SUFFICES ASSUME IInv, RunReauthorize PROVE IInv'
    OBVIOUS
  <1>1. exec.pc = "reauthorize" /\ exec.stage = "body" /\ TellsNothing /\ UNCHANGED <<executor, service>>
    BY DEF RunReauthorize, At, TellsNothing
  <1>2. PICK answer \in {Answer("failed"), Answer("authorized")}
                \cup {Terminal(status, FALSE, FALSE) : status \in Auth} : Got(answer)
    BY DEF RunReauthorize, Auth
  <1>3. service.calls = 0
    BY <1>1 DEF IInv, ExecOK
  <1>4. /\ answer \in Answers \cup Verdicts
        /\ answer.type \in {"failed", "completed", "authorized"}
        /\ answer.type = "completed" => answer \in Verdicts /\ answer.status \in Borne
    <2>1. CASE answer \in {Answer("failed"), Answer("authorized")}
      BY <2>1 DEF Answer, Answers
    <2>2. CASE answer \in {Terminal(status, FALSE, FALSE) : status \in Auth}
      <3>1. PICK status \in Auth : answer = Terminal(status, FALSE, FALSE)
        BY <2>2
      <3>2. answer \in Verdicts /\ answer.type = "completed" /\ answer.status = status
        BY <3>1, VerdictsOfSteps
      <3> QED BY <1>3, <3>2, UncalledBorne DEF IInv
    <2> QED BY <2>1, <2>2
  <1>5. ExecOK' /\ exec'.pc = exec.pc
    BY <1>1, <1>2, <1>4, GotOK DEF AnswersOf
  <1> QED BY <1>1, <1>5, ExecMoves DEF Beginning

LEMMA RunDescribeInv == IInv /\ RunDescribe => IInv'
  <1> SUFFICES ASSUME IInv, RunDescribe PROVE IInv'
    OBVIOUS
  <1>1. exec.pc = "describe" /\ exec.stage = "body" /\ TellsNothing /\ UNCHANGED <<executor, service>>
    BY DEF RunDescribe, At, TellsNothing
  <1>2. PICK answer \in {Answer("failed"), Answer("described"), Terminal("execution_failed", TRUE, FALSE)} :
          Got(answer)
    BY DEF RunDescribe
  <1>3. service.calls = 0
    BY <1>1 DEF IInv, ExecOK
  <1>4. /\ answer \in Answers \cup Verdicts
        /\ answer.type \in {"failed", "completed", "described"}
        /\ answer.type = "completed" => answer \in Verdicts /\ answer.status \in Borne
    <2>1. CASE answer \in {Answer("failed"), Answer("described")}
      BY <2>1 DEF Answer, Answers
    <2>2. CASE answer = Terminal("execution_failed", TRUE, FALSE)
      BY ZenonT(60), <2>2, <1>3, VerdictsOfSteps, UncalledBorne DEF IInv
    <2> QED BY <2>1, <2>2
  <1>5. ExecOK' /\ exec'.pc = exec.pc
    BY <1>1, <1>2, <1>4, GotOK DEF AnswersOf
  <1> QED BY <1>1, <1>5, ExecMoves DEF Beginning

LEMMA RunExecuteInv == IInv /\ RunExecute => IInv'
  <1> SUFFICES ASSUME IInv, RunExecute PROVE IInv'
    OBVIOUS
  <1>1. exec.pc = "execute" /\ exec.stage = "called" /\ TellsNothing /\ UNCHANGED <<executor, service>>
    BY DEF RunExecute, At, TellsNothing
  <1>2. \E answer \in Answers \cup Verdicts :
          /\ Got(answer) /\ answer.type \in {"accepted", "completed"}
          /\ answer.type = "completed" => answer \in Verdicts /\ answer.status \in Borne
          /\ answer.type = "accepted" => executor.kind = "async"
    <2>0. executor.kind \in {"sync", "async"}
          /\ executor.guarantee \in {"idempotent", "best_effort_at_most_once"}
      BY ExecutorsAssumption DEF IInv, ServiceOK
    <2>1. CASE service.answer = "performed" /\ Got(Terminal("executed", TRUE, TRUE)) /\ executor.kind = "sync"
      <3>1. "executed" \in Borne
        BY <2>1 DEF IInv, ServiceOK, Borne, Auth
      <3>3. /\ Terminal("executed", TRUE, TRUE) \in Verdicts
            /\ Terminal("executed", TRUE, TRUE).type = "completed"
            /\ Terminal("executed", TRUE, TRUE).status = "executed"
        BY VerdictsOfSteps
      <3> QED BY <2>1, <3>1, <3>3
    <2>2. CASE service.answer = "performed" /\ Got(Answer("accepted")) /\ executor.kind # "sync"
      BY <2>0, <2>2 DEF Answer, Answers
    <2>3. CASE service.answer = "refused" /\ Got(Terminal("execution_failed", TRUE, TRUE))
      <3>1. ~Idempotent => service.effects = 0 /\ service.handled = service.calls
        BY <2>3 DEF IInv, ServiceOK
      <3>2. "execution_failed" \in Borne
        BY <3>1 DEF Borne, Auth, Failures
      <3>3. /\ Terminal("execution_failed", TRUE, TRUE) \in Verdicts
            /\ Terminal("execution_failed", TRUE, TRUE).type = "completed"
            /\ Terminal("execution_failed", TRUE, TRUE).status = "execution_failed"
        BY VerdictsOfSteps
      <3> QED BY <2>3, <3>2, <3>3
    <2>4. CASE ~Idempotent /\ Got(Terminal("execution_unknown", TRUE, TRUE))
      <3>1. "execution_unknown" \in Borne
        BY DEF Borne, Auth, Failures
      <3>3. /\ Terminal("execution_unknown", TRUE, TRUE) \in Verdicts
            /\ Terminal("execution_unknown", TRUE, TRUE).type = "completed"
            /\ Terminal("execution_unknown", TRUE, TRUE).status = "execution_unknown"
        BY VerdictsOfSteps
      <3> QED BY <2>4, <3>1, <3>3
    <2> QED BY <2>0, <2>1, <2>2, <2>3, <2>4 DEF RunExecute, FailureStatus, Idempotent
  <1>3. ExecOK' /\ exec'.pc = exec.pc
    BY <1>1, <1>2, GotOK DEF AnswersOf
  <1> QED BY <1>1, <1>3, ExecMoves DEF Beginning

LEMMA CallExecutorInv == IInv /\ CallExecutor => IInv'
  <1> SUFFICES ASSUME IInv, CallExecutor PROVE IInv'
    OBVIOUS
  <1>1. exec.pc = "execute" /\ exec.stage = "body" /\ UNCHANGED <<executor, result, async, call, cancel, log>>
    BY DEF CallExecutor, At
  <1>2. CASE Got(Answer("failed")) /\ UNCHANGED service
    <2>1. Answer("failed") \in Answers /\ Answer("failed").type = "failed"
      BY DEF Answer, Answers
    <2>2. ExecOK' /\ exec'.pc = exec.pc
      BY <1>1, <1>2, <2>1, GotOK DEF AnswersOf
    <2> QED BY <1>1, <1>2, <2>2, ExecMoves DEF Beginning, TellsNothing
  <1>3. CASE exec' = [exec EXCEPT !.stage = "called"] /\ service' = [service EXCEPT !.calls = @ + 1]
    <2>1. exec \in Plain
      BY <1>1 DEF IInv, ExecOK
    <2>2. /\ exec' \in Plain /\ exec' \notin Projecting /\ exec'.pc = "execute" /\ exec'.stage = "called"
          /\ exec'.attempt = exec.attempt /\ exec'.got = exec.got
      BY <1>1, <1>3, <2>1 DEF Plain, Projecting
    <2>3. /\ service'.calls = service.calls + 1 /\ service'.handled = service.handled
          /\ service'.effects = service.effects /\ service'.answer = service.answer
          /\ service'.run = service.run /\ service'.delivered = service.delivered
      BY <1>3 DEF IInv, ServiceOK
    <2>4. service.calls \in Nat /\ service.handled \in Nat /\ service.calls <= exec.attempt
          /\ exec.attempt <= RetryLimit("execute")
      BY <1>1 DEF IInv, ServiceOK, ExecOK
    <2>5. ServiceOK'
      <3>1. ~Idempotent => service.calls = 0
        BY <2>1, <2>4 DEF RetryLimit, Plain
      <3>2. service' \in [calls: Nat, handled: Nat, effects: Nat,
                    answer: {"none", "performed", "refused"},
                    run: {"none", "running"} \cup RunOutcomes, delivered: BOOLEAN]
        BY <1>3 DEF IInv, ServiceOK
      <3> QED BY <1>1, <2>3, <2>4, <3>1, <3>2 DEF IInv, ServiceOK, Idempotent
    <2>6. ExecOK'
      <3>1. RetryLimit("execute")' = RetryLimit("execute")
        BY <1>1 DEF RetryLimit, Idempotent
      <3>2. exec.got.type = "none"
        BY <1>1 DEF IInv, ExecOK
      <3> QED BY <1>1, <2>1, <2>2, <2>3, <2>4, <3>1, <3>2 DEF ExecOK, AnswersOf, Plain
    <2>7. async.status = "absent"
      BY <1>1 DEF IInv, RowOK
    <2>8. PhaseOK' /\ IsLog(log)'
      BY <1>1, <2>2, <2>7 DEF IInv, PhaseOK, Untouched, IsLog
    <2>9. RowOK'
      BY <1>1, <2>7 DEF IInv, RowOK
    <2>10. CallsOK'
      <3>1. \A w \in Workers : call[w].pc = "idle" /\ call[w] \in Calls
        BY <2>7 DEF IInv, PhaseOK, CallsOK, Sound
      <3>2. \A w \in Workers : call'[w] \in Sound'
        BY <1>1, <3>1 DEF Sound
      <3> QED BY <1>1, <3>2 DEF IInv, CallsOK
    <2> QED BY <2>5, <2>6, <2>8, <2>9, <2>10 DEF IInv
  <1> QED BY <1>2, <1>3 DEF CallExecutor
LEMMA JournalInv == IInv /\ Journal => IInv'
  <1> SUFFICES ASSUME IInv, Journal PROVE IInv'
    OBVIOUS
  <1>1. exec.pc # "over" /\ exec.stage = "done" /\ TellsNothing /\ UNCHANGED <<executor, service>>
    BY DEF Journal, TellsNothing
  <1>2. exec.got.type \in AnswersOf(exec.pc) /\ exec.got.type # "none" /\ exec.pc \in Pcs
    BY <1>1 DEF IInv, ExecOK, Plain, Projecting, Pcs
  <1>3. CASE exec.got.type = "failed"
    <2>1. exec.pc \in Beginning /\ exec' = Enter("fail")
      BY <1>1, <1>2, <1>3 DEF Journal, AnswersOf, Pcs, Beginning
    <2>2. ExecOK' /\ exec'.pc = "fail"
      BY <1>1, <2>1, EnterOK DEF Pcs, Beginning
    <2> QED BY <1>1, <2>1, <2>2, ExecMoves DEF Beginning
  <1>4. CASE exec.got.type = "completed"
    <2>1. exec.pc \in Beginning /\ exec' = Project(exec.got)
      BY <1>1, <1>2, <1>4 DEF Journal, AnswersOf, Pcs, Beginning
    <2>2. exec.got \in Verdicts /\ exec.got.status \in Borne
      BY <1>1, <1>4 DEF IInv, ExecOK
    <2>3. ExecOK' /\ exec'.pc = "project" /\ exec'.outcome = exec.got
      BY <1>1, <2>1, <2>2, ProjectOK
    <2> QED BY <1>1, <2>1, <2>2, <2>3, ExecMoves DEF Beginning
  <1>5. CASE exec.got.type = "authorized"
    <2>1. exec.pc = "reauthorize" /\ exec' = Enter("describe")
      BY <1>1, <1>2, <1>5 DEF Journal, AnswersOf, Pcs
    <2>2. ExecOK' /\ exec'.pc = "describe"
      BY <1>1, <2>1, EnterOK DEF Pcs, IInv, ExecOK
    <2> QED BY <1>1, <2>1, <2>2, ExecMoves DEF Beginning
  <1>6. CASE exec.got.type = "described"
    <2>1. exec.pc = "describe" /\ exec' = Enter("execute")
      BY <1>1, <1>2, <1>6 DEF Journal, AnswersOf, Pcs
    <2>2. ExecOK' /\ exec'.pc = "execute"
      BY <1>1, <2>1, EnterOK DEF Pcs, IInv, ExecOK
    <2> QED BY <1>1, <2>1, <2>2, ExecMoves DEF Beginning
  <1>7. CASE exec.got.type = "accepted"
    <2>1. exec.pc = "execute" /\ exec' = Enter("accept")
      BY <1>1, <1>2, <1>7 DEF Journal, AnswersOf, Pcs
    <2>2. executor.kind = "async"
      BY <1>7, <2>1 DEF IInv, ExecOK
    <2>3. ExecOK' /\ exec'.pc = "accept"
      BY <1>1, <2>1, <2>2, EnterOK DEF Pcs, Beginning
    <2> QED BY <1>1, <2>1, <2>3, ExecMoves DEF Beginning
  <1>8. CASE exec.got.type \in {"projected", "recorded"}
    <2>1. exec.pc \in {"accept", "project", "fail"}
      BY <1>1, <1>2, <1>8 DEF AnswersOf, Pcs
    <2>2. \E output \in {"completed", "accepted", "failed"} : exec' = Over(output)
      BY <1>8 DEF Journal
    <2>3. ExecOK' /\ exec'.pc = "over"
      BY <1>1, <2>2, OverOK
    <2> QED BY <1>1, <2>1, <2>3, ExecMoves DEF Beginning
  <1> QED BY <1>1, <1>2, <1>3, <1>4, <1>5, <1>6, <1>7, <1>8 DEF AnswersOf, Pcs

LEMMA RetryOK ==
    ASSUME IInv, UNCHANGED <<executor, service>>, exec.pc # "over", exec.attempt < RetryLimit(exec.pc),
           exec' = [exec EXCEPT !.stage = "body", !.attempt = @ + 1, !.got = Nothing]
    PROVE  ExecOK' /\ exec'.pc = exec.pc /\ (exec.pc = "project" => exec'.outcome = exec.outcome)
  <1>1. \A pc : RetryLimit(pc)' = RetryLimit(pc) /\ RetryLimit(pc) \in Nat
    BY LimitIsNat DEF RetryLimit, Idempotent
  <1>2. Nothing.type = "none" /\ Nothing \in Answers
    BY DEF Nothing, Answers
  <1>3. exec.pc # "over" => "none" \in AnswersOf(exec.pc)
    BY DEF IInv, ExecOK, AnswersOf, Plain, Projecting, Pcs
  <1>4. service.calls \in Nat
    BY DEF IInv, ServiceOK
  <1>5. CASE exec \in Plain
    <2>1. exec' \in Plain /\ exec'.pc = exec.pc /\ exec'.stage = "body" /\ exec'.got = Nothing
          /\ exec'.attempt = exec.attempt + 1
      <3>1. exec' = [pc |-> exec.pc, stage |-> "body", attempt |-> exec.attempt + 1, got |-> Nothing]
        BY <1>5 DEF Plain
      <3>2. exec.attempt \in Nat /\ exec.pc \in Pcs
        BY <1>5 DEF Plain
      <3> QED BY <1>2, <3>1, <3>2 DEF Plain
    <2>2. exec.pc # "project" /\ exec' \notin Projecting
      BY <1>5, <2>1 DEF IInv, ExecOK, Plain, Projecting
    <2>3. exec.attempt \in Nat /\ exec.attempt + 1 <= RetryLimit(exec.pc)
          /\ (exec.pc \in {"reauthorize", "describe"} => service.calls = 0)
          /\ (exec.pc = "execute" => service.calls <= exec.attempt + 1)
          /\ (exec.pc = "accept" => executor.kind = "async")
      BY <1>1, <1>4, <1>5 DEF IInv, ExecOK, Plain
    <2> QED BY <1>1, <1>2, <1>3, <2>1, <2>2, <2>3 DEF ExecOK
  <1>6. CASE exec \in Projecting
    <2>1. exec' \in Projecting /\ exec'.pc = exec.pc /\ exec'.stage = "body" /\ exec'.got = Nothing
          /\ exec'.attempt = exec.attempt + 1 /\ exec'.outcome = exec.outcome
      <3>1. exec' = [pc |-> exec.pc, stage |-> "body", attempt |-> exec.attempt + 1, got |-> Nothing,
                     outcome |-> exec.outcome]
        BY <1>6 DEF Projecting
      <3>2. exec.attempt \in Nat /\ exec.pc = "project" /\ exec.outcome \in Verdicts
        BY <1>6 DEF Projecting
      <3> QED BY <1>2, <3>1, <3>2 DEF Projecting
    <2>2. exec.pc = "project" /\ exec.attempt \in Nat
      BY <1>6 DEF Projecting
    <2>3. exec.attempt + 1 <= RetryLimit(exec.pc)
      BY <1>1, <2>2
    <2> QED BY <1>1, <1>2, <1>3, <2>1, <2>2, <2>3 DEF ExecOK
  <1> QED BY <1>5, <1>6 DEF IInv, ExecOK

LEMMA AttemptFailsInv == IInv /\ AttemptFails => IInv'
  <1> SUFFICES ASSUME IInv, AttemptFails PROVE IInv'
    OBVIOUS
  <1>1. exec.pc # "over" /\ TellsNothing /\ UNCHANGED <<executor, service>> /\ exec.pc \in Pcs
    BY DEF AttemptFails, TellsNothing, IInv, ExecOK, Plain, Projecting, Pcs
  <1>2. CASE exec.attempt < RetryLimit(exec.pc)
    <2>1. ExecOK' /\ exec'.pc = exec.pc /\ (exec.pc = "project" => exec'.outcome = exec.outcome)
      BY <1>1, <1>2, RetryOK DEF AttemptFails
    <2> QED BY <1>1, <2>1, ExecMoves
  <1>3. CASE ~(exec.attempt < RetryLimit(exec.pc))
    <2>1. exec' = Exhausted(exec.pc)
      BY <1>3 DEF AttemptFails
    <2>2. CASE exec.pc = "fail"
      <3>1. exec' = Over("failed")
        BY <2>1, <2>2 DEF Exhausted
      <3> QED BY <1>1, <2>2, <3>1, OverOK, ExecMoves DEF Beginning
    <2>3. CASE exec.pc \in {"accept", "project"}
      <3>1. exec' = Enter("fail")
        BY <2>1, <2>3 DEF Exhausted
      <3>2. ExecOK' /\ exec'.pc = "fail"
        BY <1>1, <3>1, EnterOK DEF Pcs, Beginning
      <3> QED BY <1>1, <2>3, <3>2, ExecMoves DEF Beginning
    <2>4. CASE exec.pc \in Beginning
      <3>1. \E o \in Verdicts : exec' = Project(o) /\ o.status \in Borne
        <4>1. CASE exec.pc = "reauthorize"
          <5>1. exec' = Project(Terminal("authorization_check_failed", FALSE, FALSE))
            BY <2>1, <4>1 DEF Exhausted
          <5>2. /\ Terminal("authorization_check_failed", FALSE, FALSE) \in Verdicts
                /\ Terminal("authorization_check_failed", FALSE, FALSE).status = "authorization_check_failed"
            BY VerdictsOfSteps DEF Auth
          <5>3. "authorization_check_failed" \in Borne
            BY <4>1, UncalledBorne DEF IInv, ExecOK, Auth
          <5> QED BY <5>1, <5>2, <5>3
        <4>2. CASE exec.pc = "describe"
          <5>1. exec' = Project(Terminal("execution_failed", TRUE, FALSE))
            BY <2>1, <4>2 DEF Exhausted
          <5>2. /\ Terminal("execution_failed", TRUE, FALSE) \in Verdicts
                /\ Terminal("execution_failed", TRUE, FALSE).status = "execution_failed"
            BY VerdictsOfSteps
          <5>3. "execution_failed" \in Borne
            BY <4>2, UncalledBorne DEF IInv, ExecOK
          <5> QED BY <5>1, <5>2, <5>3
        <4>3. CASE exec.pc = "execute"
          <5> DEFINE st == FailureStatus(TRUE, executor.guarantee)
          <5>1. exec' = Project(Terminal(st, TRUE, FALSE))
            BY <2>1, <4>3 DEF Exhausted
          <5>2. st \in {"execution_failed", "execution_unknown"} /\ (st = "execution_failed" => Idempotent)
            BY ExecutorsAssumption DEF FailureStatus, Idempotent, IInv, ServiceOK
          <5>3. st \in Borne
            BY <5>2 DEF Borne, Auth, Failures
          <5> HIDE DEF st
          <5>4. Terminal(st, TRUE, FALSE) \in Verdicts /\ Terminal(st, TRUE, FALSE).status = st
            BY <5>2, VerdictsOfSteps
          <5> QED BY <5>1, <5>3, <5>4
        <4> QED BY <2>4, <4>1, <4>2, <4>3 DEF Beginning
      <3>2. PICK o \in Verdicts : exec' = Project(o) /\ o.status \in Borne
        BY <3>1
      <3>3. ExecOK' /\ exec'.pc = "project" /\ exec'.outcome = o
        BY <1>1, <3>2, ProjectOK
      <3> QED BY <1>1, <2>4, <3>2, <3>3, ExecMoves DEF Beginning
    <2> QED BY <1>1, <2>2, <2>3, <2>4 DEF Pcs, Beginning
  <1> QED BY <1>2, <1>3
-----------------------------------------------------------------------------
(* The steps that tell something.                                           *)
LEMMA RecordedOK ==
    ASSUME IInv, UNCHANGED <<executor, service>>, exec.stage = "body",
           NEW type \in {"recorded", "projected"}, Got(Answer(type)),
           exec.pc \in (IF type = "recorded" THEN {"accept", "fail"} ELSE {"project"})
    PROVE  /\ ExecOK' /\ exec'.pc = exec.pc /\ Borne' = Borne /\ ServiceOK'
           /\ exec.pc = "project" => exec'.outcome = exec.outcome
  <1>1. Answer(type) \in Answers /\ Answer(type).type = type
    BY DEF Answer, Answers
  <1>2. type \in AnswersOf(exec.pc)
    BY DEF AnswersOf
  <1> HIDE DEF Answer
  <1>3. ExecOK' /\ exec'.pc = exec.pc /\ (exec.pc = "project" => exec'.outcome = exec.outcome)
    BY <1>1, <1>2, GotOK
  <1>4. Borne' = Borne /\ ServiceOK'
    BY DEF Borne, Idempotent, IInv, ServiceOK
  <1> QED BY <1>3, <1>4

LEMMA RunAcceptInv == IInv /\ RunAccept => IInv'
  <1> SUFFICES ASSUME IInv, RunAccept PROVE IInv'
    OBVIOUS
  <1>1. exec.pc = "accept" /\ exec.stage = "body" /\ UNCHANGED <<executor, service, result, call, cancel>>
        /\ Got(Answer("recorded")) /\ log' = Accepted(log)
    BY DEF RunAccept, At
  <1>2. ExecOK' /\ exec'.pc = "accept" /\ Borne' = Borne /\ ServiceOK' /\ executor.kind = "async"
    BY <1>1, RecordedOK DEF IInv, ExecOK
  <1>3. CASE async.status = "absent"
    <2>1. async' = [async EXCEPT !.status = "accepted"]
      BY <1>3 DEF RunAccept
    <2>2. async'.status = "accepted" /\ async'.completion = "none"
      BY <1>3, <2>1 DEF IInv, RowOK, PhaseOK
    <2>3. log = EmptyLog(FALSE) /\ result = NoResult
      BY <1>1, <1>3 DEF IInv, PhaseOK, Untouched
    <2>4. IsLog(log') /\ log'.status = "executing" /\ \A u : Has(log', u) <=> u \in StartTypes
      BY <1>1, <2>3, AcceptedOnce
    <2>5. PhaseOK'
      BY <2>2 DEF PhaseOK
    <2>6. async' \in [status: {"absent", "accepted", "cancel_requested", "completed"},
                      completion: {"none"} \cup Completions]
      BY <2>1 DEF IInv, RowOK
    <2>9. /\ Has(log', "action.reauthorized") /\ Has(log', "action.execution_started")
          /\ Has(log', "action.execution_accepted") /\ ~Has(log', "action.completed")
      BY <2>4 DEF StartTypes
    <2>10. cancel \in {"idle", "audit"}
      BY DEF IInv, RowOK
    <2>7. RowOK'
      BY <1>1, <1>2, <2>2, <2>3, <2>4, <2>6, <2>9, <2>10 DEF RowOK
    <2>8. CallsOK'
      BY <1>1, <1>2, <1>3, CallsStay DEF IInv
    <2> QED BY <1>2, <2>4, <2>5, <2>7, <2>8 DEF IInv, IsLog
  <1>4. CASE async.status # "absent"
    <2>1. async' = async
      BY <1>4 DEF RunAccept
    <2>2. log' = log
      BY <1>1, <1>4, AcceptedTwice DEF StartTypes, IInv, RowOK
    <2>3. PhaseOK' /\ IsLog(log)'
      BY <1>4, <2>1, <2>2 DEF PhaseOK, IInv, IsLog
    <2>4. RowOK'
      BY <1>1, <1>2, <2>1, <2>2 DEF IInv, RowOK, Has
    <2>5. CallsOK'
      BY <1>1, <1>2, <2>1, CallsStay DEF IInv
    <2> QED BY <1>2, <2>3, <2>4, <2>5 DEF IInv
  <1> QED BY <1>3, <1>4

LEMMA RunProjectInv == IInv /\ RunProject => IInv' /\ (result # NoResult => result' = result)
  <1> SUFFICES ASSUME IInv, RunProject PROVE IInv' /\ (result # NoResult => result' = result)
    OBVIOUS
  <1>1. exec.pc = "project" /\ exec.stage = "body" /\ UNCHANGED <<executor, service, async, call, cancel>>
        /\ Got(Answer("projected")) /\ log' = Outcome(log, exec.outcome) /\ result' = exec.outcome.status
    BY DEF RunProject, At
  <1>2. ExecOK' /\ exec'.pc = "project" /\ Borne' = Borne /\ ServiceOK' /\ exec'.outcome = exec.outcome
    BY <1>1, RecordedOK
  <1>3. async.status = "absent"
    BY <1>1 DEF IInv, RowOK
  <1>4. exec.outcome \in Verdicts /\ exec.outcome.status \in Borne
    BY <1>1, <1>3 DEF IInv, ExecOK, PhaseOK, Projecting
  <1>5. Bits(exec.outcome)
    BY <1>4 DEF Verdicts, Bits
  <1>6. IsLog(log') /\ Told(log', exec.outcome) /\ log'.status = exec.outcome.status
        /\ (result # NoResult => result' = result)
    <2>1. CASE Untouched
      BY <1>1, <1>4, <1>5, <2>1, OutcomeOfEmpty, OutcomeTold DEF Untouched
    <2>2. CASE Told(log, exec.outcome) /\ log.status = exec.outcome.status /\ result = exec.outcome.status
      <3>1. log' = log
        BY <1>1, <1>5, <2>2, OutcomeAgain
      <3> QED BY <1>1, <2>2, <3>1 DEF IInv
    <2> QED BY <1>1, <1>3, <2>1, <2>2 DEF IInv, PhaseOK
  <1>7. PhaseOK'
    BY <1>1, <1>2, <1>3, <1>4, <1>6 DEF IInv, PhaseOK, Told, Has
  <1>8. RowOK'
    BY <1>1, <1>3 DEF IInv, RowOK
  <1>9. CallsOK'
    BY <1>1, <1>2, CallsStay DEF IInv
  <1> QED BY <1>2, <1>6, <1>7, <1>8, <1>9 DEF IInv, IsLog

LEMMA FailedInsert ==
    ASSUME NEW l, IsLog(l)
    PROVE  LET m == Insert(l, Whole("workflow.failed", "none"))
           IN  /\ IsLog(m) /\ m.status \in {l.status, "failed"}
               /\ l.status \in Failures \cup {"executed"} => m.status = l.status
               /\ \A u : Has(m, u) <=> Has(l, u) \/ u = "workflow.failed"
  <1> DEFINE m == Insert(l, Whole("workflow.failed", "none"))
  <1>1. IsLog(m) /\ \A u : Has(m, u) <=> Has(l, u) \/ u = "workflow.failed"
    BY InsertIsLog, InsertHas
  <1>2. Lifecycle!Applied(l.status, Whole("workflow.failed", "none"))
          = IF Lifecycle!CanTransition(l.status, "failed") THEN "failed" ELSE l.status
    BY DEF Lifecycle!Applied, Lifecycle!TargetOf, Whole, Event
  <1>3. l.status \in Failures \cup {"executed"} => ~Lifecycle!CanTransition(l.status, "failed")
    BY DEF Lifecycle!CanTransition, Lifecycle!Transitions, Lifecycle!Terminal, Failures
  <1>4. m.status \in {l.status, "failed"} /\ (l.status \in Failures \cup {"executed"} => m.status = l.status)
    BY <1>2, <1>3, InsertAgain, InsertNew
  <1> QED BY <1>1, <1>4

LEMMA RunFailInv == IInv /\ RunFail => IInv'
  <1> SUFFICES ASSUME IInv, RunFail PROVE IInv'
    OBVIOUS
  <1>1. exec.pc = "fail" /\ exec.stage = "body" /\ UNCHANGED <<executor, service, result, async, call, cancel>>
        /\ Got(Answer("recorded")) /\ log' = Insert(log, Whole("workflow.failed", "none"))
    BY DEF RunFail, At
  <1>2. ExecOK' /\ exec'.pc = "fail" /\ Borne' = Borne /\ ServiceOK'
    BY <1>1, RecordedOK
  <1>3. /\ IsLog(log') /\ log'.status \in {log.status, "failed"}
        /\ log.status \in Failures \cup {"executed"} => log'.status = log.status
        /\ \A u : Has(log', u) <=> Has(log, u) \/ u = "workflow.failed"
    BY <1>1, FailedInsert DEF IInv
  <1>4. Borne \subseteq Failures \cup {"executed"}
    BY DEF Borne
  <1>5. PhaseOK'
    BY <1>1, <1>2, <1>3, <1>4 DEF IInv, PhaseOK
  <1>6. RowOK'
    <2>1. SUFFICES ASSUME async.status # "absent" PROVE RowOK'
      BY <1>1, <1>2 DEF IInv, RowOK
    <2>2. /\ Has(log', "action.completed") <=> Has(log, "action.completed")
          /\ \A t \in StartTypes : Has(log, t) => Has(log', t)
      BY <1>3
    <2>3. Completions \subseteq Failures \cup {"executed"} /\ "executing" \notin {"failed"} \cup Completions
      BY DEF Completions, RunOutcomes, Failures
    <2>4. Has(log, "action.completed") => log.status \in {"failed"} \cup Completions
      BY <2>1, <2>3 DEF IInv, RowOK
    <2>5. log'.status \in {"executing", "failed", async.completion}
          /\ (Has(log, "action.completed") => log'.status # "executing")
          /\ (~Has(log, "action.completed") => log'.status \in {"executing", "failed"})
      BY <1>3, <2>1, <2>4 DEF IInv, RowOK, Completions, RunOutcomes
    <2> QED BY <1>1, <1>2, <2>1, <2>2, <2>5 DEF IInv, RowOK, StartTypes
  <1>7. CallsOK'
    BY <1>1, <1>2, CallsStay DEF IInv
  <1> QED BY <1>2, <1>3, <1>5, <1>6, <1>7 DEF IInv, IsLog
-----------------------------------------------------------------------------
(* The service behind the executor.                                         *)
LEMMA ServiceMoves ==
    ASSUME IInv, UNCHANGED <<executor, exec, result, async, cancel, log>>, ServiceOK',
           service'.calls = service.calls, Borne \subseteq Borne', CallsOK',
           async.status = "absent" => call' = call
    PROVE  IInv'
  <1>1. ExecOK'
    BY DEF IInv, ExecOK, RetryLimit, Idempotent
  <1>2. PhaseOK'
    BY DEF IInv, PhaseOK, Untouched, Told, Has
  <1>3. RowOK'
    BY DEF IInv, RowOK, Has
  <1> QED BY <1>1, <1>2, <1>3 DEF IInv, IsLog

LEMMA HandleInv == IInv /\ Handle => IInv'
  <1> SUFFICES ASSUME IInv, Handle PROVE IInv'
    OBVIOUS
  <1>1. service.handled < service.calls /\ UNCHANGED <<executor, exec, result, async, call, cancel, log>>
    BY DEF Handle
  <1>2. PICK answer \in {"performed", "refused"} :
          /\ Idempotent /\ service.answer # "none" => answer = service.answer
          /\ LET fresh == answer = "performed" /\ ~(Idempotent /\ service.effects > 0)
             IN  service' = [service EXCEPT
                     !.handled = @ + 1, !.answer = answer,
                     !.effects = IF fresh THEN @ + 1 ELSE @,
                     !.run = IF fresh /\ executor.kind = "async" THEN "running" ELSE @]
    BY DEF Handle, IInv, ServiceOK
  <1> DEFINE fresh == answer = "performed" /\ ~(Idempotent /\ service.effects > 0)
  <1>3. service \in [calls: Nat, handled: Nat, effects: Nat, answer: {"none", "performed", "refused"},
                    run: {"none", "running"} \cup RunOutcomes, delivered: BOOLEAN]
    BY DEF IInv, ServiceOK
  <1>4. /\ service'.calls = service.calls /\ service'.handled = service.handled + 1
        /\ service'.answer = answer
        /\ service'.effects = IF fresh THEN service.effects + 1 ELSE service.effects
        /\ service'.run = IF fresh /\ executor.kind = "async" THEN "running" ELSE service.run
    BY <1>2, <1>3
  <1>5. service' \in [calls: Nat, handled: Nat, effects: Nat, answer: {"none", "performed", "refused"},
                     run: {"none", "running"} \cup RunOutcomes, delivered: BOOLEAN]
    <2>1. service' = [calls |-> service'.calls, handled |-> service'.handled, effects |-> service'.effects,
                      answer |-> service'.answer, run |-> service'.run, delivered |-> service.delivered]
      BY <1>2, <1>3
    <2>2. service'.calls \in Nat /\ service'.handled \in Nat /\ service'.effects \in Nat
          /\ service'.run \in {"none", "running"} \cup RunOutcomes
      BY <1>3, <1>4
    <2> QED BY <1>3, <1>4, <2>1, <2>2
  <1>6. fresh => service.effects = 0
    BY <1>1, <1>3 DEF IInv, ServiceOK
  <1>7. ~Idempotent => service.handled = 0 /\ service.effects = 0
    BY <1>1, <1>3 DEF IInv, ServiceOK
  <1>8. Idempotent' = Idempotent
    BY <1>1 DEF Idempotent
  <1> HIDE DEF Idempotent
  <1>9. ServiceOK'
    <2>1. /\ service'.handled <= service'.calls /\ service'.effects <= service'.handled
          /\ service'.effects <= 1
      BY <1>1, <1>3, <1>4, <1>6 DEF IInv, ServiceOK
    <2>2. ~Idempotent => service'.calls <= 1
      BY <1>4 DEF IInv, ServiceOK
    <2>3. service'.answer = "performed" => service'.effects > 0
      BY <1>3, <1>4 DEF IInv, ServiceOK
    <2>4. service'.answer # "none" => service'.handled > 0
      BY <1>3, <1>4
    <2>5. service'.answer = "refused" /\ ~Idempotent => service'.effects = 0
      BY <1>4, <1>7
    <2>6. service'.run # "none" => service'.effects > 0
      BY <1>3, <1>4 DEF IInv, ServiceOK
    <2> QED BY <1>1, <1>5, <1>8, <2>1, <2>2, <2>3, <2>4, <2>5, <2>6 DEF ServiceOK, IInv
  <1>10. Borne \subseteq Borne'
    <2> SUFFICES ASSUME NEW st \in Borne PROVE st \in Borne'
      OBVIOUS
    <2>1. st \in Failures \cup {"executed"}
      BY DEF Borne
    <2>2. st = "executed" => service'.effects > 0 /\ (executor.kind = "async" => service'.run = "executed")
      <3>1. st = "executed" => service.effects > 0 /\ (executor.kind = "async" => service.run = "executed")
        BY DEF Borne
      <3> QED BY <1>3, <1>4, <1>6, <3>1
    <2>3. st \in Auth => service'.calls = 0
      BY <1>4 DEF Borne
    <2>4. ~(st = "execution_failed" /\ executor.kind = "sync" /\ ~Idempotent)
      BY <1>1, <1>3 DEF Borne
    <2> QED BY <1>1, <1>8, <2>1, <2>2, <2>3, <2>4 DEF Borne
  <1>11. CallsOK'
    BY <1>1, <1>10, CallsStay DEF IInv
  <1> QED BY <1>1, <1>4, <1>9, <1>10, <1>11, ServiceMoves

LEMMA RunEndsInv == IInv /\ RunEnds => IInv'
  <1> SUFFICES ASSUME IInv, RunEnds PROVE IInv'
    OBVIOUS
  <1>1. service.run = "running" /\ UNCHANGED <<executor, exec, result, async, call, cancel, log>>
    BY DEF RunEnds
  <1>2. PICK outcome \in RunOutcomes : service' = [service EXCEPT !.run = outcome]
    BY DEF RunEnds
  <1>3. /\ service' \in [calls: Nat, handled: Nat, effects: Nat, answer: {"none", "performed", "refused"},
                         run: {"none", "running"} \cup RunOutcomes, delivered: BOOLEAN]
        /\ service'.calls = service.calls /\ service'.handled = service.handled
        /\ service'.effects = service.effects /\ service'.answer = service.answer
    BY <1>2 DEF IInv, ServiceOK
  <1>4. ServiceOK'
    BY <1>1, <1>3 DEF IInv, ServiceOK, Idempotent
  <1>5. Borne \subseteq Borne'
    BY <1>1, <1>3 DEF Borne, Idempotent
  <1>6. CallsOK'
    BY <1>1, <1>5, CallsStay DEF IInv
  <1> QED BY <1>1, <1>3, <1>4, <1>5, <1>6, ServiceMoves
-----------------------------------------------------------------------------
(* The completion port.                                                     *)
LEMMA CallMoves ==
    ASSUME IInv, UNCHANGED <<executor, exec, service, result, async, cancel, log>>,
           async.status # "absent", NEW w \in Workers, NEW c \in Sound, call' = [call EXCEPT ![w] = c]
    PROVE  IInv'
  <1>1. Borne' = Borne /\ ServiceOK'
    BY DEF Borne, Idempotent, IInv, ServiceOK
  <1>2. c \in Sound'
    BY <1>1 DEF Sound
  <1>3. CallsOK'
    BY <1>1, <1>2, CallsStay DEF IInv
  <1> QED BY <1>1, <1>3, ServiceMoves

LEMMA IdleIsSound == Idle \in Sound /\ Idle \in Sound'
BY DEF Idle, Sound, Calls

LEMMA BusyMeansAccepted ==
    ASSUME IInv, NEW w \in Workers, call[w].pc # "idle"
    PROVE  async.status # "absent"
BY DEF IInv, PhaseOK

LEMMA CompleteLoadInv ==
    ASSUME IInv, NEW w \in Workers, NEW report \in Reports, NEW marks \in BOOLEAN,
           CompleteLoad(w, report, marks), BindingMatches(report) => async.status = "absent" \/ report.status \in Borne
    PROVE  IInv'
  <1>1. UNCHANGED <<executor, exec, result, async, cancel, log>>
    BY DEF CompleteLoad
  <1>2. CASE async.status = "absent"
    <2>1. service' = [service EXCEPT !.delivered = @ \/ FALSE] /\ call' = call
      BY <1>2 DEF CompleteLoad, DeliveredWithout
    <2>2. service' = service
      BY <2>1 DEF IInv, ServiceOK
    <2>3. Borne' = Borne /\ ServiceOK'
      BY <1>1, <2>2 DEF Borne, Idempotent, IInv, ServiceOK
    <2>4. CallsOK'
      BY <1>1, <2>1, <2>3, CallsStay DEF IInv
    <2> QED BY <1>1, <2>1, <2>2, <2>3, <2>4, ServiceMoves
  <1>3. CASE async.status # "absent"
    <2> DEFINE c == [pc |-> "loaded", report |-> report, marks |-> marks]
    <2>1. call' = [call EXCEPT ![w] = c] /\ UNCHANGED service
      BY <1>3 DEF CompleteLoad
    <2>2. c \in Sound
      BY <1>3 DEF Sound, Calls
    <2> QED BY <1>1, <1>3, <2>1, <2>2, CallMoves
  <1> QED BY <1>2, <1>3

LEMMA DeliverEndInv ==
    ASSUME IInv, NEW w \in Workers, DeliverEnd(w)
    PROVE  IInv'
  <1> DEFINE report == [ref |-> Own, status |-> service.run]
  <1>1. service.run \in RunOutcomes /\ CompleteLoad(w, report, TRUE)
    BY DEF DeliverEnd
  <1>2. report \in Reports /\ report.status = service.run
    BY <1>1 DEF Reports
  <1>3. async.status = "absent" \/ service.run \in Borne
    BY <1>1 DEF IInv, ServiceOK, RowOK, Borne, RunOutcomes, Auth, Failures
  <1> QED BY <1>1, <1>2, <1>3, CompleteLoadInv

LEMMA DeliverStrayInv ==
    ASSUME IInv, NEW w \in Workers, DeliverStray(w)
    PROVE  IInv'
  <1>1. PICK report \in Strays : CompleteLoad(w, report, FALSE)
    BY DEF DeliverStray
  <1>2. report \in Reports
    BY DEF Reports
  <1>3. BindingMatches(report) => async.status = "absent" \/ report.status \in Borne
    <2>1. report.status \in Completions /\ (BindingMatches(report) => report.status # "executed")
      BY StraysAssumption DEF BindingMatches
    <2> QED BY <2>1 DEF IInv, RowOK, Borne, Completions, RunOutcomes, Auth, Failures
  <1> QED BY <1>1, <1>2, <1>3, CompleteLoadInv

LEMMA CompleteSettleInv ==
    ASSUME IInv, NEW w \in Workers, CompleteSettle(w)
    PROVE  IInv' /\ (async.status = "completed" => async' = async)
  <1> DEFINE report == call[w].report
             project == [pc |-> "project", marks |-> call[w].marks]
             rejected(code) == [pc |-> "reject", ref |-> report.ref, code |-> code]
  <1>1. call[w].pc = "loaded" /\ UNCHANGED <<executor, exec, service, result, cancel, log>>
    BY DEF CompleteSettle
  <1>2. async.status # "absent"
    BY <1>1, BusyMeansAccepted
  <1>3. /\ report \in Reports /\ call[w].marks \in BOOLEAN
        /\ BindingMatches(report) => report.status \in Borne
        /\ report.status \in Completions
    <2>1. call[w] \in [pc: {"loaded"}, report: Reports, marks: BOOLEAN]
          /\ (BindingMatches(report) => report.status \in Borne)
      BY <1>1 DEF IInv, CallsOK, Sound
    <2>2. \A r \in Reports : r.status \in Completions
      BY StraysAssumption DEF Reports, Completions
    <2> QED BY <2>1, <2>2
  <1>4. \A code \in {"completion_binding_mismatch", "completion_conflict"} : rejected(code) \in Sound
    BY <1>3 DEF Sound, Calls
  <1>5. CASE /\ async' = async
             /\ \E code \in {"completion_binding_mismatch", "completion_conflict"} :
                  call' = [call EXCEPT ![w] = rejected(code)]
    BY <1>1, <1>2, <1>4, <1>5, CallMoves
  <1>6. CASE async' = async /\ ~Settleable(async) /\ call' = [call EXCEPT ![w] = project]
    <2>1. async.status = "completed"
      BY <1>2, <1>6 DEF IInv, RowOK, Settleable
    <2>2. project \in Sound
      BY <1>3, <2>1 DEF Sound, Calls
    <2> QED BY <1>1, <1>2, <1>6, <2>2, CallMoves
  <1>7. CASE /\ BindingMatches(report) /\ Settleable(async)
             /\ async' = [status |-> "completed", completion |-> report.status]
             /\ call' = [call EXCEPT ![w] = project]
    <2>1. async.completion = "none" /\ async.status # "completed"
      BY <1>7 DEF IInv, RowOK, Settleable
    <2>2. async'.status = "completed" /\ async'.completion = report.status
      BY <1>7
    <2>3. Borne' = Borne /\ ServiceOK'
      BY <1>1 DEF Borne, Idempotent, IInv, ServiceOK
    <2>4. project \in Sound'
      BY <1>3, <2>2 DEF Sound, Calls
    <2>5. CallsOK'
      BY <1>7, <2>1, <2>3, <2>4, CallsStay DEF IInv
    <2>6. ExecOK' /\ PhaseOK' /\ IsLog(log)'
      BY <1>1, <2>2, <2>3 DEF IInv, ExecOK, RetryLimit, Idempotent, PhaseOK, IsLog
    <2>7. RowOK'
      <3>1. /\ exec.pc \in {"accept", "fail", "over"} /\ executor.kind = "async"
            /\ Has(log, "action.reauthorized") /\ Has(log, "action.execution_started")
            /\ Has(log, "action.execution_accepted") /\ cancel \in {"idle", "audit"}
            /\ ~Has(log, "action.completed") /\ log.status \in {"executing", "failed"} /\ result = NoResult
        BY <1>2, <2>1 DEF IInv, RowOK
      <3>2. report.status # "none"
        BY <1>3 DEF Completions, RunOutcomes
      <3> QED BY <1>1, <1>3, <1>7, <2>2, <2>3, <3>1, <3>2 DEF RowOK
    <2> QED BY <2>1, <2>3, <2>5, <2>6, <2>7 DEF IInv
  <1> QED BY <1>5, <1>6, <1>7 DEF CompleteSettle, Reject

LEMMA CompleteProjectInv ==
    ASSUME IInv, NEW w \in Workers, CompleteProject(w)
    PROVE  IInv' /\ (result # NoResult => result' = result)
  <1> DEFINE c == IF call[w].marks THEN [pc |-> "mark"] ELSE Idle
  <1>1. /\ call[w].pc = "project" /\ result' = async.completion
        /\ log' = Outcome(log, Terminal(async.completion, FALSE, TRUE))
        /\ call' = [call EXCEPT ![w] = c] /\ UNCHANGED <<executor, exec, service, async, cancel>>
    BY DEF CompleteProject, RecordedStatus
  <1>2. async.status = "completed" /\ call[w].marks \in BOOLEAN
    BY <1>1 DEF IInv, CallsOK, Sound
  <1>3. async.completion \in Completions /\ result \in {NoResult, async.completion}
    BY <1>2 DEF IInv, RowOK
  <1>4. /\ IsLog(log') /\ Has(log', "action.completed") /\ \A u : Has(log, u) => Has(log', u)
        /\ log'.status = IF ~Has(log, "action.completed")
                            /\ Lifecycle!CanTransition(log.status, async.completion)
                         THEN async.completion ELSE log.status
    BY <1>1, <1>2, <1>3, OutcomeOfRun DEF IInv, RowOK
  <1>5. log'.status \in {async.completion, "failed"}
    <2>1. CASE Has(log, "action.completed")
      BY <1>2, <1>4, <2>1 DEF IInv, RowOK
    <2>2. CASE ~Has(log, "action.completed")
      <3>1. log.status \in {"executing", "failed"}
        BY <1>2, <2>2 DEF IInv, RowOK
      <3>2. Lifecycle!CanTransition("executing", async.completion)
        BY <1>3 DEF Completions, RunOutcomes, Lifecycle!CanTransition, Lifecycle!Transitions, Lifecycle!Terminal
      <3> QED BY <1>4, <2>2, <3>1, <3>2
    <2> QED BY <2>1, <2>2
  <1>6. Borne' = Borne /\ ServiceOK'
    BY <1>1 DEF Borne, Idempotent, IInv, ServiceOK
  <1>7. c \in Sound'
    BY DEF Idle, Sound, Calls
  <1>8. CallsOK'
    BY <1>1, <1>6, <1>7, CallsStay DEF IInv
  <1>9. ExecOK' /\ PhaseOK'
    BY <1>1, <1>2, <1>6 DEF IInv, ExecOK, RetryLimit, Idempotent, PhaseOK
  <1>10. RowOK'
    <2>1. /\ Has(log', "action.reauthorized") /\ Has(log', "action.execution_started")
          /\ Has(log', "action.execution_accepted")
          /\ exec.pc \in {"accept", "fail", "over"} /\ executor.kind = "async"
      BY <1>2, <1>4 DEF IInv, RowOK
    <2>2. log'.status # "executing"
      BY <1>3, <1>5 DEF Completions, RunOutcomes
    <2> QED BY <1>1, <1>2, <1>4, <1>5, <1>6, <2>1, <2>2 DEF IInv, RowOK
  <1> QED BY <1>1, <1>3, <1>4, <1>6, <1>8, <1>9, <1>10 DEF IInv, IsLog
AuditTypes == {"action.execution_completion_rejected", "action.execution_cancel_requested"}

LEMMA AuditHas ==
    ASSUME NEW l, IsLog(l), NEW es, \A e \in es : e.type \in AuditTypes
    PROVE  /\ IsLog(Audit(l, es)) /\ Audit(l, es).status = l.status
           /\ \A u : u \notin AuditTypes => (Has(Audit(l, es), u) <=> Has(l, u))
  <1> DEFINE new == {e \in es : ~HasKey(l, e)}
  <1>1. Audit(l, es) = [events |-> l.events \cup new, status |-> l.status]
    BY DEF Audit, IsLog
  <1> QED BY <1>1 DEF Has, IsLog

LEMMA AuditMoves ==
    ASSUME IInv, UNCHANGED <<executor, exec, service, result>>, async.status # "absent",
           NEW es, \A e \in es : e.type \in AuditTypes, log' \in {log, Audit(log, es)},
           cancel' \in {"idle", "audit"}, CallsOK',
           \/ async' = async
           \/ /\ async.completion = "none" /\ async'.completion = "none"
              /\ async' \in [status: {"accepted", "cancel_requested"}, completion: {"none"}]
    PROVE  IInv'
  <1>1. /\ IsLog(log') /\ log'.status = log.status
        /\ \A u : u \notin AuditTypes => (Has(log', u) <=> Has(log, u))
    BY AuditHas DEF IInv
  <1>2. /\ Has(log', "action.reauthorized") <=> Has(log, "action.reauthorized")
        /\ Has(log', "action.execution_started") <=> Has(log, "action.execution_started")
        /\ Has(log', "action.execution_accepted") <=> Has(log, "action.execution_accepted")
        /\ Has(log', "action.completed") <=> Has(log, "action.completed")
    BY <1>1 DEF AuditTypes
  <1>3. Borne' = Borne /\ ServiceOK'
    BY DEF Borne, Idempotent, IInv, ServiceOK
  <1>4. async'.status # "absent"
    OBVIOUS
  <1>5. ExecOK' /\ PhaseOK'
    BY <1>3, <1>4 DEF IInv, ExecOK, RetryLimit, Idempotent, PhaseOK
  <1>6. RowOK'
    BY <1>1, <1>2, <1>3, <1>4 DEF IInv, RowOK
  <1> QED BY <1>1, <1>3, <1>5, <1>6 DEF IInv, IsLog

LEMMA CompleteRejectInv ==
    ASSUME IInv, NEW w \in Workers, CompleteReject(w)
    PROVE  IInv'
  <1> DEFINE es == {Event("action.execution_completion_rejected", <<call[w].ref, call[w].code>>, "none")}
  <1>1. /\ call[w].pc = "reject" /\ log' = Audit(log, es) /\ call' = [call EXCEPT ![w] = Idle]
        /\ UNCHANGED <<executor, exec, service, result, async, cancel>>
    BY DEF CompleteReject
  <1>2. \A e \in es : e.type \in AuditTypes
    BY DEF Event, AuditTypes
  <1>3. Borne' = Borne
    BY <1>1 DEF Borne, Idempotent
  <1>4. CallsOK'
    BY <1>1, <1>3, IdleIsSound, CallsStay, IdleIsSound DEF IInv, Sound, Calls, Idle
  <1>5. cancel' \in {"idle", "audit"}
    BY <1>1 DEF IInv, RowOK
  <1> HIDE DEF es
  <1> QED BY <1>1, <1>2, <1>4, <1>5, BusyMeansAccepted, AuditMoves

LEMMA MarkDeliveredInv ==
    ASSUME IInv, NEW w \in Workers, MarkDelivered(w)
    PROVE  IInv'
  <1>1. /\ call[w].pc = "mark" /\ service' = [service EXCEPT !.delivered = TRUE]
        /\ call' = [call EXCEPT ![w] = Idle] /\ UNCHANGED <<executor, exec, result, async, cancel, log>>
    BY DEF MarkDelivered
  <1>2. /\ service' \in [calls: Nat, handled: Nat, effects: Nat, answer: {"none", "performed", "refused"},
                         run: {"none", "running"} \cup RunOutcomes, delivered: BOOLEAN]
        /\ service'.calls = service.calls /\ service'.handled = service.handled
        /\ service'.effects = service.effects /\ service'.answer = service.answer
        /\ service'.run = service.run
    BY <1>1 DEF IInv, ServiceOK
  <1>3. ServiceOK' /\ Borne' = Borne
    BY <1>1, <1>2 DEF IInv, ServiceOK, Idempotent, Borne
  <1>4. CallsOK'
    BY <1>1, <1>3, IdleIsSound, CallsStay DEF IInv
  <1> QED BY <1>1, <1>2, <1>3, <1>4, BusyMeansAccepted, ServiceMoves

LEMMA CompleteFailsInv ==
    ASSUME IInv, NEW w \in Workers, CompleteFails(w)
    PROVE  IInv'
BY IdleIsSound, BusyMeansAccepted, CallMoves DEF CompleteFails

(* Only a row that may still be settled is changed.                         *)
LEMMA RequestCancelInv == IInv /\ RequestCancel => IInv' /\ async.status # "completed"
  <1> SUFFICES ASSUME IInv, RequestCancel PROVE IInv' /\ async.status # "completed"
    OBVIOUS
  <1>1. /\ Settleable(async) /\ async' = [async EXCEPT !.status = "cancel_requested"] /\ cancel' = "audit"
        /\ UNCHANGED <<executor, exec, service, result, call, log>>
    BY DEF RequestCancel
  <1>2. async.status \notin {"absent", "completed"} /\ async.completion = "none"
    BY <1>1 DEF IInv, RowOK, Settleable
  <1>3. async' \in [status: {"accepted", "cancel_requested"}, completion: {"none"}]
        /\ async'.completion = "none"
    BY <1>1, <1>2 DEF IInv, RowOK
  <1>4. Borne' = Borne
    BY <1>1 DEF Borne, Idempotent
  <1>5. CallsOK'
    BY <1>1, <1>2, <1>4, CallsStay DEF IInv
  <1>6. IInv'
    <2> DEFINE es == {}
    <2>1. \A e \in es : e.type \in AuditTypes
      OBVIOUS
    <2> HIDE DEF es
    <2> QED BY <1>1, <1>2, <1>3, <1>5, <2>1, AuditMoves
  <1> QED BY <1>2, <1>6

LEMMA AuditCancelInv == IInv /\ AuditCancel => IInv'
  <1> SUFFICES ASSUME IInv, AuditCancel PROVE IInv'
    OBVIOUS
  <1> DEFINE es == {Whole("action.execution_cancel_requested", "none")}
  <1>1. /\ cancel = "audit" /\ cancel' = "idle" /\ log' \in {log, Audit(log, es)}
        /\ UNCHANGED <<executor, exec, service, result, async, call>>
    BY DEF AuditCancel
  <1>2. \A e \in es : e.type \in AuditTypes
    BY DEF Whole, Event, AuditTypes
  <1>3. async.status # "absent"
    BY <1>1 DEF IInv, PhaseOK
  <1>4. CallsOK'
    BY <1>1, CallsStay DEF IInv, Borne, Idempotent
  <1> HIDE DEF es
  <1> QED BY <1>1, <1>2, <1>3, <1>4, AuditMoves

-----------------------------------------------------------------------------
LEMMA StepInv == IInv /\ [Next]_vars => IInv'
  <1> SUFFICES ASSUME IInv, [Next]_vars PROVE IInv'
    OBVIOUS
  <1>1. CASE Step
    BY <1>1, RunReauthorizeInv, RunDescribeInv, CallExecutorInv, RunExecuteInv, RunAcceptInv,
       RunProjectInv, RunFailInv DEF Step
  <1>2. CASE Journal \/ AttemptFails \/ Handle \/ RunEnds
    BY <1>2, JournalInv, AttemptFailsInv, HandleInv, RunEndsInv
  <1>3. ASSUME NEW w \in Workers, DeliverEnd(w) \/ DeliverStray(w) \/ Serve(w) \/ CompleteFails(w)
        PROVE  IInv'
    BY <1>3, DeliverEndInv, DeliverStrayInv, CompleteSettleInv, CompleteProjectInv,
       CompleteRejectInv, MarkDeliveredInv, CompleteFailsInv DEF Serve
  <1>4. CASE RequestCancel \/ AuditCancel
    BY <1>4, RequestCancelInv, AuditCancelInv
  <1>5. CASE UNCHANGED vars
    <2>1. UNCHANGED <<executor, exec, result, async, call, cancel, log>> /\ service' = service
      BY <1>5 DEF vars
    <2>2. ServiceOK' /\ Borne' = Borne
      BY <2>1 DEF IInv, ServiceOK, Idempotent, Borne
    <2>3. CallsOK'
      BY <2>1, <2>2, CallsStay DEF IInv
    <2> QED BY <2>1, <2>2, <2>3, ServiceMoves
  <1> QED BY <1>1, <1>2, <1>3, <1>4, <1>5 DEF Next

LEMMA Invariance == Spec => []IInv
BY InitInv, StepInv, PTL DEF Spec

(* The result, the log and what happened downstream tell one story, however *)
(* many retries, lost answers, workers and other adapters there are.        *)
THEOREM OutcomeIsTrueHolds == Spec => []OutcomeIsTrue
  <1>1. IInv => OutcomeIsTrue
    <2> SUFFICES ASSUME IInv PROVE OutcomeIsTrue
      OBVIOUS
    <2>1. result \in {NoResult} \cup Borne
      BY DEF IInv, PhaseOK, RowOK
    <2>2. TypeOK
      <3>1. /\ exec.pc \in Pcs /\ exec.stage \in {"body", "called", "done"} /\ exec.attempt \in Nat
            /\ exec.pc = "project" => exec.outcome.status \in Failures \cup {"executed"}
        BY DEF IInv, ExecOK, Plain, Projecting, Pcs, Verdicts
      <3>2. exec.attempt \in 0..RetryLimit(exec.pc)
        BY <3>1, LimitIsNat DEF IInv, ExecOK
      <3>3. \A w \in Workers : call[w].pc \in {"idle", "loaded", "project", "reject", "mark"}
        BY DEF IInv, CallsOK, Sound, Calls
      <3>4. service.handled \in 0..service.calls /\ service.effects \in 0..service.calls
            /\ service.run \in {"none", "running"} \cup RunOutcomes
        BY DEF IInv, ServiceOK
      <3> QED BY <2>1, <3>1, <3>2, <3>3, <3>4 DEF TypeOK, IInv, ServiceOK, RowOK, IsLog, Pcs, Borne
    <2>3. EffectHappensOnce
      BY DEF IInv, ServiceOK, EffectHappensOnce
    <2>4. ResultIsTrue
      BY <2>1, NoResultAssumption DEF ResultIsTrue, Borne, Auth, Failures
    <2>5. LogMatchesResult
      BY DEF IInv, PhaseOK, RowOK, LogMatchesResult
    <2> QED BY <2>2, <2>3, <2>4, <2>5 DEF OutcomeIsTrue
  <1> QED BY <1>1, Invariance, PTL

(* A result never changes once it is recorded, nor an async execution once  *)
(* it is completed, whoever delivers, replays or cancels.                   *)
THEOREM ResultIsFinalHolds == Spec => ResultIsFinal
  <1>1. /\ IInv /\ [Next]_vars => [result # NoResult => result' = result]_vars
        /\ IInv /\ [Next]_vars => [async.status = "completed" => async' = async]_vars
    <2> SUFFICES ASSUME IInv, [Next]_vars
                 PROVE  /\ result # NoResult => result' = result
                        /\ async.status = "completed" => async' = async
      OBVIOUS
    <2>1. CASE Step
      BY <2>1, RunProjectInv DEF Step, RunReauthorize, RunDescribe, CallExecutor, RunExecute,
                                 RunAccept, RunProject, RunFail
    <2>2. CASE Journal \/ AttemptFails \/ Handle \/ RunEnds
      BY <2>2 DEF Journal, AttemptFails, Handle, RunEnds
    <2>3. ASSUME NEW w \in Workers, DeliverEnd(w) \/ DeliverStray(w) \/ Serve(w) \/ CompleteFails(w)
          PROVE  /\ result # NoResult => result' = result
                 /\ async.status = "completed" => async' = async
      BY <2>3, CompleteSettleInv, CompleteProjectInv
         DEF Serve, DeliverEnd, DeliverStray, CompleteLoad, CompleteSettle, CompleteProject,
             CompleteReject, MarkDelivered, CompleteFails
    <2>4. CASE RequestCancel \/ AuditCancel
      BY <2>4, RequestCancelInv DEF RequestCancel, AuditCancel
    <2>5. CASE UNCHANGED vars
      BY <2>5 DEF vars
    <2> QED BY <2>1, <2>2, <2>3, <2>4, <2>5 DEF Next
  <1> QED BY <1>1, Invariance, PTL DEF Spec, ResultIsFinal

-----------------------------------------------------------------------------
(* The notification of one event: where its invocations are and what they   *)
(* hold.                                                                    *)
Posted == {"none", "sent", "skipped", "retriable", "rejected"}
DispatcherPlaces == {"idle", "send", "dispatched", "dispatchFailed"}
ConsumerPlaces == {"idle", "load", "deliver", "post", "mark"}
Holdings == [attempts : 0..MaxAttempts, retries : 0..MaxRetries, todo : Seq(Recipients),
             outcome : Posted, skipped : BOOLEAN]

OutboxTyped ==
    /\ OutboxTypeOK
    /\ at \in [Invocations -> DispatcherPlaces \cup ConsumerPlaces]
    /\ \A d \in Dispatchers : at[d] \in DispatcherPlaces
    /\ \A c \in Consumers : at[c] \in ConsumerPlaces
    /\ work \in [Invocations -> Holdings]
    /\ IsFiniteSet(addressed)
    /\ sink # "preview" => addressed = {Channel}

(* A settled recipient was told, or a delivery that is counted waits.       *)
Settled(r) == r \in told \/ deliveries[r] \in {"failed", "skipped"}
SentWasPosted == \A r \in Recipients : deliveries[r] = "sent" => r \in told

(* What a consumer has to do: whoever is not on its list is settled.        *)
Left(c) == {work[c].todo[n] : n \in DOMAIN work[c].todo}
ConsumerOK(c) ==
    /\ at[c] \in {"deliver", "post", "mark"} =>
         Left(c) \subseteq addressed /\ \A r \in addressed : r \in Left(c) \/ Settled(r)
    /\ at[c] \in {"post", "mark"} => work[c].todo # <<>>
    /\ at[c] = "mark" => /\ work[c].outcome = "sent" => Head(work[c].todo) \in told
                         /\ work[c].outcome \in {"retriable", "rejected"} => sink = "set"
                         /\ work[c].outcome # "none"

(* A message is somewhere: with the queue, a consumer or the dead letters.  *)
Somewhere ==
    \/ dlq > 0 \/ \E n \in 0..MaxRetries : queue[n] > 0
    \/ \E c \in Consumers : at[c] # "idle"
Followed ==
    \A r \in addressed :
       /\ Settled(r) \/ Somewhere \/ outbox.status # "dispatched"
       /\ \A d \in Dispatchers : at[d] = "dispatched" => Settled(r) \/ Somewhere

OutboxInv == OutboxTyped /\ SentWasPosted /\ (\A c \in Consumers : ConsumerOK(c)) /\ Followed

LEMMA OutboxConstants ==
  /\ MaxAttempts \in Nat /\ MaxRetries \in Nat /\ MaxTroubles \in Nat
  /\ Dispatchers \cap Consumers = {} /\ IsFiniteSet(Users) /\ Other \notin Users
  BY OutboxBounds

LEMMA UnoccupiedType ==
  Unoccupied \in Holdings /\ \A n \in 0..MaxAttempts : [Unoccupied EXCEPT !.attempts = n] \in Holdings
  <1>1. <<>> \in Seq(Recipients) /\ 0 \in 0..MaxAttempts /\ 0 \in 0..MaxRetries
    BY OutboxConstants
  <1>2. "none" \in Posted /\ FALSE \in BOOLEAN
    BY DEF Posted
  <1> QED BY <1>1, <1>2 DEF Unoccupied, Holdings

LEMMA CountingType == \A n \in 0..MaxAttempts : Counting(n) \in 0..MaxAttempts
  BY OutboxConstants DEF Counting

LEMMA AddressedType ==
  ASSUME NEW kind, NEW who \in Audience(kind)
  PROVE  who \in SUBSET Recipients /\ IsFiniteSet(who) /\ (kind # "preview" => who = {Channel})
  <1>1. CASE kind # "preview"
    BY <1>1, FS_Singleton DEF Audience, Recipients
  <1>2. CASE kind = "preview"
    <2>1. who \in SUBSET Users
      <3>1. ASSUME NEW r \in [caller : Principals, authority : Principals, actor : Principals]
            PROVE Requester(r) \in SUBSET Users
        <4>1. r.caller \in Users \cup {Other} /\ r.authority \in Users \cup {Other} /\ r.actor \in Users \cup {Other}
          BY DEF Principals
        <4> QED BY <4>1 DEF Requester
      <3>2. who \in Addressed
        BY <1>2 DEF Audience
      <3>3. CASE who \in {{u} : u \in Users} \cup (SUBSET Users)
        BY <3>3
      <3>4. CASE who \in {Requester(r) : r \in [caller : Principals, authority : Principals, actor : Principals]}
        <4>1. PICK r \in [caller : Principals, authority : Principals, actor : Principals] : who = Requester(r)
          BY <3>4
        <4> QED BY <3>1, <4>1
      <3> QED BY <3>2, <3>3, <3>4 DEF Addressed
    <2>2. IsFiniteSet(who)
      BY <2>1, OutboxConstants, FS_Subset
    <2> QED BY <1>2, <2>1, <2>2 DEF Recipients
  <1> QED BY <1>1, <1>2

(* A list of a finite set holds just its members.                           *)
LEMMA ListOf ==
  ASSUME NEW S, IsFiniteSet(S)
  PROVE  SetToSeq(S) \in Seq(S) /\ {SetToSeq(S)[n] : n \in DOMAIN SetToSeq(S)} = S
  <1> DEFINE N == Cardinality(S)
             f == SetToSeq(S)
  <1>1. N \in Nat /\ ExistsBijection(1..N, S)
    BY FS_CardinalityType
  <1>2. \E g \in [1..N -> S] : IsInjective(g)
    <2>1. PICK g : g \in Bijection(1..N, S)
      BY <1>1 DEF ExistsBijection
    <2>2. g \in [1..N -> S] /\ IsInjective(g)
      BY <2>1 DEF Bijection, Injection
    <2> QED BY <2>2
  <1>3. f \in [1..N -> S] /\ IsInjective(f)
    BY <1>2 DEF SetToSeq
  <1> HIDE DEF f
  <1>4. f \in Injection(1..N, S)
    BY <1>3 DEF Injection
  <1>5. Cardinality(1..N) = N
    BY <1>1, FS_Interval
  <1> HIDE DEF N
  <1>6. f \in Surjection(1..N, S)
    BY <1>4, <1>5, FS_Injection DEF N
  <1>7. {f[n] : n \in 1..N} = S
    BY <1>3, <1>6 DEF Surjection
  <1>8. f \in Seq(S) /\ DOMAIN f = 1..N
    BY <1>1, <1>3
  <1> QED BY <1>7, <1>8 DEF f

LEMMA OutboxInitial == OutboxInit => OutboxInv
  <1> SUFFICES ASSUME OutboxInit PROVE OutboxInv
    OBVIOUS
  <1>1. addressed \in SUBSET Recipients /\ IsFiniteSet(addressed) /\ (sink # "preview" => addressed = {Channel})
    BY AddressedType DEF OutboxInit
  <1>2. OutboxTypeOK
    BY <1>1, OutboxConstants DEF OutboxInit, OutboxTypeOK, OutboxRow, OutboxRows, OutboxStatuses, DeliveryRows
  <1>3. OutboxTyped
    BY <1>1, <1>2, UnoccupiedType DEF OutboxInit, OutboxTyped, DispatcherPlaces, ConsumerPlaces, Invocations
  <1>4. \A c \in Consumers : at[c] = "idle"
    BY DEF OutboxInit, Invocations
  <1>5. outbox.status = "pending" /\ \A d \in Dispatchers : at[d] = "idle"
    BY DEF OutboxInit, OutboxRow, Invocations
  <1>6. SentWasPosted
    BY DEF OutboxInit, SentWasPosted
  <1> QED BY <1>3, <1>4, <1>5, <1>6 DEF OutboxInv, ConsumerOK, Followed

(* What the types come to.                                                  *)
LEMMA OutboxFacts ==
  ASSUME OutboxInv
  PROVE  /\ outbox \in OutboxRows /\ outbox.attempts \in 0..MaxAttempts
         /\ deliveries \in [Recipients -> DeliveryStatuses \cup {"none"}]
         /\ queue \in [0..MaxRetries -> Nat] /\ dlq \in Nat /\ troubles \in 0..MaxTroubles
         /\ at \in [Invocations -> DispatcherPlaces \cup ConsumerPlaces] /\ work \in [Invocations -> Holdings]
         /\ Dispatchers \subseteq Invocations /\ Consumers \subseteq Invocations
         /\ \A i \in Invocations : work[i] \in Holdings
         /\ addressed \in SUBSET Recipients /\ told \in SUBSET Recipients
  BY DEF OutboxInv, OutboxTyped, OutboxTypeOK, OutboxRows, DeliveryRows, Invocations

(* A dispatcher's step leaves the consumers and the deliveries alone.       *)
LEMMA DispatcherStep ==
  ASSUME OutboxInv, NEW d \in Dispatchers, NEW where \in DispatcherPlaces, NEW what \in Holdings,
         Go(d, where, what), UNCHANGED <<addressed, sink, deliveries, dlq, told>>,
         outbox' \in OutboxRows, queue' \in [0..MaxRetries -> Nat], troubles' \in 0..MaxTroubles,
         Somewhere => Somewhere',
         \A r \in addressed : /\ Settled(r) \/ Somewhere' \/ outbox'.status # "dispatched"
                              /\ where = "dispatched" => Settled(r) \/ Somewhere'
  PROVE  OutboxInv'
  <1>1. /\ at \in [Invocations -> DispatcherPlaces \cup ConsumerPlaces] /\ work \in [Invocations -> Holdings]
        /\ Dispatchers \subseteq Invocations /\ Consumers \subseteq Invocations
    BY OutboxFacts
  <1>2. /\ at' = [at EXCEPT ![d] = where] /\ work' = [work EXCEPT ![d] = what]
    BY DEF Go
  <1>3. /\ at' \in [Invocations -> DispatcherPlaces \cup ConsumerPlaces] /\ work' \in [Invocations -> Holdings]
        /\ at'[d] = where /\ \A e \in Invocations : e # d => at'[e] = at[e] /\ work'[e] = work[e]
    BY <1>1, <1>2
  <1>4. \A c \in Consumers : at'[c] = at[c] /\ work'[c] = work[c]
    BY <1>1, <1>3, OutboxConstants
  <1>5. OutboxTyped'
    <2>1. OutboxTypeOK'
      BY DEF OutboxInv, OutboxTyped, OutboxTypeOK
    <2>2. \A e \in Dispatchers : at'[e] \in DispatcherPlaces
      BY <1>1, <1>3 DEF OutboxInv, OutboxTyped
    <2> QED BY <1>3, <1>4, <2>1, <2>2 DEF OutboxInv, OutboxTyped
  <1>6. SentWasPosted'
    BY DEF OutboxInv, SentWasPosted
  <1>7. \A r : Settled(r)' <=> Settled(r)
    BY DEF Settled
  <1>8. \A c \in Consumers : ConsumerOK(c)'
    BY <1>4, <1>7 DEF OutboxInv, ConsumerOK, Left
  <1>9. Followed'
    <2>1. ASSUME NEW r \in addressed, NEW e \in Dispatchers, at'[e] = "dispatched" PROVE Settled(r) \/ Somewhere'
      <3>1. CASE e = d
        BY <1>3, <2>1, <3>1
      <3>2. CASE e # d
        BY <1>1, <1>3, <2>1, <3>2 DEF OutboxInv, Followed
      <3> QED BY <3>1, <3>2
    <2> QED BY <1>7, <2>1 DEF Followed
  <1> QED BY <1>5, <1>6, <1>8, <1>9 DEF OutboxInv

LEMMA PutType ==
  ASSUME OutboxInv, NEW n \in 0..MaxRetries, Put(n)
  PROVE  queue' \in [0..MaxRetries -> Nat] /\ queue'[n] > 0 /\ \A m \in 0..MaxRetries : queue[m] > 0 => queue'[m] > 0
  <1>1. queue \in [0..MaxRetries -> Nat] /\ queue' = [queue EXCEPT ![n] = @ + 1]
    BY OutboxFacts DEF Put
  <1> QED BY <1>1

LEMMA ListDispatchableKeeps == ASSUME OutboxInv, NEW d \in Dispatchers, ListDispatchable(d) PROVE OutboxInv'
  <1>1. Go(d, "send", Unoccupied) /\ UNCHANGED <<addressed, sink, outbox, deliveries, queue, dlq, told, troubles>>
    BY DEF ListDispatchable
  <1>2. \A c \in Consumers : at'[c] = at[c]
    BY <1>1, OutboxFacts, OutboxConstants DEF Go
  <1>3. Somewhere => Somewhere'
    BY <1>1, <1>2 DEF Somewhere
  <1>4. outbox' \in OutboxRows /\ queue' \in [0..MaxRetries -> Nat] /\ troubles' \in 0..MaxTroubles
    BY <1>1, OutboxFacts
  <1>5. \A r \in addressed : Settled(r) \/ Somewhere' \/ outbox'.status # "dispatched"
    BY <1>1, <1>3 DEF OutboxInv, Followed
  <1> QED BY <1>1, <1>3, <1>4, <1>5, UnoccupiedType, DispatcherStep DEF DispatcherPlaces

LEMMA ConsumersStay ==
  ASSUME OutboxInv, NEW d \in Dispatchers, NEW where, NEW what, Go(d, where, what)
  PROVE  \A c \in Consumers : at'[c] = at[c]
  BY OutboxFacts, OutboxConstants DEF Go

LEMMA TroubleType == ASSUME OutboxInv, Trouble PROVE troubles' \in 0..MaxTroubles
  BY OutboxFacts, OutboxConstants DEF Trouble

LEMMA SendToQueueKeeps == ASSUME OutboxInv, NEW d \in Dispatchers, SendToQueue(d) PROVE OutboxInv'
  <1> DEFINE failed == [Unoccupied EXCEPT !.attempts = Counting(outbox.attempts)]
  <1>1. UNCHANGED <<addressed, sink, outbox, deliveries, dlq, told>>
    BY DEF SendToQueue
  <1>2. 0 \in 0..MaxRetries /\ outbox' \in OutboxRows
    BY <1>1, OutboxFacts, OutboxConstants
  <1>3. failed \in Holdings
    BY OutboxFacts, CountingType, UnoccupiedType
  <1>4. CASE Put(0) /\ Go(d, "dispatched", Unoccupied) /\ UNCHANGED troubles
    <2>1. queue' \in [0..MaxRetries -> Nat] /\ queue'[0] > 0
      BY <1>2, <1>4, PutType
    <2>2. Somewhere'
      BY <1>2, <2>1 DEF Somewhere
    <2> QED BY <1>1, <1>2, <1>4, <2>1, <2>2, OutboxFacts, UnoccupiedType, DispatcherStep DEF DispatcherPlaces
  <1>5. CASE Trouble /\ (Put(0) \/ UNCHANGED queue) /\ Go(d, "dispatchFailed", failed)
    <2>1. queue' \in [0..MaxRetries -> Nat] /\ \A m \in 0..MaxRetries : queue[m] > 0 => queue'[m] > 0
      BY <1>2, <1>5, PutType, OutboxFacts
    <2>2. \A c \in Consumers : at'[c] = at[c]
      BY <1>5, ConsumersStay
    <2>3. Somewhere => Somewhere'
      BY <1>1, <2>1, <2>2 DEF Somewhere
    <2>4. troubles' \in 0..MaxTroubles
      BY <1>5, TroubleType
    <2>5. \A r \in addressed : Settled(r) \/ Somewhere' \/ outbox'.status # "dispatched"
      BY <1>1, <2>3 DEF OutboxInv, Followed
    <2> HIDE DEF failed
    <2> QED BY <1>1, <1>2, <1>3, <1>5, <2>1, <2>3, <2>4, <2>5, DispatcherStep DEF DispatcherPlaces
  <1> QED BY <1>4, <1>5 DEF SendToQueue

LEMMA MarkDispatchedKeeps == ASSUME OutboxInv, NEW d \in Dispatchers, MarkDispatched(d) PROVE OutboxInv'
  <1>1. /\ at[d] = "dispatched" /\ Go(d, "idle", Unoccupied)
        /\ outbox' = [outbox EXCEPT !.status = "dispatched", !.attempts = Counting(@)]
        /\ UNCHANGED <<addressed, sink, deliveries, queue, dlq, told, troubles>>
    BY DEF MarkDispatched
  <1>2. outbox' \in OutboxRows
    BY <1>1, OutboxFacts, CountingType DEF OutboxRows, OutboxStatuses
  <1>3. Somewhere => Somewhere'
    BY <1>1, ConsumersStay DEF Somewhere
  <1>4. \A r \in addressed : Settled(r) \/ Somewhere'
    BY <1>1, <1>3 DEF OutboxInv, Followed
  <1>5. queue' \in [0..MaxRetries -> Nat] /\ troubles' \in 0..MaxTroubles
    BY <1>1, OutboxFacts
  <1> QED BY <1>1, <1>2, <1>3, <1>4, <1>5, UnoccupiedType, DispatcherStep DEF DispatcherPlaces

LEMMA MarkDispatchFailedKeeps == ASSUME OutboxInv, NEW d \in Dispatchers, MarkDispatchFailed(d) PROVE OutboxInv'
  <1> DEFINE status == IF work[d].attempts >= MaxAttempts THEN "dead" ELSE "failed"
  <1>1. /\ Go(d, "idle", Unoccupied)
        /\ outbox' = [status |-> status, attempts |-> Counting(outbox.attempts), due |-> status = "dead"]
        /\ UNCHANGED <<addressed, sink, deliveries, queue, dlq, told, troubles>>
    BY DEF MarkDispatchFailed
  <1>2. status \in {"dead", "failed"}
    OBVIOUS
  <1> HIDE DEF status
  <1>3. (status = "dead") \in BOOLEAN
    OBVIOUS
  <1>4. outbox' \in OutboxRows /\ outbox'.status = status
    BY <1>1, <1>2, <1>3, OutboxFacts, CountingType DEF OutboxRows, OutboxStatuses
  <1>5. Somewhere => Somewhere'
    BY <1>1, ConsumersStay DEF Somewhere
  <1>6. queue' \in [0..MaxRetries -> Nat] /\ troubles' \in 0..MaxTroubles
    BY <1>1, OutboxFacts
  <1> QED BY <1>1, <1>2, <1>4, <1>5, <1>6, UnoccupiedType, DispatcherStep DEF DispatcherPlaces

LEMMA DispatcherFailsKeeps == ASSUME OutboxInv, NEW d \in Dispatchers, DispatcherFails(d) PROVE OutboxInv'
  <1>1. /\ Go(d, "idle", Unoccupied) /\ Trouble
        /\ UNCHANGED <<addressed, sink, outbox, deliveries, queue, dlq, told>>
    BY DEF DispatcherFails
  <1>2. Somewhere => Somewhere'
    BY <1>1, ConsumersStay DEF Somewhere
  <1>3. \A r \in addressed : Settled(r) \/ Somewhere' \/ outbox'.status # "dispatched"
    BY <1>1, <1>2 DEF OutboxInv, Followed
  <1>4. outbox' \in OutboxRows /\ queue' \in [0..MaxRetries -> Nat] /\ troubles' \in 0..MaxTroubles
    BY <1>1, OutboxFacts, TroubleType
  <1> QED BY <1>1, <1>2, <1>3, <1>4, UnoccupiedType, DispatcherStep DEF DispatcherPlaces

(* A step of the others leaves the invocations alone, and their messages.   *)
LEMMA OtherStep ==
  ASSUME OutboxInv, UNCHANGED <<addressed, deliveries, queue, told, at, work, troubles>>,
         outbox' \in OutboxRows, dlq' \in Nat, sink' \in Sinks,
         sink = "preview" <=> sink' = "preview", sink = "set" => sink' = "set",
         \/ dlq' = dlq /\ (outbox'.status = "dispatched" => outbox.status = "dispatched")
         \/ outbox'.status # "dispatched" /\ \A d \in Dispatchers : at[d] # "dispatched"
  PROVE  OutboxInv'
  <1>1. OutboxTyped'
    BY DEF OutboxInv, OutboxTyped, OutboxTypeOK
  <1>2. SentWasPosted'
    BY DEF OutboxInv, SentWasPosted
  <1>3. \A r : Settled(r)' <=> Settled(r)
    BY DEF Settled
  <1>4. \A c \in Consumers : ConsumerOK(c)'
    BY <1>3 DEF OutboxInv, ConsumerOK, Left
  <1>5. Followed'
    <2>1. dlq' = dlq => (Somewhere' <=> Somewhere)
      BY DEF Somewhere
    <2> QED BY <1>3, <2>1 DEF OutboxInv, Followed
  <1> QED BY <1>1, <1>2, <1>4, <1>5 DEF OutboxInv

LEMMA RequeueSkippedKeeps == ASSUME OutboxInv, RequeueSkipped PROVE OutboxInv'
  <1>1. /\ outbox' = [outbox EXCEPT !.status = "pending", !.due = TRUE]
        /\ UNCHANGED <<addressed, sink, deliveries, queue, dlq, told, at, work, troubles>>
    BY DEF RequeueSkipped
  <1>2. outbox' \in OutboxRows /\ outbox'.status = "pending"
    BY <1>1, OutboxFacts DEF OutboxRows, OutboxStatuses
  <1>3. dlq' \in Nat /\ sink' \in Sinks
    BY <1>1, OutboxFacts DEF OutboxInv, OutboxTyped, OutboxTypeOK
  <1> QED BY <1>1, <1>2, <1>3, OtherStep

LEMMA MarkDeadKeeps == ASSUME OutboxInv, MarkDead PROVE OutboxInv'
  <1>1. /\ dlq > 0 /\ dlq' = dlq - 1 /\ \A d \in Dispatchers : at[d] # "dispatched"
        /\ outbox' = [outbox EXCEPT !.status = "dead", !.due = TRUE]
        /\ UNCHANGED <<addressed, sink, deliveries, queue, told, at, work, troubles>>
    BY DEF MarkDead, MarksDead
  <1>2. outbox' \in OutboxRows /\ outbox'.status = "dead"
    BY <1>1, OutboxFacts DEF OutboxRows, OutboxStatuses
  <1>3. dlq' \in Nat /\ sink' \in Sinks
    BY <1>1, OutboxFacts DEF OutboxInv, OutboxTyped, OutboxTypeOK
  <1> QED BY <1>1, <1>2, <1>3, OtherStep

LEMMA BackoffOverKeeps == ASSUME OutboxInv, BackoffOver PROVE OutboxInv'
  <1>1. /\ outbox' = [outbox EXCEPT !.due = TRUE]
        /\ UNCHANGED <<addressed, sink, deliveries, queue, dlq, told, at, work, troubles>>
    BY DEF BackoffOver
  <1>2. outbox' \in OutboxRows /\ outbox'.status = outbox.status
    BY <1>1, OutboxFacts DEF OutboxRows
  <1>3. dlq' \in Nat /\ sink' \in Sinks
    BY <1>1, OutboxFacts DEF OutboxInv, OutboxTyped, OutboxTypeOK
  <1> QED BY <1>1, <1>2, <1>3, OtherStep

LEMMA SetWebhookKeeps == ASSUME OutboxInv, SetWebhook PROVE OutboxInv'
  <1>1. /\ sink = "unset" /\ sink' = "set"
        /\ UNCHANGED <<addressed, outbox, deliveries, queue, dlq, told, at, work, troubles>>
    BY DEF SetWebhook
  <1>2. outbox' \in OutboxRows /\ dlq' \in Nat /\ sink' \in Sinks
    BY <1>1, OutboxFacts DEF Sinks
  <1> QED BY <1>1, <1>2, OtherStep

(* The step of a consumer: whoever is not settled has a message.            *)
InQueue == dlq > 0 \/ \E n \in 0..MaxRetries : queue[n] > 0
LEMMA ConsumerStep ==
  ASSUME OutboxInv, NEW c \in Consumers, NEW where \in ConsumerPlaces, NEW what \in Holdings,
         Go(c, where, what), UNCHANGED <<addressed, sink>>,
         outbox' \in OutboxRows, outbox'.status = "dispatched" => outbox.status = "dispatched",
         deliveries' \in DeliveryRows, queue' \in [0..MaxRetries -> Nat], dlq' \in Nat,
         told' \in SUBSET Recipients, troubles' \in 0..MaxTroubles,
         told \subseteq told', \A r \in Recipients : Settled(r) => Settled(r)',
         SentWasPosted', ConsumerOK(c)',
         where # "idle" \/ InQueue' \/ \A r \in addressed : Settled(r)'
  PROVE  OutboxInv'
  <1>1. /\ at \in [Invocations -> DispatcherPlaces \cup ConsumerPlaces] /\ work \in [Invocations -> Holdings]
        /\ Dispatchers \subseteq Invocations /\ Consumers \subseteq Invocations
        /\ addressed \in SUBSET Recipients
    BY OutboxFacts
  <1>2. /\ at' = [at EXCEPT ![c] = where] /\ work' = [work EXCEPT ![c] = what]
    BY DEF Go
  <1>3. /\ at' \in [Invocations -> DispatcherPlaces \cup ConsumerPlaces] /\ work' \in [Invocations -> Holdings]
        /\ at'[c] = where /\ \A e \in Invocations : e # c => at'[e] = at[e] /\ work'[e] = work[e]
    BY <1>1, <1>2
  <1>4. \A d \in Dispatchers : at'[d] = at[d]
    BY <1>1, <1>3, OutboxConstants
  <1>5. OutboxTyped'
    <2>1. OutboxTypeOK'
      BY DEF OutboxInv, OutboxTyped, OutboxTypeOK
    <2>2. \A e \in Consumers : at'[e] \in ConsumerPlaces
      BY <1>1, <1>3 DEF OutboxInv, OutboxTyped
    <2> QED BY <1>3, <1>4, <2>1, <2>2 DEF OutboxInv, OutboxTyped
  <1>6. \A e \in Consumers : ConsumerOK(e)'
    <2> SUFFICES ASSUME NEW e \in Consumers, e # c PROVE ConsumerOK(e)'
      OBVIOUS
    <2>1. ConsumerOK(e) /\ at'[e] = at[e] /\ work'[e] = work[e]
      BY <1>1, <1>3 DEF OutboxInv
    <2>2. Left(e)' = Left(e)
      BY <2>1 DEF Left
    <2> QED BY <1>1, <2>1, <2>2 DEF ConsumerOK
  <1>7. \A r \in addressed : Settled(r)' \/ Somewhere'
    BY <1>3 DEF Somewhere, InQueue
  <1> QED BY <1>5, <1>6, <1>7 DEF OutboxInv, Followed

(* A message that comes again is in the queue, or a dead letter.            *)
LEMMA RetryPuts ==
  ASSUME OutboxInv, NEW n \in 0..MaxRetries, Retry(n)
  PROVE  queue' \in [0..MaxRetries -> Nat] /\ dlq' \in Nat /\ InQueue'
  <1>1. CASE n < MaxRetries /\ Put(n + 1) /\ UNCHANGED dlq
    <2>1. n + 1 \in 0..MaxRetries
      BY <1>1, OutboxConstants
    <2> QED BY <1>1, <2>1, PutType, OutboxFacts DEF InQueue
  <1>2. CASE n = MaxRetries /\ dlq' = dlq + 1 /\ UNCHANGED queue
    BY <1>2, OutboxFacts DEF InQueue
  <1> QED BY <1>1, <1>2 DEF Retry

(* The head of a list and its tail are the list.                            *)
LEMMA HeadAndTail ==
  ASSUME NEW S, NEW s \in Seq(S), s # <<>>
  PROVE  /\ Head(s) \in S /\ Tail(s) \in Seq(S)
         /\ {s[n] : n \in DOMAIN s} = {Head(s)} \cup {Tail(s)[n] : n \in DOMAIN Tail(s)}
  <1>1. Len(s) \in Nat /\ Len(s) > 0 /\ DOMAIN s = 1..Len(s) /\ Head(s) = s[1] /\ Tail(s) \in Seq(S)
    OBVIOUS
  <1>2. DOMAIN Tail(s) = 1..(Len(s) - 1) /\ \A n \in 1..(Len(s) - 1) : Tail(s)[n] = s[n + 1]
    BY <1>1
  <1>3. ASSUME NEW n \in DOMAIN s PROVE s[n] \in {Head(s)} \cup {Tail(s)[m] : m \in DOMAIN Tail(s)}
    <2>1. CASE n = 1
      BY <1>1, <2>1
    <2>2. CASE n # 1
      <3>1. n - 1 \in 1..(Len(s) - 1)
        BY <1>1, <1>3, <2>2
      <3>2. Tail(s)[n - 1] = s[n]
        BY <1>1, <1>2, <3>1
      <3> QED BY <1>2, <3>1, <3>2
    <2> QED BY <2>1, <2>2
  <1>4. ASSUME NEW m \in DOMAIN Tail(s) PROVE Tail(s)[m] \in {s[n] : n \in DOMAIN s}
    <2>1. m + 1 \in DOMAIN s /\ Tail(s)[m] = s[m + 1]
      BY <1>1, <1>2
    <2> QED BY <2>1
  <1>5. Head(s) \in {s[n] : n \in DOMAIN s} /\ Head(s) \in S
    BY <1>1
  <1> QED BY <1>1, <1>3, <1>4, <1>5

LEMMA HoldingFacts ==
  ASSUME OutboxInv, NEW c \in Consumers
  PROVE  /\ work[c] \in Holdings /\ work[c].attempts \in 0..MaxAttempts /\ work[c].retries \in 0..MaxRetries
         /\ work[c].todo \in Seq(Recipients) /\ work[c].skipped \in BOOLEAN /\ ConsumerOK(c)
         /\ c \in Invocations
  <1>1. work[c] \in Holdings /\ c \in Invocations
    BY OutboxFacts
  <1> QED BY <1>1 DEF Holdings, OutboxInv

(* What a consumer holds and where it is after a step of its own.           *)
LEMMA GoesThere ==
  ASSUME OutboxInv, NEW c \in Consumers, NEW where, NEW what, Go(c, where, what)
  PROVE  at'[c] = where /\ work'[c] = what
  BY OutboxFacts DEF Go

LEMMA AckKeeps ==
  ASSUME OutboxInv, NEW c \in Consumers, Ack(c)
  PROVE  Go(c, "idle", Unoccupied) /\ ConsumerOK(c)'
  <1>1. at'[c] = "idle"
    BY GoesThere DEF Ack
  <1> QED BY <1>1 DEF ConsumerOK, Ack

LEMMA ReceiveKeeps == ASSUME OutboxInv, NEW c \in Consumers, NEW n \in 0..MaxRetries, Receive(c, n) PROVE OutboxInv'
  <1> DEFINE what == [Unoccupied EXCEPT !.retries = n]
  <1>1. /\ queue[n] > 0 /\ queue' = [queue EXCEPT ![n] = @ - 1] /\ Go(c, "load", what)
        /\ UNCHANGED <<addressed, sink, outbox, deliveries, dlq, told, troubles>>
    BY DEF Receive
  <1>2. what \in Holdings
    BY UnoccupiedType DEF Holdings
  <1> HIDE DEF what
  <1>3. at'[c] = "load"
    BY <1>1, GoesThere
  <1>4. ConsumerOK(c)'
    BY <1>3 DEF ConsumerOK
  <1>5. queue' \in [0..MaxRetries -> Nat]
    BY <1>1, OutboxFacts
  <1>6. outbox' \in OutboxRows /\ deliveries' \in DeliveryRows /\ dlq' \in Nat /\ told' \in SUBSET Recipients /\ troubles' \in 0..MaxTroubles
    BY <1>1, OutboxFacts DEF DeliveryRows
  <1>7. SentWasPosted' /\ \A r : Settled(r)' <=> Settled(r)
    BY <1>1 DEF OutboxInv, SentWasPosted, Settled
  <1> QED BY <1>1, <1>2, <1>4, <1>5, <1>6, <1>7, ConsumerStep DEF ConsumerPlaces

LEMMA LoadMessageKeeps == ASSUME OutboxInv, NEW c \in Consumers, LoadMessage(c) PROVE OutboxInv'
  <1> DEFINE list == SetToSeq(addressed)
             what == [work[c] EXCEPT !.todo = list]
  <1>1. /\ Go(c, "deliver", what)
        /\ UNCHANGED <<addressed, sink, outbox, deliveries, queue, dlq, told, troubles>>
    BY DEF LoadMessage
  <1>2. IsFiniteSet(addressed) /\ addressed \in SUBSET Recipients
    BY DEF OutboxInv, OutboxTyped, OutboxTypeOK
  <1>3. list \in Seq(addressed) /\ {list[n] : n \in DOMAIN list} = addressed
    BY <1>2, ListOf
  <1> HIDE DEF list
  <1>4. list \in Seq(Recipients)
    BY <1>2, <1>3
  <1>5. what \in Holdings /\ what.todo = list
    BY <1>4, HoldingFacts DEF Holdings
  <1> HIDE DEF what
  <1>6. at'[c] = "deliver" /\ work'[c] = what
    BY <1>1, GoesThere
  <1>7. ConsumerOK(c)'
    BY <1>1, <1>3, <1>5, <1>6 DEF ConsumerOK, Left
  <1>8. /\ outbox' \in OutboxRows /\ deliveries' \in DeliveryRows /\ dlq' \in Nat /\ told' \in SUBSET Recipients
        /\ troubles' \in 0..MaxTroubles /\ queue' \in [0..MaxRetries -> Nat]
    BY <1>1, OutboxFacts DEF DeliveryRows
  <1>9. SentWasPosted' /\ \A r : Settled(r)' <=> Settled(r)
    BY <1>1 DEF OutboxInv, SentWasPosted, Settled
  <1> QED BY <1>1, <1>5, <1>7, <1>8, <1>9, ConsumerStep DEF ConsumerPlaces

LEMMA EnsureDeliveryKeeps == ASSUME OutboxInv, NEW c \in Consumers, EnsureDelivery(c) PROVE OutboxInv'
  <1> DEFINE r == Head(work[c].todo)
             rest == [work[c] EXCEPT !.todo = Tail(@)]
  <1>1. /\ at[c] = "deliver" /\ work[c].todo # <<>>
        /\ deliveries' = [deliveries EXCEPT ![r] = IF @ = "none" THEN "pending" ELSE @]
        /\ UNCHANGED <<addressed, sink, outbox, queue, dlq, told, troubles>>
        /\ \/ deliveries[r] = "sent" /\ Go(c, "deliver", rest)
           \/ Go(c, "post", work[c])
    BY DEF EnsureDelivery, AlreadySent
  <1>2. /\ work[c] \in Holdings /\ work[c].todo \in Seq(Recipients) /\ ConsumerOK(c)
    BY HoldingFacts
  <1>3. /\ r \in Recipients /\ Tail(work[c].todo) \in Seq(Recipients)
        /\ Left(c) = {r} \cup {Tail(work[c].todo)[n] : n \in DOMAIN Tail(work[c].todo)}
    BY <1>1, <1>2, HeadAndTail DEF Left
  <1>4. rest \in Holdings /\ rest.todo = Tail(work[c].todo)
    BY <1>2, <1>3 DEF Holdings
  <1> HIDE DEF r, rest
  <1>5. deliveries \in [Recipients -> DeliveryStatuses \cup {"none"}]
    BY OutboxFacts
  <1>6. /\ deliveries' \in DeliveryRows
        /\ \A q \in Recipients : /\ deliveries'[q] = "sent" <=> deliveries[q] = "sent"
                                 /\ deliveries'[q] \in {"failed", "skipped"} <=> deliveries[q] \in {"failed", "skipped"}
    BY <1>1, <1>3, <1>5 DEF DeliveryRows, DeliveryStatuses
  <1>7. SentWasPosted' /\ \A q \in Recipients : Settled(q)' <=> Settled(q)
    BY <1>1, <1>6 DEF OutboxInv, SentWasPosted, Settled
  <1>8. /\ outbox' \in OutboxRows /\ dlq' \in Nat /\ told' \in SUBSET Recipients /\ troubles' \in 0..MaxTroubles
        /\ queue' \in [0..MaxRetries -> Nat] /\ addressed \in SUBSET Recipients
    BY <1>1, OutboxFacts
  <1>9. CASE deliveries[r] = "sent" /\ Go(c, "deliver", rest)
    <2>1. Settled(r)
      BY <1>3, <1>9 DEF OutboxInv, SentWasPosted, Settled
    <2>2. at'[c] = "deliver" /\ work'[c] = rest
      BY <1>9, GoesThere
    <2>3. Left(c)' \subseteq Left(c) /\ Left(c) \subseteq Left(c)' \cup {r}
      BY <1>3, <1>4, <2>2 DEF Left
    <2>4. Left(c) \subseteq addressed /\ \A q \in addressed : q \in Left(c) \/ Settled(q)
      BY <1>1, <1>2 DEF ConsumerOK
    <2>5. ConsumerOK(c)'
      BY <1>1, <1>3, <1>7, <1>8, <2>1, <2>2, <2>3, <2>4 DEF ConsumerOK
    <2> QED BY <1>1, <1>4, <1>6, <1>7, <1>8, <1>9, <2>5, ConsumerStep DEF ConsumerPlaces
  <1>10. CASE Go(c, "post", work[c])
    <2>1. at'[c] = "post" /\ work'[c] = work[c]
      BY <1>10, GoesThere
    <2>2. Left(c)' = Left(c)
      BY <2>1 DEF Left
    <2>3. ConsumerOK(c)'
      BY <1>1, <1>2, <1>7, <1>8, <2>1, <2>2 DEF ConsumerOK
    <2> QED BY <1>1, <1>2, <1>6, <1>7, <1>8, <1>10, <2>3, ConsumerStep DEF ConsumerPlaces
  <1> QED BY <1>1, <1>9, <1>10

LEMMA PostKeeps == ASSUME OutboxInv, NEW c \in Consumers, Post(c) PROVE OutboxInv'
  <1> DEFINE r == Head(work[c].todo)
             with(o) == [work[c] EXCEPT !.outcome = o]
  <1>1. /\ at[c] = "post" /\ UNCHANGED <<addressed, sink, outbox, deliveries, queue, dlq>>
        /\ \E o \in {"skipped", "sent", "retriable", "rejected"} :
              /\ Go(c, "mark", with(o)) /\ told' \in {told, told \cup {r}}
              /\ o = "sent" => r \in told'
              /\ o \in {"retriable", "rejected"} => sink = "set"
        /\ UNCHANGED troubles \/ Trouble
    BY DEF Post
  <1>2. PICK o \in {"skipped", "sent", "retriable", "rejected"} :
              /\ Go(c, "mark", with(o)) /\ told' \in {told, told \cup {r}}
              /\ o = "sent" => r \in told'
              /\ o \in {"retriable", "rejected"} => sink = "set"
    BY <1>1
  <1>3. /\ work[c] \in Holdings /\ work[c].todo \in Seq(Recipients) /\ ConsumerOK(c)
        /\ work[c].todo # <<>>
    BY <1>1, HoldingFacts DEF ConsumerOK
  <1>4. r \in Recipients
    BY <1>3, HeadAndTail
  <1>5. with(o) \in Holdings /\ with(o).todo = work[c].todo /\ with(o).outcome = o
    BY <1>3 DEF Holdings, Posted
  <1>6. at'[c] = "mark" /\ work'[c].todo = work[c].todo /\ work'[c].outcome = o
    BY <1>2, <1>5, GoesThere
  <1> HIDE DEF with
  <1>7. told \subseteq told' /\ told' \in SUBSET Recipients
    BY <1>2, <1>4, OutboxFacts
  <1>8. /\ outbox' \in OutboxRows /\ deliveries' \in DeliveryRows /\ dlq' \in Nat /\ troubles' \in 0..MaxTroubles
        /\ queue' \in [0..MaxRetries -> Nat]
    BY <1>1, OutboxFacts, TroubleType DEF DeliveryRows
  <1>9. SentWasPosted' /\ \A q : Settled(q) => Settled(q)'
    BY <1>1, <1>7 DEF OutboxInv, SentWasPosted, Settled
  <1>10. Left(c)' = Left(c)
    BY <1>6 DEF Left
  <1>11. /\ Left(c) \subseteq addressed /\ \A q \in addressed : q \in Left(c) \/ Settled(q)
    BY <1>1, <1>3 DEF ConsumerOK
  <1>12. ConsumerOK(c)'
    <2>1. work'[c].todo # <<>> /\ Head(work'[c].todo) = r
      BY <1>3, <1>6
    <2> HIDE DEF r
    <2> QED BY <1>1, <1>2, <1>6, <1>9, <1>10, <1>11, <2>1 DEF ConsumerOK
  <1> QED BY <1>1, <1>2, <1>5, <1>7, <1>8, <1>9, <1>12, ConsumerStep DEF ConsumerPlaces

LEMMA MarkDeliveryKeeps == ASSUME OutboxInv, NEW c \in Consumers, MarkDelivery(c) PROVE OutboxInv'
  <1> PICK r : r = Head(work[c].todo)
    OBVIOUS
  <1> DEFINE outcome == work[c].outcome
             rest == [work[c] EXCEPT !.todo = Tail(@), !.skipped = @ \/ outcome = "skipped"]
  <1>1. /\ at[c] = "mark" /\ deliveries' = [deliveries EXCEPT ![r] = Recorded(outcome)]
        /\ UNCHANGED <<addressed, sink, outbox, told, troubles>>
        /\ \/ outcome \in {"sent", "skipped"} /\ UNCHANGED <<queue, dlq>> /\ Go(c, "deliver", rest)
           \/ outcome = "rejected" /\ Ack(c) /\ UNCHANGED <<queue, dlq>>
           \/ outcome = "retriable" /\ Ack(c) /\ Retry(work[c].retries)
    BY DEF MarkDelivery
  <1>2. /\ work[c] \in Holdings /\ work[c].todo \in Seq(Recipients) /\ ConsumerOK(c)
        /\ work[c].skipped \in BOOLEAN /\ work[c].retries \in 0..MaxRetries
    BY HoldingFacts
  <1>3. /\ work[c].todo # <<>>
        /\ outcome = "sent" => r \in told
        /\ outcome \in {"retriable", "rejected"} => sink = "set"
        /\ Left(c) \subseteq addressed /\ \A q \in addressed : q \in Left(c) \/ Settled(q)
    BY <1>1, <1>2 DEF ConsumerOK
  <1>4. /\ r \in Recipients /\ Tail(work[c].todo) \in Seq(Recipients)
        /\ Left(c) = {r} \cup {Tail(work[c].todo)[n] : n \in DOMAIN Tail(work[c].todo)}
    BY <1>2, <1>3, HeadAndTail DEF Left
  <1>5. rest \in Holdings /\ rest.todo = Tail(work[c].todo)
    BY <1>2, <1>4 DEF Holdings
  <1>6. outcome \in {"sent", "skipped", "retriable", "rejected"}
    BY <1>1
  <1> HIDE DEF rest, outcome
  <1>7. /\ Recorded(outcome) \in {"sent", "skipped", "failed"}
        /\ Recorded(outcome) = "sent" => r \in told
        /\ outcome \in {"retriable", "rejected"} => Recorded(outcome) = "failed"
    BY <1>3, <1>6 DEF Recorded
  <1>8. deliveries \in [Recipients -> DeliveryStatuses \cup {"none"}]
    BY OutboxFacts
  <1>9. /\ deliveries' \in DeliveryRows /\ deliveries'[r] = Recorded(outcome)
        /\ \A q \in Recipients : q # r => deliveries'[q] = deliveries[q]
    BY <1>1, <1>4, <1>7, <1>8 DEF DeliveryRows, DeliveryStatuses
  <1>10. SentWasPosted'
    BY <1>1, <1>7, <1>9 DEF OutboxInv, SentWasPosted
  <1>11. Settled(r)'
    BY <1>1, <1>7, <1>9 DEF Settled
  <1>12. \A q \in Recipients : Settled(q) => Settled(q)'
    BY <1>1, <1>9, <1>11 DEF Settled
  <1>13. outbox' \in OutboxRows /\ told' \in SUBSET Recipients /\ troubles' \in 0..MaxTroubles /\ addressed \in SUBSET Recipients
    BY <1>1, OutboxFacts
  <1>14. CASE UNCHANGED <<queue, dlq>> /\ Go(c, "deliver", rest)
    <2>1. at'[c] = "deliver" /\ work'[c] = rest
      BY <1>14, GoesThere
    <2>2. Left(c)' \subseteq Left(c) /\ Left(c) \subseteq Left(c)' \cup {r}
      BY <1>4, <1>5, <2>1 DEF Left
    <2>3. ConsumerOK(c)'
      BY <1>1, <1>3, <1>11, <1>12, <1>13, <2>1, <2>2 DEF ConsumerOK
    <2>4. queue' \in [0..MaxRetries -> Nat] /\ dlq' \in Nat
      BY <1>14, OutboxFacts
    <2> QED BY <1>1, <1>5, <1>9, <1>10, <1>12, <1>13, <1>14, <2>3, <2>4, ConsumerStep DEF ConsumerPlaces
  <1>15. CASE outcome = "rejected" /\ Ack(c) /\ UNCHANGED <<queue, dlq>>
    <2>1. addressed = {Channel} /\ r = Channel
      BY <1>3, <1>4, <1>15 DEF OutboxInv, OutboxTyped, OutboxTypeOK, Sinks
    <2>2. \A q \in addressed : Settled(q)'
      BY <1>11, <2>1
    <2>3. Go(c, "idle", Unoccupied) /\ ConsumerOK(c)'
      BY <1>15, AckKeeps
    <2>4. queue' \in [0..MaxRetries -> Nat] /\ dlq' \in Nat
      BY <1>15, OutboxFacts
    <2> QED BY <1>1, <1>9, <1>10, <1>12, <1>13, <2>2, <2>3, <2>4, UnoccupiedType, ConsumerStep DEF ConsumerPlaces
  <1>16. CASE Ack(c) /\ Retry(work[c].retries)
    <2>1. queue' \in [0..MaxRetries -> Nat] /\ dlq' \in Nat /\ InQueue'
      BY <1>2, <1>16, RetryPuts
    <2>2. Go(c, "idle", Unoccupied) /\ ConsumerOK(c)'
      BY <1>16, AckKeeps
    <2> QED BY <1>1, <1>9, <1>10, <1>12, <1>13, <2>1, <2>2, UnoccupiedType, ConsumerStep DEF ConsumerPlaces
  <1> QED BY <1>1, <1>14, <1>15, <1>16

LEMMA EndMessageKeeps == ASSUME OutboxInv, NEW c \in Consumers, EndMessage(c) PROVE OutboxInv'
  <1>1. /\ at[c] = "deliver" /\ work[c].todo = <<>> /\ Ack(c)
        /\ outbox' \in {[outbox EXCEPT !.status = "skipped", !.due = TRUE], outbox}
        /\ UNCHANGED <<addressed, sink, deliveries, queue, dlq, told, troubles>>
    BY DEF EndMessage
  <1>2. \A q \in addressed : Settled(q)
    <2>1. Left(c) = {}
      BY <1>1 DEF Left
    <2> QED BY <1>1, <2>1 DEF OutboxInv, ConsumerOK
  <1>3. outbox' \in OutboxRows /\ (outbox'.status = "dispatched" => outbox.status = "dispatched")
    BY <1>1, OutboxFacts DEF OutboxRows, OutboxStatuses
  <1>4. SentWasPosted' /\ \A q : Settled(q)' <=> Settled(q)
    BY <1>1 DEF OutboxInv, SentWasPosted, Settled
  <1>5. Go(c, "idle", Unoccupied) /\ ConsumerOK(c)'
    BY <1>1, AckKeeps
  <1>6. /\ deliveries' \in DeliveryRows /\ dlq' \in Nat /\ told' \in SUBSET Recipients /\ troubles' \in 0..MaxTroubles
        /\ queue' \in [0..MaxRetries -> Nat]
    BY <1>1, OutboxFacts DEF DeliveryRows
  <1> QED BY <1>1, <1>2, <1>3, <1>4, <1>5, <1>6, UnoccupiedType, ConsumerStep DEF ConsumerPlaces

LEMMA ConsumerFailsKeeps == ASSUME OutboxInv, NEW c \in Consumers, ConsumerFails(c) PROVE OutboxInv'
  <1>1. /\ Trouble /\ Ack(c) /\ Retry(work[c].retries)
        /\ UNCHANGED <<addressed, sink, outbox, deliveries, told>>
    BY DEF ConsumerFails
  <1>2. queue' \in [0..MaxRetries -> Nat] /\ dlq' \in Nat /\ InQueue'
    BY <1>1, HoldingFacts, RetryPuts
  <1>3. Go(c, "idle", Unoccupied) /\ ConsumerOK(c)'
    BY <1>1, AckKeeps
  <1>4. SentWasPosted' /\ \A q : Settled(q)' <=> Settled(q)
    BY <1>1 DEF OutboxInv, SentWasPosted, Settled
  <1>5. /\ outbox' \in OutboxRows /\ deliveries' \in DeliveryRows /\ told' \in SUBSET Recipients /\ troubles' \in 0..MaxTroubles
    BY <1>1, OutboxFacts, TroubleType DEF DeliveryRows
  <1> QED BY <1>1, <1>2, <1>3, <1>4, <1>5, UnoccupiedType, ConsumerStep DEF ConsumerPlaces

LEMMA OutboxStep == OutboxInv /\ [OutboxNext]_outboxVars => OutboxInv'
  <1> SUFFICES ASSUME OutboxInv, [OutboxNext]_outboxVars PROVE OutboxInv'
    OBVIOUS
  <1>1. ASSUME NEW d \in Dispatchers, Dispatching(d) \/ DispatcherFails(d) PROVE OutboxInv'
    BY <1>1, ListDispatchableKeeps, SendToQueueKeeps, MarkDispatchedKeeps, MarkDispatchFailedKeeps,
       DispatcherFailsKeeps DEF Dispatching
  <1>2. ASSUME NEW c \in Consumers, Consuming(c) \/ ConsumerFails(c) PROVE OutboxInv'
    BY <1>2, ReceiveKeeps, LoadMessageKeeps, EnsureDeliveryKeeps, PostKeeps, MarkDeliveryKeeps,
       EndMessageKeeps, ConsumerFailsKeeps DEF Consuming
  <1>3. CASE RequeueSkipped \/ MarkDead \/ BackoffOver \/ SetWebhook
    BY <1>3, RequeueSkippedKeeps, MarkDeadKeeps, BackoffOverKeeps, SetWebhookKeeps
  <1>4. CASE UNCHANGED outboxVars
    BY <1>4 DEF outboxVars, OutboxInv, OutboxTyped, OutboxTypeOK, SentWasPosted, ConsumerOK, Left,
       Settled, Followed, Somewhere
  <1> QED BY <1>1, <1>2, <1>3, <1>4 DEF OutboxNext

(* A row that was dispatched and has no message left has settled everyone.  *)
LEMMA SentIsTrueFollows == OutboxInv => SentIsTrue
  <1> SUFFICES ASSUME OutboxInv, NEW r \in addressed
               PROVE  (deliveries[r] = "sent" => r \in told) /\ (r \in told \/ UnderWay \/ Counted(r))
    BY DEF SentIsTrue, OutboxInv, OutboxTyped
  <1>1. /\ r \in Recipients /\ outbox.status \in OutboxStatuses /\ Consumers \subseteq Invocations
        /\ DOMAIN queue = 0..MaxRetries
    BY OutboxFacts DEF OutboxRows
  <1>2. deliveries[r] = "sent" => r \in told
    BY <1>1 DEF OutboxInv, SentWasPosted
  <1>3. Settled(r) => r \in told \/ Counted(r)
    BY <1>1 DEF Settled, Counted, Health
  <1>4. Somewhere => UnderWay
    BY <1>1 DEF Somewhere, UnderWay
  <1>5. outbox.status = "dead" => Counted(r)
    BY DEF Counted, Health
  <1>6. outbox.status \in {"pending", "failed", "skipped"} => UnderWay
    BY DEF UnderWay, Dispatchable
  <1>7. outbox.status = "dispatched" => Settled(r) \/ Somewhere
    BY DEF OutboxInv, Followed
  <1> QED BY <1>1, <1>2, <1>3, <1>4, <1>5, <1>6, <1>7 DEF OutboxStatuses

(* The alerts: every row, saved or to be saved, is sound.                   *)
RowSound(row) ==
    /\ row.status = "firing" => row.since >= RequiredMinutes
    /\ row.status = "ok" <=> row.since = None
AlertInv ==
    /\ AlertTypeOK /\ cronWork \in [Crons -> AlertRows]
    /\ RowSound(alert) /\ \A c \in Crons : RowSound(cronWork[c])

LEMMA AlertConstants ==
  /\ Keys \subseteq OPERATOR_ALERT_KEYS /\ Minutes \in Nat /\ MaxLag \in Nat /\ MaxValue \in Nat /\ MaxFailures \in Nat
  /\ RequiredMinutes \in 0..Minutes
  BY AlertBounds DEF RequiredMinutes

LEMMA FallbackSound == Fallback \in AlertRows /\ RowSound(Fallback)
  BY AlertConstants DEF Fallback, AlertRows, Statuses, None, RowSound

LEMMA ValuesType == Values \subseteq {None} \cup 0..MaxValue
  BY DEF Values

LEMMA EvaluatedSound ==
  ASSUME NEW measured \in {None} \cup 0..MaxValue, NEW row \in AlertRows, RowSound(row), NEW lag \in 0..MaxLag
  PROVE  Evaluated(measured, row, lag) \in AlertRows /\ RowSound(Evaluated(measured, row, lag))
  <1> DEFINE breached == Breached(measured, row)
             next == NextStatus(breached, row, lag)
  <1>1. /\ row.since \in {None} \cup 0..(Minutes + MaxLag)
        /\ row.last \in {None} \cup 0..MaxValue /\ row.status \in Statuses
    BY DEF AlertRows
  <1>2. /\ next.status \in Statuses /\ next.since \in {None} \cup 0..(Minutes + MaxLag)
        /\ next.status = "firing" => next.since >= RequiredMinutes
        /\ next.status = "ok" <=> next.since = None
    <2> HIDE DEF breached
    <2>1. CASE ~breached
      BY <2>1 DEF NextStatus, Statuses
    <2>2. CASE breached
      <3> DEFINE since == IF row.since = None THEN lag ELSE row.since
      <3>1. since \in 0..(Minutes + MaxLag) /\ (row.status = "firing" => since >= RequiredMinutes)
        BY <1>1, AlertConstants DEF RowSound, None
      <3>2. next = IF row.status = "firing" \/ since - lag >= RequiredMinutes
                   THEN [status |-> "firing", since |-> since] ELSE [status |-> "breaching", since |-> since]
        BY <2>2 DEF NextStatus
      <3> HIDE DEF since, next
      <3>3. CASE row.status = "firing" \/ since - lag >= RequiredMinutes
        <4>1. next.status = "firing" /\ next.since = since
          BY <3>2, <3>3
        <4>2. since >= RequiredMinutes
          BY <3>1, <3>3, AlertConstants
        <4> QED BY <3>1, <4>1, <4>2, AlertConstants DEF Statuses, None
      <3>4. CASE ~ (row.status = "firing" \/ since - lag >= RequiredMinutes)
        <4>1. next.status = "breaching" /\ next.since = since
          BY <3>2, <3>4
        <4> QED BY <3>1, <4>1, AlertConstants DEF Statuses, None
      <3> QED BY <3>3, <3>4
    <2> QED BY <2>1, <2>2
  <1>3. Evaluated(measured, row, lag) = [status |-> next.status, since |-> next.since,
                                         last |-> IF key \in TrendKeys THEN measured ELSE row.last]
    BY DEF Evaluated
  <1> HIDE DEF next
  <1> QED BY <1>1, <1>2, <1>3 DEF AlertRows, RowSound

LEMMA OlderSound ==
  ASSUME NEW row \in AlertRows, RowSound(row)
  PROVE  Older(row) \in AlertRows /\ RowSound(Older(row))
  <1>1. row.since \in {None} \cup 0..(Minutes + MaxLag) /\ row.status \in Statuses
    BY DEF AlertRows
  <1>2. CASE row.since \in 0..(Minutes + MaxLag - 1)
    <2>1. /\ Older(row).since = row.since + 1 /\ Older(row).status = row.status /\ Older(row) \in AlertRows
      BY <1>1, <1>2, AlertConstants DEF Older, AlertRows
    <2> QED BY <1>1, <1>2, <2>1, AlertConstants DEF RowSound, None
  <1>3. CASE row.since \notin 0..(Minutes + MaxLag - 1)
    <2>1. Older(row).since = row.since /\ Older(row).status = row.status /\ Older(row) \in AlertRows
      BY <1>1, <1>3, AlertConstants DEF Older, AlertRows
    <2> QED BY <2>1 DEF RowSound
  <1> QED BY <1>2, <1>3

LEMMA AlertInitial == AlertInit => AlertInv
  BY FallbackSound, AlertConstants DEF AlertInit, AlertInv, AlertTypeOK, RowSound, RequiredMinutes

(* The step of a cron holds a sound row, or saves it.                       *)
LEMMA CronStep ==
  ASSUME AlertInv, NEW c \in Crons, NEW where \in {"idle", "measure", "load", "evaluate", "save"},
         NEW seen \in {None} \cup 0..MaxValue, NEW lag \in 0..MaxLag, NEW row \in AlertRows, RowSound(row),
         cronAt' = [cronAt EXCEPT ![c] = where], cronWork' = [cronWork EXCEPT ![c] = row],
         cronSeen' = [cronSeen EXCEPT ![c] = seen], cronLag' = [cronLag EXCEPT ![c] = lag],
         UNCHANGED <<key, value, recent>>, alert' \in {alert, cronWork[c]}, failures' \in 0..MaxFailures
  PROVE  AlertInv'
  <1>1. cronWork' \in [Crons -> AlertRows] /\ \A e \in Crons : cronWork'[e] \in {row, cronWork[e]}
    BY DEF AlertInv
  <1>2. RequiredMinutes' = RequiredMinutes /\ Values' = Values
    BY DEF RequiredMinutes, Values
  <1>3. AlertTypeOK'
    BY <1>1, <1>2 DEF AlertInv, AlertTypeOK
  <1>4. RowSound(alert)' /\ \A e \in Crons : RowSound(cronWork[e])'
    BY <1>1, <1>2 DEF AlertInv, RowSound
  <1> QED BY <1>1, <1>3, <1>4 DEF AlertInv

LEMMA EvaluatingKeeps ==
  ASSUME AlertInv, NEW c \in Crons, Evaluating(c) \/ EvaluationFails(c) PROVE AlertInv'
  <1>1. failures \in 0..MaxFailures /\ alert \in AlertRows /\ RowSound(alert)
        /\ cronWork[c] \in AlertRows /\ RowSound(cronWork[c])
        /\ cronSeen[c] \in {None} \cup 0..MaxValue /\ cronLag[c] \in 0..MaxLag
        /\ value \in {None} \cup 0..MaxValue
    BY ValuesType DEF AlertInv, AlertTypeOK
  <1>2. /\ cronWork = [cronWork EXCEPT ![c] = cronWork[c]] /\ cronSeen = [cronSeen EXCEPT ![c] = cronSeen[c]]
        /\ cronLag = [cronLag EXCEPT ![c] = cronLag[c]]
    BY DEF AlertInv, AlertTypeOK
  <1>3. None \in {None} \cup 0..MaxValue /\ 0 \in 0..MaxLag
    BY AlertConstants
  <1>4. CASE StartEvaluation(c)
    BY <1>1, <1>2, <1>4, CronStep DEF StartEvaluation
  <1>5. CASE Measure(c)
    <2> DEFINE seen == IF key \in CountKeys THEN None ELSE value
    <2>1. seen \in {None} \cup 0..MaxValue /\ cronSeen' = [cronSeen EXCEPT ![c] = seen]
      BY <1>1, <1>3, <1>5 DEF Measure
    <2> HIDE DEF seen
    <2> QED BY <1>1, <1>2, <1>5, <2>1, CronStep DEF Measure
  <1>6. CASE LoadAlert(c)
    BY <1>1, <1>2, <1>6, CronStep DEF LoadAlert
  <1>7. CASE Evaluate(c)
    <2>1. PICK measured \in Readings(c) :
          /\ \/ (key \in CountKeys => measured = value) /\ UNCHANGED failures
             \/ key \in CountKeys /\ measured # value /\ failures < MaxFailures /\ failures' = failures + 1
          /\ cronWork' = [cronWork EXCEPT ![c] = Evaluated(measured, @, cronLag[c])]
      BY <1>7 DEF Evaluate
    <2>2. measured \in {None} \cup 0..MaxValue
      BY <1>1, <1>3 DEF Readings
    <2>3. /\ Evaluated(measured, cronWork[c], cronLag[c]) \in AlertRows
          /\ RowSound(Evaluated(measured, cronWork[c], cronLag[c]))
      BY <1>1, <2>2, EvaluatedSound
    <2>4. cronWork' = [cronWork EXCEPT ![c] = Evaluated(measured, cronWork[c], cronLag[c])]
      BY <2>1
    <2>5. failures' \in 0..MaxFailures
      BY <1>1, <2>1, AlertConstants
    <2> HIDE DEF Evaluated
    <2> QED BY <1>1, <1>2, <1>3, <1>7, <2>3, <2>4, <2>5, CronStep DEF Evaluate
  <1>8. CASE SaveAlert(c)
    BY <1>1, <1>3, <1>8, FallbackSound, CronStep DEF SaveAlert, Ended
  <1>9. CASE EvaluationFails(c)
    <2>1. failures' \in 0..MaxFailures
      BY <1>1, <1>9, AlertConstants DEF EvaluationFails
    <2> QED BY <1>3, <1>9, <2>1, FallbackSound, CronStep DEF EvaluationFails, Ended
  <1> QED BY <1>4, <1>5, <1>6, <1>7, <1>8, <1>9 DEF Evaluating

LEMMA MinutePassesKeeps == ASSUME AlertInv, MinutePasses PROVE AlertInv'
  <1>1. /\ alert' = Older(alert) /\ cronWork' = [c \in Crons |-> Older(cronWork[c])]
        /\ UNCHANGED <<key, value, recent, cronAt, cronSeen, failures>>
    BY DEF MinutePasses
  <1>2. RequiredMinutes' = RequiredMinutes /\ Values' = Values
    BY <1>1 DEF RequiredMinutes, Values
  <1>3. Older(alert) \in AlertRows /\ RowSound(Older(alert))
    BY OlderSound DEF AlertInv, AlertTypeOK
  <1>4. \A c \in Crons : Older(cronWork[c]) \in AlertRows /\ RowSound(Older(cronWork[c]))
    BY OlderSound DEF AlertInv
  <1> HIDE DEF Older
  <1>5. cronWork' \in [Crons -> AlertRows] /\ \A c \in Crons : cronWork'[c] = Older(cronWork[c])
    BY <1>1, <1>4
  <1>6. RowSound(alert)' /\ \A c \in Crons : RowSound(cronWork[c])'
    BY <1>1, <1>2, <1>3, <1>4, <1>5 DEF RowSound
  <1>7. cronLag' \in [Crons -> 0..MaxLag]
    BY AlertConstants DEF AlertInv, AlertTypeOK, MinutePasses
  <1>8. AlertTypeOK'
    BY <1>1, <1>2, <1>3, <1>5, <1>7 DEF AlertInv, AlertTypeOK
  <1> QED BY <1>5, <1>6, <1>8 DEF AlertInv

LEMMA AlertStep == AlertInv /\ [AlertNext]_alertVars => AlertInv'
  <1> SUFFICES ASSUME AlertInv, [AlertNext]_alertVars PROVE AlertInv'
    OBVIOUS
  <1>1. CASE SignalChanges
    BY <1>1 DEF SignalChanges, cronVars, AlertInv, AlertTypeOK, RowSound, RequiredMinutes, Values
  <1>2. CASE WindowMoves
    BY <1>2 DEF WindowMoves, cronVars, AlertInv, AlertTypeOK, RowSound, RequiredMinutes, Values
  <1>3. CASE UNCHANGED alertVars
    BY <1>3 DEF alertVars, cronVars, AlertInv, AlertTypeOK, RowSound, RequiredMinutes, Values
  <1> QED BY <1>1, <1>2, <1>3, EvaluatingKeeps, MinutePassesKeeps DEF AlertNext

LEMMA SoundRows == AlertInv => AlertTypeOK /\ FiringIsSustained
  BY DEF AlertInv, FiringIsSustained, RowSound

(* For any number of recipients, crons, consumers, attempts, retries and    *)
(* troubles: a delivery recorded as sent was posted, a recipient who was    *)
(* not told is still to be dispatched, has a message under way or is        *)
(* counted by the health of the outbox; and an alert fires only after a     *)
(* breach of the minutes it requires.                                       *)
THEOREM RecordsStayTrue == MCSpec => []RecordsAreTrue
  <1>1. MCInit => OutboxInv /\ AlertInv
    BY OutboxInitial, AlertInitial DEF MCInit
  <1>2. OutboxInv /\ AlertInv /\ [MCNext]_mcVars => (OutboxInv /\ AlertInv)'
    <2> SUFFICES ASSUME OutboxInv, AlertInv, [MCNext]_mcVars PROVE OutboxInv' /\ AlertInv'
      OBVIOUS
    <2>1. [OutboxNext]_outboxVars /\ [AlertNext]_alertVars
      BY DEF MCNext, OutboxBehaviours, AlertBehaviours, OutboxPart, AlertPart, mcVars
    <2> QED BY <2>1, OutboxStep, AlertStep
  <1>3. OutboxInv /\ AlertInv => RecordsAreTrue
    BY SentIsTrueFollows, SoundRows DEF RecordsAreTrue
  <1> QED BY <1>1, <1>2, <1>3, PTL DEF MCSpec
=============================================================================
