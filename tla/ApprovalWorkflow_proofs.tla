----------------------- MODULE ApprovalWorkflow_proofs -----------------------
(***************************************************************************)
(* The approval phase for every plan, cohort and set of decisions, and any *)
(* number of retries, deliveries and cancels: what the row, the log, the   *)
(* commands and the Workflow say agrees, the row never regresses, and the  *)
(* folded status follows the lifecycle.                                    *)
(*                                                                         *)
(* The Workflow and the cancel work on copies of the row.  A copy is a     *)
(* state the request was in (Copy): as long as its version is the row's    *)
(* it is the row, and a closed one is the row for good.  Hence every write *)
(* that the compare-and-set lets through is one operation of the           *)
(* interpreter on the stored state (Onward), told in the log by events     *)
(* that were not there (Tells).                                            *)
(***************************************************************************)
EXTENDS ApprovalWorkflow, ApprovalFlow_proofs

-----------------------------------------------------------------------------
(* A state of plan p the request is or was in when row is what is stored.   *)
Copy(p, row, r, version) ==
    /\ r \in RuntimeStates(p) /\ version \in Nat
    /\ UniqueIn(r.tasks, r.processed) /\ SeparatedIn(p, r.tasks)
    /\ version <= row.version
    /\ version = row.version \/ r.status # "pending" => r = row.rt

IsRow(p, row) ==
    /\ row = [version |-> row.version, rt |-> row.rt, writer |-> row.writer]
    /\ Copy(p, row, row.rt, row.version)

KeysOf(tasks) == UNION {{d.key : d \in tasks[s].decisions} : s \in DOMAIN tasks}

(* A row after row: nothing is lost, and what is closed stays.              *)
Onward(row, next) ==
    /\ next.version >= row.version
    /\ next.version = row.version \/ row.rt.status # "pending" => next.rt = row.rt
    /\ \A s \in DOMAIN row.rt.tasks :
         /\ s \in DOMAIN next.rt.tasks
         /\ row.rt.tasks[s].decisions \subseteq next.rt.tasks[s].decisions
         /\ row.rt.tasks[s].status # "pending" =>
              next.rt.tasks[s].status = row.rt.tasks[s].status

(* The log tells the state r and its end, and the instance's own failure.   *)
AuditTypes == {"step.approved", "step.rejected", "step.activated", "step.expired"}
AuditIn(l) == {e \in l.events : e.type \in AuditTypes}
Ends == {"rejected", "expired", "cancelled"}
StatusTold(r) == IF r.status = "pending" THEN "pending_approval" ELSE r.status

Tells(l, r, failed) ==
    /\ l = [events |-> l.events, status |-> l.status]
    /\ AuditIn(l) = TaskEvents(r.tasks)
    /\ \A e \in l.events :
         /\ e.type = "approval.approved" => r.status = "approved"
         /\ e.type = "action.completed" => r.status \in Ends
         /\ e.type = "workflow.failed" => failed
    /\ \/ l.status = StatusTold(r)
       \/ l.status = "failed" /\ failed /\ r.status \in {"pending", "approved", "cancelled"}

(* A status that stays or moves along the lifecycle.                        *)
Follows(l, next) ==
    next.status = l.status \/ next.status \in Lifecycle!Transitions(l.status)

-----------------------------------------------------------------------------
LEMMA OnwardKeepsCopies ==
    ASSUME NEW p, NEW row, NEW next, IsRow(p, row), IsRow(p, next), Onward(row, next),
           NEW r, NEW version, Copy(p, row, r, version)
    PROVE  Copy(p, next, r, version)
  <1>1. row.version \in Nat /\ next.version \in Nat /\ version \in Nat
    BY DEF IsRow, Copy
  <1>2. version <= next.version
    BY <1>1 DEF Onward, Copy
  <1>3. version = next.version => version = row.version /\ next.version = row.version
    BY <1>1 DEF Onward, Copy
  <1> QED BY <1>1, <1>2, <1>3 DEF Onward, Copy

LEMMA OnwardKeepsKeys ==
    ASSUME NEW row, NEW next, Onward(row, next)
    PROVE  KeysOf(row.rt.tasks) \subseteq KeysOf(next.rt.tasks)
BY DEF Onward, KeysOf

LEMMA OnwardReflexive ==
    ASSUME NEW row, row.version \in Nat
    PROVE  Onward(row, row)
BY DEF Onward

(* The compare-and-set lets through what was computed from the stored row.  *)
LEMMA ReplacedIsOnward ==
    ASSUME NEW p, PlanOK(p), NEW row, IsRow(p, row), NEW was, NEW expected,
           Copy(p, row, was, expected), VersionHolds(row, expected), NEW next \in RuntimeStates(p),
           Progress(p, was, next), was.status # "pending" => next = was, NEW writer
    PROVE  /\ IsRow(p, Replaced(row, next, writer))
           /\ Onward(row, Replaced(row, next, writer))
           /\ was = row.rt
  <1>1. row.version \in Nat /\ expected = row.version /\ was = row.rt
    BY DEF IsRow, Copy, VersionHolds
  <1>2. was \in RuntimeStates(p) /\ UniqueIn(was.tasks, was.processed) /\ SeparatedIn(p, was.tasks)
    BY DEF Copy
  <1>3. UniqueIn(next.tasks, next.processed) /\ SeparatedIn(p, next.tasks)
    BY <1>2, ProgressKeepsVotes
  <1> DEFINE new == Replaced(row, next, writer)
  <1>4. new.version = row.version + 1 /\ new.rt = next
        /\ new = [version |-> new.version, rt |-> new.rt, writer |-> new.writer]
    BY DEF Replaced
  <1> HIDE DEF new
  <1>5. IsRow(p, new)
    BY <1>1, <1>3, <1>4 DEF IsRow, Copy
  <1>6. /\ DOMAIN was.tasks \subseteq DOMAIN next.tasks
        /\ \A s \in DOMAIN was.tasks :
             /\ was.tasks[s].decisions \subseteq next.tasks[s].decisions
             /\ was.tasks[s].status # "pending" => next.tasks[s].status = was.tasks[s].status
    BY <1>2, ProgressGrows
  <1>7. Onward(row, new)
    BY <1>1, <1>4, <1>6 DEF Onward
  <1> QED BY <1>1, <1>5, <1>7 DEF new

-----------------------------------------------------------------------------
(* Events.                                                                  *)
LEMMA VoteEventForm ==
    ASSUME NEW s, NEW d
    PROVE  /\ VoteEvent(s, d).type \in {"step.approved", "step.rejected"}
           /\ VoteEvent(s, d).on = <<s, d.key>>
BY DEF VoteEvent, Event

LEMMA TaskEventForms ==
    ASSUME NEW tasks, NEW e
    PROVE  e \in TaskEvents(tasks) <=>
             \/ \E s \in DOMAIN tasks : \E d \in tasks[s].decisions : e = VoteEvent(s, d)
             \/ \E s \in DOMAIN tasks : e = Event("step.activated", <<s>>, "none")
             \/ \E s \in DOMAIN tasks : /\ tasks[s].status = "expired"
                                        /\ e = Event("step.expired", <<s>>, "none")
  <1>1. e \in VoteEvents(tasks) <=>
          \E s \in DOMAIN tasks : \E d \in tasks[s].decisions : e = VoteEvent(s, d)
    BY DEF VoteEvents
  <1>2. e \in {Event("step.activated", <<s>>, "none") : s \in DOMAIN tasks} <=>
          \E s \in DOMAIN tasks : e = Event("step.activated", <<s>>, "none")
    OBVIOUS
  <1>3. e \in {Event("step.expired", <<s>>, "none") : s \in {t \in DOMAIN tasks : tasks[t].status = "expired"}}
          <=> \E s \in DOMAIN tasks : /\ tasks[s].status = "expired"
                                      /\ e = Event("step.expired", <<s>>, "none")
    OBVIOUS
  <1> QED BY <1>1, <1>2, <1>3 DEF TaskEvents

LEMMA TaskEventTypes ==
    ASSUME NEW tasks, NEW e \in TaskEvents(tasks)
    PROVE  e.type \in AuditTypes
  <1>1. Event("step.activated", <<>>, "none").type = "step.activated"
    BY DEF Event
  <1> QED BY TaskEventForms, VoteEventForm DEF Event, AuditTypes

(* What a step of the interpreter adds to the task events has a new key.    *)
LEMMA NewEventsAreNew ==
    ASSUME NEW p, PlanOK(p), NEW r \in RuntimeStates(p), NEW next, Progress(p, r, next),
           UniqueIn(r.tasks, r.processed)
    PROVE  /\ TaskEvents(r.tasks) \subseteq TaskEvents(next.tasks)
           /\ \A e \in TaskEvents(next.tasks) \ TaskEvents(r.tasks) : \A f \in TaskEvents(r.tasks) :
                ~SameKey(f, e)
  <1>1. /\ DOMAIN r.tasks \subseteq DOMAIN next.tasks
        /\ \A s \in DOMAIN r.tasks :
             /\ r.tasks[s].decisions \subseteq next.tasks[s].decisions
             /\ r.tasks[s].status # "pending" => next.tasks[s].status = r.tasks[s].status
        /\ \A s \in DOMAIN next.tasks : \A d \in next.tasks[s].decisions :
             \/ s \in DOMAIN r.tasks /\ d \in r.tasks[s].decisions
             \/ d.key \notin r.processed
    BY ProgressGrows
  <1>2. ASSUME NEW e \in TaskEvents(r.tasks) PROVE e \in TaskEvents(next.tasks)
    <2>1. CASE \E s \in DOMAIN r.tasks : \E d \in r.tasks[s].decisions : e = VoteEvent(s, d)
      BY <1>1, <2>1, TaskEventForms
    <2>2. CASE \E s \in DOMAIN r.tasks : e = Event("step.activated", <<s>>, "none")
      BY <1>1, <2>2, TaskEventForms
    <2>3. CASE \E s \in DOMAIN r.tasks : /\ r.tasks[s].status = "expired"
                                         /\ e = Event("step.expired", <<s>>, "none")
      <3>1. PICK s \in DOMAIN r.tasks : /\ r.tasks[s].status = "expired"
                                        /\ e = Event("step.expired", <<s>>, "none")
        BY <2>3
      <3>2. s \in DOMAIN next.tasks /\ next.tasks[s].status = "expired"
        BY <1>1, <3>1
      <3> QED BY <3>1, <3>2, TaskEventForms
    <2>4. \/ \E s \in DOMAIN r.tasks : \E d \in r.tasks[s].decisions : e = VoteEvent(s, d)
          \/ \E s \in DOMAIN r.tasks : e = Event("step.activated", <<s>>, "none")
          \/ \E s \in DOMAIN r.tasks : /\ r.tasks[s].status = "expired"
                                       /\ e = Event("step.expired", <<s>>, "none")
      BY TaskEventForms
    <2> QED BY <2>1, <2>2, <2>3, <2>4
  <1>3. ASSUME NEW e \in TaskEvents(next.tasks), e \notin TaskEvents(r.tasks),
               NEW f \in TaskEvents(r.tasks), SameKey(f, e)
        PROVE  FALSE
    <2>1. f.type = e.type /\ f.on = e.on
      BY <1>3 DEF SameKey
    <2>2. CASE \E s \in DOMAIN next.tasks : \E d \in next.tasks[s].decisions : e = VoteEvent(s, d)
      <3>1. PICK s \in DOMAIN next.tasks : \E d \in next.tasks[s].decisions : e = VoteEvent(s, d)
        BY <2>2
      <3>2. PICK d \in next.tasks[s].decisions : e = VoteEvent(s, d)
        BY <3>1
      <3>3. ~(s \in DOMAIN r.tasks /\ d \in r.tasks[s].decisions)
        BY <1>3, <3>2, TaskEventForms
      <3>4. d.key \notin r.processed
        BY <1>1, <3>3
      <3>5. e.type \in {"step.approved", "step.rejected"} /\ e.on = <<s, d.key>>
        BY <3>2, VoteEventForm
      <3>6. \E t \in DOMAIN r.tasks : \E c \in r.tasks[t].decisions : f = VoteEvent(t, c)
        BY <2>1, <3>5, TaskEventForms DEF Event
      <3>7. PICK t \in DOMAIN r.tasks : \E c \in r.tasks[t].decisions : f = VoteEvent(t, c)
        BY <3>6
      <3>8. PICK c \in r.tasks[t].decisions : f = VoteEvent(t, c)
        BY <3>7
      <3>9. f.on = <<t, c.key>>
        BY <3>8, VoteEventForm
      <3>10. c.key = d.key
        BY <2>1, <3>5, <3>9
      <3> QED BY <3>4, <3>8, <3>10 DEF UniqueIn
    <2>3. CASE \E s \in DOMAIN next.tasks : e = Event("step.activated", <<s>>, "none")
      <3>1. PICK s \in DOMAIN next.tasks : e = Event("step.activated", <<s>>, "none")
        BY <2>3
      <3>2. e.type = "step.activated" /\ e.on = <<s>>
        BY <3>1 DEF Event
      <3>3. PICK t \in DOMAIN r.tasks : f = Event("step.activated", <<t>>, "none")
        BY <2>1, <3>2, TaskEventForms, VoteEventForm DEF Event
      <3>4. f.on = <<t>>
        BY <3>3 DEF Event
      <3>5. s = t
        BY <2>1, <3>2, <3>4
      <3> QED BY <1>3, <3>1, <3>3, <3>5
    <2>4. CASE \E s \in DOMAIN next.tasks : e = Event("step.expired", <<s>>, "none")
      <3>1. PICK s \in DOMAIN next.tasks : e = Event("step.expired", <<s>>, "none")
        BY <2>4
      <3>2. e.type = "step.expired" /\ e.on = <<s>>
        BY <3>1 DEF Event
      <3>3. PICK t \in DOMAIN r.tasks : f = Event("step.expired", <<t>>, "none")
        BY <2>1, <3>2, TaskEventForms, VoteEventForm DEF Event
      <3>4. f.on = <<t>>
        BY <3>3 DEF Event
      <3>5. s = t
        BY <2>1, <3>2, <3>4
      <3> QED BY <1>3, <3>1, <3>3, <3>5
    <2> QED BY SMTT(60), <1>3, <2>2, <2>3, <2>4, TaskEventForms
  <1> QED BY <1>2, <1>3

-----------------------------------------------------------------------------
(* The log.                                                                 *)
LEMMA InsertFollows ==
    ASSUME NEW l, NEW e
    PROVE  Follows(l, Insert(l, e))
  <1> DEFINE target == Lifecycle!TargetOf(e, l.status)
             new == [events |-> l.events \cup {e}, status |-> Lifecycle!Applied(l.status, e)]
  <1>1. Insert(l, e) = l \/ Insert(l, e) = new
    BY DEF Insert
  <1>2. new.status = Lifecycle!Applied(l.status, e)
    OBVIOUS
  <1>3. new.status = l.status \/ new.status \in Lifecycle!Transitions(l.status)
    BY <1>2 DEF Lifecycle!Applied, Lifecycle!CanTransition
  <1> HIDE DEF new
  <1> QED BY <1>1, <1>3 DEF Follows

LEMMA InsertWhole ==
    ASSUME NEW l, NEW type, NEW detail, \A e \in l.events : e.type # type
    PROVE  Insert(l, Whole(type, detail))
             = [events |-> l.events \cup {Whole(type, detail)},
                status |-> Lifecycle!Applied(l.status, Whole(type, detail))]
BY DEF Insert, HasKey, SameKey, Whole, Event

LEMMA AuditIs ==
    ASSUME NEW l, l = [events |-> l.events, status |-> l.status], NEW es
    PROVE  Audit(l, es) = [events |-> l.events \cup {e \in es : ~HasKey(l, e)}, status |-> l.status]
BY DEF Audit

(* told is l with the audit events of next and the same status.             *)
AuditedTo(told, l, next) ==
    /\ told = [events |-> told.events, status |-> told.status] /\ told.status = l.status
    /\ AuditIn(told) = TaskEvents(next.tasks)
    /\ \A e \in told.events : e \in l.events \/ e.type \in AuditTypes

LEMMA AuditTold ==
    ASSUME NEW p, PlanOK(p), NEW r \in RuntimeStates(p), NEW next, Progress(p, r, next),
           UniqueIn(r.tasks, r.processed), NEW l, NEW failed \in BOOLEAN, Tells(l, r, failed),
           NEW told, told = Audit(l, TaskEvents(next.tasks) \ TaskEvents(r.tasks))
    PROVE  AuditedTo(told, l, next)
  <1> DEFINE new == TaskEvents(next.tasks) \ TaskEvents(r.tasks)
  <1>1. told = [events |-> l.events \cup {e \in new : ~HasKey(l, e)}, status |-> l.status]
    BY AuditIs DEF Tells
  <1>2. /\ TaskEvents(r.tasks) \subseteq TaskEvents(next.tasks)
        /\ \A e \in new : \A f \in TaskEvents(r.tasks) : ~SameKey(f, e)
    BY NewEventsAreNew
  <1>3. \A e \in new : e.type \in AuditTypes
    BY TaskEventTypes
  <1>4. \A e \in l.events : e.type \in AuditTypes <=> e \in TaskEvents(r.tasks)
    BY DEF Tells, AuditIn
  <1>5. TaskEvents(r.tasks) \subseteq l.events
    BY DEF Tells, AuditIn
  <1>6. ASSUME NEW e \in new PROVE ~HasKey(l, e)
    <2>1. ASSUME NEW f \in l.events, SameKey(f, e) PROVE FALSE
      <3>1. f.type = e.type
        BY <2>1 DEF SameKey
      <3>2. f \in TaskEvents(r.tasks)
        BY <1>3, <1>4, <1>6, <3>1
      <3> QED BY <1>2, <1>6, <2>1, <3>2
    <2> QED BY <2>1 DEF HasKey, SameKey
  <1>7. told.events = l.events \cup new /\ told.status = l.status
        /\ told = [events |-> told.events, status |-> told.status]
    BY <1>1, <1>6
  <1>8. AuditIn(told) = TaskEvents(next.tasks)
    <2>1. ASSUME NEW e PROVE e \in TaskEvents(next.tasks) <=> e \in told.events /\ e.type \in AuditTypes
      BY <1>2, <1>3, <1>4, <1>5, <1>7
    <2> QED BY <2>1 DEF AuditIn
  <1>9. \A e \in told.events : e \in l.events \/ e.type \in AuditTypes
    BY <1>3, <1>7
  <1> QED BY <1>7, <1>8, <1>9 DEF AuditedTo

(* What RuntimeEvents writes tells the next state, if the last one was told.*)
LEMMA RuntimeEventsTell ==
    ASSUME NEW p, PlanOK(p), NEW r \in RuntimeStates(p), NEW next \in RuntimeStates(p),
           Progress(p, r, next), UniqueIn(r.tasks, r.processed),
           r.status # "pending" => next = r,
           NEW l, NEW failed \in BOOLEAN, Tells(l, r, failed),
           failed => next.status \in {r.status, "cancelled"}
    PROVE  /\ Tells(RuntimeEvents(l, r, next), next, failed)
           /\ Follows(l, RuntimeEvents(l, r, next))
  <1>0. PICK told : told = Audit(l, TaskEvents(next.tasks) \ TaskEvents(r.tasks))
    OBVIOUS
  <1>1. /\ told = [events |-> told.events, status |-> told.status] /\ told.status = l.status
        /\ AuditIn(told) = TaskEvents(next.tasks)
        /\ \A e \in told.events : e \in l.events \/ e.type \in AuditTypes
    <2>1. AuditedTo(told, l, next)
      BY <1>0, AuditTold
    <2> QED BY <2>1 DEF AuditedTo
  <1>2. RuntimeEvents(l, r, next) =
          IF r.status = next.status THEN told
          ELSE IF next.status = "approved" THEN Insert(told, Whole("approval.approved", "none"))
          ELSE IF next.status \in {"rejected", "expired", "cancelled"}
               THEN Insert(told, Whole("action.completed", next.status))
          ELSE told
    BY <1>0 DEF RuntimeEvents
  <1>3. \A e \in told.events :
          /\ e.type = "approval.approved" => r.status = "approved"
          /\ e.type = "action.completed" => r.status \in Ends
          /\ e.type = "workflow.failed" => failed
    BY <1>1 DEF Tells, AuditTypes
  <1>4. CASE r.status = next.status
    <2>1. RuntimeEvents(l, r, next) = told
      BY <1>2, <1>4
    <2>2. StatusTold(next) = StatusTold(r)
      BY <1>4 DEF StatusTold
    <2> QED BY <1>1, <1>3, <1>4, <2>1, <2>2 DEF Tells, Follows
  <1>5. CASE r.status # next.status
    <2>1. r.status = "pending"
      BY <1>5
    <2>2. next.status \in {"approved", "rejected", "expired", "cancelled"}
      BY <1>5, <2>1 DEF RuntimeStates, Closed
    <2>3. l.status = "pending_approval" \/ (l.status = "failed" /\ failed)
      BY <2>1 DEF Tells, StatusTold
    <2>4. \A e \in told.events : e.type # "approval.approved" /\ e.type # "action.completed"
      BY <1>3, <2>1 DEF Ends
    <2>5. CASE next.status = "approved"
      <3> DEFINE end == Whole("approval.approved", "none")
                 after == [events |-> told.events \cup {end},
                           status |-> Lifecycle!Applied(l.status, end)]
      <3>1. RuntimeEvents(l, r, next) = Insert(told, end)
        BY <1>2, <1>5, <2>5
      <3>2. Insert(told, end) = after
        BY <1>1, <2>4, InsertWhole
      <3>3. l.status = "pending_approval"
        BY <1>5, <2>3, <2>5
      <3>4. end.type = "approval.approved"
        BY DEF Whole, Event
      <3>5. Lifecycle!Applied(l.status, end) = "approved"
        BY <3>3, <3>4 DEF Lifecycle!Applied, Lifecycle!TargetOf, Lifecycle!CanTransition,
                          Lifecycle!Transitions, Lifecycle!Terminal
      <3>6. end.type \notin AuditTypes
        BY <3>4 DEF AuditTypes
      <3> HIDE DEF end
      <3>7. /\ after = [events |-> after.events, status |-> after.status]
            /\ after.status = "approved" /\ after.events = told.events \cup {end}
        BY <3>5
      <3> HIDE DEF after
      <3>8. AuditIn(after) = TaskEvents(next.tasks)
        BY <1>1, <3>6, <3>7 DEF AuditIn
      <3>9. \A e \in after.events :
              /\ e.type = "approval.approved" => next.status = "approved"
              /\ e.type = "action.completed" => next.status \in Ends
              /\ e.type = "workflow.failed" => failed
        BY <1>3, <2>1, <2>5, <3>4, <3>7 DEF Ends
      <3>10. Tells(after, next, failed)
        BY <2>5, <3>7, <3>8, <3>9 DEF Tells, StatusTold
      <3>11. Follows(l, after)
        BY <1>1, <3>1, <3>2, InsertFollows DEF Follows
      <3> QED BY <3>1, <3>2, <3>10, <3>11
    <2>6. CASE next.status # "approved"
      <3> DEFINE end == Whole("action.completed", next.status)
                 after == [events |-> told.events \cup {end},
                           status |-> Lifecycle!Applied(l.status, end)]
      <3>1. RuntimeEvents(l, r, next) = Insert(told, end)
        BY <1>2, <1>5, <2>2, <2>6
      <3>2. Insert(told, end) = after
        <4>1. Insert(told, end) = [events |-> told.events \cup {end},
                                   status |-> Lifecycle!Applied(told.status, end)]
          BY <2>4, InsertWhole
        <4> QED BY <1>1, <4>1
      <3>3. next.status \in Ends
        BY <2>2, <2>6 DEF Ends
      <3>4. end.type = "action.completed" /\ end.detail = next.status
        BY DEF Whole, Event
      <3>5. Lifecycle!Applied(l.status, end)
              = IF l.status = "pending_approval" THEN next.status ELSE l.status
        BY <2>3, <3>3, <3>4 DEF Ends, Lifecycle!Applied, Lifecycle!TargetOf, Lifecycle!CanTransition,
                                Lifecycle!Transitions, Lifecycle!Terminal
      <3>6. end.type \notin AuditTypes
        BY <3>4 DEF AuditTypes
      <3> HIDE DEF end
      <3>7. /\ after = [events |-> after.events, status |-> after.status]
            /\ after.status = IF l.status = "pending_approval" THEN next.status ELSE l.status
            /\ after.events = told.events \cup {end}
        BY <3>5
      <3> HIDE DEF after
      <3>8. AuditIn(after) = TaskEvents(next.tasks)
        BY <1>1, <3>6, <3>7 DEF AuditIn
      <3>9. \A e \in after.events :
              /\ e.type = "approval.approved" => next.status = "approved"
              /\ e.type = "action.completed" => next.status \in Ends
              /\ e.type = "workflow.failed" => failed
        BY <1>3, <2>1, <3>3, <3>4, <3>7
      <3>10. \/ after.status = StatusTold(next)
             \/ after.status = "failed" /\ failed /\ next.status \in {"pending", "approved", "cancelled"}
        <4>1. CASE l.status = "pending_approval"
          <5>1. after.status = next.status /\ next.status # "pending"
            BY <3>3, <3>7, <4>1 DEF Ends
          <5>2. StatusTold(next) = next.status
            BY <5>1 DEF StatusTold
          <5> QED BY <5>1, <5>2
        <4>2. CASE l.status = "failed" /\ failed
          <5>1. next.status = "cancelled" /\ after.status = "failed"
            BY <1>5, <2>1, <3>3, <3>7, <4>2 DEF Ends
          <5> QED BY <4>2, <5>1
        <4> QED BY <2>3, <4>1, <4>2
      <3>11. Tells(after, next, failed)
        BY <3>7, <3>8, <3>9, <3>10 DEF Tells
      <3>12. Follows(l, after)
        BY <1>1, <3>1, <3>2, InsertFollows DEF Follows
      <3> QED BY <3>1, <3>2, <3>11, <3>12
    <2> QED BY <2>5, <2>6
  <1> QED BY <1>4, <1>5

(* failWorkflow closes an open or approved request in the log only.         *)
LEMMA FailureTells ==
    ASSUME NEW p, NEW r \in RuntimeStates(p), NEW l, Tells(l, r, FALSE)
    PROVE  Tells(Insert(l, Whole("workflow.failed", "none")), r, TRUE)
  <1> DEFINE end == Whole("workflow.failed", "none")
             after == [events |-> l.events \cup {end}, status |-> Lifecycle!Applied(l.status, end)]
  <1>1. Insert(l, end) = after
    BY InsertWhole DEF Tells
  <1>2. l.status = StatusTold(r) /\ r.status \in {"pending", "cancelled", "approved", "rejected", "expired"}
    BY DEF Tells, RuntimeStates, Closed
  <1>3. end.type = "workflow.failed"
    BY DEF Whole, Event
  <1>4. Lifecycle!Applied(l.status, end)
          = IF r.status \in {"pending", "approved"} THEN "failed" ELSE l.status
    BY <1>2, <1>3 DEF StatusTold, Lifecycle!Applied, Lifecycle!TargetOf, Lifecycle!CanTransition,
                      Lifecycle!Transitions, Lifecycle!Terminal
  <1>5. end.type \notin AuditTypes
    BY <1>3 DEF AuditTypes
  <1> HIDE DEF end
  <1>6. /\ after = [events |-> after.events, status |-> after.status]
        /\ after.status = IF r.status \in {"pending", "approved"} THEN "failed" ELSE l.status
        /\ after.events = l.events \cup {end}
    BY <1>4
  <1> HIDE DEF after
  <1>7. AuditIn(after) = TaskEvents(r.tasks)
    BY <1>5, <1>6 DEF Tells, AuditIn
  <1> QED BY <1>1, <1>2, <1>3, <1>6, <1>7 DEF Tells, StatusTold, end

-----------------------------------------------------------------------------
(* The inductive invariant: what holds of the plan p, the row, the log l,   *)
(* the instance w, the cancel c, the commands cs, the inbox and the clock.  *)
Decisions(p) == [key: DecisionKeys, step: p.steps, user: Users, verdict: Verdict,
                 at: Nat, bound: {TRUE}, commented: {TRUE}]

Fields == {"pc", "stage", "attempt", "iter", "rt", "version", "now", "until", "event", "got"}

Stages  == {"body", "reject", "resolve", "done"}
Answers == {"none", "failed", "decision_rejected", "advanced"}

(* The Workflow's cursor is a copy, open where the loop waits for people.   *)
CursorOK(p, row, w) ==
    /\ DOMAIN w = Fields
    /\ w.pc \in StepKinds \cup Over \cup {"wait"} /\ w.stage \in Stages
    /\ w.attempt \in 0..StepRetries /\ w.iter \in Nat /\ w.now \in Nat
    /\ Copy(p, row, w.rt, w.version)
    /\ w.pc = "initialize" => w.rt = InitialState /\ w.iter = 0
    /\ w.pc \in {"initialize", "wait", "record", "expire"} => w.rt.status = "pending"
    /\ w.pc = "settled" => w.rt.status # "pending"
    /\ w.pc = "record" => w.event \in Decisions(p)

(* The answer of an attempt is a copy too, with the vote if it counted.     *)
GotOK(p, row, w) ==
    /\ w.got.type \in Answers
    /\ w.stage = "body" <=> w.got.type = "none"
    /\ w.pc \notin DurableSteps => w.stage = "body"
    /\ w.stage = "reject" => w.got.type = "decision_rejected"
    /\ w.got.type = "decision_rejected" => w.pc = "record"
    /\ w.got.type = "advanced" =>
         /\ Copy(p, row, w.got.rt, w.got.version) /\ w.got.superseded \in BOOLEAN
         /\ w.pc = "record" /\ ~w.got.superseded => w.event.key \in KeysOf(row.rt.tasks)

(* A record step of this round that wrote the row counted the vote in hand: *)
(* a later attempt may take the row for its own.                            *)
WriterOK(row, w) ==
    /\ row.writer[2] \in Nat /\ row.writer[2] <= w.iter
    /\ row.writer = <<"record", w.iter>> =>
         /\ w.pc \notin {"initialize", "wait", "expire"}
         /\ w.pc = "record" => w.event.key \in KeysOf(row.rt.tasks)

InstanceOK(p, row, w) == CursorOK(p, row, w) /\ GotOK(p, row, w) /\ WriterOK(row, w)

LoadedOK(p, row, c) ==
    /\ c.pc \in {"idle", "loaded", "reload", "terminate"} /\ c.attempt \in 0..CancelAttempts
    /\ c.pc = "loaded" => Copy(p, row, c.rt, c.version) /\ c.rt.status = "pending"

Sent(p) == [status: {"pending", "delivered", "failed", "applied", "rejected"}, step: p.steps,
            user: Users, verdict: Verdict, attempts: Nat, sends: Nat,
            hand: {"free", "sent", "refused"}]

CommandsOK(p, row, cs) ==
    /\ cs \in [DecisionKeys -> {[status |-> "absent"]} \cup Sent(p)]
    /\ \A k \in DecisionKeys : cs[k].status = "applied" => k \in KeysOf(row.rt.tasks)

StoreOK == /\ plan \in Plans /\ IsRow(plan, proj) /\ Tells(log, proj.rt, wf.pc = "failed")
           /\ inbox \in Seq(Decisions(plan)) /\ clock \in Nat

IInv == StoreOK /\ InstanceOK(plan, proj, wf) /\ LoadedOK(plan, proj, cancel)
        /\ CommandsOK(plan, proj, cmds)

(* What a step may do to the row and to the status readers see.             *)
Moves == Onward(proj, proj') /\ Follows(log, log')

-----------------------------------------------------------------------------
(* The others' copies survive a write.                                      *)
LEMMA WriteKeeps ==
    ASSUME NEW p, NEW row, NEW next, IsRow(p, row), IsRow(p, next), Onward(row, next),
           NEW w, NEW c, NEW cs
    PROVE  /\ CursorOK(p, row, w) => CursorOK(p, next, w)
           /\ GotOK(p, row, w) => GotOK(p, next, w)
           /\ LoadedOK(p, row, c) => LoadedOK(p, next, c)
           /\ CommandsOK(p, row, cs) => CommandsOK(p, next, cs)
  <1>1. \A r, version : Copy(p, row, r, version) => Copy(p, next, r, version)
    BY OnwardKeepsCopies
  <1>2. KeysOf(row.rt.tasks) \subseteq KeysOf(next.rt.tasks)
    BY OnwardKeepsKeys
  <1>3. CursorOK(p, row, w) => CursorOK(p, next, w)
    BY <1>1 DEF CursorOK
  <1>4. GotOK(p, row, w) => GotOK(p, next, w)
    BY <1>1, <1>2 DEF GotOK
  <1>5. LoadedOK(p, row, c) => LoadedOK(p, next, c)
    BY <1>1 DEF LoadedOK
  <1>6. CommandsOK(p, row, cs) => CommandsOK(p, next, cs)
    BY <1>2 DEF CommandsOK
  <1> QED BY <1>3, <1>4, <1>5, <1>6

LEMMA RowIsCopy ==
    ASSUME NEW p, NEW row, IsRow(p, row)
    PROVE  Copy(p, row, row.rt, row.version) /\ row.version \in Nat
BY DEF IsRow, Copy

LEMMA NextExpiryType ==
    ASSUME NEW p, NEW r \in RuntimeStates(p)
    PROVE  NextExpiry(r) \in Nat
  <1> DEFINE open  == {t \in DOMAIN r.tasks : r.tasks[t].status = "pending"}
             times == {r.tasks[s].expiresAt : s \in open} \ {NoExpiry}
  <1>1. times \subseteq Nat
    <2>1. \A s \in DOMAIN r.tasks : r.tasks[s] \in Tasks(p)
      BY TaskMapsMembers DEF RuntimeStates
    <2>2. \A s \in DOMAIN r.tasks : r.tasks[s].expiresAt \in Nat
      BY <2>1 DEF Tasks
    <2> QED BY <2>2
  <1>2. NextExpiry(r) = IF times = {} THEN NoExpiry ELSE CHOOSE t \in times : \A u \in times : t <= u
    BY DEF NextExpiry
  <1> HIDE DEF times
  <1>3. CASE times = {}
    BY <1>2, <1>3 DEF NoExpiry
  <1>4. CASE times # {}
    <2>1. \E t \in times : \A u \in times : t <= u
      BY <1>1, <1>4, LeastNumber
    <2> QED BY <1>1, <1>2, <1>4, <2>1
  <1> QED BY <1>3, <1>4

-----------------------------------------------------------------------------
(* What a body may write: one operation of the interpreter on its copy.     *)
Advances(next) ==
    /\ next \in RuntimeStates(plan) /\ Progress(plan, wf.rt, next)
    /\ wf.rt.status # "pending" => next = wf.rt
    /\ wf.pc = "record" => wf.event.key \in KeysOf(next.tasks)

LEMMA ActivationAdvances ==
    ASSUME NEW p, PlanOK(p), NEW r \in RuntimeStates(p), NEW now \in Nat,
           NEW lists \in [Asked(p, r.tasks) -> p.answers],
           ~ActivateAndUpdate(p, r, now, lists).failed
    PROVE  /\ ActivateAndUpdate(p, r, now, lists).rt \in RuntimeStates(p)
           /\ Progress(p, r, ActivateAndUpdate(p, r, now, lists).rt)
  <1>1. \A s \in Asked(p, r.tasks) : lists[s] \in SUBSET Users
    BY DEF PlanOK
  <1> QED BY <1>1, ActivateAndUpdateExtends DEF Progress

LEMMA InitializeAdvances ==
    ASSUME IInv, RunInitialize
    PROVE  /\ BodyFails \/ \E next : Advances(next) /\ Persist(next, "done")
           /\ UNCHANGED <<plan, inbox, cmds, cancel, clock>>
  <1>1. PlanOK(plan) /\ wf.now \in Nat /\ wf.rt = InitialState /\ wf.rt.status = "pending"
        /\ wf.pc = "initialize"
    BY WorkflowPlans DEF IInv, StoreOK, InstanceOK, CursorOK, RunInitialize, AtBody
  <1>2. InitialState \in RuntimeStates(plan) /\ InitialState.tasks = NoTasks
    BY InitialStateIsState DEF InitialState
  <1>3. ASSUME NEW lists \in Lists(NoTasks), ~Start(plan, wf.now, lists).failed
        PROVE  Advances(Start(plan, wf.now, lists).rt)
    <2>1. lists \in [Asked(plan, InitialState.tasks) -> plan.answers]
      BY <1>2, <1>3 DEF Lists
    <2> QED BY <1>1, <1>2, <1>3, <2>1, ActivationAdvances DEF Start, Advances
  <1>4. BodyFails \/ \E next \in {Start(plan, wf.now, lists) : lists \in Lists(NoTasks)} :
                       IF next.failed THEN BodyFails ELSE Persist(next.rt, "done")
    BY DEF RunInitialize, EvaluateThenWrite
  <1>5. UNCHANGED <<plan, inbox, cmds, cancel, clock>>
    BY DEF RunInitialize, EvaluateThenWrite
  <1> QED BY <1>3, <1>4, <1>5

LEMMA ActivateAdvances ==
    ASSUME IInv, RunActivate
    PROVE  /\ BodyFails \/ \E next : Advances(next) /\ Persist(next, "done")
           /\ UNCHANGED <<plan, inbox, cmds, cancel, clock>>
  <1>1. PlanOK(plan) /\ wf.now \in Nat /\ wf.rt \in RuntimeStates(plan) /\ wf.pc = "activate"
    BY WorkflowPlans DEF IInv, StoreOK, InstanceOK, CursorOK, Copy, RunActivate, AtBody
  <1>2. CASE wf.rt.status # "pending"
    <2>1. Advances(wf.rt)
      BY <1>1, ExtendsReflexive DEF Advances, Progress
    <2> QED BY <1>2, <2>1 DEF RunActivate
  <1>3. CASE wf.rt.status = "pending"
    <2>1. ASSUME NEW lists \in Lists(wf.rt.tasks), ~Advance(plan, wf.rt, wf.now, lists).failed
          PROVE  Advances(Advance(plan, wf.rt, wf.now, lists).rt)
      <3>1. lists \in [Asked(plan, wf.rt.tasks) -> plan.answers]
        BY <2>1 DEF Lists
      <3> QED BY <1>1, <1>3, <2>1, <3>1, ActivationAdvances DEF Advance, Advances
    <2>2. EvaluateThenWrite({Advance(plan, wf.rt, wf.now, lists) : lists \in Lists(wf.rt.tasks)},
                            wf.rt.tasks)
      BY <1>3 DEF RunActivate
    <2>3. BodyFails \/ \E next \in {Advance(plan, wf.rt, wf.now, lists) : lists \in Lists(wf.rt.tasks)} :
                         IF next.failed THEN BodyFails ELSE Persist(next.rt, "done")
      BY <2>2 DEF EvaluateThenWrite
    <2>4. UNCHANGED <<plan, inbox, cmds, cancel, clock>>
      BY <2>2 DEF EvaluateThenWrite
    <2> QED BY <2>1, <2>3, <2>4
  <1> QED BY <1>2, <1>3

LEMMA ExpireAdvances ==
    ASSUME IInv, RunExpire
    PROVE  /\ BodyFails \/ \E next : Advances(next) /\ Persist(next, "done")
           /\ UNCHANGED <<plan, inbox, cmds, cancel, clock>>
  <1> DEFINE due   == NextExpiry(wf.rt)
             tasks == ExpireTasks(wf.rt.tasks, due)
  <1>1. PlanOK(plan) /\ wf.rt \in RuntimeStates(plan) /\ wf.pc = "expire"
        /\ wf.rt.status = "pending"
    BY WorkflowPlans DEF IInv, StoreOK, InstanceOK, CursorOK, Copy, RunExpire, AtBody
  <1>2. due \in Nat
    BY <1>1, NextExpiryType
  <1>3. EvaluateThenWrite({Expire(plan, wf.rt, due, lists) : lists \in Lists(tasks)}, tasks)
    BY DEF RunExpire
  <1>4. Lists(tasks) = [Asked(plan, ExpireTasks(wf.rt.tasks, due)) -> plan.answers]
    BY DEF Lists
  <1> HIDE DEF due
  <1>5. ASSUME NEW lists \in Lists(tasks), ~Expire(plan, wf.rt, due, lists).failed
        PROVE  Advances(Expire(plan, wf.rt, due, lists).rt)
    <2>1. \A s \in Asked(plan, ExpireTasks(wf.rt.tasks, due)) : lists[s] \in SUBSET Users
      BY <1>1, <1>4, <1>5 DEF PlanOK
    <2> QED BY <1>1, <1>2, <1>5, <2>1, ExpireProgress DEF Advances
  <1> HIDE DEF tasks
  <1>6. BodyFails \/ \E next \in {Expire(plan, wf.rt, due, lists) : lists \in Lists(tasks)} :
                       IF next.failed THEN BodyFails ELSE Persist(next.rt, "done")
    BY <1>3 DEF EvaluateThenWrite
  <1>7. UNCHANGED <<plan, inbox, cmds, cancel, clock>>
    BY <1>3 DEF EvaluateThenWrite
  <1> QED BY <1>5, <1>6, <1>7

(* A refusal goes on to its audit event.                                    *)
Refuses ==
    /\ wf.pc = "record" /\ wf.stage = "body"
    /\ \E code : wf' = [wf EXCEPT !.stage = "reject", !.got = RejectedAnswer(code)]
    /\ UNCHANGED <<proj, log>>

LEMMA RecordAdvances ==
    ASSUME IInv, RunRecord
    PROVE  /\ BodyFails \/ Refuses \/ \E next : Advances(next) /\ Persist(next, "resolve")
           /\ UNCHANGED <<plan, inbox, cmds, cancel, clock>>
  <1> DEFINE d == wf.event
  <1>1. PlanOK(plan) /\ wf.rt \in RuntimeStates(plan) /\ wf.pc = "record" /\ wf.stage = "body"
        /\ wf.rt.status = "pending" /\ d \in Decisions(plan)
        /\ UniqueIn(wf.rt.tasks, wf.rt.processed) /\ SeparatedIn(plan, wf.rt.tasks)
    BY WorkflowPlans DEF IInv, StoreOK, InstanceOK, CursorOK, Copy, RunRecord, AtBody
  <1>2. d \in EventsOf(plan)
    BY <1>1 DEF Decisions, EventsOf
  <1>3. ASSUME NEW live, Record(plan, wf.rt, d, live).kind # "rejected"
        PROVE  Advances(Record(plan, wf.rt, d, live).rt)
    <2> DEFINE next == Record(plan, wf.rt, d, live).rt
    <2>1. /\ next \in RuntimeStates(plan) /\ Progress(plan, wf.rt, next)
          /\ d.key \in next.processed
      BY <1>1, <1>2, <1>3, RecordProgress
    <2> HIDE DEF next
    <2>2. UniqueIn(next.tasks, next.processed)
      BY <1>1, <2>1, ProgressKeepsVotes
    <2>3. d.key \in KeysOf(next.tasks)
      BY <2>1, <2>2 DEF UniqueIn, KeysOf
    <2>4. Advances(next)
      BY <1>1, <2>1, <2>3 DEF Advances
    <2> QED BY <2>4 DEF next
  <1>4. \/ BodyFails
        \/ \E live \in BOOLEAN : 
             IF Record(plan, wf.rt, d, live).kind = "rejected"
             THEN /\ wf' = [wf EXCEPT !.stage = "reject",
                                      !.got = RejectedAnswer(Record(plan, wf.rt, d, live).reason)]
                  /\ UNCHANGED <<proj, log>>
             ELSE Persist(Record(plan, wf.rt, d, live).rt, "resolve")
    BY DEF RunRecord
  <1>5. UNCHANGED <<plan, inbox, cmds, cancel, clock>>
    BY DEF RunRecord
  <1> HIDE DEF d
  <1> QED BY <1>1, <1>3, <1>4, <1>5 DEF Refuses

-----------------------------------------------------------------------------
(* The instance with the answer of its body in hand.                        *)
LEMMA AnswerFits ==
    ASSUME NEW p, NEW row, NEW w, InstanceOK(p, row, w), w.pc \in DurableSteps,
           NEW stage \in Stages \ {"body"}, NEW got, got.type \in Answers \ {"none"},
           stage = "reject" => got.type = "decision_rejected",
           got.type = "decision_rejected" => w.pc = "record",
           got.type = "advanced" =>
             /\ Copy(p, row, got.rt, got.version) /\ got.superseded \in BOOLEAN
             /\ w.pc = "record" /\ ~got.superseded => w.event.key \in KeysOf(row.rt.tasks)
    PROVE  InstanceOK(p, row, [w EXCEPT !.stage = stage, !.got = got])
  <1> DEFINE new == [w EXCEPT !.stage = stage, !.got = got]
  <1>1. DOMAIN w = Fields
    BY DEF InstanceOK, CursorOK, Fields
  <1>2. /\ new.pc = w.pc /\ new.stage = stage /\ new.attempt = w.attempt /\ new.iter = w.iter
        /\ new.rt = w.rt /\ new.version = w.version /\ new.now = w.now
        /\ new.event = w.event /\ new.got = got /\ DOMAIN new = Fields
    BY <1>1 DEF Fields
  <1> HIDE DEF new
  <1>3. CursorOK(p, row, new)
    BY <1>2 DEF InstanceOK, CursorOK, Fields
  <1>4. GotOK(p, row, new)
    BY <1>2 DEF GotOK
  <1>5. WriterOK(row, new)
    BY <1>2 DEF InstanceOK, WriterOK
  <1> QED BY <1>3, <1>4, <1>5 DEF InstanceOK, new

(* Nothing but the instance moves.                                          *)
LEMMA InstanceMoves ==
    ASSUME IInv, UNCHANGED <<plan, proj, log, inbox, cmds, cancel, clock>>,
           InstanceOK(plan, proj, wf'), (wf.pc = "failed") = (wf'.pc = "failed")
    PROVE  IInv' /\ Moves
  <1>1. Moves
    BY OnwardReflexive, RowIsCopy DEF IInv, StoreOK, Moves, Follows
  <1> QED BY <1>1 DEF IInv, StoreOK

LEMMA BodyFailsKeeps ==
    ASSUME IInv, BodyFails, UNCHANGED <<plan, inbox, cmds, cancel, clock>>,
           wf.pc \in DurableSteps
    PROVE  IInv' /\ Moves
  <1>1. wf' = [wf EXCEPT !.stage = "done", !.got = FailedAnswer]
        /\ UNCHANGED <<plan, proj, log, inbox, cmds, cancel, clock>>
    BY DEF BodyFails
  <1>2. FailedAnswer.type = "failed"
    BY DEF FailedAnswer
  <1>3. InstanceOK(plan, proj, wf')
    BY <1>1, <1>2, AnswerFits DEF IInv, Stages, Answers
  <1>4. wf'.pc = wf.pc
    BY <1>1 DEF IInv, InstanceOK, CursorOK, Fields
  <1> QED BY <1>1, <1>3, <1>4, InstanceMoves

LEMMA RefusesKeeps ==
    ASSUME IInv, Refuses, UNCHANGED <<plan, inbox, cmds, cancel, clock>>
    PROVE  IInv' /\ Moves
  <1>1. PICK code : wf' = [wf EXCEPT !.stage = "reject", !.got = RejectedAnswer(code)]
    BY DEF Refuses
  <1>2. UNCHANGED <<plan, proj, log, inbox, cmds, cancel, clock>> /\ wf.pc = "record"
    BY DEF Refuses
  <1>3. RejectedAnswer(code).type = "decision_rejected"
    BY DEF RejectedAnswer
  <1>4. InstanceOK(plan, proj, wf')
    BY <1>1, <1>2, <1>3, AnswerFits DEF IInv, Stages, Answers, DurableSteps
  <1>5. wf'.pc = wf.pc
    BY <1>1 DEF IInv, InstanceOK, CursorOK, Fields
  <1> QED BY <1>2, <1>4, <1>5, InstanceMoves

(* The compare-and-set: the write goes through, or the body answers with    *)
(* the row it finds.                                                        *)
LEMMA PersistKeeps ==
    ASSUME IInv, NEW next, Advances(next), NEW stage \in {"done", "resolve"},
           Persist(next, stage), UNCHANGED <<plan, inbox, cmds, cancel, clock>>,
           wf.pc \in DurableSteps
    PROVE  IInv' /\ Moves
  <1> DEFINE writer == <<wf.pc, wf.iter>>
  <1>1. PlanOK(plan) /\ IsRow(plan, proj) /\ InstanceOK(plan, proj, wf)
        /\ Copy(plan, proj, wf.rt, wf.version) /\ wf.iter \in Nat /\ proj.version \in Nat
        /\ wf.rt \in RuntimeStates(plan) /\ UniqueIn(wf.rt.tasks, wf.rt.processed)
    BY WorkflowPlans DEF IInv, StoreOK, InstanceOK, CursorOK, Copy, IsRow
  <1>2. next \in RuntimeStates(plan) /\ Progress(plan, wf.rt, next)
        /\ (wf.rt.status # "pending" => next = wf.rt)
        /\ (wf.pc = "record" => wf.event.key \in KeysOf(next.tasks))
    BY DEF Advances
  <1>3. CASE VersionHolds(proj, wf.version)
    <2> DEFINE row == Replaced(proj, next, writer)
               got == Advanced(next, proj.version + 1, FALSE)
    <2>1. proj' = row /\ log' = RuntimeEvents(log, wf.rt, next)
          /\ wf' = [wf EXCEPT !.stage = stage, !.got = got]
      BY <1>3 DEF Persist
    <2>2. IsRow(plan, row) /\ Onward(proj, row) /\ wf.rt = proj.rt
      BY <1>1, <1>2, <1>3, ReplacedIsOnward
    <2>3. row.rt = next /\ row.version = proj.version + 1 /\ row.writer = writer
      BY DEF Replaced
    <2>4. got.type = "advanced" /\ got.rt = row.rt /\ got.version = row.version
          /\ got.superseded = FALSE
      BY <2>3 DEF Advanced
    <2> HIDE DEF row, got
    <2>5. CursorOK(plan, row, wf) /\ GotOK(plan, row, wf) /\ LoadedOK(plan, row, cancel)
          /\ CommandsOK(plan, row, cmds)
      BY <1>1, <2>2, WriteKeeps DEF IInv, InstanceOK
    <2>6. WriterOK(row, wf)
      BY <1>1, <1>2, <2>3 DEF WriterOK
    <2>7. Copy(plan, row, got.rt, got.version)
      BY <2>2, <2>4, RowIsCopy
    <2>8. InstanceOK(plan, row, wf')
      <3>1. InstanceOK(plan, row, wf)
        BY <2>5, <2>6 DEF InstanceOK
      <3>2. wf.pc = "record" => wf.event.key \in KeysOf(row.rt.tasks)
        BY <1>2, <2>3
      <3>3. stage \in Stages \ {"body"} /\ stage # "reject"
        BY DEF Stages
      <3>4. got.type \in Answers \ {"none"}
        BY <2>4 DEF Answers
      <3> QED BY <2>1, <2>4, <2>7, <3>1, <3>2, <3>3, <3>4, AnswerFits
    <2>9. wf.pc # "failed" /\ wf'.pc = wf.pc
      BY <1>1, <2>1 DEF InstanceOK, CursorOK, DurableSteps
    <2>10. Tells(log, wf.rt, FALSE)
      BY <2>2, <2>9 DEF IInv, StoreOK
    <2>11. Tells(log', next, FALSE) /\ Follows(log, log')
      BY <1>1, <1>2, <2>1, <2>10, RuntimeEventsTell
    <2>12. StoreOK'
      BY <2>1, <2>2, <2>3, <2>9, <2>11 DEF IInv, StoreOK
    <2>13. Moves
      BY <2>1, <2>2, <2>11 DEF Moves
    <2> QED BY <2>1, <2>5, <2>8, <2>12, <2>13 DEF IInv
  <1>4. CASE ~VersionHolds(proj, wf.version)
    <2> DEFINE moved == Moved(proj, next, wf.version, writer)
               over  == IF moved.type = "advanced" THEN stage ELSE "done"
    <2>1. wf' = [wf EXCEPT !.stage = over, !.got = moved]
          /\ UNCHANGED <<plan, proj, log, inbox, cmds, cancel, clock>>
      BY <1>4 DEF Persist
    <2>2. moved.type \in {"advanced", "failed"}
          /\ (moved.type = "advanced" =>
                /\ moved.rt = proj.rt /\ moved.version = proj.version /\ moved.superseded \in BOOLEAN
                /\ ~moved.superseded => proj.writer = writer)
      BY DEF Moved, Advanced, AdoptClosed, FailedAnswer
    <2> HIDE DEF moved
    <2>3. over \in Stages \ {"body"} /\ over # "reject" /\ moved.type \in Answers \ {"none"}
          /\ moved.type # "decision_rejected"
      BY <2>2 DEF Stages, Answers
    <2>4. moved.type = "advanced" =>
            /\ Copy(plan, proj, moved.rt, moved.version) /\ moved.superseded \in BOOLEAN
            /\ wf.pc = "record" /\ ~moved.superseded => wf.event.key \in KeysOf(proj.rt.tasks)
      BY <1>1, <2>2, RowIsCopy DEF InstanceOK, WriterOK
    <2> HIDE DEF over
    <2>5. InstanceOK(plan, proj, wf')
      BY <1>1, <2>1, <2>3, <2>4, AnswerFits
    <2>6. wf'.pc = wf.pc
      BY <1>1, <2>1 DEF InstanceOK, CursorOK, Fields
    <2> QED BY <2>1, <2>5, <2>6, InstanceMoves
  <1> QED BY <1>3, <1>4

LEMMA RunsKeep ==
    ASSUME IInv, RunInitialize \/ RunActivate \/ RunExpire \/ RunRecord
    PROVE  IInv' /\ Moves
  <1>1. wf.pc \in DurableSteps
    BY DEF RunInitialize, RunActivate, RunExpire, RunRecord, AtBody, DurableSteps
  <1>2. CASE RunInitialize
    BY <1>1, <1>2, InitializeAdvances, BodyFailsKeeps, PersistKeeps
  <1>3. CASE RunActivate
    BY <1>1, <1>3, ActivateAdvances, BodyFailsKeeps, PersistKeeps
  <1>4. CASE RunExpire
    BY <1>1, <1>4, ExpireAdvances, BodyFailsKeeps, PersistKeeps
  <1>5. CASE RunRecord
    BY <1>1, <1>5, RecordAdvances, BodyFailsKeeps, RefusesKeeps, PersistKeeps
  <1> QED BY <1>2, <1>3, <1>4, <1>5

-----------------------------------------------------------------------------
(* The rest of the instance.                                                *)
LEMMA AppendRejectionKeeps ==
    ASSUME IInv, AppendRejection
    PROVE  IInv' /\ Moves
  <1> DEFINE e == RejectedEvent(wf.event, wf.got.code)
  <1>1. wf.pc = "record" /\ wf.stage = "reject" /\ log' = Audit(log, {e})
        /\ wf' = [wf EXCEPT !.stage = "resolve"]
        /\ UNCHANGED <<plan, proj, inbox, cmds, cancel, clock>>
    BY DEF AppendRejection
  <1>2. e.type = "approval_decision.rejected"
    BY DEF RejectedEvent, Event
  <1> HIDE DEF e
  <1>3. /\ log' = [events |-> log'.events, status |-> log'.status] /\ log'.status = log.status
        /\ \A f \in log'.events : f \in log.events \/ f = e
        /\ log.events \subseteq log'.events
    <2>1. log = [events |-> log.events, status |-> log.status]
      BY DEF IInv, StoreOK, Tells
    <2>2. log' = [events |-> log.events \cup {f \in {e} : ~HasKey(log, f)}, status |-> log.status]
      BY <1>1, <2>1, AuditIs
    <2> QED BY <2>2
  <1>4. AuditIn(log') = AuditIn(log)
    <2>1. e.type \notin AuditTypes
      BY <1>2 DEF AuditTypes
    <2> QED BY <1>3, <2>1 DEF AuditIn
  <1>5. InstanceOK(plan, proj, wf)
    BY DEF IInv
  <1>6. wf' = [wf EXCEPT !.stage = "resolve", !.got = wf.got]
    BY <1>1, <1>5 DEF InstanceOK, CursorOK, Fields
  <1>7. wf.got.type = "decision_rejected"
    BY <1>1, <1>5 DEF InstanceOK, GotOK
  <1>8. InstanceOK(plan, proj, wf')
    <2>1. "resolve" \in Stages \ {"body"} /\ "resolve" # "reject" /\ wf.pc \in DurableSteps
          /\ wf.got.type \in Answers \ {"none"} /\ wf.got.type # "advanced"
      BY <1>1, <1>7 DEF Stages, Answers, DurableSteps
    <2> DEFINE got == wf.got
    <2>2. wf' = [wf EXCEPT !.stage = "resolve", !.got = got]
      BY <1>6
    <2> HIDE DEF got
    <2>3. InstanceOK(plan, proj, [wf EXCEPT !.stage = "resolve", !.got = got])
      BY <1>1, <1>5, <2>1, AnswerFits DEF got
    <2> QED BY <2>2, <2>3
  <1>9. wf'.pc = wf.pc
    BY <1>1, <1>5 DEF InstanceOK, CursorOK, Fields
  <1>10. Tells(log', proj.rt, wf.pc = "failed")
    BY <1>2, <1>3, <1>4 DEF IInv, StoreOK, Tells
  <1>11. Moves
    BY <1>1, <1>3, OnwardReflexive, RowIsCopy DEF IInv, StoreOK, Moves, Follows
  <1> QED BY <1>1, <1>8, <1>9, <1>10, <1>11 DEF IInv, StoreOK

LEMMA ResolveOutcomeKeeps ==
    ASSUME IInv, ResolveOutcome
    PROVE  IInv' /\ Moves
  <1> DEFINE k == wf.event.key
  <1>1. wf.pc = "record" /\ wf.stage = "resolve" /\ wf' = [wf EXCEPT !.stage = "done"]
        /\ cmds' = [cmds EXCEPT ![k].status = IF @ \in Unresolved THEN OutcomeOf(wf.got) ELSE @]
        /\ UNCHANGED <<plan, proj, log, inbox, cancel, clock>>
    BY DEF ResolveOutcome
  <1>2. InstanceOK(plan, proj, wf) /\ CommandsOK(plan, proj, cmds)
    BY DEF IInv
  <1>3. k \in DecisionKeys
    BY <1>1, <1>2 DEF InstanceOK, CursorOK, Decisions
  <1>4. OutcomeOf(wf.got) \in {"applied", "rejected"}
        /\ (OutcomeOf(wf.got) = "applied" => k \in KeysOf(proj.rt.tasks))
    BY <1>1, <1>2 DEF InstanceOK, GotOK, OutcomeOf
  <1>5. CommandsOK(plan, proj, cmds')
    <2>1. CASE cmds[k].status \in Unresolved
      <3>1. cmds[k] \in Sent(plan)
        BY <1>2, <1>3, <2>1 DEF CommandsOK, Unresolved
      <3>2. cmds' = [cmds EXCEPT ![k] = [cmds[k] EXCEPT !.status = OutcomeOf(wf.got)]]
        BY <1>1, <1>2, <1>3, <2>1 DEF CommandsOK
      <3>3. [cmds[k] EXCEPT !.status = OutcomeOf(wf.got)] \in Sent(plan)
            /\ [cmds[k] EXCEPT !.status = OutcomeOf(wf.got)].status = OutcomeOf(wf.got)
        BY <1>4, <3>1 DEF Sent
      <3> QED BY <1>2, <1>3, <1>4, <3>2, <3>3 DEF CommandsOK
    <2>2. CASE cmds[k].status \notin Unresolved
      <3>1. [cmds[k] EXCEPT !.status = cmds[k].status] = cmds[k]
        BY <1>2, <1>3 DEF CommandsOK, Sent
      <3>2. cmds' = cmds
        BY <1>1, <1>2, <1>3, <2>2, <3>1 DEF CommandsOK
      <3> QED BY <1>2, <3>2
    <2> QED BY <2>1, <2>2
  <1> HIDE DEF k
  <1>6. wf' = [wf EXCEPT !.stage = "done", !.got = wf.got]
    BY <1>1, <1>2 DEF InstanceOK, CursorOK, Fields
  <1>7. InstanceOK(plan, proj, wf')
    <2>1. wf.got.type \in Answers \ {"none"}
      BY <1>1, <1>2 DEF InstanceOK, GotOK
    <2>2. wf.got.type = "advanced" =>
            /\ Copy(plan, proj, wf.got.rt, wf.got.version) /\ wf.got.superseded \in BOOLEAN
            /\ wf.pc = "record" /\ ~wf.got.superseded => wf.event.key \in KeysOf(proj.rt.tasks)
      BY <1>2 DEF InstanceOK, GotOK
    <2> DEFINE got == wf.got
    <2>3. "done" \in Stages \ {"body"} /\ "done" # "reject" /\ wf.pc \in DurableSteps
      BY <1>1 DEF Stages, DurableSteps
    <2>4. wf' = [wf EXCEPT !.stage = "done", !.got = got]
      BY <1>6
    <2> HIDE DEF got
    <2>5. InstanceOK(plan, proj, [wf EXCEPT !.stage = "done", !.got = got])
      BY <1>1, <1>2, <2>1, <2>2, <2>3, AnswerFits DEF got
    <2> QED BY <2>4, <2>5
  <1>8. wf'.pc = wf.pc
    BY <1>1, <1>2 DEF InstanceOK, CursorOK, Fields
  <1>9. Moves
    BY <1>1, OnwardReflexive, RowIsCopy DEF IInv, StoreOK, Moves, Follows
  <1> QED BY <1>1, <1>5, <1>7, <1>8, <1>9 DEF IInv, StoreOK

(* The top of the loop with a copy of the row.                              *)
LEMMA LoopFits ==
    ASSUME InstanceOK(plan, proj, wf), NEW rt, NEW version, NEW now \in Nat, NEW iter \in Nat,
           Copy(plan, proj, rt, version), proj.writer[2] <= iter,
           proj.writer = <<"record", iter>> => rt.status # "pending"
    PROVE  /\ InstanceOK(plan, proj, Loop(rt, version, now, iter))
           /\ Loop(rt, version, now, iter).pc # "failed"
  <1> DEFINE new == Loop(rt, version, now, iter)
  <1>1. DOMAIN wf = Fields /\ wf.iter \in Nat
    BY DEF InstanceOK, CursorOK
  <1>2. /\ new.stage = "body" /\ new.attempt = 0 /\ new.iter = iter
        /\ new.rt = rt /\ new.version = version /\ new.now = now
        /\ new.event = NoAnswer /\ new.got = NoAnswer /\ DOMAIN new = Fields
        /\ new.pc \in {"settled", "expire", "wait"} /\ (new.pc = "settled" <=> rt.status # "pending")
    BY <1>1 DEF Loop, Fields
  <1>3. NoAnswer.type = "none"
    BY DEF NoAnswer
  <1>4. 0 \in 0..StepRetries
    BY WorkflowBounds
  <1> HIDE DEF new
  <1>5. CursorOK(plan, proj, new)
    BY <1>2, <1>4 DEF CursorOK, Stages, StepKinds, DurableSteps, Over
  <1>6. GotOK(plan, proj, new)
    BY <1>2, <1>3 DEF GotOK, Answers
  <1>7. WriterOK(proj, new)
    BY <1>2 DEF InstanceOK, WriterOK
  <1>8. new.pc # "failed"
    BY <1>2
  <1> QED BY <1>5, <1>6, <1>7, <1>8 DEF InstanceOK, new

(* The next round, or the end: no step of the round has written yet.        *)
LEMMA NextRound ==
    ASSUME InstanceOK(plan, proj, wf)
    PROVE  /\ proj.writer[2] <= wf.iter + 1 /\ wf.iter + 1 \in Nat
           /\ proj.writer # <<"record", wf.iter + 1>>
  <1>1. wf.iter \in Nat /\ proj.writer[2] \in Nat /\ proj.writer[2] <= wf.iter
    BY DEF InstanceOK, CursorOK, WriterOK
  <1>2. <<"record", wf.iter + 1>>[2] = wf.iter + 1
    OBVIOUS
  <1> QED BY <1>1, <1>2

LEMMA JournalKeeps ==
    ASSUME IInv, Journal
    PROVE  IInv' /\ Moves
  <1> DEFINE got == wf.got
  <1>1. InstanceOK(plan, proj, wf) /\ wf.pc \in DurableSteps /\ wf.stage = "done"
        /\ UNCHANGED <<plan, proj, log, inbox, cmds, cancel, clock>>
    BY DEF IInv, Journal
  <1>2. /\ DOMAIN wf = Fields /\ wf.iter \in Nat /\ wf.now \in Nat
        /\ Copy(plan, proj, wf.rt, wf.version)
        /\ wf.rt \in RuntimeStates(plan) /\ proj.writer[2] \in Nat /\ proj.writer[2] <= wf.iter
        /\ (wf.pc = "record" => wf.event.at \in Nat)
        /\ (wf.pc = "initialize" => wf.iter = 0)
    BY <1>1 DEF InstanceOK, CursorOK, Copy, WriterOK, Decisions
  <1>3. /\ got.type \in {"failed", "decision_rejected", "advanced"}
        /\ got.type = "decision_rejected" => wf.pc = "record"
        /\ got.type = "advanced" => Copy(plan, proj, got.rt, got.version)
    BY <1>1 DEF InstanceOK, GotOK, Answers
  <1>4. 0 \in 0..StepRetries /\ NoAnswer.type = "none"
    BY WorkflowBounds DEF NoAnswer
  <1>5. CASE got.type = "failed"
    <2>1. wf' = [wf EXCEPT !.pc = "fail", !.stage = "body", !.attempt = 0,
                           !.until = NoExpiry, !.event = NoAnswer, !.got = NoAnswer]
      BY <1>5 DEF Journal
    <2>2. /\ wf'.pc = "fail" /\ wf'.stage = "body" /\ wf'.attempt = 0 /\ wf'.iter = wf.iter
          /\ wf'.rt = wf.rt /\ wf'.version = wf.version /\ wf'.now = wf.now
          /\ wf'.got = NoAnswer /\ DOMAIN wf' = Fields
      BY <1>2, <2>1 DEF Fields
    <2>3. CursorOK(plan, proj, wf')
      BY <1>2, <1>4, <2>2 DEF CursorOK, Stages, StepKinds
    <2>4. GotOK(plan, proj, wf')
      BY <1>4, <2>2 DEF GotOK, Answers
    <2>5. WriterOK(proj, wf')
      BY <1>2, <2>2 DEF WriterOK
    <2>6. wf.pc # "failed" /\ wf'.pc # "failed"
      BY <1>1, <2>2 DEF DurableSteps
    <2> QED BY <1>1, <2>3, <2>4, <2>5, <2>6, InstanceMoves DEF InstanceOK
  <1>6. CASE \E rt, version : \E now, iter \in Nat :
               /\ wf' = Loop(rt, version, now, iter) /\ Copy(plan, proj, rt, version)
               /\ proj.writer[2] <= iter
               /\ proj.writer = <<"record", iter>> => rt.status # "pending"
    <2>1. InstanceOK(plan, proj, wf') /\ wf'.pc # "failed"
      BY <1>1, <1>6, LoopFits
    <2>2. wf.pc # "failed"
      BY <1>1 DEF DurableSteps
    <2> QED BY <1>1, <2>1, <2>2, InstanceMoves
  <1>7. CASE got.type = "decision_rejected"
    <2>1. wf' = Loop(wf.rt, wf.version, Later(wf.event.at, wf.now), wf.iter + 1)
      BY <1>7 DEF Journal
    <2>2. Later(wf.event.at, wf.now) \in Nat
      BY <1>2, <1>3, <1>7 DEF Later
    <2> QED BY <1>1, <1>2, <1>6, <2>1, <2>2, NextRound
  <1>8. CASE got.type = "advanced" /\ wf.pc = "initialize"
    <2>1. wf' = Loop(got.rt, got.version, wf.now, 0)
      BY <1>8 DEF Journal
    <2>2. proj.writer # <<"record", 0>> /\ proj.writer[2] <= 0
      BY <1>1, <1>2, <1>8 DEF InstanceOK, WriterOK
    <2> QED BY <1>2, <1>3, <1>6, <1>8, <2>1, <2>2
  <1>9. CASE got.type = "advanced" /\ wf.pc = "activate"
    <2>1. wf' = Loop(got.rt, got.version, wf.now, wf.iter + 1)
      BY <1>9 DEF Journal
    <2> QED BY <1>1, <1>2, <1>3, <1>6, <1>9, <2>1, NextRound
  <1>10. CASE got.type = "advanced" /\ wf.pc = "expire"
    <2>1. wf' = Loop(got.rt, got.version, NextExpiry(wf.rt), wf.iter + 1)
      BY <1>10 DEF Journal
    <2> QED BY <1>1, <1>2, <1>3, <1>6, <1>10, <2>1, NextRound, NextExpiryType
  <1>11. CASE /\ got.type = "advanced" /\ wf.pc = "record"
              /\ got.rt.status # "pending" /\ got.superseded
    <2>1. wf' = Loop(got.rt, got.version, wf.event.at, wf.iter)
      BY <1>11 DEF Journal
    <2> QED BY <1>2, <1>3, <1>6, <1>11, <2>1
  <1>12. CASE /\ got.type = "advanced" /\ wf.pc = "record"
              /\ ~(got.rt.status # "pending" /\ got.superseded)
    <2>1. wf' = [wf EXCEPT !.pc = "activate", !.stage = "body", !.attempt = 0,
                           !.rt = got.rt, !.version = got.version,
                           !.now = wf.event.at, !.until = NoExpiry,
                           !.event = NoAnswer, !.got = NoAnswer]
      BY <1>12 DEF Journal
    <2>2. /\ wf'.pc = "activate" /\ wf'.stage = "body" /\ wf'.attempt = 0 /\ wf'.iter = wf.iter
          /\ wf'.rt = got.rt /\ wf'.version = got.version /\ wf'.now = wf.event.at
          /\ wf'.got = NoAnswer /\ DOMAIN wf' = Fields
      BY <1>2, <2>1 DEF Fields
    <2>3. CursorOK(plan, proj, wf')
      BY <1>2, <1>3, <1>4, <1>12, <2>2 DEF CursorOK, Stages, StepKinds, DurableSteps
    <2>4. GotOK(plan, proj, wf')
      BY <1>4, <2>2 DEF GotOK, Answers
    <2>5. WriterOK(proj, wf')
      BY <1>2, <2>2 DEF WriterOK
    <2>6. wf.pc # "failed" /\ wf'.pc # "failed"
      BY <1>1, <2>2 DEF DurableSteps
    <2> QED BY <1>1, <2>3, <2>4, <2>5, <2>6, InstanceMoves DEF InstanceOK
  <1> QED BY <1>1, <1>3, <1>5, <1>7, <1>8, <1>9, <1>10, <1>11, <1>12 DEF DurableSteps

LEMMA AttemptFailsKeeps ==
    ASSUME IInv, AttemptFails
    PROVE  IInv' /\ Moves
  <1>1. InstanceOK(plan, proj, wf) /\ wf.pc \in DurableSteps \cup {"fail"} /\ DOMAIN wf = Fields
        /\ UNCHANGED <<plan, proj, log, inbox, cmds, cancel, clock>>
        /\ wf.attempt \in 0..StepRetries /\ StepRetries \in Nat /\ NoAnswer.type = "none"
    BY WorkflowBounds DEF IInv, InstanceOK, CursorOK, AttemptFails, NoAnswer
  <1>2. CASE wf.attempt < StepRetries
    <2>1. wf' = [wf EXCEPT !.stage = "body", !.attempt = wf.attempt + 1, !.got = NoAnswer]
      BY <1>1, <1>2 DEF AttemptFails, Fields
    <2>2. /\ wf'.pc = wf.pc /\ wf'.stage = "body" /\ wf'.attempt = wf.attempt + 1
          /\ wf'.iter = wf.iter /\ wf'.rt = wf.rt /\ wf'.version = wf.version /\ wf'.now = wf.now
          /\ wf'.event = wf.event /\ wf'.got = NoAnswer /\ DOMAIN wf' = Fields
      BY <1>1, <2>1 DEF Fields
    <2>3. wf'.attempt \in 0..StepRetries
      BY <1>1, <1>2, <2>2
    <2>4. CursorOK(plan, proj, wf')
      BY <1>1, <2>2, <2>3 DEF InstanceOK, CursorOK, Stages
    <2>5. GotOK(plan, proj, wf')
      BY <1>1, <2>2 DEF GotOK, Answers
    <2>6. WriterOK(proj, wf')
      BY <1>1, <2>2 DEF InstanceOK, WriterOK
    <2> QED BY <1>1, <2>2, <2>4, <2>5, <2>6, InstanceMoves DEF InstanceOK
  <1>3. CASE ~(wf.attempt < StepRetries)
    <2> DEFINE over == IF wf.pc = "fail" THEN "failed" ELSE "errored"
    <2>1. wf' = [wf EXCEPT !.pc = over, !.stage = "body", !.got = NoAnswer]
      BY <1>3 DEF AttemptFails
    <2>2. over \in {"failed", "errored"}
      OBVIOUS
    <2> HIDE DEF over
    <2>3. /\ wf'.pc = over /\ wf'.stage = "body" /\ wf'.attempt = wf.attempt
          /\ wf'.iter = wf.iter /\ wf'.rt = wf.rt /\ wf'.version = wf.version /\ wf'.now = wf.now
          /\ wf'.event = wf.event /\ wf'.got = NoAnswer /\ DOMAIN wf' = Fields
      BY <1>1, <2>1 DEF Fields
    <2>4. CursorOK(plan, proj, wf')
      BY <1>1, <2>2, <2>3 DEF InstanceOK, CursorOK, Stages, Over
    <2>5. GotOK(plan, proj, wf')
      BY <1>1, <2>2, <2>3 DEF GotOK, Answers, DurableSteps
    <2>6. WriterOK(proj, wf')
      BY <1>1, <2>2, <2>3 DEF InstanceOK, WriterOK
    <2>7. StoreOK'
      <3>1. Tells(log, proj.rt, FALSE)
        BY <1>1 DEF IInv, StoreOK, DurableSteps
      <3>2. Tells(log, proj.rt, wf'.pc = "failed")
        BY <3>1 DEF Tells
      <3> QED BY <1>1, <3>2 DEF IInv, StoreOK
    <2>8. Moves
      BY <1>1, OnwardReflexive, RowIsCopy DEF IInv, StoreOK, Moves, Follows
    <2> QED BY <1>1, <2>4, <2>5, <2>6, <2>7, <2>8 DEF IInv, InstanceOK
  <1> QED BY <1>2, <1>3

LEMMA RecordFailureKeeps ==
    ASSUME IInv, RecordFailure
    PROVE  IInv' /\ Moves
  <1>1. InstanceOK(plan, proj, wf) /\ wf.pc = "fail" /\ DOMAIN wf = Fields
        /\ log' = Insert(log, Whole("workflow.failed", "none"))
        /\ wf' = [wf EXCEPT !.pc = "failed"]
        /\ UNCHANGED <<plan, proj, inbox, cmds, cancel, clock>>
    BY DEF IInv, InstanceOK, CursorOK, RecordFailure
  <1>2. /\ wf'.pc = "failed" /\ wf'.stage = wf.stage /\ wf'.attempt = wf.attempt
        /\ wf'.iter = wf.iter /\ wf'.rt = wf.rt /\ wf'.version = wf.version /\ wf'.now = wf.now
        /\ wf'.event = wf.event /\ wf'.got = wf.got /\ DOMAIN wf' = Fields
    BY <1>1 DEF Fields
  <1>3. CursorOK(plan, proj, wf')
    BY <1>1, <1>2 DEF InstanceOK, CursorOK, Over
  <1>4. GotOK(plan, proj, wf')
    BY <1>1, <1>2 DEF InstanceOK, GotOK, DurableSteps
  <1>5. WriterOK(proj, wf')
    BY <1>1, <1>2 DEF InstanceOK, WriterOK
  <1>6. Tells(log, proj.rt, FALSE) /\ proj.rt \in RuntimeStates(plan)
    BY <1>1 DEF IInv, StoreOK, IsRow, Copy
  <1>7. Tells(log', proj.rt, TRUE)
    BY <1>1, <1>6, FailureTells
  <1>8. StoreOK'
    BY <1>1, <1>2, <1>7 DEF IInv, StoreOK
  <1>9. Moves
    BY <1>1, OnwardReflexive, RowIsCopy, InsertFollows DEF IInv, StoreOK, Moves
  <1> QED BY <1>1, <1>3, <1>4, <1>5, <1>8, <1>9 DEF IInv, InstanceOK

LEMMA ReceiveDecisionKeeps ==
    ASSUME IInv, ReceiveDecision
    PROVE  IInv' /\ Moves
  <1>1. InstanceOK(plan, proj, wf) /\ wf.pc = "wait" /\ DOMAIN wf = Fields
        /\ inbox \in Seq(Decisions(plan)) /\ inbox # << >>
        /\ wf' = [wf EXCEPT !.pc = "record", !.event = Head(inbox)] /\ inbox' = Tail(inbox)
        /\ UNCHANGED <<plan, proj, log, cmds, cancel, clock>>
    BY DEF IInv, StoreOK, InstanceOK, CursorOK, ReceiveDecision
  <1>2. Head(inbox) \in Decisions(plan) /\ inbox' \in Seq(Decisions(plan))
    BY <1>1
  <1>3. /\ wf'.pc = "record" /\ wf'.stage = wf.stage /\ wf'.attempt = wf.attempt
        /\ wf'.iter = wf.iter /\ wf'.rt = wf.rt /\ wf'.version = wf.version /\ wf'.now = wf.now
        /\ wf'.event = Head(inbox) /\ wf'.got = wf.got /\ DOMAIN wf' = Fields
    BY <1>1 DEF Fields
  <1>4. CursorOK(plan, proj, wf')
    BY <1>1, <1>2, <1>3 DEF InstanceOK, CursorOK, StepKinds, DurableSteps
  <1>5. GotOK(plan, proj, wf')
    BY <1>1, <1>3 DEF InstanceOK, GotOK, DurableSteps
  <1>6. WriterOK(proj, wf')
    BY <1>1, <1>3 DEF InstanceOK, WriterOK
  <1>7. Moves
    BY <1>1, OnwardReflexive, RowIsCopy DEF IInv, StoreOK, Moves, Follows
  <1> QED BY <1>1, <1>2, <1>3, <1>4, <1>5, <1>6, <1>7 DEF IInv, StoreOK, InstanceOK

LEMMA WaitTimesOutKeeps ==
    ASSUME IInv, WaitTimesOut
    PROVE  IInv' /\ Moves
  <1>1. InstanceOK(plan, proj, wf) /\ wf.pc = "wait" /\ DOMAIN wf = Fields
        /\ wf' = [wf EXCEPT !.pc = "expire", !.until = NoExpiry]
        /\ UNCHANGED <<plan, proj, log, inbox, cmds, cancel, clock>>
    BY DEF IInv, InstanceOK, CursorOK, WaitTimesOut
  <1>2. /\ wf'.pc = "expire" /\ wf'.stage = wf.stage /\ wf'.attempt = wf.attempt
        /\ wf'.iter = wf.iter /\ wf'.rt = wf.rt /\ wf'.version = wf.version /\ wf'.now = wf.now
        /\ wf'.event = wf.event /\ wf'.got = wf.got /\ DOMAIN wf' = Fields
    BY <1>1 DEF Fields
  <1>3. CursorOK(plan, proj, wf')
    BY <1>1, <1>2 DEF InstanceOK, CursorOK, StepKinds, DurableSteps
  <1>4. GotOK(plan, proj, wf')
    BY <1>1, <1>2 DEF InstanceOK, GotOK, DurableSteps
  <1>5. WriterOK(proj, wf')
    BY <1>1, <1>2 DEF InstanceOK, WriterOK
  <1>6. wf.pc # "failed" /\ wf'.pc # "failed"
    BY <1>1, <1>2
  <1> QED BY <1>1, <1>3, <1>4, <1>5, <1>6, InstanceMoves DEF InstanceOK

LEMMA TerminateKeeps ==
    ASSUME IInv, Terminate
    PROVE  IInv' /\ Moves
  <1>1. InstanceOK(plan, proj, wf) /\ DOMAIN wf = Fields /\ NoAnswer.type = "none"
        /\ cancel' = CancelIdle
        /\ UNCHANGED <<plan, proj, log, inbox, cmds, clock>>
    BY DEF IInv, InstanceOK, CursorOK, Terminate, NoAnswer
  <1>2. LoadedOK(plan, proj, cancel')
    BY <1>1, WorkflowBounds DEF LoadedOK, CancelIdle
  <1>3. InstanceOK(plan, proj, wf') /\ ((wf.pc = "failed") = (wf'.pc = "failed"))
    <2>1. CASE wf.pc \in Over
      BY <1>1, <2>1 DEF Terminate
    <2>2. CASE wf.pc \notin Over
      <3>1. wf' = [wf EXCEPT !.pc = "terminated", !.stage = "body", !.until = NoExpiry,
                             !.got = NoAnswer]
        BY <2>2 DEF Terminate
      <3>2. /\ wf'.pc = "terminated" /\ wf'.stage = "body" /\ wf'.attempt = wf.attempt
            /\ wf'.iter = wf.iter /\ wf'.rt = wf.rt /\ wf'.version = wf.version
            /\ wf'.now = wf.now /\ wf'.got = NoAnswer /\ DOMAIN wf' = Fields
        BY <1>1, <3>1 DEF Fields
      <3>3. CursorOK(plan, proj, wf')
        BY <1>1, <3>2 DEF InstanceOK, CursorOK, Stages, Over
      <3>4. GotOK(plan, proj, wf')
        BY <1>1, <3>2 DEF GotOK, Answers, DurableSteps
      <3>5. WriterOK(proj, wf')
        BY <1>1, <3>2 DEF InstanceOK, WriterOK
      <3> QED BY <2>2, <3>2, <3>3, <3>4, <3>5 DEF InstanceOK, Over
    <2> QED BY <2>1, <2>2
  <1>4. Moves
    BY <1>1, OnwardReflexive, RowIsCopy DEF IInv, StoreOK, Moves, Follows
  <1> QED BY <1>1, <1>2, <1>3, <1>4 DEF IInv, StoreOK

-----------------------------------------------------------------------------
(* The commands.                                                            *)
LEMMA CommandsMove ==
    ASSUME IInv, UNCHANGED <<plan, proj, log, wf, cancel>>, clock' \in Nat,
           CommandsOK(plan, proj, cmds'), inbox' \in Seq(Decisions(plan))
    PROVE  IInv' /\ Moves
  <1>1. Moves
    BY OnwardReflexive, RowIsCopy DEF IInv, StoreOK, Moves, Follows
  <1> QED BY <1>1 DEF IInv, StoreOK

(* A command changed in place, not to applied.                              *)
LEMMA CommandFits ==
    ASSUME NEW p, NEW row, NEW cs, CommandsOK(p, row, cs), NEW k \in DecisionKeys,
           NEW c \in Sent(p), c.status # "applied" \/ cs[k].status = "applied"
    PROVE  CommandsOK(p, row, [cs EXCEPT ![k] = c])
BY DEF CommandsOK

LEMMA SubmitKeeps ==
    ASSUME IInv, NEW k \in DecisionKeys, NEW s \in plan.steps, NEW u \in Users, NEW v \in Verdict,
           Submit(k, s, u, v)
    PROVE  IInv' /\ Moves
  <1> DEFINE c == [status |-> "pending", step |-> s, user |-> u, verdict |-> v,
                   attempts |-> 0, sends |-> 0, hand |-> "free"]
  <1>1. cmds' = [cmds EXCEPT ![k] = c] /\ UNCHANGED <<plan, proj, log, wf, inbox, cancel, clock>>
    BY DEF Submit
  <1>2. c \in Sent(plan) /\ c.status # "applied"
    BY DEF Sent
  <1> HIDE DEF c
  <1>3. CommandsOK(plan, proj, cmds')
    BY <1>1, <1>2, CommandFits DEF IInv
  <1> QED BY <1>1, <1>3, CommandsMove DEF IInv, StoreOK

LEMMA DeliverKeeps ==
    ASSUME IInv, NEW k \in DecisionKeys, Deliver(k)
    PROVE  IInv' /\ Moves
  <1> DEFINE e == [key |-> k, step |-> cmds[k].step, user |-> cmds[k].user,
                   verdict |-> cmds[k].verdict, at |-> clock, bound |-> TRUE, commented |-> TRUE]
  <1>1. CommandsOK(plan, proj, cmds) /\ clock \in Nat /\ inbox \in Seq(Decisions(plan))
    BY DEF IInv, StoreOK
  <1>2. cmds[k].status = "pending" /\ UNCHANGED <<plan, proj, log, wf, cancel, clock>>
    BY DEF Deliver
  <1>3. cmds[k] \in Sent(plan)
    BY <1>1, <1>2 DEF CommandsOK
  <1>4. PICK told \in {"sent", "refused"} :
          /\ inbox' = inbox \o <<e>> \/ inbox' = inbox
          /\ cmds' = [cmds EXCEPT ![k].hand = told, ![k].sends = @ + 1]
    BY DEF Deliver
  <1>5. e \in Decisions(plan)
    BY <1>1, <1>3 DEF Sent, Decisions
  <1> HIDE DEF e
  <1>6. inbox' \in Seq(Decisions(plan))
    BY <1>1, <1>4, <1>5
  <1> DEFINE sends == cmds[k].sends + 1
             c     == [cmds[k] EXCEPT !.hand = told, !.sends = sends]
  <1>7. cmds' = [cmds EXCEPT ![k] = c]
    <2>1. DOMAIN cmds = DecisionKeys /\ DOMAIN cmds[k] = {"status", "step", "user", "verdict",
                                                          "attempts", "sends", "hand"}
      BY <1>1, <1>3 DEF CommandsOK, Sent
    <2> QED BY <1>4, <2>1
  <1>8. c \in Sent(plan) /\ c.status = "pending"
    <2>1. sends \in Nat /\ told \in {"free", "sent", "refused"}
      BY <1>3, <1>4 DEF Sent
    <2> HIDE DEF sends
    <2> QED BY <1>2, <1>3, <2>1 DEF Sent
  <1> HIDE DEF c
  <1>9. CommandsOK(plan, proj, cmds')
    BY <1>1, <1>7, <1>8, CommandFits
  <1> QED BY <1>1, <1>2, <1>6, <1>9, CommandsMove

LEMMA ConcludeKeeps ==
    ASSUME IInv, NEW k \in DecisionKeys, Conclude(k)
    PROVE  IInv' /\ Moves
  <1>1. CommandsOK(plan, proj, cmds) /\ clock \in Nat /\ inbox \in Seq(Decisions(plan))
        /\ UNCHANGED <<plan, proj, log, wf, inbox, cancel, clock>>
    BY DEF IInv, StoreOK, Conclude
  <1>2. cmds[k] \in Sent(plan)
    BY <1>1 DEF CommandsOK, Conclude
  <1> DEFINE old     == cmds[k]
             spent   == old.attempts + 1 >= MaxAttempts
             next    == IF old.hand = "sent" THEN "delivered" ELSE IF spent THEN "failed" ELSE "pending"
             retried == old.status = "pending" /\ old.hand = "refused" /\ ~spent
             status  == IF old.status = "pending" THEN next ELSE old.status
             tries   == IF retried THEN old.attempts + 1 ELSE old.attempts
             c       == [old EXCEPT !.status = status, !.attempts = tries, !.hand = "free"]
  <1>3. cmds' = [cmds EXCEPT ![k].status = IF @ = "pending" THEN next ELSE @,
                             ![k].attempts = IF retried THEN @ + 1 ELSE @,
                             ![k].hand = "free"]
    BY DEF Conclude
  <1> HIDE DEF next, retried, spent
  <1>4. next \in {"delivered", "failed", "pending"}
    BY DEF next
  <1>5. cmds' = [cmds EXCEPT ![k] = c]
    <2>1. DOMAIN cmds = DecisionKeys /\ DOMAIN cmds[k] = {"status", "step", "user", "verdict",
                                                          "attempts", "sends", "hand"}
      BY <1>1, <1>2 DEF CommandsOK, Sent
    <2> QED BY <1>3, <2>1
  <1>6. status \in {"delivered", "failed", "pending", old.status} /\ tries \in Nat
    BY <1>2, <1>4 DEF Sent
  <1>7. status = "applied" => old.status = "applied"
    BY <1>4
  <1> HIDE DEF status, tries
  <1>8. c \in Sent(plan) /\ c.status = status
    BY <1>2, <1>6 DEF Sent
  <1> HIDE DEF c
  <1>9. CommandsOK(plan, proj, cmds')
    BY <1>1, <1>5, <1>7, <1>8, CommandFits
  <1> QED BY <1>1, <1>9, CommandsMove

LEMMA LeaseExpiresKeeps ==
    ASSUME IInv, NEW k \in DecisionKeys, LeaseExpires(k)
    PROVE  IInv' /\ Moves
  <1>1. CommandsOK(plan, proj, cmds) /\ clock \in Nat /\ inbox \in Seq(Decisions(plan))
        /\ UNCHANGED <<plan, proj, log, wf, inbox, cancel, clock>>
    BY DEF IInv, StoreOK, LeaseExpires
  <1>2. cmds[k] \in Sent(plan)
    BY <1>1 DEF CommandsOK, LeaseExpires
  <1> DEFINE c == [cmds[k] EXCEPT !.hand = "free"]
  <1>3. cmds' = [cmds EXCEPT ![k] = c]
    BY <1>1 DEF LeaseExpires, CommandsOK
  <1>4. c \in Sent(plan) /\ c.status = cmds[k].status
    BY <1>2 DEF Sent
  <1> HIDE DEF c
  <1>5. CommandsOK(plan, proj, cmds')
    BY <1>1, <1>3, <1>4, CommandFits
  <1> QED BY <1>1, <1>5, CommandsMove

-----------------------------------------------------------------------------
(* The force cancel.                                                        *)
LEMMA CancelMoves ==
    ASSUME IInv, UNCHANGED <<plan, proj, log, wf, inbox, cmds, clock>>,
           LoadedOK(plan, proj, cancel')
    PROVE  IInv' /\ Moves
  <1>1. Moves
    BY OnwardReflexive, RowIsCopy DEF IInv, StoreOK, Moves, Follows
  <1> QED BY <1>1 DEF IInv, StoreOK

LEMMA RestsFit ==
    ASSUME NEW p, NEW row
    PROVE  /\ LoadedOK(p, row, CancelIdle)
           /\ LoadedOK(p, row, [pc |-> "terminate", attempt |-> 0])
  <1>1. 0 \in 0..CancelAttempts
    BY WorkflowBounds
  <1> QED BY <1>1 DEF LoadedOK, CancelIdle

LEMMA CancelLoadKeeps ==
    ASSUME IInv, CancelLoad
    PROVE  IInv' /\ Moves
  <1> DEFINE held == [pc |-> "loaded", attempt |-> cancel.attempt,
                      rt |-> proj.rt, version |-> proj.version]
  <1>1. LoadedOK(plan, proj, cancel) /\ IsRow(plan, proj)
        /\ UNCHANGED <<plan, proj, log, wf, inbox, cmds, clock>>
    BY DEF IInv, StoreOK, CancelLoad
  <1>2. \/ proj.rt.status = "pending" /\ cancel' = held
        \/ cancel' = [pc |-> "terminate", attempt |-> 0]
        \/ cancel' = CancelIdle
    BY DEF CancelLoad
  <1>3. proj.rt.status = "pending" => LoadedOK(plan, proj, held)
    BY <1>1, RowIsCopy DEF LoadedOK
  <1> HIDE DEF held
  <1>4. LoadedOK(plan, proj, cancel')
    BY <1>2, <1>3, RestsFit
  <1> QED BY <1>1, <1>4, CancelMoves

LEMMA CancelProgress ==
    ASSUME NEW p, NEW r \in RuntimeStates(p), r.status = "pending"
    PROVE  /\ Cancel(r) \in RuntimeStates(p) /\ Progress(p, r, Cancel(r))
           /\ Cancel(r).status = "cancelled"
  <1>1. r.tasks \in TaskMaps(p)
    BY DEF RuntimeStates
  <1>2. CancelPending(r.tasks) \in TaskMaps(p) /\ Extends(r.tasks, CancelPending(r.tasks))
    BY <1>1, CancelPendingExtends
  <1>3. /\ Cancel(r) \in RuntimeStates(p) /\ Cancel(r).tasks = CancelPending(r.tasks)
        /\ Cancel(r).processed = r.processed /\ Cancel(r).status = "cancelled"
    BY <1>2 DEF Cancel, RuntimeStates
  <1> QED BY <1>2, <1>3 DEF Progress

LEMMA CancelWriteKeeps ==
    ASSUME IInv, CancelWrite
    PROVE  IInv' /\ Moves
  <1> DEFINE next == Cancel(cancel.rt)
             row  == Replaced(proj, next, ForceCancel)
  <1>1. /\ PlanOK(plan) /\ IsRow(plan, proj) /\ InstanceOK(plan, proj, wf)
        /\ LoadedOK(plan, proj, cancel) /\ CommandsOK(plan, proj, cmds)
        /\ cancel.pc = "loaded" /\ UNCHANGED <<plan, wf, inbox, cmds, clock>>
    BY WorkflowPlans DEF IInv, StoreOK, CancelWrite
  <1>2. /\ Copy(plan, proj, cancel.rt, cancel.version) /\ cancel.rt.status = "pending"
        /\ cancel.rt \in RuntimeStates(plan) /\ UniqueIn(cancel.rt.tasks, cancel.rt.processed)
        /\ cancel.attempt \in 0..CancelAttempts
    BY <1>1 DEF LoadedOK, Copy
  <1>3. CASE VersionHolds(proj, cancel.version)
    <2>1. proj' = row /\ log' = RuntimeEvents(log, cancel.rt, next)
          /\ cancel' = [pc |-> "terminate", attempt |-> 0]
      BY <1>3 DEF CancelWrite
    <2>2. next \in RuntimeStates(plan) /\ Progress(plan, cancel.rt, next)
          /\ next.status = "cancelled"
      BY <1>2, CancelProgress
    <2> HIDE DEF next
    <2>3. IsRow(plan, row) /\ Onward(proj, row) /\ cancel.rt = proj.rt
      BY <1>1, <1>2, <1>3, <2>2, ReplacedIsOnward
    <2>4. row.rt = next /\ row.writer = ForceCancel
      BY DEF Replaced
    <2> HIDE DEF row
    <2>5. CursorOK(plan, row, wf) /\ GotOK(plan, row, wf) /\ CommandsOK(plan, row, cmds)
      BY <1>1, <2>3, WriteKeeps DEF InstanceOK
    <2>6. WriterOK(row, wf)
      BY <1>1, <2>4 DEF InstanceOK, CursorOK, WriterOK, ForceCancel
    <2>7. Tells(log, cancel.rt, wf.pc = "failed")
      BY <2>3 DEF IInv, StoreOK
    <2>8. Tells(log', next, wf.pc = "failed") /\ Follows(log, log')
      BY <1>1, <1>2, <2>1, <2>2, <2>7, RuntimeEventsTell
    <2>9. StoreOK'
      BY <1>1, <2>1, <2>3, <2>4, <2>8 DEF IInv, StoreOK
    <2>10. Moves
      BY <2>1, <2>3, <2>8 DEF Moves
    <2>11. LoadedOK(plan, row, cancel')
      BY <2>1, RestsFit
    <2> QED BY <1>1, <2>1, <2>5, <2>6, <2>9, <2>10, <2>11 DEF IInv, InstanceOK
  <1>4. CASE ~VersionHolds(proj, cancel.version)
    <2> DEFINE again == [pc |-> "reload", attempt |-> cancel.attempt + 1]
    <2>1. UNCHANGED <<proj, log>>
          /\ \/ cancel' = [pc |-> "terminate", attempt |-> 0]
             \/ cancel.attempt + 1 < CancelAttempts /\ cancel' = again
             \/ cancel' = CancelIdle
      BY <1>4 DEF CancelWrite
    <2>2. cancel.attempt + 1 < CancelAttempts => LoadedOK(plan, proj, again)
      BY <1>2, WorkflowBounds DEF LoadedOK
    <2> HIDE DEF again
    <2>3. LoadedOK(plan, proj, cancel')
      BY <2>1, <2>2, RestsFit
    <2> QED BY <1>1, <2>1, <2>3, CancelMoves
  <1> QED BY <1>3, <1>4

LEMMA CancelFailsKeeps ==
    ASSUME IInv, CancelFails
    PROVE  IInv' /\ Moves
BY RestsFit, CancelMoves DEF CancelFails

LEMMA TickKeeps ==
    ASSUME IInv, Tick
    PROVE  IInv' /\ Moves
  <1>1. clock' \in Nat /\ CommandsOK(plan, proj, cmds') /\ inbox' \in Seq(Decisions(plan))
        /\ UNCHANGED <<plan, proj, log, wf, cancel>>
    BY DEF IInv, StoreOK, Tick
  <1> QED BY <1>1, CommandsMove

-----------------------------------------------------------------------------
LEMMA InitHolds ==
    ASSUME Init
    PROVE  IInv
  <1>1. /\ plan \in Plans /\ proj = [version |-> 0, rt |-> InitialState, writer |-> NoWriter]
        /\ log = EmptyLog(TRUE) /\ inbox = << >> /\ clock = 0
        /\ cmds = [k \in DecisionKeys |-> [status |-> "absent"]]
        /\ cancel = [pc |-> "idle", attempt |-> 0]
    BY DEF Init
  <1>2. InitialState \in RuntimeStates(plan)
        /\ InitialState.status = "pending" /\ InitialState.tasks = NoTasks
        /\ InitialState.processed = {} /\ DOMAIN NoTasks = {}
    BY InitialStateIsState DEF InitialState, NoTasks
  <1>3. UniqueIn(InitialState.tasks, InitialState.processed) /\ SeparatedIn(plan, InitialState.tasks)
    BY <1>2 DEF UniqueIn, SeparatedIn
  <1>4. IsRow(plan, proj)
    <2>1. /\ proj.version = 0 /\ proj.rt = InitialState
          /\ proj = [version |-> proj.version, rt |-> proj.rt, writer |-> proj.writer]
      BY <1>1
    <2>2. Copy(plan, proj, InitialState, 0)
      BY <1>2, <1>3, <2>1 DEF Copy
    <2> QED BY <2>1, <2>2 DEF IsRow
  <1>5. /\ wf.pc = "initialize" /\ wf.stage = "body" /\ wf.attempt = 0 /\ wf.iter = 0
        /\ wf.rt = InitialState /\ wf.version = 0 /\ wf.now = 0 /\ wf.got = NoAnswer
        /\ DOMAIN wf = Fields
    BY DEF Init, Fields
  <1>6. NoAnswer.type = "none" /\ 0 \in 0..StepRetries
    BY WorkflowBounds DEF NoAnswer
  <1>7. CursorOK(plan, proj, wf)
    BY <1>1, <1>2, <1>4, <1>5, <1>6, RowIsCopy DEF CursorOK, Stages, StepKinds, DurableSteps
  <1>8. GotOK(plan, proj, wf)
    BY <1>5, <1>6 DEF GotOK, Answers
  <1>9. WriterOK(proj, wf)
    BY <1>1, <1>5 DEF WriterOK, NoWriter
  <1>10. CommandsOK(plan, proj, cmds)
    BY <1>1 DEF CommandsOK
  <1>11. TaskEvents(NoTasks) = {}
    <2>1. \A e : e \notin TaskEvents(NoTasks)
      BY <1>2, TaskEventForms
    <2> QED BY <2>1
  <1>12. log = [events |-> {}, status |-> "pending_approval"]
    BY <1>1 DEF EmptyLog, Lifecycle!StatusOfPlan
  <1>13. Tells(log, proj.rt, FALSE)
    <2>1. log.events = {} /\ log.status = "pending_approval"
      BY <1>12
    <2>2. AuditIn(log) = {}
      BY <2>1 DEF AuditIn
    <2>3. log = [events |-> log.events, status |-> log.status]
      BY <1>12, <2>1, Zenon
    <2>4. proj.rt = InitialState
      BY <1>1
    <2> QED BY <1>2, <1>11, <2>1, <2>2, <2>3, <2>4 DEF Tells, StatusTold
  <1>14. (wf.pc = "failed") = FALSE /\ inbox \in Seq(Decisions(plan)) /\ clock \in Nat
    BY <1>1, <1>5
  <1>15. LoadedOK(plan, proj, cancel)
    BY <1>1, RestsFit DEF CancelIdle
  <1> QED BY <1>1, <1>4, <1>7, <1>8, <1>9, <1>10, <1>13, <1>14, <1>15 DEF IInv, StoreOK, InstanceOK

LEMMA NextKeeps ==
    ASSUME IInv, [Next]_vars
    PROVE  IInv' /\ Moves
  <1>1. CASE Body
    BY <1>1, RunsKeep, AppendRejectionKeeps, ResolveOutcomeKeeps DEF Body
  <1>2. CASE Journal \/ AttemptFails \/ RecordFailure \/ ReceiveDecision \/ WaitTimesOut
    BY <1>2, JournalKeeps, AttemptFailsKeeps, RecordFailureKeeps, ReceiveDecisionKeeps,
       WaitTimesOutKeeps
  <1>3. ASSUME NEW k \in DecisionKeys,
               \/ \E s \in plan.steps, u \in Users, v \in Verdict : Submit(k, s, u, v)
               \/ Deliver(k) \/ Conclude(k) \/ LeaseExpires(k)
        PROVE  IInv' /\ Moves
    BY <1>3, SubmitKeeps, DeliverKeeps, ConcludeKeeps, LeaseExpiresKeeps
  <1>4. CASE CancelLoad \/ CancelWrite \/ Terminate \/ CancelFails
    BY <1>4, CancelLoadKeeps, CancelWriteKeeps, TerminateKeeps, CancelFailsKeeps
  <1>5. CASE Tick
    BY <1>5, TickKeeps
  <1>6. CASE UNCHANGED vars
    <2>1. UNCHANGED <<plan, proj, log, wf, inbox, cmds, cancel, clock>>
      BY <1>6 DEF vars
    <2> QED BY <2>1, CommandsMove DEF IInv, StoreOK
  <1> QED BY <1>1, <1>2, <1>3, <1>4, <1>5, <1>6 DEF Next

LEMMA Invariance == Spec => []IInv
  <1>1. Init => IInv
    BY InitHolds
  <1>2. IInv /\ [Next]_vars => IInv'
    BY NextKeeps
  <1> QED BY <1>1, <1>2, PTL DEF Spec

(* What the row, the audit trail, the folded status, the Workflow's cursor  *)
(* and the commands say of the request agrees at every moment, whatever was *)
(* retried, lost or overtaken.                                              *)
THEOREM EverySourceAgreesHolds == Spec => []EverySourceAgrees
  <1>1. IInv => EverySourceAgrees
    <2> SUFFICES ASSUME IInv PROVE EverySourceAgrees
      OBVIOUS
    <2>1. /\ plan \in Plans /\ IsRow(plan, proj) /\ Tells(log, proj.rt, wf.pc = "failed")
          /\ CursorOK(plan, proj, wf) /\ GotOK(plan, proj, wf)
          /\ LoadedOK(plan, proj, cancel) /\ CommandsOK(plan, proj, cmds) /\ clock \in Nat
      BY DEF IInv, StoreOK, InstanceOK
    <2>2. \A r, version : Copy(plan, proj, r, version) =>
            /\ IsRuntimeState(plan, r) /\ version \in Nat /\ version <= proj.version
            /\ version = proj.version \/ r.status # "pending" => r = proj.rt
      BY RuntimeStateIsOne DEF Copy
    <2>3. proj.version \in Nat /\ IsRuntimeState(plan, proj.rt)
          /\ proj.rt.status \in {"pending", "cancelled", "approved", "rejected", "expired"}
      BY <2>1, RuntimeStateIsOne DEF IsRow, Copy, RuntimeStates, Closed
    <2>4. TypeOK
      <3>1. IsRuntimeState(plan, wf.rt) /\ wf.version \in Nat
            /\ wf.pc \in StepKinds \cup Over \cup {"wait"}
            /\ wf.stage \in {"body", "reject", "resolve", "done"} /\ wf.attempt \in 0..StepRetries
        BY <2>1, <2>2 DEF CursorOK, Stages
      <3>2. wf.got.type \in {"none", "failed", "decision_rejected", "advanced"}
            /\ (wf.got.type = "advanced" => IsRuntimeState(plan, wf.got.rt) /\ wf.got.version \in Nat)
        BY <2>1, <2>2 DEF GotOK, Answers
      <3>3. wf.pc = "record" => wf.event \in Decisions(plan)
        BY <2>1 DEF CursorOK
      <3>4. log.status \in Lifecycle!Statuses
        BY <2>1, <2>3 DEF Tells, StatusTold, Lifecycle!Statuses, Lifecycle!Terminal
      <3>5. \A k \in DecisionKeys : cmds[k].status \in {"absent", "pending", "delivered", "failed",
                                                        "applied", "rejected"}
        BY <2>1 DEF CommandsOK, Sent
      <3>6. /\ cancel.pc \in {"idle", "loaded", "reload", "terminate"}
            /\ cancel.attempt \in 0..CancelAttempts
            /\ cancel.pc = "loaded" => IsRuntimeState(plan, cancel.rt) /\ cancel.version \in Nat
        BY <2>1, <2>2 DEF LoadedOK
      <3> QED BY <2>1, <2>3, <3>1, <3>2, <3>3, <3>4, <3>5, <3>6 DEF TypeOK, Decisions
    <2>5. AuditMatchesProjection
      BY <2>1 DEF Tells, AuditIn, AuditTypes, AuditMatchesProjection
    <2>6. LogMatchesProjection
      BY <2>1 DEF Tells, StatusTold, LogMatchesProjection
    <2>7. CursorIsStored
      BY <2>1, <2>2 DEF CursorOK, CursorIsStored
    <2>8. AppliedCommandsCount
      BY <2>1 DEF CommandsOK, KeysOf, CountedKeys, AppliedCommandsCount
    <2> QED BY <2>4, <2>5, <2>6, <2>7, <2>8 DEF EverySourceAgrees
  <1> QED BY <1>1, Invariance, PTL

(* The stored row only moves on: a closed request never reopens, no vote is *)
(* lost, no closed task changes, whoever writes and whenever.               *)
THEOREM ProjectionNeverRegressesHolds == Spec => ProjectionNeverRegresses
  <1> DEFINE A == /\ proj'.version >= proj.version
                  /\ proj.rt.status # "pending" => proj'.rt = proj.rt
                  /\ \A s \in DOMAIN proj.rt.tasks :
                       /\ s \in DOMAIN proj'.rt.tasks
                       /\ proj.rt.tasks[s].decisions \subseteq proj'.rt.tasks[s].decisions
                       /\ proj.rt.tasks[s].status # "pending" =>
                            proj'.rt.tasks[s].status = proj.rt.tasks[s].status
  <1>1. IInv /\ [Next]_vars => A
    BY NextKeeps DEF Moves, Onward
  <1>2. IInv /\ [Next]_vars => [A]_vars
    BY <1>1
  <1> HIDE DEF A
  <1>3. Spec => [][A]_vars
    BY <1>2, Invariance, PTL DEF Spec
  <1> QED BY <1>3 DEF ProjectionNeverRegresses, A

(* The status readers fold from the events implements the lifecycle of an   *)
(* ActionRequest: it starts where a plan puts it and only moves along the   *)
(* table of transitions.                                                    *)
THEOREM FollowsLifecycleHolds == Spec => FollowsLifecycle
  <1>1. Init => Lifecycle!Init
    <2>1. Init => log.status = Lifecycle!StatusOfPlan(TRUE)
      BY DEF Init, EmptyLog
    <2> QED BY <2>1 DEF Lifecycle!Init
  <1>2. IInv /\ [Next]_vars => [Lifecycle!Next]_(log.status)
    BY NextKeeps DEF Moves, Follows, Lifecycle!Next
  <1> QED BY <1>1, <1>2, Invariance, PTL DEF Spec, FollowsLifecycle, Lifecycle!Spec
=============================================================================
