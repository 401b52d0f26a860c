-------------------------- MODULE NotificationOutbox --------------------------
(***************************************************************************)
(* The notification of one action event: its row of outbox_events and its   *)
(* deliveries (approval-d1/src/notification-outbox-repository.ts), the cron *)
(* that sends it to the queue, the queue's consumers and its dead letters   *)
(* (approval-runtime-cloudflare/src/notifications.ts, operations.ts).       *)
(* Crons and consumers overlap, messages are delivered at least once, and   *)
(* every write but the insertion of a delivery is unconditional.            *)
(***************************************************************************)
EXTENDS Integers, Sequences, SequencesExt, FiniteSets

CONSTANTS Users, Channel,         \* whom a delivery is for
          Other,                  \* a principal that is not a user, or nobody
          Dispatchers, Consumers, \* invocations of the cron and of the queue
          MaxAttempts,            \* DEFAULT_OUTBOX_DISPATCH_RETRY_POLICY
          MaxRetries,             \* max_retries of the queue
          MaxTroubles             \* bound on failed calls and dead invocations

ASSUME OutboxBounds ==
    /\ {MaxAttempts, MaxRetries, MaxTroubles} \subseteq Nat
    /\ Dispatchers \cap Consumers = {} /\ IsFiniteSet(Users) /\ Other \notin Users

VARIABLES
    addressed,   \* the recipients of the event for the sink's audience
    sink,        \* "preview", or a webhook that is "unset" or "set"
    outbox,      \* status, attempt_count, and whether next_attempt_at is past
    deliveries,  \* notification_deliveries, by recipient
    queue, dlq,  \* messages by the retries they have had; dead letters
    told,        \* recipients the sink has posted to
    at, work,    \* invocation -> where it is, and what it holds
    troubles

outboxVars == <<addressed, sink, outbox, deliveries, queue, dlq, told, at, work, troubles>>

Recipients == Users \cup {Channel}
Invocations == Dispatchers \cup Consumers
Unoccupied == [attempts |-> 0, retries |-> 0, todo |-> <<>>, outcome |-> "none", skipped |-> FALSE]

OutboxStatuses == {"pending", "dispatched", "failed", "dead", "skipped"}
DeliveryStatuses == {"pending", "sent", "failed", "skipped"}
OutboxRows == [status: OutboxStatuses, attempts: 0..MaxAttempts, due: BOOLEAN]
DeliveryRows == [Recipients -> DeliveryStatuses \cup {"none"}]
OutboxRow == [status |-> "pending", attempts |-> 0, due |-> TRUE]

(* outboxDraft and resolveRecipients: a step that is activated is for the   *)
(* user it targets, or for the candidates of its task; another event is for *)
(* the requester, the first user among those action.received names.         *)
Principals == Users \cup {Other}
Requester(received) ==
    IF received.caller # Other THEN {received.caller}
    ELSE IF received.authority # Other THEN {received.authority}
    ELSE {received.actor} \ {Other}
Addressed ==
    {{u} : u \in Users} \cup (SUBSET Users)
    \cup {Requester(r) : r \in [caller: Principals, authority: Principals, actor: Principals]}

(* createSlackNotificationSink: without a webhook nothing is sent.  Slack   *)
(* has one channel for everybody; the preview's sink has an audience of     *)
(* recipients and never fails.                                              *)
Sinks == {"preview", "unset", "set"}
Audience(kind) == IF kind = "preview" THEN Addressed ELSE {{Channel}}

OutboxInit ==
    /\ sink \in Sinks /\ addressed \in Audience(sink)
    /\ outbox = OutboxRow
    /\ deliveries = [r \in Recipients |-> "none"]
    /\ queue = [n \in 0..MaxRetries |-> 0] /\ dlq = 0
    /\ told = {}
    /\ at = [i \in Invocations |-> "idle"] /\ work = [i \in Invocations |-> Unoccupied]
    /\ troubles = 0

-----------------------------------------------------------------------------
Trouble == troubles < MaxTroubles /\ troubles' = troubles + 1
Go(i, where, what) == at' = [at EXCEPT ![i] = where] /\ work' = [work EXCEPT ![i] = what]
Counting(n) == IF n < MaxAttempts THEN n + 1 ELSE n   \* as far as it matters
Put(n) == queue' = [queue EXCEPT ![n] = @ + 1]

(* dispatchNotificationOutbox.                                              *)
OnlyPending == outbox.status = "pending"                                  \* mutant
Dispatchable == outbox.status = "pending" \/ (outbox.status = "failed" /\ outbox.due)

ListDispatchable(d) ==
    /\ at[d] = "idle" /\ Dispatchable
    /\ Go(d, "send", Unoccupied)
    /\ UNCHANGED <<addressed, sink, outbox, deliveries, queue, dlq, told, troubles>>

(* queue.send, which may fail before or after the message is in the queue;  *)
(* markDispatchFailed begins by loading the row.                            *)
SendToQueue(d) ==
    /\ at[d] = "send"
    /\ \/ Put(0) /\ Go(d, "dispatched", Unoccupied) /\ UNCHANGED troubles
       \/ Trouble /\ (Put(0) \/ UNCHANGED queue)
          /\ Go(d, "dispatchFailed", [Unoccupied EXCEPT !.attempts = Counting(outbox.attempts)])
    /\ UNCHANGED <<addressed, sink, outbox, deliveries, dlq, told>>

MarkDispatched(d) ==
    /\ at[d] = "dispatched"
    /\ outbox' = [outbox EXCEPT !.status = "dispatched", !.attempts = Counting(@)]
    /\ Go(d, "idle", Unoccupied)
    /\ UNCHANGED <<addressed, sink, deliveries, queue, dlq, told, troubles>>

MarkDispatchFailed(d) ==
    /\ at[d] = "dispatchFailed"
    /\ LET status == IF work[d].attempts >= MaxAttempts THEN "dead" ELSE "failed"
       IN  outbox' = [status |-> status, attempts |-> Counting(outbox.attempts), due |-> status = "dead"]
    /\ Go(d, "idle", Unoccupied)
    /\ UNCHANGED <<addressed, sink, deliveries, queue, dlq, told, troubles>>

(* requeueSkipped, a task of the same cron once the webhook is set.         *)
RequeueSkipped ==
    /\ sink # "unset" /\ outbox.status = "skipped"
    /\ outbox' = [outbox EXCEPT !.status = "pending", !.due = TRUE]
    /\ UNCHANGED <<addressed, sink, deliveries, queue, dlq, told, at, work, troubles>>

-----------------------------------------------------------------------------
(* consumeNotificationMessage, as handleNotificationQueueBatch runs it.     *)
Ack(c) == Go(c, "idle", Unoccupied)

(* A message that is not acknowledged comes again, or is a dead letter.     *)
Retry(n) ==
    \/ n < MaxRetries /\ Put(n + 1) /\ UNCHANGED dlq
    \/ n = MaxRetries /\ dlq' = dlq + 1 /\ UNCHANGED queue

Receive(c, n) ==
    /\ at[c] = "idle" /\ queue[n] > 0
    /\ queue' = [queue EXCEPT ![n] = @ - 1]
    /\ Go(c, "load", [Unoccupied EXCEPT !.retries = n])
    /\ UNCHANGED <<addressed, sink, outbox, deliveries, dlq, told, troubles>>

(* The entry, its source event and resolveRecipients.                       *)
LoadMessage(c) ==
    /\ at[c] = "load"
    /\ Go(c, "deliver", [work[c] EXCEPT !.todo = SetToSeq(addressed)])
    /\ UNCHANGED <<addressed, sink, outbox, deliveries, queue, dlq, told, troubles>>

AlreadySent(status) == status = "sent"

(* ensureDelivery; a delivery that was sent is not sent again.              *)
EnsureDelivery(c) ==
    /\ at[c] = "deliver" /\ work[c].todo # <<>>
    /\ LET r == Head(work[c].todo)
       IN  /\ deliveries' = [deliveries EXCEPT ![r] = IF @ = "none" THEN "pending" ELSE @]
           /\ IF AlreadySent(deliveries[r])
              THEN Go(c, "deliver", [work[c] EXCEPT !.todo = Tail(@)])
              ELSE Go(c, "post", work[c])
    /\ UNCHANGED <<addressed, sink, outbox, queue, dlq, told, troubles>>

(* sink.send: an HTTP status, or a network error or timeout that leaves     *)
(* open whether it was posted.                                              *)
Post(c) ==
    /\ at[c] = "post"
    /\ LET r == Head(work[c].todo)
           outcome(o) == Go(c, "mark", [work[c] EXCEPT !.outcome = o])
       IN  \/ sink = "unset" /\ outcome("skipped") /\ UNCHANGED <<told, troubles>>
           \/ sink # "unset" /\ told' = told \cup {r} /\ outcome("sent") /\ UNCHANGED troubles
           \/ sink = "set" /\ Trouble
              /\ \/ told' \in {told, told \cup {r}} /\ outcome("retriable")
                 \/ told' = told /\ outcome("rejected")
    /\ UNCHANGED <<addressed, sink, outbox, deliveries, queue, dlq>>

Recorded(outcome) == IF outcome \in {"retriable", "rejected"} THEN "failed" ELSE outcome

(* markDeliverySent, -Skipped and -Failed; a failure ends the message: one  *)
(* that may succeed is retried, another is acknowledged.                    *)
MarkDelivery(c) ==
    /\ at[c] = "mark"
    /\ LET outcome == work[c].outcome
       IN  /\ deliveries' = [deliveries EXCEPT ![Head(work[c].todo)] = Recorded(outcome)]
           /\ \/ /\ outcome \in {"sent", "skipped"} /\ UNCHANGED <<queue, dlq>>
                 /\ Go(c, "deliver", [work[c] EXCEPT !.todo = Tail(@),
                                                     !.skipped = @ \/ outcome = "skipped"])
              \/ outcome = "rejected" /\ Ack(c) /\ UNCHANGED <<queue, dlq>>
              \/ outcome = "retriable" /\ Ack(c) /\ Retry(work[c].retries)
    /\ UNCHANGED <<addressed, sink, outbox, told, troubles>>

(* The end of the loop: markSkipped if a delivery was, and the message is   *)
(* acknowledged.                                                            *)
EndMessage(c) ==
    /\ at[c] = "deliver" /\ work[c].todo = <<>>
    /\ outbox' = IF work[c].skipped THEN [outbox EXCEPT !.status = "skipped", !.due = TRUE]
                 ELSE outbox
    /\ Ack(c)
    /\ UNCHANGED <<addressed, sink, deliveries, queue, dlq, told, troubles>>

(* A repository call of the consumer fails, or its isolate ends.            *)
ConsumerFails(c) ==
    /\ at[c] # "idle" /\ Trouble
    /\ Ack(c) /\ Retry(work[c].retries)
    /\ UNCHANGED <<addressed, sink, outbox, deliveries, told>>

DispatcherFails(d) ==
    /\ at[d] # "idle" /\ Trouble /\ Go(d, "idle", Unoccupied)
    /\ UNCHANGED <<addressed, sink, outbox, deliveries, queue, dlq, told>>

KeepsDispatched(status) == IF status = "dispatched" THEN status ELSE "dead" \* mutant
MarksDead(status) == "dead"

(* reconcileDeadLetterNotification.  The retries of a message take minutes: *)
(* whoever sent it has marked it by then.                                   *)
MarkDead ==
    /\ dlq > 0 /\ \A d \in Dispatchers : at[d] \notin {"dispatched", "dispatchFailed"}
    /\ dlq' = dlq - 1
    /\ outbox' = [outbox EXCEPT !.status = MarksDead(@), !.due = TRUE]
    /\ UNCHANGED <<addressed, sink, deliveries, queue, told, at, work, troubles>>

-----------------------------------------------------------------------------
(* External: the backoff passes, and the operator sets the webhook.         *)
BackoffOver ==
    /\ ~outbox.due /\ outbox' = [outbox EXCEPT !.due = TRUE]
    /\ UNCHANGED <<addressed, sink, deliveries, queue, dlq, told, at, work, troubles>>

SetWebhook ==
    /\ sink = "unset" /\ sink' = "set"
    /\ UNCHANGED <<addressed, outbox, deliveries, queue, dlq, told, at, work, troubles>>

Dispatching(d) ==
    ListDispatchable(d) \/ SendToQueue(d) \/ MarkDispatched(d) \/ MarkDispatchFailed(d)
Consuming(c) ==
    \/ \E n \in 0..MaxRetries : Receive(c, n)
    \/ LoadMessage(c) \/ EnsureDelivery(c) \/ Post(c) \/ MarkDelivery(c) \/ EndMessage(c)

OutboxNext ==
    \/ \E d \in Dispatchers : Dispatching(d) \/ DispatcherFails(d)
    \/ \E c \in Consumers : Consuming(c) \/ ConsumerFails(c)
    \/ RequeueSkipped \/ MarkDead \/ BackoffOver \/ SetWebhook

-----------------------------------------------------------------------------
OutboxTypeOK ==
    /\ sink \in Sinks /\ addressed \in SUBSET Recipients /\ told \subseteq Recipients
    /\ outbox \in OutboxRows /\ deliveries \in DeliveryRows
    /\ queue \in [0..MaxRetries -> Nat] /\ dlq \in Nat /\ troubles \in 0..MaxTroubles

(* countByStatus, of the row and its deliveries: what the dashboard and the *)
(* alerts of the organization count.                                        *)
Health ==
    LET of(status) == {r \in Recipients : deliveries[r] = status}
        row(status) == IF outbox.status = status THEN 1 ELSE 0
    IN  [pendingOutbox |-> row("pending"), failedOutbox |-> row("failed"),
         deadOutbox |-> row("dead"), failedDeliveries |-> of("failed"),
         skippedDeliveries |-> of("skipped")]

(* Whatever messages come again or overtake each other, a delivery that is  *)
(* recorded as sent was posted, and one that is not due is not out of sight: *)
(* the row is still to be dispatched, a message of it is under way, or the  *)
(* health of the outbox counts it.                                          *)
UnderWay ==
    \/ Dispatchable \/ outbox.status = "failed" \/ outbox.status = "skipped"
    \/ dlq > 0 \/ \E n \in DOMAIN queue : queue[n] > 0
    \/ \E i \in Invocations : at[i] # "idle"
Counted(r) == Health.deadOutbox > 0 \/ r \in Health.failedDeliveries \cup Health.skippedDeliveries
SentIsTrue ==
    /\ OutboxTypeOK
    /\ \A r \in addressed : /\ deliveries[r] = "sent" => r \in told
                            /\ r \in told \/ UnderWay \/ Counted(r)

(* Every recipient is told in the end, or the health of the outbox counts   *)
(* the row or the delivery for the operator.                                *)
ToldOrCounted == <>[](\A r \in addressed : r \in told \/ Counted(r))
=============================================================================
