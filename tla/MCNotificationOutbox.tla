------------------------- MODULE MCNotificationOutbox -------------------------
(* The notification of one event and an alert of the organization share no  *)
(* variable: each behaviour of the run is of one of them.                   *)
EXTENDS NotificationOutbox, OperatorAlerts

VARIABLE part   \* which one it is
mcVars == <<part, outboxVars, alertVars>>

MCInit ==
    /\ OutboxInit /\ AlertInit
    /\ \/ part = "outbox" /\ key = (CHOOSE k \in Keys : TRUE) /\ value = 0 /\ recent
       \/ part = "alert" /\ sink = "set"

OutboxPart(Action) == part = "outbox" /\ Action /\ UNCHANGED <<part, alertVars>>
AlertPart(Action) == part = "alert" /\ Action /\ UNCHANGED <<part, outboxVars>>
OutboxBehaviours == OutboxPart(OutboxNext)
AlertBehaviours == AlertPart(AlertNext)
MCNext == OutboxBehaviours \/ AlertBehaviours

(* The cron runs every minute, the queue delivers what it has, and the      *)
(* backoff passes.  Nobody has to set the webhook.                          *)
MCSpec ==
    /\ MCInit /\ [][MCNext]_mcVars
    /\ \A d \in Dispatchers : WF_mcVars(OutboxPart(Dispatching(d)))
    /\ \A c \in Consumers : WF_mcVars(OutboxPart(Consuming(c)))
    /\ WF_mcVars(OutboxPart(RequeueSkipped)) /\ WF_mcVars(OutboxPart(MarkDead))
    /\ WF_mcVars(OutboxPart(BackoffOver)) /\ WF_mcVars(AlertPart(MinutePasses))
    /\ \A c \in Crons : WF_mcVars(AlertPart(Evaluating(c)))

(* What the operators read is true: deliveries recorded as sent were, and   *)
(* alerts that fire were breached for as long as they have to be.           *)
RecordsAreTrue == SentIsTrue /\ AlertTypeOK /\ FiringIsSustained

(* Every recipient is told, or counted for the operators; and the alerts    *)
(* the operators rely on follow what is measured.                           *)
EveryoneIsToldOrCounted ==
    (part = "outbox" => ToldOrCounted) /\ (part = "alert" => AlertsFollowSignals)
=============================================================================
