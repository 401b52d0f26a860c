---------------------------- MODULE OperatorAlerts ----------------------------
(***************************************************************************)
(* One alert of one organization (approval-core/src/operator-alerts.ts):    *)
(* the cron of approval-runtime-cloudflare/src/operations.ts lists the      *)
(* organizations, reads the metrics of FGA, then for one of them the        *)
(* dashboard, the stored rows and the signals, evaluates, and saves.  Crons *)
(* overlap, any call may fail, and a cron goes by the instant it started    *)
(* at.  What is announced of a transition after the save is left out.       *)
(* The alerts of an organization do not depend on each other, and those of  *)
(* two organizations neither.                                               *)
(***************************************************************************)
EXTENDS Integers, FiniteSets

CONSTANTS Keys,       \* which of the alerts below
          Crons,      \* overlapping invocations
          Minutes,    \* the minutes a breach lasts before the alert fires
          MaxLag,     \* bound on the minutes an invocation lasts
          MaxValue,   \* bound on what is measured
          MaxFailures \* bound on failed calls and dead invocations

LimitKeys == {"outbox_backlog", "approval_dwell_p95", "fga_error_rate", "fga_latency_p95"}
TrendKeys == {"outbox_failures_increasing", "executor_failures_increasing"}
CountKeys == {"workflow_failures", "stuck_action_requests"}
OPERATOR_ALERT_KEYS == LimitKeys \cup TrendKeys \cup CountKeys

ASSUME AlertBounds == Keys \subseteq OPERATOR_ALERT_KEYS /\ {Minutes, MaxLag, MaxValue, MaxFailures} \subseteq Nat

None == -1   \* null: no value, no observation, no row

VARIABLES
    key,       \* the alert that is looked at
    value,     \* what is measured now, or None where its source is unavailable
    recent,    \* whether the organization is in the window of recent events
    alert,     \* the row of operator_alert_states
    cronAt,    \* where a cron is
    cronSeen,  \* what it has measured, before it evaluates
    cronWork,  \* the row it has read, then the one it will save
    cronLag,   \* the minutes since the instant it goes by
    failures

cronVars == <<cronAt, cronSeen, cronWork, cronLag>>
alertVars == <<key, value, recent, alert, cronVars, failures>>

(* PersistedOperatorAlertState, with the minutes since breachedSince, as    *)
(* far as they matter, for the timestamp.                                   *)
Statuses == {"ok", "breaching", "firing"}
AlertRows == [status: Statuses, since: {None} \cup 0..(Minutes + MaxLag), last: {None} \cup 0..MaxValue]
Fallback == [status |-> "ok", since |-> None, last |-> None]

(* The values that may be missing: dwellP95Ms has no sample, the others     *)
(* have a source that is not configured or failed.                          *)
Unreadable == OPERATOR_ALERT_KEYS \ ({"outbox_backlog"} \cup TrendKeys)
Values == 0..MaxValue \cup (IF key \in Unreadable THEN {None} ELSE {})

RequiredMinutes == IF key \in CountKeys THEN 0 ELSE Minutes

(* A trend is compared with what the evaluation before this one saw.        *)
Breached(measured, previous) ==
    IF key \in TrendKeys THEN previous.last # None /\ measured > previous.last
    ELSE measured # None /\ measured > 0

(* The breach began at the instant of the cron that saw it first.           *)
NextStatus(breached, previous, lag) ==
    LET since == IF previous.since = None THEN lag ELSE previous.since
    IN  IF ~breached THEN [status |-> "ok", since |-> None]
        ELSE IF previous.status = "firing" \/ since - lag >= RequiredMinutes
             THEN [status |-> "firing", since |-> since]
             ELSE [status |-> "breaching", since |-> since]

(* evaluateOperatorAlerts: the state to save.                               *)
Evaluated(measured, previous, lag) ==
    LET next == NextStatus(Breached(measured, previous), previous, lag)
    IN  [status |-> next.status, since |-> next.since,
         last |-> IF key \in TrendKeys THEN measured ELSE previous.last]

AlertInit ==
    /\ key \in Keys /\ value \in Values /\ recent \in BOOLEAN
    /\ alert = Fallback
    /\ cronAt = [c \in Crons |-> "idle"] /\ cronSeen = [c \in Crons |-> None]
    /\ cronWork = [c \in Crons |-> Fallback] /\ cronLag = [c \in Crons |-> 0]
    /\ failures = 0

-----------------------------------------------------------------------------
(* listRecentOrganizations: also those whose alert is not ok, so that it is *)
(* evaluated until it is resolved.  There are no more than it lists.        *)
Listed == recent \/ alert.status # "ok"

StartEvaluation(c) ==
    /\ cronAt[c] = "idle" /\ Listed
    /\ cronAt' = [cronAt EXCEPT ![c] = "measure"]
    /\ UNCHANGED <<key, value, recent, alert, cronSeen, cronWork, cronLag, failures>>

(* The metrics of FGA and loadOperatorDashboard, before the rows are read.  *)
Measure(c) ==
    /\ cronAt[c] = "measure"
    /\ cronSeen' = [cronSeen EXCEPT ![c] = IF key \in CountKeys THEN None ELSE value]
    /\ cronAt' = [cronAt EXCEPT ![c] = "load"]
    /\ UNCHANGED <<key, value, recent, alert, cronWork, cronLag, failures>>

LoadAlert(c) ==
    /\ cronAt[c] = "load"
    /\ cronWork' = [cronWork EXCEPT ![c] = alert]
    /\ cronAt' = [cronAt EXCEPT ![c] = "evaluate"]
    /\ UNCHANGED <<key, value, recent, alert, cronSeen, cronLag, failures>>

(* loadOrganizationSignals, which leaves out one that cannot be read, and   *)
(* the evaluation.                                                          *)
Readings(c) == IF key \in CountKeys THEN {value, None} ELSE {cronSeen[c]}
Evaluate(c) ==
    /\ cronAt[c] = "evaluate"
    /\ \E measured \in Readings(c) :
          /\ \/ (key \in CountKeys => measured = value) /\ UNCHANGED failures
             \/ key \in CountKeys /\ measured # value /\ failures < MaxFailures /\ failures' = failures + 1
          /\ cronWork' = [cronWork EXCEPT ![c] = Evaluated(measured, @, cronLag[c])]
    /\ cronSeen' = [cronSeen EXCEPT ![c] = None]
    /\ cronAt' = [cronAt EXCEPT ![c] = "save"]
    /\ UNCHANGED <<key, value, recent, alert, cronLag>>

Ended(c) ==
    /\ cronAt' = [cronAt EXCEPT ![c] = "idle"] /\ cronSeen' = [cronSeen EXCEPT ![c] = None]
    /\ cronWork' = [cronWork EXCEPT ![c] = Fallback] /\ cronLag' = [cronLag EXCEPT ![c] = 0]

(* D1OperatorAlertStateRepository.save replaces the row whatever it is.     *)
SaveAlert(c) ==
    /\ cronAt[c] = "save" /\ alert' = cronWork[c]
    /\ Ended(c) /\ UNCHANGED <<key, value, recent, failures>>

(* A call fails, or the invocation ends; nothing of it is tried again       *)
(* before the next cron.                                                    *)
EvaluationFails(c) ==
    /\ cronAt[c] # "idle" /\ failures < MaxFailures /\ failures' = failures + 1
    /\ Ended(c) /\ UNCHANGED <<key, value, recent, alert>>

-----------------------------------------------------------------------------
(* External: what is measured changes, events are recorded or leave the     *)
(* window, and a minute passes for every timestamp.                         *)
SignalChanges ==
    /\ value' \in Values \ {value} /\ UNCHANGED <<key, recent, alert, cronVars, failures>>
WindowMoves == recent' = ~recent /\ UNCHANGED <<key, value, alert, cronVars, failures>>

Older(row) == [row EXCEPT !.since = IF @ \in 0..(Minutes + MaxLag - 1) THEN @ + 1 ELSE @]
MinutePasses ==
    /\ \A c \in Crons : cronLag[c] < MaxLag
    /\ alert' = Older(alert) /\ cronWork' = [c \in Crons |-> Older(cronWork[c])]
    /\ cronLag' = [c \in Crons |-> IF cronAt[c] = "idle" THEN 0 ELSE cronLag[c] + 1]
    /\ UNCHANGED <<key, value, recent, cronAt, cronSeen, failures>>

Evaluating(c) == StartEvaluation(c) \/ Measure(c) \/ LoadAlert(c) \/ Evaluate(c) \/ SaveAlert(c)
AlertNext ==
    \/ \E c \in Crons : Evaluating(c) \/ EvaluationFails(c)
    \/ SignalChanges \/ WindowMoves \/ MinutePasses

(* The cron comes every minute.                                             *)
AlertFairness ==
    WF_alertVars(MinutePasses) /\ \A c \in Crons : WF_alertVars(Evaluating(c))

-----------------------------------------------------------------------------
AlertTypeOK ==
    /\ key \in Keys /\ value \in Values /\ recent \in BOOLEAN
    /\ alert \in AlertRows /\ \A c \in Crons : cronWork[c] \in AlertRows
    /\ cronAt \in [Crons -> {"idle", "measure", "load", "evaluate", "save"}]
    /\ cronSeen \in [Crons -> {None} \cup 0..MaxValue] /\ cronLag \in [Crons -> 0..MaxLag]
    /\ failures \in 0..MaxFailures

(* A row that fires, stored or about to be, names a breach that is as old   *)
(* as it has to be, also where crons overwrite each other's rows or go by   *)
(* an older instant; a row that is ok names none.  That its crons saw the   *)
(* value breached all that time is not claimed.                             *)
FiringIsSustained ==
    \A row \in {alert} \cup {cronWork[c] : c \in Crons} :
        /\ row.status = "firing" => row.since >= RequiredMinutes
        /\ row.status = "ok" <=> row.since = None

(* A breach that lasts makes the alert of an organization with recent       *)
(* events fire, and one that is over resolves it, also when the             *)
(* organization has no events any more.                                     *)
AlertsFollowSignals ==
    /\ <>[](Breached(value, alert) /\ recent) => <>[](alert.status = "firing")
    /\ \A v \in {None} \cup 0..MaxValue :
          <>[](value = v /\ ~Breached(v, alert)) => <>[](alert.status = "ok")
=============================================================================
