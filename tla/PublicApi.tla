------------------------------- MODULE PublicApi -------------------------------
(***************************************************************************)
(* The public HTTP API (approval-application/src/public-http.ts, http.ts):  *)
(* a decision on a task or a new ActionRequest is wrapped in a reservation  *)
(* of its Idempotency-Key (approval-d1/src/public-api-repository.ts) and    *)
(* charged to a fixed window (rate-limit-repository.ts).  Invocations of    *)
(* the Worker overlap and end anywhere, and a call of D1 may fail after it  *)
(* wrote.                                                                   *)
(***************************************************************************)
EXTENDS Integers, Sequences, FiniteSets, FiniteSetsExt, SequencesExt

CONSTANTS Calls,                  \* invocations of the Worker
          DecisionKeys, CreateKeys, \* Idempotency-Keys of the two operations
          Payloads, Invalid,      \* bodies, and those that do not parse
          Lease,                  \* DEFAULT_IDEMPOTENCY_LEASE_MS
          Limit, Window,          \* RateLimitPolicy
          MaxTime, MaxTroubles    \* bounds on the clock and on failures

Keys == DecisionKeys \cup CreateKeys

ASSUME PublicApiBounds ==
    /\ {Lease, Limit, Window} \subseteq Nat \ {0}
    /\ {MaxTime, MaxTroubles} \subseteq Nat
    /\ Invalid \subseteq Payloads /\ DecisionKeys \cap CreateKeys = {}

VARIABLES
    now,
    stored,      \* api_idempotency_keys
    counter,     \* rate_limit_counters, by key of an operation and window
    task,        \* of the decisions: "open", "voted" on by the user, or "closed"
    at, call,    \* call -> where it is, and what it holds
    effect,      \* call -> what it has persisted
    given,       \* the answers clients got, with the key and the body
    excused,     \* keys of which a lease ran out, or an attempt was given up
    troubles

vars == <<now, stored, counter, task, at, call, effect, given, excused, troubles>>

(* An answer: its code, and the call whose command or request it names.   *)
Says(code) == [code |-> code, by |-> "nobody"]
Made(code, c) == [code |-> code, by |-> c]

Free == [status |-> "free", payload |-> "none", until |-> 0, answer |-> Says("none")]
NoCall == [key |-> "none", payload |-> "none", asked |-> 0, seen |-> Free, window |-> 0,
           answer |-> Says("none")]
Windows == {t \div Window : t \in 0..MaxTime}
OperationOf(k) == IF k \in DecisionKeys THEN "decide" ELSE "create"

Init ==
    /\ now = 0 /\ troubles = 0 /\ task = "open"
    /\ stored = [k \in Keys |-> Free]
    /\ counter = [o \in {"decide", "create"} |-> [w \in Windows |-> 0]]
    /\ at = [c \in Calls |-> "new"] /\ call = [c \in Calls |-> NoCall]
    /\ effect = [c \in Calls |-> "none"]
    /\ given = {} /\ excused = {}

-----------------------------------------------------------------------------
Trouble == troubles < MaxTroubles /\ troubles' = troubles + 1
Calm == UNCHANGED troubles
Go(c, where) == at' = [at EXCEPT ![c] = where]
Holding(c, field, value) == call' = [call EXCEPT ![c][field] = value]
Excuse(ks) == excused' = excused \cup ks
Key(c) == call[c].key

(* The client has the answer of the key it sent.                            *)
Answer(c, k, p, a) ==
    /\ Go(c, "over")
    /\ given' = given \cup {[key |-> k, payload |-> p, answer |-> a]}

Reply(c, a) == Answer(c, Key(c), call[c].payload, a) /\ UNCHANGED call

(* reserve: the insertion is ignored when the key has a row.  The clock is  *)
(* read once, before it, for all that reserve does.  NoCall's asked stands  *)
(* for a read that is of no more use.                                       *)
Reservation(p, read) ==
    [status |-> "pending", payload |-> p, until |-> read + Lease, answer |-> Says("none")]
Reserve(c, k, p, read) ==
    /\ at[c] = "new"
    /\ call' = [call EXCEPT ![c].key = k, ![c].payload = p,
                            ![c].asked = IF stored[k].status = "free" THEN @ ELSE read]
    /\ stored' = [stored EXCEPT ![k] = IF @.status = "free" THEN Reservation(p, read) ELSE @]
    /\ Go(c, IF stored[k].status = "free" THEN "execute" ELSE "load")
    /\ Calm
    /\ UNCHANGED <<now, counter, task, effect, given, excused>>

(* The insertion fails, and may have been made.                             *)
ReserveFails(c, k, p, read) ==
    /\ at[c] = "new" /\ Trouble
    /\ stored' \in {stored, [stored EXCEPT ![k] =
                                IF @.status = "free" THEN Reservation(p, read) ELSE @]}
    /\ Answer(c, k, p, Says("unavailable"))
    /\ UNCHANGED <<now, counter, task, call, effect, excused>>

LeaseOver(until) == until <= now
AtAnyTime(until, asked) == TRUE                                           \* mutant
TakesOver(until, asked) == until <= asked

(* loadIdempotency: another body, a stored response, a reservation that     *)
(* holds, or one whose lease is over.                                       *)
Load(c) ==
    /\ at[c] = "load" /\ Calm
    /\ LET row == stored[Key(c)]
       IN  \/ row.status = "free" /\ Reply(c, Says("unavailable"))
           \/ row.status # "free" /\ row.payload # call[c].payload /\ Reply(c, Says("reused"))
           \/ row.status = "completed" /\ row.payload = call[c].payload /\ Reply(c, row.answer)
           \/ /\ row.status = "pending" /\ row.payload = call[c].payload
              /\ \/ ~TakesOver(row.until, call[c].asked) /\ Reply(c, Says("in_progress"))
                 \/ TakesOver(row.until, call[c].asked) /\ Go(c, "take") /\ Holding(c, "seen", row)
                    /\ UNCHANGED given
    /\ UNCHANGED <<now, stored, counter, task, effect, excused>>

(* The compare-and-set on locked_until.                                     *)
TakeOver(c) ==
    /\ at[c] = "take" /\ Calm
    /\ LET row == stored[Key(c)]
           same == /\ row.status = "pending" /\ row.payload = call[c].payload
                   /\ row.until = call[c].seen.until
       IN  \/ /\ same /\ Go(c, "execute") /\ UNCHANGED <<call, given>>
              /\ stored' = [stored EXCEPT ![Key(c)].until = call[c].asked + Lease]
              /\ Excuse({k \in {Key(c)} : LeaseOver(call[c].seen.until)})
           \/ ~same /\ Reply(c, Says("in_progress")) /\ UNCHANGED <<stored, excused>>
    /\ UNCHANGED <<now, counter, task, effect>>

-----------------------------------------------------------------------------
(* execute.  A response is kept until it is stored or its key released.     *)
Respond(c, a) == Go(c, "settle") /\ Holding(c, "answer", a)
WindowOf(read) == read \div Window
Allowed(count) == count <= Limit
OneMore(count) == count <= Limit + 1                                      \* mutant
WithinLimit(count) == Allowed(count)

(* The body of a new request is parsed and its caller resolved before it is *)
(* counted; the body of a decision only after.                              *)
RefuseBody(c) ==
    /\ at[c] = "execute" /\ OperationOf(Key(c)) = "create" /\ Calm
    /\ \/ call[c].payload \in Invalid /\ Respond(c, Says("invalid"))
       \/ call[c].payload \notin Invalid /\ Respond(c, Says("denied"))
    /\ UNCHANGED <<now, stored, counter, task, effect, given, excused>>

(* consume counts the request in the window of a clock read, whether it is  *)
(* allowed or not.                                                          *)
Consume(c, w) ==
    /\ at[c] = "execute"
    /\ OperationOf(Key(c)) = "create" => call[c].payload \notin Invalid
    /\ LET o == OperationOf(Key(c))
           count == counter[o][w] + 1
       IN  /\ counter' = [counter EXCEPT ![o][w] = count]
           /\ \/ /\ WithinLimit(count) /\ Calm
                 /\ Go(c, IF o = "decide" THEN "accept" ELSE "submit")
                 /\ Holding(c, "window", w)
              \/ ~WithinLimit(count) /\ Calm /\ Respond(c, Says("limited"))
              \/ Trouble /\ Respond(c, Says("unavailable"))
    /\ UNCHANGED <<now, stored, task, effect, given, excused>>

(* decisionBody and precheckDecision on the context that accept reads.      *)
Accept(c) ==
    /\ at[c] = "accept"
    /\ \/ call[c].payload \in Invalid /\ Respond(c, Says("invalid"))
       \/ call[c].payload \notin Invalid /\ task = "closed" /\ Respond(c, Says("closed"))
       \/ call[c].payload \notin Invalid /\ task = "voted" /\ Respond(c, Says("decided"))
       \/ call[c].payload \notin Invalid /\ task = "open" /\ Go(c, "write") /\ UNCHANGED call
    /\ UNCHANGED <<now, stored, counter, task, effect, given, excused, troubles>>

(* createPending under a fresh command id.  The answer also waits for       *)
(* onDecisionAccepted, the processor of ApprovalWorkflow, and ignores its   *)
(* result; if it throws, the response is the gateway's 500.                 *)
CreatePending(c) ==
    /\ at[c] = "write"
    /\ \/ Calm /\ effect' = [effect EXCEPT ![c] = "command"] /\ Respond(c, Made("accepted", c))
       \/ /\ Trouble /\ Respond(c, Says("unavailable"))
          /\ effect' \in {effect, [effect EXCEPT ![c] = "command"]}
       \/ Trouble /\ Respond(c, Says("broken")) /\ UNCHANGED effect
    /\ UNCHANGED <<now, stored, counter, task, given, excused>>

(* prepare: the request is refused, or has a fresh ActionRequest id and its *)
(* plan.                                                                    *)
Prepare(c) ==
    /\ at[c] = "submit"
    /\ \/ Calm /\ Respond(c, Says("denied"))
       \/ Calm /\ Go(c, "save") /\ UNCHANGED call
       \/ Trouble /\ Respond(c, Says("unavailable"))
    /\ UNCHANGED <<now, stored, counter, task, effect, given, excused>>

(* commit: the plan and its audit are stored before the Workflow is started.*)
SavePlan(c) ==
    /\ at[c] = "save"
    /\ \/ Calm /\ effect' = [effect EXCEPT ![c] = "planned"] /\ Go(c, "start") /\ UNCHANGED call
       \/ /\ Trouble /\ Respond(c, Says("unavailable"))
          /\ effect' \in {effect, [effect EXCEPT ![c] = "planned"]}
    /\ UNCHANGED <<now, stored, counter, task, given, excused>>

StartWorkflow(c) ==
    /\ at[c] = "start"
    /\ \/ Calm /\ effect' = [effect EXCEPT ![c] = "started"] /\ Respond(c, Made("created", c))
       \/ /\ Trouble /\ Respond(c, Says("unavailable"))
          /\ effect' \in {effect, [effect EXCEPT ![c] = "started"]}
    /\ UNCHANGED <<now, stored, counter, task, given, excused>>

-----------------------------------------------------------------------------
Retriable == {"limited", "unavailable"}
Held(row, p) == row.status = "pending" /\ row.payload = p
HeldOrDone(row, p) == row.payload = p                                     \* mutant
MayComplete(row, p) == Held(row, p)

(* A response that may differ next time gives the key back.  Neither the    *)
(* release nor the completion asks whose reservation it is.                 *)
Release(c) ==
    /\ at[c] = "settle" /\ call[c].answer.code \in Retriable
    /\ \/ Calm /\ stored' = [stored EXCEPT ![Key(c)] =
                                IF Held(@, call[c].payload) THEN Free ELSE @]
       \/ Trouble /\ UNCHANGED stored
    /\ Reply(c, call[c].answer)
    /\ Excuse({k \in {Key(c)} : effect[c] # "none"})
    /\ UNCHANGED <<now, counter, task, effect>>

Completed(row, a) == [row EXCEPT !.status = "completed", !.answer = a]
Complete(c) ==
    /\ at[c] = "settle" /\ call[c].answer.code \notin Retriable
    /\ LET held == MayComplete(stored[Key(c)], call[c].payload)
           done == [stored EXCEPT ![Key(c)] = Completed(@, call[c].answer)]
       IN  \/ Calm /\ held /\ stored' = done /\ Reply(c, call[c].answer)
           \/ Calm /\ ~held /\ UNCHANGED stored /\ Reply(c, Says("unsaved"))
           \/ Trouble /\ stored' \in {stored, IF held THEN done ELSE stored}
              /\ Reply(c, Says("unavailable"))
    /\ UNCHANGED <<now, counter, task, effect, excused>>

(* The isolate ends, and the client has no answer.                          *)
Die(c) ==
    /\ at[c] \notin {"new", "over"} /\ Trouble
    /\ Go(c, "over")
    /\ UNCHANGED <<now, stored, counter, task, call, effect, given, excused>>

-----------------------------------------------------------------------------
(* External: the clock, and what ApprovalWorkflow does to the tasks.        *)
Tick ==
    /\ now < MaxTime /\ now' = now + 1
    /\ UNCHANGED <<stored, counter, task, at, call, effect, given, excused, troubles>>

ApplyCommand ==
    /\ task = "open" /\ \E c \in Calls : effect[c] = "command"
    /\ task' = "voted"
    /\ UNCHANGED <<now, stored, counter, at, call, effect, given, excused, troubles>>

CloseTask ==
    /\ task # "closed" /\ task' = "closed"
    /\ UNCHANGED <<now, stored, counter, at, call, effect, given, excused, troubles>>

Execute(c) ==
    \/ RefuseBody(c) \/ (\E read \in 0..now : Consume(c, WindowOf(read)))
    \/ Accept(c) \/ CreatePending(c)
    \/ Prepare(c) \/ SavePlan(c) \/ StartWorkflow(c)
Handle(c) ==
    \/ \E k \in Keys, p \in Payloads, read \in 0..now :
          Reserve(c, k, p, read) \/ ReserveFails(c, k, p, read)
    \/ Load(c) \/ TakeOver(c) \/ Execute(c) \/ Release(c) \/ Complete(c) \/ Die(c)

Next ==
    \/ \E c \in Calls : Handle(c)
    \/ Tick \/ ApplyCommand \/ CloseTask

Spec == Init /\ [][Next]_vars

-----------------------------------------------------------------------------
Passing == {"reused", "in_progress", "unsaved"} \cup Retriable

(* The answers to one key and body that do not ask to try again agree,      *)
(* whoever answered: late holders, those that took over, and replays.       *)
AnswersAgree ==
    \A a, b \in given :
        /\ a.key = b.key /\ a.payload = b.payload
        /\ a.answer.code \notin Passing /\ b.answer.code \notin Passing
        => a.answer = b.answer

(* A key leads to a second command or ActionRequest only after a lease ran  *)
(* out, or an attempt that had written was answered with a retriable error. *)
Wrote(k) == {c \in Calls : effect[c] # "none" /\ Key(c) = k}
OneEffectPerKey == \A k \in Keys \ excused : Cardinality(Wrote(k)) <= 1

(* A window lets no more than Limit of a user's requests write, however     *)
(* they overlap.                                                            *)
LimitHolds ==
    \A o \in {"decide", "create"}, w \in Windows :
        Cardinality({c \in Calls : /\ effect[c] # "none" /\ OperationOf(Key(c)) = o
                                   /\ call[c].window = w}) <= Limit

(* What the requests of a client come to is bounded by its keys and by its  *)
(* windows.                                                                 *)
EffectsAreBounded == OneEffectPerKey /\ LimitHolds
=============================================================================
