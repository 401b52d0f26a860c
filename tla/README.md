# A TLA+ model of ultra-easy's approval and execution platform

The repository is an approval workflow platform: a request for an *action* is
evaluated against a policy, people approve it in a flow of steps, and when it is
approved an executor performs it, exactly as approved and with the approvers'
duties kept apart. Around that core are a workflow engine whose runs are
themselves actions, an MCP gateway, a relationship (authorization) store,
notifications, schedules and a knowledge application that uses all of it. This
directory models the parts that decide something, checks them with TLC and
proves what matters most of them with TLAPS.

Paths are relative to `src/packages/` unless they begin with `src/`.

## 1. The system

### Components, their state and their operations

| Component (code) | State | Operations | Correct when |
|---|---|---|---|
| Approval interpreter (`approval-core/src/interpreter`, `approver-resolver.ts`) | none: pure functions of a plan and an `ApprovalRuntimeState` (root status, tasks with candidates and decisions, processed keys) | start, record a decision, advance, expire, cancel | approved only by votes that satisfy the whole flow; a vote counts once; duties are kept apart; a flow closes as soon as approval is out of reach and stays closed |
| In-memory runtime (`approval-runtime-memory`) | one record per request | start, decide, advanceTime | as the interpreter |
| Approval Workflow (`approval-runtime-cloudflare/src/workflow.ts`) | the journal of a durable Workflow instance: position in the loop, logical time, a copy of the runtime state with its version | durable steps initialize / record / activate / expire, the wait for a decision, the failure path | its copy is the stored one; every retried step has its effect once; it ends, and its end is recorded |
| Runtime projection (`approval-d1/src/approval-runtime-projection-repository.ts`) | row: version, runtime state, writer | create, compareAndReplace with events in one batch | two writers never overwrite each other |
| Force cancel (`approval-runtime-cloudflare/src/workflow-cancellation.ts`) | none of its own | load, compareAndReplace, retry, terminate the instance | a cancelled request stays cancelled |
| Decision commands (`approval-application/src/read-command.ts`, `approval-d1/src/public-api-repository.ts`) | `approval_commands` row: status, attempts, lease | accept, claim, send, finish, retry, outcome | what the sender is told about its decision is true |
| Action events and lifecycle (`approval-core/src/action-event.ts`, `action-request-lifecycle.ts`, `approval-d1/src/action-event-repository.ts`) | `action_events`, append only, one row per event key | append, fold | the folded status follows the transition table and agrees with the projection and the result |
| Action execution (`approval-runtime-cloudflare/src/action-execution.ts`, `approval-core/src/action-execution*.ts`) | Workflow journal; `action_results` | reauthorize, describe the executor, execute, project the result | the side effect happens at most once; the recorded result is true |
| Async executions (`approval-application/src/action-execution-completion.ts`, `approval-d1/src/async-action-execution-repository.ts`) | `action_async_executions` row | accept, settle, project, request cancel | the first completion wins, for good, and is recorded |
| Relationship mutations (`approval-core/src/authorization-relationship-coordinator.ts`, `approval-d1/src/authorization-relationship-store.ts`) | `authorization_relationship_mutations` rows (revision, status, attempts), the external OpenFGA tuples | submit, prepare, apply, observe, confirm, supersede, reconcile | the journal tracks the latest revision; what is quiet has converged |
| FGA access (`approval-fga`) | cached tokens per secret | exchange, reuse, check, list | a token is used while it lasts; a failure never allows |
| Authorization console (`approval-application/src/authorization-admin.ts`) | none: reads the journal and its audit | list, page, simulate, submit | a listing shows what stayed there, once unless it was moved back; the audit tells one story; no update reaches the console's own access |
| Action request submission (`approval-application/src/action-request-service.ts`) | request row, plan, events, result | prepare, commit, execute at once, resume | one request per key; resuming repeats nothing |
| MCP gateway (`approval-mcp/src/gateway.ts`) | `mcp_invocations` row with a lease | admit, take over, commit, answer, withdraw | a repeated invocation gets the first one's answer |
| Public API (`approval-application/src/public-http.ts`) | idempotency records, rate-limit windows | reserve, take over, complete, release, charge; page through the inbox | one effect per key, one answer; the limit holds; the inbox hides nothing |
| Notification outbox (`approval-d1/src/notification-outbox-repository.ts`, `approval-runtime-cloudflare/src/notifications.ts`) | outbox rows, delivery rows, a queue | dispatch, consume, retry, dead letter, requeue | every recipient is told or counted; nothing is marked sent that was not |
| Operator alerts (`approval-core/src/operator-alerts.ts`, `approval-runtime-cloudflare/src/operations.ts`) | one state row per alert | read signals, evaluate, save, announce | a firing alert was breached long enough; alerts follow what is measured |
| Workflow run engine (`workflow-core`, `workflow-application/src/runtime.ts`, `workflow-d1/src/repositories.ts`) | run document with a revision, effects, wake time | start, advance, signal, cancel, finish, sweep | a run advances by one writer at a time, follows its graph, and its end is delivered |
| Workflow schedules (`workflow-application/src/schedules.ts`, `workflow-d1/src/schedules.ts`, `src/apps/approval-api/src/schedule-api.ts`) | schedules and slots with leases | register, stop, resume, enqueue, claim, prepare, commit, finish | one request per slot |
| Composite actions and run quotas (`workflow-application/src/composite`, `governance`, `publishing.ts`) | versions, bindings, catalog, child links, runs, leases | publish, start, spawn, end, deliver | what runs is what was requested; no run is within itself; leases follow runs |
| Policies (`approval-core/src/materialization.ts`, `policy-evaluator.ts`, `condition-evaluator.ts`, `application-approval-policy.ts`, `governance.ts`) | published policies and bindings, proposals | evaluate, materialize, propose, approve, apply, publish, migrate the catalog | a rule in force was approved under the meta policy, unless governance rewrote that; a plan follows the rules it was made from |
| Knowledge application (`src/apps/knowledge`, `knowledge-core`, `knowledge-d1`) | pages, drafts, revisions, publications, effects | draft, publish, archive, restore, retry, read, search, found a space | readers see the published revision, and only what they may read |
| HTTP adapters, telemetry, web console, attachments, retention, expression language | see section 5 | | - |

`PROJECT.json` lists each with its status.

### How they interact

```
 HTTP / MCP / schedules / runs   people                     operator
        |                          |                            |
  action-request-service     decision command              force cancel
        | plan, request row        | at-least-once event        |
        v                          v                            v
  [Approval Workflow] --- durable steps --> projection (compare-and-set) + action_events
        | approved                                                 ^        |
        v                                                          | fold   v outbox
  [Action execution] -- call --> executor (external, or a run) --> results  notifications
        | accepted                      |                          ^
        v                               v                          |
  action_async_executions <--- trusted completion (run listener, sweeper, adapters)
```

* The **projection** row is shared by the Workflow and force cancel; a version
  makes every write a compare-and-set, and the writer's id in the row lets a
  retried step recognise its own earlier write.
* **Events** are written in the batch of the row they describe. A reader never
  reads the status from a row: it folds it from the events, ignoring illegal
  transitions.
* **Commands** reach the Workflow as events sent at least once, by workers that
  hold a 60-second lease.
* **Durable steps** are retried from their start when they throw, time out or
  their answer is lost; the answer that is journalled is the last attempt's.
* **Leases** (commands, invocations, idempotency keys, schedule slots, run
  quotas) run out by the clock while their holder may still be at work.

### What is hard

Lost answers of durable steps (the write landed, the step is run again, against
live authorization data that has moved); two writers of one row; time that is
logical in the interpreter and wall-clock in the platform's timers; decisions
delivered twice, late, or to an instance that no longer listens; an executor
whose call may still be under way when its caller has given up; completions that
contradict each other; a status that is a fold and therefore depends on the order
in which different writers' events land; holders that outlive their leases; crons
that overlap themselves; a listing whose rows move while it is read; retries that
run out. `PROJECT.json` lists each hazard with its line and the properties that
guard it.

## 2. The modules

One action is one operation of the code, or the part of it between two awaits at
which another actor can interleave: a D1 batch is one action, a read and the
later write are two.

| Module | Models | State, and where it lives in the code |
|---|---|---|
| `ApprovalFlow` | the pure interpreter: resolving and snapshotting candidates, recording a vote, reconciling the flow, expiry, cancel | no variables; operators over a plan `p` and a runtime state `rt` = `ApprovalRuntimeState` |
| `ApprovalRuntime` | one request in `InMemoryApprovalRuntime`: `StartRuntime`, `Decide`, `AdvanceTime`, with `Tick` for the clock | `rt` is `RuntimeRecord.state`, `plan` its plan, `clock` the caller's clock, `outcome` the last answer |
| `ActionRequestLifecycle` | the transition table and `applyActionRequestEvent` | `status`; `Spec` is the abstract promise that the status only moves along the table |
| `EventLog` | `action_events` with its unique key, `INSERT OR IGNORE` and the check of the stored event; the status is folded as events arrive | `log` |
| `ApprovalWorkflow` | the approval phase of `runActionWorkflow`, the projection's compare-and-set, decision commands, force cancel | `proj` the row, `wf` the instance (`pc` the durable step, `stage` where in its body an attempt is, `attempt`, the cursor `rt`/`version`/`now`), `inbox` events in flight, `cmds` the command rows, `cancel` the operator's call |
| `ActionExecution` | the execution phase: durable steps, the downstream service, acceptance and trusted completions | `exec`, `service` (external), `result` and `async` (the two rows), `call` the workers that deliver completions |
| `RelationshipMutation` | `AuthorizationRelationshipCoordinator` over the D1 journal and OpenFGA | `muts` and `rel` the journal, `present` the tuple, `late` writes whose caller has gone, `call` the workers |
| `FgaAccess` | the shared access tokens, the meaning of OpenFGA's answers and failures | `secret`, `cached` and the exchange under way, `ask` the callers |
| `AuthorizationConsole` | the console's listings of relationships and audit and its page of one relationship while mutations go on, its simulation and the check of an update | `rels` and `muts` the journal as its batches leave it, late ones and older stamps included, `audit`, `walk` the page the reader is at |
| `McpInvocation` | one logical `tools/call`: reservation, lease, take-over, commit with resume | `inv` the row, with the status column and the status inside `record_json` apart (take-over guards by one and restores the other), `plans` / `started` / `result` / `calls` what the commit leaves behind, `h` the handlers |
| `PublicApi`, `TaskInbox` | the two operations that write (a decision, an ActionRequest) around the reservation of their key and the fixed window; the keyset listing of the inbox | `stored` the idempotency rows, `counter` the window, `at` the invocations; `tasks` and `listing` |
| `NotificationOutbox` | one event's outbox row and deliveries, dispatchers, queue, consumers, dead letters | `outbox`, `delivery`, the queue's messages |
| `OperatorAlerts` | one alert under overlapping crons | the stored row, the instant each cron goes by, what it measured and the row it read, what is measured now |
| `WorkflowGraph`, `WorkflowScheduler` | the graph of a definition and the kernel's passes over a run (scopes, effects, retries, loops, fail-fast, cancel) as operators | `definition`, `data`: what the expressions come to |
| `WorkflowRun` | the runtime over its row: advance, deliver, answer, cancel, finish, sweep, by overlapping workers | `run` = `state_json`, `wake`, the effect handlers' outside world, the workers' copies |
| `WorkflowSchedule` | the routes and the sweep of one schedule | `schedule`, `slots`, `stored`, the sweepers' reads (`work`) |
| `CompositeAction` | publication, start, child requests, end and the run leases of many requests | `versions`, `bindings`, `catalog`, `requests`, `links`, `runs`, `leases`, `call` |
| `PolicyEvaluation`, `ApplicationPolicy` | conditions, bindings, first match, composition, materialization; the application's scheme and its compilation | no variables |
| `PolicyAuthoring` | proposals, their approval and application, governance publications, the catalog migration, and requests evaluated meanwhile | the published policies and bindings, the records of the changes, the evaluations under way |
| `KnowledgeStore`, `KnowledgePublication` | the tables; publishing, archiving, effects and their retry through the platform stand-in | pages, drafts, snapshots, runs, the calls' copies |
| `KnowledgeViews`, `KnowledgeReading` | the panel, attention and automation lists; page views, listings, search, the founding of a space | none of their own; `leaves`, `members` and the reader's request |

`ApprovalWorkflow` composes `ApprovalFlow`, `EventLog` and (as `Lifecycle`)
`ActionRequestLifecycle`; `ActionExecution` composes `EventLog` and `Lifecycle`
and starts from the approved request `ApprovalWorkflow` ends in;
`McpInvocation` uses `EventLog`; `WorkflowRun` builds on `WorkflowScheduler` and
`WorkflowGraph`; `PolicyAuthoring` on `ApplicationPolicy` and `PolicyEvaluation`.
`FollowsLifecycle == Lifecycle!Spec` is the refinement of the lifecycle table by
the Workflow, its retries and its concurrent cancel.

Modules that share no variable are checked in one run where that saves a state
space nothing: `MCPublicApi` (API, inbox, console, FGA), `MCNotificationOutbox`
(outbox, alerts) and `MCKnowledgePublication` (publishing, reading, founding)
choose at the start which one a behaviour is of.

What is abstracted everywhere: names, comments, fingerprints and evidence are
members of small sets or booleans that say whether they match; times are small
naturals; a group's members are whatever set of users the plan's `answers`
allow at that moment.

* **`ApprovalFlow`.** A plan is a record of functions on step and group names.
  The flow is evaluated bottom-up by recursive functions, so the module can be
  proved about. `Asked` lists the dynamic steps an operation resolves, in one
  activation; the caller supplies the answers.
* **`ApprovalWorkflow`.** A durable step runs its body, whose writes land, and
  then either `Journal` keeps its answer or `AttemptFails` loses it and the
  body runs again; after `StepRetries` the step's error ends the instance.
* **`ActionExecution`.** The call of the executor and the service's handling of
  it are separate actions, so that a timed-out call can still be performed
  while its retry runs.
* **`RelationshipMutation`.** `overlap` is chosen at the start: with `FALSE`,
  calls for the tuple are made one at a time, which is what an operator who
  waits does; with `TRUE`, anything may interleave.
* **`McpInvocation`.** Lease tokens are unique, so only whether a handler's
  token is the row's is kept. A lease may run out while its handler works; that
  is one of the faults, and `faults.overrun` remembers it.
* **`WorkflowRun`.** A definition and what its expressions come to are one
  `Case`; two workers may hold copies of the run, and `fresh` says whether a
  copy's revision is still the row's.
* **`WorkflowSchedule`.** Every minute is a slot; the cron expression and the
  time zone only select among them. A call that fails makes the sweep pass over
  the slot or finish it as failed, as the code does; a resumption goes by a clock
  read before the row it resumes.
* **`PublicApi`.** A step that the code does with one clock read has one: the
  insert of a key, the comparison with the lease and the new lease go by `asked`,
  the window by an instant of its own, and either may be any earlier one.
* **`AuthorizationConsole`.** A batch of the journal is one action, and stamps the
  row with whatever instant its caller read, also one before the row's.
* **`CompositeAction`.** `Parent` and `Asks` fix which run makes which request;
  `Before` stands for the runs above the roots.

## 3. What the runs check

| Run | Question | Bounds |
|---|---|---|
| `approval_runtime` | does the interpreter approve only what was earned, count each vote once and keep duties apart, close exactly when approval is out of reach, and stay closed? | five plans (dynamic with fallback and self approval, four-eyes serial, all, any with a nested serial, quorum of three), three users, three decision keys, two clock values |
| `approval_workflow` | do the row, the audit trail, the folded status, the instance's copy and what commands were told agree in every interleaving; does the status follow the lifecycle; is everyone answered? | one command sent at most twice, one step retry, two cancel attempts, a dynamic and a serial plan |
| `action_execution` | one effect, a true and final result, and an end that is recorded | both executor kinds and guarantees, one retry each, two workers, two stray completions |
| `relationship_mutation` | journal consistency, convergence, termination | two mutations, two workers, one fault, with and without overlap |
| `mcp_invocation` | one request per key, one execution, answers final and true, Tasks committed | two overlapping handlers, two request ids, three faults (failures, deaths, a lease that runs out under its handler) |
| `workflow_run` | does a run follow its graph, with one effect per request and no effect after its end; are decided nodes final; does it end and tell its parent? | fork with join and throttle, branch and loops (two items, two at a time), a loop that asks with a loop inside; two workers, one fault |
| `workflow_schedule` | one plan and one request per slot, whoever sweeps; settled slots final; every slot settled | two registrants, two sweepers, two slots, one trouble (a failing call, a death, a lease that runs out, a resumption of a schedule that was running) |
| `notifications` | is what is marked sent sent, and everyone told or counted; do alerts fire for sustained breaches only, and follow what is measured? | two recipients, two dispatchers and consumers, two attempts; three alerts, two crons that may lag behind the clock |
| `knowledge` | do readers find the latest publication, only what they may read and all of it; are panels and lists true; are effects attempted? | one page with two people and a call each; two spaces and two leaves for a visitor; two founders of one space |
| `policy_authoring` | is a rule in force one that an owner or an administrator other than its author approved, or did governance rewrite the meta approval; is there one winner per version; do plans follow the rules in force when they were made? | two concurrent changes, two scopes, one governance publication (a relaxed meta policy and a disabled meta binding among them), one crash |
| `composite_action` | does a request run the version it was made with; is no run within itself; are quotas held and given back? | three workflows, a request and its child, two calls, two versions, one fault |
| `public_api` | one effect and one answer per key, the limit per window; complete listings; tokens and tenants | three calls of one operation, a lease of one, clock reads of any earlier instant, two windows; four tasks, two per page; two tuples, five audit events, one row per page; two askers, two secrets |

**Why the bounds are enough.** Two of each actor is the least number that
interleaves; the hazards here are races of two (a retry and its earlier self, a
Workflow and a cancel, two workers on one lease, two revisions of one tuple, two
crons), and the third party where one exists (operator, cron, provider) is always
free. A retry bound of one already gives two attempts of every step with every
split between landed and lost. Three users let a quorum of two fail and succeed
with a person to spare; three keys let a two-vote cohort be followed by a repeated
key. Two clock values put every event before, at and after an expiry of 1. The
attempt counters of the durable steps are part of the state, so larger limits
repeat the same positions of the body. `MaxTime` bounds the clock only while
nothing waits; a wait always times out. For the components of section 4 the
theorems lift the bounds altogether.

`CHECK_DEADLOCK FALSE` is set where the system may rest for good: a request
that is settled, a call that is answered.

**Fairness.** Stated per run, and only what the platform's scheduling gives:

* `approval_workflow`: the platform keeps running a started durable step,
  delivering a received event and firing timers (weak fairness); nothing obliges
  people to vote, workers to send, or any attempt to succeed.
* `action_execution`: the same for steps and for the downstream service, plus
  the sweeper, which comes by as long as the end of the run is undelivered, and
  does not fail every time at the same point (strong fairness of its delivery,
  settlement and projection, because a failing worker disables them again and
  again).
* `relationship_mutation`: workers go on; the cron runs every minute, so it is
  not for ever that it finds a tuple busy (strong fairness of
  `ReconcilePending`).
* `mcp_invocation`: handlers run, leases expire (weak), and the client repeats a
  call that was not answered, sometimes as one that can follow Tasks (strong);
  faults are finitely many (`MaxFaults`).
* `workflow_run`: workers that hold a copy go on (weak), the cron starts sweeps
  (strong), a child's run ends (weak).
* `workflow_schedule`: sweepers go on and the cron starts them, leases run out
  (weak).
* `notifications`: dispatchers and consumers go on, skipped rows are requeued,
  exhausted ones marked dead, backoffs pass; the minute passes and crons evaluate
  (all weak).
* `knowledge`: a call that was made goes on (weak).

Every property is broken by at least one plausible bug of the code; those
mutated definitions stand, marked `mutant`, before the definitions they change.

## 4. What is proved

Everything below is checked by TLAPS with SMT, Zenon and LS4, for every value of
the constants, from the assumptions named in the modules, which TLC evaluates on
every run.

| Proof module | Theorem | States |
|---|---|---|
| `ApprovalRuntime_proofs` (with the lemmas of `ApprovalFlow_proofs`) | `TypeCorrect`, `VotesUnique`, `DutiesSeparated`, `VotesLawful`, `ApprovalsAreEarnedHolds`, `NobodyWaitsInVainHolds`, `ClosedIsSealedHolds`, `TasksOnlyCloseHolds` | all five properties of `approval_runtime` |
| `ApprovalWorkflow_proofs` (on the same lemmas) | `EverySourceAgreesHolds`, `ProjectionNeverRegressesHolds`, `FollowsLifecycleHolds` | the three safety properties of `approval_workflow`; the last is the refinement of `ActionRequestLifecycle` |
| `ActionExecution_proofs` | `OutcomeIsTrueHolds`, `ResultIsFinalHolds`; `RecordsStayTrue` | both safety properties of `action_execution`, and the one of `notifications` |
| `RelationshipMutation_proofs` | `TypeCorrect`, `SyncTracksLatestHolds`, `EndedStaysEndedHolds`, `QuietMeansConvergedHolds`; `OneWinnerPerVersionHolds` | the three safety properties of `relationship_mutation`, and the second of `policy_authoring` |
| `McpInvocation_proofs` | `TypeCorrect`, `ExecutesAtMostOnceHolds`, `AnswerIsFinalHolds`, `OneLastingAnswerHolds`; `CallIsHonouredHolds`: founded always, honoured until a lease runs out under its handler; `ReadersStayServed`, `ViewsStayTrue` | both safety properties of `mcp_invocation`, and both of `knowledge` |
| `PublicApi_proofs` | `AnswersAgreeHolds`, `ResponsesAreFinal`, `OneEffectPerKeyHolds`, `LimitHoldsHolds`, `EffectsBounded`; `ListingsLoseNothing`, `AccessStaysGoverned` | all four properties of `public_api` |
| `WorkflowPlatform_proofs` | `RunsWhatWasRequestedHolds`, `NothingRunsWithinItselfHolds`, `QuotasFollowRunsHolds`; `SchedulesStaySound`, `SlotsStayFinal` | the properties of `composite_action`, and the safety properties of `workflow_schedule` |

### The assumptions

Most are the types of constants. Four say more, and `PlanOK` and `FlowOK` are
what `semantic-validator.ts` accepts: ids are distinct, a flow is a tree over
its steps, a quorum lies within its number of children. `FlowOK` says "tree" as
the principle the proofs use: a set of nodes that holds the steps, and a group
when it holds its children, holds them all. `FoldsOK`, `PassingAssumption` and
`AroundIsDefined` are the defining equations of the recursive functions of the
models (the status and the steps of a node, the nodes that pass when some steps
do, the runs around a run): the prover cannot unfold a recursive function, so
each theorem that needs one rests on its equation, and TLC evaluates the
equation for the constants of every run. `ReadingBounds` and `SomethingIsWritten`
(knowledge) are types: texts are positive numbers and there is one, each page lies
in a space, and the key founders want is not among the spaces there are.
`AuthoringBounds` (policy authoring) says that the ids of changes, of governance's
publications and of the catalog's deployment differ, and that a proposal is for
one of the scopes.

### The interpreter and its runtime

The votes of a state are the subject of `VotesAreLawful`, and nothing in it says
what the next vote may be. The invariant is `IInv`, the conjunction of

1. `Typed` - the state has its type, so that the operators of the interpreter
   can be evaluated at all;
2. `UniqueIn` - no key stands behind two votes, no user behind two on one step,
   and `processed`, the set the code consults, holds exactly the keys of votes;
3. `SeparatedIn` - no user of a scope decided two of its tasks, and none his own
   request's where the plan names him;
4. `Underway` - what a started runtime holds (`Held`): tasks of a serial flow are
   opened in order and only when the earlier ones were earned, a task's status is
   what its votes come to, and the root status agrees with the flow;
5. `Reconciled` - after a call that reconciled the flow, every task it visits and
   left open has enough people left;
6. `Fresh` - before `start` the state is the initial one.

Every operation of the interpreter is shown to make `Progress`: the new tasks
extend the old ones (`Extends`: no task lost, votes and scopes kept, closed stays
closed, new tasks without votes), either directly or after exactly one vote that
`CanVote` admits: on a pending task, by a candidate who has not voted in the
scope, under an unused key. `Progress` alone preserves 2 and 3. For 4 the lemmas
of `ApprovalRuntime_proofs` follow the tree: that a group's status is what its
children's come to is preserved by a vote, an expiry and an activation, and by
tree induction a node the interpreter calls approved passes by votes alone.

### The approval phase

The Workflow and the operator's cancel both work on *copies* of the row.
`ApprovalWorkflow_proofs` says of a copy: it is a state the request was in; as long
as its version is the row's, it is the row; and if it is closed it is the row for
good (`Copy`). The invariant then has a part for the row and the log (`StoreOK`: the
audit events are those of the row's tasks, the folded status is the one the row's
root status stands for, apart from a failure), one for the instance (where it
is, what the step's answer may be, that a row it wrote bears its name), one for
the cancel and one for the commands (an applied one has its key in the row). Every
step is shown to keep it and to be `Onward` for the row and `Follows` for the log;
`ProjectionNeverRegresses` and the refinement are the temporal closure of these
two. Whether an attempt's answer was lost does not matter to any part, which is
why retries cost the proof nothing; that the writer's id tells a retry of its own
write from a competitor's is `WriterOK`.

### The execution

Only what has been *told* so far decides what may be told next, so the invariant
has a clause per phase of the instance (`PhaseOK`), one for what the service was
asked and did (`ServiceOK`), and one for what the log, the result row and the
completion port agree on once an acceptance is stored (`RowOK`, `CallsOK`).

### The relationship journal

`SyncTracksLatest` alone is not inductive: a mark is written to the journal by a
call that read it several steps ago, and a new revision is numbered from the
tuple's row. The invariant adds that revisions are distinct, none is above the
tuple's and the highest is the tuple's (`JournalOK`), and what a call may rely on
after it loaded (`CallsOK`). Every action changes the journal in one of four ways
(a new revision, a status moved under the guard of `Writable`, older open
mutations superseded, or not at all); each keeps `JournalOK` and what the calls of
*other* workers rely on (`Kept`), so that no action is compared with another.
`Serial` adds what holds while no call has overlapped another: the provider is
what the working call left, which gives convergence.

### The MCP invocation

A handler that was overtaken goes on, so at-most-once cannot rest on the lease:
two handlers may commit the same preparation at once. It rests on `ExecutionOK`:
whoever is about to call the executor has put the `action.reauthorized` evidence
into the log, evidence is never taken back, and whoever finds it there stops. A
final answer rests on the tokens (`TokensOK`): at most one handler past the
takeover holds the row's token, and while one does the row is not finished;
`RowOK` keeps the status column and the status inside the JSON, which a takeover
writes back from an older copy, in the same class, so that the two guards that
read one or the other agree. `CallIsHonoured` has two parts. `AnswerIsFounded` holds
whatever the leases do: who says "executed" has a call of the executor behind it, who
names a Task a Workflow. The other, `Honoured`, is what the one handler at work knows,
and holds until `faults.overrun`; section 6 says what becomes of it then. It speaks of
the row's call: one ActionRequest at most, the recorded result as the answer, no
request behind a denial, no call of the executor behind a withdrawal. It does not say
that what was withdrawn runs nowhere: a Workflow it had started may (section 6).

### The public API

`GivenAreStored`: every answer a client was given that is not a passing refusal is
the stored one or an effect that the stored row names. `OwnersOK`: of the calls on
one key, at most one may still write, unless an invocation outlived its lease
(`excused`, see section 6); a takeover's own lease is counted from the clock read it
compared with, which is never ahead of the clock. `WindowsOK`: what a window counted is at least what was
charged to it.

A listing (inbox, relationships, audit) rests on one lemma about pages of a
strictly ordered finite set (`Paging`, `LastExists`): nothing on a page comes after
anything off it, and the last row of a page exists and precedes the rest. The
counting behind it is an induction over cardinalities, done with `LeastNumber` (a
nonempty set of naturals has a least element). `Going` says of a listing under way:
its pages share no row, nothing shown is past the cursor, and what matched all along
was shown or is past the cursor. Only rows that were not written meanwhile are
`steady` and must be shown. A row that is written moves to the place of its stamp,
which need not be a later one: an audit entry never moves, a relationship may move
towards the front, past the cursor, or `back` behind it, and only the latter may be
shown twice. `JournalOK` is for the audit: rows follow their newest mutation
(`RowsFollow`), a mutation that started, was confirmed or failed has its event, which is
what stops a repeated mark from telling it again (`MarksAreTold`), and an event of an
end is of a mutation that ended so (`EventsAreTrue`). From these it follows that the audit tells one story,
although a superseded, failed or doubtful mutation is told of after newer ones were:
requests, attempts and confirmations come by revision, and after its end a revision
has nothing to tell but a drift. `Known` is for the page of one relationship, which
reads the row and its mutations by two queries. `FgaInv` says that a cached token is of its
secret and is not believed to last longer than it does, and who waits has an
exchange. That two organizations' objects differ is proved for the texts of up to two
symbols the model names (`EncodedTells`: what an escaped text begins with tells its
first symbol; `TenantsApart`: the one "/" that is not escaped tells where the
organization ends); that a validated update is governed, for every catalog over the
model's entries.

### Notifications and alerts

`RecordsAreTrue` says that a recipient who was not told is still in sight: the row
is to be dispatched, a message is under way, or the health of the outbox counts the
row or the delivery. The hard state is `dispatched`, which promises nothing by
itself. `Followed` says what it stands for: whoever is not yet settled (told, or with
a failed or skipped delivery) has a message with the queue, a consumer or the dead
letters, also for a cron that has sent the message and not yet marked the row.
`ConsumerOK` says that whoever is not on a consumer's list is settled, so that a
message may only end when everyone is, and that a rejected post, which ends it
early, is of the webhook's one channel. It needs that the list of a set holds all
its members (`ListOf`, by counting), that a settled recipient stays settled (a retry
only replaces a failure by a success or another failure), and that dead letters are
handled after whoever sent the message has marked the row (the guard of `MarkDead`).
`AlertInv` says of every row, stored or held by a cron, that it fires only after its
minutes and is ok exactly when it names no breach. A cron goes by the instant it
started at, which may lag behind the clock. Overlapping crons overwrite each other,
but only with such rows; that the last one stored is the newest is not claimed.

### Composite actions and schedules

`RowsOK`: rows are only ever added, so what a call read of them holds while it
waits; a run is made of the version its request's definition names. `Nested`: a
run's ancestry is the workflows of the runs around it, none of them its own.
`LeasesOK`: a start that nothing disturbed holds, at each of its steps, exactly
the leases it has taken. For schedules, `SweepInv` says what a sweeper that read
a slot before others wrote may still rely on: its plan, if there was one, is the
slot's plan.

### Policy authoring

Two proposals may be approved and executed at once, against the same version of a
scope's rules. `AuthoringInv` says, whatever the rules are: the versions of a scope
run from 1 without a gap, no two rows share a version or a source, and a row is at
its request's base plus one, of a request that was approved (`RecordsOK`); the base
a request was made against is a version there was (`RequestsOK`); only an approved
request has an executor, and one that is about to answer "succeeded" finds its row,
its own or an earlier attempt's (`ExecutorsOK`). A batch that writes a second row of
a version, or of a source, is refused by the table's keys, and the one it may write
is the next in line because its base is the newest. A crash after the batch and
before the answer leaves a row that the next attempt finds by its source.

### The readers of Knowledge

Publishing and reading share no variable, so `ReadersAreServed` has two invariants.
`KnowledgeInv` types the store, the runs and what each call holds of them. `StoreOK`
is the point of it: a committed publication was expected at a version that has
passed, and every one but the shown one at an earlier version than the shown one;
a publication that ended in conflict can no longer be committed (`Settled`); the
search finds some published revision, and the shown one's once its reindexing is
recorded as done. Calls keep copies of runs across steps, so `CallOK` says what of a
copy stays true while others write: the snapshot it is about exists, a commit it saw
done is done, and who is about to record a reindexing as done has the shown revision
found (`FoundIfShown`). Every step of a call is one of a few kinds of change of the
store (`StoreGoesOn`), of the runs or of one call, and each kind is shown once to
keep what the *other* calls rely on.

`ReadingInv` is about requests that read in several statements. The model keeps
for each request the worlds it has met; `AskOK` says that whatever was shown was
allowed in one of them, and that a search still has to do the statement that would
find whatever all of them match. It rests on `ScopeIsAuthorization`: the conditions
in SQL are those of `authorization.ts`, in every case of visibility. The founding
of a space is followed step by step (`FoundingOK`).

`ViewsAreTrue` needs a second invariant of publications, `ViewInv`. A call saves its
own copy of a run over whatever is stored, so it says of every copy, stored or held,
what the task and the outcome of its snapshot allow: a copy that says "rejected" has a
rejected task, one that says "succeeded" a committed snapshot (`CopyTrue`,
`LabelTrue`). The hard part is that two calls may hold copies of one run. `Alone` says
that they do not until the publication was first tried, so that whoever asks for the
approval, or publishes without one, is the only one who can; `StepTrue` says what a
call at each step has seen; `KeysTrue`, that a snapshot has one request and one run;
`TaskTrue`, that a decided task stays what it is and that nobody approves his own
publication; `Untroubled`, that a publication whose request is not attached yet is
still somebody's call, as long as no call has died. The frame is proved once for each
kind of step (`StepSees`, from `Continues`, `Attaches` and `Tends`), and the thirty
actions are shown to be of one of these kinds.

The clause of `OffersWork` on completed runs is stated, and proved, for a store no
call has died in. TLC finds it true without that condition on the instance of
`MCKnowledgePublication`; a proof would need one more invariant, of which effects
the saved copies have recorded, and is left for later.

### Model-checked only

* All liveness, and `ENABLED`: out of the prover's reach (`EveryoneIsAnswered`,
  `EndIsRecorded`, `EveryMutationEnds`, `TasksAreCommitted`, `RunEndsAndIsTold`,
  `EverySlotIsSettled`, `EveryoneIsToldOrCounted`, `EffectsAreAttempted`).
* `RunIsSound` and `DecidedIsFinal` (`WorkflowRun`): the engine settles a run by
  a RECURSIVE operator over the run's graph, in folds over its nodes, and what
  either computes for every graph is an induction over data.
* `ChangesAreApproved` and `PlansFollowTheRules` (policy authoring): they rest on
  what materialization, a recursive function over a policy's tree, computes for
  every policy; `OneWinnerPerVersion` does not.
* What a recursive definition computes for every input: its equation is assumed,
  as said above (`Encoded`, whose texts are bounded, is unrolled instead).

## 5. What is not modelled, and why

`PROJECT.json` gives the reason per component. In short: rendering, routing,
telemetry, the web console and the dashboards decide nothing; expressions are
programs, not states; attachments are checks of one request's data; retention
deletes what has expired; drafts, delegation of authority, the LLM usage ledger
and sandbox slots are left for later.

Inside the modelled parts: in `McpInvocation` and `WorkflowSchedule` `prepare` (policy
evaluation) is a free choice of its outcomes, while `PolicyAuthoring` models it; an
authorization provider answers anything; comments are abstracted to whether they
are acceptable; the backoff of retries is time-free; the order of strings, money
and currencies of conditions are left out; one organisation only, except where
organisations could meet (`FgaAccess`, `PolicyAuthoring`). Smaller ones:

* `ApprovalFlow`: a plan whose flow is `none` is never given to the interpreter (the
  request is executed without an approval), so the flow type is left out. The
  candidates of a fallback are a fixed set, while the code asks again for each vote
  (`approver-resolver.ts:232`, `interpreter/runtime.ts:134`).
* `PublicApi`: what the routes check before they reserve the key (identity, the
  request, the task: `public-http.ts:730-794`) is outside; the properties are about
  the answers of `idempotent()`.
* `NotificationOutbox`: a dead letter is handled after the cron that sent the message
  has marked its row (the guard of `MarkDead`). The code relies on the queue's retries
  taking longer than that.
* `OperatorAlerts`: the announcement after the save (`operations.ts:221-238`).
* `PolicyEvaluation`: a wildcard of an action type stands for whole segments, where
  the code compares prefixes of strings (`policy-evaluator.ts:163`).
* `AuthorizationConsole`: all lists have the model's page size; that of a
  relationship's mutations, 50 in the code, is a constant of its own.

Some hazards are caught only in part, because the code itself does not guard the rest
or the property leaves it out:

| Hazard | What no property says |
|---|---|
| takeover writes back an older record (`mcp-gateway-repository.ts:133`) | after a lease ran out under its handler, only what `AnswerIsFounded` and `OneLastingAnswer` say |
| supersession before the provider is read (`authorization-relationship-coordinator.ts:216`) | what the provider holds after calls that overlapped; `QuietMeansConverged` is about those that did not |
| a second expiry (`interpreter/runtime.ts:362`) | that a closed request's status does not go from rejected to expired: it may |
| a decision delivered again (`interpreter/runtime.ts:159`) | that the repetition is not refused for its own vote; `EverySourceAgrees` speaks of the commands told "applied" |
| a decision nobody waits for (`workflow.ts:790`) | `EveryoneIsAnswered` is about decisions the instance received |
| overlapping crons (`operations.ts:218`) | that the row stored last is the newest evaluation's |
| an effect whose call died (`service.ts:1184`) | `EffectsAreAttempted` is about calls that did not die |
| bindings and policies read one after the other (`governance-repository.ts:469`) | that a plan's versions were in force together; each one was |
| changes of two scopes at once (`application-approval-policy.ts:526`) | that neither compiles the other's old rules |
| completion by a late holder (`public-api-repository.ts:1067`) | how many effects an excused key has |

## 6. Disagreements between code and documentation, and observations

Met while modelling; each was seen as a counterexample or a reachable state of a
model. None is a run of its own.

Approval and execution:

* A second expiry pass over a closed request changes its terminal status
  (`interpreter/runtime.ts:362`, against the design note `part-10.md:38`).
* `recordDecision` evaluates the decision again on every attempt before it looks
  at the stored projection: a step retried after a lost answer tells the sender
  `rejected` although the vote counts (`workflow.ts:368`; the comment at 309 says that a
  rejection is repeated without effect).
* A durable step that exhausts its retries ends the instance without
  `failWorkflow`, so `workflow.failed` is missing and the request stays
  `pending_approval` (`workflow.ts:481`).
* A decision delivered twice and refused for two different reasons contradicts its
  own stored rejection; every attempt fails until the instance is lost
  (`workflow.ts:318`).
* An acceptance whose answers were all lost is followed by `workflow.failed`,
  terminal in the fold, although the run goes on and its result is recorded
  (`workflow.ts:718`). `OutcomeIsTrue` states exactly this exception.
* Two overlapping decisions in the in-memory runtime each start from the state
  before either (`approval-runtime-memory/src/runtime.ts:86`); tests use one call at
  a time, and so does the model.

Relationships, console, FGA:

* Two overlapping mutations of one tuple can end with the newer one confirmed and
  the older one's tuple in the provider (`authorization-relationship-coordinator.ts:186`).
* A batch stamps a row with an instant its caller read before, and nothing compares it
  with the row's: a late batch moves a relationship back, and a reader who has passed
  it is shown it again (`authorization-relationship-store.ts:297`, 349). The events of
  superseded, failed and doubtful mutations come after those of newer revisions
  (374-466), so a reader must go by the revision of an event, not by its place.
* A caller that joins a slow token exchange may get a token older than its own
  request; a token that does not say is assumed to live 300 seconds.

MCP and the public API:

* A Task withdrawn between the start of its Workflow and the update of its row is
  acknowledged as cancelled and runs on (`gateway.ts:834`).
* Resuming a request that was executed re-authorizes first and may record
  `authorization_revoked` over it (`action-request-service.ts:749`).
* An execution interrupted after its evidence was recorded can never be resumed,
  because the new evidence contradicts the stored one (`action-request-service.ts:782`).
* Once a lease ran out under its handler, one call may stand for two requests: `takeOver` writes
  back the record it loaded before its `UPDATE` (`mcp-gateway-repository.ts:133`).
* A 503 after the plan was stored releases the key, and the retry makes a second
  ActionRequest (`public-http.ts:302`, `action-request-service.ts:693`); `complete` and
  `release` do not ask who holds the lease; keys are purged after seven days. The
  keys of such calls are the `excused` ones of `OneEffectPerKey`.

Workflows:

* A cancel may land while an effect is being dispatched; the effect still happens
  (`workflow-application/src/runtime.ts:626`, against `workflow-engine.md:90`).
* `listDue` returns the 50 oldest: rows that fail every time can starve the others
  (`workflow-d1/src/repositories.ts:444`).
* `hasActiveRun` is read before the plan is committed, so two runs of one schedule
  can overlap (`schedule-api.ts:381`).
* A crash between the binding and the catalog entry leaves every later publication
  of the workflow with `workflow_action_binding_conflict`; a publisher that finds it
  "already" there reports success without cataloguing; two publishers can mix the
  binding of one with the type of the other (`workflow-application/src/publishing.ts`).
* Two overlapping starts of one request share its tenant lease, and one that
  undoes its admission frees the other's (`resources.ts:117`); a late second start
  leaves a lease behind until it runs out.

Notifications and alerts:

* `markSkipped` and `markDispatched` of two dispatchers race without a guard
  (`notification-outbox-repository.ts:22`).
* "alert.resolved" is also announced for ok after a breach that never fired; a
  single dead notification makes `outbox_failures_increasing` breach for one
  evaluation only; a crash between the save and the announcement loses the
  announcement; overlapping crons may leave a stored "firing" after announcing ok;
  an unreadable signal counts as ok; an organization whose rows are all quiet is
  not evaluated, and 50 are listed (`operations.ts:218`, 320).

Policies:

* Governance may publish a version of the meta policy that asks nobody, or disable its
  binding (`governance.ts:242-288`), and from then on a change of rules is applied
  without a vote; `docs/application-catalog.md:134` says that an owner other than the
  requester always approves. `ChangesAreApproved` states exactly this exception.
* A change of rules that was evaluated against an older version and is applied
  late can overwrite a newer one of another scope (`application-approval-policy.ts:532`,
  against `docs/application-catalog.md:142`); one that fails half way is retried from
  what it finds.
* A binding that names a policy that is not published blocks every request it
  applies to (`governance-repository.ts:490`); a late binding update overwrites a
  newer one; a force cancel succeeds although its audit failed (`governance.ts:305`).
* A user rule keyed `none` collides with the key the compiler adds.

Knowledge:

* A run decided before it was saved with its child waits for ever; a cancel while
  the approval executes says "cancelled" of what is then published; effects of a
  dead call or a revoked author are never retried; a rejected archive's key
  returns the old run (`src/apps/knowledge/src/ultra-easy/mock/platform.ts`).
* An archived page is readable by its link, while listings require an active one;
  search hits of spaces the reader cannot read use up the limit of 50 before they
  are discarded.

## 7. Plan

Next: delegation of authority, the LLM ledger and the exposure of MCP tools as
further actions of the modules above.
