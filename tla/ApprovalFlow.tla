---------------------------- MODULE ApprovalFlow ----------------------------
(***************************************************************************)
(* The pure approval interpreter of packages/approval-core/src/interpreter *)
(* as operators: a plan p and a runtime state rt go in, the next runtime   *)
(* state comes out.  ApprovalRuntime and ActionWorkflow drive them.        *)
(*                                                                         *)
(* A plan is a record                                                      *)
(*   steps, groups   approval steps and serial/parallel nodes of the flow  *)
(*   root, children  the tree (children: a sequence of nodes per group)    *)
(*   strategy        "serial", "all", "any" or "quorum" of each group      *)
(*   quorum          approvals a "quorum" group needs                      *)
(*   distinct        groups declaring constraints.distinctApprovers        *)
(*   completion      "any", "all" or "quorum" of each step, with required  *)
(*   dynamic         steps whose resolution is dynamic                     *)
(*   self            the user each step excludes as self approval          *)
(*   fallback        users of each step's onUnresolved fallback target     *)
(*   comment         verdicts of each step that require a comment          *)
(*   ttl             expiresAfter of each step, 0 when it has none         *)
(*   answers         what the resolver may list for a step's target        *)
(* and rt is [status, tasks, processed]: tasks is a function on the steps  *)
(* activated so far, processed the set of processedDecisionKeys.           *)
(***************************************************************************)
EXTENDS Integers, FiniteSets, Sequences

CONSTANTS Users,         \* user principals that can appear as approvers
          NoUser,        \* "no self-approval subject"
          DecisionKeys   \* idempotency keys of the decisions

NoScope  == "no scope"
NoExpiry == 0
Closed   == {"approved", "rejected", "expired"}   \* what updateRootStatus closes on
Open     == {"not_started", "pending"}

Verdict  == {"approve", "reject"}

Nodes(p) == p.steps \cup p.groups

Count(x, kids) == Cardinality({i \in DOMAIN kids : kids[i] = x})

FirstNot(x, kids) ==
    CHOOSE i \in DOMAIN kids : kids[i] # x /\ \A j \in 1..(i - 1) : kids[j] = x

(* A quorum node whose undecided children can still supply the quorum. *)
StrictlyReachable(quorum, approvals, pending) == approvals + pending > quorum      \* mutant
Reachable(quorum, approvals, pending) == approvals + pending >= quorum

(***************************************************************************)
(* flowStatus: the status of an inner node from its children's statuses.   *)
(***************************************************************************)
GroupStatus(strategy, quorum, kids) ==
    LET approvals  == Count("approved", kids)
        rejections == Count("rejected", kids)
        expiries   == Count("expired", kids)
        pending    == Count("pending", kids) + Count("not_started", kids)
    IN CASE strategy = "serial" ->
              IF approvals = Len(kids) THEN "approved" ELSE kids[FirstNot("approved", kids)]
         [] strategy = "all" ->
              IF rejections > 0 THEN "rejected"
              ELSE IF expiries > 0 THEN "expired"
              ELSE IF approvals = Len(kids) THEN "approved" ELSE "pending"
         [] strategy = "any" ->
              IF approvals > 0 THEN "approved"
              ELSE IF pending > 0 THEN "pending"
              ELSE IF rejections = Len(kids) THEN "rejected" ELSE "expired"
         [] strategy = "quorum" ->
              IF approvals >= quorum THEN "approved"
              ELSE IF Reachable(quorum, approvals, pending) THEN "pending"
              ELSE IF rejections > 0 THEN "rejected" ELSE "expired"

StepStatus(tasks, s) ==
    IF s \notin DOMAIN tasks THEN "not_started"
    ELSE IF tasks[s].status = "cancelled" THEN "rejected" ELSE tasks[s].status

(* The statuses of the nodes, from those of the steps. *)
StatusOf(p, leaves) ==
    LET status[n \in Nodes(p)] ==
          IF n \in p.steps THEN leaves[n]
          ELSE GroupStatus(p.strategy[n], p.quorum[n],
                           [i \in DOMAIN p.children[n] |-> status[p.children[n][i]]])
    IN status

FlowStatus(p, tasks) == StatusOf(p, [s \in p.steps |-> StepStatus(tasks, s)])

(* The nodes of the subtree under each node. *)
Below(p) ==
    LET below[n \in Nodes(p)] ==
          IF n \in p.steps THEN {n}
          ELSE {n} \cup UNION {below[p.children[n][i]] : i \in DOMAIN p.children[n]}
    IN below

(* effectiveDistinctScopeId: the outermost enclosing distinct node, if any. *)
ScopeOf(p, s) ==
    LET below  == Below(p)
        scopes == {g \in p.distinct : s \in below[g]}
        outer  == {g \in scopes : scopes \subseteq below[g]}
    IN  IF outer = {} THEN NoScope ELSE CHOOSE g \in outer : TRUE

(* semantic-validator.ts: all and quorum completion need a snapshot cohort. *)
PlanOK(p) ==
    /\ p.steps \cap p.groups = {} /\ NoScope \notin p.groups
    /\ p.root \in Nodes(p) /\ p.steps \subseteq Below(p)[p.root]
    /\ p.distinct \subseteq p.groups
    /\ \A s \in p.steps : /\ p.ttl[s] \in Nat
                          /\ p.fallback[s] \subseteq Users
                          /\ p.completion[s] \in {"any", "all", "quorum"}
                          /\ p.completion[s] # "any" => s \notin p.dynamic
    /\ p.answers \subseteq SUBSET Users

(* validateFlow: a node of the flow has an id of its own and children, a     *)
(* quorum lies within their number, and the flow ends at steps: whatever    *)
(* holds of every step, and of a group when it holds of its children, holds *)
(* of every node.                                                           *)
FlowOK(p) ==
    /\ \A g \in p.groups :
         LET kids == p.children[g]
         IN  /\ p.strategy[g] \in {"serial", "all", "any", "quorum"}
             /\ kids \in Seq(Nodes(p)) /\ kids # << >>
             /\ p.strategy[g] = "quorum" => p.quorum[g] \in 1..Len(kids)
             /\ \A i, j \in DOMAIN kids :
                  i # j => Below(p)[kids[i]] \cap Below(p)[kids[j]] = {}
    /\ \A s \in p.steps : p.completion[s] = "quorum" => p.required[s] \in Nat \ {0}
    /\ \A X \in SUBSET Nodes(p) :
         /\ p.steps \subseteq X
         /\ \A g \in p.groups : (\A i \in DOMAIN p.children[g] : p.children[g][i] \in X) => g \in X
         => X = Nodes(p)

StepStatuses == {"not_started", "pending", "approved", "rejected", "expired"}

(* The equations of the recursive functions above, for the proofs, which    *)
(* cannot unfold one.                                                       *)
FoldsOK(p) ==
    /\ \A leaves \in [p.steps -> StepStatuses] : \A n \in Nodes(p) :
         StatusOf(p, leaves)[n] =
           IF n \in p.steps THEN leaves[n]
           ELSE GroupStatus(p.strategy[n], p.quorum[n],
                  [i \in DOMAIN p.children[n] |-> StatusOf(p, leaves)[p.children[n][i]]])
    /\ \A n \in Nodes(p) :
         Below(p)[n] = IF n \in p.steps THEN {n}
                       ELSE {n} \cup UNION {Below(p)[p.children[n][i]] : i \in DOMAIN p.children[n]}

(* ApprovalTaskRuntimeState and ApprovalRuntimeState (interpreter/types.ts). *)
TaskStatuses == {"pending", "approved", "rejected", "expired", "cancelled"}

Tasks(p) == [status: TaskStatuses, candidates: SUBSET Users,
             decisions: SUBSET [key: DecisionKeys, user: Users, verdict: Verdict],
             activatedAt: Nat, expiresAt: Nat,
             scope: p.groups \cup {NoScope}, usedFallback: BOOLEAN]

IsRuntimeState(p, rt) ==
    \E S \in SUBSET p.steps :
       rt \in [status: {"pending", "cancelled"} \cup Closed, tasks: [S -> Tasks(p)],
              processed: SUBSET DecisionKeys]

(* The children activateReadyNode descends into. *)
EveryKid(strategy, kids) == DOMAIN kids                                  \* mutant
VisitedKids(strategy, kids) ==
    IF strategy = "serial" THEN {FirstNot("approved", kids)} ELSE DOMAIN kids

(***************************************************************************)
(* activateReadyNode descends through open nodes; the steps it ends at,    *)
(* stated of each step by the nodes on its path from the root.             *)
(***************************************************************************)
Ready(p, tasks) ==
    LET status == FlowStatus(p, tasks)
        below  == Below(p)
        Descends(g, s) ==
          LET kids == [i \in DOMAIN p.children[g] |-> status[p.children[g][i]]]
          IN  /\ status[g] \in Open
              /\ \E i \in VisitedKids(p.strategy[g], kids) : s \in below[p.children[g][i]]
    IN {s \in p.steps : /\ StepStatus(tasks, s) \in Open
                        /\ \A g \in p.groups : s \in below[g] => Descends(g, s)}

Deciders(task)     == {d.user : d \in task.decisions}
Verdicts(task, v)  == Cardinality({d \in task.decisions : d.verdict = v})

(* usersUsedInDistinctScope; with an own step, usersUsedByOtherTasks. *)
UsedInScope(tasks, scope) ==
    IF scope = NoScope THEN {}
    ELSE UNION {Deciders(tasks[s]) : s \in {t \in DOMAIN tasks : tasks[t].scope = scope}}

UsedByOthers(tasks, scope, step) ==
    IF scope = NoScope THEN {}
    ELSE UNION {Deciders(tasks[s]) :
                  s \in {t \in DOMAIN tasks \ {step} : tasks[t].scope = scope}}

(***************************************************************************)
(* resolveApproverCandidates followed by eligibleFallback: "listed" is     *)
(* what the resolver lists for the step's own target.                      *)
(***************************************************************************)
Resolve(p, s, listed, excluded) ==
    LET fallback == p.fallback[s]
        short(c) == p.completion[s] = "quorum" /\ Cardinality(c) < p.required[s]
        first    == IF listed = {} THEN fallback ELSE listed
        retry    == listed # {} /\ listed \subseteq excluded /\ fallback # {}
        second   == fallback \ excluded
        Answer(kind, c, fb) == [kind |-> kind, users |-> c, usedFallback |-> fb]
    IN  IF first = {} THEN Answer("none", {}, FALSE)
        ELSE IF short(first) \/ (retry /\ short(fallback)) THEN Answer("error", {}, FALSE)
        ELSE IF retry /\ second # {} THEN Answer("found", second, TRUE)
        ELSE Answer("found", first \ excluded, listed = {})

Failed == [failed |-> TRUE]

(* activateStep, the step has no task yet. *)
NewTask(p, tasks, now, s, listed) ==
    LET scope    == ScopeOf(p, s)
        excluded == {p.self[s]} \cup UsedInScope(tasks, scope)
        found    == Resolve(p, s, listed, excluded)
        minimum  == IF p.completion[s] = "quorum" THEN p.required[s] ELSE 1
    IN  IF found.kind # "found" \/ found.users = {} \/ Cardinality(found.users) < minimum
        THEN Failed
        ELSE [failed |-> FALSE,
              task |-> [status |-> "pending", candidates |-> found.users, decisions |-> {},
                        activatedAt |-> now,
                        expiresAt |-> IF p.ttl[s] = 0 THEN NoExpiry ELSE now + p.ttl[s],
                        scope |-> scope, usedFallback |-> found.usedFallback]]

(* requiredApprovalCount. *)
RequiredApprovals(p, s, candidates) ==
    CASE p.completion[s] = "any"    -> 1
      [] p.completion[s] = "all"    -> Cardinality(candidates)
      [] p.completion[s] = "quorum" -> p.required[s]

(* The candidates of a pending task who may still decide it. *)
FreeButUsed(task, fresh, used) == fresh.candidates \ Deciders(task)       \* mutant
Available(task, fresh, used) == fresh.candidates \ (used \cup Deciders(task))

(* reconcilePendingStep, the step's task is pending. *)
ReconciledTask(p, tasks, s, listed) ==
    LET task  == tasks[s]
        used  == UsedByOthers(tasks, ScopeOf(p, s), s)
        found == Resolve(p, s, listed, {p.self[s]} \cup used)
        fresh == IF s \notin p.dynamic THEN task
                 ELSE IF found.kind = "none" THEN [task EXCEPT !.candidates = {}]
                 ELSE [task EXCEPT !.candidates = found.users,
                                   !.usedFallback = found.usedFallback]
        hopeless == Verdicts(task, "approve") + Cardinality(Available(task, fresh, used))
                      < RequiredApprovals(p, s, fresh.candidates)
    IN  IF s \in p.dynamic /\ found.kind = "error" THEN Failed
        ELSE [failed |-> FALSE,
              task |-> IF hopeless THEN [fresh EXCEPT !.status = "rejected"] ELSE fresh]

VisitedTask(p, tasks, now, s, listed) ==
    IF s \in DOMAIN tasks THEN ReconciledTask(p, tasks, s, listed)
                          ELSE NewTask(p, tasks, now, s, listed)

(* Steps whose visit asks the resolver, hence can fail with a provider error. *)
Asked(p, tasks) ==
    {s \in Ready(p, tasks) : s \in p.dynamic \/ s \notin DOMAIN tasks}

(***************************************************************************)
(* activateReadyNode: one failing visit fails the whole activation, whose  *)
(* state is then dropped.  lists[s] is the resolver's answer for step s.   *)
(***************************************************************************)
Activation(p, tasks, now, lists) ==
    LET visited  == Ready(p, tasks)
        visit(s) == VisitedTask(p, tasks, now, s, lists[s])
    IN  IF \E s \in visited : visit(s).failed THEN Failed
        ELSE [failed |-> FALSE,
              tasks |-> [s \in DOMAIN tasks \cup visited |->
                           IF s \in visited THEN visit(s).task ELSE tasks[s]]]

(* updateRootStatus, with cancelPendingTasks when the root closes. *)
KeepPending(tasks) == tasks                                              \* mutant
CancelPending(tasks) ==
    [s \in DOMAIN tasks |->
       IF tasks[s].status = "pending" THEN [tasks[s] EXCEPT !.status = "cancelled"]
                                      ELSE tasks[s]]

ClosesOnAnything(root) == root # "pending"                               \* mutant
ClosesOn(root) == root \in Closed

UpdateRoot(p, rt) ==
    LET root == FlowStatus(p, rt.tasks)[p.root]
    IN  IF ClosesOn(root)
        THEN [rt EXCEPT !.status = root, !.tasks = CancelPending(rt.tasks)]
        ELSE [rt EXCEPT !.status = "pending"]

ActivateAndUpdate(p, rt, now, lists) ==
    LET done == Activation(p, rt.tasks, now, lists)
    IN  IF done.failed THEN Failed
        ELSE [failed |-> FALSE, rt |-> UpdateRoot(p, [rt EXCEPT !.tasks = done.tasks])]

NoTasks      == [s \in {} |-> "no task"]
InitialState == [status |-> "pending", tasks |-> NoTasks, processed |-> {}]

(* startApprovalRuntimeV1. *)
Start(p, now, lists) == ActivateAndUpdate(p, InitialState, now, lists)

(* advanceApprovalRuntimeV1: a closed runtime is returned as it is. *)
Advance(p, rt, now, lists) ==
    IF rt.status # "pending" THEN [failed |-> FALSE, rt |-> rt]
                             ELSE ActivateAndUpdate(p, rt, now, lists)

(* expireApprovalRuntimeV1: no check of the root status. *)
DuePast(task, now) == task.expiresAt # NoExpiry /\ task.expiresAt <= now  \* mutant
IsDue(task, now) ==
    /\ task.status = "pending"
    /\ task.expiresAt # NoExpiry
    /\ task.expiresAt <= now

ExpireTasks(tasks, now) ==
    [s \in DOMAIN tasks |->
       IF IsDue(tasks[s], now) THEN [tasks[s] EXCEPT !.status = "expired"] ELSE tasks[s]]

Expire(p, rt, now, lists) ==
    ActivateAndUpdate(p, [rt EXCEPT !.tasks = ExpireTasks(rt.tasks, now)], now, lists)

(* nextApprovalRuntimeExpiry, NoExpiry when no pending task expires. *)
NextExpiry(rt) ==
    LET times == {rt.tasks[s].expiresAt :
                    s \in {t \in DOMAIN rt.tasks : rt.tasks[t].status = "pending"}} \ {NoExpiry}
    IN  IF times = {} THEN NoExpiry ELSE CHOOSE t \in times : \A u \in times : t <= u

(* cancelApprovalRuntimeState. *)
Cancel(rt) ==
    IF rt.status # "pending" THEN rt
    ELSE [rt EXCEPT !.status = "cancelled", !.tasks = CancelPending(rt.tasks)]

QuorumOfVotes(approvals, decided, required) == decided >= required       \* mutant
QuorumMet(approvals, decided, required) == approvals >= required

(* completionForStep, on the task that just took a decision. *)
TaskCompletion(p, s, task) ==
    LET approvals == Verdicts(task, "approve")
        all       == Cardinality(task.candidates)
        decided   == Cardinality(Deciders(task))
    IN CASE p.completion[s] = "any" ->
              IF approvals > 0 THEN "approved"
              ELSE IF s \notin p.dynamic /\ decided >= all THEN "rejected" ELSE "pending"
         [] p.completion[s] = "all" ->
              IF Verdicts(task, "reject") > 0 THEN "rejected"
              ELSE IF approvals >= all THEN "approved" ELSE "pending"
         [] p.completion[s] = "quorum" ->
              IF QuorumMet(approvals, decided, p.required[s]) THEN "approved"
              ELSE IF approvals + (all - decided) < p.required[s] THEN "rejected" ELSE "pending"

(***************************************************************************)
(* recordApprovalDecisionV1.  A decision d is [key, step, user, verdict,   *)
(* at, bound, commented]: bound says that its fingerprint, if any, is this *)
(* plan's; live is the FGA check made for a dynamic step.                  *)
(***************************************************************************)
IsCandidate(p, task, d, live) ==
    IF d.step \notin p.dynamic THEN d.user \in task.candidates
    ELSE IF task.usedFallback THEN d.user \in p.fallback[d.step] ELSE live

NeverUsed(tasks, task, user) == FALSE                                    \* mutant
UsedBefore(tasks, task, user) == user \in UsedInScope(tasks, task.scope)

(* The code of the first check the decision fails, "none" if it passes all. *)
Refusal(p, rt, d, live) ==
    IF d.step \notin DOMAIN rt.tasks THEN "approval_task_not_found"
    ELSE LET task == rt.tasks[d.step]
         IN  IF task.status # "pending" THEN "approval_task_closed"
             ELSE IF d.at < task.activatedAt THEN "invalid_runtime_timestamp"
             ELSE IF d.user \in Deciders(task) THEN "approval_user_already_decided"
             ELSE IF ~IsCandidate(p, task, d, live) THEN "approval_candidate_rejected"
             ELSE IF d.user = p.self[d.step] THEN "approval_self_approval_denied"
             ELSE IF UsedBefore(rt.tasks, task, d.user) THEN "approval_distinct_approver_violation"
             ELSE IF d.verdict \in p.comment[d.step] /\ ~d.commented THEN "approval_comment_required"
             ELSE "none"

DecidedTask(p, task, d) ==
    LET voted == [task EXCEPT !.candidates = @ \cup {d.user},
                              !.decisions = @ \cup {[key |-> d.key, user |-> d.user,
                                                     verdict |-> d.verdict]}]
    IN  [voted EXCEPT !.status = TaskCompletion(p, d.step, voted)]

Voted(p, tasks, d) == [tasks EXCEPT ![d.step] = DecidedTask(p, @, d)]

NeverProcessed(rt, d) == FALSE                                           \* mutant
AlreadyProcessed(rt, d) == d.key \in rt.processed

Record(p, rt, d, live) ==
    LET reason == Refusal(p, rt, d, live)
        Answer(kind, why, next) == [kind |-> kind, reason |-> why, rt |-> next]
    IN  IF ~d.bound THEN Answer("rejected", "approval_decision_binding_mismatch", rt)
        ELSE IF AlreadyProcessed(rt, d) THEN Answer("duplicate", "none", rt)
        ELSE IF reason # "none" THEN Answer("rejected", reason, rt)
        ELSE Answer("recorded", "none",
                    UpdateRoot(p, [rt EXCEPT !.processed = @ \cup {d.key},
                                             !.tasks = Voted(p, @, d)]))
=============================================================================
