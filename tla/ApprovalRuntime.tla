--------------------------- MODULE ApprovalRuntime ---------------------------
(***************************************************************************)
(* One ActionRequest in InMemoryApprovalRuntime                            *)
(* (packages/approval-runtime-memory/src/runtime.ts): start, decide and    *)
(* advanceTime around the interpreter of ApprovalFlow.  The FGA membership *)
(* behind the resolver changes at any time, so every listing and every     *)
(* check is answered freely within what the plan allows.                   *)
(***************************************************************************)
EXTENDS ApprovalFlow

CONSTANTS Plans,         \* materialized plans
          MaxTime        \* bound of the clock

ASSUME PlansAssumption == \A p \in Plans : PlanOK(p) /\ FlowOK(p) /\ FoldsOK(p)
ASSUME UsersAssumption == NoUser \notin Users /\ IsFiniteSet(Users)
ASSUME MaxTimeAssumption == MaxTime \in Nat

VARIABLES
    plan,      \* RuntimeRecord.plan
    started,   \* whether the runtimes map has a record
    rt,        \* RuntimeRecord.state
    clock,     \* the caller's clock
    outcome    \* result of the last call

vars == <<plan, started, rt, clock, outcome>>

Init ==
    /\ plan \in Plans
    /\ started = FALSE
    /\ rt = InitialState
    /\ clock = 0
    /\ outcome = "none"

Lists(tasks) == [Asked(plan, tasks) -> plan.answers]

(* A provider error of one of the resolver calls the activation makes. *)
ProviderFails(tasks) == Asked(plan, tasks) # {}

StartRuntime ==
    /\ ~started
    /\ \/ \E lists \in Lists(NoTasks) :
            LET begun == Start(plan, clock, lists)
            IN  IF begun.failed
                THEN outcome' = "activation_failed" /\ UNCHANGED <<started, rt>>
                ELSE outcome' = "ok" /\ started' = TRUE /\ rt' = begun.rt
       \/ /\ ProviderFails(NoTasks)
          /\ outcome' = "activation_failed" /\ UNCHANGED <<started, rt>>
    /\ UNCHANGED <<plan, clock>>

(* One event stands for those decided alike: a foreign fingerprint refuses  *)
(* whatever else it says, and a comment only matters where it is required.  *)
DecisionEvents ==
    {d \in [key: DecisionKeys, step: plan.steps, user: Users, verdict: Verdict, at: 0..clock,
            bound: BOOLEAN, commented: BOOLEAN] :
       /\ ~d.bound => d.commented /\ d.at = clock
       /\ ~d.commented => d.verdict \in plan.comment[d.step]}

(* The FGA check is made for a dynamic step only. *)
LiveChecks(d) == IF d.step \in plan.dynamic THEN BOOLEAN ELSE {FALSE}

(* decide: a rejected decision, or one whose FGA check fails, changes       *)
(* nothing; a recorded one is kept even when the activation fails.  Calls   *)
(* on one request do not overlap: the caller awaits each.                   *)
Decide(d) ==
    /\ started
    /\ \E live \in LiveChecks(d) :
         LET recorded == Record(plan, rt, d, live)
         IN  IF recorded.kind = "rejected"
             THEN outcome' = "rejected" /\ UNCHANGED rt
             ELSE \/ \E lists \in Lists(recorded.rt.tasks) :
                       LET next == Advance(plan, recorded.rt, d.at, lists)
                       IN  IF next.failed
                           THEN outcome' = "activation_failed" /\ rt' = recorded.rt
                           ELSE outcome' = recorded.kind /\ rt' = next.rt
                  \/ /\ recorded.rt.status = "pending"
                     /\ ProviderFails(recorded.rt.tasks)
                     /\ outcome' = "activation_failed" /\ rt' = recorded.rt
    /\ UNCHANGED <<plan, started, clock>>

(* advanceTime: expireApprovalRuntime whatever the root status is. *)
AdvanceTime ==
    /\ started
    /\ LET tasks == ExpireTasks(rt.tasks, clock)
       IN  \/ \E lists \in Lists(tasks) :
                LET next == Expire(plan, rt, clock, lists)
                IN  IF next.failed
                    THEN outcome' = "activation_failed" /\ UNCHANGED rt
                    ELSE outcome' = "ok" /\ rt' = next.rt
           \/ /\ ProviderFails(tasks)
              /\ outcome' = "activation_failed" /\ UNCHANGED rt
    /\ UNCHANGED <<plan, started, clock>>

Tick ==
    /\ clock < MaxTime
    /\ clock' = clock + 1
    /\ UNCHANGED <<plan, started, rt, outcome>>

Next ==
    \/ StartRuntime
    \/ \E d \in DecisionEvents : Decide(d)
    \/ AdvanceTime
    \/ Tick

Spec == Init /\ [][Next]_vars

-----------------------------------------------------------------------------
(* The state has the types of ApprovalRuntimeState (interpreter/types.ts).  *)
TypeOK ==
    /\ plan \in Plans
    /\ started \in BOOLEAN
    /\ IsRuntimeState(plan, rt)
    /\ clock \in 0..MaxTime
    /\ outcome \in {"none", "ok", "recorded", "duplicate", "rejected", "activation_failed"}

(* Every vote cast so far, with the step it was cast on. *)
Votes == UNION {{[step |-> s, vote |-> d] : d \in rt.tasks[s].decisions} : s \in DOMAIN rt.tasks}

(* A redelivered decision is applied once: an idempotency key stands behind *)
(* at most one vote of the whole request, a user votes once per task, and   *)
(* exactly the keys behind votes are processed.                             *)
VotesAreUnique ==
    /\ \A v, w \in Votes :
         (v.vote.key = w.vote.key \/ (v.step = w.step /\ v.vote.user = w.vote.user)) => v = w
    /\ rt.processed = {v.vote.key : v \in Votes}

(* Separation of duties: nobody decides two tasks of one distinctApprovers  *)
(* scope, nor a task whose self-approval subject he is.                     *)
DutiesAreSeparated ==
    /\ \A v, w \in Votes :
         /\ v.vote.user = w.vote.user
         /\ rt.tasks[v.step].scope = rt.tasks[w.step].scope
         /\ rt.tasks[v.step].scope # NoScope
         => v.step = w.step
    /\ \A v \in Votes : v.vote.user # plan.self[v.step]

(* A vote counts once and is cast by somebody who may cast it. *)
VotesAreLawful == VotesAreUnique /\ DutiesAreSeparated

(* Reference meaning of an approved flow, from the votes alone. *)
StepEarned(tasks, s) ==
    /\ s \in DOMAIN tasks
    /\ LET yes == {d.user : d \in {e \in tasks[s].decisions : e.verdict = "approve"}}
       IN CASE plan.completion[s] = "any"    -> yes # {}
            [] plan.completion[s] = "all"    -> tasks[s].candidates \subseteq yes
            [] plan.completion[s] = "quorum" -> Cardinality(yes) >= plan.required[s]

GroupPasses(p, n, passing) ==
    LET kids == {i \in DOMAIN p.children[n] : p.children[n][i] \in passing}
    IN CASE p.strategy[n] \in {"serial", "all"} -> kids = DOMAIN p.children[n]
         [] p.strategy[n] = "any"               -> kids # {}
         [] p.strategy[n] = "quorum"            -> Cardinality(kids) >= p.quorum[n]

(* The nodes that pass when exactly the steps in S pass. *)
PassOf(p, S) ==
    LET pass[n \in Nodes(p)] ==
          IF n \in p.steps THEN n \in S
          ELSE GroupPasses(p, n, {p.children[n][i] : i \in {j \in DOMAIN p.children[n] :
                                                              pass[p.children[n][j]]}})
    IN  {n \in Nodes(p) : pass[n]}

ASSUME PassingAssumption ==
    \A p \in Plans : \A S \in SUBSET p.steps : \A n \in Nodes(p) :
       n \in PassOf(p, S) <=> IF n \in p.steps THEN n \in S ELSE GroupPasses(p, n, PassOf(p, S))

Passing(S) == PassOf(plan, S)

(* A request is approved only when the votes themselves satisfy the whole   *)
(* flow: expiry, cancellation or a membership change never approves.        *)
ApprovalIsEarned ==
    rt.status = "approved" =>
        plan.root \in Passing({s \in plan.steps : StepEarned(rt.tasks, s)})

(* A step is opened only after every earlier sibling of an enclosing serial *)
(* node has been approved by votes.                                         *)
SerialOrderKept ==
    LET earned == Passing({s \in plan.steps : StepEarned(rt.tasks, s)})
        below  == Below(plan)
    IN  \A g \in {h \in plan.groups : plan.strategy[h] = "serial"} :
          \A i, j \in DOMAIN plan.children[g] :
            (i < j /\ below[plan.children[g][j]] \cap DOMAIN rt.tasks # {})
              => plan.children[g][i] \in earned

(* Whatever order votes, expiries and activations come in, an approval and  *)
(* every step opened on the way to it are paid for with votes.              *)
ApprovalsAreEarned == ApprovalIsEarned /\ SerialOrderKept

(* Steps that were not refused: approved, undecided, or cancelled when the  *)
(* root closed over them.                                                   *)
Alive == {s \in plan.steps :
            s \in DOMAIN rt.tasks => rt.tasks[s].status \notin {"rejected", "expired"}}

(* The request closes as rejected or expired exactly when approval became   *)
(* unreachable (approved + undecided < k and its analogues), no sooner and  *)
(* no later.                                                                *)
ClosesWhenUnreachable ==
    started => /\ rt.status = "pending" => plan.root \in Passing(Alive)
               /\ rt.status \in {"rejected", "expired"} => plan.root \notin Passing(Alive)

(* After an operation that reconciled the flow, no open task waits for      *)
(* people who can no longer decide it: every pending task the flow still    *)
(* visits has enough eligible candidates left.                              *)
NoHopelessTask ==
    outcome \in {"ok", "recorded", "duplicate"} /\ rt.status = "pending" =>
        \A s \in Ready(plan, rt.tasks) :
          LET task == rt.tasks[s]
              free == task.candidates
                        \ (Deciders(task) \cup UsedByOthers(rt.tasks, ScopeOf(plan, s), s))
              yes  == Verdicts(task, "approve")
          IN  /\ s \in DOMAIN rt.tasks
              /\ yes + Cardinality(free) >= RequiredApprovals(plan, s, task.candidates)

(* Nobody is kept waiting for an answer that can no longer come, neither    *)
(* the requester nor the people asked.                                      *)
NobodyWaitsInVain == ClosesWhenUnreachable /\ NoHopelessTask

(* A closed request takes no vote, opens no task, and is never approved     *)
(* afterwards.                                                              *)
ClosedIsSealed ==
    [][rt.status \in Closed =>
         /\ Votes' = Votes
         /\ DOMAIN rt'.tasks = DOMAIN rt.tasks
         /\ rt'.status \in Closed
         /\ (rt'.status = "approved" <=> rt.status = "approved")]_vars

(* Votes are never withdrawn, and a task once closed keeps its status.      *)
TasksOnlyClose ==
    [][\A s \in DOMAIN rt.tasks :
         /\ s \in DOMAIN rt'.tasks
         /\ rt.tasks[s].decisions \subseteq rt'.tasks[s].decisions
         /\ rt.tasks[s].status # "pending" => rt'.tasks[s].status = rt.tasks[s].status]_vars

=============================================================================
