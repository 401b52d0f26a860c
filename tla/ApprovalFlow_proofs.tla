------------------------ MODULE ApprovalFlow_proofs ------------------------
(***************************************************************************)
(* Facts about the interpreter of ApprovalFlow, for every plan, cohort and *)
(* set of keys.  What an operation may do to the tasks is summarised by    *)
(* relations: Extends (activation, expiry, closing), Progress (one         *)
(* operation), Activated (what each visited task is left with), Settles    *)
(* (closed tasks stay closed).                                             *)
(*                                                                         *)
(* The second half is about flowStatus.  A sound plan is a tree, so facts  *)
(* about its nodes follow by TreeInduction from the meaning of one group   *)
(* (GroupMeaning): a node is approved exactly when the approved steps make *)
(* it pass, and refused exactly when the steps not refused cannot.  Held   *)
(* says what every started runtime keeps: steps are opened in order,       *)
(* approvals are earned, and the root status agrees with the flow.         *)
(***************************************************************************)
EXTENDS ApprovalFlow, FiniteSetTheorems, WellFoundedInduction, TLAPS

(* From tasks to next without a vote: no task disappears or loses a vote,   *)
(* none changes scope, a closed one keeps its status, a new one is empty.   *)
Extends(tasks, next) ==
    /\ DOMAIN tasks \subseteq DOMAIN next
    /\ \A s \in DOMAIN tasks :
         /\ next[s].decisions = tasks[s].decisions
         /\ next[s].scope = tasks[s].scope
         /\ tasks[s].status # "pending" => next[s].status = tasks[s].status
    /\ \A s \in DOMAIN next \ DOMAIN tasks : next[s].decisions = {}

(* The task maps and runtime states of a plan as sets, for the proofs.      *)
TaskMaps(p) == UNION {[S -> Tasks(p)] : S \in SUBSET p.steps}

RuntimeStates(p) == [status: {"pending", "cancelled"} \cup Closed, tasks: TaskMaps(p),
                     processed: SUBSET DecisionKeys]

LEMMA RuntimeStateIsOne ==
    ASSUME NEW p, NEW r \in RuntimeStates(p)
    PROVE  IsRuntimeState(p, r)
  <1>1. PICK S \in SUBSET p.steps : r.tasks \in [S -> Tasks(p)]
    BY DEF RuntimeStates, TaskMaps
  <1>2. r \in [status: {"pending", "cancelled"} \cup Closed, tasks: [S -> Tasks(p)],
              processed: SUBSET DecisionKeys]
    BY <1>1 DEF RuntimeStates
  <1> QED BY <1>2 DEF IsRuntimeState

(* A function of TaskMaps is one on a set of steps, with tasks as values.   *)
LEMMA TaskMapsMembers ==
    ASSUME NEW p, NEW tasks \in TaskMaps(p)
    PROVE  /\ DOMAIN tasks \subseteq p.steps
           /\ tasks \in [DOMAIN tasks -> Tasks(p)]
           /\ \A s \in DOMAIN tasks : tasks[s] \in Tasks(p)
BY DEF TaskMaps

LEMMA TaskMapsIntro ==
    ASSUME NEW p, NEW S \in SUBSET p.steps, NEW tasks \in [S -> Tasks(p)]
    PROVE  tasks \in TaskMaps(p)
BY DEF TaskMaps

LEMMA ExtendsTransitive ==
    ASSUME NEW a, NEW b, NEW c, Extends(a, b), Extends(b, c)
    PROVE  Extends(a, c)
BY DEF Extends

LEMMA ExtendsReflexive == ASSUME NEW a PROVE Extends(a, a)
BY DEF Extends

(* The state before start.                                                  *)
LEMMA InitialStateIsState ==
    ASSUME NEW p
    PROVE  InitialState \in RuntimeStates(p)
  <1>1. NoTasks \in [{} -> Tasks(p)]
    BY DEF NoTasks
  <1>2. NoTasks \in TaskMaps(p)
    BY <1>1, TaskMapsIntro
  <1> QED BY <1>2 DEF InitialState, RuntimeStates

(* ScopeOf, whatever the flow tree looks like, is a node or no scope.       *)
LEMMA ScopeOfType ==
    ASSUME NEW p, PlanOK(p), NEW s
    PROVE  ScopeOf(p, s) \in p.groups \cup {NoScope}
BY DEF ScopeOf, PlanOK

(* Candidates come from the resolver's answer or from the fallback.         *)
LEMMA ResolveType ==
    ASSUME NEW p, PlanOK(p), NEW s \in p.steps, NEW listed \in SUBSET Users, NEW excluded
    PROVE  /\ Resolve(p, s, listed, excluded).users \in SUBSET Users
           /\ Resolve(p, s, listed, excluded).usedFallback \in BOOLEAN
BY DEF Resolve, PlanOK

(* activateStep creates an empty pending task.                              *)
LEMMA NewTaskType ==
    ASSUME NEW p, PlanOK(p), NEW tasks, NEW now \in Nat, NEW s \in p.steps,
           NEW listed \in SUBSET Users, ~NewTask(p, tasks, now, s, listed).failed
    PROVE  /\ NewTask(p, tasks, now, s, listed).task \in Tasks(p)
           /\ NewTask(p, tasks, now, s, listed).task.decisions = {}
  <1> DEFINE found == Resolve(p, s, listed, {p.self[s]} \cup UsedInScope(tasks, ScopeOf(p, s)))
             task == [status |-> "pending", candidates |-> found.users, decisions |-> {},
                      activatedAt |-> now,
                      expiresAt |-> IF p.ttl[s] = 0 THEN NoExpiry ELSE now + p.ttl[s],
                      scope |-> ScopeOf(p, s), usedFallback |-> found.usedFallback]
  <1>1. NewTask(p, tasks, now, s, listed).task = task
    BY DEF NewTask, Failed
  <1>2. found.users \in SUBSET Users /\ found.usedFallback \in BOOLEAN
    BY ResolveType
  <1>3. ScopeOf(p, s) \in p.groups \cup {NoScope}
    BY ScopeOfType
  <1>4. p.ttl[s] \in Nat
    BY DEF PlanOK
  <1>5. (IF p.ttl[s] = 0 THEN NoExpiry ELSE now + p.ttl[s]) \in Nat
    BY <1>4 DEF NoExpiry
  <1> HIDE DEF found
  <1>6. task \in Tasks(p)
    BY <1>2, <1>3, <1>5 DEF Tasks, TaskStatuses
  <1> QED BY <1>1, <1>6

(* reconcilePendingStep keeps the votes and the scope of the task.          *)
LEMMA ReconciledTaskType ==
    ASSUME NEW p, PlanOK(p), NEW tasks, NEW s \in p.steps, NEW listed,
           s \in p.dynamic => listed \in SUBSET Users,
           tasks[s] \in Tasks(p), ~ReconciledTask(p, tasks, s, listed).failed
    PROVE  /\ ReconciledTask(p, tasks, s, listed).task \in Tasks(p)
           /\ ReconciledTask(p, tasks, s, listed).task.decisions = tasks[s].decisions
           /\ ReconciledTask(p, tasks, s, listed).task.scope = tasks[s].scope
  <1> DEFINE used  == UsedByOthers(tasks, ScopeOf(p, s), s)
             found == Resolve(p, s, listed, {p.self[s]} \cup used)
             fresh == IF s \notin p.dynamic THEN tasks[s]
                      ELSE IF found.kind = "none" THEN [tasks[s] EXCEPT !.candidates = {}]
                      ELSE [tasks[s] EXCEPT !.candidates = found.users,
                                            !.usedFallback = found.usedFallback]
  <1>1. \/ ReconciledTask(p, tasks, s, listed).task = fresh
        \/ ReconciledTask(p, tasks, s, listed).task = [fresh EXCEPT !.status = "rejected"]
    BY DEF ReconciledTask, Failed
  <1>2. s \in p.dynamic => found.users \in SUBSET Users /\ found.usedFallback \in BOOLEAN
    BY ResolveType
  <1> HIDE DEF found, used
  <1>3. fresh \in Tasks(p) /\ fresh.decisions = tasks[s].decisions /\ fresh.scope = tasks[s].scope
    BY <1>2 DEF Tasks
  <1> HIDE DEF fresh
  <1>4. /\ [fresh EXCEPT !.status = "rejected"] \in Tasks(p)
        /\ [fresh EXCEPT !.status = "rejected"].decisions = fresh.decisions
        /\ [fresh EXCEPT !.status = "rejected"].scope = fresh.scope
    BY <1>3 DEF Tasks, TaskStatuses
  <1> QED BY <1>1, <1>3, <1>4

(* What the activation may be given: an answer for every step it asks.      *)
LEMMA ActivationExtends ==
    ASSUME NEW p, PlanOK(p), NEW tasks \in TaskMaps(p), NEW now \in Nat,
           NEW lists, \A s \in Asked(p, tasks) : lists[s] \in SUBSET Users,
           ~Activation(p, tasks, now, lists).failed
    PROVE  /\ Activation(p, tasks, now, lists).tasks \in TaskMaps(p)
           /\ Extends(tasks, Activation(p, tasks, now, lists).tasks)
  <1> DEFINE visited == Ready(p, tasks)
             Visit(s) == VisitedTask(p, tasks, now, s, lists[s])
             next == [s \in DOMAIN tasks \cup visited |->
                        IF s \in visited THEN Visit(s).task ELSE tasks[s]]
  <1>1. /\ Activation(p, tasks, now, lists).tasks = next
        /\ \A s \in visited : ~Visit(s).failed
    BY DEF Activation, Failed
  <1>2. /\ DOMAIN tasks \subseteq p.steps
        /\ \A s \in DOMAIN tasks : tasks[s] \in Tasks(p)
    BY TaskMapsMembers
  <1>3. visited \subseteq p.steps
    BY DEF Ready
  <1>4. ASSUME NEW s \in visited, s \notin DOMAIN tasks
        PROVE  Visit(s).task \in Tasks(p) /\ Visit(s).task.decisions = {}
    <2>1. lists[s] \in SUBSET Users
      BY <1>4 DEF Asked
    <2>2. Visit(s) = NewTask(p, tasks, now, s, lists[s])
      BY <1>4 DEF VisitedTask
    <2> QED BY <1>1, <1>3, <2>1, <2>2, NewTaskType
  <1>5. ASSUME NEW s \in visited, s \in DOMAIN tasks
        PROVE  /\ Visit(s).task \in Tasks(p)
               /\ Visit(s).task.decisions = tasks[s].decisions
               /\ Visit(s).task.scope = tasks[s].scope
               /\ tasks[s].status = "pending"
    <2>1. s \in p.dynamic => lists[s] \in SUBSET Users
      BY <1>5 DEF Asked
    <2>2. Visit(s) = ReconciledTask(p, tasks, s, lists[s])
      BY <1>5 DEF VisitedTask
    <2>3. tasks[s].status = "pending"
      <3>1. StepStatus(tasks, s) \in Open
        BY DEF Ready
      <3>2. tasks[s].status \in TaskStatuses
        BY <1>2, <1>5 DEF Tasks
      <3> QED BY <1>5, <3>1, <3>2 DEF StepStatus, Open, TaskStatuses
    <2> QED BY <1>1, <1>2, <1>3, <1>5, <2>1, <2>2, <2>3, ReconciledTaskType
  <1> HIDE DEF visited, Visit
  <1>6. next \in [DOMAIN tasks \cup visited -> Tasks(p)]
    BY <1>2, <1>4, <1>5
  <1>7. next \in TaskMaps(p)
    BY <1>2, <1>3, <1>6, TaskMapsIntro
  <1>8. Extends(tasks, next)
    BY <1>4, <1>5 DEF Extends
  <1> QED BY <1>1, <1>7, <1>8

(* cancelPendingTasks.                                                      *)
LEMMA CancelPendingExtends ==
    ASSUME NEW p, NEW tasks \in TaskMaps(p)
    PROVE  CancelPending(tasks) \in TaskMaps(p) /\ Extends(tasks, CancelPending(tasks))
  <1>1. \A s \in DOMAIN tasks : tasks[s] \in Tasks(p)
    BY TaskMapsMembers
  <1>2. \A s \in DOMAIN tasks : [tasks[s] EXCEPT !.status = "cancelled"] \in Tasks(p)
    BY <1>1 DEF Tasks, TaskStatuses
  <1>3. CancelPending(tasks) \in [DOMAIN tasks -> Tasks(p)]
    BY <1>1, <1>2 DEF CancelPending
  <1>4. Extends(tasks, CancelPending(tasks))
    BY <1>1 DEF Extends, CancelPending, Tasks
  <1> QED BY <1>3, <1>4, TaskMapsMembers, TaskMapsIntro

(* The loop of expireApprovalRuntimeV1.                                     *)
LEMMA ExpireTasksExtends ==
    ASSUME NEW p, NEW tasks \in TaskMaps(p), NEW now
    PROVE  ExpireTasks(tasks, now) \in TaskMaps(p) /\ Extends(tasks, ExpireTasks(tasks, now))
  <1>1. \A s \in DOMAIN tasks : tasks[s] \in Tasks(p)
    BY TaskMapsMembers
  <1>2. \A s \in DOMAIN tasks : [tasks[s] EXCEPT !.status = "expired"] \in Tasks(p)
    BY <1>1 DEF Tasks, TaskStatuses
  <1>3. ExpireTasks(tasks, now) \in [DOMAIN tasks -> Tasks(p)]
    BY <1>1, <1>2 DEF ExpireTasks
  <1>4. Extends(tasks, ExpireTasks(tasks, now))
    BY <1>1 DEF Extends, ExpireTasks, IsDue, Tasks
  <1> QED BY <1>3, <1>4, TaskMapsMembers, TaskMapsIntro

(* updateRootStatus.                                                        *)
LEMMA UpdateRootExtends ==
    ASSUME NEW p, NEW r \in RuntimeStates(p)
    PROVE  /\ UpdateRoot(p, r) \in RuntimeStates(p)
           /\ UpdateRoot(p, r).processed = r.processed
           /\ Extends(r.tasks, UpdateRoot(p, r).tasks)
  <1> DEFINE root == FlowStatus(p, r.tasks)[p.root]
  <1>1. r.tasks \in TaskMaps(p)
    BY DEF RuntimeStates
  <1>2. CancelPending(r.tasks) \in TaskMaps(p) /\ Extends(r.tasks, CancelPending(r.tasks))
    BY <1>1, CancelPendingExtends
  <1>3. CASE ClosesOn(root)
    <2>1. UpdateRoot(p, r) = [r EXCEPT !.status = root, !.tasks = CancelPending(r.tasks)]
      BY <1>3 DEF UpdateRoot
    <2>2. root \in Closed
      BY <1>3 DEF ClosesOn
    <2> HIDE DEF root
    <2> QED BY <1>2, <2>1, <2>2 DEF RuntimeStates
  <1>4. CASE ~ClosesOn(root)
    <2>1. UpdateRoot(p, r) = [r EXCEPT !.status = "pending"]
      BY <1>4 DEF UpdateRoot
    <2> QED BY <2>1, ExtendsReflexive DEF RuntimeStates
  <1> QED BY <1>3, <1>4

(* Activation followed by updateRootStatus: start, advance and expire.      *)
LEMMA ActivateAndUpdateExtends ==
    ASSUME NEW p, PlanOK(p), NEW r \in RuntimeStates(p), NEW now \in Nat,
           NEW lists, \A s \in Asked(p, r.tasks) : lists[s] \in SUBSET Users,
           ~ActivateAndUpdate(p, r, now, lists).failed
    PROVE  LET next == ActivateAndUpdate(p, r, now, lists).rt
           IN  /\ next \in RuntimeStates(p)
               /\ next.processed = r.processed
               /\ Extends(r.tasks, next.tasks)
  <1> DEFINE done == Activation(p, r.tasks, now, lists)
             mid  == [r EXCEPT !.tasks = done.tasks]
  <1>1. ~done.failed /\ ActivateAndUpdate(p, r, now, lists).rt = UpdateRoot(p, mid)
    BY DEF ActivateAndUpdate, Failed
  <1>2. r.tasks \in TaskMaps(p)
    BY DEF RuntimeStates
  <1>3. done.tasks \in TaskMaps(p) /\ Extends(r.tasks, done.tasks)
    BY <1>1, <1>2, ActivationExtends
  <1> HIDE DEF done
  <1>4. mid \in RuntimeStates(p) /\ mid.tasks = done.tasks /\ mid.processed = r.processed
    BY <1>3 DEF RuntimeStates
  <1> HIDE DEF mid
  <1> QED BY <1>1, <1>3, <1>4, UpdateRootExtends, ExtendsTransitive

-----------------------------------------------------------------------------
(* Decision events as they reach recordApprovalDecision.                    *)
EventsOf(p) == [key: DecisionKeys, step: p.steps, user: Users, verdict: Verdict,
                at: Nat, bound: BOOLEAN, commented: BOOLEAN]

CanVote(p, r, d) ==
    /\ d.key \notin r.processed
    /\ d.step \in DOMAIN r.tasks
    /\ r.tasks[d.step].status = "pending"
    /\ d.user \notin Deciders(r.tasks[d.step])
    /\ d.user # p.self[d.step]
    /\ d.user \notin UsedInScope(r.tasks, r.tasks[d.step].scope)

(* What one operation of the interpreter may do to a runtime state.         *)
Progress(p, r, next) ==
    \/ Extends(r.tasks, next.tasks) /\ next.processed = r.processed
    \/ \E d \in EventsOf(p) :
         /\ CanVote(p, r, d)
         /\ Extends(Voted(p, r.tasks, d), next.tasks)
         /\ next.processed = r.processed \cup {d.key}

LEMMA DecidedTaskType ==
    ASSUME NEW p, PlanOK(p), NEW d \in EventsOf(p), NEW task \in Tasks(p)
    PROVE  /\ DecidedTask(p, task, d) \in Tasks(p)
           /\ DecidedTask(p, task, d).scope = task.scope
           /\ DecidedTask(p, task, d).decisions
                = task.decisions \cup {[key |-> d.key, user |-> d.user, verdict |-> d.verdict]}
  <1> DEFINE voted == [task EXCEPT !.candidates = @ \cup {d.user},
                                   !.decisions = @ \cup {[key |-> d.key, user |-> d.user,
                                                          verdict |-> d.verdict]}]
  <1>1. voted \in Tasks(p)
    <2>1. [key |-> d.key, user |-> d.user, verdict |-> d.verdict]
            \in [key: DecisionKeys, user: Users, verdict: Verdict]
      BY DEF EventsOf
    <2>2. d.user \in Users
      BY DEF EventsOf
    <2> QED BY <2>1, <2>2 DEF Tasks
  <1>2. TaskCompletion(p, d.step, voted) \in TaskStatuses
    BY DEF TaskCompletion, TaskStatuses, PlanOK, EventsOf
  <1>3. DecidedTask(p, task, d) = [voted EXCEPT !.status = TaskCompletion(p, d.step, voted)]
    BY DEF DecidedTask
  <1>4. /\ voted.scope = task.scope
        /\ voted.decisions
             = task.decisions \cup {[key |-> d.key, user |-> d.user, verdict |-> d.verdict]}
    BY DEF Tasks
  <1> HIDE DEF voted
  <1> QED BY <1>1, <1>2, <1>3, <1>4 DEF Tasks

(* recordApprovalDecision adds one vote, then updates the root.             *)
LEMMA RecordProgress ==
    ASSUME NEW p, PlanOK(p), NEW r \in RuntimeStates(p), NEW d \in EventsOf(p), NEW live
    PROVE  LET next == Record(p, r, d, live).rt
           IN  /\ next \in RuntimeStates(p)
               /\ Progress(p, r, next)
               /\ Record(p, r, d, live).kind # "rejected" => d.key \in next.processed
  <1> DEFINE mid == [r EXCEPT !.processed = @ \cup {d.key},
                              !.tasks = Voted(p, @, d)]
  <1>1. CASE Record(p, r, d, live).kind # "recorded"
    BY <1>1, ExtendsReflexive DEF Progress, Record, AlreadyProcessed
  <1>2. CASE Record(p, r, d, live).kind = "recorded"
    <2>1. /\ Refusal(p, r, d, live) = "none" /\ ~AlreadyProcessed(r, d)
          /\ Record(p, r, d, live).rt = UpdateRoot(p, mid)
      BY <1>2 DEF Record
    <2>2. CanVote(p, r, d)
      BY <2>1 DEF Refusal, UsedBefore, AlreadyProcessed, CanVote
    <2>3. r.tasks \in TaskMaps(p) /\ d.step \in DOMAIN r.tasks
      BY <2>2 DEF RuntimeStates, CanVote
    <2>4. DecidedTask(p, r.tasks[d.step], d) \in Tasks(p)
      BY <2>3, TaskMapsMembers, DecidedTaskType
    <2>5. Voted(p, r.tasks, d) \in [DOMAIN r.tasks -> Tasks(p)]
      BY <2>3, <2>4, TaskMapsMembers DEF Voted
    <2>6. Voted(p, r.tasks, d) \in TaskMaps(p)
      BY <2>3, <2>5, TaskMapsMembers, TaskMapsIntro
    <2>7. mid.tasks = Voted(p, r.tasks, d) /\ mid.processed = r.processed \cup {d.key}
      BY DEF RuntimeStates
    <2>8. mid \in RuntimeStates(p)
      BY <2>6 DEF RuntimeStates, EventsOf
    <2> HIDE DEF mid
    <2>9. /\ UpdateRoot(p, mid) \in RuntimeStates(p)
          /\ UpdateRoot(p, mid).processed = r.processed \cup {d.key}
          /\ Extends(Voted(p, r.tasks, d), UpdateRoot(p, mid).tasks)
      BY <2>7, <2>8, UpdateRootExtends
    <2> QED BY <2>1, <2>2, <2>9 DEF Progress
  <1> QED BY <1>1, <1>2

(* An expiry pass is no vote.                                               *)
LEMMA ExpireProgress ==
    ASSUME NEW p, PlanOK(p), NEW r \in RuntimeStates(p), NEW now \in Nat,
           NEW lists, \A s \in Asked(p, ExpireTasks(r.tasks, now)) : lists[s] \in SUBSET Users,
           ~Expire(p, r, now, lists).failed
    PROVE  LET next == Expire(p, r, now, lists).rt
           IN  next \in RuntimeStates(p) /\ Progress(p, r, next)
  <1> DEFINE tasks == ExpireTasks(r.tasks, now)
             mid   == [r EXCEPT !.tasks = ExpireTasks(r.tasks, now)]
  <1>1. r.tasks \in TaskMaps(p)
    BY DEF RuntimeStates
  <1>2. tasks \in TaskMaps(p) /\ Extends(r.tasks, tasks)
    BY <1>1, ExpireTasksExtends
  <1>3. mid \in RuntimeStates(p) /\ mid.tasks = tasks /\ mid.processed = r.processed
    BY <1>2 DEF RuntimeStates
  <1>4. Expire(p, r, now, lists) = ActivateAndUpdate(p, mid, now, lists)
    BY DEF Expire
  <1> HIDE DEF mid
  <1> QED BY <1>2, <1>3, <1>4, ActivateAndUpdateExtends, ExtendsTransitive DEF Progress

(* A vote followed by an activation is still one vote.                      *)
LEMMA ProgressThenExtends ==
    ASSUME NEW p, NEW r, NEW mid, NEW next, Progress(p, r, mid),
           Extends(mid.tasks, next.tasks), next.processed = mid.processed
    PROVE  Progress(p, r, next)
BY ExtendsTransitive DEF Progress

-----------------------------------------------------------------------------
(* The votes of tasks are unique, and processed holds exactly their keys.   *)
UniqueIn(tasks, processed) ==
    /\ \A s, t \in DOMAIN tasks : \A d \in tasks[s].decisions, e \in tasks[t].decisions :
         (d.key = e.key \/ (s = t /\ d.user = e.user)) => s = t /\ d = e
    /\ \A s \in DOMAIN tasks : \A d \in tasks[s].decisions : d.key \in processed
    /\ \A k \in processed : \E s \in DOMAIN tasks : \E d \in tasks[s].decisions : d.key = k

(* Nobody decides two tasks of a scope, nor on his own behalf.              *)
SeparatedIn(p, tasks) ==
    /\ \A s, t \in DOMAIN tasks : \A d \in tasks[s].decisions, e \in tasks[t].decisions :
         d.user = e.user /\ tasks[s].scope = tasks[t].scope /\ tasks[s].scope # NoScope
           => s = t
    /\ \A s \in DOMAIN tasks : \A d \in tasks[s].decisions : d.user # p.self[s]

LEMMA ExtendsKeepsVotes ==
    ASSUME NEW tasks, NEW next, NEW processed, NEW p, Extends(tasks, next)
    PROVE  /\ UniqueIn(tasks, processed) => UniqueIn(next, processed)
           /\ SeparatedIn(p, tasks) => SeparatedIn(p, next)
  <1>1. \A s \in DOMAIN next : \A d \in next[s].decisions :
           /\ s \in DOMAIN tasks /\ d \in tasks[s].decisions
           /\ next[s].scope = tasks[s].scope
    BY DEF Extends
  <1>2. \A s \in DOMAIN tasks : s \in DOMAIN next /\ next[s].decisions = tasks[s].decisions
    BY DEF Extends
  <1>3. UniqueIn(tasks, processed) => UniqueIn(next, processed)
    BY <1>1, <1>2 DEF UniqueIn
  <1>4. SeparatedIn(p, tasks) => SeparatedIn(p, next)
    BY <1>1 DEF SeparatedIn
  <1> QED BY <1>3, <1>4

LEMMA VotedKeepsVotes ==
    ASSUME NEW p, PlanOK(p), NEW r \in RuntimeStates(p), NEW d \in EventsOf(p),
           CanVote(p, r, d), UniqueIn(r.tasks, r.processed), SeparatedIn(p, r.tasks)
    PROVE  /\ UniqueIn(Voted(p, r.tasks, d), r.processed \cup {d.key})
           /\ SeparatedIn(p, Voted(p, r.tasks, d))
  <1> DEFINE vote == [key |-> d.key, user |-> d.user, verdict |-> d.verdict]
             next == Voted(p, r.tasks, d)
             old  == r.tasks
  <1>1. d.step \in DOMAIN old /\ old[d.step] \in Tasks(p) /\ DOMAIN next = DOMAIN old
    BY TaskMapsMembers DEF RuntimeStates, CanVote, Voted
  <1>2. /\ next[d.step].scope = old[d.step].scope
        /\ next[d.step].decisions = old[d.step].decisions \cup {vote}
    BY <1>1, DecidedTaskType DEF Voted
  <1>3. \A s \in DOMAIN old : s # d.step => next[s] = old[s]
    BY DEF Voted
  <1>4. vote.key = d.key /\ vote.user = d.user
    OBVIOUS
  <1>5. \A s \in DOMAIN old : \A e \in old[s].decisions : e.key # d.key
    BY DEF UniqueIn, CanVote
  <1>6. \A e \in old[d.step].decisions : e.user # d.user
    BY DEF CanVote, Deciders
  <1>7. d.user # p.self[d.step]
    BY DEF CanVote
  <1>8. \A s \in DOMAIN old : \A e \in old[s].decisions :
          old[s].scope = old[d.step].scope /\ old[s].scope # NoScope => e.user # d.user
    BY DEF CanVote, UsedInScope, Deciders
  <1> HIDE DEF next, vote
  <1>9. UniqueIn(next, r.processed \cup {d.key})
    <2>1. ASSUME NEW s \in DOMAIN next, NEW t \in DOMAIN next,
                 NEW e \in next[s].decisions, NEW f \in next[t].decisions,
                 e.key = f.key \/ (s = t /\ e.user = f.user)
          PROVE  s = t /\ e = f
      <3>1. CASE e \in old[s].decisions /\ f \in old[t].decisions
        BY <1>1, <2>1, <3>1 DEF UniqueIn
      <3>2. CASE e \notin old[s].decisions \/ f \notin old[t].decisions
        BY <1>1, <1>2, <1>3, <1>4, <1>5, <1>6, <2>1, <3>2
      <3> QED BY <3>1, <3>2
    <2>2. \A s \in DOMAIN next : \A e \in next[s].decisions : e.key \in r.processed \cup {d.key}
      BY <1>1, <1>2, <1>3, <1>4 DEF UniqueIn
    <2>3. \A k \in r.processed \cup {d.key} :
            \E s \in DOMAIN next : \E e \in next[s].decisions : e.key = k
      BY <1>1, <1>2, <1>3, <1>4 DEF UniqueIn
    <2> QED BY <2>1, <2>2, <2>3 DEF UniqueIn
  <1>10. SeparatedIn(p, next)
    BY <1>1, <1>2, <1>3, <1>4, <1>7, <1>8 DEF SeparatedIn
  <1> QED BY <1>9, <1>10 DEF next

(* One operation keeps the votes unique and the duties separated.           *)
LEMMA ProgressKeepsVotes ==
    ASSUME NEW p, PlanOK(p), NEW r \in RuntimeStates(p), NEW next, Progress(p, r, next),
           UniqueIn(r.tasks, r.processed), SeparatedIn(p, r.tasks)
    PROVE  UniqueIn(next.tasks, next.processed) /\ SeparatedIn(p, next.tasks)
BY ExtendsKeepsVotes, VotedKeepsVotes DEF Progress
-----------------------------------------------------------------------------
(* A non-empty set of numbers has a least one.                              *)
(* A step of the interpreter loses nothing, and what it adds is new.        *)
LEMMA ProgressGrows ==
    ASSUME NEW p, PlanOK(p), NEW r \in RuntimeStates(p), NEW next, Progress(p, r, next)
    PROVE  /\ DOMAIN r.tasks \subseteq DOMAIN next.tasks
           /\ \A s \in DOMAIN r.tasks :
                /\ r.tasks[s].decisions \subseteq next.tasks[s].decisions
                /\ r.tasks[s].status # "pending" => next.tasks[s].status = r.tasks[s].status
           /\ \A s \in DOMAIN next.tasks : \A d \in next.tasks[s].decisions :
                \/ s \in DOMAIN r.tasks /\ d \in r.tasks[s].decisions
                \/ d.key \notin r.processed
           /\ r.processed \subseteq next.processed
  <1>1. CASE Extends(r.tasks, next.tasks) /\ next.processed = r.processed
    BY <1>1 DEF Extends
  <1>2. ASSUME NEW d \in EventsOf(p), CanVote(p, r, d), Extends(Voted(p, r.tasks, d), next.tasks),
               next.processed = r.processed \cup {d.key}
        PROVE  /\ DOMAIN r.tasks \subseteq DOMAIN next.tasks
               /\ \A s \in DOMAIN r.tasks :
                    /\ r.tasks[s].decisions \subseteq next.tasks[s].decisions
                    /\ r.tasks[s].status # "pending" => next.tasks[s].status = r.tasks[s].status
               /\ \A s \in DOMAIN next.tasks : \A e \in next.tasks[s].decisions :
                    \/ s \in DOMAIN r.tasks /\ e \in r.tasks[s].decisions
                    \/ e.key \notin r.processed
               /\ r.processed \subseteq next.processed
    <2> DEFINE vote == [key |-> d.key, user |-> d.user, verdict |-> d.verdict]
    <2>1. r.tasks[d.step] \in Tasks(p)
      BY <1>2, TaskMapsMembers DEF CanVote, RuntimeStates
    <2>2. DecidedTask(p, r.tasks[d.step], d).decisions = r.tasks[d.step].decisions \cup {vote}
      BY <2>1, DecidedTaskType
    <2>3. vote.key \notin r.processed
      BY <1>2 DEF CanVote
    <2> HIDE DEF vote
    <2> QED BY <1>2, <2>2, <2>3 DEF Extends, Voted, CanVote
  <1> QED BY <1>1, <1>2 DEF Progress

LEMMA LeastNumber ==
    ASSUME NEW T \in SUBSET Nat, T # {}
    PROVE  \E x \in T : \A y \in T : x <= y
  <1>1. PICK x \in T : \A y \in T : ~(<<y, x>> \in OpToRel(<, Nat))
    BY NatLessThanWellFounded, WFMin
  <1>2. \A y \in T : <<y, x>> \in OpToRel(<, Nat) <=> y < x
    BY DEF OpToRel
  <1>3. ASSUME NEW y \in T PROVE x <= y
    <2>1. x \in Nat /\ y \in Nat /\ ~(y < x)
      BY <1>1, <1>2
    <2> QED BY <2>1
  <1> QED BY <1>3

Bad == {"rejected", "expired"}

(* What makes a group pass when the children in "good" do.                  *)
PassedBy(strategy, quorum, all, good) ==
    CASE strategy \in {"serial", "all"} -> good = all
      [] strategy = "any"               -> good # {}
      [] strategy = "quorum"            -> Cardinality(good) >= quorum

(* The children before the first that is not x are x, and it is the only    *)
(* child with that.                                                         *)
LEMMA FirstNotIs ==
    ASSUME NEW S, NEW kids \in Seq(S), NEW x, \E i \in DOMAIN kids : kids[i] # x
    PROVE  /\ FirstNot(x, kids) \in DOMAIN kids
           /\ kids[FirstNot(x, kids)] # x
           /\ \A j \in 1..(FirstNot(x, kids) - 1) : kids[j] = x
  <1> DEFINE others == {i \in DOMAIN kids : kids[i] # x}
  <1>1. others \in SUBSET Nat /\ others # {} /\ DOMAIN kids = 1..Len(kids) /\ Len(kids) \in Nat
    OBVIOUS
  <1>2. PICK i \in others : \A j \in others : i <= j
    BY <1>1, LeastNumber
  <1>3. \A j \in 1..(i - 1) : kids[j] = x
    <2> SUFFICES ASSUME NEW j \in 1..(i - 1), kids[j] # x PROVE FALSE
      OBVIOUS
    <2>1. i \in 1..Len(kids)
      BY <1>1, <1>2
    <2>2. j \in 1..Len(kids) /\ j < i
      BY <1>1, <2>1
    <2> QED BY <1>1, <1>2, <2>1, <2>2
  <1>4. \E k \in DOMAIN kids : kids[k] # x /\ \A j \in 1..(k - 1) : kids[j] = x
    BY <1>2, <1>3
  <1> QED BY <1>4 DEF FirstNot

LEMMA FirstNotUnique ==
    ASSUME NEW S, NEW kids \in Seq(S), NEW x, NEW i \in DOMAIN kids,
           kids[i] # x, \A j \in 1..(i - 1) : kids[j] = x
    PROVE  FirstNot(x, kids) = i
  <1> DEFINE k == FirstNot(x, kids)
  <1>1. k \in DOMAIN kids /\ kids[k] # x /\ \A j \in 1..(k - 1) : kids[j] = x
    BY FirstNotIs
  <1>2. DOMAIN kids = 1..Len(kids) /\ Len(kids) \in Nat
    OBVIOUS
  <1> HIDE DEF k
  <1>3. ~(k < i) /\ ~(i < k)
    BY <1>1, <1>2
  <1> QED BY <1>1, <1>2, <1>3 DEF k

(* Sets of positions in a sequence of children.                             *)
LEMMA PositionsFinite ==
    ASSUME NEW S, NEW kids \in Seq(S), NEW T \in SUBSET DOMAIN kids
    PROVE  /\ IsFiniteSet(T) /\ Cardinality(T) \in 0..Len(kids)
           /\ Cardinality(T) = Len(kids) <=> T = DOMAIN kids
           /\ Cardinality(T) = 0 <=> T = {}
  <1>1. DOMAIN kids = 1..Len(kids) /\ Len(kids) \in Nat
    OBVIOUS
  <1>2. IsFiniteSet(DOMAIN kids) /\ Cardinality(DOMAIN kids) = Len(kids)
    <2>1. /\ IsFiniteSet(1..Len(kids))
          /\ Cardinality(1..Len(kids)) = IF 1 > Len(kids) THEN 0 ELSE Len(kids) - 1 + 1
      BY <1>1, FS_Interval
    <2> QED BY <1>1, <2>1
  <1>3. /\ IsFiniteSet(T) /\ Cardinality(T) <= Len(kids)
        /\ Cardinality(T) = Len(kids) => T = DOMAIN kids
    BY <1>2, FS_Subset
  <1>4. Cardinality(T) \in Nat
    BY <1>3, FS_CardinalityType
  <1>5. Cardinality(T) = 0 <=> T = {}
    BY <1>3, FS_EmptySet
  <1> QED BY <1>1, <1>2, <1>3, <1>4, <1>5

LEMMA PositionsMonotone ==
    ASSUME NEW S, NEW kids \in Seq(S), NEW U \in SUBSET DOMAIN kids, NEW T \in SUBSET U
    PROVE  Cardinality(T) <= Cardinality(U)
  <1>1. IsFiniteSet(U)
    BY PositionsFinite
  <1> QED BY <1>1, FS_Subset

LEMMA PassedByMonotone ==
    ASSUME NEW all, IsFiniteSet(all), NEW better \in SUBSET all, NEW good \in SUBSET better,
           NEW strategy \in {"serial", "all", "any", "quorum"}, NEW quorum,
           strategy = "quorum" => quorum \in Nat,
           PassedBy(strategy, quorum, all, good)
    PROVE  PassedBy(strategy, quorum, all, better)
  <1>1. IsFiniteSet(better)
    BY FS_Subset
  <1>2. IsFiniteSet(good) /\ Cardinality(good) <= Cardinality(better)
    BY <1>1, FS_Subset
  <1>3. Cardinality(good) \in Nat /\ Cardinality(better) \in Nat
    BY <1>1, <1>2, FS_CardinalityType
  <1>4. CASE strategy = "quorum"
    BY <1>2, <1>3, <1>4 DEF PassedBy
  <1>5. CASE strategy = "any"
    BY <1>5 DEF PassedBy
  <1>6. CASE strategy \in {"serial", "all"}
    <2>1. good = all
      BY <1>6 DEF PassedBy
    <2>2. better = all
      BY <2>1
    <2> QED BY <1>6, <2>2 DEF PassedBy
  <1> QED BY <1>4, <1>5, <1>6

LEMMA CountType ==
    ASSUME NEW S, NEW kids \in Seq(S), NEW x
    PROVE  /\ Count(x, kids) \in 0..Len(kids)
           /\ Count(x, kids) = Len(kids) <=> {i \in DOMAIN kids : kids[i] = x} = DOMAIN kids
           /\ Count(x, kids) = 0 <=> {i \in DOMAIN kids : kids[i] = x} = {}
  <1> DEFINE T == {i \in DOMAIN kids : kids[i] = x}
  <1>1. T \in SUBSET DOMAIN kids /\ Count(x, kids) = Cardinality(T)
    BY DEF Count
  <1> HIDE DEF T
  <1>2. /\ Cardinality(T) \in 0..Len(kids)
        /\ Cardinality(T) = Len(kids) <=> T = DOMAIN kids
        /\ Cardinality(T) = 0 <=> T = {}
    BY <1>1, PositionsFinite
  <1> QED BY <1>1, <1>2 DEF T

(* The children that are approved or undecided, counted.                    *)
LEMMA AliveCount ==
    ASSUME NEW kids \in Seq(StepStatuses)
    PROVE  Count("approved", kids) + (Count("pending", kids) + Count("not_started", kids))
             = Cardinality({i \in DOMAIN kids : kids[i] \notin Bad})
  <1> DEFINE A == {i \in DOMAIN kids : kids[i] = "approved"}
             P == {i \in DOMAIN kids : kids[i] = "pending"}
             N == {i \in DOMAIN kids : kids[i] = "not_started"}
  <1>1. \A i \in DOMAIN kids : kids[i] \in StepStatuses
    OBVIOUS
  <1>2. /\ A \cup (P \cup N) = {i \in DOMAIN kids : kids[i] \notin Bad}
        /\ P \cap N = {} /\ A \cap (P \cup N) = {}
    BY <1>1 DEF StepStatuses, Bad
  <1>3. /\ Count("approved", kids) = Cardinality(A)
        /\ Count("pending", kids) = Cardinality(P)
        /\ Count("not_started", kids) = Cardinality(N)
    BY DEF Count
  <1>4. IsFiniteSet(A) /\ IsFiniteSet(P) /\ IsFiniteSet(N)
    BY PositionsFinite
  <1> HIDE DEF A, P, N
  <1>5. /\ IsFiniteSet(P \cup N)
        /\ Cardinality(P \cup N) = Cardinality(P) + Cardinality(N) - Cardinality(P \cap N)
    BY <1>4, FS_Union
  <1>6. Cardinality(A \cup (P \cup N))
          = Cardinality(A) + Cardinality(P \cup N) - Cardinality(A \cap (P \cup N))
    BY <1>4, <1>5, FS_Union
  <1>7. /\ Cardinality(A) \in Nat /\ Cardinality(P) \in Nat /\ Cardinality(N) \in Nat
        /\ Cardinality({}) = 0
    BY <1>4, FS_CardinalityType, FS_EmptySet
  <1>8. Cardinality(P \cap N) = 0 /\ Cardinality(A \cap (P \cup N)) = 0
    <2>1. P \cap N = {} /\ A \cap (P \cup N) = {}
      BY <1>2
    <2> QED BY <2>1, FS_EmptySet
  <1>9. Cardinality(A) + (Cardinality(P) + Cardinality(N)) = Cardinality(A \cup (P \cup N))
    BY <1>5, <1>6, <1>7, <1>8
  <1> QED BY <1>2, <1>3, <1>9

(* flowStatus says approved when enough children are, and gives up when the *)
(* children that are not refused are too few, or the first child of a       *)
(* serial node that is not approved is refused.                             *)
LEMMA GroupMeaning ==
    ASSUME NEW kids \in Seq(StepStatuses), kids # << >>,
           NEW strategy \in {"serial", "all", "any", "quorum"}, NEW quorum,
           strategy = "quorum" => quorum \in Nat
    PROVE  LET status == GroupStatus(strategy, quorum, kids)
               good   == {i \in DOMAIN kids : kids[i] = "approved"}
               alive  == {i \in DOMAIN kids : kids[i] \notin Bad}
           IN  /\ status \in StepStatuses
               /\ status = "approved" <=> PassedBy(strategy, quorum, DOMAIN kids, good)
               /\ strategy = "serial" /\ status # "approved" =>
                    status = kids[FirstNot("approved", kids)]
               /\ strategy # "serial" =>
                    (status \in Bad <=> ~PassedBy(strategy, quorum, DOMAIN kids, alive))
  <1> DEFINE status == GroupStatus(strategy, quorum, kids)
             good   == {i \in DOMAIN kids : kids[i] = "approved"}
             alive  == {i \in DOMAIN kids : kids[i] \notin Bad}
             a == Count("approved", kids)
             r == Count("rejected", kids)
             e == Count("expired", kids)
             u == Count("pending", kids) + Count("not_started", kids)
             n == Len(kids)
  <1>1. /\ a \in 0..n /\ (a = n <=> good = DOMAIN kids) /\ (a = 0 <=> good = {})
        /\ a = Cardinality(good)
    BY CountType DEF Count
  <1>2. /\ r \in 0..n /\ (r = 0 <=> \A i \in DOMAIN kids : kids[i] # "rejected")
        /\ (r = n => \A i \in DOMAIN kids : kids[i] = "rejected")
    BY ZenonT(60), CountType
  <1>3. e \in 0..n /\ (e = 0 <=> \A i \in DOMAIN kids : kids[i] # "expired")
    BY ZenonT(60), CountType
  <1>4. u \in Nat /\ a + u = Cardinality(alive)
    <2>1. Count("pending", kids) \in 0..n /\ Count("not_started", kids) \in 0..n
      BY CountType
    <2> QED BY <2>1, AliveCount
  <1>5. /\ Cardinality(alive) \in 0..n
        /\ (Cardinality(alive) = n <=> alive = DOMAIN kids)
        /\ (Cardinality(alive) = 0 <=> alive = {})
    BY PositionsFinite
  <1>6. n \in Nat /\ DOMAIN kids = 1..n /\ DOMAIN kids # {}
    OBVIOUS
  <1>7. alive = DOMAIN kids <=> r = 0 /\ e = 0
    BY <1>2, <1>3 DEF Bad
  <1>8. good # DOMAIN kids => \E i \in DOMAIN kids : kids[i] # "approved"
    OBVIOUS
  <1>9. /\ strategy = "serial" => status = IF a = n THEN "approved"
                                                 ELSE kids[FirstNot("approved", kids)]
        /\ strategy = "all" => status = IF r > 0 THEN "rejected"
                                        ELSE IF e > 0 THEN "expired"
                                        ELSE IF a = n THEN "approved" ELSE "pending"
        /\ strategy = "any" => status = IF a > 0 THEN "approved"
                                        ELSE IF u > 0 THEN "pending"
                                        ELSE IF r = n THEN "rejected" ELSE "expired"
        /\ strategy = "quorum" => status = IF a >= quorum THEN "approved"
                                           ELSE IF a + u >= quorum THEN "pending"
                                           ELSE IF r > 0 THEN "rejected" ELSE "expired"
    BY DEF GroupStatus, Reachable
  <1>10. \A i \in DOMAIN kids : kids[i] \in StepStatuses
    OBVIOUS
  <1>11. good = DOMAIN kids => alive = DOMAIN kids
    BY DEF Bad
  <1> DEFINE Type  == status \in StepStatuses
             Yes   == status = "approved" <=> PassedBy(strategy, quorum, DOMAIN kids, good)
             First == strategy = "serial" /\ status # "approved" =>
                        status = kids[FirstNot("approved", kids)]
             No    == strategy # "serial" =>
                        (status \in Bad <=> ~PassedBy(strategy, quorum, DOMAIN kids, alive))
  <1> HIDE DEF status, good, alive, a, r, e, u, n
  <1>12. strategy = "serial" => Type /\ Yes /\ First /\ No
    <2>1. good # DOMAIN kids => FirstNot("approved", kids) \in DOMAIN kids
                                /\ kids[FirstNot("approved", kids)] # "approved"
      BY <1>8, FirstNotIs
    <2> QED BY <1>1, <1>9, <1>10, <2>1 DEF PassedBy, StepStatuses
  <1>13. strategy = "all" => Type /\ Yes /\ First /\ No
    BY <1>1, <1>2, <1>3, <1>7, <1>9, <1>11, <1>6 DEF PassedBy, StepStatuses, Bad
  <1>14. strategy = "any" => Type /\ Yes /\ First /\ No
    BY <1>1, <1>4, <1>5, <1>9, <1>6 DEF PassedBy, StepStatuses, Bad
  <1>15. strategy = "quorum" => Type /\ Yes /\ First /\ No
    BY <1>1, <1>4, <1>5, <1>9, <1>6 DEF PassedBy, StepStatuses, Bad
  <1>16. Type /\ Yes /\ First /\ No
    BY <1>12, <1>13, <1>14, <1>15
  <1> QED BY <1>16 DEF status, good, alive

-----------------------------------------------------------------------------
(* The flow tree.                                                           *)
Sound(p) == PlanOK(p) /\ FlowOK(p) /\ FoldsOK(p)

Leaves(p) == [p.steps -> StepStatuses]

KidStatus(p, leaves, g) ==
    [i \in DOMAIN p.children[g] |-> StatusOf(p, leaves)[p.children[g][i]]]

ApprovedKids(p, leaves, g) ==
    {i \in DOMAIN p.children[g] : StatusOf(p, leaves)[p.children[g][i]] = "approved"}

AliveKids(p, leaves, g) ==
    {i \in DOMAIN p.children[g] : StatusOf(p, leaves)[p.children[g][i]] \notin Bad}

(* The child a serial node is at.                                           *)
Turn(p, leaves, g) == FirstNot("approved", KidStatus(p, leaves, g))

(* A group passes with the children of "good".                              *)
GroupPassed(p, g, good) ==
    PassedBy(p.strategy[g], p.quorum[g], DOMAIN p.children[g], good)

(* What holds of the steps, and of a group when of its children, holds of   *)
(* every node.                                                              *)
LEMMA TreeInduction ==
    ASSUME NEW p, FlowOK(p), NEW X, p.steps \subseteq X,
           \A g \in p.groups : (\A i \in DOMAIN p.children[g] : p.children[g][i] \in X) => g \in X
    PROVE  Nodes(p) \subseteq X
  <1> DEFINE Y == X \cap Nodes(p)
  <1>1. Y \in SUBSET Nodes(p) /\ p.steps \subseteq Y
    BY DEF Nodes
  <1>2. \A g \in p.groups : (\A i \in DOMAIN p.children[g] : p.children[g][i] \in Y) => g \in Y
    BY DEF Nodes
  <1>3. Y = Nodes(p)
    BY <1>1, <1>2 DEF FlowOK
  <1> QED BY <1>3

LEMMA GroupShape ==
    ASSUME NEW p, Sound(p), NEW g \in p.groups
    PROVE  /\ p.children[g] \in Seq(Nodes(p)) /\ p.children[g] # << >>
           /\ DOMAIN p.children[g] = 1..Len(p.children[g]) /\ Len(p.children[g]) \in Nat
           /\ \A i \in DOMAIN p.children[g] : p.children[g][i] \in Nodes(p)
           /\ p.strategy[g] \in {"serial", "all", "any", "quorum"}
           /\ p.strategy[g] = "quorum" => p.quorum[g] \in 1..Len(p.children[g])
           /\ p.strategy[g] = "quorum" => p.quorum[g] \in Nat
           /\ g \notin p.steps /\ g \in Nodes(p)
           /\ IsFiniteSet(DOMAIN p.children[g])
           /\ Cardinality(DOMAIN p.children[g]) = Len(p.children[g])
  <1>1. /\ p.children[g] \in Seq(Nodes(p)) /\ p.children[g] # << >>
        /\ p.strategy[g] \in {"serial", "all", "any", "quorum"}
        /\ p.strategy[g] = "quorum" => p.quorum[g] \in 1..Len(p.children[g])
    BY DEF Sound, FlowOK
  <1>2. g \notin p.steps /\ g \in Nodes(p)
    BY DEF Sound, PlanOK, Nodes
  <1>3. /\ DOMAIN p.children[g] = 1..Len(p.children[g]) /\ Len(p.children[g]) \in Nat
        /\ \A i \in DOMAIN p.children[g] : p.children[g][i] \in Nodes(p)
    BY <1>1
  <1>4. p.strategy[g] = "quorum" => p.quorum[g] \in Nat
    BY <1>1, <1>3
  <1>5. /\ IsFiniteSet(DOMAIN p.children[g])
        /\ Cardinality(DOMAIN p.children[g]) = Len(p.children[g])
    BY <1>1, PositionsFinite
  <1> QED BY <1>1, <1>2, <1>3, <1>4, <1>5

LEMMA GroupPassedMonotone ==
    ASSUME NEW p, Sound(p), NEW g \in p.groups, NEW better \in SUBSET DOMAIN p.children[g],
           NEW good \in SUBSET better, GroupPassed(p, g, good)
    PROVE  GroupPassed(p, g, better)
  <1>1. /\ IsFiniteSet(DOMAIN p.children[g])
        /\ p.strategy[g] \in {"serial", "all", "any", "quorum"}
        /\ p.strategy[g] = "quorum" => p.quorum[g] \in Nat
    BY GroupShape
  <1> QED BY <1>1, PassedByMonotone DEF GroupPassed

LEMMA StatusEquation ==
    ASSUME NEW p, Sound(p), NEW leaves \in Leaves(p)
    PROVE  /\ \A s \in p.steps : StatusOf(p, leaves)[s] = leaves[s]
           /\ \A g \in p.groups :
                StatusOf(p, leaves)[g]
                  = GroupStatus(p.strategy[g], p.quorum[g], KidStatus(p, leaves, g))
  <1>1. \A n \in Nodes(p) :
         StatusOf(p, leaves)[n] =
           IF n \in p.steps THEN leaves[n]
           ELSE GroupStatus(p.strategy[n], p.quorum[n],
                  [i \in DOMAIN p.children[n] |-> StatusOf(p, leaves)[p.children[n][i]]])
    BY DEF Sound, FoldsOK, Leaves
  <1>2. \A g \in p.groups : g \in Nodes(p) /\ g \notin p.steps
    BY GroupShape
  <1> QED BY <1>1, <1>2 DEF Nodes, KidStatus

LEMMA StatusType ==
    ASSUME NEW p, Sound(p), NEW leaves \in Leaves(p)
    PROVE  \A n \in Nodes(p) : StatusOf(p, leaves)[n] \in StepStatuses
  <1> DEFINE X == {n \in Nodes(p) : StatusOf(p, leaves)[n] \in StepStatuses}
  <1>1. p.steps \subseteq X
    BY StatusEquation DEF Leaves, Nodes
  <1>2. ASSUME NEW g \in p.groups, \A i \in DOMAIN p.children[g] : p.children[g][i] \in X
        PROVE  g \in X
    <2>1. KidStatus(p, leaves, g) \in Seq(StepStatuses) /\ KidStatus(p, leaves, g) # << >>
      <3>1. KidStatus(p, leaves, g) \in [1..Len(p.children[g]) -> StepStatuses]
        BY <1>2, GroupShape DEF KidStatus
      <3>2. Len(p.children[g]) \in Nat /\ Len(p.children[g]) # 0
        BY GroupShape
      <3> QED BY <3>1, <3>2
    <2>2. GroupStatus(p.strategy[g], p.quorum[g], KidStatus(p, leaves, g)) \in StepStatuses
      BY <2>1, GroupShape, GroupMeaning
    <2> QED BY <2>2, StatusEquation, GroupShape
  <1>3. Nodes(p) \subseteq X
    BY <1>1, <1>2, TreeInduction DEF Sound
  <1> QED BY <1>3

LEMMA KidsType ==
    ASSUME NEW p, Sound(p), NEW leaves \in Leaves(p), NEW g \in p.groups
    PROVE  /\ KidStatus(p, leaves, g) \in Seq(StepStatuses)
           /\ KidStatus(p, leaves, g) # << >>
           /\ DOMAIN KidStatus(p, leaves, g) = DOMAIN p.children[g]
           /\ \A i \in DOMAIN p.children[g] :
                KidStatus(p, leaves, g)[i] = StatusOf(p, leaves)[p.children[g][i]]
  <1>1. KidStatus(p, leaves, g) \in [1..Len(p.children[g]) -> StepStatuses]
    BY StatusType, GroupShape DEF KidStatus
  <1>2. Len(p.children[g]) \in Nat /\ Len(p.children[g]) # 0
        /\ DOMAIN p.children[g] = 1..Len(p.children[g])
    BY GroupShape
  <1>3. /\ DOMAIN KidStatus(p, leaves, g) = DOMAIN p.children[g]
        /\ \A i \in DOMAIN p.children[g] :
             KidStatus(p, leaves, g)[i] = StatusOf(p, leaves)[p.children[g][i]]
    BY DEF KidStatus
  <1>4. KidStatus(p, leaves, g) \in Seq(StepStatuses) /\ KidStatus(p, leaves, g) # << >>
    BY <1>1, <1>2
  <1> QED BY <1>3, <1>4

(* GroupMeaning, of a group of the tree.                                    *)
LEMMA NodeMeaning ==
    ASSUME NEW p, Sound(p), NEW leaves \in Leaves(p), NEW g \in p.groups
    PROVE  /\ StatusOf(p, leaves)[g] = "approved" <=> GroupPassed(p, g, ApprovedKids(p, leaves, g))
           /\ p.strategy[g] = "serial" /\ StatusOf(p, leaves)[g] # "approved" =>
                StatusOf(p, leaves)[g] = KidStatus(p, leaves, g)[Turn(p, leaves, g)]
           /\ p.strategy[g] # "serial" =>
                (StatusOf(p, leaves)[g] \in Bad <=> ~GroupPassed(p, g, AliveKids(p, leaves, g)))
  <1> DEFINE kids  == KidStatus(p, leaves, g)
             value == GroupStatus(p.strategy[g], p.quorum[g], kids)
             good  == {i \in DOMAIN kids : kids[i] = "approved"}
             alive == {i \in DOMAIN kids : kids[i] \notin Bad}
  <1>1. /\ kids \in Seq(StepStatuses) /\ kids # << >> /\ DOMAIN kids = DOMAIN p.children[g]
        /\ \A i \in DOMAIN p.children[g] : kids[i] = StatusOf(p, leaves)[p.children[g][i]]
    BY KidsType
  <1>2. value = StatusOf(p, leaves)[g]
    BY StatusEquation
  <1>3. good = ApprovedKids(p, leaves, g) /\ alive = AliveKids(p, leaves, g)
    BY <1>1 DEF ApprovedKids, AliveKids
  <1>4. /\ p.strategy[g] \in {"serial", "all", "any", "quorum"}
        /\ p.strategy[g] = "quorum" => p.quorum[g] \in Nat
    BY GroupShape
  <1>5. /\ value = "approved" <=> PassedBy(p.strategy[g], p.quorum[g], DOMAIN kids, good)
        /\ p.strategy[g] = "serial" /\ value # "approved" => value = kids[FirstNot("approved", kids)]
        /\ p.strategy[g] # "serial" =>
             (value \in Bad <=> ~PassedBy(p.strategy[g], p.quorum[g], DOMAIN kids, alive))
    BY <1>1, <1>4, GroupMeaning
  <1> HIDE DEF value, good, alive
  <1> QED BY <1>1, <1>2, <1>3, <1>5 DEF GroupPassed, Turn

(* A serial node that is not approved is where the first child is that is   *)
(* not.                                                                     *)
LEMMA SerialNode ==
    ASSUME NEW p, Sound(p), NEW leaves \in Leaves(p), NEW g \in p.groups,
           p.strategy[g] = "serial", StatusOf(p, leaves)[g] # "approved"
    PROVE  /\ Turn(p, leaves, g) \in DOMAIN p.children[g]
           /\ StatusOf(p, leaves)[p.children[g][Turn(p, leaves, g)]] = StatusOf(p, leaves)[g]
           /\ \A j \in DOMAIN p.children[g] : j < Turn(p, leaves, g) =>
                StatusOf(p, leaves)[p.children[g][j]] = "approved"
  <1> DEFINE kids == KidStatus(p, leaves, g)
  <1>1. /\ kids \in Seq(StepStatuses) /\ DOMAIN kids = DOMAIN p.children[g]
        /\ \A i \in DOMAIN p.children[g] : kids[i] = StatusOf(p, leaves)[p.children[g][i]]
    BY KidsType
  <1>2. /\ ~GroupPassed(p, g, ApprovedKids(p, leaves, g))
        /\ StatusOf(p, leaves)[g] = kids[Turn(p, leaves, g)]
    BY NodeMeaning
  <1>3. ApprovedKids(p, leaves, g) # DOMAIN p.children[g]
    BY <1>2 DEF GroupPassed, PassedBy
  <1>4. \E i \in DOMAIN kids : kids[i] # "approved"
    BY <1>1, <1>3 DEF ApprovedKids
  <1>5. /\ Turn(p, leaves, g) \in DOMAIN kids
        /\ \A j \in 1..(Turn(p, leaves, g) - 1) : kids[j] = "approved"
    BY <1>1, <1>4, FirstNotIs DEF Turn
  <1>6. DOMAIN p.children[g] = 1..Len(p.children[g]) /\ Len(p.children[g]) \in Nat
    BY GroupShape
  <1> HIDE DEF kids
  <1>7. ASSUME NEW j \in DOMAIN p.children[g], j < Turn(p, leaves, g)
        PROVE  StatusOf(p, leaves)[p.children[g][j]] = "approved"
    <2>1. j \in 1..(Turn(p, leaves, g) - 1)
      BY <1>1, <1>5, <1>6, <1>7
    <2> QED BY <1>1, <1>5, <2>1
  <1> QED BY <1>1, <1>2, <1>5, <1>7

LEMMA TurnUnique ==
    ASSUME NEW p, Sound(p), NEW leaves \in Leaves(p), NEW g \in p.groups,
           NEW i \in DOMAIN p.children[g], StatusOf(p, leaves)[p.children[g][i]] # "approved",
           \A j \in DOMAIN p.children[g] : j < i =>
             StatusOf(p, leaves)[p.children[g][j]] = "approved"
    PROVE  Turn(p, leaves, g) = i
  <1> DEFINE kids == KidStatus(p, leaves, g)
  <1>1. /\ kids \in Seq(StepStatuses) /\ DOMAIN kids = DOMAIN p.children[g]
        /\ \A j \in DOMAIN p.children[g] : kids[j] = StatusOf(p, leaves)[p.children[g][j]]
    BY KidsType
  <1>2. DOMAIN p.children[g] = 1..Len(p.children[g]) /\ Len(p.children[g]) \in Nat
    BY GroupShape
  <1> HIDE DEF kids
  <1>3. ASSUME NEW j \in 1..(i - 1) PROVE kids[j] = "approved"
    <2>1. j \in DOMAIN p.children[g] /\ j < i
      BY <1>2
    <2> QED BY <1>1, <2>1
  <1> QED BY <1>1, <1>3, FirstNotUnique DEF Turn, kids

LEMMA SerialApproved ==
    ASSUME NEW p, Sound(p), NEW leaves \in Leaves(p), NEW g \in p.groups, p.strategy[g] = "serial"
    PROVE  StatusOf(p, leaves)[g] = "approved" <=>
             \A i \in DOMAIN p.children[g] : StatusOf(p, leaves)[p.children[g][i]] = "approved"
  <1>1. StatusOf(p, leaves)[g] = "approved" <=> GroupPassed(p, g, ApprovedKids(p, leaves, g))
    BY NodeMeaning
  <1>2. GroupPassed(p, g, ApprovedKids(p, leaves, g))
          <=> ApprovedKids(p, leaves, g) = DOMAIN p.children[g]
    BY DEF GroupPassed, PassedBy
  <1> QED BY <1>1, <1>2 DEF ApprovedKids

(* More approved steps, more approved nodes.                                *)
LEMMA ApprovedMonotone ==
    ASSUME NEW p, Sound(p), NEW leaves \in Leaves(p), NEW next \in Leaves(p),
           \A s \in p.steps : leaves[s] = "approved" => next[s] = "approved"
    PROVE  \A n \in Nodes(p) :
             StatusOf(p, leaves)[n] = "approved" => StatusOf(p, next)[n] = "approved"
  <1> DEFINE X == {n \in Nodes(p) : StatusOf(p, leaves)[n] = "approved"
                                      => StatusOf(p, next)[n] = "approved"}
  <1>1. p.steps \subseteq X
    BY StatusEquation DEF Nodes
  <1>2. ASSUME NEW g \in p.groups, \A i \in DOMAIN p.children[g] : p.children[g][i] \in X
        PROVE  g \in X
    <2>1. ApprovedKids(p, leaves, g) \subseteq ApprovedKids(p, next, g)
      BY <1>2 DEF ApprovedKids
    <2>2. ApprovedKids(p, next, g) \subseteq DOMAIN p.children[g] /\ g \in Nodes(p)
      BY GroupShape DEF ApprovedKids
    <2>3. /\ StatusOf(p, leaves)[g] = "approved" <=> GroupPassed(p, g, ApprovedKids(p, leaves, g))
          /\ StatusOf(p, next)[g] = "approved" <=> GroupPassed(p, g, ApprovedKids(p, next, g))
      BY NodeMeaning
    <2> QED BY <2>1, <2>2, <2>3, GroupPassedMonotone
  <1>3. Nodes(p) \subseteq X
    BY <1>1, <1>2, TreeInduction DEF Sound
  <1> QED BY <1>3

(* A refusal stays while no approval is lost and no refusal is taken back.  *)
LEMMA BadMonotone ==
    ASSUME NEW p, Sound(p), NEW leaves \in Leaves(p), NEW next \in Leaves(p),
           \A s \in p.steps : leaves[s] = "approved" => next[s] = "approved",
           \A s \in p.steps : leaves[s] \in Bad => next[s] \in Bad
    PROVE  \A n \in Nodes(p) : StatusOf(p, leaves)[n] \in Bad => StatusOf(p, next)[n] \in Bad
  <1> DEFINE X == {n \in Nodes(p) : StatusOf(p, leaves)[n] \in Bad => StatusOf(p, next)[n] \in Bad}
  <1>0. \A n \in Nodes(p) :
          StatusOf(p, leaves)[n] = "approved" => StatusOf(p, next)[n] = "approved"
    BY ApprovedMonotone
  <1>1. p.steps \subseteq X
    BY StatusEquation DEF Nodes
  <1>2. ASSUME NEW g \in p.groups, \A i \in DOMAIN p.children[g] : p.children[g][i] \in X
        PROVE  g \in X
    <2>1. /\ g \in Nodes(p)
          /\ \A i \in DOMAIN p.children[g] : p.children[g][i] \in Nodes(p)
      BY GroupShape
    <2>2. CASE p.strategy[g] # "serial"
      <3>1. AliveKids(p, next, g) \subseteq AliveKids(p, leaves, g)
        BY <1>2 DEF AliveKids
      <3>2. AliveKids(p, leaves, g) \subseteq DOMAIN p.children[g]
        BY DEF AliveKids
      <3>3. /\ StatusOf(p, leaves)[g] \in Bad <=> ~GroupPassed(p, g, AliveKids(p, leaves, g))
            /\ StatusOf(p, next)[g] \in Bad <=> ~GroupPassed(p, g, AliveKids(p, next, g))
        BY <2>2, NodeMeaning
      <3> QED BY <2>1, <3>1, <3>2, <3>3, GroupPassedMonotone
    <2>3. CASE p.strategy[g] = "serial"
      <3> SUFFICES ASSUME StatusOf(p, leaves)[g] \in Bad PROVE StatusOf(p, next)[g] \in Bad
        BY <2>1
      <3> DEFINE old == Turn(p, leaves, g)
      <3>1. StatusOf(p, leaves)[g] # "approved"
        BY DEF Bad
      <3>2. /\ old \in DOMAIN p.children[g]
            /\ StatusOf(p, leaves)[p.children[g][old]] = StatusOf(p, leaves)[g]
            /\ \A j \in DOMAIN p.children[g] : j < old =>
                 StatusOf(p, leaves)[p.children[g][j]] = "approved"
        BY <2>3, <3>1, SerialNode
      <3> HIDE DEF old
      <3>3. StatusOf(p, next)[p.children[g][old]] \in Bad
        BY <1>2, <3>2
      <3>4. StatusOf(p, next)[p.children[g][old]] # "approved"
        BY <3>3 DEF Bad
      <3>5. \A j \in DOMAIN p.children[g] : j < old =>
              StatusOf(p, next)[p.children[g][j]] = "approved"
        BY <1>0, <2>1, <3>2
      <3>6. Turn(p, next, g) = old
        BY <3>2, <3>4, <3>5, TurnUnique
      <3>7. StatusOf(p, next)[g] # "approved"
        BY <2>3, <3>2, <3>4, SerialApproved
      <3>8. StatusOf(p, next)[p.children[g][old]] = StatusOf(p, next)[g]
        BY <2>3, <3>6, <3>7, SerialNode
      <3> QED BY <3>3, <3>8
    <2> QED BY <2>2, <2>3
  <1>3. Nodes(p) \subseteq X
    BY <1>1, <1>2, TreeInduction DEF Sound
  <1> QED BY <1>3

-----------------------------------------------------------------------------
(* P is the set of nodes that pass when exactly the steps in S pass.        *)
PassingKids(p, P, g) == {i \in DOMAIN p.children[g] : p.children[g][i] \in P}

Passes(p, S, P) ==
    \A n \in Nodes(p) :
      n \in P <=> IF n \in p.steps THEN n \in S ELSE GroupPassed(p, n, PassingKids(p, P, n))

LEMMA PassesEquation ==
    ASSUME NEW p, Sound(p), NEW S, NEW P, Passes(p, S, P)
    PROVE  /\ \A s \in p.steps : s \in P <=> s \in S
           /\ \A g \in p.groups : g \in P <=> GroupPassed(p, g, PassingKids(p, P, g))
  <1>1. \A s \in p.steps : s \in Nodes(p)
    BY DEF Nodes
  <1>2. \A g \in p.groups : g \in Nodes(p) /\ g \notin p.steps
    BY GroupShape
  <1> QED BY <1>1, <1>2 DEF Passes

LEMMA PassesMonotone ==
    ASSUME NEW p, Sound(p), NEW S, NEW T, NEW P, NEW Q, Passes(p, S, P), Passes(p, T, Q),
           S \subseteq T
    PROVE  \A n \in Nodes(p) : n \in P => n \in Q
  <1> DEFINE X == {n \in Nodes(p) : n \in P => n \in Q}
  <1>1. p.steps \subseteq X
    BY PassesEquation DEF Nodes
  <1>2. ASSUME NEW g \in p.groups, \A i \in DOMAIN p.children[g] : p.children[g][i] \in X
        PROVE  g \in X
    <2>1. PassingKids(p, P, g) \subseteq PassingKids(p, Q, g)
      BY <1>2 DEF PassingKids
    <2>2. PassingKids(p, Q, g) \subseteq DOMAIN p.children[g] /\ g \in Nodes(p)
      BY GroupShape DEF PassingKids
    <2>3. /\ g \in P <=> GroupPassed(p, g, PassingKids(p, P, g))
          /\ g \in Q <=> GroupPassed(p, g, PassingKids(p, Q, g))
      BY PassesEquation
    <2> QED BY <2>1, <2>2, <2>3, GroupPassedMonotone
  <1>3. Nodes(p) \subseteq X
    BY <1>1, <1>2, TreeInduction DEF Sound
  <1> QED BY <1>3

(* The interpreter calls a node approved exactly when the approved steps    *)
(* make it pass.                                                            *)
LEMMA ApprovedMeansPassing ==
    ASSUME NEW p, Sound(p), NEW leaves \in Leaves(p), NEW P,
           Passes(p, {s \in p.steps : leaves[s] = "approved"}, P)
    PROVE  \A n \in Nodes(p) : StatusOf(p, leaves)[n] = "approved" <=> n \in P
  <1> DEFINE X == {n \in Nodes(p) : StatusOf(p, leaves)[n] = "approved" <=> n \in P}
             S == {s \in p.steps : leaves[s] = "approved"}
  <1>1. p.steps \subseteq X
    <2>1. \A s \in p.steps : s \in P <=> s \in S
      <3> HIDE DEF S
      <3> QED BY PassesEquation DEF S
    <2>2. \A s \in p.steps : StatusOf(p, leaves)[s] = leaves[s]
      BY StatusEquation
    <2> QED BY <2>1, <2>2 DEF Nodes
  <1>2. ASSUME NEW g \in p.groups, \A i \in DOMAIN p.children[g] : p.children[g][i] \in X
        PROVE  g \in X
    <2>1. ApprovedKids(p, leaves, g) = PassingKids(p, P, g)
      BY <1>2 DEF ApprovedKids, PassingKids
    <2>2. g \in P <=> GroupPassed(p, g, PassingKids(p, P, g))
      <3> HIDE DEF S
      <3> QED BY PassesEquation DEF S
    <2>3. StatusOf(p, leaves)[g] = "approved" <=> GroupPassed(p, g, ApprovedKids(p, leaves, g))
      BY NodeMeaning
    <2>4. g \in Nodes(p)
      BY GroupShape
    <2> QED BY <2>1, <2>2, <2>3, <2>4
  <1>3. Nodes(p) \subseteq X
    BY <1>1, <1>2, TreeInduction DEF Sound
  <1> QED BY <1>3

LEMMA BelowEquation ==
    ASSUME NEW p, Sound(p)
    PROVE  /\ \A s \in p.steps : Below(p)[s] = {s}
           /\ \A g \in p.groups : \A i \in DOMAIN p.children[g] :
                Below(p)[p.children[g][i]] \subseteq Below(p)[g]
  <1>1. \A n \in Nodes(p) :
         Below(p)[n] = IF n \in p.steps THEN {n}
                       ELSE {n} \cup UNION {Below(p)[p.children[n][i]] : i \in DOMAIN p.children[n]}
    BY DEF Sound, FoldsOK
  <1>2. ASSUME NEW g \in p.groups, NEW i \in DOMAIN p.children[g]
        PROVE  Below(p)[p.children[g][i]] \subseteq Below(p)[g]
    <2>1. Below(p)[g] = {g} \cup UNION {Below(p)[p.children[g][j]] : j \in DOMAIN p.children[g]}
      BY <1>1, GroupShape
    <2> QED BY <2>1
  <1>3. \A s \in p.steps : Below(p)[s] = {s}
    BY <1>1 DEF Nodes
  <1> QED BY <1>2, <1>3

(* A group passes when all its children do.                                 *)
LEMMA AllPass ==
    ASSUME NEW p, Sound(p), NEW g \in p.groups
    PROVE  GroupPassed(p, g, DOMAIN p.children[g])
  <1>1. /\ p.strategy[g] \in {"serial", "all", "any", "quorum"}
        /\ p.strategy[g] = "quorum" => p.quorum[g] \in 1..Len(p.children[g])
        /\ DOMAIN p.children[g] = 1..Len(p.children[g]) /\ Len(p.children[g]) \in Nat
        /\ p.children[g] # << >> /\ p.children[g] \in Seq(Nodes(p))
        /\ Cardinality(DOMAIN p.children[g]) = Len(p.children[g])
    BY GroupShape
  <1>2. DOMAIN p.children[g] # {}
    <2>1. Len(p.children[g]) # 0
      BY GroupShape
    <2>2. 1 \in DOMAIN p.children[g]
      BY <1>1, <2>1
    <2> QED BY <2>2
  <1>3. CASE p.strategy[g] = "quorum"
    <2>1. Len(p.children[g]) >= p.quorum[g]
      BY <1>1, <1>3
    <2> QED BY <1>1, <1>3, <2>1 DEF GroupPassed, PassedBy
  <1>4. CASE p.strategy[g] = "any"
    BY <1>2, <1>4 DEF GroupPassed, PassedBy
  <1>5. CASE p.strategy[g] \in {"serial", "all"}
    BY <1>5 DEF GroupPassed, PassedBy
  <1> QED BY <1>1, <1>3, <1>4, <1>5

LEMMA AllBelowPass ==
    ASSUME NEW p, Sound(p), NEW S, NEW P, Passes(p, S, P)
    PROVE  \A n \in Nodes(p) : Below(p)[n] \cap p.steps \subseteq S => n \in P
  <1> DEFINE X == {n \in Nodes(p) : Below(p)[n] \cap p.steps \subseteq S => n \in P}
  <1>1. p.steps \subseteq X
    <2>1. \A s \in p.steps : (s \in P <=> s \in S) /\ Below(p)[s] = {s}
      BY BelowEquation, PassesEquation
    <2> QED BY <2>1 DEF Nodes
  <1>2. ASSUME NEW g \in p.groups, \A i \in DOMAIN p.children[g] : p.children[g][i] \in X
        PROVE  g \in X
    <2>0. g \in Nodes(p)
      BY GroupShape
    <2> SUFFICES ASSUME Below(p)[g] \cap p.steps \subseteq S PROVE g \in P
      BY <2>0
    <2>1. \A i \in DOMAIN p.children[g] : Below(p)[p.children[g][i]] \subseteq Below(p)[g]
      BY BelowEquation
    <2>2. PassingKids(p, P, g) = DOMAIN p.children[g]
      BY <1>2, <2>1 DEF PassingKids
    <2>3. g \in P <=> GroupPassed(p, g, PassingKids(p, P, g))
      BY PassesEquation
    <2> QED BY <2>2, <2>3, AllPass
  <1>3. Nodes(p) \subseteq X
    BY <1>1, <1>2, TreeInduction DEF Sound
  <1> QED BY <1>3

(* The steps that are not refused.                                          *)
AliveSteps(p, leaves) == {s \in p.steps : leaves[s] \notin Bad}

(* A refused node cannot pass any more, whatever the undecided steps bring. *)
LEMMA BadCannotPass ==
    ASSUME NEW p, Sound(p), NEW leaves \in Leaves(p), NEW P,
           Passes(p, AliveSteps(p, leaves), P)
    PROVE  \A n \in Nodes(p) : StatusOf(p, leaves)[n] \in Bad => n \notin P
  <1> DEFINE X == {n \in Nodes(p) : StatusOf(p, leaves)[n] \in Bad => n \notin P}
  <1>1. p.steps \subseteq X
    <2>1. \A s \in p.steps : (s \in P <=> s \in AliveSteps(p, leaves))
                             /\ StatusOf(p, leaves)[s] = leaves[s]
      BY PassesEquation, StatusEquation
    <2> QED BY <2>1 DEF Nodes, AliveSteps
  <1>2. ASSUME NEW g \in p.groups, \A i \in DOMAIN p.children[g] : p.children[g][i] \in X
        PROVE  g \in X
    <2>1. PassingKids(p, P, g) \subseteq AliveKids(p, leaves, g)
      BY <1>2 DEF PassingKids, AliveKids
    <2>2. AliveKids(p, leaves, g) \subseteq DOMAIN p.children[g] /\ g \in Nodes(p)
      BY GroupShape DEF AliveKids
    <2>3. g \in P <=> GroupPassed(p, g, PassingKids(p, P, g))
      BY PassesEquation
    <2>4. CASE p.strategy[g] # "serial"
      <3>1. StatusOf(p, leaves)[g] \in Bad <=> ~GroupPassed(p, g, AliveKids(p, leaves, g))
        BY <2>4, NodeMeaning
      <3> QED BY <2>1, <2>2, <2>3, <3>1, GroupPassedMonotone
    <2>5. CASE p.strategy[g] = "serial"
      <3> SUFFICES ASSUME StatusOf(p, leaves)[g] \in Bad PROVE g \notin P
        BY <2>2
      <3>1. StatusOf(p, leaves)[g] # "approved"
        BY DEF Bad
      <3>2. /\ Turn(p, leaves, g) \in DOMAIN p.children[g]
            /\ StatusOf(p, leaves)[p.children[g][Turn(p, leaves, g)]] = StatusOf(p, leaves)[g]
        BY <2>5, <3>1, SerialNode
      <3>3. Turn(p, leaves, g) \notin PassingKids(p, P, g)
        BY <1>2, <3>2 DEF PassingKids
      <3>4. PassingKids(p, P, g) # DOMAIN p.children[g]
        BY <3>2, <3>3
      <3> QED BY <2>3, <2>5, <3>4 DEF GroupPassed, PassedBy
    <2> QED BY <2>4, <2>5
  <1>3. Nodes(p) \subseteq X
    BY <1>1, <1>2, TreeInduction DEF Sound
  <1> QED BY <1>3

(* While the steps behind an undecided child of a serial node have not been *)
(* started, a node that is not refused can still pass.                      *)
LEMMA AliveCanPass ==
    ASSUME NEW p, Sound(p), NEW leaves \in Leaves(p), NEW P,
           Passes(p, AliveSteps(p, leaves), P),
           \A g \in p.groups : p.strategy[g] = "serial" =>
             \A i, j \in DOMAIN p.children[g] :
               i < j /\ StatusOf(p, leaves)[p.children[g][i]] # "approved" =>
                 Below(p)[p.children[g][j]] \cap p.steps \subseteq AliveSteps(p, leaves)
    PROVE  \A n \in Nodes(p) : StatusOf(p, leaves)[n] \notin Bad => n \in P
  <1> DEFINE X == {n \in Nodes(p) : StatusOf(p, leaves)[n] \notin Bad => n \in P}
  <1>1. p.steps \subseteq X
    <2>1. \A s \in p.steps : (s \in P <=> s \in AliveSteps(p, leaves))
                             /\ StatusOf(p, leaves)[s] = leaves[s]
      BY PassesEquation, StatusEquation
    <2> QED BY <2>1 DEF Nodes, AliveSteps
  <1>2. ASSUME NEW g \in p.groups, \A i \in DOMAIN p.children[g] : p.children[g][i] \in X
        PROVE  g \in X
    <2>1. AliveKids(p, leaves, g) \subseteq PassingKids(p, P, g)
      BY <1>2 DEF PassingKids, AliveKids
    <2>2. /\ PassingKids(p, P, g) \subseteq DOMAIN p.children[g] /\ g \in Nodes(p)
          /\ \A i \in DOMAIN p.children[g] : p.children[g][i] \in Nodes(p)
          /\ DOMAIN p.children[g] = 1..Len(p.children[g]) /\ Len(p.children[g]) \in Nat
      BY GroupShape DEF PassingKids
    <2>3. g \in P <=> GroupPassed(p, g, PassingKids(p, P, g))
      BY PassesEquation
    <2>4. CASE p.strategy[g] # "serial"
      <3>1. StatusOf(p, leaves)[g] \in Bad <=> ~GroupPassed(p, g, AliveKids(p, leaves, g))
        BY <2>4, NodeMeaning
      <3> QED BY <2>1, <2>2, <2>3, <3>1, GroupPassedMonotone
    <2>5. CASE p.strategy[g] = "serial"
      <3> SUFFICES ASSUME StatusOf(p, leaves)[g] \notin Bad PROVE g \in P
        BY <2>2
      <3>1. ASSUME NEW i \in DOMAIN p.children[g] PROVE p.children[g][i] \in P
        <4>1. CASE StatusOf(p, leaves)[g] = "approved"
          <5>1. StatusOf(p, leaves)[p.children[g][i]] = "approved"
            BY <2>5, <4>1, SerialApproved
          <5>2. StatusOf(p, leaves)[p.children[g][i]] \notin Bad
            BY <5>1 DEF Bad
          <5> QED BY <1>2, <5>2
        <4>2. CASE StatusOf(p, leaves)[g] # "approved"
          <5> DEFINE at == Turn(p, leaves, g)
          <5>1. /\ at \in DOMAIN p.children[g]
                /\ StatusOf(p, leaves)[p.children[g][at]] = StatusOf(p, leaves)[g]
                /\ \A j \in DOMAIN p.children[g] : j < at =>
                     StatusOf(p, leaves)[p.children[g][j]] = "approved"
            BY <2>5, <4>2, SerialNode
          <5> HIDE DEF at
          <5>2. CASE i < at
            <6>1. StatusOf(p, leaves)[p.children[g][i]] \notin Bad
              BY <5>1, <5>2 DEF Bad
            <6> QED BY <1>2, <6>1
          <5>3. CASE i = at
            BY <1>2, <5>1, <5>3
          <5>4. CASE at < i
            <6>1. Below(p)[p.children[g][i]] \cap p.steps \subseteq AliveSteps(p, leaves)
              BY <2>5, <4>2, <5>1, <5>4
            <6> QED BY <2>2, <6>1, AllBelowPass
          <5>5. i \in Nat /\ at \in Nat
            BY <2>2, <5>1
          <5> QED BY <5>2, <5>3, <5>4, <5>5
        <4> QED BY <4>1, <4>2
      <3>2. PassingKids(p, P, g) = DOMAIN p.children[g]
        BY <3>1 DEF PassingKids
      <3> QED BY <2>3, <3>2, AllPass
    <2> QED BY <2>4, <2>5
  <1>3. Nodes(p) \subseteq X
    BY <1>1, <1>2, TreeInduction DEF Sound
  <1> QED BY <1>3

-----------------------------------------------------------------------------
(* The statuses of the steps, from the tasks.                               *)
LeavesOf(p, tasks) == [s \in p.steps |-> StepStatus(tasks, s)]

LEMMA LeavesType ==
    ASSUME NEW p, NEW tasks \in TaskMaps(p)
    PROVE  /\ LeavesOf(p, tasks) \in Leaves(p)
           /\ FlowStatus(p, tasks) = StatusOf(p, LeavesOf(p, tasks))
           /\ \A s \in p.steps : LeavesOf(p, tasks)[s] = StepStatus(tasks, s)
  <1>1. ASSUME NEW s \in p.steps PROVE StepStatus(tasks, s) \in StepStatuses
    <2>1. s \in DOMAIN tasks => tasks[s].status \in TaskStatuses
      BY TaskMapsMembers DEF Tasks
    <2> QED BY <2>1 DEF StepStatus, StepStatuses, TaskStatuses
  <1> QED BY <1>1 DEF LeavesOf, Leaves, FlowStatus

(* No task disappears and a closed one keeps its status.                    *)
Settles(tasks, next) ==
    /\ DOMAIN tasks \subseteq DOMAIN next
    /\ \A s \in DOMAIN tasks : tasks[s].status # "pending" => next[s].status = tasks[s].status

LEMMA ExtendsSettles ==
    ASSUME NEW tasks, NEW next, Extends(tasks, next)
    PROVE  Settles(tasks, next)
BY DEF Extends, Settles

(* Then an approved node stays approved and a refused one stays refused.    *)
LEMMA SettledFlow ==
    ASSUME NEW p, Sound(p), NEW tasks \in TaskMaps(p), NEW next \in TaskMaps(p),
           Settles(tasks, next)
    PROVE  \A n \in Nodes(p) :
             /\ FlowStatus(p, tasks)[n] = "approved" => FlowStatus(p, next)[n] = "approved"
             /\ FlowStatus(p, tasks)[n] \in Bad => FlowStatus(p, next)[n] \in Bad
  <1>1. /\ LeavesOf(p, tasks) \in Leaves(p) /\ LeavesOf(p, next) \in Leaves(p)
        /\ FlowStatus(p, tasks) = StatusOf(p, LeavesOf(p, tasks))
        /\ FlowStatus(p, next) = StatusOf(p, LeavesOf(p, next))
        /\ \A s \in p.steps : LeavesOf(p, tasks)[s] = StepStatus(tasks, s)
        /\ \A s \in p.steps : LeavesOf(p, next)[s] = StepStatus(next, s)
    BY LeavesType
  <1>2. ASSUME NEW s \in p.steps
        PROVE  /\ LeavesOf(p, tasks)[s] = "approved" => LeavesOf(p, next)[s] = "approved"
               /\ LeavesOf(p, tasks)[s] \in Bad => LeavesOf(p, next)[s] \in Bad
    BY <1>1 DEF Settles, StepStatus, Bad
  <1> QED BY <1>1, <1>2, ApprovedMonotone, BadMonotone

(* The members of Ready, by the child each serial node is at.               *)
LEMMA ReadyMembers ==
    ASSUME NEW p, Sound(p), NEW tasks \in TaskMaps(p), NEW s
    PROVE  s \in Ready(p, tasks) <=>
             /\ s \in p.steps /\ StepStatus(tasks, s) \in Open
             /\ \A g \in p.groups : s \in Below(p)[g] =>
                  /\ FlowStatus(p, tasks)[g] \in Open
                  /\ \E i \in DOMAIN p.children[g] :
                       /\ s \in Below(p)[p.children[g][i]]
                       /\ p.strategy[g] = "serial" => i = Turn(p, LeavesOf(p, tasks), g)
  <1> DEFINE Kids(g) == [i \in DOMAIN p.children[g] |-> FlowStatus(p, tasks)[p.children[g][i]]]
  <1>1. s \in Ready(p, tasks) <=>
          /\ s \in p.steps /\ StepStatus(tasks, s) \in Open
          /\ \A g \in p.groups : s \in Below(p)[g] =>
               /\ FlowStatus(p, tasks)[g] \in Open
               /\ \E i \in VisitedKids(p.strategy[g], Kids(g)) : s \in Below(p)[p.children[g][i]]
    BY DEF Ready
  <1>2. ASSUME NEW g \in p.groups, FlowStatus(p, tasks)[g] \in Open
        PROVE  VisitedKids(p.strategy[g], Kids(g))
                 = {i \in DOMAIN p.children[g] :
                      p.strategy[g] = "serial" => i = Turn(p, LeavesOf(p, tasks), g)}
    <2>1. /\ FlowStatus(p, tasks) = StatusOf(p, LeavesOf(p, tasks))
          /\ LeavesOf(p, tasks) \in Leaves(p)
      BY LeavesType
    <2>2. Kids(g) = KidStatus(p, LeavesOf(p, tasks), g)
      BY <2>1 DEF KidStatus
    <2>3. DOMAIN Kids(g) = DOMAIN p.children[g]
      OBVIOUS
    <2>4. FlowStatus(p, tasks)[g] # "approved"
      BY <1>2 DEF Open
    <2>5. p.strategy[g] = "serial" => Turn(p, LeavesOf(p, tasks), g) \in DOMAIN p.children[g]
      BY <2>1, <2>4, SerialNode
    <2> HIDE DEF Kids
    <2> QED BY <2>2, <2>3, <2>5 DEF VisitedKids, Turn
  <1> HIDE DEF Kids
  <1>3. \A g \in p.groups : FlowStatus(p, tasks)[g] \in Open =>
          ((\E i \in VisitedKids(p.strategy[g], Kids(g)) : s \in Below(p)[p.children[g][i]])
           <=> \E i \in DOMAIN p.children[g] :
                 /\ s \in Below(p)[p.children[g][i]]
                 /\ p.strategy[g] = "serial" => i = Turn(p, LeavesOf(p, tasks), g))
    BY <1>2
  <1> QED BY <1>1, <1>3

(* A step is started only when the serial nodes above have come to it.      *)
SerialOrder(p, tasks) ==
    \A g \in p.groups : p.strategy[g] = "serial" =>
      \A i, j \in DOMAIN p.children[g] :
        i < j /\ Below(p)[p.children[g][j]] \cap DOMAIN tasks # {} =>
          FlowStatus(p, tasks)[p.children[g][i]] = "approved"

LEMMA SettlingKeepsOrder ==
    ASSUME NEW p, Sound(p), NEW tasks \in TaskMaps(p), NEW next \in TaskMaps(p),
           Settles(tasks, next), DOMAIN next = DOMAIN tasks, SerialOrder(p, tasks)
    PROVE  SerialOrder(p, next)
  <1> SUFFICES ASSUME NEW g \in p.groups, p.strategy[g] = "serial",
                      NEW i \in DOMAIN p.children[g], NEW j \in DOMAIN p.children[g],
                      i < j, Below(p)[p.children[g][j]] \cap DOMAIN next # {}
               PROVE  FlowStatus(p, next)[p.children[g][i]] = "approved"
    BY DEF SerialOrder
  <1>1. FlowStatus(p, tasks)[p.children[g][i]] = "approved"
    BY DEF SerialOrder
  <1>2. p.children[g][i] \in Nodes(p)
    BY GroupShape
  <1> QED BY <1>1, <1>2, SettledFlow

LEMMA ReadyInOrder ==
    ASSUME NEW p, Sound(p), NEW tasks \in TaskMaps(p), NEW s \in Ready(p, tasks),
           NEW g \in p.groups, p.strategy[g] = "serial",
           NEW i \in DOMAIN p.children[g], NEW j \in DOMAIN p.children[g],
           i < j, s \in Below(p)[p.children[g][j]]
    PROVE  FlowStatus(p, tasks)[p.children[g][i]] = "approved"
  <1> DEFINE at == Turn(p, LeavesOf(p, tasks), g)
  <1>1. s \in Below(p)[g]
    BY BelowEquation
  <1>2. FlowStatus(p, tasks)[g] \in Open /\ at \in DOMAIN p.children[g]
        /\ s \in Below(p)[p.children[g][at]]
    BY <1>1, ReadyMembers
  <1>3. \A k, l \in DOMAIN p.children[g] :
          k # l => Below(p)[p.children[g][k]] \cap Below(p)[p.children[g][l]] = {}
    BY DEF Sound, FlowOK
  <1>4. at = j
    BY <1>2, <1>3
  <1>5. /\ FlowStatus(p, tasks) = StatusOf(p, LeavesOf(p, tasks))
        /\ LeavesOf(p, tasks) \in Leaves(p)
    BY LeavesType
  <1>6. StatusOf(p, LeavesOf(p, tasks))[g] # "approved"
    BY <1>2, <1>5 DEF Open
  <1>7. \A k \in DOMAIN p.children[g] : k < at =>
          StatusOf(p, LeavesOf(p, tasks))[p.children[g][k]] = "approved"
    BY <1>5, <1>6, SerialNode
  <1> HIDE DEF at
  <1> QED BY <1>4, <1>5, <1>7

(* Below a closed root no step is ready.                                    *)
LEMMA ClosedFlowIsQuiet ==
    ASSUME NEW p, Sound(p), NEW tasks \in TaskMaps(p), FlowStatus(p, tasks)[p.root] \in Closed
    PROVE  Ready(p, tasks) = {}
  <1> SUFFICES ASSUME NEW s \in Ready(p, tasks) PROVE FALSE
    OBVIOUS
  <1>1. s \in p.steps /\ StepStatus(tasks, s) \in Open
    BY ReadyMembers
  <1>2. s \in Below(p)[p.root] /\ p.root \in p.steps \cup p.groups
    BY <1>1 DEF Sound, PlanOK, Nodes
  <1>3. CASE p.root \in p.groups
    <2>1. FlowStatus(p, tasks)[p.root] \in Open
      BY <1>2, <1>3, ReadyMembers
    <2> QED BY <2>1 DEF Open, Closed
  <1>4. CASE p.root \in p.steps
    <2>1. s = p.root
      BY <1>2, <1>4, BelowEquation
    <2>2. FlowStatus(p, tasks)[p.root] = StepStatus(tasks, s)
      BY <1>4, <2>1, LeavesType, StatusEquation
    <2> QED BY <1>1, <2>2 DEF Open, Closed
  <1> QED BY <1>2, <1>3, <1>4

-----------------------------------------------------------------------------
(* The votes of a task, counted by the people who cast them.                *)
AllVotes == [key: DecisionKeys, user: Users, verdict: Verdict]

LEMMA VotersAreVotes ==
    ASSUME IsFiniteSet(Users), NEW D \in SUBSET AllVotes,
           \A d, e \in D : d.user = e.user => d = e
    PROVE  /\ IsFiniteSet(D) /\ IsFiniteSet({d.user : d \in D})
           /\ Cardinality({d.user : d \in D}) = Cardinality(D)
           /\ Cardinality(D) \in Nat
  <1> DEFINE U == {d.user : d \in D}
             f == [d \in D |-> d.user]
  <1>1. f \in [D -> U] /\ U \subseteq Users
    BY DEF AllVotes
  <1>2. \A d, e \in D : f[d] = f[e] => d = e
    OBVIOUS
  <1>3. f \in Injection(D, U)
    BY <1>1, <1>2 DEF Injection, IsInjective
  <1>4. f \in Surjection(D, U)
    BY <1>1 DEF Surjection
  <1>5. ExistsBijection(D, U)
    BY <1>3, <1>4 DEF ExistsBijection, Bijection
  <1>6. IsFiniteSet(U)
    BY <1>1, FS_Subset
  <1>7. IsFiniteSet(D)
    BY <1>3, <1>6, FS_Injection
  <1>8. Cardinality(U) = Cardinality(D)
    BY <1>5, <1>7, FS_Bijection
  <1> QED BY <1>6, <1>7, <1>8, FS_CardinalityType

(* A task whose users vote once.                                            *)
OneVoteEach(task) == \A d, e \in task.decisions : d.user = e.user => d = e

VotesFor(task, v) == {d \in task.decisions : d.verdict = v}

LEMMA TaskCounts ==
    ASSUME IsFiniteSet(Users), NEW p, NEW task \in Tasks(p), OneVoteEach(task)
    PROVE  /\ \A v : /\ Verdicts(task, v) \in Nat
                     /\ Verdicts(task, v) = Cardinality(VotesFor(task, v))
                     /\ Verdicts(task, v) = Cardinality({d.user : d \in VotesFor(task, v)})
                     /\ Verdicts(task, v) = 0 <=> VotesFor(task, v) = {}
           /\ IsFiniteSet(task.candidates) /\ Cardinality(task.candidates) \in Nat
           /\ IsFiniteSet(Deciders(task))
           /\ \A S : Cardinality(task.candidates \ S) \in Nat
  <1>1. task.decisions \in SUBSET AllVotes /\ task.candidates \in SUBSET Users
    BY DEF Tasks, AllVotes
  <1>2. ASSUME NEW v
        PROVE  /\ Verdicts(task, v) \in Nat
               /\ Verdicts(task, v) = Cardinality(VotesFor(task, v))
               /\ Verdicts(task, v) = Cardinality({d.user : d \in VotesFor(task, v)})
               /\ Verdicts(task, v) = 0 <=> VotesFor(task, v) = {}
    <2>1. VotesFor(task, v) \in SUBSET AllVotes /\ Verdicts(task, v) = Cardinality(VotesFor(task, v))
          /\ \A d, e \in VotesFor(task, v) : d.user = e.user => d = e
      BY <1>1 DEF VotesFor, Verdicts, OneVoteEach
    <2>2. /\ IsFiniteSet(VotesFor(task, v))
          /\ Cardinality({d.user : d \in VotesFor(task, v)}) = Cardinality(VotesFor(task, v))
          /\ Cardinality(VotesFor(task, v)) \in Nat
      BY <2>1, VotersAreVotes
    <2>3. Cardinality(VotesFor(task, v)) = 0 <=> VotesFor(task, v) = {}
      BY <2>2, FS_EmptySet
    <2> QED BY <2>1, <2>2, <2>3
  <1>3. IsFiniteSet(task.candidates) /\ \A S : IsFiniteSet(task.candidates \ S)
    <2>1. \A S : task.candidates \ S \in SUBSET Users
      BY <1>1
    <2> QED BY <1>1, <2>1, FS_Subset
  <1>4. Cardinality(task.candidates) \in Nat /\ \A S : Cardinality(task.candidates \ S) \in Nat
    BY <1>3, FS_CardinalityType
  <1>5. IsFiniteSet(Deciders(task))
    BY <1>1, VotersAreVotes DEF Deciders, OneVoteEach
  <1> QED BY <1>2, <1>3, <1>4, <1>5

-----------------------------------------------------------------------------
(* The people left who may decide a task are enough to approve it.          *)
Enough(p, s, task, others) ==
    Verdicts(task, "approve") + Cardinality(task.candidates \ (Deciders(task) \cup others))
      >= RequiredApprovals(p, s, task.candidates)

Others(p, tasks, s) == UsedByOthers(tasks, ScopeOf(p, s), s)

LEMMA RequiredType ==
    ASSUME NEW p, Sound(p), NEW s \in p.steps, NEW candidates, IsFiniteSet(candidates)
    PROVE  RequiredApprovals(p, s, candidates) \in Nat
  <1>1. p.completion[s] \in {"any", "all", "quorum"}
    BY DEF Sound, PlanOK
  <1>2. p.completion[s] = "quorum" => p.required[s] \in Nat
    BY DEF Sound, FlowOK
  <1>3. Cardinality(candidates) \in Nat
    BY FS_CardinalityType
  <1> QED BY <1>1, <1>2, <1>3 DEF RequiredApprovals

(* What activation does to the task of a step it visits.                    *)
VisitLeaves(p, tasks, s, task) ==
    /\ task.status \in {"pending", "rejected"}
    /\ s \in DOMAIN tasks => /\ tasks[s].status = "pending"
                             /\ task.decisions = tasks[s].decisions
                             /\ task.scope = tasks[s].scope
                             /\ s \notin p.dynamic => task.candidates = tasks[s].candidates
    /\ s \notin DOMAIN tasks => task.decisions = {} /\ task.status = "pending"
    /\ task.status = "pending" => Enough(p, s, task, Others(p, tasks, s))

LEMMA ReconciledLeaves ==
    ASSUME IsFiniteSet(Users), NEW p, Sound(p), NEW tasks, NEW s \in p.steps,
           NEW listed, s \in p.dynamic => listed \in SUBSET Users,
           s \in DOMAIN tasks, tasks[s] \in Tasks(p), tasks[s].status = "pending",
           OneVoteEach(tasks[s]), ~ReconciledTask(p, tasks, s, listed).failed
    PROVE  VisitLeaves(p, tasks, s, ReconciledTask(p, tasks, s, listed).task)
  <1> DEFINE task  == tasks[s]
             used  == UsedByOthers(tasks, ScopeOf(p, s), s)
             found == Resolve(p, s, listed, {p.self[s]} \cup used)
             fresh == IF s \notin p.dynamic THEN task
                      ELSE IF found.kind = "none" THEN [task EXCEPT !.candidates = {}]
                      ELSE [task EXCEPT !.candidates = found.users,
                                        !.usedFallback = found.usedFallback]
             hopeless == Verdicts(task, "approve") + Cardinality(Available(task, fresh, used))
                           < RequiredApprovals(p, s, fresh.candidates)
             result == IF hopeless THEN [fresh EXCEPT !.status = "rejected"] ELSE fresh
  <1>1. ReconciledTask(p, tasks, s, listed).task = result
    BY DEF ReconciledTask, Failed
  <1>2. s \in p.dynamic => found.users \in SUBSET Users /\ found.usedFallback \in BOOLEAN
    BY ResolveType DEF Sound
  <1>3. used = Others(p, tasks, s)
    BY DEF Others
  <1> HIDE DEF found, used
  <1>4. /\ fresh \in Tasks(p) /\ fresh.decisions = task.decisions /\ fresh.scope = task.scope
        /\ fresh.status = "pending"
        /\ s \notin p.dynamic => fresh.candidates = task.candidates
    BY <1>2 DEF Tasks
  <1> HIDE DEF fresh
  <1>5. CASE hopeless
    <2>1. result = [fresh EXCEPT !.status = "rejected"]
      BY <1>5
    <2>2. /\ result.status = "rejected" /\ result.decisions = fresh.decisions
          /\ result.scope = fresh.scope /\ result.candidates = fresh.candidates
      BY <1>4, <2>1 DEF Tasks
    <2> HIDE DEF result
    <2> QED BY <1>1, <1>4, <2>2 DEF VisitLeaves
  <1>6. CASE ~hopeless
    <2>1. result = fresh
      BY <1>6
    <2>2. OneVoteEach(fresh)
      BY <1>4 DEF OneVoteEach
    <2>3. /\ Verdicts(fresh, "approve") \in Nat
          /\ Cardinality(fresh.candidates \ (Deciders(fresh) \cup used)) \in Nat
          /\ RequiredApprovals(p, s, fresh.candidates) \in Nat
      BY <1>4, <2>2, TaskCounts, RequiredType
    <2>4. /\ Verdicts(task, "approve") = Verdicts(fresh, "approve")
          /\ Deciders(task) = Deciders(fresh)
      BY <1>4 DEF Verdicts, Deciders
    <2>5. Available(task, fresh, used) = fresh.candidates \ (Deciders(fresh) \cup used)
      BY <2>4 DEF Available
    <2>6. Enough(p, s, fresh, used)
      BY <1>6, <2>3, <2>4, <2>5 DEF Enough
    <2> HIDE DEF result, hopeless
    <2> QED BY <1>1, <1>3, <1>4, <2>1, <2>6 DEF VisitLeaves
  <1> QED BY <1>5, <1>6

LEMMA NewLeaves ==
    ASSUME IsFiniteSet(Users), NEW p, Sound(p), NEW tasks, NEW now \in Nat, NEW s \in p.steps,
           NEW listed \in SUBSET Users, s \notin DOMAIN tasks,
           ~NewTask(p, tasks, now, s, listed).failed
    PROVE  VisitLeaves(p, tasks, s, NewTask(p, tasks, now, s, listed).task)
  <1> DEFINE excluded == {p.self[s]} \cup UsedInScope(tasks, ScopeOf(p, s))
             found == Resolve(p, s, listed, excluded)
             minimum == IF p.completion[s] = "quorum" THEN p.required[s] ELSE 1
             task  == NewTask(p, tasks, now, s, listed).task
  <1>1. /\ task.status = "pending" /\ task.decisions = {} /\ task.candidates = found.users
        /\ found.kind = "found" /\ found.users # {} /\ ~(Cardinality(found.users) < minimum)
    BY DEF NewTask, Failed
  <1>2. found.users \cap excluded = {}
    BY <1>1 DEF Resolve
  <1>3. Others(p, tasks, s) \subseteq excluded
    BY DEF Others, UsedByOthers, UsedInScope
  <1>4. task \in Tasks(p)
    BY NewTaskType DEF Sound
  <1> HIDE DEF task, found, excluded
  <1>5. OneVoteEach(task) /\ Deciders(task) = {} /\ VotesFor(task, "approve") = {}
    BY <1>1 DEF OneVoteEach, Deciders, VotesFor
  <1>6. /\ Verdicts(task, "approve") = 0 /\ IsFiniteSet(task.candidates)
        /\ Cardinality(task.candidates) \in Nat
    BY <1>4, <1>5, TaskCounts
  <1>7. task.candidates \ (Deciders(task) \cup Others(p, tasks, s)) = task.candidates
    BY <1>1, <1>2, <1>3, <1>5
  <1>8. Cardinality(task.candidates) # 0
    BY <1>1, <1>6, FS_EmptySet
  <1>9. Cardinality(task.candidates) >= RequiredApprovals(p, s, task.candidates)
    <2>1. p.completion[s] \in {"any", "all", "quorum"}
      BY DEF Sound, PlanOK
    <2>2. p.completion[s] = "quorum" => p.required[s] \in Nat
      BY DEF Sound, FlowOK
    <2> QED BY <1>1, <1>6, <1>8, <2>1, <2>2 DEF RequiredApprovals
  <1>10. Enough(p, s, task, Others(p, tasks, s))
    BY <1>6, <1>7, <1>9 DEF Enough
  <1> QED BY <1>1, <1>10 DEF VisitLeaves, task

(* What an activation that does not fail does to the tasks.                 *)
Activated(p, tasks, next) ==
    /\ DOMAIN next = DOMAIN tasks \cup Ready(p, tasks)
    /\ \A s \in DOMAIN tasks \ Ready(p, tasks) : next[s] = tasks[s]
    /\ \A s \in Ready(p, tasks) : VisitLeaves(p, tasks, s, next[s])

LEMMA ActivationLeaves ==
    ASSUME IsFiniteSet(Users), NEW p, Sound(p), NEW tasks \in TaskMaps(p), NEW now \in Nat,
           \A s \in DOMAIN tasks : OneVoteEach(tasks[s]),
           NEW lists, \A s \in Asked(p, tasks) : lists[s] \in SUBSET Users,
           ~Activation(p, tasks, now, lists).failed
    PROVE  Activated(p, tasks, Activation(p, tasks, now, lists).tasks)
  <1> DEFINE visited == Ready(p, tasks)
             Visit(s) == VisitedTask(p, tasks, now, s, lists[s])
             next == [s \in DOMAIN tasks \cup visited |->
                        IF s \in visited THEN Visit(s).task ELSE tasks[s]]
  <1>1. /\ Activation(p, tasks, now, lists).tasks = next
        /\ \A s \in visited : ~Visit(s).failed
    BY DEF Activation, Failed
  <1>2. \A s \in DOMAIN tasks : tasks[s] \in Tasks(p)
    BY TaskMapsMembers
  <1>3. ASSUME NEW s \in visited PROVE VisitLeaves(p, tasks, s, Visit(s).task)
    <2>1. s \in p.steps /\ StepStatus(tasks, s) \in Open
      BY DEF Ready
    <2>2. CASE s \in DOMAIN tasks
      <3>1. tasks[s].status = "pending"
        <4>1. tasks[s].status \in TaskStatuses
          BY <1>2, <2>2 DEF Tasks
        <4> QED BY <2>1, <2>2, <4>1 DEF StepStatus, Open, TaskStatuses
      <3>2. s \in p.dynamic => lists[s] \in SUBSET Users
        BY DEF Asked
      <3>3. Visit(s) = ReconciledTask(p, tasks, s, lists[s])
        BY <2>2 DEF VisitedTask
      <3>4. ~ReconciledTask(p, tasks, s, lists[s]).failed /\ OneVoteEach(tasks[s])
            /\ tasks[s] \in Tasks(p)
        BY <1>1, <1>2, <2>2, <3>3
      <3> HIDE DEF visited, Visit
      <3> QED BY <2>1, <2>2, <3>1, <3>2, <3>3, <3>4, ReconciledLeaves
    <2>3. CASE s \notin DOMAIN tasks
      <3>1. lists[s] \in SUBSET Users
        BY <2>3 DEF Asked
      <3>2. Visit(s) = NewTask(p, tasks, now, s, lists[s])
        BY <2>3 DEF VisitedTask
      <3>3. ~NewTask(p, tasks, now, s, lists[s]).failed
        BY <1>1, <3>2
      <3> HIDE DEF visited, Visit
      <3> QED BY <2>1, <2>3, <3>1, <3>2, <3>3, NewLeaves
    <2> QED BY <2>2, <2>3
  <1> HIDE DEF Visit
  <1>4. Activated(p, tasks, next)
    BY <1>3 DEF Activated
  <1> QED BY <1>1, <1>4

-----------------------------------------------------------------------------
LEMMA ActivatedKeepsOrder ==
    ASSUME NEW p, Sound(p), NEW tasks \in TaskMaps(p), NEW next \in TaskMaps(p),
           Settles(tasks, next), Activated(p, tasks, next), SerialOrder(p, tasks)
    PROVE  SerialOrder(p, next)
  <1> SUFFICES ASSUME NEW g \in p.groups, p.strategy[g] = "serial",
                      NEW i \in DOMAIN p.children[g], NEW j \in DOMAIN p.children[g],
                      i < j, NEW s \in Below(p)[p.children[g][j]], s \in DOMAIN next
               PROVE  FlowStatus(p, next)[p.children[g][i]] = "approved"
    BY DEF SerialOrder
  <1>1. s \in DOMAIN tasks \/ s \in Ready(p, tasks)
    BY DEF Activated
  <1>2. FlowStatus(p, tasks)[p.children[g][i]] = "approved"
    BY <1>1, ReadyInOrder DEF SerialOrder
  <1>3. p.children[g][i] \in Nodes(p)
    BY GroupShape
  <1> QED BY <1>2, <1>3, SettledFlow

(* Activation approves nothing, so no new step becomes ready.               *)
LEMMA ReadyShrinks ==
    ASSUME NEW p, Sound(p), NEW tasks \in TaskMaps(p), NEW next \in TaskMaps(p),
           Settles(tasks, next), Activated(p, tasks, next)
    PROVE  Ready(p, next) \subseteq Ready(p, tasks)
  <1> DEFINE old == LeavesOf(p, tasks)
             new == LeavesOf(p, next)
  <1>1. /\ old \in Leaves(p) /\ new \in Leaves(p)
        /\ FlowStatus(p, tasks) = StatusOf(p, old) /\ FlowStatus(p, next) = StatusOf(p, new)
        /\ \A s \in p.steps : old[s] = StepStatus(tasks, s) /\ new[s] = StepStatus(next, s)
    BY LeavesType
  <1> HIDE DEF old, new
  <1>2. ASSUME NEW s \in p.steps, new[s] = "approved" PROVE old[s] = "approved"
    <2>1. s \in DOMAIN next /\ next[s].status = "approved"
      BY <1>1, <1>2 DEF StepStatus
    <2>2. s \notin Ready(p, tasks)
      BY <2>1 DEF Activated, VisitLeaves
    <2>3. s \in DOMAIN tasks /\ next[s] = tasks[s]
      BY <2>1, <2>2 DEF Activated
    <2> QED BY <1>1, <2>1, <2>3 DEF StepStatus
  <1>3. \A n \in Nodes(p) : StatusOf(p, new)[n] = "approved" => StatusOf(p, old)[n] = "approved"
    BY <1>1, <1>2, ApprovedMonotone
  <1>4. \A n \in Nodes(p) :
          /\ StatusOf(p, old)[n] = "approved" => StatusOf(p, new)[n] = "approved"
          /\ StatusOf(p, old)[n] \in Bad => StatusOf(p, new)[n] \in Bad
    BY <1>1, SettledFlow
  <1>5. \A n \in Nodes(p) : StatusOf(p, old)[n] \in StepStatuses
    BY <1>1, StatusType
  <1> SUFFICES ASSUME NEW s \in Ready(p, next) PROVE s \in Ready(p, tasks)
    OBVIOUS
  <1>6. /\ s \in p.steps /\ StepStatus(next, s) \in Open
        /\ \A g \in p.groups : s \in Below(p)[g] =>
             /\ StatusOf(p, new)[g] \in Open
             /\ \E i \in DOMAIN p.children[g] :
                  /\ s \in Below(p)[p.children[g][i]]
                  /\ p.strategy[g] = "serial" => i = Turn(p, new, g)
    BY <1>1, ReadyMembers DEF new
  <1>7. StepStatus(tasks, s) \in Open
    <2>1. CASE s \notin DOMAIN tasks
      BY <2>1 DEF StepStatus, Open
    <2>2. CASE s \in DOMAIN tasks
      <3>1. tasks[s].status # "pending" => next[s].status = tasks[s].status
            /\ s \in DOMAIN next
        BY <2>2 DEF Settles
      <3>2. s \in DOMAIN next
        BY <2>2 DEF Settles
      <3>3. CASE tasks[s].status = "pending"
        BY <2>2, <3>3 DEF StepStatus, Open
      <3>4. CASE tasks[s].status # "pending"
        BY <1>6, <2>2, <3>1, <3>2, <3>4 DEF StepStatus
      <3> QED BY <3>3, <3>4
    <2> QED BY <2>1, <2>2
  <1>8. ASSUME NEW g \in p.groups, s \in Below(p)[g]
        PROVE  /\ StatusOf(p, old)[g] \in Open
               /\ \E i \in DOMAIN p.children[g] :
                    /\ s \in Below(p)[p.children[g][i]]
                    /\ p.strategy[g] = "serial" => i = Turn(p, old, g)
    <2>1. /\ g \in Nodes(p) /\ \A i \in DOMAIN p.children[g] : p.children[g][i] \in Nodes(p)
      BY GroupShape
    <2>2. StatusOf(p, new)[g] \in Open
      BY <1>6, <1>8
    <2>3. StatusOf(p, old)[g] \in Open
      BY <1>4, <1>5, <2>1, <2>2 DEF Open, StepStatuses, Bad
    <2>4. PICK i \in DOMAIN p.children[g] : /\ s \in Below(p)[p.children[g][i]]
                                            /\ p.strategy[g] = "serial" => i = Turn(p, new, g)
      BY <1>6, <1>8
    <2>5. ASSUME p.strategy[g] = "serial" PROVE i = Turn(p, old, g)
      <3>1. /\ StatusOf(p, new)[g] # "approved"
            /\ StatusOf(p, new)[p.children[g][i]] = StatusOf(p, new)[g]
            /\ \A j \in DOMAIN p.children[g] : j < i =>
                 StatusOf(p, new)[p.children[g][j]] = "approved"
        <4>1. StatusOf(p, new)[g] # "approved"
          BY <2>2 DEF Open
        <4> QED BY <1>1, <2>4, <2>5, <4>1, SerialNode
      <3>2. /\ StatusOf(p, old)[p.children[g][i]] # "approved"
            /\ \A j \in DOMAIN p.children[g] : j < i =>
                 StatusOf(p, old)[p.children[g][j]] = "approved"
        BY <1>3, <1>4, <2>1, <3>1
      <3> QED BY <1>1, <2>5, <3>2, TurnUnique
    <2> QED BY <2>3, <2>4, <2>5
  <1> QED BY <1>1, <1>6, <1>7, <1>8, ReadyMembers DEF old

LEMMA OthersMembers ==
    ASSUME NEW p, NEW tasks, NEW s, NEW u
    PROVE  u \in Others(p, tasks, s) <=>
             /\ ScopeOf(p, s) # NoScope
             /\ \E t \in DOMAIN tasks : /\ t # s /\ tasks[t].scope = ScopeOf(p, s)
                                        /\ \E d \in tasks[t].decisions : d.user = u
BY DEF Others, UsedByOthers, Deciders

LEMMA OthersKept ==
    ASSUME NEW p, NEW tasks, NEW next, Extends(tasks, next), NEW s
    PROVE  Others(p, next, s) = Others(p, tasks, s)
  <1>1. /\ \A t \in DOMAIN tasks : /\ t \in DOMAIN next
                                   /\ next[t].decisions = tasks[t].decisions
                                   /\ next[t].scope = tasks[t].scope
        /\ \A t \in DOMAIN next : next[t].decisions # {} => t \in DOMAIN tasks
    BY DEF Extends
  <1>2. ASSUME NEW u PROVE u \in Others(p, next, s) <=> u \in Others(p, tasks, s)
    BY <1>1, OthersMembers
  <1> QED BY <1>2

(* Every step the flow still visits has a task with enough people left.     *)
Attended(p, tasks) ==
    \A s \in Ready(p, tasks) :
      s \in DOMAIN tasks /\ Enough(p, s, tasks[s], Others(p, tasks, s))

LEMMA ActivatedAttends ==
    ASSUME NEW p, Sound(p), NEW tasks \in TaskMaps(p), NEW next \in TaskMaps(p),
           Extends(tasks, next), Activated(p, tasks, next)
    PROVE  Attended(p, next)
  <1> SUFFICES ASSUME NEW s \in Ready(p, next)
               PROVE  s \in DOMAIN next /\ Enough(p, s, next[s], Others(p, next, s))
    BY DEF Attended
  <1>1. s \in Ready(p, tasks)
    BY ReadyShrinks, ExtendsSettles
  <1>2. s \in DOMAIN next /\ VisitLeaves(p, tasks, s, next[s])
    BY <1>1 DEF Activated
  <1>3. StepStatus(next, s) \in Open
    BY ReadyMembers
  <1>4. next[s].status = "pending"
    BY <1>2, <1>3 DEF VisitLeaves, StepStatus, Open
  <1> QED BY <1>2, <1>4, OthersKept DEF VisitLeaves

-----------------------------------------------------------------------------
(* An approved task was approved by votes of people who may cast them.      *)
Approvers(task) == {d.user : d \in VotesFor(task, "approve")}

EarnedTask(p, s, task) ==
    CASE p.completion[s] = "any"    -> Approvers(task) # {}
      [] p.completion[s] = "all"    -> task.candidates \subseteq Approvers(task)
      [] p.completion[s] = "quorum" -> Cardinality(Approvers(task)) >= p.required[s]

EarnedIn(p, tasks) ==
    \A s \in DOMAIN tasks :
      /\ tasks[s].status = "approved" => EarnedTask(p, s, tasks[s])
      /\ s \notin p.dynamic => Deciders(tasks[s]) \subseteq tasks[s].candidates

LEMMA ActivatedKeepsEarned ==
    ASSUME NEW p, NEW tasks, NEW next, Activated(p, tasks, next), EarnedIn(p, tasks)
    PROVE  EarnedIn(p, next)
  <1> SUFFICES ASSUME NEW s \in DOMAIN next
               PROVE  /\ next[s].status = "approved" => EarnedTask(p, s, next[s])
                      /\ s \notin p.dynamic => Deciders(next[s]) \subseteq next[s].candidates
    BY DEF EarnedIn
  <1>1. CASE s \in DOMAIN tasks \ Ready(p, tasks)
    BY <1>1 DEF Activated, EarnedIn
  <1>2. CASE s \in Ready(p, tasks)
    <2>1. VisitLeaves(p, tasks, s, next[s])
      BY <1>2 DEF Activated
    <2>2. next[s].status # "approved"
      BY <2>1 DEF VisitLeaves
    <2>3. CASE s \in DOMAIN tasks
      <3>1. Deciders(next[s]) = Deciders(tasks[s])
        BY <2>1, <2>3 DEF VisitLeaves, Deciders
      <3> QED BY <2>1, <2>2, <2>3, <3>1 DEF VisitLeaves, EarnedIn
    <2>4. CASE s \notin DOMAIN tasks
      <3>1. Deciders(next[s]) = {}
        BY <2>1, <2>4 DEF VisitLeaves, Deciders
      <3> QED BY <2>2, <3>1
    <2> QED BY <2>3, <2>4
  <1> QED BY <1>1, <1>2 DEF Activated

LEMMA ClosingKeepsEarned ==
    ASSUME NEW p, NEW tasks \in TaskMaps(p), NEW now, EarnedIn(p, tasks)
    PROVE  EarnedIn(p, CancelPending(tasks)) /\ EarnedIn(p, ExpireTasks(tasks, now))
  <1>1. \A s \in DOMAIN tasks : tasks[s] \in Tasks(p)
    BY TaskMapsMembers
  <1>2. ASSUME NEW s \in DOMAIN tasks, NEW status \in {"cancelled", "expired"},
               NEW task, task = [tasks[s] EXCEPT !.status = status]
        PROVE  /\ task.status # "approved" /\ Deciders(task) = Deciders(tasks[s])
               /\ task.candidates = tasks[s].candidates
    BY <1>1, <1>2 DEF Tasks, Deciders
  <1>3. EarnedIn(p, CancelPending(tasks))
    <2> SUFFICES ASSUME NEW s \in DOMAIN tasks
                 PROVE  LET task == CancelPending(tasks)[s]
                        IN  /\ task.status = "approved" => EarnedTask(p, s, task)
                            /\ s \notin p.dynamic => Deciders(task) \subseteq task.candidates
      BY DEF EarnedIn, CancelPending
    <2>1. CASE tasks[s].status = "pending"
      <3>1. CancelPending(tasks)[s] = [tasks[s] EXCEPT !.status = "cancelled"]
        BY <2>1 DEF CancelPending
      <3> QED BY <1>2, <3>1 DEF EarnedIn
    <2>2. CASE tasks[s].status # "pending"
      <3>1. CancelPending(tasks)[s] = tasks[s]
        BY <2>2 DEF CancelPending
      <3> QED BY <3>1 DEF EarnedIn
    <2> QED BY <2>1, <2>2
  <1>4. EarnedIn(p, ExpireTasks(tasks, now))
    <2> SUFFICES ASSUME NEW s \in DOMAIN tasks
                 PROVE  LET task == ExpireTasks(tasks, now)[s]
                        IN  /\ task.status = "approved" => EarnedTask(p, s, task)
                            /\ s \notin p.dynamic => Deciders(task) \subseteq task.candidates
      BY DEF EarnedIn, ExpireTasks
    <2>1. CASE IsDue(tasks[s], now)
      <3>1. ExpireTasks(tasks, now)[s] = [tasks[s] EXCEPT !.status = "expired"]
        BY <2>1 DEF ExpireTasks
      <3> QED BY <1>2, <3>1 DEF EarnedIn
    <2>2. CASE ~IsDue(tasks[s], now)
      <3>1. ExpireTasks(tasks, now)[s] = tasks[s]
        BY <2>2 DEF ExpireTasks
      <3> QED BY <3>1 DEF EarnedIn
    <2> QED BY <2>1, <2>2
  <1> QED BY <1>3, <1>4

(* A vote that completes a task does so by the votes it has.                *)
LEMMA VoteEarns ==
    ASSUME IsFiniteSet(Users), NEW p, Sound(p), NEW d \in EventsOf(p), NEW task \in Tasks(p),
           OneVoteEach(task), d.user \notin Deciders(task),
           d.step \notin p.dynamic => Deciders(task) \subseteq task.candidates
    PROVE  LET new == DecidedTask(p, task, d)
           IN  /\ new.status \in {"pending", "approved", "rejected"}
               /\ new.status = "approved" => EarnedTask(p, d.step, new)
               /\ d.step \notin p.dynamic => Deciders(new) \subseteq new.candidates
  <1> DEFINE vote  == [key |-> d.key, user |-> d.user, verdict |-> d.verdict]
             voted == [task EXCEPT !.candidates = @ \cup {d.user}, !.decisions = @ \cup {vote}]
             new   == DecidedTask(p, task, d)
             s     == d.step
  <1>1. /\ voted.candidates = task.candidates \cup {d.user}
        /\ voted.decisions = task.decisions \cup {vote}
    BY DEF Tasks
  <1>2. vote \in AllVotes /\ vote.user = d.user /\ d.user \in Users /\ s \in p.steps
    BY DEF AllVotes, EventsOf
  <1>3. voted \in Tasks(p)
    BY <1>2 DEF Tasks, AllVotes
  <1>4. new = [voted EXCEPT !.status = TaskCompletion(p, s, voted)]
    BY DEF DecidedTask
  <1> HIDE DEF voted, new, vote
  <1>5. /\ new.status = TaskCompletion(p, s, voted) /\ new.candidates = voted.candidates
        /\ new.decisions = voted.decisions
    BY <1>3, <1>4 DEF Tasks
  <1>6. OneVoteEach(voted)
    BY <1>1, <1>2 DEF OneVoteEach, Deciders
  <1>7. Deciders(voted) = Deciders(task) \cup {d.user}
    BY <1>1, <1>2 DEF Deciders
  <1>8. Deciders(new) = Deciders(voted) /\ Approvers(new) = Approvers(voted)
    BY <1>5 DEF Deciders, Approvers, VotesFor
  <1>9. s \notin p.dynamic => Deciders(new) \subseteq new.candidates
    BY <1>1, <1>5, <1>7, <1>8
  <1>10. /\ \A v : /\ Verdicts(voted, v) \in Nat
                   /\ Verdicts(voted, v) = Cardinality({e.user : e \in VotesFor(voted, v)})
                   /\ Verdicts(voted, v) = 0 <=> VotesFor(voted, v) = {}
         /\ IsFiniteSet(voted.candidates) /\ Cardinality(voted.candidates) \in Nat
    BY <1>3, <1>6, TaskCounts
  <1>11. Verdicts(voted, "approve") = Cardinality(Approvers(voted))
    BY <1>10 DEF Approvers
  <1>12. p.completion[s] \in {"any", "all", "quorum"}
         /\ (p.completion[s] # "any" => s \notin p.dynamic)
    BY <1>2 DEF Sound, PlanOK
  <1>13. new.status \in {"pending", "approved", "rejected"}
    BY <1>5, <1>12 DEF TaskCompletion
  <1>14. ASSUME new.status = "approved" PROVE EarnedTask(p, s, new)
    <2>1. CASE p.completion[s] = "any"
      <3>1. Verdicts(voted, "approve") > 0
        BY <1>5, <1>14, <2>1 DEF TaskCompletion
      <3>2. VotesFor(voted, "approve") # {}
        BY <1>10, <3>1
      <3> QED BY <1>8, <2>1, <3>2 DEF EarnedTask, Approvers
    <2>2. CASE p.completion[s] = "all"
      <3>1. /\ ~(Verdicts(voted, "reject") > 0)
            /\ Verdicts(voted, "approve") >= Cardinality(voted.candidates)
        BY <1>5, <1>14, <2>2 DEF TaskCompletion
      <3>2. VotesFor(voted, "reject") = {}
        BY <1>10, <3>1
      <3>3. \A e \in voted.decisions : e.verdict \in {"approve", "reject"}
        BY <1>3 DEF Tasks, Verdict
      <3>4. Approvers(voted) = Deciders(voted)
        BY <3>2, <3>3 DEF Approvers, Deciders, VotesFor
      <3>5. Approvers(voted) \subseteq voted.candidates
        BY <1>5, <1>8, <1>9, <1>12, <2>2, <3>4
      <3>6. /\ Cardinality(Approvers(voted)) <= Cardinality(voted.candidates)
            /\ Cardinality(voted.candidates) = Cardinality(Approvers(voted)) =>
                 voted.candidates = Approvers(voted)
        BY <1>10, <3>5, FS_Subset
      <3>7. Cardinality(voted.candidates) = Cardinality(Approvers(voted))
        BY <1>10, <1>11, <3>1, <3>6
      <3> QED BY <1>5, <1>8, <2>2, <3>6, <3>7 DEF EarnedTask
    <2>3. CASE p.completion[s] = "quorum"
      <3>1. Verdicts(voted, "approve") >= p.required[s]
        BY <1>5, <1>14, <2>3 DEF TaskCompletion, QuorumMet
      <3> QED BY <1>8, <1>11, <2>3, <3>1 DEF EarnedTask
    <2> QED BY <1>12, <2>1, <2>2, <2>3
  <1> QED BY <1>9, <1>13, <1>14 DEF new

-----------------------------------------------------------------------------
(* The steps that were not refused, read off the tasks: the cancelled ones  *)
(* were still undecided when the root closed over them.                     *)
AliveOf(p, tasks) == {s \in p.steps : s \in DOMAIN tasks => tasks[s].status \notin Bad}

Uncancelled(tasks) == \A s \in DOMAIN tasks : tasks[s].status # "cancelled"

(* The root can pass, or cannot, when the steps of S do.                    *)
CanPass(p, S)    == \A P \in SUBSET Nodes(p) : Passes(p, S, P) => p.root \in P
CannotPass(p, S) == \A P \in SUBSET Nodes(p) : Passes(p, S, P) => p.root \notin P

(* The tasks are in order, earned, and each is voted on once by a user.     *)
TasksHeld(p, tasks) ==
    /\ SerialOrder(p, tasks)
    /\ EarnedIn(p, tasks)
    /\ \A s \in DOMAIN tasks : OneVoteEach(tasks[s])

(* The status of a runtime agrees with its flow.                            *)
StatusHeld(p, r) ==
    /\ r.status # "cancelled"
    /\ r.status = "pending" =>
         /\ FlowStatus(p, r.tasks)[p.root] \notin Closed
         /\ Uncancelled(r.tasks)
    /\ r.status \in Closed =>
         /\ FlowStatus(p, r.tasks)[p.root] \in Closed
         /\ (r.status = "approved" <=> FlowStatus(p, r.tasks)[p.root] = "approved")
         /\ \A s \in DOMAIN r.tasks : r.tasks[s].status # "pending"
         /\ r.status # "approved" => CannotPass(p, AliveOf(p, r.tasks))

Held(p, r) == TasksHeld(p, r.tasks) /\ StatusHeld(p, r)

LEMMA ClosedIsApprovedOrBad ==
    Closed = {"approved"} \cup Bad /\ "approved" \notin Bad /\ "pending" \notin Bad
BY DEF Closed, Bad

LEMMA RootIsNode == ASSUME NEW p, Sound(p) PROVE p.root \in Nodes(p)
BY DEF Sound, PlanOK

LEMMA AliveLeaves ==
    ASSUME NEW p, NEW tasks \in TaskMaps(p), Uncancelled(tasks)
    PROVE  AliveOf(p, tasks) = AliveSteps(p, LeavesOf(p, tasks))
  <1>1. ASSUME NEW s \in p.steps
        PROVE  (s \in DOMAIN tasks => tasks[s].status \notin Bad)
                 <=> LeavesOf(p, tasks)[s] \notin Bad
    BY DEF LeavesOf, StepStatus, Uncancelled, Bad
  <1> QED BY <1>1 DEF AliveOf, AliveSteps

(* The root of an undecided flow is refused when approval is out of reach.  *)
LEMMA RefusedCannotPass ==
    ASSUME NEW p, Sound(p), NEW tasks \in TaskMaps(p), Uncancelled(tasks),
           FlowStatus(p, tasks)[p.root] \in Bad
    PROVE  CannotPass(p, AliveOf(p, tasks))
  <1>1. /\ LeavesOf(p, tasks) \in Leaves(p)
        /\ FlowStatus(p, tasks) = StatusOf(p, LeavesOf(p, tasks))
    BY LeavesType
  <1>2. AliveOf(p, tasks) = AliveSteps(p, LeavesOf(p, tasks))
    BY AliveLeaves
  <1> QED BY <1>1, <1>2, RootIsNode, BadCannotPass DEF CannotPass

(* and only then.                                                           *)
LEMMA UnrefusedCanPass ==
    ASSUME NEW p, Sound(p), NEW tasks \in TaskMaps(p), Uncancelled(tasks),
           SerialOrder(p, tasks), FlowStatus(p, tasks)[p.root] \notin Bad
    PROVE  CanPass(p, AliveOf(p, tasks))
  <1> DEFINE leaves == LeavesOf(p, tasks)
  <1>1. /\ leaves \in Leaves(p) /\ FlowStatus(p, tasks) = StatusOf(p, leaves)
        /\ \A s \in p.steps : leaves[s] = StepStatus(tasks, s)
    BY LeavesType
  <1>2. AliveOf(p, tasks) = AliveSteps(p, leaves)
    BY AliveLeaves
  <1> HIDE DEF leaves
  <1>3. ASSUME NEW g \in p.groups, p.strategy[g] = "serial",
               NEW i \in DOMAIN p.children[g], NEW j \in DOMAIN p.children[g],
               i < j, StatusOf(p, leaves)[p.children[g][i]] # "approved"
        PROVE  Below(p)[p.children[g][j]] \cap p.steps \subseteq AliveSteps(p, leaves)
    <2>1. Below(p)[p.children[g][j]] \cap DOMAIN tasks = {}
      BY <1>1, <1>3 DEF SerialOrder
    <2>2. ASSUME NEW s \in Below(p)[p.children[g][j]] \cap p.steps
          PROVE  leaves[s] \notin Bad
      <3>1. s \notin DOMAIN tasks
        BY <2>1
      <3> QED BY <1>1, <3>1 DEF StepStatus, Bad
    <2> QED BY <2>2 DEF AliveSteps
  <1>4. ASSUME NEW P, Passes(p, AliveSteps(p, leaves), P) PROVE p.root \in P
    <2>1. \A n \in Nodes(p) : StatusOf(p, leaves)[n] \notin Bad => n \in P
      BY <1>1, <1>3, <1>4, AliveCanPass
    <2> QED BY <1>1, <2>1, RootIsNode
  <1> QED BY <1>2, <1>4 DEF CanPass

(* cancelPendingTasks leaves everything that holds of the tasks.            *)
LEMMA CancellingKeeps ==
    ASSUME NEW p, Sound(p), NEW tasks \in TaskMaps(p), TasksHeld(p, tasks)
    PROVE  /\ TasksHeld(p, CancelPending(tasks))
           /\ AliveOf(p, CancelPending(tasks)) = AliveOf(p, tasks)
           /\ \A s \in DOMAIN CancelPending(tasks) : CancelPending(tasks)[s].status # "pending"
  <1> DEFINE next == CancelPending(tasks)
  <1>1. next \in TaskMaps(p) /\ Extends(tasks, next) /\ DOMAIN next = DOMAIN tasks
    BY CancelPendingExtends DEF CancelPending
  <1>2. \A s \in DOMAIN tasks : tasks[s] \in Tasks(p)
    BY TaskMapsMembers
  <1>3. ASSUME NEW s \in DOMAIN tasks
        PROVE  /\ next[s].decisions = tasks[s].decisions
               /\ next[s].status = IF tasks[s].status = "pending" THEN "cancelled"
                                   ELSE tasks[s].status
    BY <1>2 DEF Tasks, CancelPending
  <1>4. EarnedIn(p, next)
    BY ClosingKeepsEarned DEF TasksHeld
  <1> HIDE DEF next
  <1>5. SerialOrder(p, next)
    BY <1>1, ExtendsSettles, SettlingKeepsOrder DEF TasksHeld
  <1>6. \A s \in DOMAIN next : OneVoteEach(next[s])
    BY <1>1, <1>3 DEF OneVoteEach, TasksHeld
  <1>7. AliveOf(p, next) = AliveOf(p, tasks)
    BY <1>1, <1>3 DEF AliveOf, Bad
  <1>8. \A s \in DOMAIN next : next[s].status # "pending"
    BY <1>1, <1>3
  <1> QED BY <1>4, <1>5, <1>6, <1>7, <1>8 DEF TasksHeld, next

(* updateRootStatus establishes the agreement.                              *)
LEMMA UpdateRootHolds ==
    ASSUME NEW p, Sound(p), NEW r \in RuntimeStates(p), TasksHeld(p, r.tasks),
           Uncancelled(r.tasks)
    PROVE  /\ Held(p, UpdateRoot(p, r))
           /\ UpdateRoot(p, r).status = "pending" => UpdateRoot(p, r).tasks = r.tasks
  <1> DEFINE root == FlowStatus(p, r.tasks)[p.root]
             next == UpdateRoot(p, r)
  <1>1. r.tasks \in TaskMaps(p)
    BY DEF RuntimeStates
  <1>2. CASE root \notin Closed
    <2>1. next = [r EXCEPT !.status = "pending"]
      BY <1>2 DEF UpdateRoot, ClosesOn
    <2>2. next.status = "pending" /\ next.tasks = r.tasks
      BY <2>1 DEF RuntimeStates
    <2>3. StatusHeld(p, next)
      BY <1>2, <2>2 DEF StatusHeld, Closed
    <2> HIDE DEF next
    <2> QED BY <2>2, <2>3 DEF Held, next
  <1>3. CASE root \in Closed
    <2>1. next = [r EXCEPT !.status = root, !.tasks = CancelPending(r.tasks)]
      BY <1>3 DEF UpdateRoot, ClosesOn
    <2>2. next.status = root /\ next.tasks = CancelPending(r.tasks)
      BY <2>1 DEF RuntimeStates
    <2>3. /\ TasksHeld(p, next.tasks) /\ AliveOf(p, next.tasks) = AliveOf(p, r.tasks)
          /\ \A s \in DOMAIN next.tasks : next.tasks[s].status # "pending"
      BY <1>1, <2>2, CancellingKeeps
    <2>4. /\ next.tasks \in TaskMaps(p) /\ Settles(r.tasks, next.tasks)
      BY <1>1, <2>2, CancelPendingExtends, ExtendsSettles
    <2> HIDE DEF next
    <2>5. /\ root = "approved" => FlowStatus(p, next.tasks)[p.root] = "approved"
          /\ root \in Bad => FlowStatus(p, next.tasks)[p.root] \in Bad
      BY <1>1, <2>4, RootIsNode, SettledFlow
    <2>6. root # "approved" => CannotPass(p, AliveOf(p, next.tasks))
      BY <1>1, <1>3, <2>3, ClosedIsApprovedOrBad, RefusedCannotPass
    <2> HIDE DEF root
    <2>7. StatusHeld(p, next)
      BY <1>3, <2>2, <2>3, <2>5, <2>6, ClosedIsApprovedOrBad DEF StatusHeld, Closed
    <2> QED BY <1>3, <2>2, <2>3, <2>7 DEF Held, next, Closed
  <1> QED BY <1>2, <1>3

(* An activation of an undecided flow, then updateRootStatus.               *)
LEMMA ActivateAndUpdateHolds ==
    ASSUME IsFiniteSet(Users), NEW p, Sound(p), NEW r \in RuntimeStates(p), NEW now \in Nat,
           TasksHeld(p, r.tasks), Uncancelled(r.tasks),
           NEW lists, \A s \in Asked(p, r.tasks) : lists[s] \in SUBSET Users,
           ~ActivateAndUpdate(p, r, now, lists).failed
    PROVE  LET next == ActivateAndUpdate(p, r, now, lists).rt
           IN  Held(p, next) /\ (next.status = "pending" => Attended(p, next.tasks))
  <1> DEFINE done == Activation(p, r.tasks, now, lists)
             mid  == [r EXCEPT !.tasks = done.tasks]
  <1>1. ~done.failed /\ ActivateAndUpdate(p, r, now, lists).rt = UpdateRoot(p, mid)
    BY DEF ActivateAndUpdate, Failed
  <1>2. r.tasks \in TaskMaps(p) /\ PlanOK(p)
    BY DEF RuntimeStates, Sound
  <1>3. done.tasks \in TaskMaps(p) /\ Extends(r.tasks, done.tasks)
    BY <1>1, <1>2, ActivationExtends
  <1>4. Activated(p, r.tasks, done.tasks)
    BY <1>1, <1>2, ActivationLeaves DEF TasksHeld
  <1> HIDE DEF done
  <1>5. mid \in RuntimeStates(p) /\ mid.tasks = done.tasks
    BY <1>3 DEF RuntimeStates
  <1> HIDE DEF mid
  <1>6. SerialOrder(p, mid.tasks) /\ EarnedIn(p, mid.tasks)
    BY <1>2, <1>3, <1>4, <1>5, ExtendsSettles, ActivatedKeepsOrder, ActivatedKeepsEarned
    DEF TasksHeld
  <1>7. ASSUME NEW s \in DOMAIN mid.tasks
        PROVE  OneVoteEach(mid.tasks[s]) /\ mid.tasks[s].status # "cancelled"
    <2>1. CASE s \in DOMAIN r.tasks \ Ready(p, r.tasks)
      BY <1>4, <1>5, <2>1 DEF Activated, TasksHeld, Uncancelled
    <2>2. CASE s \in Ready(p, r.tasks)
      <3>1. VisitLeaves(p, r.tasks, s, mid.tasks[s])
        BY <1>4, <1>5, <2>2 DEF Activated
      <3>2. mid.tasks[s].status # "cancelled"
        BY <3>1 DEF VisitLeaves
      <3>3. s \in DOMAIN r.tasks => mid.tasks[s].decisions = r.tasks[s].decisions
        BY <3>1 DEF VisitLeaves
      <3>4. s \notin DOMAIN r.tasks => mid.tasks[s].decisions = {}
        BY <3>1 DEF VisitLeaves
      <3> QED BY <3>2, <3>3, <3>4 DEF OneVoteEach, TasksHeld
    <2> QED BY <1>4, <1>5, <2>1, <2>2 DEF Activated
  <1>8. TasksHeld(p, mid.tasks) /\ Uncancelled(mid.tasks)
    BY <1>6, <1>7 DEF TasksHeld, Uncancelled
  <1>9. Attended(p, mid.tasks)
    BY <1>2, <1>3, <1>4, <1>5, ActivatedAttends
  <1> QED BY <1>1, <1>5, <1>8, <1>9, UpdateRootHolds

(* expireApprovalRuntimeV1 before its activation.                           *)
LEMMA ExpiringKeeps ==
    ASSUME NEW p, Sound(p), NEW tasks \in TaskMaps(p), NEW now, TasksHeld(p, tasks)
    PROVE  /\ TasksHeld(p, ExpireTasks(tasks, now))
           /\ Uncancelled(tasks) => Uncancelled(ExpireTasks(tasks, now))
  <1> DEFINE next == ExpireTasks(tasks, now)
  <1>1. next \in TaskMaps(p) /\ Extends(tasks, next) /\ DOMAIN next = DOMAIN tasks
    BY ExpireTasksExtends DEF ExpireTasks
  <1>2. \A s \in DOMAIN tasks : tasks[s] \in Tasks(p)
    BY TaskMapsMembers
  <1>3. ASSUME NEW s \in DOMAIN tasks
        PROVE  /\ next[s].decisions = tasks[s].decisions
               /\ next[s].status \in {tasks[s].status, "expired"}
    BY <1>2 DEF Tasks, ExpireTasks
  <1>4. EarnedIn(p, next)
    BY ClosingKeepsEarned DEF TasksHeld
  <1> HIDE DEF next
  <1>5. SerialOrder(p, next)
    BY <1>1, ExtendsSettles, SettlingKeepsOrder DEF TasksHeld
  <1>6. \A s \in DOMAIN next : OneVoteEach(next[s])
    BY <1>1, <1>3 DEF OneVoteEach, TasksHeld
  <1>7. Uncancelled(tasks) => Uncancelled(next)
    BY <1>1, <1>3 DEF Uncancelled
  <1> QED BY <1>4, <1>5, <1>6, <1>7 DEF TasksHeld, next

-----------------------------------------------------------------------------
(* A closed runtime is left alone, whatever operation reaches it.           *)
Sealed(r, next) ==
    /\ next.tasks = r.tasks
    /\ next.status \in Closed
    /\ (next.status = "approved" <=> r.status = "approved")

LEMMA ExpiringClosed ==
    ASSUME NEW p, NEW tasks \in TaskMaps(p), NEW now,
           \A s \in DOMAIN tasks : tasks[s].status # "pending"
    PROVE  ExpireTasks(tasks, now) = tasks
  <1>1. \A s \in DOMAIN tasks : ~IsDue(tasks[s], now)
    BY DEF IsDue
  <1>2. ExpireTasks(tasks, now) = [s \in DOMAIN tasks |-> tasks[s]]
    BY <1>1 DEF ExpireTasks
  <1>3. tasks = [s \in DOMAIN tasks |-> tasks[s]]
    BY TaskMapsMembers
  <1> QED BY <1>2, <1>3

LEMMA ActivateAndUpdateClosed ==
    ASSUME NEW p, Sound(p), NEW r \in RuntimeStates(p), Held(p, r), r.status \in Closed,
           NEW now, NEW lists
    PROVE  LET done == ActivateAndUpdate(p, r, now, lists)
           IN  Held(p, done.rt) /\ Sealed(r, done.rt)
  <1> DEFINE root == FlowStatus(p, r.tasks)[p.root]
             next == UpdateRoot(p, r)
  <1>1. r.tasks \in TaskMaps(p) /\ r = [status |-> r.status, tasks |-> r.tasks,
                                        processed |-> r.processed]
    BY DEF RuntimeStates
  <1>2. /\ root \in Closed /\ (r.status = "approved" <=> root = "approved")
        /\ \A s \in DOMAIN r.tasks : r.tasks[s].status # "pending"
        /\ r.status # "approved" => CannotPass(p, AliveOf(p, r.tasks))
    BY DEF Held, StatusHeld
  <1>3. Ready(p, r.tasks) = {}
    BY <1>1, <1>2, ClosedFlowIsQuiet
  <1>4. r.tasks = [s \in DOMAIN r.tasks |-> r.tasks[s]]
    BY <1>1, TaskMapsMembers
  <1>5. Activation(p, r.tasks, now, lists) = [failed |-> FALSE, tasks |-> r.tasks]
    BY <1>3, <1>4 DEF Activation
  <1>6. [r EXCEPT !.tasks = r.tasks] = r
    BY <1>1
  <1>7. ActivateAndUpdate(p, r, now, lists).rt = next
    BY <1>5, <1>6 DEF ActivateAndUpdate
  <1>8. CancelPending(r.tasks) = r.tasks
    BY <1>2, <1>4 DEF CancelPending
  <1>9. next.status = root /\ next.tasks = r.tasks
    <2>1. next = [r EXCEPT !.status = root, !.tasks = r.tasks]
      BY <1>2, <1>8 DEF UpdateRoot, ClosesOn
    <2> HIDE DEF root, next
    <2> QED BY <1>1, <2>1
  <1> HIDE DEF next
  <1>10. Sealed(r, next)
    BY <1>2, <1>9 DEF Sealed
  <1>11. StatusHeld(p, next)
    BY <1>2, <1>9 DEF StatusHeld, Closed
  <1>12. TasksHeld(p, next.tasks)
    BY <1>9 DEF Held
  <1> QED BY <1>7, <1>10, <1>11, <1>12 DEF Held

-----------------------------------------------------------------------------
(* recordApprovalDecision keeps what holds; a closed runtime is unchanged.  *)
LEMMA RecordHolds ==
    ASSUME IsFiniteSet(Users), NEW p, Sound(p), NEW r \in RuntimeStates(p), Held(p, r),
           NEW d \in EventsOf(p), NEW live
    PROVE  LET next == Record(p, r, d, live).rt
           IN  Held(p, next) /\ (r.status \in Closed => next = r)
  <1> DEFINE mid == [r EXCEPT !.processed = @ \cup {d.key}, !.tasks = Voted(p, @, d)]
             next == Record(p, r, d, live).rt
  <1>1. CASE next = r
    BY <1>1
  <1>2. CASE next # r
    <2>1. /\ Refusal(p, r, d, live) = "none" /\ ~AlreadyProcessed(r, d)
          /\ next = UpdateRoot(p, mid)
      BY <1>2 DEF Record
    <2>2. CanVote(p, r, d)
      BY <2>1 DEF Refusal, UsedBefore, AlreadyProcessed, CanVote
    <2>3. /\ r.tasks \in TaskMaps(p) /\ d.step \in DOMAIN r.tasks /\ r.tasks[d.step] \in Tasks(p)
          /\ r.tasks[d.step].status = "pending" /\ d.user \notin Deciders(r.tasks[d.step])
      BY <2>2, TaskMapsMembers DEF RuntimeStates, CanVote
    <2>4. r.status \notin Closed
      BY <2>3 DEF Held, StatusHeld
    <2>5. r.status = "pending" /\ Uncancelled(r.tasks)
      BY <2>4 DEF Held, StatusHeld, RuntimeStates
    <2> DEFINE voted == Voted(p, r.tasks, d)
               task  == DecidedTask(p, r.tasks[d.step], d)
    <2>6. /\ DOMAIN voted = DOMAIN r.tasks /\ voted[d.step] = task
          /\ \A s \in DOMAIN r.tasks : s # d.step => voted[s] = r.tasks[s]
      BY <2>3 DEF Voted
    <2>7. /\ task \in Tasks(p)
          /\ task.decisions = r.tasks[d.step].decisions
               \cup {[key |-> d.key, user |-> d.user, verdict |-> d.verdict]}
      BY <2>3, DecidedTaskType DEF Sound
    <2>8. /\ task.status \in {"pending", "approved", "rejected"}
          /\ task.status = "approved" => EarnedTask(p, d.step, task)
          /\ d.step \notin p.dynamic => Deciders(task) \subseteq task.candidates
      BY <2>3, VoteEarns DEF Held, TasksHeld, EarnedIn
    <2>9. voted \in TaskMaps(p)
      <3>1. voted \in [DOMAIN r.tasks -> Tasks(p)]
        BY <2>3, <2>7, TaskMapsMembers DEF Voted
      <3> QED BY <2>3, <3>1, TaskMapsMembers, TaskMapsIntro
    <2>10. OneVoteEach(task)
      BY <2>3, <2>7 DEF OneVoteEach, Deciders, Held, TasksHeld
    <2>11. Settles(r.tasks, voted)
      BY <2>3, <2>6 DEF Settles
    <2>12. mid \in RuntimeStates(p) /\ mid.tasks = voted
      BY <2>9 DEF RuntimeStates, EventsOf
    <2> HIDE DEF voted, task, mid
    <2>13. SerialOrder(p, voted)
      BY <2>3, <2>6, <2>9, <2>11, SettlingKeepsOrder DEF Held, TasksHeld
    <2>14. EarnedIn(p, voted)
      BY <2>6, <2>8 DEF EarnedIn, Held, TasksHeld
    <2>15. TasksHeld(p, voted) /\ Uncancelled(voted)
      BY <2>5, <2>6, <2>8, <2>10, <2>13, <2>14 DEF TasksHeld, Held, Uncancelled
    <2>16. Held(p, UpdateRoot(p, mid))
      BY <2>12, <2>15, UpdateRootHolds
    <2> QED BY <2>1, <2>4, <2>16
  <1> QED BY <1>1, <1>2
=============================================================================
