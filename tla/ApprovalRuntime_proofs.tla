------------------------ MODULE ApprovalRuntime_proofs ------------------------
(***************************************************************************)
(* The properties of ApprovalRuntime for every plan, cohort and set of     *)
(* keys: type correctness, lawful votes, earned approvals, timely refusal, *)
(* sealed requests and tasks that only close.  The inductive invariant is  *)
(* IInv: the type of the state, the two vote invariants stated of its      *)
(* tasks step by step, what a started runtime holds (Held: serial order,   *)
(* earned tasks, a root status that agrees with the flow), and that a call *)
(* that reconciled the flow left every visited task attended.              *)
(***************************************************************************)
EXTENDS ApprovalRuntime, ApprovalFlow_proofs

(* TypeOK with the set of all runtime states of the plan.                   *)
Typed ==
    /\ plan \in Plans
    /\ started \in BOOLEAN
    /\ rt \in RuntimeStates(plan)
    /\ clock \in 0..MaxTime
    /\ outcome \in {"none", "ok", "recorded", "duplicate", "rejected", "activation_failed"}

LEMMA TypedIsTypeOK == Typed => TypeOK
BY RuntimeStateIsOne DEF Typed, TypeOK

LEMMA PlanIsOK == Typed => PlanOK(plan)
BY PlansAssumption DEF Typed

(* The resolver answers of an activation are listings the plan allows.      *)
LEMMA ListsType ==
    ASSUME PlanOK(plan), NEW tasks, NEW lists \in Lists(tasks)
    PROVE  \A s \in Asked(plan, tasks) : lists[s] \in SUBSET Users
BY DEF Lists, PlanOK

LEMMA InitialStateType ==
    ASSUME NEW p
    PROVE  InitialState \in RuntimeStates(p) /\ UniqueIn(InitialState.tasks, InitialState.processed)
           /\ SeparatedIn(p, InitialState.tasks)
  <1>1. InitialState.tasks = NoTasks /\ DOMAIN NoTasks = {} /\ InitialState.processed = {}
    BY DEF InitialState, NoTasks
  <1> QED BY <1>1, InitialStateIsState DEF UniqueIn, SeparatedIn

(* Before start nothing has been recorded.                                  *)
Fresh == ~started => rt = InitialState

(* Every step of the runtime is at most one operation of the interpreter.   *)
LEMMA NextProgress ==
    ASSUME Typed, Fresh, [Next]_vars
    PROVE  Typed' /\ Fresh' /\ plan' = plan /\ Progress(plan, rt, rt')
  <1> PlanOK(plan)
    BY PlanIsOK
  <1>t. rt \in RuntimeStates(plan) /\ clock \in 0..MaxTime /\ clock \in Nat
    BY MaxTimeAssumption DEF Typed
  <1>0. Progress(plan, rt, rt)
    BY ExtendsReflexive DEF Progress
  <1>1. CASE StartRuntime
    <2>1. /\ plan' = plan /\ clock' = clock /\ ~started /\ rt = InitialState
          /\ started' \in BOOLEAN /\ outcome' \in {"ok", "activation_failed"}
      BY <1>1 DEF StartRuntime, Typed, Fresh
    <2>2. CASE UNCHANGED <<started, rt>>
      BY <1>0, <2>1, <2>2 DEF Typed, Fresh
    <2>3. ASSUME NEW lists \in Lists(NoTasks), ~Start(plan, clock, lists).failed,
                 rt' = Start(plan, clock, lists).rt, started'
          PROVE  Typed' /\ Fresh' /\ Progress(plan, rt, rt')
      <3>1. \A s \in Asked(plan, rt.tasks) : lists[s] \in SUBSET Users
        BY <2>1, ListsType DEF InitialState
      <3>2. rt' \in RuntimeStates(plan) /\ Progress(plan, rt, rt')
        BY <1>t, <2>1, <2>3, <3>1, ActivateAndUpdateExtends DEF Start, Progress
      <3> QED BY <2>1, <2>3, <3>2 DEF Typed, Fresh
    <2> QED BY <1>1, <2>1, <2>2, <2>3 DEF StartRuntime
  <1>2. ASSUME NEW d \in DecisionEvents, Decide(d)
        PROVE  Typed' /\ Fresh' /\ plan' = plan /\ Progress(plan, rt, rt')
    <2>1. /\ plan' = plan /\ clock' = clock /\ started /\ started' = started
      BY <1>2 DEF Decide
    <2>2. PICK live \in LiveChecks(d) :
            LET recorded == Record(plan, rt, d, live)
            IN  IF recorded.kind = "rejected"
                THEN outcome' = "rejected" /\ UNCHANGED rt
                ELSE \/ \E lists \in Lists(recorded.rt.tasks) :
                          LET next == Advance(plan, recorded.rt, d.at, lists)
                          IN  IF next.failed
                              THEN outcome' = "activation_failed" /\ rt' = recorded.rt
                              ELSE outcome' = recorded.kind /\ rt' = next.rt
                     \/ /\ recorded.rt.status = "pending"
                        /\ ProviderFails(recorded.rt.tasks)
                        /\ outcome' = "activation_failed" /\ rt' = recorded.rt
      BY <1>2 DEF Decide
    <2> DEFINE recorded == Record(plan, rt, d, live)
    <2>3. d \in EventsOf(plan) /\ d.at \in Nat
      BY <1>t DEF DecisionEvents, EventsOf
    <2>4. recorded.rt \in RuntimeStates(plan) /\ Progress(plan, rt, recorded.rt)
      BY <1>t, <2>3, RecordProgress
    <2>5. recorded.kind \in {"rejected", "duplicate", "recorded"}
      BY DEF Record
    <2> HIDE DEF recorded
    <2>6. ASSUME NEW lists \in Lists(recorded.rt.tasks),
                 ~Advance(plan, recorded.rt, d.at, lists).failed
          PROVE  LET next == Advance(plan, recorded.rt, d.at, lists).rt
                 IN  next \in RuntimeStates(plan) /\ Progress(plan, rt, next)
      <3>1. \A s \in Asked(plan, recorded.rt.tasks) : lists[s] \in SUBSET Users
        BY <2>6, ListsType
      <3>2. CASE recorded.rt.status # "pending"
        BY <2>4, <3>2 DEF Advance
      <3>3. CASE recorded.rt.status = "pending"
        BY <2>3, <2>4, <2>6, <3>1, <3>3, ActivateAndUpdateExtends, ProgressThenExtends
        DEF Advance
      <3> QED BY <3>2, <3>3
    <2>7. \/ outcome' \in {"rejected", "activation_failed"} \cup {recorded.kind}
      BY <2>2 DEF recorded
    <2>8. rt' \in RuntimeStates(plan) /\ Progress(plan, rt, rt')
      BY <1>t, <1>0, <2>2, <2>4, <2>6 DEF recorded
    <2> QED BY <2>1, <2>5, <2>7, <2>8 DEF Typed, Fresh
  <1>3. CASE AdvanceTime
    <2>1. /\ plan' = plan /\ clock' = clock /\ started' = started /\ started
          /\ outcome' \in {"ok", "activation_failed"}
      BY <1>3 DEF AdvanceTime
    <2>2. CASE UNCHANGED rt
      BY <1>0, <2>1, <2>2 DEF Typed, Fresh
    <2>3. ASSUME NEW lists \in Lists(ExpireTasks(rt.tasks, clock)),
                 ~Expire(plan, rt, clock, lists).failed,
                 rt' = Expire(plan, rt, clock, lists).rt
          PROVE  rt' \in RuntimeStates(plan) /\ Progress(plan, rt, rt')
      <3> DEFINE tasks == ExpireTasks(rt.tasks, clock)
                 mid   == [rt EXCEPT !.tasks = ExpireTasks(rt.tasks, clock)]
      <3>1. rt.tasks \in TaskMaps(plan)
        BY <1>t DEF RuntimeStates
      <3>2. tasks \in TaskMaps(plan) /\ Extends(rt.tasks, tasks)
        BY <3>1, ExpireTasksExtends
      <3>3. mid \in RuntimeStates(plan) /\ mid.tasks = tasks /\ mid.processed = rt.processed
        BY <1>t, <3>2 DEF RuntimeStates
      <3>4. Progress(plan, rt, mid)
        BY <3>2, <3>3 DEF Progress
      <3>5. /\ ~ActivateAndUpdate(plan, mid, clock, lists).failed
            /\ rt' = ActivateAndUpdate(plan, mid, clock, lists).rt
        BY <2>3 DEF Expire
      <3> HIDE DEF mid
      <3>6. \A s \in Asked(plan, mid.tasks) : lists[s] \in SUBSET Users
        BY <3>3, ListsType
      <3> QED BY <1>t, <3>3, <3>4, <3>5, <3>6, ActivateAndUpdateExtends, ProgressThenExtends
    <2> QED BY <1>3, <2>1, <2>2, <2>3 DEF AdvanceTime, Typed, Fresh
  <1>4. CASE Tick
    BY <1>t, <1>0, <1>4, MaxTimeAssumption DEF Tick, Typed, Fresh
  <1>5. CASE UNCHANGED vars
    BY <1>0, <1>5 DEF vars, Typed, Fresh
  <1> QED BY <1>1, <1>2, <1>3, <1>4, <1>5 DEF Next

-----------------------------------------------------------------------------
LEMMA PlanIsSound == Typed => Sound(plan) /\ IsFiniteSet(Users)
BY PlansAssumption, UsersAssumption DEF Typed, Sound

(* What holds of the runtime once it has been started.                      *)
Underway == started => Held(plan, rt)

(* After a call that reconciled the flow, everything it visits is attended. *)
Reconciled ==
    outcome \in {"ok", "recorded", "duplicate"} /\ rt.status = "pending" =>
      Attended(plan, rt.tasks)

LEMMA NoTasksHeld ==
    ASSUME NEW p
    PROVE  TasksHeld(p, InitialState.tasks) /\ Uncancelled(InitialState.tasks)
  <1>1. InitialState.tasks = NoTasks /\ DOMAIN NoTasks = {}
    BY DEF InitialState, NoTasks
  <1> QED BY <1>1 DEF TasksHeld, Uncancelled, SerialOrder, EarnedIn

LEMMA AdvanceHolds ==
    ASSUME IsFiniteSet(Users), NEW p, Sound(p), NEW r \in RuntimeStates(p), Held(p, r),
           NEW now \in Nat, NEW lists, \A s \in Asked(p, r.tasks) : lists[s] \in SUBSET Users,
           ~Advance(p, r, now, lists).failed
    PROVE  LET next == Advance(p, r, now, lists).rt
           IN  /\ Held(p, next)
               /\ next.status = "pending" => Attended(p, next.tasks)
               /\ r.status \in Closed => next = r
  <1>1. CASE r.status # "pending"
    <2>1. Advance(p, r, now, lists).rt = r
      BY <1>1 DEF Advance
    <2> QED BY <1>1, <2>1
  <1>2. CASE r.status = "pending"
    <2>1. Advance(p, r, now, lists) = ActivateAndUpdate(p, r, now, lists)
      BY <1>2 DEF Advance
    <2>2. TasksHeld(p, r.tasks) /\ Uncancelled(r.tasks) /\ r.status \notin Closed
      BY <1>2 DEF Held, StatusHeld, Closed
    <2> QED BY <2>1, <2>2, ActivateAndUpdateHolds
  <1> QED BY <1>1, <1>2

LEMMA ExpireHolds ==
    ASSUME IsFiniteSet(Users), NEW p, Sound(p), NEW r \in RuntimeStates(p), Held(p, r),
           NEW now \in Nat, NEW lists,
           \A s \in Asked(p, ExpireTasks(r.tasks, now)) : lists[s] \in SUBSET Users,
           ~Expire(p, r, now, lists).failed
    PROVE  LET next == Expire(p, r, now, lists).rt
           IN  /\ Held(p, next)
               /\ next.status = "pending" => Attended(p, next.tasks)
               /\ r.status \in Closed => Sealed(r, next)
  <1> DEFINE tasks == ExpireTasks(r.tasks, now)
             mid   == [r EXCEPT !.tasks = tasks]
  <1>1. Expire(p, r, now, lists) = ActivateAndUpdate(p, mid, now, lists)
    BY DEF Expire
  <1>2. r.tasks \in TaskMaps(p) /\ r = [status |-> r.status, tasks |-> r.tasks,
                                        processed |-> r.processed]
    BY DEF RuntimeStates
  <1>3. CASE r.status \in Closed
    <2>1. \A s \in DOMAIN r.tasks : r.tasks[s].status # "pending"
      BY <1>3 DEF Held, StatusHeld
    <2>2. tasks = r.tasks
      BY <1>2, <2>1, ExpiringClosed
    <2> HIDE DEF tasks
    <2>3. mid = r
      BY <1>2, <2>2
    <2> HIDE DEF mid
    <2>4. Held(p, Expire(p, r, now, lists).rt) /\ Sealed(r, Expire(p, r, now, lists).rt)
      BY <1>1, <1>3, <2>3, ActivateAndUpdateClosed
    <2>5. Expire(p, r, now, lists).rt.status # "pending"
      BY <2>4 DEF Sealed, Closed
    <2> QED BY <2>4, <2>5
  <1>4. CASE r.status \notin Closed
    <2>1. TasksHeld(p, r.tasks) /\ Uncancelled(r.tasks)
      BY <1>4 DEF Held, StatusHeld, RuntimeStates
    <2>2. TasksHeld(p, tasks) /\ Uncancelled(tasks) /\ tasks \in TaskMaps(p)
      BY <1>2, <2>1, ExpiringKeeps, ExpireTasksExtends
    <2>3. \A s \in Asked(p, tasks) : lists[s] \in SUBSET Users
      OBVIOUS
    <2> HIDE DEF tasks
    <2>4. mid \in RuntimeStates(p) /\ mid.tasks = tasks
      BY <2>2 DEF RuntimeStates
    <2> HIDE DEF mid
    <2> QED BY <1>1, <1>4, <2>2, <2>3, <2>4, ActivateAndUpdateHolds
  <1> QED BY <1>3, <1>4

(* Every step of the runtime keeps what holds, and leaves a closed request  *)
(* sealed.                                                                  *)
LEMMA NextHolds ==
    ASSUME Typed, Fresh, Underway, Reconciled, [Next]_vars
    PROVE  Underway' /\ Reconciled' /\ (rt.status \in Closed => Sealed(rt, rt'))
  <1> Sound(plan) /\ IsFiniteSet(Users) /\ PlanOK(plan)
    BY PlanIsSound, PlanIsOK
  <1>t. rt \in RuntimeStates(plan) /\ clock \in Nat
    BY MaxTimeAssumption DEF Typed
  <1>0. rt' = rt => (rt.status \in Closed => Sealed(rt, rt'))
    BY DEF Sealed
  <1>1. CASE StartRuntime
    <2>1. /\ plan' = plan /\ ~started /\ rt = InitialState /\ rt.status \notin Closed
      BY <1>1 DEF StartRuntime, Fresh, InitialState, Closed
    <2>2. CASE UNCHANGED <<started, rt>> /\ outcome' = "activation_failed"
      BY <2>1, <2>2 DEF Underway, Reconciled
    <2>3. ASSUME NEW lists \in Lists(NoTasks), ~Start(plan, clock, lists).failed,
                 rt' = Start(plan, clock, lists).rt, started'
          PROVE  Underway' /\ Reconciled'
      <3>1. \A s \in Asked(plan, rt.tasks) : lists[s] \in SUBSET Users
        BY <2>1, ListsType DEF InitialState
      <3>2. TasksHeld(plan, rt.tasks) /\ Uncancelled(rt.tasks)
        BY <2>1, NoTasksHeld
      <3>3. Start(plan, clock, lists) = ActivateAndUpdate(plan, rt, clock, lists)
        BY <2>1 DEF Start
      <3>4. Held(plan, rt') /\ (rt'.status = "pending" => Attended(plan, rt'.tasks))
        BY <1>t, <2>3, <3>1, <3>2, <3>3, ActivateAndUpdateHolds
      <3> QED BY <2>1, <3>4 DEF Underway, Reconciled
    <2> QED BY <1>1, <2>1, <2>2, <2>3 DEF StartRuntime
  <1>2. ASSUME NEW d \in DecisionEvents, Decide(d)
        PROVE  Underway' /\ Reconciled' /\ (rt.status \in Closed => Sealed(rt, rt'))
    <2>1. plan' = plan /\ started /\ started' = started /\ Held(plan, rt)
      BY <1>2 DEF Decide, Underway
    <2>2. PICK live \in LiveChecks(d) :
            LET recorded == Record(plan, rt, d, live)
            IN  IF recorded.kind = "rejected"
                THEN outcome' = "rejected" /\ UNCHANGED rt
                ELSE \/ \E lists \in Lists(recorded.rt.tasks) :
                          LET next == Advance(plan, recorded.rt, d.at, lists)
                          IN  IF next.failed
                              THEN outcome' = "activation_failed" /\ rt' = recorded.rt
                              ELSE outcome' = recorded.kind /\ rt' = next.rt
                     \/ /\ recorded.rt.status = "pending"
                        /\ ProviderFails(recorded.rt.tasks)
                        /\ outcome' = "activation_failed" /\ rt' = recorded.rt
      BY <1>2 DEF Decide
    <2> DEFINE recorded == Record(plan, rt, d, live)
    <2>3. d \in EventsOf(plan) /\ d.at \in Nat
      BY <1>t DEF DecisionEvents, EventsOf
    <2>4. recorded.rt \in RuntimeStates(plan)
      BY <1>t, <2>3, RecordProgress
    <2>5. Held(plan, recorded.rt) /\ (rt.status \in Closed => recorded.rt = rt)
      BY <1>t, <2>1, <2>3, RecordHolds
    <2> HIDE DEF recorded
    <2>6. CASE outcome' = "rejected" /\ rt' = rt
      BY <1>0, <2>1, <2>6 DEF Underway, Reconciled
    <2>7. CASE outcome' = "activation_failed" /\ rt' = recorded.rt
      BY <1>0, <2>1, <2>5, <2>7 DEF Underway, Reconciled
    <2>8. ASSUME NEW lists \in Lists(recorded.rt.tasks),
                 ~Advance(plan, recorded.rt, d.at, lists).failed,
                 rt' = Advance(plan, recorded.rt, d.at, lists).rt
          PROVE  Underway' /\ Reconciled' /\ (rt.status \in Closed => Sealed(rt, rt'))
      <3>1. \A s \in Asked(plan, recorded.rt.tasks) : lists[s] \in SUBSET Users
        BY <2>8, ListsType
      <3>2. /\ Held(plan, rt')
            /\ rt'.status = "pending" => Attended(plan, rt'.tasks)
            /\ recorded.rt.status \in Closed => rt' = recorded.rt
        BY <2>3, <2>4, <2>5, <2>8, <3>1, AdvanceHolds
      <3> QED BY <1>0, <2>1, <2>5, <3>2 DEF Underway, Reconciled
    <2> QED BY <2>2, <2>6, <2>7, <2>8 DEF recorded
  <1>3. CASE AdvanceTime
    <2>1. plan' = plan /\ started /\ started' = started /\ Held(plan, rt)
      BY <1>3 DEF AdvanceTime, Underway
    <2>2. CASE UNCHANGED rt /\ outcome' = "activation_failed"
      BY <1>0, <2>1, <2>2 DEF Underway, Reconciled
    <2>3. ASSUME NEW lists \in Lists(ExpireTasks(rt.tasks, clock)),
                 ~Expire(plan, rt, clock, lists).failed,
                 rt' = Expire(plan, rt, clock, lists).rt
          PROVE  Underway' /\ Reconciled' /\ (rt.status \in Closed => Sealed(rt, rt'))
      <3>1. \A s \in Asked(plan, ExpireTasks(rt.tasks, clock)) : lists[s] \in SUBSET Users
        BY <2>3, ListsType
      <3>2. /\ Held(plan, rt')
            /\ rt'.status = "pending" => Attended(plan, rt'.tasks)
            /\ rt.status \in Closed => Sealed(rt, rt')
        BY <1>t, <2>1, <2>3, <3>1, ExpireHolds
      <3> QED BY <2>1, <3>2 DEF Underway, Reconciled
    <2> QED BY <1>3, <2>2, <2>3 DEF AdvanceTime
  <1>4. CASE Tick
    BY <1>0, <1>4 DEF Tick, Underway, Reconciled
  <1>5. CASE UNCHANGED vars
    BY <1>0, <1>5 DEF vars, Underway, Reconciled
  <1> QED BY <1>1, <1>2, <1>3, <1>4, <1>5 DEF Next, StartRuntime, Fresh, InitialState, Closed

-----------------------------------------------------------------------------
(* PassOf is the solution of its own equation.                              *)
LEMMA PassOfPasses ==
    ASSUME NEW p \in Plans, NEW S \in SUBSET p.steps
    PROVE  Passes(p, S, PassOf(p, S)) /\ PassOf(p, S) \in SUBSET Nodes(p)
  <1>1. \A n \in Nodes(p) :
          n \in PassOf(p, S) <=> IF n \in p.steps THEN n \in S ELSE GroupPasses(p, n, PassOf(p, S))
    BY PassingAssumption
  <1>2. \A n : GroupPasses(p, n, PassOf(p, S)) <=> GroupPassed(p, n, PassingKids(p, PassOf(p, S), n))
    BY DEF GroupPasses, GroupPassed, PassedBy, PassingKids
  <1>3. PassOf(p, S) \in SUBSET Nodes(p)
    BY DEF PassOf
  <1> QED BY <1>1, <1>2, <1>3 DEF Passes

(* The nodes the interpreter calls approved pass by the votes alone.        *)
LEMMA ApprovedIsEarned ==
    ASSUME Typed, TasksHeld(plan, rt.tasks),
           NEW n \in Nodes(plan), FlowStatus(plan, rt.tasks)[n] = "approved"
    PROVE  n \in Passing({s \in plan.steps : StepEarned(rt.tasks, s)})
  <1> DEFINE leaves == LeavesOf(plan, rt.tasks)
             A == {s \in plan.steps : leaves[s] = "approved"}
             E == {s \in plan.steps : StepEarned(rt.tasks, s)}
  <1>0. plan \in Plans /\ Sound(plan) /\ rt.tasks \in TaskMaps(plan)
    BY PlanIsSound DEF Typed, RuntimeStates
  <1>1. /\ leaves \in Leaves(plan) /\ FlowStatus(plan, rt.tasks) = StatusOf(plan, leaves)
        /\ \A s \in plan.steps : leaves[s] = StepStatus(rt.tasks, s)
    BY <1>0, LeavesType
  <1> HIDE DEF leaves
  <1>2. A \subseteq E
    <2> SUFFICES ASSUME NEW s \in plan.steps, leaves[s] = "approved" PROVE StepEarned(rt.tasks, s)
      OBVIOUS
    <2>1. s \in DOMAIN rt.tasks /\ rt.tasks[s].status = "approved"
      BY <1>1 DEF StepStatus
    <2>2. EarnedTask(plan, s, rt.tasks[s])
      BY <2>1 DEF TasksHeld, EarnedIn
    <2> QED BY <2>1, <2>2 DEF StepEarned, EarnedTask, Approvers, VotesFor
  <1>3. A \in SUBSET plan.steps /\ E \in SUBSET plan.steps
    OBVIOUS
  <1>4. Passes(plan, A, PassOf(plan, A)) /\ Passes(plan, E, PassOf(plan, E))
    BY <1>0, <1>3, PassOfPasses
  <1>5. n \in PassOf(plan, A)
    BY <1>0, <1>1, <1>4, ApprovedMeansPassing
  <1> HIDE DEF A, E
  <1>6. n \in PassOf(plan, E)
    BY <1>0, <1>2, <1>4, <1>5, PassesMonotone
  <1> QED BY <1>6 DEF Passing, E

LEMMA HeldIsEarned ==
    ASSUME Typed, Fresh, Underway
    PROVE  ApprovalsAreEarned
  <1>1. TasksHeld(plan, rt.tasks)
    BY NoTasksHeld DEF Fresh, Underway, Held
  <1>2. Sound(plan)
    BY PlanIsSound
  <1>3. ApprovalIsEarned
    <2> SUFFICES ASSUME rt.status = "approved"
                 PROVE  plan.root \in Passing({s \in plan.steps : StepEarned(rt.tasks, s)})
      BY DEF ApprovalIsEarned
    <2>1. started
      BY DEF Fresh, InitialState
    <2>2. FlowStatus(plan, rt.tasks)[plan.root] = "approved"
      BY <2>1 DEF Underway, Held, StatusHeld, Closed
    <2> QED BY <1>1, <1>2, <2>2, RootIsNode, ApprovedIsEarned
  <1>4. SerialOrderKept
    <2> SUFFICES ASSUME NEW g \in plan.groups, plan.strategy[g] = "serial",
                        NEW i \in DOMAIN plan.children[g], NEW j \in DOMAIN plan.children[g],
                        i < j, Below(plan)[plan.children[g][j]] \cap DOMAIN rt.tasks # {}
                 PROVE  plan.children[g][i] \in Passing({s \in plan.steps : StepEarned(rt.tasks, s)})
      BY DEF SerialOrderKept
    <2>1. FlowStatus(plan, rt.tasks)[plan.children[g][i]] = "approved"
      BY <1>1 DEF TasksHeld, SerialOrder
    <2>2. plan.children[g][i] \in Nodes(plan)
      BY <1>2, GroupShape
    <2> QED BY <1>1, <2>1, <2>2, ApprovedIsEarned
  <1> QED BY <1>3, <1>4 DEF ApprovalsAreEarned

LEMMA HeldClosesInTime ==
    ASSUME Typed, Underway
    PROVE  ClosesWhenUnreachable
  <1> SUFFICES ASSUME started
               PROVE  /\ rt.status = "pending" => plan.root \in Passing(Alive)
                      /\ rt.status \in {"rejected", "expired"} => plan.root \notin Passing(Alive)
    BY DEF ClosesWhenUnreachable
  <1>1. plan \in Plans /\ Sound(plan) /\ rt.tasks \in TaskMaps(plan)
    BY PlanIsSound DEF Typed, RuntimeStates
  <1>2. Alive = AliveOf(plan, rt.tasks)
    BY DEF Alive, AliveOf, Bad
  <1>3. /\ Passes(plan, AliveOf(plan, rt.tasks), Passing(Alive))
        /\ Passing(Alive) \in SUBSET Nodes(plan)
    <2>1. AliveOf(plan, rt.tasks) \in SUBSET plan.steps
      BY DEF AliveOf
    <2> QED BY <1>1, <1>2, <2>1, PassOfPasses DEF Passing
  <1>4. Held(plan, rt)
    BY DEF Underway
  <1>5. ASSUME rt.status = "pending" PROVE plan.root \in Passing(Alive)
    <2>1. /\ SerialOrder(plan, rt.tasks) /\ Uncancelled(rt.tasks)
          /\ FlowStatus(plan, rt.tasks)[plan.root] \notin Bad
      BY <1>4, <1>5, ClosedIsApprovedOrBad DEF Held, TasksHeld, StatusHeld
    <2>2. CanPass(plan, AliveOf(plan, rt.tasks))
      BY <1>1, <2>1, UnrefusedCanPass
    <2> QED BY <1>3, <2>2 DEF CanPass
  <1>6. ASSUME rt.status \in {"rejected", "expired"} PROVE plan.root \notin Passing(Alive)
    <2>1. CannotPass(plan, AliveOf(plan, rt.tasks))
      BY <1>4, <1>6 DEF Held, StatusHeld, Closed
    <2> QED BY <1>3, <2>1 DEF CannotPass
  <1> QED BY <1>5, <1>6

LEMMA ReconciledIsHopeful ==
    ASSUME Reconciled
    PROVE  NoHopelessTask
BY DEF Reconciled, NoHopelessTask, Attended, Enough, Others

-----------------------------------------------------------------------------
IInv == /\ Typed /\ Fresh
        /\ UniqueIn(rt.tasks, rt.processed)
        /\ SeparatedIn(plan, rt.tasks)
        /\ Underway /\ Reconciled

LEMMA InitIInv == Init => IInv
  <1> SUFFICES ASSUME Init PROVE IInv
    OBVIOUS
  <1>1. rt = InitialState /\ plan \in Plans
    BY DEF Init
  <1>2. /\ rt \in RuntimeStates(plan) /\ UniqueIn(rt.tasks, rt.processed)
        /\ SeparatedIn(plan, rt.tasks)
    BY <1>1, InitialStateType
  <1>3. 0 \in 0..MaxTime
    BY MaxTimeAssumption
  <1> QED BY <1>1, <1>2, <1>3 DEF Init, IInv, Typed, Fresh, Underway, Reconciled

LEMMA NextIInv == IInv /\ [Next]_vars => IInv'
  <1> SUFFICES ASSUME IInv, [Next]_vars PROVE IInv'
    OBVIOUS
  <1>1. Typed' /\ Fresh' /\ plan' = plan /\ Progress(plan, rt, rt')
    BY NextProgress DEF IInv
  <1>2. PlanOK(plan) /\ rt \in RuntimeStates(plan)
    BY PlanIsOK DEF IInv, Typed
  <1>3. UniqueIn(rt'.tasks, rt'.processed) /\ SeparatedIn(plan, rt'.tasks)
    BY <1>1, <1>2, ProgressKeepsVotes DEF IInv
  <1>4. Underway' /\ Reconciled'
    BY NextHolds DEF IInv
  <1> QED BY <1>1, <1>3, <1>4 DEF IInv

LEMMA InductiveInvariant == Spec => []IInv
  <1> QED BY InitIInv, NextIInv, PTL DEF Spec

(* The state of the runtime always has the types of the source, whatever    *)
(* the plans, the users and the keys.                                       *)
THEOREM TypeCorrect == Spec => []TypeOK
  <1>1. IInv => TypeOK
    BY TypedIsTypeOK DEF IInv
  <1> QED BY <1>1, InductiveInvariant, PTL

(* Votes, as the properties of ApprovalRuntime list them.                   *)
LEMMA VotesMembers ==
    \A v : v \in Votes <=> \E s \in DOMAIN rt.tasks : \E d \in rt.tasks[s].decisions :
                             v = [step |-> s, vote |-> d]
BY DEF Votes

(* An idempotency key is applied at most once and a user votes once per     *)
(* task, under any redelivery, expiry and activation failure.               *)
THEOREM VotesUnique == Spec => []VotesAreUnique
  <1>1. IInv => VotesAreUnique
    <2> SUFFICES ASSUME IInv PROVE VotesAreUnique
      OBVIOUS
    <2>1. \A v, w \in Votes :
            (v.vote.key = w.vote.key \/ (v.step = w.step /\ v.vote.user = w.vote.user)) => v = w
      BY VotesMembers DEF IInv, UniqueIn
    <2>2. ASSUME NEW k \in rt.processed PROVE \E v \in Votes : v.vote.key = k
      <3>1. PICK s \in DOMAIN rt.tasks : \E d \in rt.tasks[s].decisions : d.key = k
        BY DEF IInv, UniqueIn
      <3>2. PICK d \in rt.tasks[s].decisions : d.key = k
        BY <3>1
      <3>3. [step |-> s, vote |-> d] \in Votes
        BY VotesMembers
      <3> QED BY <3>2, <3>3
    <2>3. \A v \in Votes : v.vote.key \in rt.processed
      BY VotesMembers DEF IInv, UniqueIn
    <2>4. rt.processed = {v.vote.key : v \in Votes}
      BY <2>2, <2>3
    <2> QED BY <2>1, <2>4 DEF VotesAreUnique
  <1> QED BY <1>1, InductiveInvariant, PTL

(* Nobody decides twice in a distinctApprovers scope or on his own behalf.  *)
THEOREM DutiesSeparated == Spec => []DutiesAreSeparated
  <1>1. IInv => DutiesAreSeparated
    BY VotesMembers DEF IInv, SeparatedIn, DutiesAreSeparated
  <1> QED BY <1>1, InductiveInvariant, PTL

(* Every vote counts once and is cast by somebody who may cast it.          *)
THEOREM VotesLawful == Spec => []VotesAreLawful
  <1>1. VotesAreUnique /\ DutiesAreSeparated => VotesAreLawful
    BY DEF VotesAreLawful
  <1> QED BY <1>1, VotesUnique, DutiesSeparated, PTL

(* No step withdraws a vote or changes the status of a closed task.         *)
THEOREM TasksOnlyCloseHolds == Spec => TasksOnlyClose
  <1> DEFINE A == \A s \in DOMAIN rt.tasks :
                    /\ s \in DOMAIN rt'.tasks
                    /\ rt.tasks[s].decisions \subseteq rt'.tasks[s].decisions
                    /\ rt.tasks[s].status # "pending" => rt'.tasks[s].status = rt.tasks[s].status
  <1>1. IInv /\ [Next]_vars => [A]_vars
    <2> SUFFICES ASSUME IInv, [Next]_vars PROVE A
      OBVIOUS
    <2>1. Progress(plan, rt, rt') /\ PlanOK(plan) /\ rt \in RuntimeStates(plan)
      BY NextProgress, PlanIsOK DEF IInv, Typed
    <2> QED BY <2>1, ProgressGrows
  <1> QED BY <1>1, InductiveInvariant, PTL DEF Spec, TasksOnlyClose

(* Whatever order votes, expiries and activations come in, a request is     *)
(* approved, and a later step of a serial flow opened, only when the votes  *)
(* cast satisfy the flow: the interpreter's statuses are never ahead of the *)
(* votes.                                                                   *)
THEOREM ApprovalsAreEarnedHolds == Spec => []ApprovalsAreEarned
  <1>1. IInv => ApprovalsAreEarned
    BY HeldIsEarned DEF IInv
  <1> QED BY <1>1, InductiveInvariant, PTL

(* A request is refused exactly when approval has become unreachable, and   *)
(* after a call that reconciled the flow every open task it visits has      *)
(* enough people left who may still approve it.                             *)
THEOREM NobodyWaitsInVainHolds == Spec => []NobodyWaitsInVain
  <1>1. IInv => NobodyWaitsInVain
    BY HeldClosesInTime, ReconciledIsHopeful DEF IInv, NobodyWaitsInVain
  <1> QED BY <1>1, InductiveInvariant, PTL

(* A closed request takes no vote, opens no task and is never approved      *)
(* afterwards, though expiry still runs over it.                            *)
THEOREM ClosedIsSealedHolds == Spec => ClosedIsSealed
  <1> DEFINE A == rt.status \in Closed =>
                    /\ Votes' = Votes
                    /\ DOMAIN rt'.tasks = DOMAIN rt.tasks
                    /\ rt'.status \in Closed
                    /\ (rt'.status = "approved" <=> rt.status = "approved")
  <1>1. IInv /\ [Next]_vars => [A]_vars
    <2> SUFFICES ASSUME IInv, [Next]_vars, rt.status \in Closed
                 PROVE  /\ Votes' = Votes
                        /\ DOMAIN rt'.tasks = DOMAIN rt.tasks
                        /\ rt'.status \in Closed
                        /\ (rt'.status = "approved" <=> rt.status = "approved")
      OBVIOUS
    <2>1. Sealed(rt, rt')
      BY NextHolds DEF IInv
    <2>2. rt'.tasks = rt.tasks
      BY <2>1 DEF Sealed
    <2>3. Votes' = Votes
      BY <2>2 DEF Votes
    <2> QED BY <2>1, <2>3 DEF Sealed
  <1> QED BY <1>1, InductiveInvariant, PTL DEF Spec, ClosedIsSealed
=============================================================================
