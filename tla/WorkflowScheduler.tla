--------------------------- MODULE WorkflowScheduler ---------------------------
(***************************************************************************)
(* The kernel of a workflow run (workflow-core/src/scheduler.ts): pure      *)
(* functions from one state of the run to the next.  What expressions       *)
(* evaluate to is input: "data.value" gives for a branch the case selected, *)
(* for a loop the number of items or how often its condition holds, and     *)
(* "data.broken" the nodes whose expressions fail to evaluate.  A scope is  *)
(* the sequence of the <<loop node, index>> that lead to it, <<>> for the   *)
(* root; a node run is a scope and a node; effects are kept in the order    *)
(* they were requested.                                                     *)
(***************************************************************************)
EXTENDS WorkflowGraph, Integers, TLC

CONSTANT MaxEffects    \* capabilities.maxEffects of every program

VARIABLES definition,  \* the pinned version: its root graph, with its limits
          data         \* what the expressions of its nodes evaluate to

RunEnded == {"succeeded", "failed", "cancelled"}                 \* isTerminalWorkflowRunStatus
NodeEnded == RunEnded \cup {"skipped"}                           \* isTerminalNodeRunStatus
InFlight(effect) == effect.status \in {"requested", "in_flight"} \* isEffectInFlight

Root == <<>>
PathOf(scope) == [i \in DOMAIN scope |-> scope[i][1]]
GraphOf(scope) == GraphAtPath(definition, PathOf(scope))
LoopRunOf(scope) == <<Front(scope), Last(scope)[1]>>
NodeOf(run) == FindNode(GraphOf(run[1]), run[2])

NoLoop == [next |-> 0, running |-> {}, completed |-> 0]
Pending == [status |-> "pending", attempt |-> 1, yields |-> 0, reason |-> "none", loop |-> NoLoop]

(* The state a run starts from, before the kernel's first pass.             *)
Fresh == [status |-> "running", error |-> "none",
          order |-> <<Root>>, scopes |-> (Root :> "running"),
          runs |-> <<>>, edges |-> <<>>, effects |-> <<>>, decided |-> {}]

(* The next state is worked out once, however often it is asked about.      *)
With(state, Rest(_)) == CHOOSE after \in {Rest(s) : s \in {state}} : TRUE

Ended(s) == s.status \in RunEnded
HasRun(s, run) == run \in DOMAIN s.runs
StatusOf(s, run) == s.runs[run].status

(* resolverFor: the node runs whose outputs the expressions of a scope see. *)
Readable(s, scope) ==
    {r \in DOMAIN s.runs : IsPrefix(r[1], scope) /\ StatusOf(s, r) = "succeeded"}

-----------------------------------------------------------------------------
(* Cancelling and failing.  An effect that was delivered is left for the    *)
(* runtime to cancel outside; one that was not needs nothing.               *)
Within(run, scope) == IsPrefix(scope, run[1])

NotDelivered(effect) == effect.status = "requested"

CancelEffects(s, runs, propagated(_)) ==
    LET Cancelled(e) == IF e.run \in runs /\ InFlight(e)
                        THEN [e EXCEPT !.status = "cancelled", !.propagated = propagated(e)] ELSE e
    IN  [s EXCEPT !.effects = [i \in DOMAIN @ |-> Cancelled(@[i])]]

OnlyItself(scope, c) == c = scope                                         \* mutant
Nested(scope, c) == IsPrefix(scope, c)

(* cancelScope: its open node runs, their effects, and every running scope  *)
(* of the loops among them.                                                 *)
CancelScope(s, scope, status) ==
    LET scopes == {c \in DOMAIN s.scopes : s.scopes[c] = "running" /\ Nested(scope, c)}
        runs == {r \in DOMAIN s.runs : r[1] \in scopes /\ StatusOf(s, r) \notin NodeEnded}
    IN  CancelEffects(
            [s EXCEPT !.scopes = [c \in DOMAIN @ |-> IF c = scope THEN status
                                                    ELSE IF c \in scopes THEN "cancelled" ELSE @[c]],
                      !.runs = [r \in runs |-> [@[r] EXCEPT !.status = "cancelled"]] @@ @],
            runs, NotDelivered)

(* failRun and cancelRun: whatever is still running is cancelled.           *)
StopRun(s, status, error) ==
    IF Ended(s) THEN s
    ELSE LET stopped == IF s.scopes[Root] = "running" THEN CancelScope(s, Root, "cancelled") ELSE s
         IN  [stopped EXCEPT !.status = status, !.error = error,
                 !.scopes[Root] = IF @ = "cancelled" /\ status = "failed" THEN "failed" ELSE @]

FailRun(s, error) == StopRun(s, "failed", error)
CancelRun(s) == StopRun(s, "cancelled", "workflow_cancelled")

(* A node fails: its own effects are cancelled for the runtime to see to,   *)
(* and the iterations it was running.                                       *)
FailOne(s, run) ==
    LET marked == CancelEffects([s EXCEPT !.runs[run].status = "failed"], {run}, LAMBDA e : FALSE)
        running == {c \in DOMAIN s.scopes : /\ s.scopes[c] = "running" /\ c # Root
                                            /\ LoopRunOf(c) = run}
    IN  FoldLeft(LAMBDA t, c : CancelScope(t, c, "cancelled"), marked, SetToSeq(running))

(* failNode with failScope: fail-fast, from the node's scope through each   *)
(* loop around it to the run.                                               *)
FailNode(s, run, error) ==
    LET FailScope(t, i) ==
            LET scope == SubSeq(run[1], 1, i)
                cancelled == CancelScope(t, scope, "failed")
            IN  IF t.scopes[scope] # "running" THEN t
                ELSE IF scope = Root THEN FailRun(cancelled, error)
                ELSE IF StatusOf(t, LoopRunOf(scope)) \in NodeEnded THEN cancelled
                ELSE FailOne(cancelled, LoopRunOf(scope))
        depth == Len(run[1])
    IN  FoldLeft(FailScope, FailOne(s, run), [i \in 1..depth + 1 |-> depth + 1 - i])

-----------------------------------------------------------------------------
(* Edges and effects.                                                       *)
SetOutgoing(s, run, active(_)) ==
    LET graph == GraphOf(run[1])
        set == [k \in {<<run[1], e>> : e \in Outgoing(graph, run[2])} |->
                  IF active(graph.edges[k[2]]) THEN "active" ELSE "not_taken"]
    IN  [s EXCEPT !.edges = set @@ @]

Taken(edge, branch) == branch = "none" \/ edge.branch = branch

SucceedNode(s, run, branch) ==
    SetOutgoing([s EXCEPT !.runs[run].status = "succeeded", !.runs[run].reason = "none"], run,
                LAMBDA edge : Taken(edge, branch))

SkipNode(s, run) ==
    SetOutgoing([s EXCEPT !.runs[run].status = "skipped"], run, LAMBDA edge : FALSE)

Main == [part |-> "main", count |-> 0]
EffectId(s, run, part) == [run |-> run, attempt |-> s.runs[run].attempt, part |-> part]

(* requestEffect: the id follows from the node run, the attempt and the     *)
(* suffix of a program's yield or resumption.                               *)
RequestEffect(s, run, kind, part, parent, later) ==
    [s EXCEPT !.effects = Append(@, [id |-> EffectId(s, run, part), run |-> run, kind |-> kind,
                                     status |-> "requested", propagated |-> FALSE,
                                     parent |-> parent, later |-> later]),
              !.runs[run].status = "running"]

InFlightEffects(s) ==
    {i \in DOMAIN s.effects : InFlight(s.effects[i]) /\ s.effects[i].parent = 0}

-----------------------------------------------------------------------------
(* Loops.                                                                   *)
Spawn(s, run, index) ==
    LET scope == Append(run[1], <<run[2], index>>)
    IN  [s EXCEPT !.scopes = (scope :> "running") @@ @, !.order = Append(@, scope),
                  !.runs[run].loop.running = @ \cup {index}, !.runs[run].loop.next = index + 1]

(* fillForEach: as many iterations as may run at once.                      *)
FillForEach(s, run) ==
    LET loop == s.runs[run].loop
        items == data.value[run[2]]
        free == NodeOf(run).max - Cardinality(loop.running)
        last == IF loop.next + free < items THEN loop.next + free ELSE items
    IN  FoldLeft(LAMBDA t, i : Spawn(t, run, i), s,
                 [k \in 1..(IF last > loop.next THEN last - loop.next ELSE 0) |-> loop.next + k - 1])

Started(s, run) == [s EXCEPT !.runs[run].status = "running"]
Decide(s, run, what) == [s EXCEPT !.decided = @ \cup {<<run, what>>}]

StartForEach(s, run) ==
    LET items == data.value[run[2]]
    IN  IF items > NodeOf(run).items THEN FailNode(s, run, "for_each_too_many_items")
        ELSE IF items = 0 THEN SucceedNode(Decide(s, run, items), run, "none")
        ELSE FillForEach(Started(Decide(s, run, items), run), run)

(* continueWhile: the condition is asked before the limit is.               *)
ContinueWhile(s, run) ==
    LET iteration == s.runs[run].loop.next
        proceed == iteration < data.value[run[2]]
        decided == Decide(s, run, <<proceed, iteration>>)
    IN  IF ~proceed THEN SucceedNode(decided, run, "none")
        ELSE IF iteration >= NodeOf(run).max
             THEN FailNode(decided, run, "while_max_iterations_exceeded")
        ELSE Spawn(decided, run, iteration)

AllCompleted(loop, items) == loop.completed = items

(* iterationSucceeded, for the loop that spawned the scope.                 *)
IterationSucceeded(s, scope) ==
    LET run == LoopRunOf(scope)
        index == Last(scope)[2]
        loop == [s.runs[run].loop EXCEPT !.running = @ \ {index}, !.completed = @ + 1]
        left == [s EXCEPT !.runs[run].loop = loop]
    IN  IF StatusOf(s, run) # "running" THEN s
        ELSE IF NodeOf(run).type = "while" THEN ContinueWhile(left, run)
        ELSE IF AllCompleted(loop, data.value[run[2]]) THEN SucceedNode(left, run, "none")
        ELSE FillForEach(left, run)

-----------------------------------------------------------------------------
(* startNode, by type; the expression of a node may fail to evaluate.       *)
Effectful == {"action", "program", "llm"}
Throttled(s, node) ==
    node.type \in Effectful /\ Cardinality(InFlightEffects(s)) >= definition.maxParallelEffects

StartNode(s, run) ==
    LET node == NodeOf(run)
        value == data.value[node.id]
    IN  CASE Throttled(s, node) -> s
          [] ~Throttled(s, node) /\ node.id \in data.broken -> FailNode(s, run, "expression_error")
          [] ~Throttled(s, node) /\ node.id \notin data.broken ->
             CASE node.type = "branch" /\ value = "none" ->
                    FailNode(s, run, "branch_no_matching_case")
               [] node.type = "branch" /\ value # "none" ->
                    SucceedNode(Decide(s, run, value), run, value)
               [] node.type \in Effectful -> RequestEffect(s, run, node.type, Main, 0, FALSE)
               [] node.type = "for_each" -> StartForEach(s, run)
               [] node.type = "while" -> ContinueWhile(Started(s, run), run)
               [] OTHER -> SucceedNode(s, run, "none")

AnyDecided(activations) == activations # {} /\ "active" \in activations   \* mutant
AllDecided(activations) == "undecided" \notin activations

Readiness(s, run) ==
    LET graph == GraphOf(run[1])
        activations == {IF <<run[1], e>> \in DOMAIN s.edges THEN s.edges[<<run[1], e>>]
                        ELSE "undecided" : e \in Incoming(graph, run[2])}
    IN  IF activations = {} THEN "ready"
        ELSE IF ~AllDecided(activations) THEN "blocked"
        ELSE IF activations = {"not_taken"} THEN "skip" ELSE "ready"

EnsureNodeRun(s, run) ==
    IF HasRun(s, run) THEN s
    ELSE IF Cardinality(DOMAIN s.runs) >= definition.maxNodeRuns THEN FailRun(s, "node_run_limit_exceeded")
    ELSE [s EXCEPT !.runs = (run :> Pending) @@ @]

(* One node of a scope in a pass; a throttled node stays ready.             *)
Visit(s, run) ==
    IF Ended(s) \/ s.scopes[run[1]] # "running" THEN s
    ELSE With(EnsureNodeRun(s, run), LAMBDA t :
           IF ~HasRun(t, run) THEN t
           ELSE CASE StatusOf(t, run) = "ready" -> StartNode(t, run)
                  [] StatusOf(t, run) = "pending" /\ Readiness(t, run) = "skip" -> SkipNode(t, run)
                  [] StatusOf(t, run) = "pending" /\ Readiness(t, run) = "ready" ->
                       StartNode([t EXCEPT !.runs[run].status = "ready"], run)
                  [] OTHER -> t)

ScopeComplete(s, scope) ==
    \A id \in NodeIds(GraphOf(scope)) :
       HasRun(s, <<scope, id>>) /\ StatusOf(s, <<scope, id>>) \in {"succeeded", "skipped"}

CompleteScope(s, scope) ==
    LET done == [s EXCEPT !.scopes[scope] = "succeeded"]
    IN  IF scope = Root THEN done ELSE IterationSucceeded(done, scope)

StepScope(s, scope) ==
    With(FoldLeft(LAMBDA t, id : Visit(t, <<scope, id>>), s, TopologicalOrder(GraphOf(scope))),
         LAMBDA t : IF ~Ended(t) /\ t.scopes[scope] = "running" /\ ScopeComplete(t, scope)
                    THEN CompleteScope(t, scope) ELSE t)

(* run: passes over the scopes there are, until nothing more happens.       *)
RECURSIVE Settle(_)
Settle(s) ==
    With(FoldLeft(LAMBDA t, scope : StepScope(t, scope), s, s.order),
         LAMBDA pass :
            IF Ended(s) THEN s ELSE IF pass # s THEN Settle(pass)
            ELSE IF s.scopes[Root] = "succeeded" THEN [s EXCEPT !.status = "succeeded"]
            ELSE IF \E i \in DOMAIN s.effects : InFlight(s.effects[i])
                 THEN [s EXCEPT !.status = "waiting"]
            ELSE FailRun(s, "scheduler_stalled"))

-----------------------------------------------------------------------------
(* apply: the events of a run.  Each is a record of a type and the effect   *)
(* it is about, found by its id.                                            *)
Index(s, id) == CHOOSE i \in DOMAIN s.effects : s.effects[i].id = id
FatalCodes == {"capability_denied", "quota_exceeded", "budget_exhausted", "effect_limit_exceeded"}

EndEffect(s, i, status) == [s EXCEPT !.effects[i].status = status]

Resume(s, run) ==
    RequestEffect(s, run, "program", [part |-> "r", count |-> s.runs[run].yields], 0, FALSE)

(* completeEffect: a yielded effect resumes its program, whatever it came   *)
(* to, unless its code is fatal; only an action is tried again.             *)
CompleteEffect(s, i, ev) ==
    LET effect == s.effects[i]
        run == effect.run
        ended == EndEffect(s, i, ev.outcome)
        node == NodeOf(run)
    IN  CASE effect.parent # 0 /\ ev.outcome = "failed" /\ ev.code \in FatalCodes ->
               FailNode(ended, run, ev.code)
          [] effect.parent # 0 /\ ~(ev.outcome = "failed" /\ ev.code \in FatalCodes) ->
               Resume(ended, run)
          [] effect.parent = 0 /\ ev.outcome = "completed" -> SucceedNode(ended, run, "none")
          [] effect.parent = 0 /\ ev.outcome = "failed" ->
               IF ev.code = "retriable" /\ node.type = "action"
                  /\ s.runs[run].attempt < node.max
               THEN RequestEffect([ended EXCEPT !.runs[run].attempt = @ + 1], run,
                                  "action", Main, 0, TRUE)
               ELSE FailNode(ended, run, ev.code)

ProgramYielded(s, i, ev) ==
    LET run == s.effects[i].run
        count == s.runs[run].yields + 1
        yielded == [EndEffect(s, i, "completed") EXCEPT !.runs[run].yields = count]
    IN  IF count > MaxEffects THEN FailNode(yielded, run, "effect_limit_exceeded")
        ELSE RequestEffect(yielded, run, ev.code, [part |-> "y", count |-> count], i, FALSE)

WaitEffect(s, i, ev) ==
    LET run == s.effects[i].run
    IN  [s EXCEPT !.effects[i].status = "in_flight", !.runs[run].status = "waiting",
                  !.runs[run].reason = ev.code]

TooLate(s, effect) == ~InFlight(effect) \/ StatusOf(s, effect.run) \in NodeEnded

(* An event that is a duplicate or comes too late changes nothing.          *)
ApplyEvent(s, ev) ==
    IF ev.type = "cancel" THEN CancelRun(s)
    ELSE LET i == Index(s, ev.id)
             effect == s.effects[i]
         IN  CASE ev.type = "propagated" ->
                    IF effect.status = "cancelled" THEN [s EXCEPT !.effects[i].propagated = TRUE]
                    ELSE s
               [] ev.type = "dispatched" ->
                    IF effect.status = "requested" THEN [s EXCEPT !.effects[i].status = "in_flight"]
                    ELSE s
               [] ev.type \in {"waiting", "ended", "yielded"} ->
                    IF TooLate(s, effect) THEN s
                    ELSE CASE ev.type = "waiting" -> WaitEffect(s, i, ev)
                           [] ev.type = "ended" -> CompleteEffect(s, i, ev)
                           [] ev.type = "yielded" -> ProgramYielded(s, i, ev)

(* applyWorkflowRunEvent: the kernel goes on only after an event that took  *)
(* effect.                                                                  *)
Advance(s, ev) ==
    With(ApplyEvent(s, ev), LAMBDA applied :
         IF applied = s \/ Ended(applied) THEN applied
         ELSE Settle([applied EXCEPT !.status = "running"]))

(* What the runtime has to do for a state.                                  *)
ToPropagate(s) == {e \in ToSet(s.effects) : e.status = "cancelled" /\ ~e.propagated}
ToPoll(s) == {e \in ToSet(s.effects) : e.status = "in_flight"}
ToDispatch(s) == {e \in ToSet(s.effects) : e.status = "requested"}
=============================================================================
