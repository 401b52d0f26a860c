------------------------- MODULE PolicyEvaluation -------------------------
(***************************************************************************)
(* From the policies of an organization to the plan of one request: the    *)
(* evaluation of conditions, the bindings that apply, the first rule that  *)
(* matches, the composed flow, its materialization with the approvers and  *)
(* the self-approval mode fixed, and the validation that a policy or a     *)
(* binding passes before it is published.  All of it is pure; the plan it  *)
(* returns is what the approval interpreter runs (ApprovalFlow).           *)
(*                                                                         *)
(* A JSON value carries its type, since the code never compares values of  *)
(* two types.  A field path and an action type are sequences of segments.  *)
(* The order of two strings is not represented: only numbers are ordered.  *)
(***************************************************************************)
EXTENDS Integers, Sequences, FiniteSets, SequencesExt

Str(s) == [type |-> "string", of |-> s]
Num(n) == [type |-> "number", of |-> n]
List(s) == [type |-> "array", of |-> s]
Failed == [type |-> "error", of |-> 0]
IsError(x) == x.type = "error"
EqualJson(a, b) == a.type = b.type /\ a.of = b.of

Field(path) == [type |-> "field", path |-> path]
Literal(v) == [type |-> "literal", value |-> v]
Always == [type |-> "always"]
Compare(op, l, r) == [type |-> "comparison", operator |-> op, left |-> l, right |-> r]
All(cs) == [type |-> "and", conditions |-> cs]

(* The fields a policy may read: a namespace allows its own path and,      *)
(* unless it is exact, everything below it.                                *)
Namespaces ==
    {[pattern |-> p, exact |-> FALSE] :
        p \in {<<"action", "input">>, <<"actor">>, <<"authority">>, <<"origin">>,
               <<"organization", "settings">>, <<"attributes">>}}
    \cup {[pattern |-> p, exact |-> TRUE] :
        p \in {<<"action", "type">>, <<"action", "resource", "type">>,
               <<"action", "resource", "id">>, <<"now">>}}

IsFieldPathAllowed(path) ==
    \E n \in Namespaces : IF n.exact THEN path = n.pattern ELSE IsPrefix(n.pattern, path)

(* A field that is missing or not allowed is an error, never "no match".   *)
ResolveField(path, ctx) ==
    IF IsFieldPathAllowed(path) /\ path \in DOMAIN ctx.fields
    THEN ctx.fields[path] ELSE Failed

ValueOf(e, ctx) == IF e.type = "field" THEN ResolveField(e.path, ctx) ELSE e.value

Outcome(b) == IF b THEN "matched" ELSE "not_matched"

Ordered(op, l, r) ==
    CASE op = "gt" -> l > r [] op = "gte" -> l >= r
      [] op = "lt" -> l < r [] op = "lte" -> l <= r

EvaluateComparison(c, ctx) ==
    LET l == ValueOf(c.left, ctx)
        r == ValueOf(c.right, ctx)
    IN  IF IsError(l) \/ IsError(r) THEN "error"
        ELSE CASE c.operator = "eq" -> Outcome(EqualJson(l, r))
               [] c.operator = "ne" -> Outcome(~EqualJson(l, r))
               [] c.operator \notin {"eq", "ne"} ->
                     IF l.type = "number" /\ r.type = "number"
                     THEN Outcome(Ordered(c.operator, l.of, r.of)) ELSE "error"

(* "in" stops at the first candidate that is equal or cannot be read.      *)
EvaluateIn(c, ctx) ==
    LET v == ValueOf(c.value, ctx)
        stops == {i \in DOMAIN c.candidates :
                     LET w == ValueOf(c.candidates[i], ctx)
                     IN  IsError(w) \/ EqualJson(v, w)}
    IN  CASE IsError(v) -> "error"
          [] ~IsError(v) /\ stops = {} -> "not_matched"
          [] ~IsError(v) /\ stops # {} ->
                LET first == CHOOSE i \in stops : \A j \in stops : i <= j
                IN  IF IsError(ValueOf(c.candidates[first], ctx)) THEN "error" ELSE "matched"

EvaluateContains(c, ctx) ==
    LET all == ValueOf(c.collection, ctx)
        v == ValueOf(c.value, ctx)
    IN  IF IsError(all) \/ IsError(v) \/ all.type # "array" THEN "error"
        ELSE Outcome(\E i \in DOMAIN all.of : EqualJson(all.of[i], v))

(* What a function of conditions or flows comes to is defined for each part*)
(* of a tree, which is named by the way to it from the root.               *)
Ways == Seq(Nat)
ConditionAt(root, way) ==
    FoldLeft(LAMBDA c, i : IF c.type = "not" THEN c.condition ELSE c.conditions[i], root, way)
FlowAt(root, way) == FoldLeft(LAMBDA flow, i : flow.children[i], root, way)

(* One error among the parts of an "and" or an "or" is the error of the    *)
(* whole, whatever the other parts say.                                    *)
EvaluateCondition(root, ctx) ==
    LET says[way \in Ways] ==
            LET c == ConditionAt(root, way)
                parts == {says[Append(way, i)] : i \in DOMAIN c.conditions}
                inner == says[Append(way, 1)]
            IN  CASE c.type = "always" -> "matched"
                  [] c.type = "comparison" -> EvaluateComparison(c, ctx)
                  [] c.type = "and" -> IF "error" \in parts THEN "error"
                                       ELSE Outcome("not_matched" \notin parts)
                  [] c.type = "or" -> IF "error" \in parts THEN "error"
                                      ELSE Outcome("matched" \in parts)
                  [] c.type = "not" -> IF inner = "error" THEN "error"
                                       ELSE Outcome(inner = "not_matched")
                  [] c.type = "in" -> EvaluateIn(c, ctx)
                  [] c.type = "contains" -> EvaluateContains(c, ctx)
    IN  says[<<>>]

-----------------------------------------------------------------------------
(* Which bindings apply, and the rule that decides.                        *)

(* The string prefix of a wildcard is taken at the end of a segment here.   *)
MatchesActionType(pattern, type) ==
    IF pattern.wildcard THEN IsPrefix(pattern.path, type) ELSE pattern.path = type

Selects(b, ctx) ==
    /\ b.enabled
    /\ b.org = ctx.org
    /\ \E p \in b.actionTypes : MatchesActionType(p, ctx.type)
    /\ b.resourceTypes # {} => ctx.resource.type \in b.resourceTypes

Before(a, b) == a.order < b.order \/ (a.order = b.order /\ a.id < b.id)

(* The bindings that apply, in the order of composition, or an error.      *)
ResolvePolicyBindings(bindings, ctx) ==
    LET selected == {b \in bindings : Selects(b, ctx)}
        says(b) == EvaluateCondition(b.when, ctx)
    IN  IF \E b \in selected : says(b) = "error" THEN Failed
        ELSE [type |-> "resolved",
              bindings |-> SetToSortSeq({b \in selected : says(b) = "matched"}, Before)]

(* The first rule that does not say "not_matched" decides.                 *)
EvaluatePolicy(policy, ctx) ==
    LET says == [i \in DOMAIN policy.rules |-> EvaluateCondition(policy.rules[i].when, ctx)]
        decided == {i \in DOMAIN says : says[i] # "not_matched"}
    IN  IF decided = {} THEN [type |-> "not_matched"]
        ELSE LET i == CHOOSE j \in decided : \A k \in decided : j <= k
             IN  IF says[i] = "error" THEN Failed
                 ELSE [type |-> "matched", rule |-> policy.rules[i].key,
                       flow |-> policy.rules[i].flow]

None == [type |-> "none"]

(* The constraints of the organization, if it has any, hold for the whole. *)
Compose(flows, constraints) ==
    CASE Len(flows) = 0 -> None
      [] Len(flows) = 1 -> flows[1]
      [] Len(flows) > 1 -> [type |-> "serial", children |-> flows, constraints |-> constraints]

-----------------------------------------------------------------------------
(* Materialization: everything an approval step depends on becomes part of *)
(* the plan.                                                               *)

ResolvePrincipal(e, ctx) ==
    CASE e.type = "actor" -> ctx.actor
      [] e.type = "authority_principal" -> ctx.authority
      [] e.type = "caller" -> ctx.caller
      [] e.type = "delegator" ->
            LET n == Len(ctx.chain)
            IN  CASE n = 0 \/ (~e.root /\ e.depth >= n) -> Failed
                  [] n > 0 /\ e.root -> ctx.chain[1]
                  [] n > 0 /\ ~e.root /\ e.depth < n -> ctx.chain[n - e.depth]

ResolveApproverTarget(a, ctx) ==
    CASE a.type = "principal" ->
            LET p == ResolvePrincipal(a.principal, ctx)
            IN  IF p.type = "user" THEN [type |-> "user", user |-> p.id] ELSE Failed
      [] a.type = "user" ->
            LET v == ValueOf(a.userId, ctx)
            IN  IF v.type = "string" THEN [type |-> "user", user |-> v.of] ELSE Failed
      [] a.type = "principal_relation" ->
            LET p == ResolvePrincipal(a.principal, ctx)
            IN  IF IsError(p) THEN Failed
                ELSE [type |-> "relation", object |-> <<p.type, p.id>>, relation |-> a.relation]
      [] a.type = "relation" ->
            LET v == ValueOf(a.id, ctx)
            IN  IF v.type \notin {"string", "number"} THEN Failed
                ELSE [type |-> "relation", object |-> <<a.objectType, v.of>>,
                      relation |-> a.relation]
      [] a.type = "literal_relation" ->
            [type |-> "relation", object |-> a.object, relation |-> a.relation]

StepId(source) == <<source.binding, source.version, source.path>>

(* The step denies the requester's own approval unless it says otherwise;  *)
(* a consent to the execution of one's own request allows it.              *)
SelfApproval(step) ==
    CASE step.self # "" -> step.self
      [] step.self = "" /\ step.purpose = "execution_consent" -> "allow"
      [] step.self = "" /\ step.purpose # "execution_consent" -> "deny"

MaterializeStep(step, source, ctx) ==
    LET target == ResolveApproverTarget(step.approver, ctx)
        fallback == IF step.fallback = None THEN None
                    ELSE ResolveApproverTarget(step.fallback, ctx)
        subject == IF step.self = "" \/ step.subject = None THEN None
                   ELSE ResolvePrincipal(step.subject, ctx)
    IN  IF IsError(target) \/ IsError(fallback) \/ IsError(subject) THEN Failed
        ELSE [type |-> "approval", id |-> StepId(source), key |-> step.key,
              source |-> source, target |-> target, fallback |-> fallback,
              self |-> SelfApproval(step), subject |-> subject, completion |-> step.completion,
              resolution |-> step.resolution]

MaterializeFlow(root, source, ctx) ==
    LET made[way \in Ways] ==
            LET flow == FlowAt(root, way)
                children == [i \in DOMAIN flow.children |-> made[Append(way, i)]]
            IN  CASE flow.type = "none" -> None
                  [] flow.type = "approval" ->
                        MaterializeStep(flow, [source EXCEPT !.path = way], ctx)
                  [] flow.type \in {"serial", "parallel"} ->
                        IF \E i \in DOMAIN children : IsError(children[i]) THEN Failed
                        ELSE [flow EXCEPT !.children = children]
    IN  made[<<>>]

(* What the plan remembers of a binding; the policy stands for the         *)
(* checksum of its definition.                                             *)
BindingSnapshot(source, evaluation) ==
    [binding |-> source.binding.id, policyKey |-> source.binding.policyKey,
     version |-> source.version, policy |-> source.policy,
     rule |-> IF evaluation.type = "matched" THEN evaluation.rule ELSE <<>>]

(* Fingerprints and checksums are injective: here the content itself.      *)
Fingerprint(plan) == <<plan.action, plan.snapshot, plan.bindings, plan.flow>>

SourceOf(sources, b) == CHOOSE s \in sources : s.binding.id = b.id

(* The flows of the matched rules, each marked with where it comes from.   *)
FlowsOf(order, says, ctx) ==
    LET needed == SelectSeq([i \in DOMAIN order |-> i],
                            LAMBDA i : says[i].type = "matched" /\ says[i].flow.type # "none")
    IN  [k \in DOMAIN needed |->
            LET s == order[needed[k]]
            IN  MaterializeFlow(says[needed[k]].flow,
                    [binding |-> s.binding.id, policyKey |-> s.binding.policyKey,
                     version |-> s.version, path |-> <<>>], ctx)]

PlanOf(request, ctx, order, says, flows) ==
    LET plan == [type |-> "materialized", request |-> request,
                 action |-> [type |-> ctx.type, resource |-> ctx.resource],
                 snapshot |-> ctx,
                 bindings |-> [i \in DOMAIN order |-> BindingSnapshot(order[i], says[i])],
                 flow |-> Compose(flows, ctx.constraints)]
    IN  plan @@ [fingerprint |-> Fingerprint(plan)]

AcceptsSources(sources) ==
    /\ Cardinality({s.binding.id : s \in sources}) = Cardinality(sources)
    /\ \A s \in sources : s.version >= 1 /\ s.binding.policyKey = s.policy.key

(* materializeApprovalPlan: sources are the bindings with the policy       *)
(* version read for each of them.  With names an intermediate result.      *)
With(value, Rest(_)) == CHOOSE result \in {Rest(v) : v \in {value}} : TRUE

MaterializeApprovalPlan(request, ctx, sources) ==
    With(ResolvePolicyBindings({s.binding : s \in sources}, ctx), LAMBDA resolved :
        IF ~AcceptsSources(sources) \/ IsError(resolved) THEN Failed
        ELSE With([i \in DOMAIN resolved.bindings |-> SourceOf(sources, resolved.bindings[i])],
                  LAMBDA order :
             With([i \in DOMAIN order |-> EvaluatePolicy(order[i].policy, ctx)], LAMBDA says :
                  IF \E i \in DOMAIN says : IsError(says[i]) THEN Failed
                  ELSE With(FlowsOf(order, says, ctx), LAMBDA flows :
                       IF \E k \in DOMAIN flows : IsError(flows[k]) THEN Failed
                       ELSE PlanOf(request, ctx, order, says, flows)))))

StepsOf(root) ==
    LET steps[way \in Ways] ==
            LET flow == FlowAt(root, way)
            IN  CASE flow.type = "none" -> {}
                  [] flow.type = "approval" -> {flow}
                  [] flow.type \in {"serial", "parallel"} ->
                        UNION {steps[Append(way, i)] : i \in DOMAIN flow.children}
    IN  steps[<<>>]

(* verifyMaterializedApprovalPlan: every step comes from a binding the     *)
(* plan names, and the checksums are those of the content.                 *)
VerifyPlan(plan) ==
    /\ \A s \in StepsOf(plan.flow) :
          /\ \E i \in DOMAIN plan.bindings :
                /\ plan.bindings[i].binding = s.source.binding
                /\ plan.bindings[i].policyKey = s.source.policyKey
                /\ plan.bindings[i].version = s.source.version
          /\ s.id = StepId(s.source)
    /\ plan.fingerprint = Fingerprint(plan)

-----------------------------------------------------------------------------
(* What is refused before it is published.                                 *)

ValidExpression(e) == e.type = "field" => IsFieldPathAllowed(e.path)

ValidComparison(c) ==
    /\ ValidExpression(c.left) /\ ValidExpression(c.right)
    /\ (c.operator \notin {"eq", "ne"} /\ c.left.type = "literal" /\ c.right.type = "literal")
          => c.left.value.type = c.right.value.type

ValidCondition(root) ==
    LET valid[way \in Ways] ==
            LET c == ConditionAt(root, way)
            IN  CASE c.type = "always" -> TRUE
                  [] c.type = "comparison" -> ValidComparison(c)
                  [] c.type \in {"and", "or"} -> \A i \in DOMAIN c.conditions : valid[Append(way, i)]
                  [] c.type = "not" -> valid[Append(way, 1)]
                  [] c.type = "in" -> /\ ValidExpression(c.value)
                                      /\ \A i \in DOMAIN c.candidates : ValidExpression(c.candidates[i])
                  [] c.type = "contains" -> ValidExpression(c.collection) /\ ValidExpression(c.value)
    IN  valid[<<>>]

ValidApprover(a) ==
    /\ a.type = "relation" => ValidExpression(a.id)
    /\ a.type = "user" => ValidExpression(a.userId)

ValidStep(s) ==
    /\ ValidApprover(s.approver)
    /\ s.completion \in {"any", "all", "quorum"}
    /\ s.completion # "any" => s.resolution = "snapshot"

ValidFlow(root) ==
    LET valid[way \in Ways] ==
            LET flow == FlowAt(root, way)
            IN  CASE flow.type = "none" -> TRUE
                  [] flow.type = "approval" -> ValidStep(flow)
                  [] flow.type \in {"serial", "parallel"} ->
                        /\ flow.children # <<>>
                        /\ flow.type = "parallel" =>
                              /\ flow.strategy \in {"all", "any", "quorum"}
                              /\ flow.strategy = "quorum" => flow.quorum \in 1 .. Len(flow.children)
                        /\ \A i \in DOMAIN flow.children : valid[Append(way, i)]
    IN  valid[<<>>]

KeysOf(root) ==
    LET keys[way \in Ways] ==
            LET flow == FlowAt(root, way)
            IN  CASE flow.type = "none" -> <<>>
                  [] flow.type = "approval" -> <<flow.key>>
                  [] flow.type \in {"serial", "parallel"} ->
                        FlattenSeq([i \in DOMAIN flow.children |-> keys[Append(way, i)]])
    IN  keys[<<>>]

Distinct(s) == \A i, j \in DOMAIN s : s[i] = s[j] => i = j

(* Rule keys and step keys occur once in a policy, and "always" is last.   *)
ValidPolicy(policy) ==
    /\ Distinct([i \in DOMAIN policy.rules |-> policy.rules[i].key])
    /\ Distinct(FlattenSeq([i \in DOMAIN policy.rules |-> KeysOf(policy.rules[i].flow)]))
    /\ \A i \in DOMAIN policy.rules :
          /\ policy.rules[i].when = Always => i = Len(policy.rules)
          /\ ValidCondition(policy.rules[i].when)
          /\ ValidFlow(policy.rules[i].flow)

ValidActionTypePattern(p) == p.path # <<>>

ValidBinding(b) ==
    /\ b.actionTypes # {} /\ \A p \in b.actionTypes : ValidActionTypePattern(p)
    /\ ValidCondition(b.when)
=============================================================================
