------------------------- MODULE ApplicationPolicy -------------------------
(***************************************************************************)
(* The approval rules an application declares for its own resources, in    *)
(* its own vocabulary (the scheme), and what they become: one approval     *)
(* policy per action, holding the rules of every scope, and the policy     *)
(* under which a change of the rules is itself approved.                   *)
(*                                                                         *)
(* A rule is [key, action, when, approvers].  A set of rules is a          *)
(* sequence: the first one that applies decides.                           *)
(***************************************************************************)
EXTENDS PolicyEvaluation

CONSTANTS Scheme,   \* actions, approvers, requesterIsNot, defaultPolicy, scopeType, metaRelation
          Org       \* the organization the catalog is registered in

MAX_RULES == 20
UpdateAction == <<"application", "approval_policy", "update">>
ActionTypes == {Scheme.actions[i].type : i \in DOMAIN Scheme.actions}
ActionNamed(type) == CHOOSE a \in ToSet(Scheme.actions) : a.type = type

ValidWhen(when, action) ==
    CASE when.type = "always" -> TRUE
      [] when.type = "requesterIsNot" ->
            /\ when.who \in DOMAIN Scheme.requesterIsNot
            /\ Scheme.requesterIsNot[when.who] \in action.principalFields
      [] when.type = "field" -> when.field \in action.conditionFields /\ when.equals # ""

ValidRule(entry) ==
    /\ entry.action \in ActionTypes
    /\ entry.approvers \in DOMAIN Scheme.approvers
    /\ LET action == ActionNamed(entry.action)
           approver == Scheme.approvers[entry.approvers]
       IN  /\ approver.type = "input" => approver.field \in action.principalFields
           /\ ValidWhen(entry.when, action)

ValidateApplicationApprovalPolicy(rules) ==
    /\ Len(rules) <= MAX_RULES
    /\ Distinct([i \in DOMAIN rules |-> rules[i].key])
    /\ \A i \in DOMAIN rules : ValidRule(rules[i])

ValidateUpdateInput(input) ==
    input.base \in Nat /\ ValidateApplicationApprovalPolicy(input.rules)

-----------------------------------------------------------------------------
(* Compilation.                                                            *)

Input(field) == Field(<<"action", "input", field>>)
ResourceId == Field(<<"action", "resource", "id">>)

RuleCondition(entry) ==
    CASE entry.when.type = "always" -> <<>>
      [] entry.when.type = "field" ->
            <<Compare("eq", Input(entry.when.field), Literal(Str(entry.when.equals)))>>
      [] entry.when.type = "requesterIsNot" ->
            <<Compare("ne", Input(Scheme.requesterIsNot[entry.when.who]),
                      Field(<<"authority", "principal", "id">>))>>

Approve(key, purpose, approver, fallback) ==
    [type |-> "approval", key |-> key, purpose |-> purpose, approver |-> approver,
     self |-> "", subject |-> None, fallback |-> fallback, completion |-> "any",
     resolution |-> "dynamic"]

ScopeRelation(relation) ==
    [type |-> "relation", objectType |-> Scheme.scopeType, id |-> ResourceId,
     relation |-> relation]

RuleFlow(entry) ==
    LET approver == Scheme.approvers[entry.approvers]
    IN  Approve(entry.key, "business_approval",
                IF approver.type = "relation" THEN ScopeRelation(approver.relation)
                ELSE [type |-> "user", userId |-> Input(approver.field)],
                None)

Conjunction(conditions) ==
    CASE Len(conditions) = 0 -> Always
      [] Len(conditions) = 1 -> conditions[1]
      [] Len(conditions) > 1 -> All(conditions)

ApplicationPolicyKey(type) == <<"rules", type>>
OfAction(rules, type) == SelectSeq(rules, LAMBDA entry : entry.action = type)

InScope(scope) == Compare("eq", ResourceId, Literal(Str(scope)))

OwnRules(scope, rules, type) ==
    LET own == OfAction(rules, type)
    IN  [i \in DOMAIN own |->
            [key |-> <<"scope", scope, own[i].key>>,
             when |-> Conjunction(<<InScope(scope)>> \o RuleCondition(own[i])),
             flow |-> RuleFlow(own[i])]]

(* The rules of one scope, closed by "no approval here": a scope with      *)
(* rules of its own never falls through to the default ones.               *)
ScopeRules(scope, rules, type) ==
    OwnRules(scope, rules, type)
        \o <<[key |-> <<"scope", scope, "none">>, when |-> InScope(scope), flow |-> None]>>

DefaultRules(type) ==
    LET own == OfAction(Scheme.defaultPolicy, type)
    IN  [i \in DOMAIN own |->
            [key |-> <<"default", own[i].key>>, when |-> Conjunction(RuleCondition(own[i])),
             flow |-> RuleFlow(own[i])]]
        \o <<[key |-> <<"default", "none">>, when |-> Always, flow |-> None]>>

(* scopes maps each scope that has rules of its own to them.               *)
CompileApplicationApprovalPolicies(scopes) ==
    LET sorted == SetToSeq(DOMAIN scopes)
    IN  [type \in ActionTypes |->
            [key |-> ApplicationPolicyKey(type),
             rules |-> FlattenSeq([i \in DOMAIN sorted |->
                          ScopeRules(sorted[i], scopes[sorted[i]], type)])
                       \o DefaultRules(type)]]

-----------------------------------------------------------------------------
(* The approval of a change of the rules, and the bootstrap.               *)

MetaPolicyKey == <<"meta">>
Editors ==
    [type |-> "relation", objectType |-> "authorization_admin",
     id |-> Literal(Str("root")), relation |-> "editor"]

MetaPolicy(flow) ==
    [key |-> MetaPolicyKey, rules |-> <<[key |-> "meta-approval", when |-> Always, flow |-> flow]>>]

(* The first bootstrap: an owner of the scope or an administrator.         *)
MetaPolicyV1 ==
    MetaPolicy([type |-> "parallel", strategy |-> "any", children |->
        <<Approve("scope_owner", "security_approval", ScopeRelation(Scheme.metaRelation), None),
          Approve("organization_admin", "security_approval", Editors, None)>>])

SelfMetaPolicy ==     \* mutant: the requester may approve
    MetaPolicy([Approve("scope_owner", "security_approval",
                        ScopeRelation(Scheme.metaRelation), Editors) EXCEPT !.self = "allow"])

(* Since version 2: an owner other than the requester, else administrators.*)
MetaPolicyV2 ==
    MetaPolicy([Approve("scope_owner", "security_approval",
                        ScopeRelation(Scheme.metaRelation), Editors) EXCEPT !.self = "deny"])

BindingOf(id, key, type) ==
    [id |-> id, org |-> Org, policyKey |-> key,
     actionTypes |-> {[path |-> type, wildcard |-> FALSE]},
     resourceTypes |-> {Scheme.scopeType}, when |-> Always, order |-> 100, enabled |-> TRUE]

MetaBindingId == Len(Scheme.actions) + 1

(* A stored policy is kept here as what it was made from: every compiled   *)
(* one by the rules of the scopes, a given one by itself.                  *)
Compiled(type, scopes) == [form |-> "compiled", action |-> type, scopes |-> scopes]
Meta(version) == [form |-> "meta", version |-> version]
Given(policy) == [form |-> "given", policy |-> policy]

Definition(stored) ==
    CASE stored.form = "compiled" ->
            CompileApplicationApprovalPolicies(stored.scopes)[stored.action]
      [] stored.form = "meta" /\ stored.version = 1 -> MetaPolicyV1
      [] stored.form = "meta" /\ stored.version = 2 -> MetaPolicyV2
      [] stored.form = "given" -> stored.policy

Row(key, version, stored, source) ==
    [key |-> key, version |-> version, policy |-> stored, source |-> source]

(* The entry approval-policy:<app>@1 of the catalog: the compiled default  *)
(* rules and the meta policy, each with its binding.                       *)
NoScopes == [s \in {} |-> <<>>]
ApprovalPolicyEntry ==
    [id |-> "approval-policy@1",
     policies |-> {Row(ApplicationPolicyKey(type), 1, Compiled(type, NoScopes), "catalog") :
                      type \in ActionTypes}
                  \cup {Row(MetaPolicyKey, 1, Meta(1), "catalog")},
     bindings |-> {BindingOf(i, ApplicationPolicyKey(Scheme.actions[i].type),
                             Scheme.actions[i].type) : i \in DOMAIN Scheme.actions}
                  \cup {BindingOf(MetaBindingId, MetaPolicyKey, UpdateAction)}]

MetaPolicyEntry ==
    [id |-> "approval-policy-meta@2",
     policies |-> {Row(MetaPolicyKey, 2, Meta(2), "catalog")},
     bindings |-> {}]

RenderCatalogEntries == <<ApprovalPolicyEntry, MetaPolicyEntry>>

(* What a catalog declares is checked before anything is rendered.         *)
ValidateApprovalPolicySection ==
    /\ ValidateApplicationApprovalPolicy(Scheme.defaultPolicy)
    /\ \A i \in DOMAIN Scheme.actions :
          Scheme.actions[i].conditionFields \cup Scheme.actions[i].principalFields
              \subseteq Scheme.actions[i].required

ASSUME SchemeAssumption == ValidateApprovalPolicySection
=============================================================================
