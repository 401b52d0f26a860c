------------------------- MODULE MCPolicyAuthoring -------------------------
(* The vocabulary of the Knowledge application on two spaces.  Space one   *)
(* has two owners, so that either can approve the other's change; space    *)
(* two has one, whose own changes go to the administrator.                 *)
EXTENDS PolicyAuthoring

Publish == <<"knowledge", "revision", "publish">>
Archive == <<"knowledge", "page", "archive">>

RuleOf(key, action, when, approvers) ==
    [key |-> key, action |-> action, when |-> when, approvers |-> approvers]
When(field, equals) == [type |-> "field", field |-> field, equals |-> equals]
NotOwner == [type |-> "requesterIsNot", who |-> "page_owner"]
Anyway == [type |-> "always"]

MCScheme ==
    [actions |-> <<[type |-> Publish, conditionFields |-> {"visibility"},
                    principalFields |-> {"pageOwnerId"}, required |-> {"visibility", "pageOwnerId"}],
                   [type |-> Archive, conditionFields |-> {},
                    principalFields |-> {"pageOwnerId"}, required |-> {"pageOwnerId"}]>>,
     approvers |-> [space_owners |-> [type |-> "relation", relation |-> "owner"],
                    page_owner |-> [type |-> "input", field |-> "pageOwnerId"]],
     requesterIsNot |-> [page_owner |-> "pageOwnerId"],
     defaultPolicy |-> <<RuleOf("publish_organization", Publish,
                                When("visibility", "organization"), "space_owners"),
                         RuleOf("archive", Archive, NotOwner, "page_owner")>>,
     scopeType |-> "knowledge_space", metaRelation |-> "owner"]

Internal == <<RuleOf("private", Publish, When("visibility", "members"), "page_owner")>>
Proposal(scope, by, rules) == [scope |-> scope, by |-> by, rules |-> rules]
MCProposals == {Proposal("one", "ann", Internal), Proposal("two", "ann", <<>>),
                Proposal("one", "ann", <<RuleOf("x", Archive, When("visibility", "members"),
                                                "page_owner")>>)}


Call(scope, by, action, visibility, owner) ==
    [scope |-> scope, by |-> by, action |-> action,
     input |-> [visibility |-> visibility, pageOwnerId |-> owner]]
MCCalls == {Call("one", "bob", Publish, "organization", "bob"),
            Call("one", "bob", Publish, "members", "amy"),
            Call("two", "bob", Archive, "members", "ann")}

MCOwners == [s \in {"one", "two"} |-> IF s = "one" THEN {"ann", "bob"} ELSE {"ann"}]

(* Governance may take the approval of changes away: by a version of the   *)
(* meta policy that asks nobody, or by disabling its binding.              *)
EmptyFlow == [type |-> "serial", children |-> <<>>]
MCGovernancePolicies ==
    {Row(MetaPolicyKey, 2, Given(MetaPolicy(flow)), "governance") : flow \in {None, EmptyFlow}}
    \cup {Row(MetaPolicyKey, 2, Given(MetaPolicyV1), "governance")}
MCGovernanceBindings ==
    {[BindingOf(MetaBindingId, MetaPolicyKey, UpdateAction) EXCEPT !.enabled = FALSE]} \cup
    {[id |-> 9, org |-> o, policyKey |-> <<"org">>,
      actionTypes |-> {[path |-> <<"knowledge">>, wildcard |-> TRUE]}, resourceTypes |-> {},
      when |-> Always, order |-> 50, enabled |-> TRUE] : o \in {"org", "elsewhere"}}
=============================================================================
