-------------------------- MODULE MCApprovalWorkflow --------------------------
(***************************************************************************)
(* ApprovalWorkflow on plans small enough for two commands that are each   *)
(* delivered twice: a dynamic step that expires, and two steps of which    *)
(* one approval decides.                                                   *)
(***************************************************************************)
EXTENDS ApprovalWorkflow, TLC

CONSTANTS ana, bob, k1, k2

MCUsers == {ana, bob}
OneUser == {ana}
MCKeys  == {k1, k2}
OneKey  == {k1}
Symmetry == Permutations(MCKeys) \cup Permutations(MCUsers)

Leafs(steps, f) == [s \in steps |-> f]

DynamicPlan ==
    LET S == {"s1"}
    IN [steps |-> S, groups |-> {}, root |-> "s1", children |-> [g \in {} |-> << >>],
        strategy |-> [g \in {} |-> "all"], quorum |-> [g \in {} |-> 0], distinct |-> {},
        completion |-> Leafs(S, "any"), required |-> Leafs(S, 1), dynamic |-> S,
        self |-> Leafs(S, NoUser), fallback |-> Leafs(S, {}), comment |-> Leafs(S, {}),
        ttl |-> Leafs(S, 1), answers |-> {Users}]

SerialPlan ==
    LET S == {"s1", "s2"}
    IN [steps |-> S, groups |-> {"g"}, root |-> "g", children |-> [g \in {"g"} |-> <<"s1", "s2">>],
        strategy |-> [g \in {"g"} |-> "serial"], quorum |-> [g \in {"g"} |-> 0], distinct |-> {"g"},
        completion |-> Leafs(S, "any"), required |-> Leafs(S, 1), dynamic |-> {},
        self |-> Leafs(S, NoUser), fallback |-> Leafs(S, {}), comment |-> Leafs(S, {}),
        ttl |-> Leafs(S, 1), answers |-> {Users}]

MCPlans == {DynamicPlan, SerialPlan}
OneStep  == {DynamicPlan}
TwoSteps == {SerialPlan}
DynamicFirst == {[SerialPlan EXCEPT !.dynamic = {"s1"}, !.distinct = {}, !.ttl = Leafs({"s1", "s2"}, 0)]}
=============================================================================
