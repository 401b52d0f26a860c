------------------------- MODULE MCApprovalRuntime -------------------------
(***************************************************************************)
(* Small plans for ApprovalRuntime: every strategy, every completion, a    *)
(* distinct scope, self approval, a fallback and two expiries.             *)
(***************************************************************************)
EXTENDS ApprovalRuntime, TLC

CONSTANTS ana, bob, cid, k1, k2, k3

MCUsers == {ana, bob, cid}
MCKeys  == {k1, k2, k3}
KeySymmetry == Permutations(MCKeys)

Leafs(steps, f) == [s \in steps |-> f]

(* A plan with one group per row of "tree", and default leaves. *)
Base(steps, root, children, strategy) ==
    [steps |-> steps, groups |-> DOMAIN children, root |-> root, children |-> children,
     strategy |-> strategy, quorum |-> [g \in DOMAIN children |-> 2], distinct |-> {},
     completion |-> Leafs(steps, "any"), required |-> Leafs(steps, 2), dynamic |-> {},
     self |-> Leafs(steps, NoUser), fallback |-> Leafs(steps, {}),
     comment |-> Leafs(steps, {}), ttl |-> Leafs(steps, 0), answers |-> {{ana, bob}}]

(* One dynamic step with a fallback; ana made the request. *)
DynamicPlan ==
    [Base({"s1"}, "s1", [g \in {} |-> << >>], [g \in {} |-> "all"]) EXCEPT
       !.dynamic = {"s1"}, !.self = Leafs({"s1"}, ana), !.fallback = Leafs({"s1"}, {cid}),
       !.ttl = Leafs({"s1"}, 1), !.comment = Leafs({"s1"}, {"reject"}),
       !.answers = {{}, {ana}, {ana, bob}}]

(* Four-eyes: two serial steps in one distinct scope, the second dynamic. *)
SerialPlan ==
    [Base({"s1", "s2"}, "g", [g \in {"g"} |-> <<"s1", "s2">>], [g \in {"g"} |-> "serial"]) EXCEPT
       !.distinct = {"g"}, !.dynamic = {"s2"}, !.ttl = Leafs({"s1", "s2"}, 1),
       !.answers = {{ana, bob}, {bob, cid}}]

(* Both of two parallel steps: everyone of a cohort, two of a cohort. *)
AllPlan ==
    [Base({"s1", "s2"}, "g", [g \in {"g"} |-> <<"s1", "s2">>], [g \in {"g"} |-> "all"]) EXCEPT
       !.completion = [s \in {"s1", "s2"} |-> IF s = "s1" THEN "all" ELSE "quorum"],
       !.ttl = [s \in {"s1", "s2"} |-> IF s = "s1" THEN 1 ELSE 0],
       !.answers = {{ana, bob}, {ana, bob, cid}}]

(* One of: two votes on a step, or two steps in series; all in one scope. *)
AnyPlan ==
    LET S == {"s1", "s2", "s3"}
    IN [Base(S, "g", [g \in {"g", "h"} |-> IF g = "g" THEN <<"s1", "h">> ELSE <<"s2", "s3">>],
             [g \in {"g", "h"} |-> IF g = "g" THEN "any" ELSE "serial"]) EXCEPT
          !.distinct = {"g"}, !.ttl = [s \in S |-> IF s = "s1" THEN 1 ELSE 0],
          !.completion = [s \in S |-> IF s = "s1" THEN "quorum" ELSE "any"]]

(* Two of three parallel steps, one of which expires. *)
QuorumPlan ==
    LET S == {"s1", "s2", "s3"}
    IN [Base(S, "g", [g \in {"g"} |-> <<"s1", "s2", "s3">>], [g \in {"g"} |-> "quorum"]) EXCEPT
          !.ttl = [s \in S |-> IF s = "s3" THEN 2 ELSE 1], !.answers = {{ana}, {bob}}]

MCPlans == {DynamicPlan, SerialPlan, AllPlan, AnyPlan, QuorumPlan}
=============================================================================
