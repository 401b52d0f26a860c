----------------------- MODULE MCRelationshipMutation -----------------------
EXTENDS RelationshipMutation, TLC

(* Sound for the safety properties; the liveness runs leave it out.         *)
MCSymmetry == Permutations(Keys) \cup Permutations(Workers)
=============================================================================
