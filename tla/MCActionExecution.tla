-------------------------- MODULE MCActionExecution --------------------------
EXTENDS ActionExecution, TLC

(* Another adapter reports a cancelled run, or a run that is not this one.  *)
MCStrays == {[ref |-> Own, status |-> "execution_failed"], [ref |-> "old", status |-> "executed"]}

MCSymmetry == Permutations(Workers)
=============================================================================
