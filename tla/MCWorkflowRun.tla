----------------------------- MODULE MCWorkflowRun -----------------------------
EXTENDS WorkflowRun

N(id, type) == [id |-> id, type |-> type]
Act(id, attempts) == [id |-> id, type |-> "action", max |-> attempts]
E(from, to) == [source |-> from, target |-> to, branch |-> "none"]
B(from, to, key) == [source |-> from, target |-> to, branch |-> key]

(* An action and a program, one after the other for the throttle, joined.   *)
Fork == [nodes |-> <<N("t", "trigger"), Act("a", 2), N("p", "program"), N("j", "join"), N("o", "output")>>,
         edges |-> <<E("t", "a"), E("t", "p"), E("a", "j"), E("p", "j"), E("j", "o")>>,
         maxParallelEffects |-> 1, maxNodeRuns |-> 20]

(* A branch whose one case is a loop over two items, two at a time.         *)
Body == [nodes |-> <<Act("b", 1)>>, edges |-> <<>>]
Loop == [nodes |-> <<N("t", "trigger"),
                     [id |-> "k", type |-> "branch", keys |-> {"x", "y"}],
                     [id |-> "l", type |-> "for_each", max |-> 2, items |-> 2, body |-> Body],
                     N("m", "llm"), N("j", "join"), N("o", "output")>>,
         edges |-> <<E("t", "k"), B("k", "l", "x"), B("k", "m", "y"), E("l", "j"), E("m", "j"),
                     E("j", "o")>>,
         maxParallelEffects |-> 2, maxNodeRuns |-> 20]

(* A loop that asks first, with a loop inside, one item at a time.          *)
Inner == [nodes |-> <<[id |-> "l", type |-> "for_each", max |-> 1, items |-> 2, body |-> Body]>>,
          edges |-> <<>>]
While == [nodes |-> <<N("t", "trigger"), [id |-> "w", type |-> "while", max |-> 1, body |-> Inner],
                      N("o", "output")>>,
          edges |-> <<E("t", "w"), E("w", "o")>>,
          maxParallelEffects |-> 1, maxNodeRuns |-> 6]

Values(names) == [n \in names |-> "none"]

MCCases ==
    {[graph |-> Fork, data |-> [value: {Values({"t", "a", "p", "j", "o"})}, broken: {{}}]],
     [graph |-> Loop, data |-> [value: {("k" :> k[1]) @@ ("l" :> k[2]) @@ Values({"t", "m", "j", "o", "b"})
                                        : k \in {<<"x", 0>>, <<"x", 2>>, <<"x", 3>>, <<"y", 2>>, <<"none", 2>>}},
                                broken: {{}}]],
     [graph |-> While, data |-> [value: {("w" :> h) @@ ("l" :> 2) @@ Values({"t", "o", "b"})
                                         : h \in 0..2}, broken: {{}, {"o"}}]]}

MCSymmetry == Permutations(Workers)
=============================================================================
