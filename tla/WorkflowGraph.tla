----------------------------- MODULE WorkflowGraph -----------------------------
(***************************************************************************)
(* The graph of a Workflow Definition: workflow-core/src/graph.ts and what *)
(* validation.ts asks of it.  A graph is a record [nodes, edges]: nodes a   *)
(* sequence of node records in the order they were declared, edges a        *)
(* sequence of [source, target, branch] with "none" for an edge without a   *)
(* case key.  A node record has an id and a type, a loop node also a body.  *)
(***************************************************************************)
EXTENDS Naturals, Sequences, SequencesExt, FiniteSets

LoopTypes == {"for_each", "while"}
NodeTypes == {"trigger", "action", "branch", "transform", "program", "llm", "join", "output"}
             \cup LoopTypes

Nodes(graph) == ToSet(graph.nodes)
NodeIds(graph) == {node.id : node \in Nodes(graph)}
FindNode(graph, id) == CHOOSE node \in Nodes(graph) : node.id = id

Incoming(graph, id) == {e \in DOMAIN graph.edges : graph.edges[e].target = id}
Outgoing(graph, id) == {e \in DOMAIN graph.edges : graph.edges[e].source = id}

Predecessors(graph, ids) == {graph.edges[e].source : e \in UNION {Incoming(graph, id) : id \in ids}}
Successors(graph, ids) == {graph.edges[e].target : e \in UNION {Outgoing(graph, id) : id \in ids}}

(* The nodes from which id is reached, found by walking back edge by edge   *)
(* until nothing new turns up.                                              *)
AncestorsOf(graph, id) ==
    LET reached[n \in 0..Len(graph.nodes)] ==
            IF n = 0 THEN Predecessors(graph, {id})
            ELSE reached[n - 1] \cup Predecessors(graph, reached[n - 1])
    IN  reached[Len(graph.nodes)]

(* What is reached from the entries.                                        *)
ReachableFrom(graph, ids) ==
    LET reached[n \in 0..Len(graph.nodes)] ==
            IF n = 0 THEN ids ELSE reached[n - 1] \cup Successors(graph, reached[n - 1])
    IN  reached[Len(graph.nodes)]

(* Kahn's algorithm, the nodes without open predecessors in declared order. *)
(* "queue" holds what may go next, "open" the edges not yet counted off;    *)
(* the order is shorter than the graph when there is a cycle.               *)
TopologicalOrder(graph) ==
    LET entries == SelectSeq(graph.nodes, LAMBDA node : Incoming(graph, node.id) = {})
        ids == [i \in DOMAIN entries |-> entries[i].id]
        CountOff(s, e) ==
            LET open == s.open \ {e}
                target == graph.edges[e].target
            IN  [s EXCEPT !.open = open,
                          !.queue = IF Incoming(graph, target) \cap open = {}
                                    THEN Append(@, target) ELSE @]
        Step(s, i) ==
            IF s.queue = <<>> THEN s
            ELSE LET id == Head(s.queue)
                     out == SelectSeq([e \in DOMAIN graph.edges |-> e],
                                      LAMBDA e : e \in Outgoing(graph, id))
                 IN  FoldLeft(CountOff, [s EXCEPT !.queue = Tail(@), !.order = Append(@, id)], out)
    IN  FoldLeft(Step, [queue |-> ids, open |-> DOMAIN graph.edges, order |-> <<>>],
                 [i \in 1..Len(graph.nodes) |-> i]).order

(* The body graph at the end of a path of loop nodes.                       *)
GraphAtPath(root, path) == FoldLeft(LAMBDA graph, id : FindNode(graph, id).body, root, path)

(* WorkflowDefinition: what its nodes and edges consist of, what matters to *)
(* a run, and the limits of a run.                                          *)
IsNode(node) ==
    /\ node.type \in NodeTypes
    /\ node.type \in {"action", "while", "for_each"} => node.max \in Nat \ {0}
    /\ node.type = "for_each" => node.items \in Nat
IsGraph(graph) ==
    /\ \A node \in Nodes(graph) : IsNode(node)
    /\ \A edge \in ToSet(graph.edges) : {"source", "target", "branch"} = DOMAIN edge
IsDefinition(root) ==
    /\ IsGraph(root) /\ {root.maxNodeRuns, root.maxParallelEffects} \subseteq Nat \ {0}
    /\ \A node \in Nodes(root) : node.type \in LoopTypes => IsGraph(node.body)

-----------------------------------------------------------------------------
(* validation.ts, the structure: issues are told apart by their code only.  *)
Dangling(graph) ==
    \E e \in DOMAIN graph.edges :
       {graph.edges[e].source, graph.edges[e].target} \ NodeIds(graph) # {}

Cyclic(graph) == Len(TopologicalOrder(graph)) < Len(graph.nodes)

OfType(graph, type) == {node \in Nodes(graph) : node.type = type}
Entries(graph) == {id \in NodeIds(graph) : Incoming(graph, id) = {}}

(* The case keys of a branch, its default included.                         *)
EdgeIssues(graph, node) ==
    \E e \in Outgoing(graph, node.id) :
       IF node.type = "branch" THEN graph.edges[e].branch \notin node.keys
       ELSE graph.edges[e].branch # "none"

NodeIssues(graph, node) ==
    LET in == Cardinality(Incoming(graph, node.id))
    IN  {issue \in {"trigger_has_incoming", "join_incoming", "join_required",
                    "output_has_outgoing", "branch_edge_invalid"} :
           CASE issue = "trigger_has_incoming" -> node.type = "trigger" /\ in > 0
             [] issue = "join_incoming" -> node.type = "join" /\ in < 2
             [] issue = "join_required" -> node.type # "join" /\ in > 1
             [] issue = "output_has_outgoing" ->
                  node.type = "output" /\ Outgoing(graph, node.id) # {}
             [] issue = "branch_edge_invalid" -> EdgeIssues(graph, node)}

GraphIssues(graph, isRoot) ==
    LET triggers == Cardinality(OfType(graph, "trigger"))
        outputs == Cardinality(OfType(graph, "output"))
        sound == ~Dangling(graph) /\ ~Cyclic(graph)
    IN  {issue \in {"dangling_edge", "cycle_detected", "trigger_count", "output_count",
                    "entry_not_trigger", "body_entry_missing", "unreachable_node"} :
           CASE issue = "dangling_edge" -> Dangling(graph)
             [] issue = "cycle_detected" -> ~Dangling(graph) /\ Cyclic(graph)
             [] issue = "trigger_count" -> triggers # (IF isRoot THEN 1 ELSE 0)
             [] issue = "output_count" -> IF isRoot THEN outputs # 1 ELSE outputs > 1
             [] issue = "entry_not_trigger" ->
                  isRoot /\ \E id \in Entries(graph) : FindNode(graph, id).type # "trigger"
             [] issue = "body_entry_missing" -> ~isRoot /\ Entries(graph) = {}
             [] issue = "unreachable_node" ->
                  sound /\ ReachableFrom(graph, Entries(graph)) # NodeIds(graph)}
        \cup UNION {NodeIssues(graph, node) : node \in Nodes(graph)}

(* A definition that can be published: its root graph, and the body of every *)
(* loop of it; loops nested deeper are bodies of bodies.                     *)
ValidDefinition(root) ==
    /\ GraphIssues(root, TRUE) = {}
    /\ \A node \in Nodes(root) : node.type \in LoopTypes => GraphIssues(node.body, FALSE) = {}
=============================================================================
