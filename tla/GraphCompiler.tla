---------------------------- MODULE GraphCompiler ---------------------------
(***************************************************************************)
(* The compiler of execution graphs (graphs/compiler.py): the bounds that  *)
(* refuse a graph, and the loop that orders its nodes in layers, each      *)
(* sorted by identity, until none is left or none is ready.  Any graph of  *)
(* few nodes is compiled, with dependencies that may be unknown.           *)
(***************************************************************************)
EXTENDS Naturals, Sequences, FiniteSets, SequencesExt

CONSTANTS
    NodeCount,       \* the graph's nodes are 1..NodeCount, in the order of their node_ids
    MaximumNodes,    \* the values of maximum_nodes
    MaximumFanOut    \* the values of maximum_fan_out

ASSUME GraphCompilerAssumption ==
    NodeCount \in Nat /\ MaximumNodes \subseteq Nat /\ MaximumFanOut \subseteq Nat

VARIABLES
    depends_on,   \* of each node
    bounds,       \* maximum_nodes and maximum_fan_out
    remaining,    \* the dependencies still unmet, of each node that is not ordered
    ordered,
    verdict       \* "checking", "ordering", "compiled", or why it was refused

graphVars == <<depends_on, bounds, remaining, ordered, verdict>>

GraphNode == 1..NodeCount

\* A dependency that is no node of the graph.
Unknown == NodeCount + 1

-----------------------------------------------------------------------------

FanOut(n) == Cardinality({m \in GraphNode : n \in depends_on[m]})

\* compile_execution_graph, up to _topological_order.
CheckBounds ==
    /\ verdict = "checking"
    /\ verdict' =
         CASE NodeCount > bounds.nodes -> "too many nodes"
           [] \E n \in GraphNode : Unknown \in depends_on[n] -> "unknown dependency"
           [] \E n \in GraphNode : FanOut(n) > bounds.fan_out -> "fan-out"
           [] OTHER -> "ordering"
    /\ remaining' = depends_on
    /\ UNCHANGED <<depends_on, bounds, ordered>>

Ready == {n \in DOMAIN remaining : remaining[n] = {}}

\* Mutant: the dependencies of a whole layer are not met, only those of its first node.
MutTakeReady ==
    /\ verdict = "ordering" /\ Ready # {}
    /\ ordered' = ordered \o SetToSortSeq(Ready, <)
    /\ remaining' = [n \in DOMAIN remaining \ Ready |->
                        remaining[n] \ {CHOOSE r \in Ready : \A s \in Ready : r <= s}]
    /\ UNCHANGED <<depends_on, bounds, verdict>>

\* One turn of the loop.
TakeReady ==
    /\ verdict = "ordering" /\ Ready # {}
    /\ ordered' = ordered \o SetToSortSeq(Ready, <)
    /\ remaining' = [n \in DOMAIN remaining \ Ready |-> remaining[n] \ Ready]
    /\ UNCHANGED <<depends_on, bounds, verdict>>

\* The loop ends: every node is ordered, or there is a cycle.
Finish ==
    /\ verdict = "ordering" /\ Ready = {}
    /\ verdict' = IF DOMAIN remaining = {} THEN "compiled" ELSE "cycle"
    /\ UNCHANGED <<depends_on, bounds, remaining, ordered>>

-----------------------------------------------------------------------------

GraphInit ==
    /\ depends_on \in [GraphNode -> SUBSET (GraphNode \cup {Unknown})]
    /\ \A n \in GraphNode : n \notin depends_on[n]   \* GraphNode.__post_init__
    /\ bounds \in [nodes: MaximumNodes, fan_out: MaximumFanOut]
    /\ remaining = <<>> /\ ordered = <<>> /\ verdict = "checking"

GraphNext == CheckBounds \/ TakeReady \/ Finish

GraphSpec == GraphInit /\ [][GraphNext]_graphVars

-----------------------------------------------------------------------------
(* Properties.                                                             *)

\* The loop of _topological_order decides what a graph is: it refuses one as cyclic
\* exactly when some of its nodes depend on each other in a circle, and otherwise it
\* orders every node once, each after all that it depends on.
OrdersOrFindsCycle ==
    LET Circle(S) == S # {} /\ \A n \in S : depends_on[n] \cap S # {}
        cyclic == \E S \in SUBSET GraphNode : Circle(S)
    IN  /\ verdict = "cycle" => cyclic
        /\ verdict = "compiled" =>
             /\ ~cyclic
             /\ Len(ordered) = NodeCount /\ ToSet(ordered) = GraphNode
             /\ \A i, k \in GraphNode : ordered[k] \in depends_on[ordered[i]] => k < i
=============================================================================
