----------------------------- MODULE ContextGraph -----------------------------
(***************************************************************************)
(* The graph of tasks, requirements, outputs, evidence and decisions, and  *)
(* the operations that keep one in .wam/context-graph.json.                *)
(* Code: src/src/context/context-graph.js, src/src/state/task-dependencies *)
(* .js.                                                                    *)
(*                                                                         *)
(* A graph holds each edge twice, under its source and under its target,   *)
(* in the order they were added; that order, on which a depth-first search *)
(* with a bound depends, is left to choice.                                *)
(***************************************************************************)
EXTENDS Naturals, FiniteSets

CONSTANTS Node,      \* ids of nodes
          Kind,      \* the type a node is registered with
          Candidate, \* the edges anyone adds, as <<from, type, to>>
          NoNode     \* not in the graph

VARIABLE graph

graphVars == <<graph>>

NODE_TYPES == {"task", "subtask", "requirement", "claim", "action", "observation",
               "evidence", "decision", "constraint", "artifact", "output"}

EDGE_TYPES == {"requires_completion", "requires_output", "requires_evidence",
               "requires_decision", "depends_on_artifact", "produces", "supports",
               "contradicts", "invalidates", "related_to"}

DEPENDENCY_TYPES == {"requires_completion", "requires_output", "requires_evidence",
                     "requires_decision", "depends_on_artifact"}

NodeEntry == [type: NODE_TYPES, verified: BOOLEAN, invalidated: BOOLEAN]

ASSUME GraphAssumption ==
  /\ IsFiniteSet(Node)
  /\ Kind \in [Node -> NODE_TYPES] /\ NoNode \notin NodeEntry
  /\ Candidate \subseteq Node \X EDGE_TYPES \X Node

Plain(type) == [type |-> type, verified |-> FALSE, invalidated |-> FALSE]

EmptyGraph == [node |-> [n \in Node |-> NoNode], from |-> {}, to |-> {}]

-----------------------------------------------------------------------------
(* ContextGraph: nodes, edges and traversal.                                *)

Nodes(g) == {n \in Node : g.node[n] # NoNode}
EdgesFrom(g, n) == {e \in g.from : e[1] = n}
EdgesTo(g, n) == {e \in g.to : e[3] = n}

addNode(g, n, entry) == [g EXCEPT !.node[n] = entry]

\* Mutant: the edges into the removed node stay with their sources.
removeNode_Outgoing(g, n) ==
  [node |-> [g.node EXCEPT ![n] = NoNode],
   from |-> g.from \ EdgesFrom(g, n),
   to   |-> g.to \ (EdgesFrom(g, n) \cup EdgesTo(g, n))]

removeNode(g, n) ==
  LET gone == EdgesFrom(g, n) \cup EdgesTo(g, n)
  IN  [node |-> [g.node EXCEPT ![n] = NoNode],
       from |-> g.from \ gone, to |-> g.to \ gone]

\* addEdge throws unless both ends are in the graph; an edge that is already
\* there is not added again.
CanAdd(g, e) == {e[1], e[3]} \subseteq Nodes(g)
addEdge(g, e) ==
  IF e \in g.from THEN g ELSE [g EXCEPT !.from = @ \cup {e}, !.to = @ \cup {e}]

getDependencies(g, n) ==
  {e[3] : e \in {f \in EdgesFrom(g, n) : f[2] \in DEPENDENCY_TYPES}} \cap Nodes(g)

Producers(g, n) == {e[1] : e \in {f \in EdgesTo(g, n) : f[2] = "produces"}}

\* How far it may find a node, with none farther than there are others.
Distances(nodes, depth) == {d \in 1..depth : d < Cardinality(nodes) \/ d = depth}

\* What a depth-first search from n may find, by the order of the edges.  It
\* expands a node once, where it first comes to it nearer than depth, and finds
\* what the expanded nodes lead to; at[m] is how far from n it expanded m, and
\* depth if it did not.
Search(nodes, next, n, depth) ==
  LET Far(at, m) == IF m = n THEN 0 ELSE at[m]
      Expands(at) ==
        \A m \in nodes \ {n} :
          /\ at[m] < depth => \E u \in nodes : m \in next[u] /\ at[m] = Far(at, u) + 1
          /\ (\E u \in nodes : m \in next[u] /\ Far(at, u) + 1 < depth) => at[m] < depth
      Found(at) == (UNION {next[u] : u \in {m \in nodes : Far(at, m) < depth}}) \ {n}
  IN  {Found(at) : at \in {f \in [nodes \ {n} -> Distances(nodes, depth)] : Expands(f)}}

Ahead(g) == [m \in Node |-> (getDependencies(g, m) \cup Producers(g, m)) \cap Nodes(g)]

Behind(g) ==
  [m \in Node |->
     {e[1] : e \in {f \in EdgesTo(g, m) :
        f[2] \in {"requires_output", "requires_completion", "depends_on_artifact"}}} \cap Nodes(g)]

\* Mutant: only what the node depends on directly.
getUpstream_Direct(g, n, depth) == {getDependencies(g, n)}

getUpstream(g, n, depth) == Search(Nodes(g), Ahead(g), n, depth)

\* Expands the nodes that are depth away as well.
getDownstream(g, n, depth) == Search(Nodes(g), Behind(g), n, depth + 1)

getContradicting(g, n) ==
  {e[3] : e \in {f \in EdgesFrom(g, n) : f[2] = "contradicts"}}
    \cup {e[1] : e \in {f \in EdgesTo(g, n) : f[2] = "contradicts"}}

-----------------------------------------------------------------------------
(* The class's own operations, on a graph in memory.                        *)

AddNode == \E n \in Node : graph' = addNode(graph, n, Plain(Kind[n]))

AddEdge == \E e \in Candidate : CanAdd(graph, e) /\ graph' = addEdge(graph, e)

RemoveNode == \E n \in Nodes(graph) : graph' = removeNode(graph, n)

-----------------------------------------------------------------------------
(* task-dependencies.js: load the file, change the graph, save the file,    *)
(* without an await in between.                                             *)

TaskIn(g, n) == IF n \in Nodes(g) THEN g ELSE addNode(g, n, Plain("task"))

registerOutput ==
  \E n, output \in Node, verified \in BOOLEAN :
    /\ Kind[n] = "task" /\ Kind[output] = "output"
    /\ LET entry == [Plain("output") EXCEPT !.verified = verified]
       IN  graph' = addEdge(TaskIn(addNode(graph, output, entry), n),
                            <<n, "produces", output>>)

addDependency ==
  \E e \in Candidate :
    /\ e[2] \in DEPENDENCY_TYPES
    /\ graph' = addEdge(TaskIn(TaskIn(graph, e[1]), e[3]), e)

invalidateOutput ==
  \E output \in Nodes(graph) : \E downstream \in getDownstream(graph, output, 10) :
    LET flagged == [graph EXCEPT !.node[output].verified = FALSE,
                                 !.node[output].invalidated = TRUE]
        marks == {<<output, "invalidates", d>> : d \in downstream}
    IN  /\ Kind[output] = "output"
        /\ graph' = [flagged EXCEPT !.from = @ \cup marks, !.to = @ \cup marks]

\* A crash while the file is written in place: loadGraph then starts afresh.
CrashTearsGraph == graph # EmptyGraph /\ graph' = EmptyGraph

-----------------------------------------------------------------------------
GraphInit == graph = EmptyGraph

GraphNext ==
  \/ AddNode \/ AddEdge \/ RemoveNode
  \/ registerOutput \/ addDependency \/ invalidateOutput
  \/ CrashTearsGraph

GraphSpec == GraphInit /\ [][GraphNext]_graphVars

-----------------------------------------------------------------------------
\* However nodes and edges come and go, every edge is found from both its ends
\* and no edge is left over from a node that was removed: a traversal in either
\* direction meets the same graph (addEdge, removeNode, validate).
EdgesMirror ==
  /\ graph.from = graph.to
  /\ \A e \in graph.from : {e[1], e[3]} \subseteq Nodes(graph)

\* Its types, and that.
GraphTypeOK ==
  /\ graph.node \in [Node -> NodeEntry \cup {NoNode}]
  /\ graph.from \cup graph.to \subseteq Node \X EDGE_TYPES \X Node
  /\ EdgesMirror
=============================================================================
