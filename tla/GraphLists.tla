----------------------------- MODULE GraphLists -----------------------------
(***************************************************************************)
(* The graph library of the detectors (graph.c), with its linked lists as  *)
(* sequences, the newest element first.  Nodes are found by identifier,    *)
(* are numbered as they are made and never removed.  A graph is a record   *)
(* of its two lists; the counts are their lengths.  Modules Gois and       *)
(* Gdlock speak of the graph as sets; ListsAreSets, below, says that they  *)
(* may.  The lines mapped are those of z_atividade/projeto/gdlock/graph.c. *)
(***************************************************************************)
EXTENDS Naturals, Sequences, SequencesExt, Functions

CONSTANTS
  Id,       \* the identifiers of nodes: the threads for gdlock, the locks for gois
  MaxEdges  \* bound: the length of the lists of edges that are looked at

graph_create == [nodes |-> <<>>, edges |-> <<>>]

graph_find_node(g, id) == Contains(g.nodes, id)

\* node->index, the place of its mark: the number of nodes made before.
graph_node_get_index(g, id) ==
  Len(g.nodes) - (CHOOSE i \in DOMAIN g.nodes : g.nodes[i] = id)

graph_find_or_create_node(g, id) ==
  IF graph_find_node(g, id) THEN g ELSE [g EXCEPT !.nodes = <<id>> \o @]

graph_edge_exists(g, from, to) == Contains(g.edges, <<from, to>>)

\* A missing node (NULL) makes no edge.
HasNodes(g, from, to) == graph_find_node(g, from) /\ graph_find_node(g, to)

graph_add_edge(g, from, to) ==
  IF HasNodes(g, from, to) /\ ~graph_edge_exists(g, from, to)
  THEN [g EXCEPT !.edges = <<<<from, to>>>> \o @]
  ELSE g

\* The first edge from..to is unlinked.
graph_remove_edge(g, from, to) == [g EXCEPT !.edges = RemoveFirst(@, <<from, to>>)]

\* The nodes an edge of which leads to, in the order of the edge list.
graph_get_outgoing_edges(g, node) ==
  LET out == SelectSeq(g.edges, LAMBDA e : e[1] = node)
  IN  [i \in DOMAIN out |-> out[i][2]]

(***************************************************************************)
(* dfs_has_cycle: depth first, with one array of marks for the whole       *)
(* search.  The answer comes with the marks, which the caller goes on to   *)
(* use; an edge to the target answers even if the target is marked.        *)
(***************************************************************************)
RECURSIVE Search(_, _, _, _)
Search(g, node, target, visited) ==
  LET Step(state, child) ==
        IF state.found \/ child = target THEN [state EXCEPT !.found = TRUE]
        ELSE IF graph_node_get_index(g, child) \in state.visited THEN state
        ELSE Search(g, child, target, state.visited)
      marks == visited \cup {graph_node_get_index(g, node)}
  IN  FoldLeft(Step, [found |-> FALSE, visited |-> marks], graph_get_outgoing_edges(g, node))

dfs_has_cycle(g, node, target) == Search(g, node, target, {}).found

\* Is there a path back from `to' to `from'?
graph_would_create_cycle(g, from, to) ==
  HasNodes(g, from, to) /\ dfs_has_cycle(g, to, from)

graph_has_cycle(g) == \E i \in DOMAIN g.nodes : dfs_has_cycle(g, g.nodes[i], g.nodes[i])

----------------------------------------------------------------------------
(***************************************************************************)
(* On lists without a repeated edge the operations are those of sets, and  *)
(* leave no repeated edge: the first edge unlinked is the only one.  The   *)
(* searches are exact whatever the order of the list: a node that one has  *)
(* passed is not passed again, and still no path is missed.                *)
(***************************************************************************)
Sets == INSTANCE LockGraph WITH Lock <- Id

EdgeLists == {s \in SeqOf(Id \X Id, MaxEdges) : IsInjective(s)}

ASSUME ListsAreSets ==
  \A s \in EdgeLists :
    LET g == [nodes |-> SetToSeq(Id), edges |-> s]
        E == ToSet(s)
    IN  /\ \A from, to \in Id :
             LET longer == graph_add_edge(g, from, to).edges
                 shorter == graph_remove_edge(g, from, to).edges
             IN  /\ IsInjective(longer) /\ ToSet(longer) = E \cup {<<from, to>>}
                 /\ IsInjective(shorter) /\ ToSet(shorter) = E \ {<<from, to>>}
                 /\ graph_would_create_cycle(g, from, to) <=> Sets!Reaches(E, to, from)
        /\ graph_has_cycle(g) <=> \E n \in Id : Sets!has_cycle(E, n)
=============================================================================
