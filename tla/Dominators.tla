---------------------------- MODULE Dominators ----------------------------
(***************************************************************************)
(* Dominance in the control-flow graph of a method (dexdec, ir/analysis:   *)
(* dominator_tree.rs, dominance_frontier.rs, post_dominators.rs): the      *)
(* algorithm of Lengauer and Tarjan with path compression, the frontiers   *)
(* that place the phis of SSA form, and the same tree over the reversed    *)
(* graph.  Each is stated against the paths of the graph.                  *)
(*                                                                         *)
(* A graph is a record of its entry, its nodes (numbers, as BlockId is)    *)
(* and the edges of ordinary and of exceptional control flow.  Vertices    *)
(* are counted from 1 in the order of the traversal, and 0 is none.        *)
(***************************************************************************)
EXTENDS FlowGraphs
LOCAL INSTANCE SequencesExt
LOCAL INSTANCE FiniteSetsExt

VirtualNode == 0      \* BlockId::INVALID

AllEdges(G) == G.normal \cup G.exceptional

-----------------------------------------------------------------------------
(* DepthFirstNumbering                                                     *)

Place(seq, n) == CHOOSE k \in DOMAIN seq : seq[k] = n

\* The stack holds the path to the node that is being visited; its successors
\* are tried in the order of their ids.
RECURSIVE Visit(_, _, _)
Visit(edges, path, t) ==
  IF path = <<>> THEN t
  ELSE LET fresh == Targets(edges, Last(path)) \ {t.vertices[k] : k \in DOMAIN t.vertices}
       IN IF fresh = {}
          THEN Visit(edges, Front(path), t)
          ELSE Visit(edges, Append(path, Min(fresh)),
                     [vertices |-> Append(t.vertices, Min(fresh)),
                      parents  |-> Append(t.parents, Place(t.vertices, Last(path)))])

Numbering(root, edges) == Visit(edges, <<root>>, [vertices |-> <<root>>, parents |-> <<0>>])

-----------------------------------------------------------------------------
(* LengauerTarjan                                                          *)

Start(count) ==
  [semi |-> [v \in 1 .. count |-> v], label |-> [v \in 1 .. count |-> v],
   ancestor |-> [v \in 1 .. count |-> 0], bucket |-> [v \in 1 .. count |-> {}],
   idom |-> [v \in 1 .. count |-> 0]]

\* Mutant: paths are shortened without taking the better label along.
RECURSIVE CompressOnly(_, _)
CompressOnly(s, v) ==
  LET up == s.ancestor[v] IN
  IF up = 0 \/ s.ancestor[up] = 0 THEN s
  ELSE LET t == CompressOnly(s, up) IN [t EXCEPT !.ancestor[v] = t.ancestor[up]]

\* evaluate: the path from v up to a child of its root is shortened, the upper
\* end first.
RECURSIVE Compress(_, _)
Compress(s, v) ==
  LET up == s.ancestor[v] IN
  IF up = 0 \/ s.ancestor[up] = 0 THEN s
  ELSE LET t == Compress(s, up)
           better == t.semi[t.label[up]] < t.semi[t.label[v]]
       IN [t EXCEPT !.label[v] = IF better THEN t.label[up] ELSE @,
                    !.ancestor[v] = t.ancestor[up]]

\* The semidominator of v, over one of its predecessors.
TakePredecessor(v, s, p) ==
  LET t == Compress(s, p) IN
  [t EXCEPT !.semi[v] = IF t.semi[t.label[p]] < @ THEN t.semi[t.label[p]] ELSE @]

EmptyBucket(parent, s, v) ==
  LET t == Compress(s, v) IN
  [t EXCEPT !.idom[v] = IF t.semi[t.label[v]] < t.semi[v] THEN t.label[v] ELSE parent]

Link(n, predecessors, s, v) ==
  LET parent == n.parents[v]
      found == FoldLeft(LAMBDA t, p : TakePredecessor(v, t, p), s, predecessors[v])
      joined == [found EXCEPT !.bucket[found.semi[v]] = @ \cup {v}, !.ancestor[v] = parent]
      emptied == [joined EXCEPT !.bucket[parent] = {}]
  IN FoldLeft(LAMBDA t, m : EmptyBucket(parent, t, m), emptied, SetToSeq(joined.bucket[parent]))

Settle(s, v) ==
  IF s.idom[v] = s.semi[v] THEN s ELSE [s EXCEPT !.idom[v] = s.idom[s.idom[v]]]

\* DominatorTree: the immediate dominator of each node the root reaches, the
\* root's own being none.
Tree(root, edges) ==
  LET n == Numbering(root, edges)
      count == Len(n.vertices)
      index(m) == Place(n.vertices, m)
      reached == {n.vertices[k] : k \in 1 .. count}
      predecessors == [v \in 1 .. count |->
                         SetToSeq({index(m) : m \in Sources(edges, n.vertices[v]) \cap reached})]
      down == [k \in 1 .. count - 1 |-> count + 1 - k]
      up   == [k \in 1 .. count - 1 |-> k + 1]
      joined == FoldLeft(LAMBDA s, v : Link(n, predecessors, s, v), Start(count), down)
      idom == FoldLeft(Settle, joined, up).idom
  IN [root |-> root,
      idom |-> [m \in reached \ {root} |-> n.vertices[idom[index(m)]]]]

TreeNodes(T) == {T.root} \cup DOMAIN T.idom

\* dominates: from node up to the root.
RECURSIVE Dominates(_, _, _)
Dominates(T, d, node) ==
  \/ d = node
  \/ node \in DOMAIN T.idom /\ Dominates(T, d, T.idom[node])

-----------------------------------------------------------------------------
(* DominanceFrontier                                                       *)

Children(T, b) == {m \in DOMAIN T.idom : T.idom[m] = b}
IsImmediate(T, b, m) == m \in DOMAIN T.idom /\ T.idom[m] = b

\* Mutant: what a child takes over is not asked whom it belongs to.
RECURSIVE FrontierOfAll(_, _, _)
FrontierOfAll(T, edges, b) ==
  {m \in Targets(edges, b) : ~IsImmediate(T, b, m)}
    \cup UNION {FrontierOfAll(T, edges, child) : child \in Children(T, b)}

\* In postorder of the tree: a block after its children.
RECURSIVE Frontier(_, _, _)
Frontier(T, edges, b) ==
  {m \in Targets(edges, b) \cup UNION {Frontier(T, edges, child) : child \in Children(T, b)} :
     ~IsImmediate(T, b, m)}

-----------------------------------------------------------------------------
(* compute_normal and PostDominatorTree                                    *)

\* Mutant: only handlers of blocks that ordinary flow reaches are roots.
FlowRootsOfReached(G) ==
  LET reached == TreeNodes(Tree(G.entry, G.normal))
  IN {G.entry} \cup {e[2] : e \in {f \in G.exceptional : f[1] \in reached}}

\* NormalFlowEntries: the entry, and the handlers ordinary flow does not reach
\* from it.
FlowRoots(G) ==
  LET reached == TreeNodes(Tree(G.entry, G.normal))
  IN {G.entry} \cup {e[2] : e \in {f \in G.exceptional : f[2] \notin reached}}

NormalTree(G) ==
  Tree(VirtualNode, G.normal \cup {<<VirtualNode, root>> : root \in FlowRoots(G)})

Exits(G) == {m \in G.nodes : Targets(G.normal, m) = {}}

BackwardEdges(G) ==
  {<<e[2], e[1]>> : e \in G.normal} \cup {<<VirtualNode, m>> : m \in Exits(G)}

PostTree(G) == Tree(VirtualNode, BackwardEdges(G))

\* Mutant: the climb begins above the first entry.
RECURSIVE ClimbFromAbove(_, _, _)
ClimbFromAbove(T, entries, m) ==
  IF m \notin DOMAIN T.idom \/ T.idom[m] = VirtualNode THEN VirtualNode
  ELSE IF \A e \in entries : e \in TreeNodes(T) /\ Dominates(T, T.idom[m], e) THEN T.idom[m]
  ELSE ClimbFromAbove(T, entries, T.idom[m])

\* nearest_common: candidates from the first entry up to the virtual exit.
RECURSIVE ClimbFrom(_, _, _)
ClimbFrom(T, entries, m) ==
  IF m = VirtualNode \/ m \notin TreeNodes(T) THEN VirtualNode
  ELSE IF \A e \in entries : e \in TreeNodes(T) /\ Dominates(T, m, e) THEN m
  ELSE ClimbFrom(T, entries, T.idom[m])

NearestCommon(G, b, entries) == ClimbFrom(PostTree(G), entries, b)

-----------------------------------------------------------------------------
(* What paths say.                                                         *)

\* For each node: the nodes that every path from the root reaches through it.
Through(root, edges) ==
  LET reached == Reaches(edges, root)
  IN [d \in reached |->
        IF d = root THEN reached ELSE reached \ ReachedFrom(edges, {root}, {d})]

(***************************************************************************)
(* The tree of Lengauer and Tarjan says who dominates whom: exactly the    *)
(* nodes without which there is no path from the root.                     *)
(***************************************************************************)
DominatorsAreExact(G) ==
  LET T == Tree(G.entry, AllEdges(G))
      through == Through(G.entry, AllEdges(G))
  IN /\ TreeNodes(T) = DOMAIN through
     /\ \A d, m \in DOMAIN through : Dominates(T, d, m) <=> m \in through[d]

(***************************************************************************)
(* The frontier of a block are the joins where its dominance ends: nodes   *)
(* it does not strictly dominate, with a predecessor that it dominates.    *)
(***************************************************************************)
FrontiersAreExact(G) ==
  LET T == Tree(G.entry, AllEdges(G))
      through == Through(G.entry, AllEdges(G))
  IN \A b \in DOMAIN through :
       Frontier(T, AllEdges(G), b) =
         {m \in DOMAIN through :
            /\ Sources(AllEdges(G), m) \cap through[b] # {}
            /\ b = m \/ m \notin through[b]}

(***************************************************************************)
(* The forest of ordinary flow has every block that any flow reaches, so   *)
(* that compute_normal does not fail on a method with handlers only        *)
(* exceptions lead to, or handlers of such handlers.                       *)
(***************************************************************************)
NormalForestCovers(G) ==
  Reaches(AllEdges(G), G.entry) \subseteq TreeNodes(NormalTree(G))

(***************************************************************************)
(* The point where branches meet again: the nearest block that all of them *)
(* pass on every way to an exit, if there is one.                          *)
(***************************************************************************)
MeetingsAreExact(G) ==
  LET through == Through(VirtualNode, BackwardEdges(G))
      common(S) == {d \in DOMAIN through \ {VirtualNode} : S \subseteq through[d]}
      nearest(S) == CHOOSE d \in common(S) : \A other \in common(S) : d \in through[other]
  IN \A a, b \in G.nodes :
       NearestCommon(G, a, {a, b}) =
         IF common({a, b}) = {} THEN VirtualNode ELSE nearest({a, b})

(***************************************************************************)
(* Everything the structuring of control flow asks of dominance is what its *)
(* definition says: trees, frontiers, the forest of ordinary flow and the  *)
(* points where branches meet, in reducible graphs and others.             *)
(***************************************************************************)
DominanceIsExact ==
  subject.kind = "graph" =>
    LET G == subject.of IN
    /\ DominatorsAreExact(G) /\ FrontiersAreExact(G)
    /\ NormalForestCovers(G) /\ MeetingsAreExact(G)
=============================================================================
