----------------------------- MODULE FlowGraphs -----------------------------
(***************************************************************************)
(* What the analyses of methods have in common (dexdec, ir/cfg.rs): the    *)
(* kinds of edges, the blocks of a graph, and what can be reached along    *)
(* edges.  An edge is a tuple of its source and its target, and its kind   *)
(* where that matters; a graph is a record, with the instructions of each  *)
(* block and the edges among its fields.                                   *)
(***************************************************************************)
EXTENDS Naturals, Sequences, FiniteSets

VARIABLE subject   \* what is analysed: its kind, and the graph, program or
                   \* system of methods it is

(* EdgeKind; case k of a branch is k + 2. *)
Normal == 0
Fall   == 1
Thrown == 2
Case(k) == k + 2

Blocks(G) == DOMAIN G.insns

Targets(edges, n) == {e[2] : e \in {f \in edges : f[1] = n}}
Sources(edges, n) == {e[1] : e \in {f \in edges : f[2] = n}}

\* The nodes that paths from S reach without a node of the set without, round
\* by round until nothing is added.
ReachedFrom(edges, S, without) ==
  LET nodes == (S \cup {e[2] : e \in edges}) \ without
      from[T \in SUBSET nodes] ==
        LET more == T \cup ({e[2] : e \in {f \in edges : f[1] \in T}} \ without)
        IN IF more = T THEN T ELSE from[more]
  IN from[S \ without]

Reaches(edges, m) == ReachedFrom(edges, {m}, {})
=============================================================================
