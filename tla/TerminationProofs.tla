-------------------------- MODULE TerminationProofs --------------------------
(***************************************************************************)
(* Proofs about MethodTermination, for every system of methods.            *)
(***************************************************************************)
EXTENDS MethodTermination, FiniteSetTheorems, SequenceTheorems, WellFoundedInduction, TLAPS

\* Every nonempty set of numbers has a least element.
LEMMA HasLeast ==
  ASSUME NEW I \in SUBSET Nat, I # {}
  PROVE  \E i \in I : \A j \in I : i <= j
<1> DEFINE Less == {ss \in Nat \X Nat : ss[1] < ss[2]}
<1>1. IsWellFoundedOn(Less, Nat)
  BY NatLessThanWellFounded DEF OpToRel
<1> HIDE DEF Less
<1>2. PICK i \in I : \A j \in I : ~ (<<j, i>> \in Less)
  BY <1>1, WFMin
<1>3. ASSUME NEW j \in I PROVE i <= j
  <2>1. i \in Nat /\ j \in Nat
    OBVIOUS
  <2>2. j < i => <<j, i>> \in Less
    BY <2>1 DEF Less
  <2> QED BY <1>2, <2>1, <2>2
<1> QED BY <1>3

\* T is closed under the edges that end outside of without.
ClosedUnder(T, edges, without) ==
  \A e \in edges : e[1] \in T /\ e[2] \notin without => e[2] \in T

\* ReachedFrom is the least set that has S and is closed under edges.
LEMMA ReachedIsLeast ==
  ASSUME NEW N, IsFiniteSet(N), NEW S, S \subseteq N, NEW without, NEW edges,
         \A e \in edges : e[2] \in N
  PROVE  LET R == ReachedFrom(edges, S, without) IN
         /\ R \subseteq N \ without /\ S \ without \subseteq R
         /\ ClosedUnder(R, edges, without)
         /\ \A T : S \ without \subseteq T /\ ClosedUnder(T, edges, without) => R \subseteq T
<1> DEFINE nodes == (S \cup {e[2] : e \in edges}) \ without
           more(T) == T \cup ({e[2] : e \in {f \in edges : f[1] \in T}} \ without)
           Runs(f) == f = [T \in SUBSET nodes |-> IF more(T) = T THEN T ELSE f[more(T)]]
           from == CHOOSE f : Runs(f)
           within(T, U) == T \subseteq U /\ more(U) = U
           least(T) == {n \in nodes : \A U \in SUBSET nodes : within(T, U) => n \in U}
           f0 == [T \in SUBSET nodes |-> least(T)]
<1>1. ReachedFrom(edges, S, without) = from[S \ without]
  BY Zenon DEF ReachedFrom
<1>2. nodes \subseteq N /\ IsFiniteSet(nodes)
  BY FS_Subset
<1>3. \A T \in SUBSET nodes : more(T) \in SUBSET nodes /\ T \subseteq more(T)
  OBVIOUS
<1>4. \A T \in SUBSET nodes : least(T) \in SUBSET nodes /\ T \subseteq least(T)
  OBVIOUS
<1>5. \A T, U \in SUBSET nodes : T \subseteq U => more(T) \subseteq more(U)
  OBVIOUS
<1>6. \A T \in SUBSET nodes : more(T) = T => least(T) = T
  OBVIOUS
<1>7. \A T \in SUBSET nodes : least(more(T)) = least(T)
  <2> TAKE T \in SUBSET nodes
  <2>1. \A U \in SUBSET nodes : within(T, U) <=> within(more(T), U)
    BY <1>3, <1>5
  <2> QED BY <2>1
<1>8. Runs(f0)
  <2> HIDE DEF more, least, nodes
  <2>1. \A T \in SUBSET nodes : least(T) = IF more(T) = T THEN T ELSE least(more(T))
    BY <1>6, <1>7
  <2>2. \A T \in SUBSET nodes : f0[T] = least(T) /\ f0[more(T)] = least(more(T))
    BY <1>3
  <2> HIDE DEF f0
  <2>3. f0 = [T \in SUBSET nodes |-> least(T)]
    BY DEF f0
  <2> QED BY <2>1, <2>2, <2>3
<1>9. Runs(from)
  BY <1>8
<1> HIDE DEF from, f0
<1>10. \A T \in SUBSET nodes : from[T] = least(T)
  <2> HIDE DEF more, least, nodes
  <2> DEFINE size(T) == Cardinality(nodes \ T)
             bad == {n \in Nat : \E T \in SUBSET nodes : n = size(T) /\ from[T] # least(T)}
  <2>1. \A T \in SUBSET nodes : size(T) \in Nat /\ IsFiniteSet(nodes \ T)
    BY <1>2, FS_Subset, FS_CardinalityType
  <2> HIDE DEF size
  <2> SUFFICES ASSUME bad # {} PROVE FALSE
    BY <2>1
  <2>2. PICK n \in bad : \A j \in bad : n <= j
    <3>1. bad \in SUBSET Nat /\ bad # {}
      OBVIOUS
    <3> HIDE DEF bad
    <3> QED BY <3>1, HasLeast
  <2>3. PICK T \in SUBSET nodes : n = size(T) /\ from[T] # least(T)
    BY <2>2
  <2>4. from[T] = IF more(T) = T THEN T ELSE from[more(T)]
    BY <1>9
  <2>5. more(T) # T
    BY <1>6, <2>3, <2>4
  <2>6. more(T) \in SUBSET nodes /\ T \subseteq more(T)
    BY <1>3
  <2>7. size(more(T)) <= size(T) /\ size(more(T)) # size(T)
    <3>1. nodes \ more(T) \subseteq nodes \ T /\ nodes \ more(T) # nodes \ T
      BY <2>5, <2>6
    <3> QED BY <2>1, <3>1, FS_Subset DEF size
  <2>8. size(more(T)) \notin bad
    BY <2>1, <2>2, <2>3, <2>6, <2>7
  <2>9. from[more(T)] = least(more(T))
    BY <2>1, <2>6, <2>8
  <2> QED BY <1>7, <2>3, <2>4, <2>5, <2>9
<1>11. S \ without \in SUBSET nodes
  OBVIOUS
<1>12. ReachedFrom(edges, S, without) = least(S \ without)
  BY <1>1, <1>10, <1>11
<1> DEFINE R == least(S \ without)
<1>13. ClosedUnder(R, edges, without)
  BY DEF ClosedUnder
<1>14. ASSUME NEW T, S \ without \subseteq T, ClosedUnder(T, edges, without)
       PROVE  R \subseteq T
  <2>1. more(T \cap nodes) = T \cap nodes
    BY <1>14 DEF ClosedUnder
  <2>2. S \ without \subseteq T \cap nodes
    BY <1>14
  <2> QED BY <2>1, <2>2
<1> QED BY <1>2, <1>4, <1>11, <1>12, <1>13, <1>14

------------------------------------------------------------------------------
(***************************************************************************)
(* Graphs.                                                                 *)
(***************************************************************************)
\* Control goes on behind instruction k of b.
Onward(S, may, G, b, k) ==
  G.insns[b][k].op \notin {"return", "throw"} /\ ~Blocked(S, may, G.insns[b][k])

Passes(S, may, G, b) == \A k \in DOMAIN G.insns[b] : ~Blocked(S, may, G.insns[b][k])

\* T has, with a block, those that control reaches from it.
BlocksClosed(S, may, G, T) ==
  \A e \in G.edges : e[1] \in T /\ (e[3] = Thrown \/ Passes(S, may, G, e[1])) => e[2] \in T

PointsClosed(S, may, G, T) ==
  /\ \A b \in Blocks(G) : \A k \in DOMAIN G.insns[b] :
       <<b, k>> \in T /\ Onward(S, may, G, b, k) => <<b, k + 1>> \in T
  /\ \A e \in G.edges : e[3] = Thrown =>
       \A k \in DOMAIN G.insns[e[1]] :
         <<e[1], k>> \in T /\ G.insns[e[1]][k].op \in {"call", "throw"} => <<e[2], 1>> \in T
  /\ \A e \in G.edges : e[3] # Thrown =>
       (<<e[1], Len(G.insns[e[1]]) + 1>> \in T => <<e[2], 1>> \in T)

LEMMA GraphParts ==
  ASSUME NEW G, IsGraph(G)
  PROVE  /\ \A b \in Blocks(G) : Len(G.insns[b]) \in Nat /\ DOMAIN G.insns[b] = 1 .. Len(G.insns[b])
         /\ \A e \in G.edges : e[1] \in Blocks(G) /\ e[2] \in Blocks(G)
         /\ \A b \in Blocks(G) : \A k \in DOMAIN G.insns[b] :
              G.insns[b][k].op \in {"return", "throw"} => k = Len(G.insns[b])
         /\ \A e \in G.edges :
              IF e[3] = Thrown
              THEN \E k \in DOMAIN G.insns[e[1]] : G.insns[e[1]][k].op \in {"call", "throw"}
              ELSE \A k \in DOMAIN G.insns[e[1]] : G.insns[e[1]][k].op \notin {"return", "throw"}
<1>1. \A b \in Blocks(G) : Len(G.insns[b]) \in Nat /\ DOMAIN G.insns[b] = 1 .. Len(G.insns[b])
  BY DEF IsGraph
<1>2. \A e \in G.edges : e[1] \in Blocks(G) /\ e[2] \in Blocks(G)
  BY DEF IsGraph
<1>3. \A b \in Blocks(G) : \A k \in DOMAIN G.insns[b] :
        G.insns[b][k].op \in {"return", "throw"} => k = Len(G.insns[b])
  BY DEF IsGraph
<1>4. \A e \in G.edges :
        IF e[3] = Thrown
        THEN \E k \in DOMAIN G.insns[e[1]] : G.insns[e[1]][k].op \in {"call", "throw"}
        ELSE \A k \in DOMAIN G.insns[e[1]] : G.insns[e[1]][k].op \notin {"return", "throw"}
  BY DEF IsGraph, ToSet
<1> QED BY <1>1, <1>2, <1>3, <1>4

\* The blocks that are reached are the least closed set with the entry.
LEMMA ReachedBlocks ==
  ASSUME NEW S, NEW may, NEW G, IsGraph(G)
  PROVE  /\ Reached(S, may, G) \subseteq Blocks(G) /\ G.entry \in Reached(S, may, G)
         /\ BlocksClosed(S, may, G, Reached(S, may, G))
         /\ \A T : G.entry \in T /\ BlocksClosed(S, may, G, T) => Reached(S, may, G) \subseteq T
<1> DEFINE E == {<<e[1], e[2]>> : e \in {f \in G.edges : f[3] = Thrown \/ Passes(S, may, G, f[1])}}
           one == {G.entry}
           none == {}
<1>1. Reached(S, may, G) = ReachedFrom(E, one, none)
  BY DEF Reached, Reaches, Passes
<1>2. \A T : ClosedUnder(T, E, none) <=> BlocksClosed(S, may, G, T)
  <2> TAKE T
  <2>1. ASSUME ClosedUnder(T, E, none), NEW e \in G.edges, e[1] \in T,
               e[3] = Thrown \/ Passes(S, may, G, e[1])
        PROVE  e[2] \in T
    <3>1. <<e[1], e[2]>> \in E
      BY <2>1
    <3> QED BY <2>1, <3>1 DEF ClosedUnder
  <2>2. ASSUME BlocksClosed(S, may, G, T), NEW x \in E, x[1] \in T
        PROVE  x[2] \in T
    <3>1. PICK e \in G.edges : x = <<e[1], e[2]>> /\ (e[3] = Thrown \/ Passes(S, may, G, e[1]))
      OBVIOUS
    <3> QED BY <2>2, <3>1 DEF BlocksClosed
  <2> QED BY <2>1, <2>2 DEF ClosedUnder, BlocksClosed
<1>3. IsFiniteSet(Blocks(G)) /\ one \subseteq Blocks(G) /\ \A e \in E : e[2] \in Blocks(G)
  BY GraphParts DEF IsGraph
<1> HIDE DEF E
<1>4. /\ Reached(S, may, G) \subseteq Blocks(G) \ none /\ one \ none \subseteq Reached(S, may, G)
      /\ ClosedUnder(Reached(S, may, G), E, none)
      /\ \A T : one \ none \subseteq T /\ ClosedUnder(T, E, none) => Reached(S, may, G) \subseteq T
  <2> HIDE DEF one, none
  <2> QED BY <1>1, <1>3, ReachedIsLeast
<1> QED BY <1>2, <1>4

\* So are the points, with the one before the first instruction.
LEMMA ReachedPoints ==
  ASSUME NEW S, NEW may, NEW G, IsGraph(G)
  PROVE  /\ <<G.entry, 1>> \in PointsReached(S, may, G)
         /\ PointsClosed(S, may, G, PointsReached(S, may, G))
         /\ \A T : <<G.entry, 1>> \in T /\ PointsClosed(S, may, G, T)
                     => PointsReached(S, may, G) \subseteq T
<1> DEFINE onward(b) == {k \in DOMAIN G.insns[b] : /\ G.insns[b][k].op \notin {"return", "throw"}
                                                   /\ ~Blocked(S, may, G.insns[b][k])}
           throwing(b) == {k \in DOMAIN G.insns[b] : G.insns[b][k].op \in {"call", "throw"}}
           leaves(e) == IF e[3] = Thrown THEN throwing(e[1]) ELSE {Len(G.insns[e[1]]) + 1}
           E1 == UNION {{<<<<b, k>>, <<b, k + 1>>>> : k \in onward(b)} : b \in Blocks(G)}
           E2 == UNION {{<<<<e[1], k>>, <<e[2], 1>>>> : k \in leaves(e)} : e \in G.edges}
           E == E1 \cup E2
           one == {<<G.entry, 1>>}
           none == {}
           at(b) == {b} \X (1 .. Len(G.insns[b]) + 1)
           f == [b \in Blocks(G) |-> at(b)]
           N == UNION {at(b) : b \in Blocks(G)}
<1>1. PointsReached(S, may, G) = ReachedFrom(E, one, none)
  BY Zenon DEF PointsReached, Reaches
<1>2. \A T : ClosedUnder(T, E, none) <=> PointsClosed(S, may, G, T)
  <2> TAKE T
  <2>1. (\A x \in E1 : x[1] \in T => x[2] \in T)
          <=> \A b \in Blocks(G) : \A k \in onward(b) : <<b, k>> \in T => <<b, k + 1>> \in T
    <3> HIDE DEF onward
    <3>1. ASSUME \A x \in E1 : x[1] \in T => x[2] \in T, NEW b \in Blocks(G), NEW k \in onward(b),
                 <<b, k>> \in T
          PROVE  <<b, k + 1>> \in T
      <4>1. <<<<b, k>>, <<b, k + 1>>>> \in E1
        OBVIOUS
      <4> HIDE DEF E1
      <4> QED BY <3>1, <4>1
    <3>2. \A x \in E1 : \E b \in Blocks(G) : \E k \in onward(b) : x = <<<<b, k>>, <<b, k + 1>>>>
      OBVIOUS
    <3> HIDE DEF E1
    <3> QED BY <3>1, <3>2
  <2>2. (\A x \in E2 : x[1] \in T => x[2] \in T)
          <=> \A e \in G.edges : \A k \in leaves(e) : <<e[1], k>> \in T => <<e[2], 1>> \in T
    <3> HIDE DEF leaves
    <3>1. ASSUME \A x \in E2 : x[1] \in T => x[2] \in T, NEW e \in G.edges, NEW k \in leaves(e),
                 <<e[1], k>> \in T
          PROVE  <<e[2], 1>> \in T
      <4>1. <<<<e[1], k>>, <<e[2], 1>>>> \in E2
        OBVIOUS
      <4> HIDE DEF E2
      <4> QED BY <3>1, <4>1
    <3>2. \A x \in E2 : \E e \in G.edges : \E k \in leaves(e) : x = <<<<e[1], k>>, <<e[2], 1>>>>
      OBVIOUS
    <3> HIDE DEF E2
    <3> QED BY <3>1, <3>2
  <2>4. (\A b \in Blocks(G) : \A k \in onward(b) : <<b, k>> \in T => <<b, k + 1>> \in T)
          <=> \A b \in Blocks(G) : \A k \in DOMAIN G.insns[b] :
                <<b, k>> \in T /\ Onward(S, may, G, b, k) => <<b, k + 1>> \in T
    BY DEF Onward
  <2>3. (\A e \in G.edges : \A k \in leaves(e) : <<e[1], k>> \in T => <<e[2], 1>> \in T)
          <=> /\ \A e \in G.edges : e[3] = Thrown =>
                   \A k \in DOMAIN G.insns[e[1]] :
                     <<e[1], k>> \in T /\ G.insns[e[1]][k].op \in {"call", "throw"}
                       => <<e[2], 1>> \in T
              /\ \A e \in G.edges : e[3] # Thrown =>
                   (<<e[1], Len(G.insns[e[1]]) + 1>> \in T => <<e[2], 1>> \in T)
    OBVIOUS
  <2> HIDE DEF E1, E2, leaves, onward
  <2> QED BY <2>1, <2>2, <2>3, <2>4 DEF ClosedUnder, PointsClosed
<1>3. IsFiniteSet(N)
  <2>1. IsFiniteSet(Blocks(G)) /\ \A b \in Blocks(G) : IsFiniteSet(at(b))
    <3>1. \A b \in Blocks(G) : IsFiniteSet({b}) /\ IsFiniteSet(1 .. Len(G.insns[b]) + 1)
      BY GraphParts, FS_Singleton, FS_Interval
    <3> QED BY <3>1, FS_Product DEF IsGraph
  <2> DEFINE all == {at(b) : b \in Blocks(G)}
  <2>2. f \in Surjection(Blocks(G), all)
    BY DEF Surjection
  <2> HIDE DEF f
  <2>3. IsFiniteSet(all)
    <3> HIDE DEF all
    <3> QED BY <2>1, <2>2, FS_Surjection
  <2>4. \A x \in all : IsFiniteSet(x)
    BY <2>1
  <2>5. IsFiniteSet(UNION all)
    <3> HIDE DEF all
    <3> QED BY <2>3, <2>4, FS_UNION
  <2> QED BY <2>5
<1>4. one \subseteq N /\ \A e \in E : e[2] \in N
  <2>1. \A b \in Blocks(G) : 1 \in 1 .. Len(G.insns[b]) + 1
    BY GraphParts
  <2>2. one \subseteq N
    BY <2>1 DEF IsGraph
  <2>3. \A b \in Blocks(G) : \A k \in onward(b) : k + 1 \in 1 .. Len(G.insns[b]) + 1
    BY GraphParts
  <2>4. \A e \in E1 : e[2] \in N
    <3> HIDE DEF onward
    <3> QED BY <2>3
  <2>5. \A e \in E2 : e[2] \in N
    <3>1. \A e \in G.edges : e[2] \in Blocks(G)
      BY GraphParts
    <3> HIDE DEF leaves
    <3> QED BY <2>1, <3>1
  <2> HIDE DEF N, E1, E2
  <2> QED BY <2>2, <2>4, <2>5
<1> HIDE DEF E, N
<1>5. /\ one \ none \subseteq PointsReached(S, may, G)
      /\ ClosedUnder(PointsReached(S, may, G), E, none)
      /\ \A T : one \ none \subseteq T /\ ClosedUnder(T, E, none) => PointsReached(S, may, G) \subseteq T
  <2> HIDE DEF one, none
  <2> QED BY <1>1, <1>3, <1>4, ReachedIsLeast
<1> QED BY <1>2, <1>5

\* Points: those of the blocks that are reached, as far as control goes on.
LEMMA PointsAre ==
  ASSUME NEW S, NEW may, NEW G, IsGraph(G)
  PROVE  PointsReached(S, may, G) =
           {p \in {<<b, k>> : b \in Reached(S, may, G), k \in Nat} :
              /\ p[2] \in 1 .. Len(G.insns[p[1]]) + 1
              /\ \A j \in 1 .. p[2] - 1 : Onward(S, may, G, p[1], j)}
<1> DEFINE R == Reached(S, may, G)
           P == PointsReached(S, may, G)
           goes(b, k) == k \in 1 .. Len(G.insns[b]) + 1 /\ \A j \in 1 .. k - 1 : Onward(S, may, G, b, j)
           Q == {p \in {<<b, k>> : b \in R, k \in Nat} : goes(p[1], p[2])}
           B == {b \in Blocks(G) : <<b, 1>> \in P}
<1>1. /\ \A b \in Blocks(G) : Len(G.insns[b]) \in Nat /\ DOMAIN G.insns[b] = 1 .. Len(G.insns[b])
      /\ \A e \in G.edges : e[1] \in Blocks(G) /\ e[2] \in Blocks(G)
  BY GraphParts
<1>2. R \subseteq Blocks(G) /\ G.entry \in R
  BY ReachedBlocks
<1>3. \A b, k : <<b, k>> \in Q <=> b \in R /\ goes(b, k)
  <2>1. \A b, k : b \in R /\ goes(b, k) => k \in Nat
    BY <1>1, <1>2
  <2> HIDE DEF goes
  <2> QED BY <2>1
<1>4. PointsClosed(S, may, G, Q)
  <2>1. ASSUME NEW b \in Blocks(G), NEW k \in DOMAIN G.insns[b], <<b, k>> \in Q, Onward(S, may, G, b, k)
        PROVE  <<b, k + 1>> \in Q
    <3>1. b \in R /\ goes(b, k)
      BY <1>3, <2>1
    <3>2. goes(b, k + 1)
      BY <1>1, <2>1, <3>1
    <3> HIDE DEF goes
    <3> QED BY <1>3, <3>1, <3>2
  <2>2. \A b \in R : goes(b, 1)
    BY <1>1, <1>2
  <2>3. ASSUME NEW e \in G.edges, e[3] = Thrown, NEW k, <<e[1], k>> \in Q
        PROVE  <<e[2], 1>> \in Q
    <3>1. e[1] \in R
      BY <1>3, <2>3
    <3>2. e[2] \in R
      BY <2>3, <3>1, ReachedBlocks DEF BlocksClosed
    <3> HIDE DEF goes
    <3> QED BY <1>3, <2>2, <3>2
  <2>4. ASSUME NEW e \in G.edges, e[3] # Thrown, <<e[1], Len(G.insns[e[1]]) + 1>> \in Q
        PROVE  <<e[2], 1>> \in Q
    <3>1. e[1] \in R /\ goes(e[1], Len(G.insns[e[1]]) + 1)
      BY <1>3, <2>4
    <3>2. Passes(S, may, G, e[1])
      BY <1>1, <3>1 DEF Passes, Onward
    <3>3. e[2] \in R
      BY <2>4, <3>1, <3>2, ReachedBlocks DEF BlocksClosed
    <3> HIDE DEF goes
    <3> QED BY <1>3, <2>2, <3>3
  <2> HIDE DEF Q
  <2> QED BY <2>1, <2>3, <2>4 DEF PointsClosed
<1>5. <<G.entry, 1>> \in Q
  <2>1. goes(G.entry, 1)
    BY <1>1, <1>2
  <2> HIDE DEF goes
  <2> QED BY <1>2, <1>3, <2>1
<1>6. P \subseteq Q
  <2> HIDE DEF Q
  <2> QED BY <1>4, <1>5, ReachedPoints
\* within a block
<1>7. ASSUME NEW b \in B, NEW k, goes(b, k) PROVE <<b, k>> \in P
  <2> DEFINE far == {n \in 1 .. k : <<b, n>> \notin P}
  <2>0. k \in Nat /\ k \in 1 .. k /\ b \in Blocks(G) /\ <<b, 1>> \in P
    <3>1. b \in Blocks(G) /\ Len(G.insns[b]) \in Nat
      BY <1>1
    <3> QED BY <1>7, <3>1
  <2> SUFFICES ASSUME far # {} PROVE FALSE
    BY <2>0
  <2>1. PICK n \in far : \A j \in far : n <= j
    <3>1. far \in SUBSET Nat /\ far # {}
      BY <2>0
    <3> HIDE DEF far
    <3> QED BY <3>1, HasLeast
  <2>2. n # 1 /\ n \in 1 .. k /\ <<b, n>> \notin P
    BY <2>0, <2>1
  <2>3. n - 1 \in 1 .. k - 1 /\ n - 1 \in 1 .. k /\ ~(n <= n - 1) /\ (n - 1) + 1 = n
    BY <2>0, <2>2
  <2>4. <<b, n - 1>> \in P
    BY <2>1, <2>3
  <2>5. Onward(S, may, G, b, n - 1) /\ n - 1 \in DOMAIN G.insns[b]
    BY <1>1, <1>7, <2>0, <2>3
  <2>6. <<b, (n - 1) + 1>> \in P
    BY <2>0, <2>4, <2>5, ReachedPoints DEF PointsClosed
  <2> QED BY <2>2, <2>3, <2>6
<1>8. BlocksClosed(S, may, G, B)
  <2>1. ASSUME NEW e \in G.edges, e[1] \in B, e[3] # Thrown, Passes(S, may, G, e[1])
        PROVE  e[2] \in B
    <3>1. \A k \in DOMAIN G.insns[e[1]] : Onward(S, may, G, e[1], k)
      BY <2>1, GraphParts DEF Onward, Passes
    <3>2. goes(e[1], Len(G.insns[e[1]]) + 1)
      BY <1>1, <2>1, <3>1
    <3>3. <<e[1], Len(G.insns[e[1]]) + 1>> \in P
      BY <1>7, <2>1, <3>2
    <3>4. <<e[2], 1>> \in P
      BY <2>1, <3>3, ReachedPoints DEF PointsClosed
    <3> QED BY <1>1, <2>1, <3>4
  <2>2. ASSUME NEW e \in G.edges, e[1] \in B, e[3] = Thrown
        PROVE  e[2] \in B
    <3> DEFINE throws == {k \in DOMAIN G.insns[e[1]] : G.insns[e[1]][k].op \in {"call", "throw"}}
    <3>1. throws # {} /\ throws \in SUBSET Nat /\ e[1] \in Blocks(G)
      <4>1. \E k \in DOMAIN G.insns[e[1]] : G.insns[e[1]][k].op \in {"call", "throw"}
        BY <2>2, GraphParts
      <4> QED BY <1>1, <4>1
    <3>2. PICK k \in throws : \A j \in throws : k <= j
      <4> HIDE DEF throws
      <4> QED BY <3>1, HasLeast
    <3>3. \A j \in 1 .. k - 1 : Onward(S, may, G, e[1], j)
      <4> TAKE j \in 1 .. k - 1
      <4>1. j \in DOMAIN G.insns[e[1]] /\ j # Len(G.insns[e[1]]) /\ ~(k <= j)
        BY <1>1, <3>1, <3>2
      <4>2. j \notin throws
        BY <3>2, <4>1
      <4>3. G.insns[e[1]][j].op # "call" /\ G.insns[e[1]][j].op # "throw"
        BY <4>1, <4>2
      <4>4. G.insns[e[1]][j].op # "return"
        BY <3>1, <4>1, GraphParts
      <4> QED BY <4>3, <4>4 DEF Onward, Blocked, Calls
    <3>4. goes(e[1], k)
      <4>1. k \in 1 .. Len(G.insns[e[1]]) /\ Len(G.insns[e[1]]) \in Nat
        BY <1>1, <3>1, <3>2
      <4>2. k \in 1 .. Len(G.insns[e[1]]) + 1
        BY <4>1
      <4> QED BY <3>3, <4>2
    <3>5. <<e[1], k>> \in P
      BY <1>7, <2>2, <3>4
    <3>6. <<e[2], 1>> \in P
      BY <2>2, <3>2, <3>5, ReachedPoints DEF PointsClosed
    <3> QED BY <1>1, <3>6
  <2> QED BY <2>1, <2>2 DEF BlocksClosed
<1>9. G.entry \in B
  BY <1>2, ReachedPoints
<1>10. R \subseteq B
  <2> HIDE DEF B
  <2> QED BY <1>8, <1>9, ReachedBlocks
<1>11. Q \subseteq P
  <2>1. ASSUME NEW p \in Q PROVE p \in P
    <3>1. PICK b \in R, k \in Nat : p = <<b, k>> /\ goes(b, k)
      <4> HIDE DEF goes
      <4> QED BY <2>1
    <3> HIDE DEF goes, P, B, R
    <3> QED BY <1>7, <1>10, <3>1
  <2> QED BY <2>1
<1> QED BY <1>6, <1>11

\* So a method returns, instruction by instruction, when it may complete.
LEMMA ReturnsWhenComplete ==
  ASSUME NEW S, NEW may, NEW G, IsGraph(G)
  PROVE  (\E p \in InstructionsReached(S, may, G) : G.insns[p[1]][p[2]].op = "return")
           <=> MayComplete(S, may, G)
<1> DEFINE R == Reached(S, may, G)
<1>1. /\ \A b \in Blocks(G) : Len(G.insns[b]) \in Nat /\ DOMAIN G.insns[b] = 1 .. Len(G.insns[b])
      /\ R \subseteq Blocks(G)
  BY GraphParts, ReachedBlocks
<1>2. ASSUME NEW p \in InstructionsReached(S, may, G), G.insns[p[1]][p[2]].op = "return"
      PROVE  MayComplete(S, may, G)
  <2>1. p \in PointsReached(S, may, G) /\ p[2] \in DOMAIN G.insns[p[1]]
    BY <1>2 DEF InstructionsReached
  <2>2. p[1] \in R /\ \A j \in 1 .. p[2] - 1 : Onward(S, may, G, p[1], j)
    BY <2>1, PointsAre
  <2> QED BY <1>2, <2>1, <2>2 DEF MayComplete, Onward
<1>3. ASSUME NEW b \in R, NEW k \in DOMAIN G.insns[b], G.insns[b][k].op = "return",
             \A j \in 1 .. k - 1 : ~Blocked(S, may, G.insns[b][j])
      PROVE  \E p \in InstructionsReached(S, may, G) : G.insns[p[1]][p[2]].op = "return"
  <2> DEFINE p == <<b, k>>
  <2>1. b \in Blocks(G) /\ k \in 1 .. Len(G.insns[b]) /\ Len(G.insns[b]) \in Nat
    BY <1>1
  <2>2. \A j \in 1 .. k - 1 : Onward(S, may, G, b, j)
    <3> TAKE j \in 1 .. k - 1
    <3>1. j \in DOMAIN G.insns[b] /\ j # Len(G.insns[b])
      BY <1>1, <2>1
    <3> QED BY <1>3, <2>1, <3>1, GraphParts DEF Onward
  <2>3. p \in {<<c, j>> : c \in R, j \in Nat} /\ k \in 1 .. Len(G.insns[b]) + 1
    BY <2>1
  <2>4. p \in PointsReached(S, may, G)
    BY <2>2, <2>3, PointsAre
  <2>5. p \in InstructionsReached(S, may, G)
    BY <2>4 DEF InstructionsReached
  <2> QED BY <1>3, <2>5
<1> QED BY <1>2, <1>3 DEF MayComplete

------------------------------------------------------------------------------
(***************************************************************************)
(* What may complete: it depends on the calls that are blocked only, and   *)
(* the more methods return, the fewer those are.                           *)
(***************************************************************************)
Complete(S, may) == {m \in Methods(S) : MayComplete(S, may, S.methods[m])}

LEMMA CompleteGrows ==
  ASSUME NEW S, IsSystem(S), NEW may, NEW more, may \subseteq more
  PROVE  Complete(S, may) \subseteq Complete(S, more)
<1> SUFFICES ASSUME NEW m \in Methods(S), MayComplete(S, may, S.methods[m])
             PROVE  MayComplete(S, more, S.methods[m])
  BY DEF Complete
<1> DEFINE G == S.methods[m]
<1>1. IsGraph(G)
  BY DEF IsSystem
<1> HIDE DEF G
<1>2. \A i : Blocked(S, more, i) => Blocked(S, may, i)
  BY DEF Blocked
<1>3. \A T : BlocksClosed(S, more, G, T) => BlocksClosed(S, may, G, T)
  BY <1>2 DEF BlocksClosed, Passes
<1>4. Reached(S, may, G) \subseteq Reached(S, more, G)
  BY <1>1, <1>3, ReachedBlocks
<1>5. MayComplete(S, may, G)
  BY DEF G
<1>6. MayComplete(S, more, G)
  BY <1>2, <1>4, <1>5 DEF MayComplete
<1> QED BY <1>6 DEF G

LEMMA OfBlocked ==
  ASSUME NEW S, NEW may, NEW other, NEW G,
         \A b \in Blocks(G) : \A k \in DOMAIN G.insns[b] :
           Blocked(S, may, G.insns[b][k]) <=> Blocked(S, other, G.insns[b][k]),
         IsGraph(G)
  PROVE  MayComplete(S, may, G) <=> MayComplete(S, other, G)
<1>1. ASSUME NEW X, NEW Y,
             \A b \in Blocks(G) : \A k \in DOMAIN G.insns[b] :
               Blocked(S, X, G.insns[b][k]) <=> Blocked(S, Y, G.insns[b][k]),
             MayComplete(S, X, G)
      PROVE  MayComplete(S, Y, G)
  <2>1. /\ Reached(S, Y, G) \subseteq Blocks(G) /\ G.entry \in Reached(S, Y, G)
        /\ Reached(S, X, G) \subseteq Blocks(G)
        /\ BlocksClosed(S, Y, G, Reached(S, Y, G))
    BY ReachedBlocks
  <2>2. BlocksClosed(S, X, G, Reached(S, Y, G))
    BY <1>1, <2>1 DEF BlocksClosed, Passes
  <2>3. Reached(S, X, G) \subseteq Reached(S, Y, G)
    BY <2>1, <2>2, ReachedBlocks
  <2>4. PICK b \in Reached(S, X, G) : \E k \in DOMAIN G.insns[b] :
          /\ G.insns[b][k].op = "return"
          /\ \A j \in 1 .. k - 1 : ~Blocked(S, X, G.insns[b][j])
    BY <1>1 DEF MayComplete
  <2>5. PICK k \in DOMAIN G.insns[b] :
          /\ G.insns[b][k].op = "return"
          /\ \A j \in 1 .. k - 1 : ~Blocked(S, X, G.insns[b][j])
    BY <2>4
  <2>6. \A j \in 1 .. k - 1 : j \in DOMAIN G.insns[b]
    BY <2>1, <2>4, <2>5, GraphParts
  <2>7. \A j \in 1 .. k - 1 : ~Blocked(S, Y, G.insns[b][j])
    BY <1>1, <2>1, <2>4, <2>5, <2>6
  <2> QED BY <2>3, <2>4, <2>5, <2>7 DEF MayComplete
<1> QED BY <1>1

\* Whoever does not call t does not care whether t returns.
LEMMA OfCallers ==
  ASSUME NEW S, IsSystem(S), NEW may, NEW t, NEW m \in Methods(S), m \notin Callers(S, t)
  PROVE  MayComplete(S, may \cup {t}, S.methods[m]) <=> MayComplete(S, may, S.methods[m])
<1> DEFINE G == S.methods[m]
           more == may \cup {t}
<1>1. IsGraph(G)
  BY DEF IsSystem
<1>2. \A b \in Blocks(G) : \A k \in DOMAIN G.insns[b] :
        Blocked(S, more, G.insns[b][k]) <=> Blocked(S, may, G.insns[b][k])
  <2>1. \A b \in Blocks(G) : \A k \in DOMAIN G.insns[b] :
          ~(Calls(S, G.insns[b][k]) /\ G.insns[b][k].target = t)
    BY DEF Callers
  <2> HIDE DEF G
  <2> QED BY <2>1 DEF Blocked
<1> HIDE DEF G, more
<1>3. MayComplete(S, more, G) <=> MayComplete(S, may, G)
  BY <1>1, <1>2, OfBlocked
<1> QED BY <1>3 DEF G, more

\* The reference: Returning is the least set that is closed.
LEMMA ReturningIsLeast ==
  ASSUME NEW S, IsSystem(S)
  PROVE  /\ Returning(S) \subseteq Methods(S)
         /\ Complete(S, Returning(S)) \subseteq Returning(S)
         /\ \A R \in SUBSET Methods(S) : Complete(S, R) \subseteq R => Returning(S) \subseteq R
<1>1. \A R : ReturnsIf(S, R) = Complete(S, R)
  <2> TAKE R
  <2>1. \A m \in Methods(S) :
          (\E p \in InstructionsReached(S, R, S.methods[m]) :
             S.methods[m].insns[p[1]][p[2]].op = "return") <=> MayComplete(S, R, S.methods[m])
    BY ReturnsWhenComplete DEF IsSystem
  <2> QED BY <2>1 DEF ReturnsIf, Complete
<1>2. Returning(S) = {m \in Methods(S) :
                        \A R \in SUBSET Methods(S) : Complete(S, R) \subseteq R => m \in R}
  BY <1>1 DEF Returning
<1>3. ASSUME NEW R \in SUBSET Methods(S), Complete(S, R) \subseteq R
      PROVE  Returning(S) \subseteq R /\ Complete(S, Returning(S)) \subseteq R
  <2>1. Returning(S) \subseteq R
    BY <1>2, <1>3
  <2>2. Complete(S, Returning(S)) \subseteq Complete(S, R)
    BY <2>1, CompleteGrows
  <2> QED BY <1>3, <2>1, <2>2
<1>4. Complete(S, Returning(S)) \subseteq Methods(S)
  BY DEF Complete
<1>5. Complete(S, Returning(S)) \subseteq Returning(S)
  BY <1>2, <1>3, <1>4
<1> QED BY <1>2, <1>3, <1>5

------------------------------------------------------------------------------
(***************************************************************************)
(* The work list.                                                          *)
(***************************************************************************)
Walk(n, X, x, step) ==
  \E f \in [0 .. n -> X] : f[0] = x /\ \A k \in 1 .. n : f[k] = step[<<k, f[k - 1]>>]

\* Steps that stay in X can be taken one after the other.
LEMMA Iterated ==
  ASSUME NEW n \in Nat, NEW X, NEW x \in X, NEW step,
         \A k \in 1 .. n : \A y \in X : step[<<k, y>>] \in X
  PROVE  Walk(n, X, x, step)
<1> DEFINE Runs(f, m) == f[0] = x /\ \A k \in 1 .. m : f[k] = step[<<k, f[k - 1]>>]
           none == {m \in 0 .. n : ~ \E f \in [0 .. m -> X] : Runs(f, m)}
<1> SUFFICES \E f \in [0 .. n -> X] : Runs(f, n)
  BY Zenon DEF Walk
<1> HIDE DEF Runs
<1> SUFFICES ASSUME none # {} PROVE FALSE
  OBVIOUS
<1> USE DEF Runs
<1>1. PICK m \in none : \A j \in none : m <= j
  <2>1. none \in SUBSET Nat /\ none # {}
    OBVIOUS
  <2> HIDE DEF none
  <2> QED BY <2>1, HasLeast
<1>2. m # 0
  <2> DEFINE f == [k \in 0 .. 0 |-> x]
  <2>1. f \in [0 .. 0 -> X] /\ Runs(f, 0)
    OBVIOUS
  <2> HIDE DEF f, Runs
  <2> QED BY <2>1
<1>3. m \in 1 .. n /\ m - 1 \in 0 .. n /\ ~(m <= m - 1)
  BY <1>1, <1>2
<1>4. PICK f \in [0 .. m - 1 -> X] : Runs(f, m - 1)
  <2> HIDE DEF Runs
  <2> QED BY <1>1, <1>3
<1> DEFINE g == [k \in 0 .. m |-> IF k = m THEN step[<<m, f[m - 1]>>] ELSE f[k]]
<1>5. f[m - 1] \in X /\ step[<<m, f[m - 1]>>] \in X
  BY <1>3, <1>4
<1>6. g \in [0 .. m -> X]
  BY <1>3, <1>4, <1>5
<1>7. Runs(g, m)
  <2>1. g[0] = x
    BY <1>3, <1>4
  <2>2. g[m] = step[<<m, g[m - 1]>>]
    <3>1. m \in 0 .. m /\ m - 1 \in 0 .. m /\ m - 1 # m
      BY <1>3
    <3> QED BY <3>1
  <2>3. ASSUME NEW k \in 1 .. m - 1 PROVE g[k] = step[<<k, g[k - 1]>>]
    BY <1>3, <1>4, <2>3
  <2>4. \A k \in 1 .. m : k = m \/ k \in 1 .. m - 1
    BY <1>3
  <2> HIDE DEF g
  <2> QED BY <2>1, <2>2, <2>3, <2>4
<1> HIDE DEF g, Runs
<1> QED BY <1>1, <1>6, <1>7

\* SetToSeq lists the elements of a finite set, each once.
LEMMA Listed ==
  ASSUME NEW C, IsFiniteSet(C)
  PROVE  SetToSeq(C) \in Seq(C) /\ IsInjective(SetToSeq(C)) /\ ToSet(SetToSeq(C)) = C
<1> DEFINE n == Cardinality(C)
           s == SetToSeq(C)
<1>1. n \in Nat /\ ExistsBijection(1 .. n, C)
  BY FS_CardinalityType
<1>2. \E f \in [1 .. n -> C] : IsInjective(f)
  BY <1>1 DEF ExistsBijection, Bijection, Injection, IsInjective
<1>3. s \in [1 .. n -> C] /\ IsInjective(s)
  BY <1>2 DEF SetToSeq
<1> HIDE DEF s
<1>4. s \in Seq(C)
  BY <1>1, <1>3
<1>5. s \in Injection(1 .. n, C)
  BY <1>3 DEF Injection, IsInjective
<1>6. Cardinality(1 .. n) = n
  BY <1>1, FS_Interval
<1>7. s \in Surjection(1 .. n, C)
  BY <1>5, <1>6, FS_Injection
<1>8. ToSet(s) = C
  BY <1>3, <1>7 DEF Surjection, ToSet
<1> QED BY <1>3, <1>4, <1>8 DEF s

\* What is found: methods that return, none of them twice.
FoundFits(S, found) ==
  found \in Seq(Methods(S)) /\ IsInjective(found) /\ ToSet(found) \subseteq Returning(S)

Extends(found, before) ==
  Len(before) <= Len(found) /\ \A j \in 1 .. Len(before) : found[j] = before[j]

LEMMA ExtendsHas ==
  ASSUME NEW C, NEW before \in Seq(C), NEW found \in Seq(C), Extends(found, before)
  PROVE  /\ ToSet(before) \subseteq ToSet(found)
         /\ \A other \in Seq(C) : Extends(other, found) => Extends(other, before)
  BY DEF Extends, ToSet

\* One caller is looked at.
LEMMA LookFits ==
  ASSUME NEW S, IsSystem(S), NEW found, FoundFits(S, found), NEW m \in Methods(S)
  PROVE  /\ FoundFits(S, Look(S, found, m)) /\ Extends(Look(S, found, m), found)
         /\ m \in ToSet(Look(S, found, m)) \/ ~MayComplete(S, ToSet(found), S.methods[m])
<1> DEFINE new == Append(found, m)
<1>1. found \in Seq(Methods(S)) /\ IsInjective(found) /\ ToSet(found) \subseteq Returning(S)
  BY DEF FoundFits
<1>2. CASE m \notin ToSet(found) /\ MayComplete(S, ToSet(found), S.methods[m])
  <2>1. Look(S, found, m) = new
    BY <1>2 DEF Look
  <2>2. /\ new \in Seq(Methods(S)) /\ Len(new) = Len(found) + 1 /\ Len(found) \in Nat
        /\ new[Len(new)] = m /\ \A j \in 1 .. Len(found) : new[j] = found[j]
        /\ DOMAIN new = 1 .. Len(new) /\ DOMAIN found = 1 .. Len(found)
    BY <1>1
  <2> HIDE DEF new
  <2>3. ToSet(new) = ToSet(found) \cup {m}
    BY <2>2 DEF ToSet
  <2>4. IsInjective(new)
    <3>1. \A i \in DOMAIN new : i = Len(new) \/ i \in DOMAIN found
      BY <2>2
    <3>2. \A i \in DOMAIN found : new[i] = found[i] /\ found[i] # m
      BY <1>2, <2>2 DEF ToSet
    <3> QED BY <1>1, <2>2, <3>1, <3>2 DEF IsInjective
  <2>5. m \in Returning(S)
    BY <1>1, <1>2, CompleteGrows, ReturningIsLeast DEF Complete
  <2> QED BY <1>1, <2>1, <2>2, <2>3, <2>4, <2>5 DEF FoundFits, Extends
<1>3. CASE ~(m \notin ToSet(found) /\ MayComplete(S, ToSet(found), S.methods[m]))
  BY <1>1, <1>3 DEF Look, FoundFits, Extends
<1> QED BY <1>2, <1>3

\* All callers of a method are looked at.
LEMMA LookAtCallersFits ==
  ASSUME NEW S, IsSystem(S), NEW found, FoundFits(S, found), NEW target
  PROVE  LET new == LookAtCallers(S, found, target) IN
         /\ FoundFits(S, new) /\ Extends(new, found)
         /\ \A m \in Callers(S, target) :
              m \in ToSet(new) \/ ~MayComplete(S, ToSet(found), S.methods[m])
<1> DEFINE callers == SetToSeq(Callers(S, target))
           n == Len(callers)
           X == {s \in Seq(Methods(S)) : FoundFits(S, s)}
           Runs(f) == f = [i \in 0 .. n |-> IF i = 0 THEN found ELSE Look(S, f[i - 1], callers[i])]
           upTo == CHOOSE f : Runs(f)
           step == [ks \in (1 .. n) \X X |-> Look(S, ks[2], callers[ks[1]])]
<1>1. LookAtCallers(S, found, target) = upTo[n]
  BY Zenon DEF LookAtCallers
<1>2. Callers(S, target) \subseteq Methods(S) /\ IsFiniteSet(Callers(S, target))
  BY FS_Subset DEF Callers, IsSystem
<1>3. callers \in Seq(Callers(S, target)) /\ ToSet(callers) = Callers(S, target)
  BY <1>2, Listed
<1>4. n \in Nat /\ \A i \in 1 .. n : callers[i] \in Methods(S)
  BY <1>2, <1>3
<1>5. \A m \in Callers(S, target) : \E i \in 1 .. n : callers[i] = m
  BY <1>3 DEF ToSet
<1> HIDE DEF n, callers
<1>6. found \in X /\ \A s \in X, m \in Methods(S) : Look(S, s, m) \in X
  BY LookFits DEF FoundFits
<1>7. \A k \in 1 .. n : \A y \in X : step[<<k, y>>] \in X
  BY <1>4, <1>6
<1>8. \E f : Runs(f)
  <2>1. PICK f \in [0 .. n -> X] : f[0] = found /\ \A k \in 1 .. n : f[k] = step[<<k, f[k - 1]>>]
    <3>1. n \in Nat /\ found \in X /\ \A k \in 1 .. n : \A y \in X : step[<<k, y>>] \in X
      BY <1>4, <1>6, <1>7
    <3> HIDE DEF step, X, Runs
    <3>2. Walk(n, X, found, step)
      BY <3>1, Iterated
    <3> QED BY <3>2 DEF Walk
  <2>2. \A k \in 1 .. n : k - 1 \in 0 .. n /\ f[k - 1] \in X
    BY <1>4, <2>1
  <2>3. \A k \in 1 .. n : f[k] = Look(S, f[k - 1], callers[k])
    <3> HIDE DEF X
    <3> QED BY <2>1, <2>2
  <2>4. \A k \in 0 .. n : f[k] = IF k = 0 THEN found ELSE Look(S, f[k - 1], callers[k])
    BY <1>4, <2>1, <2>3
  <2> HIDE DEF X
  <2>5. Runs(f)
    BY <2>1, <2>4
  <2> QED BY <2>5
<1>9. Runs(upTo)
  BY <1>8
<1> HIDE DEF upTo, X, step
<1>10. upTo[0] = found /\ \A k \in 1 .. n : upTo[k] = Look(S, upTo[k - 1], callers[k])
  <2>1. \A k \in 0 .. n : upTo[k] = IF k = 0 THEN found ELSE Look(S, upTo[k - 1], callers[k])
    BY <1>9
  <2>2. 0 \in 0 .. n /\ \A k \in 1 .. n : k \in 0 .. n /\ k # 0
    BY <1>4
  <2> QED BY <2>1, <2>2
<1> HIDE DEF Runs
<1> DEFINE good(k) ==
             /\ FoundFits(S, upTo[k]) /\ Extends(upTo[k], found)
             /\ \A j \in 1 .. k : \/ callers[j] \in ToSet(upTo[k])
                                  \/ ~MayComplete(S, ToSet(found), S.methods[callers[j]])
           bad == {k \in 0 .. n : ~good(k)}
<1>11. good(0)
  BY <1>10 DEF Extends, FoundFits
<1>12. ASSUME NEW k \in 1 .. n, good(k - 1) PROVE good(k)
  <2> DEFINE old == upTo[k - 1]
             new == upTo[k]
             c == callers[k]
  <2>1. new = Look(S, old, c) /\ c \in Methods(S)
    BY <1>4, <1>10
  <2>2. FoundFits(S, old) /\ Extends(old, found)
    BY <1>12
  <2>3. \A j \in 1 .. k - 1 : \/ callers[j] \in ToSet(old)
                              \/ ~MayComplete(S, ToSet(found), S.methods[callers[j]])
    BY <1>12
  <2> HIDE DEF old, new
  <2>4. /\ FoundFits(S, new) /\ Extends(new, old)
        /\ c \in ToSet(new) \/ ~MayComplete(S, ToSet(old), S.methods[c])
    <3> HIDE DEF c
    <3> QED BY <2>1, <2>2, LookFits
  <2>5. /\ ToSet(found) \subseteq ToSet(old) /\ ToSet(old) \subseteq ToSet(new)
        /\ Extends(new, found)
    BY <2>2, <2>4, ExtendsHas DEF FoundFits
  <2>6. c \in ToSet(new) \/ ~MayComplete(S, ToSet(found), S.methods[c])
    BY <2>1, <2>4, <2>5, CompleteGrows DEF Complete
  <2>7. \A j \in 1 .. k : j = k \/ j \in 1 .. k - 1
    BY <1>4
  <2> QED BY <2>3, <2>4, <2>5, <2>6, <2>7 DEF old, new
<1> HIDE DEF good
<1>13. \A k \in 0 .. n : good(k)
  <2> SUFFICES ASSUME bad # {} PROVE FALSE
    OBVIOUS
  <2>1. PICK k \in bad : \A j \in bad : k <= j
    <3>1. bad \in SUBSET Nat /\ bad # {}
      OBVIOUS
    <3> HIDE DEF bad
    <3> QED BY <3>1, HasLeast
  <2>2. k \in 1 .. n /\ k - 1 \in 0 .. n /\ ~(k <= k - 1)
    BY <1>4, <1>11, <2>1
  <2>3. good(k - 1)
    BY <2>1, <2>2
  <2> QED BY <1>12, <2>1, <2>2, <2>3
<1>14. good(n)
  BY <1>4, <1>13
<1> QED BY <1>1, <1>5, <1>14 DEF good

\* The first k methods that were found, whose callers have been looked at.
Seen(found, k) == {found[j] : j \in {i \in DOMAIN found : i <= k}}

\* Nobody else may complete on account of those alone.
SeenFits(S, found, k) ==
  /\ FoundFits(S, found)
  /\ \A m \in Methods(S) : m \in ToSet(found) \/ ~MayComplete(S, Seen(found, k), S.methods[m])

\* The callers of the next one are looked at.
LEMMA SeenGrows ==
  ASSUME NEW S, IsSystem(S), NEW old, NEW k \in Nat, k # 0, SeenFits(S, old, k - 1)
  PROVE  SeenFits(S, IF k > Len(old) THEN old ELSE LookAtCallers(S, old, old[k]), k)
<1>1. /\ FoundFits(S, old) /\ old \in Seq(Methods(S)) /\ Len(old) \in Nat
      /\ DOMAIN old = 1 .. Len(old)
      /\ \A m \in Methods(S) : m \in ToSet(old) \/ ~MayComplete(S, Seen(old, k - 1), S.methods[m])
  BY DEF SeenFits, FoundFits
<1>2. CASE k > Len(old)
  <2>1. Seen(old, k) = Seen(old, k - 1)
    BY <1>1, <1>2 DEF Seen
  <2> QED BY <1>1, <1>2, <2>1 DEF SeenFits
<1>3. CASE ~(k > Len(old))
  <2> DEFINE t == old[k]
             new == LookAtCallers(S, old, t)
  <2>1. /\ FoundFits(S, new) /\ Extends(new, old)
        /\ \A m \in Callers(S, t) : m \in ToSet(new) \/ ~MayComplete(S, ToSet(old), S.methods[m])
    <3> HIDE DEF t
    <3> QED BY <1>1, LookAtCallersFits
  <2>2. k \in DOMAIN old /\ t \in ToSet(old)
    BY <1>1, <1>3 DEF ToSet
  <2> HIDE DEF new
  <2>3. new \in Seq(Methods(S)) /\ Len(new) \in Nat /\ DOMAIN new = 1 .. Len(new)
    BY <2>1 DEF FoundFits
  <2>4. ToSet(old) \subseteq ToSet(new)
    BY <1>1, <2>1, <2>3, ExtendsHas
  <2>5. Seen(new, k) = Seen(old, k - 1) \cup {t}
    <3>1. \A j \in 1 .. k : j \in DOMAIN old /\ j \in DOMAIN new /\ new[j] = old[j]
      BY <1>1, <1>3, <2>1, <2>3 DEF Extends
    <3>2. Seen(new, k) = {new[j] : j \in 1 .. k}
      BY <2>3, <3>1 DEF Seen
    <3>3. Seen(old, k - 1) = {old[j] : j \in 1 .. k - 1}
      BY <1>1, <3>1 DEF Seen
    <3>4. \A j \in 1 .. k : j = k \/ j \in 1 .. k - 1
      OBVIOUS
    <3>5. k \in 1 .. k /\ \A j \in 1 .. k - 1 : j \in 1 .. k
      OBVIOUS
    <3> HIDE DEF t
    <3>6. t = old[k]
      BY DEF t
    <3> QED BY <3>1, <3>2, <3>3, <3>4, <3>5, <3>6
  <2>6. Seen(old, k - 1) \cup {t} \subseteq ToSet(old)
    BY <1>1, <2>2 DEF Seen, ToSet
  <2> DEFINE before == Seen(old, k - 1)
             now == before \cup {t}
  <2> HIDE DEF t
  <2>7. ASSUME NEW m \in Methods(S), m \notin ToSet(new), MayComplete(S, now, S.methods[m])
        PROVE  FALSE
    <3>1. m \notin ToSet(old)
      BY <2>4, <2>7
    <3>2. CASE m \in Callers(S, t)
      <4>1. Complete(S, now) \subseteq Complete(S, ToSet(old))
        <5>1. now \subseteq ToSet(old)
          BY <2>6
        <5> HIDE DEF now
        <5> QED BY <5>1, CompleteGrows
      <4>2. MayComplete(S, ToSet(old), S.methods[m])
        <5> HIDE DEF now
        <5> QED BY <2>7, <4>1 DEF Complete
      <4> QED BY <2>1, <2>7, <3>2, <4>2
    <3>3. CASE m \notin Callers(S, t)
      <4>1. MayComplete(S, before, S.methods[m])
        <5> HIDE DEF before
        <5>1. MayComplete(S, before \cup {t}, S.methods[m]) <=> MayComplete(S, before, S.methods[m])
          BY <3>3, OfCallers
        <5> QED BY <2>7, <5>1
      <4> QED BY <1>1, <3>1, <4>1
    <3> QED BY <3>2, <3>3
  <2>8. SeenFits(S, new, k)
    BY <2>1, <2>5, <2>7 DEF SeenFits
  <2> QED BY <1>3, <2>8 DEF new, t
<1> QED BY <1>2, <1>3

\* So all of them are in the end, those found on the way included.
LEMMA SpreadFits ==
  ASSUME NEW S, IsSystem(S), NEW first, SeenFits(S, first, 0), NEW n \in Nat
  PROVE  SeenFits(S, Spread(S, first, n), n)
<1> DEFINE go(k, s) == IF k > Len(s) THEN s ELSE LookAtCallers(S, s, s[k])
           X == {s \in Seq(Methods(S)) : FoundFits(S, s)}
           Runs(f) == f = [k \in 0 .. n |->
                             IF k = 0 THEN first
                             ELSE IF k > Len(f[k - 1]) THEN f[k - 1]
                                  ELSE LookAtCallers(S, f[k - 1], f[k - 1][k])]
           after == CHOOSE f : Runs(f)
           step == [ks \in (1 .. n) \X X |-> go(ks[1], ks[2])]
<1>1. Spread(S, first, n) = after[n]
  BY Zenon DEF Spread
<1>2. first \in X
  BY DEF SeenFits, FoundFits
<1>3. \A k \in 1 .. n : \A s \in X : step[<<k, s>>] = go(k, s) /\ go(k, s) \in X
  <2> TAKE k \in 1 .. n
  <2> TAKE s \in X
  <2>1. FoundFits(S, s)
    OBVIOUS
  <2>2. \A t : LookAtCallers(S, s, t) \in X
    BY <2>1, LookAtCallersFits DEF FoundFits
  <2>3. go(k, s) \in X
    BY <2>2
  <2> HIDE DEF go, X
  <2> QED BY <2>3
<1>4. \E f : Runs(f)
  <2>1. PICK f \in [0 .. n -> X] : f[0] = first /\ \A k \in 1 .. n : f[k] = step[<<k, f[k - 1]>>]
    <3>1. \A k \in 1 .. n : \A s \in X : step[<<k, s>>] \in X
      BY <1>3
    <3> HIDE DEF step, X, Runs, go
    <3>2. Walk(n, X, first, step)
      BY <1>2, <3>1, Iterated
    <3> QED BY <3>2 DEF Walk
  <2>2. \A k \in 1 .. n : k - 1 \in 0 .. n /\ f[k - 1] \in X
    BY <2>1
  <2>3. \A k \in 1 .. n : f[k] = go(k, f[k - 1])
    <3> HIDE DEF X, go, step
    <3> QED BY <1>3, <2>1, <2>2
  <2>4. \A k \in 0 .. n : f[k] = IF k = 0 THEN first ELSE go(k, f[k - 1])
    <3> HIDE DEF X, go, step
    <3> QED BY <2>1, <2>3
  <2> HIDE DEF X
  <2>5. Runs(f)
    BY <2>1, <2>4
  <2> QED BY <2>5
<1>5. Runs(after)
  BY <1>4
<1> HIDE DEF after, X, step
<1>6. after[0] = first /\ \A k \in 1 .. n : after[k] = go(k, after[k - 1])
  <2>1. \A k \in 0 .. n : after[k] = IF k = 0 THEN first ELSE go(k, after[k - 1])
    BY <1>5
  <2>2. 0 \in 0 .. n /\ \A k \in 1 .. n : k \in 0 .. n /\ k # 0
    OBVIOUS
  <2> HIDE DEF go
  <2> QED BY <2>1, <2>2
<1> HIDE DEF Runs
<1> DEFINE bad == {k \in 0 .. n : ~SeenFits(S, after[k], k)}
<1>7. \A k \in 0 .. n : SeenFits(S, after[k], k)
  <2> SUFFICES ASSUME bad # {} PROVE FALSE
    OBVIOUS
  <2>1. PICK k \in bad : \A j \in bad : k <= j
    <3>1. bad \in SUBSET Nat /\ bad # {}
      OBVIOUS
    <3> HIDE DEF bad
    <3> QED BY <3>1, HasLeast
  <2>2. k \in 1 .. n /\ k - 1 \in 0 .. n /\ ~(k <= k - 1) /\ k \in Nat /\ k # 0
    BY <1>6, <2>1
  <2>3. SeenFits(S, after[k - 1], k - 1)
    BY <2>1, <2>2
  <2> DEFINE old == after[k - 1]
  <2> HIDE DEF old
  <2>4. SeenFits(S, old, k - 1)
    BY <2>3 DEF old
  <2>5. SeenFits(S, go(k, old), k)
    BY <2>2, <2>4, SeenGrows
  <2>6. after[k] = go(k, old)
    BY <1>6, <2>2 DEF old
  <2> QED BY <2>1, <2>5, <2>6
<1> QED BY <1>1, <1>7

\* The work list finds the methods that return.
LEMMA FoundExact ==
  ASSUME NEW S, IsSystem(S)
  PROVE  ToSet(Found(S)) = Returning(S)
<1> DEFINE C == {m \in Methods(S) : MayComplete(S, {}, S.methods[m])}
           first == SetToSeq(C)
           n == Cardinality(Methods(S))
           found == Found(S)
           X == ToSet(found)
<1>1. Found(S) = Spread(S, first, n)
  BY Zenon DEF Found
<1>2. IsFiniteSet(Methods(S)) /\ n \in Nat
  BY FS_CardinalityType DEF IsSystem
<1>3. C \subseteq Methods(S) /\ IsFiniteSet(C) /\ C = Complete(S, {})
  BY <1>2, FS_Subset DEF Complete
<1>4. C \subseteq Returning(S)
  <2>1. Complete(S, {}) \subseteq Complete(S, Returning(S))
    BY CompleteGrows
  <2> QED BY <1>3, <2>1, ReturningIsLeast
<1>5. SeenFits(S, first, 0)
  <2> HIDE DEF C
  <2>1. first \in Seq(C) /\ IsInjective(first) /\ ToSet(first) = C
    BY <1>3, Listed
  <2> HIDE DEF first
  <2>2. FoundFits(S, first)
    BY <1>3, <1>4, <2>1 DEF FoundFits
  <2>3. Seen(first, 0) = {}
    BY <2>1 DEF Seen
  <2> QED BY <1>3, <2>1, <2>2, <2>3 DEF SeenFits, Complete
<1> HIDE DEF first, C
<1>6. SeenFits(S, found, n)
  <2> HIDE DEF n
  <2> QED BY <1>1, <1>2, <1>5, SpreadFits
<1>7. found \in Seq(Methods(S)) /\ IsInjective(found) /\ X \subseteq Returning(S)
  BY <1>6 DEF SeenFits, FoundFits
<1> HIDE DEF found
<1>8. Len(found) <= n /\ Len(found) \in Nat /\ DOMAIN found = 1 .. Len(found)
  <2>1. Len(found) \in Nat /\ DOMAIN found = 1 .. Len(found)
    BY <1>7
  <2>2. found \in Injection(1 .. Len(found), Methods(S))
    BY <1>7 DEF Injection, IsInjective
  <2>3. Cardinality(1 .. Len(found)) <= n
    BY <1>2, <2>2, FS_Injection
  <2> QED BY <2>1, <2>3, FS_Interval
<1>9. Seen(found, n) = X
  BY <1>2, <1>8 DEF Seen, ToSet
<1>10. Complete(S, X) \subseteq X
  BY <1>6, <1>9 DEF SeenFits, Complete
<1>11. X \subseteq Methods(S)
  BY <1>7, ReturningIsLeast
<1>12. Returning(S) \subseteq X
  BY <1>10, <1>11, ReturningIsLeast
<1> QED BY <1>7, <1>12 DEF found

LEMMA NeverIsExact ==
  ASSUME NEW S, IsSystem(S)
  PROVE  TerminationIsExact(S)
BY FoundExact DEF TerminationIsExact, NoReturn

------------------------------------------------------------------------------
(***************************************************************************)
(* Cutting.                                                                *)
(***************************************************************************)
\* The calls behind which b is cut.
Ends(S, never, G, b) == {k \in DOMAIN G.insns[b] : NoReturnCall(S, never, G.insns[b][k])}

\* What is left of a block is its beginning, up to the first of them.
LEMMA CutParts ==
  ASSUME NEW S, NEW never, NEW G, IsGraph(G)
  PROVE  LET C == Cut(S, never, G) IN
         /\ DOMAIN C = DOMAIN G /\ C.entry = G.entry /\ Blocks(C) = Blocks(G)
         /\ C.edges = {e \in G.edges : e[3] = Thrown \/ Ends(S, never, G, e[1]) = {}}
         /\ \A b \in Blocks(G) : Ends(S, never, G, b) = {} => C.insns[b] = G.insns[b]
         /\ \A b \in Blocks(G) : Ends(S, never, G, b) # {} =>
              \E k \in Ends(S, never, G, b) :
                /\ \A j \in Ends(S, never, G, b) : k <= j
                /\ C.insns[b] = SubSeq(G.insns[b], 1, k)
<1> DEFINE C == Cut(S, never, G)
           ends(b) == Ends(S, never, G, b)
           cutAt(b) == CHOOSE k \in ends(b) : \A j \in ends(b) : k <= j
           insns == [b \in Blocks(G) |->
                       IF ends(b) = {} THEN G.insns[b] ELSE SubSeq(G.insns[b], 1, cutAt(b))]
           edges == {e \in G.edges : e[3] = Thrown \/ ends(e[1]) = {}}
<1>1. C = [G EXCEPT !.insns = insns, !.edges = edges]
  BY Zenon DEF Cut, Ends
<1>2. "entry" \in DOMAIN G /\ "insns" \in DOMAIN G /\ "edges" \in DOMAIN G
  BY DEF IsGraph
<1> HIDE DEF C
<1>3. DOMAIN C = DOMAIN G /\ C.entry = G.entry /\ C.insns = insns /\ C.edges = edges
  <2> HIDE DEF insns, edges
  <2> QED BY <1>1, <1>2
<1>4. ASSUME NEW b \in Blocks(G), ends(b) # {}
      PROVE  cutAt(b) \in ends(b) /\ \A j \in ends(b) : cutAt(b) <= j
  <2>1. ends(b) \in SUBSET Nat
    BY GraphParts DEF Ends
  <2> HIDE DEF ends
  <2>2. \E k \in ends(b) : \A j \in ends(b) : k <= j
    BY <1>4, <2>1, HasLeast
  <2> QED BY <2>2
<1> HIDE DEF cutAt
<1>5. \A b \in Blocks(G) :
        C.insns[b] = IF ends(b) = {} THEN G.insns[b] ELSE SubSeq(G.insns[b], 1, cutAt(b))
  BY <1>3
<1>6. Blocks(C) = Blocks(G)
  BY <1>3 DEF Blocks
<1> HIDE DEF ends
<1>7. \A b \in Blocks(G) : ends(b) # {} =>
        \E k \in ends(b) : (\A j \in ends(b) : k <= j) /\ C.insns[b] = SubSeq(G.insns[b], 1, k)
  <2> HIDE DEF insns
  <2> QED BY <1>4, <1>5
<1>8. \A b \in Blocks(G) : ends(b) = {} => C.insns[b] = G.insns[b]
  BY <1>5
<1> HIDE DEF insns
<1> QED BY <1>3, <1>6, <1>7, <1>8 DEF C, ends

\* Its instructions are those of the whole block.
LEMMA CutBlock ==
  ASSUME NEW S, NEW never, NEW G, IsGraph(G), NEW b \in Blocks(G)
  PROVE  LET s == G.insns[b]
             c == Cut(S, never, G).insns[b] IN
         /\ Len(s) \in Nat /\ DOMAIN s = 1 .. Len(s)
         /\ Len(c) \in Nat /\ DOMAIN c = 1 .. Len(c) /\ Len(c) <= Len(s)
         /\ \A k \in 1 .. Len(c) : c[k] = s[k]
         /\ \A k \in 1 .. Len(c) - 1 : ~NoReturnCall(S, never, s[k])
         /\ Len(c) = Len(s) \/ (Len(c) # 0 /\ NoReturnCall(S, never, s[Len(c)]))
         /\ Ends(S, never, G, b) = {} => c = s
         /\ Ends(S, never, G, b) # {} => Len(c) # 0 /\ NoReturnCall(S, never, s[Len(c)])
         /\ c \in Seq(ToSet(c))
<1> DEFINE s == G.insns[b]
           c == Cut(S, never, G).insns[b]
           ends == Ends(S, never, G, b)
<1>1. Len(s) \in Nat /\ DOMAIN s = 1 .. Len(s) /\ s \in Seq(ToSet(s))
  BY GraphParts DEF IsGraph
<1>2. ends = {k \in DOMAIN s : NoReturnCall(S, never, s[k])}
  BY DEF Ends
<1>3. CASE ends = {}
  <2>1. c = s
    BY <1>3, CutParts
  <2> HIDE DEF c, s, ends
  <2>2. \A k \in 1 .. Len(s) - 1 : k \in DOMAIN s
    BY <1>1
  <2>3. \A k \in 1 .. Len(s) - 1 : ~NoReturnCall(S, never, s[k])
    BY <1>2, <1>3, <2>2
  <2> QED BY <1>1, <1>3, <2>1, <2>3 DEF c, s, ends
<1>4. CASE ends # {}
  <2>1. PICK k \in ends : (\A j \in ends : k <= j) /\ c = SubSeq(s, 1, k)
    BY <1>4, CutParts
  <2> HIDE DEF c, s
  <2>2. k \in 1 .. Len(s) /\ NoReturnCall(S, never, s[k])
    BY <1>1, <1>2
  <2> HIDE DEF ends
  <2>3. /\ Len(c) = k /\ DOMAIN c = 1 .. k
        /\ \A j \in 1 .. k : c[j] = s[j]
        /\ c \in Seq(ToSet(s))
    BY <1>1, <2>1, <2>2
  <2>4. \A j \in 1 .. k - 1 : ~NoReturnCall(S, never, s[j])
    <3> SUFFICES ASSUME NEW j \in 1 .. k - 1, NoReturnCall(S, never, s[j]) PROVE FALSE
      OBVIOUS
    <3>1. j \in DOMAIN s /\ ~(k <= j)
      BY <1>1, <2>2
    <3> QED BY <1>2, <2>1, <3>1
  <2>5. c \in Seq(ToSet(c))
    <3>1. c \in [1 .. k -> ToSet(c)] /\ k \in Nat
      BY <2>2, <2>3 DEF ToSet
    <3> QED BY <3>1, SeqDef
  <2>6. Len(c) # 0 /\ NoReturnCall(S, never, s[Len(c)]) /\ Len(c) <= Len(s) /\ Len(c) \in Nat
    BY <1>1, <2>2, <2>3
  <2> QED BY <1>1, <1>4, <2>3, <2>4, <2>5, <2>6 DEF c, s, ends
<1> QED BY <1>3, <1>4

LEMMA CutIsGraph ==
  ASSUME NEW S, NEW never, NEW G, IsGraph(G)
  PROVE  IsGraph(Cut(S, never, G))
<1> DEFINE C == Cut(S, never, G)
<1>1. /\ DOMAIN C = DOMAIN G /\ C.entry = G.entry /\ Blocks(C) = Blocks(G)
      /\ C.edges = {e \in G.edges : e[3] = Thrown \/ Ends(S, never, G, e[1]) = {}}
  BY CutParts
<1>2. \A b \in Blocks(G) :
         /\ Len(G.insns[b]) \in Nat /\ DOMAIN G.insns[b] = 1 .. Len(G.insns[b])
         /\ DOMAIN C.insns[b] = 1 .. Len(C.insns[b]) /\ Len(C.insns[b]) <= Len(G.insns[b])
         /\ Len(C.insns[b]) \in Nat
         /\ \A k \in 1 .. Len(C.insns[b]) : C.insns[b][k] = G.insns[b][k]
         /\ Ends(S, never, G, b) = {} => C.insns[b] = G.insns[b]
         /\ Ends(S, never, G, b) # {} =>
              Len(C.insns[b]) # 0 /\ NoReturnCall(S, never, G.insns[b][Len(C.insns[b])])
         /\ C.insns[b] \in Seq(ToSet(C.insns[b]))
  BY CutBlock
<1> HIDE DEF C
<1>3. ASSUME NEW b \in Blocks(G), NEW k \in DOMAIN C.insns[b],
             C.insns[b][k].op \in {"return", "throw"}
      PROVE  k = Len(C.insns[b])
  <2>1. k \in 1 .. Len(G.insns[b]) /\ G.insns[b][k].op \in {"return", "throw"}
    BY <1>2, <1>3
  <2>2. k = Len(G.insns[b])
    BY <1>2, <2>1, GraphParts
  <2> QED BY <1>2, <1>3, <2>2
<1>4. ASSUME NEW e \in C.edges, e[3] = Thrown
      PROVE  \E i \in ToSet(C.insns[e[1]]) : i.op \in {"call", "throw"}
  <2> DEFINE b == e[1]
             n == Len(C.insns[b])
  <2>1. e \in G.edges /\ b \in Blocks(G)
    BY <1>1, GraphParts
  <2>2. CASE Ends(S, never, G, b) = {}
    <3>1. C.insns[b] = G.insns[b]
      BY <1>2, <2>1, <2>2
    <3>2. \E i \in ToSet(G.insns[b]) : i.op \in {"call", "throw"}
      BY <1>4, <2>1 DEF IsGraph
    <3> QED BY <3>1, <3>2
  <2>3. CASE Ends(S, never, G, b) # {}
    <3>1. n \in DOMAIN C.insns[b] /\ NoReturnCall(S, never, C.insns[b][n])
      BY <1>2, <2>1, <2>3
    <3>2. C.insns[b][n].op = "call" /\ C.insns[b][n] \in ToSet(C.insns[b])
      BY <3>1 DEF NoReturnCall, Calls, ToSet
    <3> QED BY <3>2
  <2> QED BY <2>2, <2>3
<1>5. ASSUME NEW e \in C.edges, e[3] # Thrown
      PROVE  \A i \in ToSet(C.insns[e[1]]) : i.op \notin {"return", "throw"}
  <2>1. e \in G.edges /\ e[1] \in Blocks(G) /\ Ends(S, never, G, e[1]) = {}
    BY <1>1, <1>5, GraphParts
  <2>2. C.insns[e[1]] = G.insns[e[1]]
    BY <1>2, <2>1
  <2> QED BY <1>5, <2>1, <2>2 DEF IsGraph
<1>6. C.edges \subseteq Blocks(G) \X Blocks(G) \X Nat
  BY <1>1 DEF IsGraph
<1>7. {"entry", "insns", "edges"} \subseteq DOMAIN C /\ IsFiniteSet(Blocks(C)) /\ C.entry \in Blocks(C)
  BY <1>1 DEF IsGraph
<1>8. IsGraph(C)
  BY <1>1, <1>2, <1>3, <1>4, <1>5, <1>6, <1>7 DEF IsGraph
<1> QED BY <1>8 DEF C

\* What is cut is what was blocked: a call that never returns is blocked in
\* the whole graph, and any other in both or in none.
SameButCut(S, never, mayCut, may) ==
  /\ \A i : NoReturnCall(S, never, i) => Blocked(S, may, i)
  /\ \A i : ~NoReturnCall(S, never, i) => (Blocked(S, mayCut, i) <=> Blocked(S, may, i))

LEMMA CutReachesBlocks ==
  ASSUME NEW S, NEW never, NEW G, IsGraph(G), NEW mayCut, NEW may,
         SameButCut(S, never, mayCut, may)
  PROVE  Reached(S, mayCut, Cut(S, never, G)) = Reached(S, may, G)
<1> DEFINE C == Cut(S, never, G)
<1>1. /\ C.entry = G.entry /\ Blocks(C) = Blocks(G)
      /\ C.edges = {e \in G.edges : e[3] = Thrown \/ Ends(S, never, G, e[1]) = {}}
      /\ \A b \in Blocks(G) : Ends(S, never, G, b) = {} => C.insns[b] = G.insns[b]
  BY CutParts
<1>2. IsGraph(C)
  BY CutIsGraph
<1> HIDE DEF C
<1>3. \A b \in Blocks(G) :
        Passes(S, may, G, b) <=> Ends(S, never, G, b) = {} /\ Passes(S, mayCut, C, b)
  <2> TAKE b \in Blocks(G)
  <2>1. CASE Ends(S, never, G, b) = {}
    <3>1. C.insns[b] = G.insns[b]
      BY <1>1, <2>1
    <3>2. \A k \in DOMAIN G.insns[b] : ~NoReturnCall(S, never, G.insns[b][k])
      BY <2>1 DEF Ends
    <3>3. \A k \in DOMAIN G.insns[b] :
            Blocked(S, mayCut, G.insns[b][k]) <=> Blocked(S, may, G.insns[b][k])
      BY <3>2 DEF SameButCut
    <3> QED BY <2>1, <3>1, <3>3 DEF Passes
  <2>2. CASE Ends(S, never, G, b) # {}
    BY <2>2 DEF Ends, Passes, SameButCut
  <2> QED BY <2>1, <2>2
<1>4. \A T : BlocksClosed(S, mayCut, C, T) <=> BlocksClosed(S, may, G, T)
  <2>1. \A e \in G.edges : e[1] \in Blocks(G)
    BY GraphParts
  <2>2. \A e \in G.edges :
          (e[3] = Thrown \/ Passes(S, may, G, e[1]))
            <=> e \in C.edges /\ (e[3] = Thrown \/ Passes(S, mayCut, C, e[1]))
    BY <1>1, <1>3, <2>1
  <2>3. C.edges \subseteq G.edges
    BY <1>1
  <2> QED BY <2>2, <2>3 DEF BlocksClosed
<1>5. Reached(S, mayCut, C) \subseteq Reached(S, may, G)
  <2>1. G.entry \in Reached(S, may, G) /\ BlocksClosed(S, may, G, Reached(S, may, G))
    BY ReachedBlocks
  <2>2. C.entry \in Reached(S, may, G) /\ BlocksClosed(S, mayCut, C, Reached(S, may, G))
    BY <1>1, <1>4, <2>1
  <2> QED BY <1>2, <2>2, ReachedBlocks
<1>6. Reached(S, may, G) \subseteq Reached(S, mayCut, C)
  <2>1. C.entry \in Reached(S, mayCut, C) /\ BlocksClosed(S, mayCut, C, Reached(S, mayCut, C))
    BY <1>2, ReachedBlocks
  <2>2. G.entry \in Reached(S, mayCut, C) /\ BlocksClosed(S, may, G, Reached(S, mayCut, C))
    BY <1>1, <1>4, <2>1
  <2> QED BY <2>2, ReachedBlocks
<1> QED BY <1>5, <1>6 DEF C

\* Nothing blocks the way to instruction k of b.
Open(S, may, G, b, k) ==
  k \in DOMAIN G.insns[b] /\ \A j \in 1 .. k - 1 : ~Blocked(S, may, G.insns[b][j])

LEMMA CutReachesInstructions ==
  ASSUME NEW S, NEW never, NEW G, IsGraph(G), NEW mayCut, NEW may,
         SameButCut(S, never, mayCut, may), NEW b \in Blocks(G), NEW k
  PROVE  LET C == Cut(S, never, G) IN
         /\ Open(S, mayCut, C, b, k) <=> Open(S, may, G, b, k)
         /\ Open(S, may, G, b, k) => C.insns[b][k] = G.insns[b][k]
<1> DEFINE s == G.insns[b]
           c == Cut(S, never, G).insns[b]
           n == Len(s)
           far == Len(c)
<1>1. /\ n \in Nat /\ DOMAIN s = 1 .. n /\ far \in Nat /\ DOMAIN c = 1 .. far /\ far <= n
      /\ \A j \in 1 .. far : c[j] = s[j]
      /\ \A j \in 1 .. far - 1 : ~NoReturnCall(S, never, s[j])
      /\ far = n \/ (far # 0 /\ NoReturnCall(S, never, s[far]))
  BY CutBlock
<1> HIDE DEF s, c, n, far
<1>2. ASSUME NEW i \in 1 .. far
      PROVE  /\ i \in 1 .. n /\ \A j \in 1 .. i - 1 : j \in 1 .. far /\ j \in 1 .. far - 1
  BY <1>1
<1>3. ASSUME k \in DOMAIN c, \A j \in 1 .. k - 1 : ~Blocked(S, mayCut, c[j])
      PROVE  k \in DOMAIN s /\ \A j \in 1 .. k - 1 : ~Blocked(S, may, s[j])
  <2>1. k \in 1 .. far
    BY <1>1, <1>3
  <2>2. k \in 1 .. n /\ \A j \in 1 .. k - 1 : j \in 1 .. far /\ j \in 1 .. far - 1
    BY <1>2, <2>1
  <2>3. \A j \in 1 .. k - 1 : c[j] = s[j] /\ ~NoReturnCall(S, never, s[j])
    BY <1>1, <2>2
  <2>4. \A j \in 1 .. k - 1 : ~Blocked(S, may, s[j])
    BY <1>3, <2>3 DEF SameButCut
  <2> QED BY <1>1, <2>2, <2>4
<1>4. ASSUME k \in DOMAIN s, \A j \in 1 .. k - 1 : ~Blocked(S, may, s[j])
      PROVE  k \in DOMAIN c /\ \A j \in 1 .. k - 1 : ~Blocked(S, mayCut, c[j])
  <2>1. \A j \in 1 .. k - 1 : ~NoReturnCall(S, never, s[j])
    BY <1>4 DEF SameButCut
  <2>2. k \in 1 .. n
    BY <1>1, <1>4
  <2>3. k \in 1 .. far
    <3> SUFFICES ASSUME far < k PROVE FALSE
      BY <1>1, <2>2
    <3>1. far # n
      BY <1>1, <2>2
    <3>2. far # 0 /\ NoReturnCall(S, never, s[far])
      BY <1>1, <3>1
    <3>3. far \in 1 .. k - 1
      BY <1>1, <2>2, <3>2
    <3> QED BY <2>1, <3>2, <3>3
  <2>4. \A j \in 1 .. k - 1 : j \in 1 .. far
    BY <1>2, <2>3
  <2>5. \A j \in 1 .. k - 1 : c[j] = s[j]
    BY <1>1, <2>4
  <2>6. \A j \in 1 .. k - 1 : ~Blocked(S, mayCut, c[j])
    BY <1>4, <2>1, <2>5 DEF SameButCut
  <2> QED BY <1>1, <2>3, <2>6
<1>5. k \in DOMAIN c => c[k] = s[k]
  BY <1>1
<1> QED BY <1>3, <1>4, <1>5 DEF Open, s, c

\* What control reaches, in these terms.
LEMMA OpenInstructions ==
  ASSUME NEW S, NEW may, NEW G, IsGraph(G)
  PROVE  /\ MayComplete(S, may, G) <=>
              \E b \in Reached(S, may, G) : \E k : Open(S, may, G, b, k) /\ G.insns[b][k].op = "return"
         /\ \A p : p \in InstructionsReached(S, may, G) <=>
              \E b \in Reached(S, may, G) : \E k : p = <<b, k>> /\ Open(S, may, G, b, k)
<1> DEFINE R == Reached(S, may, G)
<1>1. MayComplete(S, may, G) <=>
        \E b \in R : \E k : Open(S, may, G, b, k) /\ G.insns[b][k].op = "return"
  BY DEF MayComplete, Open
<1>2. R \subseteq Blocks(G)
  BY ReachedBlocks
<1>3. ASSUME NEW b \in R, NEW k \in DOMAIN G.insns[b]
      PROVE  /\ k \in Nat /\ k \in 1 .. Len(G.insns[b]) + 1
             /\ \A j \in 1 .. k - 1 : Onward(S, may, G, b, j) <=> ~Blocked(S, may, G.insns[b][j])
  <2>1. k \in 1 .. Len(G.insns[b]) /\ Len(G.insns[b]) \in Nat /\ DOMAIN G.insns[b] = 1 .. Len(G.insns[b])
    BY <1>2, GraphParts
  <2>2. \A j \in 1 .. k - 1 : j \in DOMAIN G.insns[b] /\ j # Len(G.insns[b])
    BY <2>1
  <2>3. \A j \in 1 .. k - 1 : G.insns[b][j].op \notin {"return", "throw"}
    BY <1>2, <2>2, GraphParts
  <2> QED BY <2>1, <2>3 DEF Onward
<1>4. ASSUME NEW p \in InstructionsReached(S, may, G)
      PROVE  \E b \in R : \E k : p = <<b, k>> /\ Open(S, may, G, b, k)
  <2>1. p \in PointsReached(S, may, G) /\ p[2] \in DOMAIN G.insns[p[1]]
    BY DEF InstructionsReached
  <2>2. /\ p \in {<<b, k>> : b \in R, k \in Nat}
        /\ \A j \in 1 .. p[2] - 1 : Onward(S, may, G, p[1], j)
    BY <2>1, PointsAre
  <2>3. PICK b \in R, k \in Nat : p = <<b, k>>
    BY <2>2
  <2>4. k \in DOMAIN G.insns[b] /\ \A j \in 1 .. k - 1 : Onward(S, may, G, b, j)
    BY <2>1, <2>2, <2>3
  <2>5. Open(S, may, G, b, k)
    BY <1>3, <2>4 DEF Open
  <2> QED BY <2>3, <2>5
<1>5. ASSUME NEW b \in R, NEW k, Open(S, may, G, b, k)
      PROVE  <<b, k>> \in InstructionsReached(S, may, G)
  <2>1. /\ k \in DOMAIN G.insns[b] /\ k \in Nat /\ k \in 1 .. Len(G.insns[b]) + 1
        /\ \A j \in 1 .. k - 1 : Onward(S, may, G, b, j)
    BY <1>3, <1>5 DEF Open
  <2> DEFINE p == <<b, k>>
  <2>2. p \in {<<c, j>> : c \in R, j \in Nat} /\ p[1] = b /\ p[2] = k
    BY <2>1
  <2>3. p \in PointsReached(S, may, G)
    <3> HIDE DEF p
    <3> QED BY <2>1, <2>2, PointsAre
  <2> QED BY <2>1, <2>2, <2>3 DEF InstructionsReached
<1> QED BY <1>1, <1>4, <1>5

\* With what is blocked cut, as much is reached as with what is cut blocked.
LEMMA CutReaches ==
  ASSUME NEW S, NEW never, NEW G, IsGraph(G), NEW mayCut, NEW may,
         SameButCut(S, never, mayCut, may)
  PROVE  LET C == Cut(S, never, G) IN
         /\ InstructionsReached(S, mayCut, C) = InstructionsReached(S, may, G)
         /\ MayComplete(S, mayCut, C) <=> MayComplete(S, may, G)
<1> DEFINE C == Cut(S, never, G)
           R == Reached(S, may, G)
<1>1. IsGraph(C)
  BY CutIsGraph
<1>2. Reached(S, mayCut, C) = R
  BY CutReachesBlocks
<1>3. \A b \in R : \A k :
        /\ Open(S, mayCut, C, b, k) <=> Open(S, may, G, b, k)
        /\ Open(S, may, G, b, k) => C.insns[b][k] = G.insns[b][k]
  BY CutReachesInstructions, ReachedBlocks
<1> HIDE DEF C, R
<1>4. /\ MayComplete(S, mayCut, C) <=>
           \E b \in R : \E k : Open(S, mayCut, C, b, k) /\ C.insns[b][k].op = "return"
      /\ \A p : p \in InstructionsReached(S, mayCut, C) <=>
           \E b \in R : \E k : p = <<b, k>> /\ Open(S, mayCut, C, b, k)
  BY <1>1, <1>2, OpenInstructions
<1>5. /\ MayComplete(S, may, G) <=>
           \E b \in R : \E k : Open(S, may, G, b, k) /\ G.insns[b][k].op = "return"
      /\ \A p : p \in InstructionsReached(S, may, G) <=>
           \E b \in R : \E k : p = <<b, k>> /\ Open(S, may, G, b, k)
  BY OpenInstructions DEF R
<1>6. \A p : p \in InstructionsReached(S, mayCut, C) <=> p \in InstructionsReached(S, may, G)
  BY <1>3, <1>4, <1>5
<1>7. InstructionsReached(S, mayCut, C) = InstructionsReached(S, may, G)
  <2>1. /\ InstructionsReached(S, mayCut, C) \subseteq InstructionsReached(S, may, G)
        /\ InstructionsReached(S, may, G) \subseteq InstructionsReached(S, mayCut, C)
    BY <1>6
  <2> QED BY <2>1
<1>8. MayComplete(S, mayCut, C) <=> MayComplete(S, may, G)
  BY <1>3, <1>4, <1>5
<1> QED BY <1>7, <1>8 DEF C

LEMMA CuttingIsExact ==
  ASSUME NEW S, IsSystem(S)
  PROVE  CutIsExact(S)
<1> DEFINE never == NoReturn(S)
           all == Methods(S)
           may == Methods(S) \ never
<1>1. SameButCut(S, never, all, may)
  BY DEF SameButCut, NoReturnCall, Blocked, Calls
<1> HIDE DEF never, all, may
<1>2. \A m \in Methods(S) :
        InstructionsReached(S, all, Cut(S, never, S.methods[m]))
          = InstructionsReached(S, may, S.methods[m])
  BY <1>1, CutReaches DEF IsSystem
<1> QED BY <1>2 DEF CutIsExact, never, all, may

\* Which methods a system has, and which it keeps, is all that blocks depends on.
LEMMA OfMethods ==
  ASSUME NEW S, NEW T, Methods(T) = Methods(S), T.preserved = S.preserved,
         NEW may, NEW G, IsGraph(G)
  PROVE  MayComplete(T, may, G) <=> MayComplete(S, may, G)
<1>1. \A i : Blocked(T, may, i) <=> Blocked(S, may, i)
  BY DEF Blocked, Calls
<1>2. \A X : BlocksClosed(T, may, G, X) <=> BlocksClosed(S, may, G, X)
  BY <1>1 DEF BlocksClosed, Passes
<1>3. Reached(T, may, G) = Reached(S, may, G)
  <2>1. Reached(T, may, G) \subseteq Reached(S, may, G)
    BY <1>2, ReachedBlocks
  <2>2. Reached(S, may, G) \subseteq Reached(T, may, G)
    BY <1>2, ReachedBlocks
  <2> QED BY <2>1, <2>2
<1> QED BY <1>1, <1>3 DEF MayComplete

LEMMA CuttingKeepsAnswer ==
  ASSUME NEW S, IsSystem(S)
  PROVE  CutKeepsAnswer(S)
<1> DEFINE never == NoReturn(S)
           R == Returning(S)
<1>1. never = Methods(S) \ R /\ R \subseteq Methods(S)
  BY NeverIsExact, ReturningIsLeast DEF TerminationIsExact
<1>2. ASSUME NEW done \in SUBSET Methods(S)
      PROVE  LET f == [m \in Methods(S) |->
                         IF m \in done THEN Cut(S, never, S.methods[m]) ELSE S.methods[m]]
             IN NoReturn([S EXCEPT !.methods = f]) = never
  <2> DEFINE f == [m \in Methods(S) |->
                     IF m \in done THEN Cut(S, never, S.methods[m]) ELSE S.methods[m]]
             T == [S EXCEPT !.methods = f]
  <2> HIDE DEF never
  <2>1. /\ DOMAIN T = DOMAIN S /\ T.methods = f /\ T.preserved = S.preserved
    <3>1. "methods" \in DOMAIN S /\ "preserved" \in DOMAIN S
      BY DEF IsSystem
    <3> HIDE DEF f
    <3> QED BY <3>1
  <2> HIDE DEF T
  <2>2. Methods(T) = Methods(S)
    BY <2>1 DEF Methods
  <2>3. \A m \in Methods(S) :
          /\ m \in done => T.methods[m] = Cut(S, never, S.methods[m])
          /\ m \notin done => T.methods[m] = S.methods[m]
    BY <2>1
  <2> HIDE DEF f
  <2>4. \A m \in Methods(S) : IsGraph(S.methods[m]) /\ IsGraph(T.methods[m])
    BY <2>3, CutIsGraph DEF IsSystem
  <2>5. IsSystem(T)
    BY <2>1, <2>2, <2>4 DEF IsSystem
  <2>6. ASSUME NEW may \in SUBSET R
        PROVE  Complete(T, may) = Complete(S, may)
    <3>1. SameButCut(S, never, may, may)
      BY <1>1 DEF SameButCut, NoReturnCall, Blocked, Calls
    <3>2. ASSUME NEW m \in Methods(S)
          PROVE  MayComplete(T, may, T.methods[m]) <=> MayComplete(S, may, S.methods[m])
      <4> DEFINE G == S.methods[m]
                 H == T.methods[m]
      <4>1. IsGraph(G) /\ IsGraph(H)
        BY <2>4
      <4>2. m \in done => H = Cut(S, never, G)
        BY <2>3
      <4>3. m \notin done => H = G
        BY <2>3
      <4> HIDE DEF G, H
      <4>4. MayComplete(T, may, H) <=> MayComplete(S, may, H)
        BY <2>1, <2>2, <4>1, OfMethods
      <4>5. MayComplete(S, may, Cut(S, never, G)) <=> MayComplete(S, may, G)
        BY <3>1, <4>1, CutReaches
      <4>6. MayComplete(T, may, H) <=> MayComplete(S, may, G)
        BY <4>2, <4>3, <4>4, <4>5
      <4> QED BY <4>6 DEF G, H
    <3> QED BY <2>2, <3>2 DEF Complete
  <2> DEFINE Q == Returning(T)
  <2>7. /\ Q \subseteq Methods(T) /\ Complete(T, Q) \subseteq Q
        /\ \A X \in SUBSET Methods(T) : Complete(T, X) \subseteq X => Q \subseteq X
    BY <2>5, ReturningIsLeast
  <2>8. /\ R \subseteq Methods(S) /\ Complete(S, R) \subseteq R
        /\ \A X \in SUBSET Methods(S) : Complete(S, X) \subseteq X => R \subseteq X
    BY ReturningIsLeast
  <2> HIDE DEF Q, R
  <2>9. Q \subseteq R
    <3>1. Complete(T, R) \subseteq R
      BY <2>6, <2>8
    <3> QED BY <2>2, <2>7, <2>8, <3>1
  <2>10. R \subseteq Q
    <3>1. Complete(S, Q) \subseteq Q
      BY <2>6, <2>7, <2>9
    <3> QED BY <2>2, <2>7, <2>8, <3>1
  <2>11. NoReturn(T) = Methods(T) \ Q
    BY <2>5, NeverIsExact DEF TerminationIsExact, Q
  <2>12. NoReturn(T) = never
    BY <1>1, <2>2, <2>9, <2>10, <2>11
  <2> QED BY <2>12 DEF T, f
<1> QED BY <1>2 DEF CutKeepsAnswer

------------------------------------------------------------------------------
(***************************************************************************)
(* The analysis of termination is right for every system of methods,       *)
(* however large and however its methods call one another: exactly the     *)
(* methods that can return are found to, what is cut is exactly what       *)
(* control does not reach behind calls of the others, and graphs that are  *)
(* cut already have the same answer.                                       *)
(***************************************************************************)
THEOREM NoReturnExact == []SubjectIsSystem => []NoReturnIsExact
<1>1. SubjectIsSystem => NoReturnIsExact
  BY NeverIsExact, CuttingIsExact, CuttingKeepsAnswer DEF SubjectIsSystem, NoReturnIsExact
<1> QED BY <1>1, PTL
=============================================================================
