---------------------------- MODULE ControlFlow ----------------------------
(***************************************************************************)
(* From the instructions of a method to the control-flow graph that SSA    *)
(* form is built on (dexdec, ir/splitter.rs and the normalization stage of *)
(* ir/passes/cfg_pipeline.rs): basic blocks and their edges, blocks that   *)
(* nothing reaches removed, jumps and chains of blocks contracted, the     *)
(* results of calls bound to the calls, critical edges split.              *)
(*                                                                         *)
(* A program is its instructions, which are named by their positions, its  *)
(* protected ranges and the registers of its parameters.  An instruction   *)
(* has the registers it reads, the one it writes (0 is none), whether it   *)
(* may throw, and where it may jump; If and Switch are one operation, with *)
(* a case for each target, and "result" is a move-result.  Monitors are    *)
(* left out.                                                               *)
(***************************************************************************)
EXTENDS Dominators
LOCAL INSTANCE SequencesExt
LOCAL INSTANCE FiniteSetsExt

-----------------------------------------------------------------------------
(* Splitter                                                                *)

Covers(h, p) == h.start <= p /\ p < h.end
Jumps(i) == i.op \in {"goto", "branch"}
Leaves(i) == i.op \in {"return", "throw"}

\* find_leaders: what begins a block because of the instruction at p.
LeadersAt(P, p) ==
  LET i == P.code[p] IN
  CASE Jumps(i)  -> {p, p + 1} \cup ToSet(i.targets)
    [] Leaves(i) -> {p + 1}
    [] OTHER     -> IF i.throws /\ \E h \in P.handlers : Covers(h, p) THEN {p + 1} ELSE {}

Leaders(P) ==
  LET positions == DOMAIN P.code
  IN positions \cap ({1} \cup UNION {{h.start, h.end, h.handler} : h \in P.handlers}
                         \cup UNION {LeadersAt(P, p) : p \in positions})

\* build_edges: ordinary flow out of the last instruction p of block b.
FlowEdges(P, b, p) ==
  LET i == P.code[p]
      next(kind) == IF p < Len(P.code) THEN {<<b, p + 1, kind>>} ELSE {}
  IN CASE i.op = "goto"   -> {<<b, i.targets[1], Normal>>}
       [] i.op = "branch" -> {<<b, i.targets[k], Case(k)>> : k \in DOMAIN i.targets} \cup next(Fall)
       [] Leaves(i)       -> {}
       [] OTHER           -> next(Normal)

\* create_blocks, build_edges and capture_exception_coverage: a block is named
\* by its first position.
Split(P) ==
  LET leaders == Leaders(P)
      last(b) == Min({p - 1 : p \in {q \in leaders : q > b}} \cup {Len(P.code)})
      positions == [b \in leaders |-> b .. last(b)]
      over(b, p, h) == p \in positions[b] /\ Covers(h, p)
  IN [entry    |-> 1,
      insns    |-> [b \in leaders |->
                      [k \in 1 .. last(b) - b + 1 |-> P.code[b + k - 1] @@ [at |-> b + k - 1]]],
      edges    |-> UNION {FlowEdges(P, b, last(b)) : b \in leaders}
                     \cup UNION {{<<b, h.handler, Thrown>> :
                                    b \in {c \in leaders : \E p \in positions[c] :
                                             P.code[p].throws /\ Covers(h, p)}} : h \in P.handlers},
      handlers |-> P.handlers,
      coverage |-> [b \in leaders |->
                      {<<h.start, h.end>> : h \in {g \in P.handlers : \E p \in positions[b] : Covers(g, p)}}]]

-----------------------------------------------------------------------------
(* CFG                                                                     *)

Outgoing(G, b) == {e \in G.edges : e[1] = b}
Incoming(G, b) == {e \in G.edges : e[2] = b}
FlowTargets(G, b) == {e[2] : e \in {f \in Outgoing(G, b) : f[3] # Thrown}}
Ends(G, b, ops) == G.insns[b] # <<>> /\ Last(G.insns[b]).op \in ops
Throwing(G, b) == {k \in DOMAIN G.insns[b] : G.insns[b][k].throws}

\* The only way out of b, if that is ordinary flow to one block.
Linear(G, b) == Cardinality(Outgoing(G, b)) = 1 /\ \A e \in Outgoing(G, b) : e[3] = Normal
After(G, b) == (CHOOSE e \in Outgoing(G, b) : TRUE)[2]

Keep(G, S, edges) ==
  [G EXCEPT !.insns = [b \in S |-> G.insns[b]], !.coverage = [b \in S |-> G.coverage[b]],
            !.edges = edges]

AddBlock(G, b, insns, coverage) ==
  [G EXCEPT !.insns = @ @@ (b :> insns), !.coverage = @ @@ (b :> coverage)]

NewBlock(G) == Max(Blocks(G)) + 1

-----------------------------------------------------------------------------
(* PruneUnreachable and CanonicalizeCFG                                    *)

Prune(G) ==
  LET reached == Reaches(G.edges, G.entry)
      kept == Keep(G, reached, {e \in G.edges : e[1] \in reached})
  IN [kept EXCEPT !.handlers = {h \in @ : h.handler \in reached}]

\* CanonicalEntry: a method that loops to its beginning.
FreshEntry(G) ==
  IF Incoming(G, G.entry) = {} THEN G
  ELSE [AddBlock(G, NewBlock(G), <<>>, {}) EXCEPT
          !.entry = NewBlock(G), !.edges = @ \cup {<<NewBlock(G), G.entry, Normal>>}]

\* CanonicalTerminator: a branch with one place to go is a jump.
Straighten(G) ==
  LET oneWay == {b \in Blocks(G) : Ends(G, b, {"branch"}) /\ Cardinality(FlowTargets(G, b)) = 1}
  IN [G EXCEPT
        !.insns = [b \in Blocks(G) |->
                     IF b \notin oneWay THEN G.insns[b]
                     ELSE [G.insns[b] EXCEPT ![Len(G.insns[b])].op = "goto",
                                             ![Len(G.insns[b])].args = {}]],
        !.edges = {e \in @ : e[1] \notin oneWay \/ e[3] = Thrown}
                    \cup UNION {{<<b, t, Normal>> : t \in FlowTargets(G, b)} : b \in oneWay}]

HandlerEntries(G) == {h.handler : h \in G.handlers}

\* Mutant: blocks are merged across the borders of protected ranges.
MergesAnyRange(G, b) ==
  /\ Linear(G, b)
  /\ ~Ends(G, b, {"return", "throw", "branch"})
  /\ LET tail == After(G, b) IN
     /\ ~(Ends(G, tail, {"branch"}) /\ Throwing(G, b) # {})
     /\ tail \notin HandlerEntries(G) \cup {G.entry}
     /\ Incoming(G, tail) = {<<b, tail, Normal>>}

\* merge: b and the block after it become one.
Merges(G, b) ==
  /\ Linear(G, b)
  /\ ~Ends(G, b, {"return", "throw", "branch"})
  /\ LET tail == After(G, b) IN
     /\ ~(Ends(G, tail, {"branch"}) /\ Throwing(G, b) # {})
     /\ tail \notin HandlerEntries(G) \cup {G.entry}
     /\ Incoming(G, tail) = {<<b, tail, Normal>>}
     /\ G.coverage[b] = G.coverage[tail]

MergeTail(G, b) ==
  LET tail == After(G, b)
      head == IF Ends(G, b, {"goto"}) THEN Front(G.insns[b]) ELSE G.insns[b]
      merged == [G EXCEPT !.insns[b] = head \o G.insns[tail]]
  IN Keep(merged, Blocks(G) \ {tail},
          {e \in G.edges : e[1] \notin {b, tail}}
            \cup {<<b, e[2], e[3]>> : e \in Outgoing(G, tail)})

\* bypass: b is nothing but a jump.
Bypasses(G, b) ==
  /\ b \notin HandlerEntries(G) \cup {G.entry}
  /\ Len(G.insns[b]) = 1 /\ Ends(G, b, {"goto"})
  /\ Linear(G, b) /\ After(G, b) # b
  /\ Incoming(G, b) # {}
  /\ \A c \in {After(G, b)} \cup {e[1] : e \in Incoming(G, b)} : G.coverage[c] = G.coverage[b]

\* Mutant: the way that leads to the jump is taken for ordinary flow.
BypassAsNormal(G, b) ==
  Keep(G, Blocks(G) \ {b},
       {e \in G.edges : b \notin {e[1], e[2]}}
         \cup {<<e[1], After(G, b), Normal>> : e \in Incoming(G, b)})

Bypass(G, b) ==
  Keep(G, Blocks(G) \ {b},
       {e \in G.edges : b \notin {e[1], e[2]}}
         \cup {<<e[1], After(G, b), e[3]>> : e \in Incoming(G, b)})

Touched(G, b) ==
  IF Merges(G, b) THEN {b, After(G, b)} \cup {e[2] : e \in Outgoing(G, After(G, b))}
  ELSE {b, After(G, b)} \cup {e[1] : e \in Incoming(G, b)}

\* independent_edits: the blocks to edit in one round.
IndependentEdits(G) ==
  LET take(acc, b) ==
        IF (Merges(G, b) \/ Bypasses(G, b)) /\ Touched(G, b) \cap acc.touched = {}
        THEN [edits |-> Append(acc.edits, b), touched |-> acc.touched \cup Touched(G, b)]
        ELSE acc
  IN FoldLeft(take, [edits |-> <<>>, touched |-> {}], SetToSortSeq(Blocks(G), <)).edits

RECURSIVE Reduce(_)
Reduce(G) ==
  LET edits == IndependentEdits(G)
      edit(H, b) == IF Merges(G, b) THEN MergeTail(H, b) ELSE Bypass(H, b)
  IN IF edits = <<>> THEN G ELSE Reduce(FoldLeft(edit, G, edits))

\* The rounds of NormalizationStage.
RECURSIVE Normalise(_)
Normalise(G) ==
  LET H == Reduce(Straighten(FreshEntry(Prune(G)))) IN IF H = G THEN G ELSE Normalise(H)

-----------------------------------------------------------------------------
(* BindResults and SplitCriticalEdges                                      *)

\* The producer is the instruction before the move-result in the order of
\* positions.
BindResults(G) ==
  LET all == UNION {ToSet(G.insns[b]) : b \in Blocks(G)}
      producer(j) == Max({i.at : i \in {h \in all : h.at < j.at}})
      bound == {<<producer(j), j.result>> : j \in {i \in all : i.op = "result"}}
      bind(i) == IF \E x \in bound : x[1] = i.at
                 THEN [i EXCEPT !.result = (CHOOSE x \in bound : x[1] = i.at)[2]] ELSE i
      keeps(i) == i.op # "result"
  IN [G EXCEPT !.insns = [b \in Blocks(G) |->
        SelectSeq([k \in DOMAIN G.insns[b] |-> bind(G.insns[b][k])], keeps)]]

CriticalEdges(G) ==
  {<<e[1], e[2]>> : e \in {f \in G.edges : /\ f[3] # Thrown
                                           /\ Cardinality(FlowTargets(G, f[1])) > 1
                                           /\ Cardinality(Incoming(G, f[2])) > 1}}

SplitEdge(G, pair) ==
  LET middle == NewBlock(G)
      jump == [op |-> "goto", args |-> {}, result |-> 0, throws |-> FALSE, targets |-> <<>>, at |-> 0]
      split == {e \in G.edges : <<e[1], e[2]>> = pair /\ e[3] # Thrown}
  IN [AddBlock(G, middle, <<jump>>, G.coverage[pair[1]] \cap G.coverage[pair[2]]) EXCEPT
        !.edges = (@ \ split) \cup {<<pair[1], middle, e[3]>> : e \in split}
                    \cup {<<middle, pair[2], Normal>>}]

SplitCriticalEdges(G) ==
  LET before(x, y) == x[1] < y[1] \/ (x[1] = y[1] /\ x[2] < y[2])
  IN FoldLeft(SplitEdge, G, SetToSortSeq(CriticalEdges(G), before))

ReadyGraph(P) == SplitCriticalEdges(BindResults(Normalise(Split(P))))

-----------------------------------------------------------------------------
(* What the program does: where control is after an instruction, passing   *)
(* over jumps, move-results and the branches in D, which have one way to   *)
(* go; 0 is an endless loop of jumps.                                      *)

RECURSIVE ProgramLanding(_, _, _, _)
ProgramLanding(P, D, p, passed) ==
  LET i == P.code[p]
      on(q) == ProgramLanding(P, D, q, passed \cup {p})
  IN CASE p \in passed -> 0
       [] i.op = "goto" -> on(i.targets[1])
       [] i.op = "result" \/ p \in D -> on(p + 1)
       [] OTHER -> p

\* Where control may go from p, and how.
ProgramExits(P, p) ==
  LET i == P.code[p] IN
  FlowEdges(P, p, p)
    \cup {<<p, h.handler, Thrown>> : h \in {g \in P.handlers : i.throws /\ Covers(g, p)}}

ProgramOutcomes(P, D, p) ==
  {<<e[3], ProgramLanding(P, D, e[2], {})>> : e \in ProgramExits(P, p)}

ReachedPositions(P) == Reaches(UNION {ProgramExits(P, p) : p \in DOMAIN P.code}, 1)

\* What the verifier of the runtime accepts: control stays in the code, a
\* move-result follows its call, and a register is written on every way to
\* an instruction that reads it.
RECURSIVE WrittenTo(_, _)
WrittenTo(P, known) ==
  LET on(k, e) == <<e[2], IF e[3] = Thrown THEN k[2] ELSE k[2] \cup ({P.code[k[1]].result} \ {0})>>
      more == UNION {{on(k, e) : e \in {f \in P.exits : f[1] = k[1]}} : k \in known}
  IN IF more \subseteq known THEN known ELSE WrittenTo(P, known \cup more)

Verified(P) ==
  LET exits == UNION {ProgramExits(P, p) : p \in DOMAIN P.code} IN
  /\ Last(P.code).op \in {"goto", "return", "throw"}
  /\ \A p \in DOMAIN P.code : P.code[p].op = "result" =>
       /\ p > 1 /\ P.code[p - 1].op = "call"
       /\ \A e \in exits : e[2] = p => e[1] = p - 1 /\ e[3] = Normal
  /\ \A k \in WrittenTo([code |-> P.code, exits |-> exits], {<<1, P.inputs>>}) :
       P.code[k[1]].args \subseteq k[2]

\* The register an instruction that completes writes, by itself or by the
\* move-result after it.
Written(P, p) ==
  IF p < Len(P.code) /\ P.code[p + 1].op = "result" THEN P.code[p + 1].result
  ELSE P.code[p].result

\* The same in a graph, from instruction k of block b.
RECURSIVE GraphLanding(_, _, _, _)
GraphLanding(G, b, k, passed) ==
  IF k <= Len(G.insns[b]) /\ G.insns[b][k].op # "goto" THEN G.insns[b][k].at
  ELSE IF b \in passed THEN 0
  ELSE GraphLanding(G, After(G, b), 1, passed \cup {b})

GraphOutcomes(G, b, k) ==
  LET last == k = Len(G.insns[b])
      inside == IF last THEN {} ELSE {<<Normal, GraphLanding(G, b, k + 1, {})>>}
      out == {e \in Outgoing(G, b) : IF e[3] = Thrown THEN G.insns[b][k].throws ELSE last}
  IN inside \cup {<<e[3], GraphLanding(G, e[2], 1, {})>> : e \in out}

(***************************************************************************)
(* The graph that SSA form is built on does what the instructions do: it   *)
(* has each instruction that control reaches once, each goes on to the     *)
(* same instructions, for the same reason, and writes the same register;   *)
(* the branches that are gone had one way to go.                           *)
(***************************************************************************)
FlowIsKept(P, G) ==
  LET sites == {<<b, k>> \in Blocks(G) \X DOMAIN P.code :
                  k \in DOMAIN G.insns[b] /\ G.insns[b][k].op # "goto"}
      at(s) == G.insns[s[1]][s[2]].at
      visible == {p \in ReachedPositions(P) : P.code[p].op \notin {"goto", "result"}}
      gone == visible \ {at(s) : s \in sites}
  IN /\ {at(s) : s \in sites} \subseteq visible
     /\ Cardinality({at(s) : s \in sites}) = Cardinality(sites)
     /\ GraphLanding(G, G.entry, 1, {}) = ProgramLanding(P, gone, 1, {})
     /\ \A s \in sites :
          /\ GraphOutcomes(G, s[1], s[2]) = ProgramOutcomes(P, gone, at(s))
          /\ G.insns[s[1]][s[2]].result = Written(P, at(s))
     /\ \A p \in gone :
          /\ P.code[p].op = "branch"
          /\ Cardinality({o[2] : o \in ProgramOutcomes(P, gone, p)}) = 1

(***************************************************************************)
(* The construction of SSA form does not refuse the graph: the block that  *)
(* an exception leaves throws with its last instruction and no other       *)
(* (validate_exception_boundaries), nothing comes back to the entry, and   *)
(* no edge is critical.                                                    *)
(***************************************************************************)
GraphIsReady(G) ==
  /\ \A e \in G.edges : e[3] = Thrown => Throwing(G, e[1]) = {Len(G.insns[e[1]])}
  /\ Incoming(G, G.entry) = {}
  /\ CriticalEdges(G) = {}

(***************************************************************************)
(* Splitting, pruning, contracting, binding and splitting again leave the  *)
(* program what it was, in the form that SSA construction asks for.        *)
(***************************************************************************)
NormalFormIsExact ==
  subject.kind = "program" =>
    LET G == ReadyGraph(subject.of) IN FlowIsKept(subject.of, G) /\ GraphIsReady(G)
=============================================================================
