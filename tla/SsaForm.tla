------------------------------ MODULE SsaForm ------------------------------
(***************************************************************************)
(* SSA form (dexdec, ir/analysis/register_liveness.rs,                     *)
(* ir/passes/ssa_transform.rs and phi_simplify.rs): the registers that are *)
(* live at the beginning of each block, phis for those at the iterated     *)
(* frontiers of their definitions and at handlers, and the versions that   *)
(* reads, phis and their inputs are given along the dominator tree.        *)
(*                                                                         *)
(* An exception leaves a block before its last instruction has written its *)
(* result: the state that a handler sees is not the one at the end of the  *)
(* block.  A value is a register and a version; types are left out.        *)
(***************************************************************************)
EXTENDS ControlFlow
LOCAL INSTANCE SequencesExt
LOCAL INSTANCE FiniteSetsExt
LOCAL INSTANCE TLC

CONSTANT Registers   \* the registers of the programs, numbers from 1

-----------------------------------------------------------------------------
(* RegisterLiveness                                                        *)

Written1(i) == {i.result} \ {0}

WrittenBefore(G, b, k) == UNION {Written1(G.insns[b][j]) : j \in 1 .. k - 1}

Definitions(G, b) == WrittenBefore(G, b, Len(G.insns[b]) + 1)

\* Mutant: a handler is taken to see the result of what has thrown.
AllDefinitions(G, b) == Definitions(G, b)

\* definitions_before_exception
ExceptionalDefinitions(G, b) ==
  IF Throwing(G, b) = {} THEN Definitions(G, b)
  ELSE WrittenBefore(G, b, Max(Throwing(G, b)))

UpwardUses(G, b) ==
  UNION {G.insns[b][k].args \ WrittenBefore(G, b, k) : k \in DOMAIN G.insns[b]}

ThrownTargets(G, b) == {e[2] : e \in {f \in Outgoing(G, b) : f[3] = Thrown}}

RECURSIVE LiveFrom(_, _)
LiveFrom(G, live) ==
  LET next == [b \in Blocks(G) |->
                 UpwardUses(G, b)
                   \cup (UNION {live[t] : t \in FlowTargets(G, b)} \ Definitions(G, b))
                   \cup (UNION {live[t] : t \in ThrownTargets(G, b)} \ ExceptionalDefinitions(G, b))]
  IN IF next = live THEN live ELSE LiveFrom(G, next)

LiveIn(G) == LiveFrom(G, [b \in Blocks(G) |-> {}])

-----------------------------------------------------------------------------
(* PhiPlacement                                                            *)

\* The registers that what throws into b would have written.
EdgeClobbers(G, b) ==
  UNION {Written1(Last(G.insns[e[1]])) : e \in {f \in Incoming(G, b) : f[3] = Thrown}}

RECURSIVE SpreadPhis(_, _, _)
SpreadPhis(frontier, live, phis) ==
  LET more == phis.at \cup (UNION {frontier[b] : b \in phis.at \cup phis.defined} \cap live)
  IN IF more = phis.at THEN phis.at ELSE SpreadPhis(frontier, live, [phis EXCEPT !.at = more])

PhiBlocks(G, frontier, live, r) ==
  LET blocks == {b \in Blocks(G) : r \in live[b]}
  IN SpreadPhis(frontier, blocks,
                [at |-> {b \in blocks : r \in EdgeClobbers(G, b)},
                 defined |-> {b \in Blocks(G) : r \in Definitions(G, b)}])

\* The registers that have a phi at each block.
Placement(G, T) ==
  LET live == LiveIn(G)
      frontier == [b \in Blocks(G) |-> Frontier(T, G.edges, b)]
      at == [r \in Registers |-> PhiBlocks(G, frontier, live, r)]
  IN [b \in Blocks(G) |-> {r \in Registers : b \in at[r]}]

-----------------------------------------------------------------------------
(* VariableRenamer                                                         *)

\* The state of the renamer and what it has named: the version each read of
\* an instruction gets, the version each instruction and each phi defines,
\* and the versions of the inputs of the phis.
Unnamed(P) ==
  [counter |-> [r \in Registers |-> IF r \in P.inputs THEN 1 ELSE 0],
   stack   |-> [r \in Registers |-> IF r \in P.inputs THEN <<0>> ELSE <<>>],
   reads |-> {}, results |-> {}, phis |-> {}, inputs |-> {}, failed |-> FALSE]

CurrentVersion(s, r) == Last(s.stack[r])
NextVersion(s, r) ==
  [s EXCEPT !.counter[r] = @ + 1, !.stack[r] = Append(@, s.counter[r])]

DefinePhi(b, s, r) ==
  [NextVersion(s, r) EXCEPT !.phis = @ \cup {[block |-> b, register |-> r, version |-> s.counter[r]]}]

NameReads(b, k, args, s) ==
  [s EXCEPT !.failed = @ \/ \E r \in args : s.stack[r] = <<>>,
            !.reads = @ \cup {[block |-> b, index |-> k, register |-> r, version |-> CurrentVersion(s, r)] :
                                r \in {q \in args : s.stack[q] # <<>>}}]

NameResult(b, k, r, s) ==
  IF r = 0 THEN s
  ELSE [NextVersion(s, r) EXCEPT
          !.results = @ \cup {[block |-> b, index |-> k, register |-> r, version |-> s.counter[r]]}]

\* The state before the last instruction that may throw has written its result
\* goes along as exceptional.
NameInstruction(G, b, acc, k) ==
  LET i == G.insns[b][k]
      read == NameReads(b, k, i.args, acc.state)
  IN [exceptional |-> IF i.throws THEN read.stack ELSE acc.exceptional,
      state |-> NameResult(b, k, i.result, read)]

\* Mutant: every edge takes the state at the end of the block.
FillPhisAtEnd(phis, stacks, exceptional, s, e) ==
  LET known == {r \in phis[e[2]] : stacks[r] # <<>>}
  IN [s EXCEPT !.failed = @ \/ known # phis[e[2]],
               !.inputs = @ \cup {[edge |-> e, register |-> r, version |-> Last(stacks[r])] : r \in known}]

\* fill_phi_operands, along edge e.
FillPhis(phis, stacks, exceptional, s, e) ==
  LET taken == IF e[3] = Thrown THEN exceptional ELSE stacks
      known == {r \in phis[e[2]] : taken[r] # <<>>}
  IN [s EXCEPT !.failed = @ \/ known # phis[e[2]],
               !.inputs = @ \cup {[edge |-> e, register |-> r, version |-> Last(taken[r])] : r \in known}]

EnterBlock(G, phis, s, b) ==
  LET begun == FoldLeft(LAMBDA t, r : DefinePhi(b, t, r), s, SetToSortSeq(phis[b], <))
      named == FoldLeft(LAMBDA acc, k : NameInstruction(G, b, acc, k),
                        [exceptional |-> begun.stack, state |-> begun],
                        [k \in DOMAIN G.insns[b] |-> k])
  IN FoldLeft(LAMBDA t, e : FillPhis(phis, named.state.stack, named.exceptional, t, e),
              named.state, SetToSeq(Outgoing(G, b)))

\* The registers that block b pushes a version of, once for each.
Pushed(G, phis, b) ==
  SetToSeq(phis[b]) \o SelectSeq([k \in DOMAIN G.insns[b] |-> G.insns[b][k].result], LAMBDA r : r # 0)

LeaveBlock(G, phis, s, b) ==
  FoldLeft(LAMBDA t, r : [t EXCEPT !.stack[r] = Front(@)], s, Reverse(Pushed(G, phis, b)))

\* The tasks are blocks to enter, and blocks to leave.
RECURSIVE RenameTasks(_, _, _, _, _)
RenameTasks(G, T, phis, tasks, s) ==
  IF tasks = <<>> THEN s
  ELSE LET task == Head(tasks)
           children == SetToSortSeq(Children(T, task.block), <)
           below == [k \in DOMAIN children |-> [enter |-> TRUE, block |-> children[k]]]
       IN IF task.enter
          THEN RenameTasks(G, T, phis, below \o <<[task EXCEPT !.enter = FALSE]>> \o Tail(tasks),
                           EnterBlock(G, phis, s, task.block))
          ELSE RenameTasks(G, T, phis, Tail(tasks), LeaveBlock(G, phis, s, task.block))

Rename(P, G) ==
  LET T == Tree(G.entry, G.edges)
  IN RenameTasks(G, T, Placement(G, T), <<[enter |-> TRUE, block |-> G.entry]>>, Unnamed(P))

-----------------------------------------------------------------------------
(* PhiSimplify                                                             *)

InputsOf(F, phi) == {i \in F.inputs : i.edge[2] = phi.block /\ i.register = phi.register}
ValueOf(x) == <<x.register, x.version>>

\* compute_replacements: the phis that have one source besides themselves.
Replaceable(F) ==
  LET sources(phi) == {ValueOf(i) : i \in InputsOf(F, phi)} \ {ValueOf(phi)}
      single == {phi \in F.phis : Cardinality(sources(phi)) = 1}
  IN [v \in {ValueOf(phi) : phi \in single} |->
        CHOOSE w \in UNION {sources(phi) : phi \in {q \in single : ValueOf(q) = v}} : TRUE]

\* replacement_root: a value that leads back to itself has none.
RECURSIVE Roots(_, _, _)
Roots(replaced, v, passed) ==
  IF v \notin DOMAIN replaced THEN {v}
  ELSE IF v \in passed THEN {}
  ELSE Roots(replaced, replaced[v], passed \cup {v})

\* Mutant: what is replaced by a phi that is replaced too still names it.
ReplacementsOfOneStep(replaced) == replaced

Replacements(replaced) ==
  LET rooted == {v \in DOMAIN replaced : Roots(replaced, v, {}) # {}}
  IN [v \in rooted |-> CHOOSE w \in Roots(replaced, v, {}) : TRUE]

ApplyReplacements(F, final) ==
  LET renamed(x) == IF ValueOf(x) \in DOMAIN final THEN [x EXCEPT !.version = final[ValueOf(x)][2]] ELSE x
      kept == {phi \in F.phis : ValueOf(phi) \notin DOMAIN final}
  IN [F EXCEPT !.phis = kept,
               !.inputs = {renamed(i) : i \in UNION {InputsOf(F, phi) : phi \in kept}},
               !.reads = {renamed(r) : r \in F.reads}]

\* The phis that instructions read, and the phis those read.
RECURSIVE ReadPhis(_, _)
ReadPhis(F, values) ==
  LET read == {phi \in F.phis : ValueOf(phi) \in values}
      more == values \cup {ValueOf(i) : i \in UNION {InputsOf(F, phi) : phi \in read}}
  IN IF more = values THEN read ELSE ReadPhis(F, more)

RemoveDeadPhis(F) ==
  LET live == ReadPhis(F, {ValueOf(r) : r \in F.reads})
  IN [F EXCEPT !.phis = live, !.inputs = UNION {InputsOf(F, phi) : phi \in live}]

PhiSimplify(F) == RemoveDeadPhis(ApplyReplacements(F, Replacements(Replaceable(F))))

-----------------------------------------------------------------------------
(* What the instructions do: the place that has written each register, and *)
(* each value, as control walks the graph.  A parameter is written at 0.   *)

\* The points of a graph: before instruction k of a block, or at its end.
PointEdges(G, r) ==
  UNION {
    {<<<<b, k>>, <<b, k + 1>>>> : k \in {j \in DOMAIN G.insns[b] : G.insns[b][j].result # r}}
      \cup {<<<<b, Len(G.insns[b]) + 1>>, <<t, 1>>>> : t \in FlowTargets(G, b)}
      \cup ({<<b, k>> : k \in Throwing(G, b)} \X {<<t, 1>> : t \in ThrownTargets(G, b)}) :
    b \in Blocks(G)}

(***************************************************************************)
(* A register is live at the beginning of a block exactly when control may *)
(* come from there to an instruction that reads it before one writes it,   *)
(* where what throws has not written its result.                           *)
(***************************************************************************)
LivenessIsExact(P, G) ==
  LET live == LiveIn(G)
      uses(r) == {<<b, k>> \in Blocks(G) \X DOMAIN P.code :
                    k \in DOMAIN G.insns[b] /\ r \in G.insns[b][k].args}
      back(r) == {<<e[2], e[1]>> : e \in PointEdges(G, r)}
  IN \A r \in Registers :
       LET before == ReachedFrom(back(r), uses(r), {})
       IN \A b \in Blocks(G) : r \in live[b] <=> <<b, 1>> \in before

\* A walk stands behind the phis of a block, and knows who has written each
\* register and each value.
AcrossEdge(F, walk, e) ==
  LET taken == {i \in F.inputs : i.edge = e /\ ValueOf(i) \in DOMAIN walk.values}
      filled == {phi \in F.phis : phi.block = e[2] /\ \E i \in taken : i.register = phi.register}
      values == [v \in {ValueOf(phi) : phi \in filled} |->
                   walk.values[ValueOf(CHOOSE i \in taken : i.register = v[1])]]
  IN [block |-> e[2], registers |-> walk.registers, values |-> values @@ walk.values]

\* The reads of block b name values written where the registers were.
ReadsAgree(F, k, walk) ==
  \A read \in {r \in F.reads : r.block = walk.block /\ r.index = k} :
    /\ ValueOf(read) \in DOMAIN walk.values
    /\ walk.values[ValueOf(read)] = walk.registers[read.register]

AfterInstruction(G, F, walk, k) ==
  LET written == {w \in F.results : w.block = walk.block /\ w.index = k}
      place == G.insns[walk.block][k].at
  IN [walk EXCEPT !.registers = [r \in {w.register : w \in written} |-> place] @@ @,
                  !.values = [v \in {ValueOf(w) : w \in written} |-> place] @@ @]

\* The walk behind each instruction of its block.
Steps(G, F, walk) ==
  LET insns == G.insns[walk.block]
  IN FoldLeft(LAMBDA walks, k : Append(walks, AfterInstruction(G, F, Last(walks), k)),
              <<walk>>, [k \in DOMAIN insns |-> k])

Continued(G, F, walk) ==
  LET steps == Steps(G, F, walk)
      leaves(e) == IF e[3] = Thrown THEN {steps[k] : k \in Throwing(G, walk.block)} ELSE {Last(steps)}
  IN UNION {{AcrossEdge(F, w, e) : w \in leaves(e)} : e \in Outgoing(G, walk.block)}

RECURSIVE Walks(_, _, _, _)
Walks(G, F, walks, fresh) ==
  IF fresh = {} THEN walks
  ELSE LET more == UNION {Continued(G, F, w) : w \in fresh} \ walks
       IN Walks(G, F, walks \cup more, more)

AllWalks(P, G, F) ==
  LET start == [block |-> G.entry, registers |-> [r \in P.inputs |-> 0],
                values |-> [v \in {<<r, 0>> : r \in P.inputs} |-> 0]]
  IN Walks(G, F, {start}, {start})

ReadsReach(P, G, F) ==
  /\ {<<r.block, r.index, r.register>> : r \in F.reads} =
       UNION {UNION {{<<b, k, r>> : r \in G.insns[b][k].args} : k \in DOMAIN G.insns[b]} : b \in Blocks(G)}
  /\ \A walk \in AllWalks(P, G, F) :
       LET steps == Steps(G, F, walk)
       IN \A k \in DOMAIN G.insns[walk.block] : ReadsAgree(F, k, steps[k])

(***************************************************************************)
(* The construction of SSA form succeeds on what the verifier of the       *)
(* runtime accepts, and each read names the value that the register holds  *)
(* whichever way control has come, through loops and handlers.             *)
(***************************************************************************)
ReadsAreReaching(P, G, F) == ~F.failed /\ ReadsReach(P, G, F)

(***************************************************************************)
(* The reads still name those values when phis with one source have given  *)
(* way to it and phis that nothing reads are gone; no phi is left that     *)
(* only phis read, and none takes a value that nobody defines any more.    *)
(***************************************************************************)
SimplifiedReads(P, G, F) ==
  LET defined == {ValueOf(x) : x \in F.phis \cup F.results} \cup {<<r, 0>> : r \in P.inputs}
  IN /\ ReadsReach(P, G, F)
     /\ {ValueOf(x) : x \in F.reads \cup F.inputs} \subseteq defined
     /\ ReadPhis(F, {ValueOf(r) : r \in F.reads}) = F.phis

(***************************************************************************)
(* From liveness to the simplified form, every read of a register names the *)
(* value that the bytecode would find there.                               *)
(***************************************************************************)
SsaFormIsExact ==
  subject.kind = "program" =>
    LET P == subject.of
        G == ReadyGraph(P)
        F == Rename(P, G)
    IN LivenessIsExact(P, G) /\ ReadsAreReaching(P, G, F) /\ SimplifiedReads(P, G, PhiSimplify(F))
=============================================================================
