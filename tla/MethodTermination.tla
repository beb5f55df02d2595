-------------------------- MODULE MethodTermination --------------------------
(***************************************************************************)
(* Which methods complete normally (dexdec, ir/analysis/termination.rs).   *)
(* A call that is resolved without dispatch goes on only when its target   *)
(* is known to return, so that the answer is a least fixed point over the  *)
(* methods that call one another; what follows a call that does not return *)
(* is cut from the graph of its caller.                                    *)
(*                                                                         *)
(* A system is the graphs of its methods, and those of the methods whose   *)
(* calls keep their continuation for what it says about the source: the    *)
(* ones with a value, and the markers of Kotlin.  Of an instruction there  *)
(* is left what it is and, for a call resolved exactly, its target.        *)
(***************************************************************************)
EXTENDS FlowGraphs, SequencesExt

Methods(S) == DOMAIN S.methods

\* exact_internal_target
Calls(S, i) == i.op = "call" /\ i.target \in Methods(S)

(* ReturnReachability: how far b goes on when the methods in may return.   *)
Blocked(S, may, i) == Calls(S, i) /\ i.target \notin may \cup S.preserved

Reached(S, may, G) ==
  LET passes(b) == \A k \in DOMAIN G.insns[b] : ~Blocked(S, may, G.insns[b][k])
  IN Reaches({<<e[1], e[2]>> : e \in {f \in G.edges : f[3] = Thrown \/ passes(f[1])}}, G.entry)

MayComplete(S, may, G) ==
  \E b \in Reached(S, may, G) : \E k \in DOMAIN G.insns[b] :
    /\ G.insns[b][k].op = "return"
    /\ \A j \in 1 .. k - 1 : ~Blocked(S, may, G.insns[b][j])

Callers(S, target) ==
  {m \in Methods(S) : \E b \in Blocks(S.methods[m]) : \E k \in DOMAIN S.methods[m].insns[b] :
                        /\ Calls(S, S.methods[m].insns[b][k])
                        /\ S.methods[m].insns[b][k].target = target}

\* The methods found so far, and a caller m of one of them if it turns out to
\* return, too.
Look(S, found, m) ==
  IF m \notin ToSet(found) /\ MayComplete(S, ToSet(found), S.methods[m])
  THEN Append(found, m) ELSE found

LookAtCallers(S, found, target) ==
  LET callers == SetToSeq(Callers(S, target))
      upTo[i \in 0 .. Len(callers)] ==
        IF i = 0 THEN found ELSE Look(S, upTo[i - 1], callers[i])
  IN upTo[Len(callers)]

\* The callers of the first n methods found are looked at, in their order; the
\* methods found behind them are those that wait.
Spread(S, first, n) ==
  LET after[k \in 0 .. n] ==
        IF k = 0 THEN first
        ELSE LET found == after[k - 1]
             IN IF k > Len(found) THEN found ELSE LookAtCallers(S, found, found[k])
  IN after[n]

\* Mutant: a caller that is found to return is not looked at by its own.
FoundByFirst(S) ==
  LET first == SetToSeq({m \in Methods(S) : MayComplete(S, {}, S.methods[m])})
  IN Spread(S, first, Len(first))

\* may_return: no method is found twice, so that none waits in the end.
Found(S) ==
  LET first == SetToSeq({m \in Methods(S) : MayComplete(S, {}, S.methods[m])})
  IN Spread(S, first, Cardinality(Methods(S)))

\* analyze: the methods that never complete.
NoReturn(S) == Methods(S) \ ToSet(Found(S))

\* Mutant: whether the continuation is to be kept is not asked.
NoReturnCallAny(S, never, i) == Calls(S, i) /\ i.target \in never

NoReturnCall(S, never, i) == Calls(S, i) /\ i.target \in never \ S.preserved

\* apply: block by block, what is behind the first call that does not return.
Cut(S, never, G) ==
  LET ends(b) == {k \in DOMAIN G.insns[b] : NoReturnCall(S, never, G.insns[b][k])}
      cutAt(b) == CHOOSE k \in ends(b) : \A j \in ends(b) : k <= j
  IN [G EXCEPT !.insns = [b \in Blocks(G) |->
                            IF ends(b) = {} THEN G.insns[b] ELSE SubSeq(G.insns[b], 1, cutAt(b))],
               !.edges = {e \in @ : e[3] = Thrown \/ ends(e[1]) = {}}]

-----------------------------------------------------------------------------
(* The graphs that splitting into blocks makes of methods (ControlFlow): what *)
(* leaves the method ends its block and has no ordinary edge, and an edge to  *)
(* a handler comes from a block where something throws.                       *)

IsGraph(G) ==
  /\ {"entry", "insns", "edges"} \subseteq DOMAIN G
  /\ IsFiniteSet(Blocks(G)) /\ G.entry \in Blocks(G)
  /\ G.edges \subseteq Blocks(G) \X Blocks(G) \X Nat
  /\ \A b \in Blocks(G) :
       /\ G.insns[b] \in Seq(ToSet(G.insns[b]))
       /\ \A k \in DOMAIN G.insns[b] :
            G.insns[b][k].op \in {"return", "throw"} => k = Len(G.insns[b])
  /\ \A e \in G.edges :
       IF e[3] = Thrown
       THEN \E i \in ToSet(G.insns[e[1]]) : i.op \in {"call", "throw"}
       ELSE \A i \in ToSet(G.insns[e[1]]) : i.op \notin {"return", "throw"}

IsSystem(S) ==
  /\ {"methods", "preserved"} \subseteq DOMAIN S
  /\ IsFiniteSet(Methods(S))
  /\ \A m \in Methods(S) : IsGraph(S.methods[m])

\* What is looked at, when it is a system, is one of those.
SubjectIsSystem == subject.kind = "system" => IsSystem(subject.of)

-----------------------------------------------------------------------------
(* What the instructions do when the methods in may return.                *)

\* The points that control reaches, before instruction k of a block or at its
\* end, where calls throw.
PointsReached(S, may, G) ==
  LET onward(b) == {k \in DOMAIN G.insns[b] : /\ G.insns[b][k].op \notin {"return", "throw"}
                                              /\ ~Blocked(S, may, G.insns[b][k])}
      throwing(b) == {k \in DOMAIN G.insns[b] : G.insns[b][k].op \in {"call", "throw"}}
      leaves(e) == IF e[3] = Thrown THEN throwing(e[1]) ELSE {Len(G.insns[e[1]]) + 1}
  IN Reaches((UNION {{<<<<b, k>>, <<b, k + 1>>>> : k \in onward(b)} : b \in Blocks(G)})
               \cup UNION {{<<<<e[1], k>>, <<e[2], 1>>>> : k \in leaves(e)} : e \in G.edges},
             <<G.entry, 1>>)

InstructionsReached(S, may, G) ==
  {p \in PointsReached(S, may, G) : p[2] \in DOMAIN G.insns[p[1]]}

\* The methods that return when those in may do, and the fewest that are
\* closed under that.
ReturnsIf(S, may) ==
  {m \in Methods(S) : \E p \in InstructionsReached(S, may, S.methods[m]) :
                        S.methods[m].insns[p[1]][p[2]].op = "return"}

Returning(S) ==
  LET closed == {R \in SUBSET Methods(S) : ReturnsIf(S, R) \subseteq R}
  IN {m \in Methods(S) : \A R \in closed : m \in R}

(***************************************************************************)
(* The work list finds exactly the methods that no chain of calls lets     *)
(* return, however they call one another: a cycle of calls alone returns   *)
(* nothing, and a handler may return for what it has caught.               *)
(***************************************************************************)
TerminationIsExact(S) == NoReturn(S) = Methods(S) \ Returning(S)

(***************************************************************************)
(* Cutting removes what control cannot reach and keeps what it can: with   *)
(* every call taken to return, the graph that is left reaches the          *)
(* instructions the whole graph reaches with the calls that never do.      *)
(***************************************************************************)
CutIsExact(S) ==
  LET never == NoReturn(S)
  IN \A m \in Methods(S) :
       InstructionsReached(S, Methods(S), Cut(S, never, S.methods[m])) =
         InstructionsReached(S, Methods(S) \ never, S.methods[m])

(***************************************************************************)
(* A second solution over graphs that are cut already, as when one of      *)
(* their methods is asked for again, gives the same answer.                *)
(***************************************************************************)
CutKeepsAnswer(S) ==
  LET never == NoReturn(S)
  IN \A done \in SUBSET Methods(S) :
       NoReturn([S EXCEPT !.methods = [m \in Methods(S) |->
                   IF m \in done THEN Cut(S, never, S.methods[m]) ELSE S.methods[m]]]) = never

(***************************************************************************)
(* The methods that never return are found, the code behind calls of them  *)
(* is cut and no other, and cutting does not change who returns.           *)
(***************************************************************************)
NoReturnIsExact ==
  subject.kind = "system" =>
    LET S == subject.of IN TerminationIsExact(S) /\ CutIsExact(S) /\ CutKeepsAnswer(S)
=============================================================================
