---------------------------- MODULE MCDecompiler ----------------------------
(* An archive of four classes and a type it does not define: an outer      *)
(* class, a lambda nested in it, a helper it calls that calls it back, and *)
(* a class that only the analysis of nullability asks for; and the graphs, *)
(* programs and systems of methods that the analyses are looked at with.   *)
EXTENDS DecompilerContext, SsaForm, MethodTermination

CONSTANTS Outermost, Lambda, Helper, Contract, Platform, None

MCClasses  == {Outermost, Lambda, Helper, Contract, Platform}
MCLocated  == MCClasses \ {Platform}
MCEnlarged == {Helper}
MCDamages  == {{}, {Lambda, Contract}}
MCParents  == [c \in MCClasses |-> IF c = Contract THEN {Lambda, Platform}
                                   ELSE IF c = Platform THEN {} ELSE {Platform}]
MCMembers  == [c \in MCClasses |-> IF c = Outermost THEN {Lambda} ELSE {}]
MCMentions == [c \in MCClasses |-> IF c = Lambda THEN {Outermost} ELSE {}]
MCCallees  == [c \in MCClasses |->
                 CASE c = Outermost -> {Helper}
                   [] c = Lambda -> {Outermost}
                   [] c = Helper -> {Outermost, Platform}
                   [] OTHER -> {}]
MCContractOwners(S, R) ==
  (IF Helper \in S \cap R THEN {Contract} ELSE {})
    \cup (IF Contract \in S THEN {Platform} ELSE {})
MCFunctionObjects == {Lambda}
MCRequested == {Outermost, Lambda}
MCBatches   == {{Outermost, Lambda}, {Outermost, Helper}}

(* A chain of six blocks that two more edges leave or enter, the chain being *)
(* exceptional in places.                                                    *)
Chain == {<<k, k + 1>> : k \in 1 .. 5}
Extras == {e \in (1 .. 6) \X (1 .. 6) : e[2] \notin {e[1], e[1] + 1}}
MCFlowGraphs ==
  {[entry |-> 1, nodes |-> 1 .. 6, normal |-> (Chain \ s) \cup {n}, exceptional |-> s \cup {e}] :
     s \in {{<<2, 3>>, <<3, 4>>}, {<<4, 5>>}}, n \in Extras, e \in Extras}

(* Six instructions over a register that they write and a parameter, under   *)
(* no handler, one that covers most of them, one behind, and two in a row.   *)
Instruction(op, args, result, throws, targets) ==
  [op |-> op, args |-> args, result |-> result, throws |-> throws, targets |-> targets]
Const   == Instruction("plain", {}, 1, FALSE, <<>>)
Get     == Instruction("plain", {2}, 1, TRUE, <<>>)
Call    == Instruction("call", {1}, 0, TRUE, <<>>)
Result  == Instruction("result", {}, 1, FALSE, <<>>)
If(r, t) == Instruction("branch", {r}, 0, FALSE, <<t>>)
Jump(t)  == Instruction("goto", {}, 0, FALSE, <<t>>)
Return  == Instruction("return", {1}, 0, FALSE, <<>>)
Middle == {Const, Get, Call, If(1, 2), If(2, 5), Jump(3)}
Codes == {<<Const, a, b, c, d, Return>> :
            a \in Middle, b, c \in Middle \cup {Result, Jump(6)}, d \in {Get, Result, If(2, 2), Jump(3)}}
Protected(s, e, h) == [start |-> s, end |-> e, handler |-> h]
Ranges == {{}, {Protected(2, 5, 5)}, {Protected(3, 4, 6)}, {Protected(2, 3, 4), Protected(4, 5, 6)}}
MCPrograms ==
  {P \in {[code |-> c, handlers |-> h, inputs |-> {2}] : c \in Codes, h \in Ranges} : Verified(P)}
MCRegisters == {1, 2}

(* Three methods that call one another, themselves included; a body raises,  *)
(* calls and returns, loops, catches, branches or catches in a loop.         *)
Does(op, t) == [op |-> op, target |-> t]
Body(insns, edges) == [entry |-> 1, insns |-> insns, edges |-> edges]
BodiesCalling(t, u) ==
  {Body(<<<<Does("throw", 0)>>>>, {}),
   Body(<<<<Does("call", t), Does("return", 0)>>>>, {}),
   Body(<<<<Does("call", t)>>, <<Does("call", u)>>, <<Does("return", 0)>>>>,
        {<<1, 2, Case(1)>>, <<1, 3, Fall>>, <<2, 1, Normal>>}),
   Body(<<<<Does("call", t)>>, <<Does("call", u), Does("return", 0)>>, <<Does("return", 0)>>>>,
        {<<1, 2, Normal>>, <<1, 3, Thrown>>}),
   Body(<<<<Does("plain", 0)>>, <<Does("call", t), Does("return", 0)>>, <<Does("call", u), Does("return", 0)>>>>,
        {<<1, 2, Case(1)>>, <<1, 3, Fall>>}),
   Body(<<<<Does("call", t)>>, <<Does("call", u)>>, <<Does("throw", 0)>>, <<Does("return", 0)>>>>,
        {<<1, 2, Normal>>, <<1, 3, Thrown>>, <<2, 1, Normal>>, <<2, 4, Thrown>>})}
MethodBodies == BodiesCalling(1, 2) \cup BodiesCalling(2, 3) \cup BodiesCalling(3, 1)
MCSystems ==
  {[methods |-> <<a, b, c>>, preserved |-> k] : a, b, c \in MethodBodies, k \in {{}, {2}}}

\* The systems are such as control flow graphs make, so that SubjectIsSystem holds.
ASSUME SystemsAssumption == \A S \in MCSystems : IsSystem(S)

(* An execution answers requests, or takes up one kind of subjects of the  *)
(* analyses and looks at one of them, before there are any.                *)
NoSubject == [kind |-> "none", of |-> None]
Subjects(kind) ==
  {[kind |-> kind, of |-> x] :
     x \in CASE kind = "graph"   -> MCFlowGraphs
             [] kind = "program" -> MCPrograms
             [] kind = "system"  -> MCSystems}

mcVars == <<vars, subject>>
TakeUp == /\ requests = 0 /\ broken = {} /\ subject = NoSubject
          /\ \E k \in {"graph", "program", "system"} : subject' = [kind |-> "next", of |-> k]
          /\ UNCHANGED vars
LookAt == /\ subject.kind = "next" /\ subject' \in Subjects(subject.of)
          /\ UNCHANGED vars
LookAway == subject # NoSubject /\ subject' = NoSubject /\ UNCHANGED vars
AnswerRequests == subject = NoSubject /\ Next /\ UNCHANGED subject

MCInit == Init /\ subject = NoSubject
MCNext == TakeUp \/ LookAt \/ LookAway \/ AnswerRequests
MCSpec == MCInit /\ [][MCNext]_mcVars
MCFairSpec == MCSpec /\ WF_vars(Continue)
=============================================================================
