----------------------- MODULE ProjectSessionProofs -----------------------
(***************************************************************************)
(* Theorems about ProjectSession, for every set of symbols and aliases and *)
(* every length of history: the commands always fit the records, and the   *)
(* session implements the timeline of complete versions.                   *)
(***************************************************************************)
EXTENDS ProjectSession, TLAPS, WellFoundedInduction

SessionInv == SessionTypeOK /\ HistoryFits

(***************************************************************************)
(* Every nonempty set of positive indices has a least element, and every   *)
(* nonempty set of indices up to n has a greatest one: its mirror image    *)
(* has a least.                                                            *)
(***************************************************************************)
LEMMA HasLeast ==
  ASSUME NEW I \in SUBSET Nat, I # {}
  PROVE  \E i \in I : \A j \in I : i <= j
<1> DEFINE Less == {ss \in Nat \X Nat : ss[1] < ss[2]}
<1>1. IsWellFoundedOn(Less, Nat)
  BY NatLessThanWellFounded DEF OpToRel
<1> HIDE DEF Less
<1>2. PICK i \in I : \A j \in I : ~ (<<j, i>> \in Less)
  BY <1>1, WFMin
<1>3. ASSUME NEW j \in I PROVE i <= j
  <2>1. i \in Nat /\ j \in Nat
    OBVIOUS
  <2>2. j < i => <<j, i>> \in Less
    BY <2>1 DEF Less
  <2>3. ~ (j < i)
    BY <1>2, <2>2
  <2> QED
    BY <2>1, <2>3
<1> QED
  BY <1>3

LEMMA HasGreatest ==
  ASSUME NEW n \in Nat, NEW I \in SUBSET (1 .. n), I # {}
  PROVE  \E i \in I : \A j \in I : j <= i
<1> DEFINE Mirror == {n - i : i \in I}
<1>1. Mirror \in SUBSET Nat /\ Mirror # {}
  <2>1. \A i \in I : i \in Nat /\ n - i \in Nat
    OBVIOUS
  <2>2. PICK i \in I : TRUE
    OBVIOUS
  <2>3. n - i \in Mirror
    BY <2>2
  <2> QED
    BY <2>1, <2>3
<1>2. PICK m \in Mirror : \A l \in Mirror : m <= l
  BY <1>1, HasLeast
<1>3. PICK i \in I : m = n - i
  BY <1>2
<1>4. ASSUME NEW j \in I PROVE j <= i
  <2>1. n - j \in Mirror
    OBVIOUS
  <2>2. n - i <= n - j
    BY <1>2, <1>3, <2>1
  <2> QED
    BY <2>2
<1> QED
  BY <1>4

-----------------------------------------------------------------------------
(***************************************************************************)
(* What AliasAt reads off a sequence of commands, in its three cases.      *)
(***************************************************************************)
LEMMA AliasPast ==
  ASSUME NEW cs \in Seq(Commands), NEW r \in Records,
         NEW n \in 0 .. Len(cs), NEW k \in Symbols, NEW i \in 1 .. n,
         cs[i].key = k, \A m \in i + 1 .. n : cs[m].key # k
  PROVE  AliasAt(cs, r, n, k) = cs[i].after
<1> DEFINE past == Touching(cs, k, 1, n)
<1>1. i \in past /\ \A j \in past : j <= i
  BY DEF Touching
<1>2. \A j \in past : (\A l \in past : l <= j) => j = i
  BY <1>1 DEF Touching
<1>3. Latest(past) = i
  BY <1>1, <1>2 DEF Latest
<1> QED
  BY <1>1, <1>3 DEF AliasAt

LEMMA AliasFuture ==
  ASSUME NEW cs \in Seq(Commands), NEW r \in Records,
         NEW n \in 0 .. Len(cs), NEW k \in Symbols, NEW j \in n + 1 .. Len(cs),
         \A m \in 1 .. n : cs[m].key # k,
         cs[j].key = k, \A m \in n + 1 .. j - 1 : cs[m].key # k
  PROVE  AliasAt(cs, r, n, k) = cs[j].before
<1> DEFINE future == Touching(cs, k, n + 1, Len(cs))
<1>1. j \in future /\ \A l \in future : j <= l
  BY DEF Touching
<1>2. \A i \in future : (\A l \in future : i <= l) => i = j
  BY <1>1 DEF Touching
<1>3. Earliest(future) = j
  BY <1>1, <1>2 DEF Earliest
<1>4. Touching(cs, k, 1, n) = {}
  BY DEF Touching
<1> QED
  BY <1>1, <1>3, <1>4 DEF AliasAt

LEMMA AliasUntouched ==
  ASSUME NEW cs \in Seq(Commands), NEW r \in Records,
         NEW n \in 0 .. Len(cs), NEW k \in Symbols,
         \A m \in 1 .. Len(cs) : cs[m].key # k
  PROVE  AliasAt(cs, r, n, k) = r[k]
<1>1. Touching(cs, k, 1, n) = {} /\ Touching(cs, k, n + 1, Len(cs)) = {}
  BY DEF Touching
<1> QED
  BY <1>1 DEF AliasAt

(***************************************************************************)
(* One of the three cases always applies.                                  *)
(***************************************************************************)
LEMMA AliasCases ==
  ASSUME NEW cs \in Seq(Commands), NEW n \in 0 .. Len(cs), NEW k \in Symbols
  PROVE  \/ \E i \in 1 .. n :
               cs[i].key = k /\ \A m \in i + 1 .. n : cs[m].key # k
         \/ /\ \A m \in 1 .. n : cs[m].key # k
            /\ \E j \in n + 1 .. Len(cs) :
                  cs[j].key = k /\ \A m \in n + 1 .. j - 1 : cs[m].key # k
         \/ \A m \in 1 .. Len(cs) : cs[m].key # k
<1> DEFINE past   == {i \in 1 .. n : cs[i].key = k}
           future == {i \in n + 1 .. Len(cs) : cs[i].key = k}
<1>1. CASE past # {}
  <2>a. n \in Nat /\ past \in SUBSET (1 .. n)
    OBVIOUS
  <2>b. \E i \in past : \A m \in past : m <= i
    <3> HIDE DEF past
    <3> QED
      BY <1>1, <2>a, HasGreatest
  <2>1. PICK i \in past : \A m \in past : m <= i
    BY <2>b
  <2>2. \A m \in i + 1 .. n : cs[m].key # k
    BY <2>1
  <2> QED
    BY <2>1, <2>2
<1>2. CASE past = {} /\ future # {}
  <2>1. future \in SUBSET Nat
    OBVIOUS
  <2>2. PICK j \in future : \A m \in future : j <= m
    BY <1>2, <2>1, HasLeast
  <2>3. \A m \in n + 1 .. j - 1 : cs[m].key # k
    BY <2>2
  <2> QED
    BY <1>2, <2>2, <2>3
<1>3. CASE past = {} /\ future = {}
  BY <1>3
<1> QED
  BY <1>1, <1>2, <1>3

(***************************************************************************)
(* So what AliasAt gives is an alias, and depends on the records only for  *)
(* symbols that no command touches.                                        *)
(***************************************************************************)
LEMMA AliasType ==
  ASSUME NEW cs \in Seq(Commands), NEW r \in Records,
         NEW n \in 0 .. Len(cs), NEW k \in Symbols
  PROVE  AliasAt(cs, r, n, k) \in Aliases \cup {Nothing}
<1>1. \A i \in 1 .. Len(cs) : cs[i] \in Commands
  OBVIOUS
<1>2. r[k] \in Aliases \cup {Nothing}
  BY DEF Records
<1>3. CASE \E i \in 1 .. n :
              cs[i].key = k /\ \A m \in i + 1 .. n : cs[m].key # k
  <2>1. PICK i \in 1 .. n :
            cs[i].key = k /\ \A m \in i + 1 .. n : cs[m].key # k
    BY <1>3
  <2>2. AliasAt(cs, r, n, k) = cs[i].after
    BY <2>1, AliasPast
  <2>3. cs[i] \in Commands
    BY <1>1
  <2> QED
    BY <2>2, <2>3 DEF Commands
<1>4. CASE /\ \A m \in 1 .. n : cs[m].key # k
           /\ \E j \in n + 1 .. Len(cs) :
                 cs[j].key = k /\ \A m \in n + 1 .. j - 1 : cs[m].key # k
  <2>1. PICK j \in n + 1 .. Len(cs) :
            cs[j].key = k /\ \A m \in n + 1 .. j - 1 : cs[m].key # k
    BY <1>4
  <2>2. AliasAt(cs, r, n, k) = cs[j].before
    BY <1>4, <2>1, AliasFuture
  <2>3. cs[j] \in Commands
    BY <1>1
  <2> QED
    BY <2>2, <2>3 DEF Commands
<1>5. CASE \A m \in 1 .. Len(cs) : cs[m].key # k
  BY <1>2, <1>5, AliasUntouched
<1> QED
  BY <1>3, <1>4, <1>5, AliasCases

LEMMA AliasSame ==
  ASSUME NEW cs \in Seq(Commands), NEW r \in Records, NEW s \in Records,
         NEW n \in 0 .. Len(cs), NEW k \in Symbols,
         (\A m \in 1 .. Len(cs) : cs[m].key # k) => r[k] = s[k]
  PROVE  AliasAt(cs, r, n, k) = AliasAt(cs, s, n, k)
<1>1. CASE \E i \in 1 .. n :
              cs[i].key = k /\ \A m \in i + 1 .. n : cs[m].key # k
  <2>1. PICK i \in 1 .. n :
            cs[i].key = k /\ \A m \in i + 1 .. n : cs[m].key # k
    BY <1>1
  <2> QED
    BY <2>1, AliasPast
<1>2. CASE /\ \A m \in 1 .. n : cs[m].key # k
           /\ \E j \in n + 1 .. Len(cs) :
                 cs[j].key = k /\ \A m \in n + 1 .. j - 1 : cs[m].key # k
  <2>1. PICK j \in n + 1 .. Len(cs) :
            cs[j].key = k /\ \A m \in n + 1 .. j - 1 : cs[m].key # k
    BY <1>2
  <2> QED
    BY <1>2, <2>1, AliasFuture
<1>3. CASE \A m \in 1 .. Len(cs) : cs[m].key # k
  BY <1>3, AliasUntouched
<1> QED
  BY <1>1, <1>2, <1>3, AliasCases

-----------------------------------------------------------------------------
(***************************************************************************)
(* The invariant, one lemma per operation of the session.                  *)
(***************************************************************************)
LEMMA InitInv == SessionInit => SessionInv
BY DEF SessionInit, SessionInv, SessionTypeOK, HistoryFits, Records, Unnamed

LEMMA ActivateInv ==
  ASSUME NEW a \in Archives \cup {Nothing}, NEW p \in Paths \cup {Nothing},
         NEW r \in Records, Activate(a, p, r)
  PROVE  SessionInv'
BY DEF Activate, SessionInv, SessionTypeOK, HistoryFits

LEMMA CloseInv ==
  ASSUME CloseSession PROVE SessionInv'
BY DEF CloseSession, SessionInv, SessionTypeOK, HistoryFits, Records, Unnamed

LEMMA MarkSavedInv ==
  ASSUME SessionInv, NEW p \in Paths, MarkSaved(p) PROVE SessionInv'
<1>1. SessionTypeOK'
  BY DEF MarkSaved, SessionInv, SessionTypeOK
<1>2. records' = records /\ commands' = commands /\ cursor' = cursor
  BY DEF MarkSaved
<1>3. HistoryFits'
  BY <1>2 DEF SessionInv, HistoryFits, Follows
<1> QED
  BY <1>1, <1>3 DEF SessionInv

LEMMA RenameInv ==
  ASSUME SessionInv, NEW k \in Symbols, NEW alias \in Aliases \cup {Nothing},
         Rename(k, alias)
  PROVE  SessionInv'
<1> DEFINE new == [key |-> k, before |-> records[k], after |-> alias]
<1> USE DEF SessionInv
<1>1. new \in Commands /\ records \in Records /\ commands \in Seq(Commands)
      /\ cursor \in 0 .. Len(commands)
  BY DEF SessionTypeOK, Commands, Records
<1>2. commands' = Append(SubSeq(commands, 1, cursor), new) /\ cursor' = cursor + 1
      /\ records' = [records EXCEPT ![k] = alias]
  BY DEF Rename
<1>3. /\ commands' \in Seq(Commands)
      /\ Len(commands') = cursor + 1
      /\ \A i \in 1 .. cursor : commands'[i] = commands[i]
      /\ commands'[cursor + 1] = new
  BY <1>1, <1>2
<1>4. \A s \in Symbols : records'[s] = IF s = k THEN alias ELSE records[s]
  BY <1>1, <1>2 DEF Records
<1>5. \A i \in 1 .. Len(commands) : commands[i].key \in Symbols
  <2>1. \A i \in 1 .. Len(commands) : commands[i] \in Commands
    BY <1>1
  <2> QED
    BY <2>1 DEF Commands
<1>6. SessionTypeOK'
  <2>1. records' \in Records
    BY <1>1, <1>2 DEF Records
  <2> QED
    BY <1>1, <1>2, <1>3, <2>1 DEF SessionTypeOK, Rename
<1>7. ASSUME NEW i \in 1 .. Len(commands'), NEW j \in 1 .. Len(commands'),
             Follows(i, j)'
      PROVE  commands'[i].after = commands'[j].before
  <2>1. i < j /\ commands'[j].key = commands'[i].key
        /\ \A m \in i + 1 .. j - 1 : commands'[m].key # commands'[i].key
    BY <1>7 DEF Follows
  <2>2. i \in 1 .. cursor
    BY <1>1, <1>3, <2>1
  <2>3. CASE j = cursor + 1
    <3>1. commands[i].key = k /\ \A m \in i + 1 .. cursor : commands[m].key # k
      BY <1>1, <1>3, <2>1, <2>2, <2>3
    <3>2. records[k] = commands[i].after
      BY <2>2, <3>1 DEF HistoryFits
    <3> QED
      BY <1>3, <2>2, <2>3, <3>2
  <2>4. CASE j # cursor + 1
    <3>1. j \in 1 .. cursor
      BY <1>1, <1>3, <2>4
    <3>2. \A m \in i + 1 .. j - 1 : m \in 1 .. cursor
      BY <1>1, <2>2, <3>1
    <3>3. Follows(i, j)
      BY <1>3, <2>1, <2>2, <3>1, <3>2 DEF Follows
    <3>4. i \in 1 .. Len(commands) /\ j \in 1 .. Len(commands)
      BY <1>1, <2>2, <3>1
    <3> QED
      BY <1>3, <2>2, <3>1, <3>3, <3>4 DEF HistoryFits
  <2> QED
    BY <2>3, <2>4
<1>8. ASSUME NEW i \in 1 .. cursor',
             \A m \in i + 1 .. cursor' : commands'[m].key # commands'[i].key
      PROVE  records'[commands'[i].key] = commands'[i].after
  <2>1. CASE i = cursor + 1
    BY <1>3, <1>4, <2>1
  <2>2. CASE i # cursor + 1
    <3>1. i \in 1 .. cursor /\ cursor + 1 \in i + 1 .. cursor'
      BY <1>1, <1>2, <2>2
    <3>2. commands[i].key # k /\ commands'[i] = commands[i]
      BY <1>3, <1>8, <3>1
    <3>3. \A m \in i + 1 .. cursor : commands[m].key # commands[i].key
      <4>1. \A m \in i + 1 .. cursor : m \in i + 1 .. cursor' /\ m \in 1 .. cursor
        BY <1>1, <1>2, <3>1
      <4> QED
        BY <1>3, <1>8, <3>2, <4>1
    <3>4. records[commands[i].key] = commands[i].after
      BY <3>1, <3>3 DEF HistoryFits
    <3>5. commands[i].key \in Symbols
      BY <1>1, <1>5, <3>1
    <3> QED
      BY <1>4, <3>2, <3>4, <3>5
  <2> QED
    BY <2>1, <2>2
<1>9. cursor' + 1 .. Len(commands') = {}
  BY <1>1, <1>2, <1>3
<1> QED
  BY <1>6, <1>7, <1>8, <1>9 DEF HistoryFits

LEMMA UndoInv ==
  ASSUME SessionInv, Undo PROVE SessionInv'
<1> DEFINE c == commands[cursor]
<1> USE DEF SessionInv
<1>1. /\ records \in Records /\ commands \in Seq(Commands)
      /\ cursor \in 1 .. Len(commands) /\ cursor' = cursor - 1
      /\ commands' = commands
  BY DEF SessionTypeOK, Undo
<1>2. \A i \in 1 .. Len(commands) : commands[i] \in Commands
  BY <1>1
<1>3. c \in Commands
  BY <1>1, <1>2
<1>4. /\ records' \in Records
      /\ \A s \in Symbols : records'[s] = IF s = c.key THEN c.before ELSE records[s]
  BY <1>1, <1>3 DEF Undo, Records, Commands
<1>5. SessionTypeOK'
  BY <1>1, <1>4 DEF SessionTypeOK, Undo
<1>6. ASSUME NEW i \in 1 .. Len(commands'), NEW j \in 1 .. Len(commands'),
             Follows(i, j)'
      PROVE  commands'[i].after = commands'[j].before
  <2>1. Follows(i, j)
    BY <1>1, <1>6 DEF Follows
  <2> QED
    BY <1>1, <2>1 DEF HistoryFits
<1>7. ASSUME NEW i \in 1 .. cursor',
             \A m \in i + 1 .. cursor' : commands'[m].key # commands'[i].key
      PROVE  records'[commands'[i].key] = commands'[i].after
  <2>1. i \in 1 .. cursor /\ i < cursor /\ i \in 1 .. Len(commands)
        /\ \A m \in i + 1 .. cursor - 1 : commands[m].key # commands[i].key
    BY <1>1, <1>7
  <2>2. CASE commands[i].key = c.key
    <3>1. Follows(i, cursor)
      BY <1>1, <2>1, <2>2 DEF Follows
    <3>2. commands[i].after = c.before
      BY <1>1, <2>1, <3>1 DEF HistoryFits
    <3> QED
      BY <1>1, <1>3, <1>4, <2>2, <3>2 DEF Commands
  <2>3. CASE commands[i].key # c.key
    <3>1. \A m \in i + 1 .. cursor : commands[m].key # commands[i].key
      BY <1>1, <2>1, <2>3
    <3>2. records[commands[i].key] = commands[i].after
      BY <2>1, <3>1 DEF HistoryFits
    <3>3. commands[i].key \in Symbols
      BY <1>2, <2>1 DEF Commands
    <3> QED
      BY <1>1, <1>4, <2>3, <3>2, <3>3
  <2> QED
    BY <2>2, <2>3
<1>8. ASSUME NEW j \in cursor' + 1 .. Len(commands'),
             \A m \in cursor' + 1 .. j - 1 : commands'[m].key # commands'[j].key
      PROVE  records'[commands'[j].key] = commands'[j].before
  <2>1. j \in cursor .. Len(commands) /\ j \in 1 .. Len(commands)
        /\ \A m \in cursor .. j - 1 : commands[m].key # commands[j].key
    BY <1>1, <1>8
  <2>2. CASE j = cursor
    BY <1>1, <1>3, <1>4, <2>2 DEF Commands
  <2>3. CASE j # cursor
    <3>1. j \in cursor + 1 .. Len(commands) /\ commands[j].key # c.key
      BY <1>1, <2>1, <2>3
    <3>2. \A m \in cursor + 1 .. j - 1 : commands[m].key # commands[j].key
      BY <1>1, <2>1
    <3>3. records[commands[j].key] = commands[j].before
      BY <3>1, <3>2 DEF HistoryFits
    <3>4. commands[j].key \in Symbols
      BY <1>2, <2>1 DEF Commands
    <3> QED
      BY <1>1, <1>4, <3>1, <3>3, <3>4
  <2> QED
    BY <2>2, <2>3
<1> QED
  BY <1>5, <1>6, <1>7, <1>8 DEF HistoryFits

LEMMA RedoInv ==
  ASSUME SessionInv, Redo PROVE SessionInv'
<1> DEFINE c == commands[cursor + 1]
<1> USE DEF SessionInv
<1>1. /\ records \in Records /\ commands \in Seq(Commands)
      /\ cursor \in 0 .. Len(commands) /\ cursor + 1 \in 1 .. Len(commands)
      /\ cursor' = cursor + 1 /\ commands' = commands
  BY DEF SessionTypeOK, Redo
<1>2. \A i \in 1 .. Len(commands) : commands[i] \in Commands
  BY <1>1
<1>3. c \in Commands
  BY <1>1, <1>2
<1>4. /\ records' \in Records
      /\ \A s \in Symbols : records'[s] = IF s = c.key THEN c.after ELSE records[s]
  BY <1>1, <1>3 DEF Redo, Records, Commands
<1>5. SessionTypeOK'
  BY <1>1, <1>4 DEF SessionTypeOK, Redo
<1>6. ASSUME NEW i \in 1 .. Len(commands'), NEW j \in 1 .. Len(commands'),
             Follows(i, j)'
      PROVE  commands'[i].after = commands'[j].before
  <2>1. Follows(i, j)
    BY <1>1, <1>6 DEF Follows
  <2> QED
    BY <1>1, <2>1 DEF HistoryFits
<1>7. ASSUME NEW i \in 1 .. cursor',
             \A m \in i + 1 .. cursor' : commands'[m].key # commands'[i].key
      PROVE  records'[commands'[i].key] = commands'[i].after
  <2>1. i \in 1 .. cursor + 1 /\ i \in 1 .. Len(commands)
        /\ \A m \in i + 1 .. cursor + 1 : commands[m].key # commands[i].key
    BY <1>1, <1>7
  <2>2. CASE i = cursor + 1
    BY <1>1, <1>3, <1>4, <2>2 DEF Commands
  <2>3. CASE i # cursor + 1
    <3>1. i \in 1 .. cursor /\ commands[i].key # c.key
      BY <1>1, <2>1, <2>3
    <3>2. \A m \in i + 1 .. cursor : commands[m].key # commands[i].key
      BY <1>1, <2>1
    <3>3. records[commands[i].key] = commands[i].after
      BY <3>1, <3>2 DEF HistoryFits
    <3>4. commands[i].key \in Symbols
      BY <1>2, <2>1 DEF Commands
    <3> QED
      BY <1>1, <1>4, <3>1, <3>3, <3>4
  <2> QED
    BY <2>2, <2>3
<1>8. ASSUME NEW j \in cursor' + 1 .. Len(commands'),
             \A m \in cursor' + 1 .. j - 1 : commands'[m].key # commands'[j].key
      PROVE  records'[commands'[j].key] = commands'[j].before
  <2>1. j \in cursor + 2 .. Len(commands) /\ j \in 1 .. Len(commands)
        /\ \A m \in cursor + 2 .. j - 1 : commands[m].key # commands[j].key
    BY <1>1, <1>8
  <2>2. CASE commands[j].key = c.key
    <3>1. Follows(cursor + 1, j)
      BY <1>1, <2>1, <2>2 DEF Follows
    <3>2. c.after = commands[j].before
      BY <1>1, <2>1, <3>1 DEF HistoryFits
    <3> QED
      BY <1>1, <1>3, <1>4, <2>2, <3>2 DEF Commands
  <2>3. CASE commands[j].key # c.key
    <3>1. \A m \in cursor + 1 .. j - 1 : commands[m].key # commands[j].key
      BY <1>1, <2>1, <2>3
    <3>2. records[commands[j].key] = commands[j].before
      BY <1>1, <2>1, <3>1 DEF HistoryFits
    <3>3. commands[j].key \in Symbols
      BY <1>2, <2>1 DEF Commands
    <3> QED
      BY <1>1, <1>4, <2>3, <3>2, <3>3
  <2> QED
    BY <2>2, <2>3
<1> QED
  BY <1>5, <1>6, <1>7, <1>8 DEF HistoryFits

LEMMA SessionNextInv ==
  ASSUME SessionInv, [SessionNext]_sessionVars PROVE SessionInv'
<1> USE SessionAssumption
<1>1. CASE \E a \in Archives :
             \/ Activate(a, Nothing, Unnamed)
             \/ \E p \in Paths, r \in Records : Activate(a, p, r)
  <2>1. Unnamed \in Records
    BY DEF Unnamed, Records
  <2> QED
    BY <1>1, <2>1, ActivateInv
<1>2. CASE CloseSession
  BY <1>2, CloseInv
<1>3. CASE \E k \in Symbols, alias \in Aliases \cup {Nothing} : Rename(k, alias)
  BY <1>3, RenameInv
<1>4. CASE Undo
  BY <1>4, UndoInv
<1>5. CASE Redo
  BY <1>5, RedoInv
<1>6. CASE \E p \in Paths : MarkSaved(p)
  BY <1>6, MarkSavedInv
<1>7. CASE UNCHANGED sessionVars
  BY <1>7 DEF SessionInv, SessionTypeOK, HistoryFits, Follows, sessionVars
<1> QED
  BY <1>1, <1>2, <1>3, <1>4, <1>5, <1>6, <1>7 DEF SessionNext

(***************************************************************************)
(* Whatever is renamed, undone, redone, loaded, saved and closed, the      *)
(* session is well typed and its commands fit its records, so that undo    *)
(* and redo (CommandHistory.undo, redo) never write a stale alias.         *)
(***************************************************************************)
THEOREM SessionHistory == SessionSpec => [](SessionTypeOK /\ HistoryFits)
<1>1. SessionSpec => []SessionInv
  BY InitInv, SessionNextInv, PTL DEF SessionSpec
<1> QED
  BY <1>1, PTL DEF SessionInv

-----------------------------------------------------------------------------
(***************************************************************************)
(* The refinement.  TimelineOf is the timeline a history of commands       *)
(* stands for, as an operator so that it can be applied to both states.    *)
(***************************************************************************)
VersionOf(cs, r, n) == [k \in Symbols |-> AliasAt(cs, r, n, k)]
TimelineOf(cs, r) == [i \in 1 .. Len(cs) + 1 |-> VersionOf(cs, r, i - 1)]

LEMMA VersionType ==
  ASSUME NEW cs \in Seq(Commands), NEW r \in Records, NEW n \in 0 .. Len(cs)
  PROVE  VersionOf(cs, r, n) \in Records
BY AliasType DEF VersionOf, Records

LEMMA TimelineAt ==
  ASSUME NEW cs, NEW r, NEW i \in 1 .. Len(cs) + 1
  PROVE  TimelineOf(cs, r)[i] = VersionOf(cs, r, i - 1)
BY DEF TimelineOf

LEMMA TimelineType ==
  ASSUME NEW cs \in Seq(Commands), NEW r \in Records
  PROVE  /\ TimelineOf(cs, r) \in Seq(Records)
         /\ Len(TimelineOf(cs, r)) = Len(cs) + 1
<1>1. Len(cs) + 1 \in Nat
  OBVIOUS
<1>2. \A i \in 1 .. Len(cs) + 1 : i - 1 \in 0 .. Len(cs)
  OBVIOUS
<1>3. \A i \in 1 .. Len(cs) + 1 : VersionOf(cs, r, i - 1) \in Records
  BY <1>2, VersionType
<1> QED
  BY <1>1, <1>3 DEF TimelineOf

Shown == records = VersionOf(commands, records, cursor)

(***************************************************************************)
(* The records are the version at the cursor, because the commands fit.    *)
(***************************************************************************)
LEMMA ShowsPosition == SessionInv => Shown
<1> SUFFICES ASSUME SessionInv
    PROVE  records = VersionOf(commands, records, cursor)
  BY DEF Shown
<1> USE DEF SessionInv
<1>1. records \in Records /\ commands \in Seq(Commands)
      /\ cursor \in 0 .. Len(commands)
  BY DEF SessionTypeOK
<1>2. ASSUME NEW k \in Symbols
      PROVE  records[k] = AliasAt(commands, records, cursor, k)
  <2>1. CASE \E i \in 1 .. cursor : commands[i].key = k
                /\ \A m \in i + 1 .. cursor : commands[m].key # k
    <3>1. PICK i \in 1 .. cursor : commands[i].key = k
                /\ \A m \in i + 1 .. cursor : commands[m].key # k
      BY <2>1
    <3>2. records[k] = commands[i].after
      BY <3>1 DEF HistoryFits
    <3> QED
      BY <1>1, <3>1, <3>2, AliasPast
  <2>2. CASE /\ \A m \in 1 .. cursor : commands[m].key # k
             /\ \E j \in cursor + 1 .. Len(commands) : commands[j].key = k
                   /\ \A m \in cursor + 1 .. j - 1 : commands[m].key # k
    <3>1. PICK j \in cursor + 1 .. Len(commands) : commands[j].key = k
                   /\ \A m \in cursor + 1 .. j - 1 : commands[m].key # k
      BY <2>2
    <3>2. records[k] = commands[j].before
      BY <3>1 DEF HistoryFits
    <3> QED
      BY <1>1, <2>2, <3>1, <3>2, AliasFuture
  <2>3. CASE \A m \in 1 .. Len(commands) : commands[m].key # k
    BY <1>1, <2>3, AliasUntouched
  <2> QED
    BY <1>1, <2>1, <2>2, <2>3, AliasCases
<1> QED
  BY <1>1, <1>2 DEF VersionOf, Records

LEMMA ShowsPositionNext ==
  SessionInv' => records' = VersionOf(commands', records', cursor')
<1>1. SessionInv' => Shown'
  BY ShowsPosition, PTL
<1> QED
  BY <1>1 DEF Shown

(***************************************************************************)
(* Undo and redo write one record, of a symbol that a command touches, so  *)
(* no version changes.                                                     *)
(***************************************************************************)
LEMMA SameTimeline ==
  ASSUME NEW cs \in Seq(Commands), NEW r \in Records, NEW s \in Records,
         NEW i \in 1 .. Len(cs), \A k \in Symbols : k # cs[i].key => s[k] = r[k]
  PROVE  TimelineOf(cs, s) = TimelineOf(cs, r)
<1>1. ASSUME NEW n \in 0 .. Len(cs), NEW k \in Symbols
      PROVE  AliasAt(cs, s, n, k) = AliasAt(cs, r, n, k)
  <2>1. (\A m \in 1 .. Len(cs) : cs[m].key # k) => s[k] = r[k]
    OBVIOUS
  <2> QED
    BY <2>1, AliasSame
<1>2. \A n \in 0 .. Len(cs) : VersionOf(cs, s, n) = VersionOf(cs, r, n)
  BY <1>1 DEF VersionOf
<1>3. \A i_1 \in 1 .. Len(cs) + 1 : i_1 - 1 \in 0 .. Len(cs)
  OBVIOUS
<1> QED
  BY <1>2, <1>3 DEF TimelineOf

(***************************************************************************)
(* A rename leaves every version up to the cursor as it was.               *)
(***************************************************************************)
LEMMA RenameKeepsPast ==
  ASSUME SessionInv, NEW k \in Symbols, NEW alias \in Aliases \cup {Nothing},
         Rename(k, alias), NEW n \in 0 .. cursor
  PROVE  VersionOf(commands', records', n) = VersionOf(commands, records, n)
<1> DEFINE new == [key |-> k, before |-> records[k], after |-> alias]
<1> USE DEF SessionInv
<1>1. new \in Commands /\ records \in Records /\ commands \in Seq(Commands)
      /\ cursor \in 0 .. Len(commands) /\ n \in 0 .. Len(commands)
  BY DEF SessionTypeOK, Commands, Records
<1>2. /\ commands' \in Seq(Commands)
      /\ Len(commands') = cursor + 1
      /\ \A i \in 1 .. cursor : commands'[i] = commands[i]
      /\ commands'[cursor + 1] = new
  BY <1>1 DEF Rename
<1>3. /\ records' \in Records
      /\ \A s \in Symbols : records'[s] = IF s = k THEN alias ELSE records[s]
  BY <1>1 DEF Rename, Records
<1>4. n \in 0 .. Len(commands')
  BY <1>1, <1>2
<1>5. ASSUME NEW s \in Symbols
      PROVE  AliasAt(commands', records', n, s) = AliasAt(commands, records, n, s)
  <2>1. CASE \E i \in 1 .. n : commands[i].key = s
                /\ \A m \in i + 1 .. n : commands[m].key # s
    <3>1. PICK i \in 1 .. n : commands[i].key = s
                /\ \A m \in i + 1 .. n : commands[m].key # s
      BY <2>1
    <3>2. commands'[i] = commands[i] /\ commands'[i].key = s
          /\ \A m \in i + 1 .. n : commands'[m].key # s
      BY <1>1, <1>2, <3>1
    <3>3. AliasAt(commands, records, n, s) = commands[i].after
      BY <1>1, <3>1, AliasPast
    <3>4. AliasAt(commands', records', n, s) = commands'[i].after
      BY <1>2, <1>3, <1>4, <3>2, AliasPast
    <3> QED
      BY <3>2, <3>3, <3>4
  <2>2. CASE /\ \A m \in 1 .. n : commands[m].key # s
             /\ \E j \in n + 1 .. cursor : commands[j].key = s
                   /\ \A m \in n + 1 .. j - 1 : commands[m].key # s
    <3>1. PICK j \in n + 1 .. cursor : commands[j].key = s
                   /\ \A m \in n + 1 .. j - 1 : commands[m].key # s
      BY <2>2
    <3>2. j \in n + 1 .. Len(commands) /\ j \in n + 1 .. Len(commands')
      BY <1>1, <1>2, <3>1
    <3>3. commands'[j] = commands[j]
          /\ (\A m \in 1 .. n : commands'[m].key # s)
          /\ (\A m \in n + 1 .. j - 1 : commands'[m].key # s)
      BY <1>1, <1>2, <2>2, <3>1
    <3>4. AliasAt(commands, records, n, s) = commands[j].before
      BY <1>1, <2>2, <3>1, <3>2, AliasFuture
    <3>5. AliasAt(commands', records', n, s) = commands'[j].before
      BY <1>2, <1>3, <1>4, <3>1, <3>2, <3>3, AliasFuture
    <3> QED
      BY <3>3, <3>4, <3>5
  <2>3. CASE \A m \in 1 .. cursor : commands[m].key # s
    <3>1. AliasAt(commands, records, n, s) = AliasAt(commands, records, cursor, s)
      <4>1. CASE \E j \in cursor + 1 .. Len(commands) : commands[j].key = s
                    /\ \A m \in cursor + 1 .. j - 1 : commands[m].key # s
        <5>1. PICK j \in cursor + 1 .. Len(commands) : commands[j].key = s
                    /\ \A m \in cursor + 1 .. j - 1 : commands[m].key # s
          BY <4>1
        <5>2. j \in n + 1 .. Len(commands) /\ commands[j].key = s
              /\ (\A m \in 1 .. n : commands[m].key # s)
              /\ (\A m \in n + 1 .. j - 1 : commands[m].key # s)
          BY <1>1, <2>3, <5>1
        <5>3. AliasAt(commands, records, n, s) = commands[j].before
          BY <1>1, <5>2, AliasFuture
        <5>4. AliasAt(commands, records, cursor, s) = commands[j].before
          BY <1>1, <2>3, <5>1, AliasFuture
        <5> QED
          BY <5>3, <5>4
      <4>2. CASE \A m \in 1 .. Len(commands) : commands[m].key # s
        BY <1>1, <4>2, AliasUntouched
      <4>3. \/ \E i \in 1 .. cursor : commands[i].key = s
                    /\ \A m \in i + 1 .. cursor : commands[m].key # s
            \/ \E j \in cursor + 1 .. Len(commands) : commands[j].key = s
                    /\ \A m \in cursor + 1 .. j - 1 : commands[m].key # s
            \/ \A m \in 1 .. Len(commands) : commands[m].key # s
        BY <1>1, AliasCases
      <4> QED
        BY <2>3, <4>1, <4>2, <4>3
    <3>2. AliasAt(commands, records, cursor, s) = records[s]
      <4>1. VersionOf(commands, records, cursor)[s] = records[s]
        BY ShowsPosition DEF Shown
      <4> QED
        BY <4>1 DEF VersionOf
    <3>3. \A m \in 1 .. cursor : commands'[m].key # s
      BY <1>2, <2>3
    <3>4. CASE s = k
      <4>1. cursor + 1 \in n + 1 .. Len(commands')
            /\ commands'[cursor + 1].key = s
            /\ commands'[cursor + 1].before = records[s]
            /\ (\A m \in 1 .. n : commands'[m].key # s)
            /\ (\A m \in n + 1 .. (cursor + 1) - 1 : commands'[m].key # s)
        BY <1>1, <1>2, <3>3, <3>4
      <4>2. AliasAt(commands', records', n, s) = commands'[cursor + 1].before
        BY <1>2, <1>3, <1>4, <4>1, AliasFuture
      <4> QED
        BY <3>1, <3>2, <4>1, <4>2
    <3>5. CASE s # k
      <4>1. \A m \in 1 .. Len(commands') : commands'[m].key # s
        BY <1>1, <1>2, <3>3, <3>5
      <4>2. AliasAt(commands', records', n, s) = records'[s]
        BY <1>2, <1>3, <1>4, <4>1, AliasUntouched
      <4> QED
        BY <1>3, <3>1, <3>2, <3>5, <4>2
    <3> QED
      BY <3>4, <3>5
  <2> DEFINE prefix == SubSeq(commands, 1, cursor)
  <2>4. prefix \in Seq(Commands) /\ Len(prefix) = cursor
        /\ \A m \in 1 .. cursor : prefix[m] = commands[m]
    BY <1>1
  <2>5. \/ \E i \in 1 .. n :
               prefix[i].key = s /\ \A m \in i + 1 .. n : prefix[m].key # s
        \/ /\ \A m \in 1 .. n : prefix[m].key # s
           /\ \E j \in n + 1 .. Len(prefix) :
                 prefix[j].key = s /\ \A m \in n + 1 .. j - 1 : prefix[m].key # s
        \/ \A m \in 1 .. Len(prefix) : prefix[m].key # s
    <3> HIDE DEF prefix
    <3> QED
      BY <2>4, AliasCases
  <2> HIDE DEF prefix
  <2>6. CASE \E i \in 1 .. n :
               prefix[i].key = s /\ \A m \in i + 1 .. n : prefix[m].key # s
    BY <1>1, <2>1, <2>4, <2>6
  <2>7. CASE /\ \A m \in 1 .. n : prefix[m].key # s
             /\ \E j \in n + 1 .. Len(prefix) :
                 prefix[j].key = s /\ \A m \in n + 1 .. j - 1 : prefix[m].key # s
    BY <1>1, <2>2, <2>4, <2>7
  <2>8. CASE \A m \in 1 .. Len(prefix) : prefix[m].key # s
    BY <2>3, <2>4, <2>8
  <2> QED
    BY <2>5, <2>6, <2>7, <2>8
<1> QED
  BY <1>5 DEF VersionOf

(***************************************************************************)
(* An archive that is activated or closed starts a timeline of one version.*)
(***************************************************************************)
LEMMA FreshTimeline ==
  ASSUME NEW r \in Records PROVE TimelineOf(<<>>, r) = <<r>>
<1>1. <<>> \in Seq(Commands) /\ Len(<<>>) = 0
  OBVIOUS
<1>2. ASSUME NEW k \in Symbols PROVE AliasAt(<<>>, r, 0, k) = r[k]
  <2>1. 0 \in 0 .. Len(<<>>) /\ \A m \in 1 .. Len(<<>>) : <<>>[m].key # k
    BY <1>1
  <2> QED
    BY <1>1, <2>1, AliasUntouched
<1>3. VersionOf(<<>>, r, 0) = r
  BY <1>2 DEF VersionOf, Records
<1> QED
  BY <1>1, <1>3 DEF TimelineOf

LEMMA RenameAppends ==
  ASSUME SessionInv, SessionInv', NEW k \in Symbols,
         NEW alias \in Aliases \cup {Nothing}, Rename(k, alias)
  PROVE  TimelineOf(commands', records')
           = Append(SubSeq(TimelineOf(commands, records), 1, cursor + 1), records')
<1> DEFINE old == TimelineOf(commands, records)
           new == TimelineOf(commands', records')
           cut == SubSeq(old, 1, cursor + 1)
<1>1. records \in Records /\ commands \in Seq(Commands)
      /\ cursor \in 0 .. Len(commands)
      /\ records' \in Records /\ commands' \in Seq(Commands)
      /\ Len(commands') = cursor + 1 /\ cursor' = cursor + 1
  BY DEF SessionInv, SessionTypeOK, Rename
<1>2. /\ old \in Seq(Records) /\ Len(old) = Len(commands) + 1
      /\ new \in Seq(Records) /\ Len(new) = cursor + 2
  <2>1. old \in Seq(Records) /\ Len(old) = Len(commands) + 1
    BY <1>1, TimelineType
  <2>2. new \in Seq(Records) /\ Len(new) = Len(commands') + 1
    BY <1>1, TimelineType
  <2> QED
    BY <1>1, <2>1, <2>2
<1>3. ASSUME NEW i \in 1 .. cursor + 1 PROVE new[i] = old[i]
  <2>1. i - 1 \in 0 .. cursor /\ i \in 1 .. Len(commands) + 1
        /\ i \in 1 .. Len(commands') + 1
    BY <1>1
  <2>2. VersionOf(commands', records', i - 1) = VersionOf(commands, records, i - 1)
    BY <2>1, RenameKeepsPast
  <2> QED
    BY <2>1, <2>2 DEF TimelineOf
<1>4. new[cursor + 2] = records'
  <2>1. records' = VersionOf(commands', records', cursor')
    BY ShowsPositionNext
  <2>2. cursor + 2 \in 1 .. Len(commands') + 1
    BY <1>1
  <2>3. \A i \in 1 .. Len(commands') + 1 :
           new[i] = VersionOf(commands', records', i - 1)
    BY TimelineAt
  <2> HIDE DEF new
  <2>4. new[cursor + 2] = VersionOf(commands', records', (cursor + 2) - 1)
    BY <2>2, <2>3
  <2>5. (cursor + 2) - 1 = cursor'
    BY <1>1
  <2>6. new[cursor + 2] = VersionOf(commands', records', cursor')
    BY <2>4, <2>5
  <2> QED
    BY <2>1, <2>6
<1> HIDE DEF old, new
<1>5. cut \in Seq(Records) /\ Len(cut) = cursor + 1
      /\ \A i \in 1 .. cursor + 1 : cut[i] = old[i]
  BY <1>1, <1>2
<1> HIDE DEF cut
<1>6. new = Append(cut, records')
  <2> DEFINE app == Append(cut, records')
  <2>1. app \in Seq(Records) /\ Len(app) = cursor + 2
        /\ app[cursor + 2] = records'
        /\ \A i \in 1 .. cursor + 1 : app[i] = cut[i]
    BY <1>1, <1>5
  <2> HIDE DEF app
  <2>2. \A i \in 1 .. cursor + 2 : app[i] = new[i]
    <3>1. \A i \in 1 .. cursor + 2 : i \in 1 .. cursor + 1 \/ i = cursor + 2
      BY <1>1
    <3> QED
      BY <1>3, <1>4, <1>5, <2>1, <3>1
  <2>3. app = new
    BY <1>1, <1>2, <2>1, <2>2
  <2> QED
    BY <2>3 DEF app
<1> QED
  BY <1>6 DEF old, new, cut

(***************************************************************************)
(* The commands of CommandHistory, each of which knows one symbol, are a   *)
(* correct undo history: the session behaves like EditTimeline, where undo *)
(* and redo move between complete versions and an edit forgets only the    *)
(* versions that were undone.                                              *)
(***************************************************************************)
THEOREM SessionImplementsTimeline == SessionSpec => ImplementsTimeline
<1> DEFINE tl  == [i \in 1 .. Len(commands) + 1 |-> VersionAt(i - 1)]
           pos == cursor + 1
<1>a. tl = TimelineOf(commands, records)
  BY DEF TimelineOf, VersionOf, VersionAt
<1>b. tl' = TimelineOf(commands', records')
  BY DEF TimelineOf, VersionOf, VersionAt
<1>c. Unnamed \in Records
  BY DEF Unnamed, Records
<1>1. SessionInit => Timeline!TimelineInit
  <2> SUFFICES ASSUME SessionInit PROVE Timeline!TimelineInit
    OBVIOUS
  <2>1. tl = <<Unnamed>> /\ pos = 1
    BY <1>a, <1>c, FreshTimeline DEF SessionInit
  <2> QED
    BY <1>c, <2>1 DEF Timeline!TimelineInit
<1>2. ASSUME SessionInv, SessionInv', [SessionNext]_sessionVars
      PROVE  [Timeline!TimelineNext]_(Timeline!timelineVars)
  <2> HIDE DEF tl
  <2>0. /\ records \in Records /\ commands \in Seq(Commands)
        /\ cursor \in 0 .. Len(commands) /\ records' \in Records
        /\ tl \in Seq(Records) /\ Len(tl) = Len(commands) + 1
    <3>1. /\ records \in Records /\ commands \in Seq(Commands)
          /\ cursor \in 0 .. Len(commands) /\ records' \in Records
      BY <1>2 DEF SessionInv, SessionTypeOK
    <3> QED
      BY <1>a, <3>1, TimelineType
  <2>1. ASSUME NEW r \in Records, commands' = <<>>, cursor' = 0, records' = r
        PROVE  Timeline!Open(r)
    <3>1. tl' = <<r>> /\ pos' = 1
      BY <1>b, <2>1, FreshTimeline
    <3> QED
      BY <3>1 DEF Timeline!Open, tl
  <2>2. CASE \E a \in Archives :
               \/ Activate(a, Nothing, Unnamed)
               \/ \E p \in Paths, r \in Records : Activate(a, p, r)
    BY <1>c, <2>1, <2>2 DEF Activate, Timeline!TimelineNext
  <2>3. CASE CloseSession
    BY <1>c, <2>1, <2>3 DEF CloseSession, Timeline!TimelineNext
  <2>4. CASE \E k \in Symbols, alias \in Aliases \cup {Nothing} : Rename(k, alias)
    <3>1. PICK k \in Symbols, alias \in Aliases \cup {Nothing} : Rename(k, alias)
      BY <2>4
    <3>2. tl' = Append(SubSeq(tl, 1, pos), records')
      BY <1>2, <1>a, <1>b, <3>1, RenameAppends
    <3>3. pos' = pos + 1
      BY <2>0, <3>1 DEF Rename
    <3>4. Timeline!Edit(records')
      BY <3>2, <3>3 DEF Timeline!Edit, tl
    <3> QED
      BY <2>0, <3>4 DEF Timeline!TimelineNext
  <2>5. CASE Undo
    <3>1. cursor \in 1 .. Len(commands) /\ commands' = commands /\ cursor' = cursor - 1
      BY <2>0, <2>5 DEF Undo
    <3>2. \A s \in Symbols : s # commands[cursor].key => records'[s] = records[s]
      BY <2>0, <2>5 DEF Undo, Records
    <3>3. tl' = tl
      BY <1>a, <1>b, <2>0, <3>1, <3>2, SameTimeline
    <3>4. pos > 1 /\ pos' = pos - 1
      BY <3>1
    <3>5. Timeline!Back
      BY <3>3, <3>4 DEF Timeline!Back, tl
    <3> QED
      BY <3>5 DEF Timeline!TimelineNext
  <2>6. CASE Redo
    <3>1. cursor + 1 \in 1 .. Len(commands) /\ commands' = commands
          /\ cursor' = cursor + 1
      BY <2>0, <2>6 DEF Redo
    <3>2. \A s \in Symbols : s # commands[cursor + 1].key => records'[s] = records[s]
      BY <2>0, <2>6 DEF Redo, Records
    <3>3. tl' = tl
      BY <1>a, <1>b, <2>0, <3>1, <3>2, SameTimeline
    <3>4. pos < Len(tl) /\ pos' = pos + 1
      BY <2>0, <3>1
    <3>5. Timeline!Forward
      BY <3>3, <3>4 DEF Timeline!Forward, tl
    <3> QED
      BY <3>5 DEF Timeline!TimelineNext
  <2>7. CASE (\E p \in Paths : MarkSaved(p)) \/ UNCHANGED sessionVars
    <3>1. commands' = commands /\ cursor' = cursor /\ records' = records
      BY <2>7 DEF MarkSaved, sessionVars
    <3>2. tl' = tl /\ pos' = pos
      BY <1>a, <1>b, <3>1
    <3> QED
      BY <3>2 DEF Timeline!timelineVars, tl
  <2> QED
    BY <1>2, <2>2, <2>3, <2>4, <2>5, <2>6, <2>7 DEF SessionNext
<1>3. SessionSpec => []SessionInv
  BY InitInv, SessionNextInv, PTL DEF SessionSpec
<1> QED
  BY <1>1, <1>2, <1>3, PTL DEF SessionSpec, ImplementsTimeline, Timeline!TimelineSpec
=============================================================================
