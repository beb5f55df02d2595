-------------------------- MODULE ProjectSession --------------------------
(***************************************************************************)
(* The project a user edits (dexdec-gui, domain/projectSession.ts):        *)
(* ProjectSession with its CommandHistory.  The renames of the open        *)
(* archive are kept in memory, each edit is a command that can be undone   *)
(* and redone, and the session knows whether it differs from its save      *)
(* point.                                                                  *)
(*                                                                         *)
(* A symbol is one RenameIdentity.key.  The alias of a symbol that is not  *)
(* renamed is Nothing, both for a missing record and for the null of a     *)
(* command; renaming a symbol to its original name asks for Nothing.  A    *)
(* signature is the set of records it serialises, so comparing signatures  *)
(* is comparing records.                                                   *)
(***************************************************************************)
EXTENDS Naturals, Sequences

CONSTANTS
  Archives,       \* paths of archives
  Paths,          \* paths of dexdb files
  Symbols,
  Aliases,
  Nothing,        \* null
  MaxCommands     \* bound: the longest history explored

ASSUME SessionAssumption ==
  /\ Nothing \notin Archives \cup Paths \cup Aliases
  /\ MaxCommands \in Nat

VARIABLES
  archivePath,    \* ProjectSession.archivePathValue
  databasePath,   \* ProjectSession.databasePathValue
  records,        \* recordsByKey: the alias of each symbol
  commands,       \* CommandHistory.commands
  cursor,         \* CommandHistory.cursor
  saved           \* savedSignature: the records at the save point

sessionVars == <<archivePath, databasePath, records, commands, cursor, saved>>

Records  == [Symbols -> Aliases \cup {Nothing}]
Commands == [key : Symbols, before : Aliases \cup {Nothing},
             after : Aliases \cup {Nothing}]
Unnamed  == [k \in Symbols |-> Nothing]
IsOpen   == archivePath # Nothing

\* get dirty
Dirty == IsOpen /\ records # saved

SessionInit ==
  /\ archivePath = Nothing
  /\ databasePath = Nothing
  /\ records = Unnamed
  /\ commands = <<>>
  /\ cursor = 0
  /\ saved = Unnamed

\* Mutant: clear empties the history and keeps the cursor.
ActivateKeepsCursor(a, p, r) ==
  /\ archivePath' = a
  /\ databasePath' = p
  /\ records' = r
  /\ commands' = <<>>
  /\ saved' = r
  /\ UNCHANGED cursor

\* activate: for an archive the path is Nothing and the records are empty,
\* for a snapshot they come from the dexdb file.
Activate(a, p, r) ==
  /\ archivePath' = a
  /\ databasePath' = p
  /\ records' = r
  /\ commands' = <<>>
  /\ cursor' = 0
  /\ saved' = r

CloseSession ==
  /\ archivePath' = Nothing
  /\ databasePath' = Nothing
  /\ records' = Unnamed
  /\ commands' = <<>>
  /\ cursor' = 0
  /\ saved' = Unnamed

\* Mutant: execute keeps the commands that were undone.
RenameKeepsUndone(k, alias) ==
  /\ records[k] # alias
  /\ Len(commands) < MaxCommands
  /\ commands' = Append(commands, [key |-> k, before |-> records[k], after |-> alias])
  /\ cursor' = Len(commands')
  /\ records' = [records EXCEPT ![k] = alias]
  /\ UNCHANGED <<archivePath, databasePath, saved>>

\* Mutant: execute drops the commands that were done as well.
RenameDropsAll(k, alias) ==
  /\ records[k] # alias
  /\ cursor < MaxCommands
  /\ commands' = <<[key |-> k, before |-> records[k], after |-> alias]>>
  /\ cursor' = 1
  /\ records' = [records EXCEPT ![k] = alias]
  /\ UNCHANGED <<archivePath, databasePath, saved>>

\* rename, when it returns true: execute drops the commands that were undone.
Rename(k, alias) ==
  /\ records[k] # alias
  /\ cursor < MaxCommands
  /\ commands' = Append(SubSeq(commands, 1, cursor),
                        [key |-> k, before |-> records[k], after |-> alias])
  /\ cursor' = cursor + 1
  /\ records' = [records EXCEPT ![k] = alias]
  /\ UNCHANGED <<archivePath, databasePath, saved>>

Undo ==
  /\ cursor > 0
  /\ records' = [records EXCEPT ![commands[cursor].key] = commands[cursor].before]
  /\ cursor' = cursor - 1
  /\ UNCHANGED <<archivePath, databasePath, commands, saved>>

Redo ==
  /\ cursor < Len(commands)
  /\ records' = [records EXCEPT ![commands[cursor + 1].key] = commands[cursor + 1].after]
  /\ cursor' = cursor + 1
  /\ UNCHANGED <<archivePath, databasePath, commands, saved>>

\* Mutant: a save under a new path leaves the path as it was.
MarkSavedKeepsPath(p) ==
  /\ saved' = records
  /\ UNCHANGED <<archivePath, databasePath, records, commands, cursor>>

\* The save point is the content at the moment of the call.
MarkSaved(p) ==
  /\ databasePath' = p
  /\ saved' = records
  /\ UNCHANGED <<archivePath, records, commands, cursor>>

SessionNext ==
  \/ \E a \in Archives :
        \/ Activate(a, Nothing, Unnamed)
        \/ \E p \in Paths, r \in Records : Activate(a, p, r)
  \/ CloseSession
  \* The workspace renames only while an archive is open.
  \/ IsOpen /\ \E k \in Symbols, alias \in Aliases \cup {Nothing} : Rename(k, alias)
  \/ Undo
  \/ Redo
  \* A save that is answered late marks even a closed session.
  \/ \E p \in Paths : MarkSaved(p)

SessionSpec == SessionInit /\ [][SessionNext]_sessionVars

-----------------------------------------------------------------------------
SessionTypeOK ==
  /\ archivePath \in Archives \cup {Nothing}
  /\ databasePath \in Paths \cup {Nothing}
  /\ records \in Records
  /\ commands \in Seq(Commands)
  /\ cursor \in 0 .. Len(commands)
  /\ saved \in Records

\* Command j is the first one after i that touches the symbol of i.
Follows(i, j) ==
  /\ i < j
  /\ commands[j].key = commands[i].key
  /\ \A m \in i + 1 .. j - 1 : commands[m].key # commands[i].key

(***************************************************************************)
(* The commands fit together and fit the records: whatever was renamed,    *)
(* undone, renamed again or loaded, each command starts where the one      *)
(* before it on the same symbol ended, the last one done on a symbol wrote *)
(* what the record holds, and the first one undone on it would be redone   *)
(* from there.  An execute that kept an undone command would break it.     *)
(***************************************************************************)
HistoryFits ==
  /\ \A i, j \in 1 .. Len(commands) :
        Follows(i, j) => commands[i].after = commands[j].before
  /\ \A i \in 1 .. cursor :
        (\A m \in i + 1 .. cursor : commands[m].key # commands[i].key)
          => records[commands[i].key] = commands[i].after
  /\ \A j \in cursor + 1 .. Len(commands) :
        (\A m \in cursor + 1 .. j - 1 : commands[m].key # commands[j].key)
          => records[commands[j].key] = commands[j].before

\* The commands of cs on symbol k among those from first to last.
Touching(cs, k, first, last) == {i \in first .. last : cs[i].key = k}

Earliest(I) == CHOOSE i \in I : \A j \in I : i <= j
Latest(I)   == CHOOSE i \in I : \A j \in I : j <= i

\* The alias of symbol k after the first n commands of cs, read off the
\* commands, for a symbol that no command touches off the records r.
AliasAt(cs, r, n, k) ==
  LET past   == Touching(cs, k, 1, n)
      future == Touching(cs, k, n + 1, Len(cs))
  IN IF past # {} THEN cs[Latest(past)].after
     ELSE IF future # {} THEN cs[Earliest(future)].before
     ELSE r[k]

VersionAt(n) == [k \in Symbols |-> AliasAt(commands, records, n, k)]

(***************************************************************************)
(* The history of commands, each of which knows one symbol, is as good as  *)
(* a timeline of complete versions: undo returns exactly to the content    *)
(* before the last edit, redo to the one after it, and an edit forgets the *)
(* future and nothing else.                                                *)
(***************************************************************************)
Timeline == INSTANCE EditTimeline WITH
  Versions <- Records,
  timeline <- [i \in 1 .. Len(commands) + 1 |-> VersionAt(i - 1)],
  position <- cursor + 1

ImplementsTimeline == Timeline!TimelineSpec

=============================================================================
