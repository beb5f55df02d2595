-------------------------- MODULE McpServerProofs --------------------------
(***************************************************************************)
(* Proofs about UiContextBridge and McpServer above it, for any instances, *)
(* ports, calls and snapshots.  On top of the types (BridgeTypeOK) stand   *)
(* three invariants of the bridge: of the snapshots of an instance         *)
(* (PublishedInv), of the calls and the lines they wait in (ExchangeInv),  *)
(* and of the file by which an instance is found (RegistryInv); and one of *)
(* the server, of what a call knows at each of its stages (ServerInv).     *)
(***************************************************************************)
EXTENDS McpServer, SequenceTheorems, WellFoundedInduction, TLAPS

\* The steps of the bridge and of its clients.
BridgeNext ==
  BridgeStep \/ \E c \in Calls, what \in {"context", "navigate"} : Ask(c, what)

LEMMA StepsOfBridge == Next => BridgeNext \/ UNCHANGED bridgeVars
BY DEF Next, BridgeNext, Call, CallStep, Follow, LookForProject, OpenProject,
       DecompileActive, OpenPath, CloseProject

LEMMA SnapshotFields ==
  ASSUME NEW i, NEW r
  PROVE  /\ Snapshot(i, r).by = i /\ Snapshot(i, r).revision = r
         /\ i \in Instances /\ r \in 1 .. Len(Views) => Snapshot(i, r) \in Snapshots
BY DEF Snapshot, Snapshots

\* A snapshot has a revision that has been counted.
LEMMA SnapshotRevision ==
  ASSUME NEW m \in Snapshots PROVE m.revision \in Nat /\ m.by \in Instances
BY BridgeAssumption DEF Snapshots, Snapshot

-----------------------------------------------------------------------------
(* Types.                                                                  *)

LEMMA BridgeTypesInit == BridgeInit => BridgeTypeOK
<1> SUFFICES ASSUME BridgeInit PROVE BridgeTypeOK
  OBVIOUS
<1>1. FileTypeOK /\ ClientTypeOK
  BY DEF BridgeInit, FileTypeOK, ClientTypeOK
<1>4. ServeTypeOK
  <2>1. backlog \in [Instances -> Seq(Calls)]
    BY DEF BridgeInit
  <2>2. worker \in [Instances -> Calls \cup {"none", "loop", "exited"}]
    BY DEF BridgeInit
  <2>3. navigated \in [Calls -> [Instances -> Nat]]
    BY DEF BridgeInit
  <2> QED BY <2>1, <2>2, <2>3 DEF ServeTypeOK
<1>2. DeskTypeOK
  BY BridgeAssumption DEF BridgeInit, DeskTypeOK
<1>3. OnePortEach
  BY DEF BridgeInit, OnePortEach, Listening
<1> QED BY <1>1, <1>2, <1>3, <1>4 DEF BridgeTypeOK

LEMMA FileTypes ==
  ASSUME BridgeTypeOK, BridgeNext PROVE FileTypeOK'
<1> USE DEF BridgeTypeOK, FileTypeOK, deskVars, serveVars, clientVars, fileVars
<1>1. ASSUME NEW i \in Instances, InstanceStep(i) PROVE FileTypeOK'
  BY <1>1 DEF InstanceStep, Start, Register, Stop, Die, AcceptFails
<1>2. ASSUME NEW i \in Instances, WorkspaceStep(i) PROVE FileTypeOK'
  BY <1>2 DEF WorkspaceStep, Build, Publish
<1>3. ASSUME NEW i \in Instances, EndStep(i) PROVE FileTypeOK'
  BY <1>3 DEF EndStep, Joined, RemoveOwn, Exit, Accept, Handle
<1>4. ASSUME NEW c \in Calls, ExchangeStep(c) PROVE FileTypeOK'
  BY <1>4 DEF ExchangeStep, ReadRegistry, Connect, GiveUp
<1>5. ASSUME NEW c \in Calls, NEW what, Ask(c, what) PROVE FileTypeOK'
  BY <1>5 DEF Ask
<1> QED BY <1>1, <1>2, <1>3, <1>4, <1>5 DEF BridgeNext, BridgeStep

LEMMA DeskTypes ==
  ASSUME BridgeTypeOK, BridgeNext PROVE DeskTypeOK'
<1> USE DEF BridgeTypeOK, DeskTypeOK, deskVars, serveVars, clientVars, fileVars, Become
<1>1. ASSUME NEW i \in Instances, Start(i) \/ Register(i) \/ Stop(i) PROVE DeskTypeOK'
  BY <1>1 DEF Start, Register, Stop
<1>2. ASSUME NEW i \in Instances, Gone(i), life' \in [Instances -> {"removing", "ended",
             "new", "replacing", "serving", "stopping"}], UNCHANGED port
      PROVE  DeskTypeOK'
  <2>1. 0 <= MaxRevision[i]
    BY BridgeAssumption
  <2> QED BY <1>2, <2>1 DEF Gone
<1>3. ASSUME NEW i \in Instances, Die(i) \/ Joined(i) PROVE DeskTypeOK'
  BY <1>2, <1>3 DEF Die, Joined
<1>4. ASSUME NEW i \in Instances, Build(i) PROVE DeskTypeOK'
  <2>0. built[i] \in Nat /\ MaxRevision[i] \in 0 .. Len(Views) /\ Len(Views) \in Nat
    BY BridgeAssumption
  <2>a. built' = [built EXCEPT ![i] = built[i] + 1] /\ built[i] < MaxRevision[i]
    BY <1>4 DEF Build
  <2>b. built'[i] = built[i] + 1
    BY <2>a
  <2>1. built'[i] \in 1 .. Len(Views) /\ built'[i] <= MaxRevision[i]
    BY <2>0, <2>a, <2>b
  <2>2. mail' \in [Instances -> SUBSET Snapshots]
    <3>1. Snapshot(i, built'[i]) \in Snapshots
      BY <2>1 DEF Snapshots
    <3> QED BY <1>4, <3>1 DEF Build
  <2>3. built' \in [Instances -> Nat] /\ \A j \in Instances : built'[j] <= MaxRevision[j]
    BY <1>4, <2>1 DEF Build
  <2> QED BY <1>4, <2>2, <2>3 DEF Build
<1>5. ASSUME NEW i \in Instances, NEW m \in mail[i], Publish(i, m) PROVE DeskTypeOK'
  BY <1>5 DEF Publish
<1>6. ASSUME NEW i \in Instances, RemoveOwn(i) PROVE DeskTypeOK'
  BY <1>6 DEF RemoveOwn
<1>7. ASSUME NEW i \in Instances,
             Exit(i) \/ AcceptFails(i) \/ Accept(i) \/ \E c \in Calls : Handle(i, c)
      PROVE  DeskTypeOK'
  BY <1>7 DEF Exit, AcceptFails, Accept, Handle
<1>8. ASSUME NEW c \in Calls, ExchangeStep(c) \/ \E what \in {"context", "navigate"} : Ask(c, what)
      PROVE  DeskTypeOK'
  BY <1>8 DEF ExchangeStep, ReadRegistry, Connect, GiveUp, Ask
<1> QED
  BY <1>1, <1>3, <1>4, <1>5, <1>6, <1>7, <1>8
  DEF BridgeNext, BridgeStep, InstanceStep, WorkspaceStep, EndStep

LEMMA GoneTypes ==
  ASSUME ServeTypeOK, NEW i \in Instances, Gone(i), UNCHANGED navigated PROVE ServeTypeOK'
<1>1. backlog' \in [Instances -> Seq(Calls)]
  <2>1. <<>> \in Seq(Calls)
    OBVIOUS
  <2> QED BY <2>1 DEF Gone, ServeTypeOK
<1>2. worker' \in [Instances -> Calls \cup {"none", "loop", "exited"}]
  BY DEF Gone, ServeTypeOK
<1> QED BY <1>1, <1>2 DEF ServeTypeOK

LEMMA ServeTypes ==
  ASSUME BridgeTypeOK, BridgeNext PROVE ServeTypeOK'
<1> USE DEF BridgeTypeOK, ServeTypeOK, deskVars, serveVars, clientVars, fileVars
<1>1. ASSUME NEW i \in Instances, InstanceStep(i) PROVE ServeTypeOK'
  <2>1. CASE Start(i) \/ Stop(i)
    BY <2>1 DEF Start, Stop
  <2>2. CASE Register(i)
    BY <2>2 DEF Register
  <2>3. CASE Die(i)
    BY <2>3, GoneTypes DEF Die
  <2>4. CASE AcceptFails(i)
    BY <2>4 DEF AcceptFails
  <2> QED BY <1>1, <2>1, <2>2, <2>3, <2>4 DEF InstanceStep
<1>2. ASSUME NEW i \in Instances, WorkspaceStep(i) PROVE ServeTypeOK'
  BY <1>2 DEF WorkspaceStep, Build, Publish
<1>3. ASSUME NEW i \in Instances, Joined(i) \/ RemoveOwn(i) \/ Exit(i) PROVE ServeTypeOK'
  <2>1. CASE Joined(i)
    BY <2>1, GoneTypes DEF Joined
  <2>2. CASE RemoveOwn(i) \/ Exit(i)
    BY <2>2 DEF RemoveOwn, Exit
  <2> QED BY <1>3, <2>1, <2>2
<1>4. ASSUME NEW i \in Instances, Accept(i) PROVE ServeTypeOK'
  <2>1. Head(backlog[i]) \in Calls /\ Tail(backlog[i]) \in Seq(Calls)
    BY <1>4 DEF Accept
  <2> QED BY <1>4, <2>1 DEF Accept
<1>5. ASSUME NEW i \in Instances, NEW c \in Calls, Handle(i, c) PROVE ServeTypeOK'
  <2>1. navigated' \in [Calls -> [Instances -> Nat]]
    <3>1. CASE UNCHANGED navigated
      BY <3>1
    <3>2. CASE Navigate(i, c)
      <4>1. navigated[c] \in [Instances -> Nat] /\ navigated[c][i] \in Nat
        OBVIOUS
      <4>2. [navigated[c] EXCEPT ![i] = navigated[c][i] + 1] \in [Instances -> Nat]
        BY <4>1
      <4>3. navigated' = [navigated EXCEPT ![c] =
                            [navigated[c] EXCEPT ![i] = navigated[c][i] + 1]]
        BY <3>2 DEF Navigate
      <4> QED BY <4>2, <4>3
    <3> QED BY <1>5, <3>1, <3>2 DEF Handle
  <2>2. backlog' = backlog /\ worker' = [worker EXCEPT ![i] = "loop"]
    BY <1>5 DEF Handle
  <2> QED BY <2>1, <2>2
<1>6. ASSUME NEW c \in Calls, Connect(c) PROVE ServeTypeOK'
  <2>1. UNCHANGED <<worker, navigated>>
    BY <1>6 DEF Connect
  <2>2. CASE UNCHANGED backlog
    BY <2>1, <2>2
  <2>3. ASSUME NEW i \in Instances, backlog' = [backlog EXCEPT ![i] = Append(@, c)]
        PROVE  ServeTypeOK'
    <3>1. Append(backlog[i], c) \in Seq(Calls)
      OBVIOUS
    <3>2. backlog' \in [Instances -> Seq(Calls)]
      BY <2>3, <3>1
    <3> QED BY <2>1, <3>2
  <2> QED BY <1>6, <2>2, <2>3 DEF Connect
<1>7. ASSUME NEW c \in Calls, ReadRegistry(c) \/ GiveUp(c)
             \/ \E what \in {"context", "navigate"} : Ask(c, what)
      PROVE  ServeTypeOK'
  BY <1>7 DEF ReadRegistry, GiveUp, Ask
<1> QED
  BY <1>1, <1>2, <1>3, <1>4, <1>5, <1>6, <1>7
  DEF BridgeNext, BridgeStep, EndStep, ExchangeStep

LEMMA ClientTypes ==
  ASSUME BridgeTypeOK, BridgeNext PROVE ClientTypeOK'
<1> USE DEF BridgeTypeOK, ClientTypeOK, deskVars, serveVars, clientVars, fileVars, Replies, Fail
<1>1. ASSUME NEW i \in Instances, InstanceStep(i) PROVE ClientTypeOK'
  BY <1>1 DEF InstanceStep, Start, Register, Stop, Die, AcceptFails
<1>2. ASSUME NEW i \in Instances, WorkspaceStep(i) PROVE ClientTypeOK'
  BY <1>2 DEF WorkspaceStep, Build, Publish
<1>3. ASSUME NEW i \in Instances, Joined(i) \/ RemoveOwn(i) \/ Exit(i) \/ Accept(i)
      PROVE  ClientTypeOK'
  BY <1>3 DEF Joined, RemoveOwn, Exit, Accept
<1>4. ASSUME NEW i \in Instances, NEW c \in Calls, Handle(i, c) PROVE ClientTypeOK'
  <2>1. PICK what \in {Failed, Accepted, context[i]} : Respond(c, what)
    BY <1>4 DEF Handle
  <2>2. what \in {Absent} \cup Replies
    BY DEF DeskTypeOK
  <2> QED BY <1>4, <2>1, <2>2 DEF Handle, Respond
<1>5. ASSUME NEW c \in Calls, ReadRegistry(c) PROVE ClientTypeOK'
  BY <1>5 DEF ReadRegistry, FileTypeOK
<1>6. ASSUME NEW c \in Calls, Connect(c) \/ GiveUp(c) PROVE ClientTypeOK'
  BY <1>6 DEF Connect, GiveUp
<1>7. ASSUME NEW c \in Calls, NEW what \in {"context", "navigate"}, Ask(c, what)
      PROVE  ClientTypeOK'
  BY <1>7 DEF Ask
<1> QED
  BY <1>1, <1>2, <1>3, <1>4, <1>5, <1>6, <1>7
  DEF BridgeNext, BridgeStep, EndStep, ExchangeStep

\* A listener begins on a port that is free, and keeps it.
LEMMA PortsStayOwn ==
  ASSUME BridgeTypeOK, BridgeNext PROVE OnePortEach'
<1> DEFINE Kept == UNCHANGED port /\ \A j \in Instances : Listening(j)' => Listening(j)
<1> USE DEF deskVars, serveVars, clientVars, fileVars, Become
<1>1. ASSUME NEW i \in Instances, Start(i) PROVE OnePortEach'
  BY <1>1 DEF Start, BridgeTypeOK, OnePortEach, Listening, DeskTypeOK
<1>2. ASSUME Kept PROVE OnePortEach'
  BY <1>2 DEF BridgeTypeOK, OnePortEach
<1> USE DEF BridgeTypeOK, DeskTypeOK, ServeTypeOK, Listening
<1>3. ASSUME NEW i \in Instances, Register(i) \/ Stop(i) PROVE Kept
  BY <1>3 DEF Register, Stop
<1>4. ASSUME NEW i \in Instances, Die(i) \/ Joined(i) \/ RemoveOwn(i) PROVE Kept
  BY <1>4 DEF Die, Joined, RemoveOwn, Gone
<1>5. ASSUME NEW i \in Instances, WorkspaceStep(i) PROVE Kept
  BY <1>5 DEF WorkspaceStep, Build, Publish
<1>6. ASSUME NEW i \in Instances,
             Exit(i) \/ AcceptFails(i) \/ Accept(i) \/ \E c \in Calls : Handle(i, c)
      PROVE  Kept
  <2>1. UNCHANGED <<life, port>>
    BY <1>6 DEF Exit, AcceptFails, Accept, Handle
  <2>2. ASSUME NEW to, worker[i] # "exited", worker' = [worker EXCEPT ![i] = to] PROVE Kept
    BY <2>1, <2>2
  <2>3. CASE Exit(i)
    BY <2>2, <2>3 DEF Exit
  <2>4. CASE Accept(i)
    BY <2>2, <2>4 DEF Accept
  <2>6. CASE AcceptFails(i)
    BY <2>2, <2>6 DEF AcceptFails
  <2>5. CASE \E c \in Calls : Handle(i, c)
    BY <2>2, <2>5, BridgeAssumption DEF Handle
  <2> HIDE DEF Kept
  <2> QED BY <1>6, <2>3, <2>4, <2>5, <2>6
<1>7. ASSUME NEW c \in Calls, ExchangeStep(c) \/ \E what \in {"context", "navigate"} : Ask(c, what)
      PROVE  Kept
  BY <1>7 DEF ExchangeStep, ReadRegistry, Connect, GiveUp, Ask
<1> HIDE DEF Kept
<1> QED
  BY <1>1, <1>2, <1>3, <1>4, <1>5, <1>6, <1>7
  DEF BridgeNext, BridgeStep, InstanceStep, EndStep

LEMMA BridgeTypesNext == BridgeTypeOK /\ BridgeNext => BridgeTypeOK'
BY FileTypes, DeskTypes, ServeTypes, ClientTypes, PortsStayOwn DEF BridgeTypeOK

LEMMA BridgeTypesStutter == BridgeTypeOK /\ UNCHANGED bridgeVars => BridgeTypeOK'
<1> SUFFICES ASSUME BridgeTypeOK, UNCHANGED bridgeVars PROVE BridgeTypeOK'
  OBVIOUS
<1> USE DEF bridgeVars, deskVars, serveVars, clientVars, fileVars
<1>1. FileTypeOK' /\ DeskTypeOK' /\ ServeTypeOK' /\ ClientTypeOK'
  BY DEF BridgeTypeOK, FileTypeOK, DeskTypeOK, ServeTypeOK, ClientTypeOK
<1>2. OnePortEach'
  BY DEF BridgeTypeOK, OnePortEach, Listening
<1> QED BY <1>1, <1>2 DEF BridgeTypeOK

-----------------------------------------------------------------------------
(* What an instance shows.                                                 *)

\* What is published by an instance, or on its way, was built by it.
SnapshotsAreOwn ==
  \A i \in Instances :
    /\ context[i] # Absent => context[i].by = i
    /\ \A m \in mail[i] : m.by = i

PublishedInv == SnapshotsAreOwn /\ NewestIsShown

LEMMA PublishedInit == BridgeInit => PublishedInv
BY DEF BridgeInit, PublishedInv, SnapshotsAreOwn, NewestIsShown

LEMMA PublishedCounts ==
  ASSUME DeskTypeOK, NEW i \in Instances PROVE Published(i) \in Nat
BY SnapshotRevision DEF DeskTypeOK, Published

\* The process is gone: it has built nothing.
LEMMA PublishedGone ==
  ASSUME BridgeTypeOK, PublishedInv, NEW i \in Instances, Gone(i) PROVE PublishedInv'
<1> USE DEF BridgeTypeOK, DeskTypeOK, Gone
<1>1. SnapshotsAreOwn'
  BY DEF PublishedInv, SnapshotsAreOwn
<1>2. ASSUME NEW j \in Instances, NEW r \in 1 .. built'[j],
             \A m \in mail'[j] : m.revision # r
      PROVE  Published(j)' >= r
  <2>1. j # i
    BY <1>2
  <2>2. built'[j] = built[j] /\ mail'[j] = mail[j] /\ context'[j] = context[j]
    BY <2>1
  <2> QED BY <1>2, <2>2 DEF PublishedInv, NewestIsShown, Published
<1>3. NewestIsShown'
  BY <1>2 DEF NewestIsShown
<1> QED BY <1>1, <1>3 DEF PublishedInv

LEMMA PublishedBuild ==
  ASSUME BridgeTypeOK, PublishedInv, NEW i \in Instances, Build(i) PROVE PublishedInv'
<1> DEFINE new == Snapshot(i, built[i] + 1)
<1> USE DEF BridgeTypeOK, DeskTypeOK
<1>1. /\ built' = [built EXCEPT ![i] = built[i] + 1] /\ context' = context
      /\ built'[i] = built[i] + 1
  BY DEF Build
<1>2. mail' = [mail EXCEPT ![i] = mail[i] \cup {new}]
  BY <1>1 DEF Build
<1>3. new.by = i /\ new.revision = built[i] + 1
  BY SnapshotFields
<1> HIDE DEF new
<1>4. SnapshotsAreOwn'
  BY <1>1, <1>2, <1>3 DEF PublishedInv, SnapshotsAreOwn
<1>5. ASSUME NEW j \in Instances, NEW r \in 1 .. built'[j],
             \A m \in mail'[j] : m.revision # r
      PROVE  Published(j)' >= r
  <2>1. \A m \in mail[j] : m.revision # r
    BY <1>2, <1>5
  <2>2. r \in 1 .. built[j]
    <3>1. CASE j = i
      <4>1. new \in mail'[i]
        BY <1>2
      <4>2. r # built[i] + 1
        BY <1>3, <1>5, <3>1, <4>1
      <4> QED BY <1>1, <3>1, <4>2
    <3>2. CASE j # i
      BY <1>1, <3>2
    <3> QED BY <3>1, <3>2
  <2> QED BY <1>1, <2>1, <2>2 DEF PublishedInv, NewestIsShown, Published
<1>6. NewestIsShown'
  BY <1>5 DEF NewestIsShown
<1> QED BY <1>4, <1>6 DEF PublishedInv

\* A snapshot arrives: what is shown is not older than it, nor than before.
LEMMA PublishedPublish ==
  ASSUME BridgeTypeOK, PublishedInv, NEW i \in Instances, NEW m \in mail[i], Publish(i, m)
  PROVE  PublishedInv'
<1> USE DEF BridgeTypeOK
<1>1. mail' = [mail EXCEPT ![i] = mail[i] \ {m}] /\ built' = built
  BY DEF Publish
<1>2. m \in Snapshots /\ m # Absent /\ m.revision \in Nat /\ m.by = i
  BY SnapshotRevision, BridgeAssumption DEF DeskTypeOK, PublishedInv, SnapshotsAreOwn
<1>3. Published(i) \in Nat
  BY PublishedCounts
<1>4. \/ UNCHANGED context /\ Published(i) >= m.revision
      \/ context' = [context EXCEPT ![i] = m] /\ Published(i) < m.revision
  BY DEF Publish
<1>5. \A j \in Instances \ {i} : context'[j] = context[j] /\ mail'[j] = mail[j]
  BY <1>1, <1>4 DEF DeskTypeOK
<1>6. /\ Published(i)' \in Nat
      /\ Published(i)' >= m.revision /\ Published(i)' >= Published(i)
      /\ context'[i] # Absent => context'[i] = context[i] \/ context'[i] = m
  <2>1. CASE UNCHANGED context /\ Published(i) >= m.revision
    BY <1>3, <2>1 DEF Published
  <2>2. CASE context' = [context EXCEPT ![i] = m] /\ Published(i) < m.revision
    <3>1. context'[i] = m /\ Published(i)' = m.revision
      BY <1>2, <2>2 DEF DeskTypeOK, Published
    <3> QED BY <1>2, <1>3, <2>2, <3>1
  <2> QED BY <1>4, <2>1, <2>2
<1>7. SnapshotsAreOwn'
  <2>1. \A n \in mail'[i] : n.by = i
    BY <1>1 DEF DeskTypeOK, PublishedInv, SnapshotsAreOwn
  <2>2. context'[i] # Absent => context'[i].by = i
    BY <1>2, <1>6 DEF PublishedInv, SnapshotsAreOwn
  <2> QED BY <1>5, <2>1, <2>2 DEF PublishedInv, SnapshotsAreOwn
<1>8. ASSUME NEW j \in Instances, NEW r \in 1 .. built[j],
             \A n \in mail'[j] : n.revision # r
      PROVE  Published(j)' >= r
  <2>1. CASE j # i
    BY <1>5, <1>8, <2>1 DEF PublishedInv, NewestIsShown, Published
  <2>2. CASE j = i /\ r = m.revision
    BY <1>6, <2>2
  <2>3. CASE j = i /\ r # m.revision
    <3>1. \A n \in mail[i] : n.revision # r
      BY <1>1, <1>8, <2>3 DEF DeskTypeOK
    <3>2. Published(i) >= r
      BY <2>3, <3>1 DEF PublishedInv, NewestIsShown
    <3> QED BY <1>3, <1>6, <2>3, <3>2
  <2> QED BY <2>1, <2>2, <2>3
<1>9. NewestIsShown'
  BY <1>1, <1>8 DEF NewestIsShown
<1> QED BY <1>7, <1>9 DEF PublishedInv

LEMMA PublishedNext ==
  ASSUME BridgeTypeOK, PublishedInv, BridgeNext \/ UNCHANGED bridgeVars PROVE PublishedInv'
<1> USE DEF bridgeVars, deskVars
<1>1. ASSUME UNCHANGED <<context, built, mail>> PROVE PublishedInv'
  BY <1>1 DEF PublishedInv, SnapshotsAreOwn, NewestIsShown, Published
<1>2. ASSUME NEW i \in Instances, InstanceStep(i) PROVE PublishedInv'
  BY <1>1, <1>2, PublishedGone DEF InstanceStep, Start, Register, Stop, Die, AcceptFails
<1>3. ASSUME NEW i \in Instances, WorkspaceStep(i) PROVE PublishedInv'
  BY <1>3, PublishedBuild, PublishedPublish DEF WorkspaceStep
<1>4. ASSUME NEW i \in Instances, EndStep(i) PROVE PublishedInv'
  BY <1>1, <1>4, PublishedGone DEF EndStep, Joined, RemoveOwn, Exit, Accept, Handle
<1>5. ASSUME NEW c \in Calls, ExchangeStep(c) \/ \E what \in {"context", "navigate"} : Ask(c, what)
      PROVE  PublishedInv'
  BY <1>1, <1>5 DEF ExchangeStep, ReadRegistry, Connect, GiveUp, Ask
<1> QED BY <1>1, <1>2, <1>3, <1>4, <1>5 DEF BridgeNext, BridgeStep

(***************************************************************************)
(* publish_ui_context may be called in any order: what an instance shows   *)
(* is the newest of the snapshots that have reached it.                    *)
(***************************************************************************)
THEOREM ShownSafety == Spec => []NewestIsShown
<1>1. Init => BridgeTypeOK /\ PublishedInv
  BY BridgeTypesInit, PublishedInit DEF Init
<1>2. BridgeTypeOK /\ PublishedInv /\ [Next]_vars => (BridgeTypeOK /\ PublishedInv)'
  <2>1. [Next]_vars => BridgeNext \/ UNCHANGED bridgeVars
    BY StepsOfBridge DEF vars
  <2> QED BY <2>1, BridgeTypesNext, BridgeTypesStutter, PublishedNext
<1>3. BridgeTypeOK /\ PublishedInv => NewestIsShown
  BY DEF PublishedInv
<1> QED BY <1>1, <1>2, <1>3, PTL DEF Spec

-----------------------------------------------------------------------------
(* What a client is answered, and what it has moved.                       *)

\* The line of an instance: the call its thread serves, then those that wait.
Place(i, n) == IF n = 0 THEN worker[i] ELSE backlog[i][n]
Places(i) == 0 .. Len(backlog[i])
InLine(c) == \E i \in Instances : \E n \in Places(i) : Place(i, n) = c

\* No call is in line twice.
PlacedOnce ==
  \A i, j \in Instances : \A n \in Places(i), m \in Places(j) :
    Place(i, n) = Place(j, m) /\ Place(i, n) \in Calls => i = j /\ n = m

\* Nothing has happened to a call before it is in line; while it is, it may
\* have been given up, but has moved nothing.
Pending(c) ==
  /\ step[c] \in {"idle", "begun", "found"} =>
       ~InLine(c) /\ answer[c] = Absent /\ \A i \in Instances : navigated[c][i] = 0
  /\ InLine(c) => answer[c] # Accepted /\ \A i \in Instances : navigated[c][i] = 0

\* It is served by the instance that the registry has named, once.
Served(c) ==
  /\ answer[c] \in Snapshots => answer[c].by = entry[c]
  /\ \A i \in Instances : navigated[c][i] > 0 => i = entry[c]
  /\ \A i \in Instances : navigated[c][i] <= 1
  /\ answer[c] = Accepted => entry[c] \in Instances /\ navigated[c][entry[c]] = 1

ExchangeInv == PlacedOnce /\ \A c \in Calls : Pending(c) /\ Served(c)

LEMMA ExchangeInit == BridgeInit => ExchangeInv
<1> SUFFICES ASSUME BridgeInit PROVE ExchangeInv
  OBVIOUS
<1>1. ASSUME NEW i \in Instances PROVE Places(i) = {0} /\ Place(i, 0) \notin Calls
  <2>1. worker[i] = "none" /\ backlog[i] = <<>>
    BY DEF BridgeInit
  <2> QED BY <2>1, BridgeAssumption DEF Places, Place
<1>2. PlacedOnce /\ \A c \in Calls : ~InLine(c)
  BY <1>1 DEF PlacedOnce, InLine
<1>3. \A c \in Calls : answer[c] = Absent /\ \A i \in Instances : navigated[c][i] = 0
  BY DEF BridgeInit
<1>4. Absent # Accepted /\ Absent \notin Snapshots
  BY BridgeAssumption
<1>5. \A c \in Calls : Served(c)
  BY <1>3, <1>4 DEF Served
<1> QED BY <1>2, <1>3, <1>4, <1>5 DEF ExchangeInv, Pending

\* The line of each instance goes on, or stays, or is gone.
LineShrinks ==
  \A i \in Instances : \E d \in {0, 1} : \A n \in Places(i)' :
    Place(i, n)' \in Calls => n + d \in Places(i) /\ Place(i, n)' = Place(i, n + d)

LEMMA ShrinkKeeps ==
  ASSUME ServeTypeOK, ServeTypeOK', PlacedOnce, LineShrinks
  PROVE  PlacedOnce' /\ \A c \in Calls : InLine(c)' => InLine(c)
<1>1. \A i \in Instances : Places(i)' \subseteq Nat
  BY DEF Places, ServeTypeOK
<1>2. \A c \in Calls : InLine(c)' => InLine(c)
  BY DEF InLine, LineShrinks
<1>3. ASSUME NEW i \in Instances, NEW j \in Instances, NEW n \in Places(i)', NEW m \in Places(j)',
             Place(i, n)' = Place(j, m)', Place(i, n)' \in Calls
      PROVE  i = j /\ n = m
  <2>1. CASE i = j
    <3>1. PICK d \in {0, 1} : \A k \in Places(i)' :
            Place(i, k)' \in Calls => k + d \in Places(i) /\ Place(i, k)' = Place(i, k + d)
      BY DEF LineShrinks
    <3>2. n + d = m + d
      BY <1>3, <2>1, <3>1 DEF PlacedOnce
    <3> QED BY <1>1, <2>1, <3>2
  <2>2. CASE i # j
    <3>1. PICK d \in {0, 1} : n + d \in Places(i) /\ Place(i, n)' = Place(i, n + d)
      BY <1>3 DEF LineShrinks
    <3>2. PICK e \in {0, 1} : m + e \in Places(j) /\ Place(j, m)' = Place(j, m + e)
      BY <1>3 DEF LineShrinks
    <3> QED BY <1>3, <2>2, <3>1, <3>2 DEF PlacedOnce
  <2> QED BY <2>1, <2>2
<1>4. PlacedOnce'
  BY <1>3 DEF PlacedOnce
<1> QED BY <1>2, <1>4

LEMMA SameLine == UNCHANGED <<backlog, worker>> => LineShrinks
<1> SUFFICES ASSUME UNCHANGED <<backlog, worker>>, NEW i \in Instances
             PROVE  \A n \in Places(i)' : Place(i, n)' \in Calls =>
                      n + 0 \in Places(i) /\ Place(i, n)' = Place(i, n + 0)
  BY DEF LineShrinks
<1>1. \A n \in Places(i)' : n + 0 = n
  BY DEF Places
<1> QED BY <1>1 DEF Places, Place

\* The thread of i is at something that is no call.
LEMMA ThreadMoves ==
  ASSUME ServeTypeOK, NEW i \in Instances, NEW to, to \notin Calls,
         worker' = [worker EXCEPT ![i] = to],
         backlog' = backlog \/ backlog' = [backlog EXCEPT ![i] = <<>>]
  PROVE  LineShrinks /\ \A n \in Places(i)' : Place(i, n)' \in Calls => n # 0
<1>1. worker'[i] = to /\ \A j \in Instances \ {i} : worker'[j] = worker[j] /\ backlog'[j] = backlog[j]
  BY DEF ServeTypeOK
<1>2. backlog'[i] = backlog[i] \/ backlog'[i] = <<>>
  BY DEF ServeTypeOK
<1>3. ASSUME NEW j \in Instances, NEW n \in Places(j)', Place(j, n)' \in Calls
      PROVE  n + 0 = n /\ n \in Places(j) /\ Place(j, n)' = Place(j, n)
  <2>1. n \in Nat /\ n + 0 = n
    BY <1>1, <1>2 DEF Places, ServeTypeOK
  <2>2. CASE j = i
    BY <1>1, <1>2, <1>3, <2>1, <2>2 DEF Places, Place
  <2>3. CASE j # i
    BY <1>1, <2>1, <2>3 DEF Places, Place
  <2> QED BY <2>1, <2>2, <2>3
<1>4. LineShrinks
  BY <1>3 DEF LineShrinks
<1> QED BY <1>1, <1>4 DEF Place

LEMMA AcceptShrinks ==
  ASSUME ServeTypeOK, NEW i \in Instances, Accept(i) PROVE LineShrinks
<1>1. /\ worker' = [worker EXCEPT ![i] = Head(backlog[i])]
      /\ backlog' = [backlog EXCEPT ![i] = Tail(backlog[i])]
      /\ backlog[i] # <<>> /\ backlog[i] \in Seq(Calls)
  BY DEF Accept, ServeTypeOK
<1>2. /\ Len(Tail(backlog[i])) = Len(backlog[i]) - 1
      /\ Len(backlog[i]) \in Nat \ {0} /\ Head(backlog[i]) = backlog[i][1]
      /\ \A n \in 1 .. Len(backlog[i]) - 1 : Tail(backlog[i])[n] = backlog[i][n + 1]
  BY <1>1
<1>3. worker'[i] = backlog[i][1] /\ backlog'[i] = Tail(backlog[i])
  BY <1>1, <1>2 DEF ServeTypeOK
<1>4. \A n \in Places(i)' : n + 1 \in Places(i) /\ Place(i, n)' = Place(i, n + 1)
  BY <1>2, <1>3 DEF Places, Place
<1>5. ASSUME NEW j \in Instances \ {i}, NEW n \in Places(j)'
      PROVE  n + 0 \in Places(j) /\ Place(j, n)' = Place(j, n + 0)
  <2>1. worker'[j] = worker[j] /\ backlog'[j] = backlog[j]
    BY <1>1 DEF ServeTypeOK
  <2> QED BY <2>1 DEF Places, Place
<1> QED BY <1>4, <1>5 DEF LineShrinks

\* Calls that stay as they are, in a line that goes on.
LEMMA OthersKeep ==
  ASSUME ServeTypeOK, ServeTypeOK', ExchangeInv, LineShrinks, NEW c \in Calls,
         step'[c] = step[c], answer'[c] = answer[c], entry'[c] = entry[c],
         navigated'[c] = navigated[c]
  PROVE  PlacedOnce' /\ Pending(c)' /\ Served(c)'
<1>1. PlacedOnce' /\ (InLine(c)' => InLine(c))
  BY ShrinkKeeps DEF ExchangeInv
<1>2. Pending(c) /\ Served(c)
  BY DEF ExchangeInv
<1>3. Pending(c)'
  BY <1>1, <1>2 DEF Pending
<1>4. Served(c)'
  BY <1>2 DEF Served
<1> QED BY <1>1, <1>3, <1>4

LEMMA NobodyMoves ==
  ASSUME ServeTypeOK, ServeTypeOK', ExchangeInv, LineShrinks, UNCHANGED <<clientVars, navigated>>
  PROVE  ExchangeInv'
<1>1. \A c \in Calls : PlacedOnce' /\ Pending(c)' /\ Served(c)'
  BY OthersKeep DEF clientVars
<1>2. PlacedOnce'
  BY ShrinkKeeps DEF ExchangeInv
<1> QED BY <1>1, <1>2 DEF ExchangeInv

\* One call moves, and the line goes on.
LEMMA OneMoves ==
  ASSUME ServeTypeOK, ServeTypeOK', ExchangeInv, LineShrinks, NEW c \in Calls,
         \A d \in Calls \ {c} : /\ step'[d] = step[d] /\ answer'[d] = answer[d]
                                /\ entry'[d] = entry[d] /\ navigated'[d] = navigated[d],
         Pending(c)', Served(c)'
  PROVE  ExchangeInv'
<1>1. \A d \in Calls \ {c} : Pending(d)' /\ Served(d)'
  BY OthersKeep
<1>2. PlacedOnce'
  BY ShrinkKeeps DEF ExchangeInv
<1> QED BY <1>1, <1>2 DEF ExchangeInv

LEMMA ClientMoves ==
  ASSUME BridgeTypeOK, BridgeTypeOK', ExchangeInv, NEW c \in Calls,
         ReadRegistry(c) \/ GiveUp(c) \/ \E what \in {"context", "navigate"} : Ask(c, what)
  PROVE  ExchangeInv'
<1> USE DEF BridgeTypeOK, ClientTypeOK
<1>1. UNCHANGED <<backlog, worker, navigated>>
  BY DEF ReadRegistry, GiveUp, Ask, serveVars
<1>2. LineShrinks /\ (InLine(c)' => InLine(c))
  <2>1. LineShrinks
    BY <1>1, SameLine
  <2> QED BY <2>1, ShrinkKeeps DEF ExchangeInv
<1>3. \A d \in Calls \ {c} : step'[d] = step[d] /\ answer'[d] = answer[d] /\ entry'[d] = entry[d]
  BY DEF ReadRegistry, GiveUp, Ask, Fail
<1>4. Pending(c) /\ Served(c)
  BY DEF ExchangeInv
<1>5. Failed \notin Snapshots /\ Failed # Accepted /\ Absent # Accepted /\ Absent \notin Snapshots
  BY BridgeAssumption
<1>6. Pending(c)' /\ Served(c)'
  <2>1. CASE GiveUp(c)
    <3>1. step[c] = "waiting" /\ step'[c] = "answered" /\ answer'[c] = Failed /\ entry' = entry
      BY <2>1 DEF GiveUp, Fail
    <3> QED BY <1>1, <1>2, <1>4, <1>5, <3>1 DEF Pending, Served
  <2>2. CASE ReadRegistry(c)
    <3>1. /\ step[c] = "begun" /\ ~InLine(c)' /\ answer[c] = Absent
          /\ \A i \in Instances : navigated'[c][i] = 0
      BY <1>1, <1>2, <1>4, <2>2 DEF ReadRegistry, Pending
    <3>2. \/ step'[c] = "answered" /\ answer'[c] = Failed
          \/ step'[c] = "found" /\ answer' = answer
      BY <2>2 DEF ReadRegistry, Fail
    <3> QED BY <1>5, <3>1, <3>2 DEF Pending, Served
  <2>3. CASE \E what \in {"context", "navigate"} : Ask(c, what)
    <3>1. step[c] = "idle" /\ step'[c] = "begun" /\ UNCHANGED <<answer, entry>>
      BY <2>3 DEF Ask
    <3> QED BY <1>1, <1>2, <1>4, <3>1 DEF Pending, Served
  <2> QED BY <2>1, <2>2, <2>3
<1> QED BY <1>1, <1>2, <1>3, <1>6, OneMoves

\* A call that is in no line goes to the end of one.
LEMMA LineGrows ==
  ASSUME ServeTypeOK, PlacedOnce, NEW c \in Calls, ~InLine(c), NEW i \in Instances,
         backlog' = [backlog EXCEPT ![i] = Append(@, c)], UNCHANGED worker
  PROVE  PlacedOnce' /\ \A d \in Calls \ {c} : InLine(d)' => InLine(d)
<1>1. PICK last \in Nat \ {0} : last = Len(backlog[i]) + 1
  BY DEF ServeTypeOK
<1>2. /\ backlog'[i] = Append(backlog[i], c) /\ Len(backlog'[i]) = last
      /\ backlog'[i][last] = c /\ \A n \in 1 .. Len(backlog[i]) : backlog'[i][n] = backlog[i][n]
  BY <1>1 DEF ServeTypeOK
<1>3. \A j \in Instances \ {i} : backlog'[j] = backlog[j]
  BY DEF ServeTypeOK
<1>4. Place(i, last)' = c
  BY <1>2 DEF Place
<1>5. ASSUME NEW j \in Instances, NEW n \in Places(j)'
      PROVE  (j = i /\ n = last) \/ (n \in Places(j) /\ Place(j, n)' = Place(j, n))
  <2>1. CASE j # i
    BY <1>3, <2>1 DEF Places, Place
  <2>2. CASE j = i
    <3>1. Len(backlog[i]) \in Nat
      BY DEF ServeTypeOK
    <3>2. n \in 0 .. last
      BY <1>2, <2>2 DEF Places
    <3>3. n = last \/ n \in 0 .. Len(backlog[i])
      BY <1>1, <3>1, <3>2
    <3>4. CASE n = last
      BY <2>2, <3>4
    <3>5. CASE n = 0
      BY <2>2, <3>1, <3>5 DEF Places, Place
    <3>6. CASE n \in 1 .. Len(backlog[i])
      BY <1>2, <2>2, <3>6 DEF Places, Place
    <3> QED BY <3>1, <3>3, <3>4, <3>5, <3>6
  <2> QED BY <2>1, <2>2
<1>6. ASSUME NEW j \in Instances, NEW n \in Places(j) PROVE Place(j, n) # c
  BY <1>6 DEF InLine
<1>7. ASSUME NEW j \in Instances, NEW k \in Instances, NEW n \in Places(j)', NEW m \in Places(k)',
             Place(j, n)' = Place(k, m)', Place(j, n)' \in Calls
      PROVE  j = k /\ n = m
  <2>1. CASE n \in Places(j) /\ Place(j, n)' = Place(j, n)
    <3>1. Place(k, m)' # c
      BY <1>6, <1>7, <2>1
    <3>2. k # i \/ m # last
      BY <1>4, <3>1
    <3>3. m \in Places(k) /\ Place(k, m)' = Place(k, m)
      BY <1>5, <1>7, <3>2
    <3>4. Place(j, n) = Place(k, m) /\ Place(j, n) \in Calls
      BY <1>7, <2>1, <3>3
    <3>5. n \in Places(j) /\ m \in Places(k)
      BY <2>1, <3>3
    <3> QED BY <3>4, <3>5 DEF PlacedOnce
  <2>2. CASE m \in Places(k) /\ Place(k, m)' = Place(k, m)
    <3>1. Place(j, n)' # c
      BY <1>6, <1>7, <2>2
    <3>2. j # i \/ n # last
      BY <1>4, <3>1
    <3>3. n \in Places(j) /\ Place(j, n)' = Place(j, n)
      BY <1>5, <1>7, <3>2
    <3>4. Place(j, n) = Place(k, m) /\ Place(j, n) \in Calls
      BY <1>7, <2>2, <3>3
    <3>5. n \in Places(j) /\ m \in Places(k)
      BY <2>2, <3>3
    <3> QED BY <3>4, <3>5 DEF PlacedOnce
  <2> QED BY <1>5, <2>1, <2>2
<1>8. PlacedOnce'
  BY <1>7 DEF PlacedOnce
<1>9. ASSUME NEW d \in Calls \ {c}, InLine(d)' PROVE InLine(d)
  <2>1. PICK j \in Instances : \E n \in Places(j)' : Place(j, n)' = d
    BY <1>9 DEF InLine
  <2>2. PICK n \in Places(j)' : Place(j, n)' = d
    BY <2>1
  <2>3. n \in Places(j) /\ Place(j, n)' = Place(j, n)
    BY <1>4, <1>5, <2>2
  <2> QED BY <2>2, <2>3 DEF InLine
<1> QED BY <1>8, <1>9

\* A request goes to the end of the line of who listens there.
LEMMA ConnectMoves ==
  ASSUME BridgeTypeOK, BridgeTypeOK', ExchangeInv, NEW c \in Calls, Connect(c)
  PROVE  ExchangeInv'
<1> USE DEF BridgeTypeOK, ClientTypeOK
<1>1. UNCHANGED <<worker, navigated, entry>> /\ step[c] = "found"
  BY DEF Connect
<1>2. \A d \in Calls \ {c} : step'[d] = step[d] /\ answer'[d] = answer[d]
  BY DEF Connect, Fail
<1>3. Pending(c) /\ ~InLine(c) /\ answer[c] = Absent /\ \A i \in Instances : navigated[c][i] = 0
  BY <1>1 DEF ExchangeInv, Pending
<1>4. Failed \notin Snapshots /\ Failed # Accepted /\ Absent # Accepted /\ Absent \notin Snapshots
  BY BridgeAssumption
<1>5. CASE Fail(c) /\ UNCHANGED backlog
  <2>1. LineShrinks /\ ~InLine(c)'
    <3>1. LineShrinks
      BY <1>1, <1>5, SameLine
    <3> QED BY <1>3, <3>1, ShrinkKeeps DEF ExchangeInv
  <2>2. step'[c] = "answered" /\ answer'[c] = Failed
    BY <1>5 DEF Fail
  <2>3. Pending(c)' /\ Served(c)'
    BY <1>1, <1>3, <1>4, <2>1, <2>2 DEF Pending, Served
  <2> QED BY <1>1, <1>2, <2>1, <2>3, OneMoves
<1>6. ASSUME NEW i \in Instances, backlog' = [backlog EXCEPT ![i] = Append(@, c)],
             step' = [step EXCEPT ![c] = "waiting"], UNCHANGED answer
      PROVE  ExchangeInv'
  <2>5. PlacedOnce' /\ \A d \in Calls \ {c} : InLine(d)' => InLine(d)
    BY <1>1, <1>3, <1>6, LineGrows DEF ExchangeInv
  <2>7. \A d \in Calls \ {c} : Pending(d)' /\ Served(d)'
    BY <1>1, <1>2, <1>6, <2>5 DEF ExchangeInv, Pending, Served
  <2>8. step'[c] = "waiting" /\ answer'[c] = Absent
    BY <1>3, <1>6
  <2>9. Pending(c)' /\ Served(c)'
    BY <1>1, <1>3, <1>4, <2>8 DEF Pending, Served
  <2> QED BY <2>5, <2>7, <2>9 DEF ExchangeInv
<1> QED BY <1>5, <1>6 DEF Connect

\* The instance serves the request at the head of its line, and only if it is
\* the one that the call has found.
LEMMA HandleMoves ==
  ASSUME BridgeTypeOK, BridgeTypeOK', SnapshotsAreOwn, ExchangeInv,
         NEW i \in Instances, NEW c \in Calls, Handle(i, c)
  PROVE  ExchangeInv'
<1> USE DEF BridgeTypeOK
<1>1. worker[i] = c /\ worker' = [worker EXCEPT ![i] = "loop"] /\ UNCHANGED <<backlog, entry>>
  BY DEF Handle
<1>2. LineShrinks
  BY <1>1, ThreadMoves, BridgeAssumption
<1>3. InLine(c) /\ Place(i, 0) = c /\ 0 \in Places(i)
  BY <1>1 DEF InLine, Place, Places, ServeTypeOK
<1>4. ~InLine(c)'
  <2>1. SUFFICES ASSUME NEW j \in Instances, NEW n \in Places(j)', Place(j, n)' = c PROVE FALSE
    BY DEF InLine
  <2>2. n \in Places(j)
    BY <1>1 DEF Places
  <2>3. Place(j, n) = c
    BY <1>1, <2>1, BridgeAssumption DEF Place, ServeTypeOK
  <2>4. j = i /\ n = 0
    BY <1>3, <2>2, <2>3 DEF ExchangeInv, PlacedOnce
  <2> QED BY <1>1, <2>1, <2>4, BridgeAssumption DEF Place, ServeTypeOK
<1>5. Pending(c) /\ Served(c)
  BY DEF ExchangeInv
<1>6. /\ step[c] \notin {"idle", "begun", "found"} /\ answer[c] # Accepted
      /\ \A j \in Instances : navigated[c][j] = 0
  BY <1>3, <1>5 DEF Pending
<1>7. \A d \in Calls \ {c} : /\ step'[d] = step[d] /\ answer'[d] = answer[d]
                             /\ entry'[d] = entry[d] /\ navigated'[d] = navigated[d]
  <2>1. PICK what : Respond(c, what)
    BY DEF Handle
  <2>2. \A d \in Calls \ {c} : step'[d] = step[d] /\ answer'[d] = answer[d]
    BY <2>1 DEF Respond, ClientTypeOK
  <2>3. \A d \in Calls \ {c} : navigated'[d] = navigated[d]
    BY DEF Handle, Navigate, ServeTypeOK
  <2> QED BY <1>1, <2>2, <2>3
<1>8. step'[c] \notin {"idle", "begun", "found"}
  BY <1>6 DEF Handle, Respond, ClientTypeOK
<1>9. Pending(c)'
  BY <1>4, <1>8 DEF Pending
<1>10. Failed \notin Snapshots /\ Failed # Accepted /\ Accepted \notin Snapshots
  BY BridgeAssumption
<1>11. ASSUME NEW what, Respond(c, what) PROVE answer'[c] = what \/ answer'[c] = answer[c]
  BY <1>11 DEF Respond, ClientTypeOK
<1>12. Served(c)'
  <2>1. CASE Respond(c, Failed) /\ UNCHANGED navigated
    BY <1>1, <1>5, <1>6, <1>10, <1>11, <2>1 DEF Served
  <2>2. CASE /\ entry[c] = i /\ context[i] # Absent
             /\ Respond(c, context[i]) /\ UNCHANGED navigated
    <3>1. context[i] \in Snapshots /\ context[i].by = i
      BY <2>2 DEF DeskTypeOK, SnapshotsAreOwn
    <3> QED BY <1>1, <1>5, <1>6, <1>10, <1>11, <2>2, <3>1 DEF Served
  <2>3. CASE entry[c] = i /\ Respond(c, Accepted) /\ Navigate(i, c)
    <3>1. navigated'[c][i] = 1 /\ \A j \in Instances \ {i} : navigated'[c][j] = 0
      BY <1>6, <2>3 DEF Navigate, ServeTypeOK
    <3> QED BY <1>1, <1>5, <1>10, <1>11, <2>3, <3>1 DEF Served
  <2> QED BY <2>1, <2>2, <2>3 DEF Handle
<1> QED BY <1>2, <1>7, <1>9, <1>12, OneMoves

LEMMA ExchangeNext ==
  ASSUME BridgeTypeOK, BridgeTypeOK', SnapshotsAreOwn, ExchangeInv,
         BridgeNext \/ UNCHANGED bridgeVars
  PROVE  ExchangeInv'
<1>1. ServeTypeOK /\ ServeTypeOK'
  BY DEF BridgeTypeOK
<1>2. ASSUME LineShrinks, UNCHANGED <<clientVars, navigated>> PROVE ExchangeInv'
  BY <1>1, <1>2, NobodyMoves
<1>3. ASSUME UNCHANGED <<serveVars, clientVars>> PROVE ExchangeInv'
  BY <1>2, <1>3, SameLine DEF serveVars
<1>4. \A w \in {"none", "loop", "exited"} : w \notin Calls
  BY BridgeAssumption
<1>5. ASSUME NEW i \in Instances, Gone(i), UNCHANGED <<clientVars, navigated>> PROVE ExchangeInv'
  BY <1>1, <1>2, <1>4, <1>5, ThreadMoves DEF Gone
<1>6. ASSUME NEW i \in Instances, InstanceStep(i) PROVE ExchangeInv'
  <2>1. CASE Start(i) \/ Stop(i)
    BY <1>3, <2>1 DEF Start, Stop
  <2>2. CASE Register(i)
    BY <1>1, <1>2, <1>4, <2>2, ThreadMoves DEF Register
  <2>3. CASE Die(i)
    BY <1>5, <2>3 DEF Die
  <2>4. CASE AcceptFails(i)
    BY <1>1, <1>2, <1>4, <2>4, ThreadMoves DEF AcceptFails
  <2> QED BY <1>6, <2>1, <2>2, <2>3, <2>4 DEF InstanceStep
<1>7. ASSUME NEW i \in Instances, WorkspaceStep(i) PROVE ExchangeInv'
  BY <1>3, <1>7 DEF WorkspaceStep, Build, Publish
<1>8. ASSUME NEW i \in Instances, EndStep(i) PROVE ExchangeInv'
  <2>1. CASE Joined(i)
    BY <1>5, <2>1 DEF Joined
  <2>2. CASE RemoveOwn(i)
    BY <1>3, <2>2 DEF RemoveOwn
  <2>3. CASE Exit(i)
    BY <1>1, <1>2, <1>4, <2>3, ThreadMoves DEF Exit
  <2>4. CASE Accept(i)
    <3>1. LineShrinks
      BY <1>1, <2>4, AcceptShrinks
    <3> QED BY <1>2, <2>4, <3>1 DEF Accept
  <2>5. ASSUME NEW c \in Calls, Handle(i, c) PROVE ExchangeInv'
    BY <2>5, HandleMoves
  <2> QED BY <1>8, <2>1, <2>2, <2>3, <2>4, <2>5 DEF EndStep
<1>9. ASSUME NEW c \in Calls, ExchangeStep(c) PROVE ExchangeInv'
  BY <1>9, ClientMoves, ConnectMoves DEF ExchangeStep
<1>10. ASSUME NEW c \in Calls, NEW what \in {"context", "navigate"}, Ask(c, what)
       PROVE  ExchangeInv'
  BY <1>10, ClientMoves
<1>11. CASE UNCHANGED bridgeVars
  BY <1>3, <1>11 DEF bridgeVars
<1> QED BY <1>6, <1>7, <1>8, <1>9, <1>10, <1>11 DEF BridgeNext, BridgeStep

LEMMA ExchangeMeans ==
  ASSUME BridgeTypeOK, ExchangeInv PROVE AnsweredByNamed /\ NavigatedOnce
<1>1. ASSUME NEW c \in Calls, answer[c] \notin {Absent, Accepted, Failed}
      PROVE  answer[c] \in Snapshots
  BY <1>1 DEF BridgeTypeOK, ClientTypeOK, Replies
<1> QED BY <1>1 DEF ExchangeInv, Served, AnsweredByNamed, NavigatedOnce

(***************************************************************************)
(* The bridge and its clients: whatever instances start, end and die       *)
(* between the steps of exchange, and whoever listens at the port by then, *)
(* a client is answered by the instance that the registry has named to it, *)
(* and its navigation happens there, at most once.                         *)
(***************************************************************************)
THEOREM ExchangeSafety == Spec => []ExchangeIsExact
<1> DEFINE Inv == BridgeTypeOK /\ PublishedInv /\ ExchangeInv
<1>1. Init => Inv
  BY BridgeTypesInit, PublishedInit, ExchangeInit DEF Init
<1>2. Inv /\ [Next]_vars => Inv'
  <2> SUFFICES ASSUME Inv, [Next]_vars PROVE Inv'
    OBVIOUS
  <2>1. BridgeNext \/ UNCHANGED bridgeVars
    BY StepsOfBridge DEF vars
  <2>2. BridgeTypeOK'
    BY <2>1, BridgeTypesNext, BridgeTypesStutter
  <2>3. PublishedInv'
    BY <2>1, PublishedNext
  <2>4. ExchangeInv'
    BY <2>1, <2>2, ExchangeNext DEF PublishedInv
  <2> QED BY <2>2, <2>3, <2>4
<1>3. Inv => ExchangeIsExact
  BY ExchangeMeans DEF ExchangeIsExact
<1> QED BY <1>1, <1>2, <1>3, PTL DEF Spec

-----------------------------------------------------------------------------
(* Who is found.                                                           *)

\* The file is that of who has written it last, or there is none; and who is
\* about to remove it removes its own.
RegistryInv ==
  /\ registry \in {Absent, holder}
  /\ \A i \in Instances : life[i] = "removing" /\ ~lost => holder = i
  /\ LatestIsFound

LEMMA RegistryInit == BridgeInit => RegistryInv
BY DEF BridgeInit, RegistryInv, LatestIsFound

LEMMA RegistryInstance ==
  ASSUME BridgeTypeOK, RegistryInv, NEW i \in Instances, InstanceStep(i) PROVE RegistryInv'
<1> USE DEF Become
<1>1. FileTypeOK /\ DeskTypeOK /\ Absent \notin Instances
  BY BridgeAssumption DEF BridgeTypeOK
<1>2. CASE Start(i)
  <2>1. registry' = Absent /\ holder' = holder /\ lost' = lost /\ life'[i] = "replacing"
        /\ \A j \in Instances : life'[j] = "removing" => life[j] = "removing"
    BY <1>1, <1>2 DEF Start, fileVars, DeskTypeOK
  <2> QED BY <2>1 DEF RegistryInv, LatestIsFound
<1>3. CASE Register(i)
  <2>1. registry' = i /\ holder' = i
        /\ \A j \in Instances : life'[j] = "removing" => life[j] = "removing"
    BY <1>1, <1>3 DEF Register, DeskTypeOK
  <2>2. \A j \in Instances : life[j] = "removing" => lost'
    BY <1>3 DEF Register
  <2> QED BY <2>1, <2>2 DEF RegistryInv, LatestIsFound
<1>4. CASE Stop(i)
  <2>1. /\ registry' = registry /\ holder' = holder /\ lost' = lost
        /\ life[i] = "serving" /\ life'[i] = "stopping"
        /\ \A j \in Instances \ {i} : life'[j] = life[j]
    BY <1>1, <1>4 DEF Stop, fileVars, DeskTypeOK
  <2> QED BY <1>1, <2>1 DEF RegistryInv, LatestIsFound, FileTypeOK
<1>5. CASE Die(i)
  <2>1. /\ registry' = registry /\ holder' = holder
        /\ life'[i] = "ended" /\ (lost \/ life[i] = "replacing" => lost')
        /\ \A j \in Instances \ {i} : life'[j] = life[j]
    BY <1>1, <1>5 DEF Die, DeskTypeOK
  <2> QED BY <1>1, <2>1 DEF RegistryInv, LatestIsFound, FileTypeOK
<1>6. CASE AcceptFails(i)
  BY <1>6 DEF AcceptFails, deskVars, fileVars, RegistryInv, LatestIsFound
<1> QED BY <1>2, <1>3, <1>4, <1>5, <1>6 DEF InstanceStep

LEMMA RegistryEnd ==
  ASSUME BridgeTypeOK, RegistryInv, NEW i \in Instances, Joined(i) \/ RemoveOwn(i)
  PROVE  RegistryInv'
<1> USE DEF Become
<1>1. FileTypeOK /\ DeskTypeOK /\ Absent \notin Instances
  BY BridgeAssumption DEF BridgeTypeOK
<1>2. CASE Joined(i)
  <2>1. /\ registry' = registry /\ holder' = holder /\ lost' = lost
        /\ life[i] = "stopping"
        /\ life'[i] = IF registry = i THEN "removing" ELSE "ended"
        /\ \A j \in Instances \ {i} : life'[j] = life[j]
    BY <1>1, <1>2 DEF Joined, fileVars, DeskTypeOK
  <2> QED BY <1>1, <2>1 DEF RegistryInv, LatestIsFound, FileTypeOK
<1>3. CASE RemoveOwn(i)
  <2>1. /\ registry' = Absent /\ holder' = holder /\ lost' = lost
        /\ life[i] = "removing" /\ life'[i] = "ended"
        /\ \A j \in Instances \ {i} : life'[j] = life[j]
    BY <1>1, <1>3 DEF RemoveOwn, DeskTypeOK
  <2>2. ~lost => holder = i
    BY <2>1 DEF RegistryInv
  <2> QED BY <2>1, <2>2 DEF RegistryInv, LatestIsFound
<1> QED BY <1>2, <1>3

LEMMA RegistryNext ==
  ASSUME BridgeTypeOK, RegistryInv, BridgeNext \/ UNCHANGED bridgeVars PROVE RegistryInv'
<1>1. ASSUME UNCHANGED <<registry, holder, lost, life>> PROVE RegistryInv'
  BY <1>1 DEF RegistryInv, LatestIsFound
<1> USE DEF bridgeVars, deskVars, fileVars
<1>2. ASSUME NEW i \in Instances, WorkspaceStep(i) PROVE RegistryInv'
  BY <1>1, <1>2 DEF WorkspaceStep, Build, Publish
<1>3. ASSUME NEW i \in Instances, Exit(i) \/ Accept(i) \/ \E c \in Calls : Handle(i, c)
      PROVE  RegistryInv'
  BY <1>1, <1>3 DEF Exit, Accept, Handle
<1>4. ASSUME NEW c \in Calls, ExchangeStep(c) \/ \E what \in {"context", "navigate"} : Ask(c, what)
      PROVE  RegistryInv'
  BY <1>1, <1>4 DEF ExchangeStep, ReadRegistry, Connect, GiveUp, Ask
<1> QED
  BY <1>1, <1>2, <1>3, <1>4, RegistryInstance, RegistryEnd
  DEF BridgeNext, BridgeStep, EndStep

(***************************************************************************)
(* remove_own_registry takes only its own file away: the instance that has *)
(* registered last is found while it serves, unless the read and the       *)
(* removal had a registration between them.                                *)
(***************************************************************************)
THEOREM FoundSafety == Spec => []LatestIsFound
<1>1. Init => BridgeTypeOK /\ RegistryInv
  BY BridgeTypesInit, RegistryInit DEF Init
<1>2. BridgeTypeOK /\ RegistryInv /\ [Next]_vars => (BridgeTypeOK /\ RegistryInv)'
  <2>1. [Next]_vars => BridgeNext \/ UNCHANGED bridgeVars
    BY StepsOfBridge DEF vars
  <2> QED BY <2>1, BridgeTypesNext, BridgeTypesStutter, RegistryNext
<1>3. BridgeTypeOK /\ RegistryInv => LatestIsFound
  BY DEF RegistryInv
<1> QED BY <1>1, <1>2, <1>3, PTL DEF Spec

-----------------------------------------------------------------------------
(* The tools that follow a snapshot.                                       *)

\* A call has no answer until it is over, and Accepted answers a navigation.
AnswerInv ==
  \A c \in Calls :
    /\ IF step[c] = "answered" THEN answer[c] \in Replies ELSE answer[c] = Absent
    /\ answer[c] = Accepted => op[c] = "navigate"

LEMMA AnswerInit == BridgeInit => AnswerInv
BY BridgeAssumption DEF BridgeInit, AnswerInv

LEMMA AnswerNext ==
  ASSUME BridgeTypeOK, AnswerInv, BridgeNext \/ UNCHANGED bridgeVars PROVE AnswerInv'
<1>1. ASSUME UNCHANGED clientVars PROVE AnswerInv'
  BY <1>1 DEF clientVars, AnswerInv
<1> USE DEF bridgeVars, BridgeTypeOK, ClientTypeOK
<1>2. ASSUME NEW i \in Instances, InstanceStep(i) \/ WorkspaceStep(i) PROVE AnswerInv'
  BY <1>1, <1>2 DEF InstanceStep, Start, Register, Stop, Die, AcceptFails, WorkspaceStep, Build, Publish
<1>3. ASSUME NEW i \in Instances, Joined(i) \/ RemoveOwn(i) \/ Exit(i) \/ Accept(i)
      PROVE  AnswerInv'
  BY <1>1, <1>3 DEF Joined, RemoveOwn, Exit, Accept
<1>4. ASSUME NEW i \in Instances, NEW c \in Calls, Handle(i, c) PROVE AnswerInv'
  <2>1. PICK what \in Replies : Respond(c, what) /\ (what = Accepted => op[c] = "navigate")
    BY <1>4, BridgeAssumption DEF Handle, Replies, DeskTypeOK
  <2>2. op' = op
    BY <1>4 DEF Handle
  <2> QED BY <2>1, <2>2 DEF Respond, AnswerInv
<1>5. ASSUME NEW c \in Calls, ExchangeStep(c) PROVE AnswerInv'
  BY <1>5, BridgeAssumption DEF ExchangeStep, ReadRegistry, Connect, GiveUp, Fail, Replies, AnswerInv
<1>6. ASSUME NEW c \in Calls, NEW what \in {"context", "navigate"}, Ask(c, what)
      PROVE  AnswerInv'
  BY <1>6, BridgeAssumption DEF Ask, AnswerInv
<1> QED
  BY <1>1, <1>2, <1>3, <1>4, <1>5, <1>6 DEF BridgeNext, BridgeStep, EndStep

\* A call that is over keeps its answer; only a new call says what it is for.
LEMMA AnswersAreKept ==
  ASSUME BridgeTypeOK, BridgeStep, NEW c \in Calls
  PROVE  /\ op'[c] = op[c]
         /\ step[c] = "answered" => step'[c] = "answered" /\ answer'[c] = answer[c]
<1> USE DEF BridgeTypeOK, ClientTypeOK, clientVars
<1>1. ASSUME NEW i \in Instances, InstanceStep(i) \/ WorkspaceStep(i) PROVE UNCHANGED clientVars
  BY <1>1 DEF InstanceStep, Start, Register, Stop, Die, AcceptFails, WorkspaceStep, Build, Publish
<1>2. ASSUME NEW i \in Instances, Joined(i) \/ RemoveOwn(i) \/ Exit(i) \/ Accept(i)
      PROVE  UNCHANGED clientVars
  BY <1>2 DEF Joined, RemoveOwn, Exit, Accept
<1>3. ASSUME NEW i \in Instances, NEW d \in Calls, Handle(i, d)
      PROVE  /\ op' = op
             /\ step[c] = "answered" => step'[c] = "answered" /\ answer'[c] = answer[c]
  BY <1>3 DEF Handle, Respond
<1>4. ASSUME NEW d \in Calls, ExchangeStep(d)
      PROVE  /\ op' = op
             /\ step[c] = "answered" => step'[c] = "answered" /\ answer'[c] = answer[c]
  BY <1>4 DEF ExchangeStep, ReadRegistry, Connect, GiveUp, Fail
<1> QED BY <1>1, <1>2, <1>3, <1>4 DEF BridgeStep, EndStep

\* What is known of a call at each of its stages.
StageInv(c) ==
  /\ stage[c] # "idle" /\ tool[c] \in {"open", "decompile"} => op[c] = "context"
  /\ stage[c] \notin {"idle", "exchange"} => step[c] = "answered"
  /\ stage[c] \in {"ensure", "open", "decompile"} => answer[c] \in Snapshots
  /\ stage[c] \in {"idle", "exchange", "ensure", "open"} =>
       project[c] = Absent /\ product[c] = Absent
  /\ stage[c] = "open" =>
       \A s \in seen[c] : sessions[s] # Absent => sessions[s] # Shown(c).project
  /\ stage[c] = "decompile" =>
       /\ project[c] \in 1 .. opened
       /\ sessions[project[c]] \in {Absent, Shown(c).project}

\* Ids are given out in order, and a session is open only under one of them.
OpenedInOrder == \A s \in Ids : s > opened => sessions[s] = Absent

\* Both promises, of one call.
FollowedBy(c) ==
  /\ product[c] # Absent => product[c] = [path |-> Shown(c).project, class |-> Shown(c).class]
  /\ project[c] # Absent =>
       \A s \in seen[c] : sessions[s] # Absent /\ sessions[s] = Shown(c).project
                         => project[c] <= s

ServerInv ==
  /\ AnswerInv /\ OpenedInOrder
  /\ \A c \in Calls : StageInv(c) /\ FollowedBy(c)

LEMMA FollowedByEach == (\A c \in Calls : FollowedBy(c)) <=> SnapshotIsFollowed
BY DEF FollowedBy, SnapshotIsFollowed, ProductIsShown, ProjectIsReused

\* A snapshot shows a project of Paths, or none.
LEMMA ShownTypes ==
  ASSUME NEW c \in Calls, answer[c] \in Snapshots
  PROVE  /\ Shown(c).project \in Paths \cup {Absent}
         /\ Shown(c).class \in {Views[r].class : r \in 1 .. Len(Views)}
<1>1. PICK i \in Instances, r \in 1 .. Len(Views) : answer[c] = Snapshot(i, r)
  BY DEF Snapshots
<1>2. Shown(c) = Views[r]
  BY <1>1 DEF Shown, Snapshot
<1> QED BY <1>2, ServerAssumption

LEMMA LeastOfIds ==
  ASSUME NEW S \in SUBSET Nat, S # {}
  PROVE  Least(S) \in S /\ \A s \in S : Least(S) <= s
<1> DEFINE Less == {ss \in Nat \X Nat : ss[1] < ss[2]}
<1>1. IsWellFoundedOn(Less, Nat)
  BY NatLessThanWellFounded DEF OpToRel
<1> HIDE DEF Less
<1>2. PICK s \in S : \A t \in S : <<t, s>> \notin Less
  BY <1>1, WFMin
<1>3. ASSUME NEW t \in S PROVE s <= t
  <2>1. t < s => <<t, s>> \in Less
    BY DEF Less
  <2> QED BY <1>2, <2>1
<1> QED BY <1>3 DEF Least

\* The variables of the server, with their types.
ServerTypeOK ==
  /\ tool \in [Calls -> {Absent, "context", "reveal", "open", "decompile"}]
  /\ stage \in [Calls -> {"idle", "exchange", "ensure", "open", "decompile", "done"}]
  /\ project \in [Calls -> {Absent} \cup 1 .. opened]
  /\ sessions \in [Ids -> {Absent} \cup Paths]
  /\ opened \in 0 .. MaxSessions
  /\ product \in [Calls -> {Absent} \cup
                   [path : Paths, class : {Views[r].class : r \in 1 .. Len(Views)}]]
  /\ seen \in [Calls -> SUBSET (1 .. opened)]

LEMMA TypeParts == TypeOK <=> BridgeTypeOK /\ ServerTypeOK
BY DEF TypeOK, ServerTypeOK

LEMMA ServerInit == Init => TypeOK /\ ServerInv
<1> SUFFICES ASSUME Init PROVE TypeOK /\ ServerInv
  OBVIOUS
<1>1. TypeOK
  <2>1. opened = 0 /\ 0 \in 0 .. MaxSessions
    BY ServerAssumption DEF Init
  <2>2. ServerTypeOK
    BY <2>1 DEF Init, ServerTypeOK
  <2> QED BY <2>2, BridgeTypesInit, TypeParts DEF Init
<1>2. AnswerInv /\ OpenedInOrder
  BY AnswerInit DEF Init, OpenedInOrder
<1>3. \A c \in Calls : StageInv(c) /\ FollowedBy(c)
  BY DEF Init, StageInv, FollowedBy
<1> QED BY <1>1, <1>2, <1>3 DEF ServerInv

\* Sessions may close; those of other ids may open.
SessionsShrink ==
  /\ opened' \in Nat /\ opened <= opened'
  /\ \A s \in 1 .. opened : sessions'[s] \in {Absent, sessions[s]}

\* What a step of another call, of the bridge or of a session leaves true of a call.
LEMMA OtherCall ==
  ASSUME ServerTypeOK, NEW c \in Calls, StageInv(c), FollowedBy(c), SessionsShrink,
         tool'[c] = tool[c], stage'[c] = stage[c], project'[c] = project[c],
         product'[c] = product[c], seen'[c] = seen[c], op'[c] = op[c],
         step[c] = "answered" => step'[c] = "answered" /\ answer'[c] = answer[c]
  PROVE  StageInv(c)' /\ FollowedBy(c)'
<1>1. seen[c] \in SUBSET (1 .. opened) /\ project[c] \in {Absent} \cup 1 .. opened /\ opened \in Nat
  BY ServerAssumption DEF ServerTypeOK
<1>2. CASE stage[c] \in {"idle", "exchange"}
  BY <1>2 DEF StageInv, FollowedBy
<1>3. CASE stage[c] \notin {"idle", "exchange"}
  <2>1. answer'[c] = answer[c] /\ step'[c] = "answered" /\ Shown(c)' = Shown(c)
    BY <1>3 DEF StageInv, Shown
  <2>2. StageInv(c)'
    <3>1. stage[c] = "open" =>
            \A s \in seen[c] : sessions'[s] # Absent => sessions'[s] # Shown(c).project
      BY <1>1 DEF StageInv, SessionsShrink
    <3>2. stage[c] = "decompile" => /\ project[c] \in 1 .. opened'
                                   /\ sessions'[project[c]] \in {Absent, Shown(c).project}
      BY <1>1 DEF StageInv, SessionsShrink
    <3> QED BY <2>1, <3>1, <3>2 DEF StageInv
  <2>3. FollowedBy(c)'
    BY <1>1, <2>1 DEF FollowedBy, SessionsShrink
  <2> QED BY <2>2, <2>3
<1> QED BY <1>2, <1>3

LEMMA OthersFollow ==
  ASSUME ServerTypeOK, ServerInv, SessionsShrink, NEW d, UNCHANGED clientVars,
         \A c \in Calls \ {d} :
           /\ tool'[c] = tool[c] /\ stage'[c] = stage[c] /\ project'[c] = project[c]
           /\ product'[c] = product[c] /\ seen'[c] = seen[c]
  PROVE  \A c \in Calls \ {d} : StageInv(c)' /\ FollowedBy(c)'
BY OtherCall DEF ServerInv, clientVars

LEMMA SameSessions ==
  ASSUME ServerTypeOK, UNCHANGED <<sessions, opened>> PROVE SessionsShrink
BY ServerAssumption DEF ServerTypeOK, SessionsShrink

\* The project of a call is opened.
LEMMA OpenTypes ==
  ASSUME ServerTypeOK, OpenedInOrder, NEW path \in Paths \cup {Absent}, OpenSession(path)
  PROVE  /\ SessionsShrink /\ OpenedInOrder'
         /\ opened' \in 1 .. MaxSessions /\ opened' = opened + 1 /\ sessions'[opened'] = path
         /\ sessions' \in [Ids -> {Absent} \cup Paths]
<1>1. /\ MaxSessions \in Nat /\ opened \in 0 .. MaxSessions /\ opened < MaxSessions
      /\ opened' = opened + 1 /\ sessions' = [sessions EXCEPT ![opened'] = path]
  BY ServerAssumption DEF ServerTypeOK, OpenSession
<1>2. opened' \in Ids /\ opened' \in 1 .. MaxSessions
  BY <1>1 DEF Ids
<1>3. sessions'[opened'] = path /\ \A s \in Ids \ {opened'} : sessions'[s] = sessions[s]
  BY <1>1, <1>2 DEF ServerTypeOK
<1>4. sessions' \in [Ids -> {Absent} \cup Paths]
  BY <1>1, <1>2 DEF ServerTypeOK
<1>5. SessionsShrink
  BY <1>1, <1>3 DEF SessionsShrink, Ids
<1>6. OpenedInOrder'
  BY <1>1, <1>3 DEF OpenedInOrder, Ids
<1> QED BY <1>1, <1>2, <1>3, <1>4, <1>5, <1>6

\* The part of the invariant that the bridge does not keep by itself.
CallsInv == OpenedInOrder /\ \A c \in Calls : StageInv(c) /\ FollowedBy(c)

LEMMA CallStarts ==
  ASSUME TypeOK, ServerInv, NEW c \in Calls,
         NEW t \in {"context", "reveal", "open", "decompile"}, Call(c, t)
  PROVE  ServerTypeOK' /\ CallsInv'
<1> USE DEF Call, Reach
<1>1. ServerTypeOK /\ ServerTypeOK'
  BY TypeParts DEF ServerTypeOK
<1>2. SessionsShrink
  BY <1>1, SameSessions
<1>3. /\ tool'[c] = t /\ stage'[c] = "exchange" /\ project'[c] = project[c]
      /\ product'[c] = product[c]
      /\ op'[c] = IF t = "reveal" THEN "navigate" ELSE "context"
  BY DEF TypeOK, BridgeTypeOK, ClientTypeOK, Ask
<1>4. StageInv(c)' /\ FollowedBy(c)'
  <2>1. project[c] = Absent /\ product[c] = Absent
    BY DEF ServerInv, StageInv
  <2> QED BY <1>3, <2>1 DEF StageInv, FollowedBy
<1>5. ASSUME NEW d \in Calls \ {c} PROVE StageInv(d)' /\ FollowedBy(d)'
  <2>1. /\ tool'[d] = tool[d] /\ stage'[d] = stage[d] /\ project'[d] = project[d]
        /\ product'[d] = product[d] /\ seen'[d] = seen[d]
        /\ op'[d] = op[d] /\ step'[d] = step[d] /\ answer'[d] = answer[d]
    BY DEF TypeOK, BridgeTypeOK, ClientTypeOK, Ask
  <2> QED BY <1>1, <1>2, <2>1, OtherCall DEF ServerInv
<1>6. OpenedInOrder'
  BY DEF ServerInv, OpenedInOrder
<1> QED BY <1>1, <1>4, <1>5, <1>6 DEF CallsInv

LEMMA CallFollows ==
  ASSUME TypeOK, ServerInv, NEW c \in Calls, Follow(c) PROVE ServerTypeOK' /\ CallsInv'
<1> USE DEF Follow, Reach
<1>1. ServerTypeOK /\ ServerTypeOK' /\ UNCHANGED clientVars
  BY TypeParts DEF ServerTypeOK, bridgeVars
<1>2. SessionsShrink
  BY <1>1, SameSessions
<1>3. \A d \in Calls \ {c} : StageInv(d)' /\ FollowedBy(d)'
  BY <1>1, <1>2, OthersFollow
<1>4. stage'[c] \in {"ensure", "done"} /\ StageInv(c)
  BY DEF TypeOK, ServerInv
<1>5. stage'[c] = "ensure" => answer[c] \in Snapshots
  <2>1. stage'[c] = "ensure" => tool[c] \in {"open", "decompile"} /\ answer[c] # Failed
    BY DEF TypeOK
  <2>2. answer[c] \in Replies /\ (answer[c] = Accepted => op[c] = "navigate")
    BY DEF ServerInv, AnswerInv
  <2>3. tool[c] \in {"open", "decompile"} => op[c] = "context"
    BY <1>4 DEF StageInv
  <2> QED BY <2>1, <2>2, <2>3 DEF Replies
<1>6. StageInv(c)'
  BY <1>1, <1>4, <1>5 DEF StageInv, clientVars
<1>7. FollowedBy(c)'
  BY <1>1 DEF ServerInv, FollowedBy, Shown, clientVars
<1> QED BY <1>1, <1>3, <1>6, <1>7 DEF CallsInv, ServerInv, OpenedInOrder

LEMMA CallLooks ==
  ASSUME TypeOK, ServerInv, NEW c \in Calls, LookForProject(c) PROVE ServerTypeOK' /\ CallsInv'
<1> USE DEF LookForProject, Reach
<1>0. ServerTypeOK /\ UNCHANGED clientVars /\ StageInv(c) /\ OpenedInOrder
  BY TypeParts DEF bridgeVars, ServerInv
<1>1. OpenSessions \in SUBSET (1 .. opened)
  BY <1>0, ServerAssumption DEF OpenSessions, OpenedInOrder, Ids, ServerTypeOK
<1>2. Found(c) # {} => Least(Found(c)) \in Found(c) /\ \A s \in Found(c) : Least(Found(c)) <= s
  <2>1. Found(c) \in SUBSET Nat
    BY DEF Found, OpenSessions, Ids
  <2> QED BY <2>1, LeastOfIds
<1>3. Found(c) \in SUBSET (1 .. opened)
  BY <1>1 DEF Found
<1>4. ServerTypeOK'
  <2>1. seen' \in [Calls -> SUBSET (1 .. opened)]
    BY <1>0, <1>1 DEF ServerTypeOK
  <2>2. project' \in [Calls -> {Absent} \cup 1 .. opened]
    BY <1>0, <1>2, <1>3 DEF ServerTypeOK
  <2>3. stage' \in [Calls -> {"idle", "exchange", "ensure", "open", "decompile", "done"}]
    BY <1>0 DEF ServerTypeOK, AfterEnsure
  <2> QED BY <1>0, <2>1, <2>2, <2>3 DEF ServerTypeOK
<1>5. SessionsShrink
  BY <1>0, SameSessions
<1>6. \A d \in Calls \ {c} : StageInv(d)' /\ FollowedBy(d)'
  BY <1>0, <1>5, OthersFollow DEF ServerTypeOK
<1>7. /\ seen'[c] = OpenSessions /\ product'[c] = product[c] /\ tool'[c] = tool[c]
      /\ answer'[c] = answer[c] /\ step'[c] = step[c] /\ op'[c] = op[c] /\ sessions' = sessions
      /\ Shown(c)' = Shown(c) /\ opened' = opened
  BY <1>0 DEF ServerTypeOK, clientVars, Shown
<1>8. CASE Found(c) # {}
  <2>1. project'[c] = Least(Found(c)) /\ stage'[c] = AfterEnsure(c)
    BY <1>0, <1>8 DEF ServerTypeOK
  <2>2. StageInv(c)'
    BY <1>0, <1>2, <1>3, <1>7, <1>8, <2>1 DEF StageInv, AfterEnsure, Found
  <2>3. FollowedBy(c)'
    BY <1>0, <1>2, <1>7, <1>8, <2>1 DEF StageInv, FollowedBy, Found
  <2> QED BY <1>0, <1>4, <1>6, <1>7, <2>2, <2>3 DEF CallsInv, OpenedInOrder
<1>9. CASE Found(c) = {}
  <2>1. project'[c] = project[c] /\ stage'[c] = "open"
    BY <1>0, <1>9 DEF ServerTypeOK
  <2>2. StageInv(c)'
    BY <1>0, <1>7, <1>9, <2>1 DEF StageInv, Found
  <2>3. FollowedBy(c)'
    BY <1>0, <1>7, <2>1 DEF StageInv, FollowedBy
  <2> QED BY <1>0, <1>4, <1>6, <1>7, <2>2, <2>3 DEF CallsInv, OpenedInOrder
<1> QED BY <1>8, <1>9

LEMMA CallOpens ==
  ASSUME TypeOK, ServerInv, NEW c \in Calls, OpenProject(c) PROVE ServerTypeOK' /\ CallsInv'
<1> USE DEF OpenProject, Reach
<1>0. ServerTypeOK /\ UNCHANGED clientVars /\ StageInv(c) /\ FollowedBy(c) /\ OpenedInOrder
  BY TypeParts DEF bridgeVars, ServerInv
<1>1. Shown(c).project \in Paths \cup {Absent}
  BY <1>0, ShownTypes DEF StageInv
<1>2. /\ seen'[c] = seen[c] /\ product'[c] = product[c] /\ tool'[c] = tool[c]
      /\ answer'[c] = answer[c] /\ step'[c] = step[c] /\ op'[c] = op[c]
      /\ Shown(c)' = Shown(c)
  BY <1>0 DEF clientVars, Shown
<1>3. CASE OpenSession(Shown(c).project) /\ project' = [project EXCEPT ![c] = opened']
           /\ stage' = [stage EXCEPT ![c] = AfterEnsure(c)]
  <2>1. /\ SessionsShrink /\ OpenedInOrder'
        /\ opened' \in 1 .. MaxSessions /\ opened' = opened + 1
        /\ sessions'[opened'] = Shown(c).project
        /\ sessions' \in [Ids -> {Absent} \cup Paths]
    BY <1>0, <1>1, <1>3, OpenTypes
  <2>a. opened \in Nat /\ opened' \in Nat
    BY <1>0, <2>1, ServerAssumption DEF ServerTypeOK
  <2>b. 1 .. opened \subseteq 1 .. opened' /\ opened' \in 1 .. opened'
    BY <2>1, <2>a
  <2>c. project' \in [Calls -> {Absent} \cup 1 .. opened'] /\ seen' \in [Calls -> SUBSET (1 .. opened')]
    BY <1>0, <1>3, <2>b DEF ServerTypeOK
  <2>d. stage' \in [Calls -> {"idle", "exchange", "ensure", "open", "decompile", "done"}]
    BY <1>0, <1>3 DEF ServerTypeOK, AfterEnsure
  <2>2. ServerTypeOK'
    BY <1>0, <2>1, <2>a, <2>c, <2>d, ServerAssumption DEF ServerTypeOK
  <2>3. \A d \in Calls \ {c} : StageInv(d)' /\ FollowedBy(d)'
    BY <1>0, <1>3, <2>1, OthersFollow DEF ServerTypeOK
  <2>4. project'[c] = opened' /\ stage'[c] = AfterEnsure(c)
    BY <1>0, <1>3 DEF ServerTypeOK
  <2>5. StageInv(c)'
    BY <1>0, <1>2, <2>1, <2>b, <2>4 DEF StageInv, AfterEnsure
  <2>6. FollowedBy(c)'
    <3>1. \A s \in seen[c] : sessions'[s] # Absent => sessions'[s] # Shown(c).project
      BY <1>0, <2>1 DEF StageInv, SessionsShrink, ServerTypeOK
    <3>2. product[c] = Absent
      BY <1>0 DEF StageInv
    <3> QED BY <1>2, <3>1, <3>2 DEF FollowedBy
  <2> QED BY <2>1, <2>2, <2>3, <2>5, <2>6 DEF CallsInv
<1>4. CASE UNCHANGED <<project, sessions, opened>> /\ stage' = [stage EXCEPT ![c] = "done"]
  <2>1. SessionsShrink
    BY <1>0, <1>4, SameSessions
  <2>2. ServerTypeOK'
    BY <1>0, <1>4 DEF ServerTypeOK
  <2>3. \A d \in Calls \ {c} : StageInv(d)' /\ FollowedBy(d)'
    BY <1>0, <1>4, <2>1, OthersFollow DEF ServerTypeOK
  <2>4. stage'[c] = "done"
    BY <1>0, <1>4 DEF ServerTypeOK
  <2>5. StageInv(c)'
    BY <1>0, <1>2, <2>4 DEF StageInv
  <2>6. FollowedBy(c)'
    BY <1>0, <1>2, <1>4 DEF FollowedBy
  <2> QED BY <1>0, <1>4, <2>2, <2>3, <2>5, <2>6 DEF CallsInv, OpenedInOrder
<1> QED BY <1>3, <1>4

LEMMA CallDecompiles ==
  ASSUME TypeOK, ServerInv, NEW c \in Calls, DecompileActive(c)
  PROVE  ServerTypeOK' /\ CallsInv'
<1> USE DEF DecompileActive, Reach
<1>0. ServerTypeOK /\ UNCHANGED clientVars /\ StageInv(c) /\ FollowedBy(c) /\ OpenedInOrder
  BY TypeParts DEF bridgeVars, ServerInv
<1> DEFINE source == [path |-> sessions[project[c]], class |-> Shown(c).class]
<1>1. SessionsShrink
  BY <1>0, SameSessions
<1>2. /\ project[c] \in Ids /\ sessions[project[c]] \in {Absent, Shown(c).project}
      /\ Shown(c).class \in {Views[r].class : r \in 1 .. Len(Views)}
  BY <1>0, ShownTypes, ServerAssumption DEF StageInv, ServerTypeOK, Ids
<1>3. sessions[project[c]] # Absent =>
        source \in [path : Paths, class : {Views[r].class : r \in 1 .. Len(Views)}]
  BY <1>0, <1>2 DEF ServerTypeOK
<1>4. /\ stage' = [stage EXCEPT ![c] = "done"]
      /\ \/ sessions[project[c]] # Absent /\ product' = [product EXCEPT ![c] = source]
         \/ UNCHANGED product
  OBVIOUS
<1>5. ServerTypeOK'
  <2> HIDE DEF source
  <2>1. product' \in [Calls -> {Absent} \cup
                   [path : Paths, class : {Views[r].class : r \in 1 .. Len(Views)}]]
    BY <1>0, <1>3, <1>4 DEF ServerTypeOK
  <2> QED BY <1>0, <1>4, <2>1 DEF ServerTypeOK
<1>6. \A d \in Calls \ {c} : StageInv(d)' /\ FollowedBy(d)'
  BY <1>0, <1>1, OthersFollow DEF ServerTypeOK
<1>7. /\ seen'[c] = seen[c] /\ tool'[c] = tool[c] /\ stage'[c] = "done"
      /\ answer'[c] = answer[c] /\ step'[c] = step[c] /\ op'[c] = op[c]
      /\ Shown(c)' = Shown(c)
  BY <1>0 DEF clientVars, Shown, ServerTypeOK
<1>8. StageInv(c)'
  BY <1>0, <1>7 DEF StageInv
<1>9. product'[c] # Absent => product'[c] = [path |-> Shown(c).project, class |-> Shown(c).class]
  <2>1. CASE UNCHANGED product
    BY <1>0, <2>1 DEF FollowedBy
  <2>2. CASE sessions[project[c]] # Absent /\ product' = [product EXCEPT ![c] = source]
    <3>1. product'[c] = source
      BY <1>0, <2>2 DEF ServerTypeOK
    <3> QED BY <1>2, <2>2, <3>1
  <2> QED BY <1>4, <2>1, <2>2
<1>10. FollowedBy(c)'
  BY <1>0, <1>7, <1>9 DEF FollowedBy
<1> QED BY <1>0, <1>5, <1>6, <1>8, <1>10 DEF CallsInv, OpenedInOrder

LEMMA SessionsMove ==
  ASSUME TypeOK, ServerInv,
         (\E path \in Paths : OpenPath(path)) \/ \E s \in Ids : CloseProject(s)
  PROVE  ServerTypeOK' /\ CallsInv'
<1>0. ServerTypeOK /\ OpenedInOrder
  BY TypeParts DEF ServerInv
<1>1. UNCHANGED <<bridgeVars, tool, stage, project, product, seen>>
  BY DEF OpenPath, CloseProject
<1> DEFINE Moved == /\ SessionsShrink /\ OpenedInOrder' /\ opened' \in 0 .. MaxSessions
                   /\ sessions' \in [Ids -> {Absent} \cup Paths]
<1>2. Moved
  <2>1. ASSUME NEW path \in Paths, OpenPath(path) PROVE Moved
    BY <1>0, <2>1, OpenTypes DEF OpenPath
  <2>2. ASSUME NEW s \in Ids, CloseProject(s) PROVE Moved
    <3>1. sessions' = [sessions EXCEPT ![s] = Absent] /\ opened' = opened
      BY <2>2 DEF CloseProject
    <3>2. \A t \in Ids : sessions'[t] \in {Absent, sessions[t]}
      BY <1>0, <3>1 DEF ServerTypeOK
    <3>3. SessionsShrink
      BY <1>0, <3>1, <3>2, ServerAssumption DEF ServerTypeOK, SessionsShrink, Ids
    <3> QED BY <1>0, <3>1, <3>2, <3>3 DEF ServerTypeOK, OpenedInOrder
  <2> QED BY <2>1, <2>2
<1>3. ServerTypeOK'
  <2>1. 1 .. opened \subseteq 1 .. opened'
    BY <1>0, <1>2, ServerAssumption DEF ServerTypeOK, SessionsShrink
  <2> QED BY <1>0, <1>1, <1>2, <2>1 DEF ServerTypeOK
<1>4. \A c \in Calls : StageInv(c)' /\ FollowedBy(c)'
  BY <1>0, <1>1, <1>2, OtherCall DEF ServerInv, bridgeVars, clientVars
<1> QED BY <1>2, <1>3, <1>4 DEF CallsInv

LEMMA ServerNext == TypeOK /\ ServerInv /\ [Next]_vars => (TypeOK /\ ServerInv)'
<1> SUFFICES ASSUME TypeOK, ServerInv, [Next]_vars PROVE (TypeOK /\ ServerInv)'
  OBVIOUS
<1>1. BridgeTypeOK' /\ AnswerInv'
  <2>1. BridgeNext \/ UNCHANGED bridgeVars
    BY StepsOfBridge DEF vars
  <2> QED BY <2>1, TypeParts, BridgeTypesNext, BridgeTypesStutter, AnswerNext DEF ServerInv
<1>2. ServerTypeOK /\ CallsInv
  BY TypeParts DEF ServerInv, CallsInv
<1>3. ASSUME UNCHANGED serverVars, BridgeStep \/ UNCHANGED bridgeVars
      PROVE  ServerTypeOK' /\ CallsInv'
  <2>1. ServerTypeOK'
    BY <1>2, <1>3 DEF ServerTypeOK, serverVars
  <2>2. SessionsShrink
    BY <1>2, <1>3, SameSessions DEF serverVars
  <2>3. ASSUME NEW c \in Calls
        PROVE  /\ op'[c] = op[c]
               /\ step[c] = "answered" => step'[c] = "answered" /\ answer'[c] = answer[c]
    BY <1>3, AnswersAreKept, TypeParts DEF bridgeVars, clientVars
  <2>4. \A c \in Calls : StageInv(c)' /\ FollowedBy(c)'
    BY <1>2, <1>3, <2>2, <2>3, OtherCall DEF CallsInv, serverVars
  <2> QED BY <1>2, <1>3, <2>1, <2>4 DEF CallsInv, OpenedInOrder, serverVars
<1>4. ServerTypeOK' /\ CallsInv'
  <2>1. ASSUME NEW c \in Calls, CallStep(c) PROVE ServerTypeOK' /\ CallsInv'
    BY <2>1, CallFollows, CallLooks, CallOpens, CallDecompiles DEF CallStep
  <2> QED BY <1>3, <2>1, CallStarts, SessionsMove DEF Next, vars
<1> QED BY <1>1, <1>4 DEF TypeOK, ServerTypeOK, ServerInv, CallsInv

(***************************************************************************)
(* Types of the bridge and of the server above it, for any instances,      *)
(* calls, snapshots and numbers of sessions.                               *)
(***************************************************************************)
THEOREM ServerTypes == Spec => []TypeOK
<1>1. TypeOK /\ ServerInv => TypeOK
  OBVIOUS
<1> QED BY <1>1, ServerInit, ServerNext, PTL DEF Spec

(***************************************************************************)
(* ensure_project and decompile_active_class: what a call opens and        *)
(* returns is of the one snapshot it has read, and it opens a project only *)
(* if it has found none of that path, however sessions open and close, and *)
(* instances publish, meanwhile.                                           *)
(***************************************************************************)
THEOREM FollowSafety == Spec => []SnapshotIsFollowed
<1>1. TypeOK /\ ServerInv => SnapshotIsFollowed
  BY FollowedByEach DEF ServerInv
<1> QED BY <1>1, ServerInit, ServerNext, PTL DEF Spec
=============================================================================
