-------------------------- MODULE UiContextBridge --------------------------
(***************************************************************************)
(* How an agent's MCP server reads what the desktop program shows, and     *)
(* moves it (dexdec-mcp, ui_context.rs).  Every running desktop program    *)
(* is an instance with a listener on a local port, one thread that serves  *)
(* it, and the last snapshot its workspace has published.  The one file of *)
(* the registry says at which address an instance listens and by which     *)
(* token it knows its clients; each instance replaces it when it starts    *)
(* and takes it away when it ends.                                         *)
(*                                                                         *)
(* An entry of the registry is written as the instance it belongs to: its  *)
(* token and instance_id are random, its address is port.  A port is free  *)
(* again once its listener is gone, and may then be another's.             *)
(***************************************************************************)
EXTENDS Naturals, Sequences

CONSTANTS
  Instances,    \* the desktop programs started, one run each
  Ports,        \* the local ports
  Calls,        \* the exchanges with an instance
  Views,        \* what a workspace shows, by revision
  Accepted,     \* the response to a navigation
  Failed,       \* an error
  Absent,       \* no value
  MaxRevision   \* bound: snapshots each instance builds

Snapshot(i, r) == [by |-> i, revision |-> r, view |-> Views[r]]
Snapshots == {Snapshot(i, r) : i \in Instances, r \in 1 .. Len(Views)}

ASSUME BridgeAssumption ==
  /\ Absent \notin Instances \cup Ports \cup Calls
  /\ {"none", "loop", "exited"} \cap Calls = {}
  /\ Len(Views) \in Nat
  /\ MaxRevision \in [Instances -> 0 .. Len(Views)]
  /\ {Absent, Accepted, Failed} \cap Snapshots = {}
  /\ Accepted \notin {Absent, Failed}

VARIABLES
  registry,   \* the file ui-context.json: Absent or an instance
  life,       \* how far each instance is
  port,       \* where it listens, or did
  context,    \* UiContextBridge.context: the snapshot published last
  built,      \* revision of UiContextSnapshotBuilder
  mail,       \* snapshots on their way to publish_ui_context
  backlog,    \* connections the listener has not accepted, oldest first
  worker,     \* the thread of serve_bridge, or the call it serves
  step,       \* how far each call is
  op,         \* what it asks for: "context" or "navigate"
  entry,      \* the registry it has read
  answer,     \* what exchange returned: a snapshot, Accepted or Failed
  holder,     \* history: the instance that wrote the registry last
  lost,       \* history: an instance has died between removing the file and
              \* writing its own, or another registered while it was about to
              \* remove its own
  navigated   \* history: how often each call has moved which instance

deskVars   == <<life, port, context, built, mail>>
serveVars  == <<backlog, worker, navigated>>
clientVars == <<step, op, entry, answer>>
fileVars   == <<registry, holder, lost>>
bridgeVars == <<deskVars, serveVars, clientVars, fileVars>>

BridgeInit ==
  /\ registry = Absent /\ holder = Absent /\ lost = FALSE
  /\ life = [i \in Instances |-> "new"]
  /\ port = [i \in Instances |-> Absent]
  /\ context = [i \in Instances |-> Absent]
  /\ built = [i \in Instances |-> 0]
  /\ mail = [i \in Instances |-> {}]
  /\ backlog = [i \in Instances |-> <<>>]
  /\ worker = [i \in Instances |-> "none"]
  /\ step = [c \in Calls |-> "idle"]
  /\ op = [c \in Calls |-> Absent]
  /\ entry = [c \in Calls |-> Absent]
  /\ answer = [c \in Calls |-> Absent]
  /\ navigated = [c \in Calls |-> [i \in Instances |-> 0]]

\* The worker thread owns the listener once it runs.
Listening(i) ==
  \/ life[i] = "replacing"
  \/ life[i] \in {"serving", "stopping"} /\ worker[i] # "exited"

Become(i, state) == life' = [life EXCEPT ![i] = state]

\* What the process of an instance holds is gone with it.
Gone(i) ==
  /\ context' = [context EXCEPT ![i] = Absent]
  /\ built' = [built EXCEPT ![i] = 0]
  /\ mail' = [mail EXCEPT ![i] = {}]
  /\ backlog' = [backlog EXCEPT ![i] = <<>>]
  /\ worker' = [worker EXCEPT ![i] = "exited"]

-----------------------------------------------------------------------------
(* An instance starts and ends.                                            *)

\* Mutant: a port that is taken is bound again.
StartOnAny(i) ==
  /\ life[i] = "new" /\ Become(i, "replacing")
  /\ \E p \in Ports : port' = [port EXCEPT ![i] = p]
  /\ registry' = Absent
  /\ UNCHANGED <<context, built, mail, serveVars, clientVars, holder, lost>>

\* start_with_registry: the listener; write_registry: the old file goes, ...
Start(i) ==
  /\ life[i] = "new" /\ Become(i, "replacing")
  /\ \E p \in Ports : /\ \A j \in Instances : Listening(j) => port[j] # p
                      /\ port' = [port EXCEPT ![i] = p]
  /\ registry' = Absent
  /\ UNCHANGED <<context, built, mail, serveVars, clientVars, holder, lost>>

\* ... the new one is renamed to its place, and the thread is spawned.
Register(i) ==
  /\ life[i] = "replacing" /\ Become(i, "serving")
  /\ registry' = i /\ holder' = i
  /\ lost' = (lost \/ \E j \in Instances : life[j] = "removing")
  /\ worker' = [worker EXCEPT ![i] = "loop"]
  /\ UNCHANGED <<port, context, built, mail, backlog, navigated, clientVars>>

\* drop: the thread is told to stop and joined, ...
Stop(i) ==
  /\ life[i] = "serving" /\ Become(i, "stopping")
  /\ UNCHANGED <<port, context, built, mail, serveVars, clientVars, fileVars>>

\* Mutant: the registry is removed whosoever it is.
JoinedRemovesAny(i) ==
  /\ life[i] = "stopping" /\ worker[i] = "exited"
  /\ Become(i, "removing")
  /\ Gone(i)
  /\ UNCHANGED <<port, navigated, clientVars, fileVars>>

\* ... and remove_own_registry reads whose registry it is,
Joined(i) ==
  /\ life[i] = "stopping" /\ worker[i] = "exited"
  /\ Become(i, IF registry = i THEN "removing" ELSE "ended")
  /\ Gone(i)
  /\ UNCHANGED <<port, navigated, clientVars, fileVars>>

\* then removes what is there.
RemoveOwn(i) ==
  /\ life[i] = "removing" /\ Become(i, "ended")
  /\ registry' = Absent
  /\ UNCHANGED <<port, context, built, mail, serveVars, clientVars, holder, lost>>

\* The process is gone, at any time, and leaves the registry as it is.
Die(i) ==
  /\ life[i] \notin {"new", "ended"} /\ Become(i, "ended")
  /\ Gone(i)
  /\ lost' = (lost \/ life[i] = "replacing")
  /\ UNCHANGED <<registry, holder, port, navigated, clientVars>>

-----------------------------------------------------------------------------
(* The workspace publishes.                                                *)

\* UiContextSnapshotBuilder.build; nothing waits for the command it invokes.
Build(i) ==
  /\ life[i] = "serving" /\ built[i] < MaxRevision[i]
  /\ built' = [built EXCEPT ![i] = @ + 1]
  /\ mail' = [mail EXCEPT ![i] = @ \cup {Snapshot(i, built'[i])}]
  /\ UNCHANGED <<life, port, context, serveVars, clientVars, fileVars>>

\* The revision of what is shown; those of snapshots begin at 1.
Published(i) == IF context[i] = Absent THEN 0 ELSE context[i].revision

\* Mutant: the snapshot that comes last is kept.
PublishAny(i, m) ==
  /\ life[i] = "serving" /\ m \in mail[i]
  /\ mail' = [mail EXCEPT ![i] = @ \ {m}]
  /\ context' = [context EXCEPT ![i] = m]
  /\ UNCHANGED <<life, port, built, serveVars, clientVars, fileVars>>

\* publish
Publish(i, m) ==
  /\ life[i] = "serving" /\ m \in mail[i]
  /\ mail' = [mail EXCEPT ![i] = @ \ {m}]
  /\ \/ /\ Published(i) >= m.revision
        /\ UNCHANGED context
     \/ /\ Published(i) < m.revision
        /\ context' = [context EXCEPT ![i] = m]
  /\ UNCHANGED <<life, port, built, serveVars, clientVars, fileVars>>

-----------------------------------------------------------------------------
(* serve_bridge: one connection at a time.                                 *)

Working(i) == life[i] \in {"serving", "stopping"}

\* Mutant: accept blocks and nothing wakes it up, so that the flag is seen only
\* when a client is in line.
ExitWhenCalled(i) ==
  /\ life[i] = "stopping" /\ worker[i] = "loop" /\ backlog[i] # <<>>
  /\ worker' = [worker EXCEPT ![i] = "exited"]
  /\ UNCHANGED <<deskVars, backlog, navigated, clientVars, fileVars>>

\* shutdown is seen at the head of the loop.
Exit(i) ==
  /\ life[i] = "stopping" /\ worker[i] = "loop"
  /\ worker' = [worker EXCEPT ![i] = "exited"]
  /\ UNCHANGED <<deskVars, backlog, navigated, clientVars, fileVars>>

\* accept fails for good: the thread ends, and the instance lives on without it.
AcceptFails(i) ==
  /\ life[i] = "serving" /\ worker[i] = "loop"
  /\ worker' = [worker EXCEPT ![i] = "exited"]
  /\ UNCHANGED <<deskVars, backlog, navigated, clientVars, fileVars>>

\* accept, which may just have passed the flag
Accept(i) ==
  /\ Working(i) /\ worker[i] = "loop" /\ backlog[i] # <<>>
  /\ worker' = [worker EXCEPT ![i] = Head(backlog[i])]
  /\ backlog' = [backlog EXCEPT ![i] = Tail(backlog[i])]
  /\ UNCHANGED <<deskVars, navigated, clientVars, fileVars>>

\* The call ends with what, if it still waits for that; a response that
\* cannot be written is dropped.
Respond(c, what) ==
  \/ /\ step[c] = "waiting"
     /\ step' = [step EXCEPT ![c] = "answered"]
     /\ answer' = [answer EXCEPT ![c] = what]
  \/ step[c] # "waiting" /\ UNCHANGED <<step, answer>>

Navigate(i, c) == navigated' = [navigated EXCEPT ![c][i] = @ + 1]

\* Mutant: the token is not compared.
HandleAny(i, c) ==
  /\ Working(i) /\ worker[i] = c
  /\ \/ op[c] = "navigate" /\ Respond(c, Accepted) /\ Navigate(i, c)
     \/ /\ op[c] = "context" /\ UNCHANGED navigated
        /\ Respond(c, IF context[i] = Absent THEN Failed ELSE context[i])
  /\ worker' = [worker EXCEPT ![i] = "loop"]
  /\ UNCHANGED <<deskVars, backlog, op, entry, fileVars>>

\* Mutant: a client that has gone is served again.
HandleAgain(i, c) ==
  /\ Working(i) /\ worker[i] = c
  /\ \/ op[c] = "navigate" /\ Respond(c, Accepted) /\ Navigate(i, c)
     \/ op[c] = "context" /\ Respond(c, Failed) /\ UNCHANGED navigated
  /\ worker' = [worker EXCEPT ![i] = IF step[c] = "waiting" \/ navigated[c][i] > 1
                                     THEN "loop" ELSE c]
  /\ UNCHANGED <<deskVars, backlog, op, entry, fileVars>>

\* handle_request, and its response: another's token, nothing published and a
\* navigation that cannot be emitted are errors.
Handle(i, c) ==
  /\ Working(i) /\ worker[i] = c
  /\ \/ /\ entry[c] # i \/ op[c] = "navigate" \/ context[i] = Absent
        /\ Respond(c, Failed) /\ UNCHANGED navigated
     \/ /\ entry[c] = i /\ op[c] = "context" /\ context[i] # Absent
        /\ Respond(c, context[i]) /\ UNCHANGED navigated
     \/ /\ entry[c] = i /\ op[c] = "navigate"
        /\ Respond(c, Accepted) /\ Navigate(i, c)
  /\ worker' = [worker EXCEPT ![i] = "loop"]
  /\ UNCHANGED <<deskVars, backlog, op, entry, fileVars>>

-----------------------------------------------------------------------------
(* UiContextClient::exchange                                               *)

Fail(c) ==
  /\ step' = [step EXCEPT ![c] = "answered"]
  /\ answer' = [answer EXCEPT ![c] = Failed]

Ask(c, what) ==
  /\ step[c] = "idle"
  /\ step' = [step EXCEPT ![c] = "begun"]
  /\ op' = [op EXCEPT ![c] = what]
  /\ UNCHANGED <<deskVars, serveVars, entry, answer, fileVars>>

ReadRegistry(c) ==
  /\ step[c] = "begun"
  /\ \/ registry = Absent /\ Fail(c) /\ UNCHANGED entry
     \/ /\ registry # Absent
        /\ entry' = [entry EXCEPT ![c] = registry]
        /\ step' = [step EXCEPT ![c] = "found"]
        /\ UNCHANGED answer
  /\ UNCHANGED <<deskVars, serveVars, op, fileVars>>

\* The request goes to whoever listens at the address now.
Connect(c) ==
  /\ step[c] = "found"
  /\ LET there == {i \in Instances : Listening(i) /\ port[i] = port[entry[c]]} IN
     \/ there = {} /\ Fail(c) /\ UNCHANGED backlog
     \/ \E i \in there :
          /\ backlog' = [backlog EXCEPT ![i] = Append(@, c)]
          /\ step' = [step EXCEPT ![c] = "waiting"]
          /\ UNCHANGED answer
  /\ UNCHANGED <<deskVars, worker, navigated, op, entry, fileVars>>

\* The connection breaks, or the response takes longer than IO_TIMEOUT; the
\* request stays where it is.
GiveUp(c) ==
  /\ step[c] = "waiting" /\ Fail(c)
  /\ UNCHANGED <<deskVars, serveVars, op, entry, fileVars>>

-----------------------------------------------------------------------------
InstanceStep(i) == Start(i) \/ Register(i) \/ Stop(i) \/ Die(i) \/ AcceptFails(i)
WorkspaceStep(i) == Build(i) \/ \E m \in mail[i] : Publish(i, m)
\* What runs on by itself once an instance has been told to stop.
EndStep(i) ==
  Joined(i) \/ RemoveOwn(i) \/ Exit(i) \/ Accept(i) \/ \E c \in Calls : Handle(i, c)
ExchangeStep(c) == ReadRegistry(c) \/ Connect(c) \/ GiveUp(c)

BridgeStep ==
  \/ \E i \in Instances : InstanceStep(i) \/ WorkspaceStep(i) \/ EndStep(i)
  \/ \E c \in Calls : ExchangeStep(c)

-----------------------------------------------------------------------------
Replies == {Accepted, Failed} \cup Snapshots

FileTypeOK ==
  /\ registry \in {Absent} \cup Instances /\ holder \in {Absent} \cup Instances
  /\ lost \in BOOLEAN
DeskTypeOK ==
  /\ life \in [Instances -> {"new", "replacing", "serving", "stopping",
                             "removing", "ended"}]
  /\ port \in [Instances -> {Absent} \cup Ports]
  /\ context \in [Instances -> {Absent} \cup Snapshots]
  /\ built \in [Instances -> Nat] /\ \A i \in Instances : built[i] <= MaxRevision[i]
  /\ mail \in [Instances -> SUBSET Snapshots]
ServeTypeOK ==
  /\ backlog \in [Instances -> Seq(Calls)]
  /\ worker \in [Instances -> Calls \cup {"none", "loop", "exited"}]
  /\ navigated \in [Calls -> [Instances -> Nat]]
ClientTypeOK ==
  /\ step \in [Calls -> {"idle", "begun", "found", "waiting", "answered"}]
  /\ op \in [Calls -> {Absent, "context", "navigate"}]
  /\ entry \in [Calls -> {Absent} \cup Instances]
  /\ answer \in [Calls -> {Absent} \cup Replies]
\* A port is one listener's.
OnePortEach ==
  \A i, j \in Instances : Listening(i) /\ Listening(j) /\ port[i] = port[j] => i = j

BridgeTypeOK == FileTypeOK /\ DeskTypeOK /\ ServeTypeOK /\ ClientTypeOK /\ OnePortEach

(***************************************************************************)
(* Whatever the order in which the commands that publish snapshots arrive, *)
(* an instance shows the newest of those that have arrived.                *)
(***************************************************************************)
NewestIsShown ==
  \A i \in Instances : \A r \in 1 .. built[i] :
    (\A m \in mail[i] : m.revision # r) => Published(i) >= r

(***************************************************************************)
(* What a client is answered comes from the instance that the registry     *)
(* named to it, even if that has ended since and another one has been      *)
(* given its port.                                                         *)
(***************************************************************************)
AnsweredByNamed ==
  \A c \in Calls :
    /\ answer[c] \notin {Absent, Accepted, Failed} => answer[c].by = entry[c]
    /\ \A i \in Instances : navigated[c][i] > 0 => i = entry[c]

(***************************************************************************)
(* A navigation happens at most once, also when its client has given up    *)
(* before it was served, and has happened when it is acknowledged.         *)
(***************************************************************************)
NavigatedOnce ==
  \A c \in Calls :
    /\ \A i \in Instances : navigated[c][i] <= 1
    /\ answer[c] = Accepted => navigated[c][entry[c]] = 1

(***************************************************************************)
(* Both promises of exchange: who answers, and how often a client is served. *)
(***************************************************************************)
ExchangeIsExact == AnsweredByNamed /\ NavigatedOnce

(***************************************************************************)
(* The instance that has registered last is found as long as it serves:    *)
(* another one that ends does not take its registry away, unless it was    *)
(* between reading the file and removing it when this one registered, or   *)
(* has died between removing the file and writing its own.                 *)
(***************************************************************************)
LatestIsFound ==
  holder # Absent /\ life[holder] = "serving" /\ ~lost =>
    registry = holder \/ \E j \in Instances : life[j] = "replacing"
=============================================================================
