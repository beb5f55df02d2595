----------------------------- MODULE McpServer -----------------------------
(***************************************************************************)
(* The tools of an MCP server that follow the desktop program (dexdec-mcp, *)
(* server.rs): a call reads a snapshot over the bridge, opens or reuses    *)
(* the project it shows in the server's own workbench, and decompiles the  *)
(* class it shows.  Each call is a task; the steps below are what it does  *)
(* between two points at which others run.                                 *)
(***************************************************************************)
EXTENDS UiContextBridge

CONSTANTS
  Paths,         \* archives
  MaxSessions    \* bound: sessions opened

ASSUME ServerAssumption ==
  /\ MaxSessions \in Nat
  /\ \A r \in 1 .. Len(Views) : Views[r].project \in Paths \cup {Absent}

VARIABLES
  tool,       \* the tool of each call
  stage,      \* how far it is, after the exchange
  project,    \* the session it works on
  sessions,   \* sessions of the workbench: the path of each, by id
  opened,     \* the ids given out: next_session_id
  product,    \* the source a call returned: of which path and class
  seen        \* history: the sessions each call has found open

serverVars == <<tool, stage, project, sessions, opened, product, seen>>
vars == <<bridgeVars, serverVars>>

Ids == 1 .. MaxSessions
OpenSessions == {s \in Ids : sessions[s] # Absent}

Init ==
  /\ BridgeInit
  /\ tool = [c \in Calls |-> Absent]
  /\ stage = [c \in Calls |-> "idle"]
  /\ project = [c \in Calls |-> Absent]
  /\ sessions = [s \in Ids |-> Absent]
  /\ opened = 0
  /\ product = [c \in Calls |-> Absent]
  /\ seen = [c \in Calls |-> {}]

Reach(c, s) == stage' = [stage EXCEPT ![c] = s]

\* get_ui_context, reveal_in_ui, open_active_project, decompile_active_class
Call(c, t) ==
  /\ stage[c] = "idle"
  /\ tool' = [tool EXCEPT ![c] = t]
  /\ Reach(c, "exchange")
  /\ Ask(c, IF t = "reveal" THEN "navigate" ELSE "context")
  /\ UNCHANGED <<project, sessions, opened, product, seen>>

\* What the snapshot of a call shows.
Shown(c) == answer[c].view

\* live_ui_context is back: a call ends without a project, or without the
\* class it is about.
Follow(c) ==
  /\ stage[c] = "exchange" /\ step[c] = "answered"
  /\ Reach(c, IF /\ tool[c] \in {"open", "decompile"}
                 /\ answer[c] # Failed
                 /\ Shown(c).project # Absent
                 /\ tool[c] = "decompile" => Shown(c).class # Absent
              THEN "ensure" ELSE "done")
  /\ UNCHANGED <<bridgeVars, tool, project, sessions, opened, product, seen>>

Found(c) == {s \in OpenSessions : sessions[s] = Shown(c).project}
Least(S) == CHOOSE s \in S : \A t \in S : s <= t

AfterEnsure(c) == IF tool[c] = "open" THEN "done" ELSE "decompile"

\* Mutant: the project is always opened anew.
LookForNone(c) ==
  /\ stage[c] = "ensure" /\ Reach(c, "open")
  /\ seen' = [seen EXCEPT ![c] = OpenSessions]
  /\ UNCHANGED <<bridgeVars, tool, project, sessions, opened, product>>

\* ensure_project: the list of projects, ...
LookForProject(c) ==
  /\ stage[c] = "ensure"
  /\ seen' = [seen EXCEPT ![c] = OpenSessions]
  /\ \/ /\ Found(c) # {}
        /\ project' = [project EXCEPT ![c] = Least(Found(c))]
        /\ Reach(c, AfterEnsure(c))
     \/ /\ Found(c) = {}
        /\ Reach(c, "open") /\ UNCHANGED project
  /\ UNCHANGED <<bridgeVars, tool, sessions, opened, product>>

\* ... then Workbench::open, which may fail.
OpenSession(path) ==
  /\ opened < MaxSessions
  /\ opened' = opened + 1
  /\ sessions' = [sessions EXCEPT ![opened'] = path]

OpenProject(c) ==
  /\ stage[c] = "open"
  /\ \/ /\ OpenSession(Shown(c).project)
        /\ project' = [project EXCEPT ![c] = opened']
        /\ Reach(c, AfterEnsure(c))
     \/ /\ Reach(c, "done")
        /\ UNCHANGED <<project, sessions, opened>>
  /\ UNCHANGED <<bridgeVars, tool, product, seen>>

\* Mutant: the class is the one that is shown by now.
DecompileCurrent(c) ==
  /\ stage[c] = "decompile" /\ Reach(c, "done")
  /\ LET now == context[answer[c].by] IN
     IF sessions[project[c]] # Absent /\ now # Absent
     THEN product' = [product EXCEPT ![c] =
                        [path |-> sessions[project[c]], class |-> now.view.class]]
     ELSE UNCHANGED product
  /\ UNCHANGED <<bridgeVars, tool, project, sessions, opened, seen>>

\* run_request of decompile_class, which fails if the project was closed, and
\* may be cancelled or fail otherwise
DecompileActive(c) ==
  /\ stage[c] = "decompile" /\ Reach(c, "done")
  /\ \/ /\ sessions[project[c]] # Absent
        /\ product' = [product EXCEPT ![c] =
                         [path |-> sessions[project[c]], class |-> Shown(c).class]]
     \/ UNCHANGED product
  /\ UNCHANGED <<bridgeVars, tool, project, sessions, opened, seen>>

\* open_project and close_project
OpenPath(path) ==
  /\ OpenSession(path)
  /\ UNCHANGED <<bridgeVars, tool, stage, project, product, seen>>
CloseProject(s) ==
  /\ sessions[s] # Absent
  /\ sessions' = [sessions EXCEPT ![s] = Absent]
  /\ UNCHANGED <<bridgeVars, tool, stage, project, opened, product, seen>>

-----------------------------------------------------------------------------
CallStep(c) == Follow(c) \/ LookForProject(c) \/ OpenProject(c) \/ DecompileActive(c)

Next ==
  \/ BridgeStep /\ UNCHANGED serverVars
  \/ \E c \in Calls, t \in {"context", "reveal", "open", "decompile"} : Call(c, t)
  \/ \E c \in Calls : CallStep(c)
  \/ \E path \in Paths : OpenPath(path)
  \/ \E s \in Ids : CloseProject(s)

\* The thread of a bridge, and the drop that joins it, run on.
Fairness == WF_vars((\E i \in Instances : EndStep(i)) /\ UNCHANGED serverVars)

Spec == Init /\ [][Next]_vars
FairSpec == Spec /\ Fairness

-----------------------------------------------------------------------------
TypeOK ==
  /\ BridgeTypeOK
  /\ tool \in [Calls -> {Absent, "context", "reveal", "open", "decompile"}]
  /\ stage \in [Calls -> {"idle", "exchange", "ensure", "open", "decompile", "done"}]
  /\ project \in [Calls -> {Absent} \cup 1 .. opened]
  /\ sessions \in [Ids -> {Absent} \cup Paths]
  /\ opened \in 0 .. MaxSessions
  /\ product \in [Calls -> {Absent} \cup
                   [path : Paths, class : {Views[r].class : r \in 1 .. Len(Views)}]]
  /\ seen \in [Calls -> SUBSET (1 .. opened)]

(***************************************************************************)
(* decompile_active_class returns the class and the project that one       *)
(* snapshot showed together: the workspace may move on while the project   *)
(* is opened, and the project may be closed, without the two being mixed.  *)
(***************************************************************************)
ProductIsShown ==
  \A c \in Calls : product[c] # Absent =>
    product[c] = [path |-> Shown(c).project, class |-> Shown(c).class]

(***************************************************************************)
(* The tools reuse an open project: a call that has opened one had found   *)
(* none of its path.  Two calls at a time may still open it twice, each    *)
(* before the other's is in the list.                                      *)
(***************************************************************************)
ProjectIsReused ==
  \A c \in Calls : project[c] # Absent =>
    \A s \in seen[c] : sessions[s] # Absent /\ sessions[s] = Shown(c).project
                      => project[c] <= s

(***************************************************************************)
(* The tools follow the snapshot they have read, in what they open and in  *)
(* what they return.                                                       *)
(***************************************************************************)
SnapshotIsFollowed == ProductIsShown /\ ProjectIsReused

(***************************************************************************)
(* A desktop program that is told to end ends: its drop joins the thread   *)
(* of the bridge, whatever clients are waiting there.                      *)
(***************************************************************************)
Ending == {i \in Instances : life[i] \in {"stopping", "removing"}}
EveryEndCompletes == Ending # {} ~> Ending = {}
=============================================================================
