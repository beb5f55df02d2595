# A TLA+ verification project for dexdec

dexdec is a decompiler for Android applications: a Rust library and command
line, a desktop application (Tauri, with a TypeScript front end) and an MCP
server for coding agents. This directory holds TLA+ modules that model its
stateful parts, TLC configurations that check them on small instances, and
proofs that TLAPS checks for every instance. `PROJECT.json` maps every
definition to the lines it models; paths below are relative to `src/`.

Contents: [1 Inventory](#1-inventory), [2 Modules](#2-modules-and-how-they-correspond-to-the-code),
[3 Runs](#3-runs), [4 Fairness](#4-fairness), [5 Proofs](#5-proofs),
[6 Findings](#6-findings), [7 What is not modelled](#7-what-is-not-modelled),
[8 Plan](#8-plan), [9 Running](#9-running).

## 1 Inventory

### How the parts interact

```
 editor, explorer, panels (components/*.tsx)
        | calls                       ^ state
 workspace store (state/workspace.ts) |-- projectSession.ts  (edits, save point)
   one JS thread, many awaits         |-- editorLayout.ts    (groups and tabs)
        | Tauri commands              |-- activity.ts        (running tasks)
 src-tauri: lib.rs, project.rs (DexDb), shutdown.rs
        | blocking worker threads
 Workbench (dexdec-workbench/service.rs) <--- MCP server (dexdec-mcp), same calls
   RequestRegistry | map of sessions | one mutex per session
        |
 decompiler library (dexdec): reader -> requests -> IR -> analyses -> Java / Kotlin

 the desktop program publishes what it shows --> UI context bridge (dexdec-mcp)
                      registry file, local port <--> MCP server, for each tool call
```

Messages between the front end and the backend are independent: answers come in
any order, and a cancel is a message of its own.

### Components

| Component | State | Operations | Hard | Correct when |
|---|---|---|---|---|
| **Request registry** `dexdec-workbench/src/service.rs:489-626` | map from (domain, session, request id) to a cancellation flag; leases hold the flag | begin, acquire, cancel, cancel_project, cancel_all, drop of a lease | begin, work and cancel come from different threads; flags are compared by address, and freed addresses are used again | a cancel stops the request it names and no other; no entry outlives its request |
| **Workbench** `service.rs:24-467` | map of sessions, each with mutex, decompiler, observer, scope; poisoned mutexes | open, close, projects, class, method, references, code search, inspections | cancels at any point, errors and panics with the mutex held, `projects` holds two levels of locks | a session is handed on clean, a cancelled request does not work on, every call returns |
| **Project session** `dexdec-gui/src/domain/projectSession.ts` | aliases, commands, cursor, saved signature | activate, close, rename, undo, redo, markSaved | each command knows one symbol, undone commands are cut off | undo and redo move along complete versions |
| **Project lifecycle** `workspace.ts` (open, close, save, exit), `project.rs`, `shutdown.rs`, `App.tsx` | archive shown, status copy, running flows, files, prompt flag | openArchive, closeProject, saveProject(As), renameSymbol, undo, redo, requestExit | every handler has several awaits; saves run on a thread pool; dialogs and failures in between | unsaved edits go only by choice; what is "saved" is on disk; the window can be closed |
| **Documents** `workspace.ts:288-1630` | cache, tabs, pins, closed tabs, active and loading class, request id, peek, references | selectClass, tabs, peek, references, language, settings | answers arrive after anything; one counter for three kinds of requests | cache and tabs agree with the archive; what loads is fetched; the active tab gets its document |
| **Editor layout** `domain/editorLayout.ts` | tree of groups; tabs, active, preview of each | open, close, move, split, retain, ... | groups disappear with their last tab | focus, active and preview always exist |
| **Activity center** `state/activity.ts` | tasks by scope, cancel handlers | begin, finish, cancelScope | a cancel handler changes the store of its caller | a task ends once |
| **Code search** `code_search.rs`, `CodeSearchPanel.tsx` | batch, count, truncated | scan, finish | limit at a batch boundary, cancel between classes | no result lost or doubled within the limit |
| **UI context bridge** `dexdec-mcp/src/ui_context.rs` | registry file, port, last snapshot, one serving thread | start, publish, serve, end; a client's exchange | several instances share a file, ports are given out again, time-outs, publishes out of order | the newest snapshot is shown; a call reaches the instance it was told of, and moves it once; ends complete |
| **MCP server** `dexdec-mcp/src/server.rs` | sessions of its own workbench | tools that follow the desktop program, open, close | the desktop program moves on between the steps of a call | what is returned belongs to one snapshot; open projects are reused |
| **Names** `renameService.ts`, `archiveMemberResolver.ts` | caches per archive | present, resolve | presented late over newer documents | what is shown has the current names |
| **Reader of an archive** `dexdec/src/frontend/dex_reader.rs` | classes loaded, their links, analysis of overrides, revision | load one, many or all, link, analyse, clear | malformed classes end a load half-way | one revision stands for one class graph |
| **Requests of a decompiler** `dexdec/src/api.rs`, `api/decompiler.rs` | hierarchy, source ABIs, contract roots by revision; decoded CFGs | class, method, outline, archive pass, all classes | each step may load more classes, fail or be cancelled; archive passes keep CFGs | what is rendered is prepared for the classes loaded; nothing is left behind; requests end |
| **IR and analyses** `dexdec/src/ir` | graphs of methods | split, normalise, dominators, SSA form, termination, exceptions, types, structure | irreducible graphs, handlers, recursion | each is what its definition says |
| Parsing, code generation | - | DEX, APK, Java and Kotlin text | - | - |
| Shell, agent configuration, settings, views, scripts | - | I/O and display | - | - |

The hazards of these parts, each with its line and the properties aimed at it,
are listed in `PROJECT.json`; those without a property say why.

## 2 Modules and how they correspond to the code

| Module | Models | Built on |
|---|---|---|
| `RequestRegistry` | the registry, as the contract the calls must keep | - |
| `Workbench` | sessions, locks and calls | `RequestRegistry` |
| `EditTimeline` | what undo and redo promise (abstract) | - |
| `ProjectSession` | commands, cursor and save point | implements `EditTimeline` |
| `ProjectLifecycle` | flows of the workspace, files, shutdown | `ProjectSession` |
| `EditorLayout` | operations on layouts, as functions | - |
| `Documents` | documents, tabs and their requests | `EditorLayout` |
| `DexReader` | the classes of an archive that are loaded, and their revision | - |
| `DecompilerContext` | the requests of a decompiler | `DexReader` |
| `FlowGraphs` | edges, blocks and what is reached along edges | - |
| `Dominators` | dominator trees, frontiers, post-dominators | `FlowGraphs` |
| `ControlFlow` | from instructions to a normalised graph | `Dominators` |
| `SsaForm` | liveness, phis, renaming, simplification | `ControlFlow` |
| `MethodTermination` | methods that never return | `FlowGraphs` |
| `UiContextBridge` | desktop programs, their registry and their clients | - |
| `McpServer` | tools that follow the desktop program | `UiContextBridge` |
| `MC*` | instances for TLC | the module named |
| `*Proofs` | theorems and proofs | see [5](#5-proofs) |

**RequestRegistry.** `active` is the map, `flagged` the flags that are set, `key`
and `token` what each call has begun and acquired. Tokens are *addresses*: `begin`
and `acquire` may take any address that nothing refers to, so `Arc::ptr_eq` may
be fooled if it can be. `asked` is history: the calls whose key was cancelled
while they were under way. The constant `ReusedDomains` names the domains in
which clients use an id twice. Both do: the counter of the search panel starts
again when it is opened, the interactive id can go back (`workspace.ts:1541`), so
`workbench_requests` has both. A call whose id is begun again while it still waits
for its lease then shares the token of the new one; `crossed` is the history of
such calls, and what is said of cancels excepts them and no others (finding 1 is
about them).

**Workbench.** A call is a thread with a program counter; a step is what it does
between two points at which it can wait or be overtaken (`begin`, `acquire`,
`lookup`, `lock`, the checks, each pass over the decompiler, the release). What is
computed is left out: a pass ends, fails, panics or notices its flag. The labels
`setup`/`teardown` are where the observer is set and reset; `dirty` says whether
the analysis scope holds something. `mapOwner` is the map's mutex where it is held
across a wait (`projects`), `holder` the mutex of each session.

**ProjectSession.** Variables named as the fields of the class. `Rename` is
`CommandHistory.execute`: it cuts off what was undone. `ImplementsTimeline` maps
the commands to complete versions: version *n* gives a symbol what the last of the
first *n* commands on it wrote, or what the first later one replaces, or its
record.

**ProjectLifecycle.** A *flow* is one call of an asynchronous handler. Its frame
holds where it is and what it captured, and one action is what runs between two
awaits; `Persist`, `Confirm` and `Proceed` are the parts handlers share. `disk` is
one content per file (a save is one SQLite transaction). `status` is the
workspace's copy of the session's state. `overlapped` and `touched` are history,
to say which edits were made when, and so is `raced`: the sessions that were shown
while another open or close had already captured the one before. `delivery` is the
close-requested event, which is lost when the page has not subscribed yet.
`ModalDialogs` says whether a user can start something while a dialog is open.
`OneReplacement` is a bound: in the runs about saves and exits one open or close is
under way at a time. `lifecycle_replace` runs without both, since nothing in the
code keeps two drops on the window (`App.tsx:203`) from overlapping; no theorem
uses either.

**EditorLayout.** The tree of splits is the sequence of its leaves: a new group is
put beside the one it splits, and everything else asks for the leaves in order.
Axes and sizes are display.

**Documents.** `page` is one record: the fields of the store these handlers use,
and `calls`, the requests that are not answered. Handlers run uninterrupted up to
their next await, so they are functions from pages to pages, and handlers that call
`selectClass` apply `Select`. The service may answer or fail any call at any time;
one that was cancelled may still answer. `presentDocument` is the second await of
a load (phase `present`), resolving the member the first of a search (`resolve`).
`references.of`, `references.asked`, `overtaken`, `untrimmed` (classes that have lost their
pin since documents were trimmed) and the session of a document are history.

**DexReader.** What an archive declares is constant; `broken` are the classes whose
data cannot be materialised. `loaded` is the map of classes, `linked` and `analysed`
say of which classes nested classes were last linked and overrides analysed.
`load_class` raises the revision at once, `load_classes` and `load_all_classes` at
their end; `unmarked` is history: what an error has left inserted in between.

**DecompilerContext.** A decompiler is used by one thread at a time: nothing
interleaves with a request, but each finds what earlier ones left. `where` is the
place in the request, an action is what runs between two points where an error or a
cancellation can end it (`Erring`, `Checkpoint`), `todo` and `seen` are the local
work list of that place. A cache is the set of classes it was made of and their
revision; code is followed by class: its CFG is raw or resolved, and *ended* once
what follows calls that never return has been cut. `FailRequest` and `FailJob` are
all error paths, with what each clears. `first` and `aborted` (a pass or a selection has
failed since the scope was cleared, or left classes inserted under an old revision) are
history.

**Dominators, ControlFlow, SsaForm, MethodTermination** are algorithms, translated as
operators: `Compress`, `Link`, `Settle` are Lengauer and Tarjan's, `Split` the
splitter, `Normalise` the rounds of the normalization stage with their independent
edits, `Rename` the walk along the dominator tree with its stacks, `Found` the work
list of termination. Next to each stands what it is measured by: paths of the graph,
the steps of the program, the values that control carries along. A block is named by
its first position, an instruction keeps its registers, whether it throws and where
it goes. `subject` is the graph, program or system that is looked at.

**UiContextBridge.** An instance is one run of a desktop program; `life` says how far
it is, `worker` what the thread of `serve_bridge` does, `backlog` the connections its
listener has not accepted. An error of `accept` ends the thread while its instance
goes on (`AcceptFails`): clients then connect to nobody. Tokens are random, so an entry of the registry is the
instance itself. The steps of a client are those of `exchange`; `GiveUp` is a time-out
or a broken connection and leaves the request where it is. `Die` is a crash. Start
(remove the old file, rename the new one) and end (read whose file it is, remove) have
two steps each, as in the code. `holder`, `lost` and `navigated` are history.

**McpServer.** One action for what a tool call does between two awaits: read the
snapshot, look for an open project, open it, decompile. Users open and close projects
of the same workbench at any time.

## 3 Runs

Every property has a mutant in `PROJECT.json`: a plausible bug in a mapped definition
with which TLC finds the property violated. Those that put several statements
together have more than one.

| Run | Instance and bounds | Shows |
|---|---|---|
| `workbench_requests` | 3 threads, 1 session, 2 ids of each domain, all used again, 1 class, 4 calls | `TypeOK`, `ObserverIsOwn`, `CancelledNeverResumes` with cancels and repeated ids anywhere; the registry is used as `RegistrySpec` says and keeps `RegistryIsExact` |
| `workbench_sessions` | 3 threads, 2 sessions, 4 calls, panics | `FreeSessionIsClean` when sessions come, go and are poisoned; `ListIsSnapshot`; `EveryCallReturns` (liveness) |
| `workbench_reused_id` | 3 threads, one id | violation, [finding 1](#6-findings) |
| `lifecycle_saves` | 2 flows, 2 files, 2 sessions | `LifecycleTypeOK`; `SavePointUnlessOverlapped` under failures, save as, reopening |
| `lifecycle_replace` | 2 flows, 2 sessions, nothing modal, opens and closes overlap | `StatusInStep`, `NoLeakedSession`, `DiscardIsChosen`; `SessionSpec`, so the session's theorems apply |
| `lifecycle_exit` | 2 flows, 1 session, 2 commands | `PromptEnds` (liveness), `PromptIsHeld`; `HistoryFits` and `ImplementsTimeline` of the session on the way |
| `lifecycle_save_point` | 2 flows | violation, finding 2 |
| `documents_tabs` | 2 classes, cache limit 1, 2 groups, 2 archives, 5 operations, 2 calls at a time | `DocumentsTypeOK` (with a well-formed layout), `CacheOfArchive`, `CacheInBounds`, `LoadingIsFetched`, `ResultsAreAsked` |
| `documents_strand` | the same, 4 operations | violation, finding 3 |
| `decompiler` | 4 classes and a type of the platform, no class malformed or two, two batches, two requests and an outline; 1250 flow graphs, about 3700 programs, 8192 systems of methods | `TypeOK`, `RevisionVouches`, `RenderIsPrepared`, `CodeIsWhole`, `JobsAreResolved`, `IsolatedRendersRepeat`, `EveryRequestEnds` (liveness); `DominanceIsExact`, `NormalFormIsExact`, `SsaFormIsExact`, `NoReturnIsExact` |
| `decompiler_batch` | the same classes, one request | violation, finding 4 |
| `mcp_server` | 2 instances, 2 ports, 1 call, snapshots of two kinds, 2 sessions | `TypeOK`, `NewestIsShown`, `ExchangeIsExact`, `LatestIsFound`, `SnapshotIsFollowed`; `EveryEndCompletes` (liveness) |

Why the bounds are enough to be interesting.

- *Workbench*: three threads are a holder, a waiter and one that supersedes or lists;
  a class is looked at between two checks; four calls let a thread be used
  again after an error, and addresses of flags be freed and taken again while an older
  call still compares with them. Whatever the numbers, section 5 proves these properties.
- *Lifecycle*: two flows are the race, two files are "save" and "save as"; a third flow
  only repeats a race of two. Two commands give an undo, and a rename after it that cuts.
- *Documents*: the code's limits of 12 documents and 10 closed tabs are 1 and 1, so two
  classes overflow both; five operations reach pin, load, unpin and close in any order,
  with two late answers.
- *Decompiler*: an outer class, a lambda nested in it, a helper that is called by the
  first and calls back, and a class only the analysis of nullability asks for are the
  smallest archive in which every loop goes round twice; a second request meets whatever
  the first one left, at any of its ends, and an outline loads a class in between. The
  two malformed classes let a load fail with and without classes inserted before; a
  callee of the platform is one that cannot be had. One batch lists a class with the one
  nested in it, the other one leaves that to be found.
- *Analyses*: six blocks on a chain with two more edges anywhere (ordinary and
  exceptional) hold irreducible loops and handlers that only handlers reach; six
  instructions in four shapes of protected ranges hold loops, calls with results, dead
  code and blocks cut by ranges; they are kept only if the verifier of the runtime would
  accept them. Three methods of six shapes calling one another hold every kind of
  recursion, calls caught and calls in loops.
- *Bridge*: two instances and two ports let a port be given out again and the file be
  replaced; the second instance never publishes, which is the instance a client finds
  with nothing to answer. One call is enough: calls do not read what others write but
  for the lines they wait in, and section 5 proves the properties for any number.

Bounds and their names: `MaxSession`, `MaxCalls`, `MaxClasses` (Workbench),
`MaxCommands` (ProjectSession), `OneReplacement` (ProjectLifecycle),
`MaxSessions` (ProjectLifecycle, Documents, McpServer),
`MaxActs`, `MaxCalls`, `MaxGroups` (Documents), `MaxRequests` (DecompilerContext; an
outline counts one, other requests two), `MaxRevision` (UiContextBridge). Classes, calls,
request ids, flows, aliases are symmetric where a run says so; symmetry is not used in
runs with liveness. Deadlock is not checked where the bounds, or the end of the program, stop the
system (`CHECK_DEADLOCK FALSE`); in the workbench and decompiler runs it is.

## 4 Fairness

*Workbench* (`FairSpec`): weak fairness of each call's own steps. A thread that
holds or can take a lock runs on, and a pass over the decompiler ends (the analyses
are bounded). The mutexes of the standard library are not fair, so a waiter could
starve under endless calls; the bound on calls is what excludes that, and
`EveryCallReturns` is to be read as "no deadlock and no forgotten lock", not as a
guarantee against starvation. Clients need not call or cancel, panics need not happen.

*Lifecycle* (`FairSpec`): weak fairness of the continuation of each flow: the backend
answers, and the user answers a dialog that is open. Strong fairness of the handler
of the close request: the event loop runs every event, and only the model's bounded
frames can be in use at times. Users need not start anything.

*Decompiler* (`FairSpec`, `MCFairSpec`): weak fairness of the steps of a request: the
thread that called runs on. Errors and cancellations are among these steps but none is
forced. Nobody has to make a request.

*MCP server* (`FairSpec`): weak fairness of the thread that serves an instance and of the
drop that joins it (`EndStep`), which are threads of a process that runs. An instance
may die instead. Clients, workspaces and users need not do anything.

*Documents* states no liveness: its finding is a state that nothing leaves.

## 5 Proofs

`tlapm` checks 14859 obligations in eight modules: `WorkbenchProofs` (the registry and the
workbench), `ProjectSessionProofs`, `ProjectLifecycleProofs`, `DecompilerProofs` (reader and
requests), `McpServerProofs` (bridge and tools), `LayoutProofs`, `DocumentsProofs` and
`TerminationProofs`.

| Theorem | States | Rests on |
|---|---|---|
| `RegistrySafety` | `RegistrySpec => [](RegistryTypeOK /\ RegistryIsExact)` | `RegistryInv` |
| `WorkbenchTypes` | `Spec => []TypeOK` | `WorkbenchInv` |
| `WorkbenchImplementsRegistry` | `Spec => RegistrySpec` | `Registered` |
| `FreeSessionsAreClean` | `Spec => []FreeSessionIsClean` | `Protected` |
| `ObserversAreOwn` | `Spec => []ObserverIsOwn` | `Protected` |
| `ListsAreSnapshots` | `Spec => ListIsSnapshot` | `Listing` with `Control` |
| `CancelledStaysOut` | `Spec => CancelledNeverResumes`, whether or not ids are used again | `Registered` with `RegistryInv` |
| `SessionHistory` | `SessionSpec => [](SessionTypeOK /\ HistoryFits)` | inductive as it stands |
| `SessionImplementsTimeline` | `SessionSpec => ImplementsTimeline` | `HistoryFits` |
| `RevisionSafety` | `Spec => []RevisionVouches` (DecompilerContext) | `RevisionInv` |
| `DecompilerTypes` | `Spec => []TypeOK` | `TypeInv` with `ControlInv` |
| `RenderSafety` | `Spec => []RenderIsPrepared` | `PreparedInv` |
| `CodeSafety` | `Spec => []CodeIsWhole` | `CodeInv` |
| `JobSafety` | `Spec => []JobsAreResolved` | `BatchInv` with `MarkedInv` and `SlotsInv` |
| `RepeatSafety` | `Spec => []IsolatedRendersRepeat` | `ScopeInv` with `FirstInv` |
| `ShownSafety` | `Spec => []NewestIsShown` (McpServer) | `PublishedInv` |
| `ExchangeSafety` | `Spec => []ExchangeIsExact` | `ExchangeInv` |
| `FoundSafety` | `Spec => []LatestIsFound` | `RegistryInv` of the bridge |
| `ServerTypes` | `Spec => []TypeOK` (McpServer) | `ServerInv` |
| `FollowSafety` | `Spec => []SnapshotIsFollowed` | `CallsInv` |
| `LifecycleTypes`, `StatusSafety`, `PromptSafety` | `LifecycleSpec => []` of `LifecycleTypeOK`, `StatusInStep`, `PromptIsHeld` | `LifecycleInv` |
| `LifecycleIsSession` | `LifecycleSpec => SessionSpec` | `SessionEffect` |
| `LifecycleHistory`, `LifecycleImplementsTimeline` | the session's theorems, for every workspace | `LifecycleIsSession` |
| `SavePointSafety` | `LifecycleSpec => []SavePointUnlessOverlapped` | `DiskInv` |
| `ChoiceSafety` | `LifecycleSpec => DiscardIsChosen` | `DiskInv` |
| `SessionsSafety` | `LifecycleSpec => []NoLeakedSession`, opens that overlap included | `SessionsInv` |
| `LoadingSafety`, `ResultsSafety` | `DocumentsSpec => []` of `LoadingIsFetched`, `ResultsAreAsked` | `CallsFit` |
| `ArchiveSafety`, `CacheSafety` | `DocumentsSpec => []` of `CacheOfArchive`, `CacheInBounds` | `CacheFits` |
| `TypesSafety` | `DocumentsSpec => []DocumentsTypeOK` | `TypesFit`, and a lemma for each operation on layouts |
| `NoReturnExact` | `[]SubjectIsSystem => []NoReturnIsExact` | `FoundExact`, `CutReaches` |

Assumptions are those named in the modules: constants are of their kinds, special
values are not members of the sets they are added to.

*Registry.* The promises are not inductive: that an entry belongs to a call says
nothing of what a later drop removes. `RegistryInv` adds that a lease keeps its key,
that only calls under way are in `asked`, and what an address is for
(`TokensAreSole`): the token a call has, or would get now, is registered for no other
key and held by no other call, and while it is registered all other calls of the key
have leases of their own (`Sole`). That is so for every call that is not in `crossed`,
however often its id is begun again: a newer begin takes the entry, not the token. With
it a drop removes only its own entry, although it compares addresses: a token some
lease refers to is never handed out.

*Workbench.* `WorkbenchInv` has three layers, each inductive on the ones before it:
`Control` (a call is at a place its operation has), `Registered` (what the registry
knows of a call follows from where it is, and the registry's invariant holds), and
`Protected` (what a session holds while its mutex is held, and that it is clean when
it is free). One lemma for clients and one for servers carries each layer over all
steps. Given `Registered`, every step is a step of `RegistryNext` or leaves the
registry alone, so `RegistrySafety` holds of the workbench.

*Session.* `HistoryFits` relates each command to the next on the same symbol and to
the records on both sides of the cursor; `Rename` after undo is the case that needs
all three parts. For the refinement, `ShowsPosition` says that the version at the
cursor is the records, and `RenameKeepsPast` that the versions up to the cursor
survive the cut.

*Decompiler.* That caches agree with the revision is inductive only with what the
revision itself vouches for: a class may be inserted long before the revision is raised.
`ReaderStep` says of every operation of the reader that it raises the revision or only
adds what is still unmarked; `CachesStep` says of every action that a cache is kept,
dropped, or made while the reader stands still. The two together keep `RevisionInv`, and
what is left is to find them in each action. `RenderIsPrepared` needs to know how the
generator was reached: `ControlInv` says which kinds of requests can be at a place, and
`PreparedInv` what is current there. The case that needs both is the loop of
`prepare_source_backend`, which leaves only when the revision it began with still holds
(`began`), so that nothing prepared in this round has been outdated in it.

*Code of a decompiler.* `CodeIsWhole` is about CFGs that are kept between requests.
`CodeInv` says for each place of a request which of them may be raw or cut there, and that
an error path that keeps code is one that had not begun to cut it. `JobsAreResolved`
follows an archive pass from the classes it selects to the slots of its jobs: `MarkedInv`
(what is inserted under an old revision is the selection's own, unless a pass has failed),
`SlotsInv` (a slot is empty or belongs to a class of the job), then `SelectInv`, `PassInv`
and `JobInv`, one for each third of the pass. The last says what a job has *taken*: code
that another job's unit had first is decoded again, which is why the property excepts a
class in the unit of another one of the batch.

*Bridge.* `NewestIsShown` needs that snapshots on their way are the instance's own and
have revisions it has counted (`SnapshotsAreOwn`). `ExchangeIsExact` needs that a call is
in at most one line, or with one worker (`PlacedOnce`), and for each place what has
happened to it there; that two listeners never share a port is part of the types.
`LatestIsFound` needs that the file, when it is there, is of the last that registered,
while no other instance is about to remove it.

*MCP server.* `CallsInv` says for each stage of a call what its answer is (`AnswerInv`) and
what it has stored of it (`StageInv`), and that session ids are given out in order, so that
a project that was there before the call has the smaller one (`FollowedBy`).

*Lifecycle.* A flow is overtaken at every await, so what it knows later is what its frame
holds: `FrameFits` lists for each stage what that is. `LifecycleInv` adds that the
workspace's copy of the status is in step and who has the shutdown event. `SessionEffect`
finds for every action the step of the session it takes, or none, so the theorems about the
session hold of the workspace. `DiskInv` relates what a save has read (`SavesAgree`), what
an open has read (`LoadsAgree`) and the save point (`SavedIsOnDisk`) to the files, as long as
nothing has overlapped a save; `ChoiceInv` is what a flow that is about to discard has asked.
`PromptIsHeld` is part of `LifecycleInv`: a flow takes the prompt up in the step that empties
the way, and gives it back in the step in which it ends, so it is in one place. For
`NoLeakedSession` calls may overlap as they like. A session that is being opened is known to
its call only (`FreshAlone`), one that is being closed is not shown (`ReleasedHidden`), and a
call that replaces another session than the one it has captured replaces one in `raced`
(`ViewsFit`). So every session of the backend has an owner (`AllOwned`) after each step: it is
shown, a call is opening or closing it, or it is in `raced`.

*Repeated renders.* Every part of an isolated request loads a closure: the unit, what it
needs, the callees that termination follows, what override analysis loads. A closure is
stated as the least closed set (`Least`), so the order in which its classes come makes no
difference and no induction is needed: what has been loaded stays within every closed set,
and it is closed when nothing is left to do. `ScopeInv` says so for every place a request
can be at. The loop of `prepare_source_backend` is no closure, since it goes on until a
round loads nothing. But each of its stops determines the one that follows (`Ahead`), so its
stops are the least set that contains the first and is followed by `Ahead` (`Trail`), and
as a stop where it ends would be followed by itself, there is only one (`OneEnd`). `FirstInv`
says that what was rendered first came from there as well.

*Documents.* Calls are answered in any order or never, and their ids are used again for
every archive. `CallsFit` says what makes an answer that passes the handlers' comparison
the right one: calls are of archives opened so far, the panel's search has the id its results
are asked with, calls for references of the archive shown are not newer than the page, and
what loads, unless the peek has overtaken it, has a call that is not superseded.
`CacheFits` says that documents are one per class, of the archive shown, and that those
which count are within the limit. The argument for the limit is that trimming keeps places:
`Picked` takes elements of a sequence by their rank (`Ranks`, `EachRank`,
`PickedPlaces`), which injects what is kept into the places allowed (`TrimKeeps`). Operations
of `EditorLayout` are opaque in the proofs of these four theorems, which hold whatever tabs
they leave.

*Layouts.* `DocumentsTypeOK` contains that the layout is well formed: focus, active tabs and
previews exist, a group without an active tab has no tabs, none is there twice. `LayoutProofs`
shows for every operation of `EditorLayout` that it keeps this, from what it does to one
sequence: what is picked, inserted, moved or put in a place still has each element once
(`Picked`, `Within`, `Without`, `InPlaceOf`). `RemoveTabs` closes tabs one after the other, as
a recursive function over how many; that all its values are well formed is shown by the least
number for which one would not be. `TypesFit` adds to the types what handlers rely on when they
hand tabs on.

*Termination.* Everything is shown for every finite system of methods whose graphs are such as
splitting into blocks makes (`IsGraph`: what leaves a method ends its block, exceptional edges
leave blocks where something throws); `SystemsAssumption` has TLC evaluate that on the systems
of the run. `ReachedIsLeast` says that the recursive `ReachedFrom` is the least closed set, by the
least number of nodes that are still to be reached. `PointsAre` turns the steps of the
instructions into those of blocks: control is at an instruction when its block is reached and
nothing before it in the block blocks. So a method returns when the code says that it may
complete, which grows with the methods that return (`CompleteGrows`) and depends on those it
calls only (`OfCallers`). That is the invariant of the work list (`SeenFits`): whoever is not
found may not complete on account of the methods whose callers have been looked at. As nobody
is found twice, after as many rounds as there are methods these are all that were found, so
the set is closed, and it never leaves the least one (`FoundExact`). For the cut, a block is cut
at the first call the analysis blocks, so both graphs reach the same blocks
(`CutReachesBlocks`) and the same instructions in them; with that a graph may complete after
the cut when it could before, for every set of methods among those that return, and the least
closed sets of both systems are the same.

Four of the proofs found errors in what they were to prove, which the instances of the runs
had been too small to show, and the modules say it right now: the type invariant of
`McpServer` was too weak to be inductive; `aborted` missed requests that leave classes
inserted without a pass; `JobsAreResolved` excepted classes nested directly in another one
of the batch, and two levels deep they behave the same; `CacheInBounds` did not hold for
classes that lose their pin where documents are not trimmed (see [6](#6-findings)).

Only model-checked, and why:

- liveness (`EveryCallReturns`, `PromptEnds`, `EveryRequestEnds`, `EveryEndCompletes`):
  fairness and ENABLED are out of the prover's reach;
- `DominanceIsExact`, `NormalFormIsExact`, `SsaFormIsExact`: the algorithms are recursive
  operators, about which nothing can be proved here, and the library's induction theorems take
  the property as an operator, which no prover here can instantiate. Where a proof above needs
  induction, the model has a recursive function instead and the proof takes the least number for
  which it would fail (`HasLeast`, from well-foundedness as a statement about sets). The
  theory of Lengauer and Tarjan's algorithm, of the rounds of normalization and of renaming
  along the dominator tree is beyond what that reaches; they are checked over the inputs
  named above.

## 6 Findings

1. **A cancelled search runs** (`workbench_reused_id`). The panel's ids start again
   at 1 when it is reopened (`CodeSearchPanel.tsx:64`); a search cancelled while its
   worker is queued acquires the flag of the next search with its id.
2. **Edits made during a save are marked saved** (`lifecycle_save_point`).
   `markSaved` takes the records of the moment the save returns, not those that were
   written (`workspace.ts:1866`).
3. **The active tab strands** (`documents_strand`). Whatever cancels a loading class
   by taking the next request id leaves its tab empty: the error path ignores an
   answer that is not for the current id (`workspace.ts:887`), against the comment at
   line 827.
4. **A nested class of a batch is rendered without termination** (`decompiler_batch`).
   A batch that lists an outer class and one nested in it collects the nested one twice;
   the second time its code has been taken already (`api.rs:1563`) and is decoded again,
   after the one solve of termination that `decompiler.rs:478` promises.

Met while modelling, without a run of their own: a close request that comes before the page
has subscribed (`App.tsx:147`) is lost, and as `shutdown.rs:48` sends no second prompt until
the first is answered, the window can then no longer be closed (`PromptIsHeld` names that
state, `PromptEnds` is about prompts that were received); two opens that overlap each close
the session they found, so the one shown in between stays in the backend for ever
(`workspace.ts:493`; `NoLeakedSession` says that only such sessions do); edits made while
another archive opens are lost unasked (the question is asked before the awaits only,
`workspace.ts:467`; `DiscardIsChosen` excepts them, so no property catches this); a peek that is opened while a class loads leaves
the spinner for ever (`LoadingIsFetched` excepts it); the late error of a cancelled
search is shown in the panel of the next (sequences start again at 1); `closedTabs`
come back with old output settings; two tool calls at a time open an archive twice; the
registry of the bridge is lost in the two windows `LatestIsFound` names, and by design
names only the instance that registered last, so that an older one is not found when
that ends. After a batch of classes has failed half-way, the classes it has inserted are
not linked to those nested in them until something else is loaded (`JobsAreResolved`
excepts what follows a failed pass). Pins end with the last tab, and closing a group or all
documents does not trim (`workspace.ts:1124`, `:1292`): a class whose tab was dropped while it
loaded, and which was pinned, then stays in the cache on top of `DOCUMENT_LIMIT`, against
the comment at `workspace.ts:284`, until the next document is stored (`CacheInBounds` excepts
it). They are among the hazards in `PROJECT.json`.

A note on contracts. That a request id is used once is one the front end does not keep in either
domain, so no theorem assumes it: `RegistrySafety` and `CancelledStaysOut` hold whatever ids are
used again, and except the calls in `crossed`, which share a token. What a request does that
begins between the two steps of `Workbench::close` (`service.rs:89`) is in the model, but nothing
in the code or its documents says that it should not run, so no property does either.

## 7 What is not modelled

Most of the 227,000 lines of Rust and TypeScript are text and pure computation that
grows with it: parsers of DEX, APK and resources, tables of platform symbols, two
printers with their name allocation and syntax rewriting, type inference, the recovery
of exception regions, the structuring of control flow. What is modelled of the library
is what keeps state (the reader and the requests) and the analyses with a definition
that fits on a page. The share of lines the models stand for is therefore small (about
two in a hundred) and would stay so: the rest has no state to interleave, and its
correctness is that of printed source.

- *IR*: monitors (`split_monitor_entries`), exception regions, type inference,
  structuring, expression building, and the passes after SSA form but the simplification
  of phis. Registers carry no types, and wide registers are one.
- *Requests*: `get_dex_index` after a class was replaced by a larger definition of a
  later file; parallel rendering, which shares nothing that changes.
- *Bridge*: paths and permissions of the registry file; clocks (a page that is loaded
  again while the clock of the machine steps back counts its revisions from a lower
  number).
- *GUI*: resources, navigation history, session restore, notices, and the presentation of
  names (so also documents presented late, or with old settings). In `Documents` the
  text of a document is left out, and with it everything about output settings but the
  stale marks.
- *Code search*: its place in a request is in `Workbench`; batches, limit and progress are
  not modelled.
- Tauri commands, menus, agent configuration files, settings, views and scripts are I/O
  and display.

## 8 Plan

Order: what decides about data loss and about other people's requests came first.

| Step | Modules | Abstract specification | State |
|---|---|---|---|
| 1 | `RequestRegistry`, `Workbench` | the registry's contract | done, proved |
| 2 | `ProjectSession`, `ProjectLifecycle` | `EditTimeline`; the session for its users | done, safety and refinements proved |
| 3 | `EditorLayout`, `Documents` | - | done but for resources and history; safety proved |
| 4 | `DexReader`, `DecompilerContext` | what a revision vouches for | done, safety proved |
| 5 | `UiContextBridge`, `McpServer` | newest context of the instance named | done, safety proved |
| 6 | `Dominators`, `ControlFlow`, `SsaForm`, `MethodTermination` | paths, programs, least fixed points | done, checked over bounded inputs; termination proved |
| 7 | `Presentation` (names, settings) with `Documents`; `CodeSearch` | documents as functions of class, language, settings, names; the results cut at the limit | open |
| 8 | exception regions and monitors on top of `ControlFlow`; regions of structured control flow | the program's steps | open |

Theorem to come: that dominators found by `Settle` are those of the paths, for which `Dominators`
would have to be written with recursive functions first.

## 9 Running

```
tlc -workers 2 -config WorkbenchRequests.cfg MCWorkbench.tla
tlc -workers 2 -config Decompiler.cfg MCDecompiler.tla
tlc -workers 2 -config McpServer.cfg MCMcpServer.tla
tlapm DecompilerProofs.tla
tlapm TerminationProofs.tla
tlapm DocumentsProofs.tla
```

The configuration of each run is in `PROJECT.json`. A run takes up to about three minutes
with two workers, the proofs a few minutes.
