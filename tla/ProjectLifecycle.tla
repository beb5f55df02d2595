------------------------- MODULE ProjectLifecycle -------------------------
(***************************************************************************)
(* Opening, editing, saving, closing and leaving a project (dexdec-gui:    *)
(* state/workspace.ts, with projectSession and the DexDb files and the     *)
(* ShutdownController of src-tauri).                                       *)
(*                                                                         *)
(* JavaScript runs one handler at a time, up to its next await.  A flow is *)
(* one call of an asynchronous handler, and each action below is what runs *)
(* between two awaits of it: any other flow, and any user action, can come *)
(* in between.  The answers of the backend come in any order; saves run on *)
(* a pool of threads, so they may also commit in any order.  Opening the   *)
(* archive is one such await: the presentation and the tabs of the         *)
(* workspace, and the flags that only drive spinners, are left out.        *)
(***************************************************************************)
EXTENDS ProjectSession, FiniteSets

CONSTANTS
  Flows,           \* the calls that can be under way at one time
  MaxSessions,     \* bound: backend sessions opened
  ModalDialogs,    \* does a dialog keep the user from starting anything else
  OneReplacement   \* bound: one open or close at a time

ASSUME LifecycleAssumption ==
  /\ MaxSessions \in Nat
  /\ ModalDialogs \in BOOLEAN /\ OneReplacement \in BOOLEAN

VARIABLES
  shown,           \* sessionId of the archive the workspace shows, or 0
  status,          \* projectPath, projectDirty, canUndo and canRedo
  flow,            \* the frame of each call
  backend,         \* the sessions of the backend that are open
  nextSession,
  disk,            \* the content of each dexdb file
  promptPending,   \* ShutdownController.prompt_pending
  delivery,        \* the close-requested event: none, queued or lost
  listening,       \* has the page subscribed to that event
  exited,          \* ShutdownController.confirmed, and the process is gone
  overlapped,      \* history: has something happened during a save
  touched,         \* history: the flows since whose confirmation the
                   \* session has changed
  raced            \* history: the sessions shown under another open or close

lifecycleVars == <<sessionVars, shown, status, flow, backend, nextSession, disk,
                   promptPending, delivery, listening, exited, overlapped, touched,
                   raced>>

Sessions == 1 .. MaxSessions
Contents == [archive : Archives, records : Records]

Stages == {"idle", "asking", "choosing", "saving", "saved", "loading", "opening",
           "closing", "releasing", "preparing", "cancelling", "confirming"}

\* A frame: where the call is, what it is for and what it has captured.
Frames == [pc     : Stages,
           goal   : {"none", "open", "close", "exit", "save", "rename"},
           target : Archives \cup Paths \cup {Nothing},  \* what is opened
           path   : Paths \cup {Nothing},                \* where it is saved
           view   : Sessions \cup {0},     \* archive.sessionId when captured
           fresh  : Sessions \cup {0},     \* the session opened for it
           carry  : Contents \cup {Nothing},  \* a snapshot saved or loaded
           answer : {"none", "save", "discard"}]

Idle == [pc |-> "idle", goal |-> "none", target |-> Nothing, path |-> Nothing,
         view |-> 0, fresh |-> 0, carry |-> Nothing, answer |-> "none"]

At(f, stage) == flow[f].pc = stage
Saving == {f \in Flows : flow[f].pc \in {"saving", "saved"}}
Replacing == {f \in Flows : flow[f].goal \in {"open", "close", "exit"}}
Content == [archive |-> archivePath, records |-> records]

LifecycleInit ==
  /\ SessionInit
  /\ shown = 0
  /\ status = [path |-> Nothing, dirty |-> FALSE, undo |-> FALSE, redo |-> FALSE]
  /\ flow = [f \in Flows |-> Idle]
  /\ backend = {}
  /\ nextSession = 1
  /\ disk = [p \in Paths |-> Nothing]
  /\ promptPending = FALSE
  /\ delivery = "none"
  /\ listening = FALSE
  /\ exited = FALSE
  /\ overlapped = FALSE
  /\ touched = {}
  /\ raced = {}

\* projectStatus(), of the session after the step
ShowStatus ==
  status' = [path |-> databasePath', dirty |-> Dirty',
             undo |-> cursor' > 0, redo |-> cursor' < Len(commands')]

Keep == UNCHANGED <<sessionVars, shown, status>>
Quiet == UNCHANGED <<promptPending, delivery, listening, exited>>

End(f) == flow' = [flow EXCEPT ![f] = Idle]

\* Mutant: a refused confirmation only ends the flow.
RefuseForgetsExit(f) == flow' = [flow EXCEPT ![f] = Idle]

\* A refused or failed confirmation: exit takes its request back.
Refuse(f) ==
  flow' = [flow EXCEPT ![f] = IF @.goal = "exit" THEN [@ EXCEPT !.pc = "cancelling"]
                              ELSE Idle]

\* The user is free to start something.
MayStart ==
  ModalDialogs => \A f \in Flows : flow[f].pc \notin {"asking", "choosing"}
MayReplace == MayStart /\ (OneReplacement => Replacing = {})

-----------------------------------------------------------------------------
(* What a confirmed flow goes on with.                                     *)

\* openArchive after the confirmation: get() is read again.
Opening(frame) ==
  [frame EXCEPT !.pc = IF frame.target \in Paths THEN "loading" ELSE "opening",
                !.view = shown, !.path = Nothing, !.carry = Nothing]

\* Mutant: the status of the closed project stays.
CloseNowKeepsStatus(f, frame) ==
  /\ CloseSession
  /\ shown' = 0
  /\ flow' = [flow EXCEPT ![f] = [frame EXCEPT !.pc = "releasing"]]
  /\ UNCHANGED status

\* closeProject after the confirmation; the backend session it captured is
\* closed without waiting for the answer.
CloseNow(f, frame) ==
  /\ CloseSession
  /\ shown' = 0
  /\ ShowStatus
  /\ flow' = [flow EXCEPT ![f] = [frame EXCEPT !.pc = "releasing"]]

\* frame is that of f with the answer of the user, if there was one.
Proceed(f, frame) ==
  \/ frame.goal = "open" /\ Keep /\ flow' = [flow EXCEPT ![f] = Opening(frame)]
  \/ frame.goal = "close" /\ CloseNow(f, frame)
  \/ /\ frame.goal = "exit" /\ Keep
     /\ flow' = [flow EXCEPT ![f] = [frame EXCEPT !.pc = "confirming"]]

\* persistProject up to its first await.  snapshot() throws without an archive.
Persist(f, frame, forcePathSelection) ==
  /\ Keep
  /\ \/ /\ shown = 0 \/ ~IsOpen
        /\ Refuse(f)
     \/ /\ shown # 0 /\ IsOpen
        /\ forcePathSelection \/ databasePath = Nothing
        /\ flow' = [flow EXCEPT ![f] = [frame EXCEPT !.pc = "choosing"]]
     \/ /\ shown # 0 /\ IsOpen
        /\ ~forcePathSelection /\ databasePath # Nothing
        /\ flow' = [flow EXCEPT ![f] = [frame EXCEPT
                      !.pc = "saving", !.path = databasePath, !.carry = Content]]

\* confirmProjectReplacement: the status the caller has read decides.
Confirm(f, frame) ==
  \/ /\ status.dirty /\ Keep
     /\ flow' = [flow EXCEPT ![f] = [frame EXCEPT !.pc = "asking"]]
  \/ ~status.dirty /\ Proceed(f, frame)

-----------------------------------------------------------------------------
(* The handlers.                                                           *)

OpenArchive(f, t) ==
  /\ At(f, "idle") /\ MayReplace
  /\ Confirm(f, [Idle EXCEPT !.goal = "open", !.target = t])
  /\ UNCHANGED <<backend, nextSession, disk>> /\ Quiet

CloseProject(f) ==
  /\ At(f, "idle") /\ MayReplace
  /\ shown # 0
  /\ Confirm(f, [Idle EXCEPT !.goal = "close", !.view = shown])
  /\ UNCHANGED <<backend, nextSession, disk>> /\ Quiet

\* requestExit, when the close-requested event arrives
RequestExit(f) ==
  /\ At(f, "idle")
  /\ delivery = "queued" /\ delivery' = "none"
  /\ Confirm(f, [Idle EXCEPT !.goal = "exit"])
  /\ UNCHANGED <<backend, nextSession, disk, promptPending, listening, exited>>

SaveProject(f, forcePathSelection) ==
  /\ At(f, "idle") /\ MayStart
  /\ shown # 0 /\ IsOpen
  /\ Persist(f, [Idle EXCEPT !.goal = "save"], forcePathSelection)
  /\ UNCHANGED <<backend, nextSession, disk>> /\ Quiet

\* The dialog of askUnsavedChanges is answered.
AnswerUnsaved(f, decision) ==
  /\ At(f, "asking")
  /\ \/ decision = "cancel" /\ Keep /\ Refuse(f)
     \/ decision = "discard" /\ Proceed(f, [flow[f] EXCEPT !.answer = "discard"])
     \/ decision = "save" /\ Persist(f, [flow[f] EXCEPT !.answer = "save"], FALSE)
  /\ UNCHANGED <<backend, nextSession, disk>> /\ Quiet

\* The dialog of chooseSavePath is answered; p is Nothing when it is cancelled.
\* Without an archive, closed in the meantime, snapshot() throws.
ChoosePath(f, p) ==
  /\ At(f, "choosing")
  /\ Keep
  /\ \/ /\ p = Nothing \/ ~IsOpen
        /\ Refuse(f)
     \/ /\ p # Nothing /\ IsOpen
        /\ flow' = [flow EXCEPT ![f].pc = "saving", ![f].path = p, ![f].carry = Content]
  /\ UNCHANGED <<backend, nextSession, disk>> /\ Quiet

\* DexDb::save, in a thread of the pool: one SQLite transaction.
CommitSave(f) ==
  /\ At(f, "saving")
  /\ disk' = [disk EXCEPT ![flow[f].path] = flow[f].carry]
  /\ flow' = [flow EXCEPT ![f].pc = "saved"]
  /\ Keep /\ UNCHANGED <<backend, nextSession>> /\ Quiet

\* Mutant: a save that failed counts as saved.
FailSaveMarks(f) ==
  /\ flow[f].pc \in {"saving", "saved"}
  /\ MarkSaved(flow[f].path) /\ ShowStatus
  /\ Refuse(f)
  /\ UNCHANGED <<shown, backend, nextSession, disk>> /\ Quiet

\* Mutant: a flow goes on although its save has failed.
FailSaveProceeds(f) ==
  /\ flow[f].pc \in {"saving", "saved"}
  /\ Proceed(f, flow[f])
  /\ UNCHANGED <<backend, nextSession, disk>> /\ Quiet

\* The save is answered with an error, before or after its commit.
FailSave(f) ==
  /\ flow[f].pc \in {"saving", "saved"}
  /\ Refuse(f)
  /\ Keep /\ UNCHANGED <<backend, nextSession, disk>> /\ Quiet

\* The save is answered: the session is marked as saved, and a flow that only
\* saved in order to go on does so.
SaveReturns(f) ==
  /\ At(f, "saved")
  /\ \/ /\ flow[f].goal # "close"
        /\ MarkSaved(flow[f].path) /\ ShowStatus
        /\ UNCHANGED shown
        /\ flow' = [flow EXCEPT ![f] =
              CASE flow[f].goal = "open" -> Opening(flow[f])
                [] flow[f].goal = "exit" -> [flow[f] EXCEPT !.pc = "confirming"]
                [] OTHER -> Idle]
     \/ flow[f].goal = "close" /\ CloseNow(f, flow[f])
  /\ UNCHANGED <<backend, nextSession, disk>> /\ Quiet

\* load_project reads the file of the project to open.
Load(f) ==
  /\ At(f, "loading")
  /\ disk[flow[f].target] # Nothing
  /\ flow' = [flow EXCEPT ![f].pc = "opening", ![f].carry = disk[flow[f].target]]
  /\ Keep /\ UNCHANGED <<backend, nextSession, disk>> /\ Quiet

FailOpen(f) ==
  /\ flow[f].pc \in {"loading", "opening"}
  /\ End(f)
  /\ Keep /\ UNCHANGED <<backend, nextSession, disk>> /\ Quiet

\* The last part of openArchive: session s is shown.
ActivateNow(f, s) ==
  /\ \/ flow[f].target \in Archives /\ Activate(flow[f].target, Nothing, Unnamed)
     \/ /\ flow[f].target \in Paths
        /\ Activate(flow[f].carry.archive, flow[f].target, flow[f].carry.records)
  /\ shown' = s
  /\ ShowStatus
  /\ End(f)

\* The backend has opened a session for the archive; the one that was shown is
\* closed before the new one is.
BackendOpened(f) ==
  /\ At(f, "opening")
  /\ nextSession <= MaxSessions
  /\ nextSession' = nextSession + 1
  /\ backend' = backend \cup {nextSession}
  /\ \/ /\ flow[f].view # 0 /\ Keep
        /\ flow' = [flow EXCEPT ![f].pc = "closing", ![f].fresh = nextSession]
     \/ flow[f].view = 0 /\ ActivateNow(f, nextSession)
  /\ UNCHANGED disk /\ Quiet

\* Mutant: the session that was shown is not closed.
OldClosedKeepsOld(f) ==
  /\ At(f, "closing")
  /\ ActivateNow(f, flow[f].fresh)
  /\ UNCHANGED <<backend, nextSession, disk>> /\ Quiet

\* A session that is closed already answers with an error, which is dropped.
OldClosed(f) ==
  /\ At(f, "closing")
  /\ backend' = backend \ {flow[f].view}
  /\ ActivateNow(f, flow[f].fresh)
  /\ UNCHANGED <<nextSession, disk>> /\ Quiet

Release(f) ==
  /\ At(f, "releasing")
  /\ backend' = backend \ {flow[f].view}
  /\ End(f)
  /\ Keep /\ UNCHANGED <<nextSession, disk>> /\ Quiet

\* Mutant: the answer to the prompt is not recorded.
CancelExitKeepsPrompt(f) ==
  /\ At(f, "cancelling")
  /\ End(f)
  /\ Keep /\ UNCHANGED <<backend, nextSession, disk>> /\ Quiet

\* ShutdownController::cancel
CancelExit(f) ==
  /\ At(f, "cancelling")
  /\ promptPending' = FALSE
  /\ End(f)
  /\ Keep /\ UNCHANGED <<backend, nextSession, disk, delivery, listening, exited>>

ConfirmExit(f) ==
  /\ At(f, "confirming")
  /\ exited' = TRUE
  /\ End(f)
  /\ Keep /\ UNCHANGED <<backend, nextSession, disk, promptPending, delivery, listening>>

\* The window is asked to close: one prompt at a time is sent to the page.
CloseRequested ==
  /\ promptPending' = TRUE
  /\ delivery' = IF promptPending THEN delivery
                 ELSE IF listening THEN "queued" ELSE "lost"
  /\ Keep /\ UNCHANGED <<flow, backend, nextSession, disk, listening, exited>>

ListenForClose ==
  /\ ~listening /\ listening' = TRUE
  /\ Keep
  /\ UNCHANGED <<flow, backend, nextSession, disk, promptPending, delivery, exited>>

\* renameSymbol resolves and validates the name first.
RenameSymbol(f) ==
  /\ At(f, "idle") /\ MayStart
  /\ shown # 0
  /\ flow' = [flow EXCEPT ![f] = [Idle EXCEPT !.pc = "preparing", !.goal = "rename",
                                              !.view = shown]]
  /\ Keep /\ UNCHANGED <<backend, nextSession, disk>> /\ Quiet

\* Mutant: the archive is not looked at again after the name was resolved.
FinishRenameAnywhere(f, k, alias) ==
  /\ At(f, "preparing")
  /\ Rename(k, alias)
  /\ ShowStatus /\ End(f)
  /\ UNCHANGED <<shown, backend, nextSession, disk>> /\ Quiet

\* The archive must still be the one the name was resolved in.
FinishRename(f, k, alias) ==
  /\ At(f, "preparing")
  /\ shown = flow[f].view
  /\ Rename(k, alias)
  /\ ShowStatus /\ End(f)
  /\ UNCHANGED <<shown, backend, nextSession, disk>> /\ Quiet

\* The name is refused, is not new, or belongs to a document that has changed.
AbandonRename(f) ==
  /\ At(f, "preparing")
  /\ End(f)
  /\ Keep /\ UNCHANGED <<backend, nextSession, disk>> /\ Quiet

UndoEdit ==
  /\ MayStart /\ Undo /\ ShowStatus
  /\ UNCHANGED <<shown, flow, backend, nextSession, disk>> /\ Quiet

RedoEdit ==
  /\ MayStart /\ Redo /\ ShowStatus
  /\ UNCHANGED <<shown, flow, backend, nextSession, disk>> /\ Quiet

-----------------------------------------------------------------------------
SessionChanges == records' # records \/ archivePath' # archivePath

\* The flows that have been confirmed and are not done.
Confirmed == {f \in Flows : flow[f].pc \in
                {"saving", "saved", "loading", "opening", "closing", "confirming"}}

\* The flows that have captured the session they are going to replace.
Captured == {f \in Flows :
  \/ flow[f].goal = "open" /\ flow[f].pc \in {"loading", "opening", "closing"}
  \/ flow[f].goal = "close" /\ flow[f].pc \in {"asking", "choosing", "saving", "saved"}}

\* History.  A save overlaps when the session changes, another save begins or
\* a file is loaded while it is under way, when it commits under an open that
\* has loaded a file already, and when it fails after it has committed.
Observe ==
  /\ raced' = raced \cup (IF Captured' # {} THEN {shown'} \ {0, shown} ELSE {})
  /\ touched' = (touched \cup (IF SessionChanges THEN Confirmed ELSE {}))
                  \ {f \in Flows : flow'[f].pc = "idle"}
  /\ overlapped' =
       \/ overlapped
       \/ Saving # {} /\ SessionChanges
       \/ Saving # {} /\ \E f \in Flows \ Saving : flow'[f].pc = "saving"
       \/ Saving # {} /\ \E f \in Flows : At(f, "loading") /\ flow'[f].pc = "opening"
       \/ disk' # disk /\ \E f \in Flows :
            flow[f].pc \in {"opening", "closing"} /\ flow[f].carry # Nothing
       \/ \E f \in Flows : /\ At(f, "saved")
                           /\ flow'[f].pc \in {"idle", "cancelling"}
                           /\ <<databasePath', saved'>> # <<flow[f].path, records>>

UserStep ==
  \/ \E f \in Flows :
        \/ \E t \in Archives \cup Paths : OpenArchive(f, t)
        \/ CloseProject(f)
        \/ \E force \in BOOLEAN : SaveProject(f, force)
        \/ RenameSymbol(f)
  \/ UndoEdit \/ RedoEdit \/ CloseRequested

\* What the user answers and what the code and the backend go on with.
Continue(f) ==
  \/ RequestExit(f)
  \/ \E d \in {"save", "discard", "cancel"} : AnswerUnsaved(f, d)
  \/ \E p \in Paths \cup {Nothing} : ChoosePath(f, p)
  \/ CommitSave(f) \/ FailSave(f) \/ SaveReturns(f)
  \/ Load(f) \/ FailOpen(f) \/ BackendOpened(f) \/ OldClosed(f) \/ Release(f)
  \/ CancelExit(f) \/ ConfirmExit(f)
  \/ AbandonRename(f)
  \/ \E k \in Symbols, alias \in Aliases \cup {Nothing} : FinishRename(f, k, alias)

LifecycleNext ==
  /\ ~exited
  /\ UserStep \/ ListenForClose \/ \E f \in Flows : Continue(f)
  /\ Observe

LifecycleSpec == LifecycleInit /\ [][LifecycleNext]_lifecycleVars

(***************************************************************************)
(* The backend answers, dialogs are answered and handlers run; the user    *)
(* need not start anything.  The event loop has a frame for every event,   *)
(* which the few frames of the model may not: for the handler of the close-*)
(* requested event this is made good by strong fairness.                   *)
(***************************************************************************)
FairSpec ==
  LifecycleSpec
    /\ \A f \in Flows : WF_lifecycleVars(~exited /\ Continue(f) /\ Observe)
    /\ SF_lifecycleVars(~exited /\ (\E g \in Flows : RequestExit(g)) /\ Observe)

-----------------------------------------------------------------------------
LifecycleTypeOK ==
  /\ SessionTypeOK
  /\ shown \in Sessions \cup {0}
  /\ status \in [path : Paths \cup {Nothing}, dirty : BOOLEAN,
                 undo : BOOLEAN, redo : BOOLEAN]
  /\ flow \in [Flows -> Frames]
  /\ backend \subseteq Sessions
  /\ nextSession \in 1 .. MaxSessions + 1
  /\ disk \in [Paths -> Contents \cup {Nothing}]
  /\ promptPending \in BOOLEAN /\ listening \in BOOLEAN /\ exited \in BOOLEAN
  /\ delivery \in {"none", "queued", "lost"}
  /\ overlapped \in BOOLEAN
  /\ touched \subseteq Flows
  /\ raced \subseteq Sessions

(***************************************************************************)
(* The workspace decides by a copy of the session's state whether to ask   *)
(* before it replaces the project (confirmProjectReplacement), and shows   *)
(* an archive exactly while the session has one.  Every handler that       *)
(* changes the session, in whatever order its awaits end, must leave both  *)
(* in step.                                                                *)
(***************************************************************************)
StatusInStep ==
  /\ status = [path |-> databasePath, dirty |-> Dirty,
               undo |-> cursor > 0, redo |-> cursor < Len(commands)]
  /\ shown # 0 <=> IsOpen

OnDisk == \E p \in Paths : disk[p] = Content

(***************************************************************************)
(* A project that is not dirty can be read back: its content is in the     *)
(* file it is saved in, or it has neither.                                 *)
(***************************************************************************)
SavePoint ==
  IsOpen /\ ~Dirty =>
    IF databasePath = Nothing THEN records = Unnamed
    ELSE disk[databasePath] = Content

\* What the code promises: the save point is what was written.
SavePointIsOnDisk == Saving = {} => SavePoint

(***************************************************************************)
(* The save point is on disk as long as nothing has happened during a      *)
(* save: failed saves, cancelled dialogs, projects opened again and saves  *)
(* under another path do not separate the two.                             *)
(***************************************************************************)
SavePointUnlessOverlapped == ~overlapped => SavePointIsOnDisk

\* The flow f ends the project that is shown.
Replaces(f) ==
  /\ flow'[f].pc # flow[f].pc
  /\ shown' # shown \/ exited' # exited

\* The user of f has chosen to discard, earlier or in this step.
Discards(f) == "discard" \in {flow[f].answer, flow'[f].answer}

(***************************************************************************)
(* Whatever the order of dialogs, saves and answers, unsaved edits go only *)
(* when the user has chosen to discard them, has made them after the       *)
(* project was confirmed to go, or has let something happen during a save. *)
(***************************************************************************)
DiscardIsChosen ==
  [][\A f \in Flows :
        Replaces(f) => \/ ~Dirty \/ OnDisk
                       \/ Discards(f)
                       \/ f \in touched \/ overlapped]_lifecycleVars

(***************************************************************************)
(* The session that is shown is open, and every other session of the       *)
(* backend is about to be shown, is about to be closed, or was shown while *)
(* another open or close had captured the one before it: failures, answers *)
(* in any order and closes during an open leave nothing else behind.       *)
(* openArchive and closeProject close the session they captured, which     *)
(* need not be the one they replace: a session in raced may stay for good. *)
(***************************************************************************)
NoLeakedSession ==
  /\ shown # 0 => shown \in backend
  /\ backend \subseteq {shown} \cup raced
        \cup {flow[f].fresh : f \in {g \in Flows : At(g, "closing")}}
        \cup {flow[f].view : f \in {g \in Flows : At(g, "releasing")}}

\* The flows of the page that have taken up a prompt and not answered it.
Prompted == {f \in Flows : flow[f].goal = "exit"}

(***************************************************************************)
(* The shutdown controller prompts once and then waits for the page.  A    *)
(* prompt that was sent to a listening page is in exactly one place, on    *)
(* its way or with one flow, for as long as the controller waits, and in   *)
(* none when it does not.  The prompt that was sent before the page        *)
(* listened is the exception the code has: nobody has it, no other takes   *)
(* its place, and the window can no longer be closed.                      *)
(***************************************************************************)
PromptIsHeld ==
  ~exited =>
    /\ promptPending /\ delivery # "lost" <=> delivery = "queued" \/ Prompted # {}
    /\ delivery = "lost" => promptPending /\ Prompted = {}
    /\ delivery = "queued" => Prompted = {}
    /\ \A f, g \in Prompted : f = g

\* Every prompt that reached the page ends in an exit or is taken back.
PromptEnds ==
  delivery = "queued" ~> exited \/ ~promptPending
=============================================================================
