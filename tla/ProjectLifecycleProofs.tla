---------------------- MODULE ProjectLifecycleProofs ----------------------
(***************************************************************************)
(* Theorems about ProjectLifecycle, for any number of calls under way, any *)
(* archives, files, symbols and names, and however the dialogs and the     *)
(* answers of the backend interleave.                                      *)
(***************************************************************************)
EXTENDS ProjectLifecycle, ProjectSessionProofs

-----------------------------------------------------------------------------
(* What a frame holds, by where its call is.                               *)

\* The call is opening an archive or a project.
Loading(fr) == fr.pc \in {"loading", "opening", "closing"}

FrameFits(fr) ==
  /\ fr \in Frames
  /\ fr.pc = "idle" => fr = Idle
  /\ fr.pc = "asking" => fr.goal \in {"open", "close", "exit"}
  /\ fr.goal = "open" => fr.target \in Archives \cup Paths
  /\ fr.goal = "close" => fr.view # 0
  /\ Loading(fr) => fr.goal = "open"
  /\ fr.pc = "loading" => fr.target \in Paths
  /\ fr.pc \in {"opening", "closing"} /\ fr.target \in Paths =>
       fr.carry \in Contents /\ fr.carry # Nothing
  /\ fr.pc \in {"saving", "saved"} => fr.path \in Paths /\ fr.carry \in Contents
  /\ fr.pc = "closing" => fr.fresh \in Sessions
  /\ fr.pc = "releasing" => fr.goal = "close"
  /\ fr.pc = "preparing" => fr.goal = "rename" /\ fr.view # 0
  /\ fr.pc \in {"cancelling", "confirming"} => fr.goal = "exit"

\* The parts of the state that the steps share.
WorldTypeOK ==
  /\ SessionTypeOK
  /\ shown \in Sessions \cup {0}
  /\ status \in [path : Paths \cup {Nothing}, dirty : BOOLEAN,
                 undo : BOOLEAN, redo : BOOLEAN]
  /\ backend \subseteq Sessions
  /\ nextSession \in 1 .. MaxSessions + 1
  /\ disk \in [Paths -> Contents \cup {Nothing}]

FlowsFit == flow \in [Flows -> Frames] /\ \A f \in Flows : FrameFits(flow[f])

BaseInv == WorldTypeOK /\ FlowsFit /\ StatusInStep

\* The frame of f changes and no other.
Moves(f) == flow' = [flow EXCEPT ![f] = flow'[f]]

LEMMA IdleFits == FrameFits(Idle) /\ Idle.goal = "none"
BY DEF FrameFits, Idle, Frames, Stages, Loading

LEMMA MoveTo ==
  ASSUME FlowsFit, NEW f \in Flows, NEW fr, flow' = [flow EXCEPT ![f] = fr]
  PROVE  flow'[f] = fr /\ Moves(f)
BY DEF FlowsFit, Moves

LEMMA MoveFits ==
  ASSUME FlowsFit, NEW f \in Flows, Moves(f), FrameFits(flow'[f])
  PROVE  FlowsFit' /\ \A g \in Flows \ {f} : flow'[g] = flow[g]
BY DEF FlowsFit, Moves, FrameFits, Loading, Frames, Contents

LEMMA ContentFits == ASSUME WorldTypeOK, IsOpen PROVE Content \in Contents
BY DEF WorldTypeOK, SessionTypeOK, IsOpen, Content, Contents

-----------------------------------------------------------------------------
(* What a step does to the session.                                        *)

\* The session, what the workspace shows of it and its copy of the status.
SessionEffect ==
  \/ Keep
  \/ CloseSession /\ shown' = 0 /\ ShowStatus
  \/ /\ \E a \in Archives :
          Activate(a, Nothing, Unnamed) \/ \E p \in Paths, r \in Records : Activate(a, p, r)
     /\ shown' \in Sessions /\ ShowStatus
  \/ /\ UNCHANGED shown /\ ShowStatus
     /\ \/ IsOpen /\ \E k \in Symbols, alias \in Aliases \cup {Nothing} : Rename(k, alias)
        \/ Undo \/ Redo \/ \E p \in Paths : MarkSaved(p)

LEMMA ProceedEffect == ASSUME NEW f, NEW fr, Proceed(f, fr) PROVE SessionEffect
BY DEF Proceed, CloseNow, SessionEffect

LEMMA ConfirmEffect == ASSUME NEW f, NEW fr, Confirm(f, fr) PROVE SessionEffect
BY ProceedEffect DEF Confirm, SessionEffect

LEMMA ActivateEffect ==
  ASSUME BaseInv, NEW f \in Flows, NEW s \in Sessions, ActivateNow(f, s),
         flow[f].pc \in {"opening", "closing"}
  PROVE  SessionEffect
<1>1. FrameFits(flow[f])
  BY DEF BaseInv, FlowsFit
<1>2. CASE flow[f].target \in Archives /\ Activate(flow[f].target, Nothing, Unnamed)
  BY <1>2 DEF ActivateNow, SessionEffect
<1>3. CASE /\ flow[f].target \in Paths
           /\ Activate(flow[f].carry.archive, flow[f].target, flow[f].carry.records)
  <2>1. flow[f].carry.archive \in Archives /\ flow[f].carry.records \in Records
    BY <1>1, <1>3 DEF FrameFits, Contents
  <2> QED BY <1>3, <2>1 DEF ActivateNow, SessionEffect
<1> QED BY <1>2, <1>3 DEF ActivateNow

LEMMA StepEffect ==
  ASSUME BaseInv, LifecycleNext PROVE SessionEffect
<1>0. \A f \in Flows : FrameFits(flow[f])
  BY DEF BaseInv, FlowsFit
<1>1. ASSUME NEW f \in Flows, NEW t, OpenArchive(f, t) PROVE SessionEffect
  BY <1>1, ConfirmEffect DEF OpenArchive
<1>2. ASSUME NEW f \in Flows, CloseProject(f) \/ RequestExit(f) PROVE SessionEffect
  BY <1>2, ConfirmEffect DEF CloseProject, RequestExit
<1>3. ASSUME NEW f \in Flows, NEW d, AnswerUnsaved(f, d) PROVE SessionEffect
  BY <1>3, ProceedEffect DEF AnswerUnsaved, Persist, SessionEffect
<1>4. ASSUME NEW f \in Flows, SaveReturns(f) PROVE SessionEffect
  <2>1. flow[f].path \in Paths
    BY <1>0, <1>4 DEF SaveReturns, FrameFits, At
  <2> QED BY <1>4, <2>1 DEF SaveReturns, CloseNow, SessionEffect
<1>5. ASSUME NEW f \in Flows, BackendOpened(f) PROVE SessionEffect
  <2>1. nextSession \in Sessions
    BY <1>5, LifecycleAssumption DEF BackendOpened, BaseInv, WorldTypeOK, Sessions
  <2> QED BY <1>5, <2>1, ActivateEffect DEF BackendOpened, At, SessionEffect
<1>6. ASSUME NEW f \in Flows, OldClosed(f) PROVE SessionEffect
  <2>1. flow[f].fresh \in Sessions
    BY <1>0, <1>6 DEF OldClosed, FrameFits, At
  <2> QED BY <1>6, <2>1, ActivateEffect DEF OldClosed, At
<1>7. ASSUME NEW f \in Flows, NEW k \in Symbols, NEW alias \in Aliases \cup {Nothing},
             FinishRename(f, k, alias)
      PROVE  SessionEffect
  <2>1. IsOpen
    BY <1>0, <1>7 DEF FinishRename, FrameFits, At, BaseInv, StatusInStep
  <2> QED BY <1>7, <2>1 DEF FinishRename, SessionEffect
<1>8. CASE UndoEdit \/ RedoEdit
  BY <1>8 DEF UndoEdit, RedoEdit, SessionEffect
<1>9. CASE CloseRequested \/ ListenForClose
  BY <1>9 DEF CloseRequested, ListenForClose, SessionEffect
<1>10. ASSUME NEW f \in Flows, NEW force, SaveProject(f, force) PROVE SessionEffect
  BY <1>10 DEF SaveProject, Persist, SessionEffect
<1>11. ASSUME NEW f \in Flows, NEW p, ChoosePath(f, p) PROVE SessionEffect
  BY <1>11 DEF ChoosePath, SessionEffect
<1>12. ASSUME NEW f \in Flows,
              \/ RenameSymbol(f) \/ CommitSave(f) \/ FailSave(f) \/ Load(f) \/ FailOpen(f)
              \/ Release(f) \/ CancelExit(f) \/ ConfirmExit(f) \/ AbandonRename(f)
       PROVE  SessionEffect
  BY <1>12
  DEF RenameSymbol, CommitSave, FailSave, Load, FailOpen, Release, CancelExit, ConfirmExit,
      AbandonRename, SessionEffect
<1> QED
  BY <1>1, <1>2, <1>3, <1>4, <1>5, <1>6, <1>7, <1>8, <1>9, <1>10, <1>11, <1>12
  DEF LifecycleNext, UserStep, Continue

\* Every step is one of the session's, or leaves it alone.
LEMMA EffectIsSessionStep == ASSUME SessionEffect PROVE [SessionNext]_sessionVars
BY DEF SessionEffect, Keep, SessionNext

LEMMA EffectInStep ==
  ASSUME SessionInv, BaseInv, SessionEffect PROVE SessionInv' /\ StatusInStep' /\ shown' \in Sessions \cup {0}
<1>1. SessionInv'
  BY EffectIsSessionStep, SessionNextInv
<1>2. shown' \in Sessions \cup {0}
  BY DEF SessionEffect, Keep, BaseInv, WorldTypeOK
<1>3. StatusInStep'
  <2>1. CASE Keep
    BY <2>1 DEF Keep, BaseInv, StatusInStep, sessionVars, Dirty, IsOpen
  <2>2. CASE CloseSession /\ shown' = 0 /\ ShowStatus
    BY <2>2 DEF CloseSession, ShowStatus, StatusInStep, IsOpen
  <2>3. CASE /\ \E a \in Archives, p \in Paths \cup {Nothing} : \E r : Activate(a, p, r)
             /\ shown' \in Sessions /\ ShowStatus
    BY <2>3, SessionAssumption DEF Activate, ShowStatus, StatusInStep, IsOpen, Sessions
  <2>4. CASE UNCHANGED <<shown, archivePath>> /\ ShowStatus
    BY <2>4 DEF ShowStatus, BaseInv, StatusInStep, IsOpen
  <2> QED
    BY <2>1, <2>2, <2>3, <2>4 DEF SessionEffect, Rename, Undo, Redo, MarkSaved
<1> QED BY <1>1, <1>2, <1>3

-----------------------------------------------------------------------------
(***************************************************************************)
(* What a step does to the frame of the call that takes it.  The actions   *)
(* of ProjectLifecycle fall into eleven kinds, and the invariants below    *)
(* are shown for each kind.                                                *)
(***************************************************************************)

Calm == UNCHANGED <<backend, nextSession, disk>>

\* The session a call holds is the one it held or the one that is shown, and
\* that of a close is the one it captured when it began.
Origin(f) ==
  /\ flow'[f].view \in {0, shown, flow[f].view}
  /\ flow'[f].goal = "close" =>
       flow'[f].view = shown \/ (f \in Captured /\ flow'[f].view = flow[f].view)

\* No call moves.
Aside == UNCHANGED flow /\ Calm /\ (Keep \/ (UNCHANGED shown /\ (Undo \/ Redo)))

\* The call waits for the user, is refused, fails, or is done.
Waits(f) ==
  /\ Keep /\ Calm /\ Origin(f)
  /\ flow[f].pc \notin {"closing", "releasing"}
  /\ flow'[f].pc \in {"idle", "cancelling"}
       \/ /\ flow'[f].pc \in {"asking", "choosing", "preparing"}
          /\ flow[f].pc \in {"idle", "asking"}

Begins(f) ==
  /\ Keep /\ Calm /\ Origin(f)
  /\ flow[f].pc \in {"idle", "asking", "choosing"}
  /\ IsOpen /\ flow'[f].pc = "saving" /\ flow'[f].carry = Content

\* Where a call that may replace the project goes on.
GoesOn(f) ==
  /\ Origin(f)
  /\ flow'[f].pc \in {"loading", "opening", "confirming"}
  /\ flow'[f].pc = "opening" => flow'[f].target \notin Paths
  /\ flow'[f].pc # "confirming" => flow'[f].view = shown

Goes(f) ==
  /\ Keep /\ Calm /\ GoesOn(f)
  /\ flow[f].pc \in {"idle", "asking"}
  /\ ~status.dirty \/ flow'[f].answer = "discard"

Commits(f) ==
  /\ At(f, "saving") /\ Keep /\ UNCHANGED <<backend, nextSession>>
  /\ disk' = [disk EXCEPT ![flow[f].path] = flow[f].carry]
  /\ flow'[f] = [flow[f] EXCEPT !.pc = "saved"]

Returns(f) ==
  /\ At(f, "saved") /\ Calm /\ UNCHANGED shown
  /\ MarkSaved(flow[f].path)
  /\ flow'[f] = Idle \/ GoesOn(f)

Closes(f) ==
  /\ CloseSession /\ shown' = 0 /\ Calm /\ Origin(f)
  /\ flow'[f].pc = "releasing"
  /\ \/ flow[f].pc = "idle" /\ ~status.dirty
     \/ flow[f].pc = "asking" /\ flow'[f].answer = "discard"
     \/ flow[f].pc = "saved"

Loads(f) ==
  /\ At(f, "loading") /\ Keep /\ Calm
  /\ flow'[f] = [flow[f] EXCEPT !.pc = "opening", !.carry = disk[flow[f].target]]

Opens(f) ==
  /\ At(f, "opening") /\ UNCHANGED disk
  /\ nextSession <= MaxSessions /\ nextSession' = nextSession + 1
  /\ backend' = backend \cup {nextSession}
  /\ \/ /\ flow[f].view # 0 /\ Keep
        /\ flow'[f] = [flow[f] EXCEPT !.pc = "closing", !.fresh = nextSession]
     \/ flow[f].view = 0 /\ ActivateNow(f, nextSession) /\ flow'[f] = Idle

Activates(f) ==
  /\ At(f, "closing") /\ UNCHANGED <<nextSession, disk>>
  /\ backend' = backend \ {flow[f].view}
  /\ ActivateNow(f, flow[f].fresh) /\ flow'[f] = Idle

Releases(f) ==
  /\ At(f, "releasing") /\ Keep /\ UNCHANGED <<nextSession, disk>>
  /\ backend' = backend \ {flow[f].view}
  /\ flow'[f] = Idle

Renames(f) ==
  /\ At(f, "preparing") /\ Calm /\ UNCHANGED shown
  /\ \E k \in Symbols, alias \in Aliases \cup {Nothing} : Rename(k, alias)
  /\ flow'[f] = Idle

Kinds(f) ==
  \/ Waits(f) \/ Begins(f) \/ Goes(f) \/ Commits(f) \/ Returns(f) \/ Closes(f)
  \/ Loads(f) \/ Opens(f) \/ Activates(f) \/ Releases(f) \/ Renames(f)

\* A call takes a prompt up when it is queued, and keeps it until it is answered.
Holds(f) ==
  /\ flow[f].goal = "exit" => flow'[f].goal = "exit" \/ ~promptPending' \/ exited'
  /\ flow'[f].goal = "exit" =>
       flow[f].goal = "exit" \/ (delivery = "queued" /\ delivery' = "none")

Turn(f) == Moves(f) /\ FrameFits(flow'[f]) /\ Kinds(f) /\ Holds(f)

\* A call that is about to end the project, or to ask whether it may.
Asker(f, fr) ==
  /\ fr \in Frames /\ fr.pc = flow[f].pc
  /\ fr.goal = "open" => fr.target \in Archives \cup Paths
  /\ fr.goal = "close" => fr.view # 0
  /\ fr.goal \in {"open", "close", "exit", "save"}
  /\ flow[f].goal = "exit" => fr.goal = "exit"
  /\ fr.goal = "exit" =>
       flow[f].goal = "exit" \/ (delivery = "queued" /\ delivery' = "none")
  /\ fr.view \in {0, shown, flow[f].view}
  /\ fr.goal = "close" =>
       fr.view = shown \/ (f \in Captured /\ fr.view = flow[f].view)

LEMMA RefuseTurn ==
  ASSUME BaseInv, NEW f \in Flows, Refuse(f), Keep, Calm,
         flow[f].pc \notin {"closing", "releasing"}
  PROVE  Turn(f)
<1>1. FrameFits(flow[f]) /\ FlowsFit
  BY DEF BaseInv, FlowsFit
<1> DEFINE fr == IF flow[f].goal = "exit" THEN [flow[f] EXCEPT !.pc = "cancelling"] ELSE Idle
<1>2. flow' = [flow EXCEPT ![f] = fr]
  BY DEF Refuse
<1>3. flow'[f] = fr /\ Moves(f)
  BY <1>1, <1>2, MoveTo
<1>4. FrameFits(fr)
  BY <1>1, IdleFits DEF FrameFits, Loading, Frames, Stages
<1>5. Waits(f) /\ Holds(f)
  BY <1>1, <1>3 DEF Waits, Holds, Origin, Idle, FrameFits, Frames
<1> QED BY <1>3, <1>4, <1>5 DEF Turn, Kinds

LEMMA EndTurn ==
  ASSUME BaseInv, NEW f \in Flows, End(f), Keep, Calm,
         flow[f].pc \notin {"closing", "releasing"},
         flow[f].goal = "exit" => ~promptPending' \/ exited'
  PROVE  Turn(f)
<1>1. flow'[f] = Idle /\ Moves(f)
  BY MoveTo DEF BaseInv, End
<1>2. Waits(f) /\ Holds(f)
  BY <1>1 DEF Waits, Holds, Origin, Idle
<1> QED BY <1>1, <1>2, IdleFits DEF Turn, Kinds

LEMMA OpeningFits ==
  ASSUME shown \in Sessions \cup {0}, NEW fr \in Frames, fr.goal = "open",
         fr.target \in Archives \cup Paths
  PROVE  /\ FrameFits(Opening(fr))
         /\ Opening(fr).pc \in {"loading", "opening"}
         /\ Opening(fr).pc = "opening" => Opening(fr).target \notin Paths
         /\ Opening(fr).goal = "open" /\ Opening(fr).view = shown
         /\ Opening(fr).answer = fr.answer
<1>1. CASE fr.target \in Paths
  <2> DEFINE g == [fr EXCEPT !.pc = "loading", !.view = shown, !.path = Nothing,
                             !.carry = Nothing]
  <2>1. Opening(fr) = g
    BY <1>1 DEF Opening
  <2>2. FrameFits(g) /\ g.pc = "loading" /\ g.goal = "open" /\ g.view = shown
        /\ g.answer = fr.answer
    BY <1>1 DEF FrameFits, Loading, Frames, Stages
  <2> QED BY <2>1, <2>2
<1>2. CASE fr.target \notin Paths
  <2> DEFINE g == [fr EXCEPT !.pc = "opening", !.view = shown, !.path = Nothing,
                             !.carry = Nothing]
  <2>1. Opening(fr) = g
    BY <1>2 DEF Opening
  <2>2. FrameFits(g) /\ g.pc = "opening" /\ g.goal = "open" /\ g.view = shown
        /\ g.answer = fr.answer /\ g.target = fr.target
    BY <1>2 DEF FrameFits, Loading, Frames, Stages
  <2> QED BY <1>2, <2>1, <2>2
<1> QED BY <1>1, <1>2

LEMMA PersistTurn ==
  ASSUME BaseInv, NEW f \in Flows, NEW fr, NEW force, Asker(f, fr), Persist(f, fr, force), Calm,
         flow[f].pc \in {"idle", "asking"}
  PROVE  Turn(f)
<1>1. FlowsFit /\ Keep
  BY DEF BaseInv, Persist
<1>2. CASE Refuse(f)
  BY <1>1, <1>2, RefuseTurn
<1>3. CASE flow' = [flow EXCEPT ![f] = [fr EXCEPT !.pc = "choosing"]]
  <2>1. flow'[f] = [fr EXCEPT !.pc = "choosing"] /\ Moves(f)
    BY <1>1, <1>3, MoveTo
  <2>2. FrameFits(flow'[f])
    BY <2>1 DEF Asker, FrameFits, Loading, Frames, Stages
  <2>3. Waits(f) /\ Holds(f)
    BY <1>1, <2>1 DEF Waits, Holds, Origin, Asker, Frames, At
  <2> QED BY <2>1, <2>2, <2>3 DEF Turn, Kinds
<1>4. CASE /\ IsOpen /\ databasePath # Nothing
           /\ flow' = [flow EXCEPT ![f] = [fr EXCEPT !.pc = "saving", !.path = databasePath,
                                                     !.carry = Content]]
  <2>1. /\ flow'[f] = [fr EXCEPT !.pc = "saving", !.path = databasePath, !.carry = Content]
        /\ Moves(f)
    BY <1>1, <1>4, MoveTo
  <2>2. Content \in Contents /\ databasePath \in Paths
    BY <1>4, ContentFits DEF BaseInv, WorldTypeOK, SessionTypeOK
  <2>3. FrameFits(flow'[f])
    BY <2>1, <2>2 DEF Asker, FrameFits, Loading, Frames, Stages
  <2>4. /\ flow'[f].pc = "saving" /\ flow'[f].carry = Content
        /\ flow'[f].goal = fr.goal /\ flow'[f].view = fr.view
    BY <2>1 DEF Asker, Frames
  <2>5. Origin(f)
    BY <2>4 DEF Origin, Asker, At
  <2>6. Begins(f) /\ Holds(f)
    BY <1>1, <1>4, <2>4, <2>5 DEF Begins, Holds, Asker
  <2> QED BY <2>1, <2>3, <2>6 DEF Turn, Kinds
<1> QED BY <1>2, <1>3, <1>4 DEF Persist

LEMMA ProceedTurn ==
  ASSUME BaseInv, NEW f \in Flows, NEW fr, Asker(f, fr), Proceed(f, fr), Calm,
         \/ flow[f].pc = "idle" /\ ~status.dirty
         \/ flow[f].pc = "asking" /\ fr.answer = "discard"
  PROVE  Turn(f)
<1>1. FlowsFit /\ shown \in Sessions \cup {0}
  BY DEF BaseInv, WorldTypeOK
<1>2. CASE fr.goal = "open" /\ Keep /\ flow' = [flow EXCEPT ![f] = Opening(fr)]
  <2>1. flow'[f] = Opening(fr) /\ Moves(f)
    BY <1>1, <1>2, MoveTo
  <2>2. fr \in Frames /\ fr.target \in Archives \cup Paths
    BY <1>2 DEF Asker
  <2>4. FrameFits(flow'[f])
    BY <1>1, <1>2, <2>1, <2>2, OpeningFits
  <2>5. GoesOn(f)
    BY <1>1, <1>2, <2>1, <2>2, OpeningFits DEF GoesOn, Origin, Asker, At
  <2>6. flow'[f].answer = "discard" \/ ~status.dirty
    BY <1>1, <1>2, <2>1, <2>2, OpeningFits
  <2>7. flow'[f].goal = "open"
    BY <1>1, <1>2, <2>1, <2>2, OpeningFits
  <2>8. Goes(f) /\ Holds(f)
    BY <1>2, <2>5, <2>6, <2>7 DEF Goes, Holds, Asker
  <2> QED BY <2>1, <2>4, <2>8 DEF Turn, Kinds
<1>3. CASE fr.goal = "close" /\ CloseNow(f, fr)
  <2>1. flow'[f] = [fr EXCEPT !.pc = "releasing"] /\ Moves(f)
    BY <1>1, <1>3, MoveTo DEF CloseNow
  <2>2. FrameFits(flow'[f])
    BY <1>3, <2>1 DEF Asker, FrameFits, Loading, Frames, Stages
  <2>3. Closes(f) /\ Holds(f)
    BY <1>3, <2>1 DEF Closes, Holds, CloseNow, Origin, Asker, Frames, At
  <2> QED BY <2>1, <2>2, <2>3 DEF Turn, Kinds
<1>4. CASE fr.goal = "exit" /\ Keep /\ flow' = [flow EXCEPT ![f] = [fr EXCEPT !.pc = "confirming"]]
  <2>1. flow'[f] = [fr EXCEPT !.pc = "confirming"] /\ Moves(f)
    BY <1>1, <1>4, MoveTo
  <2>2. FrameFits(flow'[f])
    BY <1>4, <2>1 DEF Asker, FrameFits, Loading, Frames, Stages
  <2>3. Goes(f) /\ Holds(f)
    BY <1>4, <2>1 DEF Goes, Holds, GoesOn, Origin, Asker, Frames, At
  <2> QED BY <2>1, <2>2, <2>3 DEF Turn, Kinds
<1> QED BY <1>2, <1>3, <1>4 DEF Proceed

LEMMA ConfirmTurn ==
  ASSUME BaseInv, NEW f \in Flows, NEW fr, Asker(f, fr), fr.goal # "save", Confirm(f, fr), Calm,
         flow[f].pc = "idle"
  PROVE  Turn(f)
<1>1. CASE /\ status.dirty /\ Keep
           /\ flow' = [flow EXCEPT ![f] = [fr EXCEPT !.pc = "asking"]]
  <2>1. flow'[f] = [fr EXCEPT !.pc = "asking"] /\ Moves(f)
    BY <1>1, MoveTo DEF BaseInv
  <2>2. FrameFits(flow'[f])
    BY <2>1 DEF Asker, FrameFits, Loading, Frames, Stages
  <2>3. Waits(f) /\ Holds(f)
    BY <1>1, <2>1 DEF Waits, Holds, Origin, Asker, Frames, At
  <2> QED BY <2>1, <2>2, <2>3 DEF Turn, Kinds
<1>2. CASE ~status.dirty /\ Proceed(f, fr)
  BY <1>2, ProceedTurn
<1> QED BY <1>1, <1>2 DEF Confirm

LEMMA SaveReturnsTurn ==
  ASSUME BaseInv, NEW f \in Flows, SaveReturns(f) PROVE Turn(f)
<1>1. FrameFits(flow[f]) /\ FlowsFit /\ shown \in Sessions \cup {0} /\ Calm /\ At(f, "saved")
  BY DEF BaseInv, WorldTypeOK, FlowsFit, SaveReturns, Calm
<1>2. flow[f] \in Frames /\ (flow[f].goal = "open" => flow[f].target \in Archives \cup Paths)
  BY <1>1 DEF FrameFits
<1>3. CASE flow[f].goal = "close" /\ CloseNow(f, flow[f])
  <2>1. flow'[f] = [flow[f] EXCEPT !.pc = "releasing"] /\ Moves(f)
    BY <1>1, <1>3, MoveTo DEF CloseNow
  <2>2. FrameFits(flow'[f])
    BY <1>1, <1>3, <2>1 DEF FrameFits, Loading, Frames, Stages
  <2>3. Closes(f) /\ Holds(f)
    BY <1>1, <1>2, <1>3, <2>1 DEF Closes, Holds, CloseNow, Origin, Captured, Frames, At
  <2> QED BY <2>1, <2>2, <2>3 DEF Turn, Kinds
<1>4. CASE /\ flow[f].goal # "close" /\ MarkSaved(flow[f].path) /\ UNCHANGED shown
           /\ flow' = [flow EXCEPT ![f] =
                CASE flow[f].goal = "open" -> Opening(flow[f])
                  [] flow[f].goal = "exit" -> [flow[f] EXCEPT !.pc = "confirming"]
                  [] OTHER -> Idle]
  <2>1. CASE flow[f].goal = "open"
    <3>1. flow'[f] = Opening(flow[f]) /\ Moves(f)
      BY <1>1, <1>4, <2>1, MoveTo
    <3>2. FrameFits(flow'[f])
      BY <1>1, <1>2, <2>1, <3>1, OpeningFits
    <3>3. GoesOn(f) /\ flow'[f].goal = "open"
      BY <1>1, <1>2, <2>1, <3>1, OpeningFits DEF GoesOn, Origin, At
    <3> QED BY <1>1, <1>4, <2>1, <3>1, <3>2, <3>3 DEF Turn, Holds, Kinds, Returns
  <2>2. CASE flow[f].goal = "exit"
    <3>1. flow'[f] = [flow[f] EXCEPT !.pc = "confirming"] /\ Moves(f)
      BY <1>1, <1>4, <2>2, MoveTo
    <3>2. FrameFits(flow'[f])
      BY <1>1, <2>2, <3>1 DEF FrameFits, Loading, Frames, Stages
    <3>3. GoesOn(f)
      BY <1>1, <1>2, <2>2, <3>1 DEF GoesOn, Origin, At, Frames
    <3> QED BY <1>1, <1>4, <2>2, <3>1, <3>2, <3>3 DEF Turn, Holds, Kinds, Returns
  <2>3. CASE flow[f].goal \notin {"open", "exit"}
    <3>1. flow'[f] = Idle /\ Moves(f)
      BY <1>1, <1>4, <2>3, MoveTo
    <3> QED BY <1>1, <1>4, <2>3, <3>1, IdleFits DEF Turn, Holds, Kinds, Returns
  <2> QED BY <2>1, <2>2, <2>3
<1> QED BY <1>3, <1>4 DEF SaveReturns

LEMMA LoadedFits ==
  ASSUME NEW fr, FrameFits(fr), fr.pc = "loading", NEW read \in Contents, read # Nothing
  PROVE  FrameFits([fr EXCEPT !.pc = "opening", !.carry = read])
BY DEF FrameFits, Loading, Frames, Stages

LEMMA ChosenFits ==
  ASSUME NEW fr, FrameFits(fr), fr.pc = "choosing", NEW p \in Paths, NEW c \in Contents
  PROVE  FrameFits([fr EXCEPT !.pc = "saving", !.path = p, !.carry = c])
<1> DEFINE n == [fr EXCEPT !.pc = "saving", !.path = p, !.carry = c]
<1>1. /\ fr \in Frames /\ (fr.goal = "open" => fr.target \in Archives \cup Paths)
      /\ fr.goal = "close" => fr.view # 0
  BY DEF FrameFits
<1>2. /\ n \in Frames /\ n.pc = "saving" /\ n.path = p /\ n.carry = c
      /\ n.goal = fr.goal /\ n.target = fr.target /\ n.view = fr.view
  BY <1>1 DEF Frames, Stages
<1> HIDE DEF n
<1>3. FrameFits(n)
  BY <1>1, <1>2 DEF FrameFits, Loading
<1> QED BY <1>3 DEF n

LEMMA LoadTurn ==
  ASSUME BaseInv, NEW f \in Flows, CommitSave(f) \/ Load(f) PROVE Turn(f)
<1>1. FrameFits(flow[f]) /\ FlowsFit
  BY DEF BaseInv, FlowsFit
<1>2. CASE CommitSave(f)
  <2>1. flow'[f] = [flow[f] EXCEPT !.pc = "saved"] /\ Moves(f)
    BY <1>1, <1>2, MoveTo DEF CommitSave
  <2>2. FrameFits(flow'[f])
    BY <1>1, <1>2, <2>1 DEF CommitSave, At, FrameFits, Loading, Frames, Stages
  <2> QED BY <1>2, <2>1, <2>2 DEF Turn, Holds, Kinds, Commits, CommitSave
<1>3. CASE Load(f)
  <2> DEFINE read == disk[flow[f].target]
  <2>1. flow[f].target \in Paths /\ read \in Contents /\ read # Nothing
    BY <1>1, <1>3 DEF Load, At, FrameFits, BaseInv, WorldTypeOK
  <2>2. /\ flow'[f] = [flow[f] EXCEPT !.pc = "opening", !.carry = read]
        /\ Moves(f)
    BY <1>1, <1>3 DEF Load, FlowsFit, Moves
  <2> HIDE DEF read
  <2>3. At(f, "loading")
    BY <1>3 DEF Load
  <2>4. FrameFits([flow[f] EXCEPT !.pc = "opening", !.carry = read])
    BY <1>1, <2>1, <2>3, LoadedFits, Zenon DEF At
  <2>5. FrameFits(flow'[f])
    BY <2>2, <2>4
  <2>6. Holds(f)
    <3>1. flow'[f].goal = flow[f].goal
      BY <1>1, <2>2 DEF FrameFits, Frames
    <3> QED BY <1>1, <2>3, <3>1 DEF At, FrameFits, Loading, Holds
  <2> QED BY <1>3, <2>2, <2>5, <2>6 DEF Turn, Kinds, Loads, Load, Calm, read
<1> QED BY <1>2, <1>3

LEMMA OpenedTurn ==
  ASSUME BaseInv, NEW f \in Flows, BackendOpened(f) \/ OldClosed(f) \/ Release(f) PROVE Turn(f)
<1>1. FrameFits(flow[f]) /\ FlowsFit
  BY DEF BaseInv, FlowsFit
<1>2. CASE BackendOpened(f) /\ flow[f].view # 0
  <2>1. nextSession \in Sessions
    BY <1>2, LifecycleAssumption DEF BackendOpened, BaseInv, WorldTypeOK, Sessions
  <2>2. /\ flow'[f] = [flow[f] EXCEPT !.pc = "closing", !.fresh = nextSession]
        /\ Moves(f)
    BY <1>1, <1>2 DEF BackendOpened, FlowsFit, Moves
  <2>3. FrameFits(flow'[f])
    BY <1>1, <1>2, <2>1, <2>2 DEF BackendOpened, At, FrameFits, Loading, Frames, Stages
  <2> QED BY <1>2, <2>2, <2>3 DEF Turn, Holds, Kinds, Opens, BackendOpened
<1>3. CASE BackendOpened(f) /\ flow[f].view = 0
  <2>1. flow'[f] = Idle /\ Moves(f)
    BY <1>1, <1>3, MoveTo DEF BackendOpened, ActivateNow, End
  <2>2. flow[f].goal # "exit"
    BY <1>1, <1>3 DEF BackendOpened, At, FrameFits, Loading
  <2> QED BY <1>3, <2>1, <2>2, IdleFits DEF Turn, Holds, Kinds, Opens, BackendOpened
<1>4. CASE OldClosed(f)
  <2>1. flow'[f] = Idle /\ Moves(f)
    BY <1>1, <1>4, MoveTo DEF OldClosed, ActivateNow, End
  <2>2. flow[f].goal # "exit"
    BY <1>1, <1>4 DEF OldClosed, At, FrameFits, Loading
  <2> QED BY <1>4, <2>1, <2>2, IdleFits DEF Turn, Holds, Kinds, Activates, OldClosed
<1>5. CASE Release(f)
  <2>1. flow'[f] = Idle /\ Moves(f)
    BY <1>1, <1>5, MoveTo DEF Release, End
  <2>2. flow[f].goal # "exit"
    BY <1>1, <1>5 DEF Release, At, FrameFits, Loading
  <2> QED BY <1>5, <2>1, <2>2, IdleFits DEF Turn, Holds, Kinds, Releases, Release
<1> QED BY <1>2, <1>3, <1>4, <1>5

LEMMA ChooseTurn ==
  ASSUME BaseInv, NEW f \in Flows, NEW p \in Paths \cup {Nothing}, ChoosePath(f, p) PROVE Turn(f)
<1>1. FrameFits(flow[f]) /\ FlowsFit /\ Keep /\ Calm /\ At(f, "choosing")
  BY DEF BaseInv, FlowsFit, ChoosePath, Calm
<1>2. CASE Refuse(f)
  BY <1>1, <1>2, RefuseTurn DEF At
<1>3. CASE /\ p # Nothing /\ IsOpen
           /\ flow' = [flow EXCEPT ![f].pc = "saving", ![f].path = p, ![f].carry = Content]
  <2>1. /\ flow'[f] = [flow[f] EXCEPT !.pc = "saving", !.path = p, !.carry = Content]
        /\ Moves(f)
    BY <1>1, <1>3 DEF FlowsFit, Moves
  <2>2. Content \in Contents
    BY <1>3, ContentFits DEF BaseInv
  <2>3. FrameFits([flow[f] EXCEPT !.pc = "saving", !.path = p, !.carry = Content])
    BY <1>1, <1>3, <2>2, ChosenFits, Zenon DEF At
  <2>4. Begins(f)
    <3>1. /\ flow'[f].pc = "saving" /\ flow'[f].carry = Content
          /\ flow'[f].goal = flow[f].goal /\ flow'[f].view = flow[f].view
      BY <1>1, <2>1 DEF FrameFits, Frames
    <3> QED BY <1>1, <1>3, <3>1 DEF Begins, Origin, Captured, At
  <2> QED BY <2>1, <2>3, <2>4 DEF Turn, Holds, Kinds
<1> QED BY <1>2, <1>3 DEF ChoosePath

LEMMA RenameTurn ==
  ASSUME BaseInv, NEW f \in Flows PROVE
  /\ RenameSymbol(f) => Turn(f)
  /\ \A k \in Symbols, alias \in Aliases \cup {Nothing} : FinishRename(f, k, alias) => Turn(f)
<1>1. FlowsFit
  BY DEF BaseInv
<1>2. ASSUME RenameSymbol(f) PROVE Turn(f)
  <2> DEFINE fr == [Idle EXCEPT !.pc = "preparing", !.goal = "rename", !.view = shown]
  <2>1. flow'[f] = fr /\ Moves(f)
    BY <1>1, <1>2, MoveTo DEF RenameSymbol
  <2>2. FrameFits(fr) /\ fr.pc = "preparing" /\ fr.goal = "rename"
    BY <1>2 DEF RenameSymbol, BaseInv, WorldTypeOK, Idle, FrameFits, Loading, Frames, Stages
  <2> HIDE DEF fr
  <2>3. Waits(f) /\ Holds(f)
    BY <1>1, <1>2, <2>1, <2>2 DEF Waits, Holds, RenameSymbol, Origin, Calm, At, FlowsFit, FrameFits, Idle
  <2> QED BY <2>1, <2>2, <2>3 DEF Turn, Kinds
<1>3. ASSUME NEW k \in Symbols, NEW alias \in Aliases \cup {Nothing}, FinishRename(f, k, alias)
      PROVE  Turn(f)
  <2>1. flow'[f] = Idle /\ Moves(f)
    BY <1>1, <1>3, MoveTo DEF FinishRename, End
  <2>2. flow[f].goal # "exit"
    BY <1>3 DEF FinishRename, At, BaseInv, FlowsFit, FrameFits
  <2> QED BY <1>3, <2>1, <2>2, IdleFits DEF Turn, Holds, Kinds, Renames, FinishRename, Calm
<1> QED BY <1>2, <1>3

\* The frames with which a call starts.
LEMMA StartAsks ==
  ASSUME BaseInv, NEW f \in Flows, At(f, "idle"),
         NEW fr, \/ \E t \in Archives \cup Paths :
                      fr = [Idle EXCEPT !.goal = "open", !.target = t]
                 \/ shown # 0 /\ fr = [Idle EXCEPT !.goal = "close", !.view = shown]
                 \/ /\ delivery = "queued" /\ delivery' = "none"
                    /\ fr = [Idle EXCEPT !.goal = "exit"]
                 \/ fr = [Idle EXCEPT !.goal = "save"]
  PROVE  Asker(f, fr)
<1>1. flow[f].pc = "idle" /\ flow[f].goal = "none" /\ shown \in Sessions \cup {0}
  <2>1. flow[f] = Idle
    BY DEF At, BaseInv, FlowsFit, FrameFits
  <2>2. Idle.pc = "idle" /\ Idle.goal = "none"
    BY DEF Idle
  <2>3. shown \in Sessions \cup {0}
    BY DEF BaseInv, WorldTypeOK
  <2> QED BY <2>1, <2>2, <2>3
<1>2. ASSUME NEW t \in Archives \cup Paths,
             fr = [Idle EXCEPT !.goal = "open", !.target = t]
      PROVE  Asker(f, fr)
  <2>1. fr \in Frames /\ fr.pc = "idle" /\ fr.goal = "open" /\ fr.target = t /\ fr.view = 0
    BY <1>2 DEF Idle, Frames, Stages
  <2> QED BY <1>1, <1>2, <2>1 DEF Asker, At
<1>3. CASE shown # 0 /\ fr = [Idle EXCEPT !.goal = "close", !.view = shown]
  <2>1. fr \in Frames /\ fr.pc = "idle" /\ fr.goal = "close" /\ fr.view = shown
    BY <1>1, <1>3 DEF Idle, Frames, Stages
  <2> QED BY <1>1, <1>3, <2>1 DEF Asker, At
<1>4. ASSUME NEW g \in {"exit", "save"},
             g = "exit" => delivery = "queued" /\ delivery' = "none", fr = [Idle EXCEPT !.goal = g]
      PROVE  Asker(f, fr)
  <2>1. fr \in Frames /\ fr.pc = "idle" /\ fr.goal = g /\ fr.view = 0
    BY <1>4 DEF Idle, Frames, Stages
  <2> QED BY <1>1, <1>4, <2>1 DEF Asker, At
<1> QED BY <1>2, <1>3, <1>4

LEMMA StepTurn ==
  ASSUME BaseInv, LifecycleNext PROVE Aside \/ \E f \in Flows : Turn(f)
<1>1. ASSUME NEW f \in Flows, NEW t \in Archives \cup Paths, OpenArchive(f, t) PROVE Turn(f)
  <2>1. At(f, "idle") /\ Calm
    BY <1>1 DEF OpenArchive, Calm
  <2> DEFINE fr == [Idle EXCEPT !.goal = "open", !.target = t]
  <2>2. Asker(f, fr) /\ fr.goal # "save"
    BY <2>1, StartAsks DEF Idle
  <2> QED BY <1>1, <2>1, <2>2, ConfirmTurn DEF OpenArchive, At
<1>2. ASSUME NEW f \in Flows, CloseProject(f) PROVE Turn(f)
  <2>1. At(f, "idle") /\ shown # 0 /\ Calm
    BY <1>2 DEF CloseProject, Calm
  <2> DEFINE fr == [Idle EXCEPT !.goal = "close", !.view = shown]
  <2>2. Asker(f, fr) /\ fr.goal # "save"
    BY <2>1, StartAsks DEF Idle
  <2> QED BY <1>2, <2>1, <2>2, ConfirmTurn DEF CloseProject, At
<1>3. ASSUME NEW f \in Flows, RequestExit(f) PROVE Turn(f)
  <2>1. At(f, "idle") /\ Calm /\ delivery = "queued" /\ delivery' = "none"
    BY <1>3 DEF RequestExit, Calm
  <2> DEFINE fr == [Idle EXCEPT !.goal = "exit"]
  <2>2. Asker(f, fr) /\ fr.goal # "save"
    BY <2>1, StartAsks DEF Idle
  <2> QED BY <1>3, <2>1, <2>2, ConfirmTurn DEF RequestExit, At
<1>4. ASSUME NEW f \in Flows, NEW force, SaveProject(f, force) PROVE Turn(f)
  <2>1. At(f, "idle") /\ Calm
    BY <1>4 DEF SaveProject, Calm
  <2> DEFINE fr == [Idle EXCEPT !.goal = "save"]
  <2>2. Asker(f, fr)
    BY <2>1, StartAsks
  <2> QED BY <1>4, <2>1, <2>2, PersistTurn DEF SaveProject, At
<1>5. ASSUME NEW f \in Flows, NEW d, AnswerUnsaved(f, d) PROVE Turn(f)
  <2>1. At(f, "asking") /\ Calm /\ FrameFits(flow[f])
    BY <1>5 DEF AnswerUnsaved, Calm, BaseInv, FlowsFit
  <2>2. ASSUME NEW a \in {"save", "discard"}
        PROVE  /\ Asker(f, [flow[f] EXCEPT !.answer = a])
               /\ [flow[f] EXCEPT !.answer = a].answer = a
    BY <2>1 DEF At, Asker, FrameFits, Frames, Captured
  <2>3. CASE d = "cancel"
    BY <1>5, <2>1, <2>3, RefuseTurn DEF AnswerUnsaved, At
  <2>4. CASE d = "discard"
    BY <1>5, <2>1, <2>2, <2>4, ProceedTurn DEF AnswerUnsaved, At
  <2>5. CASE d = "save"
    BY <1>5, <2>1, <2>2, <2>5, PersistTurn DEF AnswerUnsaved, At
  <2> QED BY <1>5, <2>3, <2>4, <2>5 DEF AnswerUnsaved
<1>6. ASSUME NEW f \in Flows, FailSave(f) PROVE Turn(f)
  BY <1>6, RefuseTurn DEF FailSave, Calm
<1>7. ASSUME NEW f \in Flows, FailOpen(f) \/ CancelExit(f) \/ ConfirmExit(f) \/ AbandonRename(f)
      PROVE  Turn(f)
  <2>1. FrameFits(flow[f])
    BY DEF BaseInv, FlowsFit
  <2>2. flow[f].goal = "exit" => ~promptPending' \/ exited'
    BY <1>7, <2>1
    DEF FailOpen, CancelExit, ConfirmExit, AbandonRename, At, FrameFits, Loading
  <2> QED BY <1>7, <2>2, EndTurn
          DEF FailOpen, CancelExit, ConfirmExit, AbandonRename, Calm, At
<1>8. CASE UndoEdit \/ RedoEdit \/ CloseRequested \/ ListenForClose
  BY <1>8 DEF UndoEdit, RedoEdit, CloseRequested, ListenForClose, Aside, Calm, Keep
<1> QED
  BY <1>1, <1>2, <1>3, <1>4, <1>5, <1>6, <1>7, <1>8, SaveReturnsTurn, LoadTurn, OpenedTurn,
     ChooseTurn, RenameTurn
  DEF LifecycleNext, UserStep, Continue

-----------------------------------------------------------------------------
(* Types, the status, the prompt, and the session.                         *)

PromptTypeOK ==
  /\ promptPending \in BOOLEAN /\ listening \in BOOLEAN /\ exited \in BOOLEAN
  /\ delivery \in {"none", "queued", "lost"}

HistoryTypeOK ==
  overlapped \in BOOLEAN /\ touched \subseteq Flows /\ raced \subseteq Sessions

LifecycleInv ==
  /\ HistoryFits
  /\ BaseInv
  /\ PromptTypeOK
  /\ HistoryTypeOK
  /\ PromptIsHeld

LEMMA InitInvariant == LifecycleInit => LifecycleInv
<1> SUFFICES ASSUME LifecycleInit PROVE LifecycleInv
  OBVIOUS
<1>1. SessionInv
  BY InitInv DEF LifecycleInit
<1>2. WorldTypeOK
  BY <1>1, LifecycleAssumption DEF LifecycleInit, WorldTypeOK, SessionInv
<1>3. FlowsFit
  BY IdleFits DEF LifecycleInit, FlowsFit, FrameFits
<1>4. StatusInStep
  <2>1. /\ Dirty = FALSE /\ (cursor > 0) = FALSE /\ (cursor < Len(commands)) = FALSE
        /\ ~IsOpen /\ databasePath = Nothing
    BY DEF LifecycleInit, SessionInit, Dirty, IsOpen
  <2> QED BY <2>1, Zenon DEF LifecycleInit, StatusInStep
<1> QED
  BY <1>1, <1>2, <1>3, <1>4
  DEF LifecycleInv, SessionInv, BaseInv, LifecycleInit, PromptTypeOK, HistoryTypeOK, PromptIsHeld,
      Prompted, Idle

\* What a step does to the prompt.
LEMMA PromptStep ==
  ASSUME LifecycleNext
  PROVE  \/ Quiet
         \/ delivery' = "none" /\ UNCHANGED <<promptPending, listening, exited>>
            /\ \E f \in Flows : RequestExit(f)
         \/ promptPending' = FALSE /\ UNCHANGED <<delivery, listening, exited>>
            /\ \E f \in Flows : CancelExit(f)
         \/ exited' = TRUE /\ UNCHANGED <<promptPending, delivery, listening>>
            /\ \E f \in Flows : ConfirmExit(f)
         \/ CloseRequested
         \/ ListenForClose
<1>1. CASE UserStep
  BY <1>1 DEF UserStep, OpenArchive, CloseProject, SaveProject, RenameSymbol, UndoEdit, RedoEdit
<1>2. ASSUME NEW f \in Flows,
             \/ \E d \in {"save", "discard", "cancel"} : AnswerUnsaved(f, d)
             \/ \E p \in Paths \cup {Nothing} : ChoosePath(f, p)
             \/ CommitSave(f) \/ FailSave(f) \/ SaveReturns(f)
             \/ Load(f) \/ FailOpen(f) \/ BackendOpened(f) \/ OldClosed(f) \/ Release(f)
             \/ AbandonRename(f)
             \/ \E k \in Symbols, alias \in Aliases \cup {Nothing} : FinishRename(f, k, alias)
      PROVE  Quiet
  BY <1>2
  DEF AnswerUnsaved, ChoosePath, CommitSave, FailSave, SaveReturns, Load, FailOpen, BackendOpened,
      OldClosed, Release, AbandonRename, FinishRename
<1>3. ASSUME NEW f \in Flows, RequestExit(f)
      PROVE  delivery' = "none" /\ UNCHANGED <<promptPending, listening, exited>>
  BY <1>3 DEF RequestExit
<1>4. ASSUME NEW f \in Flows, CancelExit(f)
      PROVE  promptPending' = FALSE /\ UNCHANGED <<delivery, listening, exited>>
  BY <1>4 DEF CancelExit
<1>5. ASSUME NEW f \in Flows, ConfirmExit(f)
      PROVE  exited' = TRUE /\ UNCHANGED <<promptPending, delivery, listening>>
  BY <1>5 DEF ConfirmExit
<1> QED BY <1>1, <1>2, <1>3, <1>4, <1>5 DEF LifecycleNext, Continue

\* The types of what the kinds of steps leave behind.
LEMMA KindTypes ==
  ASSUME BaseInv, NEW f \in Flows, Kinds(f)
  PROVE  /\ backend' \subseteq Sessions /\ nextSession' \in 1 .. MaxSessions + 1
         /\ disk' \in [Paths -> Contents \cup {Nothing}]
<1>1. /\ FrameFits(flow[f]) /\ backend \subseteq Sessions /\ nextSession \in 1 .. MaxSessions + 1
      /\ disk \in [Paths -> Contents \cup {Nothing}]
  BY DEF BaseInv, WorldTypeOK, FlowsFit
<1>2. CASE Commits(f)
  <2>1. flow[f].path \in Paths /\ flow[f].carry \in Contents
    BY <1>1, <1>2 DEF Commits, At, FrameFits
  <2> QED BY <1>1, <1>2, <2>1 DEF Commits
<1>3. CASE Opens(f)
  BY <1>1, <1>3, LifecycleAssumption DEF Opens, Sessions
<1>4. CASE Activates(f) \/ Releases(f)
  BY <1>1, <1>4 DEF Activates, Releases
<1>5. CASE Calm
  BY <1>1, <1>5 DEF Calm
<1> QED
  BY <1>2, <1>3, <1>4, <1>5 DEF Kinds, Waits, Begins, Goes, Returns, Closes, Loads, Renames

LEMMA BaseNext ==
  ASSUME HistoryFits, BaseInv, LifecycleNext PROVE HistoryFits' /\ BaseInv'
<1>1. SessionInv /\ SessionEffect
  BY StepEffect DEF SessionInv, BaseInv, WorldTypeOK
<1>2. SessionInv' /\ StatusInStep' /\ shown' \in Sessions \cup {0}
  BY <1>1, EffectInStep
<1>3. status' \in [path : Paths \cup {Nothing}, dirty : BOOLEAN, undo : BOOLEAN, redo : BOOLEAN]
  <2>1. /\ databasePath' \in Paths \cup {Nothing} /\ Dirty' \in BOOLEAN
        /\ (cursor' > 0) \in BOOLEAN /\ (cursor' < Len(commands')) \in BOOLEAN
    BY <1>2 DEF SessionInv, SessionTypeOK, Dirty
  <2> QED BY <1>2, <2>1 DEF StatusInStep
<1>4. CASE Aside
  BY <1>2, <1>3, <1>4 DEF Aside, Calm, BaseInv, WorldTypeOK, FlowsFit, SessionInv
<1>5. ASSUME NEW f \in Flows, Turn(f) PROVE HistoryFits' /\ BaseInv'
  <2>1. FlowsFit'
    BY <1>5, MoveFits DEF Turn, BaseInv
  <2>2. /\ backend' \subseteq Sessions /\ nextSession' \in 1 .. MaxSessions + 1
        /\ disk' \in [Paths -> Contents \cup {Nothing}]
    BY <1>5, KindTypes DEF Turn
  <2> QED BY <1>2, <1>3, <2>1, <2>2 DEF BaseInv, WorldTypeOK, SessionInv
<1> QED BY <1>4, <1>5, StepTurn

LEMMA PromptNext ==
  ASSUME BaseInv, PromptTypeOK, PromptIsHeld, LifecycleNext
  PROVE  PromptTypeOK' /\ PromptIsHeld'
<1>1. PromptTypeOK'
  BY PromptStep DEF Quiet, PromptTypeOK, CloseRequested, ListenForClose
\* Who has a prompt keeps it, and who had none has taken up the one queued.
<1>2. ASSUME NEW g \in Flows
      PROVE  /\ g \in Prompted => g \in Prompted' \/ ~promptPending' \/ exited'
             /\ g \in Prompted' => g \in Prompted \/ (delivery = "queued" /\ delivery' = "none")
  <2>1. CASE Aside
    BY <2>1 DEF Aside, Prompted
  <2>2. ASSUME NEW f \in Flows, Turn(f), f # g PROVE flow'[g] = flow[g]
    BY <2>2, MoveFits DEF Turn, BaseInv
  <2>3. CASE Turn(g)
    BY <2>3 DEF Turn, Holds, Prompted
  <2> QED BY <2>1, <2>2, <2>3, StepTurn DEF Prompted
<1>3. ASSUME NEW f \in Flows, RequestExit(f)
      PROVE  flow'[f].goal = "exit" /\ \A g \in Flows \ {f} : flow'[g] = flow[g]
  <2> DEFINE fr == [Idle EXCEPT !.goal = "exit"]
  <2>1. flow \in [Flows -> Frames] /\ Confirm(f, fr)
    BY <1>3 DEF RequestExit, BaseInv, FlowsFit
  <2>2. fr.goal = "exit" /\ [fr EXCEPT !.pc = "asking"].goal = "exit"
        /\ [fr EXCEPT !.pc = "confirming"].goal = "exit"
    BY DEF Idle
  <2> HIDE DEF fr
  <2> QED BY <2>1, <2>2 DEF Confirm, Proceed
<1>4. ASSUME NEW f \in Flows, CancelExit(f)
      PROVE  /\ f \in Prompted /\ f \notin Prompted'
             /\ \A g \in Flows \ {f} : flow'[g] = flow[g]
  BY <1>4 DEF CancelExit, End, At, Idle, Prompted, BaseInv, FlowsFit, FrameFits
<1>5. PromptIsHeld'
  <2> SUFFICES ASSUME ~exited' PROVE PromptIsHeld'
    BY DEF PromptIsHeld
  <2>0. ~exited /\ promptPending \in BOOLEAN
    BY DEF LifecycleNext, PromptTypeOK
  <2>1. CASE UNCHANGED <<promptPending, delivery>>
    <3>1. CASE promptPending
      <4>1. Prompted' = Prompted
        BY <1>2, <2>1, <3>1 DEF Prompted
      <4> QED BY <2>0, <2>1, <4>1 DEF PromptIsHeld
    <3>2. CASE ~promptPending
      <4>1. Prompted = {} /\ delivery # "queued"
        BY <2>0, <3>2 DEF PromptIsHeld
      <4>2. Prompted' = {}
        BY <1>2, <4>1 DEF Prompted
      <4> QED BY <2>0, <2>1, <4>1, <4>2 DEF PromptIsHeld
    <3> QED BY <2>0, <3>1, <3>2
  <2>2. ASSUME NEW f \in Flows, RequestExit(f) PROVE PromptIsHeld'
    <3>1. /\ delivery = "queued" /\ delivery' = "none" /\ promptPending' = promptPending
      BY <2>2 DEF RequestExit
    <3>2. Prompted = {} /\ promptPending
      BY <2>0, <3>1 DEF PromptIsHeld
    <3>3. Prompted' = {f}
      BY <1>3, <2>2, <3>2 DEF Prompted
    <3> QED BY <3>1, <3>2, <3>3 DEF PromptIsHeld
  <2>3. ASSUME NEW f \in Flows, CancelExit(f) PROVE PromptIsHeld'
    <3>1. promptPending' = FALSE /\ delivery' = delivery
      BY <2>3 DEF CancelExit
    <3>2. Prompted = {f} /\ delivery = "none"
      BY <1>4, <2>0, <2>3 DEF PromptIsHeld, PromptTypeOK
    <3>3. Prompted' = {}
      BY <1>4, <2>3, <3>2 DEF Prompted
    <3> QED BY <3>1, <3>2, <3>3 DEF PromptIsHeld
  <2>4. CASE CloseRequested /\ ~promptPending
    <3>1. Prompted = {} /\ delivery # "queued"
      BY <2>0, <2>4 DEF PromptIsHeld
    <3>2. Prompted' = Prompted
      BY <2>4 DEF CloseRequested, Prompted
    <3>3. promptPending' = TRUE /\ delivery' \in {"queued", "lost"}
      BY <2>4 DEF CloseRequested
    <3> QED BY <3>1, <3>2, <3>3 DEF PromptIsHeld
  <2>5. CASE CloseRequested /\ promptPending
    BY <2>1, <2>5 DEF CloseRequested
  <2>6. \/ UNCHANGED <<promptPending, delivery>>
        \/ CloseRequested
        \/ \E f \in Flows : RequestExit(f) \/ CancelExit(f)
    BY PromptStep DEF Quiet, ListenForClose
  <2> QED BY <2>0, <2>1, <2>2, <2>3, <2>4, <2>5, <2>6
<1> QED BY <1>1, <1>5

LEMMA HistoryNext ==
  ASSUME HistoryTypeOK, LifecycleNext, shown' \in Sessions \cup {0} PROVE HistoryTypeOK'
<1>1. Observe
  BY DEF LifecycleNext
<1>2. raced' \subseteq Sessions
  BY <1>1 DEF HistoryTypeOK, Observe
<1> QED BY <1>1, <1>2 DEF HistoryTypeOK, Observe, Confirmed

LEMMA NextInvariant ==
  ASSUME LifecycleInv, [LifecycleNext]_lifecycleVars PROVE LifecycleInv'
<1>1. CASE LifecycleNext
  <2>1. HistoryFits' /\ BaseInv'
    BY <1>1, BaseNext DEF LifecycleInv
  <2>2. HistoryTypeOK'
    BY <1>1, <2>1, HistoryNext DEF LifecycleInv, BaseInv, WorldTypeOK
  <2> QED BY <1>1, <2>1, <2>2, PromptNext DEF LifecycleInv
<1>2. CASE UNCHANGED lifecycleVars
  BY <1>2
  DEF lifecycleVars, sessionVars, LifecycleInv, BaseInv, WorldTypeOK, SessionTypeOK, HistoryFits,
      Follows, FlowsFit, StatusInStep, Dirty, IsOpen, PromptTypeOK, HistoryTypeOK, PromptIsHeld,
      Prompted
<1> QED BY <1>1, <1>2

LEMMA LifecycleInvariant == LifecycleSpec => []LifecycleInv
BY InitInvariant, NextInvariant, PTL DEF LifecycleSpec

(***************************************************************************)
(* Type correctness of the workspace.                                      *)
(***************************************************************************)
THEOREM LifecycleTypes == LifecycleSpec => []LifecycleTypeOK
<1>1. LifecycleInv => LifecycleTypeOK
  BY DEF LifecycleInv, BaseInv, WorldTypeOK, FlowsFit, PromptTypeOK, HistoryTypeOK, LifecycleTypeOK
<1> QED BY <1>1, LifecycleInvariant, PTL

(***************************************************************************)
(* The copy of the session's state by which the workspace decides whether  *)
(* to ask is in step with the session, and an archive is shown exactly     *)
(* while the session has one.                                              *)
(***************************************************************************)
THEOREM StatusSafety == LifecycleSpec => []StatusInStep
<1>1. LifecycleInv => StatusInStep
  BY DEF LifecycleInv, BaseInv
<1> QED BY <1>1, LifecycleInvariant, PTL

(***************************************************************************)
(* A prompt that was sent to a listening page is in exactly one place, on  *)
(* its way or with one call, for as long as the shutdown controller waits, *)
(* and in none when it does not; one that was sent before the page         *)
(* listened stays with nobody.                                             *)
(***************************************************************************)
THEOREM PromptSafety == LifecycleSpec => []PromptIsHeld
<1>1. LifecycleInv => PromptIsHeld
  BY DEF LifecycleInv
<1> QED BY <1>1, LifecycleInvariant, PTL

(***************************************************************************)
(* However the awaits of the handlers interleave, what they do to the      *)
(* project session is what ProjectSession says, so that its history fits   *)
(* and undo and redo are those of the timeline.                            *)
(***************************************************************************)
THEOREM LifecycleIsSession == LifecycleSpec => SessionSpec
<1>1. LifecycleInit => SessionInit
  BY DEF LifecycleInit
<1>2. LifecycleInv /\ [LifecycleNext]_lifecycleVars => [SessionNext]_sessionVars
  <2>1. ASSUME LifecycleInv, LifecycleNext PROVE [SessionNext]_sessionVars
    BY <2>1, StepEffect, EffectIsSessionStep DEF LifecycleInv
  <2>2. UNCHANGED lifecycleVars => UNCHANGED sessionVars
    BY DEF lifecycleVars, sessionVars
  <2> QED BY <2>1, <2>2
<1> QED BY <1>1, <1>2, LifecycleInvariant, PTL DEF LifecycleSpec, SessionSpec

(***************************************************************************)
(* The history of the project fits its records in the running workspace,   *)
(* whatever loads, saves, closes and late renames come between the edits.  *)
(***************************************************************************)
THEOREM LifecycleHistory == LifecycleSpec => [](SessionTypeOK /\ HistoryFits)
BY LifecycleIsSession, SessionHistory

(***************************************************************************)
(* So undo and redo in the workspace move along the timeline of complete   *)
(* versions.                                                               *)
(***************************************************************************)
THEOREM LifecycleImplementsTimeline == LifecycleSpec => ImplementsTimeline
BY LifecycleIsSession, SessionImplementsTimeline

-----------------------------------------------------------------------------
(***************************************************************************)
(* Saves and the file.  As long as nothing has happened during a save, one *)
(* call at most is saving and carries the content of the session, a call   *)
(* that opens a project carries what its file holds, and the file of the   *)
(* project holds its save point, or is just getting it.                    *)
(***************************************************************************)

SavesAgree ==
  ~overlapped => \A f \in Saving :
    /\ flow[f].carry = Content
    /\ At(f, "saved") => disk[flow[f].path] = Content
    /\ \A g \in Saving : g = f

LoadsAgree ==
  ~overlapped => \A f \in Flows :
    flow[f].pc \in {"opening", "closing"} /\ flow[f].target \in Paths =>
      disk[flow[f].target] = flow[f].carry

SavedIsOnDisk ==
  ~overlapped /\ IsOpen =>
    \/ databasePath = Nothing /\ saved = Unnamed
    \/ /\ databasePath # Nothing
       /\ disk[databasePath] = [archive |-> archivePath, records |-> saved]
    \/ \E f \in Flows : At(f, "saved") /\ flow[f].path = databasePath

\* A call that has been confirmed: the user chose to discard the edits, or
\* there were none that are not on disk.
ChoiceInv ==
  \A f \in Flows : flow[f].pc \in {"loading", "opening", "closing", "confirming"} =>
    f \in touched \/ overlapped \/ flow[f].answer = "discard" \/ ~Dirty \/ OnDisk

DiskInv == SavesAgree /\ LoadsAgree /\ SavedIsOnDisk /\ ChoiceInv

\* What the history says of a step that is not followed by an overlap.
LEMMA NoOverlap ==
  ASSUME BaseInv, Observe, ~overlapped'
  PROVE  /\ ~overlapped
         /\ Saving # {} =>
              /\ ~SessionChanges
              /\ \A f \in Flows \ Saving : flow'[f].pc # "saving"
         /\ disk' # disk => \A f \in Flows :
              flow[f].pc \in {"opening", "closing"} => flow[f].carry = Nothing
         /\ \A f \in Flows : At(f, "saved") /\ flow'[f].pc \in {"idle", "cancelling"} =>
              databasePath' = flow[f].path /\ saved' = records
BY DEF Observe

\* Where a call that is saving comes from.
LEMMA SavingComes ==
  ASSUME FlowsFit, NEW f \in Flows, Turn(f), NEW g \in Flows, flow'[g].pc \in {"saving", "saved"}
  PROVE  \/ g # f /\ g \in Saving /\ flow'[g] = flow[g]
         \/ g = f /\ Begins(f) /\ f \notin Saving
         \/ g = f /\ Commits(f) /\ f \in Saving
<1>1. CASE g # f
  BY <1>1, MoveFits DEF Turn, Saving
<1>2. CASE g = f
  <2>1. flow[f] \in Frames
    BY DEF FlowsFit
  <2>2. Idle.pc = "idle"
    BY DEF Idle
  <2>3. CASE Waits(f) \/ Goes(f) \/ Closes(f)
    BY <1>2, <2>3 DEF Waits, Goes, GoesOn, Closes
  <2>4. CASE Returns(f)
    BY <1>2, <2>2, <2>4 DEF Returns, GoesOn
  <2>5. CASE Loads(f) \/ Opens(f)
    BY <1>2, <2>1, <2>2, <2>5 DEF Loads, Opens, Frames
  <2>6. CASE Activates(f) \/ Releases(f) \/ Renames(f)
    BY <1>2, <2>2, <2>6 DEF Activates, Releases, Renames
  <2>7. CASE Begins(f) \/ Commits(f)
    BY <1>2, <2>7 DEF Begins, Commits, Saving, At
  <2> QED BY <2>3, <2>4, <2>5, <2>6, <2>7 DEF Turn, Kinds
<1> QED BY <1>1, <1>2

LEMMA SavesNext ==
  ASSUME BaseInv, SavesAgree, LifecycleNext PROVE SavesAgree'
<1> SUFFICES ASSUME ~overlapped'
             PROVE  \A g \in Saving' :
                      /\ flow'[g].carry = Content'
                      /\ flow'[g].pc = "saved" => disk'[flow'[g].path] = Content'
                      /\ \A h \in Saving' : h = g
  BY DEF SavesAgree, At
<1>0. /\ ~overlapped /\ FlowsFit
      /\ Saving # {} =>
           ~SessionChanges /\ \A f \in Flows \ Saving : flow'[f].pc # "saving"
  BY NoOverlap DEF LifecycleNext, BaseInv
<1>1. \A f \in Saving : /\ flow[f].carry = Content
                        /\ flow[f].pc = "saved" => disk[flow[f].path] = Content
                        /\ \A g \in Saving : g = f
  BY <1>0 DEF SavesAgree, At
<1>2. CASE Aside
  BY <1>0, <1>1, <1>2 DEF Aside, Calm, Saving, SessionChanges, Content
<1>3. ASSUME NEW f \in Flows, Turn(f), Begins(f)
      PROVE  \A g \in Saving' : g = f /\ flow'[g].carry = Content' /\ flow'[g].pc = "saving"
  <2>1. Saving = {} /\ flow'[f].pc = "saving" /\ flow'[f].carry = Content'
    BY <1>0, <1>3 DEF Begins, Saving, Keep, sessionVars, Content
  <2> QED BY <1>0, <1>3, <2>1, SavingComes DEF Saving
<1>4. ASSUME NEW f \in Flows, Turn(f), Commits(f)
      PROVE  \A g \in Saving' : /\ g = f /\ flow'[g].carry = Content'
                                /\ disk'[flow'[g].path] = Content'
  <2>1. f \in Saving /\ flow[f] \in Frames /\ flow[f].path \in Paths
        /\ disk \in [Paths -> Contents \cup {Nothing}]
    BY <1>4 DEF Commits, Saving, At, BaseInv, FlowsFit, FrameFits, WorldTypeOK
  <2>2. /\ flow'[f].carry = Content' /\ flow'[f].path = flow[f].path
        /\ disk'[flow[f].path] = Content'
    BY <1>1, <1>4, <2>1 DEF Commits, Keep, sessionVars, Content, Frames
  <2> QED BY <1>0, <1>1, <1>4, <2>1, <2>2, SavingComes DEF Saving, Commits, Begins, Idle
<1>5. ASSUME NEW f \in Flows, Turn(f), ~Begins(f), ~Commits(f)
      PROVE  /\ Saving' \subseteq Saving /\ \A g \in Saving' : flow'[g] = flow[g]
             /\ UNCHANGED disk
  <2>1. UNCHANGED disk
    BY <1>5
    DEF Turn, Kinds, Calm, Waits, Goes, GoesOn, Returns, Closes, Loads, Opens, Activates, Releases,
        Renames
  <2> QED BY <1>0, <1>5, <2>1, SavingComes DEF Saving
<1>6. ASSUME NEW f \in Flows, Turn(f) PROVE
        \A g \in Saving' : /\ flow'[g].carry = Content'
                           /\ flow'[g].pc = "saved" => disk'[flow'[g].path] = Content'
                           /\ \A h \in Saving' : h = g
  BY <1>0, <1>1, <1>3, <1>4, <1>5, <1>6 DEF SessionChanges, Content
<1> QED BY <1>2, <1>6, StepTurn

\* A step that is not a commit leaves the files alone.
LEMMA DiskStays ==
  ASSUME NEW f \in Flows, Kinds(f), ~Commits(f) PROVE UNCHANGED disk
BY DEF Kinds, Calm, Waits, Begins, Goes, Returns, Closes, Loads, Opens, Activates, Releases, Renames

LEMMA LoadsNext ==
  ASSUME BaseInv, LoadsAgree, LifecycleNext PROVE LoadsAgree'
<1> SUFFICES ASSUME ~overlapped', NEW g \in Flows, flow'[g].pc \in {"opening", "closing"},
                    flow'[g].target \in Paths
             PROVE  disk'[flow'[g].target] = flow'[g].carry
  BY DEF LoadsAgree
<1>0. /\ ~overlapped /\ FlowsFit /\ FrameFits(flow[g]) /\ flow[g] \in Frames
      /\ disk' # disk /\ flow[g].pc \in {"opening", "closing"} => flow[g].carry = Nothing
  BY NoOverlap DEF LifecycleNext, BaseInv, FlowsFit
<1>1. CASE flow'[g] = flow[g]
  <2>1. flow[g].carry # Nothing /\ disk[flow[g].target] = flow[g].carry
    BY <1>0, <1>1 DEF FrameFits, LoadsAgree
  <2>2. UNCHANGED disk
    BY <1>0, <1>1, <2>1
  <2> QED BY <1>1, <2>1, <2>2
<1>2. ASSUME Turn(g) PROVE disk'[flow'[g].target] = flow'[g].carry
  <2>1. Idle.pc = "idle"
    BY DEF Idle
  <2>2. CASE Waits(g) \/ Begins(g) \/ Goes(g) \/ Closes(g)
    BY <2>2 DEF Waits, Begins, Goes, GoesOn, Closes
  <2>3. CASE Returns(g)
    BY <2>1, <2>3 DEF Returns, GoesOn
  <2>4. CASE Commits(g)
    BY <1>0, <2>4 DEF Commits, Frames
  <2>5. CASE Loads(g)
    <3>1. disk' = disk /\ flow'[g].target = flow[g].target
          /\ flow'[g].carry = disk[flow[g].target]
      BY <1>0, <2>5 DEF Loads, Calm, Frames
    <3> QED BY <3>1
  <2>6. CASE Opens(g)
    <3>1. UNCHANGED disk /\ At(g, "opening")
          /\ flow'[g].target = flow[g].target /\ flow'[g].carry = flow[g].carry
      BY <1>0, <2>1, <2>6 DEF Opens, Frames
    <3> QED BY <1>0, <3>1 DEF LoadsAgree, At
  <2>7. CASE Activates(g) \/ Releases(g) \/ Renames(g)
    BY <2>1, <2>7 DEF Activates, Releases, Renames
  <2> QED BY <1>2, <2>2, <2>3, <2>4, <2>5, <2>6, <2>7 DEF Turn, Kinds
<1>3. ASSUME NEW f \in Flows, Turn(f), f # g PROVE flow'[g] = flow[g]
  BY <1>0, <1>3, MoveFits DEF Turn
<1> QED BY <1>1, <1>2, <1>3, StepTurn DEF Aside

LEMMA ActivatedOnDisk ==
  ASSUME BaseInv, LoadsAgree, ~overlapped, NEW f \in Flows, flow[f].pc \in {"opening", "closing"},
         NEW s, ActivateNow(f, s), UNCHANGED disk
  PROVE  \/ databasePath' = Nothing /\ saved' = Unnamed
         \/ /\ databasePath' # Nothing
            /\ disk'[databasePath'] = [archive |-> archivePath', records |-> saved']
<1>1. CASE flow[f].target \in Archives /\ Activate(flow[f].target, Nothing, Unnamed)
  BY <1>1 DEF Activate
<1>2. CASE /\ flow[f].target \in Paths
           /\ Activate(flow[f].carry.archive, flow[f].target, flow[f].carry.records)
  <2> DEFINE c == flow[f].carry
  <2>1. c \in Contents /\ disk[flow[f].target] = c
    BY <1>2 DEF BaseInv, FlowsFit, FrameFits, LoadsAgree
  <2>2. c = [archive |-> c.archive, records |-> c.records]
    BY <2>1 DEF Contents
  <2>3. flow[f].target # Nothing
    BY <1>2, SessionAssumption
  <2> QED BY <1>2, <2>1, <2>2, <2>3 DEF Activate
<1> QED BY <1>1, <1>2 DEF ActivateNow

LEMMA SavedNext ==
  ASSUME BaseInv, SavesAgree, LoadsAgree, SavedIsOnDisk, LifecycleNext PROVE SavedIsOnDisk'
<1> DEFINE Named(p, a, r) == p # Nothing /\ disk'[p] = [archive |-> a, records |-> r]
<1> SUFFICES ASSUME ~overlapped', IsOpen'
             PROVE  \/ databasePath' = Nothing /\ saved' = Unnamed
                    \/ Named(databasePath', archivePath', saved')
                    \/ \E f \in Flows : flow'[f].pc = "saved" /\ flow'[f].path = databasePath'
  BY DEF SavedIsOnDisk, At
<1>0. /\ ~overlapped /\ FlowsFit
      /\ \A f \in Flows : At(f, "saved") /\ flow'[f].pc \in {"idle", "cancelling"} =>
           databasePath' = flow[f].path /\ saved' = records
  BY NoOverlap DEF LifecycleNext, BaseInv
<1>1. \A f \in Saving : /\ flow[f].carry = Content
                        /\ flow[f].pc = "saved" => disk[flow[f].path] = Content
                        /\ \A g \in Saving : g = f
  BY <1>0 DEF SavesAgree, At
<1>2. IsOpen =>
        \/ databasePath = Nothing /\ saved = Unnamed
        \/ /\ databasePath # Nothing
           /\ disk[databasePath] = [archive |-> archivePath, records |-> saved]
        \/ \E f \in Flows : flow[f].pc = "saved" /\ flow[f].path = databasePath
  BY <1>0 DEF SavedIsOnDisk, At
<1>3. ASSUME UNCHANGED <<disk, archivePath, databasePath, saved>>,
             \A f \in Flows : flow[f].pc = "saved" => flow'[f] = flow[f]
      PROVE  SavedIsOnDisk'
  BY <1>0, <1>2, <1>3 DEF SavedIsOnDisk, At, IsOpen
<1>4. ASSUME Aside PROVE SavedIsOnDisk'
  BY <1>3, <1>4 DEF Aside, Calm, Keep, sessionVars, Undo, Redo
<1>5. ASSUME NEW f \in Flows, Turn(f) PROVE SavedIsOnDisk'
  <2>0. FrameFits(flow[f]) /\ \A g \in Flows \ {f} : flow'[g] = flow[g]
    BY <1>0, <1>5, MoveFits DEF Turn, FlowsFit
  <2>1. CASE flow[f].pc = "saved" /\ (Waits(f) \/ Returns(f))
    <3>1. /\ databasePath' = flow[f].path /\ saved' = records
          /\ UNCHANGED <<archivePath, disk>>
      <4>1. CASE Waits(f)
        <5>1. flow'[f].pc \in {"idle", "cancelling"}
          BY <2>1, <4>1 DEF Waits
        <5> QED BY <1>0, <2>1, <4>1, <5>1 DEF Waits, Keep, sessionVars, Calm, At
      <4>2. CASE Returns(f)
        BY <4>2 DEF Returns, MarkSaved, Calm
      <4> QED BY <2>1, <4>1, <4>2
    <3>2. f \in Saving /\ flow[f].path \in Paths
      BY <2>0, <2>1 DEF Saving, FrameFits
    <3>3. disk[flow[f].path] = Content /\ flow[f].path # Nothing
      BY <1>1, <2>1, <3>2, SessionAssumption
    <3> QED BY <3>1, <3>3 DEF SavedIsOnDisk, Content
  <2>2. CASE Commits(f)
    <3>1. /\ f \in Saving /\ flow[f].path \in Paths /\ flow[f] \in Frames
          /\ disk \in [Paths -> Contents \cup {Nothing}]
      BY <2>0, <2>2 DEF Commits, At, Saving, FrameFits, BaseInv, WorldTypeOK
    <3>2. \A g \in Flows : flow[g].pc # "saved"
      BY <1>1, <2>2, <3>1 DEF Saving, Commits, At
    <3>3. /\ flow'[f].pc = "saved" /\ flow'[f].path = flow[f].path
          /\ disk' = [disk EXCEPT ![flow[f].path] = flow[f].carry]
          /\ UNCHANGED <<archivePath, databasePath, saved>>
      BY <2>2, <3>1 DEF Commits, Keep, sessionVars, Frames
    <3>4. CASE databasePath = flow[f].path
      BY <3>3, <3>4 DEF SavedIsOnDisk, At
    <3>5. CASE databasePath # flow[f].path
      <4>1. databasePath \in Paths \cup {Nothing}
        BY DEF BaseInv, WorldTypeOK, SessionTypeOK
      <4> QED BY <1>2, <3>1, <3>2, <3>3, <3>5, <4>1 DEF SavedIsOnDisk, IsOpen
    <3> QED BY <3>4, <3>5
  <2>3. CASE Closes(f)
    BY <2>3 DEF Closes, CloseSession, SavedIsOnDisk, IsOpen
  <2>4. CASE Opens(f) \/ Activates(f)
    <3>1. CASE \E s : ActivateNow(f, s)
      BY <1>0, <2>4, <3>1, ActivatedOnDisk DEF Opens, Activates, At, SavedIsOnDisk
    <3>2. CASE Keep
      BY <1>3, <2>0, <2>4, <3>2 DEF Opens, Activates, At, Keep, sessionVars
    <3> QED BY <2>4, <3>1, <3>2 DEF Opens, Activates
  <2>5. CASE flow[f].pc # "saved" /\ ~Commits(f) /\ ~Closes(f) /\ ~Opens(f) /\ ~Activates(f)
    <3>1. UNCHANGED <<archivePath, databasePath, saved, disk>>
      BY <1>5, <2>5
      DEF Turn, Kinds, Waits, Begins, Goes, Loads, Releases, Renames, Returns, Rename, Calm, Keep,
          sessionVars, At
    <3> QED BY <1>3, <2>0, <2>5, <3>1
  <2>6. flow[f].pc = "saved" => Waits(f) \/ Returns(f) \/ Closes(f)
    BY <1>5
    DEF Turn, Kinds, Begins, Goes, Commits, Loads, Opens, Activates, Releases, Renames, At
  <2> QED BY <2>1, <2>2, <2>3, <2>4, <2>5, <2>6
<1> QED BY <1>4, <1>5, StepTurn DEF SavedIsOnDisk, At

-----------------------------------------------------------------------------
(* Whose choice it was.                                                    *)

LEMMA OnDiskStays ==
  ASSUME BaseInv, SavesAgree, ~overlapped, ~SessionChanges, OnDisk,
         Aside \/ \E f \in Flows : Turn(f)
  PROVE  OnDisk'
<1>1. PICK p \in Paths : disk[p] = Content
  BY DEF OnDisk
<1>2. Content' = Content
  BY DEF SessionChanges, Content
<1>3. CASE UNCHANGED disk
  BY <1>1, <1>2, <1>3 DEF OnDisk
<1>4. ASSUME NEW f \in Flows, Commits(f) PROVE OnDisk'
  <2>1. flow[f].carry = Content
    BY <1>4 DEF SavesAgree, Saving, Commits, At
  <2>2. disk \in [Paths -> Contents \cup {Nothing}]
    BY DEF BaseInv, WorldTypeOK
  <2>3. disk'[p] = Content
    BY <1>1, <1>4, <2>1, <2>2 DEF Commits
  <2> QED BY <1>2, <2>3 DEF OnDisk
<1> QED BY <1>3, <1>4, DiskStays DEF Aside, Calm, Turn

\* Unless it changes what the session holds, a step makes nothing dirty.
LEMMA CleanStays ==
  ASSUME SessionEffect, ~SessionChanges, ~Dirty PROVE ~Dirty'
<1>1. CASE Keep
  BY <1>1 DEF Keep, sessionVars, Dirty, IsOpen
<1>2. CASE UNCHANGED <<records, archivePath, saved>>
  BY <1>2 DEF Dirty, IsOpen
<1>3. CASE saved' = records'
  BY <1>3 DEF Dirty
<1>4. SessionEffect =>
        Keep \/ UNCHANGED <<records, archivePath, saved>> \/ saved' = records'
  BY DEF SessionEffect, SessionChanges, CloseSession, Activate, Rename, Undo, Redo, MarkSaved
<1> QED BY <1>1, <1>2, <1>3, <1>4

LEMMA ChoiceNext ==
  ASSUME BaseInv, SavesAgree, ChoiceInv, LifecycleNext PROVE ChoiceInv'
<1> SUFFICES ASSUME NEW g \in Flows, ~overlapped', g \notin touched', Dirty', ~OnDisk',
                    flow'[g].pc \in {"loading", "opening", "closing", "confirming"}
             PROVE  flow'[g].answer = "discard"
  BY DEF ChoiceInv
<1>0. /\ FlowsFit /\ FrameFits(flow[g]) /\ flow[g] \in Frames /\ ~overlapped /\ SessionEffect
      /\ Aside \/ \E f \in Flows : Turn(f)
  BY NoOverlap, StepEffect, StepTurn DEF LifecycleNext, BaseInv, FlowsFit
<1>1. g \notin touched /\ (g \in Confirmed => ~SessionChanges)
  BY DEF LifecycleNext, Observe
<1>2. ASSUME flow[g].pc \in {"loading", "opening", "closing", "confirming"},
             flow'[g].answer = flow[g].answer
      PROVE  flow'[g].answer = "discard"
  <2>1. ~SessionChanges
    BY <1>1, <1>2 DEF Confirmed
  <2>2. Dirty /\ ~OnDisk
    BY <1>0, <2>1, CleanStays, OnDiskStays
  <2> QED BY <1>0, <1>1, <1>2, <2>2 DEF ChoiceInv
<1>3. CASE flow'[g] = flow[g]
  BY <1>2, <1>3
<1>4. ASSUME Turn(g) PROVE flow'[g].answer = "discard"
  <2>1. Idle.pc = "idle"
    BY DEF Idle
  <2>2. CASE Waits(g) \/ Begins(g) \/ Closes(g)
    BY <2>2 DEF Waits, Begins, Closes
  <2>3. CASE Goes(g)
    <3>1. status.dirty = Dirty
      BY DEF BaseInv, StatusInStep
    <3>2. Dirty
      BY <2>3 DEF Goes, Keep, sessionVars, Dirty, IsOpen
    <3> QED BY <2>3, <3>1, <3>2 DEF Goes
  <2>4. CASE Returns(g)
    BY <2>4 DEF Returns, MarkSaved, Dirty
  <2>5. CASE Commits(g)
    BY <1>0, <2>5 DEF Commits, Frames
  <2>6. CASE Loads(g) \/ Opens(g)
    <3>1. flow[g].pc \in {"loading", "opening"} /\ flow'[g].answer = flow[g].answer
      BY <1>0, <2>1, <2>6 DEF Loads, Opens, At, Frames
    <3> QED BY <1>2, <3>1
  <2>7. CASE Activates(g) \/ Releases(g) \/ Renames(g)
    BY <2>1, <2>7 DEF Activates, Releases, Renames
  <2> QED BY <1>4, <2>2, <2>3, <2>4, <2>5, <2>6, <2>7 DEF Turn, Kinds
<1>5. ASSUME NEW f \in Flows, Turn(f), f # g PROVE flow'[g] = flow[g]
  BY <1>0, <1>5, MoveFits DEF Turn
<1> QED BY <1>0, <1>3, <1>4, <1>5 DEF Aside

LEMMA DiskInit == LifecycleInit => DiskInv
BY DEF LifecycleInit, SessionInit, DiskInv, SavesAgree, LoadsAgree, SavedIsOnDisk, ChoiceInv,
       Saving, At, Idle, IsOpen

LEMMA DiskNext ==
  ASSUME LifecycleInv, DiskInv, [LifecycleNext]_lifecycleVars PROVE DiskInv'
<1>1. CASE LifecycleNext
  BY <1>1, SavesNext, LoadsNext, SavedNext, ChoiceNext DEF DiskInv, LifecycleInv
<1>2. CASE UNCHANGED lifecycleVars
  BY <1>2
  DEF lifecycleVars, sessionVars, DiskInv, SavesAgree, LoadsAgree, SavedIsOnDisk, ChoiceInv, Saving,
      At, Content, IsOpen, Dirty, OnDisk
<1> QED BY <1>1, <1>2

LEMMA DiskInvariant == LifecycleSpec => []DiskInv
BY DiskInit, DiskNext, LifecycleInvariant, PTL DEF LifecycleSpec

(***************************************************************************)
(* Whatever fails, is cancelled, is opened again or is saved under another *)
(* path: as long as nothing has happened during a save, a project that is  *)
(* not dirty can be read back from its file.                               *)
(***************************************************************************)
THEOREM SavePointSafety == LifecycleSpec => []SavePointUnlessOverlapped
<1>1. LifecycleInv /\ DiskInv => SavePointUnlessOverlapped
  <2> SUFFICES ASSUME LifecycleInv, DiskInv, ~overlapped, Saving = {}, IsOpen, ~Dirty
               PROVE  IF databasePath = Nothing THEN records = Unnamed
                      ELSE disk[databasePath] = Content
    BY DEF SavePointUnlessOverlapped, SavePointIsOnDisk, SavePoint
  <2>1. records = saved
    BY DEF Dirty
  <2>2. ~ \E f \in Flows : At(f, "saved") /\ flow[f].path = databasePath
    BY DEF Saving, At
  <2> QED BY <2>1, <2>2 DEF DiskInv, SavedIsOnDisk, Content
<1> QED BY <1>1, LifecycleInvariant, DiskInvariant, PTL

\* Only the call that takes the step replaces the project.
LEMMA ReplacingStep ==
  ASSUME BaseInv, SavesAgree, ChoiceInv, LifecycleNext, NEW g \in Flows, Replaces(g)
  PROVE  ~Dirty \/ OnDisk \/ Discards(g) \/ g \in touched \/ overlapped
<1>0. FlowsFit /\ FrameFits(flow[g]) /\ flow'[g].pc # flow[g].pc
  BY DEF BaseInv, FlowsFit, Replaces
<1>1. ASSUME flow[g].pc \in {"opening", "closing", "confirming"}
      PROVE  ~Dirty \/ OnDisk \/ Discards(g) \/ g \in touched \/ overlapped
  BY <1>1 DEF ChoiceInv, Discards
<1>2. CASE exited' # exited
  <2>1. PICK f \in Flows : ConfirmExit(f)
    BY <1>2, PromptStep DEF Quiet, CloseRequested, ListenForClose
  <2>2. f = g
    BY <1>0, <2>1 DEF ConfirmExit, End, FlowsFit
  <2> QED BY <1>1, <2>1, <2>2 DEF ConfirmExit, At
<1>3. CASE shown' # shown
  <2>1. PICK f \in Flows : Turn(f)
    BY <1>0, StepTurn DEF Aside
  <2>2. f = g
    BY <1>0, <2>1, MoveFits DEF Turn
  <2>3. Closes(g) \/ Opens(g) \/ Activates(g)
    BY <1>3, <2>1, <2>2
    DEF Turn, Kinds, Waits, Begins, Goes, Commits, Loads, Releases, Renames, Returns, Keep
  <2>4. CASE Closes(g)
    <3>1. CASE flow[g].pc = "idle" /\ ~status.dirty
      BY <3>1 DEF BaseInv, StatusInStep
    <3>2. CASE flow'[g].answer = "discard"
      BY <3>2 DEF Discards
    <3>3. CASE flow[g].pc = "saved" /\ ~overlapped
      BY <1>0, <3>3 DEF SavesAgree, Saving, At, FrameFits, OnDisk
    <3> QED BY <2>4, <3>1, <3>2, <3>3 DEF Closes
  <2> QED BY <1>1, <2>3, <2>4 DEF Opens, Activates, At
<1> QED BY <1>2, <1>3 DEF Replaces

(***************************************************************************)
(* No interleaving of dialogs, saves and answers ends a project with edits *)
(* that are not on disk, unless the user has chosen to discard them, has   *)
(* made them after the project was confirmed to go, or has let something   *)
(* happen during a save.                                                   *)
(***************************************************************************)
THEOREM ChoiceSafety == LifecycleSpec => DiscardIsChosen
<1>1. ASSUME LifecycleInv, DiskInv, [LifecycleNext]_lifecycleVars
      PROVE  [\A f \in Flows :
                Replaces(f) => \/ ~Dirty \/ OnDisk
                               \/ Discards(f)
                               \/ f \in touched \/ overlapped]_lifecycleVars
  BY <1>1, ReplacingStep DEF LifecycleInv, DiskInv
<1> QED BY <1>1, LifecycleInvariant, DiskInvariant, PTL DEF LifecycleSpec, DiscardIsChosen

-----------------------------------------------------------------------------
(***************************************************************************)
(* The sessions of the backend, however opens and closes overlap.          *)
(***************************************************************************)

\* Sessions are numbered in the order they are opened.
Opened ==
  /\ \A s \in backend : s \in Nat /\ s # 0 /\ s < nextSession
  /\ shown < nextSession
  /\ \A f \in Flows : flow[f].view < nextSession

\* A session that is about to be shown is open, and only its call knows it.
FreshAlone ==
  \A f \in Flows : At(f, "closing") =>
    /\ flow[f].fresh \in backend /\ flow[f].fresh # shown
    /\ \A g \in Flows : flow[g].view # flow[f].fresh
    /\ \A g \in Flows : At(g, "closing") /\ g # f => flow[g].fresh # flow[f].fresh

\* A session that is about to be closed is not shown any more.
ReleasedHidden == \A f \in Flows : At(f, "releasing") => flow[f].view # shown

\* A call that replaces another session than the one it captured replaces one
\* that was shown since.
ViewsFit == \A f \in Captured : flow[f].view = shown \/ shown = 0 \/ shown \in raced

\* Whose a session of the backend is.
Owned(s) ==
  \/ s = shown \/ s \in raced
  \/ \E f \in Flows : At(f, "closing") /\ flow[f].fresh = s
  \/ \E f \in Flows : At(f, "releasing") /\ flow[f].view = s

ShownOpen == shown # 0 => shown \in backend
AllOwned == \A s \in backend : Owned(s)

SessionsInv ==
  Opened /\ FreshAlone /\ ReleasedHidden /\ ViewsFit /\ ShownOpen /\ AllOwned

LEMMA SessionsInit == LifecycleInit => SessionsInv
<1> SUFFICES ASSUME LifecycleInit PROVE SessionsInv
  OBVIOUS
<1>1. \A f \in Flows : flow[f].pc = "idle" /\ flow[f].goal = "none" /\ flow[f].view = 0
  BY DEF LifecycleInit, Idle
<1> QED
  BY <1>1
  DEF LifecycleInit, SessionsInv, Opened, FreshAlone, ReleasedHidden, ViewsFit, ShownOpen, AllOwned,
      Captured, At

\* What the kinds of steps do to the session a call holds.
LEMMA ViewStep ==
  ASSUME FlowsFit, NEW f \in Flows, Kinds(f)
  PROVE  /\ flow'[f].view \in {0, shown, flow[f].view}
         /\ f \in Captured' =>
              flow'[f].view = shown \/ (f \in Captured /\ flow'[f].view = flow[f].view)
<1>1. /\ Idle.pc = "idle" /\ Idle.goal = "none" /\ Idle.view = 0
      /\ flow[f] \in Frames /\ FrameFits(flow[f])
  BY DEF Idle, FlowsFit
<1>2. CASE flow'[f] = Idle
  BY <1>1, <1>2 DEF Captured
<1>3. CASE Waits(f) \/ Begins(f) \/ Closes(f)
  <2>1. Origin(f) /\ flow'[f].pc \notin {"loading", "opening", "closing"}
    BY <1>3 DEF Waits, Begins, Closes
  <2> QED BY <2>1 DEF Origin, Captured
<1>4. CASE GoesOn(f)
  BY <1>4 DEF GoesOn, Origin, Captured
<1>5. CASE Commits(f)
  <2>1. /\ flow[f].pc = "saving" /\ flow'[f].pc = "saved"
        /\ flow'[f].view = flow[f].view /\ flow'[f].goal = flow[f].goal
    BY <1>1, <1>5 DEF Commits, At, Frames
  <2> QED BY <2>1 DEF Captured
<1>6. CASE Loads(f)
  <2>1. /\ flow[f].pc = "loading" /\ flow'[f].pc = "opening"
        /\ flow'[f].view = flow[f].view /\ flow'[f].goal = flow[f].goal
    BY <1>1, <1>6 DEF Loads, At, Frames
  <2> QED BY <2>1 DEF Captured
<1>7. CASE Opens(f) /\ flow'[f] # Idle
  <2>1. /\ flow[f].pc = "opening" /\ flow'[f].pc = "closing"
        /\ flow'[f].view = flow[f].view /\ flow'[f].goal = flow[f].goal
    BY <1>1, <1>7 DEF Opens, At, Frames
  <2> QED BY <2>1 DEF Captured
<1> QED
  BY <1>2, <1>3, <1>4, <1>5, <1>6, <1>7
  DEF Kinds, Goes, Returns, Activates, Releases, Renames

\* A step of f that neither opens nor shows nor closes a session.
LEMMA SessionsCalm ==
  ASSUME FlowsFit, SessionsInv, NEW f \in Flows, Turn(f), raced \subseteq raced',
         0 < nextSession,
         UNCHANGED <<shown, backend, nextSession>>,
         flow[f].pc \notin {"closing", "releasing"},
         flow'[f].pc \notin {"closing", "releasing"}
  PROVE  SessionsInv'
<1>1. /\ Opened /\ FreshAlone /\ ReleasedHidden /\ ViewsFit /\ ShownOpen /\ AllOwned
      /\ \A g \in Flows \ {f} : flow'[g] = flow[g]
      /\ flow'[f].view \in {0, shown, flow[f].view}
      /\ f \in Captured' =>
           flow'[f].view = shown \/ (f \in Captured /\ flow'[f].view = flow[f].view)
  BY MoveFits, ViewStep DEF Turn, SessionsInv
<1>2. \A g \in Flows : At(g, "closing") => flow[g].fresh # 0
  BY DEF FlowsFit, FrameFits, At, Sessions
<1>3. Opened'
  BY <1>1 DEF Opened
<1>4. FreshAlone'
  BY <1>1, <1>2 DEF FreshAlone, At
<1>5. ReleasedHidden'
  BY <1>1 DEF ReleasedHidden, At
<1>6. ViewsFit'
  <2>1. \A g \in Flows \ {f} : g \in Captured' => g \in Captured
    BY <1>1 DEF Captured
  <2>2. Captured' \subseteq Flows
    BY DEF Captured
  <2> QED BY <1>1, <2>1, <2>2 DEF ViewsFit
<1>7. AllOwned'
  <2> SUFFICES ASSUME NEW s \in backend PROVE Owned(s)'
    BY DEF AllOwned
  <2> QED BY <1>1 DEF AllOwned, Owned, At
<1> QED BY <1>1, <1>3, <1>4, <1>5, <1>6, <1>7 DEF SessionsInv, ShownOpen

LEMMA SessionsCloses ==
  ASSUME FlowsFit, SessionsInv, NEW f \in Flows, Turn(f), raced \subseteq raced',
         0 < nextSession, Closes(f)
  PROVE  SessionsInv'
<1>1. /\ Opened /\ FreshAlone /\ ReleasedHidden /\ ViewsFit /\ ShownOpen /\ AllOwned
      /\ \A g \in Flows \ {f} : flow'[g] = flow[g]
      /\ flow'[f].view \in {0, shown, flow[f].view}
      /\ FrameFits(flow'[f])
  BY MoveFits, ViewStep DEF Turn, SessionsInv
<1>2. /\ shown' = 0 /\ UNCHANGED <<backend, nextSession>>
      /\ flow'[f].pc = "releasing" /\ flow[f].pc \notin {"closing", "releasing"} /\ Origin(f)
  BY DEF Closes, Calm
<1>3. flow'[f].goal = "close" /\ flow'[f].view # 0
  BY <1>1, <1>2 DEF FrameFits
<1>4. flow'[f].view = shown \/ shown = 0 \/ shown \in raced
  BY <1>1, <1>2, <1>3 DEF Origin, ViewsFit
<1>5. \A g \in Flows : /\ At(g, "closing") => flow[g].fresh # 0
                       /\ At(g, "releasing") => flow[g].view # 0
  BY DEF FlowsFit, FrameFits, At, Sessions
<1>6. Opened'
  BY <1>1, <1>2 DEF Opened
<1>7. FreshAlone'
  BY <1>1, <1>2, <1>5 DEF FreshAlone, At
<1>8. ReleasedHidden'
  BY <1>1, <1>2, <1>3, <1>5 DEF ReleasedHidden, At
<1>9. ViewsFit'
  BY <1>2 DEF ViewsFit
<1>10. AllOwned'
  <2> SUFFICES ASSUME NEW s \in backend PROVE Owned(s)'
    BY <1>2 DEF AllOwned
  <2>1. s # 0
    BY <1>1 DEF Opened
  <2>2. CASE s = shown
    BY <1>2, <1>4, <2>1, <2>2 DEF Owned, At
  <2>3. CASE s # shown
    BY <1>1, <1>2, <2>3 DEF AllOwned, Owned, At
  <2> QED BY <2>2, <2>3
<1> QED BY <1>2, <1>6, <1>7, <1>8, <1>9, <1>10 DEF SessionsInv, ShownOpen

\* A session is opened, to be shown when the old one is closed.
LEMMA SessionsOpens ==
  ASSUME FlowsFit, SessionsInv, NEW f \in Flows, Turn(f), raced \subseteq raced',
         0 < nextSession, nextSession \in Nat, shown \in Nat, Opens(f), flow[f].view # 0
  PROVE  SessionsInv'
<1>1. /\ Opened /\ FreshAlone /\ ReleasedHidden /\ ViewsFit /\ ShownOpen /\ AllOwned
      /\ \A g \in Flows \ {f} : flow'[g] = flow[g]
      /\ \A g \in Flows : flow[g] \in Frames
  BY MoveFits DEF Turn, SessionsInv, FlowsFit
<1>2. /\ backend' = backend \cup {nextSession} /\ nextSession' = nextSession + 1
      /\ UNCHANGED shown
      /\ flow[f].pc = "opening" /\ flow'[f].pc = "closing" /\ flow'[f].fresh = nextSession
      /\ flow'[f].view = flow[f].view /\ flow'[f].goal = flow[f].goal
  BY <1>1 DEF Opens, Keep, At, Frames
<1>3. \A g \in Flows : flow[g].view \in Nat /\ flow[g].view < nextSession
  BY <1>1 DEF Opened, Frames, Sessions
<1>4. Opened'
  BY <1>1, <1>2, <1>3 DEF Opened
<1>5. /\ nextSession \notin backend /\ shown # nextSession
      /\ \A g \in Flows : flow'[g].view = flow[g].view /\ flow[g].view # nextSession
  BY <1>1, <1>2, <1>3 DEF Opened
<1>6. FreshAlone'
  <2> SUFFICES ASSUME NEW h \in Flows, At(h, "closing")'
               PROVE  /\ flow'[h].fresh \in backend' /\ flow'[h].fresh # shown'
                      /\ \A g \in Flows : flow'[g].view # flow'[h].fresh
                      /\ \A g \in Flows : At(g, "closing")' /\ g # h => flow'[g].fresh # flow'[h].fresh
    BY DEF FreshAlone
  <2>1. CASE h = f
    BY <1>1, <1>2, <1>5, <2>1 DEF FreshAlone, At
  <2>2. CASE h # f
    <3>1. At(h, "closing") /\ flow'[h] = flow[h]
      BY <1>1, <2>2 DEF At
    <3>2. /\ flow[h].fresh \in backend /\ flow[h].fresh # shown
          /\ \A g \in Flows : flow[g].view # flow[h].fresh
          /\ \A g \in Flows : At(g, "closing") /\ g # h => flow[g].fresh # flow[h].fresh
      BY <1>1, <3>1 DEF FreshAlone
    <3> QED BY <1>1, <1>2, <1>5, <3>1, <3>2 DEF At
  <2> QED BY <2>1, <2>2
<1>7. ReleasedHidden'
  BY <1>1, <1>2 DEF ReleasedHidden, At
<1>8. ViewsFit'
  <2>1. Captured' = Captured
    BY <1>1, <1>2 DEF Captured
  <2> QED BY <1>1, <1>2, <1>5, <2>1 DEF ViewsFit, Captured
<1>9. AllOwned'
  <2> SUFFICES ASSUME NEW s \in backend' PROVE Owned(s)'
    BY DEF AllOwned
  <2>1. CASE s = nextSession
    BY <1>2, <2>1 DEF Owned, At
  <2>2. CASE s \in backend
    BY <1>1, <1>2, <2>2 DEF AllOwned, Owned, At
  <2> QED BY <1>2, <2>1, <2>2
<1> QED BY <1>1, <1>2, <1>4, <1>6, <1>7, <1>8, <1>9 DEF SessionsInv, ShownOpen

\* The session n is shown by f in place of the one f captured.
LEMMA SessionsShows ==
  ASSUME FlowsFit, SessionsInv, NEW f \in Flows, Turn(f), f \in Captured,
         raced \subseteq raced', nextSession \in Nat, nextSession' \in Nat,
         0 < nextSession, nextSession <= nextSession',
         NEW n \in Nat, n < nextSession', n # 0, n # shown, n \notin {flow[g].view : g \in Flows},
         shown' = n, flow'[f] = Idle, n \in backend',
         \A g \in Flows \ {f} : At(g, "closing") => flow[g].fresh # n,
         backend' = (backend \ {flow[f].view}) \cup {n},
         flow[f].pc \in {"opening", "closing"},
         At(f, "closing") => flow[f].fresh = n,
         Captured' # {} => n \in raced'
  PROVE  SessionsInv'
<1>1. /\ Opened /\ FreshAlone /\ ReleasedHidden /\ ViewsFit /\ ShownOpen /\ AllOwned
      /\ \A g \in Flows \ {f} : flow'[g] = flow[g]
      /\ flow'[f].pc = "idle" /\ flow'[f].view = 0
      /\ \A g \in Flows : flow[g] \in Frames
  BY MoveFits DEF Turn, SessionsInv, Idle, FlowsFit
<1>2. \A g \in Flows : flow[g].view \in Nat /\ flow[g].view < nextSession
  BY <1>1 DEF Opened, Frames, Sessions
<1>3. Opened'
  BY <1>1, <1>2 DEF Opened
<1>4. \A g \in Flows : At(g, "closing") => flow[g].fresh # 0
  BY DEF FlowsFit, FrameFits, At, Sessions
<1>5. FreshAlone'
  <2> SUFFICES ASSUME NEW h \in Flows, At(h, "closing")'
               PROVE  /\ flow'[h].fresh \in backend' /\ flow'[h].fresh # shown'
                      /\ \A g \in Flows : flow'[g].view # flow'[h].fresh
                      /\ \A g \in Flows : At(g, "closing")' /\ g # h => flow'[g].fresh # flow'[h].fresh
    BY DEF FreshAlone
  <2>1. h # f /\ At(h, "closing") /\ flow'[h] = flow[h]
    BY <1>1 DEF At
  <2>2. /\ flow[h].fresh \in backend /\ flow[h].fresh # n /\ flow[h].fresh # 0
        /\ \A g \in Flows : flow[g].view # flow[h].fresh
        /\ \A g \in Flows : At(g, "closing") /\ g # h => flow[g].fresh # flow[h].fresh
    BY <1>1, <1>4, <2>1 DEF FreshAlone
  <2> QED BY <1>1, <2>1, <2>2 DEF At
<1>6. ReleasedHidden'
  BY <1>1 DEF ReleasedHidden, At
<1>7. ViewsFit'
  BY DEF ViewsFit
<1>8. AllOwned'
  <2> SUFFICES ASSUME NEW s \in backend' PROVE Owned(s)'
    BY DEF AllOwned
  <2>1. CASE s = n
    BY <2>1 DEF Owned
  <2>2. CASE s # n /\ s = shown
    <3>1. s \in raced
      BY <1>1, <2>2 DEF ViewsFit, Opened
    <3> QED BY <3>1 DEF Owned
  <2>3. CASE s # n /\ s # shown
    <3>1. s \in backend /\ Owned(s)
      BY <1>1, <2>3 DEF AllOwned
    <3> QED BY <1>1, <2>3, <3>1 DEF Owned, At
  <2> QED BY <2>1, <2>2, <2>3
<1> QED BY <1>3, <1>5, <1>6, <1>7, <1>8 DEF SessionsInv, ShownOpen

LEMMA SessionsReleases ==
  ASSUME FlowsFit, SessionsInv, NEW f \in Flows, Turn(f), raced \subseteq raced',
         0 < nextSession, Releases(f)
  PROVE  SessionsInv'
<1>1. /\ Opened /\ FreshAlone /\ ReleasedHidden /\ ViewsFit /\ ShownOpen /\ AllOwned
      /\ \A g \in Flows \ {f} : flow'[g] = flow[g]
      /\ flow'[f].pc = "idle" /\ flow'[f].goal = "none" /\ flow'[f].view = 0
  BY MoveFits DEF Turn, SessionsInv, Releases, Idle
<1>2. /\ UNCHANGED <<shown, nextSession>> /\ backend' = backend \ {flow[f].view}
      /\ At(f, "releasing") /\ flow[f].view # shown
  BY <1>1 DEF Releases, Keep, ReleasedHidden
<1>3. \A g \in Flows : At(g, "closing") => flow[g].fresh # 0
  BY DEF FlowsFit, FrameFits, At, Sessions
<1>4. Opened'
  BY <1>1, <1>2 DEF Opened
<1>5. FreshAlone'
  BY <1>1, <1>2, <1>3 DEF FreshAlone, At
<1>6. ReleasedHidden'
  BY <1>1, <1>2 DEF ReleasedHidden, At
<1>7. ViewsFit'
  <2>1. Captured' \subseteq Captured \ {f}
    BY <1>1 DEF Captured
  <2>2. Captured \subseteq Flows
    BY DEF Captured
  <2> QED BY <1>1, <1>2, <2>1, <2>2 DEF ViewsFit
<1>8. AllOwned'
  <2> SUFFICES ASSUME NEW s \in backend' PROVE Owned(s)'
    BY DEF AllOwned
  <2>1. s # flow[f].view /\ Owned(s)
    BY <1>1, <1>2 DEF AllOwned
  <2> QED BY <1>1, <1>2, <2>1 DEF Owned, At
<1> QED BY <1>1, <1>2, <1>4, <1>5, <1>6, <1>7, <1>8 DEF SessionsInv, ShownOpen

LEMMA SessionsNext ==
  ASSUME BaseInv, SessionsInv, LifecycleNext PROVE SessionsInv'
<1>0. /\ FlowsFit /\ Opened /\ FreshAlone /\ nextSession \in Nat /\ 0 < nextSession /\ shown \in Nat
      /\ raced' = raced \cup (IF Captured' # {} THEN {shown'} \ {0, shown} ELSE {})
  BY LifecycleAssumption DEF BaseInv, SessionsInv, WorldTypeOK, Sessions, LifecycleNext, Observe
<1>1. CASE Aside
  <2>1. UNCHANGED <<flow, backend, nextSession, shown>> /\ raced \subseteq raced'
    BY <1>0, <1>1 DEF Aside, Calm, Keep
  <2> QED BY <2>1
       DEF SessionsInv, Opened, FreshAlone, ReleasedHidden, ViewsFit, ShownOpen, AllOwned, Owned,
           Captured, At
<1>2. ASSUME NEW f \in Flows, Turn(f) PROVE SessionsInv'
  <2>1. /\ Kinds(f) /\ raced \subseteq raced' /\ FrameFits(flow[f]) /\ flow[f] \in Frames
        /\ Idle.pc = "idle"
    BY <1>0, <1>2 DEF Turn, FlowsFit, Idle
  <2>2. CASE Waits(f) \/ Begins(f) \/ Goes(f) \/ Returns(f) \/ Renames(f)
    <3>1. /\ UNCHANGED <<shown, backend, nextSession>>
          /\ flow[f].pc \notin {"closing", "releasing"}
          /\ flow'[f].pc \notin {"closing", "releasing"}
      BY <2>1, <2>2 DEF Waits, Begins, Goes, GoesOn, Returns, Renames, Keep, Calm, At
    <3> QED BY <1>0, <1>2, <2>1, <3>1, SessionsCalm
  <2>3. CASE Commits(f) \/ Loads(f)
    <3>1. /\ UNCHANGED <<shown, backend, nextSession>>
          /\ flow[f].pc \notin {"closing", "releasing"}
          /\ flow'[f].pc \notin {"closing", "releasing"}
      BY <2>1, <2>3 DEF Commits, Loads, Keep, Calm, At, Frames
    <3> QED BY <1>0, <1>2, <2>1, <3>1, SessionsCalm
  <2>4. CASE Closes(f)
    BY <1>0, <1>2, <2>1, <2>4, SessionsCloses
  <2>5. CASE Opens(f) /\ flow[f].view # 0
    BY <1>0, <1>2, <2>1, <2>5, SessionsOpens
  <2>6. CASE Opens(f) /\ flow[f].view = 0
    <3> DEFINE n == nextSession
    <3>1. /\ flow[f].pc = "opening" /\ f \in Captured
      BY <2>1, <2>6 DEF Opens, At, FrameFits, Loading, Captured
    <3>2. /\ backend' = backend \cup {n} /\ nextSession' = n + 1 /\ shown' = n /\ flow'[f] = Idle
      BY <2>6 DEF Opens, ActivateNow
    <3>3. /\ n \in Nat /\ n < nextSession' /\ n # 0 /\ n # shown /\ n \notin backend
          /\ 0 \notin backend /\ nextSession' \in Nat /\ nextSession <= nextSession'
      BY <1>0, <3>2 DEF Opened
    <3>4. n \notin {flow[g].view : g \in Flows}
      BY <1>0 DEF Opened
    <3>5. \A g \in Flows \ {f} : At(g, "closing") => flow[g].fresh # n
      BY <1>0, <3>3 DEF FreshAlone
    <3>6. backend' = (backend \ {flow[f].view}) \cup {n} /\ n \in backend'
      BY <2>6, <3>2, <3>3
    <3>7. Captured' # {} => n \in raced'
      BY <1>0, <3>2, <3>3
    <3>8. ~At(f, "closing")
      BY <3>1 DEF At
    <3> HIDE DEF n
    <3> QED BY <1>0, <1>2, <2>1, <3>1, <3>2, <3>3, <3>4, <3>5, <3>6, <3>7, <3>8, SessionsShows
  <2>7. CASE Activates(f)
    <3> DEFINE n == flow[f].fresh
    <3>1. /\ At(f, "closing") /\ flow[f].pc = "closing" /\ f \in Captured
      BY <2>1, <2>7 DEF Activates, At, FrameFits, Loading, Captured
    <3>2. /\ backend' = backend \ {flow[f].view} /\ nextSession' = nextSession
          /\ shown' = n /\ flow'[f] = Idle
      BY <2>7 DEF Activates, ActivateNow
    <3>3. /\ n \in backend /\ n # shown /\ \A g \in Flows : flow[g].view # n
          /\ \A g \in Flows : At(g, "closing") /\ g # f => flow[g].fresh # n
      BY <1>0, <3>1 DEF FreshAlone
    <3>4. n \in Nat /\ n < nextSession' /\ n # 0
      BY <1>0, <3>2, <3>3 DEF Opened
    <3>5. backend' = (backend \ {flow[f].view}) \cup {n} /\ n \in backend'
      BY <3>2, <3>3
    <3>6. Captured' # {} => n \in raced'
      BY <1>0, <3>2, <3>3, <3>4
    <3>7. n \notin {flow[g].view : g \in Flows} /\ (At(f, "closing") => flow[f].fresh = n)
      BY <3>3
    <3>8. \A g \in Flows \ {f} : At(g, "closing") => flow[g].fresh # n
      BY <3>3
    <3>9. nextSession' \in Nat /\ nextSession <= nextSession'
      BY <1>0, <3>2
    <3> HIDE DEF n
    <3> QED
      BY <1>0, <1>2, <2>1, <3>1, <3>2, <3>3, <3>4, <3>5, <3>6, <3>7, <3>8, <3>9, SessionsShows
  <2>8. CASE Releases(f)
    BY <1>0, <1>2, <2>1, <2>8, SessionsReleases
  <2> QED
    BY <2>1, <2>2, <2>3, <2>4, <2>5, <2>6, <2>7, <2>8 DEF Kinds
<1> QED BY <1>1, <1>2, StepTurn

(***************************************************************************)
(* However opens, closes, failures and answers overlap, the session that   *)
(* is shown is open, and a session that stays open behind it is one that   *)
(* was shown while another open or close had captured the one before it.   *)
(***************************************************************************)
THEOREM SessionsSafety == LifecycleSpec => []NoLeakedSession
<1>1. ASSUME LifecycleInv, SessionsInv, [LifecycleNext]_lifecycleVars PROVE SessionsInv'
  <2>1. CASE LifecycleNext
    BY <1>1, <2>1, SessionsNext DEF LifecycleInv
  <2>2. CASE UNCHANGED lifecycleVars
    BY <1>1, <2>2
    DEF lifecycleVars, SessionsInv, Opened, FreshAlone, ReleasedHidden, ViewsFit, ShownOpen, AllOwned,
        Owned, Captured, At
  <2> QED BY <1>1, <2>1, <2>2
<1>2. SessionsInv => NoLeakedSession
  BY DEF SessionsInv, ShownOpen, AllOwned, Owned, NoLeakedSession
<1> QED BY <1>1, <1>2, SessionsInit, LifecycleInvariant, PTL DEF LifecycleSpec
=============================================================================
