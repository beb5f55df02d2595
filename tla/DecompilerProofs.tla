------------------------- MODULE DecompilerProofs -------------------------
(***************************************************************************)
(* Proofs about DexReader and DecompilerContext, for any archive and any   *)
(* requests.  The first part shows that one revision stands for one class  *)
(* graph: a step of the reader either raises the revision or keeps what    *)
(* the revision vouches for (ReaderStep), and a cache is only ever kept,   *)
(* dropped or made for the revision at hand (CachesStep).  The second part *)
(* shows, on top of it, what the generator is handed:                      *)
(*                                                                         *)
(* - RenderIsPrepared needs the types of the state and which requests can  *)
(*   be where (ControlInv), and what has been prepared at each place on    *)
(*   the way to the generator (PreparedInv);                               *)
(* - CodeIsWhole needs where a unit has no code yet and when the cache may *)
(*   hold code that is not whole (CodeInv);                                *)
(* - JobsAreResolved needs that nothing loaded is left unlinked            *)
(*   (MarkedInv), that what a pass selects is closed under nesting         *)
(*   (SelectInv), and that each selected class is either still in the      *)
(*   cache, through termination, or has been taken by a job whose unit it  *)
(*   is part of (PassInv, JobInv);                                         *)
(* - IsolatedRendersRepeat needs what an isolated request has loaded at    *)
(*   each place (ScopeInv), the closures as least sets, and that the loop  *)
(*   of prepare_source_backend can end at one place only (Trail, OneEnd).  *)
(***************************************************************************)
EXTENDS DecompilerContext, TLAPS

\* What a cache holds was derived under a revision not after r, and if that
\* is r, from at least the classes of V and at most those of L.
Sound(cache, r, L, V) ==
  cache # Absent =>
    /\ cache.revision \in Nat /\ cache.revision <= r
    /\ cache.revision = r => cache.of \subseteq L /\ V \subseteq cache.of

GraphInv ==
  /\ Vouched \subseteq linked
  /\ analysis = "Ready" => analysed \subseteq loaded /\ Vouched \subseteq analysed

CachesInv ==
  /\ Sound(hierarchy, revision, loaded, Vouched)
  /\ Sound(javaAbi, revision, loaded, Vouched)
  /\ Sound(kotlinAbi, revision, loaded, Vouched)
  /\ Sound(draft, revision, loaded, Vouched)

ReaderInv == ReaderTypeOK /\ GraphInv

RevisionInv == ReaderInv /\ CachesInv

\* The classes grow, and what is new is unmarked or was loaded before.
Grows ==
  /\ revision' = revision
  /\ loaded \subseteq loaded'
  /\ Vouched' \subseteq Vouched

\* The class graph is another one.
Marks == revision' = revision + 1

ReaderStep == ReaderInv' /\ (Grows \/ Marks) /\ broken' = broken

\* What a step may make of a cache: keep it, drop it, or, while the reader
\* stands still, derive it anew or take the draft.
CacheStep(cache, next) ==
  \/ next = cache \/ next = Absent
  \/ UNCHANGED readerVars /\ next \in {Made, draft}

CachesStep ==
  /\ CacheStep(hierarchy, hierarchy')
  /\ CacheStep(javaAbi, javaAbi')
  /\ CacheStep(kotlinAbi, kotlinAbi')
  /\ CacheStep(draft, draft')

\* A step of the reader and of the caches keeps the invariant.
LEMMA RevisionStep ==
  ASSUME RevisionInv, ReaderStep, CachesStep
  PROVE  RevisionInv'
<1> DEFINE S(c) == Sound(c, revision, loaded, Vouched)
           T(c) == Sound(c, revision', loaded', Vouched')
<1>1. ASSUME NEW c, S(c) PROVE T(c)
  <2>1. CASE Grows
    BY <1>1, <2>1 DEF Sound, Grows
  <2>2. CASE Marks
    BY <1>1, <2>2 DEF Sound, Marks, RevisionInv, ReaderInv, ReaderTypeOK, GraphInv
  <2> QED BY <2>1, <2>2 DEF ReaderStep
<1>2. S(Made)
  BY DEF Sound, Made, Vouched, RevisionInv, ReaderInv, ReaderTypeOK, GraphInv
<1>3. T(Absent)
  BY DEF Sound
<1>4. ASSUME NEW c, NEW d, S(c), CacheStep(c, d) PROVE T(d)
  <2>1. CASE d = c
    BY <1>1, <1>4, <2>1
  <2>2. CASE d = Absent
    BY <1>3, <2>2
  <2>3. CASE d \in {Made, draft}
    <3>1. S(Made) /\ S(draft)
      BY <1>2 DEF RevisionInv, CachesInv
    <3> QED BY <1>1, <2>3, <3>1
  <2> QED BY <1>4, <2>1, <2>2, <2>3 DEF CacheStep
<1>5. S(hierarchy) /\ S(javaAbi) /\ S(kotlinAbi) /\ S(draft)
  BY DEF RevisionInv, CachesInv
<1>6. T(hierarchy') /\ T(javaAbi') /\ T(kotlinAbi') /\ T(draft')
  BY <1>4, <1>5 DEF CachesStep
<1> QED BY <1>6 DEF RevisionInv, CachesInv, ReaderStep

-----------------------------------------------------------------------------
(* The operations of the reader.                                           *)

LEMMA ReaderStays == ASSUME ReaderInv, UNCHANGED readerVars PROVE ReaderStep
BY DEF ReaderStep, ReaderInv, ReaderTypeOK, GraphInv, Grows, Vouched, readerVars, graphVars

\* mark_override_analysis_dirty and link_inner_classes
LEMMA MarkSteps ==
  ASSUME ReaderInv, MarkAndLink,
         loaded' \subseteq Located \ broken, enlarged' \subseteq loaded' \cap Enlarged
  PROVE  ReaderStep
BY DEF ReaderStep, ReaderInv, ReaderTypeOK, GraphInv, Marks, Vouched, MarkAndLink

LEMMA LoadSteps ==
  ASSUME ReaderInv, NEW c, LoadClass(c) PROVE ReaderStep
BY ArchiveAssumption, ReaderStays, MarkSteps DEF LoadClass, Answer, ReaderInv, ReaderTypeOK

LEMMA InsertSteps ==
  ASSUME ReaderInv, NEW c, InsertClass(c) PROVE ReaderStep
BY DEF ReaderStep, ReaderInv, ReaderTypeOK, GraphInv, Grows, Vouched, InsertClass, Answer

LEMMA DefinitionSteps ==
  ASSUME ReaderInv, NEW c, NEW larger, InsertDefinition(c, larger) PROVE ReaderStep
BY DEF ReaderStep, ReaderInv, ReaderTypeOK, GraphInv, Grows, Vouched, InsertDefinition

LEMMA EndInsertingSteps ==
  ASSUME ReaderInv, NEW b, EndInserting(b) PROVE ReaderStep
BY ReaderStays, MarkSteps DEF EndInserting, ReaderInv, ReaderTypeOK

LEMMA ClearSteps == ASSUME ReaderInv, ClearLoaded PROVE ReaderStep
BY ReaderStays, MarkSteps DEF ClearLoaded, ReaderInv, ReaderTypeOK

LEMMA AnalysisSteps == ASSUME ReaderInv, AnalyseOverrides PROVE ReaderStep
BY DEF ReaderStep, ReaderInv, ReaderTypeOK, GraphInv, Grows, Vouched, AnalyseOverrides

-----------------------------------------------------------------------------
(* The operations on the caches.                                           *)

LEMMA CachesStay ==
  ASSUME SameCaches, draft' \in {draft, Absent} PROVE CachesStep
BY DEF SameCaches, cacheVars, CachesStep, CacheStep

LEMMA DropSteps ==
  ASSUME DropCaches, draft' \in {draft, Absent} PROVE CachesStep
BY DEF DropCaches, CachesStep, CacheStep

LEMMA RootsSteps ==
  ASSUME NEW R, SetRoots(R), UNCHANGED draft PROVE CachesStep
BY DEF SetRoots, CachesStep, CacheStep

LEMMA HierarchySteps ==
  ASSUME WithHierarchy, UNCHANGED <<readerVars, javaAbi, kotlinAbi, draft>>
  PROVE  CachesStep
BY DEF WithHierarchy, CachesStep, CacheStep

LEMMA JavaSteps ==
  ASSUME PrepareJava, UNCHANGED <<readerVars, draft>> PROVE CachesStep
BY CachesStay DEF PrepareJava, WithHierarchy, CachesStep, CacheStep

LEMMA RoundSteps ==
  ASSUME NEW goal, EndKotlinRound(goal), UNCHANGED readerVars PROVE CachesStep
<1>1. CASE revision = draft.revision
  BY <1>1 DEF EndKotlinRound, CachesStep, CacheStep
<1>2. CASE revision # draft.revision
  BY <1>2, CachesStay DEF EndKotlinRound
<1> QED BY <1>1, <1>2

-----------------------------------------------------------------------------
(* The steps, in groups: what each does to the reader and to the caches.   *)

LEMMA CallerSteps == ASSUME ReaderInv, Caller PROVE ReaderStep /\ CachesStep
<1>1. CASE BeginClass \/ BeginMethod \/ BeginOutline \/ BeginBatch \/ BeginAll
  BY <1>1, ReaderStays, CachesStay
  DEF BeginClass, BeginMethod, BeginOutline, BeginBatch, BeginAll, Begin
<1>2. CASE ClearBetween
  BY <1>2, ClearSteps, DropSteps DEF ClearBetween, ClearScope, frameVars
<1>3. CASE TakeReader
  BY <1>3, ReaderStays, DropSteps DEF TakeReader, frameVars
<1> QED BY <1>1, <1>2, <1>3 DEF Caller

LEMMA UnitSteps == ASSUME ReaderInv, UnitStep PROVE ReaderStep /\ CachesStep
<1>1. CASE Load
  BY <1>1, LoadSteps, CachesStay DEF Load, ClearFrame, frameVars
<1>2. CASE Scope
  BY <1>2, ReaderStays, ClearSteps, DropSteps, CachesStay
  DEF Scope, ClearScope, frameVars
<1>3. CASE Outer
  BY <1>3, LoadSteps, CachesStay DEF Outer, frameVars
<1>4. CASE Collect \/ CollectNeeds \/ NeedsLoaded
  BY <1>4, ReaderStays, CachesStay DEF Collect, CollectNeeds, NeedsLoaded
<1>5. CASE EnterTermination
  BY <1>5, ReaderStays, RootsSteps DEF EnterTermination
<1>6. CASE Terminate \/ Prepare
  BY <1>6, ReaderStays, CachesStay DEF Terminate, Prepare
<1>7. ASSUME NEW c \in Classes, CollectNested(c) \/ LoadNeed(c)
      PROVE  ReaderStep /\ CachesStep
  BY <1>7, LoadSteps, CachesStay DEF CollectNested, LoadNeed
<1>8. ASSUME NEW c \in Classes, Callee(c) PROVE ReaderStep /\ CachesStep
  BY <1>8, ReaderStays, LoadSteps, CachesStay DEF Callee
<1>9. CASE PrepareContext
  <2>1. ReaderStep
    BY <1>9, ReaderStays DEF PrepareContext
  <2>2. CachesStep
    BY <1>9, JavaSteps, CachesStay DEF PrepareContext
  <2> QED BY <2>1, <2>2
<1>10. CASE Prepared
  BY <1>10, ReaderStays, CachesStay DEF Prepared, OnlyReader
<1>11. CASE TakeHierarchy
  BY <1>11, ReaderStays, HierarchySteps DEF TakeHierarchy, frameVars
<1>12. CASE Render
  BY <1>12, ReaderStays, ClearSteps, DropSteps, CachesStay
  DEF Render, ClearScope, ClearFrame
<1> QED
  BY <1>1, <1>2, <1>3, <1>4, <1>5, <1>6, <1>7, <1>8, <1>9, <1>10, <1>11, <1>12
  DEF UnitStep

LEMMA EnsureSteps == ASSUME ReaderInv, EnsureStep PROVE ReaderStep /\ CachesStep
<1>1. CASE Ensure \/ HierarchyClosed \/ MembersLoaded
  BY <1>1, ReaderStays, CachesStay DEF Ensure, HierarchyClosed, MembersLoaded, OnlyReader
<1>2. CASE Analyse
  BY <1>2, AnalysisSteps, CachesStay DEF Analyse, OnlyReader
<1>3. ASSUME NEW c \in Classes, LoadParent(c) \/ LoadMember(c)
      PROVE  ReaderStep /\ CachesStep
  BY <1>3, LoadSteps, CachesStay DEF LoadParent, LoadMember, OnlyReader
<1> QED BY <1>1, <1>2, <1>3 DEF EnsureStep

LEMMA KotlinSteps == ASSUME ReaderInv, KotlinStep PROVE ReaderStep /\ CachesStep
<1>1. CASE AnalyseKotlin
  <2>1. CASE UNCHANGED draft
    BY <1>1, <2>1, ReaderStays, CachesStay DEF AnalyseKotlin
  <2>2. CASE draft' = Made
    BY <1>1, <2>2, ReaderStays
    DEF AnalyseKotlin, SameCaches, cacheVars, CachesStep, CacheStep
  <2> QED BY <1>1, <2>1, <2>2 DEF AnalyseKotlin
<1>2. CASE DependenciesLoaded \/ ArchiveDependenciesLoaded
  BY <1>2, ReaderStays, RoundSteps DEF DependenciesLoaded, ArchiveDependenciesLoaded
<1>3. ASSUME NEW c \in Classes, LoadDependency(c) PROVE ReaderStep /\ CachesStep
  BY <1>3, LoadSteps, CachesStay DEF LoadDependency, OnlyReader
<1> QED BY <1>1, <1>2, <1>3 DEF KotlinStep

LEMMA ArchiveSteps == ASSUME ReaderInv, ArchiveStep PROVE ReaderStep /\ CachesStep
<1>1. CASE SelectNested
  BY <1>1, EndInsertingSteps, CachesStay DEF SelectNested
<1>2. CASE Retain \/ Prefetch \/ ArchiveTermination
  BY <1>2, ReaderStays, CachesStay DEF Retain, Prefetch, ArchiveTermination, frameVars
<1>3. CASE RootsBefore
  BY <1>3, ReaderStays, RootsSteps, CachesStay DEF RootsBefore, frameVars
<1>4. CASE JavaBefore \/ FinishJava
  BY <1>4, ReaderStays, JavaSteps, CachesStay DEF JavaBefore, FinishJava, frameVars
<1>5. CASE KotlinFromArchive
  <2>1. CASE UNCHANGED draft
    BY <1>5, <2>1, ReaderStays, CachesStay DEF KotlinFromArchive
  <2>2. CASE draft' = Made
    BY <1>5, <2>2, ReaderStays
    DEF KotlinFromArchive, SameCaches, cacheVars, CachesStep, CacheStep
  <2> QED BY <1>5, <2>1, <2>2 DEF KotlinFromArchive
<1>6. CASE ResolveArchive \/ FinishHierarchy
  BY <1>6, ReaderStays, HierarchySteps DEF ResolveArchive, FinishHierarchy, frameVars
<1>7. CASE EndJob
  BY <1>7, ReaderStays, CachesStay DEF EndJob
<1>8. CASE JobsDone
  BY <1>8, ReaderStays, CachesStay DEF JobsDone, OnlyReader
<1>9. CASE Abandon
  BY <1>9, ClearSteps, CachesStay DEF Abandon, ClearFrame
<1>10. ASSUME NEW c \in Classes, SelectClass(c) PROVE ReaderStep /\ CachesStep
  BY <1>10, InsertSteps, CachesStay DEF SelectClass
<1>11. ASSUME NEW c \in Classes, StartJob(c) PROVE ReaderStep /\ CachesStep
  BY <1>11, ReaderStays, CachesStay DEF StartJob
<1> QED
  BY <1>1, <1>2, <1>3, <1>4, <1>5, <1>6, <1>7, <1>8, <1>9, <1>10, <1>11 DEF ArchiveStep

LEMMA SelectAllSteps == ASSUME ReaderInv, SelectAllStep PROVE ReaderStep /\ CachesStep
<1>1. CASE NextDex
  BY <1>1, ReaderStays, CachesStay DEF NextDex, OnlyReader
<1>2. CASE AllDefined
  BY <1>2, EndInsertingSteps, CachesStay DEF AllDefined
<1>3. CASE Selected
  BY <1>3, ReaderStays, CachesStay DEF Selected, ClearFrame
<1>4. ASSUME NEW c \in Classes, NEW larger \in BOOLEAN, Define(c, larger)
      PROVE  ReaderStep /\ CachesStep
  BY <1>4, DefinitionSteps, CachesStay DEF Define
<1> QED BY <1>1, <1>2, <1>3, <1>4 DEF SelectAllStep

LEMMA FailureSteps ==
  ASSUME ReaderInv, FailJob \/ FailRequest PROVE ReaderStep /\ CachesStep
<1>1. CASE FailJob
  BY <1>1, ReaderStays, CachesStay DEF FailJob
<1>2. CASE FailRequest
  BY <1>2, ReaderStays, ClearSteps, DropSteps, CachesStay
  DEF FailRequest, ClearScope, ClearFrame
<1> QED BY <1>1, <1>2

LEMMA RevisionInit == Init => RevisionInv
BY ArchiveAssumption
DEF Init, ReaderInit, RevisionInv, ReaderInv, ReaderTypeOK, GraphInv, CachesInv, Sound, Vouched

LEMMA ReaderNext == ReaderInv /\ [Next]_vars => ReaderStep /\ CachesStep
<1> SUFFICES ASSUME ReaderInv, [Next]_vars PROVE ReaderStep /\ CachesStep
  OBVIOUS
<1>1. CASE Next
  BY <1>1, CallerSteps, UnitSteps, EnsureSteps, KotlinSteps, ArchiveSteps, SelectAllSteps,
     FailureSteps
  DEF Next, Continue
<1>2. CASE UNCHANGED vars
  BY <1>2, ReaderStays, CachesStay DEF vars, frameVars, SameCaches
<1> QED BY <1>1, <1>2

LEMMA RevisionNext == RevisionInv /\ [Next]_vars => RevisionInv'
BY ReaderNext, RevisionStep DEF RevisionInv

(***************************************************************************)
(* Everything derived under the current revision was derived from the      *)
(* classes that are loaded, whatever requests have been made of the        *)
(* decompiler and wherever they have failed.                               *)
(***************************************************************************)
THEOREM RevisionSafety == Spec => []RevisionVouches
<1>1. RevisionInv => RevisionVouches
  BY DEF RevisionInv, ReaderInv, ReaderTypeOK, GraphInv, CachesInv, Sound, RevisionVouches, OfVouched, Current
<1> QED BY <1>1, RevisionInit, RevisionNext, PTL DEF Spec

------------------------------------------------------------------------------

EnsurePlaces == {"ensure", "closure", "members", "closureAgain", "analyse"}
Ensuring(goals) == where \in EnsurePlaces /\ after \in goals

\* A request for one class or method, in one language.
ForOne == request.kind \in {"class", "method"}

\* The unit of such a request is being collected, ...
Collecting ==
  \/ where \in {"scope", "roots"}
  \/ where \in {"outer", "collect", "nested", "needs"} /\ job = Absent
  \/ Ensuring({"collect", "roots"})

\* ... or prepared, from its contract roots on.
Preparing ==
  \/ where \in {"terminate", "prepare", "context", "stable", "hierarchy", "render"}
  \/ where \in {"kotlin", "kotlinDeps"} /\ ~retain
  \/ Ensuring({"context"})

\* An archive pass, from its decoding on.
Passing ==
  \/ where \in {"prefetch", "abiBefore", "javaBefore", "archiveTermination", "abiAfter",
                "archiveDeps", "resolve", "jobs", "jobDone", "finish", "finishJava",
                "abandon"}
  \/ job # Absent
  \/ Ensuring({"prefetch", "jobDone"})

InJob ==
  \/ where \in {"outer", "collect", "nested", "needs", "jobDone"}
  \/ Ensuring({"jobDone"})

ControlInv ==
  /\ ForOne => /\ request.class \in Classes
               /\ \E l \in Languages : request.languages = {l}
  /\ where \in EnsurePlaces =>
       after \in {"collect", "roots", "jobDone", "prefetch", "context", "selected"}
  /\ At("load") => request.kind \in {"class", "method", "outline"}
  /\ Collecting \/ Preparing => ForOne
  /\ Passing => retain
  /\ job # Absent => InJob
  /\ job # Absent \/ (\E c \in Classes : slots[c] = "open") => request.kind = "batch"

StateTypes == CodeTypeOK /\ RequestTypeOK
TypeInv == CachesTypeOK /\ StateTypes /\ ControlInv

\* What the steps below have to show of the next state; the types of the
\* caches follow from CachesStep.
Controlled == StateTypes' /\ ControlInv' /\ roots' \subseteq Classes

-----------------------------------------------------------------------------
(* Types of the parts.                                                     *)

LEMMA DecodedTypes ==
  ASSUME CodeTypeOK, NEW C, NEW r
  PROVE  WithDecoded(C, r) \in [Classes -> {Absent} \cup Bodies]
BY DEF CodeTypeOK, WithDecoded, Synced, NoCode, Code, Bodies

LEMMA CollectTypes ==
  ASSUME CodeTypeOK, NEW c \in Classes, NEW r \in Nat, CollectCode(c, r)
  PROVE  CodeTypeOK'
BY DecodedTypes DEF CodeTypeOK, CollectCode

LEMMA EndedTypes ==
  ASSUME NEW bodies \in [Classes -> {Absent} \cup Bodies]
  PROVE  /\ Ended(bodies) \in [Classes -> {Absent} \cup Bodies]
         /\ Resolved(bodies) \in [Classes -> {Absent} \cup Bodies]
<1>1. ASSUME NEW b \in Bodies
      PROVE  [b EXCEPT !.ended = TRUE] \in Bodies /\ [b EXCEPT !.resolved = TRUE] \in Bodies
  BY DEF Bodies
<1> QED BY <1>1 DEF Ended, Resolved

LEMMA JavaTypes ==
  ASSUME CodeTypeOK, ReaderInv, PrepareJava, UNCHANGED unit
  PROVE  CodeTypeOK' /\ roots' = roots
BY DecodedTypes
DEF PrepareJava, CodeTypeOK, ReaderInv, ReaderTypeOK, SameCode, SameCaches, codeVars, cacheVars

\* A request that has ended leaves nothing that could be wrong.
LEMMA FrameCleared ==
  ASSUME RequestTypeOK, ClearFrame, requests' \in Nat, aborted' \in BOOLEAN,
         first' \in [Languages \X Classes -> {Absent} \cup SUBSET Classes]
  PROVE  /\ RequestTypeOK' /\ ControlInv'
         /\ unit' \in [Classes -> {Absent} \cup Bodies]
<1>1. RequestTypeOK'
  BY DEF RequestTypeOK, ClearFrame, Goto, NoRequest, NoCode, Places, Kinds
<1>2. ControlInv'
  BY AbsentAssumption
  DEF ControlInv, ClearFrame, Goto, At, NoRequest, NoCode, ForOne, Collecting,
         Preparing, Passing, Ensuring, EnsurePlaces
<1> QED BY <1>1, <1>2 DEF ClearFrame, NoCode

LEMMA CallerTypes ==
  ASSUME ReaderInv, ReaderInv', TypeInv, Caller PROVE Controlled
<1> USE DEF TypeInv, Controlled, StateTypes
<1>1. ASSUME NEW kind, NEW c, NEW L \in SUBSET Languages, NEW isolated \in BOOLEAN,
             Begin(kind, c, L, isolated),
             \/ kind \in {"class", "method"} /\ c \in Classes /\ \E l \in Languages : L = {l}
             \/ kind = "outline" /\ c \in Classes
             \/ kind = "batch" /\ c \in SUBSET Classes
             \/ kind = "all" /\ c = Absent
      PROVE  Controlled
  <2>1. CodeTypeOK' /\ roots' \subseteq Classes
    BY <1>1 DEF Begin, SameCode, SameCaches, codeVars, cacheVars, CachesTypeOK, CodeTypeOK
  <2>3. request' \in [kind : Kinds, class : {Absent} \cup Classes \cup SUBSET Classes,
                      languages : SUBSET Languages, isolated : BOOLEAN,
                      cancelled : BOOLEAN]
    BY <1>1 DEF Begin, Kinds
  <2>4. todo' \subseteq Classes /\ seen' \subseteq Classes
    BY <1>1, ArchiveAssumption DEF Begin
  <2>5. slots' \in [Classes -> {Absent, "open", "ready", "failed"}]
    BY <1>1 DEF Begin, NoCode
  <2>6. RequestTypeOK'
    <3>1. requests' \in Nat
      BY <1>1 DEF Begin, Weight, RequestTypeOK
    <3>2. where' \in Places
      BY <1>1 DEF Begin, Goto, Places
    <3>3. UNCHANGED <<job, began, after, changed, first, aborted>>
      BY <1>1 DEF Begin, historyVars
    <3> QED BY <2>3, <2>4, <2>5, <3>1, <3>2, <3>3 DEF RequestTypeOK
  <2>2. job' = Absent
    BY <1>1 DEF Begin, ControlInv, InJob, Ensuring, EnsurePlaces, At
  <2>7. ControlInv'
    BY <1>1, <2>2, AbsentAssumption
    DEF Begin, Goto, At, ControlInv, Collecting, Preparing, Passing, Ensuring, EnsurePlaces,
        ForOne, NoCode
  <2> QED BY <2>1, <2>6, <2>7
<1>2. CASE BeginClass \/ BeginMethod \/ BeginOutline \/ BeginBatch \/ BeginAll
  <2>1. CASE BeginClass \/ BeginMethod
    <3>1. ASSUME NEW kind \in {"class", "method"}, NEW c \in Requested,
                 NEW l \in Languages, NEW isolated \in BOOLEAN,
                 Begin(kind, c, {l}, isolated)
          PROVE  Controlled
      <4>1. {l} \in SUBSET Languages /\ c \in Classes
        BY ContextAssumption
      <4> QED BY <1>1, <3>1, <4>1
    <3> QED BY <2>1, <3>1 DEF BeginClass, BeginMethod
  <2>2. CASE BeginOutline
    <3>1. {} \in SUBSET Languages /\ Located \subseteq Classes
      BY ArchiveAssumption
    <3> QED BY <1>1, <2>2, <3>1 DEF BeginOutline
  <2>3. CASE BeginBatch
    BY <1>1, <2>3, ContextAssumption DEF BeginBatch
  <2>4. CASE BeginAll
    <3>1. {} \in SUBSET Languages
      OBVIOUS
    <3> QED BY <1>1, <2>4, <3>1 DEF BeginAll
  <2> QED BY <1>2, <2>1, <2>2, <2>3, <2>4
<1>3. CASE ClearBetween
  BY <1>3
  DEF ClearBetween, ClearScope, ClearCode, DropCaches, ControlInv, CodeTypeOK,
      RequestTypeOK, ReaderInv, ReaderTypeOK, NoCode, frameVars, At, ForOne, Collecting,
      Preparing, Passing, InJob, Ensuring, EnsurePlaces
<1>4. CASE TakeReader
  BY <1>4
  DEF TakeReader, DropCaches, ControlInv, CodeTypeOK, RequestTypeOK, ReaderInv,
      ReaderTypeOK, NoCode, frameVars, At, ForOne, Collecting, Preparing, Passing, InJob,
      Ensuring, EnsurePlaces
<1> QED BY <1>2, <1>3, <1>4 DEF Caller

\* The class that is collected.
LEMMA TopIsClass ==
  ASSUME TypeInv, Collecting \/ job # Absent PROVE Top \in Classes
BY DEF TypeInv, StateTypes, RequestTypeOK, ControlInv, Top

LEMMA UnitTypes ==
  ASSUME ReaderInv, ReaderInv', TypeInv, UnitStep PROVE Controlled
<1> USE DEF TypeInv, Controlled, StateTypes, CodeTypeOK, RequestTypeOK, CachesTypeOK,
            ReaderInv, ReaderTypeOK
<1> USE DEF SameCode, SameCaches, codeVars, cacheVars, frameVars, historyVars, Stay,
            OnlyReader, Goto, At
<1> USE DEF ControlInv, ForOne, Collecting, Preparing, Passing, InJob, Ensuring,
            EnsurePlaces, Places
<1> HIDE DEF ReaderInv, ReaderTypeOK
<1>1. CASE Load
  <2>1. CASE request.kind = "outline"
    BY <1>1, <2>1, FrameCleared DEF Load
  <2>2. CASE request.kind # "outline"
    BY <1>1, <2>2 DEF Load
  <2> QED BY <2>1, <2>2
<1>2. CASE Scope
  <2>1. CodeTypeOK' /\ roots' \subseteq Classes /\ UNCHANGED retain
    BY <1>2 DEF Scope, ClearScope, ClearCode, DropCaches, NoCode, ReaderInv, ReaderTypeOK
  <2>2. aborted' \in BOOLEAN
    BY <1>2 DEF Scope, ClearScope
  <2> QED BY <1>2, <2>1, <2>2 DEF Scope
<1>3. CASE Outer
  BY <1>3 DEF Outer
<1>4. CASE Collect
  <2>1. Top \in Classes
    BY <1>4, TopIsClass DEF Collect
  <2>2. CodeTypeOK'
    BY <1>4, <2>1, CollectTypes DEF Collect, ReaderInv, ReaderTypeOK
  <2>3. todo' \subseteq Classes /\ seen' \subseteq Classes
    BY <1>4, <2>1, ArchiveAssumption DEF Collect, MembersOf
  <2>4. UNCHANGED retain
    BY <1>4 DEF Collect, CollectCode
  <2> QED BY <1>4, <2>2, <2>3, <2>4 DEF Collect
<1>5. CASE CollectNeeds
  <2>1. todo' \subseteq Classes
    BY <1>5, ArchiveAssumption, ContextAssumption DEF CollectNeeds, Collected
  <2> QED BY <1>5, <2>1 DEF CollectNeeds
<1>6. CASE NeedsLoaded
  BY <1>6 DEF NeedsLoaded
<1>7. CASE EnterTermination
  <2>1. todo' \subseteq Classes /\ roots' \subseteq Classes
    BY <1>7, ContextAssumption DEF EnterTermination, SetRoots, ContractRoots, Collected
  <2> QED BY <1>7, <2>1 DEF EnterTermination, SetRoots
<1>8. CASE Terminate
  BY <1>8, EndedTypes DEF Terminate
<1>9. ASSUME NEW n \in Classes, CollectNested(n) PROVE Controlled
  <2>1. CodeTypeOK'
    BY <1>9, CollectTypes DEF CollectNested, ReaderInv, ReaderTypeOK
  <2>2. todo' \subseteq Classes /\ seen' \subseteq Classes
    BY <1>9, ArchiveAssumption DEF CollectNested
  <2>3. UNCHANGED retain
    BY <1>9 DEF CollectNested, CollectCode
  <2> QED BY <1>9, <2>1, <2>2, <2>3 DEF CollectNested
<1>10. ASSUME NEW d \in Classes, LoadNeed(d) PROVE Controlled
  <2>1. todo' \subseteq Classes /\ seen' \subseteq Classes
    BY <1>10, ArchiveAssumption DEF LoadNeed
  <2> QED BY <1>10, <2>1 DEF LoadNeed
<1>11. ASSUME NEW t \in Classes, Callee(t) PROVE Controlled
  <2>1. todo' \subseteq Classes /\ seen' \subseteq Classes
    BY <1>11, ContextAssumption DEF Callee
  <2>2. CodeTypeOK'
    BY <1>11, DecodedTypes DEF Callee, ReaderInv, ReaderTypeOK
  <2> QED BY <1>11, <2>1, <2>2 DEF Callee
<1>12. CASE Prepare
  BY <1>12 DEF Prepare, ReaderInv, ReaderTypeOK
<1>13. CASE PrepareContext
  <2>1. CodeTypeOK' /\ roots' \subseteq Classes
    BY <1>13, JavaTypes DEF PrepareContext
  <2>2. UNCHANGED retain
    BY <1>13 DEF PrepareContext, PrepareJava
  <2> QED BY <1>13, <2>1, <2>2 DEF PrepareContext
<1>14. CASE Prepared
  BY <1>14 DEF Prepared
<1>15. CASE TakeHierarchy
  BY <1>15 DEF TakeHierarchy
<1>16. CASE Render
  <2>1. CodeTypeOK' /\ roots' \subseteq Classes
    BY <1>16 DEF Render, ClearScope, ClearCode, DropCaches, NoCode, ReaderInv, ReaderTypeOK,
                 ClearFrame
  <2>2. aborted' \in BOOLEAN /\ requests' \in Nat
    BY <1>16 DEF Render, ClearScope
  <2>3. first' \in [Languages \X Classes -> {Absent} \cup SUBSET Classes]
    <3>1. loaded \in SUBSET Classes
      BY ArchiveAssumption DEF ReaderInv, ReaderTypeOK
    <3> QED BY <1>16, <3>1 DEF Render
  <2> QED BY <1>16, <2>1, <2>2, <2>3, FrameCleared DEF Render
<1> QED
  BY <1>1, <1>2, <1>3, <1>4, <1>5, <1>6, <1>7, <1>8, <1>9, <1>10, <1>11, <1>12, <1>13,
     <1>14, <1>15, <1>16
  DEF UnitStep

LEMMA EnsureTypes ==
  ASSUME ReaderInv, ReaderInv', TypeInv, EnsureStep PROVE Controlled
<1> USE DEF TypeInv, Controlled, StateTypes, CodeTypeOK, RequestTypeOK, CachesTypeOK
<1> USE DEF SameCode, SameCaches, codeVars, cacheVars, frameVars, historyVars, Stay,
            OnlyReader, Goto, At
<1> USE DEF ControlInv, ForOne, Collecting, Preparing, Passing, InJob, Ensuring,
            EnsurePlaces, Places
<1>1. CASE Ensure
  BY <1>1 DEF Ensure
<1>2. CASE HierarchyClosed
  <2>1. Undeclared \subseteq Classes
    BY ArchiveAssumption DEF Undeclared, MembersOf, ReaderInv, ReaderTypeOK
  <2> QED BY <1>2, <2>1 DEF HierarchyClosed
<1>3. CASE MembersLoaded
  BY <1>3 DEF MembersLoaded
<1>4. CASE Analyse
  BY <1>4 DEF Analyse
<1>5. ASSUME NEW c \in Classes, LoadParent(c) PROVE Controlled
  BY <1>5 DEF LoadParent
<1>6. ASSUME NEW c \in Classes, LoadMember(c) PROVE Controlled
  BY <1>6 DEF LoadMember
<1> QED BY <1>1, <1>2, <1>3, <1>4, <1>5, <1>6 DEF EnsureStep

\* What an analysis of nullability asks for are classes.
LEMMA OwnersAreClasses ==
  ASSUME ReaderInv, roots \subseteq Classes
  PROVE  ContractOwners(loaded, roots) \subseteq Classes
<1>1. loaded \in SUBSET Classes /\ roots \in SUBSET Classes
  BY ArchiveAssumption DEF ReaderInv, ReaderTypeOK
<1> QED BY <1>1, ContractAssumption, Zenon

LEMMA KotlinTypes ==
  ASSUME ReaderInv, ReaderInv', TypeInv, KotlinStep PROVE Controlled
<1> USE DEF TypeInv, Controlled, StateTypes, CodeTypeOK, RequestTypeOK, CachesTypeOK
<1> USE DEF SameCode, SameCaches, codeVars, cacheVars, frameVars, historyVars, Stay,
            OnlyReader, Goto, At
<1> USE DEF ControlInv, ForOne, Collecting, Preparing, Passing, InJob, Ensuring,
            EnsurePlaces, Places
<1>1. CASE AnalyseKotlin
  <2>1. todo' \subseteq Classes
    BY <1>1, OwnersAreClasses DEF AnalyseKotlin
  <2> QED BY <1>1, <2>1 DEF AnalyseKotlin, KotlinGoal
<1>2. CASE DependenciesLoaded
  BY <1>2 DEF DependenciesLoaded, EndKotlinRound, KotlinGoal
<1>3. CASE ArchiveDependenciesLoaded
  BY <1>3 DEF ArchiveDependenciesLoaded, EndKotlinRound
<1>4. ASSUME NEW d \in Classes, LoadDependency(d) PROVE Controlled
  BY <1>4 DEF LoadDependency
<1> QED BY <1>1, <1>2, <1>3, <1>4 DEF KotlinStep

LEMMA ArchiveTypes ==
  ASSUME ReaderInv, ReaderInv', TypeInv, ArchiveStep PROVE Controlled
<1> USE DEF TypeInv, Controlled, StateTypes, CodeTypeOK, RequestTypeOK, CachesTypeOK
<1> USE DEF SameCode, SameCaches, codeVars, cacheVars, frameVars, historyVars, Stay,
            OnlyReader, Goto, At
<1> USE DEF ControlInv, ForOne, Collecting, Preparing, Passing, InJob, Ensuring,
            EnsurePlaces, Places
<1>1. CASE SelectNested
  <2>1. todo' \subseteq Classes /\ seen' \subseteq Classes
    BY <1>1, ArchiveAssumption DEF SelectNested
  <2>2. where' \in {"retain", "select"}
    BY <1>1 DEF SelectNested
  <2>3. /\ where = "select" /\ changed' = FALSE
        /\ UNCHANGED <<job, slots, unit, began, after, request, requests, first, aborted>>
        /\ UNCHANGED <<cfgs, cacheRevision, retain, roots>>
    BY <1>1 DEF SelectNested
  <2>4. CodeTypeOK' /\ roots' \subseteq Classes
    BY <2>3
  <2>5. RequestTypeOK'
    <3>1. where' \in Places /\ changed' \in BOOLEAN
      BY <2>2, <2>3
    <3> HIDE DEF Places
    <3> QED BY <2>1, <2>3, <3>1
  <2>6. ControlInv'
    BY <2>2, <2>3
  <2> QED BY <2>4, <2>5, <2>6
<1>2. CASE Retain
  BY <1>2 DEF Retain
<1>3. CASE Prefetch
  <2>1. cfgs' \in [Classes -> {Absent} \cup Bodies] /\ cacheRevision' \in Nat
    BY <1>3 DEF Prefetch, Code, Bodies, ReaderInv, ReaderTypeOK
  <2>2. /\ where = "prefetch" /\ where' = "abiBefore"
        /\ UNCHANGED <<retain, unit, roots>>
        /\ UNCHANGED <<job, slots, todo, seen, began, after, changed, request, requests,
                       first, aborted>>
    BY <1>3 DEF Prefetch
  <2> QED BY <2>1, <2>2
<1>4. CASE RootsBefore
  <2>1. roots' \subseteq Classes
    BY <1>4, ContextAssumption DEF RootsBefore, SetRoots, ContractRoots, Decoded
  <2> QED BY <1>4, <2>1 DEF RootsBefore
<1>5. CASE JavaBefore
  <2>1. CodeTypeOK' /\ roots' \subseteq Classes
    BY <1>5, JavaTypes DEF JavaBefore
  <2>2. UNCHANGED retain
    BY <1>5 DEF JavaBefore, PrepareJava
  <2> QED BY <1>5, <2>1, <2>2 DEF JavaBefore
<1>6. CASE ArchiveTermination
  BY <1>6, EndedTypes DEF ArchiveTermination
<1>7. CASE KotlinFromArchive
  <2>1. todo' \subseteq Classes
    BY <1>7, OwnersAreClasses DEF KotlinFromArchive
  <2> QED BY <1>7, <2>1 DEF KotlinFromArchive
<1>8. CASE ResolveArchive
  BY <1>8, EndedTypes DEF ResolveArchive
<1>9. CASE EndJob
  <2>1. CodeTypeOK' /\ roots' \subseteq Classes
    BY <1>9 DEF EndJob, NoCode
  <2>4. slots' \in [Classes -> {Absent, "open", "ready", "failed"}]
    BY <1>9 DEF EndJob
  <2>5. RequestTypeOK'
    BY <1>9, <2>4 DEF EndJob
  <2>2. \A c \in Classes : slots'[c] = "open" => slots[c] = "open"
    BY <1>9 DEF EndJob
  <2>3. ControlInv'
    BY <1>9, <2>2 DEF EndJob
  <2> QED BY <2>1, <2>3, <2>5
<1>10. CASE JobsDone
  BY <1>10 DEF JobsDone
<1>11. CASE FinishHierarchy
  BY <1>11 DEF FinishHierarchy
<1>12. CASE FinishJava
  <2>1. CodeTypeOK' /\ roots' \subseteq Classes
    BY <1>12, JavaTypes DEF FinishJava
  <2>2. UNCHANGED retain
    BY <1>12 DEF FinishJava, PrepareJava
  <2> QED BY <1>12, <2>1, <2>2 DEF FinishJava
<1>13. CASE Abandon
  <2>1. CodeTypeOK' /\ roots' \subseteq Classes
    BY <1>13 DEF Abandon, NoCode, ReaderInv, ReaderTypeOK, ClearFrame
  <2> QED BY <1>13, <2>1, FrameCleared DEF Abandon
<1>14. ASSUME NEW c \in Classes, SelectClass(c) PROVE Controlled
  BY <1>14 DEF SelectClass
<1>15. ASSUME NEW c \in Classes, StartJob(c) PROVE Controlled
  BY <1>15, AbsentAssumption DEF StartJob
<1> QED
  BY <1>1, <1>2, <1>3, <1>4, <1>5, <1>6, <1>7, <1>8, <1>9, <1>10, <1>11, <1>12, <1>13,
     <1>14, <1>15
  DEF ArchiveStep

LEMMA SelectAllTypes ==
  ASSUME ReaderInv, ReaderInv', TypeInv, SelectAllStep PROVE Controlled
<1> USE DEF TypeInv, Controlled, StateTypes, CodeTypeOK, RequestTypeOK, CachesTypeOK
<1> USE DEF SameCode, SameCaches, codeVars, cacheVars, frameVars, historyVars, Stay,
            OnlyReader, Goto, At
<1> USE DEF ControlInv, ForOne, Collecting, Preparing, Passing, InJob, Ensuring,
            EnsurePlaces, Places
<1>1. CASE NextDex
  BY <1>1, ArchiveAssumption DEF NextDex
<1>2. CASE AllDefined
  BY <1>2 DEF AllDefined
<1>3. CASE Selected
  BY <1>3, FrameCleared DEF Selected, ClearFrame
<1>4. ASSUME NEW c \in Classes, NEW larger \in BOOLEAN, Define(c, larger) PROVE Controlled
  BY <1>4 DEF Define
<1> QED BY <1>1, <1>2, <1>3, <1>4 DEF SelectAllStep

LEMMA FailureTypes ==
  ASSUME ReaderInv, ReaderInv', TypeInv, FailJob \/ FailRequest PROVE Controlled
<1> USE DEF TypeInv, Controlled, StateTypes, CodeTypeOK, RequestTypeOK, CachesTypeOK
<1> USE DEF SameCode, SameCaches, codeVars, cacheVars, frameVars, historyVars, Stay,
            OnlyReader, Goto, At
<1> USE DEF ControlInv, ForOne, Collecting, Preparing, Passing, InJob, Ensuring,
            EnsurePlaces, Places
<1>1. CASE FailJob
  <2>1. /\ request' \in [kind : Kinds, class : {Absent} \cup Classes \cup SUBSET Classes,
                         languages : SUBSET Languages, isolated : BOOLEAN,
                         cancelled : BOOLEAN]
        /\ request'.kind = request.kind /\ request'.class = request.class
        /\ request'.languages = request.languages
    BY <1>1 DEF FailJob
  <2>4. RequestTypeOK'
    BY <1>1, <2>1 DEF FailJob
  <2>5. \A c \in Classes : slots'[c] = "open" => slots[c] = "open"
    BY <1>1 DEF FailJob
  <2>2. CodeTypeOK' /\ roots' \subseteq Classes
    BY <1>1 DEF FailJob, NoCode
  <2>3. ControlInv'
    BY <1>1, <2>1, <2>5 DEF FailJob
  <2> QED BY <2>2, <2>3, <2>4
<1>2. CASE FailRequest
  <2>1. CodeTypeOK' /\ roots' \subseteq Classes
    BY <1>2
    DEF FailRequest, ClearScope, ClearCode, DropCaches, NoCode, ReaderInv, ReaderTypeOK,
        ClearFrame
  <2>2. aborted' \in BOOLEAN
    BY <1>2 DEF FailRequest, ClearScope
  <2> QED BY <1>2, <2>1, <2>2, FrameCleared DEF FailRequest
<1> QED BY <1>1, <1>2

\* The caches keep their types: they are only ever made of what is loaded.
LEMMA CachesTypes ==
  ASSUME ReaderInv, CachesTypeOK, CachesStep, roots' \subseteq Classes
  PROVE  CachesTypeOK'
<1>1. Made \in Caches
  BY ArchiveAssumption DEF Made, Caches, Analyses, ReaderInv, ReaderTypeOK
<1> QED BY <1>1 DEF CachesTypeOK, CachesStep, CacheStep, Caches

LEMMA TypesInit == Init => TypeInv
<1> SUFFICES ASSUME Init PROVE TypeInv
  OBVIOUS
<1>1. CachesTypeOK /\ CodeTypeOK
  BY DEF Init, CachesTypeOK, CodeTypeOK, Caches, NoCode
<1>2. RequestTypeOK
  BY DEF Init, RequestTypeOK, Places, NoRequest, NoCode, Kinds
<1>3. ControlInv
  BY AbsentAssumption
  DEF Init, ControlInv, At, NoRequest, NoCode, ForOne, Collecting, Preparing, Passing,
      Ensuring, EnsurePlaces
<1> QED BY <1>1, <1>2, <1>3 DEF TypeInv, StateTypes

LEMMA TypesNext == RevisionInv /\ TypeInv /\ [Next]_vars => TypeInv'
<1> SUFFICES ASSUME RevisionInv, TypeInv, [Next]_vars PROVE TypeInv'
  OBVIOUS
<1>1. ReaderInv
  BY DEF RevisionInv
<1>2. CASE Next
  <2>1. ReaderStep /\ CachesStep
    BY <1>1, <1>2, CallerSteps, UnitSteps, EnsureSteps, KotlinSteps, ArchiveSteps,
       SelectAllSteps, FailureSteps
    DEF Next, Continue
  <2>2. ReaderInv'
    BY <2>1 DEF ReaderStep
  <2>3. Controlled
    BY <1>1, <1>2, <2>2, CallerTypes, UnitTypes, EnsureTypes, KotlinTypes, ArchiveTypes,
       SelectAllTypes, FailureTypes
    DEF Next, Continue
  <2> QED BY <1>1, <2>1, <2>3, CachesTypes DEF TypeInv, Controlled
<1>3. CASE UNCHANGED vars
  BY <1>3
  DEF vars, cacheVars, codeVars, frameVars, historyVars, TypeInv, StateTypes, CachesTypeOK,
      CodeTypeOK, RequestTypeOK, ControlInv, At, ForOne, Collecting, Preparing, Passing,
      InJob, Ensuring
<1> QED BY <1>2, <1>3

(***************************************************************************)
(* The state of the reader and of the decompiler has its type, whatever    *)
(* the archive holds and whatever is asked of it.                          *)
(***************************************************************************)
THEOREM DecompilerTypes == Spec => []TypeOK
<1>1. RevisionInv /\ TypeInv => TypeOK
  BY DEF RevisionInv, ReaderInv, TypeInv, StateTypes, TypeOK
<1> QED
  BY <1>1, RevisionInit, RevisionNext, TypesInit, TypesNext, PTL DEF Spec

-----------------------------------------------------------------------------
(* What has been prepared at each place on the way to the generator.       *)

\* kotlin_source_abi for one class, not for a pass
KotlinLoop == where \in {"kotlin", "kotlinDeps"} /\ ~retain

PreparedInv ==
  /\ Preparing => roots = ContractRoots(Collected)
  /\ where \in {"context", "stable"} \/ KotlinLoop \/ Ensuring({"context"})
       => began <= revision
  /\ At("context") => analysis = "Ready"
  /\ At("stable") \/ KotlinLoop => (began = revision => analysis = "Ready")
  /\ where \in {"hierarchy", "render"} => analysis = "Ready"
  /\ KotlinLoop => "java" \notin request.languages
  /\ where \in {"stable", "hierarchy", "render"} =>
       /\ "java" \in request.languages => Current(javaAbi)
       /\ "kotlin" \in request.languages => Current(kotlinAbi)
  /\ At("kotlinDeps") => draft # Absent
  /\ At("render") => Current(hierarchy)

\* Nothing is said of the state away from those places.
LEMMA AwayIsPrepared ==
  ASSUME ~Preparing', where' # "kotlinDeps" PROVE PreparedInv'
BY DEF PreparedInv, Preparing, KotlinLoop, At, Ensuring

\* What is made of the classes loaded now is no Absent.
LEMMA MadeIsCurrent ==
  ASSUME ReaderInv PROVE Made # Absent /\ Made.revision = revision
<1>1. Made \in Analyses
  BY ArchiveAssumption DEF Made, Analyses, ReaderInv, ReaderTypeOK
<1> QED BY <1>1, AbsentAssumption DEF Made

LEMMA JavaIsPrepared ==
  ASSUME ReaderInv, PrepareJava, UNCHANGED readerVars
  PROVE  Current(javaAbi)' /\ roots' = roots
BY MadeIsCurrent
DEF PrepareJava, Current, SameCaches, cacheVars, readerVars, graphVars

\* Loading keeps the analysis of overrides or raises the revision.
LEMMA LoadOrRaise ==
  ASSUME NEW c, LoadClass(c)
  PROVE  \/ UNCHANGED <<revision, analysis>>
         \/ revision' = revision + 1
BY DEF LoadClass, MarkAndLink, readerVars, graphVars

LEMMA UnitPrepared ==
  ASSUME ReaderInv, TypeInv, PreparedInv, UnitStep PROVE PreparedInv'
<1> USE DEF Goto, At, OnlyReader, Stay, SameCode, SameCaches, codeVars, cacheVars, frameVars,
            Preparing, KotlinLoop, Ensuring, EnsurePlaces
<1>1. CASE Load \/ Scope \/ Outer \/ Collect \/ CollectNeeds \/ NeedsLoaded
  BY <1>1, AwayIsPrepared
  DEF Load, Scope, Outer, Collect, CollectNeeds, NeedsLoaded, ClearFrame
<1>2. CASE EnterTermination
  BY <1>2 DEF EnterTermination, SetRoots, PreparedInv, Collected, ContractRoots
<1>3. CASE Terminate
  <2>1. Collected' = Collected
    <3>1. ASSUME NEW b \in Bodies PROVE [b EXCEPT !.ended = TRUE] # Absent
      BY AbsentAssumption DEF Bodies
    <3> QED
      BY <1>3, <3>1 DEF Terminate, Ended, Collected, TypeInv, StateTypes, CodeTypeOK
  <2> QED BY <1>3, <2>1 DEF Terminate, PreparedInv, ContractRoots
<1>4. ASSUME NEW c \in Classes, CollectNested(c) \/ LoadNeed(c) PROVE PreparedInv'
  BY <1>4, AwayIsPrepared DEF CollectNested, LoadNeed
<1>5. ASSUME NEW t \in Classes, Callee(t) PROVE PreparedInv'
  BY <1>5 DEF Callee, PreparedInv, Collected, ContractRoots
<1>6. CASE Prepare
  BY <1>6
  DEF Prepare, PreparedInv, Collected, ContractRoots, readerVars, graphVars, ReaderInv,
      ReaderTypeOK
<1>7. CASE PrepareContext
  <2>1. PICK l \in Languages : request.languages = {l}
    BY <1>7 DEF PrepareContext, TypeInv, ControlInv
  <2>2. CASE "java" \in request.languages
    <3>1. l = "java" /\ Current(javaAbi)' /\ roots' = roots /\ where' = "stable"
      BY <1>7, <2>1, <2>2, JavaIsPrepared DEF PrepareContext
    <3> QED
      BY <1>7, <2>1, <3>1
      DEF PrepareContext, PreparedInv, Collected, ContractRoots, readerVars, graphVars
  <2>3. CASE "java" \notin request.languages
    BY <1>7, <2>3
    DEF PrepareContext, PreparedInv, Collected, ContractRoots, readerVars, graphVars
  <2> QED BY <2>2, <2>3
<1>8. CASE Prepared
  BY <1>8
  DEF Prepared, PreparedInv, Collected, ContractRoots, Current, readerVars, graphVars
<1>9. CASE TakeHierarchy
  BY <1>9, MadeIsCurrent
  DEF TakeHierarchy, WithHierarchy, PreparedInv, Collected, ContractRoots, Current,
      readerVars, graphVars
<1>10. CASE Render
  BY <1>10, AwayIsPrepared DEF Render, ClearFrame
<1> QED
  BY <1>1, <1>2, <1>3, <1>4, <1>5, <1>6, <1>7, <1>8, <1>9, <1>10 DEF UnitStep

LEMMA EnsurePrepared ==
  ASSUME ReaderInv, TypeInv, PreparedInv, EnsureStep PROVE PreparedInv'
<1> USE DEF Goto, At, OnlyReader, Stay, SameCode, SameCaches, codeVars, cacheVars,
            Preparing, KotlinLoop, Ensuring, EnsurePlaces, PreparedInv, Collected,
            ContractRoots
<1>1. where \in EnsurePlaces =>
        after \in {"collect", "roots", "jobDone", "prefetch", "context", "selected"}
  BY DEF TypeInv, ControlInv
<1>2. CASE Ensure
  BY <1>1, <1>2 DEF Ensure, readerVars, graphVars
<1>3. CASE HierarchyClosed
  BY <1>3 DEF HierarchyClosed, readerVars, graphVars
<1>4. CASE MembersLoaded
  BY <1>4 DEF MembersLoaded, readerVars, graphVars
<1>5. CASE Analyse
  BY <1>1, <1>5 DEF Analyse, AnalyseOverrides
<1>6. ASSUME NEW c \in Classes, LoadParent(c) \/ LoadMember(c) PROVE PreparedInv'
  BY <1>6, LoadOrRaise DEF LoadParent, LoadMember, TypeInv, StateTypes, RequestTypeOK,
     ReaderInv, ReaderTypeOK
<1> QED BY <1>2, <1>3, <1>4, <1>5, <1>6 DEF EnsureStep

LEMMA KotlinPrepared ==
  ASSUME ReaderInv, TypeInv, PreparedInv, KotlinStep PROVE PreparedInv'
<1> USE DEF Goto, At, OnlyReader, Stay, SameCode, codeVars,
            Preparing, KotlinLoop, Ensuring, EnsurePlaces, PreparedInv, Collected,
            ContractRoots
<1>1. CASE AnalyseKotlin
  BY <1>1, MadeIsCurrent
  DEF AnalyseKotlin, KotlinGoal, Current, SameCaches, cacheVars, readerVars, graphVars
<1>2. CASE DependenciesLoaded
  <2>1. draft # Absent /\ roots' = roots
    BY <1>2 DEF DependenciesLoaded, EndKotlinRound, SameCaches, cacheVars
  <2> QED
    BY <1>2, <2>1
    DEF DependenciesLoaded, EndKotlinRound, KotlinGoal, Current, readerVars, graphVars
<1>3. CASE ArchiveDependenciesLoaded
  <2>1. retain
    BY <1>3 DEF ArchiveDependenciesLoaded, TypeInv, ControlInv, Passing
  <2> QED
    BY <1>3, <2>1, AwayIsPrepared DEF ArchiveDependenciesLoaded, EndKotlinRound
<1>4. ASSUME NEW d \in Classes, LoadDependency(d) PROVE PreparedInv'
  BY <1>4, LoadOrRaise
  DEF LoadDependency, SameCaches, cacheVars, TypeInv, StateTypes, RequestTypeOK,
      ReaderInv, ReaderTypeOK
<1> QED BY <1>1, <1>2, <1>3, <1>4 DEF KotlinStep

\* No other step comes near.
LEMMA OthersAway ==
  ASSUME TypeInv, Caller \/ ArchiveStep \/ SelectAllStep \/ FailJob \/ FailRequest
  PROVE  ~Preparing' /\ where' # "kotlinDeps"
<1> USE DEF Goto, At, OnlyReader, Stay, SameCode, codeVars, frameVars, Preparing, Ensuring,
            EnsurePlaces
<1>1. CASE Caller
  BY <1>1
  DEF Caller, BeginClass, BeginMethod, BeginOutline, BeginBatch, BeginAll, Begin,
      ClearBetween, TakeReader
<1>2. CASE FinishJava
  <2>1. retain /\ UNCHANGED retain
    BY <1>2 DEF FinishJava, PrepareJava, TypeInv, ControlInv, Passing
  <2> QED BY <1>2, <2>1 DEF FinishJava
<1>3. CASE ArchiveStep /\ ~FinishJava
  BY <1>3
  DEF ArchiveStep, SelectNested, Retain, Prefetch, RootsBefore, JavaBefore,
      ArchiveTermination, KotlinFromArchive, ResolveArchive, EndJob, JobsDone,
      FinishHierarchy, Abandon, ClearFrame, SelectClass, StartJob
<1>4. CASE SelectAllStep
  BY <1>4 DEF SelectAllStep, NextDex, AllDefined, Selected, Define, ClearFrame
<1>5. CASE FailJob \/ FailRequest
  BY <1>5 DEF FailJob, FailRequest, ClearFrame
<1> QED BY <1>1, <1>2, <1>3, <1>4, <1>5

LEMMA PreparedNext ==
  RevisionInv /\ TypeInv /\ PreparedInv /\ [Next]_vars => PreparedInv'
<1> SUFFICES ASSUME RevisionInv, TypeInv, PreparedInv, [Next]_vars PROVE PreparedInv'
  OBVIOUS
<1>1. ReaderInv
  BY DEF RevisionInv
<1>2. CASE Next
  BY <1>1, <1>2, UnitPrepared, EnsurePrepared, KotlinPrepared, OthersAway, AwayIsPrepared
  DEF Next, Continue
<1>3. CASE UNCHANGED vars
  BY <1>3
  DEF vars, readerVars, graphVars, cacheVars, codeVars, frameVars, PreparedInv, Preparing,
      KotlinLoop, Ensuring, At, Collected, ContractRoots, Current
<1> QED BY <1>2, <1>3

(***************************************************************************)
(* When a request reaches the generator, overrides, hierarchy, the ABI of  *)
(* its language and the contract roots are those of the classes now loaded *)
(* and of its own code, however many classes were loaded meanwhile.        *)
(***************************************************************************)
THEOREM RenderSafety == Spec => []RenderIsPrepared
<1>1. Init => PreparedInv
  BY DEF Init, PreparedInv, Preparing, KotlinLoop, At, Ensuring, EnsurePlaces
<1>2. PreparedInv => RenderIsPrepared
  BY DEF PreparedInv, RenderIsPrepared, At, Preparing
<1> QED
  BY <1>1, <1>2, RevisionInit, RevisionNext, TypesInit, TypesNext, PreparedNext, PTL DEF Spec

-----------------------------------------------------------------------------
(* The code in the cache, and that of a unit.                              *)

\* A unit is rendered: its code has been through termination.
Finishing ==
  \/ where \in {"prepare", "context", "stable", "hierarchy", "render"}
  \/ KotlinLoop \/ Ensuring({"context"})

\* Nothing of a unit has been collected yet.
Fresh ==
  \/ where \in {"idle", "load", "scope", "outer", "collect", "jobs"}
  \/ Ensuring({"collect"})
  \/ request.kind = "batch" /\ job = Absent

\* As decode_method makes it.
AllWhole(bodies) == \A c \in Classes : bodies[c] # Absent => bodies[c] = Code(TRUE, FALSE)

\* No archive pass is on.
Unpassed ==
  \/ where \in {"idle", "definitions", "redefinitions", "selected"}
  \/ Ensuring({"selected"})

\* The classes of an archive pass are gathered.
Selecting == where \in {"select", "retain"}

CodeInv ==
  /\ retain => request.kind = "batch" /\ ~Unpassed
  /\ ~retain /\ ~aborted => AllWhole(cfgs)
  /\ Fresh => unit = NoCode
  /\ Selecting => request.kind = "batch"
  /\ ForOne => \A c \in Collected : unit[c].resolved \/ aborted
  /\ Finishing => \A c \in Collected : unit[c].ended

LEMMA BodyIsCode ==
  \A r, e \in BOOLEAN : Code(r, e) \in Bodies /\ Code(r, e) # Absent
<1>1. \A r, e \in BOOLEAN : Code(r, e) \in Bodies
  BY DEF Code, Bodies
<1> QED BY <1>1, AbsentAssumption

LEMMA DecodedWhole ==
  ASSUME AllWhole(cfgs), NEW C, NEW r PROVE AllWhole(WithDecoded(C, r))
BY DEF AllWhole, WithDecoded, Synced, NoCode

\* What a unit takes from the cache.
LEMMA CollectedCode ==
  ASSUME CodeTypeOK, NEW c \in Classes, NEW r, CollectCode(c, r)
  PROVE  /\ \A d \in Classes \ {c} : unit'[d] = unit[d]
         /\ unit'[c] = WithDecoded({c}, r)[c] /\ unit'[c] # Absent
         /\ \A d \in Classes : cfgs'[d] \in {Absent, WithDecoded({c}, r)[d]}
<1>1. WithDecoded({c}, r)[c] # Absent
  <2>1. Code(TRUE, FALSE) # Absent
    BY BodyIsCode
  <2> QED BY <2>1 DEF WithDecoded
<1>2. WithDecoded({c}, r) \in [Classes -> {Absent} \cup Bodies]
  BY DecodedTypes
<1> QED BY <1>1, <1>2 DEF CollectCode, CodeTypeOK

\* The steps that leave the code of the unit alone, and what the cache holds
\* outside of an archive pass.
LEMMA CacheCode ==
  ASSUME CodeInv, UNCHANGED <<retain, unit, aborted>>, request'.kind = request.kind,
         ~retain /\ ~aborted => AllWhole(cfgs'),
         Fresh' => Fresh, Finishing' => Finishing,
         Unpassed' => Unpassed, Selecting' => Selecting
  PROVE  CodeInv'
BY DEF CodeInv, ForOne, Collected

LEMMA CodeStays ==
  ASSUME CodeInv, UNCHANGED <<cfgs, retain, unit, aborted>>,
         request'.kind = request.kind, Fresh' => Fresh, Finishing' => Finishing,
         Unpassed' => Unpassed, Selecting' => Selecting
  PROVE  CodeInv'
BY CacheCode DEF CodeInv, AllWhole

\* The request is over, and the cache holds what it may.
LEMMA CodeCleared ==
  ASSUME ClearFrame, ~retain', ~aborted' => AllWhole(cfgs') PROVE CodeInv'
<1>1. \A c \in Classes : NoCode[c] = Absent
  BY DEF NoCode
<1> QED
  BY <1>1
  DEF CodeInv, ClearFrame, Goto, NoRequest, ForOne, Collected, Fresh, Finishing, KotlinLoop,
      Ensuring, EnsurePlaces, Unpassed, Selecting

LEMMA CallerCode == ASSUME TypeInv, CodeInv, Caller PROVE CodeInv'
<1> USE DEF Goto, At, SameCode, codeVars, frameVars, historyVars
<1>1. \A c \in Classes : NoCode[c] = Absent
  BY DEF NoCode
<1>2. ASSUME NEW kind, NEW c, NEW L, NEW isolated, Begin(kind, c, L, isolated) PROVE CodeInv'
  <2>1. At("idle") /\ unit' = unit /\ cfgs' = cfgs /\ retain' = retain /\ aborted' = aborted
    BY <1>2 DEF Begin
  <2>2. unit = NoCode /\ Collected' = {}
    BY <1>1, <2>1 DEF CodeInv, Fresh, Collected
  <2>3. ~retain
    BY <2>1 DEF CodeInv, Unpassed
  <2>4. where' = "select" => kind = "batch" /\ request'.kind = "batch"
    BY <1>2 DEF Begin
  <2>5. ~Finishing' /\ where' # "retain"
    BY <1>2 DEF Begin, Finishing, KotlinLoop, Ensuring, EnsurePlaces
  <2> QED BY <2>1, <2>2, <2>3, <2>4, <2>5 DEF CodeInv, Selecting
<1>3. CASE ClearBetween \/ TakeReader
  <2>1. /\ cfgs' = NoCode /\ UNCHANGED <<retain, unit, where, after, request>>
    BY <1>3 DEF ClearBetween, ClearScope, ClearCode, TakeReader
  <2>2. unit = NoCode /\ Collected' = {}
    BY <1>1, <1>3, <2>1 DEF CodeInv, Fresh, Collected, ClearBetween, TakeReader
  <2>3. ~retain
    BY <1>3 DEF CodeInv, Unpassed, ClearBetween, TakeReader
  <2>4. AllWhole(cfgs')
    BY <1>1, <2>1 DEF AllWhole
  <2>5. At("idle")
    BY <1>3 DEF ClearBetween, TakeReader
  <2> QED
    BY <2>1, <2>2, <2>3, <2>4, <2>5
    DEF CodeInv, Selecting, Finishing, KotlinLoop, Ensuring, EnsurePlaces
<1> QED
  BY <1>2, <1>3
  DEF Caller, BeginClass, BeginMethod, BeginOutline, BeginBatch, BeginAll

LEMMA UnitCode == ASSUME ReaderInv, TypeInv, CodeInv, UnitStep PROVE CodeInv'
<1> USE DEF Goto, At, OnlyReader, Stay, SameCode, codeVars, frameVars, historyVars,
            Fresh, Finishing, KotlinLoop, Unpassed, Selecting, Ensuring, EnsurePlaces
<1>0. /\ CodeTypeOK /\ \A c \in Classes : NoCode[c] = Absent
      /\ Collecting \/ Preparing => ForOne
      /\ ForOne => request.kind # "batch"
  BY DEF TypeInv, StateTypes, NoCode, ControlInv, ForOne
<1>1. CASE Load
  <2>1. ~retain
    BY <1>0, <1>1 DEF Load, CodeInv, TypeInv, ControlInv
  <2>2. CASE request.kind = "outline"
    BY <1>1, <2>1, <2>2, CodeCleared DEF Load, CodeInv
  <2>3. CASE request.kind # "outline"
    BY <1>1, <2>3, CodeStays DEF Load
  <2> QED BY <2>2, <2>3
<1>2. CASE Scope
  <2>1. unit = NoCode /\ unit' = unit /\ Collected' = {} /\ retain' = retain
    BY <1>0, <1>2 DEF Scope, CodeInv, ClearScope, ClearCode, Collected
  <2>2. ~retain' /\ ~aborted' => AllWhole(cfgs')
    BY <1>0, <1>2 DEF Scope, CodeInv, ClearScope, ClearCode, AllWhole
  <2> QED BY <1>2, <2>1, <2>2 DEF Scope, CodeInv
<1>3. CASE Outer \/ CollectNeeds \/ NeedsLoaded \/ EnterTermination \/ Prepare
           \/ Prepared \/ TakeHierarchy
  BY <1>3, CodeStays
  DEF Outer, CollectNeeds, NeedsLoaded, EnterTermination, Prepare, Prepared, TakeHierarchy
<1>4. ASSUME NEW c \in Classes, NEW r, CollectCode(c, r), UNCHANGED <<aborted, request>>,
             ~Fresh', ~Finishing', ~Unpassed', ~Selecting'
      PROVE  CodeInv'
  <2> DEFINE code == WithDecoded({c}, r)
  <2>0. /\ \A d \in Classes \ {c} : unit'[d] = unit[d]
        /\ unit'[c] = code[c] /\ unit'[c] # Absent
        /\ \A d \in Classes : cfgs'[d] \in {Absent, code[d]}
    BY <1>0, <1>4, CollectedCode
  <2>1. UNCHANGED retain
    BY <1>4 DEF CollectCode
  <2>2. ~retain /\ ~aborted => AllWhole(code)
    BY DecodedWhole DEF CodeInv
  <2> HIDE DEF code
  <2>3. ~retain /\ ~aborted => AllWhole(cfgs')
    BY <2>0, <2>2 DEF AllWhole
  <2>4. ForOne => \A d \in Collected' : unit'[d].resolved \/ aborted
    <3> SUFFICES ASSUME ForOne, NEW d \in Collected', ~aborted PROVE unit'[d].resolved
      OBVIOUS
    <3>1. ~retain
      BY DEF CodeInv, ForOne
    <3>2. CASE d = c
      BY <2>0, <2>2, <3>1, <3>2 DEF AllWhole, Code
    <3>3. CASE d # c
      BY <2>0, <3>3 DEF CodeInv, Collected
    <3> QED BY <3>2, <3>3
  <2> QED BY <1>4, <2>1, <2>3, <2>4 DEF CodeInv, ForOne
<1>5. CASE Collect
  <2>1. Top \in Classes
    BY <1>5, TopIsClass DEF Collect, Collecting
  <2>2. job = Absent => request.kind # "batch"
    BY <1>0, <1>5 DEF Collect, Collecting
  <2>3. CollectCode(Top, revision) /\ where' = "nested" /\ UNCHANGED <<aborted, request, job>>
    BY <1>5 DEF Collect
  <2> HIDE DEF Stay, Top
  <2> QED BY <1>4, <2>1, <2>2, <2>3
<1>6. ASSUME NEW n \in Classes, CollectNested(n) PROVE CodeInv'
  <2>1. job = Absent => request.kind # "batch"
    BY <1>0, <1>6 DEF CollectNested, Collecting
  <2>2. CollectCode(n, revision') /\ where' = "nested" /\ UNCHANGED <<aborted, request, job>>
    BY <1>6 DEF CollectNested
  <2> QED BY <1>4, <2>1, <2>2
<1>7. ASSUME NEW d \in Classes, LoadNeed(d) PROVE CodeInv'
  BY <1>7, CodeStays DEF LoadNeed
<1>8. ASSUME NEW t \in Classes, Callee(t) PROVE CodeInv'
  <2>1. UNCHANGED <<unit, aborted, retain, where, after, request>>
    BY <1>8 DEF Callee
  <2>2. ~retain /\ ~aborted => AllWhole(cfgs')
    BY <1>8, DecodedWhole DEF CodeInv, Callee
  <2> QED BY <1>8, <2>1, <2>2 DEF CodeInv, ForOne, Collected, Callee
<1>9. CASE Terminate
  <2>1. ASSUME NEW c \in Classes, unit'[c] # Absent
        PROVE  unit[c] # Absent /\ unit'[c].ended /\ unit'[c].resolved = unit[c].resolved
    <3>1. unit[c] # Absent /\ unit'[c] = [unit[c] EXCEPT !.ended = TRUE]
      BY <1>9, <2>1 DEF Terminate, Ended
    <3>2. unit[c] \in Bodies
      BY <1>0, <3>1 DEF CodeTypeOK
    <3> QED BY <3>1, <3>2 DEF Bodies
  <2>2. UNCHANGED <<cfgs, retain, aborted, request>> /\ where' = "prepare"
    BY <1>9 DEF Terminate
  <2>3. request.kind # "batch"
    BY <1>0, <1>9 DEF Terminate, Preparing
  <2> QED BY <2>1, <2>2, <2>3 DEF CodeInv, ForOne, Collected
<1>10. CASE PrepareContext
  <2>1. UNCHANGED <<unit, aborted, retain, request>> /\ where = "context"
    BY <1>10 DEF PrepareContext, PrepareJava
  <2>2. ~retain /\ ~aborted => AllWhole(cfgs')
    BY <1>10, DecodedWhole DEF CodeInv, PrepareContext, PrepareJava
  <2>3. ~Fresh' /\ ~Unpassed' /\ ~Selecting'
    BY <1>0, <1>10 DEF PrepareContext, Preparing
  <2>4. Finishing' => Finishing
    BY <1>10 DEF PrepareContext
  <2> QED BY <2>1, <2>2, <2>3, <2>4, CacheCode
<1>11. CASE Render
  <2>1. ~retain /\ UNCHANGED retain
    BY <1>0, <1>11
    DEF Render, Preparing, ForOne, CodeInv, ClearScope, ClearCode
  <2>2. ~aborted' => AllWhole(cfgs')
    <3>1. CASE cfgs' = NoCode
      BY <1>0, <3>1 DEF AllWhole
    <3>2. CASE UNCHANGED <<cfgs, aborted>>
      BY <2>1, <3>2 DEF CodeInv
    <3> QED BY <1>11, <3>1, <3>2 DEF Render, ClearScope, ClearCode
  <2> QED BY <1>11, <2>1, <2>2, CodeCleared DEF Render
<1> QED
  BY <1>1, <1>2, <1>3, <1>5, <1>6, <1>7, <1>8, <1>9, <1>10, <1>11 DEF UnitStep

LEMMA EnsureCode == ASSUME TypeInv, CodeInv, EnsureStep PROVE CodeInv'
<1> USE DEF Goto, At, OnlyReader, Stay, SameCode, codeVars, historyVars,
            Fresh, Finishing, KotlinLoop, Unpassed, Selecting, Ensuring, EnsurePlaces
<1>1. where \in EnsurePlaces =>
        after \in {"collect", "roots", "jobDone", "prefetch", "context", "selected"}
  BY DEF TypeInv, ControlInv
<1>2. CASE Ensure
  BY <1>1, <1>2, CodeStays DEF Ensure
<1>3. CASE HierarchyClosed \/ MembersLoaded
  BY <1>3, CodeStays DEF HierarchyClosed, MembersLoaded
<1>4. CASE Analyse
  BY <1>1, <1>4, CodeStays DEF Analyse
<1>5. ASSUME NEW c \in Classes, LoadParent(c) \/ LoadMember(c) PROVE CodeInv'
  BY <1>5, CodeStays DEF LoadParent, LoadMember
<1> QED BY <1>2, <1>3, <1>4, <1>5 DEF EnsureStep

LEMMA KotlinCode == ASSUME TypeInv, CodeInv, KotlinStep PROVE CodeInv'
<1> USE DEF Goto, At, OnlyReader, Stay, SameCode, codeVars, historyVars,
            Fresh, Finishing, KotlinLoop, Unpassed, Selecting, Ensuring, EnsurePlaces
<1>1. CASE AnalyseKotlin
  BY <1>1, CodeStays DEF AnalyseKotlin, KotlinGoal
<1>2. CASE DependenciesLoaded
  BY <1>2, CodeStays DEF DependenciesLoaded, EndKotlinRound, KotlinGoal
<1>3. CASE ArchiveDependenciesLoaded
  <2>1. retain
    BY <1>3 DEF ArchiveDependenciesLoaded, TypeInv, ControlInv, Passing
  <2> QED BY <1>3, <2>1, CodeStays DEF ArchiveDependenciesLoaded, EndKotlinRound
<1>4. ASSUME NEW d \in Classes, LoadDependency(d) PROVE CodeInv'
  BY <1>4, CodeStays DEF LoadDependency
<1> QED BY <1>1, <1>2, <1>3, <1>4 DEF KotlinStep

\* In an archive pass the cache may hold any code.
LEMMA PassCode ==
  ASSUME CodeInv, request.kind = "batch", UNCHANGED <<unit, request, aborted>>, retain',
         Fresh' => Fresh, ~Finishing', ~Unpassed', ~Selecting'
  PROVE  CodeInv'
BY DEF CodeInv, ForOne

LEMMA ArchiveCode == ASSUME TypeInv, CodeInv, ArchiveStep PROVE CodeInv'
<1> USE DEF Goto, At, OnlyReader, Stay, SameCode, codeVars, frameVars, historyVars,
            Fresh, Finishing, KotlinLoop, Unpassed, Selecting, Ensuring, EnsurePlaces
<1>0. Passing => retain /\ request.kind = "batch"
  BY DEF TypeInv, ControlInv, CodeInv
<1>1. CASE SelectNested
  BY <1>1, CodeStays DEF SelectNested
<1>2. CASE Retain
  <2>1. request.kind = "batch" /\ where' = "ensure" /\ after' = "prefetch" /\ retain'
    BY <1>2 DEF Retain, CodeInv
  <2> QED BY <1>2, <2>1, PassCode DEF Retain
<1>3. CASE Prefetch \/ JavaBefore \/ ArchiveTermination \/ ResolveArchive
  <2>1. Passing
    BY <1>3 DEF Prefetch, JavaBefore, ArchiveTermination, ResolveArchive, Passing
  <2>2. UNCHANGED <<unit, request, aborted, retain>>
    BY <1>3 DEF Prefetch, JavaBefore, PrepareJava, ArchiveTermination, ResolveArchive
  <2>3. job = Absent
    BY <1>3 DEF Prefetch, JavaBefore, ArchiveTermination, ResolveArchive, TypeInv, ControlInv,
                InJob
  <2> QED
    BY <1>3, <1>0, <2>1, <2>2, <2>3, PassCode
    DEF Prefetch, JavaBefore, ArchiveTermination, ResolveArchive
<1>4. CASE RootsBefore \/ KotlinFromArchive \/ JobsDone \/ FinishHierarchy
  BY <1>4, CodeStays DEF RootsBefore, KotlinFromArchive, JobsDone, FinishHierarchy
<1>6. CASE EndJob
  <2>1. ~ForOne /\ Collected' = {} /\ unit' = NoCode
    BY <1>0, <1>6 DEF EndJob, Passing, ForOne, Collected, NoCode
  <2> QED BY <1>6, <2>1 DEF EndJob, CodeInv, ForOne
<1>7. CASE FinishJava
  <2>1. UNCHANGED <<unit, request, aborted, retain>> /\ retain /\ request.kind = "batch"
    BY <1>0, <1>7 DEF FinishJava, PrepareJava, Passing
  <2> QED BY <1>7, <2>1, PassCode DEF FinishJava
<1>8. CASE Abandon
  <2>1. AllWhole(cfgs')
    BY <1>8 DEF Abandon, AllWhole, NoCode
  <2> QED BY <1>8, <2>1, CodeCleared DEF Abandon
<1>9. ASSUME NEW b \in Classes, SelectClass(b) \/ StartJob(b) PROVE CodeInv'
  BY <1>9, CodeStays DEF SelectClass, StartJob
<1> QED BY <1>1, <1>2, <1>3, <1>4, <1>6, <1>7, <1>8, <1>9 DEF ArchiveStep

LEMMA SelectAllCode == ASSUME TypeInv, CodeInv, SelectAllStep PROVE CodeInv'
<1> USE DEF Goto, At, OnlyReader, Stay, SameCode, codeVars, historyVars,
            Fresh, Finishing, KotlinLoop, Unpassed, Selecting, Ensuring, EnsurePlaces
<1>1. CASE NextDex \/ AllDefined
  BY <1>1, CodeStays DEF NextDex, AllDefined
<1>2. CASE Selected
  BY <1>2, CodeCleared DEF Selected, CodeInv
<1>3. ASSUME NEW c \in Classes, NEW larger \in BOOLEAN, Define(c, larger) PROVE CodeInv'
  BY <1>3, CodeStays DEF Define
<1> QED BY <1>1, <1>2, <1>3 DEF SelectAllStep

LEMMA FailureCode == ASSUME TypeInv, CodeInv, FailJob \/ FailRequest PROVE CodeInv'
<1> USE DEF SameCode, codeVars, historyVars
<1>0. \A c \in Classes : NoCode[c] = Absent
  BY DEF NoCode
<1>1. CASE FailJob
  <2>1. /\ ~ForOne /\ Collected' = {} /\ unit' = NoCode /\ where' = "jobs"
        /\ UNCHANGED <<cfgs, retain, aborted>> /\ request'.kind = request.kind
    BY <1>0, <1>1
    DEF FailJob, ForOne, Collected, TypeInv, StateTypes, RequestTypeOK, ControlInv, Goto
  <2> QED
    BY <2>1
    DEF CodeInv, ForOne, Fresh, Finishing, KotlinLoop, Unpassed, Selecting, Ensuring, EnsurePlaces
<1>2. CASE FailRequest
  <2>1. ~retain'
    BY <1>2 DEF FailRequest, CodeInv, ClearScope, ClearCode
  <2>2. ~aborted' => AllWhole(cfgs')
    <3>1. CASE cfgs' = NoCode
      BY <1>0, <3>1 DEF AllWhole
    <3>2. CASE cfgs' = cfgs /\ aborted' = (aborted \/ retain \/ unmarked # {})
      BY <3>2 DEF CodeInv
    <3> QED BY <1>2, <3>1, <3>2 DEF FailRequest, ClearScope, ClearCode
  <2> QED BY <1>2, <2>1, <2>2, CodeCleared DEF FailRequest
<1> QED BY <1>1, <1>2

LEMMA CodeNext == RevisionInv /\ TypeInv /\ CodeInv /\ [Next]_vars => CodeInv'
<1> SUFFICES ASSUME RevisionInv, TypeInv, CodeInv, [Next]_vars PROVE CodeInv'
  OBVIOUS
<1>1. CASE Next
  BY <1>1, CallerCode, UnitCode, EnsureCode, KotlinCode, ArchiveCode, SelectAllCode, FailureCode
  DEF Next, Continue, RevisionInv
<1>2. CASE UNCHANGED vars
  BY <1>2, CodeStays
  DEF vars, codeVars, frameVars, historyVars, Fresh, Finishing, KotlinLoop, Unpassed, Selecting,
      Ensuring
<1> QED BY <1>1, <1>2

LEMMA CodeInit == Init => CodeInv
BY DEF Init, CodeInv, AllWhole, NoCode, NoRequest, ForOne, Collected, Finishing, KotlinLoop,
       Selecting, Unpassed, Ensuring, EnsurePlaces

(***************************************************************************)
(* decode_method leaves whole, resolved code in the cache and a unit       *)
(* renders copies that have been through termination, for any archive and  *)
(* any requests, until an archive pass fails.                              *)
(***************************************************************************)
THEOREM CodeSafety == Spec => []CodeIsWhole
<1>1. CodeInv /\ TypeInv => CodeIsWhole
  BY DEF CodeInv, CodeIsWhole, AllWhole, Decoded, Finishing, At, ForOne, TypeInv, ControlInv,
         Preparing
<1> QED
  BY <1>1, CodeInit, CodeNext, RevisionInit, RevisionNext, TypesInit, TypesNext, PTL DEF Spec

-----------------------------------------------------------------------------
(* Classes a failed batch or selection has left behind.                    *)

\* Classes are inserted, and the revision is raised at the end.
Inserting == where \in {"select", "definitions", "redefinitions"}

MarkedInv == ~aborted => IF Inserting THEN unmarked # {} => changed ELSE unmarked = {}

LEMMA ClearMarks == ASSUME ReaderInv, ClearLoaded PROVE unmarked' = {}
BY DEF ClearLoaded, MarkAndLink, ReaderInv, ReaderTypeOK, readerVars, graphVars

LEMMA LoadGrows ==
  ASSUME NEW c, LoadClass(c)
  PROVE  /\ unmarked' \in {unmarked, {}} /\ loaded \subseteq loaded'
         /\ Answer(c) = "some" => c \in loaded \cup Located
BY DEF LoadClass, MarkAndLink, readerVars, graphVars, Answer

LEMMA MarkedStays ==
  ASSUME MarkedInv, UNCHANGED aborted, unmarked' \in {unmarked, {}}, ~Inserting, ~Inserting'
  PROVE  MarkedInv'
BY DEF MarkedInv

LEMMA MarkedNext == ReaderInv /\ TypeInv /\ MarkedInv /\ [Next]_vars => MarkedInv'
<1> SUFFICES ASSUME ReaderInv, TypeInv, MarkedInv, [Next]_vars PROVE MarkedInv'
  OBVIOUS
<1> USE DEF At, Goto, Stay, OnlyReader, historyVars, frameVars, readerVars, graphVars
<1>0. where \in EnsurePlaces =>
        after \in {"collect", "roots", "jobDone", "prefetch", "context", "selected"}
  BY DEF TypeInv, ControlInv
<1>1. CASE Caller
  <2>1. ASSUME NEW kind, NEW c, NEW L, NEW isolated, Begin(kind, c, L, isolated)
        PROVE  MarkedInv'
    BY <2>1 DEF Begin, MarkedInv, Inserting
  <2>2. CASE ClearBetween
    BY <2>2, ClearMarks DEF ClearBetween, ClearScope, MarkedInv
  <2>3. CASE TakeReader
    BY <2>3 DEF TakeReader, MarkedInv
  <2> QED
    BY <1>1, <2>1, <2>2, <2>3
    DEF Caller, BeginClass, BeginMethod, BeginOutline, BeginBatch, BeginAll
<1>2. CASE UnitStep
  <2>1. CASE Load
    BY <2>1, LoadGrows, MarkedStays DEF Load, ClearFrame, Inserting
  <2>2. CASE Scope \/ Render
    BY <2>2, ClearMarks, MarkedStays DEF Scope, Render, ClearScope, ClearFrame, Inserting, MarkedInv
  <2>3. CASE Outer
    BY <2>3, LoadGrows, MarkedStays DEF Outer, Inserting
  <2>4. CASE Collect \/ CollectNeeds \/ NeedsLoaded \/ EnterTermination \/ Terminate
    BY <2>4, MarkedStays
    DEF Collect, CollectNeeds, NeedsLoaded, EnterTermination, Terminate, Inserting
  <2>5. CASE Prepare \/ PrepareContext \/ Prepared \/ TakeHierarchy
    BY <2>5, MarkedStays DEF Prepare, PrepareContext, Prepared, TakeHierarchy, Inserting
  <2>6. ASSUME NEW c \in Classes, CollectNested(c) \/ LoadNeed(c) \/ Callee(c)
        PROVE  MarkedInv'
    BY <2>6, LoadGrows, MarkedStays DEF CollectNested, LoadNeed, Callee, Inserting
  <2> QED BY <1>2, <2>1, <2>2, <2>3, <2>4, <2>5, <2>6 DEF UnitStep
<1>3. CASE EnsureStep
  <2>1. CASE Ensure \/ HierarchyClosed \/ MembersLoaded
    BY <1>0, <2>1, MarkedStays DEF Ensure, HierarchyClosed, MembersLoaded, Inserting, EnsurePlaces
  <2>2. CASE Analyse
    BY <1>0, <2>2, MarkedStays DEF Analyse, AnalyseOverrides, Inserting, EnsurePlaces
  <2>3. ASSUME NEW c \in Classes, LoadParent(c) \/ LoadMember(c) PROVE MarkedInv'
    BY <2>3, LoadGrows, MarkedStays DEF LoadParent, LoadMember, Inserting
  <2> QED BY <1>3, <2>1, <2>2, <2>3 DEF EnsureStep
<1>4. CASE KotlinStep
  <2>1. CASE AnalyseKotlin \/ DependenciesLoaded \/ ArchiveDependenciesLoaded
    BY <2>1, MarkedStays
    DEF AnalyseKotlin, DependenciesLoaded, ArchiveDependenciesLoaded, EndKotlinRound,
        KotlinGoal, Inserting
  <2>2. ASSUME NEW c \in Classes, LoadDependency(c) PROVE MarkedInv'
    BY <2>2, LoadGrows, MarkedStays DEF LoadDependency, Inserting
  <2> QED BY <1>4, <2>1, <2>2 DEF KotlinStep
<1>5. CASE ArchiveStep
  <2>1. CASE SelectNested
    BY <2>1 DEF SelectNested, EndInserting, MarkAndLink, MarkedInv, Inserting
  <2>2. CASE Abandon
    BY <2>2, ClearMarks DEF Abandon, MarkedInv
  <2>3. CASE Retain \/ Prefetch \/ RootsBefore \/ JavaBefore \/ ArchiveTermination
             \/ KotlinFromArchive \/ ResolveArchive
    BY <2>3, MarkedStays
    DEF Retain, Prefetch, RootsBefore, JavaBefore, ArchiveTermination, KotlinFromArchive,
        ResolveArchive, Inserting
  <2>4. CASE EndJob \/ JobsDone \/ FinishHierarchy \/ FinishJava
    BY <2>4, MarkedStays DEF EndJob, JobsDone, FinishHierarchy, FinishJava, Inserting
  <2>5. ASSUME NEW c \in Classes, StartJob(c) PROVE MarkedInv'
    BY <2>5, MarkedStays DEF StartJob, Inserting
  <2>6. ASSUME NEW c \in Classes, SelectClass(c) PROVE MarkedInv'
    BY <2>6 DEF SelectClass, InsertClass, MarkedInv, Inserting
  <2> QED BY <1>5, <2>1, <2>2, <2>3, <2>4, <2>5, <2>6 DEF ArchiveStep
<1>6. CASE SelectAllStep
  <2>1. CASE NextDex
    BY <2>1 DEF NextDex, MarkedInv, Inserting
  <2>2. CASE AllDefined
    BY <2>2 DEF AllDefined, EndInserting, MarkAndLink, MarkedInv, Inserting
  <2>3. CASE Selected
    BY <2>3, MarkedStays DEF Selected, ClearFrame, Inserting
  <2>4. ASSUME NEW c \in Classes, NEW larger \in BOOLEAN, Define(c, larger) PROVE MarkedInv'
    BY <2>4 DEF Define, InsertDefinition, MarkedInv, Inserting, ReaderInv, ReaderTypeOK
  <2> QED BY <1>6, <2>1, <2>2, <2>3, <2>4 DEF SelectAllStep
<1>7. CASE FailJob
  <2>1. ~Inserting
    BY <1>7 DEF FailJob, TypeInv, ControlInv, InJob, Ensuring, EnsurePlaces, Inserting
  <2> QED BY <1>7, <2>1, MarkedStays DEF FailJob, Inserting
<1>8. CASE FailRequest
  <2>1. CASE ClearScope
    BY <2>1, ClearMarks DEF ClearScope, MarkedInv
  <2>2. CASE UNCHANGED unmarked /\ (aborted' = (unmarked # {})
                                     \/ aborted' = (aborted \/ retain \/ unmarked # {}))
    BY <1>8, <2>2 DEF FailRequest, ClearFrame, MarkedInv, Inserting
  <2> QED BY <1>8, <2>1, <2>2 DEF FailRequest
<1>9. CASE UNCHANGED vars
  BY <1>9 DEF vars, MarkedInv, Inserting
<1> QED
  BY <1>1, <1>2, <1>3, <1>4, <1>5, <1>6, <1>7, <1>8, <1>9 DEF Next, Continue

-----------------------------------------------------------------------------
(* Which jobs a pass has.                                                  *)

SlotsInv ==
  /\ request.kind = "batch" => request.class \in SUBSET Classes
  /\ \A j \in Classes : slots[j] # Absent => request.kind = "batch" /\ j \in request.class
  /\ job # Absent => slots[job] = "open"
  /\ At("jobDone") \/ Ensuring({"jobDone"}) => job # Absent
  /\ where \in {"finish", "finishJava"} => \A j \in Classes : slots[j] # "open"

Ending == where \in {"finish", "finishJava"}
JobDone == At("jobDone") \/ Ensuring({"jobDone"})

LEMMA SlotsStay ==
  ASSUME SlotsInv, UNCHANGED <<slots, job>>, request'.kind = request.kind,
         request'.class = request.class, JobDone' => JobDone, Ending' => Ending
  PROVE  SlotsInv'
BY DEF SlotsInv, JobDone, Ending

LEMMA SlotsCleared == ASSUME ClearFrame PROVE SlotsInv'
BY DEF ClearFrame, SlotsInv, NoRequest, NoCode, Goto, At, Ensuring, EnsurePlaces

LEMMA SlotsNext == TypeInv /\ SlotsInv /\ [Next]_vars => SlotsInv'
<1> SUFFICES ASSUME TypeInv, SlotsInv, [Next]_vars PROVE SlotsInv'
  OBVIOUS
<1> USE DEF At, Goto, Stay, OnlyReader, historyVars, frameVars, JobDone, Ending, Ensuring,
            EnsurePlaces
<1>0. where \in EnsurePlaces =>
        after \in {"collect", "roots", "jobDone", "prefetch", "context", "selected"}
  BY DEF TypeInv, ControlInv
<1>1. CASE Caller
  <2>1. ASSUME NEW kind, NEW c, NEW L, NEW isolated, Begin(kind, c, L, isolated),
               kind = "batch" => c \in Batches
        PROVE  SlotsInv'
    <3>1. where = "idle" /\ UNCHANGED <<job, after>> /\ where' \notin EnsurePlaces
          /\ where' \notin {"jobDone", "finish", "finishJava"}
      BY <2>1 DEF Begin
    <3>2. job = Absent
      BY <3>1 DEF TypeInv, ControlInv, InJob
    <3>3. request'.kind = kind /\ request'.class = c
      BY <2>1 DEF Begin
    <3>4. \A j \in Classes : slots'[j] # Absent => kind = "batch" /\ j \in c
      BY <2>1 DEF Begin, NoCode
    <3> QED BY <2>1, <3>1, <3>2, <3>3, <3>4, ContextAssumption DEF SlotsInv
  <2>2. CASE ClearBetween \/ TakeReader
    BY <2>2, SlotsStay DEF ClearBetween, TakeReader
  <2> QED
    BY <1>1, <2>1, <2>2
    DEF Caller, BeginClass, BeginMethod, BeginOutline, BeginBatch, BeginAll
<1>2. CASE UnitStep
  <2>1. CASE Load
    BY <2>1, SlotsStay, SlotsCleared DEF Load
  <2>2. CASE Scope \/ Outer \/ Collect \/ CollectNeeds
    BY <2>2, SlotsStay DEF Scope, Outer, Collect, CollectNeeds
  <2>3. CASE Render
    BY <2>3, SlotsCleared DEF Render
  <2>4. CASE EnterTermination \/ Terminate
    BY <2>4, SlotsStay DEF EnterTermination, Terminate
  <2>5. CASE Prepare \/ PrepareContext \/ Prepared \/ TakeHierarchy
    BY <2>5, SlotsStay DEF Prepare, PrepareContext, Prepared, TakeHierarchy
  <2>6. ASSUME NEW c \in Classes, CollectNested(c) \/ LoadNeed(c) \/ Callee(c)
        PROVE  SlotsInv'
    BY <2>6, SlotsStay DEF CollectNested, LoadNeed, Callee
  <2>7. CASE NeedsLoaded
    BY <2>7 DEF NeedsLoaded, SlotsInv
  <2> QED BY <1>2, <2>1, <2>2, <2>3, <2>4, <2>5, <2>6, <2>7 DEF UnitStep
<1>3. CASE EnsureStep
  <2>1. CASE Ensure \/ HierarchyClosed \/ MembersLoaded \/ Analyse
    BY <1>0, <2>1, SlotsStay DEF Ensure, HierarchyClosed, MembersLoaded, Analyse
  <2>2. ASSUME NEW c \in Classes, LoadParent(c) \/ LoadMember(c) PROVE SlotsInv'
    BY <2>2, SlotsStay DEF LoadParent, LoadMember
  <2> QED BY <1>3, <2>1, <2>2 DEF EnsureStep
<1>4. CASE KotlinStep
  <2>1. CASE AnalyseKotlin \/ DependenciesLoaded \/ ArchiveDependenciesLoaded
    BY <2>1, SlotsStay
    DEF AnalyseKotlin, DependenciesLoaded, ArchiveDependenciesLoaded, EndKotlinRound, KotlinGoal
  <2>2. ASSUME NEW c \in Classes, LoadDependency(c) PROVE SlotsInv'
    BY <2>2, SlotsStay DEF LoadDependency
  <2> QED BY <1>4, <2>1, <2>2 DEF KotlinStep
<1>5. CASE ArchiveStep
  <2>1. CASE SelectNested \/ Retain \/ Prefetch \/ RootsBefore \/ JavaBefore
             \/ ArchiveTermination \/ KotlinFromArchive \/ ResolveArchive
    BY <2>1, SlotsStay
    DEF SelectNested, Retain, Prefetch, RootsBefore, JavaBefore, ArchiveTermination,
        KotlinFromArchive, ResolveArchive
  <2>2. CASE EndJob
    <3>1. /\ where' = "jobs" /\ job' = Absent /\ UNCHANGED request
          /\ slots' = [slots EXCEPT ![job] = "ready"] /\ slots[job] = "open"
      BY <2>2 DEF EndJob, SlotsInv
    <3> QED BY <3>1, AbsentAssumption DEF SlotsInv, TypeInv, StateTypes, RequestTypeOK
  <2>3. CASE JobsDone
    BY <2>3 DEF JobsDone, SlotsInv
  <2>4. CASE FinishHierarchy \/ FinishJava
    BY <2>4, SlotsStay DEF FinishHierarchy, FinishJava
  <2>5. ASSUME NEW c \in Classes, StartJob(c) PROVE SlotsInv'
    BY <2>5 DEF StartJob, SlotsInv
  <2>6. ASSUME NEW c \in Classes, SelectClass(c) PROVE SlotsInv'
    BY <2>6, SlotsStay DEF SelectClass
  <2>7. CASE Abandon
    BY <2>7, SlotsCleared DEF Abandon
  <2> QED BY <1>5, <2>1, <2>2, <2>3, <2>4, <2>5, <2>6, <2>7 DEF ArchiveStep
<1>6. CASE SelectAllStep
  <2>1. CASE NextDex \/ AllDefined
    BY <2>1, SlotsStay DEF NextDex, AllDefined
  <2>2. CASE Selected
    BY <2>2, SlotsCleared DEF Selected
  <2>3. ASSUME NEW c \in Classes, NEW larger \in BOOLEAN, Define(c, larger) PROVE SlotsInv'
    BY <2>3, SlotsStay DEF Define
  <2> QED BY <1>6, <2>1, <2>2, <2>3 DEF SelectAllStep
<1>7. CASE FailJob
  <2>1. /\ where' = "jobs" /\ job' = Absent /\ request'.kind = request.kind
        /\ request'.class = request.class
        /\ slots' = [slots EXCEPT ![job] = "failed"] /\ slots[job] = "open"
    BY <1>7 DEF FailJob, SlotsInv, TypeInv, StateTypes, RequestTypeOK
  <2> QED BY <2>1, AbsentAssumption DEF SlotsInv, TypeInv, StateTypes, RequestTypeOK
<1>8. CASE FailRequest
  BY <1>8, SlotsCleared DEF FailRequest
<1>9. CASE UNCHANGED vars
  BY <1>9, SlotsStay DEF vars
<1> QED
  BY <1>1, <1>2, <1>3, <1>4, <1>5, <1>6, <1>7, <1>8, <1>9 DEF Next, Continue

-----------------------------------------------------------------------------
(* What an archive pass has selected, decoded and taken.                   *)

\* With every class the archive has, S has its members.
Closed(S) == IncludeNested => \A b \in S \cap Located : Members[b] \subseteq S

\* The classes asked for and what is nested in them, at any depth.
Selection ==
  {c \in Classes : \A S \in SUBSET Classes : request.class \subseteq S /\ Closed(S) => c \in S}

LEMMA SelectionCloses ==
  ASSUME request.class \subseteq Classes
  PROVE  request.class \subseteq Selection /\ Closed(Selection)
BY ArchiveAssumption DEF Selection, Closed

LEMMA SelectionIsLeast ==
  ASSUME NEW S \in SUBSET Classes, request.class \subseteq S, Closed(S)
  PROVE  Selection \subseteq S
BY DEF Selection

LEMMA UnitCloses ==
  ASSUME NEW b, NEW c, NEW d \in Members[c], InUnit(c, b) PROVE InUnit(d, b)
BY DEF InUnit, NestedIn

SelectionIsIn == Selection \cap Located \subseteq loaded

Gathered == At("retain") \/ Ensuring({"prefetch"}) \/ At("prefetch")
Terminated ==
  \/ where \in {"abiAfter", "archiveDeps", "resolve"}
  \/ where \in {"kotlin", "kotlinDeps"} /\ \E j \in Classes : slots[j] = "open"
Prefetched == where \in {"abiBefore", "javaBefore", "archiveTermination"} \/ Terminated
Jobbing == At("jobs") \/ job # Absent

\* A job that is over, or this one, has had the code of c.
Taken(c) ==
  \E j \in request.class :
    InUnit(c, j) /\ (slots[j] \in {"ready", "failed"} \/ (job = j /\ c \in Collected))

SelectInv ==
  At("select") /\ ~aborted =>
    request.class \subseteq seen /\ (seen \ todo) \cap Located \subseteq loaded

PassInv ==
  /\ Gathered => aborted \/ SelectionIsIn
  /\ Prefetched => aborted \/ Selection \cap Located \subseteq Decoded
  /\ Terminated => \A c \in Decoded : cfgs[c].ended
  /\ Jobbing =>
       /\ \A c \in Decoded : cfgs[c] = Code(TRUE, TRUE)
       /\ aborted \/ \A c \in Selection \cap Located : c \in Decoded \/ Taken(c)

\* The rest of the unit that a job is still to collect.
Nesting ==
  /\ seen = Collected
  /\ todo # {} => IncludeNested
  /\ \A c \in todo : InUnit(c, job)
  /\ aborted \/ todo \subseteq Selection

JobInv ==
  job # Absent =>
    /\ At("collect") => job \in Located
    /\ At("nested") => Nesting
    /\ \A c \in Collected :
         /\ InUnit(c, job)
         /\ unit[c].resolved
         /\ unit[c].ended \/ aborted \/ \E b \in request.class \ {job} : InUnit(c, b)

BatchInv == SelectInv /\ PassInv /\ JobInv

\* No part of an archive pass for which something is to be shown.
Outside == ~At("select") /\ ~Gathered /\ ~Prefetched /\ ~Jobbing

LEMMA BatchOutside == Outside' => BatchInv'
BY DEF Outside, BatchInv, SelectInv, PassInv, JobInv, Jobbing, Prefetched

\* The steps that leave code, jobs and the work list alone.
LEMMA BatchStays ==
  ASSUME BatchInv, UNCHANGED <<cfgs, unit, slots, job, aborted>>,
         request'.class = request.class, loaded \subseteq loaded',
         ~At("select")', At("nested")' => UNCHANGED <<where, seen, todo>>,
         At("collect")' => At("collect") \/ job = Absent,
         Gathered' => Gathered, Prefetched' => Prefetched,
         Terminated' => Terminated, Jobbing' => Jobbing
  PROVE  BatchInv'
<1>1. Selection' = Selection
  BY DEF Selection, Closed
<1>2. SelectInv'
  BY DEF SelectInv
<1>3. Decoded' = Decoded /\ Collected' = Collected
  BY DEF Decoded, Collected
<1>4. \A c : Taken(c) => Taken(c)'
  BY <1>3 DEF Taken, InUnit, NestedIn
<1>5. PassInv'
  BY <1>1, <1>3, <1>4 DEF BatchInv, PassInv, SelectionIsIn
<1>6. JobInv'
  <2>1. \A b, c : InUnit(c, b)' <=> InUnit(c, b)
    BY DEF InUnit, NestedIn
  <2>2. Nesting /\ UNCHANGED <<seen, todo>> => Nesting'
    BY <1>1, <1>3, <2>1 DEF Nesting
  <2> QED BY <1>3, <2>1, <2>2 DEF BatchInv, JobInv, At
<1> QED BY <1>2, <1>5, <1>6 DEF BatchInv

LEMMA CallerBatch == ASSUME TypeInv, SlotsInv, Caller PROVE BatchInv'
<1> USE DEF At, Goto, frameVars, Outside, Gathered, Prefetched, Terminated, Jobbing, Ensuring,
            EnsurePlaces
<1>0. At("idle") => job = Absent
  BY DEF TypeInv, ControlInv, InJob
<1>1. ASSUME NEW kind, NEW c, NEW L, NEW isolated, Begin(kind, c, L, isolated)
      PROVE  BatchInv'
  <2>1. CASE kind = "batch"
    <3>1. where' = "select" /\ job' = Absent /\ request'.class = c /\ seen' = c /\ todo' = c
      BY <1>0, <1>1, <2>1 DEF Begin
    <3> QED BY <3>1 DEF BatchInv, SelectInv, PassInv, JobInv
  <2>2. CASE kind # "batch"
    <3>1. where' \in {"definitions", "load", "scope"} /\ job' = Absent
      BY <1>0, <1>1, <2>2 DEF Begin
    <3> QED BY <3>1, BatchOutside
  <2> QED BY <2>1, <2>2
<1>2. CASE ClearBetween \/ TakeReader
  BY <1>0, <1>2, BatchOutside DEF ClearBetween, TakeReader
<1> QED
  BY <1>1, <1>2 DEF Caller, BeginClass, BeginMethod, BeginOutline, BeginBatch, BeginAll

LEMMA EnsureBatch == ASSUME TypeInv, SlotsInv, BatchInv, EnsureStep PROVE BatchInv'
<1> USE DEF At, Goto, Stay, OnlyReader, SameCode, codeVars, historyVars, Gathered, Prefetched,
            Terminated, Jobbing, Ensuring, EnsurePlaces
<1>0. /\ where \in EnsurePlaces =>
             after \in {"collect", "roots", "jobDone", "prefetch", "context", "selected"}
      /\ where \in EnsurePlaces /\ job # Absent => after = "jobDone"
  BY DEF TypeInv, ControlInv, InJob
<1>1. CASE Ensure
  BY <1>0, <1>1, BatchStays DEF Ensure, readerVars, graphVars
<1>2. CASE HierarchyClosed \/ MembersLoaded
  BY <1>2, BatchStays DEF HierarchyClosed, MembersLoaded, readerVars, graphVars
<1>3. CASE Analyse
  BY <1>0, <1>3, BatchStays DEF Analyse, AnalyseOverrides
<1>4. ASSUME NEW c \in Classes, LoadParent(c) \/ LoadMember(c) PROVE BatchInv'
  BY <1>4, LoadGrows, BatchStays DEF LoadParent, LoadMember
<1> QED BY <1>1, <1>2, <1>3, <1>4 DEF EnsureStep

LEMMA KotlinBatch == ASSUME BatchInv, KotlinStep PROVE BatchInv'
<1> USE DEF At, Goto, Stay, OnlyReader, SameCode, codeVars, historyVars, Gathered, Prefetched,
            Terminated, Jobbing, Ensuring, EnsurePlaces, readerVars, graphVars
<1>1. CASE AnalyseKotlin
  BY <1>1, BatchStays DEF AnalyseKotlin, KotlinGoal
<1>2. CASE DependenciesLoaded
  BY <1>2, BatchStays DEF DependenciesLoaded, EndKotlinRound, KotlinGoal
<1>3. CASE ArchiveDependenciesLoaded
  BY <1>3, BatchStays DEF ArchiveDependenciesLoaded, EndKotlinRound
<1>4. ASSUME NEW d \in Classes, LoadDependency(d) PROVE BatchInv'
  BY <1>4, LoadGrows, BatchStays DEF LoadDependency
<1> QED BY <1>1, <1>2, <1>3, <1>4 DEF KotlinStep

LEMMA SelectAllBatch == ASSUME TypeInv, SelectAllStep PROVE BatchInv'
<1> USE DEF At, Goto, OnlyReader, Outside, Gathered, Prefetched, Terminated, Jobbing, Ensuring,
            EnsurePlaces
<1>0. where \in {"definitions", "redefinitions"} => job = Absent
  BY DEF TypeInv, ControlInv, InJob
<1>1. CASE NextDex \/ AllDefined
  BY <1>0, <1>1, BatchOutside DEF NextDex, AllDefined
<1>2. CASE Selected
  BY <1>2, BatchOutside DEF Selected, ClearFrame
<1>3. ASSUME NEW c \in Classes, NEW larger \in BOOLEAN, Define(c, larger) PROVE BatchInv'
  BY <1>0, <1>3, BatchOutside DEF Define
<1> QED BY <1>1, <1>2, <1>3 DEF SelectAllStep

\* A pass hands out what it has decoded, and decodes what it has not again.
LEMMA CodeIsTaken ==
  ASSUME CodeTypeOK, retain, request.kind = "batch", NEW c \in Classes, NEW r, CollectCode(c, r)
  PROVE  /\ cfgs' = [cfgs EXCEPT ![c] = Absent]
         /\ unit' = [unit EXCEPT ![c] = IF cfgs[c] = Absent THEN Code(TRUE, FALSE) ELSE cfgs[c]]
         /\ Collected' = Collected \cup {c} /\ Decoded' = Decoded \ {c}
<1>1. Synced(r) = cfgs /\ Takes
  BY DEF Synced, Takes
<1>2. /\ WithDecoded({c}, r)[c] = IF cfgs[c] = Absent THEN Code(TRUE, FALSE) ELSE cfgs[c]
      /\ \A d \in Classes \ {c} : WithDecoded({c}, r)[d] = cfgs[d]
      /\ DOMAIN WithDecoded({c}, r) = Classes
  BY <1>1 DEF WithDecoded
<1> HIDE DEF WithDecoded
<1>3. /\ cfgs' = [cfgs EXCEPT ![c] = Absent]
      /\ unit' = [unit EXCEPT ![c] = IF cfgs[c] = Absent THEN Code(TRUE, FALSE) ELSE cfgs[c]]
  <2>1. cfgs' = [d \in Classes |-> IF d = c THEN Absent ELSE WithDecoded({c}, r)[d]]
    BY <1>1, <1>2 DEF CollectCode
  <2>2. cfgs' = [cfgs EXCEPT ![c] = Absent]
    BY <1>2, <2>1 DEF CodeTypeOK
  <2> QED BY <1>2, <2>2 DEF CollectCode
<1>4. unit'[c] # Absent
  BY <1>3, BodyIsCode DEF CodeTypeOK
<1> QED BY <1>3, <1>4 DEF CodeTypeOK, Collected, Decoded

\* The job collects c.
LEMMA JobCollects ==
  ASSUME TypeInv, SlotsInv, BatchInv, retain, job # Absent, NEW c \in Located, NEW r,
         CollectCode(c, r), c \notin Collected, InUnit(c, job), aborted \/ c \in Selection,
         UNCHANGED <<job, slots, request, aborted>>, where' = "nested",
         seen' = Collected \cup {c},
         todo' # {} => IncludeNested, \A d \in todo' : InUnit(d, job),
         aborted \/ todo' \subseteq Selection
  PROVE  BatchInv'
<1> USE DEF At, Ensuring, EnsurePlaces
<1>0. /\ CodeTypeOK /\ request.kind = "batch" /\ c \in Classes /\ job \in request.class
      /\ slots[job] = "open"
  BY ArchiveAssumption, AbsentAssumption
  DEF TypeInv, StateTypes, RequestTypeOK, ControlInv, SlotsInv
<1>1. /\ cfgs' = [cfgs EXCEPT ![c] = Absent]
      /\ unit' = [unit EXCEPT ![c] = IF cfgs[c] = Absent THEN Code(TRUE, FALSE) ELSE cfgs[c]]
      /\ Collected' = Collected \cup {c} /\ Decoded' = Decoded \ {c}
  BY <1>0, CodeIsTaken
<1>2. \A d \in Decoded : cfgs[d] = Code(TRUE, TRUE)
  BY DEF BatchInv, PassInv, Jobbing
<1>3. /\ unit'[c].resolved
      /\ unit'[c].ended \/ c \notin Decoded
  <2>1. unit'[c] = IF c \in Decoded THEN Code(TRUE, TRUE) ELSE Code(TRUE, FALSE)
    BY <1>0, <1>1, <1>2 DEF CodeTypeOK, Decoded
  <2> QED BY <2>1 DEF Code
<1>4. /\ Selection' = Selection
      /\ \A b, d : InUnit(d, b)' <=> InUnit(d, b)
  BY DEF Selection, Closed, InUnit, NestedIn
<1>5. \A d : Taken(d) => Taken(d)'
  BY <1>1, <1>4 DEF Taken
<1>6. Taken(c)'
  BY <1>0, <1>1, <1>4 DEF Taken
<1>7. PassInv'
  <2>1. \A d \in Decoded' : cfgs'[d] = Code(TRUE, TRUE)
    BY <1>0, <1>1, <1>2 DEF CodeTypeOK, Decoded
  <2>2. aborted \/ \A d \in Selection \cap Located : d \in Decoded' \/ Taken(d)'
    BY <1>1, <1>5, <1>6 DEF BatchInv, PassInv, Jobbing
  <2> QED BY <1>4, <2>1, <2>2 DEF PassInv, Gathered, Prefetched, Terminated
<1>8. unit'[c].ended \/ aborted \/ \E b \in request.class \ {job} : InUnit(c, b)
  <2> SUFFICES ASSUME c \notin Decoded, ~aborted
               PROVE  \E b \in request.class \ {job} : InUnit(c, b)
    BY <1>3
  <2>1. Taken(c)
    BY DEF BatchInv, PassInv, Jobbing
  <2>2. PICK j \in request.class : InUnit(c, j) /\ slots[j] \in {"ready", "failed"}
    BY <2>1 DEF Taken
  <2>3. j # job
    BY <1>0, <2>2
  <2> QED BY <2>2, <2>3
<1>9. \A d \in Collected' :
        /\ InUnit(d, job) /\ unit'[d].resolved
        /\ unit'[d].ended \/ aborted \/ \E b \in request.class \ {job} : InUnit(d, b)
  <2>1. \A d \in Collected : d # c /\ unit'[d] = unit[d]
    BY <1>0, <1>1 DEF CodeTypeOK, Collected
  <2> QED BY <1>1, <1>3, <1>8, <2>1 DEF BatchInv, JobInv
<1>10. JobInv'
  BY <1>1, <1>4, <1>9 DEF JobInv, Nesting
<1> QED BY <1>7, <1>10 DEF BatchInv, SelectInv

\* Of a class or a method asked for alone nothing has to be shown.
LEMMA UnitOutside == ASSUME TypeInv, UnitStep, job = Absent PROVE Outside'
<1> USE DEF At, Goto, OnlyReader, frameVars, Outside, Gathered, Prefetched, Terminated, Jobbing,
            Ensuring, EnsurePlaces
<1>0. At("context") => \A j \in Classes : slots[j] # "open"
  BY DEF TypeInv, ControlInv, Preparing, ForOne
<1>1. CASE Load
  BY <1>1 DEF Load, ClearFrame
<1>2. CASE Scope \/ Outer \/ Collect \/ CollectNeeds
  BY <1>2 DEF Scope, Outer, Collect, CollectNeeds
<1>3. CASE NeedsLoaded \/ EnterTermination \/ Terminate
  BY <1>3 DEF NeedsLoaded, EnterTermination, Terminate
<1>4. CASE Prepare \/ PrepareContext \/ Prepared \/ TakeHierarchy
  BY <1>0, <1>4 DEF Prepare, PrepareContext, Prepared, TakeHierarchy
<1>5. CASE Render
  BY <1>5 DEF Render, ClearFrame
<1>6. ASSUME NEW c \in Classes, CollectNested(c) \/ LoadNeed(c) \/ Callee(c)
      PROVE  Outside'
  BY <1>6 DEF CollectNested, LoadNeed, Callee
<1> QED BY <1>1, <1>2, <1>3, <1>4, <1>5, <1>6 DEF UnitStep

LEMMA UnitBatch ==
  ASSUME ReaderInv, TypeInv, CodeInv, SlotsInv, BatchInv, UnitStep PROVE BatchInv'
<1> USE DEF At, Goto, Stay, SameCode, codeVars, historyVars, frameVars
<1>1. CASE job = Absent
  BY <1>1, UnitOutside, BatchOutside
<1>2. CASE job # Absent
  <2> USE <1>2
  <2>0. /\ retain /\ CodeTypeOK /\ job \in Classes /\ Top = job
        /\ request.kind = "batch" /\ request.class \subseteq Classes /\ job \in request.class
        /\ seen \subseteq Classes /\ loaded \subseteq Located /\ linked \subseteq loaded
    BY AbsentAssumption
    DEF TypeInv, StateTypes, RequestTypeOK, ControlInv, Passing, Top, SlotsInv, ReaderInv,
        ReaderTypeOK
  <2>1. CASE Outer
    <3>1. job \in Located
      BY <2>0, <2>1, LoadGrows DEF Outer
    <3>2. /\ UNCHANGED <<cfgs, unit, slots, job, aborted, request>> /\ where' = "collect"
          /\ loaded \subseteq loaded'
      BY <2>1, LoadGrows DEF Outer
    <3>3. Selection' = Selection /\ Collected' = Collected /\ Decoded' = Decoded
      BY <3>2 DEF Selection, Closed, Collected, Decoded
    <3>4. \A b, d : InUnit(d, b)' <=> InUnit(d, b)
      BY DEF InUnit, NestedIn
    <3>5. \A d : Taken(d)' <=> Taken(d)
      BY <3>2, <3>3, <3>4 DEF Taken
    <3>6. PassInv'
      BY <3>2, <3>3, <3>5
      DEF BatchInv, PassInv, Gathered, Prefetched, Terminated, Jobbing, Ensuring, EnsurePlaces
    <3> QED BY <3>1, <3>2, <3>3, <3>4, <3>6 DEF BatchInv, SelectInv, JobInv
  <2>2. CASE Collect
    <3>1. unit = NoCode /\ Collected = {}
      BY <2>2 DEF Collect, CodeInv, Fresh, Collected, NoCode
    <3>2. job \in Located /\ InUnit(job, job) /\ job \in Selection
      BY <2>0, <2>2, SelectionCloses DEF Collect, BatchInv, JobInv, InUnit
    <3>3. todo' \subseteq Members[job] /\ (todo' # {} => IncludeNested)
      BY <2>0, <2>2 DEF Collect, MembersOf
    <3>4. \A d \in todo' : InUnit(d, job)
      BY <3>2, <3>3, UnitCloses
    <3>5. todo' \subseteq Selection
      BY <2>0, <3>2, <3>3, SelectionCloses DEF Closed
    <3>6. CollectCode(job, revision) /\ seen' = {job} /\ where' = "nested"
          /\ UNCHANGED <<job, slots, request, aborted>>
      BY <2>0, <2>2 DEF Collect
    <3> QED BY <2>0, <3>1, <3>2, <3>3, <3>4, <3>5, <3>6, JobCollects
  <2>3. ASSUME NEW n \in Classes, CollectNested(n) PROVE BatchInv'
    <3>1. Nesting
      BY <2>3 DEF CollectNested, BatchInv, JobInv
    <3>2. /\ n \in todo /\ n \notin Collected /\ n \in Located /\ InUnit(n, job)
          /\ aborted \/ n \in Selection
          /\ IncludeNested
      BY <2>0, <2>3, <3>1, LoadGrows DEF CollectNested, Nesting
    <3>3. todo' \subseteq todo \cup Members[n] /\ IncludeNested
      BY <2>3, <3>1 DEF CollectNested, Nesting
    <3>4. \A d \in todo' : InUnit(d, job)
      BY <3>1, <3>2, <3>3, UnitCloses DEF Nesting
    <3>5. aborted \/ todo' \subseteq Selection
      BY <2>0, <3>1, <3>2, <3>3, SelectionCloses DEF Closed, Nesting
    <3>6. CollectCode(n, revision') /\ seen' = Collected \cup {n} /\ where' = "nested"
          /\ UNCHANGED <<job, slots, request, aborted>>
      BY <2>3, <3>1 DEF CollectNested, Nesting
    <3> QED BY <2>0, <3>2, <3>3, <3>4, <3>5, <3>6, JobCollects
  <2>4. CASE CollectNeeds \/ NeedsLoaded
    BY <2>4, BatchStays
    DEF CollectNeeds, NeedsLoaded, Gathered, Prefetched, Terminated, Jobbing, Ensuring,
        EnsurePlaces, readerVars, graphVars
  <2>5. ASSUME NEW d \in Classes, LoadNeed(d) PROVE BatchInv'
    BY <2>5, LoadGrows, BatchStays
    DEF LoadNeed, Gathered, Prefetched, Terminated, Jobbing, Ensuring, EnsurePlaces
  <2>6. where \in {"outer", "collect", "nested", "needs"} \cup EnsurePlaces \cup {"jobDone"}
    BY DEF TypeInv, ControlInv, InJob, Ensuring
  <2>7. ~Load /\ ~Scope /\ ~EnterTermination /\ ~Terminate /\ ~Prepare /\ ~PrepareContext
        /\ ~Prepared /\ ~TakeHierarchy /\ ~Render /\ \A t \in Classes : ~Callee(t)
    BY <2>6
    DEF EnsurePlaces, Load, Scope, EnterTermination, Terminate, Prepare, PrepareContext, Prepared,
        TakeHierarchy, Render, Callee
  <2> QED BY <2>1, <2>2, <2>3, <2>4, <2>5, <2>7 DEF UnitStep
<1> QED BY <1>1, <1>2

LEMMA ArchiveBatch ==
  ASSUME ReaderInv, ReaderInv', TypeInv, MarkedInv, CodeInv, SlotsInv, BatchInv, ArchiveStep
  PROVE  BatchInv'
<1> USE DEF At, Goto, Stay, OnlyReader, SameCode, codeVars, historyVars, frameVars, readerVars,
            graphVars
<1>0. /\ CodeTypeOK /\ seen \subseteq Classes
      /\ Passing => retain
      /\ where \notin {"outer", "collect", "nested", "needs", "jobDone"} \cup EnsurePlaces =>
           job = Absent
  BY DEF TypeInv, StateTypes, RequestTypeOK, ControlInv, InJob, Ensuring
<1>0a. request'.class = request.class => Selection' = Selection
  BY DEF Selection, Closed
<1>1. ASSUME NEW b \in Classes, SelectClass(b) PROVE BatchInv'
  <2>1. where = "select" /\ where' = "select" /\ job' = Absent
    BY <1>0, <1>1 DEF SelectClass, EnsurePlaces
  <2>2. SelectInv'
    BY <1>1 DEF SelectClass, InsertClass, BatchInv, SelectInv
  <2> QED
    BY <2>1, <2>2
    DEF BatchInv, PassInv, JobInv, Gathered, Prefetched, Terminated, Jobbing, Ensuring,
        EnsurePlaces
<1>2. CASE SelectNested
  <2>1. where = "select" /\ where' \in {"select", "retain"} /\ job' = Absent /\ todo = {}
        /\ UNCHANGED <<loaded, aborted, request>>
    BY <1>0, <1>2 DEF SelectNested, EnsurePlaces, EndInserting, MarkAndLink
  <2>2. ~aborted => request.class \subseteq seen /\ seen \cap Located \subseteq loaded
    BY <2>1 DEF BatchInv, SelectInv
  <2>3. SelectInv'
    BY <1>2, <2>1, <2>2 DEF SelectNested, SelectInv
  <2>4. where' = "retain" => aborted \/ SelectionIsIn'
    <3> SUFFICES ASSUME where' = "retain", ~aborted PROVE SelectionIsIn'
      OBVIOUS
    <3>1. loaded \subseteq linked'
      <4>1. unmarked # {} => changed
        BY <1>2 DEF SelectNested, MarkedInv, Inserting
      <4>2. changed => linked' = loaded
        BY <1>2, <2>1 DEF SelectNested, EndInserting, MarkAndLink
      <4>3. ~changed => linked' = linked /\ loaded \subseteq linked
        BY <1>2, <4>1 DEF SelectNested, EndInserting, ReaderInv, GraphInv, Vouched
      <4> QED BY <4>2, <4>3
    <3>2. ASSUME IncludeNested, NEW b \in seen \cap linked' PROVE Members[b] \subseteq seen
      <4> DEFINE members == UNION {Members[d] : d \in seen \cap linked'}
      <4>1. Members[b] \subseteq members
        BY <3>2
      <4>2. todo' = IF IncludeNested THEN members \ seen ELSE {}
        BY <1>2, Zenon DEF SelectNested
      <4>3. todo' = {}
        BY <1>2 DEF SelectNested
      <4> HIDE DEF members
      <4> QED BY <3>2, <4>1, <4>2, <4>3
    <3>3. Closed(seen)
      BY <2>2, <3>1, <3>2 DEF Closed
    <3>4. Selection \subseteq seen
      BY <1>0, <2>2, <3>3, SelectionIsLeast
    <3> QED BY <1>0a, <2>1, <2>2, <3>4 DEF SelectionIsIn
  <2> QED
    BY <2>1, <2>3, <2>4
    DEF BatchInv, PassInv, JobInv, Gathered, Prefetched, Terminated, Jobbing, Ensuring,
        EnsurePlaces
<1>3. CASE Retain
  BY <1>3, BatchStays
  DEF Retain, Gathered, Prefetched, Terminated, Jobbing, Ensuring, EnsurePlaces
<1>4. CASE RootsBefore \/ KotlinFromArchive
  BY <1>4, BatchStays
  DEF RootsBefore, KotlinFromArchive, Gathered, Prefetched, Terminated, Jobbing, Ensuring,
      EnsurePlaces
<1>5. CASE JobsDone \/ FinishHierarchy \/ FinishJava \/ Abandon
  <2>1. job' = Absent
    BY <1>0, <1>5 DEF JobsDone, FinishHierarchy, FinishJava, Abandon, ClearFrame, EnsurePlaces
  <2>2. \/ where' \in {"finish", "finishJava", "abandon", "idle"}
        \/ where' = "kotlin" /\ \A j \in Classes : slots'[j] # "open"
    <3>1. CASE FinishJava
      BY <3>1 DEF FinishJava, SlotsInv
    <3>2. CASE JobsDone
      BY <3>2 DEF JobsDone
    <3>3. CASE FinishHierarchy
      BY <3>3 DEF FinishHierarchy
    <3>4. CASE Abandon
      BY <3>4 DEF Abandon, ClearFrame
    <3> QED BY <1>5, <3>1, <3>2, <3>3, <3>4
  <2> QED
    BY <2>1, <2>2, BatchOutside
    DEF Outside, Gathered, Prefetched, Terminated, Jobbing, Ensuring, EnsurePlaces
<1>6. ASSUME where' \in {"abiBefore", "archiveTermination"}, job' = Absent,
             UNCHANGED <<aborted, request>>, aborted \/ Selection \cap Located \subseteq Decoded'
      PROVE  BatchInv'
  BY <1>0a, <1>6
  DEF BatchInv, SelectInv, PassInv, JobInv, Gathered, Prefetched, Terminated, Jobbing, Ensuring,
      EnsurePlaces
<1>7. CASE Prefetch
  <2>1. loaded \subseteq Decoded'
    BY <1>0, <1>7, BodyIsCode, ArchiveAssumption
    DEF Prefetch, Decoded, ReaderInv, ReaderTypeOK
  <2>2. aborted \/ SelectionIsIn
    BY <1>7 DEF Prefetch, BatchInv, PassInv, Gathered
  <2> QED BY <1>0, <1>6, <1>7, <2>1, <2>2 DEF Prefetch, SelectionIsIn, EnsurePlaces
<1>8. CASE JavaBefore
  <2>1. Synced(revision) = cfgs
    BY <1>0, <1>8 DEF JavaBefore, Passing, Synced
  <2>2. Decoded \subseteq Decoded'
    BY <1>8, <2>1 DEF JavaBefore, PrepareJava, WithDecoded, Decoded
  <2>3. aborted \/ Selection \cap Located \subseteq Decoded
    BY <1>8 DEF JavaBefore, BatchInv, PassInv, Prefetched
  <2> QED BY <1>0, <1>6, <1>8, <2>2, <2>3 DEF JavaBefore, EnsurePlaces
<1>9. CASE ArchiveTermination
  <2>1. /\ where = "archiveTermination" /\ where' = "abiAfter" /\ job' = Absent
        /\ cfgs' = Ended(cfgs) /\ UNCHANGED <<aborted, request>>
    BY <1>0, <1>9 DEF ArchiveTermination, EnsurePlaces
  <2>2. Decoded' = Decoded /\ \A c \in Decoded : cfgs'[c].ended
    <3>1. \A c \in Decoded : cfgs[c] \in Bodies
      BY <1>0 DEF Decoded, CodeTypeOK
    <3>2. \A c \in Decoded : cfgs'[c].ended /\ cfgs'[c] \in Bodies
      BY <2>1, <3>1 DEF Ended, Bodies, Decoded
    <3>3. Absent \notin Bodies
      BY AbsentAssumption
    <3> QED BY <2>1, <3>2, <3>3 DEF Ended, Decoded
  <2> QED
    BY <1>0a, <2>1, <2>2
    DEF BatchInv, SelectInv, PassInv, JobInv, Gathered, Prefetched, Terminated, Jobbing,
        Ensuring, EnsurePlaces
<1>10. CASE ResolveArchive
  <2>1. /\ where = "resolve" /\ where' = "jobs" /\ job' = Absent
        /\ cfgs' = Resolved(cfgs) /\ UNCHANGED <<aborted, request>>
    BY <1>0, <1>10 DEF ResolveArchive, EnsurePlaces
  <2>2. Decoded' = Decoded /\ \A c \in Decoded : cfgs'[c] = Code(TRUE, TRUE)
    <3>1. \A c \in Decoded : cfgs[c] \in Bodies /\ cfgs[c].ended
      BY <1>0, <2>1 DEF BatchInv, PassInv, Terminated, Decoded, CodeTypeOK
    <3>2. \A c \in Decoded : cfgs'[c] = Code(TRUE, TRUE)
      BY <2>1, <3>1 DEF Resolved, Bodies, Code, Decoded
    <3> QED BY <2>1, <3>2, BodyIsCode DEF Resolved, Decoded
  <2> QED
    BY <1>0a, <2>1, <2>2
    DEF BatchInv, SelectInv, PassInv, JobInv, Gathered, Prefetched, Terminated, Jobbing,
        Ensuring, EnsurePlaces
<1>11. ASSUME NEW j \in Classes, StartJob(j) PROVE BatchInv'
  <2>1. /\ where = "jobs" /\ job = Absent /\ job' = j /\ where' = "outer"
        /\ UNCHANGED <<cfgs, unit, slots, aborted, request>>
    BY <1>0, <1>11 DEF StartJob, EnsurePlaces
  <2>2. Collected = {} /\ Collected' = {}
    BY <2>1 DEF CodeInv, Fresh, Collected, NoCode
  <2>3. Decoded' = Decoded /\ \A d : Taken(d) => Taken(d)'
    BY <2>1, <2>2 DEF Decoded, Taken, InUnit, NestedIn
  <2> QED
    BY <1>0a, <2>1, <2>2, <2>3
    DEF BatchInv, SelectInv, PassInv, JobInv, Gathered, Prefetched, Terminated, Jobbing,
        Ensuring, EnsurePlaces
<1>12. CASE EndJob
  <2>1. /\ SlotsInv /\ job # Absent /\ job \in Classes
        /\ slots \in [Classes -> {Absent, "open", "ready", "failed"}]
    BY <1>12 DEF EndJob, SlotsInv, TypeInv, StateTypes, RequestTypeOK
  <2>2. /\ job' = Absent /\ where' = "jobs" /\ UNCHANGED <<cfgs, aborted, request>>
        /\ slots' = [slots EXCEPT ![job] = "ready"]
    BY <1>12 DEF EndJob
  <2>3. Decoded' = Decoded /\ \A d : Taken(d) => Taken(d)'
    BY <2>1, <2>2 DEF Decoded, Taken, InUnit, NestedIn
  <2> QED
    BY <1>0a, <2>1, <2>2, <2>3
    DEF BatchInv, SelectInv, PassInv, JobInv, Gathered, Prefetched, Terminated, Jobbing,
        Ensuring, EnsurePlaces
<1> QED
  BY <1>1, <1>2, <1>3, <1>4, <1>5, <1>7, <1>8, <1>9, <1>10, <1>11, <1>12 DEF ArchiveStep

LEMMA FailureBatch ==
  ASSUME TypeInv, SlotsInv, BatchInv, FailJob \/ FailRequest PROVE BatchInv'
<1> USE DEF At, Goto, SameCode, codeVars, historyVars
<1>1. CASE FailJob
  <2>1. /\ job # Absent /\ job \in Classes /\ job \in request.class
        /\ slots \in [Classes -> {Absent, "open", "ready", "failed"}]
        /\ slots[job] = "open"
    BY <1>1, AbsentAssumption DEF FailJob, SlotsInv, TypeInv, StateTypes, RequestTypeOK
  <2>2. /\ job' = Absent /\ where' = "jobs" /\ UNCHANGED <<cfgs, aborted>>
        /\ request'.class = request.class
        /\ slots' = [slots EXCEPT ![job] = "failed"]
    BY <1>1 DEF FailJob, TypeInv, StateTypes, RequestTypeOK
  <2>3. Selection' = Selection
    BY <2>2 DEF Selection, Closed
  <2>4. Decoded' = Decoded /\ \A d : Taken(d) => Taken(d)'
    BY <2>1, <2>2 DEF Decoded, Taken, InUnit, NestedIn
  <2> QED
    BY <2>1, <2>2, <2>3, <2>4
    DEF BatchInv, SelectInv, PassInv, JobInv, Gathered, Prefetched, Terminated, Jobbing,
        Ensuring, EnsurePlaces
<1>2. CASE FailRequest
  BY <1>2, BatchOutside
  DEF FailRequest, ClearFrame, Outside, Gathered, Prefetched, Terminated, Jobbing, Ensuring,
      EnsurePlaces
<1> QED BY <1>1, <1>2

LEMMA BatchNext ==
  /\ RevisionInv /\ RevisionInv' /\ TypeInv /\ MarkedInv /\ CodeInv /\ SlotsInv /\ BatchInv
  /\ [Next]_vars
  => BatchInv'
<1> SUFFICES ASSUME RevisionInv, RevisionInv', TypeInv, MarkedInv, CodeInv, SlotsInv, BatchInv,
                    [Next]_vars
             PROVE  BatchInv'
  OBVIOUS
<1>1. CASE Next
  BY <1>1, CallerBatch, UnitBatch, EnsureBatch, KotlinBatch, ArchiveBatch, SelectAllBatch,
     FailureBatch
  DEF Next, Continue, RevisionInv
<1>2. CASE UNCHANGED vars
  <2>1. UNCHANGED <<cfgs, unit, slots, job, aborted, request, loaded, where, after, seen, todo>>
    BY <1>2 DEF vars, codeVars, frameVars, historyVars, readerVars, graphVars
  <2>2. SelectInv'
    BY <2>1 DEF SelectInv, BatchInv, At
  <2>3. CASE At("select")
    BY <2>1, <2>2, <2>3
    DEF BatchInv, PassInv, JobInv, Gathered, Prefetched, Terminated, Jobbing, Ensuring,
        EnsurePlaces, At, TypeInv, ControlInv, InJob
  <2>4. CASE ~At("select")
    BY <2>1, <2>4, BatchStays
    DEF Gathered, Prefetched, Terminated, Jobbing, Ensuring, EnsurePlaces, At
  <2> QED BY <2>3, <2>4
<1> QED BY <1>1, <1>2

LEMMA JobsInit == Init => MarkedInv /\ SlotsInv /\ BatchInv
BY AbsentAssumption
DEF Init, ReaderInit, MarkedInv, Inserting, SlotsInv, NoRequest, NoCode, BatchInv, SelectInv,
    PassInv, JobInv, Gathered, Prefetched, Terminated, Jobbing, Ensuring, EnsurePlaces, At

(***************************************************************************)
(* What an archive pass hands to the parallel renderers is resolved and    *)
(* has been through termination, with the exemptions JobsAreResolved       *)
(* names, for any archive, any nesting and any classes asked for.          *)
(***************************************************************************)
THEOREM JobSafety == Spec => []JobsAreResolved
<1> DEFINE Inv == RevisionInv /\ TypeInv /\ MarkedInv /\ CodeInv /\ SlotsInv /\ BatchInv
<1>1. Init => Inv
  BY RevisionInit, TypesInit, CodeInit, JobsInit
<1>2. Inv /\ [Next]_vars => Inv'
  BY RevisionNext, TypesNext, MarkedNext, CodeNext, SlotsNext, BatchNext DEF RevisionInv
<1>3. Inv => JobsAreResolved
  BY DEF BatchInv, JobInv, SlotsInv, JobsAreResolved
<1> QED BY <1>1, <1>2, <1>3, PTL DEF Spec

-----------------------------------------------------------------------------
(* Which classes an isolated request loads.                                *)
(*                                                                         *)
(* Each part of a request loads a closure, so what it ends with is the     *)
(* least set that is closed, in whatever order the classes come.  The      *)
(* loop of prepare_source_backend has no closure to reach: it goes on      *)
(* until a round loads nothing.  But what it does is determined by where   *)
(* it is, so that it can end at one place only.                            *)

ClosedUnder(S, F) == \A c \in S : F[c] \subseteq S

\* The classes that are in every closed set that holds B.
Least(B, F) ==
  {c \in Classes : \A S \in SUBSET Classes : B \subseteq S /\ ClosedUnder(S, F) => c \in S}

LEMMA LeastCloses ==
  ASSUME NEW B \in SUBSET Classes, NEW F \in [Classes -> SUBSET Classes]
  PROVE  /\ B \subseteq Least(B, F) /\ Least(B, F) \subseteq Classes
         /\ \A c \in Least(B, F) : F[c] \subseteq Least(B, F)
BY DEF Least, ClosedUnder

LEMMA LeastIsLeast ==
  ASSUME NEW S \in SUBSET Classes, NEW B \in SUBSET S, NEW F, ClosedUnder(S, F)
  PROVE  Least(B, F) \subseteq S
BY DEF Least

\* The unit of c, what its declarations and code need, and the classes whose
\* methods are followed to see whether they return.
UnitOf(c) == IF IncludeNested THEN Least({c}, Members) ELSE {c}
NeedsOf(U) == UNION {{c} \cup Mentions[c] \cup Parents[c] : c \in U}
NeedsNext == [c \in Classes |-> IF c \in Located THEN Parents[c] ELSE {}]
NeededBy(U) == Least(NeedsOf(U), NeedsNext)
CallsOf(U) == UNION {Callees[c] : c \in U}
CallsNext(b) == [c \in Classes |-> IF c \in Located \ b THEN Callees[c] ELSE {}]
CalledBy(b, U) == Least(CallsOf(U), CallsNext(b))

\* What ensure_override_analysis makes of the loaded classes.
ParentsNext == [c \in Classes |-> Parents[c] \cap Located]
Ancestors(S) == Least(S, ParentsNext)
Declared(S) == S \cup ((UNION {Members[c] : c \in S}) \cap Located)
Ensured(S) == Ancestors(Declared(Ancestors(S)))

\* What is loaded before and after termination is solved, and what a round of
\* kotlin_source_abi adds.
Needed(c) == UnitOf(c) \cup (NeededBy(UnitOf(c)) \cap Located)
Solved(b, c) == Ensured(Needed(c)) \cup (CalledBy(b, UnitOf(c)) \cap (Located \ b))
WithOwners(c, S) == S \cup (ContractOwners(S, ContractRoots(UnitOf(c))) \cap Located)

\* The places the loop of prepare_source_backend comes to: the classes it has
\* begun with, those that are loaded, and whether overrides are analysed.
Stops == [at : {"prepare", "kotlin", "stable"}, base : SUBSET Classes,
          of : SUBSET Classes, ready : BOOLEAN]

FirstStop(b, c) ==
  [at |-> "prepare", base |-> Solved(b, c), of |-> Solved(b, c),
   ready |-> Solved(b, c) = Ensured(Needed(c))]

Ahead(c, L, x) ==
  CASE x.at = "prepare" ->
         [at |-> IF "kotlin" \in L THEN "kotlin" ELSE "stable", base |-> x.of,
          of |-> IF x.ready THEN x.of ELSE Ensured(x.of), ready |-> TRUE]
    [] x.at = "kotlin" ->
         IF WithOwners(c, x.of) = x.of THEN [x EXCEPT !.at = "stable"]
         ELSE [x EXCEPT !.of = WithOwners(c, x.of), !.ready = FALSE]
    [] x.at = "stable" ->
         IF x.base = x.of THEN x ELSE [x EXCEPT !.at = "prepare", !.base = x.of]

FollowedBy(c, L, X) == \A x \in X : Ahead(c, L, x) \in X

\* The stops that can be come to from x.
From(c, L, x) ==
  {y \in Stops : \A X \in SUBSET Stops : x \in X /\ FollowedBy(c, L, X) => y \in X}
Trail(b, c, L) == From(c, L, FirstStop(b, c))

LEMMA ScopeTypes ==
  ASSUME NEW c \in Classes, NEW b
  PROVE  /\ UnitOf(c) \subseteq Classes /\ Needed(c) \subseteq Classes
         /\ Solved(b, c) \subseteq Classes
         /\ \A S \in SUBSET Classes : /\ Ensured(S) \subseteq Classes
                                      /\ WithOwners(c, S) \subseteq Classes
<1>1. ParentsNext \in [Classes -> SUBSET Classes]
  BY ArchiveAssumption DEF ParentsNext
<1>2. UnitOf(c) \subseteq Classes
  BY DEF UnitOf, Least
<1>3. NeededBy(UnitOf(c)) \subseteq Classes /\ CalledBy(b, UnitOf(c)) \subseteq Classes
  BY DEF NeededBy, CalledBy, Least
<1>4. \A S : Ensured(S) \subseteq Classes
  BY DEF Ensured, Ancestors, Least
<1>5. ASSUME NEW S \in SUBSET Classes PROVE WithOwners(c, S) \subseteq Classes
  BY ArchiveAssumption DEF WithOwners
<1> QED BY <1>2, <1>3, <1>4, <1>5 DEF Needed, Solved

LEMMA AheadIsStop ==
  ASSUME NEW c \in Classes, NEW L, NEW x \in Stops
  PROVE  Ahead(c, L, x) \in Stops
<1>1. /\ x.at \in {"prepare", "kotlin", "stable"} /\ x.base \in SUBSET Classes
      /\ x.of \in SUBSET Classes /\ x.ready \in BOOLEAN
  BY DEF Stops
<1>2. Ensured(x.of) \in SUBSET Classes /\ WithOwners(c, x.of) \in SUBSET Classes
  BY <1>1, ScopeTypes
<1>3. CASE x.at = "prepare"
  BY <1>1, <1>2, <1>3 DEF Ahead, Stops
<1>4. CASE x.at = "kotlin"
  BY <1>1, <1>2, <1>4 DEF Ahead, Stops
<1>5. CASE x.at = "stable"
  BY <1>1, <1>5 DEF Ahead, Stops
<1> QED BY <1>1, <1>3, <1>4, <1>5

LEMMA FromLeads ==
  ASSUME NEW c \in Classes, NEW L, NEW x \in Stops
  PROVE  /\ x \in From(c, L, x)
         /\ FollowedBy(c, L, From(c, L, x))
<1>1. x \in From(c, L, x)
  BY DEF From
<1>2. ASSUME NEW y \in From(c, L, x) PROVE Ahead(c, L, y) \in From(c, L, x)
  BY AheadIsStop DEF From, FollowedBy
<1> QED BY <1>1, <1>2 DEF FollowedBy

LEMMA TrailStarts ==
  ASSUME NEW b, NEW c \in Classes, NEW L
  PROVE  /\ FirstStop(b, c) \in Trail(b, c, L)
         /\ Trail(b, c, L) \subseteq Stops
         /\ \A x \in Trail(b, c, L) : Ahead(c, L, x) \in Trail(b, c, L)
<1>1. FirstStop(b, c) \in Stops
  BY ScopeTypes DEF FirstStop, Stops
<1>2. Trail(b, c, L) \subseteq Stops
  BY DEF Trail, From
<1> QED BY <1>1, <1>2, FromLeads DEF Trail, FollowedBy

\* Where the loop ends it would stay, so it ends at one place only.
Ends(x) == x.at = "stable" /\ x.base = x.of

LEMMA OneEnd ==
  ASSUME NEW b, NEW c \in Classes, NEW L,
         NEW x \in Trail(b, c, L), NEW y \in Trail(b, c, L), Ends(x), Ends(y)
  PROVE  x = y
<1> DEFINE X == {z \in Stops : x \in From(c, L, z)}
<1>1. x \in Stops /\ y \in Stops /\ FirstStop(b, c) \in X
  BY TrailStarts DEF Trail
<1>2. Ahead(c, L, x) = x /\ Ahead(c, L, y) = y
  BY DEF Ends, Ahead
<1>3. ASSUME NEW z \in X PROVE Ahead(c, L, z) \in X
  <2> DEFINE Y == {z} \cup From(c, L, Ahead(c, L, z))
  <2>1. Ahead(c, L, z) \in Stops
    BY AheadIsStop
  <2>2. /\ Ahead(c, L, z) \in From(c, L, Ahead(c, L, z))
        /\ FollowedBy(c, L, From(c, L, Ahead(c, L, z)))
    BY <2>1, FromLeads
  <2>3. Y \in SUBSET Stops /\ FollowedBy(c, L, Y) /\ z \in Y
    BY <2>2 DEF FollowedBy, From
  <2>4. x \in Y
    BY <2>3 DEF From
  <2>5. CASE x = z
    BY <1>1, <1>2, <1>3, <2>5
  <2>6. CASE x \in From(c, L, Ahead(c, L, z))
    BY <2>1, <2>6
  <2> QED BY <2>4, <2>5, <2>6
<1>4. y \in X
  <2>1. FollowedBy(c, L, X) /\ X \in SUBSET Stops
    BY <1>3 DEF FollowedBy
  <2> QED BY <1>1, <2>1 DEF Trail, From
<1>5. FollowedBy(c, L, {y})
  BY <1>2 DEF FollowedBy
<1>6. x \in {y}
  <2>1. x \in From(c, L, y)
    BY <1>4
  <2> QED BY <1>1, <1>5, <2>1 DEF From
<1> QED BY <1>6

-----------------------------------------------------------------------------
(* What an isolated request has loaded at each place.                      *)

Isolated == request.kind = "class" /\ request.isolated
Asked == request.class
Unit == UnitOf(Asked)

IsolatedPlaces ==
  {"load", "scope", "outer", "collect", "nested", "needs", "roots", "terminate", "prepare",
   "context", "kotlin", "kotlinDeps", "stable", "hierarchy", "render"} \cup EnsurePlaces

NestedFits ==
  /\ Asked \in seen /\ seen = loaded /\ Collected = loaded /\ loaded \subseteq Unit
  /\ IF IncludeNested
     THEN todo \subseteq Unit /\ \A c \in seen : Members[c] \subseteq todo \cup seen
     ELSE todo = {} /\ seen = {Asked}

NeedsFit ==
  /\ loaded = Unit \cup (seen \cap Located)
  /\ seen \cup todo \subseteq NeededBy(Unit) /\ NeedsOf(Unit) \subseteq seen \cup todo
  /\ \A d \in seen : NeedsNext[d] \subseteq seen \cup todo

\* Overrides are being analysed, and B was loaded before.
EnsureFits(B) ==
  /\ B \subseteq loaded
  /\ At("ensure") => loaded = B
  /\ ~At("ensure") => analysis = "Dirty"
  /\ At("closure") => loaded \subseteq Ancestors(B)
  /\ At("members") => /\ Ancestors(B) \subseteq loaded /\ loaded \subseteq Declared(Ancestors(B))
                      /\ todo \cap Located \subseteq Declared(Ancestors(B))
                      /\ Declared(Ancestors(B)) \subseteq loaded \cup todo
  /\ At("closureAgain") => Declared(Ancestors(B)) \subseteq loaded /\ loaded \subseteq Ensured(B)
  /\ At("analyse") => loaded = Ensured(B)

CalledFit ==
  /\ roots = ContractRoots(Unit)
  /\ loaded = Ensured(Needed(Asked)) \cup (seen \cap (Located \ broken))
  /\ seen \cup todo \subseteq CalledBy(broken, Unit) /\ CallsOf(Unit) \subseteq seen \cup todo
  /\ \A t \in seen : CallsNext(broken)[t] \subseteq seen \cup todo
  /\ analysis = "Ready" <=> loaded = Ensured(Needed(Asked))

\* The loop has come to x, and what has been loaded since it began shows.
Since(B) == B \subseteq loaded /\ began <= revision /\ (revision = began <=> loaded = B)
StopsAt(x, place) ==
  /\ x.at = place /\ x.of = loaded
  /\ place # "prepare" => Since(x.base)
  /\ x.ready <=> analysis = "Ready"

OwnersFit(x) ==
  /\ x.at = "kotlin" /\ Since(x.base)
  /\ x.of \subseteq loaded /\ loaded \subseteq WithOwners(Asked, x.of)
  /\ WithOwners(Asked, x.of) \subseteq loaded \cup todo
  /\ todo \cap Located \subseteq WithOwners(Asked, x.of)
  /\ draft # Absent /\ draft.of = x.of /\ draft.revision <= revision
  /\ draft.revision = revision <=> loaded = x.of
  /\ analysis = "Ready" <=> x.ready /\ loaded = x.of

LoopAt(x) ==
  /\ Ensuring({"context"}) =>
       x.at = "prepare" /\ Since(x.of) /\ EnsureFits(x.of) /\ (x.ready <=> analysis = "Ready")
  /\ At("prepare") => StopsAt(x, "prepare")
  /\ At("context") => StopsAt(x, IF "kotlin" \in request.languages THEN "kotlin" ELSE "stable")
  /\ At("kotlin") => StopsAt(x, "kotlin")
  /\ At("kotlinDeps") => OwnersFit(x)
  /\ At("stable") => StopsAt(x, "stable")
  /\ where \in {"hierarchy", "render"} => Ends(x) /\ x.of = loaded

\* The ABI at hand is of classes that ask for no others.
OwnersAtHand ==
  \/ kotlinAbi = Absent
  \/ /\ roots = ContractRoots(Unit)
     /\ WithOwners(Asked, kotlinAbi.of) = kotlinAbi.of

Looping ==
  \/ where \in {"prepare", "context", "kotlin", "kotlinDeps", "stable", "hierarchy", "render"}
  \/ Ensuring({"context"})

Scoped ==
  /\ linked = loaded /\ unmarked = {} /\ OwnersAtHand
  /\ At("outer") => loaded = {}
  /\ At("collect") => loaded = {Asked} /\ analysis = "Dirty"
  /\ At("nested") => NestedFits /\ analysis = "Dirty"
  /\ At("needs") => NeedsFit /\ analysis = "Dirty"
  /\ Ensuring({"roots"}) => EnsureFits(Needed(Asked)) /\ analysis = "Dirty"
  /\ At("roots") => loaded = Ensured(Needed(Asked)) /\ analysis = "Ready"
  /\ At("terminate") => CalledFit
  /\ Looping => /\ \E x \in Trail(broken, Asked, request.languages) : LoopAt(x)
              /\ roots = ContractRoots(Unit)
  /\ where \notin {"outer", "collect", "nested"} => Collected = Unit
  /\ where \in {"kotlin", "kotlinDeps"} => seen \cap Located \subseteq loaded

ScopeInv ==
  /\ request.isolated => request.kind = "class"
  /\ Isolated =>
       /\ where \in IsolatedPlaces /\ (where \in EnsurePlaces => after \in {"roots", "context"})
       /\ where \notin {"load", "scope"} => Scoped

FirstInv ==
  \A l \in Languages, c \in Classes :
    first[<<l, c>>] # Absent =>
      \E x \in Trail(broken, c, {l}) : Ends(x) /\ x.of = first[<<l, c>>]

\* A class is loaded, or there is nothing to load.
LEMMA LoadScoped ==
  ASSUME ReaderInv, linked = loaded /\ unmarked = {}, NEW d, LoadClass(d)
  PROVE  /\ loaded' = loaded \cup ({d} \cap Located) /\ linked' = loaded' /\ unmarked' = {}
         /\ broken' = broken /\ d \notin Located \cap broken
         /\ \/ /\ loaded' = loaded /\ revision' = revision /\ analysis' = analysis
            \/ /\ loaded' # loaded /\ revision' = revision + 1 /\ analysis' = "Dirty"
BY DEF LoadClass, Answer, MarkAndLink, ReaderInv, ReaderTypeOK, readerVars, graphVars

LEMMA LoadSince ==
  ASSUME ReaderInv, RequestTypeOK, linked = loaded /\ unmarked = {}, NEW d, LoadClass(d),
         NEW B, Since(B), began' = began
  PROVE  Since(B)'
<1>1. revision \in Nat /\ began \in Nat
  BY DEF ReaderInv, ReaderTypeOK, RequestTypeOK
<1>2. CASE loaded' = loaded /\ revision' = revision
  BY <1>2 DEF Since
<1>3. CASE loaded' # loaded /\ revision' = revision + 1
  <2>1. loaded \subseteq loaded'
    BY LoadScoped
  <2>2. began <= revision' /\ revision' # began
    BY <1>1, <1>3 DEF Since
  <2> QED BY <1>3, <2>1, <2>2 DEF Since
<1> QED BY <1>2, <1>3, LoadScoped

\* A request goes on, ends, or notices in a job that it was cancelled.
LEMMA RequestStays ==
  ASSUME TypeInv, Continue
  PROVE  \/ request' = request \/ request' = NoRequest
         \/ job # Absent /\ request' = [request EXCEPT !.cancelled = TRUE]
<1>1. CASE UnitStep
  BY <1>1
  DEF UnitStep, Load, Scope, Outer, Collect, CollectNeeds, NeedsLoaded, EnterTermination,
      Terminate, CollectNested, LoadNeed, Callee, Prepare, PrepareContext, Prepared,
      TakeHierarchy, Render, Stay, ClearFrame, OnlyReader, frameVars
<1>2. CASE EnsureStep \/ KotlinStep
  BY <1>2
  DEF EnsureStep, Ensure, HierarchyClosed, MembersLoaded, Analyse, LoadParent, LoadMember,
      KotlinStep, AnalyseKotlin, DependenciesLoaded, ArchiveDependenciesLoaded,
      LoadDependency, Stay, OnlyReader
<1>3. CASE ArchiveStep
  BY <1>3
  DEF ArchiveStep, SelectNested, Retain, Prefetch, RootsBefore, JavaBefore,
      ArchiveTermination, KotlinFromArchive, ResolveArchive, EndJob, JobsDone,
      FinishHierarchy, FinishJava, Abandon, SelectClass, StartJob, Stay, OnlyReader, ClearFrame
<1>4. CASE SelectAllStep \/ FailJob \/ FailRequest
  BY <1>4
  DEF SelectAllStep, NextDex, AllDefined, Selected, Define, FailJob, FailRequest, Stay,
      OnlyReader, ClearFrame
<1> QED BY <1>1, <1>2, <1>3, <1>4 DEF Continue

\* Requests of other kinds, and between requests.
LEMMA OthersScope ==
  ASSUME TypeInv, ScopeInv, ~Isolated, Continue PROVE ScopeInv'
<1>1. request \in [kind : Kinds, class : {Absent} \cup Classes \cup SUBSET Classes,
                   languages : SUBSET Languages, isolated : BOOLEAN, cancelled : BOOLEAN]
  BY DEF TypeInv, StateTypes, RequestTypeOK
<1>2. \/ request'.kind = request.kind /\ request'.isolated = request.isolated
      \/ request' = NoRequest
  BY <1>1, RequestStays
<1>3. ~request.isolated
  BY DEF ScopeInv, Isolated
<1> QED BY <1>2, <1>3 DEF ScopeInv, Isolated, NoRequest

LEMMA CallerScope ==
  ASSUME ScopeInv, Caller PROVE ScopeInv'
<1>1. ASSUME NEW kind, NEW c, NEW L, NEW isolated, Begin(kind, c, L, isolated),
             isolated => kind = "class"
      PROVE  ScopeInv'
  BY <1>1 DEF Begin, ScopeInv, Isolated, IsolatedPlaces, Goto, EnsurePlaces
<1>2. CASE ClearBetween \/ TakeReader
  BY <1>2 DEF ClearBetween, TakeReader, ScopeInv, Isolated, IsolatedPlaces, EnsurePlaces, At
<1> QED
  BY <1>1, <1>2 DEF Caller, BeginClass, BeginMethod, BeginOutline, BeginBatch, BeginAll

\* What is known of an isolated request in its own scope.
Inside ==
  /\ RevisionInv /\ TypeInv /\ CodeInv
  /\ ScopeInv /\ Isolated /\ where \notin {"load", "scope"}

LEMMA InsideIs ==
  ASSUME Inside
  PROVE  /\ ReaderInv /\ RequestTypeOK /\ CodeTypeOK /\ CachesTypeOK
         /\ Scoped /\ linked = loaded /\ unmarked = {}
         /\ job = Absent /\ ~retain /\ Asked \in Classes
         /\ \E l \in Languages : request.languages = {l}
         /\ where \in IsolatedPlaces
         /\ where \in EnsurePlaces => after \in {"roots", "context"}
         /\ request.kind = "class"
BY DEF Inside, RevisionInv, TypeInv, StateTypes, ControlInv, CodeInv, ScopeInv, Scoped,
       Isolated, ForOne, Asked

\* A step to another place of the same request.
LEMMA ScopedStep ==
  ASSUME Inside, request' = request, where' \in IsolatedPlaces,
         where' \in EnsurePlaces => after' \in {"roots", "context"}, Scoped'
  PROVE  ScopeInv'
BY DEF Inside, ScopeInv, Isolated

-----------------------------------------------------------------------------
(* The unit and what it needs.                                             *)

LEMMA OwnersStay ==
  ASSUME OwnersAtHand, request' = request,
         \/ UNCHANGED <<roots, kotlinAbi>>
         \/ kotlinAbi' = Absent
         \/ SetRoots(ContractRoots(Unit))
  PROVE  OwnersAtHand'
<1>1. Unit' = Unit /\ Asked' = Asked
  BY DEF Unit, Asked
<1> QED BY <1>1 DEF OwnersAtHand, SetRoots

LEMMA ScopeSets ==
  ASSUME Asked \in Classes
  PROVE  /\ Unit \in SUBSET Classes /\ Asked \in Unit
         /\ IncludeNested => \A c \in Unit : Members[c] \subseteq Unit
         /\ NeedsOf(Unit) \in SUBSET Classes /\ NeedsNext \in [Classes -> SUBSET Classes]
         /\ CallsOf(Unit) \in SUBSET Classes /\ CallsNext(broken) \in [Classes -> SUBSET Classes]
         /\ Needed(Asked) \in SUBSET Classes
<1>1. /\ Unit \in SUBSET Classes /\ Asked \in Unit
      /\ IncludeNested => \A c \in Unit : Members[c] \subseteq Unit
  <2>1. {Asked} \in SUBSET Classes /\ Members \in [Classes -> SUBSET Classes]
    BY ArchiveAssumption
  <2>2. CASE IncludeNested
    <3>1. Unit = Least({Asked}, Members)
      BY <2>2 DEF Unit, UnitOf
    <3> QED BY <2>1, <3>1, LeastCloses
  <2>3. CASE ~IncludeNested
    BY <2>3 DEF Unit, UnitOf
  <2> QED BY <2>2, <2>3
<1>2. NeedsOf(Unit) \in SUBSET Classes /\ NeedsNext \in [Classes -> SUBSET Classes]
  BY <1>1, ArchiveAssumption, ContextAssumption DEF NeedsOf, NeedsNext
<1>3. CallsOf(Unit) \in SUBSET Classes /\ CallsNext(broken) \in [Classes -> SUBSET Classes]
  BY <1>1, ContextAssumption DEF CallsOf, CallsNext
<1> QED BY <1>1, <1>2, <1>3, ScopeTypes

LEMMA ScopeEntered ==
  ASSUME RevisionInv, TypeInv, CodeInv, ScopeInv, Isolated, Load \/ Scope
  PROVE  ScopeInv'
<1>1. CASE Load
  BY <1>1 DEF Load, Isolated, ScopeInv, IsolatedPlaces, EnsurePlaces, Goto, Stay
<1>2. CASE Scope
  <2>1. loaded' = {} /\ linked' = {} /\ unmarked' = {}
    BY <1>2
    DEF Scope, Isolated, ClearScope, ClearLoaded, MarkAndLink, readerVars, graphVars, RevisionInv,
        ReaderInv, ReaderTypeOK
  <2>2. where' = "outer" /\ request' = request /\ kotlinAbi' = Absent
    BY <1>2 DEF Scope, Isolated, ClearScope, DropCaches, Goto
  <2>3. Scoped'
    BY <2>1, <2>2 DEF Scoped, At, Ensuring, EnsurePlaces, Looping, OwnersAtHand
  <2> QED BY <2>2, <2>3 DEF ScopeInv, Isolated, IsolatedPlaces, EnsurePlaces
<1> QED BY <1>1, <1>2

LEMMA UnitBegins == ASSUME Inside, Outer \/ Collect PROVE ScopeInv'
<1> USE InsideIs
<1>1. Top = Asked
  BY DEF Top, Asked
<1>2. CASE Outer
  <2>1. LoadClass(Asked) /\ where' = "collect" /\ request' = request /\ loaded = {}
    BY <1>1, <1>2 DEF Outer, Goto, Stay, Scoped, At
  <2>2. Asked \in Located
    BY <1>1, <1>2, <2>1 DEF Outer, Answer
  <2>3. loaded' = {Asked} /\ linked' = loaded' /\ unmarked' = {} /\ analysis' = "Dirty"
    BY <2>1, <2>2, LoadScoped
  <2>4. OwnersAtHand'
    BY <1>2, <2>1, OwnersStay DEF Outer, SameCaches, cacheVars, Scoped
  <2>5. Scoped'
    BY <2>1, <2>3, <2>4 DEF Scoped, At, Ensuring, EnsurePlaces, Looping, Asked
  <2> QED BY <2>1, <2>5, ScopedStep DEF IsolatedPlaces, EnsurePlaces
<1>3. CASE Collect
  <2>1. /\ where' = "nested" /\ request' = request /\ UNCHANGED readerVars
        /\ loaded = {Asked} /\ analysis = "Dirty" /\ At("collect") /\ seen' = {Asked}
        /\ todo' = IF IncludeNested THEN MembersOf(Asked) ELSE {}
        /\ CollectCode(Asked, revision) /\ UNCHANGED cacheVars
    BY <1>1, <1>3 DEF Collect, Goto, Stay, Scoped, At, SameCaches
  <2>2. Collected = {}
    BY <2>1 DEF Inside, CodeInv, Fresh, At, NoCode, Collected
  <2>3. Collected' = {Asked}
    BY <2>1, <2>2, CollectedCode DEF Collected
  <2>4. MembersOf(Asked) = Members[Asked]
    BY <2>1 DEF MembersOf
  <2>5. IncludeNested => Unit \subseteq Classes /\ Asked \in Unit /\ Members[Asked] \subseteq Unit
    BY ScopeSets
  <2>6. ~IncludeNested => Unit = {Asked}
    BY DEF Unit, UnitOf
  <2>7. NestedFits'
    BY <2>1, <2>3, <2>4, <2>5, <2>6 DEF NestedFits, readerVars, graphVars, Asked, Unit
  <2>8. OwnersAtHand'
    BY <2>1, OwnersStay DEF cacheVars, Scoped
  <2>9. Scoped'
    BY <2>1, <2>7, <2>8
    DEF Scoped, At, Ensuring, EnsurePlaces, Looping, readerVars, graphVars
  <2> QED BY <2>1, <2>9, ScopedStep DEF IsolatedPlaces, EnsurePlaces
<1> QED BY <1>2, <1>3

LEMMA UnitGrows == ASSUME Inside, NEW n \in Classes, CollectNested(n) PROVE ScopeInv'
<1> USE InsideIs
<1>1. /\ At("nested") /\ where' = "nested" /\ request' = request
      /\ n \in todo \ seen /\ Answer(n) = "some" /\ LoadClass(n) /\ CollectCode(n, revision')
      /\ todo' = (todo \ {n}) \cup IF n \in linked' THEN Members[n] ELSE {}
      /\ seen' = seen \cup {n} /\ UNCHANGED cacheVars
  BY DEF CollectNested, Stay, SameCaches, At
<1>2. NestedFits /\ analysis = "Dirty"
  BY <1>1 DEF Scoped
<1>3. n \in Located
  BY <1>1, <1>2 DEF Answer, NestedFits
<1>4. loaded' = loaded \cup {n} /\ linked' = loaded' /\ unmarked' = {} /\ analysis' = "Dirty"
  BY <1>1, <1>2, <1>3, LoadScoped
<1>5. Collected' = Collected \cup {n}
  BY <1>1, CollectedCode DEF Collected
<1>6. IncludeNested /\ n \in Unit /\ Members[n] \subseteq Unit
  <2>1. IncludeNested /\ n \in Unit
    BY <1>1, <1>2 DEF NestedFits
  <2> QED BY <2>1, ScopeSets
<1>7. todo' = (todo \ {n}) \cup Members[n]
  BY <1>1, <1>4
<1>8. NestedFits'
  BY <1>1, <1>2, <1>4, <1>5, <1>6, <1>7 DEF NestedFits, Asked, Unit
<1>9. OwnersAtHand'
  BY <1>1, OwnersStay DEF cacheVars, Scoped
<1>10. Scoped'
  BY <1>1, <1>4, <1>8, <1>9 DEF Scoped, At, Ensuring, EnsurePlaces, Looping
<1> QED BY <1>1, <1>10, ScopedStep DEF IsolatedPlaces, EnsurePlaces

LEMMA NeedsBegin == ASSUME Inside, CollectNeeds PROVE ScopeInv'
<1> USE InsideIs
<1>1. /\ At("nested") /\ todo = {} /\ where' = "needs" /\ request' = request
      /\ todo' = NeedsOf(Collected) /\ seen' = {} /\ UNCHANGED <<readerVars, unit, cacheVars>>
  BY DEF CollectNeeds, Stay, SameCaches, At, Goto, NeedsOf
<1>2. NestedFits /\ analysis = "Dirty"
  BY <1>1 DEF Scoped
<1>3. loaded = Unit
  <2>1. CASE IncludeNested
    <3>1. ClosedUnder(seen, Members) /\ {Asked} \subseteq seen
      BY <1>1, <1>2, <2>1 DEF ClosedUnder, NestedFits
    <3>2. Unit \subseteq seen
      BY <2>1, <3>1, LeastIsLeast DEF Unit, UnitOf, RequestTypeOK
    <3> QED BY <1>2, <3>2 DEF NestedFits
  <2>2. CASE ~IncludeNested
    BY <1>2, <2>2 DEF NestedFits, Unit, UnitOf
  <2> QED BY <2>1, <2>2
<1>4. Collected = Unit /\ Collected' = Collected
  BY <1>1, <1>2, <1>3 DEF NestedFits, Collected
<1>5. NeedsOf(Unit) \subseteq NeededBy(Unit)
  BY <1>3, ArchiveAssumption, ContextAssumption, LeastCloses
  DEF NeededBy, NeedsOf, NeedsNext, ReaderInv, ReaderTypeOK
<1>6. NeedsFit'
  BY <1>1, <1>3, <1>4, <1>5 DEF NeedsFit, Unit, Asked, readerVars, graphVars
<1>7. OwnersAtHand'
  BY <1>1, OwnersStay DEF cacheVars, Scoped
<1>8. Scoped'
  BY <1>1, <1>2, <1>4, <1>6, <1>7
  DEF Scoped, At, Ensuring, EnsurePlaces, Looping, Unit, Asked, readerVars, graphVars
<1> QED BY <1>1, <1>8, ScopedStep DEF IsolatedPlaces, EnsurePlaces

LEMMA NeedsGrow == ASSUME Inside, NEW d \in Classes, LoadNeed(d) PROVE ScopeInv'
<1> USE InsideIs
<1>1. /\ At("needs") /\ where' = "needs" /\ request' = request
      /\ d \in todo /\ LoadClass(d) /\ seen' = seen \cup {d}
      /\ todo' = (todo \cup IF d \in loaded' THEN Parents[d] ELSE {}) \ seen'
      /\ UNCHANGED <<unit, cacheVars>>
  BY DEF LoadNeed, Stay, SameCaches, At
<1>2. NeedsFit /\ analysis = "Dirty"
  BY <1>1 DEF Scoped
<1>3. /\ loaded' = loaded \cup ({d} \cap Located) /\ linked' = loaded' /\ unmarked' = {}
      /\ analysis' = "Dirty"
  BY <1>1, <1>2, LoadScoped
<1>4. todo' = (todo \cup NeedsNext[d]) \ seen'
  BY <1>1, <1>3 DEF NeedsNext, ReaderInv, ReaderTypeOK
<1>5. NeedsNext[d] \subseteq NeededBy(Unit)
  <2>1. d \in NeededBy(Unit)
    BY <1>1, <1>2 DEF NeedsFit
  <2> QED BY <2>1, ScopeSets, LeastCloses DEF NeededBy
<1>6. seen' \cup todo' = seen \cup todo \cup NeedsNext[d]
  BY <1>1, <1>4
<1>7. NeedsFit'
  <2>1. loaded' = Unit \cup (seen' \cap Located)
    BY <1>1, <1>2, <1>3 DEF NeedsFit
  <2>2. seen' \cup todo' \subseteq NeededBy(Unit) /\ NeedsOf(Unit) \subseteq seen' \cup todo'
    BY <1>2, <1>5, <1>6 DEF NeedsFit
  <2>3. \A e \in seen' : NeedsNext[e] \subseteq seen' \cup todo'
    BY <1>1, <1>2, <1>6 DEF NeedsFit
  <2> QED BY <1>1, <2>1, <2>2, <2>3 DEF NeedsFit, Unit, Asked
<1>8. OwnersAtHand'
  BY <1>1, OwnersStay DEF cacheVars, Scoped
<1>9. Scoped'
  BY <1>1, <1>3, <1>7, <1>8
  DEF Scoped, At, Ensuring, EnsurePlaces, Looping, Unit, Asked, Collected
<1> QED BY <1>1, <1>9, ScopedStep DEF IsolatedPlaces, EnsurePlaces

LEMMA NeedsEnd == ASSUME Inside, NeedsLoaded PROVE ScopeInv'
<1> USE InsideIs
<1>1. /\ At("needs") /\ todo = {} /\ where' = "ensure" /\ after' = "roots" /\ request' = request
      /\ UNCHANGED <<readerVars, unit, cacheVars>>
  BY DEF NeedsLoaded, Stay, SameCaches, At, Goto
<1>2. NeedsFit /\ analysis = "Dirty"
  BY <1>1 DEF Scoped
<1>3. seen = NeededBy(Unit)
  <2>1. ClosedUnder(seen, NeedsNext)
    BY <1>1, <1>2 DEF NeedsFit, ClosedUnder
  <2>2. NeededBy(Unit) \subseteq seen
    BY <1>1, <1>2, <2>1, LeastIsLeast DEF NeedsFit, NeededBy, RequestTypeOK
  <2> QED BY <1>2, <2>2 DEF NeedsFit
<1>4. loaded = Needed(Asked)
  BY <1>2, <1>3 DEF NeedsFit, Needed, Unit
<1>5. EnsureFits(Needed(Asked))'
  BY <1>1, <1>4 DEF EnsureFits, At, Asked, readerVars, graphVars
<1>6. OwnersAtHand'
  BY <1>1, OwnersStay DEF cacheVars, Scoped
<1>7. Scoped'
  BY <1>1, <1>2, <1>5, <1>6
  DEF Scoped, At, Ensuring, EnsurePlaces, Looping, Unit, Asked, Collected, readerVars, graphVars
<1> QED BY <1>1, <1>7, ScopedStep DEF IsolatedPlaces, EnsurePlaces

-----------------------------------------------------------------------------
(* Termination.                                                            *)

LEMMA CallsBegin == ASSUME Inside, EnterTermination PROVE ScopeInv'
<1> USE InsideIs
<1>1. /\ At("roots") /\ where' = "terminate" /\ request' = request
      /\ SetRoots(ContractRoots(Collected)) /\ todo' = CallsOf(Collected) /\ seen' = {}
      /\ UNCHANGED <<readerVars, unit>>
  BY DEF EnterTermination, Stay, At, Goto, CallsOf
<1>2. Collected = Unit /\ loaded = Ensured(Needed(Asked)) /\ analysis = "Ready"
  BY <1>1 DEF Scoped, At
<1>3. CallsOf(Unit) \subseteq CalledBy(broken, Unit)
  BY ScopeSets, LeastCloses DEF CalledBy
<1>4. CalledFit'
  BY <1>1, <1>2, <1>3 DEF CalledFit, Unit, Asked, readerVars, graphVars, SetRoots
<1>5. OwnersAtHand'
  BY <1>1, <1>2, OwnersStay DEF Scoped
<1>6. Scoped'
  BY <1>1, <1>2, <1>4, <1>5
  DEF Scoped, At, Ensuring, EnsurePlaces, Looping, Unit, Asked, Collected, readerVars, graphVars
<1> QED BY <1>1, <1>6, ScopedStep DEF IsolatedPlaces, EnsurePlaces

LEMMA CallsGrow == ASSUME Inside, NEW t \in Classes, Callee(t) PROVE ScopeInv'
<1> USE InsideIs
<1>1. /\ At("terminate") /\ where' = "terminate" /\ request' = request
      /\ t \in todo /\ seen' = seen \cup {t} /\ UNCHANGED <<unit, cacheVars>>
  BY DEF Callee, Stay, SameCaches, At
<1>2. CalledFit /\ Collected = Unit
  BY <1>1 DEF Scoped, At
<1>3. loaded \subseteq Located \ broken
  BY DEF ReaderInv, ReaderTypeOK
<1>4. Unit \subseteq loaded
  <2>1. Unit \subseteq Ensured(Needed(Asked))
    <3> DEFINE A == Ancestors(Needed(Asked))
    <3>1. ParentsNext \in [Classes -> SUBSET Classes]
      BY ArchiveAssumption DEF ParentsNext
    <3>2. Needed(Asked) \subseteq A /\ A \in SUBSET Classes
      BY <3>1, ScopeSets, LeastCloses DEF Ancestors
    <3>3. A \subseteq Declared(A) /\ Declared(A) \in SUBSET Classes
      BY <3>2, ArchiveAssumption DEF Declared
    <3>4. Declared(A) \subseteq Ensured(Needed(Asked))
      BY <3>1, <3>3, LeastCloses DEF Ancestors, Ensured
    <3> QED BY <3>2, <3>3, <3>4 DEF Needed, Unit
  <2> QED BY <1>2, <2>1 DEF CalledFit
<1>5. t \in CalledBy(broken, Unit)
  BY <1>1, <1>2 DEF CalledFit
<1>6. CallsNext(broken)[t] \subseteq CalledBy(broken, Unit)
  BY <1>5, ScopeSets, LeastCloses DEF CalledBy
<1>7. CASE /\ t \in Collected \cup seen \/ Answer(t) # "some"
           /\ todo' = todo \ {t} /\ UNCHANGED readerVars
  <2>1. t \in Located \ broken => t \in Collected \cup seen
    BY <1>3, <1>7 DEF Answer
  <2>2. t \in Collected => t \in loaded
    BY <1>2, <1>4
  <2>3. loaded = Ensured(Needed(Asked)) \cup (seen' \cap (Located \ broken))
    BY <1>1, <1>2, <2>1, <2>2 DEF CalledFit
  <2>4. CallsNext(broken)[t] \subseteq seen \cup todo
    <3>1. CASE t \in seen
      BY <1>2, <3>1 DEF CalledFit
    <3>2. CASE t \in Collected
      <4>1. Callees[t] \subseteq CallsOf(Unit)
        BY <1>2, <3>2 DEF CallsOf
      <4> QED BY <1>2, <4>1 DEF CallsNext, CalledFit
    <3>3. CASE t \notin Located \ broken
      BY <3>3 DEF CallsNext
    <3> QED BY <2>1, <3>1, <3>2, <3>3
  <2>5. seen' \cup todo' = seen \cup todo
    BY <1>1, <1>7
  <2>6. \A u \in seen' : CallsNext(broken)[u] \subseteq seen' \cup todo'
    BY <1>1, <1>2, <2>4, <2>5 DEF CalledFit
  <2>7. CalledFit'
    BY <1>1, <1>2, <1>7, <2>3, <2>5, <2>6
    DEF CalledFit, Unit, Asked, readerVars, graphVars, cacheVars
  <2>8. OwnersAtHand'
    BY <1>1, OwnersStay DEF cacheVars, Scoped
  <2>9. Scoped'
    BY <1>1, <1>2, <1>7, <2>7, <2>8
    DEF Scoped, At, Ensuring, EnsurePlaces, Looping, Unit, Asked, Collected, readerVars, graphVars
  <2> QED BY <1>1, <2>9, ScopedStep DEF IsolatedPlaces, EnsurePlaces
<1>8. CASE t \notin Collected \cup seen /\ Answer(t) = "some" /\ LoadClass(t)
           /\ todo' = (todo \cup Callees[t]) \ {t}
  <2>1. t \in Located \ broken
    BY <1>3, <1>8, LoadScoped DEF Answer
  <2>2. /\ loaded' = loaded \cup {t} /\ linked' = loaded' /\ unmarked' = {} /\ broken' = broken
        /\ \/ loaded' = loaded /\ analysis' = analysis
           \/ loaded' # loaded /\ analysis' = "Dirty"
    BY <1>8, <2>1, LoadScoped
  <2>3. loaded' = Ensured(Needed(Asked)) \cup (seen' \cap (Located \ broken))
    BY <1>1, <1>2, <2>1, <2>2 DEF CalledFit
  <2>4. seen' \cup todo' = seen \cup todo \cup CallsNext(broken)[t]
    BY <1>1, <1>8, <2>1 DEF CallsNext
  <2>5. \A u \in seen' : CallsNext(broken)[u] \subseteq seen' \cup todo'
    BY <1>1, <1>2, <2>4 DEF CalledFit
  <2>6. analysis' = "Ready" <=> loaded' = Ensured(Needed(Asked))
    BY <1>2, <2>2 DEF CalledFit
  <2>7. CalledFit'
    BY <1>1, <1>2, <1>6, <2>2, <2>3, <2>4, <2>5, <2>6 DEF CalledFit, Unit, Asked, cacheVars
  <2>8. OwnersAtHand'
    BY <1>1, OwnersStay DEF cacheVars, Scoped
  <2>9. Scoped'
    BY <1>1, <1>2, <2>2, <2>7, <2>8
    DEF Scoped, At, Ensuring, EnsurePlaces, Looping, Unit, Asked, Collected
  <2> QED BY <1>1, <2>9, ScopedStep DEF IsolatedPlaces, EnsurePlaces
<1> QED BY <1>7, <1>8 DEF Callee

LEMMA CallsEnd == ASSUME Inside, Terminate PROVE ScopeInv'
<1> USE InsideIs
<1>1. /\ At("terminate") /\ todo = {} /\ where' = "prepare" /\ request' = request
      /\ unit' = Ended(unit) /\ UNCHANGED <<readerVars, cacheVars>>
  BY DEF Terminate, Stay, SameCaches, At, Goto
<1>2. CalledFit /\ Collected = Unit
  BY <1>1 DEF Scoped, At
<1>3. seen = CalledBy(broken, Unit)
  <2>1. ClosedUnder(seen, CallsNext(broken))
    BY <1>1, <1>2 DEF CalledFit, ClosedUnder
  <2>2. CalledBy(broken, Unit) \subseteq seen
    BY <1>1, <1>2, <2>1, LeastIsLeast DEF CalledFit, CalledBy, RequestTypeOK
  <2> QED BY <1>2, <2>2 DEF CalledFit
<1>4. loaded = Solved(broken, Asked)
  BY <1>2, <1>3 DEF CalledFit, Solved, Unit
<1>5. analysis = "Ready" <=> loaded = Ensured(Needed(Asked))
  BY <1>2 DEF CalledFit
<1> DEFINE x == FirstStop(broken, Asked)
<1>6. x \in Trail(broken, Asked, request.languages)
  BY TrailStarts
<1>7. x.at = "prepare" /\ x.of = loaded /\ (x.ready <=> analysis = "Ready")
  BY <1>4, <1>5 DEF FirstStop
<1>8. \E y \in Trail(broken, Asked, request.languages) :
        y.at = "prepare" /\ y.of = loaded /\ (y.ready <=> analysis = "Ready")
  BY <1>6, <1>7
<1>9. (\E y \in Trail(broken, Asked, request.languages) : LoopAt(y))'
  BY <1>1, <1>8
  DEF LoopAt, StopsAt, At, Ensuring, EnsurePlaces, Asked, readerVars, graphVars
<1>10. Collected' = Collected
  BY <1>1, AbsentAssumption DEF Collected, Ended, CodeTypeOK, Bodies
<1>11. OwnersAtHand'
  BY <1>1, OwnersStay DEF cacheVars, Scoped
<1>12. Scoped'
  BY <1>1, <1>2, <1>9, <1>10, <1>11
  DEF Scoped, At, Ensuring, EnsurePlaces, Looping, Unit, Asked, readerVars, graphVars, cacheVars,
      CalledFit
<1> QED BY <1>1, <1>12, ScopedStep DEF IsolatedPlaces, EnsurePlaces

-----------------------------------------------------------------------------
(* The analysis of overrides.                                              *)

LEMMA EnsuredSets ==
  ASSUME NEW B \in SUBSET Classes
  PROVE  /\ B \subseteq Ancestors(B) /\ Ancestors(B) \in SUBSET Classes
         /\ ClosedUnder(Ancestors(B), ParentsNext)
         /\ Ancestors(B) \subseteq Declared(Ancestors(B))
         /\ Declared(Ancestors(B)) \in SUBSET Classes
         /\ Declared(Ancestors(B)) \subseteq Ensured(B)
         /\ ClosedUnder(Ensured(B), ParentsNext)
<1>1. ParentsNext \in [Classes -> SUBSET Classes]
  BY ArchiveAssumption DEF ParentsNext
<1>2. /\ B \subseteq Ancestors(B) /\ Ancestors(B) \in SUBSET Classes
      /\ ClosedUnder(Ancestors(B), ParentsNext)
  BY <1>1, LeastCloses DEF Ancestors, ClosedUnder
<1>3. Ancestors(B) \subseteq Declared(Ancestors(B)) /\ Declared(Ancestors(B)) \in SUBSET Classes
  BY <1>2, ArchiveAssumption DEF Declared
<1>4. /\ Declared(Ancestors(B)) \subseteq Ensured(B)
      /\ ClosedUnder(Ensured(B), ParentsNext)
  BY <1>1, <1>3, LeastCloses DEF Ensured, Ancestors, ClosedUnder
<1> QED BY <1>2, <1>3, <1>4

\* A parent is in every set that holds what is loaded and is closed.
LEMMA OrphanIsIn ==
  ASSUME NEW S \in SUBSET Classes, loaded \subseteq S, ClosedUnder(S, ParentsNext),
         NEW p \in Orphaned
  PROVE  p \in S
BY ArchiveAssumption DEF Orphaned, ClosedUnder, ParentsNext

\* Where no parent is missing, what is loaded is closed.
LEMMA NoOrphans ==
  ASSUME ReaderInv, Orphaned = {}, NEW B \in SUBSET loaded
  PROVE  Ancestors(B) \subseteq loaded
<1>1. loaded \in SUBSET Classes
  BY ArchiveAssumption DEF ReaderInv, ReaderTypeOK
<1>2. ClosedUnder(loaded, ParentsNext)
  BY <1>1 DEF Orphaned, ClosedUnder, ParentsNext
<1> QED BY <1>1, <1>2, LeastIsLeast DEF Ancestors

\* The analysis goes on, ...
EnsureGoesOn(B) ==
  /\ where' \in EnsurePlaces /\ after' = after /\ EnsureFits(B)'
  /\ linked' = loaded' /\ unmarked' = {} /\ broken' = broken /\ analysis' = analysis
  /\ Since(B) => Since(B)'

\* ... or is there.
EnsureIsDone(B) ==
  /\ where' = after /\ analysis' = "Ready" /\ linked' = loaded' /\ unmarked' = {}
  /\ UNCHANGED <<loaded, revision, broken>>
  /\ loaded = IF analysis = "Ready" THEN B ELSE Ensured(B)

LEMMA EnsureKeeps ==
  ASSUME ReaderInv, RequestTypeOK, linked = loaded /\ unmarked = {}, EnsureStep,
         NEW B \in SUBSET Classes, EnsureFits(B)
  PROVE  EnsureGoesOn(B) \/ EnsureIsDone(B)
<1> USE DEF At
<1>1. began' = began
  BY DEF EnsureStep, Ensure, HierarchyClosed, MembersLoaded, Analyse, LoadParent, LoadMember,
         OnlyReader
<1>2. CASE Ensure
  <2>1. CASE analysis = "Ready"
    BY <1>2, <2>1 DEF Ensure, Goto, EnsureIsDone, EnsureFits, readerVars, graphVars
  <2>2. CASE analysis # "Ready"
    <3>1. where' = "closure" /\ after' = after /\ UNCHANGED readerVars /\ loaded = B
      BY <1>2, <2>2 DEF Ensure, Goto, EnsureFits
    <3>2. analysis = "Dirty"
      BY <2>2 DEF ReaderInv, ReaderTypeOK
    <3>3. EnsureFits(B)'
      BY <3>1, <3>2, EnsuredSets DEF EnsureFits, readerVars, graphVars
    <3> QED
      BY <1>1, <3>1, <3>3 DEF EnsureGoesOn, EnsurePlaces, Since, readerVars, graphVars
  <2> QED BY <2>1, <2>2
<1>3. ASSUME NEW p \in Classes, LoadParent(p) PROVE EnsureGoesOn(B)
  <2>1. /\ where \in {"closure", "closureAgain"} /\ p \in Orphaned /\ LoadClass(p)
        /\ UNCHANGED <<where, todo, after>>
    BY <1>3 DEF LoadParent
  <2>2. analysis = "Dirty" /\ B \subseteq loaded
    BY <2>1 DEF EnsureFits
  <2>3. /\ loaded' = loaded \cup {p} /\ linked' = loaded' /\ unmarked' = {}
        /\ analysis' = "Dirty" /\ broken' = broken
    BY <2>1, <2>2, LoadScoped DEF Orphaned
  <2>4. where = "closure" => p \in Ancestors(B)
    BY <2>1, EnsuredSets, OrphanIsIn DEF EnsureFits
  <2>5. where = "closureAgain" => p \in Ensured(B)
    BY <2>1, EnsuredSets, OrphanIsIn DEF EnsureFits, Ensured, Ancestors, Least
  <2>6. EnsureFits(B)'
    BY <2>1, <2>2, <2>3, <2>4, <2>5 DEF EnsureFits
  <2> QED BY <1>1, <2>1, <2>2, <2>3, <2>6, LoadSince DEF EnsureGoesOn, EnsurePlaces
<1>4. CASE HierarchyClosed
  <2>1. Orphaned = {} /\ UNCHANGED <<readerVars, after>>
    BY <1>4 DEF HierarchyClosed
  <2>2. CASE where = "closure" /\ where' = "members" /\ todo' = Undeclared
    <3>1. analysis = "Dirty" /\ loaded = Ancestors(B)
      BY <2>1, <2>2, NoOrphans DEF EnsureFits
    <3>2. Undeclared = (UNION {Members[c] : c \in loaded}) \ loaded
      BY DEF Undeclared, MembersOf
    <3>3. EnsureFits(B)'
      BY <2>1, <2>2, <3>1, <3>2, EnsuredSets DEF EnsureFits, Declared, readerVars, graphVars
    <3> QED
      BY <1>1, <2>1, <2>2, <3>3 DEF EnsureGoesOn, EnsurePlaces, Since, readerVars, graphVars
  <2>3. CASE where = "closureAgain" /\ where' = "analyse"
    <3>1. analysis = "Dirty" /\ loaded = Ensured(B)
      BY <2>1, <2>3, NoOrphans DEF EnsureFits, Ensured
    <3>2. EnsureFits(B)'
      BY <2>1, <2>3, <3>1 DEF EnsureFits, readerVars, graphVars
    <3> QED
      BY <1>1, <2>1, <2>3, <3>2 DEF EnsureGoesOn, EnsurePlaces, Since, readerVars, graphVars
  <2> QED BY <1>4, <2>2, <2>3 DEF HierarchyClosed, Goto
<1>5. ASSUME NEW m \in Classes, LoadMember(m) PROVE EnsureGoesOn(B)
  <2>1. /\ where = "members" /\ m \in todo /\ LoadClass(m) /\ todo' = todo \ {m}
        /\ UNCHANGED <<where, after>>
    BY <1>5 DEF LoadMember
  <2>2. analysis = "Dirty" /\ B \subseteq loaded
    BY <2>1 DEF EnsureFits
  <2>3. /\ loaded' = loaded \cup ({m} \cap Located) /\ linked' = loaded' /\ unmarked' = {}
        /\ analysis' = "Dirty" /\ broken' = broken
    BY <2>1, <2>2, LoadScoped
  <2>4. Declared(Ancestors(B)) \subseteq Located \cup B
    <3>1. Ancestors(B) \subseteq loaded /\ loaded \subseteq Located
      BY <2>1 DEF EnsureFits, ReaderInv, ReaderTypeOK
    <3> QED BY <3>1 DEF Declared
  <2>5. EnsureFits(B)'
    BY <2>1, <2>2, <2>3, <2>4 DEF EnsureFits
  <2> QED BY <1>1, <2>1, <2>2, <2>3, <2>5, LoadSince DEF EnsureGoesOn, EnsurePlaces
<1>6. CASE MembersLoaded
  <2>1. /\ where = "members" /\ where' = "closureAgain" /\ todo = {}
        /\ UNCHANGED <<readerVars, after>>
    BY <1>6 DEF MembersLoaded, Goto
  <2>2. analysis = "Dirty" /\ loaded = Declared(Ancestors(B)) /\ B \subseteq loaded
    BY <2>1 DEF EnsureFits
  <2>3. EnsureFits(B)'
    BY <2>1, <2>2, EnsuredSets DEF EnsureFits, readerVars, graphVars
  <2> QED
    BY <1>1, <2>1, <2>3 DEF EnsureGoesOn, EnsurePlaces, Since, readerVars, graphVars
<1>7. CASE Analyse
  <2>1. /\ where = "analyse" /\ where' = after /\ analysis' = "Ready"
        /\ UNCHANGED <<loaded, linked, unmarked, revision, broken>>
    BY <1>7 DEF Analyse, AnalyseOverrides, Goto
  <2>2. analysis = "Dirty" /\ loaded = Ensured(B)
    BY <2>1 DEF EnsureFits
  <2> QED BY <2>1, <2>2 DEF EnsureIsDone
<1> QED BY <1>2, <1>3, <1>4, <1>5, <1>6, <1>7 DEF EnsureStep

LEMMA EnsureScope == ASSUME Inside, EnsureStep PROVE ScopeInv'
<1> USE InsideIs
<1>1. request' = request /\ UNCHANGED <<unit, cacheVars, began>> /\ where \in EnsurePlaces
  BY DEF EnsureStep, Ensure, HierarchyClosed, MembersLoaded, Analyse, LoadParent, LoadMember,
         OnlyReader, Stay, SameCaches, At, EnsurePlaces
<1>2. UNCHANGED <<Asked, Unit, Collected>>
  BY <1>1 DEF Asked, Unit, Collected
<1>3. OwnersAtHand'
  BY <1>1, OwnersStay DEF cacheVars, Scoped
<1>4. Collected = Unit
  BY <1>1 DEF Scoped, EnsurePlaces
<1>5. CASE after = "roots"
  <2>1. PICK B \in SUBSET Classes : B = Needed(Asked)
    BY ScopeSets
  <2>2. EnsureFits(B) /\ analysis = "Dirty"
    BY <1>1, <1>5, <2>1 DEF Scoped, Ensuring
  <2>3. B = Needed(Asked)'
    BY <1>2, <2>1
  <2>4. CASE EnsureGoesOn(B)
    <3>1. EnsureFits(Needed(Asked))' /\ analysis' = "Dirty"
      BY <2>2, <2>3, <2>4 DEF EnsureGoesOn, EnsureFits, Asked
    <3>2. Scoped'
      BY <1>2, <1>3, <1>4, <1>5, <2>4, <3>1
      DEF Scoped, At, Ensuring, EnsurePlaces, Looping, EnsureGoesOn
    <3> QED BY <1>1, <1>5, <2>4, <3>2, ScopedStep DEF EnsureGoesOn, IsolatedPlaces
  <2>5. CASE EnsureIsDone(B)
    <3>1. Scoped'
      BY <1>2, <1>3, <1>4, <1>5, <2>1, <2>2, <2>3, <2>5
      DEF Scoped, At, Ensuring, EnsurePlaces, Looping, EnsureIsDone
    <3> QED
      BY <1>1, <1>5, <2>5, <3>1, ScopedStep DEF EnsureIsDone, IsolatedPlaces, EnsurePlaces
  <2> QED BY <2>2, <2>4, <2>5, EnsureKeeps
<1>6. CASE after = "context"
  <2>1. PICK x \in Trail(broken, Asked, request.languages) : LoopAt(x)
    BY <1>1, <1>6 DEF Scoped, Looping, Ensuring
  <2>2. x \in Stops /\ x.of \in SUBSET Classes
    <3>1. x \in Stops
      BY <2>1, TrailStarts
    <3> QED BY <3>1 DEF Stops
  <2>3. /\ x.at = "prepare" /\ Since(x.of) /\ EnsureFits(x.of)
        /\ x.ready <=> analysis = "Ready"
    BY <1>1, <1>6, <2>1 DEF LoopAt, Ensuring
  <2>4. roots' = ContractRoots(Unit')
    BY <1>1, <1>2, <1>6 DEF Scoped, Looping, Ensuring, cacheVars
  <2>5. CASE EnsureGoesOn(x.of)
    <3>1. Ensuring({"context"})' /\ ~(where' \in {"prepare", "context", "kotlin", "kotlinDeps",
                                     "stable", "hierarchy", "render"})
      BY <1>6, <2>5 DEF EnsureGoesOn, Ensuring, EnsurePlaces
    <3>2. LoopAt(x)'
      BY <2>3, <2>5, <3>1 DEF LoopAt, EnsureGoesOn, At
    <3>3. x \in Trail(broken, Asked, request.languages)'
      BY <1>1, <1>2, <2>1, <2>5 DEF EnsureGoesOn
    <3>4. Scoped'
      BY <1>2, <1>3, <1>4, <1>6, <2>4, <2>5, <3>2, <3>3
      DEF Scoped, At, Ensuring, EnsurePlaces, EnsureGoesOn
    <3> QED BY <1>1, <1>6, <2>5, <3>4, ScopedStep DEF EnsureGoesOn, IsolatedPlaces
  <2>6. CASE EnsureIsDone(x.of)
    <3> DEFINE y == Ahead(Asked, request.languages, x)
    <3>1. y \in Trail(broken, Asked, request.languages)
      BY <2>1, TrailStarts
    <3>2. /\ y.at = IF "kotlin" \in request.languages THEN "kotlin" ELSE "stable"
          /\ y.base = x.of /\ y.of = (IF x.ready THEN x.of ELSE Ensured(x.of)) /\ y.ready = TRUE
      BY <2>3 DEF Ahead
    <3>3. PICK z : z = y
      OBVIOUS
    <3> HIDE DEF y
    <3>4. Since(x.of)'
      BY <1>1, <2>3, <2>6 DEF Since, EnsureIsDone
    <3>5. StopsAt(z, IF "kotlin" \in request.languages THEN "kotlin" ELSE "stable")'
      BY <1>1, <2>3, <2>6, <3>2, <3>3, <3>4 DEF StopsAt, EnsureIsDone, Since
    <3>6. LoopAt(z)'
      BY <1>6, <2>6, <3>5 DEF LoopAt, EnsureIsDone, At, Ensuring, EnsurePlaces
    <3>7. z \in Trail(broken, Asked, request.languages)'
      BY <1>1, <1>2, <2>6, <3>1, <3>3 DEF EnsureIsDone
    <3>8. Scoped'
      BY <1>2, <1>3, <1>4, <1>6, <2>4, <2>6, <3>6, <3>7
      DEF Scoped, At, Ensuring, EnsurePlaces, EnsureIsDone
    <3> QED
      BY <1>1, <1>6, <2>6, <3>8, ScopedStep DEF EnsureIsDone, IsolatedPlaces, EnsurePlaces
  <2> QED BY <2>2, <2>3, <2>5, <2>6, EnsureKeeps
<1> QED BY <1>1, <1>5, <1>6

-----------------------------------------------------------------------------
(* The loop of prepare_source_backend.                                     *)

LEMMA LoopStep ==
  ASSUME Inside, Looping, request' = request, UNCHANGED <<unit, roots, broken>>,
         linked' = loaded' /\ unmarked' = {}, OwnersAtHand', Looping', where' \in IsolatedPlaces,
         where' \in {"kotlin", "kotlinDeps"} => seen' \cap Located \subseteq loaded',
         NEW x \in Trail(broken, Asked, request.languages), LoopAt(x)'
  PROVE  ScopeInv'
<1>1. UNCHANGED <<Asked, Unit, Collected>>
  BY DEF Asked, Unit, Collected
<1>2. x \in Trail(broken, Asked, request.languages)'
  BY <1>1
<1>3. Collected = Unit /\ roots = ContractRoots(Unit)
  BY InsideIs DEF Scoped, Looping, Ensuring, EnsurePlaces
<1>4. Scoped'
  BY <1>1, <1>2, <1>3 DEF Scoped, Looping, Ensuring, EnsurePlaces, At
<1>5. where' \in EnsurePlaces => after' = "context"
  BY DEF Looping, Ensuring, EnsurePlaces
<1> QED BY <1>4, <1>5, ScopedStep

LEMMA LoopPrepares == ASSUME Inside, Prepare \/ Prepared \/ TakeHierarchy PROVE ScopeInv'
<1> USE InsideIs
<1>1. /\ request' = request /\ UNCHANGED <<readerVars, unit, roots, kotlinAbi>>
      /\ where \in {"prepare", "stable", "hierarchy"}
  BY DEF Prepare, Prepared, TakeHierarchy, Stay, SameCaches, OnlyReader, cacheVars,
         frameVars, At
<1>2. PICK x \in Trail(broken, Asked, request.languages) : LoopAt(x)
  BY <1>1 DEF Scoped, Looping
<1>3. OwnersAtHand' /\ linked' = loaded' /\ unmarked' = {} /\ Looping
  BY <1>1, OwnersStay DEF Scoped, Looping, readerVars, graphVars
<1>4. CASE Prepare
  <2>1. /\ At("prepare") /\ where' = "ensure" /\ after' = "context" /\ began' = revision
    BY <1>4 DEF Prepare, Goto
  <2>2. StopsAt(x, "prepare")
    BY <1>2, <2>1 DEF LoopAt
  <2>3. LoopAt(x)'
    BY <1>1, <2>1, <2>2
    DEF LoopAt, StopsAt, Since, EnsureFits, At, Ensuring, EnsurePlaces, readerVars, graphVars,
        ReaderInv, ReaderTypeOK
  <2> QED
    BY <1>1, <1>2, <1>3, <2>1, <2>3, LoopStep
    DEF Looping, Ensuring, EnsurePlaces, IsolatedPlaces, readerVars, graphVars
<1>5. CASE Prepared
  <2>1. /\ At("stable") /\ where' = (IF revision = began THEN "hierarchy" ELSE "prepare")
        /\ began' = began
    BY <1>5 DEF Prepared, Goto, OnlyReader
  <2>2. StopsAt(x, "stable")
    BY <1>2, <2>1 DEF LoopAt
  <2>3. CASE revision = began
    <3>1. Ends(x) /\ x.of = loaded
      BY <2>2, <2>3 DEF StopsAt, Since, Ends
    <3>2. LoopAt(x)'
      BY <1>1, <2>1, <2>3, <3>1
      DEF LoopAt, At, Ensuring, EnsurePlaces, readerVars, graphVars
    <3> QED
      BY <1>1, <1>2, <1>3, <2>1, <2>3, <3>2, LoopStep
      DEF Looping, IsolatedPlaces, readerVars, graphVars
  <2>4. CASE revision # began
    <3>1. PICK y : y = Ahead(Asked, request.languages, x)
      OBVIOUS
    <3>2. y \in Trail(broken, Asked, request.languages)
      BY <1>2, <3>1, TrailStarts
    <3>3. x.base # x.of /\ x \in Stops
      BY <1>2, <2>2, <2>4, TrailStarts DEF StopsAt, Since
    <3>4. y.at = "prepare" /\ y.of = x.of /\ y.ready = x.ready
      BY <2>2, <3>1, <3>3 DEF Ahead, StopsAt, Stops
    <3>5. LoopAt(y)'
      BY <1>1, <2>1, <2>2, <2>4, <3>4
      DEF LoopAt, StopsAt, At, Ensuring, EnsurePlaces, readerVars, graphVars
    <3> QED
      BY <1>1, <1>3, <2>1, <2>4, <3>2, <3>5, LoopStep
      DEF Looping, IsolatedPlaces, readerVars, graphVars
  <2> QED BY <2>3, <2>4
<1>6. CASE TakeHierarchy
  <2>1. At("hierarchy") /\ where' = "render"
    BY <1>6 DEF TakeHierarchy, Goto
  <2>2. LoopAt(x)'
    BY <1>1, <1>2, <2>1
    DEF LoopAt, At, Ensuring, EnsurePlaces, readerVars, graphVars
  <2> QED
    BY <1>1, <1>2, <1>3, <2>1, <2>2, LoopStep
    DEF Looping, IsolatedPlaces, readerVars, graphVars
<1> QED BY <1>4, <1>5, <1>6

LEMMA LoopTakesContext == ASSUME Inside, PrepareContext PROVE ScopeInv'
<1> USE InsideIs
<1>1. /\ request' = request /\ UNCHANGED <<readerVars, unit, roots, kotlinAbi, began>>
      /\ At("context")
  BY DEF PrepareContext, PrepareJava, Stay, SameCaches, cacheVars, At
<1>2. PICK x \in Trail(broken, Asked, request.languages) : LoopAt(x)
  BY <1>1 DEF Scoped, Looping, At
<1>3. OwnersAtHand' /\ linked' = loaded' /\ unmarked' = {} /\ Looping
  BY <1>1, OwnersStay DEF Scoped, Looping, At, readerVars, graphVars
<1>4. \/ "kotlin" \notin request.languages /\ where' = "stable"
      \/ "kotlin" \in request.languages /\ where' = "kotlin" /\ seen' = {}
  BY DEF PrepareContext, Goto
<1>5. LoopAt(x)'
  BY <1>1, <1>2, <1>4
  DEF LoopAt, StopsAt, Since, At, Ensuring, EnsurePlaces, readerVars, graphVars
<1> QED
  BY <1>1, <1>2, <1>3, <1>4, <1>5, LoopStep DEF Looping, IsolatedPlaces, readerVars, graphVars

LEMMA OwnersBegin == ASSUME Inside, AnalyseKotlin PROVE ScopeInv'
<1> USE InsideIs
<1>1. /\ request' = request /\ UNCHANGED <<readerVars, unit, roots, kotlinAbi, began, seen>>
      /\ At("kotlin")
  BY DEF AnalyseKotlin, Stay, SameCaches, cacheVars, At
<1>2. PICK x \in Trail(broken, Asked, request.languages) : LoopAt(x)
  BY <1>1 DEF Scoped, Looping, At
<1>3. /\ OwnersAtHand' /\ linked' = loaded' /\ unmarked' = {}
      /\ Looping /\ roots = ContractRoots(Unit) /\ seen \cap Located \subseteq loaded
  BY <1>1, OwnersStay DEF Scoped, Looping, At, readerVars, graphVars
<1>4. StopsAt(x, "kotlin")
  BY <1>1, <1>2 DEF LoopAt
<1>5. CASE Current(kotlinAbi) /\ where' = "stable"
  <2>1. kotlinAbi.of = loaded
    <3>1. Sound(kotlinAbi, revision, loaded, Vouched) /\ kotlinAbi.revision = revision
      BY <1>5 DEF Current, Inside, RevisionInv, CachesInv
    <3>2. unmarked = {}
      OBVIOUS
    <3> QED BY <1>5, <3>1, <3>2 DEF Sound, Vouched, Current
  <2>2. WithOwners(Asked, loaded) = loaded
    BY <1>5, <2>1 DEF Current, OwnersAtHand, Scoped
  <2>3. PICK y : y = Ahead(Asked, request.languages, x)
    OBVIOUS
  <2>4. y \in Trail(broken, Asked, request.languages) /\ x \in Stops
    BY <1>2, <2>3, TrailStarts
  <2>5. y.at = "stable" /\ y.of = x.of /\ y.base = x.base /\ y.ready = x.ready
    BY <1>4, <2>2, <2>3, <2>4 DEF Ahead, StopsAt, Stops
  <2>6. LoopAt(y)'
    BY <1>1, <1>4, <1>5, <2>5
    DEF LoopAt, StopsAt, Since, At, Ensuring, EnsurePlaces, readerVars, graphVars
  <2> QED
    BY <1>1, <1>3, <1>5, <2>4, <2>6, LoopStep
    DEF Looping, IsolatedPlaces, readerVars, graphVars
<1>6. CASE /\ where' = "kotlinDeps" /\ draft' = Made
           /\ todo' = ContractOwners(loaded, roots) \ seen
  <2>1. draft' # Absent /\ draft'.of = loaded /\ draft'.revision = revision
    <3>1. Made \in Analyses
      BY ArchiveAssumption DEF Made, Analyses, ReaderInv, ReaderTypeOK
    <3> QED BY <1>6, <3>1, AbsentAssumption DEF Made
  <2>2. WithOwners(Asked, loaded) \subseteq loaded \cup todo'
    BY <1>3, <1>6 DEF WithOwners, Unit
  <2>3. todo' \cap Located \subseteq WithOwners(Asked, loaded)
    BY <1>3, <1>6 DEF WithOwners, Unit
  <2>4. loaded \subseteq WithOwners(Asked, loaded)
    BY DEF WithOwners
  <2>5. OwnersFit(x)'
    BY <1>1, <1>4, <2>1, <2>2, <2>3, <2>4
    DEF OwnersFit, StopsAt, Since, Asked, readerVars, graphVars, ReaderInv, ReaderTypeOK
  <2>6. LoopAt(x)'
    BY <1>6, <2>5 DEF LoopAt, At, Ensuring, EnsurePlaces
  <2> QED
    BY <1>1, <1>2, <1>3, <1>6, <2>6, LoopStep
    DEF Looping, IsolatedPlaces, readerVars, graphVars
<1> QED
  BY <1>5, <1>6 DEF AnalyseKotlin, KotlinGoal, Goto, Inside, CodeInv

LEMMA OwnersGrow == ASSUME Inside, NEW d \in Classes, LoadDependency(d) PROVE ScopeInv'
<1> USE InsideIs
<1>1. /\ At("kotlinDeps") /\ where' = "kotlinDeps" /\ request' = request
      /\ d \in todo /\ LoadClass(d) /\ todo' = todo \ {d} /\ seen' = seen \cup {d}
      /\ UNCHANGED <<unit, cacheVars, began, draft>>
  BY DEF LoadDependency, OnlyReader, Stay, SameCaches, At, IsolatedPlaces, EnsurePlaces
<1>2. PICK x \in Trail(broken, Asked, request.languages) : LoopAt(x)
  BY <1>1 DEF Scoped, Looping, At
<1>3. OwnersFit(x) /\ seen \cap Located \subseteq loaded
  BY <1>1, <1>2 DEF LoopAt, Scoped, At
<1>4. /\ loaded' = loaded \cup ({d} \cap Located) /\ linked' = loaded' /\ unmarked' = {}
      /\ broken' = broken
      /\ \/ loaded' = loaded /\ revision' = revision /\ analysis' = analysis
         \/ loaded' # loaded /\ revision' = revision + 1 /\ analysis' = "Dirty"
  BY <1>1, LoadScoped
<1>5. Since(x.base)'
  BY <1>1, <1>3, LoadSince DEF OwnersFit
<1>6. /\ x.of \subseteq loaded' /\ loaded' \subseteq WithOwners(Asked, x.of)
      /\ WithOwners(Asked, x.of) \subseteq loaded' \cup todo'
      /\ todo' \cap Located \subseteq WithOwners(Asked, x.of)
  <2>1. WithOwners(Asked, x.of) \subseteq Located
    BY <1>3 DEF WithOwners, OwnersFit, ReaderInv, ReaderTypeOK
  <2> QED BY <1>1, <1>3, <1>4, <2>1 DEF OwnersFit
<1>7. /\ draft.revision <= revision' /\ (draft.revision = revision' <=> loaded' = x.of)
      /\ analysis' = "Ready" <=> x.ready /\ loaded' = x.of
  <2>1. draft.revision \in Nat /\ revision \in Nat
    BY <1>3 DEF OwnersFit, CachesTypeOK, Caches, Analyses, ReaderInv, ReaderTypeOK
  <2>2. CASE loaded' = loaded /\ revision' = revision /\ analysis' = analysis
    BY <1>3, <2>2 DEF OwnersFit
  <2>3. CASE loaded' # loaded /\ revision' = revision + 1 /\ analysis' = "Dirty"
    <3>1. loaded' # x.of
      BY <1>3, <1>4, <2>3 DEF OwnersFit
    <3> QED BY <1>3, <2>1, <2>3, <3>1 DEF OwnersFit
  <2> QED BY <1>4, <2>2, <2>3
<1>8. OwnersFit(x)'
  BY <1>1, <1>3, <1>5, <1>6, <1>7 DEF OwnersFit, Asked
<1>9. LoopAt(x)'
  BY <1>1, <1>8 DEF LoopAt, At, Ensuring, EnsurePlaces
<1>10. OwnersAtHand' /\ Looping
  BY <1>1, OwnersStay DEF Scoped, Looping, At, cacheVars
<1>11. seen' \cap Located \subseteq loaded'
  BY <1>1, <1>3, <1>4
<1> QED
  BY <1>1, <1>2, <1>4, <1>9, <1>10, <1>11, LoopStep DEF Looping, IsolatedPlaces, cacheVars

LEMMA OwnersEnd == ASSUME Inside, DependenciesLoaded PROVE ScopeInv'
<1> USE InsideIs
<1>1. /\ At("kotlinDeps") /\ todo = {} /\ request' = request
      /\ EndKotlinRound(KotlinGoal) /\ UNCHANGED <<readerVars, unit, roots, began, seen>>
  BY DEF DependenciesLoaded, EndKotlinRound, Stay, SameCaches, cacheVars, At
<1>2. PICK x \in Trail(broken, Asked, request.languages) : LoopAt(x)
  BY <1>1 DEF Scoped, Looping, At
<1>3. /\ OwnersFit(x) /\ Looping /\ OwnersAtHand /\ roots = ContractRoots(Unit)
      /\ seen \cap Located \subseteq loaded
  BY <1>1, <1>2 DEF LoopAt, Scoped, Looping, At
<1>4. loaded = WithOwners(Asked, x.of)
  BY <1>1, <1>3 DEF OwnersFit
<1>5. PICK y : y = Ahead(Asked, request.languages, x)
  OBVIOUS
<1>6. y \in Trail(broken, Asked, request.languages) /\ x \in Stops
  BY <1>2, <1>5, TrailStarts
<1>7. CASE revision = draft.revision /\ kotlinAbi' = draft /\ where' = "stable"
  <2>1. loaded = x.of
    BY <1>3, <1>7 DEF OwnersFit
  <2>2. y.at = "stable" /\ y.of = x.of /\ y.base = x.base /\ y.ready = x.ready
    BY <1>3, <1>4, <1>5, <1>6, <2>1 DEF Ahead, OwnersFit, Stops
  <2>3. LoopAt(y)'
    BY <1>1, <1>3, <1>7, <2>1, <2>2
    DEF LoopAt, StopsAt, OwnersFit, Since, At, Ensuring, EnsurePlaces, readerVars, graphVars
  <2>4. OwnersAtHand'
    BY <1>1, <1>3, <1>4, <1>7, <2>1 DEF OwnersAtHand, OwnersFit, Unit, Asked
  <2> QED
    BY <1>1, <1>3, <1>6, <1>7, <2>3, <2>4, LoopStep
    DEF Looping, IsolatedPlaces, readerVars, graphVars
<1>8. CASE revision # draft.revision /\ SameCaches /\ where' = "kotlin"
  <2>1. loaded # x.of
    BY <1>3, <1>8 DEF OwnersFit
  <2>2. y.at = "kotlin" /\ y.of = loaded /\ y.base = x.base /\ y.ready = FALSE
    BY <1>3, <1>4, <1>5, <1>6, <2>1 DEF Ahead, OwnersFit, Stops
  <2>3. LoopAt(y)'
    BY <1>1, <1>3, <1>8, <2>1, <2>2
    DEF LoopAt, StopsAt, OwnersFit, Since, At, Ensuring, EnsurePlaces, readerVars, graphVars
  <2>4. OwnersAtHand'
    BY <1>1, <1>3, <1>8, OwnersStay DEF SameCaches, cacheVars
  <2> QED
    BY <1>1, <1>3, <1>6, <1>8, <2>3, <2>4, LoopStep
    DEF Looping, IsolatedPlaces, readerVars, graphVars
<1> QED
  BY <1>1, <1>7, <1>8 DEF EndKotlinRound, KotlinGoal, Goto, Inside, CodeInv

LEMMA ScopeNext ==
  RevisionInv /\ TypeInv /\ CodeInv /\ ScopeInv /\ [Next]_vars => ScopeInv'
<1> SUFFICES ASSUME RevisionInv, TypeInv, CodeInv, ScopeInv, [Next]_vars PROVE ScopeInv'
  OBVIOUS
<1>1. CASE Caller
  BY <1>1, CallerScope
<1>2. CASE Continue /\ ~Isolated
  BY <1>2, OthersScope
<1>3. CASE Continue /\ Isolated
  <2>1. where \in IsolatedPlaces /\ request.kind = "class" /\ job = Absent /\ ~retain
    BY <1>3 DEF ScopeInv, Isolated, TypeInv, ControlInv, CodeInv
  <2>2. CASE Load \/ Scope
    BY <1>3, <2>2, ScopeEntered
  <2>3. CASE FailRequest \/ Render
    <3>1. request' = NoRequest
      BY <2>3 DEF FailRequest, Render, ClearFrame
    <3> QED BY <3>1 DEF ScopeInv, Isolated, NoRequest
  <2>4. ~(ArchiveStep \/ SelectAllStep \/ FailJob \/ ArchiveDependenciesLoaded)
    BY <2>1
    DEF ArchiveStep, SelectNested, Retain, Prefetch, RootsBefore, JavaBefore,
        ArchiveTermination, KotlinFromArchive, ResolveArchive, EndJob, JobsDone,
        FinishHierarchy, FinishJava, Abandon, SelectClass, StartJob, SelectAllStep, NextDex,
        AllDefined, Selected, Define, FailJob, ArchiveDependenciesLoaded, IsolatedPlaces,
        EnsurePlaces, At
  <2>5. CASE UnitStep /\ ~(Load \/ Scope \/ Render)
    <3>1. where \notin {"load", "scope"}
      BY <2>5
      DEF UnitStep, Outer, Collect, CollectNeeds, NeedsLoaded, EnterTermination, Terminate,
          CollectNested, LoadNeed, Callee, Prepare, PrepareContext, Prepared, TakeHierarchy, At
    <3>2. Inside
      BY <1>3, <3>1 DEF Inside
    <3> QED
      BY <2>5, <3>2, UnitBegins, UnitGrows, NeedsBegin, NeedsGrow, NeedsEnd, CallsBegin,
         CallsGrow, CallsEnd, LoopPrepares, LoopTakesContext
      DEF UnitStep
  <2>6. CASE EnsureStep \/ KotlinStep
    <3>1. where \notin {"load", "scope"}
      BY <2>6
      DEF EnsureStep, Ensure, HierarchyClosed, MembersLoaded, Analyse, LoadParent, LoadMember,
          KotlinStep, AnalyseKotlin, DependenciesLoaded, ArchiveDependenciesLoaded,
          LoadDependency, At
    <3>2. Inside
      BY <1>3, <3>1 DEF Inside
    <3> QED
      BY <2>4, <2>6, <3>2, EnsureScope, OwnersBegin, OwnersGrow, OwnersEnd DEF KotlinStep
  <2> QED BY <1>3, <2>2, <2>3, <2>4, <2>5, <2>6 DEF Continue
<1>4. CASE UNCHANGED vars
  <2>1. UNCHANGED <<readerVars, cacheVars, request, where, after, unit, todo, seen, began, draft>>
    BY <1>4 DEF vars, frameVars
  <2>2. UNCHANGED <<Asked, Unit, Collected, Isolated>>
    BY <2>1 DEF Asked, Unit, Collected, Isolated
  <2>3. CASE ~Isolated \/ where \in {"load", "scope"}
    BY <2>1, <2>2, <2>3 DEF ScopeInv
  <2>4. CASE Isolated /\ where \notin {"load", "scope"}
    <3>1. Scoped
      BY <2>4 DEF ScopeInv
    <3>2. \A B : (EnsureFits(B) => EnsureFits(B)') /\ (Since(B) => Since(B)')
      BY <2>1 DEF EnsureFits, Since, At, readerVars, graphVars
    <3>3. ASSUME NEW x, LoopAt(x) PROVE LoopAt(x)'
      BY <2>1, <2>2, <3>2, <3>3
      DEF LoopAt, StopsAt, OwnersFit, Since, EnsureFits, Ensuring, At, readerVars, graphVars
    <3>4. Looping' = Looping /\ broken' = broken
      BY <2>1 DEF Looping, Ensuring, readerVars, graphVars
    <3>5. Looping => (\E x \in Trail(broken, Asked, request.languages) : LoopAt(x))'
      BY <2>1, <2>2, <3>1, <3>3, <3>4 DEF Scoped
    <3>6. EnsureFits(Needed(Asked)) => EnsureFits(Needed(Asked))'
      BY <2>1, <2>2 DEF EnsureFits, At, readerVars, graphVars
    <3>7. /\ NestedFits => NestedFits'
          /\ NeedsFit => NeedsFit'
          /\ CalledFit => CalledFit'
          /\ OwnersAtHand'
      BY <2>1, <2>2, <3>1, OwnersStay
      DEF NestedFits, NeedsFit, CalledFit, Scoped, readerVars, graphVars, cacheVars
    <3>8. UNCHANGED <<loaded, linked, unmarked, analysis, roots, where, after, seen>>
      BY <2>1 DEF readerVars, graphVars, cacheVars
    <3>9. Scoped'
      <4>1. ASSUME Looping'
            PROVE  (\E x \in Trail(broken, Asked, request.languages) : LoopAt(x))'
                   /\ (roots = ContractRoots(Unit))'
        <5>1. Looping
          BY <3>4, <4>1
        <5>2. (roots = ContractRoots(Unit))'
          BY <2>2, <3>1, <3>8, <5>1 DEF Scoped
        <5> QED BY <3>5, <5>1, <5>2
      <4>2. ASSUME Ensuring({"roots"})'
            PROVE  EnsureFits(Needed(Asked))' /\ analysis' = "Dirty"
        <5>1. Ensuring({"roots"})
          BY <3>8, <4>2 DEF Ensuring
        <5> QED BY <3>1, <3>6, <3>8, <5>1 DEF Scoped
      <4>3. /\ At("outer")' = At("outer") /\ At("collect")' = At("collect")
            /\ At("nested")' = At("nested") /\ At("needs")' = At("needs")
            /\ At("roots")' = At("roots") /\ At("terminate")' = At("terminate")
        BY <3>8 DEF At
      <4>4. ASSUME At("nested")'
            PROVE  NestedFits' /\ analysis' = "Dirty"
        BY <3>1, <3>7, <3>8, <4>3, <4>4 DEF Scoped
      <4>5. ASSUME At("needs")'
            PROVE  NeedsFit' /\ analysis' = "Dirty"
        BY <3>1, <3>7, <3>8, <4>3, <4>5 DEF Scoped
      <4>6. ASSUME At("terminate")'
            PROVE  CalledFit'
        BY <3>1, <3>7, <4>3, <4>6 DEF Scoped
      <4>7. /\ At("roots")' => loaded' = Ensured(Needed(Asked'))  /\ analysis' = "Ready"
            /\ At("collect")' => loaded' = {Asked'} /\ analysis' = "Dirty"
            /\ At("outer")' => loaded' = {}
        BY <2>2, <3>1, <3>8 DEF Scoped, At
      <4>8. /\ linked' = loaded' /\ unmarked' = {}
            /\ where' \notin {"outer", "collect", "nested"} => Collected' = Unit'
            /\ where' \in {"kotlin", "kotlinDeps"} => seen' \cap Located \subseteq loaded'
        BY <2>2, <3>1, <3>8 DEF Scoped
      <4> QED BY <3>7, <4>1, <4>2, <4>4, <4>5, <4>6, <4>7, <4>8 DEF Scoped
    <3> QED BY <2>1, <2>2, <2>4, <3>9 DEF ScopeInv
  <2> QED BY <2>3, <2>4
<1> QED BY <1>1, <1>2, <1>3, <1>4 DEF Next

-----------------------------------------------------------------------------
(* What has been rendered before.                                          *)

LEMMA FirstNext ==
  /\ RevisionInv /\ TypeInv /\ CodeInv /\ ScopeInv /\ FirstInv /\ [Next]_vars
  => FirstInv'
<1> SUFFICES ASSUME RevisionInv, TypeInv, CodeInv, ScopeInv, FirstInv, [Next]_vars
             PROVE  FirstInv'
  OBVIOUS
<1>1. broken' = broken
  BY ReaderNext DEF RevisionInv, ReaderStep
<1>2. CASE first' = first
  BY <1>1, <1>2 DEF FirstInv
<1>3. CASE Render /\ request.isolated
  <2>1. Isolated /\ Inside /\ At("render")
    BY <1>3 DEF Render, ScopeInv, Isolated, Inside, At
  <2>2. PICK x \in Trail(broken, Asked, request.languages) : Ends(x) /\ x.of = loaded
    BY <2>1, InsideIs DEF Scoped, Looping, LoopAt, At
  <2>3. PICK l \in Languages : request.languages = {l}
    BY <2>1, InsideIs
  <2>4. first' = [k \in DOMAIN first |->
                    IF k \in request.languages \X {request.class} THEN loaded ELSE first[k]]
    BY <1>3 DEF Render
  <2>5. DOMAIN first = Languages \X Classes
    BY DEF TypeInv, StateTypes, RequestTypeOK
  <2>6. ASSUME NEW m \in Languages, NEW c \in Classes, first'[<<m, c>>] # Absent
        PROVE  \E y \in Trail(broken, c, {m}) : Ends(y) /\ y.of = first'[<<m, c>>]
    <3>1. CASE m = l /\ c = Asked
      BY <2>2, <2>3, <2>4, <2>5, <3>1 DEF Asked
    <3>2. CASE ~(m = l /\ c = Asked)
      <4>1. first'[<<m, c>>] = first[<<m, c>>]
        BY <2>3, <2>4, <2>5, <3>2 DEF Asked
      <4> QED BY <2>6, <4>1 DEF FirstInv
    <3> QED BY <3>1, <3>2
  <2> QED BY <1>1, <2>6 DEF FirstInv
<1>4. first' = first \/ (Render /\ request.isolated)
  <2>1. CASE Caller
    BY <2>1
    DEF Caller, BeginClass, BeginMethod, BeginOutline, BeginBatch, BeginAll, Begin,
        ClearBetween, TakeReader, historyVars
  <2>2. CASE UnitStep
    BY <2>2
    DEF UnitStep, Load, Scope, Outer, Collect, CollectNeeds, NeedsLoaded, EnterTermination,
        Terminate, CollectNested, LoadNeed, Callee, Prepare, PrepareContext, Prepared,
        TakeHierarchy, Render, Stay, ClearFrame, OnlyReader, historyVars
  <2>3. CASE EnsureStep \/ KotlinStep
    BY <2>3
    DEF EnsureStep, Ensure, HierarchyClosed, MembersLoaded, Analyse, LoadParent, LoadMember,
        KotlinStep, AnalyseKotlin, DependenciesLoaded, ArchiveDependenciesLoaded,
        LoadDependency, Stay, OnlyReader, historyVars
  <2>4. CASE ArchiveStep
    BY <2>4
    DEF ArchiveStep, SelectNested, Retain, Prefetch, RootsBefore, JavaBefore,
        ArchiveTermination, KotlinFromArchive, ResolveArchive, EndJob, JobsDone,
        FinishHierarchy, FinishJava, Abandon, SelectClass, StartJob, Stay, OnlyReader,
        historyVars
  <2>5. CASE SelectAllStep \/ FailJob \/ FailRequest
    BY <2>5
    DEF SelectAllStep, NextDex, AllDefined, Selected, Define, FailJob, FailRequest, Stay,
        OnlyReader, historyVars
  <2>6. CASE UNCHANGED vars
    BY <2>6 DEF vars, historyVars
  <2> QED BY <2>1, <2>2, <2>3, <2>4, <2>5, <2>6 DEF Next, Continue
<1> QED BY <1>2, <1>3, <1>4

LEMMA RepeatInit == Init => ScopeInv /\ FirstInv
BY DEF Init, ScopeInv, Isolated, NoRequest, FirstInv

(***************************************************************************)
(* An isolated request renders a class from the same class graph each      *)
(* time, for any archive, whatever was asked, loaded, abandoned or failed  *)
(* before it, and in whatever order its own classes come in.               *)
(***************************************************************************)
THEOREM RepeatSafety == Spec => []IsolatedRendersRepeat
<1> DEFINE Inv == RevisionInv /\ TypeInv /\ CodeInv /\ ScopeInv /\ FirstInv
<1>1. Init => Inv
  BY RevisionInit, TypesInit, CodeInit, RepeatInit
<1>2. Inv /\ [Next]_vars => Inv'
  BY RevisionNext, TypesNext, CodeNext, ScopeNext, FirstNext
<1>3. Inv => IsolatedRendersRepeat
  <2> SUFFICES ASSUME Inv, At("render"), request.isolated, NEW l \in request.languages,
                      first[<<l, request.class>>] # Absent
               PROVE  first[<<l, request.class>>] = loaded
    BY DEF IsolatedRendersRepeat
  <2>1. Inside
    BY DEF Inside, ScopeInv, Isolated, At
  <2>2. Asked \in Classes /\ l \in Languages /\ request.languages = {l}
    BY <2>1, InsideIs
  <2>3. PICK x \in Trail(broken, Asked, {l}) : Ends(x) /\ x.of = loaded
    BY <2>1, <2>2, InsideIs DEF Scoped, Looping, LoopAt, At
  <2>4. PICK y \in Trail(broken, Asked, {l}) : Ends(y) /\ y.of = first[<<l, Asked>>]
    BY <2>2 DEF FirstInv, Asked
  <2>5. x = y
    BY <2>2, <2>3, <2>4, OneEnd
  <2> QED BY <2>3, <2>4, <2>5 DEF Asked
<1> QED BY <1>1, <1>2, <1>3, PTL DEF Spec
=============================================================================
