----------------------------- MODULE Documents -----------------------------
(***************************************************************************)
(* The class documents of the workspace store (state/workspace.ts): what a *)
(* click on a class, a tab or a panel does to the cache of decompiled      *)
(* documents, to the editor layout and to the requests under way, and what *)
(* their answers do, whenever they come.                                   *)
(*                                                                         *)
(* page is the part of the store these handlers use, and the calls of the  *)
(* service that have not been answered.  A handler runs without            *)
(* interruption up to its next await, so handlers are functions from pages *)
(* to pages and may call each other, as selectClass is called by others.   *)
(* Resources, navigation, history and the text of documents are left out.  *)
(***************************************************************************)
EXTENDS EditorLayout, FiniteSets

CONSTANTS
  Classes,        \* the classes of an archive
  Written,        \* the language each is written in
  Preferences,    \* the settings of the output language, "auto" among them
  DocumentLimit,  \* DOCUMENT_LIMIT
  ClosedLimit,    \* CLOSED_TABS_LIMIT
  Ops,            \* the operations the user performs
  MaxActs,        \* bound: operations performed, all together
  MaxCalls,       \* bound: calls under way at a time
  MaxGroups,      \* bound: editor groups ever created
  MaxSessions     \* bound: archives opened

ASSUME DocumentsAssumption ==
  /\ Null \notin Classes
  /\ "java" \in Preferences /\ Preferences \subseteq {"auto", "java", "kotlin"}
  /\ Written \in [Classes -> {"java", "kotlin"}]
  /\ DocumentLimit \in Nat \ {0} /\ ClosedLimit \in Nat \ {0}
  /\ MaxActs \in Nat /\ MaxCalls \in Nat /\ MaxGroups \in Nat /\ MaxSessions \in Nat \ {0}

VARIABLES page, acts
docVars == <<page, acts>>

\* The references panel; of and asked are history: the search that filled it
\* and the one it was opened for.
NoReferences == [sequence |-> 0, state |-> "none", asked |-> 0, of |-> 0]

\* The search whose activity is running, which its scope "references" names.
NoSearch == [session |-> 0, id |-> 0, sequence |-> 0]

\* What a newly shown archive starts with.
Fresh(p, session, requestId) ==
  [p EXCEPT !.session = session, !.requestId = requestId,
            !.documents = <<>>, !.closedTabs = <<>>, !.pinned = {},
            !.layout = EmptyLayout, !.active = Null, !.loading = Null,
            !.detected = [d \in Classes |-> Null],
            !.peek = Null, !.peeking = FALSE, !.references = NoReferences,
            !.problems = {}, !.overtaken = FALSE, !.untrimmed = {}]

\* Two more are history: overtaken, that the peek view took the request id of
\* the class that loads; untrimmed, the classes that lost their pin since
\* documents were last trimmed.
DocumentsInit ==
  /\ page = [session |-> 1, requestId |-> 0,
             documents |-> <<>>, closedTabs |-> <<>>, pinned |-> {},
             layout |-> EmptyLayout, active |-> Null, loading |-> Null,
             preference |-> "java", detected |-> [d \in Classes |-> Null],
             stale |-> {},
             peek |-> Null, peeking |-> FALSE,
             references |-> NoReferences, search |-> NoSearch,
             problems |-> {}, opening |-> FALSE,
             overtaken |-> FALSE, untrimmed |-> {},
             lastSession |-> 1, calls |-> {}]
  /\ acts = 0

----------------------------------------------------------------------------
\* The cache.

ClassesOf(docs) == {docs[i].class : i \in DOMAIN docs}

Others(docs, D) == Picked(docs, {i \in DOMAIN docs : docs[i].class \notin D})
Among(docs, D) == Picked(docs, {i \in DOMAIN docs : docs[i].class \in D})

\* documentLanguage: Null as long as "auto" has not been answered.
DocumentLanguage(p, d) ==
  IF p.preference = "auto" THEN p.detected[d] ELSE p.preference

Cached(p, d) ==
  \E i \in DOMAIN p.documents :
    p.documents[i].class = d /\ p.documents[i].language = DocumentLanguage(p, d)

\* trimDocuments: the oldest documents go, those that are pinned excepted.
Trim(docs, pinned) ==
  LET loose == Others(docs, pinned)
      excess == Len(loose) - DocumentLimit
  IN IF excess <= 0 THEN docs
     ELSE Others(docs, ClassesOf(SubSeq(loose, 1, excess)))

LastTabs(docs) ==
  IF Len(docs) <= ClosedLimit THEN docs
  ELSE SubSeq(docs, Len(docs) - ClosedLimit + 1, Len(docs))

----------------------------------------------------------------------------
\* Calls of the service.

Call(p, kind, d) ==
  [kind |-> kind, session |-> p.session, id |-> p.requestId + 1, class |-> d,
   language |-> p.preference, sequence |-> 0,
   phase |-> "fetch", cancelled |-> FALSE]

Issue(p, kind, d) ==
  [p EXCEPT !.requestId = @ + 1, !.calls = @ \cup {Call(p, kind, d)}]

\* cancelRequest: what is under way as request id may answer, or be stopped.
CancelCall(p, session, id) ==
  LET named(c) == c.session = session /\ c.id = id
  IN [p EXCEPT !.calls = {IF named(c) THEN [c EXCEPT !.cancelled = TRUE] ELSE c
                          : c \in p.calls}]

Drop(p, c) == [p EXCEPT !.calls = @ \ {c}]

\* The activity of a search is cancelled, with the onCancel of the search: it
\* sets the request id to one more than its own.
CancelReferences(p) ==
  LET s == p.search
      q == [CancelCall(p, s.session, s.id) EXCEPT !.search = NoSearch]
  IN IF s = NoSearch THEN p
     ELSE IF p.references.sequence # s.sequence THEN q
     ELSE [q EXCEPT !.requestId = s.id + 1, !.references = NoReferences]

\* What stops the class or the method that is loading, if there is one.
StopLoading(p) ==
  IF p.loading = Null /\ ~p.peeking THEN p
  ELSE [CancelCall(p, p.session, p.requestId) EXCEPT
          !.requestId = @ + 1, !.loading = Null, !.peek = Null, !.peeking = FALSE]

NoPeek(p) == [p EXCEPT !.peek = Null, !.peeking = FALSE]

----------------------------------------------------------------------------
\* selectClass, up to its first await.
Select(p0, d, group, preview) ==
  LET p == CancelReferences(p0)
      shut == ReplacedPreview(p.layout, d, group, preview)
      opened == OpenTab(p.layout, d, group, preview)
      q == [NoPeek(p) EXCEPT
              !.layout = opened, !.active = d,
              !.documents = IF shut # Null /\ ~InLayout(opened, shut)
                            THEN Others(@, {shut}) ELSE @]
  IN CASE p.session = 0 -> p
       [] p.session # 0 /\ d \notin p.stale /\ Cached(q, d) ->
            [q EXCEPT !.loading = Null]
       [] OTHER -> [Issue(q, "class", d) EXCEPT !.loading = d, !.overtaken = FALSE]

\* The same, in the group that has the focus and as a preview.
Reselect(p, d) == IF d = Null THEN p ELSE Select(p, d, p.layout.focused, TRUE)

Superseded(p, c) ==
  p.session # c.session \/ p.requestId # c.id \/ p.preference # c.language

\* The document arrives; it is presented next, or dropped because it is not
\* what is asked for any more.  Then the class is asked for again if it is
\* still the active one and nothing fetches it.
Answered(p, c) ==
  IF ~Superseded(p, c)
  THEN [Drop(p, c) EXCEPT !.calls = @ \cup {[c EXCEPT !.phase = "present"]}]
  ELSE LET q == Drop(p, c)
       IN IF q.active = c.class /\ q.loading = Null /\ ~Cached(q, c.class)
          THEN Reselect(q, c.class) ELSE q

Document(c) ==
  [class |-> c.class, session |-> c.session,
   language |-> IF c.language = "auto" THEN Written[c.class] ELSE c.language]

\* Mutant: answers are told apart by their request id alone.
PresentedById(p, c) ==
  LET doc == Document(c)
      docs == Trim(Append(Others(p.documents, {c.class}), doc), p.pinned)
  IN IF p.requestId # c.id THEN Drop(p, c)
     ELSE [Drop(p, c) EXCEPT
             !.documents = docs, !.untrimmed = {},
             !.layout = RetainTabs(@, ClassesOf(docs)),
             !.loading = Null,
             !.detected[c.class] = IF c.language = "auto" THEN doc.language ELSE @,
             !.stale = @ \ {c.class}]

\* The names are in place: the document enters the cache, the oldest ones
\* leave it, and so do the tabs without a document.
Presented(p, c) ==
  LET doc == Document(c)
      docs == Trim(Append(Others(p.documents, {c.class}), doc), p.pinned)
  IN IF Superseded(p, c) THEN Drop(p, c)
     ELSE [Drop(p, c) EXCEPT
             !.documents = docs, !.untrimmed = {},
             !.layout = RetainTabs(@, ClassesOf(docs)),
             !.loading = Null,
             !.detected[c.class] = IF c.language = "auto" THEN doc.language ELSE @,
             !.stale = @ \ {c.class}]

\* An error, the cancellation of the call among them.
Failed(p, c) ==
  LET q == Drop(p, c)
      stopped == [q EXCEPT !.loading = Null]
  IN CASE p.session # c.session \/ p.requestId # c.id -> q
       [] p.session = c.session /\ p.requestId = c.id
          /\ c.cancelled /\ c.phase = "fetch" ->
            IF q.active = c.class /\ ~Cached(q, c.class)
            THEN Reselect(stopped, c.class) ELSE stopped
       [] OTHER -> [stopped EXCEPT !.problems = @ \cup {c.class}]

ClassReturns(c) ==
  /\ c \in page.calls /\ c.kind = "class"
  /\ \/ c.phase = "fetch" /\ page' = Answered(page, c)
     \/ c.phase = "present" /\ page' = Presented(page, c)
     \/ page' = Failed(page, c)
  /\ UNCHANGED acts

----------------------------------------------------------------------------
\* A method shown in the peek view, and the references of a symbol.

PeekReturns(c) ==
  /\ c \in page.calls /\ c.kind = "peek"
  /\ LET q == Drop(page, c)
         ready == [q EXCEPT !.peeking = FALSE]
     IN \/ page' = IF /\ q.session = c.session /\ q.preference = c.language
                      /\ q.peek = c.class
                   THEN ready ELSE q
        \/ page' = ready   \* an error is shown in whatever is being peeked
  /\ UNCHANGED acts

\* A search resolves its target, then asks the service.  What comes back is
\* for the panel if the session, the request id and the sequence are still its
\* own; an error looks at the sequence only.
Searching(c) == [session |-> c.session, id |-> c.id, sequence |-> c.sequence]
Finish(p, c) == IF p.search = Searching(c) THEN [p EXCEPT !.search = NoSearch] ELSE p
Abandon(p, c) == IF p.search = Searching(c) THEN CancelReferences(p) ELSE p
InPanel(p, c, state) ==
  [Finish(p, c) EXCEPT !.references.state = state, !.references.of = c.id]

\* Mutant: results look at the sequence only, as errors do.
Found(p, c) ==
  LET q == Drop(p, c)
  IN IF p.references.sequence # c.sequence THEN Abandon(q, c)
     ELSE IF c.phase = "resolve"
     THEN [q EXCEPT !.calls = @ \cup {[c EXCEPT !.phase = "fetch"]}]
     ELSE InPanel(q, c, "ready")

ReferencesFound(p, c) ==
  LET q == Drop(p, c)
  IN IF \/ p.session # c.session \/ p.requestId # c.id
        \/ p.references.sequence # c.sequence
     THEN Abandon(q, c)
     ELSE IF c.phase = "resolve"
     THEN [q EXCEPT !.calls = @ \cup {[c EXCEPT !.phase = "fetch"]}]
     ELSE InPanel(q, c, "ready")

\* Also the target that turns out ambiguous.
ReferencesFail(p, c) ==
  LET q == Drop(p, c)
  IN IF p.references.sequence = c.sequence THEN InPanel(q, c, "error")
     ELSE IF c.phase = "resolve" THEN Finish(q, c) ELSE Abandon(q, c)

ReferencesReturn(c) ==
  /\ c \in page.calls /\ c.kind = "references"
  /\ \/ page' = ReferencesFound(page, c)
     \/ page' = ReferencesFail(page, c)
  /\ UNCHANGED acts

Act(op, p) ==
  /\ op \in Ops /\ Cardinality(p.calls) <= MaxCalls
  /\ page' = p /\ acts' = acts + 1

OpenPeek(d) ==
  /\ page.session # 0 /\ d \in ClassesOf(page.documents)
  /\ Act("peek", [Issue(page, "peek", d) EXCEPT
                    !.peek = d, !.peeking = TRUE,
                    !.overtaken = @ \/ page.loading # Null])

ClosePeek ==
  /\ page.peek # Null
  /\ Act("peek",
         IF page.peeking
         THEN [NoPeek(CancelCall(page, page.session, page.requestId)) EXCEPT
                 !.requestId = @ + 1, !.overtaken = @ \/ page.loading # Null]
         ELSE NoPeek(page))

\* Of a member, or of a class, which is resolved without waiting: one of the
\* interleavings there are.
FindReferences ==
  /\ page.session # 0
  /\ LET q == StopLoading(CancelReferences(page))
         c == [Call(q, "references", Null) EXCEPT
                 !.phase = "resolve", !.sequence = q.references.sequence + 1]
     IN Act("references",
            [NoPeek(q) EXCEPT
               !.requestId = c.id, !.calls = @ \cup {c}, !.search = Searching(c),
               !.references = [sequence |-> c.sequence, state |-> "loading",
                               asked |-> c.id, of |-> 0]])

CloseReferences ==
  /\ page.references # NoReferences
  /\ Act("references", [CancelReferences(page) EXCEPT !.references = NoReferences])

----------------------------------------------------------------------------
\* Classes, the settings of the output, and archives.

SelectClass(d, g, preview) ==
  /\ page.session # 0
  /\ Act("select", Select(page, d, g, preview))

\* Mutant: the class that was loading is still said to be.
SetSourceLanguageKeepsLoading(l) ==
  /\ l # page.preference
  /\ Act("language",
         LET q == NoPeek([page EXCEPT !.preference = l]) IN Reselect(q, q.active))

SetSourceLanguage(l) ==
  /\ l # page.preference
  /\ Act("language",
         LET q == NoPeek([page EXCEPT !.preference = l, !.loading = Null])
         IN Reselect(q, q.active))

SetDecompileOptions ==
  Act("options",
      LET q == NoPeek([page EXCEPT !.loading = Null,
                                   !.stale = ClassesOf(page.documents)])
      IN Reselect(q, q.active))

\* openArchive before its awaits, when it is shown, and when it fails.  The
\* user waits for one to end before the next.
StartOpening ==
  /\ ~page.opening /\ page.lastSession < MaxSessions
  /\ Act("archive", [CancelReferences(StopLoading(page)) EXCEPT !.opening = TRUE])

ArchiveOpened ==
  /\ page.opening
  /\ page' = [Fresh(page, page.lastSession + 1, 0) EXCEPT
              !.lastSession = @ + 1, !.opening = FALSE]
  /\ UNCHANGED acts

OpeningFails ==
  /\ page.opening
  /\ page' = [page EXCEPT !.opening = FALSE]
  /\ UNCHANGED acts

CloseArchive ==
  /\ page.session # 0
  /\ Act("archive",
         [Fresh(CancelReferences(page), 0, page.requestId + 1) EXCEPT !.stale = {}])

----------------------------------------------------------------------------
\* Tabs.  A tab is shown when its class has a document.

ShownTabs(g) ==
  {d \in ToSet(TabsIn(page.layout, g)) : d \in ClassesOf(page.documents)}
ActiveTab(L) == L.active[L.focused]

\* The tabs of D leave group g, for closedTabs.
CloseTabs(p, g, D) ==
  LET L == RemoveTabs(p.layout, g, D)
      gone == {d \in D : ~InLayout(L, d)}
  IN [p EXCEPT !.layout = L, !.active = ActiveTab(L),
               !.closedTabs = LastTabs(@ \o Among(p.documents, D)),
               !.documents = Others(@, gone)]

PeekInLayout(p) ==
  IF p.peek # Null /\ ~InLayout(p.layout, p.peek) THEN NoPeek(p) ELSE p

\* Pins go with the last tab, whether or not the document does; nothing is
\* trimmed for that.
PinnedInLayout(p) ==
  LET kept == {d \in p.pinned : InLayout(p.layout, d)}
  IN [p EXCEPT !.pinned = kept, !.untrimmed = @ \cup (p.pinned \ kept)]

\* Also the shortcut, which closes the active class in the focused group.
CloseDocument(d, g) ==
  /\ d \in ClassesOf(page.documents)
  /\ \/ d \in ShownTabs(g)
     \/ d = page.active /\ g = page.layout.focused
  /\ LET L == CloseTab(page.layout, g, d)
         still == InLayout(L, d)
         q == [page EXCEPT !.layout = L, !.active = ActiveTab(L),
                           !.closedTabs = LastTabs(@ \o Among(page.documents, {d}))]
     IN Act("close",
            IF still THEN q
            ELSE [IF q.peek = d THEN NoPeek(q) ELSE q EXCEPT
                    !.documents = Others(@, {d}), !.pinned = @ \ {d}])

CloseOtherDocuments(d, g) ==
  LET D == ToSet(TabsIn(page.layout, g)) \ ({d} \cup page.pinned)
  IN /\ d \in ShownTabs(g) /\ D # {}
     /\ Act("close", PeekInLayout(CloseTabs(page, g, D)))

CloseDocumentsToRight(d, g) ==
  LET tabs == TabsIn(page.layout, g)
      D == {tabs[i] : i \in {i \in DOMAIN tabs :
              \E j \in 1..(i - 1) : tabs[j] = d}} \ page.pinned
  IN /\ d \in ShownTabs(g) /\ D # {}
     /\ Act("close", CloseTabs(page, g, D))

CloseAllDocuments(g) ==
  /\ ShownTabs(g) # {}
  /\ Act("close", PeekInLayout(PinnedInLayout(
                    CloseTabs(page, g, ToSet(TabsIn(page.layout, g))))))

CloseEditorGroup(g) ==
  LET L == CloseGroup(page.layout, g)
      D == ToSet(TabsIn(page.layout, g))
      gone == {d \in D : ~InLayout(L, d)}
  IN /\ g \in GroupsOf(page.layout) /\ Len(page.layout.groups) > 1
     /\ Act("close", PinnedInLayout(
              [page EXCEPT !.layout = L, !.active = ActiveTab(L),
                           !.closedTabs = LastTabs(@ \o Among(page.documents, D)),
                           !.documents = Others(@, gone)]))

ReopenClosedTab ==
  /\ page.session # 0 /\ page.closedTabs # <<>>
  /\ LET doc == Last(page.closedTabs)
         docs == Trim(Append(Others(page.documents, {doc.class}), doc), page.pinned)
         opened == OpenTab(page.layout, doc.class, page.layout.focused, FALSE)
         q == [page EXCEPT !.documents = docs, !.active = doc.class, !.untrimmed = {},
                           !.layout = RetainTabs(opened, ClassesOf(docs)),
                           !.closedTabs = Front(@)]
     IN Act("reopen", IF doc.language # DocumentLanguage(page, doc.class)
                      THEN Reselect(q, doc.class) ELSE q)

\* Mutant: what pinning leaves over is not trimmed.
TogglePinWithoutTrim(d) ==
  /\ d \in ClassesOf(page.documents)
  /\ LET pinned == SymDiff(page.pinned, {d})
         L == IF d \in pinned
              THEN PromoteTab(page.layout, d, GroupOf(page.layout, d)) ELSE page.layout
     IN Act("pin", [page EXCEPT !.pinned = pinned, !.layout = OrderPinned(L, pinned)])

TogglePin(d) ==
  /\ d \in ClassesOf(page.documents)
  /\ LET pinned == SymDiff(page.pinned, {d})
         docs == Trim(page.documents, pinned)
         L == IF d \in pinned
              THEN PromoteTab(page.layout, d, GroupOf(page.layout, d)) ELSE page.layout
     IN Act("pin", [page EXCEPT
                      !.pinned = pinned, !.documents = docs, !.untrimmed = {},
                      !.layout = OrderPinned(RetainTabs(L, ClassesOf(docs)), pinned)])

MoveDocument(d, source, target, before) ==
  /\ d \in ShownTabs(source) /\ target \in GroupsOf(page.layout)
  /\ before \in (ShownTabs(target) \ {d}) \cup {Null}
  /\ Act("move", [page EXCEPT !.active = d,
                              !.layout = MoveTab(@, d, source, target, before)])

SplitDocument(d, source, target, side) ==
  /\ d \in ShownTabs(source) /\ page.layout.next <= MaxGroups
  /\ Act("split", [page EXCEPT !.active = d,
                               !.layout = SplitMove(@, d, source, target, side)])

\* With the active tab of the group if no other is named.
SplitEditor(d, g) ==
  /\ page.layout.next <= MaxGroups
  /\ d \in ShownTabs(g) \cup {page.layout.active[g]}
  /\ LET L == SplitGroup(page.layout, g, d, "after")
     IN Act("split", [page EXCEPT !.layout = L, !.active = ActiveTab(L)])

FocusEditorGroup(g) ==
  /\ g \in GroupsOf(page.layout)
  /\ Act("focus", [page EXCEPT !.layout = FocusGroup(@, g),
                               !.active = page.layout.active[g]])

PromotePreview(d, g) ==
  /\ d \in ShownTabs(g)
  /\ Act("pin", [page EXCEPT !.layout = PromoteTab(@, d, g)])

----------------------------------------------------------------------------
TabActs ==
  \E g \in GroupsOf(page.layout) :
    \/ FocusEditorGroup(g) \/ CloseAllDocuments(g) \/ CloseEditorGroup(g)
    \/ \E d \in ShownTabs(g) \cup {page.active} : CloseDocument(d, g)
    \/ \E d \in ShownTabs(g) \cup {page.layout.active[g]} : SplitEditor(d, g)
    \/ \E d \in ShownTabs(g) :
         \/ SelectClass(d, g, TRUE) \/ PromotePreview(d, g)
         \/ CloseOtherDocuments(d, g) \/ CloseDocumentsToRight(d, g)
         \/ \E h \in GroupsOf(page.layout) :
              \/ \E before \in ShownTabs(h) \cup {Null} : MoveDocument(d, g, h, before)
              \/ \E side \in {"before", "after"} : SplitDocument(d, g, h, side)

UserActs ==
  \/ TabActs
  \/ \E d \in Classes :
       \/ \E preview \in BOOLEAN : SelectClass(d, page.layout.focused, preview)
       \/ OpenPeek(d) \/ TogglePin(d)
  \/ FindReferences \/ CloseReferences \/ ClosePeek \/ ReopenClosedTab
  \/ \E l \in Preferences : SetSourceLanguage(l)
  \/ SetDecompileOptions \/ StartOpening \/ CloseArchive

DocumentsNext ==
  \/ \E c \in page.calls : ClassReturns(c) \/ PeekReturns(c) \/ ReferencesReturn(c)
  \/ ArchiveOpened \/ OpeningFails
  \/ acts < MaxActs /\ UserActs

DocumentsSpec == DocumentsInit /\ [][DocumentsNext]_docVars

----------------------------------------------------------------------------
\* The parts of the page have their types, and every operation on tabs leaves
\* a layout whose focus, active and preview tabs are there.
DocumentsTypeOK ==
  LET docs == [class : Classes, session : 1..MaxSessions,
               language : {"java", "kotlin"}]
  IN /\ page.session \in 0..MaxSessions /\ page.requestId \in Nat
     /\ ToSet(page.documents) \cup ToSet(page.closedTabs) \subseteq docs
     /\ Len(page.closedTabs) <= ClosedLimit
     /\ page.pinned \cup page.stale \cup page.problems \subseteq Classes
     /\ {page.active, page.loading, page.peek} \subseteq Classes \cup {Null}
     /\ WellFormedLayout(page.layout)

\* Every document, shown or closed, is of the archive that is open, although
\* answers come late and every archive counts its requests from one again.
CacheOfArchive ==
  \A doc \in ToSet(page.documents) \cup ToSet(page.closedTabs) :
    doc.session = page.session

\* The cache has one document per class and keeps to its limit, however
\* tabs are pinned, unpinned, closed, reopened, moved and answered.  Only what
\* lost its pin with its tab, and kept its document, comes on top of it until
\* documents are trimmed again.
CacheInBounds ==
  /\ Len(page.documents) = Cardinality(ClassesOf(page.documents))
  /\ Len(Others(page.documents, page.pinned \cup page.untrimmed)) <= DocumentLimit

\* A class that is said to be loading is being loaded: the call that fetches
\* it is the newest one, so its answer will end the loading.  Only the peek
\* view, which takes the next request id, can leave it loading for ever.
LoadingIsFetched ==
  page.loading # Null /\ ~page.overtaken =>
    \E c \in page.calls :
      /\ c.kind = "class" /\ c.class = page.loading
      /\ c.session = page.session /\ c.id = page.requestId

\* The results in the references panel are those of the search it was opened
\* for, although sequences start again whenever the panel is emptied and the
\* answers of searches that were cancelled may still come.
ResultsAreAsked ==
  page.references.state = "ready" => page.references.of = page.references.asked

\* The active tab never strands on an uncached document (the comment in
\* selectClass): it has a document, or one is being fetched, or the user was
\* told why there is none.
NeverStrands ==
  page.active # Null =>
    \/ page.active \in ClassesOf(page.documents) \cup page.problems
    \/ \E c \in page.calls :
         c.kind = "class" /\ c.class = page.active /\ c.session = page.session
=============================================================================
