---------------------------- MODULE EditorLayout ----------------------------
(***************************************************************************)
(* The layout of the editor area (editorLayout.ts): groups of tabs, each   *)
(* with an active tab and at most one preview tab.  Every operation is a   *)
(* function from layouts to layouts, as in the code, which copies its      *)
(* state.                                                                  *)
(*                                                                         *)
(* The tree of splits is represented by its leaves from left to right: the *)
(* code puts a new group next to the one it splits, takes a group out of   *)
(* the tree, and otherwise only asks for the leaves in order.              *)
(***************************************************************************)
EXTENDS Naturals, SequencesExt

CONSTANT Null    \* no class, as a tab or as a document

\* The elements of s at the places in I, in their order: filter, in the code.
Picked(s, I) ==
  [k \in 1 .. Cardinality(I) |->
     s[CHOOSE i \in I : Cardinality({j \in I : j <= i}) = k]]

Within(s, S) == Picked(s, {i \in DOMAIN s : s[i] \in S})
Without(s, S) == Picked(s, {i \in DOMAIN s : s[i] \notin S})

IndexOf(s, x) == CHOOSE i \in DOMAIN s : s[i] = x
LastOf(s) == IF s = <<>> THEN Null ELSE Last(s)

\* What takes the place of item i after it left s: the next one, or the last.
InPlaceOf(s, i) ==
  IF s = <<>> THEN Null ELSE s[IF i <= Len(s) THEN i ELSE Len(s)]

EmptyLayout ==
  [groups  |-> <<1>>, focused |-> 1,
   tabs    |-> [g \in {1} |-> <<>>],
   active  |-> [g \in {1} |-> Null],
   preview |-> [g \in {1} |-> Null],
   next    |-> 2]

GroupsOf(L) == ToSet(L.groups)
TabsIn(L, g) == IF g \in GroupsOf(L) THEN L.tabs[g] ELSE <<>>
HasTab(L, g, d) == Contains(TabsIn(L, g), d)
InLayout(L, d) == \E g \in GroupsOf(L) : HasTab(L, g, d)

\* The group of a tab: the focused one if it is there, too.
GroupOf(L, d) ==
  LET g == SelectInSeq(L.groups, LAMBDA h : Contains(L.tabs[h], d))
  IN IF g = 0 \/ HasTab(L, L.focused, d) THEN L.focused ELSE L.groups[g]

\* The preview tab that opening d in group g drives out.
ReplacedPreview(L, d, g, preview) ==
  IF HasTab(L, g, d) \/ ~preview THEN Null ELSE L.preview[g]

OpenTab(L, d, g, preview) ==
  IF HasTab(L, g, d)
  THEN [L EXCEPT !.focused = g,
                 !.active[g] = d,
                 !.preview[g] = IF ~preview /\ @ = d THEN Null ELSE @]
  ELSE [L EXCEPT !.focused = g,
                 !.tabs[g] = Append(Without(@, {ReplacedPreview(L, d, g, preview)}), d),
                 !.active[g] = d,
                 !.preview[g] = IF preview THEN d ELSE Null]

FocusGroup(L, g) == IF g \in GroupsOf(L) THEN [L EXCEPT !.focused = g] ELSE L

PromoteTab(L, d, g) ==
  IF g \in GroupsOf(L) /\ L.preview[g] = d
  THEN [L EXCEPT !.preview[g] = Null] ELSE L

\* The tabs of a group go with it; the last group stays.
CloseGroup(L, g) ==
  IF g \notin GroupsOf(L) \/ Len(L.groups) = 1 THEN L
  ELSE LET left == Without(L.groups, {g})
           keep == ToSet(left)
       IN [L EXCEPT !.groups  = left,
                    !.focused = IF @ = g
                                THEN InPlaceOf(left, IndexOf(L.groups, g)) ELSE @,
                    !.tabs    = Restrict(@, keep),
                    !.active  = Restrict(@, keep),
                    !.preview = Restrict(@, keep)]

CloseIfEmpty(L, g) == IF L.tabs[g] = <<>> THEN CloseGroup(L, g) ELSE L

\* Mutant: the preview tab is forgotten only when it is active, too.
CloseTabKeepsPreview(L, g, d) ==
  IF ~HasTab(L, g, d) THEN L
  ELSE LET left == Without(L.tabs[g], {d})
       IN CloseIfEmpty(
            [L EXCEPT !.tabs[g]    = left,
                      !.active[g]  = IF @ = d
                                     THEN InPlaceOf(left, IndexOf(L.tabs[g], d))
                                     ELSE @,
                      !.preview[g] = IF @ = d /\ L.active[g] = d THEN Null ELSE @], g)

CloseTab(L, g, d) ==
  IF ~HasTab(L, g, d) THEN L
  ELSE LET left == Without(L.tabs[g], {d})
       IN CloseIfEmpty(
            [L EXCEPT !.tabs[g]    = left,
                      !.active[g]  = IF @ = d
                                     THEN InPlaceOf(left, IndexOf(L.tabs[g], d))
                                     ELSE @,
                      !.preview[g] = IF @ = d THEN Null ELSE @], g)

\* remove: the tabs of D are closed in group g one after the other.
RemoveTabs(L, g, D) ==
  LET tabs == TabsIn(L, g)
      after[k \in 0 .. Len(tabs)] ==
        IF k = 0 THEN L
        ELSE IF tabs[k] \in D THEN CloseTab(after[k - 1], g, tabs[k]) ELSE after[k - 1]
  IN after[Len(tabs)]

\* Only the classes of D may keep their tabs; groups stay, empty or not.
RetainTabs(L, D) ==
  LET kept(g) == Within(L.tabs[g], D)
      out(g, d) == d # Null /\ ~Contains(kept(g), d)
  IN [L EXCEPT !.tabs    = [g \in DOMAIN @ |-> kept(g)],
               !.active  = [g \in DOMAIN @ |-> IF out(g, @[g]) THEN LastOf(kept(g)) ELSE @[g]],
               !.preview = [g \in DOMAIN @ |-> IF out(g, @[g]) THEN Null ELSE @[g]]]

\* A tab moves to another place, in front of the tab before or to the end.
MoveTab(L, d, source, target, before) ==
  IF ~HasTab(L, source, d) \/ target \notin GroupsOf(L) THEN L
  ELSE LET left == [L.tabs EXCEPT ![source] = Without(@, {d})]
           into == Without(left[target], {d})
           spot == IF Contains(into, before) THEN IndexOf(into, before) ELSE Len(into) + 1
           next == IF source # target /\ L.active[source] = d
                   THEN InPlaceOf(left[source], IndexOf(L.tabs[source], d))
                   ELSE L.active[source]
           moved ==
             [L EXCEPT !.focused = target,
                       !.tabs    = [left EXCEPT ![target] = InsertAt(into, spot, d)],
                       !.active[source]  = next,
                       !.active[target]  = d,
                       !.preview[source] = IF @ = d THEN Null ELSE @,
                       !.preview[target] = Null]
       IN IF source # target THEN CloseIfEmpty(moved, source) ELSE moved

\* A new group next to g, with a tab of d if there is one to take there.
SplitGroup(L, g, d, side) ==
  IF g \notin GroupsOf(L) THEN L
  ELSE LET new == L.next
           add(f, v) == [h \in DOMAIN f \cup {new} |-> IF h = new THEN v ELSE f[h]]
           split ==
             [groups  |-> InsertAt(L.groups,
                            IndexOf(L.groups, g) + (IF side = "before" THEN 0 ELSE 1), new),
              focused |-> new,
              tabs    |-> add(L.tabs, <<>>),
              active  |-> add(L.active, Null),
              preview |-> add(L.preview, Null),
              next    |-> new + 1]
       IN IF d = Null THEN split ELSE OpenTab(split, d, new, FALSE)

SplitMove(L, d, source, target, side) ==
  LET split == SplitGroup(L, target, Null, side)
  IN MoveTab(split, d, source, split.focused, Null)

OrderPinned(L, P) ==
  [L EXCEPT !.tabs = [g \in DOMAIN @ |->
     Within(@[g], P) \o Without(@[g], P)]]

----------------------------------------------------------------------------
\* What every operation keeps: the focused group is there, the active and
\* the preview tab of a group are tabs of it, and none is there twice.
WellFormedLayout(L) ==
  LET groups == GroupsOf(L) IN
  /\ L.groups # <<>> /\ Len(L.groups) = Cardinality(groups)
  /\ L.focused \in groups
  /\ \A g \in groups : g < L.next
  /\ DOMAIN L.tabs = groups /\ DOMAIN L.active = groups /\ DOMAIN L.preview = groups
  /\ \A g \in groups :
       /\ Len(L.tabs[g]) = Cardinality(ToSet(L.tabs[g]))
       /\ L.active[g] # Null => HasTab(L, g, L.active[g])
       /\ L.preview[g] # Null => HasTab(L, g, L.preview[g])
       /\ L.active[g] = Null <=> L.tabs[g] = <<>>
=============================================================================
