----------------------------- MODULE DexReader -----------------------------
(***************************************************************************)
(* The reader of a parsed archive (dexdec, frontend/dex_reader.rs,         *)
(* DexFileReader): the classes it has materialised so far, how they are    *)
(* linked to the classes nested in them, the analysis of overrides, and    *)
(* the revision by which every cache of the decompiler knows whether it    *)
(* was made for the classes that are loaded now.                           *)
(*                                                                         *)
(* What a class declares does not change, so the archive is a set of       *)
(* constants.  The operations below are the steps from which the requests  *)
(* of DecompilerContext are put together; each is what happens between two *)
(* points at which an error can end them.                                  *)
(***************************************************************************)
EXTENDS Naturals, FiniteSets

CONSTANTS
  Classes,     \* the types that the archive defines or mentions
  Located,     \* class_locations: those it defines
  Enlarged,    \* those a later dex file defines again, with more code
  Parents,     \* the superclass and interfaces of each class
  Members,     \* nested_classes.children: the classes declared in each
  Damages      \* the sets of classes whose data may be malformed

ASSUME ArchiveAssumption ==
  /\ Located \subseteq Classes
  /\ Enlarged \subseteq Located
  /\ Parents \in [Classes -> SUBSET Classes]
  /\ Members \in [Classes -> SUBSET Classes]
  /\ Damages \subseteq SUBSET Located

VARIABLES
  broken,      \* the classes whose data cannot be materialised
  loaded,      \* classes: the keys
  enlarged,    \* those of them that hold the larger, later definition
  linked,      \* the classes loaded when link_inner_classes last ran
  analysis,    \* override_analysis_state
  analysed,    \* the classes loaded when overrides were last analysed
  revision,    \* loaded_classes_revision
  unmarked     \* history: classes inserted or replaced since the revision
               \* was last raised

graphVars == <<loaded, enlarged, linked, analysis, analysed, revision, unmarked>>
readerVars == <<broken, graphVars>>

ReaderInit ==
  /\ broken \in Damages
  /\ loaded = {} /\ enlarged = {} /\ linked = {}
  /\ analysis = "Dirty" /\ analysed = {}
  /\ revision = 0
  /\ unmarked = {}

\* What load_class answers: the class, None or an error.
Answer(c) ==
  IF c \in loaded THEN "some"
  ELSE IF c \notin Located THEN "none"
  ELSE IF c \in broken THEN "error" ELSE "some"

\* inner_class_names of a node: a node has none until it is linked.
MembersOf(c) == IF c \in linked THEN Members[c] ELSE {}

\* mark_override_analysis_dirty and link_inner_classes, after the classes of
\* this step are in.
MarkAndLink ==
  /\ analysis' = "Dirty"
  /\ revision' = revision + 1
  /\ linked' = loaded'
  /\ unmarked' = {}
  /\ UNCHANGED <<broken, analysed>>

\* Mutant: a class is inserted without a new revision.
LoadClassUnmarked(c) ==
  /\ Answer(c) # "error"
  /\ loaded' = loaded \cup ({c} \cap Located)
  /\ linked' = loaded'
  /\ UNCHANGED <<broken, enlarged, analysis, analysed, revision, unmarked>>

\* load_class, when it does not fail
LoadClass(c) ==
  /\ Answer(c) # "error"
  /\ \/ /\ c \in loaded \/ c \notin Located
        /\ UNCHANGED readerVars
     \/ /\ c \in Located \ loaded
        /\ loaded' = loaded \cup {c}
        /\ UNCHANGED enlarged
        /\ MarkAndLink

\* load_class_without_relinking, when it does not fail: the caller raises the
\* revision for all classes at the end.
InsertClass(c) ==
  /\ Answer(c) # "error"
  /\ loaded' = loaded \cup ({c} \cap Located)
  /\ unmarked' = unmarked \cup (({c} \cap Located) \ loaded)
  /\ UNCHANGED <<broken, enlarged, linked, analysis, analysed, revision>>

\* One class definition of load_all_classes: all are materialised again, and
\* a later one replaces the one that is loaded if it holds more code.
InsertDefinition(c, larger) ==
  /\ c \in Located \ broken /\ (larger => c \in Enlarged)
  /\ \/ /\ c \in loaded /\ (~larger \/ c \in enlarged)
        /\ UNCHANGED <<loaded, enlarged, unmarked>>
     \/ /\ c \notin loaded \/ (larger /\ c \notin enlarged)
        /\ loaded' = loaded \cup {c}
        /\ enlarged' = IF larger THEN enlarged \cup {c} ELSE enlarged
        /\ unmarked' = unmarked \cup {c}
  /\ linked' = linked \ unmarked'       \* a new node is not linked yet
  /\ UNCHANGED <<broken, analysis, analysed, revision>>

\* The end of load_classes and of load_all_classes.  changed is their local
\* flag, which an error on the way loses.
EndInserting(changed) ==
  \/ changed /\ UNCHANGED <<loaded, enlarged>> /\ MarkAndLink
  \/ ~changed /\ UNCHANGED readerVars

\* Mutant: the classes go, their links stay.
ClearLoadedKeepsLinks ==
  \/ loaded = {} /\ UNCHANGED readerVars
  \/ /\ loaded # {}
     /\ loaded' = {} /\ enlarged' = {} /\ unmarked' = {}
     /\ analysis' = "Dirty" /\ revision' = revision + 1
     /\ UNCHANGED <<broken, linked, analysed>>

\* clear_loaded_classes and abandon_loaded_classes: nothing happens without
\* a class.
ClearLoaded ==
  \/ loaded = {} /\ UNCHANGED readerVars
  \/ /\ loaded # {}
     /\ loaded' = {} /\ enlarged' = {}
     /\ MarkAndLink

\* Mutant: parents that the archive does not define are waited for as well.
OrphanedAnywhere == (UNION {Parents[c] : c \in loaded}) \ loaded

\* The parents load_source_hierarchy_closure still loads.
Orphaned == ((UNION {Parents[c] : c \in loaded}) \cap Located) \ loaded

\* The members load_hierarchy_member_types loads, taken once.
Undeclared == (UNION {MembersOf(c) : c \in loaded}) \ loaded

\* The end of ensure_override_analysis.
AnalyseOverrides ==
  /\ analysis' = "Ready"
  /\ analysed' = loaded
  /\ UNCHANGED <<broken, loaded, enlarged, linked, revision, unmarked>>

-----------------------------------------------------------------------------
ReaderTypeOK ==
  /\ broken \subseteq Located
  /\ loaded \subseteq Located \ broken
  /\ enlarged \subseteq loaded \cap Enlarged
  /\ linked \subseteq loaded
  /\ unmarked \subseteq loaded
  /\ analysis \in {"Dirty", "Ready"}
  /\ analysed \subseteq Located
  /\ revision \in Nat
=============================================================================
