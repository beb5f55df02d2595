------------------------- MODULE DecompilerContext -------------------------
(***************************************************************************)
(* The requests of a decompiler (dexdec, api.rs: DecompilerContext, and    *)
(* api/decompiler.rs: Decompiler) over the reader of one archive.          *)
(*                                                                         *)
(* A decompiler is used by one thread at a time, so nothing interleaves    *)
(* with a request; what a request meets is the state earlier ones left,    *)
(* which may have ended at any of their errors or been cancelled at any of *)
(* their checkpoints.  An action is what happens between two such points,  *)
(* and where says which comes next.                                        *)
(*                                                                         *)
(* Code is followed by class, as if each had one method: its CFG in the    *)
(* cache is raw (only member references resolved) or resolved, and ended   *)
(* once the code after calls that never return has been cut off.  A cached *)
(* analysis is the set of classes it was made of.                          *)
(***************************************************************************)
EXTENDS DexReader

CONSTANTS
  Mentions,          \* the types that the declarations and code of each mention
  Callees,           \* the classes whose methods each class calls exactly
  ContractOwners(_, _),  \* what an analysis of nullability asks for in
                     \* addition, given the loaded classes and the roots
  FunctionObjects,   \* the classes of Java lambdas
  Requested,         \* the classes that are asked for
  Batches,           \* the sets of classes generated in one archive pass
  IncludeNested,     \* DecompileOptions.include_nested
  Absent,            \* no value
  MaxRequests        \* bound: twice the requests made

ASSUME ContextAssumption ==
  /\ Mentions \in [Classes -> SUBSET Classes]
  /\ Callees \in [Classes -> SUBSET Classes]
  /\ FunctionObjects \subseteq Classes
  /\ Requested \subseteq Classes
  /\ Batches \subseteq SUBSET Classes
  /\ IncludeNested \in BOOLEAN
  /\ MaxRequests \in Nat

ASSUME ContractAssumption ==
  \A S, R \in SUBSET Classes : ContractOwners(S, R) \subseteq Classes

Languages == {"java", "kotlin"}
Bodies    == [resolved : BOOLEAN, ended : BOOLEAN]
Analyses  == [revision : Nat, of : SUBSET Classes]

\* Absent is none of the values it stands in for.
ASSUME AbsentAssumption ==
  /\ Absent \notin Classes /\ Absent \notin Bodies /\ Absent \notin Analyses
  /\ Absent # "open"

Places == {"idle", "load", "scope", "outer", "collect", "nested", "needs",
           "ensure", "closure", "members", "closureAgain", "analyse",
           "roots", "terminate", "prepare", "context", "kotlin", "kotlinDeps", "stable",
           "hierarchy", "render", "select", "retain", "prefetch", "abiBefore", "javaBefore",
           "archiveTermination", "abiAfter", "archiveDeps", "resolve", "jobs",
           "jobDone", "finish", "finishJava", "abandon",
           "definitions", "redefinitions", "selected"}

VARIABLES
  hierarchy,     \* type_hierarchy_cache
  javaAbi,       \* java_source_abi_cache
  kotlinAbi,     \* kotlin_source_abi_cache
  roots,         \* kotlin_contract_roots
  cfgs,          \* method_irs
  cacheRevision, \* method_cache_revision
  retain,        \* retain_decoded_methods
  where,         \* the next step of the request
  request,       \* what is asked: kind, class, languages, isolated, cancelled
  job,           \* the class of an archive pass that is being collected
  slots,         \* finished and ready of an archive pass, by class
  unit,          \* the code collected for the class asked for
  todo, seen,    \* a work list and what has been taken from it
  began,         \* the revision prepare_source_backend compares with
  draft,         \* the Kotlin ABI being analysed
  after,         \* where ensure_override_analysis goes on
  changed,       \* the local flag of load_classes and load_all_classes
  requests,      \* requests made so far, for the bound
  first,         \* history: the classes an isolated request was rendered with
  aborted        \* history: an archive pass or a selection has failed since,
                 \* and its code or the classes it inserted may be there yet

cacheVars   == <<hierarchy, javaAbi, kotlinAbi, roots>>
codeVars    == <<cfgs, cacheRevision, retain>>
frameVars   == <<job, slots, unit, todo, seen, began, draft, after, changed>>
historyVars == <<first, aborted>>
vars == <<readerVars, cacheVars, codeVars, frameVars, where, request, requests,
          historyVars>>

NoCode == [c \in Classes |-> Absent]
NoRequest == [kind |-> "none", class |-> Absent, languages |-> {},
              isolated |-> FALSE, cancelled |-> FALSE]

Init ==
  /\ ReaderInit
  /\ hierarchy = Absent /\ javaAbi = Absent /\ kotlinAbi = Absent /\ roots = {}
  /\ cfgs = NoCode /\ cacheRevision = 0 /\ retain = FALSE
  /\ where = "idle" /\ request = NoRequest
  /\ job = Absent /\ slots = NoCode /\ unit = NoCode
  /\ todo = {} /\ seen = {} /\ began = 0 /\ draft = Absent
  /\ after = "idle" /\ changed = FALSE
  /\ requests = 0
  /\ first = [k \in Languages \X Classes |-> Absent] /\ aborted = FALSE

At(place) == where = place
Goto(place) == where' = place
Code(resolved, ended) == [resolved |-> resolved, ended |-> ended]
Collected == {c \in Classes : unit[c] # Absent}
Decoded == {c \in Classes : cfgs[c] # Absent}

\* A cache was made for the class graph that is loaded now.
Current(cache) == cache # Absent /\ cache.revision = revision
Made == [revision |-> revision, of |-> loaded]

\* The request goes on; only what is named in the action changes.
Stay == UNCHANGED <<request, requests, historyVars>>
SameCode == UNCHANGED codeVars
SameCaches == UNCHANGED cacheVars

-----------------------------------------------------------------------------
(* Decoding.                                                               *)

\* sync_method_cache_revision for the revision r
Synced(r) == IF retain \/ cacheRevision = r THEN cfgs ELSE NoCode

\* decode_method of the classes in C: a CFG in the cache is taken as it is.
WithDecoded(C, r) ==
  [c \in Classes |-> IF c \in C /\ Synced(r)[c] = Absent THEN Code(TRUE, FALSE)
                     ELSE Synced(r)[c]]

\* decode_class_method of one class, which takes the CFG out of the cache
\* unless termination is still to be solved for this unit.
Takes == request.kind \in {"batch", "method"}

CollectCode(c, r) ==
  /\ unit' = [unit EXCEPT ![c] = WithDecoded({c}, r)[c]]
  /\ cfgs' = IF Takes THEN [WithDecoded({c}, r) EXCEPT ![c] = Absent]
             ELSE WithDecoded({c}, r)
  /\ cacheRevision' = r
  /\ UNCHANGED retain

\* clear_method_cache
ClearCode ==
  /\ cfgs' = NoCode
  /\ cacheRevision' = revision'
  /\ UNCHANGED retain

DropCaches ==
  /\ hierarchy' = Absent /\ javaAbi' = Absent /\ kotlinAbi' = Absent /\ roots' = {}

\* clear_analysis_scope
ClearScope == ClearLoaded /\ ClearCode /\ DropCaches /\ aborted' = FALSE

\* set_kotlin_contract_roots
SetRoots(R) ==
  /\ roots' = R
  /\ kotlinAbi' = IF R = roots THEN kotlinAbi ELSE Absent
  /\ UNCHANGED <<hierarchy, javaAbi>>

ContractRoots(S) == S \cup UNION {Callees[c] : c \in S}

-----------------------------------------------------------------------------
(* The request as a whole.                                                 *)

\* The locals of a request are gone when it ends.
ClearFrame ==
  /\ job' = Absent /\ slots' = NoCode /\ unit' = NoCode
  /\ todo' = {} /\ seen' = {} /\ began' = 0 /\ draft' = Absent
  /\ after' = "idle" /\ changed' = FALSE
  /\ request' = NoRequest /\ Goto("idle")

\* An outline counts for half of a request.
Weight(kind) == IF kind = "outline" THEN 1 ELSE 2

Begin(kind, c, L, isolated) ==
  /\ At("idle")
  /\ requests' = requests + Weight(kind) /\ requests' <= MaxRequests
  /\ request' = [kind |-> kind, class |-> c, languages |-> L, isolated |-> isolated,
                 cancelled |-> FALSE]
  /\ \/ kind = "all" /\ Goto("definitions")
     \/ kind = "batch" /\ Goto("select")
     \/ kind \in {"class", "method", "outline"} /\ Goto("load")
     \/ kind = "class" /\ Goto("scope")
  /\ todo' = CASE kind = "all" -> Located [] kind = "batch" -> c [] OTHER -> {}
  /\ seen' = IF kind = "batch" THEN c ELSE {}
  /\ slots' = IF kind = "batch" THEN [d \in Classes |-> IF d \in c THEN "open" ELSE Absent]
              ELSE NoCode
  /\ UNCHANGED <<readerVars, job, unit, began, draft, after, changed, historyVars>>
  /\ SameCaches /\ SameCode

\* Decompiler::class loads the class first, ClassBatch::next does not.
BeginClass ==
  \E c \in Requested, l \in Languages, isolated \in BOOLEAN :
    Begin("class", c, {l}, isolated)
\* Decompiler::method
BeginMethod == \E c \in Requested, l \in Languages : Begin("method", c, {l}, FALSE)
\* class_outline and source_language
BeginOutline == \E c \in Located : Begin("outline", c, {}, FALSE)
\* generate_classes of more than one class, not isolated
BeginBatch == \E B \in Batches, L \in (SUBSET Languages) \ {{}} : Begin("batch", B, L, FALSE)
\* select of all classes
BeginAll == Begin("all", Absent, {}, FALSE)

\* The callers clear the scope between requests, and may take the reader.
ClearBetween ==
  /\ At("idle") /\ ClearScope
  /\ UNCHANGED <<where, frameVars, request, requests, first>>
TakeReader ==
  /\ At("idle") /\ DropCaches
  /\ cfgs' = NoCode /\ cacheRevision' = revision
  /\ aborted' = (unmarked # {})
  /\ UNCHANGED <<readerVars, retain, where, frameVars, request, requests, first>>

\* Where observer.checkpoint notices that the request was cancelled.
Checkpoint ==
  \/ where \in {"outer", "collect", "needs", "terminate", "jobDone", "render"}
  \/ where \in {"roots", "hierarchy"} /\ request.kind # "method"

\* The class a unit of source is made of.
Top == IF job # Absent THEN job ELSE request.class

\* Where a step can end with an error of its own: a class that cannot be
\* materialised or is missing, or a failing analysis or generator.
Erring ==
  \/ where \in {"analyse", "context", "hierarchy", "javaBefore", "resolve",
               "finish", "finishJava", "render"}
  \/ where \in {"load", "outer"} /\ Answer(Top) # "some"
  \/ At("collect") /\ request.kind = "method"
  \/ At("nested") /\ \E n \in todo : n \in seen \/ Answer(n) # "some"
  \/ /\ where \in {"needs", "members", "kotlinDeps", "archiveDeps", "select",
                    "definitions", "redefinitions"}
     /\ \E d \in todo : Answer(d) = "error"
  \/ /\ where \in {"closure", "closureAgain"}
     /\ \E p \in Orphaned : Answer(p) = "error"

\* The class being collected fails, the archive pass goes on with the others.
\* A cancellation is not taken back: it meets each of them.
FailJob ==
  /\ job # Absent
  /\ \/ Erring /\ UNCHANGED request
     \/ Checkpoint /\ request' = [request EXCEPT !.cancelled = TRUE]
  /\ slots' = [slots EXCEPT ![job] = "failed"]
  /\ job' = Absent /\ unit' = NoCode /\ todo' = {} /\ seen' = {}
  /\ Goto("jobs")
  /\ UNCHANGED <<requests, historyVars>> /\ SameCode /\ SameCaches
  /\ UNCHANGED <<readerVars, began, draft, after, changed>>

\* The request fails.  ClassBatch::next clears up after a class that fails.
FailRequest ==
  /\ job = Absent /\ (Erring \/ Checkpoint)
  /\ ClearFrame
  /\ \/ /\ request.kind = "class" /\ request.isolated
        /\ ClearScope
     \/ /\ request.kind = "class" /\ ~request.isolated
        /\ UNCHANGED readerVars /\ ClearCode /\ SameCaches /\ aborted' = (unmarked # {})
     \/ /\ retain' = FALSE
        /\ aborted' = (aborted \/ retain \/ unmarked # {})
        /\ UNCHANGED <<readerVars, cfgs, cacheRevision>> /\ SameCaches
  /\ UNCHANGED <<requests, first>>

-----------------------------------------------------------------------------
(* One class or method.                                                    *)

Load ==
  /\ At("load") /\ Answer(request.class) = "some" /\ LoadClass(request.class)
  /\ \/ /\ request.kind = "outline" /\ ClearFrame /\ UNCHANGED <<requests, historyVars>>
     \/ /\ request.kind = "class" /\ Goto("scope")
        /\ UNCHANGED frameVars /\ Stay
     \/ /\ request.kind = "method" /\ Goto("ensure") /\ after' = "collect"
        /\ UNCHANGED <<job, slots, unit, todo, seen, began, draft, changed>> /\ Stay
  /\ SameCode /\ SameCaches

\* Mutant: an isolated request starts in the scope it finds.
ScopeKept ==
  /\ At("scope") /\ Goto("outer")
  /\ UNCHANGED <<readerVars, frameVars>> /\ Stay /\ SameCode /\ SameCaches

Scope ==
  /\ At("scope") /\ Goto("outer")
  /\ \/ request.isolated /\ ClearScope
     \/ ~request.isolated /\ UNCHANGED <<readerVars, aborted>> /\ SameCode /\ SameCaches
  /\ UNCHANGED <<frameVars, request, requests, first>>

Outer ==
  /\ At("outer") /\ ~request.cancelled /\ Answer(Top) = "some" /\ LoadClass(Top)
  /\ Goto("collect")
  /\ UNCHANGED frameVars /\ Stay /\ SameCode /\ SameCaches

\* collect_class_render_input: the code of the class itself
Collect ==
  /\ At("collect")
  /\ CollectCode(Top, revision)
  /\ todo' = IF IncludeNested /\ request.kind # "method" THEN MembersOf(Top) ELSE {}
  /\ seen' = {Top}
  /\ Goto("nested")
  /\ UNCHANGED <<readerVars, job, slots, began, draft, after, changed>> /\ Stay /\ SameCaches

\* collect_nested_class_inputs: a class nested twice is an error.
CollectNested(n) ==
  /\ At("nested") /\ n \in todo \ seen
  /\ Answer(n) = "some" /\ LoadClass(n)
  /\ CollectCode(n, revision')
  /\ todo' = (todo \ {n}) \cup IF n \in linked' THEN Members[n] ELSE {}
  /\ seen' = seen \cup {n}
  /\ UNCHANGED <<where, job, slots, began, draft, after, changed>> /\ Stay /\ SameCaches

\* SourceAbiClosure: what the unit mentions, with its supertypes
CollectNeeds ==
  /\ At("nested") /\ todo = {}
  /\ todo' = UNION {{c} \cup Mentions[c] \cup Parents[c] : c \in Collected}
  /\ seen' = {}
  /\ Goto("needs")
  /\ UNCHANGED <<readerVars, job, slots, unit, began, draft, after, changed>>
  /\ Stay /\ SameCode /\ SameCaches

LoadNeed(d) ==
  /\ At("needs") /\ d \in todo
  /\ LoadClass(d)
  /\ seen' = seen \cup {d}
  /\ todo' = (todo \cup IF d \in loaded' THEN Parents[d] ELSE {}) \ seen'
  /\ UNCHANGED <<where, job, slots, unit, began, draft, after, changed>>
  /\ Stay /\ SameCode /\ SameCaches

NeedsLoaded ==
  /\ At("needs") /\ todo = {}
  /\ Goto(IF request.kind = "method" THEN "roots" ELSE "ensure")
  /\ after' = IF job # Absent THEN "jobDone" ELSE "roots"
  /\ UNCHANGED <<readerVars, job, slots, unit, todo, seen, began, draft, changed>>
  /\ Stay /\ SameCode /\ SameCaches

EnterTermination ==
  /\ At("roots")
  /\ SetRoots(ContractRoots(Collected))
  /\ todo' = UNION {Callees[c] : c \in Collected}
  /\ seen' = {}
  /\ Goto("terminate")
  /\ UNCHANGED <<readerVars, job, slots, unit, began, draft, after, changed>>
  /\ Stay /\ SameCode

\* method_termination: the callees that can be had are decoded, the others
\* are passed over.
Callee(t) ==
  /\ At("terminate") /\ t \in todo
  /\ \/ /\ t \in Collected \cup seen \/ Answer(t) # "some"
        /\ todo' = todo \ {t}
        /\ UNCHANGED readerVars /\ SameCode
     \/ /\ t \notin Collected \cup seen /\ Answer(t) = "some"
        /\ LoadClass(t)
        /\ cfgs' = WithDecoded({t}, revision') /\ cacheRevision' = revision'
        /\ UNCHANGED retain
        /\ todo' = (todo \cup Callees[t]) \ {t}
  /\ seen' = seen \cup {t}
  /\ UNCHANGED <<where, job, slots, unit, began, draft, after, changed>> /\ Stay /\ SameCaches

Ended(bodies) ==
  [c \in Classes |-> IF bodies[c] = Absent THEN Absent ELSE [bodies[c] EXCEPT !.ended = TRUE]]
Resolved(bodies) ==
  [c \in Classes |-> IF bodies[c] = Absent THEN Absent ELSE [bodies[c] EXCEPT !.resolved = TRUE]]

Terminate ==
  /\ At("terminate") /\ todo = {}
  /\ unit' = Ended(unit)
  /\ Goto("prepare")
  /\ UNCHANGED <<readerVars, job, slots, todo, seen, began, draft, after, changed>>
  /\ Stay /\ SameCode /\ SameCaches

-----------------------------------------------------------------------------
(* ensure_override_analysis                                                *)

\* The steps below change the reader, where and the work list only.
OnlyReader == UNCHANGED <<job, slots, unit, began, draft, changed>> /\ Stay
              /\ SameCode /\ SameCaches

Ensure ==
  /\ At("ensure") /\ Goto(IF analysis = "Ready" THEN after ELSE "closure")
  /\ UNCHANGED <<readerVars, todo, seen, after>> /\ OnlyReader

\* load_source_hierarchy_closure, before and after the member types
LoadParent(p) ==
  /\ where \in {"closure", "closureAgain"} /\ p \in Orphaned
  /\ LoadClass(p)
  /\ UNCHANGED <<where, todo, seen, after>> /\ OnlyReader

HierarchyClosed ==
  /\ Orphaned = {}
  /\ \/ At("closure") /\ Goto("members") /\ todo' = Undeclared
     \/ At("closureAgain") /\ Goto("analyse") /\ UNCHANGED todo
  /\ UNCHANGED <<readerVars, seen, after>> /\ OnlyReader

\* load_hierarchy_member_types
LoadMember(m) ==
  /\ At("members") /\ m \in todo
  /\ LoadClass(m)
  /\ todo' = todo \ {m}
  /\ UNCHANGED <<where, seen, after>> /\ OnlyReader

MembersLoaded ==
  /\ At("members") /\ todo = {} /\ Goto("closureAgain")
  /\ UNCHANGED <<readerVars, todo, seen, after>> /\ OnlyReader

Analyse ==
  /\ At("analyse") /\ AnalyseOverrides /\ Goto(after)
  /\ UNCHANGED <<todo, seen, after>> /\ OnlyReader

-----------------------------------------------------------------------------
(* Source ABIs and the hierarchy.                                          *)

\* type_hierarchy
WithHierarchy == hierarchy' = IF Current(hierarchy) THEN hierarchy ELSE Made

\* prepare_java_source_abi: decodes the lambdas and takes the hierarchy.
PrepareJava ==
  \/ Current(javaAbi) /\ SameCaches /\ SameCode
  \/ /\ ~Current(javaAbi)
     /\ javaAbi' = Made
     /\ WithHierarchy
     /\ UNCHANGED <<kotlinAbi, roots>>
     /\ \/ /\ FunctionObjects \cap loaded = {} /\ SameCode
        \/ /\ FunctionObjects \cap loaded # {}
           /\ cfgs' = WithDecoded(FunctionObjects \cap loaded, revision)
           /\ cacheRevision' = revision /\ UNCHANGED retain

\* The end of a round of kotlin_source_abi: analysed again if the classes it
\* asked for were loaded.
EndKotlinRound(goal) ==
  \/ /\ revision = draft.revision
     /\ kotlinAbi' = draft
     /\ UNCHANGED <<hierarchy, javaAbi, roots>>
     /\ draft' = Absent /\ Goto(goal)
  \/ /\ revision # draft.revision
     /\ SameCaches
     /\ draft' = Absent /\ Goto("kotlin")

\* Where kotlin_source_abi was called from.
KotlinGoal == IF retain THEN IF \A c \in Classes : slots[c] # "open" THEN "abandon" ELSE "resolve"
              ELSE "stable"

\* kotlin_source_abi: what it asks for, each class once
AnalyseKotlin ==
  /\ At("kotlin")
  /\ \/ /\ Current(kotlinAbi) /\ Goto(KotlinGoal)
        /\ UNCHANGED <<todo, draft>>
     \/ /\ ~Current(kotlinAbi) /\ Goto("kotlinDeps")
        /\ draft' = Made
        /\ todo' = ContractOwners(loaded, roots) \ seen
  /\ UNCHANGED <<readerVars, job, slots, unit, seen, began, after, changed>>
  /\ Stay /\ SameCode /\ SameCaches

LoadDependency(d) ==
  /\ where \in {"kotlinDeps", "archiveDeps"} /\ d \in todo
  /\ LoadClass(d)
  /\ todo' = todo \ {d} /\ seen' = seen \cup {d}
  /\ UNCHANGED <<where, after>> /\ OnlyReader

DependenciesLoaded ==
  /\ At("kotlinDeps") /\ todo = {}
  /\ EndKotlinRound(KotlinGoal)
  /\ UNCHANGED <<readerVars, job, slots, unit, todo, seen, began, after, changed>>
  /\ Stay /\ SameCode

-----------------------------------------------------------------------------
(* prepare_source_backend and the rendering of one unit.                   *)

Prepare ==
  /\ At("prepare")
  /\ began' = revision
  /\ after' = "context" /\ Goto("ensure")
  /\ UNCHANGED <<readerVars, job, slots, unit, todo, seen, draft, changed>>
  /\ Stay /\ SameCode /\ SameCaches

PrepareContext ==
  /\ At("context")
  /\ \/ /\ "java" \in request.languages
        /\ PrepareJava /\ Goto("stable") /\ UNCHANGED seen
     \/ /\ "kotlin" \in request.languages
        /\ SameCaches /\ SameCode /\ Goto("kotlin") /\ seen' = {}
  /\ UNCHANGED <<readerVars, job, slots, unit, todo, began, draft, after, changed>> /\ Stay

\* Mutant: the context is prepared once.
PreparedOnce ==
  /\ At("stable") /\ Goto("hierarchy")
  /\ UNCHANGED <<readerVars, todo, seen, after>> /\ OnlyReader

\* Preparing may load classes; then it is done again.
Prepared ==
  /\ At("stable") /\ Goto(IF revision = began THEN "hierarchy" ELSE "prepare")
  /\ UNCHANGED <<readerVars, todo, seen, after>> /\ OnlyReader

TakeHierarchy ==
  /\ At("hierarchy") /\ WithHierarchy /\ Goto("render")
  /\ UNCHANGED <<readerVars, javaAbi, kotlinAbi, roots, frameVars>> /\ Stay /\ SameCode

\* generate_class or generate_method: java_source_abi and kotlin_source_abi
\* are taken from the caches (RenderIsPrepared says that they are current).
Render ==
  /\ At("render")
  /\ \/ request.isolated /\ ClearScope
     \/ ~request.isolated /\ UNCHANGED <<readerVars, aborted>> /\ SameCode /\ SameCaches
  /\ first' = IF ~request.isolated THEN first
              ELSE [k \in DOMAIN first |->
                      IF k \in request.languages \X {request.class} THEN loaded ELSE first[k]]
  /\ ClearFrame
  /\ UNCHANGED requests

-----------------------------------------------------------------------------
(* An archive pass: generate_classes, generate_archive_classes.            *)

\* load_archive_selection: the classes asked for, then those nested in them
SelectClass(b) ==
  /\ At("select") /\ b \in todo
  /\ InsertClass(b)
  /\ changed' = (changed \/ loaded' # loaded)
  /\ todo' = todo \ {b}
  /\ UNCHANGED <<where, job, slots, unit, seen, began, draft, after>>
  /\ Stay /\ SameCode /\ SameCaches

SelectNested ==
  /\ At("select") /\ todo = {}
  /\ EndInserting(changed)
  /\ changed' = FALSE
  /\ todo' = IF IncludeNested THEN (UNION {Members[b] : b \in seen \cap linked'}) \ seen
             ELSE {}
  /\ seen' = seen \cup todo'
  /\ Goto(IF todo' = {} THEN "retain" ELSE "select")
  /\ UNCHANGED <<job, slots, unit, began, draft, after>>
  /\ Stay /\ SameCode /\ SameCaches

Retain ==
  /\ At("retain") /\ retain' = TRUE
  /\ after' = "prefetch" /\ Goto("ensure")
  /\ UNCHANGED <<readerVars, cfgs, cacheRevision, job, slots, unit, todo, seen,
                 began, draft, changed>>
  /\ Stay /\ SameCaches

\* prefetch_decoded_methods
Prefetch ==
  /\ At("prefetch") /\ Goto("abiBefore")
  /\ cfgs' = [c \in Classes |-> IF c \in loaded /\ cfgs[c] = Absent THEN Code(FALSE, FALSE)
                                ELSE cfgs[c]]
  /\ cacheRevision' = revision /\ UNCHANGED retain
  /\ UNCHANGED <<readerVars, frameVars>> /\ Stay /\ SameCaches

\* prepare_archive_source_abi_before_termination
RootsBefore ==
  /\ At("abiBefore") /\ Goto("javaBefore")
  /\ IF "kotlin" \in request.languages THEN SetRoots(ContractRoots(Decoded)) ELSE SameCaches
  /\ UNCHANGED <<readerVars, frameVars>> /\ Stay /\ SameCode

JavaBefore ==
  /\ At("javaBefore") /\ Goto("archiveTermination")
  /\ IF "java" \in request.languages THEN PrepareJava ELSE SameCaches /\ SameCode
  /\ UNCHANGED <<readerVars, frameVars>> /\ Stay

\* apply_archive_termination
ArchiveTermination ==
  /\ At("archiveTermination") /\ Goto("abiAfter")
  /\ cfgs' = Ended(cfgs) /\ UNCHANGED <<cacheRevision, retain>>
  /\ UNCHANGED <<readerVars, frameVars>> /\ Stay /\ SameCaches

\* prepare_archive_source_abi_after_termination: the Kotlin ABI from the CFGs
\* at hand, or by kotlin_source_abi if that asks for more classes
KotlinFromArchive ==
  /\ At("abiAfter")
  /\ \/ /\ "kotlin" \notin request.languages \/ Current(kotlinAbi)
        /\ Goto("resolve") /\ UNCHANGED <<todo, seen, draft>>
     \/ /\ "kotlin" \in request.languages /\ ~Current(kotlinAbi)
        /\ Goto("archiveDeps") /\ draft' = Made
        /\ todo' = ContractOwners(loaded, roots) /\ seen' = {}
  /\ UNCHANGED <<readerVars, job, slots, unit, began, after, changed>>
  /\ Stay /\ SameCode /\ SameCaches

ArchiveDependenciesLoaded ==
  /\ At("archiveDeps") /\ todo = {}
  /\ EndKotlinRound("resolve")
  /\ seen' = {}
  /\ UNCHANGED <<readerVars, job, slots, unit, todo, began, after, changed>>
  /\ Stay /\ SameCode

\* Mutant: only the classes asked for are resolved.
ResolveRequested ==
  /\ At("resolve") /\ Goto("jobs")
  /\ cfgs' = [c \in Classes |-> IF c \in request.class THEN Resolved(cfgs)[c] ELSE cfgs[c]]
  /\ UNCHANGED <<cacheRevision, retain>>
  /\ WithHierarchy /\ UNCHANGED <<javaAbi, kotlinAbi, roots>>
  /\ UNCHANGED <<readerVars, frameVars>> /\ Stay

\* resolve_archive_method_symbols
ResolveArchive ==
  /\ At("resolve") /\ Goto("jobs")
  /\ cfgs' = Resolved(cfgs) /\ UNCHANGED <<cacheRevision, retain>>
  /\ WithHierarchy /\ UNCHANGED <<javaAbi, kotlinAbi, roots>>
  /\ UNCHANGED <<readerVars, frameVars>> /\ Stay

StartJob(j) ==
  /\ At("jobs") /\ slots[j] = "open"
  /\ job' = j /\ Goto("outer")
  /\ UNCHANGED <<readerVars, slots, unit, todo, seen, began, draft, after, changed>>
  /\ Stay /\ SameCode /\ SameCaches

EndJob ==
  /\ At("jobDone") /\ Goto("jobs")
  /\ slots' = [slots EXCEPT ![job] = "ready"]
  /\ job' = Absent /\ unit' = NoCode
  /\ UNCHANGED <<readerVars, todo, seen, began, draft, after, changed>>
  /\ Stay /\ SameCode /\ SameCaches

\* What the whole pass is rendered with.
JobsDone ==
  /\ At("jobs") /\ \A j \in Classes : slots[j] # "open"
  /\ Goto("finish")
  /\ UNCHANGED <<readerVars, todo, seen, after>> /\ OnlyReader

FinishHierarchy ==
  /\ At("finish") /\ Goto("finishJava") /\ WithHierarchy
  /\ UNCHANGED <<javaAbi, kotlinAbi, roots>>
  /\ UNCHANGED <<readerVars, frameVars>> /\ Stay /\ SameCode

FinishJava ==
  /\ At("finishJava")
  /\ IF "java" \in request.languages THEN PrepareJava ELSE SameCaches /\ SameCode
  /\ Goto(IF "kotlin" \in request.languages THEN "kotlin" ELSE "abandon")
  /\ seen' = {}
  /\ UNCHANGED <<readerVars, job, slots, unit, todo, began, draft, after, changed>> /\ Stay

\* Mutant: the decoded methods outlive the pass.
AbandonKeepsCode ==
  /\ At("abandon")
  /\ ClearLoaded
  /\ cacheRevision' = revision' /\ retain' = FALSE /\ UNCHANGED cfgs
  /\ aborted' = FALSE
  /\ ClearFrame
  /\ SameCaches /\ UNCHANGED <<requests, first>>

\* abandon_archive_buffers, and the rendering of what was collected
Abandon ==
  /\ At("abandon")
  /\ ClearLoaded
  /\ cfgs' = NoCode /\ cacheRevision' = revision' /\ retain' = FALSE
  /\ aborted' = FALSE
  /\ ClearFrame
  /\ SameCaches /\ UNCHANGED <<requests, first>>

-----------------------------------------------------------------------------
(* select of all classes: load_all_classes and the analysis of overrides.  *)

Define(c, larger) ==
  /\ At(IF larger THEN "redefinitions" ELSE "definitions") /\ c \in todo
  /\ InsertDefinition(c, larger)
  /\ changed' = (changed \/ <<loaded', enlarged'>> # <<loaded, enlarged>>)
  /\ todo' = todo \ {c}
  /\ UNCHANGED <<where, job, slots, unit, seen, began, draft, after>>
  /\ Stay /\ SameCode /\ SameCaches

NextDex ==
  /\ At("definitions") /\ todo = {}
  /\ todo' = Enlarged /\ Goto("redefinitions")
  /\ UNCHANGED <<readerVars, seen, after>> /\ OnlyReader

AllDefined ==
  /\ At("redefinitions") /\ todo = {}
  /\ EndInserting(changed)
  /\ changed' = FALSE
  /\ after' = "selected" /\ Goto("ensure")
  /\ UNCHANGED <<job, slots, unit, todo, seen, began, draft>>
  /\ Stay /\ SameCode /\ SameCaches

Selected ==
  /\ At("selected") /\ ClearFrame
  /\ UNCHANGED <<readerVars, requests, historyVars>> /\ SameCode /\ SameCaches

-----------------------------------------------------------------------------
Caller == BeginClass \/ BeginMethod \/ BeginOutline \/ BeginBatch \/ BeginAll
          \/ ClearBetween \/ TakeReader

\* The steps with which a request goes on.
UnitStep ==
  \/ Load \/ Scope \/ Outer \/ Collect \/ CollectNeeds \/ NeedsLoaded
  \/ EnterTermination \/ Terminate
  \/ \E c \in Classes : CollectNested(c) \/ LoadNeed(c) \/ Callee(c)
  \/ Prepare \/ PrepareContext \/ Prepared \/ TakeHierarchy \/ Render
EnsureStep ==
  \/ Ensure \/ HierarchyClosed \/ MembersLoaded \/ Analyse
  \/ \E c \in Classes : LoadParent(c) \/ LoadMember(c)
KotlinStep ==
  \/ AnalyseKotlin \/ DependenciesLoaded \/ ArchiveDependenciesLoaded
  \/ \E c \in Classes : LoadDependency(c)
ArchiveStep ==
  \/ SelectNested \/ Retain \/ Prefetch \/ RootsBefore \/ JavaBefore
  \/ ArchiveTermination \/ KotlinFromArchive \/ ResolveArchive
  \/ EndJob \/ JobsDone \/ FinishHierarchy \/ FinishJava \/ Abandon
  \/ \E c \in Classes : SelectClass(c) \/ StartJob(c)
SelectAllStep ==
  \/ NextDex \/ AllDefined \/ Selected
  \/ \E c \in Classes, larger \in BOOLEAN : Define(c, larger)

Continue == UnitStep \/ EnsureStep \/ KotlinStep \/ ArchiveStep \/ SelectAllStep
            \/ FailJob \/ FailRequest

Next == Caller \/ Continue

Spec == Init /\ [][Next]_vars

\* The thread that has called runs on; nobody has to call.
FairSpec == Spec /\ WF_vars(Continue)

-----------------------------------------------------------------------------
Caches == {Absent} \cup Analyses
Kinds == {"none", "class", "method", "outline", "batch", "all"}

CachesTypeOK ==
  /\ hierarchy \in Caches /\ javaAbi \in Caches /\ kotlinAbi \in Caches
  /\ draft \in Caches
  /\ roots \subseteq Classes

CodeTypeOK ==
  /\ cfgs \in [Classes -> {Absent} \cup Bodies]
  /\ unit \in [Classes -> {Absent} \cup Bodies]
  /\ cacheRevision \in Nat
  /\ retain \in BOOLEAN

RequestTypeOK ==
  /\ where \in Places /\ after \in Places
  /\ request \in [kind : Kinds, class : {Absent} \cup Classes \cup SUBSET Classes,
                  languages : SUBSET Languages, isolated : BOOLEAN, cancelled : BOOLEAN]
  /\ job \in Classes \cup {Absent}
  /\ slots \in [Classes -> {Absent, "open", "ready", "failed"}]
  /\ todo \subseteq Classes /\ seen \subseteq Classes
  /\ began \in Nat /\ requests \in Nat
  /\ changed \in BOOLEAN /\ aborted \in BOOLEAN
  /\ first \in [Languages \X Classes -> {Absent} \cup SUBSET Classes]

TypeOK == ReaderTypeOK /\ CachesTypeOK /\ CodeTypeOK /\ RequestTypeOK

\* What the revision vouches for: the loaded classes but for those of a load
\* that has not come to its end.
Vouched == loaded \ unmarked

OfVouched(cache) == Current(cache) => cache.of \subseteq loaded /\ Vouched \subseteq cache.of

(***************************************************************************)
(* One revision, one class graph: whatever was loaded, cleared, analysed   *)
(* or abandoned, and wherever a request failed, everything derived from    *)
(* the classes under the current revision (links to nested classes,        *)
(* overrides, hierarchy and both ABIs) was derived from the classes that   *)
(* are loaded, but for those that a failed batch has left behind.          *)
(***************************************************************************)
RevisionVouches ==
  /\ Vouched \subseteq linked
  /\ analysis = "Ready" => analysed \subseteq loaded /\ Vouched \subseteq analysed
  /\ OfVouched(hierarchy) /\ OfVouched(javaAbi) /\ OfVouched(kotlinAbi)

(***************************************************************************)
(* Source is generated from what was prepared for it: when a request       *)
(* reaches the generator, overrides are analysed, the hierarchy, the ABI   *)
(* of its language and the contract roots are those of the classes now     *)
(* loaded and of the code of this unit.  So java_source_abi never falls    *)
(* back to its bare analysis and the generator's own call of               *)
(* kotlin_source_abi never loads a class.                                  *)
(***************************************************************************)
RenderIsPrepared ==
  At("render") =>
    /\ analysis = "Ready" /\ Current(hierarchy)
    /\ "java" \in request.languages => Current(javaAbi)
    /\ "kotlin" \in request.languages => Current(kotlinAbi)
    /\ roots = ContractRoots(Collected)

(***************************************************************************)
(* The cached code of a method is resolved and whole, as decode_method     *)
(* made it; termination is applied to the copies that a unit renders, and  *)
(* to all of those.  Only an archive pass that failed half-way leaves      *)
(* other code behind (method_irs is not cleared then).                     *)
(***************************************************************************)
CodeIsWhole ==
  /\ ~retain /\ ~aborted => \A c \in Decoded : cfgs[c] = Code(TRUE, FALSE)
  /\ At("render") => \A c \in Collected : unit[c].ended /\ (unit[c].resolved \/ aborted)

\* c is nested in b, at any depth the archive has.
NestedIn(c, b) ==
  \A S \in SUBSET Classes :
    Members[b] \subseteq S /\ (\A d \in S : Members[d] \subseteq S) => c \in S

\* The unit of source that is made for b.
InUnit(c, b) == c = b \/ NestedIn(c, b)

(***************************************************************************)
(* What an archive pass hands to the parallel renderers has all its        *)
(* symbols resolved, and the code after calls that never return cut off,   *)
(* except for a class that is in the unit of another one listed as well    *)
(* (its code is taken by the one that comes first), and for what follows a *)
(* pass that failed (the classes it has inserted are not linked).          *)
(***************************************************************************)
JobsAreResolved ==
  At("jobDone") =>
    \A c \in Collected :
      /\ unit[c].resolved
      /\ unit[c].ended \/ aborted \/ \E b \in request.class \ {job} : InUnit(c, b)

(***************************************************************************)
(* generate_classes documents "one decode pass, one termination solve,     *)
(* then class generation": every body that an archive pass collects has    *)
(* been through it.                                                        *)
(***************************************************************************)
EveryBodyIsTerminated ==
  At("jobDone") => \A c \in Collected : unit[c].ended

(***************************************************************************)
(* An isolated request renders a class from the same class graph whatever  *)
(* was asked, loaded, abandoned or failed before it.                       *)
(***************************************************************************)
IsolatedRendersRepeat ==
  At("render") /\ request.isolated =>
    \A l \in request.languages : first[<<l, request.class>>] \in {Absent, loaded}

(***************************************************************************)
(* Every request ends: the closures, the rounds of the Kotlin ABI and the  *)
(* loop of prepare_source_backend come to a fixed point, also in an        *)
(* archive with recursive methods and with types that it does not define.  *)
(***************************************************************************)
EveryRequestEnds == ~At("idle") ~> At("idle")
=============================================================================
