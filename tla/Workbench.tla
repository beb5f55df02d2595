----------------------------- MODULE Workbench -----------------------------
(***************************************************************************)
(* The Workbench of dexdec-workbench (service.rs): the archive sessions,   *)
(* each behind its own mutex, the map of them behind another, and the      *)
(* calls of the GUI and of the MCP server, one thread each.                *)
(*                                                                         *)
(* A request (class, method, references, search) is begun by the thread    *)
(* that received it and then runs on a blocking worker; the other calls    *)
(* need no begin and take no lease.  Cancels are taken by other threads at *)
(* any time.  A step is what a thread does between two points where it     *)
(* can wait or be overtaken.  What the decompiler computes is left out:    *)
(* a pass over it ends, fails, panics or notices its cancellation.         *)
(***************************************************************************)
EXTENDS RequestRegistry

CONSTANTS
  Ops,          \* the operations clients use
  MaxSession,   \* bound: archives opened
  MaxCalls,     \* bound: calls made by the clients, all together
  MaxClasses,   \* bound: classes of an archive, the items of one search
  Panics,       \* whether a pass of the decompiler may panic
  NoCall

Searches == {"search"}
Requests == {"class", "method", "references", "search"}
Inspections == {"inspect", "symbols", "resource", "project"}
Management == {"open", "close", "projects", "cancelAll"}

ASSUME WorkbenchAssumption ==
  /\ MaxSession \in Nat /\ MaxCalls \in Nat /\ MaxClasses \in Nat
  /\ Panics \in BOOLEAN
  /\ SessionIds = 1..MaxSession
  /\ Domains = {"Interactive", "CodeSearch"}
  /\ Ops \subseteq Requests \cup Inspections \cup Management
  /\ NoCall \notin Calls
  /\ 0 \notin RequestIds

VARIABLES
  sessions,     \* Workbench.sessions: the ids in the map
  nextSession,  \* Workbench.next_session_id
  mapOwner,     \* the call that holds the mutex of the map across a wait
  holder,       \* the call that holds the mutex of each session
  poisoned,     \* the sessions whose mutex was poisoned by a panic
  observer,     \* the token of the session's RequestObserver, or none
  dirty,        \* whether its decompiler's analysis scope holds anything
  pc, op, at, rid,  \* of each call: where it is, its operation, session, id
  passes,       \* of each call: passes over the decompiler still to do
  todo,         \* of each call of projects(): the sessions still to visit
  calls         \* how many calls clients have made

sessionVars == <<sessions, nextSession, mapOwner, holder, poisoned, observer, dirty>>
callVars == <<op, at, rid, passes, todo, calls>>
vars == <<registryVars, sessionVars, pc, callVars>>

Domain(c) == IF op[c] \in Searches THEN "CodeSearch" ELSE "Interactive"
Key(c) == [domain |-> Domain(c), session |-> at[c], request |-> rid[c]]

MapFree == mapOwner = NoCall
FreeTokens == Free \ {observer[s] : s \in SessionIds}

\* An observer installed in a session keeps its token's address in use.
Init ==
  /\ RegistryInit
  /\ sessions = {} /\ nextSession = 1 /\ mapOwner = NoCall
  /\ holder = [s \in SessionIds |-> NoCall]
  /\ poisoned = {}
  /\ observer = [s \in SessionIds |-> NoToken]
  /\ dirty = [s \in SessionIds |-> FALSE]
  /\ pc = [c \in Calls |-> "idle"]
  /\ op = [c \in Calls |-> "none"]
  /\ at = [c \in Calls |-> 0]
  /\ rid = [c \in Calls |-> 0]
  /\ passes = [c \in Calls |-> 0]
  /\ todo = [c \in Calls |-> {}]
  /\ calls = 0

Goto(c, l) == pc' = [pc EXCEPT ![c] = l]

\* A client makes call c, of operation o, on session s with request id r.
Call(c, o, s, r, l) ==
  /\ pc[c] = "idle" /\ o \in Ops /\ calls < MaxCalls
  /\ Goto(c, l)
  /\ op' = [op EXCEPT ![c] = o]
  /\ at' = [at EXCEPT ![c] = s]
  /\ rid' = [rid EXCEPT ![c] = r]
  /\ calls' = calls + 1

\* The call returns to its client.
Return(c) ==
  /\ Goto(c, "idle")
  /\ op' = [op EXCEPT ![c] = "none"]
  /\ at' = [at EXCEPT ![c] = 0]
  /\ rid' = [rid EXCEPT ![c] = 0]
  /\ passes' = [passes EXCEPT ![c] = 0]
  /\ todo' = [todo EXCEPT ![c] = {}]
  /\ UNCHANGED calls

\* The end of an operation on a session: a request drops its lease next.
Leave(c) ==
  IF op[c] \in Requests
  THEN Goto(c, "finish") /\ UNCHANGED callVars
  ELSE Return(c)

----------------------------------------------------------------------------
\* The map of sessions: open, close, projects.

\* open: the archive is read and the id taken, then the session is inserted.
OpenArchive(c) ==
  /\ nextSession <= MaxSession
  /\ Call(c, "open", nextSession, 0, "insert")
  /\ nextSession' = nextSession + 1
  /\ UNCHANGED <<registryVars, sessions, mapOwner, holder, poisoned, observer,
                 dirty, passes, todo>>

InsertSession(c) ==
  /\ pc[c] = "insert" /\ MapFree
  /\ sessions' = sessions \cup {at[c]}
  /\ Return(c)
  /\ UNCHANGED <<registryVars, nextSession, mapOwner, holder, poisoned,
                 observer, dirty>>

\* close: first every request of the session is cancelled, then the session
\* leaves the map (SessionExpired if another close was faster).
CloseCancels(c, s) ==
  /\ s < nextSession
  /\ Call(c, "close", s, 0, "remove")
  /\ CancelProject(s)
  /\ UNCHANGED <<sessionVars, passes, todo>>

\* Mutant: the session is removed although the map is being listed.
RemoveUnlocked(c) ==
  /\ pc[c] = "remove"
  /\ sessions' = sessions \ {at[c]}
  /\ Return(c)
  /\ UNCHANGED <<registryVars, nextSession, mapOwner, holder, poisoned,
                 observer, dirty>>

RemoveSession(c) ==
  /\ pc[c] = "remove" /\ MapFree
  /\ sessions' = sessions \ {at[c]}
  /\ Return(c)
  /\ UNCHANGED <<registryVars, nextSession, mapOwner, holder, poisoned,
                 observer, dirty>>

\* projects: the map stays locked while every session is locked in turn.
ListProjects(c) ==
  /\ MapFree
  /\ Call(c, "projects", 0, 0, "list")
  /\ mapOwner' = c
  /\ todo' = [todo EXCEPT ![c] = sessions]
  /\ UNCHANGED <<registryVars, sessions, nextSession, holder, poisoned,
                 observer, dirty, passes>>

VisitProject(c, s) ==
  /\ pc[c] = "list" /\ s \in todo[c] \ poisoned /\ holder[s] = NoCall
  /\ todo' = [todo EXCEPT ![c] = @ \ {s}]
  /\ UNCHANGED <<registryVars, sessionVars, pc, op, at, rid, passes, calls>>

\* Mutant: a poisoned session is waited for.
EndListWaits(c) ==
  /\ pc[c] = "list" /\ todo[c] = {}
  /\ mapOwner' = NoCall
  /\ Return(c)
  /\ UNCHANGED <<registryVars, sessions, nextSession, holder, poisoned,
                 observer, dirty>>

\* All visited, or one found poisoned, which is the answer for all of them.
EndList(c) ==
  /\ pc[c] = "list"
  /\ \/ todo[c] = {}
     \/ \E s \in todo[c] : s \in poisoned /\ holder[s] = NoCall
  /\ mapOwner' = NoCall
  /\ Return(c)
  /\ UNCHANGED <<registryVars, sessions, nextSession, holder, poisoned,
                 observer, dirty>>

----------------------------------------------------------------------------
\* A request up to its session's mutex.

\* What the clients do: a request id is new among the requests under way, but
\* in the domains that reuse ids.  The panel of the code search has cancelled
\* its earlier search by then; a class or reference request has not been.
MayIssue(k) ==
  \A d \in Calls : op[d] \in Requests /\ Key(d) = k =>
    k.domain \in ReusedDomains /\ (k.domain = "CodeSearch" => d \in asked)

\* begin_request, begin_code_search: the session is looked up...
Request(c, o, s, r) ==
  /\ o \in Requests /\ MapFree /\ s \in sessions
  /\ MayIssue([domain  |-> IF o \in Searches THEN "CodeSearch" ELSE "Interactive",
               session |-> s, request |-> r])
  /\ Call(c, o, s, r, "begin")
  /\ UNCHANGED <<registryVars, sessionVars, passes, todo>>

\* ... and the request begun, after the lock of the map was let go.
BeginRequest(c) ==
  /\ pc[c] = "begin"
  /\ Begin(c, Key(c), FreeTokens)
  /\ Goto(c, "acquire")
  /\ UNCHANGED <<sessionVars, callVars>>

AcquireLease(c) ==
  /\ pc[c] = "acquire"
  /\ Acquire(c, FreeTokens)
  /\ Goto(c, "current")
  /\ UNCHANGED <<sessionVars, callVars>>

\* RequestLease::ensure_current
Current(c) == token[c] \notin flagged

\* The first ensure_current, before the session is looked up.
EnsureCurrent(c) ==
  /\ pc[c] = "current"
  /\ Goto(c, IF Current(c) THEN "lookup" ELSE "finish")
  /\ UNCHANGED <<registryVars, sessionVars, callVars>>

\* A closed session is an error, and so is the query of a search.
LookUp(c) ==
  /\ pc[c] = "lookup"
  /\ \/ MapFree /\ at[c] \in sessions /\ Goto(c, "lock")
     \/ MapFree /\ at[c] \notin sessions /\ Goto(c, "finish")
     \/ op[c] \in Searches /\ Goto(c, "finish")
  /\ UNCHANGED <<registryVars, sessionVars, callVars>>

\* The calls that take no lease look their session up and wait for it.
Inspect(c, o, s) ==
  /\ o \in Inspections /\ MapFree /\ s \in sessions
  /\ Call(c, o, s, 0, "lock")
  /\ UNCHANGED <<registryVars, sessionVars, passes, todo>>

\* The mutex of the session; a poisoned one is an error.
LockSession(c) ==
  /\ pc[c] = "lock" /\ holder[at[c]] = NoCall
  /\ UNCHANGED <<registryVars, sessions, nextSession, mapOwner, poisoned, observer>>
  /\ \/ at[c] \in poisoned /\ Leave(c) /\ UNCHANGED <<holder, dirty>>
     \/ /\ at[c] \notin poisoned
        /\ holder' = [holder EXCEPT ![at[c]] = c]
        /\ IF op[c] \in Requests
           THEN Goto(c, "locked") /\ UNCHANGED <<dirty, callVars>>
           ELSE /\ Goto(c, "work")
                /\ passes' = [passes EXCEPT ![c] = 1]
                /\ dirty' = [dirty EXCEPT ![at[c]] = @ /\ op[c] # "inspect"]
                /\ UNCHANGED <<op, at, rid, todo, calls>>

\* Mutant: the second check is left out.
SkipStillCurrent(c) ==
  /\ pc[c] = "locked"
  /\ Goto(c, "setup")
  /\ UNCHANGED <<registryVars, sessionVars, callVars>>

\* The second ensure_current, under the lock.
EnsureStillCurrent(c) ==
  /\ pc[c] = "locked"
  /\ Goto(c, IF Current(c) THEN "setup" ELSE "unlock")
  /\ UNCHANGED <<registryVars, sessionVars, callVars>>

----------------------------------------------------------------------------
\* A request under its session's mutex.

\* decompile_class checks its lease between the outline and the body, a
\* search before every class.
Passes(o) == CASE o = "class" -> 2 [] o = "search" -> MaxClasses [] OTHER -> 1

\* Mutant: find_references installs no observer.
SetUpWithoutObserver(c) ==
  /\ pc[c] = "setup"
  /\ \/ /\ op[c] # "references"
        /\ Goto(c, "unlock")
        /\ UNCHANGED <<observer, dirty, callVars>>
     \/ /\ observer' = [observer EXCEPT ![at[c]] =
                           IF op[c] = "references" THEN @ ELSE token[c]]
        /\ dirty' = [dirty EXCEPT ![at[c]] = @ /\ op[c] = "references"]
        /\ passes' = [passes EXCEPT ![c] = Passes(op[c])]
        /\ Goto(c, IF Passes(op[c]) > 0 THEN "work" ELSE "ensure")
        /\ UNCHANGED <<op, at, rid, todo, calls>>
  /\ UNCHANGED <<registryVars, sessions, nextSession, mapOwner, holder, poisoned>>

\* The scope is cleared (not by find_references), the options set and the
\* request's observer installed; an unsupported or unknown source language
\* ends the request before that.
SetUp(c) ==
  /\ pc[c] = "setup"
  /\ \/ /\ op[c] # "references"
        /\ Goto(c, "unlock")
        /\ UNCHANGED <<observer, dirty, callVars>>
     \/ /\ observer' = [observer EXCEPT ![at[c]] = token[c]]
        /\ dirty' = [dirty EXCEPT ![at[c]] = @ /\ op[c] = "references"]
        /\ passes' = [passes EXCEPT ![c] = Passes(op[c])]
        /\ Goto(c, IF Passes(op[c]) > 0 THEN "work" ELSE "ensure")
        /\ UNCHANGED <<op, at, rid, todo, calls>>
  /\ UNCHANGED <<registryVars, sessions, nextSession, mapOwner, holder, poisoned>>

\* The operations that load classes into the analysis scope.
Loads(o) == o \in {"class", "method", "search", "inspect"}

\* One pass over the decompiler: it may end as it should or be the last one,
\* because it failed, because the decompiler asked the observer and found it
\* cancelled, or because a search has all the results it may return.
Work(c) ==
  /\ pc[c] = "work"
  /\ \E d \in IF Loads(op[c]) THEN BOOLEAN ELSE {dirty[at[c]]} :
       dirty' = [dirty EXCEPT ![at[c]] = d]
  /\ \/ /\ passes' = [passes EXCEPT ![c] = @ - 1]
        /\ Goto(c, IF passes[c] > 1 \/ op[c] \in Searches
                   THEN "ensure" ELSE "teardown")
     \/ passes' = [passes EXCEPT ![c] = 0] /\ Goto(c, "teardown")
  /\ UNCHANGED <<registryVars, sessions, nextSession, mapOwner, holder,
                 poisoned, observer, op, at, rid, todo, calls>>

\* Mutant: one pass too many.
EnsureBetweenTooLong(c) ==
  /\ pc[c] = "ensure"
  /\ Goto(c, IF Current(c) THEN "work" ELSE "teardown")
  /\ UNCHANGED <<registryVars, sessionVars, callVars>>

\* ensure_current between two passes, and after the last item of a search.
EnsureBetween(c) ==
  /\ pc[c] = "ensure"
  /\ Goto(c, IF Current(c) /\ passes[c] > 0 THEN "work" ELSE "teardown")
  /\ UNCHANGED <<registryVars, sessionVars, callVars>>

\* Mutants: the scope, or the observer, stays.
TearDownKeepsScope(c) ==
  /\ pc[c] = "teardown"
  /\ observer' = [observer EXCEPT ![at[c]] =
                    IF op[c] \in Requests THEN NoToken ELSE @]
  /\ Goto(c, "unlock")
  /\ UNCHANGED <<registryVars, sessions, nextSession, mapOwner, holder,
                 poisoned, dirty, callVars>>
TearDownKeepsObserver(c) ==
  /\ pc[c] = "teardown"
  /\ dirty' = [dirty EXCEPT ![at[c]] =
                 @ /\ op[c] \notin Requests \cup {"inspect"}]
  /\ Goto(c, "unlock")
  /\ UNCHANGED <<registryVars, sessions, nextSession, mapOwner, holder,
                 poisoned, observer, callVars>>

\* Whatever the result was, the observer is removed and the scope cleared.
\* inspect_class clears the scope too; the others leave all as it was.
TearDown(c) ==
  /\ pc[c] = "teardown"
  /\ observer' = [observer EXCEPT ![at[c]] =
                    IF op[c] \in Requests THEN NoToken ELSE @]
  /\ dirty' = [dirty EXCEPT ![at[c]] =
                 @ /\ op[c] \notin Requests \cup {"inspect"}]
  /\ Goto(c, "unlock")
  /\ UNCHANGED <<registryVars, sessions, nextSession, mapOwner, holder,
                 poisoned, callVars>>

\* The guard of the session is dropped, and its Arc with it.
UnlockSession(c) ==
  /\ pc[c] = "unlock"
  /\ holder' = [holder EXCEPT ![at[c]] = NoCall]
  /\ Leave(c)
  /\ UNCHANGED <<registryVars, sessions, nextSession, mapOwner, poisoned,
                 observer, dirty>>

\* Mutant: a mutex that does not record panics.
PanicUnnoticed(c) ==
  /\ Panics /\ pc[c] \in {"setup", "work"} /\ op[c] # "project"
  /\ holder' = [holder EXCEPT ![at[c]] = NoCall]
  /\ \E d \in BOOLEAN : dirty' = [dirty EXCEPT ![at[c]] = d]
  /\ Leave(c)
  /\ UNCHANGED <<registryVars, sessions, nextSession, mapOwner, poisoned, observer>>

\* A panic unwinds through the guard, which poisons the mutex, and through
\* the lease; nothing resets the observer or the scope.
Panic(c) ==
  /\ Panics /\ pc[c] \in {"setup", "work"} /\ op[c] # "project"
  /\ poisoned' = poisoned \cup {at[c]}
  /\ holder' = [holder EXCEPT ![at[c]] = NoCall]
  /\ \E d \in BOOLEAN : dirty' = [dirty EXCEPT ![at[c]] = d]
  /\ Leave(c)
  /\ UNCHANGED <<registryVars, sessions, nextSession, mapOwner, observer>>

\* RequestLease::drop
FinishLease(c) ==
  /\ pc[c] = "finish"
  /\ Finish(c)
  /\ Return(c)
  /\ UNCHANGED sessionVars

----------------------------------------------------------------------------
\* Mutant: the entries of the project are removed as they are cancelled.
CancelRequestsDrains(s) ==
  /\ active' = [k \in Keys |-> IF k.session = s THEN NoToken ELSE active[k]]
  /\ flagged' = flagged \cup ({active[k] : k \in {l \in Keys : l.session = s}} \ {NoToken})
  /\ asked' = asked \cup {c \in Calls : InFlight(c) /\ key[c].session = s}
  /\ UNCHANGED <<key, token, crossed, sessionVars, pc, callVars>>

\* cancel_request, cancel_code_search and cancel_requests, cancel_all_requests.
CancelRequest(k) == Cancel(k) /\ UNCHANGED <<sessionVars, pc, callVars>>
CancelRequests(s) == CancelProject(s) /\ UNCHANGED <<sessionVars, pc, callVars>>
CancelAllRequests ==
  "cancelAll" \in Ops /\ CancelAll /\ UNCHANGED <<sessionVars, pc, callVars>>

Client(c) ==
  \/ OpenArchive(c) \/ ListProjects(c)
  \/ \E s \in SessionIds :
       \/ CloseCancels(c, s)
       \/ \E o \in Inspections : Inspect(c, o, s)
       \/ \E o \in Requests, r \in RequestIds : Request(c, o, s, r)

Server(c) ==
  \/ InsertSession(c) \/ RemoveSession(c)
  \/ EndList(c) \/ \E s \in SessionIds : VisitProject(c, s)
  \/ BeginRequest(c) \/ AcquireLease(c) \/ EnsureCurrent(c) \/ LookUp(c)
  \/ LockSession(c) \/ EnsureStillCurrent(c)
  \/ SetUp(c) \/ Work(c) \/ EnsureBetween(c) \/ TearDown(c)
  \/ UnlockSession(c) \/ FinishLease(c)

Next ==
  \/ \E c \in Calls : Client(c) \/ Server(c) \/ Panic(c)
  \/ \E k \in Keys : CancelRequest(k)
  \/ \E s \in SessionIds : CancelRequests(s)
  \/ CancelAllRequests

Spec == Init /\ [][Next]_vars

\* A thread that can take a step of the service takes it in the end; clients
\* need not call, cancel or panic.
FairSpec == Spec /\ \A c \in Calls : WF_vars(Server(c))

----------------------------------------------------------------------------
Labels == {"idle", "insert", "remove", "list", "begin", "acquire", "current",
           "lookup", "lock", "locked", "setup", "work", "ensure", "teardown",
           "unlock", "finish"}

\* Where a call holds the mutex of its session, and where it has its
\* observer installed.
Locked(c) == pc[c] \in {"locked", "setup", "work", "ensure", "teardown", "unlock"}
Working(c) == pc[c] \in {"work", "ensure", "teardown"}

TypeOK ==
  /\ RegistryTypeOK
  /\ sessions \subseteq SessionIds
  /\ nextSession \in 1..(MaxSession + 1)
  /\ mapOwner \in Calls \cup {NoCall}
  /\ holder \in [SessionIds -> Calls \cup {NoCall}]
  /\ poisoned \subseteq SessionIds
  /\ observer \in [SessionIds -> Tokens \cup {NoToken}]
  /\ dirty \in [SessionIds -> BOOLEAN]
  /\ pc \in [Calls -> Labels]
  /\ op \in [Calls -> Ops \cup {"none"}]
  /\ at \in [Calls -> SessionIds \cup {0}]
  /\ rid \in [Calls -> RequestIds \cup {0}]
  /\ passes \in [Calls -> 0..(MaxClasses + 2)]
  /\ todo \in [Calls -> SUBSET SessionIds]
  /\ calls \in 0..MaxCalls

\* A session no call is using keeps nothing of the requests it served, on
\* every way out of them: no observer, whose stale flag would stop the next
\* call, and no analysis scope, which find_references does not clear before
\* it starts.
FreeSessionIsClean ==
  \A s \in SessionIds : holder[s] = NoCall /\ s \notin poisoned =>
    observer[s] = NoToken /\ ~dirty[s]

\* The decompiler asks the observer of the request it is working for: no
\* call is stopped by another's cancellation, none works past its own
\* because it asks another's token, and no two calls are in one decompiler.
ObserverIsOwn ==
  \A c \in Calls : Working(c) =>
    /\ holder[at[c]] = c
    /\ observer[at[c]] =
         IF op[c] \in Requests THEN token[c] ELSE NoToken

\* A request that was cancelled or superseded before its worker checked its
\* lease never enters the decompiler again, wherever it was: queued, waiting
\* for the session, or between two classes of a search, and whether or not its
\* id is used again meanwhile.  Excepted are the calls that share a token
\* because their id was begun again while the earlier was queued.
CancelledNeverResumes ==
  [][\A c \in Calls :
       c \in asked \ crossed /\ pc[c] \notin {"setup", "work"} => pc'[c] \notin {"setup", "work"}
    ]_vars

\* The answer of projects is a picture of one moment: sessions are neither
\* opened nor closed between its first visit and its last, long as it may
\* wait for the sessions in use.
ListIsSnapshot ==
  [][\A c \in Calls : pc[c] = "list" => sessions' = sessions]_vars

\* No call waits for ever: the map is locked while sessions are locked, and
\* never the other way round, and a panic leaves no mutex held.
EveryCallReturns == \A c \in Calls : pc[c] # "idle" ~> pc[c] = "idle"
=============================================================================
