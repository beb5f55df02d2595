-------------------------- MODULE RequestRegistry --------------------------
(***************************************************************************)
(* The request registry of dexdec-workbench (service.rs, RequestRegistry   *)
(* and RequestLease): how a client that has handed a request to a worker   *)
(* thread still reaches it to cancel it.                                   *)
(*                                                                         *)
(* Every operation of the registry runs under its one mutex, so each is    *)
(* one atomic action here.  A request goes through the registry in three   *)
(* steps, usually taken by different threads: it is begun (begin_request   *)
(* in the thread that received it), acquired (the worker takes its lease)  *)
(* and finished (the lease is dropped).  Cancels come at any time.         *)
(*                                                                         *)
(* A token is the identity of one Arc<AtomicBool>.  finish compares        *)
(* tokens by address, and an address is used again once nothing refers     *)
(* to it, so a new Arc here is any token that is not in use.               *)
(***************************************************************************)
EXTENDS Naturals, FiniteSets

CONSTANTS
  Calls,          \* the requests a client may have under way at one time
  Domains,        \* RequestDomain: Interactive and CodeSearch
  SessionIds, RequestIds,
  Tokens,         \* the addresses an Arc<AtomicBool> can have
  NoToken, NoKey,
  ReusedDomains   \* the domains in which a client may begin an id again
                  \* while an earlier request with that id is under way

ASSUME RegistryAssumption ==
  /\ NoToken \notin Tokens
  /\ ReusedDomains \subseteq Domains

\* RequestKey
Keys == [domain : Domains, session : SessionIds, request : RequestIds]

ASSUME KeyAssumption == NoKey \notin Keys

VARIABLES
  active,    \* RequestRegistry.active: the token registered for each key
  flagged,   \* the tokens whose AtomicBool is true
  key,       \* the key of each call that has been begun
  token,     \* the token of each call that holds its RequestLease
  asked,     \* history: the calls that were cancelled, or superseded by a
             \* begin of the same key, since they were begun
  crossed    \* history: the calls that had no lease yet when another call of
             \* their key was begun, and that other call

registryVars == <<active, flagged, key, token, asked, crossed>>

InFlight(c) == key[c] # NoKey
Leased(c)   == token[c] # NoToken
WithKey(k)  == {c \in Calls : key[c] = k}
Queued(k)   == {c \in WithKey(k) : ~Leased(c)}

\* The addresses no live Arc of the registry or of a lease has.
Free == Tokens \ ({active[k] : k \in Keys} \cup {token[c] : c \in Calls})

RegistryInit ==
  /\ active = [k \in Keys |-> NoToken]
  /\ flagged = {}
  /\ key = [c \in Calls |-> NoKey]
  /\ token = [c \in Calls |-> NoToken]
  /\ asked = {}
  /\ crossed = {}

----------------------------------------------------------------------------
\* RequestRegistry::begin.  The entry is replaced whatever it was, and the
\* token it held, if any, is flagged.
Begin(c, k, free) ==
  /\ ~InFlight(c)
  /\ \E t \in free :
       /\ active' = [active EXCEPT ![k] = t]
       /\ flagged' = (flagged \ {t}) \cup ({active[k]} \ {NoToken})
  /\ key' = [key EXCEPT ![c] = k]
  /\ asked' = asked \cup WithKey(k)
  /\ crossed' = crossed \cup Queued(k) \cup (IF Queued(k) = {} THEN {} ELSE {c})
  /\ UNCHANGED token

\* Mutant: the worker registers a token of its own (insert for or_insert_with).
AcquireInserts(c, free) ==
  /\ InFlight(c) /\ ~Leased(c)
  /\ \E t \in free :
       /\ active' = [active EXCEPT ![key[c]] = t]
       /\ token' = [token EXCEPT ![c] = t]
       /\ flagged' = flagged \ {t}
  /\ UNCHANGED <<key, asked, crossed>>

\* RequestRegistry::acquire.  The lease shares the registered token; a key
\* with no entry gets a new one.
Acquire(c, free) ==
  /\ InFlight(c) /\ ~Leased(c)
  /\ \/ /\ active[key[c]] # NoToken
        /\ token' = [token EXCEPT ![c] = active[key[c]]]
        /\ UNCHANGED <<active, flagged>>
     \/ /\ active[key[c]] = NoToken
        /\ \E t \in free :
             /\ active' = [active EXCEPT ![key[c]] = t]
             /\ token' = [token EXCEPT ![c] = t]
             /\ flagged' = flagged \ {t}
  /\ UNCHANGED <<key, asked, crossed>>

\* The tokens registered for the keys in K are flagged.
Flag(K) ==
  /\ flagged' = flagged \cup ({active[k] : k \in K} \ {NoToken})
  /\ asked' = asked \cup {c \in Calls : key[c] \in K}
  /\ UNCHANGED <<active, key, token, crossed>>

\* RequestRegistry::cancel, cancel_project and cancel_all.
Cancel(k) == Flag({k})
CancelProject(s) == Flag({k \in Keys : k.session = s})
CancelAll == Flag(Keys)

\* Mutant: the entry of a cancelled request is left in the map.
FinishKeepsCancelled(c) ==
  /\ Leased(c)
  /\ active' = [active EXCEPT ![key[c]] =
                  IF @ = token[c] /\ @ \notin flagged THEN NoToken ELSE @]
  /\ key' = [key EXCEPT ![c] = NoKey]
  /\ token' = [token EXCEPT ![c] = NoToken]
  /\ asked' = asked \ {c} /\ crossed' = crossed \ {c}
  /\ UNCHANGED flagged

\* Mutant: the entry goes whatever token it holds (no Arc::ptr_eq).
FinishRemovesAny(c) ==
  /\ Leased(c)
  /\ active' = [active EXCEPT ![key[c]] = NoToken]
  /\ key' = [key EXCEPT ![c] = NoKey]
  /\ token' = [token EXCEPT ![c] = NoToken]
  /\ asked' = asked \ {c} /\ crossed' = crossed \ {c}
  /\ UNCHANGED flagged

\* RequestLease::drop, RequestRegistry::finish: the entry goes only if it is
\* still the token of this lease.
Finish(c) ==
  /\ Leased(c)
  /\ active' = [active EXCEPT ![key[c]] =
                  IF @ = token[c] THEN NoToken ELSE @]
  /\ key' = [key EXCEPT ![c] = NoKey]
  /\ token' = [token EXCEPT ![c] = NoToken]
  /\ asked' = asked \ {c} /\ crossed' = crossed \ {c}
  /\ UNCHANGED flagged

----------------------------------------------------------------------------
\* What the registry relies on its clients for.
MayBegin(k) == k.domain \in ReusedDomains \/ WithKey(k) = {}

RegistryNext ==
  \/ \E c \in Calls, k \in Keys : MayBegin(k) /\ Begin(c, k, Free)
  \/ \E c \in Calls : Acquire(c, Free) \/ Finish(c)
  \/ \E k \in Keys : Cancel(k)
  \/ \E s \in SessionIds : CancelProject(s)
  \/ CancelAll

RegistrySpec == RegistryInit /\ [][RegistryNext]_registryVars

----------------------------------------------------------------------------
RegistryTypeOK ==
  /\ active \in [Keys -> Tokens \cup {NoToken}]
  /\ flagged \subseteq Tokens
  /\ key \in [Calls -> Keys \cup {NoKey}]
  /\ token \in [Calls -> Tokens \cup {NoToken}]
  /\ asked \subseteq Calls /\ crossed \subseteq Calls

\* Every entry of the registry belongs to a request that is still under way,
\* whatever order requests of one key begin, acquire and finish in: the map
\* does not grow with the requests that have been answered.
NoOrphanEntry ==
  \A k \in Keys : active[k] # NoToken =>
    \E c \in Calls : key[c] = k /\ token[c] \in {NoToken, active[k]}

\* The token of a call's lease, or the one it would share now.
Held(c) == IF Leased(c) THEN token[c] ELSE active[key[c]]

Exact(c) ==
  /\ Held(c) # NoToken
  /\ Held(c) \in flagged <=> c \in asked
  /\ c \notin asked => active[key[c]] = Held(c)

\* Cancellation is exact, also among requests that use one id again while an
\* earlier one still works or ends: the token of a request is flagged exactly
\* when that request was cancelled or superseded, and until then it is the one
\* that is registered, so a cancel reaches it, whatever other requests of its
\* key begin and end, and although addresses are used again.  Excepted are the
\* calls whose id was begun again before the earlier of them had its lease:
\* they share a token (CancelledIsNotCurrent).
CancelIsExact == \A c \in Calls : InFlight(c) /\ c \notin crossed => Exact(c)

\* The exception is met only where clients use an id twice.
CrossedAreReused ==
  \A c \in crossed : InFlight(c) /\ key[c].domain \in ReusedDomains

\* The three promises: no entry outlives its requests, a cancel stops the one
\* it names, and only repeated ids make an exception.
RegistryIsExact == NoOrphanEntry /\ CancelIsExact /\ CrossedAreReused

\* What the registry's own test asserts of a request and a cancel of its key
\* (cancellation_is_scoped_to_one_project_request): once a request has been
\* cancelled, the lease its worker holds is no longer current.
CancelledIsNotCurrent ==
  \A c \in Calls : Leased(c) /\ c \in asked => token[c] \in flagged
=============================================================================
