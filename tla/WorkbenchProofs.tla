-------------------------- MODULE WorkbenchProofs --------------------------
(***************************************************************************)
(* Proofs about RequestRegistry and Workbench, for any numbers of calls,   *)
(* sessions, classes, requests and tokens.                                 *)
(*                                                                         *)
(* RegistryInv is the inductive invariant of the registry by itself: what  *)
(* is added to the properties is that an address never serves two keys at  *)
(* once, nor two calls of one key unless one was begun while the other was *)
(* queued, which is why comparing addresses in finish and flagging by key  *)
(* are both safe.  That of Workbench has three layers, each proved         *)
(* inductive on top of the ones before it: where each call can be          *)
(* (Control), what the registry knows of it (Registered), and what a       *)
(* session's mutex protects (Protected).                                   *)
(***************************************************************************)
EXTENDS Workbench, TLAPS

-----------------------------------------------------------------------------
(***************************************************************************)
(* The registry.                                                           *)
(***************************************************************************)
\* No address is registered for two keys.
SeparateEntries ==
  \A k1, k2 \in Keys :
    active[k1] = active[k2] /\ active[k1] # NoToken => k1 = k2

\* A lease belongs to a request that was begun, and no other key is
\* registered with its token.
LeasesKeepTheirKey ==
  \A c \in Calls : Leased(c) =>
    /\ InFlight(c)
    /\ \A k \in Keys : active[k] = token[c] => k = key[c]

\* Only requests under way are counted as cancelled.
AskedInFlight == \A c \in asked : InFlight(c)

\* The token of c is exact and serves c alone; as long as it is registered,
\* the other calls of the key have leases of their own.
Sole(c) ==
  /\ Exact(c)
  /\ \A k \in Keys : k # key[c] => active[k] # Held(c)
  /\ \A d \in Calls : d # c => token[d] # Held(c)
  /\ active[key[c]] = Held(c) =>
       \A d \in Calls : d # c /\ key[d] = key[c] => token[d] # NoToken

TokensAreSole == \A c \in Calls : InFlight(c) /\ c \notin crossed => Sole(c)

RegistryInv ==
  /\ RegistryTypeOK
  /\ SeparateEntries
  /\ LeasesKeepTheirKey
  /\ AskedInFlight
  /\ NoOrphanEntry
  /\ TokensAreSole
  /\ CrossedAreReused

USE RegistryAssumption, KeyAssumption

LEMMA RegistryInitInv == RegistryInit => RegistryInv
  BY DEF RegistryInit, RegistryInv, RegistryTypeOK, SeparateEntries,
         LeasesKeepTheirKey, AskedInFlight, NoOrphanEntry, TokensAreSole,
         CrossedAreReused, InFlight, Leased

\* What a free address is: registered for no key and held by no lease.
LEMMA FreeIsUnused ==
  ASSUME NEW t \in Free
  PROVE  /\ t \in Tokens
         /\ \A k \in Keys : active[k] # t
         /\ \A c \in Calls : token[c] # t
  BY DEF Free

\* begin preserves the invariant, with any choice of free addresses.
LEMMA BeginInv ==
  ASSUME RegistryInv, NEW c \in Calls, NEW k \in Keys, MayBegin(k),
         NEW free \in SUBSET Free, Begin(c, k, free)
  PROVE  RegistryInv'
<1>1. PICK t \in free :
        /\ active' = [active EXCEPT ![k] = t]
        /\ flagged' = (flagged \ {t}) \cup ({active[k]} \ {NoToken})
  BY DEF Begin
<1>2. /\ t \in Tokens
      /\ \A j \in Keys : active[j] # t
      /\ \A d \in Calls : token[d] # t
  BY FreeIsUnused
<1>3. /\ key[c] = NoKey
      /\ key' = [key EXCEPT ![c] = k]
      /\ asked' = asked \cup WithKey(k)
      /\ crossed' = crossed \cup Queued(k)
                       \cup (IF Queued(k) = {} THEN {} ELSE {c})
      /\ token' = token
  BY DEF Begin, InFlight
<1>4. /\ active \in [Keys -> Tokens \cup {NoToken}]
      /\ flagged \subseteq Tokens
      /\ key \in [Calls -> Keys \cup {NoKey}]
      /\ token \in [Calls -> Tokens \cup {NoToken}]
      /\ asked \subseteq Calls /\ crossed \subseteq Calls
  BY DEF RegistryInv, RegistryTypeOK
<1>5. token[c] = NoToken
  BY <1>3 DEF RegistryInv, LeasesKeepTheirKey, Leased, InFlight
<1>6. Queued(k) # {} => k.domain \in ReusedDomains
  BY DEF MayBegin, Queued, WithKey
<1>7. RegistryTypeOK'
  BY <1>1, <1>2, <1>3, <1>4 DEF RegistryTypeOK, WithKey, Queued
<1>8. SeparateEntries'
  BY <1>1, <1>2, <1>4 DEF RegistryInv, SeparateEntries
<1>9. LeasesKeepTheirKey'
  BY <1>1, <1>2, <1>3, <1>4, <1>5
     DEF RegistryInv, LeasesKeepTheirKey, Leased, InFlight
<1>10. AskedInFlight'
  BY <1>3, <1>4 DEF RegistryInv, AskedInFlight, InFlight, WithKey
<1>11. CrossedAreReused'
  <2> SUFFICES ASSUME NEW d \in crossed'
               PROVE  (InFlight(d) /\ key[d].domain \in ReusedDomains)'
    BY DEF CrossedAreReused
  <2>1. CASE d \in crossed
    <3>1. d \in Calls /\ key[d] # NoKey /\ key[d].domain \in ReusedDomains
      BY <2>1, <1>4 DEF RegistryInv, CrossedAreReused, InFlight
    <3> QED BY <3>1, <1>3, <1>4 DEF InFlight
  <2>2. CASE d \in Queued(k)
    <3>1. d \in Calls /\ key[d] = k /\ k.domain \in ReusedDomains
      BY <2>2, <1>6 DEF Queued, WithKey
    <3> QED BY <3>1, <1>3, <1>4 DEF InFlight
  <2>3. CASE d = c /\ Queued(k) # {}
    BY <2>3, <1>3, <1>4, <1>6 DEF InFlight
  <2> QED BY <2>1, <2>2, <2>3, <1>3
<1>12. NoOrphanEntry'
  <2> SUFFICES ASSUME NEW j \in Keys, active'[j] # NoToken
               PROVE  \E d \in Calls :
                        key'[d] = j /\ token'[d] \in {NoToken, active'[j]}
    BY DEF NoOrphanEntry
  <2>1. CASE j = k
    BY <2>1, <1>3, <1>4, <1>5
  <2>2. CASE j # k
    <3>1. active'[j] = active[j]
      BY <2>2, <1>1, <1>4
    <3>2. PICK d \in Calls : key[d] = j /\ token[d] \in {NoToken, active[j]}
      BY <3>1 DEF RegistryInv, NoOrphanEntry
    <3>3. d # c
      BY <3>2, <1>3
    <3> QED BY <3>1, <3>2, <3>3, <1>3, <1>4
  <2> QED BY <2>1, <2>2
<1>13. TokensAreSole'
  <2> SUFFICES ASSUME NEW d \in Calls, key'[d] # NoKey, d \notin crossed'
               PROVE  Sole(d)'
    BY DEF TokensAreSole, InFlight
  <2>1. CASE d = c
    <3>1. Queued(k) = {}
      BY <2>1, <1>3
    <3>2. key'[d] = k /\ token'[d] = NoToken /\ active'[k] = t /\ t # NoToken
      BY <2>1, <1>1, <1>2, <1>3, <1>4, <1>5
    <3>3. t \notin flagged' /\ d \notin asked'
      BY <2>1, <1>1, <1>2, <1>3 DEF RegistryInv, AskedInFlight, InFlight, WithKey
    <3>4. \A j \in Keys : j # k => active'[j] # t
      BY <1>1, <1>2, <1>4
    <3>5. \A e \in Calls : token'[e] # t
      BY <1>2, <1>3
    <3>6. \A e \in Calls : e # c /\ key'[e] = k => token'[e] # NoToken
      BY <3>1, <1>3, <1>4 DEF Queued, WithKey, Leased
    <3>7. (Held(d) = t)'
      BY <3>2 DEF Held, Leased
    <3> QED BY <2>1, <3>2, <3>3, <3>4, <3>5, <3>6, <3>7 DEF Sole, Exact
  <2>2. CASE d # c /\ key[d] = k
    <3>1. key'[d] = k /\ token'[d] = token[d] /\ d \in asked'
      BY <2>2, <1>3, <1>4 DEF WithKey
    <3>2. d \notin crossed /\ token[d] # NoToken
      BY <2>2, <1>3 DEF Queued, WithKey, Leased
    <3>3. Sole(d)
      BY <2>2, <3>2 DEF RegistryInv, TokensAreSole, InFlight
    <3>4. Held(d) = token[d] /\ (Held(d) = token[d])'
      BY <3>1, <3>2 DEF Held, Leased
    <3>5. d \in asked \/ active[k] = token[d]
      BY <2>2, <3>3, <3>4 DEF Sole, Exact
    <3>6. token[d] \in flagged'
      BY <3>2, <3>3, <3>4, <3>5, <1>1, <1>2 DEF Sole, Exact
    <3>7. \A j \in Keys : j # k => active'[j] # token[d]
      BY <2>2, <3>3, <3>4, <1>1, <1>4 DEF Sole
    <3>8. \A e \in Calls : e # d => token'[e] # token[d]
      BY <3>3, <3>4, <1>3 DEF Sole
    <3>9. active'[k] # token[d]
      BY <1>1, <1>2, <1>4
    <3> QED BY <3>1, <3>2, <3>4, <3>6, <3>7, <3>8, <3>9 DEF Sole, Exact
  <2>3. CASE d # c /\ key[d] # k
    <3>1. /\ key'[d] = key[d] /\ token'[d] = token[d] /\ key[d] \in Keys
          /\ d \notin crossed /\ (d \in asked' <=> d \in asked)
          /\ active'[key[d]] = active[key[d]]
      BY <2>3, <1>1, <1>3, <1>4 DEF WithKey
    <3>2. Sole(d)
      BY <3>1 DEF RegistryInv, TokensAreSole, InFlight
    <3>3. Held(d)' = Held(d)
      BY <3>1 DEF Held, Leased
    <3>4. Held(d) # t /\ active[k] # Held(d)
      BY <3>1, <3>2, <2>3, <1>2 DEF Held, Sole
    <3>5. Held(d) \in flagged' <=> Held(d) \in flagged
      BY <3>4, <1>1
    <3>6. Exact(d)'
      BY <3>1, <3>2, <3>3, <3>5 DEF Sole, Exact
    <3>7. \A j \in Keys : j # key[d] => active'[j] # Held(d)
      BY <3>2, <3>4, <1>1, <1>4 DEF Sole
    <3>8. \A e \in Calls : e # d => token'[e] # Held(d)
      BY <3>2, <1>3 DEF Sole
    <3>9. active[key[d]] = Held(d) =>
            \A e \in Calls : e # d /\ key'[e] = key[d] => token'[e] # NoToken
      BY <3>2, <2>3, <1>3, <1>4 DEF Sole
    <3> QED BY <3>1, <3>3, <3>6, <3>7, <3>8, <3>9 DEF Sole
  <2> QED BY <2>1, <2>2, <2>3
<1> QED
  BY <1>7, <1>8, <1>9, <1>10, <1>11, <1>12, <1>13 DEF RegistryInv

\* acquire preserves the invariant.
LEMMA AcquireInv ==
  ASSUME RegistryInv, NEW c \in Calls, NEW free \in SUBSET Free,
         Acquire(c, free)
  PROVE  RegistryInv'
<1>1. /\ key[c] \in Keys /\ token[c] = NoToken
      /\ key' = key /\ asked' = asked /\ crossed' = crossed
  BY DEF Acquire, InFlight, Leased, RegistryInv, RegistryTypeOK
<1>2. /\ active \in [Keys -> Tokens \cup {NoToken}]
      /\ flagged \subseteq Tokens
      /\ key \in [Calls -> Keys \cup {NoKey}]
      /\ token \in [Calls -> Tokens \cup {NoToken}]
      /\ asked \subseteq Calls /\ crossed \subseteq Calls
  BY DEF RegistryInv, RegistryTypeOK
<1>3. CASE /\ active[key[c]] # NoToken
           /\ token' = [token EXCEPT ![c] = active[key[c]]]
           /\ UNCHANGED <<active, flagged>>
  <2>1. RegistryTypeOK'
    BY <1>1, <1>2, <1>3 DEF RegistryTypeOK
  <2>2. SeparateEntries'
    BY <1>3 DEF RegistryInv, SeparateEntries
  <2>3. LeasesKeepTheirKey'
    BY <1>1, <1>2, <1>3
       DEF RegistryInv, LeasesKeepTheirKey, SeparateEntries, Leased, InFlight
  <2>4. AskedInFlight' /\ CrossedAreReused'
    BY <1>1 DEF RegistryInv, AskedInFlight, CrossedAreReused, InFlight
  <2>5. NoOrphanEntry'
    BY <1>1, <1>2, <1>3 DEF RegistryInv, NoOrphanEntry
  <2>6. TokensAreSole'
    <3> SUFFICES ASSUME NEW d \in Calls, key[d] # NoKey, d \notin crossed
                 PROVE  Sole(d)'
      BY <1>1 DEF TokensAreSole, InFlight
    <3>1. Sole(d) /\ key[d] \in Keys
      BY <1>2 DEF RegistryInv, TokensAreSole, InFlight
    <3>2. Held(d)' = Held(d)
      BY <1>1, <1>2, <1>3 DEF Held, Leased
    <3>3. Exact(d)'
      BY <3>1, <3>2, <1>1, <1>3 DEF Sole, Exact
    <3>4. d # c => active[key[c]] # Held(d)
      BY <3>1, <1>1 DEF Sole
    <3>5. \A e \in Calls : e # d => token'[e] # Held(d)
      BY <3>1, <3>4, <1>2, <1>3 DEF Sole
    <3>6. \A e \in Calls : token[e] # NoToken => token'[e] # NoToken
      BY <1>2, <1>3
    <3> QED BY <3>1, <3>2, <3>3, <3>5, <3>6, <1>1, <1>3 DEF Sole
  <2> QED BY <2>1, <2>2, <2>3, <2>4, <2>5, <2>6 DEF RegistryInv
<1>4. CASE /\ active[key[c]] = NoToken
           /\ \E t \in free :
                /\ active' = [active EXCEPT ![key[c]] = t]
                /\ token' = [token EXCEPT ![c] = t]
                /\ flagged' = flagged \ {t}
  <2>1. PICK t \in free :
                /\ active' = [active EXCEPT ![key[c]] = t]
                /\ token' = [token EXCEPT ![c] = t]
                /\ flagged' = flagged \ {t}
    BY <1>4
  <2>2. /\ t \in Tokens
        /\ \A j \in Keys : active[j] # t
        /\ \A d \in Calls : token[d] # t
    BY FreeIsUnused
  <2>3. RegistryTypeOK'
    BY <1>1, <1>2, <2>1, <2>2 DEF RegistryTypeOK
  <2>4. SeparateEntries'
    BY <1>1, <1>2, <2>1, <2>2 DEF RegistryInv, SeparateEntries
  <2>5. LeasesKeepTheirKey'
    BY <1>1, <1>2, <2>1, <2>2
       DEF RegistryInv, LeasesKeepTheirKey, Leased, InFlight
  <2>6. AskedInFlight' /\ CrossedAreReused'
    BY <1>1 DEF RegistryInv, AskedInFlight, CrossedAreReused, InFlight
  <2>7. NoOrphanEntry'
    <3> SUFFICES ASSUME NEW j \in Keys, active'[j] # NoToken
                 PROVE  \E d \in Calls :
                          key'[d] = j /\ token'[d] \in {NoToken, active'[j]}
      BY DEF NoOrphanEntry
    <3>1. CASE j = key[c]
      BY <3>1, <1>1, <1>2, <2>1
    <3>2. CASE j # key[c]
      <4>1. active'[j] = active[j]
        BY <3>2, <1>2, <2>1
      <4>2. PICK d \in Calls : key[d] = j /\ token[d] \in {NoToken, active[j]}
        BY <4>1 DEF RegistryInv, NoOrphanEntry
      <4> QED BY <4>1, <4>2, <3>2, <1>1, <1>2, <2>1
    <3> QED BY <3>1, <3>2
  <2>8. TokensAreSole'
    <3> SUFFICES ASSUME NEW d \in Calls, key[d] # NoKey, d \notin crossed
                 PROVE  Sole(d)'
      BY <1>1 DEF TokensAreSole, InFlight
    <3>1. Sole(d) /\ key[d] \in Keys
      BY <1>2 DEF RegistryInv, TokensAreSole, InFlight
    <3>2. d # c
      BY <3>1, <1>1, <1>4 DEF Sole, Exact, Held, Leased
    <3>3. token'[d] = token[d] /\ Held(d) # t /\ Held(d) # NoToken
      BY <3>1, <3>2, <1>2, <2>1, <2>2 DEF Held, Sole, Exact
    <3>4. key[d] = key[c] => token[d] # NoToken /\ d \in asked
      BY <3>1, <3>3, <1>4 DEF Held, Leased, Sole, Exact
    <3>5. Held(d)' = Held(d)
      BY <3>1, <3>3, <3>4, <1>1, <1>2, <2>1 DEF Held, Leased
    <3>6. Held(d) \in flagged' <=> Held(d) \in flagged
      BY <3>3, <2>1
    <3>7. key[d] # key[c] => active'[key[d]] = active[key[d]]
      BY <3>1, <1>2, <2>1
    <3>8. Exact(d)'
      BY <3>1, <3>4, <3>5, <3>6, <3>7, <1>1 DEF Sole, Exact
    <3>9. \A j \in Keys : j # key[d] => active'[j] # Held(d)
      BY <3>1, <3>3, <1>2, <2>1 DEF Sole
    <3>10. \A e \in Calls : e # d => token'[e] # Held(d)
      BY <3>1, <3>3, <1>2, <2>1 DEF Sole
    <3>11. \A e \in Calls : token[e] # NoToken => token'[e] # NoToken
      BY <1>2, <2>1, <2>2
    <3>12. active'[key[d]] = Held(d) => active[key[d]] = Held(d)
      BY <3>1, <3>3, <1>2, <2>1
    <3> QED BY <3>1, <3>5, <3>8, <3>9, <3>10, <3>11, <3>12, <1>1 DEF Sole
  <2> QED BY <2>3, <2>4, <2>5, <2>6, <2>7, <2>8 DEF RegistryInv
<1> QED BY <1>3, <1>4 DEF Acquire

\* cancel, cancel_project and cancel_all preserve the invariant: flagging
\* the entries of some keys marks the calls with those keys and no other.
LEMMA FlagInv ==
  ASSUME RegistryInv, NEW K \in SUBSET Keys, Flag(K)
  PROVE  RegistryInv'
<1>1. /\ flagged' = flagged \cup ({active[k] : k \in K} \ {NoToken})
      /\ asked' = asked \cup {c \in Calls : key[c] \in K}
      /\ active' = active /\ key' = key /\ token' = token /\ crossed' = crossed
  BY DEF Flag
<1>2. RegistryTypeOK'
  BY <1>1 DEF RegistryInv, RegistryTypeOK
<1>3. SeparateEntries' /\ LeasesKeepTheirKey' /\ CrossedAreReused' /\ NoOrphanEntry'
  BY <1>1 DEF RegistryInv, SeparateEntries, LeasesKeepTheirKey, CrossedAreReused,
              NoOrphanEntry, InFlight, Leased
<1>4. AskedInFlight'
  BY <1>1 DEF RegistryInv, AskedInFlight, InFlight
<1>5. TokensAreSole'
  <2> SUFFICES ASSUME NEW d \in Calls, key[d] # NoKey, d \notin crossed
               PROVE  Sole(d)'
    BY <1>1 DEF TokensAreSole, InFlight
  <2>1. key[d] \in Keys /\ Sole(d)
    BY DEF RegistryInv, RegistryTypeOK, TokensAreSole, InFlight
  <2>2. Held(d)' = Held(d)
    BY <1>1 DEF Held, Leased
  <2>3. CASE key[d] \in K
    <3>1. d \in asked'
      BY <2>3, <1>1
    <3>2. Held(d) \in flagged'
      BY <2>1, <2>3, <1>1 DEF Sole, Exact
    <3> QED BY <2>1, <2>2, <3>1, <3>2, <1>1 DEF Sole, Exact
  <2>4. CASE key[d] \notin K
    <3>1. d \in asked' <=> d \in asked
      BY <2>4, <1>1
    <3>2. Held(d) \in flagged' <=> Held(d) \in flagged
      BY <2>1, <2>4, <1>1 DEF Sole
    <3> QED BY <2>1, <2>2, <3>1, <3>2, <1>1 DEF Sole, Exact
  <2> QED BY <2>3, <2>4
<1> QED BY <1>2, <1>3, <1>4, <1>5 DEF RegistryInv

\* finish preserves the invariant.
LEMMA FinishInv ==
  ASSUME RegistryInv, NEW c \in Calls, Finish(c)
  PROVE  RegistryInv'
<1>1. /\ token[c] # NoToken
      /\ active' = [active EXCEPT ![key[c]] =
                      IF active[key[c]] = token[c] THEN NoToken
                                                   ELSE active[key[c]]]
      /\ key' = [key EXCEPT ![c] = NoKey]
      /\ token' = [token EXCEPT ![c] = NoToken]
      /\ asked' = asked \ {c} /\ crossed' = crossed \ {c}
      /\ flagged' = flagged
  BY DEF Finish, Leased
<1>2. /\ active \in [Keys -> Tokens \cup {NoToken}]
      /\ flagged \subseteq Tokens
      /\ key \in [Calls -> Keys \cup {NoKey}]
      /\ token \in [Calls -> Tokens \cup {NoToken}]
      /\ asked \subseteq Calls /\ crossed \subseteq Calls
  BY DEF RegistryInv, RegistryTypeOK
<1>3. key[c] \in Keys
  BY <1>1, <1>2 DEF RegistryInv, LeasesKeepTheirKey, Leased, InFlight
<1>4. \A j \in Keys : active'[j] # NoToken =>
        active'[j] = active[j] /\ (j = key[c] => active[j] # token[c])
  BY <1>1, <1>2, <1>3
<1>5. RegistryTypeOK'
  BY <1>1, <1>2, <1>3 DEF RegistryTypeOK
<1>6. SeparateEntries'
  BY <1>4 DEF RegistryInv, SeparateEntries
<1>7. LeasesKeepTheirKey'
  BY <1>1, <1>2, <1>4 DEF RegistryInv, LeasesKeepTheirKey, Leased, InFlight
<1>8. AskedInFlight' /\ CrossedAreReused'
  BY <1>1, <1>2 DEF RegistryInv, AskedInFlight, CrossedAreReused, InFlight
<1>9. NoOrphanEntry'
  <2> SUFFICES ASSUME NEW j \in Keys, active'[j] # NoToken
               PROVE  \E d \in Calls :
                        key'[d] = j /\ token'[d] \in {NoToken, active'[j]}
    BY DEF NoOrphanEntry
  <2>1. active'[j] = active[j] /\ (j = key[c] => active[j] # token[c])
    BY <1>4
  <2>2. PICK d \in Calls : key[d] = j /\ token[d] \in {NoToken, active[j]}
    BY <2>1 DEF RegistryInv, NoOrphanEntry
  <2>3. d # c
    BY <2>1, <2>2, <1>1
  <2> QED BY <2>1, <2>2, <2>3, <1>1, <1>2
<1>10. TokensAreSole'
  <2> SUFFICES ASSUME NEW d \in Calls, key'[d] # NoKey, d \notin crossed'
               PROVE  Sole(d)'
    BY DEF TokensAreSole, InFlight
  <2>1. /\ d # c /\ key'[d] = key[d] /\ token'[d] = token[d] /\ key[d] \in Keys
        /\ d \notin crossed /\ (d \in asked' <=> d \in asked)
    BY <1>1, <1>2
  <2>2. Sole(d)
    BY <2>1 DEF RegistryInv, TokensAreSole, InFlight
  <2>3. token[c] # Held(d) /\ Held(d) # NoToken
    BY <2>1, <2>2 DEF Sole, Exact
  <2>4. active[key[d]] = Held(d) => active'[key[d]] = Held(d)
    BY <2>1, <2>3, <1>1, <1>2
  <2>5. Held(d)' = Held(d)
    BY <2>1, <2>4 DEF Held, Leased
  <2>6. Exact(d)'
    BY <2>1, <2>2, <2>4, <2>5, <1>1 DEF Sole, Exact
  <2>7. \A j \in Keys : j # key[d] => active'[j] # Held(d)
    BY <2>2, <2>3, <1>4 DEF Sole
  <2>8. \A e \in Calls : e # d => token'[e] # Held(d)
    BY <2>2, <2>3, <1>1, <1>2 DEF Sole
  <2>9. active'[key[d]] = Held(d) => active[key[d]] = Held(d)
    BY <2>1, <2>3, <1>4
  <2>10. \A e \in Calls : e # c => key'[e] = key[e] /\ token'[e] = token[e]
    BY <1>1, <1>2
  <2>11. key'[c] # key[d]
    BY <2>1, <1>1, <1>2
  <2> QED BY <2>1, <2>2, <2>5, <2>6, <2>7, <2>8, <2>9, <2>10, <2>11 DEF Sole
<1> QED
  BY <1>5, <1>6, <1>7, <1>8, <1>9, <1>10 DEF RegistryInv

\* Every step of the registry preserves the invariant.
LEMMA RegistryNextInv ==
  RegistryInv /\ [RegistryNext]_registryVars => RegistryInv'
<1> SUFFICES ASSUME RegistryInv, [RegistryNext]_registryVars
             PROVE  RegistryInv'
  OBVIOUS
<1>1. ASSUME NEW c \in Calls, NEW k \in Keys, MayBegin(k), Begin(c, k, Free)
      PROVE  RegistryInv'
  BY <1>1, BeginInv
<1>2. ASSUME NEW c \in Calls, Acquire(c, Free)
      PROVE  RegistryInv'
  BY <1>2, AcquireInv
<1>3. ASSUME NEW c \in Calls, Finish(c)
      PROVE  RegistryInv'
  BY <1>3, FinishInv
<1>4. ASSUME NEW k \in Keys, Cancel(k)
      PROVE  RegistryInv'
  BY <1>4, FlagInv DEF Cancel
<1>5. ASSUME NEW s \in SessionIds, CancelProject(s)
      PROVE  RegistryInv'
  BY <1>5, FlagInv DEF CancelProject
<1>6. CASE CancelAll
  BY <1>6, FlagInv DEF CancelAll
<1>7. CASE UNCHANGED registryVars
  BY <1>7 DEF registryVars, RegistryInv, RegistryTypeOK, SeparateEntries,
              LeasesKeepTheirKey, AskedInFlight, NoOrphanEntry, TokensAreSole,
              CrossedAreReused, Sole, Exact, Held, InFlight, Leased
<1> QED
  BY <1>1, <1>2, <1>3, <1>4, <1>5, <1>6, <1>7 DEF RegistryNext

\* The promises of the registry, for every instance and however clients use
\* ids again: its state is well typed, its map holds no entry of an answered
\* request, and a cancel reaches the request it names and no other, unless an
\* id was begun again before the earlier request with it had its lease.
THEOREM RegistrySafety ==
  RegistrySpec => [](RegistryTypeOK /\ RegistryIsExact)
<1>1. RegistryInv => RegistryTypeOK /\ RegistryIsExact
  BY DEF RegistryInv, RegistryIsExact, TokensAreSole, Sole, CancelIsExact
<1> QED
  BY RegistryInitInv, RegistryNextInv, <1>1, PTL DEF RegistrySpec

-----------------------------------------------------------------------------
(***************************************************************************)
(* The workbench.                                                          *)
(***************************************************************************)
USE WorkbenchAssumption

AfterBegin == {"acquire", "current", "lookup", "lock", "locked", "setup",
               "work", "ensure", "teardown", "unlock", "finish"}

\* Where a call can be, given its operation.
Place(c) ==
  \/ /\ pc[c] = "idle" /\ op[c] = "none"
  \/ /\ pc[c] \in {"insert", "remove"}
     /\ op[c] \in Management /\ at[c] \in SessionIds
  \/ /\ pc[c] = "list"
     /\ op[c] \in Management
  \/ /\ pc[c] \in AfterBegin \cup {"begin"}
     /\ op[c] \in Requests /\ at[c] \in SessionIds /\ rid[c] \in RequestIds
  \/ /\ pc[c] \in {"lock", "work", "teardown", "unlock"}
     /\ op[c] \in Inspections /\ at[c] \in SessionIds

SessionTypes ==
  /\ sessions \subseteq SessionIds
  /\ nextSession \in 1..(MaxSession + 1)
  /\ mapOwner \in Calls \cup {NoCall}
  /\ holder \in [SessionIds -> Calls \cup {NoCall}]
  /\ poisoned \subseteq SessionIds
  /\ dirty \in [SessionIds -> BOOLEAN]

CallTypes ==
  /\ pc \in [Calls -> Labels]
  /\ op \in [Calls -> Ops \cup {"none"}]
  /\ at \in [Calls -> SessionIds \cup {0}]
  /\ rid \in [Calls -> RequestIds \cup {0}]
  /\ passes \in [Calls -> 0..(MaxClasses + 2)]
  /\ todo \in [Calls -> SUBSET SessionIds]
  /\ calls \in 0..MaxCalls

\* A pass starts only when one is left to do; an inspection is one pass.
PassLeft(c) ==
  pc[c] = "work" => passes[c] > 0 /\ (op[c] \in Inspections => passes[c] = 1)

\* The variables of Workbench alone are well typed, every call is at a place
\* of its operation.
Control ==
  /\ SessionTypes
  /\ CallTypes
  /\ \A c \in Calls : Place(c) /\ PassLeft(c)

\* What the registry knows of a call.
Known(c) ==
  /\ key[c] = IF op[c] \in Requests /\ pc[c] # "begin" THEN Key(c) ELSE NoKey
  /\ Leased(c) <=> op[c] \in Requests /\ pc[c] \notin {"begin", "acquire"}

\* Clients keep their promise: no two requests have one id.
Apart(c, d) ==
  /\ op[c] \in Requests /\ op[d] \in Requests /\ Key(c) = Key(d)
  /\ Key(c).domain \notin ReusedDomains
  => c = d

Registered ==
  /\ RegistryInv
  /\ \A c \in Calls : Known(c)
  /\ \A c, d \in Calls : Apart(c, d)

\* What is in a session while a call holds its mutex.
Holding(c) ==
  /\ holder[at[c]] = c /\ at[c] \notin poisoned
  /\ observer[at[c]] =
       IF Working(c) /\ op[c] \in Requests THEN token[c] ELSE NoToken
  /\ ~Working(c) \/ ~Loads(op[c]) => ~dirty[at[c]]

Protected ==
  /\ observer \in [SessionIds -> Tokens \cup {NoToken}]
  /\ \A c \in Calls : Locked(c) => Holding(c)
  /\ \A s \in SessionIds, c \in Calls : holder[s] = c => Locked(c) /\ at[c] = s
  /\ FreeSessionIsClean

WorkbenchInv == Control /\ Registered /\ Protected
----------------------------------------------------------------------------
(* How one call's step changes the variables of the calls. *)

\* The other calls stay where they are.
OnlyMoves(c) ==
  \A d \in Calls \ {c} :
    /\ pc'[d] = pc[d] /\ op'[d] = op[d] /\ at'[d] = at[d]
    /\ rid'[d] = rid[d] /\ passes'[d] = passes[d]

Stays(c) == op'[c] = op[c] /\ at'[c] = at[c] /\ rid'[c] = rid[c]

LEMMA ReturnMoves ==
  ASSUME CallTypes, NEW c \in Calls, Return(c)
  PROVE  CallTypes' /\ OnlyMoves(c) /\ pc'[c] = "idle" /\ op'[c] = "none"
  BY DEF CallTypes, Return, Goto, OnlyMoves, Labels

LEMMA GotoMoves ==
  ASSUME CallTypes, NEW c \in Calls, NEW l \in Labels, Goto(c, l),
         UNCHANGED callVars
  PROVE  /\ CallTypes' /\ OnlyMoves(c) /\ pc'[c] = l /\ Stays(c)
         /\ passes'[c] = passes[c]
  BY DEF CallTypes, Goto, OnlyMoves, Stays, callVars

LEMMA PassesMoves ==
  ASSUME CallTypes, NEW c \in Calls, NEW l \in Labels, Goto(c, l),
         NEW n \in 0..(MaxClasses + 2), passes' = [passes EXCEPT ![c] = n],
         UNCHANGED <<op, at, rid, todo, calls>>
  PROVE  /\ CallTypes' /\ OnlyMoves(c) /\ pc'[c] = l /\ Stays(c)
         /\ passes'[c] = n
  BY DEF CallTypes, Goto, OnlyMoves, Stays

LEMMA LeaveMoves ==
  ASSUME CallTypes, NEW c \in Calls, Leave(c)
  PROVE  /\ CallTypes' /\ OnlyMoves(c)
         /\ IF op[c] \in Requests
            THEN pc'[c] = "finish" /\ Stays(c)
            ELSE pc'[c] = "idle" /\ op'[c] = "none"
<1>1. CASE op[c] \in Requests
  BY <1>1, GotoMoves, "finish" \in Labels DEF Leave, Labels
<1>2. CASE op[c] \notin Requests
  BY <1>2, ReturnMoves DEF Leave
<1> QED BY <1>1, <1>2

LEMMA CallMoves ==
  ASSUME CallTypes, NEW c \in Calls, NEW o, NEW s \in SessionIds \cup {0},
         NEW r \in RequestIds \cup {0}, NEW l \in Labels, Call(c, o, s, r, l),
         UNCHANGED passes, todo' \in [Calls -> SUBSET SessionIds]
  PROVE  /\ CallTypes' /\ OnlyMoves(c) /\ pc[c] = "idle" /\ pc'[c] = l
         /\ op'[c] = o /\ at'[c] = s /\ rid'[c] = r
<1>1. /\ pc' = [pc EXCEPT ![c] = l] /\ op' = [op EXCEPT ![c] = o]
      /\ at' = [at EXCEPT ![c] = s] /\ rid' = [rid EXCEPT ![c] = r]
      /\ passes' = passes /\ calls' = calls + 1
      /\ pc[c] = "idle" /\ o \in Ops /\ calls < MaxCalls
  BY DEF Call, Goto
<1>2. OnlyMoves(c) /\ pc'[c] = l /\ op'[c] = o /\ at'[c] = s /\ rid'[c] = r
  BY <1>1 DEF CallTypes, OnlyMoves
<1>3. calls' \in 0..MaxCalls
  BY <1>1 DEF CallTypes
<1>4. CallTypes'
  BY <1>1, <1>3 DEF CallTypes
<1> QED BY <1>1, <1>2, <1>4

----------------------------------------------------------------------------
(* Control *)

LEMMA ControlInit == Init => Control
<1> SUFFICES ASSUME Init PROVE Control
  OBVIOUS
<1>1. SessionTypes
  BY DEF Init, SessionTypes
<1>2. CallTypes
  BY DEF Init, CallTypes, Labels
<1>3. \A c \in Calls : Place(c) /\ PassLeft(c)
  BY DEF Init, Place, PassLeft
<1> QED BY <1>1, <1>2, <1>3 DEF Control

\* Control is kept if the types are and the call that moves is well placed.
LEMMA ControlFrame ==
  ASSUME Control, NEW c \in Calls, SessionTypes', CallTypes', OnlyMoves(c),
         Place(c)', PassLeft(c)'
  PROVE  Control'
  BY DEF Control, OnlyMoves, Place, PassLeft

\* A client's call, whatever it is, starts at a place of its operation.
LEMMA ControlClient ==
  ASSUME Control, NEW c \in Calls, Client(c)
  PROVE  Control'
<1> USE DEF Control
<1>1. CASE OpenArchive(c)
  <2>1. nextSession \in SessionIds /\ "insert" \in Labels
    BY <1>1 DEF OpenArchive, SessionTypes, Labels
  <2>2. SessionTypes'
    BY <1>1 DEF OpenArchive, SessionTypes
  <2>3. /\ CallTypes' /\ OnlyMoves(c) /\ pc'[c] = "insert" /\ op'[c] = "open"
        /\ at'[c] = nextSession
    BY <1>1, <2>1, CallMoves DEF OpenArchive, CallTypes
  <2> QED BY <2>1, <2>2, <2>3, ControlFrame DEF Place, Management, PassLeft
<1>2. CASE ListProjects(c)
  <2>1. SessionTypes' /\ todo' \in [Calls -> SUBSET SessionIds]
    BY <1>2 DEF ListProjects, SessionTypes, CallTypes
  <2>2. CallTypes' /\ OnlyMoves(c) /\ pc'[c] = "list" /\ op'[c] = "projects"
    BY <1>2, <2>1, CallMoves, "list" \in Labels DEF ListProjects, Labels
  <2> QED BY <2>1, <2>2, ControlFrame DEF PassLeft, Place, Management
<1>3. ASSUME NEW s \in SessionIds, CloseCancels(c, s)
      PROVE  Control'
  <2>1. SessionTypes' /\ todo' \in [Calls -> SUBSET SessionIds]
    BY <1>3 DEF CloseCancels, SessionTypes, CallTypes, sessionVars
  <2>2. /\ CallTypes' /\ OnlyMoves(c) /\ pc'[c] = "remove" /\ op'[c] = "close"
        /\ at'[c] = s
    BY <1>3, <2>1, CallMoves, "remove" \in Labels DEF CloseCancels, Labels
  <2> QED BY <2>1, <2>2, ControlFrame DEF PassLeft, Place, Management
<1>4. ASSUME NEW s \in SessionIds, NEW o \in Inspections, Inspect(c, o, s)
      PROVE  Control'
  <2>1. SessionTypes' /\ todo' \in [Calls -> SUBSET SessionIds]
    BY <1>4 DEF Inspect, SessionTypes, CallTypes, sessionVars
  <2>2. /\ CallTypes' /\ OnlyMoves(c) /\ pc'[c] = "lock" /\ op'[c] = o
        /\ at'[c] = s
    BY <1>4, <2>1, CallMoves, "lock" \in Labels DEF Inspect, Labels
  <2> QED BY <2>1, <2>2, ControlFrame DEF PassLeft, Place
<1>5. ASSUME NEW s \in SessionIds, NEW o \in Requests, NEW r \in RequestIds,
             Request(c, o, s, r)
      PROVE  Control'
  <2>1. SessionTypes' /\ todo' \in [Calls -> SUBSET SessionIds]
    BY <1>5 DEF Request, SessionTypes, CallTypes, sessionVars
  <2>2. /\ CallTypes' /\ OnlyMoves(c) /\ pc'[c] = "begin" /\ op'[c] = o
        /\ at'[c] = s /\ rid'[c] = r
    BY <1>5, <2>1, CallMoves, "begin" \in Labels DEF Request, Labels
  <2> QED BY <2>1, <2>2, ControlFrame DEF PassLeft, Place
<1> QED BY <1>1, <1>2, <1>3, <1>4, <1>5 DEF Client

\* A call that goes on goes to a place of its operation, or returns.
LEMMA ControlServer ==
  ASSUME Control, NEW c \in Calls, Server(c) \/ Panic(c)
  PROVE  Control'
<1> USE DEF Control
<1>a. /\ {"finish", "unlock", "teardown", "ensure", "work", "setup", "locked",
           "lock", "lookup", "current", "acquire"} \subseteq Labels
      /\ AfterBegin \subseteq Labels
  BY DEF Labels, AfterBegin
<1>b. ASSUME NEW l \in AfterBegin, op[c] \in Requests, pc[c] # "idle",
             SessionTypes', Goto(c, l), UNCHANGED callVars,
             l = "work" => passes[c] > 0
      PROVE  Control'
  <2>1. /\ CallTypes' /\ OnlyMoves(c) /\ pc'[c] = l /\ Stays(c)
        /\ passes'[c] = passes[c]
    BY <1>a, <1>b, GotoMoves
  <2>2. at[c] \in SessionIds /\ rid[c] \in RequestIds
    BY <1>b DEF Place, Requests, Inspections, Management
  <2>3. op[c] \notin Inspections
    BY <1>b DEF Requests, Inspections
  <2> QED BY <2>1, <2>2, <2>3, <1>b, ControlFrame DEF PassLeft, Place, Stays
<1>c. ASSUME SessionTypes', Leave(c), pc[c] \in AfterBegin
      PROVE  Control'
  <2>1. /\ CallTypes' /\ OnlyMoves(c)
        /\ IF op[c] \in Requests
           THEN pc'[c] = "finish" /\ Stays(c)
           ELSE pc'[c] = "idle" /\ op'[c] = "none"
    BY <1>c, LeaveMoves
  <2>2. op[c] \in Requests => at[c] \in SessionIds /\ rid[c] \in RequestIds
    BY <1>c DEF Place, Requests, Inspections, Management, AfterBegin
  <2>3. Place(c)' /\ PassLeft(c)'
    BY <2>1, <2>2 DEF PassLeft, Place, Stays, AfterBegin
  <2> QED BY <1>c, <2>1, <2>3, ControlFrame
<1>d. ASSUME NEW l \in AfterBegin, NEW n \in 0..(MaxClasses + 2),
             SessionTypes', Goto(c, l), passes' = [passes EXCEPT ![c] = n],
             UNCHANGED <<op, at, rid, todo, calls>>, l = "work" => n > 0,
             pc[c] \in AfterBegin, op[c] \in Inspections => n <= 1,
             op[c] \in Requests \/ l \in {"lock", "work", "teardown", "unlock"}
      PROVE  Control'
  <2>1. /\ CallTypes' /\ OnlyMoves(c) /\ pc'[c] = l /\ Stays(c)
        /\ passes'[c] = n
    BY <1>a, <1>d, PassesMoves
  <2>2. /\ at[c] \in SessionIds
        /\ op[c] \in Requests => rid[c] \in RequestIds
        /\ op[c] \in Requests \cup Inspections
    BY <1>d DEF Place, Requests, Inspections, Management, AfterBegin
  <2> QED BY <2>1, <2>2, <1>d, ControlFrame DEF PassLeft, Place, Stays
<1>e. ASSUME SessionTypes', Return(c)
      PROVE  Control'
  BY <1>e, ReturnMoves, ControlFrame DEF PassLeft, Place
<1>f. pc[c] \in {"begin", "acquire", "current", "lookup", "locked", "setup",
                 "ensure", "finish"} => op[c] \in Requests
  BY DEF Place
<1>1. CASE InsertSession(c)
  <2>1. SessionTypes'
    BY <1>1 DEF InsertSession, SessionTypes, Place, Requests, Inspections,
                AfterBegin
  <2> QED BY <1>1, <2>1, <1>e DEF InsertSession
<1>2. CASE RemoveSession(c)
  <2>1. SessionTypes'
    BY <1>2 DEF RemoveSession, SessionTypes
  <2> QED BY <1>2, <2>1, <1>e DEF RemoveSession
<1>3. CASE EndList(c)
  <2>1. SessionTypes'
    BY <1>3 DEF EndList, SessionTypes
  <2> QED BY <1>3, <2>1, <1>e DEF EndList
<1>4. ASSUME NEW s \in SessionIds, VisitProject(c, s)
      PROVE  Control'
  <2>1. SessionTypes' /\ CallTypes' /\ OnlyMoves(c)
    BY <1>4 DEF VisitProject, SessionTypes, CallTypes, sessionVars, OnlyMoves
  <2>2. Place(c)' /\ PassLeft(c)'
    BY <1>4 DEF VisitProject, Place, PassLeft
  <2> QED BY <2>1, <2>2, ControlFrame
<1>5. CASE BeginRequest(c)
  <2>1. SessionTypes'
    BY <1>5 DEF BeginRequest, SessionTypes, sessionVars
  <2> QED BY <1>5, <2>1, <1>b, <1>f DEF BeginRequest, AfterBegin
<1>6. CASE AcquireLease(c)
  <2>1. SessionTypes'
    BY <1>6 DEF AcquireLease, SessionTypes, sessionVars
  <2> QED BY <1>6, <2>1, <1>b, <1>f DEF AcquireLease, AfterBegin
<1>7. CASE EnsureCurrent(c)
  <2>1. SessionTypes'
    BY <1>7 DEF EnsureCurrent, SessionTypes, sessionVars
  <2> QED BY <1>7, <2>1, <1>b, <1>f DEF EnsureCurrent, AfterBegin
<1>8. CASE LookUp(c)
  <2>1. SessionTypes'
    BY <1>8 DEF LookUp, SessionTypes, sessionVars
  <2> QED BY <1>8, <2>1, <1>b, <1>f DEF LookUp, AfterBegin
<1>9. CASE LockSession(c)
  <2>1. SessionTypes'
    <3>1. at[c] \in SessionIds
      BY <1>9 DEF LockSession, Place
    <3>2. /\ sessions \subseteq SessionIds /\ nextSession \in 1..(MaxSession + 1)
          /\ mapOwner \in Calls \cup {NoCall} /\ poisoned \subseteq SessionIds
          /\ holder \in [SessionIds -> Calls \cup {NoCall}] /\ dirty \in [SessionIds -> BOOLEAN]
      BY DEF SessionTypes
    <3>3. /\ sessions' = sessions /\ nextSession' = nextSession
          /\ mapOwner' = mapOwner /\ poisoned' = poisoned
      BY <1>9 DEF LockSession
    <3>4. holder' = holder \/ holder' = [holder EXCEPT ![at[c]] = c]
      BY <1>9 DEF LockSession
    <3>5. holder' \in [SessionIds -> Calls \cup {NoCall}]
      BY <3>1, <3>2, <3>4
    <3>6. dirty' = dirty \/ dirty' = [dirty EXCEPT ![at[c]] = @ /\ op[c] # "inspect"]
      BY <1>9 DEF LockSession
    <3>7. dirty' \in [SessionIds -> BOOLEAN]
      BY <3>1, <3>2, <3>6
    <3> QED BY <3>2, <3>3, <3>5, <3>7 DEF SessionTypes
  <2>2. CASE at[c] \in poisoned
    BY <1>9, <2>1, <2>2, <1>c DEF LockSession, AfterBegin
  <2>3. CASE at[c] \notin poisoned /\ op[c] \in Requests
    BY <1>9, <2>1, <2>3, <1>b DEF LockSession, AfterBegin
  <2>4. CASE at[c] \notin poisoned /\ op[c] \notin Requests
    <3>1. 1 \in 0..(MaxClasses + 2)
      OBVIOUS
    <3> QED BY <1>9, <2>1, <2>4, <3>1, <1>d DEF LockSession, AfterBegin
  <2> QED BY <2>2, <2>3, <2>4
<1>10. CASE EnsureStillCurrent(c)
  <2>1. SessionTypes'
    BY <1>10 DEF EnsureStillCurrent, SessionTypes, sessionVars
  <2> QED BY <1>10, <2>1, <1>b, <1>f DEF EnsureStillCurrent, AfterBegin
<1>11. CASE SetUp(c)
  <2>1. SessionTypes'
    BY <1>11, <1>f DEF SetUp, SessionTypes, Place, Requests
  <2>2. Passes(op[c]) \in 0..(MaxClasses + 2)
    BY DEF Passes
  <2>3. CASE Goto(c, "unlock") /\ UNCHANGED callVars
    BY <1>11, <2>1, <2>3, <1>b, <1>f DEF SetUp, AfterBegin
  <2>4. CASE /\ passes' = [passes EXCEPT ![c] = Passes(op[c])]
             /\ Goto(c, IF Passes(op[c]) > 0 THEN "work" ELSE "ensure")
             /\ UNCHANGED <<op, at, rid, todo, calls>>
    <3>1. op[c] \in Requests /\ op[c] \notin Inspections /\ pc[c] \in AfterBegin
      BY <1>11, <1>f DEF SetUp, Requests, Inspections, AfterBegin
    <3>2. CASE Passes(op[c]) > 0
      BY <3>1, <3>2, <2>1, <2>2, <2>4, <1>d, "work" \in AfterBegin DEF AfterBegin
    <3>3. CASE ~(Passes(op[c]) > 0)
      BY <3>1, <3>3, <2>1, <2>2, <2>4, <1>d, "ensure" \in AfterBegin DEF AfterBegin
    <3> QED BY <3>2, <3>3
  <2> QED BY <1>11, <2>3, <2>4 DEF SetUp
<1>12. CASE Work(c)
  <2>1. SessionTypes'
    BY <1>12 DEF Work, SessionTypes, Place
  <2>2. passes[c] - 1 \in 0..(MaxClasses + 2) /\ 0 \in 0..(MaxClasses + 2)
    BY <1>12 DEF Work, CallTypes, PassLeft
  <2>3. op[c] \in Inspections => op[c] \notin Searches
    BY DEF Inspections, Searches
  <2>4. op[c] \in Requests \cup Inspections /\ passes[c] > 0
    BY <1>12 DEF Work, Place, PassLeft
  <2>5. op[c] \in Inspections => passes[c] = 1
    BY <1>12 DEF Work, PassLeft
  <2>6. /\ {"ensure", "teardown"} \subseteq AfterBegin /\ pc[c] \in AfterBegin
        /\ UNCHANGED <<op, at, rid, todo, calls>>
    BY <1>12 DEF Work, AfterBegin
  <2>7. CASE passes' = [passes EXCEPT ![c] = 0] /\ Goto(c, "teardown")
    <3>1. 0 \in 0..(MaxClasses + 2) /\ 0 <= 1 /\ "teardown" # "work"
      BY <2>2
    <3>2. "teardown" \in AfterBegin
      BY <2>6
    <3> HIDE DEF Control
    <3> QED BY <2>1, <2>6, <2>7, <3>1, <3>2, <1>d
  <2>8. CASE /\ passes' = [passes EXCEPT ![c] = passes[c] - 1]
             /\ Goto(c, IF passes[c] > 1 \/ op[c] \in Searches
                        THEN "ensure" ELSE "teardown")
    <3>1. op[c] \in Inspections => passes[c] - 1 <= 1
      BY <2>5
    <3>2. CASE passes[c] > 1 \/ op[c] \in Searches
      <4>1. op[c] \in Requests
        BY <3>2, <2>3, <2>4, <2>5
      <4> QED BY <2>1, <2>2, <2>6, <2>8, <3>1, <3>2, <4>1, <1>d
    <3>3. CASE ~(passes[c] > 1 \/ op[c] \in Searches)
      BY <2>1, <2>2, <2>6, <2>8, <3>1, <3>3, <1>d
    <3> QED BY <3>2, <3>3
  <2> QED BY <1>12, <2>7, <2>8 DEF Work
<1>13. CASE EnsureBetween(c)
  <2>1. SessionTypes' /\ passes[c] \in Nat
    BY <1>13 DEF EnsureBetween, SessionTypes, CallTypes, sessionVars
  <2> QED BY <1>13, <2>1, <1>b, <1>f DEF EnsureBetween, AfterBegin
<1>14. CASE TearDown(c)
  <2>1. SessionTypes'
    BY <1>14 DEF TearDown, SessionTypes
  <2>2. passes[c] \in 0..(MaxClasses + 2) /\ "teardown" \in AfterBegin
    BY DEF CallTypes, AfterBegin
  <2>3. UNCHANGED <<op, at, rid, passes, todo, calls>>
    BY <1>14 DEF TearDown, callVars
  <2>4. CallTypes' /\ OnlyMoves(c) /\ pc'[c] = "unlock" /\ Stays(c)
    BY <1>14, <1>a, GotoMoves DEF TearDown
  <2>5. Place(c)'
    BY <1>14, <2>3, <2>4 DEF TearDown, Place, AfterBegin
  <2> QED BY <2>1, <2>4, <2>5, ControlFrame DEF PassLeft
<1>15. CASE UnlockSession(c)
  <2>1. SessionTypes'
    BY <1>15 DEF UnlockSession, SessionTypes
  <2> QED BY <1>15, <2>1, <1>c DEF UnlockSession, AfterBegin
<1>16. CASE FinishLease(c)
  <2>1. SessionTypes'
    BY <1>16 DEF FinishLease, SessionTypes, sessionVars
  <2> QED BY <1>16, <2>1, <1>e DEF FinishLease
<1>17. CASE Panic(c)
  <2>1. at[c] \in SessionIds
    BY <1>17 DEF Panic, Place
  <2>2. SessionTypes'
    BY <1>17, <2>1 DEF Panic, SessionTypes
  <2> QED BY <1>17, <2>2, <1>c DEF Panic, AfterBegin
<1> QED
  BY <1>1, <1>2, <1>3, <1>4, <1>5, <1>6, <1>7, <1>8, <1>9, <1>10, <1>11,
     <1>12, <1>13, <1>14, <1>15, <1>16, <1>17 DEF Server

\* Cancels change nothing but the registry.
LEMMA CancelsOnlyFlag ==
  ASSUME \/ \E k \in Keys : CancelRequest(k)
         \/ \E s \in SessionIds : CancelRequests(s)
         \/ CancelAllRequests
  PROVE  /\ UNCHANGED <<sessionVars, pc, callVars>>
         /\ \E K \in SUBSET Keys : Flag(K)
<1>1. ASSUME NEW k \in Keys, CancelRequest(k)
      PROVE  /\ UNCHANGED <<sessionVars, pc, callVars>>
             /\ \E K \in SUBSET Keys : Flag(K)
  BY <1>1 DEF CancelRequest, Cancel
<1>2. ASSUME NEW s \in SessionIds, CancelRequests(s)
      PROVE  /\ UNCHANGED <<sessionVars, pc, callVars>>
             /\ \E K \in SUBSET Keys : Flag(K)
  BY <1>2, {k \in Keys : k.session = s} \in SUBSET Keys
     DEF CancelRequests, CancelProject
<1>3. CASE CancelAllRequests
  BY <1>3 DEF CancelAllRequests, CancelAll
<1> QED BY <1>1, <1>2, <1>3

LEMMA ControlNext == Control /\ [Next]_vars => Control'
<1> SUFFICES ASSUME Control, [Next]_vars PROVE Control'
  OBVIOUS
<1>1. ASSUME NEW c \in Calls, Client(c) \/ Server(c) \/ Panic(c)
      PROVE  Control'
  BY <1>1, ControlClient, ControlServer
<1>2. ASSUME UNCHANGED <<sessionVars, pc, callVars>>
      PROVE  Control'
  BY <1>2 DEF sessionVars, callVars, Control, SessionTypes, CallTypes, Place,
              PassLeft
<1>3. ASSUME \/ \E k \in Keys : CancelRequest(k)
             \/ \E s \in SessionIds : CancelRequests(s)
             \/ CancelAllRequests
      PROVE  Control'
  BY <1>2, <1>3, CancelsOnlyFlag
<1>4. ASSUME UNCHANGED vars PROVE Control'
  BY <1>2, <1>4 DEF vars
<1> QED BY <1>1, <1>3, <1>4 DEF Next

LEMMA ControlSpec == Spec => []Control
  BY ControlInit, ControlNext, PTL DEF Spec

----------------------------------------------------------------------------
(* Registered *)

LEMMA KeyOfRequest ==
  ASSUME Control, NEW c \in Calls, op[c] \in Requests
  PROVE  Key(c) \in Keys
  BY DEF Control, Place, Key, Keys, Domain, Requests, Inspections, Management

LEMMA KeyOfOthers ==
  ASSUME NEW c \in Calls, OnlyMoves(c), NEW d \in Calls, d # c
  PROVE  /\ Key(d)' = Key(d) /\ op'[d] = op[d]
         /\ key'[d] = key[d] /\ token'[d] = token[d] => (Known(d) => Known(d)')
<1>1. Key(d)' = Key(d) /\ op'[d] = op[d] /\ pc'[d] = pc[d]
  BY DEF OnlyMoves, Key, Domain
<1> QED BY <1>1 DEF Known, Leased

LEMMA KeyStays ==
  ASSUME NEW c \in Calls, Stays(c)
  PROVE  Key(c)' = Key(c)
  BY DEF Stays, Key, Domain

\* A step of one call keeps Registered if that call is known and its key
\* was its own before.
LEMMA RegisteredFrame ==
  ASSUME Registered, NEW c \in Calls, OnlyMoves(c), RegistryInv', Known(c)',
         \A d \in Calls \ {c} : key'[d] = key[d] /\ token'[d] = token[d],
         op'[c] \in Requests => op[c] \in Requests /\ Stays(c)
  PROVE  Registered'
<1>1. \A d \in Calls : Known(d)'
  BY KeyOfOthers DEF Registered
<1>2. \A d \in Calls : op'[d] \in Requests => op[d] \in Requests /\ Key(d)' = Key(d)
  BY KeyOfOthers, KeyStays
<1>3. \A d, e \in Calls : Apart(d, e)'
  BY <1>2 DEF Registered, Apart
<1> QED BY <1>1, <1>3 DEF Registered

\* What every step of a call is: one of the registry or none, and one that
\* leaves the other calls where they are.
StepOf(c) ==
  /\ [RegistryNext]_registryVars
  /\ OnlyMoves(c)
  /\ \A d \in Calls \ {c} : key'[d] = key[d] /\ token'[d] = token[d]

\* A step the registry has no part in.
LEMMA RegisteredStep ==
  ASSUME Registered, NEW c \in Calls, OnlyMoves(c), UNCHANGED registryVars,
         \/ /\ op[c] \in Requests /\ Stays(c)
            /\ pc[c] \notin {"begin", "acquire"} /\ pc'[c] \notin {"begin", "acquire"}
         \/ op[c] \notin Requests /\ op'[c] \notin Requests
  PROVE  Registered' /\ StepOf(c)
<1>1. RegistryInv'
  BY RegistryNextInv DEF Registered
<1>2. key' = key /\ token' = token
  BY DEF registryVars
<1>3. Known(c)'
  <2>1. Known(c)
    BY DEF Registered
  <2>2. CASE op[c] \in Requests /\ Stays(c)
    <3>1. Key(c)' = Key(c) /\ op'[c] = op[c]
      BY <2>2, KeyStays DEF Stays
    <3> QED BY <2>1, <2>2, <3>1, <1>2 DEF Known, Leased
  <2>3. CASE op[c] \notin Requests
    BY <2>1, <2>3, <1>2 DEF Known, Leased
  <2> QED BY <2>2, <2>3
<1>4. op'[c] \in Requests => op[c] \in Requests /\ Stays(c)
  OBVIOUS
<1>5. \A d \in Calls \ {c} : key'[d] = key[d] /\ token'[d] = token[d]
  BY <1>2
<1> QED BY <1>1, <1>3, <1>4, <1>5, RegisteredFrame DEF StepOf

LEMMA RegisteredInit == Init => Registered
<1> SUFFICES ASSUME Init PROVE Registered
  OBVIOUS
<1>1. RegistryInv
  BY RegistryInitInv DEF Init
<1>2. \A c \in Calls : op[c] = "none" /\ key[c] = NoKey /\ token[c] = NoToken
  BY DEF Init, RegistryInit
<1>3. "none" \notin Requests
  BY DEF Requests
<1> QED BY <1>1, <1>2, <1>3 DEF Registered, Known, Apart, Leased

LEMMA RegisteredClient ==
  ASSUME Control, Registered, NEW c \in Calls, Client(c)
  PROVE  Registered' /\ StepOf(c)
<1>a. CallTypes /\ "none" \notin Requests
  BY DEF Control, Requests
<1>b. pc[c] = "idle" => op[c] = "none"
  BY DEF Control, Place, AfterBegin
<1>1. CASE OpenArchive(c)
  <2>1. nextSession \in SessionIds /\ "insert" \in Labels /\ "open" \notin Requests
    BY <1>1 DEF OpenArchive, Control, SessionTypes, Labels, Requests
  <2>2. OnlyMoves(c) /\ pc[c] = "idle" /\ op'[c] = "open"
    BY <1>1, <1>a, <2>1, CallMoves DEF OpenArchive, CallTypes
  <2>3. UNCHANGED registryVars
    BY <1>1 DEF OpenArchive
  <2> QED BY <1>a, <1>b, <2>1, <2>2, <2>3, RegisteredStep
<1>2. CASE ListProjects(c)
  <2>1. todo' \in [Calls -> SUBSET SessionIds]
    BY <1>2, <1>a DEF ListProjects, CallTypes, Control, SessionTypes
  <2>2. "list" \in Labels /\ "projects" \notin Requests
    BY DEF Labels, Requests
  <2>3. OnlyMoves(c) /\ pc[c] = "idle" /\ op'[c] = "projects"
    BY <1>2, <1>a, <2>1, <2>2, CallMoves DEF ListProjects
  <2>4. UNCHANGED registryVars
    BY <1>2 DEF ListProjects
  <2> QED BY <1>a, <1>b, <2>2, <2>3, <2>4, RegisteredStep
<1>3. ASSUME NEW s \in SessionIds, CloseCancels(c, s)
      PROVE  Registered' /\ StepOf(c)
  <2>1. todo' \in [Calls -> SUBSET SessionIds]
    BY <1>3, <1>a DEF CloseCancels, CallTypes
  <2>2. "remove" \in Labels /\ "close" \notin Requests
    BY DEF Labels, Requests
  <2>3. OnlyMoves(c) /\ pc[c] = "idle" /\ op'[c] = "close"
    BY <1>3, <1>a, <2>1, <2>2, CallMoves DEF CloseCancels
  <2>4. CancelProject(s) /\ key' = key /\ token' = token
    BY <1>3 DEF CloseCancels, CancelProject, Flag
  <2>5. RegistryNext
    BY <2>4 DEF RegistryNext
  <2>6. RegistryInv'
    BY <2>5, RegistryNextInv DEF Registered
  <2>7. Known(c)'
    BY <1>a, <1>b, <2>2, <2>3, <2>4 DEF Registered, Known, Leased
  <2>8. \A d \in Calls \ {c} : key'[d] = key[d] /\ token'[d] = token[d]
    BY <2>4
  <2> QED BY <2>2, <2>3, <2>5, <2>6, <2>7, <2>8, RegisteredFrame DEF StepOf
<1>4. ASSUME NEW s \in SessionIds, NEW o \in Inspections, Inspect(c, o, s)
      PROVE  Registered' /\ StepOf(c)
  <2>1. todo' \in [Calls -> SUBSET SessionIds]
    BY <1>4, <1>a DEF Inspect, CallTypes
  <2>2. "lock" \in Labels /\ o \notin Requests
    BY DEF Labels, Requests, Inspections
  <2>3. OnlyMoves(c) /\ pc[c] = "idle" /\ op'[c] = o
    BY <1>4, <1>a, <2>1, <2>2, CallMoves DEF Inspect
  <2>4. UNCHANGED registryVars
    BY <1>4 DEF Inspect
  <2> QED BY <1>a, <1>b, <2>2, <2>3, <2>4, RegisteredStep
<1>5. ASSUME NEW s \in SessionIds, NEW o \in Requests, NEW r \in RequestIds,
             Request(c, o, s, r)
      PROVE  Registered' /\ StepOf(c)
  <2>1. todo' \in [Calls -> SUBSET SessionIds] /\ "begin" \in Labels
    BY <1>5, <1>a DEF Request, CallTypes, Labels
  <2>2. /\ OnlyMoves(c) /\ pc[c] = "idle" /\ pc'[c] = "begin"
        /\ op'[c] = o /\ at'[c] = s /\ rid'[c] = r
    BY <1>5, <1>a, <2>1, CallMoves DEF Request
  <2>3. UNCHANGED registryVars /\ key' = key /\ token' = token
    BY <1>5 DEF Request, registryVars
  <2>4. RegistryInv'
    BY <2>3, RegistryNextInv DEF Registered
  <2>5. Known(c)'
    BY <1>a, <1>b, <2>2, <2>3 DEF Registered, Known, Leased
  <2>6. \A d \in Calls : Known(d)'
    BY <2>2, <2>3, <2>5, KeyOfOthers DEF Registered
  <2>7. MayIssue(Key(c)')
    BY <1>5, <2>2 DEF Request, Key, Domain
  <2>8. \A d \in Calls \ {c} : op[d] \in Requests /\ Key(d) = Key(c)' =>
                                 Key(c)'.domain \in ReusedDomains
    BY <2>7 DEF MayIssue
  <2>9. \A d, e \in Calls : Apart(d, e)'
    <3> SUFFICES ASSUME NEW d \in Calls, NEW e \in Calls PROVE Apart(d, e)'
      OBVIOUS
    <3>1. CASE d = c /\ e # c
      BY <3>1, <2>2, <2>8, KeyOfOthers DEF Apart
    <3>2. CASE d # c /\ e = c
      BY <3>2, <2>2, <2>8, KeyOfOthers DEF Apart
    <3>3. CASE d # c /\ e # c
      BY <3>3, <2>2, KeyOfOthers DEF Apart, Registered
    <3> QED BY <3>1, <3>2, <3>3 DEF Apart
  <2> QED BY <2>2, <2>3, <2>4, <2>6, <2>9 DEF Registered, StepOf
<1> QED BY <1>1, <1>2, <1>3, <1>4, <1>5 DEF Client

LEMMA RegisteredServer ==
  ASSUME Control, Registered, NEW c \in Calls, Server(c) \/ Panic(c)
  PROVE  Registered' /\ StepOf(c)
<1>a. CallTypes /\ "none" \notin Requests /\ AfterBegin \subseteq Labels
  BY DEF Control, Requests, AfterBegin, Labels
<1>b. /\ pc[c] \in {"begin", "acquire", "current", "lookup", "locked", "setup",
                    "ensure", "finish"} => op[c] \in Requests
      /\ pc[c] \in {"insert", "remove", "list"} => op[c] \notin Requests
  BY DEF Control, Place, AfterBegin, Management, Requests, Inspections
\* The steps after the lease was taken, and those of calls without one.
<1>c. ASSUME NEW l \in AfterBegin \ {"acquire"}, Goto(c, l), UNCHANGED registryVars,
             op[c] \in Requests => pc[c] \notin {"begin", "acquire"},
             \/ UNCHANGED callVars
             \/ /\ \E n \in 0..(MaxClasses + 2) : passes' = [passes EXCEPT ![c] = n]
                /\ UNCHANGED <<op, at, rid, todo, calls>>
      PROVE  Registered' /\ StepOf(c)
  <2>1. l \in Labels /\ l \notin {"begin", "acquire"}
    BY <1>a DEF AfterBegin
  <2>2. OnlyMoves(c) /\ pc'[c] = l /\ Stays(c)
    BY <1>a, <1>c, <2>1, GotoMoves, PassesMoves
  <2>3. op[c] \notin Requests => op'[c] \notin Requests
    BY <2>2 DEF Stays
  <2> QED BY <1>c, <2>1, <2>2, <2>3, RegisteredStep
<1>d. ASSUME Leave(c), UNCHANGED registryVars, pc[c] \in {"lock", "setup", "work", "unlock"}
      PROVE  Registered' /\ StepOf(c)
  <2>1. /\ OnlyMoves(c)
        /\ IF op[c] \in Requests
           THEN pc'[c] = "finish" /\ Stays(c)
           ELSE pc'[c] = "idle" /\ op'[c] = "none"
    BY <1>a, <1>d, LeaveMoves
  <2> QED BY <1>a, <1>d, <2>1, RegisteredStep
<1>e. ASSUME Return(c), UNCHANGED registryVars, op[c] \notin Requests
      PROVE  Registered' /\ StepOf(c)
  BY <1>a, <1>e, ReturnMoves, RegisteredStep
<1>1. CASE InsertSession(c)
  BY <1>1, <1>b, <1>e DEF InsertSession
<1>2. CASE RemoveSession(c)
  BY <1>2, <1>b, <1>e DEF RemoveSession
<1>3. CASE EndList(c)
  BY <1>3, <1>b, <1>e DEF EndList
<1>4. ASSUME NEW s \in SessionIds, VisitProject(c, s)
      PROVE  Registered' /\ StepOf(c)
  <2>1. /\ OnlyMoves(c) /\ op'[c] = op[c] /\ UNCHANGED registryVars
        /\ op[c] \notin Requests
    BY <1>4, <1>b DEF VisitProject, OnlyMoves
  <2> QED BY <2>1, RegisteredStep
<1>5. CASE BeginRequest(c)
  <2>1. "acquire" \in Labels /\ op[c] \in Requests /\ pc[c] = "begin"
    BY <1>5, <1>b DEF BeginRequest, Labels
  <2>2. OnlyMoves(c) /\ pc'[c] = "acquire" /\ Stays(c)
    BY <1>5, <1>a, <2>1, GotoMoves DEF BeginRequest
  <2>3. Key(c) \in Keys /\ FreeTokens \subseteq Free
    BY <2>1, KeyOfRequest DEF FreeTokens
  <2>4. Begin(c, Key(c), Free)
    BY <1>5, <2>3 DEF BeginRequest, Begin
  <2>5. MayBegin(Key(c))
    <3> SUFFICES ASSUME Key(c).domain \notin ReusedDomains
                 PROVE  WithKey(Key(c)) = {}
      BY DEF MayBegin
    <3> SUFFICES ASSUME NEW d \in Calls, key[d] = Key(c) PROVE FALSE
      BY DEF WithKey
    <3>1. Known(d) /\ Known(c) /\ Apart(c, d)
      BY DEF Registered
    <3>2. Key(c) # NoKey /\ key[c] = NoKey
      BY <2>1, <2>3, <3>1, KeyAssumption DEF Known
    <3>3. op[d] \in Requests /\ Key(d) = Key(c)
      BY <3>1, <3>2 DEF Known
    <3> QED BY <2>1, <3>1, <3>2, <3>3 DEF Apart
  <2>6. RegistryNext
    BY <2>3, <2>4, <2>5 DEF RegistryNext
  <2>7. RegistryInv'
    BY <2>6, RegistryNextInv DEF Registered
  <2>8. key' = [key EXCEPT ![c] = Key(c)] /\ token' = token
    BY <2>4 DEF Begin
  <2>9. /\ key'[c] = Key(c) /\ token'[c] = NoToken
        /\ \A d \in Calls \ {c} : key'[d] = key[d] /\ token'[d] = token[d]
    BY <2>1, <2>8 DEF Registered, RegistryInv, RegistryTypeOK, Known, Leased
  <2>10. Known(c)'
    BY <2>1, <2>2, <2>9, KeyStays DEF Known, Leased, Stays
  <2> QED BY <2>1, <2>2, <2>6, <2>7, <2>9, <2>10, RegisteredFrame DEF StepOf
<1>6. CASE AcquireLease(c)
  <2>1. "current" \in Labels /\ op[c] \in Requests /\ pc[c] = "acquire"
    BY <1>6, <1>b DEF AcquireLease, Labels
  <2>2. OnlyMoves(c) /\ pc'[c] = "current" /\ Stays(c)
    BY <1>6, <1>a, <2>1, GotoMoves DEF AcquireLease
  <2>3. Acquire(c, Free)
    BY <1>6 DEF AcquireLease, Acquire, FreeTokens
  <2>4. RegistryNext
    BY <2>3 DEF RegistryNext
  <2>5. RegistryInv'
    BY <2>4, RegistryNextInv DEF Registered
  <2>6. key' = key /\ \E t \in Tokens : token' = [token EXCEPT ![c] = t]
    <3>1. active[key[c]] # NoToken => active[key[c]] \in Tokens
      BY <2>3 DEF Registered, RegistryInv, RegistryTypeOK, Acquire, InFlight
    <3> QED BY <2>3, <3>1 DEF Acquire, Free
  <2>7. /\ token'[c] \in Tokens
        /\ \A d \in Calls \ {c} : key'[d] = key[d] /\ token'[d] = token[d]
    BY <2>6 DEF Registered, RegistryInv, RegistryTypeOK
  <2>8. Known(c)
    BY DEF Registered
  <2>9. Known(c)'
    BY <2>1, <2>2, <2>6, <2>7, <2>8, KeyStays, RegistryAssumption
       DEF Known, Leased, Stays
  <2> QED BY <2>1, <2>2, <2>4, <2>5, <2>7, <2>9, RegisteredFrame DEF StepOf
<1>7. CASE EnsureCurrent(c)
  BY <1>7, <1>c, "lookup" \in AfterBegin, "finish" \in AfterBegin
     DEF EnsureCurrent, AfterBegin
<1>8. CASE LookUp(c)
  BY <1>8, <1>c, "lock" \in AfterBegin, "finish" \in AfterBegin
     DEF LookUp, AfterBegin
<1>9. CASE LockSession(c)
  <2>1. CASE at[c] \in poisoned
    BY <1>9, <2>1, <1>d DEF LockSession
  <2>2. CASE at[c] \notin poisoned /\ op[c] \in Requests
    BY <1>9, <2>2, <1>c, "locked" \in AfterBegin DEF LockSession, AfterBegin
  <2>3. CASE at[c] \notin poisoned /\ op[c] \notin Requests
    BY <1>9, <2>3, <1>c, "work" \in AfterBegin, 1 \in 0..(MaxClasses + 2)
       DEF LockSession, AfterBegin
  <2> QED BY <2>1, <2>2, <2>3
<1>10. CASE EnsureStillCurrent(c)
  BY <1>10, <1>c, "setup" \in AfterBegin, "unlock" \in AfterBegin
     DEF EnsureStillCurrent, AfterBegin
<1>11. CASE SetUp(c)
  <2>1. Passes(op[c]) \in 0..(MaxClasses + 2)
    BY DEF Passes
  <2>2. /\ {"unlock", "work", "ensure"} \subseteq AfterBegin \ {"acquire"}
        /\ pc[c] = "setup" /\ UNCHANGED registryVars
    BY <1>11 DEF SetUp, AfterBegin
  <2>3. CASE Goto(c, "unlock") /\ UNCHANGED callVars
    BY <2>2, <2>3, <1>c
  <2>4. CASE /\ passes' = [passes EXCEPT ![c] = Passes(op[c])]
             /\ Goto(c, IF Passes(op[c]) > 0 THEN "work" ELSE "ensure")
             /\ UNCHANGED <<op, at, rid, todo, calls>>
    BY <2>1, <2>2, <2>4, <1>c
  <2> QED BY <1>11, <2>3, <2>4 DEF SetUp
<1>12. CASE Work(c)
  <2>1. passes[c] - 1 \in 0..(MaxClasses + 2) /\ 0 \in 0..(MaxClasses + 2)
    BY <1>12 DEF Work, Control, CallTypes, PassLeft
  <2>2. /\ {"teardown", "ensure"} \subseteq AfterBegin \ {"acquire"}
        /\ pc[c] = "work" /\ UNCHANGED registryVars
        /\ UNCHANGED <<op, at, rid, todo, calls>>
    BY <1>12 DEF Work, AfterBegin
  <2>3. CASE passes' = [passes EXCEPT ![c] = 0] /\ Goto(c, "teardown")
    BY <2>1, <2>2, <2>3, <1>c
  <2>4. CASE /\ passes' = [passes EXCEPT ![c] = passes[c] - 1]
             /\ Goto(c, IF passes[c] > 1 \/ op[c] \in Searches
                        THEN "ensure" ELSE "teardown")
    BY <2>1, <2>2, <2>4, <1>c
  <2> QED BY <1>12, <2>3, <2>4 DEF Work
<1>13. CASE EnsureBetween(c)
  BY <1>13, <1>c, "work" \in AfterBegin, "teardown" \in AfterBegin
     DEF EnsureBetween, AfterBegin
<1>14. CASE TearDown(c)
  BY <1>14, <1>c, "unlock" \in AfterBegin DEF TearDown, AfterBegin
<1>15. CASE UnlockSession(c)
  BY <1>15, <1>d DEF UnlockSession
<1>16. CASE FinishLease(c)
  <2>1. op[c] \in Requests /\ Finish(c)
    BY <1>16, <1>b DEF FinishLease
  <2>2. OnlyMoves(c) /\ pc'[c] = "idle" /\ op'[c] = "none"
    BY <1>16, <1>a, ReturnMoves DEF FinishLease
  <2>3. RegistryNext
    BY <2>1 DEF RegistryNext
  <2>4. RegistryInv'
    BY <2>3, RegistryNextInv DEF Registered
  <2>5. /\ key'[c] = NoKey /\ token'[c] = NoToken
        /\ \A d \in Calls \ {c} : key'[d] = key[d] /\ token'[d] = token[d]
    BY <2>1 DEF Finish, Registered, RegistryInv, RegistryTypeOK
  <2>6. Known(c)'
    BY <1>a, <2>2, <2>5 DEF Known, Leased
  <2> QED BY <1>a, <2>2, <2>3, <2>4, <2>5, <2>6, RegisteredFrame DEF StepOf
<1>17. CASE Panic(c)
  BY <1>17, <1>d DEF Panic
<1> QED
  BY <1>1, <1>2, <1>3, <1>4, <1>5, <1>6, <1>7, <1>8, <1>9, <1>10, <1>11,
     <1>12, <1>13, <1>14, <1>15, <1>16, <1>17 DEF Server

\* Every step keeps Registered, and is a step of the registry or none.
LEMMA RegisteredNext ==
  Control /\ Registered /\ [Next]_vars => Registered' /\ [RegistryNext]_registryVars
<1> SUFFICES ASSUME Control, Registered, [Next]_vars
             PROVE  Registered' /\ [RegistryNext]_registryVars
  OBVIOUS
<1>1. ASSUME NEW c \in Calls, Client(c) \/ Server(c) \/ Panic(c)
      PROVE  Registered' /\ [RegistryNext]_registryVars
  BY <1>1, RegisteredClient, RegisteredServer DEF StepOf
<1>2. ASSUME UNCHANGED <<pc, callVars, key, token>>, RegistryInv'
      PROVE  Registered'
  BY <1>2 DEF callVars, Registered, Known, Apart, Leased, Key, Domain
<1>3. ASSUME \/ \E k \in Keys : CancelRequest(k)
             \/ \E s \in SessionIds : CancelRequests(s)
             \/ CancelAllRequests
      PROVE  Registered' /\ [RegistryNext]_registryVars
  <2>1. RegistryNext
    BY <1>3 DEF CancelRequest, CancelRequests, CancelAllRequests, RegistryNext
  <2>2. RegistryInv'
    BY <2>1, RegistryNextInv DEF Registered
  <2>3. UNCHANGED <<pc, callVars, key, token>>
    BY <1>3, CancelsOnlyFlag DEF Flag
  <2> QED BY <1>2, <2>1, <2>2, <2>3
<1>4. ASSUME UNCHANGED vars
      PROVE  Registered' /\ [RegistryNext]_registryVars
  <2>1. UNCHANGED <<pc, callVars, key, token>> /\ UNCHANGED registryVars
    BY <1>4 DEF vars, registryVars
  <2>2. RegistryInv'
    BY <2>1, RegistryNextInv DEF Registered
  <2> QED BY <1>2, <2>1, <2>2
<1> QED BY <1>1, <1>3, <1>4 DEF Next

\* The Workbench uses the registry as its clients should: whatever calls,
\* closes, panics and cancels there are, what happens to the registry is a
\* behaviour of RequestRegistry, so all that was proved of it holds here.
THEOREM WorkbenchImplementsRegistry == Spec => RegistrySpec
<1>1. Init => RegistryInit
  BY DEF Init
<1> QED
  BY <1>1, ControlInit, ControlNext, RegisteredInit, RegisteredNext, PTL
     DEF Spec, RegistrySpec

----------------------------------------------------------------------------
(* Protected *)

LEMMA ProtectedInit == Init => Protected
<1> SUFFICES ASSUME Init PROVE Protected
  OBVIOUS
<1>1. observer \in [SessionIds -> Tokens \cup {NoToken}]
  BY DEF Init
<1>2. \A c \in Calls : ~Locked(c)
  BY DEF Init, Locked
<1>3. \A s \in SessionIds : holder[s] = NoCall
  BY DEF Init
<1>4. FreeSessionIsClean
  BY DEF Init, FreeSessionIsClean
<1> QED BY <1>1, <1>2, <1>3, <1>4 DEF Protected

\* The mutexes and what they protect.
protectedVars == <<holder, poisoned, observer, dirty>>

LEMMA HoldingOfOthers ==
  ASSUME NEW c \in Calls, StepOf(c), NEW d \in Calls, d # c
  PROVE  /\ Locked(d)' <=> Locked(d)
         /\ at'[d] = at[d]
         /\ (/\ holder'[at[d]] = holder[at[d]]
             /\ observer'[at[d]] = observer[at[d]]
             /\ dirty'[at[d]] = dirty[at[d]]
             /\ at[d] \in poisoned' => at[d] \in poisoned)
            => (Holding(d) => Holding(d)')
<1>1. pc'[d] = pc[d] /\ op'[d] = op[d] /\ at'[d] = at[d] /\ token'[d] = token[d]
  BY DEF StepOf, OnlyMoves
<1> QED BY <1>1 DEF Locked, Holding, Working

\* A step of a call that holds no mutex, before or after.
LEMMA ProtectedOutside ==
  ASSUME Protected, NEW c \in Calls, StepOf(c), UNCHANGED protectedVars,
         ~Locked(c), ~Locked(c)'
  PROVE  Protected'
<1>1. holder' = holder /\ poisoned' = poisoned /\ observer' = observer /\ dirty' = dirty
  BY DEF protectedVars
<1>2. \A d \in Calls : Locked(d)' => Holding(d)'
  BY <1>1, HoldingOfOthers DEF Protected
<1>3. ASSUME NEW s \in SessionIds, NEW d \in Calls, holder'[s] = d
      PROVE  Locked(d)' /\ at'[d] = s
  <2>1. Locked(d) /\ at[d] = s
    BY <1>1, <1>3 DEF Protected
  <2> QED BY <2>1, HoldingOfOthers
<1>4. FreeSessionIsClean'
  BY <1>1 DEF Protected, FreeSessionIsClean
<1> QED BY <1>1, <1>2, <1>3, <1>4 DEF Protected

\* A step of a call in its session: it holds the mutex, or the mutex is free;
\* after it the call holds the mutex, or the mutex is free and the session is
\* clean or poisoned.
LEMMA ProtectedInside ==
  ASSUME Control, Protected, NEW c \in Calls, StepOf(c), NEW s \in SessionIds,
         at[c] = s, Locked(c) \/ holder[s] = NoCall,
         observer' \in [SessionIds -> Tokens \cup {NoToken}],
         \A r \in SessionIds \ {s} :
           /\ holder'[r] = holder[r] /\ observer'[r] = observer[r]
           /\ dirty'[r] = dirty[r]
           /\ r \in poisoned' => r \in poisoned
           /\ r \in poisoned => r \in poisoned',
         \/ Locked(c)' /\ at'[c] = s /\ Holding(c)'
         \/ /\ ~Locked(c)' /\ holder'[s] = NoCall
            /\ s \in poisoned' \/ (observer'[s] = NoToken /\ ~dirty'[s])
  PROVE  Protected'
<1>1. \A d \in Calls \ {c} : Locked(d) => at[d] # s /\ at[d] \in SessionIds
  <2> SUFFICES ASSUME NEW d \in Calls \ {c}, Locked(d)
               PROVE  at[d] # s /\ at[d] \in SessionIds
    OBVIOUS
  <2>1. holder[at[d]] = d
    BY DEF Protected, Holding
  <2>2. at[d] \in SessionIds
    BY DEF Control, Place, Locked, AfterBegin
  <2>3. Locked(c) => holder[s] = c
    BY DEF Protected, Holding
  <2> QED BY <2>1, <2>2, <2>3
<1>2. \A d \in Calls : Locked(d)' => Holding(d)'
  <2> SUFFICES ASSUME NEW d \in Calls, Locked(d)' PROVE Holding(d)'
    OBVIOUS
  <2>1. CASE d = c
    BY <2>1
  <2>2. CASE d # c
    BY <2>2, <1>1, HoldingOfOthers DEF Protected
  <2> QED BY <2>1, <2>2
<1>3. ASSUME NEW r \in SessionIds, NEW d \in Calls, holder'[r] = d
      PROVE  Locked(d)' /\ at'[d] = r
  <2>1. CASE r = s
    <3>1. Locked(c)' /\ at'[c] = s /\ holder'[s] = c
      BY <1>3, <2>1 DEF Holding
    <3> QED BY <1>3, <2>1, <3>1
  <2>2. CASE r # s
    <3>1. Locked(d) /\ at[d] = r
      BY <1>3, <2>2 DEF Protected
    <3>2. d # c
      BY <2>2, <3>1
    <3> QED BY <3>1, <3>2, HoldingOfOthers
  <2> QED BY <2>1, <2>2
<1>5. FreeSessionIsClean'
  <2> SUFFICES ASSUME NEW r \in SessionIds, holder'[r] = NoCall, r \notin poisoned'
               PROVE  observer'[r] = NoToken /\ ~dirty'[r]
    BY DEF FreeSessionIsClean
  <2>1. CASE r = s
    BY <2>1 DEF Holding
  <2>2. CASE r # s
    BY <2>2 DEF Protected, FreeSessionIsClean
  <2> QED BY <2>1, <2>2
<1> QED BY <1>2, <1>3, <1>5 DEF Protected

LEMMA ProtectedClient ==
  ASSUME Control, Protected, NEW c \in Calls, Client(c), StepOf(c)
  PROVE  Protected'
<1>1. UNCHANGED protectedVars
  BY DEF Client, OpenArchive, ListProjects, CloseCancels, Inspect, Request,
         sessionVars, protectedVars
<1>2. /\ pc[c] = "idle"
      /\ \E l \in {"insert", "list", "remove", "lock", "begin"} : Goto(c, l)
  BY DEF Client, OpenArchive, ListProjects, CloseCancels, Inspect, Request, Call
<1>3. ~Locked(c) /\ ~Locked(c)'
  BY <1>2 DEF Locked, Goto, Control, CallTypes
<1> QED BY <1>1, <1>3, ProtectedOutside

LEMMA ProtectedServer ==
  ASSUME Control, Registered, Protected, NEW c \in Calls,
         Server(c) \/ Panic(c), StepOf(c)
  PROVE  Protected'
<1>a. /\ CallTypes /\ SessionTypes
      /\ observer \in [SessionIds -> Tokens \cup {NoToken}]
      /\ token \in [Calls -> Tokens \cup {NoToken}]
  BY DEF Control, Protected, Registered, RegistryInv, RegistryTypeOK
<1>b. pc[c] \in AfterBegin =>
        /\ at[c] \in SessionIds
        /\ op[c] \in Requests \cup Inspections
  BY DEF Control, Place, AfterBegin
<1>c. Locked(c) => pc[c] \in AfterBegin /\ Holding(c)
  BY DEF Locked, AfterBegin, Protected
\* Steps outside the mutex of the session.
<1>d. ASSUME UNCHANGED protectedVars, ~Locked(c),
             Return(c) \/ Leave(c) \/ UNCHANGED pc
               \/ \E l \in {"acquire", "current", "lookup", "lock", "finish"} : Goto(c, l)
      PROVE  Protected'
  <2>1. ~Locked(c)'
    BY <1>a, <1>d DEF Locked, Return, Leave, Goto, CallTypes
  <2> QED BY <1>d, <2>1, ProtectedOutside
\* Steps under the mutex that change nothing it protects.
<1>e. ASSUME UNCHANGED <<protectedVars, registryVars, callVars>>, pc[c] \in {"locked", "setup", "ensure"},
             NEW l \in {"setup", "unlock", "work", "teardown"}, Goto(c, l),
             l \in {"work", "teardown"} <=> pc[c] = "ensure"
      PROVE  Protected'
  <2>1. pc'[c] = l /\ Locked(c) /\ Locked(c)' /\ (Working(c)' <=> Working(c))
    BY <1>a, <1>e DEF Goto, CallTypes, Locked, Working
  <2>2. at'[c] = at[c] /\ op'[c] = op[c] /\ token'[c] = token[c]
    BY <1>e DEF callVars, registryVars
  <2>3. /\ holder' = holder /\ poisoned' = poisoned /\ observer' = observer
        /\ dirty' = dirty
    BY <1>e DEF protectedVars
  <2>4. Holding(c)'
    BY <1>c, <2>1, <2>2, <2>3 DEF Holding
  <2>5. at[c] \in SessionIds
    BY <1>b, <1>c, <2>1
  <2> QED BY <1>a, <2>1, <2>2, <2>3, <2>4, <2>5, ProtectedInside
<1>1. CASE InsertSession(c)
  BY <1>1, <1>d DEF InsertSession, protectedVars, Locked
<1>2. CASE RemoveSession(c)
  BY <1>2, <1>d DEF RemoveSession, protectedVars, Locked
<1>3. CASE EndList(c)
  BY <1>3, <1>d DEF EndList, protectedVars, Locked
<1>4. ASSUME NEW s \in SessionIds, VisitProject(c, s)
      PROVE  Protected'
  BY <1>4, <1>d DEF VisitProject, sessionVars, protectedVars, Locked
<1>5. CASE BeginRequest(c)
  BY <1>5, <1>d DEF BeginRequest, sessionVars, protectedVars, Locked
<1>6. CASE AcquireLease(c)
  BY <1>6, <1>d DEF AcquireLease, sessionVars, protectedVars, Locked
<1>7. CASE EnsureCurrent(c)
  BY <1>7, <1>d DEF EnsureCurrent, sessionVars, protectedVars, Locked
<1>8. CASE LookUp(c)
  BY <1>8, <1>d DEF LookUp, sessionVars, protectedVars, Locked
<1>9. CASE LockSession(c)
  <2>1. CASE at[c] \in poisoned
    BY <1>9, <2>1, <1>d DEF LockSession, protectedVars, Locked
  <2>2. CASE at[c] \notin poisoned
    <3>1. pc[c] = "lock" /\ at[c] \in SessionIds /\ holder[at[c]] = NoCall
      BY <1>9, <1>b DEF LockSession, AfterBegin
    <3>2. observer[at[c]] = NoToken /\ ~dirty[at[c]]
      BY <3>1, <2>2 DEF Protected, FreeSessionIsClean
    <3>3. /\ holder' = [holder EXCEPT ![at[c]] = c]
          /\ observer' = observer /\ poisoned' = poisoned
          /\ op'[c] = op[c] /\ at'[c] = at[c] /\ token'[c] = token[c]
          /\ dirty' = dirty \/ dirty' = [dirty EXCEPT ![at[c]] = @ /\ op[c] # "inspect"]
          /\ IF op[c] \in Requests THEN Goto(c, "locked") ELSE Goto(c, "work")
      BY <1>9, <2>2 DEF LockSession, callVars, registryVars
    <3>4. ~dirty'[at[c]] /\ \A r \in SessionIds \ {at[c]} : dirty'[r] = dirty[r]
      BY <3>1, <3>2, <3>3, <1>a DEF SessionTypes
    <3>5. pc'[c] = IF op[c] \in Requests THEN "locked" ELSE "work"
      BY <3>3, <1>a DEF Goto, CallTypes
    <3>6. Locked(c)' /\ Holding(c)'
      BY <3>1, <3>2, <3>3, <3>4, <3>5, <2>2, <1>a
         DEF Locked, Holding, Working, SessionTypes
    <3> QED BY <3>1, <3>3, <3>4, <3>6, <1>a, ProtectedInside DEF SessionTypes
  <2> QED BY <2>1, <2>2
<1>10. CASE EnsureStillCurrent(c)
  BY <1>10, <1>e DEF EnsureStillCurrent, sessionVars, protectedVars
<1>11. CASE SetUp(c)
  <2>1. /\ pc[c] = "setup" /\ Locked(c) /\ Holding(c) /\ at[c] \in SessionIds
        /\ op[c] \in Requests /\ ~dirty[at[c]]
    BY <1>11, <1>b, <1>c
       DEF SetUp, Locked, AfterBegin, Holding, Working, Control, Place
  <2>2. /\ holder' = holder /\ poisoned' = poisoned
        /\ UNCHANGED registryVars
    BY <1>11 DEF SetUp
  <2>3. CASE Goto(c, "unlock") /\ UNCHANGED <<observer, dirty, callVars>>
    BY <2>1, <2>2, <2>3, <1>e DEF protectedVars
  <2>4. CASE /\ observer' = [observer EXCEPT ![at[c]] = token[c]]
             /\ dirty' = [dirty EXCEPT ![at[c]] = @ /\ op[c] = "references"]
             /\ Goto(c, IF Passes(op[c]) > 0 THEN "work" ELSE "ensure")
             /\ UNCHANGED <<op, at, rid, todo, calls>>
    <3>1. pc'[c] \in {"work", "ensure"} /\ Locked(c)' /\ Working(c)'
      BY <2>4, <1>a DEF Goto, CallTypes, Locked, Working
    <3>2. op'[c] = op[c] /\ at'[c] = at[c] /\ token'[c] = token[c]
      BY <2>2, <2>4 DEF registryVars
    <3>3. /\ observer' \in [SessionIds -> Tokens \cup {NoToken}]
          /\ observer'[at[c]] = token[c] /\ ~dirty'[at[c]]
          /\ \A r \in SessionIds \ {at[c]} :
               observer'[r] = observer[r] /\ dirty'[r] = dirty[r]
      BY <2>1, <2>4, <1>a DEF SessionTypes
    <3>4. Holding(c)'
      BY <2>1, <2>2, <3>1, <3>2, <3>3 DEF Holding
    <3> QED BY <2>1, <2>2, <3>1, <3>2, <3>3, <3>4, ProtectedInside
  <2> QED BY <1>11, <2>3, <2>4 DEF SetUp
<1>12. CASE Work(c)
  <2>1. /\ pc[c] = "work" /\ Locked(c) /\ Working(c) /\ Holding(c)
        /\ at[c] \in SessionIds
    BY <1>12, <1>b, <1>c DEF Work, Locked, Working, AfterBegin
  <2>2. /\ holder' = holder /\ poisoned' = poisoned /\ observer' = observer
        /\ op'[c] = op[c] /\ at'[c] = at[c] /\ token'[c] = token[c]
        /\ Goto(c, "ensure") \/ Goto(c, "teardown")
    BY <1>12 DEF Work, registryVars
  <2>3. pc'[c] \in {"ensure", "teardown"} /\ Locked(c)' /\ Working(c)'
    BY <2>2, <1>a DEF Goto, CallTypes, Locked, Working
  <2>4. /\ ~Loads(op[c]) => dirty'[at[c]] = dirty[at[c]]
        /\ \A r \in SessionIds \ {at[c]} : dirty'[r] = dirty[r]
    BY <1>12, <2>1, <1>a DEF Work, SessionTypes
  <2>5. Holding(c)'
    BY <2>1, <2>2, <2>3, <2>4 DEF Holding
  <2> QED BY <2>1, <2>2, <2>3, <2>4, <2>5, <1>a, ProtectedInside
<1>13. CASE EnsureBetween(c)
  BY <1>13, <1>e DEF EnsureBetween, sessionVars, protectedVars
<1>14. CASE TearDown(c)
  <2>1. /\ pc[c] = "teardown" /\ Locked(c) /\ Working(c) /\ Holding(c)
        /\ at[c] \in SessionIds /\ op[c] \in Requests \cup Inspections
    BY <1>14, <1>b, <1>c DEF TearDown, Locked, Working, AfterBegin
  <2>2. /\ holder' = holder /\ poisoned' = poisoned
        /\ op'[c] = op[c] /\ at'[c] = at[c] /\ token'[c] = token[c]
        /\ Goto(c, "unlock")
        /\ observer' = [observer EXCEPT ![at[c]] =
                          IF op[c] \in Requests THEN NoToken ELSE observer[at[c]]]
        /\ dirty' = [dirty EXCEPT ![at[c]] =
                       dirty[at[c]] /\ op[c] \notin Requests \cup {"inspect"}]
    BY <1>14 DEF TearDown, registryVars, callVars
  <2>3. pc'[c] = "unlock" /\ Locked(c)' /\ ~Working(c)'
    BY <2>2, <1>a DEF Goto, CallTypes, Locked, Working
  <2>4. Loads(op[c]) => op[c] \in Requests \cup {"inspect"}
    BY DEF Loads, Requests
  <2>5. /\ observer' \in [SessionIds -> Tokens \cup {NoToken}]
        /\ observer'[at[c]] = NoToken
        /\ \A r \in SessionIds \ {at[c]} :
             observer'[r] = observer[r] /\ dirty'[r] = dirty[r]
    BY <2>1, <2>2, <1>a DEF SessionTypes, Holding
  <2>6. ~dirty'[at[c]]
    BY <2>1, <2>2, <2>4, <1>a DEF SessionTypes, Holding
  <2>7. Holding(c)'
    BY <2>1, <2>2, <2>3, <2>5, <2>6 DEF Holding
  <2> QED BY <2>1, <2>2, <2>3, <2>5, <2>7, ProtectedInside
<1>15. CASE UnlockSession(c)
  <2>1. /\ pc[c] = "unlock" /\ Locked(c) /\ ~Working(c) /\ Holding(c)
        /\ at[c] \in SessionIds
    BY <1>15, <1>b, <1>c DEF UnlockSession, Locked, Working, AfterBegin
  <2>2. /\ holder' = [holder EXCEPT ![at[c]] = NoCall]
        /\ poisoned' = poisoned /\ observer' = observer /\ dirty' = dirty
        /\ Leave(c)
    BY <1>15 DEF UnlockSession
  <2>3. ~Locked(c)'
    BY <2>2, <1>a DEF Leave, Return, Goto, CallTypes, Locked
  <2>4. /\ holder'[at[c]] = NoCall
        /\ \A r \in SessionIds \ {at[c]} : holder'[r] = holder[r]
    BY <2>1, <2>2, <1>a DEF SessionTypes
  <2> QED BY <2>1, <2>2, <2>3, <2>4, <1>a, ProtectedInside DEF Holding
<1>16. CASE FinishLease(c)
  BY <1>16, <1>d DEF FinishLease, sessionVars, protectedVars, Locked
<1>17. CASE Panic(c)
  <2>1. Locked(c) /\ at[c] \in SessionIds
    BY <1>17, <1>b DEF Panic, Locked, AfterBegin
  <2>2. /\ holder' = [holder EXCEPT ![at[c]] = NoCall]
        /\ poisoned' = poisoned \cup {at[c]} /\ observer' = observer
        /\ \E d \in BOOLEAN : dirty' = [dirty EXCEPT ![at[c]] = d]
        /\ Leave(c)
    BY <1>17 DEF Panic
  <2>3. ~Locked(c)'
    BY <2>2, <1>a DEF Leave, Return, Goto, CallTypes, Locked
  <2>4. /\ holder'[at[c]] = NoCall
        /\ \A r \in SessionIds \ {at[c]} :
             holder'[r] = holder[r] /\ dirty'[r] = dirty[r]
    BY <2>1, <2>2, <1>a DEF SessionTypes
  <2> QED BY <2>1, <2>2, <2>3, <2>4, <1>a, ProtectedInside
<1> QED
  BY <1>1, <1>2, <1>3, <1>4, <1>5, <1>6, <1>7, <1>8, <1>9, <1>10, <1>11,
     <1>12, <1>13, <1>14, <1>15, <1>16, <1>17 DEF Server

LEMMA ProtectedNext ==
  Control /\ Registered /\ Protected /\ [Next]_vars => Protected'
<1> SUFFICES ASSUME Control, Registered, Protected, [Next]_vars
             PROVE  Protected'
  OBVIOUS
<1>1. ASSUME NEW c \in Calls, Client(c) \/ Server(c) \/ Panic(c)
      PROVE  Protected'
  BY <1>1, RegisteredClient, RegisteredServer, ProtectedClient, ProtectedServer
<1>2. ASSUME UNCHANGED <<sessionVars, pc, callVars, token>>
      PROVE  Protected'
  BY <1>2 DEF sessionVars, callVars, Protected, Locked, Holding, Working,
              FreeSessionIsClean
<1>3. ASSUME \/ \E k \in Keys : CancelRequest(k)
             \/ \E s \in SessionIds : CancelRequests(s)
             \/ CancelAllRequests
      PROVE  Protected'
  BY <1>2, <1>3, CancelsOnlyFlag DEF Flag
<1>4. ASSUME UNCHANGED vars PROVE Protected'
  BY <1>2, <1>4 DEF vars, registryVars
<1> QED BY <1>1, <1>3, <1>4 DEF Next

LEMMA WorkbenchInvHolds == Spec => []WorkbenchInv
<1>1. Init => WorkbenchInv
  BY ControlInit, RegisteredInit, ProtectedInit DEF WorkbenchInv
<1>2. WorkbenchInv /\ [Next]_vars => WorkbenchInv'
  BY ControlNext, RegisteredNext, ProtectedNext DEF WorkbenchInv
<1> QED BY <1>1, <1>2, PTL DEF Spec

----------------------------------------------------------------------------
\* The state of the Workbench is always well typed.
THEOREM WorkbenchTypes == Spec => []TypeOK
<1>1. WorkbenchInv => TypeOK
  BY DEF WorkbenchInv, Control, SessionTypes, CallTypes, Registered,
         RegistryInv, Protected, TypeOK
<1> QED BY <1>1, WorkbenchInvHolds, PTL

\* A session that no call holds, and that no panic poisoned, has no observer
\* and an empty analysis scope, whatever ended the calls before.
THEOREM FreeSessionsAreClean == Spec => []FreeSessionIsClean
<1>1. WorkbenchInv => FreeSessionIsClean
  BY DEF WorkbenchInv, Protected
<1> QED BY <1>1, WorkbenchInvHolds, PTL

\* One call at a time works in a session, and the decompiler asks that call's
\* own token whether to stop.
THEOREM ObserversAreOwn == Spec => []ObserverIsOwn
<1>1. WorkbenchInv => ObserverIsOwn
  BY DEF WorkbenchInv, Protected, ObserverIsOwn, Holding, Working, Locked
<1> QED BY <1>1, WorkbenchInvHolds, PTL

\* A cancelled request does not go back into the decompiler, whether or not its
\* id is used again: not from the queue for its session, and not between two
\* classes of a search.  The calls that share a token are excepted by name.
THEOREM CancelledStaysOut == Spec => CancelledNeverResumes
<1> DEFINE Step == \A c \in Calls :
             c \in asked \ crossed /\ pc[c] \notin {"setup", "work"} =>
               pc'[c] \notin {"setup", "work"}
<1>1. WorkbenchInv /\ [Next]_vars => [Step]_vars
  <2> SUFFICES ASSUME WorkbenchInv, Next, NEW c \in Calls,
                      c \in asked, c \notin crossed,
                      pc[c] \notin {"setup", "work"}
               PROVE  pc'[c] \notin {"setup", "work"}
    BY DEF vars
  <2>1. key[c] # NoKey /\ op[c] \in Requests
    BY DEF WorkbenchInv, Registered, RegistryInv, AskedInFlight, InFlight, Known
  <2>2. Exact(c)
    BY <2>1 DEF WorkbenchInv, Registered, RegistryInv, TokensAreSole, Sole, InFlight
  <2>3. pc[c] \in {"locked", "ensure"} => token[c] \in flagged
    BY <2>1, <2>2 DEF Exact, Held, WorkbenchInv, Registered, Known
  <2>4. ASSUME NEW d \in Calls, Client(d) \/ Server(d) \/ Panic(d), d # c
        PROVE  pc'[c] = pc[c]
    <3>1. StepOf(d)
      BY <2>4, RegisteredClient, RegisteredServer DEF WorkbenchInv
    <3> QED BY <3>1, <2>4 DEF StepOf, OnlyMoves
  <2>5. pc \in [Calls -> Labels]
    BY DEF WorkbenchInv, Control, CallTypes
  <2>6. CASE Client(c)
    <3>1. \E l \in {"insert", "list", "remove", "lock", "begin"} : Goto(c, l)
      BY <2>6 DEF Client, OpenArchive, ListProjects, CloseCancels, Inspect,
                  Request, Call
    <3> QED BY <3>1, <2>5 DEF Goto
  <2>7. CASE Server(c)
    BY <2>1, <2>3, <2>5, <2>7
       DEF Server, InsertSession, RemoveSession, EndList, VisitProject,
           BeginRequest, AcquireLease, EnsureCurrent, LookUp, LockSession,
           EnsureStillCurrent, SetUp, Work, EnsureBetween, TearDown,
           UnlockSession, FinishLease, Leave, Return, Goto, Current
  <2>8. CASE Panic(c)
    BY <2>8 DEF Panic
  <2>9. ASSUME \/ \E k \in Keys : CancelRequest(k)
               \/ \E s \in SessionIds : CancelRequests(s)
               \/ CancelAllRequests
        PROVE  pc' = pc
    BY <2>9, CancelsOnlyFlag
  <2> QED BY <2>4, <2>6, <2>7, <2>8, <2>9 DEF Next
<1>2. CancelledNeverResumes <=> [][Step]_vars
  BY PTL DEF CancelledNeverResumes
<1> QED BY <1>1, <1>2, WorkbenchInvHolds, PTL DEF Spec
----------------------------------------------------------------------------
(* The listing of projects *)

\* A call that lists owns the mutex of the map from its first wait to its last.
Listing == \A c \in Calls : pc[c] = "list" => mapOwner = c

\* What a step of c does to the map: it keeps it and its mutex, takes the mutex
\* for a listing, gives it back, or changes the map while the mutex is free.
MapStep(c, l) ==
  /\ pc' = [pc EXCEPT ![c] = l]
  /\ \/ mapOwner' = mapOwner /\ (l = "list" => pc[c] = "list")
     \/ MapFree /\ mapOwner' = c
     \/ pc[c] = "list" /\ mapOwner' = NoCall /\ l # "list"
  /\ MapFree \/ sessions' = sessions

LEMMA MapStepKeeps ==
  ASSUME Listing, CallTypes, NEW c \in Calls, NEW l, MapStep(c, l)
  PROVE  Listing' /\ \A d \in Calls : pc[d] = "list" => sessions' = sessions
  BY WorkbenchAssumption DEF Listing, CallTypes, MapStep, MapFree

LEMMA MapStepClient ==
  ASSUME NEW c \in Calls, Client(c) PROVE \E l : MapStep(c, l)
<1>1. CASE OpenArchive(c)
  <2>1. MapStep(c, "insert")
    BY <1>1 DEF OpenArchive, Call, Goto, MapStep
  <2> QED BY <2>1
<1>2. CASE ListProjects(c)
  <2>1. MapStep(c, "list")
    BY <1>2 DEF ListProjects, Call, Goto, MapStep
  <2> QED BY <2>1
<1>3. ASSUME NEW s \in SessionIds, CloseCancels(c, s) PROVE \E l : MapStep(c, l)
  <2>1. MapStep(c, "remove")
    BY <1>3 DEF CloseCancels, Call, Goto, MapStep, sessionVars
  <2> QED BY <2>1
<1>4. ASSUME NEW s \in SessionIds, NEW o \in Inspections, Inspect(c, o, s)
      PROVE  \E l : MapStep(c, l)
  <2>1. MapStep(c, "lock")
    BY <1>4 DEF Inspect, Call, Goto, MapStep, sessionVars
  <2> QED BY <2>1
<1>5. ASSUME NEW s \in SessionIds, NEW o \in Requests, NEW r \in RequestIds,
             Request(c, o, s, r)
      PROVE  \E l : MapStep(c, l)
  <2>1. MapStep(c, "begin")
    BY <1>5 DEF Request, Call, Goto, MapStep, sessionVars
  <2> QED BY <2>1
<1> QED BY <1>1, <1>2, <1>3, <1>4, <1>5 DEF Client

\* A step that goes on or leaves, and does not look at the map.
LEMMA MapStepOn ==
  ASSUME NEW c \in Calls, Leave(c) \/ Return(c) \/ \E l : Goto(c, l) /\ l # "list",
         mapOwner' = mapOwner, sessions' = sessions
  PROVE  \E l : MapStep(c, l)
<1>1. PICK l : Goto(c, l) /\ l # "list"
  BY DEF Leave, Return
<1>2. MapStep(c, l)
  BY <1>1 DEF MapStep, Goto
<1> QED BY <1>2

LEMMA MapStepServer ==
  ASSUME CallTypes, NEW c \in Calls, Server(c) \/ Panic(c) PROVE \E l : MapStep(c, l)
<1>1. CASE InsertSession(c) \/ RemoveSession(c)
  <2>1. MapStep(c, "idle")
    BY <1>1 DEF InsertSession, RemoveSession, Return, Goto, MapStep
  <2> QED BY <2>1
<1>2. CASE EndList(c)
  <2>1. MapStep(c, "idle")
    BY <1>2 DEF EndList, Return, Goto, MapStep
  <2> QED BY <2>1
<1>3. ASSUME NEW s \in SessionIds, VisitProject(c, s) PROVE \E l : MapStep(c, l)
  <2>1. MapStep(c, "list")
    BY <1>3 DEF VisitProject, CallTypes, MapStep, sessionVars
  <2> QED BY <2>1
<1> SUFFICES ASSUME \/ BeginRequest(c) \/ AcquireLease(c) \/ EnsureCurrent(c) \/ LookUp(c)
                    \/ LockSession(c) \/ EnsureStillCurrent(c)
                    \/ SetUp(c) \/ Work(c) \/ EnsureBetween(c) \/ TearDown(c)
                    \/ UnlockSession(c) \/ FinishLease(c) \/ Panic(c)
             PROVE  \E l : MapStep(c, l)
  BY <1>1, <1>2, <1>3 DEF Server
<1>4. mapOwner' = mapOwner /\ sessions' = sessions
  BY DEF BeginRequest, AcquireLease, EnsureCurrent, LookUp, LockSession,
         EnsureStillCurrent, SetUp, Work, EnsureBetween, TearDown, UnlockSession,
         FinishLease, Panic, sessionVars
<1>5. Leave(c) \/ Return(c) \/ \E l : Goto(c, l) /\ l # "list"
  BY DEF BeginRequest, AcquireLease, EnsureCurrent, LookUp, LockSession,
         EnsureStillCurrent, SetUp, Work, EnsureBetween, TearDown, UnlockSession,
         FinishLease, Panic
<1> QED BY <1>4, <1>5, MapStepOn

\* Every listing answers for one moment: no session is opened or closed from its
\* first visit to its last, however long it waits for the sessions in use.
THEOREM ListsAreSnapshots == Spec => ListIsSnapshot
<1> DEFINE Step == \A c \in Calls : pc[c] = "list" => sessions' = sessions
<1>1. Init => Listing
  BY DEF Init, Listing
<1>2. Control /\ Listing /\ [Next]_vars => Listing' /\ [Step]_vars
  <2> SUFFICES ASSUME Control, Listing, [Next]_vars PROVE Listing' /\ [Step]_vars
    OBVIOUS
  <2>1. ASSUME NEW c \in Calls, Client(c) \/ Server(c) \/ Panic(c)
        PROVE  Listing' /\ Step
    <3>1. PICK l : MapStep(c, l)
      BY <2>1, MapStepClient, MapStepServer DEF Control
    <3> QED BY <3>1, MapStepKeeps DEF Control
  <2>2. ASSUME \/ \E k \in Keys : CancelRequest(k)
               \/ \E s \in SessionIds : CancelRequests(s)
               \/ CancelAllRequests
        PROVE  Listing' /\ Step
    BY <2>2, CancelsOnlyFlag DEF Listing, sessionVars
  <2>3. ASSUME UNCHANGED vars PROVE Listing'
    BY <2>3 DEF Listing, vars, sessionVars
  <2> QED BY <2>1, <2>2, <2>3 DEF Next
<1>3. ListIsSnapshot <=> [][Step]_vars
  BY PTL DEF ListIsSnapshot
<1> QED BY <1>1, <1>2, <1>3, ControlSpec, PTL DEF Spec
=============================================================================
