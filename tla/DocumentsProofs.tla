--------------------------- MODULE DocumentsProofs ---------------------------
(***************************************************************************)
(* Theorems about Documents, for every set of classes, every limit and any *)
(* number of acts, calls and archives: what is cached is of the archive    *)
(* that is shown and keeps to its limit, what is said to load is being     *)
(* fetched, the panel shows the references it was opened for, the layout   *)
(* of the editor stays well-formed, and everything keeps its type.         *)
(***************************************************************************)
EXTENDS Documents, LayoutProofs

------------------------------------------------------------------------------
(***************************************************************************)
(* Sequences of documents.                                                 *)
(***************************************************************************)
\* s is a sequence, of whatever elements.
Docs(s) == s \in Seq(ToSet(s))

\* No class has two documents.
Distinct(docs) ==
  \A i, j \in DOMAIN docs : docs[i].class = docs[j].class => i = j

\* The places of the documents of other classes than those of P.
Loose(docs, P) == {i \in DOMAIN docs : docs[i].class \notin P}

\* The elements of a sequence, and those picked from it.
LEMMA OwnElements ==
  ASSUME NEW S, NEW s \in Seq(S)
  PROVE  Docs(s) /\ ToSet(s) \subseteq S
<1>1. Len(s) \in Nat /\ DOMAIN s = 1 .. Len(s) /\ s \in [1 .. Len(s) -> S]
  OBVIOUS
<1>2. s \in [1 .. Len(s) -> ToSet(s)]
  BY <1>1 DEF ToSet
<1>3. s \in Seq(ToSet(s))
  BY <1>1, <1>2
<1> QED
  BY <1>1, <1>3 DEF Docs, ToSet

\* Its places and elements.
LEMMA DocsPlaces ==
  ASSUME NEW s, Docs(s)
  PROVE  Len(s) \in Nat /\ DOMAIN s = 1 .. Len(s) /\ \A i \in DOMAIN s : s[i] \in ToSet(s)
<1>1. Len(s) \in Nat /\ DOMAIN s = 1 .. Len(s)
  BY DEF Docs
<1> QED
  BY <1>1 DEF ToSet

\* What is picked from a sequence is one, of some of its elements.
LEMMA PickedDocs ==
  ASSUME NEW docs, Docs(docs), NEW I \in SUBSET (DOMAIN docs)
  PROVE  /\ Docs(Picked(docs, I)) /\ Len(Picked(docs, I)) = Cardinality(I)
         /\ Cardinality(I) \in Nat /\ IsFiniteSet(I)
         /\ ToSet(Picked(docs, I)) \subseteq ToSet(docs)
         /\ \E at : Shows(Picked(docs, I), at, docs, I)
<1>1. Len(docs) \in Nat /\ I \in SUBSET (1 .. Len(docs))
  BY DocsPlaces
<1>2. Cardinality(I) \in Nat /\ IsFiniteSet(I)
  BY <1>1, Ranks
<1>3. /\ Picked(docs, I) \in [1 .. Cardinality(I) -> {docs[i] : i \in I}]
      /\ \E at : Shows(Picked(docs, I), at, docs, I)
  BY <1>1, PickedPlaces
<1>4. {docs[i] : i \in I} \subseteq ToSet(docs)
  BY DocsPlaces
<1>5. Picked(docs, I) \in Seq(ToSet(docs)) /\ Len(Picked(docs, I)) = Cardinality(I)
  BY <1>2, <1>3, <1>4
<1> QED
  BY <1>2, <1>3, <1>5, OwnElements

\* Others counts the documents at loose places and shows them.
LEMMA LooseAreOthers ==
  ASSUME NEW docs, Docs(docs), NEW P
  PROVE  /\ Len(Others(docs, P)) = Cardinality(Loose(docs, P))
         /\ Cardinality(Loose(docs, P)) \in Nat /\ IsFiniteSet(Loose(docs, P))
         /\ Docs(Others(docs, P)) /\ ToSet(Others(docs, P)) \subseteq ToSet(docs)
         /\ \E at : Shows(Others(docs, P), at, docs, Loose(docs, P))
<1>1. Others(docs, P) = Picked(docs, Loose(docs, P)) /\ Loose(docs, P) \in SUBSET DOMAIN docs
  BY DEF Others, Loose
<1> QED
  BY <1>1, PickedDocs

\* The more is pinned, the fewer are loose.
LEMMA FewerLoose ==
  ASSUME NEW docs, Docs(docs), NEW P, NEW Q, P \subseteq Q
  PROVE  Len(Others(docs, Q)) <= Len(Others(docs, P))
<1>1. Loose(docs, Q) \in SUBSET Loose(docs, P)
  BY DEF Loose
<1>2. Cardinality(Loose(docs, Q)) <= Cardinality(Loose(docs, P))
  BY <1>1, LooseAreOthers, FS_Subset
<1> QED
  BY <1>2, LooseAreOthers

\* When the documents of D leave, no document becomes loose, although classes
\* of D may lose their pins.
LEMMA OthersKeep ==
  ASSUME NEW docs, Docs(docs), NEW D, NEW P, NEW Q, P \subseteq Q \cup D
  PROVE  /\ Docs(Others(docs, D)) /\ ToSet(Others(docs, D)) \subseteq ToSet(docs)
         /\ \A doc \in ToSet(Others(docs, D)) : doc.class \notin D
         /\ Distinct(docs) => Distinct(Others(docs, D))
         /\ Len(Others(Others(docs, D), Q)) <= Len(Others(docs, P))
         /\ Len(Others(Others(docs, D), Q))
              <= Cardinality({i \in Loose(docs, P) : docs[i].class \notin D})
<1> DEFINE left == Others(docs, D)
           some == {i \in Loose(docs, P) : docs[i].class \notin D}
<1>1. Docs(left) /\ ToSet(left) \subseteq ToSet(docs)
  BY LooseAreOthers
<1>2. PICK at : Shows(left, at, docs, Loose(docs, D))
  BY LooseAreOthers
<1>3. /\ at \in [DOMAIN left -> Loose(docs, D)]
      /\ \A k, l \in DOMAIN left : at[k] = at[l] => k = l
      /\ \A k \in DOMAIN left : left[k] = docs[at[k]]
  BY <1>2 DEF Shows
<1> HIDE DEF left
<1>4. \A k \in DOMAIN left : at[k] \in DOMAIN docs /\ docs[at[k]].class \notin D
  BY <1>3 DEF Loose
<1>5. \A doc \in ToSet(left) : doc.class \notin D
  BY <1>3, <1>4 DEF ToSet
<1>6. Distinct(docs) => Distinct(left)
  BY <1>3, <1>4 DEF Distinct
<1>7. Cardinality(Loose(left, Q)) <= Cardinality(some)
  <2> DEFINE into == [k \in Loose(left, Q) |-> at[k]]
  <2>1. IsFiniteSet(some)
    <3>1. some \in SUBSET Loose(docs, P)
      OBVIOUS
    <3> QED
      BY <3>1, LooseAreOthers, FS_Subset
  <2>2. \A k \in Loose(left, Q) : k \in DOMAIN left /\ left[k].class \notin Q
    BY DEF Loose
  <2>3. \A k \in Loose(left, Q) : at[k] \in some
    BY <1>3, <1>4, <2>2 DEF Loose
  <2>4. into \in Injection(Loose(left, Q), some)
    BY <1>3, <2>2, <2>3 DEF Injection, IsInjective
  <2> QED
    BY <2>1, <2>4, FS_Injection
<1>8. Cardinality(some) <= Cardinality(Loose(docs, P)) /\ Cardinality(some) \in Nat
  <2>1. some \in SUBSET Loose(docs, P)
    OBVIOUS
  <2> QED
    BY <2>1, LooseAreOthers, FS_Subset, FS_CardinalityType
<1>9. /\ Len(Others(left, Q)) = Cardinality(Loose(left, Q)) /\ Cardinality(Loose(left, Q)) \in Nat
      /\ Len(Others(docs, P)) = Cardinality(Loose(docs, P)) /\ Cardinality(Loose(docs, P)) \in Nat
  BY <1>1, LooseAreOthers
<1>10. Len(Others(left, Q)) <= Cardinality(some) /\ Len(Others(left, Q)) <= Len(Others(docs, P))
  BY <1>7, <1>8, <1>9
<1> QED
  BY <1>1, <1>5, <1>6, <1>10 DEF left

\* Trimming leaves no more loose documents than the limit: as many as are too
\* much go, each with a place of its own.
LEMMA TrimKeeps ==
  ASSUME NEW docs, Docs(docs), NEW pinned
  PROVE  /\ Docs(Trim(docs, pinned)) /\ ToSet(Trim(docs, pinned)) \subseteq ToSet(docs)
         /\ Distinct(docs) => Distinct(Trim(docs, pinned))
         /\ Len(Others(Trim(docs, pinned), pinned)) <= DocumentLimit
<1> DEFINE loose == Others(docs, pinned)
           excess == Len(loose) - DocumentLimit
           oldest == SubSeq(loose, 1, excess)
           D == ClassesOf(oldest)
<1>1. /\ Len(loose) = Cardinality(Loose(docs, pinned)) /\ Len(loose) \in Nat
      /\ IsFiniteSet(Loose(docs, pinned)) /\ Docs(loose)
  BY LooseAreOthers
<1>2. PICK at : Shows(loose, at, docs, Loose(docs, pinned))
  BY LooseAreOthers
<1>3. /\ at \in [DOMAIN loose -> Loose(docs, pinned)]
      /\ \A k, l \in DOMAIN loose : at[k] = at[l] => k = l
      /\ \A k \in DOMAIN loose : loose[k] = docs[at[k]]
  BY <1>2 DEF Shows
<1>4. DocumentLimit \in Nat
  BY DocumentsAssumption
<1>5. Trim(docs, pinned) = IF excess <= 0 THEN docs ELSE Others(docs, D)
  BY DEF Trim
<1> HIDE DEF loose
<1>6. CASE excess <= 0
  <2>1. Trim(docs, pinned) = docs /\ Len(loose) <= DocumentLimit
    BY <1>1, <1>4, <1>5, <1>6
  <2> QED
    BY <2>1 DEF loose
<1>7. CASE ~(excess <= 0)
  <2> DEFINE some == {i \in Loose(docs, pinned) : docs[i].class \notin D}
             gone == {i \in Loose(docs, pinned) : docs[i].class \in D}
             into == [k \in 1 .. excess |-> at[k]]
  <2>1. excess \in Nat /\ excess <= Len(loose)
    BY <1>1, <1>4, <1>7
  <2>2. DOMAIN loose = 1 .. Len(loose)
    BY <1>1, DocsPlaces
  <2>3. DOMAIN oldest = 1 .. excess /\ \A k \in 1 .. excess : oldest[k] = loose[k]
    BY <2>1, <2>2
  <2> HIDE DEF oldest, excess
  <2>4. \A k \in 1 .. excess : k \in DOMAIN loose
    BY <1>1, <2>1, <2>2
  <2>5. \A k \in 1 .. excess : loose[k].class \in D
    BY <2>3 DEF ClassesOf
  <2> HIDE DEF D
  <2>6. \A k \in 1 .. excess : at[k] \in gone
    BY <1>3, <2>4, <2>5
  <2>7. into \in Injection(1 .. excess, gone)
    BY <1>3, <2>4, <2>6 DEF Injection, IsInjective
  <2>8. gone \in SUBSET Loose(docs, pinned) /\ some = Loose(docs, pinned) \ gone
    OBVIOUS
  <2> HIDE DEF gone, some, into
  <2>9. IsFiniteSet(gone) /\ Cardinality(gone) \in Nat
    BY <1>1, <2>8, FS_Subset, FS_CardinalityType
  <2>10. Cardinality(1 .. excess) = excess
    BY <2>1, FS_Interval
  <2>11. excess <= Cardinality(gone)
    BY <2>7, <2>9, <2>10, FS_Injection
  <2>12. Cardinality(some) = Cardinality(Loose(docs, pinned)) - Cardinality(gone)
    <3>1. Loose(docs, pinned) \cap gone = gone
      BY <2>8
    <3> DEFINE all == Loose(docs, pinned)
    <3>2. IsFiniteSet(all)
      BY <1>1
    <3> HIDE DEF all
    <3>3. Cardinality(all \ gone) = Cardinality(all) - Cardinality(all \cap gone)
      BY <3>2, FS_Difference
    <3> QED
      BY <2>8, <3>1, <3>3 DEF all
  <2>13. Cardinality(some) <= DocumentLimit
    BY <1>1, <1>4, <2>9, <2>11, <2>12 DEF excess
  <2>14. /\ Docs(Others(docs, D)) /\ ToSet(Others(docs, D)) \subseteq ToSet(docs)
         /\ Distinct(docs) => Distinct(Others(docs, D))
         /\ Len(Others(Others(docs, D), pinned)) <= Cardinality(some)
    <3>1. pinned \subseteq pinned \cup D
      OBVIOUS
    <3> QED
      BY <3>1, OthersKeep DEF some
  <2>15. Len(Others(Others(docs, D), pinned)) \in Nat
    BY <2>14, LooseAreOthers
  <2>16. Cardinality(some) \in Nat
    BY <1>1, <2>8, FS_Subset, FS_CardinalityType
  <2>17. Len(Others(Others(docs, D), pinned)) <= DocumentLimit
    BY <1>4, <2>13, <2>14, <2>15, <2>16
  <2>18. Trim(docs, pinned) = Others(docs, D)
    BY <1>5, <1>7
  <2> QED
    BY <2>14, <2>17, <2>18
<1> QED
  BY <1>6, <1>7

\* A document enters the cache: its class has no other, and what is too much
\* is dropped.
LEMMA CacheTakes ==
  ASSUME NEW docs, Docs(docs), Distinct(docs), NEW doc, NEW pinned
  PROVE  LET new == Trim(Append(Others(docs, {doc.class}), doc), pinned)
         IN /\ Docs(new) /\ Distinct(new)
            /\ ToSet(new) \subseteq ToSet(docs) \cup {doc}
            /\ Len(Others(new, pinned)) <= DocumentLimit
<1> DEFINE rest == Others(docs, {doc.class})
           all == Append(rest, doc)
<1>1. /\ Docs(rest) /\ ToSet(rest) \subseteq ToSet(docs) /\ Distinct(rest)
      /\ \A e \in ToSet(rest) : e.class \notin {doc.class}
  <2>1. {} \subseteq {} \cup {doc.class}
    OBVIOUS
  <2> QED
    BY <2>1, OthersKeep
<1> HIDE DEF rest
<1>2. rest \in Seq(ToSet(docs) \cup {doc})
  BY <1>1 DEF Docs
<1>3. /\ all \in Seq(ToSet(docs) \cup {doc}) /\ Len(all) = Len(rest) + 1
      /\ \A i \in 1 .. Len(rest) : all[i] = rest[i]
      /\ all[Len(rest) + 1] = doc
  BY <1>2, AppendProperties
<1>4. /\ Len(rest) \in Nat /\ DOMAIN rest = 1 .. Len(rest)
      /\ \A i \in DOMAIN rest : rest[i] \in ToSet(rest)
  BY <1>1, DocsPlaces
<1>5. DOMAIN all = 1 .. Len(rest) + 1
  BY <1>3, <1>4
<1> HIDE DEF all
<1>6. Distinct(all)
  <2> SUFFICES ASSUME NEW i \in DOMAIN all, NEW j \in DOMAIN all, all[i].class = all[j].class
               PROVE  i = j
    BY DEF Distinct
  <2>1. \A k \in DOMAIN all : k \in DOMAIN rest \/ k = Len(rest) + 1
    BY <1>4, <1>5
  <2>2. \A k \in DOMAIN rest : all[k] = rest[k] /\ all[k].class # doc.class
    BY <1>1, <1>3, <1>4
  <2> QED
    BY <1>1, <1>3, <2>1, <2>2 DEF Distinct
<1>7. Docs(all) /\ ToSet(all) \subseteq ToSet(docs) \cup {doc}
  BY <1>3, OwnElements
<1>8. /\ Docs(Trim(all, pinned)) /\ ToSet(Trim(all, pinned)) \subseteq ToSet(all)
      /\ Distinct(Trim(all, pinned))
      /\ Len(Others(Trim(all, pinned), pinned)) <= DocumentLimit
  BY <1>6, <1>7, TrimKeeps
<1> QED
  BY <1>7, <1>8 DEF all, rest

\* What is remembered of closed tabs are documents of the cache.
LEMMA TabsRemembered ==
  ASSUME NEW closed, Docs(closed), NEW docs, Docs(docs), NEW D
  PROVE  LET new == LastTabs(closed \o Among(docs, D))
         IN Docs(new) /\ ToSet(new) \subseteq ToSet(closed) \cup ToSet(docs)
<1> DEFINE both == ToSet(closed) \cup ToSet(docs)
           all == closed \o Among(docs, D)
           first == Len(all) - ClosedLimit + 1
<1>1. Docs(Among(docs, D)) /\ ToSet(Among(docs, D)) \subseteq ToSet(docs)
  <2>1. {i \in DOMAIN docs : docs[i].class \in D} \in SUBSET DOMAIN docs
    OBVIOUS
  <2> QED
    BY <2>1, PickedDocs DEF Among
<1>2. closed \in Seq(both) /\ Among(docs, D) \in Seq(both)
  BY <1>1 DEF Docs
<1>3. all \in Seq(both) /\ Len(all) \in Nat
  BY <1>2, ConcatProperties
<1>4. ClosedLimit \in Nat
  BY DocumentsAssumption
<1> HIDE DEF all, both
<1>5. CASE Len(all) <= ClosedLimit
  <2>1. LastTabs(all) = all
    BY <1>5 DEF LastTabs
  <2> QED
    BY <1>3, <2>1, OwnElements DEF all, both
<1>6. CASE ~(Len(all) <= ClosedLimit)
  <2>1. LastTabs(all) = SubSeq(all, first, Len(all))
    BY <1>6 DEF LastTabs
  <2>2. SubSeq(all, first, Len(all)) \in Seq(both)
    <3>1. first \in Int /\ Len(all) \in Int /\ \A i \in first .. Len(all) : all[i] \in both
      BY <1>3, <1>4, <1>6
    <3> QED
      BY <3>1, SubSeqProperties
  <2> QED
    BY <2>1, <2>2, OwnElements DEF all, both
<1> QED
  BY <1>5, <1>6

------------------------------------------------------------------------------
(***************************************************************************)
(* What must hold of the page.  CallsFit relates the calls under way, the  *)
(* request counter, the panel of references and the search that fills it:  *)
(* the sequences of the panel start again, and so do request ids with every *)
(* archive, but a call of the archive that is shown never has a newer id   *)
(* than the page, nor, in the panel's time, than its search.  What is not  *)
(* overtaken and said to load has a call that is not superseded.           *)
(***************************************************************************)
\* The fields of a page and of a call, and the states of the panel.
Fields ==
  {"session", "requestId", "documents", "closedTabs", "pinned", "layout", "active",
   "loading", "preference", "detected", "stale", "peek", "peeking", "references",
   "search", "problems", "opening", "overtaken", "untrimmed", "lastSession", "calls"}

CallFields ==
  {"kind", "session", "id", "class", "language", "sequence", "phase", "cancelled"}

Panels == [sequence : Nat, state : {"none", "loading", "ready", "error"},
           asked : Nat, of : Nat]

\* c is a call of one of the archives opened so far.
IsCall(c, last) ==
  /\ DOMAIN c = CallFields
  /\ c.session \in Nat /\ 1 <= c.session /\ c.session <= last
  /\ c.id \in Nat /\ c.sequence \in Nat
  /\ c.kind = "references" => c.sequence # 0

\* c fetches the class that p shows as loading.
Fetches(p, c) ==
  /\ c \in p.calls /\ c.kind = "class" /\ c.class = p.loading
  /\ c.session = p.session /\ c.id = p.requestId /\ c.language = p.preference

\* The search whose activity runs is the one of the panel.
OwnSearch(p) == p.search # NoSearch /\ p.references.sequence = p.search.sequence

CallsFit(p) ==
  /\ DOMAIN p = Fields
  /\ p.session \in Nat /\ p.lastSession \in Nat /\ p.session <= p.lastSession
  /\ p.requestId \in Nat /\ p.references \in Panels
  /\ p.search \in [session : Nat, id : Nat, sequence : Nat]
  /\ \A c \in p.calls : IsCall(c, p.lastSession)
  /\ p.search # NoSearch => p.search.sequence # 0
  /\ OwnSearch(p) => /\ p.search.session = p.session
                     /\ p.search.id = p.references.asked /\ p.loading = Null
  /\ p.references.sequence # 0 => p.references.asked <= p.requestId
  /\ \A c \in p.calls :
       c.kind = "references" /\ c.session = p.session =>
         /\ c.id <= p.requestId
         /\ p.references.sequence # 0 => c.id <= p.references.asked
  /\ p.loading # Null /\ ~p.overtaken => \E c : Fetches(p, c)
  /\ p.references.state = "ready" => p.references.of = p.references.asked

\* q has the calls of p, and what they are compared with.
SameCalls(p, q) ==
  /\ DOMAIN q = Fields
  /\ q.session = p.session /\ q.lastSession = p.lastSession /\ q.requestId = p.requestId
  /\ q.references = p.references /\ q.search = p.search /\ q.calls = p.calls
  /\ q.loading = p.loading /\ q.overtaken = p.overtaken /\ q.preference = p.preference

\* q has the documents of p.
SameCache(p, q) ==
  /\ q.session = p.session /\ q.documents = p.documents /\ q.closedTabs = p.closedTabs
  /\ q.pinned = p.pinned /\ q.untrimmed = p.untrimmed

\* What does not touch the calls keeps CallsFit.
LEMMA CallsStay ==
  ASSUME NEW p, NEW q, CallsFit(p), SameCalls(p, q)
  PROVE  CallsFit(q)
<1> USE DEF SameCalls
<1>1. OwnSearch(q) <=> OwnSearch(p)
  BY DEF OwnSearch
<1>2. \A c : Fetches(p, c) => Fetches(q, c)
  BY DEF Fetches
<1> QED
  BY <1>1, <1>2 DEF CallsFit

\* A call that is cancelled is under way all the same.
LEMMA CancelFits ==
  ASSUME NEW p, CallsFit(p), NEW session, NEW id
  PROVE  /\ CallsFit(CancelCall(p, session, id)) /\ SameCache(p, CancelCall(p, session, id))
         /\ \A f \in Fields \ {"calls"} : CancelCall(p, session, id)[f] = p[f]
<1> DEFINE named(c) == c.session = session /\ c.id = id
           mark(c) == IF named(c) THEN [c EXCEPT !.cancelled = TRUE] ELSE c
           q == CancelCall(p, session, id)
<1>1. /\ DOMAIN q = Fields /\ q.calls = {mark(c) : c \in p.calls}
      /\ \A f \in Fields \ {"calls"} : q[f] = p[f]
  BY DEF CallsFit, CancelCall, Fields
<1>2. \A c \in p.calls : DOMAIN c = CallFields
  BY DEF CallsFit, IsCall
<1>3. \A c \in p.calls :
        /\ DOMAIN mark(c) = CallFields /\ mark(c).kind = c.kind /\ mark(c).session = c.session
        /\ mark(c).id = c.id /\ mark(c).class = c.class /\ mark(c).language = c.language
        /\ mark(c).sequence = c.sequence
  BY <1>2 DEF CallFields
<1> HIDE DEF q, mark
<1>4. /\ q.session = p.session /\ q.lastSession = p.lastSession /\ q.requestId = p.requestId
      /\ q.references = p.references /\ q.search = p.search /\ q.loading = p.loading
      /\ q.overtaken = p.overtaken /\ q.preference = p.preference
  BY <1>1 DEF Fields
<1>5. SameCache(p, q)
  BY <1>1 DEF Fields, SameCache
<1>6. OwnSearch(q) <=> OwnSearch(p)
  BY <1>4 DEF OwnSearch
<1>7. \A c \in p.calls : Fetches(p, c) => Fetches(q, mark(c))
  BY <1>1, <1>3, <1>4 DEF Fetches
<1>8. \A c \in q.calls : IsCall(c, q.lastSession)
  BY <1>1, <1>3, <1>4 DEF CallsFit, IsCall
<1>9. \A c \in q.calls : \E b \in p.calls :
        c.kind = b.kind /\ c.session = b.session /\ c.id = b.id
  BY <1>1, <1>3
<1>10. CallsFit(q)
  <2>1. p.loading # Null /\ ~p.overtaken => \E c : Fetches(q, c)
    <3>1. p.loading # Null /\ ~p.overtaken => \E c \in p.calls : Fetches(p, c)
      BY DEF CallsFit, Fetches
    <3> QED
      BY <1>7, <3>1
  <2>2. \A c \in q.calls :
          c.kind = "references" /\ c.session = q.session =>
            /\ c.id <= q.requestId
            /\ q.references.sequence # 0 => c.id <= q.references.asked
    BY <1>4, <1>9 DEF CallsFit
  <2> QED
    BY <1>1, <1>4, <1>6, <1>8, <2>1, <2>2 DEF CallsFit
<1> QED
  BY <1>1, <1>5, <1>10 DEF q

\* The peek view is left.
LEMMA NoPeekFits ==
  ASSUME NEW p, CallsFit(p)
  PROVE  /\ CallsFit(NoPeek(p)) /\ SameCache(p, NoPeek(p)) /\ SameCalls(p, NoPeek(p))
<1>1. SameCalls(p, NoPeek(p)) /\ SameCache(p, NoPeek(p))
  BY DEF CallsFit, NoPeek, SameCalls, SameCache, Fields
<1> QED
  BY <1>1, CallsStay

\* A call returns that does not fetch what is loading.
LEMMA DropFits ==
  ASSUME NEW p, CallsFit(p), NEW c, p.loading # Null /\ ~p.overtaken => ~Fetches(p, c)
  PROVE  /\ CallsFit(Drop(p, c)) /\ SameCache(p, Drop(p, c))
         /\ Drop(p, c).calls = p.calls \ {c}
         /\ \A f \in Fields \ {"calls"} : Drop(p, c)[f] = p[f]
<1> DEFINE q == Drop(p, c)
<1>1. /\ DOMAIN q = Fields /\ q.calls = p.calls \ {c}
      /\ \A f \in Fields \ {"calls"} : q[f] = p[f]
  BY DEF CallsFit, Drop, Fields
<1> HIDE DEF q
<1>2. /\ q.session = p.session /\ q.lastSession = p.lastSession /\ q.requestId = p.requestId
      /\ q.references = p.references /\ q.search = p.search /\ q.loading = p.loading
      /\ q.overtaken = p.overtaken /\ q.preference = p.preference
  BY <1>1 DEF Fields
<1>3. SameCache(p, q)
  BY <1>1 DEF Fields, SameCache
<1>4. OwnSearch(q) <=> OwnSearch(p)
  BY <1>2 DEF OwnSearch
<1>5. \A b : Fetches(p, b) /\ b # c => Fetches(q, b)
  BY <1>1, <1>2 DEF Fetches
<1>6. CallsFit(q)
  BY <1>1, <1>2, <1>4, <1>5 DEF CallsFit
<1> QED
  BY <1>1, <1>3, <1>6 DEF q

\* The search is cancelled.  Its own panel is emptied, and the request id is
\* set to the one after the search, which no call of the panel has passed and
\* no class that loads, for none does while the search of the panel runs.
LEMMA CancelReferencesFits ==
  ASSUME NEW p, CallsFit(p)
  PROVE  /\ CallsFit(CancelReferences(p)) /\ SameCache(p, CancelReferences(p))
         /\ CancelReferences(p).search = NoSearch
         /\ CancelReferences(p).lastSession = p.lastSession
         /\ CancelReferences(p).loading = p.loading
         /\ CancelReferences(p).layout = p.layout
         /\ CancelReferences(p).overtaken = p.overtaken
<1> DEFINE s == p.search
           r == CancelCall(p, s.session, s.id)
           q == [r EXCEPT !.search = NoSearch]
           e == [q EXCEPT !.requestId = s.id + 1, !.references = NoReferences]
<1>1. CASE p.search = NoSearch
  <2>1. CancelReferences(p) = p
    BY <1>1 DEF CancelReferences
  <2> QED
    BY <1>1, <2>1 DEF SameCache
<1>2. CASE p.search # NoSearch
  <2>1. CancelReferences(p) = IF p.references.sequence # s.sequence THEN q ELSE e
    BY <1>2 DEF CancelReferences
  <2>2. CallsFit(r) /\ SameCache(p, r) /\ \A f \in Fields \ {"calls"} : r[f] = p[f]
    BY CancelFits
  <2> HIDE DEF r
  <2>3. DOMAIN r = Fields
    BY <2>2 DEF CallsFit
  <2>4. /\ DOMAIN q = Fields /\ q.search = NoSearch
        /\ \A f \in Fields \ {"search"} : q[f] = r[f]
    BY <2>3 DEF Fields
  <2>5. /\ DOMAIN e = Fields /\ e.search = NoSearch /\ e.requestId = s.id + 1
        /\ e.references = NoReferences
        /\ \A f \in Fields \ {"search", "requestId", "references"} : e[f] = r[f]
    BY <2>3 DEF Fields
  <2> HIDE DEF q, e
  <2>6. NoSearch \in [session : Nat, id : Nat, sequence : Nat]
    BY DEF NoSearch
  <2>7. CASE p.references.sequence # s.sequence
    <3>1. /\ q.session = r.session /\ q.lastSession = r.lastSession
          /\ q.requestId = r.requestId /\ q.calls = r.calls
          /\ q.references = r.references /\ q.loading = r.loading
          /\ q.overtaken = r.overtaken /\ q.preference = r.preference
      BY <2>4 DEF Fields
    <3>2. \A b : Fetches(r, b) => Fetches(q, b)
      BY <3>1 DEF Fetches
    <3>3. ~OwnSearch(q)
      BY <2>4 DEF OwnSearch
    <3>4. CallsFit(q)
      BY <2>2, <2>4, <2>6, <3>1, <3>2, <3>3 DEF CallsFit
    <3>5. /\ SameCache(p, q)
          /\ \A f \in {"lastSession", "loading", "layout", "overtaken"} : q[f] = p[f]
      BY <2>2, <2>4 DEF Fields, SameCache
    <3> QED
      BY <2>1, <2>4, <2>7, <3>4, <3>5
  <2>8. CASE p.references.sequence = s.sequence
    <3>1. /\ e.session = r.session /\ e.lastSession = r.lastSession
          /\ e.calls = r.calls /\ e.loading = r.loading
      BY <2>5 DEF Fields
    <3>2. /\ r.session = p.session /\ r.search = p.search /\ r.references = p.references
          /\ r.loading = p.loading /\ r.lastSession = p.lastSession
      BY <2>2 DEF Fields
    <3>3. OwnSearch(r)
      BY <1>2, <2>8, <3>2 DEF OwnSearch
    <3>4. /\ r.loading = Null /\ s.id = r.references.asked /\ s.id \in Nat
          /\ s.sequence \in Nat /\ s.sequence # 0 /\ r.references.sequence = s.sequence
      BY <1>2, <2>2, <2>8, <3>2, <3>3 DEF CallsFit
    <3>5. ~OwnSearch(e)
      BY <2>5 DEF OwnSearch
    <3>6. e.references \in Panels /\ e.references.sequence = 0 /\ e.references.state = "none"
      BY <2>5 DEF NoReferences, Panels
    <3>7. \A c \in e.calls :
            c.kind = "references" /\ c.session = e.session =>
              c.id \in Nat /\ c.id <= e.requestId
      BY <2>2, <2>5, <3>1, <3>4 DEF CallsFit, IsCall
    <3>8. CallsFit(e)
      BY <2>2, <2>5, <2>6, <3>1, <3>4, <3>5, <3>6, <3>7 DEF CallsFit
    <3>9. /\ SameCache(p, e)
          /\ \A f \in {"lastSession", "loading", "layout", "overtaken"} : e[f] = p[f]
      BY <2>2, <2>5 DEF Fields, SameCache
    <3> QED
      BY <2>1, <2>5, <2>8, <3>8, <3>9
  <2> QED
    BY <2>7, <2>8
<1> QED
  BY <1>1, <1>2

------------------------------------------------------------------------------
(***************************************************************************)
(* Asking for a class.  CacheFits is about the documents: one per class, of *)
(* the archive that is shown, and no more than the limit but for those that *)
(* are pinned or have lost their pin since documents were last trimmed.    *)
(***************************************************************************)
\* What loads is stopped: no call fetches it any more, and nothing loads.
LEMMA StopLoadingFits ==
  ASSUME NEW p, CallsFit(p)
  PROVE  /\ CallsFit(StopLoading(p)) /\ SameCache(p, StopLoading(p))
         /\ StopLoading(p).loading = Null /\ StopLoading(p).lastSession = p.lastSession
         /\ StopLoading(p).search = p.search
<1> DEFINE r == CancelCall(p, p.session, p.requestId)
           q == [r EXCEPT !.requestId = @ + 1, !.loading = Null, !.peek = Null, !.peeking = FALSE]
<1>1. CASE p.loading = Null /\ ~p.peeking
  <2>1. StopLoading(p) = p
    BY <1>1 DEF StopLoading
  <2> QED
    BY <1>1, <2>1 DEF SameCache
<1>2. CASE ~(p.loading = Null /\ ~p.peeking)
  <2>1. StopLoading(p) = q
    BY <1>2 DEF StopLoading
  <2>2. CallsFit(r) /\ SameCache(p, r) /\ \A f \in Fields \ {"calls"} : r[f] = p[f]
    BY CancelFits
  <2> HIDE DEF r
  <2>3. DOMAIN r = Fields
    BY <2>2 DEF CallsFit
  <2>4. /\ DOMAIN q = Fields /\ q.requestId = r.requestId + 1 /\ q.loading = Null
        /\ \A f \in Fields \ {"requestId", "loading", "peek", "peeking"} : q[f] = r[f]
    BY <2>3 DEF Fields
  <2> HIDE DEF q
  <2>5. /\ q.session = r.session /\ q.lastSession = r.lastSession /\ q.calls = r.calls
        /\ q.references = r.references /\ q.search = r.search
    BY <2>4 DEF Fields
  <2>6. OwnSearch(q) <=> OwnSearch(r)
    BY <2>5 DEF OwnSearch
  <2>7. r.requestId \in Nat /\ r.references.asked \in Nat
    BY <2>2 DEF CallsFit, Panels
  <2>8. \A c \in r.calls : c.id \in Nat
    BY <2>2 DEF CallsFit, IsCall
  <2>9. CallsFit(q)
    BY <2>2, <2>4, <2>5, <2>6, <2>7, <2>8 DEF CallsFit
  <2>10. SameCache(p, q) /\ q.lastSession = p.lastSession /\ q.search = p.search
    BY <2>2, <2>4 DEF Fields, SameCache
  <2> QED
    BY <2>1, <2>4, <2>9, <2>10
<1> QED
  BY <1>1, <1>2

\* A call of the service is made, for the archive that is open.
LEMMA IssueFits ==
  ASSUME NEW p, CallsFit(p), p.session # 0, NEW kind, NEW d, kind # "references"
  PROVE  LET q == Issue(p, kind, d)
             c == Call(p, kind, d)
         IN /\ q.requestId = p.requestId + 1 /\ q.calls = p.calls \cup {c}
            /\ \A f \in Fields \ {"requestId", "calls"} : q[f] = p[f]
            /\ DOMAIN q = Fields /\ SameCache(p, q)
            /\ IsCall(c, p.lastSession) /\ c.id = q.requestId /\ c.session = p.session
            /\ c.kind = kind /\ c.class = d /\ c.language = p.preference
<1> DEFINE q == Issue(p, kind, d)
           c == Call(p, kind, d)
<1>1. /\ DOMAIN q = Fields /\ q.requestId = p.requestId + 1 /\ q.calls = p.calls \cup {c}
      /\ \A f \in Fields \ {"requestId", "calls"} : q[f] = p[f]
  BY DEF Issue, Fields, CallsFit
<1>2. /\ DOMAIN c = CallFields /\ c.session = p.session /\ c.id = p.requestId + 1
      /\ c.kind = kind /\ c.class = d /\ c.language = p.preference /\ c.sequence = 0
  BY DEF Call, CallFields
<1> HIDE DEF q, c
<1>3. p.session \in Nat /\ p.session <= p.lastSession /\ p.requestId \in Nat
  BY DEF CallsFit
<1>4. IsCall(c, p.lastSession)
  BY <1>2, <1>3 DEF IsCall
<1>5. SameCache(p, q)
  BY <1>1 DEF Fields, SameCache
<1> QED
  BY <1>1, <1>2, <1>4, <1>5 DEF q, c

\* No search of the panel is running, and a class is asked for.
LEMMA AskingFits ==
  ASSUME NEW p, CallsFit(p), p.session # 0, NEW d, p.search = NoSearch
  PROVE  LET q == [Issue(p, "class", d) EXCEPT !.loading = d, !.overtaken = FALSE]
         IN CallsFit(q) /\ SameCache(p, q)
<1> DEFINE r == Issue(p, "class", d)
           c == Call(p, "class", d)
           q == [r EXCEPT !.loading = d, !.overtaken = FALSE]
<1>1. /\ r.requestId = p.requestId + 1 /\ r.calls = p.calls \cup {c}
      /\ \A f \in Fields \ {"requestId", "calls"} : r[f] = p[f]
      /\ DOMAIN r = Fields /\ SameCache(p, r)
      /\ IsCall(c, p.lastSession) /\ c.id = r.requestId /\ c.session = p.session
      /\ c.kind = "class" /\ c.class = d /\ c.language = p.preference
  BY IssueFits
<1> HIDE DEF r, c
<1>2. /\ DOMAIN q = Fields /\ q.loading = d /\ q.requestId = r.requestId /\ q.calls = r.calls
      /\ q.session = p.session /\ q.lastSession = p.lastSession /\ q.references = p.references
      /\ q.search = p.search /\ q.preference = p.preference
      /\ SameCache(p, q)
  BY <1>1 DEF Fields, SameCache
<1> HIDE DEF q
<1>3. Fetches(q, c)
  BY <1>1, <1>2 DEF Fetches
<1>4. ~OwnSearch(q)
  BY <1>2 DEF OwnSearch
<1>5. p.requestId \in Nat /\ p.references.asked \in Nat
  BY DEF CallsFit, Panels
<1>6. \A b \in p.calls : b.id \in Nat
  BY DEF CallsFit, IsCall
<1>7. CallsFit(q)
  BY <1>1, <1>2, <1>3, <1>4, <1>5, <1>6 DEF CallsFit
<1> QED
  BY <1>2, <1>7 DEF q, r

\* What holds of the cache, and of the page.
CacheFits(p) ==
  /\ Docs(p.documents) /\ Distinct(p.documents) /\ Docs(p.closedTabs)
  /\ \A doc \in ToSet(p.documents) \cup ToSet(p.closedTabs) : doc.session = p.session
  /\ Len(Others(p.documents, p.pinned \cup p.untrimmed)) <= DocumentLimit

PageFits(p) == CallsFit(p) /\ CacheFits(p)

\* What does not touch the documents keeps CacheFits.
LEMMA CacheStays ==
  ASSUME NEW p, NEW q, CacheFits(p), SameCache(p, q)
  PROVE  CacheFits(q)
BY DEF CacheFits, SameCache

\* Documents of the classes in D leave the cache, and pins of no others.
LEMMA CacheShrinks ==
  ASSUME NEW p, NEW q, CacheFits(p), NEW D, q.session = p.session,
         \/ /\ q.documents = p.documents
            /\ p.pinned \cup p.untrimmed \subseteq q.pinned \cup q.untrimmed
         \/ /\ q.documents = Others(p.documents, D)
            /\ p.pinned \cup p.untrimmed \subseteq (q.pinned \cup q.untrimmed) \cup D,
         \/ q.closedTabs = p.closedTabs
         \/ \E E : q.closedTabs = LastTabs(p.closedTabs \o Among(p.documents, E))
  PROVE  CacheFits(q)
<1> DEFINE docs == p.documents
           P == p.pinned \cup p.untrimmed
           Q == q.pinned \cup q.untrimmed
<1>1. Docs(docs) /\ Distinct(docs) /\ Docs(p.closedTabs) /\ Len(Others(docs, P)) <= DocumentLimit
  BY DEF CacheFits
<1>2. /\ Docs(q.closedTabs)
      /\ ToSet(q.closedTabs) \subseteq ToSet(p.closedTabs) \cup ToSet(docs)
  BY <1>1, TabsRemembered
<1>a. \/ q.documents = docs /\ P \subseteq Q
      \/ q.documents = Others(docs, D) /\ P \subseteq Q \cup D
  BY Zenon
<1> HIDE DEF docs, P, Q
<1>3. /\ Docs(q.documents) /\ Distinct(q.documents)
      /\ ToSet(q.documents) \subseteq ToSet(docs)
      /\ Len(Others(q.documents, Q)) <= Len(Others(docs, P))
  <2>1. CASE q.documents = docs /\ P \subseteq Q
    BY <1>1, <2>1, FewerLoose
  <2>2. CASE q.documents = Others(docs, D) /\ P \subseteq Q \cup D
    <3>1. /\ Docs(Others(docs, D)) /\ Distinct(Others(docs, D))
          /\ ToSet(Others(docs, D)) \subseteq ToSet(docs)
          /\ Len(Others(Others(docs, D), Q)) <= Len(Others(docs, P))
      BY <1>1, <2>2, OthersKeep
    <3> QED
      BY <2>2, <3>1
  <2> QED
    BY <1>a, <2>1, <2>2
<1>4. /\ Len(Others(q.documents, Q)) \in Nat /\ Len(Others(docs, P)) \in Nat
      /\ DocumentLimit \in Nat
  BY <1>1, <1>3, LooseAreOthers, DocumentsAssumption
<1>5. Len(Others(q.documents, Q)) <= DocumentLimit
  BY <1>1, <1>3, <1>4
<1> QED
  BY <1>1, <1>2, <1>3, <1>5 DEF CacheFits, docs, P, Q

\* A class is selected: its call is the newest, and the preview it drives out
\* leaves the cache.
LEMMA SelectFits ==
  ASSUME NEW p0, PageFits(p0), NEW d, NEW group, NEW preview
  PROVE  PageFits(Select(p0, d, group, preview))
<1> DEFINE p == CancelReferences(p0)
           shut == ReplacedPreview(p.layout, d, group, preview)
           opened == OpenTab(p.layout, d, group, preview)
           out == shut # Null /\ ~InLayout(opened, shut)
           n == NoPeek(p)
           q == [n EXCEPT !.layout = opened, !.active = d,
                          !.documents = IF out THEN Others(@, {shut}) ELSE @]
           cached == [q EXCEPT !.loading = Null]
           asked == [Issue(q, "class", d) EXCEPT !.loading = d, !.overtaken = FALSE]
           selected == Select(p0, d, group, preview)
<1>1. \/ selected = p
      \/ selected = cached
      \/ p.session # 0 /\ selected = asked
  BY DEF Select
<1>2. CallsFit(p) /\ SameCache(p0, p) /\ p.search = NoSearch
  BY CancelReferencesFits DEF PageFits
<1>3. CacheFits(p)
  BY <1>2, CacheStays DEF PageFits
<1> HIDE DEF p
<1>4. CallsFit(n) /\ SameCache(p, n) /\ SameCalls(p, n)
  BY <1>2, NoPeekFits
<1> HIDE DEF n, opened, out, shut
<1>5. /\ SameCalls(n, q) /\ DOMAIN q = Fields
      /\ q.session = n.session /\ q.closedTabs = n.closedTabs /\ q.pinned = n.pinned
      /\ q.untrimmed = n.untrimmed
      /\ q.documents = n.documents \/ q.documents = Others(n.documents, {shut})
  BY <1>4 DEF Fields, SameCalls, CallsFit
<1> HIDE DEF q
<1>6. CallsFit(q) /\ q.search = NoSearch /\ q.session = p.session
  BY <1>2, <1>4, <1>5, CallsStay DEF SameCalls
<1>7. CacheFits(n)
  BY <1>3, <1>4, CacheStays
<1>8. CacheFits(q)
  <2>1. q.documents = n.documents \/ q.documents = Others(n.documents, {shut})
    BY <1>5
  <2>2. /\ n.pinned \cup n.untrimmed \subseteq q.pinned \cup q.untrimmed
        /\ n.pinned \cup n.untrimmed \subseteq (q.pinned \cup q.untrimmed) \cup {shut}
    BY <1>5
  <2> QED
    BY <1>5, <1>7, <2>1, <2>2, CacheShrinks
<1>9. PageFits(cached)
  <2>1. /\ DOMAIN cached = Fields /\ cached.loading = Null
        /\ \A f \in Fields \ {"loading"} : cached[f] = q[f]
    BY <1>5 DEF Fields
  <2> HIDE DEF cached
  <2>2. /\ cached.session = q.session /\ cached.lastSession = q.lastSession
        /\ cached.requestId = q.requestId /\ cached.references = q.references
        /\ cached.search = q.search /\ cached.calls = q.calls
        /\ SameCache(q, cached)
    BY <2>1 DEF Fields, SameCache
  <2>3. ~OwnSearch(cached)
    BY <1>6, <2>2 DEF OwnSearch
  <2>4. CallsFit(cached)
    BY <1>6, <2>1, <2>2, <2>3 DEF CallsFit
  <2> QED
    BY <1>8, <2>2, <2>4, CacheStays DEF PageFits
<1>10. p.session # 0 => PageFits(asked)
  BY <1>6, <1>8, AskingFits, CacheStays DEF PageFits
<1>11. PageFits(p)
  BY <1>2, <1>3 DEF PageFits
<1> HIDE DEF selected, cached, asked
<1>12. PageFits(selected)
  BY <1>1, <1>9, <1>10, <1>11
<1> QED
  BY <1>12 DEF selected

\* The same for a class selected by another handler.
LEMMA ReselectFits ==
  ASSUME NEW p, PageFits(p), NEW d
  PROVE  PageFits(Reselect(p, d))
BY SelectFits DEF Reselect

------------------------------------------------------------------------------
(***************************************************************************)
(* The answers of the service, whenever they come.                         *)
(***************************************************************************)
\* Nothing is loading any more.
LEMMA SettledFits ==
  ASSUME NEW p, NEW q, CallsFit(p), DOMAIN q = Fields, q.loading = Null,
         q.session = p.session, q.lastSession = p.lastSession, q.requestId = p.requestId,
         q.references = p.references, q.search = p.search, q.calls \subseteq p.calls
  PROVE  CallsFit(q)
<1>1. OwnSearch(q) <=> OwnSearch(p)
  BY DEF OwnSearch
<1> QED
  BY <1>1 DEF CallsFit

\* A call goes on to its next phase.
LEMMA PhaseFits ==
  ASSUME NEW p, CallsFit(p), NEW c \in p.calls, NEW phase
  PROVE  LET q == [Drop(p, c) EXCEPT !.calls = @ \cup {[c EXCEPT !.phase = phase]}]
         IN CallsFit(q) /\ SameCache(p, q)
<1> DEFINE n == [c EXCEPT !.phase = phase]
           q == [Drop(p, c) EXCEPT !.calls = @ \cup {n}]
<1>1. /\ DOMAIN q = Fields /\ q.calls = (p.calls \ {c}) \cup {n}
      /\ \A f \in Fields \ {"calls"} : q[f] = p[f]
  BY DEF CallsFit, Drop, Fields
<1>2. IsCall(c, p.lastSession)
  BY DEF CallsFit
<1>3. /\ IsCall(n, p.lastSession) /\ n.kind = c.kind /\ n.session = c.session /\ n.id = c.id
      /\ n.class = c.class /\ n.language = c.language
  BY <1>2 DEF IsCall, CallFields
<1> HIDE DEF q, n
<1>4. /\ q.session = p.session /\ q.lastSession = p.lastSession /\ q.requestId = p.requestId
      /\ q.references = p.references /\ q.search = p.search /\ q.loading = p.loading
      /\ q.overtaken = p.overtaken /\ q.preference = p.preference
      /\ SameCache(p, q)
  BY <1>1 DEF Fields, SameCache
<1>5. OwnSearch(q) <=> OwnSearch(p)
  BY <1>4 DEF OwnSearch
<1>6. p.loading # Null /\ ~p.overtaken => \E b : Fetches(q, b)
  <2>1. \A b : Fetches(p, b) => Fetches(q, IF b = c THEN n ELSE b)
    BY <1>1, <1>3, <1>4 DEF Fetches
  <2> QED
    BY <2>1 DEF CallsFit
<1>7. \A b \in q.calls :
        b.kind = "references" /\ b.session = q.session =>
          /\ b.id <= q.requestId
          /\ q.references.sequence # 0 => b.id <= q.references.asked
  BY <1>1, <1>3, <1>4 DEF CallsFit
<1>8. CallsFit(q)
  BY <1>1, <1>3, <1>4, <1>5, <1>6, <1>7 DEF CallsFit
<1> QED
  BY <1>4, <1>8 DEF q, n

\* A class is answered, presented, or not: only what is not superseded loads.
LEMMA AnsweredFits ==
  ASSUME NEW p, PageFits(p), NEW c \in p.calls
  PROVE  PageFits(Answered(p, c))
<1>1. CASE ~Superseded(p, c)
  BY <1>1, PhaseFits, CacheStays DEF Answered, PageFits
<1>2. CASE Superseded(p, c)
  <2>1. ~Fetches(p, c)
    BY <1>2 DEF Superseded, Fetches
  <2>2. PageFits(Drop(p, c))
    BY <2>1, DropFits, CacheStays DEF PageFits
  <2>3. PageFits(Reselect(Drop(p, c), c.class))
    BY <2>2, ReselectFits
  <2> QED
    BY <1>2, <2>2, <2>3 DEF Answered
<1> QED
  BY <1>1, <1>2

\* The document of the call is of the archive that is shown, since a
\* superseded call is dropped.
LEMMA PresentedFits ==
  ASSUME NEW p, PageFits(p), NEW c \in p.calls
  PROVE  PageFits(Presented(p, c))
<1> DEFINE doc == Document(c)
           docs == Trim(Append(Others(p.documents, {c.class}), doc), p.pinned)
           r == Drop(p, c)
           q == [r EXCEPT !.documents = docs, !.untrimmed = {},
                          !.layout = RetainTabs(@, ClassesOf(docs)),
                          !.loading = Null,
                          !.detected[c.class] = IF c.language = "auto" THEN doc.language ELSE @,
                          !.stale = @ \ {c.class}]
<1>1. CASE Superseded(p, c)
  <2>1. ~Fetches(p, c)
    BY <1>1 DEF Superseded, Fetches
  <2> QED
    BY <1>1, <2>1, DropFits, CacheStays DEF PageFits, Presented
<1>2. CASE ~Superseded(p, c)
  <2>1. Presented(p, c) = q
    BY <1>2 DEF Presented
  <2>2. /\ DOMAIN r = Fields /\ r.calls = p.calls \ {c}
        /\ \A f \in Fields \ {"calls"} : r[f] = p[f]
    BY DEF PageFits, CallsFit, Drop, Fields
  <2> HIDE DEF r
  <2>3. doc.class = c.class /\ doc.session = p.session
    BY <1>2 DEF Document, Superseded
  <2>4. /\ Docs(docs) /\ Distinct(docs) /\ ToSet(docs) \subseteq ToSet(p.documents) \cup {doc}
        /\ Len(Others(docs, p.pinned)) <= DocumentLimit
    <3>1. Docs(p.documents) /\ Distinct(p.documents)
      BY DEF PageFits, CacheFits
    <3> QED
      BY <2>3, <3>1, CacheTakes
  <2> HIDE DEF docs, doc
  <2>5. /\ DOMAIN q = Fields /\ q.loading = Null /\ q.documents = docs /\ q.untrimmed = {}
        /\ q.closedTabs = p.closedTabs /\ q.pinned = p.pinned
        /\ q.session = p.session /\ q.lastSession = p.lastSession /\ q.requestId = p.requestId
        /\ q.references = p.references /\ q.search = p.search /\ q.calls \subseteq p.calls
    BY <2>2 DEF Fields
  <2> HIDE DEF q
  <2>6. CallsFit(q)
    BY <2>5, SettledFits DEF PageFits
  <2>7. q.pinned \cup q.untrimmed = p.pinned
    BY <2>5
  <2>8. CacheFits(q)
    BY <2>3, <2>4, <2>5, <2>7 DEF PageFits, CacheFits
  <2> QED
    BY <2>1, <2>6, <2>8 DEF PageFits
<1> QED
  BY <1>1, <1>2

\* An error ends the loading, unless the call is an older one.
LEMMA FailedFits ==
  ASSUME NEW p, PageFits(p), NEW c \in p.calls
  PROVE  PageFits(Failed(p, c))
<1> DEFINE r == Drop(p, c)
           stopped == [r EXCEPT !.loading = Null]
           told == [stopped EXCEPT !.problems = @ \cup {c.class}]
<1>1. CASE p.session # c.session \/ p.requestId # c.id
  <2>1. Failed(p, c) = r /\ ~Fetches(p, c)
    BY <1>1 DEF Failed, Fetches
  <2> QED
    BY <2>1, DropFits, CacheStays DEF PageFits
<1>2. CASE ~(p.session # c.session \/ p.requestId # c.id)
  <2>1. \/ Failed(p, c) = stopped
        \/ Failed(p, c) = Reselect(stopped, c.class)
        \/ Failed(p, c) = told
    BY <1>2 DEF Failed
  <2>2. /\ DOMAIN r = Fields /\ r.calls = p.calls \ {c}
        /\ \A f \in Fields \ {"calls"} : r[f] = p[f]
    BY DEF PageFits, CallsFit, Drop, Fields
  <2> HIDE DEF r
  <2>3. \A q \in {stopped, told} :
          /\ DOMAIN q = Fields /\ q.loading = Null
          /\ q.session = p.session /\ q.lastSession = p.lastSession
          /\ q.requestId = p.requestId /\ q.references = p.references
          /\ q.search = p.search /\ q.calls \subseteq p.calls
          /\ SameCache(p, q)
    BY <2>2 DEF Fields, SameCache
  <2> HIDE DEF stopped, told
  <2>4. PageFits(stopped) /\ PageFits(told)
    BY <2>3, SettledFits, CacheStays DEF PageFits
  <2> QED
    BY <2>1, <2>4, ReselectFits
<1> QED
  BY <1>1, <1>2

\* The activity of a search ends, or is cancelled.
LEMMA FinishFits ==
  ASSUME NEW p, PageFits(p), NEW c
  PROVE  /\ PageFits(Finish(p, c)) /\ SameCache(p, Finish(p, c))
         /\ Finish(p, c).references = p.references /\ DOMAIN Finish(p, c) = Fields
<1> DEFINE q == [p EXCEPT !.search = NoSearch]
<1>0. DOMAIN p = Fields
  BY DEF PageFits, CallsFit
<1>1. /\ DOMAIN q = Fields /\ q.search = NoSearch
      /\ \A f \in Fields \ {"search"} : q[f] = p[f]
  BY <1>0 DEF Fields
<1> HIDE DEF q
<1>2. /\ q.session = p.session /\ q.lastSession = p.lastSession /\ q.requestId = p.requestId
      /\ q.references = p.references /\ q.loading = p.loading /\ q.calls = p.calls
      /\ q.overtaken = p.overtaken /\ q.preference = p.preference
      /\ SameCache(p, q)
  BY <1>1 DEF Fields, SameCache
<1>3. \A b : Fetches(p, b) => Fetches(q, b)
  BY <1>2 DEF Fetches
<1>4. ~OwnSearch(q) /\ NoSearch \in [session : Nat, id : Nat, sequence : Nat]
  BY <1>1 DEF OwnSearch, NoSearch
<1>5. CallsFit(q)
  BY <1>1, <1>2, <1>3, <1>4 DEF PageFits, CallsFit
<1>6. PageFits(q)
  BY <1>2, <1>5, CacheStays DEF PageFits
<1>7. Finish(p, c) = p \/ Finish(p, c) = q
  BY DEF Finish, q
<1> QED
  BY <1>0, <1>1, <1>2, <1>6, <1>7 DEF SameCache

\* The same for a search that is given up.
LEMMA AbandonFits ==
  ASSUME NEW p, PageFits(p), NEW c
  PROVE  PageFits(Abandon(p, c))
BY CancelReferencesFits, CacheStays DEF Abandon, PageFits

\* Something is shown in the panel: the results of the search it was opened
\* for, or an error.
LEMMA PanelFits ==
  ASSUME NEW p, PageFits(p), NEW c, c.id \in Nat, NEW state,
         \/ state = "ready" /\ c.id = p.references.asked
         \/ state = "error"
  PROVE  PageFits(InPanel(p, c, state))
<1> DEFINE r == Finish(p, c)
           q == [r EXCEPT !.references.state = state, !.references.of = c.id]
           panel == [p.references EXCEPT !.state = state, !.of = c.id]
<1>1. /\ PageFits(r) /\ SameCache(p, r) /\ r.references = p.references /\ DOMAIN r = Fields
  BY FinishFits
<1> HIDE DEF r
<1>2. r.references \in Panels
  BY <1>1 DEF PageFits, CallsFit
<1>3. /\ DOMAIN q = Fields /\ q.references = [r.references EXCEPT !.state = state, !.of = c.id]
      /\ \A f \in Fields \ {"references"} : q[f] = r[f]
  BY <1>1 DEF Fields
<1>4. /\ q.references \in Panels /\ q.references.state = state /\ q.references.of = c.id
      /\ q.references.sequence = r.references.sequence
      /\ q.references.asked = r.references.asked
  <2> DEFINE old == r.references
             new == [old EXCEPT !.state = state, !.of = c.id]
  <2>1. state \in {"none", "loading", "ready", "error"}
    OBVIOUS
  <2>2. old \in Panels
    BY <1>2
  <2>3. q.references = new
    BY <1>3
  <2> HIDE DEF old, q
  <2>4. /\ new \in Panels /\ new.state = state /\ new.of = c.id
        /\ new.sequence = old.sequence /\ new.asked = old.asked
    BY <2>1, <2>2 DEF Panels
  <2> QED
    BY <2>3, <2>4 DEF old
<1> HIDE DEF q
<1>5. /\ q.session = r.session /\ q.lastSession = r.lastSession /\ q.requestId = r.requestId
      /\ q.loading = r.loading /\ q.calls = r.calls /\ q.search = r.search
      /\ q.overtaken = r.overtaken /\ q.preference = r.preference
      /\ SameCache(r, q)
  BY <1>3 DEF Fields, SameCache
<1>6. \A b : Fetches(r, b) => Fetches(q, b)
  BY <1>5 DEF Fetches
<1>7. OwnSearch(q) <=> OwnSearch(r)
  BY <1>4, <1>5 DEF OwnSearch
<1>8. CallsFit(q)
  BY <1>1, <1>3, <1>4, <1>5, <1>6, <1>7 DEF PageFits, CallsFit
<1>9. PageFits(q)
  BY <1>1, <1>5, <1>8, CacheStays DEF PageFits
<1> QED
  BY <1>9 DEF InPanel, q, r

\* References come back.  Those that are shown have the id of the page, and
\* so of the search the panel was opened for.
LEMMA FoundFits ==
  ASSUME NEW p, PageFits(p), NEW c \in p.calls, c.kind = "references"
  PROVE  PageFits(ReferencesFound(p, c)) /\ PageFits(ReferencesFail(p, c))
<1>1. ~Fetches(p, c)
  BY DEF Fetches
<1>2. PageFits(Drop(p, c)) /\ \A f \in Fields \ {"calls"} : Drop(p, c)[f] = p[f]
  BY <1>1, DropFits, CacheStays DEF PageFits
<1>3. /\ c.id \in Nat /\ c.sequence # 0 /\ p.references.asked \in Nat /\ p.requestId \in Nat
  BY DEF PageFits, CallsFit, IsCall, Panels
<1>4. Drop(p, c).references = p.references
  BY <1>2 DEF Fields
<1>5. PageFits(ReferencesFound(p, c))
  <2>1. CASE \/ p.session # c.session \/ p.requestId # c.id
             \/ p.references.sequence # c.sequence
    BY <1>2, <2>1, AbandonFits DEF ReferencesFound
  <2>2. CASE ~ (\/ p.session # c.session \/ p.requestId # c.id
                \/ p.references.sequence # c.sequence)
    <3>1. CASE c.phase = "resolve"
      BY <2>2, <3>1, PhaseFits, CacheStays DEF ReferencesFound, PageFits
    <3>2. CASE c.phase # "resolve"
      <4>1. c.id = p.references.asked
        BY <1>3, <2>2 DEF PageFits, CallsFit
      <4>2. PageFits(InPanel(Drop(p, c), c, "ready"))
        BY <1>2, <1>3, <1>4, <4>1, PanelFits
      <4> QED
        BY <2>2, <3>2, <4>2 DEF ReferencesFound
    <3> QED
      BY <3>1, <3>2
  <2> QED
    BY <2>1, <2>2
<1>6. PageFits(ReferencesFail(p, c))
  <2>1. PageFits(InPanel(Drop(p, c), c, "error"))
    BY <1>2, <1>3, PanelFits
  <2>2. PageFits(Finish(Drop(p, c), c)) /\ PageFits(Abandon(Drop(p, c), c))
    BY <1>2, FinishFits, AbandonFits
  <2> QED
    BY <2>1, <2>2 DEF ReferencesFail
<1> QED
  BY <1>5, <1>6

\* So every answer keeps the page.
LEMMA ReturnsKeep ==
  ASSUME PageFits(page), NEW c \in page.calls,
         ClassReturns(c) \/ PeekReturns(c) \/ ReferencesReturn(c)
  PROVE  PageFits(page')
<1>1. CASE ClassReturns(c)
  BY <1>1, AnsweredFits, PresentedFits, FailedFits DEF ClassReturns
<1>2. CASE PeekReturns(c)
  <2> DEFINE q == Drop(page, c)
             ready == [q EXCEPT !.peeking = FALSE]
  <2>1. page' = q \/ page' = ready
    BY <1>2 DEF PeekReturns
  <2>2. ~Fetches(page, c)
    BY <1>2 DEF PeekReturns, Fetches
  <2>3. PageFits(q)
    BY <2>2, DropFits, CacheStays DEF PageFits
  <2> HIDE DEF q
  <2>4. SameCalls(q, ready) /\ SameCache(q, ready)
    BY <2>3 DEF PageFits, CallsFit, SameCalls, SameCache, Fields
  <2>5. PageFits(ready)
    BY <2>3, <2>4, CallsStay, CacheStays DEF PageFits
  <2> QED
    BY <2>1, <2>3, <2>5
<1>3. CASE ReferencesReturn(c)
  BY <1>3, FoundFits DEF ReferencesReturn
<1> QED
  BY <1>1, <1>2, <1>3

------------------------------------------------------------------------------
(***************************************************************************)
(* Archives and settings.                                                  *)
(***************************************************************************)
\* An empty cache has nothing to show.
LEMMA EmptyCache ==
  ASSUME NEW p, p.documents = <<>>, p.closedTabs = <<>>
  PROVE  CacheFits(p)
<1> DEFINE none == p.documents
           P == p.pinned \cup p.untrimmed
<1>1. Docs(none) /\ Docs(p.closedTabs) /\ DOMAIN none = {}
  BY DEF Docs
<1>2. Distinct(none) /\ \A doc \in ToSet(none) \cup ToSet(p.closedTabs) : doc.session = p.session
  BY DEF Distinct, ToSet
<1>3. Loose(none, P) = {}
  BY <1>1 DEF Loose
<1> HIDE DEF none, P
<1>4. Len(Others(none, P)) = 0
  BY <1>1, <1>3, LooseAreOthers, FS_EmptySet
<1> QED
  BY <1>1, <1>2, <1>4, DocumentsAssumption DEF CacheFits, none, P

\* The page at the start.
LEMMA InitFits ==
  ASSUME DocumentsInit
  PROVE  PageFits(page)
<1>1. /\ DOMAIN page = Fields /\ page.session = 1 /\ page.lastSession = 1 /\ page.requestId = 0
      /\ page.references = NoReferences /\ page.search = NoSearch /\ page.calls = {}
      /\ page.loading = Null /\ page.documents = <<>> /\ page.closedTabs = <<>>
  BY DEF DocumentsInit, Fields
<1>2. CallsFit(page)
  BY <1>1 DEF CallsFit, NoReferences, NoSearch, Panels, OwnSearch
<1>3. CacheFits(page)
  BY <1>1, EmptyCache
<1> QED
  BY <1>2, <1>3 DEF PageFits

\* What only concerns tabs, the peek view or settings.
LEMMA PageStays ==
  ASSUME NEW p, NEW q, PageFits(p), SameCalls(p, q), SameCache(p, q)
  PROVE  PageFits(q)
BY CallsStay, CacheStays DEF PageFits

\* An archive is shown, or none.
LEMMA FreshFits ==
  ASSUME NEW p, PageFits(p), NEW q, DOMAIN q = Fields,
         q.requestId \in Nat, q.documents = <<>>, q.closedTabs = <<>>, q.loading = Null,
         q.references = NoReferences, q.search = p.search, q.calls = p.calls,
         \/ q.session = 0 /\ q.lastSession = p.lastSession
         \/ q.session = p.lastSession + 1 /\ q.lastSession = p.lastSession + 1
  PROVE  PageFits(q)
<1>1. /\ p.lastSession \in Nat /\ p.search \in [session : Nat, id : Nat, sequence : Nat]
      /\ p.search # NoSearch => p.search.sequence # 0
      /\ \A c \in p.calls : IsCall(c, p.lastSession)
  BY DEF PageFits, CallsFit
<1>2. \A c \in p.calls : IsCall(c, q.lastSession) /\ c.session # q.session
  BY <1>1 DEF IsCall
<1>3. q.references \in Panels /\ q.references.sequence = 0 /\ q.references.state = "none"
  BY DEF NoReferences, Panels
<1>4. ~OwnSearch(q)
  BY <1>1, <1>3 DEF OwnSearch
<1>5. CallsFit(q)
  BY <1>1, <1>2, <1>3, <1>4 DEF CallsFit
<1> QED
  BY <1>5, EmptyCache DEF PageFits

\* No call under way is of the archive that is shown next.
LEMMA ArchiveKeeps ==
  ASSUME PageFits(page), ArchiveOpened \/ OpeningFails \/ StartOpening \/ CloseArchive
  PROVE  PageFits(page')
<1>0. /\ DOMAIN page = Fields /\ page.lastSession \in Nat /\ page.requestId \in Nat
  BY DEF PageFits, CallsFit
<1>1. CASE ArchiveOpened
  <2> DEFINE f == Fresh(page, page.lastSession + 1, 0)
             q == [f EXCEPT !.lastSession = @ + 1, !.opening = FALSE]
  <2>1. page' = q
    BY <1>1 DEF ArchiveOpened
  <2>2. /\ DOMAIN f = Fields /\ f.session = page.lastSession + 1 /\ f.requestId = 0
        /\ f.documents = <<>> /\ f.closedTabs = <<>> /\ f.loading = Null
        /\ f.references = NoReferences /\ f.search = page.search /\ f.calls = page.calls
        /\ f.lastSession = page.lastSession
    BY <1>0 DEF Fresh, Fields
  <2> HIDE DEF f
  <2>3. /\ DOMAIN q = Fields /\ q.session = page.lastSession + 1 /\ q.requestId \in Nat
        /\ q.documents = <<>> /\ q.closedTabs = <<>> /\ q.loading = Null
        /\ q.references = NoReferences /\ q.search = page.search /\ q.calls = page.calls
        /\ q.lastSession = page.lastSession + 1
    BY <2>2 DEF Fields
  <2> HIDE DEF q
  <2>4. PageFits(q)
    BY <2>3, FreshFits
  <2> QED
    BY <2>1, <2>4
<1>2. CASE OpeningFails
  <2> DEFINE q == [page EXCEPT !.opening = FALSE]
  <2>1. page' = q
    BY <1>2 DEF OpeningFails
  <2>2. SameCalls(page, q) /\ SameCache(page, q)
    BY <1>0 DEF Fields, SameCalls, SameCache
  <2> HIDE DEF q
  <2> QED
    BY <2>1, <2>2, PageStays
<1>3. CASE StartOpening
  <2> DEFINE r == CancelReferences(StopLoading(page))
             q == [r EXCEPT !.opening = TRUE]
  <2>1. page' = q
    BY <1>3 DEF StartOpening, Act
  <2>2. PageFits(r)
    BY StopLoadingFits, CancelReferencesFits, CacheStays DEF PageFits
  <2> HIDE DEF r
  <2>3. SameCalls(r, q) /\ SameCache(r, q)
    BY <2>2 DEF PageFits, CallsFit, Fields, SameCalls, SameCache
  <2> HIDE DEF q
  <2> QED
    BY <2>1, <2>2, <2>3, PageStays
<1>4. CASE CloseArchive
  <2> DEFINE r == CancelReferences(page)
             f == Fresh(r, 0, page.requestId + 1)
             q == [f EXCEPT !.stale = {}]
  <2>1. page' = q
    BY <1>4 DEF CloseArchive, Act
  <2>2. PageFits(r)
    BY CancelReferencesFits, CacheStays DEF PageFits
  <2> HIDE DEF r
  <2>3. DOMAIN r = Fields /\ r.lastSession \in Nat
    BY <2>2 DEF PageFits, CallsFit
  <2>4. /\ DOMAIN f = Fields /\ f.session = 0 /\ f.requestId = page.requestId + 1
        /\ f.documents = <<>> /\ f.closedTabs = <<>> /\ f.loading = Null
        /\ f.references = NoReferences /\ f.search = r.search /\ f.calls = r.calls
        /\ f.lastSession = r.lastSession
    BY <2>3 DEF Fresh, Fields
  <2> HIDE DEF f
  <2>6. /\ DOMAIN q = Fields /\ q.session = 0 /\ q.requestId \in Nat
        /\ q.documents = <<>> /\ q.closedTabs = <<>> /\ q.loading = Null
        /\ q.references = NoReferences /\ q.search = r.search /\ q.calls = r.calls
        /\ q.lastSession = r.lastSession
    BY <1>0, <2>4 DEF Fields
  <2> HIDE DEF q
  <2>5. PageFits(q)
    BY <2>2, <2>6, FreshFits
  <2> QED
    BY <2>1, <2>5
<1> QED
  BY <1>1, <1>2, <1>3, <1>4

\* The settings of the output and the selection of classes.
LEMMA SettingsKeep ==
  ASSUME PageFits(page),
         \/ SetDecompileOptions
         \/ \E l \in Preferences : SetSourceLanguage(l)
         \/ \E d, g, preview : SelectClass(d, g, preview)
  PROVE  PageFits(page')
<1>0. DOMAIN page = Fields
  BY DEF PageFits, CallsFit
<1>1. CASE SetDecompileOptions
  <2> DEFINE r == [page EXCEPT !.loading = Null, !.stale = ClassesOf(page.documents)]
             q == NoPeek(r)
  <2>1. page' = Reselect(q, q.active)
    BY <1>1 DEF SetDecompileOptions, Act
  <2>2. /\ DOMAIN r = Fields /\ r.loading = Null /\ r.session = page.session
        /\ r.lastSession = page.lastSession /\ r.requestId = page.requestId
        /\ r.references = page.references /\ r.search = page.search
        /\ r.calls \subseteq page.calls /\ SameCache(page, r)
    BY <1>0 DEF Fields, SameCache
  <2> HIDE DEF r
  <2>3. PageFits(r)
    BY <2>2, SettledFits, CacheStays DEF PageFits
  <2>4. PageFits(q)
    BY <2>3, NoPeekFits, CacheStays DEF PageFits
  <2> HIDE DEF q
  <2> QED
    BY <2>1, <2>4, ReselectFits
<1>2. ASSUME NEW l, SetSourceLanguage(l) PROVE PageFits(page')
  <2> DEFINE r == [page EXCEPT !.preference = l, !.loading = Null]
             q == NoPeek(r)
  <2>1. page' = Reselect(q, q.active)
    BY <1>2 DEF SetSourceLanguage, Act
  <2>2. /\ DOMAIN r = Fields /\ r.loading = Null /\ r.session = page.session
        /\ r.lastSession = page.lastSession /\ r.requestId = page.requestId
        /\ r.references = page.references /\ r.search = page.search
        /\ r.calls \subseteq page.calls /\ SameCache(page, r)
    BY <1>0 DEF Fields, SameCache
  <2> HIDE DEF r
  <2>3. PageFits(r)
    BY <2>2, SettledFits, CacheStays DEF PageFits
  <2>4. PageFits(q)
    BY <2>3, NoPeekFits, CacheStays DEF PageFits
  <2> HIDE DEF q
  <2> QED
    BY <2>1, <2>4, ReselectFits
<1>3. ASSUME NEW d, NEW g, NEW preview, SelectClass(d, g, preview) PROVE PageFits(page')
  BY <1>3, SelectFits DEF SelectClass, Act
<1> QED
  BY <1>1, <1>2, <1>3

------------------------------------------------------------------------------
(***************************************************************************)
(* The peek view and the references panel.                                 *)
(***************************************************************************)
\* The peek view takes a request id, and says so in overtaken; a search of
\* references stops what loads first.
LEMMA PanelsKeep ==
  ASSUME PageFits(page),
         ClosePeek \/ FindReferences \/ CloseReferences \/ \E d : OpenPeek(d)
  PROVE  PageFits(page')
<1>0. DOMAIN page = Fields /\ CallsFit(page) /\ CacheFits(page)
  BY DEF PageFits, CallsFit
<1>1. CASE ClosePeek
  <2> DEFINE c == CancelCall(page, page.session, page.requestId)
             r == NoPeek(c)
             q == [r EXCEPT !.requestId = @ + 1, !.overtaken = @ \/ page.loading # Null]
  <2>1. page' = q \/ page' = NoPeek(page)
    BY <1>1 DEF ClosePeek, Act
  <2>2. CallsFit(c) /\ SameCache(page, c) /\ \A f \in Fields \ {"calls"} : c[f] = page[f]
    BY <1>0, CancelFits
  <2>3. CallsFit(r) /\ SameCache(c, r) /\ SameCalls(c, r)
    BY <2>2, NoPeekFits
  <2>4. r.loading = page.loading
    BY <2>2, <2>3 DEF Fields, SameCalls
  <2> HIDE DEF c, r
  <2>5. DOMAIN r = Fields
    BY <2>3 DEF CallsFit
  <2>6. /\ DOMAIN q = Fields /\ q.requestId = r.requestId + 1
        /\ q.overtaken = (r.overtaken \/ page.loading # Null)
        /\ \A f \in Fields \ {"requestId", "overtaken"} : q[f] = r[f]
    BY <2>5 DEF Fields
  <2> HIDE DEF q
  <2>7. /\ q.session = r.session /\ q.lastSession = r.lastSession /\ q.calls = r.calls
        /\ q.references = r.references /\ q.search = r.search /\ q.loading = r.loading
        /\ SameCache(r, q)
    BY <2>6 DEF Fields, SameCache
  <2>8. OwnSearch(q) <=> OwnSearch(r)
    BY <2>7 DEF OwnSearch
  <2>9. /\ r.requestId \in Nat /\ r.references.asked \in Nat
        /\ \A b \in r.calls : b.id \in Nat
    BY <2>3 DEF CallsFit, IsCall, Panels
  <2>10. q.loading # Null => q.overtaken
    BY <2>4, <2>6, <2>7
  <2>11. CallsFit(q)
    BY <2>3, <2>6, <2>7, <2>8, <2>9, <2>10 DEF CallsFit
  <2>12. CacheFits(q)
    BY <1>0, <2>2, <2>3, <2>7, CacheStays
  <2>13. PageFits(NoPeek(page))
    BY <1>0, NoPeekFits, CacheStays DEF PageFits
  <2> QED
    BY <2>1, <2>11, <2>12, <2>13 DEF PageFits
<1>2. CASE FindReferences
  <2> DEFINE r == StopLoading(CancelReferences(page))
             c == [Call(r, "references", Null) EXCEPT
                     !.phase = "resolve", !.sequence = r.references.sequence + 1]
             n == NoPeek(r)
             q == [n EXCEPT !.requestId = c.id, !.calls = @ \cup {c}, !.search = Searching(c),
                     !.references = [sequence |-> c.sequence, state |-> "loading",
                                     asked |-> c.id, of |-> 0]]
  <2>1. page' = q /\ page.session # 0
    BY <1>2 DEF FindReferences, Act
  <2>2. CallsFit(r) /\ SameCache(page, r) /\ r.loading = Null
    <3>1. CallsFit(CancelReferences(page)) /\ SameCache(page, CancelReferences(page))
      BY <1>0, CancelReferencesFits
    <3>2. CallsFit(r) /\ SameCache(CancelReferences(page), r) /\ r.loading = Null
      BY <3>1, StopLoadingFits
    <3> QED
      BY <3>1, <3>2 DEF SameCache
  <2> HIDE DEF r
  <2>3. CallsFit(n) /\ SameCache(r, n) /\ SameCalls(r, n)
    BY <2>2, NoPeekFits
  <2> HIDE DEF n
  <2>4. /\ r.references.sequence \in Nat /\ r.requestId \in Nat /\ r.references.asked \in Nat
        /\ r.session \in Nat /\ r.session <= r.lastSession
        /\ \A b \in r.calls : b.id \in Nat
    BY <2>2 DEF CallsFit, Panels, IsCall
  <2>5. /\ DOMAIN c = CallFields /\ c.session = r.session /\ c.id = r.requestId + 1
        /\ c.kind = "references" /\ c.sequence = r.references.sequence + 1
    BY DEF Call, CallFields
  <2> HIDE DEF c
  <2>6. r.session # 0
    BY <2>1, <2>2 DEF SameCache
  <2>7. IsCall(c, r.lastSession) /\ c.sequence \in Nat /\ c.sequence # 0 /\ c.id \in Nat
    BY <2>4, <2>5, <2>6 DEF IsCall
  <2>8. /\ DOMAIN q = Fields /\ q.requestId = c.id /\ q.calls = r.calls \cup {c}
        /\ q.search = Searching(c)
        /\ q.references = [sequence |-> c.sequence, state |-> "loading", asked |-> c.id, of |-> 0]
        /\ q.loading = Null /\ q.session = r.session /\ q.lastSession = r.lastSession
        /\ SameCache(r, q)
    BY <2>2, <2>3 DEF Fields, CallsFit, SameCalls, SameCache
  <2> HIDE DEF q
  <2>9. /\ q.references \in Panels /\ q.references.sequence = c.sequence
        /\ q.references.asked = c.id /\ q.references.state = "loading"
    BY <2>7, <2>8 DEF Panels
  <2>10. /\ q.search \in [session : Nat, id : Nat, sequence : Nat]
         /\ q.search.session = q.session /\ q.search.id = c.id /\ q.search.sequence = c.sequence
    BY <2>4, <2>5, <2>7, <2>8 DEF Searching
  <2>11. \A b \in q.calls : b.kind = "references" /\ b.session = q.session => b.id <= c.id
    BY <2>2, <2>4, <2>5, <2>8 DEF CallsFit
  <2>12. \A b \in q.calls : IsCall(b, q.lastSession)
    BY <2>2, <2>7, <2>8 DEF CallsFit
  <2>13. CallsFit(q)
    BY <2>2, <2>7, <2>8, <2>9, <2>10, <2>11, <2>12 DEF CallsFit
  <2>14. CacheFits(q)
    BY <1>0, <2>2, <2>8, CacheStays
  <2> QED
    BY <2>1, <2>13, <2>14 DEF PageFits
<1>3. CASE CloseReferences
  <2> DEFINE r == CancelReferences(page)
             q == [r EXCEPT !.references = NoReferences]
  <2>1. page' = q
    BY <1>3 DEF CloseReferences, Act
  <2>2. CallsFit(r) /\ SameCache(page, r) /\ r.search = NoSearch
    BY <1>0, CancelReferencesFits
  <2> HIDE DEF r
  <2>3. DOMAIN r = Fields
    BY <2>2 DEF CallsFit
  <2>4. /\ DOMAIN q = Fields /\ q.references = NoReferences
        /\ q.session = r.session /\ q.lastSession = r.lastSession /\ q.requestId = r.requestId
        /\ q.search = r.search /\ q.calls = r.calls /\ q.loading = r.loading
        /\ q.overtaken = r.overtaken /\ q.preference = r.preference
        /\ SameCache(r, q)
    BY <2>3 DEF Fields, SameCache
  <2> HIDE DEF q
  <2>5. q.references \in Panels /\ q.references.sequence = 0 /\ q.references.state = "none"
    BY <2>4 DEF NoReferences, Panels
  <2>6. ~OwnSearch(q)
    BY <2>2, <2>4 DEF OwnSearch
  <2>7. \A b : Fetches(r, b) => Fetches(q, b)
    BY <2>4 DEF Fetches
  <2>8. CallsFit(q)
    BY <2>2, <2>4, <2>5, <2>6, <2>7 DEF CallsFit
  <2>9. CacheFits(q)
    BY <1>0, <2>2, <2>4, CacheStays
  <2> QED
    BY <2>1, <2>8, <2>9 DEF PageFits
<1>4. ASSUME NEW d, OpenPeek(d) PROVE PageFits(page')
  <2> DEFINE r == Issue(page, "peek", d)
             c == Call(page, "peek", d)
             q == [r EXCEPT !.peek = d, !.peeking = TRUE, !.overtaken = @ \/ page.loading # Null]
  <2>1. page' = q /\ page.session # 0
    BY <1>4 DEF OpenPeek, Act
  <2>2. /\ r.requestId = page.requestId + 1 /\ r.calls = page.calls \cup {c}
        /\ \A f \in Fields \ {"requestId", "calls"} : r[f] = page[f]
        /\ DOMAIN r = Fields /\ IsCall(c, page.lastSession) /\ c.kind = "peek"
    BY <1>0, <2>1, IssueFits
  <2> HIDE DEF r, c
  <2>3. /\ DOMAIN q = Fields /\ q.overtaken = (r.overtaken \/ page.loading # Null)
        /\ q.requestId = page.requestId + 1 /\ q.calls = page.calls \cup {c}
        /\ q.session = page.session /\ q.lastSession = page.lastSession
        /\ q.references = page.references /\ q.search = page.search
        /\ q.loading = page.loading /\ SameCache(page, q)
    BY <2>2 DEF Fields, SameCache
  <2> HIDE DEF q
  <2>4. OwnSearch(q) <=> OwnSearch(page)
    BY <2>3 DEF OwnSearch
  <2>5. /\ page.requestId \in Nat /\ page.references.asked \in Nat
        /\ \A b \in page.calls : b.id \in Nat
    BY <1>0 DEF CallsFit, Panels, IsCall
  <2>6. q.loading # Null => q.overtaken
    BY <2>3
  <2>7. CallsFit(q)
    BY <1>0, <2>2, <2>3, <2>4, <2>5, <2>6 DEF CallsFit
  <2> QED
    BY <1>0, <2>1, <2>3, <2>7, CacheStays DEF PageFits
<1> QED
  BY <1>1, <1>2, <1>3, <1>4

------------------------------------------------------------------------------
(***************************************************************************)
(* Tabs.  To the page they are all changes of the cache, of pins, or none. *)
(***************************************************************************)
\* Tabs are closed, or their classes lose their pins.
LEMMA ClosingFits ==
  ASSUME NEW p, PageFits(p)
  PROVE  /\ \A g, D : PageFits(CloseTabs(p, g, D))
         /\ PageFits(PinnedInLayout(p)) /\ PageFits(PeekInLayout(p))
<1>0. DOMAIN p = Fields
  BY DEF PageFits, CallsFit
<1>1. ASSUME NEW g, NEW D PROVE PageFits(CloseTabs(p, g, D))
  <2> DEFINE L == RemoveTabs(p.layout, g, D)
             gone == {d \in D : ~InLayout(L, d)}
             q == [p EXCEPT !.layout = L, !.active = ActiveTab(L),
                            !.closedTabs = LastTabs(@ \o Among(p.documents, D)),
                            !.documents = Others(@, gone)]
  <2>1. CloseTabs(p, g, D) = q
    BY DEF CloseTabs
  <2> HIDE DEF L, gone
  <2>2. /\ SameCalls(p, q) /\ q.session = p.session
        /\ q.pinned = p.pinned /\ q.untrimmed = p.untrimmed
        /\ q.documents = Others(p.documents, gone)
        /\ q.closedTabs = LastTabs(p.closedTabs \o Among(p.documents, D))
    BY <1>0 DEF Fields, SameCalls
  <2> HIDE DEF q
  <2>3. p.pinned \cup p.untrimmed \subseteq (q.pinned \cup q.untrimmed) \cup gone
    BY <2>2
  <2>4. CacheFits(q)
    BY <2>2, <2>3, CacheShrinks DEF PageFits
  <2> QED
    BY <2>1, <2>2, <2>4, CallsStay DEF PageFits
<1>2. PageFits(PinnedInLayout(p))
  <2> DEFINE kept == {d \in p.pinned : InLayout(p.layout, d)}
             q == [p EXCEPT !.pinned = kept, !.untrimmed = @ \cup (p.pinned \ kept)]
  <2>1. PinnedInLayout(p) = q
    BY DEF PinnedInLayout
  <2> HIDE DEF kept
  <2>2. /\ SameCalls(p, q) /\ q.session = p.session /\ q.documents = p.documents
        /\ q.closedTabs = p.closedTabs
        /\ q.pinned = kept /\ q.untrimmed = p.untrimmed \cup (p.pinned \ kept)
    BY <1>0 DEF Fields, SameCalls
  <2> HIDE DEF q
  <2>3. p.pinned \cup p.untrimmed \subseteq q.pinned \cup q.untrimmed
    BY <2>2
  <2>4. CacheFits(q)
    BY <2>2, <2>3, CacheShrinks DEF PageFits
  <2> QED
    BY <2>1, <2>2, <2>4, CallsStay DEF PageFits
<1>3. PageFits(PeekInLayout(p))
  BY NoPeekFits, CacheStays DEF PeekInLayout, PageFits
<1> QED
  BY <1>1, <1>2, <1>3

\* Every way to close tabs.
LEMMA ClosesKeep ==
  ASSUME PageFits(page),
         \/ \E d, g : \/ CloseDocument(d, g) \/ CloseOtherDocuments(d, g)
                      \/ CloseDocumentsToRight(d, g)
         \/ \E g : CloseAllDocuments(g) \/ CloseEditorGroup(g)
  PROVE  PageFits(page')
<1>0. DOMAIN page = Fields
  BY DEF PageFits, CallsFit
<1>1. ASSUME NEW d, NEW g, CloseDocument(d, g) PROVE PageFits(page')
  <2> DEFINE L == CloseTab(page.layout, g, d)
             tabs == LastTabs(page.closedTabs \o Among(page.documents, {d}))
             q == [page EXCEPT !.layout = L, !.active = ActiveTab(L),
                               !.closedTabs = LastTabs(@ \o Among(page.documents, {d}))]
             n == IF q.peek = d THEN NoPeek(q) ELSE q
             r == [n EXCEPT !.documents = Others(@, {d}), !.pinned = @ \ {d}]
  <2>1. page' = q \/ page' = r
    BY <1>1 DEF CloseDocument, Act
  <2> HIDE DEF L
  <2>2. /\ SameCalls(page, q) /\ q.session = page.session /\ q.documents = page.documents
        /\ q.pinned = page.pinned /\ q.untrimmed = page.untrimmed /\ q.closedTabs = tabs
    BY <1>0 DEF Fields, SameCalls
  <2> HIDE DEF q
  <2>3. PageFits(q)
    <3>1. page.pinned \cup page.untrimmed \subseteq q.pinned \cup q.untrimmed
      BY <2>2
    <3>2. CacheFits(q)
      BY <2>2, <3>1, CacheShrinks DEF PageFits
    <3> QED
      BY <2>2, <3>2, CallsStay DEF PageFits
  <2>4. PageFits(n)
    BY <2>3, NoPeekFits, CacheStays DEF PageFits
  <2> HIDE DEF n
  <2>5. PageFits(r)
    <3>0. DOMAIN n = Fields
      BY <2>4 DEF PageFits, CallsFit
    <3>1. /\ SameCalls(n, r) /\ r.session = n.session /\ r.documents = Others(n.documents, {d})
          /\ r.pinned = n.pinned \ {d} /\ r.untrimmed = n.untrimmed
          /\ r.closedTabs = n.closedTabs
      BY <3>0 DEF Fields, SameCalls
    <3> HIDE DEF r
    <3>2. n.pinned \cup n.untrimmed \subseteq (r.pinned \cup r.untrimmed) \cup {d}
      BY <3>1
    <3>3. CacheFits(r)
      BY <2>4, <3>1, <3>2, CacheShrinks DEF PageFits
    <3> QED
      BY <2>4, <3>1, <3>3, CallsStay DEF PageFits
  <2> QED
    BY <2>1, <2>3, <2>5
<1>2. ASSUME NEW d, NEW g, CloseOtherDocuments(d, g) PROVE PageFits(page')
  BY <1>2, ClosingFits DEF CloseOtherDocuments, Act
<1>3. ASSUME NEW d, NEW g, CloseDocumentsToRight(d, g) PROVE PageFits(page')
  BY <1>3, ClosingFits DEF CloseDocumentsToRight, Act
<1>4. ASSUME NEW g, CloseAllDocuments(g) PROVE PageFits(page')
  <2>1. page' = PeekInLayout(PinnedInLayout(
                  CloseTabs(page, g, ToSet(TabsIn(page.layout, g)))))
    BY <1>4 DEF CloseAllDocuments, Act
  <2>2. PageFits(CloseTabs(page, g, ToSet(TabsIn(page.layout, g))))
    BY ClosingFits
  <2> QED
    BY <2>1, <2>2, ClosingFits
<1>5. ASSUME NEW g, CloseEditorGroup(g) PROVE PageFits(page')
  <2> DEFINE L == CloseGroup(page.layout, g)
             D == ToSet(TabsIn(page.layout, g))
             gone == {d \in D : ~InLayout(L, d)}
             q == [page EXCEPT !.layout = L, !.active = ActiveTab(L),
                               !.closedTabs = LastTabs(@ \o Among(page.documents, D)),
                               !.documents = Others(@, gone)]
  <2>1. page' = PinnedInLayout(q)
    BY <1>5 DEF CloseEditorGroup, Act
  <2> HIDE DEF L, D, gone
  <2>2. /\ SameCalls(page, q) /\ q.session = page.session
        /\ q.pinned = page.pinned /\ q.untrimmed = page.untrimmed
        /\ q.documents = Others(page.documents, gone)
        /\ q.closedTabs = LastTabs(page.closedTabs \o Among(page.documents, D))
    BY <1>0 DEF Fields, SameCalls
  <2> HIDE DEF q
  <2>3. page.pinned \cup page.untrimmed \subseteq (q.pinned \cup q.untrimmed) \cup gone
    BY <2>2
  <2>4. CacheFits(q)
    BY <2>2, <2>3, CacheShrinks DEF PageFits
  <2>5. PageFits(q)
    BY <2>2, <2>4, CallsStay DEF PageFits
  <2> QED
    BY <2>1, <2>5, ClosingFits
<1> QED
  BY <1>1, <1>2, <1>3, <1>4, <1>5

\* The last closed tab comes back into the cache.
LEMMA ReopenKeeps ==
  ASSUME PageFits(page), ReopenClosedTab
  PROVE  PageFits(page')
<1> DEFINE doc == Last(page.closedTabs)
           docs == Trim(Append(Others(page.documents, {doc.class}), doc), page.pinned)
           opened == OpenTab(page.layout, doc.class, page.layout.focused, FALSE)
           q == [page EXCEPT !.documents = docs, !.active = doc.class, !.untrimmed = {},
                             !.layout = RetainTabs(opened, ClassesOf(docs)),
                             !.closedTabs = Front(@)]
<1>0. DOMAIN page = Fields
  BY DEF PageFits, CallsFit
<1>1. page.closedTabs # <<>> /\ (page' = q \/ page' = Reselect(q, doc.class))
  BY DEF ReopenClosedTab, Act
<1>2. /\ Docs(page.documents) /\ Distinct(page.documents) /\ Docs(page.closedTabs)
      /\ \A d \in ToSet(page.documents) \cup ToSet(page.closedTabs) : d.session = page.session
  BY DEF PageFits, CacheFits
<1>3. doc \in ToSet(page.closedTabs)
  <2>1. Len(page.closedTabs) \in Nat /\ Len(page.closedTabs) # 0
    BY <1>1, <1>2 DEF Docs
  <2>2. Len(page.closedTabs) \in DOMAIN page.closedTabs
    BY <1>2, <2>1, DocsPlaces
  <2> QED
    BY <1>2, <2>2, DocsPlaces DEF Last
<1>4. /\ Docs(Front(page.closedTabs))
      /\ ToSet(Front(page.closedTabs)) \subseteq ToSet(page.closedTabs)
  <2> DEFINE s == page.closedTabs
  <2>1. Len(s) \in Nat /\ \A i \in 1 .. Len(s) - 1 : s[i] \in ToSet(s)
    BY <1>2, DocsPlaces
  <2> HIDE DEF s
  <2>2. SubSeq(s, 1, Len(s) - 1) \in Seq(ToSet(s))
    BY <2>1, SubSeqProperties
  <2>3. Front(s) \in Seq(ToSet(s))
    BY <2>2 DEF Front
  <2> QED
    BY <2>3, OwnElements DEF s
<1>5. /\ Docs(docs) /\ Distinct(docs) /\ ToSet(docs) \subseteq ToSet(page.documents) \cup {doc}
      /\ Len(Others(docs, page.pinned)) <= DocumentLimit
  BY <1>2, CacheTakes
<1> HIDE DEF docs, doc, opened
<1>6. /\ SameCalls(page, q) /\ q.documents = docs /\ q.untrimmed = {} /\ q.pinned = page.pinned
      /\ q.closedTabs = Front(page.closedTabs) /\ q.session = page.session
  BY <1>0 DEF Fields, SameCalls
<1> HIDE DEF q
<1>7. q.pinned \cup q.untrimmed = page.pinned
  BY <1>6
<1>8. CacheFits(q)
  BY <1>2, <1>3, <1>4, <1>5, <1>6, <1>7 DEF CacheFits
<1>9. PageFits(q)
  BY <1>6, <1>8, CallsStay DEF PageFits
<1> QED
  BY <1>1, <1>9, ReselectFits

\* A pin is set or removed, and the cache trimmed.
LEMMA PinKeeps ==
  ASSUME PageFits(page), NEW d, TogglePin(d)
  PROVE  PageFits(page')
<1> DEFINE pinned == SymDiff(page.pinned, {d})
           docs == Trim(page.documents, pinned)
           L == IF d \in pinned
                THEN PromoteTab(page.layout, d, GroupOf(page.layout, d)) ELSE page.layout
           q == [page EXCEPT !.pinned = pinned, !.documents = docs, !.untrimmed = {},
                      !.layout = OrderPinned(RetainTabs(L, ClassesOf(docs)), pinned)]
<1>0. DOMAIN page = Fields
  BY DEF PageFits, CallsFit
<1>1. page' = q
  BY DEF TogglePin, Act
<1> HIDE DEF pinned, L
<1>2. /\ Docs(docs) /\ Distinct(docs) /\ ToSet(docs) \subseteq ToSet(page.documents)
      /\ Len(Others(docs, pinned)) <= DocumentLimit
  BY TrimKeeps DEF PageFits, CacheFits
<1> HIDE DEF docs
<1>3. /\ SameCalls(page, q) /\ q.documents = docs /\ q.untrimmed = {} /\ q.pinned = pinned
      /\ q.closedTabs = page.closedTabs /\ q.session = page.session
  BY <1>0 DEF Fields, SameCalls
<1> HIDE DEF q
<1>4. q.pinned \cup q.untrimmed = pinned
  BY <1>3
<1>5. CacheFits(q)
  BY <1>2, <1>3, <1>4 DEF PageFits, CacheFits
<1> QED
  BY <1>1, <1>3, <1>5, CallsStay DEF PageFits

\* What only arranges tabs.
LEMMA TabsKeep ==
  ASSUME PageFits(page),
         \/ \E d, g, h, b : MoveDocument(d, g, h, b) \/ SplitDocument(d, g, h, b)
         \/ \E d, g : SplitEditor(d, g) \/ PromotePreview(d, g)
         \/ \E g : FocusEditorGroup(g)
  PROVE  PageFits(page')
<1>0. DOMAIN page = Fields
  BY DEF PageFits, CallsFit
<1>1. \A L, a : LET q == [page EXCEPT !.layout = L, !.active = a]
                IN SameCalls(page, q) /\ SameCache(page, q)
  BY <1>0 DEF Fields, SameCalls, SameCache
<1>2. \A L : LET q == [page EXCEPT !.layout = L]
             IN SameCalls(page, q) /\ SameCache(page, q)
  BY <1>0 DEF Fields, SameCalls, SameCache
<1>3. \/ \E L, a : page' = [page EXCEPT !.active = a, !.layout = L]
      \/ \E L, a : page' = [page EXCEPT !.layout = L, !.active = a]
      \/ \E L : page' = [page EXCEPT !.layout = L]
  <2>1. ASSUME NEW d, NEW g, NEW h, NEW b, MoveDocument(d, g, h, b)
        PROVE  \E L, a : page' = [page EXCEPT !.active = a, !.layout = L]
    BY <2>1, Zenon DEF MoveDocument, Act
  <2>2. ASSUME NEW d, NEW g, NEW h, NEW b, SplitDocument(d, g, h, b)
        PROVE  \E L, a : page' = [page EXCEPT !.active = a, !.layout = L]
    BY <2>2, Zenon DEF SplitDocument, Act
  <2>3. ASSUME NEW d, NEW g, SplitEditor(d, g)
        PROVE  \E L, a : page' = [page EXCEPT !.layout = L, !.active = a]
    BY <2>3, Zenon DEF SplitEditor, Act
  <2>4. ASSUME NEW g, FocusEditorGroup(g)
        PROVE  \E L, a : page' = [page EXCEPT !.layout = L, !.active = a]
    BY <2>4, Zenon DEF FocusEditorGroup, Act
  <2>5. ASSUME NEW d, NEW g, PromotePreview(d, g)
        PROVE  \E L : page' = [page EXCEPT !.layout = L]
    BY <2>5, Zenon DEF PromotePreview, Act
  <2> QED
    BY <2>1, <2>2, <2>3, <2>4, <2>5, Zenon
<1>4. \A L, a : LET q == [page EXCEPT !.active = a, !.layout = L]
                IN SameCalls(page, q) /\ SameCache(page, q)
  BY <1>0 DEF Fields, SameCalls, SameCache
<1>5. SameCalls(page, page') /\ SameCache(page, page')
  <2>1. ASSUME NEW L, NEW a, page' = [page EXCEPT !.active = a, !.layout = L]
        PROVE  SameCalls(page, page') /\ SameCache(page, page')
    BY <1>4, <2>1
  <2>2. ASSUME NEW L, NEW a, page' = [page EXCEPT !.layout = L, !.active = a]
        PROVE  SameCalls(page, page') /\ SameCache(page, page')
    BY <1>1, <2>2
  <2>3. ASSUME NEW L, page' = [page EXCEPT !.layout = L]
        PROVE  SameCalls(page, page') /\ SameCache(page, page')
    BY <1>2, <2>3
  <2> QED
    BY <1>3, <2>1, <2>2, <2>3, Zenon
<1> QED
  BY <1>5, PageStays

------------------------------------------------------------------------------
(***************************************************************************)
(* The theorems.                                                           *)
(***************************************************************************)
\* Every step keeps the page.
LEMMA NextKeeps ==
  ASSUME PageFits(page), [DocumentsNext]_docVars
  PROVE  PageFits(page')
<1>1. CASE \E c \in page.calls : ClassReturns(c) \/ PeekReturns(c) \/ ReferencesReturn(c)
  BY <1>1, ReturnsKeep
<1>2. CASE ArchiveOpened \/ OpeningFails
  BY <1>2, ArchiveKeeps
<1>3. CASE UserActs
  <2>1. CASE TabActs
    <3>1. \/ \E g : FocusEditorGroup(g)
          \/ \E g : CloseAllDocuments(g) \/ CloseEditorGroup(g)
          \/ \E d, g : \/ CloseDocument(d, g) \/ CloseOtherDocuments(d, g)
                       \/ CloseDocumentsToRight(d, g)
          \/ \E d, g : SplitEditor(d, g) \/ PromotePreview(d, g)
          \/ \E d, g, preview : SelectClass(d, g, preview)
          \/ \E d, g, h, b : MoveDocument(d, g, h, b) \/ SplitDocument(d, g, h, b)
      BY <2>1, Zenon DEF TabActs
    <3> QED
      BY <3>1, TabsKeep, ClosesKeep, SettingsKeep
  <2>2. CASE \E d \in Classes :
               \/ \E preview \in BOOLEAN : SelectClass(d, page.layout.focused, preview)
               \/ OpenPeek(d) \/ TogglePin(d)
    BY <2>2, SettingsKeep, PanelsKeep, PinKeeps
  <2>3. CASE FindReferences \/ CloseReferences \/ ClosePeek
    BY <2>3, PanelsKeep
  <2>4. CASE ReopenClosedTab
    BY <2>4, ReopenKeeps
  <2>5. CASE SetDecompileOptions \/ \E l \in Preferences : SetSourceLanguage(l)
    BY <2>5, SettingsKeep
  <2>6. CASE StartOpening \/ CloseArchive
    BY <2>6, ArchiveKeeps
  <2> QED
    BY <1>3, <2>1, <2>2, <2>3, <2>4, <2>5, <2>6, Zenon DEF UserActs
<1>4. CASE UNCHANGED docVars
  BY <1>4 DEF docVars
<1> QED
  BY <1>1, <1>2, <1>3, <1>4 DEF DocumentsNext

\* The page always fits.
LEMMA PagesFit == DocumentsSpec => []PageFits(page)
<1>1. DocumentsInit => PageFits(page)
  BY InitFits
<1>2. PageFits(page) /\ [DocumentsNext]_docVars => PageFits(page)'
  BY NextKeeps
<1> QED
  BY <1>1, <1>2, PTL DEF DocumentsSpec

\* A class that is said to be loading has a call that will end it, unless the
\* peek view has overtaken it (selectClass and its guards on request ids).
THEOREM LoadingSafety == DocumentsSpec => []LoadingIsFetched
<1>1. PageFits(page) => LoadingIsFetched
  BY DEF PageFits, CallsFit, Fetches, LoadingIsFetched
<1> QED
  BY <1>1, PagesFit, PTL

\* The references in the panel are of the search it was opened for, although
\* sequences and request ids start again (findReferences and its guards).
THEOREM ResultsSafety == DocumentsSpec => []ResultsAreAsked
<1>1. PageFits(page) => ResultsAreAsked
  BY DEF PageFits, CallsFit, ResultsAreAsked
<1> QED
  BY <1>1, PagesFit, PTL

\* No document of another archive is ever shown or kept to be reopened, however
\* late answers come (the guards of selectClass, openArchive, closeArchive).
THEOREM ArchiveSafety == DocumentsSpec => []CacheOfArchive
<1>1. PageFits(page) => CacheOfArchive
  BY DEF PageFits, CacheFits, CacheOfArchive
<1> QED
  BY <1>1, PagesFit, PTL

\* A cache without doubles is as long as it has classes.
LEMMA DistinctLength ==
  ASSUME NEW docs, Docs(docs), Distinct(docs)
  PROVE  Len(docs) = Cardinality(ClassesOf(docs))
<1> DEFINE class == [i \in 1 .. Len(docs) |-> docs[i].class]
<1>1. Len(docs) \in Nat /\ DOMAIN docs = 1 .. Len(docs)
  BY DocsPlaces
<1>2. IsFiniteSet(1 .. Len(docs)) /\ Cardinality(1 .. Len(docs)) = Len(docs)
  <2> DEFINE n == Len(docs)
  <2>1. n \in Nat
    BY <1>1
  <2> HIDE DEF n
  <2>2. IsFiniteSet(1 .. n) /\ Cardinality(1 .. n) = n
    BY <2>1, FS_Interval
  <2> QED
    BY <2>2 DEF n
<1>3. class \in [1 .. Len(docs) -> ClassesOf(docs)]
  BY <1>1 DEF ClassesOf
<1>4. \A i, j \in 1 .. Len(docs) : class[i] = class[j] => i = j
  BY <1>1 DEF Distinct
<1>5. \A d \in ClassesOf(docs) : \E i \in 1 .. Len(docs) : class[i] = d
  BY <1>1 DEF ClassesOf
<1> HIDE DEF class
<1>6. class \in Bijection(1 .. Len(docs), ClassesOf(docs))
  BY <1>3, <1>4, <1>5 DEF Bijection, Injection, Surjection, IsInjective
<1>7. ExistsBijection(1 .. Len(docs), ClassesOf(docs))
  BY <1>6 DEF ExistsBijection
<1> QED
  BY <1>2, <1>7, FS_Bijection

\* The cache has one document per class and keeps to DOCUMENT_LIMIT, but for
\* pins and what lost its pin since (trimDocuments and all its callers).
THEOREM CacheSafety == DocumentsSpec => []CacheInBounds
<1>1. PageFits(page) => CacheInBounds
  BY DistinctLength DEF PageFits, CacheFits, CacheInBounds
<1> QED
  BY <1>1, PagesFit, PTL

------------------------------------------------------------------------------
(***************************************************************************)
(* Types.  TypesFit is what DocumentsTypeOK needs to be inductive: the     *)
(* calls that fetch a class know which, documents come in sequences, an    *)
(* archive is only opened while there is a session left for it, and the    *)
(* layout fits (LayoutProofs), of which every operation on tabs is part.   *)
(***************************************************************************)
DocTypes == [class : Classes, session : 1..MaxSessions, language : {"java", "kotlin"}]

CallTyped(c) ==
  /\ DOMAIN c = CallFields
  /\ c.kind = "class" =>
       c.class \in Classes /\ c.session \in 1..MaxSessions /\ c.language \in Preferences

\* The fields that loading, peeking and searching leave alone.
Settled == {"session", "lastSession", "opening", "preference", "documents", "closedTabs",
            "pinned", "stale", "problems", "active", "layout"}

TypesFit(p) ==
  /\ DOMAIN p = Fields
  /\ p.session \in 0..MaxSessions /\ p.lastSession \in 0..MaxSessions
  /\ p.opening => p.lastSession < MaxSessions
  /\ p.preference \in Preferences
  /\ p.documents \in Seq(DocTypes) /\ p.closedTabs \in Seq(DocTypes)
  /\ Len(p.closedTabs) <= ClosedLimit
  /\ p.pinned \subseteq Classes /\ p.stale \subseteq Classes /\ p.problems \subseteq Classes
  /\ p.active \in Classes \cup {Null}
  /\ p.loading \in Classes \cup {Null} /\ p.peek \in Classes \cup {Null}
  /\ \A c \in p.calls : CallTyped(c)
  /\ LayoutFits(p.layout, Classes)

\* What is settled stays, and the rest has its types.
LEMMA Retyped ==
  ASSUME NEW p, TypesFit(p), NEW q, DOMAIN q = Fields, \A f \in Settled : q[f] = p[f],
         q.loading \in Classes \cup {Null}, q.peek \in Classes \cup {Null},
         \A c \in q.calls : CallTyped(c)
  PROVE  TypesFit(q)
<1>1. /\ q.session = p.session /\ q.lastSession = p.lastSession /\ q.opening = p.opening
      /\ q.preference = p.preference /\ q.documents = p.documents
      /\ q.closedTabs = p.closedTabs /\ q.pinned = p.pinned /\ q.stale = p.stale
      /\ q.problems = p.problems /\ q.active = p.active /\ q.layout = p.layout
  BY DEF Settled
<1> QED BY <1>1 DEF TypesFit

\* Documents of the types are taken out, trimmed and remembered.
LEMMA DocsTyped ==
  ASSUME NEW docs \in Seq(DocTypes), NEW D
  PROVE  /\ Others(docs, D) \in Seq(DocTypes) /\ Trim(docs, D) \in Seq(DocTypes)
         /\ ClassesOf(docs) \subseteq Classes
         /\ \A closed \in Seq(DocTypes) :
              LET new == LastTabs(closed \o Among(docs, D))
              IN new \in Seq(DocTypes) /\ Len(new) <= ClosedLimit
<1>0. Docs(docs) /\ ToSet(docs) \subseteq DocTypes
  BY OwnElements
<1>1. ASSUME NEW s, Docs(s), ToSet(s) \subseteq DocTypes
      PROVE  s \in Seq(DocTypes)
  BY <1>1 DEF Docs
<1>2. Docs(Others(docs, D)) /\ ToSet(Others(docs, D)) \subseteq ToSet(docs)
  BY <1>0, LooseAreOthers
<1>3. Docs(Trim(docs, D)) /\ ToSet(Trim(docs, D)) \subseteq ToSet(docs)
  BY <1>0, TrimKeeps
<1>4. ASSUME NEW closed \in Seq(DocTypes)
      PROVE  LET new == LastTabs(closed \o Among(docs, D))
             IN new \in Seq(DocTypes) /\ Len(new) <= ClosedLimit
  <2> DEFINE all == closed \o Among(docs, D)
             new == LastTabs(all)
  <2>1. Docs(closed) /\ ToSet(closed) \subseteq DocTypes
    BY OwnElements
  <2>2. Docs(new) /\ ToSet(new) \subseteq ToSet(closed) \cup ToSet(docs)
    BY <1>0, <2>1, TabsRemembered
  <2>3. new \in Seq(DocTypes)
    BY <1>0, <1>1, <2>1, <2>2
  <2>4. all \in Seq(DocTypes)
    <3>1. {i \in DOMAIN docs : docs[i].class \in D} \in SUBSET DOMAIN docs
      OBVIOUS
    <3>2. Docs(Among(docs, D)) /\ ToSet(Among(docs, D)) \subseteq ToSet(docs)
      BY <1>0, <3>1, PickedDocs DEF Among
    <3>3. Among(docs, D) \in Seq(DocTypes)
      BY <1>0, <1>1, <3>2
    <3> QED BY <3>3, ConcatProperties
  <2> HIDE DEF all
  <2>5. Len(new) <= ClosedLimit
    <3>1. Len(all) \in Nat /\ ClosedLimit \in Nat
      BY <2>4, DocumentsAssumption
    <3>2. CASE Len(all) <= ClosedLimit
      BY <3>2 DEF LastTabs
    <3>3. CASE ~(Len(all) <= ClosedLimit)
      <4> DEFINE first == Len(all) - ClosedLimit + 1
      <4>1. first \in Int /\ Len(all) \in Int /\ \A i \in first .. Len(all) : all[i] \in DocTypes
        BY <2>4, <3>1, <3>3
      <4>2. first <= Len(all) + 1 /\ Len(all) - first + 1 = ClosedLimit
        BY <3>1, <3>3
      <4>3. new = SubSeq(all, first, Len(all))
        BY <3>3 DEF LastTabs
      <4> HIDE DEF new
      <4>4. Len(new) = IF first <= Len(all) THEN Len(all) - first + 1 ELSE 0
        BY <4>1, <4>3, SubSeqProperties
      <4> QED BY <3>1, <4>2, <4>4
    <3> QED BY <3>2, <3>3
  <2> QED BY <2>3, <2>5 DEF all
<1>5. ClassesOf(docs) \subseteq Classes
  <2>1. \A doc \in DocTypes : doc.class \in Classes
    BY DEF DocTypes
  <2>2. \A i \in DOMAIN docs : docs[i] \in DocTypes
    OBVIOUS
  <2> QED BY <2>1, <2>2 DEF ClassesOf
<1> QED BY <1>0, <1>1, <1>2, <1>3, <1>4, <1>5

\* A document joins the cache, at its end, and the cache is trimmed.
LEMMA AppendTyped ==
  ASSUME NEW docs \in Seq(DocTypes), NEW doc \in DocTypes, NEW P
  PROVE  Trim(Append(Others(docs, {doc.class}), doc), P) \in Seq(DocTypes)
<1>1. Others(docs, {doc.class}) \in Seq(DocTypes)
  BY DocsTyped
<1>2. Append(Others(docs, {doc.class}), doc) \in Seq(DocTypes)
  BY <1>1
<1> QED BY <1>2, DocsTyped

\* Calls are cancelled and dropped, made, and go on to their next phase.
LEMMA CallsTyped ==
  ASSUME NEW p, TypesFit(p)
  PROVE  /\ \A session, id : TypesFit(CancelCall(p, session, id))
         /\ \A c : TypesFit(Drop(p, c))
         /\ TypesFit(NoPeek(p))
         /\ \A kind, d : p.session # 0 /\ (kind = "class" => d \in Classes)
                           => TypesFit(Issue(p, kind, d))
<1>0. DOMAIN p = Fields /\ \A c \in p.calls : CallTyped(c)
  BY DEF TypesFit
<1>1. ASSUME NEW session, NEW id PROVE TypesFit(CancelCall(p, session, id))
  <2> DEFINE named(c) == c.session = session /\ c.id = id
             mark(c) == IF named(c) THEN [c EXCEPT !.cancelled = TRUE] ELSE c
             q == CancelCall(p, session, id)
  <2>1. /\ DOMAIN q = Fields /\ q.calls = {mark(c) : c \in p.calls}
        /\ \A f \in Fields \ {"calls"} : q[f] = p[f]
    BY <1>0 DEF CancelCall, Fields
  <2>2. \A c \in p.calls : CallTyped(mark(c))
    BY <1>0 DEF CallTyped, CallFields
  <2> HIDE DEF q, mark
  <2>3. /\ \A f \in Settled : q[f] = p[f]
        /\ q.loading = p.loading /\ q.peek = p.peek
    BY <2>1 DEF Fields, Settled
  <2>4. TypesFit(q)
    <3>1. q.loading \in Classes \cup {Null} /\ q.peek \in Classes \cup {Null}
      BY <2>3 DEF TypesFit
    <3>2. \A c \in q.calls : CallTyped(c)
      BY <2>1, <2>2
    <3> QED BY <2>1, <2>3, <3>1, <3>2, Retyped
  <2> QED BY <2>4 DEF q
<1>2. ASSUME NEW c PROVE TypesFit(Drop(p, c))
  <2> DEFINE q == Drop(p, c)
  <2>1. /\ DOMAIN q = Fields /\ q.calls \subseteq p.calls
        /\ \A f \in Fields \ {"calls"} : q[f] = p[f]
    BY <1>0 DEF Drop, Fields
  <2> HIDE DEF q
  <2>2. /\ \A f \in Settled : q[f] = p[f]
        /\ q.loading = p.loading /\ q.peek = p.peek
    BY <2>1 DEF Fields, Settled
  <2>3. q.loading \in Classes \cup {Null} /\ q.peek \in Classes \cup {Null}
    BY <2>2 DEF TypesFit
  <2>4. TypesFit(q)
    BY <1>0, <2>1, <2>2, <2>3, Retyped
  <2> QED BY <2>4 DEF q
<1>3. TypesFit(NoPeek(p))
  <2> DEFINE q == NoPeek(p)
  <2>1. /\ DOMAIN q = Fields /\ q.calls = p.calls /\ q.loading = p.loading /\ q.peek = Null
        /\ \A f \in Settled : q[f] = p[f]
    BY <1>0 DEF NoPeek, Fields, Settled
  <2> HIDE DEF q
  <2>2. q.loading \in Classes \cup {Null} /\ q.peek \in Classes \cup {Null}
    BY <2>1 DEF TypesFit
  <2>3. TypesFit(q)
    BY <1>0, <2>1, <2>2, Retyped
  <2> QED BY <2>3 DEF q
<1>4. ASSUME NEW kind, NEW d, p.session # 0, kind = "class" => d \in Classes
      PROVE  TypesFit(Issue(p, kind, d))
  <2> DEFINE q == Issue(p, kind, d)
             c == Call(p, kind, d)
  <2>1. /\ DOMAIN q = Fields /\ q.calls = p.calls \cup {c} /\ q.loading = p.loading
        /\ q.peek = p.peek /\ \A f \in Settled : q[f] = p[f]
    BY <1>0 DEF Issue, Fields, Settled
  <2>2. /\ DOMAIN c = CallFields /\ c.kind = kind /\ c.class = d /\ c.session = p.session
        /\ c.language = p.preference
    BY DEF Call, CallFields
  <2> HIDE DEF q, c
  <2>3. p.session \in 1..MaxSessions /\ p.preference \in Preferences
    BY <1>4, DocumentsAssumption DEF TypesFit
  <2>4. CallTyped(c)
    BY <1>4, <2>2, <2>3 DEF CallTyped
  <2>5. q.loading \in Classes \cup {Null} /\ q.peek \in Classes \cup {Null}
    BY <2>1 DEF TypesFit
  <2>6. TypesFit(q)
    BY <1>0, <2>1, <2>4, <2>5, Retyped
  <2> QED BY <2>6 DEF q
<1> QED BY <1>1, <1>2, <1>3, <1>4

\* What is under way is stopped: a search for references, the loading.
LEMMA StopsTyped ==
  ASSUME NEW p, TypesFit(p)
  PROVE  /\ TypesFit(CancelReferences(p)) /\ CancelReferences(p).layout = p.layout
         /\ TypesFit(StopLoading(p))
<1>1. TypesFit(CancelReferences(p)) /\ CancelReferences(p).layout = p.layout
  <2> DEFINE s == p.search
             r == CancelCall(p, s.session, s.id)
             q == [r EXCEPT !.search = NoSearch]
             e == [q EXCEPT !.requestId = s.id + 1, !.references = NoReferences]
             all == CancelReferences(p)
  <2>1. all = p \/ all = q \/ all = e
    BY DEF CancelReferences
  <2>2. TypesFit(r)
    BY CallsTyped
  <2>3. DOMAIN r = Fields /\ r.layout = p.layout
    <3>1. DOMAIN p = Fields
      BY DEF TypesFit
    <3> QED BY <3>1 DEF CancelCall, Fields
  <2> HIDE DEF r, all
  <2>4. /\ DOMAIN q = Fields /\ q.calls = r.calls /\ q.loading = r.loading /\ q.peek = r.peek
        /\ \A f \in Settled : q[f] = r[f]
    BY <2>3 DEF Fields, Settled
  <2>5. /\ DOMAIN e = Fields /\ e.calls = r.calls /\ e.loading = r.loading /\ e.peek = r.peek
        /\ \A f \in Settled : e[f] = r[f]
    BY <2>3 DEF Fields, Settled
  <2> HIDE DEF q, e
  <2>6. /\ r.loading \in Classes \cup {Null} /\ r.peek \in Classes \cup {Null}
        /\ \A c \in r.calls : CallTyped(c)
    BY <2>2 DEF TypesFit
  <2>7. TypesFit(q) /\ TypesFit(e)
    BY <2>2, <2>4, <2>5, <2>6, Retyped
  <2>8. q.layout = p.layout /\ e.layout = p.layout
    BY <2>3, <2>4, <2>5 DEF Settled
  <2>9. TypesFit(all) /\ all.layout = p.layout
    BY <2>1, <2>7, <2>8
  <2> QED BY <2>9 DEF all
<1>2. TypesFit(StopLoading(p))
  <2> DEFINE r == CancelCall(p, p.session, p.requestId)
             q == [r EXCEPT !.requestId = @ + 1, !.loading = Null, !.peek = Null,
                            !.peeking = FALSE]
             all == StopLoading(p)
  <2>1. all = p \/ all = q
    BY DEF StopLoading
  <2>2. TypesFit(r)
    BY CallsTyped
  <2> HIDE DEF r, all
  <2>3. DOMAIN r = Fields /\ \A c \in r.calls : CallTyped(c)
    BY <2>2 DEF TypesFit
  <2>4. /\ DOMAIN q = Fields /\ q.calls = r.calls /\ q.loading = Null /\ q.peek = Null
        /\ \A f \in Settled : q[f] = r[f]
    BY <2>3 DEF Fields, Settled
  <2> HIDE DEF q
  <2>5. TypesFit(q)
    BY <2>2, <2>3, <2>4, Retyped
  <2> QED BY <2>1, <2>5 DEF all
<1> QED BY <1>1, <1>2

\* The layout, the active class and the cache change together.
LEMMA Relaid ==
  ASSUME NEW p, TypesFit(p), NEW q, DOMAIN q = Fields,
         \A f \in {"session", "lastSession", "opening", "preference", "loading", "peek",
                  "stale", "problems", "calls"} : q[f] = p[f],
         q.documents \in Seq(DocTypes), q.closedTabs \in Seq(DocTypes),
         Len(q.closedTabs) <= ClosedLimit, q.pinned \subseteq Classes,
         q.active \in Classes \cup {Null}, LayoutFits(q.layout, Classes)
  PROVE  TypesFit(q)
<1>1. /\ q.session = p.session /\ q.lastSession = p.lastSession /\ q.opening = p.opening
      /\ q.preference = p.preference /\ q.loading = p.loading /\ q.peek = p.peek
      /\ q.stale = p.stale /\ q.problems = p.problems /\ q.calls = p.calls
  OBVIOUS
<1> QED BY <1>1 DEF TypesFit

\* A class is selected in a group that is there.
LEMMA SelectTyped ==
  ASSUME NEW p0, TypesFit(p0), NEW d \in Classes, NEW group \in GroupsOf(p0.layout), NEW preview
  PROVE  TypesFit(Select(p0, d, group, preview))
<1> DEFINE p == CancelReferences(p0)
           shut == ReplacedPreview(p.layout, d, group, preview)
           opened == OpenTab(p.layout, d, group, preview)
           out == shut # Null /\ ~InLayout(opened, shut)
           n == NoPeek(p)
           q == [n EXCEPT !.layout = opened, !.active = d,
                          !.documents = IF out THEN Others(@, {shut}) ELSE @]
           cached == [q EXCEPT !.loading = Null]
           issued == Issue(q, "class", d)
           asked == [issued EXCEPT !.loading = d, !.overtaken = FALSE]
           selected == Select(p0, d, group, preview)
<1>1. \/ selected = p
      \/ selected = cached
      \/ p.session # 0 /\ selected = asked
  BY DEF Select
<1>2. TypesFit(p) /\ p.layout = p0.layout
  BY StopsTyped
<1>3. LayoutFits(opened, Classes)
  <2>1. LayoutFits(p.layout, Classes) /\ group \in GroupsOf(p.layout) /\ Null \notin Classes
    BY <1>2, DocumentsAssumption DEF TypesFit
  <2> HIDE DEF p
  <2> QED BY <2>1, OpenFits
<1>s. n.session = p.session
  BY <1>2 DEF NoPeek, TypesFit, Fields
<1> HIDE DEF p, selected
<1>4. TypesFit(n)
  BY <1>2, CallsTyped
<1> HIDE DEF n, opened, shut, out
<1>5. DOMAIN n = Fields /\ n.documents \in Seq(DocTypes)
  BY <1>4 DEF TypesFit
<1>6. /\ DOMAIN q = Fields /\ q.layout = opened /\ q.active = d
      /\ q.documents = n.documents \/ q.documents = Others(n.documents, {shut})
      /\ \A f \in Fields \ {"layout", "active", "documents"} : q[f] = n[f]
  BY <1>5 DEF Fields
<1> HIDE DEF q
<1>7. TypesFit(q)
  <2>1. q.documents \in Seq(DocTypes)
    BY <1>5, <1>6, DocsTyped
  <2>2. /\ q.session = n.session /\ q.lastSession = n.lastSession /\ q.opening = n.opening
        /\ q.preference = n.preference /\ q.closedTabs = n.closedTabs
        /\ q.pinned = n.pinned /\ q.stale = n.stale /\ q.problems = n.problems
        /\ q.loading = n.loading /\ q.peek = n.peek /\ q.calls = n.calls
    BY <1>6 DEF Fields
  <2> QED BY <1>3, <1>4, <1>6, <2>1, <2>2 DEF TypesFit
<1>8. DOMAIN q = Fields /\ q.peek \in Classes \cup {Null} /\ \A c \in q.calls : CallTyped(c)
  BY <1>7 DEF TypesFit
<1>9. TypesFit(cached)
  <2>1. /\ DOMAIN cached = Fields /\ cached.loading = Null /\ cached.peek = q.peek
        /\ cached.calls = q.calls /\ \A f \in Settled : cached[f] = q[f]
    BY <1>8 DEF Fields, Settled
  <2> HIDE DEF cached
  <2>2. cached.loading \in Classes \cup {Null}
    BY <2>1
  <2> QED BY <1>7, <1>8, <2>1, <2>2, Retyped
<1>10. p.session # 0 => TypesFit(asked)
  <2>1. p.session # 0 => q.session # 0
    BY <1>6, <1>s DEF Fields
  <2>2. p.session # 0 => TypesFit(issued)
    BY <1>7, <2>1, CallsTyped
  <2> HIDE DEF issued
  <2>3. TypesFit(issued) => /\ DOMAIN issued = Fields /\ issued.peek \in Classes \cup {Null}
                            /\ \A c \in issued.calls : CallTyped(c)
    BY DEF TypesFit
  <2>4. DOMAIN issued = Fields =>
          /\ DOMAIN asked = Fields /\ asked.loading = d /\ asked.peek = issued.peek
          /\ asked.calls = issued.calls /\ \A f \in Settled : asked[f] = issued[f]
    BY DEF Fields, Settled
  <2> HIDE DEF asked
  <2>5. TypesFit(issued) => asked.loading \in Classes \cup {Null}
    BY <2>3, <2>4
  <2> QED BY <2>2, <2>3, <2>4, <2>5, Retyped
<1> HIDE DEF cached, asked
<1>11. TypesFit(selected)
  BY <1>1, <1>2, <1>9, <1>10
<1> QED BY <1>11 DEF selected

\* The focused group shows d, if there is one to show.
LEMMA ReselectTyped ==
  ASSUME NEW p, TypesFit(p), NEW d \in Classes \cup {Null}
  PROVE  TypesFit(Reselect(p, d))
<1>1. p.layout.focused \in GroupsOf(p.layout)
  BY DEF TypesFit, LayoutFits
<1> QED BY <1>1, SelectTyped DEF Reselect

\* A call goes on to its next phase.
LEMMA PhaseTyped ==
  ASSUME NEW p, TypesFit(p), NEW c \in p.calls, NEW phase
  PROVE  TypesFit([Drop(p, c) EXCEPT !.calls = @ \cup {[c EXCEPT !.phase = phase]}])
<1> DEFINE n == [c EXCEPT !.phase = phase]
           r == Drop(p, c)
           q == [r EXCEPT !.calls = @ \cup {n}]
<1>1. CallTyped(n)
  BY DEF TypesFit, CallTyped, CallFields
<1>2. TypesFit(r)
  BY CallsTyped
<1> HIDE DEF r, n
<1>3. /\ DOMAIN r = Fields /\ r.loading \in Classes \cup {Null} /\ r.peek \in Classes \cup {Null}
      /\ \A b \in r.calls : CallTyped(b)
  BY <1>2 DEF TypesFit
<1>4. /\ DOMAIN q = Fields /\ q.calls = r.calls \cup {n} /\ q.loading = r.loading
      /\ q.peek = r.peek /\ \A f \in Settled : q[f] = r[f]
  BY <1>3 DEF Fields, Settled
<1> HIDE DEF q
<1>5. TypesFit(q)
  BY <1>1, <1>2, <1>3, <1>4, Retyped
<1> QED BY <1>5 DEF q, r, n

\* The answer to a class, whatever becomes of it.
LEMMA ClassTyped ==
  ASSUME NEW p, TypesFit(p), NEW c \in p.calls, c.kind = "class"
  PROVE  TypesFit(Answered(p, c)) /\ TypesFit(Presented(p, c)) /\ TypesFit(Failed(p, c))
<1>1. c.class \in Classes /\ c.session \in 1..MaxSessions /\ c.language \in Preferences
  BY DEF TypesFit, CallTyped
<1> DEFINE r == Drop(p, c)
<1>2. TypesFit(r)
  BY CallsTyped
<1>3. /\ DOMAIN r = Fields /\ r.peek \in Classes \cup {Null}
      /\ \A b \in r.calls : CallTyped(b)
  BY <1>2 DEF TypesFit
<1>4. TypesFit(Answered(p, c))
  <2>1. TypesFit([Drop(p, c) EXCEPT !.calls = @ \cup {[c EXCEPT !.phase = "present"]}])
    BY PhaseTyped
  <2>2. TypesFit(Reselect(r, c.class))
    BY <1>1, <1>2, ReselectTyped
  <2> QED BY <1>2, <2>1, <2>2 DEF Answered
<1>5. TypesFit(Presented(p, c))
  <2> DEFINE doc == Document(c)
             docs == Trim(Append(Others(p.documents, {c.class}), doc), p.pinned)
             q == [r EXCEPT !.documents = docs, !.untrimmed = {},
                            !.layout = RetainTabs(@, ClassesOf(docs)),
                            !.loading = Null,
                            !.detected[c.class] = IF c.language = "auto" THEN doc.language ELSE @,
                            !.stale = @ \ {c.class}]
  <2>1. Presented(p, c) = r \/ Presented(p, c) = q
    BY DEF Presented
  <2>2. doc \in DocTypes /\ doc.class = c.class
    <3>1. /\ c.language # "auto" => c.language \in {"java", "kotlin"}
          /\ Written[c.class] \in {"java", "kotlin"}
      BY <1>1, DocumentsAssumption
    <3> QED BY <1>1, <3>1 DEF Document, DocTypes
  <2>3. docs \in Seq(DocTypes)
    <3>1. p.documents \in Seq(DocTypes)
      BY DEF TypesFit
    <3> HIDE DEF doc
    <3> QED BY <2>2, <3>1, AppendTyped
  <2> HIDE DEF docs, r
  <2>4. /\ DOMAIN q = Fields /\ q.documents = docs /\ q.loading = Null
        /\ q.layout = RetainTabs(r.layout, ClassesOf(docs)) /\ q.stale \subseteq r.stale
        /\ q.session = r.session /\ q.lastSession = r.lastSession /\ q.opening = r.opening
        /\ q.preference = r.preference /\ q.closedTabs = r.closedTabs
        /\ q.pinned = r.pinned /\ q.problems = r.problems /\ q.active = r.active
        /\ q.peek = r.peek /\ q.calls = r.calls
    BY <1>3 DEF Fields
  <2> HIDE DEF q
  <2>5. LayoutFits(q.layout, Classes)
    BY <1>2, <2>4, RetainFits, DocumentsAssumption DEF TypesFit
  <2>6. TypesFit(q)
    BY <1>2, <2>3, <2>4, <2>5 DEF TypesFit
  <2> QED BY <1>2, <2>1, <2>6
<1>6. TypesFit(Failed(p, c))
  <2> DEFINE stopped == [r EXCEPT !.loading = Null]
             told == [stopped EXCEPT !.problems = @ \cup {c.class}]
  <2>1. \/ Failed(p, c) = r \/ Failed(p, c) = stopped \/ Failed(p, c) = told
        \/ Failed(p, c) = Reselect(stopped, c.class)
    BY DEF Failed
  <2> HIDE DEF r
  <2>2. /\ DOMAIN stopped = Fields /\ stopped.loading = Null /\ stopped.peek = r.peek
        /\ stopped.calls = r.calls /\ \A f \in Settled : stopped[f] = r[f]
    BY <1>3 DEF Fields, Settled
  <2> HIDE DEF stopped
  <2>3. TypesFit(stopped)
    BY <1>2, <1>3, <2>2, Retyped
  <2>4. /\ DOMAIN told = Fields /\ told.problems = stopped.problems \cup {c.class}
        /\ \A f \in Fields \ {"problems"} : told[f] = stopped[f]
    BY <2>2 DEF Fields
  <2> HIDE DEF told
  <2>5. /\ told.session = stopped.session /\ told.lastSession = stopped.lastSession
        /\ told.opening = stopped.opening /\ told.preference = stopped.preference
        /\ told.documents = stopped.documents /\ told.closedTabs = stopped.closedTabs
        /\ told.pinned = stopped.pinned /\ told.stale = stopped.stale
        /\ told.active = stopped.active /\ told.layout = stopped.layout
        /\ told.loading = stopped.loading /\ told.peek = stopped.peek
        /\ told.calls = stopped.calls
    BY <2>4 DEF Fields
  <2>6. TypesFit(told)
    BY <1>1, <2>3, <2>4, <2>5 DEF TypesFit
  <2>7. TypesFit(Reselect(stopped, c.class))
    BY <1>1, <2>3, ReselectTyped
  <2> QED BY <1>2, <2>1, <2>3, <2>6, <2>7
<1> QED BY <1>4, <1>5, <1>6

\* Neither the peek view nor the panel of references matters to the types.
LEMMA AsideTyped ==
  ASSUME NEW p, TypesFit(p), NEW q, DOMAIN q = Fields,
         \A f \in Fields \ {"peeking", "references", "search", "requestId", "overtaken"} :
           q[f] = p[f]
  PROVE  TypesFit(q)
<1>1. \A f \in Settled : q[f] = p[f]
  BY DEF Settled, Fields
<1>2. q.loading = p.loading /\ q.peek = p.peek /\ q.calls = p.calls
  BY DEF Fields
<1>3. /\ q.loading \in Classes \cup {Null} /\ q.peek \in Classes \cup {Null}
      /\ \A c \in q.calls : CallTyped(c)
  BY <1>2 DEF TypesFit
<1> QED BY <1>1, <1>3, Retyped

\* The answers of a search.
LEMMA FoundTyped ==
  ASSUME NEW p, TypesFit(p), NEW c \in p.calls
  PROVE  TypesFit(ReferencesFound(p, c)) /\ TypesFit(ReferencesFail(p, c))
<1> DEFINE r == Drop(p, c)
<1>1. TypesFit(r)
  BY CallsTyped
<1> HIDE DEF r
<1>2. TypesFit(Abandon(r, c))
  BY <1>1, StopsTyped DEF Abandon
<1>3. DOMAIN r = Fields
  BY <1>1 DEF TypesFit
<1>4. TypesFit(Finish(r, c))
  <2> DEFINE q == [r EXCEPT !.search = NoSearch]
  <2>1. DOMAIN q = Fields /\ \A f \in Fields \ {"search"} : q[f] = r[f]
    BY <1>3 DEF Fields
  <2>2. Finish(r, c) = r \/ Finish(r, c) = q
    BY DEF Finish
  <2> HIDE DEF q
  <2>3. TypesFit(q)
    BY <1>1, <2>1, AsideTyped
  <2> QED BY <1>1, <2>2, <2>3
<1>5. \A state : TypesFit(InPanel(r, c, state))
  <2> SUFFICES ASSUME NEW state PROVE TypesFit(InPanel(r, c, state))
    OBVIOUS
  <2> DEFINE n == Finish(r, c)
             q == [n EXCEPT !.references.state = state, !.references.of = c.id]
  <2>1. InPanel(r, c, state) = q
    BY DEF InPanel
  <2>2. DOMAIN n = Fields
    BY <1>4 DEF TypesFit
  <2> HIDE DEF n
  <2>3. DOMAIN q = Fields /\ \A f \in Fields \ {"references"} : q[f] = n[f]
    BY <2>2 DEF Fields
  <2> HIDE DEF q
  <2>4. TypesFit(n)
    BY <1>4 DEF n
  <2>5. TypesFit(q)
    BY <2>3, <2>4, AsideTyped
  <2> QED BY <2>1, <2>5
<1>6. TypesFit([Drop(p, c) EXCEPT !.calls = @ \cup {[c EXCEPT !.phase = "fetch"]}])
  BY PhaseTyped
<1>7. TypesFit(ReferencesFound(p, c))
  BY <1>2, <1>5, <1>6 DEF ReferencesFound, r
<1>8. TypesFit(ReferencesFail(p, c))
  BY <1>2, <1>4, <1>5 DEF ReferencesFail, r
<1> QED BY <1>7, <1>8

\* So every answer keeps the types.
LEMMA ReturnsTyped ==
  ASSUME TypesFit(page), NEW c \in page.calls,
         ClassReturns(c) \/ PeekReturns(c) \/ ReferencesReturn(c)
  PROVE  TypesFit(page')
<1>1. CASE ClassReturns(c)
  BY <1>1, ClassTyped DEF ClassReturns
<1>2. CASE PeekReturns(c)
  <2> DEFINE q == Drop(page, c)
             ready == [q EXCEPT !.peeking = FALSE]
  <2>1. page' = q \/ page' = ready
    BY <1>2 DEF PeekReturns
  <2>2. TypesFit(q)
    BY CallsTyped
  <2> HIDE DEF q
  <2>3. DOMAIN q = Fields
    BY <2>2 DEF TypesFit
  <2>4. DOMAIN ready = Fields /\ \A f \in Fields \ {"peeking"} : ready[f] = q[f]
    BY <2>3 DEF Fields
  <2> HIDE DEF ready
  <2>5. TypesFit(ready)
    BY <2>2, <2>4, AsideTyped
  <2> QED BY <2>1, <2>2, <2>5
<1>3. CASE ReferencesReturn(c)
  BY <1>3, FoundTyped DEF ReferencesReturn
<1> QED BY <1>1, <1>2, <1>3

\* The page at the start, and of an archive that is shown or closed.
LEMMA InitTyped ==
  ASSUME DocumentsInit
  PROVE  TypesFit(page)
<1> DEFINE none == <<>>
<1>1. /\ DOMAIN page = Fields /\ page.session = 1 /\ page.lastSession = 1
      /\ page.opening = FALSE /\ page.preference = "java" /\ page.documents = none
      /\ page.closedTabs = none /\ page.pinned = {} /\ page.stale = {} /\ page.problems = {}
      /\ page.active = Null /\ page.loading = Null /\ page.peek = Null /\ page.calls = {}
      /\ page.layout = EmptyLayout
  BY DEF DocumentsInit, Fields
<1>2. none \in Seq(DocTypes) /\ Len(none) = 0
  OBVIOUS
<1> HIDE DEF none
<1>3. LayoutFits(page.layout, Classes)
  BY <1>1, EmptyFits
<1>4. Len(none) <= ClosedLimit /\ 1 \in 0..MaxSessions /\ "java" \in Preferences
  BY <1>2, DocumentsAssumption
<1> QED BY <1>1, <1>2, <1>3, <1>4 DEF TypesFit

\* The workspace of an archive that was just opened, or of none.
LEMMA FreshTyped ==
  ASSUME NEW p, TypesFit(p), NEW session \in 0..MaxSessions, NEW requestId
  PROVE  LET q == Fresh(p, session, requestId)
         IN TypesFit(q) /\ q.lastSession = p.lastSession
<1> DEFINE none == <<>>
           q == Fresh(p, session, requestId)
<1>1. DOMAIN p = Fields
  BY DEF TypesFit
<1>2. /\ DOMAIN q = Fields /\ q.session = session /\ q.lastSession = p.lastSession
      /\ q.opening = p.opening /\ q.preference = p.preference /\ q.documents = none
      /\ q.closedTabs = none /\ q.pinned = {} /\ q.stale = p.stale /\ q.problems = {}
      /\ q.active = Null /\ q.loading = Null /\ q.peek = Null /\ q.calls = p.calls
      /\ q.layout = EmptyLayout
  BY <1>1 DEF Fresh, Fields
<1>3. none \in Seq(DocTypes) /\ Len(none) = 0
  OBVIOUS
<1> HIDE DEF none, q
<1>4. LayoutFits(q.layout, Classes)
  BY <1>2, EmptyFits
<1>5. Len(none) <= ClosedLimit
  BY <1>3, DocumentsAssumption
<1>6. TypesFit(q)
  BY <1>2, <1>3, <1>4, <1>5 DEF TypesFit
<1> QED BY <1>2, <1>6 DEF q

\* Archives open, fail to open and close.
LEMMA ArchiveTyped ==
  ASSUME TypesFit(page), ArchiveOpened \/ OpeningFails \/ StartOpening \/ CloseArchive
  PROVE  TypesFit(page')
<1>0. DOMAIN page = Fields /\ page.lastSession \in 0..MaxSessions /\ MaxSessions \in Nat \ {0}
  BY DocumentsAssumption DEF TypesFit
\* only the sessions, opening and stale may change
<1>1. ASSUME NEW p, TypesFit(p), NEW q, DOMAIN q = Fields,
             q.lastSession \in 0..MaxSessions, q.opening => q.lastSession < MaxSessions,
             q.stale \subseteq Classes,
             \A f \in Fields \ {"lastSession", "opening", "stale"} : q[f] = p[f]
      PROVE  TypesFit(q)
  <2>1. /\ q.session = p.session /\ q.preference = p.preference
        /\ q.documents = p.documents /\ q.closedTabs = p.closedTabs
        /\ q.pinned = p.pinned /\ q.problems = p.problems /\ q.active = p.active
        /\ q.layout = p.layout /\ q.loading = p.loading /\ q.peek = p.peek
        /\ q.calls = p.calls
    BY <1>1 DEF Fields
  <2> QED BY <1>1, <2>1 DEF TypesFit
<1>2. CASE ArchiveOpened
  <2> DEFINE f == Fresh(page, page.lastSession + 1, 0)
             q == [f EXCEPT !.lastSession = @ + 1, !.opening = FALSE]
  <2>1. page' = q /\ page.opening
    BY <1>2 DEF ArchiveOpened
  <2>2. page.lastSession < MaxSessions /\ page.lastSession + 1 \in 0..MaxSessions
    <3>1. page.lastSession < MaxSessions
      BY <2>1 DEF TypesFit
    <3> QED BY <1>0, <3>1
  <2>3. TypesFit(f) /\ f.lastSession = page.lastSession
    BY <2>2, FreshTyped
  <2> HIDE DEF f
  <2>4. DOMAIN f = Fields /\ f.stale \subseteq Classes
    BY <2>3 DEF TypesFit
  <2>5. /\ DOMAIN q = Fields /\ q.lastSession = f.lastSession + 1 /\ q.opening = FALSE
        /\ q.stale = f.stale
        /\ \A x \in Fields \ {"lastSession", "opening", "stale"} : q[x] = f[x]
    BY <2>4 DEF Fields
  <2> HIDE DEF q
  <2>6. TypesFit(q)
    BY <1>1, <2>2, <2>3, <2>4, <2>5
  <2> QED BY <2>1, <2>6
<1>3. CASE OpeningFails
  <2> DEFINE q == [page EXCEPT !.opening = FALSE]
  <2>1. page' = q
    BY <1>3 DEF OpeningFails
  <2>2. /\ DOMAIN q = Fields /\ q.lastSession = page.lastSession /\ q.opening = FALSE
        /\ q.stale = page.stale
        /\ \A x \in Fields \ {"lastSession", "opening", "stale"} : q[x] = page[x]
    BY <1>0 DEF Fields
  <2> HIDE DEF q
  <2>3. page.stale \subseteq Classes
    BY DEF TypesFit
  <2>4. TypesFit(q)
    BY <1>0, <1>1, <2>2, <2>3
  <2> QED BY <2>1, <2>4
<1>4. CASE StartOpening
  <2> DEFINE s == StopLoading(page)
             r == CancelReferences(s)
             q == [r EXCEPT !.opening = TRUE]
  <2>1. page' = q /\ page.lastSession < MaxSessions
    BY <1>4 DEF StartOpening, Act
  <2>2. TypesFit(s)
    BY StopsTyped
  <2>3. s.lastSession = page.lastSession
    BY <1>0 DEF StopLoading, CancelCall, Fields
  <2> HIDE DEF s
  <2>4. TypesFit(r)
    BY <2>2, StopsTyped
  <2>5. r.lastSession = s.lastSession
    <3>1. DOMAIN s = Fields
      BY <2>2 DEF TypesFit
    <3> QED BY <3>1 DEF CancelReferences, CancelCall, Fields
  <2> HIDE DEF r
  <2>6. DOMAIN r = Fields /\ r.stale \subseteq Classes /\ r.lastSession \in 0..MaxSessions
    BY <2>4 DEF TypesFit
  <2>7. /\ DOMAIN q = Fields /\ q.lastSession = r.lastSession /\ q.stale = r.stale
        /\ \A x \in Fields \ {"lastSession", "opening", "stale"} : q[x] = r[x]
    BY <2>6 DEF Fields
  <2> HIDE DEF q
  <2>8. TypesFit(q)
    BY <1>1, <2>1, <2>3, <2>4, <2>5, <2>6, <2>7
  <2> QED BY <2>1, <2>8
<1>5. CASE CloseArchive
  <2> DEFINE r == CancelReferences(page)
             f == Fresh(r, 0, page.requestId + 1)
             q == [f EXCEPT !.stale = {}]
  <2>1. page' = q
    BY <1>5 DEF CloseArchive, Act
  <2>2. TypesFit(r)
    BY StopsTyped
  <2> HIDE DEF r
  <2>3. TypesFit(f)
    <3>1. 0 \in 0..MaxSessions
      BY <1>0
    <3> QED BY <2>2, <3>1, FreshTyped
  <2> HIDE DEF f
  <2>4. /\ DOMAIN f = Fields /\ f.lastSession \in 0..MaxSessions
        /\ f.opening => f.lastSession < MaxSessions
    BY <2>3 DEF TypesFit
  <2>5. /\ DOMAIN q = Fields /\ q.lastSession = f.lastSession /\ q.opening = f.opening
        /\ q.stale = {}
        /\ \A x \in Fields \ {"lastSession", "opening", "stale"} : q[x] = f[x]
    BY <2>4 DEF Fields
  <2> HIDE DEF q
  <2>6. TypesFit(q)
    BY <1>1, <2>3, <2>4, <2>5
  <2> QED BY <2>1, <2>6
<1> QED BY <1>2, <1>3, <1>4, <1>5

\* Settings, and the class that is selected.
LEMMA SettingsTyped ==
  ASSUME TypesFit(page),
         \/ SetDecompileOptions
         \/ \E l \in Preferences : SetSourceLanguage(l)
         \/ \E d \in Classes, g \in GroupsOf(page.layout) : \E preview : SelectClass(d, g, preview)
  PROVE  TypesFit(page')
<1>0. DOMAIN page = Fields
  BY DEF TypesFit
<1>1. CASE SetDecompileOptions
  <2> DEFINE r == [page EXCEPT !.loading = Null, !.stale = ClassesOf(page.documents)]
             q == NoPeek(r)
  <2>1. page' = Reselect(q, q.active)
    BY <1>1 DEF SetDecompileOptions, Act
  <2>2. ClassesOf(page.documents) \subseteq Classes
    BY DocsTyped DEF TypesFit
  <2>3. /\ DOMAIN r = Fields /\ r.loading = Null /\ r.stale = ClassesOf(page.documents)
        /\ r.session = page.session /\ r.lastSession = page.lastSession
        /\ r.opening = page.opening /\ r.preference = page.preference
        /\ r.documents = page.documents /\ r.closedTabs = page.closedTabs
        /\ r.pinned = page.pinned /\ r.problems = page.problems /\ r.active = page.active
        /\ r.layout = page.layout /\ r.peek = page.peek /\ r.calls = page.calls
    BY <1>0 DEF Fields
  <2> HIDE DEF r
  <2>4. TypesFit(r)
    BY <2>2, <2>3 DEF TypesFit
  <2>5. TypesFit(q)
    BY <2>4, CallsTyped
  <2> HIDE DEF q
  <2>6. q.active \in Classes \cup {Null}
    BY <2>5 DEF TypesFit
  <2> QED BY <2>1, <2>5, <2>6, ReselectTyped
<1>2. ASSUME NEW l \in Preferences, SetSourceLanguage(l) PROVE TypesFit(page')
  <2> DEFINE r == [page EXCEPT !.preference = l, !.loading = Null]
             q == NoPeek(r)
  <2>1. page' = Reselect(q, q.active)
    BY <1>2 DEF SetSourceLanguage, Act
  <2>3. /\ DOMAIN r = Fields /\ r.loading = Null /\ r.preference = l
        /\ r.session = page.session /\ r.lastSession = page.lastSession
        /\ r.opening = page.opening /\ r.stale = page.stale
        /\ r.documents = page.documents /\ r.closedTabs = page.closedTabs
        /\ r.pinned = page.pinned /\ r.problems = page.problems /\ r.active = page.active
        /\ r.layout = page.layout /\ r.peek = page.peek /\ r.calls = page.calls
    BY <1>0 DEF Fields
  <2> HIDE DEF r
  <2>4. TypesFit(r)
    BY <2>3 DEF TypesFit
  <2>5. TypesFit(q)
    BY <2>4, CallsTyped
  <2> HIDE DEF q
  <2>6. q.active \in Classes \cup {Null}
    BY <2>5 DEF TypesFit
  <2> QED BY <2>1, <2>5, <2>6, ReselectTyped
<1>3. ASSUME NEW d \in Classes, NEW g \in GroupsOf(page.layout), NEW preview,
             SelectClass(d, g, preview)
      PROVE  TypesFit(page')
  BY <1>3, SelectTyped DEF SelectClass, Act
<1> QED BY <1>1, <1>2, <1>3

\* The peek view and the panel.
LEMMA PanelsTyped ==
  ASSUME TypesFit(page),
         ClosePeek \/ FindReferences \/ CloseReferences \/ \E d : OpenPeek(d)
  PROVE  TypesFit(page')
<1>0. DOMAIN page = Fields
  BY DEF TypesFit
<1>1. CASE ClosePeek
  <2> DEFINE c == CancelCall(page, page.session, page.requestId)
             r == NoPeek(c)
             q == [r EXCEPT !.requestId = @ + 1, !.overtaken = @ \/ page.loading # Null]
  <2>1. page' = q \/ page' = NoPeek(page)
    BY <1>1 DEF ClosePeek, Act
  <2>2. TypesFit(c)
    BY CallsTyped
  <2> HIDE DEF c
  <2>3. TypesFit(r) /\ TypesFit(NoPeek(page))
    BY <2>2, CallsTyped
  <2> HIDE DEF r
  <2>4. DOMAIN r = Fields
    BY <2>3 DEF TypesFit
  <2>5. DOMAIN q = Fields /\ \A f \in Fields \ {"requestId", "overtaken"} : q[f] = r[f]
    BY <2>4 DEF Fields
  <2> HIDE DEF q
  <2>6. TypesFit(q)
    BY <2>3, <2>5, AsideTyped
  <2> QED BY <2>1, <2>3, <2>6
<1>2. CASE FindReferences
  <2> DEFINE r == StopLoading(CancelReferences(page))
             c == [Call(r, "references", Null) EXCEPT
                     !.phase = "resolve", !.sequence = r.references.sequence + 1]
             n == NoPeek(r)
             q == [n EXCEPT !.requestId = c.id, !.calls = @ \cup {c}, !.search = Searching(c),
                     !.references = [sequence |-> c.sequence, state |-> "loading",
                                     asked |-> c.id, of |-> 0]]
  <2>1. page' = q
    BY <1>2 DEF FindReferences, Act
  <2>2. TypesFit(r)
    BY StopsTyped
  <2>3. CallTyped(c)
    BY DEF CallTyped, Call, CallFields
  <2> HIDE DEF c, r
  <2>4. TypesFit(n)
    BY <2>2, CallsTyped
  <2> HIDE DEF n
  <2>5. /\ DOMAIN n = Fields /\ n.loading \in Classes \cup {Null}
        /\ n.peek \in Classes \cup {Null} /\ \A b \in n.calls : CallTyped(b)
    BY <2>4 DEF TypesFit
  <2>6. /\ DOMAIN q = Fields /\ q.calls = n.calls \cup {c} /\ q.loading = n.loading
        /\ q.peek = n.peek /\ \A f \in Settled : q[f] = n[f]
    BY <2>5 DEF Fields, Settled
  <2> HIDE DEF q
  <2>7. TypesFit(q)
    BY <2>3, <2>4, <2>5, <2>6, Retyped
  <2> QED BY <2>1, <2>7
<1>3. CASE CloseReferences
  <2> DEFINE r == CancelReferences(page)
             q == [r EXCEPT !.references = NoReferences]
  <2>1. page' = q
    BY <1>3 DEF CloseReferences, Act
  <2>2. TypesFit(r)
    BY StopsTyped
  <2> HIDE DEF r
  <2>3. DOMAIN r = Fields
    BY <2>2 DEF TypesFit
  <2>4. DOMAIN q = Fields /\ \A f \in Fields \ {"references"} : q[f] = r[f]
    BY <2>3 DEF Fields
  <2> HIDE DEF q
  <2>5. TypesFit(q)
    BY <2>2, <2>4, AsideTyped
  <2> QED BY <2>1, <2>5
<1>4. ASSUME NEW d, OpenPeek(d) PROVE TypesFit(page')
  <2> DEFINE r == Issue(page, "peek", d)
             q == [r EXCEPT !.peek = d, !.peeking = TRUE, !.overtaken = @ \/ page.loading # Null]
  <2>1. page' = q /\ page.session # 0 /\ d \in ClassesOf(page.documents)
    BY <1>4 DEF OpenPeek, Act
  <2>2. TypesFit(r)
    BY <2>1, CallsTyped
  <2>3. d \in Classes
    BY <2>1, DocsTyped DEF TypesFit
  <2> HIDE DEF r
  <2>4. /\ DOMAIN r = Fields /\ r.loading \in Classes \cup {Null}
        /\ \A b \in r.calls : CallTyped(b)
    BY <2>2 DEF TypesFit
  <2>5. /\ DOMAIN q = Fields /\ q.calls = r.calls /\ q.loading = r.loading
        /\ q.peek = d /\ \A f \in Settled : q[f] = r[f]
    BY <2>4 DEF Fields, Settled
  <2> HIDE DEF q
  <2>6. TypesFit(q)
    BY <2>2, <2>3, <2>4, <2>5, Retyped
  <2> QED BY <2>1, <2>6
<1> QED BY <1>1, <1>2, <1>3, <1>4

\* The tab that is active is of a class of the archive, if there is any.
LEMMA ActiveTyped ==
  ASSUME NEW L, LayoutFits(L, Classes)
  PROVE  ActiveTab(L) \in Classes \cup {Null}
BY LayoutIsWellFormed, DocumentsAssumption DEF ActiveTab, LayoutFits

\* Tabs are closed, and classes pinned and peeked at.
LEMMA ClosingTyped ==
  ASSUME NEW p, TypesFit(p)
  PROVE  /\ \A g, D : TypesFit(CloseTabs(p, g, D))
         /\ TypesFit(PinnedInLayout(p)) /\ TypesFit(PeekInLayout(p))
<1>0. /\ DOMAIN p = Fields /\ LayoutFits(p.layout, Classes) /\ Null \notin Classes
      /\ p.documents \in Seq(DocTypes) /\ p.closedTabs \in Seq(DocTypes)
      /\ p.pinned \subseteq Classes /\ p.active \in Classes \cup {Null}
      /\ Len(p.closedTabs) <= ClosedLimit
  BY DocumentsAssumption DEF TypesFit
<1>1. ASSUME NEW g, NEW D PROVE TypesFit(CloseTabs(p, g, D))
  <2> DEFINE L == RemoveTabs(p.layout, g, D)
             gone == {d \in D : ~InLayout(L, d)}
             q == [p EXCEPT !.layout = L, !.active = ActiveTab(L),
                            !.closedTabs = LastTabs(@ \o Among(p.documents, D)),
                            !.documents = Others(@, gone)]
  <2>1. CloseTabs(p, g, D) = q
    BY DEF CloseTabs
  <2>2. LayoutFits(L, Classes)
    BY <1>0, RemoveFits
  <2> HIDE DEF L, gone
  <2>3. /\ DOMAIN q = Fields /\ q.layout = L /\ q.active = ActiveTab(L) /\ q.pinned = p.pinned
        /\ q.documents = Others(p.documents, gone)
        /\ q.closedTabs = LastTabs(p.closedTabs \o Among(p.documents, D))
        /\ \A f \in {"session", "lastSession", "opening", "preference", "loading", "peek",
                     "stale", "problems", "calls"} : q[f] = p[f]
    BY <1>0 DEF Fields
  <2> HIDE DEF q
  <2>4. q.documents \in Seq(DocTypes) /\ q.closedTabs \in Seq(DocTypes)
        /\ Len(q.closedTabs) <= ClosedLimit
    BY <1>0, <2>3, DocsTyped
  <2>5. TypesFit(q)
    BY <1>0, <2>2, <2>3, <2>4, ActiveTyped, Relaid
  <2> QED BY <2>1, <2>5
<1>2. TypesFit(PinnedInLayout(p))
  <2> DEFINE kept == {d \in p.pinned : InLayout(p.layout, d)}
             q == [p EXCEPT !.pinned = kept, !.untrimmed = @ \cup (p.pinned \ kept)]
  <2>1. PinnedInLayout(p) = q
    BY DEF PinnedInLayout
  <2>2. kept \subseteq p.pinned
    OBVIOUS
  <2> HIDE DEF kept
  <2>3. /\ DOMAIN q = Fields /\ q.layout = p.layout /\ q.active = p.active /\ q.pinned = kept
        /\ q.documents = p.documents /\ q.closedTabs = p.closedTabs
        /\ \A f \in {"session", "lastSession", "opening", "preference", "loading", "peek",
                     "stale", "problems", "calls"} : q[f] = p[f]
    BY <1>0 DEF Fields
  <2> HIDE DEF q
  <2>4. TypesFit(q)
    BY <1>0, <2>2, <2>3, Relaid
  <2> QED BY <2>1, <2>4
<1>3. TypesFit(PeekInLayout(p))
  BY CallsTyped DEF PeekInLayout
<1> QED BY <1>1, <1>2, <1>3

\* The handlers that close tabs and groups.
LEMMA ClosesTyped ==
  ASSUME TypesFit(page),
         \/ \E d, g : \/ CloseDocument(d, g) \/ CloseOtherDocuments(d, g)
                      \/ CloseDocumentsToRight(d, g)
         \/ \E g : CloseAllDocuments(g) \/ CloseEditorGroup(g)
  PROVE  TypesFit(page')
<1>0. /\ DOMAIN page = Fields /\ LayoutFits(page.layout, Classes) /\ Null \notin Classes
      /\ page.documents \in Seq(DocTypes) /\ page.closedTabs \in Seq(DocTypes)
      /\ page.pinned \subseteq Classes
  BY DocumentsAssumption DEF TypesFit
<1>1. ASSUME NEW d, NEW g, CloseDocument(d, g) PROVE TypesFit(page')
  <2> DEFINE L == CloseTab(page.layout, g, d)
             q == [page EXCEPT !.layout = L, !.active = ActiveTab(L),
                               !.closedTabs = LastTabs(@ \o Among(page.documents, {d}))]
             n == IF q.peek = d THEN NoPeek(q) ELSE q
             r == [n EXCEPT !.documents = Others(@, {d}), !.pinned = @ \ {d}]
  <2>1. page' = q \/ page' = r
    BY <1>1 DEF CloseDocument, Act
  <2>2. LayoutFits(L, Classes)
    BY <1>0, CloseTabFits
  <2> HIDE DEF L
  <2>3. /\ DOMAIN q = Fields /\ q.layout = L /\ q.active = ActiveTab(L)
        /\ q.pinned = page.pinned /\ q.documents = page.documents
        /\ q.closedTabs = LastTabs(page.closedTabs \o Among(page.documents, {d}))
        /\ \A f \in {"session", "lastSession", "opening", "preference", "loading", "peek",
                     "stale", "problems", "calls"} : q[f] = page[f]
    BY <1>0 DEF Fields
  <2> HIDE DEF q
  <2>4. q.closedTabs \in Seq(DocTypes) /\ Len(q.closedTabs) <= ClosedLimit
    BY <1>0, <2>3, DocsTyped
  <2>5. TypesFit(q)
    BY <1>0, <2>2, <2>3, <2>4, ActiveTyped, Relaid
  <2>6. TypesFit(n)
    BY <2>5, CallsTyped
  <2> HIDE DEF n
  <2>7. /\ DOMAIN n = Fields /\ n.documents \in Seq(DocTypes) /\ n.closedTabs \in Seq(DocTypes)
        /\ Len(n.closedTabs) <= ClosedLimit /\ n.pinned \subseteq Classes
        /\ n.active \in Classes \cup {Null} /\ LayoutFits(n.layout, Classes)
    BY <2>6 DEF TypesFit
  <2>8. /\ DOMAIN r = Fields /\ r.layout = n.layout /\ r.active = n.active
        /\ r.pinned = n.pinned \ {d} /\ r.documents = Others(n.documents, {d})
        /\ r.closedTabs = n.closedTabs
        /\ \A f \in {"session", "lastSession", "opening", "preference", "loading", "peek",
                     "stale", "problems", "calls"} : r[f] = n[f]
    BY <2>7 DEF Fields
  <2> HIDE DEF r
  <2>9. r.documents \in Seq(DocTypes) /\ r.pinned \subseteq Classes
    BY <2>7, <2>8, DocsTyped
  <2>10. TypesFit(r)
    BY <2>6, <2>7, <2>8, <2>9, Relaid
  <2> QED BY <2>1, <2>5, <2>10
<1>2. ASSUME NEW d, NEW g, CloseOtherDocuments(d, g) PROVE TypesFit(page')
  BY <1>2, ClosingTyped DEF CloseOtherDocuments, Act
<1>3. ASSUME NEW d, NEW g, CloseDocumentsToRight(d, g) PROVE TypesFit(page')
  BY <1>3, ClosingTyped DEF CloseDocumentsToRight, Act
<1>4. ASSUME NEW g, CloseAllDocuments(g) PROVE TypesFit(page')
  <2>1. page' = PeekInLayout(PinnedInLayout(
                  CloseTabs(page, g, ToSet(TabsIn(page.layout, g)))))
    BY <1>4 DEF CloseAllDocuments, Act
  <2>2. TypesFit(CloseTabs(page, g, ToSet(TabsIn(page.layout, g))))
    BY ClosingTyped
  <2> QED BY <2>1, <2>2, ClosingTyped
<1>5. ASSUME NEW g, CloseEditorGroup(g) PROVE TypesFit(page')
  <2> DEFINE L == CloseGroup(page.layout, g)
             D == ToSet(TabsIn(page.layout, g))
             gone == {d \in D : ~InLayout(L, d)}
             q == [page EXCEPT !.layout = L, !.active = ActiveTab(L),
                               !.closedTabs = LastTabs(@ \o Among(page.documents, D)),
                               !.documents = Others(@, gone)]
  <2>1. page' = PinnedInLayout(q)
    BY <1>5 DEF CloseEditorGroup, Act
  <2>2. LayoutFits(L, Classes)
    BY <1>0, CloseGroupFits
  <2> HIDE DEF L, D, gone
  <2>3. /\ DOMAIN q = Fields /\ q.layout = L /\ q.active = ActiveTab(L)
        /\ q.pinned = page.pinned /\ q.documents = Others(page.documents, gone)
        /\ q.closedTabs = LastTabs(page.closedTabs \o Among(page.documents, D))
        /\ \A f \in {"session", "lastSession", "opening", "preference", "loading", "peek",
                     "stale", "problems", "calls"} : q[f] = page[f]
    BY <1>0 DEF Fields
  <2> HIDE DEF q
  <2>4. q.documents \in Seq(DocTypes) /\ q.closedTabs \in Seq(DocTypes)
        /\ Len(q.closedTabs) <= ClosedLimit
    BY <1>0, <2>3, DocsTyped
  <2>5. TypesFit(q)
    BY <1>0, <2>2, <2>3, <2>4, ActiveTyped, Relaid
  <2> QED BY <2>1, <2>5, ClosingTyped
<1> QED BY <1>1, <1>2, <1>3, <1>4, <1>5

\* A closed tab comes back, in the group that has the focus.
LEMMA ReopenTyped ==
  ASSUME TypesFit(page), ReopenClosedTab
  PROVE  TypesFit(page')
<1> DEFINE doc == Last(page.closedTabs)
           docs == Trim(Append(Others(page.documents, {doc.class}), doc), page.pinned)
           opened == OpenTab(page.layout, doc.class, page.layout.focused, FALSE)
           q == [page EXCEPT !.documents = docs, !.active = doc.class, !.untrimmed = {},
                             !.layout = RetainTabs(opened, ClassesOf(docs)),
                             !.closedTabs = Front(@)]
<1>0. /\ DOMAIN page = Fields /\ LayoutFits(page.layout, Classes) /\ Null \notin Classes
      /\ page.documents \in Seq(DocTypes) /\ page.closedTabs \in Seq(DocTypes)
      /\ page.pinned \subseteq Classes /\ Len(page.closedTabs) <= ClosedLimit
      /\ page.layout.focused \in GroupsOf(page.layout)
  BY DocumentsAssumption DEF TypesFit, LayoutFits
<1>1. page.closedTabs # <<>> /\ (page' = q \/ page' = Reselect(q, doc.class))
  BY DEF ReopenClosedTab, Act
<1>2. /\ doc \in DocTypes /\ Front(page.closedTabs) \in Seq(DocTypes)
      /\ Len(Front(page.closedTabs)) <= ClosedLimit
  <2> DEFINE s == page.closedTabs
  <2>1. s \in Seq(DocTypes) /\ s # <<>> /\ Len(s) <= ClosedLimit /\ ClosedLimit \in Nat
    BY <1>0, <1>1, DocumentsAssumption
  <2> HIDE DEF s
  <2>2. Len(s) \in Nat /\ Len(s) # 0 /\ s[Len(s)] \in DocTypes
    BY <2>1
  <2>3. /\ 1 \in Int /\ Len(s) - 1 \in Int
        /\ \A i \in 1 .. Len(s) - 1 : s[i] \in DocTypes
    BY <2>1, <2>2
  <2>4. /\ SubSeq(s, 1, Len(s) - 1) \in Seq(DocTypes)
        /\ Len(SubSeq(s, 1, Len(s) - 1)) =
             IF 1 <= Len(s) - 1 THEN (Len(s) - 1) - 1 + 1 ELSE 0
    BY <2>3, SubSeqProperties
  <2>5. Len(SubSeq(s, 1, Len(s) - 1)) <= ClosedLimit
    BY <2>1, <2>2, <2>4
  <2>6. Last(s) \in DocTypes /\ Front(s) \in Seq(DocTypes) /\ Len(Front(s)) <= ClosedLimit
    BY <2>2, <2>4, <2>5 DEF Last, Front
  <2> QED BY <2>6 DEF s
<1>3. doc.class \in Classes
  BY <1>2 DEF DocTypes
<1> HIDE DEF doc
<1>4. docs \in Seq(DocTypes)
  BY <1>0, <1>2, AppendTyped
<1>5. LayoutFits(opened, Classes)
  BY <1>0, <1>3, OpenFits
<1> HIDE DEF docs, opened
<1>6. LayoutFits(RetainTabs(opened, ClassesOf(docs)), Classes)
  BY <1>0, <1>5, RetainFits
<1>7. /\ DOMAIN q = Fields /\ q.layout = RetainTabs(opened, ClassesOf(docs))
      /\ q.active = doc.class /\ q.pinned = page.pinned /\ q.documents = docs
      /\ q.closedTabs = Front(page.closedTabs)
      /\ \A f \in {"session", "lastSession", "opening", "preference", "loading", "peek",
                   "stale", "problems", "calls"} : q[f] = page[f]
  BY <1>0 DEF Fields
<1> HIDE DEF q
<1>8. TypesFit(q)
  BY <1>0, <1>2, <1>3, <1>4, <1>6, <1>7, Relaid
<1> QED BY <1>1, <1>3, <1>8, ReselectTyped

\* A pin is set or removed.
LEMMA PinTyped ==
  ASSUME TypesFit(page), NEW d, TogglePin(d)
  PROVE  TypesFit(page')
<1> DEFINE pinned == SymDiff(page.pinned, {d})
           docs == Trim(page.documents, pinned)
           L == IF d \in pinned
                THEN PromoteTab(page.layout, d, GroupOf(page.layout, d)) ELSE page.layout
           M == OrderPinned(RetainTabs(L, ClassesOf(docs)), pinned)
           q == [page EXCEPT !.pinned = pinned, !.documents = docs, !.untrimmed = {},
                      !.layout = OrderPinned(RetainTabs(L, ClassesOf(docs)), pinned)]
<1>0. /\ DOMAIN page = Fields /\ LayoutFits(page.layout, Classes) /\ Null \notin Classes
      /\ page.documents \in Seq(DocTypes) /\ page.closedTabs \in Seq(DocTypes)
      /\ page.pinned \subseteq Classes /\ Len(page.closedTabs) <= ClosedLimit
      /\ page.active \in Classes \cup {Null}
  BY DocumentsAssumption DEF TypesFit
<1>1. page' = q /\ d \in ClassesOf(page.documents)
  BY DEF TogglePin, Act
<1>2. pinned \subseteq Classes
  BY <1>0, <1>1, DocsTyped DEF SymDiff
<1>3. docs \in Seq(DocTypes)
  BY <1>0, DocsTyped
<1>4. LayoutFits(L, Classes)
  BY <1>0, PromoteFits
<1> HIDE DEF L, docs, pinned
<1>5. LayoutFits(M, Classes)
  <2>1. LayoutFits(RetainTabs(L, ClassesOf(docs)), Classes)
    BY <1>0, <1>4, RetainFits
  <2> QED BY <2>1, OrderFits
<1>6. /\ DOMAIN q = Fields /\ q.layout = M /\ q.active = page.active
      /\ q.pinned = pinned /\ q.documents = docs /\ q.closedTabs = page.closedTabs
      /\ \A f \in {"session", "lastSession", "opening", "preference", "loading", "peek",
                   "stale", "problems", "calls"} : q[f] = page[f]
  BY <1>0 DEF Fields
<1> HIDE DEF q, M
<1>7. TypesFit(q)
  BY <1>0, <1>2, <1>3, <1>5, <1>6, Relaid
<1> QED BY <1>1, <1>7

\* Tabs are moved, split, focused and promoted.
LEMMA TabsTyped ==
  ASSUME TypesFit(page),
         \/ \E d, g, h, b : MoveDocument(d, g, h, b) \/ SplitDocument(d, g, h, b)
         \/ \E d, g : PromotePreview(d, g)
         \/ \E d : \E g \in GroupsOf(page.layout) : SplitEditor(d, g)
         \/ \E g : FocusEditorGroup(g)
  PROVE  TypesFit(page')
<1>0. /\ DOMAIN page = Fields /\ LayoutFits(page.layout, Classes) /\ Null \notin Classes
      /\ page.documents \in Seq(DocTypes) /\ page.closedTabs \in Seq(DocTypes)
      /\ page.pinned \subseteq Classes /\ Len(page.closedTabs) <= ClosedLimit
      /\ page.active \in Classes \cup {Null}
  BY DocumentsAssumption DEF TypesFit
<1>1. ASSUME NEW q, NEW L, NEW a, LayoutFits(L, Classes), a \in Classes \cup {Null},
             \/ q = [page EXCEPT !.active = a, !.layout = L]
             \/ q = [page EXCEPT !.layout = L, !.active = a]
      PROVE  TypesFit(q)
  <2>1. /\ DOMAIN q = Fields /\ q.layout = L /\ q.active = a
        /\ q.pinned = page.pinned /\ q.documents = page.documents
        /\ q.closedTabs = page.closedTabs
        /\ \A f \in {"session", "lastSession", "opening", "preference", "loading", "peek",
                     "stale", "problems", "calls"} : q[f] = page[f]
    BY <1>0, <1>1 DEF Fields
  <2> QED BY <1>0, <1>1, <2>1, Relaid
<1>2. \A g, d : d \in ShownTabs(g) => d \in Classes
  <2>1. ClassesOf(page.documents) \subseteq Classes
    BY <1>0, DocsTyped
  <2> QED BY <2>1 DEF ShownTabs
<1>3. ASSUME NEW d, NEW g, NEW h, NEW b, MoveDocument(d, g, h, b) PROVE TypesFit(page')
  <2>1. d \in Classes /\ page' = [page EXCEPT !.active = d, !.layout = MoveTab(@, d, g, h, b)]
    BY <1>2, <1>3 DEF MoveDocument, Act
  <2>2. LayoutFits(MoveTab(page.layout, d, g, h, b), Classes)
    BY <1>0, MoveFits
  <2> QED BY <1>1, <2>1, <2>2
<1>4. ASSUME NEW d, NEW g, NEW h, NEW b, SplitDocument(d, g, h, b) PROVE TypesFit(page')
  <2>1. d \in Classes /\ page' = [page EXCEPT !.active = d, !.layout = SplitMove(@, d, g, h, b)]
    BY <1>2, <1>4 DEF SplitDocument, Act
  <2>2. LayoutFits(SplitMove(page.layout, d, g, h, b), Classes)
    BY <1>0, SplitMoveFits
  <2> QED BY <1>1, <2>1, <2>2
<1>5. ASSUME NEW d, NEW g \in GroupsOf(page.layout), SplitEditor(d, g) PROVE TypesFit(page')
  <2> DEFINE L == SplitGroup(page.layout, g, d, "after")
  <2>1. page' = [page EXCEPT !.layout = L, !.active = ActiveTab(L)]
    BY <1>5 DEF SplitEditor, Act
  <2>2. d \in Classes \cup {Null}
    <3>1. page.layout.active[g] \in Classes \cup {Null}
      BY <1>0, LayoutIsWellFormed
    <3> QED BY <1>2, <1>5, <3>1 DEF SplitEditor
  <2>3. LayoutFits(L, Classes)
    BY <1>0, <2>2, SplitFits
  <2> HIDE DEF L
  <2> QED BY <1>1, <2>1, <2>3, ActiveTyped
<1>6. ASSUME NEW g, FocusEditorGroup(g) PROVE TypesFit(page')
  <2>1. /\ page' = [page EXCEPT !.layout = FocusGroup(@, g), !.active = page.layout.active[g]]
        /\ g \in GroupsOf(page.layout)
    BY <1>6 DEF FocusEditorGroup, Act
  <2>2. page.layout.active[g] \in Classes \cup {Null}
    BY <1>0, <2>1, LayoutIsWellFormed
  <2>3. LayoutFits(FocusGroup(page.layout, g), Classes)
    BY <1>0, FocusFits
  <2> QED BY <1>1, <2>1, <2>2, <2>3
<1>7. ASSUME NEW d, NEW g, PromotePreview(d, g) PROVE TypesFit(page')
  <2> DEFINE L == PromoteTab(page.layout, d, g)
  <2>1. page' = [page EXCEPT !.layout = L]
    BY <1>7 DEF PromotePreview, Act
  <2>2. LayoutFits(L, Classes)
    BY <1>0, PromoteFits
  <2> HIDE DEF L
  <2>3. /\ DOMAIN page' = Fields /\ page'.layout = L /\ page'.active = page.active
        /\ page'.pinned = page.pinned /\ page'.documents = page.documents
        /\ page'.closedTabs = page.closedTabs
        /\ \A f \in {"session", "lastSession", "opening", "preference", "loading", "peek",
                     "stale", "problems", "calls"} : page'[f] = page[f]
    BY <1>0, <2>1 DEF Fields
  <2> QED BY <1>0, <2>2, <2>3, Relaid
<1> QED BY <1>3, <1>4, <1>5, <1>6, <1>7

\* Every step keeps the types.
LEMMA NextTyped ==
  ASSUME TypesFit(page), [DocumentsNext]_docVars
  PROVE  TypesFit(page')
<1>0. /\ \A g : ShownTabs(g) \subseteq Classes
      /\ page.layout.focused \in GroupsOf(page.layout)
  <2>1. ClassesOf(page.documents) \subseteq Classes
    BY DocsTyped DEF TypesFit
  <2> QED BY <2>1 DEF ShownTabs, TypesFit, LayoutFits
<1>1. CASE \E c \in page.calls : ClassReturns(c) \/ PeekReturns(c) \/ ReferencesReturn(c)
  BY <1>1, ReturnsTyped
<1>2. CASE ArchiveOpened \/ OpeningFails
  BY <1>2, ArchiveTyped
<1>3. CASE UserActs
  <2>1. CASE TabActs
    <3>1. \/ \E g : FocusEditorGroup(g)
          \/ \E g : CloseAllDocuments(g) \/ CloseEditorGroup(g)
          \/ \E d, g : \/ CloseDocument(d, g) \/ CloseOtherDocuments(d, g)
                       \/ CloseDocumentsToRight(d, g)
          \/ \E d : \E g \in GroupsOf(page.layout) : SplitEditor(d, g)
          \/ \E d, g : PromotePreview(d, g)
          \/ \E g \in GroupsOf(page.layout) : \E d \in ShownTabs(g) : SelectClass(d, g, TRUE)
          \/ \E d, g, h, b : MoveDocument(d, g, h, b) \/ SplitDocument(d, g, h, b)
      BY <2>1, Zenon DEF TabActs
    <3> QED BY <1>0, <3>1, TabsTyped, ClosesTyped, SettingsTyped
  <2>2. CASE \E d \in Classes :
               \/ \E preview \in BOOLEAN : SelectClass(d, page.layout.focused, preview)
               \/ OpenPeek(d) \/ TogglePin(d)
    BY <1>0, <2>2, SettingsTyped, PanelsTyped, PinTyped
  <2>3. CASE FindReferences \/ CloseReferences \/ ClosePeek
    BY <2>3, PanelsTyped
  <2>4. CASE ReopenClosedTab
    BY <2>4, ReopenTyped
  <2>5. CASE SetDecompileOptions \/ \E l \in Preferences : SetSourceLanguage(l)
    BY <2>5, SettingsTyped
  <2>6. CASE StartOpening \/ CloseArchive
    BY <2>6, ArchiveTyped
  <2> QED
    BY <1>3, <2>1, <2>2, <2>3, <2>4, <2>5, <2>6, Zenon DEF UserActs
<1>4. CASE UNCHANGED docVars
  BY <1>4 DEF docVars
<1> QED
  BY <1>1, <1>2, <1>3, <1>4 DEF DocumentsNext

\* The page has its types, and every operation on tabs leaves a layout whose
\* focus, active and preview tabs are there (editorLayout.ts and all the
\* handlers that use it).
THEOREM TypesSafety == DocumentsSpec => []DocumentsTypeOK
<1>1. DocumentsInit => TypesFit(page)
  BY InitTyped
<1>2. TypesFit(page) /\ [DocumentsNext]_docVars => TypesFit(page)'
  BY NextTyped
<1>3. TypesFit(page) /\ PageFits(page) => DocumentsTypeOK
  <2> SUFFICES ASSUME TypesFit(page), PageFits(page) PROVE DocumentsTypeOK
    OBVIOUS
  <2>1. WellFormedLayout(page.layout)
    BY LayoutIsWellFormed, DocumentsAssumption DEF TypesFit
  <2>2. page.requestId \in Nat
    BY DEF PageFits, CallsFit
  <2>3. ToSet(page.documents) \subseteq DocTypes /\ ToSet(page.closedTabs) \subseteq DocTypes
    BY OwnElements DEF TypesFit
  <2> QED BY <2>1, <2>2, <2>3 DEF DocumentsTypeOK, TypesFit, DocTypes
<1> QED
  BY <1>1, <1>2, <1>3, PagesFit, PTL DEF DocumentsSpec
==============================================================================
