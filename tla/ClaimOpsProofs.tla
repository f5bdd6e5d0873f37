--------------------------- MODULE ClaimOpsProofs ---------------------------
(***************************************************************************)
(* Lemmas about one store value, for every set of claims, logs and blobs:  *)
(* what applying a redaction and what Ingest leave in each table, what a   *)
(* run of ingests adds up to, and what sorting rows by a key returns.      *)
(* The theorems of the modules that hold stores rest on them.              *)
(***************************************************************************)
EXTENDS ClaimOps, FiniteSetTheorems, FunctionTheorems, SequenceTheorems,
        WellFoundedInduction, TLAPS

\* The body that ingesting e makes the store forget, if any.
Forgotten(s, e) ==
  {t \in s.body : t = OwnRedaction(e) /\ RedactTarget[t] = None}

LEMMA EmptyStoreType == EmptyStore \in Store
BY ClaimsAssumption DEF EmptyStore, Store

\* OwnRedaction is an optional claim.
LEMMA OwnRedactionType ==
  ASSUME NEW e \in Event
  PROVE  OwnRedaction(e) \in Claim \cup {None}
BY ClaimsAssumption DEF OwnRedaction, Event

\* What applying the redaction an event carries leaves in each table.
LEMMA RedactedTables ==
  ASSUME NEW s \in Store, NEW e \in Event
  PROVE  LET r == Redacted(s, e)
         IN  /\ r \in Store
             /\ r.held = s.held
             /\ r.arrival = s.arrival
             /\ r.body = s.body \ Forgotten(s, e)
             /\ r.links = s.links \ UNION {LinksOf(c) : c \in Forgotten(s, e)}
             /\ r.pins = s.pins \ UNION {PinsOf(c) : c \in Forgotten(s, e)}
             /\ \A t \in Claim :
                  r.redaction[t] =
                    IF t = OwnRedaction(e)
                       /\ (s.redaction[t] = None \/ e.id < s.redaction[t])
                    THEN e.id ELSE s.redaction[t]
<1> DEFINE t == OwnRedaction(e)
           m == SetRedaction(s, t, e.id)
<1>1. CASE t = None
  <2>1. Redacted(s, e) = s
    BY <1>1 DEF Redacted
  <2>2. Forgotten(s, e) = {}
    BY <1>1, ClaimsAssumption DEF Forgotten, Store
  <2> QED BY <1>1, <2>1, <2>2, ClaimsAssumption DEF Store
<1>2. CASE t # None
  <2>0. t \in Claim /\ e.id \in Claim
    BY <1>2, OwnRedactionType DEF Event
  <2>1. /\ m \in Store
        /\ m.held = s.held /\ m.body = s.body /\ m.arrival = s.arrival
        /\ m.links = s.links /\ m.pins = s.pins
        /\ \A u \in Claim :
             m.redaction[u] =
               IF u = t /\ (s.redaction[u] = None \/ e.id < s.redaction[u])
               THEN e.id ELSE s.redaction[u]
    BY <2>0 DEF SetRedaction, Store
  <2>2. CASE t \in s.body /\ RedactTarget[t] = None
    <3>1. Redacted(s, e) = DropBody(m, t)
      BY <1>2, <2>2 DEF Redacted, ApplyRedaction
    <3>2. Forgotten(s, e) = {t}
      BY <2>2 DEF Forgotten
    <3>3. /\ UNION {LinksOf(c) : c \in {t}} = LinksOf(t)
          /\ UNION {PinsOf(c) : c \in {t}} = PinsOf(t)
      OBVIOUS
    <3>4. LET d == DropBody(m, t)
          IN  /\ d \in Store
              /\ d.held = m.held /\ d.arrival = m.arrival
              /\ d.redaction = m.redaction
              /\ d.body = m.body \ {t}
              /\ d.links = m.links \ LinksOf(t)
              /\ d.pins = m.pins \ PinsOf(t)
      BY <2>1 DEF DropBody, Store
    <3> QED BY <2>1, <3>1, <3>2, <3>3, <3>4
  <2>3. CASE ~(t \in s.body /\ RedactTarget[t] = None)
    <3>1. Redacted(s, e) = m
      BY <1>2, <2>3 DEF Redacted, ApplyRedaction
    <3>2. Forgotten(s, e) = {}
      BY <2>3 DEF Forgotten
    <3> QED BY <2>1, <3>1, <3>2
  <2> QED BY <2>2, <2>3
<1> QED BY <1>1, <1>2

\* The index tables stay exact while edges of a forgotten body go...
LEMMA RedactedIndex ==
  ASSUME NEW s \in Store, NEW e \in Event, IndexAgrees(s)
  PROVE  IndexAgrees(Redacted(s, e))
<1> DEFINE r == Redacted(s, e)
           F == Forgotten(s, e)
<1>1. /\ r.body = s.body \ F
      /\ r.links = s.links \ UNION {LinksOf(c) : c \in F}
      /\ r.pins = s.pins \ UNION {PinsOf(c) : c \in F}
  BY RedactedTables
<1>2. /\ s.links = UNION {LinksOf(c) : c \in s.body}
      /\ s.pins = UNION {PinsOf(c) : c \in s.body}
  BY DEF IndexAgrees
<1>3. ASSUME NEW c, NEW d, c # d
      PROVE  LinksOf(c) \cap LinksOf(d) = {} /\ PinsOf(c) \cap PinsOf(d) = {}
  BY <1>3 DEF LinksOf, PinsOf
<1>4. r.links = UNION {LinksOf(c) : c \in s.body \ F}
  BY <1>1, <1>2, <1>3
<1>5. r.pins = UNION {PinsOf(c) : c \in s.body \ F}
  BY <1>1, <1>2, <1>3
<1> QED BY <1>1, <1>4, <1>5 DEF IndexAgrees

\* A log of finitely many rows has a length.
LEMMA LogLenType ==
  ASSUME NEW s \in Store, NEW l \in Log, IsFiniteSet(s.held)
  PROVE  /\ IsFiniteSet(LogRows(s, l))
         /\ LogLen(s, l) \in Nat
BY FS_Subset, FS_CardinalityType DEF LogRows, LogLen

\* What one ingest leaves in the rows and the redactions...
LEMMA IngestRows ==
  ASSUME NEW s \in Store, NEW e \in Event, IsFiniteSet(s.held)
  PROVE  LET r == Redacted(s, e)
             i == Ingest(s, e)
             kept == BodyKept(r, e)
         IN  /\ i \in Store
             /\ IsFiniteSet(i.held)
             /\ i.held = s.held \cup {e.id}
             /\ i.body = r.body \cup (IF kept THEN {e.id} ELSE {})
             /\ i.redaction = r.redaction
             /\ \A c \in Claim :
                  i.arrival[c] = IF c = e.id /\ c \notin s.held
                                 THEN LogLen(s, LogOf[c]) ELSE s.arrival[c]
             /\ \/ i = r /\ (kept => e.id \in r.body)
                \/ /\ i.links = r.links \cup (IF kept THEN LinksOf(e.id) ELSE {})
                   /\ i.pins = r.pins \cup (IF kept THEN PinsOf(e.id) ELSE {})
<1> DEFINE r == Redacted(s, e)
           i == Ingest(s, e)
           n == LogLen(s, LogOf[e.id])
           kept == BodyKept(r, e)
<1>1. /\ r \in Store
      /\ r.held = s.held /\ r.arrival = s.arrival
      /\ e.id \in Claim /\ LogOf[e.id] \in Log
  BY RedactedTables, ClaimsAssumption DEF Event
<1>2. CASE Duplicate(r, e)
  <2>1. i = r
    BY <1>2 DEF Ingest
  <2>2. e.id \in r.held /\ (kept => e.id \in r.body)
    BY <1>2 DEF Duplicate
  <2> QED BY <1>1, <2>1, <2>2
<1>3. CASE ~Duplicate(r, e)
  <2>1. LogLen(r, LogOf[e.id]) = n /\ n \in Nat
    BY <1>1, LogLenType DEF LogLen, LogRows
  <2>2. /\ LinksOf(e.id) \subseteq Claim \X Claim
        /\ PinsOf(e.id) \subseteq Blob \X Claim
    BY <1>1, ClaimsAssumption DEF LinksOf, PinsOf
  <2>3. i = [r EXCEPT !.held = @ \cup {e.id},
                      !.body = IF kept THEN @ \cup {e.id} ELSE @,
                      !.arrival[e.id] = IF e.id \in r.held THEN r.arrival[e.id]
                                        ELSE n,
                      !.links = IF kept THEN @ \cup LinksOf(e.id) ELSE @,
                      !.pins = IF kept THEN @ \cup PinsOf(e.id) ELSE @]
    BY <1>3, <2>1 DEF Ingest, PutClaim, ArrivalOf
  <2> HIDE DEF r, i, n, kept
  <2>4. /\ i \in Store
        /\ i.held = r.held \cup {e.id}
        /\ i.body = r.body \cup (IF kept THEN {e.id} ELSE {})
        /\ i.redaction = r.redaction
        /\ i.links = r.links \cup (IF kept THEN LinksOf(e.id) ELSE {})
        /\ i.pins = r.pins \cup (IF kept THEN PinsOf(e.id) ELSE {})
        /\ \A c \in Claim :
             i.arrival[c] = IF c = e.id /\ c \notin r.held
                            THEN n ELSE r.arrival[c]
    BY <1>1, <2>1, <2>2, <2>3 DEF Store
  <2>5. IsFiniteSet(i.held)
    BY <1>1, <2>4, FS_AddElement
  <2> QED BY <1>1, <2>4, <2>5 DEF n, r, i, kept
<1> QED BY <1>2, <1>3

\* ...and, where the index tables were exact, in all of them.
LEMMA IngestTables ==
  ASSUME NEW s \in Store, NEW e \in Event, IsFiniteSet(s.held), IndexAgrees(s)
  PROVE  LET r == Redacted(s, e)
             i == Ingest(s, e)
         IN  /\ i \in Store
             /\ IsFiniteSet(i.held)
             /\ i.held = s.held \cup {e.id}
             /\ i.body = r.body \cup (IF BodyKept(r, e) THEN {e.id} ELSE {})
             /\ i.redaction = r.redaction
             /\ \A c \in Claim :
                  i.arrival[c] = IF c = e.id /\ c \notin s.held
                                 THEN LogLen(s, LogOf[c]) ELSE s.arrival[c]
             /\ IndexAgrees(i)
<1> DEFINE r == Redacted(s, e)
           i == Ingest(s, e)
           kept == BodyKept(r, e)
<1>1. IndexAgrees(r)
  BY RedactedIndex
<1>2. /\ i.body = r.body \cup (IF kept THEN {e.id} ELSE {})
      /\ \/ i = r /\ (kept => e.id \in r.body)
         \/ /\ i.links = r.links \cup (IF kept THEN LinksOf(e.id) ELSE {})
            /\ i.pins = r.pins \cup (IF kept THEN PinsOf(e.id) ELSE {})
  BY IngestRows
<1> HIDE DEF r, i, kept
<1>3. IndexAgrees(i)
  BY <1>1, <1>2 DEF IndexAgrees
<1> QED BY <1>3, IngestRows DEF r, i, kept

\* No ingest leaves redacted speech with a body.
LEMMA IngestForgets ==
  ASSUME NEW s \in Store, NEW e \in Event, IsFiniteSet(s.held),
         BodiesForgotten(s)
  PROVE  BodiesForgotten(Ingest(s, e))
<1> DEFINE r == Redacted(s, e)
           i == Ingest(s, e)
<1>1. /\ r \in Store
      /\ r.body = s.body \ Forgotten(s, e)
      /\ \A t \in Claim : r.redaction[t] # s.redaction[t] => t = OwnRedaction(e)
  BY RedactedTables
<1>2. /\ i.redaction = r.redaction
      /\ i.body = r.body \cup (IF BodyKept(r, e) THEN {e.id} ELSE {})
  BY IngestRows
<1>3. SUFFICES ASSUME NEW c \in i.body, RedactTarget[c] = None
               PROVE  i.redaction[c] = None
  BY DEF BodiesForgotten
<1>4. CASE c \in r.body
  <2>1. c \in s.body /\ c # OwnRedaction(e) /\ c \in Claim
    BY <1>1, <1>3, <1>4 DEF Forgotten, Store
  <2>2. s.redaction[c] = None
    BY <1>3, <2>1 DEF BodiesForgotten
  <2> QED BY <1>1, <1>2, <2>1, <2>2
<1>5. CASE c \notin r.body
  <2>1. c = e.id /\ BodyKept(r, e)
    BY <1>2, <1>3, <1>5
  <2> QED BY <1>2, <1>3, <2>1 DEF BodyKept, Suppressed, OwnRedaction
<1> QED BY <1>4, <1>5

-----------------------------------------------------------------------------
(* Arrivals: the next position of a log is its length *)

LEMMA IngestDense ==
  ASSUME NEW s \in Store, NEW e \in Event,
         IsFiniteSet(s.held), Dense(s)
  PROVE  Dense(Ingest(s, e))
<1> DEFINE i == Ingest(s, e)
           m == LogOf[e.id]
<1>1. /\ i \in Store
      /\ i.held = s.held \cup {e.id}
      /\ \A c \in Claim :
           i.arrival[c] = IF c = e.id /\ c \notin s.held
                          THEN LogLen(s, LogOf[c]) ELSE s.arrival[c]
  BY IngestRows
<1>2. e.id \in Claim /\ m \in Log /\ s.held \subseteq Claim
  BY ClaimsAssumption DEF Event, Store
<1>3. CASE e.id \in s.held
  <2>1. /\ i.held = s.held
        /\ \A c \in s.held : i.arrival[c] = s.arrival[c]
    BY <1>1, <1>2, <1>3
  <2>2. \A l \in Log : LogRows(i, l) = LogRows(s, l) /\ LogLen(i, l) = LogLen(s, l)
    BY <2>1 DEF LogRows, LogLen
  <2>3. ASSUME NEW l \in Log
        PROVE  {i.arrival[c] : c \in LogRows(i, l)} = 0 .. LogLen(i, l) - 1
    <3>1. {i.arrival[c] : c \in LogRows(i, l)} = {s.arrival[c] : c \in LogRows(s, l)}
      BY <2>1, <2>2 DEF LogRows
    <3> QED BY <2>2, <3>1 DEF Dense
  <2>4. ArrivalsUnique(i)
    BY <2>1 DEF Dense, ArrivalsUnique
  <2> QED BY <2>3, <2>4 DEF Dense
<1>4. CASE e.id \notin s.held
  <2> DEFINE n == LogLen(s, m)
  <2>1. n \in Nat /\ IsFiniteSet(LogRows(s, m))
    BY <1>2, LogLenType
  <2>2. LogRows(i, m) = LogRows(s, m) \cup {e.id} /\ e.id \notin LogRows(s, m)
    BY <1>1, <1>4 DEF LogRows
  <2>3. LogLen(i, m) = n + 1
    BY <2>1, <2>2, FS_AddElement DEF LogLen
  <2>4. ASSUME NEW l \in Log, l # m
        PROVE  LogRows(i, l) = LogRows(s, l) /\ LogLen(i, l) = LogLen(s, l)
    BY <1>1, <2>4 DEF LogRows, LogLen
  <2>5. i.arrival[e.id] = n /\ \A c \in s.held : i.arrival[c] = s.arrival[c]
    BY <1>1, <1>2, <1>4
  <2>6. ASSUME NEW l \in Log
        PROVE  {i.arrival[c] : c \in LogRows(i, l)} = 0 .. LogLen(i, l) - 1
    <3>0. {s.arrival[c] : c \in LogRows(s, l)} = 0 .. LogLen(s, l) - 1
      BY DEF Dense
    <3>1. CASE l = m
      <4>1. {i.arrival[c] : c \in LogRows(i, m)}
              = {s.arrival[c] : c \in LogRows(s, m)} \cup {n}
        BY <2>2, <2>5 DEF LogRows
      <4>2. (0 .. n - 1) \cup {n} = 0 .. (n + 1) - 1
        BY <2>1
      <4> QED BY <2>3, <3>0, <3>1, <4>1, <4>2
    <3>2. CASE l # m
      <4>1. {i.arrival[c] : c \in LogRows(i, l)} = {s.arrival[c] : c \in LogRows(s, l)}
        BY <2>4, <2>5, <3>2 DEF LogRows
      <4> QED BY <2>4, <3>0, <3>2, <4>1
    <3> QED BY <3>1, <3>2
  <2>7. \A c \in s.held : LogOf[c] = m => s.arrival[c] # n
    <3>1. {s.arrival[c] : c \in LogRows(s, m)} = 0 .. n - 1
      BY <1>2 DEF Dense
    <3>2. n \notin 0 .. n - 1
      BY <2>1
    <3> QED BY <3>1, <3>2 DEF LogRows
  <2>8. ArrivalsUnique(i)
    BY <1>1, <2>5, <2>7 DEF Dense, ArrivalsUnique
  <2> QED BY <2>6, <2>8 DEF Dense
<1> QED BY <1>3, <1>4

-----------------------------------------------------------------------------
(* The reference, one event later *)

LEMMA SeenStep ==
  ASSUME NEW E \in SUBSET Event, NEW e \in Event
  PROVE  LET F == E \cup {e}
         IN  /\ SeenIds(F) = SeenIds(E) \cup {e.id}
             /\ SeenBodies(F) = SeenBodies(E) \cup
                                  (IF e.body THEN {e.id} ELSE {})
             /\ \A t \in Claim :
                  RedactorsOf(F, t) = RedactorsOf(E, t) \cup
                    (IF t = OwnRedaction(e) THEN {e.id} ELSE {})
<1> DEFINE F == E \cup {e}
<1>1. SeenIds(F) = SeenIds(E) \cup {e.id}
  BY DEF SeenIds
<1>2. SeenBodies(F) = SeenBodies(E) \cup (IF e.body THEN {e.id} ELSE {})
  BY DEF SeenBodies, Event
<1>3. ASSUME NEW t \in Claim
      PROVE  RedactorsOf(F, t) = RedactorsOf(E, t) \cup
               (IF t = OwnRedaction(e) THEN {e.id} ELSE {})
  BY <1>2, ClaimsAssumption DEF RedactorsOf, OwnRedaction
<1> QED BY <1>1, <1>2, <1>3

\* Redactors are claims, so the smallest of them is well defined.
LEMMA SeenType ==
  ASSUME NEW E \in SUBSET Event
  PROVE  /\ SeenIds(E) \subseteq Claim
         /\ SeenBodies(E) \subseteq SeenIds(E)
         /\ \A t \in Claim : RedactorsOf(E, t) \subseteq Claim
BY DEF SeenIds, SeenBodies, RedactorsOf, Event

(***************************************************************************)
(* Everything in the rows of s comes from the events of E, and all that    *)
(* the events of F ask for has taken effect, in whatever order and however *)
(* often they came.                                                        *)
(***************************************************************************)
Reflects(s, E, F) ==
  /\ SeenIds(F) \subseteq s.held /\ s.held \subseteq SeenIds(E)
  /\ s.body \subseteq SeenBodies(E)
  /\ \A c \in SeenBodies(F) :
       c \in s.body \/ (RedactTarget[c] = None /\ s.redaction[c] # None)
  /\ \A c \in s.body : RedactTarget[c] # None \/ RedactorsOf(F, c) = {}
  /\ \A t \in Claim : s.redaction[t] # None => s.redaction[t] \in RedactorsOf(E, t)
  /\ \A t \in Claim : \A c \in RedactorsOf(F, t) :
       s.redaction[t] # None /\ s.redaction[t] <= c

\* Once all of E has taken effect, the rows are those of the reference.
LEMMA ReflectsRight ==
  ASSUME NEW s \in Store, NEW E \in SUBSET Event
  PROVE  RowsRight(s, E) <=> Reflects(s, E, E)
<1>0. /\ SeenBodies(E) \subseteq SeenIds(E) /\ SeenIds(E) \subseteq Claim
      /\ s.body \subseteq Claim
      /\ \A t \in Claim : RedactorsOf(E, t) \subseteq Nat \ {None}
  BY SeenType, ClaimsAssumption DEF Store
<1>1. ASSUME RowsRight(s, E) PROVE Reflects(s, E, E)
  <2>1. \A t \in Claim :
          IF RedactorsOf(E, t) = {}
          THEN s.redaction[t] = None
          ELSE /\ s.redaction[t] \in RedactorsOf(E, t)
               /\ \A c \in RedactorsOf(E, t) : s.redaction[t] <= c
    BY <1>1 DEF RowsRight, RedactionRight
  <2>2. s.held = SeenIds(E) /\ s.body = LiveBodies(E)
    BY <1>1 DEF RowsRight
  <2>3. \A c \in SeenBodies(E) :
          c \in s.body \/ (RedactTarget[c] = None /\ s.redaction[c] # None)
    BY <1>0, <2>1, <2>2 DEF LiveBodies
  <2>4. s.body \subseteq SeenBodies(E)
        /\ \A c \in s.body : RedactTarget[c] # None \/ RedactorsOf(E, c) = {}
    BY <2>2 DEF LiveBodies
  <2> QED BY <1>0, <2>1, <2>2, <2>3, <2>4 DEF Reflects
<1>2. ASSUME Reflects(s, E, E) PROVE RowsRight(s, E)
  <2>1. s.held = SeenIds(E)
    BY <1>2 DEF Reflects
  <2>2. RedactionRight(s, E)
    BY <1>2 DEF Reflects, RedactionRight
  <2>3. ASSUME NEW c \in LiveBodies(E) PROVE c \in s.body
    <3>1. c \in SeenBodies(E) /\ c \in Claim
      BY <1>0 DEF LiveBodies
    <3>2. RedactTarget[c] = None => s.redaction[c] = None
      BY <1>2, <3>1 DEF LiveBodies, Reflects
    <3> QED BY <1>2, <3>1, <3>2 DEF Reflects
  <2>4. s.body \subseteq LiveBodies(E)
    BY <1>2 DEF Reflects, LiveBodies
  <2> QED BY <2>1, <2>2, <2>3, <2>4 DEF RowsRight
<1> QED BY <1>1, <1>2

(***************************************************************************)
(* The heart of convergence: whatever was tried before, also in part, an   *)
(* ingest makes its event take effect and undoes no other.                 *)
(***************************************************************************)
LEMMA IngestDelivers ==
  ASSUME NEW s \in Store, IsFiniteSet(s.held),
         NEW E \in SUBSET Event, NEW F \in SUBSET E, NEW e \in E,
         Reflects(s, E, F)
  PROVE  Reflects(Ingest(s, e), E, F \cup {e})
<1> DEFINE G == F \cup {e}
           r == Redacted(s, e)
           i == Ingest(s, e)
           own == OwnRedaction(e)
<1>0. /\ e \in Event /\ F \in SUBSET Event /\ e.id \in Claim
      /\ Claim \subseteq Nat /\ None \notin Claim
      /\ own = None \/ (own \in Claim /\ e.id \in RedactorsOf(E, own))
  <2>1. e.id \in Claim
    BY DEF Event
  <2>2. own # None => own \in Claim /\ e.id \in RedactorsOf(E, own)
    BY <2>1, ClaimsAssumption DEF OwnRedaction, RedactorsOf, SeenBodies
  <2> QED BY <2>1, <2>2, ClaimsAssumption
<1>1. /\ SeenIds(G) = SeenIds(F) \cup {e.id}
      /\ SeenBodies(G) = SeenBodies(F) \cup (IF e.body THEN {e.id} ELSE {})
      /\ \A t \in Claim :
           RedactorsOf(G, t) = RedactorsOf(F, t) \cup
                                 (IF t = own THEN {e.id} ELSE {})
  BY <1>0, SeenStep
<1>2. /\ i.held = s.held \cup {e.id}
      /\ i.body = (s.body \ Forgotten(s, e))
                    \cup (IF BodyKept(r, e) THEN {e.id} ELSE {})
      /\ i.redaction = r.redaction
      /\ \A t \in Claim :
           i.redaction[t] = IF t = own /\ (s.redaction[t] = None
                                             \/ e.id < s.redaction[t])
                            THEN e.id ELSE s.redaction[t]
  BY <1>0, IngestRows, RedactedTables
<1>3. /\ s.body \subseteq Claim /\ SeenBodies(F) \subseteq Claim
      /\ \A t \in Claim : /\ RedactorsOf(E, t) \subseteq Nat \ {None}
                          /\ RedactorsOf(F, t) \subseteq Nat \ {None}
      /\ e.id \in SeenIds(E) /\ (e.body => e.id \in SeenBodies(E))
  <2>1. SeenBodies(F) \subseteq Claim
    BY <1>0, SeenType
  <2>2. \A t \in Claim : /\ RedactorsOf(E, t) \subseteq Claim
                         /\ RedactorsOf(F, t) \subseteq Claim
    BY <1>0, SeenType
  <2>3. e.id \in SeenIds(E) /\ (e.body => e.id \in SeenBodies(E))
    BY DEF SeenIds, SeenBodies
  <2>4. s.body \subseteq Claim
    BY DEF Store
  <2> QED BY <1>0, <2>1, <2>2, <2>3, <2>4
<1>4. BodyKept(r, e) <=>
        e.body /\ (RedactTarget[e.id] # None \/ i.redaction[e.id] = None)
  BY <1>2 DEF BodyKept, Suppressed, OwnRedaction
<1> HIDE DEF G, r, i
<1>5. \A t \in Claim : \A c \in RedactorsOf(G, t) :
        i.redaction[t] # None /\ i.redaction[t] <= c
  <2> SUFFICES ASSUME NEW t \in Claim, NEW c \in RedactorsOf(G, t)
               PROVE  i.redaction[t] # None /\ i.redaction[t] <= c
    OBVIOUS
  <2>1. c \in RedactorsOf(F, t) \/ (t = own /\ c = e.id)
    BY <1>1
  <2>2. c \in RedactorsOf(F, t) => s.redaction[t] # None /\ s.redaction[t] <= c
    BY DEF Reflects
  <2>3. s.redaction[t] # None => s.redaction[t] \in Nat
    BY <1>3 DEF Reflects
  <2>4. c \in Nat /\ e.id \in Nat /\ e.id # None
    BY <1>0, <1>3, <2>1
  <2> QED BY <1>2, <2>1, <2>2, <2>3, <2>4
<1>6. \A t \in Claim : i.redaction[t] # None => i.redaction[t] \in RedactorsOf(E, t)
  BY <1>0, <1>2 DEF Reflects
<1>7. \A t \in Claim : s.redaction[t] # None => i.redaction[t] # None
  BY <1>0, <1>2
<1>8. \A c \in SeenBodies(G) :
        c \in i.body \/ (RedactTarget[c] = None /\ i.redaction[c] # None)
  <2> SUFFICES ASSUME NEW c \in SeenBodies(G), c \notin i.body
               PROVE  RedactTarget[c] = None /\ i.redaction[c] # None
    OBVIOUS
  <2>1. CASE c \in SeenBodies(F)
    <3>1. CASE c \in s.body
      <4>1. c \in Claim /\ c = own /\ RedactTarget[c] = None
        BY <1>2, <1>3, <3>1 DEF Forgotten
      <4>2. e.id \in RedactorsOf(G, c)
        BY <1>1, <4>1
      <4> QED BY <1>5, <4>1, <4>2
    <3>2. CASE c \notin s.body
      BY <1>3, <1>7, <2>1, <3>2 DEF Reflects
    <3> QED BY <3>1, <3>2
  <2>2. CASE c \notin SeenBodies(F)
    <3>1. c = e.id /\ e.body
      BY <1>1, <2>2
    <3>2. ~BodyKept(r, e)
      BY <1>2, <3>1
    <3> QED BY <1>4, <3>1, <3>2
  <2> QED BY <2>1, <2>2
<1>9. \A c \in i.body : /\ c \in SeenBodies(E)
                        /\ RedactTarget[c] # None \/ RedactorsOf(G, c) = {}
  <2> SUFFICES ASSUME NEW c \in i.body
               PROVE  /\ c \in SeenBodies(E)
                      /\ RedactTarget[c] # None \/ RedactorsOf(G, c) = {}
    OBVIOUS
  <2>1. CASE c \in s.body /\ c \notin Forgotten(s, e)
    <3>1. /\ c \in SeenBodies(E) /\ c \in Claim
          /\ RedactTarget[c] # None \/ RedactorsOf(F, c) = {}
      BY <1>3, <2>1 DEF Reflects
    <3>2. RedactTarget[c] # None \/ c # own
      BY <2>1 DEF Forgotten
    <3> QED BY <1>1, <3>1, <3>2
  <2>2. CASE c = e.id /\ BodyKept(r, e)
    BY <1>0, <1>3, <1>4, <1>5, <2>2
  <2> QED BY <1>2, <2>1, <2>2
<1>10. SeenIds(G) \subseteq i.held /\ i.held \subseteq SeenIds(E)
  BY <1>1, <1>2, <1>3 DEF Reflects
<1>11. Reflects(i, E, G)
  BY <1>5, <1>6, <1>8, <1>9, <1>10 DEF Reflects
<1> QED BY <1>11 DEF G, i

\* More may have been sent than has taken effect.
LEMMA ReflectsMore ==
  ASSUME NEW s, NEW E, NEW F, NEW G \in SUBSET Event, E \subseteq G,
         Reflects(s, E, F)
  PROVE  Reflects(s, G, F)
<1>1. /\ SeenIds(E) \subseteq SeenIds(G) /\ SeenBodies(E) \subseteq SeenBodies(G)
      /\ \A t \in Claim : RedactorsOf(E, t) \subseteq RedactorsOf(G, t)
  BY DEF SeenIds, SeenBodies, RedactorsOf
<1> QED BY <1>1 DEF Reflects

\* Ingest takes the reference state of E to the reference state of E and e.
LEMMA IngestCanonical ==
  ASSUME NEW s \in Store, NEW E \in SUBSET Event, NEW e \in Event,
         IsFiniteSet(s.held), Canonical(s, E)
  PROVE  Canonical(Ingest(s, e), E \cup {e})
<1> DEFINE F == E \cup {e}
<1>1. Reflects(s, E, E) /\ IndexAgrees(s)
  BY ReflectsRight DEF Canonical
<1>2. E \in SUBSET F /\ F \in SUBSET Event /\ e \in F
  OBVIOUS
<1> HIDE DEF F
<1>3. Reflects(s, F, E)
  BY <1>1, <1>2, ReflectsMore
<1>4. Reflects(Ingest(s, e), F, E \cup {e})
  BY <1>2, <1>3, IngestDelivers
<1>5. Ingest(s, e) \in Store /\ IndexAgrees(Ingest(s, e))
  BY <1>1, IngestTables
<1> QED BY <1>2, <1>4, <1>5, ReflectsRight DEF Canonical, F

\* Two stores that are right about the same events are in one state.
LEMMA RowsUnique ==
  ASSUME NEW s \in Store, NEW u \in Store, NEW E \in SUBSET Event,
         RowsRight(s, E), RowsRight(u, E)
  PROVE  StateVector(s) = StateVector(u)
<1>1. s.held = u.held /\ s.body = u.body
  BY DEF RowsRight
<1>2. Events(s) = Events(u)
  BY <1>1 DEF Events, EventOf
<1>3. ASSUME NEW t \in Claim
      PROVE  s.redaction[t] = u.redaction[t]
  <2>1. RedactorsOf(E, t) \subseteq Nat
    BY SeenType, ClaimsAssumption
  <2> QED BY <2>1 DEF RowsRight, RedactionRight
<1>4. s.redaction = u.redaction
  BY <1>3 DEF Store
<1> QED BY <1>2, <1>4 DEF StateVector

-----------------------------------------------------------------------------
(* Runs of ingests *)

\* Induction on the naturals, for what a set of them has.
LEMMA NatSetInduction ==
  ASSUME NEW S, 0 \in S, \A n \in Nat : n \in S => n + 1 \in S
  PROVE  \A n \in Nat : n \in S
<1> SUFFICES ASSUME Nat \ S # {} PROVE FALSE
  OBVIOUS
<1> DEFINE H == Nat \ S
           R == OpToRel(<, Nat)
<1>1. \E n \in H : \A m \in H : <<m, n>> \notin R
  <2>1. H \subseteq Nat /\ H # {}
    OBVIOUS
  <2>2. IsWellFoundedOn(R, Nat)
    BY NatLessThanWellFounded
  <2> HIDE DEF H, R
  <2> QED BY <2>1, <2>2, WFMin
<1>2. PICK n \in H : \A m \in H : <<m, n>> \notin R
  BY <1>1
<1>3. n - 1 \in Nat /\ n - 1 < n
  OBVIOUS
<1>4. n - 1 \notin S
  BY <1>3
<1>5. <<n - 1, n>> \in R
  BY <1>3 DEF OpToRel
<1> QED BY <1>2, <1>3, <1>4, <1>5

(***************************************************************************)
(* What the first ingest of a run establishes and each next one keeps, the *)
(* run establishes; P[n] holds the states possible after n of them.        *)
(***************************************************************************)
LEMMA IngestAllRule ==
  ASSUME NEW q \in Seq(Event), NEW P, NEW s \in P[0],
         \A n \in 1 .. Len(q) : \A t \in P[n - 1] : Ingest(t, q[n]) \in P[n]
  PROVE  IngestAll(s, q) \in P[Len(q)]
<1> DEFINE N == Len(q)
           X == UNION {P[n] : n \in 0 .. N}
           Next(f, n) == IF n = 0 THEN s ELSE Ingest(f[n - 1], q[n])
           Run(m, g) == \A n \in 0 .. m : g[n] = Next(g, n) /\ g[n] \in P[n]
           S == {m \in Nat : m <= N => \E g \in [0 .. m -> X] : Run(m, g)}
<1>0. N \in Nat
  BY LenProperties
<1> HIDE DEF N
<1>1. \E g \in [0 .. 0 -> X] : Run(0, g)
  <2>1. [n \in 0 .. 0 |-> s] \in [0 .. 0 -> X]
    BY <1>0
  <2>2. Run(0, [n \in 0 .. 0 |-> s])
    OBVIOUS
  <2> QED BY <2>1, <2>2
<1>2. ASSUME NEW m \in Nat, m + 1 <= N, NEW g \in [0 .. m -> X], Run(m, g)
      PROVE  \E h \in [0 .. m + 1 -> X] : Run(m + 1, h)
  <2> DEFINE h == [n \in 0 .. m + 1 |->
                     IF n <= m THEN g[n] ELSE Ingest(g[m], q[n])]
  <2>1. g[m] \in P[m] /\ m + 1 \in 1 .. N /\ m \in 0 .. m
    BY <1>0, <1>2
  <2>2. Ingest(g[m], q[m + 1]) \in P[m + 1]
    BY <2>1 DEF N
  <2>3. h \in [0 .. m + 1 -> X]
    <3>1. \A n \in 0 .. m + 1 : n <= m => n \in 0 .. m
      OBVIOUS
    <3>2. \A n \in 0 .. m + 1 : ~(n <= m) => n = m + 1
      OBVIOUS
    <3>3. \A n \in 0 .. m : g[n] \in X
      BY <1>2
    <3>4. Ingest(g[m], q[m + 1]) \in X
      BY <2>1, <2>2
    <3> QED BY <3>1, <3>2, <3>3, <3>4
  <2>4. Run(m + 1, h)
    <3> SUFFICES ASSUME NEW n \in 0 .. m + 1
                 PROVE  h[n] = Next(h, n) /\ h[n] \in P[n]
      OBVIOUS
    <3>1. CASE n = 0
      BY <1>2, <3>1
    <3>2. CASE n # 0 /\ n <= m
      <4>1. n \in 0 .. m /\ n - 1 \in 0 .. m + 1 /\ n - 1 <= m
        BY <3>2
      <4> QED BY <1>2, <3>2, <4>1
    <3>3. CASE n = m + 1
      BY <2>1, <2>2, <3>3
    <3> QED BY <3>1, <3>2, <3>3
  <2> QED BY <2>3, <2>4
<1>3. \E g \in [0 .. N -> X] : Run(N, g)
  <2> HIDE DEF Run, X
  <2>1. 0 \in S
    BY <1>1
  <2>2. ASSUME NEW m \in Nat, m \in S PROVE m + 1 \in S
    <3> SUFFICES ASSUME m + 1 <= N
                 PROVE  \E h \in [0 .. m + 1 -> X] : Run(m + 1, h)
      OBVIOUS
    <3>1. m <= N
      BY <1>0
    <3>2. PICK g \in [0 .. m -> X] : Run(m, g)
      BY <2>2, <3>1
    <3> QED BY <1>2, <3>2
  <2>3. N \in S
    <3> HIDE DEF S
    <3> QED BY <1>0, <2>1, <2>2, NatSetInduction
  <2> QED BY <1>0, <2>3
<1>4. PICK g \in [0 .. N -> X] : Run(N, g)
  BY <1>3
<1> DEFINE after == CHOOSE f : f = [n \in 0 .. N |-> Next(f, n)]
<1>5. g = [n \in 0 .. N |-> Next(g, n)]
  BY <1>4
<1>6. after = [n \in 0 .. N |-> Next(after, n)]
  BY <1>5
<1>7. IngestAll(s, q) = after[N]
  BY DEF IngestAll, N
<1> HIDE DEF after
<1>8. \A n \in 0 .. N : after[n] = Next(after, n)
  BY <1>6
<1> DEFINE T == {n \in Nat : n <= N => after[n] \in P[n]}
<1>9. N \in T
  <2>1. 0 \in T
    BY <1>0, <1>8
  <2>2. ASSUME NEW n \in Nat, n \in T PROVE n + 1 \in T
    <3> SUFFICES ASSUME n + 1 <= N PROVE after[n + 1] \in P[n + 1]
      OBVIOUS
    <3>1. n + 1 \in 1 .. N /\ (n + 1) - 1 = n /\ after[n] \in P[n] /\ n + 1 # 0
      BY <1>0, <2>2
    <3>2. after[n + 1] = Next(after, n + 1)
      BY <1>0, <1>8, <3>1
    <3>3. after[n + 1] = Ingest(after[n], q[n + 1])
      BY <3>1, <3>2
    <3> QED BY <3>1, <3>3 DEF N
  <2> HIDE DEF T
  <2> QED BY <1>0, <2>1, <2>2, NatSetInduction
<1> QED BY <1>0, <1>7, <1>9 DEF N

\* What a run of ingests keeps of one: types, dense positions, held rows.
LEMMA IngestAllTables ==
  ASSUME NEW s \in Store, NEW q \in Seq(Event), IsFiniteSet(s.held)
  PROVE  LET u == IngestAll(s, q)
         IN  /\ u \in Store /\ IsFiniteSet(u.held)
             /\ u.held = s.held \cup {q[i].id : i \in 1 .. Len(q)}
             /\ \A c \in s.held : u.arrival[c] = s.arrival[c]
             /\ Dense(s) => Dense(u)
<1> DEFINE H(n) == s.held \cup {q[i].id : i \in 1 .. n}
           Good(t, n) == /\ IsFiniteSet(t.held) /\ t.held = H(n)
                         /\ \A c \in s.held : t.arrival[c] = s.arrival[c]
                         /\ Dense(s) => Dense(t)
           N == Len(q)
           P == [n \in 0 .. N |-> {t \in Store : Good(t, n)}]
<1>0. N \in Nat /\ s.held \subseteq Claim
  BY LenProperties DEF Store
<1>1. s \in P[0]
  BY <1>0
<1>2. ASSUME NEW n \in 1 .. N, NEW t \in P[n - 1]
      PROVE  Ingest(t, q[n]) \in P[n]
  <2>1. n - 1 \in 0 .. N /\ n \in 0 .. N
    BY <1>0
  <2>2. t \in Store /\ Good(t, n - 1)
    BY <2>1
  <2>3. q[n] \in Event
    BY ElementOfSeq
  <2> DEFINE u == Ingest(t, q[n])
  <2>9. t \in Store /\ IsFiniteSet(t.held)
    BY <2>2
  <2>4. /\ u \in Store /\ IsFiniteSet(u.held)
        /\ u.held = t.held \cup {q[n].id}
        /\ \A c \in Claim :
             u.arrival[c] = IF c = q[n].id /\ c \notin t.held
                            THEN LogLen(t, LogOf[c]) ELSE t.arrival[c]
    BY <2>3, <2>9, IngestRows
  <2>5. Dense(t) => Dense(u)
    BY <2>2, <2>3, IngestDense
  <2> HIDE DEF u
  <2>6. H(n) = H(n - 1) \cup {q[n].id}
    <3>1. 1 .. n = (1 .. n - 1) \cup {n}
      BY <1>0
    <3> QED BY <3>1
  <2>7. s.held \subseteq H(n - 1)
    OBVIOUS
  <2> HIDE DEF H
  <2>8. Good(u, n)
    BY <1>0, <2>2, <2>4, <2>5, <2>6, <2>7
  <2> HIDE DEF Good
  <2> QED BY <2>1, <2>4, <2>8 DEF u
<1>3. IngestAll(s, q) \in P[N]
  <2> HIDE DEF P
  <2> QED BY <1>1, <1>2, IngestAllRule
<1>4. N \in 0 .. N
  BY <1>0
<1> HIDE DEF Good
<1>5. IngestAll(s, q) \in Store /\ Good(IngestAll(s, q), N)
  BY <1>3, <1>4
<1> QED BY <1>5 DEF Good

(***************************************************************************)
(* Delivering all of E, once more or for the first time, in any order,     *)
(* makes the rows those of the reference, whatever part of E was in them.  *)
(***************************************************************************)
LEMMA IngestAllDelivers ==
  ASSUME NEW s \in Store, NEW q \in Seq(Event), IsFiniteSet(s.held),
         NEW E \in SUBSET Event, E = {q[i] : i \in 1 .. Len(q)},
         Reflects(s, E, {})
  PROVE  IngestAll(s, q) \in Store /\ RowsRight(IngestAll(s, q), E)
<1> DEFINE F(n) == {q[i] : i \in 1 .. n}
           N == Len(q)
           Good(t, n) == IsFiniteSet(t.held) /\ Reflects(t, E, F(n))
           P == [n \in 0 .. N |-> {t \in Store : Good(t, n)}]
<1>0. N \in Nat
  BY LenProperties
<1>1. s \in P[0]
  <2>1. F(0) = {} /\ 0 \in 0 .. N
    BY <1>0
  <2> HIDE DEF F
  <2> QED BY <2>1
<1>2. ASSUME NEW n \in 1 .. N, NEW t \in P[n - 1]
      PROVE  Ingest(t, q[n]) \in P[n]
  <2>1. n - 1 \in 0 .. N /\ n \in 0 .. N
    BY <1>0
  <2>2. t \in Store /\ Good(t, n - 1)
    BY <2>1
  <2>3. q[n] \in Event /\ q[n] \in E
    BY ElementOfSeq
  <2>4. F(n) = F(n - 1) \cup {q[n]}
    <3>1. 1 .. n = (1 .. n - 1) \cup {n}
      BY <1>0
    <3> QED BY <3>1
  <2>5. F(n - 1) \in SUBSET E
    BY <1>0
  <2> HIDE DEF F
  <2>6. Reflects(Ingest(t, q[n]), E, F(n - 1) \cup {q[n]})
    BY <2>2, <2>3, <2>5, IngestDelivers
  <2>7. Ingest(t, q[n]) \in Store /\ IsFiniteSet(Ingest(t, q[n]).held)
    BY <2>2, <2>3, IngestRows
  <2>8. Good(Ingest(t, q[n]), n)
    BY <2>4, <2>6, <2>7
  <2> HIDE DEF Good
  <2> QED BY <2>1, <2>7, <2>8
<1>3. IngestAll(s, q) \in P[N]
  <2> HIDE DEF P
  <2> QED BY <1>1, <1>2, IngestAllRule
<1>4. N \in 0 .. N /\ F(N) = E
  BY <1>0
<1> HIDE DEF F
<1>5. IngestAll(s, q) \in Store /\ Reflects(IngestAll(s, q), E, E)
  BY <1>3, <1>4
<1> QED BY <1>5, ReflectsRight

-----------------------------------------------------------------------------
(* What a store has of an event, and never loses *)

\* s has what e brings, unless the body was redacted.
Shows(s, e) ==
  /\ e.id \in s.held
  /\ e.body => e.id \in s.body \/ s.redaction[e.id] # None

\* u has all s has: a body is lost to a redaction only, a redaction never.
Keeps(s, u) ==
  /\ s.held \subseteq u.held
  /\ \A c \in s.body : c \in u.body \/ u.redaction[c] # None
  /\ \A c \in Claim : s.redaction[c] # None => u.redaction[c] # None

LEMMA KeepsShows ==
  ASSUME NEW s, NEW u, Keeps(s, u), NEW e \in Event, Shows(s, e)
  PROVE  Shows(u, e)
<1>1. e.id \in Claim
  BY DEF Event
<1> QED BY <1>1 DEF Keeps, Shows

LEMMA KeepsMore ==
  ASSUME NEW s \in Store, NEW t, NEW u, Keeps(s, t), Keeps(t, u)
  PROVE  Keeps(s, u)
<1>1. s.body \subseteq Claim
  BY DEF Store
<1> QED BY <1>1 DEF Keeps

\* One ingest: the event is shown, nothing is lost, no body appears unsent.
LEMMA IngestShows ==
  ASSUME NEW s \in Store, NEW e \in Event, IsFiniteSet(s.held)
  PROVE  /\ Keeps(s, Ingest(s, e))
         /\ Shows(Ingest(s, e), e)
         /\ \A c \in Ingest(s, e).body : c \in s.body \/ (c = e.id /\ e.body)
<1> DEFINE r == Redacted(s, e)
           i == Ingest(s, e)
           kept == BodyKept(r, e)
           t == OwnRedaction(e)
<1>1. /\ r.body = s.body \ Forgotten(s, e)
      /\ \A c \in Claim :
           r.redaction[c] = IF c = t /\ (s.redaction[c] = None \/ e.id < s.redaction[c])
                            THEN e.id ELSE s.redaction[c]
  BY RedactedTables
<1>2. /\ i.held = s.held \cup {e.id}
      /\ i.body = r.body \cup (IF kept THEN {e.id} ELSE {})
      /\ i.redaction = r.redaction
  BY IngestRows
<1>3. /\ e.id \in Claim /\ e.id # None /\ s.body \subseteq Claim
      /\ t \in Claim \cup {None}
  BY ClaimsAssumption, OwnRedactionType DEF Event, Store
<1>4. kept <=> e.body /\ ~Suppressed(r, e)
  BY DEF BodyKept
<1>5. ~Suppressed(r, e) \/ r.redaction[e.id] # None
  BY DEF Suppressed
<1> HIDE DEF i, r, kept, t
<1>6. \A c \in Claim : s.redaction[c] # None => r.redaction[c] # None
  BY <1>1, <1>3
<1>7. \A c \in s.body : c \in r.body \/ r.redaction[c] # None
  <2> SUFFICES ASSUME NEW c \in s.body, c \notin r.body
               PROVE  r.redaction[c] # None
    OBVIOUS
  <2>1. c = t
    BY <1>1 DEF Forgotten, t
  <2>2. CASE s.redaction[c] = None
    BY <1>1, <1>3, <2>1, <2>2
  <2>3. CASE s.redaction[c] # None
    BY <1>3, <1>6, <2>3
  <2> QED BY <2>2, <2>3
<1>8. Keeps(s, i)
  BY <1>2, <1>6, <1>7 DEF Keeps
<1>9. Shows(i, e)
  <2>1. e.id \in i.held
    BY <1>2
  <2>2. ASSUME e.body, ~Suppressed(r, e)
        PROVE  e.id \in i.body
    BY <1>2, <1>4, <2>2
  <2> QED BY <1>2, <1>5, <2>1, <2>2 DEF Shows
<1>10. \A c \in i.body : c \in s.body \/ (c = e.id /\ e.body)
  BY <1>1, <1>2, <1>4
<1> QED BY <1>8, <1>9, <1>10 DEF i

LEMMA IngestAllShows ==
  ASSUME NEW s \in Store, NEW q \in Seq(Event), IsFiniteSet(s.held)
  PROVE  LET u == IngestAll(s, q)
         IN  /\ Keeps(s, u)
             /\ \A j \in 1 .. Len(q) : Shows(u, q[j])
             /\ \A c \in u.body :
                  c \in s.body \/ \E j \in 1 .. Len(q) : c = q[j].id /\ q[j].body
<1> DEFINE Good(t, n) == /\ IsFiniteSet(t.held) /\ Keeps(s, t)
                         /\ \A j \in 1 .. n : Shows(t, q[j])
                         /\ \A c \in t.body :
                              \/ c \in s.body
                              \/ \E j \in 1 .. n : c = q[j].id /\ q[j].body
           N == Len(q)
           P == [n \in 0 .. N |-> {t \in Store : Good(t, n)}]
<1>0. N \in Nat /\ s.held \subseteq Claim
  BY LenProperties DEF Store
<1>1. s \in P[0]
  <2>1. Keeps(s, s)
    BY DEF Keeps
  <2> QED BY <1>0, <2>1
<1>2. ASSUME NEW n \in 1 .. N, NEW t \in P[n - 1]
      PROVE  Ingest(t, q[n]) \in P[n]
  <2>1. n - 1 \in 0 .. N /\ n \in 0 .. N
    BY <1>0
  <2>2. t \in Store /\ Good(t, n - 1)
    BY <2>1
  <2>3. q[n] \in Event /\ \A j \in 1 .. n : q[j] \in Event
    BY <1>0, ElementOfSeq
  <2> DEFINE u == Ingest(t, q[n])
  <2>4. /\ u \in Store /\ IsFiniteSet(u.held)
    BY <2>2, <2>3, IngestRows
  <2>5. /\ Keeps(t, u) /\ Shows(u, q[n])
        /\ \A c \in u.body : c \in t.body \/ (c = q[n].id /\ q[n].body)
    BY <2>2, <2>3, IngestShows
  <2> HIDE DEF u
  <2>6. Keeps(s, u)
    BY <2>2, <2>5, KeepsMore
  <2>7. \A j \in 1 .. n : Shows(u, q[j])
    <3>1. \A j \in 1 .. n : j = n \/ j \in 1 .. n - 1
      BY <1>0
    <3>2. \A j \in 1 .. n - 1 : Shows(t, q[j]) /\ q[j] \in Event
      BY <1>0, <2>2, <2>3
    <3> QED BY <2>5, <3>1, <3>2, KeepsShows
  <2>8. ASSUME NEW c \in u.body
        PROVE  c \in s.body \/ \E j \in 1 .. n : c = q[j].id /\ q[j].body
    BY <1>0, <2>2, <2>5
  <2>9. Good(u, n)
    BY <2>4, <2>6, <2>7, <2>8
  <2> HIDE DEF Good
  <2> QED BY <2>1, <2>4, <2>9 DEF u
<1>3. IngestAll(s, q) \in P[N]
  <2> HIDE DEF P
  <2> QED BY <1>1, <1>2, IngestAllRule
<1>4. N \in 0 .. N
  BY <1>0
<1> HIDE DEF Good
<1>5. Good(IngestAll(s, q), N)
  BY <1>3, <1>4
<1> QED BY <1>5 DEF Good

-----------------------------------------------------------------------------
(* Sorting *)

(***************************************************************************)
(* Sorting by a key that tells the members apart lists each of them once,  *)
(* at the place that counts those before it.                               *)
(***************************************************************************)
LEMMA InOrderSorts ==
  ASSUME NEW C, IsFiniteSet(C), NEW key, \A c \in C : key[c] \in Nat,
         \A c, d \in C : key[c] = key[d] => c = d
  PROVE  LET q == InOrder(C, key)
             n == Cardinality(C)
         IN  /\ n \in Nat
             /\ q \in [1 .. n -> C]
             /\ \A c \in C : \E i \in 1 .. n : q[i] = c
             /\ \A i \in 1 .. n :
                  Cardinality({d \in C : key[d] < key[q[i]]}) = i - 1
             /\ \A i, j \in 1 .. n : i < j => key[q[i]] < key[q[j]]
<1> DEFINE q == InOrder(C, key)
           n == Cardinality(C)
           Before(c) == {d \in C : key[d] < key[c]}
           rank == [c \in C |-> Cardinality(Before(c))]
<1>0. n \in Nat
  BY FS_CardinalityType
<1>1. ASSUME NEW c \in C
      PROVE  /\ IsFiniteSet(Before(c)) /\ Cardinality(Before(c)) \in Nat
             /\ Cardinality(Before(c) \cup {c}) = Cardinality(Before(c)) + 1
             /\ IsFiniteSet(Before(c) \cup {c})
             /\ Before(c) \cup {c} \subseteq C
  <2>1. IsFiniteSet(Before(c)) /\ c \notin Before(c)
    BY FS_Subset
  <2>2. Before(c) \cup {c} \subseteq C
    OBVIOUS
  <2> HIDE DEF Before
  <2> QED BY <2>1, <2>2, FS_CardinalityType, FS_AddElement
<1>2. ASSUME NEW c \in C, NEW d \in C, key[c] < key[d]
      PROVE  Before(c) \cup {c} \subseteq Before(d)
  BY <1>2
<1> HIDE DEF Before
<1>3. ASSUME NEW c \in C PROVE rank[c] \in Nat /\ rank[c] + 1 <= n
  <2>1. Cardinality(Before(c) \cup {c}) <= Cardinality(C)
    BY <1>1, FS_Subset
  <2> QED BY <1>1, <2>1
<1>4. ASSUME NEW c \in C, NEW d \in C, key[c] < key[d]
      PROVE  rank[c] < rank[d]
  <2>1. Cardinality(Before(c) \cup {c}) <= Cardinality(Before(d))
    BY <1>1, <1>2, <1>4, FS_Subset
  <2>2. /\ Cardinality(Before(c)) \in Nat /\ Cardinality(Before(d)) \in Nat
        /\ Cardinality(Before(c) \cup {c}) = Cardinality(Before(c)) + 1
    BY <1>1
  <2>3. Cardinality(Before(c)) < Cardinality(Before(d))
    BY <2>1, <2>2
  <2> QED BY <2>3
<1>t. \A c \in C : Cardinality(Before(c)) = rank[c]
  OBVIOUS
<1>q. q = [i \in 1 .. n |-> CHOOSE c \in C : Cardinality(Before(c)) = i - 1]
  BY DEF InOrder, Before
<1>f. rank = [c \in C |-> rank[c]]
  OBVIOUS
<1> HIDE DEF rank, n, q
<1>i. \A c, d \in C : rank[c] = rank[d] => c = d
  <2> SUFFICES ASSUME NEW c \in C, NEW d \in C, c # d PROVE rank[c] # rank[d]
    OBVIOUS
  <2>1. key[c] < key[d] \/ key[d] < key[c]
    OBVIOUS
  <2> QED BY <1>3, <1>4, <2>1
<1>5. ASSUME NEW i \in 1 .. n PROVE \E c \in C : rank[c] = i - 1
  <2>1. rank \in [C -> 0 .. n - 1]
    BY <1>0, <1>f, <1>3
  <2>2. rank \in Injection(C, 0 .. n - 1)
    BY <1>i, <2>1 DEF Injection, IsInjective
  <2>3. IsFiniteSet(0 .. n - 1) /\ Cardinality(0 .. n - 1) = n
    BY <1>0, FS_Interval
  <2>4. rank \in Surjection(C, 0 .. n - 1)
    BY <2>2, <2>3, FS_Injection DEF n
  <2>5. i - 1 \in 0 .. n - 1
    BY <1>0
  <2> QED BY <2>4, <2>5 DEF Surjection
<1>6. ASSUME NEW i \in 1 .. n PROVE q[i] \in C /\ rank[q[i]] = i - 1
  <2>1. q[i] = CHOOSE c \in C : Cardinality(Before(c)) = i - 1
    BY <1>q
  <2>2. \E c \in C : Cardinality(Before(c)) = i - 1
    BY <1>5, <1>t
  <2> QED BY <1>t, <2>1, <2>2
<1>7. q \in [1 .. n -> C]
  BY <1>6, <1>q
<1>8. ASSUME NEW c \in C PROVE \E i \in 1 .. n : q[i] = c
  <2>1. rank[c] + 1 \in 1 .. n
    BY <1>0, <1>3
  <2>2. q[rank[c] + 1] \in C /\ rank[q[rank[c] + 1]] = rank[c]
    BY <1>3, <1>6, <2>1
  <2> QED BY <1>i, <2>1, <2>2
<1>9. ASSUME NEW i \in 1 .. n, NEW j \in 1 .. n, i < j
      PROVE  key[q[i]] < key[q[j]]
  <2>1. /\ q[i] \in C /\ q[j] \in C
        /\ rank[q[i]] = i - 1 /\ rank[q[j]] = j - 1
    BY <1>6
  <2>2. ~(rank[q[j]] < rank[q[i]]) /\ q[i] # q[j]
    BY <1>9, <2>1
  <2>3. ~(key[q[j]] < key[q[i]])
    BY <1>4, <2>1, <2>2
  <2>4. key[q[j]] # key[q[i]]
    BY <2>1, <2>2
  <2> QED BY <2>1, <2>3, <2>4
<1>10. \A i \in 1 .. n : Cardinality(Before(q[i])) = i - 1
  BY <1>6, <1>t
<1> QED BY <1>0, <1>7, <1>8, <1>9, <1>10 DEF q, n, Before

\* Keys without gaps are places.
LEMMA InOrderPlaces ==
  ASSUME NEW C, IsFiniteSet(C), NEW key, NEW low \in Nat, NEW high \in Int,
         {key[c] : c \in C} = low .. high,
         \A c, d \in C : key[c] = key[d] => c = d
  PROVE  \A i \in 1 .. Cardinality(C) : key[InOrder(C, key)[i]] = low + i - 1
<1> DEFINE q == InOrder(C, key)
           n == Cardinality(C)
<1>1. \A c \in C : key[c] \in Nat
  OBVIOUS
<1>2. SUFFICES ASSUME NEW i \in 1 .. n PROVE key[q[i]] = low + i - 1
  OBVIOUS
<1>3. q[i] \in C /\ n \in Nat /\ Cardinality({d \in C : key[d] < key[q[i]]}) = i - 1
  BY <1>1, InOrderSorts
<1> HIDE DEF q
<1> DEFINE c == q[i]
           B == {d \in C : key[d] < key[c]}
           T == low .. key[c] - 1
           f == [d \in B |-> key[d]]
<1>4. key[c] \in low .. high
  BY <1>3
<1>5. f \in Bijection(B, T)
  <2>1. f \in [B -> T]
    <3>1. ASSUME NEW d \in B PROVE key[d] \in T
      <4>1. key[d] \in low .. high /\ key[d] < key[c]
        OBVIOUS
      <4> QED BY <1>4, <4>1
    <3> QED BY <3>1
  <2>2. \A d, e \in B : f[d] = f[e] => d = e
    OBVIOUS
  <2>3. ASSUME NEW t \in T PROVE \E d \in B : f[d] = t
    <3>1. t \in low .. high
      BY <1>4
    <3>2. PICK d \in C : key[d] = t
      BY <3>1
    <3> QED BY <1>4, <3>2
  <2> HIDE DEF f, B, T
  <2> QED BY <2>1, <2>2, <2>3, Fun_IsBij DEF Bijection, Injection, Surjection, IsInjective
<1>6. Cardinality(T) = Cardinality(B)
  <2>1. IsFiniteSet(B)
    BY FS_Subset
  <2>2. ExistsBijection(B, T)
    BY <1>5 DEF ExistsBijection
  <2> HIDE DEF B, T
  <2> QED BY <2>1, <2>2, FS_Bijection
<1>7. Cardinality(T) = key[c] - low
  BY <1>4, FS_Interval
<1> QED BY <1>3, <1>4, <1>6, <1>7

\* Functions on 1 .. n are sequences of length n.
LEMMA IsListed ==
  ASSUME NEW T, NEW n \in Nat, NEW q \in [1 .. n -> T]
  PROVE  q \in Seq(T) /\ Len(q) = n
<1>1. q \in Seq(T)
  BY SeqDef
<1>2. Len(q) \in Nat /\ DOMAIN q = 1 .. Len(q)
  BY <1>1, LenProperties
<1>3. 1 .. n = 1 .. Len(q)
  BY <1>2
<1>4. n = Len(q)
  BY <1>2, <1>3
<1> QED BY <1>1, <1>4

\* The rows named by a list are events, in the list's order.
LEMMA EventsOfList ==
  ASSUME NEW s, NEW n \in Nat, NEW q \in [1 .. n -> Claim]
  PROVE  /\ EventsOf(s, q) \in Seq(Event)
         /\ Len(EventsOf(s, q)) = n
         /\ \A i \in 1 .. n : EventsOf(s, q)[i] = EventOf(s, q[i])
<1> DEFINE es == EventsOf(s, q)
<1>1. es = [i \in 1 .. n |-> EventOf(s, q[i])]
  BY DEF EventsOf
<1>2. \A c \in Claim : EventOf(s, c) \in Event
  BY DEF EventOf, Event
<1> HIDE DEF es
<1>3. es \in [1 .. n -> Event]
  BY <1>1, <1>2
<1>4. es \in Seq(Event) /\ Len(es) = n
  BY <1>3, IsListed
<1>5. \A i \in 1 .. n : es[i] = EventOf(s, q[i])
  BY <1>1
<1> QED BY <1>4, <1>5 DEF es

\* The events of rows, each listed once, in the order of their keys.
LEMMA EventsListed ==
  ASSUME NEW s, NEW C \in SUBSET Claim, IsFiniteSet(C),
         NEW key, \A c \in C : key[c] \in Nat,
         \A c, d \in C : key[c] = key[d] => c = d
  PROVE  LET q == InOrder(C, key)
             es == EventsOf(s, q)
         IN  /\ es \in Seq(Event)
             /\ Len(es) = Cardinality(C)
             /\ \A i \in 1 .. Len(es) : q[i] \in C /\ es[i] = EventOf(s, q[i])
             /\ \A c \in C : \E i \in 1 .. Len(es) : es[i] = EventOf(s, c)
<1> DEFINE q == InOrder(C, key)
           es == EventsOf(s, q)
           n == Cardinality(C)
<1>1. /\ n \in Nat
      /\ q \in [1 .. n -> C]
      /\ \A c \in C : \E i \in 1 .. n : q[i] = c
  BY InOrderSorts
<1> HIDE DEF q, n
<1>2. es = [i \in 1 .. n |-> EventOf(s, q[i])]
  BY <1>1 DEF EventsOf
<1> HIDE DEF es
<1>3. \A c \in C : EventOf(s, c) \in Event
  BY DEF EventOf, Event
<1>4. es \in [1 .. n -> Event]
  BY <1>1, <1>2, <1>3
<1>5. es \in Seq(Event) /\ Len(es) = n
  BY <1>1, <1>4, IsListed
<1>6. \A c \in C : \E i \in 1 .. n : es[i] = EventOf(s, c)
  BY <1>1, <1>2
<1>7. \A i \in 1 .. n : q[i] \in C /\ es[i] = EventOf(s, q[i])
  BY <1>1, <1>2
<1> QED BY <1>5, <1>6, <1>7 DEF es, q, n
=============================================================================
