---------------------------- MODULE StoreProofs ----------------------------
(***************************************************************************)
(* Theorems about the claim store.  About ClaimStore, for every set of     *)
(* claims, logs, blobs and replicas: what ingest makes of any deliveries.  *)
(* About IngestSteps, for every set of claims and blobs: over a            *)
(* transactional backend the writes of one ingest, with their faults and   *)
(* crashes, implement the atomic ingest of ClaimStore.                     *)
(***************************************************************************)
EXTENDS ClaimStore, IngestSteps, ClaimOpsProofs

-----------------------------------------------------------------------------
(* The inductive invariant *)

HeldFinite == \A r \in Replica : IsFiniteSet(store[r].held)

IInv == StoreTypeOK /\ HeldFinite /\ Canonicity /\ ArrivalsDense

LEMMA InitIInv == StoreInit => IInv
<1> SUFFICES ASSUME StoreInit PROVE IInv
  OBVIOUS
<1>1. StoreTypeOK
  BY EmptyStoreType DEF StoreInit, StoreTypeOK
<1>2. HeldFinite
  BY FS_EmptySet DEF StoreInit, HeldFinite, EmptyStore
<1>3. Canonical(EmptyStore, {})
  BY DEF Canonical, RowsRight, EmptyStore, SeenIds, SeenBodies, LiveBodies, RedactorsOf,
         RedactionRight, IndexAgrees
<1>4. Dense(EmptyStore)
  <2>1. \A l \in Log : LogRows(EmptyStore, l) = {} /\ LogLen(EmptyStore, l) = 0
    BY FS_EmptySet DEF LogRows, LogLen, EmptyStore
  <2>2. 0 .. 0 - 1 = {}
    OBVIOUS
  <2>3. ArrivalsUnique(EmptyStore)
    BY DEF ArrivalsUnique, EmptyStore
  <2>4. ASSUME NEW l \in Log
        PROVE  {EmptyStore.arrival[c] : c \in LogRows(EmptyStore, l)} = {}
    BY <2>1
  <2> QED BY <2>1, <2>2, <2>3, <2>4 DEF Dense
<1> QED BY <1>1, <1>2, <1>3, <1>4 DEF StoreInit, IInv, Canonicity, ArrivalsDense

LEMMA NextIInv == IInv /\ [StoreNext]_storeVars => IInv'
<1> SUFFICES ASSUME IInv, [StoreNext]_storeVars PROVE IInv'
  OBVIOUS
<1>1. CASE UNCHANGED storeVars
  BY <1>1 DEF storeVars, IInv, StoreTypeOK, HeldFinite, Canonicity, ArrivalsDense
<1>2. ASSUME NEW r \in Replica, NEW e \in Event, IngestEvent(r, e)
      PROVE  IInv'
  <2>1. /\ store[r] \in Store /\ seen[r] \in SUBSET Event
        /\ IsFiniteSet(store[r].held)
        /\ Canonical(store[r], seen[r]) /\ IndexAgrees(store[r])
        /\ Dense(store[r])
    BY DEF IInv, StoreTypeOK, HeldFinite, Canonicity, ArrivalsDense, Canonical
  <2>2. /\ store' \in [Replica -> Store] /\ seen' \in [Replica -> SUBSET Event]
        /\ store'[r] = Ingest(store[r], e) /\ seen'[r] = seen[r] \cup {e}
        /\ \A q \in Replica : q # r => store'[q] = store[q] /\ seen'[q] = seen[q]
    <3>1. Ingest(store[r], e) \in Store
      BY <2>1, IngestTables
    <3> QED BY <1>2, <2>1, <3>1 DEF IngestEvent, IInv, StoreTypeOK
  <2>3. StoreTypeOK'
    BY <2>2 DEF StoreTypeOK
  <2>4. HeldFinite'
    <3>1. IsFiniteSet(store'[r].held)
      BY <2>1, <2>2, IngestTables
    <3> QED BY <2>2, <3>1 DEF IInv, HeldFinite
  <2>5. Canonicity'
    <3>1. Canonical(store'[r], seen'[r])
      BY <2>1, <2>2, IngestCanonical
    <3> QED BY <2>2, <3>1 DEF IInv, Canonicity
  <2>6. ArrivalsDense'
    <3>1. Dense(store'[r])
      BY <2>1, <2>2, IngestDense
    <3> QED BY <2>2, <3>1 DEF IInv, ArrivalsDense
  <2> QED BY <2>3, <2>4, <2>5, <2>6 DEF IInv
<1> QED BY <1>1, <1>2 DEF StoreNext

LEMMA Invariance == StoreSpec => []IInv
BY InitIInv, NextIInv, PTL DEF StoreSpec

-----------------------------------------------------------------------------
(* The theorems *)

(***************************************************************************)
(* Every table of every store keeps its type, for any number of claims.    *)
(***************************************************************************)
THEOREM TypeCorrect == StoreSpec => []StoreTypeOK
<1>1. IInv => StoreTypeOK
  BY DEF IInv
<1> QED BY <1>1, Invariance, PTL

(***************************************************************************)
(* ClaimStore::ingest computes the reference function of the set of events *)
(* it was given, whatever their order.                                     *)
(***************************************************************************)
THEOREM StoreIsCanonical == StoreSpec => []Canonicity
<1>1. IInv => Canonicity
  BY DEF IInv
<1> QED BY <1>1, Invariance, PTL

(***************************************************************************)
(* store.rs:3-9, convergence: equal sets of received events, equal state.  *)
(***************************************************************************)
THEOREM StoresConverge == StoreSpec => []Convergence
<1>1. IInv => Convergence
  <2> SUFFICES ASSUME IInv, NEW r \in Replica, NEW q \in Replica,
                      seen[r] = seen[q]
               PROVE  StateVector(store[r]) = StateVector(store[q])
    BY DEF Convergence
  <2>1. /\ store[r] \in Store /\ store[q] \in Store
        /\ seen[r] \in SUBSET Event
        /\ Canonical(store[r], seen[r]) /\ Canonical(store[q], seen[r])
    BY DEF IInv, StoreTypeOK, Canonicity
  <2> QED BY <2>1, RowsUnique DEF Canonical
<1> QED BY <1>1, Invariance, PTL

\* What a canonical store's redaction rows rest on.
LEMMA CanonicalBacked ==
  ASSUME NEW s \in Store, NEW E \in SUBSET Event, Canonical(s, E)
  PROVE  BodiesForgotten(s) /\ RedactionsBacked(s)
<1>1. BodiesForgotten(s)
  BY SeenType DEF BodiesForgotten, Canonical, RowsRight, LiveBodies, RedactionRight
<1>2. ASSUME NEW t \in Claim, s.redaction[t] # None
      PROVE  s.redaction[t] \in s.body /\ RedactTarget[s.redaction[t]] = t
  <2>1. s.redaction[t] \in RedactorsOf(E, t)
    BY <1>2 DEF Canonical, RowsRight, RedactionRight
  <2>2. t # None
    BY ClaimsAssumption
  <2> QED BY <2>1, <2>2 DEF RedactorsOf, LiveBodies, Canonical, RowsRight
<1> QED BY <1>1, <1>2 DEF RedactionsBacked

(***************************************************************************)
(* The fsck's redaction checks never fire on a store that only ingests.    *)
(***************************************************************************)
THEOREM FsckStaysHealthy == StoreSpec => []FsckHealthy
<1>1. IInv => FsckHealthy
  <2> SUFFICES ASSUME IInv, NEW r \in Replica
               PROVE  BodiesForgotten(store[r]) /\ RedactionsBacked(store[r])
    BY DEF FsckHealthy
  <2>1. /\ store[r] \in Store /\ seen[r] \in SUBSET Event
        /\ Canonical(store[r], seen[r])
    BY DEF IInv, StoreTypeOK, Canonicity
  <2> QED BY <2>1, CanonicalBacked
<1> QED BY <1>1, Invariance, PTL

(***************************************************************************)
(* Cursors count: positions are 0, 1, ... in each log, one row each.       *)
(***************************************************************************)
THEOREM ArrivalsAreDense == StoreSpec => []ArrivalsDense
<1>1. IInv => ArrivalsDense
  BY DEF IInv
<1> QED BY <1>1, Invariance, PTL

(***************************************************************************)
(* The rows a store dumps are themselves events, and the store is right    *)
(* about them: redactors are among them, since redact claims are kept.     *)
(***************************************************************************)
LEMMA RightAboutItself ==
  ASSUME NEW s \in Store, NEW E \in SUBSET Event, RowsRight(s, E)
  PROVE  Events(s) \in SUBSET Event /\ RowsRight(s, Events(s))
<1> DEFINE D == Events(s)
<1>0. /\ s.held = SeenIds(E) /\ s.body = LiveBodies(E) /\ RedactionRight(s, E)
      /\ s.held \subseteq Claim /\ s.body \subseteq s.held
  BY SeenType DEF RowsRight, Store, LiveBodies
<1>e. \A c \in s.held : /\ EventOf(s, c) \in Event /\ EventOf(s, c).id = c
                        /\ EventOf(s, c).body <=> c \in s.body
  <2>1. \A c \in s.held : EventOf(s, c) \in Event
    BY <1>0 DEF EventOf, Event
  <2>2. ASSUME NEW c \in s.held
        PROVE  EventOf(s, c).id = c /\ (EventOf(s, c).body <=> c \in s.body)
    BY Zenon DEF EventOf
  <2> QED BY <2>1, <2>2
<1>1. D \in SUBSET Event /\ SeenIds(D) = s.held
  BY <1>0, <1>e DEF Events, SeenIds
<1>2. SeenBodies(D) = s.body
  BY <1>0, <1>e DEF Events, SeenBodies
<1> HIDE DEF D
<1>3. ASSUME NEW t \in Claim PROVE RedactorsOf(D, t) = RedactorsOf(E, t)
  BY <1>0, <1>2, ClaimsAssumption DEF RedactorsOf, LiveBodies
<1>4. LiveBodies(D) = s.body
  <2>1. s.body \subseteq Claim
    BY <1>0
  <2> QED BY <1>0, <1>2, <1>3, <2>1 DEF LiveBodies
<1>5. RedactionRight(s, D)
  BY <1>0, <1>3 DEF RedactionRight
<1> QED BY <1>0, <1>1, <1>4, <1>5 DEF RowsRight, D

\* The dump lists every row once.
LEMMA DumpLists ==
  ASSUME NEW s \in Store, IsFiniteSet(s.held)
  PROVE  /\ Dump(s) \in Seq(Event)
         /\ {Dump(s)[i] : i \in 1 .. Len(Dump(s))} = Events(s)
<1>1. /\ \A c \in s.held : ByHash[c] \in Nat
      /\ \A c, d \in s.held : ByHash[c] = ByHash[d] => c = d
      /\ s.held \in SUBSET Claim
  BY ClaimsAssumption DEF ByHash, Store
<1> DEFINE es == EventsOf(s, InOrder(s.held, ByHash))
<1>2. es \in Seq(Event)
  BY <1>1, EventsListed
<1>3. \A i \in 1 .. Len(es) : \E c \in s.held : es[i] = EventOf(s, c)
  BY <1>1, <1>2, EventsListed
<1>4. \A c \in s.held : \E i \in 1 .. Len(es) : es[i] = EventOf(s, c)
  BY <1>1, <1>2, EventsListed
<1>5. Dump(s) = es
  BY DEF Dump
<1> HIDE DEF es
<1> QED BY <1>2, <1>3, <1>4, <1>5 DEF Events

(***************************************************************************)
(* store.rs:486-491: replaying a dump into an empty store rebuilds what    *)
(* the store replicates, also the redactions whose bodies are long gone.   *)
(***************************************************************************)
THEOREM DumpsRestore == StoreSpec => []DumpRestores
<1>1. IInv => DumpRestores
  <2> SUFFICES ASSUME IInv, NEW r \in Replica
               PROVE  StateVector(IngestAll(EmptyStore, Dump(store[r])))
                        = StateVector(store[r])
    BY DEF DumpRestores
  <2> DEFINE s == store[r]
  <2>1. /\ s \in Store /\ IsFiniteSet(s.held)
        /\ seen[r] \in SUBSET Event /\ RowsRight(s, seen[r])
    BY DEF IInv, StoreTypeOK, HeldFinite, Canonicity, Canonical
  <2> HIDE DEF s
  <2>2. Events(s) \in SUBSET Event /\ RowsRight(s, Events(s))
    BY <2>1, RightAboutItself
  <2>3. /\ Dump(s) \in Seq(Event)
        /\ Events(s) = {Dump(s)[i] : i \in 1 .. Len(Dump(s))}
    BY <2>1, DumpLists
  <2>4. /\ EmptyStore \in Store /\ IsFiniteSet(EmptyStore.held)
        /\ Reflects(EmptyStore, Events(s), {})
    BY EmptyStoreType, FS_EmptySet
       DEF EmptyStore, Reflects, SeenIds, SeenBodies, RedactorsOf
  <2>5. /\ IngestAll(EmptyStore, Dump(s)) \in Store
        /\ RowsRight(IngestAll(EmptyStore, Dump(s)), Events(s))
    BY <2>2, <2>3, <2>4, IngestAllDelivers
  <2> QED BY <2>1, <2>2, <2>5, RowsUnique DEF s
<1> QED BY <1>1, Invariance, PTL

\* A fingerprint tells which rows of a log are held, and which with bodies.
LEMMA FingerprintRows ==
  ASSUME NEW s \in Store, NEW l \in Log, NEW c \in Claim, NEW b \in BOOLEAN
  PROVE  <<"claim", c, b>> \in Fingerprint(s, l)
           <=> c \in LogRows(s, l) /\ b = (c \in s.body)
BY DEF Fingerprint

\* It tells the redactions whose redactor is one of those rows.
LEMMA FingerprintRedactions ==
  ASSUME NEW s \in Store, NEW l \in Log, NEW t \in Claim, NEW by \in Claim
  PROVE  <<"redaction", t, by>> \in Fingerprint(s, l)
           <=> s.redaction[t] = by /\ by \in LogRows(s, l)
BY DEF Fingerprint

LEMMA EqualFingerprints ==
  ASSUME NEW s \in Store, NEW u \in Store,
         RedactionsBacked(s), s.body \subseteq s.held,
         \A l \in Log : Fingerprint(s, l) = Fingerprint(u, l)
  PROVE  /\ s.held \subseteq u.held
         /\ \A c \in s.held : c \in s.body <=> c \in u.body
         /\ \A t \in Claim : s.redaction[t] # None
                               => u.redaction[t] = s.redaction[t]
<1>1. ASSUME NEW c \in s.held
      PROVE  c \in u.held /\ (c \in s.body <=> c \in u.body)
  <2>1. c \in Claim /\ LogOf[c] \in Log /\ c \in LogRows(s, LogOf[c])
    BY ClaimsAssumption DEF Store, LogRows
  <2> DEFINE b == c \in s.body
  <2>2. b \in BOOLEAN
    OBVIOUS
  <2>3. <<"claim", c, b>> \in Fingerprint(s, LogOf[c])
    BY <2>1 DEF Fingerprint
  <2>4. <<"claim", c, b>> \in Fingerprint(u, LogOf[c])
    BY <2>1, <2>3
  <2> HIDE DEF b
  <2>5. c \in LogRows(u, LogOf[c]) /\ b = (c \in u.body)
    BY <2>1, <2>2, <2>4, FingerprintRows
  <2> QED BY <2>5 DEF LogRows, b
<1>2. ASSUME NEW t \in Claim, s.redaction[t] # None
      PROVE  u.redaction[t] = s.redaction[t]
  <2> DEFINE by == s.redaction[t]
  <2>1. by \in s.held /\ by \in Claim /\ LogOf[by] \in Log
    BY <1>2, ClaimsAssumption DEF RedactionsBacked, Store
  <2>2. <<"redaction", t, by>> \in Fingerprint(s, LogOf[by])
    BY <2>1, FingerprintRedactions DEF LogRows
  <2>3. <<"redaction", t, by>> \in Fingerprint(u, LogOf[by])
    BY <2>1, <2>2
  <2> QED BY <2>1, <2>3, FingerprintRedactions
<1> QED BY <1>1, <1>2

(***************************************************************************)
(* store.rs:515-518: agreeing fingerprints on every log mean one state.    *)
(* The redactor of every redaction row is held, so no row goes unhashed.   *)
(***************************************************************************)
THEOREM FingerprintsSuffice == StoreSpec => []FingerprintsDecide
<1>1. IInv => FingerprintsDecide
  <2> SUFFICES ASSUME IInv, NEW r \in Replica, NEW q \in Replica,
                      \A l \in Log : Fingerprint(store[r], l)
                                       = Fingerprint(store[q], l)
               PROVE  StateVector(store[r]) = StateVector(store[q])
    BY DEF FingerprintsDecide
  <2> DEFINE s == store[r]
             u == store[q]
  <2>1. ASSUME NEW p \in Replica
        PROVE  /\ store[p] \in Store
               /\ RedactionsBacked(store[p])
               /\ store[p].body \subseteq store[p].held
    <3>1. /\ store[p] \in Store /\ seen[p] \in SUBSET Event
          /\ Canonical(store[p], seen[p])
      BY DEF IInv, StoreTypeOK, Canonicity
    <3>2. store[p].body \subseteq store[p].held
      BY <3>1, SeenType DEF Canonical, RowsRight, LiveBodies
    <3> QED BY <3>1, <3>2, CanonicalBacked
  <2>2. /\ s \in Store /\ u \in Store
        /\ RedactionsBacked(s) /\ RedactionsBacked(u)
        /\ s.body \subseteq s.held /\ u.body \subseteq u.held
    BY <2>1
  <2> HIDE DEF s, u
  <2>3. \A l \in Log : Fingerprint(s, l) = Fingerprint(u, l)
    BY DEF s, u
  <2>4. /\ s.held \subseteq u.held
        /\ \A c \in s.held : c \in s.body <=> c \in u.body
        /\ \A t \in Claim : s.redaction[t] # None
                              => u.redaction[t] = s.redaction[t]
    BY <2>2, <2>3, EqualFingerprints
  <2>5. /\ u.held \subseteq s.held
        /\ \A t \in Claim : u.redaction[t] # None
                              => s.redaction[t] = u.redaction[t]
    BY <2>2, <2>3, EqualFingerprints
  <2>6. s.held = u.held /\ s.body = u.body
    BY <2>2, <2>4, <2>5
  <2>7. s.redaction = u.redaction
    BY <2>2, <2>4, <2>5 DEF Store
  <2>8. Events(s) = Events(u)
    BY <2>6 DEF Events, EventOf
  <2> QED BY <2>7, <2>8 DEF StateVector, s, u
<1> QED BY <1>1, Invariance, PTL

-----------------------------------------------------------------------------
(* What no step does *)

(***************************************************************************)
(* store.rs:11-14, "no un-redact, in any arrival order".                   *)
(***************************************************************************)
THEOREM RedactionsStick == StoreSpec => RedactionSticks
<1> DEFINE Sticks ==
             \A r \in Replica, t \in Claim :
               store[r].redaction[t] # None =>
                 /\ store'[r].redaction[t] # None
                 /\ store'[r].redaction[t] <= store[r].redaction[t]
                 /\ RedactTarget[t] = None => t \notin store'[r].body
<1>1. IInv /\ IInv' /\ [StoreNext]_storeVars => [Sticks]_storeVars
  <2> SUFFICES ASSUME IInv, IInv', StoreNext, NEW r \in Replica, NEW t \in Claim,
                      store[r].redaction[t] # None
               PROVE  /\ store'[r].redaction[t] # None
                      /\ store'[r].redaction[t] <= store[r].redaction[t]
                      /\ RedactTarget[t] = None => t \notin store'[r].body
    BY DEF Sticks
  <2>1. PICK q \in Replica, e \in Event : IngestEvent(q, e)
    BY DEF StoreNext
  <2>2. /\ store \in [Replica -> Store]
        /\ store[r] \in Store /\ IsFiniteSet(store[r].held)
        /\ IndexAgrees(store[r])
    BY DEF IInv, StoreTypeOK, HeldFinite, Canonicity, Canonical
  <2>3. store[r].redaction[t] \in Nat /\ e.id \in Nat /\ e.id # None
    BY <2>2, ClaimsAssumption DEF Store, Event
  <2>4. store'[r].redaction[t] # None /\ RedactTarget[t] = None
          => t \notin store'[r].body
    <3>1. Canonical(store'[r], seen'[r]) /\ seen'[r] \in SUBSET Event
      BY DEF IInv, Canonicity, StoreTypeOK
    <3>2. BodiesForgotten(store'[r])
      BY <3>1, CanonicalBacked DEF IInv, StoreTypeOK
    <3> QED BY <3>2 DEF BodiesForgotten
  <2>5. CASE q = r
    <3>1. store'[r] = Ingest(store[r], e)
      BY <2>1, <2>2, <2>5 DEF IngestEvent
    <3>2. store'[r].redaction[t] =
            IF t = OwnRedaction(e) /\ (store[r].redaction[t] = None
                                         \/ e.id < store[r].redaction[t])
            THEN e.id ELSE store[r].redaction[t]
      BY <2>2, <3>1, IngestTables, RedactedTables
    <3> QED BY <2>3, <2>4, <3>2
  <2>6. CASE q # r
    <3>1. store'[r] = store[r]
      BY <2>1, <2>2, <2>6 DEF IngestEvent
    <3> QED BY <2>3, <2>4, <3>1
  <2> QED BY <2>5, <2>6
<1>2. [][Sticks]_storeVars => RedactionSticks
  BY DEF RedactionSticks
<1> QED BY <1>1, <1>2, Invariance, PTL DEF StoreSpec

(***************************************************************************)
(* A row never leaves and never moves, whatever is ingested: a cursor into *)
(* a store keeps its meaning.                                              *)
(***************************************************************************)
THEOREM ArrivalsAreStable == StoreSpec => ArrivalStable
<1> DEFINE Stable ==
             \A r \in Replica : \A c \in store[r].held :
               /\ c \in store'[r].held
               /\ store'[r].arrival[c] = store[r].arrival[c]
<1>1. IInv /\ [StoreNext]_storeVars => [Stable]_storeVars
  <2> SUFFICES ASSUME IInv, StoreNext, NEW r \in Replica, NEW c \in store[r].held
               PROVE  /\ c \in store'[r].held
                      /\ store'[r].arrival[c] = store[r].arrival[c]
    BY DEF Stable
  <2>1. PICK q \in Replica, e \in Event : IngestEvent(q, e)
    BY DEF StoreNext
  <2>2. /\ store \in [Replica -> Store]
        /\ store[r] \in Store /\ IsFiniteSet(store[r].held)
        /\ IndexAgrees(store[r]) /\ c \in Claim
    BY DEF IInv, StoreTypeOK, HeldFinite, Canonicity, Canonical, Store
  <2>3. CASE q = r
    <3>1. store'[r] = Ingest(store[r], e)
      BY <2>1, <2>2, <2>3 DEF IngestEvent
    <3> QED BY <2>2, <3>1, IngestTables
  <2>4. CASE q # r
    <3>1. store'[r] = store[r]
      BY <2>1, <2>2, <2>4 DEF IngestEvent
    <3> QED BY <3>1
  <2> QED BY <2>3, <2>4
<1>2. [][Stable]_storeVars => ArrivalStable
  BY DEF ArrivalStable
<1> QED BY <1>1, <1>2, Invariance, PTL DEF StoreSpec

-----------------------------------------------------------------------------
(* One ingest, a storage write at a time *)

\* Stores are equal when their tables are.
LEMMA StoreExt ==
  ASSUME NEW s \in Store, NEW u \in Store,
         s.held = u.held, s.body = u.body, s.arrival = u.arrival,
         s.redaction = u.redaction, s.links = u.links, s.pins = u.pins
  PROVE  s = u
BY DEF Store

LEMMA EdgesType ==
  ASSUME NEW c \in Claim
  PROVE  Edges(c) \in EdgeSet /\ NoEdges \in EdgeSet
BY ClaimsAssumption DEF Edges, NoEdges, EdgeSet, LinksOf, PinsOf

-----------------------------------------------------------------------------
(* Types, and what poisoning brackets *)

(***************************************************************************)
(* While an ingest is in flight the store is poisoned; outside of one, and *)
(* always where nothing is bracketed, what is read is what is durable.     *)
(***************************************************************************)
Bracketed ==
  /\ phase # "idle" => poisoned /\ event \in Event
  /\ ~transactional => db = disk
  /\ ZeroDebris

Finite == IsFiniteSet(db.held) /\ IsFiniteSet(disk.held)

Sound == TypeOK /\ Finite /\ Bracketed

LEMMA InitSound == Init => Sound
<1> SUFFICES ASSUME Init PROVE Sound
  OBVIOUS
<1>1. TypeOK
  <2>1. transactional \in BOOLEAN /\ poisoned \in BOOLEAN
    BY Zenon DEF Init
  <2> QED BY <2>1, EmptyStoreType DEF Init, TypeOK, Phases, NoEdges, EdgeSet
<1>2. Finite
  BY FS_EmptySet DEF Init, Finite, EmptyStore
<1>3. Bracketed
  BY DEF Init, Bracketed, ZeroDebris
<1> QED BY <1>1, <1>2, <1>3 DEF Sound

\* A write of a typed store: where it lands is typed as well.
LEMMA WriteSound ==
  ASSUME Sound, NEW s \in Store, IsFiniteSet(s.held), Write(s)
  PROVE  /\ db' = s /\ db' \in Store /\ disk' \in Store
         /\ IsFiniteSet(db'.held) /\ IsFiniteSet(disk'.held)
         /\ transactional => disk' = disk
         /\ ~transactional => db' = disk'
BY DEF Write, Sound, TypeOK, Finite

\* Inside the bracket the rest follows from the phase.
LEMMA InFlight ==
  ASSUME Sound, UNCHANGED <<transactional, event, poisoned, done, tried>>,
         phase # "idle", phase' \in Phases \ {"idle"}, todo' \in EdgeSet,
         db' \in Store, disk' \in Store,
         IsFiniteSet(db'.held), IsFiniteSet(disk'.held),
         ~transactional => db' = disk'
  PROVE  Sound'
<1>1. TypeOK'
  BY Zenon DEF Sound, TypeOK
<1>2. Bracketed'
  BY Zenon DEF Sound, Bracketed, ZeroDebris, Usable
<1> QED BY <1>1, <1>2 DEF Sound, Finite

LEMMA RowType ==
  ASSUME NEW s \in Store, NEW e \in Event, IsFiniteSet(s.held)
  PROVE  LET u == [s EXCEPT !.held = @ \cup {e.id},
                            !.body = IF BodyKept(s, e) THEN @ \cup {e.id} ELSE @,
                            !.arrival[e.id] = ArrivalOf(s, e.id)]
         IN  /\ u \in Store /\ IsFiniteSet(u.held)
             /\ u.held = s.held \cup {e.id}
             /\ u.body = IF BodyKept(s, e) THEN s.body \cup {e.id} ELSE s.body
             /\ u.arrival = [s.arrival EXCEPT ![e.id] = ArrivalOf(s, e.id)]
             /\ u.redaction = s.redaction /\ u.links = s.links /\ u.pins = s.pins
<1> DEFINE a == ArrivalOf(s, e.id)
           kept == BodyKept(s, e)
           u == [s EXCEPT !.held = @ \cup {e.id},
                          !.body = IF kept THEN @ \cup {e.id} ELSE @,
                          !.arrival[e.id] = a]
<1>1. e.id \in Claim /\ LogOf[e.id] \in Log
  BY ClaimsAssumption DEF Event
<1>2. a \in Nat
  BY <1>1, LogLenType DEF ArrivalOf, Store
<1> HIDE DEF a, kept
<1>3. /\ u \in Store
      /\ u.held = s.held \cup {e.id}
      /\ u.body = IF kept THEN s.body \cup {e.id} ELSE s.body
      /\ u.arrival = [s.arrival EXCEPT ![e.id] = a]
      /\ u.redaction = s.redaction /\ u.links = s.links /\ u.pins = s.pins
  BY <1>1, <1>2 DEF Store
<1>4. IsFiniteSet(u.held)
  BY <1>3, FS_AddElement
<1> QED BY <1>3, <1>4 DEF a, kept

LEMMA NextSound == Sound /\ [Next]_vars => Sound'
<1> SUFFICES ASSUME Sound, [Next]_vars PROVE Sound'
  OBVIOUS
<1>0. /\ TypeOK /\ Finite /\ Bracketed
      /\ phase # "idle" => event \in Event /\ event.id \in Claim
  BY DEF Sound, Bracketed, Event
<1>1. ASSUME NEW e \in Event, Begin(e), UNCHANGED transactional PROVE Sound'
  <2>1. TypeOK'
    <3>1. poisoned' \in BOOLEAN /\ transactional' \in BOOLEAN
      BY <1>0, <1>1, Zenon DEF Begin, TypeOK
    <3>2. /\ phase' = "redact" /\ event' = e /\ tried' = tried \cup {e}
          /\ UNCHANGED <<db, disk, todo, done>>
      BY <1>1, Zenon DEF Begin
    <3> QED BY <1>0, <3>1, <3>2 DEF TypeOK, Phases
  <2>2. Bracketed'
    BY <1>0, <1>1, Zenon DEF Begin, Bracketed, ZeroDebris, Usable
  <2>3. Finite'
    BY <1>0, <1>1, Zenon DEF Begin, Finite
  <2> QED BY <2>1, <2>2, <2>3 DEF Sound
<1>2. CASE RecordRedaction /\ UNCHANGED transactional
  <2> DEFINE t == OwnRedaction(event)
             marked == SetRedaction(db, t, event.id)
  <2>0. phase = "redact" /\ UNCHANGED <<event, poisoned, done, tried>>
    BY <1>2, Zenon DEF RecordRedaction
  <2>1. t \in Claim \cup {None} /\ event.id \in Claim
    BY <1>0, <2>0, OwnRedactionType
  <2>2. t # None => marked \in Store /\ marked.held = db.held
    BY <1>0, <2>1 DEF SetRedaction, Store, TypeOK
  <2>3. phase' \in {"unlink", "store"} /\ todo' \in EdgeSet
    <3>1. Forgets(db, t) => t \in Claim
      BY <1>0 DEF Forgets, TypeOK, Store
    <3> QED BY <1>0, <1>2, <3>1, EdgesType DEF RecordRedaction, TypeOK
  <2>4. /\ db' \in Store /\ disk' \in Store
        /\ IsFiniteSet(db'.held) /\ IsFiniteSet(disk'.held)
        /\ ~transactional => db' = disk'
    <3>1. CASE t = None
      <4>1. UNCHANGED <<db, disk>>
        BY <1>2, <3>1, Zenon DEF RecordRedaction
      <4> QED BY <1>0, <4>1 DEF TypeOK, Finite, Bracketed
    <3>2. CASE t # None
      <4>1. Write(marked)
        BY <1>2, <3>2, Zenon DEF RecordRedaction
      <4>2. marked \in Store /\ IsFiniteSet(marked.held)
        BY <1>0, <2>2, <3>2 DEF Finite
      <4> QED BY <4>1, <4>2, WriteSound
    <3> QED BY <3>1, <3>2
  <2> QED BY <1>2, <2>0, <2>3, <2>4, InFlight DEF Phases
<1>3. CASE RemoveEdge /\ UNCHANGED transactional
  <2>0. phase = "unlink" /\ UNCHANGED <<phase, event, poisoned, done, tried>>
    BY <1>3, Zenon DEF RemoveEdge
  <2>1. PICK s :
          /\ Write(s)
          /\ todo' \in EdgeSet
          /\ s \in Store /\ s.held = db.held
    <3>1. CASE \E l \in todo.links :
                 /\ Write([db EXCEPT !.links = @ \ {l}])
                 /\ todo' = [todo EXCEPT !.links = @ \ {l}]
      <4>1. PICK l \in todo.links :
                 /\ Write([db EXCEPT !.links = @ \ {l}])
                 /\ todo' = [todo EXCEPT !.links = @ \ {l}]
        BY <3>1
      <4>2. /\ [db EXCEPT !.links = @ \ {l}] \in Store
            /\ [db EXCEPT !.links = @ \ {l}].held = db.held
            /\ [todo EXCEPT !.links = @ \ {l}] \in EdgeSet
        BY <1>0 DEF TypeOK, Store, EdgeSet
      <4> QED BY <4>1, <4>2
    <3>2. CASE \E p \in todo.pins :
                 /\ todo.links = {}
                 /\ Write([db EXCEPT !.pins = @ \ {p}])
                 /\ todo' = [todo EXCEPT !.pins = @ \ {p}]
      <4>1. PICK p \in todo.pins :
                 /\ Write([db EXCEPT !.pins = @ \ {p}])
                 /\ todo' = [todo EXCEPT !.pins = @ \ {p}]
        BY <3>2
      <4>2. /\ [db EXCEPT !.pins = @ \ {p}] \in Store
            /\ [db EXCEPT !.pins = @ \ {p}].held = db.held
            /\ [todo EXCEPT !.pins = @ \ {p}] \in EdgeSet
        BY <1>0 DEF TypeOK, Store, EdgeSet
      <4> QED BY <4>1, <4>2
    <3> QED BY <1>3, <3>1, <3>2, Zenon DEF RemoveEdge
  <2>2. IsFiniteSet(s.held)
    BY <1>0, <2>1 DEF Finite
  <2>3. /\ db' \in Store /\ disk' \in Store
        /\ IsFiniteSet(db'.held) /\ IsFiniteSet(disk'.held)
        /\ ~transactional => db' = disk'
    BY <2>1, <2>2, WriteSound
  <2> QED BY <1>3, <2>0, <2>1, <2>3, InFlight DEF Phases
<1>4. CASE ForgetBody /\ UNCHANGED transactional
  <2> DEFINE s == [db EXCEPT !.body = @ \ {OwnRedaction(event)}]
  <2>0. /\ phase = "unlink" /\ phase' = "store" /\ Write(s)
        /\ UNCHANGED <<event, todo, poisoned, done, tried>>
    BY <1>4, Zenon DEF ForgetBody
  <2>1. s \in Store /\ s.held = db.held /\ IsFiniteSet(s.held)
    BY <1>0 DEF TypeOK, Store, Finite
  <2> HIDE DEF s
  <2>2. /\ db' \in Store /\ disk' \in Store
        /\ IsFiniteSet(db'.held) /\ IsFiniteSet(disk'.held)
        /\ ~transactional => db' = disk'
    BY <2>0, <2>1, WriteSound
  <2>3. todo' \in EdgeSet
    BY <1>0, <2>0 DEF TypeOK
  <2> QED BY <1>4, <2>0, <2>2, <2>3, InFlight DEF Phases
<1>5. CASE DecideBody /\ UNCHANGED transactional
  <2>0. /\ phase = "store" /\ phase' \in {"commit", "index"}
        /\ UNCHANGED <<db, disk, event, poisoned, done, tried>>
    BY <1>5, Zenon DEF DecideBody
  <2>1. todo' \in EdgeSet
    BY <1>0, <1>5, <2>0, EdgesType DEF DecideBody, TypeOK
  <2> QED BY <1>0, <1>5, <2>0, <2>1, InFlight DEF Phases, TypeOK, Finite, Bracketed
<1>6. CASE AddEdge /\ UNCHANGED transactional
  <2>0. phase = "index" /\ UNCHANGED <<phase, event, poisoned, done, tried>>
    BY <1>6, Zenon DEF AddEdge
  <2>1. PICK s :
          /\ Write(s)
          /\ todo' \in EdgeSet
          /\ s \in Store /\ s.held = db.held
    <3>1. CASE \E l \in todo.links :
                 /\ Write([db EXCEPT !.links = @ \cup {l}])
                 /\ todo' = [todo EXCEPT !.links = @ \ {l}]
      <4>1. PICK l \in todo.links :
                 /\ Write([db EXCEPT !.links = @ \cup {l}])
                 /\ todo' = [todo EXCEPT !.links = @ \ {l}]
        BY <3>1
      <4>2. /\ [db EXCEPT !.links = @ \cup {l}] \in Store
            /\ [db EXCEPT !.links = @ \cup {l}].held = db.held
            /\ [todo EXCEPT !.links = @ \ {l}] \in EdgeSet
        BY <1>0 DEF TypeOK, Store, EdgeSet
      <4> QED BY <4>1, <4>2
    <3>2. CASE \E p \in todo.pins :
                 /\ todo.links = {}
                 /\ Write([db EXCEPT !.pins = @ \cup {p}])
                 /\ todo' = [todo EXCEPT !.pins = @ \ {p}]
      <4>1. PICK p \in todo.pins :
                 /\ Write([db EXCEPT !.pins = @ \cup {p}])
                 /\ todo' = [todo EXCEPT !.pins = @ \ {p}]
        BY <3>2
      <4>2. /\ [db EXCEPT !.pins = @ \cup {p}] \in Store
            /\ [db EXCEPT !.pins = @ \cup {p}].held = db.held
            /\ [todo EXCEPT !.pins = @ \ {p}] \in EdgeSet
        BY <1>0 DEF TypeOK, Store, EdgeSet
      <4> QED BY <4>1, <4>2
    <3> QED BY <1>6, <3>1, <3>2, Zenon DEF AddEdge
  <2>2. IsFiniteSet(s.held)
    BY <1>0, <2>1 DEF Finite
  <2>3. /\ db' \in Store /\ disk' \in Store
        /\ IsFiniteSet(db'.held) /\ IsFiniteSet(disk'.held)
        /\ ~transactional => db' = disk'
    BY <2>1, <2>2, WriteSound
  <2> QED BY <1>6, <2>0, <2>1, <2>3, InFlight DEF Phases
<1>7. CASE PutRow /\ UNCHANGED transactional
  <2> DEFINE u == [db EXCEPT !.held = @ \cup {event.id},
                             !.body = IF BodyKept(db, event)
                                      THEN @ \cup {event.id} ELSE @,
                             !.arrival[event.id] = ArrivalOf(db, event.id)]
  <2>0. /\ phase = "index" /\ phase' = "commit" /\ Write(u)
        /\ UNCHANGED <<event, todo, poisoned, done, tried>>
    BY <1>7, Zenon DEF PutRow
  <2>1. u \in Store /\ IsFiniteSet(u.held)
    BY <1>0, <2>0, RowType DEF TypeOK, Finite
  <2> HIDE DEF u
  <2>2. /\ db' \in Store /\ disk' \in Store
        /\ IsFiniteSet(db'.held) /\ IsFiniteSet(disk'.held)
        /\ ~transactional => db' = disk'
    BY <2>0, <2>1, WriteSound
  <2>3. todo' \in EdgeSet
    BY <1>0, <2>0 DEF TypeOK
  <2> QED BY <1>7, <2>0, <2>2, <2>3, InFlight DEF Phases
<1>8. CASE (Commit \/ FailRolledBack \/ FailPoisoned \/ Restart) /\ UNCHANGED transactional
  <2>1. /\ db' \in {db, disk} /\ disk' \in {db, disk}
        /\ phase' = "idle" /\ event' = None /\ todo' = NoEdges
        /\ UNCHANGED <<transactional, tried>>
    BY <1>8, Zenon DEF Commit, FailRolledBack, FailPoisoned, Restart, Return
  <2>2. poisoned' \in BOOLEAN /\ transactional' \in BOOLEAN
    BY <1>0, <1>8, Zenon DEF TypeOK, Commit, FailRolledBack, FailPoisoned, Restart
  <2>3. done' \in SUBSET Event
    BY <1>0, <1>8 DEF TypeOK, Commit, FailRolledBack, FailPoisoned, Restart
  <2>4. ~transactional => db' = disk'
    <3>1. ~transactional => db = disk
      BY <1>0 DEF Bracketed
    <3> QED BY <2>1, <3>1
  <2>5. ~poisoned' => db' = disk'
    <3>1. CASE Commit
      BY <3>1, Zenon DEF Commit
    <3>2. CASE FailRolledBack
      <4>1. transactional => db' = disk'
        BY <3>2, Zenon DEF FailRolledBack
      <4> QED BY <2>4, <4>1
    <3>3. CASE FailPoisoned
      BY <1>0, <3>3, Zenon DEF FailPoisoned, Bracketed
    <3>4. CASE Restart
      BY <3>4, Zenon DEF Restart
    <3> QED BY <1>8, <3>1, <3>2, <3>3, <3>4
  <2>6. TypeOK'
    BY <1>0, <2>1, <2>2, <2>3 DEF TypeOK, Phases, NoEdges, EdgeSet
  <2>7. Bracketed'
    BY <2>1, <2>4, <2>5, Zenon DEF Bracketed, ZeroDebris, Usable
  <2>8. Finite'
    BY <1>0, <2>1 DEF Finite
  <2> QED BY <2>6, <2>7, <2>8 DEF Sound
<1>9. CASE UNCHANGED vars
  <2>1. UNCHANGED <<transactional, db, disk, phase, event, todo, poisoned, done, tried>>
    BY <1>9 DEF vars
  <2> QED BY <1>0, <2>1, Zenon DEF Sound, TypeOK, Finite, Bracketed, ZeroDebris, Usable
<1> QED
  BY <1>1, <1>2, <1>3, <1>4, <1>5, <1>6, <1>7, <1>8, <1>9, Zenon DEF Next

LEMMA Soundness == Spec => []Sound
BY InitSound, NextSound, PTL DEF Spec

(***************************************************************************)
(* Every variable keeps its type at every write of every ingest.           *)
(***************************************************************************)
THEOREM StepsTyped == Spec => []TypeOK
<1>1. Sound => TypeOK
  BY DEF Sound
<1> QED BY <1>1, Soundness, PTL

(***************************************************************************)
(* A store that answers queries holds exactly what is durable: no debris   *)
(* of a failed ingest is ever served, also by a backend without            *)
(* transactions, whose debris is durable (ClaimStore::ingest_at, guard).   *)
(***************************************************************************)
THEOREM NoDebrisServed == Spec => []ZeroDebris
<1>1. Sound => ZeroDebris
  BY DEF Sound, Bracketed
<1> QED BY <1>1, Soundness, PTL

-----------------------------------------------------------------------------
(* The refinement *)

\* The redact claim in the event names held speech whose body goes.
Taken == OwnRedaction(event)

(***************************************************************************)
(* What the open transaction has written so far, table by table, compared  *)
(* with what is on disk: how far from the atomic ingest each phase is.     *)
(***************************************************************************)
Unlinked ==
  LET m == SetRedaction(disk, Taken, event.id)
  IN  /\ Taken # None /\ Forgets(disk, Taken)
      /\ db.held = m.held /\ db.body = m.body
      /\ db.arrival = m.arrival /\ db.redaction = m.redaction
      /\ todo.links \subseteq LinksOf(Taken) /\ todo.pins \subseteq PinsOf(Taken)
      /\ db.links = m.links \ (LinksOf(Taken) \ todo.links)
      /\ db.pins = m.pins \ (PinsOf(Taken) \ todo.pins)

Indexed ==
  LET r == Redacted(disk, event)
      new == IF BodyKept(r, event) THEN Edges(event.id) ELSE NoEdges
  IN  /\ ~Duplicate(r, event)
      /\ db.held = r.held /\ db.body = r.body
      /\ db.arrival = r.arrival /\ db.redaction = r.redaction
      /\ todo.links \subseteq new.links /\ todo.pins \subseteq new.pins
      /\ db.links = r.links \cup (new.links \ todo.links)
      /\ db.pins = r.pins \cup (new.pins \ todo.pins)

Progress ==
  transactional =>
    /\ phase = "redact" => db = disk
    /\ phase = "unlink" => Unlinked
    /\ phase = "store" => db = Redacted(disk, event)
    /\ phase = "index" => Indexed
    /\ phase = "commit" => db = Ingest(disk, event)

LEMMA RecordProgress ==
  ASSUME Sound, Progress, transactional, RecordRedaction
  PROVE  Progress'
<1> DEFINE t == OwnRedaction(event)
           m == SetRedaction(db, t, event.id)
<1>1. /\ phase = "redact" /\ db = disk /\ disk' = disk /\ event' = event
      /\ IF t = None THEN db' = db ELSE db' = m
      /\ IF Forgets(db, t)
         THEN phase' = "unlink" /\ todo' = Edges(t)
         ELSE phase' = "store" /\ todo' = todo
  BY DEF RecordRedaction, Progress, Write
<1>2. CASE Forgets(db, t)
  <2>1. t # None /\ phase' = "unlink" /\ todo' = Edges(t) /\ db' = m
    BY <1>1, <1>2 DEF Forgets
  <2>2. Unlinked'
    BY <1>1, <1>2, <2>1 DEF Unlinked, Taken, Edges
  <2> QED BY <2>1, <2>2 DEF Progress
<1>3. CASE ~Forgets(db, t)
  <2>1. db' = Redacted(disk, event)
    BY <1>1, <1>3 DEF Redacted, ApplyRedaction, Forgets
  <2> QED BY <1>1, <1>3, <2>1 DEF Progress
<1> QED BY <1>2, <1>3

\* What marking a redaction leaves alone.
LEMMA MarkedTables ==
  ASSUME NEW s \in Store, NEW t \in Claim, NEW by \in Claim
  PROVE  LET m == SetRedaction(s, t, by)
         IN  /\ m \in Store
             /\ m.held = s.held /\ m.body = s.body /\ m.arrival = s.arrival
             /\ m.links = s.links /\ m.pins = s.pins
BY DEF SetRedaction, Store

LEMMA UnlinkProgress ==
  ASSUME Sound, Sound', Progress, transactional, RemoveEdge
  PROVE  Progress'
<1>1. /\ phase = "unlink" /\ phase' = "unlink" /\ event' = event /\ disk' = disk
      /\ Unlinked
  BY DEF RemoveEdge, Progress, Write
<1>2. db \in Store /\ todo \in EdgeSet
  BY DEF Sound, TypeOK
<1>3. CASE \E l \in todo.links :
             /\ Write([db EXCEPT !.links = @ \ {l}])
             /\ todo' = [todo EXCEPT !.links = @ \ {l}]
  <2>1. PICK l \in todo.links :
             /\ db' = [db EXCEPT !.links = @ \ {l}]
             /\ todo' = [todo EXCEPT !.links = @ \ {l}]
    BY <1>3 DEF Write
  <2>2. /\ db'.held = db.held /\ db'.body = db.body /\ db'.arrival = db.arrival
        /\ db'.redaction = db.redaction /\ db'.pins = db.pins
        /\ db'.links = db.links \ {l}
        /\ todo'.links = todo.links \ {l} /\ todo'.pins = todo.pins
    BY <1>2, <2>1 DEF Store, EdgeSet
  <2>3. Unlinked'
    BY <1>1, <2>2 DEF Unlinked, Taken
  <2> QED BY <1>1, <2>3 DEF Progress
<1>4. CASE \E p \in todo.pins :
             /\ Write([db EXCEPT !.pins = @ \ {p}])
             /\ todo' = [todo EXCEPT !.pins = @ \ {p}]
  <2>1. PICK p \in todo.pins :
             /\ db' = [db EXCEPT !.pins = @ \ {p}]
             /\ todo' = [todo EXCEPT !.pins = @ \ {p}]
    BY <1>4 DEF Write
  <2>2. /\ db'.held = db.held /\ db'.body = db.body /\ db'.arrival = db.arrival
        /\ db'.redaction = db.redaction /\ db'.links = db.links
        /\ db'.pins = db.pins \ {p}
        /\ todo'.pins = todo.pins \ {p} /\ todo'.links = todo.links
    BY <1>2, <2>1 DEF Store, EdgeSet
  <2>3. Unlinked'
    BY <1>1, <2>2 DEF Unlinked, Taken
  <2> QED BY <1>1, <2>3 DEF Progress
<1> QED BY <1>3, <1>4 DEF RemoveEdge

LEMMA ForgetProgress ==
  ASSUME Sound, Sound', Progress, transactional, ForgetBody
  PROVE  Progress'
<1> DEFINE t == Taken
           m == SetRedaction(disk, t, event.id)
           d == DropBody(m, t)
<1>1. /\ phase = "unlink" /\ phase' = "store" /\ event' = event /\ disk' = disk
      /\ db' = [db EXCEPT !.body = @ \ {t}] /\ todo = NoEdges /\ Unlinked
  BY DEF ForgetBody, Progress, Write, Taken
<1>2. db \in Store /\ db' \in Store /\ disk \in Store
  BY DEF Sound, TypeOK
<1>3. event \in Event /\ event.id \in Claim /\ t \in Claim
  BY <1>1, <1>2 DEF Sound, Bracketed, Event, Unlinked, Forgets, Store
<1>4. m \in Store /\ m.body = disk.body
  BY <1>2, <1>3, MarkedTables
<1>5. /\ d \in Store
      /\ d.held = m.held /\ d.arrival = m.arrival /\ d.redaction = m.redaction
      /\ d.body = m.body \ {t}
      /\ d.links = m.links \ LinksOf(t) /\ d.pins = m.pins \ PinsOf(t)
  BY <1>4 DEF DropBody, Store
<1>6. /\ db'.held = db.held /\ db'.arrival = db.arrival
      /\ db'.redaction = db.redaction /\ db'.links = db.links /\ db'.pins = db.pins
      /\ db'.body = db.body \ {t}
  BY <1>1, <1>2 DEF Store
<1>7. /\ db.held = m.held /\ db.body = m.body /\ db.arrival = m.arrival
      /\ db.redaction = m.redaction
      /\ db.links = m.links \ LinksOf(t) /\ db.pins = m.pins \ PinsOf(t)
  BY <1>1 DEF Unlinked, NoEdges
<1>8. db' = d
  <2> HIDE DEF m, d, t
  <2>1. /\ db'.held = d.held /\ db'.body = d.body /\ db'.arrival = d.arrival
        /\ db'.redaction = d.redaction /\ db'.links = d.links /\ db'.pins = d.pins
    BY <1>5, <1>6, <1>7
  <2> QED BY <1>2, <1>5, <2>1, StoreExt
<1>9. d = Redacted(disk, event)
  BY <1>1, <1>4 DEF Redacted, ApplyRedaction, Unlinked, Forgets, Taken
<1> QED BY <1>1, <1>8, <1>9 DEF Progress

LEMMA DecideProgress ==
  ASSUME Sound, Sound', Progress, transactional, DecideBody
  PROVE  Progress'
<1>1. /\ phase = "store" /\ db = Redacted(disk, event)
      /\ UNCHANGED <<db, disk, event>>
      /\ IF Duplicate(db, event)
         THEN phase' = "commit"
         ELSE /\ phase' = "index"
              /\ todo' = IF BodyKept(db, event) THEN Edges(event.id) ELSE NoEdges
  BY DEF DecideBody, Progress
<1>2. CASE Duplicate(db, event)
  BY <1>1, <1>2 DEF Progress, Ingest
<1>3. CASE ~Duplicate(db, event)
  <2>1. Indexed'
    BY <1>1, <1>3 DEF Indexed
  <2> QED BY <1>1, <1>3, <2>1 DEF Progress
<1> QED BY <1>2, <1>3

LEMMA AddProgress ==
  ASSUME Sound, Sound', Progress, transactional, AddEdge
  PROVE  Progress'
<1>1. /\ phase = "index" /\ phase' = "index" /\ event' = event /\ disk' = disk
      /\ Indexed
  BY DEF AddEdge, Progress, Write
<1>2. db \in Store /\ todo \in EdgeSet
  BY DEF Sound, TypeOK
<1>3. CASE \E l \in todo.links :
             /\ Write([db EXCEPT !.links = @ \cup {l}])
             /\ todo' = [todo EXCEPT !.links = @ \ {l}]
  <2>1. PICK l \in todo.links :
             /\ db' = [db EXCEPT !.links = @ \cup {l}]
             /\ todo' = [todo EXCEPT !.links = @ \ {l}]
    BY <1>3 DEF Write
  <2>2. /\ db'.held = db.held /\ db'.body = db.body /\ db'.arrival = db.arrival
        /\ db'.redaction = db.redaction /\ db'.pins = db.pins
        /\ db'.links = db.links \cup {l}
        /\ todo'.links = todo.links \ {l} /\ todo'.pins = todo.pins
    BY <1>2, <2>1 DEF Store, EdgeSet
  <2>3. Indexed'
    BY <1>1, <2>2 DEF Indexed
  <2> QED BY <1>1, <2>3 DEF Progress
<1>4. CASE \E p \in todo.pins :
             /\ Write([db EXCEPT !.pins = @ \cup {p}])
             /\ todo' = [todo EXCEPT !.pins = @ \ {p}]
  <2>1. PICK p \in todo.pins :
             /\ db' = [db EXCEPT !.pins = @ \cup {p}]
             /\ todo' = [todo EXCEPT !.pins = @ \ {p}]
    BY <1>4 DEF Write
  <2>2. /\ db'.held = db.held /\ db'.body = db.body /\ db'.arrival = db.arrival
        /\ db'.redaction = db.redaction /\ db'.links = db.links
        /\ db'.pins = db.pins \cup {p}
        /\ todo'.pins = todo.pins \ {p} /\ todo'.links = todo.links
    BY <1>2, <2>1 DEF Store, EdgeSet
  <2>3. Indexed'
    BY <1>1, <2>2 DEF Indexed
  <2> QED BY <1>1, <2>3 DEF Progress
<1> QED BY <1>3, <1>4 DEF AddEdge

LEMMA RowProgress ==
  ASSUME Sound, Sound', Progress, transactional, PutRow
  PROVE  Progress'
<1> DEFINE r == Redacted(disk, event)
           kept == BodyKept(r, event)
           n == ArrivalOf(r, event.id)
           i == PutClaim(r, event)
<1>1. /\ phase = "index" /\ phase' = "commit" /\ event' = event /\ disk' = disk
      /\ todo = NoEdges /\ Indexed
      /\ db' = [db EXCEPT !.held = @ \cup {event.id},
                          !.body = IF BodyKept(db, event)
                                   THEN @ \cup {event.id} ELSE @,
                          !.arrival[event.id] = ArrivalOf(db, event.id)]
  BY DEF PutRow, Progress, Write
<1>2. /\ db \in Store /\ db' \in Store /\ disk \in Store
      /\ IsFiniteSet(db.held) /\ event \in Event /\ event.id \in Claim
      /\ LogOf[event.id] \in Log
  BY <1>1, ClaimsAssumption DEF Sound, TypeOK, Finite, Bracketed, Event
<1>3. r \in Store
  BY <1>2, RedactedTables
<1>4. /\ ~Duplicate(r, event)
      /\ db.held = r.held /\ db.body = r.body
      /\ db.arrival = r.arrival /\ db.redaction = r.redaction
      /\ db.links = IF kept THEN r.links \cup LinksOf(event.id) ELSE r.links
      /\ db.pins = IF kept THEN r.pins \cup PinsOf(event.id) ELSE r.pins
  BY <1>1 DEF Indexed, NoEdges, Edges
<1>5. BodyKept(db, event) = kept /\ ArrivalOf(db, event.id) = n
  BY <1>4 DEF BodyKept, Suppressed, ArrivalOf, LogLen, LogRows
<1>6. n \in Nat
  BY <1>2, <1>3, <1>4, LogLenType DEF ArrivalOf, Store
<1>7. /\ LinksOf(event.id) \subseteq Claim \X Claim
      /\ PinsOf(event.id) \subseteq Blob \X Claim
  BY <1>2, ClaimsAssumption DEF LinksOf, PinsOf
<1>8. i = [r EXCEPT !.held = @ \cup {event.id},
                    !.body = IF kept THEN @ \cup {event.id} ELSE @,
                    !.arrival[event.id] = n,
                    !.links = IF kept THEN @ \cup LinksOf(event.id) ELSE @,
                    !.pins = IF kept THEN @ \cup PinsOf(event.id) ELSE @]
  BY DEF PutClaim
<1> HIDE DEF r, kept, n, i
<1>9. /\ i \in Store
      /\ i.held = r.held \cup {event.id}
      /\ i.body = IF kept THEN r.body \cup {event.id} ELSE r.body
      /\ i.arrival = [r.arrival EXCEPT ![event.id] = n]
      /\ i.redaction = r.redaction
      /\ i.links = IF kept THEN r.links \cup LinksOf(event.id) ELSE r.links
      /\ i.pins = IF kept THEN r.pins \cup PinsOf(event.id) ELSE r.pins
  BY <1>2, <1>3, <1>6, <1>7, <1>8 DEF Store
<1>10. /\ db'.held = db.held \cup {event.id}
       /\ db'.body = IF kept THEN db.body \cup {event.id} ELSE db.body
       /\ db'.arrival = [db.arrival EXCEPT ![event.id] = n]
       /\ db'.redaction = db.redaction /\ db'.links = db.links /\ db'.pins = db.pins
  BY <1>1, <1>2, <1>5, <1>6 DEF Store
<1>11. db' = i
  <2>1. db'.held = i.held /\ db'.body = i.body /\ db'.arrival = i.arrival
    BY <1>4, <1>9, <1>10
  <2>2. db'.redaction = i.redaction /\ db'.links = i.links /\ db'.pins = i.pins
    BY <1>4, <1>9, <1>10
  <2> QED BY <1>2, <1>9, <2>1, <2>2, StoreExt
<1>12. i = Ingest(disk, event)
  BY <1>4 DEF Ingest, i, r
<1> QED BY <1>1, <1>11, <1>12 DEF Progress

LEMMA NextProgress ==
  ASSUME Sound, Sound', Progress, [Next]_vars
  PROVE  Progress'
<1>1. CASE ~transactional
  <2>1. ~transactional'
    BY <1>1, Zenon DEF Next, vars
  <2> QED BY <2>1 DEF Progress
<1>2. CASE transactional
  <2>1. ASSUME NEW e \in Event, Begin(e) PROVE Progress'
    <3>1. phase' = "redact" /\ db' = db /\ disk' = disk /\ Usable
      BY <2>1, Zenon DEF Begin, Usable
    <3>2. db = disk
      BY <3>1 DEF Sound, Bracketed, ZeroDebris
    <3> QED BY <3>1, <3>2 DEF Progress
  <2>2. ASSUME phase' = "idle" PROVE Progress'
    BY <2>2 DEF Progress
  <2>3. Commit \/ FailRolledBack \/ FailPoisoned \/ Restart => phase' = "idle"
    BY Zenon DEF Commit, FailRolledBack, FailPoisoned, Restart, Return
  <2>4. CASE UNCHANGED vars
    <3>1. UNCHANGED <<transactional, db, disk, phase, event, todo>>
      BY <2>4 DEF vars
    <3> QED BY <3>1, Zenon DEF Progress, Unlinked, Indexed, Taken
  <2> QED
    BY <1>2, <2>1, <2>2, <2>3, <2>4, RecordProgress, UnlinkProgress, ForgetProgress,
       DecideProgress, AddProgress, RowProgress, Zenon DEF Next
<1> QED BY <1>1, <1>2

\* The operators of the instance are those of this module.
LEMMA SameStore == CS!EmptyStore = EmptyStore /\ CS!Event = Event
BY DEF CS!EmptyStore, EmptyStore, CS!Event, Event

LEMMA SameIngest ==
  ASSUME NEW s, NEW e
  PROVE  CS!Ingest(s, e) = Ingest(s, e)
<1>1. CS!OwnRedaction(e) = OwnRedaction(e)
  BY DEF CS!OwnRedaction, OwnRedaction
<1>2. ASSUME NEW u, NEW t, NEW by
      PROVE  CS!ApplyRedaction(u, t, by) = ApplyRedaction(u, t, by)
  BY DEF CS!ApplyRedaction, ApplyRedaction, CS!SetRedaction, SetRedaction,
         CS!DropBody, DropBody, CS!LinksOf, LinksOf, CS!PinsOf, PinsOf
<1>3. CS!Redacted(s, e) = Redacted(s, e)
  BY <1>1, <1>2 DEF CS!Redacted, Redacted
<1>4. ASSUME NEW u PROVE CS!BodyKept(u, e) = BodyKept(u, e)
  BY <1>1 DEF CS!BodyKept, BodyKept, CS!Suppressed, Suppressed
<1>5. ASSUME NEW u PROVE CS!Duplicate(u, e) = Duplicate(u, e)
  BY <1>4 DEF CS!Duplicate, Duplicate
<1>6. ASSUME NEW u, NEW c PROVE CS!ArrivalOf(u, c) = ArrivalOf(u, c)
  <2>1. CS!LogRows(u, LogOf[c]) = LogRows(u, LogOf[c])
    BY DEF CS!LogRows, LogRows
  <2>2. CS!LogLen(u, LogOf[c]) = LogLen(u, LogOf[c])
    <3>1. ASSUME NEW S PROVE CS!Cardinality(S) = Cardinality(S)
      BY DEF CS!Cardinality, Cardinality
    <3> QED BY <2>1, <3>1 DEF CS!LogLen, LogLen
  <2> QED BY <2>2 DEF CS!ArrivalOf, ArrivalOf
<1>7. ASSUME NEW u PROVE CS!PutClaim(u, e) = PutClaim(u, e)
  BY <1>4, <1>6 DEF CS!PutClaim, PutClaim, CS!LinksOf, LinksOf, CS!PinsOf, PinsOf
<1> QED BY <1>3, <1>5, <1>7 DEF CS!Ingest, Ingest

\* What survives changes in one way: a commit ingests the event into it.
LEMMA StepRefines ==
  ASSUME Sound, Sound', Progress, [Next]_vars
  PROVE  [CS!StoreNext]_(CS!storeVars)
<1> DEFINE Kept == Durable' = Durable /\ Acknowledged' = Acknowledged
<1>1. ASSUME Kept PROVE UNCHANGED CS!storeVars
  BY <1>1 DEF CS!storeVars
<1>2. transactional' = transactional
  BY Zenon DEF Next, vars
<1>3. CASE ~transactional
  <2>1. Kept
    BY <1>2, <1>3 DEF Durable, Acknowledged
  <2> QED BY <1>1, <2>1
<1>4. CASE transactional /\ Commit
  <2>1. /\ phase = "commit" /\ event \in Event
        /\ disk' = db /\ done' = done \cup {event}
    BY <1>4, Zenon DEF Commit, Sound, Bracketed
  <2>2. db = Ingest(disk, event)
    BY <1>4, <2>1 DEF Progress
  <2>3. Durable' = Ingest(Durable, event) /\ Acknowledged' = Acknowledged \cup {event}
    BY <1>2, <1>4, <2>1, <2>2 DEF Durable, Acknowledged
  <2>4. CS!IngestEvent("here", event)
    BY <2>3, SameIngest DEF CS!IngestEvent
  <2> QED BY <2>1, <2>4, SameStore DEF CS!StoreNext
<1>5. CASE transactional /\ ~Commit
  <2>1. UNCHANGED <<disk, done>>
    <3>1. CASE UNCHANGED vars
      BY <3>1 DEF vars
    <3>2. ASSUME NEW e \in Event, Begin(e) PROVE UNCHANGED <<disk, done>>
      BY <3>2, Zenon DEF Begin
    <3>3. CASE FailRolledBack \/ FailPoisoned \/ Restart
      BY <3>3, Zenon DEF FailRolledBack, FailPoisoned, Restart
    <3>4. CASE RecordRedaction
      BY <1>5, <3>4 DEF RecordRedaction, Write
    <3>5. CASE RemoveEdge
      BY <1>5, <3>5 DEF RemoveEdge, Write
    <3>6. CASE ForgetBody
      BY <1>5, <3>6 DEF ForgetBody, Write
    <3>7. CASE DecideBody
      BY <3>7 DEF DecideBody
    <3>8. CASE AddEdge
      BY <1>5, <3>8 DEF AddEdge, Write
    <3>9. CASE PutRow
      BY <1>5, <3>9 DEF PutRow, Write
    <3> QED
      BY <1>5, <3>1, <3>2, <3>3, <3>4, <3>5, <3>6, <3>7, <3>8, <3>9, Zenon DEF Next
  <2>2. Kept
    BY <1>2, <1>5, <2>1 DEF Durable, Acknowledged
  <2> QED BY <1>1, <2>2
<1> QED BY <1>3, <1>4, <1>5

(***************************************************************************)
(* Over a transactional backend the writes of ingest_inner, with a fault   *)
(* at any of them, a failing rollback, a panic or a crash, implement the   *)
(* atomic ingest: what survives is a state of ClaimStore, reached by its   *)
(* steps.                                                                  *)
(***************************************************************************)
THEOREM IngestIsAtomic == Spec => Atomic
<1>1. Init => CS!StoreInit
  BY SameStore DEF Init, CS!StoreInit, Durable, Acknowledged
<1>2. Init => Progress
  BY DEF Init, Progress
<1>3. Sound /\ Sound' /\ Progress /\ [Next]_vars => Progress'
  BY NextProgress
<1>4. Sound /\ Sound' /\ Progress /\ [Next]_vars => [CS!StoreNext]_(CS!storeVars)
  BY StepRefines
<1> QED BY <1>1, <1>2, <1>3, <1>4, Soundness, PTL DEF Spec, Atomic, CS!StoreSpec

-----------------------------------------------------------------------------
(* Backends without transactions: what partial writes leave behind *)

(***************************************************************************)
(* Whatever was written, and wherever it stopped, comes from events whose  *)
(* ingest began: that is all redelivery needs of a store.                  *)
(***************************************************************************)
Traced ==
  /\ Reflects(db, tried, {}) /\ Reflects(disk, tried, {})
  /\ IsFiniteSet(tried)
  /\ phase # "idle" => event \in tried

LEMMA TracedTables ==
  ASSUME NEW s, NEW E
  PROVE  Reflects(s, E, {}) <=>
           /\ s.held \subseteq SeenIds(E)
           /\ s.body \subseteq SeenBodies(E)
           /\ \A t \in Claim : s.redaction[t] # None
                                 => s.redaction[t] \in RedactorsOf(E, t)
<1>1. /\ SeenIds({}) = {} /\ SeenBodies({}) = {}
      /\ \A t : RedactorsOf({}, t) = {}
  BY DEF SeenIds, SeenBodies, RedactorsOf
<1> QED BY <1>1 DEF Reflects

LEMMA WriteTraced ==
  ASSUME Traced, NEW s, Write(s), Reflects(s, tried, {}),
         phase # "idle", UNCHANGED <<event, tried>>
  PROVE  Traced'
BY DEF Traced, Write

LEMMA InitTraced == Init => Traced
<1>1. Reflects(EmptyStore, {}, {})
  BY TracedTables, Zenon DEF EmptyStore
<1> QED BY <1>1, FS_EmptySet DEF Init, Traced

LEMMA NextTraced == Sound /\ Traced /\ [Next]_vars => Traced'
<1> SUFFICES ASSUME Sound, Traced, [Next]_vars PROVE Traced'
  OBVIOUS
<1>0. /\ db \in Store /\ disk \in Store /\ tried \in SUBSET Event
      /\ phase # "idle" => event \in Event /\ event \in tried /\ event.id \in Claim
  BY DEF Sound, TypeOK, Bracketed, Traced, Event
<1>t. /\ db.held \subseteq SeenIds(tried) /\ db.body \subseteq SeenBodies(tried)
      /\ \A t \in Claim : db.redaction[t] # None
                            => db.redaction[t] \in RedactorsOf(tried, t)
  BY TracedTables DEF Traced
<1>1. ASSUME NEW e \in Event, Begin(e) PROVE Traced'
  <2>1. tried' = tried \cup {e} /\ event' = e /\ UNCHANGED <<db, disk>>
    BY <1>1, Zenon DEF Begin
  <2>2. tried' \in SUBSET Event /\ tried \subseteq tried' /\ IsFiniteSet(tried')
    BY <1>0, <2>1, FS_AddElement DEF Traced
  <2>3. Reflects(db, tried', {}) /\ Reflects(disk, tried', {})
    BY <2>2, ReflectsMore DEF Traced
  <2> QED BY <2>1, <2>2, <2>3 DEF Traced
<1>2. CASE RecordRedaction
  <2> DEFINE t == OwnRedaction(event)
             marked == SetRedaction(db, t, event.id)
  <2>0. phase = "redact" /\ UNCHANGED <<event, tried>>
    BY <1>2, Zenon DEF RecordRedaction
  <2>1. CASE t = None
    <3>1. UNCHANGED <<db, disk>>
      BY <1>2, <2>1, Zenon DEF RecordRedaction
    <3> QED BY <1>0, <2>0, <3>1 DEF Traced
  <2>2. CASE t # None
    <3>1. Write(marked)
      BY <1>2, <2>2, Zenon DEF RecordRedaction
    <3>2. t \in Claim /\ event.id \in RedactorsOf(tried, t)
      BY <1>0, <2>0, <2>2, ClaimsAssumption
         DEF OwnRedaction, RedactorsOf, SeenBodies
    <3>3. /\ marked.held = db.held /\ marked.body = db.body
          /\ \A u \in Claim : marked.redaction[u] = db.redaction[u]
                                \/ (u = t /\ marked.redaction[u] = event.id)
      BY <1>0, <2>0, <3>2 DEF SetRedaction, Store
    <3> HIDE DEF marked, t
    <3>4. Reflects(marked, tried, {})
      BY <1>t, <3>2, <3>3, TracedTables
    <3> QED BY <2>0, <3>1, <3>4, WriteTraced
  <2> QED BY <2>1, <2>2
<1>3. CASE RemoveEdge \/ AddEdge
  <2>0. phase # "idle" /\ UNCHANGED <<event, tried>>
    BY <1>3, Zenon DEF RemoveEdge, AddEdge
  <2>1. PICK s : /\ Write(s)
                 /\ s.held = db.held /\ s.body = db.body
                 /\ s.redaction = db.redaction
    <3>1. CASE RemoveEdge
      <4>1. PICK s : /\ Write(s)
                     /\ \/ \E l : s = [db EXCEPT !.links = @ \ {l}]
                        \/ \E p : s = [db EXCEPT !.pins = @ \ {p}]
        BY <3>1, Zenon DEF RemoveEdge
      <4>2. s.held = db.held /\ s.body = db.body /\ s.redaction = db.redaction
        BY <1>0, <4>1 DEF Store
      <4> QED BY <4>1, <4>2
    <3>2. CASE AddEdge
      <4>1. PICK s : /\ Write(s)
                     /\ \/ \E l : s = [db EXCEPT !.links = @ \cup {l}]
                        \/ \E p : s = [db EXCEPT !.pins = @ \cup {p}]
        BY <3>2, Zenon DEF AddEdge
      <4>2. s.held = db.held /\ s.body = db.body /\ s.redaction = db.redaction
        BY <1>0, <4>1 DEF Store
      <4> QED BY <4>1, <4>2
    <3> QED BY <1>3, <3>1, <3>2
  <2>2. Reflects(s, tried, {})
    BY <1>t, <2>1, TracedTables
  <2> QED BY <2>0, <2>1, <2>2, WriteTraced
<1>4. CASE ForgetBody
  <2> DEFINE s == [db EXCEPT !.body = @ \ {OwnRedaction(event)}]
  <2>0. phase # "idle" /\ Write(s) /\ UNCHANGED <<event, tried>>
    BY <1>4, Zenon DEF ForgetBody
  <2>1. s.held = db.held /\ s.body \subseteq db.body /\ s.redaction = db.redaction
    BY <1>0 DEF Store
  <2> HIDE DEF s
  <2>2. Reflects(s, tried, {})
    BY <1>t, <2>1, TracedTables
  <2> QED BY <2>0, <2>2, WriteTraced
<1>5. CASE DecideBody
  <2>1. phase # "idle" /\ UNCHANGED <<db, disk, event, tried>>
    BY <1>5, Zenon DEF DecideBody
  <2> QED BY <2>1 DEF Traced
<1>6. CASE PutRow
  <2> DEFINE u == [db EXCEPT !.held = @ \cup {event.id},
                             !.body = IF BodyKept(db, event)
                                      THEN @ \cup {event.id} ELSE @,
                             !.arrival[event.id] = ArrivalOf(db, event.id)]
  <2>0. phase # "idle" /\ Write(u) /\ UNCHANGED <<event, tried>>
    BY <1>6, Zenon DEF PutRow
  <2>1. /\ u.held = db.held \cup {event.id}
        /\ u.body = IF BodyKept(db, event) THEN db.body \cup {event.id} ELSE db.body
        /\ u.redaction = db.redaction
    BY <1>0, <2>0, RowType DEF Sound, Finite
  <2>2. event.id \in SeenIds(tried)
        /\ (BodyKept(db, event) => event.id \in SeenBodies(tried))
    BY <1>0, <2>0 DEF SeenIds, SeenBodies, BodyKept
  <2> HIDE DEF u
  <2>3. Reflects(u, tried, {})
    BY <1>t, <2>1, <2>2, TracedTables
  <2> QED BY <2>0, <2>3, WriteTraced
<1>7. CASE Commit \/ FailRolledBack \/ FailPoisoned \/ Restart
  <2>1. /\ db' \in {db, disk} /\ disk' \in {db, disk}
        /\ phase' = "idle" /\ tried' = tried
    BY <1>7, Zenon DEF Commit, FailRolledBack, FailPoisoned, Restart, Return
  <2> QED BY <2>1 DEF Traced
<1>8. CASE UNCHANGED vars
  BY <1>8 DEF Traced, vars
<1> QED BY <1>1, <1>2, <1>3, <1>4, <1>5, <1>6, <1>7, <1>8, Zenon DEF Next

(***************************************************************************)
(* store.rs:191-193: redelivering every event once tried heals rows and    *)
(* redactions, wherever and on whichever backend a fault or a crash cut an *)
(* ingest short: they become what a store that never failed would hold.    *)
(***************************************************************************)
THEOREM RedeliveryHeals == Spec => []RowsHeal
<1>1. Sound /\ Traced => RowsHeal
  <2> SUFFICES ASSUME Sound, Traced PROVE RowsRight(Redelivered, tried)
    BY DEF RowsHeal
  <2> DEFINE q == SetToSeq(tried)
             n == Cardinality(tried)
  <2>1. /\ db \in Store /\ IsFiniteSet(db.held) /\ tried \in SUBSET Event
        /\ IsFiniteSet(tried) /\ n \in Nat
    BY FS_CardinalityType DEF Sound, TypeOK, Finite, Traced
  <2>2. \E f : f \in Bijection(1 .. n, tried)
    BY <2>1, FS_CardinalityType DEF ExistsBijection
  <2>3. q \in [1 .. n -> tried] /\ IsInjective(q)
    <3>1. \E f \in [1 .. n -> tried] : IsInjective(f)
      BY <2>2 DEF Bijection, Injection
    <3>2. q = CHOOSE f \in [1 .. n -> tried] : IsInjective(f)
      BY DEF SetToSeq
    <3> HIDE DEF q, n
    <3> QED BY <3>1, <3>2
  <2> HIDE DEF q
  <2>4. q \in Surjection(1 .. n, tried)
    <3>1. IsFiniteSet(1 .. n) /\ Cardinality(1 .. n) = n
      BY <2>1, FS_Interval
    <3>2. q \in Injection(1 .. n, tried)
      BY <2>3 DEF Injection
    <3> QED BY <2>1, <3>1, <3>2, FS_Injection
  <2>5. q \in Seq(Event) /\ Len(q) = n
    <3>1. q \in [1 .. n -> Event]
      BY <2>1, <2>3
    <3> HIDE DEF n
    <3> QED BY <2>1, <3>1, IsListed
  <2>6. tried = {q[i] : i \in 1 .. Len(q)}
    BY <2>3, <2>4, <2>5 DEF Surjection
  <2> QED BY <2>1, <2>5, <2>6, IngestAllDelivers DEF Traced, Redelivered, q
<1>2. Sound /\ Traced /\ [Next]_vars => Traced'
  BY NextTraced
<1> QED BY <1>1, <1>2, InitTraced, Soundness, PTL DEF Spec

-----------------------------------------------------------------------------
(* The index at every point of a crash *)

\* Bodies keep their edges, unless they are speech about to be forgotten.
EdgesSafe(s) ==
  \A c \in s.body :
    \/ LinksOf(c) \subseteq s.links /\ PinsOf(c) \subseteq s.pins
    \/ RedactTarget[c] = None /\ s.redaction[c] # None

(***************************************************************************)
(* The redaction is on record before the first edge goes, and the edges    *)
(* are all there, or still to be written, before the body is.              *)
(***************************************************************************)
EdgesOrdered ==
  /\ EdgesSafe(db) /\ EdgesSafe(disk)
  /\ phase = "unlink" =>
       /\ Taken \in Claim /\ RedactTarget[Taken] = None
       /\ db.redaction[Taken] # None
       /\ todo.links \subseteq LinksOf(Taken) /\ todo.pins \subseteq PinsOf(Taken)
  /\ phase = "index" =>
       (BodyKept(db, event) =>
          /\ LinksOf(event.id) \subseteq db.links \cup todo.links
          /\ PinsOf(event.id) \subseteq db.pins \cup todo.pins)

\* A safe write is safe on either side of the commit.
LEMMA WriteSafe ==
  ASSUME EdgesOrdered, NEW s, Write(s), EdgesSafe(s)
  PROVE  db' = s /\ EdgesSafe(db') /\ EdgesSafe(disk')
BY DEF Write, EdgesOrdered

LEMMA InitOrdered == Init => EdgesOrdered
BY DEF Init, EdgesOrdered, EdgesSafe, EmptyStore

LEMMA NextOrdered == Sound /\ EdgesOrdered /\ [Next]_vars => EdgesOrdered'
<1> SUFFICES ASSUME Sound, EdgesOrdered, [Next]_vars PROVE EdgesOrdered'
  OBVIOUS
<1>0. /\ db \in Store /\ todo \in EdgeSet
      /\ phase # "idle" => event \in Event /\ event.id \in Claim
      /\ EdgesSafe(db) /\ EdgesSafe(disk)
  BY DEF Sound, TypeOK, Bracketed, EdgesOrdered, Event
<1>d. ASSUME NEW c, NEW d, c # d
      PROVE  LinksOf(c) \cap LinksOf(d) = {} /\ PinsOf(c) \cap PinsOf(d) = {}
  BY <1>d DEF LinksOf, PinsOf
<1>1. ASSUME NEW e \in Event, Begin(e) PROVE EdgesOrdered'
  <2>1. phase' = "redact" /\ UNCHANGED <<db, disk>>
    BY <1>1, Zenon DEF Begin
  <2> QED BY <1>0, <2>1 DEF EdgesOrdered
<1>2. CASE RecordRedaction
  <2> DEFINE t == OwnRedaction(event)
             marked == SetRedaction(db, t, event.id)
  <2>0. phase = "redact" /\ event' = event
    BY <1>2, Zenon DEF RecordRedaction
  <2>1. CASE t = None
    <3>1. phase' = "store" /\ UNCHANGED <<db, disk>>
      BY <1>2, <2>1 DEF RecordRedaction, Forgets
    <3> QED BY <1>0, <3>1 DEF EdgesOrdered
  <2>2. CASE t # None
    <3>1. Write(marked)
      BY <1>2, <2>2, Zenon DEF RecordRedaction
    <3>2. t \in Claim /\ event.id # None
      BY <1>0, <2>0, <2>2, OwnRedactionType, ClaimsAssumption
    <3>3. /\ marked.body = db.body /\ marked.links = db.links /\ marked.pins = db.pins
          /\ \A u \in Claim : db.redaction[u] # None => marked.redaction[u] # None
          /\ marked.redaction[t] # None
      BY <1>0, <2>0, <3>2 DEF SetRedaction, Store
    <3>4. EdgesSafe(marked)
      <4>1. db.body \subseteq Claim
        BY <1>0 DEF Store
      <4> HIDE DEF marked
      <4> QED BY <1>0, <3>3, <4>1 DEF EdgesSafe
    <3>5. db' = marked /\ EdgesSafe(db') /\ EdgesSafe(disk')
      BY <3>1, <3>4, WriteSafe
    <3>6. CASE Forgets(db, t)
      <4>1. phase' = "unlink" /\ todo' = Edges(t) /\ RedactTarget[t] = None
        BY <1>2, <3>6 DEF RecordRedaction, Forgets
      <4>2. Taken' = t
        BY <2>0 DEF Taken
      <4> HIDE DEF t, marked
      <4> QED BY <3>2, <3>3, <3>5, <4>1, <4>2 DEF EdgesOrdered, Edges
    <3>7. CASE ~Forgets(db, t)
      <4>1. phase' = "store"
        BY <1>2, <3>7 DEF RecordRedaction
      <4> QED BY <3>5, <4>1 DEF EdgesOrdered
    <3> QED BY <3>6, <3>7
  <2> QED BY <2>1, <2>2
<1>3. CASE RemoveEdge
  <2>0. /\ phase = "unlink" /\ phase' = "unlink" /\ event' = event /\ Taken' = Taken
        /\ Taken \in Claim /\ RedactTarget[Taken] = None
        /\ db.redaction[Taken] # None
        /\ todo.links \subseteq LinksOf(Taken) /\ todo.pins \subseteq PinsOf(Taken)
    BY <1>3 DEF RemoveEdge, EdgesOrdered, Taken
  <2>1. PICK s : /\ Write(s)
                 /\ s.body = db.body /\ s.redaction = db.redaction
                 /\ db.links \ s.links \subseteq LinksOf(Taken)
                 /\ db.pins \ s.pins \subseteq PinsOf(Taken)
                 /\ todo'.links \subseteq todo.links /\ todo'.pins \subseteq todo.pins
    <3>1. CASE \E l \in todo.links :
                 /\ Write([db EXCEPT !.links = @ \ {l}])
                 /\ todo' = [todo EXCEPT !.links = @ \ {l}]
      <4>1. PICK l \in todo.links :
                 /\ Write([db EXCEPT !.links = @ \ {l}])
                 /\ todo' = [todo EXCEPT !.links = @ \ {l}]
        BY <3>1
      <4> DEFINE s == [db EXCEPT !.links = @ \ {l}]
      <4>2. /\ s.body = db.body /\ s.redaction = db.redaction
            /\ s.links = db.links \ {l} /\ s.pins = db.pins
            /\ todo'.links = todo.links \ {l} /\ todo'.pins = todo.pins
        BY <1>0, <4>1 DEF Store, EdgeSet
      <4>3. Write(s)
        BY <4>1
      <4> HIDE DEF s
      <4> QED BY <2>0, <4>2, <4>3
    <3>2. CASE \E p \in todo.pins :
                 /\ todo.links = {}
                 /\ Write([db EXCEPT !.pins = @ \ {p}])
                 /\ todo' = [todo EXCEPT !.pins = @ \ {p}]
      <4>1. PICK p \in todo.pins :
                 /\ Write([db EXCEPT !.pins = @ \ {p}])
                 /\ todo' = [todo EXCEPT !.pins = @ \ {p}]
        BY <3>2
      <4> DEFINE s == [db EXCEPT !.pins = @ \ {p}]
      <4>2. /\ s.body = db.body /\ s.redaction = db.redaction
            /\ s.pins = db.pins \ {p} /\ s.links = db.links
            /\ todo'.pins = todo.pins \ {p} /\ todo'.links = todo.links
        BY <1>0, <4>1 DEF Store, EdgeSet
      <4>3. Write(s)
        BY <4>1
      <4> HIDE DEF s
      <4> QED BY <2>0, <4>2, <4>3
    <3> QED BY <1>3, <3>1, <3>2, Zenon DEF RemoveEdge
  <2>2. EdgesSafe(s)
    <3> SUFFICES ASSUME NEW c \in s.body,
                        ~(RedactTarget[c] = None /\ s.redaction[c] # None)
                 PROVE  LinksOf(c) \subseteq s.links /\ PinsOf(c) \subseteq s.pins
      BY DEF EdgesSafe
    <3>1. c # Taken
      BY <2>0, <2>1
    <3>2. LinksOf(c) \subseteq db.links /\ PinsOf(c) \subseteq db.pins
      BY <1>0, <2>1 DEF EdgesSafe
    <3>3. LinksOf(c) \cap LinksOf(Taken) = {} /\ PinsOf(c) \cap PinsOf(Taken) = {}
      BY <1>d, <3>1
    <3> QED BY <2>1, <3>2, <3>3
  <2>3. db' = s /\ EdgesSafe(db') /\ EdgesSafe(disk')
    BY <2>1, <2>2, WriteSafe
  <2> QED BY <2>0, <2>1, <2>3 DEF EdgesOrdered
<1>4. CASE ForgetBody
  <2> DEFINE s == [db EXCEPT !.body = @ \ {OwnRedaction(event)}]
  <2>0. phase' = "store" /\ Write(s)
    BY <1>4, Zenon DEF ForgetBody
  <2>1. /\ s.body \subseteq db.body /\ s.redaction = db.redaction
        /\ s.links = db.links /\ s.pins = db.pins
    BY <1>0 DEF Store
  <2> HIDE DEF s
  <2>2. EdgesSafe(s)
    BY <1>0, <2>1 DEF EdgesSafe
  <2>3. EdgesSafe(db') /\ EdgesSafe(disk')
    BY <2>0, <2>2, WriteSafe
  <2> QED BY <2>0, <2>3 DEF EdgesOrdered
<1>5. CASE DecideBody
  <2>1. /\ UNCHANGED <<db, disk, event>>
        /\ phase' \in {"commit", "index"}
        /\ phase' = "index" =>
             todo' = IF BodyKept(db, event) THEN Edges(event.id) ELSE NoEdges
    BY <1>5 DEF DecideBody
  <2>2. phase' = "index" /\ BodyKept(db, event) =>
          todo'.links = LinksOf(event.id) /\ todo'.pins = PinsOf(event.id)
    BY <2>1 DEF Edges
  <2>3. BodyKept(db, event)' = BodyKept(db, event)
    BY <2>1, Zenon
  <2> QED BY <1>0, <2>1, <2>2, <2>3 DEF EdgesOrdered
<1>6. CASE AddEdge
  <2>0. /\ phase = "index" /\ phase' = "index" /\ event' = event
        /\ BodyKept(db, event) =>
             /\ LinksOf(event.id) \subseteq db.links \cup todo.links
             /\ PinsOf(event.id) \subseteq db.pins \cup todo.pins
    BY <1>6 DEF AddEdge, EdgesOrdered
  <2>1. PICK s : /\ Write(s)
                 /\ s.body = db.body /\ s.redaction = db.redaction
                 /\ db.links \subseteq s.links /\ db.pins \subseteq s.pins
                 /\ db.links \cup todo.links \subseteq s.links \cup todo'.links
                 /\ db.pins \cup todo.pins \subseteq s.pins \cup todo'.pins
    <3>1. CASE \E l \in todo.links :
                 /\ Write([db EXCEPT !.links = @ \cup {l}])
                 /\ todo' = [todo EXCEPT !.links = @ \ {l}]
      <4>1. PICK l \in todo.links :
                 /\ Write([db EXCEPT !.links = @ \cup {l}])
                 /\ todo' = [todo EXCEPT !.links = @ \ {l}]
        BY <3>1
      <4> DEFINE s == [db EXCEPT !.links = @ \cup {l}]
      <4>2. /\ s.body = db.body /\ s.redaction = db.redaction
            /\ s.links = db.links \cup {l} /\ s.pins = db.pins
            /\ todo'.links = todo.links \ {l} /\ todo'.pins = todo.pins
        BY <1>0, <4>1 DEF Store, EdgeSet
      <4>3. Write(s)
        BY <4>1
      <4> HIDE DEF s
      <4> QED BY <4>2, <4>3
    <3>2. CASE \E p \in todo.pins :
                 /\ todo.links = {}
                 /\ Write([db EXCEPT !.pins = @ \cup {p}])
                 /\ todo' = [todo EXCEPT !.pins = @ \ {p}]
      <4>1. PICK p \in todo.pins :
                 /\ Write([db EXCEPT !.pins = @ \cup {p}])
                 /\ todo' = [todo EXCEPT !.pins = @ \ {p}]
        BY <3>2
      <4> DEFINE s == [db EXCEPT !.pins = @ \cup {p}]
      <4>2. /\ s.body = db.body /\ s.redaction = db.redaction
            /\ s.pins = db.pins \cup {p} /\ s.links = db.links
            /\ todo'.pins = todo.pins \ {p} /\ todo'.links = todo.links
        BY <1>0, <4>1 DEF Store, EdgeSet
      <4>3. Write(s)
        BY <4>1
      <4> HIDE DEF s
      <4> QED BY <4>2, <4>3
    <3> QED BY <1>6, <3>1, <3>2, Zenon DEF AddEdge
  <2>2. EdgesSafe(s)
    BY <1>0, <2>1 DEF EdgesSafe
  <2>3. db' = s /\ EdgesSafe(db') /\ EdgesSafe(disk')
    BY <2>1, <2>2, WriteSafe
  <2>4. BodyKept(db, event)' <=> BodyKept(db, event)
    BY <2>0, <2>1, <2>3 DEF BodyKept, Suppressed, OwnRedaction
  <2> QED BY <2>0, <2>1, <2>3, <2>4 DEF EdgesOrdered
<1>7. CASE PutRow
  <2> DEFINE u == [db EXCEPT !.held = @ \cup {event.id},
                             !.body = IF BodyKept(db, event)
                                      THEN @ \cup {event.id} ELSE @,
                             !.arrival[event.id] = ArrivalOf(db, event.id)]
  <2>0. phase = "index" /\ todo = NoEdges /\ phase' = "commit" /\ Write(u)
    BY <1>7, Zenon DEF PutRow
  <2>1. /\ u.body = IF BodyKept(db, event) THEN db.body \cup {event.id} ELSE db.body
        /\ u.redaction = db.redaction /\ u.links = db.links /\ u.pins = db.pins
    BY <1>0, <2>0, RowType DEF Sound, Finite
  <2>2. BodyKept(db, event) =>
          LinksOf(event.id) \subseteq db.links /\ PinsOf(event.id) \subseteq db.pins
    BY <2>0 DEF EdgesOrdered, NoEdges
  <2> HIDE DEF u
  <2>3. EdgesSafe(u)
    BY <1>0, <2>1, <2>2 DEF EdgesSafe
  <2>4. EdgesSafe(db') /\ EdgesSafe(disk')
    BY <2>0, <2>3, WriteSafe
  <2> QED BY <2>0, <2>4 DEF EdgesOrdered
<1>8. CASE Commit \/ FailRolledBack \/ FailPoisoned \/ Restart
  <2>1. db' \in {db, disk} /\ disk' \in {db, disk} /\ phase' = "idle"
    BY <1>8, Zenon DEF Commit, FailRolledBack, FailPoisoned, Restart, Return
  <2> QED BY <1>0, <2>1 DEF EdgesOrdered
<1>9. CASE UNCHANGED vars
  <2>1. UNCHANGED <<db, disk, phase, event, todo>>
    BY <1>9 DEF vars
  <2> QED BY <2>1, Zenon DEF EdgesOrdered, Taken
<1> QED
  BY <1>1, <1>2, <1>3, <1>4, <1>5, <1>6, <1>7, <1>8, <1>9, Zenon DEF Next

(***************************************************************************)
(* No crash loses an edge of a body that is served: edges are written      *)
(* before the body and taken away after its redaction is on record         *)
(* (ingest_inner, apply_redaction).                                        *)
(***************************************************************************)
THEOREM EdgesSurvive == Spec => []EdgesKept
<1>1. EdgesOrdered => EdgesKept
  BY DEF EdgesOrdered, EdgesSafe, EdgesKept
<1> QED BY <1>1, InitOrdered, NextOrdered, Soundness, PTL DEF Spec
=============================================================================
