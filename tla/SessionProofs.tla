---------------------------- MODULE SessionProofs ----------------------------
(***************************************************************************)
(* Lemmas about the session's operators, for every set of claims, every    *)
(* log and every batch size: what serve_since sends is a run of positions  *)
(* without a gap, what growing a store leaves of such a run, and what one  *)
(* feed() makes of the cursors, phase by phase.                            *)
(***************************************************************************)
EXTENDS SessionOps, ClaimOpsProofs

\* A session with every field typed.
Session ==
  [phase : Phases, pull : BOOLEAN, push : BOOLEAN, cursor : Cursor,
   peerCount : Nat, rounds : 0 .. 2, batch : Seq(Event), prefix : BOOLEAN,
   after : {"settle", "resettle"}, want : Seq(Claim), extra : Seq(Event)]

Side == [store : Store, row : Cursor, session : Session]

Status == [count : Nat, print : Digests, instance : Nat]

\* A store an honest run of ingests leaves.
Sound(s) == /\ s \in Store /\ IsFiniteSet(s.held)
            /\ Dense(s)
            /\ s.body \subseteq s.held

\* u is a later state of s: rows stay, where they arrived.
Grown(s, u) == /\ s.held \subseteq u.held
               /\ \A c \in s.held : u.arrival[c] = s.arrival[c]

\* The events of q are the rows of s at the positions n, n + 1, ...
Placed(q, s, n) ==
  \A j \in 1 .. Len(q) : /\ q[j].id \in LogRows(s, TheLog)
                         /\ s.arrival[q[j].id] = n + j - 1

-----------------------------------------------------------------------------
(* Positions *)

\* The number of rows below the end of the log is its length.
LEMMA CountType ==
  ASSUME NEW s, Sound(s)
  PROVE  /\ Count(s) \in Nat
         /\ IsFiniteSet(LogRows(s, TheLog))
         /\ {s.arrival[c] : c \in LogRows(s, TheLog)} = 0 .. Count(s) - 1
         /\ \A c, d \in LogRows(s, TheLog) :
              s.arrival[c] = s.arrival[d] => c = d
         /\ LogRows(s, TheLog) \subseteq Claim
<1>1. TheLog \in Log
  BY SessionAssumption
<1>2. Count(s) \in Nat /\ IsFiniteSet(LogRows(s, TheLog))
  BY <1>1, LogLenType DEF Sound, Count
<1>3. {s.arrival[c] : c \in LogRows(s, TheLog)} = 0 .. Count(s) - 1
  BY <1>1 DEF Sound, Dense, Count
<1>4. \A c, d \in LogRows(s, TheLog) : s.arrival[c] = s.arrival[d] => c = d
  BY DEF Sound, Dense, ArrivalsUnique, LogRows
<1>5. LogRows(s, TheLog) \subseteq Claim
  BY DEF Sound, Store, LogRows
<1> QED BY <1>2, <1>3, <1>4, <1>5

\* A store that grows keeps its positions: new rows come after the old.
LEMMA GrownPositions ==
  ASSUME NEW s, NEW u, Sound(s), Sound(u), Grown(s, u)
  PROVE  /\ Count(s) <= Count(u)
         /\ LogRows(s, TheLog) \subseteq LogRows(u, TheLog)
         /\ \A k \in LogRows(u, TheLog) :
              u.arrival[k] < Count(s) => k \in LogRows(s, TheLog)
<1>1. LogRows(s, TheLog) \subseteq LogRows(u, TheLog)
  BY DEF Grown, LogRows
<1>2. Count(s) <= Count(u)
  BY <1>1, CountType, FS_Subset DEF Count, LogLen
<1>3. ASSUME NEW k \in LogRows(u, TheLog), u.arrival[k] < Count(s)
      PROVE  k \in LogRows(s, TheLog)
  <2>1. u.arrival[k] \in Nat
    BY CountType DEF Sound, Store
  <2>2. u.arrival[k] \in {s.arrival[c] : c \in LogRows(s, TheLog)}
    BY <2>1, <1>3, CountType
  <2>3. PICK c \in LogRows(s, TheLog) : s.arrival[c] = u.arrival[k]
    BY <2>2
  <2>4. u.arrival[c] = u.arrival[k] /\ c \in LogRows(u, TheLog)
    BY <2>3, <1>1 DEF Grown, LogRows
  <2>5. c = k
    BY <2>4, <1>3, CountType
  <2> QED BY <2>5
<1> QED BY <1>1, <1>2, <1>3

\* One ingest, or a run of them, grows a sound store.
LEMMA IngestGrows ==
  ASSUME NEW s, Sound(s), NEW e \in Event
  PROVE  Sound(Ingest(s, e)) /\ Grown(s, Ingest(s, e))
<1>1. s \in Store /\ IsFiniteSet(s.held) /\ Dense(s)
  BY DEF Sound
<1>2. Sound(Ingest(s, e))
  <2>1. /\ \A c \in Ingest(s, e).body : c \in s.body \/ c = e.id
        /\ Ingest(s, e).held = s.held \cup {e.id}
    BY <1>1, IngestRows, IngestShows
  <2>2. Ingest(s, e).body \subseteq Ingest(s, e).held
    BY <2>1 DEF Sound
  <2> QED BY <1>1, <2>2, IngestRows, IngestDense DEF Sound
<1>3. Grown(s, Ingest(s, e))
  <2>1. s.held \subseteq Ingest(s, e).held
    BY <1>1, IngestRows
  <2>2. \A c \in Claim : c \in s.held => Ingest(s, e).arrival[c] = s.arrival[c]
    BY <1>1, IngestRows
  <2>3. s.held \subseteq Claim
    BY <1>1 DEF Store
  <2> QED BY <2>1, <2>2, <2>3 DEF Grown
<1> QED BY <1>2, <1>3

LEMMA IngestAllGrows ==
  ASSUME NEW s, Sound(s), NEW q \in Seq(Event)
  PROVE  /\ Sound(IngestAll(s, q)) /\ Grown(s, IngestAll(s, q))
         /\ \A i \in 1 .. Len(q) : q[i].id \in IngestAll(s, q).held
<1> DEFINE u == IngestAll(s, q)
<1>1. s \in Store /\ IsFiniteSet(s.held) /\ Dense(s)
  BY DEF Sound
<1>2. /\ u \in Store /\ IsFiniteSet(u.held)
      /\ u.held = s.held \cup {q[i].id : i \in 1 .. Len(q)}
      /\ \A c \in s.held : u.arrival[c] = s.arrival[c]
      /\ Dense(u)
  BY <1>1, IngestAllTables
<1>3. \A c \in u.body :
        c \in s.body \/ \E j \in 1 .. Len(q) : c = q[j].id /\ q[j].body
  BY <1>1, IngestAllShows
<1> HIDE DEF u
<1>4. u.body \subseteq u.held
  BY <1>2, <1>3 DEF Sound
<1> QED BY <1>2, <1>4 DEF Sound, Grown, u

LEMMA EmptySound == Sound(EmptyStore)
<1>1. IsFiniteSet(EmptyStore.held)
  BY FS_EmptySet DEF EmptyStore
<1>2. \A l \in Log : LogRows(EmptyStore, l) = {}
  BY DEF LogRows, EmptyStore
<1>3. \A l \in Log : LogLen(EmptyStore, l) = 0
  BY <1>2, FS_EmptySet DEF LogLen
<1>4. \A l \in Log : {EmptyStore.arrival[c] : c \in LogRows(EmptyStore, l)}
                       = 0 .. LogLen(EmptyStore, l) - 1
  BY <1>2, <1>3
<1>5. ArrivalsUnique(EmptyStore)
  BY DEF ArrivalsUnique, EmptyStore
<1>6. EmptyStore.body \subseteq EmptyStore.held
  BY DEF EmptyStore
<1> QED BY <1>1, <1>4, <1>5, <1>6, EmptyStoreType DEF Sound, Dense

-----------------------------------------------------------------------------
(* Batches *)

LEMMA FirstRest ==
  ASSUME NEW T, NEW q \in Seq(T)
  PROVE  /\ First(q) \in Seq(T) /\ Rest(q) \in Seq(T)
         /\ Len(First(q)) <= Len(q)
         /\ \A j \in 1 .. Len(First(q)) : First(q)[j] = q[j]
         /\ q # <<>> => Len(First(q)) > 0
         /\ Len(q) = Len(First(q)) + Len(Rest(q))
         /\ \A j \in 1 .. Len(Rest(q)) : /\ Len(First(q)) + j \in 1 .. Len(q)
                                         /\ Rest(q)[j] = q[Len(First(q)) + j]
<1> DEFINE n == IF Len(q) < Batch THEN Len(q) ELSE Batch
<1>1. Batch \in Nat \ {0} /\ Len(q) \in Nat
  BY SessionAssumption, LenProperties
<1>2. n \in Nat /\ n <= Len(q) /\ (Len(q) > 0 => n > 0)
      /\ (Batch < Len(q) => n = Batch)
  BY <1>1
<1>3. \A i \in 1 .. Len(q) : q[i] \in T
  BY ElementOfSeq
<1>4. First(q) = SubSeq(q, 1, n) /\ Rest(q) = SubSeq(q, Batch + 1, Len(q))
  BY DEF First, Rest
<1> HIDE DEF n
<1>5. /\ SubSeq(q, 1, n) \in Seq(T)
      /\ Len(SubSeq(q, 1, n)) = IF 1 <= n THEN n - 1 + 1 ELSE 0
      /\ \A j \in 1 .. n - 1 + 1 : SubSeq(q, 1, n)[j] = q[1 + j - 1]
  <2>1. \A i \in 1 .. n : q[i] \in T
    BY <1>1, <1>2, <1>3
  <2>2. 1 \in Int /\ n \in Int
    BY <1>2
  <2> QED BY <2>1, <2>2, SubSeqProperties
<1>6. /\ SubSeq(q, Batch + 1, Len(q)) \in Seq(T)
      /\ Len(SubSeq(q, Batch + 1, Len(q))) =
           IF Batch + 1 <= Len(q) THEN Len(q) - (Batch + 1) + 1 ELSE 0
      /\ \A j \in 1 .. Len(q) - (Batch + 1) + 1 :
           SubSeq(q, Batch + 1, Len(q))[j] = q[Batch + 1 + j - 1]
  <2>1. \A i \in Batch + 1 .. Len(q) : q[i] \in T
    BY <1>1, <1>3
  <2>2. Batch + 1 \in Int /\ Len(q) \in Int
    BY <1>1
  <2> HIDE DEF First, Rest
  <2> QED BY <2>1, <2>2, SubSeqProperties
<1>7. First(q) \in Seq(T) /\ Rest(q) \in Seq(T)
  BY <1>4, <1>5, <1>6
<1>8. Len(First(q)) = n /\ \A j \in 1 .. Len(First(q)) : First(q)[j] = q[j]
  BY <1>2, <1>4, <1>5
<1>9. q # <<>> => Len(First(q)) > 0
  BY <1>2, <1>8, EmptySeq
<1>10. Len(Rest(q)) =
         IF Batch + 1 <= Len(q) THEN Len(q) - (Batch + 1) + 1 ELSE 0
  BY <1>4, <1>6
<1>11. Len(q) = Len(First(q)) + Len(Rest(q))
  <2>1. CASE Batch < Len(q)
    <3>1. Batch + 1 <= Len(q) /\ n = Batch
      BY <1>1, <1>2, <2>1
    <3> QED BY <1>1, <1>8, <1>10, <3>1
  <2>2. CASE ~(Batch < Len(q))
    <3>1. n = Len(q)
      BY <1>1, <2>2 DEF n
    <3>2. ~(Batch + 1 <= Len(q))
      BY <1>1, <2>2
    <3> QED BY <1>1, <1>8, <1>10, <3>1, <3>2
  <2> QED BY <2>1, <2>2
<1>12. \A j \in 1 .. Len(Rest(q)) : /\ Len(First(q)) + j \in 1 .. Len(q)
                                    /\ Rest(q)[j] = q[Len(First(q)) + j]
  BY <1>1, <1>2, <1>4, <1>6, <1>8
<1> QED BY <1>2, <1>7, <1>8, <1>9, <1>11, <1>12

\* What serve_since sends is placed from the position asked for.
LEMMA ServedPlaced ==
  ASSUME NEW s, Sound(s), NEW n \in Nat
  PROVE  /\ ServedSince(s, n) \in Seq(Event)
         /\ Placed(ServedSince(s, n), s, n)
<1> DEFINE C == ServeSince(s, TheLog, n)
           q == InOrder(C, s.arrival)
           es == EventsOf(s, q)
<1>1. C \subseteq LogRows(s, TheLog)
  BY DEF ServeSince
<1>2. C \in SUBSET Claim /\ IsFiniteSet(C)
  BY <1>1, CountType, FS_Subset
<1>3. \A c \in C : s.arrival[c] \in Nat
  BY <1>2 DEF Sound, Store
<1>4. \A c, d \in C : s.arrival[c] = s.arrival[d] => c = d
  BY <1>1, CountType
<1>5. {s.arrival[c] : c \in C} = n .. Count(s) - 1
  <2>1. {s.arrival[c] : c \in LogRows(s, TheLog)} = 0 .. Count(s) - 1
        /\ Count(s) \in Nat
    BY CountType
  <2>2. ASSUME NEW k \in n .. Count(s) - 1
        PROVE  \E c \in C : s.arrival[c] = k
    <3>1. k \in 0 .. Count(s) - 1
      BY <2>1
    <3>2. PICK c \in LogRows(s, TheLog) : s.arrival[c] = k
      BY <2>1, <3>1
    <3> QED BY <2>1, <3>2 DEF ServeSince
  <2>3. ASSUME NEW c \in C
        PROVE  s.arrival[c] \in n .. Count(s) - 1
    <3>1. c \in LogRows(s, TheLog) /\ s.arrival[c] >= n
      BY DEF ServeSince
    <3>2. s.arrival[c] \in 0 .. Count(s) - 1
      BY <2>1, <3>1
    <3> QED BY <2>1, <3>1, <3>2
  <2> QED BY <2>2, <2>3
<1>6. /\ Cardinality(C) \in Nat
      /\ q \in [1 .. Cardinality(C) -> C]
  BY <1>2, <1>3, <1>4, InOrderSorts
<1>7. /\ es \in Seq(Event)
      /\ Len(es) = Cardinality(C)
      /\ \A i \in 1 .. Cardinality(C) : es[i] = EventOf(s, q[i])
  <2> HIDE DEF C, q
  <2>1. q \in [1 .. Cardinality(C) -> Claim]
    BY <1>2, <1>6
  <2> QED BY <1>6, <2>1, EventsOfList
<1>8. \A i \in 1 .. Cardinality(C) : s.arrival[q[i]] = n + i - 1
  <2>1. Count(s) - 1 \in Int
    BY CountType
  <2> HIDE DEF C
  <2> QED BY <1>2, <1>4, <1>5, <2>1, InOrderPlaces
<1>9. ServedSince(s, n) = es
  BY DEF ServedSince
<1> HIDE DEF es, q
<1>10. Placed(es, s, n)
  <2> SUFFICES ASSUME NEW j \in 1 .. Len(es)
               PROVE  /\ es[j].id \in LogRows(s, TheLog)
                      /\ s.arrival[es[j].id] = n + j - 1
    BY DEF Placed
  <2>1. es[j].id = q[j] /\ q[j] \in C
    BY <1>6, <1>7 DEF EventOf
  <2> HIDE DEF C
  <2> QED BY <1>1, <1>7, <1>8, <2>1
<1> QED BY <1>7, <1>9, <1>10

\* A run of positions lies in the log, and is all there is at its positions.
LEMMA PlacedCovers ==
  ASSUME NEW s, Sound(s), NEW n \in Nat, n <= Count(s),
         NEW q \in Seq(Event), Placed(q, s, n)
  PROVE  /\ n + Len(q) <= Count(s)
         /\ \A k \in LogRows(s, TheLog) :
              n <= s.arrival[k] /\ s.arrival[k] < n + Len(q) =>
                \E j \in 1 .. Len(q) : q[j].id = k
<1>1. Len(q) \in Nat /\ Count(s) \in Nat
  BY LenProperties, CountType
<1>2. n + Len(q) <= Count(s)
  <2>1. CASE Len(q) = 0
    BY <2>1, <1>1
  <2>2. CASE Len(q) > 0
    <3>1. /\ q[Len(q)].id \in LogRows(s, TheLog)
          /\ s.arrival[q[Len(q)].id] = n + Len(q) - 1
      BY <2>2, <1>1 DEF Placed
    <3>2. n + Len(q) - 1 \in 0 .. Count(s) - 1
      BY <3>1, CountType
    <3> QED BY <3>2, <1>1
  <2> QED BY <2>1, <2>2, <1>1
<1>3. ASSUME NEW k \in LogRows(s, TheLog),
             n <= s.arrival[k], s.arrival[k] < n + Len(q)
      PROVE  \E j \in 1 .. Len(q) : q[j].id = k
  <2> DEFINE j == s.arrival[k] - n + 1
  <2>1. s.arrival[k] \in Nat
    BY CountType DEF Sound, Store
  <2>2. j \in 1 .. Len(q) /\ n + j - 1 = s.arrival[k]
    BY <1>1, <1>3, <2>1
  <2> HIDE DEF j
  <2>3. q[j].id \in LogRows(s, TheLog) /\ s.arrival[q[j].id] = s.arrival[k]
    BY <2>2 DEF Placed
  <2>4. q[j].id = k
    BY <2>3, CountType
  <2> QED BY <2>2, <2>4
<1> QED BY <1>2, <1>3

LEMMA PlacedGrows ==
  ASSUME NEW s, NEW u, Grown(s, u), NEW n, NEW q, Placed(q, s, n)
  PROVE  Placed(q, u, n)
BY DEF Placed, Grown, LogRows

LEMMA PlacedParts ==
  ASSUME NEW s, NEW n \in Nat, NEW q \in Seq(Event), Placed(q, s, n)
  PROVE  /\ Placed(First(q), s, n)
         /\ Placed(Rest(q), s, n + Len(First(q)))
<1>1. /\ Len(First(q)) \in Nat /\ Len(q) \in Nat /\ Len(Rest(q)) \in Nat
      /\ Len(First(q)) <= Len(q)
      /\ \A j \in 1 .. Len(First(q)) : First(q)[j] = q[j]
      /\ \A j \in 1 .. Len(Rest(q)) : /\ Len(First(q)) + j \in 1 .. Len(q)
                                      /\ Rest(q)[j] = q[Len(First(q)) + j]
  BY FirstRest, LenProperties
<1>2. Placed(First(q), s, n)
  <2> SUFFICES ASSUME NEW j \in 1 .. Len(First(q))
               PROVE  /\ First(q)[j].id \in LogRows(s, TheLog)
                      /\ s.arrival[First(q)[j].id] = n + j - 1
    BY DEF Placed
  <2>1. j \in 1 .. Len(q) /\ First(q)[j] = q[j]
    BY <1>1
  <2> QED BY <2>1 DEF Placed
<1>3. Placed(Rest(q), s, n + Len(First(q)))
  <2> SUFFICES ASSUME NEW j \in 1 .. Len(Rest(q))
               PROVE  /\ Rest(q)[j].id \in LogRows(s, TheLog)
                      /\ s.arrival[Rest(q)[j].id] = n + Len(First(q)) + j - 1
    BY DEF Placed
  <2>1. /\ q[Len(First(q)) + j].id \in LogRows(s, TheLog)
        /\ s.arrival[q[Len(First(q)) + j].id] = n + (Len(First(q)) + j) - 1
    BY <1>1 DEF Placed
  <2> QED BY <1>1, <2>1
<1> QED BY <1>2, <1>3

(***************************************************************************)
(* The first p rows of one end's log are held at the other.                *)
(***************************************************************************)
Covered(p, from, to) ==
  /\ p <= Count(from)
  /\ \A k \in LogRows(from, TheLog) : from.arrival[k] < p => k \in to.held

LEMMA CoveredZero ==
  ASSUME NEW from, Sound(from), NEW to
  PROVE  Covered(0, from, to)
BY CountType DEF Covered, Sound, Store

\* Stores that grow keep what is covered.
LEMMA CoveredGrows ==
  ASSUME NEW from, NEW more, Sound(from), Sound(more), Grown(from, more),
         NEW to, NEW too, to.held \subseteq too.held,
         NEW p \in Nat, Covered(p, from, to)
  PROVE  Covered(p, more, too)
<1>1. /\ Count(from) \in Nat /\ Count(more) \in Nat
      /\ Count(from) <= Count(more)
  BY CountType, GrownPositions
<1>2. p <= Count(more)
  BY <1>1 DEF Covered
<1>3. ASSUME NEW k \in LogRows(more, TheLog), more.arrival[k] < p
      PROVE  k \in too.held
  <2>1. more.arrival[k] \in Nat
    BY CountType DEF Sound, Store
  <2>2. more.arrival[k] < Count(from)
    BY <1>1, <1>3, <2>1 DEF Covered
  <2>3. k \in LogRows(from, TheLog)
    BY <2>2, GrownPositions
  <2>4. from.arrival[k] < p
    BY <1>3, <2>3 DEF Grown, LogRows
  <2> QED BY <2>3, <2>4 DEF Covered
<1> QED BY <1>2, <1>3 DEF Covered

\* A batch that starts where the covered rows end, taken, covers its rows.
LEMMA CoveredMore ==
  ASSUME NEW from, Sound(from), NEW to, NEW too, to.held \subseteq too.held,
         NEW p \in Nat, Covered(p, from, to),
         NEW q \in Seq(Event), Placed(q, from, p),
         \A j \in 1 .. Len(q) : q[j].id \in too.held
  PROVE  Covered(p + Len(q), from, too)
<1>1. /\ p + Len(q) <= Count(from)
      /\ \A k \in LogRows(from, TheLog) :
           p <= from.arrival[k] /\ from.arrival[k] < p + Len(q) =>
             \E j \in 1 .. Len(q) : q[j].id = k
  BY PlacedCovers DEF Covered
<1>2. ASSUME NEW k \in LogRows(from, TheLog), from.arrival[k] < p + Len(q)
      PROVE  k \in too.held
  <2>1. from.arrival[k] \in Nat
    BY CountType DEF Sound, Store
  <2>2. CASE from.arrival[k] < p
    BY <2>2 DEF Covered
  <2>3. CASE p <= from.arrival[k]
    BY <1>1, <1>2, <2>3
  <2> QED BY <2>1, <2>2, <2>3
<1> QED BY <1>1, <1>2 DEF Covered

-----------------------------------------------------------------------------
(* Answers *)

LEMMA DigestType ==
  ASSUME NEW s \in Store
  PROVE  Digest(s) \in Digests
<1> DEFINE A == {<<"claim", c, c \in s.body>> : c \in LogRows(s, TheLog)}
           B == {<<"redaction", t, s.redaction[t]>> :
                   t \in {u \in Claim : s.redaction[u] \in LogRows(s, TheLog)}}
<1>1. LogRows(s, TheLog) \subseteq Claim
  BY DEF LogRows, Store
<1>2. A \subseteq {"claim"} \X Claim \X BOOLEAN
  <2>1. \A c \in Claim : \A b \in BOOLEAN :
          <<"claim", c, b>> \in {"claim"} \X Claim \X BOOLEAN
    OBVIOUS
  <2>2. \A c \in Claim : (c \in s.body) \in BOOLEAN
    OBVIOUS
  <2>3. \A c \in Claim :
          <<"claim", c, c \in s.body>> \in {"claim"} \X Claim \X BOOLEAN
    BY <2>1, <2>2, Zenon
  <2> QED BY <1>1, <2>3, Zenon
<1>3. B \subseteq {"redaction"} \X Claim \X Claim
  BY <1>1
<1>4. Digest(s) = A \cup B
  BY DEF Digest, Fingerprint
<1> QED BY <1>2, <1>3, <1>4 DEF Digests

LEMMA StatusType ==
  ASSUME NEW s, Sound(s), NEW i \in Nat
  PROVE  StatusOf(s, i) \in Status
BY CountType, DigestType DEF StatusOf, Status, Sound

LEMMA HashesType ==
  ASSUME NEW s \in Store
  PROVE  HashesOf(s) \in [rows : SUBSET Claim, bodies : SUBSET Claim]
BY DEF HashesOf, LogRows, Store

LEMMA HashesFinite ==
  ASSUME NEW s, Sound(s)
  PROVE  IsFiniteSet(HashesOf(s).rows)
BY CountType DEF HashesOf

\* Claims are served by list: those held, in the order asked for.
LEMMA ClaimsType ==
  ASSUME NEW s, NEW ids \in Seq(Claim)
  PROVE  /\ ClaimsOf(s, ids) \in Seq(Event)
         /\ \A i \in 1 .. Len(ids) :
              ids[i] \in s.held =>
                \E j \in 1 .. Len(ClaimsOf(s, ids)) :
                  ClaimsOf(s, ids)[j] = EventOf(s, ids[i])
<1> DEFINE C == {i \in DOMAIN ids : ids[i] \in s.held}
           key == [i \in DOMAIN ids |-> i]
           at == InOrder(C, key)
           n == Cardinality(C)
           q == [i \in DOMAIN at |-> ids[at[i]]]
<1>1. DOMAIN ids = 1 .. Len(ids) /\ Len(ids) \in Nat
      /\ \A i \in DOMAIN ids : ids[i] \in Claim
  BY LenProperties, ElementOfSeq
<1>2. IsFiniteSet(C)
  <2>1. IsFiniteSet(DOMAIN ids)
    BY <1>1, FS_Interval
  <2> QED BY <2>1, FS_Subset
<1>3. \A i \in C : key[i] \in Nat
  BY <1>1
<1>4. \A i, j \in C : key[i] = key[j] => i = j
  OBVIOUS
<1>5. C \subseteq DOMAIN ids
  OBVIOUS
<1>6. /\ n \in Nat /\ at \in [1 .. n -> C]
      /\ \A c \in C : \E k \in 1 .. n : at[k] = c
  <2> HIDE DEF C, key
  <2> QED BY <1>2, <1>3, <1>4, InOrderSorts
<1>7. q \in [1 .. n -> Claim] /\ \A k \in 1 .. n : q[k] = ids[at[k]]
  <2> HIDE DEF C, at, n
  <2>1. DOMAIN at = 1 .. n /\ \A i \in 1 .. n : at[i] \in DOMAIN ids
    BY <1>5, <1>6
  <2> QED BY <1>1, <2>1
<1>8. ClaimsOf(s, ids) = EventsOf(s, q)
  BY DEF ClaimsOf
<1>9. \A i \in 1 .. Len(ids) : ids[i] \in s.held => i \in C
  BY <1>1
<1> HIDE DEF C, at, q, n
<1>10. /\ EventsOf(s, q) \in Seq(Event) /\ Len(EventsOf(s, q)) = n
       /\ \A k \in 1 .. n : EventsOf(s, q)[k] = EventOf(s, q[k])
  BY <1>6, <1>7, EventsOfList
<1>11. ASSUME NEW i \in 1 .. Len(ids), ids[i] \in s.held
       PROVE  \E j \in 1 .. n : EventsOf(s, q)[j] = EventOf(s, ids[i])
  <2>1. PICK k \in 1 .. n : at[k] = i
    BY <1>6, <1>9, <1>11
  <2>2. EventsOf(s, q)[k] = EventOf(s, ids[i])
    BY <1>7, <1>10, <2>1
  <2> QED BY <2>2
<1> QED BY <1>8, <1>10, <1>11

\* A set of claims, listed by hash: as hashes and as events.
LEMMA ByHashType ==
  ASSUME NEW s, NEW C \in SUBSET Claim, IsFiniteSet(C)
  PROVE  LET q == InOrder(C, ByHash)
             es == ById(s, C)
         IN  /\ q \in Seq(Claim) /\ es \in Seq(Event)
             /\ \A c \in C : \E i \in 1 .. Len(q) : q[i] = c
             /\ \A i \in 1 .. Len(q) : q[i] \in C
             /\ \A i \in 1 .. Len(es) : \E c \in C : es[i] = EventOf(s, c)
             /\ \A c \in C : \E i \in 1 .. Len(es) : es[i] = EventOf(s, c)
<1> DEFINE q == InOrder(C, ByHash)
           n == Cardinality(C)
<1>1. /\ \A c \in C : ByHash[c] \in Nat
      /\ \A c, d \in C : ByHash[c] = ByHash[d] => c = d
  BY ClaimsAssumption DEF ByHash
<1>2. /\ n \in Nat /\ q \in [1 .. n -> C]
      /\ \A c \in C : \E i \in 1 .. n : q[i] = c
  BY <1>1, InOrderSorts
<1> HIDE DEF q, n
<1>3. q \in [1 .. n -> Claim] /\ \A i \in 1 .. n : q[i] \in C
  BY <1>2
<1>4. q \in Seq(Claim) /\ Len(q) = n
  BY <1>2, <1>3, IsListed
<1>5. /\ EventsOf(s, q) \in Seq(Event) /\ Len(EventsOf(s, q)) = n
      /\ \A i \in 1 .. n : EventsOf(s, q)[i] = EventOf(s, q[i])
  BY <1>2, <1>3, EventsOfList
<1>6. \A i \in 1 .. Len(EventsOf(s, q)) :
        \E c \in C : EventsOf(s, q)[i] = EventOf(s, c)
  BY <1>3, <1>5
<1>7. \A c \in C : \E i \in 1 .. Len(EventsOf(s, q)) :
        EventsOf(s, q)[i] = EventOf(s, c)
  BY <1>2, <1>5
<1> QED BY <1>2, <1>3, <1>4, <1>5, <1>6, <1>7 DEF q, ById

-----------------------------------------------------------------------------
(* The session's moves *)

\* A session about to send a prefix of the arrival order sends just that.
Ready(s, store) ==
  /\ s \in Session
  /\ s.phase = "publish" /\ s.prefix => Placed(s.batch, store, s.cursor.push)

Zero(c) == c.pull = 0 /\ c.push = 0

Cursors(x) == {x.row, x.session.cursor}

\* A session on its way to, or in, its first settle.
Primary(s) ==
  /\ s.phase \in {"idle", "pull", "publish", "settle", "hashes"}
  /\ s.phase = "publish" => s.after = "settle"

\* The same positions in the same incarnation of the log.
Same(c, d) ==
  c.instance = d.instance /\ c.pull = d.pull /\ c.push = d.push

LEMMA FreshType ==
  ASSUME NEW i \in Nat \cup {None}
  PROVE  FreshCursor(i) \in Cursor /\ Zero(FreshCursor(i))
         /\ FreshCursor(i).instance = i /\ FreshCursor(i).settled = None
BY DEF FreshCursor, Cursor, Zero

LEMMA IdleType ==
  /\ Idle \in Session /\ Zero(Idle.cursor) /\ Idle.phase = "idle"
  /\ Idle.cursor.settled = None
  /\ \A pull, push \in BOOLEAN :
       LET s == NewSession(pull, push)
       IN  /\ s \in Session /\ Zero(s.cursor) /\ s.phase = "status"
           /\ s.cursor.settled = None /\ s.pull = pull /\ s.push = push
<1>1. /\ <<>> \in Seq(Event) /\ <<>> \in Seq(Claim)
      /\ FreshCursor(None) \in Cursor /\ Zero(FreshCursor(None))
      /\ FreshCursor(None).settled = None
  BY EmptySeq, FreshType
<1>2. /\ Idle \in Session /\ Zero(Idle.cursor) /\ Idle.phase = "idle"
      /\ Idle.cursor.settled = None
  BY <1>1 DEF Idle, Session, Phases
<1>3. ASSUME NEW pull \in BOOLEAN, NEW push \in BOOLEAN
      PROVE  LET s == NewSession(pull, push)
             IN  /\ s \in Session /\ Zero(s.cursor) /\ s.phase = "status"
                 /\ s.cursor.settled = None /\ s.pull = pull /\ s.push = push
  <2>1. \A s \in Session : LET u == [s EXCEPT !.phase = "status",
                                             !.pull = pull, !.push = push]
                           IN  /\ u \in Session /\ u.cursor = s.cursor
                               /\ u.phase = "status"
                               /\ u.pull = pull /\ u.push = push
    BY DEF Session, Phases
  <2> QED BY <1>2, <2>1 DEF NewSession
<1> QED BY <1>2, <1>3

LEMMA PrimaryPush ==
  ASSUME NEW s \in Session, NEW store, Sound(store)
  PROVE  LET t == BeginPrimaryPush(s, store)
         IN  /\ Ready(t, store)
             /\ t.cursor = s.cursor /\ t.rounds = s.rounds
             /\ t.pull = s.pull /\ t.push = s.push
             /\ t.phase \in {"publish", "settle"} /\ t.after = "settle"
<1> DEFINE batch == IF s.push THEN ServedSince(store, s.cursor.push) ELSE <<>>
           t == BeginPush(s, batch, TRUE, "settle")
<1>1. s.cursor.push \in Nat
  BY DEF Session, Cursor
<1>2. batch \in Seq(Event) /\ Placed(batch, store, s.cursor.push)
  <2>1. CASE s.push
    BY <1>1, <2>1, ServedPlaced
  <2>2. CASE ~s.push
    BY <2>2, EmptySeq DEF Placed
  <2> QED BY <2>1, <2>2
<1>3. BeginPrimaryPush(s, store) = t
  BY DEF BeginPrimaryPush
<1> HIDE DEF batch
<1>4. /\ t \in Session
      /\ t.cursor = s.cursor /\ t.rounds = s.rounds
      /\ t.pull = s.pull /\ t.push = s.push
      /\ t.batch = batch /\ t.after = "settle"
      /\ batch = <<>> => t.phase = "settle"
      /\ batch # <<>> => t.phase = "publish"
  BY <1>2 DEF BeginPush, Session, Phases
<1> HIDE DEF t
<1> QED BY <1>2, <1>3, <1>4 DEF Ready

LEMMA AfterClaimsType ==
  ASSUME NEW s \in Session
  PROVE  LET t == AfterClaims(s)
         IN  /\ t \in Session /\ t.cursor = s.cursor
             /\ t.pull = s.pull /\ t.push = s.push
             /\ \/ t.phase = "resettle" /\ s.extra = <<>>
                \/ /\ t.phase = "publish" /\ ~t.prefix
                   /\ t.after = "resettle" /\ t.batch = s.extra
<1>1. CASE s.extra = <<>>
  BY <1>1 DEF AfterClaims, Session, Phases
<1>2. CASE s.extra # <<>>
  <2> DEFINE u == [s EXCEPT !.extra = <<>>]
  <2>1. /\ u \in Session /\ u.cursor = s.cursor
        /\ u.pull = s.pull /\ u.push = s.push
        /\ s.extra \in Seq(Event)
    BY EmptySeq DEF Session
  <2>2. AfterClaims(s) = BeginPush(u, s.extra, FALSE, "resettle")
    BY <1>2 DEF AfterClaims
  <2> DEFINE t == BeginPush(u, s.extra, FALSE, "resettle")
  <2> HIDE DEF u
  <2>3. /\ t \in Session /\ t.cursor = u.cursor /\ t.prefix = FALSE
        /\ t.phase = "publish" /\ t.after = "resettle"
        /\ t.batch = s.extra /\ t.pull = u.pull /\ t.push = u.push
    BY <1>2, <2>1 DEF BeginPush, Session, Phases
  <2> HIDE DEF t
  <2>4. /\ t \in Session /\ t.cursor = s.cursor
        /\ t.pull = s.pull /\ t.push = s.push
        /\ t.phase = "publish" /\ ~t.prefix
        /\ t.after = "resettle" /\ t.batch = s.extra
    BY <2>1, <2>3
  <2> QED BY <2>2, <2>4 DEF t
<1> QED BY <1>1, <1>2

\* One more lap, from cursor c towards n rows.
Lap(s, c, n) == [s EXCEPT !.cursor = c, !.peerCount = n, !.rounds = @ + 1]

LEMMA LapType ==
  ASSUME NEW s \in Session, s.rounds < 2, NEW c \in Cursor, NEW n \in Nat
  PROVE  /\ Lap(s, c, n) \in Session
         /\ Lap(s, c, n).cursor = c /\ Lap(s, c, n).phase = s.phase
         /\ Lap(s, c, n).pull = s.pull /\ Lap(s, c, n).push = s.push
         /\ Lap(s, c, n).rounds \in 0 .. 2
<1>1. s.rounds + 1 \in 0 .. 2
  BY DEF Session
<1>2. \A k \in 0 .. 2 :
        LET t == [s EXCEPT !.cursor = c, !.peerCount = n, !.rounds = k]
        IN  /\ t \in Session /\ t.cursor = c /\ t.phase = s.phase
            /\ t.pull = s.pull /\ t.push = s.push /\ t.rounds \in 0 .. 2
  BY DEF Session
<1> QED BY <1>1, <1>2 DEF Lap

(***************************************************************************)
(* A session that goes on offers what it offered, from the saved row if it *)
(* worked from it; one that ends remembers the digest it ended on, if it   *)
(* remembers any.                                                          *)
(***************************************************************************)
Stepped(together, push, a, y) ==
  /\ y.session.phase # "idle" =>
       /\ y.session.push = push
       /\ together => y.session.cursor = y.row
  /\ y.session.phase = "idle" =>
       /\ y.session = Idle
       /\ together => y.row.settled \in {None, a.print}

\* What deciding on a Status may leave: no position that was not there.
LEMMA SettleMoves ==
  ASSUME NEW x \in Side, Sound(x.store), NEW a \in Status,
         NEW s \in Session, s.phase = "settle"
  PROVE  LET y == Settle(x, s, a)
         IN  /\ y \in Side /\ y.store = x.store
             /\ Ready(y.session, y.store)
             /\ Stepped(s.cursor = x.row, s.push, a, y)
             /\ Zero(y.row) \/ Same(y.row, x.row) \/ Same(y.row, s.cursor)
             /\ Zero(y.session.cursor) \/ Same(y.session.cursor, s.cursor)
             /\ y.session.phase # "idle" =>
                  /\ y.session.pull = s.pull
                  /\ y.session.cursor.instance = a.instance
             /\ Primary(y.session)
             /\ \A c \in Cursors(y) :
                  c.settled \in {None, x.row.settled, s.cursor.settled,
                                Digest(x.store)}
<1> DEFINE y == Settle(x, s, a)
<1> USE DEF Same, Cursors, Stepped
<1>1. a.instance \in Nat /\ a.count \in Nat /\ a.print \in Digests
  BY DEF Status
<1>2. CASE s.cursor.instance # a.instance
  <2> DEFINE c == FreshCursor(a.instance)
             t == [s EXCEPT !.cursor = c, !.peerCount = a.count,
                            !.rounds = @ + 1]
             p == BeginPrimaryPush(t, x.store)
             u == IF t.rounds > 2 THEN Idle
                  ELSE IF t.pull /\ a.count > 0
                  THEN [t EXCEPT !.phase = "pull"] ELSE p
  <2>1. y = [x EXCEPT !.row = c, !.session = u]
    BY <1>2 DEF Settle, SettleReborn
  <2>2. /\ c \in Cursor /\ Zero(c) /\ c.instance = a.instance
        /\ c.settled = None
    BY <1>1, FreshType
  <2> HIDE DEF c
  <2>3. CASE t.rounds > 2
    <3>1. u = Idle
      BY <2>3
    <3> HIDE DEF u
    <3>2. y \in Side /\ y.store = x.store /\ y.row = c /\ y.session = Idle
      BY <2>1, <2>2, <3>1, IdleType DEF Side
    <3> QED BY <2>2, <3>2, IdleType DEF Ready, Primary
  <2>4. CASE t.rounds <= 2
    <3>1. /\ t \in Session /\ t.cursor = c /\ t.phase = "settle"
          /\ t.rounds \in 0 .. 2 /\ t.pull = s.pull /\ t.push = s.push
      <4>1. s.rounds < 2
        BY <2>4 DEF Session
      <4>2. t = Lap(s, c, a.count)
        BY DEF Lap
      <4> HIDE DEF t
      <4> QED BY <1>1, <2>2, <4>1, <4>2, LapType
    <3>2. ASSUME NEW v \in Session, v.cursor = c, Ready(v, x.store),
                 u = v
          PROVE  /\ y \in Side /\ y.store = x.store /\ y.row = c
                 /\ y.session = v
      <4> HIDE DEF u
      <4> QED BY <2>1, <2>2, <3>2 DEF Side
    <3> HIDE DEF t
    <3>3. CASE t.pull /\ a.count > 0
      <4> DEFINE v == [t EXCEPT !.phase = "pull"]
      <4>1. /\ v \in Session /\ v.cursor = c /\ v.phase = "pull"
            /\ v.pull = s.pull /\ v.push = s.push
        BY <3>1 DEF Session, Phases
      <4>2. u = v
        BY <2>4, <3>1, <3>3
      <4> HIDE DEF u, v, y
      <4>3. Ready(v, x.store)
        BY <4>1 DEF Ready
      <4>4. /\ y \in Side /\ y.store = x.store /\ y.row = c
            /\ y.session = v
        BY <3>2, <4>1, <4>2, <4>3
      <4> QED BY <2>2, <4>1, <4>3, <4>4 DEF y, Primary
    <3>4. CASE ~(t.pull /\ a.count > 0)
      <4>1. u = p
        BY <2>4, <3>1, <3>4
      <4>2. /\ Ready(p, x.store) /\ p.cursor = c /\ p.pull = s.pull
            /\ Primary(p) /\ p.push = s.push /\ p.phase # "idle"
        BY <3>1, PrimaryPush DEF Primary
      <4>3. p \in Session
        BY <4>2 DEF Ready
      <4> HIDE DEF u, p, y
      <4>4. /\ y \in Side /\ y.store = x.store /\ y.row = c
            /\ y.session = p
        BY <3>2, <4>1, <4>2, <4>3
      <4> QED BY <2>2, <4>2, <4>4 DEF y
    <3> QED BY <3>3, <3>4
  <2>5. t.rounds > 2 \/ t.rounds <= 2
    BY DEF Session
  <2> QED BY <2>3, <2>4, <2>5
<1>3. CASE s.cursor.instance = a.instance /\ AnotherLap(s, a)
  <2> DEFINE t == [s EXCEPT !.rounds = @ + 1, !.peerCount = a.count,
                            !.phase = "pull"]
  <2>1. y = [x EXCEPT !.session = t]
    BY <1>3 DEF Settle, SettleLap
  <2>2. /\ t \in Session /\ t.cursor = s.cursor /\ t.phase = "pull"
        /\ t.pull = s.pull /\ t.push = s.push
    <3> DEFINE v == Lap(s, s.cursor, a.count)
    <3>1. s.rounds < 2 /\ s.cursor \in Cursor
      BY <1>3 DEF AnotherLap, Session
    <3>2. v \in Session /\ v.cursor = s.cursor /\ v.pull = s.pull
          /\ v.push = s.push
      BY <1>1, <3>1, LapType
    <3>3. t = [v EXCEPT !.phase = "pull"]
      BY DEF Lap, Session
    <3> HIDE DEF v, t
    <3> QED BY <3>2, <3>3 DEF Session, Phases
  <2> HIDE DEF t
  <2>3. /\ y \in Side /\ y.store = x.store /\ y.row = x.row
        /\ y.session = t
    BY <2>1, <2>2 DEF Side
  <2> QED BY <1>3, <2>2, <2>3 DEF Ready, Primary
<1>4. CASE s.cursor.instance = a.instance /\ ~AnotherLap(s, a)
  <2>1. y = SettleDecide(x, s, a)
    BY <1>4 DEF Settle
  <2>2. CASE a.print = Digest(x.store)
    <3> DEFINE c == [s.cursor EXCEPT !.settled = a.print]
    <3>1. y = [x EXCEPT !.row = c, !.session = Idle]
      BY <2>1, <2>2 DEF SettleDecide
    <3>2. c \in Cursor /\ Same(c, s.cursor) /\ c.settled = a.print
      BY <1>1 DEF Session, Cursor
    <3> HIDE DEF c
    <3>3. y \in Side /\ y.store = x.store /\ y.row = c /\ y.session = Idle
      BY <3>1, <3>2, IdleType DEF Side
    <3> QED BY <2>2, <3>2, <3>3, IdleType DEF Ready, Primary
  <2>3. CASE a.print # Digest(x.store) /\ s.cursor.settled = a.print
    <3>1. y = [x EXCEPT !.session = Idle]
      BY <2>1, <2>3 DEF SettleDecide
    <3>2. y \in Side /\ y.store = x.store /\ y.row = x.row /\ y.session = Idle
      BY <3>1, IdleType DEF Side
    <3>3. s.cursor = x.row => y.row.settled = a.print
      BY <2>3, <3>2
    <3> HIDE DEF y
    <3>4. /\ Ready(y.session, y.store) /\ Primary(y.session)
          /\ Stepped(s.cursor = x.row, s.push, a, y)
      BY <3>2, <3>3, IdleType DEF Ready, Primary
    <3> QED BY <3>2, <3>4, IdleType DEF y
  <2>4. CASE a.print # Digest(x.store) /\ s.cursor.settled # a.print
    <3> DEFINE t == [s EXCEPT !.phase = "hashes"]
    <3>1. y = [x EXCEPT !.session = t]
      BY <2>1, <2>4 DEF SettleDecide
    <3>2. /\ t \in Session /\ t.cursor = s.cursor /\ t.phase = "hashes"
          /\ t.pull = s.pull /\ t.push = s.push
      BY DEF Session, Phases
    <3> HIDE DEF t
    <3>3. y \in Side /\ y.store = x.store /\ y.row = x.row /\ y.session = t
      BY <3>1, <3>2 DEF Side
    <3> QED BY <1>4, <3>2, <3>3 DEF Ready, Primary
  <2> QED BY <2>2, <2>3, <2>4
<1> QED BY <1>2, <1>3, <1>4

-----------------------------------------------------------------------------
(* feed() *)

\* The pull position moves past an answer once the answer is in the store.
Pulled(x, a, y, c) ==
  /\ x.session.phase = "pull" /\ y.store = IngestAll(x.store, a)
  /\ c.instance = x.session.cursor.instance
  /\ c.pull = x.session.cursor.pull + Len(a)
  /\ c.push = x.session.cursor.push

\* The push position moves past a prefix of the arrival order once acked.
Pushed(x, c) ==
  /\ x.session.phase = "publish" /\ x.session.prefix
  /\ c.instance = x.session.cursor.instance
  /\ c.pull = x.session.cursor.pull
  /\ c.push = x.session.cursor.push + Len(First(x.session.batch))

\* What the settled cache may come to hold.
Remembered(x, a, y, c) ==
  \/ c.settled = None
  \/ \E d \in Cursors(x) : c.settled = d.settled
  \/ y.store = x.store /\ c.settled = Digest(x.store)
  \/ x.session.phase = "resettle" /\ c.settled = a.print

\* The session works on the row as it is saved.
InStep(x) == x.session.phase = "status" \/ x.session.cursor = x.row

\* What a feed() leaves of the plan and of the saved row.
Onward(x, a, y) ==
  /\ Stepped(/\ InStep(x)
             /\ x.session.phase = "resettle" =>
                  x.session.cursor.instance = a.instance,
             x.session.push, a, y)
  /\ y.session.phase = "idle" =>
       x.session.phase \in {"status", "settle", "resettle"}
  /\ x.session.phase = "publish" =>
       /\ y.session.prefix = x.session.prefix
       /\ y.session.phase # "publish" => y.session.batch = <<>>

(***************************************************************************)
(* What one feed() makes of side x and answer a, in every phase: no        *)
(* position and no settled digest comes from anywhere but these places,    *)
(* and no phase is reached but from these.                                 *)
(***************************************************************************)
Effect(x, a, y) ==
  /\ y \in Side
  /\ \/ y.store = x.store
     \/ /\ x.session.phase \in {"pull", "claims"}
        /\ y.store = IngestAll(x.store, a)
  /\ Ready(y.session, y.store)
  /\ \A c \in Cursors(y) :
       \/ Zero(c)
       \/ \E d \in Cursors(x) : Same(c, d)
       \/ Pulled(x, a, y, c)
       \/ Pushed(x, c)
  /\ \A c \in Cursors(y) : Remembered(x, a, y, c)
  /\ x.session.phase \in {"status", "pull", "settle"} => Primary(y.session)
  /\ x.session.phase = "publish" =>
       /\ y.session.phase \in {"publish", x.session.after}
       /\ y.session.after = x.session.after
       /\ y.session.batch = Rest(x.session.batch)
  /\ x.session.phase = "resettle" => y.session.phase = "idle"
  /\ Onward(x, a, y)
  /\ y.session.phase # "idle" =>
       /\ y.session.phase # "status"
       /\ y.session.pull = x.session.pull
       /\ \/ /\ x.session.phase # "status"
             /\ y.session.cursor.instance = x.session.cursor.instance
          \/ /\ x.session.phase \in {"status", "settle"}
             /\ y.session.cursor.instance = a.instance

\* A client between two messages.
Steady(x) == x \in Side /\ Sound(x.store) /\ Ready(x.session, x.store)

LEMMA FedStatusEffect ==
  ASSUME NEW x, Steady(x), x.session.phase = "status", NEW a \in Status
  PROVE  Effect(x, a, FedStatus(x, a))
<1> DEFINE y == FedStatus(x, a)
           c == IF x.row.instance = a.instance THEN x.row
                ELSE FreshCursor(a.instance)
           w == [x EXCEPT !.row = c]
           s == [x.session EXCEPT !.cursor = c, !.peerCount = a.count]
           p == BeginPrimaryPush(s, x.store)
<1>1. x \in Side /\ Sound(x.store)
  BY DEF Steady
<1>2. a.instance \in Nat /\ a.count \in Nat
  BY DEF Status
<1>3. x.row \in Cursor /\ x.session \in Session /\ x.store \in Store
  BY <1>1 DEF Side
<1>4. /\ c \in Cursor /\ c.instance = a.instance
      /\ Zero(c) \/ Same(c, x.row)
      /\ c.settled \in {None, x.row.settled}
  BY <1>2, <1>3, FreshType DEF Same
<1>5. y = IF s.pull /\ c.pull < a.count
          THEN [w EXCEPT !.session = [s EXCEPT !.phase = "pull"]]
          ELSE IF p.phase = "publish" THEN [w EXCEPT !.session = p]
          ELSE Settle(w, p, a)
  BY DEF FedStatus
<1> HIDE DEF c, y
<1>6. w \in Side /\ w.store = x.store /\ w.row = c
  BY <1>1, <1>4 DEF Side
<1>7. /\ s \in Session /\ s.cursor = c /\ s.pull = x.session.pull
      /\ s.push = x.session.push
  BY <1>2, <1>3, <1>4 DEF Session
<1>8. /\ Ready(p, x.store) /\ p \in Session /\ p.cursor = c
      /\ p.phase \in {"publish", "settle"} /\ p.after = "settle"
      /\ p.pull = x.session.pull /\ p.push = x.session.push
  <2> HIDE DEF s
  <2> QED BY <1>1, <1>7, PrimaryPush DEF Ready
<1> HIDE DEF w, s, p
<1> SUFFICES /\ y \in Side /\ y.store = x.store
             /\ Ready(y.session, y.store) /\ Primary(y.session)
             /\ Stepped(TRUE, x.session.push, a, y)
             /\ \A k \in Cursors(y) :
                  /\ Zero(k) \/ Same(k, c)
                  /\ k.settled \in {None, c.settled, Digest(x.store)}
             /\ y.session.phase # "idle" =>
                  /\ y.session.pull = x.session.pull
                  /\ y.session.cursor.instance = a.instance
  BY <1>4 DEF Effect, Onward, InStep, Stepped,
              Remembered, Primary, Same, Zero, Cursors, y
<1>9. ASSUME NEW u \in Session, u.cursor = c, Ready(u, x.store),
             u.pull = x.session.pull, Primary(u), y = [w EXCEPT !.session = u],
             u.push = x.session.push, u.phase # "idle"
      PROVE  /\ y \in Side /\ y.store = x.store
             /\ Stepped(TRUE, x.session.push, a, y)
             /\ Ready(y.session, y.store) /\ Primary(y.session)
             /\ \A k \in Cursors(y) :
                  /\ Zero(k) \/ Same(k, c)
                  /\ k.settled \in {None, c.settled, Digest(x.store)}
             /\ y.session.phase # "idle" =>
                  /\ y.session.pull = x.session.pull
                  /\ y.session.cursor.instance = a.instance
  <2>1. y \in Side /\ y.store = x.store /\ y.row = c /\ y.session = u
    BY <1>6, <1>9 DEF Side
  <2> QED BY <1>4, <1>9, <2>1 DEF Cursors, Same, Stepped
<1>10. CASE s.pull /\ c.pull < a.count
  <2> DEFINE u == [s EXCEPT !.phase = "pull"]
  <2>1. /\ u \in Session /\ u.cursor = c /\ u.phase = "pull"
        /\ u.pull = x.session.pull /\ u.push = x.session.push
    BY <1>7 DEF Session, Phases
  <2>2. y = [w EXCEPT !.session = u]
    BY <1>5, <1>10
  <2> HIDE DEF u
  <2>3. Ready(u, x.store) /\ Primary(u)
    BY <2>1 DEF Ready, Primary
  <2> QED BY <1>9, <2>1, <2>2, <2>3
<1>11. CASE ~(s.pull /\ c.pull < a.count) /\ p.phase = "publish"
  <2>1. y = [w EXCEPT !.session = p]
    BY <1>5, <1>11
  <2>2. Primary(p)
    BY <1>8 DEF Primary
  <2> QED BY <1>8, <1>9, <2>1, <2>2
<1>12. CASE ~(s.pull /\ c.pull < a.count) /\ p.phase # "publish"
  <2>1. y = Settle(w, p, a) /\ p.phase = "settle"
    BY <1>5, <1>8, <1>12
  <2>2. Sound(w.store)
    BY <1>1, <1>6
  <2>3. /\ y \in Side /\ y.store = w.store
        /\ Ready(y.session, y.store)
        /\ Stepped(p.cursor = w.row, p.push, a, y)
        /\ Zero(y.row) \/ Same(y.row, w.row) \/ Same(y.row, p.cursor)
        /\ Zero(y.session.cursor) \/ Same(y.session.cursor, p.cursor)
        /\ y.session.phase # "idle" =>
             /\ y.session.pull = p.pull
             /\ y.session.cursor.instance = a.instance
        /\ Primary(y.session)
        /\ \A k \in Cursors(y) :
             k.settled \in {None, w.row.settled, p.cursor.settled,
                           Digest(w.store)}
    BY <1>6, <1>8, <2>1, <2>2, SettleMoves
  <2> QED BY <1>6, <1>8, <2>3 DEF Cursors, Stepped
<1> QED BY <1>10, <1>11, <1>12

LEMMA FedSettleEffect ==
  ASSUME NEW x, Steady(x), x.session.phase = "settle", NEW a \in Status
  PROVE  Effect(x, a, FedSettle(x, a))
<1> DEFINE y == FedSettle(x, a)
<1>1. y = Settle(x, x.session, a)
  BY DEF FedSettle
<1>2. x \in Side /\ Sound(x.store) /\ x.session \in Session
  BY DEF Steady, Side
<1>3. /\ y \in Side /\ y.store = x.store
      /\ Ready(y.session, y.store)
      /\ Stepped(x.session.cursor = x.row, x.session.push, a, y)
      /\ Zero(y.row) \/ Same(y.row, x.row) \/ Same(y.row, x.session.cursor)
      /\ \/ Zero(y.session.cursor)
         \/ Same(y.session.cursor, x.session.cursor)
      /\ y.session.phase # "idle" =>
           /\ y.session.pull = x.session.pull
           /\ y.session.cursor.instance = a.instance
      /\ Primary(y.session)
      /\ \A c \in Cursors(y) :
           c.settled \in {None, x.row.settled, x.session.cursor.settled,
                         Digest(x.store)}
  BY <1>1, <1>2, SettleMoves
<1> HIDE DEF y
<1> QED BY <1>3 DEF Effect, Onward, InStep, Stepped, Remembered, Primary,
                    Cursors, y

LEMMA FedPullEffect ==
  ASSUME NEW x, Steady(x), x.session.phase = "pull", NEW a \in Seq(Event)
  PROVE  Effect(x, a, FedPull(x, a))
<1> DEFINE y == FedPull(x, a)
<1>1. x \in Side /\ Sound(x.store) /\ x.session \in Session
      /\ x.row \in Cursor /\ x.session.cursor \in Cursor
  BY DEF Steady, Side, Session
<1>2. CASE a = <<>>
  <2> DEFINE p == BeginPrimaryPush(x.session, x.store)
  <2>1. y = [x EXCEPT !.session = p]
    BY <1>2 DEF FedPull
  <2>2. /\ Ready(p, x.store) /\ p \in Session /\ p.cursor = x.session.cursor
        /\ Primary(p) /\ p.pull = x.session.pull
        /\ p.push = x.session.push /\ p.phase # "idle"
    BY <1>1, PrimaryPush DEF Ready, Primary
  <2> HIDE DEF p, y
  <2>3. y \in Side /\ y.store = x.store /\ y.row = x.row /\ y.session = p
    BY <1>1, <2>1, <2>2 DEF Side
  <2>4. \A c \in Cursors(y) : c \in Cursors(x)
    BY <2>2, <2>3 DEF Cursors
  <2>5. y.session.cursor.instance = x.session.cursor.instance
    BY <2>2, <2>3
  <2> QED BY <2>2, <2>3, <2>4, <2>5
          DEF Effect, Onward, InStep, Stepped, Remembered, Same, Primary, y
<1>3. CASE a # <<>>
  <2> DEFINE c == [x.session.cursor EXCEPT !.pull = @ + Len(a)]
             s == [x.session EXCEPT !.cursor = c]
             u == IngestAll(x.store, a)
             t == IF c.pull >= s.peerCount THEN BeginPrimaryPush(s, u) ELSE s
  <2>1. y = [x EXCEPT !.store = u, !.row = c, !.session = t]
    BY <1>3 DEF FedPull
  <2>2. x.session.cursor.pull + Len(a) \in Nat
    BY <1>1, LenProperties DEF Cursor
  <2>3. /\ c \in Cursor /\ c.instance = x.session.cursor.instance
        /\ c.pull = x.session.cursor.pull + Len(a)
        /\ c.push = x.session.cursor.push
        /\ c.settled = x.session.cursor.settled
    <3>1. \A n \in Nat : LET k == [x.session.cursor EXCEPT !.pull = n]
                         IN  /\ k \in Cursor
                             /\ k.instance = x.session.cursor.instance
                             /\ k.pull = n /\ k.push = x.session.cursor.push
                             /\ k.settled = x.session.cursor.settled
      BY <1>1 DEF Cursor
    <3> QED BY <2>2, <3>1
  <2> HIDE DEF c
  <2>4. /\ s \in Session /\ s.cursor = c /\ s.phase = "pull"
        /\ s.pull = x.session.pull /\ s.push = x.session.push
    BY <1>1, <2>3 DEF Session
  <2>5. Sound(u) /\ u \in Store
    BY <1>1, IngestAllGrows DEF Sound
  <2> HIDE DEF s, u
  <2>6. /\ Ready(t, u) /\ t \in Session /\ t.cursor = c
        /\ Primary(t) /\ t.pull = x.session.pull
        /\ t.push = x.session.push /\ t.phase # "idle"
    <3>1. /\ Ready(BeginPrimaryPush(s, u), u)
          /\ BeginPrimaryPush(s, u).cursor = s.cursor
          /\ BeginPrimaryPush(s, u).pull = s.pull
          /\ BeginPrimaryPush(s, u).push = s.push
          /\ BeginPrimaryPush(s, u).phase # "idle"
          /\ Primary(BeginPrimaryPush(s, u))
      BY <2>4, <2>5, PrimaryPush DEF Primary
    <3> QED BY <2>4, <3>1 DEF Ready, Primary
  <2> HIDE DEF t, y
  <2>7. y \in Side /\ y.store = u /\ y.row = c /\ y.session = t
    BY <1>1, <2>1, <2>3, <2>5, <2>6 DEF Side
  <2>8. \A k \in Cursors(y) : Pulled(x, a, y, k)
    BY <2>3, <2>6, <2>7 DEF Cursors, Pulled, u
  <2>9. y.session.cursor.instance = x.session.cursor.instance
    BY <2>3, <2>6, <2>7
  <2>10. \A k \in Cursors(y) : Remembered(x, a, y, k)
    BY <2>3, <2>6, <2>7 DEF Cursors, Remembered
  <2>11. Onward(x, a, y)
    BY <2>6, <2>7 DEF Onward, Stepped
  <2> QED BY <2>6, <2>7, <2>8, <2>9, <2>10, <2>11 DEF Effect, Primary, y, u
<1> QED BY <1>2, <1>3

LEMMA FedPublishEffect ==
  ASSUME NEW x, Steady(x), x.session.phase = "publish", NEW a
  PROVE  Effect(x, a, FedPublish(x, a))
<1> DEFINE y == FedPublish(x, a)
           batch == x.session.batch
           prefix == x.session.prefix
           far == [x.session.cursor EXCEPT !.push = @ + Len(First(batch))]
           c == IF prefix THEN far ELSE x.session.cursor
           s == [x.session EXCEPT !.batch = Rest(batch), !.cursor = c]
           t == IF Rest(batch) = <<>> THEN [s EXCEPT !.phase = s.after] ELSE s
           r == IF prefix THEN far ELSE x.row
<1>1. x \in Side /\ Sound(x.store) /\ x.session \in Session
      /\ x.row \in Cursor /\ x.session.cursor \in Cursor
      /\ batch \in Seq(Event) /\ prefix \in BOOLEAN
      /\ Ready(x.session, x.store)
  BY DEF Steady, Side, Session
<1>2. y = [x EXCEPT !.row = r, !.session = t]
  BY <1>1 DEF FedPublish, Side, Session
<1>3. /\ Rest(batch) \in Seq(Event)
      /\ x.session.cursor.push + Len(First(batch)) \in Nat
  BY <1>1, FirstRest, LenProperties DEF Cursor
<1>4. /\ far \in Cursor /\ far.instance = x.session.cursor.instance
      /\ far.pull = x.session.cursor.pull
      /\ far.push = x.session.cursor.push + Len(First(batch))
      /\ far.settled = x.session.cursor.settled
  <2>1. \A n \in Nat : LET k == [x.session.cursor EXCEPT !.push = n]
                       IN  /\ k \in Cursor
                           /\ k.instance = x.session.cursor.instance
                           /\ k.push = n /\ k.pull = x.session.cursor.pull
                           /\ k.settled = x.session.cursor.settled
    BY <1>1 DEF Cursor
  <2> QED BY <1>3, <2>1
<1> HIDE DEF far, y
<1>5. /\ c \in Cursor /\ c.instance = x.session.cursor.instance
      /\ r \in Cursor
      /\ prefix => c = far /\ r = far
      /\ ~prefix => c = x.session.cursor /\ r = x.row
  BY <1>1, <1>4
<1> HIDE DEF c, r
<1>6. /\ s \in Session /\ s.cursor = c /\ s.batch = Rest(batch)
      /\ s.prefix = prefix /\ s.phase = "publish"
      /\ s.after = x.session.after /\ s.pull = x.session.pull
      /\ s.push = x.session.push /\ s.after \in {"settle", "resettle"}
  BY <1>1, <1>3, <1>5 DEF Session
<1> HIDE DEF s
<1>7. /\ t \in Session /\ t.cursor = c /\ t.batch = Rest(batch)
      /\ t.prefix = prefix /\ t.phase \in {"publish", x.session.after}
      /\ t.after = x.session.after /\ t.pull = x.session.pull
      /\ t.push = x.session.push /\ t.after \in {"settle", "resettle"}
      /\ t.phase # "publish" => t.batch = <<>>
  BY <1>6 DEF Session, Phases
<1> HIDE DEF t
<1>8. y \in Side /\ y.store = x.store /\ y.row = r /\ y.session = t
  BY <1>1, <1>2, <1>5, <1>7 DEF Side
<1>9. Ready(t, x.store)
  <2> SUFFICES ASSUME t.prefix
               PROVE  Placed(Rest(batch), x.store, far.push)
    BY <1>5, <1>7 DEF Ready
  <2>1. prefix
    BY <1>7
  <2>2. Placed(batch, x.store, x.session.cursor.push)
    BY <1>1, <2>1 DEF Ready
  <2>3. x.session.cursor.push \in Nat
    BY <1>1 DEF Cursor
  <2> HIDE DEF batch
  <2> QED BY <1>1, <1>4, <2>2, <2>3, PlacedParts
<1>10. \A k \in Cursors(y) : \/ \E d \in Cursors(x) : Same(k, d)
                             \/ Pushed(x, k)
  <2>1. \A k \in Cursors(y) : k = r \/ k = c
    BY <1>7, <1>8 DEF Cursors
  <2>2. CASE prefix
    <3>1. Pushed(x, far)
      BY <1>4, <2>2 DEF Pushed
    <3> QED BY <1>5, <2>1, <2>2, <3>1
  <2>3. CASE ~prefix
    BY <1>5, <2>1, <2>3 DEF Same, Cursors
  <2> QED BY <2>2, <2>3
<1>11. y.session.cursor.instance = x.session.cursor.instance
  BY <1>5, <1>7, <1>8
<1>12. \A k \in Cursors(y) : Remembered(x, a, y, k)
  BY <1>4, <1>5, <1>7, <1>8 DEF Cursors, Remembered
<1>13. Onward(x, a, y)
  <2>1. InStep(x) => y.session.cursor = y.row
    BY <1>5, <1>7, <1>8 DEF InStep
  <2> QED BY <1>7, <1>8, <2>1 DEF Onward, Stepped
<1> QED BY <1>7, <1>8, <1>9, <1>10, <1>11, <1>12, <1>13 DEF Effect, y

\* A phase that leaves row and cursor alone.
LEMMA CursorsKept ==
  ASSUME NEW x \in Side, NEW t \in Session, NEW u \in Store, NEW a, NEW y,
         y = [x EXCEPT !.store = u, !.session = t],
         \/ u = x.store
         \/ x.session.phase \in {"pull", "claims"} /\ u = IngestAll(x.store, a),
         t.cursor = x.session.cursor, t.pull = x.session.pull,
         t.push = x.session.push, Ready(t, u),
         t.phase \notin {"idle", "status"},
         x.session.phase \in {"hashes", "claims"}
  PROVE  Effect(x, a, y)
<1>1. y \in Side /\ y.store = u /\ y.row = x.row /\ y.session = t
  BY DEF Side
<1>2. \A c \in Cursors(y) : c \in Cursors(x)
  BY <1>1 DEF Cursors
<1>3. y.session.cursor.instance = x.session.cursor.instance
  BY <1>1
<1>4. Onward(x, a, y)
  BY <1>1 DEF Onward, InStep, Stepped
<1> QED BY <1>1, <1>2, <1>3, <1>4 DEF Effect, Remembered, Same

LEMMA FedHashesEffect ==
  ASSUME NEW x, Steady(x), x.session.phase = "hashes",
         NEW a \in [rows : SUBSET Claim, bodies : SUBSET Claim],
         IsFiniteSet(a.rows)
  PROVE  Effect(x, a, FedHashes(x, a))
<1> DEFINE y == FedHashes(x, a)
           want == IF x.session.pull THEN Wanted(x.store, a) ELSE {}
           offer == IF x.session.push THEN Offered(x.store, a) ELSE {}
           s == [x.session EXCEPT !.want = InOrder(want, ByHash),
                                  !.extra = ById(x.store, offer)]
           t == IF want # {} THEN [s EXCEPT !.phase = "claims"]
                ELSE AfterClaims(s)
<1>1. x \in Side /\ Sound(x.store) /\ x.session \in Session
      /\ x.store \in Store
  BY DEF Steady, Side
<1>2. y = [x EXCEPT !.session = t]
  BY DEF FedHashes
<1>3. want \in SUBSET Claim /\ IsFiniteSet(want)
  <2>1. Wanted(x.store, a) \subseteq a.rows /\ a.rows \subseteq Claim
    BY DEF Wanted
  <2>2. IsFiniteSet(Wanted(x.store, a))
    BY <2>1, FS_Subset
  <2> QED BY <2>1, <2>2, FS_EmptySet
<1>4. offer \in SUBSET Claim /\ IsFiniteSet(offer)
  <2>1. Offered(x.store, a) \subseteq LogRows(x.store, TheLog)
    BY DEF Offered
  <2>2. /\ Offered(x.store, a) \subseteq Claim
        /\ IsFiniteSet(Offered(x.store, a))
    BY <1>1, <2>1, CountType, FS_Subset
  <2> QED BY <2>2, FS_EmptySet
<1> HIDE DEF want, offer, y
<1>5. InOrder(want, ByHash) \in Seq(Claim) /\ ById(x.store, offer) \in Seq(Event)
  BY <1>3, <1>4, ByHashType
<1>6. /\ s \in Session /\ s.cursor = x.session.cursor
      /\ s.pull = x.session.pull /\ s.push = x.session.push
  BY <1>1, <1>5 DEF Session
<1> HIDE DEF s
<1>7. /\ t \in Session /\ t.cursor = x.session.cursor
      /\ t.pull = x.session.pull /\ t.push = x.session.push
      /\ t.phase \notin {"idle", "status"} /\ Ready(t, x.store)
  <2>1. CASE want # {}
    BY <1>6, <2>1 DEF Session, Phases, Ready
  <2>2. CASE want = {}
    BY <1>6, <2>2, AfterClaimsType DEF Ready
  <2> QED BY <2>1, <2>2
<1> HIDE DEF t
<1>8. y = [x EXCEPT !.store = x.store, !.session = t]
  BY <1>1, <1>2 DEF Side
<1>9. Effect(x, a, y)
  BY <1>1, <1>7, <1>8, CursorsKept
<1> QED BY <1>9 DEF y

LEMMA FedClaimsEffect ==
  ASSUME NEW x, Steady(x), x.session.phase = "claims", NEW a \in Seq(Event)
  PROVE  Effect(x, a, FedClaims(x, a))
<1> DEFINE y == FedClaims(x, a)
           s == [x.session EXCEPT !.want = Rest(@)]
           t == IF s.want = <<>> THEN AfterClaims(s) ELSE s
           u == IngestAll(x.store, a)
<1>1. x \in Side /\ Sound(x.store) /\ x.session \in Session
      /\ x.store \in Store
  BY DEF Steady, Side
<1>2. y = [x EXCEPT !.store = u, !.session = t]
  BY DEF FedClaims
<1>3. Rest(x.session.want) \in Seq(Claim)
  BY <1>1, FirstRest DEF Session
<1>4. /\ s \in Session /\ s.cursor = x.session.cursor
      /\ s.phase = "claims" /\ s.pull = x.session.pull
      /\ s.push = x.session.push
  BY <1>1, <1>3 DEF Session
<1>5. u \in Store
  BY <1>1, IngestAllGrows DEF Sound
<1> HIDE DEF s, y, u
<1>6. /\ t \in Session /\ t.cursor = x.session.cursor
      /\ t.pull = x.session.pull /\ t.push = x.session.push
      /\ t.phase \notin {"idle", "status"} /\ Ready(t, u)
  BY <1>4, AfterClaimsType DEF Ready
<1> HIDE DEF t
<1>7. Effect(x, a, y)
  BY <1>1, <1>2, <1>5, <1>6, CursorsKept DEF u
<1> QED BY <1>7 DEF y

LEMMA FedResettleEffect ==
  ASSUME NEW x, Steady(x), x.session.phase = "resettle", NEW a \in Status
  PROVE  Effect(x, a, FedResettle(x, a))
<1> DEFINE y == FedResettle(x, a)
           r == IF x.session.cursor.instance = a.instance
                THEN [x.session.cursor EXCEPT !.settled = a.print] ELSE x.row
<1>1. x \in Side /\ x.session \in Session /\ x.row \in Cursor
      /\ x.session.cursor \in Cursor /\ a.print \in Digests
  BY DEF Steady, Side, Session, Status
<1>2. y = [x EXCEPT !.row = r, !.session = Idle]
  BY DEF FedResettle
<1>3. /\ r \in Cursor
      /\ Same(r, x.row) \/ Same(r, x.session.cursor)
      /\ r.settled \in {x.row.settled, a.print}
  BY <1>1 DEF Cursor, Same
<1> HIDE DEF r, y
<1>4. y \in Side /\ y.store = x.store /\ y.row = r /\ y.session = Idle
  BY <1>1, <1>2, <1>3, IdleType DEF Side
<1>5. \A c \in Cursors(y) : Zero(c) \/ \E d \in Cursors(x) : Same(c, d)
  BY <1>3, <1>4, IdleType DEF Cursors
<1>6. \A c \in Cursors(y) : Remembered(x, a, y, c)
  BY <1>3, <1>4, IdleType DEF Cursors, Remembered
<1>7. Onward(x, a, y)
  BY <1>4, IdleType DEF Onward, InStep, Stepped, r
<1> QED BY <1>4, <1>5, <1>6, <1>7, IdleType DEF Effect, Ready, y

-----------------------------------------------------------------------------
(* What a session learns from a peer that holds t all along *)

\* What digest D says a log had is here, a body unless it was redacted.
Met(D, s) ==
  \A c \in Claim :
    /\ <<"claim", c, TRUE>> \in D => Shows(s, [id |-> c, body |-> TRUE])
    /\ <<"claim", c, FALSE>> \in D => c \in s.held

\* s has what the events of q bring.
Backed(q, s) == \A j \in 1 .. Len(q) : Shows(s, q[j])

\* Past the peer's list of hashes: what t has is here or asked for, and what
\* is to be published is ours to publish.
Closing(s, store, t) ==
  /\ s.phase = "claims" =>
       /\ \A c \in LogRows(t, TheLog) :
            \/ Shows(store, EventOf(t, c))
            \/ \E i \in 1 .. Len(s.want) : s.want[i] = c
       /\ Backed(s.extra, store)
  /\ s.phase = "publish" /\ s.after = "resettle" =>
       Caught(store, t) /\ Backed(s.batch, store)
  /\ s.phase = "resettle" => Caught(store, t)

\* The answers of a peer that does not change while the session lasts.
Honest(s, a, t) ==
  /\ s.phase = "hashes" => a = HashesOf(t)
  /\ s.phase = "claims" => a = ClaimsOf(t, First(s.want))
  /\ s.phase = "resettle" => a.print = Digest(t)

LEMMA CaughtShows ==
  ASSUME NEW r, NEW h
  PROVE  Caught(r, h) <=> \A c \in LogRows(h, TheLog) : Shows(r, EventOf(h, c))
BY DEF Caught, Shows, EventOf

\* A digest tells which claims of the log were held, and which bodies.
LEMMA DigestTells ==
  ASSUME NEW h \in Store
  PROVE  \A c \in Claim :
           /\ <<"claim", c, TRUE>> \in Digest(h) <=>
                c \in LogRows(h, TheLog) /\ c \in h.body
           /\ <<"claim", c, FALSE>> \in Digest(h) <=>
                c \in LogRows(h, TheLog) /\ c \notin h.body
<1>1. LogRows(h, TheLog) \subseteq Claim
  BY DEF LogRows, Store
<1>2. \A c \in Claim : \A b \in BOOLEAN :
        <<"claim", c, b>> \in Digest(h) <=>
          c \in LogRows(h, TheLog) /\ b = (c \in h.body)
  <2> SUFFICES ASSUME NEW c \in Claim, NEW b \in BOOLEAN
               PROVE  <<"claim", c, b>> \in Digest(h) <=>
                        c \in LogRows(h, TheLog) /\ b = (c \in h.body)
    OBVIOUS
  <2> DEFINE A == {<<"claim", d, d \in h.body>> : d \in LogRows(h, TheLog)}
             B == {<<"redaction", t, h.redaction[t]>> :
                     t \in {u \in Claim : h.redaction[u] \in LogRows(h, TheLog)}}
  <2>1. Digest(h) = A \cup B
    BY DEF Digest, Fingerprint
  <2>2. <<"claim", c, b>> \notin B
    OBVIOUS
  <2>3. <<"claim", c, b>> \in A <=>
          \E d \in LogRows(h, TheLog) : <<"claim", c, b>> = <<"claim", d, d \in h.body>>
    BY Zenon
  <2>4. \A d \in Claim : <<"claim", c, b>> = <<"claim", d, d \in h.body>>
                           <=> c = d /\ b = (d \in h.body)
    <3>1. \A d \in Claim : \A e \in BOOLEAN :
            <<"claim", c, b>> = <<"claim", d, e>> <=> c = d /\ b = e
      OBVIOUS
    <3>2. \A d \in Claim : (d \in h.body) \in BOOLEAN
      OBVIOUS
    <3> QED BY <3>1, <3>2, Zenon
  <2>5. <<"claim", c, b>> \in A <=> c \in LogRows(h, TheLog) /\ b = (c \in h.body)
    BY <1>1, <2>3, <2>4, Zenon
  <2> QED BY <2>1, <2>2, <2>5, Zenon
<1>3. \A c \in Claim :
        /\ <<"claim", c, TRUE>> \in Digest(h) <=>
             c \in LogRows(h, TheLog) /\ c \in h.body
        /\ <<"claim", c, FALSE>> \in Digest(h) <=>
             c \in LogRows(h, TheLog) /\ c \notin h.body
  <2> SUFFICES ASSUME NEW c \in Claim
               PROVE  /\ <<"claim", c, TRUE>> \in Digest(h) <=>
                           c \in LogRows(h, TheLog) /\ c \in h.body
                      /\ <<"claim", c, FALSE>> \in Digest(h) <=>
                           c \in LogRows(h, TheLog) /\ c \notin h.body
    OBVIOUS
  <2>1. TRUE \in BOOLEAN /\ FALSE \in BOOLEAN
    OBVIOUS
  <2>2. <<"claim", c, TRUE>> \in Digest(h) <=>
          c \in LogRows(h, TheLog) /\ TRUE = (c \in h.body)
    BY <1>2, <2>1, Zenon
  <2>3. <<"claim", c, FALSE>> \in Digest(h) <=>
          c \in LogRows(h, TheLog) /\ FALSE = (c \in h.body)
    BY <1>2, <2>1, Zenon
  <2>4. /\ TRUE = (c \in h.body) <=> c \in h.body
        /\ FALSE = (c \in h.body) <=> c \notin h.body
    OBVIOUS
  <2> QED BY <2>2, <2>3, <2>4, Zenon
<1> QED BY <1>3

LEMMA MetCaught ==
  ASSUME NEW h \in Store, NEW r
  PROVE  Met(Digest(h), r) <=> Caught(r, h)
<1>1. LogRows(h, TheLog) \subseteq Claim
  BY DEF LogRows, Store
<1> DEFINE D == Digest(h)
<1>2. \A c \in Claim :
        /\ <<"claim", c, TRUE>> \in D <=> c \in LogRows(h, TheLog) /\ c \in h.body
        /\ <<"claim", c, FALSE>> \in D <=> c \in LogRows(h, TheLog) /\ c \notin h.body
  BY DigestTells
<1> HIDE DEF D
<1>3. Met(D, r) <=> Caught(r, h)
  BY <1>1, <1>2 DEF Met, Caught, Shows
<1> QED BY <1>3 DEF D

\* What was met stays met.
LEMMA MetKept ==
  ASSUME NEW s, NEW u, Keeps(s, u), NEW D, Met(D, s)
  PROVE  Met(D, u)
<1>1. \A c \in Claim : [id |-> c, body |-> TRUE] \in Event
  BY DEF Event
<1> QED BY <1>1, KeepsShows DEF Met, Keeps

LEMMA CaughtKept ==
  ASSUME NEW s, NEW u, Keeps(s, u), NEW t \in Store, Caught(s, t)
  PROVE  Caught(u, t)
BY MetKept, MetCaught

LEMMA BackedKept ==
  ASSUME NEW s, NEW u, Keeps(s, u), NEW q \in Seq(Event), Backed(q, s)
  PROVE  Backed(q, u)
<1>1. \A j \in 1 .. Len(q) : q[j] \in Event
  BY ElementOfSeq
<1> QED BY <1>1, KeepsShows DEF Backed

LEMMA ClosingKept ==
  ASSUME NEW s \in Session, NEW store, NEW more, Keeps(store, more),
         NEW t \in Store, Closing(s, store, t)
  PROVE  Closing(s, more, t)
<1>1. \A c \in LogRows(t, TheLog) : EventOf(t, c) \in Event
  BY DEF LogRows, Store, EventOf, Event
<1>2. s.batch \in Seq(Event) /\ s.extra \in Seq(Event)
  BY DEF Session
<1>3. \A c \in LogRows(t, TheLog) :
        Shows(store, EventOf(t, c)) => Shows(more, EventOf(t, c))
  BY <1>1, KeepsShows
<1>4. /\ Backed(s.extra, store) => Backed(s.extra, more)
      /\ Backed(s.batch, store) => Backed(s.batch, more)
      /\ Caught(store, t) => Caught(more, t)
  BY <1>2, BackedKept, CaughtKept
<1> QED BY <1>3, <1>4 DEF Closing

\* A peer that is taught what the client has stays caught up with.
LEMMA TaughtCaught ==
  ASSUME NEW t, Sound(t), NEW q \in Seq(Event), NEW s, Backed(q, s),
         Caught(s, t)
  PROVE  Caught(s, IngestAll(t, q))
<1> DEFINE u == IngestAll(t, q)
<1>1. t \in Store /\ IsFiniteSet(t.held) /\ t.body \subseteq t.held
  BY DEF Sound
<1>2. u.held = t.held \cup {q[i].id : i \in 1 .. Len(q)}
  BY <1>1, IngestAllTables
<1>3. \A c \in u.body :
        c \in t.body \/ \E j \in 1 .. Len(q) : c = q[j].id /\ q[j].body
  BY <1>1, IngestAllShows
<1> HIDE DEF u
<1>4. ASSUME NEW c \in LogRows(u, TheLog)
      PROVE  c \in s.held
  <2>1. CASE c \in t.held
    BY <1>4, <2>1 DEF Caught, LogRows
  <2>2. CASE c \notin t.held
    BY <1>2, <1>4, <2>2 DEF Backed, Shows, LogRows
  <2> QED BY <2>1, <2>2
<1>5. ASSUME NEW c \in LogRows(u, TheLog), c \in u.body
      PROVE  c \in s.body \/ s.redaction[c] # None
  <2>1. CASE c \in t.body
    BY <1>1, <1>5, <2>1 DEF Caught, LogRows
  <2>2. CASE c \notin t.body
    BY <1>3, <1>5, <2>2 DEF Backed, Shows
  <2> QED BY <2>1, <2>2
<1> QED BY <1>4, <1>5 DEF Caught, u

LEMMA AfterClaimsCloses ==
  ASSUME NEW s \in Session, NEW store, NEW t, Caught(store, t),
         Backed(s.extra, store)
  PROVE  Closing(AfterClaims(s), store, t)
BY AfterClaimsType DEF Closing

\* A hash list is compared with the store: nothing it lists is overlooked.
LEMMA FedHashesCloses ==
  ASSUME NEW x, Steady(x), x.session.phase = "hashes", x.session.pull,
         NEW t, Sound(t), NEW a, a = HashesOf(t)
  PROVE  LET y == FedHashes(x, a) IN Closing(y.session, y.store, t)
<1> DEFINE y == FedHashes(x, a)
           want == Wanted(x.store, a)
           offer == IF x.session.push THEN Offered(x.store, a) ELSE {}
           s == [x.session EXCEPT !.want = InOrder(want, ByHash),
                                  !.extra = ById(x.store, offer)]
           u == IF want # {} THEN [s EXCEPT !.phase = "claims"]
                ELSE AfterClaims(s)
<1>1. x \in Side /\ Sound(x.store) /\ x.session \in Session
  BY DEF Steady, Side
<1>2. y = [x EXCEPT !.session = u]
  BY DEF FedHashes
<1>3. /\ a.rows = LogRows(t, TheLog)
      /\ a.bodies = t.body \cap LogRows(t, TheLog)
      /\ a.rows \subseteq Claim /\ IsFiniteSet(a.rows)
  BY CountType DEF HashesOf
<1>4. want \in SUBSET Claim /\ IsFiniteSet(want)
  <2>1. want \subseteq a.rows
    BY DEF Wanted
  <2> HIDE DEF want
  <2> QED BY <1>3, <2>1, FS_Subset
<1>5. offer \in SUBSET Claim /\ IsFiniteSet(offer)
      /\ offer \subseteq LogRows(x.store, TheLog)
  <2>1. offer \subseteq LogRows(x.store, TheLog)
    BY DEF Offered
  <2> HIDE DEF offer
  <2> QED BY <1>1, <2>1, CountType, FS_Subset
<1>6. \A c \in LogRows(t, TheLog) :
        c \in want \/ Shows(x.store, EventOf(t, c))
  BY <1>3 DEF Wanted, Shows, EventOf
<1> HIDE DEF want, offer, y
<1>7. /\ InOrder(want, ByHash) \in Seq(Claim)
      /\ \A c \in want : \E i \in 1 .. Len(InOrder(want, ByHash)) :
           InOrder(want, ByHash)[i] = c
  BY <1>4, ByHashType
<1>8. /\ ById(x.store, offer) \in Seq(Event)
      /\ \A i \in 1 .. Len(ById(x.store, offer)) :
           \E c \in offer : ById(x.store, offer)[i] = EventOf(x.store, c)
  BY <1>5, ByHashType
<1>9. Backed(ById(x.store, offer), x.store)
  <2>1. \A c \in offer : Shows(x.store, EventOf(x.store, c))
    BY <1>5 DEF Shows, EventOf, LogRows
  <2> QED BY <1>8, <2>1 DEF Backed
<1>10. /\ s \in Session /\ s.want = InOrder(want, ByHash)
       /\ s.extra = ById(x.store, offer)
  BY <1>1, <1>7, <1>8 DEF Session
<1> HIDE DEF s
<1>11. Closing(u, x.store, t)
  <2>1. CASE want # {}
    <3>1. /\ u.phase = "claims" /\ u.want = s.want /\ u.extra = s.extra
      BY <1>10, <2>1 DEF Session
    <3> HIDE DEF u
    <3> QED BY <1>6, <1>7, <1>9, <1>10, <3>1 DEF Closing
  <2>2. CASE want = {}
    <3>1. Caught(x.store, t)
      BY <1>6, <2>2, CaughtShows
    <3> QED BY <1>9, <1>10, <2>2, <3>1, AfterClaimsCloses
  <2> QED BY <2>1, <2>2
<1> HIDE DEF u
<1>12. y.session = u /\ y.store = x.store
  BY <1>1, <1>2 DEF Side
<1> QED BY <1>11, <1>12 DEF y

\* Every claim asked for that the peer holds comes, and is ingested.
LEMMA FedClaimsCloses ==
  ASSUME NEW x, Steady(x), x.session.phase = "claims",
         NEW t, Sound(t), Closing(x.session, x.store, t),
         NEW a, a = ClaimsOf(t, First(x.session.want))
  PROVE  LET y == FedClaims(x, a) IN Closing(y.session, y.store, t)
<1> DEFINE y == FedClaims(x, a)
           want == x.session.want
           s == [x.session EXCEPT !.want = Rest(want)]
           v == IF s.want = <<>> THEN AfterClaims(s) ELSE s
           u == IngestAll(x.store, a)
<1>1. /\ x \in Side /\ Sound(x.store) /\ x.session \in Session
      /\ want \in Seq(Claim) /\ x.session.extra \in Seq(Event)
  BY DEF Steady, Side, Session
<1>2. y = [x EXCEPT !.store = u, !.session = v]
  BY <1>1 DEF FedClaims, Side, Session
<1> HIDE DEF y, want
<1>3. /\ First(want) \in Seq(Claim) /\ Rest(want) \in Seq(Claim)
      /\ Len(First(want)) \in Nat /\ Len(Rest(want)) \in Nat
      /\ Len(want) = Len(First(want)) + Len(Rest(want))
      /\ \A j \in 1 .. Len(First(want)) : First(want)[j] = want[j]
      /\ \A j \in 1 .. Len(Rest(want)) :
           Rest(want)[j] = want[Len(First(want)) + j]
  BY <1>1, FirstRest, LenProperties
<1>4. /\ a \in Seq(Event)
      /\ \A i \in 1 .. Len(First(want)) :
           First(want)[i] \in t.held =>
             \E j \in 1 .. Len(a) : a[j] = EventOf(t, First(want)[i])
  BY <1>3, ClaimsType DEF want
<1>5. Keeps(x.store, u) /\ \A j \in 1 .. Len(a) : Shows(u, a[j])
  BY <1>1, <1>4, IngestAllShows DEF Sound
<1> HIDE DEF u
<1>6. /\ s \in Session /\ s.want = Rest(want) /\ s.phase = "claims"
      /\ s.extra = x.session.extra
  BY <1>1, <1>3 DEF Session
<1> HIDE DEF s
<1>7. Backed(s.extra, u)
  BY <1>1, <1>5, <1>6, BackedKept DEF Closing
<1>8. ASSUME NEW c \in LogRows(t, TheLog)
      PROVE  \/ Shows(u, EventOf(t, c))
             \/ \E i \in 1 .. Len(Rest(want)) : Rest(want)[i] = c
  <2>1. EventOf(t, c) \in Event /\ c \in t.held
    <3>1. c \in Claim /\ c \in t.held
      BY CountType DEF LogRows
    <3> QED BY <3>1 DEF EventOf, Event
  <2>2. CASE Shows(x.store, EventOf(t, c))
    BY <1>5, <2>1, <2>2, KeepsShows
  <2>3. CASE \E i \in 1 .. Len(want) : want[i] = c
    <3>1. PICK i \in 1 .. Len(want) : want[i] = c
      BY <2>3
    <3>2. CASE i <= Len(First(want))
      <4>1. i \in 1 .. Len(First(want)) /\ First(want)[i] = c
        BY <1>3, <3>1, <3>2
      <4> QED BY <1>4, <1>5, <2>1, <4>1
    <3>3. CASE ~(i <= Len(First(want)))
      <4> DEFINE j == i - Len(First(want))
      <4>1. j \in 1 .. Len(Rest(want)) /\ Len(First(want)) + j = i
        BY <1>3, <3>3
      <4> HIDE DEF j
      <4> QED BY <1>3, <3>1, <4>1
    <3> QED BY <3>2, <3>3
  <2> QED BY <2>2, <2>3 DEF Closing, want
<1>9. Closing(v, u, t)
  <2>1. CASE s.want = <<>>
    <3>1. Len(Rest(want)) = 0
      BY <1>3, <1>6, <2>1, EmptySeq
    <3>2. \A c \in LogRows(t, TheLog) : Shows(u, EventOf(t, c))
      BY <1>8, <3>1
    <3>3. Caught(u, t)
      BY <3>2, CaughtShows
    <3> QED BY <1>6, <1>7, <2>1, <3>3, AfterClaimsCloses
  <2>2. CASE s.want # <<>>
    BY <1>6, <1>7, <1>8, <2>2 DEF Closing
  <2> QED BY <2>1, <2>2
<1> HIDE DEF v
<1>10. y.session = v /\ y.store = u
  BY <1>1, <1>2 DEF Side
<1> QED BY <1>9, <1>10 DEF y

\* The other phases carry on what the reconciliation has established.
LEMMA FedCloses ==
  ASSUME NEW x, Steady(x), NEW a, NEW y, Effect(x, a, y),
         x.session.phase \notin {"idle", "hashes", "claims"},
         NEW t, Closing(x.session, x.store, t)
  PROVE  Closing(y.session, y.store, t)
<1>1. x.session \in Session /\ x.session.phase \in Phases
      /\ x.session.batch \in Seq(Event)
  BY DEF Steady, Side, Session
<1>2. CASE x.session.phase \in {"status", "pull", "settle"}
  BY <1>2 DEF Effect, Primary, Closing
<1>3. CASE x.session.phase = "publish"
  <2>1. /\ y.session.phase \in {"publish", x.session.after}
        /\ y.session.after = x.session.after
        /\ y.session.batch = Rest(x.session.batch)
        /\ y.store = x.store
    BY <1>3 DEF Effect
  <2>2. x.session.after \in {"settle", "resettle"}
    BY <1>1 DEF Session
  <2>3. Backed(x.session.batch, x.store) => Backed(y.session.batch, x.store)
    <3> DEFINE q == x.session.batch
    <3>1. q \in Seq(Event)
      BY <1>1
    <3> HIDE DEF q
    <3>2. \A j \in 1 .. Len(Rest(q)) : /\ Len(First(q)) + j \in 1 .. Len(q)
                                       /\ Rest(q)[j] = q[Len(First(q)) + j]
      BY <3>1, FirstRest
    <3>3. Backed(q, x.store) => Backed(Rest(q), x.store)
      BY <3>2 DEF Backed
    <3> QED BY <2>1, <3>3 DEF q
  <2> QED BY <1>3, <2>1, <2>2, <2>3 DEF Closing
<1>4. CASE x.session.phase = "resettle"
  BY <1>4 DEF Effect, Closing
<1> QED BY <1>1, <1>2, <1>3, <1>4 DEF Phases

\* Whatever a cursor remembers as settled is met.
Knows(x) == \A c \in Cursors(x) : c.settled # None => Met(c.settled, x.store)

LEMMA FedKnows ==
  ASSUME NEW x, Steady(x), NEW a, NEW y, Effect(x, a, y),
         x.session.phase \in {"pull", "claims"} => a \in Seq(Event),
         NEW t \in Store, Closing(x.session, x.store, t),
         x.session.phase = "resettle" => a.print = Digest(t),
         Knows(x)
  PROVE  Knows(y)
<1>1. Sound(x.store) /\ x.store \in Store
  BY DEF Steady, Sound
<1>2. Keeps(x.store, y.store)
  <2>1. CASE y.store = x.store
    BY <2>1 DEF Keeps
  <2>2. CASE /\ x.session.phase \in {"pull", "claims"}
             /\ y.store = IngestAll(x.store, a)
    BY <1>1, <2>2, IngestAllShows DEF Sound
  <2> QED BY <2>1, <2>2 DEF Effect
<1> SUFFICES ASSUME NEW c \in Cursors(y), c.settled # None
             PROVE  Met(c.settled, y.store)
  BY DEF Knows
<1>3. Remembered(x, a, y, c)
  BY DEF Effect
<1>4. CASE \E d \in Cursors(x) : c.settled = d.settled
  BY <1>2, <1>4, MetKept DEF Knows
<1>5. CASE y.store = x.store /\ c.settled = Digest(x.store)
  <2>1. Caught(x.store, x.store)
    BY DEF Caught, LogRows
  <2> QED BY <1>1, <1>5, <2>1, MetCaught
<1>6. CASE x.session.phase = "resettle" /\ c.settled = a.print
  <2>1. Met(c.settled, x.store)
    BY <1>6, MetCaught DEF Closing
  <2> QED BY <1>2, <2>1, MetKept
<1> QED BY <1>3, <1>4, <1>5, <1>6 DEF Remembered
-----------------------------------------------------------------------------
(* What a session teaches a peer that holds t all along *)

\* The claims digest D says were held.
Listed(D) ==
  {c \in Claim : <<"claim", c, TRUE>> \in D \/ <<"claim", c, FALSE>> \in D}

\* The rows a push position counts.
Before(s, p) == {k \in LogRows(s, TheLog) : s.arrival[k] < p}

Ids(q) == {q[j].id : j \in 1 .. Len(q)}

\* A session that has heard the peer's Status.
Open(s) == s.phase \notin {"idle", "status"}

\* Past the peer's list of hashes: of the rows C the peer has each, or it is
\* about to be sent.
Offering(s, C, t) ==
  /\ s.phase = "claims" => C \subseteq t.held \cup Ids(s.extra)
  /\ s.phase = "publish" /\ s.after = "resettle" =>
       ~s.prefix /\ C \subseteq t.held \cup Ids(s.batch)
  /\ s.phase = "resettle" => C \subseteq t.held

(***************************************************************************)
(* The rows counted as pushed are on the settled digest, or the session    *)
(* has found the peer to hold them, or is about to offer them.             *)
(***************************************************************************)
Teaches(x, t, i) ==
  LET counted == Before(x.store, x.row.push)
  IN  /\ x.row.push <= Count(x.store)
      /\ x.session.phase # "idle" => x.session.push
      /\ IF Open(x.session)
         THEN x.session.cursor = x.row /\ x.row.instance = i
         ELSE Zero(x.session.cursor) /\ x.session.cursor.settled = None
      /\ x.row.settled # None =>
           counted \subseteq Listed(x.row.settled)
                      \cup (IF Open(x.session) THEN t.held ELSE {})
      /\ Offering(x.session, counted, t)

\* The answers of a peer, as i, that takes what it is sent.
Frank(s, a, t, i) ==
  /\ s.phase = "hashes" => a = HashesOf(t)
  /\ s.phase = "publish" => Ids(First(s.batch)) \subseteq t.held
  /\ s.phase \in {"status", "settle", "resettle"} =>
       a.print = Digest(t) /\ a.instance = i

LEMMA ListedDigest ==
  ASSUME NEW h \in Store
  PROVE  Listed(Digest(h)) = LogRows(h, TheLog)
<1>1. LogRows(h, TheLog) \subseteq Claim
  BY DEF LogRows, Store
<1> DEFINE D == Digest(h)
<1>2. \A c \in Claim :
        (<<"claim", c, TRUE>> \in D \/ <<"claim", c, FALSE>> \in D)
          <=> c \in LogRows(h, TheLog)
  BY DigestTells, Zenon
<1> HIDE DEF D
<1>3. Listed(D) = LogRows(h, TheLog)
  BY <1>1, <1>2 DEF Listed
<1> QED BY <1>3 DEF D

\* New rows come after those counted.
LEMMA BeforeGrown ==
  ASSUME NEW s, NEW u, Sound(s), Sound(u), Grown(s, u),
         NEW p \in Nat, p <= Count(s)
  PROVE  p <= Count(u) /\ Before(u, p) \subseteq Before(s, p)
<1>1. Count(s) \in Nat /\ Count(u) \in Nat /\ Count(s) <= Count(u)
  BY CountType, GrownPositions
<1>2. ASSUME NEW k \in LogRows(u, TheLog), u.arrival[k] < p
      PROVE  k \in LogRows(s, TheLog) /\ s.arrival[k] < p
  <2>1. u.arrival[k] \in Nat
    BY CountType DEF Sound, Store
  <2>2. u.arrival[k] < Count(s)
    BY <1>1, <1>2, <2>1
  <2>3. k \in LogRows(s, TheLog)
    BY <2>2, GrownPositions
  <2> QED BY <1>2, <2>3 DEF Grown, LogRows
<1> QED BY <1>1, <1>2 DEF Before

\* A batch pushed from the position counts its rows, no others.
LEMMA BeforeMore ==
  ASSUME NEW s, Sound(s), NEW p \in Nat, p <= Count(s),
         NEW q \in Seq(Event), Placed(q, s, p)
  PROVE  /\ p + Len(q) <= Count(s)
         /\ Before(s, p + Len(q)) \subseteq Before(s, p) \cup Ids(q)
<1>1. /\ p + Len(q) <= Count(s)
      /\ \A k \in LogRows(s, TheLog) :
           p <= s.arrival[k] /\ s.arrival[k] < p + Len(q) =>
             \E j \in 1 .. Len(q) : q[j].id = k
  BY PlacedCovers
<1>2. \A k \in LogRows(s, TheLog) : s.arrival[k] \in Nat
  BY CountType DEF Sound, Store
<1>3. \A k \in LogRows(s, TheLog) : s.arrival[k] < p \/ p <= s.arrival[k]
  BY <1>2
<1> QED BY <1>1, <1>3 DEF Before, Ids

(***************************************************************************)
(* A feed() counts no row the peer lacks but those counted before.         *)
(***************************************************************************)
LEMMA FedCounts ==
  ASSUME NEW x, Steady(x), x.session.phase # "idle",
         NEW a, x.session.phase \in {"pull", "claims"} => a \in Seq(Event),
         NEW y, Effect(x, a, y),
         NEW t, NEW i, Teaches(x, t, i), Frank(x.session, a, t, i)
  PROVE  LET had == Before(x.store, x.row.push)
             has == Before(y.store, y.row.push)
         IN  /\ y.row.push <= Count(y.store)
             /\ has \subseteq had \cup t.held
             /\ ~(x.session.phase = "publish" /\ x.session.prefix) =>
                  has \subseteq had
<1> DEFINE had == Before(x.store, x.row.push)
           has == Before(y.store, y.row.push)
<1>1. /\ Sound(x.store) /\ x.row \in Cursor /\ x.row.push \in Nat
      /\ x.session \in Session /\ x.session.batch \in Seq(Event)
  BY DEF Steady, Side, Cursor, Session
<1>2. Sound(y.store) /\ Grown(x.store, y.store)
  <2>1. CASE y.store = x.store
    BY <1>1, <2>1 DEF Grown
  <2>2. CASE /\ x.session.phase \in {"pull", "claims"}
             /\ y.store = IngestAll(x.store, a)
    BY <1>1, <2>2, IngestAllGrows
  <2> QED BY <2>1, <2>2 DEF Effect
<1>3. CASE y.row.push = x.row.push
  BY <1>1, <1>2, <1>3, BeforeGrown DEF Teaches
<1>4. CASE y.row.push = 0
  <2>1. Before(y.store, 0) = {}
    BY <1>2, CountType DEF Before, Sound, Store
  <2>2. 0 <= Count(y.store)
    BY <1>2, CountType
  <2> QED BY <1>4, <2>1, <2>2
<1>5. CASE Pushed(x, y.row)
  <2> DEFINE q == First(x.session.batch)
             p == x.row.push
  <2>1. /\ x.session.phase = "publish" /\ x.session.prefix
        /\ x.session.cursor = x.row /\ y.row.push = p + Len(q)
    BY <1>5 DEF Pushed, Teaches, Open
  <2>2. Placed(x.session.batch, x.store, p)
    BY <2>1 DEF Steady, Ready
  <2>3. q \in Seq(Event) /\ Placed(q, x.store, p)
    BY <1>1, <2>2, FirstRest, PlacedParts
  <2>4. Ids(q) \subseteq t.held /\ p <= Count(x.store) /\ p \in Nat
    BY <1>1, <2>1 DEF Frank, Teaches
  <2>5. y.store = x.store
    BY <2>1 DEF Effect
  <2> HIDE DEF q, p
  <2>6. /\ p + Len(q) <= Count(x.store)
        /\ Before(x.store, p + Len(q)) \subseteq Before(x.store, p) \cup Ids(q)
    BY <1>1, <2>3, <2>4, BeforeMore
  <2> QED BY <2>1, <2>4, <2>5, <2>6 DEF p
<1>6. \A d \in Cursors(x) : d.push = x.row.push \/ d.push = 0
  BY DEF Cursors, Teaches, Zero
<1>7. y.row \in Cursors(y)
  BY DEF Cursors
<1>8. \/ y.row.push = x.row.push \/ y.row.push = 0
      \/ Pushed(x, y.row)
  <2>1. \/ Zero(y.row)
        \/ \E d \in Cursors(x) : Same(y.row, d)
        \/ Pulled(x, a, y, y.row)
        \/ Pushed(x, y.row)
    BY <1>7 DEF Effect
  <2>2. CASE Pulled(x, a, y, y.row)
    BY <1>6, <2>2 DEF Pulled, Cursors
  <2> QED BY <1>6, <2>1, <2>2 DEF Zero, Same
<1> QED BY <1>3, <1>4, <1>5, <1>8
\* What holds of many rows holds of fewer.
LEMMA OfferingFewer ==
  ASSUME NEW s, NEW C, NEW D, D \subseteq C, NEW t, Offering(s, C, t)
  PROVE  Offering(s, D, t)
BY DEF Offering

LEMMA AfterClaimsOffers ==
  ASSUME NEW s \in Session, NEW C, NEW t, C \subseteq t.held \cup Ids(s.extra)
  PROVE  Offering(AfterClaims(s), C, t)
<1>1. s.extra = <<>> => Ids(s.extra) = {}
  BY EmptySeq DEF Ids
<1> QED BY <1>1, AfterClaimsType DEF Offering

\* Compared with the peer's hashes, every row it lacks is offered.
LEMMA FedHashesOffers ==
  ASSUME NEW x, Steady(x), x.session.phase = "hashes", x.session.push,
         NEW t, Sound(t), NEW a, a = HashesOf(t)
  PROVE  LET y == FedHashes(x, a)
         IN  Offering(y.session, LogRows(x.store, TheLog), t)
<1> DEFINE y == FedHashes(x, a)
           C == LogRows(x.store, TheLog)
           want == IF x.session.pull THEN Wanted(x.store, a) ELSE {}
           offer == Offered(x.store, a)
           s == [x.session EXCEPT !.want = InOrder(want, ByHash),
                                  !.extra = ById(x.store, offer)]
           u == IF want # {} THEN [s EXCEPT !.phase = "claims"]
                ELSE AfterClaims(s)
<1>1. x \in Side /\ Sound(x.store) /\ x.session \in Session
  BY DEF Steady, Side
<1>2. y = [x EXCEPT !.session = u]
  BY DEF FedHashes
<1>3. a.rows = LogRows(t, TheLog) /\ a.rows \subseteq Claim
      /\ IsFiniteSet(a.rows) /\ a.rows \subseteq t.held
  BY CountType DEF HashesOf, LogRows
<1>4. want \in SUBSET Claim /\ IsFiniteSet(want)
  <2>1. Wanted(x.store, a) \subseteq a.rows
    BY DEF Wanted
  <2>2. IsFiniteSet(Wanted(x.store, a))
    BY <1>3, <2>1, FS_Subset
  <2> QED BY <1>3, <2>1, <2>2, FS_EmptySet
<1>5. /\ offer \in SUBSET Claim /\ IsFiniteSet(offer)
      /\ C \subseteq t.held \cup offer
  <2>1. offer \subseteq C /\ C \subseteq t.held \cup offer
    BY <1>3 DEF Offered
  <2> HIDE DEF offer
  <2>2. C \subseteq Claim /\ IsFiniteSet(C)
    BY <1>1, CountType
  <2> QED BY <2>1, <2>2, FS_Subset
<1> HIDE DEF want, offer, y, C
<1>6. /\ InOrder(want, ByHash) \in Seq(Claim)
      /\ ById(x.store, offer) \in Seq(Event)
      /\ offer \subseteq Ids(ById(x.store, offer))
  <2>1. /\ ById(x.store, offer) \in Seq(Event)
        /\ \A c \in offer : \E i \in 1 .. Len(ById(x.store, offer)) :
             ById(x.store, offer)[i] = EventOf(x.store, c)
    BY <1>5, ByHashType
  <2>2. \A c : EventOf(x.store, c).id = c
    BY DEF EventOf
  <2>3. offer \subseteq Ids(ById(x.store, offer))
    BY <2>1, <2>2 DEF Ids
  <2> QED BY <1>4, <2>1, <2>3, ByHashType
<1>7. s \in Session /\ s.extra = ById(x.store, offer)
  BY <1>1, <1>6 DEF Session
<1> HIDE DEF s
<1>8. C \subseteq t.held \cup Ids(s.extra)
  BY <1>5, <1>6, <1>7
<1>9. Offering(u, C, t)
  <2>1. CASE want # {}
    <3>1. u.phase = "claims" /\ u.extra = s.extra
      BY <1>7, <2>1 DEF Session
    <3> HIDE DEF u
    <3> QED BY <1>8, <3>1 DEF Offering
  <2>2. CASE want = {}
    BY <1>7, <1>8, <2>2, AfterClaimsOffers
  <2> QED BY <2>1, <2>2
<1> HIDE DEF u
<1>10. y.session = u
  BY <1>1, <1>2 DEF Side
<1> QED BY <1>9, <1>10 DEF y, C

LEMMA FedClaimsOffers ==
  ASSUME NEW x, Steady(x), x.session.phase = "claims", NEW a,
         NEW t, NEW C, Offering(x.session, C, t)
  PROVE  Offering(FedClaims(x, a).session, C, t)
<1> DEFINE y == FedClaims(x, a)
           s == [x.session EXCEPT !.want = Rest(@)]
           v == IF s.want = <<>> THEN AfterClaims(s) ELSE s
<1>1. x \in Side /\ x.session \in Session /\ x.session.want \in Seq(Claim)
  BY DEF Steady, Side, Session
<1>2. y.session = v
  BY <1>1 DEF FedClaims, Side
<1> HIDE DEF y
<1>3. Rest(x.session.want) \in Seq(Claim)
  BY <1>1, FirstRest
<1>4. s \in Session /\ s.phase = "claims" /\ s.extra = x.session.extra
  BY <1>1, <1>3 DEF Session
<1> HIDE DEF s
<1>5. C \subseteq t.held \cup Ids(s.extra)
  BY <1>4 DEF Offering
<1>6. Offering(v, C, t)
  <2>1. CASE s.want = <<>>
    BY <1>4, <1>5, <2>1, AfterClaimsOffers
  <2>2. CASE s.want # <<>>
    BY <1>4, <1>5, <2>2 DEF Offering
  <2> QED BY <2>1, <2>2
<1> QED BY <1>2, <1>6 DEF y

\* Of a batch of a reconciliation, what is acknowledged need not be sent.
LEMMA FedOffers ==
  ASSUME NEW x, Steady(x), NEW a, NEW y, Effect(x, a, y),
         x.session.phase \notin {"idle", "hashes", "claims"},
         NEW t, NEW i, Frank(x.session, a, t, i),
         NEW C, Offering(x.session, C, t)
  PROVE  Offering(y.session, C, t)
<1>1. /\ x.session \in Session /\ x.session.phase \in Phases
      /\ x.session.batch \in Seq(Event)
      /\ x.session.after \in {"settle", "resettle"}
  BY DEF Steady, Side, Session
<1>2. CASE x.session.phase \in {"status", "pull", "settle"}
  BY <1>2 DEF Effect, Primary, Offering
<1>3. CASE x.session.phase = "resettle"
  BY <1>3 DEF Effect, Offering
<1>4. CASE x.session.phase = "publish"
  <2> DEFINE q == x.session.batch
  <2>1. /\ y.session.phase \in {"publish", x.session.after}
        /\ y.session.after = x.session.after
        /\ y.session.prefix = x.session.prefix
        /\ y.session.batch = Rest(q)
        /\ y.session.phase # "publish" => Rest(q) = <<>>
    BY <1>4 DEF Effect, Onward
  <2>2. Ids(First(q)) \subseteq t.held
    BY <1>4 DEF Frank
  <2>3. x.session.after = "resettle" =>
          ~x.session.prefix /\ C \subseteq t.held \cup Ids(q)
    BY <1>4 DEF Offering
  <2>4. q \in Seq(Event)
    BY <1>1
  <2> HIDE DEF q
  <2>5. Ids(q) \subseteq Ids(First(q)) \cup Ids(Rest(q))
    <3>1. /\ Len(q) = Len(First(q)) + Len(Rest(q))
          /\ \A j \in 1 .. Len(First(q)) : First(q)[j] = q[j]
          /\ \A j \in 1 .. Len(Rest(q)) : Rest(q)[j] = q[Len(First(q)) + j]
          /\ Len(First(q)) \in Nat /\ Len(Rest(q)) \in Nat
      BY <2>4, FirstRest, LenProperties
    <3> SUFFICES ASSUME NEW j \in 1 .. Len(q)
                 PROVE  q[j].id \in Ids(First(q)) \cup Ids(Rest(q))
      BY DEF Ids
    <3>2. CASE j <= Len(First(q))
      <4>1. j \in 1 .. Len(First(q)) /\ First(q)[j] = q[j]
        BY <3>1, <3>2
      <4> QED BY <4>1 DEF Ids
    <3>3. CASE ~(j <= Len(First(q)))
      <4> DEFINE k == j - Len(First(q))
      <4>1. k \in 1 .. Len(Rest(q)) /\ Len(First(q)) + k = j
        BY <3>1, <3>3
      <4> HIDE DEF k
      <4>2. Rest(q)[k] = q[j]
        BY <3>1, <4>1
      <4> QED BY <4>1, <4>2 DEF Ids
    <3> QED BY <3>2, <3>3
  <2>6. Rest(q) = <<>> => Ids(Rest(q)) = {}
    BY EmptySeq DEF Ids
  <2> QED BY <1>1, <2>1, <2>2, <2>3, <2>5, <2>6 DEF Offering
<1> QED BY <1>1, <1>2, <1>3, <1>4 DEF Phases

\* Whatever the phase, if what the session goes on to offer is enough.
LEMMA FedTeaches ==
  ASSUME NEW x, Steady(x), x.session.phase # "idle",
         NEW a, x.session.phase \in {"pull", "claims"} => a \in Seq(Event),
         NEW y, Effect(x, a, y),
         NEW t \in Store, NEW i,
         Teaches(x, t, i), Frank(x.session, a, t, i),
         Offering(y.session, Before(y.store, y.row.push), t)
  PROVE  Teaches(y, t, i)
<1> DEFINE had == Before(x.store, x.row.push)
           has == Before(y.store, y.row.push)
           D == y.row.settled
<1>1. /\ y.row.push <= Count(y.store)
      /\ has \subseteq had \cup t.held
      /\ ~(x.session.phase = "publish" /\ x.session.prefix) =>
           has \subseteq had
  BY FedCounts
<1>2. /\ had \subseteq LogRows(x.store, TheLog)
      /\ has \subseteq LogRows(y.store, TheLog)
  BY DEF Before
<1>3. InStep(x) /\ x.session.push
  BY DEF Teaches, InStep, Open
<1>4. x.session.phase = "resettle" => x.session.cursor.instance = a.instance
  BY DEF Teaches, Open, Frank
<1>5. /\ y.session.phase # "idle" =>
           y.session.push /\ y.session.cursor = y.row
      /\ y.session.phase = "idle" =>
           /\ y.session = Idle /\ y.row.settled \in {None, a.print}
           /\ x.session.phase \in {"status", "settle", "resettle"}
           /\ a.print = Digest(t)
  BY <1>3, <1>4 DEF Effect, Onward, Stepped, Frank
<1>6. IF Open(y.session)
      THEN y.session.cursor = y.row /\ y.row.instance = i
      ELSE Zero(y.session.cursor) /\ y.session.cursor.settled = None
  <2>1. CASE y.session.phase = "idle"
    BY <1>5, <2>1, IdleType DEF Open
  <2>2. CASE y.session.phase # "idle"
    <3>1. y.session.phase # "status"
      BY <2>2 DEF Effect
    <3>2. y.session.cursor.instance = i
      BY <2>2 DEF Effect, Teaches, Open, Frank
    <3> QED BY <1>5, <2>2, <3>1, <3>2 DEF Open
  <2> QED BY <2>1, <2>2
<1>7. \A k \in had \cup has : k \in t.held => k \in LogRows(t, TheLog)
  BY <1>2 DEF LogRows
<1> HIDE DEF had, has
<1>8. ASSUME D # None, y.session.phase = "idle", has \subseteq had,
             had \subseteq Listed(D) \cup t.held
      PROVE  has \subseteq Listed(D)
  <2>1. Listed(D) = LogRows(t, TheLog)
    BY <1>5, <1>8, ListedDigest
  <2> QED BY <1>7, <1>8, <2>1
<1>9. ASSUME D # None
      PROVE  has \subseteq Listed(D)
                 \cup (IF Open(y.session) THEN t.held ELSE {})
  <2>1. Remembered(x, a, y, y.row)
    BY DEF Effect, Cursors
  <2>2. CASE \E d \in Cursors(x) : D = d.settled
    <3>1. D = x.row.settled
      BY <1>9, <2>2 DEF Cursors, Teaches
    <3>2. had \subseteq Listed(D) \cup t.held
      BY <1>9, <3>1 DEF Teaches, had
    <3>3. CASE y.session.phase = "idle"
      BY <1>1, <1>5, <1>8, <1>9, <3>2, <3>3
    <3>4. CASE y.session.phase # "idle"
      <4>1. Open(y.session)
        BY <3>4 DEF Effect, Open
      <4> QED BY <1>1, <3>2, <4>1
    <3> QED BY <3>3, <3>4
  <2>3. CASE y.store = x.store /\ D = Digest(x.store)
    <3>1. x.store \in Store
      BY DEF Steady, Side
    <3>2. Listed(D) = LogRows(y.store, TheLog)
      BY <2>3, <3>1, ListedDigest
    <3> QED BY <1>2, <3>2 DEF has
  <2>4. CASE x.session.phase = "resettle" /\ D = a.print
    <3>1. had \subseteq t.held
      BY <2>4 DEF Teaches, Offering, had
    <3>2. has \subseteq had /\ y.session.phase = "idle"
      BY <1>1, <2>4 DEF Effect
    <3> QED BY <1>8, <1>9, <3>1, <3>2
  <2> QED BY <1>9, <2>1, <2>2, <2>3, <2>4 DEF Remembered
<1> QED BY <1>1, <1>5, <1>6, <1>9 DEF Teaches, has
=============================================================================
