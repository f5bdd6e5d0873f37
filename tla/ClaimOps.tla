------------------------------ MODULE ClaimOps ------------------------------
(***************************************************************************)
(* The claim store of vouch-core (store.rs, ClaimStore) as pure operators  *)
(* on a store value: what one ingest call does to the rows and the index   *)
(* tables, and what sync reads back.  ClaimStore, IngestSteps,             *)
(* RetentionStore and SyncSession are built from these operators.          *)
(*                                                                         *)
(* A claim is its hash.  Hashes are compared ("smallest redactor wins"),   *)
(* so claims are naturals.  What a claim's signed bytes say - its log,     *)
(* what it redacts, the claims it references and the blobs it pins,        *)
(* collected through embeds - is fixed by the hash, hence constant.        *)
(***************************************************************************)
EXTENDS Integers, FiniteSets, Sequences

CONSTANTS
  Claim,          \* hashes of the claims authors ever sign
  Log,            \* log ids
  Blob,           \* blob hashes
  None,           \* "no claim" (Option::None)
  LogOf,          \* header.log_id
  RedactTarget,   \* what the body redacts, None for ordinary speech
  Refs,           \* collect_edges(body).refs
  Pins            \* collect_edges(body).blobs

(***************************************************************************)
(* A claim cannot name its own hash (a hash cycle), and the reference a    *)
(* redact body carries is one of its edges.                                *)
(***************************************************************************)
ASSUME ClaimsAssumption ==
  /\ Claim \subseteq Nat
  /\ None \notin Claim
  /\ LogOf \in [Claim -> Log]
  /\ RedactTarget \in [Claim -> Claim \cup {None}]
  /\ Refs \in [Claim -> SUBSET Claim]
  /\ Pins \in [Claim -> SUBSET Blob]
  /\ \A c \in Claim : /\ c \notin Refs[c]
                      /\ RedactTarget[c] # None => RedactTarget[c] \in Refs[c]

\* What travels: a signed header, with its body or stripped of it.
Event == [id : Claim, body : BOOLEAN]

(***************************************************************************)
(* A store: the claim rows (held, body, arrival), the redactions table and *)
(* the two index tables, as <<target, source>> and <<blob, source>> pairs. *)
(***************************************************************************)
Store == [held : SUBSET Claim,
          body : SUBSET Claim,
          arrival : [Claim -> Nat],
          redaction : [Claim -> Claim \cup {None}],
          links : SUBSET (Claim \X Claim),
          pins : SUBSET (Blob \X Claim)]

EmptyStore == [held |-> {},
               body |-> {},
               arrival |-> [c \in Claim |-> 0],
               redaction |-> [c \in Claim |-> None],
               links |-> {},
               pins |-> {}]

LinksOf(c) == Refs[c] \X {c}
PinsOf(c) == Pins[c] \X {c}

LogRows(s, l) == {c \in s.held : LogOf[c] = l}
LogLen(s, l) == Cardinality(LogRows(s, l))

-----------------------------------------------------------------------------
(* Ingest *)

\* The target of a redact claim whose body was seen.
OwnRedaction(e) == IF e.body THEN RedactTarget[e.id] ELSE None

\* Mutants: the first redactor wins; the last one wins.
MutFirstRedactor(s, t, by) ==
  IF s.redaction[t] = None THEN [s EXCEPT !.redaction[t] = by] ELSE s
MutLastRedactor(s, t, by) == [s EXCEPT !.redaction[t] = by]

SetRedaction(s, t, by) ==
  IF s.redaction[t] = None \/ by < s.redaction[t]
  THEN [s EXCEPT !.redaction[t] = by]
  ELSE s

\* A held body is forgotten, with every edge it contributed.
DropBody(s, t) == [s EXCEPT !.body = @ \ {t},
                            !.links = @ \ LinksOf(t),
                            !.pins = @ \ PinsOf(t)]

ApplyRedaction(s, t, by) ==
  LET marked == SetRedaction(s, t, by)
  IN  IF t \in s.body /\ RedactTarget[t] = None
      THEN DropBody(marked, t)
      ELSE marked

\* Mutant: a redacted redact claim loses its body too.
MutSuppressed(s, e) == s.redaction[e.id] # None

\* Only ordinary speech is suppressed; a redact body is always kept.
Suppressed(s, e) == OwnRedaction(e) = None /\ s.redaction[e.id] # None

BodyKept(s, e) == e.body /\ ~Suppressed(s, e)

\* Mutant: a held row is a duplicate, with or without its body.
MutDuplicate(s, e) == e.id \in s.held

Duplicate(s, e) == e.id \in s.held /\ (e.id \in s.body \/ ~BodyKept(s, e))

\* Mutant: positions counted over all logs.
MutArrivalGlobal(s, c) ==
  IF c \in s.held THEN s.arrival[c] ELSE Cardinality(s.held)

\* A new row takes the log's count as its arrival; a held one keeps its own.
ArrivalOf(s, c) ==
  IF c \in s.held THEN s.arrival[c] ELSE LogLen(s, LogOf[c])

PutClaim(s, e) ==
  LET kept == BodyKept(s, e)
  IN  [s EXCEPT !.held = @ \cup {e.id},
                !.body = IF kept THEN @ \cup {e.id} ELSE @,
                !.arrival[e.id] = ArrivalOf(s, e.id),
                !.links = IF kept THEN @ \cup LinksOf(e.id) ELSE @,
                !.pins = IF kept THEN @ \cup PinsOf(e.id) ELSE @]

\* The store once the redaction the event carries, if any, has taken effect.
Redacted(s, e) ==
  IF OwnRedaction(e) = None THEN s
  ELSE ApplyRedaction(s, OwnRedaction(e), e.id)

Ingest(s, e) ==
  LET r == Redacted(s, e)
  IN  IF Duplicate(r, e) THEN r ELSE PutClaim(r, e)

\* Events ingested one after the other, as they come off a pipe.
IngestAll(s, events) ==
  LET after[n \in 0 .. Len(events)] ==
        IF n = 0 THEN s ELSE Ingest(after[n - 1], events[n])
  IN  after[Len(events)]

-----------------------------------------------------------------------------
(* Reads *)

EventOf(s, c) == [id |-> c, body |-> c \in s.body]
EventsOf(s, q) == [i \in DOMAIN q |-> EventOf(s, q[i])]

(***************************************************************************)
(* The members of C by a key that tells them apart (sort_by_key): the i-th *)
(* has i - 1 before it.                                                    *)
(***************************************************************************)
InOrder(C, key) ==
  [i \in 1 .. Cardinality(C) |->
     CHOOSE c \in C : Cardinality({d \in C : key[d] < key[c]}) = i - 1]

ByHash == [c \in Claim |-> c]

\* The store serialised: every row as an event, in canonical order.
Events(s) == {EventOf(s, c) : c \in s.held}
Dump(s) == EventsOf(s, InOrder(s.held, ByHash))

\* What a cursor at `have` has not received yet, of one log.
ServeSince(s, l, have) == {c \in LogRows(s, l) : s.arrival[c] >= have}

(***************************************************************************)
(* The XOR of digests is modelled as the set of what is digested: equal    *)
(* digests exactly when equal sets (BLAKE3 without collisions).  A         *)
(* redaction counts for the log of its redactor, if that row is held.      *)
(***************************************************************************)
MutFingerprint(s, l) ==   \* mutant: the has-body bit is not hashed
  {<<"claim", c>> : c \in LogRows(s, l)}

Fingerprint(s, l) ==
  {<<"claim", c, c \in s.body>> : c \in LogRows(s, l)}
  \cup {<<"redaction", t, s.redaction[t]>> :
          t \in {u \in Claim : s.redaction[u] \in LogRows(s, l)}}

\* The replicated substance of a store, nothing local.
StateVector(s) == [claims |-> Events(s), redactions |-> s.redaction]

-----------------------------------------------------------------------------
(* verify_integrity, the fsck, as the properties it tests *)

BodiesForgotten(s) ==
  \A c \in s.body : RedactTarget[c] # None \/ s.redaction[c] = None

IndexAgrees(s) ==
  /\ s.links = UNION {LinksOf(c) : c \in s.body}
  /\ s.pins = UNION {PinsOf(c) : c \in s.body}

ArrivalsUnique(s) ==
  \A c, d \in s.held :
    LogOf[c] = LogOf[d] /\ s.arrival[c] = s.arrival[d] => c = d

\* The positions of a log are 0, 1, ... up to its length, one row each.
Dense(s) ==
  /\ ArrivalsUnique(s)
  /\ \A l \in Log :
       {s.arrival[c] : c \in LogRows(s, l)} = 0 .. LogLen(s, l) - 1

RedactionsBacked(s) ==
  \A t \in Claim : s.redaction[t] # None =>
    /\ s.redaction[t] \in s.body
    /\ RedactTarget[s.redaction[t]] = t

-----------------------------------------------------------------------------
(* The reference: what a store must be, computed from what it was sent *)

SeenIds(E) == {e.id : e \in E}
SeenBodies(E) == {e.id : e \in {f \in E : f.body}}

\* The redact claims among E that name t.
RedactorsOf(E, t) == {c \in SeenBodies(E) : RedactTarget[c] = t}

LiveBodies(E) ==
  {c \in SeenBodies(E) : RedactTarget[c] # None \/ RedactorsOf(E, c) = {}}

RedactionRight(s, E) ==
  \A t \in Claim :
    IF RedactorsOf(E, t) = {}
    THEN s.redaction[t] = None
    ELSE /\ s.redaction[t] \in RedactorsOf(E, t)
         /\ \A c \in RedactorsOf(E, t) : s.redaction[t] <= c

\* Rows and redactions as the events alone determine them...
RowsRight(s, E) ==
  /\ s.held = SeenIds(E)
  /\ s.body = LiveBodies(E)
  /\ RedactionRight(s, E)

\* ...and the edges of the bodies kept, no others.
Canonical(s, E) == RowsRight(s, E) /\ IndexAgrees(s)
=============================================================================
