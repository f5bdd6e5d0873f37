--------------------------- MODULE RetentionStore ---------------------------
(***************************************************************************)
(* A relay mailbox's store: it ingests what clients publish and, every     *)
(* hour, hard-deletes the claims it received before a cutoff and the blobs *)
(* nothing references any more (gc_loop, purge_older_than, BlobStore::gc). *)
(***************************************************************************)
EXTENDS ClaimOps

CONSTANTS
  MaxTime,    \* the clock stops here, a bound of the model
  Retention   \* how long a relay promises to hold a claim

ASSUME RetentionAssumption == MaxTime \in Nat /\ Retention \in Nat

VARIABLES
  store,      \* the claim tables
  received,   \* received_at of the held rows
  blobs,      \* blobs on disk
  now         \* the relay's clock

retentionVars == <<store, received, blobs, now>>

RetentionTypeOK ==
  /\ store \in Store
  /\ received \in [Claim -> 0 .. MaxTime]
  /\ blobs \in SUBSET Blob
  /\ now \in 0 .. MaxTime

RetentionInit ==
  /\ store = EmptyStore
  /\ received = [c \in Claim |-> 0]
  /\ blobs = {}
  /\ now = 0

Tick ==
  /\ now < MaxTime
  /\ now' = now + 1
  /\ UNCHANGED <<store, received, blobs>>

\* A new row is stamped with the clock; a held one keeps its stamp.
IngestEvent(e) ==
  /\ store' = Ingest(store, e)
  /\ received' = IF e.id \in store.held THEN received
                 ELSE [received EXCEPT ![e.id] = now]
  /\ UNCHANGED <<blobs, now>>

\* Bytes of any blob, uploaded or fetched; unpinned ones are just cache.
IngestBlob(b) ==
  /\ blobs' = blobs \cup {b}
  /\ UNCHANGED <<store, received, now>>

\* Mutants: the index rows of purged claims stay; every row of a blob that a
\* purged claim pinned goes with it.
MutPurgeKeepsIndex(s, gone) ==
  [s EXCEPT !.held = @ \ gone,
            !.body = @ \ gone,
            !.redaction = [t \in Claim |-> IF t \in gone THEN None ELSE @[t]]]
MutPurgeSharedPins(s, gone) ==
  [MutPurgeKeepsIndex(s, gone) EXCEPT
     !.links = {l \in @ : l[2] \notin gone},
     !.pins = {p \in @ : \A c \in gone : p[1] \notin Pins[c]}]

(***************************************************************************)
(* Rows, their own edges and the redactions *of* them go; edges pointing   *)
(* at them, and the redactions they authorise, stay.                       *)
(***************************************************************************)
PurgeRows(s, gone) ==
  [s EXCEPT !.held = @ \ gone,
            !.body = @ \ gone,
            !.arrival = [c \in Claim |-> IF c \in gone THEN 0 ELSE @[c]],
            !.redaction = [t \in Claim |-> IF t \in gone THEN None ELSE @[t]],
            !.links = {l \in @ : l[2] \notin gone},
            !.pins = {p \in @ : p[2] \notin gone}]

PurgeOlderThan(cutoff) ==
  LET gone == {c \in store.held : received[c] < cutoff}
  IN  /\ store' = PurgeRows(store, gone)
      /\ received' = [c \in Claim |-> IF c \in gone THEN 0 ELSE received[c]]
      /\ UNCHANGED <<blobs, now>>

\* The hourly sweep of the claims, by the clock of the tick...
GcClaims == PurgeOlderThan(now - Retention)

\* Mutant: bodies long dropped still pin their blobs.
MutReferencedBlobs(s) == UNION {Pins[c] : c \in s.held}

\* Blobs with a row in the referrer index.
ReferencedBlobs(s) == {p[1] : p \in s.pins}

\* ...and of the blobs without a referrer.
GcBlobs ==
  /\ blobs' = blobs \cap ReferencedBlobs(store)
  /\ UNCHANGED <<store, received, now>>

\* Cache eviction drops bytes that are referenced, on purpose.
EvictBlob(b) ==
  /\ blobs' = blobs \ {b}
  /\ UNCHANGED <<store, received, now>>

RetentionNext ==
  \/ Tick
  \/ \E e \in Event : IngestEvent(e)
  \/ \E b \in Blob : IngestBlob(b) \/ EvictBlob(b)
  \/ GcClaims
  \/ GcBlobs

\* gc_loop ticks every hour for as long as the relay runs.
RetentionSpec ==
  RetentionInit /\ [][RetentionNext]_retentionVars /\ WF_retentionVars(GcBlobs)

-----------------------------------------------------------------------------
(* What retention leaves intact *)

(***************************************************************************)
(* The fsck's passes over bodies and indexes stay clean: a purge leaves no *)
(* phantom index row and no redacted speech with a body                    *)
(* (purge_older_than, verify_integrity passes 1 and 2).                    *)
(***************************************************************************)
IndexStaysExact == IndexAgrees(store) /\ BodiesForgotten(store)

\* Blobs that live bodies pin, read from the bodies (missing_blobs).
PinnedBlobs == UNION {Pins[c] : c \in store.body}

(***************************************************************************)
(* The blob sweep reads the index, the want-list reads the bodies: a sweep *)
(* never takes bytes the want-list would ask for again, whoever else that  *)
(* pinned them was purged or redacted (BlobStore::gc).                     *)
(***************************************************************************)
PinnedBlobsKept ==
  [][GcBlobs => blobs \cap PinnedBlobs \subseteq blobs']_retentionVars

(***************************************************************************)
(* blob.rs:128-131: once the claims that carried an image are redacted or  *)
(* purged, the next sweep forgets the bytes too, unless a live body pins   *)
(* them again first.                                                       *)
(***************************************************************************)
OrphansReclaimed ==
  \A b \in Blob : b \in blobs ~> (b \notin blobs \/ b \in PinnedBlobs)

=============================================================================
