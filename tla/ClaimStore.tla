----------------------------- MODULE ClaimStore -----------------------------
(***************************************************************************)
(* Stores that ingest whatever their pipes deliver: any signed claim, in   *)
(* any order, any number of times, with its body or stripped of it by a    *)
(* lossy or tombstone-serving peer.  This is the promise of store.rs:      *)
(* "any two stores holding the same set of received artifacts are in the   *)
(* same state, regardless of ingest order".                                *)
(*                                                                         *)
(* Ingest is one step here; IngestSteps shows that the transactional       *)
(* sequence of writes implements it.                                       *)
(***************************************************************************)
EXTENDS ClaimOps

CONSTANT Replica

VARIABLES
  store,   \* store[r]: the tables of replica r
  seen     \* seen[r]: ghost, every event delivered to r so far

storeVars == <<store, seen>>

StoreTypeOK ==
  /\ store \in [Replica -> Store]
  /\ seen \in [Replica -> SUBSET Event]

StoreInit ==
  /\ store = [r \in Replica |-> EmptyStore]
  /\ seen = [r \in Replica |-> {}]

IngestEvent(r, e) ==
  /\ store' = [store EXCEPT ![r] = Ingest(@, e)]
  /\ seen' = [seen EXCEPT ![r] = @ \cup {e}]

StoreNext == \E r \in Replica, e \in Event : IngestEvent(r, e)

StoreSpec == StoreInit /\ [][StoreNext]_storeVars

-----------------------------------------------------------------------------
(* Properties *)

(***************************************************************************)
(* The store is the reference function of the set of events it was sent:   *)
(* ids, live bodies, smallest redactors, edges.  Order, repetition and     *)
(* stripping leave no trace (ClaimStore::ingest_inner).                    *)
(***************************************************************************)
Canonicity == \A r \in Replica : Canonical(store[r], seen[r])

(***************************************************************************)
(* The contract in the words of store.rs:3-9: the same received artifacts, *)
(* the same state vector.                                                  *)
(***************************************************************************)
Convergence ==
  \A r, q \in Replica :
    seen[r] = seen[q] => StateVector(store[r]) = StateVector(store[q])

(***************************************************************************)
(* store.rs:515-518: stores whose fingerprints agree on every log agree on *)
(* everything they replicate, the redactions included - sync stops looking *)
(* when fingerprints match.                                                *)
(***************************************************************************)
FingerprintsDecide ==
  \A r, q \in Replica :
    (\A l \in Log : Fingerprint(store[r], l) = Fingerprint(store[q], l))
      => StateVector(store[r]) = StateVector(store[q])

(***************************************************************************)
(* Arrival positions are the count at insert time, so in each log they are *)
(* dense and distinct: a cursor at n has received exactly n rows           *)
(* (ingest_inner, serve_since).                                            *)
(***************************************************************************)
ArrivalsDense == \A r \in Replica : Dense(store[r])

(***************************************************************************)
(* The fsck stays silent: no redacted speech keeps a body and every        *)
(* redaction row is backed by a held redact claim (verify_integrity).      *)
(***************************************************************************)
FsckHealthy ==
  \A r \in Replica : /\ BodiesForgotten(store[r])
                     /\ RedactionsBacked(store[r])

(***************************************************************************)
(* store.rs:486-491: replaying the dump of a store through ingest rebuilds *)
(* its replicated state, redactions of long forgotten bodies included.     *)
(***************************************************************************)
DumpRestores ==
  \A r \in Replica :
    StateVector(IngestAll(EmptyStore, Dump(store[r]))) = StateVector(store[r])

(***************************************************************************)
(* store.rs:11-14: no un-redact, in any arrival order.  A redaction is     *)
(* never lost, its redactor only gets smaller, and speech once redacted    *)
(* never regains a body.                                                   *)
(***************************************************************************)
RedactionSticks ==
  [][\A r \in Replica, t \in Claim :
       store[r].redaction[t] # None =>
         /\ store'[r].redaction[t] # None
         /\ store'[r].redaction[t] <= store[r].redaction[t]
         /\ RedactTarget[t] = None => t \notin store'[r].body]_storeVars

(***************************************************************************)
(* What sync cursors index never moves: a served row keeps its position,   *)
(* also when a stripped body is filled in or dropped later                 *)
(* (ingest_inner, StoredClaim::arrival).                                   *)
(***************************************************************************)
ArrivalStable ==
  [][\A r \in Replica : \A c \in store[r].held :
       /\ c \in store'[r].held
       /\ store'[r].arrival[c] = store[r].arrival[c]]_storeVars
=============================================================================
