----------------------------- MODULE IngestSteps ----------------------------
(***************************************************************************)
(* ClaimStore::ingest_at, one storage write at a time, over a backend that *)
(* may fail any write, the commit or the rollback, in a process that may   *)
(* panic or be killed between two writes.                                  *)
(*                                                                         *)
(* Transactional backends (the memory undo log, SQLite) keep the writes of *)
(* an open transaction apart from what survives.  The trait also admits    *)
(* one that ignores begin, commit and rollback, as the fault-injection     *)
(* tests do: its writes go straight through.                               *)
(***************************************************************************)
EXTENDS ClaimOps, SequencesExt

VARIABLES
  transactional,   \* the backend; never changes
  db,              \* what this process reads: committed rows and open writes
  disk,            \* what a restart finds
  phase,           \* where ingest_inner stands
  event,           \* the event being ingested
  todo,            \* index rows the current loop has still to write
  poisoned,        \* ClaimStore.poisoned
  done,            \* ghost: events whose ingest returned Ok
  tried            \* ghost: events whose ingest began

vars == <<transactional, db, disk, phase, event, todo, poisoned, done, tried>>

Phases == {"idle", "redact", "unlink", "store", "index", "commit"}

\* Index rows of one claim, as the two loops over its edges see them.
Edges(c) == [links |-> LinksOf(c), pins |-> PinsOf(c)]
NoEdges == [links |-> {}, pins |-> {}]
EdgeSet == [links : SUBSET (Claim \X Claim), pins : SUBSET (Blob \X Claim)]

TypeOK ==
  /\ transactional \in BOOLEAN
  /\ db \in Store /\ disk \in Store
  /\ phase \in Phases
  /\ event \in Event \cup {None}
  /\ todo \in EdgeSet
  /\ poisoned \in BOOLEAN
  /\ done \in SUBSET Event /\ tried \in SUBSET Event

Init ==
  /\ transactional \in BOOLEAN
  /\ db = EmptyStore /\ disk = EmptyStore
  /\ phase = "idle" /\ event = None /\ todo = NoEdges
  /\ poisoned = FALSE
  /\ done = {} /\ tried = {}

-----------------------------------------------------------------------------
(* One write: visible to this process, and to a restart if nothing         *)
(* brackets it.                                                            *)

\* Mutant: writes reach the disk before the commit.
MutWrite(s) == db' = s /\ disk' = s

Write(s) ==
  /\ db' = s
  /\ disk' = IF transactional THEN disk ELSE s

Forgets(s, t) == t # None /\ t \in s.body /\ RedactTarget[t] = None

(* begin; poisoned until an orderly exit. *)
Begin(e) ==
  /\ phase = "idle" /\ ~poisoned
  /\ phase' = "redact" /\ event' = e /\ poisoned' = TRUE
  /\ tried' = tried \cup {e}
  /\ UNCHANGED <<db, disk, todo, done>>

(* apply_redaction: the authority first, then the body's edges, then the   *)
(* body.  Nothing to write for ordinary speech.                            *)
RecordRedaction ==
  LET t == OwnRedaction(event)
      marked == SetRedaction(db, t, event.id)
  IN  /\ phase = "redact"
      /\ IF t = None THEN UNCHANGED <<db, disk>> ELSE Write(marked)
      /\ IF Forgets(db, t)
         THEN phase' = "unlink" /\ todo' = Edges(t)
         ELSE phase' = "store" /\ UNCHANGED todo
      /\ UNCHANGED <<event, poisoned, done, tried>>

RemoveEdge ==
  /\ phase = "unlink"
  /\ \/ \E l \in todo.links :
          /\ Write([db EXCEPT !.links = @ \ {l}])
          /\ todo' = [todo EXCEPT !.links = @ \ {l}]
     \/ \E p \in todo.pins :
          /\ todo.links = {}
          /\ Write([db EXCEPT !.pins = @ \ {p}])
          /\ todo' = [todo EXCEPT !.pins = @ \ {p}]
  /\ UNCHANGED <<phase, event, poisoned, done, tried>>

ForgetBody ==
  /\ phase = "unlink" /\ todo = NoEdges
  /\ Write([db EXCEPT !.body = @ \ {OwnRedaction(event)}])
  /\ phase' = "store"
  /\ UNCHANGED <<event, todo, poisoned, done, tried>>

(* Suppression, the duplicate early return, and the edges of a kept body. *)
DecideBody ==
  /\ phase = "store"
  /\ IF Duplicate(db, event)
     THEN phase' = "commit" /\ UNCHANGED todo
     ELSE /\ phase' = "index"
          /\ todo' = IF BodyKept(db, event) THEN Edges(event.id) ELSE NoEdges
  /\ UNCHANGED <<db, disk, event, poisoned, done, tried>>

AddEdge ==
  /\ phase = "index"
  /\ \/ \E l \in todo.links :
          /\ Write([db EXCEPT !.links = @ \cup {l}])
          /\ todo' = [todo EXCEPT !.links = @ \ {l}]
     \/ \E p \in todo.pins :
          /\ todo.links = {}
          /\ Write([db EXCEPT !.pins = @ \cup {p}])
          /\ todo' = [todo EXCEPT !.pins = @ \ {p}]
  /\ UNCHANGED <<phase, event, poisoned, done, tried>>

\* Mutant: the row is written before its edges are.
MutPutRow ==
  /\ phase = "index"
  /\ Write([db EXCEPT !.held = @ \cup {event.id},
                      !.body = IF BodyKept(db, event)
                               THEN @ \cup {event.id} ELSE @,
                      !.arrival[event.id] = ArrivalOf(db, event.id)])
  /\ phase' = "commit"
  /\ UNCHANGED <<event, todo, poisoned, done, tried>>

(* put_claim: "the commit point" of a backend without transactions. *)
PutRow ==
  /\ phase = "index" /\ todo = NoEdges
  /\ Write([db EXCEPT !.held = @ \cup {event.id},
                      !.body = IF BodyKept(db, event)
                               THEN @ \cup {event.id} ELSE @,
                      !.arrival[event.id] = ArrivalOf(db, event.id)])
  /\ phase' = "commit"
  /\ UNCHANGED <<event, todo, poisoned, done, tried>>

Return == phase' = "idle" /\ event' = None /\ todo' = NoEdges

Commit ==
  /\ phase = "commit"
  /\ disk' = db
  /\ poisoned' = FALSE
  /\ done' = done \cup {event}
  /\ Return
  /\ UNCHANGED <<db, tried>>

(* A write or the commit fails; the rollback succeeds (a no-op where there *)
(* is no transaction) and the store is usable again.                       *)
FailRolledBack ==
  /\ phase # "idle"
  /\ db' = IF transactional THEN disk ELSE db
  /\ poisoned' = FALSE
  /\ Return
  /\ UNCHANGED <<disk, done, tried>>

(* The rollback fails too, or the backend panics: the store stays poisoned *)
(* with the writes so far in it.                                           *)
FailPoisoned ==
  /\ phase # "idle"
  /\ Return
  /\ UNCHANGED <<db, disk, poisoned, done, tried>>

(* The process ends, anywhere, and starts again on what is on disk. *)
Restart ==
  /\ phase # "idle" \/ poisoned
  /\ db' = disk
  /\ poisoned' = FALSE
  /\ Return
  /\ UNCHANGED <<disk, done, tried>>

Next ==
  /\ \/ \E e \in Event : Begin(e)
     \/ RecordRedaction \/ RemoveEdge \/ ForgetBody
     \/ DecideBody \/ AddEdge \/ PutRow \/ Commit
     \/ FailRolledBack \/ FailPoisoned \/ Restart
  /\ UNCHANGED transactional

Spec == Init /\ [][Next]_vars

-----------------------------------------------------------------------------
(* Transactional backends: a failed ingest "never happened" *)

\* A backend without transactions promises none of this: it maps to no ingest.
Durable == IF transactional THEN disk ELSE EmptyStore
Acknowledged == IF transactional THEN done ELSE {}

CS == INSTANCE ClaimStore WITH
        Replica <- {"here"},
        store <- [r \in {"here"} |-> Durable],
        seen <- [r \in {"here"} |-> Acknowledged]

(***************************************************************************)
(* What survives moves from one canonical state to the next in single      *)
(* steps: the writes of ingest_inner, faults and crashes included,         *)
(* implement the atomic ingest.                                            *)
(***************************************************************************)
Atomic == CS!StoreSpec

\* No call that passes guard() may run on an ingest's partial writes.
Usable == phase = "idle" /\ ~poisoned

(***************************************************************************)
(* A store that answers queries holds exactly what is durable: no debris   *)
(* of a failed ingest is ever served (tests/robustness.rs:281-287).        *)
(***************************************************************************)
ZeroDebris == Usable => db = disk

-----------------------------------------------------------------------------
(* Backends without transactions: redelivery *)

\* Every event ever tried is delivered once more, without faults.
Redelivered == IngestAll(db, SetToSeq(tried))

(***************************************************************************)
(* However an ingest was cut short, redelivery rebuilds the rows and the   *)
(* redactions of a store that never failed (store.rs:191-193).             *)
(***************************************************************************)
RowsHeal ==
  Usable => RowsRight(Redelivered, tried)

(***************************************************************************)
(* The index never loses an edge of a body that is served, at any point of *)
(* any crash: blobs it pins are not garbage, backlinks find it.            *)
(* (Only apply_redaction may be halfway through taking edges away.)        *)
(***************************************************************************)
EdgesKept ==
  Usable => \A c \in db.body :
    \/ LinksOf(c) \subseteq db.links /\ PinsOf(c) \subseteq db.pins
    \/ RedactTarget[c] = None /\ db.redaction[c] # None
=============================================================================
