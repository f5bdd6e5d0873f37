----------------------------- MODULE RelayProofs -----------------------------
(***************************************************************************)
(* Theorems about the relay.  RelayMailbox, for any clients, keys, drafts  *)
(* and bounds: what the server owes its disk, its permits and the author   *)
(* of the log.  RetentionStore, for any claims, blobs, ages and retention: *)
(* what purges and sweeps leave exact.                                     *)
(***************************************************************************)
EXTENDS RelayMailbox, RetentionStore, ClaimOpsProofs


-----------------------------------------------------------------------------
(* RelayMailbox: operators on the state *)

\* Whoever publishes, publishes posts of this log that it holds.
LEMMA AdmittedType ==
  ASSUME TypeOK, NEW c \in Client
  PROVE  /\ Admitted(c) \subseteq Post \cap Ours
         /\ Admitted(c) \subseteq has[c]
         /\ Admitted(c) # {} => publisher[c]
BY DEF TypeOK, Admitted, Offers

LEMMA FramedType ==
  ASSUME TypeOK, NEW c \in Client, NEW new \in SUBSET Post
  PROVE  /\ Framed(c, new) \in [Client -> SUBSET Post]
         /\ \A d \in Client : has[d] \subseteq Framed(c, new)[d]
         /\ \A d \in Client : Framed(c, new)[d] \subseteq has[d] \cup new
BY DEF TypeOK, Framed

LEMMA CloseType ==
  ASSUME TypeOK, NEW c \in Client, Close(c)
  PROVE  /\ phase' \in [Client -> Phases]
         /\ publisher' \in [Client -> BOOLEAN]
         /\ watched' \subseteq Client
         /\ permits' \in Nat
BY DEF TypeOK, Close, Phases

-----------------------------------------------------------------------------
(* Types *)

LEMMA InitType == Init => TypeOK
<1> SUFFICES ASSUME Init PROVE TypeOK
  OBVIOUS
<1>1. publisher \in [Client -> BOOLEAN]
  BY Zenon DEF Init
<1>2. permits \in Nat /\ restarts \in 0 .. MaxRestarts
        /\ breaks \in 0 .. MaxBreaks /\ purges \in 0 .. MaxPurges
  BY RelayAssumption DEF Init
<1> QED BY <1>1, <1>2 DEF Init, TypeOK, Phases

LEMMA NextType == TypeOK /\ [Next]_vars => TypeOK'
<1> SUFFICES ASSUME TypeOK, [Next]_vars PROVE TypeOK'
  OBVIOUS
<1> USE RelayAssumption DEF mailbox, clients, env
<1>1. ASSUME NEW c \in Client, Dial(c) PROVE TypeOK'
  BY <1>1 DEF Dial, Moves, TypeOK, Phases
<1>2. ASSUME NEW c \in Client, Hello(c) PROVE TypeOK'
  BY <1>2 DEF Hello, Moves, TypeOK, Phases
<1>3. ASSUME NEW c \in Client, Prove(c) PROVE TypeOK'
  <2>1. CASE c \in Keyed
    BY <1>3, <2>1 DEF Prove, TypeOK, Phases
  <2>2. CASE c \notin Keyed
    BY <1>3, <2>2, CloseType DEF Prove, TypeOK
  <2> QED BY <2>1, <2>2
<1>4. ASSUME NEW c \in Client, OpenExisting(c) PROVE TypeOK'
  BY <1>4 DEF OpenExisting, Opened, Moves, TypeOK, Phases
<1>5. ASSUME NEW c \in Client, StayDormant(c) PROVE TypeOK'
  BY <1>5 DEF StayDormant, Moves, TypeOK, Phases
<1>6. ASSUME NEW c \in Client, DormantSession(c) PROVE TypeOK'
  BY <1>6 DEF DormantSession, TypeOK
<1>7. ASSUME NEW c \in Client, Materialize(c) PROVE TypeOK'
  <2>1. Admitted(c) \subseteq Post
    BY AdmittedType
  <2>2. has' \in [Client -> SUBSET Post]
    BY <1>7, <2>1, FramedType DEF Materialize
  <2> QED BY <1>7, <2>1, <2>2 DEF Materialize, Opened, Moves, TypeOK, Phases
<1>8. ASSUME NEW c \in Client, Session(c) PROVE TypeOK'
  <2>1. Admitted(c) \subseteq Post
    BY AdmittedType
  <2>2. has' \in [Client -> SUBSET Post]
    BY <1>8, <2>1, FramedType DEF Session, TypeOK
  <2> QED BY <1>8, <2>1, <2>2 DEF Session, TypeOK
<1>9. ASSUME NEW c \in Client, OpenFails(c) PROVE TypeOK'
  BY <1>9, CloseType DEF OpenFails, TypeOK
<1>10. ASSUME NEW c \in Client, Break(c) PROVE TypeOK'
  BY <1>10, CloseType DEF Break, TypeOK
<1>11. ASSUME NEW c \in Client, NEW p \in Post, Write(c, p) PROVE TypeOK'
  BY <1>11 DEF Write, Connected, TypeOK
<1>12. CASE Restart
  BY <1>12 DEF Restart, TypeOK, Phases
<1>13. CASE SweepOpen
  BY <1>13 DEF SweepOpen, TypeOK
<1>14. ASSUME NEW old \in SUBSET posts, SweepLive(old) PROVE TypeOK'
  BY <1>14 DEF SweepLive, TypeOK
<1>15. ASSUME NEW old \in SUBSET posts, SweepDirect(old) PROVE TypeOK'
  BY <1>15 DEF SweepDirect, TypeOK
<1>16. CASE UNCHANGED vars
  BY <1>16 DEF vars, TypeOK
<1> QED
  BY <1>1, <1>2, <1>3, <1>4, <1>5, <1>6, <1>7, <1>8, <1>9, <1>10, <1>11,
     <1>12, <1>13, <1>14, <1>15, <1>16 DEF Next, Steps

(***************************************************************************)
(* Every variable keeps its type; in particular the server never lends     *)
(* more permits than it has.                                               *)
(***************************************************************************)
THEOREM RelayTyped == Spec => []TypeOK
<1>1. Init => TypeOK
  BY InitType
<1>2. TypeOK /\ [Next]_vars => TypeOK'
  BY NextType
<1> QED BY <1>1, <1>2, PTL DEF Spec
-----------------------------------------------------------------------------
(* Who publishes, and what *)

\* The verdict on a connection is as good as the key behind it.
Proven ==
  \A c \in Client : /\ phase[c] = "proof" => c \in Asks
                    /\ publisher[c] => c \in Keyed \cap Asks

LEMMA ProvenInductive ==
  ASSUME TypeOK, Proven, [Next]_vars
  PROVE  Proven'
<1> USE DEF mailbox, clients, env, Proven
<1>1. ASSUME NEW c \in Client, Dial(c) PROVE Proven'
  BY <1>1 DEF Dial, Moves, TypeOK
<1>2. ASSUME NEW c \in Client, Hello(c) PROVE Proven'
  BY <1>2 DEF Hello, Moves, TypeOK
<1>3. ASSUME NEW c \in Client, Prove(c) PROVE Proven'
  BY <1>3 DEF Prove, Close, TypeOK
<1>4. ASSUME NEW c \in Client, OpenExisting(c) PROVE Proven'
  BY <1>4 DEF OpenExisting, Moves, TypeOK
<1>5. ASSUME NEW c \in Client, StayDormant(c) PROVE Proven'
  BY <1>5 DEF StayDormant, Moves, TypeOK
<1>6. ASSUME NEW c \in Client, Materialize(c) PROVE Proven'
  BY <1>6 DEF Materialize, Moves, TypeOK
<1>7. ASSUME NEW c \in Client, OpenFails(c) \/ Break(c) PROVE Proven'
  BY <1>7 DEF OpenFails, Break, Close, TypeOK
<1>8. CASE Restart
  BY <1>8 DEF Restart
<1>9. CASE UNCHANGED <<phase, publisher>>
  BY <1>9
<1>10. ASSUME NEW c \in Client,
              DormantSession(c) \/ Session(c) \/ \E p \in Post : Write(c, p)
       PROVE  UNCHANGED <<phase, publisher>>
  BY <1>10 DEF DormantSession, Session, Write
<1>11. ASSUME NEW old \in SUBSET posts, SweepOpen \/ SweepLive(old) \/ SweepDirect(old)
       PROVE  UNCHANGED <<phase, publisher>>
  BY <1>11 DEF SweepOpen, SweepLive, SweepDirect
<1>12. CASE SweepOpen
  BY <1>12 DEF SweepOpen
<1>13. CASE UNCHANGED vars
  BY <1>13 DEF vars
<1> QED
  BY <1>1, <1>2, <1>3, <1>4, <1>5, <1>6, <1>7, <1>8, <1>9, <1>10, <1>11,
     <1>12, <1>13 DEF Next, Steps

\* What the holders of the key wrote for this log.
Owned == (UNION {Drafts[c] : c \in Keyed}) \cap Ours

LEMMA AdmittedOwned ==
  ASSUME TypeOK, Proven, OnlyOwners, NEW c \in Client
  PROVE  Admitted(c) \subseteq Owned
<1>1. CASE ~publisher[c]
  BY <1>1 DEF Admitted
<1>2. CASE publisher[c]
  <2>1. c \in Keyed
    BY <1>2 DEF Proven
  <2>2. Drafts[c] \cap Ours \subseteq Owned
    BY <2>1 DEF Owned
  <2>3. has[c] \subseteq Owned \cup Drafts[c]
    BY DEF OnlyOwners, Owned
  <2> QED BY <2>2, <2>3, AdmittedType
<1> QED BY <1>1, <1>2 DEF TypeOK

LEMMA OnlyOwnersInductive ==
  ASSUME TypeOK, Proven, OnlyOwners, [Next]_vars
  PROVE  OnlyOwners'
<1>1. /\ posts \subseteq Owned
      /\ \A c \in Client : has[c] \subseteq Owned \cup Drafts[c]
  BY DEF OnlyOwners, Owned
<1>2. SUFFICES /\ posts' \subseteq Owned
               /\ \A d \in Client : has'[d] \subseteq Owned \cup Drafts[d]
  BY DEF OnlyOwners, Owned
<1>3. ASSUME NEW c \in Client
      PROVE  /\ Admitted(c) \in SUBSET Post
             /\ posts \cup Admitted(c) \subseteq Owned
             /\ \A d \in Client : Framed(c, Admitted(c))[d] \subseteq Owned \cup Drafts[d]
  BY <1>1, AdmittedType, AdmittedOwned, FramedType
<1>4. ASSUME NEW c \in Client, Materialize(c)
      PROVE  /\ posts' \subseteq Owned
             /\ \A d \in Client : has'[d] \subseteq Owned \cup Drafts[d]
  BY <1>3, <1>4 DEF Materialize
<1>5. ASSUME NEW c \in Client, Session(c)
      PROVE  /\ posts' \subseteq Owned
             /\ \A d \in Client : has'[d] \subseteq Owned \cup Drafts[d]
  <2>1. Framed(c, Admitted(c)) \in [Client -> SUBSET Post]
    BY <1>3, FramedType
  <2>2. \A d \in Client : has'[d] \subseteq Framed(c, Admitted(c))[d] \cup posts
    BY <1>5, <2>1 DEF Session
  <2> QED BY <1>1, <1>3, <1>5, <2>2 DEF Session
<1>6. ASSUME NEW c \in Client, NEW p \in Post, Write(c, p)
      PROVE  /\ posts' \subseteq Owned
             /\ \A d \in Client : has'[d] \subseteq Owned \cup Drafts[d]
  BY <1>1, <1>6 DEF Write, mailbox, TypeOK
<1>7. ASSUME NEW old \in SUBSET posts, SweepLive(old) \/ SweepDirect(old)
      PROVE  posts' \subseteq posts /\ has' = has
  BY <1>7 DEF SweepLive, SweepDirect, clients
<1>8. ASSUME NEW c \in Client,
             Dial(c) \/ Hello(c) \/ Prove(c) \/ OpenExisting(c) \/ StayDormant(c)
               \/ DormantSession(c) \/ OpenFails(c) \/ Break(c)
      PROVE  UNCHANGED <<posts, has>>
  BY <1>8 DEF Dial, Hello, Prove, OpenExisting, StayDormant, DormantSession,
              OpenFails, Break, mailbox, clients
<1>9. CASE Restart \/ SweepOpen \/ UNCHANGED vars
  BY <1>1, <1>9 DEF Restart, SweepOpen, clients, vars
<1> QED
  BY <1>1, <1>4, <1>5, <1>6, <1>7, <1>8, <1>9 DEF Next, Steps

-----------------------------------------------------------------------------
(* What the mailbox costs *)

LEMMA DiskEarnedInductive ==
  ASSUME TypeOK, Proven, DiskEarned, [Next]_vars
  PROVE  DiskEarned'
<1>1. \A d \in Client : has[d] \subseteq has'[d]
  <2>1. ASSUME NEW c \in Client, Materialize(c)
        PROVE  \A d \in Client : has[d] \subseteq has'[d]
    BY <2>1, AdmittedType, FramedType DEF Materialize
  <2>2. ASSUME NEW c \in Client, Session(c)
        PROVE  \A d \in Client : has[d] \subseteq has'[d]
    <3>1. Admitted(c) \in SUBSET Post
      BY AdmittedType
    <3> QED BY <2>2, <3>1, FramedType DEF Session
  <2>3. ASSUME NEW c \in Client, NEW p \in Post, Write(c, p)
        PROVE  \A d \in Client : has[d] \subseteq has'[d]
    BY <2>3 DEF Write, TypeOK
  <2>4. ASSUME NEW c \in Client,
               Dial(c) \/ Hello(c) \/ Prove(c) \/ OpenExisting(c) \/ StayDormant(c)
                 \/ DormantSession(c) \/ OpenFails(c) \/ Break(c)
        PROVE  has' = has
    BY <2>4 DEF Dial, Hello, Prove, OpenExisting, StayDormant, DormantSession,
                OpenFails, Break, clients
  <2>5. ASSUME NEW old \in SUBSET posts, SweepLive(old) \/ SweepDirect(old)
        PROVE  has' = has
    BY <2>5 DEF SweepLive, SweepDirect, clients
  <2>6. CASE Restart \/ SweepOpen \/ UNCHANGED vars
    BY <2>6 DEF Restart, SweepOpen, clients, vars
  <2> QED BY <2>1, <2>2, <2>3, <2>4, <2>5, <2>6 DEF Next, Steps
<1>2. CASE \E c \in Client : Materialize(c)
  <2>1. PICK c \in Client : Materialize(c)
    BY <1>2
  <2>2. c \in Keyed \cap Asks /\ has[c] \cap Ours # {}
    BY <2>1, AdmittedType DEF Materialize, Proven
  <2> QED BY <1>1, <2>2 DEF DiskEarned
<1>3. CASE ~\E c \in Client : Materialize(c)
  <2>1. disk' = disk
    <3>1. ASSUME NEW c \in Client,
                 Dial(c) \/ Hello(c) \/ Prove(c) \/ StayDormant(c) \/ DormantSession(c)
                   \/ Session(c) \/ OpenFails(c) \/ Break(c)
          PROVE  disk' = disk
      BY <3>1 DEF Dial, Hello, Prove, StayDormant, DormantSession, Session, OpenFails,
                  Break, mailbox
    <3>2. ASSUME NEW c \in Client, OpenExisting(c) PROVE disk' = disk
      BY <3>2 DEF OpenExisting, Opened, TypeOK
    <3>3. ASSUME NEW c \in Client, NEW p \in Post, Write(c, p) PROVE disk' = disk
      BY <3>3 DEF Write, mailbox
    <3>4. ASSUME NEW old \in SUBSET posts, SweepLive(old) \/ SweepDirect(old)
          PROVE  disk' = disk
      BY <3>4 DEF SweepLive, SweepDirect
    <3>5. CASE Restart \/ SweepOpen \/ UNCHANGED vars
      BY <3>5 DEF Restart, SweepOpen, vars
    <3> QED BY <1>3, <3>1, <3>2, <3>3, <3>4, <3>5 DEF Next, Steps
  <2> QED BY <1>1, <2>1, RelayAssumption DEF DiskEarned
<1> QED BY <1>2, <1>3

LEMMA OneActorInductive ==
  ASSUME TypeOK, OneActor, [Next]_vars
  PROVE  OneActor'
<1> USE DEF OneActor, mailbox, clients, env
<1>1. ASSUME NEW c \in Client, OpenExisting(c) \/ Materialize(c) PROVE OneActor'
  BY <1>1 DEF OpenExisting, Materialize, Opened, Moves, TypeOK
<1>2. ASSUME NEW c \in Client, Dial(c) \/ Hello(c) \/ StayDormant(c) PROVE OneActor'
  BY <1>2 DEF Dial, Hello, StayDormant, Moves, TypeOK
<1>3. ASSUME NEW c \in Client, Prove(c) PROVE OneActor'
  BY <1>3 DEF Prove, Close, TypeOK
<1>4. ASSUME NEW c \in Client, OpenFails(c) \/ Break(c) PROVE OneActor'
  BY <1>4 DEF OpenFails, Break, Close, TypeOK
<1>5. CASE Restart
  BY <1>5 DEF Restart
<1>6. CASE UNCHANGED <<phase, disk, actors>>
  BY <1>6
<1>7. ASSUME NEW c \in Client,
             DormantSession(c) \/ Session(c) \/ \E p \in Post : Write(c, p)
      PROVE  UNCHANGED <<phase, disk, actors>>
  BY <1>7 DEF DormantSession, Session, Write
<1>8. ASSUME NEW old \in SUBSET posts, SweepLive(old) \/ SweepDirect(old)
      PROVE  UNCHANGED <<phase, disk, actors>>
  BY <1>8 DEF SweepLive, SweepDirect
<1>9. CASE SweepOpen
  BY <1>9 DEF SweepOpen
<1>10. CASE UNCHANGED vars
  BY <1>10 DEF vars
<1> QED
  BY <1>1, <1>2, <1>3, <1>4, <1>5, <1>6, <1>7, <1>8, <1>9, <1>10 DEF Next, Steps

LEMMA PermitsKeptInductive ==
  ASSUME TypeOK, PermitsKept, [Next]_vars
  PROVE  PermitsKept'
<1>1. IsFiniteSet(Connected) /\ Cardinality(Connected) \in Nat
  BY RelayAssumption, FS_Subset, FS_CardinalityType DEF Connected
<1>2. ASSUME NEW c \in Client, Dial(c) PROVE PermitsKept'
  <2>1. Connected' = Connected \cup {c} /\ c \notin Connected
    BY <1>2 DEF Dial, Moves, Connected, TypeOK
  <2>2. Cardinality(Connected') = Cardinality(Connected) + 1
    BY <1>1, <2>1, FS_AddElement
  <2> QED BY <1>1, <1>2, <2>2, RelayAssumption DEF Dial, PermitsKept, TypeOK
<1>3. ASSUME NEW c \in Client, phase[c] # "away", Close(c) PROVE PermitsKept'
  <2>1. Connected' = Connected \ {c} /\ c \in Connected
    BY <1>3 DEF Close, Connected, TypeOK
  <2>2. Cardinality(Connected') = Cardinality(Connected) - 1
    BY <1>1, <2>1, FS_RemoveElement
  <2> QED BY <1>1, <1>3, <2>2, RelayAssumption DEF Close, PermitsKept, TypeOK
<1>4. ASSUME NEW c \in Client, NEW to \in Phases \ {"away"},
             phase[c] # "away", phase' = [phase EXCEPT ![c] = to], permits' = permits
      PROVE  PermitsKept'
  <2>1. Connected' = Connected
    BY <1>4 DEF Connected, TypeOK
  <2> QED BY <1>4, <2>1 DEF PermitsKept
<1>5. CASE UNCHANGED <<phase, permits>>
  BY <1>5 DEF PermitsKept, Connected
<1>6. ASSUME NEW c \in Client,
             Hello(c) \/ OpenExisting(c) \/ StayDormant(c) \/ Materialize(c)
      PROVE  PermitsKept'
  <2>1. \E to \in Phases \ {"away"} :
          phase[c] # "away" /\ phase' = [phase EXCEPT ![c] = to] /\ permits' = permits
    BY <1>6 DEF Hello, OpenExisting, StayDormant, Materialize, Moves, Phases
  <2> QED BY <1>4, <2>1
<1>7. ASSUME NEW c \in Client, Prove(c) PROVE PermitsKept'
  <2>1. CASE c \in Keyed
    BY <1>4, <1>7, <2>1 DEF Prove, Phases
  <2>2. CASE c \notin Keyed
    BY <1>3, <1>7, <2>2 DEF Prove
  <2> QED BY <2>1, <2>2
<1>8. ASSUME NEW c \in Client, OpenFails(c) \/ Break(c) PROVE PermitsKept'
  BY <1>3, <1>8 DEF OpenFails, Break, Connected
<1>9. CASE Restart
  <2>1. Connected' = {} /\ permits' = MaxConns
    BY <1>9 DEF Restart, Connected
  <2> QED BY <2>1, FS_EmptySet, RelayAssumption DEF PermitsKept
<1>10. ASSUME NEW c \in Client,
              DormantSession(c) \/ Session(c) \/ \E p \in Post : Write(c, p)
       PROVE  UNCHANGED <<phase, permits>>
  BY <1>10 DEF DormantSession, Session, Write
<1>11. ASSUME NEW old \in SUBSET posts, SweepLive(old) \/ SweepDirect(old)
       PROVE  UNCHANGED <<phase, permits>>
  BY <1>11 DEF SweepLive, SweepDirect
<1>12. CASE SweepOpen \/ UNCHANGED vars
  BY <1>5, <1>12 DEF SweepOpen, vars
<1> QED
  BY <1>2, <1>5, <1>6, <1>7, <1>8, <1>9, <1>10, <1>11, <1>12 DEF Next, Steps

-----------------------------------------------------------------------------
(* The inductive invariant, and what follows from it *)

Inv == TypeOK /\ Proven /\ OnlyOwners /\ DiskEarned /\ OneActor /\ PermitsKept

LEMMA Inductive == Spec => []Inv
<1>1. Init => Inv
  <2> SUFFICES ASSUME Init PROVE Inv
    OBVIOUS
  <2>1. TypeOK
    BY InitType
  <2>2. Proven /\ OnlyOwners /\ DiskEarned /\ OneActor
    BY DEF Init, Proven, OnlyOwners, DiskEarned, OneActor
  <2>3. Connected = {}
    BY DEF Init, Connected
  <2>4. PermitsKept
    BY <2>3, FS_EmptySet, RelayAssumption DEF Init, PermitsKept
  <2> QED BY <2>1, <2>2, <2>4 DEF Inv
<1>2. Inv /\ [Next]_vars => Inv'
  BY NextType, ProvenInductive, OnlyOwnersInductive, DiskEarnedInductive,
     OneActorInductive, PermitsKeptInductive DEF Inv
<1> QED BY <1>1, <1>2, PTL DEF Spec

(***************************************************************************)
(* A directory exists only after somebody who asked for the right to       *)
(* publish and proved the key had something of this log to publish         *)
(* (bridge.rs, dormant_phase).                                             *)
(***************************************************************************)
THEOREM DiskIsEarned == Spec => []DiskEarned
<1>1. Inv => DiskEarned
  BY DEF Inv
<1> QED BY <1>1, Inductive, PTL

(***************************************************************************)
(* However connections race to open or create the mailbox, one actor owns  *)
(* it and the live connections are on it (registry.rs).                    *)
(***************************************************************************)
THEOREM ActorIsOne == Spec => []OneActor
<1>1. Inv => OneActor
  BY DEF Inv
<1> QED BY <1>1, Inductive, PTL

(***************************************************************************)
(* The mailbox holds claims of its log written by holders of its key, and  *)
(* nobody learns anything else there (bridge.rs, live_phase).              *)
(***************************************************************************)
THEOREM OnlyOwnersPublish == Spec => []OnlyOwners
<1>1. Inv => OnlyOwners
  BY DEF Inv
<1> QED BY <1>1, Inductive, PTL

(***************************************************************************)
(* Permits and connections add up, whatever ended a connection (main.rs,   *)
(* accept_loop).                                                           *)
(***************************************************************************)
THEOREM PermitsReturn == Spec => []PermitsKept
<1>1. Inv => PermitsKept
  BY DEF Inv
<1> QED BY <1>1, Inductive, PTL

-----------------------------------------------------------------------------
(* RetentionStore *)

RetentionInv == RetentionTypeOK /\ IsFiniteSet(store.held) /\ IndexStaysExact

LEMMA RetentionInitInv == RetentionInit => RetentionInv
<1> SUFFICES ASSUME RetentionInit PROVE RetentionInv
  OBVIOUS
<1>1. RetentionTypeOK
  BY EmptyStoreType, RetentionAssumption DEF RetentionInit, RetentionTypeOK
<1>2. store.held = {} /\ store.body = {} /\ store.links = {} /\ store.pins = {}
  BY DEF RetentionInit, EmptyStore
<1>3. IndexStaysExact
  BY <1>2 DEF IndexStaysExact, IndexAgrees, BodiesForgotten
<1> QED BY <1>1, <1>2, <1>3, FS_EmptySet DEF RetentionInv

\* Purging rows with their own edges.
LEMMA PurgeTables ==
  ASSUME NEW s \in Store, NEW gone \in SUBSET s.held,
         IsFiniteSet(s.held), IndexAgrees(s), BodiesForgotten(s)
  PROVE  LET p == PurgeRows(s, gone)
         IN  p \in Store /\ IsFiniteSet(p.held) /\ IndexAgrees(p) /\ BodiesForgotten(p)
<1> DEFINE p == PurgeRows(s, gone)
<1>1. /\ p \in Store
      /\ p.held = s.held \ gone /\ p.body = s.body \ gone
      /\ p.links = {l \in s.links : l[2] \notin gone}
      /\ p.pins = {l \in s.pins : l[2] \notin gone}
      /\ \A t \in Claim : p.redaction[t] \in {s.redaction[t], None}
  BY ClaimsAssumption DEF PurgeRows, Store
<1>2. IsFiniteSet(p.held)
  BY <1>1, FS_Subset
<1>3. \A c \in Claim : /\ \A l \in LinksOf(c) : l[2] = c
                       /\ \A l \in PinsOf(c) : l[2] = c
  BY DEF LinksOf, PinsOf
<1>4. s.body \subseteq Claim
  BY DEF Store
<1>5. p.links = UNION {LinksOf(c) : c \in s.body \ gone}
  BY <1>1, <1>3, <1>4 DEF IndexAgrees
<1>6. p.pins = UNION {PinsOf(c) : c \in s.body \ gone}
  BY <1>1, <1>3, <1>4 DEF IndexAgrees
<1>7. BodiesForgotten(p)
  BY <1>1, <1>4 DEF BodiesForgotten
<1> QED BY <1>1, <1>2, <1>5, <1>6, <1>7 DEF IndexAgrees

LEMMA RetentionNextInv ==
  RetentionInv /\ [RetentionNext]_retentionVars => RetentionInv'
<1> SUFFICES ASSUME RetentionInv, [RetentionNext]_retentionVars
             PROVE  RetentionInv'
  OBVIOUS
<1> USE RetentionAssumption
<1>1. CASE Tick
  BY <1>1 DEF Tick, RetentionInv, RetentionTypeOK, IndexStaysExact
<1>2. ASSUME NEW e \in Event, IngestEvent(e) PROVE RetentionInv'
  <2>1. /\ store' \in Store /\ IsFiniteSet(store'.held) /\ IndexAgrees(store')
        /\ BodiesForgotten(store')
    BY <1>2, IngestTables, IngestForgets
       DEF IngestEvent, RetentionInv, RetentionTypeOK, IndexStaysExact
  <2>2. received' \in [Claim -> 0 .. MaxTime] /\ UNCHANGED <<blobs, now>>
    BY <1>2 DEF IngestEvent, RetentionInv, RetentionTypeOK, Event
  <2> QED BY <2>1, <2>2 DEF RetentionInv, RetentionTypeOK, IndexStaysExact
<1>3. ASSUME NEW b \in Blob, IngestBlob(b) \/ EvictBlob(b) PROVE RetentionInv'
  BY <1>3 DEF IngestBlob, EvictBlob, RetentionInv, RetentionTypeOK, IndexStaysExact
<1>4. CASE GcClaims
  <2> DEFINE gone == {c \in store.held : received[c] < now - Retention}
  <2>1. /\ store' = PurgeRows(store, gone)
        /\ received' = [c \in Claim |-> IF c \in gone THEN 0 ELSE received[c]]
        /\ UNCHANGED <<blobs, now>>
    BY <1>4 DEF GcClaims, PurgeOlderThan
  <2>2. gone \in SUBSET store.held
    OBVIOUS
  <2> HIDE DEF gone
  <2>3. /\ store' \in Store /\ IsFiniteSet(store'.held) /\ IndexAgrees(store')
        /\ BodiesForgotten(store')
    BY <2>1, <2>2, PurgeTables DEF RetentionInv, RetentionTypeOK, IndexStaysExact
  <2>4. received' \in [Claim -> 0 .. MaxTime]
    BY <2>1 DEF RetentionInv, RetentionTypeOK
  <2> QED BY <2>1, <2>3, <2>4 DEF RetentionInv, RetentionTypeOK, IndexStaysExact
<1>5. CASE GcBlobs
  BY <1>5 DEF GcBlobs, RetentionInv, RetentionTypeOK, IndexStaysExact
<1>6. CASE UNCHANGED retentionVars
  BY <1>6 DEF retentionVars, RetentionInv, RetentionTypeOK, IndexStaysExact
<1> QED BY <1>1, <1>2, <1>3, <1>4, <1>5, <1>6 DEF RetentionNext

LEMMA RetentionInvariance == RetentionSpec => []RetentionInv
BY RetentionInitInv, RetentionNextInv, PTL DEF RetentionSpec

-----------------------------------------------------------------------------
(***************************************************************************)
(* The relay's tables, stamps and clock keep their types.                  *)
(***************************************************************************)
THEOREM RetentionTyped == RetentionSpec => []RetentionTypeOK
<1>1. RetentionInv => RetentionTypeOK
  BY DEF RetentionInv
<1> QED BY <1>1, RetentionInvariance, PTL

(***************************************************************************)
(* Whatever is ingested, redacted and purged, in any order, the two index  *)
(* tables hold exactly the edges of the bodies kept, and no redacted       *)
(* speech keeps one (purge_older_than).                                    *)
(***************************************************************************)
THEOREM IndexIsExact == RetentionSpec => []IndexStaysExact
<1>1. RetentionInv => IndexStaysExact
  BY DEF RetentionInv
<1> QED BY <1>1, RetentionInvariance, PTL

(***************************************************************************)
(* The blob sweep never takes bytes that a live body pins, because the     *)
(* index it reads is exact (BlobStore::gc).                                *)
(***************************************************************************)
THEOREM SweepKeepsPinned == RetentionSpec => PinnedBlobsKept
<1>1. RetentionInv /\ [RetentionNext]_retentionVars
        => [GcBlobs => blobs \cap PinnedBlobs \subseteq blobs']_retentionVars
  <2> SUFFICES ASSUME RetentionInv, GcBlobs
               PROVE  blobs \cap PinnedBlobs \subseteq blobs'
    OBVIOUS
  <2>1. ASSUME NEW b \in PinnedBlobs PROVE b \in ReferencedBlobs(store)
    <3>1. PICK c \in store.body : b \in Pins[c]
      BY <2>1 DEF PinnedBlobs
    <3>2. <<b, c>> \in store.pins
      BY <3>1 DEF RetentionInv, IndexStaysExact, IndexAgrees, PinsOf
    <3>3. <<b, c>>[1] = b
      OBVIOUS
    <3> QED BY <3>2, <3>3 DEF ReferencedBlobs
  <2> QED BY <2>1 DEF GcBlobs
<1> QED BY <1>1, RetentionInvariance, PTL DEF RetentionSpec, PinnedBlobsKept
=============================================================================
