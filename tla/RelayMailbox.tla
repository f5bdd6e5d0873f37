---------------------------- MODULE RelayMailbox ----------------------------
(***************************************************************************)
(* One mailbox of the relay server (vouch-relay-server): the connections   *)
(* that address it (bridge.rs), the registry that opens and creates it     *)
(* (registry.rs), the hourly sweep (main.rs), and the clients that dial    *)
(* again whenever their connection ends (vouch-transport).                 *)
(*                                                                         *)
(* A connection takes a permit, says hello, proves the key if it wants to  *)
(* publish, then looks for the mailbox: it goes live on its actor, or is   *)
(* answered dormant until it publishes.  Between these steps other         *)
(* connections take theirs, and the server may restart.  A session with    *)
(* the actor, which PeerNode takes apart, is one step here.                *)
(***************************************************************************)
EXTENDS Integers, FiniteSets

CONSTANTS
  Client,       \* who addresses the mailbox
  Asks,         \* those that say hello with publish intent
  Keyed,        \* those that possess the log's key
  Post,         \* claims of the mailbox's log, and claims of others
  Ours,         \* the posts of the mailbox's log
  Drafts,       \* what each client would publish: [Client -> SUBSET Post]
  MaxConns,     \* VOUCH_RELAY_MAX_CONNS
  MaxRestarts,  \* bound: how often the server restarts
  MaxBreaks,    \* bound: how often a connection breaks
  MaxPurges     \* bound: how often the sweep finds something old

ASSUME RelayAssumption ==
  /\ Asks \subseteq Client /\ Keyed \subseteq Client
  /\ Ours \subseteq Post
  /\ Drafts \in [Client -> SUBSET Post]
  /\ IsFiniteSet(Client)
  /\ MaxConns \in Nat \ {0}
  /\ MaxRestarts \in Nat /\ MaxBreaks \in Nat /\ MaxPurges \in Nat

VARIABLES
  phase,      \* where each client's connection is
  publisher,  \* serve_connection's verdict on each connection
  permits,    \* the semaphore
  disk,       \* does the mailbox's directory exist?
  actors,     \* Peers running on it: the registry's map, and any it forgot
  posts,      \* the claims in the mailbox
  watched,    \* connections whose Watch the actor has
  has,        \* what each client holds of the log
  behind,     \* clients whose next session is due (Pipe.dirty)
  sweep,      \* the sweep: "idle", or opening the database "directly"
  restarts, breaks, purges   \* counters of the bounds

vars == <<phase, publisher, permits, disk, actors, posts, watched, has,
          behind, sweep, restarts, breaks, purges>>

mailbox == <<disk, actors, posts, sweep, purges>>
clients == <<has, behind>>
env == <<restarts, breaks>>

Phases == {"away", "hello", "proof", "seek", "dormant", "live"}

TypeOK ==
  /\ phase \in [Client -> Phases]
  /\ publisher \in [Client -> BOOLEAN]
  /\ permits \in Nat
  /\ disk \in BOOLEAN /\ actors \in Nat
  /\ posts \subseteq Post /\ watched \subseteq Client
  /\ has \in [Client -> SUBSET Post]
  /\ behind \subseteq Client
  /\ sweep \in {"idle", "direct"}
  /\ restarts \in 0 .. MaxRestarts /\ breaks \in 0 .. MaxBreaks
  /\ purges \in 0 .. MaxPurges

Init ==
  /\ phase = [c \in Client |-> "away"]
  /\ publisher = [c \in Client |-> FALSE]
  /\ permits = MaxConns
  /\ disk = FALSE /\ actors = 0 /\ posts = {} /\ watched = {}
  /\ has = [c \in Client |-> {}]
  /\ behind = {}
  /\ sweep = "idle"
  /\ restarts = 0 /\ breaks = 0 /\ purges = 0

Connected == {c \in Client : phase[c] # "away"}

-----------------------------------------------------------------------------
(* A connection, up to the mailbox *)

Moves(c, from, to) ==
  /\ phase[c] = from
  /\ phase' = [phase EXCEPT ![c] = to]

\* serve_connection returns: the permit is released, the actor drops the pipe.
Close(c) ==
  /\ phase' = [phase EXCEPT ![c] = "away"]
  /\ publisher' = [publisher EXCEPT ![c] = FALSE]
  /\ watched' = watched \ {c}
  /\ permits' = permits + 1

\* connect_mailbox: a new pipe that follows the log, and a socket.  Over
\* capacity it is dropped before it costs anything.
Dial(c) ==
  /\ Moves(c, "away", "hello") /\ permits > 0
  /\ permits' = permits - 1
  /\ behind' = behind \cup {c}
  /\ UNCHANGED <<publisher, watched, has>>
  /\ UNCHANGED mailbox /\ UNCHANGED env

\* The handshake frame: an address, perhaps with publish intent.
Hello(c) ==
  /\ Moves(c, "hello", IF c \in Asks THEN "proof" ELSE "seek")
  /\ UNCHANGED <<publisher, permits, watched>>
  /\ UNCHANGED mailbox /\ UNCHANGED clients /\ UNCHANGED env

\* publish_handshake: a proof that does not verify closes the connection.
Prove(c) ==
  /\ phase[c] = "proof"
  /\ IF c \in Keyed
     THEN /\ phase' = [phase EXCEPT ![c] = "seek"]
          /\ publisher' = [publisher EXCEPT ![c] = TRUE]
          /\ UNCHANGED <<permits, watched>>
     ELSE Close(c)
  /\ UNCHANGED mailbox /\ UNCHANGED clients /\ UNCHANGED env

\* Mutant: the map is not consulted.
MutOpened(c) == disk' = TRUE /\ actors' = actors + 1

\* open_locked, under the mutex: at most one actor per mailbox.
Opened(c) ==
  /\ disk' = TRUE
  /\ actors' = IF actors = 0 THEN 1 ELSE actors

\* Going live: a guest pipe, on which the client's Watch has still to come.
OpenExisting(c) ==
  /\ Moves(c, "seek", "live") /\ disk
  /\ Opened(c)
  /\ watched' = watched \cup {c}
  /\ UNCHANGED <<publisher, permits, posts, sweep, purges>>
  /\ UNCHANGED clients /\ UNCHANGED env

\* No such mailbox: nothing is allocated; the Watch is answered and forgotten.
StayDormant(c) ==
  /\ Moves(c, "seek", "dormant") /\ ~disk
  /\ UNCHANGED <<publisher, permits, watched>>
  /\ UNCHANGED mailbox /\ UNCHANGED clients /\ UNCHANGED env

-----------------------------------------------------------------------------
(* Posts *)

\* The author writes on this device; her next session is due.
Write(c, p) ==
  /\ p \in Drafts[c] \ has[c]
  /\ has' = [has EXCEPT ![c] = @ \cup {p}]
  /\ behind' = behind \cup ({c} \cap Connected)
  /\ UNCHANGED <<phase, publisher, permits, watched>>
  /\ UNCHANGED mailbox /\ UNCHANGED env

\* What a client publishes: its pen's log, all of it, or what it made up.
Offers(c) == IF c \in Keyed THEN has[c] ELSE has[c] \cap Drafts[c]

\* Mutant: any guest's publish passes the gate.
MutAdmitted(c) == Offers(c) \cap Ours

\* Only the authenticated key-holder writes, and only claims of this log.
Admitted(c) == IF publisher[c] THEN Offers(c) \cap Ours ELSE {}

\* A session answered dormant: nothing to pull, nothing taken.
DormantSession(c) ==
  /\ phase[c] = "dormant" /\ c \in behind /\ Admitted(c) = {}
  /\ behind' = behind \ {c}
  /\ UNCHANGED <<phase, publisher, permits, watched, has>>
  /\ UNCHANGED mailbox /\ UNCHANGED env

\* Mutant: the frame goes to whoever published.
MutFramed(c, new) == [d \in Client |-> IF d = c THEN has[d] \cup new ELSE has[d]]

\* landed(): whoever watches is framed, except who brought it.
Framed(c, new) ==
  [d \in Client |-> IF d \in watched \ {c} THEN has[d] \cup new ELSE has[d]]

\* Mutant: any publish at all materialises the mailbox.
MutMaterialize(c) ==
  /\ Moves(c, "dormant", "live") /\ c \in behind
  /\ Opened(c)
  /\ posts' = posts \cup Admitted(c)
  /\ has' = Framed(c, Admitted(c))
  /\ behind' = behind \ {c}
  /\ UNCHANGED <<publisher, permits, watched, sweep, purges>>
  /\ UNCHANGED env

\* The one event allowed to cost disk: the publish of a session that pulled
\* from the dormant mailbox is the first message of the live one.  The Watch
\* is not passed on: it was answered before.
Materialize(c) ==
  /\ Moves(c, "dormant", "live") /\ c \in behind /\ Admitted(c) # {}
  /\ Opened(c)
  /\ posts' = posts \cup Admitted(c)
  /\ has' = Framed(c, Admitted(c))
  /\ behind' = behind \ {c}
  /\ UNCHANGED <<publisher, permits, watched, sweep, purges>>
  /\ UNCHANGED env

\* The sweep holds the database: the open fails and the task panics.
OpenFails(c) ==
  /\ disk /\ actors = 0 /\ sweep = "direct"
  /\ \/ phase[c] = "seek"
     \/ phase[c] = "dormant" /\ c \in behind /\ Admitted(c) # {}
  /\ breaks < MaxBreaks /\ breaks' = breaks + 1
  /\ Close(c)
  /\ UNCHANGED mailbox /\ UNCHANGED clients /\ UNCHANGED restarts

\* A session with the actor: pull, push; what landed is framed.
Session(c) ==
  /\ phase[c] = "live" /\ c \in behind
  /\ posts' = posts \cup Admitted(c)
  /\ has' = [Framed(c, Admitted(c)) EXCEPT ![c] = @ \cup posts]
  /\ behind' = behind \ {c}
  /\ UNCHANGED <<phase, publisher, permits, watched, disk, actors, sweep, purges>>
  /\ UNCHANGED env

-----------------------------------------------------------------------------
(* What happens to all of them *)

\* Either end goes away, or a frame that is not binary ends the reader loop.
Break(c) ==
  /\ c \in Connected /\ breaks < MaxBreaks
  /\ Close(c)
  /\ breaks' = breaks + 1
  /\ UNCHANGED mailbox /\ UNCHANGED clients /\ UNCHANGED restarts

\* The server process ends and is started again; the disk stays.
Restart ==
  /\ restarts < MaxRestarts /\ restarts' = restarts + 1
  /\ phase' = [c \in Client |-> "away"]
  /\ publisher' = [c \in Client |-> FALSE]
  /\ permits' = MaxConns /\ watched' = {}
  /\ actors' = 0 /\ sweep' = "idle"
  /\ UNCHANGED <<disk, posts, purges, breaks>> /\ UNCHANGED clients

\* The retention sweep: live mailboxes by the actor's verbs...
SweepLive(old) ==
  /\ actors > 0 /\ old # {} /\ purges < MaxPurges
  /\ posts' = posts \ old
  /\ purges' = purges + 1
  /\ UNCHANGED <<phase, publisher, permits, watched, disk, actors, sweep>>
  /\ UNCHANGED clients /\ UNCHANGED env

\* ...those only on disk by opening them, while clients may come.
SweepOpen ==
  /\ sweep = "idle" /\ disk /\ actors = 0 /\ purges < MaxPurges
  /\ sweep' = "direct" /\ purges' = purges + 1
  /\ UNCHANGED <<phase, publisher, permits, watched, disk, actors, posts>>
  /\ UNCHANGED clients /\ UNCHANGED env

SweepDirect(old) ==
  /\ sweep = "direct" /\ sweep' = "idle"
  /\ posts' = posts \ old
  /\ UNCHANGED <<phase, publisher, permits, watched, disk, actors, purges>>
  /\ UNCHANGED clients /\ UNCHANGED env

Steps(c) ==
  \/ Hello(c) \/ Prove(c) \/ OpenExisting(c) \/ StayDormant(c)
  \/ DormantSession(c) \/ Materialize(c) \/ Session(c)

Next ==
  \/ \E c \in Client : Dial(c) \/ Steps(c) \/ OpenFails(c) \/ Break(c)
  \/ \E c \in Client, p \in Post : Write(c, p)
  \/ Restart \/ SweepOpen
  \/ \E old \in SUBSET posts : SweepLive(old) \/ SweepDirect(old)

\* Clients dial again and answer the handshake; the server serves them.
Spec ==
  Init /\ [][Next]_vars
    /\ \A c \in Client : WF_vars(Dial(c)) /\ WF_vars(Steps(c))

-----------------------------------------------------------------------------
(***************************************************************************)
(* Every connection holds one permit, however it ended (main.rs:83-97).    *)
(***************************************************************************)
PermitsKept == permits + Cardinality(Connected) = MaxConns

(***************************************************************************)
(* A mailbox costs disk only after somebody who possesses its key wrote    *)
(* something to publish there (main.rs:9-11, bridge.rs:21-27).             *)
(***************************************************************************)
DiskEarned == disk => \E c \in Keyed \cap Asks : has[c] \cap Ours # {}

(***************************************************************************)
(* Whoever raced to open or create it, one actor owns the mailbox, and     *)
(* every live connection is on it (registry.rs:47-78).                     *)
(***************************************************************************)
OneActor ==
  /\ actors <= 1
  /\ (\E c \in Client : phase[c] = "live") => actors = 1 /\ disk

(***************************************************************************)
(* The mailbox holds claims of its own log written by key-holders, and     *)
(* nobody learns anything else there (bridge.rs:276-297).                  *)
(***************************************************************************)
OnlyOwners ==
  LET owned == (UNION {Drafts[c] : c \in Keyed}) \cap Ours
  IN /\ posts \subseteq owned
     /\ \A c \in Client : has[c] \subseteq owned \cup Drafts[c]

(***************************************************************************)
(* Through restarts, broken connections and sweeps, a client whose Watch   *)
(* reached the actor comes to hold what the mailbox holds                  *)
(* (vouch-transport lib.rs:30-52).  One that was answered dormant, or was  *)
(* when it sent its Watch, may not: it is not told of the mailbox.         *)
(***************************************************************************)
Delivered == <>[](\A c \in watched : posts \subseteq has[c])
=============================================================================
