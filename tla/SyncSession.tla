----------------------------- MODULE SyncSession ----------------------------
(***************************************************************************)
(* One client keeping one log in step with one peer: the session of        *)
(* SessionOps driven over a pipe, the peer's respond (sync/respond.rs),    *)
(* and the cursor row that outlives sessions (sync/state.rs).              *)
(*                                                                         *)
(* A session asks one question at a time.  Between the question and the    *)
(* moment its answer is fed, both stores go on changing: other clients     *)
(* publish to the peer, other pipes and the author's own pen feed the      *)
(* client.  A session may be dropped at any message, the peer may be       *)
(* reborn empty under a new instance, or restored from a stale backup      *)
(* under the old one.                                                      *)
(***************************************************************************)
EXTENDS SessionOps

(***************************************************************************)
(* What may happen around the client, by the name of a setting.  takes:    *)
(* the peer ingests what is published to it.  quiet: the peer's store      *)
(* changes only between sessions.  mine, theirs: events that reach the     *)
(* client, the peer, from elsewhere.  The rest bounds how often the peer   *)
(* is reborn and restored, and how often a session is dropped.             *)
(***************************************************************************)
CONSTANT Settings

ASSUME SyncAssumption ==
  \A w \in DOMAIN Settings :
    Settings[w] \in [pull : BOOLEAN, push : BOOLEAN,
                     takes : BOOLEAN, quiet : BOOLEAN,
                     mine : SUBSET Event, theirs : SUBSET Event,
                     rebirths : Nat, restores : Nat, drops : Nat]

VARIABLES
  world,      \* the setting's name; never changes
  mine,       \* the client's store
  theirs,     \* the peer's store
  instance,   \* the peer's incarnation
  backup,     \* the copy of its store a restore brings back
  row,        \* the client's saved PeerCursor
  session,    \* the SyncSession, phase "idle" when there is none
  answer,     \* the peer's response on its way to feed()
  restores, drops   \* counters of the bounds

vars == <<world, mine, theirs, instance, backup, row, session, answer,
          restores, drops>>

World == Settings[world]

client == <<mine, row, session>>
peer == <<theirs, instance, backup>>
env == <<world, restores, drops>>

(***************************************************************************)
(* Type invariant.  Its last conjunct is the correlation of requests and   *)
(* responses: the answer a session is fed is one to the question it asked. *)
(***************************************************************************)
TypeOK ==
  /\ world \in DOMAIN Settings
  /\ mine \in Store /\ theirs \in Store /\ backup \in Store
  /\ instance \in 1 .. World.rebirths + 1
  /\ row \in Cursor
  /\ SessionOK(session)
  /\ restores \in 0 .. World.restores /\ drops \in 0 .. World.drops
  /\ answer = None \/ answer \in Expected(session.phase)

Init ==
  /\ world \in DOMAIN Settings
  /\ mine = EmptyStore /\ theirs = EmptyStore /\ backup = EmptyStore
  /\ instance = 1
  /\ row = FreshCursor(None)
  /\ session = Idle
  /\ answer = None
  /\ restores = 0 /\ drops = 0

-----------------------------------------------------------------------------
(* The client *)

Start ==
  /\ session.phase = "idle"
  /\ session' = NewSession(World.pull, World.push)
  /\ UNCHANGED <<mine, row, answer>> /\ UNCHANGED peer /\ UNCHANGED env

Client == [store |-> mine, row |-> row, session |-> session]

\* feed(): the answer to the outstanding request is consumed; fed results.
Feed(phase, fed) ==
  /\ session.phase = phase /\ answer # None
  /\ \E x \in {fed} : mine' = x.store /\ row' = x.row /\ session' = x.session
  /\ answer' = None
  /\ UNCHANGED peer /\ UNCHANGED env

FeedStatus == Feed("status", FedStatus(Client, answer))
FeedPull == Feed("pull", FedPull(Client, answer))
FeedPublish == Feed("publish", FedPublish(Client, answer))
FeedSettle == Feed("settle", FedSettle(Client, answer))
FeedHashes == Feed("hashes", FedHashes(Client, answer))
FeedClaims == Feed("claims", FedClaims(Client, answer))
FeedResettle == Feed("resettle", FedResettle(Client, answer))

\* Mutant: the answer to a dropped session's question is fed to the next one.
MutDrop ==
  /\ session.phase # "idle" /\ drops < World.drops
  /\ session' = Idle /\ drops' = drops + 1
  /\ UNCHANGED <<mine, row, restores, world, answer>> /\ UNCHANGED peer

\* The pipe closes, or feed() fails: the next session starts afresh.
Drop ==
  /\ session.phase # "idle" /\ drops < World.drops
  /\ session' = Idle /\ answer' = None /\ drops' = drops + 1
  /\ UNCHANGED <<mine, row, restores, world>> /\ UNCHANGED peer

\* The author writes, or another pipe delivers.
MineGrows(e) ==
  /\ mine' = Ingest(mine, e)
  /\ mine' # mine
  /\ UNCHANGED <<row, session, answer>> /\ UNCHANGED peer /\ UNCHANGED env

-----------------------------------------------------------------------------
(* The peer *)

\* respond(): one answer to the outstanding request.
Respond(phases, a) ==
  /\ session.phase \in phases /\ answer = None
  /\ answer' = a
  /\ UNCHANGED client /\ UNCHANGED <<instance, backup>> /\ UNCHANGED env

RespondStatus ==
  /\ Respond({"status", "settle", "resettle"},
             StatusOf(theirs, instance))
  /\ UNCHANGED theirs

RespondSince ==
  /\ Respond({"pull"}, First(ServedSince(theirs, session.cursor.pull)))
  /\ UNCHANGED theirs

RespondPublish ==
  /\ Respond({"publish"}, "ack")
  /\ theirs' = IF World.takes THEN IngestAll(theirs, First(session.batch))
               ELSE theirs

RespondHashes ==
  /\ Respond({"hashes"}, HashesOf(theirs))
  /\ UNCHANGED theirs

RespondClaims ==
  /\ Respond({"claims"}, ClaimsOf(theirs, First(session.want)))
  /\ UNCHANGED theirs

MayChange == World.quiet => session.phase = "idle"

\* Another client publishes.
TheirsGrows(e) ==
  /\ MayChange
  /\ theirs' = Ingest(theirs, e)
  /\ theirs' # theirs
  /\ UNCHANGED client /\ UNCHANGED <<instance, backup, answer>> /\ UNCHANGED env

\* The peer's disk is lost: a new instance is minted with an empty store.
Reborn ==
  /\ MayChange /\ instance <= World.rebirths
  /\ instance' = instance + 1
  /\ theirs' = EmptyStore /\ backup' = EmptyStore
  /\ UNCHANGED client /\ UNCHANGED answer /\ UNCHANGED env

BackUp ==
  /\ restores < World.restores
  /\ backup' = theirs
  /\ UNCHANGED client /\ UNCHANGED <<theirs, instance, answer>> /\ UNCHANGED env

\* "a relay restored from a stale backup" keeps its instance.
Restore ==
  /\ MayChange /\ restores < World.restores
  /\ theirs' = backup
  /\ restores' = restores + 1
  /\ UNCHANGED client /\ UNCHANGED <<instance, backup, answer, drops, world>>

-----------------------------------------------------------------------------
Answers == RespondStatus \/ RespondSince \/ RespondPublish
             \/ RespondHashes \/ RespondClaims

Feeds == FeedStatus \/ FeedPull \/ FeedPublish \/ FeedSettle
           \/ FeedHashes \/ FeedClaims \/ FeedResettle

Next ==
  \/ Start \/ Feeds \/ Drop
  \/ \E e \in World.mine : MineGrows(e)
  \/ Answers
  \/ \E e \in World.theirs : TheirsGrows(e)
  \/ Reborn \/ BackUp \/ Restore

(***************************************************************************)
(* The peer answers, and every answer is fed.  The latter is WF_vars(Feeds)*)
(* said without ENABLED, which costs TLC far more: Feeds is enabled just   *)
(* when there is an answer, and takes it.  WF_vars(Start) is a premise on  *)
(* the caller, and only Converges needs it: a session starts with every    *)
(* connection and with sync_now, which nothing in the repository calls.    *)
(***************************************************************************)
Spec == Init /\ [][Next]_vars
          /\ WF_vars(Start) /\ WF_vars(Answers) /\ []<>(answer = None)

-----------------------------------------------------------------------------
(* Cursors *)

Current == row.instance = instance

(***************************************************************************)
(* A saved pull position never runs ahead of ingest: as long as the peer   *)
(* was not restored, every claim below it is held, wherever sessions were  *)
(* dropped and stores reborn (session.rs:15-18, state.rs:29-32).           *)
(***************************************************************************)
PullSound ==
  Current /\ restores = 0 =>
    \A c \in LogRows(theirs, TheLog) :
      theirs.arrival[c] < row.pull => c \in mine.held

(***************************************************************************)
(* A saved push position counts only claims the peer holds, if it takes    *)
(* them: the batch of a reconciliation, no prefix of the arrival order,    *)
(* never moves it (push_is_cursor_prefix).                                 *)
(***************************************************************************)
PushSound ==
  Current /\ restores = 0 /\ World.takes =>
    \A c \in LogRows(mine, TheLog) :
      mine.arrival[c] < row.push => c \in theirs.held

-----------------------------------------------------------------------------
(* Rest: a session that starts now ends at its first answer *)

AtRest ==
  /\ session.phase = "idle"
  /\ Current
  /\ row.settled # None /\ row.settled = Digest(theirs)
  /\ World.pull => row.pull >= Count(theirs)
  /\ World.push => row.push >= Count(mine)

(***************************************************************************)
(* state.rs:36-40: a client that comes to rest on the settled cache misses *)
(* nothing the peer has: the difference it stopped asking about is benign. *)
(* Said of peers that change only between sessions.                        *)
(***************************************************************************)
NothingToLearn ==
  World.quiet /\ AtRest /\ World.pull => Caught(mine, theirs)

(***************************************************************************)
(* ...and everything it holds has reached the peer, whatever backup the    *)
(* peer came back from: "mismatch means fall back to full set              *)
(* reconciliation" (store.rs:521-527).  Two things are excepted since the  *)
(* code excepts them.  A body that reaches a row already pushed without it *)
(* is not pushed.  And a session dropped between its push and its settle   *)
(* leaves the old digest with the new position: a peer restored to just    *)
(* that digest looks settled, and lacks what was pushed.                   *)
(***************************************************************************)
NothingToTeach ==
  World.quiet /\ drops = 0 /\ AtRest /\ World.push /\ World.takes =>
    LogRows(mine, TheLog) \subseteq theirs.held

-----------------------------------------------------------------------------
(* Progress *)

(***************************************************************************)
(* Every session reaches its end, also against a peer whose log shrinks or *)
(* is reborn while it is being pulled (session.rs:130-134, 421-426).       *)
(***************************************************************************)
SessionsEnd == session.phase # "idle" ~> session.phase = "idle"

\* Bodies travel with their claims: no row waits for one.
Whole == \A e \in World.mine \cup World.theirs : e.body

(***************************************************************************)
(* Whatever was dropped, reborn or written concurrently: once the stores   *)
(* stop changing, and sessions go on being started, both ends hold the     *)
(* same claims of the log, unless the peer takes nothing from us           *)
(* (session.rs:15-18).  They agree on its bodies and redactions too, with  *)
(* an exception: where a body can reach a row that was stored without it,  *)
(* it may stay at one end.  Healed at the peer between Hashes and          *)
(* Resettle, it is cached as settled (session.rs:547-557); in a row        *)
(* already pushed, it is not pushed (session.rs:317).                      *)
(***************************************************************************)
Converges ==
  <>[](World.takes =>
         /\ LogRows(mine, TheLog) = LogRows(theirs, TheLog)
         /\ Whole => Digest(mine) = Digest(theirs))
=============================================================================
