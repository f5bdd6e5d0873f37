# Vouch, specified

TLA+ models of [Vouch](../src/README.md), the TLC configurations that check
them, and TLAPS proofs about them. Paths below are relative to
`src/crates/vouch-core/src/` unless they name another crate; `app/` stands for
`src/src/`.

Vouch is a peer-to-peer app for recommendations. People sign *claims* into
logs of their own; *peers* (the app, a relay, a node) hold claims and keep each
other in step over pipes that may drop what they carry. The code's central
promise is convergence: "any two stores holding the same set of received
artifacts are in the same state, regardless of ingest order" (`store.rs:3-5`).

- [Inventory](#inventory)
- [The modules](#the-modules)
- [What is checked](#what-is-checked)
- [Where code and docs disagree](#where-code-and-docs-disagree)
- [What is proved](#what-is-proved)
- [What is not modelled](#what-is-not-modelled)

## Inventory

| Component | State | Operations | Talks to | What is hard |
|---|---|---|---|---|
| **Claim store** `store.rs` | claim rows (header, body or none, arrival position, received-at), redactions, backlink and blob-referrer indexes, `poisoned` | `ingest`, `purge_older_than`; reads `serve_since`, `fingerprint`, `log_hashes`, `events`, `state_vector`, `verify_integrity` | storage backend below; sync, database above | any delivery order; stripped bodies; redactions before, after and of redactions; faults between two writes of one ingest |
| **Storage backends** `storage.rs`, `vouch-store` | tables in memory with an undo log, or SQLite in WAL mode | `put_claim`, edges, `set_redaction`, `purge_older_than`, `begin`/`commit`/`rollback` | claim store | torn writes, failed commits, restarts, directories of old versions |
| **Blob store** `blob.rs` | bytes by hash | `put`, `insert_verified`, `evict`, `gc` | the referrer index of the claim store | bytes shared by several claims; corrupt files |
| **Database** `database.rs` | a claim store, a blob store, writers | forwards; `compose`, `attach` | all of the above | - |
| **Sync session** `sync/session.rs` | plan, phase, push batch, wants, a copy of the cursor row | `next_request`, `feed` | a peer's `respond`, its own store, the cursor row | both stores change between question and answer; sessions die anywhere; peers are reborn or restored |
| **Responder** `sync/respond.rs` | none | `respond` | a store | - |
| **Cursor rows** `sync/state.rs`, `vouch-store` | instance, pull, push, settled per peer and log | get, set | sessions and frames | a count that runs ahead of ingest skips claims for good |
| **Notify frames** `sync/notify.rs` | none | `notify_for`: the sender's count and fingerprint after what it carries; `apply_notify`: ingest, move the cached settled fingerprint by the sender's delta, and fast-forward the pull position, but only if the frame then settles | stores, cursor rows | lost and late frames; frames during a session, which holds an older copy of the row |
| **Peer actor** `peer.rs` | pipes (session, pending request, dirty flag, watches, blob fetches), follows, taps | commands, `pipe_event`, `pump` | other peers by pipe, the app by handle | full channels, closing pipes, one actor serving many pipes |
| **Relay server** `vouch-relay-server` | permits, a registry of mailboxes, each a peer; dormant mailboxes on disk | accept, handshake, bridge (dormant, live), hourly sweep | sockets; peers | materialising a mailbox while it is looked up or swept |
| **Transport** `vouch-transport` | a socket and two queues | reconnect, forward | peer actor, relay | reconnects |
| **Claims, values, codec** `claim.rs`, `value.rs`, `cbor.rs` | none (pure) | encode, decode, check, `collect_edges` | everything | - |
| **Keys and encryption** `e2ee.rs`, `keys.rs`, `writer.rs` | keys, friends | seal, open, sign, attest | compose, readers | who can read what |
| **Recommendations** `rec.rs`, `fold.rs`, `profile.rs` | none (pure) | fold claims into records | the app | same records whatever the order; conflicts |
| **Launch** `app/identity.rs`, `app/main.rs` | `identity.key`, `claims.db`, `sync.db`, `blobs/`, `follows.json` | load or mint a key, open, reset an old directory | file system | a process killed, or a machine powered off, between any two of these |
| **Follows, feed** `app/follows.rs`, `app/feed.rs` | followed logs in a file; the merged feed | add, save, load, reload | peer, by queries and a tap | torn file; missed tap items |
| **Dialogs** `app/ui/modals`, `app/ui/detail_panel.rs` | what an open dialog captured | recommend, edit, comment, go on the record | peer, feed | what changed while the dialog was open |
| **Auto-update** `app/auto_update.rs` | staged bundle, wake flag, check state, staging directories | check, stage, click, swap | release page, file system, UI | a thread and the UI; failures halfway |
| **User interface** `app/ui` | widgets | rendering | peer handle | - |

What makes each one correct:

- *Claim store*: its content is a function of the set of events received;
  redactions never come undone; arrival positions are dense and never move;
  equal fingerprints mean equal content; a failed ingest leaves nothing behind.
- *Retention*: indexes stay exact; swept blobs are unreferenced; unreferenced
  blobs are swept.
- *Sync*: cursors never count what was not received or delivered; a session
  that has nothing to do is right about it; sessions end; stores converge.
- *Peers*: sessions and frames that share a cursor row do not make it lie; two
  ends converge without a timer; media follow their claims.
- *Relay*: disk is spent only on a proven key; one actor per mailbox; outsiders
  neither write nor read what was not published; watchers get what is there.
- *Directory*: cursors lag claims through any crash; what a peer was told stays;
  the author stays the same; an unreadable file is not overwritten.
- *Auto-update*: what is offered is complete; no downgrade; no lost click.
- *Fold and feed*: an edit supersedes what its author saw, and nothing else is
  hidden; "on the record" is meant; the screen comes to rest on what has landed.

`PROJECT.json` lists the hazards at their lines, with the properties that cover
them, or a note saying why none does.

## The modules

```
ClaimOps            a store as a value; ingest and reads as operators
  |- ClaimStore          stores that ingest anything   <- StoreProofs
  |- IngestSteps         one ingest, write by write    -> implements ClaimStore  <- StoreProofs
  |- RetentionStore      a relay mailbox: purge, sweep <- RelayProofs
  |- SessionOps          a session's steps as operators <- SessionProofs
       |- SyncSession    a client and a peer, one log, sessions only <- SyncProofs
       |- PeerNode       two actors on channels: sessions, frames, media <- PeerProofs
RelayMailbox        connections, registry and sweep    <- RelayProofs
AppDir              the app's files through crashes    <- AppProofs
AutoUpdate          updater, user, release page        <- AppProofs
Fold                claims into records, as operators
  |- Feed                tap, queue, screen, dialogs   <- FeedProofs
```

`ClaimOpsProofs` holds the lemmas about the store's operators - `Ingest` and runs
of it, sorting, dumps, induction over positions - that the other proof modules
share; `SessionProofs` those about what one `feed` does, phase by phase, on which
`SyncProofs` and `PeerProofs` both rest. `MC*` modules hold the claims and scenes
for TLC. Modules whose theorems are proved together (`StoreProofs`, `RelayProofs`,
`AppProofs`) name their specifications apart: `StoreSpec` is `ClaimStore`'s,
`RetentionSpec` and `UpdateSpec` are those of `RetentionStore` and `AutoUpdate`.

**ClaimOps** is `store.rs` without its storage. A claim is the hash that names
it, and a number since hashes are compared ("smallest redactor wins"). What the
signed bytes of a claim say - log, redaction target, references, pinned blobs -
never changes, so these are constant functions of the claim. `Ingest(s, e)` is
`ingest_inner` in its order: the redaction an event carries takes effect first
(`Redacted`), then suppression (`Suppressed`), the duplicate return
(`Duplicate`), then edges, arrival and row (`PutClaim`). A fingerprint, an XOR of
digests in the code, is the set of the digested facts. `IngestAll` ingests what a
pipe delivers, event by event; `InOrder` is `sort_by_key`, and with it `Dump` and
`ServedSince` list rows in the code's order. The last section is the reference:
what a store that was sent the events `E` must be (`Canonical(s, E)`). Digests do not collide;
a reference names the log its claim is really in; what fails verification is
not an event, since it never reaches a store.

**ClaimStore** has one action, `IngestEvent(r, e)`: any replica receives any
event. `seen` records what it was sent, so that the store can be compared with
the reference, which knows nothing of the order.

**IngestSteps** takes `ingest_at` apart: `Begin`, then `RecordRedaction`,
`RemoveEdge`\*, `ForgetBody`, `DecideBody`, `AddEdge`\*, `PutRow`, `Commit`, each
one storage write. `db` is what the process reads, `disk` what a restart finds.
At any point the ingest may fail and be rolled back, fail to roll back or panic
(the store stays poisoned and every call of `guard` panics), or the process may
end. `transactional` is the kind of backend: the trait lets a backend implement
`begin` and `commit` as no-ops (`storage.rs:80-88`).

**RetentionStore** is a relay mailbox over time: `IngestEvent`, `IngestBlob`,
`EvictBlob`, and the two halves of `gc_loop`, `GcClaims` and `GcBlobs`, which are
separate commands to the mailbox's actor and may be interleaved with others.

**SessionOps** is `session.rs` and `respond.rs` on a record `[store, row,
session]`: `Question`, the answers (`StatusOf`, `ServedSince`, `HashesOf`,
`ClaimsOf`), and one `Fed...` operator per arm of `feed`, with everything it
calls (`settle_with`, `begin_push`, `save_cursor`).

**SyncSession** is one client, one peer, one log. A request is implied by the
session's phase; `Respond...` is the peer's handler, `Feed...` the client's.
Around them the world moves: `MineGrows`, `TheirsGrows`, `Drop` (the pipe closes
or `feed` fails), `Reborn` (the peer's directory is lost: empty store, new
instance) and `BackUp`/`Restore` (an old copy comes back under the same instance,
the case `vouch-store/src/lib.rs:634-638` describes).

**PeerNode** is the actor of `peer.rs` at both ends of one duct. A node's record
is its database, the cursor row and one `Pipe`; `out` is the bounded channel to
the other end, and `Send` is `try_send`: what does not fit is not sent. An actor
takes one turn per input - `Receive` for a message (`OnRequest`, `OnResponse`,
`OnWatch`, `OnFrame`), or a command - and then `Pump`s, which starts a session
if the pipe is dirty and has none. `Landed` is what every landing claim sets off:
a frame to the watcher. `ReceiveFailing` is a message under which the storage
fails: a `Publish` is acknowledged all the same, a frame (`FrameFails`) or an
answer (`SessionFails`) is dropped with whatever it had not yet written, and its
session with it. `Connect`, `Disconnect`, `Refollow`, `SyncNow`, `Mint`,
`FetchBlob` and `EvictBlob` are the handle's commands. `Heard`,
`HeardInSession` and `HeardBlob` stand for the actor's other pipes: what they
bring by a frame, a `Publish` or a blob is framed to the watcher, what they
bring by a session of their own is told to the taps alone (`peer.rs:1071-1086`).
A scene says who the two ends are. `missed` is a history variable: what did not
fit a channel of this connection (`response`, `request`, and `push` for frames
and watches), and `gap`, which stays: news that landed unframed while the
follower was `Reconciling`, that is, between the server's list of hashes and the
closing `Status`.

**RelayMailbox** is one mailbox of the server. A client's connection is dialled
(`Dial` takes a permit), says `Hello`, may `Prove` its key, then looks for the
mailbox: `OpenExisting` or `StayDormant`. A dormant connection is answered
from an empty store (`DormantSession`) until it publishes (`Materialize`, which
races with others). `Session` is a whole session with the live actor. `Break`,
`Restart`, `OpenFails` end connections; `SweepLive` and `SweepOpen`/`SweepDirect`
are the two ways the hourly sweep takes, the second in two steps since clients
may come in between.

**AppDir** is the app's directory and process. A launch goes file by file:
`LoadSeed`, `MintSeed` (which creates the file), `PersistSeed`, `WipeClaims`,
`WipeSync`, `WipeBlobs` for a store of an older schema, `OpenClaims`,
`StampVersion`, `OpenSync`, `LoadFollows` (which drops a stored self-follow, and
saves), `AddExtras` (`VOUCH_FOLLOW`, and saves). The running app ingests, writes
cursors, tells its instance, fetches blobs, and follows. A save, of the launch or
of a `Follow`, begins with a file cut to nothing (`BeginSave`) and ends with the
list in it (`Save`) or with an error and the file left as it is (`SaveFails`); `tore`
remembers that it was this process that cut it. `Kill` ends the process between
any two steps; `PowerCut` loses, besides, any subset of what was not written back
(`WriteBack`), with `claims.db` synchronous and `sync.db` not; `Rot` corrupts a blob.

**AutoUpdate** has the updater thread (`Wake`, `CheckFails`, `NothingNewer`,
`BeginDownload`, `Stage`), the user (`Click`, `TakeStaged`, `Swap...`, `Quit`,
`StartApp`) and the release page (`Publish`, which may go back to an older build).
A download is two steps, since the staging directory is seen incomplete in
between, and since the stamp and the bundle are two fetches: a directory holds the
build that was published at the second (`Downloaded`), under the stamp of the
first, and `astray` remembers where they differed. `restart_into_update` is two,
since the thread runs while rsync does.

**Fold** is `fold.rs` and `rec.rs` as operators on a view: components of the
claims, who is `Entitled` to set a field, the `Frontier` of what is not
superseded, `Attested`, `Names`. **Feed** puts it on a screen: three devices
write and claims land in any order (`Arrive`), through a bounded tap
(`Emitted`), the actor's queue (`ActorTurn`) and replies taken by the
foreground, in order (`Foreground`, `Heard`). The dialogs write back what they
captured when they were opened (`OpenEdit`, `SubmitEdit`), which may be stale.
Other programs write claims over any of the things they are shown, several at once
too, which makes these one (`StrayClaim`). `knew` records, in every claim, what its
author had on the screen.

Mutants (`Mut...`) stand next to the definition they replace.

## What is checked

Each `.cfg` is one run.

| Run | Properties | Instance |
|---|---|---|
| `claimstore` | `Canonicity`, `Convergence`, `FingerprintsDecide`, `ArrivalsDense`, `DumpRestores`, `RedactionSticks` | five claims in two logs: a post, two redactions of it, a redaction of one of these, a quote from another log that shares a blob. Two stores; one is sent all ten events (each claim full and stripped) in every order, or the two together five |
| `ingest` | `Atomic`, `RowsHeal`, `EdgesKept` | a post with photo and quote, the quoted post, a redaction; both kinds of backend, any number of faults |
| `retention` | `IndexStaysExact`, `PinnedBlobsKept`, `OrphansReclaimed` | a post, its redaction and a reply with the same photo; four points of time, retention of one |
| `sync` | `TypeOK`, `PullSound`, `PushSound`, `NothingToLearn`, `NothingToTeach`, `SessionsEnd`, `Converges` | two posts and a redaction, batches of one; four settings: the peer changes at any time, is reborn once, one session is dropped (`busy`); the same without a rebirth, with claims stored without their bodies first at either end (`healing`); it changes between sessions and is restored once from any backup, and takes pushes or refuses them (`taken`, `refused`) |
| `peer` | `TypeOK`, `PullSound`, `PushSound`, `Converges`, `MediaArrives` | four scenes of the same claims, one with a photo: an author's app and her relay, one of whose disks may fail once; an author and a friend on channels of one message, with a timer; a reader who asks for media, culls them, unfollows and comes back; an eager app that follows another, which writes the photo's claim itself or has claim, body and bytes from a third in any order, and whose disk may fail once. One dropped connection each |
| `relay` | `DiskEarned`, `OneActor`, `OnlyOwners`, `Delivered` | an author's two devices, a friend, a stranger without the key; two permits, so that a dial may find the server full; one restart, one broken connection, one purge |
| `appdir` | `CursorsLag`, `ArrivalsKept`, `AuthorKept`, `UnreadableUntouched` | two claims, a blob, a friend to follow; one kill, one power cut and one fault of the disk in any order, from an empty directory or one of an older schema, whose list may name the device itself |
| `update` | `StagedIntact`, `NeverDowngraded`, `ClickAnswered` | three builds |
| `feed` | `TypeOK`, `EditsSupersede`, `ConflictsStand`, `RecordMeant`, `FeedSettles` | two devices of one author and a friend's, a tap of one item; scenes in which claims land at any moment (`Live`), four claims are edits and comments (`Conversation`), three are edits, attestations and stray writes of other programs (`Record`), or four are recommendations, edits and what links them, on two devices (`Linked`) |
| `peer_skip` | `PullHonest`, violated | the relay scene on channels of one message |
| `peer_wedge` | `CongestionHeals`, violated | the friend scene with no dropped connection |
| `feed_missed` | `FeedLive`, violated | the scene `Live` |

Every property of a passing run has a mutant in `PROJECT.json`: a definition
changed the way a slip in the code would change it, which TLC must find.

What the properties except, they except because the code does:
`NothingToLearn` and `NothingToTeach` speak of peers that change only between
sessions, the second also of rows, not bodies, and of sessions that were not
dropped; `Converges` of `SyncSession` of bodies and redactions only where no
row waits for a body (of claims it speaks always, at a peer that takes them);
`PullSound` of `PeerNode` of behaviours in which no news landed unframed
while the follower reconciled, and its `PushSound` of relays whose disk never
failed (a peer that neither serves nor follows a log declines what is pushed,
silently, and answers `Ack`); `Converges` of `PeerNode` of these two together,
and of a last connection on which every response fitted its channel, and without a
timer every message; `MediaArrives` of behaviours in which nothing was lost or
failed; `CursorsLag` of a directory whose migration was not interrupted;
`UnreadableUntouched` of files the process did not tear itself; `NeverDowngraded`
of a release page that stays as it is during a download; `EditsSupersede` of
screens that show all that the edit's author saw; `ConflictsStand` of words that
no claim references without setting their field; `FeedSettles` of no claim landing in
the gap before the tap is there. The section on disagreements says what happens
then.

What a property does not reach, it should not be read for. `NothingToLearn` says
nothing of a peer that changes during a session; `PullSound` of `PeerNode`
does. `OneActor` is about actors of the registry; the hourly sweep's direct write
is none. `IndexStaysExact` does not say what a purge does to redactions.
`CursorsLag` is about what survives a crash; that the running process writes a
cursor behind its claims (`Reaches`) is taken for granted there, and `peer_skip`
shows where the code does not keep to it. `OnlyOwners` is checked of a mailbox
whose clients post to the log it is for; that the handler drops claims of
other logs is not pressed. In `Feed`, replies reach the foreground in the order
they were sent.

*Bounds.* A redaction tie, a redaction of a redaction, a shared blob and a quote
need the five claims of `claimstore`. The interaction of redaction and index in
`ingest` needs one redaction and one target with both kinds of edge. Batches of
one with logs of three give sessions that page several times in each direction,
and `rounds` reaches its cap. In `peer`, channels of one and two messages are the
sizes at which frame, watch, request and response compete for the same place;
the code has 64 (`vouch-relay-server/src/bridge.rs:249`,
`vouch-transport/src/lib.rs:66`), and taps of 256. An eager app culls nothing:
what to cull is the app's policy, and one that culled what it fetches eagerly would
fetch it again. Rebirths, restores, drops, kills, cuts and faults are counted
because each makes the state space several times larger; one of each suffices
for all pairs of different ones, and what a second would start from - a session
over an arbitrary cursor row, a launch over what a crash left - the first
already reaches. The proofs have no such bounds. In `feed` one claim exists at
the start and two or three are written: an edit of an edit, a conflict of two
edits and an edit that answers it, an attestation of what was edited away. The
scenes that write more wait for the screen to settle first (`calm`); the one in
which claims land at any moment writes less. The largest runs are `peer` (530,000
states, a minute), `sync` (310,000) and `feed` (220,000).

*Fairness.* `SyncSession` assumes that the peer answers, that the client feeds
the answer it has, and that sessions are started again, so its `Converges` says
what starting them achieves: who starts them is the caller's business (`sync_now`,
which nothing in the repository calls, or `pump`, which is in `PeerNode`). `PeerNode` assumes that
an actor takes its turns (`Turns`: the loop of `peer.rs` reads every channel),
that a lost connection is dialled again and an unfollowed log followed again,
and, only in the scene with a timer, that `sync_now` is called: "the app's timer
calls this" (`peer.rs:366-367`), but nothing in the app does, so the other
scenes do without. `RelayMailbox` assumes per client that it dials and that its
connection proceeds. `Feed` assumes that the actor and the foreground run and
that the task listens to its tap; claims need never arrive. `RetentionStore`
assumes that the sweep of blobs goes on. `AutoUpdate` assumes that a rung
condition variable wakes the thread and that `curl` and `ditto` end; the
four-hour timer is not relied on. Nothing is assumed of drops, crashes, faults
and writes. `ClaimStore`, `IngestSteps` and `AppDir` assume nothing.

## Where code and docs disagree

Three runs check a sentence of the docs and find it violated.

- `peer_skip` (`PullHonest`): "every claim it counts, we hold"
  (`sync/notify.rs:129-133`). A session that reconciles records the fingerprint
  of its closing `Resettle`, which includes a claim that landed after the hash
  list was sent. Its frame did not fit the channel. The next frame matches the
  recorded fingerprint, and moves the pull position past the claim. A frame need
  not be lost for that: a claim that another pipe's session pulled just then is
  framed to nobody (`peer.rs:1071-1086`), and one that lands before the watch is
  there, or under whose frame the follower's disk fails, is as good as unframed.
  No later connection makes up for it as long as the server's set stays as it is, or
  changes only by what is framed, since the cached fingerprint passes for settled:
  it costs more than the "latency" of `peer.rs:58-63`.
- `peer_wedge` (`CongestionHeals`): "a congested pipe aborts its session and
  retries on the next event" (`peer.rs:58-63`). True of a request that does not
  fit (`pump`), not of a response (`peer.rs:675`): the asker waits for it until the
  connection ends, and a pipe with a session starts no other.
- `feed_missed` (`FeedLive`): "folded live via the peer's firehose"
  (`app/feed.rs:1-2`). The first query is answered before the tap is registered;
  a claim that lands in between shows only when something else lands.

More were seen while modelling, in traces of these modules under properties that
are now stated with the exception, or in the code:

- *Store.* "Redacted claims must be bodiless" (`store.rs:689`): a redact claim
  that is itself redacted keeps its body, by design, and the fsck reports it.
  "Rows are never deleted, so this is monotone and unique" (`store.rs:312-314`):
  a purge deletes rows, and the next row takes a position another still has.
  "No un-redact, in any arrival order" (`store.rs:11-14`): purging the redacted
  row purges the redaction of it, and the claim delivered again keeps its body.
  A purge also takes the redactor of a redaction that stays
  (`store.rs:791-794`). An ingest cut short on a backend without transactions
  leaves index rows for good if its claim is redacted before it is redelivered
  (`store.rs:693-696`).
- *Sync.* A restored backup "is exactly what the fingerprint settle detects"
  (`vouch-store/src/lib.rs:634-638`), unless the restored fingerprint is the
  cached one. That may be: a session dropped between its push and its settle
  leaves the new push position beside the old digest (`sync/session.rs:450-467`,
  `sync/state.rs:36-40`); a peer restored to just that digest passes for
  settled, and lacks what was pushed until either side's set changes. "We've
  fetched everything they had" (`sync/session.rs:549-551`): the fingerprint is
  read after the hash list; a body the peer heals in between is never fetched. A
  body that reaches a row already pushed stripped is not pushed
  (`sync/session.rs:317`). The setting `healing` is
  there for these two. Claims a relay
  purged by age are offered to it again by their owner.
- *Peer.* A `Publish` during which the storage fails is still answered `Ack`, so
  the cursor counts what was dropped until a settle notices. A connection that
  ends with a `GetBlob` in flight loses the bytes until another claim lands.
- *Relay.* A client that was dormant is not told when the mailbox comes into
  being, and its `Watch` is forgotten when it goes live itself. A handshake has no
  timeout and holds its permit. A frame that is not binary ends a live bridge. The
  hourly sweep may open a dormant mailbox while a client materialises it; blobs
  that arrive just then may be swept (`vouch-relay-server/src/main.rs:123-139`).
  A registry keeps the handle of an actor that panicked.
- *App.* A wipe of an old store interrupted after `claims.db` leaves the cursors
  to lead (`vouch-store/src/lib.rs:44-48`). A key file that cannot be read is
  replaced by a new identity. "We never overwrite a file we couldn't read"
  (`app/follows.rs:24-26`) holds of a file that was unreadable at launch; a save
  that fails halfway (`app/follows.rs:121`) tears the file under a process that
  keeps its path, and the next follow, or the rest of the launch, writes over it.
  What is followed in a session that found the file unreadable is lost at its end.
  Corrupt blobs count as held until they are read.
- *Fold.* "Edits are for the source to correct or enrich their own claim, not for
  anyone to rewrite anyone else's" (`fold.rs:12-15`). A claim that references two
  recommendations makes them one thing (`fold.rs:4-7`), all of whose root authors
  are entitled (`fold.rs:258-263`): a friend's edit over my recommendation and one
  of his own sets my words. That contradicts the comment and follows from the design;
  no property denies it. "Exposed rather than silently resolved" (`fold.rs:20-35`):
  two edits compete, a comment answers both, and an edit by someone who was not
  shown one of them references the comment; it hides that one. `ConflictsStand`
  excepts it. "A new edit that references every claim on a field's frontier
  collapses that frontier back to one"
  (`app/ui/modals/edit_recommendation.rs:19-21`), for those who are shown all
  that its author saw. Two edits `a` and `b` compete, a comment answers both,
  and an edit `c` by someone who has not got `a` yet references `b` and the
  comment: it dominates `a` through the comment. The next edit references only
  `c` and the comment. A reader who does not follow the commenter cannot open
  the comment, and sees `a` compete with that edit again. It takes six claims,
  two more than the run `feed` writes; the attempt to prove `EditsSupersede` for
  any number of claims led to it, and the property asks for the comments too. It
  also asks what counted on that screen: a claim that links another author's
  recommendation later brings his old edits into the competition, which nobody had
  reason to supersede.
- *Update.* The stamp is read from the release page, and the bundle from a rolling
  URL afterwards (`app/auto_update.rs:206-243`); the bundle's own stamp is never
  looked at. A page that goes back in between has an older build staged, offered
  and installed under the newer stamp. "A partially-updated bundle ... which the next launch's updater heals
  by re-staging" (`app/auto_update.rs:120-122`): if the binary was among the files
  replaced, the next launch takes itself for the new build. After a failed swap
  `check_state` is `UpToDate` although the newer build is neither running nor
  staged any more (`app/auto_update.rs:46`).

## What is proved

Each theorem holds for every value of its module's constants that satisfies the
module's named assumptions, and is checked by TLAPS to the last leaf.

| Module | Theorem | States |
|---|---|---|
| `StoreProofs` | `TypeCorrect` | `StoreTypeOK` |
| | `StoreIsCanonical` | `Canonicity` |
| | `StoresConverge` | `Convergence` |
| | `FsckStaysHealthy` | `FsckHealthy` |
| | `ArrivalsAreDense` | `ArrivalsDense` |
| | `FingerprintsSuffice` | `FingerprintsDecide` |
| | `RedactionsStick` | `RedactionSticks` |
| | `ArrivalsAreStable` | `ArrivalStable` |
| | `DumpsRestore` | `DumpRestores` |
| | `StepsTyped` | `TypeOK` |
| | `NoDebrisServed` | `ZeroDebris` |
| | `IngestIsAtomic` | `Atomic`, the refinement `Spec => CS!StoreSpec` |
| | `RedeliveryHeals` | `RowsHeal` |
| | `EdgesSurvive` | `EdgesKept` |
| `SyncProofs` | `SyncInvariant` | `SyncInv`, the invariant below |
| | `SyncTyped` | `TypeOK` |
| | `PullsSound` | `PullSound` |
| | `PushesSound` | `PushSound` |
| | `SettledIsBenign` | `NothingToLearn` |
| | `SettledIsTaught` | `NothingToTeach` |
| `PeerProofs` | `PeerInvariant` | `PeerInv`, the invariant below |
| | `PeerTyped` | `TypeOK` |
| | `PeerPullsSound` | `PullSound` |
| | `PeerPushesSound` | `PushSound` |
| `RelayProofs` | `RetentionTyped` | `RetentionTypeOK` |
| | `IndexIsExact` | `IndexStaysExact` |
| | `SweepKeepsPinned` | `PinnedBlobsKept` |
| | `RelayTyped` | `TypeOK` |
| | `DiskIsEarned` | `DiskEarned` |
| | `ActorIsOne` | `OneActor` |
| | `OnlyOwnersPublish` | `OnlyOwners` |
| | `PermitsReturn` | `PermitsKept` |
| `AppProofs` | `DirectoryTyped` | `TypeOK` |
| | `CursorsNeverLead` | `CursorsLag` |
| | `ToldArrivalsKept` | `ArrivalsKept` |
| | `AuthorStays` | `AuthorKept` |
| | `UnreadableStays` | `UnreadableUntouched` |
| | `UpdateTyped` | `UpdateTypeOK` |
| | `StagedStaysIntact` | `StagedIntact` |
| | `BinaryMovesForward` | `NeverDowngraded` |
| `FeedProofs` | `FeedTyped` | `TypeOK` |
| | `RecordIsMeant` | `RecordMeant` |
| | `EditsAreHeeded` | `EditsSupersede` |
| | `ConflictsAreExposed` | `ConflictsStand` |

The invariants the proofs rest on, and why the properties are not inductive
without them:

- **ClaimStore**: `StoreTypeOK /\ HeldFinite /\ Canonicity /\ ArrivalsDense`. `Canonicity`
  is inductive once it speaks of everything at once - rows, bodies, redactors
  and indexes as functions of what was seen: whether an incoming body is kept
  depends on the redactions, whether an edge is dropped on the bodies. A
  position is a cardinality, hence `HeldFinite`. `Convergence` follows because two
  canonical stores of the same set are equal (a smallest redactor is unique),
  `FingerprintsDecide` because every redaction is counted in its redactor's log.
  `DumpRestores` and `RowsHeal` are about runs of ingests. `Reflects(s, E, F)` is
  what such a run keeps - everything in `s` comes from `E`, and all that `F` asks
  for has taken effect - and `IngestAllRule` the induction over its length.
- **IngestSteps**: `Sound` (types, finiteness, and `db = disk` while no
  transaction is open) and `Progress`, which says for each phase how far `db` is
  from `disk` on the way to `Ingest(disk, event)`: the redaction is in; so many
  edges are gone; the body is decided; so many edges are in. `Commit` then
  is the step of `ClaimStore`, and every other step, faults and crashes
  included, a stutter. On backends without transactions the refinement says
  nothing; there `Traced` says of every table that its rows come from what was
  tried and that no redaction is undone, from which a run of ingests leads to the
  reference whatever it starts from (`ReflectsRight`), and `EdgesOrdered` that an
  edge goes after the redaction is in and comes before the body is.
- **SyncSession**: every store is `Sound` (typed, finite, its positions without
  a gap), and `Grown` says that rows stay where they arrived; so what
  `serve_since` sends is a run of positions (`ServedPlaced`), still one after
  both stores have grown. `Effect` names all that one `feed` may do to the two
  copies of a cursor, and is proved phase by phase. `SyncInv` then has five parts:
  types; `Instances` - no cursor names an incarnation the peer never had, so a
  reborn peer's is new to all of them; `Ready` - a batch to be counted continues
  the session's cursor; `Pulling` and `Pushing` - what a cursor counts is `Covered`,
  and so is the answer in flight. `LearnInv` adds what makes an early end right:
  whatever digest is remembered, all it lists was `Met`, and past the peer's list
  of hashes each row was shown, or is still asked for (`Closing`). `TeachInv` is
  its other half: each row counted as pushed is on the remembered digest, or seen
  to be at the peer, or about to be offered (`Teaches`).
- **PeerNode**: `PeerInv` is about both actors and both channels at once (`Pair`),
  in six parts. `Minds`, of either end: stores are sound, the channel is within
  its capacity, and messages correlate - what an actor waits for is exactly what
  its session asks (`Waits`), every request on its way is that question, a fetch
  or a pushed blob (`Asks`), every response under a pending id has the shape
  `feed` expects (`Told`), and per id there is one message, the request or its
  answer (`Once`). `Roles`: a server neither asks nor follows, a follower watches.
  `Off`: without a connection nothing is under way. `Ours`: what a session goes on
  to publish after the hashes is the follower's own. `Learned` holds until
  news lands unframed while the follower reconciles, and is what makes a shared row
  safe:
  each of the two copies of the row counts only what is held, and its `settled`
  digest lists only that (`Knowing`); a frame on its way counts only what its
  fingerprint lists (`Truth`); past the server's list of hashes, each of the
  server's rows is held, in a frame on its way, or still asked for (`Chasing`),
  and the answer on its way is worth that at the place in the channel where it
  is read, the frames ahead of it included (`Awaited`). This last part is why
  order matters, and why a single frame that is missing just then undoes it, as
  `peer_skip` shows: the digest that `Resettle` records lists what landed since the
  hashes, which only its frame brings. At any other time a frame may be lost
  (`LearnLost`, `LearnDropped`): nothing remembered lists what it brought. `Taught` is the other half: either copy's push
  position counts what the relay holds, and an `Ack` on its way stands for its
  batch; it ends when `ReceiveFailing` acknowledges what the disk refused. The
  proof goes action by action; what an action does to one actor is proved first
  (`SendPuts`, `Asked`, `Wrote`, `Went`, `Replied`: which fields changed, what was
  sent), then what that does to the pair. Where the code loops over blobs or
  events, `Iterates` and `Reached` carry a claim along the loop.
- **RetentionStore**: types, finiteness and `IndexStaysExact`; that a blob with a
  live pin is in the index makes the sweep safe.
- **RelayMailbox**: `Proven` - whoever is a publisher asked for it and has the
  key - carries from the handshake to every later message; the rest of the
  invariant is the properties together with `PermitsKept`, which counts
  connections.
- **AppDir**: `CursorsLag` is inductive by itself, once the wipe of an old store is
  seen between its files. `Counted` ties the instance a peer was told to what
  both copies of `sync.db` say; that a fresh instance is never an old one
  needs that draws only grow. `KeyHeld` follows a key from being minted to being
  in the file, through the launch; `SavesReadable` says that an unreadable file
  which the process may save over was torn by itself.
- **AutoUpdate**: `Ordered` - the stamp being downloaded is newer than the one
  staged, that than the one swapped in - is why the thread never clears a directory in
  use, and holds whatever the directories contain. `Forward` - what is offered and
  swapped in is the build its stamp says, and the binary no newer - is why
  binaries move forward, and holds until a download goes astray.
- **Feed**: `Written` (claims are numbered as written, and only what was written
  lands, is answered or shown), `Claimed` (types; references go back), `Piped` (one
  command or answer of the task, and one per follow, is under way), `Meant` (who
  attests own words pressed the button for them) and `Grounded`: a claim - written, or
  captured by an open dialog - `Heeds` what its author had on the screen: it
  references nothing else, and of each thing there it `Covers` what counted, that
  is, its references reach every claim that set a field there, along claims seen
  there. That what is shown is covered (`SeenCovers`) is the heart of it: of the
  claims that reach a given one, the latest is undominated, so it is on the
  frontier the edit references. `Covers` speaks of claims alone, which never
  change, so it lasts; and where all of them are shown again, within whatever thing
  they have become part of, the walk over what is shown finds no less, which gives
  `EditsSupersede`. `ConflictsStand` is the other half of `Heeds`: what dominates a
  word got there by a last reference to it, and whoever wrote that reference saw
  it. `ReachedLeast` and
  `ReachedCloses` say what `Reached`, a recursive function, computes: the least set
  that a walk from its start does not leave.

Every invariant that a run checks is thus proved for all values of the
constants, and so is every action property and the refinement. Model-checked
only is liveness under fairness, which these provers do not do: `SessionsEnd`,
`Converges` (of `SyncSession` and of `PeerNode`), `MediaArrives`,
`OrphansReclaimed`, `Delivered`, `ClickAnswered`, `FeedSettles`. So are the three
violations, which are counterexamples.

## What is not modelled

- Bytes: CBOR, signatures, encryption. Claims arrive verified; keys open what
  they should.
- Several logs in one session plan. Logs are walked one after the other and
  share no state but the store. The blob phase of a session; blobs are fetched
  out of session in `PeerNode`.
- Garbage events (`clean` in `session.rs`): a session that met one does not
  record `settled`.
- SQL and the undo log: both backends are what they guarantee. That `unlink` and
  `rename` reach the disk in the order they were called is assumed in `AppDir`.
- Several pipes of one actor: a pipe is modelled with an environment that lands
  claims and media, which is all that other pipes do to it.
- Inside a relay's session: `PeerNode` has it, `RelayMailbox` takes it as one step.
- Redaction in `Fold`. Redacting an edit that another edit superseded cuts the
  chain of references between that one and the original, whose words come back.
- `app/debug_feed.rs` has the shape of `feed.rs` and is not modelled twice.
- Rendering and widgets, the node's command line, deployment.

What would come next: several logs per plan, `RetentionStore` composed with
`SyncSession` (an owner who offers a relay again what it purged), and several
pipes of one actor, with the environment of `PeerNode` replaced by their other
ends.
