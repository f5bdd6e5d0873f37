------------------------------ MODULE PeerNode ------------------------------
(***************************************************************************)
(* Two peer actors (peer.rs) on one duct, and one log between them: the    *)
(* follower pulls it and, holding its pen, pushes it; the server serves    *)
(* it, and frames what lands (sync/notify.rs) while the follower watches.  *)
(*                                                                         *)
(* An actor takes one turn per input - a command, or a message off the     *)
(* duct - and then pumps: starts a session if it has appetite for one.     *)
(* Everything it sends goes by try_send into a bounded channel: what does  *)
(* not fit is not sent.  A session's messages (SessionOps) interleave with *)
(* frames, watches and blob fetches on the same channel.                   *)
(***************************************************************************)
EXTENDS SessionOps, SequencesExt

(***************************************************************************)
(* Who the two are, by the name of a scene.  author: who holds the pen.    *)
(* relay: the server is a relay (ServePolicy::Everything), not an app.     *)
(* eager: the follower's pipe is eager_media.  cap: what fits a channel.   *)
(* timer: somebody keeps calling sync_now.  mints: what the author writes. *)
(* heard, media: what reaches the server through its other pipes.  fickle: *)
(* the follower may unfollow the log.  drops, faults, demands: how often   *)
(* she does or the connection dies, a disk fails under accept_publish, a   *)
(* frame or a session, and the reader asks for bytes or culls them.        *)
(***************************************************************************)
CONSTANT Scenes

Node == {"follower", "server"}
Other(n) == CHOOSE m \in Node : m # n

\* A claim's bytes pin finitely many blobs; Option::None is no number, no digest.
ASSUME PeerAssumption ==
  /\ \A w \in DOMAIN Scenes :
       Scenes[w] \in [author : Node, relay : BOOLEAN, eager : BOOLEAN,
                      cap : Nat \ {0}, timer : BOOLEAN,
                      mints : SUBSET Claim, heard : SUBSET Event,
                      media : SUBSET Blob, fickle : BOOLEAN,
                      drops : Nat, faults : Nat, demands : Nat]
  /\ \A c \in Claim : IsFiniteSet(Pins[c])
  /\ None \notin Nat /\ \A D \in Digests : D # None

VARIABLES
  scene,      \* the scene's name; never changes
  up,         \* is there a connection?
  node,       \* the two actors, each with its end of the duct
  drops, faults, demands   \* counters of the bounds

vars == <<scene, up, node, drops, faults, demands>>

Scene == Scenes[scene]

(***************************************************************************)
(* An actor: its database (store, blobs), the cursor row of the other end, *)
(* and its pipe - session, pending request, dirty, what the other end      *)
(* watches, blob fetches in flight, whether it follows the log here.       *)
(* stirred: the session's report is not empty.  out: the channel to the    *)
(* other end.  missed, for the properties: what the other end did not get  *)
(* of this one on this connection - a response, a request, or a frame or a *)
(* watch ("push") - and, on whatever connection, that news landed without  *)
(* a frame while the follower reconciled ("gap").                          *)
(***************************************************************************)
Pipeless(a) ==
  [a EXCEPT !.session = Idle, !.pending = None, !.dirty = FALSE,
            !.watched = FALSE, !.fetching = {}, !.follows = FALSE,
            !.stirred = FALSE, !.out = <<>>, !.missed = @ \cap {"gap"}]

Newborn ==
  [store |-> EmptyStore, blobs |-> {}, row |-> FreshCursor(None),
   session |-> Idle, pending |-> None, dirty |-> FALSE, watched |-> FALSE,
   fetching |-> {}, follows |-> FALSE, stirred |-> FALSE, out |-> <<>>,
   missed |-> {}]

Instance == 1

Init ==
  /\ scene \in DOMAIN Scenes
  /\ up = FALSE
  /\ node = [n \in Node |-> Newborn]
  /\ drops = 0 /\ faults = 0 /\ demands = 0

Serves(n) == Scene.author = n \/ (Scene.relay /\ n = "server")

Eager(n) == IF n = "server" THEN Scene.relay ELSE Scene.eager

-----------------------------------------------------------------------------
(* Sending *)

Msg(kind, id, body) == [kind |-> kind, id |-> id, body |-> body]

Room(x) == Len(x.out) < Scene.cap

\* try_send.
Send(x, m) ==
  IF Room(x) THEN [x EXCEPT !.out = Append(@, m)]
  ELSE [x EXCEPT !.missed = @ \cup {IF m.kind \in {"frame", "watch"} THEN "push"
                                    ELSE m.kind}]

(***************************************************************************)
(* next_request_id: an id no request in flight has.  The actor counts up;  *)
(* which fresh id it takes makes no difference.  Nobody awaits id 0.       *)
(***************************************************************************)
MutFreshId(x) == 1   \* mutant: the counter is not advanced

FreshId(x) ==
  LET used == {x.pending} \cup {f[1] : f \in x.fetching}
  IN  CHOOSE i \in 1 .. Cardinality(used) + 1 :
        /\ i \notin used
        /\ \A j \in 1 .. i - 1 : j \in used

\* notify_for.
Frame(x, events) ==
  [events |-> events, count |-> Count(x.store), print |-> Digest(x.store),
   instance |-> Instance]

\* Has the follower asked what the server lists, to settle on what it answers?
Reconciling ==
  LET s == node["follower"].session
  IN  \/ s.phase \in {"hashes", "claims", "resettle"}
      \/ s.phase = "publish" /\ s.after = "resettle"

Gap == IF Reconciling THEN {"gap"} ELSE {}

\* News that is not framed, as the histories see it.
Untold(x) ==
  [x EXCEPT !.missed = @ \cup (IF x.watched THEN {"push"} ELSE {})
                         \cup (IF x.follows THEN {} ELSE Gap)]

\* landed(), as the pipe that did not bring it sees it.
Landed(x, events) ==
  IF x.watched /\ Room(x) THEN Send(x, Msg("frame", 0, Frame(x, events)))
  ELSE Untold(x)

Missing(x) == {p[1] : p \in x.store.pins} \ x.blobs

\* request_blob: one fetch in flight per hash.
RequestBlob(x, b) ==
  LET id == FreshId(x)
      sent == Send(x, Msg("request", id, <<"get", b>>))
  IN  IF \E f \in x.fetching : f[2] = b THEN x
      ELSE IF Room(x) THEN [sent EXCEPT !.fetching = @ \cup {<<id, b>>}]
      ELSE sent

\* One blob after the other.
RequestAll(x, blobs) ==
  LET after[i \in 0 .. Len(blobs)] ==
        IF i = 0 THEN x ELSE RequestBlob(after[i - 1], blobs[i])
  IN  after[Len(blobs)]

EagerFetch(x, n) ==
  IF Eager(n) THEN RequestAll(x, SetToSeq(Missing(x))) ELSE x

-----------------------------------------------------------------------------
(* Sessions on the pipe *)

\* advance_session: the next request, or the end.
Advance(x, n) ==
  LET id == FreshId(x)
      q == Question(x.session)
      done == [x EXCEPT !.stirred = FALSE]
  IN  IF x.session.phase = "idle"
      THEN IF x.stirred THEN EagerFetch(done, n) ELSE done
      ELSE IF Room(x)
      THEN [Send(x, Msg("request", id, q)) EXCEPT !.pending = id]
      ELSE [Send(done, Msg("request", id, q)) EXCEPT !.session = Idle,
                                                      !.dirty = TRUE]

\* pump: appetite and no session running; the plan is what is followed here.
Pump(x, n) ==
  IF ~x.dirty \/ x.session.phase # "idle" THEN x
  ELSE IF ~x.follows THEN [x EXCEPT !.dirty = FALSE]
  ELSE Advance([x EXCEPT !.dirty = FALSE,
                         !.session = NewSession(TRUE, Scene.author = n)], n)

\* session_response: feed() consumes it and the session goes on.
SessionResponse(x, n, a) ==
  LET y == Fed(x, a)
      moved == y.store # x.store \/ y.session.phase = "hashes"
  IN  Advance([y EXCEPT !.pending = None, !.stirred = @ \/ moved], n)

\* How many of feed()'s writes may go well before one fails; Hashes writes nothing.
Writes(s, a) ==
  CASE s.phase = "pull" -> 0 .. Len(a)
    [] s.phase = "claims" -> 0 .. Len(a) - 1
    [] s.phase = "hashes" -> {}
    [] OTHER -> 0 .. 1

Recalled(row, f) == IF row.instance = f.instance THEN row
                    ELSE FreshCursor(f.instance)

\* feed() fails after k writes: the session is abandoned.
SessionFails(x, a, k) ==
  LET s == x.session
  IN  [x EXCEPT !.store = IF s.phase \in {"pull", "claims"}
                          THEN IngestAll(@, SubSeq(a, 1, k)) ELSE @,
                !.row = IF s.phase = "status" /\ k = 1 THEN Recalled(@, a) ELSE @,
                !.session = Idle, !.pending = None, !.stirred = FALSE]

\* A blob fetch is answered by bytes or not; a session by what it asked.
OnResponse(x, n, m) ==
  IF \E f \in x.fetching : f[1] = m.id
  THEN LET f == CHOOSE g \in x.fetching : g[1] = m.id
       IN  [x EXCEPT !.fetching = @ \ {f}, !.blobs = @ \cup m.body]
  ELSE IF x.pending = m.id THEN SessionResponse(x, n, m.body)
  ELSE x

-----------------------------------------------------------------------------
(* Serving *)

\* Pinned by a claim this peer serves, and here: the bytes, or none.
BytesOf(x, n, b) ==
  IF Serves(n) /\ \E p \in x.store.pins : p[1] = b THEN {b} \cap x.blobs
  ELSE {}

\* A log not served looks empty, and is not told from an empty one.
Answer(x, n, ask) ==
  LET s == IF Serves(n) THEN x.store ELSE EmptyStore
  IN  CASE ask[1] = "status" -> StatusOf(s, Instance)
        [] ask[1] = "since" -> First(ServedSince(s, ask[2]))
        [] ask[1] = "hashes" -> HashesOf(s)
        [] ask[1] = "claims" -> ClaimsOf(s, ask[2])
        [] ask[1] = "get" -> BytesOf(x, n, ask[2])
        [] ask[1] \in {"publish", "put"} -> "ack"

\* Mutant: the first event of a batch is skipped.
MutAccepted(x, n, events, k) ==
  [x EXCEPT !.store = IngestAll(@, SubSeq(events, 2, k))]

\* accept_publish: ours, followed or hosted; the disk may fail after k events.
Accepted(x, n, events, k) ==
  IF Serves(n) \/ x.follows
  THEN [x EXCEPT !.store = IngestAll(@, SubSeq(events, 1, k))]
  ELSE x

\* Only bytes on the want-list are stored.
Put(x, b) == [x EXCEPT !.blobs = @ \cup ({b} \cap Missing(x))]

\* respond_scoped, the response, and an eager look at what landed.
OnRequest(x, n, m, k) ==
  LET ask == m.body
      y == IF ask[1] = "publish" THEN Accepted(x, n, ask[2], k)
           ELSE IF ask[1] = "put" THEN Put(x, ask[2])
           ELSE x
      z == Send(y, Msg("response", m.id, Answer(x, n, ask)))
  IN  IF y.store # x.store \/ y.blobs # x.blobs THEN EagerFetch(z, n) ELSE z

\* A Watch: one heartbeat back, if we serve the log.
OnWatch(x, n, m) ==
  LET y == [x EXCEPT !.watched = m.body /\ Serves(n)]
  IN  IF y.watched THEN Landed(y, <<>>) ELSE y

-----------------------------------------------------------------------------
(* Frames *)

\* sender_delta: what the event did to the sender's digest, by our own state.
SenderDelta(s, e) ==
  LET t == OwnRedaction(e)
      flip == IF t \in s.held
              THEN {<<"claim", t, TRUE>>, <<"claim", t, FALSE>>} ELSE {}
  IN  IF t = None THEN {<<"claim", e.id, e.body>>}
      ELSE SymDiff({<<"claim", e.id, e.body>>, <<"redaction", t, e.id>>},
                   flip)

\* An event pushed: the settled cache follows it, the store takes it.
Track(s, e) ==
  [store |-> Ingest(s.store, e),
   settled |-> IF s.settled = None THEN None
               ELSE SymDiff(s.settled, SenderDelta(s.store, e))]

Tracked(store, settled, events) ==
  LET after[i \in 0 .. Len(events)] ==
        IF i = 0 THEN [store |-> store, settled |-> settled]
        ELSE Track(after[i - 1], events[i])
  IN  after[Len(events)]

\* Settled: by equality, or by the cache.
Settles(s, cursor, f) == f.print = Digest(s) \/ cursor.settled = f.print

\* Mutant: a frame that brought something new moves the pull cursor.
MutFastForward(s, cursor, f) ==
  IF Settles(s, cursor, f) \/ f.events # <<>>
  THEN [cursor EXCEPT !.pull = IF @ < f.count THEN f.count ELSE @,
                      !.settled = f.print]
  ELSE cursor

FastForward(s, cursor, f) ==
  IF Settles(s, cursor, f)
  THEN [cursor EXCEPT !.pull = IF @ < f.count THEN f.count ELSE @,
                      !.settled = f.print]
  ELSE cursor

\* apply_frame: not settled rings our own doorbell.
OnFrame(x, n, m) ==
  LET f == m.body
      row == Recalled(x.row, f)
      t == Tracked(x.store, row.settled, f.events)
      cursor == [row EXCEPT !.settled = t.settled]
  IN  EagerFetch([x EXCEPT !.store = t.store,
                           !.row = FastForward(t.store, cursor, f),
                           !.dirty = @ \/ ~Settles(t.store, cursor, f)], n)

\* apply_notify fails after k events: neither row nor doorbell.
FrameFails(x, m, k) ==
  [x EXCEPT !.store = IngestAll(@, SubSeq(m.body.events, 1, k)),
            !.missed = @ \cup Gap]

-----------------------------------------------------------------------------
(* Turns *)

\* One turn of actor n, ending in state x and pumping.
Turn(n, x) ==
  \E y \in {IF up THEN Pump(x, n) ELSE x} : node' = [node EXCEPT ![n] = y]

Inbox(n) == node[Other(n)].out

Handled(n, m, k) ==
  LET x == node[n]
  IN  CASE m.kind = "request" -> OnRequest(x, n, m, k)
        [] m.kind = "response" -> OnResponse(x, n, m)
        [] m.kind = "frame" -> OnFrame(x, n, m)
        [] m.kind = "watch" -> OnWatch(x, n, m)

Consumed(n, x) ==
  \E y \in {Pump(x, n)} :
    node' = [node EXCEPT ![n] = y, ![Other(n)].out = Tail(@)]

\* The events a message would publish.
Carried(m) ==
  IF m.kind = "request" /\ m.body[1] = "publish" THEN m.body[2] ELSE <<>>

Receive(n) ==
  /\ Inbox(n) # <<>>
  /\ \E m \in {Head(Inbox(n))} : Consumed(n, Handled(n, m, Len(Carried(m))))
  /\ UNCHANGED <<scene, up, drops, faults, demands>>

\* Storage fails under accept_publish, whose answer is an Ack all the same, or
\* under a frame or an answer; nothing is told, fetched or retried.
ReceiveFailing(n) ==
  /\ Inbox(n) # <<>> /\ faults < Scene.faults
  /\ \E m \in {Head(Inbox(n))}, x \in {node[n]} :
       \/ \E k \in 0 .. Len(Carried(m)) - 1 : Consumed(n, Handled(n, m, k))
       \/ /\ m.kind = "frame"
          /\ \E k \in 0 .. Len(m.body.events) : Consumed(n, FrameFails(x, m, k))
       \/ /\ m.kind = "response" /\ m.id = x.pending
          /\ \E k \in Writes(x.session, m.body) :
               Consumed(n, SessionFails(x, m.body, k))
  /\ faults' = faults + 1
  /\ UNCHANGED <<scene, up, drops, demands>>

\* A new duct under the old name, and the follow that announces the watch.
Connect ==
  /\ ~up
  /\ up' = TRUE
  /\ \E x \in {Send([node["follower"] EXCEPT !.follows = TRUE, !.dirty = TRUE],
                    Msg("watch", 0, TRUE))} :
       \E y \in {Pump(x, "follower")} :
         node' = [node EXCEPT !["follower"] = y]
  /\ UNCHANGED <<scene, drops, faults, demands>>

\* drop_pipe at both ends; what was in the channels is gone.
Disconnect ==
  /\ up /\ drops < Scene.drops
  /\ up' = FALSE /\ drops' = drops + 1
  /\ node' = [n \in Node |-> Pipeless(node[n])]
  /\ UNCHANGED <<scene, faults, demands>>

\* Unfollow, and Follow on the same pipe: each announces what is watched now.
Refollow(follows) ==
  LET x == node["follower"]
  IN  /\ up /\ x.follows # follows
      /\ follows \/ (Scene.fickle /\ drops < Scene.drops)
      /\ Turn("follower", Send([x EXCEPT !.follows = follows,
                                         !.dirty = @ \/ follows],
                               Msg("watch", 0, follows)))
      /\ drops' = IF follows THEN drops ELSE drops + 1
      /\ UNCHANGED <<scene, up, faults, demands>>

\* sync_now.
SyncNow ==
  /\ Scene.timer /\ up
  /\ Turn("follower", [node["follower"] EXCEPT !.dirty = TRUE])
  /\ UNCHANGED <<scene, up, drops, faults, demands>>

\* Mutant: the author's own pipe is not kicked by what she writes.
MutMinted(x, n, c) ==
  LET held == [x EXCEPT !.blobs = @ \cup Pins[c],
                        !.store = Ingest(@, [id |-> c, body |-> TRUE])]
  IN  Landed(held, <<[id |-> c, body |-> TRUE]>>)

\* One try_send after the other.
PutAll(x, blobs) ==
  LET after[i \in 0 .. Len(blobs)] ==
        IF i = 0 THEN x
        ELSE Send(after[i - 1], Msg("request", 0, <<"put", blobs[i]>>))
  IN  after[Len(blobs)]

\* mint: blobs, claim, frame, PutBlobs to whoever watches, own pipe kicked.
Minted(x, n, c) ==
  LET held == [x EXCEPT !.blobs = @ \cup Pins[c],
                        !.store = Ingest(@, [id |-> c, body |-> TRUE])]
      told == Landed(held, <<[id |-> c, body |-> TRUE]>>)
      put == PutAll(told, SetToSeq(IF x.watched THEN Pins[c] ELSE {}))
  IN  [put EXCEPT !.dirty = @ \/ x.follows]

Mint(c) ==
  LET n == Scene.author
  IN  /\ \A m \in Node : c \notin node[m].store.held
      /\ Turn(n, Minted(node[n], n, c))
      /\ UNCHANGED <<scene, up, drops, faults, demands>>

\* The server's other pipes bring it a claim, a body, or bytes it misses: in a
\* frame or a Publish.
Heard(e) ==
  LET x == node["server"]
  IN  /\ Ingest(x.store, e) # x.store
      /\ Turn("server", Landed([x EXCEPT !.store = Ingest(@, e)], <<e>>))
      /\ UNCHANGED <<scene, up, drops, faults, demands>>

\* In a session of its own, which tells its taps alone; a relay has none.
HeardInSession(e) ==
  LET x == node["server"]
  IN  /\ ~Scene.relay
      /\ Ingest(x.store, e) # x.store
      /\ Turn("server", Untold([x EXCEPT !.store = Ingest(@, e)]))
      /\ UNCHANGED <<scene, up, drops, faults, demands>>

\* Mutant: bytes that land are no news.
MutHeardBlob(b) ==
  LET x == node["server"]
  IN  /\ b \in Missing(x)
      /\ Turn("server", [x EXCEPT !.blobs = @ \cup {b}])
      /\ UNCHANGED <<scene, up, drops, faults, demands>>

HeardBlob(b) ==
  LET x == node["server"]
  IN  /\ b \in Missing(x)
      /\ Turn("server", Landed([x EXCEPT !.blobs = @ \cup {b}], <<>>))
      /\ UNCHANGED <<scene, up, drops, faults, demands>>

\* demand_blob: the reader's screen asks for what it misses.
FetchBlob(b) ==
  LET x == node["follower"]
  IN  /\ up /\ x.follows /\ b \in Missing(x)
      /\ demands < Scene.demands
      /\ Turn("follower", RequestBlob(x, b))
      /\ demands' = demands + 1
      /\ UNCHANGED <<scene, up, drops, faults>>

\* What to cull, and when, is the app's policy: an eager one culls nothing.
EvictBlob(b) ==
  /\ ~Scene.eager
  /\ demands < Scene.demands /\ b \in node["follower"].blobs
  /\ Turn("follower", [node["follower"] EXCEPT !.blobs = @ \ {b}])
  /\ demands' = demands + 1
  /\ UNCHANGED <<scene, up, drops, faults>>

Next ==
  \/ \E n \in Node : Receive(n) \/ ReceiveFailing(n)
  \/ Connect \/ Disconnect \/ Refollow(TRUE) \/ Refollow(FALSE) \/ SyncNow
  \/ \E c \in Scene.mints : Mint(c)
  \/ \E e \in Scene.heard : Heard(e) \/ HeardInSession(e)
  \/ \E b \in Blob : HeardBlob(b) /\ b \in Scene.media
  \/ \E b \in Blob : FetchBlob(b) \/ EvictBlob(b)

(***************************************************************************)
(* The executor runs both actors, the transport dials again and follows,   *)
(* the timer of a scene that has one ticks.  An actor's turns are weakly   *)
(* fair, said without ENABLED, which costs TLC far more than the step.     *)
(***************************************************************************)
Turns(n) == []<>(Inbox(n) = <<>>) \/ []<><<Receive(n)>>_vars

Spec == Init /\ [][Next]_vars
          /\ WF_vars(Connect) /\ WF_vars(Refollow(TRUE)) /\ WF_vars(SyncNow)
          /\ \A n \in Node : Turns(n)

-----------------------------------------------------------------------------
(***************************************************************************)
(* Type invariant.  With the correlation of requests: a session waits for  *)
(* exactly one request, and what travels under its id is that request or   *)
(* an answer of the shape feed() expects.                                  *)
(***************************************************************************)
Requests(n) == {i \in DOMAIN node[n].out : node[n].out[i].kind = "request"}
Responses(n) == {i \in DOMAIN node[n].out : node[n].out[i].kind = "response"}

NodeOK(n) ==
  LET x == node[n]
  IN  /\ x.store \in Store /\ x.blobs \subseteq Blob /\ x.row \in Cursor
      /\ SessionOK(x.session)
      /\ x.dirty \in BOOLEAN /\ x.watched \in BOOLEAN /\ x.follows \in BOOLEAN
      /\ x.stirred \in BOOLEAN
      /\ x.fetching \subseteq (Nat \ {0}) \X Blob
      /\ x.pending \in (Nat \ {0}) \cup {None}
      /\ (x.pending = None) <=> (x.session.phase = "idle")
      /\ Len(x.out) <= Scene.cap
      /\ x.missed \subseteq {"response", "request", "push", "gap"}

Correlated(n) ==
  LET x == node[n]
      answers == node[Other(n)].out
  IN  /\ \A i \in Requests(n) :
           x.out[i].id = x.pending => x.out[i].body = Question(x.session)
      /\ \A i \in Responses(Other(n)) :
           answers[i].id = x.pending /\ x.pending # None
             => answers[i].body \in Expected(x.session.phase)
      /\ Cardinality({i \in Requests(n) : x.out[i].id = x.pending})
           + Cardinality({i \in Responses(Other(n)) :
                            answers[i].id = x.pending}) <= 1

TypeOK ==
  /\ scene \in DOMAIN Scenes /\ up \in BOOLEAN
  /\ drops \in 0 .. Scene.drops /\ faults \in 0 .. Scene.faults
  /\ demands \in 0 .. Scene.demands
  /\ \A n \in Node : NodeOK(n) /\ Correlated(n)

-----------------------------------------------------------------------------
Follower == node["follower"]
Server == node["server"]
Missed == Follower.missed \cup Server.missed

Unpulled == {c \in LogRows(Server.store, TheLog) :
               /\ Server.store.arrival[c] < Follower.row.pull
               /\ c \notin Follower.store.held}

(***************************************************************************)
(* Frames and sessions write the same cursor row, from copies read at      *)
(* different times; however they interleave, the pull position never runs  *)
(* ahead of what is held - unless news landed at the server unframed while *)
(* the follower reconciled: it did not fit the channel, or came in by a    *)
(* session of the server's own, or by no watch (peer.rs:819-859,           *)
(* 1071-1086, notify.rs:125-140).                                          *)
(***************************************************************************)
PullSound == "gap" \in Missed \/ Unpulled = {}

(***************************************************************************)
(* notify.rs:127-133 says so of every frame: what a settled frame counts,  *)
(* we hold.                                                                *)
(***************************************************************************)
PullHonest == Unpulled = {}

(***************************************************************************)
(* What the push position counts, the relay has: its Ack is worth it, as   *)
(* long as its disk does not fail.  (A peer that neither serves nor        *)
(* follows the log declines it, and answers Ack; peer.rs:943-984.)         *)
(***************************************************************************)
PushSound ==
  Scene.author = "follower" /\ Scene.relay /\ faults = 0 =>
    \A c \in LogRows(Follower.store, TheLog) :
      Follower.store.arrival[c] < Follower.row.push => c \in Server.store.held

-----------------------------------------------------------------------------
(* Progress *)

Synced == Digest(Follower.store) = Digest(Server.store)

\* A timer makes up for requests, frames and watches that were not sent.
Unhealed == Missed \ (IF Scene.timer THEN {"request", "push"} ELSE {})

(***************************************************************************)
(* Once nothing more is written both ends hold the same log, whatever the  *)
(* connections before the last one lost: without any timer, since follow,  *)
(* frames and the author's own pen ring often enough, if on the last one   *)
(* every message fitted its channel and all news was framed; with a timer, *)
(* if every response fitted.  Two things no later connection heals: news   *)
(* that landed unframed while the follower reconciled, and a disk that     *)
(* failed under a batch (peer.rs:58-63, 984-1010, 1058-1065).              *)
(***************************************************************************)
Converges == <>[](Unhealed # {} \/ faults > 0 \/ Synced)

(***************************************************************************)
(* peer.rs:58-63 says it of any congestion: whatever did not fit, the next *)
(* session makes up for it.  Checked where it fails: a response that does  *)
(* not fit leaves its session waiting until the connection dies.           *)
(***************************************************************************)
CongestionHeals == <>[](Scene.timer => "gap" \in Missed \/ Synced)

(***************************************************************************)
(* Media chases its claim: what an eager peer's claims pin it comes to     *)
(* hold if the other end does, whichever of claim and bytes came first and *)
(* whatever its screen asks for in between, as long as no connection, no   *)
(* message and no write is lost (peer.rs:642-645, 750-762, 907-918).       *)
(***************************************************************************)
MediaArrives ==
  <>[](Missed = {} /\ drops = 0 /\ faults = 0 =>
         \A n \in Node :
           Eager(n) => Missing(node[n]) \cap node[Other(n)].blobs = {})
=============================================================================
