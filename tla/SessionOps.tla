------------------------------ MODULE SessionOps -----------------------------
(***************************************************************************)
(* SyncSession (sync/session.rs) and respond (sync/respond.rs) as          *)
(* operators, for one log.  A side is the record                           *)
(*   [store, row, session]                                                 *)
(* of what one feed() reads and writes: the client's claim store, its      *)
(* saved PeerCursor (sync/state.rs), and the session.  SyncSession and     *)
(* PeerNode take their steps from here.                                    *)
(***************************************************************************)
EXTENDS ClaimOps

CONSTANTS
  TheLog,        \* the log being synced
  Batch          \* events per request (BATCH, MAX_SERVE_BATCH)

ASSUME SessionAssumption ==
  /\ TheLog \in Log
  /\ Batch \in Nat \ {0}

FreshCursor(i) == [instance |-> i, pull |-> 0, push |-> 0, settled |-> None]

\* No session.  A session has its plan: subscribed to the log, offering it.
Idle == [phase |-> "idle", pull |-> FALSE, push |-> FALSE,
         cursor |-> FreshCursor(None), peerCount |-> 0, rounds |-> 0,
         batch |-> <<>>, prefix |-> FALSE, after |-> "settle",
         want |-> <<>>, extra |-> <<>>]

NewSession(pull, push) ==
  [Idle EXCEPT !.phase = "status", !.pull = pull, !.push = push]

Phases == {"idle", "status", "pull", "publish", "settle",
           "hashes", "claims", "resettle"}

Digests == SUBSET (({"claim"} \X Claim \X BOOLEAN)
                     \cup ({"redaction"} \X Claim \X Claim))

Cursor == [instance : Nat \cup {None}, pull : Nat, push : Nat,
           settled : Digests \cup {None}]

SessionOK(s) ==
  /\ s.phase \in Phases /\ s.cursor \in Cursor
  /\ s.pull \in BOOLEAN /\ s.push \in BOOLEAN
  /\ s.peerCount \in Nat /\ s.rounds \in 0 .. 2
  /\ s.batch \in Seq(Event) /\ s.extra \in Seq(Event)
  /\ s.want \in Seq(Claim)

\* The shape feed() expects of the answer, by phase (expect_status, ...).
Expected(phase) ==
  CASE phase \in {"status", "settle", "resettle"} ->
         [count : Nat, print : Digests, instance : Nat]
    [] phase \in {"pull", "claims"} -> Seq(Event)
    [] phase = "publish" -> {"ack"}
    [] phase = "hashes" -> [rows : SUBSET Claim, bodies : SUBSET Claim]
    [] OTHER -> {}

-----------------------------------------------------------------------------
(* Reads of a store *)

Count(s) == LogLen(s, TheLog)
Digest(s) == Fingerprint(s, TheLog)

ServedSince(s, have) ==
  EventsOf(s, InOrder(ServeSince(s, TheLog, have), s.arrival))

ById(s, C) == EventsOf(s, InOrder(C, ByHash))

First(q) == SubSeq(q, 1, IF Len(q) < Batch THEN Len(q) ELSE Batch)
Rest(q) == SubSeq(q, Batch + 1, Len(q))

-----------------------------------------------------------------------------
(* Questions and answers *)

\* next_request(): what the session asks, with what the question carries.
Question(s) ==
  CASE s.phase \in {"status", "settle", "resettle"} -> <<"status", None>>
    [] s.phase = "pull" -> <<"since", s.cursor.pull>>
    [] s.phase = "publish" -> <<"publish", First(s.batch)>>
    [] s.phase = "hashes" -> <<"hashes", None>>
    [] s.phase = "claims" -> <<"claims", First(s.want)>>

StatusOf(store, instance) ==
  [count |-> Count(store), print |-> Digest(store), instance |-> instance]

HashesOf(store) ==
  [rows |-> LogRows(store, TheLog),
   bodies |-> store.body \cap LogRows(store, TheLog)]

\* Only what the peer (still) holds is served, in the order asked for.
ClaimsOf(store, ids) ==
  LET at == InOrder({i \in DOMAIN ids : ids[i] \in store.held},
                    [i \in DOMAIN ids |-> i])
  IN  EventsOf(store, [i \in DOMAIN at |-> ids[at[i]]])

-----------------------------------------------------------------------------
(* The session's moves *)

\* begin_push, then onward: an empty batch skips the push.
BeginPush(s, batch, prefix, after) ==
  [s EXCEPT !.batch = batch, !.prefix = prefix, !.after = after,
            !.phase = IF batch = <<>> THEN after ELSE "publish"]

BeginPrimaryPush(s, store) ==
  BeginPush(s, IF s.push THEN ServedSince(store, s.cursor.push) ELSE <<>>,
            TRUE, "settle")

\* Mutant: the counts survive a rebirth noticed in mid-session.
MutSettleReborn(x, s, a) ==
  LET c == [s.cursor EXCEPT !.instance = a.instance]
      t == [s EXCEPT !.cursor = c, !.peerCount = a.count, !.rounds = @ + 1]
  IN  [x EXCEPT !.row = c,
                !.session = IF t.rounds > 2 THEN Idle
                            ELSE IF t.pull /\ a.count > 0
                            THEN [t EXCEPT !.phase = "pull"]
                            ELSE BeginPrimaryPush(t, x.store)]

\* settle_with(a) on session s of side x: the log was reborn; again from the top.
SettleReborn(x, s, a) ==
  LET c == FreshCursor(a.instance)
      t == [s EXCEPT !.cursor = c, !.peerCount = a.count, !.rounds = @ + 1]
  IN  [x EXCEPT !.row = c,
                !.session = IF t.rounds > 2 THEN Idle
                            ELSE IF t.pull /\ a.count > 0
                            THEN [t EXCEPT !.phase = "pull"]
                            ELSE BeginPrimaryPush(t, x.store)]

AnotherLap(s, a) == s.pull /\ a.count > s.cursor.pull /\ s.rounds < 2

SettleLap(x, s, a) ==
  [x EXCEPT !.session = [s EXCEPT !.rounds = @ + 1, !.peerCount = a.count,
                                  !.phase = "pull"]]

\* Equal: remember.  The known benign difference: done.  Else: reconcile.
SettleDecide(x, s, a) ==
  IF a.print = Digest(x.store)
  THEN [x EXCEPT !.row = [s.cursor EXCEPT !.settled = a.print],
                 !.session = Idle]
  ELSE [x EXCEPT !.session = IF s.cursor.settled = a.print THEN Idle
                             ELSE [s EXCEPT !.phase = "hashes"]]

Settle(x, s, a) ==
  IF s.cursor.instance # a.instance THEN SettleReborn(x, s, a)
  ELSE IF AnotherLap(s, a) THEN SettleLap(x, s, a)
  ELSE SettleDecide(x, s, a)

-----------------------------------------------------------------------------
(* feed(), by phase: side x consumes answer a *)

FedStatus(x, a) ==
  LET c == IF x.row.instance = a.instance THEN x.row
           ELSE FreshCursor(a.instance)
      y == [x EXCEPT !.row = c]
      s == [x.session EXCEPT !.cursor = c, !.peerCount = a.count]
      pushing == BeginPrimaryPush(s, x.store)
  IN  IF s.pull /\ c.pull < a.count
      THEN [y EXCEPT !.session = [s EXCEPT !.phase = "pull"]]
      ELSE IF pushing.phase = "publish" THEN [y EXCEPT !.session = pushing]
      ELSE Settle(y, pushing, a)       \* this Status is the settle

\* Mutant: an empty answer is a batch like any other.
MutFedPull(x, a) ==
  LET c == [x.session.cursor EXCEPT !.pull = @ + Len(a)]
      s == [x.session EXCEPT !.cursor = c]
      store == IngestAll(x.store, a)
  IN  [x EXCEPT !.store = store, !.row = c,
                !.session = IF c.pull >= s.peerCount
                            THEN BeginPrimaryPush(s, store) ELSE s]

\* Positions are consumed whether or not each event was news.
FedPull(x, a) ==
  LET c == [x.session.cursor EXCEPT !.pull = @ + Len(a)]
      s == [x.session EXCEPT !.cursor = c]
      store == IngestAll(x.store, a)
  IN  IF a = <<>> THEN [x EXCEPT !.session = BeginPrimaryPush(@, x.store)]
      ELSE [x EXCEPT !.store = store, !.row = c,
                     !.session = IF c.pull >= s.peerCount
                                 THEN BeginPrimaryPush(s, store) ELSE s]

\* Mutant: reconciliation batches move the push cursor too.
MutFedPublish(x, a) ==
  LET c == [x.session.cursor EXCEPT !.push = @ + Len(First(x.session.batch))]
      s == [x.session EXCEPT !.batch = Rest(@), !.cursor = c]
  IN  [x EXCEPT !.row = c,
                !.session = IF s.batch = <<>> THEN [s EXCEPT !.phase = s.after]
                            ELSE s]

\* Only a serve_since prefix moves the push cursor; the Ack's counts do not.
FedPublish(x, a) ==
  LET prefix == x.session.prefix
      c == [x.session.cursor EXCEPT !.push = @ + Len(First(x.session.batch))]
      s == [x.session EXCEPT !.batch = Rest(@),
                             !.cursor = IF prefix THEN c ELSE @]
  IN  [x EXCEPT !.row = IF prefix THEN c ELSE @,
                !.session = IF s.batch = <<>> THEN [s EXCEPT !.phase = s.after]
                            ELSE s]

FedSettle(x, a) == Settle(x, x.session, a)

\* Mutant: bodies of held claims are never asked for.
MutWanted(store, theirs) == theirs.rows \ store.held

\* What the peer lists and we lack, bodies we may hold included.
Wanted(store, theirs) ==
  {c \in theirs.rows :
     \/ c \notin store.held
     \/ /\ c \notin store.body /\ c \in theirs.bodies
        /\ store.redaction[c] = None}

\* What we hold and the peer lacks, bodies included.
Offered(store, theirs) ==
  {c \in LogRows(store, TheLog) :
     \/ c \notin theirs.rows
     \/ c \in store.body /\ c \notin theirs.bodies}

\* Mutant: once claims were fetched, ours are no longer published.
MutAfterClaims(s) == [s EXCEPT !.phase = "resettle"]

AfterClaims(s) ==
  IF s.extra = <<>> THEN [s EXCEPT !.phase = "resettle"]
  ELSE BeginPush([s EXCEPT !.extra = <<>>], s.extra, FALSE, "resettle")

FedHashes(x, a) ==
  LET want == IF x.session.pull THEN Wanted(x.store, a) ELSE {}
      offer == IF x.session.push THEN Offered(x.store, a) ELSE {}
      s == [x.session EXCEPT !.want = InOrder(want, ByHash),
                             !.extra = ById(x.store, offer)]
  IN  [x EXCEPT !.session = IF want # {} THEN [s EXCEPT !.phase = "claims"]
                            ELSE AfterClaims(s)]

FedClaims(x, a) ==
  LET s == [x.session EXCEPT !.want = Rest(@)]
  IN  [x EXCEPT !.store = IngestAll(@, a),
                !.session = IF s.want = <<>> THEN AfterClaims(s) ELSE s]

\* The landing point becomes the known benign difference.
FedResettle(x, a) ==
  LET c == x.session.cursor
  IN  [x EXCEPT !.row = IF c.instance = a.instance
                        THEN [c EXCEPT !.settled = a.print] ELSE @,
                !.session = Idle]

Fed(x, a) ==
  CASE x.session.phase = "status" -> FedStatus(x, a)
    [] x.session.phase = "pull" -> FedPull(x, a)
    [] x.session.phase = "publish" -> FedPublish(x, a)
    [] x.session.phase = "settle" -> FedSettle(x, a)
    [] x.session.phase = "hashes" -> FedHashes(x, a)
    [] x.session.phase = "claims" -> FedClaims(x, a)
    [] x.session.phase = "resettle" -> FedResettle(x, a)

-----------------------------------------------------------------------------
\* Reader r has what the holder h has of the log, unless redacted at r.
Caught(r, h) ==
  \A c \in LogRows(h, TheLog) :
    /\ c \in r.held
    /\ c \in h.body => c \in r.body \/ r.redaction[c] # None
=============================================================================
