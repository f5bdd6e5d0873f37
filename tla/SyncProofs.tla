----------------------------- MODULE SyncProofs -----------------------------
(***************************************************************************)
(* Proofs about one client and one peer in step, for every set of claims,  *)
(* every batch size and every setting: what a session is fed answers what  *)
(* it asked, and a saved position never counts a row the other end lacks,  *)
(* whatever is dropped, reborn or written in between.                      *)
(***************************************************************************)
EXTENDS SyncSession, SessionProofs

-----------------------------------------------------------------------------
(* The inductive invariant *)

Typed ==
  /\ TypeOK /\ session \in Session
  /\ Sound(mine) /\ Sound(theirs) /\ Sound(backup)
  /\ session.phase = "hashes" /\ answer # None => IsFiniteSet(answer.rows)

\* No cursor and no Status names an incarnation the peer never had.
Instances ==
  /\ \A c \in Cursors(Client) : c.instance \in 1 .. instance \/ Zero(c)
  /\ session.phase \notin {"idle", "status"} =>
       session.cursor.instance \in 1 .. instance
  /\ session.phase \in {"status", "settle", "resettle"} /\ answer # None =>
       answer.instance \in 1 .. instance

\* What either cursor counts as pulled is held, and an answer to a pull
\* continues where the session's cursor stands.
Pulling ==
  /\ \A c \in Cursors(Client) :
       c.instance = instance => Covered(c.pull, theirs, mine)
  /\ session.phase = "pull" /\ answer # None
       /\ session.cursor.instance = instance =>
         Placed(answer, theirs, session.cursor.pull)

\* What either cursor counts as pushed is held by the peer, and what it has
\* acknowledged it holds.
Pushing ==
  /\ \A c \in Cursors(Client) :
       c.instance = instance => Covered(c.push, mine, theirs)
  /\ session.phase = "publish" /\ answer # None
       /\ session.cursor.instance = instance =>
         \A j \in 1 .. Len(First(session.batch)) :
           First(session.batch)[j].id \in theirs.held

SyncInv ==
  /\ Typed
  /\ Instances
  /\ Ready(session, mine)
  /\ restores = 0 => Pulling
  /\ restores = 0 /\ World.takes => Pushing

LEMMA WorldType ==
  ASSUME world \in DOMAIN Settings
  PROVE  /\ World.pull \in BOOLEAN /\ World.push \in BOOLEAN
         /\ World.mine \subseteq Event /\ World.theirs \subseteq Event
         /\ World.rebirths \in Nat /\ World.restores \in Nat
         /\ World.drops \in Nat
BY SyncAssumption DEF World

LEMMA SessionTyped ==
  ASSUME NEW s \in Session
  PROVE  /\ SessionOK(s) /\ s.phase \in Phases /\ s.cursor \in Cursor
         /\ s.cursor.pull \in Nat /\ s.cursor.push \in Nat
         /\ s.batch \in Seq(Event) /\ s.want \in Seq(Claim)
BY DEF Session, SessionOK, Cursor

LEMMA ClientType ==
  ASSUME Typed, Ready(session, mine)
  PROVE  /\ Steady(Client)
         /\ Client.store = mine /\ Client.row = row /\ Client.session = session
         /\ Cursors(Client) = {row, session.cursor}
         /\ \A c \in Cursors(Client) :
              c \in Cursor /\ c.pull \in Nat /\ c.push \in Nat
BY SessionTyped DEF Typed, TypeOK, Client, Steady, Side, Cursors, Cursor

LEMMA StartInv == Init => SyncInv
<1> SUFFICES ASSUME Init PROVE SyncInv
  OBVIOUS
<1> USE DEF Init
<1>1. /\ row \in Cursor /\ Zero(row) /\ session \in Session
      /\ Zero(session.cursor) /\ session.phase = "idle"
  BY FreshType, IdleType
<1>2. TypeOK
  <2>1. World.rebirths \in Nat /\ World.restores \in Nat /\ World.drops \in Nat
    BY WorldType
  <2>2. instance \in 1 .. World.rebirths + 1
    BY <2>1
  <2>3. restores \in 0 .. World.restores /\ drops \in 0 .. World.drops
    BY <2>1
  <2> QED BY <1>1, <2>2, <2>3, EmptyStoreType, SessionTyped DEF TypeOK
<1>3. Typed
  BY <1>1, <1>2, EmptySound DEF Typed
<1>4. Ready(session, mine)
  BY <1>1 DEF Ready
<1>5. \A c \in Cursors(Client) : Zero(c)
  BY <1>1, <1>3, <1>4, ClientType
<1>6. Instances
  BY <1>1, <1>5 DEF Instances
<1>7. Pulling /\ Pushing
  BY <1>1, <1>5, CoveredZero, EmptySound DEF Pulling, Pushing, Zero
<1> QED BY <1>3, <1>4, <1>6, <1>7 DEF SyncInv

-----------------------------------------------------------------------------
(* The client's steps *)

(***************************************************************************)
(* Whatever the phase: a position fed to the cursors is covered, because   *)
(* the answer counted was placed where the cursor stood, or the batch was. *)
(***************************************************************************)
LEMMA FeedKeeps ==
  ASSUME SyncInv, answer # None,
         NEW y, Effect(Client, answer, y),
         mine' = y.store, row' = y.row, session' = y.session, answer' = None,
         UNCHANGED peer, UNCHANGED env
  PROVE  SyncInv'
<1>1. /\ theirs' = theirs /\ instance' = instance /\ backup' = backup
      /\ world' = world /\ restores' = restores /\ drops' = drops
      /\ World' = World
  BY DEF peer, env, World
<1>2. /\ Client.store = mine /\ Client.row = row /\ Client.session = session
      /\ Cursors(Client) = {row, session.cursor}
      /\ \A c \in Cursors(Client) : c.pull \in Nat /\ c.push \in Nat
      /\ Sound(mine) /\ Sound(theirs)
      /\ session.cursor.pull \in Nat /\ session.cursor.push \in Nat
      /\ session.batch \in Seq(Event)
  BY ClientType, SessionTyped DEF SyncInv, Typed
<1>3. session.phase \in {"pull", "claims"} => answer \in Seq(Event)
  BY DEF SyncInv, Typed, TypeOK, Expected
<1>4. /\ Sound(mine') /\ Grown(mine, mine')
      /\ \/ mine' = mine
         \/ /\ session.phase \in {"pull", "claims"}
            /\ mine' = IngestAll(mine, answer)
  <2>1. CASE mine' = mine
    BY <1>2, <2>1 DEF Grown
  <2>2. CASE session.phase \in {"pull", "claims"} /\ mine' = IngestAll(mine, answer)
    BY <1>2, <1>3, <2>2, IngestAllGrows
  <2> QED BY <1>2, <2>1, <2>2 DEF Effect
<1>5. mine.held \subseteq mine'.held /\ theirs.held \subseteq theirs'.held
  BY <1>1, <1>4 DEF Grown
<1>6. y \in Side /\ Cursors(Client)' = Cursors(y)
  BY DEF Effect, Client, Cursors
<1>7. Typed'
  <2>1. mine' \in Store /\ row' \in Cursor /\ session' \in Session
    BY <1>6 DEF Side
  <2> QED BY <1>1, <1>4, <2>1, SessionTyped DEF SyncInv, Typed, TypeOK
<1>8. Ready(session, mine)'
  BY DEF Effect
<1>9. \A c \in Cursors(y) :
        \/ Zero(c)
        \/ \E d \in Cursors(Client) : Same(c, d)
        \/ Pulled(Client, answer, y, c)
        \/ Pushed(Client, c)
  BY DEF Effect
<1>10. \A c \in Cursors(y) :
         (Pulled(Client, answer, y, c) \/ Pushed(Client, c)) =>
           /\ c.instance = session.cursor.instance
           /\ c.instance \in 1 .. instance
  BY <1>2 DEF SyncInv, Instances, Pulled, Pushed
<1>11. Instances'
  <2>1. \A c \in Cursors(y) : c.instance \in 1 .. instance \/ Zero(c)
    BY <1>9, <1>10 DEF SyncInv, Instances, Same, Zero
  <2>2. session'.phase \notin {"idle", "status"} =>
          session'.cursor.instance \in 1 .. instance
    <3> SUFFICES ASSUME y.session.phase # "idle"
                 PROVE  y.session.cursor.instance \in 1 .. instance
      OBVIOUS
    <3>1. \/ /\ session.phase # "status"
             /\ y.session.cursor.instance = session.cursor.instance
          \/ /\ session.phase \in {"status", "settle"}
             /\ y.session.cursor.instance = answer.instance
      BY <1>2 DEF Effect
    <3>2. session.phase # "idle"
      BY DEF SyncInv, Typed, TypeOK, Expected
    <3> QED BY <3>1, <3>2 DEF SyncInv, Instances
  <2> QED BY <1>1, <1>6, <2>1, <2>2 DEF Instances
<1>12. ASSUME restores = 0, Pulling
       PROVE  Pulling'
  <2> SUFFICES ASSUME NEW c \in Cursors(y), c.instance = instance
               PROVE  Covered(c.pull, theirs, mine')
    BY <1>1, <1>6 DEF Pulling
  <2>1. \A p \in Nat : Covered(p, theirs, mine) => Covered(p, theirs, mine')
    BY <1>2, <1>5, CoveredGrows DEF Grown
  <2>2. CASE Zero(c)
    BY <1>2, <2>2, CoveredZero DEF Zero
  <2>3. CASE \E d \in Cursors(Client) : Same(c, d)
    BY <1>2, <1>12, <2>1, <2>3 DEF Pulling, Same
  <2>4. CASE Pulled(Client, answer, y, c)
    <3>1. /\ session.phase = "pull" /\ mine' = IngestAll(mine, answer)
          /\ session.cursor.instance = instance
          /\ c.pull = session.cursor.pull + Len(answer)
      BY <1>2, <2>4 DEF Pulled
    <3>2. /\ Covered(session.cursor.pull, theirs, mine)
          /\ Placed(answer, theirs, session.cursor.pull)
          /\ answer \in Seq(Event)
      BY <1>2, <1>3, <1>12, <3>1 DEF Pulling
    <3>3. \A j \in 1 .. Len(answer) : answer[j].id \in mine'.held
      BY <1>2, <3>1, <3>2, IngestAllGrows
    <3> DEFINE p == session.cursor.pull
    <3>4. p \in Nat /\ Covered(p, theirs, mine) /\ Placed(answer, theirs, p)
      BY <1>2, <3>2
    <3> HIDE DEF p
    <3>5. Covered(p + Len(answer), theirs, mine')
      BY <1>2, <1>5, <3>2, <3>3, <3>4, CoveredMore
    <3> QED BY <3>1, <3>5 DEF p
  <2>5. CASE Pushed(Client, c)
    <3>1. c.pull = session.cursor.pull /\ session.cursor.instance = instance
      BY <1>2, <2>5 DEF Pushed
    <3> QED BY <1>2, <1>12, <2>1, <3>1 DEF Pulling
  <2> QED BY <1>9, <2>2, <2>3, <2>4, <2>5
<1>13. ASSUME restores = 0, Pushing
       PROVE  Pushing'
  <2> SUFFICES ASSUME NEW c \in Cursors(y), c.instance = instance
               PROVE  Covered(c.push, mine', theirs)
    BY <1>1, <1>6 DEF Pushing
  <2>1. \A p \in Nat : Covered(p, mine, theirs) => Covered(p, mine', theirs)
    BY <1>2, <1>4, CoveredGrows
  <2>2. CASE Zero(c)
    BY <1>4, <2>2, CoveredZero DEF Zero
  <2>3. CASE \E d \in Cursors(Client) : Same(c, d)
    BY <1>2, <1>13, <2>1, <2>3 DEF Pushing, Same
  <2>4. CASE Pulled(Client, answer, y, c)
    <3>1. c.push = session.cursor.push /\ session.cursor.instance = instance
      BY <1>2, <2>4 DEF Pulled
    <3> QED BY <1>2, <1>13, <2>1, <3>1 DEF Pushing
  <2>5. CASE Pushed(Client, c)
    <3> DEFINE q == First(session.batch)
               p == session.cursor.push
    <3>1. /\ session.phase = "publish" /\ session.prefix
          /\ session.cursor.instance = instance /\ c.push = p + Len(q)
      BY <1>2, <2>5 DEF Pushed
    <3>2. /\ Covered(p, mine, theirs)
          /\ \A j \in 1 .. Len(q) : q[j].id \in theirs.held
      BY <1>2, <1>13, <3>1 DEF Pushing
    <3>3. Placed(session.batch, mine, p)
      BY <3>1 DEF SyncInv, Ready
    <3>4. q \in Seq(Event) /\ Placed(q, mine, p)
      BY <1>2, <3>3, FirstRest, PlacedParts
    <3>5. p + Len(q) \in Nat
      BY <1>2, <3>4, LenProperties
    <3> HIDE DEF q, p
    <3>6. p \in Nat
      BY <1>2 DEF p
    <3>7. Covered(p + Len(q), mine, theirs)
      BY <1>2, <3>2, <3>4, <3>6, CoveredMore
    <3> QED BY <2>1, <3>1, <3>5, <3>7
  <2> QED BY <1>9, <2>2, <2>3, <2>4, <2>5
<1> QED BY <1>1, <1>7, <1>8, <1>11, <1>12, <1>13 DEF SyncInv

\* Whichever answer is fed: one of the lemmas of its phase applies.
LEMMA FeedsEffect ==
  ASSUME SyncInv, Feeds
  PROVE  \E y : /\ Effect(Client, answer, y)
                /\ mine' = y.store /\ row' = y.row /\ session' = y.session
                /\ answer # None /\ answer' = None
                /\ UNCHANGED peer /\ UNCHANGED env
                /\ session.phase # "idle"
                /\ session.phase = "hashes" => y = FedHashes(Client, answer)
                /\ session.phase = "claims" => y = FedClaims(Client, answer)
<1>1. Steady(Client) /\ Client.session = session
  BY ClientType DEF SyncInv
<1>2. answer = None \/ answer \in Expected(session.phase)
  BY DEF SyncInv, Typed, TypeOK
<1> DEFINE Goal(y) ==
             /\ Effect(Client, answer, y)
             /\ mine' = y.store /\ row' = y.row /\ session' = y.session
             /\ answer # None /\ answer' = None
             /\ UNCHANGED peer /\ UNCHANGED env
             /\ session.phase # "idle"
             /\ session.phase = "hashes" => y = FedHashes(Client, answer)
             /\ session.phase = "claims" => y = FedClaims(Client, answer)
<1>3. ASSUME NEW phase, NEW fed, Feed(phase, fed), phase # "idle",
             Effect(Client, answer, fed),
             phase = "hashes" => fed = FedHashes(Client, answer),
             phase = "claims" => fed = FedClaims(Client, answer)
      PROVE  Goal(fed)
  BY <1>3 DEF Feed
<1> SUFFICES \E y : Goal(y)
  OBVIOUS
<1> HIDE DEF Goal
<1>4. CASE FeedStatus
  <2>1. session.phase = "status" /\ answer \in Status
    BY <1>2, <1>4 DEF FeedStatus, Feed, Expected, Status
  <2>2. Effect(Client, answer, FedStatus(Client, answer))
    BY <1>1, <2>1, FedStatusEffect
  <2> QED BY <1>3, <1>4, <2>2 DEF FeedStatus
<1>5. CASE FeedPull
  <2>1. session.phase = "pull" /\ answer \in Seq(Event)
    BY <1>2, <1>5 DEF FeedPull, Feed, Expected
  <2>2. Effect(Client, answer, FedPull(Client, answer))
    BY <1>1, <2>1, FedPullEffect
  <2> QED BY <1>3, <1>5, <2>2 DEF FeedPull
<1>6. CASE FeedPublish
  <2>1. session.phase = "publish"
    BY <1>6 DEF FeedPublish, Feed
  <2>2. Effect(Client, answer, FedPublish(Client, answer))
    BY <1>1, <2>1, FedPublishEffect
  <2> QED BY <1>3, <1>6, <2>2 DEF FeedPublish
<1>7. CASE FeedSettle
  <2>1. session.phase = "settle" /\ answer \in Status
    BY <1>2, <1>7 DEF FeedSettle, Feed, Expected, Status
  <2>2. Effect(Client, answer, FedSettle(Client, answer))
    BY <1>1, <2>1, FedSettleEffect
  <2> QED BY <1>3, <1>7, <2>2 DEF FeedSettle
<1>8. CASE FeedHashes
  <2>1. /\ session.phase = "hashes" /\ IsFiniteSet(answer.rows)
        /\ answer \in [rows : SUBSET Claim, bodies : SUBSET Claim]
    BY <1>2, <1>8 DEF FeedHashes, Feed, Expected, SyncInv, Typed
  <2>2. Effect(Client, answer, FedHashes(Client, answer))
    BY <1>1, <2>1, FedHashesEffect
  <2> QED BY <1>3, <1>8, <2>2 DEF FeedHashes
<1>9. CASE FeedClaims
  <2>1. session.phase = "claims" /\ answer \in Seq(Event)
    BY <1>2, <1>9 DEF FeedClaims, Feed, Expected
  <2>2. Effect(Client, answer, FedClaims(Client, answer))
    BY <1>1, <2>1, FedClaimsEffect
  <2> QED BY <1>3, <1>9, <2>2 DEF FeedClaims
<1>10. CASE FeedResettle
  <2>1. session.phase = "resettle" /\ answer \in Status
    BY <1>2, <1>10 DEF FeedResettle, Feed, Expected, Status
  <2>2. Effect(Client, answer, FedResettle(Client, answer))
    BY <1>1, <2>1, FedResettleEffect
  <2> QED BY <1>3, <1>10, <2>2 DEF FeedResettle
<1> QED BY <1>4, <1>5, <1>6, <1>7, <1>8, <1>9, <1>10 DEF Feeds

LEMMA FeedsKeep ==
  ASSUME SyncInv, Feeds
  PROVE  SyncInv'
<1>1. PICK y : /\ Effect(Client, answer, y)
               /\ mine' = y.store /\ row' = y.row /\ session' = y.session
               /\ answer # None /\ answer' = None
               /\ UNCHANGED peer /\ UNCHANGED env
  BY FeedsEffect
<1> QED BY <1>1, FeedKeeps

\* A session that starts, or is dropped, keeps only the saved cursor.
LEMMA SessionKeeps ==
  ASSUME SyncInv, Start \/ Drop
  PROVE  SyncInv'
<1>1. /\ mine' = mine /\ theirs' = theirs /\ backup' = backup /\ row' = row
      /\ instance' = instance /\ world' = world /\ restores' = restores
      /\ World' = World
      /\ answer' = None
  BY DEF SyncInv, Typed, TypeOK, Expected, Start, Drop, peer, env, World
<1>2. World.pull \in BOOLEAN /\ World.push \in BOOLEAN /\ World.drops \in Nat
  BY WorldType DEF SyncInv, Typed, TypeOK
<1>3. /\ session' \in Session /\ Zero(session'.cursor)
      /\ session'.phase \in {"idle", "status"}
  BY <1>2, IdleType DEF Start, Drop
<1>4. drops' \in 0 .. World.drops
  BY <1>2 DEF SyncInv, Typed, TypeOK, Start, Drop, env
<1>5. Typed'
  BY <1>1, <1>3, <1>4, SessionTyped DEF SyncInv, Typed, TypeOK
<1>6. Ready(session, mine)'
  BY <1>3 DEF Ready
<1>7. \A c \in Cursors(Client)' : Zero(c) \/ c = row
  BY <1>1, <1>3 DEF Cursors, Client
<1>8. row \in Cursors(Client)
  BY DEF Cursors, Client
<1>9. Instances'
  BY <1>1, <1>3, <1>7, <1>8 DEF SyncInv, Instances
<1>10. Pulling => Pulling'
  <2>1. Covered(0, theirs, mine)
    BY CoveredZero DEF SyncInv, Typed
  <2> QED BY <1>1, <1>3, <1>7, <1>8, <2>1 DEF Pulling, Zero
<1>11. Pushing => Pushing'
  <2>1. Covered(0, mine, theirs)
    BY CoveredZero DEF SyncInv, Typed
  <2> QED BY <1>1, <1>3, <1>7, <1>8, <2>1 DEF Pushing, Zero
<1> QED BY <1>1, <1>5, <1>6, <1>9, <1>10, <1>11 DEF SyncInv

-----------------------------------------------------------------------------
(* The peer's steps, and what reaches either store from elsewhere *)

\* An answer that is right for the question, given by a peer that holds t.
Right(a, t) ==
  /\ a \in Expected(session.phase)
  /\ session.phase = "hashes" => IsFiniteSet(a.rows)
  /\ session.phase \in {"status", "settle", "resettle"} =>
       a.instance \in 1 .. instance
  /\ session.phase = "pull" => Placed(a, t, session.cursor.pull)
  /\ session.phase = "publish" /\ World.takes =>
       \A j \in 1 .. Len(First(session.batch)) :
         First(session.batch)[j].id \in t.held

LEMMA GrowthKeeps ==
  ASSUME SyncInv, UNCHANGED <<world, instance, row, session, restores, drops>>,
         Sound(mine'), Grown(mine, mine'),
         Sound(theirs'), Grown(theirs, theirs'), Sound(backup'),
         answer' = answer \/ Right(answer', theirs')
  PROVE  SyncInv'
<1>1. /\ world' = world /\ instance' = instance /\ row' = row
      /\ session' = session /\ restores' = restores /\ drops' = drops
      /\ World' = World
  BY DEF World
<1>2. /\ Cursors(Client) = {row, session.cursor}
      /\ \A c \in Cursors(Client) : c.pull \in Nat /\ c.push \in Nat
      /\ Sound(mine) /\ Sound(theirs)
  BY ClientType DEF SyncInv, Typed
<1>3. Cursors(Client)' = Cursors(Client)
  BY <1>1, <1>2 DEF Cursors, Client
<1>4. Typed'
  BY <1>1 DEF SyncInv, Typed, TypeOK, Sound, Right
<1>5. Instances'
  BY <1>1, <1>3 DEF SyncInv, Instances, Right
<1>6. Ready(session, mine)'
  BY <1>1, PlacedGrows DEF SyncInv, Ready
<1>7. ASSUME Pulling PROVE Pulling'
  <2>1. \A c \in Cursors(Client) :
          c.instance = instance => Covered(c.pull, theirs', mine')
    BY <1>2, <1>7, CoveredGrows DEF Grown, Pulling
  <2>2. ASSUME session.phase = "pull", answer' # None,
               session.cursor.instance = instance
        PROVE  Placed(answer', theirs', session.cursor.pull)
    BY <1>7, <2>2, PlacedGrows DEF Pulling, Right
  <2> QED BY <1>1, <1>3, <2>1, <2>2 DEF Pulling
<1>8. ASSUME Pushing, World.takes PROVE Pushing'
  <2>1. \A c \in Cursors(Client) :
          c.instance = instance => Covered(c.push, mine', theirs')
    BY <1>2, <1>8, CoveredGrows DEF Grown, Pushing
  <2>2. ASSUME session.phase = "publish", answer' # None,
               session.cursor.instance = instance,
               NEW j \in 1 .. Len(First(session.batch))
        PROVE  First(session.batch)[j].id \in theirs'.held
    BY <1>8, <2>2 DEF Pushing, Right, Grown
  <2> QED BY <1>1, <1>3, <2>1, <2>2 DEF Pushing
<1> QED BY <1>1, <1>4, <1>5, <1>6, <1>7, <1>8 DEF SyncInv

LEMMA StoresKeep ==
  ASSUME SyncInv,
         \/ \E e \in World.mine : MineGrows(e)
         \/ \E e \in World.theirs : TheirsGrows(e)
         \/ BackUp
  PROVE  SyncInv'
<1>1. /\ Sound(mine) /\ Sound(theirs) /\ Sound(backup)
      /\ Grown(mine, mine) /\ Grown(theirs, theirs)
  BY DEF SyncInv, Typed, Grown
<1>2. World.mine \subseteq Event /\ World.theirs \subseteq Event
  BY WorldType DEF SyncInv, Typed, TypeOK
<1>3. CASE \E e \in World.mine : MineGrows(e)
  <2>1. /\ Sound(mine') /\ Grown(mine, mine')
        /\ UNCHANGED <<world, instance, row, session, restores, drops>>
        /\ theirs' = theirs /\ backup' = backup /\ answer' = answer
    BY <1>1, <1>2, <1>3, IngestGrows DEF MineGrows, peer, env
  <2> QED BY <1>1, <2>1, GrowthKeeps
<1>4. CASE \E e \in World.theirs : TheirsGrows(e)
  <2>1. /\ Sound(theirs') /\ Grown(theirs, theirs')
        /\ UNCHANGED <<world, instance, row, session, restores, drops>>
        /\ mine' = mine /\ backup' = backup /\ answer' = answer
    BY <1>1, <1>2, <1>4, IngestGrows DEF TheirsGrows, client, env
  <2> QED BY <1>1, <2>1, GrowthKeeps
<1>5. CASE BackUp
  <2>1. /\ UNCHANGED <<world, instance, row, session, restores, drops>>
        /\ mine' = mine /\ theirs' = theirs /\ backup' = theirs
        /\ answer' = answer
    BY <1>5 DEF BackUp, client, env
  <2> QED BY <1>1, <2>1, GrowthKeeps
<1> QED BY <1>3, <1>4, <1>5

LEMMA AnswersKeep ==
  ASSUME SyncInv, Answers
  PROVE  SyncInv'
<1>1. /\ Sound(mine) /\ Sound(theirs) /\ Sound(backup)
      /\ Grown(mine, mine) /\ Grown(theirs, theirs)
  BY DEF SyncInv, Typed, Grown
<1>2. /\ session.cursor.pull \in Nat /\ session.batch \in Seq(Event)
      /\ session.want \in Seq(Claim)
  BY SessionTyped DEF SyncInv, Typed
<1>3. instance \in Nat /\ instance \in 1 .. instance
  BY WorldType DEF SyncInv, Typed, TypeOK
<1>4. ASSUME NEW phases, NEW a, Respond(phases, a)
      PROVE  /\ session.phase \in phases
             /\ UNCHANGED <<world, instance, row, session, restores, drops>>
             /\ mine' = mine /\ backup' = backup /\ answer' = a
  BY <1>4 DEF Respond, client, env
<1>5. CASE RespondStatus
  <2>1. StatusOf(theirs, instance) \in Status
        /\ StatusOf(theirs, instance).instance = instance
    BY <1>1, <1>3, StatusType DEF StatusOf
  <2>2. /\ session.phase \in {"status", "settle", "resettle"}
        /\ UNCHANGED <<world, instance, row, session, restores, drops>>
        /\ mine' = mine /\ theirs' = theirs /\ backup' = backup
        /\ answer' = StatusOf(theirs, instance)
    BY <1>4, <1>5 DEF RespondStatus
  <2>3. Right(answer', theirs')
    BY <1>3, <2>1, <2>2 DEF Right, Expected, Status
  <2> QED BY <1>1, <2>2, <2>3, GrowthKeeps
<1>6. CASE RespondSince
  <2> DEFINE a == First(ServedSince(theirs, session.cursor.pull))
  <2>1. a \in Seq(Event) /\ Placed(a, theirs, session.cursor.pull)
    BY <1>1, <1>2, ServedPlaced, FirstRest, PlacedParts
  <2>2. /\ session.phase = "pull"
        /\ UNCHANGED <<world, instance, row, session, restores, drops>>
        /\ mine' = mine /\ theirs' = theirs /\ backup' = backup
        /\ answer' = a
    BY <1>4, <1>6 DEF RespondSince
  <2> HIDE DEF a
  <2>3. Right(answer', theirs')
    BY <2>1, <2>2 DEF Right, Expected
  <2> QED BY <1>1, <2>2, <2>3, GrowthKeeps
<1>7. CASE RespondPublish
  <2> DEFINE q == First(session.batch)
  <2>1. q \in Seq(Event)
    BY <1>2, FirstRest
  <2>2. /\ session.phase = "publish"
        /\ UNCHANGED <<world, instance, row, session, restores, drops>>
        /\ mine' = mine /\ backup' = backup /\ answer' = "ack"
        /\ theirs' = IF World.takes THEN IngestAll(theirs, q) ELSE theirs
    BY <1>4, <1>7 DEF RespondPublish
  <2>3. /\ Sound(theirs') /\ Grown(theirs, theirs')
        /\ World.takes => \A j \in 1 .. Len(q) : q[j].id \in theirs'.held
    BY <1>1, <2>1, <2>2, IngestAllGrows
  <2>4. Right(answer', theirs')
    BY <2>2, <2>3 DEF Right, Expected
  <2> QED BY <1>1, <2>2, <2>3, <2>4, GrowthKeeps
<1>8. CASE RespondHashes
  <2>1. /\ HashesOf(theirs) \in [rows : SUBSET Claim, bodies : SUBSET Claim]
        /\ IsFiniteSet(HashesOf(theirs).rows)
    BY <1>1, HashesType, HashesFinite DEF Sound
  <2>2. /\ session.phase = "hashes"
        /\ UNCHANGED <<world, instance, row, session, restores, drops>>
        /\ mine' = mine /\ theirs' = theirs /\ backup' = backup
        /\ answer' = HashesOf(theirs)
    BY <1>4, <1>8 DEF RespondHashes
  <2>3. Right(answer', theirs')
    BY <2>1, <2>2 DEF Right, Expected
  <2> QED BY <1>1, <2>2, <2>3, GrowthKeeps
<1>9. CASE RespondClaims
  <2>1. ClaimsOf(theirs, First(session.want)) \in Seq(Event)
    BY <1>2, FirstRest, ClaimsType
  <2>2. /\ session.phase = "claims"
        /\ UNCHANGED <<world, instance, row, session, restores, drops>>
        /\ mine' = mine /\ theirs' = theirs /\ backup' = backup
        /\ answer' = ClaimsOf(theirs, First(session.want))
    BY <1>4, <1>9 DEF RespondClaims
  <2>3. Right(answer', theirs')
    BY <2>1, <2>2 DEF Right, Expected
  <2> QED BY <1>1, <2>2, <2>3, GrowthKeeps
<1> QED BY <1>5, <1>6, <1>7, <1>8, <1>9 DEF Answers

\* A reborn peer's instance is one no cursor can name yet.
LEMMA RebornKeeps ==
  ASSUME SyncInv, Reborn
  PROVE  SyncInv'
<1>1. /\ mine' = mine /\ row' = row /\ session' = session
      /\ answer' = answer /\ world' = world /\ restores' = restores
      /\ drops' = drops /\ World' = World
      /\ instance' = instance + 1 /\ theirs' = EmptyStore
      /\ backup' = EmptyStore /\ instance <= World.rebirths
  BY DEF Reborn, client, env, World
<1>2. instance \in Nat /\ World.rebirths \in Nat
  BY WorldType DEF SyncInv, Typed, TypeOK
<1>3. /\ Cursors(Client) = {row, session.cursor}
      /\ Cursors(Client)' = Cursors(Client)
      /\ Sound(mine) /\ Sound(theirs')
  BY <1>1, EmptySound, ClientType DEF SyncInv, Typed, Cursors, Client
<1>4. instance' \in 1 .. World'.rebirths + 1
  BY <1>1, <1>2
<1>5. Typed'
  BY <1>1, <1>3, <1>4, EmptySound, EmptyStoreType
  DEF SyncInv, Typed, TypeOK
<1>6. /\ 1 .. instance \subseteq 1 .. instance'
      /\ instance' \notin 1 .. instance
  BY <1>1, <1>2
<1>7. Instances'
  BY <1>1, <1>3, <1>6 DEF SyncInv, Instances
<1>8. Ready(session, mine)'
  BY <1>1 DEF SyncInv
<1>9. \A c \in Cursors(Client) : c.instance = instance' => Zero(c)
  BY <1>6 DEF SyncInv, Instances
<1>10. session.phase \notin {"idle", "status"} =>
         session.cursor.instance # instance'
  BY <1>6 DEF SyncInv, Instances
<1>11. Covered(0, theirs', mine) /\ Covered(0, mine, theirs')
  BY <1>3, CoveredZero
<1>12. Pulling'
  BY <1>1, <1>3, <1>9, <1>10, <1>11 DEF Pulling, Zero
<1>13. Pushing'
  BY <1>1, <1>3, <1>9, <1>10, <1>11 DEF Pushing, Zero
<1> QED BY <1>5, <1>7, <1>8, <1>12, <1>13 DEF SyncInv

LEMMA RestoreKeeps ==
  ASSUME SyncInv, Restore
  PROVE  SyncInv'
<1>1. /\ mine' = mine /\ row' = row /\ session' = session
      /\ answer' = answer /\ world' = world /\ restores' = restores + 1
      /\ drops' = drops /\ World' = World /\ instance' = instance
      /\ theirs' = backup /\ backup' = backup /\ restores < World.restores
  BY DEF Restore, client, World
<1>2. restores \in Nat /\ World.restores \in Nat
  BY WorldType DEF SyncInv, Typed, TypeOK
<1>3. restores' \in 0 .. World.restores /\ restores' # 0
  BY <1>1, <1>2
<1>4. Typed'
  BY <1>1, <1>3 DEF SyncInv, Typed, TypeOK, Sound
<1>5. Cursors(Client)' = Cursors(Client)
  BY <1>1 DEF Cursors, Client
<1>6. Instances'
  BY <1>1, <1>5 DEF SyncInv, Instances
<1> QED BY <1>1, <1>3, <1>4, <1>6 DEF SyncInv

-----------------------------------------------------------------------------
(* The theorems *)

LEMMA StepKeeps == SyncInv /\ [Next]_vars => SyncInv'
<1> SUFFICES ASSUME SyncInv, [Next]_vars PROVE SyncInv'
  OBVIOUS
<1>1. CASE Start \/ Drop
  BY <1>1, SessionKeeps
<1>2. CASE Feeds
  BY <1>2, FeedsKeep
<1>3. CASE Answers
  BY <1>3, AnswersKeep
<1>4. CASE \/ \E e \in World.mine : MineGrows(e)
           \/ \E e \in World.theirs : TheirsGrows(e)
           \/ BackUp
  BY <1>4, StoresKeep
<1>5. CASE Reborn
  BY <1>5, RebornKeeps
<1>6. CASE Restore
  BY <1>6, RestoreKeeps
<1>7. CASE UNCHANGED vars
  <2>1. UNCHANGED <<world, mine, theirs, instance, backup, row, session,
                    answer, restores, drops>>
    BY <1>7 DEF vars
  <2>2. Typed' /\ Ready(session, mine)'
    BY <2>1, Zenon DEF SyncInv, Typed, TypeOK, World
  <2>3. Instances' /\ World' = World
    BY <2>1, Zenon DEF SyncInv, Instances, Client, World
  <2>4. Pulling => Pulling'
    BY <2>1, Zenon DEF Pulling, Client
  <2>5. Pushing => Pushing'
    BY <2>1, Zenon DEF Pushing, Client
  <2> QED BY <2>1, <2>2, <2>3, <2>4, <2>5 DEF SyncInv
<1> QED BY <1>1, <1>2, <1>3, <1>4, <1>5, <1>6, <1>7 DEF Next

(***************************************************************************)
(* The invariant holds of every client and peer, under every setting.      *)
(***************************************************************************)
THEOREM SyncInvariant == Spec => []SyncInv
BY StartInv, StepKeeps, PTL DEF Spec

(***************************************************************************)
(* Type correctness, and the correlation of requests and responses: what   *)
(* a session is fed has the shape its phase asks for (expect_status and    *)
(* its siblings, session.rs), though sessions drop at any message and both *)
(* stores and the peer's incarnation change while an answer is on its way. *)
(***************************************************************************)
THEOREM SyncTyped == Spec => []TypeOK
<1>1. SyncInv => TypeOK
  BY DEF SyncInv, Typed
<1> QED BY <1>1, SyncInvariant, PTL

(***************************************************************************)
(* A saved pull position never runs ahead of ingest (session.rs:15-18).    *)
(***************************************************************************)
THEOREM PullsSound == Spec => []PullSound
<1>1. SyncInv => PullSound
  BY DEF SyncInv, Pulling, Covered, Current, PullSound, Cursors, Client
<1> QED BY <1>1, SyncInvariant, PTL

(***************************************************************************)
(* A saved push position counts only claims the peer holds: a              *)
(* reconciliation's batch never moves it (push_is_cursor_prefix).          *)
(***************************************************************************)
THEOREM PushesSound == Spec => []PushSound
<1>1. SyncInv => PushSound
  BY DEF SyncInv, Pushing, Covered, Current, PushSound, Cursors, Client
<1> QED BY <1>1, SyncInvariant, PTL

-----------------------------------------------------------------------------
(* What a session leaves unlearnt *)

\* A client that asks for what it lacks, of a peer that changes only between
\* sessions.
Learning ==
  /\ Knows(Client)
  /\ session.phase # "idle" => session.pull
  /\ Closing(session, mine, theirs)
  /\ answer # None => Honest(session, answer, theirs)

LearnInv == World.quiet /\ World.pull => Learning

LEMMA LearnStart == Init => LearnInv
<1> SUFFICES ASSUME Init PROVE Learning
  BY DEF LearnInv
<1>1. /\ session.phase = "idle" /\ session.cursor.settled = None
      /\ row.settled = None /\ answer = None
  BY FreshType, IdleType DEF Init
<1> QED BY <1>1 DEF Learning, Knows, Closing, Cursors, Client

LEMMA LearnFeeds ==
  ASSUME SyncInv, LearnInv, Feeds
  PROVE  LearnInv'
<1>1. PICK y : /\ Effect(Client, answer, y)
               /\ mine' = y.store /\ row' = y.row /\ session' = y.session
               /\ answer # None /\ answer' = None
               /\ UNCHANGED peer /\ UNCHANGED env
               /\ session.phase # "idle"
               /\ session.phase = "hashes" => y = FedHashes(Client, answer)
               /\ session.phase = "claims" => y = FedClaims(Client, answer)
  BY FeedsEffect
<1>2. World' = World /\ theirs' = theirs
  BY <1>1 DEF World, env, peer
<1> SUFFICES ASSUME World.quiet, World.pull PROVE Learning'
  BY <1>2 DEF LearnInv
<1>3. /\ Steady(Client) /\ Client.store = mine /\ Client.session = session
      /\ Sound(theirs) /\ theirs \in Store
  BY ClientType DEF SyncInv, Typed, Sound
<1>4. /\ Knows(Client) /\ session.pull /\ Closing(session, mine, theirs)
      /\ Honest(session, answer, theirs)
  BY <1>1 DEF LearnInv, Learning
<1>5. session.phase \in {"pull", "claims"} => answer \in Seq(Event)
  BY <1>1 DEF SyncInv, Typed, TypeOK, Expected
<1>6. Knows(y)
  BY <1>1, <1>3, <1>4, <1>5, FedKnows DEF Honest
<1>7. Closing(y.session, y.store, theirs)
  <2>1. CASE session.phase = "hashes"
    BY <1>1, <1>3, <1>4, <2>1, FedHashesCloses DEF Honest
  <2>2. CASE session.phase = "claims"
    BY <1>1, <1>3, <1>4, <2>2, FedClaimsCloses DEF Honest
  <2>3. CASE session.phase \notin {"hashes", "claims"}
    BY <1>1, <1>3, <1>4, <2>3, FedCloses
  <2> QED BY <2>1, <2>2, <2>3
<1>8. Knows(Client)'
  BY <1>1, <1>6 DEF Knows, Cursors, Client
<1>9. y.session.phase # "idle" => y.session.pull
  BY <1>1, <1>3, <1>4 DEF Effect
<1> QED BY <1>1, <1>2, <1>7, <1>8, <1>9 DEF Learning

\* A session begins with nothing to carry on, and ends so.
LEMMA LearnSession ==
  ASSUME SyncInv, LearnInv, Start \/ Drop
  PROVE  LearnInv'
<1>1. /\ mine' = mine /\ row' = row /\ World' = World /\ answer' = None
  BY DEF SyncInv, Typed, TypeOK, Expected, Start, Drop, peer, env, World
<1> SUFFICES ASSUME World.quiet, World.pull PROVE Learning'
  BY <1>1 DEF LearnInv
<1>2. World.pull \in BOOLEAN /\ World.push \in BOOLEAN
  BY WorldType DEF SyncInv, Typed, TypeOK
<1>3. /\ session'.cursor.settled = None
      /\ session'.phase \in {"idle", "status"}
      /\ session'.phase # "idle" => session'.pull
  BY <1>2, IdleType DEF Start, Drop
<1>4. Knows(Client)'
  BY <1>1, <1>3 DEF LearnInv, Learning, Knows, Cursors, Client
<1> QED BY <1>1, <1>3, <1>4 DEF Learning, Closing

LEMMA LearnMine ==
  ASSUME SyncInv, LearnInv, NEW e \in World.mine, MineGrows(e)
  PROVE  LearnInv'
<1>1. /\ mine' = Ingest(mine, e) /\ row' = row /\ session' = session
      /\ answer' = answer /\ theirs' = theirs /\ World' = World
  BY DEF MineGrows, peer, env, World
<1> SUFFICES ASSUME World.quiet, World.pull PROVE Learning'
  BY <1>1 DEF LearnInv
<1>2. /\ mine \in Store /\ IsFiniteSet(mine.held) /\ e \in Event
      /\ session \in Session /\ theirs \in Store
  BY WorldType DEF SyncInv, Typed, TypeOK, Sound
<1>3. Keeps(mine, mine')
  BY <1>1, <1>2, IngestShows
<1>4. Closing(session, mine', theirs)
  BY <1>2, <1>3, ClosingKept DEF LearnInv, Learning
<1>5. Knows(Client)'
  BY <1>1, <1>3, MetKept DEF LearnInv, Learning, Knows, Cursors, Client
<1> QED BY <1>1, <1>4, <1>5 DEF LearnInv, Learning

\* The peer changes while no session asks it anything.
LEMMA LearnTheirs ==
  ASSUME SyncInv, LearnInv,
         \/ \E e \in World.theirs : TheirsGrows(e)
         \/ Reborn \/ Restore \/ BackUp
  PROVE  LearnInv'
<1>1. /\ mine' = mine /\ row' = row /\ session' = session
      /\ answer' = answer /\ World' = World
      /\ MayChange \/ theirs' = theirs
  BY DEF TheirsGrows, Reborn, Restore, BackUp, client, env, World
<1> SUFFICES ASSUME World.quiet, World.pull PROVE Learning'
  BY <1>1 DEF LearnInv
<1>2. /\ Knows(Client)'
      /\ session.phase # "idle" => session.pull
  BY <1>1 DEF LearnInv, Learning, Knows, Cursors, Client
<1>3. CASE theirs' = theirs
  <2>1. Learning
    BY DEF LearnInv
  <2> QED BY <1>1, <1>2, <1>3, <2>1, Zenon DEF Learning
<1>4. CASE session.phase = "idle"
  <2>1. answer = None
    BY <1>4 DEF SyncInv, Typed, TypeOK, Expected
  <2>2. session'.phase = "idle" /\ answer' = None
    BY <1>1, <1>4, <2>1
  <2>3. Closing(session, mine, theirs)'
    BY <2>2 DEF Closing
  <2> QED BY <1>2, <2>2, <2>3, Zenon DEF Learning
<1> QED BY <1>1, <1>3, <1>4 DEF MayChange

LEMMA LearnAnswers ==
  ASSUME SyncInv, LearnInv, Answers
  PROVE  LearnInv'
<1>1. ASSUME NEW phases, NEW a, Respond(phases, a)
      PROVE  /\ session.phase \in phases
             /\ mine' = mine /\ row' = row /\ session' = session
             /\ World' = World /\ answer' = a
  BY <1>1 DEF Respond, client, env, World
<1>2. /\ mine' = mine /\ row' = row /\ session' = session /\ World' = World
  BY <1>1 DEF Answers, RespondStatus, RespondSince, RespondPublish,
              RespondHashes, RespondClaims
<1> SUFFICES ASSUME World.quiet, World.pull PROVE Learning'
  BY <1>2 DEF LearnInv
<1>3. /\ Closing(session, mine, theirs) /\ Sound(theirs)
      /\ session.batch \in Seq(Event)
  BY SessionTyped DEF LearnInv, Learning, SyncInv, Typed
<1>4. /\ Knows(Client)'
      /\ session.phase # "idle" => session.pull
  BY <1>2 DEF LearnInv, Learning, Knows, Cursors, Client
<1>5. /\ Closing(session, mine, theirs')
      /\ Honest(session, answer', theirs')
  <2>1. CASE RespondPublish
    <3>1. /\ session.phase = "publish"
          /\ theirs' = IF World.takes
                       THEN IngestAll(theirs, First(session.batch)) ELSE theirs
      BY <1>1, <2>1 DEF RespondPublish
    <3>2. Caught(mine, theirs) /\ Backed(session.batch, mine)
            => Caught(mine, IngestAll(theirs, First(session.batch)))
      <4> DEFINE q == First(session.batch)
      <4>1. /\ q \in Seq(Event)
            /\ Backed(session.batch, mine) => Backed(q, mine)
        <5>1. /\ q \in Seq(Event) /\ Len(q) <= Len(session.batch)
              /\ \A j \in 1 .. Len(q) : q[j] = session.batch[j]
              /\ Len(q) \in Nat /\ Len(session.batch) \in Nat
          BY <1>3, FirstRest, LenProperties
        <5> HIDE DEF q
        <5> QED BY <5>1 DEF Backed
      <4> HIDE DEF q
      <4> QED BY <1>3, <4>1, TaughtCaught DEF q
    <3> QED BY <1>3, <3>1, <3>2 DEF Closing, Honest
  <2>2. CASE RespondStatus
    BY <1>1, <1>3, <2>2 DEF RespondStatus, Honest, StatusOf
  <2>3. CASE RespondSince
    BY <1>1, <1>3, <2>3 DEF RespondSince, Honest
  <2>4. CASE RespondHashes
    BY <1>1, <1>3, <2>4 DEF RespondHashes, Honest
  <2>5. CASE RespondClaims
    BY <1>1, <1>3, <2>5 DEF RespondClaims, Honest
  <2> QED BY <2>1, <2>2, <2>3, <2>4, <2>5 DEF Answers
<1> QED BY <1>2, <1>4, <1>5, Zenon DEF Learning

LEMMA LearnStep == SyncInv /\ LearnInv /\ [Next]_vars => LearnInv'
<1> SUFFICES ASSUME SyncInv, LearnInv, [Next]_vars PROVE LearnInv'
  OBVIOUS
<1>1. CASE UNCHANGED vars
  <2>1. UNCHANGED <<world, mine, theirs, row, session, answer>>
    BY <1>1 DEF vars
  <2> QED BY <2>1, Zenon DEF LearnInv, Learning, World, Client
<1> QED BY <1>1, LearnFeeds, LearnSession, LearnMine, LearnTheirs, LearnAnswers
        DEF Next

(***************************************************************************)
(* A client that has stopped asking because the peer's fingerprint is the  *)
(* one it settled on has all the peer has, or a redaction of it: what      *)
(* state.rs:36-40 calls a benign difference is one.  Of peers that change  *)
(* only between sessions; they may be reborn and restored, take what is    *)
(* published or not, and sessions may be dropped anywhere.                 *)
(***************************************************************************)
THEOREM SettledIsBenign == Spec => []NothingToLearn
<1>1. SyncInv /\ LearnInv => NothingToLearn
  <2> SUFFICES ASSUME SyncInv, LearnInv, World.quiet, AtRest, World.pull
               PROVE  Caught(mine, theirs)
    BY DEF NothingToLearn
  <2>1. /\ row.settled = Digest(theirs) /\ row.settled # None
        /\ theirs \in Store
    BY DEF AtRest, SyncInv, Typed, Sound
  <2>2. Met(row.settled, mine)
    BY <2>1 DEF LearnInv, Learning, Knows, Cursors, Client
  <2> QED BY <2>1, <2>2, MetCaught
<1>2. Spec => []LearnInv
  BY LearnStart, LearnStep, SyncInvariant, PTL DEF Spec
<1> QED BY <1>1, <1>2, SyncInvariant, PTL
-----------------------------------------------------------------------------
(* What a session leaves untaught *)

(***************************************************************************)
(* A client whose sessions are not dropped, that publishes to a peer that  *)
(* takes it, and changes only between sessions.                            *)
(***************************************************************************)
TeachInv ==
  World.quiet /\ World.takes /\ World.push /\ drops = 0 =>
    /\ Teaches(Client, theirs, instance)
    /\ answer # None => Frank(session, answer, theirs, instance)

LEMMA TeachStart == Init => TeachInv
<1> SUFFICES ASSUME Init
             PROVE  Teaches(Client, theirs, instance) /\ answer = None
  BY DEF TeachInv
<1>1. /\ Client.session.phase = "idle" /\ Client.row = row
      /\ Client.store = EmptyStore /\ answer = None
      /\ Zero(row) /\ row.settled = None
      /\ Zero(session.cursor) /\ session.cursor.settled = None
      /\ Client.session = session
  BY FreshType, IdleType DEF Init, Client
<1>2. 0 <= Count(EmptyStore)
  BY EmptySound, CountType
<1> QED BY <1>1, <1>2 DEF Teaches, Open, Offering, Zero

LEMMA TeachFeeds ==
  ASSUME SyncInv, TeachInv, Feeds
  PROVE  TeachInv'
<1>1. PICK y : /\ Effect(Client, answer, y)
               /\ mine' = y.store /\ row' = y.row /\ session' = y.session
               /\ answer # None /\ answer' = None
               /\ UNCHANGED peer /\ UNCHANGED env
               /\ session.phase # "idle"
               /\ session.phase = "hashes" => y = FedHashes(Client, answer)
               /\ session.phase = "claims" => y = FedClaims(Client, answer)
  BY FeedsEffect
<1>2. /\ World' = World /\ theirs' = theirs /\ instance' = instance
      /\ drops' = drops
  BY <1>1 DEF World, env, peer
<1> SUFFICES ASSUME World.quiet, World.takes, World.push, drops = 0
             PROVE  Teaches(Client, theirs, instance)'
  BY <1>1, <1>2 DEF TeachInv
<1>3. /\ Steady(Client) /\ Client.store = mine /\ Client.session = session
      /\ Client.row = row /\ Sound(theirs) /\ theirs \in Store
  BY ClientType DEF SyncInv, Typed, Sound
<1>4. /\ Teaches(Client, theirs, instance)
      /\ Frank(session, answer, theirs, instance)
  BY <1>1 DEF TeachInv
<1>5. session.phase \in {"pull", "claims"} => answer \in Seq(Event)
  BY <1>1 DEF SyncInv, Typed, TypeOK, Expected
<1> DEFINE had == Before(mine, row.push)
           has == Before(y.store, y.row.push)
<1>6. /\ Offering(session, had, theirs)
      /\ ~(session.phase = "publish" /\ session.prefix) => has \subseteq had
  BY <1>1, <1>3, <1>4, <1>5, FedCounts DEF Teaches
<1>7. Offering(y.session, has, theirs)
  <2>1. CASE session.phase = "hashes"
    <3>1. Offering(y.session, LogRows(mine, TheLog), theirs)
      BY <1>1, <1>3, <1>4, <2>1, FedHashesOffers DEF Teaches, Frank
    <3>2. had \subseteq LogRows(mine, TheLog) /\ has \subseteq had
      BY <1>6, <2>1 DEF Before
    <3> HIDE DEF had, has
    <3>3. has \subseteq LogRows(mine, TheLog)
      BY <3>2
    <3> QED BY <3>1, <3>3, OfferingFewer
  <2>2. CASE session.phase = "claims"
    <3>1. Offering(y.session, had, theirs)
      BY <1>1, <1>3, <1>6, <2>2, FedClaimsOffers
    <3> QED BY <1>6, <2>2, <3>1, OfferingFewer
  <2>3. CASE session.phase = "publish" /\ session.prefix
    <3>1. session.after = "settle"
      BY <1>3, <1>6, <2>3 DEF Offering, Steady, Side, Session
    <3>2. /\ y.session.phase \in {"publish", "settle"}
          /\ y.session.after = "settle"
      BY <1>3, <2>3, <3>1, <1>1 DEF Effect
    <3> QED BY <3>2 DEF Offering
  <2>4. CASE session.phase \notin {"hashes", "claims"}
             /\ ~(session.phase = "publish" /\ session.prefix)
    <3>1. Offering(y.session, had, theirs)
      BY <1>1, <1>3, <1>4, <1>6, <2>4, FedOffers
    <3> QED BY <1>6, <2>4, <3>1, OfferingFewer
  <2> QED BY <2>1, <2>2, <2>3, <2>4
<1>8. Teaches(y, theirs, instance)
  BY <1>1, <1>3, <1>4, <1>5, <1>7, FedTeaches
<1>9. Client'.store = y.store /\ Client'.row = y.row /\ Client'.session = y.session
  BY <1>1 DEF Client
<1> QED BY <1>2, <1>8, <1>9 DEF Teaches

\* A session starts afresh; one that is dropped is out of the account.
LEMMA TeachSession ==
  ASSUME SyncInv, TeachInv, Start \/ Drop
  PROVE  TeachInv'
<1>1. World' = World /\ World.pull \in BOOLEAN /\ World.push \in BOOLEAN
      /\ drops \in Nat
  BY WorldType DEF SyncInv, Typed, TypeOK, Start, Drop, env, World
<1>2. CASE Drop
  <2>1. drops' # 0
    BY <1>1, <1>2 DEF Drop
  <2> QED BY <2>1 DEF TeachInv
<1>3. CASE Start
  <2>1. /\ mine' = mine /\ row' = row /\ answer' = None /\ drops' = drops
        /\ session.phase = "idle"
    BY <1>3 DEF SyncInv, Typed, TypeOK, Expected, Start, env
  <2>2. /\ session'.phase = "status" /\ Zero(session'.cursor)
        /\ session'.cursor.settled = None /\ session'.push = World.push
    BY <1>1, <1>3, IdleType DEF Start
  <2> SUFFICES ASSUME World.quiet, World.takes, World.push, drops = 0
               PROVE  Teaches(Client, theirs, instance)'
    BY <1>1, <2>1 DEF TeachInv
  <2>3. Teaches(Client, theirs, instance)
    BY DEF TeachInv
  <2> QED BY <2>1, <2>2, <2>3 DEF Teaches, Open, Offering, Client
<1> QED BY <1>2, <1>3

LEMMA TeachMine ==
  ASSUME SyncInv, TeachInv, NEW e \in World.mine, MineGrows(e)
  PROVE  TeachInv'
<1>1. /\ mine' = Ingest(mine, e) /\ row' = row /\ session' = session
      /\ answer' = answer /\ theirs' = theirs /\ instance' = instance
      /\ World' = World /\ drops' = drops
  BY DEF MineGrows, peer, env, World
<1> SUFFICES ASSUME World.quiet, World.takes, World.push, drops = 0
             PROVE  Teaches(Client, theirs, instance)'
  BY <1>1 DEF TeachInv
<1>2. Sound(mine) /\ e \in Event /\ row.push \in Nat
  BY WorldType DEF SyncInv, Typed, TypeOK, Cursor
<1>3. Teaches(Client, theirs, instance)
  BY DEF TeachInv
<1>4. row.push <= Count(mine) /\ Offering(session, Before(mine, row.push), theirs)
  BY <1>3 DEF Teaches, Client
<1>5. Sound(mine') /\ Grown(mine, mine')
  BY <1>1, <1>2, IngestGrows
<1>6. /\ row.push <= Count(mine')
      /\ Before(mine', row.push) \subseteq Before(mine, row.push)
  BY <1>2, <1>4, <1>5, BeforeGrown
<1>7. Offering(session, Before(mine', row.push), theirs)
  BY <1>4, <1>6, OfferingFewer
<1> QED BY <1>1, <1>3, <1>6, <1>7 DEF Teaches, Client

\* The peer changes while no session asks it anything.
LEMMA TeachTheirs ==
  ASSUME SyncInv, TeachInv,
         \/ \E e \in World.theirs : TheirsGrows(e)
         \/ Reborn \/ Restore \/ BackUp
  PROVE  TeachInv'
<1>1. /\ mine' = mine /\ row' = row /\ session' = session
      /\ answer' = answer /\ World' = World /\ drops' = drops
      /\ MayChange \/ (theirs' = theirs /\ instance' = instance)
  BY DEF TheirsGrows, Reborn, Restore, BackUp, client, env, World
<1> SUFFICES ASSUME World.quiet, World.takes, World.push, drops = 0
             PROVE  /\ Teaches(Client, theirs, instance)'
                    /\ answer' # None =>
                         Frank(session, answer, theirs, instance)'
  BY <1>1 DEF TeachInv
<1>2. /\ Teaches(Client, theirs, instance)
      /\ answer # None => Frank(session, answer, theirs, instance)
      /\ Client' = Client
  BY <1>1 DEF TeachInv, Client
<1>3. CASE theirs' = theirs /\ instance' = instance
  BY <1>1, <1>2, <1>3, Zenon
<1>4. CASE session.phase = "idle"
  <2>1. answer = None
    BY <1>4 DEF SyncInv, Typed, TypeOK, Expected
  <2>2. Client.session.phase = "idle"
    BY <1>4 DEF Client
  <2>3. Teaches(Client, theirs', instance')
    BY <1>2, <2>2 DEF Teaches, Open, Offering
  <2> QED BY <1>1, <1>2, <2>1, <2>3, Zenon
<1> QED BY <1>1, <1>3, <1>4 DEF MayChange

LEMMA TeachAnswers ==
  ASSUME SyncInv, TeachInv, Answers
  PROVE  TeachInv'
<1>1. ASSUME NEW phases, NEW a, Respond(phases, a)
      PROVE  /\ session.phase \in phases
             /\ mine' = mine /\ row' = row /\ session' = session
             /\ World' = World /\ drops' = drops /\ instance' = instance
             /\ answer' = a
  BY <1>1 DEF Respond, client, env, World
<1>2. /\ mine' = mine /\ row' = row /\ session' = session /\ World' = World
      /\ drops' = drops /\ instance' = instance
  BY <1>1 DEF Answers, RespondStatus, RespondSince, RespondPublish,
              RespondHashes, RespondClaims
<1> SUFFICES ASSUME World.quiet, World.takes, World.push, drops = 0
             PROVE  /\ Teaches(Client, theirs, instance)'
                    /\ Frank(session, answer, theirs, instance)'
  BY <1>2 DEF TeachInv
<1>3. /\ Teaches(Client, theirs, instance) /\ Client' = Client
      /\ Sound(theirs) /\ session.batch \in Seq(Event)
  BY <1>2, SessionTyped DEF TeachInv, SyncInv, Typed, Client
<1>4. /\ theirs.held \subseteq theirs'.held
      /\ Frank(session, answer', theirs', instance)
  <2>1. CASE RespondPublish
    <3> DEFINE q == First(session.batch)
    <3>1. session.phase = "publish" /\ theirs' = IngestAll(theirs, q)
      BY <1>1, <2>1 DEF RespondPublish
    <3>2. q \in Seq(Event)
      BY <1>3, FirstRest
    <3> HIDE DEF q
    <3>3. /\ theirs.held \subseteq theirs'.held
          /\ \A j \in 1 .. Len(q) : q[j].id \in theirs'.held
      BY <1>3, <3>1, <3>2, IngestAllGrows DEF Grown
    <3> QED BY <3>1, <3>3 DEF Frank, Ids, q
  <2>2. CASE RespondStatus
    BY <1>1, <2>2 DEF RespondStatus, Frank, StatusOf
  <2>3. CASE RespondSince
    BY <1>1, <2>3 DEF RespondSince, Frank
  <2>4. CASE RespondHashes
    BY <1>1, <2>4 DEF RespondHashes, Frank
  <2>5. CASE RespondClaims
    BY <1>1, <2>5 DEF RespondClaims, Frank
  <2> QED BY <2>1, <2>2, <2>3, <2>4, <2>5 DEF Answers
<1>5. Teaches(Client, theirs', instance)
  <2> DEFINE x == Client
             counted == Before(x.store, x.row.push)
  <2>1. Offering(x.session, counted, theirs) /\ Teaches(x, theirs, instance)
    BY <1>3 DEF Teaches
  <2> HIDE DEF x, counted
  <2>2. Offering(x.session, counted, theirs')
    BY <1>4, <2>1 DEF Offering
  <2> QED BY <1>4, <2>1, <2>2 DEF Teaches, counted, x
<1> QED BY <1>2, <1>3, <1>4, <1>5, Zenon

LEMMA TeachStep == SyncInv /\ TeachInv /\ [Next]_vars => TeachInv'
<1> SUFFICES ASSUME SyncInv, TeachInv, [Next]_vars PROVE TeachInv'
  OBVIOUS
<1>1. CASE UNCHANGED vars
  <2>1. UNCHANGED <<world, mine, theirs, instance, row, session, answer, drops>>
    BY <1>1 DEF vars
  <2> QED BY <2>1, Zenon DEF TeachInv, World, Client
<1> QED BY <1>1, TeachFeeds, TeachSession, TeachMine, TeachTheirs, TeachAnswers
        DEF Next

(***************************************************************************)
(* The other direction: what a client at rest has pushed or reconciled is  *)
(* at the peer, also after the peer came back from a stale backup, because *)
(* the settled digest lists it or a settle asked for the peer's hashes     *)
(* ("mismatch means fall back to full set reconciliation",                 *)
(* store.rs:521-527).  Of sessions that were not dropped, and peers that   *)
(* take what is published and change only between sessions.                *)
(***************************************************************************)
THEOREM SettledIsTaught == Spec => []NothingToTeach
<1>1. SyncInv /\ TeachInv => NothingToTeach
  <2> SUFFICES ASSUME SyncInv, TeachInv, World.quiet, drops = 0, AtRest,
                      World.push, World.takes,
                      NEW k \in LogRows(mine, TheLog)
               PROVE  k \in theirs.held
    BY DEF NothingToTeach
  <2>1. /\ row.settled = Digest(theirs) /\ row.settled # None
        /\ row.push >= Count(mine) /\ row.push \in Nat
        /\ session.phase = "idle" /\ Sound(mine) /\ theirs \in Store
    BY DEF AtRest, SyncInv, Typed, TypeOK, Sound, Cursor
  <2>2. k \in Before(mine, row.push)
    <3>1. mine.arrival[k] \in 0 .. Count(mine) - 1 /\ Count(mine) \in Nat
      BY <2>1, CountType
    <3> QED BY <2>1, <3>1 DEF Before
  <2>3. Before(mine, row.push) \subseteq Listed(row.settled)
    BY <2>1 DEF TeachInv, Teaches, Open, Client
  <2>4. k \in LogRows(theirs, TheLog)
    BY <2>1, <2>2, <2>3, ListedDigest
  <2> QED BY <2>4 DEF LogRows
<1>2. Spec => []TeachInv
  BY TeachStart, TeachStep, SyncInvariant, PTL DEF Spec
<1> QED BY <1>1, <1>2, SyncInvariant, PTL
=============================================================================
