------------------------------ MODULE PeerProofs ------------------------------
(***************************************************************************)
(* Proofs about two actors on one duct, for every set of claims, every     *)
(* batch size and every scene: the follower and the server of PeerNode.    *)
(***************************************************************************)
EXTENDS PeerNode, SessionProofs

-----------------------------------------------------------------------------
(* What travels *)

Ask == ({"status", "hashes"} \X {None}) \cup ({"since"} \X Nat)
         \cup ({"publish"} \X Seq(Event)) \cup ({"claims"} \X Seq(Claim))
         \cup ({"get", "put"} \X Blob)

Hashes == [rows : SUBSET Claim, bodies : SUBSET Claim]

Reply == Status \cup Seq(Event) \cup Hashes \cup (SUBSET Blob) \cup {"ack"}

News == [events : Seq(Event), count : Nat, print : Digests,
         instance : {Instance}]

Requesting == [kind : {"request"}, id : Nat, body : Ask]
Responding == [kind : {"response"}, id : Nat, body : Reply]
Framing == [kind : {"frame"}, id : {0}, body : News]
Watching == [kind : {"watch"}, id : {0}, body : BOOLEAN]

Message == Requesting \cup Responding \cup Framing \cup Watching

Actor == [store : Store, blobs : SUBSET Blob, row : Cursor, session : Session,
          pending : (Nat \ {0}) \cup {None}, dirty : BOOLEAN,
          watched : BOOLEAN, fetching : SUBSET ((Nat \ {0}) \X Blob),
          follows : BOOLEAN, stirred : BOOLEAN, out : Seq(Message),
          missed : SUBSET {"response", "request", "push", "gap"}]

LEMMA MessageType ==
  ASSUME NEW m \in Message
  PROVE  /\ m.id \in Nat
         /\ m.kind \in {"request", "response", "frame", "watch"}
         /\ m.kind = "request" <=> m \in Requesting
         /\ m.kind = "response" <=> m \in Responding
         /\ m.kind = "frame" <=> m \in Framing
         /\ m.kind = "watch" <=> m \in Watching
BY DEF Message, Requesting, Responding, Framing, Watching

LEMMA SceneType ==
  ASSUME scene \in DOMAIN Scenes
  PROVE  /\ Scene.author \in Node /\ Scene.relay \in BOOLEAN
         /\ Scene.eager \in BOOLEAN /\ Scene.cap \in Nat \ {0}
         /\ Scene.timer \in BOOLEAN /\ Scene.fickle \in BOOLEAN
         /\ Scene.mints \subseteq Claim /\ Scene.heard \subseteq Event
         /\ Scene.media \subseteq Blob
         /\ Scene.drops \in Nat /\ Scene.faults \in Nat /\ Scene.demands \in Nat
BY PeerAssumption DEF Scene

LEMMA OtherType ==
  /\ Other("follower") = "server" /\ Other("server") = "follower"
  /\ Node = {"follower", "server"} /\ "follower" # "server"
BY DEF Other, Node

-----------------------------------------------------------------------------
(* Channels *)

\* r is q with messages of M after it.
Longer(q, r, M) ==
  /\ Len(q) <= Len(r)
  /\ \A i \in 1 .. Len(q) : r[i] = q[i]
  /\ \A i \in 1 .. Len(r) : i > Len(q) => r[i] \in M

LEMMA LongerSame ==
  ASSUME NEW q \in Seq(Message), NEW M
  PROVE  Longer(q, q, M)
BY LenProperties DEF Longer

LEMMA LongerThen ==
  ASSUME NEW q \in Seq(Message), NEW r \in Seq(Message), NEW s \in Seq(Message),
         NEW M, NEW N, Longer(q, r, M), Longer(r, s, N)
  PROVE  Longer(q, s, M \cup N)
<1>1. Len(q) \in Nat /\ Len(r) \in Nat /\ Len(s) \in Nat
  BY LenProperties
<1> DEFINE l == Len(q)
           m == Len(r)
           n == Len(s)
<1>2. l \in Nat /\ m \in Nat /\ n \in Nat
  BY <1>1
<1>3. /\ l <= m /\ \A i \in 1 .. l : r[i] = q[i]
      /\ \A i \in 1 .. m : i > l => r[i] \in M
  BY DEF Longer
<1>4. /\ m <= n /\ \A i \in 1 .. m : s[i] = r[i]
      /\ \A i \in 1 .. n : i > m => s[i] \in N
  BY DEF Longer
<1> HIDE DEF l, m, n
<1>5. l <= n
  BY <1>2, <1>3, <1>4
<1>6. ASSUME NEW i \in 1 .. l PROVE s[i] = q[i]
  <2>1. i \in 1 .. m
    BY <1>2, <1>3
  <2> QED BY <1>3, <1>4, <2>1
<1>7. ASSUME NEW i \in 1 .. n, i > l PROVE s[i] \in M \cup N
  <2>1. CASE i > m
    BY <1>4, <2>1
  <2>2. CASE ~(i > m)
    <3>1. i \in 1 .. m
      BY <1>2, <2>2
    <3> QED BY <1>3, <1>4, <1>7, <3>1
  <2> QED BY <2>1, <2>2
<1> QED BY <1>5, <1>6, <1>7 DEF Longer, l, m, n

LEMMA LongerAppend ==
  ASSUME NEW q \in Seq(Message), NEW m \in Message, NEW M, m \in M
  PROVE  Append(q, m) \in Seq(Message) /\ Longer(q, Append(q, m), M)
<1>1. /\ Append(q, m) \in Seq(Message) /\ Len(q) \in Nat
      /\ Len(Append(q, m)) = Len(q) + 1
      /\ \A i \in 1 .. Len(q) : Append(q, m)[i] = q[i]
      /\ Append(q, m)[Len(q) + 1] = m
  BY AppendProperties, LenProperties
<1> QED BY <1>1 DEF Longer

LEMMA LongerWider ==
  ASSUME NEW q, NEW r, NEW M, NEW N, M \subseteq N, Longer(q, r, M)
  PROVE  Longer(q, r, N)
BY DEF Longer

LEMMA Popped ==
  ASSUME NEW q \in Seq(Message), q # <<>>
  PROVE  /\ Tail(q) \in Seq(Message) /\ Head(q) \in Message /\ Head(q) = q[1]
         /\ Len(q) \in Nat /\ Len(q) >= 1 /\ Len(Tail(q)) = Len(q) - 1
         /\ \A i \in 1 .. Len(Tail(q)) : /\ Tail(q)[i] = q[i + 1]
                                         /\ i + 1 \in 1 .. Len(q)
<1>1. /\ Tail(q) \in Seq(Message) /\ Head(q) \in Message /\ Head(q) = q[1]
      /\ Len(Tail(q)) = Len(q) - 1
      /\ \A i \in 1 .. Len(Tail(q)) : Tail(q)[i] = q[i + 1]
  BY HeadTailProperties
<1>2. Len(q) \in Nat /\ Len(q) # 0
  BY EmptySeq, LenProperties
<1> QED BY <1>1, <1>2

-----------------------------------------------------------------------------
(* One actor and its inbox *)

\* A sound actor, whatever travels.
Healthy(x) ==
  /\ x \in Actor
  /\ Sound(x.store) /\ IsFiniteSet(x.store.pins)
  /\ IsFiniteSet(x.fetching)
  /\ Ready(x.session, x.store)
  /\ Len(x.out) <= Scene.cap

\* Its session waits for an answer, if there is one.
Waits(x) == x.pending = None <=> x.session.phase = "idle"

Fetches(x) == {f[1] : f \in x.fetching}

\* What x asked travels as it was asked.
Asks(x) ==
  \A i \in 1 .. Len(x.out) : x.out[i].kind = "request" =>
    \/ x.out[i].id = 0 /\ x.out[i].body[1] = "put"
    \/ x.out[i].id = x.pending /\ x.out[i].body = Question(x.session)
    \/ \E f \in x.fetching :
         f[1] = x.out[i].id /\ x.out[i].body = <<"get", f[2]>>

\* What a session in this phase can be fed.
Fits(a, phase) ==
  a \in Expected(phase) /\ (phase = "hashes" => IsFiniteSet(a.rows))

\* What comes answers what x asked.
Told(x, inn) ==
  \A i \in 1 .. Len(inn) : inn[i].kind = "response" =>
    \/ inn[i].id = 0
    \/ inn[i].id = x.pending /\ Fits(inn[i].body, x.session.phase)
    \/ inn[i].id \in Fetches(x) /\ inn[i].body \in SUBSET Blob

\* One message per id: the request, or the answer.
Once(x, inn) ==
  /\ \A i, j \in 1 .. Len(x.out) :
       x.out[i].kind = "request" /\ x.out[j].kind = "request"
         /\ x.out[i].id = x.out[j].id /\ x.out[i].id # 0 => i = j
  /\ \A i, j \in 1 .. Len(inn) :
       inn[i].kind = "response" /\ inn[j].kind = "response"
         /\ inn[i].id = inn[j].id /\ inn[i].id # 0 => i = j
  /\ \A i \in 1 .. Len(x.out), j \in 1 .. Len(inn) :
       x.out[i].kind = "request" /\ inn[j].kind = "response"
         /\ x.out[i].id = inn[j].id => x.out[i].id = 0

Tidy(x, inn) ==
  /\ x.pending \notin Fetches(x)
  /\ \A f, g \in x.fetching : f[1] = g[1] => f = g
  /\ Asks(x) /\ Told(x, inn) /\ Once(x, inn)

\* y is x but for its fetches and its channel, where it put messages of M.
Puts(x, y, M) ==
  /\ y \in Actor
  /\ y.store = x.store /\ y.blobs = x.blobs /\ y.row = x.row
  /\ y.session = x.session /\ y.pending = x.pending /\ y.dirty = x.dirty
  /\ y.watched = x.watched /\ y.follows = x.follows /\ y.stirred = x.stirred
  /\ Longer(x.out, y.out, M)
  /\ Len(x.out) <= Scene.cap => Len(y.out) <= Scene.cap
  /\ x.missed \subseteq y.missed

LEMMA ActorType ==
  ASSUME NEW x \in Actor
  PROVE  /\ x.store \in Store /\ x.blobs \in SUBSET Blob /\ x.row \in Cursor
         /\ x.session \in Session /\ x.pending \in (Nat \ {0}) \cup {None}
         /\ x.dirty \in BOOLEAN /\ x.watched \in BOOLEAN
         /\ x.fetching \in SUBSET ((Nat \ {0}) \X Blob)
         /\ x.follows \in BOOLEAN /\ x.stirred \in BOOLEAN
         /\ x.out \in Seq(Message)
         /\ x.missed \in SUBSET {"response", "request", "push", "gap"}
         /\ \A f \in x.fetching : f[1] \in Nat \ {0} /\ f[2] \in Blob
                                  /\ f = <<f[1], f[2]>>
         /\ Fetches(x) \subseteq Nat \ {0}
BY DEF Actor, Fetches

LEMMA SendPuts ==
  ASSUME scene \in DOMAIN Scenes,
         NEW x \in Actor, NEW m \in Message, NEW M, m \in M
  PROVE  LET y == Send(x, m)
         IN  /\ Puts(x, y, M) /\ y.fetching = x.fetching
             /\ Room(x) => y.out = Append(x.out, m) /\ y.missed = x.missed
             /\ ~Room(x) => y.out = x.out
<1> DEFINE y == Send(x, m)
           mark == IF m.kind \in {"frame", "watch"} THEN "push" ELSE m.kind
<1>1. Scene.cap \in Nat /\ Len(x.out) \in Nat /\ x.out \in Seq(Message)
  BY SceneType, ActorType, LenProperties
<1>2. m.kind \in {"request", "response", "frame", "watch"}
  BY MessageType
<1>3. CASE Room(x)
  <2>1. y = [x EXCEPT !.out = Append(x.out, m)]
    BY <1>3 DEF Send, Actor
  <2>2. /\ Append(x.out, m) \in Seq(Message) /\ Longer(x.out, Append(x.out, m), M)
        /\ Len(Append(x.out, m)) = Len(x.out) + 1
    BY <1>1, LongerAppend, AppendProperties
  <2>3. Len(x.out) + 1 <= Scene.cap
    BY <1>1, <1>3 DEF Room
  <2> HIDE DEF y
  <2> DEFINE out == Append(x.out, m)
  <2>4. y = [x EXCEPT !.out = out] /\ out \in Seq(Message)
    BY <2>1, <2>2
  <2> HIDE DEF out
  <2>5. /\ y \in Actor /\ y.out = out /\ y.missed = x.missed
        /\ y.fetching = x.fetching /\ y.store = x.store /\ y.blobs = x.blobs
        /\ y.row = x.row /\ y.session = x.session /\ y.pending = x.pending
        /\ y.dirty = x.dirty /\ y.watched = x.watched
        /\ y.follows = x.follows /\ y.stirred = x.stirred
    BY <2>4 DEF Actor
  <2> QED BY <1>3, <2>2, <2>3, <2>5 DEF Puts, y, out
<1>4. CASE ~Room(x)
  <2>1. y = [x EXCEPT !.missed = x.missed \cup {mark}]
    BY <1>4 DEF Send, Actor
  <2>2. mark \in {"push", "request", "response"}
    BY <1>2
  <2>3. Longer(x.out, x.out, M)
    BY <1>1, LongerSame
  <2> HIDE DEF y, mark
  <2>4. /\ y \in Actor /\ y.out = x.out /\ y.missed = x.missed \cup {mark}
        /\ y.fetching = x.fetching /\ y.store = x.store /\ y.blobs = x.blobs
        /\ y.row = x.row /\ y.session = x.session /\ y.pending = x.pending
        /\ y.dirty = x.dirty /\ y.watched = x.watched
        /\ y.follows = x.follows /\ y.stirred = x.stirred
    BY <2>1, <2>2 DEF Actor
  <2> QED BY <1>4, <2>3, <2>4 DEF Puts, y, mark
<1> QED BY <1>3, <1>4

LEMMA PutsThen ==
  ASSUME NEW x \in Actor, NEW y, NEW z, NEW M, NEW N,
         Puts(x, y, M), Puts(y, z, N)
  PROVE  Puts(x, z, M \cup N)
<1>1. x.out \in Seq(Message) /\ y.out \in Seq(Message) /\ z.out \in Seq(Message)
  BY ActorType DEF Puts
<1>2. Longer(x.out, z.out, M \cup N)
  BY <1>1, LongerThen DEF Puts
<1> QED BY <1>2 DEF Puts

LEMMA PutsNothing ==
  ASSUME NEW x \in Actor, NEW M
  PROVE  Puts(x, x, M)
BY ActorType, LongerSame DEF Puts

(***************************************************************************)
(* The next request id is one that nothing in flight has.                  *)
(***************************************************************************)
LEMMA FreshIdType ==
  ASSUME NEW x \in Actor, IsFiniteSet(x.fetching)
  PROVE  /\ FreshId(x) \in Nat \ {0}
         /\ FreshId(x) # x.pending /\ FreshId(x) \notin Fetches(x)
<1> DEFINE used == {x.pending} \cup {f[1] : f \in x.fetching}
           n == Cardinality(used)
           Good(i) == i \notin used /\ \A j \in 1 .. i - 1 : j \in used
<1>1. IsFiniteSet(used) /\ n \in Nat
  <2>1. IsFiniteSet({f[1] : f \in x.fetching})
    <3> DEFINE S == x.fetching
               T == {f[1] : f \in S}
               g == [f \in S |-> f[1]]
    <3>1. g \in Surjection(S, T)
      BY DEF Surjection
    <3> HIDE DEF g, T
    <3> QED BY <3>1, FS_Surjection DEF T
  <2>2. IsFiniteSet({x.pending})
    BY FS_Singleton
  <2>3. IsFiniteSet(used)
    BY <2>1, <2>2, FS_Union
  <2> QED BY <2>3, FS_CardinalityType
<1>2. FreshId(x) = CHOOSE i \in 1 .. n + 1 : Good(i)
  BY DEF FreshId
<1>3. \E i \in 1 .. n + 1 : Good(i)
  <2> SUFFICES ASSUME \A i \in 1 .. n + 1 : ~Good(i) PROVE FALSE
    OBVIOUS
  <2> HIDE DEF used, n
  <2> DEFINE S == {k \in Nat : k <= n + 1 => 1 .. k \subseteq used}
  <2>1. 0 \in S
    OBVIOUS
  <2>2. ASSUME NEW k \in Nat, k \in S PROVE k + 1 \in S
    <3> SUFFICES ASSUME k + 1 <= n + 1 PROVE 1 .. k + 1 \subseteq used
      OBVIOUS
    <3>1. k <= n + 1 /\ k + 1 \in 1 .. n + 1
      BY <1>1
    <3>2. 1 .. k \subseteq used
      BY <2>2, <3>1
    <3>3. (k + 1) - 1 = k
      OBVIOUS
    <3>4. k + 1 \in used
      BY <3>1, <3>2, <3>3
    <3>5. 1 .. k + 1 = (1 .. k) \cup {k + 1}
      OBVIOUS
    <3> QED BY <3>2, <3>4, <3>5
  <2> HIDE DEF S
  <2>3. n + 1 \in S
    BY <1>1, <2>1, <2>2, NatSetInduction
  <2>4. 1 .. n + 1 \subseteq used
    BY <1>1, <2>3 DEF S
  <2>5. Cardinality(1 .. n + 1) = n + 1
    BY <1>1, FS_Interval
  <2>6. Cardinality(1 .. n + 1) <= n
    BY <1>1, <2>4, FS_Subset DEF n
  <2> QED BY <1>1, <2>5, <2>6
<1> DEFINE f == FreshId(x)
<1>4. f \in 1 .. n + 1 /\ Good(f)
  BY <1>2, <1>3
<1> HIDE DEF f, n
<1>5. f \in Nat \ {0}
  BY <1>1, <1>4
<1>6. f \notin used
  BY <1>4
<1> QED BY <1>5, <1>6 DEF Fetches, f

-----------------------------------------------------------------------------
(* One step after the other *)

\* What the first n steps reach, step by step.
LEMMA Reached ==
  ASSUME NEW N \in Nat, NEW P, NEW f, f[0] \in P[0],
         \A n \in 1 .. N : f[n - 1] \in P[n - 1] => f[n] \in P[n]
  PROVE  f[N] \in P[N]
<1> DEFINE S == {n \in Nat : n <= N => f[n] \in P[n]}
<1>1. 0 \in S
  OBVIOUS
<1>2. ASSUME NEW n \in Nat, n \in S PROVE n + 1 \in S
  <2> SUFFICES ASSUME n + 1 <= N PROVE f[n + 1] \in P[n + 1]
    OBVIOUS
  <2>1. n <= N /\ n + 1 \in 1 .. N /\ (n + 1) - 1 = n
    OBVIOUS
  <2>2. f[n] \in P[n]
    BY <1>2, <2>1
  <2> QED BY <2>1, <2>2
<1>3. N \in S
  <2> HIDE DEF S
  <2> QED BY <1>1, <1>2, NatSetInduction
<1> QED BY <1>3

\* From s, a step of G at a time, P[n] holding what n steps can reach.
Stepwise(N, X, P, s, G) ==
  /\ N \in Nat /\ s \in P[0]
  /\ \A n \in 0 .. N : P[n] \subseteq X
  /\ \A n \in 1 .. N : \A t \in P[n - 1] : G[<<n, t>>] \in P[n]

Iterated(g, N, X, P, s, G) ==
  /\ g \in [0 .. N -> X]
  /\ \A n \in 0 .. N : /\ g[n] = IF n = 0 THEN s ELSE G[<<n, g[n - 1]>>]
                       /\ g[n] \in P[n]

LEMMA Iterates ==
  ASSUME NEW N, NEW X, NEW P, NEW s, NEW G, Stepwise(N, X, P, s, G)
  PROVE  \E g : Iterated(g, N, X, P, s, G)
<1>0. /\ N \in Nat /\ s \in P[0]
      /\ \A n \in 0 .. N : P[n] \subseteq X
      /\ \A n \in 1 .. N : \A t \in P[n - 1] : G[<<n, t>>] \in P[n]
  BY DEF Stepwise
<1> DEFINE Follow(f, n) == IF n = 0 THEN s ELSE G[<<n, f[n - 1]>>]
           Run(m, g) == \A n \in 0 .. m : g[n] = Follow(g, n) /\ g[n] \in P[n]
           S == {m \in Nat : m <= N => \E g \in [0 .. m -> X] : Run(m, g)}
<1>1. \E g \in [0 .. 0 -> X] : Run(0, g)
  <2>1. [n \in 0 .. 0 |-> s] \in [0 .. 0 -> X]
    BY <1>0
  <2>2. Run(0, [n \in 0 .. 0 |-> s])
    BY <1>0
  <2> QED BY <2>1, <2>2
<1>2. ASSUME NEW m \in Nat, m + 1 <= N, NEW g \in [0 .. m -> X], Run(m, g)
      PROVE  \E h \in [0 .. m + 1 -> X] : Run(m + 1, h)
  <2> DEFINE h == [n \in 0 .. m + 1 |->
                     IF n <= m THEN g[n] ELSE G[<<n, g[m]>>]]
  <2>0. m \in 0 .. m /\ m + 1 \in 1 .. N /\ (m + 1) - 1 = m
    BY <1>0, <1>2
  <2>1. g[m] \in P[m]
    BY <1>0, <1>2, <2>0
  <2>2. G[<<m + 1, g[m]>>] \in P[m + 1]
    BY <1>0, <2>0, <2>1
  <2>3. h \in [0 .. m + 1 -> X]
    <3>1. \A n \in 0 .. m + 1 : n <= m => n \in 0 .. m
      OBVIOUS
    <3>2. \A n \in 0 .. m + 1 : ~(n <= m) => n = m + 1
      OBVIOUS
    <3>3. \A n \in 0 .. m : g[n] \in X
      BY <1>0, <1>2
    <3>4. G[<<m + 1, g[m]>>] \in X
      BY <1>0, <1>2, <2>0, <2>2
    <3> QED BY <3>1, <3>2, <3>3, <3>4
  <2>4. Run(m + 1, h)
    <3> SUFFICES ASSUME NEW n \in 0 .. m + 1
                 PROVE  h[n] = Follow(h, n) /\ h[n] \in P[n]
      OBVIOUS
    <3>1. CASE n = 0
      <4>1. 0 \in 0 .. m /\ h[0] = g[0]
        BY <3>1
      <4>2. g[0] = s /\ g[0] \in P[0]
        BY <1>2, <4>1
      <4> QED BY <3>1, <4>1, <4>2
    <3>2. CASE n # 0 /\ n <= m
      <4>1. n \in 0 .. m /\ n - 1 \in 0 .. m + 1 /\ n - 1 <= m
        BY <3>2
      <4> QED BY <1>2, <3>2, <4>1
    <3>3. CASE n = m + 1
      BY <2>0, <2>1, <2>2, <3>3
    <3> QED BY <3>1, <3>2, <3>3
  <2> QED BY <2>3, <2>4
<1>3. \E g \in [0 .. N -> X] : Run(N, g)
  <2> HIDE DEF Run
  <2>1. 0 \in S
    BY <1>1
  <2>2. ASSUME NEW m \in Nat, m \in S PROVE m + 1 \in S
    <3> SUFFICES ASSUME m + 1 <= N
                 PROVE  \E h \in [0 .. m + 1 -> X] : Run(m + 1, h)
      OBVIOUS
    <3>1. m <= N
      BY <1>0
    <3>2. PICK g \in [0 .. m -> X] : Run(m, g)
      BY <2>2, <3>1
    <3> QED BY <1>2, <3>2
  <2>3. N \in S
    <3> HIDE DEF S
    <3> QED BY <1>0, <2>1, <2>2, NatSetInduction
  <2> QED BY <1>0, <2>3
<1>4. PICK g \in [0 .. N -> X] : Run(N, g)
  BY <1>3
<1>5. Iterated(g, N, X, P, s, G)
  BY <1>4 DEF Iterated
<1> QED BY <1>5

-----------------------------------------------------------------------------
(* Blobs, requested and put one after the other *)

\* A finite set as a sequence: its members, each once.
LEMMA Sequenced ==
  ASSUME NEW T, NEW S \in SUBSET T, IsFiniteSet(S)
  PROVE  SetToSeq(S) \in Seq(T)
<1> DEFINE q == SetToSeq(S)
           n == Cardinality(S)
<1>1. n \in Nat /\ \E f : f \in Bijection(1 .. n, S)
  BY FS_CardinalityType DEF ExistsBijection
<1>2. q \in [1 .. n -> S]
  <2>1. \E f \in [1 .. n -> S] : IsInjective(f)
    BY <1>1 DEF Bijection, Injection
  <2>2. q = CHOOSE f \in [1 .. n -> S] : IsInjective(f)
    BY DEF SetToSeq
  <2> HIDE DEF q, n
  <2> QED BY <2>1, <2>2
<1> HIDE DEF q, n
<1>3. q \in [1 .. n -> T]
  BY <1>2
<1>4. q \in Seq(T)
  BY <1>1, <1>3, IsListed
<1> QED BY <1>4 DEF q

\* Whatever each request keeps, a run of them keeps.
LEMMA RequestAllRule ==
  ASSUME NEW C, NEW x \in C, NEW q \in Seq(Blob),
         \A y \in C : \A b \in Blob : RequestBlob(y, b) \in C
  PROVE  RequestAll(x, q) \in C
<1> DEFINE N == Len(q)
           P == [n \in 0 .. N |-> C]
           G == [p \in (1 .. N) \X C |-> RequestBlob(p[2], q[p[1]])]
           Follow(f, n) == IF n = 0 THEN x ELSE RequestBlob(f[n - 1], q[n])
           after == CHOOSE f : f = [n \in 0 .. N |-> Follow(f, n)]
<1>1. N \in Nat /\ \A n \in 1 .. N : q[n] \in Blob
  BY LenProperties, ElementOfSeq
<1>2. \A n \in 1 .. N : \A t \in C :
        G[<<n, t>>] = RequestBlob(t, q[n]) /\ G[<<n, t>>] \in C
  BY <1>1
<1>3. \E g : Iterated(g, N, C, P, x, G)
  <2>1. /\ N \in Nat /\ x \in P[0]
        /\ \A n \in 0 .. N : P[n] = C
        /\ \A n \in 1 .. N : n \in 0 .. N /\ n - 1 \in 0 .. N
    BY <1>1
  <2> HIDE DEF G, P, N
  <2>2. Stepwise(N, C, P, x, G)
    BY <1>2, <2>1 DEF Stepwise
  <2> QED BY <2>2, Iterates
<1>4. PICK g : Iterated(g, N, C, P, x, G)
  BY <1>3
<1>5. g = [n \in 0 .. N |-> Follow(g, n)]
  <2>1. \A n \in 0 .. N : n # 0 => n - 1 \in 0 .. N /\ n \in 1 .. N
    BY <1>1
  <2> HIDE DEF G, P
  <2>2. g \in [0 .. N -> C]
    BY <1>4 DEF Iterated
  <2>3. \A n \in 0 .. N : g[n] = Follow(g, n)
    BY <1>2, <1>4, <2>1, <2>2 DEF Iterated
  <2> HIDE DEF Follow
  <2> QED BY <2>2, <2>3
<1>6. after = [n \in 0 .. N |-> Follow(after, n)]
  BY <1>5
<1>7. RequestAll(x, q) = after[N]
  BY DEF RequestAll
<1> HIDE DEF after, N, P
<1>8. \A n \in 0 .. N : after[n] = Follow(after, n)
  BY <1>6
<1>9. after[0] \in P[0]
  <2>1. 0 \in 0 .. N
    BY <1>1
  <2>2. after[0] = x
    BY <1>8, <2>1
  <2> QED BY <2>1, <2>2 DEF P
<1>10. \A n \in 1 .. N : after[n - 1] \in P[n - 1] => after[n] \in P[n]
  <2> SUFFICES ASSUME NEW n \in 1 .. N, after[n - 1] \in P[n - 1]
               PROVE  after[n] \in P[n]
    OBVIOUS
  <2>1. n \in 0 .. N /\ n - 1 \in 0 .. N /\ n # 0
    BY <1>1
  <2>2. after[n] = RequestBlob(after[n - 1], q[n]) /\ after[n - 1] \in C
    BY <1>8, <2>1 DEF P
  <2> QED BY <1>1, <2>1, <2>2 DEF P
<1>11. after[N] \in P[N]
  BY <1>1, <1>9, <1>10, Reached
<1> QED BY <1>1, <1>7, <1>11 DEF P

PutOf(b) == Msg("request", 0, <<"put", b>>)

\* Likewise for blobs put.
LEMMA PutAllRule ==
  ASSUME NEW C, NEW x \in C, NEW q \in Seq(Blob),
         \A y \in C : \A i \in 1 .. Len(q) : Send(y, PutOf(q[i])) \in C
  PROVE  PutAll(x, q) \in C
<1> DEFINE N == Len(q)
           P == [n \in 0 .. N |-> C]
           G == [p \in (1 .. N) \X C |-> Send(p[2], PutOf(q[p[1]]))]
           Follow(f, n) == IF n = 0 THEN x ELSE Send(f[n - 1], PutOf(q[n]))
           after == CHOOSE f : f = [n \in 0 .. N |-> Follow(f, n)]
<1>1. N \in Nat /\ \A n \in 1 .. N : q[n] \in Blob
  BY LenProperties, ElementOfSeq
<1>2. \A n \in 1 .. N : \A t \in C :
        G[<<n, t>>] = Send(t, PutOf(q[n])) /\ G[<<n, t>>] \in C
  BY <1>1
<1>3. \E g : Iterated(g, N, C, P, x, G)
  <2>1. /\ N \in Nat /\ x \in P[0]
        /\ \A n \in 0 .. N : P[n] = C
        /\ \A n \in 1 .. N : n \in 0 .. N /\ n - 1 \in 0 .. N
    BY <1>1
  <2> HIDE DEF G, P, N
  <2>2. Stepwise(N, C, P, x, G)
    BY <1>2, <2>1 DEF Stepwise
  <2> QED BY <2>2, Iterates
<1>4. PICK g : Iterated(g, N, C, P, x, G)
  BY <1>3
<1>5. g = [n \in 0 .. N |-> Follow(g, n)]
  <2>1. \A n \in 0 .. N : n # 0 => n - 1 \in 0 .. N /\ n \in 1 .. N
    BY <1>1
  <2> HIDE DEF G, P
  <2>2. g \in [0 .. N -> C]
    BY <1>4 DEF Iterated
  <2>3. \A n \in 0 .. N : g[n] = Follow(g, n)
    BY <1>2, <1>4, <2>1, <2>2 DEF Iterated
  <2> HIDE DEF Follow
  <2> QED BY <2>2, <2>3
<1>6. after = [n \in 0 .. N |-> Follow(after, n)]
  BY <1>5
<1>7. PutAll(x, q) = after[N]
  BY DEF PutAll, PutOf
<1> HIDE DEF after, P
<1>0. \A n \in 1 .. N : \A y \in C : Send(y, PutOf(q[n])) \in C
  OBVIOUS
<1> HIDE DEF N
<1>8. \A n \in 0 .. N : after[n] = Follow(after, n)
  BY <1>6
<1>9. after[0] \in P[0]
  <2>1. 0 \in 0 .. N
    BY <1>1
  <2>2. after[0] = x
    BY <1>8, <2>1
  <2> QED BY <2>1, <2>2 DEF P
<1>10. \A n \in 1 .. N : after[n - 1] \in P[n - 1] => after[n] \in P[n]
  <2> SUFFICES ASSUME NEW n \in 1 .. N, after[n - 1] \in P[n - 1]
               PROVE  after[n] \in P[n]
    OBVIOUS
  <2>1. n \in 0 .. N /\ n - 1 \in 0 .. N /\ n # 0
    BY <1>1
  <2>2. after[n] = Send(after[n - 1], PutOf(q[n])) /\ after[n - 1] \in C
    BY <1>8, <2>1 DEF P
  <2> QED BY <1>0, <2>1, <2>2 DEF P
<1>11. after[N] \in P[N]
  BY <1>1, <1>9, <1>10, Reached
<1> QED BY <1>1, <1>7, <1>11 DEF P

\* What tracking one event makes of P[n - 1] is in P[n]: so are runs of it.
LEMMA TrackedRule ==
  ASSUME NEW q \in Seq(Event), NEW P, NEW s, NEW D,
         [store |-> s, settled |-> D] \in P[0],
         \A n \in 1 .. Len(q) : \A t \in P[n - 1] : Track(t, q[n]) \in P[n]
  PROVE  Tracked(s, D, q) \in P[Len(q)]
<1> DEFINE N == Len(q)
           x == [store |-> s, settled |-> D]
           C == UNION {P[n] : n \in 0 .. N}
           G == [p \in (1 .. N) \X C |-> Track(p[2], q[p[1]])]
           Follow(f, n) == IF n = 0 THEN x ELSE Track(f[n - 1], q[n])
           after == CHOOSE f : f = [n \in 0 .. N |-> Follow(f, n)]
<1>1. N \in Nat
  BY LenProperties
<1>2. \A n \in 1 .. N : \A t \in C : G[<<n, t>>] = Track(t, q[n])
  BY <1>1
<1> HIDE DEF x
<1>3. \E g : Iterated(g, N, C, P, x, G)
  <2>1. /\ N \in Nat /\ x \in P[0]
        /\ \A n \in 0 .. N : P[n] \subseteq C
        /\ \A n \in 1 .. N : n \in 0 .. N /\ n - 1 \in 0 .. N
    BY <1>1 DEF x
  <2>2. \A n \in 1 .. N : \A t \in P[n - 1] : t \in C /\ Track(t, q[n]) \in P[n]
    BY <2>1
  <2> HIDE DEF G, C, N
  <2>3. Stepwise(N, C, P, x, G)
    BY <1>2, <2>1, <2>2 DEF Stepwise
  <2> QED BY <2>3, Iterates
<1>4. PICK g : Iterated(g, N, C, P, x, G)
  BY <1>3
<1>5. g = [n \in 0 .. N |-> Follow(g, n)]
  <2>1. \A n \in 0 .. N : n # 0 => n - 1 \in 0 .. N /\ n \in 1 .. N
    BY <1>1
  <2> HIDE DEF G, C
  <2>2. g \in [0 .. N -> C]
    BY <1>4 DEF Iterated
  <2>3. \A n \in 0 .. N : g[n] = Follow(g, n)
    BY <1>2, <1>4, <2>1, <2>2 DEF Iterated
  <2> HIDE DEF Follow
  <2> QED BY <2>2, <2>3
<1>6. after = [n \in 0 .. N |-> Follow(after, n)]
  BY <1>5
<1>7. Tracked(s, D, q) = after[N]
  BY DEF Tracked, x
<1>8. \A n \in 1 .. N : \A t \in P[n - 1] : Track(t, q[n]) \in P[n]
  OBVIOUS
<1> HIDE DEF after, N
<1>9. \A n \in 0 .. N : after[n] = Follow(after, n)
  BY <1>6
<1>10. after[0] \in P[0]
  BY <1>1, <1>9 DEF x
<1>11. \A n \in 1 .. N : after[n - 1] \in P[n - 1] => after[n] \in P[n]
  <2> SUFFICES ASSUME NEW n \in 1 .. N, after[n - 1] \in P[n - 1]
               PROVE  after[n] \in P[n]
    OBVIOUS
  <2>1. n \in 0 .. N /\ n # 0
    BY <1>1
  <2>2. after[n] = Track(after[n - 1], q[n])
    BY <1>9, <2>1
  <2> QED BY <1>8, <2>2
<1>12. after[N] \in P[N]
  BY <1>1, <1>10, <1>11, Reached
<1> QED BY <1>7, <1>12 DEF N

-----------------------------------------------------------------------------
(* Stores whose claims pin finitely many blobs *)

Stocked(s) == Sound(s) /\ IsFiniteSet(s.pins)

LEMMA EmptyStocked == Stocked(EmptyStore)
BY EmptySound, FS_EmptySet DEF Stocked, EmptyStore

LEMMA IngestStocks ==
  ASSUME NEW s, Stocked(s), NEW e \in Event
  PROVE  /\ Stocked(Ingest(s, e)) /\ Grown(s, Ingest(s, e))
         /\ Ingest(s, e).held = s.held \cup {e.id}
<1> DEFINE i == Ingest(s, e)
           r == Redacted(s, e)
<1>1. s \in Store /\ IsFiniteSet(s.held) /\ IsFiniteSet(s.pins) /\ Sound(s)
  BY DEF Stocked, Sound
<1>2. r.pins \subseteq s.pins
  <2>1. r.pins = s.pins \ UNION {PinsOf(c) : c \in Forgotten(s, e)}
    BY <1>1, RedactedTables
  <2> QED BY <2>1
<1>3. i.held = s.held \cup {e.id} /\ i.pins \subseteq r.pins \cup PinsOf(e.id)
  BY <1>1, IngestRows
<1>4. IsFiniteSet(PinsOf(e.id))
  <2>1. e.id \in Claim
    BY DEF Event
  <2>2. IsFiniteSet(Pins[e.id]) /\ IsFiniteSet({e.id})
    BY <2>1, PeerAssumption, FS_Singleton
  <2> QED BY <2>2, FS_Product DEF PinsOf
<1>5. IsFiniteSet(i.pins)
  <2> HIDE DEF i, r
  <2>1. IsFiniteSet(s.pins \cup PinsOf(e.id))
    BY <1>1, <1>4, FS_Union
  <2>2. i.pins \subseteq s.pins \cup PinsOf(e.id)
    BY <1>2, <1>3
  <2> QED BY <2>1, <2>2, FS_Subset
<1>6. Sound(i) /\ Grown(s, i)
  BY <1>1, IngestGrows
<1> QED BY <1>3, <1>5, <1>6 DEF Stocked

LEMMA IngestAllStocks ==
  ASSUME NEW s, Stocked(s), NEW q \in Seq(Event)
  PROVE  LET u == IngestAll(s, q)
         IN  /\ Stocked(u) /\ Grown(s, u)
             /\ u.held = s.held \cup Ids(q)
<1> DEFINE u == IngestAll(s, q)
           C == {t \in Store : Stocked(t)}
           P == [n \in 0 .. Len(q) |-> C]
<1>1. Len(q) \in Nat /\ \A n \in 1 .. Len(q) : q[n] \in Event
  BY LenProperties, ElementOfSeq
<1>2. s \in P[0] /\ s \in Store /\ IsFiniteSet(s.held) /\ Sound(s)
  BY <1>1 DEF Stocked, Sound
<1>3. ASSUME NEW n \in 1 .. Len(q), NEW t \in P[n - 1]
      PROVE  Ingest(t, q[n]) \in P[n]
  <2>1. n - 1 \in 0 .. Len(q) /\ n \in 0 .. Len(q)
    BY <1>1
  <2>2. Stocked(t)
    BY <2>1
  <2>3. Stocked(Ingest(t, q[n]))
    BY <1>1, <2>2, IngestStocks
  <2>4. Ingest(t, q[n]) \in C
    BY <2>3 DEF Stocked, Sound
  <2> QED BY <2>1, <2>4
<1>4. u \in P[Len(q)]
  <2> HIDE DEF P
  <2> QED BY <1>2, <1>3, IngestAllRule
<1>5. Stocked(u)
  BY <1>1, <1>4
<1>6. Grown(s, u)
  BY <1>2, IngestAllGrows
<1>7. u.held = s.held \cup Ids(q)
  BY <1>2, IngestAllTables DEF Ids
<1> QED BY <1>5, <1>6, <1>7

LEMMA MissingFinite ==
  ASSUME NEW x \in Actor, IsFiniteSet(x.store.pins)
  PROVE  Missing(x) \in SUBSET Blob /\ IsFiniteSet(Missing(x))
<1> DEFINE S == x.store.pins
           T == {p[1] : p \in S}
           g == [p \in S |-> p[1]]
<1>1. S \subseteq Blob \X Claim
  BY DEF Actor, Store
<1>2. T \subseteq Blob
  BY <1>1
<1>3. g \in Surjection(S, T)
  BY DEF Surjection
<1>4. IsFiniteSet(T)
  <2> HIDE DEF g, T, S
  <2> QED BY <1>3, FS_Surjection DEF S
<1>5. Missing(x) = T \ x.blobs
  BY DEF Missing
<1> HIDE DEF T
<1> QED BY <1>2, <1>4, <1>5, FS_Subset

-----------------------------------------------------------------------------
(* What leaves a channel tidy *)

Heedless == Message \ Responding

\* The other end may say what answers nothing.
LEMMA TidyHears ==
  ASSUME NEW x \in Actor, NEW q \in Seq(Message), NEW r \in Seq(Message),
         Tidy(x, q), Longer(q, r, Heedless)
  PROVE  Tidy(x, r)
<1>1. \A i \in 1 .. Len(r) : r[i].kind = "response" =>
        i \in 1 .. Len(q) /\ r[i] = q[i]
  <2> SUFFICES ASSUME NEW i \in 1 .. Len(r), r[i].kind = "response"
               PROVE  i \in 1 .. Len(q) /\ r[i] = q[i]
    OBVIOUS
  <2>1. Len(q) \in Nat /\ Len(r) \in Nat /\ r[i] \in Message
    BY LenProperties, ElementOfSeq
  <2>2. r[i] \notin Heedless
    BY <2>1, MessageType DEF Heedless
  <2>3. ~(i > Len(q))
    BY <2>2 DEF Longer
  <2>4. i \in 1 .. Len(q)
    BY <2>1, <2>3
  <2> QED BY <2>4 DEF Longer
<1>2. Told(x, r)
  BY <1>1 DEF Tidy, Told
<1>3. Once(x, r)
  BY <1>1 DEF Tidy, Once
<1> QED BY <1>2, <1>3 DEF Tidy

\* What was received is gone.
LEMMA TidyPopped ==
  ASSUME NEW x \in Actor, NEW q \in Seq(Message), q # <<>>, Tidy(x, q)
  PROVE  /\ Tidy(x, Tail(q))
         /\ Head(q).kind = "response" /\ Head(q).id # 0 =>
              /\ \A i \in 1 .. Len(x.out) :
                   x.out[i].kind = "request" => x.out[i].id # Head(q).id
              /\ \A i \in 1 .. Len(Tail(q)) :
                   Tail(q)[i].kind = "response" => Tail(q)[i].id # Head(q).id
<1> DEFINE r == Tail(q)
<1>1. /\ r \in Seq(Message) /\ Head(q) = q[1] /\ 1 \in 1 .. Len(q)
      /\ Len(r) \in Nat /\ Len(r) = Len(q) - 1 /\ Len(q) \in Nat
      /\ \A i \in 1 .. Len(r) : r[i] = q[i + 1] /\ i + 1 \in 1 .. Len(q)
  BY Popped, LenProperties
<1> HIDE DEF r
<1>2. Told(x, r)
  BY <1>1 DEF Tidy, Told
<1>3. Once(x, r)
  <2>1. \A i, j \in 1 .. Len(r) :
          r[i].kind = "response" /\ r[j].kind = "response"
            /\ r[i].id = r[j].id /\ r[i].id # 0 => i = j
    <3> SUFFICES ASSUME NEW i \in 1 .. Len(r), NEW j \in 1 .. Len(r),
                        r[i].kind = "response", r[j].kind = "response",
                        r[i].id = r[j].id, r[i].id # 0
                 PROVE  i = j
      OBVIOUS
    <3>1. /\ i + 1 \in 1 .. Len(q) /\ r[i] = q[i + 1]
          /\ j + 1 \in 1 .. Len(q) /\ r[j] = q[j + 1]
      BY <1>1
    <3>2. i + 1 = j + 1
      BY <3>1 DEF Tidy, Once
    <3> QED BY <1>1, <3>2
  <2> QED BY <1>1, <2>1 DEF Tidy, Once
<1>4. ASSUME Head(q).kind = "response", Head(q).id # 0
      PROVE  /\ \A i \in 1 .. Len(x.out) :
                  x.out[i].kind = "request" => x.out[i].id # Head(q).id
             /\ \A i \in 1 .. Len(r) :
                  r[i].kind = "response" => r[i].id # Head(q).id
  <2>1. ASSUME NEW i \in 1 .. Len(x.out), x.out[i].kind = "request"
        PROVE  x.out[i].id # Head(q).id
    BY <1>1, <1>4, <2>1 DEF Tidy, Once
  <2>2. ASSUME NEW i \in 1 .. Len(r), r[i].kind = "response"
        PROVE  r[i].id # Head(q).id
    <3>1. i + 1 # 1
      BY <1>1
    <3> QED BY <1>1, <1>4, <2>2, <3>1 DEF Tidy, Once
  <2> QED BY <2>1, <2>2
<1> QED BY <1>2, <1>3, <1>4 DEF Tidy, r

\* The other end received.
LEMMA TidyReceived ==
  ASSUME NEW x \in Actor, NEW q \in Seq(Message), x.out # <<>>, Tidy(x, q)
  PROVE  LET y == [x EXCEPT !.out = Tail(@)]
         IN  y \in Actor /\ y.out = Tail(x.out) /\ Tidy(y, q)
<1> DEFINE p == x.out
           r == Tail(x.out)
           y == [x EXCEPT !.out = r]
<1>1. p \in Seq(Message)
  BY ActorType
<1>2. /\ r \in Seq(Message) /\ Len(r) \in Nat
      /\ \A i \in 1 .. Len(r) : r[i] = p[i + 1] /\ i + 1 \in 1 .. Len(p)
  BY <1>1, Popped, LenProperties
<1> HIDE DEF r
<1>3. /\ y \in Actor /\ y.out = r /\ y.pending = x.pending
      /\ y.fetching = x.fetching /\ y.session = x.session
  BY <1>2 DEF Actor
<1> HIDE DEF y
<1>4. Asks(y)
  <2>1. ASSUME NEW i \in 1 .. Len(r), r[i].kind = "request"
        PROVE  \/ r[i].id = 0 /\ r[i].body[1] = "put"
               \/ r[i].id = x.pending /\ r[i].body = Question(x.session)
               \/ \E f \in x.fetching :
                    f[1] = r[i].id /\ r[i].body = <<"get", f[2]>>
    <3>1. i + 1 \in 1 .. Len(p) /\ r[i] = p[i + 1]
      BY <1>2
    <3> QED BY <2>1, <3>1 DEF Tidy, Asks
  <2> QED BY <1>3, <2>1 DEF Asks
<1>5. Told(y, q)
  BY <1>3 DEF Tidy, Told, Fetches
<1>6. Once(y, q)
  <2>1. \A i, j \in 1 .. Len(r) :
          r[i].kind = "request" /\ r[j].kind = "request"
            /\ r[i].id = r[j].id /\ r[i].id # 0 => i = j
    <3> SUFFICES ASSUME NEW i \in 1 .. Len(r), NEW j \in 1 .. Len(r),
                        r[i].kind = "request", r[j].kind = "request",
                        r[i].id = r[j].id, r[i].id # 0
                 PROVE  i = j
      OBVIOUS
    <3>1. /\ i + 1 \in 1 .. Len(p) /\ r[i] = p[i + 1]
          /\ j + 1 \in 1 .. Len(p) /\ r[j] = p[j + 1]
      BY <1>2
    <3>2. i + 1 = j + 1
      BY <3>1 DEF Tidy, Once
    <3> QED BY <1>2, <3>2
  <2>2. \A i, j \in 1 .. Len(q) :
          q[i].kind = "response" /\ q[j].kind = "response"
            /\ q[i].id = q[j].id /\ q[i].id # 0 => i = j
    BY DEF Tidy, Once
  <2>3. ASSUME NEW i \in 1 .. Len(r), NEW j \in 1 .. Len(q),
               r[i].kind = "request", q[j].kind = "response", r[i].id = q[j].id
        PROVE  r[i].id = 0
    <3>1. i + 1 \in 1 .. Len(p) /\ r[i] = p[i + 1]
      BY <1>2
    <3> QED BY <2>3, <3>1 DEF Tidy, Once
  <2> QED BY <1>3, <2>1, <2>2, <2>3 DEF Once
<1>7. y.pending \notin Fetches(y) /\ \A f, g \in y.fetching : f[1] = g[1] => f = g
  BY <1>3 DEF Tidy, Fetches
<1>8. y \in Actor /\ y.out = r /\ Tidy(y, q)
  BY <1>3, <1>4, <1>5, <1>6, <1>7 DEF Tidy
<1> QED BY <1>8 DEF y, r

\* An answer to what a tidy x asked, of the shape it asked for.
Answers(x, m, a) ==
  /\ a \in Reply
  /\ m.id = x.pending /\ m.body = Question(x.session) =>
       Fits(a, x.session.phase)
  /\ m.body[1] = "get" => a \in SUBSET Blob

\* The other end received a request, and answers it.
LEMMA TidyAnswered ==
  ASSUME NEW x \in Actor, NEW q \in Seq(Message), x.out # <<>>, Tidy(x, q),
         Head(x.out).kind = "request",
         NEW a, Answers(x, Head(x.out), a)
  PROVE  LET y == [x EXCEPT !.out = Tail(@)]
             m == Msg("response", Head(x.out).id, a)
         IN  m \in Responding /\ Tidy(y, Append(q, m))
<1> DEFINE y == [x EXCEPT !.out = Tail(@)]
           h == Head(x.out)
           m == Msg("response", h.id, a)
           r == Append(q, m)
<1>1. /\ x.out \in Seq(Message) /\ h \in Message /\ h = x.out[1]
      /\ 1 \in 1 .. Len(x.out) /\ h.id \in Nat
  BY ActorType, Popped, MessageType
<1>2. /\ m.kind = "response" /\ m.id = h.id /\ m.body = a
      /\ m \in Responding /\ m \in Message
  BY <1>1 DEF Msg, Responding, Message, Answers
<1>3. y \in Actor /\ y.out = Tail(x.out) /\ Tidy(y, q)
  BY TidyReceived
<1>4. y.pending = x.pending /\ y.session = x.session /\ y.fetching = x.fetching
  BY <1>3 DEF Actor
<1>5. /\ r \in Seq(Message) /\ Len(q) \in Nat /\ Len(r) = Len(q) + 1
      /\ \A i \in 1 .. Len(q) : r[i] = q[i]
      /\ r[Len(r)] = m
  BY <1>2, AppendProperties, LenProperties
<1>6. /\ \A i \in 1 .. Len(y.out) : /\ y.out[i] = x.out[i + 1]
                                    /\ i + 1 \in 1 .. Len(x.out)
                                    /\ i + 1 # 1
  <2>1. /\ Len(Tail(x.out)) \in Nat
        /\ \A i \in 1 .. Len(Tail(x.out)) : /\ Tail(x.out)[i] = x.out[i + 1]
                                            /\ i + 1 \in 1 .. Len(x.out)
    BY <1>1, Popped, LenProperties
  <2> QED BY <1>3, <2>1
<1> HIDE DEF m, r, y
<1>7. \A i \in 1 .. Len(r) : i \in 1 .. Len(q) \/ i = Len(r)
  BY <1>5
<1>8. \/ h.id = 0
      \/ h.id = x.pending /\ Fits(a, x.session.phase)
      \/ h.id \in Fetches(x) /\ a \in SUBSET Blob
  <2>1. \/ h.id = 0 /\ h.body[1] = "put"
        \/ h.id = x.pending /\ h.body = Question(x.session)
        \/ \E f \in x.fetching : f[1] = h.id /\ h.body = <<"get", f[2]>>
    BY <1>1 DEF Tidy, Asks
  <2>2. CASE \E f \in x.fetching : f[1] = h.id /\ h.body = <<"get", f[2]>>
    <3>1. PICK f \in x.fetching : f[1] = h.id /\ h.body = <<"get", f[2]>>
      BY <2>2
    <3>2. h.body[1] = "get"
      BY <3>1
    <3> QED BY <3>1, <3>2 DEF Fetches, Answers
  <2> QED BY <2>1, <2>2 DEF Answers
<1>9. Told(y, r)
  <2> SUFFICES ASSUME NEW i \in 1 .. Len(r), r[i].kind = "response"
               PROVE  \/ r[i].id = 0
                      \/ r[i].id = y.pending /\ Fits(r[i].body, y.session.phase)
                      \/ r[i].id \in Fetches(y) /\ r[i].body \in SUBSET Blob
    BY DEF Told
  <2>1. CASE i \in 1 .. Len(q)
    BY <1>3, <1>5, <2>1 DEF Tidy, Told
  <2>2. CASE i = Len(r)
    BY <1>2, <1>4, <1>5, <1>8, <2>2 DEF Fetches
  <2> QED BY <1>7, <2>1, <2>2
<1>10. Once(y, r)
  <2>1. \A i \in 1 .. Len(y.out) : y.out[i].kind = "request" =>
          y.out[i].id # h.id \/ h.id = 0
    BY <1>1, <1>6 DEF Tidy, Once
  <2>2. \A i \in 1 .. Len(q) : q[i].kind = "response" =>
          q[i].id # h.id \/ h.id = 0
    BY <1>1 DEF Tidy, Once
  <2>3. Once(y, q)
    BY <1>3 DEF Tidy
  <2>4. ASSUME NEW i \in 1 .. Len(r), NEW j \in 1 .. Len(r),
               r[i].kind = "response", r[j].kind = "response",
               r[i].id = r[j].id, r[i].id # 0
        PROVE  i = j
    <3>1. CASE i \in 1 .. Len(q) /\ j \in 1 .. Len(q)
      BY <1>5, <2>3, <2>4, <3>1 DEF Once
    <3>2. CASE i = Len(r) /\ j \in 1 .. Len(q)
      BY <1>2, <1>5, <2>2, <2>4, <3>2
    <3>3. CASE j = Len(r) /\ i \in 1 .. Len(q)
      BY <1>2, <1>5, <2>2, <2>4, <3>3
    <3> QED BY <1>7, <3>1, <3>2, <3>3
  <2>5. ASSUME NEW i \in 1 .. Len(y.out), NEW j \in 1 .. Len(r),
               y.out[i].kind = "request", r[j].kind = "response",
               y.out[i].id = r[j].id
        PROVE  y.out[i].id = 0
    <3>1. CASE j \in 1 .. Len(q)
      BY <1>5, <2>3, <2>5, <3>1 DEF Once
    <3>2. CASE j = Len(r)
      BY <1>2, <1>5, <2>1, <2>5, <3>2
    <3> QED BY <1>7, <3>1, <3>2
  <2> QED BY <2>3, <2>4, <2>5 DEF Once
<1>11. m \in Responding /\ Tidy(y, r)
  BY <1>2, <1>3, <1>9, <1>10 DEF Tidy
<1> QED BY <1>11 DEF m, r, y

\* What one may say at any time: anything but a request someone waits for.
Saying == {m \in Message : m.kind = "request" => m.id = 0 /\ m.body[1] = "put"}

LEMMA TidySays ==
  ASSUME NEW x \in Actor, NEW y \in Actor, NEW q \in Seq(Message), Tidy(x, q),
         Longer(x.out, y.out, Saying),
         y.pending = x.pending, y.fetching = x.fetching,
         y.session = x.session \/ x.pending = None
  PROVE  Tidy(y, q)
<1>1. /\ x.out \in Seq(Message) /\ y.out \in Seq(Message)
      /\ Len(x.out) \in Nat /\ Len(y.out) \in Nat
      /\ \A i \in 1 .. Len(x.out) : x.out[i].id \in Nat
      /\ \A i \in 1 .. Len(q) : q[i].id \in Nat
  BY ActorType, LenProperties, ElementOfSeq, MessageType
<1>2. \A i \in 1 .. Len(y.out) :
        \/ i \in 1 .. Len(x.out) /\ y.out[i] = x.out[i]
        \/ y.out[i].kind = "request" => y.out[i].id = 0 /\ y.out[i].body[1] = "put"
  <2> SUFFICES ASSUME NEW i \in 1 .. Len(y.out)
               PROVE  \/ i \in 1 .. Len(x.out) /\ y.out[i] = x.out[i]
                      \/ y.out[i] \in Saying
    BY DEF Saying
  <2>1. i \in 1 .. Len(x.out) \/ i > Len(x.out)
    BY <1>1
  <2> QED BY <2>1 DEF Longer
<1>3. None \notin Nat
  BY PeerAssumption
<1>4. Asks(y)
  <2> SUFFICES ASSUME NEW i \in 1 .. Len(y.out), y.out[i].kind = "request"
               PROVE  \/ y.out[i].id = 0 /\ y.out[i].body[1] = "put"
                      \/ y.out[i].id = y.pending /\ y.out[i].body = Question(y.session)
                      \/ \E f \in y.fetching :
                           f[1] = y.out[i].id /\ y.out[i].body = <<"get", f[2]>>
    BY DEF Asks
  <2>1. CASE i \in 1 .. Len(x.out) /\ y.out[i] = x.out[i]
    <3>1. \/ y.out[i].id = 0 /\ y.out[i].body[1] = "put"
          \/ y.out[i].id = x.pending /\ y.out[i].body = Question(x.session)
          \/ \E f \in x.fetching :
               f[1] = y.out[i].id /\ y.out[i].body = <<"get", f[2]>>
      BY <2>1 DEF Tidy, Asks
    <3>2. y.out[i].id = x.pending => y.session = x.session
      BY <1>1, <1>3, <2>1
    <3> QED BY <3>1, <3>2
  <2> QED BY <1>2, <2>1
<1>5. Told(y, q)
  <2>1. \A i \in 1 .. Len(q) : q[i].id = x.pending => y.session = x.session
    BY <1>1, <1>3
  <2> QED BY <2>1 DEF Tidy, Told, Fetches
<1>6. Once(y, q)
  <2>1. ASSUME NEW i \in 1 .. Len(y.out), NEW j \in 1 .. Len(y.out),
               y.out[i].kind = "request", y.out[j].kind = "request",
               y.out[i].id = y.out[j].id, y.out[i].id # 0
        PROVE  i = j
    <3>1. /\ i \in 1 .. Len(x.out) /\ y.out[i] = x.out[i]
          /\ j \in 1 .. Len(x.out) /\ y.out[j] = x.out[j]
      BY <1>2, <2>1
    <3> QED BY <2>1, <3>1 DEF Tidy, Once
  <2>2. ASSUME NEW i \in 1 .. Len(y.out), NEW j \in 1 .. Len(q),
               y.out[i].kind = "request", q[j].kind = "response",
               y.out[i].id = q[j].id
        PROVE  y.out[i].id = 0
    <3>1. CASE i \in 1 .. Len(x.out) /\ y.out[i] = x.out[i]
      BY <2>2, <3>1 DEF Tidy, Once
    <3> QED BY <1>2, <2>2, <3>1
  <2>3. \A i, j \in 1 .. Len(q) :
          q[i].kind = "response" /\ q[j].kind = "response"
            /\ q[i].id = q[j].id /\ q[i].id # 0 => i = j
    BY DEF Tidy, Once
  <2> QED BY <2>1, <2>2, <2>3 DEF Once
<1> QED BY <1>4, <1>5, <1>6 DEF Tidy, Fetches

\* A request under a fresh id: of a blob, or of a session's next answer.
LEMMA TidyAsks ==
  ASSUME NEW x \in Actor, NEW y \in Actor, NEW q \in Seq(Message), Tidy(x, q),
         NEW m \in Requesting, y.out = Append(x.out, m),
         m.id \in Nat \ {0}, m.id # x.pending, m.id \notin Fetches(x),
         \/ \E b \in Blob : /\ m.body = <<"get", b>>
                            /\ y.fetching = x.fetching \cup {<<m.id, b>>}
                            /\ y.pending = x.pending /\ y.session = x.session
         \/ /\ x.pending = None /\ y.fetching = x.fetching
            /\ y.pending = m.id /\ m.body = Question(y.session)
  PROVE  /\ Tidy(y, q)
         /\ \A i \in 1 .. Len(q) : q[i].kind = "response" => q[i].id # m.id
<1>1. /\ x.out \in Seq(Message) /\ Len(x.out) \in Nat
      /\ Len(y.out) = Len(x.out) + 1
      /\ \A i \in 1 .. Len(x.out) : y.out[i] = x.out[i]
      /\ y.out[Len(y.out)] = m /\ m.kind = "request"
      /\ \A i \in 1 .. Len(x.out) : x.out[i].id \in Nat
      /\ \A i \in 1 .. Len(q) : q[i].id \in Nat
  <2>1. x.out \in Seq(Message) /\ Len(x.out) \in Nat /\ m \in Message
    BY ActorType, LenProperties DEF Message
  <2>2. /\ Len(y.out) = Len(x.out) + 1
        /\ \A i \in 1 .. Len(x.out) : y.out[i] = x.out[i]
        /\ y.out[Len(x.out) + 1] = m
    BY <2>1, AppendProperties
  <2>3. /\ \A i \in 1 .. Len(x.out) : x.out[i].id \in Nat
        /\ \A i \in 1 .. Len(q) : q[i].id \in Nat
    BY <2>1, ElementOfSeq, MessageType
  <2> QED BY <2>1, <2>2, <2>3 DEF Requesting
<1>2. \A i \in 1 .. Len(y.out) : i \in 1 .. Len(x.out) \/ i = Len(y.out)
  BY <1>1
<1>3. None \notin Nat
  BY PeerAssumption
<1>4. \A i \in 1 .. Len(x.out) : x.out[i].kind = "request" => x.out[i].id # m.id
  BY DEF Tidy, Asks, Fetches
<1>5. \A i \in 1 .. Len(q) : q[i].kind = "response" => q[i].id # m.id
  BY DEF Tidy, Told
<1>6. \A f \in x.fetching : f \in y.fetching
  OBVIOUS
<1>7. \A i \in 1 .. Len(x.out) :
        x.out[i].id = x.pending => y.pending = x.pending /\ y.session = x.session
  BY <1>1, <1>3
<1>8. Asks(y)
  <2> SUFFICES ASSUME NEW i \in 1 .. Len(y.out), y.out[i].kind = "request"
               PROVE  \/ y.out[i].id = 0 /\ y.out[i].body[1] = "put"
                      \/ y.out[i].id = y.pending /\ y.out[i].body = Question(y.session)
                      \/ \E f \in y.fetching :
                           f[1] = y.out[i].id /\ y.out[i].body = <<"get", f[2]>>
    BY DEF Asks
  <2>1. CASE i \in 1 .. Len(x.out)
    <3>1. \/ x.out[i].id = 0 /\ x.out[i].body[1] = "put"
          \/ x.out[i].id = x.pending /\ x.out[i].body = Question(x.session)
          \/ \E f \in x.fetching :
               f[1] = x.out[i].id /\ x.out[i].body = <<"get", f[2]>>
      BY <1>1, <2>1 DEF Tidy, Asks
    <3> QED BY <1>1, <1>6, <1>7, <2>1, <3>1
  <2>2. CASE i = Len(y.out)
    <3>1. y.out[i] = m
      BY <1>1, <2>2
    <3>2. CASE \E b \in Blob : /\ m.body = <<"get", b>>
                               /\ y.fetching = x.fetching \cup {<<m.id, b>>}
      <4>1. PICK b \in Blob : /\ m.body = <<"get", b>>
                              /\ y.fetching = x.fetching \cup {<<m.id, b>>}
        BY <3>2
      <4>2. <<m.id, b>> \in y.fetching /\ <<m.id, b>>[1] = m.id /\ <<m.id, b>>[2] = b
        BY <4>1
      <4> QED BY <3>1, <4>1, <4>2
    <3> QED BY <3>1, <3>2
  <2> QED BY <1>2, <2>1, <2>2
<1>9. Told(y, q)
  <2>1. \A i \in 1 .. Len(q) :
          q[i].id = x.pending => y.pending = x.pending /\ y.session = x.session
    BY <1>1, <1>3
  <2>2. Fetches(x) \subseteq Fetches(y)
    BY <1>6 DEF Fetches
  <2> QED BY <2>1, <2>2 DEF Tidy, Told
<1>10. Once(y, q)
  <2>1. ASSUME NEW i \in 1 .. Len(y.out), NEW j \in 1 .. Len(y.out),
               y.out[i].kind = "request", y.out[j].kind = "request",
               y.out[i].id = y.out[j].id, y.out[i].id # 0
        PROVE  i = j
    <3>1. CASE i \in 1 .. Len(x.out) /\ j \in 1 .. Len(x.out)
      BY <1>1, <2>1, <3>1 DEF Tidy, Once
    <3>2. CASE i \in 1 .. Len(x.out) /\ j = Len(y.out)
      BY <1>1, <1>4, <2>1, <3>2
    <3>3. CASE j \in 1 .. Len(x.out) /\ i = Len(y.out)
      BY <1>1, <1>4, <2>1, <3>3
    <3> QED BY <1>2, <3>1, <3>2, <3>3
  <2>2. ASSUME NEW i \in 1 .. Len(y.out), NEW j \in 1 .. Len(q),
               y.out[i].kind = "request", q[j].kind = "response",
               y.out[i].id = q[j].id
        PROVE  y.out[i].id = 0
    <3>1. CASE i \in 1 .. Len(x.out)
      BY <1>1, <2>2, <3>1 DEF Tidy, Once
    <3>2. CASE i = Len(y.out)
      BY <1>1, <1>5, <2>2, <3>2
    <3> QED BY <1>2, <3>1, <3>2
  <2> QED BY <2>1, <2>2 DEF Tidy, Once
<1>11. /\ y.pending \notin Fetches(y)
       /\ \A f, g \in y.fetching : f[1] = g[1] => f = g
  <2>1. CASE \E b \in Blob : /\ y.fetching = x.fetching \cup {<<m.id, b>>}
                             /\ y.pending = x.pending
    <3>1. PICK b \in Blob : y.fetching = x.fetching \cup {<<m.id, b>>}
      BY <2>1
    <3>2. \A f \in x.fetching : f[1] # m.id
      BY DEF Fetches
    <3>3. \A f \in y.fetching : f \in x.fetching \/ (f = <<m.id, b>> /\ f[1] = m.id)
      BY <3>1
    <3>4. Fetches(y) \subseteq Fetches(x) \cup {m.id}
      BY <3>3 DEF Fetches
    <3> QED BY <2>1, <3>2, <3>3, <3>4 DEF Tidy
  <2>2. CASE y.fetching = x.fetching /\ y.pending = m.id
    BY <2>2 DEF Tidy, Fetches
  <2> QED BY <2>1, <2>2
<1> QED BY <1>5, <1>8, <1>9, <1>10, <1>11 DEF Tidy

-----------------------------------------------------------------------------
(* Requests of an actor's own *)

\* y is x having asked for blobs.
Asked(x, y, inn) ==
  /\ Healthy(y) /\ Tidy(y, inn) /\ Puts(x, y, Requesting)

LEMMA AskedNothing ==
  ASSUME NEW x, NEW inn, Healthy(x), Tidy(x, inn)
  PROVE  Asked(x, x, inn)
BY PutsNothing DEF Asked, Healthy

LEMMA AskedThen ==
  ASSUME NEW x, Healthy(x), NEW y, NEW z, NEW inn, Asked(x, y, inn), Asked(y, z, inn)
  PROVE  Asked(x, z, inn)
<1>1. Puts(x, z, Requesting \cup Requesting)
  BY PutsThen DEF Asked, Healthy
<1>2. Requesting \cup Requesting = Requesting
  OBVIOUS
<1> QED BY <1>1, <1>2 DEF Asked

LEMMA RequestBlobKeeps ==
  ASSUME scene \in DOMAIN Scenes,
         NEW x, NEW inn \in Seq(Message), Healthy(x), Tidy(x, inn),
         NEW b \in Blob
  PROVE  Asked(x, RequestBlob(x, b), inn)
<1> DEFINE id == FreshId(x)
           m == Msg("request", id, <<"get", b>>)
           sent == Send(x, m)
           f == <<id, b>>
           y == [sent EXCEPT !.fetching = @ \cup {f}]
<1>1. x \in Actor /\ IsFiniteSet(x.fetching)
  BY DEF Healthy
<1>2. id \in Nat \ {0} /\ id # x.pending /\ id \notin Fetches(x)
  BY <1>1, FreshIdType
<1>3. /\ m \in Requesting /\ m \in Message /\ m.kind = "request" /\ m.id = id
      /\ m.body = <<"get", b>>
  <2>1. <<"get", b>> \in Ask
    BY DEF Ask
  <2> HIDE DEF id
  <2> QED BY <1>2, <2>1 DEF Msg, Requesting, Message
<1>4. RequestBlob(x, b) = IF \E g \in x.fetching : g[2] = b THEN x
                          ELSE IF Room(x) THEN y ELSE sent
  BY DEF RequestBlob
<1> HIDE DEF m, id
<1>5. /\ Puts(x, sent, Requesting) /\ sent.fetching = x.fetching
      /\ Room(x) => sent.out = Append(x.out, m) /\ sent.missed = x.missed
      /\ ~Room(x) => sent.out = x.out
  BY <1>1, <1>3, SendPuts
<1> HIDE DEF sent
<1>6. CASE Room(x)
  <2>1. f \in (Nat \ {0}) \X Blob
    BY <1>2
  <2>2. sent \in Actor /\ sent.fetching = x.fetching
    BY <1>5 DEF Puts
  <2> HIDE DEF f
  <2>3. /\ y \in Actor /\ y.fetching = x.fetching \cup {f}
        /\ y.store = sent.store /\ y.blobs = sent.blobs /\ y.row = sent.row
        /\ y.session = sent.session /\ y.pending = sent.pending
        /\ y.dirty = sent.dirty /\ y.watched = sent.watched
        /\ y.follows = sent.follows /\ y.stirred = sent.stirred
        /\ y.out = sent.out /\ y.missed = sent.missed
    BY <2>1, <2>2 DEF Actor
  <2> HIDE DEF y
  <2>4. Puts(x, y, Requesting)
    BY <1>5, <2>3 DEF Puts
  <2>5. IsFiniteSet(y.fetching)
    BY <1>1, <2>3, FS_AddElement
  <2>6. Healthy(y)
    BY <1>5, <2>3, <2>4, <2>5 DEF Healthy, Puts
  <2>7. Tidy(y, inn)
    <3>1. y.out = Append(x.out, m)
      BY <1>5, <1>6, <2>3
    <3>2. /\ m.body = <<"get", b>> /\ y.fetching = x.fetching \cup {<<m.id, b>>}
          /\ y.pending = x.pending /\ y.session = x.session
      BY <1>3, <2>3, <2>4 DEF Puts, f
    <3> QED BY <1>1, <1>2, <1>3, <2>3, <3>1, <3>2, TidyAsks
  <2> QED BY <1>4, <1>5, <1>6, <2>3, <2>4, <2>6, <2>7, AskedNothing DEF Asked
<1>7. CASE ~Room(x)
  <2>1. Healthy(sent)
    BY <1>1, <1>5 DEF Healthy, Puts
  <2>2. Tidy(sent, inn)
    <3>1. Longer(x.out, sent.out, Saying)
      BY <1>1, <1>5, <1>7, LongerSame, ActorType
    <3> QED BY <1>1, <1>5, <3>1, TidySays DEF Puts
  <2> QED BY <1>4, <1>5, <1>7, <2>1, <2>2, AskedNothing DEF Asked
<1> QED BY <1>6, <1>7

LEMMA EagerFetchKeeps ==
  ASSUME scene \in DOMAIN Scenes,
         NEW x, NEW inn \in Seq(Message), Healthy(x), Tidy(x, inn),
         NEW n
  PROVE  Asked(x, EagerFetch(x, n), inn)
<1> DEFINE C == {y \in Actor : Asked(x, y, inn)}
           q == SetToSeq(Missing(x))
<1>1. x \in Actor
  BY DEF Healthy
<1>2. q \in Seq(Blob)
  BY <1>1, MissingFinite, Sequenced DEF Healthy
<1>3. x \in C
  BY <1>1, AskedNothing
<1>4. ASSUME NEW y \in C, NEW b \in Blob PROVE RequestBlob(y, b) \in C
  <2>1. Asked(y, RequestBlob(y, b), inn)
    BY <1>4, RequestBlobKeeps DEF Asked
  <2>2. Asked(x, RequestBlob(y, b), inn)
    BY <1>4, <2>1, AskedThen
  <2> QED BY <2>2 DEF Asked, Healthy
<1> HIDE DEF C, q
<1>5. RequestAll(x, q) \in C
  BY <1>2, <1>3, <1>4, RequestAllRule
<1>6. Asked(x, RequestAll(x, q), inn)
  BY <1>5 DEF C
<1> QED BY <1>6, AskedNothing DEF EagerFetch, q

\* No answer comes to what x waits for.
Unheard(x, inn) ==
  \A i \in 1 .. Len(inn) : inn[i].kind = "response" => inn[i].id # x.pending

\* y is x having asked what it wants: blobs, or a session's next answer.
Moves(x, y, inn) ==
  /\ Healthy(y) /\ Waits(y) /\ Tidy(y, inn)
  /\ y.store = x.store /\ y.blobs = x.blobs /\ y.row = x.row
  /\ y.watched = x.watched /\ y.follows = x.follows
  /\ Longer(x.out, y.out, Requesting)
  /\ x.missed \subseteq y.missed

LEMMA AdvanceKeeps ==
  ASSUME scene \in DOMAIN Scenes,
         NEW x, NEW inn \in Seq(Message), Healthy(x), Tidy(x, inn),
         x.pending = None, NEW n
  PROVE  LET y == Advance(x, n)
         IN  /\ Moves(x, y, inn) /\ Unheard(y, inn)
             /\ y.session \in {x.session, Idle}
             /\ y.session.phase = "idle" => y.session = x.session \/ y.dirty
             /\ y.dirty => x.dirty \/ x.session.phase # "idle"
<1> DEFINE id == FreshId(x)
           q == Question(x.session)
           m == Msg("request", id, q)
           done == [x EXCEPT !.stirred = FALSE]
           y == Advance(x, n)
<1>1. x \in Actor /\ IsFiniteSet(x.fetching) /\ x.out \in Seq(Message)
      /\ x.session \in Session
  BY ActorType DEF Healthy
<1>2. id \in Nat \ {0} /\ id # x.pending /\ id \notin Fetches(x)
  BY <1>1, FreshIdType
<1>3. /\ done \in Actor /\ done.stirred = FALSE
      /\ done.store = x.store /\ done.blobs = x.blobs /\ done.row = x.row
      /\ done.session = x.session /\ done.pending = x.pending
      /\ done.dirty = x.dirty /\ done.watched = x.watched
      /\ done.fetching = x.fetching
      /\ done.follows = x.follows
      /\ done.out = x.out /\ done.missed = x.missed
  BY <1>1 DEF Actor
<1>4. \A i \in 1 .. Len(inn) : inn[i].id \in Nat
  BY ElementOfSeq, MessageType
<1>5. None \notin Nat
  BY PeerAssumption
<1>6. y = IF x.session.phase = "idle"
          THEN IF x.stirred THEN EagerFetch(done, n) ELSE done
          ELSE IF Room(x)
          THEN [Send(x, m) EXCEPT !.pending = id]
          ELSE [Send(done, m) EXCEPT !.session = Idle, !.dirty = TRUE]
  BY DEF Advance
<1> HIDE DEF done, y
<1>7. Longer(x.out, done.out, Saying) /\ Longer(x.out, done.out, Requesting)
  BY <1>1, <1>3, LongerSame
<1>8. Healthy(done) /\ Tidy(done, inn)
  BY <1>1, <1>3, <1>7, TidySays DEF Healthy
<1>9. CASE x.session.phase = "idle"
  <2>1. Asked(done, y, inn)
    BY <1>6, <1>8, <1>9, AskedNothing, EagerFetchKeeps
  <2>2. Longer(x.out, y.out, Requesting)
    BY <1>3, <2>1 DEF Asked, Puts
  <2>3. y.pending = None /\ y.session = x.session /\ y.dirty = x.dirty
    BY <1>3, <2>1 DEF Asked, Puts
  <2>4. Unheard(y, inn)
    BY <1>4, <1>5, <2>3 DEF Unheard
  <2>5. Moves(x, y, inn)
    BY <1>3, <1>9, <2>1, <2>2, <2>3 DEF Asked, Puts, Moves, Waits
  <2> QED BY <1>9, <2>3, <2>4, <2>5 DEF y
<1>10. ASSUME x.session.phase # "idle"
       PROVE  m \in Requesting /\ m \in Message /\ m.kind = "request"
              /\ m.id = id /\ m.body = q
  <2>1. q \in Ask
    <3>1. /\ x.session.phase \in Phases
          /\ x.session.batch \in Seq(Event) /\ x.session.want \in Seq(Claim)
          /\ x.session.cursor.pull \in Nat
      BY <1>1 DEF Session, Cursor
    <3>2. First(x.session.batch) \in Seq(Event)
          /\ First(x.session.want) \in Seq(Claim)
      BY <3>1, FirstRest
    <3> QED BY <1>10, <3>1, <3>2 DEF Question, Ask, Phases
  <2> HIDE DEF id, q
  <2> QED BY <1>2, <2>1 DEF Msg, Requesting, Message
<1> HIDE DEF m, id
<1>11. CASE x.session.phase # "idle" /\ Room(x)
  <2> DEFINE sent == Send(x, m)
  <2>1. /\ Puts(x, sent, Requesting) /\ sent.fetching = x.fetching
        /\ sent.out = Append(x.out, m) /\ sent.missed = x.missed
    BY <1>1, <1>10, <1>11, SendPuts
  <2>2. y = [sent EXCEPT !.pending = id] /\ sent \in Actor
    BY <1>6, <1>11, <2>1 DEF Puts
  <2> HIDE DEF sent
  <2>3. /\ y \in Actor /\ y.pending = id
        /\ y.fetching = sent.fetching
        /\ y.store = sent.store /\ y.blobs = sent.blobs /\ y.row = sent.row
        /\ y.session = sent.session
        /\ y.dirty = sent.dirty /\ y.watched = sent.watched
        /\ y.follows = sent.follows
        /\ y.out = sent.out /\ y.missed = sent.missed
    BY <1>2, <2>2 DEF Actor
  <2>4. Healthy(y)
    BY <2>1, <2>3 DEF Healthy, Puts
  <2>5. y.out = Append(x.out, m) /\ y.fetching = x.fetching
        /\ y.pending = m.id /\ m.body = Question(y.session)
    BY <1>10, <1>11, <2>1, <2>3 DEF Puts
  <2>6. /\ Tidy(y, inn)
        /\ \A i \in 1 .. Len(inn) :
             inn[i].kind = "response" => inn[i].id # m.id
    BY <1>1, <1>2, <1>10, <1>11, <2>3, <2>5, TidyAsks
  <2>7. Unheard(y, inn)
    BY <2>5, <2>6 DEF Unheard
  <2>8. Waits(y)
    BY <1>2, <1>11, <1>5, <2>1, <2>3 DEF Waits, Puts
  <2>9. Moves(x, y, inn)
    BY <2>1, <2>3, <2>4, <2>6, <2>8 DEF Moves, Puts
  <2>10. y.session = x.session /\ y.dirty = x.dirty
    BY <2>1, <2>3 DEF Puts
  <2> QED BY <1>11, <2>7, <2>9, <2>10 DEF y
<1>12. CASE x.session.phase # "idle" /\ ~Room(x)
  <2> DEFINE sent == Send(done, m)
  <2>1. ~Room(done)
    BY <1>3, <1>12 DEF Room
  <2>2. /\ Puts(done, sent, Requesting) /\ sent.fetching = done.fetching
        /\ sent.out = done.out
    BY <1>3, <1>10, <1>12, <2>1, SendPuts
  <2>3. y = [sent EXCEPT !.session = Idle, !.dirty = TRUE] /\ sent \in Actor
    BY <1>6, <1>12, <2>2 DEF Puts
  <2> HIDE DEF sent
  <2>4. Idle \in Session /\ Idle.phase = "idle"
    BY IdleType
  <2> HIDE DEF Idle
  <2>5. /\ y \in Actor /\ y.session = Idle /\ y.dirty = TRUE
        /\ y.fetching = sent.fetching /\ y.pending = sent.pending
        /\ y.store = sent.store /\ y.blobs = sent.blobs /\ y.row = sent.row
        /\ y.watched = sent.watched
        /\ y.follows = sent.follows
        /\ y.out = sent.out /\ y.missed = sent.missed
    BY <2>3, <2>4 DEF Actor
  <2>6. Ready(y.session, y.store)
    BY <2>4, <2>5 DEF Ready
  <2>7. Healthy(y)
    BY <1>3, <1>8, <2>2, <2>5, <2>6 DEF Healthy, Puts
  <2>8. Tidy(y, inn)
    <3>1. Longer(x.out, y.out, Saying)
      BY <1>3, <1>7, <2>2, <2>5
    <3>2. y.pending = x.pending /\ y.fetching = x.fetching
      BY <1>3, <2>2, <2>5 DEF Puts
    <3> QED BY <1>1, <2>5, <3>1, <3>2, TidySays
  <2>9. y.pending = None
    BY <1>3, <2>2, <2>5 DEF Puts
  <2>10. Unheard(y, inn) /\ Waits(y)
    BY <1>4, <1>5, <2>4, <2>5, <2>9 DEF Unheard, Waits
  <2>11. Moves(x, y, inn)
    BY <1>3, <1>7, <2>2, <2>5, <2>7, <2>8, <2>10 DEF Moves, Puts
  <2> QED BY <1>12, <2>5, <2>10, <2>11 DEF y
<1> QED BY <1>9, <1>11, <1>12

\* A pump leaves a running session alone, and may start one.
LEMMA PumpKeeps ==
  ASSUME scene \in DOMAIN Scenes,
         NEW x, NEW inn \in Seq(Message), Healthy(x), Waits(x), Tidy(x, inn),
         NEW n
  PROVE  LET y == Pump(x, n)
         IN  /\ Moves(x, y, inn)
             /\ \/ y.session = x.session /\ y.pending = x.pending
                \/ /\ Unheard(y, inn) /\ x.dirty
                   /\ y.session \in {Idle, NewSession(TRUE, Scene.author = n)}
             /\ ~x.dirty => y = x
             /\ x.out = <<>> /\ ~x.follows => y.out = <<>>
<1> DEFINE y == Pump(x, n)
           calm == [x EXCEPT !.dirty = FALSE]
           new == NewSession(TRUE, Scene.author = n)
           fresh == [x EXCEPT !.dirty = FALSE, !.session = new]
<1>1. x \in Actor /\ x.out \in Seq(Message)
  BY ActorType DEF Healthy
<1>2. /\ calm \in Actor
      /\ calm.store = x.store /\ calm.blobs = x.blobs /\ calm.row = x.row
      /\ calm.session = x.session /\ calm.pending = x.pending
      /\ calm.watched = x.watched
      /\ calm.fetching = x.fetching
      /\ calm.follows = x.follows
      /\ calm.out = x.out /\ calm.missed = x.missed
  BY <1>1 DEF Actor
<1>3. new \in Session /\ new.phase = "status"
  BY IdleType
<1>4. y = IF ~x.dirty \/ x.session.phase # "idle" THEN x
          ELSE IF ~x.follows THEN calm ELSE Advance(fresh, n)
  BY DEF Pump
<1> HIDE DEF new
<1>5. /\ fresh \in Actor
      /\ fresh.store = x.store /\ fresh.blobs = x.blobs /\ fresh.row = x.row
      /\ fresh.session = new /\ fresh.pending = x.pending
      /\ fresh.watched = x.watched
      /\ fresh.fetching = x.fetching
      /\ fresh.follows = x.follows
      /\ fresh.out = x.out /\ fresh.missed = x.missed
  BY <1>1, <1>3 DEF Actor
<1> HIDE DEF calm, fresh, y
<1>6. Longer(x.out, x.out, Saying) /\ Longer(x.out, x.out, Requesting)
  BY <1>1, LongerSame
<1>7. CASE ~x.dirty \/ x.session.phase # "idle"
  <2>1. y = x
    BY <1>4, <1>7
  <2>2. Moves(x, x, inn)
    BY <1>6 DEF Moves
  <2> QED BY <2>1, <2>2 DEF y
<1>8. CASE x.dirty /\ x.session.phase = "idle" /\ ~x.follows
  <2>1. y = calm
    BY <1>4, <1>8
  <2>2. Healthy(calm) /\ Waits(calm)
    BY <1>2 DEF Healthy, Waits
  <2>3. Tidy(calm, inn)
    <3>1. Longer(x.out, calm.out, Saying)
      BY <1>2, <1>6
    <3> QED BY <1>1, <1>2, <3>1, TidySays
  <2>4. Moves(x, calm, inn)
    BY <1>2, <1>6, <2>2, <2>3 DEF Moves
  <2> QED BY <1>2, <1>8, <2>1, <2>4 DEF y
<1>9. CASE x.dirty /\ x.session.phase = "idle" /\ x.follows
  <2>1. y = Advance(fresh, n)
    BY <1>4, <1>9
  <2>2. x.pending = None
    BY <1>9 DEF Waits
  <2>3. Ready(fresh.session, fresh.store)
    BY <1>3, <1>5 DEF Ready
  <2>4. Healthy(fresh)
    BY <1>5, <2>3 DEF Healthy
  <2>5. Tidy(fresh, inn)
    <3>1. Longer(x.out, fresh.out, Saying)
      BY <1>5, <1>6
    <3> QED BY <1>1, <1>5, <2>2, <3>1, TidySays
  <2>6. Moves(fresh, y, inn) /\ Unheard(y, inn) /\ y.session \in {new, Idle}
    BY <1>5, <2>1, <2>2, <2>4, <2>5, AdvanceKeeps
  <2>7. Moves(x, y, inn)
    BY <1>5, <2>6 DEF Moves
  <2> QED BY <1>9, <2>6, <2>7 DEF y, new
<1> QED BY <1>7, <1>8, <1>9

-----------------------------------------------------------------------------
(* A session on a pipe is the session of SessionOps *)

SideOf(x) == [store |-> x.store, row |-> x.row, session |-> x.session]

Carry(x, v) == [x EXCEPT !.store = v.store, !.row = v.row,
                         !.session = v.session]

LEMMA SideType ==
  ASSUME NEW x, Healthy(x)
  PROVE  /\ SideOf(x) \in Side /\ Steady(SideOf(x))
         /\ SideOf(x).store = x.store /\ SideOf(x).row = x.row
         /\ SideOf(x).session = x.session
         /\ Cursors(SideOf(x)) = Cursors(x)
<1>1. x.store \in Store /\ x.row \in Cursor /\ x.session \in Session
  BY ActorType DEF Healthy
<1>2. /\ SideOf(x) \in Side
      /\ SideOf(x).store = x.store /\ SideOf(x).row = x.row
      /\ SideOf(x).session = x.session
  BY <1>1 DEF SideOf, Side
<1> QED BY <1>2 DEF Steady, Healthy, Cursors

LEMMA CarryType ==
  ASSUME NEW x \in Actor, NEW v \in Side
  PROVE  LET y == Carry(x, v)
         IN  /\ y \in Actor
             /\ y.store = v.store /\ y.row = v.row /\ y.session = v.session
             /\ y.blobs = x.blobs /\ y.pending = x.pending
             /\ y.dirty = x.dirty /\ y.watched = x.watched
             /\ y.fetching = x.fetching /\ y.follows = x.follows
             /\ y.stirred = x.stirred /\ y.out = x.out /\ y.missed = x.missed
<1>1. v.store \in Store /\ v.row \in Cursor /\ v.session \in Session
  BY DEF Side
<1> QED BY <1>1 DEF Carry, Actor

\* What a feed() may write: the session, and the row, the store or both.
Wrote(x, s) == [x EXCEPT !.session = s]
WroteRow(x, r, s) == [x EXCEPT !.row = r, !.session = s]
WroteStore(x, u, s) == [x EXCEPT !.store = u, !.session = s]
WroteAll(x, u, r, s) == [x EXCEPT !.store = u, !.row = r, !.session = s]

LEMMA WroteCarries ==
  ASSUME NEW x \in Actor, NEW u, NEW r, NEW s
  PROVE  /\ Wrote(x, s) = Carry(x, Wrote(SideOf(x), s))
         /\ WroteRow(x, r, s) = Carry(x, WroteRow(SideOf(x), r, s))
         /\ WroteStore(x, u, s) = Carry(x, WroteStore(SideOf(x), u, s))
         /\ WroteAll(x, u, r, s) = Carry(x, WroteAll(SideOf(x), u, r, s))
<1> DEFINE v == SideOf(x)
<1>1. LET w == Wrote(v, s)
      IN  w.store = x.store /\ w.row = x.row /\ w.session = s
  BY DEF SideOf, Wrote
<1>2. LET w == WroteRow(v, r, s)
      IN  w.store = x.store /\ w.row = r /\ w.session = s
  BY DEF SideOf, WroteRow
<1>3. LET w == WroteStore(v, u, s)
      IN  w.store = u /\ w.row = x.row /\ w.session = s
  BY DEF SideOf, WroteStore
<1>4. LET w == WroteAll(v, u, r, s)
      IN  w.store = u /\ w.row = r /\ w.session = s
  BY DEF SideOf, WroteAll
<1>5. /\ Wrote(x, s) = WroteAll(x, x.store, x.row, s)
      /\ WroteRow(x, r, s) = WroteAll(x, x.store, r, s)
      /\ WroteStore(x, u, s) = WroteAll(x, u, x.row, s)
  BY DEF Actor, Wrote, WroteRow, WroteStore, WroteAll
<1>6. \A w : Carry(x, w) = WroteAll(x, w.store, w.row, w.session)
  BY DEF Carry, WroteAll
<1> HIDE DEF v
<1> QED BY <1>1, <1>2, <1>3, <1>4, <1>5, <1>6 DEF v

LEMMA SettleCarried ==
  ASSUME NEW x \in Actor, NEW s, NEW a
  PROVE  Settle(x, s, a) = Carry(x, Settle(SideOf(x), s, a))
<1> DEFINE v == SideOf(x)
           c == FreshCursor(a.instance)
           t == [s EXCEPT !.cursor = c, !.peerCount = a.count, !.rounds = @ + 1]
           reborn == IF t.rounds > 2 THEN Idle
                     ELSE IF t.pull /\ a.count > 0
                     THEN [t EXCEPT !.phase = "pull"]
                     ELSE BeginPrimaryPush(t, x.store)
           lap == [s EXCEPT !.rounds = @ + 1, !.peerCount = a.count,
                            !.phase = "pull"]
           met == [s.cursor EXCEPT !.settled = a.print]
           on == IF s.cursor.settled = a.print THEN Idle
                 ELSE [s EXCEPT !.phase = "hashes"]
<1>1. v.store = x.store
  BY DEF SideOf
<1> HIDE DEF v
<1>2. /\ SettleReborn(x, s, a) = WroteRow(x, c, reborn)
      /\ SettleReborn(v, s, a) = WroteRow(v, c, reborn)
  BY <1>1 DEF SettleReborn, WroteRow
<1>3. SettleLap(x, s, a) = Wrote(x, lap) /\ SettleLap(v, s, a) = Wrote(v, lap)
  BY DEF SettleLap, Wrote
<1>4. /\ SettleDecide(x, s, a) = IF a.print = Digest(x.store)
                                 THEN WroteRow(x, met, Idle) ELSE Wrote(x, on)
      /\ SettleDecide(v, s, a) = IF a.print = Digest(x.store)
                                 THEN WroteRow(v, met, Idle) ELSE Wrote(v, on)
  BY <1>1 DEF SettleDecide, Wrote, WroteRow
<1> HIDE DEF c, t, reborn, lap, met, on
<1> QED BY <1>2, <1>3, <1>4, WroteCarries DEF Settle, v

LEMMA FedCarried ==
  ASSUME NEW x \in Actor, x.session.phase \in Phases \ {"idle"},
         NEW a, x.session.phase = "status" => a \in Status
  PROVE  Fed(x, a) = Carry(x, Fed(SideOf(x), a))
<1> DEFINE v == SideOf(x)
<1>1. v.store = x.store /\ v.row = x.row /\ v.session = x.session
  BY DEF SideOf
<1> HIDE DEF v
<1>2. CASE x.session.phase = "hashes"
  <2> DEFINE want == IF x.session.pull THEN Wanted(x.store, a) ELSE {}
             offer == IF x.session.push THEN Offered(x.store, a) ELSE {}
             s == [x.session EXCEPT !.want = InOrder(want, ByHash),
                                    !.extra = ById(x.store, offer)]
             t == IF want # {} THEN [s EXCEPT !.phase = "claims"]
                  ELSE AfterClaims(s)
  <2>1. FedHashes(x, a) = Wrote(x, t) /\ FedHashes(v, a) = Wrote(v, t)
    BY <1>1 DEF FedHashes, Wrote
  <2> HIDE DEF t
  <2> QED BY <1>1, <1>2, <2>1, WroteCarries DEF Fed, v
<1>3. CASE x.session.phase = "claims"
  <2> DEFINE s == [x.session EXCEPT !.want = Rest(@)]
             t == IF s.want = <<>> THEN AfterClaims(s) ELSE s
             u == IngestAll(x.store, a)
  <2>1. /\ FedClaims(x, a) = WroteStore(x, u, t)
        /\ FedClaims(v, a) = WroteStore(v, u, t)
    BY <1>1 DEF FedClaims, WroteStore
  <2> HIDE DEF t, u
  <2> QED BY <1>1, <1>3, <2>1, WroteCarries DEF Fed, v
<1>4. CASE x.session.phase = "resettle"
  <2> DEFINE c == x.session.cursor
             r == IF c.instance = a.instance
                  THEN [c EXCEPT !.settled = a.print] ELSE x.row
  <2>1. /\ FedResettle(x, a) = WroteRow(x, r, Idle)
        /\ FedResettle(v, a) = WroteRow(v, r, Idle)
    BY <1>1 DEF FedResettle, WroteRow
  <2> HIDE DEF r
  <2> QED BY <1>1, <1>4, <2>1, WroteCarries DEF Fed, v
<1>5. CASE x.session.phase = "publish"
  <2> DEFINE prefix == x.session.prefix
             c == [x.session.cursor EXCEPT !.push = @ + Len(First(x.session.batch))]
             s == [x.session EXCEPT !.batch = Rest(@),
                                    !.cursor = IF prefix THEN c ELSE @]
             r == IF prefix THEN c ELSE x.row
             t == IF s.batch = <<>> THEN [s EXCEPT !.phase = s.after] ELSE s
  <2>1. /\ FedPublish(x, a) = WroteRow(x, r, t)
        /\ FedPublish(v, a) = WroteRow(v, r, t)
    BY <1>1 DEF FedPublish, WroteRow
  <2> HIDE DEF r, t
  <2> QED BY <1>1, <1>5, <2>1, WroteCarries DEF Fed, v
<1>6. CASE x.session.phase = "pull"
  <2> DEFINE c == [x.session.cursor EXCEPT !.pull = @ + Len(a)]
             s == [x.session EXCEPT !.cursor = c]
             u == IngestAll(x.store, a)
             t == IF c.pull >= s.peerCount THEN BeginPrimaryPush(s, u) ELSE s
             e == BeginPrimaryPush(x.session, x.store)
  <2>1. /\ FedPull(x, a) = IF a = <<>> THEN Wrote(x, e) ELSE WroteAll(x, u, c, t)
        /\ FedPull(v, a) = IF a = <<>> THEN Wrote(v, e) ELSE WroteAll(v, u, c, t)
    BY <1>1 DEF FedPull, Wrote, WroteAll
  <2> HIDE DEF c, u, t, e
  <2> QED BY <1>1, <1>6, <2>1, WroteCarries DEF Fed, v
<1>7. CASE x.session.phase = "settle"
  <2>1. FedSettle(x, a) = Settle(x, x.session, a)
        /\ FedSettle(v, a) = Settle(v, x.session, a)
    BY <1>1 DEF FedSettle
  <2> QED BY <1>1, <1>7, <2>1, SettleCarried DEF Fed, v
<1>8. CASE x.session.phase = "status"
  <2> DEFINE c == IF x.row.instance = a.instance THEN x.row
                  ELSE FreshCursor(a.instance)
             y == [x EXCEPT !.row = c]
             w == [v EXCEPT !.row = c]
             s == [x.session EXCEPT !.cursor = c, !.peerCount = a.count]
             pushing == BeginPrimaryPush(s, x.store)
             pulls == [s EXCEPT !.phase = "pull"]
  <2>0. c \in Cursor
    <3>1. FreshCursor(a.instance) \in Cursor
      BY <1>8, FreshType DEF Status
    <3> QED BY <3>1, ActorType
  <2>1. FedStatus(x, a) = IF s.pull /\ c.pull < a.count
                          THEN [y EXCEPT !.session = pulls]
                          ELSE IF pushing.phase = "publish"
                          THEN [y EXCEPT !.session = pushing]
                          ELSE Settle(y, pushing, a)
    BY DEF FedStatus
  <2>2. FedStatus(v, a) = IF s.pull /\ c.pull < a.count
                          THEN [w EXCEPT !.session = pulls]
                          ELSE IF pushing.phase = "publish"
                          THEN [w EXCEPT !.session = pushing]
                          ELSE Settle(w, pushing, a)
    BY <1>1 DEF FedStatus
  <2> HIDE DEF c, s, pushing, pulls
  <2>3. /\ [y EXCEPT !.session = pulls] = WroteRow(x, c, pulls)
        /\ [y EXCEPT !.session = pushing] = WroteRow(x, c, pushing)
    BY DEF Actor, WroteRow
  <2>4. /\ [w EXCEPT !.session = pulls] = WroteRow(v, c, pulls)
        /\ [w EXCEPT !.session = pushing] = WroteRow(v, c, pushing)
    BY DEF SideOf, v, WroteRow
  <2>5. Settle(y, pushing, a) = Carry(x, Settle(w, pushing, a))
    <3>1. y \in Actor /\ SideOf(y) = w
      BY <2>0 DEF Actor, SideOf, v
    <3>2. Settle(y, pushing, a) = Carry(y, Settle(w, pushing, a))
      BY <3>1, SettleCarried
    <3> DEFINE e == Settle(w, pushing, a)
    <3> HIDE DEF e
    <3>3. Carry(y, e) = Carry(x, e)
      BY DEF Carry, Actor
    <3> QED BY <3>2, <3>3 DEF e
  <2> QED BY <1>1, <1>8, <2>1, <2>2, <2>3, <2>4, <2>5, WroteCarries DEF Fed, v
<1> QED BY <1>2, <1>3, <1>4, <1>5, <1>6, <1>7, <1>8 DEF Phases

-----------------------------------------------------------------------------
(* Responses *)

\* Nothing travels under id i any more.
Gone(x, inn, i) ==
  /\ \A j \in 1 .. Len(x.out) : x.out[j].kind = "request" => x.out[j].id # i
  /\ \A j \in 1 .. Len(inn) : inn[j].kind = "response" => inn[j].id # i

LEMMA TidyDone ==
  ASSUME NEW x \in Actor, NEW y \in Actor, NEW q \in Seq(Message), Tidy(x, q),
         Gone(x, q, x.pending), y.pending = None,
         y.fetching = x.fetching, y.out = x.out
  PROVE  Tidy(y, q)
<1>1. None \notin Nat /\ Fetches(y) \subseteq Nat
  BY PeerAssumption, ActorType
<1>2. Asks(y)
  <2>1. \A i \in 1 .. Len(x.out) :
          x.out[i].kind = "request" => x.out[i].id # x.pending
    BY DEF Gone
  <2> QED BY <2>1 DEF Tidy, Asks
<1>3. Told(y, q)
  BY DEF Tidy, Told, Gone, Fetches
<1>4. Once(y, q)
  BY DEF Tidy, Once
<1> QED BY <1>1, <1>2, <1>3, <1>4 DEF Tidy

LEMMA TidyFetched ==
  ASSUME NEW x \in Actor, NEW y \in Actor, NEW q \in Seq(Message), Tidy(x, q),
         NEW f \in x.fetching, Gone(x, q, f[1]), y.pending = x.pending,
         y.fetching = x.fetching \ {f}, y.out = x.out, y.session = x.session
  PROVE  Tidy(y, q)
<1>1. Fetches(y) \subseteq Fetches(x)
  BY DEF Fetches
<1>2. Asks(y)
  <2> SUFFICES ASSUME NEW i \in 1 .. Len(x.out), x.out[i].kind = "request"
               PROVE  \/ x.out[i].id = 0 /\ x.out[i].body[1] = "put"
                      \/ x.out[i].id = y.pending /\ x.out[i].body = Question(y.session)
                      \/ \E g \in y.fetching :
                           g[1] = x.out[i].id /\ x.out[i].body = <<"get", g[2]>>
    BY DEF Asks
  <2>1. x.out[i].id # f[1]
    BY DEF Gone
  <2>2. \/ x.out[i].id = 0 /\ x.out[i].body[1] = "put"
        \/ x.out[i].id = x.pending /\ x.out[i].body = Question(x.session)
        \/ \E g \in x.fetching :
             g[1] = x.out[i].id /\ x.out[i].body = <<"get", g[2]>>
    BY DEF Tidy, Asks
  <2> QED BY <2>1, <2>2
<1>3. Told(y, q)
  <2>1. \A g \in x.fetching : g[1] # f[1] => g \in y.fetching
    OBVIOUS
  <2>2. \A i : i \in Fetches(x) /\ i # f[1] => i \in Fetches(y)
    BY <2>1 DEF Fetches
  <2>3. \A j \in 1 .. Len(q) : q[j].kind = "response" => q[j].id # f[1]
    BY DEF Gone
  <2> QED BY <2>2, <2>3 DEF Tidy, Told
<1>4. Once(y, q)
  BY DEF Tidy, Once
<1> QED BY <1>1, <1>2, <1>3, <1>4 DEF Tidy

\* Whatever fits a waiting session, feed() takes a legal step with it.
LEMMA FedEffect ==
  ASSUME NEW x, Steady(x), x.session.phase # "idle",
         NEW a, Fits(a, x.session.phase)
  PROVE  /\ Effect(x, a, Fed(x, a))
         /\ x.session.phase \in {"pull", "claims"} => a \in Seq(Event)
         /\ x.session.phase \in {"status", "settle", "resettle"} => a \in Status
         /\ x.session.phase \in Phases \ {"idle"}
<1>1. x.session.phase \in Phases \ {"idle"}
  BY DEF Steady, Side, Session
<1>2. a \in Expected(x.session.phase)
  BY DEF Fits
<1>3. /\ x.session.phase \in {"pull", "claims"} => a \in Seq(Event)
      /\ x.session.phase \in {"status", "settle", "resettle"} => a \in Status
      /\ x.session.phase = "hashes" =>
           /\ a \in [rows : SUBSET Claim, bodies : SUBSET Claim]
           /\ IsFiniteSet(a.rows)
  BY <1>2 DEF Expected, Status, Fits
<1>4. ASSUME x.session.phase = "status" PROVE Effect(x, a, Fed(x, a))
  BY <1>3, <1>4, FedStatusEffect DEF Fed
<1>5. ASSUME x.session.phase = "pull" PROVE Effect(x, a, Fed(x, a))
  BY <1>3, <1>5, FedPullEffect DEF Fed
<1>6. ASSUME x.session.phase = "publish" PROVE Effect(x, a, Fed(x, a))
  BY <1>3, <1>6, FedPublishEffect DEF Fed
<1>7. ASSUME x.session.phase = "settle" PROVE Effect(x, a, Fed(x, a))
  BY <1>3, <1>7, FedSettleEffect DEF Fed
<1>8. ASSUME x.session.phase = "hashes" PROVE Effect(x, a, Fed(x, a))
  BY <1>3, <1>8, FedHashesEffect DEF Fed
<1>9. ASSUME x.session.phase = "claims" PROVE Effect(x, a, Fed(x, a))
  BY <1>3, <1>9, FedClaimsEffect DEF Fed
<1>10. ASSUME x.session.phase = "resettle" PROVE Effect(x, a, Fed(x, a))
  BY <1>3, <1>10, FedResettleEffect DEF Fed
<1> QED BY <1>1, <1>3, <1>4, <1>5, <1>6, <1>7, <1>8, <1>9, <1>10 DEF Phases

\* y is x as v, a feed() of answer a, has made it; and it asked on.
Went(x, a, v, y, inn) ==
  /\ Effect(SideOf(x), a, v) /\ v = Fed(SideOf(x), a)
  /\ Healthy(y) /\ Waits(y) /\ Tidy(y, inn) /\ Unheard(y, inn)
  /\ y.store = v.store /\ y.row = v.row /\ y.session \in {v.session, Idle}
  /\ y.blobs = x.blobs /\ y.watched = x.watched /\ y.follows = x.follows
  /\ Longer(x.out, y.out, Requesting)
  /\ x.missed \subseteq y.missed

LEMMA SessionResponseKeeps ==
  ASSUME scene \in DOMAIN Scenes,
         NEW x, NEW inn \in Seq(Message), Healthy(x), Waits(x), Tidy(x, inn),
         x.pending # None, Gone(x, inn, x.pending),
         NEW a, Fits(a, x.session.phase), NEW n
  PROVE  Went(x, a, Fed(SideOf(x), a), SessionResponse(x, n, a), inn)
<1> DEFINE w == SideOf(x)
           v == Fed(w, a)
           y == Fed(x, a)
           moved == y.store # x.store \/ y.session.phase = "hashes"
           z == [y EXCEPT !.pending = None, !.stirred = @ \/ moved]
           t == Advance(z, n)
<1>1. x.session.phase # "idle" /\ x \in Actor
  BY DEF Waits, Healthy
<1>2. /\ w \in Side /\ Steady(w) /\ w.store = x.store /\ w.row = x.row
      /\ w.session = x.session
  BY SideType
<1>3. /\ Effect(w, a, v)
      /\ x.session.phase \in {"pull", "claims"} => a \in Seq(Event)
      /\ x.session.phase = "status" => a \in Status
      /\ x.session.phase \in Phases \ {"idle"}
  BY <1>1, <1>2, FedEffect
<1>4. y = Carry(x, v)
  BY <1>1, <1>3, FedCarried
<1>5. v \in Side /\ Ready(v.session, v.store)
      /\ \/ v.store = x.store
         \/ /\ x.session.phase \in {"pull", "claims"}
            /\ v.store = IngestAll(x.store, a)
  BY <1>2, <1>3 DEF Effect
<1> HIDE DEF y, v, w
<1>6. /\ y \in Actor
      /\ y.store = v.store /\ y.row = v.row /\ y.session = v.session
      /\ y.blobs = x.blobs /\ y.pending = x.pending
      /\ y.dirty = x.dirty /\ y.watched = x.watched
      /\ y.fetching = x.fetching /\ y.follows = x.follows
      /\ y.stirred = x.stirred /\ y.out = x.out /\ y.missed = x.missed
  BY <1>1, <1>4, <1>5, CarryType
<1>7. moved \in BOOLEAN
  OBVIOUS
<1> HIDE DEF moved
<1>8. /\ z \in Actor
      /\ z.store = v.store /\ z.row = v.row /\ z.session = v.session
      /\ z.blobs = x.blobs /\ z.pending = None
      /\ z.watched = x.watched
      /\ z.fetching = x.fetching /\ z.follows = x.follows
      /\ z.out = x.out /\ z.missed = x.missed
  BY <1>6, <1>7 DEF Actor
<1> HIDE DEF z
<1>9. Stocked(v.store)
  <2>1. Stocked(x.store)
    BY DEF Healthy, Stocked
  <2> QED BY <1>3, <1>5, <2>1, IngestAllStocks
<1>10. Healthy(z)
  BY <1>5, <1>8, <1>9 DEF Healthy, Stocked
<1>11. Tidy(z, inn)
  BY <1>1, <1>8, TidyDone
<1>12. /\ Moves(z, t, inn) /\ Unheard(t, inn)
       /\ t.session \in {z.session, Idle}
  BY <1>8, <1>10, <1>11, AdvanceKeeps
<1>13. SessionResponse(x, n, a) = t
  BY DEF SessionResponse, y, z, t, moved
<1> HIDE DEF t
<1>14. Went(x, a, v, t, inn)
  BY <1>3, <1>8, <1>12 DEF Went, Moves, v, w
<1> QED BY <1>13, <1>14 DEF v, w

\* A blob came, or an answer nobody waits for.
LEMMA FetchKeeps ==
  ASSUME NEW x, NEW inn \in Seq(Message), Healthy(x), Waits(x), Tidy(x, inn),
         NEW m \in Responding,
         \/ m.id = 0 \/ Gone(x, inn, m.id),
         \/ m.id = 0
         \/ m.id = x.pending
         \/ m.id \in Fetches(x) /\ m.body \in SUBSET Blob,
         NEW n, m.id # x.pending
  PROVE  LET y == OnResponse(x, n, m)
         IN  /\ Healthy(y) /\ Waits(y) /\ Tidy(y, inn)
             /\ y.store = x.store /\ y.row = x.row /\ y.session = x.session
             /\ y.pending = x.pending /\ y.watched = x.watched
             /\ y.follows = x.follows /\ y.out = x.out /\ y.missed = x.missed
             /\ y.dirty = x.dirty /\ y.stirred = x.stirred
<1> DEFINE y == OnResponse(x, n, m)
<1>1. x \in Actor
  BY DEF Healthy
<1>2. CASE \E f \in x.fetching : f[1] = m.id
  <2> DEFINE f == CHOOSE g \in x.fetching : g[1] = m.id
  <2>1. f \in x.fetching /\ f[1] = m.id
    BY <1>2
  <2> HIDE DEF f
  <2>2. m.id \in Fetches(x) /\ m.id # 0
    BY <1>1, <2>1, ActorType DEF Fetches
  <2>3. m.body \in SUBSET Blob /\ Gone(x, inn, m.id)
    BY <2>2
  <2>4. y = [x EXCEPT !.fetching = @ \ {f}, !.blobs = @ \cup m.body]
    BY <1>2 DEF OnResponse, f
  <2> HIDE DEF y
  <2>5. /\ y \in Actor /\ y.fetching = x.fetching \ {f}
        /\ y.store = x.store /\ y.row = x.row /\ y.session = x.session
        /\ y.pending = x.pending /\ y.watched = x.watched
        /\ y.follows = x.follows /\ y.out = x.out /\ y.missed = x.missed
        /\ y.dirty = x.dirty /\ y.stirred = x.stirred
    BY <1>1, <2>3, <2>4 DEF Actor
  <2>6. IsFiniteSet(y.fetching)
    BY <2>5, FS_Subset DEF Healthy
  <2>7. Healthy(y) /\ Waits(y)
    BY <2>5, <2>6 DEF Healthy, Waits
  <2>8. Tidy(y, inn)
    BY <1>1, <2>1, <2>3, <2>5, TidyFetched
  <2> QED BY <2>5, <2>7, <2>8 DEF y
<1>3. CASE ~ \E f \in x.fetching : f[1] = m.id
  <2>1. y = x
    BY <1>3 DEF OnResponse
  <2> QED BY <2>1
<1> QED BY <1>2, <1>3

-----------------------------------------------------------------------------
(* Requests *)

\* What n lets be seen of its log.
Shown(x, n) == IF Serves(n) THEN x.store ELSE EmptyStore

LEMMA ShownStocked ==
  ASSUME NEW x, Healthy(x), NEW n
  PROVE  Stocked(Shown(x, n))
BY EmptyStocked DEF Shown, Healthy, Stocked

\* An answer tells the truth about the log s, as far as anybody relies on it.
Truly(o, a, s) ==
  /\ o.session.phase = "pull" => Placed(a, s, o.session.cursor.pull)
  /\ o.session.phase = "hashes" => a.rows = LogRows(s, TheLog)
  /\ o.session.phase = "claims" =>
       \A i \in 1 .. Len(First(o.session.want)) :
         First(o.session.want)[i] \in s.held =>
           \E j \in 1 .. Len(a) : a[j].id = First(o.session.want)[i]
  /\ o.session.phase = "resettle" => a.print = Digest(s)

LEMMA AnswerKeeps ==
  ASSUME NEW x, Healthy(x), NEW n, NEW o, Healthy(o), Waits(o),
         NEW m \in Requesting,
         m.id = 0 => m.body[1] = "put"
  PROVE  LET a == Answer(x, n, m.body)
         IN  /\ Answers(o, m, a)
             /\ m.id = o.pending /\ m.body = Question(o.session) =>
                  /\ Truly(o, a, Shown(x, n))
                  /\ (m.body[1] = "publish") <=> (o.session.phase = "publish")
                  /\ o.session.phase = "publish" =>
                       m.body[2] = First(o.session.batch)
<1> DEFINE a == Answer(x, n, m.body)
           s == Shown(x, n)
           ask == m.body
<1>1. m.id \in Nat /\ ask \in Ask /\ None \notin Nat
  BY PeerAssumption DEF Requesting
<1>2. Stocked(s)
  BY ShownStocked
<1>3. /\ Sound(s) /\ s \in Store
  BY <1>2 DEF Stocked, Sound
<1>4. a = CASE ask[1] = "status" -> StatusOf(s, Instance)
            [] ask[1] = "since" -> First(ServedSince(s, ask[2]))
            [] ask[1] = "hashes" -> HashesOf(s)
            [] ask[1] = "claims" -> ClaimsOf(s, ask[2])
            [] ask[1] = "get" -> BytesOf(x, n, ask[2])
            [] ask[1] \in {"publish", "put"} -> "ack"
  BY DEF Answer, Shown
<1> HIDE DEF a, s
<1>5. /\ ask[1] = "status" => a = StatusOf(s, 1) /\ a \in Status
      /\ ask[1] = "hashes" =>
           /\ a = HashesOf(s) /\ a \in Hashes /\ IsFiniteSet(a.rows)
           /\ a.rows = LogRows(s, TheLog)
  <2>1. StatusOf(s, 1) \in Status
    BY <1>3, StatusType
  <2>2. HashesOf(s) \in Hashes /\ IsFiniteSet(HashesOf(s).rows)
    BY <1>3, HashesType, HashesFinite DEF Hashes
  <2>3. HashesOf(s).rows = LogRows(s, TheLog)
    BY DEF HashesOf
  <2> QED BY <1>4, <2>1, <2>2, <2>3 DEF Instance
<1>6. ask[1] = "since" =>
        /\ ask[2] \in Nat /\ a = First(ServedSince(s, ask[2])) /\ a \in Seq(Event)
        /\ Placed(a, s, ask[2])
  <2> SUFFICES ASSUME ask[1] = "since"
               PROVE  /\ ask[2] \in Nat /\ a = First(ServedSince(s, ask[2]))
                      /\ a \in Seq(Event) /\ Placed(a, s, ask[2])
    OBVIOUS
  <2>1. ask[2] \in Nat
    BY <1>1 DEF Ask
  <2>2. a = First(ServedSince(s, ask[2]))
    BY <1>4
  <2>3. ServedSince(s, ask[2]) \in Seq(Event)
        /\ Placed(ServedSince(s, ask[2]), s, ask[2])
    BY <1>3, <2>1, ServedPlaced
  <2>4. First(ServedSince(s, ask[2])) \in Seq(Event)
    BY <2>3, FirstRest
  <2>5. Placed(First(ServedSince(s, ask[2])), s, ask[2])
    BY <2>1, <2>3, PlacedParts
  <2> QED BY <2>1, <2>2, <2>4, <2>5
<1>7. ask[1] = "claims" =>
        /\ ask[2] \in Seq(Claim) /\ a \in Seq(Event)
        /\ \A i \in 1 .. Len(ask[2]) : ask[2][i] \in s.held =>
             \E j \in 1 .. Len(a) : a[j].id = ask[2][i]
  <2> SUFFICES ASSUME ask[1] = "claims"
               PROVE  /\ ask[2] \in Seq(Claim) /\ a \in Seq(Event)
                      /\ \A i \in 1 .. Len(ask[2]) : ask[2][i] \in s.held =>
                           \E j \in 1 .. Len(a) : a[j].id = ask[2][i]
    OBVIOUS
  <2>1. ask[2] \in Seq(Claim)
    BY <1>1 DEF Ask
  <2>2. a = ClaimsOf(s, ask[2])
    BY <1>4
  <2>3. /\ a \in Seq(Event)
        /\ \A i \in 1 .. Len(ask[2]) : ask[2][i] \in s.held =>
             \E j \in 1 .. Len(a) : a[j] = EventOf(s, ask[2][i])
    BY <2>1, <2>2, ClaimsType
  <2>4. \A c : EventOf(s, c).id = c
    BY DEF EventOf
  <2> QED BY <2>1, <2>3, <2>4
<1>8. ask[1] = "get" => a \in SUBSET Blob
  <2>1. x.blobs \in SUBSET Blob
    BY ActorType DEF Healthy
  <2>2. BytesOf(x, n, ask[2]) \in SUBSET Blob
    BY <2>1 DEF BytesOf
  <2> QED BY <1>4, <2>2
<1>9. ask[1] \in {"publish", "put"} => a = "ack"
  BY <1>4
<1>10. ask[1] \in {"status", "since", "hashes", "claims", "get", "publish", "put"}
  BY <1>1 DEF Ask
<1>11. a \in Reply
  BY <1>5, <1>6, <1>7, <1>8, <1>9, <1>10 DEF Reply
<1>12. ASSUME m.id = o.pending, ask = Question(o.session)
       PROVE  /\ Fits(a, o.session.phase) /\ Truly(o, a, s)
              /\ (ask[1] = "publish") <=> (o.session.phase = "publish")
              /\ o.session.phase = "publish" => ask[2] = First(o.session.batch)
  <2>1. o.session.phase \in Phases \ {"idle"}
    <3>1. o.session.phase \in Phases
      BY ActorType DEF Healthy, Session
    <3> QED BY <1>1, <1>12, <3>1 DEF Waits
  <2>2. /\ o.session.phase \in {"status", "settle", "resettle"} => ask[1] = "status"
        /\ o.session.phase = "pull" =>
             ask[1] = "since" /\ ask[2] = o.session.cursor.pull
        /\ o.session.phase = "publish" =>
             ask[1] = "publish" /\ ask[2] = First(o.session.batch)
        /\ o.session.phase = "hashes" => ask[1] = "hashes"
        /\ o.session.phase = "claims" =>
             ask[1] = "claims" /\ ask[2] = First(o.session.want)
    BY <1>12, <2>1 DEF Question
  <2>3. Fits(a, o.session.phase)
    <3>1. a \in Expected(o.session.phase)
      BY <1>5, <1>6, <1>7, <1>9, <2>1, <2>2
      DEF Expected, Status, Hashes, Phases
    <3> QED BY <1>5, <2>2, <3>1 DEF Fits
  <2>4. Truly(o, a, s)
    <3>1. o.session.phase = "resettle" => a.print = Digest(s)
      BY <1>5, <2>2 DEF StatusOf
    <3> QED BY <1>5, <1>6, <1>7, <2>2, <3>1 DEF Truly
  <2> QED BY <2>1, <2>2, <2>3, <2>4 DEF Phases
<1>13. Answers(o, m, a)
  BY <1>8, <1>11, <1>12 DEF Answers
<1> QED BY <1>12, <1>13 DEF a, s

\* What a published batch does here.
Took(x, n, m, k, u) ==
  IF m.body[1] = "publish" /\ (Serves(n) \/ x.follows)
  THEN u = IngestAll(x.store, SubSeq(m.body[2], 1, k)) ELSE u = x.store

LEMMA TookStocks ==
  ASSUME NEW x, Healthy(x), NEW n, NEW m \in Requesting,
         NEW k \in 0 .. Len(Carried(m)), NEW u, Took(x, n, m, k, u)
  PROVE  /\ Stocked(u) /\ Grown(x.store, u) /\ u \in Store
         /\ m.body[1] # "publish" => u = x.store
         /\ m.body[1] = "publish" =>
              /\ m.body[2] \in Seq(Event)
              /\ u.held \subseteq x.store.held \cup Ids(m.body[2])
              /\ k = Len(Carried(m)) /\ Serves(n) =>
                   u.held = x.store.held \cup Ids(m.body[2])
<1>1. Stocked(x.store) /\ Grown(x.store, x.store)
  BY DEF Healthy, Stocked, Grown
<1>2. m.kind = "request" /\ m.body \in Ask
  BY DEF Requesting
<1>3. CASE m.body[1] # "publish"
  BY <1>1, <1>3 DEF Took, Stocked, Sound
<1>4. CASE m.body[1] = "publish"
  <2> DEFINE q == m.body[2]
             p == SubSeq(q, 1, k)
  <2>1. q \in Seq(Event) /\ Carried(m) = q /\ Len(q) \in Nat
    BY <1>2, <1>4, LenProperties DEF Ask, Carried
  <2>2. /\ p \in Seq(Event) /\ Len(p) = k
        /\ \A j \in 1 .. k : p[j] = q[j]
    <3>1. k \in 0 .. Len(q)
      BY <2>1
    <3>2. CASE k = 0
      <4>1. p = <<>>
        BY <2>1, <3>2, SubSeqEmpty
      <4> QED BY <3>2, <4>1, EmptySeq
    <3>3. CASE k # 0
      BY <2>1, <3>1, <3>3, SubSeqProperties
    <3> QED BY <3>2, <3>3
  <2>3. Ids(p) \subseteq Ids(q) /\ (k = Len(q) => Ids(p) = Ids(q))
    BY <2>1, <2>2 DEF Ids
  <2> HIDE DEF p
  <2>4. LET v == IngestAll(x.store, p)
        IN  /\ Stocked(v) /\ Grown(x.store, v)
            /\ v.held = x.store.held \cup Ids(p)
    BY <1>1, <2>2, IngestAllStocks
  <2>5. CASE Serves(n) \/ x.follows
    <3>1. u = IngestAll(x.store, p)
      BY <1>4, <2>5 DEF Took, p
    <3>2. Stocked(u) /\ Grown(x.store, u) /\ u.held = x.store.held \cup Ids(p)
      BY <2>4, <3>1
    <3> QED BY <1>4, <2>1, <2>3, <3>2 DEF Stocked, Sound
  <2>6. CASE ~(Serves(n) \/ x.follows)
    <3>1. u = x.store
      BY <2>6 DEF Took
    <3> QED BY <1>1, <1>4, <2>1, <2>6, <3>1 DEF Stocked, Sound
  <2> QED BY <2>5, <2>6
<1> QED BY <1>3, <1>4

\* y is x but for its log, its blobs, its fetches and its channel.
Served(x, y, inn) ==
  /\ Healthy(y) /\ Waits(y) /\ Tidy(y, inn)
  /\ y.row = x.row /\ y.session = x.session /\ y.pending = x.pending
  /\ y.dirty = x.dirty /\ y.watched = x.watched /\ y.follows = x.follows
  /\ y.stirred = x.stirred
  /\ x.missed \subseteq y.missed

LEMMA RequestKeeps ==
  ASSUME scene \in DOMAIN Scenes,
         NEW x, NEW inn \in Seq(Message), Healthy(x), Waits(x), Tidy(x, inn),
         NEW n, NEW m \in Requesting, NEW k \in 0 .. Len(Carried(m)),
         NEW r, r = Msg("response", m.id, Answer(x, n, m.body)),
         r \in Responding
  PROVE  LET z == OnRequest(x, n, m, k)
         IN  /\ Served(x, z, inn)
             /\ Took(x, n, m, k, z.store)
             /\ \/ Longer(x.out, z.out, Requesting)
                \/ Longer(Append(x.out, r), z.out, Requesting)
<1> DEFINE ask == m.body
           y == IF ask[1] = "publish" THEN Accepted(x, n, ask[2], k)
                ELSE IF ask[1] = "put" THEN Put(x, ask[2]) ELSE x
           w == Send(y, r)
           z == OnRequest(x, n, m, k)
<1>1. x \in Actor /\ x.out \in Seq(Message) /\ r \in Message /\ r.kind = "response"
      /\ ask \in Ask
  BY ActorType DEF Healthy, Responding, Requesting, Message
<1>2. \/ z = w
      \/ z = EagerFetch(w, n)
  BY DEF OnRequest
<1>3. PICK u : u = IF ask[1] = "publish" /\ (Serves(n) \/ x.follows)
                   THEN IngestAll(x.store, SubSeq(ask[2], 1, k)) ELSE x.store
  OBVIOUS
<1>4. Took(x, n, m, k, u)
  BY <1>3 DEF Took
<1>5. /\ Stocked(u) /\ Grown(x.store, u) /\ u \in Store
  BY <1>4, TookStocks
<1>6. PICK bs \in SUBSET Blob : y = [x EXCEPT !.store = u, !.blobs = bs]
  <2>1. x.blobs \in SUBSET Blob
    BY <1>1, ActorType
  <2>2. ASSUME NEW v PROVE [x EXCEPT !.store = v]
                              = [x EXCEPT !.store = v, !.blobs = x.blobs]
    BY <1>1 DEF Actor
  <2>3. x = [x EXCEPT !.store = x.store, !.blobs = x.blobs]
    BY <1>1 DEF Actor
  <2>4. CASE ask[1] = "publish"
    <3>1. y = IF Serves(n) \/ x.follows
              THEN [x EXCEPT !.store = IngestAll(@, SubSeq(ask[2], 1, k))]
              ELSE x
      BY <2>4 DEF Accepted
    <3>2. y = [x EXCEPT !.store = u, !.blobs = x.blobs]
      BY <1>3, <2>2, <2>3, <2>4, <3>1
    <3> QED BY <2>1, <3>2
  <2>5. CASE ask[1] = "put"
    <3> DEFINE bs == x.blobs \cup ({ask[2]} \cap Missing(x))
    <3>1. y = [x EXCEPT !.blobs = bs]
      BY <2>5 DEF Put
    <3>2. ask[2] \in Blob
      BY <1>1, <2>5 DEF Ask
    <3>3. bs \in SUBSET Blob
      BY <2>1, <3>2
    <3> HIDE DEF bs
    <3>4. [x EXCEPT !.blobs = bs] = [x EXCEPT !.store = x.store, !.blobs = bs]
      BY <1>1 DEF Actor
    <3> QED BY <1>3, <2>5, <3>1, <3>3, <3>4
  <2>6. CASE ask[1] \notin {"publish", "put"}
    <3>1. y = x /\ u = x.store
      BY <1>3, <2>6
    <3> QED BY <2>1, <2>3, <3>1
  <2> QED BY <2>4, <2>5, <2>6
<1> HIDE DEF y
<1>7. /\ y \in Actor /\ y.store = u
      /\ y.row = x.row /\ y.session = x.session
      /\ y.pending = x.pending /\ y.dirty = x.dirty /\ y.watched = x.watched
      /\ y.fetching = x.fetching /\ y.follows = x.follows
      /\ y.stirred = x.stirred /\ y.out = x.out /\ y.missed = x.missed
  BY <1>1, <1>5, <1>6 DEF Actor
<1>8. Ready(y.session, y.store)
  BY <1>5, <1>7, PlacedGrows DEF Healthy, Ready
<1>9. Healthy(y)
  BY <1>5, <1>7, <1>8 DEF Healthy, Stocked
<1>10. /\ Puts(y, w, Responding) /\ w.fetching = y.fetching
       /\ w.out \in {y.out, Append(y.out, r)}
  BY <1>1, <1>7, SendPuts
<1> HIDE DEF w
<1>11. Healthy(w)
  BY <1>9, <1>10 DEF Healthy, Puts
<1>12. Tidy(w, inn)
  <2>1. Longer(y.out, w.out, Saying)
    <3>1. Responding \subseteq Saying
      BY DEF Responding, Saying, Message
    <3> QED BY <1>10, <3>1, LongerWider DEF Puts
  <2>2. w \in Actor /\ w.pending = x.pending /\ w.fetching = x.fetching
        /\ w.session = x.session
    BY <1>7, <1>10 DEF Puts
  <2> QED BY <1>1, <1>7, <2>1, <2>2, TidySays
<1>13. Asked(w, z, inn)
  BY <1>2, <1>11, <1>12, AskedNothing, EagerFetchKeeps
<1> HIDE DEF z
<1>14. Served(x, z, inn)
  <2>1. Waits(z)
    BY <1>7, <1>10, <1>13 DEF Waits, Asked, Puts
  <2>2. x.missed \subseteq z.missed
    BY <1>7, <1>10, <1>13 DEF Asked, Puts
  <2>3. /\ z.row = x.row /\ z.session = x.session /\ z.pending = x.pending
        /\ z.dirty = x.dirty /\ z.watched = x.watched /\ z.follows = x.follows
        /\ z.stirred = x.stirred
    BY <1>7, <1>10, <1>13 DEF Asked, Puts
  <2>4. Healthy(z) /\ Tidy(z, inn)
    BY <1>13 DEF Asked
  <2> QED BY <2>1, <2>2, <2>3, <2>4 DEF Served
<1>15. z.store = u
  BY <1>7, <1>10, <1>13 DEF Asked, Puts
<1>16. \/ Longer(x.out, z.out, Requesting)
       \/ Longer(Append(x.out, r), z.out, Requesting)
  BY <1>7, <1>10, <1>13 DEF Asked, Puts
<1> QED BY <1>4, <1>14, <1>15, <1>16 DEF z

-----------------------------------------------------------------------------
(* Frames *)

\* A digest that is remembered lists nothing that is not held.
Held(D, s) == D # None => Listed(D) \subseteq s.held

LEMMA DeltaLists ==
  ASSUME NEW s \in Store, NEW e \in Event
  PROVE  /\ SenderDelta(s, e) \in Digests
         /\ Listed(SenderDelta(s, e)) \subseteq s.held \cup {e.id}
<1> DEFINE t == OwnRedaction(e)
           flip == IF t \in s.held
                   THEN {<<"claim", t, TRUE>>, <<"claim", t, FALSE>>} ELSE {}
           d == SenderDelta(s, e)
<1>1. e.id \in Claim /\ e.body \in BOOLEAN /\ t \in Claim \cup {None}
      /\ s.held \subseteq Claim
  BY ClaimsAssumption DEF Event, OwnRedaction, Store
<1>2. d = IF t = None THEN {<<"claim", e.id, e.body>>}
          ELSE SymDiff({<<"claim", e.id, e.body>>, <<"redaction", t, e.id>>},
                       flip)
  BY DEF SenderDelta
<1> HIDE DEF t
<1>3. \A z \in d : \/ z = <<"claim", e.id, e.body>>
                   \/ t \in Claim /\ z = <<"redaction", t, e.id>>
                   \/ t \in s.held /\ z \in {<<"claim", t, TRUE>>, <<"claim", t, FALSE>>}
  BY <1>1, <1>2 DEF SymDiff
<1> HIDE DEF d
<1>4. d \in Digests
  <2> SUFFICES ASSUME NEW z \in d
               PROVE  z \in ({"claim"} \X Claim \X BOOLEAN)
                              \cup ({"redaction"} \X Claim \X Claim)
    BY DEF Digests
  <2>1. /\ <<"claim", e.id, e.body>> \in {"claim"} \X Claim \X BOOLEAN
        /\ \A c \in Claim : /\ <<"claim", c, TRUE>> \in {"claim"} \X Claim \X BOOLEAN
                             /\ <<"claim", c, FALSE>> \in {"claim"} \X Claim \X BOOLEAN
                             /\ <<"redaction", c, e.id>> \in {"redaction"} \X Claim \X Claim
    BY <1>1
  <2>2. CASE z = <<"claim", e.id, e.body>>
    BY <2>1, <2>2
  <2>3. CASE t \in Claim /\ z = <<"redaction", t, e.id>>
    BY <2>1, <2>3
  <2>4. CASE t \in s.held /\ z \in {<<"claim", t, TRUE>>, <<"claim", t, FALSE>>}
    <3>1. t \in Claim
      BY <1>1, <2>4
    <3> QED BY <2>1, <2>4, <3>1
  <2> QED BY <1>3, <2>2, <2>3, <2>4
<1>5. Listed(d) \subseteq s.held \cup {e.id}
  <2> SUFFICES ASSUME NEW c \in Claim, NEW b \in BOOLEAN, <<"claim", c, b>> \in d
               PROVE  c \in s.held \cup {e.id}
    BY DEF Listed
  <2> QED BY <1>3
<1> QED BY <1>4, <1>5 DEF d

LEMMA SymDiffLists ==
  ASSUME NEW D \in Digests, NEW E \in Digests
  PROVE  /\ SymDiff(D, E) \in Digests
         /\ Listed(SymDiff(D, E)) \subseteq Listed(D) \cup Listed(E)
<1>1. SymDiff(D, E) \subseteq D \cup E
  BY DEF SymDiff
<1> QED BY <1>1 DEF Digests, Listed

\* What has been tracked of an actor's log, and of the digest it remembers.
Tracks(s, D, v) ==
  /\ Stocked(v.store) /\ Grown(s, v.store)
  /\ v.settled \in Digests \cup {None}
  /\ Held(D, s) => Held(v.settled, v.store)

\* The same after one event more.
TracksOn(s, D, v, e, w) ==
  /\ Tracks(s, D, w)
  /\ w.store.held = v.store.held \cup {e.id}
  /\ w = [store |-> w.store, settled |-> w.settled]

LEMMA TrackKeeps ==
  ASSUME NEW s, NEW D, NEW v, Tracks(s, D, v), NEW e \in Event
  PROVE  TracksOn(s, D, v, e, Track(v, e))
<1> DEFINE w == Track(v, e)
           u == Ingest(v.store, e)
           E == SenderDelta(v.store, e)
           settled == IF v.settled = None THEN None ELSE SymDiff(v.settled, E)
<1>1. w = [store |-> u, settled |-> settled]
  BY DEF Track
<1>2. w.store = u /\ w.settled = settled
  BY <1>1
<1>3. Stocked(u) /\ Grown(v.store, u) /\ u.held = v.store.held \cup {e.id}
  BY IngestStocks DEF Tracks
<1>4. Grown(s, u)
  BY <1>3 DEF Tracks, Grown
<1>5. E \in Digests /\ Listed(E) \subseteq v.store.held \cup {e.id}
  <2>1. v.store \in Store
    BY DEF Tracks, Stocked, Sound
  <2> QED BY <2>1, DeltaLists
<1> HIDE DEF w, u, E
<1>6. /\ settled \in Digests \cup {None}
      /\ Held(D, s) => Held(settled, u)
  <2>1. CASE v.settled = None
    BY <2>1 DEF Held
  <2>2. CASE v.settled # None
    <3>1. v.settled \in Digests
      BY <2>2 DEF Tracks
    <3>2. /\ SymDiff(v.settled, E) \in Digests
          /\ Listed(SymDiff(v.settled, E)) \subseteq Listed(v.settled) \cup Listed(E)
      BY <1>5, <3>1, SymDiffLists
    <3> QED BY <1>3, <1>5, <2>2, <3>2 DEF Tracks, Held
  <2> QED BY <2>1, <2>2
<1> HIDE DEF settled
<1>7. Tracks(s, D, w)
  BY <1>2, <1>3, <1>4, <1>6 DEF Tracks
<1>8. TracksOn(s, D, v, e, w)
  BY <1>1, <1>2, <1>3, <1>7 DEF TracksOn
<1> QED BY <1>8 DEF w

LEMMA TrackedKeeps ==
  ASSUME NEW s, Stocked(s), NEW D \in Digests \cup {None}, NEW q \in Seq(Event)
  PROVE  LET v == Tracked(s, D, q)
         IN  Tracks(s, D, v) /\ Ids(q) \subseteq v.store.held
<1> DEFINE N == Len(q)
           T == [store : Store, settled : Digests \cup {None}]
           Good(n, v) == /\ Tracks(s, D, v)
                         /\ \A j \in 1 .. n : q[j].id \in v.store.held
           P == [n \in 0 .. N |-> {v \in T : Good(n, v)}]
           x == [store |-> s, settled |-> D]
<1>1. N \in Nat /\ \A j \in 1 .. N : q[j] \in Event
  BY LenProperties, ElementOfSeq
<1>2. x \in P[0]
  <2>1. x \in T /\ x.store = s /\ x.settled = D
    BY DEF Stocked, Sound
  <2>2. Tracks(s, D, x)
    BY <2>1 DEF Tracks, Grown
  <2>3. Good(0, x)
    BY <2>2
  <2> HIDE DEF Good, T, x
  <2> QED BY <1>1, <2>1, <2>3
<1>3. ASSUME NEW n \in 1 .. N, NEW v \in P[n - 1]
      PROVE  Track(v, q[n]) \in P[n]
  <2>1. n - 1 \in 0 .. N /\ n \in 0 .. N /\ q[n] \in Event
    BY <1>1
  <2>2. Tracks(s, D, v) /\ \A j \in 1 .. n - 1 : q[j].id \in v.store.held
    BY <2>1
  <2> DEFINE w == Track(v, q[n])
  <2> HIDE DEF P, T, Good
  <2>3. /\ Tracks(s, D, w) /\ w.store.held = v.store.held \cup {q[n].id}
        /\ w = [store |-> w.store, settled |-> w.settled]
    <3>1. TracksOn(s, D, v, q[n], w)
      BY <2>1, <2>2, TrackKeeps
    <3> QED BY <3>1 DEF TracksOn
  <2> HIDE DEF w
  <2>4. w \in T
    <3>1. w.store \in Store /\ w.settled \in Digests \cup {None}
      BY <2>3 DEF Tracks, Stocked, Sound
    <3> QED BY <2>3, <3>1 DEF T
  <2>5. \A j \in 1 .. n : j = n \/ j \in 1 .. n - 1
    BY <1>1
  <2>6. Good(n, w)
    BY <2>2, <2>3, <2>5 DEF Good
  <2>7. w \in P[n]
    BY <2>1, <2>4, <2>6 DEF P
  <2> QED BY <2>7 DEF w
<1>4. Tracked(s, D, q) \in P[N]
  <2> HIDE DEF P
  <2> QED BY <1>2, <1>3, TrackedRule DEF x
<1>5. Good(N, Tracked(s, D, q))
  BY <1>1, <1>4
<1> QED BY <1>5 DEF Ids

\* The row after frame f: it counts f only if what f lists is held.
Forwarded(x, f, r, u) ==
  /\ r \in Cursor
  /\ r.push = x.row.push \/ r.push = 0
  /\ Held(x.row.settled, x.store) =>
       /\ Held(r.settled, u)
       /\ \/ r.pull \in {0, x.row.pull}
          \/ r.pull = f.count /\ Listed(f.print) \subseteq u.held

LEMMA FrameKeeps ==
  ASSUME scene \in DOMAIN Scenes,
         NEW x, NEW inn \in Seq(Message), Healthy(x), Waits(x), Tidy(x, inn),
         NEW n, NEW m \in Framing
  PROVE  LET y == OnFrame(x, n, m)
         IN  /\ Healthy(y) /\ Waits(y) /\ Tidy(y, inn)
             /\ Grown(x.store, y.store)
             /\ Ids(m.body.events) \subseteq y.store.held
             /\ Forwarded(x, m.body, y.row, y.store)
             /\ y.session = x.session /\ y.pending = x.pending
             /\ y.watched = x.watched /\ y.follows = x.follows
             /\ Longer(x.out, y.out, Requesting)
             /\ x.missed \subseteq y.missed
<1> DEFINE f == m.body
           row == Recalled(x.row, f)
           t == Tracked(x.store, row.settled, f.events)
           cursor == [row EXCEPT !.settled = t.settled]
           r == FastForward(t.store, cursor, f)
           d == x.dirty \/ ~Settles(t.store, cursor, f)
           z == [x EXCEPT !.store = t.store, !.row = r, !.dirty = d]
           y == OnFrame(x, n, m)
<1>1. x \in Actor /\ Stocked(x.store) /\ x.row \in Cursor /\ x.out \in Seq(Message)
  BY ActorType DEF Healthy, Stocked
<1>2. f \in News
  BY DEF Framing
<1>3. f.events \in Seq(Event) /\ f.count \in Nat /\ f.print \in Digests
      /\ f.instance \in Nat
  BY <1>2 DEF News, Instance
<1>4. y = EagerFetch(z, n)
  BY DEF OnFrame
<1>5. row \in Cursor /\ (row = x.row \/ (Zero(row) /\ row.settled = None))
  BY <1>1, <1>3, FreshType DEF Recalled
<1>6. row.settled \in Digests \cup {None} /\ row.pull \in Nat /\ row.push \in Nat
  BY <1>5 DEF Cursor
<1> HIDE DEF f, row
<1>7. Tracks(x.store, row.settled, t) /\ Ids(f.events) \subseteq t.store.held
  BY <1>1, <1>3, <1>6, TrackedKeeps
<1> HIDE DEF t
<1>8. t.settled \in Digests \cup {None} /\ t.store \in Store
  BY <1>7 DEF Tracks, Stocked, Sound
<1>9. /\ cursor \in Cursor /\ cursor.settled = t.settled
      /\ cursor.pull = row.pull /\ cursor.push = row.push
  BY <1>5, <1>8 DEF Cursor
<1> HIDE DEF cursor
<1>10. /\ r \in Cursor /\ r.push = cursor.push
       /\ \/ r = cursor
          \/ /\ Settles(t.store, cursor, f)
             /\ r.pull \in {cursor.pull, f.count} /\ r.settled = f.print
  <2>1. CASE Settles(t.store, cursor, f)
    <3> DEFINE p == IF cursor.pull < f.count THEN f.count ELSE cursor.pull
    <3>1. r = [cursor EXCEPT !.pull = p, !.settled = f.print]
      BY <2>1, <1>9 DEF FastForward, Cursor
    <3>2. p \in Nat /\ p \in {cursor.pull, f.count}
      BY <1>3, <1>9 DEF Cursor
    <3> HIDE DEF p, r
    <3> QED BY <1>3, <1>9, <2>1, <3>1, <3>2 DEF Cursor
  <2>2. CASE ~Settles(t.store, cursor, f)
    BY <1>9, <2>2 DEF FastForward
  <2> QED BY <2>1, <2>2
<1>11. Forwarded(x, f, r, t.store)
  <2> SUFFICES ASSUME Held(x.row.settled, x.store)
               PROVE  /\ Held(r.settled, t.store)
                      /\ \/ r.pull \in {0, x.row.pull}
                         \/ r.pull = f.count /\ Listed(f.print) \subseteq t.store.held
    BY <1>5, <1>9, <1>10 DEF Forwarded, Zero
  <2>1. Held(row.settled, x.store)
    BY <1>5 DEF Held
  <2>2. Held(cursor.settled, t.store)
    BY <1>7, <1>9, <2>1 DEF Tracks
  <2>3. cursor.pull \in {0, x.row.pull}
    BY <1>5, <1>9 DEF Zero
  <2>4. CASE r = cursor
    BY <2>2, <2>3, <2>4
  <2>5. ASSUME Settles(t.store, cursor, f) PROVE Listed(f.print) \subseteq t.store.held
    <3>1. CASE f.print = Digest(t.store)
      <4>1. Listed(f.print) = LogRows(t.store, TheLog)
        BY <1>8, <3>1, ListedDigest
      <4> QED BY <4>1 DEF LogRows
    <3>2. CASE cursor.settled = f.print
      <4>1. f.print # None
        BY <1>3, PeerAssumption
      <4> QED BY <2>2, <3>2, <4>1 DEF Held
    <3> QED BY <2>5, <3>1, <3>2 DEF Settles
  <2> QED BY <1>10, <2>3, <2>4, <2>5 DEF Held
<1> HIDE DEF r
<1>12. d \in BOOLEAN
  BY <1>1, ActorType DEF Settles
<1> HIDE DEF d
<1>13. /\ z \in Actor /\ z.store = t.store /\ z.row = r
       /\ z.session = x.session /\ z.pending = x.pending
       /\ z.watched = x.watched /\ z.fetching = x.fetching
       /\ z.follows = x.follows /\ z.out = x.out /\ z.missed = x.missed
  BY <1>1, <1>8, <1>10, <1>12 DEF Actor
<1> HIDE DEF z, y
<1>14. Grown(x.store, t.store) /\ Stocked(t.store)
  BY <1>7 DEF Tracks
<1>15. Ready(z.session, z.store)
  BY <1>13, <1>14, PlacedGrows DEF Healthy, Ready
<1>16. Healthy(z)
  BY <1>13, <1>14, <1>15 DEF Healthy, Stocked
<1>17. Tidy(z, inn)
  <2>1. Longer(x.out, z.out, Saying)
    BY <1>1, <1>13, LongerSame
  <2> QED BY <1>1, <1>13, <2>1, TidySays
<1>18. Asked(z, y, inn)
  BY <1>4, <1>16, <1>17, EagerFetchKeeps
<1>19. /\ y.store = t.store /\ y.row = r
       /\ y.session = x.session /\ y.pending = x.pending
       /\ y.watched = x.watched /\ y.follows = x.follows
       /\ Longer(x.out, y.out, Requesting)
       /\ x.missed \subseteq y.missed
       /\ Healthy(y) /\ Tidy(y, inn)
  BY <1>13, <1>18 DEF Asked, Puts
<1>20. Waits(y)
  BY <1>19 DEF Waits
<1> QED BY <1>7, <1>11, <1>14, <1>19, <1>20 DEF y, f

-----------------------------------------------------------------------------
(* Turns of an actor's own *)

\* Anything may change but what travels, and who waits for it.
LEMMA ChangeKeeps ==
  ASSUME NEW x, NEW inn \in Seq(Message), Healthy(x), Waits(x), Tidy(x, inn),
         NEW y \in Actor, Stocked(y.store), Grown(x.store, y.store),
         y.fetching = x.fetching, y.session = x.session,
         y.pending = x.pending, y.out = x.out
  PROVE  Healthy(y) /\ Waits(y) /\ Tidy(y, inn)
<1>1. x \in Actor /\ x.out \in Seq(Message)
  BY ActorType DEF Healthy
<1>2. Ready(y.session, y.store)
  BY PlacedGrows DEF Healthy, Ready
<1>3. Healthy(y) /\ Waits(y)
  BY <1>2 DEF Healthy, Waits, Stocked
<1>4. Longer(x.out, y.out, Saying)
  BY <1>1, LongerSame
<1>5. Tidy(y, inn)
  BY <1>1, <1>4, TidySays
<1> QED BY <1>3, <1>5

\* A message for nobody in particular.
LEMMA SayKeeps ==
  ASSUME scene \in DOMAIN Scenes,
         NEW x, NEW inn \in Seq(Message), Healthy(x), Waits(x), Tidy(x, inn),
         NEW y, NEW M \in SUBSET Saying, Puts(x, y, M), y.fetching = x.fetching
  PROVE  Healthy(y) /\ Waits(y) /\ Tidy(y, inn)
<1>1. x \in Actor /\ y \in Actor
  BY DEF Healthy, Puts
<1>2. Healthy(y) /\ Waits(y)
  BY DEF Healthy, Waits, Puts
<1>3. Longer(x.out, y.out, Saying)
  BY LongerWider DEF Puts
<1>4. Tidy(y, inn)
  BY <1>1, <1>3, TidySays DEF Puts
<1> QED BY <1>2, <1>4

LEMMA SayingKinds ==
  /\ Framing \subseteq Saying /\ Watching \subseteq Saying
  /\ \A b \in Blob : PutOf(b) \in Requesting /\ PutOf(b) \in Saying
                     /\ PutOf(b).kind = "request"
<1>1. \A b \in Blob : <<"put", b>> \in Ask /\ <<"put", b>>[1] = "put"
  BY DEF Ask
<1>2. ASSUME NEW b \in Blob
      PROVE  PutOf(b) \in Requesting /\ PutOf(b).kind = "request"
             /\ PutOf(b).id = 0 /\ PutOf(b).body[1] = "put"
  BY <1>1 DEF PutOf, Msg, Requesting
<1> QED BY <1>2 DEF Framing, Watching, Saying, Message, Requesting

LEMMA FrameType ==
  ASSUME NEW x, Healthy(x), NEW q \in Seq(Event)
  PROVE  LET m == Msg("frame", 0, Frame(x, q))
         IN  /\ m \in Framing /\ m \in Message /\ m.kind = "frame"
             /\ m.body = Frame(x, q) /\ Frame(x, q).events = q
             /\ Frame(x, q).count = Count(x.store)
             /\ Frame(x, q).print = Digest(x.store)
<1>1. Count(x.store) \in Nat /\ Digest(x.store) \in Digests
  BY CountType, DigestType DEF Healthy, Sound
<1>2. Frame(x, q) \in News
  BY <1>1 DEF Frame, News
<1> QED BY <1>2 DEF Msg, Framing, Message, Frame

\* y is x having told, or having failed to tell, of some events.
Tells(x, y, q) ==
  /\ Puts(x, y, Framing) /\ y.fetching = x.fetching
  /\ \/ x.watched /\ y.out = Append(x.out, Msg("frame", 0, Frame(x, q)))
     \/ y.out = x.out /\ (Reconciling /\ ~x.follows => "gap" \in y.missed)

LEMMA UntoldKeeps ==
  ASSUME scene \in DOMAIN Scenes,
         NEW x, NEW inn \in Seq(Message), Healthy(x), Waits(x), Tidy(x, inn)
  PROVE  LET y == Untold(x)
         IN  Healthy(y) /\ Waits(y) /\ Tidy(y, inn) /\ \A q : Tells(x, y, q)
<1> DEFINE y == Untold(x)
           more == x.missed \cup (IF x.watched THEN {"push"} ELSE {})
                            \cup (IF x.follows THEN {} ELSE Gap)
<1>1. x \in Actor
  BY DEF Healthy
<1>2. /\ more \in SUBSET {"response", "request", "push", "gap"}
      /\ x.missed \subseteq more
      /\ Reconciling /\ ~x.follows => "gap" \in more
  BY <1>1, ActorType DEF Gap
<1>3. y = [x EXCEPT !.missed = more]
  BY <1>1 DEF Untold, Actor
<1> HIDE DEF y, more
<1>4. /\ y \in Actor /\ y.out = x.out /\ y.missed = more
      /\ y.fetching = x.fetching /\ y.store = x.store /\ y.blobs = x.blobs
      /\ y.row = x.row /\ y.session = x.session /\ y.pending = x.pending
      /\ y.dirty = x.dirty /\ y.watched = x.watched
      /\ y.follows = x.follows /\ y.stirred = x.stirred
  BY <1>1, <1>2, <1>3 DEF Actor
<1>5. Puts(x, y, Framing)
  BY <1>1, <1>2, <1>4, LongerSame, ActorType DEF Puts
<1>6. \A q : Tells(x, y, q)
  BY <1>2, <1>4, <1>5 DEF Tells
<1> QED BY <1>4, <1>5, <1>6, SayKeeps, SayingKinds DEF y

LEMMA LandedKeeps ==
  ASSUME scene \in DOMAIN Scenes,
         NEW x, NEW inn \in Seq(Message), Healthy(x), Waits(x), Tidy(x, inn),
         NEW q \in Seq(Event)
  PROVE  LET y == Landed(x, q)
         IN  Healthy(y) /\ Waits(y) /\ Tidy(y, inn) /\ Tells(x, y, q)
<1> DEFINE y == Landed(x, q)
           m == Msg("frame", 0, Frame(x, q))
<1>1. x \in Actor
  BY DEF Healthy
<1>2. m \in Framing /\ m \in Message /\ m.kind = "frame"
  BY FrameType
<1>3. y = IF x.watched /\ Room(x) THEN Send(x, m) ELSE Untold(x)
  BY DEF Landed
<1> HIDE DEF m
<1>4. CASE x.watched /\ Room(x)
  <2>1. /\ Puts(x, y, Framing) /\ y.fetching = x.fetching
        /\ y.out = Append(x.out, m)
    BY <1>1, <1>2, <1>3, <1>4, SendPuts
  <2> QED BY <1>4, <2>1, SayKeeps, SayingKinds DEF Tells, y, m
<1>5. CASE ~(x.watched /\ Room(x))
  <2>1. y = Untold(x)
    BY <1>3, <1>5
  <2> HIDE DEF y
  <2> QED BY <2>1, UntoldKeeps DEF y
<1> QED BY <1>4, <1>5

LEMMA WatchKeeps ==
  ASSUME scene \in DOMAIN Scenes,
         NEW x, NEW inn \in Seq(Message), Healthy(x), Waits(x), Tidy(x, inn),
         NEW n, NEW m \in Watching
  PROVE  LET y == OnWatch(x, n, m)
         IN  /\ Healthy(y) /\ Waits(y) /\ Tidy(y, inn)
             /\ y.store = x.store /\ y.row = x.row /\ y.session = x.session
             /\ y.pending = x.pending /\ y.dirty = x.dirty
             /\ y.watched = (m.body /\ Serves(n)) /\ y.follows = x.follows
             /\ y.stirred = x.stirred
             /\ x.missed \subseteq y.missed
             /\ \/ y.out = x.out
                \/ /\ Serves(n)
                   /\ y.out = Append(x.out, Msg("frame", 0, Frame(x, <<>>)))
             /\ Longer(x.out, y.out, Framing)
<1> DEFINE w == m.body /\ Serves(n)
           z == [x EXCEPT !.watched = w]
           y == OnWatch(x, n, m)
<1>1. x \in Actor /\ x.out \in Seq(Message) /\ m.body \in BOOLEAN
  BY ActorType DEF Healthy, Watching
<1>2. w \in BOOLEAN
  OBVIOUS
<1>3. y = IF z.watched THEN Landed(z, <<>>) ELSE z
  BY DEF OnWatch
<1> HIDE DEF w
<1>4. /\ z \in Actor /\ z.watched = w
      /\ z.store = x.store /\ z.row = x.row /\ z.session = x.session
      /\ z.pending = x.pending /\ z.dirty = x.dirty
      /\ z.fetching = x.fetching /\ z.follows = x.follows
      /\ z.stirred = x.stirred /\ z.out = x.out /\ z.missed = x.missed
  BY <1>1, <1>2 DEF Actor
<1> HIDE DEF y, z
<1>5. Stocked(x.store) /\ Grown(x.store, x.store)
  BY DEF Healthy, Stocked, Grown
<1>6. Healthy(z) /\ Waits(z) /\ Tidy(z, inn)
  BY <1>4, <1>5, ChangeKeeps
<1>7. CASE w
  <2>1. <<>> \in Seq(Event)
    OBVIOUS
  <2>2. y = Landed(z, <<>>)
    BY <1>3, <1>4, <1>7
  <2>3. Healthy(y) /\ Waits(y) /\ Tidy(y, inn) /\ Tells(z, y, <<>>)
    BY <1>6, <2>1, <2>2, LandedKeeps
  <2>4. Frame(z, <<>>) = Frame(x, <<>>)
    BY <1>4 DEF Frame
  <2>5. y.out = x.out \/ y.out = Append(x.out, Msg("frame", 0, Frame(x, <<>>)))
    BY <1>4, <2>3, <2>4 DEF Tells
  <2>6. /\ y.store = x.store /\ y.row = x.row /\ y.session = x.session
        /\ y.pending = x.pending /\ y.dirty = x.dirty
        /\ y.watched = w /\ y.follows = x.follows
        /\ y.stirred = x.stirred /\ x.missed \subseteq y.missed
        /\ Longer(x.out, y.out, Framing)
    BY <1>4, <2>3 DEF Tells, Puts
  <2> QED BY <1>7, <2>3, <2>5, <2>6 DEF w, y
<1>8. CASE ~w
  <2>1. y = z
    BY <1>3, <1>4, <1>8
  <2>2. Longer(x.out, z.out, Framing)
    BY <1>1, <1>4, LongerSame
  <2> QED BY <1>4, <1>6, <1>8, <2>1, <2>2 DEF w, y
<1> QED BY <1>7, <1>8

\* The actor's log takes an event it did not get from the other end.
Takes(x, bs, e) == [x EXCEPT !.blobs = bs, !.store = Ingest(@, e)]

LEMMA TakeKeeps ==
  ASSUME NEW x, NEW inn \in Seq(Message), Healthy(x), Waits(x), Tidy(x, inn),
         NEW e \in Event, NEW bs \in SUBSET Blob
  PROVE  LET y == Takes(x, bs, e)
         IN  /\ Healthy(y) /\ Waits(y) /\ Tidy(y, inn)
             /\ y.store = Ingest(x.store, e)
             /\ Grown(x.store, y.store) /\ y.store.held = x.store.held \cup {e.id}
             /\ y.row = x.row /\ y.session = x.session
             /\ y.pending = x.pending /\ y.dirty = x.dirty
             /\ y.watched = x.watched /\ y.follows = x.follows
             /\ y.stirred = x.stirred /\ y.out = x.out /\ y.missed = x.missed
<1> DEFINE u == Ingest(x.store, e)
           y == [x EXCEPT !.blobs = bs, !.store = u]
<1>1. Stocked(u) /\ Grown(x.store, u) /\ u.held = x.store.held \cup {e.id}
  BY IngestStocks DEF Healthy, Stocked
<1>2. u \in Store /\ x \in Actor
  BY <1>1 DEF Healthy, Stocked, Sound
<1> HIDE DEF u
<1>3. /\ y \in Actor /\ y.store = u
      /\ y.row = x.row /\ y.session = x.session
      /\ y.pending = x.pending /\ y.dirty = x.dirty
      /\ y.watched = x.watched /\ y.follows = x.follows
      /\ y.fetching = x.fetching
      /\ y.stirred = x.stirred /\ y.out = x.out /\ y.missed = x.missed
  BY <1>2 DEF Actor
<1> HIDE DEF y
<1>4. Healthy(y) /\ Waits(y) /\ Tidy(y, inn)
  BY <1>1, <1>3, ChangeKeeps
<1>5. /\ Healthy(y) /\ Waits(y) /\ Tidy(y, inn)
      /\ y.store = u
      /\ Grown(x.store, y.store) /\ y.store.held = x.store.held \cup {e.id}
      /\ y.row = x.row /\ y.session = x.session
      /\ y.pending = x.pending /\ y.dirty = x.dirty
      /\ y.watched = x.watched /\ y.follows = x.follows
      /\ y.stirred = x.stirred /\ y.out = x.out /\ y.missed = x.missed
  BY <1>1, <1>3, <1>4
<1>6. y = Takes(x, bs, e)
  BY DEF Takes, y, u
<1> QED BY <1>5, <1>6 DEF u

Putting == {m \in Requesting : m.id = 0 /\ m.body[1] = "put"}

\* Events q that landed are framed, or it is known that they were not, or
\* nobody reconciles with x.
Reports(x, y, q) ==
  /\ Longer(x.out, y.out, Framing \cup Putting)
  /\ ~x.watched => y.out = x.out
  /\ \/ /\ x.watched
        /\ Longer(Append(x.out, Msg("frame", 0, Frame(y, q))), y.out, Putting)
     \/ "gap" \in y.missed
     \/ Longer(x.out, y.out, Putting) /\ ~(Reconciling /\ ~x.follows)

LEMMA MintKeeps ==
  ASSUME scene \in DOMAIN Scenes,
         NEW x, NEW inn \in Seq(Message), Healthy(x), Waits(x), Tidy(x, inn),
         NEW n, NEW c \in Claim
  PROVE  LET y == Minted(x, n, c)
             e == [id |-> c, body |-> TRUE]
         IN  /\ Healthy(y) /\ Waits(y) /\ Tidy(y, inn)
             /\ Grown(x.store, y.store)
             /\ y.store.held = x.store.held \cup {c}
             /\ y.row = x.row /\ y.session = x.session
             /\ y.pending = x.pending
             /\ ~x.dirty /\ ~x.follows => ~y.dirty
             /\ y.stirred = x.stirred
             /\ y.watched = x.watched /\ y.follows = x.follows
             /\ x.missed \subseteq y.missed
             /\ Reports(x, y, <<e>>)
<1> DEFINE e == [id |-> c, body |-> TRUE]
           bs == x.blobs \cup Pins[c]
           held == Takes(x, bs, e)
           told == Landed(held, <<e>>)
           S == IF x.watched THEN Pins[c] ELSE {}
           q == SetToSeq(S)
           put == PutAll(told, q)
           d == put.dirty \/ x.follows
           y == [put EXCEPT !.dirty = d]
<1>1. e \in Event /\ bs \in SUBSET Blob /\ e.id = c
  <2>1. x.blobs \in SUBSET Blob
    BY ActorType DEF Healthy
  <2>2. Pins[c] \in SUBSET Blob
    BY ClaimsAssumption
  <2> QED BY <2>1, <2>2 DEF Event
<1>2. y = Minted(x, n, c)
  BY DEF Minted, Takes
<1> HIDE DEF e, bs
<1>3. /\ Healthy(held) /\ Waits(held) /\ Tidy(held, inn)
      /\ Grown(x.store, held.store) /\ held.store.held = x.store.held \cup {e.id}
      /\ held.row = x.row /\ held.session = x.session
      /\ held.pending = x.pending /\ held.dirty = x.dirty
      /\ held.watched = x.watched /\ held.follows = x.follows
      /\ held.stirred = x.stirred /\ held.out = x.out
      /\ held.missed = x.missed
  BY <1>1, TakeKeeps
<1> HIDE DEF held
<1>4. <<e>> \in Seq(Event)
  BY <1>1
<1>5. /\ Healthy(told) /\ Waits(told) /\ Tidy(told, inn)
      /\ Tells(held, told, <<e>>)
  BY <1>3, <1>4, LandedKeeps
<1> HIDE DEF told
<1>6. q \in Seq(Blob) /\ (~x.watched => Len(q) = 0) /\ Len(q) \in Nat
  <2>1. S \in SUBSET Blob /\ IsFiniteSet(S)
    BY ClaimsAssumption, PeerAssumption, FS_EmptySet
  <2>2. q \in Seq(Blob)
    BY <2>1, Sequenced
  <2>3. ~x.watched => Len(q) = 0
    <3> SUFFICES ASSUME ~x.watched PROVE Len(q) = 0
      OBVIOUS
    <3>1. S \in SUBSET {} /\ IsFiniteSet(S)
      BY <2>1
    <3> HIDE DEF S
    <3>2. q \in Seq({})
      BY <3>1, Sequenced
    <3> HIDE DEF q
    <3>3. Len(q) \in Nat /\ \A i \in 1 .. Len(q) : q[i] \in {}
      BY <3>2, LenProperties, ElementOfSeq
    <3> QED BY <3>3
  <2> QED BY <2>2, <2>3, LenProperties
<1> HIDE DEF q
<1>7. /\ Puts(told, put, Putting) /\ put.fetching = told.fetching
      /\ ~x.watched => put.out = told.out
  <2> DEFINE C == {z \in Actor : /\ Puts(told, z, Putting)
                                 /\ z.fetching = told.fetching
                                 /\ ~x.watched => z.out = told.out}
  <2>1. told \in C
    BY <1>5, PutsNothing DEF Healthy
  <2>2. ASSUME NEW z \in C, NEW i \in 1 .. Len(q)
        PROVE  Send(z, PutOf(q[i])) \in C
    <3>1. q[i] \in Blob /\ x.watched
      BY <1>6, ElementOfSeq
    <3>2. PutOf(q[i]) \in Putting /\ PutOf(q[i]) \in Message
      <4>1. PutOf(q[i]) \in Requesting /\ PutOf(q[i]) \in Saying
            /\ PutOf(q[i]).kind = "request"
        BY <3>1, SayingKinds
      <4> QED BY <4>1 DEF Saying, Putting, Message
    <3> DEFINE w == Send(z, PutOf(q[i]))
    <3>3. Puts(z, w, Putting) /\ w.fetching = z.fetching
      BY <3>2, SendPuts
    <3> HIDE DEF w
    <3>4. Puts(told, w, Putting \cup Putting)
      BY <1>5, <2>2, <3>3, PutsThen DEF Healthy
    <3>5. Putting \cup Putting = Putting
      OBVIOUS
    <3>6. w \in C
      BY <3>1, <3>3, <3>4, <3>5 DEF Puts
    <3> QED BY <3>6 DEF w
  <2> HIDE DEF C
  <2>3. put \in C
    BY <1>6, <2>1, <2>2, PutAllRule
  <2> QED BY <2>3 DEF C
<1> HIDE DEF put
<1>8. Putting \subseteq Saying
  BY DEF Putting, Saying, Message
<1>9. Healthy(put) /\ Waits(put) /\ Tidy(put, inn)
  BY <1>5, <1>7, <1>8, SayKeeps
<1>10. d \in BOOLEAN /\ d = (x.dirty \/ x.follows)
  BY <1>3, <1>5, <1>7 DEF Tells, Puts
<1> HIDE DEF d
<1>11. /\ y \in Actor /\ y.dirty = d /\ y.store = put.store
       /\ y.row = put.row /\ y.session = put.session
       /\ y.pending = put.pending /\ y.watched = put.watched
       /\ y.follows = put.follows /\ y.fetching = put.fetching
       /\ y.stirred = put.stirred /\ y.out = put.out /\ y.missed = put.missed
  BY <1>9, <1>10 DEF Healthy, Actor
<1> HIDE DEF y
<1>12. Healthy(y) /\ Waits(y) /\ Tidy(y, inn)
  <2>1. Stocked(y.store) /\ Grown(put.store, y.store)
    BY <1>9, <1>11 DEF Healthy, Stocked, Grown
  <2> QED BY <1>9, <1>11, <2>1, ChangeKeeps
<1>13. /\ y.store = held.store /\ y.row = x.row /\ y.session = x.session
       /\ y.pending = x.pending /\ y.stirred = x.stirred
       /\ y.watched = x.watched /\ y.follows = x.follows
       /\ x.missed \subseteq y.missed
  BY <1>3, <1>5, <1>7, <1>11 DEF Tells, Puts
<1>14. Longer(told.out, y.out, Putting) /\ told.missed \subseteq y.missed
  BY <1>7, <1>11 DEF Puts
<1>15. Longer(x.out, y.out, Framing \cup Putting)
  <2>1. Longer(x.out, told.out, Framing)
    BY <1>3, <1>5 DEF Tells, Puts
  <2>2. x.out \in Seq(Message) /\ told.out \in Seq(Message) /\ y.out \in Seq(Message)
    BY <1>3, <1>5, <1>12, ActorType DEF Healthy
  <2> QED BY <1>14, <2>1, <2>2, LongerThen
<1>16. Reports(x, y, <<e>>)
  <2>1. Frame(y, <<e>>) = Frame(held, <<e>>)
    BY <1>13 DEF Frame
  <2>2. ~x.watched => y.out = x.out
    BY <1>3, <1>5, <1>7, <1>11 DEF Tells
  <2>3. \/ x.watched /\ told.out = Append(x.out, Msg("frame", 0, Frame(y, <<e>>)))
        \/ /\ told.out = x.out
           /\ Reconciling /\ ~x.follows => "gap" \in y.missed
    BY <1>3, <1>5, <1>14, <2>1 DEF Tells
  <2> QED BY <1>14, <1>15, <2>2, <2>3 DEF Reports
<1>17. /\ Healthy(y) /\ Waits(y) /\ Tidy(y, inn)
       /\ Grown(x.store, y.store)
       /\ y.store.held = x.store.held \cup {c}
       /\ y.row = x.row /\ y.session = x.session
       /\ y.pending = x.pending
       /\ ~x.dirty /\ ~x.follows => ~y.dirty
       /\ y.stirred = x.stirred
       /\ y.watched = x.watched /\ y.follows = x.follows
       /\ x.missed \subseteq y.missed
  BY <1>1, <1>3, <1>10, <1>11, <1>12, <1>13
<1> QED BY <1>2, <1>16, <1>17 DEF e

-----------------------------------------------------------------------------
(* What a reconciling session asks for, and what it gets *)

Wants(e) == {e.want[i] : i \in 1 .. Len(e.want)}

LEMMA WantsParts ==
  ASSUME NEW T, NEW q \in Seq(T)
  PROVE  \A i \in 1 .. Len(q) :
           \/ \E j \in 1 .. Len(First(q)) : First(q)[j] = q[i]
           \/ \E j \in 1 .. Len(Rest(q)) : Rest(q)[j] = q[i]
<1>1. /\ Len(q) = Len(First(q)) + Len(Rest(q))
      /\ \A j \in 1 .. Len(First(q)) : First(q)[j] = q[j]
      /\ \A j \in 1 .. Len(Rest(q)) : Rest(q)[j] = q[Len(First(q)) + j]
      /\ Len(First(q)) \in Nat /\ Len(Rest(q)) \in Nat
  <2>1. First(q) \in Seq(T) /\ Rest(q) \in Seq(T)
    BY FirstRest
  <2> QED BY <2>1, FirstRest, LenProperties
<1> SUFFICES ASSUME NEW i \in 1 .. Len(q)
             PROVE  \/ \E j \in 1 .. Len(First(q)) : First(q)[j] = q[i]
                    \/ \E j \in 1 .. Len(Rest(q)) : Rest(q)[j] = q[i]
  OBVIOUS
<1>2. CASE i <= Len(First(q))
  <2>1. i \in 1 .. Len(First(q)) /\ First(q)[i] = q[i]
    BY <1>1, <1>2
  <2> QED BY <2>1
<1>3. CASE ~(i <= Len(First(q)))
  <2> DEFINE k == i - Len(First(q))
  <2>1. k \in 1 .. Len(Rest(q)) /\ Len(First(q)) + k = i
    BY <1>1, <1>3
  <2> HIDE DEF k
  <2>2. Rest(q)[k] = q[i]
    BY <1>1, <2>1
  <2> QED BY <2>1, <2>2
<1> QED BY <1>2, <1>3

LEMMA RestFewer ==
  ASSUME NEW q \in Seq(Event)
  PROVE  Ids(Rest(q)) \subseteq Ids(q) /\ Ids(First(q)) \subseteq Ids(q)
<1>1. /\ \A j \in 1 .. Len(Rest(q)) : /\ Len(First(q)) + j \in 1 .. Len(q)
                                      /\ Rest(q)[j] = q[Len(First(q)) + j]
      /\ Len(First(q)) <= Len(q) /\ Len(First(q)) \in Nat /\ Len(q) \in Nat
      /\ \A j \in 1 .. Len(First(q)) : First(q)[j] = q[j]
  <2>1. First(q) \in Seq(Event)
    BY FirstRest
  <2> QED BY <2>1, FirstRest, LenProperties
<1>2. ASSUME NEW j \in 1 .. Len(Rest(q)) PROVE Rest(q)[j].id \in Ids(q)
  <2> DEFINE k == Len(First(q)) + j
  <2>1. k \in 1 .. Len(q) /\ Rest(q)[j] = q[k]
    BY <1>1
  <2> QED BY <2>1 DEF Ids
<1>3. ASSUME NEW j \in 1 .. Len(First(q)) PROVE First(q)[j].id \in Ids(q)
  <2>1. j \in 1 .. Len(q) /\ First(q)[j] = q[j]
    BY <1>1
  <2> QED BY <2>1 DEF Ids
<1> QED BY <1>2, <1>3 DEF Ids

\* What comes of a hash list: whatever is lacking is asked for.
LEMMA FedHashesAsks ==
  ASSUME NEW x, Steady(x), x.session.phase = "hashes", x.session.pull,
         NEW a \in Hashes, IsFiniteSet(a.rows)
  PROVE  LET y == FedHashes(x, a)
             e == y.session
         IN  /\ y.store = x.store
             /\ e.phase \in {"claims", "publish", "resettle"}
             /\ e.phase = "claims" =>
                  /\ a.rows \subseteq x.store.held \cup Wants(e)
                  /\ Wants(e) \subseteq a.rows
                  /\ Ids(e.extra) \subseteq x.store.held
             /\ e.phase # "claims" => a.rows \subseteq x.store.held
             /\ e.phase = "publish" =>
                  e.after = "resettle" /\ Ids(e.batch) \subseteq x.store.held
<1> DEFINE y == FedHashes(x, a)
           want == Wanted(x.store, a)
           offer == IF x.session.push THEN Offered(x.store, a) ELSE {}
           s == [x.session EXCEPT !.want = InOrder(want, ByHash),
                                  !.extra = ById(x.store, offer)]
           u == IF want # {} THEN [s EXCEPT !.phase = "claims"]
                ELSE AfterClaims(s)
<1>1. x \in Side /\ Sound(x.store) /\ x.session \in Session /\ x.store \in Store
  BY DEF Steady, Side
<1>2. y = [x EXCEPT !.session = u]
  BY DEF FedHashes
<1>3. a.rows \subseteq Claim /\ IsFiniteSet(a.rows)
  BY DEF Hashes
<1>4. want \in SUBSET Claim /\ IsFiniteSet(want) /\ want \subseteq a.rows
      /\ a.rows \subseteq x.store.held \cup want
  <2>1. want \subseteq a.rows /\ a.rows \subseteq x.store.held \cup want
    BY DEF Wanted
  <2> HIDE DEF want
  <2> QED BY <1>3, <2>1, FS_Subset
<1>5. offer \in SUBSET Claim /\ IsFiniteSet(offer)
      /\ offer \subseteq x.store.held
  <2>1. offer \subseteq LogRows(x.store, TheLog)
    BY DEF Offered
  <2>2. LogRows(x.store, TheLog) \subseteq x.store.held
    BY DEF LogRows
  <2> HIDE DEF offer
  <2> QED BY <1>1, <2>1, <2>2, CountType, FS_Subset
<1> HIDE DEF want, offer, y
<1> DEFINE w == InOrder(want, ByHash)
           es == ById(x.store, offer)
<1>6. /\ w \in Seq(Claim)
      /\ \A c \in want : \E i \in 1 .. Len(w) : w[i] = c
      /\ {w[i] : i \in 1 .. Len(w)} \subseteq want
  <2>1. /\ w \in Seq(Claim)
        /\ \A c \in want : \E i \in 1 .. Len(w) : w[i] = c
        /\ \A i \in 1 .. Len(w) : w[i] \in want
    BY <1>4, ByHashType
  <2> QED BY <2>1
<1>7. /\ es \in Seq(Event)
      /\ \A i \in 1 .. Len(es) : \E c \in offer : es[i] = EventOf(x.store, c)
  BY <1>5, ByHashType
<1>8. Ids(es) \subseteq x.store.held
  <2>1. \A c : EventOf(x.store, c).id = c
    BY DEF EventOf
  <2> HIDE DEF es
  <2>2. \A i \in 1 .. Len(es) : es[i].id \in offer
    BY <1>7, <2>1
  <2> QED BY <1>5, <2>2 DEF Ids
<1> HIDE DEF w, es
<1>9. s \in Session /\ s.want = w /\ s.extra = es
  BY <1>1, <1>6, <1>7 DEF Session, w, es
<1> HIDE DEF s
<1>10. y.session = u /\ y.store = x.store
  BY <1>1, <1>2 DEF Side
<1>11. CASE want # {}
  <2>1. u.phase = "claims" /\ u.want = w /\ u.extra = es
    BY <1>9, <1>11 DEF Session
  <2> HIDE DEF u
  <2> QED BY <1>4, <1>6, <1>8, <1>10, <2>1 DEF Wants, y
<1>12. CASE want = {}
  <2>1. u = AfterClaims(s)
    BY <1>12
  <2> HIDE DEF u
  <2>2. \/ u.phase = "resettle"
        \/ u.phase = "publish" /\ u.after = "resettle" /\ u.batch = s.extra
    BY <1>9, <2>1, AfterClaimsType
  <2> QED BY <1>4, <1>8, <1>9, <1>10, <1>12, <2>2 DEF y
<1> QED BY <1>11, <1>12

\* What comes of a batch of claims: it is taken, and the rest is asked for.
LEMMA FedClaimsTakes ==
  ASSUME NEW x, Steady(x), x.session.phase = "claims", NEW a \in Seq(Event)
  PROVE  LET y == FedClaims(x, a)
             e == y.session
         IN  /\ y.store.held = x.store.held \cup Ids(a)
             /\ e.phase \in {"claims", "publish", "resettle"}
             /\ e.phase = "claims" =>
                  e.want = Rest(x.session.want) /\ e.extra = x.session.extra
             /\ e.phase # "claims" => Len(Rest(x.session.want)) = 0
             /\ e.phase = "publish" =>
                  e.after = "resettle" /\ e.batch = x.session.extra
<1> DEFINE y == FedClaims(x, a)
           want == x.session.want
           s == [x.session EXCEPT !.want = Rest(want)]
           v == IF s.want = <<>> THEN AfterClaims(s) ELSE s
           u == IngestAll(x.store, a)
<1>1. /\ x \in Side /\ Sound(x.store) /\ x.session \in Session
      /\ want \in Seq(Claim) /\ x.session.extra \in Seq(Event)
  BY DEF Steady, Side, Session
<1>2. y = [x EXCEPT !.store = u, !.session = v]
  BY <1>1 DEF FedClaims, Side, Session
<1> HIDE DEF y, want
<1>3. Rest(want) \in Seq(Claim)
  BY <1>1, FirstRest
<1>4. u.held = x.store.held \cup Ids(a)
  BY <1>1, IngestAllTables DEF Ids, Sound
<1> HIDE DEF u
<1>5. /\ s \in Session /\ s.want = Rest(want) /\ s.phase = "claims"
      /\ s.extra = x.session.extra
  BY <1>1, <1>3 DEF Session
<1> HIDE DEF s
<1>6. y.session = v /\ y.store = u
  BY <1>1, <1>2 DEF Side
<1>7. CASE s.want = <<>>
  <2>1. v = AfterClaims(s)
    BY <1>7
  <2> HIDE DEF v
  <2>2. \/ v.phase = "resettle"
        \/ v.phase = "publish" /\ v.after = "resettle" /\ v.batch = s.extra
    BY <1>5, <2>1, AfterClaimsType
  <2>3. Len(Rest(want)) = 0
    BY <1>3, <1>5, <1>7, EmptySeq
  <2> QED BY <1>4, <1>5, <1>6, <2>2, <2>3 DEF y, want
<1>8. CASE s.want # <<>>
  BY <1>4, <1>5, <1>6, <1>8 DEF y, want
<1> QED BY <1>7, <1>8

-----------------------------------------------------------------------------
(* What a follower x with inbox q may rely on, of a server's log s *)

\* The claims a message brings by itself, and those on their way to x.
Brings(m) == IF m.kind = "frame" THEN Ids(m.body.events) ELSE {}
Ahead(q, i) == UNION {Brings(q[j]) : j \in 1 .. i - 1}
Coming(q) == UNION {Brings(q[j]) : j \in 1 .. Len(q)}

\* A settled digest lists nothing x lacks; a pull position counts nothing.
Knowing(x, s) ==
  \A c \in Cursors(x) : Held(c.settled, x.store) /\ Covered(c.pull, s, x.store)

\* A frame counts no row that its digest does not list.
True(f, s) == f.count <= Count(s) /\ Before(s, f.count) \subseteq Listed(f.print)

Truth(q, s) ==
  \A i \in 1 .. Len(q) : q[i].kind = "frame" => True(q[i].body, s)

\* Past the list of hashes: what s has is here, on its way, or asked for.
Chases(e) ==
  \/ e.phase \in {"claims", "resettle"}
  \/ e.phase = "publish" /\ e.after = "resettle"

Chasing(e, had, s) ==
  /\ Chases(e) /\ e.phase # "claims" => LogRows(s, TheLog) \subseteq had
  /\ e.phase = "claims" => /\ LogRows(s, TheLog) \subseteq had \cup Wants(e)
                           /\ Wants(e) \subseteq s.held

\* What an answer is worth when x comes to it, holding had; all is on its way.
Sure(e, a, s, all, had) ==
  /\ e.phase = "pull" => Placed(a, s, e.cursor.pull)
  /\ e.phase = "hashes" => /\ LogRows(s, TheLog) \subseteq a.rows \cup all
                           /\ a.rows \subseteq s.held
  /\ e.phase = "claims" =>
       \A i \in 1 .. Len(First(e.want)) :
         \E j \in 1 .. Len(a) : a[j].id = First(e.want)[i]
  /\ e.phase = "resettle" => Listed(a.print) \subseteq had

Awaited(x, q, s) ==
  \A i \in 1 .. Len(q) : q[i].kind = "response" /\ q[i].id = x.pending =>
    Sure(x.session, q[i].body, s,
         x.store.held \cup Coming(q), x.store.held \cup Ahead(q, i))

Learned(x, q, s) ==
  /\ Knowing(x, s) /\ Truth(q, s)
  /\ Chasing(x.session, x.store.held \cup Coming(q), s)
  /\ Awaited(x, q, s)

\* What x goes on to publish past the hashes is its own to publish.
Ours(x) ==
  /\ x.session.phase = "claims" =>
       Ids(x.session.extra) \subseteq x.store.held
  /\ x.session.phase = "publish" /\ x.session.after = "resettle" =>
       Ids(x.session.batch) \subseteq x.store.held

LEMMA ComingParts ==
  ASSUME NEW q \in Seq(Message)
  PROVE  /\ \A i \in 1 .. Len(q) : Brings(q[i]) \subseteq Coming(q)
         /\ \A i \in 1 .. Len(q) : Ahead(q, i) \subseteq Coming(q)
         /\ Ahead(q, Len(q) + 1) = Coming(q) /\ Ahead(q, 1) = {}
<1>1. Len(q) \in Nat
  BY LenProperties
<1>2. \A i \in 1 .. Len(q) : \A j \in 1 .. i - 1 : j \in 1 .. Len(q)
  BY <1>1
<1>3. Ahead(q, Len(q) + 1) = Coming(q)
  <2>1. (Len(q) + 1) - 1 = Len(q)
    BY <1>1
  <2> QED BY <2>1 DEF Ahead, Coming
<1>4. Ahead(q, 1) = {}
  <2>1. 1 .. 1 - 1 = {}
    OBVIOUS
  <2> QED BY <2>1 DEF Ahead
<1> QED BY <1>2, <1>3, <1>4 DEF Ahead, Coming

\* What is on its way stays on its way, and in its place.
LEMMA ComingLonger ==
  ASSUME NEW q \in Seq(Message), NEW r \in Seq(Message), NEW M, Longer(q, r, M)
  PROVE  /\ Coming(q) \subseteq Coming(r)
         /\ \A i \in 1 .. Len(q) : Ahead(r, i) = Ahead(q, i)
<1>1. Len(q) \in Nat /\ Len(r) \in Nat
  BY LenProperties
<1>2. \A i \in 1 .. Len(q) : i \in 1 .. Len(r) /\ r[i] = q[i]
  BY <1>1 DEF Longer
<1>3. \A i \in 1 .. Len(q) : \A j \in 1 .. i - 1 : r[j] = q[j]
  <2>1. \A i \in 1 .. Len(q) : \A j \in 1 .. i - 1 : j \in 1 .. Len(q)
    BY <1>1
  <2> QED BY <1>2, <2>1
<1>4. Coming(q) \subseteq Coming(r)
  <2> SUFFICES ASSUME NEW c \in Coming(q) PROVE c \in Coming(r)
    OBVIOUS
  <2>1. PICK j \in 1 .. Len(q) : c \in Brings(q[j])
    BY DEF Coming
  <2>2. j \in 1 .. Len(r) /\ c \in Brings(r[j])
    BY <1>2, <2>1
  <2> QED BY <2>2 DEF Coming
<1>5. ASSUME NEW i \in 1 .. Len(q) PROVE Ahead(r, i) = Ahead(q, i)
  <2>1. \A j \in 1 .. i - 1 : Brings(r[j]) = Brings(q[j])
    BY <1>3
  <2> QED BY <2>1 DEF Ahead
<1> QED BY <1>4, <1>5

\* What the head of the channel brought is no longer on its way.
LEMMA ComingPopped ==
  ASSUME NEW q \in Seq(Message), q # <<>>
  PROVE  LET r == Tail(q)
         IN  /\ Coming(q) = Brings(Head(q)) \cup Coming(r)
             /\ \A i \in 1 .. Len(r) :
                  Ahead(q, i + 1) = Brings(Head(q)) \cup Ahead(r, i)
<1> DEFINE r == Tail(q)
<1>1. /\ r \in Seq(Message) /\ Head(q) = q[1] /\ Len(q) \in Nat
      /\ Len(q) >= 1 /\ Len(r) = Len(q) - 1
      /\ \A i \in 1 .. Len(r) : r[i] = q[i + 1] /\ i + 1 \in 1 .. Len(q)
  BY Popped
<1> HIDE DEF r
<1>2. \A n \in 0 .. Len(r) :
        UNION {Brings(q[j]) : j \in 1 .. n + 1}
          = Brings(Head(q)) \cup UNION {Brings(r[j]) : j \in 1 .. n}
  <2> SUFFICES ASSUME NEW n \in 0 .. Len(r)
               PROVE  \A c : (\E j \in 1 .. n + 1 : c \in Brings(q[j]))
                               <=> \/ c \in Brings(Head(q))
                                   \/ \E j \in 1 .. n : c \in Brings(r[j])
    OBVIOUS
  <2> TAKE c
  <2>1. ASSUME NEW j \in 1 .. n + 1, c \in Brings(q[j])
        PROVE  \/ c \in Brings(Head(q))
               \/ \E k \in 1 .. n : c \in Brings(r[k])
    <3>1. CASE j = 1
      BY <1>1, <2>1, <3>1
    <3>2. CASE j # 1
      <4> DEFINE k == j - 1
      <4>1. k \in 1 .. n /\ k \in 1 .. Len(r) /\ k + 1 = j
        BY <1>1, <3>2
      <4> HIDE DEF k
      <4>2. r[k] = q[j]
        BY <1>1, <4>1
      <4> QED BY <2>1, <4>1, <4>2
    <3> QED BY <3>1, <3>2
  <2>2. ASSUME c \in Brings(Head(q))
        PROVE  \E j \in 1 .. n + 1 : c \in Brings(q[j])
    <3>1. 1 \in 1 .. n + 1
      BY <1>1
    <3> QED BY <1>1, <2>2, <3>1
  <2>3. ASSUME NEW k \in 1 .. n, c \in Brings(r[k])
        PROVE  \E j \in 1 .. n + 1 : c \in Brings(q[j])
    <3> DEFINE j == k + 1
    <3>1. j \in 1 .. n + 1 /\ k \in 1 .. Len(r)
      BY <1>1
    <3>2. q[j] = r[k]
      BY <1>1, <3>1
    <3> HIDE DEF j
    <3> QED BY <2>3, <3>1, <3>2
  <2> QED BY <2>1, <2>2, <2>3
<1>3. Coming(q) = Brings(Head(q)) \cup Coming(r)
  <2>1. Len(r) \in 0 .. Len(r) /\ Len(r) + 1 = Len(q)
    BY <1>1
  <2> QED BY <1>2, <2>1 DEF Coming
<1>4. ASSUME NEW i \in 1 .. Len(r)
      PROVE  Ahead(q, i + 1) = Brings(Head(q)) \cup Ahead(r, i)
  <2> DEFINE n == i - 1
  <2>1. n \in 0 .. Len(r) /\ n + 1 = (i + 1) - 1 /\ n = i - 1
    BY <1>1
  <2> HIDE DEF n
  <2> QED BY <1>2, <2>1 DEF Ahead
<1> QED BY <1>3, <1>4 DEF r

LEMMA SureMore ==
  ASSUME NEW e, NEW a, NEW s, NEW u, NEW all, NEW had, NEW more, NEW has,
         Sure(e, a, s, all, had), all \subseteq more, had \subseteq has,
         Grown(s, u),
         e.phase = "hashes" =>
           LogRows(u, TheLog) \subseteq LogRows(s, TheLog) \cup more
  PROVE  Sure(e, a, u, more, has)
<1>1. e.phase = "pull" => Placed(a, u, e.cursor.pull)
  BY PlacedGrows DEF Sure
<1>2. e.phase = "hashes" => /\ LogRows(u, TheLog) \subseteq a.rows \cup more
                            /\ a.rows \subseteq u.held
  BY DEF Sure, Grown
<1> QED BY <1>1, <1>2 DEF Sure

LEMMA GrownSame ==
  ASSUME NEW s
  PROVE  Grown(s, s)
BY DEF Grown

\* Whatever x has more of, it relies on no less; a session that starts, or
\* ends, relies on nothing.
LEMMA LearnMoves ==
  ASSUME NEW s, Sound(s), NEW x, NEW q, Learned(x, q, s), NEW y,
         y.row = x.row, x.store.held \subseteq y.store.held,
         \/ y.session = x.session /\ y.pending = x.pending
         \/ /\ Unheard(y, q) /\ y.session.phase \in {"idle", "status"}
            /\ Zero(y.session.cursor) /\ y.session.cursor.settled = None
  PROVE  Learned(y, q, s)
<1>1. \A c : Held(c.settled, x.store) => Held(c.settled, y.store)
  BY DEF Held
<1>2. \A p : Covered(p, s, x.store) => Covered(p, s, y.store)
  BY DEF Covered
<1>3. Truth(q, s)
  BY DEF Learned
<1>4. CASE y.session = x.session /\ y.pending = x.pending
  <2>1. Knowing(y, s)
    BY <1>1, <1>2, <1>4 DEF Learned, Knowing, Cursors
  <2>2. Chasing(y.session, y.store.held \cup Coming(q), s)
    BY <1>4 DEF Learned, Chasing
  <2>3. Awaited(y, q, s)
    <3> SUFFICES ASSUME NEW i \in 1 .. Len(q), q[i].kind = "response",
                        q[i].id = y.pending
                 PROVE  Sure(y.session, q[i].body, s,
                             y.store.held \cup Coming(q),
                             y.store.held \cup Ahead(q, i))
      BY DEF Awaited
    <3>1. Sure(x.session, q[i].body, s,
               x.store.held \cup Coming(q), x.store.held \cup Ahead(q, i))
      BY <1>4 DEF Learned, Awaited
    <3> QED BY <1>4, <3>1, SureMore, GrownSame
  <2> QED BY <1>3, <2>1, <2>2, <2>3 DEF Learned
<1>5. CASE /\ Unheard(y, q) /\ y.session.phase \in {"idle", "status"}
           /\ Zero(y.session.cursor) /\ y.session.cursor.settled = None
  <2>1. Knowing(y, s)
    <3>1. Held(None, y.store)
      BY DEF Held
    <3>2. Covered(0, s, y.store)
      BY CoveredZero
    <3>3. Held(x.row.settled, x.store) /\ Covered(x.row.pull, s, x.store)
      BY DEF Learned, Knowing, Cursors
    <3>4. y.session.cursor.pull = 0 /\ y.session.cursor.settled = None
      BY <1>5 DEF Zero
    <3> QED BY <1>1, <1>2, <3>1, <3>2, <3>3, <3>4 DEF Knowing, Cursors
  <2>2. Chasing(y.session, y.store.held \cup Coming(q), s)
    BY <1>5 DEF Chasing, Chases
  <2>3. Awaited(y, q, s)
    BY <1>5 DEF Awaited, Unheard
  <2> QED BY <1>3, <2>1, <2>2, <2>3 DEF Learned
<1> QED BY <1>4, <1>5

\* What the head brought is here.
LEMMA LearnPop ==
  ASSUME NEW s, NEW x, NEW q \in Seq(Message), q # <<>>, Learned(x, q, s),
         NEW y, y.session = x.session, y.pending = x.pending,
         x.store.held \cup Brings(Head(q)) \subseteq y.store.held,
         Knowing(y, s)
  PROVE  Learned(y, Tail(q), s)
<1> DEFINE r == Tail(q)
<1>1. /\ r \in Seq(Message)
      /\ \A i \in 1 .. Len(r) : r[i] = q[i + 1] /\ i + 1 \in 1 .. Len(q)
      /\ Coming(q) = Brings(Head(q)) \cup Coming(r)
      /\ \A i \in 1 .. Len(r) : Ahead(q, i + 1) = Brings(Head(q)) \cup Ahead(r, i)
  BY Popped, ComingPopped
<1> HIDE DEF r
<1>2. Truth(r, s)
  <2> SUFFICES ASSUME NEW i \in 1 .. Len(r), r[i].kind = "frame"
               PROVE  True(r[i].body, s)
    BY DEF Truth
  <2>1. r[i] = q[i + 1] /\ i + 1 \in 1 .. Len(q)
    BY <1>1
  <2> QED BY <2>1 DEF Learned, Truth
<1>3. x.store.held \cup Coming(q) \subseteq y.store.held \cup Coming(r)
  BY <1>1
<1>4. Chasing(y.session, y.store.held \cup Coming(r), s)
  BY <1>3 DEF Learned, Chasing
<1>5. Awaited(y, r, s)
  <2> SUFFICES ASSUME NEW i \in 1 .. Len(r), r[i].kind = "response",
                      r[i].id = y.pending
               PROVE  Sure(y.session, r[i].body, s,
                           y.store.held \cup Coming(r),
                           y.store.held \cup Ahead(r, i))
    BY DEF Awaited
  <2>1. /\ r[i] = q[i + 1] /\ i + 1 \in 1 .. Len(q)
        /\ Ahead(q, i + 1) = Brings(Head(q)) \cup Ahead(r, i)
    BY <1>1
  <2>2. Sure(x.session, r[i].body, s,
             x.store.held \cup Coming(q), x.store.held \cup Ahead(q, i + 1))
    BY <2>1 DEF Learned, Awaited
  <2>3. x.store.held \cup Ahead(q, i + 1) \subseteq y.store.held \cup Ahead(r, i)
    BY <2>1
  <2> QED BY <1>3, <2>2, <2>3, SureMore, GrownSame
<1> QED BY <1>2, <1>4, <1>5 DEF Learned, r

\* Who does not reconcile relies on no frame.
LEMMA LearnLost ==
  ASSUME NEW s, NEW x, NEW q \in Seq(Message), q # <<>>, Learned(x, q, s),
         ~Chases(x.session), x.session.phase # "hashes",
         NEW y, y.session = x.session, y.pending = x.pending, y.row = x.row,
         x.store.held \subseteq y.store.held
  PROVE  Learned(y, Tail(q), s)
<1> DEFINE r == Tail(q)
<1>1. \A i \in 1 .. Len(r) : r[i] = q[i + 1] /\ i + 1 \in 1 .. Len(q)
  BY Popped
<1> HIDE DEF r
<1>2. Truth(r, s)
  BY <1>1 DEF Learned, Truth
<1>3. Knowing(y, s)
  <2>1. Cursors(y) = Cursors(x)
    BY DEF Cursors
  <2> QED BY <2>1 DEF Learned, Knowing, Held, Covered
<1>4. Chasing(y.session, y.store.held \cup Coming(r), s)
  BY DEF Chasing, Chases
<1>5. Awaited(y, r, s)
  <2> SUFFICES ASSUME NEW i \in 1 .. Len(r), r[i].kind = "response",
                      r[i].id = y.pending
               PROVE  Sure(y.session, r[i].body, s,
                           y.store.held \cup Coming(r),
                           y.store.held \cup Ahead(r, i))
    BY DEF Awaited
  <2>1. r[i] = q[i + 1] /\ i + 1 \in 1 .. Len(q)
    BY <1>1
  <2>2. Sure(x.session, r[i].body, s,
             x.store.held \cup Coming(q), x.store.held \cup Ahead(q, i + 1))
    BY <2>1 DEF Learned, Awaited
  <2> QED BY <2>2 DEF Sure, Chases
<1> QED BY <1>2, <1>3, <1>4, <1>5 DEF Learned, r

\* Whose session was abandoned relies on what it saved.
LEMMA LearnDropped ==
  ASSUME NEW s, Sound(s), NEW x, NEW q \in Seq(Message), q # <<>>,
         Learned(x, q, s),
         NEW y, y.session = Idle, y.pending = None,
         \/ y.row = x.row
         \/ Zero(y.row) /\ y.row.settled = None,
         x.store.held \subseteq y.store.held
  PROVE  Learned(y, Tail(q), s)
<1> DEFINE r == Tail(q)
<1>1. /\ r \in Seq(Message)
      /\ \A i \in 1 .. Len(r) : r[i] = q[i + 1] /\ i + 1 \in 1 .. Len(q)
  BY Popped
<1> HIDE DEF r
<1>2. Truth(r, s)
  BY <1>1 DEF Learned, Truth
<1>3. Idle.phase = "idle" /\ Zero(Idle.cursor) /\ Idle.cursor.settled = None
  BY IdleType
<1>4. Knowing(y, s)
  <2>1. Covered(0, s, y.store) /\ Held(None, y.store)
    BY CoveredZero DEF Held
  <2>2. Held(x.row.settled, y.store) /\ Covered(x.row.pull, s, y.store)
    BY DEF Learned, Knowing, Cursors, Held, Covered
  <2> QED BY <1>3, <2>1, <2>2 DEF Knowing, Cursors, Zero
<1>5. Chasing(y.session, y.store.held \cup Coming(r), s)
  BY <1>3 DEF Chasing, Chases
<1>6. Awaited(y, r, s)
  <2>1. \A i \in 1 .. Len(r) : r[i].id \in Nat
    BY <1>1, ElementOfSeq, MessageType
  <2> QED BY <2>1, PeerAssumption DEF Awaited
<1> QED BY <1>2, <1>4, <1>5, <1>6 DEF Learned, r

\* What n of the messages said after q is worth.
New(x, q, r, u) ==
  \A i \in 1 .. Len(r) : i > Len(q) =>
    /\ r[i].kind = "frame" => True(r[i].body, u)
    /\ r[i].kind = "response" /\ r[i].id = x.pending =>
         Sure(x.session, r[i].body, u,
              x.store.held \cup Coming(r), x.store.held \cup Ahead(r, i))

LEMMA TrueGrows ==
  ASSUME NEW s, NEW u, Sound(s), Sound(u), Grown(s, u),
         NEW f, f.count \in Nat, True(f, s)
  PROVE  True(f, u)
BY BeforeGrown DEF True

\* The server's log grows, and it says so.
LEMMA LearnHears ==
  ASSUME NEW s, NEW u, Sound(s), Sound(u), Grown(s, u),
         NEW x, Healthy(x),
         NEW q \in Seq(Message), NEW r \in Seq(Message), NEW M, Longer(q, r, M),
         Learned(x, q, s), New(x, q, r, u),
         Chases(x.session) \/ x.session.phase = "hashes" =>
           LogRows(u, TheLog) \subseteq
             LogRows(s, TheLog) \cup x.store.held \cup Coming(r),
         NEW y, y.store = x.store, y.row = x.row, y.session = x.session,
         y.pending = x.pending
  PROVE  Learned(y, r, u)
<1>1. /\ Coming(q) \subseteq Coming(r)
      /\ \A i \in 1 .. Len(q) : Ahead(r, i) = Ahead(q, i)
  BY ComingLonger
<1>2. /\ Len(q) \in Nat /\ Len(r) \in Nat
      /\ \A i \in 1 .. Len(q) : r[i] = q[i]
      /\ \A i \in 1 .. Len(r) : i \in 1 .. Len(q) \/ i > Len(q)
  BY LenProperties DEF Longer
<1>3. Knowing(y, u)
  <2> SUFFICES ASSUME NEW c \in Cursors(x) PROVE Covered(c.pull, u, x.store)
    BY DEF Learned, Knowing, Cursors
  <2>1. c.pull \in Nat
    BY DEF Cursors, Healthy, Actor, Session, Cursor
  <2>2. Covered(c.pull, s, x.store)
    BY DEF Learned, Knowing
  <2> QED BY <2>1, <2>2, CoveredGrows
<1>4. Truth(r, u)
  <2> SUFFICES ASSUME NEW i \in 1 .. Len(r), r[i].kind = "frame"
               PROVE  True(r[i].body, u)
    BY DEF Truth
  <2>1. CASE i > Len(q)
    BY <2>1 DEF New
  <2>2. CASE i \in 1 .. Len(q)
    <3>1. r[i] = q[i] /\ r[i] \in Message
      BY <1>2, <2>2, ElementOfSeq
    <3>2. r[i].body.count \in Nat
      BY <3>1, MessageType DEF Framing, News
    <3>3. True(r[i].body, s)
      BY <2>2, <3>1 DEF Learned, Truth
    <3> QED BY <3>2, <3>3, TrueGrows
  <2> QED BY <1>2, <2>1, <2>2
<1>5. Chasing(y.session, y.store.held \cup Coming(r), u)
  <2>1. s.held \subseteq u.held
    BY DEF Grown
  <2>2. x.session.phase = "claims" => Chases(x.session)
    BY DEF Chases
  <2>3. Chasing(x.session, x.store.held \cup Coming(q), s)
    BY DEF Learned
  <2> QED BY <1>1, <2>1, <2>2, <2>3 DEF Chasing
<1>6. Awaited(y, r, u)
  <2> SUFFICES ASSUME NEW i \in 1 .. Len(r), r[i].kind = "response",
                      r[i].id = x.pending
               PROVE  Sure(x.session, r[i].body, u,
                           x.store.held \cup Coming(r),
                           x.store.held \cup Ahead(r, i))
    BY DEF Awaited
  <2>1. CASE i > Len(q)
    BY <2>1 DEF New
  <2>2. CASE i \in 1 .. Len(q)
    <3>1. Sure(x.session, r[i].body, s,
               x.store.held \cup Coming(q), x.store.held \cup Ahead(q, i))
      BY <1>2, <2>2 DEF Learned, Awaited
    <3>2. Ahead(r, i) = Ahead(q, i)
      BY <1>1, <2>2
    <3>3. x.session.phase = "hashes" =>
            LogRows(u, TheLog) \subseteq
              LogRows(s, TheLog) \cup (x.store.held \cup Coming(r))
      OBVIOUS
    <3>4. /\ x.store.held \cup Coming(q) \subseteq x.store.held \cup Coming(r)
          /\ x.store.held \cup Ahead(q, i) \subseteq x.store.held \cup Ahead(r, i)
      BY <1>1, <3>2
    <3> QED BY <3>1, <3>3, <3>4, SureMore
  <2> QED BY <1>2, <2>1, <2>2
<1> QED BY <1>3, <1>4, <1>5, <1>6 DEF Learned

\* What is relied on past the hashes, after a feed().
LEMMA FedChases ==
  ASSUME NEW x, Steady(x), x.session.phase # "idle", x.session.pull,
         NEW a, Fits(a, x.session.phase),
         NEW v, v = Fed(x, a), Effect(x, a, v),
         NEW s, NEW all, NEW had, Sure(x.session, a, s, x.store.held \cup all, had),
         Chasing(x.session, x.store.held \cup all, s)
  PROVE  Chasing(v.session, v.store.held \cup all, s)
<1> DEFINE e == x.session
           w == v.session
<1>1. /\ e \in Session /\ w \in Session
      /\ e.phase \in Phases \ {"idle"} /\ e.after \in {"settle", "resettle"}
      /\ e.batch \in Seq(Event) /\ e.want \in Seq(Claim)
      /\ x.store.held \subseteq v.store.held
  <2>1. x \in Side /\ v \in Side /\ Sound(x.store)
    BY DEF Steady, Effect
  <2>2. x.store.held \subseteq v.store.held
    <3>1. CASE v.store = x.store
      BY <3>1
    <3>2. CASE x.session.phase \in {"pull", "claims"} /\ v.store = IngestAll(x.store, a)
      <4>1. a \in Seq(Event)
        BY <3>2, FedEffect
      <4> QED BY <2>1, <3>2, <4>1, IngestAllGrows DEF Grown
    <3> QED BY <3>1, <3>2 DEF Effect
  <2> QED BY <2>1, <2>2 DEF Side, Session
<1>2. CASE e.phase \in {"status", "pull", "settle"}
  <2>1. Primary(w)
    BY <1>2 DEF Effect
  <2> QED BY <2>1 DEF Primary, Chasing, Chases
<1>3. CASE e.phase = "hashes"
  <2>1. a \in Hashes /\ IsFiniteSet(a.rows)
    BY <1>3 DEF Fits, Expected, Hashes
  <2>2. v = FedHashes(x, a)
    BY <1>3 DEF Fed
  <2>3. /\ v.store = x.store
        /\ w.phase \in {"claims", "publish", "resettle"}
        /\ w.phase = "claims" =>
             /\ a.rows \subseteq x.store.held \cup Wants(w)
             /\ Wants(w) \subseteq a.rows
        /\ w.phase # "claims" => a.rows \subseteq x.store.held
    BY <1>3, <2>1, <2>2, FedHashesAsks
  <2>4. LogRows(s, TheLog) \subseteq a.rows \cup x.store.held \cup all
        /\ a.rows \subseteq s.held
    BY <1>3 DEF Sure
  <2>5. w.phase # "claims" =>
          LogRows(s, TheLog) \subseteq v.store.held \cup all
    BY <2>3, <2>4
  <2>6. w.phase = "claims" =>
          /\ LogRows(s, TheLog) \subseteq (v.store.held \cup all) \cup Wants(w)
          /\ Wants(w) \subseteq s.held
    BY <2>3, <2>4
  <2> QED BY <2>5, <2>6 DEF Chasing
<1>4. CASE e.phase = "claims"
  <2>1. a \in Seq(Event)
    BY <1>4, FedEffect
  <2>2. v = FedClaims(x, a)
    BY <1>4 DEF Fed
  <2>3. /\ v.store.held = x.store.held \cup Ids(a)
        /\ w.phase \in {"claims", "publish", "resettle"}
        /\ w.phase = "claims" => w.want = Rest(e.want)
        /\ w.phase # "claims" => Len(Rest(e.want)) = 0
    BY <1>4, <2>1, <2>2, FedClaimsTakes
  <2>4. /\ \A i \in 1 .. Len(e.want) :
             \/ \E j \in 1 .. Len(First(e.want)) : First(e.want)[j] = e.want[i]
             \/ \E j \in 1 .. Len(Rest(e.want)) : Rest(e.want)[j] = e.want[i]
    BY <1>1, WantsParts
  <2>5. \A j \in 1 .. Len(First(e.want)) : First(e.want)[j] \in Ids(a)
    BY <1>4 DEF Sure, Ids
  <2> DEFINE left == {Rest(e.want)[j] : j \in 1 .. Len(Rest(e.want))}
  <2>6. Wants(e) \subseteq Ids(a) \cup left
    <3> SUFFICES ASSUME NEW i \in 1 .. Len(e.want)
                 PROVE  e.want[i] \in Ids(a) \cup left
      BY DEF Wants
    <3>1. CASE \E j \in 1 .. Len(First(e.want)) : First(e.want)[j] = e.want[i]
      BY <2>5, <3>1
    <3>2. CASE \E j \in 1 .. Len(Rest(e.want)) : Rest(e.want)[j] = e.want[i]
      BY <3>2
    <3> QED BY <2>4, <3>1, <3>2
  <2>7. left \subseteq Wants(e)
    <3> SUFFICES ASSUME NEW j \in 1 .. Len(Rest(e.want))
                 PROVE  Rest(e.want)[j] \in Wants(e)
      OBVIOUS
    <3> DEFINE k == Len(First(e.want)) + j
    <3>1. k \in 1 .. Len(e.want) /\ Rest(e.want)[j] = e.want[k]
      BY <1>1, FirstRest
    <3> QED BY <3>1 DEF Wants
  <2>8. /\ w.phase = "claims" => Wants(w) = left
        /\ w.phase # "claims" => left = {}
    <3>1. w.phase = "claims" => Wants(w) = left
      BY <2>3 DEF Wants
    <3>2. w.phase # "claims" => left = {}
      <4>1. Len(Rest(e.want)) = 0 => 1 .. Len(Rest(e.want)) = {}
        OBVIOUS
      <4> QED BY <2>3, <4>1
    <3> QED BY <3>1, <3>2
  <2>9. /\ LogRows(s, TheLog) \subseteq (x.store.held \cup all) \cup Wants(e)
        /\ Wants(e) \subseteq s.held
    BY <1>4 DEF Chasing
  <2> HIDE DEF left
  <2> QED BY <2>3, <2>6, <2>7, <2>8, <2>9 DEF Chasing
<1>5. CASE e.phase = "publish"
  <2>1. /\ w.phase \in {"publish", e.after} /\ w.after = e.after
        /\ w.batch = Rest(e.batch)
    BY <1>5 DEF Effect
  <2>2. Chases(w) => Chases(e)
    BY <1>1, <1>5, <2>1 DEF Chases
  <2>3. w.phase # "claims" /\ e.phase # "claims"
    BY <1>1, <1>5, <2>1
  <2> QED BY <1>1, <2>2, <2>3 DEF Chasing
<1>6. CASE e.phase = "resettle"
  BY <1>6 DEF Effect, Chasing, Chases
<1> QED BY <1>1, <1>2, <1>3, <1>4, <1>5, <1>6 DEF Phases

LEMMA FedOurs ==
  ASSUME NEW x, Steady(x), x.session.phase # "idle", x.session.pull,
         NEW a, Fits(a, x.session.phase),
         NEW v, v = Fed(x, a), Effect(x, a, v), Ours(x)
  PROVE  Ours(v)
<1> DEFINE e == x.session
           w == v.session
<1>1. /\ e \in Session /\ e.phase \in Phases \ {"idle"}
      /\ e.batch \in Seq(Event) /\ e.after \in {"settle", "resettle"}
  BY DEF Steady, Side, Session
<1>2. CASE e.phase \in {"status", "pull", "settle"}
  <2>1. Primary(w)
    BY <1>2 DEF Effect
  <2> QED BY <2>1 DEF Primary, Ours
<1>3. CASE e.phase = "hashes"
  <2>1. a \in Hashes /\ IsFiniteSet(a.rows)
    BY <1>3 DEF Fits, Expected, Hashes
  <2>2. v = FedHashes(x, a)
    BY <1>3 DEF Fed
  <2>3. /\ v.store = x.store
        /\ w.phase = "claims" => Ids(w.extra) \subseteq x.store.held
        /\ w.phase = "publish" => Ids(w.batch) \subseteq x.store.held
    BY <1>3, <2>1, <2>2, FedHashesAsks
  <2> QED BY <2>3 DEF Ours
<1>4. CASE e.phase = "claims"
  <2>1. a \in Seq(Event)
    BY <1>4, FedEffect
  <2>2. v = FedClaims(x, a)
    BY <1>4 DEF Fed
  <2>3. /\ v.store.held = x.store.held \cup Ids(a)
        /\ w.phase = "claims" => w.extra = e.extra
        /\ w.phase = "publish" => w.batch = e.extra
    BY <1>4, <2>1, <2>2, FedClaimsTakes
  <2> QED BY <1>4, <2>3 DEF Ours
<1>5. CASE e.phase = "publish"
  <2>1. /\ w.phase \in {"publish", e.after} /\ w.after = e.after
        /\ w.batch = Rest(e.batch) /\ v.store = x.store
    BY <1>5 DEF Effect
  <2>2. Ids(w.batch) \subseteq Ids(e.batch)
    BY <1>1, <2>1, RestFewer
  <2> QED BY <1>1, <1>5, <2>1, <2>2 DEF Ours
<1>6. CASE e.phase = "resettle"
  BY <1>6 DEF Effect, Ours
<1> QED BY <1>1, <1>2, <1>3, <1>4, <1>5, <1>6 DEF Phases

\* What the cursors count and remember, after a feed().
LEMMA FedKnowing ==
  ASSUME NEW x, Steady(x), x.session.phase # "idle",
         NEW a, Fits(a, x.session.phase),
         NEW v, Effect(x, a, v),
         NEW s, Sound(s), NEW all,
         Sure(x.session, a, s, all, x.store.held), Knowing(x, s)
  PROVE  Knowing(v, s)
<1>1. /\ x \in Side /\ v \in Side /\ Sound(x.store) /\ x.store \in Store
      /\ x.session.cursor.pull \in Nat
  BY DEF Steady, Effect, Side, Session, Cursor
<1>2. /\ x.store.held \subseteq v.store.held
      /\ x.session.phase = "pull" => a \in Seq(Event)
      /\ x.session.phase = "pull" /\ v.store = IngestAll(x.store, a) =>
           \A i \in 1 .. Len(a) : a[i].id \in v.store.held
  <2>1. x.session.phase \in {"pull", "claims"} => a \in Seq(Event)
    BY FedEffect
  <2>2. CASE v.store = x.store /\ x.session.phase \notin {"pull", "claims"}
    BY <2>2
  <2>3. CASE x.session.phase \in {"pull", "claims"}
    <3>1. \/ v.store = x.store \/ v.store = IngestAll(x.store, a)
      BY DEF Effect
    <3> QED BY <1>1, <2>1, <2>3, <3>1, IngestAllGrows DEF Grown
  <2> QED BY <2>1, <2>2, <2>3 DEF Effect
<1>3. \A d \in Cursors(x) : Held(d.settled, x.store) /\ Covered(d.pull, s, x.store)
  BY DEF Knowing
<1> SUFFICES ASSUME NEW c \in Cursors(v)
             PROVE  Held(c.settled, v.store) /\ Covered(c.pull, s, v.store)
  BY DEF Knowing
<1>4. Covered(c.pull, s, v.store)
  <2>1. CASE Zero(c)
    BY <2>1, CoveredZero DEF Zero
  <2>2. CASE \E d \in Cursors(x) : Same(c, d)
    BY <1>2, <1>3, <2>2 DEF Same, Covered
  <2>3. CASE Pulled(x, a, v, c)
    <3>1. Placed(a, s, x.session.cursor.pull)
      BY <2>3 DEF Pulled, Sure
    <3>2. Covered(x.session.cursor.pull, s, x.store)
      BY <1>3 DEF Cursors
    <3> QED BY <1>1, <1>2, <2>3, <3>1, <3>2, CoveredMore DEF Pulled
  <2>4. CASE Pushed(x, c)
    <3>1. Covered(x.session.cursor.pull, s, x.store)
      BY <1>3 DEF Cursors
    <3> QED BY <1>2, <2>4, <3>1 DEF Pushed, Covered
  <2> QED BY <2>1, <2>2, <2>3, <2>4 DEF Effect
<1>5. Held(c.settled, v.store)
  <2>1. CASE c.settled = None
    BY <2>1 DEF Held
  <2>2. CASE \E d \in Cursors(x) : c.settled = d.settled
    BY <1>2, <1>3, <2>2 DEF Held
  <2>3. CASE v.store = x.store /\ c.settled = Digest(x.store)
    <3>1. Listed(Digest(x.store)) = LogRows(x.store, TheLog)
      BY <1>1, ListedDigest
    <3> QED BY <2>3, <3>1 DEF Held, LogRows
  <2>4. CASE x.session.phase = "resettle" /\ c.settled = a.print
    BY <1>2, <2>4 DEF Sure, Held
  <2> QED BY <2>1, <2>2, <2>3, <2>4 DEF Effect, Remembered
<1> QED BY <1>4, <1>5

\* The head is what the session waited for.
LEMMA FedLearns ==
  ASSUME NEW x, Healthy(x), Waits(x), x.pending # None, x.session.pull,
         NEW q \in Seq(Message), q # <<>>, Head(q).kind = "response",
         Head(q).id = x.pending, Fits(Head(q).body, x.session.phase),
         NEW s, Sound(s), Learned(x, q, s) ,
         NEW v, NEW y, Went(x, Head(q).body, v, y, Tail(q))
  PROVE  Learned(y, Tail(q), s)
<1> DEFINE r == Tail(q)
           a == Head(q).body
           z == SideOf(x)
<1>1. /\ Steady(z) /\ z.store = x.store /\ z.row = x.row
      /\ z.session = x.session /\ Cursors(z) = Cursors(x)
  BY SideType
<1>2. z.session.phase # "idle" /\ z.session.pull /\ Fits(a, z.session.phase)
  BY <1>1 DEF Waits
<1>3. /\ Head(q) = q[1] /\ 1 \in 1 .. Len(q)
      /\ \A i \in 1 .. Len(r) : r[i] = q[i + 1] /\ i + 1 \in 1 .. Len(q)
  BY Popped, LenProperties
<1>4. Coming(q) = Coming(r) /\ Ahead(q, 1) = {}
  BY ComingPopped, ComingParts DEF Brings
<1> HIDE DEF z, r, a
<1>5. Sure(z.session, a, s, z.store.held \cup Coming(r), z.store.held)
  <2>1. Sure(x.session, q[1].body, s,
             x.store.held \cup Coming(q), x.store.held \cup Ahead(q, 1))
    BY <1>3 DEF Learned, Awaited
  <2>2. x.store.held \cup Ahead(q, 1) = x.store.held
    BY <1>4
  <2> QED BY <1>1, <1>3, <1>4, <2>1, <2>2 DEF a
<1>6. /\ v = Fed(z, a) /\ Effect(z, a, v)
      /\ y.store = v.store /\ y.row = v.row /\ y.session \in {v.session, Idle}
      /\ Unheard(y, r)
  BY DEF Went, z, r, a
<1>7. Knowing(z, s)
  BY <1>1 DEF Learned, Knowing
<1>8. Knowing(v, s)
  BY <1>1, <1>2, <1>5, <1>6, <1>7, FedKnowing
<1>9. Knowing(y, s)
  <2>1. Held(None, y.store) /\ Covered(0, s, y.store)
    BY CoveredZero DEF Held
  <2>2. \A c \in Cursors(v) : Held(c.settled, y.store) /\ Covered(c.pull, s, y.store)
    BY <1>6, <1>8 DEF Knowing
  <2>3. Idle.cursor.settled = None /\ Idle.cursor.pull = 0
    BY IdleType DEF Zero
  <2>4. Cursors(y) \subseteq Cursors(v) \cup {Idle.cursor}
    BY <1>6 DEF Cursors
  <2> QED BY <2>1, <2>2, <2>3, <2>4 DEF Knowing
<1>10. Truth(r, s)
  <2> SUFFICES ASSUME NEW i \in 1 .. Len(r), r[i].kind = "frame"
               PROVE  True(r[i].body, s)
    BY DEF Truth
  <2>1. r[i] = q[i + 1] /\ i + 1 \in 1 .. Len(q)
    BY <1>3
  <2> QED BY <2>1 DEF Learned, Truth
<1>11. Chasing(y.session, y.store.held \cup Coming(r), s)
  <2>1. CASE y.session = Idle
    BY <2>1, IdleType DEF Chasing, Chases
  <2>2. CASE y.session = v.session
    <3>1. Chasing(z.session, z.store.held \cup Coming(r), s)
      BY <1>1, <1>4 DEF Learned
    <3>2. Chasing(v.session, v.store.held \cup Coming(r), s)
      <4> DEFINE all == Coming(r)
                 had == z.store.held
      <4>1. /\ Steady(z) /\ z.session.phase # "idle" /\ z.session.pull
            /\ Fits(a, z.session.phase) /\ v = Fed(z, a) /\ Effect(z, a, v)
            /\ Sure(z.session, a, s, z.store.held \cup all, had)
            /\ Chasing(z.session, z.store.held \cup all, s)
        BY <1>1, <1>2, <1>5, <1>6, <3>1
      <4> HIDE DEF all, had
      <4>2. Chasing(v.session, v.store.held \cup all, s)
        BY ONLY <4>1, FedChases
      <4> QED BY <4>2 DEF all
    <3> QED BY <1>6, <2>2, <3>2
  <2> QED BY <1>6, <2>1, <2>2
<1>12. Awaited(y, r, s)
  BY <1>6 DEF Awaited, Unheard
<1> QED BY <1>9, <1>10, <1>11, <1>12 DEF Learned, r

-----------------------------------------------------------------------------
(* What a follower x with inbox q may rely on, of a relay that holds s *)

\* What it counts as pushed the relay holds, and what was acknowledged.
Taught(x, q, s) ==
  /\ \A c \in Cursors(x) : Covered(c.push, x.store, s)
  /\ \A i \in 1 .. Len(q) :
       q[i].kind = "response" /\ q[i].id = x.pending
         /\ x.session.phase = "publish" =>
           Ids(First(x.session.batch)) \subseteq s.held

\* Both ends may hold more; every answer is an old one, or kept its word.
LEMMA TeachMoves ==
  ASSUME NEW x, Healthy(x), NEW q, NEW s, Taught(x, q, s),
         NEW y, Healthy(y), NEW r, NEW u,
         Grown(x.store, y.store), s.held \subseteq u.held,
         y.row.push \in {x.row.push, 0},
         \/ /\ Unheard(y, r) /\ Zero(y.session.cursor)
         \/ /\ y.session = x.session /\ y.pending = x.pending
            /\ \A i \in 1 .. Len(r) : r[i].kind = "response" =>
                 \/ \E j \in 1 .. Len(q) : q[j] = r[i]
                 \/ r[i].id # x.pending
                 \/ x.session.phase = "publish" =>
                      Ids(First(x.session.batch)) \subseteq u.held
  PROVE  Taught(y, r, u)
<1>1. /\ Sound(x.store) /\ Sound(y.store)
      /\ \A c \in Cursors(x) : c.push \in Nat
  BY DEF Healthy, Cursors, Actor, Cursor, Session
<1>2. \A c \in Cursors(x) : Covered(c.push, y.store, u)
  BY <1>1, CoveredGrows DEF Taught
<1>3. Covered(0, y.store, u)
  BY <1>1, CoveredZero
<1>4. Covered(y.row.push, y.store, u)
  BY <1>2, <1>3 DEF Cursors
<1>5. CASE Unheard(y, r) /\ Zero(y.session.cursor)
  <2>1. Covered(y.session.cursor.push, y.store, u)
    BY <1>3, <1>5 DEF Zero
  <2> QED BY <1>4, <1>5, <2>1 DEF Taught, Cursors, Unheard
<1>6. CASE /\ y.session = x.session /\ y.pending = x.pending
           /\ \A i \in 1 .. Len(r) : r[i].kind = "response" =>
                \/ \E j \in 1 .. Len(q) : q[j] = r[i]
                \/ r[i].id # x.pending
                \/ x.session.phase = "publish" =>
                     Ids(First(x.session.batch)) \subseteq u.held
  <2>1. Covered(y.session.cursor.push, y.store, u)
    BY <1>2, <1>6 DEF Cursors
  <2>2. ASSUME NEW i \in 1 .. Len(r), r[i].kind = "response",
               r[i].id = x.pending, x.session.phase = "publish"
        PROVE  Ids(First(x.session.batch)) \subseteq u.held
    BY <1>6, <2>2 DEF Taught
  <2> QED BY <1>4, <1>6, <2>1, <2>2 DEF Taught, Cursors
<1> QED BY <1>5, <1>6

\* A prefix acknowledged is counted.
LEMMA TeachFed ==
  ASSUME NEW x, Healthy(x), Waits(x), x.pending # None,
         NEW q \in Seq(Message), q # <<>>, Head(q).kind = "response",
         Head(q).id = x.pending, Fits(Head(q).body, x.session.phase),
         NEW s, Taught(x, q, s),
         NEW v, NEW y, Went(x, Head(q).body, v, y, Tail(q))
  PROVE  Taught(y, Tail(q), s)
<1> DEFINE a == Head(q).body
           z == SideOf(x)
<1>1. /\ Steady(z) /\ z.store = x.store /\ z.row = x.row
      /\ z.session = x.session /\ Cursors(z) = Cursors(x)
  BY SideType
<1>2. z.session.phase # "idle" /\ Fits(a, z.session.phase)
  BY <1>1 DEF Waits
<1>3. Head(q) = q[1] /\ 1 \in 1 .. Len(q)
  BY Popped, LenProperties
<1>4. /\ Effect(z, a, v) /\ y.store = v.store /\ y.row = v.row
      /\ y.session \in {v.session, Idle} /\ Unheard(y, Tail(q)) /\ Healthy(y)
  BY DEF Went
<1> HIDE DEF z, a
<1>5. /\ Sound(z.store) /\ z.session \in Session /\ Sound(y.store)
      /\ z.session.cursor.push \in Nat /\ z.session.batch \in Seq(Event)
      /\ \A d \in Cursors(z) : d.push \in Nat
  BY <1>1, <1>4 DEF Steady, Healthy, Session, Cursor, Side, Cursors
<1>6. Grown(z.store, y.store)
  <2>1. z.session.phase \in {"pull", "claims"} => a \in Seq(Event)
    BY <1>1, <1>2, FedEffect
  <2>2. CASE v.store = z.store
    BY <1>4, <2>2, GrownSame
  <2>3. CASE /\ z.session.phase \in {"pull", "claims"}
             /\ v.store = IngestAll(z.store, a)
    BY <1>4, <1>5, <2>1, <2>3, IngestAllGrows
  <2> QED BY <1>4, <2>2, <2>3 DEF Effect
<1>7. \A d \in Cursors(z) : Covered(d.push, y.store, s)
  <2>1. \A d \in Cursors(z) : Covered(d.push, z.store, s)
    BY <1>1 DEF Taught
  <2> QED BY <1>5, <1>6, <2>1, CoveredGrows
<1>8. \A c \in Cursors(v) : Covered(c.push, y.store, s)
  <2> SUFFICES ASSUME NEW c \in Cursors(v) PROVE Covered(c.push, y.store, s)
    OBVIOUS
  <2>1. CASE Zero(c)
    BY <1>5, <2>1, CoveredZero DEF Zero
  <2>2. CASE \E d \in Cursors(z) : Same(c, d)
    BY <1>7, <2>2 DEF Same
  <2>3. CASE Pulled(z, a, v, c)
    <3>1. z.session.cursor \in Cursors(z)
      BY DEF Cursors
    <3> QED BY <1>7, <2>3, <3>1 DEF Pulled
  <2>4. CASE Pushed(z, c)
    <3> DEFINE b == First(z.session.batch)
    <3>1. /\ z.session.phase = "publish"
          /\ c.push = z.session.cursor.push + Len(b)
          /\ Placed(z.session.batch, z.store, z.session.cursor.push)
      BY <1>1, <2>4 DEF Pushed, Steady, Ready
    <3>2. /\ b \in Seq(Event) /\ Placed(b, z.store, z.session.cursor.push)
      BY <1>5, <3>1, FirstRest, PlacedParts
    <3>3. Ids(b) \subseteq s.held
      BY <1>1, <1>3, <3>1 DEF Taught
    <3>4. Covered(z.session.cursor.push, z.store, s)
      <4>1. z.session.cursor \in Cursors(z)
        BY DEF Cursors
      <4> QED BY <1>1, <4>1 DEF Taught
    <3>5. \A j \in 1 .. Len(b) : b[j].id \in s.held
      BY <3>3 DEF Ids
    <3> HIDE DEF b
    <3>6. Covered(z.session.cursor.push + Len(b), z.store, s)
      BY <1>5, <3>2, <3>4, <3>5, CoveredMore
    <3>7. z.session.cursor.push + Len(b) \in Nat
      BY <1>5, <3>2, LenProperties
    <3> DEFINE n == z.session.cursor.push + Len(b)
    <3>8. n \in Nat /\ Covered(n, z.store, s) /\ c.push = n
      BY <3>1, <3>6, <3>7
    <3> HIDE DEF n
    <3>9. Covered(n, y.store, s)
      BY ONLY <1>5, <1>6, <3>8, CoveredGrows
    <3> QED BY <3>8, <3>9
  <2> QED BY <1>4, <2>1, <2>2, <2>3, <2>4 DEF Effect
<1>9. Covered(Idle.cursor.push, y.store, s)
  BY <1>5, CoveredZero, IdleType DEF Zero
<1>10. Cursors(y) \subseteq Cursors(v) \cup {Idle.cursor}
  BY <1>4 DEF Cursors
<1> QED BY <1>4, <1>8, <1>9, <1>10 DEF Taught, Unheard

-----------------------------------------------------------------------------
(* Follower x and server t *)

\* Who does what: the server neither follows nor asks, the follower serves no
\* watch; a session pulls.
Roles(x, t) ==
  /\ ~t.follows /\ ~t.dirty /\ ~t.stirred /\ t.session = Idle
  /\ t.pending = None /\ (t.watched => Serves("server"))
  /\ ~x.watched /\ (x.session.phase # "idle" => x.session.pull)
  /\ \A i \in 1 .. Len(x.out) : x.out[i].kind # "frame"
  /\ \A i \in 1 .. Len(t.out) : t.out[i].kind # "watch"

\* No connection.
Off(x, t) ==
  /\ x.session.phase = "idle" /\ x.out = <<>> /\ t.out = <<>>
  /\ ~x.follows /\ ~t.watched

Minds(x, inn) == Healthy(x) /\ Waits(x) /\ Tidy(x, inn)

(***************************************************************************)
(* Both ends at once: on says whether there is a connection, k how often a *)
(* disk has failed.                                                        *)
(***************************************************************************)
Pair(x, t, on, k) ==
  /\ Minds(x, t.out) /\ Minds(t, x.out)
  /\ Roles(x, t) /\ Ours(x)
  /\ ~on => Off(x, t)
  /\ "gap" \notin x.missed \cup t.missed =>
       Learned(x, t.out, Shown(t, "server"))
  /\ Scene.author = "follower" /\ Scene.relay /\ k = 0 =>
       Taught(x, t.out, t.store)

LEMMA ShownSound ==
  ASSUME NEW t, Healthy(t)
  PROVE  Sound(Shown(t, "server"))
BY ShownStocked DEF Stocked

\* A channel is read.
LEMMA Shortened ==
  ASSUME scene \in DOMAIN Scenes,
         NEW t, NEW q \in Seq(Message), Minds(t, q), t.out # <<>>
  PROVE  LET u == [t EXCEPT !.out = Tail(@)]
         IN  /\ Minds(u, q) /\ u.out = Tail(t.out)
             /\ u.store = t.store /\ u.row = t.row /\ u.session = t.session
             /\ u.pending = t.pending /\ u.dirty = t.dirty
             /\ u.watched = t.watched /\ u.follows = t.follows
             /\ u.stirred = t.stirred /\ u.missed = t.missed
<1> DEFINE u == [t EXCEPT !.out = Tail(t.out)]
<1>1. t \in Actor /\ t.out \in Seq(Message) /\ Tidy(t, q)
  BY ActorType DEF Minds, Healthy
<1>2. u \in Actor /\ u.out = Tail(t.out) /\ Tidy(u, q)
  <2>1. u = [t EXCEPT !.out = Tail(@)]
    BY <1>1 DEF Actor
  <2> HIDE DEF u
  <2> QED BY <1>1, <2>1, TidyReceived
<1>3. Len(Tail(t.out)) <= Len(t.out) /\ Len(t.out) \in Nat /\ Len(Tail(t.out)) \in Nat
  BY <1>1, Popped, LenProperties
<1>4. /\ u.store = t.store /\ u.row = t.row /\ u.session = t.session
      /\ u.pending = t.pending /\ u.dirty = t.dirty
      /\ u.watched = t.watched /\ u.follows = t.follows
      /\ u.stirred = t.stirred /\ u.missed = t.missed
      /\ u.fetching = t.fetching
  BY <1>1 DEF Actor
<1>5. u = [t EXCEPT !.out = Tail(@)]
  BY <1>1 DEF Actor
<1>6. Scene.cap \in Nat
  BY SceneType
<1> HIDE DEF u
<1>7. Len(u.out) <= Len(t.out) /\ Len(u.out) \in Nat
  BY <1>2, <1>3
<1>8. Healthy(u)
  <2>1. Len(t.out) <= Scene.cap
    BY DEF Minds, Healthy
  <2>2. Len(u.out) <= Scene.cap
    BY <1>3, <1>6, <1>7, <2>1
  <2> QED BY <1>2, <1>4, <2>2 DEF Minds, Healthy
<1>9. Waits(u)
  BY <1>4 DEF Minds, Waits
<1>10. /\ Minds(u, q) /\ u.out = Tail(t.out)
       /\ u.store = t.store /\ u.row = t.row /\ u.session = t.session
       /\ u.pending = t.pending /\ u.dirty = t.dirty
       /\ u.watched = t.watched /\ u.follows = t.follows
       /\ u.stirred = t.stirred /\ u.missed = t.missed
  BY <1>2, <1>4, <1>8, <1>9 DEF Minds
<1> QED BY <1>5, <1>10

\* The other end sees a channel grow by no answer of its own.
LEMMA Hears ==
  ASSUME NEW t, NEW q \in Seq(Message), NEW r \in Seq(Message), Minds(t, q),
         NEW M \in SUBSET Heedless, Longer(q, r, M)
  PROVE  Minds(t, r)
<1>1. Longer(q, r, Heedless)
  BY LongerWider
<1>2. t \in Actor
  BY DEF Minds, Healthy
<1> QED BY <1>1, <1>2, TidyHears DEF Minds

LEMMA HeedlessKinds ==
  /\ Requesting \subseteq Heedless /\ Framing \subseteq Heedless
  /\ Watching \subseteq Heedless
BY MessageType DEF Heedless, Message, Requesting, Framing, Watching, Responding

\* What a follower says of its own accord, and what a server does.
Speech == Requesting \cup Watching
Report == Requesting \cup Framing

LEMMA SpeechKinds ==
  /\ \A m \in Speech : m.kind # "frame"
  /\ \A m \in Report : m.kind # "watch"
  /\ Speech \subseteq Heedless /\ Report \subseteq Heedless
BY HeedlessKinds DEF Speech, Report, Requesting, Framing, Watching

(***************************************************************************)
(* The follower on a turn of its own: its log may grow, its channel too.   *)
(***************************************************************************)
LEMMA FollowerActs ==
  ASSUME NEW x, NEW t, NEW on, NEW k, Pair(x, t, on, k),
         NEW y, Minds(y, t.out), NEW M \in SUBSET Speech,
         Longer(x.out, y.out, M), Grown(x.store, y.store),
         y.row = x.row, y.watched = x.watched, x.missed \subseteq y.missed,
         ~on => y.out = x.out /\ ~y.follows,
         \/ y.session = x.session /\ y.pending = x.pending
         \/ /\ on /\ Unheard(y, t.out)
            /\ y.session \in {Idle, NewSession(TRUE, Scene.author = "follower")}
  PROVE  Pair(y, t, on, k)
<1>1. /\ x.out \in Seq(Message) /\ y.out \in Seq(Message)
      /\ t.out \in Seq(Message) /\ Healthy(x) /\ Healthy(y) /\ Healthy(t)
  BY ActorType DEF Pair, Minds, Healthy
<1>2. Minds(t, y.out)
  BY <1>1, SpeechKinds, Hears DEF Pair
<1>3. \/ y.session = x.session /\ y.pending = x.pending
      \/ /\ on /\ Unheard(y, t.out) /\ y.session.phase \in {"idle", "status"}
         /\ Zero(y.session.cursor) /\ y.session.cursor.settled = None
         /\ y.session.phase # "idle" => y.session.pull
  BY IdleType
<1>4. Roles(y, t)
  <2>1. \A i \in 1 .. Len(y.out) : y.out[i].kind # "frame"
    <3>1. \A m \in M : m.kind # "frame"
      BY SpeechKinds
    <3>2. \A i \in 1 .. Len(x.out) : x.out[i].kind # "frame"
      BY DEF Pair, Roles
    <3>3. \A i \in 1 .. Len(y.out) : i \in 1 .. Len(x.out) \/ i > Len(x.out)
      BY <1>1, LenProperties
    <3> QED BY <3>1, <3>2, <3>3 DEF Longer
  <2> QED BY <1>3, <2>1 DEF Pair, Roles
<1>5. Ours(y)
  <2>1. x.store.held \subseteq y.store.held
    BY DEF Grown
  <2> QED BY <1>3, <2>1 DEF Pair, Ours
<1>6. ~on => Off(y, t)
  BY <1>3 DEF Pair, Off
<1>7. ASSUME "gap" \notin y.missed \cup t.missed
      PROVE  Learned(y, t.out, Shown(t, "server"))
  <2>1. Learned(x, t.out, Shown(t, "server"))
    BY <1>7 DEF Pair
  <2>2. x.store.held \subseteq y.store.held
    BY DEF Grown
  <2>3. Sound(Shown(t, "server"))
    BY <1>1, ShownSound
  <2> QED BY <1>3, <2>1, <2>2, <2>3, LearnMoves
<1>8. ASSUME Scene.author = "follower", Scene.relay, k = 0
      PROVE  Taught(y, t.out, t.store)
  <2>1. Taught(x, t.out, t.store)
    BY <1>8 DEF Pair
  <2>2. \A i \in 1 .. Len(t.out) : t.out[i].kind = "response" =>
          \E j \in 1 .. Len(t.out) : t.out[j] = t.out[i]
    OBVIOUS
  <2> QED BY <1>1, <1>3, <2>1, <2>2, TeachMoves
<1> QED BY <1>2, <1>4, <1>5, <1>6, <1>7, <1>8 DEF Pair

\* And it pumps.
LEMMA FollowerPumps ==
  ASSUME scene \in DOMAIN Scenes, NEW x, NEW t, NEW k, Pair(x, t, TRUE, k)
  PROVE  Pair(Pump(x, "follower"), t, TRUE, k)
<1> DEFINE y == Pump(x, "follower")
<1>1. t.out \in Seq(Message) /\ Healthy(x) /\ Waits(x) /\ Tidy(x, t.out)
  BY ActorType DEF Pair, Minds, Healthy
<1>2. /\ Moves(x, y, t.out)
      /\ \/ y.session = x.session /\ y.pending = x.pending
         \/ /\ Unheard(y, t.out)
            /\ y.session \in {Idle, NewSession(TRUE, Scene.author = "follower")}
  BY <1>1, PumpKeeps
<1> HIDE DEF y
<1>3. /\ Minds(y, t.out) /\ Grown(x.store, y.store) /\ y.row = x.row
      /\ y.watched = x.watched /\ x.missed \subseteq y.missed
      /\ Longer(x.out, y.out, Requesting)
  BY <1>2, GrownSame DEF Moves, Minds
<1>4. Requesting \in SUBSET Speech
  BY DEF Speech
<1>5. Pair(y, t, TRUE, k)
  BY <1>2, <1>3, <1>4, FollowerActs
<1> QED BY <1>5 DEF y

-----------------------------------------------------------------------------
(* The inductive invariant, and how a step keeps it *)

PeerInv ==
  /\ scene \in DOMAIN Scenes /\ up \in BOOLEAN
  /\ drops \in 0 .. Scene.drops /\ faults \in 0 .. Scene.faults
  /\ demands \in 0 .. Scene.demands
  /\ node \in [Node -> Actor]
  /\ Pair(Follower, Server, up, faults)

\* The two after a step.
Became(x, t) == node' = [n \in Node |-> IF n = "follower" THEN x ELSE t]

Goes(x, t) == Became(x, t) /\ Pair(x, t, up', faults')

LEMMA FollowerTurns ==
  ASSUME PeerInv, NEW y, Pair(y, Server, up, faults), Turn("follower", y),
         up' = up, faults' = faults
  PROVE  \E x : Goes(x, Server)
<1> DEFINE z == IF up THEN Pump(y, "follower") ELSE y
<1>1. Pair(z, Server, up, faults)
  <2>1. CASE up = TRUE
    BY <2>1, FollowerPumps DEF PeerInv
  <2>2. CASE up = FALSE
    BY <2>2
  <2> QED BY <2>1, <2>2 DEF PeerInv
<1>2. node' = [node EXCEPT !["follower"] = z]
  BY DEF Turn
<1> HIDE DEF z
<1>3. Became(z, Server)
  BY <1>2, OtherType DEF PeerInv, Became, Server
<1> QED BY <1>1, <1>3 DEF Goes

LEMMA PairTypes ==
  ASSUME NEW x, NEW t, NEW on, NEW k, Pair(x, t, on, k)
  PROVE  /\ x \in Actor /\ t \in Actor
         /\ x.out \in Seq(Message) /\ t.out \in Seq(Message)
         /\ Healthy(x) /\ Waits(x) /\ Tidy(x, t.out)
         /\ Healthy(t) /\ Waits(t) /\ Tidy(t, x.out)
         /\ Stocked(x.store) /\ Stocked(t.store)
BY ActorType DEF Pair, Minds, Healthy, Stocked

\* A follow, or an unfollow: it is announced, and may ring the doorbell.
LEMMA Announces ==
  ASSUME PeerInv, NEW on, Pair(Follower, Server, on, faults), on = TRUE,
         NEW f \in BOOLEAN, NEW d \in BOOLEAN, NEW w \in BOOLEAN
  PROVE  Pair(Send([Follower EXCEPT !.follows = f, !.dirty = d],
                   Msg("watch", 0, w)), Server, on, faults)
<1> DEFINE x == Follower
           t == Server
           y == [x EXCEPT !.follows = f, !.dirty = d]
           m == Msg("watch", 0, w)
           z == Send(y, m)
<1>1. /\ x \in Actor /\ t.out \in Seq(Message) /\ x.out \in Seq(Message)
      /\ Healthy(x) /\ Waits(x) /\ Tidy(x, t.out) /\ Stocked(x.store)
  BY PairTypes
<1>2. scene \in DOMAIN Scenes
  BY DEF PeerInv
<1> HIDE DEF x, t
<1>3. /\ y \in Actor /\ y.store = x.store /\ y.row = x.row
      /\ y.session = x.session /\ y.pending = x.pending /\ y.out = x.out
      /\ y.watched = x.watched /\ y.fetching = x.fetching
      /\ y.missed = x.missed
  BY <1>1 DEF Actor
<1>4. m \in Watching /\ m \in Message
  BY DEF Msg, Watching, Message
<1> HIDE DEF y, m
<1>5. Healthy(y) /\ Waits(y) /\ Tidy(y, t.out)
  BY <1>1, <1>3, ChangeKeeps, GrownSame
<1>6. Puts(y, z, Watching) /\ z.fetching = y.fetching
  BY <1>2, <1>3, <1>4, SendPuts
<1>7. Watching \in SUBSET Saying /\ Watching \in SUBSET Speech
  BY SayingKinds DEF Speech
<1> HIDE DEF z
<1>8. Healthy(z) /\ Waits(z) /\ Tidy(z, t.out)
  BY <1>1, <1>2, <1>5, <1>6, <1>7, SayKeeps
<1>9. /\ z.store = x.store /\ z.row = x.row /\ z.session = x.session
      /\ z.pending = x.pending /\ z.watched = x.watched
      /\ x.missed \subseteq z.missed /\ Longer(x.out, z.out, Watching)
  BY <1>3, <1>6 DEF Puts
<1>10. Minds(z, t.out) /\ Grown(x.store, z.store)
  BY <1>8, <1>9, GrownSame DEF Minds
<1>11. Pair(z, t, on, faults)
  BY <1>7, <1>9, <1>10, FollowerActs DEF x, t
<1> QED BY <1>11 DEF x, t, y, z, m

LEMMA ConnectKeeps ==
  ASSUME PeerInv, Connect
  PROVE  \E x : Goes(x, Server)
<1> DEFINE y == Send([Follower EXCEPT !.follows = TRUE, !.dirty = TRUE],
                     Msg("watch", 0, TRUE))
           z == Pump(y, "follower")
<1>1. Pair(Follower, Server, TRUE, faults)
  BY DEF PeerInv, Pair
<1>2. Pair(y, Server, TRUE, faults)
  BY <1>1, Announces
<1> HIDE DEF y
<1>3. Pair(z, Server, TRUE, faults)
  BY <1>2, FollowerPumps DEF PeerInv
<1>4. node' = [node EXCEPT !["follower"] = z] /\ up' = TRUE /\ faults' = faults
  BY DEF Connect, y, Follower
<1> HIDE DEF z
<1>5. Became(z, Server)
  BY <1>4, OtherType DEF PeerInv, Became, Server
<1> QED BY <1>3, <1>4, <1>5 DEF Goes

LEMMA RefollowKeeps ==
  ASSUME PeerInv, NEW f \in BOOLEAN, Refollow(f)
  PROVE  \E x : Goes(x, Server)
<1> DEFINE y == Send([Follower EXCEPT !.follows = f,
                                      !.dirty = Follower.dirty \/ f],
                     Msg("watch", 0, f))
<1>1. up = TRUE /\ Pair(Follower, Server, up, faults)
  BY DEF PeerInv, Refollow
<1>2. (Follower.dirty \/ f) \in BOOLEAN
  OBVIOUS
<1>3. Pair(y, Server, up, faults)
  BY <1>1, <1>2, Announces
<1>4. Turn("follower", y) /\ up' = up /\ faults' = faults
  <2>1. Follower \in Actor
    BY <1>1, PairTypes
  <2>2. [Follower EXCEPT !.follows = f, !.dirty = @ \/ f]
          = [Follower EXCEPT !.follows = f, !.dirty = Follower.dirty \/ f]
    BY <2>1 DEF Actor
  <2> QED BY <2>2 DEF Refollow, Follower
<1> HIDE DEF y
<1> QED BY <1>3, <1>4, FollowerTurns

\* A change to the follower that says nothing.
LEMMA QuietKeeps ==
  ASSUME PeerInv, NEW y \in Actor, Stocked(y.store), Grown(Follower.store, y.store),
         y.row = Follower.row, y.session = Follower.session,
         y.pending = Follower.pending, y.out = Follower.out,
         y.watched = Follower.watched, y.fetching = Follower.fetching,
         y.follows = Follower.follows, y.missed = Follower.missed
  PROVE  Pair(y, Server, up, faults)
<1> DEFINE x == Follower
           t == Server
<1>1. Pair(x, t, up, faults)
  BY DEF PeerInv
<1>2. /\ x \in Actor /\ t.out \in Seq(Message) /\ x.out \in Seq(Message)
      /\ Healthy(x) /\ Waits(x) /\ Tidy(x, t.out)
  BY <1>1, PairTypes
<1>3. ~up => ~x.follows
  BY <1>1 DEF Pair, Off
<1> HIDE DEF x, t
<1>4. Minds(y, t.out)
  BY <1>2, ChangeKeeps DEF x, Minds
<1>5. Longer(x.out, y.out, Speech)
  BY <1>2, LongerSame DEF x
<1>6. Pair(y, t, up, faults)
  BY <1>1, <1>3, <1>4, <1>5, FollowerActs DEF x
<1> QED BY <1>6 DEF t

LEMMA SyncNowKeeps ==
  ASSUME PeerInv, SyncNow
  PROVE  \E x : Goes(x, Server)
<1> DEFINE y == [Follower EXCEPT !.dirty = TRUE]
<1>1. Follower \in Actor /\ Stocked(Follower.store)
  BY PairTypes DEF PeerInv
<1>2. /\ y \in Actor /\ y.store = Follower.store /\ y.row = Follower.row
      /\ y.session = Follower.session /\ y.pending = Follower.pending
      /\ y.out = Follower.out /\ y.watched = Follower.watched
      /\ y.fetching = Follower.fetching /\ y.follows = Follower.follows
      /\ y.missed = Follower.missed
  BY <1>1 DEF Actor
<1>3. Turn("follower", y) /\ up' = up /\ faults' = faults
  BY DEF SyncNow, Follower
<1> HIDE DEF y
<1>4. Pair(y, Server, up, faults)
  BY <1>1, <1>2, QuietKeeps, GrownSame
<1> QED BY <1>3, <1>4, FollowerTurns

LEMMA EvictKeeps ==
  ASSUME PeerInv, NEW b \in Blob, EvictBlob(b)
  PROVE  \E x : Goes(x, Server)
<1> DEFINE blobs == Follower.blobs \ {b}
           y == [Follower EXCEPT !.blobs = blobs]
<1>1. Follower \in Actor /\ Stocked(Follower.store)
  BY PairTypes DEF PeerInv
<1>2. blobs \in SUBSET Blob
  BY <1>1 DEF Actor
<1>3. Turn("follower", y) /\ up' = up /\ faults' = faults
  <2>1. y = [Follower EXCEPT !.blobs = @ \ {b}]
    BY <1>1 DEF Actor
  <2> QED BY <2>1 DEF EvictBlob, Follower
<1> HIDE DEF blobs
<1>4. /\ y \in Actor /\ y.store = Follower.store /\ y.row = Follower.row
      /\ y.session = Follower.session /\ y.pending = Follower.pending
      /\ y.out = Follower.out /\ y.watched = Follower.watched
      /\ y.fetching = Follower.fetching /\ y.follows = Follower.follows
      /\ y.missed = Follower.missed
  BY <1>1, <1>2 DEF Actor
<1> HIDE DEF y
<1>5. Pair(y, Server, up, faults)
  BY <1>1, <1>4, QuietKeeps, GrownSame
<1> QED BY <1>3, <1>5, FollowerTurns

LEMMA FetchBlobKeeps ==
  ASSUME PeerInv, NEW b \in Blob, FetchBlob(b)
  PROVE  \E x : Goes(x, Server)
<1> DEFINE x == Follower
           t == Server
           y == RequestBlob(x, b)
<1>1. Pair(x, t, up, faults) /\ up = TRUE /\ scene \in DOMAIN Scenes
  BY DEF PeerInv, FetchBlob
<1>2. /\ t.out \in Seq(Message) /\ Healthy(x) /\ Waits(x) /\ Tidy(x, t.out)
  BY <1>1, PairTypes
<1>3. Asked(x, y, t.out)
  BY <1>1, <1>2, RequestBlobKeeps
<1>4. Turn("follower", y) /\ up' = up /\ faults' = faults
  BY DEF FetchBlob, Follower
<1> HIDE DEF y, x
<1>5. /\ Minds(y, t.out) /\ Longer(x.out, y.out, Requesting)
      /\ Grown(x.store, y.store) /\ y.row = x.row /\ y.watched = x.watched
      /\ x.missed \subseteq y.missed /\ y.session = x.session
      /\ y.pending = x.pending
  BY <1>2, <1>3, GrownSame DEF Asked, Puts, Minds, Waits
<1>6. Requesting \in SUBSET Speech
  BY DEF Speech
<1>7. Pair(y, t, up, faults)
  BY <1>1, <1>5, <1>6, FollowerActs
<1> QED BY <1>4, <1>7, FollowerTurns

LEMMA MintFollower ==
  ASSUME PeerInv, Scene.author = "follower", NEW c \in Scene.mints, Mint(c)
  PROVE  \E x : Goes(x, Server)
<1> DEFINE x == Follower
           t == Server
           y == Minted(x, "follower", c)
<1>1. Pair(x, t, up, faults) /\ scene \in DOMAIN Scenes /\ c \in Claim
  BY SceneType DEF PeerInv
<1>2. /\ x \in Actor
      /\ x.out \in Seq(Message) /\ t.out \in Seq(Message)
      /\ Healthy(x) /\ Waits(x) /\ Tidy(x, t.out)
  BY <1>1, PairTypes
<1>0. ~x.watched /\ (~up => ~x.follows)
  BY <1>1 DEF Pair, Roles, Off
<1>3. Turn("follower", y) /\ up' = up /\ faults' = faults
  BY DEF Mint, Follower
<1> HIDE DEF x, t
<1>4. /\ Healthy(y) /\ Waits(y) /\ Tidy(y, t.out)
      /\ Grown(x.store, y.store)
      /\ y.row = x.row /\ y.session = x.session /\ y.pending = x.pending
      /\ y.watched = x.watched /\ y.follows = x.follows
      /\ x.missed \subseteq y.missed /\ y.out = x.out
  <2> DEFINE inn == t.out
             e == [id |-> c, body |-> TRUE]
  <2>1. inn \in Seq(Message) /\ Tidy(x, inn)
    BY <1>2
  <2> HIDE DEF inn
  <2>2. /\ Healthy(y) /\ Waits(y) /\ Tidy(y, inn)
        /\ Grown(x.store, y.store)
        /\ y.row = x.row /\ y.session = x.session /\ y.pending = x.pending
        /\ y.watched = x.watched /\ y.follows = x.follows
        /\ x.missed \subseteq y.missed /\ Reports(x, y, <<e>>)
    BY <1>1, <1>2, <2>1, MintKeeps
  <2> QED BY <1>0, <2>2 DEF inn, Reports
<1> HIDE DEF y
<1>5. Minds(y, t.out) /\ Longer(x.out, y.out, Speech)
  BY <1>2, <1>4, LongerSame DEF Minds
<1>6. Pair(y, t, up, faults)
  BY <1>0, <1>1, <1>4, <1>5, FollowerActs
<1> QED BY <1>3, <1>6, FollowerTurns DEF t

LEMMA NoMessages == /\ <<>> \in Seq(Message) /\ Len(<<>>) = 0 /\ 1 .. 0 = {}
OBVIOUS

\* An actor whose pipe is gone.
LEMMA PipelessType ==
  ASSUME scene \in DOMAIN Scenes, NEW x, Healthy(x)
  PROVE  LET y == Pipeless(x)
         IN  /\ Minds(y, <<>>) /\ y.store = x.store /\ y.row = x.row
             /\ y.session = Idle /\ y.pending = None /\ ~y.dirty /\ ~y.watched
             /\ ~y.follows /\ ~y.stirred /\ y.out = <<>>
             /\ "gap" \notin y.missed => "gap" \notin x.missed
<1> DEFINE y == Pipeless(x)
<1>1. x \in Actor /\ Sound(x.store) /\ IsFiniteSet(x.store.pins)
  BY DEF Healthy
<1>2. <<>> \in Seq(Message) /\ Idle \in Session
  BY NoMessages, IdleType
<1>3. /\ y.store = x.store /\ y.row = x.row /\ y.blobs = x.blobs
      /\ y.session = Idle /\ y.pending = None /\ y.dirty = FALSE
      /\ y.watched = FALSE /\ y.fetching = {} /\ y.follows = FALSE
      /\ y.stirred = FALSE /\ y.out = <<>>
      /\ y.missed = x.missed \cap {"gap"} /\ y \in Actor
  <2> DEFINE few == x.missed \cap {"gap"}
             none == <<>>
             rest == Idle
  <2>1. /\ few \in SUBSET {"response", "request", "push", "gap"}
        /\ none \in Seq(Message) /\ rest \in Session
    BY <1>2
  <2>2. y = [x EXCEPT !.session = rest, !.pending = None, !.dirty = FALSE,
                      !.watched = FALSE, !.fetching = {}, !.follows = FALSE,
                      !.stirred = FALSE, !.out = none, !.missed = few]
    BY <1>1 DEF Pipeless, Actor
  <2> HIDE DEF y, few, none, rest
  <2>3. /\ y.store = x.store /\ y.row = x.row /\ y.blobs = x.blobs
        /\ y.session = rest /\ y.pending = None /\ y.dirty = FALSE
        /\ y.watched = FALSE /\ y.fetching = {} /\ y.follows = FALSE
        /\ y.stirred = FALSE /\ y.out = none /\ y.missed = few /\ y \in Actor
    BY <1>1, <2>1, <2>2 DEF Actor
  <2> QED BY <2>3 DEF few, none, rest
<1> HIDE DEF y
<1>4. Ready(y.session, y.store) /\ Waits(y)
  BY <1>2, <1>3, IdleType DEF Ready, Waits
<1>5. Len(y.out) <= Scene.cap
  <2>1. Scene.cap \in Nat /\ Len(y.out) = 0
    BY <1>3, SceneType, NoMessages
  <2> QED BY <2>1
<1>6. Healthy(y)
  BY <1>1, <1>3, <1>4, <1>5, FS_EmptySet DEF Healthy
<1>7. Tidy(y, <<>>)
  BY <1>3, NoMessages DEF Tidy, Asks, Told, Once, Fetches
<1>8. /\ Minds(y, <<>>) /\ y.store = x.store /\ y.row = x.row
      /\ y.session = Idle /\ y.pending = None /\ ~y.dirty /\ ~y.watched
      /\ ~y.follows /\ ~y.stirred /\ y.out = <<>>
      /\ "gap" \notin y.missed => "gap" \notin x.missed
  BY <1>3, <1>4, <1>6, <1>7 DEF Minds
<1> QED BY <1>8 DEF y

\* What was in the channels is gone; what was saved is not.
LEMMA DisconnectKeeps ==
  ASSUME PeerInv, Disconnect
  PROVE  \E x, t : Goes(x, t)
<1> DEFINE x == Follower
           t == Server
           y == Pipeless(x)
           u == Pipeless(t)
<1>1. Pair(x, t, up, faults) /\ scene \in DOMAIN Scenes
  BY DEF PeerInv
<1>2. Healthy(x) /\ Healthy(t) /\ t.out \in Seq(Message)
  BY <1>1, PairTypes
<1>3. node' = [n \in Node |-> Pipeless(node[n])] /\ up' = FALSE /\ faults' = faults
  BY DEF Disconnect
<1>4. Became(y, u)
  BY <1>3, OtherType DEF Became, Follower, Server
<1> HIDE DEF x, t
<1>5. /\ Minds(y, <<>>) /\ y.store = x.store /\ y.row = x.row
      /\ y.session = Idle /\ y.pending = None /\ ~y.watched
      /\ ~y.follows /\ y.out = <<>>
      /\ "gap" \notin y.missed => "gap" \notin x.missed
  BY <1>1, <1>2, PipelessType
<1>6. /\ Minds(u, <<>>) /\ u.store = t.store /\ u.row = t.row
      /\ u.session = Idle /\ u.pending = None /\ ~u.dirty /\ ~u.watched
      /\ ~u.follows /\ ~u.stirred /\ u.out = <<>>
      /\ "gap" \notin u.missed => "gap" \notin t.missed
  BY <1>1, <1>2, PipelessType
<1> HIDE DEF y, u
<1>7. Idle.phase = "idle" /\ Zero(Idle.cursor) /\ Idle.cursor.settled = None
  BY IdleType
<1>8. Roles(y, u) /\ Ours(y) /\ Off(y, u)
  BY <1>5, <1>6, <1>7, NoMessages DEF Roles, Ours, Off
<1>9. ASSUME "gap" \notin y.missed \cup u.missed
      PROVE  Learned(y, <<>>, Shown(u, "server"))
  <2>1. Learned(x, t.out, Shown(t, "server"))
    BY <1>1, <1>5, <1>6, <1>9 DEF Pair
  <2>2. Shown(u, "server") = Shown(t, "server") /\ Sound(Shown(t, "server"))
    BY <1>2, <1>6, ShownSound DEF Shown
  <2> DEFINE s == Shown(t, "server")
  <2> HIDE DEF s
  <2>3. Covered(0, s, y.store) /\ Held(None, y.store)
    BY <2>2, CoveredZero DEF Held, s
  <2>4. Knowing(x, s)
    BY <2>1 DEF Learned, s
  <2>5. Knowing(y, s)
    BY <1>5, <1>7, <2>3, <2>4 DEF Knowing, Cursors, Zero
  <2>6. Learned(y, <<>>, s)
    BY <1>5, <1>7, <2>5, NoMessages
       DEF Learned, Truth, Chasing, Chases, Awaited
  <2> QED BY <2>2, <2>6 DEF s
<1>10. ASSUME Scene.author = "follower", Scene.relay, faults = 0
       PROVE  Taught(y, <<>>, u.store)
  <2>1. Taught(x, t.out, t.store)
    BY <1>1, <1>10 DEF Pair
  <2>2. Unheard(y, <<>>)
    BY NoMessages DEF Unheard
  <2>3. Healthy(y) /\ Grown(x.store, y.store)
    BY <1>5, GrownSame DEF Minds
  <2> QED BY <1>2, <1>5, <1>6, <1>7, <2>1, <2>2, <2>3, TeachMoves
<1>11. Pair(y, u, FALSE, faults)
  BY <1>5, <1>6, <1>8, <1>9, <1>10 DEF Pair
<1> QED BY <1>3, <1>4, <1>11 DEF Goes

-----------------------------------------------------------------------------
(* The follower receives *)

Read(t) == [t EXCEPT !.out = Tail(@)]

\* A message read that answers nothing the session waits for.
LEMMA FollowerReads ==
  ASSUME scene \in DOMAIN Scenes, NEW x, NEW t, NEW k, Pair(x, t, TRUE, k),
         t.out # <<>>,
         NEW y, Minds(y, Tail(t.out)), Minds(Read(t), y.out),
         \A i \in 1 .. Len(y.out) : y.out[i].kind # "frame",
         y.watched = x.watched, Grown(x.store, y.store),
         y.session = x.session, y.pending = x.pending,
         y.row.push \in {x.row.push, 0}, x.missed \subseteq y.missed,
         Brings(Head(t.out)) \subseteq y.store.held,
         NEW s, s = Shown(t, "server"),
         Knowing(x, s) /\ Truth(t.out, s) => Knowing(y, s)
  PROVE  Pair(y, Read(t), TRUE, k)
<1> DEFINE u == Read(t)
           r == Tail(t.out)
<1>1. /\ x \in Actor /\ t.out \in Seq(Message) /\ x.out \in Seq(Message)
      /\ Healthy(x) /\ Healthy(t) /\ Tidy(t, x.out) /\ Waits(t)
  BY PairTypes
<1>2. /\ u.out = r
      /\ u.store = t.store /\ u.row = t.row /\ u.session = t.session
      /\ u.pending = t.pending /\ u.dirty = t.dirty
      /\ u.watched = t.watched /\ u.follows = t.follows
      /\ u.stirred = t.stirred /\ u.missed = t.missed
  BY <1>1, Shortened DEF Minds, Read
<1>3. /\ r \in Seq(Message)
      /\ \A i \in 1 .. Len(r) : r[i] = t.out[i + 1] /\ i + 1 \in 1 .. Len(t.out)
  BY <1>1, Popped
<1> HIDE DEF u, r
<1>4. Minds(y, u.out) /\ Minds(u, y.out) /\ Healthy(y)
  BY <1>2 DEF u, r, Minds
<1>5. Roles(y, u)
  <2>1. \A i \in 1 .. Len(r) : r[i].kind # "watch"
    BY <1>3 DEF Pair, Roles
  <2> QED BY <1>2, <2>1 DEF Pair, Roles
<1>6. Ours(y)
  BY DEF Pair, Ours, Grown
<1>7. ASSUME "gap" \notin y.missed \cup u.missed
      PROVE  Learned(y, r, Shown(u, "server"))
  <2>1. Learned(x, t.out, s)
    BY <1>2, <1>7 DEF Pair
  <2>2. Shown(u, "server") = s
    BY <1>2 DEF Shown
  <2>3. x.store.held \cup Brings(Head(t.out)) \subseteq y.store.held
    BY DEF Grown
  <2>4. Knowing(y, s)
    BY <2>1 DEF Learned
  <2> QED BY <1>1, <2>1, <2>2, <2>3, <2>4, LearnPop DEF r
<1>8. ASSUME Scene.author = "follower", Scene.relay, k = 0
      PROVE  Taught(y, r, u.store)
  <2>1. Taught(x, t.out, u.store)
    BY <1>2, <1>8 DEF Pair
  <2>2. \A i \in 1 .. Len(r) : \E j \in 1 .. Len(t.out) : t.out[j] = r[i]
    BY <1>3
  <2> QED BY <1>1, <1>4, <2>1, <2>2, TeachMoves
<1>9. Pair(y, u, TRUE, k)
  BY <1>2, <1>4, <1>5, <1>6, <1>7, <1>8 DEF Pair
<1> QED BY <1>9 DEF u

\* The channel read, whatever was in it, and what is still on its way.
LEMMA FollowerPops ==
  ASSUME scene \in DOMAIN Scenes, NEW x, NEW t, NEW on, NEW k,
         Pair(x, t, on, k), t.out # <<>>
  PROVE  /\ Minds(x, Tail(t.out)) /\ Minds(Read(t), x.out)
         /\ Tail(t.out) \in Seq(Message) /\ Head(t.out) \in Message
         /\ Head(t.out).kind # "watch"
         /\ \A i \in 1 .. Len(x.out) : x.out[i].kind # "frame"
         /\ x.out \in Seq(Message) /\ t.out \in Seq(Message)
         /\ x \in Actor /\ t \in Actor
<1>1. /\ x \in Actor /\ t.out \in Seq(Message) /\ x.out \in Seq(Message)
      /\ t \in Actor /\ Healthy(x) /\ Waits(x) /\ Tidy(x, t.out)
  BY PairTypes
<1>2. /\ Tail(t.out) \in Seq(Message) /\ Head(t.out) \in Message
      /\ Head(t.out) = t.out[1] /\ 1 \in 1 .. Len(t.out)
  BY <1>1, Popped, LenProperties
<1>3. Minds(x, Tail(t.out))
  BY <1>1, TidyPopped DEF Minds
<1>4. Minds(Read(t), x.out)
  BY <1>1, Shortened DEF Pair, Read
<1> QED BY <1>1, <1>2, <1>3, <1>4 DEF Pair, Roles

\* A frame.
LEMMA FollowerFramed ==
  ASSUME scene \in DOMAIN Scenes, NEW x, NEW t, NEW k, Pair(x, t, TRUE, k),
         t.out # <<>>, Head(t.out).kind = "frame"
  PROVE  Pair(OnFrame(x, "follower", Head(t.out)), Read(t), TRUE, k)
<1> DEFINE m == Head(t.out)
           r == Tail(t.out)
           y == OnFrame(x, "follower", m)
           s == Shown(t, "server")
<1>1. /\ Minds(x, r) /\ Minds(Read(t), x.out) /\ r \in Seq(Message)
      /\ m \in Framing /\ x.out \in Seq(Message) /\ t.out \in Seq(Message)
      /\ \A i \in 1 .. Len(x.out) : x.out[i].kind # "frame"
  <2>1. /\ Minds(x, r) /\ Minds(Read(t), x.out) /\ r \in Seq(Message)
        /\ m \in Message /\ x.out \in Seq(Message) /\ t.out \in Seq(Message)
        /\ \A i \in 1 .. Len(x.out) : x.out[i].kind # "frame"
    BY FollowerPops
  <2> QED BY <2>1, MessageType
<1>2. m = t.out[1] /\ 1 \in 1 .. Len(t.out)
  BY <1>1, Popped, LenProperties
<1> HIDE DEF m, r
<1>3. /\ Healthy(y) /\ Waits(y) /\ Tidy(y, r)
      /\ Grown(x.store, y.store) /\ Ids(m.body.events) \subseteq y.store.held
      /\ Forwarded(x, m.body, y.row, y.store)
      /\ y.session = x.session /\ y.pending = x.pending
      /\ y.watched = x.watched /\ y.follows = x.follows
      /\ Longer(x.out, y.out, Requesting)
      /\ x.missed \subseteq y.missed
  BY <1>1, FrameKeeps DEF Minds
<1> HIDE DEF y
<1>4. y.out \in Seq(Message)
  BY <1>3, ActorType DEF Healthy
<1>5. Minds(y, r) /\ Minds(Read(t), y.out)
  BY <1>1, <1>3, <1>4, HeedlessKinds, Hears DEF Minds
<1>6. \A i \in 1 .. Len(y.out) : y.out[i].kind # "frame"
  <2>1. \A i \in 1 .. Len(y.out) : i \in 1 .. Len(x.out) \/ i > Len(x.out)
    BY <1>1, <1>4, LenProperties
  <2> QED BY <1>1, <1>3, <2>1 DEF Longer, Requesting
<1>7. Brings(m) \subseteq y.store.held
  BY <1>3 DEF Brings
<1>8. ASSUME Knowing(x, s), Truth(t.out, s) PROVE Knowing(y, s)
  <2>1. True(m.body, s)
    <3>1. m.kind = "frame"
      BY <1>1 DEF Framing
    <3> QED BY <1>2, <1>8, <3>1 DEF Truth
  <2>2. x.store.held \subseteq y.store.held
    BY <1>3 DEF Grown
  <2>3. \A c \in Cursors(x) : Held(c.settled, x.store) /\ Covered(c.pull, s, x.store)
    BY <1>8 DEF Knowing
  <2>4. \A c \in Cursors(x) : Held(c.settled, y.store) /\ Covered(c.pull, s, y.store)
    BY <2>2, <2>3 DEF Held, Covered
  <2>5. x.row \in Cursors(x) /\ x.session.cursor \in Cursors(x)
    BY DEF Cursors
  <2>6. /\ Held(y.row.settled, y.store)
        /\ \/ y.row.pull \in {0, x.row.pull}
           \/ /\ y.row.pull = m.body.count
              /\ Listed(m.body.print) \subseteq y.store.held
    BY <1>3, <2>3, <2>5 DEF Forwarded
  <2>7. Covered(0, s, y.store)
    <3>1. Sound(s)
      BY PairTypes, ShownSound
    <3> QED BY <3>1, CoveredZero
  <2>8. ASSUME y.row.pull = m.body.count,
               Listed(m.body.print) \subseteq y.store.held
        PROVE  Covered(y.row.pull, s, y.store)
    BY <2>1, <2>8 DEF True, Covered, Before
  <2>9. Covered(y.row.pull, s, y.store)
    BY <2>4, <2>5, <2>6, <2>7, <2>8
  <2> QED BY <1>3, <2>4, <2>5, <2>6, <2>9 DEF Knowing, Cursors
<1>9. y.row.push \in {x.row.push, 0}
  BY <1>3 DEF Forwarded
<1> HIDE DEF s
<1>10. s = Shown(t, "server")
  BY DEF s
<1>11. Pair(y, Read(t), TRUE, k)
  BY <1>3, <1>5, <1>6, <1>7, <1>8, <1>9, <1>10, FollowerReads DEF m, r
<1> QED BY <1>11 DEF y, m

-----------------------------------------------------------------------------
(* One answers what the other asked *)

ReplyTo(x, n, m) == Msg("response", m.id, Answer(x, n, m.body))

\* A request x has read off the channel of t, and its answer under way to t.
Replied(x, t, n, m, k, z) ==
  /\ m \in Requesting /\ ReplyTo(x, n, m) \in Responding
  /\ Minds(z, Tail(t.out)) /\ Minds(Read(t), z.out)
  /\ Served(x, z, Tail(t.out)) /\ Took(x, n, m, k, z.store)
  /\ \/ Longer(x.out, z.out, Requesting)
     \/ Longer(Append(x.out, ReplyTo(x, n, m)), z.out, Requesting)
  /\ Append(x.out, ReplyTo(x, n, m)) \in Seq(Message)

\* What x asked and is on top of its channel.
LEMMA AskedOnTop ==
  ASSUME NEW t, NEW q, Minds(t, q), t.out # <<>>, Head(t.out).kind = "request"
  PROVE  /\ Head(t.out) \in Requesting
         /\ Head(t.out).id = 0 => Head(t.out).body[1] = "put"
         /\ \/ Head(t.out).body[1] \in {"put", "get"}
            \/ /\ Head(t.out).id = t.pending /\ t.pending # None
               /\ Head(t.out).body = Question(t.session)
         /\ Head(t.out).id = t.pending =>
              Head(t.out).body = Question(t.session)
<1>1. /\ t.pending \notin Fetches(t)
      /\ t \in Actor /\ t.out \in Seq(Message) /\ Asks(t)
  BY ActorType DEF Minds, Healthy, Tidy
<1>2. /\ Head(t.out) \in Message /\ Head(t.out) = t.out[1]
      /\ 1 \in 1 .. Len(t.out)
  BY <1>1, Popped, LenProperties
<1> DEFINE m == Head(t.out)
<1>3. m \in Requesting /\ m.id \in Nat /\ m = t.out[1]
  BY <1>2, MessageType
<1> HIDE DEF m
<1>4. \/ m.id = 0 /\ m.body[1] = "put"
      \/ m.id = t.pending /\ m.body = Question(t.session)
      \/ \E f \in t.fetching : f[1] = m.id /\ m.body = <<"get", f[2]>>
  BY <1>1, <1>2, <1>3 DEF Asks, m
<1>5. None \notin Nat
  BY PeerAssumption
<1>6. t.pending # 0 /\ \A f \in t.fetching : f[1] # 0
  BY <1>1, <1>5, ActorType
<1>7. \A f \in t.fetching : m.body = <<"get", f[2]>> => m.body[1] = "get"
  OBVIOUS
<1>8. /\ m.id = 0 => m.body[1] = "put"
      /\ \/ m.body[1] \in {"put", "get"}
         \/ m.id = t.pending /\ t.pending # None /\ m.body = Question(t.session)
      /\ m.id = t.pending => m.body = Question(t.session)
  BY <1>1, <1>3, <1>4, <1>5, <1>6, <1>7 DEF Fetches
<1> QED BY <1>3, <1>8 DEF m

LEMMA Replies ==
  ASSUME scene \in DOMAIN Scenes,
         NEW x, NEW t, Minds(x, t.out), Minds(t, x.out), t.out # <<>>,
         Head(t.out).kind = "request", NEW n,
         NEW k \in 0 .. Len(Carried(Head(t.out)))
  PROVE  Replied(x, t, n, Head(t.out), k, OnRequest(x, n, Head(t.out), k))
<1> DEFINE m == Head(t.out)
           inn == Tail(t.out)
           a == Answer(x, n, m.body)
           r == ReplyTo(x, n, m)
           z == OnRequest(x, n, m, k)
           u == Read(t)
<1>1. /\ x \in Actor /\ t \in Actor /\ x.out \in Seq(Message)
      /\ t.out \in Seq(Message) /\ Tidy(x, t.out) /\ Tidy(t, x.out)
      /\ Healthy(x) /\ Waits(x) /\ Healthy(t) /\ Waits(t)
  BY ActorType DEF Minds, Healthy
<1>2. m \in Requesting /\ (m.id = 0 => m.body[1] = "put")
  BY AskedOnTop
<1>3. inn \in Seq(Message) /\ Tidy(x, inn)
  BY <1>1, Popped, TidyPopped
<1>4. Answers(t, m, a)
  BY <1>1, <1>2, AnswerKeeps
<1>5. r = Msg("response", m.id, a)
  BY DEF ReplyTo
<1>6. r \in Responding /\ Tidy(u, Append(x.out, r))
  BY <1>1, <1>4, <1>5, TidyAnswered DEF Read
<1>7. Minds(u, x.out)
  BY <1>1, Shortened DEF Read, Minds
<1>8. k \in 0 .. Len(Carried(m))
  OBVIOUS
<1> HIDE DEF u, m, inn
<1>9. r = Msg("response", m.id, Answer(x, n, m.body))
  BY DEF ReplyTo
<1> HIDE DEF a, r
<1>10. /\ Served(x, z, inn) /\ Took(x, n, m, k, z.store)
       /\ \/ Longer(x.out, z.out, Requesting)
          \/ Longer(Append(x.out, r), z.out, Requesting)
  BY <1>1, <1>2, <1>3, <1>6, <1>8, <1>9, RequestKeeps
<1> HIDE DEF z
<1>11. Healthy(z) /\ Minds(z, inn)
  BY <1>10 DEF Served, Minds
<1>12. z.out \in Seq(Message)
  BY <1>11, ActorType DEF Healthy
<1>13. r \in Message
  BY <1>6 DEF Message
<1>14. Append(x.out, r) \in Seq(Message)
  BY <1>1, <1>13, AppendProperties
<1>15. Minds(u, Append(x.out, r))
  BY <1>6, <1>7 DEF Minds
<1>16. Minds(u, z.out)
  BY <1>1, <1>7, <1>10, <1>12, <1>14, <1>15, HeedlessKinds, Hears
<1> QED BY <1>2, <1>6, <1>10, <1>11, <1>14, <1>16 DEF Replied, m, z, u, inn, r

LEMMA ReplyKind ==
  ASSUME NEW x, NEW n, NEW m
  PROVE  /\ ReplyTo(x, n, m).kind = "response" /\ ReplyTo(x, n, m).id = m.id
         /\ ReplyTo(x, n, m).body = Answer(x, n, m.body)
BY DEF ReplyTo, Msg

\* The follower answers: the server asks for blobs, or offers them.
LEMMA FollowerAsked ==
  ASSUME scene \in DOMAIN Scenes, NEW x, NEW t, NEW k, Pair(x, t, TRUE, k),
         t.out # <<>>, Head(t.out).kind = "request",
         NEW j \in 0 .. Len(Carried(Head(t.out)))
  PROVE  Pair(OnRequest(x, "follower", Head(t.out), j), Read(t), TRUE, k)
<1> DEFINE m == Head(t.out)
           r == ReplyTo(x, "follower", m)
           y == OnRequest(x, "follower", m, j)
           s == Shown(t, "server")
<1>1. /\ Minds(x, t.out) /\ Minds(t, x.out) /\ t.pending = None
      /\ Healthy(x) /\ x.out \in Seq(Message)
      /\ \A i \in 1 .. Len(x.out) : x.out[i].kind # "frame"
  BY FollowerPops DEF Pair, Roles, Minds
<1>2. Replied(x, t, "follower", m, j, y)
  BY <1>1, Replies
<1>3. m \in Requesting /\ m.body[1] \in {"put", "get"} /\ m.kind = "request"
  BY <1>1, AskedOnTop
<1>4. r.kind = "response"
  BY ReplyKind
<1>5. Minds(y, Tail(t.out)) /\ Minds(Read(t), y.out)
  BY <1>2 DEF Replied
<1> HIDE DEF m, y, s
<1>6. y.store = x.store
  BY <1>2, <1>3 DEF Replied, Took
<1>7. /\ y.row = x.row /\ y.session = x.session /\ y.pending = x.pending
      /\ y.watched = x.watched /\ x.missed \subseteq y.missed
  BY <1>2 DEF Replied, Served
<1>8. \A i \in 1 .. Len(y.out) : y.out[i].kind # "frame"
  <2> DEFINE q == Append(x.out, r)
  <2>1. /\ q \in Seq(Message) /\ y.out \in Seq(Message)
        /\ Longer(x.out, y.out, Requesting) \/ Longer(q, y.out, Requesting)
    BY <1>2, <1>5, ActorType DEF Replied, Minds, Healthy
  <2>2. \A i \in 1 .. Len(q) : q[i].kind # "frame"
    <3>1. \A i \in 1 .. Len(q) : q[i] = r \/ (i \in 1 .. Len(x.out) /\ q[i] = x.out[i])
      <4>1. r \in Message
        BY <1>2 DEF Replied, Message
      <4> HIDE DEF r
      <4> QED BY <1>1, <4>1, AppendProperties, LenProperties
    <3> QED BY <1>1, <1>4, <3>1
  <2> HIDE DEF q
  <2>3. \A i \in 1 .. Len(y.out) : /\ i \in 1 .. Len(x.out) \/ i > Len(x.out)
                                   /\ i \in 1 .. Len(q) \/ i > Len(q)
    BY <1>1, <2>1, LenProperties
  <2>4. \A i \in Requesting : i.kind # "frame"
    BY DEF Requesting
  <2> QED BY <1>1, <2>1, <2>2, <2>3, <2>4 DEF Longer
<1>9. Brings(m) \subseteq y.store.held
  BY <1>3 DEF Brings
<1>10. Knowing(x, s) => Knowing(y, s)
  BY <1>6, <1>7 DEF Knowing, Cursors
<1>11. s = Shown(t, "server") /\ Grown(x.store, y.store)
  BY <1>6, GrownSame DEF s
<1> HIDE DEF r
<1>12. Pair(y, Read(t), TRUE, k)
  BY <1>5, <1>7, <1>8, <1>9, <1>10, <1>11, FollowerReads DEF m
<1> QED BY <1>12 DEF y, m

\* What a response on top of the channel may be.
LEMMA AnswerOnTop ==
  ASSUME NEW x, NEW q \in Seq(Message), Minds(x, q), q # <<>>,
         Head(q).kind = "response"
  PROVE  /\ Head(q) \in Responding /\ Head(q).id \in Nat
         /\ x.pending # 0 /\ x.pending \notin Fetches(x)
         /\ Head(q).id = 0 \/ Gone(x, Tail(q), Head(q).id)
         /\ \/ Head(q).id = 0
            \/ Head(q).id = x.pending /\ Fits(Head(q).body, x.session.phase)
            \/ Head(q).id \in Fetches(x) /\ Head(q).body \in SUBSET Blob
<1> DEFINE m == Head(q)
<1>1. x \in Actor /\ Tidy(x, q)
  BY DEF Minds, Healthy
<1>2. m \in Message /\ m = q[1] /\ 1 \in 1 .. Len(q)
  BY Popped, LenProperties
<1>3. m \in Responding /\ m.id \in Nat
  BY <1>2, MessageType
<1>4. m.id = 0 \/ Gone(x, Tail(q), m.id)
  BY <1>1, TidyPopped DEF Gone
<1> HIDE DEF m
<1>5. \/ m.id = 0
      \/ m.id = x.pending /\ Fits(m.body, x.session.phase)
      \/ m.id \in Fetches(x) /\ m.body \in SUBSET Blob
  BY <1>1, <1>2 DEF Tidy, Told, m
<1>6. x.pending # 0
  BY <1>1, ActorType, PeerAssumption
<1> QED BY <1>1, <1>3, <1>4, <1>5, <1>6 DEF Tidy, m

\* Bytes, or an answer to nothing.
LEMMA FollowerFetched ==
  ASSUME scene \in DOMAIN Scenes, NEW x, NEW t, NEW k, Pair(x, t, TRUE, k),
         t.out # <<>>, Head(t.out).kind = "response",
         Head(t.out).id # x.pending
  PROVE  Pair(OnResponse(x, "follower", Head(t.out)), Read(t), TRUE, k)
<1> DEFINE m == Head(t.out)
           inn == Tail(t.out)
           y == OnResponse(x, "follower", m)
           s == Shown(t, "server")
<1>1. /\ Minds(x, inn) /\ Minds(Read(t), x.out) /\ inn \in Seq(Message)
      /\ \A i \in 1 .. Len(x.out) : x.out[i].kind # "frame"
      /\ Minds(x, t.out) /\ t.out \in Seq(Message)
  <2>1. /\ Minds(x, inn) /\ Minds(Read(t), x.out) /\ inn \in Seq(Message)
        /\ \A i \in 1 .. Len(x.out) : x.out[i].kind # "frame"
        /\ t.out \in Seq(Message)
    BY FollowerPops
  <2> QED BY <2>1 DEF Pair
<1>2. /\ m \in Responding
      /\ m.id = 0 \/ Gone(x, inn, m.id)
      /\ \/ m.id = 0
         \/ m.id = x.pending
         \/ m.id \in Fetches(x) /\ m.body \in SUBSET Blob
      /\ m.id # x.pending
  BY <1>1, AnswerOnTop
<1> HIDE DEF m, inn
<1>3. /\ Healthy(y) /\ Waits(y) /\ Tidy(y, inn)
      /\ y.store = x.store /\ y.row = x.row /\ y.session = x.session
      /\ y.pending = x.pending /\ y.watched = x.watched
      /\ y.out = x.out /\ y.missed = x.missed
  BY <1>1, <1>2, FetchKeeps DEF Minds
<1> HIDE DEF y, s
<1>4. Minds(y, inn) /\ Minds(Read(t), y.out)
  BY <1>1, <1>3 DEF Minds
<1>5. Brings(m) \subseteq y.store.held
  BY <1>2 DEF Brings, Responding
<1>6. Knowing(x, s) => Knowing(y, s)
  BY <1>3 DEF Knowing, Cursors
<1>7. s = Shown(t, "server") /\ Grown(x.store, y.store)
  BY <1>3, GrownSame DEF s
<1>8. \A i \in 1 .. Len(y.out) : y.out[i].kind # "frame"
  BY <1>1, <1>3
<1>9. /\ y.row.push \in {x.row.push, 0} /\ x.missed \subseteq y.missed
  BY <1>3
<1>10. Pair(y, Read(t), TRUE, k)
  BY <1>3, <1>4, <1>5, <1>6, <1>7, <1>8, <1>9, FollowerReads DEF m, inn
<1> QED BY <1>10 DEF y, m

\* The answer its session waits for.
LEMMA FollowerAnswered ==
  ASSUME scene \in DOMAIN Scenes, NEW x, NEW t, NEW k, Pair(x, t, TRUE, k),
         t.out # <<>>, Head(t.out).kind = "response",
         Head(t.out).id = x.pending
  PROVE  Pair(OnResponse(x, "follower", Head(t.out)), Read(t), TRUE, k)
<1> DEFINE m == Head(t.out)
           inn == Tail(t.out)
           y == SessionResponse(x, "follower", m.body)
           v == Fed(SideOf(x), m.body)
           u == Read(t)
<1>1. /\ Minds(x, inn) /\ Minds(u, x.out) /\ inn \in Seq(Message)
      /\ Minds(x, t.out) /\ t.out \in Seq(Message) /\ x.out \in Seq(Message)
      /\ Healthy(x) /\ Waits(x) /\ Tidy(x, inn) /\ Healthy(t)
      /\ \A i \in 1 .. Len(x.out) : x.out[i].kind # "frame"
  <2>1. /\ Minds(x, inn) /\ Minds(u, x.out) /\ inn \in Seq(Message)
        /\ \A i \in 1 .. Len(x.out) : x.out[i].kind # "frame"
        /\ t.out \in Seq(Message) /\ x.out \in Seq(Message)
    BY FollowerPops
  <2>2. Healthy(t)
    BY PairTypes
  <2> QED BY <2>1, <2>2 DEF Pair, Minds
<1>2. /\ m \in Responding /\ x.pending # None /\ Gone(x, inn, x.pending)
      /\ Fits(m.body, x.session.phase) /\ x.pending \notin Fetches(x)
  BY <1>1, AnswerOnTop, PeerAssumption
<1>3. OnResponse(x, "follower", m) = y
  BY <1>2 DEF OnResponse, Fetches
<1>4. /\ u.out = inn
      /\ u.store = t.store /\ u.row = t.row /\ u.session = t.session
      /\ u.pending = t.pending /\ u.dirty = t.dirty
      /\ u.watched = t.watched /\ u.follows = t.follows
      /\ u.stirred = t.stirred /\ u.missed = t.missed
  BY <1>1, Shortened DEF Pair, Read
<1>5. x.session.phase # "idle" /\ x.session.pull
  BY <1>1, <1>2 DEF Waits, Pair, Roles
<1> HIDE DEF m, inn, u
<1>6. Went(x, m.body, v, y, inn)
  BY <1>1, <1>2, SessionResponseKeeps
<1>7. /\ Steady(SideOf(x)) /\ SideOf(x).store = x.store
      /\ SideOf(x).session = x.session
  BY <1>1, SideType
<1>8. v = Fed(SideOf(x), m.body)
  OBVIOUS
<1> HIDE DEF y, v
<1>9. /\ Effect(SideOf(x), m.body, v)
      /\ Healthy(y) /\ Waits(y) /\ Tidy(y, inn)
      /\ y.store = v.store /\ y.row = v.row /\ y.session \in {v.session, Idle}
      /\ y.watched = x.watched
      /\ Longer(x.out, y.out, Requesting)
      /\ x.missed \subseteq y.missed
  BY <1>6 DEF Went
<1>10. Minds(y, u.out) /\ Minds(u, y.out) /\ y.out \in Seq(Message)
  <2>1. y.out \in Seq(Message)
    BY <1>9, ActorType DEF Healthy
  <2>2. Minds(u, y.out)
    BY <1>1, <1>9, <2>1, HeedlessKinds, Hears
  <2> QED BY <1>4, <1>9, <2>1, <2>2 DEF Minds
<1>11. Roles(y, u)
  <2>1. y.session.phase # "idle" => y.session.pull
    <3>1. v.session.phase # "idle" => v.session.pull
      BY <1>5, <1>7, <1>9 DEF Effect
    <3> QED BY <1>9, <3>1 DEF Idle
  <2>2. \A i \in 1 .. Len(y.out) : y.out[i].kind # "frame"
    <3>1. \A i \in 1 .. Len(y.out) : i \in 1 .. Len(x.out) \/ i > Len(x.out)
      BY <1>1, <1>10, LenProperties
    <3> QED BY <1>1, <1>9, <3>1 DEF Longer, Requesting
  <2>3. \A i \in 1 .. Len(inn) : inn[i].kind # "watch"
    <3>1. \A i \in 1 .. Len(inn) : inn[i] = t.out[i + 1] /\ i + 1 \in 1 .. Len(t.out)
      BY <1>1, Popped DEF inn
    <3> QED BY <3>1 DEF Pair, Roles
  <2> QED BY <1>4, <1>9, <2>1, <2>2, <2>3 DEF Pair, Roles
<1>12. Ours(y)
  <2>1. Ours(SideOf(x))
    BY <1>7 DEF Pair, Ours
  <2>2. Ours(v)
    BY <1>2, <1>5, <1>7, <1>8, <1>9, <2>1, FedOurs
  <2> QED BY <1>9, <2>2 DEF Ours, Idle
<1>13. ASSUME "gap" \notin y.missed \cup u.missed
       PROVE  Learned(y, inn, Shown(u, "server"))
  <2>1. Learned(x, t.out, Shown(t, "server"))
    BY <1>4, <1>9, <1>13 DEF Pair
  <2>2. Shown(u, "server") = Shown(t, "server")
    BY <1>4 DEF Shown
  <2>3. Sound(Shown(t, "server"))
    BY <1>1, ShownSound
  <2> QED BY <1>1, <1>2, <1>5, <1>6, <2>1, <2>2, <2>3, FedLearns DEF m, inn
<1>14. ASSUME Scene.author = "follower", Scene.relay, k = 0
       PROVE  Taught(y, inn, u.store)
  <2>1. Taught(x, t.out, t.store)
    BY <1>14 DEF Pair
  <2> QED BY <1>1, <1>2, <1>4, <1>6, <2>1, TeachFed DEF m, inn
<1>15. Pair(y, u, TRUE, k)
  BY <1>4, <1>10, <1>11, <1>12, <1>13, <1>14 DEF Pair
<1> QED BY <1>3, <1>15 DEF u, m

LEMMA FollowerHandles ==
  ASSUME scene \in DOMAIN Scenes, NEW x, NEW t, NEW k, Pair(x, t, TRUE, k),
         t.out # <<>>, NEW j \in 0 .. Len(Carried(Head(t.out)))
  PROVE  LET m == Head(t.out)
         IN  /\ m.kind = "request" =>
                  Pair(OnRequest(x, "follower", m, j), Read(t), TRUE, k)
             /\ m.kind = "response" =>
                  Pair(OnResponse(x, "follower", m), Read(t), TRUE, k)
             /\ m.kind = "frame" =>
                  Pair(OnFrame(x, "follower", m), Read(t), TRUE, k)
             /\ m.kind \in {"request", "response", "frame"}
<1>1. Head(t.out).kind \in {"request", "response", "frame"}
  <2>1. Head(t.out) \in Message /\ Head(t.out).kind # "watch"
    BY FollowerPops
  <2> QED BY <2>1, MessageType
<1>2. Head(t.out).kind = "response" =>
        Pair(OnResponse(x, "follower", Head(t.out)), Read(t), TRUE, k)
  BY FollowerFetched, FollowerAnswered
<1> QED BY <1>1, <1>2, FollowerAsked, FollowerFramed

\* A disk that fails once more excuses more.
LEMMA PairFaults ==
  ASSUME NEW x, NEW t, NEW on, NEW k \in Nat, Pair(x, t, on, k)
  PROVE  Pair(x, t, on, k + 1)
<1>1. k + 1 # 0
  OBVIOUS
<1> QED BY <1>1 DEF Pair

\* A message read by a turn that fails.
LEMMA FollowerFails ==
  ASSUME scene \in DOMAIN Scenes, NEW x, NEW t, NEW k \in Nat,
         Pair(x, t, TRUE, k), t.out # <<>>,
         NEW y, Minds(y, Tail(t.out)), y.out = x.out, y.watched = x.watched,
         Grown(x.store, y.store), x.missed \subseteq y.missed,
         y.session \in {x.session, Idle},
         NEW s, s = Shown(t, "server"),
         "gap" \notin y.missed /\ Learned(x, t.out, s) =>
           Learned(y, Tail(t.out), s)
  PROVE  Pair(y, Read(t), TRUE, k + 1)
<1> DEFINE u == Read(t)
           r == Tail(t.out)
<1>1. /\ Minds(u, x.out) /\ r \in Seq(Message) /\ t.out \in Seq(Message)
      /\ \A i \in 1 .. Len(x.out) : x.out[i].kind # "frame"
  BY FollowerPops
<1>2. /\ u.out = r
      /\ u.store = t.store /\ u.session = t.session
      /\ u.pending = t.pending /\ u.dirty = t.dirty
      /\ u.watched = t.watched /\ u.follows = t.follows
      /\ u.stirred = t.stirred /\ u.missed = t.missed
  BY Shortened DEF Pair, Minds, Read
<1>3. \A i \in 1 .. Len(r) : r[i] = t.out[i + 1] /\ i + 1 \in 1 .. Len(t.out)
  BY <1>1, Popped
<1> HIDE DEF u, r
<1>4. Minds(y, u.out) /\ Minds(u, y.out)
  BY <1>1, <1>2 DEF r
<1>5. Roles(y, u)
  <2>1. \A i \in 1 .. Len(r) : r[i].kind # "watch"
    BY <1>3 DEF Pair, Roles
  <2>2. y.session.phase # "idle" => y.session.pull
    BY IdleType DEF Pair, Roles
  <2> QED BY <1>1, <1>2, <2>1, <2>2 DEF Pair, Roles
<1>6. Ours(y)
  BY IdleType DEF Pair, Ours, Grown
<1>7. ASSUME "gap" \notin y.missed \cup u.missed
      PROVE  Learned(y, u.out, Shown(u, "server"))
  <2>1. Learned(x, t.out, s)
    BY <1>2, <1>7 DEF Pair
  <2>2. Shown(u, "server") = s
    BY <1>2 DEF Shown
  <2> QED BY <1>2, <1>7, <2>1, <2>2 DEF r
<1>8. k + 1 # 0
  OBVIOUS
<1>9. Pair(y, u, TRUE, k + 1)
  BY <1>4, <1>5, <1>6, <1>7, <1>8 DEF Pair
<1> QED BY <1>9 DEF u

\* A frame its disk takes only in part.
LEMMA FollowerUnframed ==
  ASSUME scene \in DOMAIN Scenes, NEW t, NEW k \in Nat,
         Pair(Follower, t, TRUE, k), t.out # <<>>, Head(t.out).kind = "frame",
         NEW j \in 0 .. Len(Head(t.out).body.events)
  PROVE  Pair(FrameFails(Follower, Head(t.out), j), Read(t), TRUE, k + 1)
<1> DEFINE x == Follower
           m == Head(t.out)
           r == Tail(t.out)
           q == SubSeq(m.body.events, 1, j)
           u == IngestAll(x.store, q)
           more == x.missed \cup Gap
           y == FrameFails(x, m, j)
           s == Shown(t, "server")
<1>1. /\ Minds(x, r) /\ r \in Seq(Message) /\ m \in Framing /\ x \in Actor
      /\ t.out \in Seq(Message)
  <2>1. /\ Minds(x, r) /\ r \in Seq(Message) /\ m \in Message /\ x \in Actor
        /\ t.out \in Seq(Message)
    BY FollowerPops
  <2> QED BY <2>1, MessageType
<1>2. q \in Seq(Event)
  <2>1. m.body.events \in Seq(Event)
    BY <1>1 DEF Framing, News
  <2>2. j \in 0 .. Len(m.body.events)
    OBVIOUS
  <2> HIDE DEF m
  <2> QED BY <2>1, <2>2, SubSeqProperties, LenProperties
<1>3. Healthy(x) /\ Waits(x) /\ Tidy(x, r) /\ Stocked(x.store)
  BY <1>1 DEF Minds, Healthy, Stocked
<1> HIDE DEF q
<1>4. Stocked(u) /\ Grown(x.store, u)
  BY <1>2, <1>3, IngestAllStocks
<1>5. /\ more \in SUBSET {"response", "request", "push", "gap"}
      /\ x.missed \subseteq more
      /\ "gap" \notin more => ~Reconciling
  BY <1>1, ActorType DEF Gap
<1>6. y = [x EXCEPT !.store = u, !.missed = more]
  BY <1>1 DEF FrameFails, Actor, q
<1> HIDE DEF u, more, y
<1>7. u \in Store
  BY <1>4 DEF Stocked, Sound
<1>8. /\ y \in Actor /\ y.store = u /\ y.missed = more /\ y.out = x.out
      /\ y.fetching = x.fetching /\ y.row = x.row /\ y.session = x.session
      /\ y.pending = x.pending /\ y.watched = x.watched
  BY <1>1, <1>5, <1>6, <1>7 DEF Actor
<1>9. Minds(y, r)
  BY <1>1, <1>3, <1>4, <1>8, ChangeKeeps DEF Minds
<1>10. ~Reconciling => ~Chases(x.session) /\ x.session.phase # "hashes"
  BY DEF Reconciling, Chases, Follower
<1>11. x.store.held \subseteq y.store.held
  BY <1>4, <1>8 DEF Grown
<1> HIDE DEF x, s
<1>12. "gap" \notin y.missed /\ Learned(x, t.out, s) => Learned(y, r, s)
  BY <1>1, <1>5, <1>8, <1>10, <1>11, LearnLost
<1>13. s = Shown(t, "server") /\ Pair(x, t, TRUE, k)
  BY DEF s, x
<1>14. Pair(y, Read(t), TRUE, k + 1)
  BY <1>4, <1>5, <1>8, <1>9, <1>12, <1>13, FollowerFails
<1> QED BY <1>14 DEF y, x

\* An answer its disk takes only in part, or not at all.
LEMMA FollowerUnanswered ==
  ASSUME scene \in DOMAIN Scenes, NEW x, NEW t, NEW k \in Nat,
         Pair(x, t, TRUE, k), t.out # <<>>, Head(t.out).kind = "response",
         Head(t.out).id = x.pending,
         NEW j \in Writes(x.session, Head(t.out).body)
  PROVE  Pair(SessionFails(x, Head(t.out).body, j), Read(t), TRUE, k + 1)
<1> DEFINE m == Head(t.out)
           a == m.body
           r == Tail(t.out)
           q == SubSeq(a, 1, j)
           took == x.session.phase \in {"pull", "claims"}
           u == IF took THEN IngestAll(x.store, q) ELSE x.store
           c == IF x.session.phase = "status" /\ j = 1 THEN Recalled(x.row, a)
                ELSE x.row
           y == SessionFails(x, a, j)
           s == Shown(t, "server")
<1>1. /\ Minds(x, r) /\ r \in Seq(Message) /\ x \in Actor
      /\ t.out \in Seq(Message) /\ t \in Actor /\ Minds(x, t.out)
  <2>1. /\ Minds(x, r) /\ r \in Seq(Message) /\ x \in Actor
        /\ t.out \in Seq(Message) /\ t \in Actor
    BY FollowerPops
  <2> QED BY <2>1 DEF Pair
<1>2. /\ x.pending # None /\ Gone(x, r, x.pending)
      /\ Fits(a, x.session.phase)
  BY <1>1, AnswerOnTop, PeerAssumption
<1>3. Healthy(x) /\ Waits(x) /\ Tidy(x, r) /\ Stocked(x.store)
  BY <1>1 DEF Minds, Healthy, Stocked
<1>4. /\ took => a \in Seq(Event)
      /\ x.session.phase = "status" => a \in Status
  <2>1. x.session.phase # "idle"
    BY <1>2, <1>3 DEF Waits
  <2>2. /\ Steady(SideOf(x)) /\ SideOf(x).session = x.session
    BY <1>1, <1>3, SideType
  <2> HIDE DEF a
  <2> QED BY <1>2, <2>1, <2>2, FedEffect
<1> HIDE DEF a, m
<1>5. took => q \in Seq(Event)
  <2> SUFFICES ASSUME took PROVE q \in Seq(Event)
    OBVIOUS
  <2>1. a \in Seq(Event) /\ Len(a) \in Nat
    BY <1>4, LenProperties
  <2>2. j \in 0 .. Len(a)
    <3>1. j \in 0 .. Len(a) \/ j \in 0 .. Len(a) - 1
      BY DEF Writes, a, m
    <3> QED BY <2>1, <3>1
  <2> QED BY <2>1, <2>2, SubSeqProperties
<1> HIDE DEF q
<1>6. Stocked(u) /\ Grown(x.store, u)
  <2>1. CASE took
    BY <1>3, <1>5, <2>1, IngestAllStocks
  <2>2. CASE ~took
    BY <1>3, <2>2, GrownSame
  <2> QED BY <2>1, <2>2
<1>7. c \in Cursor /\ (c = x.row \/ (Zero(c) /\ c.settled = None))
  <2>1. x.row \in Cursor
    BY <1>1, ActorType
  <2>2. ASSUME a \in Status
        PROVE  LET d == FreshCursor(a.instance)
               IN  d \in Cursor /\ Zero(d) /\ d.settled = None
    BY <2>2, PeerAssumption DEF FreshCursor, Cursor, Status, Zero
  <2> QED BY <1>4, <2>1, <2>2 DEF Recalled
<1>8. y = [x EXCEPT !.store = u, !.row = c, !.session = Idle,
                    !.pending = None, !.stirred = FALSE]
  BY <1>1 DEF SessionFails, Actor, q
<1> DEFINE rest == Idle
<1>9. rest \in Session /\ rest.phase = "idle" /\ rest = Idle
  BY IdleType
<1> HIDE DEF u, c, y, took, rest
<1>10. u \in Store
  BY <1>6 DEF Stocked, Sound
<1>11. /\ y \in Actor /\ y.store = u /\ y.missed = x.missed /\ y.out = x.out
       /\ y.fetching = x.fetching /\ y.row = c /\ y.session = rest
       /\ y.pending = None /\ y.watched = x.watched
  <2>1. y = [x EXCEPT !.store = u, !.row = c, !.session = rest,
                      !.pending = None, !.stirred = FALSE]
    BY <1>8, <1>9
  <2> QED BY <1>1, <1>7, <1>9, <1>10, <2>1 DEF Actor
<1>12. Minds(y, r)
  <2>1. Ready(y.session, y.store)
    BY <1>9, <1>11 DEF Ready
  <2>2. Healthy(y) /\ Waits(y)
    BY <1>3, <1>6, <1>9, <1>11, <2>1 DEF Healthy, Waits, Stocked
  <2>3. Tidy(y, r)
    BY <1>1, <1>2, <1>3, <1>11, TidyDone
  <2> QED BY <2>2, <2>3 DEF Minds
<1>13. Grown(x.store, y.store) /\ x.store.held \subseteq y.store.held
  BY <1>6, <1>11 DEF Grown
<1>14. Sound(s)
  BY ShownSound, PairTypes
<1> HIDE DEF s
<1>15. "gap" \notin y.missed /\ Learned(x, t.out, s) => Learned(y, r, s)
  BY <1>1, <1>7, <1>9, <1>11, <1>13, <1>14, LearnDropped
<1>16. y.session \in {x.session, Idle} /\ x.missed \subseteq y.missed
  BY <1>9, <1>11
<1>17. s = Shown(t, "server")
  BY DEF s
<1>18. Pair(y, Read(t), TRUE, k + 1)
  BY <1>11, <1>12, <1>13, <1>15, <1>16, <1>17, FollowerFails
<1> QED BY <1>18 DEF y, a, m

\* There are messages only over a connection.
LEMMA Connected ==
  ASSUME PeerInv, Server.out # <<>> \/ Follower.out # <<>>
  PROVE  up = TRUE /\ Pair(Follower, Server, TRUE, faults)
BY DEF PeerInv, Pair, Off

\* The follower has read a message, and pumps.
LEMMA FollowerEnds ==
  ASSUME PeerInv, NEW y, Pair(y, Read(Server), TRUE, faults'),
         Consumed("follower", y), up' = TRUE
  PROVE  \E x, t : Goes(x, t)
<1> DEFINE t == Server
           z == Pump(y, "follower")
<1>1. scene \in DOMAIN Scenes
  BY DEF PeerInv
<1>2. node' = [node EXCEPT !["follower"] = z, !["server"].out = Tail(@)]
  BY OtherType DEF Consumed
<1>3. Pair(z, Read(t), TRUE, faults')
  BY <1>1, FollowerPumps
<1> HIDE DEF z
<1>4. Became(z, Read(t))
  BY <1>2, OtherType DEF PeerInv, Became, Read, Server
<1> QED BY <1>3, <1>4 DEF Goes

\* The follower's turn on a message.
LEMMA FollowerConsumes ==
  ASSUME PeerInv, Inbox("follower") # <<>>,
         NEW j \in 0 .. Len(Carried(Head(Inbox("follower")))),
         Consumed("follower", Handled("follower", Head(Inbox("follower")), j)),
         up' = up, faults' \in {faults, faults + 1}
  PROVE  \E x, t : Goes(x, t)
<1> DEFINE x == Follower
           t == Server
           m == Head(t.out)
           y == Handled("follower", m, j)
<1>1. Inbox("follower") = t.out /\ t.out # <<>>
  BY OtherType DEF Inbox, Server
<1>2. /\ Pair(x, t, TRUE, faults) /\ scene \in DOMAIN Scenes /\ faults \in Nat
      /\ up = TRUE
  <2>1. scene \in DOMAIN Scenes /\ faults \in 0 .. Scene.faults
    BY DEF PeerInv
  <2>2. faults \in Nat
    BY <2>1, SceneType
  <2>3. up = TRUE /\ Pair(x, t, TRUE, faults)
    BY <1>1, Connected
  <2> HIDE DEF x, t
  <2> QED BY <2>1, <2>2, <2>3
<1>3. Pair(y, Read(t), TRUE, faults)
  <2>1. /\ m.kind = "request" =>
             Pair(OnRequest(x, "follower", m, j), Read(t), TRUE, faults)
        /\ m.kind = "response" =>
             Pair(OnResponse(x, "follower", m), Read(t), TRUE, faults)
        /\ m.kind = "frame" =>
             Pair(OnFrame(x, "follower", m), Read(t), TRUE, faults)
        /\ m.kind \in {"request", "response", "frame"}
    BY <1>1, <1>2, FollowerHandles
  <2>2. node["follower"] = x
    BY DEF Follower
  <2> HIDE DEF m, x, t
  <2>3. CASE m.kind = "request"
    BY <2>1, <2>2, <2>3 DEF Handled
  <2>4. CASE m.kind = "response"
    BY <2>1, <2>2, <2>4 DEF Handled
  <2>5. CASE m.kind = "frame"
    BY <2>1, <2>2, <2>5 DEF Handled
  <2> QED BY <2>1, <2>3, <2>4, <2>5
<1>4. Consumed("follower", y)
  BY <1>1
<1> HIDE DEF y, m
<1>5. Pair(y, Read(t), TRUE, faults')
  BY <1>2, <1>3, PairFaults
<1> QED BY <1>2, <1>4, <1>5, FollowerEnds

\* Or its disk fails on the way.
LEMMA FollowerFaulters ==
  ASSUME PeerInv, Inbox("follower") # <<>>, up' = up, faults' = faults + 1,
         LET m == Head(Inbox("follower"))
             x == node["follower"]
         IN  \/ /\ m.kind = "frame"
                /\ \E j \in 0 .. Len(m.body.events) :
                     Consumed("follower", FrameFails(x, m, j))
             \/ /\ m.kind = "response" /\ m.id = x.pending
                /\ \E j \in Writes(x.session, m.body) :
                     Consumed("follower", SessionFails(x, m.body, j))
  PROVE  \E x, t : Goes(x, t)
<1> DEFINE x == Follower
           t == Server
           m == Head(t.out)
<1>1. Inbox("follower") = t.out /\ t.out # <<>> /\ node["follower"] = x
  BY OtherType DEF Inbox, Server, Follower
<1>2. /\ Pair(x, t, TRUE, faults) /\ scene \in DOMAIN Scenes /\ faults \in Nat
      /\ up = TRUE
  <2>1. scene \in DOMAIN Scenes /\ faults \in 0 .. Scene.faults
    BY DEF PeerInv
  <2>2. faults \in Nat
    BY <2>1, SceneType
  <2>3. up = TRUE /\ Pair(x, t, TRUE, faults)
    BY <1>1, Connected
  <2> HIDE DEF x, t
  <2> QED BY <2>1, <2>2, <2>3
<1>3. ASSUME m.kind = "frame", NEW j \in 0 .. Len(m.body.events),
             Consumed("follower", FrameFails(x, m, j))
      PROVE  \E z, u : Goes(z, u)
  <2>1. Pair(FrameFails(x, m, j), Read(t), TRUE, faults')
    BY <1>1, <1>2, <1>3, FollowerUnframed
  <2> QED BY <1>2, <1>3, <2>1, FollowerEnds
<1>4. ASSUME m.kind = "response", m.id = x.pending,
             NEW j \in Writes(x.session, m.body),
             Consumed("follower", SessionFails(x, m.body, j))
      PROVE  \E z, u : Goes(z, u)
  <2>1. Pair(SessionFails(x, m.body, j), Read(t), TRUE, faults')
    BY <1>1, <1>2, <1>4, FollowerUnanswered
  <2> QED BY <1>2, <1>4, <2>1, FollowerEnds
<1> QED BY <1>1, <1>3, <1>4

-----------------------------------------------------------------------------
(* The server's turns *)

\* A frame that has just been made is true.
LEMMA FrameTrue ==
  ASSUME NEW x, Healthy(x)
  PROVE  \A q : True(Frame(x, q), x.store)
<1>1. Sound(x.store) /\ x.store \in Store
  BY ActorType DEF Healthy
<1>2. Count(x.store) \in Nat
  BY <1>1, CountType
<1>3. Listed(Digest(x.store)) = LogRows(x.store, TheLog)
  BY <1>1, ListedDigest
<1>4. Before(x.store, Count(x.store)) \subseteq LogRows(x.store, TheLog)
  BY DEF Before
<1> QED BY <1>2, <1>3, <1>4 DEF True, Frame

\* What the server says anew is worth what x relies on, and it says enough.
Tidings(x, t, w) ==
  /\ New(x, t.out, w.out, Shown(w, "server"))
  /\ Chases(x.session) \/ x.session.phase = "hashes" =>
       LogRows(Shown(w, "server"), TheLog) \subseteq
         LogRows(Shown(t, "server"), TheLog) \cup x.store.held \cup Coming(w.out)

\* What it acknowledges it holds.
Receipts(x, t, w) ==
  \A i \in 1 .. Len(w.out) : w.out[i].kind = "response" =>
    \/ \E j \in 1 .. Len(t.out) : t.out[j] = w.out[i]
    \/ w.out[i].id # x.pending
    \/ x.session.phase = "publish" =>
         Ids(First(x.session.batch)) \subseteq w.store.held

\* Its log may grow, its channel too.
Acted(t, w) ==
  /\ Grown(t.store, w.store) /\ t.missed \subseteq w.missed
  /\ w.session = t.session /\ w.pending = t.pending /\ w.dirty = t.dirty
  /\ w.follows = t.follows /\ w.stirred = t.stirred
  /\ w.watched => Serves("server")
  /\ Longer(t.out, w.out, Message \ Watching)

\* y is x, its channel read or not.
Alike(x, y) ==
  /\ y.store = x.store /\ y.row = x.row /\ y.session = x.session
  /\ y.pending = x.pending /\ y.watched = x.watched
  /\ y.follows = x.follows /\ y.missed = x.missed

LEMMA ServerActs ==
  ASSUME scene \in DOMAIN Scenes,
         NEW x, NEW t, NEW on, NEW k, Pair(x, t, on, k),
         NEW y, NEW w, Minds(y, w.out), Minds(w, y.out),
         Alike(x, y), Acted(t, w),
         \A i \in 1 .. Len(y.out) : y.out[i].kind # "frame",
         ~on => y.out = x.out /\ w.out = t.out /\ w.watched = t.watched,
         "gap" \notin x.missed \cup w.missed
           /\ Learned(x, t.out, Shown(t, "server")) => Tidings(x, t, w),
         Scene.author = "follower" /\ Scene.relay /\ k = 0 => Receipts(x, t, w)
  PROVE  Pair(y, w, on, k)
<1>1. /\ t.out \in Seq(Message) /\ Healthy(x) /\ Healthy(t)
      /\ w.out \in Seq(Message) /\ Healthy(y) /\ Healthy(w)
  BY PairTypes, ActorType DEF Minds, Healthy
<1>2. Roles(y, w)
  <2>1. \A i \in 1 .. Len(w.out) : w.out[i].kind # "watch"
    <3>1. \A i \in 1 .. Len(t.out) : t.out[i].kind # "watch"
      BY DEF Pair, Roles
    <3>2. \A i \in 1 .. Len(w.out) : i \in 1 .. Len(t.out) \/ i > Len(t.out)
      BY <1>1, LenProperties
    <3>3. \A m \in Message \ Watching : m.kind # "watch"
      BY MessageType
    <3> QED BY <3>1, <3>2, <3>3 DEF Longer, Acted
  <2> QED BY <2>1 DEF Pair, Roles, Alike, Acted
<1>3. Ours(y)
  BY DEF Pair, Ours, Alike
<1>4. ~on => Off(y, w)
  BY DEF Pair, Off, Alike, Acted
<1>5. ASSUME "gap" \notin y.missed \cup w.missed
      PROVE  Learned(y, w.out, Shown(w, "server"))
  <2> DEFINE s == Shown(t, "server")
             u == Shown(w, "server")
             q == t.out
             r == w.out
  <2>1. Learned(x, q, s)
    BY <1>5 DEF Pair, Alike, Acted
  <2>2. Tidings(x, t, w)
    BY <1>5, <2>1 DEF Alike
  <2>3. Sound(s) /\ Sound(u)
    BY <1>1, ShownSound
  <2>4. Grown(s, u)
    BY GrownSame DEF Acted, Shown
  <2>5. /\ New(x, q, r, u)
        /\ Chases(x.session) \/ x.session.phase = "hashes" =>
             LogRows(u, TheLog) \subseteq
               LogRows(s, TheLog) \cup x.store.held \cup Coming(r)
    BY <2>2 DEF Tidings
  <2>6. Longer(q, r, Message \ Watching) /\ q \in Seq(Message) /\ r \in Seq(Message)
    BY <1>1 DEF Acted
  <2>7. /\ y.store = x.store /\ y.row = x.row /\ y.session = x.session
        /\ y.pending = x.pending
    BY DEF Alike
  <2> HIDE DEF s, u, q, r
  <2>8. Learned(y, r, u)
    BY <1>1, <2>1, <2>3, <2>4, <2>5, <2>6, <2>7, LearnHears
  <2> QED BY <2>8 DEF r, u
<1>6. ASSUME Scene.author = "follower", Scene.relay, k = 0
      PROVE  Taught(y, w.out, w.store)
  <2> DEFINE r == w.out
             q == t.out
             s == t.store
             u == w.store
  <2>1. Taught(x, q, s)
    BY <1>6 DEF Pair
  <2>2. \A i \in 1 .. Len(r) : r[i].kind = "response" =>
          \/ \E j \in 1 .. Len(q) : q[j] = r[i]
          \/ r[i].id # x.pending
          \/ x.session.phase = "publish" =>
               Ids(First(x.session.batch)) \subseteq u.held
    BY <1>6 DEF Receipts
  <2>3. Grown(x.store, y.store) /\ s.held \subseteq u.held
    BY GrownSame DEF Alike, Acted, Grown
  <2>4. y.row.push \in {x.row.push, 0}
    BY DEF Alike
  <2>5. y.session = x.session /\ y.pending = x.pending
    BY DEF Alike
  <2> HIDE DEF r, q, s, u
  <2>6. Taught(y, r, u)
    BY ONLY <1>1, <2>1, <2>2, <2>3, <2>4, <2>5, TeachMoves
  <2> QED BY <2>6 DEF r, u
<1> QED BY <1>2, <1>3, <1>4, <1>5, <1>6 DEF Pair

\* What the server's claims put on its channel.
LEMMA ServerReports ==
  ASSUME PeerInv, NEW w, Minds(w, Follower.out),
         Grown(Server.store, w.store), Server.missed \subseteq w.missed,
         w.session = Server.session, w.pending = Server.pending, ~w.dirty,
         w.follows = Server.follows, w.stirred = Server.stirred,
         w.watched = Server.watched,
         NEW q \in Seq(Event), Reports(Server, w, q),
         w.store.held \subseteq Server.store.held \cup Ids(q)
  PROVE  Pair(Follower, w, up, faults)
<1> DEFINE x == Follower
           t == Server
           f == Msg("frame", 0, Frame(w, q))
           pre == Append(t.out, f)
           u == Shown(w, "server")
<1>1. /\ Pair(x, t, up, faults) /\ scene \in DOMAIN Scenes
  BY DEF PeerInv
<1>2. /\ x.out \in Seq(Message) /\ t.out \in Seq(Message)
      /\ Healthy(x) /\ Healthy(w) /\ w.out \in Seq(Message)
      /\ Minds(x, t.out)
  BY <1>1, PairTypes, ActorType DEF Minds, Healthy, Pair
<1>3. /\ Longer(t.out, w.out, Framing \cup Putting)
      /\ ~t.watched => w.out = t.out
      /\ \/ t.watched /\ Longer(pre, w.out, Putting)
         \/ "gap" \in w.missed
         \/ Longer(t.out, w.out, Putting) /\ ~(Reconciling /\ ~t.follows)
  BY DEF Reports
<1>4. /\ t.watched => Serves("server")
      /\ ~t.follows /\ ~t.dirty
      /\ ~up => /\ ~t.watched /\ x.session.phase = "idle"
      /\ \A i \in 1 .. Len(x.out) : x.out[i].kind # "frame"
  BY <1>1 DEF Pair, Roles, Off
<1>5. f \in Framing /\ f \in Message /\ f.body = Frame(w, q)
      /\ f.kind = "frame" /\ Frame(w, q).events = q
  BY <1>2, FrameType
<1>6. ~Reconciling => ~(Chases(x.session) \/ x.session.phase = "hashes")
  BY DEF Reconciling, Chases, Follower
<1> HIDE DEF x, t, f
<1>7. Framing \cup Putting \subseteq Message \ Watching
  BY MessageType DEF Framing, Putting, Requesting, Watching, Message
<1>8. Acted(t, w)
  <2>1. Longer(t.out, w.out, Message \ Watching)
    BY <1>3, <1>7, LongerWider
  <2>2. w.dirty = t.dirty
    <3>1. w.dirty \in BOOLEAN /\ t.dirty \in BOOLEAN /\ ~w.dirty /\ ~t.dirty
      BY <1>1, <1>2, <1>4, PairTypes, ActorType DEF Healthy
    <3> QED BY <3>1
  <2> QED BY <1>4, <2>1, <2>2 DEF Acted, t
<1>9. Minds(x, w.out)
  <2>1. Framing \cup Putting \in SUBSET Heedless
    BY HeedlessKinds DEF Putting
  <2> QED BY <1>2, <1>3, <2>1, Hears
<1>10. /\ pre \in Seq(Message) /\ Len(pre) = Len(t.out) + 1
       /\ pre[Len(pre)] = f /\ Len(t.out) \in Nat
  BY <1>2, <1>5, AppendProperties, LenProperties
<1> HIDE DEF pre, u
<1>11. ASSUME "gap" \notin w.missed
       PROVE  Tidings(x, t, w)
  <2>1. /\ \A i \in 1 .. Len(w.out) : i > Len(t.out) => w.out[i] \in Framing \cup Putting
        /\ \A i \in Putting : i.kind = "request"
        /\ \A i \in Framing : i.kind = "frame"
    BY <1>3 DEF Longer, Putting, Requesting, Framing
  <2>2. CASE t.watched /\ Longer(pre, w.out, Putting)
    <3>1. u = w.store
      BY <1>4, <2>2 DEF u, Shown
    <3>2. True(f.body, u)
      BY <1>2, <1>5, <3>1, FrameTrue
    <3>3. /\ Len(pre) <= Len(w.out) /\ Len(w.out) \in Nat
          /\ w.out[Len(pre)] = f /\ Len(pre) \in 1 .. Len(w.out)
      BY <1>2, <1>10, <2>2, LenProperties DEF Longer
    <3>4. \A i \in 1 .. Len(w.out) : i > Len(t.out) => i = Len(pre) \/ i > Len(pre)
      BY <1>10
    <3>5. \A i \in 1 .. Len(w.out) : i > Len(t.out) =>
            w.out[i] = f \/ w.out[i] \in Putting
      BY <2>2, <3>3, <3>4 DEF Longer
    <3>6. New(x, t.out, w.out, u)
      BY <1>5, <2>1, <3>2, <3>5 DEF New
    <3>7. Brings(f) = Ids(q)
      BY <1>5 DEF Brings
    <3>8. Ids(q) \subseteq Coming(w.out)
      BY <1>2, <3>3, <3>7, ComingParts
    <3>9. Shown(t, "server") = t.store
      BY <1>4, <2>2 DEF Shown
    <3>10. LogRows(u, TheLog) \subseteq LogRows(t.store, TheLog) \cup Ids(q)
      BY <3>1 DEF LogRows, t
    <3> QED BY <3>6, <3>8, <3>9, <3>10 DEF Tidings, u
  <2>3. CASE Longer(t.out, w.out, Putting) /\ ~(Reconciling /\ ~t.follows)
    <3>1. ~(Chases(x.session) \/ x.session.phase = "hashes")
      BY <1>4, <1>6, <2>3
    <3>2. New(x, t.out, w.out, u)
      BY <2>1, <2>3 DEF New, Longer
    <3> QED BY <3>1, <3>2 DEF Tidings, u
  <2> QED BY <1>3, <1>11, <2>2, <2>3
<1>12. Receipts(x, t, w)
  <2>1. \A i \in 1 .. Len(w.out) :
          w.out[i].kind = "response" => i \in 1 .. Len(t.out) /\ w.out[i] = t.out[i]
    <3>1. \A m \in Framing \cup Putting : m.kind # "response"
      BY DEF Framing, Putting, Requesting
    <3>2. \A i \in 1 .. Len(w.out) : i \in 1 .. Len(t.out) \/ i > Len(t.out)
      BY <1>10
    <3> QED BY <1>3, <3>1, <3>2 DEF Longer
  <2> QED BY <2>1 DEF Receipts
<1>13. Alike(x, x)
  BY DEF Alike
<1>14. /\ Minds(w, x.out)
       /\ ~up => x.out = x.out /\ w.out = t.out /\ w.watched = t.watched
  BY <1>3, <1>4 DEF x, t
<1>15. Pair(x, w, up, faults)
  BY <1>1, <1>4, <1>8, <1>9, <1>11, <1>12, <1>13, <1>14, ServerActs
<1> QED BY <1>15 DEF x

LEMMA TellsReports ==
  ASSUME NEW t, NEW v, NEW w, NEW q \in Seq(Event), Tells(v, w, q),
         Healthy(v), Healthy(w), Healthy(t),
         v.out = t.out, v.watched = t.watched, v.follows = t.follows
  PROVE  Reports(t, w, q)
<1> DEFINE f == Msg("frame", 0, Frame(w, q))
           g == Msg("frame", 0, Frame(v, q))
<1>1. w.store = v.store /\ Longer(t.out, w.out, Framing)
  BY DEF Tells, Puts
<1>2. f = g
  BY <1>1 DEF Frame
<1>3. w.out \in Seq(Message) /\ Longer(w.out, w.out, Putting)
  BY ActorType, LongerSame DEF Healthy
<1>4. Longer(t.out, w.out, Framing \cup Putting)
  BY <1>1, LongerWider
<1>5. \/ t.watched /\ w.out = Append(t.out, g)
      \/ w.out = t.out /\ (Reconciling /\ ~t.follows => "gap" \in w.missed)
  BY DEF Tells
<1> HIDE DEF f, g
<1>6. \/ t.watched /\ Longer(Append(t.out, f), w.out, Putting)
      \/ "gap" \in w.missed
      \/ Longer(t.out, w.out, Putting) /\ ~(Reconciling /\ ~t.follows)
  BY <1>2, <1>3, <1>5
<1>7. ~t.watched => w.out = t.out
  BY <1>5
<1> QED BY <1>4, <1>6, <1>7 DEF Reports, f

LEMMA ServerTurns ==
  ASSUME PeerInv, NEW w, Pair(Follower, w, up, faults), Turn("server", w),
         up' = up, faults' = faults
  PROVE  \E t : Goes(Follower, t)
<1>1. ~w.dirty
  BY DEF Pair, Roles
<1>2. Pump(w, "server") = w
  BY <1>1 DEF Pump
<1>3. node' = [node EXCEPT !["server"] = w]
  BY <1>2 DEF Turn
<1>4. Became(Follower, w)
  BY <1>3, OtherType DEF PeerInv, Became, Follower
<1> QED BY <1>4 DEF Goes

\* A change of the server's that lands, reported or not.
LEMMA ServerLands ==
  ASSUME PeerInv, NEW v, Healthy(v), Waits(v), Tidy(v, Follower.out),
         Grown(Server.store, v.store), v.missed = Server.missed,
         v.session = Server.session, v.pending = Server.pending,
         v.dirty = Server.dirty, v.follows = Server.follows,
         v.stirred = Server.stirred, v.watched = Server.watched,
         v.out = Server.out,
         NEW q \in Seq(Event), v.store.held \subseteq Server.store.held \cup Ids(q),
         NEW w, w \in {Landed(v, q), Untold(v)}
  PROVE  Pair(Follower, w, up, faults)
<1> DEFINE x == Follower
           t == Server
           inn == x.out
<1>1. /\ Pair(x, t, up, faults) /\ scene \in DOMAIN Scenes
  BY DEF PeerInv
<1>2. inn \in Seq(Message) /\ Healthy(t)
  BY <1>1, PairTypes
<1>3. Tidy(v, inn)
  OBVIOUS
<1> HIDE DEF inn
<1>9. ~t.dirty
  BY <1>1 DEF Pair, Roles
<1>4. Healthy(w) /\ Waits(w) /\ Tidy(w, inn) /\ Tells(v, w, q)
  BY <1>1, <1>2, <1>3, LandedKeeps, UntoldKeeps
<1>5. Reports(t, w, q)
  BY <1>2, <1>4, TellsReports
<1>6. /\ w.store = v.store /\ v.missed \subseteq w.missed
      /\ w.session = v.session /\ w.pending = v.pending /\ w.dirty = v.dirty
      /\ w.follows = v.follows /\ w.stirred = v.stirred
      /\ w.watched = v.watched
  BY <1>4 DEF Tells, Puts
<1>7. Minds(w, x.out)
  BY <1>4 DEF Minds, inn
<1>8. Pair(x, w, up, faults)
  BY <1>5, <1>6, <1>7, <1>9, ServerReports
<1> QED BY <1>8 DEF x

LEMMA HeardKeeps ==
  ASSUME PeerInv, NEW e \in Scene.heard, Heard(e) \/ HeardInSession(e)
  PROVE  \E t : Goes(Follower, t)
<1> DEFINE x == Follower
           t == Server
           v == Takes(t, t.blobs, e)
           q == <<e>>
           inn == x.out
<1>1. /\ Pair(x, t, up, faults) /\ scene \in DOMAIN Scenes /\ e \in Event
  BY SceneType DEF PeerInv
<1>2. /\ t \in Actor /\ Healthy(t) /\ Waits(t) /\ Tidy(t, inn)
      /\ inn \in Seq(Message) /\ t.blobs \in SUBSET Blob
  BY <1>1, PairTypes, ActorType
<1>3. /\ Turn("server", Landed(v, q)) \/ Turn("server", Untold(v))
      /\ up' = up /\ faults' = faults
  <2>1. v = [t EXCEPT !.store = Ingest(@, e)]
    BY <1>2 DEF Takes, Actor
  <2> QED BY <2>1 DEF Heard, HeardInSession, Server
<1> HIDE DEF x, t, v, inn
<1>4. /\ Healthy(v) /\ Waits(v) /\ Tidy(v, inn)
      /\ Grown(t.store, v.store) /\ v.store.held = t.store.held \cup {e.id}
      /\ v.row = t.row /\ v.session = t.session
      /\ v.pending = t.pending /\ v.dirty = t.dirty
      /\ v.watched = t.watched /\ v.follows = t.follows
      /\ v.stirred = t.stirred /\ v.out = t.out /\ v.missed = t.missed
  BY <1>1, <1>2, TakeKeeps DEF v
<1>5. q \in Seq(Event) /\ e.id \in Ids(q)
  BY <1>1 DEF Ids
<1> HIDE DEF q
<1>6. v.store.held \subseteq t.store.held \cup Ids(q)
  BY <1>4, <1>5
<1>7. /\ Pair(Follower, Landed(v, q), up, faults)
      /\ Pair(Follower, Untold(v), up, faults)
  BY <1>4, <1>5, <1>6, ServerLands DEF x, t, inn
<1> QED BY <1>3, <1>7, ServerTurns

LEMMA HeardBlobKeeps ==
  ASSUME PeerInv, NEW b \in Blob, HeardBlob(b)
  PROVE  \E t : Goes(Follower, t)
<1> DEFINE x == Follower
           t == Server
           bs == t.blobs \cup {b}
           v == [t EXCEPT !.blobs = bs]
           q == <<>>
           inn == x.out
<1>1. /\ Pair(x, t, up, faults) /\ scene \in DOMAIN Scenes
  BY DEF PeerInv
<1>2. /\ t \in Actor /\ Healthy(t) /\ Waits(t) /\ Tidy(t, inn)
      /\ inn \in Seq(Message) /\ bs \in SUBSET Blob /\ Stocked(t.store)
  BY <1>1, PairTypes, ActorType
<1>3. Turn("server", Landed(v, q)) /\ up' = up /\ faults' = faults
  <2>1. v = [t EXCEPT !.blobs = @ \cup {b}]
    BY <1>2 DEF Actor
  <2> QED BY <2>1 DEF HeardBlob, Server
<1> HIDE DEF x, t, inn, bs
<1>4. /\ v \in Actor /\ v.store = t.store /\ v.fetching = t.fetching
      /\ v.row = t.row /\ v.session = t.session
      /\ v.pending = t.pending /\ v.dirty = t.dirty
      /\ v.watched = t.watched /\ v.follows = t.follows
      /\ v.stirred = t.stirred /\ v.out = t.out /\ v.missed = t.missed
  BY <1>2 DEF Actor
<1> HIDE DEF v
<1>5. Healthy(v) /\ Waits(v) /\ Tidy(v, inn) /\ Grown(t.store, v.store)
  BY <1>2, <1>4, ChangeKeeps, GrownSame
<1>6. q \in Seq(Event)
  OBVIOUS
<1> HIDE DEF q
<1>7. v.store.held \subseteq t.store.held \cup Ids(q)
  BY <1>4
<1>8. Pair(Follower, Landed(v, q), up, faults)
  BY <1>4, <1>5, <1>6, <1>7, ServerLands DEF x, t, inn
<1> QED BY <1>3, <1>8, ServerTurns

LEMMA MintServer ==
  ASSUME PeerInv, Scene.author = "server", NEW c \in Scene.mints, Mint(c)
  PROVE  \E t : Goes(Follower, t)
<1> DEFINE x == Follower
           t == Server
           w == Minted(t, "server", c)
           e == [id |-> c, body |-> TRUE]
           q == <<e>>
           inn == x.out
<1>1. /\ Pair(x, t, up, faults) /\ scene \in DOMAIN Scenes /\ c \in Claim
  BY SceneType DEF PeerInv
<1>2. /\ Healthy(t) /\ Waits(t) /\ Tidy(t, inn) /\ inn \in Seq(Message)
  BY <1>1, PairTypes
<1>8. ~t.dirty /\ ~t.follows
  BY <1>1 DEF Pair, Roles
<1>3. Turn("server", w) /\ up' = up /\ faults' = faults
  BY DEF Mint, Server
<1> HIDE DEF x, t, inn
<1>4. /\ Healthy(w) /\ Waits(w) /\ Tidy(w, inn)
      /\ Grown(t.store, w.store) /\ w.store.held = t.store.held \cup {c}
      /\ w.row = t.row /\ w.session = t.session /\ w.pending = t.pending
      /\ ~w.dirty /\ w.stirred = t.stirred
      /\ w.watched = t.watched /\ w.follows = t.follows
      /\ t.missed \subseteq w.missed /\ Reports(t, w, q)
  BY <1>1, <1>2, <1>8, MintKeeps
<1> HIDE DEF w
<1>5. q \in Seq(Event) /\ c \in Ids(q)
  BY <1>1 DEF Ids, Event
<1> HIDE DEF q
<1>6. w.store.held \subseteq t.store.held \cup Ids(q) /\ Minds(w, inn)
  BY <1>4, <1>5 DEF Minds
<1>7. Pair(Follower, w, up, faults)
  BY <1>4, <1>5, <1>6, ServerReports DEF x, t, inn
<1> QED BY <1>3, <1>7, ServerTurns

-----------------------------------------------------------------------------
(* The server receives *)

LEMMA ServerPops ==
  ASSUME scene \in DOMAIN Scenes, NEW x, NEW t, NEW on, NEW k,
         Pair(x, t, on, k), x.out # <<>>
  PROVE  /\ Minds(t, Tail(x.out)) /\ Minds(Read(x), t.out) /\ Alike(x, Read(x))
         /\ Tail(x.out) \in Seq(Message) /\ Read(x).out = Tail(x.out)
         /\ Head(x.out) \in Message /\ Head(x.out).kind # "frame"
         /\ \A i \in 1 .. Len(Read(x).out) : Read(x).out[i].kind # "frame"
<1>1. /\ x \in Actor /\ t \in Actor
      /\ x.out \in Seq(Message) /\ t.out \in Seq(Message)
      /\ Healthy(t) /\ Waits(t) /\ Tidy(t, x.out)
  BY PairTypes
<1>2. Minds(x, t.out) /\ \A i \in 1 .. Len(x.out) : x.out[i].kind # "frame"
  BY DEF Pair, Roles
<1>3. /\ Tail(x.out) \in Seq(Message) /\ Head(x.out) \in Message
      /\ Head(x.out) = x.out[1] /\ 1 \in 1 .. Len(x.out)
      /\ \A i \in 1 .. Len(Tail(x.out)) : /\ Tail(x.out)[i] = x.out[i + 1]
                                          /\ i + 1 \in 1 .. Len(x.out)
  BY <1>1, Popped, LenProperties
<1>4. Minds(t, Tail(x.out))
  BY <1>1, TidyPopped DEF Minds
<1>5. Minds(Read(x), t.out) /\ Alike(x, Read(x)) /\ Read(x).out = Tail(x.out)
  BY <1>1, <1>2, Shortened DEF Read, Alike
<1> QED BY <1>2, <1>3, <1>4, <1>5

\* Nothing said, nothing new.
LEMMA NothingNew ==
  ASSUME NEW x, NEW t, NEW w, t.out \in Seq(Message),
         w.out = t.out, w.store = t.store
  PROVE  Tidings(x, t, w) /\ Receipts(x, t, w)
<1>1. Shown(w, "server") = Shown(t, "server")
  BY DEF Shown
<1>2. \A i \in 1 .. Len(t.out) : ~(i > Len(t.out))
  BY LenProperties
<1>3. New(x, t.out, w.out, Shown(w, "server"))
  BY <1>2 DEF New
<1>4. Receipts(x, t, w)
  BY DEF Receipts
<1> QED BY <1>1, <1>3, <1>4 DEF Tidings

\* A response: bytes, or an answer to nothing, since it runs no session.
LEMMA ServerFetched ==
  ASSUME scene \in DOMAIN Scenes, NEW x, NEW t, NEW k, Pair(x, t, TRUE, k),
         x.out # <<>>, Head(x.out).kind = "response"
  PROVE  Pair(Read(x), OnResponse(t, "server", Head(x.out)), TRUE, k)
<1> DEFINE m == Head(x.out)
           inn == Tail(x.out)
           w == OnResponse(t, "server", m)
           y == Read(x)
<1>1. /\ Minds(t, inn) /\ Minds(y, t.out) /\ Alike(x, y)
      /\ inn \in Seq(Message) /\ y.out = inn
      /\ \A i \in 1 .. Len(y.out) : y.out[i].kind # "frame"
  BY ServerPops
<1>2. /\ x.out \in Seq(Message) /\ t.out \in Seq(Message) /\ t \in Actor
  BY PairTypes
<1>3. /\ Minds(t, x.out) /\ t.pending = None
      /\ t.watched => Serves("server")
  BY DEF Pair, Roles
<1>4. /\ m \in Responding /\ m.id \in Nat
      /\ m.id = 0 \/ Gone(t, inn, m.id)
      /\ \/ m.id = 0
         \/ m.id = t.pending
         \/ m.id \in Fetches(t) /\ m.body \in SUBSET Blob
  BY <1>2, <1>3, AnswerOnTop
<1>5. m.id # t.pending
  BY <1>3, <1>4, PeerAssumption
<1> HIDE DEF m, inn, y
<1>6. /\ Healthy(w) /\ Waits(w) /\ Tidy(w, inn)
      /\ w.store = t.store /\ w.row = t.row /\ w.session = t.session
      /\ w.pending = t.pending /\ w.watched = t.watched
      /\ w.follows = t.follows /\ w.out = t.out /\ w.missed = t.missed
      /\ w.dirty = t.dirty /\ w.stirred = t.stirred
  BY <1>1, <1>4, <1>5, FetchKeeps DEF Minds
<1> HIDE DEF w
<1>7. Acted(t, w)
  BY <1>2, <1>3, <1>6, GrownSame, LongerSame DEF Acted
<1>8. Tidings(x, t, w) /\ Receipts(x, t, w)
  BY <1>2, <1>6, NothingNew
<1>9. Minds(w, y.out) /\ Minds(y, w.out)
  BY <1>1, <1>6 DEF Minds
<1>10. Pair(y, w, TRUE, k)
  BY <1>1, <1>7, <1>8, <1>9, ServerActs
<1> QED BY <1>10 DEF y, w, m

\* A watch, and the heartbeat back.
LEMMA ServerWatched ==
  ASSUME scene \in DOMAIN Scenes, NEW x, NEW t, NEW k, Pair(x, t, TRUE, k),
         x.out # <<>>, Head(x.out).kind = "watch"
  PROVE  Pair(Read(x), OnWatch(t, "server", Head(x.out)), TRUE, k)
<1> DEFINE m == Head(x.out)
           inn == Tail(x.out)
           w == OnWatch(t, "server", m)
           y == Read(x)
           f == Msg("frame", 0, Frame(t, <<>>))
<1>1. /\ Minds(t, inn) /\ Minds(y, t.out) /\ Alike(x, y)
      /\ inn \in Seq(Message) /\ y.out = inn /\ m \in Message
      /\ \A i \in 1 .. Len(y.out) : y.out[i].kind # "frame"
  BY ServerPops
<1>2. /\ x.out \in Seq(Message) /\ t.out \in Seq(Message) /\ t \in Actor
      /\ Healthy(t)
  BY PairTypes
<1>3. m \in Watching
  BY <1>1, MessageType
<1>4. f \in Framing /\ f.kind = "frame" /\ f.body = Frame(t, <<>>)
  <2>1. <<>> \in Seq(Event)
    OBVIOUS
  <2> QED BY <1>2, <2>1, FrameType
<1> HIDE DEF m, inn, y
<1>5. /\ Healthy(w) /\ Waits(w) /\ Tidy(w, inn)
      /\ w.store = t.store /\ w.row = t.row /\ w.session = t.session
      /\ w.pending = t.pending /\ w.dirty = t.dirty
      /\ w.watched = (m.body /\ Serves("server")) /\ w.follows = t.follows
      /\ w.stirred = t.stirred
      /\ t.missed \subseteq w.missed
      /\ \/ w.out = t.out
         \/ Serves("server") /\ w.out = Append(t.out, f)
      /\ Longer(t.out, w.out, Framing)
  BY <1>1, <1>3, WatchKeeps DEF Minds
<1> HIDE DEF w, f
<1>6. w.out \in Seq(Message)
  BY <1>5, ActorType DEF Healthy
<1>7. Acted(t, w)
  <2>1. Longer(t.out, w.out, Message \ Watching)
    <3>1. Framing \subseteq Message \ Watching
      BY DEF Framing, Watching, Message
    <3> QED BY <1>5, <3>1, LongerWider
  <2>2. w.watched => Serves("server")
    BY <1>5
  <2> QED BY <1>5, <2>1, <2>2, GrownSame DEF Acted
<1>8. Tidings(x, t, w) /\ Receipts(x, t, w)
  <2>1. CASE w.out = t.out
    BY <1>2, <1>5, <2>1, NothingNew
  <2>2. CASE Serves("server") /\ w.out = Append(t.out, f)
    <3>1. \A i \in 1 .. Len(w.out) :
            \/ i \in 1 .. Len(t.out) /\ w.out[i] = t.out[i] /\ ~(i > Len(t.out))
            \/ w.out[i] = f
      <4>1. f \in Message
        BY <1>4 DEF Message
      <4> QED BY <1>2, <2>2, <4>1, AppendProperties, LenProperties
    <3>2. Shown(w, "server") = t.store /\ Shown(t, "server") = t.store
      BY <1>5, <2>2 DEF Shown
    <3>3. True(f.body, t.store)
      BY <1>2, <1>4, FrameTrue
    <3>4. New(x, t.out, w.out, t.store)
      BY <1>4, <3>1, <3>3 DEF New
    <3>5. Receipts(x, t, w)
      BY <1>4, <3>1 DEF Receipts
    <3> QED BY <3>2, <3>4, <3>5 DEF Tidings
  <2> QED BY <1>5, <2>1, <2>2
<1>9. Minds(w, y.out)
  BY <1>1, <1>5 DEF Minds
<1>10. Minds(y, w.out)
  BY <1>1, <1>2, <1>5, <1>6, HeedlessKinds, Hears
<1>11. Pair(y, w, TRUE, k)
  BY <1>1, <1>7, <1>8, <1>9, <1>10, ServerActs
<1> QED BY <1>11 DEF y, w, m

\* The server's answer is worth what the session relies on, when it is sent.
LEMMA AnswerWorth ==
  ASSUME NEW t, Healthy(t), NEW x, NEW q \in Seq(Message), NEW a,
         NEW s, s = Shown(t, "server"), Truly(x, a, s), Learned(x, q, s),
         x \in Actor, x.session.phase # "publish"
  PROVE  Sure(x.session, a, s, x.store.held \cup Coming(q),
              x.store.held \cup Coming(q))
<1> DEFINE e == x.session
<1>1. Stocked(s) /\ s \in Store
  BY ShownStocked DEF Stocked, Sound
<1>2. Chasing(e, x.store.held \cup Coming(q), s)
  BY DEF Learned
<1>3. LogRows(s, TheLog) \subseteq s.held
  BY DEF LogRows
<1>4. ASSUME e.phase = "claims", NEW i \in 1 .. Len(First(e.want))
      PROVE  \E j \in 1 .. Len(a) : a[j].id = First(e.want)[i]
  <2>1. e.want \in Seq(Claim)
    BY ActorType DEF Session
  <2>2. First(e.want)[i] \in Wants(e)
    <3>1. i \in 1 .. Len(e.want) /\ First(e.want)[i] = e.want[i]
      BY <2>1, FirstRest
    <3> QED BY <3>1 DEF Wants
  <2>3. First(e.want)[i] \in s.held
    BY <1>2, <1>4, <2>2 DEF Chasing
  <2> QED BY <1>4, <2>3 DEF Truly
<1>5. ASSUME e.phase = "resettle"
      PROVE  Listed(a.print) \subseteq x.store.held \cup Coming(q)
  <2>1. a.print = Digest(s) /\ Listed(Digest(s)) = LogRows(s, TheLog)
    BY <1>1, <1>5, ListedDigest DEF Truly
  <2> QED BY <1>2, <1>5, <2>1 DEF Chasing, Chases
<1>6. e.phase = "pull" => Placed(a, s, e.cursor.pull)
  BY DEF Truly
<1>7. e.phase = "hashes" => a.rows = LogRows(s, TheLog)
  BY DEF Truly
<1> QED BY <1>3, <1>4, <1>5, <1>6, <1>7 DEF Sure

\* What the follower publishes past the hashes, it holds.
LEMMA TakenRows ==
  ASSUME NEW x, x \in Actor, NEW t, NEW w, Ours(x),
         \/ w.store = t.store
         \/ /\ x.session.phase = "publish"
            /\ w.store.held \subseteq
                 t.store.held \cup Ids(First(x.session.batch)),
         Chases(x.session) \/ x.session.phase = "hashes"
  PROVE  LogRows(Shown(w, "server"), TheLog) \subseteq
           LogRows(Shown(t, "server"), TheLog) \cup x.store.held
<1>1. CASE w.store = t.store
  BY <1>1 DEF Shown
<1>2. CASE /\ x.session.phase = "publish"
           /\ w.store.held \subseteq
                t.store.held \cup Ids(First(x.session.batch))
  <2>1. x.session.batch \in Seq(Event)
    BY ActorType DEF Session
  <2>2. Ids(First(x.session.batch)) \subseteq x.store.held
    <3>1. x.session.after = "resettle"
      BY <1>2 DEF Chases
    <3> QED BY <1>2, <2>1, <3>1, RestFewer DEF Ours
  <2> QED BY <1>2, <2>2 DEF Shown, LogRows
<1> QED BY <1>1, <1>2

\* Where a reply is in the channel.
LEMMA ReplyPlace ==
  ASSUME NEW q \in Seq(Message), NEW r \in Message, NEW p \in Seq(Message),
         \/ Longer(q, p, Requesting)
         \/ Longer(Append(q, r), p, Requesting)
  PROVE  /\ Longer(q, p, Requesting \cup {r})
         /\ \A i \in 1 .. Len(p) :
              \/ i \in 1 .. Len(q) /\ p[i] = q[i] /\ ~(i > Len(q))
              \/ p[i] \in Requesting
              \/ i = Len(q) + 1 /\ p[i] = r
         /\ \A i \in 1 .. Len(p) :
              i = Len(q) + 1 => Ahead(p, i) = Coming(q)
         /\ Coming(q) \subseteq Coming(p)
<1>1. /\ Append(q, r) \in Seq(Message) /\ Longer(q, Append(q, r), {r})
      /\ Len(Append(q, r)) = Len(q) + 1 /\ Append(q, r)[Len(q) + 1] = r
      /\ Len(q) \in Nat /\ Len(p) \in Nat
  BY LongerAppend, AppendProperties, LenProperties
<1>2. Longer(q, p, Requesting \cup {r})
  <2>1. CASE Longer(q, p, Requesting)
    BY <2>1, LongerWider
  <2>2. CASE Longer(Append(q, r), p, Requesting)
    <3>1. Longer(q, p, {r} \cup Requesting)
      BY <1>1, <2>2, LongerThen
    <3> QED BY <3>1, LongerWider
  <2> QED BY <2>1, <2>2
<1>3. \A i \in 1 .. Len(p) :
        \/ i \in 1 .. Len(q) /\ p[i] = q[i] /\ ~(i > Len(q))
        \/ p[i] \in Requesting
        \/ i = Len(q) + 1 /\ p[i] = r
  <2>1. CASE Longer(q, p, Requesting)
    <3>1. \A i \in 1 .. Len(p) :
            \/ i \in 1 .. Len(q) /\ ~(i > Len(q))
            \/ i > Len(q)
      BY <1>1
    <3> QED BY <2>1, <3>1 DEF Longer
  <2>2. CASE Longer(Append(q, r), p, Requesting)
    <3>1. \A i \in 1 .. Len(p) :
            \/ i \in 1 .. Len(q) /\ ~(i > Len(q))
            \/ i = Len(q) + 1
            \/ i > Len(q) + 1
      BY <1>1
    <3>2. \A i \in 1 .. Len(q) : p[i] = q[i]
      BY <1>2 DEF Longer
    <3>3. Len(q) + 1 \in 1 .. Len(q) + 1
      BY <1>1
    <3>4. p[Len(q) + 1] = r
      BY <1>1, <2>2, <3>3 DEF Longer
    <3>5. \A i \in 1 .. Len(p) : i > Len(q) + 1 => p[i] \in Requesting
      BY <1>1, <2>2 DEF Longer
    <3> QED BY <3>1, <3>2, <3>4, <3>5
  <2> QED BY <2>1, <2>2
<1>4. \A i \in 1 .. Len(p) : i = Len(q) + 1 => Ahead(p, i) = Coming(q)
  <2>1. \A j \in 1 .. Len(q) : p[j] = q[j]
    BY <1>2 DEF Longer
  <2>2. ASSUME NEW i \in 1 .. Len(p), i = Len(q) + 1
        PROVE  Ahead(p, i) = Coming(q)
    <3>1. 1 .. i - 1 = 1 .. Len(q)
      BY <1>1, <2>2
    <3> QED BY <2>1, <3>1 DEF Ahead, Coming
  <2> QED BY <2>2
<1>5. Coming(q) \subseteq Coming(p)
  BY <1>2, ComingLonger
<1> QED BY <1>2, <1>3, <1>4, <1>5

\* The server answers; a batch published may make its log grow.
LEMMA ServerAsked ==
  ASSUME scene \in DOMAIN Scenes, NEW x, NEW t, NEW k, Pair(x, t, TRUE, k),
         x.out # <<>>, Head(x.out).kind = "request",
         NEW j \in 0 .. Len(Carried(Head(x.out))),
         k = 0 => j = Len(Carried(Head(x.out)))
  PROVE  Pair(Read(x), OnRequest(t, "server", Head(x.out), j), TRUE, k)
<1> DEFINE m == Head(x.out)
           inn == Tail(x.out)
           w == OnRequest(t, "server", m, j)
           y == Read(x)
           a == Answer(t, "server", m.body)
           r == ReplyTo(t, "server", m)
           s == Shown(t, "server")
           q == t.out
           e == x.session
<1>1. /\ Minds(t, inn) /\ Minds(y, q) /\ Alike(x, y)
      /\ inn \in Seq(Message) /\ y.out = inn
      /\ \A i \in 1 .. Len(y.out) : y.out[i].kind # "frame"
  BY ServerPops
<1>2. /\ x.out \in Seq(Message) /\ q \in Seq(Message)
      /\ x \in Actor /\ t \in Actor /\ Healthy(t) /\ Healthy(x) /\ Waits(x)
  BY PairTypes
<1>3. /\ Minds(t, x.out) /\ Minds(x, q) /\ Ours(x)
      /\ t.watched => Serves("server")
  BY DEF Pair, Roles
<1>4. Replied(t, x, "server", m, j, w)
  BY <1>3, Replies
<1>5. /\ m \in Requesting
      /\ m.id = 0 => m.body[1] = "put"
      /\ m.body[1] \in {"put", "get"} \/ m.id = x.pending
      /\ m.id = x.pending => m.body = Question(e)
  BY <1>3, AskedOnTop
<1>6. m.id = x.pending =>
        /\ Truly(x, a, s)
        /\ (m.body[1] = "publish") <=> (e.phase = "publish")
        /\ e.phase = "publish" => m.body[2] = First(e.batch)
  BY <1>2, <1>5, AnswerKeeps
<1>7. r.kind = "response" /\ r.id = m.id /\ r.body = a
  BY ReplyKind
<1>8. j \in 0 .. Len(Carried(m)) /\ (k = 0 => j = Len(Carried(m)))
  OBVIOUS
<1> HIDE DEF m, inn, w, y, a, r, s, q
<1>9. /\ Minds(w, inn) /\ Minds(y, w.out)
      /\ Served(t, w, inn) /\ Took(t, "server", m, j, w.store)
      /\ r \in Responding
      /\ \/ Longer(q, w.out, Requesting)
         \/ Longer(Append(q, r), w.out, Requesting)
  BY <1>4 DEF Replied, inn, y, q, r
<1>10. /\ Grown(t.store, w.store)
       /\ m.body[1] # "publish" => w.store = t.store
       /\ m.body[1] = "publish" =>
            /\ w.store.held \subseteq t.store.held \cup Ids(m.body[2])
            /\ j = Len(Carried(m)) /\ Serves("server") =>
                 w.store.held = t.store.held \cup Ids(m.body[2])
  <2> DEFINE u == w.store
  <2>1. Took(t, "server", m, j, u)
    BY <1>9
  <2> HIDE DEF u
  <2>2. /\ Grown(t.store, u)
        /\ m.body[1] # "publish" => u = t.store
        /\ m.body[1] = "publish" =>
             /\ u.held \subseteq t.store.held \cup Ids(m.body[2])
             /\ j = Len(Carried(m)) /\ Serves("server") =>
                  u.held = t.store.held \cup Ids(m.body[2])
    <3>1. Healthy(t) /\ m \in Requesting /\ j \in 0 .. Len(Carried(m))
      BY <1>2, <1>5, <1>8
    <3> QED BY ONLY <2>1, <3>1, TookStocks
  <2> QED BY <2>2 DEF u
<1>11. m.body[1] = "publish" => m.id = x.pending
  BY <1>5
<1>12. w.out \in Seq(Message) /\ r \in Message
  BY <1>9, ActorType DEF Minds, Healthy, Message
<1> DEFINE p == w.out
<1>13. /\ Longer(q, p, Requesting \cup {r})
       /\ \A i \in 1 .. Len(p) :
            \/ i \in 1 .. Len(q) /\ p[i] = q[i] /\ ~(i > Len(q))
            \/ p[i] \in Requesting
            \/ i = Len(q) + 1 /\ p[i] = r
       /\ \A i \in 1 .. Len(p) : i = Len(q) + 1 => Ahead(p, i) = Coming(q)
       /\ Coming(q) \subseteq Coming(p)
  <2>1. p \in Seq(Message) /\ (\/ Longer(q, p, Requesting)
                               \/ Longer(Append(q, r), p, Requesting))
    BY <1>9, <1>12
  <2> HIDE DEF p
  <2> QED BY <1>2, <1>12, <2>1, ReplyPlace
<1>14. Acted(t, w)
  <2>1. Longer(q, p, Message \ Watching)
    <3>1. Requesting \cup {r} \subseteq Message \ Watching
      BY <1>9 DEF Requesting, Responding, Watching, Message
    <3> QED BY <1>13, <3>1, LongerWider
  <2>2. /\ t.missed \subseteq w.missed /\ w.session = t.session
        /\ w.pending = t.pending /\ w.dirty = t.dirty
        /\ w.follows = t.follows /\ w.stirred = t.stirred
        /\ w.watched = t.watched
    BY <1>9 DEF Served
  <2> QED BY <1>3, <1>10, <2>1, <2>2 DEF Acted, q
<1>15. \A i \in Requesting : i.kind = "request"
  BY DEF Requesting
<1>16. ASSUME Learned(x, t.out, Shown(t, "server"))
       PROVE  Tidings(x, t, w)
  <2> DEFINE u == Shown(w, "server")
             all == x.store.held \cup Coming(p)
             had == x.store.held \cup Coming(q)
  <2>1. Learned(x, q, s)
    BY <1>16 DEF q, s
  <2>2. ASSUME r.id = x.pending
        PROVE  Sure(e, r.body, u, all, had)
    <3>1. CASE e.phase = "publish"
      BY <3>1 DEF Sure
    <3>2. CASE e.phase # "publish"
      <4>1. w.store = t.store
        BY <1>6, <1>7, <1>10, <2>2, <3>2
      <4>2. u = s
        BY <4>1 DEF Shown, s
      <4>3. Truly(x, a, s)
        BY <1>6, <1>7, <2>2
      <4>4. Sure(e, a, s, had, had)
        <5>1. s = Shown(t, "server")
          BY DEF s
        <5> HIDE DEF all, had, u
        <5>2. Sure(e, a, s, x.store.held \cup Coming(q), x.store.held \cup Coming(q))
          BY <1>2, <2>1, <3>2, <4>3, <5>1, AnswerWorth
        <5> QED BY <5>2 DEF had
      <4>5. had \subseteq all
        BY <1>13
      <4>6. Sure(e, a, s, all, had)
        BY <4>4, <4>5 DEF Sure
      <4> QED BY <1>7, <4>2, <4>6
    <3> QED BY <3>1, <3>2
  <2>3. New(x, q, p, u)
    <3> SUFFICES ASSUME NEW i \in 1 .. Len(p), i > Len(q)
                 PROVE  /\ p[i].kind = "frame" => True(p[i].body, u)
                        /\ p[i].kind = "response" /\ p[i].id = x.pending =>
                             Sure(e, p[i].body, u, all,
                                  x.store.held \cup Ahead(p, i))
      BY DEF New
    <3>1. CASE p[i] \in Requesting
      BY <1>15, <3>1
    <3>2. CASE i = Len(q) + 1 /\ p[i] = r
      <4>1. Ahead(p, i) = Coming(q)
        BY <1>13, <3>2
      <4> QED BY <1>7, <2>2, <3>2, <4>1
    <3> QED BY <1>13, <3>1, <3>2
  <2>4. ASSUME Chases(e) \/ e.phase = "hashes"
        PROVE  LogRows(u, TheLog) \subseteq LogRows(s, TheLog) \cup x.store.held
    <3>1. \/ w.store = t.store
          \/ /\ x.session.phase = "publish"
             /\ w.store.held \subseteq
                  t.store.held \cup Ids(First(x.session.batch))
      BY <1>6, <1>10, <1>11
    <3> QED BY <1>2, <1>3, <2>4, <3>1, TakenRows DEF s
  <2> QED BY <2>3, <2>4 DEF Tidings, q, s
<1>17. ASSUME Scene.author = "follower", Scene.relay, k = 0
       PROVE  Receipts(x, t, w)
  <2>1. Serves("server") /\ j = Len(Carried(m))
    BY <1>8, <1>17 DEF Serves
  <2>2. r.id = x.pending /\ e.phase = "publish" =>
          Ids(First(e.batch)) \subseteq w.store.held
    BY <1>6, <1>7, <1>10, <2>1
  <2> SUFFICES ASSUME NEW i \in 1 .. Len(p), p[i].kind = "response"
               PROVE  \/ \E l \in 1 .. Len(q) : q[l] = p[i]
                      \/ p[i].id # x.pending
                      \/ e.phase = "publish" =>
                           Ids(First(e.batch)) \subseteq w.store.held
    BY DEF Receipts, q
  <2>3. CASE i \in 1 .. Len(q) /\ p[i] = q[i]
    BY <2>3
  <2>4. CASE p[i] = r
    BY <2>2, <2>4
  <2> QED BY <1>13, <1>15, <2>3, <2>4
<1>18. Minds(w, y.out)
  BY <1>1, <1>9
<1>19. Pair(y, w, TRUE, k)
  BY <1>1, <1>9, <1>14, <1>16, <1>17, <1>18, ServerActs
<1> QED BY <1>19 DEF y, w, m

\* The server's turn on a message; a failing disk may cut a batch short.
LEMMA ServerConsumes ==
  ASSUME PeerInv, Inbox("server") # <<>>,
         NEW j \in 0 .. Len(Carried(Head(Inbox("server")))),
         Consumed("server", Handled("server", Head(Inbox("server")), j)),
         up' = up, faults' \in {faults, faults + 1},
         faults' = 0 => j = Len(Carried(Head(Inbox("server"))))
  PROVE  \E x, t : Goes(x, t)
<1> DEFINE x == Follower
           t == Server
           m == Head(x.out)
           w == Handled("server", m, j)
<1>1. /\ Pair(x, t, up, faults) /\ scene \in DOMAIN Scenes /\ faults \in Nat
      /\ up \in BOOLEAN
  BY SceneType DEF PeerInv
<1>2. Inbox("server") = x.out /\ x.out # <<>>
  BY OtherType DEF Inbox, Follower
<1>3. up = TRUE
  <2>1. ~up => x.out = <<>>
    BY <1>1 DEF Pair, Off
  <2> QED BY <1>1, <1>2, <2>1
<1>4. Pair(x, t, TRUE, faults')
  BY <1>1, <1>3, PairFaults
<1>5. Pair(Read(x), w, TRUE, faults')
  <2>1. node["server"] = t
    BY DEF Server
  <2>2. m.kind \in {"request", "response", "watch"}
    <3>1. m \in Message /\ m.kind # "frame"
      BY <1>1, <1>2, ServerPops
    <3> QED BY <3>1, MessageType
  <2>3. j \in 0 .. Len(Carried(m)) /\ (faults' = 0 => j = Len(Carried(m)))
    BY <1>2
  <2>4. CASE m.kind = "request"
    <3>1. w = OnRequest(t, "server", m, j)
      BY <2>1, <2>4 DEF Handled
    <3> HIDE DEF w
    <3> QED BY <1>1, <1>2, <1>4, <2>3, <2>4, <3>1, ServerAsked
  <2>5. CASE m.kind = "response"
    <3>1. w = OnResponse(t, "server", m)
      BY <2>1, <2>5 DEF Handled
    <3> HIDE DEF w
    <3> QED BY <1>1, <1>2, <1>4, <2>5, <3>1, ServerFetched
  <2>6. CASE m.kind = "watch"
    <3>1. w = OnWatch(t, "server", m)
      BY <2>1, <2>6 DEF Handled
    <3> HIDE DEF w
    <3> QED BY <1>1, <1>2, <1>4, <2>6, <3>1, ServerWatched
  <2> QED BY <2>2, <2>4, <2>5, <2>6
<1>6. \E z \in {Pump(w, "server")} :
        node' = [node EXCEPT !["server"] = z, !["follower"].out = Tail(@)]
  BY <1>2, OtherType DEF Consumed
<1> HIDE DEF w, m
<1>7. ~w.dirty
  BY <1>5 DEF Pair, Roles
<1>8. Pump(w, "server") = w
  BY <1>7 DEF Pump
<1>9. node' = [node EXCEPT !["server"] = w, !["follower"].out = Tail(@)]
  BY <1>6, <1>8
<1>10. Became(Read(x), w)
  BY <1>9, OtherType DEF PeerInv, Became, Read, Follower
<1>11. Pair(Read(x), w, up', faults')
  BY <1>3, <1>5
<1> QED BY <1>10, <1>11 DEF Goes

\* A message taken whole, or a batch of it cut short.
LEMMA ConsumedKeeps ==
  ASSUME PeerInv, NEW n \in Node, Inbox(n) # <<>>, up' = up,
         LET m == Head(Inbox(n))
             l == Len(Carried(m))
         IN  \/ Consumed(n, Handled(n, m, l)) /\ faults' = faults
             \/ /\ \E j \in 0 .. l - 1 : Consumed(n, Handled(n, m, j))
                /\ faults' = faults + 1
  PROVE  \E x, t : Goes(x, t)
<1> DEFINE m == Head(Inbox(n))
           l == Len(Carried(m))
<1>1. faults' \in {faults, faults + 1}
  OBVIOUS
<1>2. \E j \in 0 .. l : /\ Consumed(n, Handled(n, m, j))
                        /\ faults' = 0 => j = l
  <2>1. l \in Nat /\ faults \in Nat
    <3>1. Pair(Follower, Server, up, faults) /\ faults \in Nat
      BY SceneType DEF PeerInv
    <3>2. Inbox(n) \in Seq(Message)
      BY <3>1, OtherType, PairTypes DEF Inbox, Follower, Server
    <3>3. m \in Message
      BY <3>2, Popped
    <3>4. Carried(m) \in Seq(Event)
      <4>1. <<>> \in Seq(Event)
        OBVIOUS
      <4>2. CASE m.kind = "request" /\ m.body[1] = "publish"
        <5>1. m.body \in Ask
          BY <3>3, <4>2, MessageType DEF Requesting
        <5>2. m.body[2] \in Seq(Event)
          BY <4>2, <5>1 DEF Ask
        <5> QED BY <4>2, <5>2 DEF Carried
      <4> QED BY <4>1, <4>2 DEF Carried
    <3> HIDE DEF m
    <3> QED BY <3>1, <3>4, LenProperties
  <2>2. CASE Consumed(n, Handled(n, m, l))
    <3>1. l \in 0 .. l
      BY <2>1
    <3> HIDE DEF l, m
    <3> QED BY <2>2, <3>1
  <2>3. CASE /\ \E j \in 0 .. l - 1 : Consumed(n, Handled(n, m, j))
             /\ faults' = faults + 1
    <3>1. PICK j \in 0 .. l - 1 : Consumed(n, Handled(n, m, j))
      BY <2>3
    <3>2. faults' # 0 /\ j \in 0 .. l
      BY <2>1, <2>3
    <3> HIDE DEF l, m
    <3> QED BY <3>1, <3>2
  <2> QED BY <2>2, <2>3
<1>3. PICK j \in 0 .. l : /\ Consumed(n, Handled(n, m, j))
                          /\ faults' = 0 => j = l
  BY <1>2
<1>4. CASE n = "follower"
  BY <1>1, <1>3, <1>4, FollowerConsumes
<1>5. CASE n = "server"
  BY <1>1, <1>3, <1>5, ServerConsumes
<1> QED BY <1>4, <1>5, OtherType

LEMMA ReceiveKeeps ==
  ASSUME PeerInv, NEW n \in Node, Receive(n) \/ ReceiveFailing(n)
  PROVE  \E x, t : Goes(x, t)
<1> DEFINE m == Head(Inbox(n))
           x == node[n]
           Batched == \E j \in 0 .. Len(Carried(m)) - 1 :
                        Consumed(n, Handled(n, m, j))
           Framed == /\ m.kind = "frame"
                     /\ \E j \in 0 .. Len(m.body.events) :
                          Consumed(n, FrameFails(x, m, j))
           Answered == /\ m.kind = "response" /\ m.id = x.pending
                       /\ \E j \in Writes(x.session, m.body) :
                            Consumed(n, SessionFails(x, m.body, j))
<1>1. Inbox(n) # <<>> /\ up' = up
  BY DEF Receive, ReceiveFailing
<1>2. CASE Receive(n)
  BY <1>1, <1>2, ConsumedKeeps DEF Receive
<1>3. CASE ReceiveFailing(n)
  <2>1. (Batched \/ Framed \/ Answered) /\ faults' = faults + 1
    BY <1>3 DEF ReceiveFailing
  <2>2. CASE Batched
    BY <1>1, <2>1, <2>2, ConsumedKeeps
  <2>3. CASE (Framed \/ Answered) /\ n = "follower"
    BY <1>1, <2>1, <2>3, FollowerFaulters
  <2>4. CASE (Framed \/ Answered) /\ n = "server"
    <3>1. Inbox(n) = Follower.out /\ x = Server
      BY <2>4, OtherType DEF Inbox, Follower, Server
    <3>2. Pair(Follower, Server, up, faults) /\ scene \in DOMAIN Scenes
      BY DEF PeerInv
    <3>3. m \in Message /\ m.kind # "frame" /\ x.pending = None
      <4>1. Follower.out # <<>>
        BY <1>1, <3>1
      <4>2. Head(Follower.out) \in Message /\ Head(Follower.out).kind # "frame"
        BY <3>2, <4>1, ServerPops
      <4>3. Server.pending = None
        BY <3>2 DEF Pair, Roles
      <4> QED BY <3>1, <4>2, <4>3
    <3> HIDE DEF m, x
    <3>4. m.id \in Nat
      BY <3>3, MessageType
    <3> QED BY <2>4, <3>3, <3>4, PeerAssumption
  <2> QED BY <2>1, <2>2, <2>3, <2>4, OtherType
<1> QED BY <1>2, <1>3

LEMMA NextGoes ==
  ASSUME PeerInv, Next
  PROVE  \E x, t : Goes(x, t)
<1>1. ASSUME NEW n \in Node, Receive(n) \/ ReceiveFailing(n)
      PROVE  \E x, t : Goes(x, t)
  BY <1>1, ReceiveKeeps
<1>2. CASE Connect
  BY <1>2, ConnectKeeps
<1>3. CASE Disconnect
  BY <1>3, DisconnectKeeps
<1>4. ASSUME NEW f \in BOOLEAN, Refollow(f)
      PROVE  \E x, t : Goes(x, t)
  BY <1>4, RefollowKeeps
<1>5. CASE SyncNow
  BY <1>5, SyncNowKeeps
<1>6. ASSUME NEW c \in Scene.mints, Mint(c)
      PROVE  \E x, t : Goes(x, t)
  <2>1. Scene.author \in {"follower", "server"}
    BY SceneType, OtherType DEF PeerInv
  <2> QED BY <1>6, <2>1, MintFollower, MintServer
<1>7. ASSUME NEW e \in Scene.heard, Heard(e) \/ HeardInSession(e)
      PROVE  \E x, t : Goes(x, t)
  BY <1>7, HeardKeeps
<1>8. ASSUME NEW b \in Blob, HeardBlob(b)
      PROVE  \E x, t : Goes(x, t)
  BY <1>8, HeardBlobKeeps
<1>9. ASSUME NEW b \in Blob, FetchBlob(b) \/ EvictBlob(b)
      PROVE  \E x, t : Goes(x, t)
  BY <1>9, FetchBlobKeeps, EvictKeeps
<1> QED BY <1>1, <1>2, <1>3, <1>4, <1>5, <1>6, <1>7, <1>8, <1>9 DEF Next

\* The counters stay within their bounds.
LEMMA NextCounts ==
  ASSUME PeerInv, Next
  PROVE  /\ scene' = scene /\ up' \in BOOLEAN
         /\ drops' \in 0 .. Scene.drops /\ faults' \in 0 .. Scene.faults
         /\ demands' \in 0 .. Scene.demands
<1>1. /\ Scene.drops \in Nat /\ Scene.faults \in Nat /\ Scene.demands \in Nat
      /\ up \in BOOLEAN /\ drops \in 0 .. Scene.drops
      /\ faults \in 0 .. Scene.faults /\ demands \in 0 .. Scene.demands
  BY SceneType DEF PeerInv
<1> DEFINE Counts == /\ scene' = scene /\ up' \in BOOLEAN
                     /\ drops' \in 0 .. Scene.drops
                     /\ faults' \in 0 .. Scene.faults
                     /\ demands' \in 0 .. Scene.demands
<1>2. ASSUME NEW n \in Node, Receive(n) \/ ReceiveFailing(n) PROVE Counts
  BY <1>1, <1>2 DEF Receive, ReceiveFailing
<1>3. ASSUME Connect PROVE Counts
  BY <1>1, <1>3 DEF Connect
<1>4. ASSUME Disconnect PROVE Counts
  <2>1. /\ scene' = scene /\ up' = FALSE /\ drops < Scene.drops
        /\ drops' = drops + 1 /\ faults' = faults /\ demands' = demands
    BY <1>4 DEF Disconnect
  <2>2. drops + 1 \in 0 .. Scene.drops
    <3> DEFINE d == Scene.drops
    <3>1. d \in Nat /\ drops \in 0 .. d /\ drops < d
      BY <1>1, <2>1
    <3> HIDE DEF d
    <3>2. drops + 1 \in 0 .. d
      BY <3>1
    <3> QED BY <3>2 DEF d
  <2>3. up' \in BOOLEAN
    BY <2>1
  <2> QED BY <1>1, <2>1, <2>2, <2>3
<1>5. ASSUME NEW f \in BOOLEAN, Refollow(f) PROVE Counts
  BY <1>1, <1>5 DEF Refollow
<1>6. ASSUME SyncNow PROVE Counts
  BY <1>1, <1>6 DEF SyncNow
<1>7. ASSUME NEW c \in Scene.mints, Mint(c) PROVE Counts
  BY <1>1, <1>7 DEF Mint
<1>8. ASSUME NEW e \in Scene.heard, Heard(e) \/ HeardInSession(e) PROVE Counts
  BY <1>1, <1>8 DEF Heard, HeardInSession
<1>9. ASSUME NEW b \in Blob, HeardBlob(b) PROVE Counts
  BY <1>1, <1>9 DEF HeardBlob
<1>10. ASSUME NEW b \in Blob, FetchBlob(b) \/ EvictBlob(b) PROVE Counts
  BY <1>1, <1>10 DEF FetchBlob, EvictBlob
<1> HIDE DEF Counts
<1>11. Counts
  BY <1>2, <1>3, <1>4, <1>5, <1>6, <1>7, <1>8, <1>9, <1>10 DEF Next
<1> QED BY <1>11 DEF Counts

\* The scene stays what it is, and with it what is said of the two.
LEMMA PairNext ==
  ASSUME scene' = scene, NEW x, NEW t, Goes(x, t)
  PROVE  Pair(Follower, Server, up, faults)'
<1>1. Follower' = x /\ Server' = t /\ Scene' = Scene
  BY OtherType DEF Goes, Became, Follower, Server, Scene
<1>2. Pair(x, t, up', faults')
  BY DEF Goes
<1> QED BY <1>1, <1>2
     DEF Pair, Minds, Healthy, Roles, Shown, Serves

LEMMA PeerStep ==
  ASSUME PeerInv, [Next]_vars
  PROVE  PeerInv'
<1>1. CASE Next
  <2>1. PICK x, t : Goes(x, t)
    BY <1>1, NextGoes
  <2>2. /\ scene' = scene /\ up' \in BOOLEAN
        /\ drops' \in 0 .. Scene.drops /\ faults' \in 0 .. Scene.faults
        /\ demands' \in 0 .. Scene.demands
    BY <1>1, NextCounts
  <2>3. Pair(Follower, Server, up, faults)'
    BY <2>1, <2>2, PairNext
  <2>4. node' \in [Node -> Actor]
    <3>1. x \in Actor /\ t \in Actor
      BY <2>1, PairTypes DEF Goes
    <3> QED BY <2>1, <3>1, OtherType DEF Goes, Became
  <2>5. Scene' = Scene
    BY <2>2 DEF Scene
  <2> QED BY <2>2, <2>3, <2>4, <2>5 DEF PeerInv
<1>2. CASE UNCHANGED vars
  BY <1>2 DEF vars, PeerInv, Pair, Minds, Healthy, Roles, Shown, Serves,
              Scene, Follower, Server
<1> QED BY <1>1, <1>2

\* Two actors nobody has connected yet.
LEMMA NewbornMinds ==
  ASSUME scene \in DOMAIN Scenes
  PROVE  /\ Newborn \in Actor /\ Minds(Newborn, <<>>)
         /\ Newborn.store = EmptyStore /\ Newborn.out = <<>>
         /\ Newborn.session = Idle /\ Newborn.pending = None
         /\ ~Newborn.dirty /\ ~Newborn.watched /\ ~Newborn.follows
         /\ ~Newborn.stirred
         /\ \A c \in Cursors(Newborn) : Zero(c) /\ c.settled = None
<1> DEFINE x == Newborn
<1>1. /\ <<>> \in Seq(Message) /\ Len(<<>>) = 0 /\ 1 .. 0 = {}
      /\ Idle \in Session /\ Idle.phase = "idle" /\ Zero(Idle.cursor)
      /\ Idle.cursor.settled = None
      /\ Stocked(EmptyStore)
  BY NoMessages, IdleType, EmptyStocked
<1>2. /\ FreshCursor(None) \in Cursor /\ Zero(FreshCursor(None))
      /\ FreshCursor(None).settled = None
  BY FreshType
<1>3. /\ x.store = EmptyStore /\ x.blobs = {} /\ x.row = FreshCursor(None)
      /\ x.session = Idle /\ x.pending = None /\ x.dirty = FALSE
      /\ x.watched = FALSE /\ x.fetching = {} /\ x.follows = FALSE
      /\ x.stirred = FALSE /\ x.out = <<>> /\ x.missed = {}
  BY DEF Newborn
<1>4. x \in Actor
  <2>1. EmptyStore \in Store
    BY <1>1 DEF Stocked, Sound
  <2> DEFINE e == EmptyStore
             c == FreshCursor(None)
             i == Idle
             o == <<>>
  <2>2. e \in Store /\ c \in Cursor /\ i \in Session /\ o \in Seq(Message)
    BY <1>1, <1>2, <2>1
  <2>3. x = [store |-> e, blobs |-> {}, row |-> c, session |-> i,
             pending |-> None, dirty |-> FALSE, watched |-> FALSE,
             fetching |-> {}, follows |-> FALSE, stirred |-> FALSE,
             out |-> o, missed |-> {}]
    BY DEF Newborn
  <2> HIDE DEF x, e, c, i, o
  <2> QED BY <2>2, <2>3 DEF Actor
<1> HIDE DEF x
<1>5. Healthy(x)
  <2>1. Scene.cap \in Nat
    BY SceneType
  <2>2. Ready(Idle, EmptyStore)
    BY <1>1 DEF Ready
  <2>3. Len(x.out) <= Scene.cap
    BY <1>1, <1>3, <2>1
  <2>4. IsFiniteSet(x.fetching)
    BY <1>3, FS_EmptySet
  <2> QED BY <1>1, <1>3, <1>4, <2>2, <2>3, <2>4 DEF Healthy, Stocked
<1>6. Waits(x)
  BY <1>1, <1>3 DEF Waits
<1>7. Tidy(x, <<>>)
  <2>1. 1 .. Len(x.out) = {} /\ 1 .. Len(<<>>) = {}
    BY <1>1, <1>3
  <2>2. Asks(x) /\ Told(x, <<>>) /\ Once(x, <<>>)
    BY <2>1 DEF Asks, Told, Once
  <2> QED BY <1>3, <2>2 DEF Tidy, Fetches
<1>8. \A c \in Cursors(x) : Zero(c) /\ c.settled = None
  BY <1>1, <1>2, <1>3 DEF Cursors
<1>9. x \in Actor /\ Minds(x, <<>>)
  BY <1>4, <1>5, <1>6, <1>7 DEF Minds
<1> QED BY <1>3, <1>8, <1>9 DEF x

LEMMA PeerStart ==
  ASSUME Init
  PROVE  PeerInv
<1> DEFINE x == Newborn
           t == Newborn
<1>1. /\ scene \in DOMAIN Scenes /\ up = FALSE
      /\ node = [n \in Node |-> Newborn]
      /\ drops = 0 /\ faults = 0 /\ demands = 0
  BY DEF Init
<1>2. Follower = x /\ Server = t
  BY <1>1, OtherType DEF Follower, Server
<1>3. /\ x \in Actor /\ Minds(x, <<>>)
      /\ x.store = EmptyStore /\ x.out = <<>>
      /\ x.session = Idle /\ x.pending = None
      /\ ~x.dirty /\ ~x.watched /\ ~x.follows /\ ~x.stirred
      /\ \A c \in Cursors(x) : Zero(c) /\ c.settled = None
      /\ Idle.phase = "idle" /\ Len(<<>>) = 0 /\ 1 .. 0 = {}
      /\ Stocked(EmptyStore)
  BY <1>1, NewbornMinds, IdleType, NoMessages, EmptyStocked
<1> HIDE DEF x, t
<1>4. x = t
  BY DEF x, t
<1>5. 1 .. Len(x.out) = {}
  BY <1>3
<1>6. Roles(x, t) /\ Off(x, t) /\ Ours(x)
  BY <1>3, <1>4, <1>5 DEF Roles, Off, Ours
<1> DEFINE s == Shown(t, "server")
<1>7. Learned(x, t.out, s)
  <2>1. Sound(s)
    <3>1. Healthy(t)
      BY <1>3, <1>4 DEF Minds
    <3> QED BY <3>1, ShownSound
  <2> HIDE DEF s
  <2>2. Covered(0, s, x.store)
    BY <2>1, CoveredZero
  <2>3. Knowing(x, s)
    BY <1>3, <2>2 DEF Knowing, Held, Zero
  <2>4. Truth(t.out, s) /\ Awaited(x, t.out, s)
    BY <1>4, <1>5 DEF Truth, Awaited
  <2>5. Chasing(x.session, x.store.held \cup Coming(t.out), s)
    BY <1>3 DEF Chasing, Chases
  <2> QED BY <2>3, <2>4, <2>5 DEF Learned
<1>8. Taught(x, t.out, t.store)
  <2>1. Covered(0, x.store, t.store)
    BY <1>3, CoveredZero DEF Stocked
  <2> QED BY <1>3, <1>4, <1>5, <2>1 DEF Taught, Zero
<1>9. Pair(x, t, FALSE, 0)
  BY <1>3, <1>4, <1>6, <1>7, <1>8 DEF Pair
<1>10. /\ 0 \in 0 .. Scene.drops /\ 0 \in 0 .. Scene.faults
       /\ 0 \in 0 .. Scene.demands
  BY <1>1, SceneType
<1>11. node \in [Node -> Actor]
  BY <1>1, <1>3 DEF x
<1> QED BY <1>1, <1>2, <1>9, <1>10, <1>11 DEF PeerInv

(***************************************************************************)
(* The inductive invariant: in every reachable state of every scene what   *)
(* travels between the two actors belongs to what each waits for, and      *)
(* every digest, count and event on its way or cached is true of the two   *)
(* stores.  Lost requests, answers, frames and watches, broken connections *)
(* and failing writes do not disturb it; what does, and is excepted, is    *)
(* news that landed unframed while the follower reconciled: the cache then *)
(* vouches for a claim nobody sends (peer.rs:819-859, 1071-1086,           *)
(* notify.rs:104-140, session.rs:412-556).                                 *)
(***************************************************************************)
THEOREM PeerInvariant == Spec => []PeerInv
<1>1. Init => PeerInv
  BY PeerStart
<1>2. PeerInv /\ [Next]_vars => PeerInv'
  BY PeerStep
<1> QED BY <1>1, <1>2, PTL DEF Spec

-----------------------------------------------------------------------------
(* What follows *)

LEMMA AtMostOne ==
  ASSUME NEW S, \A i, j \in S : i = j
  PROVE  IsFiniteSet(S) /\ Cardinality(S) \in {0, 1} /\ (S # {} => Cardinality(S) = 1)
<1>1. CASE S = {}
  BY <1>1, FS_EmptySet
<1>2. CASE S # {}
  <2>1. PICK i : i \in S
    BY <1>2
  <2>2. S = {i}
    BY <2>1
  <2> QED BY <2>2, FS_Singleton
<1> QED BY <1>1, <1>2

LEMMA MindsOK ==
  ASSUME scene \in DOMAIN Scenes, NEW n, n \in Node,
         Minds(node[n], node[Other(n)].out),
         node[Other(n)].out \in Seq(Message)
  PROVE  NodeOK(n) /\ Correlated(n)
<1> DEFINE x == node[n]
           inn == node[Other(n)].out
           A == {i \in Requests(n) : x.out[i].id = x.pending}
           B == {i \in Responses(Other(n)) : inn[i].id = x.pending}
<1>1. x \in Actor /\ Healthy(x) /\ Waits(x) /\ Tidy(x, inn) /\ inn \in Seq(Message)
  BY DEF Minds, Healthy
<1>2. /\ Requests(n) = {i \in 1 .. Len(x.out) : x.out[i].kind = "request"}
      /\ Responses(Other(n)) = {i \in 1 .. Len(inn) : inn[i].kind = "response"}
  BY <1>1, ActorType, LenProperties DEF Requests, Responses
<1>3. NodeOK(n)
  <2>1. x.session \in Session /\ Len(x.out) <= Scene.cap
    BY <1>1, ActorType DEF Healthy
  <2>2. SessionOK(x.session)
    BY <2>1 DEF Session, SessionOK
  <2> QED BY <1>1, <2>1, <2>2, ActorType DEF NodeOK, Waits
<1>4. /\ \A i \in 1 .. Len(x.out) : x.out[i].id \in Nat
      /\ \A i \in 1 .. Len(inn) : inn[i].id \in Nat
  <2>1. x.out \in Seq(Message)
    BY <1>1, ActorType
  <2>2. /\ \A i \in 1 .. Len(x.out) : x.out[i] \in Message
        /\ \A i \in 1 .. Len(inn) : inn[i] \in Message
    BY <1>1, <2>1, ElementOfSeq
  <2> QED BY <2>2, MessageType
<1>5. x.pending # 0 /\ x.pending \notin Fetches(x) /\ None \notin Nat
  BY <1>1, ActorType, PeerAssumption DEF Tidy
<1>6. \A i \in Requests(n) :
        x.out[i].id = x.pending => x.out[i].body = Question(x.session)
  BY <1>1, <1>2, <1>5 DEF Tidy, Asks, Fetches
<1>7. \A i \in Responses(Other(n)) :
        inn[i].id = x.pending => inn[i].body \in Expected(x.session.phase)
  BY <1>1, <1>2, <1>5 DEF Tidy, Told, Fits
<1>8. /\ \A i, j \in A : i = j
      /\ \A i, j \in B : i = j
      /\ A = {} \/ B = {}
  <2>1. Once(x, inn)
    BY <1>1 DEF Tidy
  <2>2. /\ \A i \in A : i \in 1 .. Len(x.out) /\ x.out[i].kind = "request"
                       /\ x.out[i].id = x.pending
        /\ \A i \in B : i \in 1 .. Len(inn) /\ inn[i].kind = "response"
                       /\ inn[i].id = x.pending
    BY <1>2
  <2> DEFINE o == x.out
             p == x.pending
  <2>3. p # 0
    BY <1>5
  <2> HIDE DEF A, B, x, inn
  <2>4. \A i, j \in A : i = j
    BY <2>1, <2>2, <2>3 DEF Once
  <2>5. \A i, j \in B : i = j
    BY <2>1, <2>2, <2>3 DEF Once
  <2>6. \A i \in A, j \in B : FALSE
    BY <2>1, <2>2, <2>3 DEF Once
  <2> QED BY <2>4, <2>5, <2>6
<1> HIDE DEF A, B
<1>9. /\ Cardinality(A) \in {0, 1} /\ (A = {} => Cardinality(A) = 0)
      /\ Cardinality(B) \in {0, 1} /\ (B = {} => Cardinality(B) = 0)
  BY <1>8, AtMostOne, FS_EmptySet
<1>10. Cardinality(A) + Cardinality(B) <= 1
  BY <1>8, <1>9
<1> QED BY <1>3, <1>6, <1>7, <1>10 DEF Correlated, A, B

\* The two actors of the invariant, by name.
LEMMA TwoMinds ==
  ASSUME PeerInv, NEW n \in Node
  PROVE  /\ Minds(node[n], node[Other(n)].out)
         /\ node[Other(n)].out \in Seq(Message)
<1>1. Pair(Follower, Server, up, faults)
  BY DEF PeerInv
<1>2. Follower.out \in Seq(Message) /\ Server.out \in Seq(Message)
  BY <1>1, PairTypes
<1>3. Minds(Follower, Server.out) /\ Minds(Server, Follower.out)
  BY <1>1 DEF Pair
<1> QED BY <1>2, <1>3, OtherType DEF Follower, Server

(***************************************************************************)
(* The type invariant: in every reachable state of every scene each actor  *)
(* is of its type, its channel within its capacity; a session waits for    *)
(* exactly one request, and what travels under that request's id is the    *)
(* request or one answer of the shape feed() expects (peer.rs:766-806).    *)
(***************************************************************************)
THEOREM PeerTyped == Spec => []TypeOK
<1>1. PeerInv => TypeOK
  <2> SUFFICES ASSUME PeerInv PROVE TypeOK
    OBVIOUS
  <2>1. ASSUME NEW n \in Node PROVE NodeOK(n) /\ Correlated(n)
    BY TwoMinds, MindsOK DEF PeerInv
  <2> QED BY <2>1 DEF PeerInv, TypeOK
<1> QED BY <1>1, PeerInvariant, PTL

(***************************************************************************)
(* The pull position never runs ahead of what is held: frames and sessions *)
(* write the same cursor row, from copies read at different times, and yet *)
(* every row of the server's log before that position is here, whatever    *)
(* was lost or failed, unless news landed unframed at the server while the *)
(* follower reconciled: no room for the frame, no watch, or a session of   *)
(* the server's own, which tells its taps alone (peer.rs:819-859,          *)
(* 1071-1086, notify.rs:125-140).                                          *)
(***************************************************************************)
THEOREM PeerPullsSound == Spec => []PullSound
<1>1. PeerInv => PullSound
  <2> SUFFICES ASSUME PeerInv, "gap" \notin Missed PROVE Unpulled = {}
    BY DEF PullSound
  <2> DEFINE x == Follower
             t == Server
             s == Shown(t, "server")
  <2>1. Pair(x, t, up, faults)
    BY DEF PeerInv
  <2>2. Learned(x, t.out, s)
    BY <2>1 DEF Pair, Missed
  <2>3. Covered(x.row.pull, s, x.store)
    BY <2>2 DEF Learned, Knowing, Cursors
  <2>4. Healthy(t) /\ Sound(t.store) /\ x.row.pull \in Nat
    BY <2>1, PairTypes, ActorType DEF Cursor, Stocked
  <2>5. CASE Serves("server")
    BY <2>3, <2>5 DEF Shown, Covered, Unpulled
  <2>6. CASE ~Serves("server")
    <3>1. x.row.pull <= Count(EmptyStore)
      BY <2>3, <2>6 DEF Shown, Covered
    <3>2. Count(EmptyStore) = 0
      <4>1. LogRows(EmptyStore, TheLog) = {}
        BY DEF LogRows, EmptyStore
      <4> QED BY <4>1, FS_EmptySet DEF Count, LogLen
    <3>3. \A c \in LogRows(t.store, TheLog) : t.store.arrival[c] \in Nat
      BY <2>4, CountType DEF Sound, Store
    <3> QED BY <2>4, <3>1, <3>2, <3>3 DEF Unpulled
  <2> QED BY <2>5, <2>6
<1> QED BY <1>1, PeerInvariant, PTL

(***************************************************************************)
(* What the push position counts the relay holds: its Ack is worth it, as  *)
(* long as its disk never failed (peer.rs:943-984).                        *)
(***************************************************************************)
THEOREM PeerPushesSound == Spec => []PushSound
<1>1. PeerInv => PushSound
  <2> SUFFICES ASSUME PeerInv, Scene.author = "follower", Scene.relay, faults = 0
               PROVE  \A c \in LogRows(Follower.store, TheLog) :
                        Follower.store.arrival[c] < Follower.row.push =>
                          c \in Server.store.held
    BY DEF PushSound
  <2>1. Taught(Follower, Server.out, Server.store)
    BY DEF PeerInv, Pair
  <2>2. Covered(Follower.row.push, Follower.store, Server.store)
    BY <2>1 DEF Taught, Cursors
  <2> QED BY <2>2 DEF Covered
<1> QED BY <1>1, PeerInvariant, PTL

===============================================================================
