------------------------------ MODULE FeedProofs ------------------------------
(***************************************************************************)
(* Theorems about Feed, for any devices, authors, scenes and orders of     *)
(* hashes: what is in the pipeline, what the badge means, what an edit     *)
(* supersedes, and what stands beside it.                                  *)
(***************************************************************************)
EXTENDS Feed, FiniteSetTheorems, SequenceTheorems, WellFoundedInduction,
        TLAPS

-----------------------------------------------------------------------------
(* What a walk reaches *)

\* Induction on the naturals, for what a set of them has.
LEMMA NatSetInduction ==
  ASSUME NEW S, 0 \in S, \A n \in Nat : n \in S => n + 1 \in S
  PROVE  \A n \in Nat : n \in S
<1> SUFFICES ASSUME Nat \ S # {} PROVE FALSE
  OBVIOUS
<1> DEFINE H == Nat \ S
           R == OpToRel(<, Nat)
<1>1. \E n \in H : \A m \in H : <<m, n>> \notin R
  <2>1. H \subseteq Nat /\ H # {}
    OBVIOUS
  <2>2. IsWellFoundedOn(R, Nat)
    BY NatLessThanWellFounded
  <2> HIDE DEF H, R
  <2> QED BY <2>1, <2>2, WFMin
<1>2. PICK n \in H : \A m \in H : <<m, n>> \notin R
  BY <1>1
<1>3. n - 1 \in Nat /\ n - 1 < n
  OBVIOUS
<1>4. n - 1 \notin S
  BY <1>3
<1>5. <<n - 1, n>> \in R
  BY <1>3 DEF OpToRel
<1> QED BY <1>2, <1>3, <1>4, <1>5

\* One more step of a walk.
Further(next, S) == S \cup UNION {next[i] : i \in S}

\* What a walk has found after each of its first m steps.
IsWalk(next, start, m, w) ==
  w = [n \in 0 .. m |-> IF n = 0 THEN start ELSE Further(next, w[n - 1])]

\* There is such a function: it is extended step by step.
LEMMA WalkExists ==
  ASSUME NEW next, NEW start, NEW m \in Nat
  PROVE  \E w : IsWalk(next, start, m, w)
<1> DEFINE S == {k \in Nat : \E w : IsWalk(next, start, k, w)}
<1>1. 0 \in S
  <2>1. [n \in 0 .. 0 |-> start] = [n \in 0 .. 0 |-> IF n = 0 THEN start
                              ELSE Further(next, [i \in 0 .. 0 |-> start][n - 1])]
    OBVIOUS
  <2> QED BY <2>1 DEF IsWalk
<1>2. ASSUME NEW k \in Nat, k \in S PROVE k + 1 \in S
  <2>1. PICK w : w = [n \in 0 .. k |-> IF n = 0 THEN start ELSE Further(next, w[n - 1])]
    BY <1>2 DEF IsWalk
  <2> DEFINE v == [n \in 0 .. k + 1 |-> IF n = k + 1 THEN Further(next, w[k]) ELSE w[n]]
  <2>2. \A n \in 0 .. k + 1 : v[n] = IF n = 0 THEN start ELSE Further(next, v[n - 1])
    <3> SUFFICES ASSUME NEW n \in 0 .. k + 1
                 PROVE  v[n] = IF n = 0 THEN start ELSE Further(next, v[n - 1])
      OBVIOUS
    <3>1. CASE n = k + 1
      <4>1. v[n] = Further(next, w[k]) /\ v[n - 1] = w[k]
        BY <3>1
      <4> QED BY <3>1, <4>1
    <3>2. CASE n \in 0 .. k
      <4>1. v[n] = w[n] /\ w[n] = IF n = 0 THEN start ELSE Further(next, w[n - 1])
        BY <2>1, <3>2
      <4>2. n # 0 => v[n - 1] = w[n - 1]
        BY <3>2
      <4> QED BY <4>1, <4>2
    <3> QED BY <3>1, <3>2
  <2>3. v = [n \in 0 .. k + 1 |-> IF n = 0 THEN start ELSE Further(next, v[n - 1])]
    BY <2>2
  <2>4. IsWalk(next, start, k + 1, v)
    BY <2>3 DEF IsWalk
  <2> HIDE DEF v
  <2> QED BY <2>4
<1> HIDE DEF S
<1>3. Nat \subseteq S
  BY <1>1, <1>2, NatSetInduction
<1> QED BY <1>3 DEF S

\* Reached is the last value of one.
LEMMA ReachedWalk ==
  ASSUME NEW next, NEW start, NEW c \in Nat, c = Cardinality(DOMAIN next)
  PROVE  \E w : IsWalk(next, start, c, w) /\ Reached(next, start) = w[c]
<1> DEFINE w == CHOOSE w : w = [n \in 0 .. c |->
                  IF n = 0 THEN start ELSE w[n - 1] \cup UNION {next[i] : i \in w[n - 1]}]
<1>1. PICK v : IsWalk(next, start, c, v)
  BY WalkExists
<1>2. w = [n \in 0 .. c |->
             IF n = 0 THEN start ELSE w[n - 1] \cup UNION {next[i] : i \in w[n - 1]}]
  BY <1>1 DEF IsWalk, Further
<1>3. Reached(next, start) = w[c]
  BY DEF Reached
<1> QED BY <1>2, <1>3 DEF IsWalk, Further

\* A walk does not leave S.
Closed(next, S) == \A i \in S : next[i] \subseteq S

\* What a walk reaches is in whatever it starts in and does not leave...
LEMMA ReachedLeast ==
  ASSUME NEW next, NEW start, IsFiniteSet(DOMAIN next), NEW S, start \subseteq S, Closed(next, S)
  PROVE  Reached(next, start) \subseteq S
<1> DEFINE c == Cardinality(DOMAIN next)
<1>1. c \in Nat
  BY FS_CardinalityType
<1>2. PICK w : IsWalk(next, start, c, w) /\ Reached(next, start) = w[c]
  BY <1>1, ReachedWalk
<1> DEFINE P == {n \in Nat : n \in 0 .. c => w[n] \subseteq S}
<1> HIDE DEF c
<1>3. 0 \in P
  BY <1>1, <1>2 DEF IsWalk
<1>4. ASSUME NEW n \in Nat, n \in P PROVE n + 1 \in P
  <2> SUFFICES ASSUME n + 1 \in 0 .. c PROVE w[n + 1] \subseteq S
    OBVIOUS
  <2>1. w[n] \subseteq S
    BY <1>1, <1>4
  <2>2. w[n + 1] = Further(next, w[n])
    <3>1. n + 1 # 0 /\ (n + 1) - 1 = n
      OBVIOUS
    <3> QED BY <1>2, <3>1 DEF IsWalk
  <2> QED BY <2>1, <2>2 DEF Further, Closed
<1> HIDE DEF P
<1>5. \A n \in Nat : n \in P
  BY <1>3, <1>4, NatSetInduction
<1>6. c \in P /\ c \in 0 .. c
  BY <1>1, <1>5
<1> QED BY <1>2, <1>6 DEF P

\* ...and is such a set itself: each step that is not the last adds a node, and
\* the walk is as long as there are nodes.
LEMMA ReachedCloses ==
  ASSUME NEW next, NEW start, IsFiniteSet(DOMAIN next), start \subseteq DOMAIN next,
         \A i \in DOMAIN next : next[i] \subseteq DOMAIN next
  PROVE  /\ start \subseteq Reached(next, start)
         /\ Reached(next, start) \subseteq DOMAIN next
         /\ Closed(next, Reached(next, start))
<1> DEFINE D == DOMAIN next
           c == Cardinality(D)
<1>1. c \in Nat
  BY FS_CardinalityType
<1>2. PICK w : IsWalk(next, start, c, w) /\ Reached(next, start) = w[c]
  BY <1>1, ReachedWalk
<1> DEFINE Grown(n) == /\ start \subseteq w[n] /\ w[n] \subseteq D
                       /\ Closed(next, w[n]) \/ Cardinality(w[n]) >= n
           P == {n \in Nat : n \in 0 .. c => Grown(n)}
<1>3. 0 \in P
  <2>1. w[0] = start
    BY <1>1, <1>2 DEF IsWalk
  <2>2. Cardinality(start) \in Nat
    BY FS_Subset, FS_CardinalityType
  <2> QED BY <2>1, <2>2
<1>4. ASSUME NEW n \in Nat, n \in P PROVE n + 1 \in P
  <2> SUFFICES ASSUME n + 1 \in 0 .. c PROVE Grown(n + 1)
    OBVIOUS
  <2>1. Grown(n)
    BY <1>1, <1>4
  <2>2. w[n + 1] = Further(next, w[n])
    <3>1. n + 1 # 0 /\ (n + 1) - 1 = n
      OBVIOUS
    <3> HIDE DEF c
    <3> QED BY <1>2, <3>1 DEF IsWalk
  <2>3. w[n] \subseteq w[n + 1] /\ w[n + 1] \subseteq D
    BY <2>1, <2>2 DEF Further
  <2>4. CASE Closed(next, w[n])
    <3>1. w[n + 1] = w[n]
      BY <2>2, <2>4 DEF Further, Closed
    <3> QED BY <2>1, <2>4, <3>1
  <2>5. CASE ~Closed(next, w[n])
    <3>1. w[n + 1] # w[n]
      BY <2>2, <2>5 DEF Further, Closed
    <3>2. IsFiniteSet(w[n + 1]) /\ IsFiniteSet(w[n])
      BY <2>1, <2>3, FS_Subset
    <3>3. /\ Cardinality(w[n]) \in Nat /\ Cardinality(w[n + 1]) \in Nat
          /\ Cardinality(w[n]) <= Cardinality(w[n + 1])
          /\ Cardinality(w[n]) # Cardinality(w[n + 1])
      BY <2>3, <3>1, <3>2, FS_Subset, FS_CardinalityType
    <3>4. Cardinality(w[n]) >= n
      BY <2>1, <2>5
    <3>5. Cardinality(w[n + 1]) >= n + 1
      BY <3>3, <3>4
    <3> QED BY <2>1, <2>3, <3>5
  <2> QED BY <2>4, <2>5
<1>5. \A n \in Nat : n \in P
  <2> HIDE DEF P
  <2> QED BY <1>3, <1>4, NatSetInduction
<1>6. Grown(c)
  BY <1>1, <1>5
<1>7. Closed(next, w[c])
  <2>1. CASE Cardinality(w[c]) >= c
    <3>1. Cardinality(w[c]) = c
      BY <1>1, <1>6, <2>1, FS_Subset, FS_CardinalityType
    <3>2. w[c] = D
      BY <1>6, <3>1, FS_Subset
    <3> QED BY <3>2 DEF Closed
  <2> QED BY <1>6, <2>1
<1> QED BY <1>2, <1>6, <1>7

\* What is reached and was no start was one step away from what is reached.
LEMMA ReachedStep ==
  ASSUME NEW next, NEW start, IsFiniteSet(DOMAIN next), start \subseteq DOMAIN next,
         \A i \in DOMAIN next : next[i] \subseteq DOMAIN next,
         NEW k \in Reached(next, start), k \notin start
  PROVE  \E y \in Reached(next, start) : k \in next[y]
<1> DEFINE R == Reached(next, start)
           S == {x \in R : x \in start \/ \E y \in R : x \in next[y]}
<1>1. start \subseteq R /\ Closed(next, R)
  BY ReachedCloses
<1>2. start \subseteq S
  BY <1>1
<1>3. Closed(next, S)
  BY <1>1 DEF Closed
<1> HIDE DEF S
<1>4. R \subseteq S
  BY <1>2, <1>3, ReachedLeast
<1> QED BY <1>4 DEF S

-----------------------------------------------------------------------------
(* The fold *)

\* What competes for a field is in the view, in the component, and may compete.
LEMMA FrontierKnown ==
  ASSUME NEW view, NEW rec \in Recommendations(view), NEW f \in Field
  PROVE  /\ rec.frontier[f] # {}
         /\ rec.frontier[f] \subseteq Entitled(view, rec.claims)
         /\ rec.frontier[f] \subseteq DOMAIN view \cap rec.claims
         /\ rec.attested \subseteq Attested(view)
<1>1. PICK ids \in {c \in Components(view) : \A g \in Field : Frontier(view, c, g) # {}} :
        rec = [id |-> Smallest(ids), claims |-> ids,
               frontier |-> [g \in Field |-> Frontier(view, ids, g)],
               comments |-> Comments(view, ids), attested |-> ids \cap Attested(view)]
  BY DEF Recommendations
<1>2. Frontier(view, ids, f) # {}
  OBVIOUS
<1>3. rec.claims = ids /\ rec.frontier[f] = Frontier(view, ids, f)
  BY <1>1
<1>4. Frontier(view, ids, f) \subseteq Entitled(view, ids)
  BY DEF Frontier, Candidates
<1>5. Entitled(view, ids) \subseteq DOMAIN view \cap ids
  BY DEF Entitled, OfType
<1>6. rec.attested \subseteq Attested(view)
  BY <1>1
<1> QED BY <1>2, <1>3, <1>4, <1>5, <1>6

\* Among claims there is a smallest by hash.
LEMMA SmallestIn ==
  ASSUME NEW S, S # {}, S \subseteq DOMAIN Hash
  PROVE  Smallest(S) \in S
<1> DEFINE H == {Hash[i] : i \in S}
           R == OpToRel(<, Nat)
<1>1. \A i \in S : Hash[i] \in Nat
  BY FoldAssumption
<1>2. H \subseteq Nat /\ H # {}
  BY <1>1
<1>3. \E n \in H : \A m \in H : <<m, n>> \notin R
  <2>1. IsWellFoundedOn(R, Nat)
    BY NatLessThanWellFounded
  <2> HIDE DEF H, R
  <2> QED BY <1>2, <2>1, WFMin
<1>4. PICK n \in H : \A m \in H : n <= m
  <2>1. PICK n \in H : \A m \in H : <<m, n>> \notin R
    BY <1>3
  <2>2. ASSUME NEW m \in H PROVE n <= m
    <3>1. m \in Nat /\ n \in Nat
      BY <1>2
    <3>2. ~(m < n)
      BY <2>1, <3>1 DEF OpToRel
    <3> QED BY <3>1, <3>2
  <2> QED BY <2>2
<1>5. PICK i \in S : Hash[i] = n
  OBVIOUS
<1>6. \A j \in S : Hash[i] <= Hash[j]
  BY <1>4, <1>5
<1> QED BY <1>6 DEF Smallest

\* There is a largest of finitely many.
LEMMA LargestIn ==
  ASSUME NEW S, S # {}, NEW n \in Nat, S \subseteq 1 .. n
  PROVE  \E c \in S : \A d \in S : d <= c
<1> DEFINE H == {n - c : c \in S}
           R == OpToRel(<, Nat)
<1>1. H \subseteq Nat /\ H # {}
  <2>1. \A c \in S : n - c \in Nat
    OBVIOUS
  <2> QED BY <2>1
<1>2. \E h \in H : \A g \in H : <<g, h>> \notin R
  <2>1. IsWellFoundedOn(R, Nat)
    BY NatLessThanWellFounded
  <2> HIDE DEF H, R
  <2> QED BY <1>1, <2>1, WFMin
<1>3. PICK h \in H : \A g \in H : <<g, h>> \notin R
  BY <1>2
<1>4. PICK c \in S : h = n - c
  OBVIOUS
<1>5. ASSUME NEW d \in S PROVE d <= c
  <2>1. n - d \in H /\ n - d \in Nat /\ n - c \in Nat
    BY <1>1, <1>4
  <2>2. ~(n - d < n - c)
    BY <1>3, <1>4, <2>1 DEF OpToRel
  <2> QED BY <2>2
<1> QED BY <1>5

-----------------------------------------------------------------------------
(* What a recommendation covers *)

\* References go back to earlier claims.
Orderly(view, n) ==
  /\ DOMAIN view \subseteq 1 .. n
  /\ \A i \in DOMAIN view : \A j \in view[i].refs : j < i

\* References among some claims.
Within(view, ids) == [i \in ids |-> view[i].refs \cap ids]

\* Every claim that counts in a thing is reached from refs inside it.
Covers(view, refs, seen) ==
  /\ seen \subseteq Nodes(view)
  /\ \A f \in Field : \A k \in Candidates(view, seen, f) :
       \E c \in refs \cap seen : k \in Reached(Within(view, seen), {c})

\* A claim references what its author had on the screen, and covers all of it.
Heeds(view, refs, knew) ==
  /\ refs \subseteq UNION knew
  /\ \A seen \in knew : Covers(view, refs, seen)

\* Who counts in a thing depends on its claims alone.
LEMMA CandidatesAlike ==
  ASSUME NEW v, NEW w, NEW ids, NEW f \in Field,
         \A i \in ids : i \in DOMAIN v /\ i \in DOMAIN w /\ w[i] = v[i]
  PROVE  Candidates(w, ids, f) = Candidates(v, ids, f)
<1>1. \A types : OfType(w, types) \cap ids = OfType(v, types) \cap ids
  BY DEF OfType
<1>2. RootAuthors(w, ids) = RootAuthors(v, ids)
  BY <1>1 DEF RootAuthors
<1>3. Entitled(w, ids) = Entitled(v, ids)
  BY <1>1, <1>2 DEF Entitled
<1> QED BY <1>3 DEF Candidates, Entitled

\* It does not matter what else is in the view, or referenced.
LEMMA CoversGrows ==
  ASSUME NEW v, NEW w, NEW refs, NEW more, NEW seen, Covers(v, refs, seen), refs \subseteq more,
         \A i \in DOMAIN v : i \in DOMAIN w /\ w[i] = v[i]
  PROVE  Covers(w, more, seen)
<1>1. seen \subseteq Nodes(v)
  BY DEF Covers
<1>2. Nodes(v) \subseteq Nodes(w) /\ Nodes(v) \subseteq DOMAIN v
  BY DEF Nodes, OfType
<1>3. Within(v, seen) = Within(w, seen)
  BY <1>1, <1>2 DEF Within
<1>4. \A f \in Field : Candidates(w, seen, f) = Candidates(v, seen, f)
  BY <1>1, <1>2, CandidatesAlike
<1> QED BY <1>1, <1>2, <1>3, <1>4 DEF Covers

LEMMA HeedsGrows ==
  ASSUME NEW v, NEW w, NEW refs, NEW knew, Heeds(v, refs, knew),
         \A i \in DOMAIN v : i \in DOMAIN w /\ w[i] = v[i]
  PROVE  Heeds(w, refs, knew)
BY CoversGrows DEF Heeds

\* A thing holds what its claims reference.
LEMMA ComponentOf ==
  ASSUME NEW view, NEW n \in Nat, Orderly(view, n), NEW ids \in Components(view)
  PROVE  /\ ids \subseteq Nodes(view)
         /\ \A i \in ids : view[i].refs \cap Nodes(view) \subseteq ids
<1> DEFINE U == Undirected(view)
           N == Nodes(view)
<1>1. PICK i \in N : ids = Reached(U, {i})
  BY DEF Components
<1>2. DOMAIN U = N /\ \A j \in N : U[j] = {k \in N : k \in view[j].refs \/ j \in view[k].refs}
  BY DEF Undirected
<1>3. IsFiniteSet(N)
  <2>1. N \subseteq 1 .. n
    BY DEF Nodes, OfType, Orderly
  <2> QED BY <2>1, FS_Interval, FS_Subset
<1>4. {i} \subseteq ids /\ ids \subseteq N /\ Closed(U, ids)
  <2> HIDE DEF U, N
  <2>1. \A j \in DOMAIN U : U[j] \subseteq DOMAIN U
    BY <1>2
  <2> QED BY <1>1, <1>2, <1>3, <2>1, ReachedCloses
<1> QED BY <1>2, <1>4 DEF Closed

\* What a claim about a recommendation references covers it: of
\* the claims that count for a field and reach k, the latest is undominated.
LEMMA SeenCovers ==
  ASSUME NEW view, NEW n \in Nat, Orderly(view, n), NEW rec \in Recommendations(view)
  PROVE  /\ DominatingRefs(rec) \subseteq rec.claims
         /\ Covers(view, DominatingRefs(rec), rec.claims)
<1> DEFINE N == Nodes(view)
           E == Edges(view)
<1>1. PICK ids \in {c \in Components(view) : \A g \in Field : Frontier(view, c, g) # {}} :
        rec = [id |-> Smallest(ids), claims |-> ids,
               frontier |-> [g \in Field |-> Frontier(view, ids, g)],
               comments |-> Comments(view, ids), attested |-> ids \cap Attested(view)]
  BY DEF Recommendations
<1> DEFINE W == Within(view, ids)
<1>2. /\ rec.claims = ids
      /\ DominatingRefs(rec) =
           (UNION {Frontier(view, ids, f) : f \in Field}) \cup Comments(view, ids)
  BY <1>1 DEF DominatingRefs
<1>3. /\ ids \subseteq N
      /\ \A i \in ids : view[i].refs \cap N \subseteq ids
  BY ComponentOf
<1>4. N \subseteq 1 .. n /\ N \subseteq DOMAIN view
  BY DEF Nodes, OfType, Orderly
<1>5. IsFiniteSet(N) /\ IsFiniteSet(ids)
  <2>1. IsFiniteSet(1 .. n)
    BY FS_Interval
  <2> HIDE DEF N
  <2> QED BY <1>3, <1>4, <2>1, FS_Subset
<1>6. DominatingRefs(rec) \subseteq ids
  BY <1>2 DEF Frontier, Candidates, Entitled, Comments
<1>7. /\ DOMAIN W = ids /\ \A i \in ids : W[i] = view[i].refs \cap ids
      /\ \A i \in DOMAIN W : W[i] \subseteq DOMAIN W
  BY DEF Within
<1>8. ASSUME NEW c \in ids
       PROVE  c \in Reached(W, {c}) /\ Closed(W, Reached(W, {c})) /\ Reached(W, {c}) \subseteq ids
  <2> HIDE DEF W
  <2> QED BY <1>5, <1>7, ReachedCloses
<1>9. DOMAIN E = N /\ \A i \in N : E[i] = view[i].refs \cap N
  BY DEF Edges
<1>10. ASSUME NEW d \in ids, NEW c \in Ancestors(view, d)
       PROVE  c \in Reached(W, {d}) /\ c < d
  <2>1. Ancestors(view, d) = Reached(E, E[d])
    BY DEF Ancestors
  <2>2. E[d] \subseteq Reached(W, {d})
    BY <1>3, <1>7, <1>8, <1>9 DEF Closed
  <2>3. Closed(E, Reached(W, {d}))
    BY <1>3, <1>7, <1>8, <1>9 DEF Closed
  <2>4. E[d] \subseteq {j \in N : j < d}
    BY <1>3, <1>4, <1>9 DEF Orderly
  <2>5. Closed(E, {j \in N : j < d})
    <3>1. ASSUME NEW i \in N, i < d, NEW j \in E[i] PROVE j \in N /\ j < d
      <4>1. j < i /\ j \in N
        BY <1>4, <1>9, <3>1 DEF Orderly
      <4>2. i \in 1 .. n /\ j \in 1 .. n /\ d \in 1 .. n
        BY <1>3, <1>4, <4>1
      <4> QED BY <3>1, <4>1, <4>2
    <3> QED BY <3>1 DEF Closed
  <2> HIDE DEF E, W, N
  <2>6. Reached(E, E[d]) \subseteq Reached(W, {d})
    BY <1>5, <1>9, <2>2, <2>3, ReachedLeast
  <2>7. Reached(E, E[d]) \subseteq {j \in N : j < d}
    BY <1>5, <1>9, <2>4, <2>5, ReachedLeast
  <2> QED BY <1>10, <2>1, <2>6, <2>7
<1>11. ASSUME NEW f \in Field, NEW k \in Candidates(view, ids, f)
       PROVE  \E c \in DominatingRefs(rec) : k \in Reached(W, {c})
  <2> DEFINE H == {c \in Candidates(view, ids, f) : k \in Reached(W, {c})}
  <2>1. k \in Candidates(view, ids, f)
    BY <1>11
  <2>2. Candidates(view, ids, f) \subseteq ids
    BY DEF Candidates, Entitled
  <2>3. H # {} /\ H \subseteq 1 .. n
    BY <1>3, <1>4, <1>8, <2>1, <2>2
  <2>4. PICK c \in H : \A d \in H : d <= c
    <3> HIDE DEF H
    <3> QED BY <2>3, LargestIn
  <2>5. c \notin Dominated(view, Candidates(view, ids, f))
    <3> SUFFICES ASSUME NEW d \in Candidates(view, ids, f), c \in Ancestors(view, d)
                 PROVE  FALSE
      BY DEF Dominated
    <3>1. d \in ids /\ c \in ids /\ c < d /\ c \in Reached(W, {d})
      BY <1>10, <2>2
    <3>2. Reached(W, {c}) \subseteq Reached(W, {d})
      <4>1. {c} \subseteq Reached(W, {d}) /\ Closed(W, Reached(W, {d})) /\ IsFiniteSet(DOMAIN W)
        BY <1>5, <1>7, <1>8, <3>1
      <4> HIDE DEF W
      <4> QED BY <4>1, ReachedLeast
    <3>3. d \in H
      BY <2>4, <3>2
    <3>4. d \in 1 .. n /\ c \in 1 .. n
      BY <2>3, <3>3
    <3> QED BY <2>4, <3>1, <3>3, <3>4
  <2>6. c \in Frontier(view, ids, f)
    BY <2>4, <2>5 DEF Frontier
  <2> QED BY <1>2, <2>4, <2>6
<1> QED BY <1>2, <1>3, <1>6, <1>11 DEF Covers

-----------------------------------------------------------------------------
(***************************************************************************)
(* Claims are numbered as they are written; what landed, what was answered *)
(* and what is shown was written.                                          *)
(***************************************************************************)
Kinds == {"loop", "register", "observer"}

Commands == [what : Kinds, keys : SUBSET Logs]
Answers(ids) == [what : Kinds, view : SUBSET ids]

Written(n) ==
  /\ scene \in Scenes
  /\ n \in Nat /\ n <= scene.max
  /\ DOMAIN claims = 1 .. n
  /\ has \in [Device -> SUBSET (1 .. n)]
  /\ commands \in Seq(Commands)
  /\ answers \in Seq(Answers(has["here"]))
  /\ shown \subseteq has["here"]
  /\ follows \subseteq Logs \ {Me}

Claimed(n) ==
  /\ \A i \in 1 .. n : claims[i] \in ClaimView
  /\ Orderly(claims, n)
  /\ dialog \subseteq (SUBSET (1 .. n)) \X (SUBSET SUBSET (1 .. n))
  /\ pressed \subseteq 1 .. n

(***************************************************************************)
(* The task waits for one command or answer of its own, unless it listens; *)
(* the observer queries once per follow.                                   *)
(***************************************************************************)
Waiting == IF loop = "listen" THEN 0 ELSE 1

Piped ==
  /\ loop \in {"reload", "register", "listen"}
  /\ tap \in -1 .. TapSize
  /\ missed \in BOOLEAN
  /\ Len(commands) + Len(answers) <= Waiting + Cardinality(follows)

(***************************************************************************)
(* An attestation of one's own words was meant: it was written by going on *)
(* the record with them.                                                   *)
(***************************************************************************)
Meant ==
  \A a \in DOMAIN claims : claims[a].type = "attest" =>
    \A t \in claims[a].refs :
      /\ t \in DOMAIN claims
      /\ claims[t].author = claims[a].author => t \in pressed

(***************************************************************************)
(* Whatever was written about things on a screen, or is about to be,       *)
(* references nothing else and covers each of them.                        *)
(***************************************************************************)
Grounded ==
  /\ \A i \in Nodes(claims) : Heeds(claims, claims[i].refs, claims[i].knew)
  /\ \A captured \in dialog : Heeds(claims, captured[1], captured[2])

IInv ==
  /\ \E n \in Nat : Written(n) /\ Claimed(n)
  /\ Piped
  /\ Meant
  /\ Grounded

\* The tap holds at least one item.
LEMMA TapHolds == TapSize \in Nat \ {0}
BY FeedAssumption

\* There are finitely many authors; this device's is one.
LEMMA LogsFinite == IsFiniteSet(Logs) /\ Me \in Logs /\ "here" \in Device
<1>1. IsFiniteSet(Device) /\ "here" \in Device
  BY FeedAssumption
<1>2. Logs = {Author[d] : d \in Device}
  BY DEF Logs
<1>3. Author \in [Device -> Logs] /\ Author \in Surjection(Device, Logs)
  BY <1>2, FeedAssumption DEF Surjection
<1>4. IsFiniteSet(Logs)
  BY <1>1, <1>3, FS_Surjection
<1> QED BY <1>1, <1>2, <1>4 DEF Me

LEMMA InitIInv == Init => IInv
<1> SUFFICES ASSUME Init PROVE IInv
  OBVIOUS
<1>1. "here" \in Device /\ Me \in Logs
  BY LogsFinite
<1>2. /\ scene \in Scenes /\ 1 <= scene.max /\ scene.max \in Nat
      /\ follows = scene.follows /\ follows \subseteq Logs \ {Me}
  BY FeedAssumption DEF Init, Logs, Me
<1>3. commands = <<Query("loop", follows)>> /\ Query("loop", follows) \in Commands
  BY <1>1, <1>2 DEF Init, Query, KeysFor, Kinds, Commands
<1>4. Written(1)
  <2>1. DOMAIN claims = 1 .. 1 /\ shown \subseteq has["here"]
    BY DEF Init
  <2>2. has \in [Device -> SUBSET (1 .. 1)]
    BY DEF Init
  <2>3. commands \in Seq(Commands)
    BY <1>3
  <2>4. answers \in Seq(Answers(has["here"]))
    BY DEF Init
  <2> QED BY <1>2, <2>1, <2>2, <2>3, <2>4 DEF Written
<1>5. claims[1] = [author |-> Me, type |-> "rec", refs |-> {}, sets |-> Field, at |-> 1,
                   knew |-> {}] /\ DOMAIN claims = {1}
  BY DEF Init
<1>6. Claimed(1)
  <2>1. claims[1] \in ClaimView
    BY <1>1, <1>2, <1>5 DEF ClaimView, Ids
  <2> QED BY <1>5, <2>1 DEF Init, Claimed, Orderly
<1>7. Piped
  <2>1. Cardinality(follows) \in Nat
    BY <1>2, LogsFinite, FS_Subset, FS_CardinalityType
  <2>2. Len(commands) = 1 /\ Len(answers) = 0
    BY <1>3 DEF Init
  <2>3. loop = "reload" /\ tap = -1 /\ missed = FALSE
    BY DEF Init
  <2>4. tap \in -1 .. TapSize
    BY <2>3, TapHolds
  <2>5. missed \in BOOLEAN
    BY <2>3
  <2>6. Len(commands) + Len(answers) <= Waiting + Cardinality(follows)
    BY <2>1, <2>2, <2>3 DEF Waiting
  <2> QED BY <2>3, <2>4, <2>5, <2>6 DEF Piped
<1>8. Meant
  BY <1>5 DEF Meant
<1>9. Grounded
  BY <1>5 DEF Init, Grounded, Heeds, Nodes, OfType
<1> QED BY <1>4, <1>6, <1>7, <1>8, <1>9 DEF IInv

-----------------------------------------------------------------------------
(* Writing *)

\* More lands; the answers on their way stay what they are.
LEMMA AnswersGrow ==
  ASSUME NEW S, NEW T, S \subseteq T
  PROVE  Seq(Answers(S)) \subseteq Seq(Answers(T))
<1>1. Answers(S) \subseteq Answers(T)
  BY DEF Answers
<1> QED BY <1>1, SeqMonotonic

\* A claim that lands at most rings the tap.
LEMMA LandsPiped ==
  ASSUME Piped, NEW d \in Device, NEW i, Lands(d, i),
         UNCHANGED <<follows, loop, commands, answers>>
  PROVE  Piped'
<1>1. tap' \in -1 .. TapSize
  <2>1. tap' \in {tap, Emitted}
    BY DEF Lands
  <2>2. tap \in -1 .. TapSize
    BY DEF Piped
  <2> QED BY <2>1, <2>2, TapHolds DEF Emitted
<1>2. missed' \in BOOLEAN
  <2>1. missed' = (missed \/ Gap) \/ missed' = missed
    BY DEF Lands
  <2>2. missed \in BOOLEAN
    BY DEF Piped
  <2> QED BY <2>1, <2>2
<1> QED BY <1>1, <1>2 DEF Piped, Waiting

\* What a view of written claims shows is covered by what is written about it.
LEMMA SeenCoversWritten ==
  ASSUME NEW n \in Nat, Written(n), Claimed(n), NEW d \in Device, NEW rec \in RecsAt(d)
  PROVE  /\ DominatingRefs(rec) \subseteq rec.claims
         /\ Covers(claims, DominatingRefs(rec), rec.claims)
<1>1. PICK ids \in SUBSET (1 .. n) : rec \in Recommendations(View(ids))
  <2>1. shown \subseteq 1 .. n /\ has[d] \subseteq 1 .. n
    BY LogsFinite DEF Written
  <2> QED BY <2>1 DEF RecsAt, Recs
<1> DEFINE view == View(ids)
<1>2. DOMAIN view = ids /\ ids \subseteq DOMAIN claims /\ \A i \in ids : view[i] = claims[i]
  BY DEF View, Written
<1>3. Orderly(view, n)
  BY <1>2 DEF Orderly, Claimed
<1> HIDE DEF view
<1>4. DominatingRefs(rec) \subseteq rec.claims /\ Covers(view, DominatingRefs(rec), rec.claims)
  BY <1>1, <1>3, SeenCovers DEF view
<1> QED BY <1>2, <1>4, CoversGrows

\* So is what is written about several.
LEMMA HeedsWritten ==
  ASSUME NEW n \in Nat, Written(n), Claimed(n), NEW d \in Device, NEW recs \in SUBSET RecsAt(d)
  PROVE  Heeds(claims, UNION {DominatingRefs(rec) : rec \in recs}, {rec.claims : rec \in recs})
<1> DEFINE refs == UNION {DominatingRefs(rec) : rec \in recs}
<1>1. ASSUME NEW rec \in recs
      PROVE  /\ DominatingRefs(rec) \subseteq rec.claims
             /\ Covers(claims, refs, rec.claims)
  <2>1. /\ DominatingRefs(rec) \subseteq rec.claims
        /\ Covers(claims, DominatingRefs(rec), rec.claims)
    BY SeenCoversWritten
  <2>2. DominatingRefs(rec) \subseteq refs
    OBVIOUS
  <2> HIDE DEF refs
  <2> QED BY <2>1, <2>2, CoversGrows
<1> QED BY <1>1 DEF Heeds

\* What is heeded was written.
LEMMA HeededWritten ==
  ASSUME NEW n, Written(n), NEW refs, NEW knew, Heeds(claims, refs, knew)
  PROVE  refs \in SUBSET (1 .. n) /\ knew \in SUBSET SUBSET (1 .. n)
<1>1. \A seen \in knew : seen \subseteq 1 .. n
  BY DEF Heeds, Covers, Nodes, OfType, Written
<1> QED BY <1>1 DEF Heeds

\* A new claim takes the next number; the others stay what they are.
LEMMA WriteAdds ==
  ASSUME NEW n \in Nat, Written(n), Piped, NEW d \in Device,
         NEW type, NEW refs, NEW sets, NEW knew, Write(d, type, refs, sets, knew)
  PROVE  /\ Written(n + 1)' /\ Piped' /\ scene' = scene
         /\ claims'[n + 1] = [author |-> Author[d], type |-> type, refs |-> refs,
                              sets |-> sets, at |-> n + 1, knew |-> knew]
         /\ type \in scene.kinds
         /\ \A j \in 1 .. n : claims'[j] = claims[j]
<1>1. Cardinality(DOMAIN claims) = n
  BY FS_Interval DEF Written
<1> DEFINE claim == [author |-> Author[d], type |-> type, refs |-> refs, sets |-> sets,
                     at |-> n + 1, knew |-> knew]
<1>2. claims' = [j \in (1 .. n) \cup {n + 1} |-> IF j = n + 1 THEN claim ELSE claims[j]]
  BY <1>1 DEF Write, Written
<1>3. n < scene.max /\ type \in scene.kinds
  BY <1>1 DEF Write, MayWrite
<1>4. /\ Lands(d, n + 1)
      /\ UNCHANGED <<scene, follows, loop, commands, answers, shown>>
  BY <1>1 DEF Write
<1>5. (1 .. n) \cup {n + 1} = 1 .. n + 1
  OBVIOUS
<1>6. scene.max \in Nat
  BY FeedAssumption DEF Written
<1>7. has' = [has EXCEPT ![d] = @ \cup {n + 1}]
  BY <1>4 DEF Lands
<1>8. Written(n + 1)'
  <2>1. scene' \in Scenes /\ n + 1 <= scene'.max /\ follows' \subseteq Logs \ {Me}
    BY <1>3, <1>4, <1>6 DEF Written
  <2>2. DOMAIN claims' = 1 .. n + 1
    BY <1>2, <1>5 DEF Written
  <2>3. has' \in [Device -> SUBSET (1 .. n + 1)]
    BY <1>5, <1>7 DEF Written
  <2>4. commands' \in Seq(Commands)
    BY <1>4 DEF Written
  <2>5. has["here"] \subseteq has'["here"]
    BY <1>7, LogsFinite DEF Written
  <2>6. answers' \in Seq(Answers(has'["here"])) /\ shown' \subseteq has'["here"]
    BY <1>4, <2>5, AnswersGrow DEF Written
  <2> QED BY <2>1, <2>2, <2>3, <2>4, <2>6 DEF Written
<1>9. Piped'
  BY <1>4, LandsPiped
<1> QED BY <1>2, <1>3, <1>4, <1>8, <1>9

\* What is written, with references to earlier claims: it heeds what its author
\* saw, or is none of the things; an attestation of one's own words is a press.
LEMMA WriteKeeps ==
  ASSUME NEW n \in Nat, Written(n), Claimed(n), Piped, Meant, Grounded,
         NEW d \in Device, NEW type, NEW refs \in SUBSET (1 .. n), NEW sets \in SUBSET Field,
         NEW knew \in SUBSET SUBSET (1 .. n), Write(d, type, refs, sets, knew),
         pressed \subseteq pressed', pressed' \subseteq 1 .. n, dialog' \subseteq dialog,
         type \in {"rec", "edit", "comment"} => Heeds(claims, refs, knew),
         type = "attest" => \A t \in refs : claims[t].author = Author[d] => t \in pressed'
  PROVE  IInv'
<1> DEFINE claim == [author |-> Author[d], type |-> type, refs |-> refs, sets |-> sets,
                     at |-> n + 1, knew |-> knew]
<1>1. /\ Written(n + 1)' /\ Piped' /\ scene' = scene /\ type \in scene.kinds
      /\ claims'[n + 1] = claim /\ claim.refs = refs /\ claim.author = Author[d]
      /\ claim.type = type
      /\ \A j \in 1 .. n : claims'[j] = claims[j]
  BY WriteAdds
<1>2. DOMAIN claims = 1 .. n /\ DOMAIN claims' = 1 .. n + 1 /\ n + 1 \notin 1 .. n
      /\ 1 .. n + 1 = (1 .. n) \cup {n + 1} /\ n + 1 \in Nat
  BY <1>1 DEF Written
<1>3. Claimed(n + 1)'
  <2>1. claim \in ClaimView'
    <3>1. n + 1 \in 1 .. scene.max /\ scene.max \in Nat /\ 1 .. n \subseteq 1 .. scene.max
      BY <1>1, FeedAssumption DEF Written
    <3>2. Author[d] \in Logs
      BY DEF Logs
    <3> QED BY <1>1, <3>1, <3>2 DEF ClaimView, Ids
  <2>2. ClaimView' = ClaimView
    BY <1>1 DEF ClaimView, Ids
  <2>3. \A i \in 1 .. n + 1 : claims'[i] \in ClaimView'
    BY <1>1, <1>2, <2>1, <2>2 DEF Claimed
  <2>4. ASSUME NEW i \in DOMAIN claims', NEW j \in claims'[i].refs PROVE j < i
    <3>1. CASE i = n + 1
      <4>1. j \in 1 .. n
        BY <1>1, <2>4, <3>1
      <4> QED BY <3>1, <4>1
    <3>2. CASE i \in 1 .. n
      BY <1>1, <1>2, <2>4, <3>2 DEF Claimed, Orderly
    <3> QED BY <1>2, <3>1, <3>2
  <2>5. Orderly(claims', n + 1)
    BY <1>2, <2>4 DEF Orderly
  <2>6. dialog' \subseteq (SUBSET (1 .. n + 1)) \X (SUBSET SUBSET (1 .. n + 1))
    BY <1>2 DEF Claimed
  <2> QED BY <1>2, <2>3, <2>5, <2>6 DEF Claimed
<1>4. Meant'
  <2> SUFFICES ASSUME NEW a \in 1 .. n + 1, claims'[a].type = "attest",
                      NEW t \in claims'[a].refs
               PROVE  /\ t \in 1 .. n + 1
                      /\ claims'[t].author = claims'[a].author => t \in pressed'
    BY <1>2 DEF Meant
  <2>1. CASE a = n + 1
    <3>1. t \in refs /\ t \in 1 .. n /\ type = "attest" /\ claims'[t] = claims[t]
      BY <1>1, <2>1
    <3> QED BY <1>1, <1>2, <2>1, <3>1
  <2>2. CASE a \in 1 .. n
    BY <1>1, <1>2, <2>2 DEF Meant
  <2> QED BY <1>2, <2>1, <2>2
<1>5. \A i \in DOMAIN claims : i \in DOMAIN claims' /\ claims'[i] = claims[i]
  BY <1>1, <1>2
<1>6. Grounded'
  <2>1. ASSUME NEW i \in Nodes(claims') PROVE Heeds(claims', claims'[i].refs, claims'[i].knew)
    <3>1. i \in 1 .. n + 1 /\ claims'[i].type \in {"rec", "edit", "comment"}
      BY <1>2, <2>1 DEF Nodes, OfType
    <3>2. CASE i = n + 1
      <4>1. Heeds(claims, refs, knew)
        BY <1>1, <3>1, <3>2
      <4>2. Heeds(claims', refs, knew)
        BY <1>5, <4>1, HeedsGrows
      <4> QED BY <1>1, <3>2, <4>2
    <3>3. CASE i \in 1 .. n
      <4>1. i \in Nodes(claims) /\ claims'[i] = claims[i]
        BY <1>1, <1>2, <3>1, <3>3 DEF Nodes, OfType
      <4>2. Heeds(claims, claims[i].refs, claims[i].knew)
        BY <4>1 DEF Grounded
      <4>3. Heeds(claims', claims[i].refs, claims[i].knew)
        BY <1>5, <4>2, HeedsGrows
      <4> QED BY <4>1, <4>3
    <3> QED BY <1>2, <3>1, <3>2, <3>3
  <2>2. ASSUME NEW captured \in dialog' PROVE Heeds(claims', captured[1], captured[2])
    <3>1. Heeds(claims, captured[1], captured[2])
      BY <2>2 DEF Grounded
    <3> QED BY <1>5, <3>1, HeedsGrows
  <2> QED BY <2>1, <2>2 DEF Grounded
<1> QED BY <1>1, <1>2, <1>3, <1>4, <1>6 DEF IInv

\* Whatever is on a screen or a device is a claim that was written.
LEMMA FrontierWritten ==
  ASSUME NEW n \in Nat, Written(n), NEW d \in Device, NEW rec \in RecsAt(d), NEW f \in Field
  PROVE  rec.frontier[f] \subseteq DOMAIN claims
<1>1. PICK ids \in SUBSET (1 .. n) : rec \in Recommendations(View(ids))
  BY LogsFinite DEF Written, RecsAt, Recs
<1>2. rec.frontier[f] \subseteq DOMAIN View(ids)
  BY <1>1, FrontierKnown
<1>3. DOMAIN View(ids) = ids
  BY DEF View
<1> QED BY <1>1, <1>2, <1>3 DEF Written

LEMMA WritesKeep ==
  ASSUME IInv, NEW d \in Device,
         \/ NewRec(d) \/ Profile(d) \/ Comment(d) \/ EditRecsAt(d) \/ StrayClaim(d)
         \/ Attest(d) \/ StrayAttest(d) \/ SubmitEdit
  PROVE  IInv'
<1>1. PICK n \in Nat : Written(n) /\ Claimed(n)
  BY DEF IInv
<1>2. Grounded
  BY DEF IInv
<1>3. Piped /\ Meant /\ pressed \subseteq 1 .. n /\ DOMAIN claims = 1 .. n
  BY <1>1 DEF IInv, Claimed, Written
<1>4. ASSUME NEW e \in Device, NEW type \in {"rec", "profile"}, NEW sets \in SUBSET Field,
             Write(e, type, {}, sets, {}), UNCHANGED <<dialog, pressed>>
      PROVE  IInv'
  <2>1. Heeds(claims, {}, {})
    BY DEF Heeds
  <2> QED BY <1>1, <1>2, <1>3, <1>4, <2>1, WriteKeeps
<1>5. ASSUME NEW e \in Device, NEW type \in {"rec", "edit", "comment"}, NEW sets \in SUBSET Field,
             NEW refs, NEW knew, Heeds(claims, refs, knew),
             Write(e, type, refs, sets, knew), dialog' \subseteq dialog, pressed' = pressed
      PROVE  IInv'
  <2>1. refs \in SUBSET (1 .. n) /\ knew \in SUBSET SUBSET (1 .. n)
    BY <1>1, <1>5, HeededWritten
  <2> QED BY <1>1, <1>2, <1>3, <1>5, <2>1, WriteKeeps
<1>6. ASSUME NEW rec \in RecsAt(d), NEW type \in {"edit", "comment"}, NEW sets \in SUBSET Field,
             Write(d, type, DominatingRefs(rec), sets, {rec.claims}), UNCHANGED <<dialog, pressed>>
      PROVE  IInv'
  <2>1. Heeds(claims, DominatingRefs(rec), {rec.claims})
    BY <1>1, SeenCoversWritten DEF Heeds
  <2> QED BY <1>5, <1>6, <2>1
<1>7. CASE NewRec(d)
  BY <1>4, <1>7 DEF NewRec
<1>8. CASE Profile(d)
  BY <1>4, <1>8 DEF Profile
<1>9. CASE Comment(d)
  BY <1>6, <1>9 DEF Comment
<1>10. CASE EditRecsAt(d)
  BY <1>6, <1>10 DEF EditRecsAt
<1>11. CASE StrayClaim(d)
  <2>1. PICK recs \in SUBSET RecsAt(d), type \in {"rec", "edit", "comment"} :
           /\ Write(d, type, UNION {DominatingRefs(rec) : rec \in recs},
                    IF type = "comment" THEN {} ELSE {"subject"}, {rec.claims : rec \in recs})
           /\ UNCHANGED <<dialog, pressed>>
    BY <1>11 DEF StrayClaim
  <2>2. Heeds(claims, UNION {DominatingRefs(rec) : rec \in recs}, {rec.claims : rec \in recs})
    BY <1>1, HeedsWritten
  <2>3. (IF type = "comment" THEN {} ELSE {"subject"}) \in SUBSET Field
    BY DEF Field
  <2> QED BY <1>5, <2>1, <2>2, <2>3
<1>12. CASE SubmitEdit
  <2>1. PICK captured \in dialog :
           /\ Write("here", "edit", captured[1], Field, captured[2])
           /\ dialog' = {} /\ pressed' = pressed
    BY <1>12 DEF SubmitEdit
  <2>2. Heeds(claims, captured[1], captured[2])
    BY <1>2, <2>1 DEF Grounded
  <2> QED BY <1>5, <2>1, <2>2, LogsFinite
<1>13. CASE Attest(d)
  <2>1. PICK rec \in RecsAt(d) : \E i \in AttestTargets(claims, rec, Author[d]) :
           Write(d, "attest", {i}, {}, {}) /\ pressed' = pressed \cup {i} /\ dialog' = dialog
    BY <1>13 DEF Attest
  <2>2. PICK i \in AttestTargets(claims, rec, Author[d]) :
           Write(d, "attest", {i}, {}, {}) /\ pressed' = pressed \cup {i} /\ dialog' = dialog
    BY <2>1
  <2>3. i \in 1 .. n
    BY <1>1, <1>3, FrontierWritten DEF AttestTargets
  <2> QED BY <1>1, <1>2, <1>3, <2>2, <2>3, WriteKeeps
<1>14. CASE StrayAttest(d)
  <2>1. PICK i \in has[d] : /\ claims[i].author # Author[d]
                            /\ Write(d, "attest", {i}, {}, {})
                            /\ UNCHANGED <<dialog, pressed>>
    BY <1>14 DEF StrayAttest
  <2>2. i \in 1 .. n
    BY <1>1 DEF Written
  <2> QED BY <1>1, <1>2, <1>3, <2>1, <2>2, WriteKeeps
<1> QED BY <1>7, <1>8, <1>9, <1>10, <1>11, <1>12, <1>13, <1>14

-----------------------------------------------------------------------------
(* Landing, following, reading *)

\* A step that writes no claim keeps what claims and dialogs say.
LEMMA UnwrittenKeeps ==
  ASSUME IInv, UNCHANGED <<scene, claims, dialog, pressed>>, Piped',
         \A n \in Nat : Written(n) => Written(n)'
  PROVE  IInv'
<1>1. PICK n \in Nat : Written(n) /\ Claimed(n)
  BY DEF IInv
<1>2. Claimed(n)'
  <2>1. ClaimView' = ClaimView
    BY DEF ClaimView, Ids
  <2> QED BY <1>1, <2>1 DEF Claimed
<1>3. Meant'
  BY DEF IInv, Meant
<1>4. Grounded'
  BY DEF IInv, Grounded
<1> QED BY <1>1, <1>2, <1>3, <1>4 DEF IInv

LEMMA ArriveKeeps ==
  ASSUME IInv, NEW d \in Device, NEW i \in Ids, Arrive(d, i)
  PROVE  IInv'
<1>1. ASSUME NEW n \in Nat, Written(n) PROVE Written(n)'
  <2>1. has' = [has EXCEPT ![d] = @ \cup {i}] /\ i \in 1 .. n
    BY <1>1 DEF Arrive, Lands, Written
  <2>2. has' \in [Device -> SUBSET (1 .. n)] /\ has["here"] \subseteq has'["here"]
    BY <1>1, <2>1, LogsFinite DEF Written
  <2>3. answers' \in Seq(Answers(has'["here"]))
    BY <1>1, <2>2, AnswersGrow DEF Arrive, Written
  <2> QED BY <1>1, <2>2, <2>3 DEF Arrive, Written
<1>2. Piped'
  BY LandsPiped DEF Arrive, IInv
<1> QED BY <1>1, <1>2, UnwrittenKeeps DEF Arrive

\* Follows are finitely many; queues have lengths.
LEMMA PipeLengths ==
  ASSUME IInv
  PROVE  /\ Len(commands) \in Nat /\ Len(answers) \in Nat
         /\ IsFiniteSet(follows) /\ Cardinality(follows) \in Nat
<1>1. PICK n \in Nat : Written(n)
  BY DEF IInv
<1>2. IsFiniteSet(follows)
  BY <1>1, LogsFinite, FS_Subset DEF Written
<1> QED BY <1>1, <1>2, FS_CardinalityType, LenProperties DEF Written

LEMMA FollowKeeps ==
  ASSUME IInv, NEW f \in Logs, Follow(f)
  PROVE  IInv'
<1>1. commands' = Append(commands, Query("observer", follows'))
      /\ follows' = follows \cup {f} /\ f \notin follows \cup {Me}
  BY DEF Follow, Observed
<1>2. ASSUME NEW n \in Nat, Written(n) PROVE Written(n)'
  <2>1. follows' \subseteq Logs \ {Me}
    BY <1>1, <1>2 DEF Written
  <2>2. Query("observer", follows') \in Commands
    BY <2>1, LogsFinite DEF Query, KeysFor, Kinds, Commands
  <2>3. commands' \in Seq(Commands)
    BY <1>1, <1>2, <2>2, AppendProperties DEF Written
  <2> QED BY <1>2, <2>1, <2>3 DEF Follow, Written
<1>3. Piped'
  <2>1. PICK n \in Nat : Written(n) /\ Written(n)'
    BY <1>2 DEF IInv
  <2>2. Len(commands') = Len(commands) + 1
    BY <1>1, <2>1 DEF Written
  <2>3. Cardinality(follows') = Cardinality(follows) + 1
    BY <1>1, PipeLengths, FS_AddElement
  <2>4. UNCHANGED <<loop, tap, missed, answers>>
    BY DEF Follow
  <2> QED BY <2>2, <2>3, <2>4, PipeLengths DEF IInv, Piped, Waiting
<1> QED BY <1>2, <1>3, UnwrittenKeeps DEF Follow

LEMMA ActorKeeps ==
  ASSUME IInv, ActorTurn
  PROVE  IInv'
<1>1. ASSUME NEW n \in Nat, Written(n)
      PROVE  Written(n)' /\ Len(commands') = Len(commands) - 1 /\ Len(answers') = Len(answers) + 1
  <2> DEFINE Answer == Answers(has["here"])
  <2>1. commands \in Seq(Commands) /\ commands # <<>> /\ answers \in Seq(Answer)
    BY <1>1 DEF ActorTurn, Written
  <2>2. commands' \in Seq(Commands) /\ Head(commands) \in Commands
        /\ Len(commands') = Len(commands) - 1
    BY <2>1, HeadTailProperties DEF ActorTurn
  <2>3. PICK answer \in Answer : answers' = Append(answers, answer)
    <3>1. CASE Head(commands).what = "register"
      <4>1. [what |-> "register", view |-> {}] \in Answer
        BY DEF Kinds, Answers
      <4> QED BY <3>1, <4>1 DEF ActorTurn
    <3>2. CASE Head(commands).what # "register"
      <4>1. [what |-> Head(commands).what,
             view |-> Opened(has["here"], Head(commands).keys)] \in Answer
        BY <2>2 DEF Opened, Answers, Commands
      <4> QED BY <3>2, <4>1 DEF ActorTurn
    <3> QED BY <3>1, <3>2
  <2>4. answers' \in Seq(Answer) /\ Len(answers') = Len(answers) + 1
    <3> HIDE DEF Answer
    <3> QED BY <2>1, <2>3, AppendProperties
  <2> QED BY <1>1, <2>2, <2>4 DEF ActorTurn, Written
<1>2. Piped'
  <2>1. Len(commands') = Len(commands) - 1 /\ Len(answers') = Len(answers) + 1
    BY <1>1 DEF IInv
  <2>2. tap' \in {0, tap} /\ UNCHANGED <<loop, follows>>
    BY DEF ActorTurn
  <2>3. tap' \in -1 .. TapSize
    BY <2>2, TapHolds DEF IInv, Piped
  <2>4. missed' = FALSE \/ missed' = missed
    BY DEF ActorTurn
  <2>5. missed' \in BOOLEAN
    BY <2>4 DEF IInv, Piped
  <2> QED BY <2>1, <2>2, <2>3, <2>5, PipeLengths DEF IInv, Piped, Waiting
<1> QED BY <1>1, <1>2, UnwrittenKeeps DEF ActorTurn

LEMMA ForegroundKeeps ==
  ASSUME IInv, Foreground
  PROVE  IInv'
<1>1. ASSUME NEW n \in Nat, Written(n)
      PROVE  /\ Written(n)' /\ Len(answers') = Len(answers) - 1
             /\ commands' = commands \/ Len(commands') = Len(commands) + 1
  <2> DEFINE Answer == Answers(has["here"])
  <2>1. answers \in Seq(Answer) /\ answers # <<>> /\ commands \in Seq(Commands)
    BY <1>1 DEF Foreground, Written
  <2>2. answers' \in Seq(Answer) /\ Head(answers) \in Answer /\ Len(answers') = Len(answers) - 1
    <3> HIDE DEF Answer
    <3> QED BY <2>1, HeadTailProperties DEF Foreground
  <2>3. shown' \subseteq has["here"]
    BY <1>1, <2>2 DEF Foreground, Written, Answers
  <2>4. Query("register", {}) \in Commands
    BY LogsFinite DEF Query, KeysFor, Kinds, Commands
  <2>5. commands' \in {commands, Append(commands, Query("register", {}))}
    BY DEF Foreground, Continued
  <2>6. /\ commands' \in Seq(Commands)
        /\ commands' = commands \/ Len(commands') = Len(commands) + 1
    <3> DEFINE appended == Append(commands, Query("register", {}))
    <3>1. appended \in Seq(Commands) /\ Len(appended) = Len(commands) + 1
      <4> HIDE DEF Answer
      <4> QED BY <2>1, <2>4, AppendProperties
    <3> HIDE DEF appended
    <3>2. commands' = commands \/ commands' = appended
      BY <2>5 DEF appended
    <3> QED BY <2>1, <3>1, <3>2
  <2> QED BY <1>1, <2>2, <2>3, <2>6 DEF Foreground, Written
<1>2. Piped'
  <2>1. /\ Len(answers') = Len(answers) - 1
        /\ commands' = commands \/ Len(commands') = Len(commands) + 1
    BY <1>1 DEF IInv
  <2>2. UNCHANGED <<follows, tap, missed>> /\ Continued(Head(answers).what)
    BY DEF Foreground
  <2>3. CASE loop' = "register" /\ loop = "reload"
    BY <2>1, <2>2, <2>3, PipeLengths DEF IInv, Piped, Waiting
  <2>4. CASE loop' \in {loop, "listen"} /\ commands' = commands
    BY <2>1, <2>2, <2>4, PipeLengths DEF IInv, Piped, Waiting
  <2> QED BY <2>2, <2>3, <2>4 DEF Continued
<1> QED BY <1>1, <1>2, UnwrittenKeeps DEF Foreground

LEMMA HeardKeeps ==
  ASSUME IInv, Heard
  PROVE  IInv'
<1>1. ASSUME NEW n \in Nat, Written(n)
      PROVE  Written(n)' /\ Len(commands') = Len(commands) + 1
  <2>1. Query("loop", follows) \in Commands
    BY <1>1, LogsFinite DEF Query, KeysFor, Kinds, Commands, Written
  <2>2. commands' \in Seq(Commands) /\ Len(commands') = Len(commands) + 1
    BY <1>1, <2>1, AppendProperties DEF Heard, Written
  <2> QED BY <1>1, <2>2 DEF Heard, Written
<1>2. Piped'
  <2>1. Len(commands') = Len(commands) + 1
    BY <1>1 DEF IInv
  <2>2. /\ loop = "listen" /\ loop' = "reload" /\ tap > 0 /\ tap' = tap - 1
        /\ UNCHANGED <<answers, follows, missed>>
    BY DEF Heard
  <2> QED BY <2>1, <2>2, PipeLengths, TapHolds DEF IInv, Piped, Waiting
<1> QED BY <1>1, <1>2, UnwrittenKeeps DEF Heard

\* An edit that is opened captures what covers what is shown.
LEMMA OpenKeeps ==
  ASSUME IInv, OpenEdit
  PROVE  IInv'
<1>1. PICK n \in Nat : Written(n) /\ Claimed(n)
  BY DEF IInv
<1>2. PICK rec \in RecsAt("here") : dialog' = {<<DominatingRefs(rec), {rec.claims}>>}
  BY DEF OpenEdit
<1>3. UNCHANGED <<scene, claims, has, tap, pressed>> /\ UNCHANGED pipeline
  BY DEF OpenEdit
<1>4. Heeds(claims, DominatingRefs(rec), {rec.claims})
  BY <1>1, <1>2, LogsFinite, SeenCoversWritten DEF Heeds
<1>5. DominatingRefs(rec) \in SUBSET (1 .. n) /\ {rec.claims} \in SUBSET SUBSET (1 .. n)
  BY <1>1, <1>4, HeededWritten
<1>6. Written(n)'
  BY <1>1, <1>3 DEF Written, pipeline
<1>7. Claimed(n)'
  <2>1. ClaimView' = ClaimView
    BY <1>3 DEF ClaimView, Ids
  <2>2. dialog' \subseteq (SUBSET (1 .. n)) \X (SUBSET SUBSET (1 .. n))
    BY <1>2, <1>5
  <2> QED BY <1>1, <1>3, <2>1, <2>2 DEF Claimed
<1>8. Piped' /\ Meant'
  BY <1>3 DEF IInv, Piped, Meant, pipeline, Waiting
<1>9. Grounded'
  BY <1>2, <1>3, <1>4 DEF IInv, Grounded
<1> QED BY <1>6, <1>7, <1>8, <1>9 DEF IInv

LEMMA NextIInv == IInv /\ [Next]_vars => IInv'
<1> SUFFICES ASSUME IInv, [Next]_vars PROVE IInv'
  OBVIOUS
<1>1. ASSUME NEW d \in Device, NEW i \in Ids, Arrive(d, i) PROVE IInv'
  BY <1>1, ArriveKeeps
<1>2. ASSUME NEW d \in Device,
             NewRec(d) \/ Profile(d) \/ Comment(d) \/ EditRecsAt(d) \/ StrayClaim(d)
               \/ Attest(d) \/ StrayAttest(d)
      PROVE  IInv'
  BY <1>2, WritesKeep
<1>3. CASE OpenEdit
  BY <1>3, OpenKeeps
<1>4. CASE SubmitEdit
  BY <1>4, LogsFinite, WritesKeep
<1>5. ASSUME NEW f \in Logs, Follow(f) PROVE IInv'
  BY <1>5, FollowKeeps
<1>6. CASE ActorTurn
  BY <1>6, ActorKeeps
<1>7. CASE Foreground
  BY <1>7, ForegroundKeeps
<1>8. CASE Heard
  BY <1>8, HeardKeeps
<1>9. CASE UNCHANGED vars
  <2>1. \A n \in Nat : Written(n) => Written(n)'
    BY <1>9 DEF vars, Written
  <2>2. Piped'
    BY <1>9 DEF vars, IInv, Piped, Waiting
  <2> QED BY <1>9, <2>1, <2>2, UnwrittenKeeps DEF vars
<1> QED BY <1>1, <1>2, <1>3, <1>4, <1>5, <1>6, <1>7, <1>8, <1>9 DEF Next

LEMMA Invariance == Spec => []IInv
<1> QED BY InitIInv, NextIInv, PTL DEF Spec

(***************************************************************************)
(* What crosses the pipeline is what the task and the observer sent: one   *)
(* command or answer of the task, and one per follow; what is captured,    *)
(* pressed and shown exists.                                               *)
(***************************************************************************)
THEOREM FeedTyped == Spec => []TypeOK
<1>1. ASSUME IInv PROVE TypeOK
  <2>1. PICK n \in Nat : Written(n) /\ Claimed(n)
    BY <1>1 DEF IInv
  <2>2. DOMAIN claims = 1 .. n /\ 1 .. n \subseteq Ids
    BY <2>1, FeedAssumption DEF Written, Ids
  <2>3. Len(commands) + Len(answers) <= 1 + Cardinality(follows)
    BY <1>1, PipeLengths DEF IInv, Piped, Waiting
  <2>4. dialog \subseteq (SUBSET Ids) \X (SUBSET SUBSET Ids)
    BY <2>1, <2>2 DEF Claimed
  <2> QED BY <1>1, <2>1, <2>2, <2>3, <2>4 DEF IInv, Written, Claimed, Piped, TypeOK
<1> QED BY <1>1, Invariance, PTL

-----------------------------------------------------------------------------
(* What is on the screen *)

\* The words shown are of a claim that was written, and competes for them.
LEMMA CurrentKnown ==
  ASSUME IInv, NEW rec \in RecsAt("here"), NEW f \in Field
  PROVE  /\ Current(rec, f) \in shown
         /\ Current(rec, f) \in Entitled(View(shown), rec.claims)
         /\ rec.attested \subseteq Attested(View(shown))
<1>1. PICK n \in Nat : Written(n)
  BY DEF IInv
<1>2. rec \in Recommendations(View(shown)) /\ DOMAIN View(shown) = shown
  BY DEF RecsAt, Recs, View
<1>3. /\ rec.frontier[f] # {}
      /\ rec.frontier[f] \subseteq Entitled(View(shown), rec.claims)
      /\ rec.frontier[f] \subseteq shown
      /\ rec.attested \subseteq Attested(View(shown))
  BY <1>2, FrontierKnown
<1>4. shown \subseteq DOMAIN Hash
  BY <1>1, FeedAssumption DEF Written
<1> QED BY <1>3, <1>4, SmallestIn DEF Current

(***************************************************************************)
(* "On the record" is shown only of words whose author went on it, whoever *)
(* else attests them and whatever was edited since (rec.rs:25-31, 58-72).  *)
(***************************************************************************)
THEOREM RecordIsMeant == Spec => []RecordMeant
<1>1. ASSUME IInv PROVE RecordMeant
  <2> SUFFICES ASSUME NEW rec \in RecsAt("here"), OnTheRecord(rec), NEW f \in Field
               PROVE  Current(rec, f) \in pressed
    BY DEF RecordMeant
  <2> DEFINE c == Current(rec, f)
             view == View(shown)
  <2>1. c \in Attested(view)
    BY <1>1, CurrentKnown DEF OnTheRecord
  <2>2. PICK a \in OfType(view, {"attest"}) : c \in view[a].refs \cap DOMAIN view
                                              /\ view[c].author = view[a].author
    BY <2>1 DEF Attested
  <2>3. DOMAIN view = shown /\ \A i \in shown : view[i] = claims[i]
    BY DEF View
  <2>4. shown \subseteq DOMAIN claims
    BY <1>1, LogsFinite DEF IInv, Written
  <2>5. /\ a \in DOMAIN claims /\ claims[a].type = "attest"
        /\ c \in claims[a].refs /\ claims[c].author = claims[a].author
    BY <2>2, <2>3, <2>4 DEF OfType
  <2> QED BY <1>1, <2>5 DEF IInv, Meant
<1> QED BY <1>1, Invariance, PTL

-----------------------------------------------------------------------------
(* What competes *)

\* The fold of a thing on the screen is one of claims as they were written.
LEMMA OnScreen ==
  ASSUME NEW n \in Nat, Written(n), Claimed(n), NEW rec \in RecsAt("here"), NEW f \in Field
  PROVE  LET view == View(shown)
             ids == rec.claims
         IN /\ ids \subseteq Nodes(view) /\ Nodes(view) \subseteq Nodes(claims)
            /\ IsFiniteSet(Nodes(view))
            /\ \A i \in Nodes(view) : view[i] = claims[i]
            /\ \A i \in ids : view[i].refs \cap Nodes(view) \subseteq ids
            /\ Candidates(view, ids, f) = Candidates(claims, ids, f)
            /\ rec.frontier[f] = Frontier(view, ids, f)
<1> DEFINE view == View(shown)
           ids == rec.claims
<1>1. DOMAIN view = shown /\ \A i \in shown : view[i] = claims[i]
  BY DEF View
<1>2. shown \subseteq 1 .. n /\ DOMAIN claims = 1 .. n
  BY LogsFinite DEF Written
<1>3. rec \in Recommendations(view)
  BY DEF RecsAt, Recs
<1>4. Orderly(view, n)
  BY <1>1, <1>2 DEF Claimed, Orderly
<1>5. ids \in Components(view) /\ rec.frontier[f] = Frontier(view, ids, f)
  BY <1>3 DEF Recommendations
<1>6. ids \subseteq Nodes(view) /\ \A i \in ids : view[i].refs \cap Nodes(view) \subseteq ids
  <2> HIDE DEF view, ids
  <2> QED BY <1>4, <1>5, ComponentOf
<1>7. /\ Nodes(view) \subseteq shown /\ Nodes(view) \subseteq Nodes(claims)
      /\ \A i \in Nodes(view) : view[i] = claims[i]
  BY <1>1, <1>2 DEF Nodes, OfType
<1>8. Candidates(view, ids, f) = Candidates(claims, ids, f)
  <2>1. \A i \in ids : i \in DOMAIN claims /\ i \in DOMAIN view /\ view[i] = claims[i]
    BY <1>1, <1>2, <1>6, <1>7
  <2> HIDE DEF view, ids
  <2> QED BY <2>1, CandidatesAlike
<1>9. IsFiniteSet(Nodes(view))
  <2>1. IsFiniteSet(1 .. n)
    BY FS_Interval
  <2> QED BY <1>2, <1>7, <2>1, FS_Subset
<1> QED BY <1>5, <1>6, <1>7, <1>8, <1>9

\* Ancestors are what references lead to.
LEMMA AncestorsOf ==
  ASSUME NEW view, IsFiniteSet(Nodes(view)), NEW i \in Nodes(view)
  PROVE  LET E == Edges(view)
         IN /\ DOMAIN E = Nodes(view)
            /\ \A j \in Nodes(view) : E[j] = view[j].refs \cap Nodes(view)
            /\ E[i] \subseteq Ancestors(view, i) /\ Closed(E, Ancestors(view, i))
            /\ \A k \in Ancestors(view, i) \ E[i] : \E y \in Ancestors(view, i) : k \in E[y]
<1> DEFINE E == Edges(view)
<1>1. DOMAIN E = Nodes(view) /\ \A j \in Nodes(view) : E[j] = view[j].refs \cap Nodes(view)
  BY DEF Edges
<1>2. Ancestors(view, i) = Reached(E, E[i]) /\ E[i] \subseteq DOMAIN E
  BY <1>1 DEF Ancestors
<1>3. \A j \in DOMAIN E : E[j] \subseteq DOMAIN E
  BY <1>1
<1>4. E[i] \subseteq Ancestors(view, i) /\ Closed(E, Ancestors(view, i))
  <2> HIDE DEF E
  <2> QED BY <1>1, <1>2, <1>3, ReachedCloses
<1>5. \A k \in Ancestors(view, i) \ E[i] : \E y \in Ancestors(view, i) : k \in E[y]
  <2> HIDE DEF E
  <2> QED BY <1>1, <1>2, <1>3, ReachedStep
<1> QED BY <1>1, <1>4, <1>5

(***************************************************************************)
(* What counted in a thing an edit's author had on the screen is           *)
(* superseded wherever all of it is shown (edit_recommendation.rs:17-21),  *)
(* whatever linked it to other things since: among several words of a      *)
(* field, the edit reaches every one that counted there, directly or       *)
(* through what it references.                                             *)
(***************************************************************************)
THEOREM EditsAreHeeded == Spec => []EditsSupersede
<1>1. ASSUME IInv PROVE EditsSupersede
  <2>1. PICK n \in Nat : Written(n) /\ Claimed(n)
    BY <1>1 DEF IInv
  <2> SUFFICES ASSUME NEW rec \in RecsAt("here"), NEW f \in Field,
                      NEW e \in Candidates(claims, rec.claims, f),
                      NEW seen \in claims[e].knew, seen \subseteq rec.claims,
                      NEW k \in Candidates(claims, seen, f), k \in rec.frontier[f]
               PROVE  FALSE
    BY DEF EditsSupersede
  <2> DEFINE view == View(shown)
             ids == rec.claims
             E == Edges(view)
             W == Within(claims, seen)
  <2>2. /\ ids \subseteq Nodes(view) /\ Nodes(view) \subseteq Nodes(claims)
        /\ IsFiniteSet(Nodes(view))
        /\ \A i \in Nodes(view) : view[i] = claims[i]
        /\ Candidates(view, ids, f) = Candidates(claims, ids, f)
        /\ rec.frontier[f] = Frontier(view, ids, f)
    BY <2>1, OnScreen
  <2>3. e \in ids /\ e \in Nodes(view) /\ e \in Nodes(claims)
    BY <2>2 DEF Candidates, Entitled
  <2>4. Covers(claims, claims[e].refs, seen)
    BY <1>1, <2>3 DEF IInv, Grounded, Heeds
  <2>5. PICK c \in claims[e].refs \cap seen : k \in Reached(W, {c})
    BY <2>4 DEF Covers
  <2>6. /\ \A i \in Nodes(view) : E[i] = view[i].refs \cap Nodes(view)
        /\ E[e] \subseteq Ancestors(view, e) /\ Closed(E, Ancestors(view, e))
    <3> HIDE DEF view
    <3> QED BY <2>2, <2>3, AncestorsOf
  <2>7. Reached(W, {c}) \subseteq Ancestors(view, e) \cap seen
    <3> DEFINE S == Ancestors(view, e) \cap seen
    <3>1. {c} \subseteq S
      BY <2>2, <2>3, <2>5, <2>6
    <3>2. Closed(W, S)
      <4> SUFFICES ASSUME NEW i \in S, NEW j \in W[i] PROVE j \in S
        BY DEF Closed
      <4>1. j \in claims[i].refs /\ j \in seen
        BY DEF Within
      <4>2. j \in E[i]
        BY <2>2, <2>6, <4>1
      <4> QED BY <2>6, <4>1, <4>2 DEF Closed
    <3>3. DOMAIN W = seen /\ IsFiniteSet(seen)
      BY <2>2, FS_Subset DEF Within
    <3> HIDE DEF S, W
    <3>4. Reached(W, {c}) \subseteq S
      BY <3>1, <3>2, <3>3, ReachedLeast
    <3> QED BY <3>4 DEF S
  <2>8. k \in Dominated(view, Candidates(view, ids, f))
    BY <2>2, <2>5, <2>7 DEF Dominated, Frontier
  <2> QED BY <2>2, <2>8 DEF Frontier
<1> QED BY <1>1, Invariance, PTL

(***************************************************************************)
(* A conflict is exposed (fold.rs:20-35): of words that count, those not   *)
(* shown were on the screen of someone whose own words count, or are       *)
(* referenced by a claim that does not set the field.  A dialog left open  *)
(* while more words arrive, and a claim that links two things, replace     *)
(* nothing their authors did not see.                                      *)
(***************************************************************************)
THEOREM ConflictsAreExposed == Spec => []ConflictsStand
<1>1. ASSUME IInv PROVE ConflictsStand
  <2>1. PICK n \in Nat : Written(n) /\ Claimed(n)
    BY <1>1 DEF IInv
  <2> SUFFICES ASSUME NEW rec \in RecsAt("here"), NEW f \in Field,
                      NEW k \in Candidates(claims, rec.claims, f), k \notin rec.frontier[f]
               PROVE  LET candidates == Candidates(claims, rec.claims, f)
                      IN \/ \E e \in candidates : k \in UNION claims[e].knew
                         \/ \E i \in rec.claims \ candidates : k \in claims[i].refs
    BY DEF ConflictsStand
  <2> DEFINE view == View(shown)
             ids == rec.claims
             E == Edges(view)
  <2>2. /\ ids \subseteq Nodes(view) /\ Nodes(view) \subseteq Nodes(claims)
        /\ IsFiniteSet(Nodes(view))
        /\ \A i \in Nodes(view) : view[i] = claims[i]
        /\ \A i \in ids : view[i].refs \cap Nodes(view) \subseteq ids
        /\ Candidates(view, ids, f) = Candidates(claims, ids, f)
        /\ rec.frontier[f] = Frontier(view, ids, f)
    BY <2>1, OnScreen
  <2>3. PICK i \in Candidates(view, ids, f) : k \in Ancestors(view, i)
    BY <2>2 DEF Frontier, Dominated
  <2>4. i \in ids
    BY <2>3 DEF Candidates, Entitled
  <2>5. /\ DOMAIN E = Nodes(view)
        /\ \A j \in Nodes(view) : E[j] = view[j].refs \cap Nodes(view)
        /\ \A x \in Ancestors(view, i) \ E[i] : \E y \in Ancestors(view, i) : x \in E[y]
    <3> HIDE DEF view
    <3> QED BY <2>2, <2>4, AncestorsOf
  <2>6. Ancestors(view, i) \subseteq ids
    <3>1. E[i] \subseteq ids /\ Closed(E, ids)
      BY <2>2, <2>4, <2>5 DEF Closed
    <3> HIDE DEF E, ids
    <3>2. Reached(E, E[i]) \subseteq ids
      BY <2>2, <2>5, <3>1, ReachedLeast
    <3> QED BY <3>2 DEF Ancestors, E
  <2>7. PICK y \in ids : k \in E[y]
    BY <2>3, <2>4, <2>5, <2>6
  <2>8. k \in claims[y].refs /\ y \in Nodes(claims)
    BY <2>2, <2>5, <2>7
  <2>9. k \in UNION claims[y].knew
    BY <1>1, <2>8 DEF IInv, Grounded, Heeds
  <2> QED BY <2>7, <2>8, <2>9
<1> QED BY <1>1, Invariance, PTL
==============================================================================
