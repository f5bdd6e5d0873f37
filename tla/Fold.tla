-------------------------------- MODULE Fold --------------------------------
(***************************************************************************)
(* The materializer (fold.rs, rec.rs, profile.rs, e2ee::decrypted_view):   *)
(* from the claims a reader can open to the recommendations it is shown.   *)
(*                                                                         *)
(* A view maps the hash of each claim in it to what it says: its author,   *)
(* its type, the claims it references, the fields it sets and its claimed  *)
(* time.  What a field is set to is told apart by the claim that set it.   *)
(***************************************************************************)
EXTENDS Integers, FiniteSets

CONSTANTS
  Hash      \* the order of claim hashes: [claim -> Nat], injective

ASSUME FoldAssumption ==
  /\ Hash \in [DOMAIN Hash -> Nat]
  /\ \A i, j \in DOMAIN Hash : Hash[i] = Hash[j] => i = j

Field == {"subject", "body"}

\* min(), by hash.
Smallest(S) == CHOOSE i \in S : \A j \in S : Hash[i] <= Hash[j]

\* Everything a walk along next reaches from the claims in start.
Reached(next, start) ==
  LET within[n \in 0 .. Cardinality(DOMAIN next)] ==
        IF n = 0 THEN start
        ELSE LET nearer == within[n - 1] IN nearer \cup UNION {next[i] : i \in nearer}
  IN within[Cardinality(DOMAIN next)]

-----------------------------------------------------------------------------
(* fold *)

OfType(view, types) == {i \in DOMAIN view : view[i].type \in types}

\* The claims with a role: roots, edits and comments.
Nodes(view) == OfType(view, {"rec", "edit", "comment"})

\* References that land on another node; the rest is not part of the graph.
Edges(view) == [i \in Nodes(view) |-> view[i].refs \cap Nodes(view)]

Undirected(view) ==
  [i \in Nodes(view) |-> {j \in Nodes(view) : j \in view[i].refs \/ i \in view[j].refs}]

\* connected_components: a "thing" is one of these.
Components(view) == {Reached(Undirected(view), {i}) : i \in Nodes(view)}

\* The causal history of a claim.
Ancestors(view, i) == Reached(Edges(view), Edges(view)[i])

RootAuthors(view, ids) == {view[i].author : i \in OfType(view, {"rec"}) \cap ids}

\* Who may set fields: roots, and edits by an author of a root.
Entitled(view, ids) ==
  {i \in OfType(view, {"rec", "edit"}) \cap ids :
     view[i].type = "edit" => view[i].author \in RootAuthors(view, ids)}

Candidates(view, ids, f) == {i \in Entitled(view, ids) : f \in view[i].sets}

Dominated(view, candidates) ==
  (UNION {Ancestors(view, i) : i \in candidates}) \cap candidates

\* The undominated contributions: one is a value, more are a conflict.
Frontier(view, ids, f) ==
  LET candidates == Candidates(view, ids, f)
  IN candidates \ Dominated(view, candidates)

Comments(view, ids) == OfType(view, {"comment"}) \cap ids

-----------------------------------------------------------------------------
(* rec, profile *)

\* Mutant: whose attestation it is does not matter.
MutAttested(view) == UNION {view[a].refs : a \in OfType(view, {"attest"})}

\* valid_attestations: only an author's own, and signed by its key.
Attested(view) ==
  UNION {{t \in view[a].refs \cap DOMAIN view : view[t].author = view[a].author} :
           a \in OfType(view, {"attest"})}

\* recommendations: the components with a subject and a body.
Recommendations(view) ==
  {[id |-> Smallest(ids),
    claims |-> ids,
    frontier |-> [f \in Field |-> Frontier(view, ids, f)],
    comments |-> Comments(view, ids),
    attested |-> ids \cap Attested(view)] :
     ids \in {c \in Components(view) : \A f \in Field : Frontier(view, c, f) # {}}}

\* current_contribution, a deterministic tie-break.
Current(rec, f) == Smallest(rec.frontier[f])

\* on_the_record: everything shown is attested.
OnTheRecord(rec) == \A f \in Field : Current(rec, f) \in rec.attested

\* names: each log's newest profile, by claimed time and then by hash.
Newest(view, profiles) ==
  CHOOSE i \in profiles : \A j \in profiles \ {i} :
    view[j].at < view[i].at \/ (view[j].at = view[i].at /\ Hash[j] < Hash[i])

Names(view) ==
  LET Profiles(log) == {i \in OfType(view, {"profile"}) : view[i].author = log}
  IN [log \in {view[i].author : i \in OfType(view, {"profile"})} |->
        Newest(view, Profiles(log))]

-----------------------------------------------------------------------------
(* The app's authoring *)

\* Mutant: an edit references the words shown, not all that compete.
MutDominatingRefs(rec) == {Current(rec, f) : f \in Field} \cup rec.comments

\* dominating_refs: an edit references every frontier and every comment.
DominatingRefs(rec) == (UNION {rec.frontier[f] : f \in Field}) \cup rec.comments

\* Going on the record: the frontier's words, ours and not yet attested.
AttestTargets(view, rec, me) ==
  {i \in UNION {rec.frontier[f] : f \in Field} : view[i].author = me} \ rec.attested
=============================================================================
