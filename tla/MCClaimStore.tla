---------------------------- MODULE MCClaimStore ----------------------------
(***************************************************************************)
(* Claims for TLC.  Log "ann": a post (3), two redactions of it (1 and 4,  *)
(* so ties resolve both ways), a redaction of the redaction 4 (2).  Log    *)
(* "bob": a quote (5) of the post 3 and of the redaction 1, that pins a    *)
(* blob which the post pins too.                                           *)
(***************************************************************************)
EXTENDS ClaimStore, FiniteSetsExt, TLC

MCClaim == 1 .. 5
MCSymmetry == Permutations(Replica)

\* Bound: one store is sent all ten events, or two stores five together.
MCMaxSeen == 5
MCDeliveries ==
  \/ \E r \in Replica : seen[r] = {}
  \/ FoldSet(LAMBDA r, n : n + Cardinality(seen[r]), 0, Replica) < MCMaxSeen

MCLog == {"ann", "bob"}
MCBlob == {"photo"}
MCLogOf == [c \in Claim |-> IF c = 5 THEN "bob" ELSE "ann"]
MCRedactTarget ==
  [c \in Claim |-> CASE c \in {1, 4} -> 3 [] c = 2 -> 4 [] OTHER -> None]
MCRefs ==
  [c \in Claim |-> CASE c \in {1, 4} -> {3}
                     [] c = 2 -> {4}
                     [] c = 5 -> {1, 3}
                     [] OTHER -> {}]
MCPins == [c \in Claim |-> IF c \in {3, 5} THEN Blob ELSE {}]
=============================================================================
