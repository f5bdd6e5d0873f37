--------------------------- MODULE MCRetentionStore -------------------------
(***************************************************************************)
(* A post (2) and a reply that quotes it (3) pin the same photo; 1 redacts *)
(* the post.                                                               *)
(***************************************************************************)
EXTENDS RetentionStore

MCClaim == 1 .. 3
MCLog == {"ann"}
MCBlob == {"photo"}
MCLogOf == [c \in Claim |-> "ann"]
MCRedactTarget == [c \in Claim |-> IF c = 1 THEN 2 ELSE None]
MCRefs == [c \in Claim |-> IF c \in {1, 3} THEN {2} ELSE {}]
MCPins == [c \in Claim |-> IF c \in {2, 3} THEN Blob ELSE {}]
=============================================================================
