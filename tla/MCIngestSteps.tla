---------------------------- MODULE MCIngestSteps ---------------------------
(***************************************************************************)
(* A post (3) with a photo that quotes another post (4), and a redaction   *)
(* of it (1), all in one log, on either kind of backend.                   *)
(***************************************************************************)
EXTENDS IngestSteps

MCClaim == {1, 3, 4}
MCLog == {"ann"}
MCBlob == {"photo"}
MCLogOf == [c \in Claim |-> "ann"]
MCRedactTarget == [c \in Claim |-> IF c = 1 THEN 3 ELSE None]
MCRefs == [c \in Claim |-> CASE c = 1 -> {3} [] c = 3 -> {4} [] OTHER -> {}]
MCPins == [c \in Claim |-> IF c = 3 THEN Blob ELSE {}]
=============================================================================
