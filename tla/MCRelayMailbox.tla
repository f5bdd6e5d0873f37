--------------------------- MODULE MCRelayMailbox ---------------------------
(***************************************************************************)
(* The author's two devices, a friend who reads and tries to publish with  *)
(* no proof, and a stranger who asks to publish without the key.  Two      *)
(* connections fit the server, so that a dial may find it full.            *)
(***************************************************************************)
EXTENDS RelayMailbox, TLC

MCDrafts == "phone" :> {"post"} @@ "laptop" :> {"note"}
              @@ "friend" :> {"forged"} @@ "stranger" :> {"forged"}
=============================================================================
