------------------------------- MODULE MCFeed -------------------------------
(***************************************************************************)
(* This device, its author's other one, and a friend's.  The tap holds one *)
(* item.  In one scene claims land whatever the read model is doing; in    *)
(* the others it keeps up with them, and more are written.  The hashes     *)
(* order the claims neither as they were written nor the other way round.  *)
(***************************************************************************)
EXTENDS Feed, TLC

MCDevice == {"here", "there", "pal"}
MCAuthor == "here" :> "me" @@ "there" :> "me" @@ "pal" :> "friend"
MCHash == <<2, 3, 1, 5, 4>>

Live == [kinds |-> {"rec", "profile"}, max |-> 3, stray |-> FALSE, online |-> MCDevice,
         calm |-> FALSE, follows |-> {}]
Conversation == [kinds |-> {"edit", "comment"}, max |-> 4, stray |-> FALSE, online |-> MCDevice,
                 calm |-> TRUE, follows |-> {"friend"}]
Record == [kinds |-> {"edit", "attest", "rec"}, max |-> 3, stray |-> TRUE, online |-> MCDevice,
           calm |-> TRUE, follows |-> {"friend"}]
Linked == [kinds |-> {"edit", "rec"}, max |-> 4, stray |-> TRUE, online |-> {"here", "pal"},
           calm |-> TRUE, follows |-> {"friend"}]
MCScenes == {Live, Conversation, Record, Linked}
MCLive == {Live}
=============================================================================
