--------------------------- MODULE MCSyncSession ----------------------------
(***************************************************************************)
(* One log: two posts (2, 3) and a redaction (1) of the first.  The author *)
(* writes on this device; the peer hears from another device of the        *)
(* author's, that redacts and posts, and from one that holds posts         *)
(* stripped of their bodies, as this device may.                           *)
(***************************************************************************)
EXTENDS SyncSession, TLC

MCClaim == 1 .. 3
MCLog == {"ann"}
MCLogOf == [c \in Claim |-> "ann"]
MCRedactTarget == [c \in Claim |-> IF c = 1 THEN 2 ELSE None]
MCRefs == [c \in Claim |-> IF c = 1 THEN {2} ELSE {}]
MCPins == [c \in Claim |-> {}]

Full(c) == [id |-> c, body |-> TRUE]
Stripped(c) == [id |-> c, body |-> FALSE]

MCWritten == {Full(1), Full(2)}

\* The peer changes at any time, may be reborn; a session may be dropped.
MCBusy == [pull |-> TRUE, push |-> TRUE, takes |-> TRUE, quiet |-> FALSE,
           mine |-> MCWritten, theirs |-> {Full(1), Full(3)},
           rebirths |-> 1, restores |-> 0, drops |-> 1]

\* ...and rows may wait for their bodies, at both ends.
MCHealing == [MCBusy EXCEPT !.rebirths = 0, !.mine = @ \cup {Stripped(2)},
                            !.theirs = @ \cup {Stripped(3)}]

\* The peer changes between sessions, may be restored; takes pushes or not.
MCCalm(takes) ==
  [pull |-> TRUE, push |-> TRUE, takes |-> takes, quiet |-> TRUE,
   mine |-> MCWritten, theirs |-> {Full(1), Full(3), Stripped(3)},
   rebirths |-> 0, restores |-> 1, drops |-> 0]

MCSettings == "busy" :> MCBusy @@ "healing" :> MCHealing
                @@ "taken" :> MCCalm(TRUE) @@ "refused" :> MCCalm(FALSE)
=============================================================================
