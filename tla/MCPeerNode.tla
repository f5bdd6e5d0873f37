------------------------------ MODULE MCPeerNode -----------------------------
EXTENDS PeerNode, TLC

MCClaim == 1 .. 3
MCLog == {"ann"}
MCLogOf == [c \in Claim |-> "ann"]
MCRedactTarget == [c \in Claim |-> IF c = 1 THEN 2 ELSE None]
MCRefs == [c \in Claim |-> IF c = 1 THEN {2} ELSE {}]
MCPins == [c \in Claim |-> IF c = 2 THEN Blob ELSE {}]

Full(c) == [id |-> c, body |-> TRUE]
Stripped(c) == [id |-> c, body |-> FALSE]

\* The author's app and her relay, which other devices of hers feed too.
MCRelay ==
  [author |-> "follower", relay |-> TRUE, eager |-> FALSE, cap |-> 2,
   timer |-> FALSE, mints |-> {2}, heard |-> {Full(1), Full(3)}, media |-> {},
   fickle |-> FALSE, drops |-> 1, faults |-> 1, demands |-> 0]

\* A friend's app reads the author's, on a narrow duct.
MCFriend ==
  [author |-> "server", relay |-> FALSE, eager |-> TRUE, cap |-> 1,
   timer |-> TRUE, mints |-> {2, 3}, heard |-> {Full(1)}, media |-> {},
   fickle |-> FALSE, drops |-> 1, faults |-> 0, demands |-> 0]

\* A reader follows at a relay that hears stripped claims first, media last.
MCReader ==
  [author |-> "server", relay |-> TRUE, eager |-> FALSE, cap |-> 2,
   timer |-> FALSE, mints |-> {}, heard |-> {Stripped(2), Full(2), Full(1)},
   media |-> Blob,
   fickle |-> TRUE, drops |-> 1, faults |-> 0, demands |-> 2]

\* An eager app follows another, which has claims, bodies and bytes from a
\* third, late and in any order, and writes what pins them itself.
MCEager ==
  [author |-> "server", relay |-> FALSE, eager |-> TRUE, cap |-> 2,
   timer |-> FALSE, mints |-> {2}, heard |-> {Stripped(2), Full(2), Full(3)},
   media |-> Blob, fickle |-> FALSE, drops |-> 1, faults |-> 1, demands |-> 1]

MCScenes == "relay" :> MCRelay @@ "friend" :> MCFriend @@ "reader" :> MCReader
              @@ "eager" :> MCEager

\* Where frames may be lost; where responses may be.
MCCramped == "relay" :> [MCRelay EXCEPT !.cap = 1, !.faults = 0]
MCCongested == "friend" :> [MCFriend EXCEPT !.drops = 0]
=============================================================================
