-------------------------------- MODULE Feed --------------------------------
(***************************************************************************)
(* The app's read model (feed.rs, debug_feed.rs), the follows that are its *)
(* keyring, and the dialogs that write what it shows back (detail_panel,   *)
(* the modals, sealed with e2ee): between a claim landing and its words on *)
(* the screen lie a bounded tap, the actor's queue and the reply to a      *)
(* query, and claims reach this device in any order.                       *)
(*                                                                         *)
(* "here" is the device with this screen.  The same author's other device, *)
(* and the friends, write from what has reached them.                      *)
(***************************************************************************)
EXTENDS Fold, Sequences

CONSTANTS
  Device,       \* devices that write, "here" among them
  Author,       \* whose device each is: [Device -> author]
  TapSize,      \* bound: the tap's capacity (the code has 256)
  Scenes        \* bound: what each behaviour is about, one of these

ASSUME FeedAssumption ==
  /\ "here" \in Device /\ IsFiniteSet(Device)
  /\ Author \in [Device -> {Author[d] : d \in Device}]
  /\ TapSize \in Nat \ {0}
  \* kinds: the claim types written beside the first "rec"; max: how many
  \* claims are written; online: the devices that write and sync; stray: other
  \* programs write too; calm: writing and landing wait for the read model;
  \* follows: whom the author follows already
  /\ \A s \in Scenes : s.max \in Nat \ {0} /\ 1 .. s.max \subseteq DOMAIN Hash
                        /\ s.calm \in BOOLEAN
                        /\ s.follows \subseteq {Author[d] : d \in Device} \ {Author["here"]}

VARIABLES
  scene,        \* the scene of this behaviour
  claims,       \* every claim written, by its number
  has,          \* what has landed on each device
  follows,      \* whose addresses are followed here
  loop,         \* the firehose task: what it waits for
  commands,     \* the actor's queue, of this read model's commands
  answers,      \* replies on their way to the foreground
  tap,          \* items in the tap; -1 until it is registered
  shown,        \* the feed: the claims whose fold is on the screen
  dialog,       \* the rec captured by an open edit dialog; none is {}
  pressed,      \* history: claims put on the record by their authors
  missed        \* history: what landed after the first query and before the tap was
                \* there has not been queried since

vars == <<scene, claims, has, follows, loop, commands, answers, tap, shown, dialog,
          pressed, missed>>

pipeline == <<follows, loop, commands, answers, shown, missed>>

Logs == {Author[d] : d \in Device}
Me == Author["here"]
Ids == 1 .. scene.max

ClaimView ==
  [author : Logs, type : {"rec"} \cup scene.kinds, refs : SUBSET Ids, sets : SUBSET Field,
   at : Ids, knew : SUBSET SUBSET Ids]

\* keys_for: one's own key, and one per followed address.
KeysFor(followed) == {Me} \cup followed

\* decrypted_view: what the keys open, of what has landed.
Opened(landed, keys) == {i \in landed : claims[i].author \in keys}

\* Feed::reload: the recommendations and names of a view.
View(ids) == [i \in ids |-> claims[i]]
Recs(ids) == Recommendations(View(ids))

Fresh == Opened(has["here"], KeysFor(follows))

\* What a device's author sees there; elsewhere everybody is followed.
RecsAt(d) == Recs(IF d = "here" THEN shown ELSE has[d])

TypeOK ==
  /\ scene \in Scenes
  /\ DOMAIN claims \subseteq Ids
  /\ \A i \in DOMAIN claims : claims[i] \in ClaimView
  /\ has \in [Device -> SUBSET DOMAIN claims]
  /\ follows \subseteq Logs \ {Me}
  /\ loop \in {"reload", "register", "listen"}
  /\ Len(commands) + Len(answers) <= 1 + Cardinality(follows)
  /\ tap \in -1 .. TapSize
  /\ shown \subseteq has["here"]
  /\ \A captured \in dialog : captured \in (SUBSET Ids) \X (SUBSET SUBSET Ids)
  /\ pressed \subseteq DOMAIN claims
  /\ missed \in BOOLEAN

Query(who, followed) == [what |-> who, keys |-> KeysFor(followed)]

\* Feed::new spawns the task, whose first poll queries.
Init ==
  /\ scene \in Scenes
  /\ claims = [i \in {1} |-> [author |-> Me, type |-> "rec", refs |-> {},
                               sets |-> Field, at |-> 1, knew |-> {}]]
  /\ has = [d \in Device |-> {1}]
  /\ follows = scene.follows
  /\ loop = "reload"
  /\ commands = <<Query("loop", scene.follows)>>
  /\ answers = <<>>
  /\ tap = -1
  /\ shown = {}
  /\ dialog = {}
  /\ pressed = {} /\ missed = FALSE

-----------------------------------------------------------------------------
(* Claims land *)

\* The first query was answered, and the tap is not there yet.
Gap == tap = -1 /\ ~\E k \in DOMAIN commands : commands[k].what = "loop"

\* Mutant: the tap takes whatever comes.
MutEmitted == IF tap = -1 THEN tap ELSE tap + 1

\* emit: an item that does not fit is dropped.
Emitted == IF tap \in {-1, TapSize} THEN tap ELSE tap + 1

Settled == loop = "listen" /\ tap = 0 /\ commands = <<>> /\ answers = <<>>

\* On "here", whatever lands goes through landed() to the tap.
Lands(d, i) ==
  /\ scene.calm => Settled
  /\ has' = [has EXCEPT ![d] = @ \cup {i}]
  /\ IF d = "here" THEN tap' = Emitted /\ missed' = (missed \/ Gap)
                   ELSE UNCHANGED <<tap, missed>>

\* A claim another device wrote is synced here or there, in any order.
Arrive(d, i) ==
  /\ d \in scene.online /\ i \in DOMAIN claims \ has[d]
  /\ Lands(d, i)
  /\ UNCHANGED <<scene, claims, follows, loop, commands, answers, shown, dialog, pressed>>

\* Bounds of the scene on what is written, and when.
MayWrite(type) ==
  /\ type \in scene.kinds /\ Cardinality(DOMAIN claims) < scene.max
  /\ scene.calm => Settled

\* Peer::claim of a sealed draft, on the device that wrote it.  knew is a
\* history: the things the author had on the screen, each a set of claims.
Write(d, type, refs, sets, knew) ==
  LET i == Cardinality(DOMAIN claims) + 1
      claim == [author |-> Author[d], type |-> type, refs |-> refs, sets |-> sets,
                at |-> i, knew |-> knew]
  IN /\ d \in scene.online /\ MayWrite(type)
     /\ claims' = [j \in DOMAIN claims \cup {i} |-> IF j = i THEN claim ELSE claims[j]]
     /\ Lands(d, i)
     /\ UNCHANGED <<scene, follows, loop, commands, answers, shown>>

NewRec(d) == Write(d, "rec", {}, Field, {}) /\ UNCHANGED <<dialog, pressed>>

Profile(d) == Write(d, "profile", {}, {}, {}) /\ UNCHANGED <<dialog, pressed>>

\* Open to anyone; it references what it answers like an edit does.
Comment(d) ==
  /\ MayWrite("comment")
  /\ \E rec \in RecsAt(d) :
       Write(d, "comment", DominatingRefs(rec), {}, {rec.claims}) /\ UNCHANGED <<dialog, pressed>>

\* The dialog is offered to the author of what is shown; it captures the rec.
OpenEdit ==
  /\ dialog = {} /\ MayWrite("edit")
  /\ \E rec \in RecsAt("here") :
       /\ claims[Current(rec, "subject")].author = Me
       /\ dialog' = {<<DominatingRefs(rec), {rec.claims}>>}
  /\ UNCHANGED <<scene, claims, has, tap, pressed>> /\ UNCHANGED pipeline

\* Mutant: it references what is shown by now.
MutSubmitEdit ==
  \E captured \in dialog, rec \in RecsAt("here") :
    /\ UNION captured[2] \subseteq rec.claims
    /\ Write("here", "edit", DominatingRefs(rec), Field, captured[2])
    /\ dialog' = {} /\ UNCHANGED pressed

\* It re-asserts both fields over what it captured, whatever came since.
SubmitEdit ==
  \E captured \in dialog :
    /\ Write("here", "edit", captured[1], Field, captured[2])
    /\ dialog' = {} /\ UNCHANGED pressed

EditRecsAt(d) ==
  /\ d # "here"
  /\ \E rec \in RecsAt(d) :
       /\ claims[Current(rec, "subject")].author = Author[d]
       /\ Write(d, "edit", DominatingRefs(rec), Field, {rec.claims})
       /\ UNCHANGED <<dialog, pressed>>

\* Any program may reference what it likes, in a comment, an edit or a rec of
\* its own; over several things, it makes them one.
StrayClaim(d) ==
  /\ d # "here" /\ scene.stray
  /\ \E recs \in SUBSET RecsAt(d), type \in {"rec", "edit", "comment"} :
       /\ recs # {}
       /\ Write(d, type, UNION {DominatingRefs(rec) : rec \in recs},
                IF type = "comment" THEN {} ELSE {"subject"}, {rec.claims : rec \in recs})
       /\ UNCHANGED <<dialog, pressed>>

\* "Go on the record": one attest claim for each of our live contributions.
Attest(d) ==
  /\ MayWrite("attest")
  /\ \E rec \in RecsAt(d) :
       /\ claims[Current(rec, "subject")].author = Author[d] /\ ~OnTheRecord(rec)
       /\ \E i \in AttestTargets(claims, rec, Author[d]) :
            /\ Write(d, "attest", {i}, {}, {})
            /\ pressed' = pressed \cup {i}
            /\ UNCHANGED dialog

\* An attestation of another author's words, which binds nobody.
StrayAttest(d) ==
  /\ d # "here" /\ scene.stray
  /\ \E i \in has[d] :
       /\ claims[i].type = "rec" /\ claims[i].author # Author[d]
       /\ Write(d, "attest", {i}, {}, {}) /\ UNCHANGED <<dialog, pressed>>

-----------------------------------------------------------------------------
(* The read model *)

\* Mutant: a new key waits for the next claim.
MutObserved == UNCHANGED commands

\* The observer of follows reloads with the keys it has now.
Observed == commands' = Append(commands, Query("observer", follows'))

\* A new follow is a new key: its claims may be here already.
Follow(f) ==
  /\ f \in Logs \ (follows \cup {Me})
  /\ follows' = follows \cup {f}
  /\ Observed
  /\ UNCHANGED <<scene, claims, has, loop, answers, tap, shown, dialog, pressed, missed>>

\* The actor's turn: a query is folded there, a tap is registered.
ActorTurn ==
  /\ commands # <<>>
  /\ commands' = Tail(commands)
  /\ LET command == Head(commands)
     IN IF command.what = "register"
        THEN /\ tap' = 0
             /\ answers' = Append(answers, [what |-> "register", view |-> {}])
             /\ UNCHANGED missed
        ELSE /\ answers' = Append(answers, [what |-> command.what,
                                            view |-> Opened(has["here"], command.keys)])
             /\ missed' = FALSE /\ UNCHANGED tap
  /\ UNCHANGED <<scene, claims, has, follows, loop, shown, dialog, pressed>>

\* The task goes on: it registers the tap, then waits on it.
Continued(what) ==
  IF what = "loop" /\ loop = "reload" /\ tap = -1
  THEN loop' = "register" /\ commands' = Append(commands, Query("register", {}))
  ELSE /\ loop' = IF what = "observer" THEN loop ELSE "listen"
       /\ UNCHANGED commands

\* The foreground: a reload's result replaces what is shown.
Foreground ==
  /\ answers # <<>>
  /\ answers' = Tail(answers)
  /\ shown' = IF Head(answers).what = "register" THEN shown ELSE Head(answers).view
  /\ Continued(Head(answers).what)
  /\ UNCHANGED <<scene, claims, has, follows, tap, dialog, pressed, missed>>

\* An item of the tap: reload, with the keys of now.
Heard ==
  /\ loop = "listen" /\ tap > 0
  /\ tap' = tap - 1 /\ loop' = "reload"
  /\ commands' = Append(commands, Query("loop", follows))
  /\ UNCHANGED <<scene, claims, has, follows, answers, shown, dialog, pressed, missed>>

Next ==
  \/ \E d \in Device, i \in Ids : Arrive(d, i)
  \/ \E d \in Device :
       NewRec(d) \/ Profile(d) \/ Comment(d) \/ EditRecsAt(d) \/ StrayClaim(d)
         \/ Attest(d) \/ StrayAttest(d)
  \/ OpenEdit \/ SubmitEdit
  \/ \E f \in Logs : Follow(f)
  \/ ActorTurn \/ Foreground \/ Heard

\* The actor and the app's foreground run; claims need never arrive.
Spec ==
  /\ Init /\ [][Next]_vars
  /\ WF_vars(ActorTurn) /\ WF_vars(Foreground) /\ WF_vars(Heard)

-----------------------------------------------------------------------------
(***************************************************************************)
(* feed.rs:1-6, "folded live via the peer's firehose": with no further     *)
(* event the feed comes to show all that has landed and can be opened,     *)
(* whatever the tap dropped.  The exception: a claim that landed between   *)
(* the first query and the tap's registration.                             *)
(***************************************************************************)
FeedSettles == <>[](missed \/ shown = Fresh)

(***************************************************************************)
(* The same, with no exception.                                            *)
(***************************************************************************)
FeedLive == <>[](shown = Fresh)

(***************************************************************************)
(* "A new edit that references every claim on a field's frontier collapses *)
(* that frontier" (edit_recommendation.rs:17-21): of a thing its author    *)
(* had on the screen, an edit that counts supersedes every word that       *)
(* counted there, wherever all of the thing is shown, in whatever order it *)
(* arrived.  All of it, the comments too: an edit may reach what it        *)
(* supersedes through a comment alone, and where that comment is not shown *)
(* the superseded words compete again.  And what counted: a claim that     *)
(* links another author's rec lets that author's old edits, inert until    *)
(* then, compete with the edit that ignored them (fold.rs:198-235).        *)
(***************************************************************************)
EditsSupersede ==
  \A rec \in RecsAt("here") : \A f \in Field : \A e \in Candidates(claims, rec.claims, f) :
    \A seen \in claims[e].knew :
      seen \subseteq rec.claims => Candidates(claims, seen, f) \cap rec.frontier[f] = {}

(***************************************************************************)
(* "Exposed rather than silently resolved" (fold.rs:20-35): of words that  *)
(* count, those not shown were on the screen of someone whose own words    *)
(* count, and who replaced them; words written while a dialog was open     *)
(* stand beside what it wrote.  The exception: whoever references words    *)
(* without setting the field, a comment above all, leads edits that saw    *)
(* only the reference over the words.                                      *)
(***************************************************************************)
ConflictsStand ==
  \A rec \in RecsAt("here") : \A f \in Field :
    LET candidates == Candidates(claims, rec.claims, f)
    IN \A k \in candidates \ rec.frontier[f] :
         \/ \E e \in candidates : k \in UNION claims[e].knew
         \/ \E i \in rec.claims \ candidates : k \in claims[i].refs

(***************************************************************************)
(* "On the record" is shown only of words whose author went on it, and     *)
(* an edit leaves it behind (rec.rs:25-31, 58-72).                         *)
(***************************************************************************)
RecordMeant ==
  \A rec \in RecsAt("here") :
    OnTheRecord(rec) => \A f \in Field : Current(rec, f) \in pressed
=============================================================================
