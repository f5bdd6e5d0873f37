------------------------------- MODULE AppDir -------------------------------
(***************************************************************************)
(* The app's directory and the process that uses it: identity.key,         *)
(* claims.db, blobs/, sync.db and follows.json (identity.rs, follows.rs,   *)
(* vouch-store).  The process may be killed between any two steps, and the *)
(* power may be cut: what was written without an fsync may then be gone.   *)
(*                                                                         *)
(* A claim is its position in the arrival order of the relay it is pulled  *)
(* from; IngestSteps looks inside the transaction that stores one.         *)
(***************************************************************************)
EXTENDS Integers

CONSTANTS
  Friend,       \* addresses that may be followed
  Own,          \* the address of this device
  Blob,         \* media the stored claims refer to
  NClaims,      \* bound: claims the relay has
  MaxKills,     \* bound: how often the process is killed
  MaxCuts,      \* bound: how often the power is cut
  MaxFaults     \* bound: reads and writes that fail, and files that rot

ASSUME AppDirAssumption ==
  /\ Own \notin Friend
  /\ NClaims \in Nat \ {0} /\ MaxKills \in Nat /\ MaxCuts \in Nat /\ MaxFaults \in Nat

\* A file that is not there; one whose content is not what was written.
None == -1
Torn == -2
\* follows.json: not there, not a list, or a list.
NoFile == [is |-> "none", list |-> {}]
NoList == [is |-> "torn", list |-> {}]
Listed(list) == [is |-> "list", list |-> list]

SCHEMA_VERSION == 2
Claim == 1 .. NClaims
NoSync == [instance |-> None, pull |-> 0]

VARIABLES
  stage,        \* where the process is: "down", a step of the launch, or "up"
  seed,         \* the identity this process runs with
  following,    \* Follows: the list, and whether it has a path to save to
  key,          \* identity.key: None, Torn or a seed
  version,      \* claims.db: None or its user_version
  rows,         \* claims.db: the claims stored
  sync,         \* sync.db as this process sees it: instance, pull cursor
  blobs,        \* blobs/: "none", "good", or "bad" bytes under a name
  follows,      \* follows.json: none, torn or a list
  tore,         \* history: this process has truncated follows.json
  dirty,        \* files with content the disk may not have yet
  synced,       \* sync.db as a power cut may leave it
  author,       \* history: the seed that minted the claims of this device
  told,         \* history: an instance told to a peer, with the claims counted
  excuse,       \* history: what broke by itself: "key", "wipe"
  minted,       \* identities and instances drawn so far
  kills, cuts, faults   \* counters of the bounds

vars == <<stage, seed, following, key, version, rows, sync, blobs, follows, tore,
          dirty, synced, author, told, excuse, minted, kills, cuts, faults>>

identity == <<seed, key>>
claims == <<version, rows>>
cursors == <<sync, synced>>
lists == <<following, follows, tore>>
history == <<author, told, excuse>>
bounds == <<kills, cuts, faults>>

Stages == {"down", "key", "persist", "wipe", "wipe sync", "wipe blobs", "claims",
           "stamp", "sync", "follows", "clean", "extras", "save", "up"}
Drawn == 1 .. 2 * (MaxKills + MaxCuts + 1) + 1
Files == {"key", "follows"} \cup Blob
SyncRow == [instance : Drawn \cup {None}, pull : 0 .. NClaims]
ListFile == [is : {"none", "torn", "list"}, list : SUBSET (Friend \cup {Own})]

TypeOK ==
  /\ stage \in Stages
  /\ seed \in Drawn \cup {None}
  /\ following \in [saves : BOOLEAN, list : SUBSET Friend]
  /\ key \in Drawn \cup {None, Torn}
  /\ version \in {None, 0, 1, SCHEMA_VERSION}
  /\ rows \subseteq Claim
  /\ sync \in SyncRow /\ synced \in SyncRow
  /\ blobs \in [Blob -> {"none", "good", "bad"}]
  /\ follows \in ListFile /\ tore \in BOOLEAN
  /\ dirty \subseteq Files
  /\ author \in Drawn \cup {None}
  /\ told \in [instance : Drawn \cup {None}, rows : SUBSET Claim]
  /\ excuse \subseteq {"key", "wipe"}
  /\ minted \in Nat
  /\ kills \in 0 .. MaxKills /\ cuts \in 0 .. MaxCuts /\ faults \in 0 .. MaxFaults

\* A first launch, or an install of the signed-claims alpha, whose list may
\* name the device itself.
Init ==
  /\ stage = "down" /\ seed = None
  /\ following = [saves |-> FALSE, list |-> {}] /\ tore = FALSE
  /\ blobs = [b \in Blob |-> "none"]
  /\ dirty = {} /\ excuse = {}
  /\ kills = 0 /\ cuts = 0 /\ faults = 0
  /\ \/ /\ key = None /\ version = None /\ rows = {} /\ follows = NoFile
        /\ sync = NoSync /\ author = None /\ minted = 0
        /\ told = [instance |-> None, rows |-> {}]
     \/ /\ key = 1 /\ version = 1 /\ rows = {1} /\ follows \in {Listed({}), Listed({Own})}
        /\ sync = [instance |-> 1, pull |-> 1] /\ author = 1 /\ minted = 1
        /\ told = [instance |-> 1, rows |-> {1}]
  /\ synced = sync

-----------------------------------------------------------------------------
(* The launch *)

Goes(from, to) == stage = from /\ stage' = to

Launch ==
  /\ Goes("down", "key")
  /\ UNCHANGED <<blobs, dirty, minted>> /\ UNCHANGED identity /\ UNCHANGED claims
  /\ UNCHANGED cursors /\ UNCHANGED lists /\ UNCHANGED history /\ UNCHANGED bounds

\* load_or_create: the stored seed when it reads as 32 bytes.
LoadSeed ==
  /\ Goes("key", "wipe") /\ key \in Drawn
  /\ seed' = key
  /\ UNCHANGED <<key, blobs, dirty, minted>> /\ UNCHANGED claims /\ UNCHANGED cursors
  /\ UNCHANGED lists /\ UNCHANGED history /\ UNCHANGED bounds

\* Anything else, an error of the read included, is a first launch: a fresh
\* seed, written over the file in place.
MintSeed ==
  /\ Goes("key", "persist")
  /\ \/ key \notin Drawn /\ UNCHANGED <<faults, excuse>>
     \/ /\ key \in Drawn /\ faults < MaxFaults
        /\ faults' = faults + 1 /\ excuse' = excuse \cup {"key"}
  /\ minted' = minted + 1
  /\ seed' = minted' /\ key' = Torn
  /\ dirty' = dirty \cup {"key"}
  /\ UNCHANGED <<blobs, author, told, kills, cuts>> /\ UNCHANGED claims
  /\ UNCHANGED cursors /\ UNCHANGED lists

\* Mutant: the minted seed is used and not stored.
MutPersisted == UNCHANGED key

Persisted == key' = seed

PersistSeed ==
  /\ Goes("persist", "wipe")
  /\ Persisted
  /\ UNCHANGED <<seed, blobs, dirty, minted>> /\ UNCHANGED claims /\ UNCHANGED cursors
  /\ UNCHANGED lists /\ UNCHANGED history /\ UNCHANGED bounds

\* wipe_pre_v2: claims.db first, then sync.db, then blobs.
WipeClaims ==
  /\ version \in {0, 1} /\ Goes("wipe", "wipe sync")
  /\ version' = None /\ rows' = {}
  /\ UNCHANGED <<blobs, dirty, minted>> /\ UNCHANGED identity /\ UNCHANGED cursors
  /\ UNCHANGED lists /\ UNCHANGED history /\ UNCHANGED bounds

WipeSync ==
  /\ Goes("wipe sync", "wipe blobs")
  /\ sync' = NoSync /\ synced' = NoSync
  /\ UNCHANGED <<blobs, dirty, minted>> /\ UNCHANGED identity /\ UNCHANGED claims
  /\ UNCHANGED lists /\ UNCHANGED history /\ UNCHANGED bounds

WipeBlobs ==
  /\ Goes("wipe blobs", "claims")
  /\ blobs' = [b \in Blob |-> "none"]
  /\ dirty' = dirty \ Blob
  /\ UNCHANGED minted /\ UNCHANGED identity /\ UNCHANGED claims /\ UNCHANGED cursors
  /\ UNCHANGED lists /\ UNCHANGED history /\ UNCHANGED bounds

\* No claims.db: nothing to wipe, whatever else is in the directory.
NothingToWipe ==
  /\ version \in {None, SCHEMA_VERSION} /\ Goes("wipe", "claims")
  /\ UNCHANGED <<blobs, dirty, minted>> /\ UNCHANGED identity /\ UNCHANGED claims
  /\ UNCHANGED cursors /\ UNCHANGED lists /\ UNCHANGED history /\ UNCHANGED bounds

\* SqliteClaimStorage::open: the file and its tables, then its user_version.
OpenClaims ==
  /\ Goes("claims", "stamp")
  /\ version' = IF version = None THEN 0 ELSE version
  /\ UNCHANGED <<rows, blobs, dirty, minted>> /\ UNCHANGED identity /\ UNCHANGED cursors
  /\ UNCHANGED lists /\ UNCHANGED history /\ UNCHANGED bounds

StampVersion ==
  /\ Goes("stamp", "sync")
  /\ version' = SCHEMA_VERSION
  /\ UNCHANGED <<rows, blobs, dirty, minted>> /\ UNCHANGED identity /\ UNCHANGED cursors
  /\ UNCHANGED lists /\ UNCHANGED history /\ UNCHANGED bounds

\* open_sync_state: the stored instance, or a fresh one.
OpenSync ==
  /\ Goes("sync", "follows")
  /\ IF sync.instance = None
     THEN minted' = minted + 1 /\ sync' = [sync EXCEPT !.instance = minted']
     ELSE UNCHANGED <<minted, sync>>
  /\ UNCHANGED <<synced, blobs, dirty>> /\ UNCHANGED identity /\ UNCHANGED claims
  /\ UNCHANGED lists /\ UNCHANGED history /\ UNCHANGED bounds

(***************************************************************************)
(* follows.json is written in place: the open truncates it, or fails and   *)
(* leaves it alone; the write ends, or fails with the file torn and the    *)
(* process alive, its path still set.  After[s] is where a save at s leads.*)
(***************************************************************************)
After == [clean |-> "extras", save |-> "up"]

BeginSave(s) ==
  \/ /\ stage' = s
     /\ follows' = NoList /\ tore' = TRUE /\ dirty' = dirty \cup {"follows"}
     /\ UNCHANGED faults
  \/ /\ stage' = After[s]
     /\ faults < MaxFaults /\ faults' = faults + 1
     /\ UNCHANGED <<follows, tore, dirty>>

SaveBeside == UNCHANGED <<blobs, minted, kills, cuts>> /\ UNCHANGED identity
              /\ UNCHANGED claims /\ UNCHANGED cursors /\ UNCHANGED history

Saving(ends) ==
  /\ stage \in DOMAIN After /\ stage' = After[stage]
  /\ ends
  /\ UNCHANGED <<following, tore, dirty>> /\ SaveBeside

Save == Saving(follows' = Listed(following.list) /\ UNCHANGED faults)

SaveFails ==
  Saving(faults < MaxFaults /\ faults' = faults + 1 /\ UNCHANGED follows)

\* Mutant: a list that does not parse is an empty one.
MutLoaded == [saves |-> TRUE, list |-> follows.list \ {Own}]

\* Follows::new: a list that does not parse has no path to be saved to.
Loaded == [saves |-> follows.is # "torn", list |-> follows.list \ {Own}]

\* A stored self-follow is dropped, and the list without it saved.
LoadFollows ==
  /\ stage = "follows"
  /\ following' = Loaded
  /\ IF Own \in follows.list THEN BeginSave("clean")
     ELSE stage' = "extras" /\ UNCHANGED <<follows, tore, dirty, faults>>
  /\ SaveBeside

\* Addresses join the list, which is saved when there is a path to save to.
Extend(added) ==
  /\ following' = [following EXCEPT !.list = @ \cup added]
  /\ IF following.saves /\ ~ added \subseteq following.list THEN BeginSave("save")
     ELSE stage' = "up" /\ UNCHANGED <<follows, tore, dirty, faults>>
  /\ SaveBeside

\* The addresses of VOUCH_FOLLOW.
AddExtras == stage = "extras" /\ \E extras \in SUBSET Friend : Extend(extras)

LaunchStep ==
  \/ Launch \/ LoadSeed \/ MintSeed \/ PersistSeed \/ WipeClaims \/ WipeSync
  \/ WipeBlobs \/ NothingToWipe \/ OpenClaims \/ StampVersion \/ OpenSync \/ LoadFollows
  \/ AddExtras

-----------------------------------------------------------------------------
(* The running app *)

\* A claim is minted or pulled: one transaction of claims.db.
Ingest(c) ==
  /\ stage = "up" /\ c \notin rows
  /\ rows' = rows \cup {c}
  /\ author' = IF author = None THEN seed ELSE author
  /\ UNCHANGED <<stage, version, blobs, dirty, minted, told, excuse>> /\ UNCHANGED identity
  /\ UNCHANGED cursors /\ UNCHANGED lists /\ UNCHANGED bounds

\* Mutant: the cursor is written before the claims are.
MutReaches(n) == n \in Claim

\* A pull cursor is written behind the page that was ingested.
Reaches(n) == 1 .. n \subseteq rows

SetCursor(n) ==
  /\ stage = "up" /\ n > sync.pull /\ Reaches(n)
  /\ sync' = [sync EXCEPT !.pull = n]
  /\ UNCHANGED <<stage, synced, blobs, dirty, minted>> /\ UNCHANGED identity
  /\ UNCHANGED claims /\ UNCHANGED lists /\ UNCHANGED history /\ UNCHANGED bounds

\* A peer asks for Status, and keeps cursors by the instance it is told.
Tell ==
  /\ stage = "up"
  /\ told' = [instance |-> sync.instance, rows |-> rows]
  /\ UNCHANGED <<stage, blobs, dirty, minted, author, excuse>> /\ UNCHANGED identity
  /\ UNCHANGED claims /\ UNCHANGED cursors /\ UNCHANGED lists /\ UNCHANGED bounds

\* FileBlobStorage::insert of what the want list asked for: a temporary file
\* renamed, so a killed process leaves nothing under a valid name.
Fetch(b) ==
  /\ stage = "up" /\ blobs[b] = "none"
  /\ blobs' = [blobs EXCEPT ![b] = "good"]
  /\ dirty' = dirty \cup {b}
  /\ UNCHANGED <<stage, minted>> /\ UNCHANGED identity /\ UNCHANGED claims
  /\ UNCHANGED cursors /\ UNCHANGED lists /\ UNCHANGED history /\ UNCHANGED bounds

\* FileBlobStorage::get of corrupt bytes: until then contains() counts them.
ReadBad(b) ==
  /\ stage = "up" /\ blobs[b] = "bad"
  /\ blobs' = [blobs EXCEPT ![b] = "none"]
  /\ UNCHANGED <<stage, dirty, minted>> /\ UNCHANGED identity /\ UNCHANGED claims
  /\ UNCHANGED cursors /\ UNCHANGED lists /\ UNCHANGED history /\ UNCHANGED bounds

\* Follows::add: nothing for an address already followed, or the own one.
Follow(f) == stage = "up" /\ f \notin following.list /\ Extend({f})

-----------------------------------------------------------------------------
(* The machine *)

\* The system writes back what it holds; SQLite checkpoints sync.db.
WriteBack ==
  /\ dirty # {} \/ synced # sync
  /\ dirty' = {} /\ synced' = sync
  /\ UNCHANGED <<stage, sync, blobs, minted>> /\ UNCHANGED identity /\ UNCHANGED claims
  /\ UNCHANGED lists /\ UNCHANGED history /\ UNCHANGED bounds

Rot(b) ==
  /\ blobs[b] = "good" /\ faults < MaxFaults
  /\ blobs' = [blobs EXCEPT ![b] = "bad"]
  /\ faults' = faults + 1
  /\ UNCHANGED <<stage, dirty, minted, kills, cuts>> /\ UNCHANGED identity
  /\ UNCHANGED claims /\ UNCHANGED cursors /\ UNCHANGED lists /\ UNCHANGED history

\* The process is gone, and with it what was only in memory.
Forgotten ==
  /\ stage # "down" /\ stage' = "down"
  /\ seed' = None
  /\ following' = [saves |-> FALSE, list |-> {}] /\ tore' = FALSE

Kill ==
  /\ Forgotten /\ kills < MaxKills /\ kills' = kills + 1
  /\ excuse' = IF stage = "wipe sync" THEN excuse \cup {"wipe"} ELSE excuse
  /\ UNCHANGED <<key, follows, blobs, dirty, minted, author, told, cuts, faults>>
  /\ UNCHANGED claims /\ UNCHANGED cursors

\* Mutant: the last commit of claims.db is lost with the power.
MutDurable == rows' \in {rows} \cup {rows \ {c} : c \in rows}

\* claims.db runs with synchronous=FULL: what was committed stays.
Durable == rows' = rows

\* Each file that was not written back has its content, or some other; of
\* sync.db (synchronous=NORMAL) the latest transactions may be gone.
PowerCut ==
  /\ Forgotten /\ cuts < MaxCuts /\ cuts' = cuts + 1
  /\ \E lost \in SUBSET dirty :
       /\ key' = IF "key" \in lost THEN Torn ELSE key
       /\ follows' = IF "follows" \in lost THEN NoList ELSE follows
       /\ blobs' = [b \in Blob |-> IF b \in lost /\ blobs[b] = "good" THEN "bad" ELSE blobs[b]]
       /\ excuse' = excuse \cup (IF "key" \in lost THEN {"key"} ELSE {})
                           \cup (IF stage = "wipe sync" THEN {"wipe"} ELSE {})
  /\ sync' \in {sync, synced} /\ synced' = sync'
  /\ dirty' = {}
  /\ Durable
  /\ UNCHANGED <<version, minted, author, told, kills, faults>>

Next ==
  \/ LaunchStep
  \/ \E c \in Claim : Ingest(c) \/ SetCursor(c)
  \/ Tell \/ Save \/ SaveFails \/ WriteBack \/ Kill \/ PowerCut
  \/ \E b \in Blob : Fetch(b) \/ ReadBad(b) \/ Rot(b)
  \/ \E f \in Friend : Follow(f)

Spec == Init /\ [][Next]_vars

-----------------------------------------------------------------------------
(***************************************************************************)
(* "Cursors must lag ingest, not lead it" (vouch-store lib.rs:667-670):    *)
(* wherever the process or the power stops, sync.db never counts a claim   *)
(* claims.db lacks.  A wipe of an old store interrupted between its files  *)
(* is the exception: the next launch finds no claims.db and keeps the      *)
(* cursors.  That a running process writes a cursor behind its claims is   *)
(* taken for granted here (Reaches); PeerNode says where it is not so.     *)
(***************************************************************************)
CursorsLag ==
  "wipe" \in excuse \/ stage = "wipe sync"
    \/ (1 .. sync.pull) \cup (1 .. synced.pull) \subseteq rows

(***************************************************************************)
(* While the directory keeps the instance a peer was told, it keeps the    *)
(* claims that were counted with it: the peer's cursor never leads         *)
(* (lib.rs:155-162, 626-638).                                              *)
(***************************************************************************)
ArrivalsKept ==
  "wipe" \in excuse \/ stage = "wipe sync"
    \/ (sync.instance = told.instance => told.rows \subseteq rows)

(***************************************************************************)
(* The claims this device minted stay its own: whatever step of a launch   *)
(* or a run is the last, the next one runs as their author, unless the key *)
(* file itself was lost or could not be read (identity.rs:17-37).          *)
(***************************************************************************)
AuthorKept ==
  "key" \in excuse \/ author = None \/ (seed \in {author, None} /\ key = author)

(***************************************************************************)
(* "We never overwrite a file we couldn't read" (follows.rs:24-26): a list *)
(* that another process left torn is not written by this one, in its       *)
(* launch or later.  The exception is a file this process tore itself: a   *)
(* write that fails keeps the path, and the next follow writes over what   *)
(* it left (follows.rs:116-127).                                           *)
(***************************************************************************)
UnreadableUntouched ==
  [][follows = NoList /\ ~tore => follows' = NoList /\ ~tore']_vars
=============================================================================
