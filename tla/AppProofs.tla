------------------------------ MODULE AppProofs ------------------------------
(***************************************************************************)
(* Theorems about the app's own files.  AppDir, for any number of claims,  *)
(* kills, power cuts and faults, and any blobs and friends: what a         *)
(* directory that was left anywhere still promises to the next launch.     *)
(* AutoUpdate, for any number of build stamps: the offered bundle stays    *)
(* whole, and the installed binary moves forward.                          *)
(***************************************************************************)
EXTENDS AppDir, AutoUpdate, TLAPS


-----------------------------------------------------------------------------
(* AppDir: types *)

(***************************************************************************)
(* A process draws an identity and an instance at most once each, before   *)
(* it opens sync.db and after.  An install of the alpha drew one.          *)
(***************************************************************************)
Opened == {"follows", "clean", "extras", "save", "up"}

DrawnThisLife ==
  IF stage \in {"down", "key"} THEN 0
  ELSE IF stage \in Opened THEN 2 ELSE 1

Frugal == minted <= 1 + 2 * (kills + cuts) + DrawnThisLife

\* What is drawn next is a number the model has.
LEMMA Fresh ==
  ASSUME TypeOK, Frugal, stage \in {"key", "sync"}
  PROVE  minted + 1 \in Drawn
BY AppDirAssumption DEF TypeOK, Frugal, DrawnThisLife, Opened, Drawn

LEMMA InitType == Init => TypeOK /\ Frugal
<1> SUFFICES ASSUME Init PROVE TypeOK /\ Frugal
  OBVIOUS
<1> USE AppDirAssumption DEF NoSync, SyncRow, ListFile, NoFile, Listed, None, Torn,
                            Claim, Drawn, SCHEMA_VERSION
<1>1. /\ stage \in Stages /\ seed \in Drawn \cup {None}
      /\ blobs \in [Blob -> {"none", "good", "bad"}]
      /\ dirty \subseteq Files /\ excuse \subseteq {"key", "wipe"}
      /\ kills \in 0 .. MaxKills /\ cuts \in 0 .. MaxCuts /\ faults \in 0 .. MaxFaults
  BY DEF Init, Stages
<1>2. following \in [saves : BOOLEAN, list : SUBSET Friend] /\ tore \in BOOLEAN
  BY Zenon DEF Init
<1>3. CASE key = None
  <2>1. /\ key = None /\ version = None /\ rows = {} /\ follows = NoFile
        /\ sync = NoSync /\ author = None /\ minted = 0
        /\ told = [instance |-> None, rows |-> {}] /\ synced = sync
    BY <1>3 DEF Init
  <2>2. minted \in Nat /\ Frugal
    BY <2>1, <1>1 DEF Frugal, DrawnThisLife, Opened
  <2> QED BY <1>1, <1>2, <2>1, <2>2 DEF TypeOK
<1>4. CASE key # None
  <2>1. /\ key = 1 /\ version = 1 /\ rows = {1} /\ follows \in ListFile
        /\ sync = [instance |-> 1, pull |-> 1] /\ author = 1 /\ minted = 1
        /\ told = [instance |-> 1, rows |-> {1}] /\ synced = sync
    <3>1. Listed({}) \in ListFile /\ Listed({Own}) \in ListFile
      OBVIOUS
    <3> QED BY <1>4, <3>1 DEF Init
  <2>2. minted \in Nat /\ Frugal
    BY <2>1, <1>1 DEF Frugal, DrawnThisLife, Opened
  <2> QED BY <1>1, <1>2, <2>1, <2>2 DEF TypeOK
<1> QED BY <1>3, <1>4

LEMMA NoSyncType == NoSync \in SyncRow
BY AppDirAssumption DEF NoSync, SyncRow

\* Of a process that is gone, nothing is left in memory.
LEMMA Gone ==
  ASSUME Forgotten
  PROVE  /\ stage # "down" /\ stage' = "down" /\ seed' = None
         /\ following' \in [saves : BOOLEAN, list : SUBSET Friend]
         /\ following'.saves = FALSE /\ tore' \in BOOLEAN
BY Zenon DEF Forgotten

\* The steps that load, extend and save the list of follows.
Listing == LoadFollows \/ AddExtras \/ Save \/ SaveFails \/ \E f \in Friend : Follow(f)

\* What begins a save: the file is torn by this process, or left alone.
LEMMA BeginSaveEffect ==
  ASSUME TypeOK, NEW s \in {"clean", "save"}, BeginSave(s)
  PROVE  /\ stage' \in {"clean", "extras", "save", "up"}
         /\ dirty' \subseteq Files /\ faults' \in 0 .. MaxFaults
         /\ \/ follows' = NoList /\ tore' = TRUE
            \/ UNCHANGED <<follows, tore>> /\ stage' \notin {"clean", "save"}
<1>1. CASE stage' = s /\ follows' = NoList /\ tore' = TRUE
           /\ dirty' = dirty \cup {"follows"} /\ UNCHANGED faults
  BY <1>1 DEF TypeOK, Files
<1>2. CASE /\ stage' = After[s] /\ faults < MaxFaults /\ faults' = faults + 1
           /\ UNCHANGED <<follows, tore, dirty>>
  <2>1. stage' \in {"extras", "up"}
    BY <1>2 DEF After
  <2> QED BY <1>2, <2>1, AppDirAssumption DEF TypeOK
<1> QED BY <1>1, <1>2, Zenon DEF BeginSave

\* What Listing steps leave of the list, and what they do not touch.
ListOnly ==
  /\ UNCHANGED <<seed, key, version, rows, sync, synced, blobs, author, told, excuse,
                 minted, kills, cuts>>
  /\ stage \in Opened /\ stage' \in Opened
  /\ following' \in [saves : BOOLEAN, list : SUBSET Friend]
  /\ dirty' \subseteq Files /\ faults' \in 0 .. MaxFaults

LEMMA ExtendEffect ==
  ASSUME TypeOK, NEW added \in SUBSET Friend, Extend(added), stage \in Opened
  PROVE  /\ ListOnly
         /\ following'.saves = following.saves
         /\ \/ UNCHANGED <<follows, tore>> /\ stage' \notin {"clean", "save"}
            \/ following.saves /\ follows' = NoList /\ tore' = TRUE
<1> USE DEF identity, claims, cursors, history
<1>1. /\ following' \in [saves : BOOLEAN, list : SUBSET Friend]
      /\ following'.saves = following.saves
  BY DEF Extend, TypeOK
<1>2. UNCHANGED <<seed, key, version, rows, sync, synced, blobs, author, told, excuse,
                  minted, kills, cuts>>
  BY Zenon DEF Extend, SaveBeside
<1>3. CASE following.saves /\ BeginSave("save")
  BY <1>1, <1>2, <1>3, BeginSaveEffect DEF ListOnly, Opened
<1>4. CASE stage' = "up" /\ UNCHANGED <<follows, tore, dirty, faults>>
  BY <1>1, <1>2, <1>4 DEF ListOnly, Opened, TypeOK
<1> QED BY <1>3, <1>4, Zenon DEF Extend

LEMMA LoadEffect ==
  ASSUME TypeOK, LoadFollows
  PROVE  /\ ListOnly
         /\ follows = NoList => following'.saves = FALSE
         /\ \/ UNCHANGED <<follows, tore>> /\ stage' \notin {"clean", "save"}
            \/ follows # NoList /\ follows' = NoList /\ tore' = TRUE
<1> USE DEF identity, claims, cursors, history
<1>1. following' \in [saves : BOOLEAN, list : SUBSET Friend]
  BY DEF LoadFollows, Loaded, TypeOK, ListFile
<1>2. follows = NoList => following'.saves = FALSE /\ Own \notin follows.list
  <2>1. follows = NoList => follows.is = "torn" /\ follows.list = {}
    BY DEF NoList
  <2>2. following'.saves = (follows.is # "torn")
    BY DEF LoadFollows, Loaded
  <2> QED BY <2>1, <2>2
<1>3. UNCHANGED <<seed, key, version, rows, sync, synced, blobs, author, told, excuse,
                  minted, kills, cuts>>
  BY Zenon DEF LoadFollows, SaveBeside
<1>4. stage = "follows"
  BY DEF LoadFollows
<1>5. CASE Own \in follows.list /\ BeginSave("clean")
  BY <1>1, <1>2, <1>3, <1>4, <1>5, BeginSaveEffect DEF ListOnly, Opened
<1>6. CASE stage' = "extras" /\ UNCHANGED <<follows, tore, dirty, faults>>
  BY <1>1, <1>2, <1>3, <1>4, <1>6 DEF ListOnly, Opened, TypeOK
<1> QED BY <1>5, <1>6, Zenon DEF LoadFollows

LEMMA SaveEffect ==
  ASSUME TypeOK, Save \/ SaveFails
  PROVE  /\ ListOnly
         /\ stage \in {"clean", "save"} /\ stage' \in {"extras", "up"}
         /\ UNCHANGED <<following, tore>>
         /\ follows' \in {follows, Listed(following.list)}
<1> USE DEF identity, claims, cursors, history, Save, SaveFails, Saving
<1>1. stage \in {"clean", "save"} /\ stage' \in {"extras", "up"}
  BY DEF After
<1>2. /\ UNCHANGED <<following, tore, dirty>>
      /\ follows' \in {follows, Listed(following.list)}
      /\ UNCHANGED <<seed, key, version, rows, sync, synced, blobs, author, told, excuse,
                     minted, kills, cuts>>
  BY Zenon DEF SaveBeside
<1>3. CASE UNCHANGED faults
  BY <1>1, <1>2, <1>3 DEF ListOnly, Opened, TypeOK
<1>4. CASE faults < MaxFaults /\ faults' = faults + 1
  BY <1>1, <1>2, <1>4, AppDirAssumption DEF ListOnly, Opened, TypeOK
<1> QED BY <1>3, <1>4, Zenon

LEMMA ListingEffect ==
  ASSUME TypeOK, Listing
  PROVE  ListOnly
<1>1. CASE AddExtras
  BY <1>1, ExtendEffect DEF AddExtras, Opened
<1>2. ASSUME NEW f \in Friend, Follow(f) PROVE ListOnly
  BY <1>2, ExtendEffect DEF Follow, Opened
<1> QED BY <1>1, <1>2, LoadEffect, SaveEffect DEF Listing

LEMMA ListingType ==
  ASSUME TypeOK, Listing
  PROVE  follows' \in ListFile /\ tore' \in BOOLEAN
<1>0. NoList \in ListFile
  BY DEF NoList, ListFile
<1>1. CASE AddExtras
  BY <1>0, <1>1, ExtendEffect DEF AddExtras, Opened, TypeOK
<1>2. ASSUME NEW f \in Friend, Follow(f) PROVE follows' \in ListFile /\ tore' \in BOOLEAN
  BY <1>0, <1>2, ExtendEffect DEF Follow, Opened, TypeOK
<1>3. CASE LoadFollows
  BY <1>0, <1>3, LoadEffect DEF TypeOK
<1>4. CASE Save \/ SaveFails
  <2>1. Listed(following.list) \in ListFile
    BY DEF Listed, ListFile, TypeOK
  <2> QED BY <1>4, <2>1, SaveEffect DEF TypeOK
<1> QED BY <1>1, <1>2, <1>3, <1>4 DEF Listing

LEMMA NextType ==
  ASSUME TypeOK, Frugal, [Next]_vars
  PROVE  TypeOK'
<1> USE AppDirAssumption
    DEF TypeOK, identity, claims, cursors, lists, history, bounds
<1>1. CASE Launch
  BY <1>1 DEF Launch, Goes, Stages
<1>2. CASE LoadSeed
  BY <1>2 DEF LoadSeed, Goes, Stages
<1>3. CASE MintSeed
  <2>1. minted' \in Drawn /\ minted' \in Nat
    BY <1>3, Fresh DEF MintSeed, Goes
  <2>2. excuse' \subseteq {"key", "wipe"}
    BY <1>3, Zenon DEF MintSeed
  <2>4. \/ UNCHANGED <<faults, excuse>>
        \/ faults < MaxFaults /\ faults' = faults + 1
    BY <1>3, Zenon DEF MintSeed
  <2>3. dirty' \subseteq Files /\ stage' \in Stages
    BY <1>3 DEF MintSeed, Goes, Files, Stages
  <2>5. faults' \in 0 .. MaxFaults
    BY <2>4
  <2> QED BY <1>3, <2>1, <2>2, <2>3, <2>5 DEF MintSeed
<1>4. CASE PersistSeed
  BY <1>4 DEF PersistSeed, Goes, Persisted, Stages
<1>5. CASE WipeClaims
  BY <1>5 DEF WipeClaims, Goes, Stages
<1>6. CASE WipeSync
  BY <1>6, NoSyncType DEF WipeSync, Goes, Stages
<1>7. CASE WipeBlobs
  BY <1>7 DEF WipeBlobs, Goes, Stages
<1>8. CASE NothingToWipe
  BY <1>8 DEF NothingToWipe, Goes, Stages
<1>9. CASE OpenClaims
  BY <1>9 DEF OpenClaims, Goes, Stages
<1>10. CASE StampVersion
  BY <1>10 DEF StampVersion, Goes, Stages
<1>11. CASE OpenSync
  <2>1. sync' \in SyncRow /\ minted' \in Nat
    <3>1. CASE sync.instance = None
      <4>1. minted' \in Drawn /\ minted' \in Nat
        BY <1>11, <3>1, Fresh DEF OpenSync, Goes
      <4> QED BY <1>11, <3>1, <4>1 DEF OpenSync, SyncRow
    <3>2. CASE sync.instance # None
      BY <1>11, <3>2 DEF OpenSync
    <3> QED BY <3>1, <3>2
  <2>2. stage' \in Stages
    BY <1>11 DEF OpenSync, Goes, Stages
  <2> QED BY <1>11, <2>1, <2>2 DEF OpenSync
<1>12. CASE Listing
  <2>1. ListOnly /\ follows' \in ListFile /\ tore' \in BOOLEAN
    BY <1>12, ListingEffect, ListingType
  <2> QED BY <2>1 DEF ListOnly, Opened, Stages
<1>13. ASSUME NEW c \in Claim, Ingest(c) PROVE TypeOK'
  BY <1>13 DEF Ingest
<1>14. ASSUME NEW c \in Claim, SetCursor(c) PROVE TypeOK'
  BY <1>14 DEF SetCursor, Reaches, SyncRow, NoSync, None, Claim
<1>15. CASE Tell
  BY <1>15 DEF Tell, SyncRow
<1>17. CASE WriteBack
  BY <1>17 DEF WriteBack
<1>18. CASE Kill
  <2>1. stage' \in Stages /\ seed' = None
        /\ following' \in [saves : BOOLEAN, list : SUBSET Friend] /\ tore' \in BOOLEAN
    BY <1>18, Gone DEF Kill, Stages
  <2>2. excuse' \subseteq {"key", "wipe"}
    BY <1>18, Zenon DEF Kill
  <2>3. kills < MaxKills /\ kills' = kills + 1
    BY <1>18, Zenon DEF Kill
  <2>4. UNCHANGED <<version, rows, sync, synced, key, follows, blobs, dirty, minted,
                    author, told, cuts, faults>>
    BY <1>18, Zenon DEF Kill
  <2> QED BY <2>1, <2>2, <2>3, <2>4
<1>19. CASE PowerCut
  <2>1. stage' \in Stages /\ seed' = None
        /\ following' \in [saves : BOOLEAN, list : SUBSET Friend] /\ tore' \in BOOLEAN
    BY <1>19, Gone DEF PowerCut, Stages
  <2>2. PICK lost \in SUBSET dirty :
          /\ key' = IF "key" \in lost THEN Torn ELSE key
          /\ follows' = IF "follows" \in lost THEN NoList ELSE follows
          /\ blobs' = [b \in Blob |-> IF b \in lost /\ blobs[b] = "good" THEN "bad" ELSE blobs[b]]
          /\ excuse' = excuse \cup (IF "key" \in lost THEN {"key"} ELSE {})
                              \cup (IF stage = "wipe sync" THEN {"wipe"} ELSE {})
    BY <1>19 DEF PowerCut
  <2>3. key' \in Drawn \cup {None, Torn} /\ excuse' \subseteq {"key", "wipe"}
    BY <2>2
  <2>4. follows' \in ListFile
    BY <2>2 DEF NoList, ListFile
  <2>5. blobs' \in [Blob -> {"none", "good", "bad"}]
    BY <2>2
  <2>6. sync' \in SyncRow /\ synced' \in SyncRow
    BY <1>19 DEF PowerCut
  <2>7. cuts < MaxCuts /\ cuts' = cuts + 1
    BY <1>19, Zenon DEF PowerCut
  <2>8. dirty' = {} /\ UNCHANGED <<rows, version, minted, author, told, kills, faults>>
    BY <1>19, Zenon DEF PowerCut, Durable
  <2> QED BY <2>1, <2>3, <2>4, <2>5, <2>6, <2>7, <2>8
<1>20. ASSUME NEW b \in Blob, Fetch(b) PROVE TypeOK'
  BY <1>20 DEF Fetch, Files
<1>21. ASSUME NEW b \in Blob, ReadBad(b) PROVE TypeOK'
  BY <1>21 DEF ReadBad
<1>22. ASSUME NEW b \in Blob, Rot(b) PROVE TypeOK'
  BY <1>22 DEF Rot
<1>24. CASE UNCHANGED vars
  BY <1>24 DEF vars
<1> QED
  BY <1>1, <1>2, <1>3, <1>4, <1>5, <1>6, <1>7, <1>8, <1>9, <1>10, <1>11,
     <1>12, <1>13, <1>14, <1>15, <1>17, <1>18, <1>19, <1>20, <1>21, <1>22, <1>24
     DEF Next, LaunchStep, Listing

LEMMA NextFrugal ==
  ASSUME TypeOK, Frugal, [Next]_vars
  PROVE  Frugal'
<1> USE DEF TypeOK, Frugal, DrawnThisLife, Opened, identity, claims, cursors, lists, history, bounds
<1>1. CASE Launch
  BY <1>1 DEF Launch, Goes, Stages
<1>2. CASE LoadSeed
  BY <1>2 DEF LoadSeed, Goes, Stages
<1>3. CASE MintSeed
  BY <1>3 DEF MintSeed, Goes, Stages, Files
<1>4. CASE PersistSeed
  BY <1>4 DEF PersistSeed, Goes, Persisted, Stages
<1>5. CASE WipeClaims
  BY <1>5 DEF WipeClaims, Goes, Stages
<1>6. CASE WipeSync
  BY <1>6 DEF WipeSync, Goes, Stages, SyncRow, NoSync, None, Claim
<1>7. CASE WipeBlobs
  BY <1>7 DEF WipeBlobs, Goes, Stages
<1>8. CASE NothingToWipe
  BY <1>8 DEF NothingToWipe, Goes, Stages
<1>9. CASE OpenClaims
  BY <1>9 DEF OpenClaims, Goes, Stages
<1>10. CASE StampVersion
  BY <1>10 DEF StampVersion, Goes, Stages
<1>11. CASE OpenSync
  BY <1>11 DEF OpenSync, Goes, Stages, SyncRow, NoSync, None, Claim
<1>12. CASE Listing
  BY <1>12, ListingEffect DEF ListOnly
<1>13. ASSUME NEW c \in Claim, Ingest(c) PROVE Frugal'
  BY <1>13 DEF Ingest
<1>14. ASSUME NEW c \in Claim, SetCursor(c) PROVE Frugal'
  BY <1>14 DEF SetCursor, Reaches, SyncRow, NoSync, None, Claim
<1>15. CASE Tell
  BY <1>15 DEF Tell, SyncRow
<1>17. CASE WriteBack
  BY <1>17 DEF WriteBack
<1>18. CASE Kill
  <2>1. stage' = "down"
    BY <1>18, Gone DEF Kill
  <2>2. kills' = kills + 1 /\ cuts' = cuts /\ minted' = minted
    BY <1>18, Zenon DEF Kill
  <2> QED BY <2>1, <2>2
<1>19. CASE PowerCut
  <2>1. stage' = "down"
    BY <1>19, Gone DEF PowerCut
  <2>2. cuts' = cuts + 1 /\ kills' = kills /\ minted' = minted
    BY <1>19, Zenon DEF PowerCut
  <2> QED BY <2>1, <2>2
<1>20. ASSUME NEW b \in Blob, Fetch(b) PROVE Frugal'
  BY <1>20 DEF Fetch, Files
<1>21. ASSUME NEW b \in Blob, ReadBad(b) PROVE Frugal'
  BY <1>21 DEF ReadBad
<1>22. ASSUME NEW b \in Blob, Rot(b) PROVE Frugal'
  BY <1>22 DEF Rot
<1>24. CASE UNCHANGED vars
  BY <1>24 DEF vars
<1> QED
  BY <1>1, <1>2, <1>3, <1>4, <1>5, <1>6, <1>7, <1>8, <1>9, <1>10, <1>11,
     <1>12, <1>13, <1>14, <1>15, <1>17, <1>18, <1>19, <1>20, <1>21, <1>22, <1>24
     DEF Next, LaunchStep, Listing

(***************************************************************************)
(* Every variable keeps its type, and no more identities and instances are *)
(* drawn than processes were started.                                      *)
(***************************************************************************)
THEOREM DirectoryTyped == Spec => [](TypeOK /\ Frugal)
BY InitType, NextType, NextFrugal, PTL DEF Spec

-----------------------------------------------------------------------------
(* What the end of a process does to the directory *)

LEMMA KillEffect ==
  ASSUME Kill
  PROVE  /\ UNCHANGED <<key, follows, rows, sync, synced, author, told, minted>>
         /\ stage = "wipe sync" => "wipe" \in excuse'
         /\ excuse \subseteq excuse'
BY Zenon DEF Kill, claims, cursors

LEMMA PowerCutEffect ==
  ASSUME PowerCut
  PROVE  /\ UNCHANGED <<rows, author, told, minted>>
         /\ sync' \in {sync, synced} /\ synced' = sync'
         /\ stage = "wipe sync" => "wipe" \in excuse'
         /\ key' = key \/ "key" \in excuse'
         /\ excuse \subseteq excuse'
BY Zenon DEF PowerCut, Durable

\* The steps of a launch that touch none of claims.db's rows, sync.db and
\* what is excused, and those of the running app.
Beside ==
  \/ Launch \/ LoadSeed \/ PersistSeed \/ WipeBlobs \/ NothingToWipe
  \/ OpenClaims \/ StampVersion \/ Listing
  \/ \E b \in Blob : Fetch(b) \/ ReadBad(b) \/ Rot(b)
  \/ UNCHANGED vars

LEMMA BesideEffect ==
  ASSUME TypeOK, Beside
  PROVE  /\ UNCHANGED <<rows, sync, synced, author, told, excuse, minted>>
         /\ stage = "wipe sync" => stage' = stage
<1> USE DEF claims, cursors, history
<1>1. CASE Launch \/ LoadSeed \/ PersistSeed \/ WipeBlobs \/ NothingToWipe
  BY <1>1 DEF Launch, LoadSeed, PersistSeed, WipeBlobs, NothingToWipe, Goes
<1>2. CASE OpenClaims \/ StampVersion
  BY <1>2 DEF OpenClaims, StampVersion, Goes
<1>3. ASSUME NEW b \in Blob, Fetch(b) \/ ReadBad(b) \/ Rot(b)
      PROVE  /\ UNCHANGED <<rows, sync, synced, author, told, excuse, minted>>
             /\ stage = "wipe sync" => stage' = stage
  BY <1>3 DEF Fetch, ReadBad, Rot
<1>4. CASE Listing
  BY <1>4, ListingEffect DEF ListOnly, Opened
<1>5. CASE UNCHANGED vars
  BY <1>5 DEF vars
<1> QED BY <1>1, <1>2, <1>3, <1>4, <1>5 DEF Beside

LEMMA NextCases ==
  ASSUME [Next]_vars
  PROVE  \/ Beside \/ MintSeed \/ WipeClaims \/ WipeSync \/ OpenSync \/ Tell
         \/ WriteBack \/ Kill \/ PowerCut
         \/ \E c \in Claim : Ingest(c) \/ SetCursor(c)
BY DEF Next, LaunchStep, Beside, Listing

-----------------------------------------------------------------------------
(* Cursors *)

LEMMA NothingBelow ==
  ASSUME NEW n, n = 0
  PROVE  1 .. n = {}
OBVIOUS

LEMMA LagInductive ==
  ASSUME TypeOK, CursorsLag, [Next]_vars
  PROVE  CursorsLag'
<1> USE DEF CursorsLag, claims, cursors, history
<1>1. CASE Beside
  BY <1>1, BesideEffect
<1>2. CASE MintSeed
  <2>1. UNCHANGED <<rows, sync, synced>> /\ excuse \subseteq excuse' /\ stage = "key"
    BY <1>2, Zenon DEF MintSeed, Goes
  <2> QED BY <2>1
<1>3. CASE WipeClaims
  BY <1>3 DEF WipeClaims, Goes
<1>4. CASE WipeSync
  <2>1. sync'.pull = 0 /\ synced'.pull = 0
    BY <1>4 DEF WipeSync, NoSync
  <2> QED BY <2>1, NothingBelow
<1>5. CASE OpenSync
  <2>1. /\ sync'.pull = sync.pull /\ stage = "sync"
        /\ UNCHANGED <<rows, synced, excuse>>
    BY <1>5 DEF OpenSync, Goes, TypeOK, SyncRow
  <2> QED BY <2>1
<1>6. CASE Tell
  BY <1>6 DEF Tell
<1>7. CASE WriteBack
  BY <1>7 DEF WriteBack
<1>8. CASE Kill
  BY <1>8, KillEffect
<1>9. CASE PowerCut
  BY <1>9, PowerCutEffect
<1>10. ASSUME NEW c \in Claim, Ingest(c) PROVE CursorsLag'
  BY <1>10 DEF Ingest
<1>11. ASSUME NEW c \in Claim, SetCursor(c) PROVE CursorsLag'
  BY <1>11 DEF SetCursor, Reaches
<1> QED
  BY <1>1, <1>2, <1>3, <1>4, <1>5, <1>6, <1>7, <1>8, <1>9, <1>10, <1>11, NextCases

(***************************************************************************)
(* Wherever the process or the power stops, sync.db counts no claim that   *)
(* claims.db lacks (vouch-store, SyncStateStorage), the interrupted wipe   *)
(* of an old store apart.                                                  *)
(***************************************************************************)
THEOREM CursorsNeverLead == Spec => []CursorsLag
<1>1. Init => CursorsLag
  BY DEF Init, CursorsLag, NoSync
<1>2. TypeOK /\ CursorsLag /\ [Next]_vars => CursorsLag'
  BY LagInductive
<1> QED BY <1>1, <1>2, DirectoryTyped, PTL DEF Spec

-----------------------------------------------------------------------------
(* Instances *)

(***************************************************************************)
(* What a peer was told of an instance holds of sync.db as it is and as a  *)
(* power cut may leave it; an instance that was told had been drawn.       *)
(***************************************************************************)
Counted ==
  /\ told.instance = None => told.rows = {}
  /\ told.instance <= minted
  /\ \A s \in {sync, synced} : s.instance <= minted
  /\ stage \in Opened => sync.instance # None
  /\ \/ "wipe" \in excuse \/ stage = "wipe sync"
     \/ \A s \in {sync, synced} : s.instance = told.instance => told.rows \subseteq rows

LEMMA CountedInductive ==
  ASSUME TypeOK, Counted, [Next]_vars
  PROVE  Counted'
<1> USE DEF claims, cursors, history
<1>0. /\ told.instance \in Int /\ minted \in Nat
      /\ sync.instance \in Int /\ synced.instance \in Int
  BY AppDirAssumption DEF TypeOK, Drawn, SyncRow, None
<1>1. CASE Beside
  <2>1. UNCHANGED <<rows, sync, synced, told, excuse, minted>>
        /\ (stage = "wipe sync" => stage' = stage)
    BY <1>1, BesideEffect
  <2>2. stage' \in Opened => stage \in Opened
    <3>1. CASE Launch \/ LoadSeed \/ PersistSeed \/ WipeBlobs \/ NothingToWipe
                 \/ OpenClaims \/ StampVersion
      BY <3>1 DEF Launch, LoadSeed, PersistSeed, WipeBlobs, NothingToWipe, OpenClaims,
                  StampVersion, Goes, Opened
    <3>2. ASSUME NEW b \in Blob, Fetch(b) \/ ReadBad(b) \/ Rot(b) PROVE stage' = stage
      BY <3>2 DEF Fetch, ReadBad, Rot
    <3>3. CASE Listing
      BY <3>3, ListingEffect DEF ListOnly
    <3>4. CASE UNCHANGED vars
      BY <3>4 DEF vars
    <3> QED BY <1>1, <3>1, <3>2, <3>3, <3>4 DEF Beside
  <2> QED BY <2>1, <2>2 DEF Counted, Opened
<1>2. CASE MintSeed
  <2>1. /\ UNCHANGED <<rows, sync, synced, told>> /\ excuse \subseteq excuse'
        /\ stage = "key" /\ stage' = "persist" /\ minted' = minted + 1
    BY <1>2, Zenon DEF MintSeed, Goes
  <2> QED BY <1>0, <2>1 DEF Counted, Opened
<1>3. CASE WipeClaims
  BY <1>3 DEF WipeClaims, Goes, Counted, Opened
<1>4. CASE WipeSync
  <2>1. /\ sync' = NoSync /\ synced' = NoSync /\ stage' = "wipe blobs"
        /\ UNCHANGED <<rows, told, minted>>
    BY <1>4, Zenon DEF WipeSync, Goes
  <2>2. sync'.instance = -1 /\ synced'.instance = -1
    BY <2>1 DEF NoSync, None
  <2>3. /\ told.instance = -1 => told.rows = {}
        /\ told.instance <= minted
    BY DEF Counted, Opened, None
  <2>4. \A s \in {sync', synced'} : s.instance = -1
    BY <2>1, <2>2
  <2>5. -1 <= minted
    BY <1>0
  <2> QED BY <2>1, <2>3, <2>4, <2>5 DEF Counted, Opened, None
<1>5. CASE OpenSync
  <2>1. UNCHANGED <<rows, synced, told, excuse>> /\ stage = "sync" /\ stage' = "follows"
    BY <1>5 DEF OpenSync, Goes
  <2>2. CASE sync.instance = None
    <3>1. minted' = minted + 1 /\ sync'.instance = minted'
      BY <1>5, <2>2 DEF OpenSync, TypeOK, SyncRow
    <3>3. told.instance <= minted
      BY DEF Counted, Opened
    <3>2. sync'.instance # told.instance /\ sync'.instance # None
      BY <1>0, <3>1, <3>3 DEF None
    <3> QED BY <1>0, <2>1, <3>1, <3>2 DEF Counted, Opened
  <2>3. CASE sync.instance # None
    <3>1. UNCHANGED <<minted, sync>>
      BY <1>5, <2>3 DEF OpenSync
    <3> QED BY <2>1, <2>3, <3>1 DEF Counted, Opened
  <2> QED BY <2>2, <2>3
<1>6. CASE Tell
  <2>1. /\ told'.instance = sync.instance /\ told'.rows = rows /\ stage = "up"
        /\ UNCHANGED <<stage, rows, sync, synced, excuse, minted>>
    BY <1>6 DEF Tell
  <2>2. sync.instance # None /\ sync.instance <= minted
    BY <2>1 DEF Counted, Opened
  <2> QED BY <2>1, <2>2 DEF Counted, Opened
<1>7. CASE WriteBack
  BY <1>7 DEF WriteBack, Counted
<1>8. CASE Kill
  <2>1. stage' = "down"
    BY <1>8, Gone DEF Kill
  <2> QED BY <1>8, <2>1, KillEffect DEF Counted, Opened
<1>9. CASE PowerCut
  <2>1. stage' = "down"
    BY <1>9, Gone DEF PowerCut
  <2> QED BY <1>9, <2>1, PowerCutEffect DEF Counted, Opened
<1>10. ASSUME NEW c \in Claim, Ingest(c) PROVE Counted'
  BY <1>10 DEF Ingest, Counted
<1>11. ASSUME NEW c \in Claim, SetCursor(c) PROVE Counted'
  <2>1. /\ sync'.instance = sync.instance
        /\ UNCHANGED <<stage, rows, synced, told, excuse, minted>>
    BY <1>11 DEF SetCursor
  <2> QED BY <2>1 DEF Counted, Opened
<1> QED
  BY <1>1, <1>2, <1>3, <1>4, <1>5, <1>6, <1>7, <1>8, <1>9, <1>10, <1>11, NextCases

(***************************************************************************)
(* While a directory keeps the instance that a peer was told, it keeps the *)
(* claims that were counted with it (vouch-store, open_sync_state).        *)
(***************************************************************************)
THEOREM ToldArrivalsKept == Spec => []ArrivalsKept
<1>1. Init => Counted
  BY DEF Init, Counted, NoSync, None, Opened
<1>2. TypeOK /\ Counted /\ [Next]_vars => Counted'
  BY CountedInductive
<1>3. Counted => ArrivalsKept
  BY DEF Counted, ArrivalsKept
<1> QED BY <1>1, <1>2, <1>3, DirectoryTyped, PTL DEF Spec

-----------------------------------------------------------------------------
(* The author *)

\* The stages in which a process has its identity.
Identified == Stages \ {"down", "key", "persist"}

(***************************************************************************)
(* Before a seed is on disk nothing is minted with it: claims of this      *)
(* device exist only once the process has passed PersistSeed.              *)
(***************************************************************************)
KeyHeld ==
  \/ "key" \in excuse
  \/ /\ AuthorKept
     /\ stage = "persist" => key = Torn /\ seed \in Drawn
     /\ stage \in Identified => key = seed /\ seed \in Drawn

\* Steps that keep the identity, and the author of what was minted.
LEMMA OtherKeeps ==
  ASSUME TypeOK, [Next]_vars
  PROVE  \/ LoadSeed \/ MintSeed \/ PersistSeed \/ Kill \/ PowerCut
         \/ \E c \in Claim : Ingest(c)
         \/ /\ UNCHANGED <<seed, key, author, excuse>>
            /\ stage' \in Identified => stage \in Identified
            /\ stage' = "persist" => stage = "persist"
<1> DEFINE Keeps == /\ UNCHANGED <<seed, key, author, excuse>>
                    /\ stage' \in Identified => stage \in Identified
                    /\ stage' = "persist" => stage = "persist"
<1> USE DEF identity, history, Identified, Stages, Goes
<1>1. CASE Launch \/ WipeClaims \/ WipeSync \/ WipeBlobs \/ NothingToWipe
  BY <1>1 DEF Launch, WipeClaims, WipeSync, WipeBlobs, NothingToWipe
<1>2. CASE OpenClaims \/ StampVersion \/ OpenSync
  BY <1>2 DEF OpenClaims, StampVersion, OpenSync
<1>3. CASE Tell \/ WriteBack
  BY <1>3 DEF Tell, WriteBack
<1>4. ASSUME NEW b \in Blob, Fetch(b) \/ ReadBad(b) \/ Rot(b) PROVE Keeps
  BY <1>4 DEF Fetch, ReadBad, Rot
<1>5. CASE Listing
  BY <1>5, ListingEffect DEF ListOnly, Opened
<1>6. ASSUME NEW c \in Claim, SetCursor(c) PROVE Keeps
  BY <1>6 DEF SetCursor
<1>7. CASE UNCHANGED vars
  BY <1>7 DEF vars
<1> QED BY <1>1, <1>2, <1>3, <1>4, <1>5, <1>6, <1>7 DEF Next, LaunchStep, Listing

LEMMA KeyInductive ==
  ASSUME TypeOK, Frugal, KeyHeld, [Next]_vars
  PROVE  KeyHeld'
<1>0. author \in Drawn \cup {None} /\ None \notin Drawn /\ Torn \notin Drawn /\ Torn # None
  BY AppDirAssumption DEF TypeOK, Drawn, None, Torn
<1>1. CASE LoadSeed
  <2>1. /\ key \in Drawn /\ seed' = key /\ stage' = "wipe"
        /\ UNCHANGED <<key, author, excuse>>
    BY <1>1 DEF LoadSeed, Goes, history
  <2> QED BY <1>0, <2>1 DEF KeyHeld, AuthorKept
<1>2. CASE MintSeed
  <2>1. CASE "key" \in excuse'
    BY <2>1 DEF KeyHeld
  <2>2. CASE "key" \notin excuse'
    <3>1. /\ key \notin Drawn /\ excuse' = excuse /\ stage' = "persist"
          /\ key' = Torn /\ seed' = minted' /\ UNCHANGED author
      BY <1>2, <2>2, Zenon DEF MintSeed, Goes
    <3>2. seed' \in Drawn
      BY <1>2, <3>1, Fresh DEF MintSeed, Goes
    <3>3. author = None
      BY <1>0, <2>2, <3>1 DEF KeyHeld, AuthorKept
    <3> QED BY <3>1, <3>2, <3>3 DEF KeyHeld, AuthorKept, Identified
  <2> QED BY <2>1, <2>2
<1>3. CASE PersistSeed
  <2>1. /\ key' = seed /\ stage = "persist" /\ stage' = "wipe"
        /\ UNCHANGED <<seed, author, excuse>>
    BY <1>3 DEF PersistSeed, Persisted, Goes, history
  <2>2. "key" \in excuse \/ author = None
    BY <1>0, <2>1 DEF KeyHeld, AuthorKept
  <2> QED BY <2>1, <2>2 DEF KeyHeld, AuthorKept
<1>4. CASE Kill
  <2>1. stage' = "down" /\ seed' = None
    BY <1>4, Gone DEF Kill
  <2> QED BY <1>4, <2>1, KillEffect DEF KeyHeld, AuthorKept, Identified
<1>5. CASE PowerCut
  <2>1. stage' = "down" /\ seed' = None
    BY <1>5, Gone DEF PowerCut
  <2> QED BY <1>5, <2>1, PowerCutEffect DEF KeyHeld, AuthorKept, Identified
<1>6. ASSUME NEW c \in Claim, Ingest(c) PROVE KeyHeld'
  <2>1. /\ stage = "up" /\ stage' = "up" /\ UNCHANGED <<seed, key, excuse>>
        /\ author' = IF author = None THEN seed ELSE author
    BY <1>6 DEF Ingest, identity
  <2> QED BY <2>1 DEF KeyHeld, AuthorKept, Identified, Stages
<1>7. CASE /\ UNCHANGED <<seed, key, author, excuse>>
           /\ stage' \in Identified => stage \in Identified
           /\ stage' = "persist" => stage = "persist"
  BY <1>7 DEF KeyHeld, AuthorKept
<1> QED BY <1>1, <1>2, <1>3, <1>4, <1>5, <1>6, <1>7, OtherKeeps

(***************************************************************************)
(* Whatever step of a launch is the last, the next process runs as the     *)
(* author of the claims this device minted, unless the key file was lost   *)
(* or could not be read (identity.rs, load_or_create).                     *)
(***************************************************************************)
THEOREM AuthorStays == Spec => []AuthorKept
<1>1. Init => KeyHeld
  BY DEF Init, KeyHeld, AuthorKept, Identified
<1>2. TypeOK /\ Frugal /\ KeyHeld /\ [Next]_vars => KeyHeld'
  BY KeyInductive
<1>3. KeyHeld => AuthorKept
  BY DEF KeyHeld, AuthorKept
<1> QED BY <1>1, <1>2, <1>3, DirectoryTyped, PTL DEF Spec

-----------------------------------------------------------------------------
(* follows.json *)

(***************************************************************************)
(* A process that may save its list has read a list, unless it tore the    *)
(* file itself; only a process that tore the file is inside a save.        *)
(***************************************************************************)
SavesReadable ==
  /\ stage \in {"clean", "save"} => tore
  /\ stage \in Opened \ {"follows"} /\ following.saves /\ follows = NoList => tore

Untouched == follows = NoList /\ ~tore => follows' = NoList /\ ~tore'

\* Steps that leave the list and its file alone, inside a process.
LEMMA ListsKept ==
  ASSUME [Next]_vars, ~Listing, ~Kill, ~PowerCut
  PROVE  /\ UNCHANGED lists
         /\ stage' = stage \/ stage' \notin Opened \ {"follows"}
<1> DEFINE Kept == UNCHANGED lists /\ (stage' = stage \/ stage' \notin Opened \ {"follows"})
<1> USE DEF Goes, Opened
<1>1. CASE Launch \/ LoadSeed \/ MintSeed \/ PersistSeed \/ WipeClaims \/ WipeSync
  BY <1>1, Zenon DEF Launch, LoadSeed, MintSeed, PersistSeed, WipeClaims, WipeSync
<1>2. CASE WipeBlobs \/ NothingToWipe \/ OpenClaims \/ StampVersion \/ OpenSync
  BY <1>2, Zenon DEF WipeBlobs, NothingToWipe, OpenClaims, StampVersion, OpenSync
<1>3. CASE Tell \/ WriteBack \/ UNCHANGED vars
  BY <1>3 DEF Tell, WriteBack, vars, lists
<1>4. ASSUME NEW c \in Claim, Ingest(c) \/ SetCursor(c) PROVE Kept
  BY <1>4, Zenon DEF Ingest, SetCursor
<1>5. ASSUME NEW b \in Blob, Fetch(b) \/ ReadBad(b) \/ Rot(b) PROVE Kept
  BY <1>5, Zenon DEF Fetch, ReadBad, Rot
<1> QED BY <1>1, <1>2, <1>3, <1>4, <1>5 DEF Next, LaunchStep, Listing

LEMMA SavesInductive ==
  ASSUME TypeOK, SavesReadable, [Next]_vars
  PROVE  SavesReadable' /\ Untouched
<1>1. CASE LoadFollows
  <2>1. CASE UNCHANGED <<follows, tore>> /\ stage' \notin {"clean", "save"}
    <3>1. follows = NoList => following'.saves = FALSE
      BY <1>1, LoadEffect
    <3>2. SavesReadable'
      BY <2>1, <3>1 DEF SavesReadable
    <3> QED BY <2>1, <3>2 DEF Untouched
  <2>2. CASE follows # NoList /\ follows' = NoList /\ tore' = TRUE
    BY <2>2 DEF SavesReadable, Untouched
  <2> QED BY <1>1, <2>1, <2>2, LoadEffect
<1>2. CASE Save \/ SaveFails
  <2>1. tore /\ UNCHANGED tore
    BY <1>2, SaveEffect DEF SavesReadable
  <2> QED BY <2>1 DEF SavesReadable, Untouched
<1>3. ASSUME NEW added \in SUBSET Friend, Extend(added), stage \in {"extras", "up"}
      PROVE  SavesReadable' /\ Untouched
  BY <1>3, ExtendEffect DEF SavesReadable, Untouched, Opened
<1>4. CASE AddExtras
  BY <1>3, <1>4 DEF AddExtras
<1>5. ASSUME NEW f \in Friend, Follow(f) PROVE SavesReadable' /\ Untouched
  BY <1>3, <1>5 DEF Follow
<1>6. CASE Kill
  <2>1. stage' = "down" /\ tore' = FALSE /\ follows' = follows
    BY <1>6, Zenon DEF Kill, Forgotten
  <2> QED BY <2>1 DEF SavesReadable, Untouched, Opened
<1>7. CASE PowerCut
  <2>1. stage' = "down" /\ tore' = FALSE /\ follows' \in {follows, NoList}
    BY <1>7, Zenon DEF PowerCut, Forgotten
  <2> QED BY <2>1 DEF SavesReadable, Untouched, Opened
<1>8. CASE ~Listing /\ ~Kill /\ ~PowerCut
  BY <1>8, ListsKept DEF SavesReadable, Untouched, lists, Opened
<1> QED BY <1>1, <1>2, <1>4, <1>5, <1>6, <1>7, <1>8 DEF Listing

(***************************************************************************)
(* A list that another process left unreadable is written over by no save, *)
(* of the launch or of a later follow, whatever writes fail (follows.rs,   *)
(* Follows::new).                                                          *)
(***************************************************************************)
THEOREM UnreadableStays == Spec => UnreadableUntouched
<1>1. Init => SavesReadable
  BY DEF Init, SavesReadable, Opened
<1>2. TypeOK /\ SavesReadable /\ [Next]_vars => SavesReadable'
  BY SavesInductive
<1>3. TypeOK /\ SavesReadable /\ [Next]_vars
        => [follows = NoList /\ ~tore => follows' = NoList /\ ~tore']_vars
  BY SavesInductive DEF Untouched
<1> QED BY <1>1, <1>2, <1>3, DirectoryTyped, PTL DEF Spec, UnreadableUntouched

-----------------------------------------------------------------------------
(* AutoUpdate *)
(***************************************************************************)
(* Why the staging directories do not collide: the thread downloads only   *)
(* what is newer than all it knows, and it knows what it offered and what  *)
(* is being swapped.  Why the binary never goes back: while each download  *)
(* of this process brought the build it was to bring, all of these are at  *)
(* least as new as the binary.                                             *)
(***************************************************************************)
Ordered ==
  /\ running = Nothing => staged = Nothing /\ swapping = Nothing /\ thread = "sleep"
  /\ thread = "download" => target \in Stamp /\ have < target
  /\ staged # Nothing => staged <= have
  /\ swapping # Nothing => swapping <= have
  /\ staged # Nothing /\ swapping # Nothing => swapping < staged

Forward ==
  ~astray =>
    /\ running # Nothing => bundle.binary <= have
    /\ \A s \in {staged, swapping} \ {Nothing} : bundle.binary <= s /\ dirs[s] = s

UpdateInv == UpdateTypeOK /\ Ordered /\ Forward /\ StagedIntact

LEMMA StampNat == Stamp \subseteq Nat /\ Nothing \in Nat /\ Nothing \notin Stamp
BY UpdateAssumption DEF Stamp, Nothing

LEMMA UpdateInitInv == UpdateInit => UpdateInv
<1> SUFFICES ASSUME UpdateInit PROVE UpdateInv
  OBVIOUS
<1>R. ring \in BOOLEAN /\ astray \in BOOLEAN
  BY Zenon DEF UpdateInit
<1>1. UpdateTypeOK
  BY <1>R, UpdateAssumption DEF UpdateInit, UpdateTypeOK, Stamp, Nothing, Partial
<1>2. Ordered /\ Forward /\ StagedIntact
  BY DEF UpdateInit, Ordered, Forward, StagedIntact
<1> QED BY <1>1, <1>2 DEF UpdateInv

\* A process that ends or begins offers nothing and swaps nothing.
LEMMA ProcessKeeps ==
  ASSUME UpdateTypeOK, UNCHANGED nightly,
         NEW stamp \in Stamp \cup {Nothing}, Process(stamp),
         bundle' \in [binary : Stamp, rest : Stamp \cup {Nothing}],
         dirs' \in [Stamp -> Stamp \cup {Nothing, Partial}],
         stamp # Nothing => bundle'.binary <= stamp
  PROVE  UpdateInv'
<1>R. ring' \in BOOLEAN /\ astray' \in BOOLEAN
  BY Zenon DEF Process
<1>1. UpdateTypeOK'
  BY <1>R, UpdateAssumption DEF Process, UpdateTypeOK, Stamp, Nothing, Partial
<1>2. Ordered' /\ Forward' /\ StagedIntact'
  BY DEF Process, Ordered, Forward, StagedIntact
<1> QED BY <1>1, <1>2 DEF UpdateInv

LEMMA UpdateNextInv == UpdateInv /\ [UpdateNext]_updateVars => UpdateInv'
<1> SUFFICES ASSUME UpdateInv, [UpdateNext]_updateVars PROVE UpdateInv'
  OBVIOUS
<1> USE UpdateAssumption DEF UpdateInv, outside, updater, Stamp, Nothing, Partial
<1>1. ASSUME NEW s \in Stamp, Publish(s) PROVE UpdateInv'
  BY <1>1 DEF Publish, UpdateTypeOK, Ordered, Forward, StagedIntact
<1>2. CASE StartApp
  BY <1>2, ProcessKeeps DEF StartApp, UpdateTypeOK
<1>3. CASE Quit
  BY <1>3, ProcessKeeps DEF Quit, UpdateTypeOK
<1>4. CASE Wake
  BY <1>4 DEF Wake, UpdateTypeOK, Ordered, Forward, StagedIntact
<1>5. CASE CheckFails
  BY <1>5 DEF CheckFails, Outcome, UpdateTypeOK, Ordered, Forward, StagedIntact
<1>6. CASE NothingNewer
  BY <1>6 DEF NothingNewer, Outcome, UpdateTypeOK, Ordered, Forward, StagedIntact
<1>7. CASE BeginDownload
  <2>1. UpdateTypeOK'
    BY <1>7 DEF BeginDownload, UpdateTypeOK
  <2>2. Ordered' /\ Forward'
    BY <1>7 DEF BeginDownload, Newer, UpdateTypeOK, Ordered, Forward
  <2>3. StagedIntact'
    BY <1>7 DEF BeginDownload, Newer, UpdateTypeOK, Ordered, Forward, StagedIntact
  <2> QED BY <2>1, <2>2, <2>3
<1>8. CASE Stage
  <2>1. UpdateTypeOK'
    BY <1>8 DEF Stage, Downloaded, Outcome, UpdateTypeOK, Ordered
  <2>2. Ordered'
    BY <1>8 DEF Stage, Downloaded, Outcome, UpdateTypeOK, Ordered
  <2>4. Forward'
    <3>1. ~astray' => ~astray /\ nightly = target
      BY <1>8, Zenon DEF Stage, Downloaded
    <3>2. staged' = target /\ have' = target /\ thread = "download"
          /\ dirs' = [dirs EXCEPT ![target] = nightly] /\ UNCHANGED <<running, bundle, swapping>>
      BY <1>8 DEF Stage, Downloaded
    <3> SUFFICES ASSUME ~astray, nightly = target PROVE Forward'
      BY <3>1 DEF Forward
    <3>3. dirs'[target] = target /\ target \in Stamp /\ have < target
      BY <3>2 DEF UpdateTypeOK, Ordered
    <3>4. running # Nothing /\ bundle.binary <= have
      BY <3>2 DEF Ordered, Forward
    <3>5. bundle.binary <= target
      BY <3>3, <3>4 DEF UpdateTypeOK
    <3>6. ASSUME swapping # Nothing PROVE bundle.binary <= swapping /\ dirs'[swapping] = swapping
      BY <3>2, <3>3, <3>6 DEF Forward, Ordered, UpdateTypeOK
    <3> QED BY <3>2, <3>3, <3>5, <3>6 DEF Forward
  <2>3. StagedIntact'
    BY <1>8 DEF Stage, Downloaded, Outcome, UpdateTypeOK, Ordered, Forward, StagedIntact
  <2> QED BY <2>1, <2>2, <2>3, <2>4
<1>9. CASE Click
  BY <1>9 DEF Click, UpdateTypeOK, Ordered, Forward, StagedIntact
<1>10. CASE TakeStaged
  BY <1>10 DEF TakeStaged, UpdateTypeOK, Ordered, Forward, StagedIntact
<1>11. CASE Swap
  BY <1>11, ProcessKeeps DEF Swap, UpdateTypeOK, StagedIntact
<1>12. CASE SwapNoRelaunch
  <2>1. UpdateTypeOK'
    BY <1>12 DEF SwapNoRelaunch, UpdateTypeOK, StagedIntact
  <2>2. Ordered' /\ Forward'
    BY <1>12 DEF SwapNoRelaunch, UpdateTypeOK, Ordered, Forward, StagedIntact
  <2>3. StagedIntact'
    BY <1>12 DEF SwapNoRelaunch, UpdateTypeOK, Ordered, Forward, StagedIntact
  <2> QED BY <2>1, <2>2, <2>3
<1>13. CASE SwapFails
  <2>1. PICK b \in {bundle.binary, dirs[swapping]}, r \in {bundle.rest, dirs[swapping], Nothing} :
          bundle' = [binary |-> b, rest |-> r]
    BY <1>13 DEF SwapFails
  <2>5. dirs[swapping] \in Stamp
    BY <1>13 DEF SwapFails, StagedIntact
  <2>2. UpdateTypeOK'
    BY <1>13, <2>1, <2>5 DEF SwapFails, UpdateTypeOK
  <2>3. Ordered' /\ Forward'
    BY <1>13, <2>1, <2>5 DEF SwapFails, UpdateTypeOK, Ordered, Forward
  <2>4. StagedIntact'
    BY <1>13 DEF SwapFails, StagedIntact
  <2> QED BY <2>2, <2>3, <2>4
<1>14. CASE UNCHANGED updateVars
  BY <1>14 DEF updateVars, UpdateTypeOK, Ordered, Forward, StagedIntact
<1> QED
  BY <1>1, <1>2, <1>3, <1>4, <1>5, <1>6, <1>7, <1>8, <1>9, <1>10, <1>11, <1>12,
     <1>13, <1>14 DEF UpdateNext

LEMMA UpdateInvariance == UpdateSpec => []UpdateInv
BY UpdateInitInv, UpdateNextInv, PTL DEF UpdateSpec

-----------------------------------------------------------------------------
(***************************************************************************)
(* The variables keep their types, and the thread knows the stamp of what  *)
(* is offered.                                                             *)
(***************************************************************************)
THEOREM UpdateTyped == UpdateSpec => []UpdateTypeOK
<1>1. UpdateInv => UpdateTypeOK
  BY DEF UpdateInv
<1> QED BY <1>1, UpdateInvariance, PTL

(***************************************************************************)
(* However checks, downloads, clicks, failed swaps and withdrawn nightlies *)
(* interleave, what is offered or being swapped in is complete on disk     *)
(* (auto_update.rs, check_and_stage).                                      *)
(***************************************************************************)
THEOREM StagedStaysIntact == UpdateSpec => []StagedIntact
<1>1. UpdateInv => StagedIntact
  BY DEF UpdateInv
<1> QED BY <1>1, UpdateInvariance, PTL

(***************************************************************************)
(* The installed binary never moves to an older stamp, unless a download   *)
(* of this process brought another build than the one whose stamp the      *)
(* release page had shown it (auto_update.rs, check_and_stage).            *)
(***************************************************************************)
THEOREM BinaryMovesForward == UpdateSpec => NeverDowngraded
<1>1. UpdateInv /\ [UpdateNext]_updateVars
        => [astray \/ bundle'.binary >= bundle.binary]_updateVars
  <2> SUFFICES ASSUME UpdateInv, UpdateNext, ~astray PROVE bundle'.binary >= bundle.binary
    BY DEF updateVars
  <2>1. bundle.binary \in Nat
    BY StampNat DEF UpdateInv, UpdateTypeOK
  <2>2. CASE Swap \/ SwapNoRelaunch \/ SwapFails
    <3>1. bundle.binary <= dirs[swapping] /\ dirs[swapping] \in Nat
      BY <2>2, StampNat DEF Swap, SwapNoRelaunch, SwapFails, UpdateInv, Forward,
                            StagedIntact
    <3>2. bundle'.binary \in {bundle.binary, dirs[swapping]}
      BY <2>2 DEF Swap, SwapNoRelaunch, SwapFails
    <3> QED BY <2>1, <3>1, <3>2
  <2>3. CASE ~(Swap \/ SwapNoRelaunch \/ SwapFails)
    <3>1. bundle' = bundle
      BY <2>3 DEF UpdateNext, Publish, StartApp, Quit, Wake, CheckFails, NothingNewer,
                  BeginDownload, Stage, Click, TakeStaged
    <3> QED BY <2>1, <3>1
  <2> QED BY <2>2, <2>3
<1> QED BY <1>1, UpdateInvariance, PTL DEF UpdateSpec, NeverDowngraded
=============================================================================
