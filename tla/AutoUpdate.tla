----------------------------- MODULE AutoUpdate -----------------------------
(***************************************************************************)
(* The app's self-update (auto_update.rs): a thread polls the nightly      *)
(* release, stages newer bundles in the temp directory, and the user's     *)
(* "restart to update" swaps the staged bundle over the installed one.     *)
(* The thread and the UI share STAGED, WAKE_FLAG and CHECK_STATE.          *)
(***************************************************************************)
EXTENDS Integers

CONSTANT MaxStamp   \* bound: the build stamps are 1 .. MaxStamp

ASSUME UpdateAssumption == MaxStamp \in Nat \ {0}

Stamp == 1 .. MaxStamp
Nothing == 0        \* no stamp: nothing staged, not running, mixed files
Partial == -1       \* a staging directory that is being filled

VARIABLES
  nightly,      \* stamp of the published release
  bundle,       \* the installed .app: its binary, and the rest of its files
  dirs,         \* the staging directory of each stamp: the build it holds
  running,      \* stamp baked into the running process
  staged,       \* STAGED
  have,         \* the updater thread's newest known stamp
  thread,       \* where the updater thread is
  target,       \* the stamp it downloads
  ring,         \* WAKE_FLAG
  checkState,   \* CHECK_STATE
  swapping,     \* the stamp restart_into_update has taken
  astray        \* history: a download of this process brought another build
                \* than the one whose stamp it had read

updateVars == <<nightly, bundle, dirs, running, staged, have, thread, target,
                ring, checkState, swapping, astray>>

updater == <<have, thread, target>>
outside == <<nightly, running>>

UpdateTypeOK ==
  /\ nightly \in Stamp
  /\ bundle \in [binary : Stamp, rest : Stamp \cup {Nothing}]
  /\ dirs \in [Stamp -> Stamp \cup {Nothing, Partial}]
  /\ {running, staged, have, target, swapping}
       \subseteq Stamp \cup {Nothing}
  /\ thread \in {"sleep", "check", "download"}
  /\ staged <= have   \* the thread knows what it offers
  /\ ring \in BOOLEAN /\ astray \in BOOLEAN
  /\ checkState \in {"idle", "checking", "upToDate", "failed"}

UpdateInit ==
  /\ nightly = 1
  /\ bundle = [binary |-> 1, rest |-> 1]
  /\ dirs = [s \in Stamp |-> Nothing]
  /\ running = Nothing
  /\ staged = Nothing /\ have = Nothing
  /\ thread = "sleep" /\ target = Nothing
  /\ ring = FALSE /\ checkState = "idle"
  /\ swapping = Nothing /\ astray = FALSE

\* Statics and the thread of a new process, or of none.
Process(stamp) ==
  /\ running' = stamp /\ have' = stamp
  /\ staged' = Nothing /\ thread' = "sleep" /\ target' = Nothing
  /\ ring' = FALSE /\ checkState' = "idle"
  /\ swapping' = Nothing /\ astray' = FALSE

-----------------------------------------------------------------------------
(* The world *)

\* A nightly is published; a bad one may be withdrawn for an older one.
Publish(s) ==
  /\ nightly' = s
  /\ UNCHANGED <<bundle, dirs, running, staged, ring, checkState, swapping, astray>>
  /\ UNCHANGED updater

\* spawn(): the binary that runs knows its own stamp.
StartApp ==
  /\ running = Nothing
  /\ Process(bundle.binary)
  /\ UNCHANGED <<nightly, bundle, dirs>>

\* The app quits or crashes; the staging directories stay.
Quit ==
  /\ running # Nothing /\ swapping = Nothing
  /\ Process(Nothing)
  /\ UNCHANGED <<nightly, bundle, dirs>>

-----------------------------------------------------------------------------
(* The updater thread *)

\* wait_for: the four hours are over, or a ring cut them short.
Wake ==
  /\ running # Nothing /\ thread = "sleep"
  /\ thread' = "check"
  /\ ring' = FALSE
  /\ checkState' = "checking"
  /\ UNCHANGED <<bundle, dirs, staged, have, target, swapping, astray>>
  /\ UNCHANGED outside

WakeRung == ring /\ Wake

\* Mutant: finishing a check consumes the ring as well.
MutOutcome(state) ==
  /\ thread' = "sleep" /\ target' = Nothing
  /\ checkState' = state /\ ring' = FALSE

\* A check ends, its outcome shown.
Outcome(state) ==
  /\ thread' = "sleep" /\ target' = Nothing
  /\ checkState' = state /\ UNCHANGED ring

CheckFails ==
  /\ thread \in {"check", "download"}
  /\ Outcome("failed")
  /\ UNCHANGED <<bundle, dirs, staged, have, swapping, astray>>
  /\ UNCHANGED outside

\* Mutant: any other stamp counts as an update.
MutNewer == nightly # have

Newer == nightly > have

NothingNewer ==
  /\ thread = "check" /\ ~Newer
  /\ Outcome("upToDate")
  /\ UNCHANGED <<bundle, dirs, staged, have, swapping, astray>>
  /\ UNCHANGED outside

\* The stamp the release page shows: its staging directory is cleared and
\* filled from the page's rolling URL.
BeginDownload ==
  /\ thread = "check" /\ Newer
  /\ thread' = "download" /\ target' = nightly
  /\ dirs' = [dirs EXCEPT ![nightly] = Partial]
  /\ UNCHANGED <<bundle, staged, have, ring, checkState, swapping, astray>>
  /\ UNCHANGED outside

\* The URL serves the build published when it is read, whatever stamp the
\* page showed before.
Downloaded ==
  /\ dirs' = [dirs EXCEPT ![target] = nightly]
  /\ astray' = (astray \/ nightly # target)

\* Mutant: the thread forgets what it has staged.
MutStage ==
  /\ thread = "download"
  /\ Downloaded
  /\ staged' = target
  /\ Outcome("idle")
  /\ UNCHANGED <<bundle, have, swapping>>
  /\ UNCHANGED outside

\* Unzipped, and taken for a bundle of the target's stamp: offered to the
\* user, replacing an older offer.
Stage ==
  /\ thread = "download"
  /\ Downloaded
  /\ staged' = target /\ have' = target
  /\ Outcome("idle")
  /\ UNCHANGED <<bundle, swapping>>
  /\ UNCHANGED outside

-----------------------------------------------------------------------------
(* The user *)

\* check_now
Click ==
  /\ running # Nothing /\ swapping = Nothing
  /\ checkState' = "checking" /\ ring' = TRUE
  /\ UNCHANGED <<bundle, dirs, staged, swapping, astray>>
  /\ UNCHANGED updater /\ UNCHANGED outside

\* restart_into_update takes the staged update...
TakeStaged ==
  /\ staged # Nothing /\ swapping = Nothing
  /\ swapping' = staged /\ staged' = Nothing
  /\ UNCHANGED <<bundle, dirs, ring, checkState, astray>>
  /\ UNCHANGED updater /\ UNCHANGED outside

\* ...rsyncs it over the installed bundle; the app quits and is reopened.
Swap ==
  /\ swapping # Nothing
  /\ bundle' = [binary |-> dirs[swapping], rest |-> dirs[swapping]]
  /\ dirs' = [dirs EXCEPT ![swapping] = Nothing]
  /\ Process(Nothing)
  /\ UNCHANGED nightly

\* The relaunch helper cannot be spawned: the app runs on, over new files.
SwapNoRelaunch ==
  /\ swapping # Nothing
  /\ bundle' = [binary |-> dirs[swapping], rest |-> dirs[swapping]]
  /\ dirs' = [dirs EXCEPT ![swapping] = Nothing]
  /\ swapping' = Nothing
  /\ UNCHANGED <<staged, ring, checkState, astray>>
  /\ UNCHANGED updater /\ UNCHANGED outside

\* rsync stops halfway: any of the files may be the new ones.
SwapFails ==
  /\ swapping # Nothing
  /\ \E b \in {bundle.binary, dirs[swapping]}, r \in {bundle.rest, dirs[swapping], Nothing} :
       bundle' = [binary |-> b, rest |-> r]
  /\ swapping' = Nothing
  /\ UNCHANGED <<dirs, staged, ring, checkState, astray>>
  /\ UNCHANGED updater /\ UNCHANGED outside

UpdateNext ==
  \/ \E s \in Stamp : Publish(s)
  \/ StartApp \/ Quit
  \/ Wake \/ CheckFails \/ NothingNewer \/ BeginDownload \/ Stage
  \/ Click \/ TakeStaged \/ Swap \/ SwapNoRelaunch \/ SwapFails

(***************************************************************************)
(* The condvar wakes the thread, curl and ditto end by themselves (curl by *)
(* its --max-time), rsync returns.  The four-hour timer is not relied on.  *)
(***************************************************************************)
UpdateSpec ==
  /\ UpdateInit /\ [][UpdateNext]_updateVars
  /\ WF_updateVars(WakeRung)
  /\ WF_updateVars(CheckFails \/ NothingNewer \/ BeginDownload \/ Stage)

-----------------------------------------------------------------------------
(* Properties *)

(***************************************************************************)
(* The bundle behind "restart to update", and the one being swapped in,    *)
(* are complete on disk: the thread, which clears staging directories,     *)
(* never clears theirs (check_and_stage, `have`).                          *)
(***************************************************************************)
StagedIntact ==
  \A s \in {staged, swapping} \ {Nothing} : dirs[s] \in Stamp

(***************************************************************************)
(* The installed binary only moves to newer stamps, whatever the page goes *)
(* back to between two checks (check_and_stage's stamp <= have).  The      *)
(* exception: the page changed between the two fetches of a download, the  *)
(* stamp and the bundle (auto_update.rs:206-243), and this process staged  *)
(* the bundle under a stamp that is not its own.                           *)
(***************************************************************************)
NeverDowngraded == [][astray \/ bundle'.binary >= bundle.binary]_updateVars

(***************************************************************************)
(* "check for updates" is followed by a check that starts after the click, *)
(* also when it falls into a running check, or between a check and the     *)
(* thread's next sleep (check_now, wait_for).                              *)
(***************************************************************************)
ClickAnswered == ring ~> (thread = "check" /\ ~ring) \/ running = Nothing

=============================================================================
