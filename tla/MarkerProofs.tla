---------------------------- MODULE MarkerProofs ----------------------------
(***************************************************************************)
(* Safety of the markers next.<version> and of boots: whatever is killed,  *)
(* fails or loses power, a marker names a complete generation, stays once  *)
(* it was reported and never comes back once it was retired, and a boot    *)
(* runs current or falls back to it.                                       *)
(***************************************************************************)
EXTENDS ProfileProofs

-----------------------------------------------------------------------------
(* Markers: the invariant for StagedIsComplete, StagedStays and            *)
(* RetiredStaysAway.                                                       *)

BeforeEntry ==
  {"idle", "boot", "shellSweep", "sweepOthers", "plan", "tree", "publish", "publishSync", "sweep",
   "stage", "stageSync", "enter"}
ActivateSteps ==
  {"shellSweep", "sweepOthers", "restore", "restoreSync", "fallback", "consume", "consumeSync"}

Unmarked(d) == \A v \in Versions : d.next[v] = NoGen

\* An operation that has not begun has no state; one that changes the profile
\* takes only the steps of apply_locked_profile_change and its activation.
KindFollows ==
  /\ pc \in {"idle", "boot"} => kind = "none" /\ mode = "none"
  /\ pc \in BeforeEntry => phase = "none" /\ old = NoGen
  /\ pc \in {"idle", "boot", "plan", "tree", "publish", "publishSync"} => swept = {}
  /\ kind \in ApplyKinds => /\ pc \notin {"boot"} \cup ActivateSteps
                           /\ phase \in {"none", "try", "revert"}
                           /\ mode \in {"activate", "skip", "stage", "noop"}
  /\ kind \in {"widget", "addMissing"} => mode # "stage"
  /\ mode = "stage" => ver \in Versions
  /\ pc \in {"stage", "stageSync"} => mode = "stage"
  /\ pc \in {"plan", "tree", "publish", "publishSync", "sweep", "stage", "stageSync"} => kind \in ApplyKinds
  /\ pc \in {"discard", "discarding"} => kind = "widget"
  /\ pc \in EntrypointSteps => phase # "none"

\* No image has two markers.
OneMarker ==
  \A d \in persisted : \A v, w \in Versions : d.next[v] # NoGen /\ d.next[w] # NoGen => v = w

\* A generation that was built and is to be staged is complete, and no marker
\* of an earlier run names it.
BuiltIsStageable ==
  pc \in {"publishSync", "stage", "stageSync"} \/ (pc = "sweep" /\ mode # "noop") =>
    /\ built \in Gen /\ Complete(dir.gen[built]) /\ built \notin retired \cup swept
    /\ pc = "stageSync" \/ \A v \in Versions : dir.next[v] # built
StageFollows ==
  /\ pc = "stage" => Unmarked(dir)
  /\ pc = "stageSync" => dir.next[ver] = built

\* Neither a collection nor a discard aims at a marked generation; a widget
\* install finds every marker at or below its floor.
MarkedSpared ==
  /\ pc \in {"remove", "discarding"} => \A v \in Versions : dir.next[v] \notin doomed
  /\ kind = "widget" => \A v \in Versions : dir.next[v] <= floor

\* The generation a boot takes from the marker is the one it consumes.
TakesMarked == (mode = "next" /\ phase \in {"none", "try"}) \/ phase = "staged"
MarkerIsTaken ==
  /\ pc \in EntrypointSteps \cup {"enter", "consume"} /\ TakesMarked =>
       fw \in Versions /\ dir.next[fw] = target /\ target \in Gen
  /\ pc \in {"consume", "consumeSync"} => TakesMarked
  /\ pc = "consumeSync" => Unmarked(dir) /\ target \in Gen

\* add_missing_packages runs only while nothing is staged.
NothingToLose == kind = "addMissing" => Unmarked(dir)

MInv ==
  /\ StagedIsComplete /\ StagedStays /\ RetiredStaysAway /\ NoGen \notin retired
  /\ KindFollows /\ OneMarker /\ BuiltIsStageable /\ StageFollows /\ MarkedSpared
  /\ MarkerIsTaken /\ NothingToLose


\* A generation number is NoGen or stands for a generation, never both.
LEMMA NoGenAside == NoGen \notin Gen /\ \A g \in GenOrNone : g = NoGen \/ g \in Gen
BY ProfileBounds DEF NoGen, Gen, GenOrNone

\* What MInv says of the images a power loss may leave.
ImagesFollow ==
  StagedIsComplete /\ StagedStays /\ RetiredStaysAway /\ NoGen \notin retired /\ OneMarker

\* An image with the markers of one that was there, or fewer, is as good,
\* while its marked generations are untouched.
LEMMA FewerMarkers ==
  ASSUME ImagesFollow, retired' \subseteq retired,
         \A e \in persisted' : \E d \in persisted : \A v \in Versions :
            /\ e.next[v] \in {d.next[v], NoGen}
            /\ e.next[v] # NoGen => e.gen[e.next[v]] = d.gen[d.next[v]]
            /\ staged'[v] # NoGen => staged'[v] = staged[v] /\ e.next[v] = d.next[v]
  PROVE  ImagesFollow'
<1>1. StagedIsComplete'
  BY DEF ImagesFollow, StagedIsComplete
<1>2. StagedStays'
  BY DEF ImagesFollow, StagedStays
<1>3. RetiredStaysAway' /\ NoGen \notin retired'
  BY DEF ImagesFollow, RetiredStaysAway
<1>4. OneMarker'
  BY DEF ImagesFollow, OneMarker
<1> QED
  BY <1>1, <1>2, <1>3, <1>4 DEF ImagesFollow

LEMMA SameImages ==
  ASSUME ImagesFollow, persisted' \subseteq persisted, staged' = staged, retired' \subseteq retired
  PROVE  ImagesFollow'
BY FewerMarkers

\* No marker names a generation that is not there.
LEMMA MarkedIsThere ==
  ASSUME TypeOK, CInv, ImagesFollow, NEW v \in Versions, dir.next[v] # NoGen
  PROVE  dir.next[v] \in Generations(dir)
<1>1. dir.next[v] \in Gen
  BY DirFields, NoGenAside DEF TypeOK
<1>2. Complete(dir.gen[dir.next[v]])
  BY DEF CInv, DirOnDisk, ImagesFollow, StagedIsComplete
<1> QED
  BY <1>1, <1>2 DEF Generations, Complete

\* remove_next and the sweeps.
LEMMA RemovedMarker ==
  ASSUME TypeOK, CInv, ImagesFollow, NEW v, Change(WithNext(dir, v, NoGen), {}),
         staged' = [staged EXCEPT ![v] = NoGen], retired' = retired
  PROVE  /\ ImagesFollow' /\ dir'.gen = dir.gen /\ dir'.current = dir.current
         /\ \A w \in Versions : dir'.next[w] = IF w = v THEN NoGen ELSE dir.next[w]
<1>0. dir \in Dir /\ dir \in persisted /\ staged \in [Versions -> GenOrNone]
  BY DEF TypeOK, CInv, DirOnDisk
<1>1. /\ dir'.gen = dir.gen /\ dir'.current = dir.current
      /\ \A w \in Versions : dir'.next[w] = IF w = v THEN NoGen ELSE dir.next[w]
  BY <1>0, WithNextFacts, NoGenTyped DEF Change
<1>2. persisted' = persisted \cup {dir'}
  BY DEF Change
<1>3. \A w \in Versions : staged'[w] = IF w = v THEN NoGen ELSE staged[w]
  BY <1>0
<1>4. \A e \in persisted' : \E d \in persisted : \A w \in Versions :
         /\ e.next[w] \in {d.next[w], NoGen}
         /\ e.next[w] # NoGen => e.gen[e.next[w]] = d.gen[d.next[w]]
         /\ staged'[w] # NoGen => staged'[w] = staged[w] /\ e.next[w] = d.next[w]
  <2> SUFFICES ASSUME NEW e \in persisted'
               PROVE  \E d \in persisted : \A w \in Versions :
                         /\ e.next[w] \in {d.next[w], NoGen}
                         /\ e.next[w] # NoGen => e.gen[e.next[w]] = d.gen[d.next[w]]
                         /\ staged'[w] # NoGen => staged'[w] = staged[w] /\ e.next[w] = d.next[w]
    OBVIOUS
  <2>1. CASE e \in persisted
    BY <1>3, <2>1
  <2>2. CASE e = dir'
    BY <1>0, <1>1, <1>3, <2>2
  <2> QED
    BY <1>2, <2>1, <2>2
<1> QED
  BY <1>1, <1>4, FewerMarkers

\* remove_profile_entry and build_profile's rename, on an unmarked generation.
LEMMA RewrittenGeneration ==
  ASSUME TypeOK, CInv, ImagesFollow, NEW g \in GenOrNone, \A v \in Versions : dir.next[v] # g,
         \A e \in persisted' : e \in persisted \/ \E c \in Content : e = WithGen(dir, g, c),
         staged' = staged, retired' \subseteq retired
  PROVE  ImagesFollow'
<1>0. dir \in Dir /\ dir \in persisted /\ \A v \in Versions : dir.next[v] \in GenOrNone
  BY DirFields DEF TypeOK, CInv, DirOnDisk
<1>1. ASSUME NEW c \in Content, NEW v \in Versions, NEW e, e = WithGen(dir, g, c)
      PROVE  e.next[v] = dir.next[v] /\ (e.next[v] # NoGen => e.gen[e.next[v]] = dir.gen[dir.next[v]])
  <2>1. dir.next[v] # NoGen => dir.next[v] \in Gen
    BY <1>0, NoGenAside
  <2> QED
    BY <1>0, <1>1, <2>1, WithGenFacts
<1>2. \A e \in persisted' : \E d \in persisted : \A w \in Versions :
         /\ e.next[w] \in {d.next[w], NoGen}
         /\ e.next[w] # NoGen => e.gen[e.next[w]] = d.gen[d.next[w]]
         /\ staged'[w] # NoGen => staged'[w] = staged[w] /\ e.next[w] = d.next[w]
  BY <1>0, <1>1
<1> QED
  BY <1>2, FewerMarkers

\* A removal rewrites one generation; current and the markers stay.
LEMMA RemovalRewrites ==
  ASSUME TypeOK, NEW g \in Gen, RemoveGeneration(g) \/ RemovalFails(g)
  PROVE  /\ \A e \in persisted' : e \in persisted \/ \E c \in Content : e = WithGen(dir, g, c)
         /\ dir'.next = dir.next /\ dir'.current = dir.current
<1>0. dir \in Dir /\ g \in GenOrNone /\ Remains(dir.gen[g]) \cup {dir.gen[g], "absent"} \subseteq Content
  BY NoGenTyped, DirFields, RemainsAreContents DEF TypeOK, Content
<1>1. /\ \A e \in persisted' : e \in persisted \/ \E c \in Content : e = WithGen(dir, g, c)
      /\ \E c \in Content : dir' = WithGen(dir, g, c)
  BY <1>0 DEF RemoveGeneration, RemovalFails, Change
<1> QED
  BY <1>0, <1>1, WithGenFacts

\* The flip of current and its restoration.
LEMMA MovedCurrent ==
  ASSUME TypeOK, CInv, ImagesFollow, NEW g \in GenOrNone, Change(WithCurrent(dir, g), {}),
         staged' = staged, retired' = retired
  PROVE  ImagesFollow' /\ dir'.gen = dir.gen /\ dir'.next = dir.next
<1>0. dir \in Dir /\ dir \in persisted
  BY DEF TypeOK, CInv, DirOnDisk
<1>1. dir'.gen = dir.gen /\ dir'.next = dir.next /\ persisted' = persisted \cup {dir'}
  BY <1>0, WithCurrentFacts DEF Change
<1> QED
  BY <1>0, <1>1, FewerMarkers

LEMMA UnmarkedDir ==
  ASSUME TypeOK, Marked(dir) = {}
  PROVE  Unmarked(dir)
<1> SUFFICES ASSUME NEW v \in Versions PROVE dir.next[v] = NoGen
  BY DEF Unmarked
<1>1. dir.next[v] \in GenOrNone /\ dir.next[v] \notin Gen
  BY DirFields DEF TypeOK, Marked
<1> QED
  BY <1>1, NoGenAside

\* stage_next_boot: the one marker there is names a complete generation.
LEMMA NewMarker ==
  ASSUME TypeOK, CInv, MInv, Stage
  PROVE  ImagesFollow'
<1>0. /\ dir \in Dir /\ dir \in persisted /\ built \in GenOrNone /\ ver \in Versions /\ ImagesFollow
      /\ staged \in [Versions -> GenOrNone]
  BY DEF TypeOK, CInv, DirOnDisk, Stage, MInv, KindFollows, ImagesFollow
<1>1. Unmarked(dir) /\ Complete(dir.gen[built]) /\ built \in Gen /\ built \notin retired
  BY DEF Stage, MInv, StageFollows, BuiltIsStageable
<1>2. /\ dir'.gen = dir.gen /\ persisted' = persisted \cup {dir'} /\ staged' = staged /\ retired' = retired
      /\ \A w \in Versions : dir'.next[w] = IF w = ver THEN built ELSE NoGen
  BY <1>0, <1>1, WithNextFacts DEF Stage, Change, ghosts, Unmarked
<1>3. StagedIsComplete'
  BY <1>0, <1>1, <1>2 DEF ImagesFollow, StagedIsComplete
<1>4. StagedStays'
  BY <1>0, <1>1, <1>2 DEF ImagesFollow, StagedStays, Unmarked
<1>5. RetiredStaysAway' /\ NoGen \notin retired'
  BY <1>0, <1>1, <1>2 DEF ImagesFollow, RetiredStaysAway
<1>6. OneMarker'
  BY <1>0, <1>2 DEF ImagesFollow, OneMarker
<1> QED
  BY <1>3, <1>4, <1>5, <1>6 DEF ImagesFollow

\* Once the directory is synced, what it has no marker for can be retired.
LEMMA SettledUnmarked ==
  ASSUME CInv, ImagesFollow, Unmarked(dir), Settle, staged' = staged,
         NEW S \in SUBSET Gen, retired' = retired \cup S
  PROVE  ImagesFollow'
<1>0. persisted' = {dir} /\ dir \in persisted /\ NoGen \notin S
  BY NoGenAside DEF Settle, CInv, DirOnDisk
<1> QED
  BY <1>0 DEF ImagesFollow, StagedIsComplete, StagedStays, RetiredStaysAway, OneMarker, Unmarked

\* Staging is reported once the directory with the marker is synced.
LEMMA SettledMarker ==
  ASSUME TypeOK, CInv, MInv, StageSync
  PROVE  ImagesFollow'
<1>0. /\ persisted' = {dir} /\ dir \in persisted /\ retired' = retired /\ ImagesFollow
      /\ dir.next[ver] = built /\ staged' = [staged EXCEPT ![ver] = built]
      /\ staged \in [Versions -> GenOrNone]
  BY DEF StageSync, Settle, CInv, DirOnDisk, MInv, StageFollows, ImagesFollow, TypeOK
<1> QED
  BY <1>0 DEF ImagesFollow, StagedIsComplete, StagedStays, RetiredStaysAway, OneMarker

LEMMA ImagesStepFollow == TypeOK /\ CInv /\ MInv /\ [Next]_vars => ImagesFollow'
<1> SUFFICES ASSUME TypeOK, CInv, MInv, [Next]_vars PROVE ImagesFollow'
  OBVIOUS
<1>0. ImagesFollow /\ dir \in Dir /\ dir \in persisted
  BY DEF MInv, ImagesFollow, TypeOK, CInv, DirOnDisk
<1>1. CASE FlipCurrent \/ Restore
  <2>1. \/ \E g \in GenOrNone : Change(WithCurrent(dir, g), {})
        \/ UNCHANGED <<dir, persisted>>
    BY <1>1 DEF FlipCurrent, Restore, TypeOK
  <2>2. staged' = staged /\ retired' = retired
    BY <1>1 DEF FlipCurrent, Restore, ghosts
  <2> QED
    BY <1>0, <2>1, <2>2, MovedCurrent, SameImages
<1>2. CASE ConsumeMarker \/ \E v \in Versions : SweepOther(v) \/ SweepMarker(v)
  <2>1. PICK v : /\ Change(WithNext(dir, v, NoGen), {})
                 /\ staged' = [staged EXCEPT ![v] = NoGen] /\ retired' = retired
    BY <1>2 DEF ConsumeMarker, SweepOther, SweepMarker
  <2> QED
    BY <1>0, <2>1, RemovedMarker, ZenonT(30)
<1>3. CASE Publish
  <2>1. built \in Gen /\ dir.gen[built] = "absent" /\ built \in GenOrNone
    BY <1>3, NoGenTyped DEF Publish, CInv, BuiltIsNew
  <2>2. \A v \in Versions : dir.next[v] # built
    BY <1>0, <2>1, MarkedIsThere, NoGenAside DEF Generations
  <2>3. /\ \A e \in persisted' : e \in persisted \/ \E c \in Content : e = WithGen(dir, built, c)
        /\ staged' = staged /\ retired' \subseteq retired
    BY <1>3 DEF Publish, Change, Content
  <2> QED
    BY <1>0, <2>1, <2>2, <2>3, RewrittenGeneration
<1>4. CASE Cleanup \/ Discard
  <2>1. PICK g \in doomed : RemoveGeneration(g) \/ RemovalFails(g)
    BY <1>4 DEF Cleanup, Discard
  <2>2. g \in Gen /\ g \in GenOrNone /\ \A v \in Versions : dir.next[v] # g
    BY <1>4, NoGenTyped DEF Cleanup, Discard, MInv, MarkedSpared, TypeOK
  <2>3. staged' = staged /\ retired' = retired
    BY <1>4 DEF Cleanup, Discard, ghosts
  <2> QED
    BY <1>0, <2>1, <2>2, <2>3, RemovalRewrites, RewrittenGeneration
<1>5. CASE Stage \/ StageSync
  BY <1>5, NewMarker, SettledMarker
<1>6. CASE SweepSync
  <2>1. Unmarked(dir) /\ swept \in SUBSET Gen
    BY <1>6, UnmarkedDir DEF SweepSync, TypeOK
  <2> QED
    BY <1>0, <1>6, <2>1, SettledUnmarked DEF SweepSync
<1>7. CASE ConsumeSync
  <2>1. Unmarked(dir) /\ {target} \in SUBSET Gen
    BY <1>7 DEF ConsumeSync, MInv, MarkerIsTaken
  <2> QED
    BY <1>0, <1>7, <2>1, SettledUnmarked, ZenonT(30) DEF ConsumeSync
<1>8. CASE (Settle \/ UNCHANGED <<dir, persisted>>) /\ staged' = staged /\ retired' = retired
  BY <1>0, <1>8, SameImages DEF Settle
<1>9. CASE PowerLoss
  BY <1>0, <1>9, SameImages DEF PowerLoss
<1> QED
  BY <1>1, <1>2, <1>3, <1>4, <1>5, <1>6, <1>7, <1>8, <1>9, ZenonT(30)
     DEF Next, Step, Failure, Command, ActivationStep, GcStep, UpgradeStep, ActivationFailure,
         UpgradeFailure, BeginChange, vars, dirVars, ghosts, Enter, EntrypointSync, FlipSync,
         EntrypointSucceeds, EntrypointFails, ConsumeFails, ActivateSelected, ActivateNext,
         SweepOtherFails, ResolveNext, BootShell, ShellResolve, RestoreSync, Fallback, BeginGc,
         PlanRemovals, CleanupDone, PlanDiscard, DiscardDone, BeginApply, BeginWidget,
         BeginAddMissing, Locked, Plan, PlanFails, SyncTree, PublishSync, ApplyFails, Reboot, Kill

-----------------------------------------------------------------------------
(* The steps of an operation.                                              *)

LEMMA RestKinds ==
  ASSUME Rest
  PROVE  KindFollows'
BY DEF Rest, KindFollows, BeforeEntry, ActivateSteps, ApplyKinds, EntrypointSteps

LEMMA GiveUpKinds ==
  ASSUME KindFollows, GiveUp
  PROVE  KindFollows'
<1>1. CASE kind # "widget"
  BY <1>1, RestKinds DEF GiveUp
<1>2. CASE kind = "widget"
  BY <1>2 DEF GiveUp, opVars, KindFollows, BeforeEntry, ActivateSteps, ApplyKinds, EntrypointSteps
<1> QED
  BY <1>1, <1>2

LEMMA KindStepFollows == TypeOK /\ MInv /\ [Next]_vars => KindFollows'
<1> SUFFICES ASSUME TypeOK, MInv, [Next]_vars PROVE KindFollows'
  OBVIOUS
<1>0. KindFollows
  BY DEF MInv
<1> USE DEF opVars, EntrypointSteps, ApplyKinds, BeforeEntry, ActivateSteps
<1>1. CASE Enter
  <2>1. CASE GiveUp
    BY <1>0, <2>1, GiveUpKinds
  <2>2. CASE phase' = "try" /\ pc' = "ep" /\ pc = "enter" /\ UNCHANGED <<kind, mode, ver, built, swept>>
    BY <1>0, <2>2 DEF KindFollows
  <2> QED
    BY <1>1, <2>1, <2>2 DEF Enter
<1>2. CASE EntrypointSync \/ FlipCurrent \/ FlipSync \/ ConsumeMarker \/ Restore \/ RestoreSync
  BY <1>0, <1>2 DEF KindFollows, EntrypointSync, FlipCurrent, FlipSync, ConsumeMarker, Restore, RestoreSync
<1>3. CASE EntrypointSucceeds
  <2>1. CASE Rest \/ GiveUp
    BY <1>0, <2>1, RestKinds, GiveUpKinds
  <2>2. CASE phase = "try" /\ kind \in ApplyKinds /\ pc' = "gc" /\ UNCHANGED opVars
    BY <1>0, <2>2 DEF KindFollows
  <2>3. CASE (phase = "staged" \/ (phase = "try" /\ mode = "next")) /\ pc' = "consume" /\ UNCHANGED opVars
    BY <1>0, <2>3 DEF KindFollows
  <2> QED
    BY <1>3, <2>1, <2>2, <2>3 DEF EntrypointSucceeds
<1>4. CASE EntrypointFails
  <2>1. CASE Rest \/ GiveUp
    BY <1>0, <2>1, RestKinds, GiveUpKinds
  <2>2. CASE phase' = "revert" /\ pc' = "ep" /\ pc \in EntrypointSteps /\ UNCHANGED <<kind, mode, ver, swept>>
    BY <1>0, <2>2 DEF KindFollows
  <2>3. CASE phase = "staged" /\ pc' = "restore" /\ UNCHANGED opVars
    BY <1>0, <2>3 DEF KindFollows
  <2> QED
    BY <1>4, <2>1, <2>2, <2>3 DEF EntrypointFails
<1>5. CASE ConsumeSync \/ ConsumeFails \/ SweepOtherFails \/ CleanupDone \/ DiscardDone \/ Kill
  BY <1>5, RestKinds DEF ConsumeSync, ConsumeFails, SweepOtherFails, CleanupDone, DiscardDone, Kill
<1>6. CASE ActivateSelected \/ ActivateNext \/ BootShell
  BY <1>0, <1>6 DEF KindFollows, ActivateSelected, ActivateNext, BootShell, Begin
<1>7. CASE \E v \in Versions : SweepOther(v) \/ SweepMarker(v)
  BY <1>0, <1>7 DEF KindFollows, SweepOther, SweepMarker
<1>8. CASE ResolveNext
  <2>1. CASE Rest
    BY <2>1, RestKinds
  <2>2. CASE /\ pc = "sweepOthers" /\ pc' = "enter" /\ mode' \in {"next", "current"}
             /\ UNCHANGED <<kind, ver, old, phase, swept>>
    BY <1>0, <2>2 DEF KindFollows
  <2> QED
    BY <1>8, <2>1, <2>2 DEF ResolveNext
<1>9. CASE ShellResolve
  <2>1. kind \notin ApplyKinds /\ UNCHANGED <<kind, mode, ver, swept>> /\ pc = "shellSweep"
    BY <1>0, <1>9 DEF KindFollows, ShellResolve
  <2>2. (pc' = "ep" /\ phase' = "staged") \/ pc' = "fallback"
    BY <1>9 DEF ShellResolve
  <2> QED
    BY <1>0, <2>1, <2>2 DEF KindFollows
<1>10. CASE Fallback
  <2>1. CASE Rest
    BY <2>1, RestKinds
  <2>2. CASE pc = "fallback" /\ phase' = "fallback" /\ pc' = "ep" /\ UNCHANGED <<kind, mode, ver, swept>>
    BY <1>0, <2>2 DEF KindFollows
  <2> QED
    BY <1>10, <2>1, <2>2 DEF Fallback
<1>11. CASE BeginGc \/ BeginApply \/ BeginWidget \/ BeginAddMissing
  BY <1>0, <1>11 DEF KindFollows, BeginGc, BeginApply, BeginWidget, BeginAddMissing, Locked
<1>12. CASE PlanRemovals
  <2>1. CASE Rest
    BY <2>1, RestKinds
  <2>2. CASE pc = "gc" /\ pc' = "remove" /\ UNCHANGED <<kind, mode, ver, phase, old, swept>>
    BY <1>0, <2>2 DEF KindFollows
  <2> QED
    BY <1>12, <2>1, <2>2 DEF PlanRemovals
<1>13. CASE Cleanup \/ PlanDiscard
  BY <1>0, <1>13 DEF KindFollows, Cleanup, PlanDiscard
<1>14. CASE Discard
  <2>1. CASE Rest
    BY <2>1, RestKinds
  <2>2. CASE UNCHANGED <<pc, kind, mode, ver, phase, old, swept>>
    BY <1>0, <2>2 DEF KindFollows
  <2> QED
    BY <1>14, <2>1, <2>2 DEF Discard
<1>15. CASE Plan
  BY <1>0, <1>15 DEF KindFollows, Plan
<1>16. CASE PlanFails \/ ApplyFails
  BY <1>0, <1>16, GiveUpKinds DEF PlanFails, ApplyFails
<1>17. CASE SyncTree \/ Publish \/ PublishSync \/ Stage \/ StageSync
  BY <1>0, <1>17 DEF KindFollows, SyncTree, Publish, PublishSync, Stage, StageSync
<1>18. CASE SweepSync
  <2>1. CASE Rest
    BY <2>1, RestKinds
  <2>2. CASE /\ pc = "sweep" /\ UNCHANGED <<kind, mode, ver, phase, old, swept>>
             /\ pc' \in {"enter", "gc"} \/ (mode = "stage" /\ pc' = "stage")
    BY <1>0, <2>2 DEF KindFollows
  <2> QED
    BY <1>18, <2>1, <2>2 DEF SweepSync
<1>19. CASE PowerLoss \/ Reboot
  BY <1>19 DEF PowerLoss, Reboot, StartUp, KindFollows
<1>20. CASE UNCHANGED vars
  BY <1>0, <1>20 DEF vars, KindFollows
<1> QED
  BY <1>1, <1>2, <1>3, <1>4, <1>5, <1>6, <1>7, <1>8, <1>9, <1>10, <1>11, <1>12, <1>13, <1>14,
     <1>15, <1>16, <1>17, <1>18, <1>19, <1>20
     DEF Next, Step, Failure, Command, ActivationStep, GcStep, UpgradeStep, ActivationFailure,
         UpgradeFailure, BeginChange

\* The rename adds a generation and leaves the rest.
LEMMA PublishKeeps ==
  ASSUME TypeOK, Publish
  PROVE  /\ dir'.next = dir.next /\ dir'.current = dir.current
         /\ built \in Gen => dir'.gen[built] \in {"whole", "bare"}
<1>0. dir \in Dir /\ built \in GenOrNone
  BY DEF TypeOK
<1>1. PICK c \in Content : c \in {"whole", "bare"} /\ dir' = WithGen(dir, built, c)
  BY DEF Publish, Change, Content
<1> QED
  BY <1>0, <1>1, WithGenFacts

\* Only stage_next_boot makes a marker, and only a power loss brings one back.
LEMMA MarkersDwindle ==
  ASSUME TypeOK, CInv, MInv, [Next]_vars
  PROVE  PowerLoss \/ Stage \/ \A v \in Versions : dir'.next[v] \in {dir.next[v], NoGen}
<1>0. ImagesFollow /\ dir \in Dir
  BY DEF MInv, ImagesFollow, TypeOK
<1>1. CASE FlipCurrent \/ Restore
  <2>1. \/ \E g \in GenOrNone : Change(WithCurrent(dir, g), {})
        \/ UNCHANGED <<dir, persisted>>
    BY <1>1 DEF FlipCurrent, Restore, TypeOK
  <2> QED
    BY <1>0, <2>1, WithCurrentFacts DEF Change
<1>2. CASE ConsumeMarker \/ \E v \in Versions : SweepOther(v) \/ SweepMarker(v)
  <2>1. PICK v : Change(WithNext(dir, v, NoGen), {})
    BY <1>2 DEF ConsumeMarker, SweepOther, SweepMarker
  <2> QED
    BY <1>0, <2>1, WithNextFacts, NoGenTyped DEF Change
<1>3. CASE Publish
  BY <1>3, PublishKeeps
<1>4. CASE Cleanup \/ Discard
  <2>1. PICK g \in doomed : RemoveGeneration(g) \/ RemovalFails(g)
    BY <1>4 DEF Cleanup, Discard
  <2>2. g \in Gen
    BY DEF TypeOK
  <2> QED
    BY <2>1, <2>2, RemovalRewrites
<1>5. CASE Settle \/ UNCHANGED dir
  BY <1>5 DEF Settle
<1> QED
  BY <1>1, <1>2, <1>3, <1>4, <1>5, ZenonT(30)
     DEF Next, Step, Failure, Command, ActivationStep, GcStep, UpgradeStep, ActivationFailure,
         UpgradeFailure, BeginChange, vars, dirVars, Enter, EntrypointSync, FlipSync,
         EntrypointSucceeds, EntrypointFails, ConsumeSync, ConsumeFails, ActivateSelected,
         ActivateNext, SweepOtherFails, ResolveNext, BootShell, ShellResolve, RestoreSync,
         Fallback, BeginGc, PlanRemovals, CleanupDone, PlanDiscard, DiscardDone, BeginApply,
         BeginWidget, BeginAddMissing, Locked, Plan, PlanFails, SyncTree, PublishSync,
         SweepSync, StageSync, ApplyFails, Reboot, Kill

\* What is built is complete, and new to the markers, until it is staged.
LEMMA BuiltStaysStageable == TypeOK /\ CInv /\ MInv /\ [Next]_vars => BuiltIsStageable' /\ StageFollows'
<1> SUFFICES ASSUME TypeOK, CInv, MInv, [Next]_vars PROVE BuiltIsStageable' /\ StageFollows'
  OBVIOUS
<1>0. /\ dir \in Dir /\ BuiltIsStageable /\ StageFollows /\ KindFollows /\ ImagesFollow
      /\ NoGen \notin Gen
  BY NoGenAside DEF TypeOK, MInv, ImagesFollow
<1>1. CASE Publish
  <2>1. built \in Gen /\ dir.gen[built] = "absent" /\ built \in GenOrNone /\ swept = {}
    BY <1>0, <1>1, NoGenTyped DEF Publish, CInv, BuiltIsNew, KindFollows
  <2>2. \A v \in Versions : dir.next[v] # built
    BY <1>0, <2>1, MarkedIsThere DEF Generations
  <2>4. dir'.next = dir.next /\ dir'.gen[built] \in {"whole", "bare"}
    BY <1>1, <2>1, PublishKeeps
  <2>5. pc' = "publishSync" /\ built' = built /\ swept' = swept /\ retired' = retired \ {built}
    BY <1>1 DEF Publish, opVars
  <2>6. Complete(dir'.gen[built])
    BY <2>4 DEF Complete
  <2> QED
    BY <2>1, <2>2, <2>4, <2>5, <2>6 DEF BuiltIsStageable, StageFollows
<1>2. CASE PublishSync
  BY <1>0, <1>2 DEF PublishSync, Settle, opVars, ghosts, BuiltIsStageable, StageFollows
<1>3. CASE \E v \in Versions : SweepMarker(v)
  <2>1. PICK v \in Versions : SweepMarker(v)
    BY <1>3
  <2>2. dir'.gen = dir.gen /\ \A w \in Versions : dir'.next[w] = IF w = v THEN NoGen ELSE dir.next[w]
    BY <1>0, <2>1, WithNextFacts, NoGenTyped DEF SweepMarker, Change
  <2>3. /\ pc' = "sweep" /\ pc = "sweep" /\ swept' = swept \cup {dir.next[v]}
        /\ built' = built /\ retired' = retired /\ mode' = mode
    BY <2>1 DEF SweepMarker
  <2> QED
    BY <1>0, <2>2, <2>3 DEF BuiltIsStageable, StageFollows
<1>4. CASE SweepSync
  <2>1. CASE pc' \in {"enter", "gc", "idle"}
    BY <2>1 DEF BuiltIsStageable, StageFollows
  <2>2. CASE /\ mode = "stage" /\ pc' = "stage" /\ UNCHANGED <<dir, built, swept>>
             /\ retired' = retired \cup swept /\ pc = "sweep" /\ Marked(dir) = {}
    BY <1>0, <2>2, UnmarkedDir DEF BuiltIsStageable, StageFollows, Unmarked
  <2> QED
    BY <1>4, <2>1, <2>2 DEF SweepSync, Settle, opVars, Rest
<1>5. CASE Stage
  <2>1. ver \in Versions /\ built \in GenOrNone /\ pc = "stage"
    BY <1>0, <1>5 DEF Stage, KindFollows, TypeOK
  <2>2. dir'.gen = dir.gen /\ dir'.next[ver] = built
    BY <1>0, <1>5, <2>1, WithNextFacts DEF Stage, Change
  <2>3. pc' = "stageSync" /\ UNCHANGED <<built, ver, retired, swept>>
    BY <1>5 DEF Stage, opVars, ghosts
  <2> QED
    BY <1>0, <2>1, <2>2, <2>3 DEF BuiltIsStageable, StageFollows
<1>6. CASE UNCHANGED vars
  BY <1>0, <1>6 DEF vars, dirVars, opVars, ghosts, BuiltIsStageable, StageFollows, Unmarked
<1>7. CASE pc' \notin {"publishSync", "sweep", "stage", "stageSync"} \/ (pc' = "sweep" /\ mode' = "noop")
  BY <1>7 DEF BuiltIsStageable, StageFollows
<1> QED
  BY <1>1, <1>2, <1>3, <1>4, <1>5, <1>6, <1>7, ZenonT(30)
     DEF Next, Step, Failure, Command, ActivationStep, GcStep, UpgradeStep, ActivationFailure,
         UpgradeFailure, BeginChange, Enter, EntrypointSync, FlipCurrent, FlipSync,
         EntrypointSucceeds, EntrypointFails, ConsumeMarker, ConsumeSync, ConsumeFails,
         ActivateSelected, ActivateNext, Begin, SweepOther, SweepOtherFails, ResolveNext,
         BootShell, ShellResolve, Restore, RestoreSync, Fallback, BeginGc, PlanRemovals,
         Cleanup, CleanupDone, PlanDiscard, Discard, DiscardDone, BeginApply, BeginWidget,
         BeginAddMissing, Locked, Plan, PlanFails, SyncTree, StageSync, ApplyFails,
         PowerLoss, Reboot, StartUp, Kill, Rest, GiveUp

\* The floor of a widget install is above every marker, and add_missing finds
\* none; a planned removal leaves the marked generations out.
LEMMA MarkedStaysSpared == TypeOK /\ CInv /\ MInv /\ [Next]_vars => MarkedSpared' /\ NothingToLose'
<1> SUFFICES ASSUME TypeOK, CInv, MInv, [Next]_vars PROVE MarkedSpared' /\ NothingToLose'
  OBVIOUS
<1>0. /\ dir \in Dir /\ MarkedSpared /\ NothingToLose /\ KindFollows /\ ImagesFollow
      /\ \A v \in Versions : dir.next[v] \in GenOrNone
      /\ doomed \subseteq Gen /\ floor \in GenOrNone /\ NoGen \notin Gen
  BY DirFields, NoGenAside DEF TypeOK, MInv, ImagesFollow
<1>1. kind' = "widget" => \A v \in Versions : dir'.next[v] <= floor'
  <2>1. CASE BeginWidget
    <3>1. \A v \in Versions : dir.next[v] <= Latest(dir)
      <4> SUFFICES ASSUME NEW v \in Versions PROVE dir.next[v] <= Latest(dir)
        OBVIOUS
      <4>1. CASE dir.next[v] = NoGen
        <5>1. Latest(dir) \in GenOrNone
          BY LatestFacts
        <5> QED
          BY <4>1, <5>1, ProfileBounds DEF NoGen, GenOrNone
      <4>2. CASE dir.next[v] # NoGen
        <5>1. dir.next[v] \in Generations(dir)
          BY <1>0, <4>2, MarkedIsThere
        <5> QED
          BY <5>1, LatestFacts
      <4> QED
        BY <4>1, <4>2
    <3> QED
      BY <2>1, <3>1 DEF BeginWidget, Locked, dirVars
  <2>2. CASE kind = "widget" /\ floor' = floor /\ ~PowerLoss /\ ~Stage
    <3> SUFFICES ASSUME NEW v \in Versions PROVE dir'.next[v] <= floor
      BY <2>2
    <3>1. dir'.next[v] \in {dir.next[v], NoGen}
      BY <2>2, MarkersDwindle
    <3>2. dir.next[v] <= floor /\ floor \in Nat
      BY <1>0, <2>2, ProfileBounds DEF MarkedSpared, GenOrNone
    <3> QED
      BY <3>1, <3>2 DEF NoGen
  <2>3. CASE kind' # "widget"
    BY <2>3
  <2>4. CASE Stage
    BY <1>0, <2>4 DEF Stage, KindFollows, opVars
  <2> QED
    BY <2>1, <2>2, <2>3, <2>4, ZenonT(30)
       DEF Next, Step, Failure, Command, ActivationStep, GcStep, UpgradeStep, ActivationFailure,
           UpgradeFailure, BeginChange, vars, opVars, Enter, EntrypointSync, FlipCurrent, FlipSync,
           EntrypointSucceeds, EntrypointFails, ConsumeMarker, ConsumeSync, ConsumeFails,
           ActivateSelected, ActivateNext, Begin, SweepOther, SweepOtherFails, ResolveNext,
           BootShell, ShellResolve, Restore, RestoreSync, Fallback, BeginGc, PlanRemovals,
           Cleanup, CleanupDone, PlanDiscard, Discard, DiscardDone, BeginApply, BeginAddMissing,
           Locked, Plan, PlanFails, SyncTree, Publish, PublishSync, SweepMarker, SweepSync,
           StageSync, ApplyFails, PowerLoss, Reboot, StartUp, Kill, Rest, GiveUp
<1>2. NothingToLose'
  <2>1. CASE BeginAddMissing
    BY <2>1, UnmarkedDir DEF BeginAddMissing, Locked, dirVars, NothingToLose, Unmarked
  <2>2. CASE kind = "addMissing" /\ ~PowerLoss /\ ~Stage
    BY <1>0, <2>2, MarkersDwindle DEF NothingToLose, Unmarked
  <2>3. CASE kind' # "addMissing"
    BY <2>3 DEF NothingToLose
  <2>4. CASE Stage
    BY <1>0, <2>4 DEF Stage, KindFollows, opVars, NothingToLose
  <2> QED
    BY <2>1, <2>2, <2>3, <2>4, ZenonT(30)
       DEF Next, Step, Failure, Command, ActivationStep, GcStep, UpgradeStep, ActivationFailure,
           UpgradeFailure, BeginChange, vars, opVars, Enter, EntrypointSync, FlipCurrent, FlipSync,
           EntrypointSucceeds, EntrypointFails, ConsumeMarker, ConsumeSync, ConsumeFails,
           ActivateSelected, ActivateNext, Begin, SweepOther, SweepOtherFails, ResolveNext,
           BootShell, ShellResolve, Restore, RestoreSync, Fallback, BeginGc, PlanRemovals,
           Cleanup, CleanupDone, PlanDiscard, Discard, DiscardDone, BeginApply, BeginWidget,
           Locked, Plan, PlanFails, SyncTree, Publish, PublishSync, SweepMarker, SweepSync,
           StageSync, ApplyFails, PowerLoss, Reboot, StartUp, Kill, Rest, GiveUp
<1>3. pc' \in {"remove", "discarding"} => \A v \in Versions : dir'.next[v] \notin doomed'
  <2>1. CASE PlanRemovals
    <3>1. CASE Rest
      BY <3>1 DEF Rest
    <3>2. CASE \E aged \in SUBSET Generations(dir) : doomed' = Generations(dir) \ Keep(dir, prev, aged)
      BY <2>1, <3>2 DEF PlanRemovals, Keep, Marked, Generations, dirVars
    <3> QED
      BY <2>1, <3>1, <3>2 DEF PlanRemovals
  <2>2. CASE PlanDiscard
    <3>1. kind = "widget"
      BY <1>0, <2>2 DEF PlanDiscard, KindFollows
    <3>2. dir' = dir /\ \A g \in doomed' : g \in Gen /\ g > floor
      BY <2>2 DEF PlanDiscard, Generations, dirVars
    <3>3. \A v \in Versions : ~(dir.next[v] > floor)
      BY <1>0, <3>1, ProfileBounds DEF MarkedSpared, GenOrNone
    <3> QED
      BY <3>2, <3>3
  <2>3. CASE Cleanup \/ Discard
    <3>1. PICK g \in doomed : RemoveGeneration(g) \/ RemovalFails(g)
      BY <2>3 DEF Cleanup, Discard
    <3>2. dir'.next = dir.next
      BY <1>0, <3>1, RemovalRewrites
    <3>3. doomed' \subseteq doomed /\ pc \in {"remove", "discarding"}
      BY <2>3 DEF Cleanup, Discard, Rest
    <3> QED
      BY <1>0, <3>2, <3>3 DEF MarkedSpared
  <2>4. CASE UNCHANGED vars
    BY <1>0, <2>4 DEF vars, dirVars, opVars, MarkedSpared
  <2>5. CASE pc' \notin {"remove", "discarding"}
    BY <2>5
  <2> QED
    BY <2>1, <2>2, <2>3, <2>4, <2>5, ZenonT(30)
       DEF Next, Step, Failure, Command, ActivationStep, GcStep, UpgradeStep, ActivationFailure,
           UpgradeFailure, BeginChange, Enter, EntrypointSync, FlipCurrent, FlipSync,
           EntrypointSucceeds, EntrypointFails, ConsumeMarker, ConsumeSync, ConsumeFails,
           ActivateSelected, ActivateNext, Begin, SweepOther, SweepOtherFails, ResolveNext,
           BootShell, ShellResolve, Restore, RestoreSync, Fallback, BeginGc, CleanupDone,
           DiscardDone, BeginApply, BeginWidget, BeginAddMissing, Locked, Plan, PlanFails,
           SyncTree, Publish, PublishSync, SweepMarker, SweepSync, Stage, StageSync, ApplyFails,
           PowerLoss, Reboot, StartUp, Kill, Rest, GiveUp
<1> QED
  BY <1>1, <1>2, <1>3 DEF MarkedSpared

\* What a boot, or bmc-nix-cli activate next, takes from the marker stays
\* marked until it has run, and nothing is marked once it is consumed.
LEMMA MarkerStaysTaken == TypeOK /\ CInv /\ MInv /\ [Next]_vars => MarkerIsTaken'
<1> SUFFICES ASSUME TypeOK, CInv, MInv, [Next]_vars PROVE MarkerIsTaken'
  OBVIOUS
<1>0. dir \in Dir /\ MarkerIsTaken /\ KindFollows /\ OneMarker /\ dir \in persisted /\ NoGen \notin Gen
  BY NoGenAside DEF TypeOK, MInv, CInv, DirOnDisk
<1>a. StagedTarget(dir) # NoGen =>
        fw \in Versions /\ dir.next[fw] = StagedTarget(dir) /\ StagedTarget(dir) \in Gen
  BY DEF StagedTarget, Generations, TypeOK
<1> USE DEF TakesMarked, EntrypointSteps
<1>1. CASE Enter
  <2>1. CASE GiveUp
    BY <2>1 DEF GiveUp, Rest, MarkerIsTaken
  <2>2. CASE pc = "enter" /\ phase' = "try" /\ pc' = "ep" /\ UNCHANGED <<mode, target, dir, fw>>
    BY <1>0, <2>2 DEF KindFollows, BeforeEntry, MarkerIsTaken
  <2> QED
    BY <1>1, <2>1, <2>2 DEF Enter, dirVars
<1>2. CASE EntrypointSync \/ FlipSync
  BY <1>0, <1>2 DEF EntrypointSync, FlipSync, Settle, opVars, envVars, MarkerIsTaken
<1>3. CASE FlipCurrent
  <2>1. dir'.next = dir.next
    BY <1>0, <1>3, WithCurrentFacts, ZenonT(30) DEF FlipCurrent, Change, TypeOK
  <2> QED
    BY <1>0, <1>3, <2>1 DEF FlipCurrent, opVars, envVars, MarkerIsTaken
<1>4. CASE EntrypointSucceeds
  <2>1. CASE pc' \in {"gc", "idle", "discard"}
    BY <2>1 DEF MarkerIsTaken
  <2>2. CASE pc = "post" /\ TakesMarked /\ pc' = "consume" /\ UNCHANGED <<opVars, dir, fw>>
    BY <1>0, <2>2 DEF opVars, MarkerIsTaken
  <2> QED
    BY <1>4, <2>1, <2>2 DEF EntrypointSucceeds, Rest, GiveUp, dirVars, envVars
<1>5. CASE EntrypointFails
  BY <1>5 DEF EntrypointFails, Rest, GiveUp, MarkerIsTaken
<1>6. CASE ConsumeMarker
  <2>1. fw \in Versions /\ dir.next[fw] = target /\ target \in Gen
    BY <1>0, <1>6 DEF ConsumeMarker, MarkerIsTaken
  <2>2. \A w \in Versions : dir'.next[w] = IF w = fw THEN NoGen ELSE dir.next[w]
    BY <1>0, <1>6, WithNextFacts, NoGenTyped DEF ConsumeMarker, Change
  <2>3. \A w \in Versions \ {fw} : dir.next[w] = NoGen
    BY <1>0, <2>1 DEF OneMarker
  <2>4. pc' = "consumeSync" /\ target' = target /\ TakesMarked'
    BY <1>0, <1>6 DEF ConsumeMarker, opVars, MarkerIsTaken
  <2> QED
    BY <2>1, <2>2, <2>3, <2>4 DEF MarkerIsTaken, Unmarked
<1>7. CASE ActivateSelected
  BY <1>0, <1>7 DEF ActivateSelected, Begin, MarkerIsTaken, KindFollows, BeforeEntry
<1>8. CASE ResolveNext
  <2>1. pc = "sweepOthers" /\ phase = "none"
    BY <1>0, <1>8 DEF ResolveNext, KindFollows, BeforeEntry
  <2>2. CASE Rest
    BY <2>2 DEF Rest, MarkerIsTaken
  <2>3. CASE /\ Runnable(StagedTarget(dir)) /\ target' = StagedTarget(dir)
             /\ pc' = "enter" /\ UNCHANGED <<dir, fw>>
    BY <1>a, <2>3 DEF Runnable, MarkerIsTaken
  <2>4. CASE mode' = "current" /\ pc' = "enter" /\ phase' = phase
    BY <2>1, <2>4 DEF MarkerIsTaken
  <2> QED
    BY <1>8, <2>2, <2>3, <2>4 DEF ResolveNext, dirVars, envVars
<1>9. CASE ShellResolve
  <2>1. CASE pc' = "fallback"
    BY <2>1 DEF MarkerIsTaken
  <2>2. CASE Runnable(StagedTarget(dir)) /\ target' = StagedTarget(dir) /\ pc' = "ep" /\ UNCHANGED <<dir, fw>>
    BY <1>a, <2>2 DEF Runnable, MarkerIsTaken
  <2> QED
    BY <1>9, <2>1, <2>2 DEF ShellResolve, dirVars
<1>10. CASE Fallback
  BY <1>10 DEF Fallback, Rest, MarkerIsTaken
<1>11. CASE SweepSync
  <2>1. CASE pc' \in {"gc", "stage", "idle"}
    BY <2>1 DEF MarkerIsTaken
  <2>2. CASE pc = "sweep" /\ mode = "activate" /\ pc' = "enter" /\ UNCHANGED <<mode, phase>>
    BY <1>0, <2>2 DEF MarkerIsTaken, KindFollows, BeforeEntry
  <2> QED
    BY <1>11, <2>1, <2>2 DEF SweepSync, Rest
<1>12. CASE UNCHANGED vars
  BY <1>0, <1>12 DEF vars, dirVars, opVars, envVars, MarkerIsTaken, Unmarked
<1>13. CASE pc' \notin EntrypointSteps \cup {"enter", "consume", "consumeSync"}
  BY <1>13 DEF MarkerIsTaken
<1> QED
  BY <1>1, <1>2, <1>3, <1>4, <1>5, <1>6, <1>7, <1>8, <1>9, <1>10, <1>11, <1>12, <1>13, ZenonT(30)
     DEF Next, Step, Failure, Command, ActivationStep, GcStep, UpgradeStep, ActivationFailure,
         UpgradeFailure, BeginChange, ConsumeSync, ConsumeFails, ActivateNext, Begin, SweepOther,
         SweepOtherFails, BootShell, Restore, RestoreSync, BeginGc, PlanRemovals, Cleanup,
         CleanupDone, PlanDiscard, Discard, DiscardDone, BeginApply, BeginWidget,
         BeginAddMissing, Locked, Plan, PlanFails, SyncTree, Publish, PublishSync, SweepMarker,
         Stage, StageSync, ApplyFails, PowerLoss, Reboot, StartUp, Kill, Rest, GiveUp

LEMMA MInvHolds == Spec => []MInv
<1>1. Init => MInv
  <2> SUFFICES ASSUME Init PROVE MInv
    OBVIOUS
  <2>1. /\ dir = Factory /\ persisted = {Factory} /\ retired = {} /\ swept = {} /\ pc = "boot" /\ kind = "none"
        /\ mode = "none" /\ phase = "none" /\ old = NoGen /\ \A v \in Versions : staged[v] = NoGen
    BY DEF Init
  <2>2. \A v \in Versions : Factory.next[v] = NoGen
    BY DEF Factory
  <2>3. StagedIsComplete /\ StagedStays /\ RetiredStaysAway /\ NoGen \notin retired /\ OneMarker
    BY <2>1, <2>2 DEF StagedIsComplete, StagedStays, RetiredStaysAway, OneMarker
  <2> QED
    BY <2>1, <2>3 DEF MInv, KindFollows, ApplyKinds, EntrypointSteps, BuiltIsStageable, StageFollows,
                      MarkedSpared,
                      MarkerIsTaken, NothingToLose
<1>2. TypeOK /\ CInv /\ MInv /\ [Next]_vars => MInv'
  BY ImagesStepFollow, KindStepFollows, BuiltStaysStageable, MarkedStaysSpared, MarkerStaysTaken
     DEF MInv, ImagesFollow
<1> QED
  BY <1>1, <1>2, TypeCorrect, CInvHolds, PTL DEF Spec

\* A marker that a boot can find names a complete generation, whatever build,
\* collection or discard a kill or a power loss cut short.
THEOREM StagedAlwaysComplete == Spec => []StagedIsComplete
<1>1. MInv => StagedIsComplete
  BY DEF MInv
<1> QED
  BY <1>1, MInvHolds, PTL

\* An upgrade reported as staged is what every power loss leaves staged, until
\* a boot or another run takes its marker.
THEOREM StagedAlwaysStays == Spec => []StagedStays
<1>1. MInv => StagedStays
  BY DEF MInv
<1> QED
  BY <1>1, MInvHolds, PTL

\* Once a marker was superseded or consumed, and that was synced, no power loss
\* brings its generation's marker back.
THEOREM RetiredNeverReturns == Spec => []RetiredStaysAway
<1>1. MInv => RetiredStaysAway
  BY DEF MInv
<1> QED
  BY <1>1, MInvHolds, PTL

\* add_missing_packages sweeps, consumes and stages nothing.
THEOREM AddMissingIsHarmless == Spec => AddMissingKeepsStaged
<1>1. MInv /\ [Next]_vars => (kind = "addMissing" => staged' = staged)
  <2> SUFFICES ASSUME MInv, [Next]_vars, kind = "addMissing" PROVE staged' = staged
    OBVIOUS
  <2>1. /\ pc \notin {"consume", "stageSync"} /\ \A v \in Versions : dir.next[v] = NoGen
    BY DEF MInv, KindFollows, NothingToLose, Unmarked, ApplyKinds, ActivateSteps
  <2> QED
    BY <2>1, ZenonT(30)
       DEF Next, Step, Failure, Command, ActivationStep, GcStep, UpgradeStep, ActivationFailure,
           UpgradeFailure, BeginChange, vars, ghosts, Enter, EntrypointSync, FlipCurrent, FlipSync,
           EntrypointSucceeds, EntrypointFails, ConsumeMarker, ConsumeSync, ConsumeFails,
           ActivateSelected, ActivateNext, SweepOther, SweepOtherFails, ResolveNext, BootShell,
           ShellResolve, Restore, RestoreSync, Fallback, BeginGc, PlanRemovals, Cleanup, CleanupDone,
           PlanDiscard, Discard, DiscardDone, BeginApply, BeginWidget, BeginAddMissing, Locked, Plan,
           PlanFails, SyncTree, Publish, PublishSync, SweepMarker, SweepSync, Stage, StageSync,
           ApplyFails, PowerLoss, Reboot, Kill
<1>2. MInv /\ [Next]_vars => [kind = "addMissing" => staged' = staged]_vars
  BY <1>1
<1> QED
  BY <1>2, MInvHolds, PTL DEF Spec, AddMissingKeepsStaged
-----------------------------------------------------------------------------
(* Boots: the invariant for CleanBootActivates and FailedBootFallsBack.    *)

\* What a boot has done so far: prev is the current it began with, and each
\* way back to it costs a mishap.
BootFollows ==
  kind = "boot" =>
    /\ pc \in {"sweepOthers", "shellSweep", "enter"} => dir.current = prev
    /\ pc = "enter" => Runnable(target)
    /\ phase = "try" => old \in {NoGen, prev}
    /\ phase = "revert" => target = prev /\ mishaps >= 1
    /\ phase = "staged" => old = prev
    /\ pc \in {"restore", "restoreSync"} => phase = "staged" /\ mishaps >= 1
    /\ pc = "restoreSync" => mishaps >= 2 \/ dir.current = prev
    /\ pc = "fallback" => phase \in {"none", "staged"}
    /\ pc = "fallback" /\ old # NoGen => old = prev /\ mishaps >= 1 /\ (mishaps >= 2 \/ dir.current = prev)
    /\ phase = "fallback" /\ old # NoGen => mishaps >= 1 /\ (mishaps >= 2 \/ target = prev)
    /\ pc \in {"consume", "consumeSync"} => live = dir.current
    /\ pc \notin {"gc", "remove", "discard", "discarding"}

\* A failure during a boot counts, up to two.
LEMMA MishapFacts ==
  ASSUME TypeOK, Mishap, kind = "boot"
  PROVE  mishaps' >= 1 /\ (mishaps >= 1 => mishaps' >= 2)
BY DEF TypeOK, Mishap

LEMMA MarkerLeavesCurrent ==
  ASSUME TypeOK, NEW v, Change(WithNext(dir, v, NoGen), {})
  PROVE  dir'.current = dir.current
BY WithNextFacts, NoGenTyped DEF Change, TypeOK

LEMMA BootStepFollows == TypeOK /\ CInv /\ RInv /\ MInv /\ BootFollows /\ [Next]_vars => BootFollows'
<1> SUFFICES ASSUME TypeOK, CInv, RInv, MInv, BootFollows, [Next]_vars, kind' = "boot"
             PROVE  BootFollows'
  BY DEF BootFollows
<1>0. /\ dir \in Dir /\ KindFollows /\ mishaps \in 0..2
      /\ dir \in persisted /\ dir.current \in GenOrNone
      /\ pc \in EntrypointSteps => phase # "none"
  BY DirFields DEF TypeOK, MInv, CInv, DirOnDisk, KindFollows
<1> USE DEF BootFollows, opVars, dirVars, envVars, NoFault, EntrypointSteps
<1>1. CASE ActivateNext \/ BootShell
  BY <1>0, <1>1 DEF ActivateNext, BootShell, Begin, KindFollows, BeforeEntry
<1>2. CASE Enter
  <2>1. /\ pc = "enter" /\ kind = "boot" /\ pc' = "ep" /\ phase' = "try"
        /\ old' \in {NoGen, dir.current} /\ prev' = prev
    BY <1>2 DEF Enter, GiveUp, Rest, ResolvedCurrent
  <2> QED
    BY <2>1
<1>3. CASE EntrypointSync \/ FlipCurrent \/ FlipSync
  <2>1. /\ pc \in EntrypointSteps /\ pc' \in EntrypointSteps
        /\ UNCHANGED <<kind, phase, old, prev, target, mishaps>>
    BY <1>3 DEF EntrypointSync, FlipCurrent, FlipSync
  <2> QED
    BY <2>1
<1>4. CASE EntrypointSucceeds
  <2>1. kind = "boot" /\ pc' = "consume" /\ live' = target /\ pc = "post" /\ dir' = dir
        /\ UNCHANGED <<phase, old, prev, target, mishaps>>
    BY <1>4 DEF EntrypointSucceeds, GiveUp, Rest, ApplyKinds
  <2>2. dir.current = target
    BY <1>0, <2>1 DEF RInv, Flipped
  <2> QED
    BY <2>1, <2>2
<1>5. CASE EntrypointFails
  <2>0. kind = "boot" /\ pc \in EntrypointSteps /\ Mishap
    BY <1>5 DEF EntrypointFails, GiveUp, Rest, Fault
  <2>1. mishaps' >= 1
    BY <2>0, MishapFacts
  <2>2. CASE phase = "try" /\ old # NoGen /\ target' = old /\ phase' = "revert" /\ pc' = "ep" /\ prev' = prev
    BY <2>0, <2>1, <2>2
  <2>3. CASE phase = "staged" /\ pc' = "restore" /\ UNCHANGED opVars
    BY <2>0, <2>1, <2>3
  <2> QED
    BY <1>5, <2>2, <2>3 DEF EntrypointFails, GiveUp, Rest
<1>6. CASE ConsumeMarker
  <2>1. Change(WithNext(dir, fw, NoGen), {})
    BY <1>6 DEF ConsumeMarker
  <2>2. dir'.current = dir.current
    BY <2>1, MarkerLeavesCurrent
  <2> QED
    BY <1>6, <2>2 DEF ConsumeMarker
<1>7. CASE \E v \in Versions : SweepOther(v)
  <2>1. PICK v \in Versions : SweepOther(v)
    BY <1>7
  <2>2. Change(WithNext(dir, v, NoGen), {})
    BY <2>1 DEF SweepOther
  <2>3. dir'.current = dir.current
    BY <2>2, MarkerLeavesCurrent
  <2> QED
    BY <2>1, <2>3 DEF SweepOther
<1>8. CASE ResolveNext
  <2>1. /\ pc = "sweepOthers" /\ kind = "boot" /\ pc' = "enter" /\ Runnable(target') /\ dir' = dir
        /\ UNCHANGED <<phase, old, prev, mishaps>>
    BY <1>8 DEF ResolveNext, Rest
  <2>2. phase = "none"
    BY <1>0, <2>1 DEF KindFollows, BeforeEntry
  <2>3. Runnable(target)'
    BY <2>1 DEF Runnable
  <2> QED
    BY <2>1, <2>2, <2>3
<1>9. CASE ShellResolve
  <2>1. /\ pc = "shellSweep" /\ kind = "boot" /\ dir' = dir /\ prev' = prev
        /\ phase = "none" /\ old = NoGen
    BY <1>0, <1>9 DEF ShellResolve, KindFollows, BeforeEntry
  <2>2. CASE pc' = "ep" /\ phase' = "staged" /\ old' = dir.current
    BY <2>1, <2>2
  <2>3. CASE pc' = "fallback" /\ UNCHANGED <<target, old, phase>>
    BY <2>1, <2>3
  <2> QED
    BY <1>9, <2>2, <2>3 DEF ShellResolve
<1>10. CASE Restore
  <2>1. /\ pc = "restore" /\ kind = "boot" /\ phase = "staged" /\ old = prev /\ mishaps >= 1
        /\ UNCHANGED opVars
    BY <1>10 DEF Restore
  <2>2. CASE Change(WithCurrent(dir, old), {}) /\ pc' = "restoreSync" /\ NoFault
    <3>1. dir'.current = prev
      BY <1>0, <2>1, <2>2, WithCurrentFacts, ZenonT(30) DEF Change, TypeOK
    <3> QED
      BY <2>1, <2>2, <3>1
  <2>3. CASE Fault /\ pc' = "restoreSync"
    <3>1. mishaps' >= 2
      BY <2>1, <2>3, MishapFacts DEF Fault
    <3>2. mishaps' \in Nat
      BY <1>0, <2>3 DEF Fault, Mishap
    <3>3. mishaps' >= 1
      BY <3>1, <3>2
    <3> QED
      BY <2>1, <2>3, <3>1, <3>3
  <2>4. CASE dir.current = old /\ pc' = "fallback" /\ NoFault /\ dir' = dir
    BY <2>1, <2>4
  <2> QED
    BY <1>10, <2>2, <2>3, <2>4 DEF Restore
<1>11. CASE RestoreSync
  <2>1. /\ pc = "restoreSync" /\ kind = "boot" /\ phase = "staged" /\ old = prev /\ mishaps >= 1
        /\ UNCHANGED opVars /\ pc' = "fallback" /\ dir' = dir
    BY <1>11 DEF RestoreSync, Settle
  <2>2. CASE NoFault
    BY <2>1, <2>2
  <2>3. CASE Fault
    <3>1. mishaps' >= 2 /\ mishaps' \in Nat
      BY <1>0, <2>1, <2>3, MishapFacts DEF Fault, Mishap
    <3>2. mishaps' >= 1
      BY <3>1
    <3> QED
      BY <2>1, <3>1, <3>2
  <2> QED
    BY <1>11, <2>2, <2>3 DEF RestoreSync
<1>12. CASE Fallback
  <2>1. /\ pc = "fallback" /\ kind = "boot" /\ phase' = "fallback" /\ pc' = "ep"
        /\ target' = IF dir.current # NoGen THEN dir.current ELSE Latest(dir)
        /\ UNCHANGED <<old, prev, mishaps>>
    BY <1>12 DEF Fallback, Rest
  <2> QED
    BY <2>1
<1>13. CASE UNCHANGED vars
  BY <1>13 DEF vars, ghosts, Runnable
<1> QED
  BY <1>0, <1>1, <1>2, <1>3, <1>4, <1>5, <1>6, <1>7, <1>8, <1>9, <1>10, <1>11, <1>12, <1>13, ZenonT(30)
     DEF Next, Step, Failure, Command, ActivationStep, GcStep, UpgradeStep, ActivationFailure,
         UpgradeFailure, BeginChange, ConsumeSync, ConsumeFails, ActivateSelected, Begin,
         SweepOtherFails, BeginGc, PlanRemovals, Cleanup, CleanupDone, PlanDiscard, Discard,
         DiscardDone, BeginApply, BeginWidget, BeginAddMissing, Locked, Plan, PlanFails, SyncTree,
         Publish, PublishSync, SweepMarker, SweepSync, Stage, StageSync, ApplyFails, PowerLoss,
         Reboot, StartUp, Kill, Rest, GiveUp, KindFollows, ApplyKinds

LEMMA BootFollowsHolds == Spec => []BootFollows
<1>1. Init => BootFollows
  BY DEF Init, BootFollows
<1> QED
  BY <1>1, BootStepFollows, TypeCorrect, CInvHolds, RInvHolds, MInvHolds, PTL DEF Spec

\* The ways a boot ends: the target ran and is current, something failed, or
\* there was nothing to run.
LEMMA BootEnds ==
  ASSUME TypeOK, CInv, RInv, MInv, BootFollows, [Next]_vars, kind = "boot", pc' = "idle"
  PROVE  /\ dir' = dir
         /\ \/ live' = dir.current /\ (phase \in {"revert", "fallback"} => live' = target)
            \/ Mishap
            \/ ResolveNext /\ Rest /\ phase = "none"
            \/ Fallback /\ Rest /\ phase \in {"none", "staged"}
<1>0. KindFollows /\ MarkerIsTaken /\ dir \in persisted
  BY DEF MInv, CInv, DirOnDisk
<1>1. CASE EntrypointSucceeds
  <2>1. dir.current = target
    BY <1>0, <1>1 DEF EntrypointSucceeds, RInv, Flipped
  <2> QED
    BY <1>1, <2>1 DEF EntrypointSucceeds, dirVars
<1>2. CASE ConsumeSync
  <2>1. dir' = dir /\ live' = live /\ pc = "consumeSync"
    BY <1>2 DEF ConsumeSync, Settle
  <2> QED
    BY <1>0, <2>1 DEF BootFollows, MarkerIsTaken, TakesMarked
<1>3. CASE EntrypointFails \/ ConsumeFails \/ SweepOtherFails
  BY <1>3 DEF EntrypointFails, ConsumeFails, SweepOtherFails, Fault, dirVars
<1>4. CASE ResolveNext
  <2>1. phase = "none"
    BY <1>0, <1>4 DEF ResolveNext, KindFollows, BeforeEntry
  <2> QED
    BY <1>4, <2>1 DEF ResolveNext, dirVars
<1>5. CASE Fallback
  <2>1. phase \in {"none", "staged"}
    BY <1>5 DEF Fallback, BootFollows
  <2> QED
    BY <1>5, <2>1 DEF Fallback, dirVars
<1>6. CASE Enter
  BY <1>6 DEF Enter, BootFollows, Runnable
<1> QED
  BY <1>0, <1>1, <1>2, <1>3, <1>4, <1>5, <1>6, ZenonT(30)
     DEF Next, Step, Failure, Command, ActivationStep, GcStep, UpgradeStep, ActivationFailure,
         UpgradeFailure, BeginChange, vars, opVars, EntrypointSync, FlipCurrent, FlipSync, ConsumeMarker,
         ActivateSelected, ActivateNext, Begin, SweepOther, BootShell, ShellResolve, Restore,
         RestoreSync, BeginGc, PlanRemovals, Cleanup, CleanupDone, PlanDiscard, Discard, DiscardDone,
         BeginApply, BeginWidget, BeginAddMissing, Locked, Plan, PlanFails, SyncTree, Publish,
         PublishSync, SweepMarker, SweepSync, Stage, StageSync, ApplyFails, PowerLoss, Reboot,
         StartUp, Kill, BootFollows, KindFollows, ApplyKinds

\* With a current generation in place a boot in which nothing fails ends with
\* current running, whatever was interrupted before it; the exception is a
\* staged generation without an entrypoint.
THEOREM CleanBootsActivate == Spec => CleanBootActivates
<1>1. ASSUME TypeOK, CInv, RInv, MInv, BootFollows, [Next]_vars,
             kind = "boot", pc' = "idle", mishaps' = 0, dir.current # NoGen,
             StagedTarget(dir) # NoGen => Runnable(StagedTarget(dir))
      PROVE  live' = dir'.current
  <2>1. ~Mishap
    BY <1>1, MishapFacts
  <2>2. /\ dir.current \in Generations(dir) /\ Runnable(dir.current)
    <3>1. Executable(dir.gen[dir.current]) /\ dir.current \in Gen
      BY <1>1, DirFields, NoGenAside DEF CInv, DirOnDisk, CurrentRunnable, TypeOK
    <3> QED
      BY <1>1, <3>1 DEF Generations, Executable, Runnable
  <2>3. CurrentTarget(dir) = dir.current
    BY <1>1, <2>2 DEF CurrentTarget, ResolvedCurrent, Runnable
  <2>4. ~(ResolveNext /\ Rest)
    BY <1>1, <2>2, <2>3 DEF ResolveNext, Rest
  <2>5. ~(Fallback /\ Rest)
    BY <1>1, <2>2 DEF Fallback, Rest
  <2> QED
    BY <1>1, <2>1, <2>4, <2>5, BootEnds
<1>2. TypeOK /\ CInv /\ RInv /\ MInv /\ BootFollows /\ [Next]_vars =>
        [kind = "boot" /\ pc' = "idle" /\ mishaps' = 0 /\ dir.current # NoGen =>
           \/ live' = dir'.current
           \/ StagedTarget(dir) # NoGen /\ ~Runnable(StagedTarget(dir))]_vars
  BY <1>1
<1> QED
  BY <1>2, TypeCorrect, CInvHolds, RInvHolds, MInvHolds, BootFollowsHolds, PTL DEF Spec, CleanBootActivates

\* A boot whose staged generation fails, and nothing else does, ends with the
\* generation that was current when it began, running and current again.
THEOREM FailedBootsFallBack == Spec => FailedBootFallsBack
<1>1. ASSUME TypeOK, CInv, RInv, MInv, BootFollows, [Next]_vars,
             kind = "boot", pc' = "idle", mishaps' = 1, prev # NoGen,
             phase = "revert" \/ (phase = "fallback" /\ old # NoGen)
      PROVE  live' = prev /\ dir'.current = prev
  <2>1. mishaps >= 1
    BY <1>1 DEF BootFollows
  <2>2. ~Mishap
    BY <1>1, <2>1, MishapFacts
  <2>3. dir' = dir /\ live' = dir.current /\ live' = target
    BY <1>1, <2>2, BootEnds
  <2>4. mishaps' = mishaps
    BY <1>1, <2>2, ZenonT(30)
       DEF Next, Step, Failure, Command, ActivationStep, GcStep, UpgradeStep, ActivationFailure,
           UpgradeFailure, BeginChange, vars, envVars, NoFault, Fault, Enter, EntrypointSync, FlipCurrent,
           FlipSync, EntrypointSucceeds, EntrypointFails, ConsumeMarker, ConsumeSync, ConsumeFails,
           ActivateSelected, ActivateNext, SweepOther, SweepOtherFails, ResolveNext, BootShell,
           ShellResolve, Restore, RestoreSync, Fallback, BeginGc, PlanRemovals, Cleanup,
           RemoveGeneration, RemovalFails, CleanupDone, PlanDiscard, Discard, DiscardDone, BeginApply,
           BeginWidget, BeginAddMissing, Locked, Plan, PlanFails, SyncTree, Publish, PublishSync,
           SweepMarker, SweepSync, Stage, StageSync, ApplyFails, PowerLoss, Reboot, StartUp, Kill
  <2>5. target = prev
    BY <1>1, <2>4 DEF BootFollows
  <2> QED
    BY <2>3, <2>5
<1>2. TypeOK /\ CInv /\ RInv /\ MInv /\ BootFollows /\ [Next]_vars =>
        [/\ kind = "boot" /\ pc' = "idle" /\ mishaps' = 1 /\ prev # NoGen
         /\ phase = "revert" \/ (phase = "fallback" /\ old # NoGen)
         => live' = prev /\ dir'.current = prev]_vars
  BY <1>1
<1> QED
  BY <1>2, TypeCorrect, CInvHolds, RInvHolds, MInvHolds, BootFollowsHolds, PTL DEF Spec, FailedBootFallsBack
=============================================================================
