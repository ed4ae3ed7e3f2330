------------------------------ MODULE Upgrade -------------------------------
(***************************************************************************)
(* Changing the profile: apply_locked_profile_change (upgrade.rs) with     *)
(* build_profile (profile.rs), called by the upgrade commands and service, *)
(* by add_missing_packages (add_missing.rs) and by the widget install      *)
(* (bmc-upgrade/src/packages.rs).                                          *)
(***************************************************************************)
EXTENDS Activation, ProfileGc

\* The lock is held; base manifest, previous generation and floor are read.
Locked(k) ==
  /\ pc = "idle"
  /\ kind' = k /\ pc' = "plan"
  /\ prev' = dir.current
  /\ floor' = Latest(dir)
  /\ UNCHANGED <<built, target, old, phase, doomed, swept, dirVars, ghosts, envVars>>

\* apply_profile_change; ActivationMode is Activate, Skip or NextBoot.
BeginApply ==
  /\ Locked("apply")
  /\ \/ mode' \in {"activate", "skip"} /\ ver' = Unknown
     \/ mode' = "stage" /\ ver' \in Versions

\* install_widget_package
BeginWidget == Locked("widget") /\ mode' = "activate" /\ ver' = Unknown

\* Mutant: the staged-generation check is dropped.
BeginAddMissingBlindly == Locked("addMissing") /\ mode' = "activate" /\ ver' = Unknown

\* add_missing_packages refuses while anything is staged.
BeginAddMissing ==
  Marked(dir) = {} /\ Locked("addMissing") /\ mode' = "activate" /\ ver' = Unknown

\* max_generation + 1
IsNext(d, n) == (\A g \in Generations(d) : g < n) /\ (n = 1 \/ n - 1 \in Generations(d))

\* compute_upgrade_plan: no difference skips the build but not the sweep.
Plan ==
  /\ pc = "plan"
  /\ \/ /\ mode' = "noop" /\ pc' = "sweep" /\ UNCHANGED built
     \/ /\ built' \in {n \in Gen : IsNext(dir, n)}
        /\ pc' = "tree" /\ UNCHANGED mode
  /\ UNCHANGED <<kind, ver, prev, floor, target, old, phase, doomed, swept,
                 dirVars, ghosts, envVars>>

\* The manifest is unreadable, the plan does not fit, or a fetch fails.
PlanFails ==
  /\ pc \in {"plan", "tree"}
  /\ GiveUp
  /\ UNCHANGED <<dirVars, ghosts, envVars>>

\* build_profile: the tree is written under a temporary name and synced.
SyncTree ==
  /\ pc = "tree"
  /\ Settle
  /\ flushed' = TRUE
  /\ pc' = "publish"
  /\ UNCHANGED <<opVars, ghosts, envVars>>

\* The rename.  Contents that were not flushed may not survive.
Publish ==
  /\ pc = "publish"
  /\ \E c \in {"whole", "bare"} :
       Change(WithGen(dir, built, c), IF flushed THEN {} ELSE {WithGen(dir, built, "husk")})
  /\ flushed' = FALSE
  /\ retired' = retired \ {built}
  /\ pc' = "publishSync"
  /\ UNCHANGED <<opVars, acked, staged, live, envVars>>

PublishSync ==
  /\ pc = "publishSync"
  /\ Settle
  /\ pc' = "sweep"
  /\ UNCHANGED <<flushed, opVars, ghosts, envVars>>

\* remove_stale_next: unlink every marker, then fsync.
SweepMarker(v) ==
  /\ pc = "sweep" /\ dir.next[v] # NoGen
  /\ Change(WithNext(dir, v, NoGen), {})
  /\ staged' = [staged EXCEPT ![v] = NoGen]
  /\ swept' = swept \cup {dir.next[v]}
  /\ UNCHANGED <<flushed, pc, kind, mode, ver, built, prev, floor, target, old, phase,
                 doomed, acked, retired, live, envVars>>

\* Mutant: the sweep is not synced.
SweepUnsynced ==
  /\ pc = "sweep" /\ Marked(dir) = {}
  /\ retired' = retired \cup swept
  /\ \/ /\ mode = "activate" /\ pc' = "enter" /\ target' = built
        /\ UNCHANGED <<kind, mode, ver, built, prev, floor, old, phase, doomed, swept>>
     \/ mode = "skip" /\ pc' = "gc" /\ UNCHANGED opVars
     \/ mode = "stage" /\ pc' = "stage" /\ UNCHANGED opVars
     \/ mode = "noop" /\ Rest
  /\ UNCHANGED <<dirVars, acked, staged, live, envVars>>

SweepSync ==
  /\ pc = "sweep" /\ Marked(dir) = {}
  /\ Settle
  /\ retired' = retired \cup swept
  /\ \/ /\ mode = "activate" /\ pc' = "enter" /\ target' = built
        /\ UNCHANGED <<kind, mode, ver, built, prev, floor, old, phase, doomed, swept>>
     \/ mode = "skip" /\ pc' = "gc" /\ UNCHANGED opVars
     \/ mode = "stage" /\ pc' = "stage" /\ UNCHANGED opVars
     \/ mode = "noop" /\ Rest
  /\ UNCHANGED <<flushed, acked, staged, live, envVars>>

\* stage_next_boot: the marker appears by rename and is synced.
Stage ==
  /\ pc = "stage"
  /\ Change(WithNext(dir, ver, built), {})
  /\ pc' = "stageSync"
  /\ UNCHANGED <<flushed, opVars, ghosts, envVars>>

\* Mutant: staging is reported before the marker is durable.
StageUnsynced ==
  /\ pc = "stageSync"
  /\ staged' = [staged EXCEPT ![ver] = built]
  /\ pc' = "gc"
  /\ UNCHANGED <<dirVars, opVars, acked, retired, live, envVars>>

StageSync ==
  /\ pc = "stageSync"
  /\ Settle
  /\ staged' = [staged EXCEPT ![ver] = built]
  /\ pc' = "gc"
  /\ UNCHANGED <<flushed, opVars, acked, retired, live, envVars>>

\* An I/O error in the build, the sweep or the staging ends the run.
ApplyFails ==
  /\ pc \in {"tree", "publish", "publishSync", "sweep", "stage", "stageSync"}
  /\ Fault
  /\ GiveUp
  /\ flushed' = FALSE
  /\ UNCHANGED <<dir, persisted, ghosts, fw, powerLosses>>

BeginChange == BeginApply \/ BeginWidget \/ BeginAddMissing

UpgradeStep ==
  \/ Plan \/ SyncTree \/ Publish \/ PublishSync
  \/ (\E v \in Versions : SweepMarker(v)) \/ SweepSync \/ Stage \/ StageSync

UpgradeFailure == PlanFails \/ ApplyFails
=============================================================================
