--------------------------- MODULE ProfileSystem ----------------------------
(***************************************************************************)
(* The life of a profile: boots, upgrades, activations and collections,    *)
(* one at a time under the profile lock, with kills, I/O errors, failing   *)
(* entrypoints, reboots into any firmware and power losses.                *)
(***************************************************************************)
EXTENDS Upgrade

Kinds == {"none", "boot", "activate", "gc"} \cup ApplyKinds
Modes == {"none", "activate", "skip", "stage", "noop", "current", "next"}
Phases == {"none", "try", "revert", "staged", "fallback"}
Steps ==
  {"idle", "boot", "shellSweep", "sweepOthers", "restore", "restoreSync", "fallback",
   "plan", "tree", "publish", "publishSync", "sweep", "stage", "stageSync",
   "enter", "consume", "consumeSync", "gc", "remove", "discard", "discarding"}
  \cup EntrypointSteps

TypeOK ==
  /\ dir \in Dir
  /\ persisted \subseteq Dir
  /\ flushed \in BOOLEAN
  /\ fw \in Versions \cup {Unknown}
  /\ pc \in Steps
  /\ kind \in Kinds
  /\ mode \in Modes
  /\ ver \in Versions \cup {Unknown}
  /\ phase \in Phases
  /\ built \in GenOrNone /\ prev \in GenOrNone /\ floor \in GenOrNone
  /\ target \in GenOrNone /\ old \in GenOrNone
  /\ doomed \subseteq Gen
  /\ swept \subseteq Gen
  /\ acked \in GenOrNone
  /\ staged \in [Versions -> GenOrNone]
  /\ retired \subseteq GenOrNone
  /\ live \in GenOrNone
  /\ mishaps \in 0..2
  /\ faults \in 0..MaxFaults
  /\ powerLosses \in 0..MaxPowerLosses

\* A freshly installed store carries generation 1 and no current.
Factory ==
  [gen |-> [g \in Gen |-> IF g = 1 THEN "whole" ELSE "absent"],
   current |-> NoGen,
   next |-> [v \in Versions |-> NoGen]]

Init ==
  /\ dir = Factory
  /\ persisted = {Factory}
  /\ flushed = FALSE
  /\ fw \in Versions \cup {Unknown}
  /\ pc = "boot"
  /\ kind = "none" /\ mode = "none" /\ ver = Unknown /\ phase = "none"
  /\ built = NoGen /\ prev = NoGen /\ floor = NoGen
  /\ target = NoGen /\ old = NoGen
  /\ doomed = {} /\ swept = {}
  /\ acked = NoGen
  /\ staged = [v \in Versions |-> NoGen]
  /\ retired = {}
  /\ live = NoGen
  /\ mishaps = 0
  /\ faults = 0
  /\ powerLosses = 0

-----------------------------------------------------------------------------
\* The device starts again, on any firmware, with whatever the disk holds.
StartUp ==
  /\ fw' \in Versions \cup {Unknown}
  /\ flushed' = FALSE
  /\ live' = NoGen
  /\ mishaps' = 0
  /\ pc' = "boot"
  /\ kind' = "none" /\ mode' = "none" /\ ver' = Unknown
  /\ built' = NoGen /\ prev' = NoGen /\ floor' = NoGen
  /\ target' = NoGen /\ old' = NoGen /\ phase' = "none"
  /\ doomed' = {} /\ swept' = {}

PowerLoss ==
  /\ powerLosses < MaxPowerLosses
  /\ powerLosses' = powerLosses + 1
  /\ \E d \in persisted : dir' = d /\ persisted' = {d}
  /\ StartUp
  /\ UNCHANGED <<acked, staged, retired, faults>>

\* An orderly reboot unmounts the partition; sysupgrade ends in one.
Reboot ==
  /\ pc = "idle"
  /\ Settle
  /\ StartUp
  /\ UNCHANGED <<acked, staged, retired, faults, powerLosses>>

\* The process that holds the lock is killed, its entrypoint with it.
Kill ==
  /\ pc \notin {"idle", "boot"} /\ kind # "boot"
  /\ Fault
  /\ Rest
  /\ flushed' = FALSE
  /\ live' = IF pc \in EntrypointSteps THEN NoGen ELSE live
  /\ UNCHANGED <<dir, persisted, acked, staged, retired, fw, powerLosses>>

-----------------------------------------------------------------------------
Step == ActivationStep \/ GcStep \/ UpgradeStep \/ BootShell
Failure == ActivationFailure \/ UpgradeFailure \/ Kill
Command == ActivateSelected \/ ActivateNext \/ BeginGc \/ BeginChange

Next == Step \/ Failure \/ Command \/ Reboot \/ PowerLoss

Spec == Init /\ [][Next]_vars

\* The process that holds the lock runs; commands and reboots are up to others.
FairSpec == Spec /\ WF_vars(Step)

-----------------------------------------------------------------------------
\* Whatever the disk holds after a power loss, current is absent or names a
\* generation whose entrypoint runs: removal by gc.rs never outlives the flip
\* that made a generation removable.
CurrentRunnable ==
  \A d \in persisted : d.current # NoGen => Executable(d.gen[d.current])

\* A marker the boot activator can find names a complete generation, whatever
\* build, collection and discard were cut short.
StagedIsComplete ==
  \A d \in persisted : \A v \in Versions :
    d.next[v] # NoGen => Complete(d.gen[d.next[v]])

\* "An upgrade reported as successful stays applied across a power loss", and
\* until the next flip a power loss boots what was reported last.
ReportedStaysApplied ==
  acked # NoGen => \A d \in persisted : d.current = acked

\* "An upgrade staged to activate on the next boot survives a power loss once
\* it has been reported as staged", until a boot or another run takes it.
StagedStays ==
  \A v \in Versions :
    staged[v] # NoGen => \A d \in persisted : d.next[v] = staged[v]

\* "a staged upgrade that was superseded or already applied cannot reappear".
RetiredStaysAway ==
  \A d \in persisted : \A v \in Versions : d.next[v] \notin retired

\* Once there is a current generation, a boot in which no step fails ends with
\* it running, whatever was interrupted before; the one exception is a staged
\* generation without an entrypoint, see BootFallsBack.
CleanBootActivates ==
  [][kind = "boot" /\ pc' = "idle" /\ mishaps' = 0 /\ dir.current # NoGen =>
       \/ live' = dir'.current
       \/ StagedTarget(dir) # NoGen /\ ~Runnable(StagedTarget(dir))]_vars

\* A boot whose staged generation fails, and nothing else does, ends with the
\* generation that was current before running and current again.
FailedBootFallsBack ==
  [][/\ kind = "boot" /\ pc' = "idle" /\ mishaps' = 1 /\ prev # NoGen
     /\ phase = "revert" \/ (phase = "fallback" /\ old # NoGen)
     => live' = prev /\ dir'.current = prev]_vars

\* The next two are what documents say and the code does not keep; no run
\* checks them (README, section 5).
\* docs/stories/nix-store-durability.md: "If activating a new software version
\* fails at boot, the device falls back to its current working version".
BootFallsBack ==
  [][kind = "boot" /\ pc' = "idle" /\ mishaps' = 0 /\ dir.current # NoGen =>
       live' = dir'.current]_vars

\* docs/devel/upgrades.md: "Every profile apply run removes stale
\* deferred-activation markers [...] any later run invalidates a pending
\* deferred activation".
ApplyInvalidatesStaged ==
  [][kind = "apply" /\ pc' = "idle" =>
       \A v \in Versions : dir'.next[v] \in {NoGen, built}]_vars

\* Adding missing packages never takes back a staged upgrade.
AddMissingKeepsStaged ==
  [][kind = "addMissing" => staged' = staged]_vars

\* Every operation ends and drops the profile lock.
OperationsEnd == pc # "idle" ~> pc = "idle"
=============================================================================
