----------------------------- MODULE Activation -----------------------------
(***************************************************************************)
(* Activating a generation: activate_profile with its revert, the scripts  *)
(* of the entrypoint up to the durable flip of current (write_boundary.rs),*)
(* bmc-nix-cli activate (activation.rs) and the two boot activators, the   *)
(* one bundled with the firmware and its shell port nix-activator.         *)
(***************************************************************************)
EXTENDS ProfileDir

ApplyKinds == {"apply", "addMissing", "widget"}
EntrypointSteps == {"ep", "flip", "flipSync", "post"}

\* activate_profile: the target must be runnable; what is current now is what
\* a failure goes back to.
Enter ==
  /\ pc = "enter"
  /\ \/ /\ Executable(dir.gen[target])
        /\ old' = IF ResolvedCurrent(dir) = target THEN NoGen ELSE ResolvedCurrent(dir)
        /\ phase' = "try"
        /\ pc' = "ep"
        /\ UNCHANGED <<kind, mode, ver, built, prev, floor, target, doomed, swept>>
     \/ ~Executable(dir.gen[target]) /\ GiveUp
  /\ NoFault
  /\ UNCHANGED <<dirVars, ghosts, fw, powerLosses>>

-----------------------------------------------------------------------------
(* The entrypoint: scripts, syncfs, rename of current, fsync, last script. *)

EntrypointSync ==
  /\ pc = "ep"
  /\ Settle
  /\ pc' = "flip"
  /\ UNCHANGED <<flushed, opVars, ghosts, envVars>>

FlipCurrent ==
  /\ pc = "flip"
  /\ Change(WithCurrent(dir, target), {})
  /\ acked' = IF acked = target THEN acked ELSE NoGen
  /\ pc' = "flipSync"
  /\ UNCHANGED <<flushed, opVars, staged, retired, live, envVars>>

\* Mutant: the write boundary skips the directory fsync.
FlipSyncSkipped ==
  /\ pc = "flipSync"
  /\ pc' = "post"
  /\ UNCHANGED <<dirVars, opVars, ghosts, envVars>>

FlipSync ==
  /\ pc = "flipSync"
  /\ Settle
  /\ pc' = "post"
  /\ UNCHANGED <<flushed, opVars, ghosts, envVars>>

\* The entrypoint exits 0.
EntrypointSucceeds ==
  /\ pc = "post"
  /\ acked' = target /\ live' = target
  /\ \/ /\ phase = "try" /\ kind \in ApplyKinds
        /\ pc' = "gc" /\ UNCHANGED opVars
     \/ /\ phase = "staged" \/ (phase = "try" /\ mode = "next")
        /\ pc' = "consume" /\ UNCHANGED opVars
     \/ /\ phase = "fallback" \/ (phase = "try" /\ mode = "current")
        /\ Rest
     \/ phase = "revert" /\ GiveUp
  /\ UNCHANGED <<dirVars, staged, retired, envVars>>

\* A script or a sync fails, or the process dies.  A torn generation may lack
\* a script it needs.
EntrypointFails ==
  /\ pc \in EntrypointSteps
  /\ \/ Fault
     \/ pc = "ep" /\ dir.gen[target] = "torn" /\ Mishap /\ UNCHANGED faults
  /\ \/ /\ phase = "try" /\ old # NoGen
        /\ target' = old /\ old' = NoGen /\ phase' = "revert" /\ pc' = "ep"
        /\ UNCHANGED <<kind, mode, ver, built, prev, floor, doomed, swept>>
     \/ (phase = "revert" \/ (phase = "try" /\ old = NoGen)) /\ GiveUp
     \/ phase = "staged" /\ pc' = "restore" /\ UNCHANGED opVars
     \/ phase = "fallback" /\ Rest
  /\ live' = NoGen
  /\ UNCHANGED <<dirVars, acked, staged, retired, fw, powerLosses>>

\* remove_next, and rm + sync in the shell port.
ConsumeMarker ==
  /\ pc = "consume"
  /\ Change(WithNext(dir, fw, NoGen), {})
  /\ staged' = [staged EXCEPT ![fw] = NoGen]
  /\ pc' = "consumeSync"
  /\ UNCHANGED <<flushed, opVars, acked, retired, live, envVars>>

ConsumeSync ==
  /\ pc = "consumeSync"
  /\ Settle
  /\ retired' = retired \cup {target}
  /\ Rest
  /\ UNCHANGED <<flushed, acked, staged, live, envVars>>

\* The unlink or its fsync fails: the activation is reported as failed.
ConsumeFails ==
  /\ pc \in {"consume", "consumeSync"}
  /\ Fault
  /\ Rest
  /\ UNCHANGED <<dirVars, ghosts, fw, powerLosses>>

-----------------------------------------------------------------------------
(* bmc-nix-cli activate *)

Begin(k, stage) ==
  /\ kind' = k /\ pc' = stage /\ prev' = dir.current
  /\ UNCHANGED <<ver, built, floor, old, phase, doomed, swept>>

\* Mutant: the newest generation is always preferred.
CurrentTargetIsLatest(d) == Latest(d)

\* resolve_selector and current_fallback_to_latest for the selector Current.
CurrentTarget(d) ==
  LET c == IF ResolvedCurrent(d) # NoGen THEN ResolvedCurrent(d) ELSE Latest(d)
  IN  IF c # NoGen /\ Executable(d.gen[c]) THEN c ELSE Latest(d)

Runnable(g) == g # NoGen /\ Executable(dir.gen[g])

\* --generation <N> | latest | current; a selection without an entrypoint is
\* an error that changes nothing.
ActivateSelected ==
  /\ pc = "idle"
  /\ target' \in Generations(dir)
  /\ Runnable(target')
  /\ mode' = "current"
  /\ Begin("activate", "enter")
  /\ UNCHANGED <<dirVars, ghosts, envVars>>

\* --generation next, run by hand or as the bundled boot activator.
ActivateNext ==
  /\ \/ pc = "idle" /\ Begin("activate", "sweepOthers")
     \/ pc = "boot" /\ Begin("boot", "sweepOthers")
  /\ UNCHANGED <<mode, target, dirVars, ghosts, envVars>>

\* Markers of other firmware versions are stale; their removal is not synced.
SweepOther(v) ==
  /\ pc \in {"sweepOthers", "shellSweep"}
  /\ fw # Unknown /\ v # fw /\ dir.next[v] # NoGen
  /\ Change(WithNext(dir, v, NoGen), {})
  /\ staged' = [staged EXCEPT ![v] = NoGen]
  /\ UNCHANGED <<flushed, pc, opVars, acked, retired, live, envVars>>

SweepOtherFails ==
  /\ pc = "sweepOthers"
  /\ Fault
  /\ Rest
  /\ UNCHANGED <<dirVars, ghosts, fw, powerLosses>>

OthersSwept == fw = Unknown \/ \A v \in Versions \ {fw} : dir.next[v] = NoGen

\* The marker of the running version, when it resolves to a directory.
StagedTarget(d) ==
  IF fw # Unknown /\ d.next[fw] \in Generations(d) THEN d.next[fw] ELSE NoGen

ResolveNext ==
  /\ pc = "sweepOthers" /\ OthersSwept
  /\ \/ /\ Runnable(StagedTarget(dir))
        /\ target' = StagedTarget(dir) /\ mode' = "next" /\ pc' = "enter"
        /\ UNCHANGED <<kind, ver, built, prev, floor, old, phase, doomed, swept>>
     \/ /\ StagedTarget(dir) = NoGen
        /\ Runnable(CurrentTarget(dir))
        /\ target' = CurrentTarget(dir) /\ mode' = "current" /\ pc' = "enter"
        /\ UNCHANGED <<kind, ver, built, prev, floor, old, phase, doomed, swept>>
     \/ /\ ~Runnable(StagedTarget(dir))
        /\ StagedTarget(dir) # NoGen \/ ~Runnable(CurrentTarget(dir))
        /\ Rest
  /\ UNCHANGED <<dirVars, ghosts, envVars>>

-----------------------------------------------------------------------------
(* nix-activator, the shell port *)

BootShell ==
  /\ pc = "boot"
  /\ Begin("boot", IF fw = Unknown THEN "fallback" ELSE "shellSweep")
  /\ UNCHANGED <<mode, target, dirVars, ghosts, envVars>>

\* A marker that rm -f cannot remove is left behind.
ShellResolve ==
  /\ pc = "shellSweep"
  /\ (OthersSwept /\ NoFault) \/ (~OthersSwept /\ Fault)
  /\ IF Runnable(StagedTarget(dir))
     THEN /\ target' = StagedTarget(dir) /\ old' = dir.current
          /\ phase' = "staged" /\ pc' = "ep"
     ELSE pc' = "fallback" /\ UNCHANGED <<target, old, phase>>
  /\ UNCHANGED <<dirVars, kind, mode, ver, built, prev, floor, doomed, swept,
                 ghosts, fw, powerLosses>>

\* Mutant: the fallback runs without putting current back.
RestoreSkipped ==
  /\ pc = "restore"
  /\ pc' = "fallback"
  /\ UNCHANGED <<dirVars, opVars, ghosts, envVars>>

\* current goes back to the target read before the staged entrypoint ran.
Restore ==
  /\ pc = "restore"
  /\ \/ /\ dir.current # old
        /\ Change(WithCurrent(dir, old), {})
        /\ pc' = "restoreSync" /\ NoFault
     \/ /\ dir.current # old
        /\ Fault
        /\ pc' = "restoreSync" /\ UNCHANGED <<dir, persisted>>
     \/ /\ dir.current = old
        /\ pc' = "fallback" /\ NoFault /\ UNCHANGED <<dir, persisted>>
  /\ UNCHANGED <<flushed, opVars, ghosts, fw, powerLosses>>

\* sync reports no error when it fails.
RestoreSync ==
  /\ pc = "restoreSync"
  /\ (Settle /\ NoFault) \/ (Fault /\ UNCHANGED <<dir, persisted>>)
  /\ pc' = "fallback"
  /\ UNCHANGED <<flushed, opVars, ghosts, fw, powerLosses>>

\* Mutant: without a runnable generation the activator waits for one.
FallbackWaits ==
  /\ pc = "fallback"
  /\ LET c == IF dir.current # NoGen THEN dir.current ELSE Latest(dir)
     IN  IF Runnable(c)
         THEN /\ target' = c /\ phase' = "fallback" /\ pc' = "ep"
              /\ UNCHANGED <<kind, mode, ver, built, prev, floor, old, doomed, swept>>
         ELSE UNCHANGED <<pc, opVars>>
  /\ UNCHANGED <<dirVars, ghosts, envVars>>

Fallback ==
  /\ pc = "fallback"
  /\ LET c == IF dir.current # NoGen THEN dir.current ELSE Latest(dir)
     IN  IF Runnable(c)
         THEN /\ target' = c /\ phase' = "fallback" /\ pc' = "ep"
              /\ UNCHANGED <<kind, mode, ver, built, prev, floor, old, doomed, swept>>
         ELSE Rest
  /\ UNCHANGED <<dirVars, ghosts, envVars>>

ActivationStep ==
  \/ Enter \/ EntrypointSync \/ FlipCurrent \/ FlipSync \/ EntrypointSucceeds
  \/ ConsumeMarker \/ ConsumeSync
  \/ (\E v \in Versions : SweepOther(v)) \/ ResolveNext
  \/ ShellResolve \/ Restore \/ RestoreSync \/ Fallback

ActivationFailure == EntrypointFails \/ ConsumeFails \/ SweepOtherFails
=============================================================================
