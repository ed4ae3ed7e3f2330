----------------------------- MODULE RunStatus ------------------------------
(***************************************************************************)
(* What an upgrade run shows of itself (system_upgrade.rs): the display, a *)
(* watch on the newest snapshot; every change of it again, in order, in an *)
(* unbounded queue read by the widget pause; and the coarse state behind   *)
(* the LEDs, which also decides whether the user may restart the device.   *)
(***************************************************************************)
EXTENDS Integers, Sequences

VARIABLES
  display,  \* the watch of RunStatusService
  inbox,    \* its events not yet read by the widget pause
  nextGen,  \* the generation the next run gets
  led       \* the watch of StateService

statusVars == <<display, inbox, nextGen, led>>

RunKinds == {"firmware", "packages"}
RunPhases == {"none", "downloading", "verifying", "packages", "activating", "applying"}
Leds == {"none", "downloadStarted", "downloadProgress", "downloadFinished",
         "upgradeStarted", "finished", "failed"}

Snapshot(g, k, s, p) == [gen |-> g, kind |-> k, status |-> s, phase |-> p]
NoRun == Snapshot(-1, "none", "none", "none")
Snapshots ==
  [gen : Nat, kind : RunKinds,
   status : {"running", "rebooting", "succeeded", "failed"}, phase : RunPhases]
  \cup {NoRun}

\* The watch and its queue change together, under the lock of the watch.
Publish(s) ==
  /\ display' = s
  /\ inbox' = IF display = s THEN inbox ELSE Append(inbox, s)

Clear == Publish(NoRun)

Phase(p) == [type |-> "phase", phase |-> p]
Progress == [type |-> "progress", phase |-> "none"]
Finished == [type |-> "finished", phase |-> "none"]
Failed == [type |-> "failed", phase |-> "none"]
RunEvents == {Phase(p) : p \in RunPhases \ {"none"}} \cup {Progress, Finished, Failed}

LedEvent(e) ==
  CASE e.phase \in {"applying", "activating"} -> "upgradeStarted"
    [] e.type = "progress" -> "downloadProgress"
    [] e.type \in {"failed", "finished"} -> e.type
    [] OTHER -> led

\* Mutant: an LED state that forgets to say that a download goes on.
ProgressIsResting(l) == l \in {"downloadStarted", "upgradeStarted"}
BlocksRestart(l) == l \in {"downloadStarted", "downloadProgress", "upgradeStarted"}

Project(s, e) ==
  CASE e.type = "phase" -> [s EXCEPT !.phase = e.phase]
    [] e.type = "progress" -> s
    [] e.type = "finished" -> Snapshot(s.gen, s.kind, "succeeded", "none")
    [] e.type = "failed" -> Snapshot(s.gen, s.kind, "failed", "none")
=============================================================================
