----------------------------- MODULE ProfileGc ------------------------------
(***************************************************************************)
(* Removal of generations: cleanup_generations as run by bmc-nix-cli gc,   *)
(* the periodic collection and an upgrade, and discard_generations_above   *)
(* after a failed widget install (gc.rs).                                  *)
(***************************************************************************)
EXTENDS ProfileDir

\* The keep_generations highest numbers.
MostRecent(d) ==
  {g \in Generations(d) :
     Cardinality({h \in Generations(d) : h > g}) < KeepGenerations}

\* Mutant: the current generation is not protected.
KeepForgetsCurrent(d, extra, aged) ==
  {Latest(d)} \cup Marked(d) \cup {extra} \cup MostRecent(d) \cup aged

\* Mutant: markers are not consulted.
KeepForgetsMarkers(d, extra, aged) ==
  {d.current, Latest(d)} \cup {extra} \cup MostRecent(d) \cup aged

\* generations_to_keep.  aged stands for keep_days and protected_generations,
\* which may keep anything besides.
Keep(d, extra, aged) ==
  {d.current, Latest(d)} \cup Marked(d) \cup {extra} \cup MostRecent(d) \cup aged

\* bmc-nix-cli gc, or the periodic collection.
BeginGc ==
  /\ pc = "idle"
  /\ kind' = "gc" /\ pc' = "gc"
  /\ UNCHANGED <<mode, ver, built, prev, floor, target, old, phase, doomed, swept,
                 dirVars, ghosts, envVars>>

\* cleanup_generations reads the directory once; an upgrade without a
\* GcConfig skips it.
PlanRemovals ==
  /\ pc = "gc"
  /\ \/ /\ kind \in {"gc", "apply"}
        /\ \E aged \in SUBSET Generations(dir) :
             doomed' = Generations(dir) \ Keep(dir, prev, aged)
        /\ pc' = "remove"
        /\ UNCHANGED <<kind, mode, ver, built, prev, floor, target, old, phase, swept>>
     \/ kind \in {"apply", "addMissing", "widget"} /\ Rest
  /\ UNCHANGED <<dirVars, ghosts, envVars>>

\* remove_profile_entry: files go one by one, the directory last.
RemoveGeneration(g) ==
  /\ Change(WithGen(dir, g, "absent"), {WithGen(dir, g, c) : c \in Remains(dir.gen[g])})
  /\ NoFault

\* It stops half way, or before it removed anything.
RemovalFails(g) ==
  /\ Fault
  /\ \E c \in Remains(dir.gen[g]) \cup {dir.gen[g]} : Change(WithGen(dir, g, c), {})

\* Lowest number first; a failure does not stop the loop.
Cleanup ==
  /\ pc = "remove"
  /\ \E g \in doomed :
       /\ \A h \in doomed : g <= h
       /\ RemoveGeneration(g) \/ RemovalFails(g)
       /\ doomed' = doomed \ {g}
  /\ UNCHANGED <<flushed, pc, kind, mode, ver, built, prev, floor, target, old, phase,
                 swept, ghosts, fw, powerLosses>>

CleanupDone ==
  /\ pc = "remove" /\ doomed = {}
  /\ Rest
  /\ UNCHANGED <<dirVars, ghosts, envVars>>

-----------------------------------------------------------------------------
(* discard_generations_above, in directory order; a failure ends it. *)

PlanDiscard ==
  /\ pc = "discard"
  /\ doomed' = {g \in Generations(dir) : g > floor /\ g # dir.current}
  /\ pc' = "discarding"
  /\ UNCHANGED <<kind, mode, ver, built, prev, floor, target, old, phase, swept,
                 dirVars, ghosts, envVars>>

Discard ==
  /\ pc = "discarding"
  /\ \E g \in doomed :
       \/ /\ RemoveGeneration(g)
          /\ doomed' = doomed \ {g}
          /\ UNCHANGED <<pc, kind, mode, ver, built, prev, floor, target, old, phase, swept>>
       \/ RemovalFails(g) /\ Rest
  /\ UNCHANGED <<flushed, ghosts, fw, powerLosses>>

DiscardDone ==
  /\ pc = "discarding" /\ doomed = {}
  /\ Rest
  /\ UNCHANGED <<dirVars, ghosts, envVars>>

GcStep == PlanRemovals \/ Cleanup \/ CleanupDone \/ PlanDiscard \/ Discard \/ DiscardDone
=============================================================================
