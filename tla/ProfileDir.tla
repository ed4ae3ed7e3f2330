----------------------------- MODULE ProfileDir -----------------------------
(***************************************************************************)
(* The profile directory of bmc-nix (profile.rs, activation.rs, gc.rs) and *)
(* the state of the one operation that holds its lock.                     *)
(*                                                                         *)
(* A directory holds the generations <N>-link, the symlink current and one *)
(* symlink next.<version> per firmware version with a staged generation.   *)
(* persisted is the set of directories a power loss may leave: ext4        *)
(* commits renames and unlinks in their order, so it holds every directory *)
(* since the last fsync or syncfs.                                         *)
(***************************************************************************)
EXTENDS Naturals, FiniteSets

CONSTANTS
  Versions,         \* BOS firmware versions
  Unknown,          \* /etc/bos_version is missing or empty
  MaxGen,           \* bound on generation numbers
  KeepGenerations,  \* GcConfig.keep_generations
  MaxFaults,        \* bound on I/O errors, failed scripts and kills
  MaxPowerLosses    \* bound on power losses

ASSUME ProfileBounds ==
  /\ MaxGen \in Nat \ {0}
  /\ KeepGenerations \in Nat
  /\ MaxFaults \in Nat
  /\ MaxPowerLosses \in Nat
ASSUME UnknownIsNoVersion == Unknown \notin Versions

VARIABLES
  dir,        \* the profile directory as the running kernel sees it
  persisted,  \* the directories a power loss may leave
  flushed,    \* the generation being built is on stable storage
  fw,         \* running firmware version, or Unknown
  pc,         \* step of the operation that holds the profile lock
  kind,       \* which operation that is
  mode,       \* its ActivationMode, or what a CLI activation resolved to
  ver,        \* firmware version it stages for
  built,      \* generation number it builds
  prev,       \* what current named when it started
  floor,      \* highest generation before it started
  target,     \* generation whose entrypoint runs
  old,        \* generation to fall back to when that entrypoint fails
  phase,      \* role of the running entrypoint
  doomed,     \* generations still to be removed
  swept,      \* generations whose markers it swept
  acked,      \* generation last reported active, NoGen while that is open
  staged,     \* generation reported as staged for each version
  retired,    \* generations whose marker was superseded or consumed
  live,       \* generation whose entrypoint last ran to its end since power-on
  mishaps,    \* failures during this boot, up to two
  faults, powerLosses

dirVars == <<dir, persisted, flushed>>
opVars == <<kind, mode, ver, built, prev, floor, target, old, phase, doomed, swept>>
ghosts == <<acked, staged, retired, live>>
envVars == <<fw, mishaps, faults, powerLosses>>
vars == <<dirVars, opVars, ghosts, envVars, pc>>

NoGen == 0
Gen == 1..MaxGen
GenOrNone == 0..MaxGen

\* "bare": complete but without an activation entrypoint; "torn" and "husk":
\* removal was cut short, with the entrypoint still there and without it.
Content == {"absent", "whole", "bare", "torn", "husk"}
Dir == [gen : [Gen -> Content], current : GenOrNone, next : [Versions -> GenOrNone]]

\* is_executable(<N>-link/core/activation/entrypoint)
Executable(c) == c \in {"whole", "torn"}
Complete(c) == c \in {"whole", "bare"}

Generations(d) == {g \in Gen : d.gen[g] # "absent"}

\* max_generation; find_latest_link has the same answer for real directories.
Latest(d) ==
  IF Generations(d) = {} THEN NoGen
  ELSE CHOOSE g \in Generations(d) : \A h \in Generations(d) : h <= g

\* resolve_current_link: a dangling current counts as none.
ResolvedCurrent(d) ==
  IF d.current \in Generations(d) THEN d.current ELSE NoGen

\* next_generation_numbers
Marked(d) == {g \in Gen : \E v \in Versions : d.next[v] = g}

-----------------------------------------------------------------------------
(* Changes of the directory. *)

\* One rename, symlink or unlink, and the images it may leave on the way.
Change(d, partial) == dir' = d /\ persisted' = persisted \cup partial \cup {d}

\* fsync_dir, sync_filesystem_of
Settle == persisted' = {dir} /\ UNCHANGED dir

WithGen(d, g, c) == [d EXCEPT !.gen[g] = c]
WithCurrent(d, g) == [d EXCEPT !.current = g]
WithNext(d, v, g) == [d EXCEPT !.next[v] = g]

\* What remove_dir_all may have left of a generation when it is cut short.
Remains(c) == IF Executable(c) THEN {"torn", "husk"} ELSE {"husk"}

Mishap == mishaps' = IF kind = "boot" /\ mishaps < 2 THEN mishaps + 1 ELSE mishaps
Fault == faults < MaxFaults /\ faults' = faults + 1 /\ Mishap
NoFault == UNCHANGED <<faults, mishaps>>

-----------------------------------------------------------------------------
(* The end of an operation: the lock guard is dropped. *)

Rest ==
  /\ pc' = "idle"
  /\ kind' = "none" /\ mode' = "none" /\ ver' = Unknown
  /\ built' = NoGen /\ prev' = NoGen /\ floor' = NoGen
  /\ target' = NoGen /\ old' = NoGen /\ phase' = "none"
  /\ doomed' = {} /\ swept' = {}

\* An error return.  A widget install cleans up its generation first.
GiveUp ==
  IF kind = "widget" THEN pc' = "discard" /\ UNCHANGED opVars ELSE Rest
=============================================================================
