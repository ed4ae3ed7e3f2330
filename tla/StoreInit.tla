----------------------------- MODULE StoreInit -----------------------------
(***************************************************************************)
(* First-time installation and recovery wipe of the Nix store              *)
(* (bmc-nix/src/store.rs init_store / init_store_from_tarball, driven by   *)
(* bmc-nix-cli init).  Any number of initializers run against one data     *)
(* partition whose directory has three names that matter: the trusted      *)
(* name "nix", the staging tree "nix.tmp" and the demoted store            *)
(* "nix.wiped".  Power may be lost, and a process killed, between any two  *)
(* steps.                                                                  *)
(*                                                                         *)
(* The partition is ext4 with its default journal (partition.rs): renames  *)
(* and unlinks reach the disk in the order they were made, so what a power *)
(* loss leaves is one of the directory states since the last sync.  disk   *)
(* is that set of states.  File contents carry no such order: a tree that  *)
(* was never flushed may come back incomplete under its new name.          *)
(***************************************************************************)
EXTENDS Naturals, FiniteSets

CONSTANTS
  Procs,            \* the initializer processes
  Tarballs,         \* the factory tarballs a run may install
  None,             \* no tree / no process
  MaxPowerLosses,   \* bound on power losses in a behaviour
  MaxFaults         \* bound on I/O errors, failed downloads and kills

ASSUME BoundsAreNat == MaxPowerLosses \in Nat /\ MaxFaults \in Nat
ASSUME NoneIsFresh == None \notin Procs /\ None \notin Tarballs

VARIABLES
  root,         \* the stage directory as the running kernel sees it
  disk,         \* the stage directories a power loss may leave
  flushed,      \* the extracted staging tree is on stable storage
  lock,         \* holder of <stage_dir>/.init.lock
  pc,           \* where each initializer is
  wipe,         \* its --wipe flag
  tarball,      \* the tarball it installs
  mounted,      \* /nix is bind-mounted from the store
  installed,    \* tarball of the last run that promoted a store and said so
  powerLosses, faults

vars == <<root, disk, flushed, lock, pc, wipe, tarball, mounted, installed,
          powerLosses, faults>>

Slot == [of : Tarballs \cup {None}, whole : BOOLEAN]
Absent == [of |-> None, whole |-> FALSE]
Partial(s) == [s EXCEPT !.whole = FALSE]
StageDir == [nix : Slot, tmp : Slot, wiped : Slot]

\* store_is_initialized: an empty or torn tree lacks the database or profile.
Initialized == root.nix # Absent /\ root.nix.whole

Stages == {"idle", "lock", "mountCheck", "clean", "fetch", "prepare",
           "demoted", "discard", "extract", "unpacking", "unpacked", "synced",
           "promoted"}
Holding == Stages \ {"idle", "lock"}

TypeOK ==
  /\ root \in StageDir
  /\ disk \subseteq StageDir
  /\ flushed \in BOOLEAN
  /\ lock \in Procs \cup {None}
  /\ pc \in [Procs -> Stages]
  /\ wipe \in [Procs -> BOOLEAN]
  /\ tarball \in [Procs -> Tarballs]
  /\ mounted \in BOOLEAN
  /\ installed \in Tarballs \cup {None}
  /\ powerLosses \in 0..MaxPowerLosses
  /\ faults \in 0..MaxFaults

Empty == [nix |-> Absent, tmp |-> Absent, wiped |-> Absent]

Init ==
  /\ root = Empty
  /\ disk = {Empty}
  /\ flushed = FALSE
  /\ lock = None
  /\ pc = [p \in Procs |-> "idle"]
  /\ wipe = [p \in Procs |-> FALSE]
  /\ tarball \in [Procs -> Tarballs]
  /\ mounted = FALSE
  /\ installed = None
  /\ powerLosses = 0
  /\ faults = 0

-----------------------------------------------------------------------------
(* How a step leaves the directory and its durable images. *)

\* The directory becomes r; a power loss may leave r or any state before it.
Write(r) == root' = r /\ disk' = disk \cup {r}

\* Files of f vanish one by one: a power loss may leave some of them.
Delete(fs) ==
  LET without(s) == [nix   |-> root.nix,
                     tmp   |-> IF "tmp" \in fs THEN s[1] ELSE root.tmp,
                     wiped |-> IF "wiped" \in fs THEN s[2] ELSE root.wiped]
      gone == without(<<Absent, Absent>>)
      torn == without(<<Partial(root.tmp), Partial(root.wiped)>>)
  IN  root' = gone /\ disk' = disk \cup {torn, gone}

\* syncfs or fsync of the directory returned: nothing older can come back.
Sync == disk' = {root} /\ UNCHANGED root

Goto(p, stage) == pc' = [pc EXCEPT ![p] = stage]
Fault == faults < MaxFaults /\ faults' = faults + 1
Return(p) == Goto(p, "idle") /\ lock' = None

-----------------------------------------------------------------------------
(* cmd_init: refuses to wipe under an active mount, and returns without     *)
(* taking the lock when the store is already there.                         *)

Begin(p) ==
  /\ pc[p] = "idle"
  /\ \E w \in BOOLEAN, t \in Tarballs :
       /\ ~(w /\ mounted)
       /\ ~(Initialized /\ ~w)
       /\ wipe' = [wipe EXCEPT ![p] = w]
       /\ tarball' = [tarball EXCEPT ![p] = t]
  /\ Goto(p, "lock")
  /\ UNCHANGED <<root, disk, flushed, lock, mounted, installed,
                 powerLosses, faults>>

AlreadyInitialized(p) ==
  /\ pc[p] = "idle"
  /\ Initialized
  /\ UNCHANGED vars

AcquireLock(p) ==
  /\ pc[p] = "lock"
  /\ lock = None
  /\ lock' = p
  /\ Goto(p, "mountCheck")
  /\ UNCHANGED <<root, disk, flushed, wipe, tarball, mounted, installed,
                 powerLosses, faults>>

EnsureWipeUnmounted(p) ==
  /\ pc[p] = "mountCheck"
  /\ IF wipe[p] /\ mounted THEN Return(p)
                           ELSE Goto(p, "clean") /\ UNCHANGED lock
  /\ UNCHANGED <<root, disk, flushed, wipe, tarball, mounted, installed,
                 powerLosses, faults>>

CleanStaleStaging(p) ==
  /\ pc[p] = "clean"
  /\ Delete({"tmp", "wiped"})
  /\ Goto(p, "fetch")
  /\ UNCHANGED <<flushed, lock, wipe, tarball, mounted, installed,
                 powerLosses, faults>>

\* Mutant: a failed download starts over without a retry budget.
DownloadWithoutBudget(p) ==
  /\ pc[p] = "fetch"
  /\ \E stage \in {"prepare", "clean"} : Goto(p, stage)
  /\ UNCHANGED <<root, disk, flushed, lock, wipe, tarball, mounted, installed,
                 powerLosses, faults>>

Download(p) ==
  /\ pc[p] = "fetch"
  /\ Goto(p, "prepare")
  /\ UNCHANGED <<root, disk, flushed, lock, wipe, tarball, mounted, installed,
                 powerLosses, faults>>

\* prepare_promoted_store_path, up to the rename that demotes the store.
PrepareStorePath(p) ==
  /\ pc[p] = "prepare"
  /\ \/ /\ root.nix = Absent
        /\ Goto(p, "extract")
        /\ UNCHANGED <<root, disk, lock, installed>>
     \/ /\ root.nix # Absent /\ ~wipe[p]
        /\ Return(p)
        /\ UNCHANGED <<root, disk, installed>>
     \/ /\ root.nix # Absent /\ wipe[p]
        /\ Write([root EXCEPT !.wiped = root.nix, !.nix = Absent])
        /\ installed' = None
        /\ Goto(p, "demoted")
        /\ UNCHANGED lock
  /\ UNCHANGED <<flushed, wipe, tarball, mounted, powerLosses, faults>>

SyncDemotion(p) ==
  /\ pc[p] = "demoted"
  /\ Sync
  /\ Goto(p, "discard")
  /\ UNCHANGED <<flushed, lock, wipe, tarball, mounted, installed,
                 powerLosses, faults>>

DiscardWiped(p) ==
  /\ pc[p] = "discard"
  /\ Delete({"wiped"})
  /\ Goto(p, "extract")
  /\ UNCHANGED <<flushed, lock, wipe, tarball, mounted, installed,
                 powerLosses, faults>>

-----------------------------------------------------------------------------
(* extract_staged *)

Unpack(p) ==
  /\ pc[p] = "extract"
  /\ Write([root EXCEPT !.tmp = [of |-> tarball[p], whole |-> FALSE]])
  /\ flushed' = FALSE
  /\ Goto(p, "unpacking")
  /\ UNCHANGED <<lock, wipe, tarball, mounted, installed, powerLosses,
                 faults>>

UnpackDone(p) ==
  /\ pc[p] = "unpacking"
  /\ Write([root EXCEPT !.tmp = [of |-> tarball[p], whole |-> TRUE]])
  /\ Goto(p, "unpacked")
  /\ UNCHANGED <<flushed, lock, wipe, tarball, mounted, installed,
                 powerLosses, faults>>

\* Mutant: the tree is promoted without syncfs.
SyncTreeSkipped(p) ==
  /\ pc[p] = "unpacked"
  /\ Goto(p, "synced")
  /\ UNCHANGED <<root, disk, flushed, lock, wipe, tarball, mounted, installed,
                 powerLosses, faults>>

SyncTree(p) ==
  /\ pc[p] = "unpacked"
  /\ Sync
  /\ flushed' = TRUE
  /\ Goto(p, "synced")
  /\ UNCHANGED <<lock, wipe, tarball, mounted, installed, powerLosses,
                 faults>>

\* Names reach the disk in order, contents only when flushed.
Promote(p) ==
  /\ pc[p] = "synced"
  /\ root.nix = Absent
  /\ LET r == [root EXCEPT !.nix = root.tmp, !.tmp = Absent]
     IN  /\ root' = r
         /\ disk' = disk \cup {r} \cup
                    IF flushed THEN {} ELSE {[r EXCEPT !.nix = Partial(r.nix)]}
  /\ Goto(p, "promoted")
  /\ UNCHANGED <<flushed, lock, wipe, tarball, mounted, installed,
                 powerLosses, faults>>

\* Mutant: success is reported before the rename is durable.
SyncPromotionSkipped(p) ==
  /\ pc[p] = "promoted"
  /\ installed' = tarball[p]
  /\ Return(p)
  /\ UNCHANGED <<root, disk, flushed, wipe, tarball, mounted,
                 powerLosses, faults>>

SyncPromotion(p) ==
  /\ pc[p] = "promoted"
  /\ Sync
  /\ installed' = tarball[p]
  /\ Return(p)
  /\ UNCHANGED <<flushed, wipe, tarball, mounted, powerLosses, faults>>

-----------------------------------------------------------------------------
(* Errors, kills, mounts and power. *)

\* A step before staging exists fails; the guard drops the lock.
FailEarly(p) ==
  /\ Fault
  /\ pc[p] \in {"mountCheck", "fetch", "prepare", "demoted", "extract"}
  /\ Return(p)
  /\ UNCHANGED <<root, disk, flushed, wipe, tarball, mounted, installed,
                 powerLosses>>

\* Extraction, a sync or the promotion fails: staging is removed if it can be.
FailStaged(p) ==
  /\ Fault
  /\ pc[p] \in {"unpacking", "unpacked", "synced", "promoted"}
  /\ \/ Delete({"tmp"})
     \/ Write([root EXCEPT !.tmp = Partial(root.tmp)])
  /\ Return(p)
  /\ UNCHANGED <<flushed, wipe, tarball, mounted, installed, powerLosses>>

\* remove_path_if_exists fails half way.
FailDelete(p) ==
  /\ Fault
  /\ \/ pc[p] = "clean"
        /\ Write([root EXCEPT !.tmp = Partial(root.tmp),
                              !.wiped = Partial(root.wiped)])
     \/ pc[p] = "discard"
        /\ Write([root EXCEPT !.wiped = Partial(root.wiped)])
  /\ Return(p)
  /\ UNCHANGED <<flushed, wipe, tarball, mounted, installed, powerLosses>>

\* The process dies; the kernel closes the lock file.
Kill(p) ==
  /\ Fault
  /\ pc[p] # "idle"
  /\ Goto(p, "idle")
  /\ lock' = IF lock = p THEN None ELSE lock
  /\ UNCHANGED <<root, disk, flushed, wipe, tarball, mounted, installed,
                 powerLosses>>

\* bind_mount_nix takes no init lock.
Mount ==
  /\ ~mounted
  /\ root.nix # Absent
  /\ mounted' = TRUE
  /\ UNCHANGED <<root, disk, flushed, lock, pc, wipe, tarball, installed,
                 powerLosses, faults>>

PowerLoss ==
  /\ powerLosses < MaxPowerLosses
  /\ powerLosses' = powerLosses + 1
  /\ \E r \in disk : root' = r /\ disk' = {r}
  /\ flushed' = FALSE
  /\ lock' = None
  /\ pc' = [p \in Procs |-> "idle"]
  /\ mounted' = FALSE
  /\ UNCHANGED <<wipe, tarball, installed, faults>>

-----------------------------------------------------------------------------
\* The steps a running initializer takes on its own.
Work(p) ==
  \/ EnsureWipeUnmounted(p) \/ CleanStaleStaging(p) \/ Download(p)
  \/ PrepareStorePath(p) \/ SyncDemotion(p) \/ DiscardWiped(p)
  \/ Unpack(p) \/ UnpackDone(p) \/ SyncTree(p) \/ Promote(p)
  \/ SyncPromotion(p)

Fail(p) == FailEarly(p) \/ FailStaged(p) \/ FailDelete(p) \/ Kill(p)

Next ==
  \/ \E p \in Procs : \/ Begin(p) \/ AlreadyInitialized(p) \/ AcquireLock(p)
                      \/ Work(p) \/ Fail(p)
  \/ Mount
  \/ PowerLoss

Spec == Init /\ [][Next]_vars

\* A process that holds the lock keeps running; nobody is obliged to start one.
FairSpec == Spec /\ \A p \in Procs : WF_vars(Work(p))

-----------------------------------------------------------------------------
\* "The device never mistakes a partially installed store for a valid one":
\* neither now nor after a power loss is a tree that is not whole visible
\* under the trusted name "nix".
VisibleStoreIsWhole ==
  \A r \in disk \cup {root} : r.nix # Absent => r.nix.whole

\* A run that promoted a store and returned Ok leaves that very store, whatever
\* happens afterwards short of another wipe.
InstalledStays ==
  installed # None =>
    \A r \in disk \cup {root} : r.nix = [of |-> installed, whole |-> TRUE]

\* An initializer never keeps the init lock: each run that takes it ends.
LockIsReleased == \A p \in Procs : lock = p ~> lock # p

\* The next two are what comments say and the code does not keep; no run checks
\* them (README, section 5).
\* store.rs, init_store: "never wipe the store while /nix is the active mount
\* backed by it": the trusted name is not moved away under a live mount.
NoWipeUnderMount ==
  [][mounted /\ mounted' => root'.nix = root.nix]_<<root, mounted>>

\* store.rs, prepare_promoted_store_path: "demote the trusted name first, make
\* the demotion durable, and only then delete": while files under nix.wiped
\* disappear, no image on disk still shows that store under the name nix.
DeletedOnlyOnceDemotionIsDurable ==
  [][root.wiped # Absent /\ root'.wiped # root.wiped =>
       \A r \in disk : r.nix = Absent]_<<root, disk>>
=============================================================================
