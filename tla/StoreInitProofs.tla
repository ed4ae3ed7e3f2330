-------------------------- MODULE StoreInitProofs --------------------------
(***************************************************************************)
(* Proofs that the store installation of StoreInit is safe for every       *)
(* number of initializers, tarballs, power losses and faults.              *)
(***************************************************************************)
EXTENDS StoreInit, TLAPS

\* Whoever is past acquire_init_lock holds the lock, so one at a time is.
LockDiscipline == \A p \in Procs : pc[p] \in Holding => lock = p

\* From the mount check to the promotion, the holder's staging tree is what
\* its program counter says, and nothing is visible under "nix" once it may
\* be promoted over.
StagingFollowsHolder ==
  \A p \in Procs :
    /\ pc[p] \in {"unpacked", "synced"} => root.tmp = [of |-> tarball[p], whole |-> TRUE]
    /\ pc[p] = "unpacking" => root.tmp = [of |-> tarball[p], whole |-> FALSE]
    /\ pc[p] = "synced" => flushed
    /\ pc[p] \in {"demoted", "discard", "extract", "unpacking", "unpacked", "synced"}
         => root.nix = Absent
    /\ pc[p] = "promoted" => root.nix = [of |-> tarball[p], whole |-> TRUE]

NowIsOnDisk == root \in disk

\* The inductive invariant.
IInv ==
  /\ TypeOK
  /\ LockDiscipline
  /\ StagingFollowsHolder
  /\ NowIsOnDisk
  /\ VisibleStoreIsWhole
  /\ InstalledStays

\* What the slots of a stage directory are made of.
LEMMA SlotFacts ==
  /\ Absent \in Slot
  /\ \A s \in Slot : Partial(s) \in Slot
  /\ \A t \in Tarballs, b \in BOOLEAN : [of |-> t, whole |-> b] \in Slot
<1>1. Absent \in Slot
  BY DEF Slot, Absent
<1>2. ASSUME NEW s \in Slot PROVE Partial(s) \in Slot
  BY DEF Slot, Partial
<1>3. ASSUME NEW t \in Tarballs, NEW b \in BOOLEAN
      PROVE  [of |-> t, whole |-> b] \in Slot
  BY DEF Slot
<1> QED BY <1>1, <1>2, <1>3

\* A stage directory stays one when any of its names is rebound to a slot.
LEMMA DirFacts ==
  ASSUME NEW r \in StageDir, NEW s \in Slot, NEW t \in Slot
  PROVE  /\ r.nix \in Slot /\ r.tmp \in Slot /\ r.wiped \in Slot
         /\ [r EXCEPT !.nix = s] \in StageDir
         /\ [r EXCEPT !.tmp = s] \in StageDir
         /\ [r EXCEPT !.wiped = s] \in StageDir
         /\ [r EXCEPT !.nix = s, !.tmp = t] \in StageDir
         /\ [r EXCEPT !.wiped = s, !.nix = t] \in StageDir
         /\ [r EXCEPT !.tmp = s, !.wiped = t] \in StageDir
BY DEF StageDir

\* Delete only rebinds the names it is given.
LEMMA DeleteTyped ==
  ASSUME TypeOK, NEW fs, Delete(fs)
  PROVE  root' \in StageDir /\ disk' \subseteq StageDir
<1>1. Absent \in Slot /\ Partial(root.tmp) \in Slot /\ Partial(root.wiped) \in Slot
      /\ root.nix \in Slot /\ root.tmp \in Slot /\ root.wiped \in Slot
  BY SlotFacts, DirFacts DEF TypeOK
<1>2. \A a, b, c \in Slot : [nix |-> a, tmp |-> b, wiped |-> c] \in StageDir
  BY DEF StageDir
<1> QED BY <1>1, <1>2 DEF Delete, TypeOK

\* The initial stage directory is typed.
LEMMA InitTyped == Init => TypeOK
<1> SUFFICES ASSUME Init PROVE TypeOK
  OBVIOUS
<1>1. Empty \in StageDir
  BY SlotFacts DEF Empty, StageDir
<1>2. wipe \in [Procs -> BOOLEAN]
  BY Zenon DEF Init
<1>3. pc \in [Procs -> Stages]
  BY DEF Init, Stages
<1>4. root \in StageDir /\ disk \subseteq StageDir
  BY <1>1 DEF Init
<1>5. powerLosses \in 0..MaxPowerLosses /\ faults \in 0..MaxFaults
  BY BoundsAreNat DEF Init
<1> QED BY <1>2, <1>3, <1>4, <1>5, Zenon DEF Init, TypeOK

\* Every step keeps the stage directory, its images and the processes typed.
LEMMA StepTyped == TypeOK /\ [Next]_vars => TypeOK'
<1> SUFFICES ASSUME TypeOK, [Next]_vars PROVE TypeOK'
  OBVIOUS
<1> USE BoundsAreNat DEF Stages, Write, Sync, Goto, Fault, Return
<1>1. ASSUME NEW p \in Procs, Begin(p) PROVE TypeOK'
  BY <1>1 DEF TypeOK, Begin
<1>2. ASSUME NEW p \in Procs, AlreadyInitialized(p) PROVE TypeOK'
  BY <1>2 DEF TypeOK, AlreadyInitialized, vars
<1>3. ASSUME NEW p \in Procs, AcquireLock(p) PROVE TypeOK'
  BY <1>3 DEF TypeOK, AcquireLock
<1>4. ASSUME NEW p \in Procs, EnsureWipeUnmounted(p) PROVE TypeOK'
  BY <1>4 DEF TypeOK, EnsureWipeUnmounted
<1>5. ASSUME NEW p \in Procs, Download(p) PROVE TypeOK'
  BY <1>5 DEF TypeOK, Download
<1>6. ASSUME NEW p \in Procs, SyncDemotion(p) PROVE TypeOK'
  BY <1>6 DEF TypeOK, SyncDemotion
<1>7. ASSUME NEW p \in Procs, SyncTree(p) PROVE TypeOK'
  BY <1>7 DEF TypeOK, SyncTree
<1>8. ASSUME NEW p \in Procs, SyncPromotion(p) PROVE TypeOK'
  BY <1>8 DEF TypeOK, SyncPromotion
<1>9. ASSUME NEW p \in Procs, FailEarly(p) PROVE TypeOK'
  BY <1>9 DEF TypeOK, FailEarly
<1>10. ASSUME NEW p \in Procs, Kill(p) PROVE TypeOK'
  BY <1>10 DEF TypeOK, Kill
<1>11. ASSUME NEW p \in Procs, CleanStaleStaging(p) PROVE TypeOK'
  <2>1. root' \in StageDir /\ disk' \subseteq StageDir
    BY <1>11, SlotFacts, DirFacts, DeleteTyped DEF TypeOK, CleanStaleStaging
  <2> QED BY <1>11, <2>1 DEF TypeOK, CleanStaleStaging
<1>12. ASSUME NEW p \in Procs, PrepareStorePath(p) PROVE TypeOK'
  <2>1. root' \in StageDir /\ disk' \subseteq StageDir
    <3>1. [root EXCEPT !.wiped = root.nix, !.nix = Absent] \in StageDir
      BY SlotFacts, DirFacts DEF TypeOK
    <3> QED BY <1>12, <3>1 DEF TypeOK, PrepareStorePath
  <2> QED BY <1>12, <2>1 DEF TypeOK, PrepareStorePath
<1>13. ASSUME NEW p \in Procs, DiscardWiped(p) PROVE TypeOK'
  <2>1. root' \in StageDir /\ disk' \subseteq StageDir
    BY <1>13, SlotFacts, DirFacts, DeleteTyped DEF TypeOK, DiscardWiped
  <2> QED BY <1>13, <2>1 DEF TypeOK, DiscardWiped
<1>14. ASSUME NEW p \in Procs, Unpack(p) PROVE TypeOK'
  <2>1. root' \in StageDir /\ disk' \subseteq StageDir
    BY <1>14, SlotFacts, DirFacts DEF TypeOK, Unpack
  <2> QED BY <1>14, <2>1 DEF TypeOK, Unpack
<1>15. ASSUME NEW p \in Procs, UnpackDone(p) PROVE TypeOK'
  <2>1. root' \in StageDir /\ disk' \subseteq StageDir
    BY <1>15, SlotFacts, DirFacts DEF TypeOK, UnpackDone
  <2> QED BY <1>15, <2>1 DEF TypeOK, UnpackDone
<1>16. ASSUME NEW p \in Procs, Promote(p) PROVE TypeOK'
  <2>1. root' \in StageDir /\ disk' \subseteq StageDir
    <3> DEFINE r == [root EXCEPT !.nix = root.tmp, !.tmp = Absent]
    <3>1. r \in StageDir
      BY SlotFacts, DirFacts DEF TypeOK
    <3>2. [r EXCEPT !.nix = Partial(r.nix)] \in StageDir
      BY <3>1, SlotFacts, DirFacts
    <3> HIDE DEF r
    <3> QED BY <1>16, <3>1, <3>2 DEF TypeOK, Promote, r
  <2> QED BY <1>16, <2>1 DEF TypeOK, Promote
<1>17. ASSUME NEW p \in Procs, FailStaged(p) PROVE TypeOK'
  <2>1. root' \in StageDir /\ disk' \subseteq StageDir
    BY <1>17, SlotFacts, DirFacts, DeleteTyped DEF TypeOK, FailStaged
  <2> QED BY <1>17, <2>1 DEF TypeOK, FailStaged
<1>18. ASSUME NEW p \in Procs, FailDelete(p) PROVE TypeOK'
  <2>1. root' \in StageDir /\ disk' \subseteq StageDir
    <3>1. [root EXCEPT !.tmp = Partial(root.tmp), !.wiped = Partial(root.wiped)] \in StageDir
      BY SlotFacts, DirFacts DEF TypeOK
    <3>2. [root EXCEPT !.wiped = Partial(root.wiped)] \in StageDir
      BY SlotFacts, DirFacts DEF TypeOK
    <3> QED BY <1>18, <3>1, <3>2 DEF TypeOK, FailDelete
  <2> QED BY <1>18, <2>1 DEF TypeOK, FailDelete
<1>19. CASE Mount
  BY <1>19 DEF TypeOK, Mount
<1>20. CASE PowerLoss
  <2>1. root' \in StageDir /\ disk' \subseteq StageDir
    BY <1>20 DEF PowerLoss, TypeOK
  <2>2. pc' \in [Procs -> Stages] /\ powerLosses' \in 0..MaxPowerLosses
    BY <1>20 DEF PowerLoss, TypeOK
  <2> QED BY <1>20, <2>1, <2>2 DEF TypeOK, PowerLoss
<1>21. CASE UNCHANGED vars
  BY <1>21 DEF TypeOK, vars
<1> QED
  BY <1>1, <1>2, <1>3, <1>4, <1>5, <1>6, <1>7, <1>8, <1>9, <1>10, <1>11, <1>12,
     <1>13, <1>14, <1>15, <1>16, <1>17, <1>18, <1>19, <1>20, <1>21 DEF Next, Work, Fail

\* Every run keeps the stage directory, its images and the processes typed.
THEOREM TypeCorrect == Spec => []TypeOK
BY InitTyped, StepTyped, PTL DEF Spec

\* Deleting staging names leaves the trusted name alone, in every image.
LEMMA DeleteKeepsNix ==
  ASSUME TypeOK, NEW fs, Delete(fs)
  PROVE  /\ root'.nix = root.nix
         /\ root' \in disk'
         /\ disk \subseteq disk'
         /\ \A r \in disk' : r \in disk \/ r.nix = root.nix
BY DEF Delete, TypeOK, StageDir

\* What the names hold after a rebinding.
LEMMA Rebound ==
  ASSUME NEW r \in StageDir, NEW s, NEW t
  PROVE  /\ [r EXCEPT !.tmp = s].nix = r.nix
         /\ [r EXCEPT !.tmp = s].tmp = s
         /\ [r EXCEPT !.wiped = s].nix = r.nix
         /\ [r EXCEPT !.tmp = s, !.wiped = t].nix = r.nix
         /\ [r EXCEPT !.nix = s, !.tmp = t].nix = s
         /\ [r EXCEPT !.wiped = s, !.nix = t].nix = t
BY DEF StageDir

\* No step of an initializer, power loss, kill or I/O error leaves the invariant.
THEOREM InstallationInvariant == Spec => []IInv
<1>1. Init => IInv
  <2> SUFFICES ASSUME Init PROVE IInv
    OBVIOUS
  <2>1. TypeOK
    BY InitTyped
  <2> QED BY <2>1 DEF Init, IInv, LockDiscipline, StagingFollowsHolder, NowIsOnDisk,
             VisibleStoreIsWhole, InstalledStays, Holding, Stages, Empty
<1>2. IInv /\ [Next]_vars => IInv'
  <2> SUFFICES ASSUME IInv, [Next]_vars PROVE IInv'
    OBVIOUS
  <2> TypeOK /\ TypeOK'
    BY StepTyped DEF IInv
  <2> USE NoneIsFresh DEF Holding, Stages, Goto, Return, Write, Sync
  <2>1. ASSUME NEW p \in Procs, Begin(p) PROVE IInv'
    <3>1. LockDiscipline'
      BY <2>1 DEF IInv, TypeOK, LockDiscipline, Begin
    <3>2. StagingFollowsHolder'
      BY <2>1 DEF IInv, TypeOK, LockDiscipline, StagingFollowsHolder, Begin
    <3>3. NowIsOnDisk' /\ VisibleStoreIsWhole' /\ InstalledStays'
      BY <2>1 DEF IInv, TypeOK, StagingFollowsHolder, NowIsOnDisk, VisibleStoreIsWhole,
         InstalledStays, Begin
    <3> QED BY <3>1, <3>2, <3>3 DEF IInv
  <2>2. ASSUME NEW p \in Procs, AlreadyInitialized(p) PROVE IInv'
    <3>1. LockDiscipline'
      BY <2>2 DEF IInv, TypeOK, LockDiscipline, AlreadyInitialized, vars
    <3>2. StagingFollowsHolder'
      BY <2>2 DEF IInv, TypeOK, LockDiscipline, StagingFollowsHolder, AlreadyInitialized, vars
    <3>3. NowIsOnDisk' /\ VisibleStoreIsWhole' /\ InstalledStays'
      BY <2>2 DEF IInv, TypeOK, StagingFollowsHolder, NowIsOnDisk, VisibleStoreIsWhole,
         InstalledStays, AlreadyInitialized, vars
    <3> QED BY <3>1, <3>2, <3>3 DEF IInv
  <2>3. ASSUME NEW p \in Procs, AcquireLock(p) PROVE IInv'
    <3>1. LockDiscipline'
      BY <2>3 DEF IInv, TypeOK, LockDiscipline, AcquireLock
    <3>2. StagingFollowsHolder'
      BY <2>3 DEF IInv, TypeOK, LockDiscipline, StagingFollowsHolder, AcquireLock
    <3>3. NowIsOnDisk' /\ VisibleStoreIsWhole' /\ InstalledStays'
      BY <2>3 DEF IInv, TypeOK, StagingFollowsHolder, NowIsOnDisk, VisibleStoreIsWhole,
         InstalledStays, AcquireLock
    <3> QED BY <3>1, <3>2, <3>3 DEF IInv
  <2>4. ASSUME NEW p \in Procs, EnsureWipeUnmounted(p) PROVE IInv'
    <3>1. LockDiscipline'
      BY <2>4 DEF IInv, TypeOK, LockDiscipline, EnsureWipeUnmounted
    <3>2. StagingFollowsHolder'
      BY <2>4 DEF IInv, TypeOK, LockDiscipline, StagingFollowsHolder, EnsureWipeUnmounted
    <3>3. NowIsOnDisk' /\ VisibleStoreIsWhole' /\ InstalledStays'
      BY <2>4 DEF IInv, TypeOK, StagingFollowsHolder, NowIsOnDisk, VisibleStoreIsWhole,
         InstalledStays, EnsureWipeUnmounted
    <3> QED BY <3>1, <3>2, <3>3 DEF IInv
  <2>5. ASSUME NEW p \in Procs, CleanStaleStaging(p) PROVE IInv'
    <3>1. LockDiscipline'
      BY <2>5 DEF IInv, TypeOK, LockDiscipline, CleanStaleStaging
    <3>2. StagingFollowsHolder'
      BY <2>5, DeleteKeepsNix DEF IInv, TypeOK, LockDiscipline, StagingFollowsHolder, CleanStaleStaging
    <3>3. NowIsOnDisk' /\ VisibleStoreIsWhole' /\ InstalledStays'
      BY <2>5, DeleteKeepsNix DEF IInv, TypeOK, StagingFollowsHolder, NowIsOnDisk, VisibleStoreIsWhole,
         InstalledStays, CleanStaleStaging
    <3> QED BY <3>1, <3>2, <3>3 DEF IInv
  <2>6. ASSUME NEW p \in Procs, Download(p) PROVE IInv'
    <3>1. LockDiscipline'
      BY <2>6 DEF IInv, TypeOK, LockDiscipline, Download
    <3>2. StagingFollowsHolder'
      BY <2>6 DEF IInv, TypeOK, LockDiscipline, StagingFollowsHolder, Download
    <3>3. NowIsOnDisk' /\ VisibleStoreIsWhole' /\ InstalledStays'
      BY <2>6 DEF IInv, TypeOK, StagingFollowsHolder, NowIsOnDisk, VisibleStoreIsWhole,
         InstalledStays, Download
    <3> QED BY <3>1, <3>2, <3>3 DEF IInv
  <2>7. ASSUME NEW p \in Procs, PrepareStorePath(p) PROVE IInv'
    <3>0. \/ /\ UNCHANGED <<root, disk, installed>>
             /\ \/ pc' = [pc EXCEPT ![p] = "extract"] /\ root.nix = Absent
                \/ pc' = [pc EXCEPT ![p] = "idle"]
          \/ /\ root' \in disk' /\ disk' = disk \cup {root'}
             /\ root'.nix = Absent /\ installed' = None
             /\ pc' = [pc EXCEPT ![p] = "demoted"]
      <4>1. [root EXCEPT !.wiped = root.nix, !.nix = Absent].nix = Absent
        BY Rebound DEF TypeOK
      <4> QED BY <2>7, <4>1 DEF PrepareStorePath
    <3>1. LockDiscipline'
      BY <2>7 DEF IInv, TypeOK, LockDiscipline, PrepareStorePath
    <3>2. StagingFollowsHolder'
      <4>0. UNCHANGED <<flushed, tarball>> /\ pc[p] = "prepare"
        BY <2>7 DEF PrepareStorePath
      <4>1. CASE /\ UNCHANGED root
                 /\ \/ pc' = [pc EXCEPT ![p] = "extract"] /\ root.nix = Absent
                    \/ pc' = [pc EXCEPT ![p] = "idle"]
        BY <4>0, <4>1 DEF IInv, TypeOK, LockDiscipline, StagingFollowsHolder
      <4>2. CASE root'.nix = Absent /\ pc' = [pc EXCEPT ![p] = "demoted"]
        BY <4>0, <4>2 DEF IInv, TypeOK, LockDiscipline, StagingFollowsHolder
      <4> QED BY <3>0, <4>1, <4>2
    <3>3. NowIsOnDisk' /\ VisibleStoreIsWhole' /\ InstalledStays'
      BY <2>7, <3>0 DEF IInv, TypeOK, StagingFollowsHolder, NowIsOnDisk, VisibleStoreIsWhole,
         InstalledStays, PrepareStorePath
    <3> QED BY <3>1, <3>2, <3>3 DEF IInv
  <2>8. ASSUME NEW p \in Procs, SyncDemotion(p) PROVE IInv'
    <3>1. LockDiscipline'
      BY <2>8 DEF IInv, TypeOK, LockDiscipline, SyncDemotion
    <3>2. StagingFollowsHolder'
      BY <2>8 DEF IInv, TypeOK, LockDiscipline, StagingFollowsHolder, SyncDemotion
    <3>3. NowIsOnDisk' /\ VisibleStoreIsWhole' /\ InstalledStays'
      BY <2>8 DEF IInv, TypeOK, StagingFollowsHolder, NowIsOnDisk, VisibleStoreIsWhole,
         InstalledStays, SyncDemotion
    <3> QED BY <3>1, <3>2, <3>3 DEF IInv
  <2>9. ASSUME NEW p \in Procs, DiscardWiped(p) PROVE IInv'
    <3>1. LockDiscipline'
      BY <2>9 DEF IInv, TypeOK, LockDiscipline, DiscardWiped
    <3>2. StagingFollowsHolder'
      BY <2>9, DeleteKeepsNix DEF IInv, TypeOK, LockDiscipline, StagingFollowsHolder, DiscardWiped
    <3>3. NowIsOnDisk' /\ VisibleStoreIsWhole' /\ InstalledStays'
      BY <2>9, DeleteKeepsNix DEF IInv, TypeOK, StagingFollowsHolder, NowIsOnDisk, VisibleStoreIsWhole,
         InstalledStays, DiscardWiped
    <3> QED BY <3>1, <3>2, <3>3 DEF IInv
  <2>10. ASSUME NEW p \in Procs, Unpack(p) PROVE IInv'
    <3>0. /\ root'.nix = root.nix
          /\ root'.tmp = [of |-> tarball[p], whole |-> FALSE]
          /\ disk' = disk \cup {root'}
      BY <2>10, Rebound DEF Unpack, TypeOK
    <3>1. LockDiscipline'
      BY <2>10 DEF IInv, TypeOK, LockDiscipline, Unpack
    <3>2. StagingFollowsHolder'
      BY <2>10, <3>0 DEF IInv, TypeOK, LockDiscipline, StagingFollowsHolder, Unpack
    <3>3. NowIsOnDisk' /\ VisibleStoreIsWhole' /\ InstalledStays'
      BY <2>10, <3>0 DEF IInv, TypeOK, StagingFollowsHolder, NowIsOnDisk, VisibleStoreIsWhole,
         InstalledStays, Unpack
    <3> QED BY <3>1, <3>2, <3>3 DEF IInv
  <2>11. ASSUME NEW p \in Procs, UnpackDone(p) PROVE IInv'
    <3>0. /\ root'.nix = root.nix
          /\ root'.tmp = [of |-> tarball[p], whole |-> TRUE]
          /\ disk' = disk \cup {root'}
      BY <2>11, Rebound DEF UnpackDone, TypeOK
    <3>1. LockDiscipline'
      BY <2>11 DEF IInv, TypeOK, LockDiscipline, UnpackDone
    <3>2. StagingFollowsHolder'
      BY <2>11, <3>0 DEF IInv, TypeOK, LockDiscipline, StagingFollowsHolder, UnpackDone
    <3>3. NowIsOnDisk' /\ VisibleStoreIsWhole' /\ InstalledStays'
      BY <2>11, <3>0 DEF IInv, TypeOK, StagingFollowsHolder, NowIsOnDisk, VisibleStoreIsWhole,
         InstalledStays, UnpackDone
    <3> QED BY <3>1, <3>2, <3>3 DEF IInv
  <2>12. ASSUME NEW p \in Procs, SyncTree(p) PROVE IInv'
    <3>1. LockDiscipline'
      BY <2>12 DEF IInv, TypeOK, LockDiscipline, SyncTree
    <3>2. StagingFollowsHolder'
      BY <2>12 DEF IInv, TypeOK, LockDiscipline, StagingFollowsHolder, SyncTree
    <3>3. NowIsOnDisk' /\ VisibleStoreIsWhole' /\ InstalledStays'
      BY <2>12 DEF IInv, TypeOK, StagingFollowsHolder, NowIsOnDisk, VisibleStoreIsWhole,
         InstalledStays, SyncTree
    <3> QED BY <3>1, <3>2, <3>3 DEF IInv
  <2>13. ASSUME NEW p \in Procs, Promote(p) PROVE IInv'
    <3>0. /\ root'.nix = root.tmp
          /\ root.tmp = [of |-> tarball[p], whole |-> TRUE]
          /\ disk' = disk \cup {root'}
          /\ installed = None /\ installed' = None
      <4>1. installed = None
        BY <2>13 DEF Promote, IInv, InstalledStays, Absent
      <4>2. flushed /\ root.tmp = [of |-> tarball[p], whole |-> TRUE]
        BY <2>13 DEF Promote, IInv, StagingFollowsHolder
      <4>3. [root EXCEPT !.nix = root.tmp, !.tmp = Absent].nix = root.tmp
        BY Rebound DEF TypeOK
      <4> QED BY <2>13, <4>1, <4>2, <4>3 DEF Promote
    <3>1. LockDiscipline'
      BY <2>13 DEF IInv, TypeOK, LockDiscipline, Promote
    <3>2. StagingFollowsHolder'
      <4>1. pc' = [pc EXCEPT ![p] = "promoted"] /\ UNCHANGED tarball /\ pc[p] \in Holding
        BY <2>13 DEF Promote
      <4>2. \A q \in Procs \ {p} : pc'[q] \notin Holding
        BY <4>1 DEF IInv, TypeOK, LockDiscipline
      <4>3. pc'[p] = "promoted"
        BY <4>1 DEF TypeOK
      <4> QED BY <3>0, <4>1, <4>2, <4>3 DEF StagingFollowsHolder
    <3>3. NowIsOnDisk' /\ VisibleStoreIsWhole' /\ InstalledStays'
      BY <3>0 DEF IInv, NowIsOnDisk, VisibleStoreIsWhole, InstalledStays
    <3> QED BY <3>1, <3>2, <3>3 DEF IInv
  <2>14. ASSUME NEW p \in Procs, SyncPromotion(p) PROVE IInv'
    <3>1. LockDiscipline'
      BY <2>14 DEF IInv, TypeOK, LockDiscipline, SyncPromotion
    <3>2. StagingFollowsHolder'
      BY <2>14 DEF IInv, TypeOK, LockDiscipline, StagingFollowsHolder, SyncPromotion
    <3>3. NowIsOnDisk' /\ VisibleStoreIsWhole' /\ InstalledStays'
      BY <2>14 DEF IInv, TypeOK, StagingFollowsHolder, NowIsOnDisk, VisibleStoreIsWhole,
         InstalledStays, SyncPromotion
    <3> QED BY <3>1, <3>2, <3>3 DEF IInv
  <2>15. ASSUME NEW p \in Procs, FailEarly(p) PROVE IInv'
    <3>1. LockDiscipline'
      BY <2>15 DEF IInv, TypeOK, LockDiscipline, FailEarly
    <3>2. StagingFollowsHolder'
      BY <2>15 DEF IInv, TypeOK, LockDiscipline, StagingFollowsHolder, FailEarly
    <3>3. NowIsOnDisk' /\ VisibleStoreIsWhole' /\ InstalledStays'
      BY <2>15 DEF IInv, TypeOK, StagingFollowsHolder, NowIsOnDisk, VisibleStoreIsWhole,
         InstalledStays, FailEarly
    <3> QED BY <3>1, <3>2, <3>3 DEF IInv
  <2>16. ASSUME NEW p \in Procs, FailStaged(p) PROVE IInv'
    <3>0. /\ root'.nix = root.nix
          /\ root' \in disk'
          /\ \A r \in disk' : r \in disk \/ r.nix = root.nix
      <4>1. [root EXCEPT !.tmp = Partial(root.tmp)].nix = root.nix
        BY Rebound DEF TypeOK
      <4> QED BY <2>16, <4>1, DeleteKeepsNix DEF FailStaged
    <3>1. LockDiscipline'
      BY <2>16 DEF IInv, TypeOK, LockDiscipline, FailStaged
    <3>2. StagingFollowsHolder'
      BY <2>16, <3>0, DeleteKeepsNix DEF IInv, TypeOK, LockDiscipline, StagingFollowsHolder, FailStaged
    <3>3. NowIsOnDisk' /\ VisibleStoreIsWhole' /\ InstalledStays'
      BY <2>16, <3>0, DeleteKeepsNix DEF IInv, TypeOK, StagingFollowsHolder, NowIsOnDisk, VisibleStoreIsWhole,
         InstalledStays, FailStaged
    <3> QED BY <3>1, <3>2, <3>3 DEF IInv
  <2>17. ASSUME NEW p \in Procs, FailDelete(p) PROVE IInv'
    <3>0. /\ root'.nix = root.nix
          /\ disk' = disk \cup {root'}
      <4>1. [root EXCEPT !.tmp = Partial(root.tmp), !.wiped = Partial(root.wiped)].nix = root.nix
        BY Rebound DEF TypeOK
      <4>2. [root EXCEPT !.wiped = Partial(root.wiped)].nix = root.nix
        BY Rebound DEF TypeOK
      <4> QED BY <2>17, <4>1, <4>2 DEF FailDelete
    <3>1. LockDiscipline'
      BY <2>17 DEF IInv, TypeOK, LockDiscipline, FailDelete
    <3>2. StagingFollowsHolder'
      BY <2>17, <3>0 DEF IInv, TypeOK, LockDiscipline, StagingFollowsHolder, FailDelete
    <3>3. NowIsOnDisk' /\ VisibleStoreIsWhole' /\ InstalledStays'
      BY <2>17, <3>0 DEF IInv, TypeOK, StagingFollowsHolder, NowIsOnDisk, VisibleStoreIsWhole,
         InstalledStays, FailDelete
    <3> QED BY <3>1, <3>2, <3>3 DEF IInv
  <2>18. ASSUME NEW p \in Procs, Kill(p) PROVE IInv'
    <3>1. LockDiscipline'
      BY <2>18 DEF IInv, TypeOK, LockDiscipline, Kill
    <3>2. StagingFollowsHolder'
      BY <2>18 DEF IInv, TypeOK, LockDiscipline, StagingFollowsHolder, Kill
    <3>3. NowIsOnDisk' /\ VisibleStoreIsWhole' /\ InstalledStays'
      BY <2>18 DEF IInv, TypeOK, StagingFollowsHolder, NowIsOnDisk, VisibleStoreIsWhole,
         InstalledStays, Kill
    <3> QED BY <3>1, <3>2, <3>3 DEF IInv
  <2>19. CASE Mount
    <3>1. LockDiscipline'
      BY <2>19 DEF IInv, TypeOK, LockDiscipline, Mount
    <3>2. StagingFollowsHolder'
      BY <2>19 DEF IInv, TypeOK, LockDiscipline, StagingFollowsHolder, Mount
    <3>3. NowIsOnDisk' /\ VisibleStoreIsWhole' /\ InstalledStays'
      BY <2>19 DEF IInv, TypeOK, StagingFollowsHolder, NowIsOnDisk, VisibleStoreIsWhole,
         InstalledStays, Mount
    <3> QED BY <3>1, <3>2, <3>3 DEF IInv
  <2>20. CASE PowerLoss
    <3>0. /\ root' \in disk /\ disk' = {root'} /\ installed' = installed
          /\ pc' = [p \in Procs |-> "idle"]
      BY <2>20 DEF PowerLoss
    <3>1. LockDiscipline'
      BY <2>20 DEF IInv, TypeOK, LockDiscipline, PowerLoss
    <3>2. StagingFollowsHolder'
      <4>1. \A p \in Procs : pc'[p] = "idle"
        BY <3>0
      <4> QED BY <4>1 DEF StagingFollowsHolder
    <3>3. NowIsOnDisk' /\ VisibleStoreIsWhole' /\ InstalledStays'
      BY <3>0 DEF IInv, NowIsOnDisk, VisibleStoreIsWhole, InstalledStays
    <3> QED BY <3>1, <3>2, <3>3 DEF IInv
  <2>21. CASE UNCHANGED vars
    <3>1. LockDiscipline'
      BY <2>21 DEF IInv, TypeOK, LockDiscipline, vars
    <3>2. StagingFollowsHolder'
      BY <2>21 DEF IInv, TypeOK, LockDiscipline, StagingFollowsHolder, vars
    <3>3. NowIsOnDisk' /\ VisibleStoreIsWhole' /\ InstalledStays'
      BY <2>21 DEF IInv, TypeOK, StagingFollowsHolder, NowIsOnDisk, VisibleStoreIsWhole,
         InstalledStays, vars
    <3> QED BY <3>1, <3>2, <3>3 DEF IInv
  <2> QED
    BY <2>1, <2>2, <2>3, <2>4, <2>5, <2>6, <2>7, <2>8, <2>9, <2>10, <2>11, <2>12,
       <2>13, <2>14, <2>15, <2>16, <2>17, <2>18, <2>19, <2>20, <2>21 DEF Next, Work, Fail
<1> QED BY <1>1, <1>2, PTL DEF Spec

\* VisibleStoreIsWhole for any bounds: no power loss, kill or I/O error, at any
\* point of any interleaving of initializers, makes a partial tree visible as "nix".
THEOREM InstallationIsSafe == Spec => []VisibleStoreIsWhole
<1>1. IInv => VisibleStoreIsWhole
  BY DEF IInv
<1> QED BY <1>1, InstallationInvariant, PTL

\* InstalledStays for any bounds: init_store takes back no store that it reported,
\* though later initializers run, fail and are killed beside it.
THEOREM InstalledIsKept == Spec => []InstalledStays
<1>1. IInv => InstalledStays
  BY DEF IInv
<1> QED BY <1>1, InstallationInvariant, PTL
=============================================================================
