--------------------------- MODULE ProfileProofs ----------------------------
(***************************************************************************)
(* Safety of the profile directory, for every number of firmware versions, *)
(* generations, faults and power losses: it is well typed, and whatever is *)
(* killed, fails or loses power, current names a generation that runs, and *)
(* it is the one last reported as applied.                                 *)
(***************************************************************************)
EXTENDS ProfileSystem, WellFoundedInduction, TLAPS

\* A set of numbers in 1..MaxGen that is not empty has a greatest one.
LEMMA Greatest ==
  ASSUME NEW S \in SUBSET Gen, S # {}
  PROVE  \E m \in S : \A n \in S : n <= m
<1> DEFINE T == {MaxGen - n : n \in S}
<1>0. MaxGen \in Nat /\ \A n \in S : n \in Nat /\ n <= MaxGen
  BY ProfileBounds DEF Gen
<1>1. T \subseteq Nat
  BY <1>0
<1>2. T # {}
  OBVIOUS
<1>3. \E x \in T : \A y \in T : ~ (<<y, x>> \in OpToRel(<, Nat))
  BY <1>1, <1>2, WFMin, NatLessThanWellFounded, Zenon
<1>4. PICK x \in T : \A y \in T : ~ (y < x)
  BY <1>1, <1>3, ZenonT(30) DEF OpToRel
<1>5. PICK m \in S : x = MaxGen - m
  OBVIOUS
<1>6. ASSUME NEW n \in S PROVE n <= m
  <2>1. ~ (MaxGen - n < MaxGen - m)
    BY <1>4, <1>5
  <2>2. QED BY <2>1, <1>0
<1>7. QED BY <1>6

\* max_generation returns the highest generation number, or none.
LEMMA LatestFacts ==
  ASSUME NEW d
  PROVE  /\ Latest(d) \in GenOrNone
         /\ \A g \in Generations(d) : g <= Latest(d)
<1>1. CASE Generations(d) = {}
  BY <1>1, ProfileBounds DEF Latest, NoGen, GenOrNone
<1>2. CASE Generations(d) # {}
  <2>1. Generations(d) \in SUBSET Gen
    BY DEF Generations
  <2>2. \E m \in Generations(d) : \A n \in Generations(d) : n <= m
    BY <2>1, <1>2, Greatest
  <2>3. /\ Latest(d) \in Generations(d)
        /\ \A g \in Generations(d) : g <= Latest(d)
    BY <2>2, <1>2 DEF Latest
  <2>4. QED BY <2>1, <2>3, ProfileBounds DEF Gen, GenOrNone
<1>3. QED BY <1>1, <1>2

-----------------------------------------------------------------------------
(* Types *)

\* A directory has its three fields.
LEMMA DirFields ==
  ASSUME NEW d \in Dir
  PROVE  /\ d.gen \in [Gen -> Content]
         /\ d.current \in GenOrNone
         /\ d.next \in [Versions -> GenOrNone]
  BY DEF Dir

\* What WithGen, WithCurrent and WithNext change, and what they keep.
LEMMA WithGenFacts ==
  ASSUME NEW d \in Dir, NEW g \in GenOrNone, NEW c \in Content
  PROVE  /\ WithGen(d, g, c) \in Dir
         /\ WithGen(d, g, c).current = d.current
         /\ WithGen(d, g, c).next = d.next
         /\ \A h \in Gen : WithGen(d, g, c).gen[h] = IF h = g THEN c ELSE d.gen[h]
  BY DEF Dir, WithGen

LEMMA WithCurrentFacts ==
  ASSUME NEW d \in Dir, NEW g \in GenOrNone
  PROVE  /\ WithCurrent(d, g) \in Dir
         /\ WithCurrent(d, g).current = g
         /\ WithCurrent(d, g).next = d.next
         /\ WithCurrent(d, g).gen = d.gen
  BY DEF Dir, WithCurrent

LEMMA WithNextFacts ==
  ASSUME NEW d \in Dir, NEW v, NEW g \in GenOrNone
  PROVE  /\ WithNext(d, v, g) \in Dir
         /\ WithNext(d, v, g).current = d.current
         /\ WithNext(d, v, g).gen = d.gen
         /\ \A w \in Versions : WithNext(d, v, g).next[w] = IF w = v THEN g ELSE d.next[w]
  BY DEF Dir, WithNext

LEMMA RemainsAreContents ==
  ASSUME NEW c
  PROVE  Remains(c) \subseteq Content
  BY DEF Remains, Content

\* TypeOK in four parts: the directory, the operation, the ghosts, the rest.
DirTyped == dir \in Dir /\ persisted \subseteq Dir /\ flushed \in BOOLEAN
OpTyped ==
  /\ pc \in Steps /\ kind \in Kinds /\ mode \in Modes /\ phase \in Phases
  /\ ver \in Versions \cup {Unknown}
  /\ built \in GenOrNone /\ prev \in GenOrNone /\ floor \in GenOrNone
  /\ target \in GenOrNone /\ old \in GenOrNone
  /\ doomed \subseteq Gen /\ swept \subseteq Gen
GhostsTyped ==
  /\ acked \in GenOrNone /\ live \in GenOrNone /\ retired \subseteq GenOrNone
  /\ staged \in [Versions -> GenOrNone]
EnvTyped ==
  /\ fw \in Versions \cup {Unknown} /\ mishaps \in 0..2
  /\ faults \in 0..MaxFaults /\ powerLosses \in 0..MaxPowerLosses

LEMMA TypeParts == TypeOK <=> DirTyped /\ OpTyped /\ GhostsTyped /\ EnvTyped
  BY DEF TypeOK, DirTyped, OpTyped, GhostsTyped, EnvTyped

LEMMA NoGenTyped == NoGen \in GenOrNone /\ Gen \subseteq GenOrNone
  BY ProfileBounds DEF NoGen, Gen, GenOrNone

\* Every sync, and every change to a directory, leaves directories behind.
LEMMA SettleTyped ==
  ASSUME DirTyped, Settle
  PROVE  dir' \in Dir /\ persisted' \subseteq Dir
  BY DEF DirTyped, Settle

LEMMA ChangeTyped ==
  ASSUME DirTyped, NEW d \in Dir, NEW P \in SUBSET Dir, Change(d, P)
  PROVE  dir' \in Dir /\ persisted' \subseteq Dir
  BY DEF DirTyped, Change

LEMMA RemovalTyped ==
  ASSUME DirTyped, NEW g \in Gen, RemoveGeneration(g) \/ RemovalFails(g)
  PROVE  dir' \in Dir /\ persisted' \subseteq Dir
<1>0. /\ dir \in Dir /\ g \in GenOrNone /\ dir.gen[g] \in Content
      /\ "absent" \in Content /\ Remains(dir.gen[g]) \subseteq Content
  BY DirFields, NoGenTyped, RemainsAreContents DEF DirTyped, Content
<1>1. CASE RemoveGeneration(g)
  <2> DEFINE P == {WithGen(dir, g, c) : c \in Remains(dir.gen[g])}
  <2>1. P \in SUBSET Dir /\ WithGen(dir, g, "absent") \in Dir
    BY <1>0, WithGenFacts
  <2>2. Change(WithGen(dir, g, "absent"), P)
    BY <1>1 DEF RemoveGeneration
  <2>3. QED BY <2>1, <2>2, ChangeTyped
<1>2. CASE RemovalFails(g)
  <2>1. PICK c \in Content : Change(WithGen(dir, g, c), {})
    BY <1>0, <1>2 DEF RemovalFails
  <2>2. WithGen(dir, g, c) \in Dir
    BY <1>0, WithGenFacts
  <2>3. QED BY <2>1, <2>2, ChangeTyped
<1>3. QED BY <1>1, <1>2

LEMMA DirStepTyped == TypeOK /\ [Next]_vars => DirTyped'
<1> SUFFICES ASSUME TypeOK, [Next]_vars PROVE DirTyped'
  OBVIOUS
<1>0. DirTyped /\ OpTyped /\ EnvTyped
  BY TypeParts
<1>1. CASE EntrypointSync \/ FlipSync \/ ConsumeSync \/ SyncTree \/ PublishSync
           \/ SweepSync \/ StageSync \/ Reboot
  <2>1. Settle /\ flushed' \in BOOLEAN
    BY <1>0, <1>1, ZenonT(30) DEF EntrypointSync, FlipSync, ConsumeSync, SyncTree, PublishSync,
       SweepSync, StageSync, Reboot, StartUp, DirTyped
  <2>2. QED BY <1>0, <2>1, SettleTyped DEF DirTyped
<1>2. CASE FlipCurrent
  <2>1. WithCurrent(dir, target) \in Dir
    BY <1>0, WithCurrentFacts DEF DirTyped, OpTyped
  <2>2. dir' \in Dir /\ persisted' \subseteq Dir
    BY <1>0, <1>2, <2>1, ChangeTyped DEF FlipCurrent
  <2>3. QED BY <1>0, <1>2, <2>2 DEF FlipCurrent, DirTyped
<1>3. CASE ConsumeMarker
  BY <1>0, <1>3, WithNextFacts, NoGenTyped, ChangeTyped DEF ConsumeMarker, DirTyped
<1>4. CASE \E v \in Versions : SweepOther(v) \/ SweepMarker(v)
  BY <1>0, <1>4, WithNextFacts, NoGenTyped, ChangeTyped DEF SweepOther, SweepMarker, DirTyped
<1>5. CASE Restore
  <2>1. WithCurrent(dir, old) \in Dir
    BY <1>0, WithCurrentFacts DEF DirTyped, OpTyped
  <2>2. dir' \in Dir /\ persisted' \subseteq Dir
    BY <1>0, <1>5, <2>1, ChangeTyped DEF Restore, DirTyped
  <2>3. QED BY <1>0, <1>5, <2>2 DEF Restore, DirTyped
<1>6. CASE RestoreSync
  BY <1>0, <1>6, SettleTyped DEF RestoreSync, DirTyped
<1>7. CASE Cleanup
  BY <1>0, <1>7, RemovalTyped DEF Cleanup, DirTyped, OpTyped
<1>8. CASE Discard
  BY <1>0, <1>8, RemovalTyped DEF Discard, DirTyped, OpTyped
<1>9. CASE Publish
  <2>1. PICK c \in {"whole", "bare"} :
          Change(WithGen(dir, built, c), IF flushed THEN {} ELSE {WithGen(dir, built, "husk")})
    BY <1>9 DEF Publish
  <2>2. WithGen(dir, built, c) \in Dir /\ WithGen(dir, built, "husk") \in Dir
    BY <1>0, WithGenFacts, ZenonT(30) DEF DirTyped, OpTyped, Content
  <2>3. dir' \in Dir /\ persisted' \subseteq Dir
    BY <1>0, <2>1, <2>2, ChangeTyped
  <2>4. QED BY <1>9, <2>3, ZenonT(30) DEF Publish, DirTyped
<1>10. CASE Stage
  BY <1>0, <1>10, WithNextFacts, ChangeTyped DEF Stage, DirTyped, OpTyped
<1>11. CASE PowerLoss
  BY <1>0, <1>11, ZenonT(30) DEF PowerLoss, StartUp, DirTyped
<1>12. CASE ApplyFails \/ Kill
  BY <1>0, <1>12, ZenonT(30) DEF ApplyFails, Kill, DirTyped
<1>13. CASE UNCHANGED dirVars
  BY <1>0, <1>13 DEF dirVars, DirTyped
<1>14. QED
  BY <1>1, <1>2, <1>3, <1>4, <1>5, <1>6, <1>7, <1>8, <1>9, <1>10, <1>11, <1>12, <1>13, ZenonT(30)
     DEF Next, Step, Failure, Command, ActivationStep, GcStep, UpgradeStep, ActivationFailure,
         UpgradeFailure, BeginChange, vars, Enter, EntrypointSucceeds, EntrypointFails,
         ConsumeFails, ActivateSelected, ActivateNext, SweepOtherFails, ResolveNext, BootShell,
         ShellResolve, Fallback, BeginGc, PlanRemovals, CleanupDone, PlanDiscard, DiscardDone,
         BeginApply, BeginWidget, BeginAddMissing, Locked, Plan, PlanFails

LEMMA RestTyped ==
  ASSUME Rest
  PROVE  OpTyped'
  BY NoGenTyped DEF Rest, OpTyped, Steps, Kinds, Modes, Phases

LEMMA GiveUpTyped ==
  ASSUME OpTyped, GiveUp
  PROVE  OpTyped'
  BY RestTyped DEF GiveUp, OpTyped, Steps, opVars

LEMMA OpStepTyped == TypeOK /\ [Next]_vars => OpTyped'
<1> SUFFICES ASSUME TypeOK, [Next]_vars PROVE OpTyped'
  OBVIOUS
<1>0. DirTyped /\ OpTyped /\ EnvTyped
  BY TypeParts
<1>a. /\ dir.current \in GenOrNone
      /\ ResolvedCurrent(dir) \in GenOrNone
      /\ Latest(dir) \in GenOrNone
      /\ Generations(dir) \subseteq Gen
  BY <1>0, DirFields, LatestFacts, NoGenTyped DEF DirTyped, ResolvedCurrent, Generations
<1>b. StagedTarget(dir) \in GenOrNone /\ CurrentTarget(dir) \in GenOrNone
  BY <1>a, NoGenTyped DEF StagedTarget, CurrentTarget
<1> USE DEF opVars, EntrypointSteps, Steps
<1>1. CASE Enter
  BY <1>0, <1>1, <1>a, NoGenTyped, GiveUpTyped DEF Enter, OpTyped, Phases
<1>2. CASE EntrypointSync \/ FlipCurrent \/ FlipSync \/ ConsumeMarker \/ Restore \/ RestoreSync
  BY <1>0, <1>2 DEF EntrypointSync, FlipCurrent, FlipSync, ConsumeMarker, Restore, RestoreSync,
     OpTyped
<1>3. CASE EntrypointSucceeds
  BY <1>0, <1>3, RestTyped, GiveUpTyped DEF EntrypointSucceeds, OpTyped
<1>4. CASE EntrypointFails
  BY <1>0, <1>4, RestTyped, GiveUpTyped, NoGenTyped DEF EntrypointFails, OpTyped, Phases
<1>5. CASE ConsumeSync \/ ConsumeFails \/ SweepOtherFails \/ CleanupDone \/ DiscardDone \/ Kill
  BY <1>5, RestTyped DEF ConsumeSync, ConsumeFails, SweepOtherFails, CleanupDone, DiscardDone, Kill
<1>6. CASE ActivateSelected \/ ActivateNext \/ BootShell
  BY <1>0, <1>6, <1>a, NoGenTyped DEF ActivateSelected, ActivateNext, BootShell, Begin, OpTyped,
     Kinds, Modes
<1>7. CASE \E v \in Versions : SweepOther(v)
  BY <1>0, <1>7 DEF SweepOther, OpTyped
<1>8. CASE ResolveNext
  BY <1>0, <1>8, <1>b, RestTyped DEF ResolveNext, OpTyped, Modes
<1>9. CASE ShellResolve
  BY <1>0, <1>9, <1>a, <1>b DEF ShellResolve, OpTyped, Phases
<1>10. CASE Fallback
  BY <1>0, <1>10, <1>a, RestTyped DEF Fallback, OpTyped, Phases
<1>11. CASE BeginGc \/ BeginApply \/ BeginWidget \/ BeginAddMissing
  BY <1>0, <1>11, <1>a DEF BeginGc, BeginApply, BeginWidget, BeginAddMissing, Locked, OpTyped,
     Kinds, Modes, ApplyKinds
<1>12. CASE PlanRemovals
  BY <1>0, <1>12, <1>a, RestTyped DEF PlanRemovals, OpTyped
<1>13. CASE Cleanup
  BY <1>0, <1>13 DEF Cleanup, OpTyped
<1>14. CASE PlanDiscard
  BY <1>0, <1>14, <1>a DEF PlanDiscard, OpTyped
<1>15. CASE Discard
  BY <1>0, <1>15, RestTyped DEF Discard, OpTyped
<1>16. CASE Plan
  BY <1>0, <1>16, NoGenTyped DEF Plan, OpTyped, Modes
<1>17. CASE PlanFails \/ ApplyFails
  BY <1>0, <1>17, GiveUpTyped DEF PlanFails, ApplyFails
<1>18. CASE SyncTree \/ Publish \/ PublishSync \/ Stage \/ StageSync
  BY <1>0, <1>18 DEF SyncTree, Publish, PublishSync, Stage, StageSync, OpTyped
<1>19. CASE \E v \in Versions : SweepMarker(v)
  <2>1. PICK v \in Versions : SweepMarker(v)
    BY <1>19
  <2>2. dir.next[v] \in GenOrNone
    BY <1>0, DirFields DEF DirTyped
  <2>3. dir.next[v] \in Gen
    <3>1. dir.next[v] # NoGen
      BY <2>1 DEF SweepMarker
    <3>2. QED BY <2>2, <3>1, ProfileBounds DEF GenOrNone, Gen, NoGen
  <2>4. QED BY <1>0, <2>1, <2>3 DEF SweepMarker, OpTyped
<1>20. CASE SweepSync
  BY <1>0, <1>20, RestTyped DEF SweepSync, OpTyped
<1>21. CASE PowerLoss \/ Reboot
  BY <1>0, <1>21, NoGenTyped DEF PowerLoss, Reboot, StartUp, OpTyped, Kinds, Modes, Phases
<1>22. CASE UNCHANGED vars
  BY <1>0, <1>22 DEF vars, OpTyped
<1>23. QED
  BY <1>1, <1>2, <1>3, <1>4, <1>5, <1>6, <1>7, <1>8, <1>9, <1>10, <1>11, <1>12, <1>13, <1>14,
     <1>15, <1>16, <1>17, <1>18, <1>19, <1>20, <1>21, <1>22
     DEF Next, Step, Failure, Command, ActivationStep, GcStep, UpgradeStep, ActivationFailure,
         UpgradeFailure, BeginChange

LEMMA GhostsStepTyped == TypeOK /\ [Next]_vars => GhostsTyped'
<1> SUFFICES ASSUME TypeOK, [Next]_vars PROVE GhostsTyped'
  OBVIOUS
<1>0. OpTyped /\ GhostsTyped /\ EnvTyped
  BY TypeParts
<1>1. CASE FlipCurrent \/ EntrypointSucceeds \/ EntrypointFails \/ Kill
  BY <1>0, <1>1, NoGenTyped DEF FlipCurrent, EntrypointSucceeds, EntrypointFails, Kill,
     GhostsTyped, OpTyped
<1>2. CASE ConsumeMarker \/ \E v \in Versions : SweepOther(v) \/ SweepMarker(v)
  BY <1>0, <1>2, NoGenTyped DEF ConsumeMarker, SweepOther, SweepMarker, GhostsTyped
<1>3. CASE ConsumeSync
  BY <1>0, <1>3 DEF ConsumeSync, GhostsTyped, OpTyped
<1>4. CASE Publish \/ SweepSync
  BY <1>0, <1>4, NoGenTyped DEF Publish, SweepSync, GhostsTyped, OpTyped
<1>5. CASE StageSync
  BY <1>0, <1>5, ZenonT(30) DEF StageSync, GhostsTyped, OpTyped
<1>6. CASE PowerLoss \/ Reboot
  BY <1>0, <1>6, NoGenTyped DEF PowerLoss, Reboot, StartUp, GhostsTyped
<1>7. CASE UNCHANGED ghosts
  BY <1>0, <1>7 DEF ghosts, GhostsTyped
<1>8. QED
  BY <1>1, <1>2, <1>3, <1>4, <1>5, <1>6, <1>7, ZenonT(30)
     DEF Next, Step, Failure, Command, ActivationStep, GcStep, UpgradeStep, ActivationFailure,
         UpgradeFailure, BeginChange, vars, Enter, EntrypointSync, FlipSync, ConsumeFails,
         ActivateSelected, ActivateNext, SweepOtherFails, ResolveNext, BootShell, ShellResolve,
         Restore, RestoreSync, Fallback, BeginGc, PlanRemovals, Cleanup, CleanupDone,
         PlanDiscard, Discard, DiscardDone, BeginApply, BeginWidget, BeginAddMissing, Locked,
         Plan, PlanFails, SyncTree, PublishSync, Stage, ApplyFails

LEMMA FaultTyped ==
  ASSUME EnvTyped, Fault
  PROVE  mishaps' \in 0..2 /\ faults' \in 0..MaxFaults
  BY ProfileBounds DEF EnvTyped, Fault, Mishap

LEMMA EnvStepTyped == TypeOK /\ [Next]_vars => EnvTyped'
<1> SUFFICES ASSUME TypeOK, [Next]_vars PROVE EnvTyped'
  OBVIOUS
<1>0. EnvTyped
  BY TypeParts
<1>1. CASE (Fault \/ NoFault) /\ UNCHANGED <<fw, powerLosses>>
  BY <1>0, <1>1, FaultTyped DEF NoFault, EnvTyped
<1>2. CASE EntrypointFails
  <2>1. mishaps' \in 0..2 /\ faults' \in 0..MaxFaults
    BY <1>0, <1>2, FaultTyped DEF EntrypointFails, Mishap, EnvTyped
  <2>2. QED BY <1>0, <1>2, <2>1 DEF EntrypointFails, EnvTyped
<1>3. CASE PowerLoss \/ Reboot
  BY <1>0, <1>3, ProfileBounds DEF PowerLoss, Reboot, StartUp, EnvTyped
<1>4. CASE UNCHANGED envVars
  BY <1>0, <1>4 DEF envVars, EnvTyped
<1>5. CASE Cleanup \/ Discard
  BY <1>1, <1>5, ZenonT(30) DEF Cleanup, Discard, RemoveGeneration, RemovalFails
<1>6. QED
  BY <1>1, <1>2, <1>3, <1>4, <1>5, ZenonT(30)
     DEF Next, Step, Failure, Command, ActivationStep, GcStep, UpgradeStep, ActivationFailure,
         UpgradeFailure, BeginChange, vars, Enter, EntrypointSync, FlipCurrent, FlipSync,
         EntrypointSucceeds, ConsumeMarker, ConsumeSync, ConsumeFails,
         ActivateSelected, ActivateNext, SweepOther, SweepOtherFails, ResolveNext, BootShell,
         ShellResolve, Restore, RestoreSync, Fallback, BeginGc, PlanRemovals, CleanupDone,
         PlanDiscard, DiscardDone, BeginApply, BeginWidget, BeginAddMissing, Locked,
         Plan, PlanFails, SyncTree, Publish, PublishSync, SweepMarker, SweepSync, Stage,
         StageSync, ApplyFails, Kill

\* Every state of the profile is well typed, for every bound.
THEOREM TypeCorrect == Spec => []TypeOK
<1>1. Init => TypeOK
  <2> SUFFICES ASSUME Init PROVE TypeOK
    OBVIOUS
  <2>1. Factory \in Dir
    BY ProfileBounds DEF Factory, Dir, Content, NoGen, GenOrNone
  <2>2. DirTyped
    BY <2>1, ZenonT(30) DEF Init, DirTyped
  <2>3. OpTyped
    BY NoGenTyped DEF Init, OpTyped, Steps, Kinds, Modes, Phases
  <2>4. GhostsTyped
    BY NoGenTyped DEF Init, GhostsTyped
  <2>5. EnvTyped
    BY ProfileBounds DEF Init, EnvTyped
  <2>6. QED BY <2>2, <2>3, <2>4, <2>5, TypeParts
<1>2. TypeOK /\ [Next]_vars => TypeOK'
  <2> SUFFICES ASSUME TypeOK, [Next]_vars PROVE TypeOK'
    OBVIOUS
  <2>1. DirTyped' /\ OpTyped' /\ GhostsTyped' /\ EnvTyped'
    BY DirStepTyped, OpStepTyped, GhostsStepTyped, EnvStepTyped
  <2>2. QED
    BY <2>1 DEF TypeOK, DirTyped, OpTyped, GhostsTyped, EnvTyped
<1>3. QED BY <1>1, <1>2, PTL DEF Spec

-----------------------------------------------------------------------------
(* current: the invariant that makes CurrentRunnable inductive.            *)

\* What the kernel sees is one of the images a power loss may leave.
DirOnDisk == dir \in persisted

\* The generation the write boundary flips to runs, and so does the one that
\* a failed entrypoint goes back to.
TargetRuns ==
  pc \in EntrypointSteps /\ target # NoGen => Executable(dir.gen[target])
OldRuns ==
  pc \in EntrypointSteps \cup {"restore"} /\ phase # "fallback" /\ old # NoGen =>
    Executable(dir.gen[old])

RestoresStaged == pc = "restore" => phase = "staged"

\* A collection or a discard under way does not aim at current.
CurrentSpared == pc \in {"remove", "discarding"} => dir.current \notin doomed

\* The number a build publishes under is free.
BuiltIsNew == pc \in {"tree", "publish"} => built \in Gen /\ dir.gen[built] = "absent"

CInv ==
  /\ DirOnDisk /\ TargetRuns /\ OldRuns /\ RestoresStaged /\ CurrentSpared /\ BuiltIsNew
  /\ CurrentRunnable

\* Only images that were there, or the directory itself, remain.
LEMMA NoNewImage ==
  ASSUME CInv, dir' \in persisted', persisted' \subseteq persisted
  PROVE  DirOnDisk' /\ CurrentRunnable'
  BY DEF CInv, DirOnDisk, CurrentRunnable

\* A change is safe when every image it may leave has a current that runs.
LEMMA SafeChange ==
  ASSUME CInv, NEW d, NEW P, Change(d, P),
         \A e \in P \cup {d} : e.current # NoGen => Executable(e.gen[e.current])
  PROVE  DirOnDisk' /\ CurrentRunnable'
  BY DEF CInv, DirOnDisk, CurrentRunnable, Change

\* Rewriting a generation other than current is.
LEMMA OtherGeneration ==
  ASSUME CInv, TypeOK, NEW g \in GenOrNone, g # dir.current, NEW c \in Content
  PROVE  LET d == WithGen(dir, g, c)
         IN  d.current # NoGen => Executable(d.gen[d.current])
<1> DEFINE d == WithGen(dir, g, c)
<1>1. dir \in Dir /\ dir.current \in GenOrNone
  BY DirFields DEF TypeOK
<1>2. d.current = dir.current /\ \A h \in Gen : d.gen[h] = IF h = g THEN c ELSE dir.gen[h]
  BY <1>1, WithGenFacts
<1>3. dir.current # NoGen => dir.current \in Gen /\ Executable(dir.gen[dir.current])
  BY <1>1, ProfileBounds DEF CInv, DirOnDisk, CurrentRunnable, NoGen, Gen, GenOrNone
<1>4. QED BY <1>2, <1>3

\* remove_profile_entry on a generation other than current is safe, done or not.
LEMMA SafeRemoval ==
  ASSUME CInv, TypeOK, NEW g \in Gen, g # dir.current, RemoveGeneration(g) \/ RemovalFails(g)
  PROVE  DirOnDisk' /\ CurrentRunnable'
<1>0. /\ g \in GenOrNone /\ "absent" \in Content /\ dir.gen[g] \in Content
      /\ Remains(dir.gen[g]) \subseteq Content
  BY NoGenTyped, DirFields, RemainsAreContents DEF Content, TypeOK
<1>1. CASE RemoveGeneration(g)
  BY <1>0, <1>1, OtherGeneration, SafeChange DEF RemoveGeneration
<1>2. CASE RemovalFails(g)
  <2>1. PICK c \in Content : Change(WithGen(dir, g, c), {})
    BY <1>0, <1>2 DEF RemovalFails
  <2>2. QED BY <1>0, <2>1, OtherGeneration, SafeChange
<1>3. QED BY <1>1, <1>2

\* So is pointing current at a generation that runs, or removing it.
LEMMA SafeCurrent ==
  ASSUME CInv, dir \in Dir, NEW g \in GenOrNone, g # NoGen => Executable(dir.gen[g]),
         Change(WithCurrent(dir, g), {})
  PROVE  DirOnDisk' /\ CurrentRunnable'
<1>1. WithCurrent(dir, g).current = g /\ WithCurrent(dir, g).gen = dir.gen
  BY WithCurrentFacts
<1>2. \A e \in {} \cup {WithCurrent(dir, g)} : e.current # NoGen => Executable(e.gen[e.current])
  BY <1>1
<1>3. QED BY <1>2, SafeChange

LEMMA CurrentStaysRunnable == TypeOK /\ CInv /\ [Next]_vars => DirOnDisk' /\ CurrentRunnable'
<1> SUFFICES ASSUME TypeOK, CInv, [Next]_vars PROVE DirOnDisk' /\ CurrentRunnable'
  OBVIOUS
<1>0. dir \in Dir /\ dir \in persisted
  BY DEF TypeOK, CInv, DirOnDisk
<1>1. CASE FlipCurrent
  <2>1. target # NoGen => Executable(dir.gen[target])
    BY <1>1 DEF FlipCurrent, CInv, TargetRuns, EntrypointSteps
  <2>2. Change(WithCurrent(dir, target), {}) /\ target \in GenOrNone
    BY <1>1 DEF FlipCurrent, TypeOK
  <2>3. QED BY <1>0, <2>1, <2>2, SafeCurrent
<1>2. CASE Restore
  <2>1. old # NoGen => Executable(dir.gen[old])
    BY <1>2 DEF Restore, CInv, OldRuns, RestoresStaged
  <2>2. CASE UNCHANGED <<dir, persisted>>
    BY <1>0, <2>2, NoNewImage
  <2>3. CASE Change(WithCurrent(dir, old), {})
    BY <1>0, <2>1, <2>3, SafeCurrent DEF TypeOK
  <2>4. QED BY <1>2, <2>2, <2>3 DEF Restore
<1>3. CASE (\E v \in Versions : SweepOther(v) \/ SweepMarker(v)) \/ ConsumeMarker \/ Stage
  <2>a. built \in GenOrNone /\ NoGen \in GenOrNone
    BY NoGenTyped DEF TypeOK
  <2>b. \/ \E v \in Versions : Change(WithNext(dir, v, NoGen), {})
        \/ Change(WithNext(dir, fw, NoGen), {})
        \/ Change(WithNext(dir, ver, built), {})
    BY <1>3 DEF SweepOther, SweepMarker, ConsumeMarker, Stage
  <2>1. PICK v, g : g \in GenOrNone /\ Change(WithNext(dir, v, g), {})
    BY <2>a, <2>b
  <2>2. dir.current # NoGen => Executable(dir.gen[dir.current])
    BY <1>0 DEF CInv, CurrentRunnable
  <2>3. QED BY <1>0, <2>1, <2>2, WithNextFacts, SafeChange
<1>4. CASE Publish
  <2>1. built \in GenOrNone /\ built # dir.current
    <3>1. built \in Gen /\ dir.gen[built] = "absent"
      BY <1>4 DEF Publish, CInv, BuiltIsNew
    <3>2. built = dir.current => Executable(dir.gen[built])
      BY <1>0, <3>1, ProfileBounds DEF CInv, CurrentRunnable, Gen, NoGen
    <3>3. QED BY <3>1, <3>2, NoGenTyped DEF Executable
  <2>2. PICK c \in Content :
          Change(WithGen(dir, built, c), IF flushed THEN {} ELSE {WithGen(dir, built, "husk")})
    BY <1>4 DEF Publish, Content
  <2>3. "husk" \in Content
    BY DEF Content
  <2>4. QED BY <2>1, <2>2, <2>3, OtherGeneration, SafeChange
<1>5. CASE Cleanup \/ Discard
  <2>1. PICK g \in doomed : RemoveGeneration(g) \/ RemovalFails(g)
    BY <1>5 DEF Cleanup, Discard
  <2>2. g \in Gen /\ g # dir.current
    BY <1>5 DEF Cleanup, Discard, CInv, CurrentSpared, TypeOK
  <2>3. QED BY <2>1, <2>2, SafeRemoval
<1>6. CASE PowerLoss
  BY <1>6, NoNewImage DEF PowerLoss
<1>7. CASE Settle
  BY <1>0, <1>7, NoNewImage DEF Settle
<1>8. CASE UNCHANGED <<dir, persisted>>
  BY <1>0, <1>8, NoNewImage
<1>9. QED
  BY <1>1, <1>2, <1>3, <1>4, <1>5, <1>6, <1>7, <1>8, ZenonT(30)
     DEF Next, Step, Failure, Command, ActivationStep, GcStep, UpgradeStep, ActivationFailure,
         UpgradeFailure, BeginChange, vars, dirVars, Enter, EntrypointSync, FlipSync,
         EntrypointSucceeds, EntrypointFails, ConsumeSync, ConsumeFails, ActivateSelected,
         ActivateNext, SweepOtherFails, ResolveNext, BootShell, ShellResolve, RestoreSync,
         Fallback, BeginGc, PlanRemovals, CleanupDone, PlanDiscard, DiscardDone, BeginApply,
         BeginWidget, BeginAddMissing, Locked, Plan, PlanFails, SyncTree, PublishSync,
         SweepSync, StageSync, ApplyFails, Reboot, Kill

\* The steps that start or continue an entrypoint find it in place; the steps
\* that change a generation run no entrypoint.
LEMMA EntrypointStaysThere == TypeOK /\ CInv /\ [Next]_vars => TargetRuns' /\ OldRuns' /\ RestoresStaged'
<1> SUFFICES ASSUME TypeOK, CInv, [Next]_vars PROVE TargetRuns' /\ OldRuns' /\ RestoresStaged'
  OBVIOUS
<1> USE DEF TargetRuns, OldRuns, RestoresStaged, EntrypointSteps
<1>0. dir \in Dir /\ TargetRuns /\ OldRuns /\ RestoresStaged
  BY DEF TypeOK, CInv
<1>a. dir.current # NoGen => Executable(dir.gen[dir.current])
  BY DEF CInv, DirOnDisk, CurrentRunnable
<1>1. CASE Enter
  BY <1>1, <1>a DEF Enter, ResolvedCurrent, GiveUp, Rest, dirVars
<1>2. CASE EntrypointSync \/ FlipSync
  BY <1>0, <1>2 DEF EntrypointSync, FlipSync, Settle, opVars
<1>3. CASE FlipCurrent
  <2>1. dir'.gen = dir.gen
    BY <1>0, <1>3, WithCurrentFacts, ZenonT(30) DEF FlipCurrent, Change, TypeOK
  <2>2. QED BY <1>0, <1>3, <2>1 DEF FlipCurrent, opVars
<1>4. CASE EntrypointFails
  BY <1>0, <1>4 DEF EntrypointFails, GiveUp, Rest, dirVars, opVars
<1>5. CASE ShellResolve
  BY <1>5, <1>a DEF ShellResolve, Runnable, dirVars
<1>6. CASE Fallback
  <2>1. CASE pc' = "idle"
    BY <2>1
  <2>2. CASE Runnable(target') /\ phase' = "fallback" /\ pc' = "ep" /\ dir' = dir
    BY <2>2 DEF Runnable
  <2>3. QED BY <1>6, <2>1, <2>2 DEF Fallback, Rest, dirVars
<1>7. CASE UNCHANGED vars
  BY <1>0, <1>7 DEF vars, dirVars, opVars
<1>8. CASE pc' \notin EntrypointSteps \cup {"restore"}
  BY <1>8
<1>9. QED
  BY <1>1, <1>2, <1>3, <1>4, <1>5, <1>6, <1>7, <1>8, ZenonT(30)
     DEF Next, Step, Failure, Command, ActivationStep, GcStep, UpgradeStep, ActivationFailure,
         UpgradeFailure, BeginChange, EntrypointSucceeds, ConsumeMarker, ConsumeSync,
         ConsumeFails, ActivateSelected, ActivateNext, Begin, SweepOther, SweepOtherFails,
         ResolveNext, BootShell, Restore, RestoreSync, BeginGc, PlanRemovals, Cleanup,
         CleanupDone, PlanDiscard, Discard, DiscardDone, BeginApply, BeginWidget,
         BeginAddMissing, Locked, Plan, PlanFails, SyncTree, Publish, PublishSync, SweepMarker,
         SweepSync, Stage, StageSync, ApplyFails, PowerLoss, Reboot, StartUp, Kill, Rest, GiveUp

\* The removals that are planned leave current out, and current does not move
\* while they are carried out.
LEMMA CurrentStaysSpared == TypeOK /\ CInv /\ [Next]_vars => CurrentSpared'
<1> SUFFICES ASSUME TypeOK, CInv, [Next]_vars PROVE CurrentSpared'
  OBVIOUS
<1> USE DEF CurrentSpared
<1>0. dir \in Dir /\ doomed \subseteq Gen /\ CurrentSpared
  BY DEF TypeOK, CInv
<1>1. CASE PlanRemovals
  BY <1>1 DEF PlanRemovals, Keep, Rest, dirVars
<1>2. CASE PlanDiscard
  BY <1>2 DEF PlanDiscard, dirVars
<1>3. CASE Cleanup \/ Discard
  <2>1. PICK g \in doomed : RemoveGeneration(g) \/ RemovalFails(g)
    BY <1>3 DEF Cleanup, Discard
  <2>2. dir'.current = dir.current
    <3>1. g \in GenOrNone /\ dir.gen[g] \in Content /\ Remains(dir.gen[g]) \subseteq Content
      BY <1>0, NoGenTyped, DirFields, RemainsAreContents
    <3>2. PICK c \in Content : dir' = WithGen(dir, g, c)
      BY <2>1, <3>1 DEF RemoveGeneration, RemovalFails, Change, Content
    <3>3. QED BY <1>0, <3>1, <3>2, WithGenFacts
  <2>3. doomed' \subseteq doomed /\ pc \in {"remove", "discarding"}
    BY <1>3 DEF Cleanup, Discard, Rest
  <2>4. QED BY <1>0, <2>2, <2>3
<1>4. CASE UNCHANGED vars
  BY <1>0, <1>4 DEF vars, dirVars, opVars
<1>5. CASE pc' \notin {"remove", "discarding"}
  BY <1>5
<1>6. QED
  BY <1>1, <1>2, <1>3, <1>4, <1>5, ZenonT(30)
     DEF Next, Step, Failure, Command, ActivationStep, GcStep, UpgradeStep, ActivationFailure,
         UpgradeFailure, BeginChange, Enter, EntrypointSync, FlipCurrent, FlipSync,
         EntrypointSucceeds, EntrypointFails, ConsumeMarker, ConsumeSync, ConsumeFails,
         ActivateSelected, ActivateNext, Begin, SweepOther, SweepOtherFails, ResolveNext,
         BootShell, ShellResolve, Restore, RestoreSync, Fallback, BeginGc, CleanupDone,
         DiscardDone, BeginApply, BeginWidget, BeginAddMissing, Locked, Plan, PlanFails,
         SyncTree, Publish, PublishSync, SweepMarker, SweepSync, Stage, StageSync, ApplyFails,
         PowerLoss, Reboot, StartUp, Kill, Rest, GiveUp

\* A build takes the number after the highest one.
LEMMA BuiltStaysNew == TypeOK /\ CInv /\ [Next]_vars => BuiltIsNew'
<1> SUFFICES ASSUME TypeOK, CInv, [Next]_vars PROVE BuiltIsNew'
  OBVIOUS
<1> USE DEF BuiltIsNew
<1>0. BuiltIsNew
  BY DEF CInv
<1>1. CASE Plan
  <2>1. CASE pc' = "sweep"
    BY <2>1
  <2>2. CASE built' \in {n \in Gen : IsNext(dir, n)} /\ dir' = dir
    <3>1. built' \in Gen /\ built' \notin Generations(dir)
      BY <2>2, ProfileBounds DEF IsNext, Gen
    <3>2. QED BY <2>2, <3>1 DEF Generations
  <2>3. QED BY <1>1, <2>1, <2>2 DEF Plan, dirVars
<1>2. CASE SyncTree
  BY <1>0, <1>2 DEF SyncTree, Settle, opVars
<1>3. CASE UNCHANGED vars
  BY <1>0, <1>3 DEF vars, dirVars, opVars
<1>4. CASE pc' \notin {"tree", "publish"}
  BY <1>4
<1>5. QED
  BY <1>1, <1>2, <1>3, <1>4, ZenonT(30)
     DEF Next, Step, Failure, Command, ActivationStep, GcStep, UpgradeStep, ActivationFailure,
         UpgradeFailure, BeginChange, Enter, EntrypointSync, FlipCurrent, FlipSync,
         EntrypointSucceeds, EntrypointFails, ConsumeMarker, ConsumeSync, ConsumeFails,
         ActivateSelected, ActivateNext, Begin, SweepOther, SweepOtherFails, ResolveNext,
         BootShell, ShellResolve, Restore, RestoreSync, Fallback, BeginGc, PlanRemovals,
         Cleanup, CleanupDone, PlanDiscard, Discard, DiscardDone, BeginApply, BeginWidget,
         BeginAddMissing, Locked, PlanFails, Publish, PublishSync, SweepMarker, SweepSync,
         Stage, StageSync, ApplyFails, PowerLoss, Reboot, StartUp, Kill, Rest, GiveUp

\* The inductive invariant holds throughout.
LEMMA CInvHolds == Spec => []CInv
<1>1. Init => CInv
  BY DEF Init, Factory, CInv, DirOnDisk, TargetRuns, OldRuns, RestoresStaged, CurrentSpared, BuiltIsNew,
     CurrentRunnable, EntrypointSteps
<1>2. TypeOK /\ CInv /\ [Next]_vars => CInv'
  BY CurrentStaysRunnable, EntrypointStaysThere, CurrentStaysSpared, BuiltStaysNew DEF CInv
<1>3. QED BY <1>1, <1>2, TypeCorrect, PTL DEF Spec

\* Whatever sequence of upgrades, activations, collections, kills, failures
\* and power losses a device goes through, current is absent or names a
\* generation whose entrypoint is there to run.
THEOREM CurrentAlwaysRuns == Spec => []CurrentRunnable
<1>1. CInv => CurrentRunnable
  BY DEF CInv
<1>2. QED BY <1>1, CInvHolds, PTL

-----------------------------------------------------------------------------
(* What was reported: the invariant for ReportedStaysApplied.              *)

\* After the rename current names the target; after the fsync every image does.
Flipped ==
  /\ pc = "flipSync" => dir.current = target
  /\ pc = "post" => \A d \in persisted : d.current = target

\* The shell port's snapshot is what current named before the flip, and only
\* it can still count as reported once the staged entrypoint has failed.
Snapshot ==
  phase = "staged" =>
    /\ pc \in {"ep", "flip"} => dir.current = old
    /\ pc \in {"flipSync", "post", "restore"} => acked \in {NoGen, old}

RInv == ReportedStaysApplied /\ Flipped /\ Snapshot

\* Every image has the current it had, and nothing else is reported.
LEMMA SameCurrent ==
  ASSUME CInv, ReportedStaysApplied, acked' = acked,
         \A e \in persisted' : e \in persisted \/ e.current = dir.current
  PROVE  ReportedStaysApplied'
  BY DEF CInv, DirOnDisk, ReportedStaysApplied

LEMMA ReportedStays == TypeOK /\ CInv /\ RInv /\ [Next]_vars => ReportedStaysApplied'
<1> SUFFICES ASSUME TypeOK, CInv, RInv, [Next]_vars PROVE ReportedStaysApplied'
  OBVIOUS
<1>0. dir \in Dir /\ dir \in persisted /\ ReportedStaysApplied
  BY DEF TypeOK, CInv, DirOnDisk, RInv
<1>1. CASE FlipCurrent
  <2>1. WithCurrent(dir, target).current = target
    BY <1>0, WithCurrentFacts DEF TypeOK
  <2>2. QED BY <1>0, <1>1, <2>1 DEF FlipCurrent, Change, ReportedStaysApplied
<1>2. CASE EntrypointSucceeds
  BY <1>2 DEF EntrypointSucceeds, RInv, Flipped, ReportedStaysApplied, dirVars
<1>3. CASE Restore
  <2>1. acked # NoGen => acked = old /\ dir.current = acked
    BY <1>0, <1>3 DEF Restore, RInv, CInv, Snapshot, RestoresStaged, ReportedStaysApplied
  <2>2. acked' = acked /\ (acked # NoGen => persisted' = persisted)
    BY <1>3, <2>1 DEF Restore, ghosts
  <2>3. QED BY <1>0, <2>2 DEF ReportedStaysApplied
<1>4. CASE (\E v \in Versions : SweepOther(v) \/ SweepMarker(v)) \/ ConsumeMarker \/ Stage
  <2>a. built \in GenOrNone /\ NoGen \in GenOrNone
    BY NoGenTyped DEF TypeOK
  <2>b. /\ \/ \E v \in Versions : Change(WithNext(dir, v, NoGen), {})
           \/ Change(WithNext(dir, fw, NoGen), {})
           \/ Change(WithNext(dir, ver, built), {})
        /\ acked' = acked
    BY <1>4 DEF SweepOther, SweepMarker, ConsumeMarker, Stage, ghosts
  <2>1. PICK v, g : g \in GenOrNone /\ Change(WithNext(dir, v, g), {})
    BY <2>a, <2>b
  <2>2. WithNext(dir, v, g).current = dir.current
    BY <1>0, <2>1, WithNextFacts
  <2>3. \A e \in persisted' : e \in persisted \/ e.current = dir.current
    BY <2>1, <2>2 DEF Change
  <2>4. QED BY <1>0, <2>b, <2>3, SameCurrent
<1>5. CASE Publish \/ Cleanup \/ Discard
  <2>1. PICK g \in GenOrNone :
          \A e \in persisted' : e \in persisted \/ \E c \in Content : e = WithGen(dir, g, c)
    <3>1. CASE Publish
      BY <3>1 DEF Publish, Change, Content, TypeOK
    <3>2. CASE Cleanup \/ Discard
      <4>1. PICK g \in doomed : RemoveGeneration(g) \/ RemovalFails(g)
        BY <3>2 DEF Cleanup, Discard
      <4>2. g \in GenOrNone /\ Remains(dir.gen[g]) \cup {dir.gen[g], "absent"} \subseteq Content
        BY <1>0, NoGenTyped, DirFields, RemainsAreContents DEF TypeOK, Content
      <4>3. QED BY <4>1, <4>2 DEF RemoveGeneration, RemovalFails, Change
    <3>3. QED BY <1>5, <3>1, <3>2
  <2>2. \A e \in persisted' : e \in persisted \/ e.current = dir.current
    BY <1>0, <2>1, WithGenFacts
  <2>3. acked' = acked
    BY <1>5 DEF Publish, Cleanup, Discard, ghosts
  <2>4. QED BY <1>0, <2>2, <2>3, SameCurrent
<1>6. CASE PowerLoss
  BY <1>0, <1>6 DEF PowerLoss, ReportedStaysApplied
<1>7. CASE Settle /\ acked' = acked
  BY <1>0, <1>7 DEF Settle, ReportedStaysApplied
<1>8. CASE UNCHANGED <<dir, persisted, acked>>
  BY <1>0, <1>8 DEF ReportedStaysApplied
<1>9. QED
  BY <1>1, <1>2, <1>3, <1>4, <1>5, <1>6, <1>7, <1>8, ZenonT(30)
     DEF Next, Step, Failure, Command, ActivationStep, GcStep, UpgradeStep, ActivationFailure,
         UpgradeFailure, BeginChange, vars, dirVars, ghosts, Enter, EntrypointSync, FlipSync,
         EntrypointFails, ConsumeSync, ConsumeFails, ActivateSelected, ActivateNext,
         SweepOtherFails, ResolveNext, BootShell, ShellResolve, RestoreSync, Fallback, BeginGc,
         PlanRemovals, CleanupDone, PlanDiscard, DiscardDone, BeginApply, BeginWidget,
         BeginAddMissing, Locked, Plan, PlanFails, SyncTree, PublishSync, SweepSync, StageSync,
         ApplyFails, Reboot, Kill

LEMMA FlipIsFollowed == TypeOK /\ CInv /\ RInv /\ [Next]_vars => Flipped' /\ Snapshot'
<1> SUFFICES ASSUME TypeOK, CInv, RInv, [Next]_vars PROVE Flipped' /\ Snapshot'
  OBVIOUS
<1> USE DEF Flipped, Snapshot
<1>0. dir \in Dir /\ Flipped /\ Snapshot
  BY DEF TypeOK, RInv
<1>a. acked # NoGen => dir.current = acked
  BY DEF CInv, DirOnDisk, RInv, ReportedStaysApplied
<1>1. CASE FlipCurrent
  <2>1. dir'.current = target
    BY <1>0, <1>1, WithCurrentFacts, ZenonT(30) DEF FlipCurrent, Change, TypeOK
  <2>2. QED BY <1>0, <1>1, <1>a, <2>1 DEF FlipCurrent, opVars
<1>2. CASE EntrypointSync \/ FlipSync
  BY <1>0, <1>2 DEF EntrypointSync, FlipSync, Settle, opVars, ghosts
<1>3. CASE Enter
  BY <1>3 DEF Enter, GiveUp, Rest
<1>4. CASE EntrypointFails
  BY <1>0, <1>4, <1>a DEF EntrypointFails, EntrypointSteps, GiveUp, Rest, opVars, dirVars
<1>5. CASE ShellResolve
  BY <1>5 DEF ShellResolve, dirVars
<1>6. CASE Fallback
  BY <1>6 DEF Fallback, Rest
<1>7. CASE UNCHANGED vars
  BY <1>0, <1>7 DEF vars, dirVars, opVars, ghosts
<1>8. CASE pc' \notin EntrypointSteps \cup {"restore"}
  BY <1>8 DEF EntrypointSteps
<1>9. QED
  BY <1>1, <1>2, <1>3, <1>4, <1>5, <1>6, <1>7, <1>8, ZenonT(30)
     DEF Next, Step, Failure, Command, ActivationStep, GcStep, UpgradeStep, ActivationFailure,
         UpgradeFailure, BeginChange, EntrypointSucceeds, ConsumeMarker, ConsumeSync,
         ConsumeFails, ActivateSelected, ActivateNext, Begin, SweepOther, SweepOtherFails,
         ResolveNext, BootShell, Restore, RestoreSync, BeginGc, PlanRemovals, Cleanup,
         CleanupDone, PlanDiscard, Discard, DiscardDone, BeginApply, BeginWidget,
         BeginAddMissing, Locked, Plan, PlanFails, SyncTree, Publish, PublishSync, SweepMarker,
         SweepSync, Stage, StageSync, ApplyFails, PowerLoss, Reboot, StartUp, Kill, Rest, GiveUp,
         EntrypointSteps

LEMMA RInvHolds == Spec => []RInv
<1>1. Init => RInv
  BY DEF Init, RInv, ReportedStaysApplied, Flipped, Snapshot
<1>2. TypeOK /\ CInv /\ RInv /\ [Next]_vars => RInv'
  BY ReportedStays, FlipIsFollowed DEF RInv
<1>3. QED BY <1>1, <1>2, TypeCorrect, CInvHolds, PTL DEF Spec

\* From the moment an activation is reported until the next one flips current,
\* every image a power loss may leave boots the reported generation.
THEOREM ReportedAlwaysApplied == Spec => []ReportedStaysApplied
<1>1. RInv => ReportedStaysApplied
  BY DEF RInv
<1>2. QED BY <1>1, RInvHolds, PTL
=============================================================================
