---------------------------- MODULE UpgradeProofs ---------------------------
(***************************************************************************)
(* Proofs about the run gate, the offer slot, the forwarder and the        *)
(* handoff file of UpgradeSystem, for any number of runs, offers, faults   *)
(* and restarts, whatever clients there are.  The widget pause may do      *)
(* anything: nothing here depends on it.                                   *)
(***************************************************************************)
EXTENDS UpgradeSystem, SequenceTheorems, TLAPS

-----------------------------------------------------------------------------
(* The inductive invariant.                                                *)

Pcs == {"none", "pause", "download", "verify", "sysupgrade", "applied", "start",
        "apply", "activate", "refresh", "refreshing", "ended"}
Tasks == [pc : Pcs, gen : Int, id : Nat, kind : RunKinds, install : BOOLEAN]
Shots == [gen : Int, kind : RunKinds \cup {"none"},
          status : {"none", "running", "rebooting", "succeeded", "failed"}, phase : RunPhases]
Offers == [id : Nat, kind : RunKinds, install : BOOLEAN]
Autos == [pc : {"idle", "backoff", "prepare", "collect", "follow"}, attempt : Int, kind : RunKinds]
\* Events that leave a run running, and those of a download.
Ongoing == {Phase(p) : p \in RunPhases \ {"none"}} \cup {Progress}
Loading == {Phase("downloading"), Progress}

Typed ==
  /\ run \in Tasks /\ last \in Shots
  /\ chan \in Seq(RunEvents)
  /\ {nextGen, lastId, restarts} \subseteq Nat
  /\ offer \in Offers /\ auto \in Autos

\* The gate has one owner: the forwarder of a run or the automatic loop, or a
\* client that gives it back itself.
GateOwned ==
  /\ gate = "run" <=> forward # "off"
  /\ gate = "auto" <=> auto.pc \in {"prepare", "collect"}

\* A run that was dispatched, or is about to be, left no offer behind, and an
\* offer in the slot has not run.
SlotFresh ==
  /\ gate = "run" \/ auto.pc = "collect" => offer = NoOffer
  /\ ran \subseteq 1..lastId
  /\ offer.id <= lastId
  /\ offer.id \notin ran

\* What the forwarder still has to read of the run, and what it has shown.
StreamFollows ==
  /\ forward = "off" => chan = <<>> /\ run.pc \in {"none", "ended"}
  /\ forward \in {"off", "on", "parked"}
  /\ forward = "parked" => chan = <<>> /\ run.pc \in {"ended", "applied"}
  /\ forward = "on" /\ run.pc # "ended" => chan \in Seq(Ongoing) /\ last.status = "running"
  /\ forward = "on" /\ run.pc = "applied" =>
       IF chan = <<>> THEN last.phase = "applying" ELSE chan[Len(chan)] = Phase("applying")
  /\ run.pc = "pause" => chan = <<>>
  /\ run.pc = "download" =>
       chan \in Seq(Loading) /\ led \in {"downloadStarted", "downloadProgress"}

\* A whole handoff is that of the run that is past its verification; what an
\* earlier run left is stray.
HandoffFollows ==
  /\ run.pc = "sysupgrade" => (pending = "whole" <=> run.install)
  /\ run.pc \notin {"sysupgrade", "applied"} => pending # "whole"

UInv == Typed /\ GateOwned /\ SlotFresh /\ StreamFollows /\ HandoffFollows

-----------------------------------------------------------------------------
(* Steps that touch little.                                                *)

\* What UInv speaks of.
uvars == <<run, last, chan, nextGen, lastId, offer, auto, gate, forward, ran, led, pending,
           restarts>>

LEMMA Untouched ==
  ASSUME UInv, UNCHANGED uvars
  PROVE  UInv'
BY DEF uvars, UInv, Typed, GateOwned, SlotFresh, StreamFollows, HandoffFollows

LEMMA Constants ==
  /\ NoTask \in Tasks /\ NoTask.pc = "none" /\ NoTask.id = 0
  /\ NoRun \in Shots /\ Succeeded("packages") \in Shots /\ Succeeded("firmware") \in Shots
  /\ NoOffer \in Offers /\ NoOffer.id = 0
  /\ AutoIdle \in Autos /\ AutoIdle.pc = "idle"
  /\ <<>> \in Seq(RunEvents)
BY DEF NoTask, Tasks, Pcs, NoRun, Succeeded, Snapshot, Shots, NoOffer, Offers, AutoIdle, Autos,
   RunKinds, RunPhases

\* A client takes the free gate, or gives back one that is neither a run's nor
\* the automatic loop's.
LEMMA GateMoves ==
  ASSUME UInv, gate \notin {"run", "auto"}, gate' \notin {"run", "auto"},
         UNCHANGED <<run, last, chan, nextGen, lastId, offer, auto, forward, ran, led, pending,
                     restarts>>
  PROVE  UInv'
<1>1. Typed' /\ StreamFollows' /\ HandoffFollows'
  BY DEF UInv, Typed, StreamFollows, HandoffFollows
<1>2. GateOwned' /\ SlotFresh'
  BY DEF UInv, GateOwned, SlotFresh
<1> QED
  BY <1>1, <1>2 DEF UInv

\* A new process knows of no run, offer or upgrade.
LEMMA NewProcessSafe ==
  ASSUME UInv, NEW s, NewProcess(s), s \in {NoRun, Succeeded("packages"), Succeeded("firmware")},
         UNCHANGED <<lastId, ran>>, restarts' \in Nat,
         pending' # "whole"
  PROVE  UInv'
<1>1. Typed'
  BY Constants DEF UInv, Typed, NewProcess
<1>2. GateOwned' /\ StreamFollows' /\ HandoffFollows'
  BY Constants DEF NewProcess, GateOwned, StreamFollows, HandoffFollows
<1>3. SlotFresh'
  BY Constants DEF UInv, Typed, SlotFresh, NewProcess
<1> QED
  BY <1>1, <1>2, <1>3 DEF UInv

-----------------------------------------------------------------------------
(* The task of a run.                                                      *)

LEMMA EventSets ==
  /\ Ongoing \subseteq RunEvents /\ Loading \subseteq Ongoing
  /\ Failed \in RunEvents /\ Finished \in RunEvents /\ Progress \in Loading
  /\ \A p \in RunPhases \ {"none"} : Phase(p) \in Ongoing
BY DEF Ongoing, Loading, RunEvents, RunPhases

LEMMA SeqSubset ==
  ASSUME NEW S, NEW T, S \subseteq T, NEW s \in Seq(S)
  PROVE  s \in Seq(T)
BY Z3

\* While its task works a run has a forwarder that still shows it as running.
LEMMA TaskRuns ==
  ASSUME UInv,
         NEW a \in Pcs \ {"none", "ended", "applied"}, NEW b \in Pcs,
         NEW events \in Seq(RunEvents), NEW l, Task(a, b, events, l)
  PROVE  /\ forward' = "on" /\ chan \in Seq(Ongoing) /\ last' = last /\ last.status = "running"
         /\ run.pc = a /\ run'.pc = b /\ run'.install = run.install
         /\ Typed' /\ GateOwned' /\ SlotFresh'
<1>1. run.pc = a /\ run' \in Tasks /\ run'.pc = b /\ run'.install = run.install
  BY DEF UInv, Typed, Task, Tasks
<1>2. forward = "on" /\ chan \in Seq(Ongoing) /\ last.status = "running"
  BY <1>1 DEF UInv, StreamFollows, Pcs
<1>3. chan' \in Seq(RunEvents)
  BY ConcatProperties DEF UInv, Typed, Task
<1>4. Typed'
  BY <1>1, <1>3 DEF UInv, Typed, Task
<1>5. GateOwned' /\ SlotFresh'
  BY DEF UInv, GateOwned, SlotFresh, Task
<1> QED
  BY <1>1, <1>2, <1>4, <1>5 DEF Task

LEMMA TaskEnds ==
  ASSUME UInv,
         NEW a \in Pcs \ {"none", "ended", "applied"},
         NEW events \in Seq(RunEvents), NEW l, Task(a, "ended", events, l),
         pending' = "whole" => pending' = pending /\ a # "sysupgrade"
  PROVE  UInv'
<1>0. "ended" \in Pcs
  BY DEF Pcs
<1>1. /\ forward' = "on" /\ run.pc = a /\ run'.pc = "ended"
      /\ Typed' /\ GateOwned' /\ SlotFresh'
  BY <1>0, TaskRuns
<1>2. StreamFollows'
  BY <1>1 DEF StreamFollows
<1>3. HandoffFollows'
  BY <1>1 DEF UInv, HandoffFollows, Task
<1> QED
  BY <1>1, <1>2, <1>3 DEF UInv

\* A step to a place of no promise about the stream but that the run goes on.
LEMMA TaskGoesOn ==
  ASSUME UInv,
         NEW a \in Pcs \ {"none", "ended", "applied"},
         NEW b \in Pcs \ {"none", "pause", "download", "applied", "ended"},
         NEW events \in Seq(Ongoing), NEW l, Task(a, b, events, l),
         HandoffFollows'
  PROVE  UInv'
<1>0. events \in Seq(RunEvents)
  BY EventSets, SeqSubset
<1>1. /\ forward' = "on" /\ chan \in Seq(Ongoing) /\ last' = last /\ last.status = "running"
      /\ run'.pc = b
      /\ Typed' /\ GateOwned' /\ SlotFresh'
  BY <1>0, TaskRuns
<1>2. chan' \in Seq(Ongoing)
  BY <1>1, ConcatProperties DEF Task
<1>3. StreamFollows'
  BY <1>1, <1>2 DEF StreamFollows
<1> QED
  BY <1>1, <1>3 DEF UInv

\* The handoff of a step that neither writes nor uses it.
LEMMA HandoffKept ==
  ASSUME UInv,
         NEW a \in Pcs \ {"none", "ended", "applied"}, NEW b \in Pcs, NEW events, NEW l,
         Task(a, b, events, l), pending' = pending,
         a = b \/ "sysupgrade" \notin {a, b}
  PROVE  HandoffFollows'
<1>1. run.pc = a /\ run'.pc = b /\ run'.install = run.install /\ restarts' = restarts
  BY DEF UInv, Typed, Task, Tasks
<1> QED
  BY <1>1 DEF UInv, HandoffFollows

LEMMA AwaitPauseSafe ==
  ASSUME UInv, AwaitPause
  PROVE  UInv'
<1> DEFINE es == <<Phase("downloading")>>
<1>1. /\ Task("pause", "download", es, "downloadStarted") /\ pending' = pending
  BY DEF AwaitPause
<1>2. Phase("downloading") \in Loading
  BY DEF Loading
<1>3. es \in Seq(Loading) /\ es \in Seq(Ongoing) /\ es \in Seq(RunEvents)
  BY <1>2, EventSets
<1> HIDE DEF es
<1>4. "pause" \in Pcs \ {"none", "ended", "applied"} /\ "download" \in Pcs
  BY DEF Pcs
<1>5. /\ forward' = "on" /\ chan \in Seq(Ongoing) /\ last' = last /\ last.status = "running"
      /\ run.pc = "pause" /\ run'.pc = "download"
      /\ Typed' /\ GateOwned' /\ SlotFresh'
  BY <1>1, <1>3, <1>4, TaskRuns
<1>6. chan' = <<>> \o es /\ led' = "downloadStarted"
  BY <1>1, <1>5 DEF UInv, StreamFollows, Task
<1>7. chan' \in Seq(Loading) /\ chan' \in Seq(Ongoing)
  BY <1>3, <1>6, EmptySeq, ConcatProperties
<1>8. StreamFollows'
  BY <1>5, <1>6, <1>7 DEF StreamFollows
<1>9. HandoffFollows'
  BY <1>1, <1>4, HandoffKept
<1> QED
  BY <1>5, <1>8, <1>9 DEF UInv

LEMMA DownloadProgressSafe ==
  ASSUME UInv, Task("download", "download", <<Progress>>, led), pending' = pending
  PROVE  UInv'
<1> DEFINE es == <<Progress>>
<1>1. Task("download", "download", es, led)
  OBVIOUS
<1>3. es \in Seq(Loading) /\ es \in Seq(Ongoing) /\ es \in Seq(RunEvents)
  BY EventSets
<1> HIDE DEF es
<1>4. "download" \in Pcs \ {"none", "ended", "applied"}
  BY DEF Pcs
<1>5. /\ forward' = "on" /\ chan \in Seq(Ongoing) /\ last' = last /\ last.status = "running"
      /\ run.pc = "download" /\ run'.pc = "download"
      /\ Typed' /\ GateOwned' /\ SlotFresh'
  BY <1>1, <1>3, <1>4, TaskRuns
<1>6. /\ chan' = chan \o es /\ led' = led /\ chan \in Seq(Loading)
      /\ led \in {"downloadStarted", "downloadProgress"}
  BY <1>1, <1>5 DEF UInv, StreamFollows, Task
<1>7. chan' \in Seq(Loading) /\ chan' \in Seq(Ongoing)
  BY <1>3, <1>5, <1>6, ConcatProperties
<1>8. StreamFollows'
  BY <1>5, <1>6, <1>7 DEF StreamFollows
<1>9. HandoffFollows'
  BY <1>1, <1>4, HandoffKept
<1> QED
  BY <1>5, <1>8, <1>9 DEF UInv

\* sysupgrade accepts the image: the last event says so.
LEMMA AppliedSafe ==
  ASSUME UInv, NEW l, Task("sysupgrade", "applied", <<Phase("applying")>>, l)
  PROVE  UInv'
<1> DEFINE es == <<Phase("applying")>>
<1>1. Task("sysupgrade", "applied", es, l)
  OBVIOUS
<1>2. Phase("applying") \in Ongoing
  BY EventSets DEF RunPhases
<1>3. es \in Seq(Ongoing) /\ es \in Seq(RunEvents) /\ Len(es) = 1 /\ es[1] = Phase("applying")
  BY <1>2, EventSets
<1> HIDE DEF es
<1>4. "sysupgrade" \in Pcs \ {"none", "ended", "applied"} /\ "applied" \in Pcs
  BY DEF Pcs
<1>5. /\ forward' = "on" /\ chan \in Seq(Ongoing) /\ last' = last /\ last.status = "running"
      /\ run'.pc = "applied"
      /\ Typed' /\ GateOwned' /\ SlotFresh'
  BY <1>1, <1>3, <1>4, TaskRuns
<1>6. chan' = chan \o es
  BY <1>1 DEF Task
<1>7. /\ chan' \in Seq(Ongoing) /\ Len(chan') = Len(chan) + 1
      /\ chan'[Len(chan) + 1] = es[1]
  <2>1. /\ chan' \in Seq(Ongoing) /\ Len(chan') = Len(chan) + Len(es)
        /\ \A i \in 1..Len(chan) + Len(es) :
             chan'[i] = IF i <= Len(chan) THEN chan[i] ELSE es[i - Len(chan)]
    BY <1>3, <1>5, <1>6, ConcatProperties
  <2>2. Len(chan) \in Nat
    BY <1>5, LenProperties
  <2> QED
    BY <1>3, <2>1, <2>2
<1>8. chan' # <<>> /\ chan'[Len(chan')] = Phase("applying")
  BY <1>3, <1>5, <1>7
<1>9. StreamFollows' /\ HandoffFollows'
  BY <1>5, <1>7, <1>8 DEF StreamFollows, HandoffFollows
<1> QED
  BY <1>5, <1>9 DEF UInv

LEMMA VerifySafe ==
  ASSUME UInv, Verify
  PROVE  UInv'
<1>0. "verify" \in Pcs \ {"none", "ended", "applied"}
  BY DEF Pcs
<1>1. CASE Task("verify", "sysupgrade", <<>>, led) /\ pending' = IF run.install THEN "whole" ELSE pending
  <2>0. "sysupgrade" \in Pcs \ {"none", "pause", "download", "applied", "ended"} /\ <<>> \in Seq(Ongoing)
    BY DEF Pcs
  <2>1. run.pc = "verify" /\ run'.pc = "sysupgrade" /\ run'.install = run.install /\ restarts' = restarts
        /\ run.install \in BOOLEAN
    BY <1>1 DEF UInv, Typed, Task, Tasks
  <2>2. HandoffFollows'
    BY <1>1, <2>1 DEF UInv, HandoffFollows
  <2> QED
    BY <1>0, <1>1, <2>0, <2>2, TaskGoesOn
<1>2. CASE /\ Task("verify", "ended", <<Failed>>, led)
           /\ \/ UNCHANGED pending
              \/ run.install /\ pending' = "torn"
  <2>1. <<Failed>> \in Seq(RunEvents)
    BY EventSets
  <2> QED
    BY <1>0, <1>2, <2>1, TaskEnds
<1> QED
  BY <1>1, <1>2 DEF Verify

LEMMA SysupgradeSafe ==
  ASSUME UInv, Sysupgrade
  PROVE  UInv'
<1>1. CASE Task("sysupgrade", "applied", <<Phase("applying")>>, led)
  BY <1>1, AppliedSafe
<1>2. CASE /\ Task("sysupgrade", "ended", <<Failed>>, led)
           /\ \/ pending' = IF run.install THEN "absent" ELSE pending
              \/ run.install /\ pending' = LeftBehind
  <2>1. <<Failed>> \in Seq(RunEvents) /\ "sysupgrade" \in Pcs \ {"none", "ended", "applied"}
    BY EventSets DEF Pcs
  <2>2. pending' # "whole"
    BY <1>2 DEF UInv, HandoffFollows, Task, LeftBehind
  <2> QED
    BY <1>2, <2>1, <2>2, TaskEnds
<1> QED
  BY <1>1, <1>2 DEF Sysupgrade

LEMMA PackagesSafe ==
  ASSUME UInv, StartPackages \/ Apply \/ RefreshAfterApply
  PROVE  UInv'
<1> DEFINE Quiet == {"start", "apply", "activate", "refresh", "refreshing"}
<1>0. /\ Quiet \subseteq Pcs \ {"none", "pause", "download", "sysupgrade", "applied", "ended"}
      /\ pending' = pending
  BY DEF Pcs, StartPackages, Apply, RefreshAfterApply
<1>1. ASSUME NEW a \in Quiet, NEW b \in Quiet, NEW events \in Seq(Ongoing), NEW l,
             Task(a, b, events, l)
      PROVE  UInv'
  <2>1. HandoffFollows'
    BY <1>0, <1>1, HandoffKept
  <2> QED
    BY <1>0, <1>1, <2>1, TaskGoesOn
<1>2. ASSUME NEW a \in Quiet, NEW events \in Seq(RunEvents), NEW l, Task(a, "ended", events, l)
      PROVE  UInv'
  BY <1>0, <1>2, TaskEnds
<1>3. /\ <<>> \in Seq(Ongoing) /\ <<Phase("activating")>> \in Seq(Ongoing)
      /\ <<Failed>> \in Seq(RunEvents) /\ <<Finished>> \in Seq(RunEvents)
  BY EventSets DEF RunPhases
<1>4. CASE StartPackages
  BY <1>1, <1>3, <1>4 DEF StartPackages
<1>5. CASE Apply
  BY <1>1, <1>2, <1>3, <1>5 DEF Apply
<1>6. CASE RefreshAfterApply
  BY <1>1, <1>2, <1>3, <1>6 DEF RefreshAfterApply
<1> QED
  BY <1>4, <1>5, <1>6

LEMMA RunDiesSafe ==
  ASSUME UInv, RunDies
  PROVE  UInv'
<1>1. PICK a \in {"download", "verify", "sysupgrade", "apply", "activate"} :
        Task(a, "ended", <<>>, led)
  BY DEF RunDies
<1>2. a \in Pcs \ {"none", "ended", "applied"} /\ <<>> \in Seq(RunEvents)
  BY DEF Pcs
<1>3. pending' # "whole"
  BY DEF RunDies, LeftBehind
<1> QED
  BY <1>1, <1>2, <1>3, TaskEnds

\* Reports, and what ends a run from outside its task.
LEMMA RunEnvironmentSafe ==
  ASSUME UInv,
         PauseTimesOut \/ EndDownload \/ ReportProgress \/ RealizationFinished
  PROVE  UInv'
<1> DEFINE Working == Pcs \ {"none", "ended", "applied"}
<1>0. pending' = pending
  BY DEF PauseTimesOut, EndDownload, ReportProgress, RealizationFinished
<1>1. /\ {"pause", "download", "verify", "apply", "activate", "sysupgrade"} \subseteq Working
      /\ {"verify", "apply", "sysupgrade"} \subseteq
           Pcs \ {"none", "pause", "download", "applied", "ended"}
  BY DEF Pcs
<1>2. /\ <<>> \in Seq(Ongoing) /\ <<>> \in Seq(RunEvents)
      /\ <<Failed>> \in Seq(RunEvents) /\ <<Phase("verifying")>> \in Seq(Ongoing)
      /\ \A e \in {Progress, Phase("packages")} : <<e>> \in Seq(Ongoing)
  BY EventSets DEF RunPhases
<1>3. ASSUME NEW a \in {"pause", "download", "verify", "apply", "activate"},
             NEW events \in Seq(RunEvents), NEW l, Task(a, "ended", events, l)
      PROVE  UInv'
  BY <1>0, <1>1, <1>3, TaskEnds
<1>4. ASSUME NEW a \in {"apply", "sysupgrade"}, NEW events \in Seq(Ongoing), NEW l,
             Task(a, a, events, l)
      PROVE  UInv'
  <2>1. HandoffFollows'
    BY <1>0, <1>1, <1>4, HandoffKept
  <2> QED
    BY <1>1, <1>4, <2>1, TaskGoesOn
<1>5. CASE PauseTimesOut
  BY <1>2, <1>3, <1>5 DEF PauseTimesOut
<1>6. CASE EndDownload
  <2>1. CASE Task("download", "verify", <<Phase("verifying")>>, "downloadFinished")
    <3>1. HandoffFollows'
      BY <1>0, <1>1, <2>1, HandoffKept
    <3> QED
      BY <1>1, <1>2, <2>1, <3>1, TaskGoesOn
  <2>2. CASE Task("download", "ended", <<Failed>>, led)
    BY <1>2, <1>3, <2>2
  <2> QED
    BY <1>6, <2>1, <2>2 DEF EndDownload
<1>7. CASE ReportProgress
  <2>1. CASE Task("download", "download", <<Progress>>, led)
    BY <1>0, <2>1, DownloadProgressSafe
  <2>2. ASSUME NEW e \in {Progress, Phase("packages")}, NEW a \in {"apply", "sysupgrade"},
               Task(a, a, <<e>>, led)
        PROVE  UInv'
    BY <1>2, <1>4, <2>2
  <2> QED
    BY <1>7, <2>1, <2>2 DEF ReportProgress
<1>8. CASE RealizationFinished
  BY <1>2, <1>4, <1>8 DEF RealizationFinished
<1> QED
  BY <1>5, <1>6, <1>7, <1>8

-----------------------------------------------------------------------------
(* The forwarder.                                                          *)

\* What one event does to the snapshot and to the LED state.
LEMMA EventEffect ==
  ASSUME NEW s \in Shots, NEW e \in RunEvents
  PROVE  /\ Project(s, e) \in Shots
         /\ e \in Ongoing => Project(s, e).status = s.status
         /\ \A p \in RunPhases : e = Phase(p) => Project(s, e).phase = p
         /\ e \in Loading => LedEvent(e) \in {led, "downloadProgress"}
<1>1. CASE e = Progress
  BY <1>1 DEF Progress, Project, LedEvent, Phase, Loading, Shots
<1>2. CASE e \in {Finished, Failed}
  <2>1. e \notin Ongoing /\ e \notin Loading /\ \A p : e # Phase(p)
    BY <1>2 DEF Finished, Failed, Progress, Phase, Ongoing, Loading
  <2>2. Project(s, e) \in Shots
    BY <1>2 DEF Finished, Failed, Project, Snapshot, Shots, RunPhases
  <2> QED
    BY <2>1, <2>2
<1>3. ASSUME NEW p \in RunPhases \ {"none"}, e = Phase(p)
      PROVE  /\ Project(s, e) \in Shots
             /\ Project(s, e).status = s.status
             /\ e.phase = p
             /\ Project(s, e).phase = p
             /\ e \in Loading => LedEvent(e) = led
  <2>1. e.type = "phase" /\ e.phase = p
    BY <1>3 DEF Phase
  <2>2. Project(s, e) = [s EXCEPT !.phase = p]
    BY <2>1 DEF Project
  <2>3. e \in Loading => p = "downloading"
    BY <2>1 DEF Loading, Progress, Phase
  <2>4. p = "downloading" => LedEvent(e) = led
    BY <2>1 DEF LedEvent
  <2> QED
    BY <2>1, <2>2, <2>3, <2>4 DEF Shots
<1>4. \A p, q : Phase(p) = Phase(q) => p = q
  BY DEF Phase
<1> QED
  BY <1>1, <1>2, <1>3, <1>4 DEF RunEvents

LEMMA ForwardEventSafe ==
  ASSUME UInv, ForwardEvent
  PROVE  UInv'
<1> DEFINE e == Head(chan)
<1>1. /\ forward = "on" /\ chan # <<>> /\ chan' = Tail(chan) /\ led' = LedEvent(e)
      /\ last' = Project(last, e)
      /\ UNCHANGED <<run, forward, gate, auto, offer, lastId, nextGen, ran, pending, restarts>>
  BY DEF ForwardEvent
<1>2. /\ e \in RunEvents /\ Tail(chan) \in Seq(RunEvents) /\ last \in Shots
      /\ e = chan[1]
      /\ \A S : chan \in Seq(S) => e \in S /\ Tail(chan) \in Seq(S)
  BY <1>1, HeadTailProperties DEF UInv, Typed
<1>3. /\ Len(chan) \in Nat \ {0} /\ Len(Tail(chan)) = Len(chan) - 1
      /\ \A i \in 1..Len(Tail(chan)) : Tail(chan)[i] = chan[i + 1]
  BY <1>1, HeadTailProperties DEF UInv, Typed
<1> HIDE DEF e
<1>4. /\ Project(last, e) \in Shots
      /\ e \in Ongoing => Project(last, e).status = last.status
      /\ \A p \in RunPhases : e = Phase(p) => Project(last, e).phase = p
      /\ e \in Loading => LedEvent(e) \in {led, "downloadProgress"}
  BY <1>2, EventEffect
<1>5. Typed'
  BY <1>1, <1>2, <1>4 DEF UInv, Typed
<1>6. GateOwned' /\ SlotFresh' /\ HandoffFollows'
  BY <1>1 DEF UInv, GateOwned, SlotFresh, HandoffFollows
<1>7. run.pc # "ended" => chan' \in Seq(Ongoing) /\ last'.status = "running"
  BY <1>1, <1>2, <1>4 DEF UInv, StreamFollows
<1>8. ASSUME run.pc = "applied"
      PROVE  IF chan' = <<>> THEN last'.phase = "applying"
                             ELSE chan'[Len(chan')] = Phase("applying")
  <2>1. chan[Len(chan)] = Phase("applying")
    BY <1>1, <1>8 DEF UInv, StreamFollows
  <2>2. CASE chan' = <<>>
    <3>1. Len(chan) = 1
      BY <1>1, <1>3, <2>2
    <3> QED
      BY <1>1, <1>2, <1>4, <2>1, <2>2, <3>1 DEF RunPhases
  <2>3. CASE chan' # <<>>
    <3>1. Len(chan') \in 1..Len(Tail(chan)) /\ Len(chan') + 1 = Len(chan)
      BY <1>1, <1>2, <1>3, <2>3, EmptySeq
    <3> QED
      BY <1>1, <1>3, <2>1, <2>3, <3>1
  <2> QED
    BY <2>2, <2>3
<1>9. run.pc # "pause"
  BY <1>1 DEF UInv, StreamFollows
<1>10. run.pc = "download" =>
         chan' \in Seq(Loading) /\ led' \in {"downloadStarted", "downloadProgress"}
  BY <1>1, <1>2, <1>4 DEF UInv, StreamFollows
<1>11. StreamFollows'
  BY <1>1, <1>7, <1>8, <1>9, <1>10 DEF StreamFollows
<1> QED
  BY <1>5, <1>6, <1>11 DEF UInv

LEMMA ForwardEndSafe ==
  ASSUME UInv, ForwardEnd
  PROVE  UInv'
<1>1. /\ forward = "on" /\ chan = <<>> /\ run.pc \in {"ended", "applied"} /\ gate = "run"
      /\ UNCHANGED <<run, chan, auto, offer, lastId, nextGen, ran, pending, restarts>>
  BY DEF ForwardEnd, UInv, GateOwned
<1>2. HandoffFollows'
  BY <1>1 DEF UInv, HandoffFollows
<1>3. CASE Parks
  <2>1. forward' = "parked" /\ gate' = gate /\ last' = last
    BY <1>3 DEF ForwardEnd
  <2>2. Typed' /\ GateOwned' /\ SlotFresh'
    BY <1>1, <2>1 DEF UInv, Typed, GateOwned, SlotFresh
  <2>3. StreamFollows'
    BY <1>1, <2>1 DEF StreamFollows
  <2> QED
    BY <1>2, <2>2, <2>3 DEF UInv
<1>4. CASE ~Parks
  <2>1. forward' = "off" /\ gate' = "free" /\ last' = NoRun
    BY <1>4 DEF ForwardEnd
  <2>2. run.pc = "ended"
    BY <1>1, <1>4 DEF UInv, StreamFollows, Parks
  <2>3. Typed'
    BY <1>1, <2>1 DEF UInv, Typed, NoRun, Snapshot, Shots, RunPhases
  <2>4. GateOwned' /\ SlotFresh'
    BY <1>1, <2>1 DEF UInv, GateOwned, SlotFresh
  <2>5. StreamFollows'
    BY <1>1, <2>1, <2>2 DEF StreamFollows
  <2> QED
    BY <1>2, <2>3, <2>4, <2>5 DEF UInv
<1> QED
  BY <1>3, <1>4

-----------------------------------------------------------------------------
(* Offers, starts and the automatic loop.                                  *)

LEMMA EndCheckSafe ==
  ASSUME UInv, EndCheck
  PROVE  UInv'
<1>1. /\ gate = "check" /\ gate' = "free"
      /\ UNCHANGED <<run, last, chan, nextGen, auto, forward, ran, led, pending, restarts>>
      /\ lastId' = IF offer'.id > lastId THEN offer'.id ELSE lastId
  BY DEF EndCheck, statusVars
<1>2. StreamFollows' /\ HandoffFollows'
  BY <1>1 DEF UInv, StreamFollows, HandoffFollows
<1>3. GateOwned'
  BY <1>1 DEF UInv, GateOwned
<1>4. auto.pc # "collect"
  BY <1>1 DEF UInv, GateOwned
<1>5. /\ offer' \in Offers
      /\ offer'.id \in {0, offer.id, lastId + 1}
  <2>1. CASE offer' = offer \/ offer' = NoOffer
    BY <2>1, Constants DEF UInv, Typed
  <2>2. ASSUME NEW c \in Contents, offer' = Stored(c)
        PROVE  /\ offer' \in Offers
               /\ offer'.id \in {offer.id, lastId + 1}
    <3>1. c.kind \in RunKinds /\ c.install \in BOOLEAN
      BY DEF Contents, RunKinds
    <3> QED
      BY <2>2, <3>1 DEF UInv, Typed, Stored, Offers
  <2> QED
    BY <2>1, <2>2 DEF EndCheck
<1>6. Typed'
  <2>1. lastId' \in Nat
    BY <1>1, <1>5 DEF UInv, Typed, Offers
  <2> QED
    BY <1>1, <1>5, <2>1 DEF UInv, Typed
<1>7. SlotFresh'
  <2>1. {offer'.id, offer.id, lastId, lastId'} \subseteq Nat /\ offer.id <= lastId
    BY <1>5, <1>6 DEF UInv, Typed, SlotFresh, Offers
  <2>2. offer'.id <= lastId' /\ lastId <= lastId'
    BY <1>1, <2>1
  <2>3. ran' \subseteq 1..lastId'
    BY <1>1, <2>1, <2>2 DEF UInv, SlotFresh
  <2>4. offer'.id \notin ran
    BY <1>5, <2>1 DEF UInv, SlotFresh
  <2> QED
    BY <1>1, <1>4, <2>2, <2>3, <2>4 DEF SlotFresh
<1> QED
  BY <1>2, <1>3, <1>6, <1>7 DEF UInv

\* A run starts, with the gate free or handed over by the automatic loop.
LEMMA DispatchSafe ==
  ASSUME UInv, NEW id \in Nat, NEW c, c.kind \in RunKinds, c.install \in BOOLEAN,
         Dispatch(id, c), gate # "run",
         id = 0 \/ (id <= lastId /\ id \notin ran),
         offer' = NoOffer, lastId' = lastId, pending' = pending, restarts' = restarts,
         auto' \in Autos,
         auto'.pc \notin {"prepare", "collect"}
  PROVE  UInv'
<1>1. forward = "off" /\ chan = <<>> /\ run.pc \in {"none", "ended"}
  BY DEF UInv, GateOwned, StreamFollows
<1>2. /\ gate' = "run" /\ nextGen' = nextGen + 1 /\ forward' = "on"
      /\ last' = Snapshot(nextGen, c.kind, "running", "none")
      /\ run' = [pc |-> IF c.kind = "firmware" THEN "pause" ELSE "start",
                 gen |-> nextGen, id |-> id, kind |-> c.kind, install |-> c.install]
      /\ ran' = ran \cup ({id} \ {0}) /\ led' = led /\ chan' = chan
  BY DEF Dispatch
<1>3. nextGen \in Nat /\ lastId \in Nat /\ restarts \in Nat /\ chan \in Seq(RunEvents)
  BY DEF UInv, Typed
<1>4. run' \in Tasks /\ last' \in Shots /\ last'.status = "running"
      /\ run'.pc \in {"pause", "start"}
  <2>1. run' \in Tasks /\ run'.pc \in {"pause", "start"}
    BY <1>2, <1>3 DEF Tasks, Pcs
  <2>2. last' \in Shots /\ last'.status = "running"
    BY <1>2, <1>3 DEF Shots, Snapshot, RunPhases
  <2> QED
    BY <2>1, <2>2
<1>5. offer' \in Offers /\ offer'.id = 0
  BY Constants
<1>6. Typed'
  BY <1>2, <1>3, <1>4, <1>5 DEF Typed
<1>7. GateOwned'
  BY <1>2 DEF GateOwned
<1>8. SlotFresh'
  <2>1. ran \subseteq 1..lastId
    BY DEF UInv, SlotFresh
  <2>2. id # 0 => id \in 1..lastId
    BY <1>3
  <2>3. ran' \subseteq 1..lastId'
    BY <1>2, <2>1, <2>2
  <2> QED
    BY <1>3, <1>5, <2>3 DEF SlotFresh
<1>9. StreamFollows'
  BY <1>1, <1>2, <1>4, EmptySeq DEF StreamFollows
<1>10. HandoffFollows'
  BY <1>1, <1>4 DEF UInv, HandoffFollows
<1> QED
  BY <1>6, <1>7, <1>8, <1>9, <1>10 DEF UInv

LEMMA StartUpgradeSafe ==
  ASSUME UInv, NEW id \in 1..MaxOffers, StartUpgrade(id)
  PROVE  UInv'
<1>1. /\ gate = "free" /\ offer.id = id /\ id # 0 /\ offer' = NoOffer
      /\ UNCHANGED <<lastId, pending, auto, restarts>>
  BY DEF StartUpgrade, Claim
<1>2. /\ offer.id \in Nat /\ offer.kind \in RunKinds /\ offer.install \in BOOLEAN
      /\ offer.id <= lastId /\ offer.id \notin ran
      /\ auto.pc \notin {"prepare", "collect"}
  BY <1>1 DEF UInv, Typed, Offers, SlotFresh, GateOwned
<1>3. CASE Dispatch(id, offer)
  BY <1>1, <1>2, <1>3, DispatchSafe DEF UInv, Typed
<1>4. CASE UNCHANGED <<gate, statusVars, run, chan, forward, last, ran, runs>>
  <2>1. Typed'
    BY <1>1, <1>4, Constants DEF UInv, Typed, statusVars
  <2>2. GateOwned' /\ StreamFollows' /\ HandoffFollows'
    BY <1>1, <1>4 DEF UInv, GateOwned, StreamFollows, HandoffFollows, statusVars
  <2>3. SlotFresh'
    <3>1. 0 <= lastId /\ 0 \notin ran
      BY DEF UInv, Typed, SlotFresh
    <3> QED
      BY <1>1, <1>4, <3>1, Constants DEF UInv, SlotFresh
  <2> QED
    BY <2>1, <2>2, <2>3 DEF UInv
<1> QED
  BY <1>3, <1>4 DEF StartUpgrade

\* Steps of the automatic loop that start no run.
LEMMA AutoMoves ==
  ASSUME UInv,
         auto' \in Autos,
         gate' = "auto" <=> auto'.pc \in {"prepare", "collect"},
         gate' = "run" <=> gate = "run",
         auto'.pc = "collect" => offer' = NoOffer,
         offer' \in {offer, NoOffer},
         UNCHANGED <<run, last, chan, nextGen, lastId, forward, ran, led, pending, restarts>>
  PROVE  UInv'
<1>1. Typed'
  BY Constants DEF UInv, Typed
<1>2. GateOwned' /\ StreamFollows' /\ HandoffFollows'
  BY DEF UInv, GateOwned, StreamFollows, HandoffFollows
<1>3. SlotFresh'
  <2>1. offer'.id <= lastId /\ offer'.id \notin ran
    BY Constants DEF UInv, Typed, SlotFresh
  <2>2. gate' = "run" => offer' = NoOffer
    BY DEF UInv, SlotFresh
  <2> QED
    BY <2>1, <2>2 DEF UInv, SlotFresh
<1> QED
  BY <1>1, <1>2, <1>3 DEF UInv

LEMMA AutoStepSafe ==
  ASSUME UInv, AutoStep
  PROVE  UInv'
<1>0. auto \in Autos /\ AutoIdle \in Autos /\ AutoIdle.pc = "idle"
  BY Constants DEF UInv, Typed
<1>1. Retry => auto' \in Autos /\ auto'.pc \in {"idle", "backoff"}
  <2> DEFINE a == [auto EXCEPT !.pc = "backoff", !.attempt = auto.attempt + 1]
  <2>0. auto.attempt + 1 \in Int
    BY <1>0 DEF Autos
  <2>1. a \in Autos /\ a.pc = "backoff"
    BY <1>0, <2>0 DEF Autos
  <2>2. Retry => auto' \in {a, AutoIdle}
    BY DEF Retry
  <2> QED
    BY <1>0, <2>1, <2>2
<1>2. \A p \in {"prepare", "collect", "follow"}, k \in RunKinds :
        LET a == [auto EXCEPT !.pc = p, !.kind = k]
            b == [auto EXCEPT !.pc = p]
        IN  a \in Autos /\ a.pc = p /\ b \in Autos /\ b.pc = p
  BY <1>0 DEF Autos
<1>3. CASE AutoTrigger
  <2>1. /\ auto.pc \in {"idle", "backoff"} /\ gate # "auto"
        /\ UNCHANGED <<run, last, chan, nextGen, lastId, offer, forward, ran, led, pending,
                       restarts>>
    BY <1>3 DEF AutoTrigger, UInv, GateOwned, statusVars
  <2>2. \/ auto' = AutoIdle /\ gate' = gate
        \/ Retry /\ gate' = gate
        \/ gate = "free" /\ gate' = "auto" /\ auto' = [auto EXCEPT !.pc = "prepare"]
    BY <1>3 DEF AutoTrigger
  <2>3. auto' \in Autos /\ (gate' = "auto" <=> auto'.pc \in {"prepare", "collect"})
        /\ auto'.pc # "collect" /\ (gate' = "run" <=> gate = "run")
    BY <1>0, <1>1, <1>2, <2>1, <2>2 DEF RunKinds
  <2> QED
    BY <2>1, <2>3, AutoMoves
<1>4. CASE AutoPrepare
  <2>1. /\ gate = "auto"
        /\ UNCHANGED <<run, last, chan, nextGen, lastId, forward, ran, led, pending, restarts>>
    BY <1>4 DEF AutoPrepare, UInv, GateOwned, statusVars
  <2>2. \/ gate' = "free" /\ (auto' = AutoIdle \/ Retry) /\ offer' = offer
        \/ /\ gate' = "auto" /\ offer' = NoOffer
           /\ \E k \in RunKinds : auto' = [auto EXCEPT !.pc = "collect", !.kind = k]
    BY <1>4 DEF AutoPrepare
  <2>3. auto' \in Autos /\ (gate' = "auto" <=> auto'.pc \in {"prepare", "collect"})
        /\ (auto'.pc = "collect" => offer' = NoOffer) /\ gate' # "run" /\ offer' \in {offer, NoOffer}
    <3>1. CASE gate' = "free" /\ (auto' = AutoIdle \/ Retry) /\ offer' = offer
      BY <1>0, <1>1, <3>1
    <3>2. ASSUME NEW k \in RunKinds, gate' = "auto", offer' = NoOffer,
                 auto' = [auto EXCEPT !.pc = "collect", !.kind = k]
          PROVE  auto' \in Autos /\ auto'.pc = "collect"
      BY <1>2, <3>2
    <3> QED
      BY <2>2, <3>1, <3>2
  <2> QED
    BY <2>1, <2>3, AutoMoves
<1>5. CASE AutoCollect
  <2>1. /\ gate = "auto" /\ offer = NoOffer /\ offer' = NoOffer /\ auto.kind \in RunKinds
        /\ UNCHANGED <<lastId, pending, restarts>>
    BY <1>0, <1>5 DEF AutoCollect, UInv, GateOwned, SlotFresh, Autos
  <2>2. CASE /\ Dispatch(0, [kind |-> auto.kind, install |-> FALSE])
             /\ auto' = [auto EXCEPT !.pc = "follow"]
    <3> DEFINE c == [kind |-> auto.kind, install |-> FALSE]
    <3>1. Dispatch(0, c) /\ c.kind \in RunKinds /\ c.install \in BOOLEAN
      BY <2>1, <2>2
    <3>2. auto' \in Autos /\ auto'.pc = "follow"
      BY <1>2, <2>2 DEF RunKinds
    <3> HIDE DEF c
    <3> QED
      BY <2>1, <3>1, <3>2, DispatchSafe
  <2>3. CASE /\ gate' = "free" /\ auto' = AutoIdle
             /\ UNCHANGED <<statusVars, run, chan, forward, last, ran, runs>>
    BY <1>0, <2>1, <2>3, AutoMoves DEF statusVars
  <2> QED
    BY <1>5, <2>2, <2>3 DEF AutoCollect
<1>6. CASE AutoFollow
  <2>1. /\ auto' = AutoIdle /\ gate # "auto"
        /\ UNCHANGED <<run, last, chan, nextGen, lastId, offer, gate, forward, ran, led, pending,
                       restarts>>
    BY <1>6 DEF AutoFollow, UInv, GateOwned, statusVars
  <2> QED
    BY <1>0, <2>1, AutoMoves
<1> QED
  BY <1>3, <1>4, <1>5, <1>6 DEF AutoStep

-----------------------------------------------------------------------------
(* The system.                                                             *)

LEMMA InitSafe == Init => UInv
<1> SUFFICES ASSUME Init PROVE UInv
  OBVIOUS
<1>1. Typed
  BY Constants DEF Init, Typed
<1>2. GateOwned /\ SlotFresh /\ StreamFollows /\ HandoffFollows
  BY Constants DEF Init, GateOwned, SlotFresh, StreamFollows, HandoffFollows
<1> QED
  BY <1>1, <1>2 DEF UInv

\* The widget pause, whatever it decides, and the clients of the gate.
LEMMA OthersSafe ==
  ASSUME UInv,
         \/ ListenerStep \/ BeginCheck \/ BeginWidgetInstall \/ WidgetInstall
         \/ BeginPeriodicGc \/ PeriodicGc \/ AutoRequested
  PROVE  UInv'
<1>1. CASE ListenerStep
  <2>1. led' = led /\ nextGen' = nextGen
    BY <1>1 DEF ListenerStep, PauseStep, WakeSnapshot, WakeDone, WakeLapsed, Listen,
       BeginOperation, EndOperation, statusVars
  <2> QED
    BY <1>1, <2>1, Untouched DEF ListenerStep, serviceVars, uvars
<1>2. CASE AutoRequested
  BY <1>2, Untouched DEF AutoRequested, uvars, statusVars
<1>3. CASE BeginCheck \/ BeginWidgetInstall \/ BeginPeriodicGc
  BY <1>3, GateMoves DEF BeginCheck, BeginWidgetInstall, BeginPeriodicGc, statusVars
<1>4. CASE WidgetInstall
  BY <1>4, GateMoves DEF WidgetInstall, statusVars
<1>5. CASE PeriodicGc
  BY <1>5, GateMoves DEF PeriodicGc, statusVars
<1> QED
  BY <1>1, <1>2, <1>3, <1>4, <1>5

\* A new process, after a restart or the reboot of a flashed board.
LEMMA RestartsSafe ==
  ASSUME UInv, AppRestart \/ UserRestart \/ Reboot
  PROVE  UInv'
<1>1. restarts \in Nat
  BY DEF UInv, Typed
<1>2. CASE AppRestart
  BY <1>1, <1>2, NewProcessSafe DEF AppRestart, LeftBehind
<1>3. CASE UserRestart
  BY <1>1, <1>3, NewProcessSafe DEF UserRestart
<1>4. CASE Reboot
  BY <1>1, <1>4, NewProcessSafe DEF Reboot
<1> QED
  BY <1>2, <1>3, <1>4

LEMMA NextSafe ==
  ASSUME UInv, [Next]_vars
  PROVE  UInv'
<1>1. CASE UNCHANGED vars
  BY <1>1, Untouched DEF vars, statusVars, serviceVars, uvars
<1>2. CASE RunStep
  BY <1>2, AwaitPauseSafe, RunEnvironmentSafe, VerifySafe, SysupgradeSafe, PackagesSafe DEF RunStep
<1>3. CASE ForwardStep
  BY <1>3, ForwardEventSafe, ForwardEndSafe DEF ForwardStep
<1>4. CASE ListenerStep \/ GateStep \/ Request
  BY <1>4, OthersSafe, EndCheckSafe, StartUpgradeSafe DEF GateStep, Request
<1>5. CASE AutoStep
  BY <1>5, AutoStepSafe
<1>6. CASE Environment
  BY <1>6, RunEnvironmentSafe, RunDiesSafe, RestartsSafe DEF Environment
<1> QED
  BY <1>1, <1>2, <1>3, <1>4, <1>5, <1>6 DEF Next

\* The invariant holds of every behaviour of the upgrade service.
THEOREM UpgradeInvariant == Spec => []UInv
BY InitSafe, NextSafe, PTL DEF Spec

\* OffersPredateNoRun for any bounds: whoever started the run, by whichever of the
\* two ways to the gate, the slot was emptied before the gate became the run's.
THEOREM NoOfferDuringRun == Spec => []OffersPredateNoRun
<1>1. UInv => OffersPredateNoRun
  BY DEF UInv, SlotFresh, OffersPredateNoRun
<1> QED
  BY <1>1, UpgradeInvariant, PTL

\* OfferRunsOnce for any bounds: an id is claimed once, kept ids of replaced or
\* finished offers find nothing, and ids are never given again.
THEOREM OffersRunOnce == Spec => OfferRunsOnce
<1> DEFINE Once == run'.id # 0 /\ run'.gen # run.gen => run'.id \notin ran
<1>1. ASSUME UInv, [Next]_vars PROVE Once
  <2>1. ASSUME NEW a, NEW b, NEW events, NEW l, Task(a, b, events, l) PROVE Once
    BY <1>1, <2>1 DEF Task, UInv, Typed, Tasks
  <2>2. ASSUME NEW s, NewProcess(s) PROVE Once
    BY <2>2 DEF NewProcess, NoTask
  <2>3. CASE UNCHANGED run
    BY <2>3
  <2>4. ASSUME NEW id \in 1..MaxOffers, StartUpgrade(id) PROVE Once
    <3>1. offer.id = id /\ id \notin ran
      BY <1>1, <2>4 DEF StartUpgrade, Claim, UInv, SlotFresh
    <3>2. CASE Dispatch(id, offer)
      BY <3>1, <3>2 DEF Dispatch
    <3>3. CASE UNCHANGED run
      BY <2>3, <3>3
    <3> QED
      BY <2>4, <3>2, <3>3 DEF StartUpgrade
  <2>5. CASE AutoStep
    <3>1. ASSUME NEW c, Dispatch(0, c) PROVE Once
      BY <3>1 DEF Dispatch
    <3>2. CASE AutoCollect
      BY <2>3, <3>1, <3>2 DEF AutoCollect
    <3>3. CASE AutoTrigger \/ AutoPrepare \/ AutoFollow
      BY <2>3, <3>3 DEF AutoTrigger, AutoPrepare, AutoFollow
    <3> QED
      BY <2>5, <3>2, <3>3 DEF AutoStep
  <2>6. CASE RunStep
    BY <2>1, <2>6 DEF RunStep, AwaitPause, EndDownload, Verify, Sysupgrade, StartPackages, Apply,
       RefreshAfterApply
  <2>7. CASE Environment
    BY <2>1, <2>2, <2>7 DEF Environment, PauseTimesOut, ReportProgress, RealizationFinished,
       RunDies, AppRestart, UserRestart, Reboot
  <2>8. CASE ForwardStep \/ ListenerStep \/ GateStep
    BY <2>3, <2>8 DEF ForwardStep, ForwardEvent, ForwardEnd, ListenerStep, serviceVars, GateStep,
       EndCheck, WidgetInstall, PeriodicGc
  <2>9. CASE BeginCheck \/ BeginWidgetInstall \/ BeginPeriodicGc \/ AutoRequested
    BY <2>3, <2>9 DEF BeginCheck, BeginWidgetInstall, BeginPeriodicGc, AutoRequested
  <2>10. CASE UNCHANGED vars
    BY <2>3, <2>10 DEF vars, serviceVars
  <2> QED
    BY <1>1, <2>4, <2>5, <2>6, <2>7, <2>8, <2>9, <2>10 DEF Next, Request
<1> QED
  BY <1>1, UpgradeInvariant, PTL DEF Spec, OfferRunsOnce

\* DownloadIsNotWasted for any bounds: whatever is still queued for the forwarder
\* of a downloading run keeps the LED state one that declines a restart.
THEOREM DownloadsGoOn == Spec => []DownloadIsNotWasted
<1>1. UInv => DownloadIsNotWasted
  BY DEF UInv, StreamFollows, DownloadIsNotWasted, BlocksRestart
<1> QED
  BY <1>1, UpgradeInvariant, PTL

\* HandoffIsOwn for any bounds and any sequence of runs, refused images, torn
\* writes, failing removals, dying tasks and restarts.
THEOREM HandoffsAreOwn == Spec => []HandoffIsOwn
<1>1. UInv => HandoffIsOwn
  BY DEF UInv, HandoffFollows, HandoffIsOwn
<1> QED
  BY <1>1, UpgradeInvariant, PTL

\* "The reboot ends the run; nothing may start before it": once sysupgrade has
\* taken the image over, the forwarder cannot end in a way that frees the gate,
\* however far behind its channel it is.
THEOREM RebootEndsTheRun == Spec => []NothingBeforeReboot
<1>1. UInv => NothingBeforeReboot
  BY DEF UInv, GateOwned, StreamFollows, NothingBeforeReboot
<1> QED
  BY <1>1, UpgradeInvariant, PTL
=============================================================================
