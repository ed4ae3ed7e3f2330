---------------------------- MODULE PauseProofs ----------------------------
(***************************************************************************)
(* Proof that widgets stay away while a firmware image is in memory, for   *)
(* any number of runs, queued snapshots, graces and restarts.  A wake of   *)
(* the listener folds Step over its whole queue, so the first section says *)
(* what such a fold keeps, by least counterexamples.                       *)
(***************************************************************************)
EXTENDS UpgradeProofs, WellFoundedInduction

-----------------------------------------------------------------------------
(* What a wake of the listener makes of a queue of any length.             *)

\* What fails for some number fails for a least one.
LEMMA LeastNumber ==
  ASSUME NEW T \in SUBSET Nat, T # {}
  PROVE  \E n \in T : \A m \in T : n <= m
<1>1. PICK n \in T : \A m \in T : <<m, n>> \notin OpToRel(<, Nat)
  BY NatLessThanWellFounded, WFMin
<1>2. \A m \in T : ~(m < n)
  <2>1. SUFFICES ASSUME NEW m \in T, m < n PROVE FALSE
    OBVIOUS
  <2>2. <<m, n>> \in OpToRel(<, Nat)
    BY <2>1 DEF OpToRel
  <2> QED
    BY <1>1, <2>2
<1> QED
  BY <1>2

\* f tells the pause after each of the first n snapshots of q.
Drains(f, q, n) == f = [i \in 0..n |-> IF i = 0 THEN pause ELSE Step(f[i - 1], q[i])]

\* There is such a function for every queue and length.
LEMMA DrainsExists ==
  ASSUME NEW q, NEW n \in Nat
  PROVE  \E f : Drains(f, q, n)
<1> DEFINE T == {k \in Nat : ~ \E f : Drains(f, q, k)}
<1>1. SUFFICES ASSUME T # {} PROVE FALSE
  OBVIOUS
<1>2. PICK k \in T : \A m \in T : k <= m
  <2>1. T \in SUBSET Nat
    OBVIOUS
  <2> HIDE DEF T
  <2> QED
    BY <1>1, <2>1, LeastNumber
<1>3. k # 0
  <2>1. Drains([i \in 0..0 |-> pause], q, 0)
    BY DEF Drains
  <2> QED
    BY <2>1
<1>4. PICK f : Drains(f, q, k - 1)
  <2>1. k - 1 \in Nat /\ k - 1 \notin T
    BY <1>2, <1>3
  <2> QED
    BY <2>1
<1> DEFINE g == [i \in 0..k |-> IF i = k THEN Step(f[k - 1], q[k]) ELSE f[i]]
<1>5. \A i \in 0..k - 1 : f[i] = IF i = 0 THEN pause ELSE Step(f[i - 1], q[i])
  BY <1>4 DEF Drains
<1>6. ASSUME NEW i \in 0..k PROVE g[i] = IF i = 0 THEN pause ELSE Step(g[i - 1], q[i])
  <2>0. k \in Nat
    OBVIOUS
  <2>1. CASE i = k
    <3>1. g[i - 1] = f[k - 1]
      BY <1>3, <2>0, <2>1
    <3> QED
      BY <1>3, <2>0, <2>1, <3>1
  <2>2. CASE i # k /\ i # 0
    <3>1. i \in 0..k - 1 /\ i - 1 \in 0..k /\ i - 1 # k
      BY <2>0, <2>2
    <3>2. g[i - 1] = f[i - 1] /\ g[i] = f[i]
      BY <2>2, <3>1
    <3> QED
      BY <1>5, <2>2, <3>1, <3>2
  <2>3. CASE i # k /\ i = 0
    BY <1>5, <1>3, <2>0, <2>3
  <2> QED
    BY <2>1, <2>2, <2>3
<1>7. g = [i \in 0..k |-> g[i]]
  OBVIOUS
<1> HIDE DEF g
<1>8. Drains(g, q, k)
  BY <1>6, <1>7 DEF Drains
<1> QED
  BY <1>8

\* A wake takes the snapshots one after the other.
LEMMA DrainedStepwise ==
  ASSUME inbox \in Seq(Shots)
  PROVE  \E f : /\ f[0] = pause
                /\ \A i \in 1..Len(inbox) : f[i] = Step(f[i - 1], inbox[i])
                /\ Drained = f[Len(inbox)]
<1>1. Len(inbox) \in Nat
  BY LenProperties
<1> DEFINE f == CHOOSE f : Drains(f, inbox, Len(inbox))
<1>2. Drains(f, inbox, Len(inbox))
  BY <1>1, DrainsExists
<1>3. Drained = f[Len(inbox)]
  BY DEF Drained, Drains
<1> HIDE DEF f
<1>4. f[0] = pause /\ \A i \in 1..Len(inbox) : f[i] = Step(f[i - 1], inbox[i])
  BY <1>1, <1>2 DEF Drains
<1> QED
  BY <1>3, <1>4

\* A set of pauses that the snapshots of the queue do not leave is not left by a wake.
LEMMA DrainedIn ==
  ASSUME inbox \in Seq(Shots), NEW P, pause \in P,
         \A p \in P, i \in 1..Len(inbox) : Step(p, inbox[i]) \in P
  PROVE  Drained \in P
<1>1. Len(inbox) \in Nat
  BY LenProperties
<1>2. PICK f : /\ f[0] = pause
               /\ \A i \in 1..Len(inbox) : f[i] = Step(f[i - 1], inbox[i])
               /\ Drained = f[Len(inbox)]
  BY DrainedStepwise
<1> DEFINE T == {k \in 0..Len(inbox) : f[k] \notin P}
<1>3. SUFFICES ASSUME T # {} PROVE FALSE
  BY <1>1, <1>2
<1>4. PICK k \in T : \A m \in T : k <= m
  <2>1. T \in SUBSET Nat
    OBVIOUS
  <2> HIDE DEF T
  <2> QED
    BY <1>3, <2>1, LeastNumber
<1>5. k \in 1..Len(inbox) /\ k - 1 \in 0..Len(inbox) /\ k - 1 \notin T
  BY <1>1, <1>2, <1>4
<1> QED
  BY <1>2, <1>5

\* The last snapshot of a queue is applied last, whatever the others led to.
LEMMA DrainedLast ==
  ASSUME inbox \in Seq(Shots)
  PROVE  /\ inbox = <<>> => Drained = pause
         /\ inbox # <<>> => \E p : Drained = Step(p, inbox[Len(inbox)])
<1>1. Len(inbox) \in Nat
  BY LenProperties
<1>2. PICK f : /\ f[0] = pause
               /\ \A i \in 1..Len(inbox) : f[i] = Step(f[i - 1], inbox[i])
               /\ Drained = f[Len(inbox)]
  BY DrainedStepwise
<1>3. inbox = <<>> => Len(inbox) = 0
  OBVIOUS
<1>4. inbox # <<>> => Len(inbox) \in 1..Len(inbox)
  BY <1>1, EmptySeq
<1> QED
  BY <1>2, <1>3, <1>4

-----------------------------------------------------------------------------
(* The invariant of the pause.                                             *)

Image == {"download", "verify", "sysupgrade", "applied"}
Held == {"pause"} \cup Image
Pauses == [stage : {"idle", "preparing", "applying"}, gen : Int, armed : BOOLEAN]
Flights == [target : Levels, at : {"queued", "running", "done"}] \cup {NoFlight}

\* Every generation the pause, the display or the queue speaks of has been given.
PauseTyped ==
  /\ pause \in Pauses /\ pause.gen < nextGen
  /\ display \in Shots /\ display.gen < nextGen
  /\ inbox \in Seq(Shots) /\ \A i \in 1..Len(inbox) : inbox[i].gen < nextGen
  /\ flight \in Flights /\ reached \in Levels /\ ack \in Int
  /\ run.gen < nextGen

\* Between operations the widgets are where the pause wants them, and only then
\* a generation is acknowledged.
ListenerFollows ==
  /\ flight = NoFlight => widgets = reached /\ reached = Desired(pause)
  /\ flight.at = "done" => widgets = flight.target
  /\ ack # -1 => flight = NoFlight /\ pause.stage # "idle" /\ ack = pause.gen

\* The forwarder shows the run of its gate and no other.
ShownIsRun ==
  /\ forward # "off" => last.gen = run.gen /\ last.kind = run.kind
  /\ run.pc \in Held => run.kind = "firmware" /\ run.gen \in Nat

Holds(s, g) == s.status = "running" /\ s.kind = "firmware" /\ s.gen = g

\* The newest word on a firmware run, read or still queued, is that it goes on; once
\* read it holds the pause without a grace, and no operation follows the one
\* that was acknowledged.
PauseFollows ==
  /\ run.pc \in Held =>
       IF inbox = <<>> THEN pause.gen = run.gen ELSE Holds(inbox[Len(inbox)], run.gen)
  /\ run.pc \in Held /\ pause.gen = run.gen => pause.stage # "idle" /\ pause.armed = FALSE
  /\ run.pc \in Image => flight = NoFlight /\ pause.gen = run.gen

PInv == PauseTyped /\ ListenerFollows /\ ShownIsRun /\ PauseFollows

pvars == <<pause, reached, flight, ack, widgets, display, inbox, nextGen, run, forward, last>>

LEMMA PauseUntouched ==
  ASSUME PInv, UNCHANGED pvars
  PROVE  PInv'
BY DEF pvars, PInv, PauseTyped, ListenerFollows, ShownIsRun, PauseFollows, Desired, Holds

LEMMA NewProcessPauses ==
  ASSUME NEW s, NewProcess(s), s \in {NoRun, Succeeded("packages"), Succeeded("firmware")}
  PROVE  PInv'
<1>1. s \in Shots /\ s.gen < nextGen' /\ run'.gen = -1 /\ run'.pc = "none" /\ nextGen' \in Nat
  BY Constants DEF NewProcess, NoRun, Succeeded, Snapshot, NoTask
<1>2. inbox' \in Seq(Shots) /\ \A i \in 1..Len(inbox') : inbox'[i].gen < nextGen'
  <2>1. CASE s = NoRun
    BY <2>1 DEF NewProcess
  <2>2. CASE s # NoRun
    BY <1>1, <2>2 DEF NewProcess
  <2> QED
    BY <2>1, <2>2
<1>3. PauseTyped'
  BY <1>1, <1>2 DEF PauseTyped, NewProcess, Idle, Pauses, Flights, Levels
<1>4. ListenerFollows'
  BY DEF ListenerFollows, NewProcess, Idle, NoFlight, Desired
<1>5. ShownIsRun' /\ PauseFollows'
  BY <1>1 DEF ShownIsRun, PauseFollows, NewProcess, Held, Image
<1> QED
  BY <1>3, <1>4, <1>5 DEF PInv

\* The task of a run: a download starts for the acknowledged generation, and later
\* steps follow it.
LEMMA TaskPauses ==
  ASSUME UInv, PInv, NEW a, NEW b, NEW events, NEW l, Task(a, b, events, l),
         UNCHANGED <<pause, reached, flight, ack, widgets>>,
         b # "pause",
         b \in Image => a \in Image \/ (a = "pause" /\ PausedForRun)
  PROVE  PInv'
<1>1. /\ run.pc = a /\ run'.pc = b /\ run'.gen = run.gen /\ run'.kind = run.kind
      /\ UNCHANGED <<display, inbox, nextGen, forward, last>>
  BY DEF UInv, Typed, Tasks, Task
<1>2. PauseTyped' /\ ListenerFollows'
  BY <1>1 DEF PInv, PauseTyped, ListenerFollows, Desired
<1>3. b \in Held => b \in Image /\ a \in Held
  BY DEF Held
<1>4. ShownIsRun'
  BY <1>1, <1>3 DEF PInv, ShownIsRun
<1>5. b \in Image => flight = NoFlight /\ pause.gen = run.gen
  <2>1. CASE a \in Image
    BY <1>1, <2>1 DEF PInv, PauseFollows
  <2>2. CASE a = "pause" /\ PausedForRun
    <3>1. ack # -1 /\ ack = run.gen
      BY <1>1, <2>2 DEF PInv, ShownIsRun, PausedForRun, Held
    <3> QED
      BY <3>1 DEF PInv, ListenerFollows
  <2> QED
    BY <2>1, <2>2
<1>6. PauseFollows'
  BY <1>1, <1>3, <1>5 DEF PInv, PauseFollows, Holds
<1> QED
  BY <1>2, <1>4, <1>6 DEF PInv

LEMMA RunStepPauses ==
  ASSUME UInv, PInv,
         \/ RunStep \/ PauseTimesOut \/ ReportProgress \/ RealizationFinished \/ RunDies
  PROVE  PInv'
<1>1. UNCHANGED <<pause, reached, flight, ack, widgets>>
  BY DEF RunStep, PauseTimesOut, ReportProgress, RealizationFinished, RunDies, AwaitPause,
     EndDownload, Verify, Sysupgrade, StartPackages, Apply, RefreshAfterApply, BeginRefresh,
     EndRefresh, pauseVars
<1>2. \E a, b, events, l :
        /\ Task(a, b, events, l)
        /\ b # "pause"
        /\ b \in Image => a \in Image \/ (a = "pause" /\ PausedForRun)
  <2>1. CASE AwaitPause
    BY <2>1 DEF AwaitPause, Image
  <2>2. CASE PauseTimesOut
    BY <2>2 DEF PauseTimesOut, Image
  <2>3. CASE ReportProgress
    BY <2>3 DEF ReportProgress, Image
  <2>4. CASE RealizationFinished
    BY <2>4 DEF RealizationFinished, Image
  <2>5. CASE EndDownload
    BY <2>5 DEF EndDownload, Image
  <2>6. CASE Verify
    BY <2>6 DEF Verify, Image
  <2>7. CASE Sysupgrade
    BY <2>7 DEF Sysupgrade, Image
  <2>8. CASE StartPackages
    BY <2>8 DEF StartPackages, Image
  <2>9. CASE Apply
    BY <2>9 DEF Apply, Image
  <2>10. CASE RefreshAfterApply
    BY <2>10 DEF RefreshAfterApply, Image
  <2>11. CASE RunDies
    BY <2>11 DEF RunDies, Image
  <2> QED
    BY <2>1, <2>2, <2>3, <2>4, <2>5, <2>6, <2>7, <2>8, <2>9, <2>10, <2>11 DEF RunStep
<1> QED
  BY <1>1, <1>2, TaskPauses

\* A published snapshot is the newest word, unless it was that already.
LEMMA PublishAppends ==
  ASSUME PauseTyped, NEW s \in Shots, NEW g \in Int, s.gen < g, nextGen <= g, nextGen \in Int,
         Publish(s)
  PROVE  /\ display' = s
         /\ inbox' \in Seq(Shots) /\ \A i \in 1..Len(inbox') : inbox'[i].gen < g
         /\ display = s => inbox' = inbox
         /\ display # s => inbox' # <<>> /\ inbox'[Len(inbox')] = s
<1>1. inbox \in Seq(Shots) /\ Len(inbox) \in Nat /\ \A i \in 1..Len(inbox) : inbox[i] \in Shots
  BY LenProperties, ElementOfSeq DEF PauseTyped
<1>2. \A i \in 1..Len(inbox) : inbox[i].gen < g
  BY <1>1 DEF PauseTyped, Shots
<1>3. CASE display = s
  BY <1>1, <1>2, <1>3 DEF Publish
<1>4. CASE display # s
  <2>1. inbox' = Append(inbox, s)
    BY <1>4 DEF Publish
  <2>2. /\ inbox' \in Seq(Shots) /\ Len(inbox') = Len(inbox) + 1 /\ inbox'[Len(inbox) + 1] = s
        /\ \A i \in 1..Len(inbox) : inbox'[i] = inbox[i]
        /\ inbox' # <<>>
    BY <1>1, <2>1, AppendProperties
  <2>3. \A i \in 1..Len(inbox') : inbox'[i].gen < g
    BY <1>1, <1>2, <2>2
  <2> QED
    BY <1>4, <2>2, <2>3 DEF Publish
<1> QED
  BY <1>3, <1>4

LEMMA ForwardEventPauses ==
  ASSUME UInv, PInv, ForwardEvent
  PROVE  PInv'
<1> DEFINE e == Head(chan)
<1>1. /\ forward = "on" /\ chan # <<>> /\ last' = Project(last, e) /\ Publish(last')
      /\ UNCHANGED <<pause, reached, flight, ack, widgets, nextGen, run, forward>>
  BY DEF ForwardEvent, pauseVars
<1>2. /\ last \in Shots /\ nextGen \in Int /\ run.gen \in Int /\ run.gen < nextGen
      /\ last.gen = run.gen /\ last.kind = run.kind
  BY <1>1 DEF UInv, Typed, Tasks, PInv, PauseTyped, ShownIsRun
<1>3. e \in RunEvents
  BY <1>1, HeadTailProperties DEF UInv, Typed
<1>4. run.pc \in Held => e \in Ongoing /\ last.status = "running"
  BY <1>1, HeadTailProperties DEF UInv, StreamFollows, Held, Image
<1> HIDE DEF e
<1>5. last' \in Shots /\ last'.gen = last.gen /\ last'.kind = last.kind
  <2>1. CASE e \in {Phase(p) : p \in RunPhases \ {"none"}}
    BY <1>1, <1>2, <2>1 DEF Project, Phase, Shots
  <2>2. CASE e = Progress
    BY <1>1, <1>2, <2>2 DEF Project, Progress
  <2>3. CASE e = Finished
    BY <1>1, <1>2, <2>3 DEF Project, Finished, Shots, Snapshot, RunPhases
  <2>4. CASE e = Failed
    BY <1>1, <1>2, <2>4 DEF Project, Failed, Shots, Snapshot, RunPhases
  <2> QED
    BY <1>3, <2>1, <2>2, <2>3, <2>4 DEF RunEvents
<1>6. e \in Ongoing => last'.status = last.status
  <2>1. CASE e \in {Phase(p) : p \in RunPhases \ {"none"}}
    BY <1>1, <1>2, <2>1 DEF Project, Phase, Shots
  <2>2. CASE e = Progress
    BY <1>1, <1>2, <2>2 DEF Project, Progress
  <2> QED
    BY <2>1, <2>2 DEF Ongoing
<1>7. /\ display' = last'
      /\ inbox' \in Seq(Shots) /\ \A i \in 1..Len(inbox') : inbox'[i].gen < nextGen
      /\ display = last' => inbox' = inbox
      /\ display # last' => inbox' # <<>> /\ inbox'[Len(inbox')] = last'
  BY <1>1, <1>2, <1>5, PublishAppends DEF PInv
<1>8. PauseTyped'
  BY <1>1, <1>2, <1>5, <1>7 DEF PInv, PauseTyped
<1>9. ListenerFollows' /\ ShownIsRun'
  BY <1>1, <1>2, <1>5 DEF PInv, ListenerFollows, ShownIsRun, Desired
<1>10. run.pc \in Held => Holds(last', run.gen)
  BY <1>2, <1>4, <1>5, <1>6 DEF PInv, ShownIsRun, Holds
<1>11. PauseFollows'
  BY <1>1, <1>7, <1>10 DEF PInv, PauseFollows, Holds
<1> QED
  BY <1>8, <1>9, <1>11 DEF PInv

\* The forwarder of a run that flashes parks: it withdraws nothing.
LEMMA ForwardEndPauses ==
  ASSUME UInv, PInv, ForwardEnd
  PROVE  PInv'
<1>1. /\ forward = "on" /\ chan = <<>> /\ run.pc \in {"ended", "applied"}
      /\ UNCHANGED <<pause, reached, flight, ack, widgets, nextGen, run>>
  BY DEF ForwardEnd, pauseVars
<1>2. CASE Parks
  <2>1. forward' = "parked" /\ UNCHANGED <<display, inbox, last>>
    BY <1>2 DEF ForwardEnd
  <2>2. ShownIsRun'
    BY <1>1, <2>1 DEF PInv, ShownIsRun
  <2>3. PauseTyped' /\ ListenerFollows' /\ PauseFollows'
    BY <1>1, <2>1 DEF PInv, PauseTyped, ListenerFollows, PauseFollows, Desired, Holds
  <2> QED
    BY <2>2, <2>3 DEF PInv
<1>3. CASE ~Parks
  <2>1. run.pc = "ended"
    BY <1>1, <1>3, EmptySeq DEF UInv, StreamFollows, Parks
  <2>2. forward' = "off" /\ (Clear \/ UNCHANGED <<display, inbox>>)
    BY <1>3 DEF ForwardEnd
  <2>3. NoRun \in Shots /\ nextGen \in Int /\ NoRun.gen < nextGen
    BY Constants DEF UInv, Typed, NoRun, Snapshot
  <2>4. /\ display' \in Shots /\ display'.gen < nextGen
        /\ inbox' \in Seq(Shots) /\ \A i \in 1..Len(inbox') : inbox'[i].gen < nextGen
    <3>1. CASE Clear
      BY <2>3, <3>1, PublishAppends DEF PInv, Clear
    <3>2. CASE UNCHANGED <<display, inbox>>
      BY <3>2 DEF PInv, PauseTyped
    <3> QED
      BY <2>2, <3>1, <3>2
  <2>5. PauseTyped' /\ ListenerFollows'
    BY <1>1, <2>4 DEF PInv, PauseTyped, ListenerFollows, Desired
  <2>6. ShownIsRun' /\ PauseFollows'
    BY <1>1, <2>1, <2>2 DEF ShownIsRun, PauseFollows, Held, Image
  <2> QED
    BY <2>5, <2>6 DEF PInv
<1> QED
  BY <1>2, <1>3

\* A new generation is none the pause knows of, and its first snapshot is queued.
LEMMA DispatchPauses ==
  ASSUME UInv, PInv, NEW id, NEW c, Dispatch(id, c), c.kind \in RunKinds,
         UNCHANGED pauseVars
  PROVE  PInv'
<1> DEFINE first == Snapshot(nextGen, c.kind, "running", "none")
<1>1. /\ nextGen' = nextGen + 1 /\ forward' = "on" /\ last' = first /\ Publish(first)
      /\ run'.gen = nextGen /\ run'.kind = c.kind
      /\ run'.pc = (IF c.kind = "firmware" THEN "pause" ELSE "start")
  BY DEF Dispatch
<1>2. nextGen \in Nat
  BY DEF UInv, Typed
<1>3. /\ first \in Shots /\ first.gen = nextGen /\ first.kind = c.kind
      /\ first.status = "running"
  BY <1>2 DEF Snapshot, Shots, RunPhases
<1> HIDE DEF first
<1>4. display # first /\ pause.gen # nextGen
  BY <1>2, <1>3 DEF PInv, PauseTyped, Pauses, Shots
<1>5. /\ display' = first
      /\ inbox' \in Seq(Shots) /\ \A i \in 1..Len(inbox') : inbox'[i].gen < nextGen + 1
      /\ inbox' # <<>> /\ inbox'[Len(inbox')] = first
  <2>1. nextGen \in Int /\ nextGen + 1 \in Int /\ first.gen < nextGen + 1 /\ nextGen <= nextGen + 1
    BY <1>2, <1>3
  <2> QED
    BY <1>1, <1>3, <1>4, <2>1, PublishAppends DEF PInv
<1>6. PauseTyped'
  BY <1>1, <1>2, <1>3, <1>5 DEF PInv, PauseTyped, pauseVars, Pauses
<1>7. ListenerFollows'
  BY DEF PInv, ListenerFollows, Desired, pauseVars
<1>8. ShownIsRun'
  BY <1>1, <1>2, <1>3 DEF ShownIsRun, Held, Image
<1>9. PauseFollows'
  BY <1>1, <1>3, <1>4, <1>5 DEF PauseFollows, Held, Image, Holds, pauseVars
<1> QED
  BY <1>6, <1>7, <1>8, <1>9 DEF PInv

-----------------------------------------------------------------------------
(* The listener.                                                           *)

LEMMA StepTyped ==
  ASSUME NEW p \in Pauses, NEW s \in Shots, NEW g \in Int, p.gen < g, s.gen < g, -1 < g
  PROVE  Step(p, s) \in Pauses /\ Step(p, s).gen < g
<1>1. CASE s = NoRun
  <2> DEFINE b == p.stage = "preparing"
  <2>0. s.status \notin {"running", "rebooting", "succeeded"}
    BY <1>1 DEF NoRun, Snapshot
  <2>1. Step(p, s) = [p EXCEPT !.armed = b]
    BY <1>1, <2>0 DEF Step
  <2>2. b \in BOOLEAN
    OBVIOUS
  <2> HIDE DEF b
  <2> QED
    BY <2>1, <2>2 DEF Pauses
<1>2. CASE s # NoRun /\ s.status = "running" /\ s.kind = "firmware"
  BY <1>2 DEF Step, Pauses, Shots
<1>3. CASE s # NoRun /\ s.status = "rebooting" /\ s.kind = "firmware"
  BY <1>3 DEF Step, Pauses, Shots
<1>4. CASE s # NoRun /\ s.status = "succeeded" /\ s.kind = "firmware"
  BY <1>4 DEF Step
<1>5. CASE s # NoRun /\ (s.kind # "firmware" \/ s.status \notin {"running", "rebooting", "succeeded"})
  BY <1>5 DEF Step, Idle, Pauses
<1> QED
  BY <1>1, <1>2, <1>3, <1>4, <1>5

\* A snapshot that says a firmware run goes on holds the pause, whatever it was.
LEMMA StepHolds ==
  ASSUME NEW p, NEW s, NEW g, Holds(s, g)
  PROVE  Step(p, s).stage # "idle" /\ Step(p, s).gen = g /\ Step(p, s).armed = FALSE
<1>1. s # NoRun
  BY DEF Holds, NoRun, Snapshot
<1> QED
  BY <1>1 DEF Step, Holds

LEMMA DrainedPauses ==
  ASSUME UInv, PInv
  PROVE  /\ Drained \in Pauses /\ Drained.gen < nextGen
         /\ run.pc \in Held => /\ Drained.stage # "idle" /\ Drained.gen = run.gen
                               /\ Drained.armed = FALSE
<1>1. nextGen \in Nat /\ inbox \in Seq(Shots)
  BY DEF UInv, Typed, PInv, PauseTyped
<1>2. Drained \in {p \in Pauses : p.gen < nextGen}
  <2> DEFINE P == {p \in Pauses : p.gen < nextGen}
  <2>1. pause \in P
    BY DEF PInv, PauseTyped
  <2>2. \A p \in P, i \in 1..Len(inbox) : Step(p, inbox[i]) \in P
    BY <1>1, StepTyped, ElementOfSeq DEF PInv, PauseTyped
  <2> HIDE DEF P
  <2>3. Drained \in P
    BY <1>1, <2>1, <2>2, DrainedIn
  <2> QED
    BY <2>3 DEF P
<1>3. ASSUME run.pc \in Held
      PROVE  Drained.stage # "idle" /\ Drained.gen = run.gen /\ Drained.armed = FALSE
  <2>1. CASE inbox = <<>>
    BY <1>1, <1>3, <2>1, DrainedLast DEF PInv, PauseFollows
  <2>2. CASE inbox # <<>>
    <3>1. PICK p : Drained = Step(p, inbox[Len(inbox)])
      BY <1>1, <2>2, DrainedLast
    <3>2. Holds(inbox[Len(inbox)], run.gen)
      BY <1>3, <2>2 DEF PInv, PauseFollows
    <3> DEFINE q == Step(p, inbox[Len(inbox)])
    <3>3. q.stage # "idle" /\ q.gen = run.gen /\ q.armed = FALSE
      BY <3>2, StepHolds
    <3> HIDE DEF q
    <3> QED
      BY <3>1, <3>3 DEF q
  <2> QED
    BY <2>1, <2>2
<1> QED
  BY <1>2, <1>3

\* The end of a wake.
LEMMA ListenPauses ==
  ASSUME UInv, PInv, UNCHANGED serviceVars,
         NEW p \in Pauses, p.gen < nextGen,
         NEW r \in Levels, NEW f \in Flights, Listen(p, r, f),
         f.at # "done", f = NoFlight => widgets = r,
         run.pc \in Held => p.stage # "idle" /\ p.gen = run.gen /\ p.armed = FALSE,
         run.pc \in Image => f = NoFlight /\ r = "stopped"
  PROVE  PInv'
<1>1. /\ pause' = p /\ reached' = r /\ inbox' = <<>>
      /\ UNCHANGED <<display, nextGen, widgets, run, forward, last>>
  BY DEF Listen, serviceVars
<1>2. flight' = IF f = NoFlight /\ Desired(p) # r THEN [target |-> Desired(p), at |-> "queued"] ELSE f
  BY DEF Listen
<1>3. ack' = IF p.stage # "idle" /\ f = NoFlight /\ ~(f = NoFlight /\ Desired(p) # r) THEN p.gen ELSE -1
  BY DEF Listen
<1>4. Desired(p) \in Levels /\ (p.stage # "idle" => Desired(p) = "stopped")
  BY DEF Desired, Levels
<1>5. flight' \in Flights /\ ack' \in Int
  BY <1>2, <1>3, <1>4 DEF Flights, Pauses
<1>6. PauseTyped'
  BY <1>1, <1>5, EmptySeq DEF PInv, PauseTyped
<1>7. ListenerFollows'
  <2>1. flight' = NoFlight => f = NoFlight /\ Desired(p) = r
    BY <1>2 DEF NoFlight
  <2>2. flight'.at # "done"
    BY <1>2
  <2>3. ack' # -1 => p.stage # "idle" /\ flight' = NoFlight /\ ack' = p.gen
    BY <1>2, <1>3
  <2> QED
    BY <1>1, <2>1, <2>2, <2>3 DEF ListenerFollows, Desired
<1>8. ShownIsRun'
  BY <1>1 DEF PInv, ShownIsRun
<1>9. PauseFollows'
  <2>1. run.pc \in Image => run.pc \in Held
    BY DEF Held
  <2>2. run.pc \in Image => flight' = NoFlight
    BY <1>2, <1>4, <2>1
  <2> QED
    BY <1>1, <2>1, <2>2 DEF PauseFollows
<1> QED
  BY <1>6, <1>7, <1>8, <1>9 DEF PInv

LEMMA ListenerPauses ==
  ASSUME UInv, PInv, ListenerStep
  PROVE  PInv'
<1>0. /\ UNCHANGED serviceVars
      /\ flight \in Flights /\ reached \in Levels /\ nextGen \in Nat
  BY DEF ListenerStep, UInv, Typed, PInv, PauseTyped
<1>1. run.pc \in Image => flight = NoFlight /\ reached = "stopped" /\ run.pc \in Held
  BY DEF PInv, PauseFollows, ListenerFollows, Desired, Held
<1>2. NoFlight \in Flights /\ NoFlight.at = "none"
  BY DEF Flights, NoFlight
<1>3. CASE WakeSnapshot
  BY <1>0, <1>1, <1>3, DrainedPauses, ListenPauses DEF WakeSnapshot, PInv, ListenerFollows
<1>4. CASE WakeDone
  <2>1. /\ flight # NoFlight /\ flight.target \in Levels /\ widgets = flight.target
        /\ Listen(Drained, flight.target, NoFlight)
    BY <1>0, <1>2, <1>4 DEF WakeDone, Flights, PInv, ListenerFollows
  <2> QED
    BY <1>0, <1>1, <1>2, <2>1, DrainedPauses, ListenPauses
<1>5. CASE WakeLapsed
  <2>1. run.pc \notin Held
    BY <1>5 DEF WakeLapsed, PInv, PauseFollows
  <2>2. Idle \in Pauses /\ Idle.gen < nextGen
    BY <1>0 DEF Idle, Pauses
  <2> QED
    BY <1>0, <1>1, <1>5, <2>1, <2>2, ListenPauses DEF WakeLapsed, PInv, ListenerFollows
<1>6. CASE BeginOperation \/ EndOperation
  <2>1. /\ flight # NoFlight /\ flight' \in Flights /\ flight' # NoFlight
        /\ flight'.at = "done" => widgets' = flight'.target
        /\ UNCHANGED <<display, inbox, nextGen, pause, reached, ack, run, forward, last>>
    BY <1>0, <1>2, <1>6 DEF BeginOperation, EndOperation, Flights, statusVars, serviceVars
  <2>2. PauseTyped' /\ ShownIsRun'
    BY <2>1 DEF PInv, PauseTyped, ShownIsRun
  <2>3. ListenerFollows'
    BY <2>1 DEF PInv, ListenerFollows
  <2>4. PauseFollows'
    BY <2>1 DEF PInv, PauseFollows, Holds
  <2> QED
    BY <2>2, <2>3, <2>4 DEF PInv
<1> QED
  BY <1>3, <1>4, <1>5, <1>6 DEF ListenerStep, PauseStep

-----------------------------------------------------------------------------
(* The system.                                                             *)

LEMMA InitPauses == Init => PInv
<1> SUFFICES ASSUME Init PROVE PInv
  OBVIOUS
<1>1. PauseTyped
  BY Constants, EmptySeq DEF Init, PauseTyped, Idle, Pauses, Flights, Levels, NoRun, Snapshot, NoTask
<1>2. ListenerFollows /\ ShownIsRun /\ PauseFollows
  BY Constants DEF Init, ListenerFollows, ShownIsRun, PauseFollows, Idle, Desired, NoFlight, Held, Image
<1> QED
  BY <1>1, <1>2 DEF PInv

LEMMA NextPauses ==
  ASSUME UInv, PInv, [Next]_vars
  PROVE  PInv'
<1>1. CASE UNCHANGED pvars
  BY <1>1, PauseUntouched
<1>2. CASE UNCHANGED vars
  BY <1>1, <1>2 DEF vars, statusVars, pauseVars, serviceVars, pvars
<1>3. CASE RunStep \/ PauseTimesOut \/ ReportProgress \/ RealizationFinished \/ RunDies
  BY <1>3, RunStepPauses
<1>4. CASE AppRestart \/ UserRestart \/ Reboot
  BY <1>4, NewProcessPauses DEF AppRestart, UserRestart, Reboot
<1>5. CASE ForwardStep
  BY <1>5, ForwardEventPauses, ForwardEndPauses DEF ForwardStep
<1>6. CASE ListenerStep
  BY <1>6, ListenerPauses
<1>7. CASE EndCheck \/ PeriodicGc \/ BeginCheck \/ BeginWidgetInstall \/ BeginPeriodicGc
             \/ AutoRequested \/ AutoTrigger \/ AutoPrepare \/ AutoFollow
  BY <1>1, <1>7 DEF EndCheck, PeriodicGc, BeginCheck, BeginWidgetInstall, BeginPeriodicGc,
     AutoRequested, AutoTrigger, AutoPrepare, AutoFollow, statusVars, pauseVars, pvars
<1>8. CASE WidgetInstall
  BY <1>1, <1>8 DEF WidgetInstall, BeginRefresh, EndRefresh, statusVars, pauseVars, pvars
<1>9. CASE AutoCollect
  <2>1. auto.kind \in RunKinds /\ UNCHANGED pauseVars
    BY <1>9 DEF AutoCollect, UInv, Typed, Autos
  <2>2. CASE Dispatch(0, [kind |-> auto.kind, install |-> FALSE])
    BY <2>1, <2>2, DispatchPauses
  <2>3. CASE UNCHANGED <<statusVars, run, chan, forward, last, ran, runs>>
    BY <1>1, <2>1, <2>3 DEF statusVars, pauseVars, pvars
  <2> QED
    BY <1>9, <2>2, <2>3 DEF AutoCollect
<1>10. ASSUME NEW id \in 1..MaxOffers, StartUpgrade(id) PROVE PInv'
  <2>1. offer.kind \in RunKinds /\ UNCHANGED pauseVars
    BY <1>10 DEF StartUpgrade, UInv, Typed, Offers
  <2>2. CASE Dispatch(id, offer)
    BY <2>1, <2>2, DispatchPauses
  <2>3. CASE UNCHANGED <<gate, statusVars, run, chan, forward, last, ran, runs>>
    BY <1>1, <2>1, <2>3 DEF statusVars, pauseVars, pvars
  <2> QED
    BY <1>10, <2>2, <2>3 DEF StartUpgrade
<1> QED
  BY <1>2, <1>3, <1>4, <1>5, <1>6, <1>7, <1>8, <1>9, <1>10
     DEF Next, GateStep, AutoStep, Request, Environment

\* ImageHasTheMemory for any bounds: however many snapshots of earlier runs, withdrawn
\* displays and lapsing graces the listener still has to read, an image grows
\* only after every widget has been stopped for its own generation, and none is
\* started before the run is over.
THEOREM MemoryIsFree == Spec => []ImageHasTheMemory
<1>1. PInv => ImageHasTheMemory
  BY DEF PInv, PauseFollows, ListenerFollows, ImageHasTheMemory, Image, Held, Desired
<1> QED
  BY <1>1, UpgradeInvariant, InitPauses, NextPauses, PTL DEF Spec
=============================================================================
