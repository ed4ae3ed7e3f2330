--------------------------- MODULE UpgradeSystem ----------------------------
(***************************************************************************)
(* The upgrade service and the widget pause together, with requests from   *)
(* clients, restarts of the application, restarts by the user and the      *)
(* reboot that ends a firmware run.                                        *)
(***************************************************************************)
EXTENDS UpgradeService

TypeOK ==
  /\ display \in Snapshots /\ last \in Snapshots
  /\ inbox \in Seq(Snapshots)
  /\ nextGen \in Nat
  /\ led \in Leds
  /\ pause \in [stage : {"idle", "preparing", "applying"}, gen : Nat \cup {-1}, armed : BOOLEAN]
  /\ reached \in Levels /\ widgets \in Levels
  /\ flight \in [target : Levels, at : {"queued", "running", "done"}] \cup {NoFlight}
  /\ ack \in Nat \cup {-1}
  /\ mutex \in {"free", "pause", "refresh"}
  /\ gate \in {"free", "check", "auto", "run", "widget", "widgetRefresh", "widgetRefreshing", "gc"}
  /\ offer \in [id : 0..MaxOffers, kind : RunKinds, install : BOOLEAN]
  /\ lastId \in 0..MaxOffers
  /\ run \in [pc : {"none", "pause", "download", "verify", "sysupgrade", "applied", "start",
                    "apply", "activate", "refresh", "refreshing", "ended"},
              gen : Nat \cup {-1}, id : 0..MaxOffers, kind : RunKinds, install : BOOLEAN]
  /\ chan \in Seq(RunEvents)
  /\ forward \in {"off", "on", "parked"}
  /\ pending \in {"absent", "torn", "whole", "stray"}
  /\ auto \in [pc : {"idle", "backoff", "prepare", "collect", "follow"},
               attempt : 0..MaxAttempts, kind : RunKinds]
  /\ {enabled, wanted, escalate} \subseteq BOOLEAN
  /\ ran \subseteq 1..MaxOffers
  /\ runs \in 0..MaxRuns
  /\ faults \in 0..MaxFaults
  /\ restarts \in 0..MaxRestarts

Init ==
  /\ display = NoRun /\ inbox = <<>> /\ nextGen = 0 /\ led = "none"
  /\ pause = Idle /\ reached = "running" /\ flight = NoFlight
  /\ ack = -1 /\ mutex = "free" /\ widgets = "running"
  /\ gate = "free" /\ offer = NoOffer
  /\ run = NoTask /\ chan = <<>> /\ forward = "off" /\ last = NoRun
  /\ auto = AutoIdle /\ wanted = FALSE /\ escalate = FALSE
  /\ pending = "absent"
  /\ enabled = ("auto" \in Clients)
  /\ lastId = 0 /\ ran = {} /\ runs = 0 /\ faults = 0 /\ restarts = 0

-----------------------------------------------------------------------------
\* A new process, that shows the success its markers tell of, if any.
Succeeded(k) == Snapshot(0, k, "succeeded", "none")

NewProcess(s) ==
  /\ display' = s
  /\ inbox' = IF s = NoRun THEN <<>> ELSE <<s>>
  /\ nextGen' = IF s = NoRun THEN 0 ELSE 1
  /\ led' = "none"
  /\ pause' = Idle /\ reached' = "running" /\ flight' = NoFlight
  /\ ack' = -1 /\ mutex' = "free" /\ widgets' = "running"
  /\ gate' = "free" /\ offer' = NoOffer
  /\ run' = NoTask /\ chan' = <<>> /\ forward' = "off" /\ last' = NoRun
  /\ auto' = AutoIdle /\ wanted' = FALSE /\ escalate' = FALSE

\* The application is restarted, by its supervisor or by an activation.
AppRestart ==
  /\ restarts < MaxRestarts
  /\ restarts' = restarts + 1
  /\ \E s \in {NoRun, Succeeded("packages")} : NewProcess(s)
  /\ pending' = LeftBehind
  /\ UNCHANGED <<enabled, lastId, ran, runs, faults>>

\* The user restarts the device from its settings.
UserRestart ==
  /\ ~BlocksRestart(led)
  /\ restarts < MaxRestarts
  /\ restarts' = restarts + 1
  /\ NewProcess(NoRun)
  /\ pending' = "absent"
  /\ UNCHANGED <<enabled, lastId, ran, runs, faults>>

\* sysupgrade has flashed the image and reboots into it.
Reboot ==
  /\ run.pc = "applied"
  /\ \E s \in {NoRun, Succeeded("firmware")} : NewProcess(s)
  /\ pending' = "absent"
  /\ UNCHANGED <<enabled, lastId, ran, runs, faults, restarts>>

-----------------------------------------------------------------------------
ListenerStep == PauseStep /\ UNCHANGED serviceVars
GateStep == EndCheck \/ WidgetInstall \/ PeriodicGc
Request ==
  \/ BeginCheck \/ BeginWidgetInstall \/ BeginPeriodicGc \/ AutoRequested
  \/ \E id \in 1..MaxOffers : StartUpgrade(id)
Environment ==
  \/ PauseTimesOut \/ ReportProgress \/ RealizationFinished \/ RunDies
  \/ AppRestart \/ UserRestart \/ Reboot

Next ==
  \/ ListenerStep \/ RunStep \/ ForwardStep \/ GateStep \/ AutoStep
  \/ Request \/ Environment

Spec == Init /\ [][Next]_vars

\* Spawned tasks run, every await in them ends: downloads by their idle
\* timeout, sysupgrade and the backend by an exit.  The operations mutex is a
\* fair queue: refreshes do not overtake a waiting operation for ever.
FairSpec ==
  /\ Spec
  /\ SF_vars(BeginOperation /\ UNCHANGED serviceVars)
  /\ WF_vars(ListenerStep) /\ WF_vars(RunStep) /\ WF_vars(ForwardStep)
  /\ WF_vars(GateStep) /\ WF_vars(AutoStep)

-----------------------------------------------------------------------------
\* spawn_firmware_run: "The image lands on tmpfs, so widgets must be gone
\* before it grows", and they stay gone until the run is over.
ImageHasTheMemory ==
  run.pc \in {"download", "verify", "sysupgrade", "applied"} => widgets = "stopped"

\* OfferSlot: "an offer runs at most once", whatever ids clients kept.
OfferRunsOnce ==
  [][run'.id # 0 /\ run'.gen # run.gen => run'.id \notin ran]_vars

\* While a run changes the device, no offer made before it can be claimed.
OffersPredateNoRun == gate = "run" => offer = NoOffer

\* blocks_restart: a running firmware download is not thrown away by a
\* restart, whichever of its task and the forwarder wrote the state last.
DownloadIsNotWasted == run.pc = "download" => BlocksRestart(led)

\* clear_pending_install: "a later unrelated successful firmware upgrade
\* cannot consume it": sysupgrade finds the complete handoff of its own run if
\* that is to install widgets, and otherwise none but a stray one, which the
\* code leaves in three ways: the removal itself failed ("Best-effort"), the
\* task died in sysupgrade, or the application was restarted in a run.
HandoffIsOwn ==
  run.pc = "sysupgrade" => (pending = "whole" <=> run.install)

\* forward_events: "The reboot ends the run; nothing may start before it", as
\* nothing starts while the gate is taken.
NothingBeforeReboot == run.pc = "applied" => gate = "run"

\* The gate is given back, or the board goes down with it.
GateComesBack == gate # "free" ~> (gate = "free" \/ run.pc = "applied")

\* Stopped widgets are started again, unless the board is being flashed.
WidgetsComeBack == widgets = "stopped" ~> (widgets = "running" \/ run.pc = "applied")

-----------------------------------------------------------------------------
\* blocks_restart: "an active upgrade (flashing) is genuinely dangerous", so a
\* restart is declined while sysupgrade works or flashes.
FlashIsNotCutShort == run.pc \in {"sysupgrade", "applied"} => BlocksRestart(led)

\* Does not hold, and no run checks it (README, section 5).
\* docs/devel/widget-lifecycle.md: "The upgrade run gate remains held through
\* recovery, so another upgrade cannot overlap pause with an unfinished resume".
GateHeldThroughRecovery ==
  gate = "free" => flight.target # "running" /\ widgets = "running"
=============================================================================
