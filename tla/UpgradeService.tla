--------------------------- MODULE UpgradeService ---------------------------
(***************************************************************************)
(* The upgrade service of a self-managed device (system_upgrade.rs): one   *)
(* run gate, taken by try_lock, for checks, manual and automatic upgrades, *)
(* widget uploads and the periodic collection; one claimable offer; the    *)
(* task of a run, the task that forwards its events, and the handoff file  *)
(* a firmware run leaves for sysupgrade.                                   *)
(***************************************************************************)
EXTENDS WidgetPause

CONSTANTS
  Clients,      \* which clients there are: "manual", "widget", "gc", "auto"
  MaxRuns,      \* runs dispatched
  MaxOffers,    \* offers that got an id of their own
  MaxAttempts,  \* AUTOUPGRADE_RETRY_MAX_ATTEMPTS
  MaxChan,      \* progress is reported while fewer events wait
  MaxFaults,    \* run tasks that die without an outcome
  MaxRestarts   \* restarts of the application or the device by others

ASSUME BoundsAssumption ==
  /\ Clients \subseteq {"manual", "widget", "gc", "auto"}
  /\ {MaxRuns, MaxOffers, MaxAttempts, MaxChan} \subseteq Nat \ {0}
  /\ {MaxFaults, MaxRestarts} \subseteq Nat

VARIABLES
  gate,       \* what holds the run gate
  offer,      \* the slot: [id, kind, install], id 0 when empty
  lastId,     \* ids given to offers so far
  run,        \* the task of the run: [pc, gen, id, kind, install]
  chan,       \* its events on their way to the forwarder
  forward,    \* the forwarder: off, on or parked
  last,       \* the last snapshot it published
  pending,    \* the handoff file: absent, torn, whole, or stray: whole, its run gone
  auto,       \* the automatic upgrade loop: [pc, attempt, kind]
  enabled,    \* autoupgrade_enabled
  wanted,     \* the permit of its notifier
  escalate,   \* escalate_sweep of the periodic collection
  ran,        \* history: the ids of the offers that were dispatched
  runs, faults, restarts

serviceVars ==
  <<gate, offer, lastId, run, chan, forward, last, pending, auto, enabled, wanted,
    escalate, ran, runs, faults, restarts>>
vars == <<statusVars, pauseVars, serviceVars>>

\* What a run does to the device; install: its firmware is to carry widgets.
Contents == [kind : {"firmware"}, install : BOOLEAN] \cup [kind : {"packages"}, install : {FALSE}]
NoOffer == [id |-> 0, kind |-> "packages", install |-> FALSE]
NoTask == [pc |-> "none", gen |-> -1, id |-> 0, kind |-> "packages", install |-> FALSE]
AutoIdle == [pc |-> "idle", attempt |-> 0, kind |-> "packages"]

\* A run starts: a new generation, its task, and the forwarder with the gate.
Dispatch(id, c) ==
  LET first == Snapshot(nextGen, c.kind, "running", "none")
  IN  /\ runs < MaxRuns
      /\ runs' = runs + 1
      /\ gate' = "run"
      /\ nextGen' = nextGen + 1
      /\ run' = [pc |-> IF c.kind = "firmware" THEN "pause" ELSE "start",
                 gen |-> nextGen, id |-> id, kind |-> c.kind, install |-> c.install]
      /\ forward' = "on"
      /\ last' = first
      /\ Publish(first)
      /\ ran' = ran \cup ({id} \ {0})
      /\ UNCHANGED <<led, chan>>

-----------------------------------------------------------------------------
(* Checks and manual starts.                                               *)

BeginCheck ==
  /\ "manual" \in Clients
  /\ gate = "free"
  /\ gate' = "check"
  /\ UNCHANGED <<statusVars, pauseVars, offer, lastId, run, chan, forward, last, pending,
                 auto, enabled, wanted, escalate, ran, runs, faults, restarts>>

\* OfferSlot::store: the same content keeps its id.
Stored(c) ==
  [id |-> IF offer.id # 0 /\ offer.kind = c.kind /\ offer.install = c.install
            THEN offer.id ELSE lastId + 1,
   kind |-> c.kind, install |-> c.install]

\* A failed or abandoned check keeps the offer, an empty one drops it.
EndCheck ==
  /\ gate = "check"
  /\ gate' = "free"
  /\ \/ UNCHANGED offer
     \/ offer' = NoOffer
     \/ \E c \in Contents : offer' = Stored(c)
  /\ offer'.id <= MaxOffers
  /\ lastId' = IF offer'.id > lastId THEN offer'.id ELSE lastId
  /\ UNCHANGED <<statusVars, pauseVars, run, chan, forward, last, pending,
                 auto, enabled, wanted, escalate, ran, runs, faults, restarts>>

\* Mutant: OfferSlot::claim that leaves the offer in the slot.
ClaimLeaves(id) == offer.id = id /\ id # 0 /\ offer' = offer
Claim(id) == offer.id = id /\ id # 0 /\ offer' = NoOffer

\* The request names an id some check returned; the store may prove too full.
StartUpgrade(id) ==
  /\ gate = "free"
  /\ Claim(id)
  /\ \/ Dispatch(id, offer)
     \/ UNCHANGED <<gate, statusVars, run, chan, forward, last, ran, runs>>
  /\ UNCHANGED <<pauseVars, lastId, pending, auto, enabled, wanted, escalate,
                 faults, restarts>>

-----------------------------------------------------------------------------
(* The task of a run.  It reports through chan, and to the LEDs directly.  *)

\* One step of the task from pc a to pc b, that sends events and shows l.
Task(a, b, events, l) ==
  /\ run.pc = a
  /\ run' = [run EXCEPT !.pc = b]
  /\ chan' = chan \o events
  /\ led' = l
  /\ UNCHANGED <<display, inbox, nextGen, gate, offer, lastId, forward, last,
                 auto, enabled, wanted, escalate, ran, runs, restarts>>

\* wait_for(paused >= generation), then paused = generation.
PausedForRun == ack = run.gen

AwaitPause ==
  /\ PausedForRun
  /\ Task("pause", "download", <<Phase("downloading")>>, "downloadStarted")
  /\ UNCHANGED <<pauseVars, pending, faults>>

\* WIDGET_PAUSE_TIMEOUT; an acknowledgement that is there is taken first.
PauseTimesOut ==
  /\ ~PausedForRun
  /\ Task("pause", "ended", <<Failed>>, led)
  /\ UNCHANGED <<pauseVars, pending, faults>>

ReportProgress ==
  /\ Len(chan) < MaxChan
  /\ \/ Task("download", "download", <<Progress>>, led)
     \/ \E e \in {Progress, Phase("packages")} :
          Task("sysupgrade", "sysupgrade", <<e>>, led) \/ Task("apply", "apply", <<e>>, led)
  /\ UNCHANGED <<pauseVars, pending, faults>>

\* on_realization_finished, of an apply or read from sysupgrade's output.
RealizationFinished ==
  /\ led # "downloadFinished"
  /\ \/ Task("apply", "apply", <<>>, "downloadFinished")
     \/ Task("sysupgrade", "sysupgrade", <<>>, "downloadFinished")
  /\ UNCHANGED <<pauseVars, pending, faults>>

EndDownload ==
  /\ \/ Task("download", "verify", <<Phase("verifying")>>, "downloadFinished")
     \/ Task("download", "ended", <<Failed>>, led)
  /\ UNCHANGED <<pauseVars, pending, faults>>

\* Verification, then the handoff if widgets are to be installed.  A failed
\* write of it, on the tmpfs that holds the image, can leave a part of it.
Verify ==
  /\ \/ /\ Task("verify", "sysupgrade", <<>>, led)
        /\ pending' = IF run.install THEN "whole" ELSE pending
     \/ /\ Task("verify", "ended", <<Failed>>, led)
        /\ \/ UNCHANGED pending
           \/ run.install /\ pending' = "torn"
  /\ UNCHANGED <<pauseVars, faults>>

\* A complete handoff that nobody removed when its run went away.
LeftBehind == IF pending = "whole" THEN "stray" ELSE pending

\* Mutant: a run that leaves the handoff of a refused image behind.
SysupgradeKeepsHandoff ==
  /\ Task("sysupgrade", "applied", <<Phase("applying")>>, led)
       \/ Task("sysupgrade", "ended", <<Failed>>, led)
  /\ UNCHANGED <<pauseVars, pending, faults>>

\* sysupgrade, external, accepts the image and goes on to flash it, or refuses.
\* clear_pending_install is best effort: a remove_file that fails only warns.
Sysupgrade ==
  /\ \/ /\ Task("sysupgrade", "applied", <<Phase("applying")>>, led)
        /\ UNCHANGED pending
     \/ /\ Task("sysupgrade", "ended", <<Failed>>, led)
        /\ \/ pending' = IF run.install THEN "absent" ELSE pending
           \/ run.install /\ pending' = LeftBehind
  /\ UNCHANGED <<pauseVars, faults>>

StartPackages ==
  /\ Task("start", "apply", <<>>, "downloadStarted")
  /\ UNCHANGED <<pauseVars, pending, faults>>

Apply ==
  /\ \/ Task("apply", "activate", <<Phase("activating")>>, led)
     \/ Task("apply", "refresh", <<>>, led)
     \/ Task("apply", "ended", <<Failed>>, led)
     \/ Task("activate", "refresh", <<>>, led)
     \/ Task("activate", "ended", <<Failed>>, led)
  /\ UNCHANGED <<pauseVars, pending, faults>>

RefreshAfterApply ==
  /\ \/ Task("refresh", "refreshing", <<>>, led) /\ BeginRefresh
     \/ Task("refreshing", "ended", <<Finished>>, led) /\ EndRefresh
  /\ UNCHANGED <<pending, faults>>

\* The task dies in code of the downloader, the manager or the backend.
RunDies ==
  /\ faults < MaxFaults
  /\ faults' = faults + 1
  /\ \E a \in {"download", "verify", "sysupgrade", "apply", "activate"} :
       Task(a, "ended", <<>>, led)
  /\ pending' = LeftBehind
  /\ UNCHANGED pauseVars

RunStep ==
  \/ AwaitPause \/ EndDownload \/ Verify \/ Sysupgrade
  \/ StartPackages \/ Apply \/ RefreshAfterApply

-----------------------------------------------------------------------------
(* The forwarder, which holds the gate for the run.                        *)

ForwardEvent ==
  /\ forward = "on"
  /\ chan # <<>>
  /\ chan' = Tail(chan)
  /\ led' = LedEvent(Head(chan))
  /\ last' = Project(last, Head(chan))
  /\ Publish(last')
  /\ UNCHANGED <<nextGen, pauseVars, gate, offer, lastId, run, forward, pending, auto,
                 enabled, wanted, escalate, ran, runs, faults, restarts>>

\* "The reboot ends the run; nothing may start before it."
Parks == last.status = "running" /\ last.phase = "applying"

EndsWithoutOutcome == last.status = "running"

\* The task dropped its sender and every event is out.
ForwardEnd ==
  /\ forward = "on"
  /\ chan = <<>>
  /\ run.pc \in {"ended", "applied"}
  /\ IF Parks
       THEN forward' = "parked" /\ UNCHANGED <<gate, last, display, inbox, led>>
       ELSE /\ forward' = "off" /\ gate' = "free" /\ last' = NoRun
            /\ IF EndsWithoutOutcome
                 THEN Clear /\ led' = "none"
                 ELSE UNCHANGED <<display, inbox, led>>
  /\ UNCHANGED <<nextGen, pauseVars, offer, lastId, run, chan, pending, auto, enabled,
                 wanted, escalate, ran, runs, faults, restarts>>

ForwardStep == ForwardEvent \/ ForwardEnd

-----------------------------------------------------------------------------
(* Widget uploads and the periodic collection.                             *)

BeginWidgetInstall ==
  /\ "widget" \in Clients
  /\ gate = "free"
  /\ gate' = "widget"
  /\ UNCHANGED <<statusVars, pauseVars, offer, lastId, run, chan, forward, last, pending,
                 auto, enabled, wanted, escalate, ran, runs, faults, restarts>>

\* The backend answers; after an install the widgets are refreshed.
WidgetInstall ==
  /\ \/ gate = "widget" /\ gate' \in {"widgetRefresh", "free"} /\ UNCHANGED pauseVars
     \/ gate = "widgetRefresh" /\ gate' = "widgetRefreshing" /\ BeginRefresh
     \/ gate = "widgetRefreshing" /\ gate' = "free" /\ EndRefresh
  /\ UNCHANGED <<statusVars, offer, lastId, run, chan, forward, last, pending,
                 auto, enabled, wanted, escalate, ran, runs, faults, restarts>>

BeginPeriodicGc ==
  /\ "gc" \in Clients
  /\ gate = "free"
  /\ gate' = "gc"
  /\ UNCHANGED <<statusVars, pauseVars, offer, lastId, run, chan, forward, last, pending,
                 auto, enabled, wanted, escalate, ran, runs, faults, restarts>>

\* Swept; removed but not swept, so that the next run sweeps whatever it finds;
\* or nothing to collect, busy, or failed before anything was removed.
GcOutcome == escalate' = FALSE \/ escalate' = TRUE \/ UNCHANGED escalate

\* Mutant: a collection whose guard outlives it.
PeriodicGcKeepsGate ==
  /\ gate = "gc"
  /\ GcOutcome
  /\ UNCHANGED <<statusVars, pauseVars, gate, offer, lastId, run, chan, forward, last, pending,
                 auto, enabled, wanted, ran, runs, faults, restarts>>

PeriodicGc ==
  /\ gate = "gc"
  /\ gate' = "free"
  /\ GcOutcome
  /\ UNCHANGED <<statusVars, pauseVars, offer, lastId, run, chan, forward, last, pending,
                 auto, enabled, wanted, ran, runs, faults, restarts>>

-----------------------------------------------------------------------------
(* Automatic upgrades.                                                     *)

\* A retriable error: the next attempt after a delay, or none.
Retry ==
  auto' = IF auto.attempt < MaxAttempts
            THEN [auto EXCEPT !.pc = "backoff", !.attempt = @ + 1] ELSE AutoIdle

\* A tick of the schedule, a check on demand, or a change of the setting.
AutoRequested ==
  /\ "auto" \in Clients
  /\ \/ ~wanted /\ wanted' = TRUE /\ UNCHANGED enabled
     \/ enabled' = ~enabled /\ UNCHANGED wanted
  /\ UNCHANGED <<statusVars, pauseVars, gate, offer, lastId, run, chan, forward, last,
                 pending, auto, escalate, ran, runs, faults, restarts>>

AutoTrigger ==
  /\ \/ auto.pc = "idle" /\ wanted /\ wanted' = FALSE
     \/ auto.pc = "backoff" /\ UNCHANGED wanted
  /\ \/ ~enabled /\ auto' = AutoIdle /\ UNCHANGED gate
     \/ enabled /\ gate # "free" /\ Retry /\ UNCHANGED gate
     \/ enabled /\ gate = "free" /\ gate' = "auto" /\ auto' = [auto EXCEPT !.pc = "prepare"]
  /\ UNCHANGED <<statusVars, pauseVars, offer, lastId, run, chan, forward, last, pending,
                 enabled, escalate, ran, runs, faults, restarts>>

\* Mutant: an automatic run that leaves the offer of an earlier check claimable.
AutoPrepareKeepsOffer ==
  /\ auto.pc = "prepare"
  /\ gate' = "auto"
  /\ \E k \in RunKinds : auto' = [auto EXCEPT !.pc = "collect", !.kind = k]
  /\ UNCHANGED <<statusVars, pauseVars, offer, lastId, run, chan, forward, last, pending,
                 enabled, wanted, escalate, ran, runs, faults, restarts>>

AutoPrepare ==
  /\ auto.pc = "prepare"
  /\ \/ gate' = "free" /\ (auto' = AutoIdle \/ Retry) /\ UNCHANGED offer
     \/ /\ gate' = "auto"
        /\ offer' = NoOffer
        /\ \E k \in RunKinds : auto' = [auto EXCEPT !.pc = "collect", !.kind = k]
  /\ UNCHANGED <<statusVars, pauseVars, lastId, run, chan, forward, last, pending,
                 enabled, wanted, escalate, ran, runs, faults, restarts>>

\* The forced collection, whose failure is not looked at, then the space check.
AutoCollect ==
  /\ auto.pc = "collect"
  /\ \/ /\ Dispatch(0, [kind |-> auto.kind, install |-> FALSE])
        /\ auto' = [auto EXCEPT !.pc = "follow"]
     \/ /\ gate' = "free"
        /\ auto' = AutoIdle
        /\ UNCHANGED <<statusVars, run, chan, forward, last, ran, runs>>
  /\ UNCHANGED <<pauseVars, offer, lastId, pending, enabled, wanted, escalate, faults, restarts>>

\* The stream of the run ends, parked or not; no error of a run is retriable.
AutoFollow ==
  /\ auto.pc = "follow"
  /\ forward # "on" \/ last.status = "failed"
  /\ auto' = AutoIdle
  /\ UNCHANGED <<statusVars, pauseVars, gate, offer, lastId, run, chan, forward, last,
                 pending, enabled, wanted, escalate, ran, runs, faults, restarts>>

AutoStep == AutoTrigger \/ AutoPrepare \/ AutoCollect \/ AutoFollow
=============================================================================
