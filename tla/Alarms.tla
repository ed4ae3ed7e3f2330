------------------------------- MODULE Alarms -------------------------------
(***************************************************************************)
(* Alarms (bmc/src/alarm.rs): a task that makes a firing ring, one that    *)
(* carries out dismissals and snoozes, the timeout of the ringing alarm,   *)
(* the sleepers that fire snoozed alarms again, the controller behind the  *)
(* web interface and its listener, that switches one-shot alarms off.      *)
(*                                                                         *)
(* The slot of the ringing alarm changes, and the event about it is sent,  *)
(* under one lock: in one step.  Time, names, sounds and the published     *)
(* time of the next alarm are left out.  The bounds keep both broadcast    *)
(* channels below their eight places.                                      *)
(***************************************************************************)
EXTENDS JobScheduler, Sequences

CONSTANTS
  Alarm,        \* alarm ids
  OneShot,      \* those that do not repeat
  Saved,        \* configurations the application may start with
  SnoozeLimit,  \* how often a firing may be snoozed
  MaxInputs     \* bound on jobs that come due, taps, requests, timezone changes
                \* and failures, together

ASSUME AlarmAssumption ==
  /\ IsFiniteSet(Alarm) /\ "none" \notin Alarm
  /\ OneShot \subseteq Alarm
  /\ Saved \subseteq [Alarm -> {"new", "off", "on"}]
  /\ {SnoozeLimit, MaxInputs} \subseteq Nat

VARIABLES
  config,     \* each alarm: not made yet, removed, off or on
  active,     \* active_alarms: the job of each scheduled alarm
  pending,    \* pending_snoozes: the sleeper of each snoozed alarm
  sleepers,   \* the tasks that wait to fire a snoozed alarm again
  queue,      \* firings on their way to the alarm handle
  slot,       \* current_alarm
  commands,   \* AlarmCmd not handled yet
  stopped,    \* Stopped events the controller has not seen
  ringer,     \* the alarm handle
  commander,  \* the command handle
  op,         \* the controller's operation, under the configuration lock
  torn,       \* history: alarms an operation, or the start, gave up on half way
  spent,      \* one-shot alarms that rang to their end, not edited since
  slipped,    \* alarms removed between the handle's check and their ringing
  inputs

snoozeVars == <<pending, sleepers>>
handleVars == <<queue, slot, ringer, slipped>>
busVars == <<commands, stopped, commander, spent>>
controlVars == <<config, active, op, torn>>
vars == <<schedulerVars, snoozeVars, handleVars, busVars, controlVars, inputs>>

None == "none"
Firing(a, n) == [alarm |-> a, snoozes |-> n]
NoFiring == Firing(None, 0)
Resting == [pc |-> "idle", f |-> NoFiring]
NoOp ==
  [pc |-> "idle", alarm |-> None, want |-> "off", job |-> NoJob, ends |-> FALSE, client |-> FALSE]
Input == inputs < MaxInputs /\ inputs' = inputs + 1
Cmd(kind, a) == [kind |-> kind, alarm |-> a]

\* The controller schedules the alarms that are on when it starts.  A failure
\* is only logged; the job may have been added before it.
Init ==
  /\ config \in Saved
  /\ torn \in SUBSET {a \in Alarm : config[a] = "on"}
  /\ active \in [Alarm -> 0..Cardinality(Alarm)]
  /\ \A a \in Alarm : active[a] # NoJob <=> config[a] = "on" /\ a \notin torn
  /\ stored = {<<active[a], a>> : a \in {b \in Alarm : active[b] # NoJob}}
  /\ jobs \in SUBSET ((1..Cardinality(Alarm)) \X Alarm)
  /\ stored \subseteq jobs /\ \A j \in jobs \ stored : j[2] \in torn
  /\ \A j, k \in jobs : j[1] = k[1] \/ j[2] = k[2] => j = k
  /\ {j[1] : j \in jobs} = 1..Cardinality(jobs)
  /\ relisted = {} /\ revived = {} /\ lost = {}
  /\ pending = [a \in Alarm |-> 0] /\ sleepers = {}
  /\ queue = <<>> /\ slot = NoFiring /\ ringer = Resting /\ slipped = {}
  /\ commands = <<>> /\ stopped = <<>> /\ commander = Resting /\ spent = {}
  /\ op = NoOp
  /\ inputs = Cardinality(torn)

-----------------------------------------------------------------------------
(* Ringing.                                                                *)

\* stop_current_if: the slot is emptied if it holds an alarm of as.
StopIf(as) ==
  IF slot.alarm \in as
    THEN /\ slot' = NoFiring
         /\ stopped' = Append(stopped, slot.alarm)
         /\ spent' = spent \cup ({slot.alarm} \cap OneShot)
    ELSE UNCHANGED <<slot, stopped, spent>>

\* The task that schedule gives to a job sends the alarm to the handle.
JobDue ==
  /\ Input
  /\ \E j \in jobs : queue' = Append(queue, Firing(j[2], 0))
  /\ UNCHANGED <<slot, ringer, slipped>>
  /\ UNCHANGED <<schedulerVars, snoozeVars, busVars, controlVars>>

\* The alarm handle drops the firing of an alarm that is not scheduled, ...
Receive ==
  /\ ringer = Resting
  /\ queue # <<>>
  /\ queue' = Tail(queue)
  /\ ringer' = IF active[Head(queue).alarm] = NoJob THEN Resting
               ELSE [pc |-> "checked", f |-> Head(queue)]
  /\ UNCHANGED <<slot, slipped>>
  /\ UNCHANGED <<schedulerVars, snoozeVars, busVars, controlVars, inputs>>

\* ... or stops the alarm that rings ...
CancelCurrent ==
  /\ ringer.pc = "checked"
  /\ ringer' = [ringer EXCEPT !.pc = "fill"]
  /\ StopIf(Alarm)
  /\ UNCHANGED <<queue, slipped, commands, commander>>
  /\ UNCHANGED <<schedulerVars, snoozeVars, controlVars, inputs>>

\* ... and starts the new one.
Ring ==
  /\ ringer.pc = "fill"
  /\ ringer' = Resting
  /\ slot' = ringer.f
  /\ slipped' = IF active[ringer.f.alarm] = NoJob THEN slipped \cup {ringer.f.alarm} ELSE slipped
  /\ UNCHANGED queue
  /\ UNCHANGED <<schedulerVars, snoozeVars, busVars, controlVars, inputs>>

\* Mutant: the timeout empties the slot and tells nobody.
TimesOutSilently ==
  /\ slot # NoFiring
  /\ slot' = NoFiring
  /\ spent' = spent \cup ({slot.alarm} \cap OneShot)
  /\ UNCHANGED <<queue, ringer, slipped, commands, stopped, commander>>
  /\ UNCHANGED <<schedulerVars, snoozeVars, controlVars, inputs>>

\* ALARM_TIMEOUT.  The instant between the deadline and the lock, into which a
\* dismissal and another firing of the same alarm could fall, is left out.
TimesOut ==
  /\ slot # NoFiring
  /\ StopIf({slot.alarm})
  /\ UNCHANGED <<queue, ringer, slipped, commands, commander>>
  /\ UNCHANGED <<schedulerVars, snoozeVars, controlVars, inputs>>

-----------------------------------------------------------------------------
(* Commands and snoozes.                                                   *)

\* The overlay's buttons, there while an alarm rings; what they stop is decided
\* when they are handled.
Tap ==
  /\ slot # NoFiring
  /\ Input
  /\ \E kind \in {"stopCurrent", "snooze"} : commands' = Append(commands, Cmd(kind, None))
  /\ UNCHANGED <<stopped, commander, spent>>
  /\ UNCHANGED <<schedulerVars, snoozeVars, handleVars, controlVars>>

Command(kind) ==
  /\ commander = Resting
  /\ commands # <<>>
  /\ Head(commands).kind = kind
  /\ commands' = Tail(commands)

StopCurrent ==
  /\ Command("stopCurrent")
  /\ StopIf(Alarm)
  /\ UNCHANGED <<commander, queue, ringer, slipped>>
  /\ UNCHANGED <<schedulerVars, snoozeVars, controlVars, inputs>>

\* An entry of pending_snoozes goes, and its sleeper if it still sleeps.
Asleep(a) == {s \in sleepers : s.id = pending[a] /\ s.st = "asleep"}

DropSnooze(a) ==
  /\ pending' = [pending EXCEPT ![a] = 0]
  /\ sleepers' = sleepers \ Asleep(a)

\* Mutant: the snooze is left to remove.
StopKeepsSnooze ==
  /\ Command("stop")
  /\ commander' = [pc |-> "stop", f |-> Firing(Head(commands).alarm, 0)]
  /\ UNCHANGED <<stopped, spent>>
  /\ UNCHANGED <<schedulerVars, snoozeVars, handleVars, controlVars, inputs>>

\* Stop drops the alarm's snooze, ...
Stop ==
  /\ Command("stop")
  /\ DropSnooze(Head(commands).alarm)
  /\ commander' = [pc |-> "stop", f |-> Firing(Head(commands).alarm, 0)]
  /\ UNCHANGED <<stopped, spent>>
  /\ UNCHANGED <<schedulerVars, handleVars, controlVars, inputs>>

\* ... then stops it if it rings.
StopRinging ==
  /\ commander.pc = "stop"
  /\ commander' = Resting
  /\ StopIf({commander.f.alarm})
  /\ UNCHANGED <<commands, queue, ringer, slipped>>
  /\ UNCHANGED <<schedulerVars, snoozeVars, controlVars, inputs>>

\* handle_snooze_command takes the alarm that rings, if it may be snoozed, ...
Snooze ==
  /\ Command("snooze")
  /\ IF slot # NoFiring /\ slot.snoozes < SnoozeLimit
       THEN commander' = [pc |-> "snooze", f |-> slot] /\ slot' = NoFiring
       ELSE UNCHANGED <<commander, slot>>
  /\ UNCHANGED <<stopped, spent, queue, ringer, slipped>>
  /\ UNCHANGED <<schedulerVars, snoozeVars, controlVars, inputs>>

FreshSleeper ==
  LET ids == {s.id : s \in sleepers} \cup {pending[a] : a \in Alarm} \cup {0}
  IN  CHOOSE n \in 1..Cardinality(ids) : n \notin ids

\* ... and leaves a sleeper for it once its tasks have ended.
Register ==
  /\ commander.pc = "snooze"
  /\ commander' = Resting
  /\ LET a == commander.f.alarm
     IN  /\ sleepers' = (sleepers \ Asleep(a)) \cup
              {[id |-> FreshSleeper, alarm |-> a, snoozes |-> commander.f.snoozes + 1,
                st |-> "asleep"]}
         /\ pending' = [pending EXCEPT ![a] = FreshSleeper]
  /\ UNCHANGED <<commands, stopped, spent>>
  /\ UNCHANGED <<schedulerVars, handleVars, controlVars, inputs>>

\* A sleeper that is awake can no longer be cancelled.  It clears the entry of
\* its alarm, whoever made that, ...
Woken(from, to) ==
  \E s \in sleepers :
    /\ s.st = from
    /\ sleepers' = (sleepers \ {s}) \cup {[s EXCEPT !.st = to]}
    /\ pending' = IF to = "cleared" THEN [pending EXCEPT ![s.alarm] = 0] ELSE pending
    /\ UNCHANGED <<schedulerVars, handleVars, busVars, controlVars, inputs>>

Wake == Woken("asleep", "awake")
ClearEntry == Woken("awake", "cleared")

\* Mutant: a sleeper that finds the slot taken gives up.
RefireIfFree ==
  \E s \in sleepers :
    /\ s.st = "cleared"
    /\ sleepers' = sleepers \ {s}
    /\ queue' = IF slot = NoFiring THEN Append(queue, Firing(s.alarm, s.snoozes)) ELSE queue
    /\ UNCHANGED <<pending, slot, ringer, slipped>>
    /\ UNCHANGED <<schedulerVars, busVars, controlVars, inputs>>

\* ... then fires.
Refire ==
  \E s \in sleepers :
    /\ s.st = "cleared"
    /\ sleepers' = sleepers \ {s}
    /\ queue' = Append(queue, Firing(s.alarm, s.snoozes))
    /\ UNCHANGED <<pending, slot, ringer, slipped>>
    /\ UNCHANGED <<schedulerVars, busVars, controlVars, inputs>>

-----------------------------------------------------------------------------
(* The controller: add_alarm, set_alarm, set_enabled and remove_alarm.     *)

AfterRemoval(want) == IF want = "on" THEN "schedule" ELSE "save"

\* The operations, up to their first change; the steps below finish them.  A
\* client's run in its request, the listener's in its task.
Begins(pc, a, want, client) ==
  /\ op = NoOp
  /\ op' = [pc |-> pc, alarm |-> a, want |-> want, job |-> NoJob, ends |-> FALSE,
            client |-> client]
Configured(a) == config[a] \in {"off", "on"}

AddAlarm(a, want) == config[a] = "new" /\ Begins(AfterRemoval(want), a, want, TRUE)
SetAlarm(a, want) == Configured(a) /\ Begins("delist", a, want, TRUE)
SetEnabled(a, want, client) == Configured(a) /\ Begins("delist", a, want, client)
RemoveAlarm(a) == Configured(a) /\ Begins("delist", a, "gone", TRUE)

Edit ==
  /\ Input
  /\ \E a \in Alarm :
       /\ \/ \E want \in {"off", "on"} :
               AddAlarm(a, want) \/ SetAlarm(a, want) \/ SetEnabled(a, want, TRUE)
          \/ RemoveAlarm(a)
       /\ spent' = spent \ {a}
  /\ UNCHANGED <<config, active, torn, commands, stopped, commander>>
  /\ UNCHANGED <<schedulerVars, snoozeVars, handleVars>>

\* The listener switches a one-shot alarm off when it has stopped.
SwitchOff ==
  /\ stopped # <<>>
  /\ op = NoOp
  /\ stopped' = Tail(stopped)
  /\ LET a == Head(stopped)
     IN  IF a \in OneShot /\ Configured(a) THEN SetEnabled(a, "off", FALSE) ELSE UNCHANGED op
  /\ UNCHANGED <<config, active, torn, commands, commander, spent>>
  /\ UNCHANGED <<schedulerVars, snoozeVars, handleVars, inputs>>

\* What follows touches neither the handles nor the bus, commands apart.
Aside == UNCHANGED <<handleVars, stopped, commander, spent>>
OpTo(pc) == op' = [op EXCEPT !.pc = pc]
Fault(loses) ==
  /\ Input
  /\ torn' = IF loses THEN torn \cup {op.alarm} ELSE torn
NoFault == UNCHANGED <<inputs, torn>>

\* AlarmScheduler::remove takes the alarm out of active_alarms, ...
Delist ==
  /\ op.pc = "delist"
  /\ LET job == active[op.alarm]
     IN  /\ op' = [op EXCEPT !.pc = IF job = NoJob THEN "drop" ELSE "cancel", !.job = job]
         /\ commands' = IF job = NoJob THEN commands ELSE Append(commands, Cmd("stop", op.alarm))
  /\ active' = [active EXCEPT ![op.alarm] = NoJob]
  /\ UNCHANGED <<schedulerVars, snoozeVars, config>>
  /\ NoFault /\ Aside

\* ... cancels its job, which can fail before or after the job is gone, ...
Cancel ==
  /\ op.pc = "cancel"
  /\ \/ CancelJob(op.job, FALSE) /\ OpTo("drop") /\ NoFault
     \/ /\ op' = [op EXCEPT !.pc = "drop", !.ends = TRUE]
        /\ Fault(TRUE)
        /\ UNCHANGED schedulerVars \/ CancelJob(op.job, FALSE)
  /\ UNCHANGED <<snoozeVars, config, active, commands>>
  /\ Aside

\* ... and drops its snooze, whether or not that failed.
Drop ==
  /\ op.pc = "drop"
  /\ DropSnooze(op.alarm)
  /\ IF op.ends THEN op' = NoOp ELSE OpTo(AfterRemoval(op.want))
  /\ UNCHANGED <<schedulerVars, config, active, commands>>
  /\ NoFault /\ Aside

\* AlarmScheduler::schedule adds a job, then enters it in active_alarms.  It
\* can fail before or after the job is in the library's table.
NewJob == FreshJob({active[a] : a \in Alarm})

ScheduleAlarm ==
  /\ op.pc = "schedule"
  /\ \/ /\ AddJob(NewJob, op.alarm, TRUE)
        /\ op' = [op EXCEPT !.pc = "enlist", !.job = NewJob]
        /\ NoFault
     \/ op' = NoOp /\ Fault(config[op.alarm] = "on") /\ UNCHANGED schedulerVars
     \/ op' = NoOp /\ Fault(TRUE) /\ AddJob(NewJob, op.alarm, FALSE)
  /\ UNCHANGED <<snoozeVars, config, active, commands>>
  /\ Aside

Enlist ==
  /\ op.pc = "enlist"
  /\ active' = [active EXCEPT ![op.alarm] = op.job]
  /\ OpTo("save")
  /\ UNCHANGED <<schedulerVars, snoozeVars, config, commands>>
  /\ NoFault /\ Aside

\* Mutant: an alarm whose save failed stays scheduled.
SaveWithoutRollback ==
  /\ op.pc = "save"
  /\ \/ config' = [config EXCEPT ![op.alarm] = op.want] /\ NoFault
     \/ UNCHANGED config /\ Fault(config[op.alarm] = "on")
  /\ op' = NoOp
  /\ UNCHANGED <<schedulerVars, snoozeVars, active, commands>>
  /\ Aside

\* The configuration is saved; if that fails, what was scheduled is removed.
Save ==
  /\ op.pc = "save"
  /\ \/ config' = [config EXCEPT ![op.alarm] = op.want] /\ op' = NoOp /\ NoFault
     \/ /\ UNCHANGED config
        /\ Fault(config[op.alarm] = "on")
        /\ op' = IF op.want = "gone" THEN NoOp
                 ELSE [op EXCEPT !.pc = "delist", !.ends = TRUE]
  /\ UNCHANGED <<schedulerVars, snoozeVars, active, commands>>
  /\ Aside

\* The client hangs up, and its operation stops where it waits: in cancel with
\* the job in both tables, one or none, in schedule with it in none or one.
\* What comes after is skipped, the rollback of a failed save included.
HangUp ==
  /\ op.client
  /\ op' = NoOp
  /\ Fault(op.pc # "delist" \/ op.ends)
  /\ \/ UNCHANGED schedulerVars
     \/ op.pc = "cancel" /\ \E listed \in BOOLEAN : CancelJob(op.job, listed)
     \/ op.pc = "schedule" /\ AddJob(NewJob, op.alarm, FALSE)
  /\ UNCHANGED <<snoozeVars, config, active, commands>>
  /\ Aside

\* The timezone changes, and the scheduler's listener goes through the jobs.
ZoneChange ==
  /\ ListJobs /\ Input
  /\ UNCHANGED <<snoozeVars, handleVars, busVars, controlVars>>

ZoneListener ==
  /\ Relist
  /\ IF lost' = lost THEN UNCHANGED inputs ELSE Input
  /\ UNCHANGED <<snoozeVars, handleVars, busVars, controlVars>>

-----------------------------------------------------------------------------
AlarmHandle == Receive \/ CancelCurrent \/ Ring
CommandHandle == StopCurrent \/ Stop \/ StopRinging \/ Snooze \/ Register
Sleeping == Wake \/ ClearEntry \/ Refire
Controller == Delist \/ Cancel \/ Drop \/ ScheduleAlarm \/ Enlist \/ Save

Next ==
  \/ AlarmHandle \/ CommandHandle \/ Sleeping \/ Controller \/ SwitchOff
  \/ JobDue \/ TimesOut \/ Tap \/ Edit \/ HangUp
  \/ ZoneChange \/ ZoneListener

Spec == Init /\ [][Next]_vars

\* Spawned tasks run, and sleeps end.
FairSpec ==
  Spec /\ WF_vars(AlarmHandle) /\ WF_vars(Wake) /\ WF_vars(ClearEntry) /\ WF_vars(Refire)

-----------------------------------------------------------------------------
(* Properties.                                                             *)

Quiet == op = NoOp /\ commands = <<>> /\ commander = Resting
JobsOf(a) == {j[1] : j \in {k \in (jobs \cup lost) \ revived : k[2] = a}}

\* AlarmScheduler::remove and AlarmCmd::Stop: once a removal and its Stop have
\* been carried out, an alarm that is not scheduled neither rings nor waits to
\* ring again, though a Snooze may register its entry after remove looked.
\* An alarm the handle had already checked is the exception (slipped).
WithdrawnIsSilent ==
  Quiet => \A a \in Alarm \ slipped :
             active[a] = NoJob => pending[a] = 0 /\ slot.alarm # a

\* AlarmController: between operations an alarm has exactly one job, the one
\* active_alarms knows, if it is on, and none if not.  Excepted are jobs that
\* a change of the timezone revived or lost, and alarms whose schedule was torn
\* by a failing start, cancel, schedule or save, or by a client that hung up in
\* the middle of its request.
ScheduleMatchesConfig ==
  op = NoOp => \A a \in Alarm \ torn :
                 /\ config[a] = "on" <=> active[a] # NoJob
                 /\ JobsOf(a) = {active[a]} \ {NoJob}

\* AlarmController::init: "Alarm that is not repeatable needs to be deactivated
\* after it was triggered", whoever ended its ringing.
OneShotIsSpent ==
  op = NoOp /\ stopped = <<>> => \A a \in spent \ torn : config[a] # "on"

\* handle_snooze_command: an alarm that waits for its snooze to end rings
\* again, whatever rings meanwhile, unless it is removed or stopped.
Withdrawn(a) ==
  \/ active[a] = NoJob
  \/ \E i \in DOMAIN commands : commands[i] = Cmd("stop", a)

SnoozeReturns ==
  \A a \in Alarm :
    pending[a] # 0 /\ ~Withdrawn(a) ~> (slot.alarm = a \/ Withdrawn(a))
=============================================================================
