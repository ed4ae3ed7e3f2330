---------------------------- MODULE WidgetPause -----------------------------
(***************************************************************************)
(* The listener that stops every widget while a firmware image is          *)
(* downloaded and flashed (system_upgrade/widget_pause.rs), and the        *)
(* widget operations it shares with refreshes (UpgradeWidgetLifecycle of   *)
(* widget/coordinator.rs).                                                 *)
(*                                                                         *)
(* One wake of the listener is one step: it reads everything queued,       *)
(* starts an operation if none is in flight, and renews the                *)
(* acknowledgement a firmware run waits for.                               *)
(***************************************************************************)
EXTENDS RunStatus

VARIABLES
  pause,    \* [stage, gen, armed]; armed: the replacement grace is running
  reached,  \* the level the last finished operation reached
  flight,   \* [target, at]: the operation in flight
  ack,      \* the generation every widget is stopped for, -1 for none
  mutex,    \* who holds the lifecycle's operations mutex
  widgets   \* the level the widgets are really at

pauseVars == <<pause, reached, flight, ack, mutex, widgets>>

Levels == {"running", "stopped"}
Idle == [stage |-> "idle", gen |-> -1, armed |-> FALSE]
NoFlight == [target |-> "none", at |-> "none"]

Desired(p) == IF p.stage = "idle" THEN "running" ELSE "stopped"

\* Mutant: a pause that only a success would end.
StepKeepsFailed(p, s) ==
  IF s.status = "running" /\ s.kind = "firmware"
    THEN [stage |-> "preparing", gen |-> s.gen, armed |-> FALSE]
    ELSE p

Step(p, s) ==
  CASE s = NoRun -> [p EXCEPT !.armed = (p.stage = "preparing")]
    [] s.status = "running" /\ s.kind = "firmware" ->
         [stage |-> IF s.phase = "applying" \/ (p.stage = "applying" /\ p.gen = s.gen)
                      THEN "applying" ELSE "preparing",
          gen |-> s.gen, armed |-> FALSE]
    [] s.status = "rebooting" /\ s.kind = "firmware" ->
         [stage |-> "applying", gen |-> s.gen, armed |-> FALSE]
    [] s.status = "succeeded" /\ s.kind = "firmware" -> p
    [] OTHER -> Idle

Drained ==
  LET after[i \in 0..Len(inbox)] == IF i = 0 THEN pause ELSE Step(after[i - 1], inbox[i])
  IN  after[Len(inbox)]

\* Mutant: a wake that acknowledges before the stop has finished.
ListenEarly(p, r, f) ==
  LET start == f = NoFlight /\ Desired(p) # r
  IN  /\ pause' = p
      /\ reached' = r
      /\ flight' = IF start THEN [target |-> Desired(p), at |-> "queued"] ELSE f
      /\ ack' = p.gen
      /\ inbox' = <<>>
      /\ UNCHANGED <<display, nextGen, led, mutex, widgets>>

\* The end of a wake, with pause p, level r reached and operation f in flight.
Listen(p, r, f) ==
  LET start == f = NoFlight /\ Desired(p) # r
  IN  /\ pause' = p
      /\ reached' = r
      /\ flight' = IF start THEN [target |-> Desired(p), at |-> "queued"] ELSE f
      /\ ack' = IF p.stage # "idle" /\ f = NoFlight /\ ~start THEN p.gen ELSE -1
      /\ inbox' = <<>>
      /\ UNCHANGED <<display, nextGen, led, mutex, widgets>>

WakeSnapshot ==
  /\ inbox # <<>>
  /\ flight.at # "done"
  /\ Listen(Drained, reached, flight)

WakeDone ==
  /\ flight.at = "done"
  /\ Listen(Drained, flight.target, NoFlight)

\* A queued snapshot outranks the lapse.
WakeLapsed ==
  /\ pause.armed
  /\ inbox = <<>>
  /\ flight.at # "done"
  /\ Listen(Idle, reached, flight)

-----------------------------------------------------------------------------
\* stop_all_widgets and restart_widgets wait for the mutex, then run detached.
BeginOperation ==
  /\ flight.at = "queued"
  /\ mutex = "free"
  /\ mutex' = "pause"
  /\ flight' = [flight EXCEPT !.at = "running"]
  /\ widgets' = IF flight.target = "running" THEN "running" ELSE widgets
  /\ UNCHANGED <<statusVars, pause, reached, ack>>

EndOperation ==
  /\ flight.at = "running"
  /\ mutex' = "free"
  /\ flight' = [flight EXCEPT !.at = "done"]
  /\ widgets' = flight.target
  /\ UNCHANGED <<statusVars, pause, reached, ack>>

PauseStep == WakeSnapshot \/ WakeDone \/ WakeLapsed \/ BeginOperation \/ EndOperation

\* A refresh reloads what the manager's mode lets run; the level stays.
BeginRefresh ==
  /\ mutex = "free"
  /\ mutex' = "refresh"
  /\ UNCHANGED <<pause, reached, flight, ack, widgets>>

EndRefresh ==
  /\ mutex = "refresh"
  /\ mutex' = "free"
  /\ UNCHANGED <<pause, reached, flight, ack, widgets>>
=============================================================================
