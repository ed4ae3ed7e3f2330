--------------------------- MODULE WidgetManager ----------------------------
(***************************************************************************)
(* The widget manager (widget/manager.rs): one actor that owns every       *)
(* widget process.  It handles commands, the exits its child tasks report  *)
(* and the timers of delayed restarts, one message at a time.              *)
(*                                                                         *)
(* A command whose sender waits for the reply is an operator here, used as *)
(* part of the sender's step.  Spawn is not waited for: it sits in spawns, *)
(* and commands sent later are handled later.  A token or a permit is any  *)
(* number nobody still holds; the code counts upwards and never reuses one.*)
(***************************************************************************)
EXTENDS Integers, Sequences

CONSTANTS
  Instances,       \* configured widget instances
  Builds,          \* package builds a widget can be installed from
  Pids,            \* process ids; the system reuses them
  Callers,         \* tasks that start widgets
  BackoffInitial,  \* RestartPolicy::initial
  BackoffMax,      \* RestartPolicy::max
  MaxInternal      \* timers fire while fewer messages wait for the actor

ASSUME ManagerAssumption ==
  /\ Pids # {}
  /\ 0 \notin Builds
  /\ {BackoffInitial, BackoffMax, MaxInternal} \subseteq Nat \ {0}
  /\ BackoffInitial <= BackoffMax

VARIABLES
  mode,      \* ManagerMode
  children,  \* the actor's map: what it knows of each instance
  prepared,  \* prepared_starts
  spawns,    \* Spawn commands not handled yet
  reply,     \* the answers to each caller's Spawns
  internal,  \* Internal messages not handled yet
  procs,     \* the processes that really run
  registry   \* the build installed for each instance's widget type

managerVars == <<mode, children, prepared, spawns, reply, internal, procs, registry>>

Modes == {"running", "paused", "shutdown"}
Replies == {"none", "waits", "ok", "superseded", "mode", "registry", "occupied", "pending"}
NoBuild == 0
NoPermit == -1

Children ==
  [st : {"none", "running", "stopping", "pending"}, pid : Pids, build : Builds \cup {NoBuild},
   backoff : BackoffInitial..BackoffMax, token : Nat, armed : BOOLEAN]

Child(st, pid, build, backoff, token) ==
  [st |-> st, pid |-> pid, build |-> build, backoff |-> backoff, token |-> token,
   armed |-> st = "pending"]
NoPid == CHOOSE p \in Pids : TRUE
Vacant == Child("none", NoPid, NoBuild, BackoffInitial, 0)
Exited(i, p) == [kind |-> "exit", inst |-> i, pid |-> p, token |-> 0]
Due(i, t) == [kind |-> "due", inst |-> i, pid |-> NoPid, token |-> t]

\* Mutant: a ladder without its top.
NextBackoffUncapped(d) == 2 * d

NextBackoff(d) == IF 2 * d <= BackoffMax THEN 2 * d ELSE BackoffMax

\* A token that no timer of i has sent and no entry waits for.
FreshToken(i) ==
  CHOOSE t \in 1..(Len(internal) + 2) :
    /\ t # children[i].token
    /\ \A k \in 1..Len(internal) : internal[k].inst = i => internal[k].token # t

\* schedule_restart of i: backoff is the delay after the one that starts now.
Pending(i, build, backoff) == Child("pending", NoPid, build, backoff, FreshToken(i))

-----------------------------------------------------------------------------
(* Commands.                                                               *)

PrepareStart(i, m, permit) ==
  /\ mode = m
  /\ prepared' = [prepared EXCEPT ![i] = permit]

\* Mutant: a stop that cancels no restart.
StoppedRunning(c) == IF c.st = "running" THEN [c EXCEPT !.st = "stopping"] ELSE c

\* Mutant: a stop whose handle is done before the process is.
StoppedAtOnce(c) == IF c.st = "none" THEN c ELSE Vacant

\* begin_stop of a running child, cancellation of a pending restart.
Stopped(c) ==
  IF c.st = "running" THEN [c EXCEPT !.st = "stopping"]
  ELSE IF c.st = "pending" THEN Vacant ELSE c

Stop(i) ==
  /\ spawns = <<>>
  /\ prepared' = [prepared EXCEPT ![i] = NoPermit]
  /\ children' = [children EXCEPT ![i] = Stopped(children[i])]

\* Pause and Shutdown; the terminal mode absorbs both.
Cutoff(m) ==
  /\ spawns = <<>>
  /\ mode' = IF mode = "shutdown" THEN mode ELSE m
  /\ prepared' = [i \in Instances |-> NoPermit]
  /\ children' = [i \in Instances |-> Stopped(children[i])]

Resume ==
  /\ spawns = <<>>
  /\ mode' = IF mode = "shutdown" THEN mode ELSE "running"

\* Mutant: a prompt retry that forgives the ladder.
RearmedForgiven(i) ==
  IF mode = "running" /\ children[i].st = "pending"
    THEN Pending(i, children[i].build, BackoffInitial) ELSE children[i]

\* The entry of i after retry_pending: its timer starts anew, its rung stays.
Rearmed(i) ==
  IF mode = "running" /\ children[i].st = "pending"
    THEN Pending(i, children[i].build, children[i].backoff) ELSE children[i]

RetryPending(i) ==
  /\ spawns = <<>>
  /\ children' = [children EXCEPT ![i] = Rearmed(i)]

RegistryRefreshed ==
  /\ spawns = <<>>
  /\ children' = [i \in Instances |-> Rearmed(i)]

-----------------------------------------------------------------------------
(* spawn_selected_process for i: a new process, or an error.               *)

Launch(i, build, backoff) ==
  \E p \in Pids :
    /\ \A j \in Instances : p \notin procs[j]
    /\ procs' = [procs EXCEPT ![i] = @ \cup {p}]
    /\ children' = [children EXCEPT ![i] = Child("running", p, build, backoff, 0)]

LaunchFails(i, build, backoff) ==
  /\ children' = [children EXCEPT ![i] = Pending(i, build, NextBackoff(backoff))]
  /\ UNCHANGED procs

\* start_expected.
Answer(s, r) ==
  /\ spawns' = Tail(spawns)
  /\ reply' = [reply EXCEPT ![s.by][s.inst] = r]
  /\ UNCHANGED <<mode, internal, registry>>

\* Mutant: a start that does not ask whether the instance is taken.
RefusalOfMode(s) ==
  IF mode # "running" THEN "mode"
  ELSE IF registry[s.inst] # s.build THEN "registry"
  ELSE "none"

Refusal(s) ==
  IF mode # "running" THEN "mode"
  ELSE IF registry[s.inst] # s.build THEN "registry"
  ELSE IF children[s.inst].st \in {"running", "stopping"} THEN "occupied"
  ELSE "none"

HandleSpawn ==
  /\ spawns # <<>>
  /\ LET s == Head(spawns)
         c == children[s.inst]
         rung == IF c.st = "pending" THEN c.backoff ELSE BackoffInitial
     IN  \/ /\ prepared[s.inst] # s.permit
            /\ Answer(s, "superseded")
            /\ UNCHANGED <<prepared, children, procs>>
         \/ /\ prepared[s.inst] = s.permit
            /\ prepared' = [prepared EXCEPT ![s.inst] = NoPermit]
            /\ \/ /\ Refusal(s) # "none"
                  /\ Answer(s, Refusal(s))
                  /\ UNCHANGED <<children, procs>>
               \/ /\ Refusal(s) = "none"
                  /\ \/ Launch(s.inst, s.build, rung) /\ Answer(s, "ok")
                     \/ LaunchFails(s.inst, s.build, rung) /\ Answer(s, "pending")

-----------------------------------------------------------------------------
(* Internal messages.                                                      *)

Receive(kind) ==
  /\ internal # <<>>
  /\ Head(internal).kind = kind
  /\ internal' = Tail(internal)
  /\ UNCHANGED <<mode, prepared, spawns, reply, registry>>

\* handle_exit; a process that ran for long enough starts a new ladder.
AfterExit(i, healthy) ==
  LET c == children[i]
      delay == IF healthy THEN BackoffInitial ELSE c.backoff
  IN  IF c.st \in {"none", "pending"} THEN c
      ELSE IF c.st = "stopping" \/ mode # "running" THEN Vacant
      ELSE Pending(i, c.build, NextBackoff(delay))

HandleExit ==
  /\ Receive("exit")
  /\ LET i == Head(internal).inst
     IN  \E healthy \in BOOLEAN : children' = [children EXCEPT ![i] = AfterExit(i, healthy)]
  /\ UNCHANGED procs

\* Mutant: any timer will do.
AwaitedAny(i, t) == children[i].st = "pending"

\* Whether the entry of i still waits for this timer.
Awaited(i, t) == children[i].st = "pending" /\ children[i].token = t

HandleRestartDue ==
  /\ Receive("due")
  /\ LET i == Head(internal).inst
         c == children[i]
     IN  \/ /\ ~Awaited(i, Head(internal).token)
            /\ UNCHANGED <<children, procs>>
         \/ /\ Awaited(i, Head(internal).token)
            /\ \/ /\ mode # "running" \/ registry[i] = NoBuild
                  /\ children' = [children EXCEPT ![i] = Vacant]
                  /\ UNCHANGED procs
               \/ /\ mode = "running" /\ registry[i] \notin {NoBuild, c.build}
                  /\ children' = [children EXCEPT ![i] = Pending(i, c.build, c.backoff)]
                  /\ UNCHANGED procs
               \/ /\ mode = "running" /\ registry[i] = c.build
                  /\ \/ Launch(i, c.build, c.backoff)
                     \/ LaunchFails(i, c.build, c.backoff)

ActorStep == HandleSpawn \/ HandleExit \/ HandleRestartDue

-----------------------------------------------------------------------------
\* The timer of a pending restart; replacing the entry aborts it.
TimerFires(i) ==
  /\ children[i].armed
  /\ Len(internal) < MaxInternal
  /\ children' = [children EXCEPT ![i].armed = FALSE]
  /\ internal' = Append(internal, Due(i, children[i].token))
  /\ UNCHANGED <<mode, prepared, spawns, reply, procs, registry>>

\* run_child: a process ends, by itself or because it was told to.
ProcessEnds(i) ==
  /\ \E p \in procs[i] :
       /\ procs' = [procs EXCEPT ![i] = @ \ {p}]
       /\ internal' = Append(internal, Exited(i, p))
  /\ UNCHANGED <<mode, children, prepared, spawns, reply, registry>>

StoppedProcessEnds(i) == children[i].st = "stopping" /\ ProcessEnds(i)

\* WidgetRegistry::refresh: a scan of the installed packages.
Rescan ==
  /\ registry' \in [Instances -> Builds \cup {NoBuild}]
  /\ UNCHANGED <<mode, children, prepared, spawns, reply, internal, procs>>
=============================================================================
