---------------------------- MODULE WidgetSystem ----------------------------
(***************************************************************************)
(* Everything that starts and stops widgets, at the same time: the boot,   *)
(* reloads, pause and resume, scene edits, previews, the shutdown, the     *)
(* manager's restarts and the compositor.                                  *)
(***************************************************************************)
EXTENDS SceneEdits, SequencesExt

Init ==
  /\ mode = "running"
  /\ children = [i \in Instances |-> Vacant]
  /\ prepared = [i \in Instances |-> NoPermit]
  /\ spawns = <<>> /\ internal = <<>>
  /\ reply = [t \in Callers |-> [i \in Instances |-> "none"]]
  /\ procs = [i \in Instances |-> {}]
  /\ registry \in [Instances -> Builds \cup {NoBuild}]
  /\ retained = [i \in Instances |-> Unregistered]
  /\ commands = [i \in Instances |-> <<>>]
  /\ refused = {}
  /\ scene \in [Instances -> [at : {"in"}, on : BOOLEAN, shape : {0}]
                               \cup {[at |-> "new", on |-> FALSE, shape |-> 0]}]
  /\ preview = NoWidget
  /\ RunningCount <= MaxRunning
  /\ lock = Free
  /\ editing = {"reload"}
  /\ task = [[t \in Callers |-> IdleTask] EXCEPT
               !["reload"] = [IdleTask EXCEPT !.pc = "next", !.op = "boot",
                                              !.todo = {i \in Instances : Configured(i)}]]
  /\ torn = {} /\ unserved = {} /\ requests = 0 /\ faults = 0

StartMoves == HandleSpawn /\ UNCHANGED <<compositorVars, coordinatorVars>>
MessageMoves ==
  (HandleExit \/ HandleRestartDue) /\ UNCHANGED <<compositorVars, coordinatorVars>>
CompositorMoves ==
  (\E i \in Instances : ApplyCommand(i)) /\ UNCHANGED <<managerVars, coordinatorVars>>
TaskStep(t) ==
  \/ SpawnStep(t) \/ ReloadStep(t)
  \/ t = "life" /\ LifeStep
  \/ t = "down" /\ Deactivate("down")
  \/ t = "view" /\ ViewStep
TaskMoves == \E t \in Callers : TaskStep(t)
ChildrenEnd ==
  (\E i \in Instances : StoppedProcessEnds(i)) /\ UNCHANGED <<compositorVars, coordinatorVars>>
RestartDue ==
  (\E i \in Instances : TimerFires(i)) /\ UNCHANGED <<compositorVars, coordinatorVars>>
Crash ==
  /\ Request
  /\ \E i \in Instances : ProcessEnds(i)
  /\ UNCHANGED <<compositorVars, task, lock, editing, sceneVars, unserved, faults>>
Requested ==
  \/ Pause \/ BeginResume \/ Shutdown \/ Edit \/ Crash
  \/ \E t \in {"reload", "life"} : BeginReload(t)
Fault == \E t \in Callers : ReceiptTimesOut(t)

Next ==
  \/ StartMoves \/ MessageMoves \/ CompositorMoves \/ TaskMoves
  \/ ChildrenEnd \/ RestartDue \/ Requested \/ Fault

Spec == Init /\ [][Next]_vars

\* Spawned tasks run, the actor's select! starves neither commands nor internal
\* messages, the compositor's loop takes its commands, and a stopped process
\* ends, by SIGKILL at the latest.
FairSpec ==
  /\ Spec
  /\ WF_vars(StartMoves) /\ WF_vars(MessageMoves)
  /\ WF_vars(CompositorMoves) /\ WF_vars(ChildrenEnd)
  /\ \A t \in Callers : WF_vars(TaskStep(t))

TypeOK ==
  /\ mode \in Modes
  /\ children \in [Instances -> Children]
  /\ prepared \in [Instances -> Nat \cup {NoPermit}]
  /\ reply \in [Callers -> [Instances -> Replies]]
  /\ procs \in [Instances -> SUBSET Pids]
  /\ registry \in [Instances -> Builds \cup {NoBuild}]
  /\ retained \in [Instances -> [mode : {"none", "inactive", "accepting"}, shape : {0, 1}]]
  /\ refused \subseteq Callers \X Instances
  /\ scene \in [Instances -> [at : {"new", "in", "gone"}, on : BOOLEAN, shape : {0, 1}]]
  /\ preview \in Instances \cup {NoWidget}
  /\ lock \in Callers \cup {Free}
  /\ editing \subseteq Callers
  /\ torn \cup unserved \subseteq Instances
  /\ requests \in 0..MaxRequests /\ faults \in 0..MaxFaults

-----------------------------------------------------------------------------
Settled ==
  /\ \A t \in Callers : task[t].pc \in {"idle", "shown", "off"}
  /\ spawns = <<>> /\ internal = <<>>
  /\ \A i \in Instances : commands[i] = <<>>
Managed(i) == children[i].st \in {"running", "pending"}
\* The registration of i once the compositor has caught up.
Final(i) == FoldLeft(Applied, retained[i], commands[i])
\* The compositor was told of a cutoff of i, the manager has yet to handle it.
BeingStopped(i) == \E t \in Callers : task[t].pc = "stop" /\ task[t].w = i

\* docs/devel/widget-lifecycle.md: "a start whose activation was followed by a
\* later cutoff returns Superseded instead of crossing that cutoff": a widget
\* runs, or waits for its restart, only while the configuration shows it or its
\* stop is on the way, unless a save or a client failed the edit that hides it.
NoStray ==
  \A i \in Instances \ torn : Managed(i) => (Configured(i) /\ Shown(i)) \/ BeingStopped(i)

\* Commands are enqueued under the lock of the configuration they follow: at no
\* time do they leave a widget accepted that the configuration does not show,
\* unless a save or a client failed the edit that hides it.
AcceptsShown ==
  \A i \in Instances \ torn : Final(i).mode = "accepting" => Configured(i) /\ Shown(i)

\* finish_lifecycle_stop: once a pause or a shutdown is done, and whatever ran
\* beside it, no widget is accepted.
DarkUnlessRunning ==
  Settled /\ mode # "running" => \A i \in Instances \ torn : retained[i].mode # "accepting"

\* What is shown is served: with nothing left to do, every shown widget whose
\* type is installed has a child of the installed build and is accepted with
\* its current placement, unless a receipt, a save or a client failed it.
\* Edits, previews, reloads, pause and resume may have overlapped in any way.
Served ==
  Settled /\ mode = "running" =>
    \A i \in Startable \ (torn \cup unserved) :
      /\ Managed(i) /\ children[i].build = registry[i]
      /\ retained[i].mode = "accepting" /\ retained[i].shape = scene[i].shape

\* require_widget_capacity: concurrent edits and a preview stay in the limit,
\* as long as every edit stopped what it hid.
WithinLimit ==
  torn = {} => Cardinality({i \in Instances : Managed(i)}) <= MaxRunning

\* docs/devel/widget-lifecycle.md: "The compositor can accept connections only
\* after activation, and the manager can spawn only after the second-phase
\* validation", which waits for it: no process is started, or restarted, that
\* the compositor would turn away, but for one that a restart timer, or a start
\* sent before, starts between the two halves of a cutoff, which the second
\* half stops unless its client is gone.
StartsAccepted ==
  [][\A i \in Instances \ torn :
       procs[i] = {} /\ procs'[i] # {} => retained[i].mode = "accepting" \/ BeingStopped(i)]_vars

\* Preview lock before configuration before actor: however operations overlap,
\* all of them end, so that again and again none is in progress.
OperationsEnd == []<>(\A t \in Callers : task[t].pc \in {"idle", "shown", "off"})
=============================================================================
