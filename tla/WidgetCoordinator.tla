------------------------- MODULE WidgetCoordinator --------------------------
(***************************************************************************)
(* The widget coordinator (widget/coordinator.rs) between the scenes of    *)
(* the configuration, the widget manager and the compositor.  A task is an *)
(* operation in progress; its pc is the await it has reached.  A scene has *)
(* one widget, and is known by it.                                         *)
(***************************************************************************)
EXTENDS Compositor, FiniteSets

CONSTANTS
  MaxRunning,   \* MAX_RUNNING_WIDGETS
  MaxRequests,  \* operations, crashes and reloads that happen
  MaxFaults     \* receipts that time out, saves that fail or lose their client

ASSUME CoordinatorAssumption ==
  /\ Callers = {"reload", "life", "edit", "view", "down"}
  /\ {MaxRunning, MaxRequests, MaxFaults} \subseteq Nat

VARIABLES
  scene,     \* the configuration: is the scene there, is it enabled, its shape
  preview,   \* preview_scene_id, or "none"
  lock,      \* who holds the mutex around preview_scene_id
  editing,   \* who holds scene_edits; reload and life hold it for writing
  task,      \* the operations in progress
  torn,      \* scenes with an edit that was not saved, or cut off between
             \* the compositor's command and the manager's
  unserved,  \* widgets that a start or a resume gave up on, with a warning
             \* or because its client went away
  requests,
  faults

sceneVars == <<scene, preview, torn>>
coordinatorVars == <<task, lock, editing, sceneVars, unserved, requests, faults>>
vars == <<managerVars, compositorVars, coordinatorVars>>

NoWidget == "none"
Free == "free"
NoPlan == [permit |-> NoPermit, build |-> NoBuild, shape |-> 0]
\* todo: the widgets left, old: those of them to replace; joins: the children
\* a cutoff waits for, then: where the task goes on after it.
IdleTask ==
  [pc |-> "idle", op |-> "none", w |-> NoWidget, todo |-> {}, old |-> {}, tries |-> 0,
   then |-> "none", joins |-> {}, plan |-> [i \in Instances |-> NoPlan]]

Configured(w) == scene[w].at = "in"
\* configured_scene_is_visible.
Shown(w) == scene[w].on \/ preview = w
Installed(w) == registry[w] # NoBuild
Startable == {w \in Instances : Configured(w) /\ Shown(w) /\ Installed(w)}

\* Mutant: writers that do not wait for readers.
ConfigUnlocked == TRUE

\* The configuration is locked between steps only inside these four.
ConfigFree == \A t \in Callers : task[t].pc \notin {"stop", "activate", "preparing", "resuming"}
\* An edit holds it for writing until its widget's stop has been handled; who
\* replaces a widget to start it holds it for reading.
ConfigReadable == task["edit"].pc = "stop" => task["edit"].then = "prepare"

Used(i) ==
  {prepared[i]} \cup {task[t].plan[i].permit : t \in Callers}
    \cup {s.permit : s \in {spawns[k] : k \in {n \in 1..Len(spawns) : spawns[n].inst = i}}}
FreshPermit(i) == CHOOSE p \in 0..Cardinality(Used(i)) : p \notin Used(i)
Plan(w) == [permit |-> FreshPermit(w), build |-> registry[w], shape |-> scene[w].shape]

Send(t, w, ops) ==
  commands' = [commands EXCEPT ![w] =
                 @ \o [k \in 1..Len(ops) |-> Command(ops[k], t, scene[w].shape)]]
\* What a stop of w makes its caller wait for.
Handle(w) ==
  IF children[w].st \in {"running", "stopping"} THEN {<<w, children[w].pid>>} ELSE {}
Joined(t) ==
  \A j \in task[t].joins : children[j[1]].st # "stopping" \/ children[j[1]].pid # j[2]
Forget(t) == refused' = {r \in refused : r[1] # t}
Failed(t, w) == <<t, w>> \in refused

-----------------------------------------------------------------------------
(* The end of an operation: locks are dropped; a preview stays up.         *)

Finish(t) ==
  /\ task' = [task EXCEPT ![t] =
                IF task[t].op = "preview" THEN [IdleTask EXCEPT !.pc = "shown"] ELSE IdleTask]
  /\ editing' = editing \ {t}

Go(t, pc) == task' = [task EXCEPT ![t].pc = pc]
\* t starts with widget w of its list.
Take(t, w, pc) ==
  task' = [task EXCEPT ![t].pc = pc, ![t].w = w, ![t].todo = @ \ {w}, ![t].tries = 0]

\* enqueue_widget_stop: the compositor is told at once, the manager is asked
\* to stop the child and its answer awaited, with the locks kept.
CutOff(t, w, op, then) ==
  /\ Send(t, w, <<op>>)
  /\ task' = [task EXCEPT ![t].pc = "stop", ![t].then = then, ![t].w = w, ![t].todo = @ \ {w}]
  /\ UNCHANGED <<managerVars, retained, refused>>

\* The manager's part, and the locks are free but for a preview's end; t waits
\* for the receipt and the child, then goes on.  update_widget_transaction
\* enqueues the new registration before it lets go.
StopChild(t) ==
  LET w == task[t].w
      then == task[t].then
  IN  /\ task[t].pc = "stop"
      /\ Stop(w)
      /\ task' = [task EXCEPT ![t].pc = "cutoff", ![t].joins = Handle(w)]
      /\ IF then = "registering" THEN Send(t, w, <<"register">>) ELSE UNCHANGED commands
      /\ lock' = IF lock = t /\ then # "unviewed" THEN Free ELSE lock
      /\ UNCHANGED <<mode, spawns, reply, internal, procs, registry, retained, refused,
                     sceneVars, editing, unserved, requests, faults>>

\* The widgets of an operation one by one; a reload replaces the ones of old.
NextWidget(t) ==
  /\ task[t].pc = "next" /\ task[t].op # "resume"
  /\ \/ /\ task[t].todo = {}
        /\ Finish(t)
        /\ UNCHANGED <<managerVars, compositorVars>>
     \/ \E w \in task[t].todo \ task[t].old :
          Take(t, w, "prepare") /\ UNCHANGED <<managerVars, compositorVars, editing>>
     \/ \E w \in task[t].todo \cap task[t].old :
          /\ ConfigReadable
          /\ UNCHANGED editing
          /\ \/ ~Configured(w) /\ Take(t, w, "next") /\ UNCHANGED <<managerVars, compositorVars>>
             \/ Configured(w) /\ CutOff(t, w, "deactivate", "prepare")
  /\ UNCHANGED <<sceneVars, lock, unserved, requests, faults>>

\* WidgetStopBatch::wait, StopAllHandle::join.
CutoffApplied(t) ==
  /\ task[t].pc = "cutoff"
  /\ Joined(t) /\ Receipts(t, Instances)
  /\ \/ Forget(t)
     \/ task[t].then = "registering" /\ UNCHANGED refused
  /\ task' = [task EXCEPT ![t].pc = task[t].then, ![t].then = "none", ![t].joins = {}]
  /\ UNCHANGED <<managerVars, retained, commands, sceneVars, lock, editing, unserved, requests, faults>>

-----------------------------------------------------------------------------
(* spawn_configured_widget.                                                *)

\* prepare_widget_start, up to the permit; the locks are kept with it.
Prepare(t) ==
  LET w == task[t].w
      c == children[w]
      start == Shown(w) /\ mode = "running"
  IN  /\ task[t].pc = "prepare" /\ lock = Free /\ ConfigReadable
      /\ \/ /\ ~Configured(w) \/ ~Installed(w)
            /\ Go(t, "next")
            /\ UNCHANGED <<managerVars, compositorVars, lock>>
         \/ /\ Configured(w) /\ Installed(w) /\ ~start
            /\ Send(t, w, <<"register">>)
            /\ Go(t, "registered")
            /\ UNCHANGED <<managerVars, retained, refused, lock>>
         \/ /\ Configured(w) /\ Installed(w) /\ start /\ spawns = <<>>
            /\ \/ /\ c.st = "stopping"
                  /\ Stop(w)
                  /\ task' = [task EXCEPT ![t].pc = "cutoff", ![t].then = "prepare",
                                          ![t].joins = Handle(w)]
                  /\ UNCHANGED <<mode, spawns, reply, internal, procs, registry,
                                 compositorVars, lock>>
               \/ /\ c.st \in {"running", "pending"}
                  /\ c.build = registry[w] \/ task[t].tries > 0
                  /\ Go(t, "next")
                  /\ UNCHANGED <<managerVars, compositorVars, lock>>
               \/ /\ c.st \in {"running", "pending"}
                  /\ c.build # registry[w] /\ task[t].tries = 0
                  /\ Send(t, w, <<"deactivate">>)
                  /\ task' = [task EXCEPT ![t].pc = "stop", ![t].then = "prepare", ![t].tries = 1]
                  /\ lock' = t
                  /\ UNCHANGED <<managerVars, retained, refused>>
               \/ /\ c.st = "none"
                  /\ PrepareStart(w, "running", FreshPermit(w))
                  /\ task' = [task EXCEPT ![t].pc = "activate", ![t].plan[w] = Plan(w)]
                  /\ lock' = t
                  /\ UNCHANGED <<mode, children, spawns, reply, internal, procs, registry,
                                 compositorVars>>
      /\ UNCHANGED <<sceneVars, editing, unserved, requests, faults>>

\* prepare_widget_start: registration and activation, and the locks are free.
Activate(t) ==
  /\ task[t].pc = "activate"
  /\ Send(t, task[t].w, <<"register", "activate">>)
  /\ lock' = Free
  /\ Go(t, "activated")
  /\ UNCHANGED <<managerVars, retained, refused, sceneVars, editing, unserved, requests, faults>>

\* The receipts of a registration, or of a registration and an activation.
Registered(t) ==
  LET w == task[t].w
      then == CASE task[t].pc = "registered" -> "next"
                [] task[t].pc = "registering" -> IF Failed(t, w) THEN "next" ELSE "prepare"
                [] task[t].pc = "activated" -> IF Failed(t, w) THEN "next" ELSE "validate"
  IN  /\ task[t].pc \in {"registered", "registering", "activated"}
      /\ Receipts(t, {w})
      /\ Forget(t)
      /\ task' = [task EXCEPT ![t].pc = then,
                              ![t].plan[w] = IF then = "validate" THEN @ ELSE NoPlan]
      /\ unserved' = IF Failed(t, w) THEN unserved \cup {w} ELSE unserved
      /\ UNCHANGED <<managerVars, retained, commands, sceneVars, lock, editing, requests, faults>>

\* enqueue_validated_start: what was prepared may not be true any more.
Validation(t) ==
  LET w == task[t].w
  IN  IF ~Configured(w) \/ ~Shown(w) \/ ~Installed(w) \/ mode # "running" THEN "next"
      ELSE IF scene[w].shape # task[t].plan[w].shape \/ registry[w] # task[t].plan[w].build
        THEN "prepare" ELSE "start"

Validate(t) ==
  LET w == task[t].w
      p == task[t].plan[w]
  IN  /\ task[t].pc = "validate" /\ lock = Free /\ ConfigReadable
      /\ task' = [task EXCEPT ![t].pc = Validation(t), ![t].plan[w] = NoPlan]
      /\ \/ Validation(t) # "start" /\ UNCHANGED <<spawns, reply>>
         \/ /\ Validation(t) = "start"
            /\ spawns' = Append(spawns, [inst |-> w, build |-> p.build, permit |-> p.permit, by |-> t])
            /\ reply' = [reply EXCEPT ![t][w] = "waits"]
      /\ UNCHANGED <<mode, children, prepared, internal, procs, registry, compositorVars,
                     sceneVars, lock, editing, unserved, requests, faults>>

\* The answer to a start; an occupied or outdated one is prepared again.
StartAnswered(t) ==
  LET w == task[t].w
  IN  /\ task[t].pc = "start"
      /\ reply[t][w] \notin {"none", "waits"}
      /\ Go(t, IF reply[t][w] \in {"occupied", "registry"} THEN "prepare" ELSE "next")
      /\ reply' = [reply EXCEPT ![t][w] = "none"]
      /\ UNCHANGED <<mode, children, prepared, spawns, internal, procs, registry, compositorVars,
                     sceneVars, lock, editing, unserved, requests, faults>>

SpawnStep(t) ==
  NextWidget(t) \/ StopChild(t) \/ CutoffApplied(t) \/ Prepare(t) \/ Activate(t) \/ Registered(t)
    \/ Validate(t) \/ StartAnswered(t)

\* CompositorReceipt::wait ends after WIDGET_COMMAND_ACK_TIMEOUT.
ReceiptTimesOut(t) ==
  /\ faults < MaxFaults
  /\ task[t].pc # "stop" /\ ~Receipts(t, Instances)
  /\ refused' = refused \cup {<<t, i>> : i \in {j \in Instances : ~Receipts(t, {j})}}
  /\ commands' = [i \in Instances |-> Orphaned(t, commands[i])]
  /\ faults' = faults + 1
  /\ UNCHANGED <<managerVars, retained, sceneVars, task, lock, editing, unserved, requests>>

-----------------------------------------------------------------------------
(* Pause, resume and shutdown.  run_lifecycle_operation: life does one      *)
(* operation at a time; the shutdown does not wait for it.                  *)

Request == requests < MaxRequests /\ requests' = requests + 1
Idle(t) == task[t].pc = "idle"
\* AppServer::run: the web server serves after the boot, until the shutdown.
Booting == task["reload"].op = "boot"
Serving == Idle("down") /\ ~Booting

\* begin_pause and begin_shutdown take no lock; the task of the cutoff.
Cutting ==
  [IdleTask EXCEPT !.pc = "cut", !.todo = {i \in Instances : children[i].st # "none"},
                   !.joins = UNION {Handle(i) : i \in Instances}]

Pause ==
  /\ Request /\ Idle("life")
  /\ Cutoff("paused")
  /\ task' = [task EXCEPT !["life"] = Cutting]
  /\ UNCHANGED <<spawns, reply, internal, procs, registry, compositorVars, sceneVars, lock,
                 editing, unserved, faults>>

\* finish_lifecycle_stop, after the configuration's write lock.
Deactivate(t) ==
  /\ task[t].pc = "cut" /\ ConfigFree
  /\ LET keys == task[t].todo \cup {i \in Instances : Configured(i)}
     IN  commands' = [i \in Instances |->
           IF i \in keys THEN Append(commands[i], Command("deactivate", t, 0)) ELSE commands[i]]
  /\ task' = [task EXCEPT ![t].pc = "cutoff", ![t].todo = {},
                          ![t].then = IF t = "down" THEN "off" ELSE "next"]
  /\ UNCHANGED <<managerVars, retained, refused, sceneVars, lock, editing, unserved, requests, faults>>

BeginResume ==
  /\ Request /\ Idle("life")
  /\ task' = [task EXCEPT !["life"].pc = "resume", !["life"].op = "resume"]
  /\ UNCHANGED <<managerVars, compositorVars, sceneVars, lock, editing, unserved, faults>>

\* The first locked section of resume_all_widgets; the locks are kept.
ResumeLocked ==
  /\ task["life"].pc = "resume" /\ lock = Free /\ ConfigReadable
  /\ \/ mode # "paused" /\ task' = [task EXCEPT !["life"] = IdleTask] /\ UNCHANGED lock
     \/ /\ mode = "paused"
        /\ task' = [task EXCEPT !["life"].pc = "preparing", !["life"].todo = Startable]
        /\ lock' = "life"
  /\ UNCHANGED <<managerVars, compositorVars, sceneVars, editing, unserved, requests, faults>>

\* resume_widgets_unchanged.
ResumeUnchanged ==
  /\ \A w \in Instances : w \in Startable <=> task["life"].plan[w] # NoPlan
  /\ \A w \in Startable :
       /\ task["life"].plan[w].build = registry[w]
       /\ task["life"].plan[w].shape = scene[w].shape

\* The second locked section of resume_all_widgets.
ResumeValidate ==
  /\ task["life"].pc = "resumed" /\ lock = Free /\ ConfigReadable
  /\ Receipts("life", Instances)
  /\ Forget("life")
  /\ \/ /\ mode # "paused"
        /\ task' = [task EXCEPT !["life"] = IdleTask]
        /\ UNCHANGED <<mode, lock, unserved>>
     \/ /\ mode = "paused" /\ ~ResumeUnchanged
        /\ task' = [task EXCEPT !["life"] = [IdleTask EXCEPT !.pc = "resume", !.op = "resume"]]
        /\ UNCHANGED <<mode, lock, unserved>>
     \/ /\ mode = "paused" /\ ResumeUnchanged
        /\ Resume
        /\ task' = [task EXCEPT !["life"].pc = "resuming",
                                !["life"].todo = {w \in Startable : ~Failed("life", w)}]
        /\ lock' = "life"
        /\ unserved' = unserved \cup {w \in Startable : Failed("life", w)}
  /\ UNCHANGED <<children, prepared, spawns, reply, internal, procs, registry, retained, commands,
                 sceneVars, editing, requests, faults>>

\* prepare_resume_widgets.
ResumePrepare ==
  /\ task["life"].pc = "preparing"
  /\ \/ /\ task["life"].todo = {}
        /\ Go("life", "resumed")
        /\ lock' = Free
        /\ UNCHANGED <<prepared, commands>>
     \/ /\ mode # "paused"
        /\ task["life"].todo # {}
        /\ task' = [task EXCEPT !["life"] = IdleTask]
        /\ lock' = Free
        /\ UNCHANGED <<prepared, commands>>
     \/ \E w \in task["life"].todo :
          /\ spawns = <<>>
          /\ PrepareStart(w, "paused", FreshPermit(w))
          /\ Send("life", w, <<"activate">>)
          /\ task' = [task EXCEPT !["life"].todo = @ \ {w}, !["life"].plan[w] = Plan(w)]
          /\ UNCHANGED lock
  /\ UNCHANGED <<mode, children, spawns, reply, internal, procs, registry, retained, refused,
                 sceneVars, editing, unserved, requests, faults>>

\* The starts are sent under the locks and answered without them.
ResumeStart ==
  /\ task["life"].pc = "resuming"
  /\ \/ /\ task["life"].todo = {}
        /\ task' = [task EXCEPT !["life"] = [IdleTask EXCEPT !.pc = "next", !.op = "resume"]]
        /\ lock' = Free
        /\ UNCHANGED <<spawns, reply>>
     \/ \E w \in task["life"].todo :
          LET p == task["life"].plan[w]
          IN  /\ spawns' = Append(spawns, [inst |-> w, build |-> p.build, permit |-> p.permit,
                                           by |-> "life"])
              /\ reply' = [reply EXCEPT !["life"][w] = "waits"]
              /\ task' = [task EXCEPT !["life"].todo = @ \ {w}]
              /\ UNCHANGED lock
  /\ UNCHANGED <<mode, children, prepared, internal, procs, registry, compositorVars,
                 sceneVars, editing, unserved, requests, faults>>

ResumeAnswered ==
  /\ task["life"].pc = "next" /\ task["life"].op = "resume"
  /\ \/ /\ \A w \in Instances : reply["life"][w] = "none"
        /\ Finish("life")
        /\ UNCHANGED <<reply, unserved>>
     \/ \E w \in Instances :
          /\ reply["life"][w] \notin {"none", "waits"}
          /\ reply' = [reply EXCEPT !["life"][w] = "none"]
          /\ Take("life", w, IF reply["life"][w] \in {"occupied", "registry"}
                               THEN "prepare" ELSE "next")
          /\ unserved' = IF reply["life"][w] = "superseded" THEN unserved \cup {w} ELSE unserved
          /\ UNCHANGED editing
  /\ UNCHANGED <<mode, children, prepared, spawns, internal, procs, registry, compositorVars,
                 sceneVars, lock, requests, faults>>

\* run aborts the reload task before it stops everything.
Shutdown ==
  /\ Request /\ Serving
  /\ Cutoff("shutdown")
  /\ task' = [task EXCEPT !["down"] = Cutting, !["reload"] = IdleTask]
  /\ editing' = editing \ {"reload"}
  /\ lock' = IF lock = "reload" THEN Free ELSE lock
  /\ commands' = [i \in Instances |-> Orphaned("reload", commands[i])]
  /\ Forget("reload")
  /\ reply' = [reply EXCEPT !["reload"] = [i \in Instances |-> "none"]]
  /\ UNCHANGED <<spawns, internal, procs, registry, retained, sceneVars, unserved, faults>>

LifeStep ==
  ResumeLocked \/ ResumePrepare \/ ResumeValidate \/ ResumeStart \/ ResumeAnswered
    \/ Deactivate("life")

-----------------------------------------------------------------------------
(* reload_changed_widgets, by the upgrade's lifecycle or by SIGWINCH.      *)

BeginReload(t) ==
  /\ Request /\ Idle(t)
  /\ t = "reload" => Idle("down")
  /\ editing = {}
  /\ editing' = {t}
  /\ task' = [task EXCEPT ![t].pc = "scan", ![t].op = "reload"]
  /\ UNCHANGED <<managerVars, compositorVars, sceneVars, lock, unserved, faults>>

\* refresh_widgets; a failed scan keeps the running widgets.
Scan(t) ==
  /\ task[t].pc = "scan"
  /\ \/ Finish(t) /\ UNCHANGED registry
     \/ /\ registry' \in [Instances -> Builds \cup {NoBuild}]
        /\ Go(t, "scanned")
        /\ UNCHANGED editing
  /\ UNCHANGED <<mode, children, prepared, spawns, reply, internal, procs, compositorVars,
                 sceneVars, lock, unserved, requests, faults>>

Scanned(t) ==
  /\ task[t].pc = "scanned"
  /\ RegistryRefreshed
  /\ Go(t, "look")
  /\ UNCHANGED <<mode, prepared, spawns, reply, internal, procs, registry, compositorVars,
                 sceneVars, lock, editing, unserved, requests, faults>>

\* Mutant: a reload that only replaces.
LookManaged(t) ==
  LET differ == {w \in Instances : children[w].st \in {"running", "pending"}
                                     /\ children[w].build # registry[w]}
  IN  /\ task[t].pc = "look" /\ spawns = <<>> /\ ConfigReadable
      /\ task' = [task EXCEPT ![t].pc = "next", ![t].old = differ,
                              ![t].todo = {w \in differ : Configured(w) /\ Installed(w)}]
      /\ UNCHANGED <<managerVars, compositorVars, sceneVars, lock, editing, unserved, requests, faults>>

\* The snapshot of the manager and the widgets the configuration has.
Look(t) ==
  LET differ == {w \in Instances : children[w].st \in {"running", "pending"}
                                     /\ children[w].build # registry[w]}
      absent == {w \in Instances : children[w].st = "none"}
  IN  /\ task[t].pc = "look" /\ spawns = <<>> /\ ConfigReadable
      /\ task' = [task EXCEPT ![t].pc = "next", ![t].old = differ,
                              ![t].todo = {w \in differ \cup absent : Configured(w) /\ Installed(w)}]
      /\ UNCHANGED <<managerVars, compositorVars, sceneVars, lock, editing, unserved, requests, faults>>

ReloadStep(t) == Scan(t) \/ Scanned(t) \/ Look(t)
=============================================================================
