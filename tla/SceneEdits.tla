----------------------------- MODULE SceneEdits -----------------------------
(***************************************************************************)
(* The handlers that change scenes (web/grpc/scene_management.rs), each    *)
(* with its locked section as one step and what it waits for afterwards as *)
(* the steps of WidgetCoordinator.  An edit whose configuration cannot be  *)
(* saved returns at once: what it changed in memory stays changed.  An edit*)
(* runs in its client's request, and is dropped with it at any await.      *)
(***************************************************************************)
EXTENDS WidgetCoordinator

\* begin_scene_edit: no boot and no reload holds the scenes.
BeginEdit(t) ==
  /\ Request /\ Serving /\ Idle(t)
  /\ editing \cap {"reload", "life"} = {}
  /\ lock = Free

\* Mutant: the preview is forgotten.
EnabledCount == Cardinality({w \in Instances : Configured(w) /\ scene[w].on})

\* running_widget_count, fits_running_widgets.
RunningCount ==
  Cardinality({w \in Instances : Configured(w) /\ scene[w].on})
    + Cardinality({w \in Instances : preview = w /\ Configured(w) /\ ~scene[w].on})
HasCapacity(additional) == RunningCount + additional <= MaxRunning

\* save_config fails, or the client hangs up while it runs: the locks are free,
\* and nothing that should follow the change does.
SaveFails(w) ==
  /\ faults < MaxFaults
  /\ faults' = faults + 1
  /\ torn' = torn \cup {w}
  /\ UNCHANGED <<managerVars, compositorVars, task, editing>>

\* The rest of an edit that has nothing to wait for.
Done == UNCHANGED <<managerVars, compositorVars, task, editing>>

Saved(t) ==
  /\ editing' = editing \cup {t}
  /\ UNCHANGED <<faults, torn>>

\* update_scene.
UpdateScene(w, enabled) ==
  /\ BeginEdit("edit") /\ ConfigFree
  /\ Configured(w)
  /\ enabled /\ ~scene[w].on => HasCapacity(IF preview = w THEN 0 ELSE 1)
  /\ scene' = [scene EXCEPT ![w].on = enabled]
  /\ \/ SaveFails(w) /\ UNCHANGED lock
     \/ /\ scene[w].on /\ ~enabled /\ preview # w
        /\ CutOff("edit", w, "deactivate", "next")
        /\ lock' = "edit"
        /\ Saved("edit")
     \/ /\ ~scene[w].on /\ enabled
        /\ task' = [task EXCEPT !["edit"].pc = "next", !["edit"].todo = {w}]
        /\ Saved("edit")
        /\ UNCHANGED <<managerVars, compositorVars, lock>>
     \/ /\ scene[w].on = enabled \/ (~enabled /\ preview = w)
        /\ Done /\ UNCHANGED <<faults, torn, lock>>
  /\ UNCHANGED <<preview, unserved>>

\* enqueue_configured_widget_registration of w as it is now; t goes on with
\* finish_widget_registration, in a request or in a task of its own.
Detached == "detached"
Attached == "none"
Registration(t, w, shape, op) ==
  /\ commands' = [commands EXCEPT ![w] = Append(@, Command("register", t, shape))]
  /\ task' = [task EXCEPT ![t].pc = "registering", ![t].w = w, ![t].op = op]
  /\ UNCHANGED <<managerVars, retained, refused>>

\* add_fullscreen_scene, add_widget and clone_scene: a new widget.  What is
\* added to a disabled scene, or cloned with it, is not counted.
AddScene(w, enabled) ==
  /\ BeginEdit("edit") /\ ConfigFree
  /\ scene[w].at = "new" /\ Installed(w)
  /\ enabled => HasCapacity(1)
  /\ scene' = [scene EXCEPT ![w] = [at |-> "in", on |-> enabled, shape |-> 0]]
  /\ \/ SaveFails(w)
     \/ Registration("edit", w, 0, Attached) /\ Saved("edit")
  /\ UNCHANGED <<preview, lock, unserved>>

\* remove_scene refuses a previewed scene; remove_widget does not ask, and
\* takes no preview lock.
RemoveScene(w) ==
  /\ Request /\ Serving /\ Idle("edit")
  /\ editing \cap {"reload", "life"} = {}
  /\ ConfigFree
  /\ Configured(w)
  /\ scene' = [scene EXCEPT ![w].at = "gone"]
  /\ \/ SaveFails(w)
     \/ CutOff("edit", w, "unregister", "next") /\ Saved("edit")
  /\ UNCHANGED <<preview, lock, unserved>>

\* update_widget_transaction with a new placement.  A detached task, so no
\* client cancels it.
UpdateWidget(w) ==
  LET shape == 1 - scene[w].shape
  IN  /\ BeginEdit("edit") /\ ConfigFree
      /\ Configured(w) /\ Installed(w)
      /\ scene' = [scene EXCEPT ![w].shape = shape]
      /\ \/ SaveFails(w) /\ UNCHANGED lock
         \/ /\ Shown(w)
            /\ Send("edit", w, <<"deactivate">>)
            /\ task' = [task EXCEPT !["edit"] = [IdleTask EXCEPT
                                      !.pc = "stop", !.op = Detached, !.w = w, !.then = "registering"]]
            /\ lock' = "edit"
            /\ Saved("edit")
            /\ UNCHANGED <<managerVars, retained, refused>>
         \/ /\ ~Shown(w)
            /\ Registration("edit", w, shape, Detached) /\ Saved("edit")
            /\ UNCHANGED lock
      /\ UNCHANGED <<preview, unserved>>

-----------------------------------------------------------------------------
(* A client goes away.                                                     *)

\* The future of t is dropped where it stands, and its locks with it; a command
\* already sent takes its course.
Dropped(t, pc) ==
  /\ \A k \in 1..Len(spawns) : spawns[k].by # t
  /\ task' = [task EXCEPT ![t] = [IdleTask EXCEPT !.pc = pc]]
  /\ editing' = editing \ {t}
  /\ lock' = IF lock = t THEN Free ELSE lock
  /\ commands' = [i \in Instances |-> Orphaned(t, commands[i])]
  /\ Forget(t)
  /\ reply' = [reply EXCEPT ![t] = [i \in Instances |-> "none"]]
  /\ torn' = IF task[t].pc = "stop" THEN torn \cup {task[t].w} ELSE torn
  /\ UNCHANGED <<mode, children, prepared, spawns, internal, procs, registry, retained,
                 scene, preview, requests, faults>>

\* The widgets that t has yet to start.
Unstarted(t) ==
  LET w == task[t].w
      done == \/ task[t].pc = "next"
              \/ task[t].pc \in {"stop", "cutoff"} /\ task[t].then = "next"
              \/ task[t].pc = "start" /\ reply[t][w] \notin {"occupied", "registry"}
  IN  task[t].todo \cup (IF done THEN {} ELSE {w})

DropEdit ==
  /\ ~Idle("edit") /\ task["edit"].op # Detached
  /\ Dropped("edit", "idle")
  /\ unserved' = unserved \cup Unstarted("edit")

-----------------------------------------------------------------------------
(* A preview: its handler, the stream and the guard that ends it.          *)

PreviewScene(w) ==
  /\ BeginEdit("view") /\ ConfigReadable
  /\ preview = NoWidget
  /\ Configured(w)
  /\ ~scene[w].on => HasCapacity(1)
  /\ preview' = w
  /\ task' = [task EXCEPT !["view"].pc = "next", !["view"].op = "preview",
                          !["view"].todo = IF scene[w].on THEN {} ELSE {w}]
  /\ editing' = editing \cup {"view"}
  /\ UNCHANGED <<managerVars, compositorVars, scene, torn, lock, unserved, faults>>

\* The client goes away, before the stream begins or later: the handler is
\* dropped where it stands, and so is the guard, whose task is detached.
DropPreview ==
  /\ preview # NoWidget
  /\ task["view"].pc \notin {"unview", "unviewed"} /\ task["view"].then # "unviewed"
  /\ Dropped("view", "unview")
  /\ unserved' = unserved \cup {i \in Instances : task["view"].plan[i] # NoPlan}

\* PreviewGuard::drop: the lock is kept until the widget is gone.
Unpreview ==
  /\ task["view"].pc = "unview" /\ lock = Free /\ ConfigReadable
  /\ \/ /\ Configured(preview) /\ ~scene[preview].on
        /\ CutOff("view", preview, "deactivate", "unviewed")
        /\ lock' = "view"
        /\ UNCHANGED preview
     \/ /\ ~Configured(preview) \/ scene[preview].on
        /\ preview' = NoWidget
        /\ task' = [task EXCEPT !["view"] = IdleTask]
        /\ UNCHANGED <<managerVars, compositorVars, lock>>
  /\ UNCHANGED <<scene, torn, editing, unserved, requests, faults>>

\* Mutant: a guard that keeps the lock.
UnpreviewedLocked ==
  /\ task["view"].pc = "unviewed"
  /\ preview' = NoWidget
  /\ task' = [task EXCEPT !["view"] = IdleTask]
  /\ UNCHANGED <<managerVars, compositorVars, scene, torn, lock, editing, unserved, requests, faults>>

Unpreviewed ==
  /\ task["view"].pc = "unviewed"
  /\ preview' = NoWidget
  /\ lock' = Free
  /\ task' = [task EXCEPT !["view"] = IdleTask]
  /\ UNCHANGED <<managerVars, compositorVars, scene, torn, editing, unserved, requests, faults>>

ViewStep == Unpreview \/ Unpreviewed
Edit ==
  \/ \E w \in Instances :
       \/ \E enabled \in BOOLEAN : UpdateScene(w, enabled) \/ AddScene(w, enabled)
       \/ RemoveScene(w) \/ UpdateWidget(w) \/ PreviewScene(w)
  \/ DropEdit \/ DropPreview
=============================================================================
