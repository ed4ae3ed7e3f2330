-------------------------- MODULE WidgetLifecycle ---------------------------
(***************************************************************************)
(* What the widget manager promises: an instance never has two processes,  *)
(* no process starts unless the manager is running, and whatever a stop or *)
(* a cutoff found running ends.  No queues, timers, permits or tasks.      *)
(***************************************************************************)
CONSTANTS Instances, Pids

VARIABLES
  mode,   \* running, paused or shutdown
  procs,  \* the processes of each instance
  ending  \* instances whose process was told to end

vars == <<mode, procs, ending>>

Init ==
  /\ mode = "running"
  /\ procs = [i \in Instances |-> {}]
  /\ ending = {}

Start(i) ==
  /\ mode = "running"
  /\ procs[i] = {}
  /\ \E p \in Pids : procs' = [procs EXCEPT ![i] = {p}]
  /\ UNCHANGED <<mode, ending>>

End(i) ==
  /\ procs[i] # {}
  /\ procs' = [procs EXCEPT ![i] = {}]
  /\ ending' = ending \ {i}
  /\ UNCHANGED mode

Stop(i) ==
  /\ procs[i] # {}
  /\ ending' = ending \cup {i}
  /\ UNCHANGED <<mode, procs>>

\* Nothing leaves the terminal mode.
Cutoff(m) ==
  /\ mode' = IF mode = "shutdown" THEN mode ELSE m
  /\ ending' = {i \in Instances : procs[i] # {}}
  /\ UNCHANGED procs

Resume ==
  /\ mode = "paused"
  /\ mode' = "running"
  /\ UNCHANGED <<procs, ending>>

Next ==
  \/ \E i \in Instances : Start(i) \/ End(i) \/ Stop(i)
  \/ \E m \in {"paused", "shutdown"} : Cutoff(m)
  \/ Resume

Spec == Init /\ [][Next]_vars /\ \A i \in Instances : WF_vars(i \in ending /\ End(i))
=============================================================================
