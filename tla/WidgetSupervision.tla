------------------------- MODULE WidgetSupervision --------------------------
(***************************************************************************)
(* The widget manager with clients that may send any command at any time,  *)
(* processes that may end at any time and packages that come and go.       *)
(***************************************************************************)
EXTENDS WidgetManager

CONSTANT MaxPermit  \* callers prepare starts while a permit up to this is free

ASSUME PermitAssumption == MaxPermit \in Nat

VARIABLES held  \* the start each caller has prepared, or NoStart

vars == <<managerVars, held>>

NoStart == [inst |-> "none", build |-> NoBuild, permit |-> NoPermit]
Starts == [inst : Instances, build : Builds, permit : Nat]
Spawns == [inst : Instances, build : Builds, permit : Nat, by : Callers]
Messages == [kind : {"exit", "due"}, inst : Instances, pid : Pids, token : Nat]

TypeOK ==
  /\ mode \in Modes
  /\ children \in [Instances -> Children]
  /\ prepared \in [Instances -> Nat \cup {NoPermit}]
  /\ spawns \in Seq(Spawns)
  /\ reply \in [Callers -> [Instances -> Replies]]
  /\ internal \in Seq(Messages)
  /\ procs \in [Instances -> SUBSET Pids]
  /\ registry \in [Instances -> Builds \cup {NoBuild}]
  /\ held \in [Callers -> Starts \cup {NoStart}]

Init ==
  /\ mode = "running"
  /\ children = [i \in Instances |-> Vacant]
  /\ prepared = [i \in Instances |-> NoPermit]
  /\ spawns = <<>>
  /\ reply = [c \in Callers |-> [i \in Instances |-> "none"]]
  /\ internal = <<>>
  /\ procs = [i \in Instances |-> {}]
  /\ registry \in [Instances -> Builds \cup {NoBuild}]
  /\ held = [c \in Callers |-> NoStart]

-----------------------------------------------------------------------------
\* The least permit no caller, no queued start and no instance has.
Permits ==
  {prepared[i] : i \in Instances} \cup {held[c].permit : c \in Callers}
    \cup {spawns[k].permit : k \in 1..Len(spawns)}
FreshPermit(p) == p \notin Permits /\ \A q \in 0..(p - 1) : q \in Permits

Prepare(c, i, m) ==
  /\ spawns = <<>>
  /\ held[c] = NoStart /\ reply[c][i] = "none"
  /\ registry[i] # NoBuild
  /\ \E p \in 0..MaxPermit :
       /\ FreshPermit(p)
       /\ PrepareStart(i, m, p)
       /\ held' = [held EXCEPT ![c] = [inst |-> i, build |-> registry[i], permit |-> p]]
  /\ UNCHANGED <<mode, children, spawns, reply, internal, procs, registry>>

SendSpawn(c) ==
  /\ held[c] # NoStart
  /\ spawns' = Append(spawns, [inst |-> held[c].inst, build |-> held[c].build,
                               permit |-> held[c].permit, by |-> c])
  /\ held' = [held EXCEPT ![c] = NoStart]
  /\ reply' = [reply EXCEPT ![c][held[c].inst] = "waits"]
  /\ UNCHANGED <<mode, children, prepared, internal, procs, registry>>

TakeReply(c, i) ==
  /\ reply[c][i] \notin {"none", "waits"}
  /\ reply' = [reply EXCEPT ![c][i] = "none"]
  /\ UNCHANGED <<mode, children, prepared, spawns, internal, procs, registry, held>>

StopWidget(i) ==
  Stop(i) /\ UNCHANGED <<mode, spawns, reply, internal, procs, registry, held>>
CutoffAll(m) ==
  Cutoff(m) /\ UNCHANGED <<spawns, reply, internal, procs, registry, held>>
ResumeAll ==
  Resume /\ UNCHANGED <<children, prepared, spawns, reply, internal, procs, registry, held>>
Retry(i) ==
  RetryPending(i) /\ UNCHANGED <<mode, prepared, spawns, reply, internal, procs, registry, held>>
Refreshed ==
  RegistryRefreshed /\ UNCHANGED <<mode, prepared, spawns, reply, internal, procs, registry, held>>

Client ==
  \/ \E c \in Callers : SendSpawn(c)
  \/ \E c \in Callers, i \in Instances : TakeReply(c, i)
  \/ \E c \in Callers, i \in Instances, m \in {"running", "paused"} : Prepare(c, i, m)
  \/ \E i \in Instances : StopWidget(i) \/ Retry(i)
  \/ \E m \in {"paused", "shutdown"} : CutoffAll(m)
  \/ ResumeAll \/ Refreshed

Actor == ActorStep /\ UNCHANGED held
Ends(i) == StoppedProcessEnds(i) /\ UNCHANGED held
Environment ==
  /\ \/ \E i \in Instances : TimerFires(i) \/ ProcessEnds(i)
     \/ Rescan
  /\ UNCHANGED held

Next == Client \/ Actor \/ Environment

Spec == Init /\ [][Next]_vars

\* The actor runs, and a process told to end does, by SIGKILL at the latest.
FairSpec == Spec /\ WF_vars(Actor) /\ \A i \in Instances : WF_vars(Ends(i))

-----------------------------------------------------------------------------
\* transition_and_stop: outside the running mode no child runs and no restart
\* is pending, whatever was queued when the mode changed.
QuietUnlessRunning ==
  mode # "running" => \A i \in Instances : children[i].st \in {"none", "stopping"}

\* handle_exit: "current running child must be the only child able to exit".
ExitIsTheChilds ==
  \A k \in 1..Len(internal) :
    internal[k].kind = "exit" =>
      /\ children[internal[k].inst].st \in {"running", "stopping"}
      /\ children[internal[k].inst].pid = internal[k].pid

\* TerminationHandle: when the actor has let go of a child, so that whoever
\* joins it goes on, its process is gone.
JoinedIsGone ==
  \A i \in Instances : children[i].st \in {"none", "pending"} => procs[i] = {}

\* reset_restart_backoff: a prompt retry keeps "the rung it had already
\* climbed to"; no step lowers the rung of a restart that stays pending.
RungIsKept ==
  [][\A i \in Instances :
       children[i].st = "pending" /\ children'[i].st = "pending" =>
         children'[i].backoff >= children[i].backoff]_vars

\* take_pending_restart: a timer that lost its race does nothing, so a restart
\* never comes before the delay that was set last, unless a start asks for it.
RestartWaits ==
  [][\A i \in Instances :
       children[i].armed /\ children'[i].st = "running" => spawns' # spawns]_vars

\* The manager implements its promise.
Promise == INSTANCE WidgetLifecycle WITH
  ending <- {i \in Instances : procs[i] # {} /\ children[i].st = "stopping"}
KeepsPromise == Promise!Spec
=============================================================================
