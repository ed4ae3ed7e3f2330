---------------------------- MODULE WidgetProofs ----------------------------
(***************************************************************************)
(* Proofs about the widget manager of WidgetSupervision, for any number of *)
(* instances, callers, builds and process ids, and any ladder of delays.   *)
(***************************************************************************)
EXTENDS WidgetSupervision, FiniteSetTheorems, SequenceTheorems, TLAPS

-----------------------------------------------------------------------------
(* The inductive invariant.                                                *)

\* A process that runs is the one its entry names; a process whose exit is in
\* the queue has ended, its entry still waits for the exit, and the exit is
\* the only one for the instance.
Owned ==
  /\ \A i \in Instances :
       /\ procs[i] \subseteq {children[i].pid}
       /\ procs[i] # {} => children[i].st \in {"running", "stopping"}
  /\ ExitIsTheChilds
  /\ \A k \in 1..Len(internal) : internal[k].kind = "exit" => procs[internal[k].inst] = {}
  /\ \A k, l \in 1..Len(internal) :
       internal[k].kind = "exit" /\ internal[l].kind = "exit"
         /\ internal[k].inst = internal[l].inst => k = l

\* While the timer of an entry has not fired, no message is the one it awaits.
TimersFresh ==
  \A i \in Instances : children[i].armed =>
    /\ children[i].st = "pending"
    /\ \A k \in 1..Len(internal) :
         internal[k].kind = "due" /\ internal[k].inst = i => internal[k].token # children[i].token

IInv == TypeOK /\ Owned /\ QuietUnlessRunning /\ TimersFresh

\* internal loses its first d messages, d being 0 or 1.
Shifted(d) ==
  /\ internal' \in Seq(Messages)
  /\ Len(internal') = Len(internal) - d
  /\ \A k \in 1..Len(internal') : internal'[k] = internal[k + d]

-----------------------------------------------------------------------------
(* Data.                                                                   *)

\* The entry of an instance without a child is well formed.
LEMMA VacantTyped == Vacant \in Children /\ NoPid \in Pids
<1>1. NoPid \in Pids
  BY ManagerAssumption, Zenon DEF NoPid
<1>2. BackoffInitial \in BackoffInitial..BackoffMax
  BY ManagerAssumption
<1> QED
  BY <1>1, <1>2 DEF Vacant, Child, Children, NoBuild

\* The fields of an entry.
LEMMA FieldsTyped ==
  ASSUME NEW c \in Children
  PROVE  /\ c.build \in Builds \cup {NoBuild} /\ c.token \in Nat
         /\ c.backoff \in BackoffInitial..BackoffMax /\ c.backoff \in Nat
<1>1. c.build \in Builds \cup {NoBuild} /\ c.token \in Nat /\ c.backoff \in BackoffInitial..BackoffMax
  BY DEF Children
<1>2. c.backoff \in Nat
  BY <1>1, ManagerAssumption
<1> QED
  BY <1>1, <1>2

\* An entry whose timer has fired.
LEMMA FiredTyped ==
  ASSUME NEW c \in Children
  PROVE  [c EXCEPT !.armed = FALSE] \in Children
BY DEF Children

\* NextBackoff climbs the ladder and stays on it.
LEMMA NextBackoffClimbs ==
  ASSUME NEW d \in BackoffInitial..BackoffMax
  PROVE  NextBackoff(d) \in BackoffInitial..BackoffMax /\ NextBackoff(d) >= d
BY ManagerAssumption DEF NextBackoff

\* schedule_restart: among as many tokens as there are messages, and two more,
\* one belongs to no message and not to the entry.
LEMMA FreshTokenIsFresh ==
  ASSUME TypeOK, NEW i \in Instances
  PROVE  /\ FreshToken(i) \in Nat
         /\ \A k \in 1..Len(internal) :
              internal[k].inst = i => internal[k].token # FreshToken(i)
<1> DEFINE n == Len(internal)
           Free(t) == /\ t # children[i].token
                      /\ \A k \in 1..n : internal[k].inst = i => internal[k].token # t
           Holds(k, t) == IF k = n + 1 THEN children[i].token = t ELSE internal[k].token = t
           f == [t \in 1..(n + 2) |-> CHOOSE k \in 1..(n + 1) : Holds(k, t)]
<1>1. n \in Nat
  BY LenProperties DEF TypeOK
<1>2. \E t \in 1..(n + 2) : Free(t)
  <2>1. SUFFICES ASSUME \A t \in 1..(n + 2) : ~Free(t)
                 PROVE  FALSE
    OBVIOUS
  <2>2. ASSUME NEW t \in 1..(n + 2)
        PROVE  \E k \in 1..(n + 1) : Holds(k, t)
    BY <1>1, <2>1, <2>2
  <2>3. \A t \in 1..(n + 2) : f[t] \in 1..(n + 1) /\ Holds(f[t], t)
    BY <2>2, Zenon
  <2>4. f \in [1..(n + 2) -> 1..(n + 1)]
    BY <2>3, Zenon
  <2>5. /\ IsFiniteSet(1..(n + 2)) /\ Cardinality(1..(n + 2)) = n + 2
        /\ IsFiniteSet(1..(n + 1)) /\ Cardinality(1..(n + 1)) = n + 1
    BY <1>1, FS_Interval
  <2>6. Cardinality(1..(n + 1)) < Cardinality(1..(n + 2))
    BY <1>1, <2>5
  <2> HIDE DEF f
  <2>7. PICK x \in 1..(n + 2), y \in 1..(n + 2) : x # y /\ f[x] = f[y]
    BY <2>4, <2>5, <2>6, FS_PigeonHole, Zenon
  <2> QED
    BY <2>3, <2>7
<1>3. FreshToken(i) = CHOOSE t \in 1..(n + 2) : Free(t)
  BY DEF FreshToken
<1>4. FreshToken(i) \in 1..(n + 2) /\ Free(FreshToken(i))
  BY <1>2, <1>3, Zenon
<1> QED
  BY <1>1, <1>4

\* What a new pending entry holds.
LEMMA PendingFields ==
  \A i, b, d : /\ Pending(i, b, d).st = "pending"
               /\ Pending(i, b, d).backoff = d
               /\ Pending(i, b, d).token = FreshToken(i)
BY DEF Pending, Child

\* A new pending entry is well formed and its timer has not fired.
LEMMA PendingTyped ==
  ASSUME TypeOK, NEW i \in Instances, NEW b \in Builds \cup {NoBuild},
         NEW d \in BackoffInitial..BackoffMax
  PROVE  Pending(i, b, d) \in Children
BY FreshTokenIsFresh, VacantTyped DEF Pending, Child, Children

\* Stopping an entry, or starting its timer anew, leaves it well formed.
LEMMA EntriesTyped ==
  ASSUME TypeOK, NEW i \in Instances
  PROVE  Stopped(children[i]) \in Children /\ Rearmed(i) \in Children
<1> USE DEF TypeOK
<1>1. Stopped(children[i]) \in Children
  <2>1. children[i] \in Children
    OBVIOUS
  <2>2. [children[i] EXCEPT !.st = "stopping"] \in Children
    BY <2>1 DEF Children
  <2> QED
    BY <2>1, <2>2, VacantTyped DEF Stopped
<1>2. Rearmed(i) \in Children
  <2>1. children[i].build \in Builds \cup {NoBuild}
        /\ children[i].backoff \in BackoffInitial..BackoffMax
    BY DEF Children
  <2> QED
    BY <2>1, PendingTyped DEF Rearmed
<1> QED
  BY <1>1, <1>2

\* Launch and LaunchFails leave well-formed entries and sets of processes.
LEMMA LaunchTyped ==
  ASSUME TypeOK, NEW i \in Instances, NEW b \in Builds \cup {NoBuild},
         NEW d \in BackoffInitial..BackoffMax, Launch(i, b, d) \/ LaunchFails(i, b, d)
  PROVE  children' \in [Instances -> Children] /\ procs' \in [Instances -> SUBSET Pids]
<1> USE DEF TypeOK
<1>1. CASE Launch(i, b, d)
  <2>1. PICK p \in Pids :
          /\ procs' = [procs EXCEPT ![i] = @ \cup {p}]
          /\ children' = [children EXCEPT ![i] = Child("running", p, b, d, 0)]
    BY <1>1 DEF Launch
  <2>2. Child("running", p, b, d, 0) \in Children
    BY DEF Child, Children
  <2> QED
    BY <2>1, <2>2
<1>2. CASE LaunchFails(i, b, d)
  <2>1. Pending(i, b, NextBackoff(d)) \in Children
    BY NextBackoffClimbs, PendingTyped
  <2> QED
    BY <1>2, <2>1 DEF LaunchFails
<1> QED
  BY <1>1, <1>2

\* The messages in the queue.
LEMMA MessagesTyped ==
  ASSUME TypeOK
  PROVE  /\ internal \in Seq(Messages) /\ Len(internal) \in Nat
         /\ \A k \in 1..Len(internal) : internal[k] \in Messages /\ internal[k].inst \in Instances
<1>1. internal \in Seq(Messages)
  BY DEF TypeOK
<1>2. \A k \in 1..Len(internal) : internal[k] \in Messages
  BY <1>1, ElementOfSeq
<1> QED
  BY <1>1, <1>2, LenProperties DEF Messages

\* What the first message of a queue that is not empty leaves behind.
LEMMA TailTyped ==
  ASSUME NEW S, NEW q \in Seq(S), q # <<>>
  PROVE  /\ Head(q) \in S /\ Head(q) = q[1] /\ Len(q) \in Nat \ {0}
         /\ Tail(q) \in Seq(S) /\ Len(Tail(q)) = Len(q) - 1
         /\ \A k \in 1..Len(Tail(q)) : Tail(q)[k] = q[k + 1]
BY HeadTailProperties, EmptySeq, LenProperties

-----------------------------------------------------------------------------
(* Types.                                                                  *)

\* The actor's handlers preserve the types.
LEMMA ActorTyped ==
  ASSUME TypeOK, Actor
  PROVE  TypeOK'
<1> USE DEF TypeOK
<1>1. UNCHANGED held
  BY DEF Actor
<1>2. CASE HandleSpawn
  <2> DEFINE s == Head(spawns)
             c == children[s.inst]
             rung == IF c.st = "pending" THEN c.backoff ELSE BackoffInitial
  <2>1. s \in Spawns /\ Tail(spawns) \in Seq(Spawns)
    BY <1>2, TailTyped DEF HandleSpawn
  <2>2. s.inst \in Instances /\ s.build \in Builds /\ s.by \in Callers /\ s.permit \in Nat
    BY <2>1 DEF Spawns
  <2>3. rung \in BackoffInitial..BackoffMax
    BY <2>2, ManagerAssumption DEF Children
  <2>4. ASSUME NEW r \in Replies, Answer(s, r)
        PROVE  /\ spawns' \in Seq(Spawns) /\ reply' \in [Callers -> [Instances -> Replies]]
               /\ UNCHANGED <<mode, internal, registry>>
    BY <2>1, <2>2, <2>4 DEF Answer
  <2>5. Refusal(s) \in Replies
    BY DEF Refusal, Replies
  <2>6. /\ \E r \in Replies : Answer(s, r)
        /\ prepared' \in [Instances -> Nat \cup {NoPermit}]
        /\ \/ UNCHANGED <<children, procs>>
           \/ Launch(s.inst, s.build, rung) \/ LaunchFails(s.inst, s.build, rung)
    BY <1>2, <2>2, <2>5 DEF HandleSpawn, Replies
  <2>7. children' \in [Instances -> Children] /\ procs' \in [Instances -> SUBSET Pids]
    BY <2>2, <2>3, <2>6, LaunchTyped
  <2> QED
    BY <1>1, <2>4, <2>6, <2>7
<1>3. CASE HandleExit
  <2> DEFINE i == Head(internal).inst
  <2>1. Head(internal) \in Messages /\ internal' \in Seq(Messages)
        /\ UNCHANGED <<mode, prepared, spawns, reply, registry, procs>>
    BY <1>3, TailTyped DEF HandleExit, Receive
  <2>2. PICK healthy \in BOOLEAN : children' = [children EXCEPT ![i] = AfterExit(i, healthy)]
    BY <1>3 DEF HandleExit
  <2>3. i \in Instances
    BY <2>1 DEF Messages
  <2>4. /\ children[i] \in Children /\ children[i].build \in Builds \cup {NoBuild}
        /\ children[i].backoff \in BackoffInitial..BackoffMax
        /\ BackoffInitial \in BackoffInitial..BackoffMax
    BY <2>3, ManagerAssumption DEF Children
  <2>5. AfterExit(i, healthy) \in Children
    <3>1. ASSUME NEW d \in BackoffInitial..BackoffMax
          PROVE  Pending(i, children[i].build, NextBackoff(d)) \in Children
      BY <2>3, <2>4, NextBackoffClimbs, PendingTyped
    <3> QED
      BY <2>4, <3>1, VacantTyped DEF AfterExit
  <2> QED
    BY <1>1, <2>1, <2>2, <2>3, <2>5
<1>4. CASE HandleRestartDue
  <2> DEFINE i == Head(internal).inst
             c == children[i]
  <2>1. Head(internal) \in Messages /\ internal' \in Seq(Messages)
        /\ UNCHANGED <<mode, prepared, spawns, reply, registry>>
    BY <1>4, TailTyped DEF HandleRestartDue, Receive
  <2>2. i \in Instances
    BY <2>1 DEF Messages
  <2>3. c.build \in Builds \cup {NoBuild} /\ c.backoff \in BackoffInitial..BackoffMax
    BY <2>2 DEF Children
  <2>4. \/ UNCHANGED <<children, procs>>
        \/ children' = [children EXCEPT ![i] = Vacant] /\ UNCHANGED procs
        \/ children' = [children EXCEPT ![i] = Pending(i, c.build, c.backoff)] /\ UNCHANGED procs
        \/ Launch(i, c.build, c.backoff) \/ LaunchFails(i, c.build, c.backoff)
    BY <1>4 DEF HandleRestartDue
  <2>5. children' \in [Instances -> Children] /\ procs' \in [Instances -> SUBSET Pids]
    <3>1. Vacant \in Children /\ Pending(i, c.build, c.backoff) \in Children
      BY <2>2, <2>3, PendingTyped, VacantTyped
    <3>2. CASE Launch(i, c.build, c.backoff) \/ LaunchFails(i, c.build, c.backoff)
      BY <2>2, <2>3, <3>2, LaunchTyped
    <3> QED
      BY <2>2, <2>4, <3>1, <3>2
  <2> QED
    BY <1>1, <2>1, <2>5
<1> QED
  BY <1>2, <1>3, <1>4 DEF Actor, ActorStep


\* The manager's clients and the environment preserve the types.
LEMMA ClientTyped ==
  ASSUME TypeOK, Client
  PROVE  TypeOK'
<1> USE DEF TypeOK
<1>1. ASSUME NEW c \in Callers, SendSpawn(c)
      PROVE  TypeOK'
  <2> DEFINE s == [inst |-> held[c].inst, build |-> held[c].build,
                   permit |-> held[c].permit, by |-> c]
  <2>1. held[c] \in Starts
    BY <1>1 DEF SendSpawn
  <2>2. s \in Spawns /\ held[c].inst \in Instances
    BY <2>1 DEF Starts, Spawns
  <2>3. spawns' \in Seq(Spawns)
    BY <1>1, <2>2, AppendProperties DEF SendSpawn
  <2>4. reply' \in [Callers -> [Instances -> Replies]]
    BY <1>1, <2>2 DEF SendSpawn, Replies
  <2>5. held' \in [Callers -> Starts \cup {NoStart}]
    BY <1>1 DEF SendSpawn
  <2> QED
    BY <1>1, <2>3, <2>4, <2>5 DEF SendSpawn
<1>2. ASSUME NEW c \in Callers, NEW i \in Instances, TakeReply(c, i)
      PROVE  TypeOK'
  BY <1>2 DEF TakeReply, Replies
<1>3. ASSUME NEW c \in Callers, NEW i \in Instances, NEW m \in {"running", "paused"},
             Prepare(c, i, m)
      PROVE  TypeOK'
  <2>1. PICK p \in 0..MaxPermit :
          /\ PrepareStart(i, m, p)
          /\ held' = [held EXCEPT ![c] = [inst |-> i, build |-> registry[i], permit |-> p]]
    BY <1>3 DEF Prepare
  <2>2. p \in Nat /\ registry[i] \in Builds
    BY <1>3, PermitAssumption DEF Prepare
  <2>3. [inst |-> i, build |-> registry[i], permit |-> p] \in Starts
    BY <2>2 DEF Starts
  <2>4. held' \in [Callers -> Starts \cup {NoStart}]
    BY <2>1, <2>3
  <2>5. prepared' \in [Instances -> Nat \cup {NoPermit}]
    BY <2>1, <2>2 DEF PrepareStart
  <2> QED
    BY <1>3, <2>4, <2>5 DEF Prepare
<1>4. ASSUME NEW i \in Instances, StopWidget(i)
      PROVE  TypeOK'
  BY <1>4, EntriesTyped DEF StopWidget, Stop
<1>5. ASSUME NEW i \in Instances, Retry(i)
      PROVE  TypeOK'
  BY <1>5, EntriesTyped DEF Retry, RetryPending
<1>6. ASSUME NEW m \in {"paused", "shutdown"}, CutoffAll(m)
      PROVE  TypeOK'
  <2>1. mode' \in Modes
    BY <1>6 DEF CutoffAll, Cutoff, Modes
  <2>2. children' \in [Instances -> Children] /\ prepared' \in [Instances -> Nat \cup {NoPermit}]
    BY <1>6, EntriesTyped DEF CutoffAll, Cutoff
  <2> QED
    BY <1>6, <2>1, <2>2 DEF CutoffAll
<1>7. CASE ResumeAll
  BY <1>7 DEF ResumeAll, Resume, Modes
<1>8. CASE Refreshed
  BY <1>8, EntriesTyped DEF Refreshed, RegistryRefreshed
<1> QED
  BY <1>1, <1>2, <1>3, <1>4, <1>5, <1>6, <1>7, <1>8 DEF Client

\* Timers, ends of processes and new packages preserve the types.
LEMMA EnvironmentTyped ==
  ASSUME TypeOK, Environment
  PROVE  TypeOK'
<1> USE DEF TypeOK
<1>1. UNCHANGED held
  BY DEF Environment
<1>2. ASSUME NEW i \in Instances, TimerFires(i)
      PROVE  TypeOK'
  <2>1. Due(i, children[i].token) \in Messages
    BY VacantTyped DEF Due, Messages, Children
  <2>2. internal' \in Seq(Messages)
    BY <1>2, <2>1, AppendProperties DEF TimerFires
  <2>3. [children[i] EXCEPT !.armed = FALSE] \in Children
    <3>1. children[i] \in Children
      OBVIOUS
    <3> QED
      BY <3>1, FiredTyped
  <2> QED
    BY <1>1, <1>2, <2>2, <2>3 DEF TimerFires
<1>3. ASSUME NEW i \in Instances, ProcessEnds(i)
      PROVE  TypeOK'
  <2>1. PICK p \in procs[i] :
          /\ procs' = [procs EXCEPT ![i] = @ \ {p}]
          /\ internal' = Append(internal, Exited(i, p))
    BY <1>3 DEF ProcessEnds
  <2>2. Exited(i, p) \in Messages
    BY DEF Exited, Messages
  <2>3. internal' \in Seq(Messages)
    BY <2>1, <2>2, AppendProperties
  <2>4. procs' \in [Instances -> SUBSET Pids]
    BY <2>1
  <2> QED
    BY <1>1, <1>3, <2>3, <2>4 DEF ProcessEnds
<1>4. CASE Rescan
  BY <1>1, <1>4 DEF Rescan
<1> QED
  BY <1>2, <1>3, <1>4 DEF Environment

\* Every step preserves the types.
LEMMA StepTyped == TypeOK /\ [Next]_vars => TypeOK'
<1>1. ASSUME TypeOK, UNCHANGED vars
      PROVE  TypeOK'
  BY <1>1 DEF TypeOK, vars, managerVars
<1> QED
  BY <1>1, ActorTyped, ClientTyped, EnvironmentTyped DEF Next

\* The manager starts with no child, no message and no start.
LEMMA InitTyped == Init => TypeOK
<1> SUFFICES ASSUME Init PROVE TypeOK
  OBVIOUS
<1>1. spawns \in Seq(Spawns) /\ internal \in Seq(Messages)
  BY DEF Init
<1> QED
  BY <1>1, VacantTyped DEF Init, TypeOK, Modes, Replies


-----------------------------------------------------------------------------
(* Which changes of the entries are harmless.                              *)

\* Nothing that Owned, QuietUnlessRunning and TimersFresh speak of changes.
LEMMA FrameSafe ==
  ASSUME IInv, UNCHANGED <<mode, children, internal, procs>>
  PROVE  Owned' /\ QuietUnlessRunning' /\ TimersFresh'
BY DEF IInv, Owned, ExitIsTheChilds, QuietUnlessRunning, TimersFresh

\* A message that nobody waits for is taken from the queue.
LEMMA ShiftSafe ==
  ASSUME IInv, Shifted(1), UNCHANGED <<mode, children, procs>>
  PROVE  Owned' /\ QuietUnlessRunning' /\ TimersFresh'
<1>1. TypeOK /\ Owned /\ TimersFresh /\ QuietUnlessRunning
  BY DEF IInv
<1>2. \A k \in 1..Len(internal') : k + 1 \in 1..Len(internal) /\ internal'[k] = internal[k + 1]
  <2>1. Len(internal) \in Nat /\ Len(internal') \in Nat
    BY <1>1, LenProperties DEF TypeOK, Shifted
  <2> QED
    BY <2>1 DEF Shifted
<1>3. QuietUnlessRunning' /\ TimersFresh'
  BY <1>1, <1>2 DEF QuietUnlessRunning, TimersFresh
<1>4. ExitIsTheChilds'
  BY <1>1, <1>2 DEF Owned, ExitIsTheChilds
<1>5. \A k \in 1..Len(internal') : internal'[k].kind = "exit" => procs'[internal'[k].inst] = {}
  BY <1>1, <1>2 DEF Owned
<1>6. ASSUME NEW k \in 1..Len(internal'), NEW l \in 1..Len(internal'),
             internal'[k].kind = "exit", internal'[l].kind = "exit",
             internal'[k].inst = internal'[l].inst
      PROVE  k = l
  <2>1. k + 1 = l + 1
    BY <1>1, <1>2, <1>6 DEF Owned
  <2> QED
    BY <2>1
<1> QED
  BY <1>1, <1>3, <1>4, <1>5, <1>6 DEF Owned

\* stop, transition_and_stop, retry_pending: entries stay, are stopped, or have
\* their timers started anew.
LEMMA EntriesSafe ==
  ASSUME IInv, UNCHANGED <<internal, procs>>,
         \A i \in Instances :
           \/ children'[i] = children[i]
           \/ children'[i] = Stopped(children[i])
           \/ children'[i] = Rearmed(i),
         \/ mode' = mode
         \/ \A i \in Instances : children'[i] = Stopped(children[i])
  PROVE  Owned' /\ QuietUnlessRunning' /\ TimersFresh'
<1>1. ASSUME NEW i \in Instances
      PROVE  /\ children[i].st \in {"running", "stopping"} =>
                  children'[i].st \in {"running", "stopping"} /\ children'[i].pid = children[i].pid
             /\ children[i].st \in {"none", "stopping"} => children'[i] = children[i]
             /\ mode' # "running" => children'[i].st \in {"none", "stopping"}
             /\ \/ children'[i].armed = children[i].armed /\ children'[i].token = children[i].token
                    /\ (children'[i].armed => children'[i].st = "pending")
                \/ children'[i].armed = FALSE
                \/ children'[i].st = "pending" /\ children'[i].token = FreshToken(i)
  <2> DEFINE c == children[i]
  <2>1. c \in Children /\ c.st \in {"none", "running", "stopping", "pending"}
        /\ (c.armed => c.st = "pending")
        /\ (mode # "running" => c.st \in {"none", "stopping"})
    BY DEF IInv, TypeOK, Children, TimersFresh, QuietUnlessRunning
  <2>2. Vacant.st = "none" /\ Vacant.armed = FALSE
    BY DEF Vacant, Child
  <2>3. CASE children'[i] = c
    <3>1. mode' # "running" => c.st \in {"none", "stopping"}
      <4>1. CASE mode' = mode
        BY <2>1, <4>1
      <4>2. CASE children'[i] = Stopped(c)
        BY <2>1, <2>2, <2>3, <4>2 DEF Stopped, Children
      <4> QED
        BY <4>1, <4>2
    <3> QED
      BY <2>1, <2>3, <3>1
  <2>4. CASE children'[i] = Stopped(c)
    BY <2>1, <2>2, <2>4 DEF Stopped, Children
  <2>5. CASE children'[i] = Rearmed(i) /\ children'[i] # c
    <3>1. mode = "running" /\ c.st = "pending" /\ children'[i] = Pending(i, c.build, c.backoff)
      BY <2>5 DEF Rearmed
    <3>2. children'[i].st = "pending" /\ children'[i].token = FreshToken(i)
      BY <3>1 DEF Pending, Child
    <3>3. mode' = mode
      <4>1. SUFFICES ASSUME children'[i] = Stopped(c)
                     PROVE  FALSE
        OBVIOUS
      <4> QED
        BY <2>2, <3>1, <3>2, <4>1 DEF Stopped
    <3> QED
      BY <3>1, <3>2, <3>3
  <2> QED
    BY <2>3, <2>4, <2>5
<1>2. TypeOK /\ Owned /\ TimersFresh
  BY DEF IInv
<1>3. QuietUnlessRunning'
  BY <1>1 DEF QuietUnlessRunning
<1>4. TimersFresh'
  <2>1. SUFFICES ASSUME NEW i \in Instances, children'[i].armed
                 PROVE  /\ children'[i].st = "pending"
                        /\ \A k \in 1..Len(internal) :
                             internal[k].kind = "due" /\ internal[k].inst = i =>
                               internal[k].token # children'[i].token
    BY DEF TimersFresh
  <2>2. CASE children'[i].armed = children[i].armed /\ children'[i].token = children[i].token
               /\ (children'[i].armed => children'[i].st = "pending")
    BY <1>2, <2>1, <2>2 DEF TimersFresh
  <2>3. CASE children'[i].st = "pending" /\ children'[i].token = FreshToken(i)
    BY <1>2, <2>3, FreshTokenIsFresh
  <2> QED
    BY <1>1, <2>1, <2>2, <2>3
<1>5. Owned'
  <2>1. \A k \in 1..Len(internal) : internal[k].inst \in Instances
    BY <1>2, MessagesTyped
  <2>2. ExitIsTheChilds'
    <3>1. SUFFICES ASSUME NEW k \in 1..Len(internal), internal[k].kind = "exit"
                   PROVE  /\ children'[internal[k].inst].st \in {"running", "stopping"}
                          /\ children'[internal[k].inst].pid = internal[k].pid
      BY DEF ExitIsTheChilds
    <3>2. /\ children[internal[k].inst].st \in {"running", "stopping"}
          /\ children[internal[k].inst].pid = internal[k].pid
      BY <1>2, <3>1 DEF Owned, ExitIsTheChilds
    <3> QED
      BY <1>1, <2>1, <3>2
  <2>3. \A i \in Instances :
          /\ procs'[i] \subseteq {children'[i].pid}
          /\ procs'[i] # {} => children'[i].st \in {"running", "stopping"}
    BY <1>1, <1>2 DEF Owned
  <2> QED
    BY <1>2, <2>2, <2>3 DEF Owned
<1> QED
  BY <1>3, <1>4, <1>5

\* After a shift an exit is where it was, d places further on.
LEMMA ShiftedPlace ==
  ASSUME TypeOK, NEW d \in {0, 1}, Shifted(d), NEW k \in 1..Len(internal')
  PROVE  k + d \in 1..Len(internal) /\ internal'[k] = internal[k + d]
         /\ internal'[k].inst \in Instances
<1>1. Len(internal) \in Nat /\ Len(internal') \in Nat
  BY MessagesTyped, LenProperties DEF Shifted
<1>2. Len(internal') = Len(internal) - d
  BY DEF Shifted
<1>3. k + d \in 1..Len(internal)
  BY <1>1, <1>2
<1>4. internal'[k] = internal[k + d]
  BY DEF Shifted
<1>5. internal[k + d].inst \in Instances
  BY <1>3, MessagesTyped
<1> QED
  BY <1>3, <1>4, <1>5

\* What Owned says of an exit still holds of it after a shift.
LEMMA ShiftedExits ==
  ASSUME TypeOK, Owned, NEW d \in {0, 1}, Shifted(d),
         NEW k \in 1..Len(internal'), internal'[k].kind = "exit"
  PROVE  /\ children[internal'[k].inst].st \in {"running", "stopping"}
         /\ children[internal'[k].inst].pid = internal'[k].pid
<1>1. k + d \in 1..Len(internal) /\ internal'[k] = internal[k + d]
  BY ShiftedPlace
<1>2. ExitIsTheChilds
  BY DEF Owned
<1> QED
  BY <1>1, <1>2 DEF ExitIsTheChilds

\* Two places of the shifted queue do not hold exits of one instance.
LEMMA ShiftedOnce ==
  ASSUME TypeOK, Owned, NEW d \in {0, 1}, Shifted(d),
         NEW k \in 1..Len(internal'), NEW l \in 1..Len(internal'),
         internal'[k].kind = "exit", internal'[l].kind = "exit",
         internal'[k].inst = internal'[l].inst
  PROVE  k = l
<1>1. /\ k + d \in 1..Len(internal) /\ internal'[k] = internal[k + d]
      /\ l + d \in 1..Len(internal) /\ internal'[l] = internal[l + d]
  BY ShiftedPlace
<1>2. k + d = l + d
  BY <1>1, Zenon DEF Owned
<1>3. k \in Int /\ l \in Int /\ d \in Int
  OBVIOUS
<1> QED
  BY <1>2, <1>3

\* handle_exit, handle_restart_due, start_expected: an instance whose process
\* has ended, and whose exit is not in the queue any more, gets a vacant or a
\* pending entry.
LEMMA LeaveSafe ==
  ASSUME IInv, NEW d \in {0, 1}, Shifted(d), NEW i \in Instances, NEW c \in Children,
         children' = [children EXCEPT ![i] = c], UNCHANGED <<mode, procs>>,
         procs[i] = {},
         \A k \in 1..Len(internal') : internal'[k].kind = "exit" => internal'[k].inst # i,
         \/ c = Vacant
         \/ mode = "running" /\ c.st = "pending" /\ c.token = FreshToken(i)
  PROVE  Owned' /\ QuietUnlessRunning' /\ TimersFresh'
<1>1. TypeOK /\ Owned /\ TimersFresh /\ QuietUnlessRunning
  BY DEF IInv
<1>2. Vacant.st = "none" /\ Vacant.armed = FALSE
  BY DEF Vacant, Child
<1>3. children'[i] = c /\ \A j \in Instances : j # i => children'[j] = children[j]
  BY <1>1 DEF TypeOK
<1>4. \A k \in 1..Len(internal') : k + d \in 1..Len(internal) /\ internal'[k] = internal[k + d]
                                    /\ internal'[k].inst \in Instances
  BY <1>1, ShiftedPlace
<1>5. QuietUnlessRunning'
  BY <1>1, <1>2, <1>3 DEF QuietUnlessRunning
<1>6. TimersFresh'
  <2>1. SUFFICES ASSUME NEW j \in Instances, children'[j].armed
                 PROVE  /\ children'[j].st = "pending"
                        /\ \A k \in 1..Len(internal') :
                             internal'[k].kind = "due" /\ internal'[k].inst = j =>
                               internal'[k].token # children'[j].token
    BY DEF TimersFresh
  <2>2. CASE j = i
    <3>1. c.st = "pending" /\ c.token = FreshToken(i)
      BY <1>2, <1>3, <2>1, <2>2
    <3>2. \A k \in 1..Len(internal) : internal[k].inst = i => internal[k].token # FreshToken(i)
      BY <1>1, FreshTokenIsFresh
    <3> QED
      BY <1>3, <1>4, <2>2, <3>1, <3>2
  <2>3. CASE j # i
    BY <1>1, <1>3, <1>4, <2>1, <2>3 DEF TimersFresh
  <2> QED
    BY <2>2, <2>3
<1>7. ExitIsTheChilds'
  <2>1. SUFFICES ASSUME NEW k \in 1..Len(internal'), internal'[k].kind = "exit"
                 PROVE  /\ children'[internal'[k].inst].st \in {"running", "stopping"}
                        /\ children'[internal'[k].inst].pid = internal'[k].pid
    BY DEF ExitIsTheChilds
  <2> QED
    BY <1>1, <1>3, <1>4, <2>1, ShiftedExits
<1>8. \A j \in Instances :
        /\ procs'[j] \subseteq {children'[j].pid}
        /\ procs'[j] # {} => children'[j].st \in {"running", "stopping"}
  BY <1>1, <1>3 DEF Owned
<1>9. ASSUME NEW k \in 1..Len(internal'), internal'[k].kind = "exit"
      PROVE  procs'[internal'[k].inst] = {}
  <2>1. procs[internal[k + d].inst] = {}
    BY <1>1, <1>4, <1>9 DEF Owned
  <2> QED
    BY <1>4, <2>1
<1>10. ASSUME NEW k \in 1..Len(internal'), NEW l \in 1..Len(internal'),
              internal'[k].kind = "exit", internal'[l].kind = "exit",
              internal'[k].inst = internal'[l].inst
       PROVE  k = l
  BY <1>1, <1>10, ShiftedOnce
<1> QED
  BY <1>5, <1>6, <1>7, <1>8, <1>9, <1>10 DEF Owned


\* spawn_selected_process: a process starts for an instance that has none.
LEMMA LaunchSafe ==
  ASSUME IInv, NEW d \in {0, 1}, Shifted(d), NEW i \in Instances, NEW b, NEW r,
         Launch(i, b, r), mode = "running", UNCHANGED mode,
         children[i].st \in {"none", "pending"}
  PROVE  Owned' /\ QuietUnlessRunning' /\ TimersFresh'
<1>1. TypeOK /\ Owned /\ TimersFresh /\ QuietUnlessRunning
  BY DEF IInv
<1>2. PICK p \in Pids :
        /\ procs' = [procs EXCEPT ![i] = @ \cup {p}]
        /\ children' = [children EXCEPT ![i] = Child("running", p, b, r, 0)]
  BY DEF Launch
<1>3. /\ children'[i].st = "running" /\ children'[i].pid = p /\ children'[i].armed = FALSE
      /\ procs'[i] = {p}
      /\ \A j \in Instances : j # i => children'[j] = children[j] /\ procs'[j] = procs[j]
  <2>1. procs[i] = {}
    BY <1>1 DEF Owned
  <2> QED
    BY <1>1, <1>2, <2>1 DEF TypeOK, Child
<1>4. \A k \in 1..Len(internal') : k + d \in 1..Len(internal) /\ internal'[k] = internal[k + d]
                                    /\ internal'[k].inst \in Instances
  BY <1>1, ShiftedPlace
<1>5. \A k \in 1..Len(internal') : internal'[k].kind = "exit" => internal'[k].inst # i
  BY <1>1, ShiftedExits
<1>6. QuietUnlessRunning'
  BY DEF QuietUnlessRunning
<1>7. TimersFresh'
  BY <1>1, <1>3, <1>4 DEF TimersFresh
<1>8. ExitIsTheChilds'
  <2>1. SUFFICES ASSUME NEW k \in 1..Len(internal'), internal'[k].kind = "exit"
                 PROVE  /\ children'[internal'[k].inst].st \in {"running", "stopping"}
                        /\ children'[internal'[k].inst].pid = internal'[k].pid
    BY DEF ExitIsTheChilds
  <2>2. children'[internal'[k].inst] = children[internal[k + d].inst]
    BY <1>3, <1>4, <1>5, <2>1
  <2>3. children'[internal'[k].inst] = children[internal'[k].inst]
    BY <1>4, <2>2
  <2>4. /\ children[internal'[k].inst].st \in {"running", "stopping"}
        /\ children[internal'[k].inst].pid = internal'[k].pid
    BY <1>1, <2>1, ShiftedExits
  <2> QED
    BY <2>3, <2>4
<1>9. \A j \in Instances :
        /\ procs'[j] \subseteq {children'[j].pid}
        /\ procs'[j] # {} => children'[j].st \in {"running", "stopping"}
  BY <1>1, <1>3 DEF Owned
<1>10. ASSUME NEW k \in 1..Len(internal'), internal'[k].kind = "exit"
       PROVE  procs'[internal'[k].inst] = {}
  <2>1. procs[internal[k + d].inst] = {}
    BY <1>1, <1>4, <1>10 DEF Owned
  <2> QED
    BY <1>3, <1>4, <1>5, <1>10, <2>1
<1>11. ASSUME NEW k \in 1..Len(internal'), NEW l \in 1..Len(internal'),
              internal'[k].kind = "exit", internal'[l].kind = "exit",
              internal'[k].inst = internal'[l].inst
       PROVE  k = l
  BY <1>1, <1>11, ShiftedOnce
<1> QED
  BY <1>6, <1>7, <1>8, <1>9, <1>10, <1>11 DEF Owned

\* A message goes to the end of the queue: a timer's, whose entry is not armed
\* any more, or the exit of the process of an instance.
LEMMA AppendSafe ==
  ASSUME IInv, UNCHANGED mode, NEW i \in Instances, NEW m \in Messages, m.inst = i,
         internal' = Append(internal, m),
         \/ /\ m.kind = "due" /\ UNCHANGED procs
            /\ children' = [children EXCEPT ![i].armed = FALSE]
         \/ /\ m.kind = "exit" /\ UNCHANGED children
            /\ m.pid \in procs[i] /\ procs' = [procs EXCEPT ![i] = @ \ {m.pid}]
  PROVE  Owned' /\ QuietUnlessRunning' /\ TimersFresh'
<1> DEFINE n == Len(internal)
<1>1. TypeOK /\ Owned /\ TimersFresh /\ QuietUnlessRunning
  BY DEF IInv
<1>2. /\ n \in Nat /\ Len(internal') = n + 1 /\ internal'[n + 1] = m
      /\ \A k \in 1..n : internal'[k] = internal[k] /\ internal[k].inst \in Instances
  BY <1>1, MessagesTyped, AppendProperties
<1>3. \A k \in 1..Len(internal') : k \in 1..n \/ k = n + 1
  BY <1>2
<1>4. \A j \in Instances :
        /\ children'[j].st = children[j].st /\ children'[j].pid = children[j].pid
        /\ children'[j].token = children[j].token
        /\ children'[j].armed => children[j].armed /\ (m.kind = "due" => j # i)
        /\ procs'[j] \subseteq procs[j]
        /\ m.kind = "exit" => procs'[i] = {}
  BY <1>1 DEF TypeOK, Children, Owned
<1>5. QuietUnlessRunning'
  BY <1>1, <1>4 DEF QuietUnlessRunning
<1>6. TimersFresh'
  BY <1>1, <1>2, <1>3, <1>4 DEF TimersFresh
<1>7. m.kind = "exit" => /\ children[i].st \in {"running", "stopping"} /\ children[i].pid = m.pid
                         /\ \A k \in 1..n : internal[k].kind = "exit" => internal[k].inst # i
  BY <1>1 DEF Owned
<1>8. ExitIsTheChilds'
  BY <1>1, <1>2, <1>3, <1>4, <1>7 DEF Owned, ExitIsTheChilds
<1>9. \A j \in Instances :
        /\ procs'[j] \subseteq {children'[j].pid}
        /\ procs'[j] # {} => children'[j].st \in {"running", "stopping"}
  BY <1>1, <1>4 DEF Owned
<1>10. ASSUME NEW k \in 1..Len(internal'), internal'[k].kind = "exit"
       PROVE  procs'[internal'[k].inst] = {}
  <2>1. CASE k \in 1..n
    <3>1. procs[internal[k].inst] = {}
      BY <1>1, <1>2, <1>10, <2>1 DEF Owned
    <3> QED
      BY <1>2, <1>4, <2>1, <3>1
  <2>2. CASE k = n + 1
    BY <1>2, <1>4, <1>10, <2>2
  <2> QED
    BY <1>3, <2>1, <2>2
<1>11. ASSUME NEW k \in 1..Len(internal'), NEW l \in 1..Len(internal'),
              internal'[k].kind = "exit", internal'[l].kind = "exit",
              internal'[k].inst = internal'[l].inst
       PROVE  k = l
  <2>1. CASE k \in 1..n /\ l \in 1..n
    BY <1>1, <1>2, <1>11, <2>1 DEF Owned
  <2>2. CASE k = n + 1 \/ l = n + 1
    BY <1>2, <1>3, <1>7, <1>11, <2>2
  <2> QED
    BY <1>3, <2>1, <2>2
<1> QED
  BY <1>5, <1>6, <1>8, <1>9, <1>10, <1>11 DEF Owned


-----------------------------------------------------------------------------
(* Every step preserves the invariant.                                     *)

\* Receiving a message, or none, shifts the queue.
LEMMA QueueShifted ==
  ASSUME TypeOK
  PROVE  /\ UNCHANGED internal => Shifted(0)
         /\ internal # <<>> /\ internal' = Tail(internal) => Shifted(1)
BY MessagesTyped, TailTyped DEF Shifted

\* start_expected.
LEMMA HandleSpawnSafe ==
  ASSUME IInv, HandleSpawn
  PROVE  Owned' /\ QuietUnlessRunning' /\ TimersFresh'
<1> DEFINE s == Head(spawns)
           c == children[s.inst]
           rung == IF c.st = "pending" THEN c.backoff ELSE BackoffInitial
<1>1. TypeOK /\ Owned
  BY DEF IInv
<1>2. s.inst \in Instances /\ s.build \in Builds /\ c \in Children
      /\ rung \in BackoffInitial..BackoffMax
  <2>1. s \in Spawns
    BY <1>1, TailTyped DEF HandleSpawn, TypeOK
  <2>2. s.inst \in Instances /\ s.build \in Builds
    BY <2>1 DEF Spawns
  <2>3. c \in Children
    BY <1>1, <2>2 DEF TypeOK
  <2>4. c.backoff \in BackoffInitial..BackoffMax
    BY <2>3, FieldsTyped
  <2>5. BackoffInitial \in BackoffInitial..BackoffMax
    BY ManagerAssumption
  <2> QED
    BY <2>2, <2>3, <2>4, <2>5
<1>3. UNCHANGED <<mode, internal>>
  BY DEF HandleSpawn, Answer
<1>4. Shifted(0)
  BY <1>1, <1>3, QueueShifted
<1>5. CASE UNCHANGED <<children, procs>>
  BY <1>3, <1>5, FrameSafe
<1>6. CASE /\ Refusal(s) = "none"
           /\ Launch(s.inst, s.build, rung) \/ LaunchFails(s.inst, s.build, rung)
  <2>1. mode = "running" /\ c.st \in {"none", "pending"}
    BY <1>2, <1>6 DEF Refusal, Children
  <2>2. CASE Launch(s.inst, s.build, rung)
    BY <1>2, <1>3, <1>4, <2>1, <2>2, LaunchSafe
  <2>3. CASE LaunchFails(s.inst, s.build, rung)
    <3> DEFINE e == Pending(s.inst, s.build, NextBackoff(rung))
    <3>1. e \in Children /\ e.st = "pending" /\ e.token = FreshToken(s.inst)
      <4>1. e \in Children
        BY <1>1, <1>2, NextBackoffClimbs, PendingTyped
      <4> QED
        BY <4>1 DEF Pending, Child
    <3>2. children' = [children EXCEPT ![s.inst] = e] /\ UNCHANGED procs
      BY <2>3 DEF LaunchFails
    <3>3. procs[s.inst] = {}
      BY <1>1, <1>2, <2>1 DEF Owned
    <3>4. \A k \in 1..Len(internal') : internal'[k].kind = "exit" => internal'[k].inst # s.inst
      BY <1>1, <1>3, <2>1 DEF Owned, ExitIsTheChilds
    <3> HIDE DEF e, s
    <3> QED
      BY <1>2, <1>3, <1>4, <2>1, <3>1, <3>2, <3>3, <3>4, LeaveSafe
  <2> QED
    BY <1>6, <2>2, <2>3
<1> QED
  BY <1>5, <1>6 DEF HandleSpawn

\* handle_exit.
LEMMA HandleExitSafe ==
  ASSUME IInv, HandleExit
  PROVE  Owned' /\ QuietUnlessRunning' /\ TimersFresh'
<1> DEFINE i == Head(internal).inst
           c == children[i]
<1>1. TypeOK /\ Owned
  BY DEF IInv
<1>2. /\ internal # <<>> /\ internal' = Tail(internal) /\ Head(internal).kind = "exit"
      /\ UNCHANGED <<mode, procs>>
  BY DEF HandleExit, Receive
<1>3. Shifted(1) /\ Head(internal) = internal[1] /\ 1 \in 1..Len(internal) /\ Len(internal) \in Nat
  BY <1>1, <1>2, QueueShifted, MessagesTyped, TailTyped
<1>4. i \in Instances /\ c \in Children
  BY <1>1, <1>3, MessagesTyped DEF TypeOK
<1>5. c.st \in {"running", "stopping"} /\ procs[i] = {}
  BY <1>1, <1>2, <1>3 DEF Owned, ExitIsTheChilds
<1>6. ASSUME NEW k \in 1..Len(internal'), internal'[k].kind = "exit"
      PROVE  internal'[k].inst # i
  <2>1. k + 1 \in 1..Len(internal) /\ internal'[k] = internal[k + 1] /\ k + 1 # 1
    BY <1>3 DEF Shifted
  <2> QED
    BY <1>1, <1>2, <1>3, <1>6, <2>1 DEF Owned
<1>7. PICK healthy \in BOOLEAN : children' = [children EXCEPT ![i] = AfterExit(i, healthy)]
  BY DEF HandleExit
<1> DEFINE e == AfterExit(i, healthy)
<1>8. /\ e \in Children
      /\ \/ e = Vacant
         \/ mode = "running" /\ e.st = "pending" /\ e.token = FreshToken(i)
  <2>1. CASE c.st = "stopping" \/ mode # "running"
    BY <1>5, <2>1, VacantTyped DEF AfterExit
  <2>2. CASE c.st = "running" /\ mode = "running"
    <3>1. /\ c.build \in Builds \cup {NoBuild} /\ c.backoff \in BackoffInitial..BackoffMax
          /\ BackoffInitial \in BackoffInitial..BackoffMax
      <4>1. BackoffInitial \in BackoffInitial..BackoffMax
        BY ManagerAssumption
      <4> QED
        BY <1>4, <4>1, FieldsTyped
    <3>2. e = Pending(i, c.build, NextBackoff(c.backoff))
          \/ e = Pending(i, c.build, NextBackoff(BackoffInitial))
      BY <2>2 DEF AfterExit
    <3>3. ASSUME NEW d \in BackoffInitial..BackoffMax
          PROVE  /\ Pending(i, c.build, NextBackoff(d)) \in Children
                 /\ Pending(i, c.build, NextBackoff(d)).st = "pending"
                 /\ Pending(i, c.build, NextBackoff(d)).token = FreshToken(i)
      <4>1. Pending(i, c.build, NextBackoff(d)) \in Children
        BY <1>1, <1>4, <3>1, NextBackoffClimbs, PendingTyped
      <4> QED
        BY <4>1 DEF Pending, Child
    <3> HIDE DEF e
    <3> QED
      BY <2>2, <3>1, <3>2, <3>3
  <2> QED
    BY <1>5, <2>1, <2>2
<1> HIDE DEF e, i
<1> QED
  BY <1>2, <1>3, <1>4, <1>5, <1>6, <1>7, <1>8, LeaveSafe DEF e

\* handle_restart_due.
LEMMA HandleRestartDueSafe ==
  ASSUME IInv, HandleRestartDue
  PROVE  Owned' /\ QuietUnlessRunning' /\ TimersFresh'
<1> DEFINE i == Head(internal).inst
           c == children[i]
<1>1. TypeOK /\ Owned
  BY DEF IInv
<1>2. internal # <<>> /\ internal' = Tail(internal) /\ UNCHANGED mode
  BY DEF HandleRestartDue, Receive
<1>3. Shifted(1) /\ Head(internal) = internal[1] /\ 1 \in 1..Len(internal) /\ Len(internal) \in Nat
  BY <1>1, <1>2, QueueShifted, MessagesTyped, TailTyped
<1>4. /\ i \in Instances /\ c \in Children /\ c.build \in Builds \cup {NoBuild}
      /\ c.backoff \in BackoffInitial..BackoffMax
  BY <1>1, <1>3, MessagesTyped DEF TypeOK, Children
<1>5. CASE UNCHANGED <<children, procs>>
  BY <1>1, <1>2, <1>3, <1>5, ShiftSafe
<1>6. CASE Awaited(i, Head(internal).token)
  <2>1. c.st = "pending" /\ procs[i] = {}
    BY <1>1, <1>4, <1>6 DEF Awaited, Owned
  <2>2. ASSUME NEW k \in 1..Len(internal'), internal'[k].kind = "exit"
        PROVE  internal'[k].inst # i
    <3>1. k + 1 \in 1..Len(internal) /\ internal'[k] = internal[k + 1]
      BY <1>3 DEF Shifted
    <3> QED
      BY <1>1, <2>1, <2>2, <3>1 DEF Owned, ExitIsTheChilds
  <2>3. CASE mode = "running" /\ Launch(i, c.build, c.backoff)
    BY <1>2, <1>3, <1>4, <2>1, <2>3, LaunchSafe
  <2>4. ASSUME NEW e \in Children, children' = [children EXCEPT ![i] = e], UNCHANGED procs,
               e = Vacant \/ (mode = "running" /\ e.st = "pending" /\ e.token = FreshToken(i))
        PROVE  Owned' /\ QuietUnlessRunning' /\ TimersFresh'
    <3> HIDE DEF i
    <3> QED
      BY <1>2, <1>3, <1>4, <2>1, <2>2, <2>4, LeaveSafe
  <2>5. ASSUME NEW r \in BackoffInitial..BackoffMax, mode = "running",
               children' = [children EXCEPT ![i] = Pending(i, c.build, r)], UNCHANGED procs
        PROVE  Owned' /\ QuietUnlessRunning' /\ TimersFresh'
    <3>1. Pending(i, c.build, r) \in Children
      BY <1>1, <1>4, PendingTyped
    <3>2. Pending(i, c.build, r).st = "pending" /\ Pending(i, c.build, r).token = FreshToken(i)
      BY DEF Pending, Child
    <3> QED
      BY <2>4, <2>5, <3>1, <3>2
  <2>6. CASE mode = "running" /\ LaunchFails(i, c.build, c.backoff)
    BY <1>4, <2>5, <2>6, NextBackoffClimbs DEF LaunchFails
  <2> QED
    BY <1>4, <1>6, <2>3, <2>4, <2>5, <2>6, VacantTyped DEF HandleRestartDue
<1> QED
  BY <1>5, <1>6 DEF HandleRestartDue


\* Every step preserves the invariant.
LEMMA StepSafe ==
  ASSUME IInv, [Next]_vars
  PROVE  IInv'
<1> SUFFICES Owned' /\ QuietUnlessRunning' /\ TimersFresh'
  BY StepTyped DEF IInv
<1>1. TypeOK
  BY DEF IInv
<1>2. CASE UNCHANGED vars
  BY <1>2, FrameSafe DEF vars, managerVars
<1>3. CASE Actor
  BY <1>3, HandleSpawnSafe, HandleExitSafe, HandleRestartDueSafe DEF Actor, ActorStep
<1>4. ASSUME NEW i \in Instances, TimerFires(i)
      PROVE  Owned' /\ QuietUnlessRunning' /\ TimersFresh'
  <2>1. Due(i, children[i].token) \in Messages
    BY <1>1, VacantTyped DEF Due, Messages, Children, TypeOK
  <2>2. Due(i, children[i].token).inst = i /\ Due(i, children[i].token).kind = "due"
    BY DEF Due
  <2>3. /\ UNCHANGED <<mode, procs>>
        /\ internal' = Append(internal, Due(i, children[i].token))
        /\ children' = [children EXCEPT ![i].armed = FALSE]
    BY <1>4 DEF TimerFires
  <2> QED
    BY <2>1, <2>2, <2>3, AppendSafe
<1>5. ASSUME NEW i \in Instances, ProcessEnds(i)
      PROVE  Owned' /\ QuietUnlessRunning' /\ TimersFresh'
  <2>1. PICK p \in procs[i] :
          /\ procs' = [procs EXCEPT ![i] = @ \ {p}]
          /\ internal' = Append(internal, Exited(i, p))
    BY <1>5 DEF ProcessEnds
  <2>2. Exited(i, p) \in Messages /\ Exited(i, p).inst = i /\ Exited(i, p).kind = "exit"
        /\ Exited(i, p).pid = p
    BY <1>1 DEF Exited, Messages, TypeOK
  <2>3. UNCHANGED <<mode, children>>
    BY <1>5 DEF ProcessEnds
  <2> QED
    BY <2>1, <2>2, <2>3, AppendSafe
<1>6. CASE Rescan
  BY <1>6, FrameSafe DEF Rescan
<1>7. ASSUME NEW c \in Callers, SendSpawn(c)
      PROVE  Owned' /\ QuietUnlessRunning' /\ TimersFresh'
  BY <1>7, FrameSafe DEF SendSpawn
<1>8. ASSUME NEW c \in Callers, NEW i \in Instances, TakeReply(c, i)
      PROVE  Owned' /\ QuietUnlessRunning' /\ TimersFresh'
  BY <1>8, FrameSafe DEF TakeReply
<1>9. ASSUME NEW c \in Callers, NEW i \in Instances, NEW m \in {"running", "paused"},
             Prepare(c, i, m)
      PROVE  Owned' /\ QuietUnlessRunning' /\ TimersFresh'
  BY <1>9, FrameSafe DEF Prepare
<1>10. ASSUME NEW i \in Instances, StopWidget(i)
       PROVE  Owned' /\ QuietUnlessRunning' /\ TimersFresh'
  <2>1. UNCHANGED <<mode, internal, procs>>
        /\ \A j \in Instances : children'[j] = children[j] \/ children'[j] = Stopped(children[j])
    BY <1>1, <1>10 DEF StopWidget, Stop, TypeOK
  <2> QED
    BY <2>1, EntriesSafe
<1>11. ASSUME NEW i \in Instances, Retry(i)
       PROVE  Owned' /\ QuietUnlessRunning' /\ TimersFresh'
  <2>1. UNCHANGED <<mode, internal, procs>>
        /\ \A j \in Instances : children'[j] = children[j] \/ children'[j] = Rearmed(j)
    BY <1>1, <1>11 DEF Retry, RetryPending, TypeOK
  <2> QED
    BY <2>1, EntriesSafe
<1>12. ASSUME NEW m \in {"paused", "shutdown"}, CutoffAll(m)
       PROVE  Owned' /\ QuietUnlessRunning' /\ TimersFresh'
  <2>1. UNCHANGED <<internal, procs>>
        /\ \A j \in Instances : children'[j] = Stopped(children[j])
    BY <1>12 DEF CutoffAll, Cutoff
  <2> QED
    BY <2>1, EntriesSafe
<1>13. CASE ResumeAll
  <2>1. mode' # "running" => mode' = mode
    BY <1>13 DEF ResumeAll, Resume
  <2>2. UNCHANGED <<children, internal, procs>>
    BY <1>13 DEF ResumeAll
  <2> QED
    BY <2>1, <2>2 DEF IInv, Owned, ExitIsTheChilds, QuietUnlessRunning, TimersFresh
<1>14. CASE Refreshed
  <2>1. UNCHANGED <<mode, internal, procs>>
        /\ \A j \in Instances : children'[j] = Rearmed(j)
    BY <1>14 DEF Refreshed, RegistryRefreshed
  <2> QED
    BY <2>1, EntriesSafe
<1> QED
  BY <1>2, <1>3, <1>4, <1>5, <1>6, <1>7, <1>8, <1>9, <1>10, <1>11, <1>12, <1>13, <1>14
     DEF Next, Client, Environment

\* The manager starts quiet.
LEMMA InitSafe == Init => IInv
<1> SUFFICES ASSUME Init PROVE IInv
  OBVIOUS
<1>1. Len(internal) = 0 /\ \A i \in Instances : children[i] = Vacant /\ procs[i] = {}
  BY DEF Init
<1>2. Vacant.st = "none" /\ Vacant.armed = FALSE
  BY DEF Vacant, Child
<1>3. 1..Len(internal) = {}
  BY <1>1
<1>4. Owned
  <2>1. ExitIsTheChilds
    BY <1>3 DEF ExitIsTheChilds
  <2> QED
    BY <1>1, <1>3, <2>1 DEF Owned
<1>5. QuietUnlessRunning /\ TimersFresh
  BY <1>1, <1>2 DEF QuietUnlessRunning, TimersFresh
<1> QED
  BY <1>4, <1>5, InitTyped DEF IInv

\* The invariant always holds.
THEOREM InvariantHolds == Spec => []IInv
<1>1. Init => IInv
  BY InitSafe
<1>2. IInv /\ [Next]_vars => IInv'
  BY StepSafe
<1> QED
  BY <1>1, <1>2, PTL DEF Spec


-----------------------------------------------------------------------------
(* What the invariant gives.                                               *)

\* The entries, queues and permits of the manager always have their types;
\* among others a delay never leaves the ladder of RestartPolicy.
THEOREM TypeCorrect == Spec => []TypeOK
<1>1. IInv => TypeOK
  BY DEF IInv
<1> QED
  BY <1>1, InvariantHolds, PTL

\* transition_and_stop: after a pause or a shutdown no child runs and no
\* restart is pending, whatever was queued.
THEOREM CutoffIsQuiet == Spec => []QuietUnlessRunning
<1>1. IInv => QuietUnlessRunning
  BY DEF IInv
<1> QED
  BY <1>1, InvariantHolds, PTL

\* handle_exit: the exit it receives is that of the child it knows, so its
\* assertion about the running child never fires.
THEOREM ExitsBelong == Spec => []ExitIsTheChilds
<1>1. IInv => ExitIsTheChilds
  BY DEF IInv, Owned
<1> QED
  BY <1>1, InvariantHolds, PTL

\* TerminationHandle::join: when the actor has let go of a child, its process
\* is gone.
THEOREM JoinMeansGone == Spec => []JoinedIsGone
<1>1. IInv => JoinedIsGone
  BY DEF IInv, Owned, JoinedIsGone
<1> QED
  BY <1>1, InvariantHolds, PTL

-----------------------------------------------------------------------------
(* What a step does to an entry.                                           *)

\* Every step leaves the entry of i alone, or stops it, or starts its timer
\* anew, or is one of the events of i.
LEMMA EntrySteps ==
  ASSUME IInv, [Next]_vars, NEW i \in Instances
  PROVE  \/ children'[i] \in {children[i], Stopped(children[i]), Rearmed(i)}
         \/ children'[i].st = children[i].st /\ children'[i].backoff = children[i].backoff
         \/ HandleSpawn /\ \E b, r :
               /\ r = IF children[i].st = "pending" THEN children[i].backoff ELSE BackoffInitial
               /\ Launch(i, b, r) \/ LaunchFails(i, b, r)
         \/ HandleExit /\ children[i].st \in {"running", "stopping"}
                       /\ children'[i].st \in {"none", "pending"}
         \/ /\ HandleRestartDue /\ Head(internal).inst = i
            /\ Awaited(i, Head(internal).token)
<1>1. TypeOK /\ Owned
  BY DEF IInv
<1>2. CASE UNCHANGED children
  BY <1>2
<1>3. CASE HandleSpawn /\ ~UNCHANGED children
  <2> DEFINE s == Head(spawns)
             rung == IF children[s.inst].st = "pending" THEN children[s.inst].backoff
                     ELSE BackoffInitial
  <2>1. Launch(s.inst, s.build, rung) \/ LaunchFails(s.inst, s.build, rung)
    BY <1>3 DEF HandleSpawn
  <2>2. CASE s.inst = i
    BY <1>3, <2>1, <2>2
  <2>3. CASE s.inst # i
    BY <1>1, <2>1, <2>3 DEF Launch, LaunchFails, TypeOK
  <2> QED
    BY <2>2, <2>3
<1>4. CASE HandleExit
  <2>1. /\ internal # <<>> /\ Head(internal).kind = "exit"
        /\ \E healthy \in BOOLEAN :
             children' = [children EXCEPT ![Head(internal).inst] =
                            AfterExit(Head(internal).inst, healthy)]
    BY <1>4 DEF HandleExit, Receive
  <2>2. Head(internal) = internal[1] /\ 1 \in 1..Len(internal)
    BY <1>1, <2>1, MessagesTyped, TailTyped
  <2>3. CASE Head(internal).inst = i
    <3>1. children[i].st \in {"running", "stopping"}
      BY <1>1, <2>1, <2>2, <2>3 DEF Owned, ExitIsTheChilds
    <3>2. PICK healthy \in BOOLEAN : children'[i] = AfterExit(i, healthy)
      BY <1>1, <2>1, <2>3 DEF TypeOK
    <3>3. AfterExit(i, healthy).st \in {"none", "pending"}
      BY <3>1 DEF AfterExit, Vacant, Pending, Child
    <3> QED
      BY <1>4, <3>1, <3>2, <3>3
  <2>4. CASE Head(internal).inst # i
    BY <1>1, <2>1, <2>4 DEF TypeOK
  <2> QED
    BY <2>3, <2>4
<1>5. CASE HandleRestartDue /\ ~UNCHANGED children
  <2> DEFINE h == Head(internal).inst
  <2>1. Awaited(h, Head(internal).token)
    BY <1>5 DEF HandleRestartDue
  <2>2. CASE h = i
    BY <1>5, <2>1, <2>2
  <2>3. CASE h # i
    BY <1>1, <1>5, <2>3 DEF HandleRestartDue, Launch, LaunchFails, TypeOK
  <2> QED
    BY <2>2, <2>3
<1>6. ASSUME NEW j \in Instances, TimerFires(j)
      PROVE  children'[i].st = children[i].st /\ children'[i].backoff = children[i].backoff
  BY <1>1, <1>6 DEF TimerFires, TypeOK, Children
<1>7. ASSUME NEW j \in Instances, StopWidget(j) \/ Retry(j)
      PROVE  children'[i] \in {children[i], Stopped(children[i]), Rearmed(i)}
  BY <1>1, <1>7 DEF StopWidget, Stop, Retry, RetryPending, TypeOK
<1>8. ASSUME NEW m \in {"paused", "shutdown"}, CutoffAll(m)
      PROVE  children'[i] = Stopped(children[i])
  BY <1>8 DEF CutoffAll, Cutoff
<1>9. CASE Refreshed
  BY <1>9 DEF Refreshed, RegistryRefreshed
<1> QED
  BY <1>2, <1>3, <1>4, <1>5, <1>6, <1>7, <1>8, <1>9
     DEF Next, Client, Actor, ActorStep, Environment, SendSpawn, TakeReply, Prepare, ResumeAll,
         ProcessEnds, Rescan, vars, managerVars


\* What handle_restart_due makes of the entry it is about.
LEMMA Restarts ==
  ASSUME children \in [Instances -> Children], HandleRestartDue, NEW i \in Instances,
         Head(internal).inst = i
  PROVE  \/ children'[i] = children[i] \/ children'[i] = Vacant
         \/ children'[i] = Pending(i, children[i].build, children[i].backoff)
         \/ Launch(i, children[i].build, children[i].backoff)
         \/ LaunchFails(i, children[i].build, children[i].backoff)
<1>1. \/ UNCHANGED children \/ children' = [children EXCEPT ![i] = Vacant]
      \/ children' = [children EXCEPT ![i] = Pending(i, children[i].build, children[i].backoff)]
      \/ Launch(i, children[i].build, children[i].backoff)
      \/ LaunchFails(i, children[i].build, children[i].backoff)
  BY DEF HandleRestartDue
<1> QED
  BY <1>1

\* reset_restart_backoff: no step lowers the rung of a pending restart.
THEOREM LadderOnlyClimbs == Spec => RungIsKept
<1> DEFINE Kept == \A i \in Instances :
                     children[i].st = "pending" /\ children'[i].st = "pending" =>
                       children'[i].backoff >= children[i].backoff
<1>1. IInv /\ [Next]_vars => Kept
  <2> SUFFICES ASSUME IInv, [Next]_vars, NEW i \in Instances,
                      children[i].st = "pending", children'[i].st = "pending",
                      children'[i].backoff # children[i].backoff
               PROVE  children'[i].backoff >= children[i].backoff
    <3>1. ASSUME IInv, NEW i \in Instances
          PROVE  children[i].backoff >= children[i].backoff
      <4>1. children[i] \in Children
        BY <3>1 DEF IInv, TypeOK
      <4>2. children[i].backoff \in Nat
        BY <4>1, FieldsTyped
      <4> QED
        BY <4>2
    <3> QED
      BY <3>1
  <2> DEFINE c == children[i]
  <2>1. TypeOK /\ c \in Children /\ c.backoff \in BackoffInitial..BackoffMax /\ c.backoff \in Nat
    <3>1. TypeOK /\ c \in Children
      BY DEF IInv, TypeOK
    <3> QED
      BY <3>1, FieldsTyped
  <2>2. ASSUME NEW b, NEW r \in BackoffInitial..BackoffMax, r >= c.backoff,
               children'[i] = Pending(i, b, r)
        PROVE  children'[i].backoff >= c.backoff
    <3>1. children'[i].backoff = r
      BY <2>2, PendingFields
    <3> QED
      BY <2>2, <3>1
  <2>3. Vacant.st = "none"
    BY DEF Vacant, Child
  <2>4. CASE children'[i] \in {c, Stopped(c), Rearmed(i)}
    BY <2>1, <2>2, <2>3, <2>4 DEF Stopped, Rearmed
  <2>5. ASSUME NEW b, LaunchFails(i, b, c.backoff)
        PROVE  children'[i].backoff >= c.backoff
    <3>1. children'[i] = Pending(i, b, NextBackoff(c.backoff))
      BY <2>1, <2>5 DEF LaunchFails, TypeOK
    <3>2. NextBackoff(c.backoff) \in BackoffInitial..BackoffMax /\ NextBackoff(c.backoff) >= c.backoff
      BY <2>1, NextBackoffClimbs
    <3> QED
      BY <2>2, <3>1, <3>2
  <2>6. ASSUME NEW b, Launch(i, b, c.backoff)
        PROVE  FALSE
    <3>1. children'[i].st = "running"
      BY <2>1, <2>6 DEF Launch, Child, TypeOK
    <3> QED
      BY <3>1
  <2>7. CASE HandleRestartDue /\ Head(internal).inst = i
    <3>1. \/ children'[i] = c \/ children'[i] = Vacant
          \/ children'[i] = Pending(i, c.build, c.backoff)
          \/ Launch(i, c.build, c.backoff) \/ LaunchFails(i, c.build, c.backoff)
      <4>1. children \in [Instances -> Children]
        BY <2>1 DEF TypeOK
      <4> QED
        BY <2>7, <4>1, Restarts
    <3>2. children'[i] = Pending(i, c.build, c.backoff) => children'[i].backoff = c.backoff
      BY PendingFields
    <3> QED
      BY <2>3, <2>5, <2>6, <3>1, <3>2
  <2>8. ASSUME NEW b, NEW r, r = IF c.st = "pending" THEN c.backoff ELSE BackoffInitial,
               Launch(i, b, r) \/ LaunchFails(i, b, r)
        PROVE  children'[i].backoff >= c.backoff
    <3>1. r = c.backoff
      BY <2>8
    <3> QED
      BY <2>5, <2>6, <2>8, <3>1
  <2>9. ~(c.st \in {"running", "stopping"})
    OBVIOUS
  <2> QED
    BY <2>4, <2>7, <2>8, <2>9, EntrySteps
<1>2. [][Kept]_vars <=> RungIsKept
  BY PTL DEF RungIsKept
<1> QED
  BY <1>1, <1>2, InvariantHolds, PTL DEF Spec

\* take_pending_restart: a process is not started again before the delay set
\* last has passed, unless a start asks for it.
THEOREM RestartsAwaitTheirTimer == Spec => RestartWaits
<1> DEFINE Waits == \A i \in Instances :
                      children[i].armed /\ children'[i].st = "running" => spawns' # spawns
<1>1. IInv /\ [Next]_vars => Waits
  <2> SUFFICES ASSUME IInv, [Next]_vars, NEW i \in Instances,
                      children[i].armed, children'[i].st = "running"
               PROVE  spawns' # spawns
    OBVIOUS
  <2> DEFINE c == children[i]
  <2>1. TypeOK /\ TimersFresh /\ c.st = "pending"
    BY DEF IInv, TimersFresh
  <2>2. Vacant.st = "none"
    BY DEF Vacant, Child
  <2>3. CASE children'[i] \in {c, Stopped(c), Rearmed(i)}
    BY <2>1, <2>2, <2>3 DEF Stopped, Rearmed, Pending, Child
  <2>4. CASE HandleSpawn
    <3>1. spawns # <<>> /\ spawns' = Tail(spawns)
      BY <2>4 DEF HandleSpawn, Answer
    <3>2. Len(spawns') = Len(spawns) - 1 /\ Len(spawns) \in Nat
      BY <2>1, <3>1, TailTyped DEF TypeOK
    <3> QED
      BY <3>2
  <2>5. CASE HandleRestartDue /\ Head(internal).inst = i /\ Awaited(i, Head(internal).token)
    <3>1. internal # <<>> /\ Head(internal).kind = "due"
      BY <2>5 DEF HandleRestartDue, Receive
    <3>2. Head(internal) = internal[1] /\ 1 \in 1..Len(internal)
      <4>1. internal \in Seq(Messages)
        BY <2>1, MessagesTyped
      <4>2. Head(internal) = internal[1] /\ Len(internal) \in Nat \ {0}
        BY <3>1, <4>1, TailTyped
      <4> QED
        BY <4>2
    <3> QED
      BY <2>1, <2>5, <3>1, <3>2 DEF TimersFresh, Awaited
  <2> QED
    BY <2>1, <2>3, <2>4, <2>5, EntrySteps
<1>2. [][Waits]_vars <=> RestartWaits
  BY PTL DEF RestartWaits
<1> QED
  BY <1>1, <1>2, InvariantHolds, PTL DEF Spec


-----------------------------------------------------------------------------
(* The refinement: a step of the manager is a step of WidgetLifecycle, or   *)
(* leaves what it speaks of unchanged.                                      *)

\* Instances whose process was told to end, as the refinement maps them.
Ending == {i \in Instances : procs[i] # {} /\ children[i].st = "stopping"}

\* Entries that have a process are not touched, and no process comes or goes.
LEMMA NothingEnds ==
  ASSUME UNCHANGED <<mode, procs>>,
         \A i \in Instances : procs[i] # {} => children'[i].st = children[i].st
  PROVE  UNCHANGED Promise!vars
<1>1. Ending' = Ending
  BY DEF Ending
<1> QED
  BY <1>1 DEF Promise!vars, Ending

\* spawn_selected_process is a Start.
LEMMA LaunchStarts ==
  ASSUME IInv, NEW i \in Instances, NEW b, NEW r, Launch(i, b, r), mode = "running",
         UNCHANGED mode, children[i].st \in {"none", "pending"}
  PROVE  Promise!Start(i)
<1>1. TypeOK /\ Owned
  BY DEF IInv
<1>2. procs[i] = {}
  BY <1>1 DEF Owned
<1>3. PICK p \in Pids :
        /\ procs' = [procs EXCEPT ![i] = @ \cup {p}]
        /\ children' = [children EXCEPT ![i] = Child("running", p, b, r, 0)]
  BY DEF Launch
<1>4. procs' = [procs EXCEPT ![i] = {p}]
  BY <1>1, <1>2, <1>3 DEF TypeOK
<1>5. Ending' = Ending
  BY <1>1, <1>2, <1>3, <1>4 DEF Ending, TypeOK, Child
<1> QED
  BY <1>2, <1>4, <1>5 DEF Promise!Start, Ending

\* Every step of the manager implements a step of its promise.
LEMMA StepKeepsPromise ==
  ASSUME IInv, [Next]_vars
  PROVE  [Promise!Next]_(Promise!vars)
<1>1. TypeOK /\ Owned
  BY DEF IInv
<1>2. CASE UNCHANGED <<mode, procs, children>>
  BY <1>2, NothingEnds
<1>3. CASE HandleSpawn /\ ~UNCHANGED <<mode, procs, children>>
  <2> DEFINE s == Head(spawns)
             rung == IF children[s.inst].st = "pending" THEN children[s.inst].backoff
                     ELSE BackoffInitial
  <2>1. /\ spawns # <<>> /\ UNCHANGED mode /\ Refusal(s) = "none"
        /\ Launch(s.inst, s.build, rung) \/ LaunchFails(s.inst, s.build, rung)
    BY <1>3 DEF HandleSpawn, Answer
  <2>2. s \in Spawns
    BY <1>1, <2>1, TailTyped DEF TypeOK
  <2>3. s.inst \in Instances /\ children[s.inst] \in Children
    BY <1>1, <2>2 DEF Spawns, TypeOK
  <2>4. mode = "running" /\ children[s.inst].st \in {"none", "pending"}
    BY <2>1, <2>3 DEF Refusal, Children
  <2>5. CASE Launch(s.inst, s.build, rung)
    <3>1. Promise!Start(s.inst)
      BY <2>1, <2>3, <2>4, <2>5, LaunchStarts
    <3> QED
      BY <2>3, <3>1 DEF Promise!Next
  <2>6. CASE LaunchFails(s.inst, s.build, rung)
    <3>1. procs[s.inst] = {}
      BY <1>1, <2>3, <2>4 DEF Owned
    <3>2. \A i \in Instances : procs[i] # {} => children'[i].st = children[i].st
      BY <1>1, <2>6, <3>1 DEF LaunchFails, TypeOK
    <3> QED
      BY <2>1, <2>6, <3>2, NothingEnds DEF LaunchFails
  <2> QED
    BY <2>1, <2>5, <2>6
<1>4. CASE HandleExit
  <2>1. UNCHANGED <<mode, procs>> /\ internal # <<>> /\ Head(internal).kind = "exit"
    BY <1>4 DEF HandleExit, Receive
  <2>2. Head(internal) = internal[1] /\ 1 \in 1..Len(internal)
    BY <1>1, <2>1, MessagesTyped, TailTyped
  <2>3. procs[Head(internal).inst] = {}
    BY <1>1, <2>1, <2>2 DEF Owned
  <2>4. \A i \in Instances : procs[i] # {} => children'[i].st = children[i].st
    BY <1>1, <1>4, <2>3 DEF HandleExit, TypeOK
  <2> QED
    BY <2>1, <2>4, NothingEnds
<1>5. CASE HandleRestartDue /\ ~UNCHANGED <<mode, procs, children>>
  <2> DEFINE h == Head(internal).inst
             c == children[h]
  <2>1. UNCHANGED mode /\ internal # <<>> /\ Awaited(h, Head(internal).token)
    BY <1>5 DEF HandleRestartDue, Receive
  <2>2. h \in Instances
    BY <1>1, <2>1, MessagesTyped, TailTyped DEF Messages
  <2>3. c.st = "pending" /\ procs[h] = {}
    BY <1>1, <2>1, <2>2 DEF Owned, Awaited
  <2>4. CASE mode = "running" /\ Launch(h, c.build, c.backoff)
    <3>1. Promise!Start(h)
      BY <2>1, <2>2, <2>3, <2>4, LaunchStarts
    <3> QED
      BY <2>2, <3>1 DEF Promise!Next
  <2>5. ASSUME UNCHANGED procs, NEW e, children' = [children EXCEPT ![h] = e]
        PROVE  UNCHANGED Promise!vars
    <3>1. \A i \in Instances : procs[i] # {} => children'[i].st = children[i].st
      BY <1>1, <2>3, <2>5 DEF TypeOK
    <3> QED
      BY <2>1, <2>5, <3>1, NothingEnds
  <2>6. \/ UNCHANGED procs /\ children' = [children EXCEPT ![h] = Vacant]
        \/ UNCHANGED procs /\ children' = [children EXCEPT ![h] = Pending(h, c.build, c.backoff)]
        \/ mode = "running" /\ Launch(h, c.build, c.backoff)
        \/ UNCHANGED procs
           /\ children' = [children EXCEPT ![h] = Pending(h, c.build, NextBackoff(c.backoff))]
    BY <1>5, <2>1 DEF HandleRestartDue, LaunchFails
  <2> QED
    BY <2>4, <2>5, <2>6
<1>6. ASSUME NEW i \in Instances, ProcessEnds(i)
      PROVE  Promise!End(i)
  <2>1. PICK p \in procs[i] : procs' = [procs EXCEPT ![i] = @ \ {p}]
    BY <1>6 DEF ProcessEnds
  <2>2. procs[i] = {p}
    BY <1>1, <2>1 DEF Owned
  <2>3. procs' = [procs EXCEPT ![i] = {}] /\ UNCHANGED <<mode, children>>
    BY <1>1, <1>6, <2>1, <2>2 DEF ProcessEnds, TypeOK
  <2>4. Ending' = Ending \ {i}
    BY <1>1, <2>3 DEF Ending, TypeOK
  <2> QED
    BY <2>2, <2>3, <2>4 DEF Promise!End, Ending
<1>7. ASSUME NEW i \in Instances, TimerFires(i)
      PROVE  UNCHANGED Promise!vars
  <2>1. UNCHANGED <<mode, procs>> /\ \A j \in Instances : children'[j].st = children[j].st
    BY <1>1, <1>7 DEF TimerFires, TypeOK, Children
  <2> QED
    BY <2>1, NothingEnds
<1>8. ASSUME NEW i \in Instances, StopWidget(i)
      PROVE  [Promise!Stop(i)]_(Promise!vars)
  <2>1. UNCHANGED <<mode, procs>> /\ children' = [children EXCEPT ![i] = Stopped(children[i])]
    BY <1>8 DEF StopWidget, Stop
  <2>2. CASE procs[i] = {}
    <3>1. \A j \in Instances : procs[j] # {} => children'[j].st = children[j].st
      BY <1>1, <2>1, <2>2 DEF TypeOK
    <3> QED
      BY <2>1, <3>1, NothingEnds
  <2>3. CASE procs[i] # {}
    <3>1. children[i] \in Children /\ children[i].st \in {"running", "stopping"}
      BY <1>1, <2>3 DEF Owned, TypeOK
    <3>2. children'[i].st = "stopping" /\ \A j \in Instances : j # i => children'[j] = children[j]
      BY <1>1, <2>1, <3>1 DEF Stopped, TypeOK, Children
    <3>3. Ending' = Ending \cup {i}
      BY <2>1, <2>3, <3>2 DEF Ending
    <3> QED
      BY <2>1, <2>3, <3>3 DEF Promise!Stop, Ending
  <2> QED
    BY <2>2, <2>3
<1>9. ASSUME NEW m \in {"paused", "shutdown"}, CutoffAll(m)
      PROVE  Promise!Cutoff(m)
  <2>1. /\ UNCHANGED procs /\ mode' = IF mode = "shutdown" THEN mode ELSE m
        /\ \A i \in Instances : children'[i] = Stopped(children[i])
    BY <1>9 DEF CutoffAll, Cutoff
  <2>2. ASSUME NEW i \in Instances, procs[i] # {}
        PROVE  children'[i].st = "stopping"
    <3>1. children[i] \in Children /\ children[i].st \in {"running", "stopping"}
      BY <1>1, <2>2 DEF Owned, TypeOK
    <3> QED
      BY <2>1, <3>1 DEF Stopped, Children
  <2>3. Ending' = {i \in Instances : procs[i] # {}}
    BY <2>1, <2>2 DEF Ending
  <2> QED
    BY <2>1, <2>3 DEF Promise!Cutoff, Ending
<1>10. CASE ResumeAll
  <2>1. UNCHANGED <<procs, children>> /\ mode' = IF mode = "shutdown" THEN mode ELSE "running"
    BY <1>10 DEF ResumeAll, Resume
  <2>2. Ending' = Ending
    BY <2>1 DEF Ending
  <2>3. CASE mode = "paused"
    <3>1. Promise!Resume
      BY <2>1, <2>2, <2>3 DEF Promise!Resume, Ending
    <3> QED
      BY <3>1 DEF Promise!Next
  <2>4. CASE mode # "paused"
    <3>1. UNCHANGED mode
      BY <1>1, <2>1, <2>4 DEF TypeOK, Modes
    <3> QED
      BY <1>2, <2>1, <3>1
  <2> QED
    BY <2>3, <2>4
<1>11. ASSUME UNCHANGED <<mode, procs>>,
              \A i \in Instances : children'[i] = children[i] \/ children'[i] = Rearmed(i)
       PROVE  UNCHANGED Promise!vars
  <2>1. \A i \in Instances : Rearmed(i).st = children[i].st
    BY DEF Rearmed, Pending, Child
  <2> QED
    BY <1>11, <2>1, NothingEnds
<1>12. ASSUME NEW i \in Instances, Retry(i)
       PROVE  UNCHANGED Promise!vars
  <2>1. UNCHANGED <<mode, procs>>
        /\ \A j \in Instances : children'[j] = children[j] \/ children'[j] = Rearmed(j)
    BY <1>1, <1>12 DEF Retry, RetryPending, TypeOK
  <2> QED
    BY <1>11, <2>1
<1>13. CASE Refreshed
  BY <1>11, <1>13 DEF Refreshed, RegistryRefreshed
<1>14. \/ UNCHANGED <<mode, procs, children>>
       \/ HandleSpawn \/ HandleExit \/ HandleRestartDue \/ ResumeAll \/ Refreshed
       \/ \E i \in Instances : ProcessEnds(i) \/ TimerFires(i) \/ StopWidget(i) \/ Retry(i)
       \/ \E m \in {"paused", "shutdown"} : CutoffAll(m)
  BY DEF Next, Client, Actor, ActorStep, Environment, SendSpawn, TakeReply, Prepare, Rescan,
         vars, managerVars
<1> QED
  BY <1>2, <1>3, <1>4, <1>5, <1>6, <1>7, <1>8, <1>9, <1>10, <1>12, <1>13, <1>14 DEF Promise!Next

\* The manager implements the safety part of its promise: an instance never has
\* two processes, none starts unless the manager is running, and what a stop or
\* a cutoff found running is ending until it has ended.
THEOREM ManagerKeepsPromise == Spec => Promise!Init /\ [][Promise!Next]_(Promise!vars)
<1>1. Init => Promise!Init
  <2> SUFFICES ASSUME Init PROVE Promise!Init
    OBVIOUS
  <2>1. Ending = {}
    BY DEF Init, Ending
  <2> QED
    BY <2>1 DEF Init, Promise!Init, Ending
<1>2. IInv /\ [Next]_vars => [Promise!Next]_(Promise!vars)
  BY StepKeepsPromise
<1> QED
  BY <1>1, <1>2, InvariantHolds, PTL DEF Spec
=============================================================================
