---------------------------- MODULE AlarmProofs ----------------------------
(***************************************************************************)
(* Proofs about Alarms, for any finite set of alarms, any saved            *)
(* configuration, any limit on snoozes and any number of inputs.           *)
(***************************************************************************)
EXTENDS Alarms, FiniteSetTheorems, SequenceTheorems, TLAPS

-----------------------------------------------------------------------------
(* The inductive invariant.                                                *)

Firings == [alarm : Alarm, snoozes : Nat]
Commands == [kind : {"stopCurrent", "snooze"}, alarm : {None}] \cup [kind : {"stop"}, alarm : Alarm]
Handling(pcs) == {Resting} \cup [pc : pcs, f : Firings]
OpPcs == {"delist", "cancel", "drop", "schedule", "enlist", "save"}
Ops ==
  {NoOp} \cup
  [pc : OpPcs, alarm : Alarm, want : {"gone", "off", "on"}, job : Nat, ends : BOOLEAN,
   client : BOOLEAN]
Sleepers ==
  [id : Nat, alarm : Alarm, snoozes : Nat, st : {"asleep", "awake", "cleared"}]

ControlTyped ==
  /\ config \in [Alarm -> {"new", "gone", "off", "on"}]
  /\ active \in [Alarm -> Nat] /\ op \in Ops
  /\ Known \subseteq (Nat \ {0}) \X Alarm /\ IsFiniteSet(Known)
  /\ torn \subseteq Alarm

RingTyped ==
  /\ pending \in [Alarm -> Nat]
  /\ sleepers \subseteq Sleepers /\ IsFiniteSet(sleepers)
  /\ queue \in Seq(Firings)
  /\ slot \in {NoFiring} \cup Firings
  /\ ringer \in Handling({"checked", "fill"})
  /\ commands \in Seq(Commands)
  /\ commander \in Handling({"stop", "snooze"})
  /\ stopped \in Seq(Alarm)
  /\ spent \subseteq OneShot

\* The job with id n is alarm a's, by active_alarms or in the operation's hands.
Holds(a, n) ==
  \/ n = active[a]
  \/ op.pc \in {"cancel", "enlist"} /\ op.alarm = a /\ op.job = n

\* Ids stand for one job, held by its own alarm only; what was cancelled, and
\* came back or may still come back with the listener's list, nobody holds;
\* what the listener lost is gone everywhere.
Returning == revived \cup ((stored \cup relisted) \ jobs)

JobsFollow ==
  /\ \A j, k \in Known : j[1] = k[1] => j = k
  /\ \A j \in Known : \A a \in Alarm : Holds(a, j[1]) => j[2] = a
  /\ revived \subseteq jobs
  /\ lost \cap (jobs \cup stored \cup relisted) = {}
  /\ \A j \in Returning : \A a \in Alarm : ~Holds(a, j[1])

\* Between operations, and for the alarms an operation is not about.
Agrees(a) == (config[a] = "on" <=> active[a] # NoJob) /\ JobsOf(a) = {active[a]} \ {NoJob}

\* The alarm of an operation, by the step that comes next.
OpFollows(a) ==
  /\ op.pc = "delist" =>
       /\ JobsOf(a) = {active[a]} \ {NoJob}
       /\ ~op.ends => (config[a] = "on" <=> active[a] # NoJob)
  /\ op.pc = "cancel" => JobsOf(a) = {op.job}
  /\ op.pc \in {"drop", "schedule"} => JobsOf(a) = {} /\ active[a] = NoJob
  /\ op.pc = "enlist" => JobsOf(a) = {op.job}
  /\ op.pc = "save" => JobsOf(a) = {active[a]} \ {NoJob} /\ (op.want = "on" <=> active[a] # NoJob)
  /\ op.ends => config[a] # "on"

ScheduleFollows ==
  /\ \A a \in Alarm \ torn : IF op.pc # "idle" /\ op.alarm = a THEN OpFollows(a) ELSE Agrees(a)
  /\ op.pc = "cancel" => active[op.alarm] = NoJob
  /\ op.pc \in {"cancel", "enlist"} => op.job # NoJob
  /\ op.pc \in {"schedule", "enlist"} => op.want = "on"

In(x, s) == \E i \in 1..Len(s) : s[i] = x

\* An alarm that is no longer scheduled and still rings, waits for its snooze, or
\* is being snoozed, has its Stop coming.
StopComes(a) == In(Cmd("stop", a), commands)

StopFollows ==
  \A a \in Alarm \ slipped :
    active[a] = NoJob =>
      /\ pending[a] # 0 => StopComes(a)
      /\ commander.pc = "snooze" /\ commander.f.alarm = a => StopComes(a)
      /\ slot.alarm = a => StopComes(a) \/ (commander.pc = "stop" /\ commander.f.alarm = a)

\* A one-shot alarm that rang to its end is off, or will be switched off.
Announced(a) == In(a, stopped)

SpentFollows ==
  /\ \A a \in spent \ torn :
       config[a] = "on" => Announced(a) \/ (op.pc # "idle" /\ op.alarm = a /\ op.want # "on")
  /\ op.pc # "idle" /\ (op.client \/ op.want = "on") /\ op.alarm \in spent => Announced(op.alarm)

AInv ==
  /\ ControlTyped /\ RingTyped
  /\ JobsFollow /\ ScheduleFollows /\ StopFollows /\ SpentFollows

-----------------------------------------------------------------------------
(* Numbers nobody has, and what a queue holds.                             *)

LEMMA FreshNumber ==
  ASSUME NEW S, IsFiniteSet(S), 0 \in S
  PROVE  /\ Cardinality(S) \in Nat
         /\ \E n \in 1..Cardinality(S) : n \notin S
<1> DEFINE c == Cardinality(S)
           I == 1..c
           R == S \ {0}
<1>1. c \in Nat
  BY FS_CardinalityType
<1>2. IsFiniteSet(R) /\ Cardinality(R) = c - 1
  BY FS_RemoveElement
<1>3. Cardinality(I) = c
  BY <1>1, FS_Interval
<1>4. 0 \notin I
  BY <1>1
<1> HIDE DEF c, I
<1>5. SUFFICES ASSUME I \subseteq S PROVE FALSE
  BY <1>1 DEF c, I
<1>6. I \subseteq R
  BY <1>4, <1>5
<1> HIDE DEF R
<1>7. Cardinality(I) <= Cardinality(R)
  BY <1>2, <1>6, FS_Subset
<1> QED
  BY <1>1, <1>2, <1>3, <1>7

\* A job that schedule adds has an id that no job and no entry has.
LEMMA FreshJobIsFresh ==
  ASSUME ControlTyped, NEW n, n = NewJob
  PROVE  /\ n \in Nat \ {0}
         /\ \A j \in Known : j[1] # n
         /\ \A a \in Alarm : active[a] # n
<1> DEFINE all == Known
           taken == {j[1] : j \in all}
           used == {active[a] : a \in Alarm}
           ids == taken \cup used \cup {NoJob}
<1>1. IsFiniteSet(all)
  BY DEF ControlTyped
<1>2. IsFiniteSet(taken)
  <2> DEFINE f == [j \in all |-> j[1]]
  <2>1. f \in Surjection(all, taken)
    BY DEF Surjection
  <2> HIDE DEF f, all, taken
  <2> QED
    BY <1>1, <2>1, FS_Surjection
<1>3. IsFiniteSet(used)
  <2> DEFINE f == [a \in Alarm |-> active[a]]
  <2>1. f \in Surjection(Alarm, used)
    BY DEF Surjection
  <2>2. IsFiniteSet(Alarm)
    BY AlarmAssumption
  <2> HIDE DEF f, used
  <2> QED
    BY <2>1, <2>2, FS_Surjection
<1>4. n = CHOOSE m \in 1..(Cardinality(ids) + 1) : m \notin ids
  BY DEF NewJob, FreshJob
<1>5. 0 \in ids /\ (\A j \in all : j[1] \in ids) /\ (\A a \in Alarm : active[a] \in ids)
  BY DEF NoJob
<1>6. IsFiniteSet(ids)
  <2> HIDE DEF taken, used
  <2>1. IsFiniteSet(taken \cup used)
    BY <1>2, <1>3, FS_Union, ZenonT(30)
  <2> QED
    BY <2>1, FS_AddElement
<1> HIDE DEF ids
<1>7. Cardinality(ids) \in Nat /\ \E m \in 1..Cardinality(ids) : m \notin ids
  BY <1>5, <1>6, FreshNumber
<1>8. \E m \in 1..(Cardinality(ids) + 1) : m \notin ids
  BY <1>7
<1>9. n \in 1..(Cardinality(ids) + 1) /\ n \notin ids
  BY <1>4, <1>8
<1>10. n \in Nat \ {0}
  BY <1>7, <1>9
<1>11. (\A j \in all : j[1] # n) /\ (\A a \in Alarm : active[a] # n)
  BY <1>5, <1>9
<1> QED
  BY <1>10, <1>11

LEMMA FreshSleeperTyped ==
  ASSUME RingTyped
  PROVE  FreshSleeper \in Nat
<1> DEFINE taken == {s.id : s \in sleepers}
           used == {pending[a] : a \in Alarm}
           ids == taken \cup used \cup {0}
<1>1. IsFiniteSet(taken)
  <2> DEFINE f == [s \in sleepers |-> s.id]
  <2>1. f \in Surjection(sleepers, taken)
    BY DEF Surjection
  <2> HIDE DEF f, taken
  <2> QED
    BY <2>1, FS_Surjection DEF RingTyped
<1>2. IsFiniteSet(used)
  <2> DEFINE f == [a \in Alarm |-> pending[a]]
  <2>1. f \in Surjection(Alarm, used)
    BY DEF Surjection
  <2>2. IsFiniteSet(Alarm)
    BY AlarmAssumption
  <2> HIDE DEF f, used
  <2> QED
    BY <2>1, <2>2, FS_Surjection
<1>3. FreshSleeper = CHOOSE m \in 1..Cardinality(ids) : m \notin ids
  BY DEF FreshSleeper
<1>4. IsFiniteSet(ids) /\ 0 \in ids
  <2> HIDE DEF taken, used
  <2>1. IsFiniteSet(taken \cup used)
    BY <1>1, <1>2, FS_Union, ZenonT(30)
  <2> QED
    BY <2>1, FS_AddElement
<1> HIDE DEF ids
<1>5. Cardinality(ids) \in Nat /\ \E m \in 1..Cardinality(ids) : m \notin ids
  BY <1>4, FreshNumber
<1> QED
  BY <1>3, <1>5

LEMMA InAppend ==
  ASSUME NEW S, NEW s \in Seq(S), NEW e \in S
  PROVE  /\ Append(s, e) \in Seq(S) /\ In(e, Append(s, e))
         /\ \A x : In(x, s) => In(x, Append(s, e))
<1>1. /\ Append(s, e) \in Seq(S) /\ Len(Append(s, e)) = Len(s) + 1 /\ Len(s) \in Nat
      /\ \A i \in 1..Len(s) : Append(s, e)[i] = s[i]
      /\ Append(s, e)[Len(s) + 1] = e
  BY AppendProperties, LenProperties
<1> DEFINE t == Append(s, e)
           n == Len(s)
<1> HIDE DEF t, n
<1>2. /\ t \in Seq(S) /\ Len(t) = n + 1 /\ n \in Nat /\ (\A i \in 1..n : t[i] = s[i]) /\ t[n + 1] = e
  BY <1>1 DEF t, n
<1>3. 1..n \subseteq 1..n + 1 /\ n + 1 \in 1..n + 1
  BY <1>2
<1>4. In(e, t) /\ \A x : In(x, s) => In(x, t)
  BY <1>2, <1>3 DEF In, n
<1> QED
  BY <1>1, <1>4 DEF t

LEMMA InTail ==
  ASSUME NEW S, NEW s \in Seq(S), s # <<>>
  PROVE  /\ Head(s) \in S /\ Tail(s) \in Seq(S)
         /\ \A x : In(x, s) /\ x # Head(s) => In(x, Tail(s))
<1> DEFINE t == Tail(s)
           n == Len(s)
<1>1. /\ Head(s) \in S /\ t \in Seq(S) /\ Len(t) = n - 1
      /\ \A i \in 1..Len(t) : t[i] = s[i + 1]
      /\ n \in Nat /\ n # 0 /\ Head(s) = s[1]
  BY HeadTailProperties, LenProperties, EmptySeq
<1> HIDE DEF t, n
<1>2. ASSUME NEW x, In(x, s), x # Head(s) PROVE In(x, t)
  <2>1. PICK i \in 1..n : s[i] = x
    BY <1>2 DEF In, n
  <2>2. i # 1
    BY <1>1, <1>2, <2>1
  <2>3. i - 1 \in 1..Len(t) /\ (i - 1) + 1 = i
    BY <1>1, <2>1, <2>2
  <2>4. t[i - 1] = x
    BY <1>1, <2>1, <2>3
  <2> QED
    BY <2>3, <2>4 DEF In
<1> QED
  BY <1>1, <1>2 DEF t

LEMMA InEmpty == \A x : ~In(x, <<>>)
BY DEF In

-----------------------------------------------------------------------------
(* The controller and the scheduler.                                       *)

CInv == ControlTyped /\ JobsFollow /\ ScheduleFollows

LEMMA OpFields ==
  ASSUME op \in Ops
  PROVE  /\ op.pc # "idle" =>
              /\ op.pc \in OpPcs /\ op.alarm \in Alarm /\ op.want \in {"gone", "off", "on"}
              /\ op.job \in Nat /\ op.ends \in BOOLEAN /\ op.client \in BOOLEAN
         /\ op.pc = "idle" <=> op = NoOp
         /\ op = NoOp => op.ends = FALSE /\ op.client = FALSE
<1>1. CASE op = NoOp
  BY <1>1 DEF NoOp
<1>2. CASE op \in [pc : OpPcs, alarm : Alarm, want : {"gone", "off", "on"}, job : Nat, ends : BOOLEAN,
                    client : BOOLEAN]
  BY <1>2 DEF OpPcs, NoOp
<1> QED
  BY <1>1, <1>2, ZenonT(30) DEF Ops

LEMMA ControlKept ==
  ASSUME CInv, UNCHANGED <<schedulerVars, controlVars>>
  PROVE  CInv'
<1>1. UNCHANGED <<jobs, stored, relisted, revived, lost, Known, config, active, op, torn>>
  BY DEF schedulerVars, controlVars, Known
<1>2. ControlTyped' /\ JobsFollow'
  BY <1>1 DEF CInv, ControlTyped, JobsFollow, Returning, Holds
<1>3. ScheduleFollows'
  BY <1>1, ZenonT(30) DEF CInv, ScheduleFollows, OpFollows, Agrees, JobsOf
<1> QED
  BY <1>2, <1>3 DEF CInv

\* The tables stay, and nobody holds a job it did not hold.
LEMMA JobsLetGo ==
  ASSUME JobsFollow, UNCHANGED <<jobs, stored, relisted, revived, lost, Known>>,
         \A b \in Alarm : \A n : Holds(b, n)' => Holds(b, n)
  PROVE  JobsFollow'
BY DEF JobsFollow, Returning

\* An operation begins.
LEMMA BeginsSafe ==
  ASSUME CInv, NEW pc \in {"delist", "schedule", "save"}, NEW a \in Alarm, NEW want \in {"gone", "off", "on"},
         NEW client \in BOOLEAN, Begins(pc, a, want, client), UNCHANGED <<schedulerVars, config, active, torn>>,
         pc \in {"schedule", "save"} => config[a] = "new" /\ pc = AfterRemoval(want)
  PROVE  CInv'
<1>1. UNCHANGED <<jobs, stored, relisted, revived, lost, Known, config, active, torn>>
  BY DEF schedulerVars, Known
<1>2. /\ op = NoOp /\ op.pc = "idle" /\ op' \in Ops
      /\ op'.pc = pc /\ op'.alarm = a /\ op'.want = want /\ op'.ends = FALSE
  BY DEF Begins, NoOp, NoJob, Ops, OpPcs
<1>3. ControlTyped'
  BY <1>1, <1>2 DEF CInv, ControlTyped
<1>4. JobsFollow'
  BY <1>1, <1>2 DEF CInv, JobsFollow, Returning, Holds
<1>5. ScheduleFollows'
  <2>1. \A b \in Alarm \ torn : Agrees(b)
    BY <1>2 DEF CInv, ScheduleFollows
  <2>2. \A b \in Alarm : Agrees(b)' <=> Agrees(b)
    BY <1>1 DEF Agrees, JobsOf
  <2>3. a \notin torn => OpFollows(a)'
    <3>1. SUFFICES ASSUME a \notin torn PROVE OpFollows(a)'
      OBVIOUS
    <3>2. Agrees(a)
      BY <2>1, <3>1
    <3>3. CASE pc = "delist"
      BY <1>1, <1>2, <3>2, <3>3 DEF OpFollows, Agrees, JobsOf
    <3>4. CASE pc # "delist"
      <4>1. active[a] = NoJob /\ JobsOf(a) = {} /\ (pc = "save" <=> want # "on")
        BY <3>2, <3>4 DEF Agrees, AfterRemoval
      <4>2. active'[a] = NoJob /\ JobsOf(a)' = {}
        BY <1>1, <4>1 DEF JobsOf
      <4> QED
        BY <1>2, <3>4, <4>1, <4>2 DEF OpFollows
    <3> QED
      BY <3>3, <3>4
  <2>4. pc = "schedule" => want = "on"
    BY DEF AfterRemoval
  <2> QED
    BY <1>1, <1>2, <2>1, <2>2, <2>3, <2>4 DEF ScheduleFollows
<1> QED
  BY <1>3, <1>4, <1>5 DEF CInv

\* The alarms an operation is not about.
LEMMA OthersKept ==
  ASSUME CInv, op.pc # "idle", NEW a, a = op.alarm, op'.pc = "idle" \/ op'.alarm = a,
         torn \subseteq torn', a \notin torn' =>
           IF op'.pc # "idle" THEN OpFollows(a)' ELSE Agrees(a)',
         \A b \in Alarm \ {a} : config'[b] = config[b] /\ active'[b] = active[b] /\ JobsOf(b)' = JobsOf(b),
         op'.pc = "cancel" => active'[op'.alarm] = NoJob,
         op'.pc \in {"cancel", "enlist"} => op'.job # NoJob,
         op'.pc \in {"schedule", "enlist"} => op'.want = "on"
  PROVE  ScheduleFollows'
<1>1. \A b \in (Alarm \ {a}) \ torn : Agrees(b)'
  BY DEF CInv, ScheduleFollows, Agrees
<1> QED
  BY <1>1 DEF ScheduleFollows

LEMMA DelistSafe ==
  ASSUME CInv, Delist
  PROVE  CInv'
<1>0. /\ op \in Ops /\ op.pc = "delist" /\ op.alarm \in Alarm /\ op.want \in {"gone", "off", "on"}
      /\ op.ends \in BOOLEAN /\ op.client \in BOOLEAN /\ active \in [Alarm -> Nat]
      /\ UNCHANGED <<jobs, stored, relisted, revived, lost, Known, config, torn>>
  BY OpFields DEF CInv, ControlTyped, Delist, NoFault, schedulerVars, Known
<1> PICK a \in Alarm : a = op.alarm
  BY <1>0
<1> PICK job \in Nat : job = active[a]
  BY <1>0
<1>1. /\ op' \in Ops /\ op'.pc = (IF job = NoJob THEN "drop" ELSE "cancel") /\ op'.job = job
      /\ op'.alarm = a /\ op'.want = op.want /\ op'.ends = op.ends
  BY <1>0, ZenonT(30) DEF Delist, Ops, OpPcs, NoOp
<1>2. active' = [active EXCEPT ![a] = NoJob]
  BY DEF Delist
<1>3. active' \in [Alarm -> Nat] /\ active'[a] = NoJob /\ \A b \in Alarm \ {a} : active'[b] = active[b]
  BY <1>0, <1>2 DEF NoJob
<1>4. ControlTyped'
  BY <1>0, <1>1, <1>3 DEF CInv, ControlTyped
<1>5. \A b \in Alarm, n \in Nat \ {0} : Holds(b, n)' => Holds(b, n)
  BY <1>0, <1>1, <1>3 DEF Holds, NoJob
<1>6. JobsFollow'
  <2>1. \A j \in Known : j[1] \in Nat \ {0}
    BY DEF CInv, ControlTyped
  <2>2. Returning' = Returning /\ Returning \subseteq Known
    BY <1>0 DEF Returning, CInv, JobsFollow, Known
  <2> QED
    BY <1>0, <1>5, <2>1, <2>2 DEF CInv, JobsFollow
<1>7. \A b \in Alarm : JobsOf(b)' = JobsOf(b)
  BY <1>0 DEF JobsOf
<1>8. a \notin torn => OpFollows(a)'
  <2>1. SUFFICES ASSUME a \notin torn PROVE OpFollows(a)'
    OBVIOUS
  <2>2. OpFollows(a)
    BY <1>0, <2>1 DEF CInv, ScheduleFollows
  <2>3. JobsOf(a)' = {job} \ {NoJob} /\ (op.ends => config'[a] # "on")
    BY <1>0, <1>7, <2>2 DEF OpFollows
  <2> QED
    BY <1>1, <1>3, <2>3 DEF OpFollows
<1>9. ScheduleFollows'
  <2>1. op'.pc \in {"drop", "cancel"} /\ (op'.pc = "cancel" => job # NoJob)
    BY <1>1
  <2> QED
    BY <1>0, <1>1, <1>3, <1>7, <1>8, <2>1, OthersKept
<1> QED
  BY <1>4, <1>6, <1>9 DEF CInv

\* A job is taken out of the library's table, and of storage unless it is still
\* listed there, by the operation that held it.
LEMMA CancelJobFacts ==
  ASSUME CInv, op.pc = "cancel", NEW a \in Alarm, a = op.alarm, NEW listed \in BOOLEAN,
         CancelJob(op.job, listed), op'.pc \notin {"cancel", "enlist"}, UNCHANGED active
  PROVE  /\ Known' \subseteq (Nat \ {0}) \X Alarm /\ IsFiniteSet(Known')
         /\ JobsFollow'
         /\ \A b \in Alarm \ {a} : JobsOf(b)' = JobsOf(b)
         /\ JobsOf(a) = {op.job} => JobsOf(a)' = {}
<1>0. /\ op \in Ops /\ op.alarm \in Alarm /\ op.job \in Nat /\ op.job # NoJob
      /\ Known \subseteq (Nat \ {0}) \X Alarm /\ IsFiniteSet(Known)
  BY OpFields DEF CInv, ControlTyped, ScheduleFollows
<1>1. /\ jobs' = Without(jobs, op.job) /\ lost' = Without(lost, op.job)
      /\ stored' \subseteq stored /\ relisted' = relisted /\ revived' = revived
  BY DEF CancelJob, Without
<1>2. Known' \subseteq Known
  BY <1>1 DEF Known, Without
<1>3. IsFiniteSet(Known')
  BY <1>0, <1>2, FS_Subset
<1>4. /\ \A j \in Known : j[1] = op.job => j[2] = a
      /\ \A j \in Returning : j[1] # op.job
      /\ \A j \in Known : j[1] = op.job => \A b \in Alarm : active[b] = op.job => b = a
  <2>1. Holds(a, op.job) /\ \A b \in Alarm : active[b] = op.job => Holds(b, op.job)
    BY <1>0 DEF Holds
  <2> QED
    BY <1>0, <2>1 DEF CInv, JobsFollow
<1>5. active[a] = NoJob
  BY DEF CInv, ScheduleFollows
<1>6. \A b \in Alarm : \A n : Holds(b, n)' => Holds(b, n) /\ n = active[b]
  BY <1>0 DEF Holds
<1>7. JobsFollow'
  <2>1. revived' \subseteq jobs' /\ lost' \cap (jobs' \cup stored' \cup relisted') = {}
    <3>1. revived \subseteq Returning
      BY DEF Returning
    <3> QED
      BY <1>1, <1>4, <3>1 DEF CInv, JobsFollow, Without
  <2>2. \A j \in Returning' : j \in Returning \/ (j \in Known /\ j[1] = op.job)
    BY <1>1 DEF Returning, Known, Without
  <2>3. \A j \in Returning' : \A b \in Alarm : ~Holds(b, j[1])'
    <3> SUFFICES ASSUME NEW j \in Returning', NEW b \in Alarm, Holds(b, j[1])' PROVE FALSE
      OBVIOUS
    <3>1. Holds(b, j[1]) /\ j[1] = active[b]
      BY <1>6
    <3>2. j \in Known /\ j[1] = op.job
      BY <2>2, <3>1 DEF CInv, JobsFollow
    <3> QED
      BY <1>0, <1>4, <1>5, <3>1, <3>2, ZenonT(30)
  <2> QED
    BY <1>2, <1>6, <2>1, <2>3 DEF CInv, JobsFollow
<1>8. \A b \in Alarm \ {a} : JobsOf(b)' = JobsOf(b)
  <2>1. \A k \in jobs \cup lost : k[2] # a => k[1] # op.job
    BY <1>4 DEF Known
  <2> QED
    BY <1>1, <2>1 DEF JobsOf, Without
<1>9. JobsOf(a) = {op.job} => JobsOf(a)' = {}
  <2> SUFFICES ASSUME JobsOf(a) = {op.job}, NEW n \in JobsOf(a)' PROVE FALSE
    OBVIOUS
  <2>1. PICK k \in (jobs' \cup lost') \ revived' : k[2] = a /\ k[1] = n
    BY DEF JobsOf
  <2>2. k \in (jobs \cup lost) \ revived /\ n # op.job
    BY <1>1, <2>1 DEF Without
  <2>3. n \in JobsOf(a)
    BY <2>1, <2>2 DEF JobsOf
  <2> QED
    BY <2>2, <2>3
<1> QED
  BY <1>0, <1>2, <1>3, <1>7, <1>8, <1>9

\* A job is added to the library's table, and to storage, for the operation's
\* alarm; the operation holds it, or nobody does.
LEMMA AddJobFacts ==
  ASSUME CInv, op.pc = "schedule", NEW a \in Alarm, a = op.alarm, NEW job, job = NewJob,
         NEW kept \in BOOLEAN, AddJob(job, op.alarm, kept), UNCHANGED active,
         op'.pc \in {"cancel", "enlist"} => op'.alarm = op.alarm /\ op'.job = job
  PROVE  /\ job \in Nat \ {0}
         /\ Known' \subseteq (Nat \ {0}) \X Alarm /\ IsFiniteSet(Known')
         /\ JobsFollow'
         /\ \A b \in Alarm \ {a} : JobsOf(b)' = JobsOf(b)
         /\ JobsOf(a)' = JobsOf(a) \cup {job}
<1>0. /\ op.alarm \in Alarm
      /\ Known \subseteq (Nat \ {0}) \X Alarm /\ IsFiniteSet(Known)
  BY OpFields DEF CInv, ControlTyped
<1>1. /\ job \in Nat \ {0}
      /\ \A j \in Known : j[1] # job
      /\ \A b \in Alarm : active[b] # job
  BY FreshJobIsFresh DEF CInv
<1> DEFINE new == <<job, a>>
<1>2. new[1] = job /\ new[2] = a /\ new \in (Nat \ {0}) \X Alarm
  BY <1>1
<1>3. /\ jobs' = jobs \cup {new} /\ stored' \subseteq stored \cup {new} /\ stored \subseteq stored'
      /\ relisted' = relisted /\ revived' = revived /\ lost' = lost
  BY DEF AddJob
<1> HIDE DEF new
<1>4. Known' = Known \cup {new}
  BY <1>3 DEF Known
<1>5. IsFiniteSet(Known')
  BY <1>0, <1>4, FS_AddElement
<1>6. \A b \in Alarm : \A n : Holds(b, n)' => Holds(b, n) \/ (b = a /\ n = job)
  BY <1>0 DEF Holds
<1>7. \A b \in Alarm : ~Holds(b, job)
  BY <1>1 DEF Holds
<1>8. new \notin jobs \cup stored \cup relisted \cup lost \cup revived
  BY <1>1, <1>2 DEF Known, CInv, JobsFollow
<1>9. JobsFollow'
  <2>1. \A j, k \in Known' : j[1] = k[1] => j = k
    BY <1>1, <1>2, <1>4 DEF CInv, JobsFollow
  <2>2. \A j \in Known' : \A b \in Alarm : Holds(b, j[1])' => j[2] = b
    BY <1>1, <1>2, <1>4, <1>6, <1>7 DEF CInv, JobsFollow
  <2>3. /\ revived' \subseteq jobs' /\ lost' \cap (jobs' \cup stored' \cup relisted') = {}
        /\ Returning' \subseteq Returning
    BY <1>3, <1>8 DEF CInv, JobsFollow, Returning
  <2>4. Returning \subseteq Known
    BY DEF CInv, JobsFollow, Returning, Known
  <2>5. \A j \in Returning' : \A b \in Alarm : ~Holds(b, j[1])'
    BY <1>1, <1>6, <2>3, <2>4 DEF CInv, JobsFollow
  <2> QED
    BY <2>1, <2>2, <2>3, <2>5 DEF JobsFollow
<1>10. (\A b \in Alarm \ {a} : JobsOf(b)' = JobsOf(b)) /\ JobsOf(a)' = JobsOf(a) \cup {job}
  <2>1. (jobs' \cup lost') \ revived' = ((jobs \cup lost) \ revived) \cup {new}
    BY <1>3, <1>8
  <2> DEFINE live == (jobs \cup lost) \ revived
             OfIn(b, S) == {j[1] : j \in {k \in S : k[2] = b}}
  <2>2. \A b \in Alarm : JobsOf(b)' = OfIn(b, live \cup {new}) /\ JobsOf(b) = OfIn(b, live)
    BY <2>1 DEF JobsOf
  <2> HIDE DEF live
  <2>3. \A b \in Alarm \ {a} : OfIn(b, live \cup {new}) = OfIn(b, live)
    BY <1>2
  <2>4. OfIn(a, live \cup {new}) = OfIn(a, live) \cup {job}
    BY <1>2
  <2> QED
    BY <2>2, <2>3, <2>4, ZenonT(30)
<1> QED
  BY <1>0, <1>1, <1>2, <1>4, <1>5, <1>9, <1>10

LEMMA CancelSafe ==
  ASSUME CInv, Cancel
  PROVE  CInv'
<1>0. /\ op \in Ops /\ op.pc = "cancel" /\ op.alarm \in Alarm /\ op.want \in {"gone", "off", "on"}
      /\ op.ends \in BOOLEAN /\ op.client \in BOOLEAN /\ op.job \in Nat
      /\ active[op.alarm] = NoJob /\ UNCHANGED <<config, active>> /\ torn \subseteq Alarm
  BY OpFields DEF CInv, ControlTyped, ScheduleFollows, Cancel
<1> PICK a \in Alarm : a = op.alarm
  BY <1>0
<1>1. /\ op' \in Ops /\ op'.pc = "drop" /\ op'.alarm = a /\ op'.want = op.want
      /\ op'.ends = op.ends \/ a \in torn'
  <2>1. CASE OpTo("drop")
    BY <1>0, <2>1 DEF OpTo, Ops, OpPcs, NoOp
  <2>2. CASE op' = [op EXCEPT !.pc = "drop", !.ends = TRUE] /\ Fault(TRUE)
    BY <1>0, <2>2, ZenonT(30) DEF Fault, Ops, OpPcs, NoOp
  <2> QED
    BY <2>1, <2>2, ZenonT(30) DEF Cancel
<1>2. /\ torn \subseteq torn' /\ torn' \subseteq Alarm
      /\ \/ UNCHANGED schedulerVars /\ a \in torn'
         \/ CancelJob(op.job, FALSE)
  BY <1>0, ZenonT(30) DEF Cancel, Fault, NoFault
<1>3. /\ ControlTyped' /\ JobsFollow'
      /\ \A b \in Alarm \ {a} : JobsOf(b)' = JobsOf(b)
      /\ a \in torn' \/ (JobsOf(a) = {op.job} => JobsOf(a)' = {})
  <2>1. CASE UNCHANGED schedulerVars /\ a \in torn'
    <3>1. UNCHANGED <<jobs, stored, relisted, revived, lost, Known>>
      BY <2>1 DEF schedulerVars, Known
    <3>2. \A b \in Alarm : \A n : Holds(b, n)' => Holds(b, n)
      BY <1>0, <1>1 DEF Holds
    <3>3. JobsFollow'
      BY <3>1, <3>2, JobsLetGo DEF CInv
    <3>4. ControlTyped'
      BY <1>0, <1>1, <1>2, <3>1 DEF CInv, ControlTyped
    <3> QED
      BY <2>1, <3>1, <3>3, <3>4 DEF JobsOf
  <2>2. CASE CancelJob(op.job, FALSE)
    <3>1. /\ Known' \subseteq (Nat \ {0}) \X Alarm /\ IsFiniteSet(Known') /\ JobsFollow'
          /\ \A b \in Alarm \ {a} : JobsOf(b)' = JobsOf(b)
          /\ JobsOf(a) = {op.job} => JobsOf(a)' = {}
      BY <1>0, <1>1, <2>2, CancelJobFacts, ZenonT(30)
    <3>2. ControlTyped'
      BY <1>0, <1>1, <1>2, <3>1 DEF CInv, ControlTyped
    <3> QED
      BY <3>1, <3>2
  <2> QED
    BY <1>2, <2>1, <2>2, ZenonT(30)
<1>4. a \notin torn' => OpFollows(a)'
  <2>1. SUFFICES ASSUME a \notin torn' PROVE OpFollows(a)'
    OBVIOUS
  <2>2. OpFollows(a) /\ a \notin torn
    BY <1>0, <1>2, <2>1 DEF CInv, ScheduleFollows
  <2>3. JobsOf(a)' = {} /\ (op.ends => config'[a] # "on")
    BY <1>0, <1>3, <2>1, <2>2 DEF OpFollows
  <2> QED
    BY <1>0, <1>1, <2>1, <2>3 DEF OpFollows
<1>5. ScheduleFollows'
  BY <1>0, <1>1, <1>2, <1>3, <1>4, OthersKept
<1> QED
  BY <1>3, <1>5 DEF CInv

LEMMA DropSafe ==
  ASSUME CInv, Drop
  PROVE  CInv'
<1>0. /\ op \in Ops /\ op.pc = "drop" /\ op.alarm \in Alarm /\ op.want \in {"gone", "off", "on"}
      /\ op.ends \in BOOLEAN /\ op.client \in BOOLEAN /\ op.job \in Nat
      /\ UNCHANGED <<jobs, stored, relisted, revived, lost, Known, config, active, torn>>
  BY OpFields DEF CInv, ControlTyped, ScheduleFollows, Drop, NoFault, schedulerVars, Known
<1> PICK a \in Alarm : a = op.alarm
  BY <1>0
<1>1. \/ op.ends /\ op' = NoOp /\ op'.pc = "idle"
      \/ /\ ~op.ends /\ op' \in Ops /\ op'.pc \in {"schedule", "save"} /\ op'.alarm = a
         /\ op'.want = op.want /\ op'.ends = FALSE
         /\ op'.pc = "schedule" <=> op.want = "on"
  BY <1>0 DEF Drop, OpTo, AfterRemoval, Ops, OpPcs, NoOp
<1>2. op' \in Ops /\ op'.pc \in {"idle", "schedule", "save"}
  BY <1>1 DEF Ops
<1>3. ControlTyped'
  BY <1>0, <1>2 DEF CInv, ControlTyped
<1>4. JobsFollow'
  <2>1. \A b \in Alarm : \A n : Holds(b, n)' => Holds(b, n)
    BY <1>0, <1>2 DEF Holds
  <2> QED
    BY <1>0, <2>1, JobsLetGo DEF CInv
<1>5. \A b \in Alarm : JobsOf(b)' = JobsOf(b)
  BY <1>0 DEF JobsOf
<1>6. a \notin torn => IF op'.pc # "idle" THEN OpFollows(a)' ELSE Agrees(a)'
  <2>1. SUFFICES ASSUME a \notin torn PROVE IF op'.pc # "idle" THEN OpFollows(a)' ELSE Agrees(a)'
    OBVIOUS
  <2>2. OpFollows(a)
    BY <1>0, <2>1 DEF CInv, ScheduleFollows
  <2>3. JobsOf(a)' = {} /\ active'[a] = NoJob /\ (op.ends => config'[a] # "on")
    BY <1>0, <1>5, <2>2 DEF OpFollows
  <2> QED
    BY <1>1, <2>3 DEF OpFollows, Agrees
<1>7. ScheduleFollows'
  BY <1>0, <1>1, <1>2, <1>5, <1>6, OthersKept
<1> QED
  BY <1>3, <1>4, <1>7 DEF CInv

LEMMA ScheduleAlarmSafe ==
  ASSUME CInv, ScheduleAlarm
  PROVE  CInv'
<1>0. /\ op \in Ops /\ op.pc = "schedule" /\ op.alarm \in Alarm /\ op.want = "on"
      /\ op.ends \in BOOLEAN /\ op.client \in BOOLEAN /\ op.job \in Nat /\ torn \subseteq Alarm
      /\ UNCHANGED <<config, active>>
  BY OpFields DEF CInv, ControlTyped, ScheduleFollows, ScheduleAlarm
<1> PICK a \in Alarm : a = op.alarm
  BY <1>0
<1>1. CASE op' = NoOp /\ Fault(config[op.alarm] = "on") /\ UNCHANGED schedulerVars
  <2>1. /\ op' \in Ops /\ op'.pc = "idle"
        /\ UNCHANGED <<jobs, stored, relisted, revived, lost, Known>>
        /\ torn \subseteq torn' /\ torn' \subseteq Alarm /\ (config[a] = "on" => a \in torn')
    BY <1>0, <1>1 DEF Ops, NoOp, schedulerVars, Known, Fault
  <2>2. ControlTyped'
    BY <1>0, <2>1 DEF CInv, ControlTyped
  <2>3. JobsFollow'
    <3>1. \A b \in Alarm : \A n : Holds(b, n)' => Holds(b, n)
      BY <1>0, <2>1 DEF Holds
    <3> QED
      BY <2>1, <3>1, JobsLetGo DEF CInv
  <2>4. \A b \in Alarm : JobsOf(b)' = JobsOf(b)
    BY <2>1 DEF JobsOf
  <2>5. a \notin torn' => Agrees(a)'
    <3>1. SUFFICES ASSUME a \notin torn' PROVE Agrees(a)'
      OBVIOUS
    <3>2. OpFollows(a)
      BY <1>0, <2>1, <3>1 DEF CInv, ScheduleFollows
    <3>3. JobsOf(a)' = {} /\ active'[a] = NoJob /\ config'[a] # "on"
      BY <1>0, <2>1, <2>4, <3>1, <3>2 DEF OpFollows
    <3> QED
      BY <3>3 DEF Agrees
  <2>6. ScheduleFollows'
    BY <1>0, <2>1, <2>4, <2>5, OthersKept
  <2> QED
    BY <2>2, <2>3, <2>6 DEF CInv
<1>2. CASE op' = NoOp /\ Fault(TRUE) /\ AddJob(NewJob, op.alarm, FALSE)
  <2>1. /\ op' \in Ops /\ op'.pc = "idle"
        /\ torn \subseteq torn' /\ torn' \subseteq Alarm /\ a \in torn'
    BY <1>0, <1>2 DEF Ops, NoOp, Fault
  <2>2. /\ Known' \subseteq (Nat \ {0}) \X Alarm /\ IsFiniteSet(Known') /\ JobsFollow'
        /\ \A b \in Alarm \ {a} : JobsOf(b)' = JobsOf(b)
    BY <1>0, <1>2, <2>1, AddJobFacts, ZenonT(30)
  <2>3. ControlTyped'
    BY <1>0, <2>1, <2>2 DEF CInv, ControlTyped
  <2>4. ScheduleFollows'
    BY <1>0, <2>1, <2>2, OthersKept
  <2> QED
    BY <2>2, <2>3, <2>4 DEF CInv
<1>3. CASE AddJob(NewJob, op.alarm, TRUE) /\ op' = [op EXCEPT !.pc = "enlist", !.job = NewJob] /\ NoFault
  <2>1. PICK job : job = NewJob
    OBVIOUS
  <2>2. job \in Nat \ {0}
    BY <2>1, FreshJobIsFresh DEF CInv
  <2>3. /\ op' \in Ops /\ op'.pc = "enlist" /\ op'.alarm = a /\ op'.want = "on" /\ op'.job = job
        /\ op'.ends = op.ends /\ torn' = torn
    BY <1>0, <1>3, <2>1, <2>2, ZenonT(30) DEF Ops, OpPcs, NoOp, NoFault
  <2>4. /\ Known' \subseteq (Nat \ {0}) \X Alarm /\ IsFiniteSet(Known') /\ JobsFollow'
        /\ \A b \in Alarm \ {a} : JobsOf(b)' = JobsOf(b)
        /\ JobsOf(a)' = JobsOf(a) \cup {job}
    BY <1>0, <1>3, <2>1, <2>3, AddJobFacts, ZenonT(30)
  <2>5. ControlTyped'
    BY <1>0, <2>3, <2>4 DEF CInv, ControlTyped
  <2>6. a \notin torn => OpFollows(a)'
    <3>1. SUFFICES ASSUME a \notin torn PROVE OpFollows(a)'
      OBVIOUS
    <3>2. OpFollows(a)
      BY <1>0, <3>1 DEF CInv, ScheduleFollows
    <3>3. JobsOf(a)' = {job} /\ (op.ends => config'[a] # "on")
      BY <1>0, <2>4, <3>2 DEF OpFollows
    <3> QED
      BY <2>3, <3>3 DEF OpFollows
  <2>7. ScheduleFollows'
    BY <1>0, <2>2, <2>3, <2>4, <2>6, OthersKept DEF NoJob
  <2> QED
    BY <2>4, <2>5, <2>7 DEF CInv
<1> QED
  BY <1>1, <1>2, <1>3, ZenonT(30) DEF ScheduleAlarm

LEMMA EnlistSafe ==
  ASSUME CInv, Enlist
  PROVE  CInv'
<1>0. /\ op \in Ops /\ op.pc = "enlist" /\ op.alarm \in Alarm /\ op.want = "on"
      /\ op.ends \in BOOLEAN /\ op.client \in BOOLEAN /\ op.job \in Nat /\ op.job # NoJob /\ active \in [Alarm -> Nat]
      /\ UNCHANGED <<jobs, stored, relisted, revived, lost, Known, config, torn>>
  BY OpFields DEF CInv, ControlTyped, ScheduleFollows, Enlist, NoFault, schedulerVars, Known
<1> PICK a \in Alarm : a = op.alarm
  BY <1>0
<1>1. op' \in Ops /\ op'.pc = "save" /\ op'.alarm = a /\ op'.want = "on" /\ op'.ends = op.ends
  BY <1>0 DEF Enlist, OpTo, Ops, OpPcs, NoOp
<1>2. /\ active' \in [Alarm -> Nat] /\ active'[a] = op.job
      /\ \A b \in Alarm \ {a} : active'[b] = active[b]
  BY <1>0 DEF Enlist
<1>3. ControlTyped'
  BY <1>0, <1>1, <1>2 DEF CInv, ControlTyped
<1>4. JobsFollow'
  <2>1. \A b \in Alarm : \A n : Holds(b, n)' => Holds(b, n)
    BY <1>0, <1>1, <1>2 DEF Holds
  <2> QED
    BY <1>0, <2>1, JobsLetGo DEF CInv
<1>5. \A b \in Alarm : JobsOf(b)' = JobsOf(b)
  BY <1>0 DEF JobsOf
<1>6. a \notin torn => OpFollows(a)'
  <2>1. SUFFICES ASSUME a \notin torn PROVE OpFollows(a)'
    OBVIOUS
  <2>2. OpFollows(a)
    BY <1>0, <2>1 DEF CInv, ScheduleFollows
  <2>3. JobsOf(a)' = {op.job} /\ (op.ends => config'[a] # "on")
    BY <1>0, <1>5, <2>2 DEF OpFollows
  <2> QED
    BY <1>0, <1>1, <1>2, <2>3 DEF OpFollows
<1>7. ScheduleFollows'
  BY <1>0, <1>1, <1>2, <1>5, <1>6, OthersKept
<1> QED
  BY <1>3, <1>4, <1>7 DEF CInv

LEMMA SaveSafe ==
  ASSUME CInv, Save
  PROVE  CInv'
<1>0. /\ op \in Ops /\ op.pc = "save" /\ op.alarm \in Alarm /\ op.want \in {"gone", "off", "on"}
      /\ op.ends \in BOOLEAN /\ op.client \in BOOLEAN /\ op.job \in Nat /\ torn \subseteq Alarm
      /\ UNCHANGED <<jobs, stored, relisted, revived, lost, Known, active>>
      /\ config \in [Alarm -> {"new", "gone", "off", "on"}]
  BY OpFields DEF CInv, ControlTyped, Save, schedulerVars, Known
<1> PICK a \in Alarm : a = op.alarm
  BY <1>0
<1>1. /\ op' \in Ops
      /\ op' = NoOp \/ (op'.pc = "delist" /\ op'.alarm = a /\ op'.want = op.want /\ op'.ends = TRUE)
      /\ op'.pc \in {"idle", "delist"} /\ (op' = NoOp <=> op'.pc = "idle")
  <2> DEFINE back == [op EXCEPT !.pc = "delist", !.ends = TRUE]
  <2>1. back \in Ops /\ back.pc = "delist" /\ back.alarm = a /\ back.want = op.want /\ back.ends = TRUE
    BY <1>0, ZenonT(30) DEF Ops, OpPcs, NoOp
  <2>2. NoOp \in Ops /\ NoOp.pc = "idle" /\ op' \in {NoOp, back}
    BY DEF Ops, NoOp, Save
  <2> HIDE DEF back
  <2> QED
    BY <2>1, <2>2
<1>2. /\ config' \in [Alarm -> {"new", "gone", "off", "on"}] /\ torn \subseteq torn' /\ torn' \subseteq Alarm
      /\ \A b \in Alarm \ {a} : config'[b] = config[b]
      /\ \/ config'[a] = op.want /\ op' = NoOp
         \/ /\ config' = config /\ (config[a] = "on" => a \in torn')
            /\ op' = NoOp => op.want = "gone"
  <2>1. CASE config' = [config EXCEPT ![op.alarm] = op.want] /\ op' = NoOp /\ NoFault
    BY <1>0, <2>1 DEF NoFault
  <2>2. CASE /\ UNCHANGED config /\ Fault(config[op.alarm] = "on")
             /\ op' = IF op.want = "gone" THEN NoOp ELSE [op EXCEPT !.pc = "delist", !.ends = TRUE]
    <3>1. torn \subseteq torn' /\ torn' \subseteq Alarm /\ (config[a] = "on" => a \in torn')
      BY <1>0, <2>2 DEF Fault
    <3>2. op.want # "gone" => op'.pc = "delist"
      BY <1>0, <2>2 DEF Ops, OpPcs, NoOp
    <3>3. op' = NoOp => op.want = "gone"
      BY <1>1, <3>2
    <3> QED
      BY <1>0, <2>2, <3>1, <3>3
  <2> QED
    BY <2>1, <2>2 DEF Save
<1>3. ControlTyped'
  BY <1>0, <1>1, <1>2 DEF CInv, ControlTyped
<1>4. JobsFollow'
  <2>1. \A b \in Alarm : \A n : Holds(b, n)' => Holds(b, n)
    BY <1>0, <1>1 DEF Holds
  <2> QED
    BY <1>0, <2>1, JobsLetGo DEF CInv
<1>5. \A b \in Alarm : JobsOf(b)' = JobsOf(b)
  BY <1>0 DEF JobsOf
<1>6. a \notin torn' => IF op'.pc # "idle" THEN OpFollows(a)' ELSE Agrees(a)'
  <2>1. SUFFICES ASSUME a \notin torn' PROVE IF op'.pc # "idle" THEN OpFollows(a)' ELSE Agrees(a)'
    OBVIOUS
  <2>2. OpFollows(a)
    BY <1>0, <1>2, <2>1 DEF CInv, ScheduleFollows
  <2>3. JobsOf(a)' = {active'[a]} \ {NoJob} /\ (op.want = "on" <=> active'[a] # NoJob)
    BY <1>0, <1>5, <2>2 DEF OpFollows
  <2> QED
    BY <1>1, <1>2, <2>1, <2>3 DEF OpFollows, Agrees
<1>7. ScheduleFollows'
  BY <1>0, <1>1, <1>2, <1>5, <1>6, OthersKept
<1> QED
  BY <1>3, <1>4, <1>7 DEF CInv

\* The client of an operation hangs up: its alarm is torn, or not touched yet.
LEMMA HangUpSafe ==
  ASSUME CInv, HangUp
  PROVE  CInv'
<1>0. /\ op \in Ops /\ op.pc # "idle" /\ op.alarm \in Alarm /\ op.ends \in BOOLEAN
      /\ torn \subseteq Alarm /\ UNCHANGED <<config, active>>
  BY OpFields DEF CInv, ControlTyped, HangUp
<1> PICK a \in Alarm : a = op.alarm
  BY <1>0
<1>1. /\ op' \in Ops /\ op'.pc = "idle" /\ torn \subseteq torn' /\ torn' \subseteq Alarm
      /\ a \in torn' \/ (op.pc = "delist" /\ ~op.ends)
  BY <1>0 DEF HangUp, Fault, Ops, NoOp
<1>2. /\ Known' \subseteq (Nat \ {0}) \X Alarm /\ IsFiniteSet(Known') /\ JobsFollow'
      /\ \A b \in Alarm \ {a} : JobsOf(b)' = JobsOf(b)
      /\ op.pc = "delist" => JobsOf(a)' = JobsOf(a)
  <2>1. CASE UNCHANGED schedulerVars
    <3>1. UNCHANGED <<jobs, stored, relisted, revived, lost, Known>>
      BY <2>1 DEF schedulerVars, Known
    <3>2. \A b \in Alarm : \A n : Holds(b, n)' => Holds(b, n)
      BY <1>0, <1>1 DEF Holds
    <3>3. JobsFollow'
      BY <3>1, <3>2, JobsLetGo DEF CInv
    <3> QED
      BY <3>1, <3>3 DEF CInv, ControlTyped, JobsOf
  <2>2. CASE op.pc = "cancel" /\ \E listed \in BOOLEAN : CancelJob(op.job, listed)
    BY <1>0, <1>1, <2>2, CancelJobFacts
  <2>3. CASE op.pc = "schedule" /\ AddJob(NewJob, op.alarm, FALSE)
    BY <1>0, <1>1, <2>3, AddJobFacts, ZenonT(30)
  <2> QED
    BY <2>1, <2>2, <2>3, ZenonT(30) DEF HangUp
<1>3. ControlTyped'
  BY <1>0, <1>1, <1>2 DEF CInv, ControlTyped
<1>4. a \notin torn' => Agrees(a)'
  <2>1. SUFFICES ASSUME a \notin torn' PROVE Agrees(a)'
    OBVIOUS
  <2>2. OpFollows(a)
    BY <1>0, <1>1, <2>1 DEF CInv, ScheduleFollows
  <2> QED
    BY <1>0, <1>1, <1>2, <2>1, <2>2 DEF OpFollows, Agrees
<1>5. ScheduleFollows'
  BY <1>0, <1>1, <1>2, <1>4, OthersKept
<1> QED
  BY <1>2, <1>3, <1>5 DEF CInv

\* The timezone listener.
LEMMA ZonesSafe ==
  ASSUME CInv, ZoneChange \/ ZoneListener
  PROVE  CInv'
<1>0. UNCHANGED <<config, active, op, torn>>
  BY DEF ZoneChange, ZoneListener, controlVars
<1>1. \A b \in Alarm : \A n : Holds(b, n)' <=> Holds(b, n)
  BY <1>0 DEF Holds
<1>2. /\ Known' \subseteq Known
      /\ revived' \subseteq jobs' /\ lost' \cap (jobs' \cup stored' \cup relisted') = {}
      /\ Returning' \subseteq Returning
      /\ (jobs' \cup lost') \ revived' = (jobs \cup lost) \ revived
  <2>0. revived \subseteq jobs /\ lost \cap (jobs \cup stored \cup relisted) = {}
    BY DEF CInv, JobsFollow
  <2>1. CASE ZoneChange
    <3>1. jobs' = jobs /\ stored' = stored /\ relisted' = stored /\ revived' = revived /\ lost' = lost
      BY <2>1 DEF ZoneChange, ListJobs
    <3> QED
      BY <2>0, <3>1 DEF Known, Returning
  <2>2. CASE ZoneListener
    <3>1. PICK again \in SUBSET relisted : \E gone \in SUBSET (relisted \ again) :
            /\ jobs' = (jobs \ gone) \cup again
            /\ stored' = (stored \ gone) \cup again
            /\ revived' = (revived \cup (again \ jobs)) \ gone
            /\ lost' = lost \cup ((gone \cap jobs) \ revived)
      BY <2>2 DEF ZoneListener, Relist
    <3>2. PICK gone \in SUBSET (relisted \ again) :
            /\ jobs' = (jobs \ gone) \cup again
            /\ stored' = (stored \ gone) \cup again
            /\ revived' = (revived \cup (again \ jobs)) \ gone
            /\ lost' = lost \cup ((gone \cap jobs) \ revived)
      BY <3>1
    <3>3. relisted' = {}
      BY <2>2 DEF ZoneListener, Relist
    <3>4. Known' \subseteq Known
      BY <3>2, <3>3 DEF Known
    <3>5. revived' \subseteq jobs' /\ Returning' \subseteq Returning
      BY <2>0, <3>2, <3>3 DEF Returning
    <3>6. lost' \cap (jobs' \cup stored' \cup relisted') = {}
      BY <2>0, <3>2, <3>3
    <3>7. (jobs' \cup lost') \ revived' = (jobs \cup lost) \ revived
      BY <2>0, <3>2
    <3> QED
      BY <3>4, <3>5, <3>6, <3>7
  <2> QED
    BY <2>1, <2>2
<1>3. JobsFollow'
  BY <1>1, <1>2 DEF CInv, JobsFollow
<1>4. ControlTyped'
  <2>1. IsFiniteSet(Known')
    BY <1>2, FS_Subset DEF CInv, ControlTyped
  <2> QED
    BY <1>0, <1>2, <2>1 DEF CInv, ControlTyped
<1>5. \A b \in Alarm : JobsOf(b)' = JobsOf(b)
  BY <1>2 DEF JobsOf
<1>6. ScheduleFollows'
  BY <1>0, <1>5 DEF CInv, ScheduleFollows, OpFollows, Agrees
<1> QED
  BY <1>3, <1>4, <1>6 DEF CInv

-----------------------------------------------------------------------------
(* The handles, the commands and the snoozes.                              *)

LEMMA FiringFields ==
  /\ NoFiring.alarm = None /\ None \notin Alarm /\ Resting.pc = "idle"
  /\ NoFiring \notin Firings
  /\ \A a \in Alarm, n \in Nat :
       Firing(a, n) \in Firings /\ Firing(a, n).alarm = a /\ Cmd("stop", a) \in Commands
  /\ \A k \in {"stopCurrent", "snooze"} : Cmd(k, None) \in Commands
  /\ \A a, b : /\ Cmd("stop", a).kind = "stop" /\ Cmd("stop", a).alarm = a
               /\ Cmd("stop", a) = Cmd("stop", b) => a = b
BY AlarmAssumption DEF NoFiring, Firing, Firings, None, Resting, Cmd, Commands

\* The slot is emptied, and the alarm announced as stopped.
LEMMA StopIfFacts ==
  ASSUME RingTyped, NEW as \in SUBSET Alarm, StopIf(as)
  PROVE  /\ slot' \in {NoFiring, slot} /\ (slot.alarm \in as => slot' = NoFiring)
         /\ stopped' \in Seq(Alarm) /\ spent' \subseteq OneShot
         /\ spent \subseteq spent'
         /\ \A x : In(x, stopped) => In(x, stopped')
         /\ \A x \in spent' \ spent : In(x, stopped')
<1>1. CASE slot.alarm \in as /\ slot # NoFiring
  <2>1. slot.alarm \in Alarm /\ stopped \in Seq(Alarm) /\ spent \subseteq OneShot
    BY <1>1 DEF RingTyped, Firings
  <2>2. /\ slot' = NoFiring /\ stopped' = Append(stopped, slot.alarm)
        /\ spent' = spent \cup ({slot.alarm} \cap OneShot)
    BY <1>1 DEF StopIf
  <2>3. /\ stopped' \in Seq(Alarm) /\ In(slot.alarm, stopped')
        /\ \A x : In(x, stopped) => In(x, stopped')
    BY <2>1, <2>2, InAppend
  <2> QED
    BY <2>1, <2>2, <2>3
<1>2. CASE slot.alarm \notin as
  BY <1>2, ZenonT(30) DEF StopIf, RingTyped, In
<1>3. slot.alarm \in as => slot # NoFiring
  BY FiringFields, ZenonT(30)
<1> QED
  BY <1>1, <1>2, <1>3, ZenonT(30)

RInv == RingTyped /\ StopFollows

\* The steps that end no Stop, and begin none but for what they withdraw.
LEMMA StopsKept ==
  ASSUME StopFollows, slipped \subseteq slipped', commander' = commander,
         \A a \in Alarm \ slipped' : active'[a] = NoJob =>
           \/ StopComes(a)'
           \/ /\ active[a] = NoJob
              /\ pending'[a] # 0 => pending[a] # 0
              /\ StopComes(a) => StopComes(a)'
              /\ slot'.alarm = a => slot.alarm = a
  PROVE  StopFollows'
BY DEF StopFollows

LEMMA RingKept ==
  ASSUME RInv, UNCHANGED <<pending, sleepers, queue, slot, ringer, slipped, commands, stopped, commander>>,
         spent' \subseteq spent,
         \A a \in Alarm : active'[a] = NoJob => active[a] = NoJob
  PROVE  RInv'
<1>1. RingTyped'
  BY DEF RInv, RingTyped
<1>2. StopFollows'
  BY DEF RInv, StopFollows, StopComes
<1> QED
  BY <1>1, <1>2 DEF RInv

LEMMA JobDueRings ==
  ASSUME ControlTyped, RInv, JobDue
  PROVE  RInv'
<1>0. UNCHANGED <<pending, sleepers, slot, ringer, slipped, commands, stopped, commander, spent, active>>
  BY DEF JobDue, snoozeVars, busVars, controlVars
<1>1. PICK j \in jobs : queue' = Append(queue, Firing(j[2], 0))
  BY DEF JobDue
<1>2. queue' \in Seq(Firings)
  <2>1. j[2] \in Alarm
    BY DEF ControlTyped, Known
  <2> QED
    BY <1>1, <2>1, FiringFields, AppendProperties DEF RInv, RingTyped
<1>3. RingTyped'
  BY <1>0, <1>2 DEF RInv, RingTyped
<1>4. StopFollows'
  BY <1>0, StopsKept DEF RInv, StopComes
<1> QED
  BY <1>3, <1>4 DEF RInv

LEMMA ReceiveRings ==
  ASSUME RInv, Receive
  PROVE  RInv'
<1>0. UNCHANGED <<pending, sleepers, slot, slipped, commands, stopped, commander, spent, active>>
  BY DEF Receive, snoozeVars, busVars, controlVars
<1>1. Head(queue) \in Firings /\ queue' \in Seq(Firings)
  BY HeadTailProperties DEF Receive, RInv, RingTyped
<1>2. ringer' \in Handling({"checked", "fill"})
  BY <1>1 DEF Receive, Handling
<1>3. RingTyped'
  BY <1>0, <1>1, <1>2 DEF RInv, RingTyped
<1>4. StopFollows'
  BY <1>0, StopsKept DEF RInv, StopComes
<1> QED
  BY <1>3, <1>4 DEF RInv

LEMMA CancelCurrentRings ==
  ASSUME RInv, CancelCurrent
  PROVE  RInv'
<1>0. UNCHANGED <<pending, sleepers, queue, slipped, commands, commander, active>>
  BY DEF CancelCurrent, snoozeVars, controlVars
<1>1. slot' \in {NoFiring, slot} /\ stopped' \in Seq(Alarm) /\ spent' \subseteq OneShot
  BY StopIfFacts DEF CancelCurrent, RInv
<1>2. ringer' \in Handling({"checked", "fill"})
  <2>1. ringer \in [pc : {"checked", "fill"}, f : Firings]
    BY FiringFields DEF CancelCurrent, RInv, RingTyped, Handling
  <2> QED
    BY <2>1 DEF CancelCurrent, Handling
<1>3. RingTyped'
  BY <1>0, <1>1, <1>2 DEF RInv, RingTyped
<1>4. StopFollows'
  BY <1>0, <1>1, FiringFields, StopsKept DEF RInv, StopComes
<1> QED
  BY <1>3, <1>4 DEF RInv

LEMMA RingRings ==
  ASSUME RInv, Ring
  PROVE  RInv'
<1>0. UNCHANGED <<pending, sleepers, queue, commands, commander, stopped, spent, active>>
  BY DEF Ring, snoozeVars, busVars, controlVars
<1>1. slot' \in Firings /\ slot' = ringer.f
  BY DEF Ring, RInv, RingTyped, Handling, Resting
<1>2. ringer' \in Handling({"checked", "fill"})
  BY DEF Ring, Handling
<1>3. RingTyped'
  BY <1>0, <1>1, <1>2 DEF RInv, RingTyped
<1>4. slipped \subseteq slipped' /\ (active[slot'.alarm] = NoJob => slot'.alarm \in slipped')
  BY <1>1 DEF Ring
<1>5. StopFollows'
  BY <1>0, <1>4, StopsKept DEF RInv, StopComes
<1> QED
  BY <1>3, <1>5 DEF RInv

LEMMA TimesOutRings ==
  ASSUME RInv, TimesOut
  PROVE  RInv'
<1>0. UNCHANGED <<pending, sleepers, queue, ringer, slipped, commands, commander, active>>
  BY DEF TimesOut, snoozeVars, controlVars
<1>1. {slot.alarm} \in SUBSET Alarm
  BY DEF TimesOut, RInv, RingTyped, Firings
<1>2. slot' \in {NoFiring, slot} /\ stopped' \in Seq(Alarm) /\ spent' \subseteq OneShot
  BY <1>1, StopIfFacts DEF TimesOut, RInv
<1>3. RingTyped'
  BY <1>0, <1>2 DEF RInv, RingTyped
<1>4. StopFollows'
  BY <1>0, <1>2, FiringFields, StopsKept DEF RInv, StopComes
<1> QED
  BY <1>3, <1>4 DEF RInv

LEMMA TapRings ==
  ASSUME RInv, Tap
  PROVE  RInv'
<1>0. UNCHANGED <<pending, sleepers, queue, slot, ringer, slipped, stopped, commander, spent, active>>
  BY DEF Tap, snoozeVars, handleVars, controlVars
<1>1. PICK kind \in {"stopCurrent", "snooze"} : commands' = Append(commands, Cmd(kind, None))
  BY DEF Tap
<1>2. commands' \in Seq(Commands) /\ \A x : In(x, commands) => In(x, commands')
  BY <1>1, FiringFields, InAppend DEF RInv, RingTyped
<1>3. RingTyped'
  BY <1>0, <1>2 DEF RInv, RingTyped
<1>4. \A a \in Alarm : StopComes(a) => StopComes(a)'
  BY <1>2, ZenonT(30) DEF StopComes, Cmd, In
<1>5. StopFollows'
  BY <1>0, <1>4, StopsKept DEF RInv
<1> QED
  BY <1>3, <1>5 DEF RInv

LEMMA CommandFacts ==
  ASSUME RInv, NEW kind, Command(kind)
  PROVE  /\ commander = Resting /\ commander.pc = "idle"
         /\ Head(commands) \in Commands /\ commands' \in Seq(Commands)
         /\ \A a \in Alarm : StopComes(a) /\ Head(commands) # Cmd("stop", a) => StopComes(a)'
<1>1. /\ commands \in Seq(Commands) /\ commands # <<>> /\ commands' = Tail(commands)
      /\ commander = Resting
  BY DEF Command, RInv, RingTyped
<1>2. /\ Head(commands) \in Commands /\ commands' \in Seq(Commands)
      /\ \A x : In(x, commands) /\ x # Head(commands) => In(x, commands')
  BY <1>1, InTail
<1>3. \A a \in Alarm : StopComes(a) /\ Head(commands) # Cmd("stop", a) => StopComes(a)'
  BY <1>2 DEF StopComes, Cmd
<1> QED
  BY <1>1, <1>2, <1>3, FiringFields

LEMMA StopCurrentRings ==
  ASSUME RInv, StopCurrent
  PROVE  RInv'
<1>0. UNCHANGED <<pending, sleepers, queue, ringer, slipped, commander, active>> /\ Command("stopCurrent")
  BY DEF StopCurrent, snoozeVars, controlVars
<1>1. slot' \in {NoFiring, slot} /\ stopped' \in Seq(Alarm) /\ spent' \subseteq OneShot
  BY StopIfFacts DEF StopCurrent, RInv
<1>2. commands' \in Seq(Commands) /\ \A a \in Alarm : StopComes(a) => StopComes(a)'
  <2>1. \A a : Head(commands) # Cmd("stop", a)
    BY <1>0, FiringFields DEF Command
  <2> QED
    BY <1>0, <2>1, CommandFacts
<1>3. RingTyped'
  BY <1>0, <1>1, <1>2 DEF RInv, RingTyped
<1>4. \A a \in Alarm : slot'.alarm = a => slot.alarm = a
  BY <1>1, FiringFields
<1>5. StopFollows'
  BY <1>0, <1>2, <1>4, StopsKept DEF RInv
<1> QED
  BY <1>3, <1>5 DEF RInv

LEMMA DropSnoozeFacts ==
  ASSUME RingTyped, NEW a \in Alarm, DropSnooze(a)
  PROVE  /\ pending' \in [Alarm -> Nat] /\ pending'[a] = 0
         /\ \A b \in Alarm : pending'[b] # 0 => pending[b] # 0
         /\ sleepers' \subseteq Sleepers /\ IsFiniteSet(sleepers')
<1>1. sleepers' \subseteq sleepers
  BY DEF DropSnooze
<1>2. IsFiniteSet(sleepers')
  BY <1>1, FS_Subset DEF RingTyped
<1> QED
  BY <1>1, <1>2 DEF DropSnooze, RingTyped

LEMMA StopRings ==
  ASSUME RInv, Stop
  PROVE  RInv'
<1>0. UNCHANGED <<queue, slot, ringer, slipped, stopped, spent, active>> /\ Command("stop")
  BY DEF Stop, handleVars, controlVars
<1>1. /\ Head(commands) \in Commands /\ commands' \in Seq(Commands)
      /\ \A b \in Alarm : StopComes(b) /\ Head(commands) # Cmd("stop", b) => StopComes(b)'
      /\ commander.pc = "idle"
  BY <1>0, CommandFacts
<1>2. PICK a \in Alarm : Head(commands).alarm = a /\ Head(commands) = Cmd("stop", a)
  BY <1>0, <1>1 DEF Commands, Cmd, Command
<1>3. /\ pending' \in [Alarm -> Nat] /\ pending'[a] = 0
      /\ \A b \in Alarm : pending'[b] # 0 => pending[b] # 0
      /\ sleepers' \subseteq Sleepers /\ IsFiniteSet(sleepers')
  BY <1>2, DropSnoozeFacts DEF Stop, RInv
<1>4. /\ commander' \in Handling({"stop", "snooze"})
      /\ commander'.pc = "stop" /\ commander'.f.alarm = a
  <2>1. commander' = [pc |-> "stop", f |-> Firing(a, 0)] /\ Firing(a, 0) \in Firings /\ Firing(a, 0).alarm = a
    BY <1>2, FiringFields DEF Stop
  <2> QED
    BY <2>1 DEF Handling
<1>5. RingTyped'
  BY <1>0, <1>1, <1>3, <1>4 DEF RInv, RingTyped
<1>6. \A b \in Alarm \ {a} : StopComes(b) => StopComes(b)'
  BY <1>1, <1>2, FiringFields
<1>7. StopFollows'
  BY <1>0, <1>1, <1>3, <1>4, <1>6 DEF RInv, StopFollows
<1> QED
  BY <1>5, <1>7 DEF RInv

LEMMA StopRingingRings ==
  ASSUME RInv, StopRinging
  PROVE  RInv'
<1>0. /\ UNCHANGED <<pending, sleepers, commands, queue, ringer, slipped, active>>
      /\ commander' = Resting /\ commander.pc = "stop"
  BY DEF StopRinging, snoozeVars, controlVars
<1>1. {commander.f.alarm} \in SUBSET Alarm
  BY <1>0, FiringFields, ZenonT(30) DEF RInv, RingTyped, Handling, Firings
<1>2. /\ slot' \in {NoFiring, slot} /\ (slot.alarm \in {commander.f.alarm} => slot' = NoFiring)
      /\ stopped' \in Seq(Alarm) /\ spent' \subseteq OneShot
  BY <1>1, StopIfFacts DEF StopRinging, RInv
<1>3. RingTyped'
  BY <1>0, <1>2 DEF RInv, RingTyped, Handling
<1>4. \A b \in Alarm : StopComes(b) => StopComes(b)'
  BY <1>0 DEF StopComes
<1>5. Resting.pc = "idle" /\ \A b \in Alarm : slot'.alarm = b => slot.alarm = b /\ b # commander.f.alarm
  BY <1>2, FiringFields
<1>6. StopFollows'
  BY <1>0, <1>4, <1>5 DEF RInv, StopFollows
<1> QED
  BY <1>3, <1>6 DEF RInv

LEMMA SnoozeRings ==
  ASSUME RInv, Snooze
  PROVE  RInv'
<1>0. UNCHANGED <<pending, sleepers, queue, ringer, slipped, stopped, spent, active>> /\ Command("snooze")
  BY DEF Snooze, snoozeVars, controlVars
<1>1. /\ commands' \in Seq(Commands) /\ commander.pc = "idle"
      /\ \A a \in Alarm : StopComes(a) => StopComes(a)'
  <2>1. \A a : Head(commands) # Cmd("stop", a)
    BY <1>0, FiringFields DEF Command
  <2> QED
    BY <1>0, <2>1, CommandFacts
<1>2. CASE slot \in Firings /\ commander' = [pc |-> "snooze", f |-> slot] /\ slot' = NoFiring
  <2>1. /\ commander' \in Handling({"stop", "snooze"}) /\ commander'.pc = "snooze"
        /\ commander'.f = slot
    BY <1>2 DEF Handling
  <2>2. RingTyped'
    BY <1>0, <1>1, <1>2, <2>1 DEF RInv, RingTyped
  <2>3. StopFollows'
    BY <1>0, <1>1, <1>2, <2>1, FiringFields DEF RInv, StopFollows
  <2> QED
    BY <2>2, <2>3 DEF RInv
<1>3. CASE UNCHANGED <<commander, slot>>
  <2>1. RingTyped'
    BY <1>0, <1>1, <1>3 DEF RInv, RingTyped
  <2>2. StopFollows'
    BY <1>0, <1>1, <1>3, StopsKept DEF RInv
  <2> QED
    BY <2>1, <2>2 DEF RInv
<1> QED
  BY <1>2, <1>3 DEF Snooze, RInv, RingTyped

LEMMA RegisterRings ==
  ASSUME RInv, Register
  PROVE  RInv'
<1>0. UNCHANGED <<queue, slot, ringer, slipped, commands, stopped, spent, active>>
  BY DEF Register, handleVars, controlVars
<1>1. commander \in [pc : {"stop", "snooze"}, f : Firings] /\ commander.pc = "snooze" /\ commander' = Resting
  BY FiringFields DEF Register, RInv, RingTyped, Handling
<1>2. PICK a \in Alarm : a = commander.f.alarm
  BY <1>1 DEF Firings
<1> DEFINE n == FreshSleeper
           s == [id |-> n, alarm |-> a, snoozes |-> commander.f.snoozes + 1, st |-> "asleep"]
<1>3. n \in Nat /\ pending' = [pending EXCEPT ![a] = n] /\ sleepers' = (sleepers \ Asleep(a)) \cup {s}
  BY <1>2, FreshSleeperTyped DEF RInv, Register
<1> HIDE DEF n
<1>4. s \in Sleepers
  BY <1>1, <1>3 DEF Sleepers, Firings
<1> HIDE DEF s
<1>5. sleepers' \subseteq Sleepers /\ IsFiniteSet(sleepers')
  <2>1. IsFiniteSet(sleepers \ Asleep(a))
    BY FS_Difference, ZenonT(30) DEF RInv, RingTyped
  <2> QED
    BY <1>3, <1>4, <2>1, FS_AddElement, ZenonT(30) DEF RInv, RingTyped
<1>6. pending' \in [Alarm -> Nat] /\ \A b \in Alarm \ {a} : pending'[b] = pending[b]
  BY <1>3 DEF RInv, RingTyped
<1>7. RingTyped'
  BY <1>0, <1>1, <1>5, <1>6 DEF RInv, RingTyped, Handling
<1>8. \A b \in Alarm : StopComes(b) => StopComes(b)'
  BY <1>0 DEF StopComes
<1>9. StopFollows'
  BY <1>0, <1>1, <1>2, <1>6, <1>8, FiringFields DEF RInv, StopFollows
<1> QED
  BY <1>7, <1>9 DEF RInv

LEMMA WokenRings ==
  ASSUME RInv, Wake \/ ClearEntry
  PROVE  RInv'
<1>0. UNCHANGED <<queue, slot, ringer, slipped, commands, stopped, commander, spent, active>>
  BY DEF Wake, ClearEntry, Woken, handleVars, busVars, controlVars
<1>1. PICK to \in {"awake", "cleared"} : \E s \in sleepers :
        /\ sleepers' = (sleepers \ {s}) \cup {[s EXCEPT !.st = to]}
        /\ pending' = IF to = "cleared" THEN [pending EXCEPT ![s.alarm] = 0] ELSE pending
  BY DEF Wake, ClearEntry, Woken
<1>2. PICK s \in sleepers :
        /\ sleepers' = (sleepers \ {s}) \cup {[s EXCEPT !.st = to]}
        /\ pending' = IF to = "cleared" THEN [pending EXCEPT ![s.alarm] = 0] ELSE pending
  BY <1>1, ZenonT(30)
<1> DEFINE t == [s EXCEPT !.st = to]
<1>3. t \in Sleepers /\ s.alarm \in Alarm
  BY ZenonT(30) DEF RInv, RingTyped, Sleepers
<1> HIDE DEF t
<1>4. sleepers' \subseteq Sleepers /\ IsFiniteSet(sleepers')
  <2>1. IsFiniteSet(sleepers \ {s})
    BY FS_RemoveElement DEF RInv, RingTyped
  <2> QED
    BY <1>2, <1>3, <2>1, FS_AddElement, ZenonT(30) DEF RInv, RingTyped, t
<1>5. pending' \in [Alarm -> Nat] /\ \A b \in Alarm : pending'[b] # 0 => pending[b] # 0
  BY <1>2, <1>3 DEF RInv, RingTyped
<1>6. RingTyped'
  BY <1>0, <1>4, <1>5 DEF RInv, RingTyped
<1>7. StopFollows'
  BY <1>0, <1>5, StopsKept DEF RInv, StopComes
<1> QED
  BY <1>6, <1>7 DEF RInv

LEMMA RefireRings ==
  ASSUME RInv, Refire
  PROVE  RInv'
<1>0. UNCHANGED <<pending, slot, ringer, slipped, commands, stopped, commander, spent, active>>
  BY DEF Refire, busVars, controlVars
<1>1. PICK s \in sleepers : sleepers' = sleepers \ {s} /\ queue' = Append(queue, Firing(s.alarm, s.snoozes))
  BY DEF Refire
<1>2. Firing(s.alarm, s.snoozes) \in Firings
  BY FiringFields DEF RInv, RingTyped, Sleepers
<1>3. queue' \in Seq(Firings)
  BY <1>1, <1>2, AppendProperties DEF RInv, RingTyped
<1>4. sleepers' \subseteq Sleepers /\ IsFiniteSet(sleepers')
  BY <1>1, FS_RemoveElement DEF RInv, RingTyped
<1>5. RingTyped'
  BY <1>0, <1>3, <1>4 DEF RInv, RingTyped
<1>6. StopFollows'
  BY <1>0, StopsKept DEF RInv, StopComes
<1> QED
  BY <1>5, <1>6 DEF RInv

LEMMA DelistRings ==
  ASSUME CInv, RInv, Delist
  PROVE  RInv'
<1>0. /\ UNCHANGED <<pending, sleepers, queue, slot, ringer, slipped, stopped, commander, spent>>
      /\ op.alarm \in Alarm /\ active \in [Alarm -> Nat]
  BY OpFields DEF Delist, Aside, snoozeVars, handleVars, CInv, ControlTyped
<1> PICK a \in Alarm : a = op.alarm
  BY <1>0
<1>1. /\ commands' = IF active[a] = NoJob THEN commands ELSE Append(commands, Cmd("stop", a))
      /\ \A b \in Alarm \ {a} : active'[b] = active[b]
  BY <1>0 DEF Delist
<1>2. /\ commands' \in Seq(Commands) /\ \A x : In(x, commands) => In(x, commands')
      /\ active[a] # NoJob => In(Cmd("stop", a), commands')
  BY <1>1, FiringFields, InAppend DEF RInv, RingTyped
<1>3. RingTyped'
  BY <1>0, <1>2 DEF RInv, RingTyped
<1>4. (\A b \in Alarm : StopComes(b) => StopComes(b)') /\ (active[a] # NoJob => StopComes(a)')
  BY <1>2 DEF StopComes, Cmd
<1>5. StopFollows'
  BY <1>0, <1>1, <1>4, StopsKept DEF RInv
<1> QED
  BY <1>3, <1>5 DEF RInv

LEMMA DropRings ==
  ASSUME CInv, RInv, Drop
  PROVE  RInv'
<1>0. /\ UNCHANGED <<queue, slot, ringer, slipped, commands, stopped, commander, spent, active>>
      /\ op.alarm \in Alarm
  BY OpFields DEF Drop, Aside, handleVars, CInv, ControlTyped
<1>1. /\ pending' \in [Alarm -> Nat] /\ (\A b \in Alarm : pending'[b] # 0 => pending[b] # 0)
      /\ sleepers' \subseteq Sleepers /\ IsFiniteSet(sleepers')
  BY <1>0, DropSnoozeFacts DEF Drop, RInv
<1>2. RingTyped'
  BY <1>0, <1>1 DEF RInv, RingTyped
<1>3. StopFollows'
  BY <1>0, <1>1, StopsKept DEF RInv, StopComes
<1> QED
  BY <1>2, <1>3 DEF RInv

LEMMA SwitchOffRings ==
  ASSUME RInv, SwitchOff
  PROVE  RInv'
<1>0. UNCHANGED <<pending, sleepers, queue, slot, ringer, slipped, commands, commander, spent, active>>
  BY DEF SwitchOff, snoozeVars, handleVars
<1>1. stopped' \in Seq(Alarm)
  BY HeadTailProperties DEF SwitchOff, RInv, RingTyped
<1>2. RingTyped'
  BY <1>0, <1>1 DEF RInv, RingTyped
<1>3. StopFollows'
  BY <1>0, StopsKept DEF RInv, StopComes
<1> QED
  BY <1>2, <1>3 DEF RInv

LEMMA ControllerRings ==
  ASSUME CInv, RInv,
         Edit \/ Cancel \/ ScheduleAlarm \/ Enlist \/ Save \/ HangUp \/ ZoneChange \/ ZoneListener
  PROVE  RInv'
<1>1. /\ UNCHANGED <<pending, sleepers, queue, slot, ringer, slipped, commands, stopped, commander>>
      /\ spent' \subseteq spent
  BY ZenonT(30) DEF Edit, Cancel, ScheduleAlarm, Enlist, Save, HangUp, ZoneChange, ZoneListener, Aside, snoozeVars,
         handleVars, busVars
<1>2. \A a \in Alarm : active'[a] = NoJob => active[a] = NoJob
  <2>1. CASE Enlist
    <3>1. op.job # NoJob /\ active' = [active EXCEPT ![op.alarm] = op.job] /\ active \in [Alarm -> Nat]
      BY <2>1 DEF Enlist, CInv, ScheduleFollows, ControlTyped
    <3> QED
      BY <3>1
  <2>2. CASE UNCHANGED active
    BY <2>2
  <2> QED
    BY <2>1, <2>2, ZenonT(30) DEF Edit, Cancel, ScheduleAlarm, Save, HangUp, ZoneChange, ZoneListener, controlVars
<1> QED
  BY <1>1, <1>2, RingKept

-----------------------------------------------------------------------------
(* One-shot alarms.                                                        *)

LEMMA SpentKept ==
  ASSUME SpentFollows, UNCHANGED <<config, op, torn>>,
         \A x : In(x, stopped) => In(x, stopped'), \A x \in spent' \ spent : In(x, stopped')
  PROVE  SpentFollows'
BY DEF SpentFollows, Announced

LEMMA StopIfSpends ==
  ASSUME RingTyped, SpentFollows, NEW as \in SUBSET Alarm, StopIf(as), UNCHANGED controlVars
  PROVE  SpentFollows'
<1>1. UNCHANGED <<config, op, torn>>
  BY DEF controlVars
<1> QED
  BY <1>1, StopIfFacts, SpentKept, ZenonT(30)

LEMMA RingingSpends ==
  ASSUME RInv, SpentFollows, CancelCurrent \/ TimesOut \/ StopCurrent \/ StopRinging
  PROVE  SpentFollows'
<1>1. CASE CancelCurrent \/ StopCurrent
  BY <1>1, StopIfSpends DEF RInv, CancelCurrent, StopCurrent
<1>2. CASE TimesOut
  <2>1. {slot.alarm} \in SUBSET Alarm
    BY <1>2 DEF TimesOut, RInv, RingTyped, Firings
  <2> QED
    BY <1>2, <2>1, StopIfSpends DEF RInv, TimesOut
<1>3. CASE StopRinging
  <2>1. {commander.f.alarm} \in SUBSET Alarm
    BY <1>3, FiringFields DEF StopRinging, RInv, RingTyped, Handling, Firings
  <2> QED
    BY <1>3, <2>1, StopIfSpends DEF RInv, StopRinging
<1> QED
  BY <1>1, <1>2, <1>3

LEMMA OpSpends ==
  ASSUME SpentFollows, UNCHANGED <<spent, stopped>>, torn \subseteq torn',
         op.pc # "idle", NEW a, a = op.alarm,
         op'.pc = "idle" \/ (op'.alarm = a /\ op'.want = op.want /\ op'.client = op.client),
         \A b \in spent \ {a} : config'[b] = config[b],
         a \in spent /\ a \notin torn' /\ config'[a] = "on" =>
           Announced(a) \/ (op'.pc # "idle" /\ op'.want # "on")
  PROVE  SpentFollows'
<1>1. \A b : Announced(b)' <=> Announced(b)
  BY DEF Announced
<1> QED
  BY <1>1 DEF SpentFollows

LEMMA ControllerSpends ==
  ASSUME CInv, RInv, SpentFollows, Controller
  PROVE  SpentFollows'
<1>0. /\ op \in Ops /\ op.pc # "idle" /\ op.alarm \in Alarm /\ op.ends \in BOOLEAN
      /\ op.want \in {"gone", "off", "on"} /\ spent \subseteq Alarm
      /\ UNCHANGED <<spent, stopped>> /\ op.job \in Nat /\ op.client \in BOOLEAN
      /\ config \in [Alarm -> {"new", "gone", "off", "on"}] /\ torn \subseteq Alarm
  BY OpFields, AlarmAssumption, ZenonT(30)
     DEF CInv, ControlTyped, RInv, RingTyped, Controller, Delist, Cancel, Drop, ScheduleAlarm, Enlist, Save, Aside
<1> PICK a \in Alarm : a = op.alarm
  BY <1>0
<1>1. /\ a \in spent /\ a \notin torn /\ config[a] = "on" => Announced(a) \/ op.want # "on"
      /\ a \in spent /\ op.want = "on" => Announced(a)
      /\ a \notin torn /\ op.ends => config[a] # "on"
  <2>1. a \notin torn => OpFollows(a)
    BY <1>0 DEF CInv, ScheduleFollows
  <2> QED
    BY <1>0, <2>1 DEF SpentFollows, OpFollows
<1>2. CASE Delist \/ Cancel \/ Enlist
  <2>1. /\ op'.pc # "idle" /\ op'.alarm = a /\ op'.want = op.want /\ op'.client = op.client
        /\ torn \subseteq torn' /\ config' = config
    BY <1>0, <1>2, ZenonT(30)
       DEF Delist, Cancel, Enlist, OpTo, Fault, NoFault, Ops, OpPcs, NoOp
  <2> QED
    BY <1>0, <1>1, <2>1, OpSpends
<1>3. CASE Drop
  <2>1. /\ torn' = torn /\ config' = config
        /\ \/ op.ends /\ op'.pc = "idle"
           \/ op'.pc # "idle" /\ op'.alarm = a /\ op'.want = op.want /\ op'.client = op.client
    BY <1>0, <1>3 DEF Drop, OpTo, AfterRemoval, NoFault, Ops, OpPcs, NoOp
  <2> QED
    BY <1>0, <1>1, <2>1, OpSpends
<1>4. CASE ScheduleAlarm
  <2>1. /\ torn \subseteq torn' /\ config' = config /\ op.want = "on"
        /\ op'.pc = "idle" \/ (op'.alarm = a /\ op'.want = op.want /\ op'.client = op.client)
    <3>1. op.want = "on" /\ config' = config
      BY <1>4 DEF ScheduleAlarm, CInv, ScheduleFollows
    <3>2. CASE op' = NoOp /\ (Fault(config[op.alarm] = "on") \/ Fault(TRUE))
      BY <3>1, <3>2 DEF Fault, NoOp
    <3>3. CASE NoFault /\ \E job : op' = [op EXCEPT !.pc = "enlist", !.job = job]
      BY <1>0, <3>1, <3>3 DEF NoFault, Ops, OpPcs, NoOp
    <3> QED
      BY <1>4, <3>2, <3>3, ZenonT(30) DEF ScheduleAlarm
  <2> QED
    BY <1>0, <1>1, <2>1, OpSpends
<1>5. CASE Save
  <2>1. CASE config' = [config EXCEPT ![op.alarm] = op.want] /\ op' = NoOp /\ NoFault
    <3>1. op'.pc = "idle" /\ config'[a] = op.want /\ torn' = torn /\ \A b \in Alarm \ {a} : config'[b] = config[b]
      BY <1>0, <2>1 DEF NoFault, NoOp
    <3> QED
      BY <1>0, <1>1, <3>1, OpSpends
  <2>2. CASE /\ UNCHANGED config /\ Fault(config[op.alarm] = "on")
             /\ op' = IF op.want = "gone" THEN NoOp ELSE [op EXCEPT !.pc = "delist", !.ends = TRUE]
    <3>1. torn \subseteq torn' /\ (config[a] = "on" => a \in torn') /\ config' = config
      BY <1>0, <2>2 DEF Fault
    <3>2. op'.pc = "idle" \/ (op'.alarm = a /\ op'.want = op.want /\ op'.client = op.client)
      BY <1>0, <2>2, ZenonT(30) DEF Ops, OpPcs, NoOp
    <3> QED
      BY <1>0, <1>1, <3>1, <3>2, OpSpends
  <2> QED
    BY <1>5, <2>1, <2>2 DEF Save
<1> QED
  BY <1>2, <1>3, <1>4, <1>5 DEF Controller

LEMMA HangUpSpends ==
  ASSUME CInv, RInv, SpentFollows, HangUp
  PROVE  SpentFollows'
<1>0. /\ op \in Ops /\ op.pc # "idle" /\ op.client /\ UNCHANGED <<spent, stopped, config>>
      /\ op'.pc = "idle" /\ torn \subseteq torn'
  BY OpFields DEF CInv, ControlTyped, HangUp, Aside, Fault, NoOp
<1>1. op.alarm \in spent => Announced(op.alarm)
  BY <1>0 DEF SpentFollows
<1> QED
  BY <1>0, <1>1, OpSpends

LEMMA EditFacts ==
  ASSUME CInv, Edit
  PROVE  \E a \in Alarm :
           /\ CInv' /\ op = NoOp /\ op'.alarm = a /\ spent' = spent \ {a}
           /\ UNCHANGED <<config, torn, stopped>>
<1>0. UNCHANGED <<schedulerVars, config, active, torn, stopped>>
  BY DEF Edit
<1>1. PICK a \in Alarm :
        /\ \/ \E want \in {"off", "on"} :
                AddAlarm(a, want) \/ SetAlarm(a, want) \/ SetEnabled(a, want, TRUE)
           \/ RemoveAlarm(a)
        /\ spent' = spent \ {a}
  BY ZenonT(30) DEF Edit
<1>2. PICK pc \in {"delist", "schedule", "save"}, want \in {"gone", "off", "on"} :
        /\ Begins(pc, a, want, TRUE)
        /\ pc \in {"schedule", "save"} => config[a] = "new" /\ pc = AfterRemoval(want)
  BY <1>1, ZenonT(30) DEF AddAlarm, SetAlarm, SetEnabled, RemoveAlarm, AfterRemoval
<1>3. CInv'
  BY <1>0, <1>2, BeginsSafe, ZenonT(30)
<1> QED
  BY <1>0, <1>1, <1>2, <1>3 DEF Begins

LEMMA EditSpends ==
  ASSUME CInv, SpentFollows, Edit
  PROVE  SpentFollows'
<1>1. PICK a \in Alarm :
        /\ op = NoOp /\ op'.alarm = a /\ spent' = spent \ {a} /\ UNCHANGED <<config, torn, stopped>>
  BY EditFacts
<1>2. op.pc = "idle" /\ \A b : Announced(b)' <=> Announced(b)
  BY <1>1 DEF NoOp, Announced
<1> QED
  BY <1>1, <1>2 DEF SpentFollows

LEMMA SwitchOffSafe ==
  ASSUME CInv, RInv, SpentFollows, SwitchOff
  PROVE  CInv' /\ SpentFollows'
<1>0. /\ UNCHANGED <<schedulerVars, config, active, torn, spent>> /\ op = NoOp /\ op.pc = "idle"
      /\ stopped \in Seq(Alarm) /\ stopped # <<>> /\ stopped' = Tail(stopped) /\ spent \subseteq OneShot
  BY DEF SwitchOff, RInv, RingTyped, NoOp
<1>1. Head(stopped) \in Alarm /\ \A x : In(x, stopped) /\ x # Head(stopped) => In(x, stopped')
  BY <1>0, InTail
<1> PICK a \in Alarm : a = Head(stopped)
  BY <1>1
<1>2. \A b \in spent \ torn : config[b] = "on" => b = a \/ Announced(b)'
  BY <1>0, <1>1 DEF SpentFollows, Announced
<1>3. CASE a \in OneShot /\ Configured(a)
  <2>1. Begins("delist", a, "off", FALSE)
    BY <1>3, ZenonT(30) DEF SwitchOff, SetEnabled
  <2>2. CInv'
    BY <1>0, <2>1, BeginsSafe, ZenonT(30)
  <2>3. op'.pc # "idle" /\ op'.alarm = a /\ op'.want = "off" /\ op'.client = FALSE
    BY <2>1 DEF Begins
  <2>4. SpentFollows'
    BY <1>0, <1>2, <2>3 DEF SpentFollows
  <2> QED
    BY <2>2, <2>4
<1>4. CASE ~(a \in OneShot /\ Configured(a))
  <2>1. op' = op
    BY <1>4, ZenonT(30) DEF SwitchOff
  <2>2. CInv'
    BY <1>0, <2>1, ControlKept DEF controlVars
  <2>3. SpentFollows'
    BY <1>0, <1>2, <1>4, <2>1 DEF SpentFollows, Configured
  <2> QED
    BY <2>2, <2>3
<1> QED
  BY <1>3, <1>4

-----------------------------------------------------------------------------
(* The whole.                                                              *)

\* The jobs of the alarms that are scheduled when the controller starts, and of
\* those whose schedule failed after the job was added.
LEMMA InitJobs ==
  ASSUME Init
  PROVE  /\ IsFiniteSet(jobs) /\ jobs \subseteq (Nat \ {0}) \X Alarm /\ active \in [Alarm -> Nat]
         /\ \A j, k \in jobs : j[1] = k[1] => j = k
         /\ stored \subseteq jobs /\ \A j \in jobs \ stored : j[2] \in torn
         /\ \A j \in stored : j[1] = active[j[2]] /\ active[j[2]] # NoJob
         /\ \A a \in Alarm : active[a] # NoJob => <<active[a], a>> \in stored
<1> DEFINE ids == 1..Cardinality(Alarm)
<1>0. IsFiniteSet(Alarm) /\ Cardinality(Alarm) \in Nat
  BY AlarmAssumption, FS_CardinalityType
<1>1. /\ stored = {<<active[a], a>> : a \in {b \in Alarm : active[b] # NoJob}}
      /\ jobs \subseteq ids \X Alarm
      /\ stored \subseteq jobs /\ \A j \in jobs \ stored : j[2] \in torn
      /\ \A j, k \in jobs : j[1] = k[1] => j = k
      /\ active \in [Alarm -> 0..Cardinality(Alarm)]
  BY DEF Init
<1>2. active \in [Alarm -> Nat] /\ ids \subseteq Nat \ {0}
  BY <1>0, <1>1
<1>3. IsFiniteSet(jobs)
  <2>1. IsFiniteSet(ids)
    BY <1>0, FS_Interval
  <2> HIDE DEF ids
  <2>2. IsFiniteSet(ids \X Alarm)
    BY <1>0, <2>1, FS_Product
  <2> QED
    BY <1>1, <2>2, FS_Subset
<1>4. jobs \subseteq (Nat \ {0}) \X Alarm
  BY <1>1, <1>2
<1>5. /\ \A j \in stored : j[1] = active[j[2]] /\ active[j[2]] # NoJob
      /\ \A a \in Alarm : active[a] # NoJob => <<active[a], a>> \in stored
  BY <1>1
<1> QED
  BY <1>1, <1>2, <1>3, <1>4, <1>5

LEMMA InitSafe == Init => AInv
<1> SUFFICES ASSUME Init PROVE AInv
  OBVIOUS
<1>1. /\ IsFiniteSet(jobs) /\ jobs \subseteq (Nat \ {0}) \X Alarm /\ active \in [Alarm -> Nat]
      /\ \A j, k \in jobs : j[1] = k[1] => j = k
      /\ stored \subseteq jobs /\ \A j \in jobs \ stored : j[2] \in torn
      /\ \A j \in stored : j[1] = active[j[2]] /\ active[j[2]] # NoJob
      /\ \A a \in Alarm : active[a] # NoJob => <<active[a], a>> \in stored
  BY InitJobs
<1>2. /\ op = NoOp /\ op.pc = "idle" /\ relisted = {} /\ revived = {} /\ lost = {} /\ spent = {}
      /\ torn \subseteq Alarm
      /\ \A a \in Alarm : active[a] # NoJob <=> config[a] = "on" /\ a \notin torn
  BY DEF Init, NoOp
<1>3. Known = jobs /\ Returning = {}
  BY <1>1, <1>2 DEF Known, Returning
<1>4. ControlTyped
  <2>1. config \in [Alarm -> {"new", "gone", "off", "on"}]
    BY AlarmAssumption DEF Init
  <2> QED
    BY <1>1, <1>2, <1>3, <2>1 DEF ControlTyped, Ops
<1>5. JobsFollow
  <2>1. \A j \in jobs : \A a \in Alarm : active[a] = j[1] => j[2] = a
    <3> SUFFICES ASSUME NEW j \in jobs, NEW a \in Alarm, active[a] = j[1] PROVE j[2] = a
      OBVIOUS
    <3>1. active[a] # NoJob
      BY <1>1 DEF NoJob
    <3>2. PICK k \in jobs : k = <<active[a], a>>
      BY <1>1, <3>1, ZenonT(30)
    <3>3. k[1] = j[1] /\ k[2] = a
      BY <3>2
    <3> QED
      BY <1>1, <3>3
  <2> QED
    BY <1>1, <1>2, <1>3, <2>1 DEF JobsFollow, Holds
<1>6. ScheduleFollows
  <2>1. ASSUME NEW a \in Alarm \ torn PROVE JobsOf(a) = {active[a]} \ {NoJob}
    <3>1. \A j \in jobs : j[2] = a => j[1] = active[a] /\ active[a] # NoJob
      BY <1>1, <2>1
    <3>2. active[a] # NoJob => <<active[a], a>> \in jobs
      BY <1>1, <2>1
    <3>3. JobsOf(a) = {j[1] : j \in {k \in jobs : k[2] = a}}
      BY <1>2 DEF JobsOf
    <3> QED
      BY <3>1, <3>2, <3>3
  <2> QED
    BY <1>2, <2>1 DEF ScheduleFollows, Agrees
<1>7. RingTyped
  <2>1. <<>> \in Seq(Firings) /\ <<>> \in Seq(Commands) /\ <<>> \in Seq(Alarm)
    BY EmptySeq
  <2> QED
    BY <1>2, <2>1, FS_EmptySet DEF Init, RingTyped, Handling
<1>8. StopFollows
  BY FiringFields DEF Init, StopFollows
<1>9. SpentFollows
  BY <1>2 DEF SpentFollows
<1> QED
  BY <1>4, <1>5, <1>6, <1>7, <1>8, <1>9 DEF AInv

LEMMA NextSafe == AInv /\ [Next]_vars => AInv'
<1> SUFFICES ASSUME AInv, [Next]_vars PROVE AInv'
  OBVIOUS
<1>0. CInv /\ RInv /\ SpentFollows
  BY DEF AInv, CInv, RInv
<1>1. CASE \/ Receive \/ Ring \/ Stop \/ Snooze \/ Register \/ Wake \/ ClearEntry \/ Refire \/ JobDue \/ Tap
           \/ CancelCurrent \/ TimesOut \/ StopCurrent \/ StopRinging
  <2>1. UNCHANGED <<schedulerVars, controlVars>>
    BY <1>1 DEF Receive, Ring, Stop, Snooze, Register, Wake, ClearEntry, Woken, Refire, JobDue, Tap,
                CancelCurrent, TimesOut, StopCurrent, StopRinging
  <2>2. CInv'
    BY <1>0, <2>1, ControlKept
  <2>3. CASE CancelCurrent \/ TimesOut \/ StopCurrent \/ StopRinging
    <3>1. RInv' /\ SpentFollows'
      BY <1>0, <2>3, CancelCurrentRings, TimesOutRings, StopCurrentRings, StopRingingRings, RingingSpends
    <3> QED
      BY <2>2, <3>1 DEF AInv, CInv, RInv
  <2>4. CASE Receive \/ Ring \/ Stop \/ Snooze \/ Register \/ Wake \/ ClearEntry \/ Refire \/ JobDue \/ Tap
    <3>1. RInv'
      BY <1>0, <2>4, ReceiveRings, RingRings, StopRings, SnoozeRings, RegisterRings, WokenRings, RefireRings,
         JobDueRings, TapRings DEF CInv
    <3>2. UNCHANGED <<spent, stopped, config, op, torn>>
      BY <2>1, <2>4 DEF Receive, Ring, Stop, Snooze, Register, Wake, ClearEntry, Woken, Refire, JobDue, Tap,
                        busVars, controlVars
    <3>3. SpentFollows'
      BY <1>0, <3>2, SpentKept
    <3> QED
      BY <2>2, <3>1, <3>3 DEF AInv, CInv, RInv
  <2> QED
    BY <1>1, <2>3, <2>4
<1>2. CASE Controller
  <2>1. CInv'
    BY <1>0, <1>2, DelistSafe, CancelSafe, DropSafe, ScheduleAlarmSafe, EnlistSafe, SaveSafe DEF Controller
  <2>2. RInv'
    BY <1>0, <1>2, DelistRings, DropRings, ControllerRings DEF Controller
  <2>3. SpentFollows'
    BY <1>0, <1>2, ControllerSpends
  <2> QED
    BY <2>1, <2>2, <2>3 DEF AInv, CInv, RInv
<1>3. CASE SwitchOff
  BY <1>0, <1>3, SwitchOffSafe, SwitchOffRings DEF AInv, CInv, RInv
<1>4. CASE Edit
  BY <1>0, <1>4, EditFacts, EditSpends, ControllerRings DEF AInv, CInv, RInv
<1>5. CASE ZoneChange \/ ZoneListener
  <2>1. CInv' /\ RInv'
    BY <1>0, <1>5, ZonesSafe, ControllerRings
  <2>2. UNCHANGED <<spent, stopped, config, op, torn>>
    BY <1>5 DEF ZoneChange, ZoneListener, busVars, controlVars
  <2>3. SpentFollows'
    BY <1>0, <2>2, SpentKept
  <2> QED
    BY <2>1, <2>3 DEF AInv, CInv, RInv
<1>6. CASE HangUp
  BY <1>0, <1>6, HangUpSafe, ControllerRings, HangUpSpends DEF AInv, CInv, RInv
<1>7. CASE UNCHANGED vars
  <2>1. /\ UNCHANGED <<schedulerVars, controlVars>>
        /\ UNCHANGED <<pending, sleepers, queue, slot, ringer, slipped, commands, stopped, commander>>
        /\ UNCHANGED <<spent, active, config, op, torn>>
    BY <1>7 DEF vars, snoozeVars, handleVars, busVars, controlVars
  <2>2. CInv' /\ RInv' /\ SpentFollows'
    BY <1>0, <2>1, ControlKept, RingKept, SpentKept
  <2> QED
    BY <2>2 DEF AInv, CInv, RInv
<1> QED
  BY <1>1, <1>2, <1>3, <1>4, <1>5, <1>6, <1>7 DEF Next, AlarmHandle, CommandHandle, Sleeping

-----------------------------------------------------------------------------
\* The handles, the controller, clients that hang up and the timezone listener,
\* in any interleaving and with any failures, keep the inductive invariant.
THEOREM AlarmInvariant == Spec => []AInv
BY InitSafe, NextSafe, PTL DEF Spec

\* AlarmScheduler::remove and AlarmCmd::Stop: when the removal of an alarm and
\* its Stop have been carried out it neither rings nor waits to ring again,
\* unless the alarm handle had already checked it.
THEOREM RemovedAlarmIsSilent == Spec => []WithdrawnIsSilent
<1>1. AInv => WithdrawnIsSilent
  <2>1. Resting.pc = "idle"
    BY FiringFields
  <2>2. commands = <<>> => \A a : ~StopComes(a)
    BY InEmpty DEF StopComes
  <2>3. AInv => StopFollows /\ pending \in [Alarm -> Nat]
    BY DEF AInv, RingTyped
  <2> QED
    BY <2>1, <2>2, <2>3 DEF WithdrawnIsSilent, Quiet, StopFollows
<1> QED
  BY <1>1, AlarmInvariant, PTL

\* AlarmController: between operations exactly the alarms that are on have a
\* job, one each, the one active_alarms has, save for jobs the timezone listener
\* revived or lost and alarms that a failure or a client that hung up tore.
THEOREM ScheduleFollowsConfig == Spec => []ScheduleMatchesConfig
<1>1. AInv => ScheduleMatchesConfig
  <2> SUFFICES ASSUME AInv, op = NoOp PROVE \A a \in Alarm \ torn : Agrees(a)
    BY DEF ScheduleMatchesConfig, Agrees
  <2>1. op.pc = "idle"
    BY DEF NoOp
  <2> QED
    BY <2>1 DEF AInv, ScheduleFollows
<1> QED
  BY <1>1, AlarmInvariant, PTL

\* AlarmController::init: a one-shot alarm that rang to its end, whoever ended
\* it, is off once the listener has worked through the Stopped events.
THEOREM SpentAlarmIsOff == Spec => []OneShotIsSpent
<1>1. AInv => OneShotIsSpent
  <2>1. op = NoOp => op.pc = "idle"
    BY DEF NoOp
  <2> QED
    BY <2>1, InEmpty DEF AInv, OneShotIsSpent, SpentFollows, Announced
<1> QED
  BY <1>1, AlarmInvariant, PTL
=============================================================================
