---------------------------- MODULE JobScheduler ----------------------------
(***************************************************************************)
(* The table of cron jobs (bmc-scheduler/src/scheduler.rs), as its alarms  *)
(* use it: the library's table, that fires, and the copy of it in storage, *)
(* that jobs are listed from.  add_job fills both under the library's      *)
(* lock; cancel empties them under two locks in turn, and is one step here *)
(* as a listing in between finds what one before it found.  Cron           *)
(* arithmetic is left out: a job may come due at any time.  When the       *)
(* timezone changes, every job is removed and added again, from a list     *)
(* made before the locks are taken anew.                                   *)
(***************************************************************************)
EXTENDS Naturals, FiniteSets

VARIABLES
  jobs,      \* pairs of a job and the alarm it fires, in the library's table
  stored,    \* those of them in storage
  relisted,  \* what the timezone listener has listed, or {}
  revived,   \* history: jobs the listener added again after they were cancelled
  lost       \* history: jobs the listener removed and could not add again

schedulerVars == <<jobs, stored, relisted, revived, lost>>

NoJob == 0

\* A job id nobody has; the code draws random ones.
Known == jobs \cup stored \cup relisted \cup lost
FreshJob(used) ==
  LET ids == {j[1] : j \in Known} \cup used \cup {NoJob}
  IN  CHOOSE n \in 1..(Cardinality(ids) + 1) : n \notin ids

Without(table, id) == {j \in table : j[1] # id}

\* add_job and cancel, that may fail or be dropped before they get to storage.
AddJob(id, a, kept) ==
  /\ jobs' = jobs \cup {<<id, a>>}
  /\ stored' = IF kept THEN stored \cup {<<id, a>>} ELSE stored
  /\ UNCHANGED <<relisted, revived, lost>>

CancelJob(id, listed) ==
  /\ jobs' = Without(jobs, id)
  /\ stored' = IF listed THEN stored ELSE Without(stored, id)
  /\ lost' = Without(lost, id)
  /\ UNCHANGED <<relisted, revived>>

\* The listener sees a new timezone and lists the jobs.
ListJobs ==
  /\ relisted = {} /\ stored # {}
  /\ relisted' = stored
  /\ UNCHANGED <<jobs, stored, revived, lost>>

\* It replaces each by one in the new timezone.  Whether the library reports
\* the removal of a job that is gone, which keeps the job out, is left open;
\* an error after the removal leaves the job out as well.
Relist ==
  /\ relisted # {}
  /\ \E again \in SUBSET relisted : \E gone \in SUBSET (relisted \ again) :
       /\ jobs' = (jobs \ gone) \cup again
       /\ stored' = (stored \ gone) \cup again
       /\ revived' = (revived \cup (again \ jobs)) \ gone
       /\ lost' = lost \cup ((gone \cap jobs) \ revived)
  /\ relisted' = {}
=============================================================================
