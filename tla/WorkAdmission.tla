----------------------------- MODULE WorkAdmission -----------------------------
(***************************************************************************)
(* Admission to CPU work in one application process: slots for image       *)
(* processing with a bounded waiting room, and slots for hashing gallery   *)
(* passwords.  A request may be cancelled at every await, but the process  *)
(* or thread that works for it cannot: its slot must outlive the request.  *)
(*                                                                         *)
(* Data abstracted away.  A job is one call of the process pool; whether   *)
(* it ends with a result, an error or a killed worker makes no difference  *)
(* to admission.  The five seconds of a waiter are a flag it finds set.    *)
(***************************************************************************)
EXTENDS Integers, FiniteSets

CONSTANTS
  Uploads,     \* upload requests: a slot for the request, jobs inside it
  Previews,    \* preview tasks outside a request: a slot for the whole task
  Hashers,     \* requests that hash a gallery password
  Workers,     \* image_processing_workers
  MaxHashes    \* _MAX_CONCURRENT_HASHES

ASSUME WorkAssumption ==
  /\ IsFiniteSet(Uploads) /\ IsFiniteSet(Previews) /\ IsFiniteSet(Hashers)
  /\ Workers \in Int /\ MaxHashes \in Nat \ {0}

VARIABLES
  active,  \* _active
  queue,   \* _waiting
  task,    \* where a task is
  job,     \* its job in the process pool
  hashing, \* _running
  hash     \* the hashing requests and their threads

workVars == <<active, queue, task, job, hashing, hash>>

Tasks == Uploads \cup Previews
Limit == IF Workers > 1 THEN Workers ELSE 1

Places   == {"idle", "waiting", "overdue", "holding", "working", "stopping"}
Waiters  == {t \in Tasks : task[t] \in {"waiting", "overdue"}}
Holders  == {t \in Tasks : task[t] \in {"holding", "working", "stopping"}}
Jobs     == {t \in Tasks : job[t] = "running"}
Threads  == {h \in Hashers : hash[h].thread = "running"}

WorkTypeOK ==
  /\ active \in 0..Limit /\ queue \in 0..(2 * Limit)
  /\ task \in [Tasks -> Places]
  /\ job \in [Tasks -> {"none", "running", "over"}]
  /\ hashing \in 0..MaxHashes
  /\ hash \in [Hashers -> [caller : {"idle", "awaiting", "gone"}, thread : {"none", "queued", "running"}]]

WorkInit ==
  /\ active = 0 /\ queue = 0
  /\ task = [t \in Tasks |-> "idle"]
  /\ job = [t \in Tasks |-> "none"]
  /\ hashing = 0
  /\ hash = [h \in Hashers |-> [caller |-> "idle", thread |-> "none"]]

-----------------------------------------------------------------------------
(* image_processing_slot *)

TaskStep(t, from, to) ==
  /\ task[t] \in from
  /\ task' = [task EXCEPT ![t] = to]
  /\ UNCHANGED <<hashing, hash>>

\* Too many waiters: 503 to an upload, a preview stays as it is.
SlotAsked(t) ==
  /\ \/ active < Limit /\ TaskStep(t, {"idle"}, "holding") /\ active' = active + 1 /\ UNCHANGED queue
     \/ /\ active >= Limit /\ queue < 2 * Limit
        /\ TaskStep(t, {"idle"}, "waiting") /\ queue' = queue + 1 /\ UNCHANGED active
  /\ UNCHANGED job

WaitEnds(t) ==
  /\ TaskStep(t, {"waiting"}, "overdue")
  /\ UNCHANGED <<active, queue, job>>

\* A poll takes a free slot even after the deadline, and only then gives up.
WaiterPolls(t) ==
  /\ \/ active < Limit /\ TaskStep(t, {"waiting", "overdue"}, "holding") /\ active' = active + 1
     \/ active >= Limit /\ TaskStep(t, {"overdue"}, "idle") /\ UNCHANGED active
  /\ queue' = queue - 1
  /\ UNCHANGED job

WaiterCancelled(t) ==
  /\ TaskStep(t, {"waiting", "overdue"}, "idle")
  /\ queue' = queue - 1
  /\ UNCHANGED <<active, job>>

SlotReturned(t) ==
  /\ TaskStep(t, {"holding"}, "idle")
  /\ active' = active - 1
  /\ UNCHANGED <<queue, job>>

-----------------------------------------------------------------------------
(* run_in_pool, inside the slot its task already holds *)

JobScheduled(t) ==
  /\ TaskStep(t, {"holding"}, "working")
  /\ job' = [job EXCEPT ![t] = "running"]
  /\ UNCHANGED <<active, queue>>

\* A result, an error, a worker killed by the timeout or dead.
JobEnds(t) ==
  /\ job[t] = "running"
  /\ job' = [job EXCEPT ![t] = "over"]
  /\ UNCHANGED <<active, queue, task, hashing, hash>>

JobAnswered(t) ==
  /\ job[t] = "over"
  /\ TaskStep(t, {"working"}, "holding")
  /\ job' = [job EXCEPT ![t] = "none"]
  /\ UNCHANGED <<active, queue>>

(* Defect: a cancelled task gives its slot back while its job goes on. *)
JobAbandoned(t) ==
  /\ TaskStep(t, {"working"}, "idle")
  /\ active' = active - 1
  /\ UNCHANGED <<queue, job>>

\* A cancelled task goes on waiting for its job, cancelled again or not.
JobCancelled(t) ==
  /\ TaskStep(t, {"working", "stopping"}, "stopping")
  /\ UNCHANGED <<active, queue, job>>

(* Defect: the slot of a cancelled task is not given back. *)
JobStoppedKeepingSlot(t) ==
  /\ job[t] = "over"
  /\ TaskStep(t, {"stopping"}, "idle")
  /\ job' = [job EXCEPT ![t] = "none"]
  /\ UNCHANGED <<active, queue>>

JobStopped(t) ==
  /\ job[t] = "over"
  /\ TaskStep(t, {"stopping"}, "idle")
  /\ job' = [job EXCEPT ![t] = "none"]
  /\ active' = active - 1
  /\ UNCHANGED queue

-----------------------------------------------------------------------------
(* hash_gallery_password *)

HashStep(h, from, record) ==
  /\ hash[h] = from
  /\ hash' = [hash EXCEPT ![h] = record]
  /\ UNCHANGED <<active, queue, task, job>>

At(caller, thread) == [caller |-> caller, thread |-> thread]

\* With no capacity the request is refused and nothing changes.
HashAsked(h) ==
  /\ hashing < MaxHashes
  /\ HashStep(h, At("idle", "none"), At("awaiting", "queued"))
  /\ hashing' = hashing + 1

HashNotSubmitted(h) ==
  /\ HashStep(h, At("awaiting", "queued"), At("idle", "none"))
  /\ hashing' = hashing - 1

HashSubmitted(h) ==
  /\ HashStep(h, At("awaiting", "queued"), At("awaiting", "running"))
  /\ UNCHANGED hashing

HashCallerGone(h) ==
  /\ HashStep(h, At("awaiting", "running"), At("gone", "running"))
  /\ UNCHANGED hashing

\* The thread gives the slot back, whoever still waits for it.
HashFinished(h) ==
  /\ \E caller \in {"awaiting", "gone"} : HashStep(h, At(caller, "running"), At("idle", "none"))
  /\ hashing' = hashing - 1

-----------------------------------------------------------------------------
TaskRuns(t) ==
  \/ WaitEnds(t) \/ WaiterPolls(t) \/ JobAnswered(t) \/ JobStopped(t)

WorkNext ==
  \/ \E t \in Tasks :
       \/ TaskRuns(t) \/ SlotAsked(t) \/ SlotReturned(t) \/ WaiterCancelled(t)
       \/ JobScheduled(t) \/ JobEnds(t) \/ JobCancelled(t)
  \/ \E h \in Hashers :
       HashAsked(h) \/ HashNotSubmitted(h) \/ HashSubmitted(h) \/ HashCallerGone(h) \/ HashFinished(h)

\* The event loop runs every task, a job ends by itself or by its timeout, and
\* a task has only so many files: it does not schedule jobs for ever.
WorkFairness == \A t \in Tasks :
  WF_workVars(TaskRuns(t)) /\ WF_workVars(JobEnds(t)) /\ SF_workVars(SlotReturned(t))

WorkSpec == WorkInit /\ [][WorkNext]_workVars /\ WorkFairness

-----------------------------------------------------------------------------
(* No more image jobs run at once than there are workers, and no more      *)
(* password hashes than allowed, although requests are cancelled while     *)
(* their job or thread goes on (run_in_pool, _hash_and_release).           *)
WorkWithinLimit == Cardinality(Jobs) <= Limit /\ Cardinality(Threads) <= MaxHashes

(* The counters are the tasks they count, on every way out: no slot and no *)
(* place in the waiting room is lost or given back twice.                  *)
CountersMatchTasks ==
  /\ active = Cardinality(Holders)
  /\ queue = Cardinality(Waiters)
  /\ hashing = Cardinality({h \in Hashers : hash[h].thread # "none"})

(* A waiter is admitted or refused, and slots are not lost: some slot is   *)
(* free again and again.                                                   *)
SlotsComeBack ==
  /\ []<>(active < Limit)
  /\ \A t \in Tasks : (task[t] = "waiting") ~> (task[t] \in {"holding", "idle"})
===============================================================================
