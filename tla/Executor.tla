------------------------------ MODULE Executor ------------------------------
(***************************************************************************)
(* lucy-scheduler's bounded background executor                             *)
(* (crates/lucy-scheduler/src/executor.rs).  Three parties touch a job: the *)
(* caller inside spawn(), the tokio task that runs it, and whoever cancels, *)
(* cleans up or shuts down.  They meet at the semaphore and at the RwLock   *)
(* around the job map; an action is what one of them does between awaits.   *)
(***************************************************************************)
EXTENDS Integers, FiniteSets

CONSTANTS Jobs,           \* one spawn() call each
          MaxConcurrent,
          Panicking       \* jobs whose runner panics instead of returning

ASSUME ExecutorAssumption ==
  /\ IsFiniteSet(Jobs)
  /\ MaxConcurrent \in Nat
  /\ Panicking \subseteq Jobs

VARIABLES spawn,    \* where each spawn() call is
          task,     \* where each job's tokio task is
          status,   \* the job map: JobStatus, "absent" when not in the map
          permits,  \* free permits of the semaphore
          aborted,  \* tasks whose JoinHandle was aborted
          shutdown, \* where the shutdown() call is; the flag is set from "flagged" on
          closing   \* ids shutdown() has still to cancel

vars == <<spawn, task, status, permits, aborted, shutdown, closing>>

Active   == {"Pending", "Running"}
Terminal == {"Completed", "Failed", "Cancelled"}
Alive    == {j \in Jobs : task[j] \in {"starting", "running"}}

TypeOK ==
  /\ spawn \in [Jobs -> {"new", "waiting", "acquired", "stored", "refused"}]
  /\ task \in [Jobs -> {"none", "starting", "running", "ended"}]
  /\ status \in [Jobs -> {"absent"} \cup Active \cup Terminal]
  /\ permits \in 0..MaxConcurrent
  /\ aborted \subseteq Jobs
  /\ shutdown \in {"open", "flagged", "closing", "closed"}
  /\ closing \subseteq Jobs

Init ==
  /\ spawn = [j \in Jobs |-> "new"]
  /\ task = [j \in Jobs |-> "none"]
  /\ status = [j \in Jobs |-> "absent"]
  /\ permits = MaxConcurrent
  /\ aborted = {}
  /\ shutdown = "open"
  /\ closing = {}

----------------------------------------------------------------------------
(* spawn() *)

\* The shutdown flag is read once, before the wait for a permit.
Spawn(j) ==
  /\ spawn[j] = "new"
  /\ spawn' = [spawn EXCEPT ![j] = IF shutdown = "open" THEN "waiting" ELSE "refused"]
  /\ UNCHANGED <<task, status, permits, aborted, shutdown, closing>>

\* acquire_owned, then tokio::spawn of the job.
Acquire(j) ==
  /\ spawn[j] = "waiting" /\ permits > 0
  /\ permits' = permits - 1
  /\ spawn' = [spawn EXCEPT ![j] = "acquired"]
  /\ task' = [task EXCEPT ![j] = "starting"]
  /\ UNCHANGED <<status, aborted, shutdown, closing>>

\* The job enters the map only now; its task may already be past the map.
Store(j) ==
  /\ spawn[j] = "acquired"
  /\ spawn' = [spawn EXCEPT ![j] = "stored"]
  /\ status' = [status EXCEPT ![j] = "Pending"]
  /\ UNCHANGED <<task, permits, aborted, shutdown, closing>>

----------------------------------------------------------------------------
(* The job's task.  The permit goes back when the task's future is dropped. *)

End(j) == task' = [task EXCEPT ![j] = "ended"] /\ permits' = permits + 1

SetStatus(j, s) == status' = IF status[j] = "absent" THEN status ELSE [status EXCEPT ![j] = s]

\* Slip: a job cancelled before it started is started anyway.
StartsRegardless(j) ==
  /\ task[j] = "starting"
  /\ task' = [task EXCEPT ![j] = "running"] /\ UNCHANGED permits /\ SetStatus(j, "Running")
  /\ UNCHANGED <<spawn, aborted, shutdown, closing>>

Starts(j) ==
  /\ task[j] = "starting"
  /\ IF status[j] = "Cancelled"
     THEN End(j) /\ UNCHANGED status
     ELSE /\ task' = [task EXCEPT ![j] = "running"] /\ UNCHANGED permits
          /\ SetStatus(j, "Running")
  /\ UNCHANGED <<spawn, aborted, shutdown, closing>>

Finishes(j, outcome) ==
  /\ task[j] = "running" /\ j \notin Panicking
  /\ End(j)
  /\ IF status[j] = "Cancelled" THEN UNCHANGED status ELSE SetStatus(j, outcome)
  /\ UNCHANGED <<spawn, aborted, shutdown, closing>>

\* The runner's panic unwinds the task past its last update of the map.
Panics(j) ==
  /\ task[j] = "running" /\ j \in Panicking
  /\ End(j)
  /\ UNCHANGED <<spawn, status, aborted, shutdown, closing>>

\* Slip: an aborted task keeps its permit.
AbortLeaks(j) ==
  /\ j \in aborted \cap Alive
  /\ task' = [task EXCEPT ![j] = "ended"]
  /\ UNCHANGED <<spawn, status, permits, aborted, shutdown, closing>>

\* abort() takes effect at one of the task's awaits.
AbortLands(j) ==
  /\ j \in aborted \cap Alive
  /\ End(j)
  /\ UNCHANGED <<spawn, status, aborted, shutdown, closing>>

----------------------------------------------------------------------------
(* cancel(), cleanup(), shutdown() *)

CancelJob(j) ==
  /\ status[j] \in Active
  /\ status' = [status EXCEPT ![j] = "Cancelled"]
  /\ aborted' = aborted \cup {j}

Cancel(j) ==
  /\ CancelJob(j)
  /\ UNCHANGED <<spawn, task, permits, shutdown, closing>>

Cleanup ==
  /\ status' = [j \in Jobs |-> IF status[j] \in Active THEN status[j] ELSE "absent"]
  /\ UNCHANGED <<spawn, task, permits, aborted, shutdown, closing>>

Shutdown ==
  /\ shutdown = "open"
  /\ shutdown' = "flagged"
  /\ UNCHANGED <<spawn, task, status, permits, aborted, closing>>

ShutdownLists ==
  /\ shutdown = "flagged"
  /\ closing' = {j \in Jobs : status[j] \in Active}
  /\ shutdown' = "closing"
  /\ UNCHANGED <<spawn, task, status, permits, aborted>>

ShutdownCancels(j) ==
  /\ j \in closing
  /\ closing' = closing \ {j}
  /\ CancelJob(j) \/ (status[j] \notin Active /\ UNCHANGED <<status, aborted>>)
  /\ UNCHANGED <<spawn, task, permits, shutdown>>

ShutdownEnds ==
  /\ shutdown = "closing" /\ closing = {}
  /\ shutdown' = "closed"
  /\ UNCHANGED <<spawn, task, status, permits, aborted, closing>>

----------------------------------------------------------------------------
Runs(j) == \/ Starts(j) \/ Panics(j) \/ AbortLands(j)
           \/ \E outcome \in {"Completed", "Failed"} : Finishes(j, outcome)

Next ==
  \/ \E j \in Jobs : \/ Spawn(j) \/ Acquire(j) \/ Store(j) \/ Runs(j)
                     \/ Cancel(j) \/ ShutdownCancels(j)
  \/ Cleanup \/ Shutdown \/ ShutdownLists \/ ShutdownEnds

Spec == Init /\ [][Next]_vars

\* Runners return or panic, tasks and callers are polled, and the semaphore is
\* a FIFO queue, so a waiting spawn() is not passed over for ever.
FairSpec ==
  /\ Spec
  /\ \A j \in Jobs : SF_vars(Acquire(j)) /\ WF_vars(Store(j)) /\ WF_vars(Runs(j))

----------------------------------------------------------------------------
\* No permit is lost or made: with those of the live tasks they are the pool.
PermitsBalance == permits + Cardinality(Alive) = MaxConcurrent

\* Never more jobs running than the pool has slots.
ConcurrencyLimit == Cardinality(Alive) <= MaxConcurrent

\* A job's record, its spawn() call and its task keep step: nothing is listed
\* before spawn() lists it, and an outcome is listed only for a task that ended.
Lockstep ==
  \A j \in Jobs :
    /\ spawn[j] \in {"new", "waiting", "refused"} => task[j] = "none"
    /\ spawn[j] # "stored" => status[j] = "absent"
    /\ task[j] = "starting" => status[j] \in {"absent", "Pending", "Cancelled"}
    /\ status[j] \in {"Completed", "Failed"} => task[j] = "ended"

\* Through the job list, a job lives the life JobBoard describes.
Listed == {j \in Jobs : spawn[j] = "stored"}
Board  == INSTANCE JobBoard WITH posted <- Listed
JobBoardSpec == Board!Spec
=============================================================================
