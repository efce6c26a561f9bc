------------------------------ MODULE Scheduler ------------------------------
(***************************************************************************)
(* lucy-scheduler's cron scheduler (crates/lucy-scheduler/src/lib.rs): the  *)
(* task map behind its RwLock, and run_pending(), which copies the due      *)
(* tasks out under the read lock and then, with no lock held, runs,         *)
(* delivers and re-arms them one after another.  Time is counted in the     *)
(* minutes cron expressions speak of.                                       *)
(***************************************************************************)
EXTENDS Integers, FiniteSets, FiniteSetsExt

CONSTANTS Tasks,    \* task ids; an id is drawn fresh for every task
          Pollers,  \* callers of run_pending()
          Fires,    \* Fires[t]: the minutes t's cron expression matches
          MaxClock  \* bound on the clock

ASSUME SchedulerAssumption ==
  /\ MaxClock \in Nat
  /\ -1 \notin Tasks
  /\ Fires \in [Tasks -> SUBSET Nat]

None == -1

VARIABLES clock,
          held,    \* tasks built by ScheduledTask::new and not yet scheduled
          tasks,   \* the map: id -> [next_run, last_run, enabled]
          poll,    \* each poller: where it is, the copies it has still to run with
                   \* the slot each was due for, the copy it runs, the run's time
          removed, \* ids that left the map
          quiet,   \* quiet[p]: tasks already cancelled when p's poll copied the map
          ran      \* ran[t]: the slots t has been run for

schedulerVars  == <<clock, held, tasks, poll, removed, quiet, ran>>
Stored == DOMAIN tasks

Run  == [next_run : 0..MaxClock \cup {None}, last_run : 0..MaxClock \cup {None},
         enabled : BOOLEAN]
Idle == [at |-> "idle", due |-> << >>, task |-> None, stamp |-> None]

SchedulerTypeOK ==
  /\ clock \in 0..MaxClock
  /\ held \in [DOMAIN held -> Run] /\ tasks \in [Stored -> Run]
  /\ DOMAIN held \cup Stored \cup removed \subseteq Tasks
  /\ Stored \cap (DOMAIN held \cup removed) = {}
  /\ DOMAIN poll = Pollers
  /\ \A p \in Pollers :
       /\ poll[p].at \in {"idle", "next", "running", "delivering"}
       /\ DOMAIN poll[p].due \subseteq Tasks
       /\ poll[p].due \in [DOMAIN poll[p].due -> 0..MaxClock]
       /\ poll[p].task \in Tasks <=> poll[p].at \in {"running", "delivering"}
       /\ poll[p].stamp \in 0..MaxClock \cup {None}
       /\ poll[p].stamp # None <=> poll[p].at = "delivering"
  /\ quiet \in [Pollers -> SUBSET Tasks]
  /\ ran \in [Tasks -> SUBSET (0..MaxClock)]

SchedulerInit ==
  /\ clock = 0
  /\ held = << >> /\ tasks = << >>
  /\ poll = [p \in Pollers |-> Idle]
  /\ removed = {}
  /\ quiet = [p \in Pollers |-> {}]
  /\ ran = [t \in Tasks |-> {}]

----------------------------------------------------------------------------
\* CronExpression::next_after: the first match strictly after the minute of
\* `from`; none when the search gives up (here: beyond the bound).
NextAfter(t, from) ==
  LET later == {s \in Fires[t] : from < s /\ s <= MaxClock}
  IN IF later = {} THEN None ELSE Min(later)

Put(f, t, v) == [u \in DOMAIN f \cup {t} |-> IF u = t THEN v ELSE f[u]]
Drop(f, t)   == [u \in DOMAIN f \ {t} |-> f[u]]

Tick ==
  /\ clock < MaxClock
  /\ clock' = clock + 1
  /\ UNCHANGED <<held, tasks, poll, removed, quiet, ran>>

\* ScheduledTask::new: the first run is computed here, not when it is scheduled.
New(t) ==
  /\ t \notin DOMAIN held \cup Stored \cup removed
  /\ held' = Put(held, t, [next_run |-> NextAfter(t, clock), last_run |-> None,
                           enabled |-> TRUE])
  /\ UNCHANGED <<clock, tasks, poll, removed, quiet, ran>>

Schedule(t) ==
  /\ t \in DOMAIN held
  /\ tasks' = Put(tasks, t, held[t])
  /\ held' = Drop(held, t)
  /\ UNCHANGED <<clock, poll, removed, quiet, ran>>

CancelTask(t) ==
  /\ t \in Stored
  /\ tasks' = [tasks EXCEPT ![t].enabled = FALSE, ![t].next_run = None]
  /\ UNCHANGED <<clock, held, poll, removed, quiet, ran>>

Remove(t) ==
  /\ t \in Stored
  /\ tasks' = Drop(tasks, t)
  /\ removed' = removed \cup {t}
  /\ UNCHANGED <<clock, held, poll, quiet, ran>>

----------------------------------------------------------------------------
(* run_pending() *)

\* Slip: a cancelled task is due if it has a next run.
DueArmed(t) == tasks[t].next_run # None /\ tasks[t].next_run <= clock

\* Slip: only the current minute's tasks are due.
DueNow(t) == tasks[t].enabled /\ tasks[t].next_run = clock

Due(t) == tasks[t].enabled /\ tasks[t].next_run # None /\ tasks[t].next_run <= clock

Copies == [t \in {u \in Stored : Due(u)} |-> tasks[t].next_run]
Poll(p) ==
  /\ poll[p].at = "idle"
  /\ poll' = [poll EXCEPT ![p] = [Idle EXCEPT !.at = "next", !.due = Copies]]
  /\ quiet' = [quiet EXCEPT ![p] = {t \in Stored : ~tasks[t].enabled}]
  /\ UNCHANGED <<clock, held, tasks, removed, ran>>

\* The runner is called for the next copy, in the map's arbitrary order.
RunTask(p, t) ==
  /\ poll[p].at = "next" /\ t \in DOMAIN poll[p].due
  /\ poll' = [poll EXCEPT ![p] = [poll[p] EXCEPT !.at = "running", !.task = t, !.due = Drop(poll[p].due, t)]]
  /\ ran' = [ran EXCEPT ![t] = @ \cup {poll[p].due[t]}]
  /\ UNCHANGED <<clock, held, tasks, removed, quiet>>

\* The runner answered, well or badly; the time is taken and delivery begins.
Executed(p) ==
  /\ poll[p].at = "running"
  /\ poll' = [poll EXCEPT ![p] = [poll[p] EXCEPT !.at = "delivering", !.stamp = clock]]
  /\ UNCHANGED <<clock, held, tasks, removed, quiet, ran>>

\* Delivery is over, its failure only logged; the stored task is re-armed.
Rearm(p) ==
  /\ poll[p].at = "delivering"
  /\ LET t == poll[p].task
     IN tasks' = IF t \in Stored
                 THEN [tasks EXCEPT ![t].last_run = poll[p].stamp,
                                    ![t].next_run = NextAfter(t, poll[p].stamp)]
                 ELSE tasks
  /\ poll' = [poll EXCEPT ![p] = [poll[p] EXCEPT !.at = "next", !.task = None, !.stamp = None]]
  /\ UNCHANGED <<clock, held, removed, quiet, ran>>

PollEnds(p) ==
  /\ poll[p].at = "next" /\ poll[p].due = << >>
  /\ poll' = [poll EXCEPT ![p] = Idle]
  /\ quiet' = [quiet EXCEPT ![p] = {}]
  /\ UNCHANGED <<clock, held, tasks, removed, ran>>

----------------------------------------------------------------------------
Continues(p) == Executed(p) \/ Rearm(p) \/ PollEnds(p) \/ \E t \in Tasks : RunTask(p, t)

SchedulerNext ==
  \/ Tick
  \/ \E t \in Tasks : New(t) \/ Schedule(t) \/ CancelTask(t) \/ Remove(t)
  \/ \E p \in Pollers : Poll(p) \/ Continues(p)

SchedulerSpec == SchedulerInit /\ [][SchedulerNext]_schedulerVars

\* Somebody keeps calling run_pending(), and every runner and delivery returns.
SchedulerFairSpec == SchedulerSpec /\ \A p \in Pollers : WF_schedulerVars(Poll(p)) /\ WF_schedulerVars(Continues(p))

----------------------------------------------------------------------------
\* What a user withdraws stays withdrawn although a poll works on a copy made
\* before: no poll runs a task that was cancelled before it copied the map, and
\* a removed task does not come back when the poll running it re-arms it.
WithdrawalHolds ==
  /\ \A p \in Pollers : poll[p].at = "running" => poll[p].task \notin quiet[p]
  /\ Stored \cap removed = {}

\* What is behind it: a poll's copies were armed when it made them, and no task
\* is both outside the map and in it.
PollFields == {"at", "due", "task", "stamp"}
WithdrawalInv ==
  /\ SchedulerTypeOK /\ WithdrawalHolds
  /\ DOMAIN held \cap removed = {}
  /\ \A p \in Pollers : DOMAIN poll[p] = PollFields /\ DOMAIN poll[p].due \cap quiet[p] = {}

\* With one caller, a task that has come due is run for that slot, however long
\* other tasks keep the poll busy, unless it is cancelled or removed first.
DueTaskRuns ==
  \A t \in Tasks, slot \in 0..MaxClock :
    (t \in Stored /\ tasks[t].next_run = slot /\ Due(t))
      ~> (slot \in ran[t] \/ t \notin Stored \/ ~tasks[t].enabled)
=============================================================================
